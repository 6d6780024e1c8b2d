-------------------------- MODULE FileStoreProofs --------------------------
(***************************************************************************)
(* The storage operations (FileManager.tla) implement the atomic store of  *)
(* FileStore.tla: every step of an operation is a step of the store or     *)
(* leaves it as it is.                                                     *)
(***************************************************************************)
EXTENDS FileContentsProofs

-----------------------------------------------------------------------------
(* Operations. *)

\* The state of a store operation at label p, once its result is ok.
StateAt(p, ok) ==
    IF p = "save_recv" THEN "writing"
    ELSE IF p \in {"delete_index", "rename_size", "rename_remove", "rename_add"} THEN "ok"
    ELSE IF p \in {"discard", "save_discard"} THEN "failed"
    ELSE IF p \notin Returning THEN "called"
    ELSE IF ok THEN "ok" ELSE "failed"

(* It follows from the label: there is no result before the way out. *)
LEMMA StateOf ==
    ASSUME NEW t
    PROVE  /\ Transfer(t) /\ pc[t] # "idle" =>
                StoreState(t) = StateAt(pc[t], frame[t].ok)
           /\ Transfer(t)' /\ pc'[t] # "idle" =>
                StoreState(t)' = StateAt(pc'[t], frame'[t].ok)
BY DEF StoreState, StateAt, Uploading, Transfer, Returning

(* A store operation is never taken for None. *)
LEMMA OpIsOp ==
    ASSUME StorageInv, NEW t \in Threads, IsStoreOp(t)
    PROVE  /\ StoreOps[t] = StoreOp(t) /\ StoreOps[t] # None
           /\ FileOf[frame[t].key] \in Files /\ FileOf[frame[t].to] \in Files
<1>1. FrameOK(frame[t])
  BY DEF StorageInv, TypeOK, IsStoreOp
<1>2. frame[t].key \in Keys /\ frame[t].to \in Keys
  BY <1>1 DEF FrameOK, IsStoreOp, FileOps
<1>3. FileOf[frame[t].key] \in Files /\ FileOf[frame[t].to] \in Files
  BY <1>2, StorageAssumption
<1>4. StoreState(t) \in {"called", "writing", "ok", "failed"}
  BY DEF StoreState
<1>5. StoreOp(t) \in [what : FileOps, file : Files, to : Files, data : Seq(Chunks),
                      state : {"called", "writing", "ok", "failed"},
                      got : Seq(Chunks) \cup {None}]
  BY <1>1, <1>3, <1>4 DEF StoreOp, IsStoreOp, FrameOK
<1> QED
  BY <1>3, <1>5, StoreAssumption DEF StoreOps

(* A step changes the operation of its thread only. *)
LEMMA OpsChange ==
    ASSUME StorageInv, NEW t \in Threads, OpStep(t)
    PROVE  /\ IsStoreOp(t)' <=> IsStoreOp(t)
           /\ ~IsStoreOp(t) => StoreOps' = StoreOps
           /\ IsStoreOp(t) => StoreOps' = [StoreOps EXCEPT ![t] = StoreOp(t)']
<1>1. IsStoreOp(t)' <=> IsStoreOp(t)
  BY KeepsRequest DEF IsStoreOp
<1>2. ASSUME NEW s \in Threads \ {t}
      PROVE  /\ IsStoreOp(s)' <=> IsStoreOp(s)
             /\ StoreOp(s)' = StoreOp(s)
  BY <1>2, OpOthers DEF IsStoreOp, StoreOp, StoreState, Uploading
<1> QED
  BY <1>1, <1>2 DEF StoreOps

\* A download has nothing to show before it succeeds, and then keeps it.
SameResult(t) ==
    frame[t].op = "stream" => /\ frame'[t].ok = frame[t].ok
                              /\ frame[t].ok => frame'[t].sent = frame[t].sent

(* A step that changes at most the state of the operation. *)
LEMMA StateChange ==
    ASSUME StorageInv, NEW t \in Threads, OpStep(t), IsStoreOp(t), SameResult(t)
    PROVE  StoreOps' = [StoreOps EXCEPT ![t].state = StoreState(t)']
<1>1. StoreOp(t)' = [StoreOp(t) EXCEPT !.state = StoreState(t)']
  BY KeepsRequest DEF StoreOp, SameResult
<1>2. StoreOps[t] = StoreOp(t) /\ t \in DOMAIN StoreOps
  BY OpIsOp DEF StoreOps
<1> QED
  BY <1>1, <1>2, OpsChange

(* Whatever changes the state shows in the operation. *)
LEMMA StateShows ==
    ASSUME StorageInv, NEW t \in Threads, OpStep(t), IsStoreOp(t),
           StoreState(t)' # StoreState(t)
    PROVE  StoreOps'[t] # StoreOps[t]
<1>1. StoreOps[t] = StoreOp(t) /\ t \in DOMAIN StoreOps
  BY OpIsOp DEF StoreOps
<1>2. StoreOp(t).state = StoreState(t) /\ StoreOp(t)'.state = StoreState(t)'
  BY DEF StoreOp
<1> QED
  BY <1>1, <1>2, OpsChange

(* A step that does not change the state leaves all operations alone. *)
LEMMA OpsStay ==
    ASSUME StorageInv, NEW t \in Threads, OpStep(t), SameResult(t),
           IsStoreOp(t) => StoreState(t)' = StoreState(t)
    PROVE  StoreOps' = StoreOps
<1>1. CASE IsStoreOp(t)
  <2>1. StoreOp(t)' = StoreOp(t)
    BY <1>1, KeepsRequest DEF StoreOp, SameResult
  <2>2. StoreOps[t] = StoreOp(t) /\ StoreOps = [s \in Threads |-> StoreOps[s]]
    BY <1>1, OpIsOp DEF StoreOps
  <2> QED
    BY <1>1, <2>1, <2>2, OpsChange
<1> QED
  BY <1>1, OpsChange

-----------------------------------------------------------------------------
(* Contents. *)

(* Who holds a file's mutex shares it with no upload of another thread. *)
LEMMA HolderAlone ==
    ASSUME OneKeyPerFile, StorageInv, NoWrap, NEW t \in Threads, NEW k \in Keys,
           Holds(t, k)
    PROVE  Uploaders(FileOf[k]) \subseteq {t}
<1> SUFFICES ASSUME NEW s \in Uploaders(FileOf[k]), s # t PROVE FALSE
  OBVIOUS
<1>1. s \in Threads /\ pc[s] = "save_recv" /\ FileOf[frame[s].key] = FileOf[k]
  BY DEF Uploaders, Uploading
<1>2. frame[s].key \in Keys /\ HoldsExclusive(s, frame[s].key)
  BY <1>1, UpdatesOwn DEF UpdatingLabels, UnsettledLabels, HasLocked, OpKeys
<1>3. frame[s].key = k
  BY <1>1, <1>2 DEF OneKeyPerFile
<1> QED
  BY <1>1, <1>2, <1>3, UpdatesApart DEF Holds

(* The store shows an upload from its beginning, and otherwise the disk. *)
LEMMA Shown ==
    ASSUME NEW t, NEW f \in Files
    PROVE  /\ Uploaders(f) = {} => StoreContents[f] = disk[f]
           /\ Uploaders(f) = {t} => StoreContents[f] = frame[t].data
           /\ Uploaders(f)' = {} => StoreContents'[f] = disk'[f]
           /\ Uploaders(f)' = {t} => StoreContents'[f] = frame'[t].data
<1>1. (CHOOSE s \in {t} : TRUE) = t
  OBVIOUS
<1> QED
  BY <1>1 DEF StoreContents

(* A file that thread t neither changes nor uploads keeps what is shown. *)
LEMMA ShownStays ==
    ASSUME StorageInv, NEW t \in Threads, OpStep(t), NEW f \in Files,
           disk'[f] = disk[f],
           ~(pc[t] = "save_recv" /\ FileOf[frame[t].key] = f),
           ~(pc'[t] = "save_recv" /\ FileOf[frame[t].key] = f)
    PROVE  StoreContents'[f] = StoreContents[f]
<1>1. \A s \in Threads \ {t} : pc'[s] = pc[s] /\ frame'[s] = frame[s]
  BY OpOthers
<1>2. Uploaders(f)' = Uploaders(f) /\ Uploaders(f) \subseteq Threads \ {t}
  BY <1>1, KeepsRequest DEF Uploaders, Uploading
<1>3. CASE Uploaders(f) = {}
  BY <1>2, <1>3, Shown
<1>4. CASE Uploaders(f) # {}
  <2> DEFINE s == CHOOSE s \in Uploaders(f) : TRUE
  <2>1. s \in Uploaders(f)
    BY <1>4
  <2>2. StoreContents[f] = frame[s].data
    BY <1>4 DEF StoreContents
  <2>3. StoreContents'[f] = frame'[s].data
    BY <1>2, <1>4 DEF StoreContents
  <2> HIDE DEF s
  <2> QED
    BY <1>1, <1>2, <2>1, <2>2, <2>3
<1> QED
  BY <1>3, <1>4

(* The store's writers are the uploads. *)
LEMMA UploadsShown ==
    ASSUME StorageInv, NEW s \in Threads,
           StoreOps[s] # None, StoreOps[s].what = "save", StoreOps[s].state = "writing"
    PROVE  s \in Uploaders(StoreOps[s].file) /\ StoreOps[s].data = frame[s].data
<1>1. IsStoreOp(s) /\ StoreOps[s] = StoreOp(s)
  BY DEF StoreOps
<1>2. StoreState(s) = "writing" /\ StoreOps[s].file = FileOf[frame[s].key]
      /\ StoreOps[s].data = frame[s].data
  BY <1>1 DEF StoreOp
<1>3. Uploading(s)
  BY <1>2 DEF StoreState
<1> QED
  BY <1>2, <1>3 DEF Uploaders

(* The store's contents are equal when they are equal file by file. *)
LEMMA ContentsStay ==
    ASSUME \A f \in Files : StoreContents'[f] = StoreContents[f]
    PROVE  StoreContents' = StoreContents
BY DEF StoreContents

(* A change of one file. *)
LEMMA ContentsChange ==
    ASSUME NEW g \in Files, NEW c,
           \A f \in Files : StoreContents'[f] = IF f = g THEN c ELSE StoreContents[f]
    PROVE  StoreContents' = [StoreContents EXCEPT ![g] = c]
<1>1. /\ StoreContents = [f \in Files |-> StoreContents[f]]
      /\ StoreContents' = [f \in Files |-> StoreContents'[f]]
  BY DEF StoreContents
<1> QED
  BY <1>1

-----------------------------------------------------------------------------
(* The steps of an operation. *)

\* The store takes a step of thread t, or none.
StoreStep(t) == Store!Step(t) \/ UNCHANGED <<StoreContents, StoreOps>>

(* The steps that move no contents and look up no file leave the store as  *)
(* it is.                                                                  *)
LEMMA OtherStepsStutter ==
    ASSUME StorageInv, NEW t \in Threads, OpStep(t), Transfer(t), Transfer(t)',
           ~TransferStep(t)
    PROVE  UNCHANGED <<StoreContents, StoreOps>>
<1>1. pc \in [Threads -> Labels] /\ DOMAIN frame = Threads
  BY DEF StorageInv, TypeOK
<1>2. /\ pc[t] # "idle" /\ pc'[t] # "idle" /\ FrameOK(frame[t]) /\ FrameAt(t)
      /\ frame'[t].op = frame[t].op
  BY KeepsRequest
<1>3. StoreContents' = StoreContents
  BY OtherStepsTransferNothing, ShownStays, ContentsStay
<1>4. SameResult(t)
  BY OtherStepsTransferNothing DEF SameResult
<1>5. IsStoreOp(t) => StoreState(t)' = StoreState(t)
  <2>1. StoreState(t) = StateAt(pc[t], frame[t].ok)
    BY <1>2, StateOf
  <2>2. StoreState(t)' = StateAt(pc'[t], frame'[t].ok)
    BY <1>2, StateOf
  <2>3. pc[t] \notin Returning => ~frame[t].ok
    BY <1>2 DEF Transfer
  <2> SUFFICES ASSUME IsStoreOp(t)
               PROVE  StateAt(pc'[t], frame'[t].ok) = StateAt(pc[t], frame[t].ok)
    BY <2>1, <2>2
  <2> USE <1>1, <1>2 DEF GoTo, Then, Returning, StateAt, FrameOK
  <2>4. CASE DiscardChunk(t) \/ DiscardEnd(t)
    BY <2>3, <2>4 DEF DiscardChunk, DiscardEnd
  <2>5. CASE SizeGet(t)
    BY <2>5 DEF SizeGet, FrameAt, IsStoreOp, FileOps
  <2>6. CASE DeleteIndex(t) \/ RenameSize(t) \/ RenameRemove(t) \/ RenameAdd(t)
    BY <2>6 DEF DeleteIndex, RenameSize, RenameRemove, RenameAdd
  <2>7. CASE SaveRef(t) \/ StreamRef(t) \/ DeleteRef(t) \/ RenameRefOld(t)
               \/ RenameRefNew(t) \/ SaveLock(t) \/ StreamLock(t) \/ DeleteLock(t)
    BY <2>7 DEF SaveRef, StreamRef, DeleteRef, RenameRefOld, RenameRefNew, SaveLock,
       StreamLock, DeleteLock
  <2>8. CASE RenameFirst(t) \/ RenameSecond(t) \/ RenameBackOff(t)
    BY <2>8 DEF RenameFirst, RenameSecond, RenameBackOff
  <2>9. CASE Unlock(t) \/ Unwind(t) \/ Release(t) \/ Drop(t)
    BY <2>9 DEF Unlock, Unwind, Release, Drop
  <2> QED
    BY <2>4, <2>5, <2>6, <2>7, <2>8, <2>9 DEF OpStep, TransferStep
<1> QED
  BY <1>3, <1>4, <1>5, OpsStay

(* An operation that fails without having touched a file. *)
LEMMA RejectStep ==
    ASSUME StorageInv, NEW t \in Threads, OpStep(t), IsStoreOp(t), SameResult(t),
           StoreState(t) = "called", StoreState(t)' = "failed",
           UNCHANGED StoreContents
    PROVE  Store!Step(t)
<1>1. StoreOps[t] = StoreOp(t) /\ StoreOps[t] # None /\ t \in DOMAIN StoreOps
  BY OpIsOp DEF StoreOps
<1>2. StoreOp(t).state = "called"
  BY DEF StoreOp
<1>3. StoreOps' = [StoreOps EXCEPT ![t].state = "failed"]
  BY StateChange
<1>4. StoreOps'[t] # StoreOps[t]
  BY StateShows
<1> QED
  BY <1>1, <1>2, <1>3, <1>4 DEF Store!Step, Store!Reject, Store!Becomes

(* save_file: the upload takes effect when the file is truncated. *)
LEMMA SaveOpenStep ==
    ASSUME OneKeyPerFile, StorageInv, NoWrap, NEW t \in Threads, OpStep(t), Transfer(t),
           Transfer(t)', SaveOpen(t)
    PROVE  StoreStep(t)
<1>1. /\ pc \in [Threads -> Labels] /\ DOMAIN frame = Threads
      /\ disk \in [Files -> Seq(Chunks) \cup {None}] /\ TypeOK
  BY DEF StorageInv, TypeOK
<1>2. pc[t] = "save_open" /\ frame' = frame /\ frame[t].op = "save"
  BY KeepsRequest DEF SaveOpen, Then, FrameAt
<1>3. PICK k \in Keys : k = frame[t].key /\ Holds(t, k)
  BY <1>2, InOperation DEF StorageInv, LocksFollowControl, LocksAt, HasLocked, OpKeys,
     Holds, WriteLabels
<1>4. IsStoreOp(t) /\ SameResult(t) /\ StoreState(t) = "called"
  BY <1>2, StateOf DEF IsStoreOp, FileOps, SameResult, StateAt, Returning
<1>5. FileOf[k] \in Files /\ Uploaders(FileOf[k]) = {}
  BY <1>2, <1>3, HolderAlone, StorageAssumption DEF Uploaders, Uploading
<1>6. CASE Then(t, "save_discard")
  <2>1. pc'[t] = "save_discard" /\ disk' = disk
    BY <1>1, <1>6 DEF Then, GoTo, diskVars
  <2>2. StoreState(t)' = "failed"
    BY <2>1, StateOf DEF StateAt
  <2>3. StoreContents' = StoreContents
    BY <1>2, <2>1, ShownStays, ContentsStay
  <2> QED
    BY <1>4, <2>2, <2>3, RejectStep DEF StoreStep
<1>7. CASE ~Then(t, "save_discard")
  <2>1. pc'[t] = "save_recv" /\ SetFile(k, <<>>)
    BY <1>1, <1>3, <1>7 DEF SaveOpen, GoTo
  <2>2. StoreState(t)' = "writing"
    BY <2>1, StateOf DEF StateAt
  <2>3. Uploaders(FileOf[k])' = {t}
    BY <1>2, <1>3, <1>5, <2>1, OpOthers DEF Uploaders, Uploading
  <2>4. ASSUME NEW f \in Files
        PROVE  StoreContents'[f] = IF f = FileOf[k] THEN frame[t].data ELSE StoreContents[f]
    <3>1. CASE f = FileOf[k]
      BY <1>2, <2>3, <3>1, Shown
    <3>2. CASE f # FileOf[k]
      <4>1. disk'[f] = disk[f]
        BY <1>1, <2>1, <3>2 DEF SetFile
      <4> QED
        BY <1>3, <3>2, <4>1, ShownStays
    <3> QED
      BY <3>1, <3>2
  <2>5. StoreContents' = [StoreContents EXCEPT ![FileOf[k]] = frame[t].data]
    BY <1>5, <2>4, ContentsChange
  <2>6. /\ StoreOps[t] = StoreOp(t) /\ StoreOps[t] # None
        /\ StoreOps' = [StoreOps EXCEPT ![t].state = "writing"]
        /\ StoreOps'[t] # StoreOps[t]
    BY <1>4, <2>2, OpIsOp, StateChange, StateShows
  <2>7. /\ StoreOp(t).what = "save" /\ StoreOp(t).state = "called"
        /\ StoreOp(t).file = FileOf[k] /\ StoreOp(t).data = frame[t].data
    BY <1>2, <1>3, <1>4 DEF StoreOp
  <2>8. Store!Settled(FileOf[k])
    BY <1>5, UploadsShown, SMTT(30) DEF Store!Settled, Store!Is
  <2> QED
    BY <2>5, <2>6, <2>7, <2>8
    DEF StoreStep, Store!Step, Store!Write, Store!Is, Store!Leave, Store!Becomes
<1> QED
  BY <1>6, <1>7

(* A beginning is one of the prefixes a broken upload may leave. *)
LEMMA BeginsPrefix ==
    ASSUME NEW s \in Seq(Chunks), NEW c \in Seq(Chunks), Begins(s, c)
    PROVE  s \in Store!Prefixes(c)
<1>1. Len(s) \in 0 .. Len(c)
  BY DEF Begins
<1>2. SubSeq(c, 1, Len(s)) \in Seq(Chunks) /\ Len(SubSeq(c, 1, Len(s))) = Len(s)
  BY <1>1
<1>3. \A i \in 1 .. Len(s) : SubSeq(c, 1, Len(s))[i] = s[i]
  BY <1>1 DEF Begins
<1>4. s = SubSeq(c, 1, Len(s))
  BY <1>2, <1>3
<1> QED
  BY <1>1, <1>4 DEF Store!Prefixes

(* The state of an upload while it arrives, concrete and abstract. *)
LEMMA UploadUnderWay ==
    ASSUME OneKeyPerFile, StorageInv, NoWrap, NEW t \in Threads, OpStep(t), Transfer(t),
           UpdatedSoFar(t), pc[t] = "save_recv", NEW k, k = frame[t].key
    PROVE  /\ k \in Keys /\ FileOf[k] \in Files /\ Uploaders(FileOf[k]) = {t}
           /\ IsStoreOp(t) /\ SameResult(t)
           /\ StoreState(t) = "writing" /\ StoreOps[t] = StoreOp(t) /\ StoreOps[t] # None
           /\ StoreOp(t).what = "save" /\ StoreOp(t).state = "writing"
           /\ StoreOp(t).file = FileOf[k] /\ StoreOp(t).data = frame[t].data
           /\ File(k) \in Seq(Chunks) /\ frame[t].data \in Seq(Chunks)
           /\ Begins(File(k), frame[t].data)
<1>1. disk \in [Files -> Seq(Chunks) \cup {None}]
  BY DEF StorageInv, TypeOK
<1>2. FrameOK(frame[t]) /\ frame[t].op = "save" /\ frame'[t].op = "save"
  BY KeepsRequest DEF FrameAt
<1>3. k \in Keys /\ Holds(t, k)
  BY UpdatesOwn DEF UpdatingLabels, UnsettledLabels, HasLocked, OpKeys, Holds
<1>4. FileOf[k] \in Files /\ Uploaders(FileOf[k]) = {t}
  BY <1>3, HolderAlone, StorageAssumption DEF Uploaders, Uploading
<1>5. IsStoreOp(t) /\ SameResult(t)
  BY <1>2 DEF IsStoreOp, FileOps, SameResult
<1>6. StoreState(t) = "writing"
  BY StateOf DEF StateAt
<1>7. StoreOps[t] = StoreOp(t) /\ StoreOps[t] # None
  BY <1>5, OpIsOp
<1>8. /\ StoreOp(t).what = "save" /\ StoreOp(t).state = "writing"
      /\ StoreOp(t).file = FileOf[k] /\ StoreOp(t).data = frame[t].data
  BY <1>2, <1>6 DEF StoreOp
<1>9. File(k) \in Seq(Chunks) /\ frame[t].data \in Seq(Chunks)
  BY <1>1, <1>2, <1>4 DEF UpdatedSoFar, File, FrameOK
<1>10. Begins(File(k), frame[t].data)
  BY DEF Transfer
<1> QED
  BY <1>3, <1>4, <1>5, <1>6, <1>7, <1>8, <1>9, <1>10

(* Nobody sees the chunks arrive. *)
LEMMA SaveChunkStep ==
    ASSUME OneKeyPerFile, StorageInv, NoWrap, NEW t \in Threads, OpStep(t), Transfer(t),
           Transfer(t)', UpdatedSoFar(t), SaveChunk(t)
    PROVE  StoreStep(t)
<1>1. disk \in [Files -> Seq(Chunks) \cup {None}] /\ pc[t] = "save_recv" /\ pc' = pc
  BY DEF StorageInv, TypeOK, SaveChunk
<1>2. PICK k : k = frame[t].key
  OBVIOUS
<1>3. /\ k \in Keys /\ FileOf[k] \in Files /\ Uploaders(FileOf[k]) = {t}
      /\ SameResult(t) /\ StoreState(t) = "writing"
  BY <1>1, <1>2, UploadUnderWay
<1>4. StoreState(t)' = "writing"
  BY <1>1, StateOf DEF StateAt
<1>5. Uploaders(FileOf[k])' = {t} /\ frame'[t].data = frame[t].data
  BY <1>1, <1>2, <1>3, KeepsRequest, OpOthers DEF Uploaders, Uploading
<1>6. ASSUME NEW f \in Files PROVE StoreContents'[f] = StoreContents[f]
  <2>1. CASE f = FileOf[k]
    BY <1>3, <1>5, <2>1, Shown
  <2>2. CASE f # FileOf[k]
    <3>1. disk'[f] = disk[f]
      BY <1>1, <1>2, <2>2 DEF SaveChunk, SetFile
    <3> QED
      BY <1>2, <2>2, <3>1, ShownStays
  <2> QED
    BY <2>1, <2>2
<1> QED
  BY <1>3, <1>4, <1>6, OpsStay, ContentsStay DEF StoreStep

(* The end of an upload shows what is on the disk then. *)
LEMMA UploadEnds ==
    ASSUME OneKeyPerFile, StorageInv, NoWrap, NEW t \in Threads, OpStep(t), Transfer(t),
           UpdatedSoFar(t), pc[t] = "save_recv", pc'[t] # "save_recv",
           NEW k, k = frame[t].key,
           \A f \in Files \ {FileOf[k]} : disk'[f] = disk[f]
    PROVE  StoreContents' = [StoreContents EXCEPT ![FileOf[k]] = File(k)']
<1>1. k \in Keys /\ FileOf[k] \in Files /\ Uploaders(FileOf[k]) = {t}
  BY UploadUnderWay
<1>2. Uploaders(FileOf[k])' = {}
  BY <1>1, OpOthers DEF Uploaders, Uploading
<1>3. ASSUME NEW f \in Files
      PROVE  StoreContents'[f] = IF f = FileOf[k] THEN disk'[FileOf[k]] ELSE StoreContents[f]
  <2>1. CASE f = FileOf[k]
    BY <1>2, <2>1, Shown
  <2>2. CASE f # FileOf[k]
    BY <2>2, ShownStays
  <2> QED
    BY <2>1, <2>2
<1>4. StoreContents' = [StoreContents EXCEPT ![FileOf[k]] = disk'[FileOf[k]]]
  BY <1>1, <1>3, ContentsChange
<1> QED
  BY <1>4 DEF File

(* save_file: an upload that breaks off leaves no file, or its beginning   *)
(* if that cannot be removed.                                              *)
LEMMA SaveNetErrorStep ==
    ASSUME OneKeyPerFile, StorageInv, NoWrap, NEW t \in Threads, OpStep(t), Transfer(t),
           Transfer(t)', UpdatedSoFar(t), SaveNetError(t)
    PROVE  StoreStep(t)
<1>1. /\ pc \in [Threads -> Labels] /\ disk \in [Files -> Seq(Chunks) \cup {None}]
      /\ TypeOK
  BY DEF StorageInv, TypeOK
<1>2. pc[t] = "save_recv" /\ pc'[t] = "unwind" /\ frame' = frame
  BY <1>1 DEF SaveNetError, GoTo
<1>3. PICK k : k = frame[t].key
  OBVIOUS
<1>4. /\ k \in Keys /\ FileOf[k] \in Files /\ IsStoreOp(t) /\ SameResult(t)
      /\ StoreState(t) = "writing" /\ StoreOps[t] = StoreOp(t) /\ StoreOps[t] # None
      /\ StoreOp(t).what = "save" /\ StoreOp(t).state = "writing"
      /\ StoreOp(t).file = FileOf[k] /\ StoreOp(t).data = frame[t].data
      /\ File(k) \in Store!Prefixes(frame[t].data)
  BY <1>2, <1>3, UploadUnderWay, BeginsPrefix
<1>5. ~frame[t].ok /\ StoreState(t)' = "failed"
  BY <1>2, StateOf DEF StateAt, Transfer, Returning
<1>6. \/ File(k)' = None
      \/ "remove" \in Faults /\ File(k)' = File(k)
  <2>1. CASE SetFile(k, None)
    BY <1>1, <1>4, <2>1, SetFileOnly
  <2>2. CASE ~SetFile(k, None)
    BY <1>3, <2>2 DEF SaveNetError, File
  <2> QED
    BY <2>1, <2>2
<1>7. StoreContents' = [StoreContents EXCEPT ![FileOf[k]] = File(k)']
  <2>1. \A f \in Files \ {FileOf[k]} : disk'[f] = disk[f]
    BY <1>1, <1>3 DEF SaveNetError, SetFile
  <2> QED
    BY <1>2, <1>3, <2>1, UploadEnds
<1>8. File(k)' \in {None} \cup Store!Remains(t, "remove")
  BY <1>4, <1>6 DEF Store!Remains
<1>9. /\ StoreOps' = [StoreOps EXCEPT ![t].state = "failed"]
      /\ StoreOps'[t] # StoreOps[t]
  BY <1>4, <1>5, StateChange, StateShows
<1>10. Store!BreakOff(t)
  BY <1>4, <1>7, <1>8, <1>9 DEF Store!BreakOff, Store!Is, Store!Leave, Store!Becomes
<1> QED
  BY <1>9, <1>10 DEF StoreStep, Store!Step

(* save_file: a complete upload is what the store has shown all the time,  *)
(* unless the disk refused a part of it.                                   *)
LEMMA SaveIndexStep ==
    ASSUME OneKeyPerFile, StorageInv, NoWrap, NEW t \in Threads, OpStep(t), Transfer(t),
           Transfer(t)', UpdatedSoFar(t), SaveIndex(t)
    PROVE  StoreStep(t)
<1>1. pc \in [Threads -> Labels] /\ DOMAIN frame = Threads
  BY DEF StorageInv, TypeOK
<1>2. /\ pc[t] = "save_recv" /\ pc'[t] = "unlock" /\ disk' = disk
      /\ FrameOK(frame[t]) /\ frame'[t].ok /\ Len(frame[t].data) - frame[t].pos = 0
  <2>1. pc[t] = "save_recv" /\ pc'[t] = "unlock" /\ disk' = disk
    BY <1>1 DEF SaveIndex, GoTo
  <2>2. FrameOK(frame[t])
    BY <2>1, KeepsRequest
  <2>3. frame'[t].ok
    BY <1>1, <2>2 DEF SaveIndex, FrameOK
  <2>4. Len(frame[t].data) - frame[t].pos = 0
    BY DEF SaveIndex, Remaining
  <2> QED
    BY <2>1, <2>2, <2>3, <2>4
<1>3. PICK k : k = frame[t].key
  OBVIOUS
<1>4. /\ k \in Keys /\ FileOf[k] \in Files /\ IsStoreOp(t) /\ SameResult(t)
      /\ StoreState(t) = "writing" /\ StoreOps[t] = StoreOp(t) /\ StoreOps[t] # None
      /\ StoreOp(t).what = "save" /\ StoreOp(t).state = "writing"
      /\ StoreOp(t).file = FileOf[k] /\ StoreOp(t).data = frame[t].data
      /\ File(k) \in Seq(Chunks) /\ frame[t].data \in Seq(Chunks)
      /\ Begins(File(k), frame[t].data)
  BY <1>2, <1>3, UploadUnderWay
<1>5. StoreState(t)' = "ok"
  BY <1>2, StateOf DEF StateAt, Returning
<1>6. File(k)' = File(k)
  BY <1>2 DEF File
<1>7. StoreContents' = [StoreContents EXCEPT ![FileOf[k]] = File(k)']
  BY <1>2, <1>3, UploadEnds
<1>8. File(k)' \in {frame[t].data} \cup Store!Remains(t, "write")
  <2>1. CASE frame[t].good
    <3>1. Len(File(k)) = frame[t].pos
      BY <1>2, <1>3, <2>1 DEF UpdatedSoFar
    <3>2. Len(File(k)) >= Len(frame[t].data)
      BY <1>2, <1>4, <3>1 DEF FrameOK
    <3>3. File(k) = frame[t].data
      BY <1>4, <3>2, BeginsAll
    <3> QED
      BY <1>6, <3>3
  <2>2. CASE ~frame[t].good
    <3>1. "write" \in Faults
      BY <1>2, <2>2 DEF Transfer
    <3>2. File(k) \in Store!Prefixes(frame[t].data)
      BY <1>4, BeginsPrefix
    <3> QED
      BY <1>4, <1>6, <3>1, <3>2 DEF Store!Remains
  <2> QED
    BY <2>1, <2>2
<1>9. /\ StoreOps' = [StoreOps EXCEPT ![t].state = "ok"]
      /\ StoreOps'[t] # StoreOps[t]
  BY <1>4, <1>5, StateChange, StateShows
<1>10. Store!Written(t)
  BY <1>4, <1>7, <1>8, <1>9 DEF Store!Written, Store!Is, Store!Leave, Store!Becomes
<1> QED
  BY <1>9, <1>10 DEF StoreStep, Store!Step

(* An operation other than an upload, while it holds the files it is about *)
(* to read or change.                                                      *)
LEMMA HeldFiles ==
    ASSUME OneKeyPerFile, StorageInv, NoWrap, NEW t \in Threads, OpStep(t), Transfer(t),
           pc[t] \in {"stream_open", "stream_send", "delete_remove", "rename_check",
                      "rename_move"},
           NEW k, NEW j, k = frame[t].key, j = frame[t].to
    PROVE  /\ k \in Keys /\ j \in Keys /\ FileOf[k] \in Files /\ FileOf[j] \in Files
           /\ Uploaders(FileOf[k]) = {} /\ Uploaders(FileOf[j]) = {}
           /\ StoreContents[FileOf[k]] = File(k) /\ StoreContents[FileOf[j]] = File(j)
           /\ Store!Settled(FileOf[k]) /\ Store!Settled(FileOf[j])
           /\ IsStoreOp(t) /\ StoreState(t) = "called" /\ ~frame[t].ok
           /\ StoreOps[t] = StoreOp(t) /\ StoreOps[t] # None
           /\ StoreOp(t).what = frame[t].op /\ StoreOp(t).state = "called"
           /\ StoreOp(t).file = FileOf[k] /\ StoreOp(t).to = FileOf[j]
<1>1. k \in Keys /\ j \in Keys
  BY InOperation DEF StorageInv
<1>2. Holds(t, k) /\ Holds(t, j)
  BY <1>1, ZenonT(60) DEF StorageInv, LocksFollowControl, LocksAt, HasLocked, OpKeys, Holds,
     ReadLabels, WriteLabels
<1>3. FileOf[k] \in Files /\ FileOf[j] \in Files
  BY <1>1, StorageAssumption
<1>4. Uploaders(FileOf[k]) = {} /\ Uploaders(FileOf[j]) = {}
  <2>1. t \notin Uploaders(FileOf[k]) /\ t \notin Uploaders(FileOf[j])
    BY DEF Uploaders, Uploading
  <2> QED
    BY <1>1, <1>2, <2>1, HolderAlone
<1>5. StoreContents[FileOf[k]] = File(k) /\ StoreContents[FileOf[j]] = File(j)
  BY <1>3, <1>4, Shown DEF File
<1>6. Store!Settled(FileOf[k]) /\ Store!Settled(FileOf[j])
  BY <1>4, UploadsShown DEF Store!Settled, Store!Is
<1>7. IsStoreOp(t)
  BY KeepsRequest DEF IsStoreOp, FileOps, FrameAt
<1>8. StoreState(t) = "called" /\ ~frame[t].ok
  BY StateOf DEF StateAt, Transfer, Returning
<1>9. StoreOps[t] = StoreOp(t) /\ StoreOps[t] # None
  BY <1>7, OpIsOp
<1>10. /\ StoreOp(t).what = frame[t].op /\ StoreOp(t).state = "called"
       /\ StoreOp(t).file = FileOf[k] /\ StoreOp(t).to = FileOf[j]
  BY <1>8 DEF StoreOp
<1> QED
  BY <1>1, <1>3, <1>4, <1>5, <1>6, <1>7, <1>8, <1>9, <1>10

\* An error, or a look at the files that finds them not as they should be.
GivesUp(t) ==
    /\ pc[t] \in {"stream_open", "stream_send", "delete_remove", "rename_check",
                  "rename_move"}
    /\ pc'[t] \in {"unlock", "unwind"}
    /\ frame' = frame /\ disk' = disk

(* An operation that gives up is turned down. *)
LEMMA GivesUpStep ==
    ASSUME OneKeyPerFile, StorageInv, NoWrap, NEW t \in Threads, OpStep(t), Transfer(t),
           Transfer(t)', GivesUp(t)
    PROVE  StoreStep(t)
<1>1. IsStoreOp(t) /\ StoreState(t) = "called" /\ ~frame[t].ok
  BY HeldFiles DEF GivesUp
<1>2. SameResult(t)
  BY DEF GivesUp, SameResult
<1>3. StoreState(t)' = "failed"
  BY <1>1, StateOf DEF GivesUp, StateAt, Returning
<1>4. StoreContents' = StoreContents
  BY ShownStays, ContentsStay DEF GivesUp
<1> QED
  BY <1>1, <1>2, <1>3, <1>4, RejectStep DEF StoreStep

(* A step of an operation that has not taken effect yet. *)
LEMMA NotYetStep ==
    ASSUME OneKeyPerFile, StorageInv, NoWrap, NEW t \in Threads, OpStep(t), Transfer(t),
           Transfer(t)',
           pc[t] \in {"stream_open", "stream_send", "rename_check"},
           pc'[t] \in {"stream_send", "rename_move"}, disk' = disk,
           frame'[t].ok = frame[t].ok
    PROVE  StoreStep(t)
<1>1. IsStoreOp(t) /\ StoreState(t) = "called" /\ ~frame[t].ok
  BY HeldFiles
<1>2. SameResult(t)
  BY <1>1 DEF SameResult
<1>3. StoreState(t)' = "called"
  BY StateOf DEF StateAt, Returning
<1>4. StoreContents' = StoreContents
  BY ShownStays, ContentsStay
<1> QED
  BY <1>1, <1>2, <1>3, <1>4, OpsStay DEF StoreStep

(* stream_file_to_socket: a download takes effect with its last chunk. *)
LEMMA StreamEndStep ==
    ASSUME OneKeyPerFile, StorageInv, NoWrap, NEW t \in Threads, OpStep(t), Transfer(t),
           Transfer(t)', StreamEnd(t)
    PROVE  StoreStep(t)
<1>1. /\ pc \in [Threads -> Labels] /\ DOMAIN frame = Threads
      /\ disk \in [Files -> Seq(Chunks) \cup {None}]
  BY DEF StorageInv, TypeOK
<1>2. /\ pc[t] = "stream_send" /\ pc'[t] = "unwind" /\ disk' = disk
      /\ FrameOK(frame[t]) /\ frame[t].op = "stream"
      /\ frame'[t].ok /\ frame'[t].sent = frame[t].sent
  <2>1. FrameOK(frame[t]) /\ pc[t] = "stream_send" /\ frame[t].op = "stream"
    BY KeepsRequest DEF StreamEnd, FrameAt
  <2>2. pc'[t] = "unwind" /\ disk' = disk
    BY <1>1 DEF StreamEnd, GoTo, diskVars
  <2>3. frame'[t].ok /\ frame'[t].sent = frame[t].sent
    BY <1>1, <2>1 DEF StreamEnd, FrameOK
  <2> QED
    BY <2>1, <2>2, <2>3
<1>3. PICK k, j : k = frame[t].key /\ j = frame[t].to
  OBVIOUS
<1>4. /\ k \in Keys /\ FileOf[k] \in Files
      /\ StoreContents[FileOf[k]] = File(k) /\ Store!Settled(FileOf[k])
      /\ IsStoreOp(t) /\ StoreState(t) = "called"
      /\ StoreOps[t] = StoreOp(t) /\ StoreOps[t] # None
      /\ StoreOp(t).what = "stream" /\ StoreOp(t).state = "called"
      /\ StoreOp(t).file = FileOf[k]
  BY <1>2, <1>3, HeldFiles
<1>5. StoreState(t)' = "ok"
  BY <1>2, StateOf DEF StateAt, Returning
<1>6. File(k) # None /\ Begins(frame[t].sent, File(k))
  BY <1>2, <1>3 DEF Transfer
<1>7. frame[t].sent = File(k)
  <2>1. File(k) \in Seq(Chunks) /\ frame[t].sent \in Seq(Chunks)
    BY <1>1, <1>2, <1>4, <1>6 DEF File, FrameOK
  <2>2. Len(frame[t].sent) >= Len(File(k))
    BY <1>3, <1>6 DEF StreamEnd, AtEnd
  <2> QED
    BY <1>6, <2>1, <2>2, BeginsAll
<1>8. StoreContents' = StoreContents
  BY <1>2, ShownStays, ContentsStay
<1>9. StoreOp(t)' = [StoreOp(t) EXCEPT !.state = "ok", !.got = File(k)]
  <2>1. /\ frame'[t].op = frame[t].op /\ frame'[t].key = frame[t].key
        /\ frame'[t].to = frame[t].to /\ frame'[t].data = frame[t].data
        /\ frame'[t].op = "stream" /\ frame'[t].ok /\ frame'[t].sent = File(k)
    BY <1>2, <1>7, KeepsRequest
  <2>2. StoreOp(t)' = [what |-> frame[t].op, file |-> FileOf[frame[t].key],
                       to |-> FileOf[frame[t].to], data |-> frame[t].data,
                       state |-> "ok", got |-> File(k)]
    BY <1>5, <2>1 DEF StoreOp
  <2>3. PICK r : r = [StoreOp(t) EXCEPT !.state = "ok"]
    OBVIOUS
  <2>4. r = [what |-> frame[t].op, file |-> FileOf[frame[t].key],
             to |-> FileOf[frame[t].to], data |-> frame[t].data,
             state |-> "ok", got |-> StoreOp(t).got]
    BY <2>3 DEF StoreOp
  <2>5. [r EXCEPT !.got = File(k)] = StoreOp(t)'
    BY <2>2, <2>4
  <2> QED
    BY <2>3, <2>5, Zenon
<1>10. StoreOps' = [StoreOps EXCEPT ![t].state = "ok", ![t].got = File(k)]
  <2>1. t \in DOMAIN StoreOps
    BY DEF StoreOps
  <2> QED
    BY <1>4, <1>9, <2>1, OpsChange
<1>11. StoreOps'[t] # StoreOps[t]
  BY <1>4, <1>5, StateShows
<1>12. Store!Read(t)
  BY <1>4, <1>6, <1>8, <1>10 DEF Store!Read, Store!Is
<1> QED
  BY <1>11, <1>12 DEF StoreStep, Store!Step

(* delete_file: a deletion takes effect with fs::remove. *)
LEMMA DeleteRemoveStep ==
    ASSUME OneKeyPerFile, StorageInv, NoWrap, NEW t \in Threads, OpStep(t), Transfer(t),
           Transfer(t)', DeleteRemove(t)
    PROVE  StoreStep(t)
<1>1. /\ pc \in [Threads -> Labels] /\ DOMAIN frame = Threads
      /\ disk \in [Files -> Seq(Chunks) \cup {None}]
  BY DEF StorageInv, TypeOK
<1>2. pc[t] = "delete_remove" /\ frame' = frame /\ frame[t].op = "delete"
  BY KeepsRequest DEF DeleteRemove, Then, FrameAt
<1>3. CASE pc'[t] = "delete_index"
  <2>1. PICK k, j : k = frame[t].key /\ j = frame[t].to
    OBVIOUS
  <2>2. File(k) # None /\ disk' = [disk EXCEPT ![FileOf[k]] = None]
    BY <1>1, <1>3, <2>1 DEF DeleteRemove, Then, GoTo, SetFile
  <2>3. /\ k \in Keys /\ FileOf[k] \in Files /\ Uploaders(FileOf[k]) = {}
        /\ StoreContents[FileOf[k]] = File(k) /\ Store!Settled(FileOf[k])
        /\ IsStoreOp(t) /\ StoreState(t) = "called"
        /\ StoreOps[t] = StoreOp(t) /\ StoreOps[t] # None
        /\ StoreOp(t).what = "delete" /\ StoreOp(t).state = "called"
        /\ StoreOp(t).file = FileOf[k]
    BY <1>2, <2>1, HeldFiles
  <2>4. StoreState(t)' = "ok"
    BY <1>3, StateOf DEF StateAt
  <2>5. Uploaders(FileOf[k])' = {}
    BY <1>3, <2>3, OpOthers DEF Uploaders, Uploading
  <2>6. ASSUME NEW f \in Files
        PROVE  StoreContents'[f] = IF f = FileOf[k] THEN None ELSE StoreContents[f]
    <3>1. CASE f = FileOf[k]
      BY <1>1, <2>2, <2>3, <2>5, <3>1, Shown
    <3>2. CASE f # FileOf[k]
      <4>1. disk'[f] = disk[f]
        BY <1>1, <2>2, <3>2
      <4> QED
        BY <1>2, <1>3, <3>2, <4>1, ShownStays
    <3> QED
      BY <3>1, <3>2
  <2>7. StoreContents' = [StoreContents EXCEPT ![FileOf[k]] = None]
    BY <2>3, <2>6, ContentsChange
  <2>8. SameResult(t)
    BY <1>2 DEF SameResult
  <2>9. /\ StoreOps' = [StoreOps EXCEPT ![t].state = "ok"]
        /\ StoreOps'[t] # StoreOps[t]
    BY <2>3, <2>4, <2>8, StateChange, StateShows
  <2>10. Store!Remove(t)
    BY <2>2, <2>3, <2>7, <2>9 DEF Store!Remove, Store!Is, Store!Leave, Store!Becomes
  <2> QED
    BY <2>9, <2>10 DEF StoreStep, Store!Step
<1>4. CASE pc'[t] # "delete_index"
  <2>1. GivesUp(t)
    BY <1>1, <1>2, <1>4 DEF DeleteRemove, Then, GoTo, diskVars, GivesUp
  <2> QED
    BY <2>1, GivesUpStep
<1> QED
  BY <1>3, <1>4

(* rename_file: a renaming takes effect with fs::rename. *)
LEMMA RenameMoveStep ==
    ASSUME OneKeyPerFile, StorageInv, NoWrap, NEW t \in Threads, OpStep(t), Transfer(t),
           Transfer(t)', UpdatedSoFar(t), RenameMove(t)
    PROVE  StoreStep(t)
<1>1. /\ pc \in [Threads -> Labels] /\ DOMAIN frame = Threads
      /\ disk \in [Files -> Seq(Chunks) \cup {None}]
  BY DEF StorageInv, TypeOK
<1>2. /\ pc[t] = "rename_move" /\ frame' = frame /\ frame[t].op = "rename"
      /\ frame[t].key # frame[t].to
  BY KeepsRequest DEF RenameMove, Then, FrameAt
<1>3. CASE pc'[t] = "rename_size"
  <2>1. PICK k, j : k = frame[t].key /\ j = frame[t].to
    OBVIOUS
  <2>2. disk' = [disk EXCEPT ![FileOf[j]] = File(k), ![FileOf[k]] = None]
    BY <1>1, <1>3, <2>1 DEF RenameMove, Then, GoTo
  <2>3. /\ k \in Keys /\ j \in Keys /\ FileOf[k] \in Files /\ FileOf[j] \in Files
        /\ Uploaders(FileOf[k]) = {} /\ Uploaders(FileOf[j]) = {}
        /\ StoreContents[FileOf[k]] = File(k) /\ StoreContents[FileOf[j]] = File(j)
        /\ Store!Settled(FileOf[k]) /\ Store!Settled(FileOf[j])
        /\ IsStoreOp(t) /\ StoreState(t) = "called"
        /\ StoreOps[t] = StoreOp(t) /\ StoreOps[t] # None
        /\ StoreOp(t).what = "rename" /\ StoreOp(t).state = "called"
        /\ StoreOp(t).file = FileOf[k] /\ StoreOp(t).to = FileOf[j]
    BY <1>2, <2>1, HeldFiles
  <2>4. StoreState(t)' = "ok"
    BY <1>3, StateOf DEF StateAt
  <2>5. File(k) # None /\ File(j) = None
    BY <1>2, <2>1 DEF UpdatedSoFar, Transfer
  <2>6. FileOf[k] # FileOf[j]
    BY <1>2, <2>1, <2>3 DEF OneKeyPerFile
  <2>7. Uploaders(FileOf[k])' = {} /\ Uploaders(FileOf[j])' = {}
    BY <1>3, <2>3, OpOthers DEF Uploaders, Uploading
  <2>8. ASSUME NEW f \in Files
        PROVE  StoreContents'[f] = IF f = FileOf[k] THEN None
                                   ELSE IF f = FileOf[j] THEN File(k) ELSE StoreContents[f]
    <3>1. CASE f \in {FileOf[k], FileOf[j]}
      <4>1. StoreContents'[f] = disk'[f]
        BY <2>7, <3>1, Shown
      <4> QED
        BY <1>1, <2>2, <2>3, <2>6, <3>1, <4>1
    <3>2. CASE f \notin {FileOf[k], FileOf[j]}
      <4>1. disk'[f] = disk[f]
        BY <1>1, <2>2, <3>2
      <4> QED
        BY <1>2, <1>3, <3>2, <4>1, ShownStays
    <3> QED
      BY <3>1, <3>2
  <2>9. StoreContents' = [StoreContents EXCEPT ![FileOf[j]] = File(k), ![FileOf[k]] = None]
    <3>1. /\ StoreContents = [f \in Files |-> StoreContents[f]]
          /\ StoreContents' = [f \in Files |-> StoreContents'[f]]
      BY DEF StoreContents
    <3> QED
      BY <2>3, <2>6, <2>8, <3>1
  <2>10. SameResult(t)
    BY <1>2 DEF SameResult
  <2>11. /\ StoreOps' = [StoreOps EXCEPT ![t].state = "ok"]
         /\ StoreOps'[t] # StoreOps[t]
    BY <2>3, <2>4, <2>10, StateChange, StateShows
  <2>12. Store!Move(t)
    BY <2>3, <2>5, <2>9, <2>11 DEF Store!Move, Store!Is, Store!Becomes
  <2> QED
    BY <2>11, <2>12 DEF StoreStep, Store!Step
<1>4. CASE pc'[t] # "rename_size"
  <2>1. GivesUp(t)
    BY <1>1, <1>2, <1>4 DEF RenameMove, Then, GoTo, diskVars, GivesUp
  <2> QED
    BY <2>1, GivesUpStep
<1> QED
  BY <1>3, <1>4

(* Every step of an operation is a step of the store, or none. *)
LEMMA OpStoreStep ==
    ASSUME OneKeyPerFile, StorageInv, NoWrap, DiskInv, TransferInv, NEW t \in Threads,
           OpStep(t)
    PROVE  StoreStep(t)
<1>1. Transfer(t) /\ UpdatedSoFar(t) /\ Transfer(t)'
  BY TransferOp DEF TransferInv, DiskInv
<1>2. pc \in [Threads -> Labels] /\ DOMAIN frame = Threads
  BY DEF StorageInv, TypeOK
<1>3. CASE ~TransferStep(t)
  BY <1>1, <1>3, OtherStepsStutter DEF StoreStep
<1>4. CASE SaveOpen(t) \/ SaveChunk(t) \/ SaveNetError(t) \/ SaveIndex(t)
  BY <1>1, <1>4, SaveOpenStep, SaveChunkStep, SaveNetErrorStep, SaveIndexStep
<1>5. CASE StreamOpen(t) \/ RenameCheck(t)
  <2>1. frame' = frame /\ disk' = disk /\ pc[t] \in {"stream_open", "rename_check"}
    BY <1>5 DEF StreamOpen, RenameCheck, Then, diskVars
  <2>2. pc'[t] \in {"stream_send", "rename_move", "unlock"}
    BY <1>2, <1>5 DEF StreamOpen, RenameCheck, Then, GoTo
  <2>3. CASE pc'[t] = "unlock"
    BY <1>1, <2>1, <2>3, GivesUpStep DEF GivesUp
  <2>4. CASE pc'[t] # "unlock"
    BY <1>1, <2>1, <2>2, <2>4, NotYetStep
  <2> QED
    BY <2>3, <2>4
<1>6. CASE StreamChunk(t)
  <2>1. /\ pc[t] = "stream_send" /\ pc'[t] = "stream_send" /\ disk' = disk
        /\ frame'[t].ok = frame[t].ok
    BY <1>2, <1>6, KeepsRequest DEF StreamChunk, diskVars, FrameOK
  <2> QED
    BY <1>1, <2>1, NotYetStep
<1>7. CASE StreamNetError(t)
  <2>1. GivesUp(t)
    BY <1>2, <1>7 DEF StreamNetError, Then, GoTo, diskVars, GivesUp
  <2> QED
    BY <1>1, <2>1, GivesUpStep
<1>8. CASE StreamEnd(t) \/ DeleteRemove(t) \/ RenameMove(t)
  BY <1>1, <1>8, StreamEndStep, DeleteRemoveStep, RenameMoveStep
<1> QED
  BY <1>3, <1>4, <1>5, <1>6, <1>7, <1>8 DEF TransferStep

-----------------------------------------------------------------------------
(* Calls, returns and restarts. *)

(* A call, or a return, leaves the store's contents and the operations of  *)
(* the other threads alone.                                                *)
LEMMA CallsElsewhere ==
    ASSUME StorageInv, NEW t \in Threads, Starts(t) \/ Finish(t)
    PROVE  /\ StoreContents' = StoreContents
           /\ \A s \in Threads \ {t} : StoreOps'[s] = StoreOps[s]
           /\ StoreOps = [s \in Threads |-> StoreOps[s]]
           /\ StoreOps' = [s \in Threads |-> StoreOps'[s]]
<1>1. /\ disk' = disk /\ pc[t] # "save_recv" /\ pc'[t] # "save_recv"
      /\ \A s \in Threads \ {t} : pc'[s] = pc[s] /\ frame'[s] = frame[s]
  BY CallTouchesNothing
<1>2. ASSUME NEW f \in Files PROVE StoreContents'[f] = StoreContents[f]
  <2>1. Uploaders(f)' = Uploaders(f) /\ Uploaders(f) \subseteq Threads \ {t}
    BY <1>1 DEF Uploaders, Uploading
  <2>2. CASE Uploaders(f) = {}
    BY <1>1, <2>1, <2>2, Shown
  <2>3. CASE Uploaders(f) # {}
    <3> DEFINE s == CHOOSE s \in Uploaders(f) : TRUE
    <3>1. s \in Uploaders(f)
      BY <2>3
    <3>2. StoreContents[f] = frame[s].data
      BY <2>3 DEF StoreContents
    <3>3. StoreContents'[f] = frame'[s].data
      BY <2>1, <2>3 DEF StoreContents
    <3> HIDE DEF s
    <3> QED
      BY <1>1, <2>1, <3>1, <3>2, <3>3
  <2> QED
    BY <2>2, <2>3
<1>3. ASSUME NEW s \in Threads \ {t} PROVE StoreOps'[s] = StoreOps[s]
  BY <1>1 DEF StoreOps, IsStoreOp, StoreOp, StoreState, Uploading
<1> QED
  BY <1>2, <1>3, ContentsStay DEF StoreOps

(* A call of a client is a call of the store; those that only look at the  *)
(* index are none.                                                         *)
LEMMA NewCallStoreStep ==
    ASSUME StorageInv, NEW t \in Threads, NewCall(t)
    PROVE  StoreStep(t)
<1>1. PICK fr, label : Call(t, fr, label) /\ Entry(fr, label) /\ Fresh(fr)
  BY CallShape
<1>2. Starts(t) /\ StorageInv'
  BY NewCallStarts, StorageStarts DEF StorageInv
<1>3. pc \in [Threads -> Labels] /\ DOMAIN frame = Threads
  BY DEF StorageInv, TypeOK
<1>4. pc[t] = "idle" /\ pc'[t] = label /\ frame'[t] = fr
  BY <1>1, <1>3 DEF Call, GoTo
<1>5. label # "idle" /\ label # "save_recv"
  BY <1>1 DEF Entry
<1>6. StoreOps[t] = None
  BY <1>4 DEF StoreOps, IsStoreOp
<1>7. CASE fr.op \notin FileOps
  <2>1. StoreOps'[t] = None
    BY <1>4, <1>7 DEF StoreOps, IsStoreOp
  <2> QED
    BY <1>2, <1>6, <2>1, CallsElsewhere DEF StoreStep
<1>8. CASE fr.op \in FileOps
  <2>1. fr.key \in Keys /\ fr.to \in Keys /\ FileOf[fr.key] \in Files /\ FileOf[fr.to] \in Files
    BY <1>1, <1>8, StorageAssumption DEF Fresh, FrameOK, FileOps
  <2>2. StoreOps'[t] = StoreOp(t)'
    BY <1>4, <1>5, <1>8 DEF StoreOps, IsStoreOp
  <2>3. PICK state : state = StoreState(t)'
    OBVIOUS
  <2>4. /\ state \in {"called", "failed", "ok"}
        /\ state = "ok" => fr.ok
    BY <1>1, <1>4, <1>5, <2>3 DEF StoreState, Uploading, Entry
  <2>5. fr.ok => fr.op = "rename" /\ fr.key = fr.to
    BY <1>1, <1>8 DEF Fresh, FileOps
  <2>6. fr.data \in Payloads \cup {<<>>}
    BY <1>1, <1>8 DEF Fresh, FileOps
  <2>7. StoreOp(t)' = [what |-> fr.op, file |-> FileOf[fr.key], to |-> FileOf[fr.to],
                       data |-> fr.data, state |-> state, got |-> None]
    BY <1>4, <2>3, <2>5 DEF StoreOp
  <2>8. StoreOps'[t] \in Store!Requests
    BY <1>8, <2>1, <2>2, <2>4, <2>6, <2>7 DEF Store!Requests, FileOps
  <2>9. StoreOps'[t].state = "ok" => /\ StoreOps'[t].what = "rename"
                                     /\ StoreOps'[t].file = StoreOps'[t].to
    BY <2>2, <2>4, <2>5, <2>7
  <2>10. StoreOps' = [StoreOps EXCEPT ![t] = StoreOps'[t]]
    BY <1>2, CallsElsewhere
  <2>11. StoreOps'[t] # None
    <3>1. IsStoreOp(t)'
      BY <1>4, <1>5, <1>8 DEF IsStoreOp
    <3>2. FrameOK(fr) /\ fr.data \in Seq(Chunks)
      BY <1>1 DEF Fresh, FrameOK
    <3>3. StoreOp(t)' \in [what : FileOps, file : Files, to : Files, data : Seq(Chunks),
                           state : {"called", "writing", "ok", "failed"},
                           got : Seq(Chunks) \cup {None}]
      BY <1>8, <2>1, <2>4, <2>7, <3>2
    <3> QED
      BY <2>2, <3>3, StoreAssumption
  <2>12. Store!Invoke(t)
    BY <1>2, <1>6, <2>8, <2>9, <2>10, CallsElsewhere DEF Store!Invoke
  <2> QED
    BY <1>6, <2>11, <2>12 DEF StoreStep, Store!Step
<1> QED
  BY <1>7, <1>8

(* The return of an operation. *)
LEMMA FinishStoreStep ==
    ASSUME StorageInv, NEW t \in Threads, Transfer(t), Finish(t)
    PROVE  StoreStep(t)
<1>1. pc[t] = "done" /\ pc'[t] = "idle"
  BY DEF Finish, GoTo, StorageInv, TypeOK
<1>2. StoreOps'[t] = None
  BY <1>1 DEF StoreOps, IsStoreOp
<1>3. CASE ~IsStoreOp(t)
  <2>1. StoreOps[t] = None
    BY <1>3 DEF StoreOps
  <2> QED
    BY <1>2, <2>1, CallsElsewhere DEF StoreStep
<1>4. CASE IsStoreOp(t)
  <2>1. StoreOps[t] = StoreOp(t) /\ StoreOps[t] # None
    BY <1>4, OpIsOp
  <2>2. StoreOps[t].state \in {"ok", "failed"}
    BY <1>1, <2>1, StateOf DEF StoreOp, StateAt, Returning
  <2>3. StoreOps' = [StoreOps EXCEPT ![t] = None]
    BY <1>2, CallsElsewhere
  <2>4. Store!Return(t)
    BY <2>1, <2>2, <2>3, CallsElsewhere DEF Store!Return
  <2> QED
    BY <1>2, <2>1, <2>4 DEF StoreStep, Store!Step
<1> QED
  BY <1>3, <1>4

(* A crash leaves whole files, and the beginnings of uploads under way. *)
LEMMA RestartStoreStep ==
    ASSUME StorageInv, DiskInv, TransferInv, Restart
    PROVE  Store!Crash
<1>1. /\ "crash" \in Faults /\ disk' = disk
      /\ pc' = [t \in Threads |-> "idle"]
      /\ disk \in [Files -> Seq(Chunks) \cup {None}]
  BY DEF Restart, StorageInv, TypeOK
<1>2. StoreOps' = [t \in Threads |-> None]
  BY <1>1 DEF StoreOps, IsStoreOp
<1>3. \A f \in Files : StoreContents'[f] = disk[f]
  BY <1>1, Shown DEF Uploaders, Uploading
<1>4. DOMAIN StoreContents' = Files
  BY DEF StoreContents
<1>5. ASSUME NEW f \in Files, StoreContents'[f] # StoreContents[f]
      PROVE  \E t \in Threads : /\ Store!Is(t, "save", "writing") /\ StoreOps[t].file = f
                                /\ StoreContents'[f] \in Store!Prefixes(StoreOps[t].data)
  <2>1. PICK t \in Threads : pc[t] = "save_recv" /\ FileOf[frame[t].key] = f
    BY <1>3, <1>5, Shown DEF Uploaders, Uploading
  <2>2. Transfer(t) /\ UpdatedSoFar(t) /\ FrameOK(frame[t]) /\ frame[t].op = "save"
    BY <2>1, InOperation DEF TransferInv, DiskInv, StorageInv, FrameAt
  <2>3. IsStoreOp(t)
    BY <2>1, <2>2 DEF IsStoreOp, FileOps
  <2>4. StoreState(t) = "writing"
    BY <2>1, <2>2, StateOf DEF StateAt
  <2>5. /\ StoreOps[t] = StoreOp(t) /\ StoreOps[t] # None
        /\ StoreOp(t).what = "save" /\ StoreOp(t).state = "writing"
        /\ StoreOp(t).file = f /\ StoreOp(t).data = frame[t].data
    BY <2>1, <2>2, <2>3, <2>4, OpIsOp DEF StoreOp
  <2>6. /\ disk[f] \in Seq(Chunks) /\ frame[t].data \in Seq(Chunks)
        /\ Begins(disk[f], frame[t].data)
    BY <1>1, <2>1, <2>2 DEF Transfer, UpdatedSoFar, File, FrameOK
  <2>7. disk[f] \in Store!Prefixes(frame[t].data)
    BY <2>6, BeginsPrefix
  <2> QED
    BY <1>3, <2>5, <2>7 DEF Store!Is
<1> QED
  BY <1>1, <1>2, <1>4, <1>5 DEF Store!Crash

(* The storage starts as the store does. *)
LEMMA StoreStart == Init => Store!Init
<1> SUFFICES ASSUME Init PROVE Store!Init
  OBVIOUS
<1>1. StoreOps = [t \in Threads |-> None]
  BY DEF Init, StoreOps, IsStoreOp
<1>2. \A f \in Files : StoreContents[f] = disk[f]
  BY Shown DEF Init, Uploaders, Uploading
<1>3. StoreContents = [f \in Files |-> StoreContents[f]]
  BY DEF StoreContents
<1>4. StoreContents \in [Files -> InitialContents]
  BY <1>2, <1>3 DEF Init
<1> QED
  BY <1>1, <1>4 DEF Store!Init

(* Every step of the storage is a step of the store, or none. *)
LEMMA StoreSimulates ==
    ASSUME OneKeyPerFile, StorageInv, NoWrap, DiskInv, TransferInv, [Next]_vars
    PROVE  [Store!Next]_<<StoreContents, StoreOps>>
<1>1. CASE UNCHANGED vars
  BY <1>1 DEF vars, storeVars, diskVars, StoreContents, Uploaders, Uploading, StoreOps,
     IsStoreOp, StoreOp, StoreState
<1>2. CASE Restart
  BY <1>2, RestartStoreStep DEF Store!Next
<1>3. ASSUME NEW t \in Threads, NewCall(t) \/ OpStep(t) \/ Finish(t)
      PROVE  StoreStep(t)
  BY <1>3, OpStoreStep, NewCallStoreStep, FinishStoreStep DEF TransferInv
<1> QED
  BY <1>1, <1>2, <1>3 DEF Next, Quiescent, StoreStep, Store!Next

(* The storage operations implement the atomic store: with every fault and *)
(* every interleaving, each operation takes effect on the whole file at    *)
(* one instant between its call and its return, as long as no reference    *)
(* count has wrapped and no two path keys name one file.                   *)
THEOREM StorageImplementsStore ==
    ASSUME OneKeyPerFile
    PROVE  Spec /\ []NoWrap => StoreSpec
<1>1. StorageInv /\ NoWrap /\ DiskInv /\ TransferInv /\ [Next]_vars
      => [Store!Next]_<<StoreContents, StoreOps>>
  BY StoreSimulates
<1> QED
  BY <1>1, StoreStart, StorageInvariant, DiskInvariant, TransferInvariant, PTL
  DEF Spec, StoreSpec, Store!Spec
=============================================================================
