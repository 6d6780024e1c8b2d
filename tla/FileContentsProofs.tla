------------------------ MODULE FileContentsProofs ------------------------
(***************************************************************************)
(* Proofs about what the storage operations (FileManager.tla) do to the    *)
(* contents of the files and to the index, from the lock discipline proved *)
(* in FileManagerProofs.tla: the index agrees with the disk, and a         *)
(* download is one complete upload.                                        *)
(***************************************************************************)
EXTENDS FileManagerProofs

\* The file of key k, what the index says about it, and its history.
FileStays(k) ==
    /\ File(k)' = File(k)
    /\ FileOf[k] \in unsynced' <=> FileOf[k] \in unsynced
    /\ Indexed(k)' <=> Indexed(k)
    /\ Size(k)' = Size(k)

\* Nothing of any file, nor of the index, changes.
AllStay == UNCHANGED <<disk, unsynced, index_>>

(* A step that leaves the disk and the index alone changes no file. *)
LEMMA AllStayFiles == AllStay => \A k \in Keys : FileStays(k)
BY DEF AllStay, FileStays, File, Indexed, Size, file_exists, get_size, Listing

\* The steps that change a file or the index.
FileStep(t) ==
    \/ SaveOpen(t) \/ SaveChunk(t) \/ SaveNetError(t) \/ SaveIndex(t)
    \/ DeleteRemove(t) \/ DeleteIndex(t)
    \/ RenameMove(t) \/ RenameRemove(t) \/ RenameAdd(t)

(* All other steps of an operation leave the files and the index alone. *)
LEMMA OtherStepsStay ==
    ASSUME NEW t, OpStep(t)
    PROVE  FileStep(t) \/ AllStay
BY DEF OpStep, FileStep, AllStay, Then, diskVars, DiscardChunk, DiscardEnd, SaveRef,
   SaveLock, SizeGet, StreamRef, StreamLock, StreamOpen, StreamChunk, StreamNetError,
   StreamEnd, DeleteRef, DeleteLock, RenameRefOld, RenameRefNew, RenameFirst,
   RenameSecond, RenameBackOff, RenameCheck, RenameSize, Unlock, Release, Unwind, Drop

(* Changing the file of one key leaves the files of the other keys alone. *)
LEMMA SetFileOnly ==
    ASSUME OneKeyPerFile, TypeOK, NEW k \in Keys, NEW c, SetFile(k, c)
    PROVE  \A j \in Keys : File(j)' = IF j = k THEN c ELSE File(j)
BY StorageAssumption DEF OneKeyPerFile, TypeOK, SetFile, File

(* SetSynced changes what is known of one key only. *)
LEMMA SetSyncedOnly ==
    ASSUME OneKeyPerFile, NEW k \in Keys, NEW b \in BOOLEAN, SetSynced(k, b)
    PROVE  \A j \in Keys : FileOf[j] \in unsynced' <=>
                             IF j = k THEN ~b ELSE FileOf[j] \in unsynced
BY StorageAssumption DEF OneKeyPerFile, SetSynced

(* The two assignments of a renaming, seen key by key. *)
LEMMA MoveOnly ==
    ASSUME OneKeyPerFile, TypeOK, NEW k \in Keys, NEW j \in Keys, k # j,
           disk' = [disk EXCEPT ![FileOf[j]] = File(k), ![FileOf[k]] = None]
    PROVE  \A i \in Keys : File(i)' = IF i = k THEN None
                                      ELSE IF i = j THEN File(k) ELSE File(i)
BY StorageAssumption DEF OneKeyPerFile, TypeOK, File

(* What the index says of a key depends on index_ only. *)
LEMMA SameIndex ==
    UNCHANGED index_ => \A j \in Keys : /\ Indexed(j)' <=> Indexed(j)
                                        /\ Size(j)' = Size(j)
BY DEF Indexed, Size, file_exists, get_size, Listing

(* A step of an operation touches only files whose key its thread holds    *)
(* exclusively.                                                            *)
LEMMA TouchesOwnFiles ==
    ASSUME OneKeyPerFile, StorageInv, NEW t \in Threads, OpStep(t),
           NEW k \in Keys, ~HoldsExclusive(t, k)
    PROVE  FileStays(k)
<1>1. CASE AllStay
  BY <1>1, AllStayFiles
<1>2. CASE FileStep(t)
  <2>0. TypeOK
    BY DEF StorageInv
  <2>1. pc[t] \in WriteLabels
    BY <1>2 DEF FileStep, WriteLabels, SaveOpen, SaveChunk, SaveNetError, SaveIndex,
       DeleteRemove, DeleteIndex, RenameMove, RenameRemove, RenameAdd
  <2>2. /\ frame[t].key \in Keys /\ frame[t].to \in Keys
        /\ FrameOK(frame[t]) /\ FrameAt(t)
    BY <2>1, InOperation DEF StorageInv, WriteLabels
  <2>3. k # frame[t].key /\ k # frame[t].to
    BY <2>1, <2>2 DEF StorageInv, LocksFollowControl, LocksAt, HasLocked, OpKeys
  <2> USE DEF FileStays
  <2>4. ASSUME SaveOpen(t) PROVE FileStays(k)
    BY <2>0, <2>2, <2>3, <2>4, SetFileOnly, SameIndex, AllStayFiles
    DEF SaveOpen, Then, AllStay, diskVars
  <2>5. ASSUME SaveChunk(t) PROVE FileStays(k)
    <3>1. UNCHANGED <<unsynced, index_>>
      BY <2>5 DEF SaveChunk
    <3>2. (\E c : SetFile(frame[t].key, c)) \/ UNCHANGED disk
      BY <2>5 DEF SaveChunk
    <3> QED
      BY <2>0, <2>2, <2>3, <3>1, <3>2, SetFileOnly, SameIndex DEF File
  <2>6. ASSUME SaveNetError(t) PROVE FileStays(k)
    BY <2>0, <2>2, <2>3, <2>6, SetFileOnly, SetSyncedOnly, SameIndex DEF SaveNetError, File
  <2>7. ASSUME SaveIndex(t) PROVE FileStays(k)
    BY <2>2, <2>3, <2>7, IndexEffect, SetSyncedOnly DEF SaveIndex, File, FrameOK
  <2>8. ASSUME DeleteRemove(t) PROVE FileStays(k)
    BY <2>0, <2>2, <2>3, <2>8, SetFileOnly, SetSyncedOnly, SameIndex, AllStayFiles
    DEF DeleteRemove, Then, AllStay, diskVars
  <2>9. ASSUME DeleteIndex(t) PROVE FileStays(k)
    BY <2>2, <2>3, <2>9, UnindexEffect DEF DeleteIndex, File, diskVars
  <2>10. ASSUME RenameMove(t) PROVE FileStays(k)
    <3>1. frame[t].key # frame[t].to
      BY <2>2, <2>10 DEF RenameMove, FrameAt
    <3>2. CASE Then(t, "unwind")
      BY <3>2, AllStayFiles DEF Then, AllStay, diskVars
    <3>3. CASE ~Then(t, "unwind")
      <4>1. PICK b \in BOOLEAN : SetSynced(frame[t].to, b)
        BY <2>10, <3>3 DEF RenameMove
      <4>2. FileOf[k] \in unsynced' <=> FileOf[k] \in unsynced
        BY <2>2, <2>3, <4>1, SetSyncedOnly
      <4>3. File(k)' = File(k)
        BY <2>0, <2>2, <2>3, <2>10, <3>1, <3>3, MoveOnly DEF RenameMove
      <4> QED
        BY <2>10, <3>3, <4>2, <4>3, SameIndex DEF RenameMove
    <3> QED
      BY <3>2, <3>3
  <2>11. ASSUME RenameRemove(t) PROVE FileStays(k)
    BY <2>2, <2>3, <2>11, UnindexEffect DEF RenameRemove, File, diskVars
  <2>12. ASSUME RenameAdd(t) PROVE FileStays(k)
    BY <2>2, <2>3, <2>12, IndexEffect DEF RenameAdd, File, diskVars
  <2> QED
    BY <1>2, <2>4, <2>5, <2>6, <2>7, <2>8, <2>9, <2>10, <2>11, <2>12 DEF FileStep
<1> QED
  BY <1>1, <1>2, OtherStepsStay

-----------------------------------------------------------------------------
(* The index and the disk. *)

\* A file on disk is in the index with its size, or its history excuses it.
Synced(k) ==
    File(k) # None /\ FileOf[k] \notin unsynced => Indexed(k) /\ Size(k) = Len(File(k))

\* A file in the index is on disk.
Listed(k) == Indexed(k) => File(k) # None

\* What holds of a key nobody is updating; broken uploads leave their entry.
Settled(k) == Synced(k) /\ ("net" \in Faults \/ Listed(k))

\* The keys whose disk and index thread t has not brought in line yet.
UnsettledLabels ==
    {"save_recv", "delete_index", "rename_size", "rename_remove", "rename_add"}
Unsettled(t) == IF pc[t] \in UnsettledLabels THEN OpKeys(t) ELSE {}

\* What thread t has done to its files so far.
UpdatedSoFar(t) ==
    LET k == frame[t].key
        j == frame[t].to
    IN  /\ pc[t] = "save_recv" =>
             /\ File(k) # None
             /\ frame[t].good => Len(File(k)) = frame[t].pos
        /\ pc[t] = "delete_index" => File(k) = None
        /\ pc[t] = "rename_move" => File(k) # None
        /\ pc[t] \in {"rename_size", "rename_remove", "rename_add"} =>
             File(k) = None /\ File(j) # None
        /\ pc[t] = "rename_size" /\ FileOf[j] \notin unsynced =>
             Indexed(k) /\ Size(k) = Len(File(j))
        /\ pc[t] \in {"rename_remove", "rename_add"} /\ FileOf[j] \notin unsynced =>
             frame[t].size = Len(File(j))
        /\ pc[t] = "rename_add" => ~Indexed(k)

UpdatingLabels == UnsettledLabels \cup {"rename_move"}

DiskInv ==
    /\ \A k \in Keys : Settled(k) \/ \E t \in Threads : k \in Unsettled(t)
    /\ \A t \in Threads : UpdatedSoFar(t)

(* The keys a thread is updating are its own. *)
LEMMA UpdatesOwn ==
    ASSUME StorageInv, NEW t \in Threads, pc[t] \in UpdatingLabels
    PROVE  /\ frame[t].key \in Keys /\ frame[t].to \in Keys /\ OpKeys(t) \subseteq Keys
           /\ HasLocked(t, OpKeys(t), {})
           /\ FrameOK(frame[t]) /\ FrameAt(t)
<1>1. pc[t] \in WriteLabels /\ pc[t] \notin {"idle", "done", "discard"}
  BY DEF UpdatingLabels, UnsettledLabels, WriteLabels
<1> QED
  BY <1>1, InOperation DEF StorageInv, LocksFollowControl, LocksAt

(* Two threads do not update one key. *)
LEMMA UpdatesApart ==
    ASSUME StorageInv, NoWrap, NEW s \in Threads, NEW t \in Threads, s # t,
           NEW k \in Keys, HoldsExclusive(s, k)
    PROVE  ~HoldsExclusive(t, k) /\ ~HoldsShared(t, k) /\ k \notin Unsettled(t)
<1>1. ~Holds(t, k)
  BY InvImpliesExclusion DEF StorageInv, MutualExclusion, NoWrap
<1>2. k \notin Unsettled(t)
  BY <1>1, UpdatesOwn DEF Unsettled, UpdatingLabels, HasLocked, Holds
<1> QED
  BY <1>1, <1>2 DEF Holds

(* An operation step leaves the other threads where they are. *)
LEMMA OpOthers ==
    ASSUME StorageInv, NEW t \in Threads, OpStep(t)
    PROVE  \A s \in Threads \ {t} : pc'[s] = pc[s] /\ frame'[s] = frame[s]
<1>1. pc \in [Threads -> Labels] /\ DOMAIN frame = Threads
  BY DEF StorageInv, TypeOK
<1>2. (\E l : pc' = [pc EXCEPT ![t] = l]) \/ pc' = pc
  BY DEF OpStep, GoTo, Then, DiscardChunk, DiscardEnd, SaveRef, SaveLock, SaveOpen,
     SaveChunk, SaveNetError, SaveIndex, SizeGet, StreamRef, StreamLock, StreamOpen,
     StreamChunk, StreamNetError, StreamEnd, DeleteRef, DeleteLock, DeleteRemove,
     DeleteIndex, RenameRefOld, RenameRefNew, RenameFirst, RenameSecond,
     RenameBackOff, RenameCheck, RenameMove, RenameSize, RenameRemove, RenameAdd,
     Unlock, Release, Unwind, Drop
<1>3. \A s \in Threads \ {t} : frame'[s] = frame[s]
  BY <1>1 DEF OpStep, Then, DiscardChunk, DiscardEnd, SaveRef, SaveLock, SaveOpen,
     SaveChunk, SaveNetError, SaveIndex, SizeGet, StreamRef, StreamLock, StreamOpen,
     StreamChunk, StreamNetError, StreamEnd, DeleteRef, DeleteLock, DeleteRemove,
     DeleteIndex, RenameRefOld, RenameRefNew, RenameFirst, RenameSecond,
     RenameBackOff, RenameCheck, RenameMove, RenameSize, RenameRemove, RenameAdd,
     Unlock, Release, Unwind, Drop
<1> QED
  BY <1>1, <1>2, <1>3

(* ... and what they have done to their files stays. *)
LEMMA UpdateStays ==
    ASSUME OneKeyPerFile, StorageInv, NoWrap, NEW t \in Threads, OpStep(t),
           NEW s \in Threads \ {t}, UpdatedSoFar(s)
    PROVE  UpdatedSoFar(s)' /\ Unsettled(s)' = Unsettled(s)
<1>1. pc'[s] = pc[s] /\ frame'[s] = frame[s]
  BY OpOthers
<1>2. Unsettled(s)' = Unsettled(s)
  BY <1>1 DEF Unsettled, OpKeys
<1>3. CASE pc[s] \in UpdatingLabels
  <2>1. /\ frame[s].key \in Keys /\ frame[s].to \in Keys
        /\ HoldsExclusive(s, frame[s].key) /\ HoldsExclusive(s, frame[s].to)
    BY <1>3, UpdatesOwn DEF HasLocked, OpKeys
  <2>2. FileStays(frame[s].key) /\ FileStays(frame[s].to)
    BY <2>1, UpdatesApart, TouchesOwnFiles
  <2> QED
    BY <1>1, <1>2, <2>2 DEF UpdatedSoFar, FileStays
<1>4. CASE pc[s] \notin UpdatingLabels
  BY <1>1, <1>2, <1>4, SMTT(30) DEF UpdatedSoFar, UpdatingLabels, UnsettledLabels
<1> QED
  BY <1>3, <1>4

(* The steps that touch neither a file nor the index begin nothing. *)
LEMMA OtherStepsBeginNothing ==
    ASSUME StorageInv, NEW t \in Threads, OpStep(t)
    PROVE  \/ FileStep(t) \/ RenameCheck(t) \/ RenameSize(t)
           \/ AllStay /\ pc[t] \notin UnsettledLabels /\ pc'[t] \notin UpdatingLabels
<1>1. pc \in [Threads -> Labels]
  BY DEF StorageInv, TypeOK
<1> QED
  BY <1>1, OtherStepsStay DEF OpStep, FileStep, Then, GoTo, UpdatingLabels, UnsettledLabels,
     DiscardChunk, DiscardEnd, SaveRef, SaveLock, SizeGet, StreamRef, StreamLock,
     StreamOpen, StreamChunk, StreamNetError, StreamEnd, DeleteRef, DeleteLock,
     RenameRefOld, RenameRefNew, RenameFirst, RenameSecond, RenameBackOff,
     Unlock, Release, Unwind, Drop

(* What thread t does to its own files. *)
LEMMA OwnUpdate ==
    ASSUME OneKeyPerFile, StorageInv, NEW t \in Threads, UpdatedSoFar(t), OpStep(t),
           \A k \in Keys : HoldsExclusive(t, k) => Settled(k) \/ k \in Unsettled(t)
    PROVE  /\ UpdatedSoFar(t)'
           /\ \A k \in Keys : HoldsExclusive(t, k) => Settled(k)' \/ k \in Unsettled(t)'
<1> DEFINE Goal == /\ UpdatedSoFar(t)'
                   /\ \A k \in Keys : HoldsExclusive(t, k) =>
                                        Settled(k)' \/ k \in Unsettled(t)'
<1> SUFFICES Goal
  OBVIOUS
<1>ty. /\ TypeOK /\ pc \in [Threads -> Labels] /\ DOMAIN frame = Threads
       /\ disk \in [Files -> Seq(Chunks) \cup {None}]
  BY DEF StorageInv, TypeOK
<1>1. CASE AllStay /\ pc[t] \notin UnsettledLabels /\ pc'[t] \notin UpdatingLabels
  <2>1. \A k \in Keys : FileStays(k)
    BY <1>1, AllStayFiles
  <2>2. UpdatedSoFar(t)'
    BY <1>1 DEF UpdatedSoFar, UpdatingLabels, UnsettledLabels
  <2>3. \A k \in Keys : HoldsExclusive(t, k) => Settled(k)
    BY <1>1 DEF Unsettled
  <2>4. \A k \in Keys : Settled(k) => Settled(k)'
    BY <2>1 DEF FileStays, Settled, Synced, Listed
  <2> QED
    BY <2>2, <2>3, <2>4
<1>2. CASE FileStep(t) \/ RenameCheck(t) \/ RenameSize(t)
  <2>0. pc[t] \in WriteLabels
    BY <1>2 DEF FileStep, WriteLabels, SaveOpen, SaveChunk, SaveNetError, SaveIndex,
       DeleteRemove, DeleteIndex, RenameMove, RenameRemove, RenameAdd, RenameCheck, RenameSize
  <2>1. PICK k \in Keys, j \in Keys : k = frame[t].key /\ j = frame[t].to
    BY <2>0, InOperation DEF StorageInv, WriteLabels
  <2>2. /\ FrameOK(frame[t]) /\ FrameAt(t)
    BY <2>0, InOperation DEF StorageInv, WriteLabels
  <2>3. \A i \in Keys : HoldsExclusive(t, i) <=> i = k \/ i = j
    BY <2>0, <2>1 DEF StorageInv, LocksFollowControl, LocksAt, HasLocked, OpKeys
  <2>4. pc[t] \notin UnsettledLabels => Settled(k) /\ Settled(j)
    BY <2>3 DEF Unsettled
  <2>5. SUFFICES UpdatedSoFar(t)' /\ (pc'[t] \notin UnsettledLabels => Settled(k)' /\ Settled(j)')
                 /\ (pc'[t] \in UnsettledLabels => frame'[t].key = k /\ frame'[t].to = j)
    BY <2>3 DEF Unsettled, OpKeys
  <2> DEFINE G == /\ UpdatedSoFar(t)' /\ (pc'[t] \notin UnsettledLabels => Settled(k)' /\ Settled(j)')
                  /\ (pc'[t] \in UnsettledLabels => frame'[t].key = k /\ frame'[t].to = j)
  <2>nn. None \notin Nat /\ None \notin Seq(Chunks)
    BY StorageAssumption
  <2> USE DEF GoTo, Then, diskVars, UnsettledLabels
  <2>6. ASSUME SaveOpen(t) PROVE G
    <3>0. <<>> \in Seq(Chunks) /\ Len(<<>>) = 0
      OBVIOUS
    <3>1. PICK c \in Seq(Chunks) : c = <<>> /\ Len(c) = 0
      BY <3>0, Zenon
    <3>2. CASE Then(t, "save_discard")
      BY <2>4, <2>6, <3>2, <1>ty, AllStayFiles
      DEF SaveOpen, AllStay, FileStays, Settled, Synced, Listed, UpdatedSoFar
    <3>3. CASE ~Then(t, "save_discard")
      <4>1. pc[t] = "save_open" /\ pc'[t] = "save_recv" /\ frame' = frame /\ frame[t].pos = 0
        BY <2>2, <2>6, <3>3, <1>ty DEF SaveOpen, FrameAt
      <4>2. SetFile(k, c)
        BY <2>1, <2>6, <3>1, <3>3 DEF SaveOpen
      <4>3. File(k)' = c
        BY <4>2, <1>ty, SetFileOnly
      <4> QED
        BY <2>1, <2>nn, <3>1, <4>1, <4>3 DEF UpdatedSoFar
    <3> QED
      BY <3>2, <3>3
  <2>7. ASSUME SaveChunk(t) PROVE G
    <3>1. PICK good \in BOOLEAN :
            /\ frame' = [frame EXCEPT ![t].pos = @ + 1, ![t].good = good]
            /\ good => frame[t].good
            /\ IF good /\ File(k) # None
                 THEN SetFile(k, Append(File(k), frame[t].data[frame[t].pos + 1]))
                 ELSE UNCHANGED disk
      BY <2>1, <2>2, <2>7 DEF SaveChunk, FrameOK
    <3>2. pc[t] = "save_recv" /\ pc' = pc
      BY <2>7 DEF SaveChunk
    <3>3. /\ frame'[t].key = k /\ frame'[t].to = j
          /\ frame'[t].pos = frame[t].pos + 1 /\ frame'[t].good = good
      BY <2>1, <2>2, <3>1, <1>ty DEF FrameOK
    <3>4. File(k) # None /\ (frame[t].good => Len(File(k)) = frame[t].pos)
      BY <2>1, <3>2 DEF UpdatedSoFar
    <3>5. File(k) \in Seq(Chunks)
      BY <3>4, <1>ty, StorageAssumption DEF File
    <3>6. File(k)' # None /\ (good => Len(File(k)') = frame[t].pos + 1)
      <4>1. CASE good
        <5>1. PICK c : c = frame[t].data[frame[t].pos + 1] /\ c \in Chunks
          BY <2>2, <2>7 DEF SaveChunk, Remaining, FrameOK
        <5>2. /\ Append(File(k), c) \in Seq(Chunks)
              /\ Len(Append(File(k), c)) = Len(File(k)) + 1
          BY <3>5, <5>1
        <5>3. File(k)' = Append(File(k), c)
          BY <3>1, <3>4, <4>1, <5>1, <1>ty, SetFileOnly
        <5> QED
          BY <2>nn, <3>1, <3>4, <4>1, <5>2, <5>3
      <4>2. CASE ~good
        BY <3>1, <3>4, <4>2 DEF File
      <4> QED
        BY <4>1, <4>2
    <3> QED
      BY <3>2, <3>3, <3>6 DEF UpdatedSoFar
  <2>8. ASSUME SaveNetError(t) PROVE G
    <3>1. pc'[t] = "unwind" /\ pc[t] = "save_recv" /\ "net" \in Faults /\ j = k
      BY <2>1, <2>2, <2>8, <1>ty DEF SaveNetError, FrameAt
    <3>2. File(k)' = None \/ FileOf[k] \in unsynced'
      BY <2>1, <2>8, <1>ty, SetFileOnly, SetSyncedOnly DEF SaveNetError
    <3> QED
      BY <3>1, <3>2 DEF UpdatedSoFar, Settled, Synced
  <2>9. ASSUME SaveIndex(t) PROVE G
    <3>1. pc'[t] = "unlock" /\ pc[t] = "save_recv" /\ j = k
      BY <2>1, <2>2, <2>9, <1>ty DEF SaveIndex, FrameAt
    <3>2. frame[t].pos = Len(frame[t].data)
      BY <2>2, <2>9 DEF SaveIndex, Remaining, FrameOK
    <3>3. File(k)' = File(k) /\ File(k) # None
      BY <2>1, <2>9, <3>1 DEF SaveIndex, File, UpdatedSoFar
    <3>4. Indexed(k)' /\ Size(k)' = Len(frame[t].data)
      BY <2>1, <2>9, IndexEffect DEF SaveIndex
    <3>5. FileOf[k] \in unsynced' <=> ~frame[t].good
      BY <2>1, <2>2, <2>9, SetSyncedOnly DEF SaveIndex, FrameOK
    <3>6. frame[t].good => Len(File(k)) = Len(frame[t].data)
      BY <2>1, <3>1, <3>2 DEF UpdatedSoFar
    <3> QED
      BY <3>1, <3>3, <3>4, <3>5, <3>6 DEF UpdatedSoFar, Settled, Synced, Listed
  <2>10. ASSUME DeleteRemove(t) PROVE G
    <3>1. CASE Then(t, "unlock") \/ Then(t, "unwind")
      BY <2>4, <2>10, <3>1, <1>ty, AllStayFiles
      DEF DeleteRemove, AllStay, FileStays, Settled, Synced, Listed, UpdatedSoFar
    <3>2. CASE ~(Then(t, "unlock") \/ Then(t, "unwind"))
      BY <2>1, <2>2, <2>10, <3>2, <1>ty, SetFileOnly DEF DeleteRemove, UpdatedSoFar, FrameAt
    <3> QED
      BY <3>1, <3>2
  <2>11. ASSUME DeleteIndex(t) PROVE G
    <3>1. pc'[t] = "unlock" /\ pc[t] = "delete_index" /\ j = k
      BY <2>1, <2>2, <2>11, <1>ty DEF DeleteIndex, FrameAt
    <3>2. File(k)' = None
      BY <2>1, <2>11, <3>1 DEF DeleteIndex, File, UpdatedSoFar
    <3>3. ~Indexed(k)'
      BY <2>1, <2>11, UnindexEffect DEF DeleteIndex
    <3> QED
      BY <3>1, <3>2, <3>3 DEF UpdatedSoFar, Settled, Synced, Listed
  <2>12. ASSUME RenameCheck(t) PROVE G
    <3>1. AllStay /\ pc[t] = "rename_check" /\ frame' = frame
      BY <2>12 DEF RenameCheck, AllStay
    <3>2. /\ pc'[t] \in {"unlock", "rename_move"}
          /\ pc'[t] = "rename_move" => File(k) # None
      BY <2>1, <2>12, <1>ty DEF RenameCheck
    <3> QED
      BY <2>1, <2>4, <3>1, <3>2, AllStayFiles
      DEF FileStays, Settled, Synced, Listed, UpdatedSoFar
  <2>13. ASSUME RenameMove(t) PROVE G
    <3>1. pc[t] = "rename_move" /\ k # j /\ File(k) # None
      BY <2>1, <2>2, <2>13 DEF RenameMove, FrameAt, UpdatedSoFar
    <3>2. CASE Then(t, "unwind")
      BY <2>4, <2>13, <3>1, <3>2, <1>ty, AllStayFiles
      DEF AllStay, FileStays, Settled, Synced, Listed, UpdatedSoFar
    <3>3. CASE ~Then(t, "unwind")
      <4>1. pc'[t] = "rename_size" /\ frame' = frame /\ index_' = index_
        BY <2>13, <3>3, <1>ty DEF RenameMove
      <4>2. File(k)' = None /\ File(j)' = File(k)
        BY <2>1, <2>13, <3>1, <3>3, <1>ty, MoveOnly DEF RenameMove
      <4>3. FileOf[j] \in unsynced' <=> FileOf[k] \in unsynced
        <5>1. PICK b \in BOOLEAN : b = (FileOf[k] \notin unsynced)
          OBVIOUS
        <5>2. SetSynced(j, b)
          BY <2>1, <2>13, <3>3, <5>1 DEF RenameMove
        <5> QED
          BY <5>1, <5>2, SetSyncedOnly
      <4>4. FileOf[k] \notin unsynced => Indexed(k) /\ Size(k) = Len(File(k))
        BY <2>4, <3>1 DEF Settled, Synced
      <4>5. (Indexed(k)' <=> Indexed(k)) /\ Size(k)' = Size(k)
        BY <4>1, SameIndex
      <4> QED
        BY <2>1, <3>1, <4>1, <4>2, <4>3, <4>4, <4>5 DEF UpdatedSoFar
    <3> QED
      BY <3>2, <3>3
  <2>14. ASSUME RenameSize(t) PROVE G
    <3>1. AllStay /\ pc[t] = "rename_size" /\ pc'[t] = "rename_remove"
      BY <2>14, <1>ty DEF RenameSize, AllStay
    <3>2. frame'[t].key = k /\ frame'[t].to = j /\ frame'[t].size = Size(k)
      BY <2>1, <2>2, <2>14, <1>ty DEF RenameSize, FrameOK
    <3>3. FileStays(k) /\ FileStays(j)
      BY <3>1, AllStayFiles
    <3> QED
      BY <2>1, <3>1, <3>2, <3>3 DEF FileStays, UpdatedSoFar
  <2>15. ASSUME RenameRemove(t) PROVE G
    <3>1. pc[t] = "rename_remove" /\ pc'[t] = "rename_add" /\ frame' = frame
          /\ UNCHANGED <<disk, unsynced>>
      BY <2>15, <1>ty DEF RenameRemove
    <3>2. ~Indexed(k)'
      BY <2>1, <2>15, UnindexEffect DEF RenameRemove
    <3>3. File(k)' = File(k) /\ File(j)' = File(j)
      BY <3>1 DEF File
    <3> QED
      BY <2>1, <3>1, <3>2, <3>3 DEF UpdatedSoFar
  <2>16. ASSUME RenameAdd(t) PROVE G
    <3>1. /\ pc[t] = "rename_add" /\ pc'[t] = "unlock" /\ k # j
          /\ UNCHANGED <<disk, unsynced>>
      BY <2>1, <2>2, <2>16, <1>ty DEF RenameAdd, FrameAt
    <3>2. Indexed(j)' /\ Size(j)' = frame[t].size /\ (Indexed(k)' <=> Indexed(k))
      BY <2>1, <2>16, <3>1, IndexEffect DEF RenameAdd
    <3>3. File(k)' = File(k) /\ File(j)' = File(j)
      BY <3>1 DEF File
    <3> QED
      BY <2>1, <3>1, <3>2, <3>3 DEF UpdatedSoFar, Settled, Synced, Listed
  <2> QED
    BY <1>2, <2>6, <2>7, <2>8, <2>9, <2>10, <2>11, <2>12, <2>13, <2>14, <2>15, <2>16 DEF FileStep
<1> QED
  BY <1>1, <1>2, OtherStepsBeginNothing

(* Every step of an operation keeps the index in line with the disk. *)
LEMMA DiskOp ==
    ASSUME OneKeyPerFile, StorageInv, NoWrap, DiskInv, NEW t \in Threads, OpStep(t)
    PROVE  DiskInv'
<1>1. ASSUME NEW k \in Keys, HoldsExclusive(t, k) PROVE Settled(k) \/ k \in Unsettled(t)
  BY <1>1, UpdatesApart DEF DiskInv
<1>2. /\ UpdatedSoFar(t)'
      /\ \A k \in Keys : HoldsExclusive(t, k) => Settled(k)' \/ k \in Unsettled(t)'
  BY <1>1, OwnUpdate DEF DiskInv
<1>3. \A s \in Threads \ {t} : UpdatedSoFar(s)' /\ Unsettled(s)' = Unsettled(s)
  BY UpdateStays DEF DiskInv
<1>4. ASSUME NEW k \in Keys, ~HoldsExclusive(t, k)
      PROVE  Settled(k)' \/ \E s \in Threads : k \in Unsettled(s)'
  <2>1. k \notin Unsettled(t)
    BY <1>4, UpdatesOwn DEF Unsettled, UpdatingLabels, HasLocked
  <2>2. Settled(k) \/ \E s \in Threads \ {t} : k \in Unsettled(s)
    BY <2>1 DEF DiskInv
  <2>3. FileStays(k)
    BY <1>4, TouchesOwnFiles
  <2>4. Settled(k) => Settled(k)'
    BY <2>3 DEF FileStays, Settled, Synced, Listed
  <2> QED
    BY <1>3, <2>2, <2>4
<1> QED
  BY <1>2, <1>3, <1>4 DEF DiskInv

(* A call and the return of an operation change no file. *)
LEMMA DiskCall ==
    ASSUME StorageInv, DiskInv, NEW t \in Threads, Starts(t) \/ Finish(t)
    PROVE  DiskInv'
<1>1. /\ UNCHANGED <<disk, unsynced, index_>>
      /\ \A s \in Threads \ {t} : pc'[s] = pc[s] /\ frame'[s] = frame[s]
      /\ pc[t] \notin UpdatingLabels /\ pc'[t] \notin UpdatingLabels
  <2>1. pc \in [Threads -> Labels] /\ DOMAIN frame = Threads
    BY DEF StorageInv, TypeOK
  <2>2. CASE Finish(t)
    BY <2>1, <2>2 DEF Finish, GoTo, diskVars, UpdatingLabels, UnsettledLabels
  <2>3. CASE Starts(t)
    BY <2>1, <2>3 DEF Starts, StartsWith, GoTo, Entry, diskVars, UpdatingLabels, UnsettledLabels
  <2> QED
    BY <2>2, <2>3
<1>2. \A k \in Keys : FileStays(k)
  BY <1>1, AllStayFiles DEF AllStay
<1>3. \A k \in Keys : Settled(k) => Settled(k)'
  BY <1>2 DEF FileStays, Settled, Synced, Listed
<1>4. \A s \in Threads : Unsettled(s)' = Unsettled(s)
  BY <1>1 DEF Unsettled, OpKeys, UpdatingLabels
<1>5. ASSUME NEW s \in Threads PROVE UpdatedSoFar(s)'
  <2>1. CASE s = t \/ pc[s] \notin UpdatingLabels
    BY <1>1, <2>1 DEF UpdatedSoFar, UpdatingLabels, UnsettledLabels
  <2>2. CASE s # t /\ pc[s] \in UpdatingLabels
    <3>1. frame[s].key \in Keys /\ frame[s].to \in Keys
      BY <2>2, UpdatesOwn
    <3>2. FileStays(frame[s].key) /\ FileStays(frame[s].to)
      BY <1>2, <3>1
    <3> QED
      BY <1>1, <2>2, <3>2 DEF UpdatedSoFar, FileStays, DiskInv
  <2> QED
    BY <2>1, <2>2
<1> QED
  BY <1>3, <1>4, <1>5 DEF DiskInv

(* rebuild_from_disk puts every file it visits into the index, and no other. *)
LEMMA ScanAgrees ==
    ASSUME NEW S \in Visits(disk), index_ = Scan(disk, S).index,
           unsynced = Scan(disk, S).missed,
           disk \in [Files -> Seq(Chunks) \cup {None}],
           NEW k \in Keys
    PROVE  /\ Indexed(k) <=> k \in S
           /\ k \in S => Size(k) = Len(File(k)) /\ File(k) # None
           /\ k \notin S /\ File(k) # None => FileOf[k] \in unsynced
<1>1. S \in SUBSET Keys /\ \A j \in S : disk[FileOf[j]] \in Seq(Chunks)
  BY ScanVisits
<1>2. /\ DOMAIN index_ = {normalize_path[Owner[j]] : j \in S}
      /\ \A e \in DOMAIN index_ :
           index_[e] = [i \in {j \in S : normalize_path[Owner[j]] = e} |->
                          Len(disk[FileOf[i]])]
  BY <1>1, ScanEffect, ZenonT(60)
<1>3. k \notin S /\ File(k) # None => FileOf[k] \in unsynced
  BY DEF Scan, File
<1>e. PICK e : e = normalize_path[Owner[k]]
  OBVIOUS
<1>d. /\ e \in DOMAIN index_ =>
           /\ DOMAIN index_[e] = {j \in S : normalize_path[Owner[j]] = e}
           /\ k \in S => index_[e][k] = Len(disk[FileOf[k]])
      /\ k \in S => e \in DOMAIN index_
      /\ DOMAIN Empty = {}
  <2>1. k \in S => e \in DOMAIN index_
    BY <1>2, <1>e
  <2>2. ASSUME e \in DOMAIN index_
        PROVE  /\ DOMAIN index_[e] = {j \in S : normalize_path[Owner[j]] = e}
               /\ k \in S => index_[e][k] = Len(disk[FileOf[k]])
    <3>1. index_[e] = [i \in {j \in S : normalize_path[Owner[j]] = e} |->
                         Len(disk[FileOf[i]])]
      BY <1>2, <2>2
    <3> QED
      BY <1>e, <3>1
  <2>3. DOMAIN Empty = {}
    BY DEF Empty
  <2> QED
    BY <2>1, <2>2, <2>3
<1>4. Indexed(k) <=> k \in S
  BY <1>d, <1>e DEF Indexed, file_exists, Listing
<1>5. k \in S => Size(k) = Len(File(k))
  BY <1>d, <1>e, <1>4 DEF Indexed, Size, file_exists, get_size, Listing, File
<1>6. k \in S => File(k) # None
  BY <1>1, StorageAssumption DEF File
<1> QED
  BY <1>3, <1>4, <1>5, <1>6

(* A process that has just started has an index in line with the disk. *)
LEMMA DiskStart ==
    Started(lock_entry, disk, index_, unsynced, pc, frame) => DiskInv
<1> SUFFICES ASSUME Started(lock_entry, disk, index_, unsynced, pc, frame)
             PROVE  DiskInv
  OBVIOUS
<1>1. PICK S \in Visits(disk) : index_ = Scan(disk, S).index /\ unsynced = Scan(disk, S).missed
  BY DEF Started
<1>2. \A k \in Keys : Settled(k)
  BY <1>1, ScanAgrees DEF Started, Settled, Synced, Listed
<1>3. \A t \in Threads : pc[t] = "idle"
  BY DEF Started
<1> QED
  BY <1>2, <1>3 DEF DiskInv, UpdatedSoFar

(* Every step of the storage, a restart included, keeps the index in line  *)
(* with the disk.                                                          *)
LEMMA DiskStep ==
    ASSUME OneKeyPerFile, StorageInv, NoWrap, DiskInv, [Next]_vars
    PROVE  DiskInv'
<1>1. CASE UNCHANGED vars
  <2>1. UNCHANGED <<disk, unsynced, index_, pc, frame>>
    BY <1>1 DEF vars, storeVars, diskVars
  <2>2. \A k \in Keys : FileStays(k)
    BY <2>1, AllStayFiles DEF AllStay
  <2>3. \A k \in Keys : Settled(k) => Settled(k)'
    BY <2>2 DEF FileStays, Settled, Synced, Listed
  <2>4. ASSUME NEW s \in Threads PROVE UpdatedSoFar(s)' /\ Unsettled(s)' = Unsettled(s)
    <3>1. CASE pc[s] \notin UpdatingLabels
      BY <2>1, <3>1 DEF UpdatedSoFar, UpdatingLabels, UnsettledLabels, Unsettled
    <3>2. CASE pc[s] \in UpdatingLabels
      <4>1. FileStays(frame[s].key) /\ FileStays(frame[s].to)
        BY <2>2, <3>2, UpdatesOwn
      <4> QED
        BY <2>1, <4>1 DEF UpdatedSoFar, FileStays, DiskInv, Unsettled, OpKeys
    <3> QED
      BY <3>1, <3>2
  <2> QED
    BY <2>3, <2>4 DEF DiskInv
<1>2. CASE Restart
  <2>1. Started(lock_entry, disk, index_, unsynced, pc, frame)'
    BY <1>2, RestartStarts DEF StorageInv
  <2> QED
    BY <2>1, DiskStart, PTL
<1>3. ASSUME NEW t \in Threads, NewCall(t) \/ OpStep(t) \/ Finish(t)
      PROVE  DiskInv'
  BY <1>3, DiskCall, DiskOp, NewCallStarts DEF StorageInv
<1> QED
  BY <1>1, <1>2, <1>3 DEF Next, Quiescent

(* The invariant of the index and the disk, as long as no count wraps. *)
THEOREM DiskInvariant ==
    ASSUME OneKeyPerFile
    PROVE  Spec /\ []NoWrap => []DiskInv
<1>1. Init => DiskInv
  BY InitStarts, DiskStart
<1>2. StorageInv /\ NoWrap /\ DiskInv /\ [Next]_vars => DiskInv'
  BY DiskStep
<1> QED
  BY <1>1, <1>2, StorageInvariant, PTL DEF Spec

(* A thread that has not brought the key in line holds it. *)
LEMMA UnsettledInUse ==
    ASSUME StorageInv, DiskInv, NEW k \in Keys, ~InUse(k)
    PROVE  Settled(k)
<1>1. ASSUME NEW t \in Threads, k \in Unsettled(t) PROVE FALSE
  BY <1>1, UpdatesOwn DEF Unsettled, UpdatingLabels, HasLocked, InUse
<1> QED
  BY <1>1 DEF DiskInv

(* A file nobody is writing has, in the index, the size it has on disk,    *)
(* after any number of failed operations, crashes and restarts, with three *)
(* exceptions (unsynced): a file to which a write was refused unnoticed,   *)
(* one whose remains fs::remove did not remove, and one the last scan did  *)
(* not index, because it gave up or because the file lies deeper than      *)
(* storage/<dir>/<file>.                                                   *)
THEOREM IndexFollowsDisk ==
    ASSUME OneKeyPerFile
    PROVE  Spec /\ []NoWrap => []DiskIndexed
<1>1. StorageInv /\ DiskInv => DiskIndexed
  BY UnsettledInUse DEF DiskIndexed, Settled, Synced
<1> QED
  BY <1>1, StorageInvariant, DiskInvariant, PTL

(* The index lists only files that exist, unless an upload can break off:  *)
(* its file is removed and its index entry stays.                          *)
THEOREM IndexListsDisk ==
    ASSUME OneKeyPerFile, "net" \notin Faults
    PROVE  Spec /\ []NoWrap => []IndexOnDisk
<1>1. StorageInv /\ DiskInv => IndexOnDisk
  BY UnsettledInUse DEF IndexOnDisk, Settled, Listed
<1> QED
  BY <1>1, StorageInvariant, DiskInvariant, PTL

-----------------------------------------------------------------------------
(* Transfers, and the renaming that depends on what it has looked up. *)

\* s is the beginning of c.
Begins(s, c) == Len(s) <= Len(c) /\ \A i \in 1 .. Len(s) : s[i] = c[i]

\* The ways out of an operation, where its result is known.
Returning == {"unlock", "release", "unwind", "drop", "done"}

\* How far thread t has come with its upload or download, and what a renaming
\* relies on.
Transfer(t) ==
    LET fr == frame[t]
    IN  /\ pc[t] # "idle" => fr.good \/ "write" \in Faults
        /\ pc[t] \notin Returning \cup {"idle"} => ~fr.ok
        /\ pc[t] = "save_recv" => Begins(File(fr.key), fr.data)
        /\ pc[t] = "stream_send" => File(fr.key) # None /\ Begins(fr.sent, File(fr.key))
        /\ pc[t] = "rename_move" => File(fr.to) = None

TransferInv == \A t \in Threads : Transfer(t)

(* Every contents begins with nothing. *)
LEMMA EmptyBegins == ASSUME NEW c \in Seq(Chunks) PROVE Begins(<<>>, c)
BY DEF Begins

(* A beginning as long as the whole is the whole. *)
LEMMA BeginsAll ==
    ASSUME NEW s \in Seq(Chunks), NEW c \in Seq(Chunks), Begins(s, c), Len(s) >= Len(c)
    PROVE  s = c
BY DEF Begins

(* A beginning followed by the next chunk is a beginning. *)
LEMMA BeginsMore ==
    ASSUME NEW s \in Seq(Chunks), NEW c \in Seq(Chunks), Begins(s, c), Len(s) < Len(c)
    PROVE  /\ c[Len(s) + 1] \in Chunks
           /\ Append(s, c[Len(s) + 1]) \in Seq(Chunks)
           /\ Len(Append(s, c[Len(s) + 1])) = Len(s) + 1
           /\ Begins(Append(s, c[Len(s) + 1]), c)
BY DEF Begins

\* The steps of a transfer, and those that remove or move a file.
TransferStep(t) ==
    \/ SaveOpen(t) \/ SaveChunk(t) \/ SaveNetError(t) \/ SaveIndex(t)
    \/ StreamOpen(t) \/ StreamChunk(t) \/ StreamNetError(t) \/ StreamEnd(t)
    \/ DeleteRemove(t) \/ RenameCheck(t) \/ RenameMove(t)

(* The other steps leave the contents of the files alone, and the locals   *)
(* that say how far a transfer has come.                                   *)
LEMMA OtherStepsTransferNothing ==
    ASSUME StorageInv, NEW t \in Threads, OpStep(t), ~TransferStep(t)
    PROVE  /\ UNCHANGED disk
           /\ pc[t] \notin {"idle", "save_recv", "stream_send"}
           /\ pc'[t] \notin {"idle", "save_recv", "stream_send", "rename_move"}
           /\ pc'[t] \notin Returning => pc[t] \notin Returning /\ frame'[t].ok = frame[t].ok
           /\ frame'[t].op = frame[t].op /\ frame'[t].good = frame[t].good
           /\ frame[t].op = "stream" => /\ frame'[t].sent = frame[t].sent
                                        /\ frame'[t].ok = frame[t].ok
<1>1. pc \in [Threads -> Labels] /\ DOMAIN frame = Threads
  BY DEF StorageInv, TypeOK
<1>2. pc[t] # "idle" => FrameOK(frame[t]) /\ FrameAt(t)
  BY InOperation DEF StorageInv
<1> USE <1>1, <1>2 DEF GoTo, Then, diskVars, Returning, FrameOK, FrameAt
<1> DEFINE Goal == /\ UNCHANGED disk
                   /\ pc[t] \notin {"idle", "save_recv", "stream_send"}
                   /\ pc'[t] \notin {"idle", "save_recv", "stream_send", "rename_move"}
                   /\ pc'[t] \notin Returning => pc[t] \notin Returning /\ frame'[t].ok = frame[t].ok
                   /\ frame'[t].op = frame[t].op /\ frame'[t].good = frame[t].good
                   /\ frame[t].op = "stream" => /\ frame'[t].sent = frame[t].sent
                                                /\ frame'[t].ok = frame[t].ok
<1>3. ASSUME DiscardChunk(t) \/ DiscardEnd(t) PROVE Goal
  BY <1>3 DEF DiscardChunk, DiscardEnd
<1>4. ASSUME SizeGet(t) PROVE Goal
  BY <1>4 DEF SizeGet
<1>5. ASSUME DeleteIndex(t) PROVE Goal
  BY <1>5 DEF DeleteIndex
<1>6. ASSUME RenameSize(t) PROVE Goal
  BY <1>6 DEF RenameSize
<1>7. ASSUME RenameRemove(t) \/ RenameAdd(t) PROVE Goal
  BY <1>7 DEF RenameRemove, RenameAdd
<1>8. ASSUME SaveRef(t) \/ StreamRef(t) \/ DeleteRef(t) \/ RenameRefOld(t)
               \/ RenameRefNew(t) \/ SaveLock(t) \/ StreamLock(t) \/ DeleteLock(t)
      PROVE  Goal
  BY <1>8 DEF SaveRef, StreamRef, DeleteRef, RenameRefOld, RenameRefNew, SaveLock,
     StreamLock, DeleteLock
<1>9. ASSUME RenameFirst(t) \/ RenameSecond(t) \/ RenameBackOff(t) PROVE Goal
  BY <1>9 DEF RenameFirst, RenameSecond, RenameBackOff
<1>10. ASSUME Unlock(t) \/ Unwind(t) \/ Release(t) \/ Drop(t) PROVE Goal
  BY <1>10 DEF Unlock, Unwind, Release, Drop
<1> QED
  BY <1>3, <1>4, <1>5, <1>6, <1>7, <1>8, <1>9, <1>10 DEF OpStep, TransferStep

(* What others do does not disturb a transfer: an upload holds its file    *)
(* exclusively, a download shared, a renaming both of its files.           *)
LEMMA TransferStays ==
    ASSUME OneKeyPerFile, StorageInv, NoWrap, NEW t \in Threads, OpStep(t),
           NEW s \in Threads \ {t}, Transfer(s)
    PROVE  Transfer(s)'
<1>1. pc'[s] = pc[s] /\ frame'[s] = frame[s]
  BY OpOthers
<1>2. CASE pc[s] \in {"save_recv", "stream_send", "rename_move"}
  <2>1. PICK k \in Keys, j \in Keys : k = frame[s].key /\ j = frame[s].to
    BY <1>2, InOperation DEF StorageInv
  <2>2. Holds(s, k) /\ Holds(s, j)
    BY <1>2, <2>1, ZenonT(60) DEF StorageInv, LocksFollowControl, LocksAt, HasLocked, OpKeys,
       Holds, ReadLabels, WriteLabels
  <2>3. ~HoldsExclusive(t, k) /\ ~HoldsExclusive(t, j)
    BY <2>2, UpdatesApart DEF Holds
  <2>4. File(k)' = File(k) /\ File(j)' = File(j)
    BY <2>3, TouchesOwnFiles DEF FileStays
  <2> QED
    BY <1>1, <2>1, <2>4 DEF Transfer
<1>3. CASE pc[s] \notin {"save_recv", "stream_send", "rename_move"}
  BY <1>1, <1>3 DEF Transfer
<1> QED
  BY <1>2, <1>3

(* What thread t does to its own transfer. *)
LEMMA OwnTransfer ==
    ASSUME OneKeyPerFile, StorageInv, NEW t \in Threads,
           Transfer(t), UpdatedSoFar(t), OpStep(t)
    PROVE  Transfer(t)'
<1> DEFINE Goal == Transfer(t)'
<1> SUFFICES Goal
  OBVIOUS
<1>ty. /\ TypeOK /\ pc \in [Threads -> Labels] /\ DOMAIN frame = Threads
       /\ disk \in [Files -> Seq(Chunks) \cup {None}]
  BY DEF StorageInv, TypeOK
<1>1. CASE ~TransferStep(t)
  BY <1>1, OtherStepsTransferNothing DEF Transfer
<1>2. CASE TransferStep(t)
  <2>0. pc[t] \in WriteLabels \cup ReadLabels
    BY <1>2 DEF TransferStep, WriteLabels, ReadLabels, SaveOpen, SaveChunk, SaveNetError,
       SaveIndex, StreamOpen, StreamChunk, StreamNetError, StreamEnd, DeleteRemove,
       RenameCheck, RenameMove
  <2>1. PICK k \in Keys, j \in Keys : k = frame[t].key /\ j = frame[t].to
    BY <2>0, InOperation DEF StorageInv, WriteLabels, ReadLabels
  <2>2. FrameOK(frame[t]) /\ FrameAt(t)
    BY <2>0, InOperation DEF StorageInv, WriteLabels, ReadLabels
  <2>3. (frame[t].good \/ "write" \in Faults) /\ ~frame[t].ok
    BY <2>0 DEF Transfer, WriteLabels, ReadLabels, Returning
  <2>4. None \notin Nat /\ None \notin Seq(Chunks)
    BY StorageAssumption
  <2>5. ASSUME frame' = frame, pc'[t] \notin {"save_recv", "stream_send", "rename_move"}
        PROVE  Goal
    BY <2>3, <2>5 DEF Transfer
  <2>6. ASSUME SaveOpen(t) PROVE Goal
    <3>1. CASE Then(t, "save_discard")
      BY <2>5, <3>1, <1>ty DEF Then, GoTo
    <3>2. CASE ~Then(t, "save_discard")
      <4>0. <<>> \in Seq(Chunks)
        OBVIOUS
      <4>1. PICK c \in Seq(Chunks) : c = <<>>
        BY <4>0, Zenon
      <4>2. pc'[t] = "save_recv" /\ frame' = frame /\ SetFile(k, c)
        BY <2>1, <2>6, <3>2, <4>1, <1>ty DEF SaveOpen, GoTo
      <4>3. File(k)' = c
        BY <4>2, <1>ty, SetFileOnly
      <4>4. Begins(c, frame[t].data)
        BY <2>2, <4>1, EmptyBegins DEF FrameOK
      <4> QED
        BY <2>1, <2>3, <4>2, <4>3, <4>4 DEF Transfer
    <3> QED
      BY <3>1, <3>2
  <2>7. ASSUME SaveChunk(t) PROVE Goal
    <3>1. /\ pc[t] = "save_recv" /\ pc' = pc /\ File(k) # None
          /\ frame[t].good => Len(File(k)) = frame[t].pos
          /\ Begins(File(k), frame[t].data)
      BY <2>1, <2>7 DEF SaveChunk, UpdatedSoFar, Transfer
    <3>2. PICK good \in BOOLEAN :
            /\ good => frame[t].good
            /\ good \/ frame[t].good = good \/ "write" \in Faults
            /\ frame' = [frame EXCEPT ![t].pos = @ + 1, ![t].good = good]
            /\ IF good THEN SetFile(k, Append(File(k), frame[t].data[frame[t].pos + 1]))
                       ELSE disk' = disk
      BY <2>1, <2>2, <2>7, <3>1 DEF SaveChunk, FrameOK
    <3>3. /\ frame'[t].key = k /\ frame'[t].data = frame[t].data
          /\ frame'[t].good = good /\ frame'[t].ok = frame[t].ok
      BY <2>1, <2>2, <3>2, <1>ty DEF FrameOK
    <3>4. Begins(File(k)', frame[t].data)
      <4>1. CASE good
        <5>1. File(k) \in Seq(Chunks) /\ frame[t].data \in Seq(Chunks)
          BY <2>2, <3>1, <1>ty, StorageAssumption DEF File, FrameOK
        <5>2. Len(File(k)) = frame[t].pos /\ Len(File(k)) < Len(frame[t].data)
          BY <2>2, <2>7, <3>1, <3>2, <4>1 DEF SaveChunk, Remaining, FrameOK
        <5>3. Begins(Append(File(k), frame[t].data[frame[t].pos + 1]), frame[t].data)
          BY <3>1, <5>1, <5>2, BeginsMore
        <5>4. File(k)' = Append(File(k), frame[t].data[frame[t].pos + 1])
          BY <3>2, <4>1, <1>ty, SetFileOnly
        <5> QED
          BY <5>3, <5>4
      <4>2. CASE ~good
        BY <3>1, <3>2, <4>2 DEF File
      <4> QED
        BY <4>1, <4>2
    <3> QED
      BY <2>3, <3>1, <3>2, <3>3, <3>4 DEF Transfer
  <2>8. ASSUME SaveNetError(t) PROVE Goal
    BY <2>5, <2>8, <1>ty DEF SaveNetError, GoTo
  <2>9. ASSUME SaveIndex(t) PROVE Goal
    <3>1. pc'[t] = "unlock" /\ frame'[t].good = frame[t].good
      BY <2>2, <2>9, <1>ty DEF SaveIndex, GoTo, FrameOK
    <3> QED
      BY <2>3, <3>1 DEF Transfer, Returning
  <2>10. ASSUME StreamOpen(t) PROVE Goal
    <3>1. /\ pc[t] = "stream_open" /\ pc'[t] \in {"stream_send", "unlock"}
          /\ frame' = frame /\ disk' = disk
          /\ frame[t].sent = <<>>
          /\ pc'[t] = "stream_send" => File(k) # None
      BY <2>1, <2>2, <2>10, <1>ty DEF StreamOpen, Then, GoTo, diskVars, FrameAt
    <3>2. File(k) # None => Begins(frame[t].sent, File(k))
      BY <3>1, <1>ty, EmptyBegins, StorageAssumption DEF File
    <3>3. File(k)' = File(k)
      BY <3>1 DEF File
    <3> QED
      BY <2>1, <2>3, <3>1, <3>2, <3>3 DEF Transfer
  <2>11. ASSUME StreamChunk(t) PROVE Goal
    <3>1. /\ pc[t] = "stream_send" /\ pc' = pc /\ disk' = disk
          /\ File(k) # None /\ Begins(frame[t].sent, File(k))
          /\ Len(frame[t].sent) < Len(File(k))
      <4>1. /\ pc[t] = "stream_send" /\ pc' = pc /\ disk' = disk /\ ~AtEnd(t)
        BY <2>11 DEF StreamChunk, diskVars
      <4>2. File(k) # None /\ Begins(frame[t].sent, File(k))
        BY <2>1, <4>1 DEF Transfer
      <4>3. Len(File(k)) \in Nat /\ Len(frame[t].sent) \in Nat
        BY <2>2, <4>2, <1>ty, StorageAssumption DEF File, FrameOK
      <4> QED
        BY <2>1, <4>1, <4>2, <4>3 DEF AtEnd
    <3>2. /\ frame'[t].sent = Append(frame[t].sent, File(k)[Len(frame[t].sent) + 1])
          /\ frame'[t].key = k /\ frame'[t].good = frame[t].good
          /\ frame'[t].ok = frame[t].ok
      BY <2>1, <2>2, <2>11, <1>ty DEF StreamChunk, FrameOK
    <3>3. File(k) \in Seq(Chunks) /\ frame[t].sent \in Seq(Chunks)
      BY <2>2, <3>1, <1>ty, StorageAssumption DEF File, FrameOK
    <3>4. Begins(Append(frame[t].sent, File(k)[Len(frame[t].sent) + 1]), File(k))
      BY <3>1, <3>3, BeginsMore
    <3>5. File(k)' = File(k)
      BY <3>1 DEF File
    <3> QED
      BY <2>3, <3>1, <3>2, <3>4, <3>5 DEF Transfer
  <2>12. ASSUME StreamNetError(t) PROVE Goal
    BY <2>5, <2>12, <1>ty DEF StreamNetError, Then, GoTo
  <2>13. ASSUME StreamEnd(t) PROVE Goal
    <3>1. pc'[t] = "unwind" /\ frame'[t].good = frame[t].good
      BY <2>2, <2>13, <1>ty DEF StreamEnd, GoTo, FrameOK
    <3> QED
      BY <2>3, <3>1 DEF Transfer, Returning
  <2>14. ASSUME DeleteRemove(t) PROVE Goal
    BY <2>5, <2>14, <1>ty DEF DeleteRemove, Then, GoTo
  <2>15. ASSUME RenameCheck(t) PROVE Goal
    <3>1. /\ frame' = frame /\ disk' = disk /\ pc'[t] \in {"unlock", "rename_move"}
          /\ pc'[t] = "rename_move" => File(j) = None
      BY <2>1, <2>15, <1>ty DEF RenameCheck, Then, GoTo, diskVars
    <3> QED
      BY <2>1, <2>3, <3>1 DEF Transfer, File
  <2>16. ASSUME RenameMove(t) PROVE Goal
    BY <2>5, <2>16, <1>ty DEF RenameMove, Then, GoTo
  <2> QED
    BY <1>2, <2>6, <2>7, <2>8, <2>9, <2>10, <2>11, <2>12, <2>13, <2>14, <2>15, <2>16
    DEF TransferStep
<1> QED
  BY <1>1, <1>2

(* Every step of an operation keeps the invariant of the transfers. *)
LEMMA TransferOp ==
    ASSUME OneKeyPerFile, StorageInv, NoWrap, DiskInv, TransferInv,
           NEW t \in Threads, OpStep(t)
    PROVE  TransferInv'
BY OwnTransfer, TransferStays DEF TransferInv, DiskInv

(* A call and the return of an operation touch no file and no other thread. *)
LEMMA CallTouchesNothing ==
    ASSUME StorageInv, NEW t \in Threads, Starts(t) \/ Finish(t)
    PROVE  /\ disk' = disk
           /\ \A s \in Threads \ {t} : pc'[s] = pc[s] /\ frame'[s] = frame[s]
           /\ pc[t] \in {"idle", "done"}
           /\ pc'[t] \notin {"save_recv", "stream_send", "rename_move"}
           /\ pc'[t] # "idle" =>
                /\ frame'[t].good
                /\ frame'[t].ok => pc'[t] = "done" /\ frame'[t].op # "stream"
<1>1. pc \in [Threads -> Labels] /\ DOMAIN frame = Threads
  BY DEF StorageInv, TypeOK
<1>2. CASE Finish(t)
  BY <1>1, <1>2 DEF Finish, GoTo, diskVars
<1>3. CASE Starts(t)
  BY <1>1, <1>3 DEF Starts, StartsWith, Entry, Fresh, diskVars
<1> QED
  BY <1>2, <1>3

(* So they keep the invariant. *)
LEMMA TransferCall ==
    ASSUME StorageInv, TransferInv, NEW t \in Threads, Starts(t) \/ Finish(t)
    PROVE  TransferInv'
<1>1. Transfer(t)'
  BY CallTouchesNothing DEF Transfer, Returning
<1>2. \A s \in Threads \ {t} : Transfer(s)'
  BY CallTouchesNothing DEF TransferInv, Transfer, File
<1> QED
  BY <1>1, <1>2 DEF TransferInv

(* A process that has just started has no transfer. *)
LEMMA TransferStart ==
    Started(lock_entry, disk, index_, unsynced, pc, frame) => TransferInv
BY DEF Started, TransferInv, Transfer

(* Every step of the storage keeps it. *)
LEMMA TransferKept ==
    ASSUME OneKeyPerFile, StorageInv, NoWrap, DiskInv, TransferInv, [Next]_vars
    PROVE  TransferInv'
<1>1. CASE UNCHANGED vars
  BY <1>1 DEF vars, storeVars, diskVars, TransferInv, Transfer, File
<1>2. CASE Restart
  BY <1>2, RestartStarts DEF StorageInv, Started, TransferInv, Transfer
<1>3. ASSUME NEW t \in Threads, NewCall(t) \/ OpStep(t) \/ Finish(t)
      PROVE  TransferInv'
  BY <1>3, TransferOp, TransferCall, NewCallStarts DEF StorageInv
<1> QED
  BY <1>1, <1>2, <1>3 DEF Next, Quiescent

(* The invariant of the transfers, with every fault. *)
THEOREM TransferInvariant ==
    ASSUME OneKeyPerFile
    PROVE  Spec /\ []NoWrap => []TransferInv
<1>1. StorageInv /\ NoWrap /\ DiskInv /\ TransferInv /\ [Next]_vars => TransferInv'
  BY TransferKept
<1>2. Init => TransferInv
  BY InitStarts, TransferStart
<1> QED
  BY <1>1, <1>2, StorageInvariant, DiskInvariant, PTL DEF Spec

-----------------------------------------------------------------------------
(* Downloads of whole files. *)

\* The complete contents: what clients upload and what was there before.
Whole == Payloads \cup InitialContents

\* A file is complete, or absent, or still arriving.
AtRest(k) == File(k) \in Whole \cup {None}
Arriving(t) == IF pc[t] = "save_recv" THEN {frame[t].key} ELSE {}

\* What a download has sent is complete once it succeeds.
SentWhole(t) ==
    pc[t] # "idle" /\ frame[t].op = "stream" /\ frame[t].ok => frame[t].sent \in Whole

WholeInv ==
    /\ \A k \in Keys : AtRest(k) \/ \E t \in Threads : k \in Arriving(t)
    /\ \A t \in Threads : SentWhole(t)

\* Nothing but lost connections and failing calls: no crash and no write or
\* remove that fails, which leave the beginning of an upload on the disk.
UploadsEndWhole == {"crash", "write", "remove"} \cap Faults = {}

(* What thread t does to the files it holds and to its own download. *)
LEMMA OwnWhole ==
    ASSUME OneKeyPerFile, UploadsEndWhole, StorageInv, NEW t \in Threads,
           Transfer(t), UpdatedSoFar(t), SentWhole(t), OpStep(t),
           \A k \in Keys : Holds(t, k) => AtRest(k) \/ k \in Arriving(t)
    PROVE  /\ SentWhole(t)'
           /\ \A k \in Keys : HoldsExclusive(t, k) => AtRest(k)' \/ k \in Arriving(t)'
<1> DEFINE Goal == /\ SentWhole(t)'
                   /\ \A k \in Keys : HoldsExclusive(t, k) =>
                                        AtRest(k)' \/ k \in Arriving(t)'
<1> SUFFICES Goal
  OBVIOUS
<1>ty. /\ TypeOK /\ pc \in [Threads -> Labels] /\ DOMAIN frame = Threads
       /\ disk \in [Files -> Seq(Chunks) \cup {None}]
  BY DEF StorageInv, TypeOK
<1>1. CASE ~TransferStep(t)
  <2>1. SentWhole(t)'
    BY <1>1, OtherStepsTransferNothing DEF SentWhole
  <2>2. ASSUME NEW k \in Keys, HoldsExclusive(t, k) PROVE AtRest(k)'
    BY <1>1, <2>2, OtherStepsTransferNothing DEF AtRest, File, Arriving, Holds
  <2> QED
    BY <2>1, <2>2
<1>2. CASE TransferStep(t)
  <2>0. pc[t] \in WriteLabels \cup ReadLabels
    BY <1>2 DEF TransferStep, WriteLabels, ReadLabels, SaveOpen, SaveChunk, SaveNetError,
       SaveIndex, StreamOpen, StreamChunk, StreamNetError, StreamEnd, DeleteRemove,
       RenameCheck, RenameMove
  <2>1. PICK k \in Keys, j \in Keys : k = frame[t].key /\ j = frame[t].to
    BY <2>0, InOperation DEF StorageInv, WriteLabels, ReadLabels
  <2>2. FrameOK(frame[t]) /\ FrameAt(t)
    BY <2>0, InOperation DEF StorageInv, WriteLabels, ReadLabels
  <2>3. /\ \A i \in Keys : Holds(t, i) <=> i = k \/ i = j
        /\ \A i \in Keys : HoldsExclusive(t, i) => Holds(t, i)
    BY <2>0, <2>1 DEF StorageInv, LocksFollowControl, LocksAt, HasLocked, OpKeys, Holds
  <2>4. pc[t] # "save_recv" => AtRest(k) /\ AtRest(j)
    BY <2>3 DEF Arriving
  <2>5. frame[t].good /\ ~frame[t].ok
    BY <2>0 DEF Transfer, WriteLabels, ReadLabels, Returning, UploadsEndWhole
  <2>6. SUFFICES /\ SentWhole(t)'
                 /\ AtRest(k)' \/ (pc'[t] = "save_recv" /\ frame'[t].key = k)
                 /\ AtRest(j)' \/ (pc'[t] = "save_recv" /\ frame'[t].key = j)
    BY <2>3 DEF Arriving
  <2> DEFINE G == /\ SentWhole(t)'
                  /\ AtRest(k)' \/ (pc'[t] = "save_recv" /\ frame'[t].key = k)
                  /\ AtRest(j)' \/ (pc'[t] = "save_recv" /\ frame'[t].key = j)
  <2>sd. \A i \in Keys : disk' = disk => (AtRest(i)' <=> AtRest(i))
    BY DEF File, AtRest
  <2>7. ASSUME frame' = frame, disk' = disk, pc[t] # "save_recv" PROVE G
    BY <2>4, <2>5, <2>7, <2>sd DEF SentWhole
  <2>8. ASSUME SaveOpen(t) PROVE G
    <3>1. frame' = frame /\ j = k
      BY <2>1, <2>2, <2>8 DEF SaveOpen, Then, FrameAt
    <3>2. pc'[t] = "save_recv" \/ (disk' = disk /\ pc[t] # "save_recv")
      BY <2>8, <1>ty DEF SaveOpen, Then, GoTo, diskVars
    <3> QED
      BY <2>1, <2>5, <2>7, <3>1, <3>2 DEF SentWhole
  <2>9. ASSUME SaveChunk(t) PROVE G
    <3>1. /\ pc[t] = "save_recv" /\ pc' = pc /\ j = k
          /\ \E b : frame' = [frame EXCEPT ![t].pos = @ + 1, ![t].good = b]
      BY <2>1, <2>2, <2>9 DEF SaveChunk, FrameAt
    <3>2. frame'[t].key = k /\ frame'[t].ok = frame[t].ok
      BY <2>1, <2>2, <3>1, <1>ty DEF FrameOK
    <3> QED
      BY <2>5, <3>1, <3>2 DEF SentWhole
  <2>10. ASSUME SaveNetError(t) PROVE G
    <3>1. frame' = frame /\ j = k /\ SetFile(k, None)
      BY <2>1, <2>2, <2>10, <1>ty DEF SaveNetError, UploadsEndWhole, FrameAt
    <3>2. File(k)' = None
      BY <3>1, <1>ty, SetFileOnly
    <3> QED
      BY <2>5, <3>1, <3>2 DEF SentWhole, AtRest
  <2>11. ASSUME SaveIndex(t) PROVE G
    <3>1. /\ pc[t] = "save_recv" /\ j = k /\ disk' = disk
          /\ File(k) # None /\ Len(File(k)) = frame[t].pos
          /\ Begins(File(k), frame[t].data) /\ frame[t].data \in Payloads
      BY <2>1, <2>2, <2>5, <2>11, <1>ty DEF SaveIndex, UpdatedSoFar, Transfer, FrameAt
    <3>2. File(k) \in Seq(Chunks) /\ frame[t].data \in Seq(Chunks)
      BY <2>2, <3>1, <1>ty, StorageAssumption DEF File, FrameOK
    <3>3. Len(File(k)) >= Len(frame[t].data)
      BY <2>2, <2>11, <3>1 DEF SaveIndex, Remaining, FrameOK
    <3>4. File(k) = frame[t].data
      BY <3>1, <3>2, <3>3, BeginsAll
    <3>5. AtRest(k)'
      BY <2>sd, <3>1, <3>4 DEF AtRest, Whole
    <3>6. frame'[t].op = "save"
      BY <2>2, <2>11, <3>1, <1>ty DEF SaveIndex, FrameOK, FrameAt
    <3> QED
      BY <3>1, <3>5, <3>6 DEF SentWhole
  <2>12. ASSUME StreamOpen(t) \/ StreamNetError(t) \/ RenameCheck(t) PROVE G
    BY <2>7, <2>12 DEF StreamOpen, StreamNetError, RenameCheck, Then, diskVars
  <2>13. ASSUME StreamChunk(t) PROVE G
    <3>1. pc[t] = "stream_send" /\ disk' = disk /\ frame'[t].ok = frame[t].ok
      BY <2>2, <2>13, <1>ty DEF StreamChunk, FrameOK, diskVars
    <3> QED
      BY <2>4, <2>5, <2>sd, <3>1 DEF SentWhole
  <2>14. ASSUME StreamEnd(t) PROVE G
    <3>1. /\ pc[t] = "stream_send" /\ disk' = disk
          /\ File(k) # None /\ Begins(frame[t].sent, File(k)) /\ AtEnd(t)
      BY <2>1, <2>14, <1>ty DEF StreamEnd, diskVars, Transfer
    <3>2. frame'[t].sent = frame[t].sent
      BY <2>2, <2>14, <1>ty DEF StreamEnd, FrameOK
    <3>3. File(k) \in Seq(Chunks) /\ frame[t].sent \in Seq(Chunks)
      BY <2>2, <3>1, <1>ty, StorageAssumption DEF File, FrameOK
    <3>4. frame[t].sent = File(k)
      BY <2>1, <3>1, <3>3, BeginsAll DEF AtEnd
    <3>5. File(k) \in Whole
      BY <2>4, <3>1 DEF AtRest
    <3> QED
      BY <2>4, <2>sd, <3>1, <3>2, <3>4, <3>5 DEF SentWhole
  <2>15. ASSUME DeleteRemove(t) PROVE G
    <3>1. pc[t] = "delete_remove" /\ frame' = frame /\ j = k
      BY <2>1, <2>2, <2>15, <1>ty DEF DeleteRemove, Then, FrameAt
    <3>2. SetFile(k, None) \/ disk' = disk
      BY <2>1, <2>15 DEF DeleteRemove, Then, diskVars
    <3>3. AtRest(k)'
      BY <2>4, <2>sd, <3>1, <3>2, <1>ty, SetFileOnly DEF AtRest
    <3> QED
      BY <2>5, <3>1, <3>3 DEF SentWhole
  <2>16. ASSUME RenameMove(t) PROVE G
    <3>1. pc[t] = "rename_move" /\ frame' = frame /\ j # k
      BY <2>1, <2>2, <2>16, <1>ty DEF RenameMove, Then, FrameAt
    <3>2. \/ disk' = [disk EXCEPT ![FileOf[j]] = File(k), ![FileOf[k]] = None]
          \/ disk' = disk
      BY <2>1, <2>16 DEF RenameMove, Then, diskVars
    <3>3. AtRest(k)' /\ AtRest(j)'
      <4>1. CASE disk' = disk
        BY <2>4, <2>sd, <3>1, <4>1
      <4>2. CASE disk' # disk
        <5>1. File(k)' = None /\ File(j)' = File(k)
          BY <3>1, <3>2, <4>2, <1>ty, MoveOnly
        <5> QED
          BY <2>4, <3>1, <5>1 DEF AtRest
      <4> QED
        BY <4>1, <4>2
    <3> QED
      BY <2>5, <3>1, <3>3 DEF SentWhole
  <2> QED
    BY <1>2, <2>8, <2>9, <2>10, <2>11, <2>12, <2>13, <2>14, <2>15, <2>16
    DEF TransferStep
<1> QED
  BY <1>1, <1>2

(* Every step of an operation leaves whole files. *)
LEMMA WholeOp ==
    ASSUME OneKeyPerFile, UploadsEndWhole, StorageInv, NoWrap, DiskInv, TransferInv,
           WholeInv, NEW t \in Threads, OpStep(t)
    PROVE  WholeInv'
<1>1. ASSUME NEW k \in Keys, NEW s \in Threads, k \in Arriving(s)
      PROVE  HoldsExclusive(s, k)
  BY <1>1, UpdatesOwn DEF Arriving, UpdatingLabels, UnsettledLabels, HasLocked, OpKeys
<1>2. ASSUME NEW k \in Keys, Holds(t, k) PROVE AtRest(k) \/ k \in Arriving(t)
  BY <1>1, <1>2, UpdatesApart DEF WholeInv, Holds
<1>3. /\ SentWhole(t)'
      /\ \A k \in Keys : HoldsExclusive(t, k) => AtRest(k)' \/ k \in Arriving(t)'
  BY <1>2, OwnWhole DEF TransferInv, DiskInv, WholeInv
<1>4. \A s \in Threads \ {t} : SentWhole(s)' /\ Arriving(s)' = Arriving(s)
  BY OpOthers DEF WholeInv, SentWhole, Arriving
<1>5. ASSUME NEW k \in Keys, ~HoldsExclusive(t, k)
      PROVE  AtRest(k)' \/ \E s \in Threads : k \in Arriving(s)'
  <2>1. AtRest(k) \/ \E s \in Threads \ {t} : k \in Arriving(s)
    BY <1>1, <1>5 DEF WholeInv
  <2>2. AtRest(k) => AtRest(k)'
    BY <1>5, TouchesOwnFiles DEF FileStays, AtRest
  <2> QED
    BY <1>4, <2>1, <2>2
<1> QED
  BY <1>3, <1>4, <1>5 DEF WholeInv

(* So do a call and the return of an operation. *)
LEMMA WholeCall ==
    ASSUME StorageInv, WholeInv, NEW t \in Threads, Starts(t) \/ Finish(t)
    PROVE  WholeInv'
<1>1. SentWhole(t)'
  BY CallTouchesNothing DEF SentWhole
<1>2. \A s \in Threads \ {t} : SentWhole(s)'
  BY CallTouchesNothing DEF WholeInv, SentWhole
<1>3. \A k \in Keys : AtRest(k)' <=> AtRest(k)
  BY CallTouchesNothing DEF AtRest, File
<1>4. \A s \in Threads : Arriving(s)' = Arriving(s)
  BY CallTouchesNothing DEF Arriving
<1> QED
  BY <1>1, <1>2, <1>3, <1>4 DEF WholeInv

(* When the server starts only complete files are there. *)
LEMMA WholeStart == Init => WholeInv
BY StorageAssumption DEF Init, WholeInv, SentWhole, AtRest, File, Whole

(* Every step of the storage leaves whole files. *)
LEMMA WholeKept ==
    ASSUME OneKeyPerFile, UploadsEndWhole, StorageInv, NoWrap, DiskInv, TransferInv,
           WholeInv, [Next]_vars
    PROVE  WholeInv'
<1>1. CASE UNCHANGED vars
  BY <1>1 DEF vars, storeVars, diskVars, WholeInv, SentWhole, Arriving, AtRest, File
<1>2. ~Restart
  BY DEF Restart, UploadsEndWhole
<1>3. ASSUME NEW t \in Threads, NewCall(t) \/ OpStep(t) \/ Finish(t)
      PROVE  WholeInv'
  BY <1>3, WholeOp, WholeCall, NewCallStarts DEF StorageInv
<1> QED
  BY <1>1, <1>2, <1>3 DEF Next, Quiescent

(* A download that reports success sent one complete upload, or what was   *)
(* there when the server started: never a mix of two, never the beginning  *)
(* of one that broke off.                                                  *)
THEOREM DownloadIsOneUpload ==
    ASSUME OneKeyPerFile, UploadsEndWhole
    PROVE  Spec /\ []NoWrap => []NoTornDownload
<1>1. /\ StorageInv /\ NoWrap /\ DiskInv /\ TransferInv /\ WholeInv /\ [Next]_vars
      => WholeInv'
  BY WholeKept
<1>2. WholeInv => NoTornDownload
  BY DEF WholeInv, SentWhole, NoTornDownload, Whole
<1> QED
  BY <1>1, <1>2, WholeStart, StorageInvariant, DiskInvariant, TransferInvariant, PTL
  DEF Spec
===========================================================================
