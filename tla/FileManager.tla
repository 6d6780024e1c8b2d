---------------------------- MODULE FileManager ----------------------------
(***************************************************************************)
(* The storage operations of the server (src/server/file_manager.cpp,      *)
(* class FileManager) over the per-file locks, the directory tree under    *)
(* storage/ and the in-memory index (src/server/metadata_manager.cpp).     *)
(*                                                                         *)
(* Worker threads run the operations step by step: one step per lock       *)
(* operation, per file-system call, per transferred chunk and per call of  *)
(* the index, whose operations run under MetadataManager::mutex_.          *)
(* A file's contents are the sequence of the chunks written to it; a chunk *)
(* stands for one TRANSFER_BUFFER_SIZE buffer.                             *)
(*                                                                         *)
(* Faults names what the environment may do to an operation:               *)
(*   "net"     the connection breaks while a payload is transferred        *)
(*   "mkdir", "open", "remove", "rename"  the file-system call fails       *)
(*   "write"   the disk refuses the data of an upload (ofstream::write)    *)
(*   "crash"   the process ends at any point and is started again          *)
(*   "scan"    rebuilding the index stops at an exception                  *)
(***************************************************************************)
EXTENDS FileLockManager, MetadataManager, Sequences

CONSTANTS
    None,        \* no frame, no file, no index entry
    Owner,       \* Owner[k]: the user whose directory path key k is in
    Files,       \* identities of files in the file system
    FileOf,      \* FileOf[k]: the file that path key k names
    Scanned,     \* the keys at storage/<directory>/<file>: LOGIN accepts a
                 \* name like "a/b", whose files are one directory deeper
    ValidKeys,   \* the keys whose file name passes is_valid_filename
    Chunks,      \* contents of one transfer buffer
    Payloads,    \* the contents clients upload: sequences of chunks
    InitialContents, \* what a file may hold when the server starts
    Faults,      \* see above
    MaxCalls     \* bound: operations started in a behaviour

ASSUME StorageAssumption ==
    /\ Owner \in [Keys -> Users]
    /\ FileOf \in [Keys -> Files]
    /\ Scanned \subseteq Keys
    /\ ValidKeys \subseteq Keys
    /\ Payloads \subseteq Seq(Chunks)
    /\ InitialContents \subseteq Seq(Chunks) \cup {None}
    /\ None \notin Nat \cup Seq(Chunks)
    /\ MaxCalls \in Nat

VARIABLES
    disk,        \* disk[f]: the contents of file f, or None
    unsynced,    \* history: the files whose size the index need not have,
                 \* after a refused write, a failed remove or a scan that
                 \* did not come to the file
    pc,          \* pc[t]: where thread t is
    frame,       \* frame[t]: the arguments and locals of its operation
    calls        \* operations started so far

diskVars == <<disk, unsynced>>
storeVars == <<diskVars, index_, pc, frame, calls>>
vars == <<lockVars, storeVars>>

File(k) == disk[FileOf[k]]
SetFile(k, c) == disk' = [disk EXCEPT ![FileOf[k]] = c]
SetSynced(k, b) ==
    unsynced' = IF b THEN unsynced \ {FileOf[k]} ELSE unsynced \cup {FileOf[k]}

-----------------------------------------------------------------------------
(* The index.  A path key stands for the file name in its user's directory. *)

Index(k, n) == add_file(Owner[k], k, n)
Unindex(k)  == remove_file(Owner[k], k)
Indexed(k)  == file_exists(Owner[k], k)
Size(k)     == get_size(Owner[k], k)

\* rebuild_from_disk visits the regular files of disk d in the directories
\* right under storage/, and nothing deeper, in no particular order; an
\* exception ends the scan.
Visits(d) ==
    LET found == {k \in Scanned : d[FileOf[k]] # None}
    IN  IF "scan" \in Faults THEN SUBSET found ELSE {found}

\* The index and the files it misses after a scan of disk d that visits S.
Scan(d, S) ==
    [index |-> RebuiltIndex({[user |-> Owner[k], name |-> k, size |-> Len(d[FileOf[k]])]
                                : k \in S}),
     missed |-> {FileOf[k] : k \in {j \in Keys \ S : d[FileOf[j]] # None}}]

-----------------------------------------------------------------------------
(* Frames and calls. *)

NewFrame(op, k, j, d) ==
    [op |-> op, key |-> k, to |-> j, data |-> d,
     pos |-> 0,          \* chunks of data taken from the socket
     sent |-> <<>>,      \* chunks sent to the socket
     first |-> k,        \* the mutex std::lock blocks on
     size |-> None,      \* the size read from the index
     listing |-> Empty,  \* the directory read from the index
     good |-> TRUE,      \* state of the ofstream
     ok |-> FALSE]       \* the result

GoTo(t, label) == pc' = [pc EXCEPT ![t] = label]

Call(t, fr, label) ==
    /\ pc[t] = "idle" /\ calls < MaxCalls
    /\ frame' = [frame EXCEPT ![t] = fr]
    /\ calls' = calls + 1
    /\ GoTo(t, label)
    /\ UNCHANGED <<lockVars, diskVars, index_>>

\* The caller has the result.
Finish(t) ==
    /\ pc[t] = "done"
    /\ GoTo(t, "idle")
    /\ frame' = [frame EXCEPT ![t] = None]
    /\ UNCHANGED <<lockVars, diskVars, index_, calls>>

\* A step that moves on and changes nothing else of this module.
Then(t, label) ==
    GoTo(t, label) /\ UNCHANGED <<diskVars, index_, frame, calls>>

-----------------------------------------------------------------------------
(* The ways out of an operation. *)

\* The keys of the operation that satisfy P, in the order the code lists them.
OpKeys(t) == {frame[t].key, frame[t].to}
Earlier(t, S) == IF frame[t].key \in S THEN frame[t].key ELSE frame[t].to
Later(t, S)   == IF frame[t].to \in S THEN frame[t].to ELSE frame[t].key
LockedKeys(t) == {k \in OpKeys(t) : Holds(t, k)}
ReferredKeys(t) == {k \in OpKeys(t) : lock_entry[t][k] # NoEntry}

\* write_lock.unlock() ... release_lock_ref(path_key)
Unlock(t) ==
    /\ pc[t] = "unlock"
    /\ unlock(t, Earlier(t, LockedKeys(t)))
    /\ Then(t, IF Cardinality(LockedKeys(t)) = 1 THEN "release" ELSE "unlock")

Release(t) ==
    /\ pc[t] = "release"
    /\ release_lock_ref(t, Earlier(t, ReferredKeys(t)))
    /\ Then(t, IF Cardinality(ReferredKeys(t)) = 1 THEN "done" ELSE "release")

\* A return or an exception out of the scope of the lock: the destructors
\* unlock the mutexes and drop the shared_ptrs; nobody calls release_lock_ref.
Unwind(t) ==
    /\ pc[t] = "unwind"
    /\ unlock(t, Later(t, LockedKeys(t)))
    /\ Then(t, IF Cardinality(LockedKeys(t)) = 1 THEN "drop" ELSE "unwind")

Drop(t) ==
    /\ pc[t] = "drop"
    /\ drop_lock_ref(t, Later(t, ReferredKeys(t)))
    /\ Then(t, IF Cardinality(ReferredKeys(t)) = 1 THEN "done" ELSE "drop")

Remaining(t) == Len(frame[t].data) - frame[t].pos

\* Bug variant: one more buffer than announced is read.
DiscardPastEnd(t) ==
    /\ pc[t] \in {"discard", "save_discard"}
    /\ frame' = [frame EXCEPT ![t].pos = @ + 1]
    /\ UNCHANGED <<lockVars, diskVars, index_, pc, calls>>

\* One chunk of discard_data after the other, until all are read or recv fails.
DiscardChunk(t) ==
    /\ pc[t] \in {"discard", "save_discard"}
    /\ Remaining(t) > 0
    /\ frame' = [frame EXCEPT ![t].pos = @ + 1]
    /\ UNCHANGED <<lockVars, diskVars, index_, pc, calls>>

DiscardEnd(t) ==
    /\ pc[t] \in {"discard", "save_discard"}
    /\ Remaining(t) = 0 \/ "net" \in Faults
    /\ Then(t, IF pc[t] = "discard" THEN "done" ELSE "unlock")
    /\ UNCHANGED lockVars

discard_data(t, d) == Call(t, NewFrame("discard", None, None, d), "discard")

-----------------------------------------------------------------------------
(* save_file *)

\* Bug variant: a rejected name leaves the payload in the socket.
SaveWithoutDiscard(t, k, d) ==
    Call(t, NewFrame("save", k, k, d), IF k \in ValidKeys THEN "save_ref" ELSE "done")

save_file(t, k, d) ==
    \/ /\ k \notin ValidKeys \/ "mkdir" \in Faults
       /\ Call(t, NewFrame("save", k, k, d), "discard")
    \/ /\ k \in ValidKeys
       /\ Call(t, NewFrame("save", k, k, d), "save_ref")

SaveRef(t) ==
    /\ pc[t] = "save_ref"
    /\ acquire_lock_ref(t, frame[t].key)
    /\ Then(t, "save_lock")

\* Bug variant: the file is locked like for a download.
SaveLockShared(t) ==
    /\ pc[t] = "save_lock"
    /\ lock_shared(t, frame[t].key)
    /\ Then(t, "save_open")

SaveLock(t) ==
    /\ pc[t] = "save_lock"
    /\ lock(t, frame[t].key)
    /\ Then(t, "save_open")

\* Bug variant: the file is opened for appending.
SaveOpenAppend(t) ==
    /\ pc[t] = "save_open"
    /\ SetFile(frame[t].key, IF File(frame[t].key) = None THEN <<>> ELSE File(frame[t].key))
    /\ GoTo(t, "save_recv")
    /\ UNCHANGED <<lockVars, unsynced, index_, frame, calls>>

\* Bug variant: when the file cannot be opened the reference goes before the lock.
SaveOpenReleasesFirst(t) ==
    /\ pc[t] = "save_open" /\ "open" \in Faults
    /\ Then(t, "release")
    /\ UNCHANGED lockVars

\* Opening the ofstream truncates the file.
SaveOpen(t) ==
    /\ pc[t] = "save_open"
    /\ UNCHANGED lockVars
    /\ \/ /\ SetFile(frame[t].key, <<>>)
          /\ GoTo(t, "save_recv")
          /\ UNCHANGED <<unsynced, index_, frame, calls>>
       \/ /\ "open" \in Faults
          /\ Then(t, "save_discard")

\* One chunk from the socket to the file.  A failed write sets the stream's
\* failbit, which nobody looks at: this and all later writes do nothing.
SaveChunk(t) ==
    /\ pc[t] = "save_recv" /\ Remaining(t) > 0
    /\ \E good \in {frame[t].good} \cup (IF "write" \in Faults THEN {FALSE} ELSE {}) :
        /\ frame' = [frame EXCEPT ![t].pos = @ + 1, ![t].good = good]
        /\ IF good /\ File(frame[t].key) # None
             THEN SetFile(frame[t].key,
                          Append(File(frame[t].key), frame[t].data[frame[t].pos + 1]))
             ELSE UNCHANGED disk
    /\ UNCHANGED <<lockVars, unsynced, index_, pc, calls>>

\* recv_all failed: the partial file is removed, or fs::remove throws.  The
\* handler's discard_data then finds the connection broken and reads nothing.
SaveNetError(t) ==
    /\ pc[t] = "save_recv" /\ Remaining(t) > 0
    /\ "net" \in Faults
    /\ \/ SetFile(frame[t].key, None) /\ SetSynced(frame[t].key, TRUE)
       \/ /\ "remove" \in Faults
          /\ SetSynced(frame[t].key, FALSE)
          /\ UNCHANGED disk
    /\ GoTo(t, "unwind")
    /\ UNCHANGED <<lockVars, index_, frame, calls>>

SaveIndex(t) ==
    /\ pc[t] = "save_recv" /\ Remaining(t) = 0
    /\ Index(frame[t].key, Len(frame[t].data))
    /\ SetSynced(frame[t].key, frame[t].good)
    /\ frame' = [frame EXCEPT ![t].ok = TRUE]
    /\ GoTo(t, "unlock")
    /\ UNCHANGED <<lockVars, disk, calls>>

-----------------------------------------------------------------------------
(* get_file_size: two calls of the index. *)

get_file_size(t, k) ==
    Call(t, NewFrame("size", k, k, <<>>), IF Indexed(k) THEN "size_get" ELSE "done")

SizeGet(t) ==
    /\ pc[t] = "size_get"
    /\ frame' = [frame EXCEPT ![t].size = Size(frame[t].key), ![t].ok = TRUE]
    /\ GoTo(t, "done")
    /\ UNCHANGED <<lockVars, diskVars, index_, calls>>

\* list_files: one call of the index for all files of the user.
list_files(t, u) ==
    Call(t, [NewFrame("list", None, None, <<>>) EXCEPT
                !.listing = list_directory(u), !.ok = TRUE], "done")

-----------------------------------------------------------------------------
(* stream_file_to_socket *)

StreamEntry(k) == IF k \in ValidKeys THEN "stream_ref" ELSE "done"

stream_file_to_socket(t, k) ==
    Call(t, NewFrame("stream", k, k, <<>>), StreamEntry(k))

StreamRef(t) ==
    /\ pc[t] = "stream_ref"
    /\ acquire_lock_ref(t, frame[t].key)
    /\ Then(t, "stream_lock")

StreamLock(t) ==
    /\ pc[t] = "stream_lock"
    /\ lock_shared(t, frame[t].key)
    /\ Then(t, "stream_open")

StreamOpen(t) ==
    /\ pc[t] = "stream_open"
    /\ UNCHANGED lockVars
    /\ \/ /\ File(frame[t].key) # None
          /\ Then(t, "stream_send")
       \/ /\ File(frame[t].key) = None \/ "open" \in Faults
          /\ Then(t, "unlock")

\* A file that is not there has nothing to read.
AtEnd(t) ==
    LET file == File(frame[t].key)
    IN  file = None \/ Len(frame[t].sent) >= Len(file)

StreamChunk(t) ==
    /\ pc[t] = "stream_send" /\ ~AtEnd(t)
    /\ frame' = [frame EXCEPT ![t].sent =
                    Append(@, File(frame[t].key)[Len(@) + 1])]
    /\ UNCHANGED <<lockVars, diskVars, index_, pc, calls>>

\* Bug variant: the error path returns with the lock held.
StreamErrorKeepsLock(t) ==
    /\ pc[t] = "stream_send" /\ ~AtEnd(t)
    /\ "net" \in Faults
    /\ Then(t, "done")
    /\ UNCHANGED lockVars

StreamNetError(t) ==
    /\ pc[t] = "stream_send" /\ ~AtEnd(t)
    /\ "net" \in Faults
    /\ Then(t, "unlock")
    /\ UNCHANGED lockVars

\* The only way to return true leaves the scope without release_lock_ref.
StreamEnd(t) ==
    /\ pc[t] = "stream_send" /\ AtEnd(t)
    /\ frame' = [frame EXCEPT ![t].ok = TRUE]
    /\ GoTo(t, "unwind")
    /\ UNCHANGED <<lockVars, diskVars, index_, calls>>

-----------------------------------------------------------------------------
(* delete_file *)

delete_file(t, k) ==
    Call(t, NewFrame("delete", k, k, <<>>),
         IF k \in ValidKeys THEN "delete_ref" ELSE "done")

DeleteRef(t) ==
    /\ pc[t] = "delete_ref"
    /\ acquire_lock_ref(t, frame[t].key)
    /\ Then(t, "delete_lock")

DeleteLock(t) ==
    /\ pc[t] = "delete_lock"
    /\ lock(t, frame[t].key)
    /\ Then(t, "delete_remove")

\* Bug variant: the index keeps the entry of a removed file.
DeleteKeepsIndex(t) ==
    /\ pc[t] = "delete_remove"
    /\ SetFile(frame[t].key, None)
    /\ GoTo(t, "unlock")
    /\ UNCHANGED <<lockVars, unsynced, index_, frame, calls>>

DeleteRemove(t) ==
    /\ pc[t] = "delete_remove"
    /\ UNCHANGED lockVars
    /\ \/ /\ File(frame[t].key) # None
          /\ SetFile(frame[t].key, None)
          /\ SetSynced(frame[t].key, TRUE)
          /\ GoTo(t, "delete_index")
          /\ UNCHANGED <<index_, frame, calls>>
       \/ /\ File(frame[t].key) = None
          /\ Then(t, "unlock")
       \/ /\ "remove" \in Faults
          /\ Then(t, "unwind")

DeleteIndex(t) ==
    /\ pc[t] = "delete_index"
    /\ Unindex(frame[t].key)
    /\ frame' = [frame EXCEPT ![t].ok = TRUE]
    /\ GoTo(t, "unlock")
    /\ UNCHANGED <<lockVars, diskVars, calls>>

-----------------------------------------------------------------------------
(* rename_file *)

rename_file(t, k, j) ==
    /\ Owner[k] = Owner[j]
    /\ IF k \in ValidKeys /\ j \in ValidKeys /\ k # j
         THEN Call(t, NewFrame("rename", k, j, <<>>), "rename_ref_old")
         ELSE Call(t, [NewFrame("rename", k, j, <<>>) EXCEPT
                          !.ok = (k = j /\ k \in ValidKeys)], "done")

RenameRefOld(t) ==
    /\ pc[t] = "rename_ref_old"
    /\ acquire_lock_ref(t, frame[t].key)
    /\ Then(t, "rename_ref_new")

RenameRefNew(t) ==
    /\ pc[t] = "rename_ref_new"
    /\ acquire_lock_ref(t, frame[t].to)
    /\ Then(t, "rename_first")

\* std::lock: block on one mutex, try the other; when that fails, unlock and
\* start over with the one that was taken.
Second(t) == IF frame[t].first = frame[t].key THEN frame[t].to ELSE frame[t].key

RenameFirst(t) ==
    /\ pc[t] = "rename_first"
    /\ lock(t, frame[t].first)
    /\ Then(t, "rename_second")

RenameSecond(t) ==
    /\ pc[t] = "rename_second"
    /\ lock(t, Second(t))
    /\ Then(t, "rename_check")

\* Bug variant: wait for the second mutex with the first one held.
RenameHoldOn(t) ==
    /\ pc[t] = "rename_second"
    /\ ~Free(t, Second(t))
    /\ UNCHANGED vars

RenameBackOff(t) ==
    /\ pc[t] = "rename_second"
    /\ ~Free(t, Second(t))
    /\ unlock(t, frame[t].first)
    /\ frame' = [frame EXCEPT ![t].first = Second(t)]
    /\ GoTo(t, "rename_first")
    /\ UNCHANGED <<diskVars, index_, calls>>

RenameCheck(t) ==
    /\ pc[t] = "rename_check"
    /\ Then(t, IF File(frame[t].key) = None \/ File(frame[t].to) # None
                 THEN "unlock" ELSE "rename_move")
    /\ UNCHANGED lockVars

RenameMove(t) ==
    /\ pc[t] = "rename_move"
    /\ UNCHANGED lockVars
    /\ \/ /\ disk' = [disk EXCEPT ![FileOf[frame[t].to]] = File(frame[t].key),
                                  ![FileOf[frame[t].key]] = None]
          /\ SetSynced(frame[t].to, FileOf[frame[t].key] \notin unsynced)
          /\ GoTo(t, "rename_size")
          /\ UNCHANGED <<index_, frame, calls>>
       \/ /\ "rename" \in Faults
          /\ Then(t, "unwind")

RenameSize(t) ==
    /\ pc[t] = "rename_size"
    /\ frame' = [frame EXCEPT ![t].size = Size(frame[t].key)]
    /\ GoTo(t, "rename_remove")
    /\ UNCHANGED <<lockVars, diskVars, index_, calls>>

RenameRemove(t) ==
    /\ pc[t] = "rename_remove"
    /\ Unindex(frame[t].key)
    /\ GoTo(t, "rename_add")
    /\ UNCHANGED <<lockVars, diskVars, frame, calls>>

RenameAdd(t) ==
    /\ pc[t] = "rename_add"
    /\ Index(frame[t].to, frame[t].size)
    /\ frame' = [frame EXCEPT ![t].ok = TRUE]
    /\ GoTo(t, "unlock")
    /\ UNCHANGED <<lockVars, diskVars, calls>>

-----------------------------------------------------------------------------
(* The process. *)

\* main: rebuild_from_disk, before start() accepts the first client.
Init ==
    /\ LockInit
    /\ disk \in [Files -> InitialContents]
    /\ \E S \in Visits(disk) : /\ index_ = Scan(disk, S).index
                               /\ unsynced = Scan(disk, S).missed
    /\ pc = [t \in Threads |-> "idle"]
    /\ frame = [t \in Threads |-> None]
    /\ calls = 0

\* Bug variant: the new process starts with an empty index.
RestartWithoutRebuild ==
    /\ "crash" \in Faults
    /\ LockRestart
    /\ index_' = Empty
    /\ unsynced' = {}
    /\ pc' = [t \in Threads |-> "idle"]
    /\ frame' = [t \in Threads |-> None]
    /\ UNCHANGED <<disk, calls>>

\* The process ends wherever it is and a new one starts: only the disk survives.
Restart ==
    /\ "crash" \in Faults
    /\ LockRestart
    /\ \E S \in Visits(disk) : /\ index_' = Scan(disk, S).index
                               /\ unsynced' = Scan(disk, S).missed
    /\ pc' = [t \in Threads |-> "idle"]
    /\ frame' = [t \in Threads |-> None]
    /\ UNCHANGED <<disk, calls>>

NewCall(t) ==
    \/ \E k \in Keys, d \in Payloads : save_file(t, k, d)
    \/ \E k \in Keys : get_file_size(t, k)
    \/ \E u \in Users : list_files(t, u)
    \/ \E k \in Keys : stream_file_to_socket(t, k)
    \/ \E k \in Keys : delete_file(t, k)
    \/ \E k, j \in Keys : rename_file(t, k, j)

OpStep(t) ==
    \/ DiscardChunk(t) \/ DiscardEnd(t)
    \/ SaveRef(t) \/ SaveLock(t) \/ SaveOpen(t) \/ SaveChunk(t)
    \/ SaveNetError(t) \/ SaveIndex(t)
    \/ SizeGet(t)
    \/ StreamRef(t) \/ StreamLock(t) \/ StreamOpen(t) \/ StreamChunk(t)
    \/ StreamNetError(t) \/ StreamEnd(t)
    \/ DeleteRef(t) \/ DeleteLock(t) \/ DeleteRemove(t) \/ DeleteIndex(t)
    \/ RenameRefOld(t) \/ RenameRefNew(t) \/ RenameFirst(t) \/ RenameSecond(t)
    \/ RenameBackOff(t) \/ RenameCheck(t) \/ RenameMove(t) \/ RenameSize(t)
    \/ RenameRemove(t) \/ RenameAdd(t)
    \/ Unlock(t) \/ Release(t) \/ Unwind(t) \/ Drop(t)

\* All clients have what they asked for.
Quiescent ==
    /\ calls = MaxCalls
    /\ \A t \in Threads : pc[t] = "idle"
    /\ UNCHANGED vars

Next ==
    \/ \E t \in Threads : NewCall(t) \/ OpStep(t) \/ Finish(t)
    \/ Restart
    \/ Quiescent

Spec == Init /\ [][Next]_vars

(***************************************************************************)
(* The scheduler runs every thread that can run, and clients go on sending *)
(* and reading (or disconnect).  std::lock promises that lockers do not    *)
(* deadlock, not that the back-off loop ends: that one of its attempts     *)
(* meets a free second mutex is an assumption of its own.                  *)
(***************************************************************************)
FairSpec ==
    /\ Spec
    /\ \A t \in Threads : /\ WF_vars(OpStep(t) \/ Finish(t))
                          /\ SF_vars(RenameSecond(t))

-----------------------------------------------------------------------------
(* Type invariant: the storage, the index and every thread's frame. *)
Labels ==
    {"idle", "done", "discard", "save_discard", "unlock", "release", "unwind",
     "drop", "save_ref", "save_lock", "save_open", "save_recv", "size_get",
     "stream_ref", "stream_lock", "stream_open", "stream_send",
     "delete_ref", "delete_lock", "delete_remove", "delete_index",
     "rename_ref_old", "rename_ref_new", "rename_first", "rename_second",
     "rename_check", "rename_move", "rename_size", "rename_remove", "rename_add"}

FileOps == {"save", "stream", "delete", "rename"}

FrameOK(fr) ==
    /\ DOMAIN fr = {"op", "key", "to", "data", "pos", "sent", "first", "size",
                    "listing", "good", "ok"}
    /\ \/ fr.op \in FileOps \cup {"size"} /\ {fr.key, fr.to, fr.first} \subseteq Keys
       \/ fr.op \in {"discard", "list"}
    /\ fr.data \in Seq(Chunks) /\ fr.sent \in Seq(Chunks)
    /\ fr.pos \in 0 .. Len(fr.data)
    /\ fr.size \in Nat \cup {None}
    /\ fr.good \in BOOLEAN /\ fr.ok \in BOOLEAN

TypeOK ==
    /\ LockTypeOK
    /\ disk \in [Files -> Seq(Chunks) \cup {None}]
    /\ unsynced \in SUBSET Files
    /\ IndexTypeOK(Keys)
    /\ pc \in [Threads -> Labels]
    /\ DOMAIN frame = Threads
    /\ \A t \in Threads : IF pc[t] = "idle" THEN frame[t] = None ELSE FrameOK(frame[t])
    /\ calls \in 0 .. MaxCalls

\* t refers to the entries of the keys S; it has the mutexes of X
\* exclusively and those of R shared.
Refers(t, S) == \A k \in Keys : lock_entry[t][k] # NoEntry <=> k \in S
HasLocked(t, X, R) ==
    \A k \in Keys : /\ HoldsExclusive(t, k) <=> k \in X
                    /\ HoldsShared(t, k) <=> k \in R

ReadLabels == {"stream_open", "stream_send"}
WriteLabels ==
    {"save_open", "save_recv", "save_discard", "delete_remove", "delete_index",
     "rename_check", "rename_move", "rename_size", "rename_remove", "rename_add"}

LocksAt(t) ==
    /\ pc[t] \in {"idle", "done", "discard", "size_get", "save_ref", "stream_ref",
                  "delete_ref", "rename_ref_old"} => Refers(t, {})
    /\ pc[t] \in {"save_lock", "stream_lock", "delete_lock", "rename_ref_new"} =>
         Refers(t, {frame[t].key}) /\ HasLocked(t, {}, {})
    /\ pc[t] = "rename_first" => Refers(t, OpKeys(t)) /\ HasLocked(t, {}, {})
    /\ pc[t] = "rename_second" =>
         Refers(t, OpKeys(t)) /\ HasLocked(t, {frame[t].first}, {})
    /\ pc[t] \in ReadLabels => Refers(t, OpKeys(t)) /\ HasLocked(t, {}, OpKeys(t))
    /\ pc[t] \in WriteLabels => Refers(t, OpKeys(t)) /\ HasLocked(t, OpKeys(t), {})
    /\ pc[t] \in {"unlock", "unwind"} =>
         Refers(t, OpKeys(t)) /\ \E k \in Keys : Holds(t, k)
    /\ pc[t] \in {"release", "drop"} =>
         /\ \E k \in Keys : lock_entry[t][k] # NoEntry
         /\ \A k \in Keys \ OpKeys(t) : lock_entry[t][k] = NoEntry
         /\ HasLocked(t, {}, {})

\* The operation a label belongs to, and the locals it relies on.
FrameAt(t) ==
    /\ pc[t] \in {"save_ref", "save_lock", "save_open", "save_recv", "save_discard"}
         => frame[t].op = "save"
    /\ pc[t] = "discard" => frame[t].op \in {"save", "discard"}
    /\ pc[t] = "size_get" => frame[t].op = "size"
    /\ pc[t] \in {"stream_ref", "stream_lock", "stream_open", "stream_send"}
         => frame[t].op = "stream"
    /\ pc[t] \in {"delete_ref", "delete_lock", "delete_remove", "delete_index"}
         => frame[t].op = "delete"
    /\ pc[t] \in {"rename_ref_old", "rename_ref_new", "rename_first",
                  "rename_second", "rename_check", "rename_move", "rename_size",
                  "rename_remove", "rename_add"}
         => /\ frame[t].op = "rename" /\ frame[t].key # frame[t].to
            /\ frame[t].first \in OpKeys(t)
    /\ pc[t] \in {"rename_remove", "rename_add"} => frame[t].size \in Nat
    /\ pc[t] \in {"unlock", "unwind", "release", "drop"} => frame[t].op \in FileOps
    /\ pc[t] # "idle" /\ frame[t].op # "rename" => frame[t].key = frame[t].to
    /\ pc[t] # "idle" /\ frame[t].op = "save" => frame[t].data \in Payloads
    /\ pc[t] # "idle" /\ frame[t].op = "size" /\ frame[t].ok => frame[t].size \in Nat
    /\ pc[t] \in {"save_ref", "save_lock", "save_open"} => frame[t].pos = 0
    /\ pc[t] \in {"stream_ref", "stream_lock", "stream_open"} => frame[t].sent = <<>>

(***************************************************************************)
(* The lock discipline of the operations: at every point a thread refers   *)
(* to the entries and holds the mutexes the code says it does, and at the  *)
(* end of every path, failures and exceptions included, it has none.       *)
(***************************************************************************)
LocksFollowControl == \A t \in Threads : FrameAt(t) /\ LocksAt(t)

(***************************************************************************)
(* Nobody reads or writes a file that another thread is writing (README,   *)
(* Reader-Writer Locking).  Reading is between opening the ifstream and    *)
(* closing it, writing from opening the ofstream, fs::remove or fs::exists *)
(* of rename_file to the last update of the index.                         *)
(***************************************************************************)
Reading(t) ==
    IF pc[t] \in {"stream_open", "stream_send"} THEN {FileOf[frame[t].key]} ELSE {}

Writing(t) ==
    IF pc[t] \in {"save_open", "save_recv", "delete_remove", "delete_index",
                  "rename_check", "rename_move", "rename_size",
                  "rename_remove", "rename_add"}
      THEN {FileOf[k] : k \in OpKeys(t)} ELSE {}

ExclusiveAccess ==
    \A s, t \in Threads :
        s # t => Writing(s) \cap (Reading(t) \cup Writing(t)) = {}

(***************************************************************************)
(* A download that reports success sent one complete upload: never a mix   *)
(* of two, never the beginning of one that is still arriving or that broke *)
(* off (save_file truncates in place and removes what broke off).          *)
(***************************************************************************)
NoTornDownload ==
    \A t \in Threads :
        pc[t] = "done" /\ frame[t].op = "stream" /\ frame[t].ok
          => frame[t].sent \in Payloads \cup InitialContents

InUse(k) == \E t \in Threads : HoldsExclusive(t, k)

(***************************************************************************)
(* A file nobody is writing has, in the index, the size it has on disk:    *)
(* the index is updated in the critical section that changes the disk, and *)
(* rebuilt after a crash.  The exceptions are the files whose last upload  *)
(* the disk refused in part, whose remains could not be removed, or that a *)
(* scan missed: one that an exception ended, or any scan where the file is *)
(* deeper than storage/<directory>/<file> (Scanned).  Only an upload makes *)
(* the last ones good, an upload or a complete scan the other ones.        *)
(***************************************************************************)
DiskIndexed ==
    \A k \in Keys :
        ~InUse(k) /\ File(k) # None /\ FileOf[k] \notin unsynced
          => Indexed(k) /\ Size(k) = Len(File(k))

(***************************************************************************)
(* The converse: the index lists only files that exist (README: the        *)
(* filesystem remains the source of truth).                                *)
(***************************************************************************)
IndexOnDisk ==
    \A k \in Keys : ~InUse(k) /\ Indexed(k) => File(k) # None

(***************************************************************************)
(* The operations implement FileStore.  An upload takes effect when the    *)
(* file is truncated: until it is complete its thread holds the file's     *)
(* mutex.  A download takes effect when its last chunk is sent, a deletion *)
(* with fs::remove and a renaming with fs::rename.  get_file_size and      *)
(* list_files look at the index only and are no operations of the store.   *)
(***************************************************************************)
Uploading(t) == pc[t] = "save_recv"

StoreState(t) ==
    CASE Uploading(t) -> "writing"
      [] frame[t].ok \/ pc[t] \in {"delete_index", "rename_size", "rename_remove",
                                   "rename_add"} -> "ok"
      [] ~frame[t].ok /\ pc[t] \in {"unlock", "release", "unwind", "drop", "done",
                                    "discard", "save_discard"} -> "failed"
      [] OTHER -> "called"

StoreOp(t) ==
    [what |-> frame[t].op, file |-> FileOf[frame[t].key], to |-> FileOf[frame[t].to],
     data |-> frame[t].data, state |-> StoreState(t),
     got |-> IF frame[t].op = "stream" /\ frame[t].ok THEN frame[t].sent ELSE None]

IsStoreOp(t) == pc[t] # "idle" /\ frame[t].op \in FileOps

Uploaders(f) == {t \in Threads : Uploading(t) /\ FileOf[frame[t].key] = f}

StoreContents ==
    [f \in Files |-> IF Uploaders(f) = {} THEN disk[f]
                     ELSE frame[CHOOSE t \in Uploaders(f) : TRUE].data]
StoreOps == [t \in Threads |-> IF IsStoreOp(t) THEN StoreOp(t) ELSE None]

\* None is no operation.
ASSUME StoreAssumption ==
    None \notin [what : FileOps, file : Files, to : Files, data : Seq(Chunks),
                 state : {"called", "writing", "ok", "failed"},
                 got : Seq(Chunks) \cup {None}]

Store == INSTANCE FileStore WITH
    Initial <- InitialContents, store <- StoreContents, op <- StoreOps

StoreSpec == Store!Spec

(***************************************************************************)
(* Every operation returns: threads that lock several files, in any order, *)
(* never wait for each other forever.                                      *)
(***************************************************************************)
OpsComplete == \A t \in Threads : pc[t] # "idle" ~> pc[t] = "idle"
=============================================================================
