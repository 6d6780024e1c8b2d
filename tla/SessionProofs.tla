--------------------------- MODULE SessionProofs ---------------------------
(***************************************************************************)
(* Proofs about the sessions (Session.tla), for any number of workers and  *)
(* connections: what a session does to the storage is what FileManager's   *)
(* operations do, so their invariants hold of the server; requests stay    *)
(* aligned, waiting workers hold no locks, and connections are counted.    *)
(***************************************************************************)
EXTENDS Session, FileContentsProofs

\* Where the payload of an upload is still being read from the socket.
PayloadLabels ==
    {"discard", "save_discard", "save_ref", "save_lock", "save_open", "save_recv"}

\* One worker: it is in an operation exactly while handle_client is in a
\* call, and the payload of a request is read before the next one.
WorkerOK(t) ==
    /\ stage[t] = "call" <=> pc[t] # "idle"
    /\ stage[t] \in {"loop", "recv", "call", "reply"} => gone[t] \/ unread[t] = 0
    /\ stage[t] = "call" /\ pc[t] \notin PayloadLabels => gone[t] \/ Remaining(t) = 0

SessionInv ==
    /\ SessionTypeOK
    /\ StorageInv
    /\ \A t \in Threads : WorkerOK(t)
    /\ ActiveExact
    /\ active_connections_ <= sessions

-----------------------------------------------------------------------------
(* What a session does to the storage. *)

(* Refusing an upload begins an operation: the payload is discarded. *)
LEMMA DiscardStarts ==
    ASSUME TypeOK, NEW t \in Threads, NEW d \in Payloads, discard_data(t, d)
    PROVE  Starts(t)
<1> DEFINE fr == NewFrame("discard", None, None, d)
<1>1. Fresh(fr) /\ fr.op = "discard"
  BY NewFrameFresh, StorageAssumption DEF FileOps
<1>2. Call(t, fr, "discard")
  BY DEF discard_data
<1> HIDE DEF fr
<1>3. calls + 1 \in 0 .. MaxCalls
  BY <1>2, StorageAssumption DEF Call, TypeOK
<1>4. StartsWith(t, fr, "discard")
  BY <1>1, <1>2, <1>3 DEF Call, GoTo, StartsWith, Entry
<1> QED
  BY <1>4 DEF Starts

(* Sending the size of a file begins the operation that sends the file. *)
LEMMA SendSizeStarts ==
    ASSUME TypeOK, NEW t \in Threads, SendSize(t)
    PROVE  Starts(t)
<1>1. pc[t] = "done" /\ frame[t].op = "size"
  BY DEF SendSize, Returned
<1>2. frame[t].key \in Keys
  BY <1>1 DEF TypeOK, FrameOK, FileOps
<1> DEFINE fr == NewFrame("stream", frame[t].key, frame[t].key, <<>>)
<1>3. <<>> \in Seq(Chunks)
  OBVIOUS
<1>4. Fresh(fr) /\ fr.op = "stream"
  BY <1>2, <1>3 DEF Fresh, FrameOK, NewFrame, FileOps
<1>5. /\ frame' = [frame EXCEPT ![t] = fr]
      /\ pc' = [pc EXCEPT ![t] = StreamEntry(frame[t].key)]
      /\ UNCHANGED <<lockVars, diskVars, index_, calls>>
  BY DEF SendSize, GoTo
<1> HIDE DEF fr
<1>6. StartsWith(t, fr, StreamEntry(frame[t].key))
  BY <1>1, <1>4, <1>5 DEF StartsWith, Entry, StreamEntry, TypeOK
<1> QED
  BY <1>6 DEF Starts

(* A request is answered at once, or begins an operation. *)
LEMMA RequestShape ==
    ASSUME SessionTypeOK, NEW t \in Threads, Request(t)
    PROVE  /\ stage[t] = "recv" /\ gone' = gone /\ unread' = unread
           /\ \/ UNCHANGED vars /\ stage'[t] \in {"reply", "end", "off"}
              \/ Starts(t) /\ stage'[t] = "call"
<1>t. /\ TypeOK /\ session_user[t] \in Users \cup {None}
      /\ stage \in [Threads -> {"off", "loop", "recv", "call", "reply", "end"}]
  BY DEF SessionTypeOK
<1> DEFINE Goal == /\ stage[t] = "recv" /\ gone' = gone /\ unread' = unread
                   /\ \/ UNCHANGED vars /\ stage'[t] \in {"reply", "end", "off"}
                      \/ Starts(t) /\ stage'[t] = "call"
<1> USE <1>t DEF Enter, Receive
<1>1. ASSUME \E u \in Users \cup {None} : LOGIN(t, u) PROVE Goal
  BY <1>1 DEF LOGIN, Answer
<1>2. ASSUME NEW c \in FileCommands, Refuse(t, c) PROVE Goal
  BY <1>2, DiscardStarts DEF Refuse, Answer
<1>3. ASSUME NEW c, Serve(t, c), NewCall(t) PROVE Goal
  BY <1>3, NewCallStarts DEF Serve
<1>4. ASSUME \E k \in Keys, d \in Payloads : UPLOAD(t, k, d) PROVE Goal
  BY <1>3, <1>4 DEF UPLOAD, NewCall
<1>5. ASSUME \E k \in Keys : DOWNLOAD(t, k) \/ DELETE_F(t, k) PROVE Goal
  BY <1>3, <1>5 DEF DOWNLOAD, DELETE_F, NewCall
<1>6. ASSUME LIST(t) PROVE Goal
  BY <1>3, <1>6 DEF LIST, LoggedIn, NewCall
<1>7. ASSUME \E k, j \in Keys : RENAME(t, k, j) PROVE Goal
  BY <1>3, <1>7 DEF RENAME, NewCall
<1>8. ASSUME QUIT(t) \/ Unknown(t) \/ ReceiveFails(t) \/ ReceiveThrows(t) PROVE Goal
  BY <1>8 DEF QUIT, Unknown, ReceiveFails, ReceiveThrows, Answer
<1> QED
  BY <1>1, <1>2, <1>4, <1>5, <1>6, <1>7, <1>8 DEF Request

(* Every step of a session leaves the storage alone, begins an operation,  *)
(* is a step of one or ends one.                                           *)
LEMMA SessionStorage ==
    ASSUME SessionTypeOK, NEW t \in Threads, Begin(t) \/ Request(t) \/ Progress(t)
    PROVE  UNCHANGED vars \/ Starts(t) \/ OpStep(t) \/ Finish(t)
<1>1. CASE Begin(t) \/ Loop(t) \/ Reply(t) \/ SessionEnd(t)
  BY <1>1 DEF Begin, Loop, Reply, SessionEnd
<1>2. CASE Work(t)
  BY <1>2 DEF Work
<1>3. CASE CollectResult(t) \/ SendSizeFails(t) \/ Streamed(t)
  BY <1>3 DEF CollectResult, SendSizeFails, Streamed, Returned, Collect, Finish, GoTo
<1>4. CASE SendSize(t)
  BY <1>4, SendSizeStarts DEF SessionTypeOK
<1>5. CASE Request(t)
  BY <1>5, RequestShape
<1> QED
  BY <1>1, <1>2, <1>3, <1>4, <1>5 DEF Progress

(* A step that leaves the storage alone keeps its invariant. *)
LEMMA SameStorage ==
    ASSUME StorageInv, UNCHANGED vars
    PROVE  StorageInv'
BY StorageStep

(* Every step of the server keeps the storage invariant. *)
LEMMA SessionKeepsStorage ==
    ASSUME SessionInv, [SessionNext]_allVars
    PROVE  StorageInv'
<1>0. StorageInv /\ SessionTypeOK
  BY DEF SessionInv
<1>1. CASE UNCHANGED vars
  BY <1>0, <1>1, SameStorage
<1>2. ASSUME NEW t \in Threads, Begin(t) \/ Request(t) \/ Progress(t)
      PROVE  StorageInv'
  BY <1>0, <1>1, <1>2, SessionStorage, StorageStarts, StorageOp, StorageFinish
<1>3. CASE Stop \/ AllQuiet \/ UNCHANGED allVars
  BY <1>1, <1>3 DEF Stop, AllQuiet, allVars
<1> QED
  BY <1>2, <1>3 DEF SessionNext

-----------------------------------------------------------------------------
(* The variables of the sessions. *)

(* A step of worker t leaves the other workers' sessions alone. *)
LEMMA OthersSessions ==
    ASSUME SessionInv, NEW t \in Threads, Begin(t) \/ Request(t) \/ Progress(t)
    PROVE  \A s \in Threads \ {t} :
              /\ stage'[s] = stage[s] /\ gone'[s] = gone[s] /\ unread'[s] = unread[s]
              /\ pc'[s] = pc[s] /\ frame'[s] = frame[s]
<1>1. /\ stage \in [Threads -> {"off", "loop", "recv", "call", "reply", "end"}]
      /\ gone \in [Threads -> BOOLEAN] /\ unread \in [Threads -> Nat]
  BY DEF SessionInv, SessionTypeOK
<1>2. \A s \in Threads \ {t} : stage'[s] = stage[s]
  BY <1>1 DEF Begin, Request, Progress, Enter, Loop, Work, CollectResult, SendSize,
     SendSizeFails, Streamed, Reply, SessionEnd, LOGIN, Refuse, UPLOAD, DOWNLOAD, LIST,
     DELETE_F, RENAME, QUIT, Unknown, ReceiveFails, ReceiveThrows, Answer, Serve
<1>3. \A s \in Threads \ {t} : gone'[s] = gone[s] /\ unread'[s] = unread[s]
  BY <1>1 DEF Begin, Request, Progress, Receive, Loop, Work, CollectResult, SendSize,
     SendSizeFails, Streamed, Reply, SessionEnd, LOGIN, Refuse, UPLOAD, DOWNLOAD, LIST,
     DELETE_F, RENAME, QUIT, Unknown, ReceiveFails, ReceiveThrows, Serve
<1>4. \A s \in Threads \ {t} : pc'[s] = pc[s] /\ frame'[s] = frame[s]
  <2>0. pc \in [Threads -> Labels] /\ DOMAIN frame = Threads
    BY DEF SessionInv, StorageInv, TypeOK
  <2>1. CASE UNCHANGED vars
    BY <2>1 DEF vars, storeVars
  <2>2. CASE Starts(t)
    BY <2>0, <2>2 DEF Starts, StartsWith
  <2>3. CASE OpStep(t)
    BY <2>3, OpOthers DEF SessionInv
  <2>4. CASE Finish(t)
    BY <2>0, <2>4, SMTT(30) DEF Finish, GoTo
  <2> QED
    BY <2>1, <2>2, <2>3, <2>4, SessionStorage DEF SessionInv
<1> QED
  BY <1>2, <1>3, <1>4

(* A step of an operation leaves the labels at which a payload is read     *)
(* only with the payload taken off the socket, or on a broken connection.  *)
LEMMA OpPayload ==
    ASSUME StorageInv, NEW t \in Threads, OpStep(t),
           pc[t] \in PayloadLabels \/ Remaining(t) = 0
    PROVE  pc'[t] \in PayloadLabels \/ RecvFailed(t) \/ Remaining(t)' = 0
<1>1. pc \in [Threads -> Labels] /\ DOMAIN frame = Threads
  BY DEF StorageInv, TypeOK
<1>2. pc[t] # "idle" => FrameOK(frame[t])
  BY InOperation DEF StorageInv
<1> USE <1>1, <1>2 DEF GoTo, Then, PayloadLabels, Remaining, RecvFailed, FrameOK
<1> DEFINE Goal == pc'[t] \in PayloadLabels \/ RecvFailed(t) \/ Remaining(t)' = 0
<1>3. ASSUME DiscardChunk(t) \/ DiscardEnd(t) PROVE Goal
  BY <1>3 DEF DiscardChunk, DiscardEnd
<1>4. ASSUME SaveRef(t) \/ SaveLock(t) \/ SaveOpen(t) PROVE Goal
  BY <1>4 DEF SaveRef, SaveLock, SaveOpen
<1>5. ASSUME SaveChunk(t) \/ SaveNetError(t) \/ SaveIndex(t) PROVE Goal
  BY <1>5, ZenonT(60) DEF SaveChunk, SaveNetError, SaveIndex
<1>6. ASSUME SizeGet(t) PROVE Goal
  BY <1>6 DEF SizeGet
<1>7. ASSUME StreamRef(t) \/ StreamLock(t) \/ StreamOpen(t) \/ StreamNetError(t) PROVE Goal
  BY <1>7 DEF StreamRef, StreamLock, StreamOpen, StreamNetError
<1>8. ASSUME StreamChunk(t) \/ StreamEnd(t) PROVE Goal
  BY <1>8, ZenonT(60) DEF StreamChunk, StreamEnd
<1>9. ASSUME DeleteRef(t) \/ DeleteLock(t) \/ DeleteRemove(t) \/ DeleteIndex(t) PROVE Goal
  BY <1>9, ZenonT(60) DEF DeleteRef, DeleteLock, DeleteRemove, DeleteIndex
<1>10. ASSUME RenameRefOld(t) \/ RenameRefNew(t) \/ RenameFirst(t) \/ RenameSecond(t)
                \/ RenameBackOff(t) \/ RenameCheck(t) PROVE Goal
  BY <1>10 DEF RenameRefOld, RenameRefNew, RenameFirst, RenameSecond, RenameBackOff,
     RenameCheck
<1>11. ASSUME RenameMove(t) \/ RenameSize(t) \/ RenameRemove(t) \/ RenameAdd(t) PROVE Goal
  BY <1>11, SMTT(30) DEF RenameMove, RenameSize, RenameRemove, RenameAdd
<1>12. ASSUME Unlock(t) \/ Release(t) \/ Unwind(t) \/ Drop(t) PROVE Goal
  BY <1>12 DEF Unlock, Release, Unwind, Drop
<1> QED
  BY <1>3, <1>4, <1>5, <1>6, <1>7, <1>8, <1>9, <1>10, <1>11, <1>12 DEF OpStep

(* An operation begins by reading its payload, or has none. *)
LEMMA StartsPayload ==
    ASSUME TypeOK, NEW t \in Threads, Starts(t)
    PROVE  pc'[t] # "idle" /\ (pc'[t] \in PayloadLabels \/ Remaining(t)' = 0)
<1>1. PICK fr, label : StartsWith(t, fr, label)
  BY DEF Starts
<1>2. pc'[t] = label /\ frame'[t] = fr /\ Entry(fr, label) /\ Fresh(fr)
  BY <1>1 DEF StartsWith, TypeOK
<1>3. fr.op \notin {"save", "discard"} => fr.data = <<>> /\ fr.pos = 0
  BY <1>2 DEF Fresh
<1>4. label # "idle" /\ (label \in PayloadLabels \/ fr.op \notin {"save", "discard"})
  BY <1>2 DEF Entry, PayloadLabels
<1> QED
  BY <1>2, <1>3, <1>4 DEF Remaining

(* What a worker's own step does to it. *)
LEMMA WorkerStep ==
    ASSUME SessionInv, NEW t \in Threads, Begin(t) \/ Request(t) \/ Progress(t)
    PROVE  WorkerOK(t)'
<1>t. /\ stage \in [Threads -> {"off", "loop", "recv", "call", "reply", "end"}]
      /\ gone \in [Threads -> BOOLEAN] /\ unread \in [Threads -> Nat]
      /\ pc \in [Threads -> Labels] /\ DOMAIN frame = Threads /\ TypeOK
      /\ SessionTypeOK /\ StorageInv
  BY DEF SessionInv, SessionTypeOK, StorageInv, TypeOK
<1>w. WorkerOK(t)
  BY DEF SessionInv
<1>1. CASE Begin(t)
  BY <1>1, <1>t, <1>w DEF Begin, Enter, WorkerOK, vars, storeVars
<1>2. CASE Loop(t) \/ Reply(t) \/ SessionEnd(t)
  BY <1>2, <1>t, <1>w DEF Loop, Reply, SessionEnd, Enter, WorkerOK, vars, storeVars
<1>3. CASE Work(t)
  <2>1. /\ stage[t] = "call" /\ stage' = stage /\ unread' = unread
        /\ gone'[t] <=> gone[t] \/ RecvFailed(t)
    BY <1>3, <1>t DEF Work
  <2>2. pc[t] # "idle" /\ pc'[t] # "idle"
    BY <1>3, <1>t, KeepsRequest DEF Work
  <2>3. gone[t] \/ pc'[t] \in PayloadLabels \/ RecvFailed(t) \/ Remaining(t)' = 0
    BY <1>3, <1>t, <1>w, <2>1, OpPayload DEF Work, WorkerOK
  <2> QED
    BY <1>w, <2>1, <2>2, <2>3 DEF WorkerOK
<1>4. CASE CollectResult(t)
  <2>1. /\ stage[t] = "call" /\ pc[t] = "done" /\ gone' = gone
        /\ stage'[t] = "reply" /\ pc'[t] = "idle" /\ unread'[t] = Remaining(t)
    BY <1>4, <1>t DEF CollectResult, Returned, Collect, Enter
  <2> QED
    BY <1>w, <2>1 DEF WorkerOK, PayloadLabels
<1>5. CASE SendSizeFails(t) \/ Streamed(t)
  <2>1. /\ stage[t] = "call" /\ gone' = gone /\ unread' = unread
        /\ stage'[t] \in {"end", "loop"} /\ pc'[t] = "idle"
    BY <1>5, <1>t DEF SendSizeFails, Streamed, Returned, Collect, Enter
  <2> QED
    BY <1>w, <2>1 DEF WorkerOK
<1>6. CASE SendSize(t)
  <2>1. stage[t] = "call" /\ gone' = gone /\ unread' = unread /\ stage' = stage
    BY <1>6 DEF SendSize, Returned
  <2>2. pc'[t] # "idle" /\ (pc'[t] \in PayloadLabels \/ Remaining(t)' = 0)
    BY <1>6, <1>t, SendSizeStarts, StartsPayload
  <2> QED
    BY <1>w, <2>1, <2>2 DEF WorkerOK
<1>7. CASE Request(t)
  <2>1. /\ stage[t] = "recv" /\ gone' = gone /\ unread' = unread
        /\ \/ UNCHANGED vars /\ stage'[t] \in {"reply", "end", "off"}
           \/ Starts(t) /\ stage'[t] = "call"
    BY <1>7, <1>t, RequestShape
  <2>2. CASE Starts(t) /\ stage'[t] = "call"
    BY <1>t, <1>w, <2>1, <2>2, StartsPayload DEF WorkerOK
  <2>3. CASE UNCHANGED vars /\ stage'[t] \in {"reply", "end", "off"}
    BY <1>w, <2>1, <2>3 DEF WorkerOK, vars, storeVars
  <2> QED
    BY <2>1, <2>2, <2>3
<1> QED
  BY <1>1, <1>2, <1>3, <1>4, <1>5, <1>6, <1>7 DEF Progress

(* Every step of the server keeps every worker in order. *)
LEMMA WorkersStep ==
    ASSUME SessionInv, [SessionNext]_allVars
    PROVE  \A s \in Threads : WorkerOK(s)'
<1>1. ASSUME NEW t \in Threads, Begin(t) \/ Request(t) \/ Progress(t), NEW s \in Threads
      PROVE  WorkerOK(s)'
  <2>1. CASE s = t
    BY <1>1, <2>1, WorkerStep
  <2>2. CASE s # t
    BY <1>1, <2>2, OthersSessions DEF SessionInv, WorkerOK, Remaining
  <2> QED
    BY <2>1, <2>2
<1>2. CASE Stop \/ AllQuiet \/ UNCHANGED allVars
  BY <1>2 DEF Stop, AllQuiet, allVars, sessionVars, vars, storeVars, SessionInv, WorkerOK,
     Remaining
<1> QED
  BY <1>1, <1>2 DEF SessionNext

-----------------------------------------------------------------------------
(* The connections. *)

InSessions == {t \in Threads : InSession(t)}

(* The connections being served are finitely many, before and after a      *)
(* step.                                                                   *)
LEMMA InSessionsFinite ==
    /\ IsFiniteSet(InSessions) /\ Cardinality(InSessions) \in Nat
    /\ IsFiniteSet(InSessions)' /\ (Cardinality(InSessions) \in Nat)'
<1>1. InSessions \in SUBSET Threads /\ InSessions' \in SUBSET Threads
  BY DEF InSessions
<1> QED
  BY <1>1, LockAssumption, FS_Subset, FS_CardinalityType

\* A step that keeps the sets of served and of abandoned connections.
SameSessions == InSessions' = InSessions /\ UNCHANGED connVars

(* Every step of a worker but the first and the last of a session keeps    *)
(* the connection.                                                         *)
LEMMA KeepsSessions ==
    ASSUME SessionInv, NEW t \in Threads, Begin(t) \/ Request(t) \/ Progress(t)
    PROVE  \/ /\ stage[t] = "off" /\ stage'[t] # "off" /\ sessions < MaxSessions
              /\ sessions' = sessions + 1 /\ abandoned' = abandoned
              /\ active_connections_' = active_connections_ + 1
              /\ running_' = running_
           \/ /\ stage[t] # "off" /\ stage'[t] = "off"
              /\ sessions' = sessions /\ running_' = running_
              /\ \/ active_connections_' = active_connections_ - 1 /\ abandoned' = abandoned
                 \/ UNCHANGED active_connections_ /\ abandoned' = abandoned + 1
           \/ SameSessions
<1>t. stage \in [Threads -> {"off", "loop", "recv", "call", "reply", "end"}]
  BY DEF SessionInv, SessionTypeOK
<1>o. \A s \in Threads \ {t} : stage'[s] = stage[s]
  BY OthersSessions
<1>1. CASE Begin(t)
  BY <1>1, <1>t DEF Begin, Enter
<1>2. CASE SessionEnd(t) \/ ReceiveThrows(t)
  BY <1>2, <1>t DEF SessionEnd, ReceiveThrows, Enter
<1>3. ASSUME stage[t] # "off", stage'[t] # "off", UNCHANGED connVars PROVE SameSessions
  BY <1>o, <1>3 DEF SameSessions, InSessions, InSession
<1>4. CASE Loop(t) \/ Work(t) \/ CollectResult(t) \/ SendSize(t) \/ SendSizeFails(t)
             \/ Streamed(t) \/ Reply(t)
  BY <1>3, <1>4, <1>t DEF Loop, Work, CollectResult, SendSize, SendSizeFails, Streamed,
     Reply, Returned, Enter
<1>5. CASE Request(t) /\ ~ReceiveThrows(t)
  BY <1>3, <1>5, <1>t DEF Request, Receive, LOGIN, Refuse, UPLOAD, DOWNLOAD, LIST,
     DELETE_F, RENAME, QUIT, Unknown, ReceiveFails, Answer, Serve, Enter
<1> QED
  BY <1>1, <1>2, <1>4, <1>5 DEF Progress

(* The count is exact, and bounded by the connections accepted so far. *)
LEMMA CountStep ==
    ASSUME SessionInv, NEW t \in Threads, Begin(t) \/ Request(t) \/ Progress(t)
    PROVE  /\ ActiveExact' /\ active_connections_' <= sessions'
           /\ active_connections_' \in 0 .. MaxSessions
           /\ sessions' \in 0 .. MaxSessions /\ abandoned' \in 0 .. MaxSessions
           /\ running_' \in BOOLEAN
<1>1. /\ active_connections_ = Cardinality(InSessions) + abandoned
      /\ active_connections_ <= sessions
      /\ sessions \in 0 .. MaxSessions /\ abandoned \in 0 .. MaxSessions
      /\ active_connections_ \in 0 .. MaxSessions /\ running_ \in BOOLEAN
      /\ MaxSessions \in Nat
  BY SessionAssumption DEF SessionInv, SessionTypeOK, ActiveExact, InSessions
<1>2. IsFiniteSet(InSessions) /\ Cardinality(InSessions) \in Nat
  BY InSessionsFinite
<1>o. \A s \in Threads \ {t} : stage'[s] = stage[s]
  BY OthersSessions
<1> SUFFICES /\ active_connections_' = Cardinality(InSessions') + abandoned'
             /\ active_connections_' <= sessions'
             /\ active_connections_' \in 0 .. MaxSessions
             /\ sessions' \in 0 .. MaxSessions /\ abandoned' \in 0 .. MaxSessions
             /\ running_' \in BOOLEAN
  BY DEF ActiveExact, InSessions
<1>3. CASE /\ stage[t] = "off" /\ stage'[t] # "off" /\ sessions < MaxSessions
           /\ sessions' = sessions + 1 /\ abandoned' = abandoned
           /\ active_connections_' = active_connections_ + 1
           /\ running_' = running_
  <2>1. InSessions' = InSessions \cup {t} /\ t \notin InSessions
    BY <1>3, <1>o DEF InSessions, InSession
  <2>2. Cardinality(InSessions') = Cardinality(InSessions) + 1
    BY <1>2, <2>1, FS_AddElement
  <2> QED
    BY <1>1, <1>2, <1>3, <2>2
<1>4. CASE /\ stage[t] # "off" /\ stage'[t] = "off"
           /\ sessions' = sessions /\ running_' = running_
           /\ \/ active_connections_' = active_connections_ - 1 /\ abandoned' = abandoned
              \/ UNCHANGED active_connections_ /\ abandoned' = abandoned + 1
  <2>1. InSessions' = InSessions \ {t} /\ t \in InSessions
    BY <1>4, <1>o DEF InSessions, InSession
  <2>2. Cardinality(InSessions') = Cardinality(InSessions) - 1
    BY <1>2, <2>1, FS_RemoveElement
  <2>3. Cardinality(InSessions') \in Nat
    BY InSessionsFinite
  <2> QED
    BY <1>1, <1>2, <1>4, <2>2, <2>3
<1>5. CASE SameSessions
  BY <1>1, <1>2, <1>5 DEF SameSessions, connVars
<1> QED
  BY <1>3, <1>4, <1>5, KeepsSessions

(* The variables of the sessions keep their types. *)
LEMMA SessionTypeStep ==
    ASSUME SessionInv, NEW t \in Threads, Begin(t) \/ Request(t) \/ Progress(t)
    PROVE  /\ stage' \in [Threads -> {"off", "loop", "recv", "call", "reply", "end"}]
           /\ session_user' \in [Threads -> Users \cup {None}]
           /\ cmd' \in [Threads -> FileCommands \cup {None, "LOGIN", "QUIT", "UNKNOWN"}]
           /\ status' \in [Threads -> {None, "OK", "CREATED", "BAD_REQUEST", "NOT_FOUND",
                                       "INTERNAL_ERROR"}]
           /\ unread' \in [Threads -> Nat]
           /\ owed' \in [Threads -> Int]
           /\ gone' \in [Threads -> BOOLEAN]
<1> DEFINE Goal ==
           /\ stage' \in [Threads -> {"off", "loop", "recv", "call", "reply", "end"}]
           /\ session_user' \in [Threads -> Users \cup {None}]
           /\ cmd' \in [Threads -> FileCommands \cup {None, "LOGIN", "QUIT", "UNKNOWN"}]
           /\ status' \in [Threads -> {None, "OK", "CREATED", "BAD_REQUEST", "NOT_FOUND",
                                       "INTERNAL_ERROR"}]
           /\ unread' \in [Threads -> Nat]
           /\ owed' \in [Threads -> Int]
           /\ gone' \in [Threads -> BOOLEAN]
<1>t. /\ stage \in [Threads -> {"off", "loop", "recv", "call", "reply", "end"}]
      /\ session_user \in [Threads -> Users \cup {None}]
      /\ cmd \in [Threads -> FileCommands \cup {None, "LOGIN", "QUIT", "UNKNOWN"}]
      /\ status \in [Threads -> {None, "OK", "CREATED", "BAD_REQUEST", "NOT_FOUND",
                                 "INTERNAL_ERROR"}]
      /\ unread \in [Threads -> Nat]
      /\ owed \in [Threads -> Int]
      /\ gone \in [Threads -> BOOLEAN]
  BY DEF SessionInv, SessionTypeOK
<1>f. pc[t] # "idle" => FrameOK(frame[t]) /\ FrameAt(t)
  BY InOperation DEF SessionInv, StorageInv
<1> USE <1>t DEF Enter, Status, Receive
<1>0. ASSUME Begin(t) PROVE Goal
  <2>1. stage' = [stage EXCEPT ![t] = "loop"] /\ status' = [status EXCEPT ![t] = None]
    BY <1>0 DEF Begin
  <2>2. session_user' = [session_user EXCEPT ![t] = None] /\ cmd' = [cmd EXCEPT ![t] = None]
    BY <1>0 DEF Begin
  <2>3. unread' = [unread EXCEPT ![t] = 0] /\ owed' = [owed EXCEPT ![t] = 0]
    BY <1>0 DEF Begin
  <2>4. gone' = [gone EXCEPT ![t] = FALSE]
    BY <1>0 DEF Begin
  <2> QED
    BY <2>1, <2>2, <2>3, <2>4
<1>1. ASSUME Loop(t) \/ Reply(t) \/ SessionEnd(t) PROVE Goal
  BY <1>1 DEF Loop, Reply, SessionEnd
<1>2. ASSUME Work(t) PROVE Goal
  <2>1. PICK b \in BOOLEAN : gone' = [gone EXCEPT ![t] = b]
    BY <1>2 DEF Work
  <2> QED
    BY <1>2, <2>1 DEF Work
<1>3. ASSUME CollectResult(t) PROVE Goal
  <2>1. pc[t] = "done"
    BY <1>3 DEF CollectResult, Returned
  <2>2. Remaining(t) \in Nat
    BY <1>f, <2>1 DEF Remaining, FrameOK
  <2>3. ResultStatus(t) \in {None, "OK", "CREATED", "BAD_REQUEST", "NOT_FOUND",
                             "INTERNAL_ERROR"}
    BY DEF ResultStatus
  <2> QED
    BY <1>3, <2>2, <2>3 DEF CollectResult
<1>4. ASSUME SendSize(t) PROVE Goal
  <2>1. frame[t].size \in Nat
    BY <1>4, <1>f DEF SendSize, Returned, FrameAt
  <2> QED
    BY <1>4, <2>1 DEF SendSize
<1>5. ASSUME SendSizeFails(t) PROVE Goal
  BY <1>5 DEF SendSizeFails
<1>6. ASSUME Streamed(t) PROVE Goal
  <2>1. Len(frame[t].sent) \in Nat
    BY <1>6, <1>f DEF Streamed, Returned, FrameOK
  <2> QED
    BY <1>6, <2>1 DEF Streamed
<1>7. ASSUME Request(t) PROVE Goal
  <2>1. ASSUME NEW u \in Users \cup {None}, LOGIN(t, u) PROVE Goal
    BY <2>1 DEF LOGIN, Answer
  <2>2. ASSUME NEW c \in FileCommands, Refuse(t, c) PROVE Goal
    BY <2>2 DEF Refuse, Answer
  <2>3. ASSUME NEW c \in FileCommands, Serve(t, c) PROVE Goal
    BY <2>3 DEF Serve
  <2>4. ASSUME \/ \E k \in Keys, d \in Payloads : UPLOAD(t, k, d)
               \/ \E k \in Keys : DOWNLOAD(t, k)
               \/ LIST(t)
               \/ \E k \in Keys : DELETE_F(t, k)
               \/ \E k, j \in Keys : RENAME(t, k, j)
        PROVE Goal
    BY <2>3, <2>4 DEF UPLOAD, DOWNLOAD, LIST, DELETE_F, RENAME, FileCommands
  <2>5. ASSUME QUIT(t) \/ Unknown(t) \/ ReceiveFails(t) \/ ReceiveThrows(t) PROVE Goal
    BY <2>5 DEF QUIT, Unknown, ReceiveFails, ReceiveThrows, Answer
  <2> QED
    BY <1>7, <2>1, <2>2, <2>4, <2>5 DEF Request
<1> QED
  BY <1>0, <1>1, <1>2, <1>3, <1>4, <1>5, <1>6, <1>7 DEF Progress

(* Every step of the server keeps the invariant of the sessions. *)
LEMMA SessionStep ==
    ASSUME SessionInv, [SessionNext]_allVars
    PROVE  SessionInv'
<1>1. StorageInv' /\ \A t \in Threads : WorkerOK(t)'
  BY SessionKeepsStorage, WorkersStep
<1>2. ASSUME NEW t \in Threads, Begin(t) \/ Request(t) \/ Progress(t)
      PROVE  SessionInv'
  <2>1. TypeOK'
    BY <1>1 DEF StorageInv
  <2>2. SessionTypeOK'
    BY <1>2, <2>1, CountStep, SessionTypeStep DEF SessionTypeOK
  <2> QED
    BY <1>1, <1>2, <2>2, CountStep DEF SessionInv
<1>3. CASE Stop \/ AllQuiet \/ UNCHANGED allVars
  <2>1. /\ UNCHANGED <<active_connections_, abandoned, sessions, stage, session_user,
                       cmd, status, unread, owed, gone>>
        /\ running_' = running_ \/ running_' = FALSE
    BY <1>3 DEF Stop, AllQuiet, allVars, sessionVars, connVars
  <2>2. TypeOK' /\ running_' \in BOOLEAN
    BY <1>1, <2>1 DEF StorageInv, SessionInv, SessionTypeOK
  <2>3. SessionTypeOK'
    BY <2>1, <2>2 DEF SessionInv, SessionTypeOK
  <2>4. InSessions' = InSessions
    BY <2>1 DEF InSessions, InSession
  <2>5. ActiveExact'
    BY <2>1, <2>4 DEF SessionInv, ActiveExact, InSessions
  <2> QED
    BY <1>1, <2>1, <2>3, <2>5 DEF SessionInv
<1> QED
  BY <1>2, <1>3 DEF SessionNext

(* The server starts in the invariant. *)
LEMMA SessionStart == SessionInit => SessionInv
<1> SUFFICES ASSUME SessionInit PROVE SessionInv
  OBVIOUS
<1>1. Init /\ StorageInv /\ TypeOK
  BY StorageInit DEF SessionInit, StorageInv
<1>2. SessionTypeOK
  BY <1>1, SessionAssumption DEF SessionInit, SessionTypeOK
<1>3. \A t \in Threads : WorkerOK(t)
  BY <1>1 DEF SessionInit, WorkerOK, Init
<1>4. InSessions = {}
  BY DEF SessionInit, InSessions, InSession
<1>5. ActiveExact
  BY <1>4, FS_EmptySet DEF SessionInit, ActiveExact, InSessions
<1> QED
  BY <1>1, <1>2, <1>3, <1>5 DEF SessionInv, SessionInit

(* The inductive invariant of the server's sessions. *)
THEOREM SessionInvariant == SessionSpec => []SessionInv
<1>1. SessionInv /\ [SessionNext]_allVars => SessionInv'
  BY SessionStep
<1> QED
  BY <1>1, SessionStart, PTL DEF SessionSpec

(* Type correctness of the sessions, and of the storage under them. *)
THEOREM SessionTypeCorrect == SessionSpec => []SessionTypeOK
<1>1. SessionInv => SessionTypeOK
  BY DEF SessionInv
<1> QED
  BY <1>1, SessionInvariant, PTL

(* handle_client reads the next header at a message boundary: every path   *)
(* through a request, refused and failed uploads included, takes the whole *)
(* payload off the connection or finds it gone.                            *)
THEOREM HeadersAtBoundaries == SessionSpec => []RequestsAligned
<1>1. SessionInv => RequestsAligned
  BY DEF SessionInv, WorkerOK, RequestsAligned
<1> QED
  BY <1>1, SessionInvariant, PTL

(* A worker that waits for its client, or for a client, holds no file's    *)
(* mutex and no reference to a lock entry.                                 *)
THEOREM WaitingHoldsNothing == SessionSpec => []WaitsWithoutLocks
<1>1. ASSUME SessionInv, NEW t \in Threads, NEW k \in Keys, stage[t] \in {"off", "recv"}
      PROVE  lock_entry[t][k] = NoEntry /\ ~Holds(t, k)
  <2>1. pc[t] = "idle"
    BY <1>1 DEF SessionInv, WorkerOK, SessionTypeOK
  <2>2. lock_entry[t][k] = NoEntry
    BY <1>1, <2>1 DEF SessionInv, StorageInv, LocksFollowControl, LocksAt, Refers
  <2> QED
    BY <2>2 DEF Holds, HoldsExclusive, HoldsShared
<1>2. SessionInv => WaitsWithoutLocks
  BY <1>1 DEF WaitsWithoutLocks
<1> QED
  BY <1>2, SessionInvariant, PTL

(* active_connections_ is the number of connections being served, plus the *)
(* ones an exception left behind.                                          *)
THEOREM ConnectionsCounted == SessionSpec => []ActiveExact
<1>1. SessionInv => ActiveExact
  BY DEF SessionInv
<1> QED
  BY <1>1, SessionInvariant, PTL

-----------------------------------------------------------------------------
(* The files, through the sessions. *)

(* Whatever the sessions do, the index stays in line with the disk. *)
LEMMA SessionDisk ==
    ASSUME OneKeyPerFile, SessionInv, NoWrap, DiskInv, [SessionNext]_allVars
    PROVE  DiskInv'
<1>0. StorageInv /\ SessionTypeOK
  BY DEF SessionInv
<1>1. CASE UNCHANGED vars
  BY <1>0, <1>1, DiskStep
<1>2. ASSUME NEW t \in Threads, Begin(t) \/ Request(t) \/ Progress(t)
      PROVE  DiskInv'
  BY <1>0, <1>1, <1>2, SessionStorage, DiskOp, DiskCall
<1>3. CASE Stop \/ AllQuiet \/ UNCHANGED allVars
  BY <1>1, <1>3 DEF Stop, AllQuiet, allVars
<1> QED
  BY <1>2, <1>3 DEF SessionNext

(* Whatever the sessions do, uploads arrive and downloads leave chunk by   *)
(* chunk.                                                                  *)
LEMMA SessionTransfer ==
    ASSUME OneKeyPerFile, SessionInv, NoWrap, DiskInv, TransferInv, [SessionNext]_allVars
    PROVE  TransferInv'
<1>0. StorageInv /\ SessionTypeOK
  BY DEF SessionInv
<1>1. CASE UNCHANGED vars
  BY <1>0, <1>1, TransferKept
<1>2. ASSUME NEW t \in Threads, Begin(t) \/ Request(t) \/ Progress(t)
      PROVE  TransferInv'
  BY <1>0, <1>1, <1>2, SessionStorage, TransferOp, TransferCall
<1>3. CASE Stop \/ AllQuiet \/ UNCHANGED allVars
  BY <1>1, <1>3 DEF Stop, AllQuiet, allVars
<1> QED
  BY <1>2, <1>3 DEF SessionNext

(* Whatever the sessions do, files are whole when nobody is uploading them. *)
LEMMA SessionWhole ==
    ASSUME OneKeyPerFile, UploadsEndWhole, SessionInv, NoWrap, DiskInv, TransferInv,
           WholeInv, [SessionNext]_allVars
    PROVE  WholeInv'
<1>0. StorageInv /\ SessionTypeOK
  BY DEF SessionInv
<1>1. CASE UNCHANGED vars
  BY <1>0, <1>1, WholeKept
<1>2. ASSUME NEW t \in Threads, Begin(t) \/ Request(t) \/ Progress(t)
      PROVE  WholeInv'
  BY <1>0, <1>1, <1>2, SessionStorage, WholeOp, WholeCall
<1>3. CASE Stop \/ AllQuiet \/ UNCHANGED allVars
  BY <1>1, <1>3 DEF Stop, AllQuiet, allVars
<1> QED
  BY <1>2, <1>3 DEF SessionNext

(* Whatever the clients of the server ask for, a file nobody is writing    *)
(* has the size on disk that the index has for it, the one DOWNLOAD        *)
(* announces, with the exceptions of IndexFollowsDisk: refused writes,     *)
(* remains, and files the scan at startup did not index.                   *)
THEOREM ServerIndexFollowsDisk ==
    ASSUME OneKeyPerFile
    PROVE  SessionSpec /\ []NoWrap => []DiskIndexed
<1>1. SessionInit => DiskInv
  BY InitStarts, DiskStart DEF SessionInit
<1>2. SessionInv /\ NoWrap /\ DiskInv /\ [SessionNext]_allVars => DiskInv'
  BY SessionDisk
<1>3. SessionInv /\ DiskInv => DiskIndexed
  BY UnsettledInUse DEF SessionInv, DiskIndexed, Settled, Synced
<1> QED
  BY <1>1, <1>2, <1>3, SessionInvariant, PTL DEF SessionSpec

(* Whatever the clients ask for, a DOWNLOAD that the server completes sent *)
(* one complete upload.                                                    *)
THEOREM ServerDownloadsWhole ==
    ASSUME OneKeyPerFile, UploadsEndWhole
    PROVE  SessionSpec /\ []NoWrap => []NoTornDownload
<1>1. SessionInit => DiskInv /\ TransferInv /\ WholeInv
  BY InitStarts, DiskStart, TransferStart, WholeStart DEF SessionInit
<1>2. SessionInv /\ NoWrap /\ DiskInv /\ [SessionNext]_allVars => DiskInv'
  BY SessionDisk
<1>3. /\ SessionInv /\ NoWrap /\ DiskInv /\ TransferInv /\ [SessionNext]_allVars
      => TransferInv'
  BY SessionTransfer
<1>4. /\ SessionInv /\ NoWrap /\ DiskInv /\ TransferInv /\ WholeInv
      /\ [SessionNext]_allVars
      => WholeInv'
  BY SessionWhole
<1>5. WholeInv => NoTornDownload
  BY DEF WholeInv, SentWhole, NoTornDownload, Whole
<1> QED
  BY <1>1, <1>2, <1>3, <1>4, <1>5, SessionInvariant, PTL DEF SessionSpec

-----------------------------------------------------------------------------
(***************************************************************************)
(* What a DOWNLOAD announces.  The size comes from the index before the    *)
(* file is locked, so DownloadFramed fails when another session changes    *)
(* the file in between, and when the index did not have the file's size to *)
(* begin with.  There is no third way: if nobody changes a file from the   *)
(* look-up of its size to the end of its download, and the code has kept   *)
(* the index entry of every file that is downloaded in line with the file, *)
(* every header has the exact length of what follows.                      *)
(***************************************************************************)
Downloads(t) == stage[t] = "call" /\ frame[t].op \in {"size", "stream"}
Changes(t) == stage[t] = "call" /\ frame[t].op \in {"save", "delete", "rename"}

Undisturbed ==
    \A s, t \in Threads : Downloads(t) /\ Changes(s) => frame[t].key \notin OpKeys(s)

\* No download is of a file whose index entry the code has lost track of: a
\* write failed unnoticed, remains were not removed, or the scan at startup
\* did not visit the file.
DownloadsSynced ==
    \A t \in Threads : Downloads(t) => FileOf[frame[t].key] \notin unsynced

\* The file is being sent.
Streaming(t) == stage[t] = "call" /\ frame[t].op = "stream"

\* What a session knows of the file it sends, and what it still owes.
Download(t) ==
    /\ stage[t] = "call" /\ frame[t].op = "size" =>
         /\ pc[t] = "size_get" \/ frame[t].ok => Indexed(frame[t].key)
         /\ frame[t].ok => frame[t].size = Size(frame[t].key)
    /\ Streaming(t) =>
         /\ Indexed(frame[t].key) /\ owed[t] = Size(frame[t].key)
         /\ \/ frame[t].sent = <<>> /\ ~frame[t].ok
            \/ /\ File(frame[t].key) # None
               /\ Len(frame[t].sent) <= Len(File(frame[t].key))
               /\ frame[t].ok => Len(frame[t].sent) = Len(File(frame[t].key))
    /\ stage[t] \in {"loop", "recv", "call", "reply"} /\ ~Streaming(t) => owed[t] = 0

DownloadInv ==
    /\ DiskInv /\ TransferInv
    /\ \A t \in Threads : Download(t)

(* A step changes only the files of an operation that changes files. *)
LEMMA StaysElsewhere ==
    ASSUME OneKeyPerFile, StorageInv, NEW t \in Threads, OpStep(t), NEW k \in Keys,
           frame[t].op \in {"save", "delete", "rename"} => k \notin OpKeys(t)
    PROVE  FileStays(k)
<1>1. FrameOK(frame[t]) /\ FrameAt(t) /\ pc[t] # "idle" /\ pc[t] \in Labels
  BY KeepsRequest DEF StorageInv, TypeOK
<1>2. CASE frame[t].op \in {"save", "delete", "rename"}
  <2>1. k \notin OpKeys(t)
    BY <1>2
  <2>2. lock_entry[t][k] = NoEntry
    BY <1>1, <2>1 DEF StorageInv, LocksFollowControl, LocksAt, Refers, OpKeys, Labels,
       ReadLabels, WriteLabels
  <2>3. ~HoldsExclusive(t, k)
    BY <2>2, NoReferenceNoLock
  <2> QED
    BY <2>3, TouchesOwnFiles
<1>3. CASE frame[t].op \notin {"save", "delete", "rename"}
  <2>1. ~FileStep(t)
    BY <1>1, <1>3 DEF FileStep, FrameAt, SaveOpen, SaveChunk, SaveNetError, SaveIndex,
       DeleteRemove, DeleteIndex, RenameMove, RenameRemove, RenameAdd
  <2> QED
    BY <2>1, OtherStepsStay, AllStayFiles
<1> QED
  BY <1>2, <1>3

(* The file of an undisturbed download is settled: it has, in the index,   *)
(* the size it has on disk.                                                *)
LEMMA DownloadSettled ==
    ASSUME SessionInv, Undisturbed, DownloadsSynced, DownloadInv,
           NEW t \in Threads, Downloads(t)
    PROVE  /\ frame[t].key \in Keys
           /\ File(frame[t].key) # None =>
                Indexed(frame[t].key) /\ Size(frame[t].key) = Len(File(frame[t].key))
<1>1. pc[t] # "idle" /\ StorageInv
  BY DEF Downloads, SessionInv, WorkerOK
<1>2. frame[t].key \in Keys
  BY <1>1, InOperation DEF StorageInv, Downloads, FrameOK, FileOps
<1>3. ASSUME NEW s \in Threads, frame[t].key \in Unsettled(s) PROVE FALSE
  <2>1. pc[s] \in UnsettledLabels /\ frame[t].key \in OpKeys(s)
    BY <1>3 DEF Unsettled
  <2>2. pc[s] # "idle"
    BY <2>1 DEF UnsettledLabels
  <2>3. FrameAt(s) /\ stage[s] = "call"
    BY <1>1, <2>2 DEF StorageInv, LocksFollowControl, SessionInv, WorkerOK
  <2>4. Changes(s)
    BY <2>1, <2>3 DEF Changes, FrameAt, UnsettledLabels
  <2> QED
    BY <2>1, <2>4 DEF Undisturbed
<1>4. Settled(frame[t].key)
  BY <1>2, <1>3 DEF DownloadInv, DiskInv
<1> QED
  BY <1>2, <1>4 DEF Settled, Synced, DownloadsSynced

(* While an undisturbed download is sent, no more was sent than its header *)
(* announced, and all of it if the sending succeeds.                       *)
LEMMA AnnouncedSize ==
    ASSUME SessionInv, Undisturbed, DownloadsSynced, DownloadInv,
           NEW t \in Threads, Streaming(t)
    PROVE  frame[t].ok => Len(frame[t].sent) = owed[t]
<1>1. Downloads(t)
  BY DEF Downloads, Streaming
<1>2. File(frame[t].key) # None => Size(frame[t].key) = Len(File(frame[t].key))
  BY <1>1, DownloadSettled
<1>3. owed[t] = Size(frame[t].key)
  BY DEF DownloadInv, Download
<1>4. \/ frame[t].sent = <<>> /\ ~frame[t].ok
      \/ /\ File(frame[t].key) # None
         /\ frame[t].ok => Len(frame[t].sent) = Len(File(frame[t].key))
  BY DEF DownloadInv, Download
<1> QED
  BY <1>2, <1>3, <1>4

(* When the server starts nobody downloads. *)
LEMMA DownloadStart == SessionInit => DownloadInv
<1> SUFFICES ASSUME SessionInit PROVE DownloadInv
  OBVIOUS
<1>1. DiskInv /\ TransferInv
  BY InitStarts, DiskStart, TransferStart DEF SessionInit
<1>2. \A t \in Threads : Download(t)
  BY DEF SessionInit, Download, Streaming
<1> QED
  BY <1>1, <1>2 DEF DownloadInv

(* What another session does leaves an undisturbed download alone. *)
LEMMA DownloadStays ==
    ASSUME NEW t \in Threads, Download(t),
           stage'[t] = stage[t] /\ frame'[t] = frame[t] /\ pc'[t] = pc[t],
           owed'[t] = owed[t],
           Downloads(t) => FileStays(frame[t].key)
    PROVE  Download(t)'
<1>1. CASE ~Downloads(t)
  BY <1>1 DEF Download, Downloads, Streaming
<1>2. CASE Downloads(t)
  <2>1. /\ Indexed(frame[t].key)' <=> Indexed(frame[t].key)
        /\ Size(frame[t].key)' = Size(frame[t].key)
        /\ File(frame[t].key)' = File(frame[t].key)
    BY <1>2 DEF FileStays
  <2> QED
    BY <2>1 DEF Download, Streaming
<1> QED
  BY <1>1, <1>2

(* An operation step of a download. *)
LEMMA DownloadWorks ==
    ASSUME OneKeyPerFile, SessionInv, NoWrap, DownloadInv, NEW t \in Threads, Work(t)
    PROVE  Download(t)'
<1>1. /\ OpStep(t) /\ StorageInv /\ stage[t] = "call" /\ stage'[t] = "call"
      /\ owed'[t] = owed[t] /\ Download(t) /\ Transfer(t)
  BY DEF Work, SessionInv, DownloadInv, TransferInv
<1>2. /\ FrameOK(frame[t]) /\ FrameOK(frame'[t]) /\ FrameAt(t)
      /\ frame'[t].op = frame[t].op /\ frame'[t].key = frame[t].key
  BY <1>1, KeepsRequest
<1>t. /\ pc \in [Threads -> Labels] /\ DOMAIN frame = Threads
      /\ disk \in [Files -> Seq(Chunks) \cup {None}]
  BY <1>1 DEF StorageInv, TypeOK
<1>3. CASE frame[t].op \notin {"size", "stream"}
  BY <1>1, <1>2, <1>3 DEF Download, Streaming
<1>4. PICK k \in Keys \cup {frame[t].key} : k = frame[t].key
  OBVIOUS
<1>5. ASSUME frame[t].op \in {"size", "stream"}
      PROVE  /\ k \in Keys
             /\ Indexed(k)' <=> Indexed(k)
             /\ Size(k)' = Size(k) /\ File(k)' = File(k)
  <2>1. k \in Keys
    BY <1>2, <1>4, <1>5 DEF FrameOK, FileOps
  <2>2. FileStays(k)
    BY <1>1, <1>5, <2>1, StaysElsewhere
  <2> QED
    BY <2>1, <2>2 DEF FileStays
<1>6. CASE frame[t].op = "size"
  <2>1. SizeGet(t)
    BY <1>1, <1>2, <1>6 DEF OpStep, FrameAt, FileOps, DiscardChunk, DiscardEnd, SaveRef,
       SaveLock, SaveOpen, SaveChunk, SaveNetError, SaveIndex, StreamRef, StreamLock,
       StreamOpen, StreamChunk, StreamNetError, StreamEnd, DeleteRef, DeleteLock,
       DeleteRemove, DeleteIndex, RenameRefOld, RenameRefNew, RenameFirst, RenameSecond,
       RenameBackOff, RenameCheck, RenameMove, RenameSize, RenameRemove, RenameAdd,
       Unlock, Release, Unwind, Drop
  <2>2. frame'[t].size = Size(k) /\ pc[t] = "size_get"
    BY <1>t, <1>2, <1>4, <2>1 DEF SizeGet, FrameOK
  <2>3. Indexed(k)
    BY <1>1, <1>4, <1>6, <2>2 DEF Download
  <2>4. frame'[t].key = k /\ frame'[t].op = "size" /\ owed[t] = 0
    BY <1>1, <1>2, <1>4, <1>6 DEF Download, Streaming
  <2> QED
    BY <1>1, <1>5, <1>6, <2>2, <2>3, <2>4 DEF Download, Streaming
<1>7. CASE frame[t].op = "stream"
  <2>0. /\ Indexed(k) /\ owed[t] = Size(k) /\ frame'[t].key = k /\ frame'[t].op = "stream"
        /\ \/ frame[t].sent = <<>> /\ ~frame[t].ok
           \/ /\ File(k) # None
              /\ Len(frame[t].sent) <= Len(File(k))
              /\ frame[t].ok => Len(frame[t].sent) = Len(File(k))
    BY <1>1, <1>2, <1>4, <1>7 DEF Download, Streaming
  <2>k. k \in Keys /\ File(k) \in Seq(Chunks) \cup {None}
    BY <1>t, <1>5, <1>7, StorageAssumption DEF File
  <2>1. CASE frame'[t].sent = frame[t].sent /\ frame'[t].ok = frame[t].ok
    BY <1>1, <1>5, <1>7, <2>0, <2>1 DEF Download, Streaming
  <2>2. CASE ~TransferStep(t)
    BY <1>1, <1>7, <2>1, <2>2, OtherStepsTransferNothing
  <2>3. CASE StreamOpen(t) \/ StreamNetError(t)
    BY <2>1, <2>3 DEF StreamOpen, StreamNetError, Then
  <2>4. CASE StreamChunk(t)
    <3>1. /\ frame'[t].ok = frame[t].ok /\ Len(frame'[t].sent) = Len(frame[t].sent) + 1
          /\ File(k) # None /\ Len(frame[t].sent) < Len(File(k)) /\ pc[t] = "stream_send"
      <4>1. /\ frame' = [frame EXCEPT ![t].sent = Append(@, File(frame[t].key)[Len(@) + 1])]
            /\ pc[t] = "stream_send" /\ ~AtEnd(t)
        BY <2>4 DEF StreamChunk
      <4>2. /\ frame'[t].sent = Append(frame[t].sent, File(k)[Len(frame[t].sent) + 1])
            /\ frame'[t].ok = frame[t].ok
        BY <1>t, <1>2, <1>4, <4>1 DEF FrameOK
      <4>3. File(k) # None /\ ~(Len(frame[t].sent) >= Len(File(k)))
        BY <1>4, <4>1 DEF AtEnd
      <4>4. frame[t].sent \in Seq(Chunks)
        BY <1>2 DEF FrameOK
      <4>5. Len(Append(frame[t].sent, File(k)[Len(frame[t].sent) + 1])) = Len(frame[t].sent) + 1
        BY <4>4
      <4> QED
        BY <2>k, <4>1, <4>2, <4>3, <4>4, <4>5
    <3>2. ~frame[t].ok
      BY <1>1, <3>1 DEF Transfer, Returning
    <3>3. Len(frame[t].sent) \in Nat /\ Len(File(k)) \in Nat
      BY <1>2, <2>k, <3>1 DEF FrameOK
    <3> QED
      BY <1>1, <1>5, <1>7, <2>0, <3>1, <3>2, <3>3 DEF Download, Streaming
  <2>5. CASE StreamEnd(t)
    <3>1. /\ frame'[t].sent = frame[t].sent /\ pc[t] = "stream_send" /\ AtEnd(t)
      BY <1>t, <1>2, <2>5 DEF StreamEnd, FrameOK
    <3>2. File(k) # None /\ Begins(frame[t].sent, File(k))
      BY <1>1, <1>4, <3>1 DEF Transfer
    <3>3. Len(frame[t].sent) >= Len(File(k)) /\ Len(frame[t].sent) <= Len(File(k))
      BY <1>4, <3>1, <3>2 DEF AtEnd, Begins
    <3>4. Len(frame[t].sent) \in Nat /\ Len(File(k)) \in Nat
      BY <1>2, <2>k, <3>2 DEF FrameOK
    <3> QED
      BY <1>1, <1>5, <1>7, <2>0, <3>1, <3>2, <3>3, <3>4 DEF Download, Streaming
  <2>6. CASE TransferStep(t) /\ ~StreamOpen(t) /\ ~StreamNetError(t) /\ ~StreamChunk(t)
               /\ ~StreamEnd(t)
    BY <1>2, <1>7, <2>6 DEF TransferStep, FrameAt, SaveOpen, SaveChunk, SaveNetError,
       SaveIndex, DeleteRemove, RenameCheck, RenameMove
  <2> QED
    BY <2>2, <2>3, <2>4, <2>5, <2>6
<1> QED
  BY <1>3, <1>6, <1>7

(* A request that begins a download finds the size in the index. *)
LEMMA DownloadBegins ==
    ASSUME SessionInv, DownloadInv, NEW t \in Threads, Request(t)
    PROVE  Download(t)'
<1>t. /\ stage \in [Threads -> {"off", "loop", "recv", "call", "reply", "end"}]
      /\ DOMAIN frame = Threads /\ pc \in [Threads -> Labels] /\ SessionTypeOK
  BY DEF SessionInv, SessionTypeOK, StorageInv, TypeOK
<1>1. /\ stage[t] = "recv" /\ \/ UNCHANGED vars /\ stage'[t] \in {"reply", "end", "off"}
                              \/ Starts(t) /\ stage'[t] = "call"
  BY <1>t, RequestShape
<1>2. owed' = owed /\ owed[t] = 0
  <2>1. owed[t] = 0
    BY <1>1 DEF DownloadInv, Download, Streaming
  <2>2. owed' = owed
    BY DEF Request, Receive, LOGIN, Refuse, UPLOAD, DOWNLOAD, LIST, DELETE_F, RENAME, QUIT,
       Unknown, ReceiveFails, ReceiveThrows, Serve
  <2> QED
    BY <2>1, <2>2
<1>3. CASE stage'[t] # "call"
  BY <1>2, <1>3 DEF Download, Streaming
<1>4. CASE stage'[t] = "call"
  <2>0. ASSUME frame'[t].op \notin {"size", "stream"} PROVE Download(t)'
    BY <1>2, <2>0 DEF Download, Streaming
  <2>1. ASSUME NEW k \in Keys, get_file_size(t, k) PROVE Download(t)'
    <3>1. /\ frame'[t] = NewFrame("size", k, k, <<>>)
          /\ pc'[t] = IF Indexed(k) THEN "size_get" ELSE "done"
          /\ UNCHANGED index_
      BY <1>t, <2>1 DEF get_file_size, Call, GoTo
    <3>2. frame'[t].op = "size" /\ frame'[t].key = k /\ frame'[t].ok = FALSE
      BY <3>1 DEF NewFrame
    <3>3. Indexed(k)' <=> Indexed(k)
      BY <3>1, SameIndex
    <3> QED
      BY <1>2, <3>1, <3>2, <3>3 DEF Download, Streaming
  <2>2. ASSUME NEW d \in Payloads, discard_data(t, d) PROVE Download(t)'
    BY <1>t, <2>0, <2>2 DEF discard_data, Call, NewFrame
  <2>3. ASSUME NEW k \in Keys, NEW d \in Payloads, save_file(t, k, d) PROVE Download(t)'
    BY <1>t, <2>0, <2>3 DEF save_file, Call, NewFrame
  <2>4. ASSUME list_files(t, session_user[t]) PROVE Download(t)'
    BY <1>t, <2>0, <2>4 DEF list_files, Call, NewFrame
  <2>5. ASSUME NEW k \in Keys, delete_file(t, k) PROVE Download(t)'
    BY <1>t, <2>0, <2>5 DEF delete_file, Call, NewFrame
  <2>6. ASSUME NEW k \in Keys, NEW j \in Keys, rename_file(t, k, j) PROVE Download(t)'
    BY <1>t, <2>0, <2>6 DEF rename_file, Call, NewFrame
  <2>7. CASE \E c \in FileCommands : Refuse(t, c)
    BY <1>4, <1>t, <2>2, <2>7 DEF Refuse, Answer, Enter
  <2>8. CASE \/ \E u \in Users \cup {None} : LOGIN(t, u)
             \/ QUIT(t) \/ Unknown(t) \/ ReceiveFails(t) \/ ReceiveThrows(t)
    BY <1>4, <1>t, <2>8 DEF LOGIN, QUIT, Unknown, ReceiveFails, ReceiveThrows, Answer, Enter
  <2> QED
    BY <2>1, <2>3, <2>4, <2>5, <2>6, <2>7, <2>8
    DEF Request, UPLOAD, DOWNLOAD, LIST, DELETE_F, RENAME
<1> QED
  BY <1>3, <1>4

(* What a session does to its own download. *)
LEMMA OwnDownload ==
    ASSUME OneKeyPerFile, SessionInv, NoWrap, Undisturbed, DownloadsSynced, DownloadInv,
           NEW t \in Threads, Begin(t) \/ Request(t) \/ Progress(t)
    PROVE  Download(t)'
<1>t. /\ stage \in [Threads -> {"off", "loop", "recv", "call", "reply", "end"}]
      /\ owed \in [Threads -> Int] /\ DOMAIN frame = Threads /\ pc \in [Threads -> Labels]
      /\ Download(t)
  BY DEF SessionInv, SessionTypeOK, StorageInv, TypeOK, DownloadInv
<1>1. CASE Begin(t)
  BY <1>1, <1>t DEF Begin, Enter, Download, Streaming
<1>2. CASE Request(t)
  BY <1>2, DownloadBegins
<1>3. CASE Work(t)
  BY <1>3, DownloadWorks
<1>4. CASE Loop(t) \/ Reply(t) \/ SessionEnd(t)
  <2>1. owed'[t] = owed[t] /\ stage'[t] \in {"recv", "end", "loop", "off"}
    BY <1>4, <1>t DEF Loop, Reply, SessionEnd, Enter
  <2>2. stage[t] \in {"loop", "reply"} \/ stage'[t] = "off"
    BY <1>4, <1>t DEF Loop, Reply, SessionEnd, Enter
  <2> QED
    BY <1>t, <2>1, <2>2 DEF Download, Streaming
<1>5. CASE CollectResult(t)
  <2>1. /\ owed'[t] = owed[t] /\ stage'[t] = "reply" /\ stage[t] = "call"
        /\ frame[t].op # "stream"
    BY <1>5, <1>t DEF CollectResult, Returned, Enter
  <2> QED
    BY <1>t, <2>1 DEF Download, Streaming
<1>6. CASE SendSizeFails(t)
  <2>1. stage'[t] = "end"
    BY <1>6, <1>t DEF SendSizeFails, Enter
  <2> QED
    BY <2>1 DEF Download, Streaming
<1>7. CASE SendSize(t)
  <2>0. PICK k : k = frame[t].key
    OBVIOUS
  <2>1. /\ frame[t].op = "size" /\ frame[t].ok /\ stage[t] = "call" /\ stage'[t] = "call"
        /\ owed'[t] = frame[t].size /\ UNCHANGED index_
        /\ frame'[t] = NewFrame("stream", k, k, <<>>)
    BY <1>7, <1>t, <2>0 DEF SendSize, Returned
  <2>2. Indexed(k) /\ owed'[t] = Size(k)
    BY <1>t, <2>0, <2>1 DEF Download
  <2>3. /\ frame'[t].op = "stream" /\ frame'[t].key = k /\ frame'[t].sent = <<>>
        /\ ~frame'[t].ok
    BY <2>1 DEF NewFrame
  <2>4. k \in Keys
    BY <2>0, <2>1, DownloadSettled DEF Downloads
  <2>5. (Indexed(k)' <=> Indexed(k)) /\ Size(k)' = Size(k)
    BY <2>1, <2>4, SameIndex
  <2> QED
    BY <2>1, <2>2, <2>3, <2>5 DEF Download, Streaming
<1>8. CASE Streamed(t)
  <2>1. /\ Streaming(t) /\ owed'[t] = owed[t] - Len(frame[t].sent)
        /\ stage'[t] = IF frame[t].ok THEN "loop" ELSE "end"
    BY <1>8, <1>t DEF Streamed, Returned, Streaming, Enter
  <2>2. frame[t].ok => Len(frame[t].sent) = owed[t]
    BY <2>1, AnnouncedSize
  <2>3. frame[t].ok => owed'[t] = 0
    BY <1>t, <2>1, <2>2
  <2> QED
    BY <2>1, <2>3 DEF Download, Streaming
<1> QED
  BY <1>1, <1>2, <1>3, <1>4, <1>5, <1>6, <1>7, <1>8 DEF Progress

(* Every step of the server keeps the invariant of the downloads. *)
LEMMA DownloadStep ==
    ASSUME OneKeyPerFile, SessionInv, NoWrap, Undisturbed, DownloadsSynced, DownloadInv,
           [SessionNext]_allVars
    PROVE  DownloadInv'
<1>0. DiskInv /\ TransferInv /\ StorageInv
  BY DEF DownloadInv, SessionInv
<1>1. DiskInv' /\ TransferInv'
  BY <1>0, SessionDisk, SessionTransfer
<1>2. CASE UNCHANGED allVars \/ Stop \/ AllQuiet
  <2>1. UNCHANGED <<disk, unsynced, index_, pc, frame, stage, owed>>
    BY <1>2 DEF Stop, AllQuiet, allVars, vars, storeVars, diskVars, sessionVars
  <2>2. \A k \in Keys : FileStays(k)
    BY <2>1, AllStayFiles DEF AllStay
  <2>4. \A t \in Threads : Downloads(t) => frame[t].key \in Keys
    BY DownloadSettled
  <2>5. \A t \in Threads : Download(t)'
    BY <2>1, <2>2, <2>4, DownloadStays DEF DownloadInv
  <2> QED
    BY <1>1, <2>5 DEF DownloadInv
<1>3. ASSUME NEW t \in Threads, Begin(t) \/ Request(t) \/ Progress(t)
      PROVE  DownloadInv'
  <2>1. \A s \in Threads \ {t} : owed'[s] = owed[s]
    <3>1. owed \in [Threads -> Int]
      BY DEF SessionInv, SessionTypeOK
    <3> QED
      BY <1>3, <3>1 DEF Begin, Request, Progress, Receive, Loop, Work, CollectResult, SendSize,
         SendSizeFails, Streamed, Reply, SessionEnd, LOGIN, Refuse, UPLOAD, DOWNLOAD, LIST,
         DELETE_F, RENAME, QUIT, Unknown, ReceiveFails, ReceiveThrows, Serve
  <2>2. CASE OpStep(t)
    <3>1. pc[t] # "idle"
      BY <1>0, <2>2, KeepsRequest
    <3>2. stage[t] = "call"
      BY <3>1 DEF SessionInv, WorkerOK
    <3>3. ASSUME NEW s \in Threads \ {t}, Downloads(s) PROVE FileStays(frame[s].key)
      <4>1. frame[s].key \in Keys
        BY <3>3, DownloadSettled
      <4>2. frame[t].op \in {"save", "delete", "rename"} => frame[s].key \notin OpKeys(t)
        BY <3>2, <3>3 DEF Undisturbed, Changes
      <4> QED
        BY <1>0, <2>2, <4>1, <4>2, StaysElsewhere
    <3>4. \A s \in Threads \ {t} : Download(s)'
      BY <1>3, <2>1, <3>3, OthersSessions, DownloadStays DEF DownloadInv
    <3> QED
      BY <1>1, <1>3, <3>4, OwnDownload DEF DownloadInv
  <2>3. CASE UNCHANGED vars \/ Starts(t) \/ Finish(t)
    <3>1. UNCHANGED <<disk, unsynced, index_>>
      BY <2>3 DEF vars, storeVars, diskVars, Starts, StartsWith, Finish
    <3>2. \A k \in Keys : FileStays(k)
      BY <3>1, AllStayFiles DEF AllStay
    <3>3. \A s \in Threads : Downloads(s) => frame[s].key \in Keys
      BY DownloadSettled
    <3>4. \A s \in Threads \ {t} : Download(s)'
      BY <1>3, <2>1, <3>2, <3>3, OthersSessions, DownloadStays DEF DownloadInv
    <3> QED
      BY <1>1, <1>3, <3>4, OwnDownload DEF DownloadInv
  <2> QED
    BY <1>3, <2>2, <2>3, SessionStorage DEF SessionInv
<1> QED
  BY <1>2, <1>3 DEF SessionNext

(* The inductive invariant of the downloads. *)
THEOREM DownloadInvariant ==
    ASSUME OneKeyPerFile
    PROVE  SessionSpec /\ []NoWrap /\ []Undisturbed /\ []DownloadsSynced
             => [](SessionInv /\ DownloadInv)
<1>1. SessionInit => DownloadInv
  BY DownloadStart
<1>2. /\ SessionInv /\ NoWrap /\ Undisturbed /\ DownloadsSynced /\ DownloadInv
      /\ [SessionNext]_allVars
      => DownloadInv'
  BY DownloadStep
<1> QED
  BY <1>1, <1>2, SessionInvariant, PTL DEF SessionSpec

(* A session that goes on after a DOWNLOAD has sent exactly the payload    *)
(* its header announced, if nobody changes the file from the look-up of    *)
(* its size to the end of the download and the index entry of the file was *)
(* one the code had kept in line with it: these are the two things that    *)
(* stand between the code and its framing.                                 *)
THEOREM DownloadsFramed ==
    ASSUME OneKeyPerFile
    PROVE  SessionSpec /\ []NoWrap /\ []Undisturbed /\ []DownloadsSynced
             => []DownloadFramed
<1>1. DownloadInv => DownloadFramed
  BY DEF DownloadInv, Download, Streaming, DownloadFramed
<1> QED
  BY <1>1, DownloadInvariant, PTL

(* With one worker nothing is disturbed, it runs one operation at a time:  *)
(* only an index entry that was not kept in line with its file is left.    *)
THEOREM OneWorkerFramed ==
    ASSUME OneKeyPerFile, \A s, t \in Threads : s = t
    PROVE  SessionSpec /\ []NoWrap /\ []DownloadsSynced => []DownloadFramed
<1>1. Undisturbed
  BY DEF Undisturbed, Downloads, Changes
<1> QED
  BY <1>1, DownloadsFramed, PTL
============================================================================
