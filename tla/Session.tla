------------------------------ MODULE Session ------------------------------
(***************************************************************************)
(* The sessions of the server (src/server/server.cpp, handle_client): a    *)
(* worker thread serves one connection until it ends, request by request,  *)
(* with the operations of FileManager.                                     *)
(*                                                                         *)
(* stage[t] is where handle_client is: "off" (the worker serves nobody),   *)
(* "loop" (while (running_)), "recv" (blocked in recv_message_meta),       *)
(* "call" (in an operation of FileManager), "reply" (send_message) and     *)
(* "end" (session_end).  A request's file name is the path key it yields   *)
(* in the directory of session_user.                                       *)
(*                                                                         *)
(* Faults may also hold "alloc": a length field so large that the buffer   *)
(* for it cannot be allocated and the resize throws.                       *)
(***************************************************************************)
EXTENDS FileManager, Integers

CONSTANT MaxSessions   \* bound: connections accepted in a behaviour

ASSUME SessionAssumption == MaxSessions \in Nat

VARIABLES
    running_,
    active_connections_,
    stage,         \* see above
    session_user,  \* session_user[t]: the user, None while nobody logged in
    cmd,           \* cmd[t]: the command being served
    status,        \* status[t]: the status of the response, None without one
    unread,        \* chunks of the last request's payload left in the socket
    owed,          \* payload chunks announced to the client and not sent
    gone,          \* recv on the connection has failed: it fails from now on
    abandoned,     \* history: connections whose session ended by an exception
    sessions       \* connections accepted so far

connVars == <<running_, active_connections_, abandoned, sessions>>
sessionVars == <<connVars, stage, session_user, cmd, status, unread, owed, gone>>
allVars == <<vars, sessionVars>>

SessionInit ==
    /\ Init
    /\ running_ = TRUE
    /\ active_connections_ = 0
    /\ stage = [t \in Threads |-> "off"]
    /\ session_user = [t \in Threads |-> None]
    /\ cmd = [t \in Threads |-> None]
    /\ status = [t \in Threads |-> None]
    /\ unread = [t \in Threads |-> 0]
    /\ owed = [t \in Threads |-> 0]
    /\ gone = [t \in Threads |-> FALSE]
    /\ abandoned = 0
    /\ sessions = 0

Enter(t, s) == stage' = [stage EXCEPT ![t] = s]
Status(t, s) == status' = [status EXCEPT ![t] = s]

\* The worker begins handle_client for a connection it was given.
Begin(t) ==
    /\ stage[t] = "off" /\ sessions < MaxSessions
    /\ sessions' = sessions + 1
    /\ active_connections_' = active_connections_ + 1
    /\ session_user' = [session_user EXCEPT ![t] = None]
    /\ cmd' = [cmd EXCEPT ![t] = None]
    /\ unread' = [unread EXCEPT ![t] = 0]
    /\ owed' = [owed EXCEPT ![t] = 0]
    /\ gone' = [gone EXCEPT ![t] = FALSE]
    /\ Status(t, None)
    /\ Enter(t, "loop")
    /\ UNCHANGED <<vars, running_, abandoned>>

Loop(t) ==
    /\ stage[t] = "loop"
    /\ Enter(t, IF running_ THEN "recv" ELSE "end")
    /\ UNCHANGED <<vars, connVars, session_user, cmd, status, unread, owed, gone>>

\* closesocket and active_connections_--.
SessionEnd(t) ==
    /\ stage[t] = "end"
    /\ active_connections_' = active_connections_ - 1
    /\ Enter(t, "off")
    /\ UNCHANGED <<vars, running_, abandoned, sessions, session_user, cmd, status,
                   unread, owed, gone>>

Stop ==
    /\ running_ /\ running_' = FALSE
    /\ UNCHANGED <<vars, active_connections_, abandoned, sessions, stage,
                   session_user, cmd, status, unread, owed, gone>>

-----------------------------------------------------------------------------
(* A request arrives: header, user name, file name and (except for UPLOAD) *)
(* the payload have been read.                                             *)

Receive(t, c) ==
    /\ stage[t] = "recv" /\ ~gone[t]
    /\ cmd' = [cmd EXCEPT ![t] = c]
    /\ UNCHANGED <<connVars, unread, owed, gone>>

\* Nothing to do but answer.
Answer(t, s) == Status(t, s) /\ Enter(t, "reply") /\ UNCHANGED vars

\* Bug variant: a session keeps its first user.
LoginOnce(t, u) ==
    /\ Receive(t, "LOGIN")
    /\ session_user' = [session_user EXCEPT ![t] = IF @ = None THEN u ELSE @]
    /\ Answer(t, "OK")

LOGIN(t, u) ==
    /\ Receive(t, "LOGIN")
    /\ session_user' = [session_user EXCEPT ![t] = u]
    /\ Answer(t, "OK")

LoggedIn(t) == session_user[t] # None

\* Before LOGIN every command on files is refused, an UPLOAD's payload discarded.
Refuse(t, c) ==
    /\ Receive(t, c)
    /\ ~LoggedIn(t)
    /\ UNCHANGED session_user
    /\ IF c = "UPLOAD"
         THEN /\ Status(t, "BAD_REQUEST")
              /\ Enter(t, "call")
              /\ \E d \in Payloads : discard_data(t, d)
         ELSE Answer(t, "BAD_REQUEST")

\* The keys of the user's directory.
Named(t, k) == LoggedIn(t) /\ Owner[k] = session_user[t]

Serve(t, c) ==
    /\ Receive(t, c)
    /\ Enter(t, "call")
    /\ UNCHANGED <<session_user, status>>

UPLOAD(t, k, d) == Named(t, k) /\ Serve(t, "UPLOAD") /\ save_file(t, k, d)
DOWNLOAD(t, k) == Named(t, k) /\ Serve(t, "DOWNLOAD") /\ get_file_size(t, k)
LIST(t) == LoggedIn(t) /\ Serve(t, "LIST") /\ list_files(t, session_user[t])
DELETE_F(t, k) == Named(t, k) /\ Serve(t, "DELETE_F") /\ delete_file(t, k)
RENAME(t, k, j) == Named(t, k) /\ Serve(t, "RENAME") /\ rename_file(t, k, j)

\* QUIT and the default case.
QUIT(t) == Receive(t, "QUIT") /\ Answer(t, "OK") /\ UNCHANGED session_user
Unknown(t) ==
    Receive(t, "UNKNOWN") /\ Answer(t, "BAD_REQUEST") /\ UNCHANGED session_user

\* recv_message_meta, or recv_all of the payload, fails: break.
ReceiveFails(t) ==
    /\ stage[t] = "recv"
    /\ gone[t] \/ "net" \in Faults
    /\ Enter(t, "end")
    /\ UNCHANGED <<vars, connVars, session_user, cmd, status, unread, owed, gone>>

\* The exception leaves handle_client; worker_loop catches it and goes on.
\* Nobody closes the socket or counts the connection down.
ReceiveThrows(t) ==
    /\ stage[t] = "recv" /\ ~gone[t]
    /\ "alloc" \in Faults
    /\ abandoned' = abandoned + 1
    /\ Enter(t, "off")
    /\ UNCHANGED <<vars, running_, active_connections_, sessions, session_user,
                   cmd, status, unread, owed, gone>>

-----------------------------------------------------------------------------
(* The operation runs and returns. *)

RecvFailed(t) ==
    /\ pc[t] \in {"save_recv", "discard", "save_discard"} /\ Remaining(t) > 0
    /\ pc'[t] # pc[t]

Work(t) ==
    /\ stage[t] = "call"
    /\ OpStep(t)
    /\ gone' = [gone EXCEPT ![t] = @ \/ RecvFailed(t)]
    /\ UNCHANGED <<connVars, stage, session_user, cmd, status, unread, owed>>

\* The caller takes the result out of the frame.
Returned(t, op) == stage[t] = "call" /\ pc[t] = "done" /\ frame[t].op = op

Collect(t) ==
    /\ pc' = [pc EXCEPT ![t] = "idle"]
    /\ frame' = [frame EXCEPT ![t] = None]
    /\ UNCHANGED <<lockVars, diskVars, index_, calls>>

\* The status make_response is given after the operation.
ResultStatus(t) ==
    CASE frame[t].op = "discard" -> status[t]
      [] frame[t].op = "save" -> IF frame[t].ok THEN "CREATED" ELSE "INTERNAL_ERROR"
      [] OTHER -> IF frame[t].ok THEN "OK" ELSE "NOT_FOUND"

CollectResult(t) ==
    /\ \/ \E op \in {"save", "discard", "list", "delete", "rename"} : Returned(t, op)
       \/ Returned(t, "size") /\ ~frame[t].ok
    /\ Collect(t)
    /\ unread' = [unread EXCEPT ![t] = Remaining(t)]
    /\ Status(t, ResultStatus(t))
    /\ Enter(t, "reply")
    /\ UNCHANGED <<connVars, session_user, cmd, owed, gone>>

\* DOWNLOAD: the header announces the size the index had; then the file is sent.
SendSize(t) ==
    /\ Returned(t, "size") /\ frame[t].ok
    /\ owed' = [owed EXCEPT ![t] = frame[t].size]
    /\ frame' = [frame EXCEPT ![t] = NewFrame("stream", frame[t].key, frame[t].key, <<>>)]
    /\ GoTo(t, StreamEntry(frame[t].key))
    /\ UNCHANGED <<lockVars, diskVars, index_, calls, connVars, stage, session_user,
                   cmd, status, unread, gone>>

SendSizeFails(t) ==
    /\ Returned(t, "size") /\ frame[t].ok
    /\ "net" \in Faults
    /\ Collect(t)
    /\ Enter(t, "end")
    /\ UNCHANGED <<connVars, session_user, cmd, status, unread, owed, gone>>

Streamed(t) ==
    /\ Returned(t, "stream")
    /\ owed' = [owed EXCEPT ![t] = @ - Len(frame[t].sent)]
    /\ Enter(t, IF frame[t].ok THEN "loop" ELSE "end")
    /\ Collect(t)
    /\ UNCHANGED <<connVars, session_user, cmd, status, unread, gone>>

\* Bug variant: QUIT returns without going to session_end.
ReplyQuitReturns(t) ==
    /\ stage[t] = "reply"
    /\ Enter(t, IF cmd[t] = "QUIT" THEN "off" ELSE "loop")
    /\ Status(t, None)
    /\ UNCHANGED <<vars, connVars, session_user, cmd, unread, owed, gone>>

\* send_message; QUIT ends the session whether or not it succeeds.
Reply(t) ==
    /\ stage[t] = "reply"
    /\ \/ Enter(t, IF cmd[t] = "QUIT" THEN "end" ELSE "loop")
       \/ "net" \in Faults /\ Enter(t, "end")
    /\ Status(t, None)
    /\ UNCHANGED <<vars, connVars, session_user, cmd, unread, owed, gone>>

-----------------------------------------------------------------------------
FileCommands == {"UPLOAD", "DOWNLOAD", "LIST", "DELETE_F", "RENAME"}

Request(t) ==
    \/ \E u \in Users \cup {None} : LOGIN(t, u)
    \/ \E c \in FileCommands : Refuse(t, c)
    \/ \E k \in Keys, d \in Payloads : UPLOAD(t, k, d)
    \/ \E k \in Keys : DOWNLOAD(t, k)
    \/ LIST(t)
    \/ \E k \in Keys : DELETE_F(t, k)
    \/ \E k, j \in Keys : RENAME(t, k, j)
    \/ QUIT(t) \/ Unknown(t) \/ ReceiveFails(t) \/ ReceiveThrows(t)

Progress(t) ==
    \/ Loop(t) \/ Work(t) \/ CollectResult(t) \/ SendSize(t) \/ SendSizeFails(t)
    \/ Streamed(t) \/ Reply(t) \/ SessionEnd(t)

\* Every client left, and no other one comes.
AllQuiet ==
    /\ sessions = MaxSessions
    /\ \A t \in Threads : stage[t] = "off"
    /\ UNCHANGED allVars

SessionNext ==
    \/ \E t \in Threads : Begin(t) \/ Request(t) \/ Progress(t)
    \/ Stop
    \/ AllQuiet

SessionSpec == SessionInit /\ [][SessionNext]_allVars

-----------------------------------------------------------------------------
(* Type invariant: the state of the sessions. *)
SessionTypeOK ==
    /\ TypeOK
    /\ running_ \in BOOLEAN
    /\ active_connections_ \in 0 .. MaxSessions
    /\ stage \in [Threads -> {"off", "loop", "recv", "call", "reply", "end"}]
    /\ session_user \in [Threads -> Users \cup {None}]
    /\ cmd \in [Threads -> FileCommands \cup {None, "LOGIN", "QUIT", "UNKNOWN"}]
    /\ status \in [Threads -> {None, "OK", "CREATED", "BAD_REQUEST", "NOT_FOUND",
                                "INTERNAL_ERROR"}]
    /\ unread \in [Threads -> Nat]
    /\ owed \in [Threads -> Int]
    /\ gone \in [Threads -> BOOLEAN]
    /\ {abandoned, sessions} \subseteq 0 .. MaxSessions

InSession(t) == stage[t] # "off"

(***************************************************************************)
(* The next header is read at a message boundary: on every path, refused   *)
(* and failed uploads included, handle_client has taken the whole payload  *)
(* of the last request off the connection, or the connection is gone.      *)
(***************************************************************************)
RequestsAligned ==
    \A t \in Threads : stage[t] \in {"loop", "recv"} => gone[t] \/ unread[t] = 0

(***************************************************************************)
(* A worker waiting for its client's next request, or for its next client, *)
(* holds no file's mutex and no reference to a lock entry: however long it *)
(* waits it keeps nobody from a file.                                      *)
(***************************************************************************)
WaitsWithoutLocks ==
    \A t \in Threads, k \in Keys :
        stage[t] \in {"off", "recv"} => lock_entry[t][k] = NoEntry /\ ~Holds(t, k)

(***************************************************************************)
(* active_connections_ counts the connections being served: every way out  *)
(* of handle_client closes the socket and counts down exactly once, except *)
(* the exceptions it lets pass, which leave one socket open and counted.   *)
(***************************************************************************)
ActiveExact ==
    active_connections_ = Cardinality({t \in Threads : InSession(t)}) + abandoned

(***************************************************************************)
(* README, Message Framing: the header has the exact length of what        *)
(* follows.  A session that goes on after a DOWNLOAD has sent exactly the  *)
(* payload its header announced.                                           *)
(***************************************************************************)
DownloadFramed == \A t \in Threads : stage[t] \in {"loop", "recv"} => owed[t] = 0
=============================================================================
