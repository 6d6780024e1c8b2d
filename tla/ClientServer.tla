---------------------------- MODULE ClientServer ----------------------------
(***************************************************************************)
(* Clients and the sessions that serve them: session c of Session is the   *)
(* one of client c's connection, which a worker takes up when it is free.  *)
(* A step of a session that reads or writes the socket takes tokens from,  *)
(* or adds tokens to, the connection; its failures, which Session allows   *)
(* at any time, happen here only when the connection is broken or the      *)
(* other end is closed.                                                    *)
(*                                                                         *)
(* KeyOf[u][n] is the path key of file name n in the directory of user u.  *)
(* All contents consist of the same chunk, so a payload is its length.     *)
(***************************************************************************)
EXTENDS Session, Client

CONSTANTS
    KeyOf,         \* see above
    PoolSize       \* workers of the thread pool

ASSUME ClientServerAssumption ==
    /\ Clients = Threads
    /\ Logins = Users
    /\ Nothing = None
    /\ Sizes = {Len(d) : d \in Payloads}
    /\ KeyOf \in [Users -> [Names -> Keys]]
    /\ \A u \in Users, n \in Names : Owner[KeyOf[u][n]] = u
    /\ PoolSize \in Nat \ {0}
    /\ "net" \in Faults

VARIABLE
    misled         \* history: a session has announced to client c a length that
                   \* is not the length of the file it then sends

systemVars == <<allVars, clientVars, misled>>

SystemInit ==
    /\ SessionInit /\ ClientInit
    /\ misled = [c \in Clients |-> FALSE]

localVars == <<cstate, username_, job, local, changed, commands>>

-----------------------------------------------------------------------------
(* The server's end of the connection *)

ServerSends(t, tokens) ==
    replies' = [replies EXCEPT ![t] = @ \o Delivered(t, tokens)]

ServerTakes(t, n) ==
    requests' = [requests EXCEPT ![t] = Rest(@, n)]

ResponseHeader(t, s, len) == [cmd |-> cmd[t], status |-> s, len |-> len]

ClientGone(t) == broken[t] \/ "client" \in closed[t]

\* The connection waits for accept, or in the task queue for a worker.
Queued(t) == stage[t] = "off" /\ "server" \notin closed[t]
Serving == {t \in Threads : InSession(t)}

\* While the server listens; the session of an earlier connection is over.
Connect(t) ==
    /\ connect_to_server(t)
    /\ running_ /\ stage[t] = "off" /\ "server" \in closed[t]
    /\ sessions + Cardinality({s \in Threads : Queued(s)}) < MaxSessions
    /\ UNCHANGED <<allVars, misled>>

\* A free worker pops the task, also after the queue was shut down.
ServerBegins(t) ==
    /\ Queued(t) /\ Cardinality(Serving) < PoolSize
    /\ Begin(t)
    /\ UNCHANGED clientVars

\* The queue rejects the task, or nobody accepts the connection any more.
ServerRefuses(t) ==
    /\ Queued(t) /\ ~running_
    /\ Close(t, "server", requests[t])
    /\ UNCHANGED <<allVars, localVars, requests, replies>>

\* What recv_message_meta, and recv_all of the payload of a command other
\* than UPLOAD, wait for.
RequestLength(h) == IF h.cmd = "UPLOAD" THEN 1 ELSE 1 + h.len

Arrived(t) ==
    /\ requests[t] # <<>> /\ IsHeader(Head(requests[t]))
    /\ Len(requests[t]) >= RequestLength(Head(requests[t]))

PathKey(t, n) == KeyOf[session_user[t]][n]

Served(t, h) ==
    \/ h.cmd = "LOGIN" /\ LOGIN(t, h.user)
    \/ /\ h.cmd \in FileCommands /\ Refuse(t, h.cmd)
       /\ h.cmd = "UPLOAD" => Len(frame'[t].data) = h.len
    \/ h.cmd = "UPLOAD" /\ LoggedIn(t)
         /\ \E d \in Payloads : Len(d) = h.len /\ UPLOAD(t, PathKey(t, h.name), d)
    \/ h.cmd = "DOWNLOAD" /\ LoggedIn(t) /\ DOWNLOAD(t, PathKey(t, h.name))
    \/ h.cmd = "LIST" /\ LIST(t)
    \/ h.cmd = "DELETE_F" /\ LoggedIn(t) /\ DELETE_F(t, PathKey(t, h.name))
    \/ h.cmd = "RENAME" /\ LoggedIn(t)
         /\ RENAME(t, PathKey(t, h.name), PathKey(t, requests[t][2]))
    \/ h.cmd = "QUIT" /\ QUIT(t)

\* What the server makes of a token that is no header is left open: the
\* properties say that there is none, or say nothing of the client.
ServerReceives(t) ==
    /\ stage[t] = "recv" /\ Arrived(t)
    /\ Served(t, Head(requests[t]))
    /\ ServerTakes(t, RequestLength(Head(requests[t])))
    /\ UNCHANGED <<localVars, replies, closed, broken>>

ServerReceiveFails(t) ==
    /\ ReceiveFails(t)
    /\ gone[t] \/ broken[t] \/ ("client" \in closed[t] /\ ~Arrived(t))
    /\ UNCHANGED clientVars

\* A step of the operation, with the chunk it reads or writes.
SendFailed(t) == pc[t] = "stream_send" /\ ~AtEnd(t) /\ pc'[t] # pc[t]

ServerWorks(t) ==
    /\ Work(t)
    /\ RecvFailed(t) => \/ gone[t] \/ broken[t]
                        \/ "client" \in closed[t] /\ requests[t] = <<>>
    /\ SendFailed(t) => ClientGone(t)
    /\ frame'[t].pos > frame[t].pos => requests[t] # <<>>
    /\ ServerTakes(t, frame'[t].pos - frame[t].pos)
    /\ ServerSends(t, Repeat(Unit, Len(frame'[t].sent) - Len(frame[t].sent)))
    /\ UNCHANGED <<localVars, closed, broken>>

ServerAnnounces(t) ==
    /\ \/ SendSize(t) /\ ServerSends(t, <<ResponseHeader(t, "OK", frame[t].size)>>)
       \/ SendSizeFails(t) /\ ClientGone(t) /\ UNCHANGED replies
    /\ UNCHANGED <<localVars, requests, closed, broken>>

ServerReplies(t) ==
    /\ Reply(t)
    /\ \/ /\ stage'[t] = "loop" \/ cmd[t] = "QUIT"
          /\ ServerSends(t, <<ResponseHeader(t, status[t], 1), Text>>)
       \/ stage'[t] = "end" /\ ClientGone(t) /\ UNCHANGED replies
    /\ UNCHANGED <<localVars, requests, closed, broken>>

\* Bug variant: the session ends without closesocket.
ServerKeepsSocket(t) == SessionEnd(t) /\ UNCHANGED clientVars

ServerCloses(t) ==
    /\ SessionEnd(t)
    /\ Close(t, "server", requests[t])
    /\ UNCHANGED <<localVars, requests, replies>>

\* The lengths of complete versions of files.
Versions == Payloads \cup (InitialContents \ {None})
VersionSizes == {Len(d) : d \in Versions}

\* DOWNLOAD announces a length that no version has (rename_file records 0 for
\* a file without an entry), or opens a file that has another one by then.
Misleads(t) ==
    \/ Returned(t, "size") /\ pc'[t] # "idle" /\ owed'[t] \notin VersionSizes
    \/ /\ pc[t] = "stream_open" /\ pc'[t] = "stream_send"
       /\ Len(File(frame[t].key)) # owed[t]

ServerStep(t) ==
    /\ \/ ServerBegins(t) \/ ServerRefuses(t)
       \/ ServerReceives(t) \/ ServerReceiveFails(t) \/ ServerWorks(t)
       \/ ServerAnnounces(t) \/ ServerReplies(t) \/ ServerCloses(t)
       \/ (Loop(t) \/ CollectResult(t) \/ Streamed(t)) /\ UNCHANGED clientVars
    /\ misled' = [misled EXCEPT ![t] = @ \/ Misleads(t)]

-----------------------------------------------------------------------------
\* The connection fails: what is in flight may arrive or not.
Break(t) ==
    /\ closed[t] # {"client", "server"} /\ ~broken[t]
    /\ broken' = [broken EXCEPT ![t] = TRUE]
    /\ UNCHANGED <<allVars, localVars, requests, replies, closed, misled>>

\* The last client left.
AllLeft ==
    /\ \A t \in Threads : stage[t] = "off" /\ ~Queued(t) /\ cstate[t] = "off"
    /\ UNCHANGED systemVars

SystemNext ==
    \/ \E t \in Threads :
        \/ Connect(t) \/ ServerStep(t) \/ Break(t)
        \/ (process_command(t) \/ EndOfInput(t) \/ ClientStep(t))
             /\ UNCHANGED <<allVars, misled>>
    \/ Stop /\ UNCHANGED <<clientVars, misled>>
    \/ AllLeft

\* Both processes are scheduled.  Nothing makes the user enter a command.
SystemSpec ==
    /\ SystemInit /\ [][SystemNext]_systemVars
    /\ \A t \in Threads : /\ WF_systemVars(ServerStep(t))
                          /\ WF_systemVars(ClientStep(t) /\ UNCHANGED <<allVars, misled>>)

-----------------------------------------------------------------------------
(***************************************************************************)
(* README, Message Framing: both ends agree on where messages begin.       *)
(* Whatever failed, a client at its prompt has left no part of a response  *)
(* in the connection and what it reads as a header is one; it has left no  *)
(* part of a request to the server, and what the server reads as a header  *)
(* is one while the connection is up.  Excepted are a client that          *)
(* announced a length its file did not keep (requests), and one to whom    *)
(* the server did so: another session changed the file, a write failed     *)
(* unnoticed, remains were not removed, or the index had no entry.         *)
(***************************************************************************)
FramesAligned ==
    \A t \in Threads : ~misled[t] =>
        /\ cstate[t] = "prompt" => replies[t] = <<>>
        /\ cstate[t] \in {"await", "header"} /\ replies[t] # <<>>
             => IsHeader(Head(replies[t]))
        /\ ~changed[t] /\ cstate[t] = "prompt" => requests[t] = <<>>
        /\ ~changed[t] /\ ~broken[t] /\ stage[t] = "recv" /\ requests[t] # <<>>
             => IsHeader(Head(requests[t]))

(***************************************************************************)
(* The user whose name a client has at its prompt, and checks before a     *)
(* transfer, is the user in whose directory its session works: after any   *)
(* LOGIN, the second one under another name included, and from one         *)
(* connection to the next.  The exceptions are those of FramesAligned.     *)
(***************************************************************************)
LoginAgreed ==
    \A t \in Threads :
        ~changed[t] /\ ~misled[t] /\ cstate[t] = "prompt" /\ InSession(t)
          => username_[t] = session_user[t]

(***************************************************************************)
(* A file in downloads/ has the length of a complete version of a file of  *)
(* the server, or is not there: download_file leaves no partial file when  *)
(* the transfer breaks, unless fs::remove of it throws ("remove").         *)
(* Excepted is a client to whom the server announced a wrong length, see   *)
(* FramesAligned.                                                          *)
(***************************************************************************)
DownloadsWhole ==
    \A t \in Threads, n \in Names :
        ~misled[t] /\ cstate[t] \in {"off", "prompt"} /\ local[t][n] # Nothing
          => local[t][n] \in VersionSizes

(***************************************************************************)
(* Every command the user enters comes to an end, with the prompt or the   *)
(* end of the client, whatever the server answers and whenever it stops or *)
(* the connection breaks: the two never wait for each other forever.       *)
(* Excepted are the two cases of FramesAligned, in which one end waits for *)
(* the rest of what the other announced, and a client whose connection     *)
(* waits while every worker serves another client.                         *)
(***************************************************************************)
NoWorker(t) == Queued(t) /\ Cardinality(Serving) >= PoolSize

CommandsEnd ==
    \A t \in Threads :
        cstate[t] \notin {"off", "prompt"}
          ~> \/ cstate[t] \in {"off", "prompt"}
             \/ changed[t] \/ misled[t] \/ NoWorker(t)
=============================================================================
