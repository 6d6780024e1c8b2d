------------------------------- MODULE Client -------------------------------
(***************************************************************************)
(* The client (src/client/client.cpp, class Client) driven by its command  *)
(* line (src/client/cli.cpp), and the connection it talks over.            *)
(*                                                                         *)
(* cstate[c] is where client c is: "off" (no process, or not connected),   *)
(* "prompt" (getline in CLI::run), "await" (receive_response), "upload"    *)
(* (the transfer loop of upload_file), and in download_file "header"       *)
(* (recv_message_meta), "error" (the error text), "create" (the local      *)
(* file), "save" and "drain" (the transfer loops).                         *)
(*                                                                         *)
(* The connection is a queue of tokens in each direction: a header (with   *)
(* the names that follow it), and what a payload consists of: Unit, a part *)
(* of a file's contents, Text, the text of a response, or a name (the new  *)
(* name of RENAME).  Whole messages arrive as Protocol shows.              *)
(*                                                                         *)
(* ClientFaults names what may happen on the client's host:                *)
(*   "mkdir"   creating the directory downloads throws                     *)
(*   "create"  the local file of a download cannot be created              *)
(*   "remove"  fs::remove of a partial download throws                     *)
(*   "change"  the file to upload changes while it is read                 *)
(***************************************************************************)
EXTENDS Naturals, Sequences

CONSTANTS
    Clients,
    Logins,        \* user names
    Names,         \* file names
    Nothing,       \* no user, no file, no command
    Unit, Text,    \* see above
    Sizes,         \* sizes of the files to upload, in units
    Buffer,        \* units in TRANSFER_BUFFER_SIZE
    ClientFaults,  \* see above
    MaxCommands    \* bound: commands entered in a behaviour

ASSUME ClientAssumption ==
    /\ Sizes \subseteq Nat
    /\ {Buffer, MaxCommands} \subseteq Nat \ {0}

Commands == {"LOGIN", "UPLOAD", "DOWNLOAD", "LIST", "DELETE_F", "RENAME", "QUIT"}

\* What the connection carries, and what a client keeps of a command.
RequestHeaders ==
    [cmd : Commands, user : Logins \cup {Nothing}, name : Names \cup {Nothing}, len : Nat]
ReplyHeaders ==
    [cmd : Commands \cup {Nothing, "UNKNOWN"},
     status : {Nothing, "OK", "CREATED", "BAD_REQUEST", "NOT_FOUND", "INTERNAL_ERROR"},
     len : Nat]
Jobs == [cmd : Commands, name : Names \cup {Nothing}, size : Nat, real : Nat, pos : Nat]

\* A header is not taken for anything else, and Nothing is no job.
ASSUME TokenAssumption ==
    /\ \A x \in Names \cup {Unit, Text} : x \notin RequestHeaders \cup ReplyHeaders
    /\ Nothing \notin Jobs \cup Nat

VARIABLES
    cstate,        \* see above
    username_,
    job,           \* job[c]: the command being executed
    requests,      \* requests[c]: tokens on their way to the server
    replies,       \* replies[c]: tokens on their way to the client
    closed,        \* closed[c]: the ends of the connection that are closed
    broken,        \* broken[c]: the connection failed
    local,         \* local[c][n]: units in downloads/n, or Nothing
    changed,       \* history: a file changed while client c was uploading it
    commands       \* commands entered so far

netVars == <<requests, replies, closed, broken>>
clientVars == <<cstate, username_, job, netVars, local, changed, commands>>

ClientInit ==
    /\ cstate = [c \in Clients |-> "off"]
    /\ username_ = [c \in Clients |-> Nothing]
    /\ job = [c \in Clients |-> Nothing]
    /\ requests = [c \in Clients |-> <<>>]
    /\ replies = [c \in Clients |-> <<>>]
    /\ closed = [c \in Clients |-> {"client", "server"}]
    /\ broken = [c \in Clients |-> FALSE]
    /\ local = [c \in Clients |-> [n \in Names |-> Nothing]]
    /\ changed = [c \in Clients |-> FALSE]
    /\ commands = 0

-----------------------------------------------------------------------------
(* The connection *)

IsHeader(x) == x \notin Names \cup {Unit, Text}
Repeat(x, n) == [i \in 1 .. n |-> x]
Rest(s, n) == SubSeq(s, n + 1, Len(s))

\* A connection that failed delivers at most what was sent before.
Delivered(c, tokens) == IF broken[c] THEN <<>> ELSE tokens

Send(c, tokens) == requests' = [requests EXCEPT ![c] = @ \o Delivered(c, tokens)]
Take(c, n) == replies' = [replies EXCEPT ![c] = Rest(@, n)]

\* A send may fail, and recv_all of n tokens fails.
SendMayFail(c) == broken[c] \/ "server" \in closed[c]
RecvMayFail(c, n) == broken[c] \/ ("server" \in closed[c] /\ Len(replies[c]) < n)

\* A process that closes a connection with unread data resets it.
Close(c, end, left) ==
    /\ closed' = [closed EXCEPT ![c] = @ \cup {end}]
    /\ broken' = [broken EXCEPT ![c] = @ \/ left # <<>>]

-----------------------------------------------------------------------------
(* Connecting and disconnecting *)

At(c, s) == cstate[c] = s
Go(c, s) == cstate' = [cstate EXCEPT ![c] = s]

\* A new process; main returns when connect fails.
connect_to_server(c) ==
    /\ At(c, "off") /\ commands < MaxCommands
    /\ Go(c, "prompt")
    /\ username_' = [username_ EXCEPT ![c] = Nothing]
    /\ requests' = [requests EXCEPT ![c] = <<>>]
    /\ replies' = [replies EXCEPT ![c] = <<>>]
    /\ closed' = [closed EXCEPT ![c] = {}]
    /\ broken' = [broken EXCEPT ![c] = FALSE]
    /\ UNCHANGED <<job, local, changed, commands>>

\* Afterwards is_connected() is false and CLI::run ends.
disconnect(c) ==
    /\ Go(c, "off")
    /\ username_' = [username_ EXCEPT ![c] = Nothing]
    /\ job' = [job EXCEPT ![c] = Nothing]
    /\ Close(c, "client", replies'[c])

\* End of input, and the destructor of Client.
EndOfInput(c) ==
    /\ At(c, "prompt")
    /\ UNCHANGED <<requests, replies, local, changed, commands>>
    /\ disconnect(c)

\* The command is over and the connection stays.
Prompt(c) ==
    /\ Go(c, "prompt")
    /\ job' = [job EXCEPT ![c] = Nothing]
    /\ UNCHANGED <<username_, requests, closed, broken, changed, commands>>

-----------------------------------------------------------------------------
(* Requests *)

Header(cmd, user, n, len) == [cmd |-> cmd, user |-> user, name |-> n, len |-> len]

\* A command of the user's: its message is sent, or sending it fails.
Command(c, j, user, payload, next) ==
    /\ At(c, "prompt") /\ commands < MaxCommands
    /\ commands' = commands + 1
    /\ UNCHANGED <<replies, local>>
    /\ \/ /\ Send(c, <<Header(j.cmd, user, j.name, j.size)>> \o payload)
          /\ job' = [job EXCEPT ![c] = j]
          /\ username_' = [username_ EXCEPT ![c] = IF j.cmd = "LOGIN" THEN user ELSE @]
          /\ changed' = [changed EXCEPT ![c] = @ \/ j.real # j.size]
          /\ Go(c, next)
          /\ UNCHANGED <<closed, broken>>
       \/ /\ SendMayFail(c)
          /\ disconnect(c)
          /\ UNCHANGED <<requests, changed>>

Job(cmd, n, size, real) ==
    [cmd |-> cmd, name |-> n, size |-> size,
     real |-> real,   \* what is left of the file when it is read
     pos |-> 0]       \* units transferred

send_command(c, cmd, user, n, payload) ==
    Command(c, Job(cmd, n, Len(payload), Len(payload)), user, payload, "await")

login(c, u) == send_command(c, "LOGIN", u, Nothing, <<>>)
SendList(c) == send_command(c, "LIST", username_[c], Nothing, <<>>)
SendDelete(c, n) == send_command(c, "DELETE_F", username_[c], n, <<>>)
SendRename(c, n, m) == send_command(c, "RENAME", username_[c], n, <<m>>)
quit(c) == send_command(c, "QUIT", Nothing, Nothing, <<>>)

\* upload_file announces the size it finds; the file it then reads may have
\* another one.
upload_file(c, n) ==
    /\ username_[c] # Nothing
    /\ \E size \in Sizes :
        \E real \in IF "change" \in ClientFaults THEN Sizes ELSE {size} :
            Command(c, Job("UPLOAD", n, size, real), username_[c], <<>>, "upload")

download_file(c, n) ==
    /\ username_[c] # Nothing
    /\ Command(c, Job("DOWNLOAD", n, 0, 0), username_[c], <<>>, "header")

Smaller(m, n) == IF m < n THEN m ELSE n
Advance(c, n) == job' = [job EXCEPT ![c].pos = @ + n]

\* infile.read fills the buffer or ends with the file.
BytesRead(c) == Smaller(Buffer, job[c].real - job[c].pos)

\* Bug variant: the whole buffer is sent, whatever was read.
UploadWholeBuffer(c) ==
    /\ At(c, "upload") /\ job[c].pos < job[c].size
    /\ Send(c, Repeat(Unit, Buffer)) /\ Advance(c, Buffer)
    /\ UNCHANGED <<cstate, username_, replies, closed, broken, local, changed, commands>>

UploadPart(c) ==
    /\ At(c, "upload") /\ job[c].pos < job[c].size /\ BytesRead(c) > 0
    /\ UNCHANGED <<replies, local, changed, commands>>
    /\ \/ /\ Send(c, Repeat(Unit, BytesRead(c))) /\ Advance(c, BytesRead(c))
          /\ UNCHANGED <<cstate, username_, closed, broken>>
       \/ /\ SendMayFail(c)
          /\ disconnect(c)
          /\ UNCHANGED requests

Uploaded(c) ==
    /\ At(c, "upload") /\ (job[c].pos >= job[c].size \/ BytesRead(c) = 0)
    /\ Go(c, "await")
    /\ UNCHANGED <<username_, job, netVars, local, changed, commands>>

-----------------------------------------------------------------------------
(* Responses *)

HeaderNext(c) == replies[c] # <<>> /\ IsHeader(Head(replies[c]))

\* The tokens recv_message waits for.  What a client makes of a token that is
\* no header is left open: the properties say that there is none, or say
\* nothing of the client.
Response(c) == IF HeaderNext(c) THEN 1 + Head(replies[c]).len ELSE 1

\* quit disconnects whatever the response.
receive_response(c) ==
    /\ At(c, "await") /\ HeaderNext(c) /\ Len(replies[c]) >= Response(c)
    /\ Take(c, Response(c))
    /\ IF job[c].cmd = "QUIT"
         THEN disconnect(c) /\ UNCHANGED <<requests, changed, commands>>
         ELSE Prompt(c)
    /\ UNCHANGED local

ResponseFails(c) ==
    /\ \/ At(c, "await") /\ RecvMayFail(c, Response(c))
       \/ At(c, "header") /\ RecvMayFail(c, 1)
    /\ UNCHANGED <<requests, replies, local, changed, commands>>
    /\ disconnect(c)

DownloadHeader(c) ==
    /\ At(c, "header") /\ HeaderNext(c)
    /\ job' = [job EXCEPT ![c].size = Head(replies[c]).len]
    /\ Go(c, IF Head(replies[c]).status = "OK" THEN "create" ELSE "error")
    /\ Take(c, 1)
    /\ UNCHANGED <<username_, requests, closed, broken, local, changed, commands>>

\* Bug variant: the text of the error is left in the connection.
DownloadErrorUnread(c) ==
    /\ At(c, "error")
    /\ Prompt(c)
    /\ UNCHANGED <<replies, local>>

\* The text of the error.  A failed recv_all leaves the client connected.
DownloadError(c) ==
    /\ At(c, "error")
    /\ \/ Len(replies[c]) >= job[c].size /\ Take(c, job[c].size)
       \/ RecvMayFail(c, job[c].size) /\ Take(c, Len(replies[c]))
    /\ Prompt(c)
    /\ UNCHANGED local

SetLocal(c, n) == local' = [local EXCEPT ![c][job[c].name] = n]

\* Bug variant: the payload stays in the connection.
CreateFileNoDrain(c) ==
    /\ At(c, "create") /\ "create" \in ClientFaults
    /\ Prompt(c)
    /\ UNCHANGED <<replies, local>>

\* The ofstream truncates the file.
CreateFile(c) ==
    /\ At(c, "create")
    /\ UNCHANGED <<requests, replies, changed, commands>>
    /\ \/ /\ SetLocal(c, 0) /\ Go(c, "save")
          /\ UNCHANGED <<username_, job, closed, broken>>
       \/ /\ "create" \in ClientFaults
          /\ Go(c, "drain")
          /\ UNCHANGED <<username_, job, closed, broken, local>>
       \/ /\ "mkdir" \in ClientFaults
          /\ disconnect(c)
          /\ UNCHANGED local

\* One buffer from the connection to the file, or to nowhere.
ChunkSize(c) == Smaller(Buffer, job[c].size - job[c].pos)

DownloadPart(c) ==
    /\ cstate[c] \in {"save", "drain"} /\ ChunkSize(c) > 0
    /\ Len(replies[c]) >= ChunkSize(c) /\ Take(c, ChunkSize(c))
    /\ IF At(c, "save") THEN SetLocal(c, job[c].pos + ChunkSize(c)) ELSE UNCHANGED local
    /\ Advance(c, ChunkSize(c))
    /\ UNCHANGED <<cstate, username_, requests, closed, broken, changed, commands>>

\* Bug variant: what has arrived stays on disk.
DownloadBreaksKeepsFile(c) ==
    /\ cstate[c] \in {"save", "drain"} /\ ChunkSize(c) > 0
    /\ RecvMayFail(c, ChunkSize(c))
    /\ UNCHANGED <<requests, replies, local, changed, commands>>
    /\ disconnect(c)

\* The partial file is removed (when fs::remove throws, main ends the process).
DownloadBreaks(c) ==
    /\ cstate[c] \in {"save", "drain"} /\ ChunkSize(c) > 0
    /\ RecvMayFail(c, ChunkSize(c))
    /\ \E left \in {Nothing} \cup (IF "remove" \in ClientFaults THEN {job[c].pos} ELSE {}) :
        IF At(c, "save") THEN SetLocal(c, left) ELSE UNCHANGED local
    /\ UNCHANGED <<requests, replies, changed, commands>>
    /\ disconnect(c)

Downloaded(c) ==
    /\ cstate[c] \in {"save", "drain"} /\ ChunkSize(c) = 0
    /\ Prompt(c)
    /\ UNCHANGED <<replies, local>>

-----------------------------------------------------------------------------
\* CLI::process_command; an empty argument and an unknown command do nothing.
process_command(c) ==
    \/ \E u \in Logins : login(c, u)
    \/ SendList(c) \/ quit(c)
    \/ \E n \in Names : upload_file(c, n) \/ download_file(c, n) \/ SendDelete(c, n)
    \/ \E n, m \in Names : SendRename(c, n, m)

\* The steps of a command that was entered.
ClientStep(c) ==
    \/ UploadPart(c) \/ Uploaded(c)
    \/ receive_response(c) \/ ResponseFails(c)
    \/ DownloadHeader(c) \/ DownloadError(c) \/ CreateFile(c)
    \/ DownloadPart(c) \/ DownloadBreaks(c) \/ Downloaded(c)

-----------------------------------------------------------------------------
(***************************************************************************)
(* Type invariant: no transfer goes beyond the file it reads or the length *)
(* the header announced.                                                   *)
(***************************************************************************)
ClientAt(c) ==
    /\ cstate[c] \in {"off", "prompt", "await", "upload", "header", "error",
                      "create", "save", "drain"}
    /\ username_[c] \in Logins \cup {Nothing}
    /\ cstate[c] \in {"off", "prompt"} <=> job[c] = Nothing
    /\ job[c] # Nothing =>
         /\ job[c] \in Jobs
         /\ job[c].pos <= IF job[c].cmd = "UPLOAD" THEN job[c].real ELSE job[c].size
    /\ closed[c] \subseteq {"client", "server"}
    /\ {broken[c], changed[c]} \subseteq BOOLEAN
    /\ local[c] \in [Names -> Nat \cup {Nothing}]

ClientTypeOK == \A c \in Clients : ClientAt(c)
=============================================================================
