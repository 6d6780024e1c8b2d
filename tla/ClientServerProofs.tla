------------------------- MODULE ClientServerProofs -------------------------
(***************************************************************************)
(* Proofs about clients and their sessions (ClientServer.tla), for any     *)
(* number of clients, users, workers, files and commands, and the failures *)
(* of the connections, of the clients' hosts and of the server's disk that *)
(* the models have.  For every client to whom the server has not announced *)
(* a length that was not the file's (misled): the two ends agree on where  *)
(* messages begin and on who is logged in, and what the client saves is as *)
(* long as a complete version of a file.                                   *)
(***************************************************************************)
EXTENDS ClientServer, SessionProofs, SequenceTheorems

-----------------------------------------------------------------------------
(* Tokens: sequences of the same token, and what is left of a sequence. *)

LEMMA RepeatProps ==
    ASSUME NEW S, NEW x \in S, NEW n \in Nat
    PROVE  /\ Repeat(x, n) \in Seq(S) /\ Len(Repeat(x, n)) = n
           /\ \A i \in 1 .. n : Repeat(x, n)[i] = x
BY DEF Repeat

LEMMA RepeatNone ==
    ASSUME NEW x
    PROVE  Repeat(x, 0) = <<>>
BY DEF Repeat

LEMMA RepeatMore ==
    ASSUME NEW x, NEW m \in Nat, NEW n \in Nat
    PROVE  Repeat(x, m) \o Repeat(x, n) = Repeat(x, m + n)
<1>1. /\ Repeat(x, m) \in Seq({x}) /\ Repeat(x, n) \in Seq({x})
      /\ Repeat(x, m + n) \in Seq({x}) /\ Len(Repeat(x, m + n)) = m + n
      /\ Len(Repeat(x, m)) = m /\ Len(Repeat(x, n)) = n
      /\ \A i \in 1 .. m + n : Repeat(x, m + n)[i] = x
      /\ \A i \in 1 .. m : Repeat(x, m)[i] = x
      /\ \A i \in 1 .. n : Repeat(x, n)[i] = x
  <2>1. x \in {x} /\ m + n \in Nat
    OBVIOUS
  <2>2. \A k \in Nat : /\ Repeat(x, k) \in Seq({x}) /\ Len(Repeat(x, k)) = k
                       /\ \A i \in 1 .. k : Repeat(x, k)[i] = x
    BY <2>1, RepeatProps
  <2> QED
    BY <2>1, <2>2
<1> DEFINE r == Repeat(x, m) \o Repeat(x, n)
<1>2. r \in Seq({x}) /\ Len(r) = m + n
  BY <1>1, ConcatProperties
<1>3. \A i \in 1 .. m + n : r[i] = x
  BY <1>2, ElementOfSeq
<1> HIDE DEF r
<1>4. r = Repeat(x, m + n)
  BY <1>1, <1>2, <1>3, SeqEqual
<1> QED
  BY <1>4 DEF r

(* What is left of a sequence of which n tokens were taken. *)
LEMMA RestProps ==
    ASSUME NEW S, NEW s \in Seq(S), NEW n \in 0 .. Len(s)
    PROVE  /\ Rest(s, n) \in Seq(S) /\ Len(Rest(s, n)) = Len(s) - n
           /\ \A i \in 1 .. Len(s) - n : Rest(s, n)[i] = s[n + i]
BY SubSeqProperties DEF Rest

LEMMA RestEnds ==
    ASSUME NEW S, NEW s \in Seq(S)
    PROVE  Rest(s, 0) = s /\ Rest(s, Len(s)) = <<>>
<1>1. Rest(s, 0) = s
  BY RestProps, SeqEqual
<1>2. Rest(s, Len(s)) = <<>>
  BY RestProps, EmptySeq
<1> QED
  BY <1>1, <1>2

LEMMA RestOfFirst ==
    ASSUME NEW S, NEW h \in S, NEW s \in Seq(S)
    PROVE  /\ <<h>> \o s \in Seq(S) /\ Len(<<h>> \o s) = 1 + Len(s)
           /\ (<<h>> \o s)[1] = h /\ Head(<<h>> \o s) = h
           /\ \A i \in 1 .. Len(s) : (<<h>> \o s)[i + 1] = s[i]
           /\ Rest(<<h>> \o s, 1) = s
<1> DEFINE r == <<h>> \o s
<1>0. <<h>> \in Seq(S) /\ Len(<<h>>) = 1 /\ <<h>>[1] = h
  OBVIOUS
<1>1. r \in Seq(S) /\ Len(r) = 1 + Len(s) /\ r[1] = h
  BY <1>0, ConcatProperties
<1>2. \A i \in 1 .. Len(s) : r[i + 1] = s[i]
  BY <1>0, ConcatProperties
<1> HIDE DEF r
<1>3. Head(r) = h
  BY <1>1
<1>4. /\ Rest(r, 1) \in Seq(S) /\ Len(Rest(r, 1)) = Len(s)
      /\ \A i \in 1 .. Len(s) : Rest(r, 1)[i] = r[1 + i]
  <2>1. 1 \in 0 .. Len(r) /\ Len(r) - 1 = Len(s)
    BY <1>1
  <2> QED
    BY <1>1, <2>1, RestProps
<1>5. Rest(r, 1) = s
  BY <1>2, <1>4, SeqEqual
<1> QED
  BY <1>1, <1>2, <1>3, <1>5 DEF r

LEMMA RestOfRepeat ==
    ASSUME NEW x, NEW n \in Nat, NEW m \in 0 .. n
    PROVE  Rest(Repeat(x, n), m) = Repeat(x, n - m)
<1>1. /\ Repeat(x, n) \in Seq({x}) /\ Len(Repeat(x, n)) = n
      /\ Repeat(x, n - m) \in Seq({x}) /\ Len(Repeat(x, n - m)) = n - m
  <2>1. x \in {x} /\ n - m \in Nat
    OBVIOUS
  <2>2. \A k \in Nat : Repeat(x, k) \in Seq({x}) /\ Len(Repeat(x, k)) = k
    BY <2>1, RepeatProps
  <2> QED
    BY <2>1, <2>2
<1>2. Rest(Repeat(x, n), m) \in Seq({x}) /\ Len(Rest(Repeat(x, n), m)) = n - m
  BY <1>1, RestProps
<1> QED
  BY <1>1, <1>2, SeqEqual, ElementOfSeq

-----------------------------------------------------------------------------
(* The connection. *)

RequestTokens == RequestHeaders \cup Names \cup {Unit}
ReplyTokens == ReplyHeaders \cup {Unit, Text}

RequestOK(h) ==
    /\ h.cmd \in FileCommands \ {"LIST"} => h.name \in Names
    /\ h.cmd = "LOGIN" => h.user \in Logins

\* Whatever the ends make of it, every header a client sent is a request,
\* and RENAME has the new name for its payload.
RequestsOK(s) ==
    /\ s \in Seq(RequestTokens)
    /\ \A i \in 1 .. Len(s) :
        IsHeader(s[i]) => /\ RequestOK(s[i])
                          /\ s[i].cmd = "RENAME" => i < Len(s) /\ s[i + 1] \in Names

LEMMA HeaderTokens ==
    /\ \A x \in RequestTokens : IsHeader(x) <=> x \in RequestHeaders
    /\ \A x \in ReplyTokens : IsHeader(x) <=> x \in ReplyHeaders
    /\ ~IsHeader(Unit) /\ ~IsHeader(Text) /\ \A n \in Names : ~IsHeader(n)
BY TokenAssumption DEF IsHeader, RequestTokens, ReplyTokens

LEMMA SameNames ==
    /\ Clients = Threads /\ Logins = Users /\ Nothing = None
    /\ Sizes = {Len(d) : d \in Payloads}
    /\ VersionSizes \subseteq Nat /\ Sizes \subseteq Nat /\ Sizes \subseteq VersionSizes
    /\ Buffer \in Nat /\ Buffer > 0
<1>1. \A d \in Versions : Len(d) \in Nat
  BY StorageAssumption DEF Versions
<1>2. VersionSizes \subseteq Nat
  BY <1>1 DEF VersionSizes
<1> QED
  BY <1>2, ClientServerAssumption, ClientAssumption DEF VersionSizes, Versions

(* What is left of the requests are requests. *)
LEMMA RequestsRest ==
    ASSUME NEW s, RequestsOK(s), NEW n \in Nat, n <= Len(s)
    PROVE  RequestsOK(Rest(s, n))
<1>1. s \in Seq(RequestTokens) /\ Len(s) \in Nat /\ n \in 0 .. Len(s)
  BY DEF RequestsOK
<1>2. /\ Rest(s, n) \in Seq(RequestTokens) /\ Len(Rest(s, n)) = Len(s) - n
      /\ \A i \in 1 .. Len(s) - n : Rest(s, n)[i] = s[n + i]
  BY <1>1, RestProps
<1> DEFINE r == Rest(s, n)
<1> HIDE DEF r
<1>3. ASSUME NEW i \in 1 .. Len(r), IsHeader(r[i])
      PROVE  /\ RequestOK(r[i])
             /\ r[i].cmd = "RENAME" => i < Len(r) /\ r[i + 1] \in Names
  <2>1. n + i \in 1 .. Len(s) /\ r[i] = s[n + i]
    BY <1>1, <1>2, <1>3 DEF r
  <2>2. RequestOK(s[n + i]) /\ (s[n + i].cmd = "RENAME" => n + i < Len(s) /\ s[n + i + 1] \in Names)
    BY <1>3, <2>1 DEF RequestsOK
  <2>3. n + i < Len(s) => i + 1 \in 1 .. Len(s) - n /\ r[i + 1] = s[n + i + 1]
    BY <1>1, <1>2, <1>3 DEF r
  <2> QED
    BY <1>1, <1>2, <2>1, <2>2, <2>3 DEF r
<1> QED
  BY <1>2, <1>3 DEF RequestsOK, r

(* Requests put together are requests. *)
LEMMA RequestsConcat ==
    ASSUME NEW s, NEW r, RequestsOK(s), RequestsOK(r)
    PROVE  RequestsOK(s \o r)
<1>1. /\ s \in Seq(RequestTokens) /\ r \in Seq(RequestTokens)
      /\ Len(s) \in Nat /\ Len(r) \in Nat
  BY DEF RequestsOK
<1> DEFINE q == s \o r
<1>2. /\ q \in Seq(RequestTokens) /\ Len(q) = Len(s) + Len(r)
      /\ \A i \in 1 .. Len(q) : q[i] = IF i <= Len(s) THEN s[i] ELSE r[i - Len(s)]
  BY <1>1, ConcatProperties
<1> HIDE DEF q
<1>3. ASSUME NEW i \in 1 .. Len(q), IsHeader(q[i])
      PROVE  /\ RequestOK(q[i])
             /\ q[i].cmd = "RENAME" => i < Len(q) /\ q[i + 1] \in Names
  <2>1. CASE i <= Len(s)
    <3>1. i \in 1 .. Len(s) /\ q[i] = s[i]
      BY <1>1, <1>2, <1>3, <2>1
    <3>2. RequestOK(s[i]) /\ (s[i].cmd = "RENAME" => i < Len(s) /\ s[i + 1] \in Names)
      BY <1>3, <3>1 DEF RequestsOK
    <3>3. ASSUME i < Len(s)
          PROVE  i < Len(q) /\ q[i + 1] = s[i + 1]
      <4>1. Len(q) \in Nat /\ Len(s) <= Len(q)
        BY <1>1, <1>2
      <4>2. i + 1 \in 1 .. Len(q) /\ i + 1 <= Len(s) /\ i < Len(q)
        BY <1>1, <3>1, <3>3, <4>1
      <4> QED
        BY <1>2, <4>2
    <3> QED
      BY <3>1, <3>2, <3>3
  <2>2. CASE i > Len(s)
    <3> DEFINE j == i - Len(s)
    <3>1. j \in 1 .. Len(r) /\ q[i] = r[j]
      BY <1>1, <1>2, <1>3, <2>2
    <3>2. RequestOK(r[j]) /\ (r[j].cmd = "RENAME" => j < Len(r) /\ r[j + 1] \in Names)
      BY <1>3, <3>1 DEF RequestsOK
    <3>3. j < Len(r) => i < Len(q) /\ q[i + 1] = r[j + 1]
      BY <1>1, <1>2, <1>3, <2>2
    <3> QED
      BY <3>1, <3>2, <3>3
  <2> QED
    BY <1>1, <1>2, <1>3, <2>1, <2>2
<1> QED
  BY <1>2, <1>3 DEF RequestsOK, q

-----------------------------------------------------------------------------
(* The server's part: to the sessions a client is one of the clients that  *)
(* Session allows.                                                         *)

(* The name in a request of a user who logged in is a file of that user's. *)
LEMMA PathKeyOfUser ==
    ASSUME SessionInv, NEW t \in Threads, LoggedIn(t), NEW n \in Names
    PROVE  PathKey(t, n) \in Keys
<1>1. session_user[t] \in Users
  BY DEF SessionInv, SessionTypeOK, LoggedIn
<1> QED
  BY <1>1, ClientServerAssumption DEF PathKey

LEMMA ServedRequest ==
    ASSUME SessionInv, NEW t \in Threads, RequestsOK(requests[t]), ServerReceives(t)
    PROVE  Request(t)
<1> DEFINE h == Head(requests[t])
<1>1. requests[t] \in Seq(RequestTokens) /\ requests[t] # <<>>
  BY DEF RequestsOK, ServerReceives, Arrived
<1>2. h = requests[t][1] /\ 1 \in 1 .. Len(requests[t]) /\ h \in RequestTokens
  BY <1>1
<1>3. IsHeader(h) /\ Served(t, h)
  BY DEF ServerReceives, Arrived
<1> HIDE DEF h
<1>4. /\ h \in RequestHeaders /\ RequestOK(h)
      /\ h.cmd = "RENAME" => requests[t][2] \in Names
  BY <1>1, <1>2, <1>3, HeaderTokens DEF RequestsOK
<1>5. h.cmd = "LOGIN" => h.user \in Users
  BY <1>4, SameNames DEF RequestOK
<1>6. LoggedIn(t) =>
        /\ h.cmd \in FileCommands \ {"LIST"} => PathKey(t, h.name) \in Keys
        /\ h.cmd = "RENAME" => PathKey(t, requests[t][2]) \in Keys
  BY <1>4, PathKeyOfUser DEF RequestOK
<1> QED
  BY <1>3, <1>5, <1>6, SMTT(30) DEF Served, Request, FileCommands

(* A step of the server's end is one of the session, or none of its. *)
LEMMA SessionOrNot ==
    ASSUME SessionInv, NEW t \in Threads, RequestsOK(requests[t]), ServerStep(t)
    PROVE  UNCHANGED allVars \/ Begin(t) \/ Request(t) \/ Progress(t)
<1>1. CASE ServerReceives(t)
  BY <1>1, ServedRequest
<1>2. CASE ServerReceiveFails(t)
  BY <1>2 DEF ServerReceiveFails, Request
<1>3. CASE ServerBegins(t) \/ ServerRefuses(t)
  BY <1>3 DEF ServerBegins, ServerRefuses
<1>4. CASE /\ ~ServerReceives(t) /\ ~ServerReceiveFails(t)
           /\ ~ServerBegins(t) /\ ~ServerRefuses(t)
  BY <1>4 DEF ServerStep, Progress, ServerWorks, ServerAnnounces, ServerReplies, ServerCloses
<1> QED
  BY <1>1, <1>2, <1>3, <1>4

(* Every step of the system is one of the sessions, or none of theirs. *)
LEMMA SystemSessions ==
    ASSUME SessionInv, \A t \in Threads : RequestsOK(requests[t]), [SystemNext]_systemVars
    PROVE  [SessionNext]_allVars
<1>1. ASSUME NEW t \in Threads, Connect(t) PROVE UNCHANGED allVars
  BY <1>1 DEF Connect
<1>2. ASSUME NEW t \in Threads, ServerStep(t) PROVE [SessionNext]_allVars
  BY <1>2, SessionOrNot DEF SessionNext
<1>3. ASSUME NEW t \in Threads, Break(t) PROVE UNCHANGED allVars
  BY <1>3 DEF Break
<1>4. CASE AllLeft \/ UNCHANGED systemVars
  BY <1>4 DEF AllLeft, systemVars
<1> QED
  BY <1>1, <1>2, <1>3, <1>4 DEF SystemNext, SessionNext

-----------------------------------------------------------------------------
(***************************************************************************)
(* The conversation of a client with its session.                          *)
(*                                                                         *)
(* It relies on the storage for one thing, AnnouncedAt: while a file is    *)
(* sent, the header announced the size of a complete version, no more than *)
(* that is sent, and all of it if the sending succeeds.  That is so as     *)
(* long as nothing has misled the client (Told): the file had the length   *)
(* announced when it was opened, and keeps it while its reader holds the   *)
(* lock.                                                                   *)
(***************************************************************************)
AnnouncedAt(t) ==
    Streaming(t) =>
      /\ owed[t] \in VersionSizes /\ Len(frame[t].sent) <= owed[t]
      /\ frame[t].ok => Len(frame[t].sent) = owed[t]

Told(t) ==
    misled[t] \/
      /\ AnnouncedAt(t)
      /\ Streaming(t) /\ pc[t] = "stream_send" =>
           File(frame[t].key) # None /\ Len(File(frame[t].key)) = owed[t]

\* The session has nothing to do for the client.
Between(t) == stage[t] \in {"loop", "recv", "end", "off"}
DoneWith(t) == Between(t) \/ (Streaming(t) /\ Len(frame[t].sent) = owed[t])

\* No request is on its way, except the excess of a file that grew while it
\* was uploaded.
Clear(t) ==
    \/ requests[t] = <<>>
    \/ changed[t] /\ (broken[t] \/ Head(requests[t]) = Unit)

\* Nobody has logged in on a connection that waits for a worker.
Agreed(t) ==
    \/ changed[t]
    \/ IF InSession(t) THEN username_[t] = session_user[t]
                       ELSE "server" \in closed[t] \/ username_[t] = Nothing

\* The request of the client's command is on its way.
InFlight(t, h, p) ==
    /\ requests[t] = <<h>> \o p
    /\ RequestOK(h) /\ h.cmd = job[t].cmd /\ h.len = job[t].size
    /\ h.cmd = "LOGIN" => h.user = username_[t]
    /\ IF h.cmd = "UPLOAD" THEN p = Repeat(Unit, job[t].pos) ELSE Len(p) = h.len

Asked(t) ==
    /\ DoneWith(t)
    /\ \/ \E h \in RequestHeaders, p \in Seq(RequestTokens) : InFlight(t, h, p)
       \/ changed[t] /\ requests[t] # <<>> /\ Head(requests[t]) = Unit
    /\ job[t].cmd = "LOGIN" \/ Agreed(t)

\* The session works on it.
TakesUpload(t) ==
    /\ stage[t] = "call" /\ frame[t].op \in {"save", "discard"}
    /\ job[t].cmd = "UPLOAD"
    /\ Len(frame[t].data) = job[t].size
    /\ frame[t].pos <= job[t].pos
    /\ requests[t] = Repeat(Unit, job[t].pos - frame[t].pos)

Calls(t) ==
    /\ stage[t] = "call" /\ frame[t].op \in {"list", "delete", "rename", "size"}
    /\ frame[t].op = "size" <=> job[t].cmd = "DOWNLOAD"
    /\ job[t].cmd # "UPLOAD" /\ Clear(t)

\* A session that answers an upload has taken all of it.
AllSent(t) == cstate[t] = "upload" /\ ~changed[t] => job[t].pos = job[t].size

Replying(t) ==
    /\ stage[t] = "reply" /\ Clear(t) /\ AllSent(t)
    /\ job[t].cmd = "DOWNLOAD" => status[t] # "OK"

Working(t) ==
    cmd[t] = job[t].cmd /\ Agreed(t) /\ (Replying(t) \/ Calls(t) \/ TakesUpload(t))

\* The response has been sent.
Answered(t) ==
    /\ \E h \in ReplyHeaders : /\ replies[t] = <<h, Text>> /\ h.len = 1
                               /\ cstate[t] = "header" => h.status # "OK"
    /\ AllSent(t)
    /\ broken[t] \/ Between(t)
    /\ Clear(t) /\ Agreed(t)

\* Of the n units of a file, m have been sent.
Feeds(t, m, n) ==
    /\ m <= n /\ n \in VersionSizes
    /\ \/ broken[t]
       \/ Streaming(t) /\ owed[t] = n /\ Len(frame[t].sent) = m
       \/ Between(t) /\ (m = n \/ stage[t] = "end" \/ "server" \in closed[t])
    /\ Clear(t) /\ Agreed(t)

Announced(t) ==
    /\ cstate[t] = "header"
    /\ \E h \in ReplyHeaders, m \in Nat :
        /\ h.status = "OK" /\ replies[t] = <<h>> \o Repeat(Unit, m)
        /\ Feeds(t, m, h.len)

\* A client at its prompt, one that waits for a response, and one that
\* reads an error or a file.
Idle(t) ==
    replies[t] = <<>> /\ Clear(t) /\ Agreed(t) /\ (broken[t] \/ DoneWith(t))

Waiting(t) ==
    \/ replies[t] = <<>> /\ (broken[t] \/ Asked(t) \/ Working(t))
    \/ Answered(t)
    \/ Announced(t)

ReadsError(t) ==
    /\ job[t].size = 1 /\ replies[t] = <<Text>> /\ Clear(t) /\ Agreed(t)
    /\ broken[t] \/ Between(t)

ReadsFile(t) ==
    \E m \in Nat : replies[t] = Repeat(Unit, m) /\ Feeds(t, job[t].pos + m, job[t].size)

\* A client that left with its connection intact had been answered.
Left(t) ==
    broken[t] \/ "server" \in closed[t] \/ (Clear(t) /\ (Between(t) \/ Streaming(t)))

Conversation(t) ==
    /\ cstate[t] = "off" => Left(t)
    /\ cstate[t] = "prompt" => Idle(t)
    /\ cstate[t] \in {"await", "upload", "header"} => Waiting(t)
    /\ cstate[t] = "error" => ReadsError(t)
    /\ cstate[t] \in {"create", "save", "drain"} => ReadsFile(t)

\* The command a client is executing.
JobOK(t) ==
    /\ cstate[t] = "upload" => job[t].cmd = "UPLOAD"
    /\ cstate[t] = "await" => job[t].cmd # "DOWNLOAD"
    /\ cstate[t] \in {"header", "error", "create", "save", "drain"} =>
         job[t].cmd = "DOWNLOAD" /\ job[t].name \in Names
    /\ cstate[t] \in {"header", "error", "create"} => job[t].pos = 0
    /\ job[t] # Nothing /\ ~changed[t] /\ job[t].cmd = "UPLOAD" => job[t].real = job[t].size

\* Who has closed the connection, and why recv of the server failed.
Ends(t) ==
    /\ cstate[t] = "off" <=> "client" \in closed[t]
    /\ "server" \in closed[t] => stage[t] = "off"
    /\ gone[t] /\ InSession(t) => broken[t] \/ cstate[t] = "off"

TokensOK(t) == RequestsOK(requests[t]) /\ replies[t] \in Seq(ReplyTokens)

\* What holds of every client, and what holds of one that was not misled.
Sound(t) == ClientAt(t) /\ TokensOK(t) /\ JobOK(t) /\ Ends(t)
Own(t) == Sound(t) /\ Conversation(t)

\* The per-client variables are functions on the clients.
PerClient ==
    /\ DOMAIN cstate = Threads /\ DOMAIN username_ = Threads /\ DOMAIN job = Threads
    /\ DOMAIN requests = Threads /\ DOMAIN replies = Threads /\ DOMAIN closed = Threads
    /\ DOMAIN broken = Threads /\ DOMAIN changed = Threads /\ DOMAIN local = Threads

Kept(t) == Sound(t) /\ Told(t) /\ (misled[t] \/ Own(t))

SystemInv ==
    /\ SessionInv /\ DiskInv /\ TransferInv
    /\ PerClient /\ misled \in [Threads -> BOOLEAN]
    /\ \A t \in Threads : Kept(t)

\* A step that leaves what a client sees of its session alone, one that
\* leaves the client alone, and one that leaves the connection alone, too.
SameSession(t) ==
    /\ stage'[t] = stage[t] /\ owed'[t] = owed[t]
    /\ frame'[t].op = frame[t].op /\ frame'[t].data = frame[t].data
    /\ frame'[t].pos = frame[t].pos /\ frame'[t].sent = frame[t].sent
    /\ session_user'[t] = session_user[t] /\ cmd'[t] = cmd[t] /\ status'[t] = status[t]
    /\ gone'[t] => gone[t] \/ broken[t] \/ cstate[t] = "off"

SameLocal(t) ==
    /\ cstate'[t] = cstate[t] /\ username_'[t] = username_[t] /\ job'[t] = job[t]
    /\ changed'[t] = changed[t] /\ local'[t] = local[t]

SameClient(t) ==
    /\ SameLocal(t)
    /\ requests'[t] = requests[t] /\ replies'[t] = replies[t]
    /\ closed'[t] = closed[t] /\ broken'[t] = broken[t]

LEMMA SameSound ==
    ASSUME NEW t, SameSession(t), SameClient(t), Sound(t)
    PROVE  Sound(t)'
BY DEF SameSession, SameClient, SameLocal, Sound, ClientAt, TokensOK, RequestsOK, JobOK, Ends,
   InSession

LEMMA SameOwn ==
    ASSUME NEW t, SameSession(t), SameClient(t), Own(t)
    PROVE  Own(t)'
<1>1. Sound(t)'
  BY SameSound DEF Own
<1> USE DEF SameSession, SameClient, SameLocal
<1>2. /\ Between(t)' = Between(t) /\ Streaming(t)' = Streaming(t) /\ Clear(t)' = Clear(t)
      /\ Agreed(t)' = Agreed(t) /\ DoneWith(t)' = DoneWith(t) /\ AllSent(t)' = AllSent(t)
  BY DEF Agreed, Clear, DoneWith, Between, Streaming, InSession, AllSent
<1>3. /\ Asked(t)' = Asked(t) /\ Working(t)' = Working(t) /\ Answered(t)' = Answered(t)
  BY <1>2 DEF Asked, InFlight, Working, Replying, Calls, TakesUpload, Answered
<1>4. Announced(t)' = Announced(t)
  BY <1>2 DEF Announced, Feeds
<1>5. ReadsFile(t)' = ReadsFile(t)
  BY <1>2 DEF ReadsFile, Feeds
<1>6. Conversation(t)'
  BY <1>2, <1>3, <1>4, <1>5 DEF Own, Conversation, Left, Idle, Waiting, ReadsError
<1> QED
  BY <1>1, <1>6 DEF Own

LEMMA StillSession ==
    ASSUME UNCHANGED allVars
    PROVE  \A t : SameSession(t)
BY DEF allVars, sessionVars, vars, storeVars, SameSession

-----------------------------------------------------------------------------
(* The steps of a client. *)

(* A client that leaves has a server that ended the session, a broken      *)
(* connection, or nothing more to say.                                     *)
LEMMA LeavesSound ==
    ASSUME PerClient, NEW t \in Threads, Sound(t), SameSession(t), disconnect(t),
           requests'[t] = requests[t], changed'[t] = changed[t],
           replies'[t] \in Seq(ReplyTokens), local'[t] \in [Names -> Nat \cup {Nothing}]
    PROVE  Sound(t)'
<1>1. /\ cstate'[t] = "off" /\ username_'[t] = Nothing /\ job'[t] = Nothing
      /\ closed'[t] = closed[t] \cup {"client"}
      /\ broken'[t] = (broken[t] \/ replies'[t] # <<>>)
  BY DEF disconnect, Close, Go, PerClient
<1>2. ClientAt(t)' /\ TokensOK(t)' /\ JobOK(t)'
  BY <1>1 DEF Sound, ClientAt, TokensOK, RequestsOK, JobOK
<1>3. Ends(t)'
  BY <1>1 DEF Sound, Ends, SameSession, InSession
<1> QED
  BY <1>2, <1>3 DEF Sound

LEMMA Leaves ==
    ASSUME PerClient, NEW t \in Threads, Own(t), SameSession(t), disconnect(t),
           requests'[t] = requests[t], changed'[t] = changed[t],
           replies'[t] \in Seq(ReplyTokens), local'[t] \in [Names -> Nat \cup {Nothing}],
           Left(t) \/ replies'[t] # <<>>
    PROVE  Own(t)'
<1>1. /\ cstate'[t] = "off" /\ username_'[t] = Nothing /\ job'[t] = Nothing
      /\ closed'[t] = closed[t] \cup {"client"}
      /\ broken'[t] = (broken[t] \/ replies'[t] # <<>>)
  BY DEF disconnect, Close, Go, PerClient
<1>2. Sound(t)'
  BY LeavesSound DEF Own
<1>3. Left(t)'
  BY <1>1 DEF Left, Clear, Between, Streaming, SameSession
<1> QED
  BY <1>1, <1>2, <1>3 DEF Own, Conversation

(* A connection on which sending or receiving fails can be left. *)
LEMMA FailsLeft ==
    ASSUME NEW t \in Threads, Own(t), NEW n, SendMayFail(t) \/ RecvMayFail(t, n)
    PROVE  Left(t)
BY DEF SendMayFail, RecvMayFail, Own, Sound, Ends, Left

\* A command and the message upload_file, download_file or send_command send.
CommandOK(j, user, payload, next) ==
    /\ j \in Jobs /\ j.pos = 0 /\ user \in Logins \cup {Nothing}
    /\ next \in {"await", "upload", "header"}
    /\ next = "upload" <=> j.cmd = "UPLOAD"
    /\ next = "header" <=> j.cmd = "DOWNLOAD"
    /\ j.cmd \in FileCommands \ {"LIST"} => j.name \in Names
    /\ j.cmd = "LOGIN" => user \in Logins
    /\ payload = IF j.cmd = "RENAME" THEN <<payload[1]>> ELSE <<>>
    /\ j.cmd = "RENAME" => payload[1] \in Names
    /\ j.cmd # "UPLOAD" => j.size = Len(payload)

LEMMA CommandMessage ==
    ASSUME NEW j, NEW user, NEW payload, NEW next, CommandOK(j, user, payload, next)
    PROVE  /\ payload \in Seq(RequestTokens)
           /\ Header(j.cmd, user, j.name, j.size) \in RequestHeaders
           /\ RequestOK(Header(j.cmd, user, j.name, j.size))
           /\ RequestsOK(<<Header(j.cmd, user, j.name, j.size)>> \o payload)
<1> DEFINE h == Header(j.cmd, user, j.name, j.size)
<1>1. h \in RequestHeaders /\ RequestOK(h) /\ h.cmd = j.cmd
  BY DEF CommandOK, Jobs, RequestHeaders, Header, RequestOK
<1> HIDE DEF h
<1>2. h \in RequestTokens /\ payload \in Seq(RequestTokens)
  <2>1. \A x \in RequestTokens : <<x>> \in Seq(RequestTokens)
    OBVIOUS
  <2>2. <<>> \in Seq(RequestTokens)
    OBVIOUS
  <2>3. h \in RequestTokens /\ Names \subseteq RequestTokens
    BY <1>1 DEF RequestTokens
  <2> QED
    BY <2>1, <2>2, <2>3, Zenon DEF CommandOK
<1> DEFINE s == <<h>> \o payload
<1>3. /\ s \in Seq(RequestTokens) /\ Len(s) = 1 + Len(payload) /\ s[1] = h
      /\ \A i \in 1 .. Len(payload) : s[i + 1] = payload[i]
  BY <1>2, RestOfFirst
<1>4. j.cmd = "RENAME" => Len(payload) = 1 /\ payload[1] \in Names
  BY DEF CommandOK
<1>5. j.cmd # "RENAME" => Len(payload) = 0
  BY DEF CommandOK
<1> HIDE DEF s
<1>6. ASSUME NEW i \in 1 .. Len(s), IsHeader(s[i])
      PROVE  RequestOK(s[i]) /\ (s[i].cmd = "RENAME" => i < Len(s) /\ s[i + 1] \in Names)
  <2>1. i = 1 \/ (i = 2 /\ s[i] = payload[1] /\ payload[1] \in Names)
    BY <1>2, <1>3, <1>4, <1>5, <1>6
  <2>2. i = 1
    BY <1>6, <2>1, HeaderTokens
  <2> QED
    BY <1>1, <1>2, <1>3, <1>4, <2>2
<1>7. RequestsOK(s)
  BY <1>3, <1>6 DEF RequestsOK
<1> QED
  BY <1>1, <1>2, <1>7 DEF s, h

LEMMA CommandSound ==
    ASSUME PerClient, NEW t \in Threads, Sound(t), SameSession(t),
           NEW j, NEW user, NEW payload, NEW next, CommandOK(j, user, payload, next),
           Command(t, j, user, payload, next)
    PROVE  Sound(t)'
<1> DEFINE m == <<Header(j.cmd, user, j.name, j.size)>> \o payload
<1>1. CASE SendMayFail(t) /\ disconnect(t) /\ UNCHANGED <<requests, changed, replies, local>>
  BY <1>1, LeavesSound DEF Sound, TokensOK, ClientAt
<1>2. CASE /\ Send(t, m)
           /\ job' = [job EXCEPT ![t] = j]
           /\ username_' = [username_ EXCEPT ![t] = IF j.cmd = "LOGIN" THEN user ELSE @]
           /\ changed' = [changed EXCEPT ![t] = @ \/ j.real # j.size]
           /\ Go(t, next)
           /\ UNCHANGED <<closed, broken, replies, local>>
  <2>1. /\ requests'[t] = requests[t] \o Delivered(t, m) /\ job'[t] = j
        /\ username_'[t] = IF j.cmd = "LOGIN" THEN user ELSE username_[t]
        /\ changed'[t] = (changed[t] \/ j.real # j.size)
        /\ cstate'[t] = next /\ closed'[t] = closed[t] /\ broken'[t] = broken[t]
        /\ replies'[t] = replies[t] /\ local'[t] = local[t] /\ cstate[t] = "prompt"
    BY <1>2 DEF Command, At, Send, Go, PerClient
  <2>2. requests[t] \in Seq(RequestTokens) /\ RequestsOK(requests[t]) /\ RequestsOK(m)
    BY CommandMessage DEF Sound, TokensOK, RequestsOK
  <2> HIDE DEF m
  <2>3. RequestsOK(requests[t] \o Delivered(t, m))
    BY <2>2, RequestsConcat, ConcatEmptySeq DEF Delivered
  <2>4. TokensOK(t)'
    BY <2>1, <2>3 DEF Sound, TokensOK
  <2>5. j \in Jobs /\ j # Nothing /\ j.pos = 0 /\ j.real \in Nat /\ j.size \in Nat
    BY TokenAssumption DEF CommandOK, Jobs
  <2>6. ClientAt(t)'
    BY <2>1, <2>5 DEF Sound, ClientAt, CommandOK
  <2>7. JobOK(t)' /\ Ends(t)'
    BY <2>1, <2>5 DEF Sound, JobOK, Ends, CommandOK, FileCommands, SameSession, InSession
  <2> QED
    BY <2>4, <2>6, <2>7 DEF Sound
<1> QED
  BY <1>1, <1>2 DEF Command

(* A client that enters a command sends it at a message boundary. *)
LEMMA CommandOwn ==
    ASSUME PerClient, NEW t \in Threads, Own(t), SameSession(t),
           NEW j, NEW user, NEW payload, NEW next, CommandOK(j, user, payload, next),
           Command(t, j, user, payload, next)
    PROVE  Own(t)'
<1> DEFINE h == Header(j.cmd, user, j.name, j.size)
           m == <<h>> \o payload
<1>1. /\ payload \in Seq(RequestTokens) /\ h \in RequestHeaders /\ RequestOK(h)
      /\ RequestsOK(m) /\ h.cmd = j.cmd /\ h.len = j.size /\ h.user = user
  BY CommandMessage DEF Header
<1>i. cstate[t] = "prompt" /\ Idle(t)
  BY DEF Command, At, Own, Conversation
<1>2. CASE SendMayFail(t) /\ disconnect(t) /\ UNCHANGED <<requests, changed, replies, local>>
  BY <1>2, Leaves, FailsLeft DEF Own, Sound, TokensOK, ClientAt
<1>3. CASE /\ Send(t, m)
           /\ job' = [job EXCEPT ![t] = j]
           /\ username_' = [username_ EXCEPT ![t] = IF j.cmd = "LOGIN" THEN user ELSE @]
           /\ changed' = [changed EXCEPT ![t] = @ \/ j.real # j.size]
           /\ Go(t, next)
           /\ UNCHANGED <<closed, broken, replies, local>>
  <2> HIDE DEF h
  <2>1. /\ requests'[t] = requests[t] \o Delivered(t, m) /\ job'[t] = j
        /\ username_'[t] = IF j.cmd = "LOGIN" THEN user ELSE username_[t]
        /\ changed'[t] = (changed[t] \/ j.real # j.size)
        /\ cstate'[t] = next /\ closed'[t] = closed[t] /\ broken'[t] = broken[t]
        /\ replies'[t] = replies[t] /\ local'[t] = local[t]
    BY <1>3 DEF Send, Go, PerClient
  <2>2. /\ requests[t] \in Seq(RequestTokens) /\ m \in Seq(RequestTokens)
        /\ RequestsOK(requests[t])
    BY <1>1 DEF Own, Sound, TokensOK, RequestsOK
  <2>3. Len(m) > 0
    BY <1>1, RestOfFirst DEF RequestTokens
  <2> HIDE DEF m
  <2>5. Sound(t)'
    BY CommandSound DEF Own
  <2>6. j \in Jobs /\ j # Nothing /\ j.pos = 0 /\ j.real \in Nat /\ j.size \in Nat
    BY TokenAssumption DEF CommandOK, Jobs
  <2>9. Waiting(t)'
    <3>1. CASE broken[t]
      BY <1>i, <2>1, <3>1 DEF Idle, Waiting
    <3>2. CASE ~broken[t]
      <4>1. DoneWith(t)'
        BY <1>i, <3>2 DEF Idle, DoneWith, Between, Streaming, SameSession
      <4>2. j.cmd = "LOGIN" \/ Agreed(t)'
        BY <1>i, <2>1 DEF Idle, Agreed, InSession, SameSession
      <4>3. CASE requests[t] = <<>>
        <5>1. requests'[t] = <<h>> \o payload
          BY <2>1, <2>2, <3>2, <4>3, ConcatEmptySeq DEF Delivered, m
        <5>2. InFlight(t, h, payload)'
          <6>1. IF h.cmd = "UPLOAD" THEN payload = Repeat(Unit, j.pos) ELSE Len(payload) = h.len
            BY <1>1, <2>6, RepeatNone DEF CommandOK
          <6> QED
            BY <1>1, <2>1, <5>1, <6>1 DEF InFlight
        <5> QED
          BY <1>i, <1>1, <2>1, <4>1, <4>2, <5>2 DEF Idle, Waiting, Asked
      <4>4. CASE requests[t] # <<>>
        <5>1. changed[t] /\ Head(requests[t]) = Unit
          BY <1>i, <3>2, <4>4 DEF Idle, Clear
        <5>2. requests'[t] # <<>> /\ Head(requests'[t]) = Head(requests[t])
          BY <2>1, <2>2, <3>2, <4>4 DEF Delivered
        <5> QED
          BY <1>i, <2>1, <4>1, <4>2, <5>1, <5>2 DEF Idle, Waiting, Asked
      <4> QED
        BY <4>3, <4>4
    <3> QED
      BY <3>1, <3>2
  <2> QED
    BY <2>1, <2>5, <2>9 DEF Own, Conversation, CommandOK
<1> QED
  BY <1>2, <1>3 DEF Command

\* What the invariant of the sessions says of the frame of a call.
WorksOn(t) == stage[t] = "call" => FrameOK(frame[t]) /\ frame[t].pos \in Nat

LEMMA CallFrame ==
    ASSUME SessionInv, NEW t \in Threads
    PROVE  WorksOn(t)
<1>1. stage[t] = "call" => pc[t] # "idle"
  BY DEF SessionInv, WorkerOK
<1>2. pc[t] # "idle" => FrameOK(frame[t])
  BY InOperation DEF SessionInv, StorageInv
<1> QED
  BY <1>1, <1>2 DEF WorksOn, FrameOK

(* Every command of the user's is one that is sent so. *)
LEMMA ProcessCommand ==
    ASSUME NEW t \in Threads, Sound(t), process_command(t)
    PROVE  \E j, user, payload, next :
              CommandOK(j, user, payload, next) /\ Command(t, j, user, payload, next)
<1> DEFINE Goal == \E j, user, payload, next :
              CommandOK(j, user, payload, next) /\ Command(t, j, user, payload, next)
<1>g. ASSUME NEW j, NEW user, NEW payload, NEW next, CommandOK(j, user, payload, next),
             Command(t, j, user, payload, next)
      PROVE  Goal
  BY <1>g
<1>u. username_[t] \in Logins \cup {Nothing}
  BY DEF Sound, ClientAt
<1>s. Sizes \subseteq Nat
  BY SameNames
<1>e. Len(<<>>) = 0
  OBVIOUS
<1> HIDE DEF Goal
<1> USE DEF CommandOK, Job, Jobs, Commands, FileCommands
<1>1. ASSUME NEW u \in Logins, login(t, u) PROVE Goal
  <2>1. CommandOK(Job("LOGIN", Nothing, Len(<<>>), Len(<<>>)), u, <<>>, "await")
    BY <1>e
  <2> QED
    BY <1>1, <1>g, <2>1 DEF login, send_command
<1>2. ASSUME SendList(t) PROVE Goal
  <2>1. CommandOK(Job("LIST", Nothing, Len(<<>>), Len(<<>>)), username_[t], <<>>, "await")
    BY <1>e, <1>u
  <2> QED
    BY <1>2, <1>g, <2>1 DEF SendList, send_command
<1>3. ASSUME quit(t) PROVE Goal
  <2>1. CommandOK(Job("QUIT", Nothing, Len(<<>>), Len(<<>>)), Nothing, <<>>, "await")
    BY <1>e
  <2> QED
    BY <1>3, <1>g, <2>1 DEF quit, send_command
<1>4. ASSUME NEW n \in Names, upload_file(t, n) PROVE Goal
  <2>1. PICK size \in Sizes, real \in Sizes :
            Command(t, Job("UPLOAD", n, size, real), username_[t], <<>>, "upload")
    BY <1>4 DEF upload_file
  <2>2. CommandOK(Job("UPLOAD", n, size, real), username_[t], <<>>, "upload")
    BY <1>u, <1>s
  <2> QED
    BY <1>g, <2>1, <2>2
<1>5. ASSUME NEW n \in Names, download_file(t, n) PROVE Goal
  <2>1. CommandOK(Job("DOWNLOAD", n, 0, 0), username_[t], <<>>, "header")
    BY <1>e, <1>u
  <2> QED
    BY <1>5, <1>g, <2>1 DEF download_file
<1>6. ASSUME NEW n \in Names, SendDelete(t, n) PROVE Goal
  <2>1. CommandOK(Job("DELETE_F", n, Len(<<>>), Len(<<>>)), username_[t], <<>>, "await")
    BY <1>e, <1>u
  <2> QED
    BY <1>6, <1>g, <2>1 DEF SendDelete, send_command
<1>7. ASSUME NEW n \in Names, NEW m \in Names, SendRename(t, n, m) PROVE Goal
  <2>0. Len(<<m>>) = 1 /\ <<m>>[1] = m
    OBVIOUS
  <2>1. CommandOK(Job("RENAME", n, Len(<<m>>), Len(<<m>>)), username_[t], <<m>>, "await")
    BY <2>0, <1>u
  <2> QED
    BY <1>7, <1>g, <2>1 DEF SendRename, send_command
<1>8. Goal
  BY <1>1, <1>2, <1>3, <1>4, <1>5, <1>6, <1>7 DEF process_command
<1> QED
  BY <1>8 DEF Goal

LEMMA ProcessSound ==
    ASSUME PerClient, NEW t \in Threads, Sound(t), SameSession(t), process_command(t)
    PROVE  Sound(t)'
BY ProcessCommand, CommandSound

LEMMA ProcessOwn ==
    ASSUME PerClient, NEW t \in Threads, Own(t), SameSession(t), process_command(t)
    PROVE  Own(t)'
<1>1. Sound(t)
  BY DEF Own
<1> QED
  BY <1>1, ProcessCommand, CommandOwn

LEMMA EndOfInputSound ==
    ASSUME PerClient, NEW t \in Threads, Sound(t), SameSession(t), EndOfInput(t)
    PROVE  Sound(t)'
BY LeavesSound DEF EndOfInput, Sound, TokensOK, ClientAt

LEMMA EndOfInputOwn ==
    ASSUME PerClient, NEW t \in Threads, Own(t), SameSession(t), EndOfInput(t)
    PROVE  Own(t)'
<1>1. Left(t)
  BY DEF EndOfInput, At, Own, Conversation, Idle, Left, DoneWith
<1> QED
  BY <1>1, Leaves DEF EndOfInput, Own, Sound, TokensOK, ClientAt

LEMMA ResponseFailsSound ==
    ASSUME PerClient, NEW t \in Threads, Sound(t), SameSession(t), ResponseFails(t)
    PROVE  Sound(t)'
BY LeavesSound DEF ResponseFails, Sound, TokensOK, ClientAt

LEMMA ResponseFailsOwn ==
    ASSUME PerClient, NEW t \in Threads, Own(t), SameSession(t), ResponseFails(t)
    PROVE  Own(t)'
<1>1. Left(t)
  BY FailsLeft DEF ResponseFails
<1> QED
  BY <1>1, Leaves DEF ResponseFails, Own, Sound, TokensOK, ClientAt

(* Advancing a transfer, and setting the length it was announced with. *)
LEMMA JobFields ==
    ASSUME NEW j \in Jobs, NEW n \in Nat
    PROVE  /\ j # Nothing
           /\ [j EXCEPT !.pos = @ + n] \in Jobs /\ [j EXCEPT !.pos = @ + n].pos = j.pos + n
           /\ [j EXCEPT !.pos = @ + n].cmd = j.cmd /\ [j EXCEPT !.pos = @ + n].size = j.size
           /\ [j EXCEPT !.pos = @ + n].real = j.real /\ [j EXCEPT !.pos = @ + n].name = j.name
           /\ [j EXCEPT !.size = n] \in Jobs /\ [j EXCEPT !.size = n].pos = j.pos
           /\ [j EXCEPT !.size = n].cmd = j.cmd /\ [j EXCEPT !.size = n].size = n
           /\ [j EXCEPT !.size = n].name = j.name
<1>1. j # Nothing
  BY TokenAssumption
<1>2. PICK c \in Commands, f \in Names \cup {Nothing}, s \in Nat, r \in Nat, p \in Nat :
          j = [cmd |-> c, name |-> f, size |-> s, real |-> r, pos |-> p]
  BY DEF Jobs
<1>3. /\ [j EXCEPT !.pos = @ + n] = [cmd |-> c, name |-> f, size |-> s, real |-> r, pos |-> p + n]
      /\ [j EXCEPT !.size = n] = [cmd |-> c, name |-> f, size |-> n, real |-> r, pos |-> p]
  BY <1>2
<1> QED
  BY <1>1, <1>2, <1>3 DEF Jobs

\* The next n units of a file are sent.
SendsPart(t, n) ==
    /\ cstate'[t] = "upload" /\ username_'[t] = username_[t]
    /\ requests'[t] = requests[t] \o Delivered(t, Repeat(Unit, n))
    /\ replies'[t] = replies[t] /\ closed'[t] = closed[t]
    /\ broken'[t] = broken[t] /\ changed'[t] = changed[t] /\ local'[t] = local[t]
    /\ job'[t] \in Jobs /\ job'[t].pos = job[t].pos + n /\ job'[t].cmd = "UPLOAD"
    /\ job'[t].size = job[t].size /\ job'[t].real = job[t].real /\ job'[t] # Nothing

LEMMA UploadJob ==
    ASSUME NEW t \in Threads, Sound(t), UploadPart(t) \/ Uploaded(t)
    PROVE  /\ cstate[t] = "upload" /\ job[t] \in Jobs /\ job[t].cmd = "UPLOAD"
           /\ job[t].pos \in Nat /\ job[t].real \in Nat /\ job[t].size \in Nat
           /\ job[t].pos <= job[t].real /\ Buffer \in Nat /\ Buffer > 0
BY SameNames DEF UploadPart, Uploaded, At, Sound, ClientAt, JobOK, Jobs

LEMMA UploadSends ==
    ASSUME PerClient, NEW t \in Threads, Sound(t), UploadPart(t), ~disconnect(t)
    PROVE  \E n \in Nat : n > 0 /\ job[t].pos + n <= job[t].real /\ SendsPart(t, n)
<1>j. /\ cstate[t] = "upload" /\ job[t] \in Jobs /\ job[t].cmd = "UPLOAD"
      /\ job[t].pos \in Nat /\ job[t].real \in Nat /\ job[t].size \in Nat
      /\ job[t].pos <= job[t].real /\ Buffer \in Nat /\ Buffer > 0
  BY UploadJob
<1>1. PICK n \in Nat : n = BytesRead(t) /\ n > 0 /\ job[t].pos + n <= job[t].real
  BY <1>j DEF UploadPart, BytesRead, Smaller
<1>2. /\ cstate'[t] = "upload" /\ username_'[t] = username_[t]
      /\ requests'[t] = requests[t] \o Delivered(t, Repeat(Unit, n))
      /\ replies'[t] = replies[t] /\ closed'[t] = closed[t]
      /\ broken'[t] = broken[t] /\ changed'[t] = changed[t] /\ local'[t] = local[t]
      /\ job'[t] = [job[t] EXCEPT !.pos = @ + n]
  BY <1>j, <1>1 DEF UploadPart, Send, Advance, PerClient
<1> DEFINE jj == [job[t] EXCEPT !.pos = @ + n]
<1>3. /\ jj \in Jobs /\ jj.pos = job[t].pos + n /\ jj.cmd = job[t].cmd
      /\ jj.size = job[t].size /\ jj.real = job[t].real
  BY <1>j, JobFields
<1>4. jj # Nothing
  BY <1>3, JobFields
<1>5. job'[t] = jj
  BY <1>2
<1> HIDE DEF jj
<1>6. SendsPart(t, n)
  BY <1>j, <1>2, <1>3, <1>4, <1>5 DEF SendsPart
<1> QED
  BY <1>1, <1>6

LEMMA UploadSound ==
    ASSUME PerClient, NEW t \in Threads, Sound(t), SameSession(t),
           UploadPart(t) \/ Uploaded(t)
    PROVE  Sound(t)'
<1>j. /\ cstate[t] = "upload" /\ job[t] \in Jobs /\ job[t].cmd = "UPLOAD"
      /\ job[t].pos \in Nat /\ job[t].real \in Nat /\ job[t].size \in Nat
      /\ job[t].pos <= job[t].real
  BY UploadJob
<1>1. CASE Uploaded(t)
  <2>1. /\ cstate'[t] = "await" /\ username_'[t] = username_[t] /\ job'[t] = job[t]
        /\ requests'[t] = requests[t] /\ replies'[t] = replies[t] /\ closed'[t] = closed[t]
        /\ broken'[t] = broken[t] /\ changed'[t] = changed[t] /\ local'[t] = local[t]
    BY <1>1 DEF Uploaded, Go, netVars, PerClient
  <2> QED
    BY <1>j, <2>1 DEF Sound, ClientAt, TokensOK, RequestsOK, JobOK, Ends, SameSession,
       InSession
<1>2. CASE UploadPart(t) /\ disconnect(t)
  <2>1. requests'[t] = requests[t] /\ replies' = replies /\ local' = local /\ changed' = changed
    <3>1. cstate'[t] = "off"
      BY <1>2 DEF disconnect, Go, PerClient
    <3> QED
      BY <1>j, <1>2, <3>1 DEF UploadPart
  <2> QED
    BY <1>2, <2>1, LeavesSound DEF Sound, TokensOK, ClientAt
<1>3. CASE UploadPart(t) /\ ~disconnect(t)
  <2>1. PICK n \in Nat : n > 0 /\ job[t].pos + n <= job[t].real /\ SendsPart(t, n)
    BY <1>3, UploadSends
  <2> DEFINE u == Repeat(Unit, n)
  <2>2. u \in Seq(RequestTokens) /\ Len(u) = n /\ \A i \in 1 .. n : u[i] = Unit
    BY RepeatProps DEF RequestTokens
  <2>3. RequestsOK(u)
    BY <2>2, HeaderTokens DEF RequestsOK
  <2>4. requests'[t] = requests[t] \o Delivered(t, u)
    BY <2>1 DEF SendsPart
  <2> HIDE DEF u
  <2>5. RequestsOK(requests[t]) /\ requests[t] \in Seq(RequestTokens)
    BY DEF Sound, TokensOK, RequestsOK
  <2>6. requests[t] \o <<>> = requests[t] /\ RequestsOK(requests[t] \o u)
    BY <2>3, <2>5, RequestsConcat, ConcatEmptySeq
  <2>7. RequestsOK(requests'[t])
    BY <2>4, <2>5, <2>6, Zenon DEF Delivered
  <2>8. TokensOK(t)'
    BY <2>1, <2>7 DEF Sound, TokensOK, SendsPart
  <2>9. ClientAt(t)' /\ JobOK(t)' /\ Ends(t)'
    BY <1>j, <2>1 DEF Sound, ClientAt, JobOK, Ends, SameSession, InSession, SendsPart
  <2> QED
    BY <2>8, <2>9 DEF Sound
<1> QED
  BY <1>1, <1>2, <1>3

(* The parts of a file follow its header. *)
LEMMA UploadOwn ==
    ASSUME PerClient, NEW t \in Threads, Own(t), SameSession(t),
           WorksOn(t), UploadPart(t) \/ Uploaded(t)
    PROVE  Own(t)'
<1>s. Sound(t) /\ Sound(t)'
  BY UploadSound DEF Own
<1>j. /\ cstate[t] = "upload" /\ job[t] \in Jobs /\ job[t].cmd = "UPLOAD" /\ Waiting(t)
      /\ job[t].pos \in Nat /\ job[t].real \in Nat /\ job[t].size \in Nat
      /\ job[t].pos <= job[t].real /\ Buffer \in Nat /\ Buffer > 0
  BY <1>s, UploadJob DEF Own, Conversation
<1>1. CASE Uploaded(t)
  <2>1. /\ cstate'[t] = "await" /\ username_'[t] = username_[t] /\ job'[t] = job[t]
        /\ requests'[t] = requests[t] /\ replies'[t] = replies[t] /\ closed'[t] = closed[t]
        /\ broken'[t] = broken[t] /\ changed'[t] = changed[t] /\ local'[t] = local[t]
    BY <1>1 DEF Uploaded, Go, netVars, PerClient
  <2>3. /\ Between(t)' = Between(t) /\ Streaming(t)' = Streaming(t) /\ Clear(t)' = Clear(t)
        /\ Agreed(t)' = Agreed(t) /\ DoneWith(t)' = DoneWith(t) /\ AllSent(t)'
    BY <2>1 DEF Agreed, Clear, DoneWith, Between, Streaming, InSession, AllSent, SameSession
  <2>4. Waiting(t)'
    BY <1>j, <2>1, <2>3 DEF Waiting, Announced, Asked, InFlight, Working, Replying, Calls,
       TakesUpload, Answered, SameSession
  <2> QED
    BY <1>s, <2>1, <2>4 DEF Own, Conversation
<1>2. CASE UploadPart(t) /\ disconnect(t)
  <2>1. cstate'[t] = "off"
    BY <1>2 DEF disconnect, Go, PerClient
  <2>2. SendMayFail(t) /\ UNCHANGED <<requests, replies, local, changed>>
    BY <1>j, <1>2, <2>1 DEF UploadPart
  <2> QED
    BY <1>2, <2>2, Leaves, FailsLeft DEF Own, Sound, TokensOK, ClientAt
<1>3. CASE UploadPart(t) /\ ~disconnect(t)
  <2>0. PICK n \in Nat : n > 0 /\ job[t].pos + n <= job[t].real /\ SendsPart(t, n)
    BY <1>s, <1>3, UploadSends
  <2> DEFINE u == Repeat(Unit, n)
  <2>1. /\ cstate'[t] = "upload" /\ username_'[t] = username_[t]
        /\ requests'[t] = requests[t] \o Delivered(t, u)
        /\ replies'[t] = replies[t] /\ closed'[t] = closed[t]
        /\ broken'[t] = broken[t] /\ changed'[t] = changed[t] /\ local'[t] = local[t]
    BY <2>0 DEF SendsPart
  <2>2. /\ job'[t] \in Jobs /\ job'[t].pos = job[t].pos + n /\ job'[t].cmd = "UPLOAD"
        /\ job'[t].size = job[t].size /\ job'[t].real = job[t].real
        /\ job'[t] # Nothing
    BY <2>0 DEF SendsPart
  <2>3. u \in Seq(RequestTokens) /\ Len(u) = n /\ \A i \in 1 .. n : u[i] = Unit
    BY RepeatProps DEF RequestTokens
  <2> HIDE DEF u
  <2>5. RequestsOK(requests[t]) /\ requests[t] \in Seq(RequestTokens)
    BY DEF Own, Sound, TokensOK, RequestsOK
  <2>8. /\ Between(t)' = Between(t) /\ Streaming(t)' = Streaming(t)
        /\ Agreed(t)' = Agreed(t) /\ DoneWith(t)' = DoneWith(t)
    BY <2>1 DEF Agreed, DoneWith, Between, Streaming, InSession, SameSession
  <2>9. requests[t] # <<>> => requests'[t] # <<>> /\ Head(requests'[t]) = Head(requests[t])
    <3>1. CASE broken[t]
      BY <2>1, <2>5, <3>1, ConcatEmptySeq DEF Delivered
    <3>2. CASE ~broken[t]
      BY <2>1, <2>3, <2>5, <3>2 DEF Delivered
    <3> QED
      BY <3>1, <3>2
  <2>10. ASSUME Clear(t), AllSent(t) PROVE Clear(t)' /\ AllSent(t)'
    <3>1. changed[t]
      <4>1. job[t].pos < job[t].size
        BY <1>3 DEF UploadPart
      <4> QED
        BY <1>j, <2>10, <4>1 DEF AllSent
    <3>2. CASE requests[t] # <<>>
      BY <2>1, <2>9, <2>10, <3>1, <3>2 DEF Clear, AllSent
    <3>3. CASE requests[t] = <<>> /\ broken[t]
      BY <2>1, <3>1, <3>3 DEF Clear, AllSent
    <3>4. CASE requests[t] = <<>> /\ ~broken[t]
      <4>1. requests'[t] = u
        BY <2>1, <2>3, <2>5, <3>4, ConcatEmptySeq DEF Delivered
      <4>2. Head(u) = Unit
        BY <2>0, <2>3
      <4> QED
        BY <2>1, <3>1, <4>1, <4>2 DEF Clear, AllSent
    <3> QED
      BY <3>2, <3>3, <3>4
  <2>11. Waiting(t)'
    <3>1. CASE replies[t] = <<>> /\ broken[t]
      BY <2>1, <3>1 DEF Waiting
    <3>2. CASE ~broken[t] /\ replies[t] = <<>> /\ Asked(t)
      <4>1. CASE changed[t] /\ requests[t] # <<>> /\ Head(requests[t]) = Unit
        BY <1>j, <2>1, <2>2, <2>8, <2>9, <3>2, <4>1 DEF Waiting, Asked
      <4>2. ASSUME NEW h \in RequestHeaders, NEW p \in Seq(RequestTokens), InFlight(t, h, p)
            PROVE  Waiting(t)'
        <5>1. p = Repeat(Unit, job[t].pos) /\ requests[t] = <<h>> \o p /\ h.cmd = "UPLOAD"
          BY <1>j, <4>2 DEF InFlight
        <5>2. p \o u = Repeat(Unit, job'[t].pos)
          BY <1>j, <2>2, <5>1, RepeatMore DEF u
        <5>3. requests'[t] = <<h>> \o (p \o u)
          <6>1. <<h>> \in Seq(RequestTokens)
            BY DEF RequestTokens
          <6> QED
            BY <2>1, <2>3, <3>2, <5>1, <6>1, ConcatAssociative DEF Delivered
        <5>4. InFlight(t, h, p \o u)'
          BY <2>1, <2>2, <4>2, <5>1, <5>2, <5>3 DEF InFlight
        <5>5. p \o u \in Seq(RequestTokens)
          BY <2>3, ConcatProperties
        <5> QED
          BY <1>j, <2>1, <2>2, <2>8, <3>2, <5>4, <5>5 DEF Waiting, Asked
      <4> QED
        BY <3>2, <4>1, <4>2 DEF Asked
    <3>3. CASE ~broken[t] /\ replies[t] = <<>> /\ Working(t)
      <4>1. CASE Replying(t)
        BY <1>j, <2>1, <2>2, <2>8, <2>10, <3>3, <4>1 DEF Waiting, Working, Replying, SameSession
      <4>2. CASE TakesUpload(t)
        <5>0. frame[t].pos \in Nat
          BY <4>2 DEF TakesUpload, WorksOn
        <5>1. requests'[t] = Repeat(Unit, job[t].pos - frame[t].pos) \o u
          BY <2>1, <3>3, <4>2 DEF TakesUpload, Delivered
        <5>2. requests'[t] = Repeat(Unit, job'[t].pos - frame[t].pos)
          <6>1. PICK k \in Nat : k = job[t].pos - frame[t].pos
            BY <1>j, <4>2, <5>0 DEF TakesUpload
          <6>2. k + n = job'[t].pos - frame[t].pos
            BY <1>j, <2>2, <5>0, <6>1
          <6>3. Repeat(Unit, k) \o Repeat(Unit, n) = Repeat(Unit, k + n)
            BY RepeatMore
          <6> QED
            BY <5>1, <6>1, <6>2, <6>3, Zenon DEF u
        <5>3. TakesUpload(t)'
          <6>1. frame[t].pos <= job'[t].pos
            BY <1>j, <2>2, <4>2, <5>0 DEF TakesUpload
          <6> QED
            BY <2>2, <4>2, <5>2, <6>1 DEF TakesUpload, SameSession
        <5> QED
          BY <1>j, <2>1, <2>2, <2>8, <3>3, <5>3 DEF Waiting, Working, SameSession
      <4> QED
        BY <1>j, <3>3, <4>1, <4>2 DEF Working, Calls
    <3>4. CASE Answered(t)
      <4>1. Clear(t)' /\ AllSent(t)'
        BY <2>10, <3>4 DEF Answered
      <4> QED
        BY <1>j, <2>1, <2>8, <3>4, <4>1 DEF Waiting, Answered
    <3> QED
      BY <1>j, <3>1, <3>2, <3>3, <3>4 DEF Waiting, Announced
  <2> QED
    BY <1>s, <2>1, <2>11 DEF Own, Conversation
<1> QED
  BY <1>1, <1>2, <1>3

LEMMA PromptSound ==
    ASSUME PerClient, NEW t \in Threads, Sound(t), SameSession(t), Prompt(t),
           cstate[t] # "off", local'[t] = local[t], replies'[t] \in Seq(ReplyTokens)
    PROVE  Sound(t)'
<1>1. /\ cstate'[t] = "prompt" /\ job'[t] = Nothing /\ username_'[t] = username_[t]
      /\ requests'[t] = requests[t] /\ closed'[t] = closed[t] /\ broken'[t] = broken[t]
      /\ changed'[t] = changed[t]
  BY DEF Prompt, Go, PerClient
<1> QED
  BY <1>1 DEF Sound, ClientAt, TokensOK, RequestsOK, JobOK, Ends, SameSession, InSession

(* A client that comes back to its prompt has read its response. *)
LEMMA PromptOwn ==
    ASSUME PerClient, NEW t \in Threads, Own(t), SameSession(t), Prompt(t),
           cstate[t] # "off", local'[t] = local[t], replies'[t] = <<>>,
           Clear(t), Agreed(t), broken[t] \/ DoneWith(t)
    PROVE  Own(t)'
<1>1. /\ cstate'[t] = "prompt" /\ job'[t] = Nothing /\ username_'[t] = username_[t]
      /\ requests'[t] = requests[t] /\ closed'[t] = closed[t] /\ broken'[t] = broken[t]
      /\ changed'[t] = changed[t]
  BY DEF Prompt, Go, PerClient
<1>2. <<>> \in Seq(ReplyTokens)
  OBVIOUS
<1>3. Sound(t)'
  BY <1>2, PromptSound DEF Own
<1>4. Idle(t)'
  BY <1>1 DEF Idle, Clear, Agreed, DoneWith, Between, Streaming, InSession, SameSession
<1> QED
  BY <1>1, <1>3, <1>4 DEF Own, Conversation

(* The next token is a reply's header or no header, and what is left are   *)
(* tokens.                                                                 *)
LEMMA RepliesRest ==
    ASSUME NEW t \in Threads, Sound(t), NEW n \in Nat, n <= Len(replies[t])
    PROVE  Rest(replies[t], n) \in Seq(ReplyTokens)
<1>1. replies[t] \in Seq(ReplyTokens) /\ n \in 0 .. Len(replies[t])
  BY DEF Sound, TokensOK
<1> QED
  BY <1>1, RestProps

LEMMA NextHeader ==
    ASSUME NEW t \in Threads, Sound(t), HeaderNext(t)
    PROVE  Head(replies[t]) \in ReplyHeaders /\ Len(replies[t]) >= 1
<1>1. replies[t] \in Seq(ReplyTokens) /\ replies[t] # <<>> /\ IsHeader(Head(replies[t]))
  BY DEF Sound, TokensOK, HeaderNext
<1>2. Head(replies[t]) \in ReplyTokens /\ Len(replies[t]) >= 1
  BY <1>1
<1> QED
  BY <1>1, <1>2, HeaderTokens

LEMMA ReceiveSound ==
    ASSUME PerClient, NEW t \in Threads, Sound(t), SameSession(t), receive_response(t)
    PROVE  Sound(t)'
<1>1. Head(replies[t]) \in ReplyHeaders /\ HeaderNext(t)
  BY NextHeader DEF receive_response
<1>2. PICK n \in Nat : n = Response(t) /\ n <= Len(replies[t])
  <2>1. Head(replies[t]).len \in Nat
    BY <1>1 DEF ReplyHeaders
  <2>2. Response(t) \in Nat
    BY <1>1, <2>1 DEF Response
  <2>3. Len(replies[t]) \in Nat
    BY DEF Sound, TokensOK
  <2> QED
    BY <2>2, <2>3 DEF receive_response
<1>3. replies'[t] = Rest(replies[t], n) /\ local'[t] = local[t] /\ cstate[t] = "await"
  BY <1>2 DEF receive_response, Take, At, PerClient
<1>4. replies'[t] \in Seq(ReplyTokens)
  BY <1>2, <1>3, RepliesRest
<1>5. CASE disconnect(t) /\ UNCHANGED <<requests, changed>>
  BY <1>3, <1>4, <1>5, LeavesSound DEF Sound, ClientAt
<1>6. CASE Prompt(t)
  BY <1>3, <1>4, <1>6, PromptSound
<1> QED
  BY <1>5, <1>6 DEF receive_response

LEMMA ReceiveOwn ==
    ASSUME PerClient, NEW t \in Threads, Own(t), SameSession(t), receive_response(t)
    PROVE  Own(t)'
<1>1. cstate[t] = "await" /\ Waiting(t)
  BY DEF receive_response, At, Own, Conversation
<1>2. replies[t] # <<>> /\ HeaderNext(t)
  BY DEF receive_response, HeaderNext
<1>3. Answered(t)
  BY <1>1, <1>2 DEF Waiting, Announced
<1>4. PICK h \in ReplyHeaders : replies[t] = <<h, Text>> /\ h.len = 1
  BY <1>3 DEF Answered
<1>5. Response(t) = 2
  <2>1. Head(replies[t]) = h
    BY <1>4
  <2> QED
    BY <1>2, <1>4, <2>1 DEF Response
<1>6. replies'[t] = <<>> /\ local'[t] = local[t]
  <2>1. replies[t] \in Seq(ReplyTokens) /\ Len(replies[t]) = 2
    BY <1>4 DEF ReplyTokens
  <2> QED
    BY <1>5, <2>1, RestEnds DEF receive_response, Take, PerClient
<1>7. <<>> \in Seq(ReplyTokens)
  OBVIOUS
<1>8. CASE disconnect(t) /\ UNCHANGED <<requests, changed>>
  <2>1. Left(t)
    BY <1>3 DEF Answered, Left
  <2> QED
    BY <1>6, <1>7, <1>8, <2>1, Leaves DEF Own, Sound, ClientAt
<1>9. CASE Prompt(t)
  BY <1>1, <1>3, <1>6, <1>9, PromptOwn DEF Answered, DoneWith
<1> QED
  BY <1>8, <1>9 DEF receive_response

LEMMA DownloadHeaderSound ==
    ASSUME PerClient, NEW t \in Threads, Sound(t), SameSession(t), DownloadHeader(t)
    PROVE  Sound(t)'
<1>1. /\ cstate[t] = "header" /\ job[t] \in Jobs
      /\ job[t].pos = 0 /\ job[t].cmd = "DOWNLOAD" /\ job[t].name \in Names
  BY DEF DownloadHeader, At, Sound, ClientAt, JobOK
<1>2. PICK n \in Nat, h \in ReplyHeaders : h = Head(replies[t]) /\ n = h.len
  <2>1. Head(replies[t]) \in ReplyHeaders
    BY NextHeader DEF DownloadHeader
  <2> QED
    BY <2>1 DEF ReplyHeaders
<1>3. Rest(replies[t], 1) \in Seq(ReplyTokens)
  <2>1. Len(replies[t]) >= 1 /\ Len(replies[t]) \in Nat
    BY NextHeader DEF DownloadHeader, Sound, TokensOK
  <2>2. 1 \in Nat /\ 1 <= Len(replies[t])
    BY <2>1
  <2> QED
    BY <2>2, RepliesRest
<1> DEFINE jj == [job[t] EXCEPT !.size = n]
<1>4. jj \in Jobs /\ jj.pos = 0 /\ jj.cmd = "DOWNLOAD" /\ jj.size = n /\ jj.name \in Names
  BY <1>1, JobFields
<1>5. jj # Nothing
  BY <1>4, JobFields
<1>6. /\ cstate'[t] = (IF h.status = "OK" THEN "create" ELSE "error")
      /\ job'[t] = jj /\ replies'[t] = Rest(replies[t], 1)
      /\ username_'[t] = username_[t] /\ requests'[t] = requests[t]
      /\ closed'[t] = closed[t] /\ broken'[t] = broken[t] /\ changed'[t] = changed[t]
      /\ local'[t] = local[t]
  BY <1>2 DEF DownloadHeader, Go, Take, PerClient
<1> HIDE DEF jj
<1> QED
  BY <1>1, <1>3, <1>4, <1>5, <1>6 DEF Sound, ClientAt, TokensOK, RequestsOK, JobOK, Ends,
     SameSession, InSession

LEMMA DownloadHeaderOwn ==
    ASSUME PerClient, NEW t \in Threads, Own(t), SameSession(t), DownloadHeader(t)
    PROVE  Own(t)'
<1>1. /\ cstate[t] = "header" /\ Waiting(t) /\ replies[t] # <<>> /\ job[t] \in Jobs
      /\ job[t].pos = 0 /\ job[t].cmd = "DOWNLOAD" /\ job[t].name \in Names
  BY DEF DownloadHeader, HeaderNext, At, Own, Sound, Conversation, ClientAt, JobOK
<1>2. PICK h \in ReplyHeaders, p \in Seq(ReplyTokens) :
          /\ replies[t] = <<h>> \o p
          /\ \/ Answered(t) /\ p = <<Text>> /\ h.len = 1 /\ h.status # "OK"
             \/ /\ h.status = "OK"
                /\ \E m \in Nat : p = Repeat(Unit, m) /\ Feeds(t, m, h.len)
  <2>1. CASE Answered(t)
    <3>1. PICK h \in ReplyHeaders :
              replies[t] = <<h, Text>> /\ h.len = 1 /\ h.status # "OK"
      BY <1>1, <2>1 DEF Answered
    <3>2. <<h, Text>> = <<h>> \o <<Text>> /\ <<Text>> \in Seq(ReplyTokens)
      BY DEF ReplyTokens
    <3> QED
      BY <2>1, <3>1, <3>2
  <2>2. CASE Announced(t)
    <3>1. PICK h \in ReplyHeaders, m \in Nat :
            h.status = "OK" /\ replies[t] = <<h>> \o Repeat(Unit, m) /\ Feeds(t, m, h.len)
      BY <2>2 DEF Announced
    <3>2. Repeat(Unit, m) \in Seq(ReplyTokens)
      BY RepeatProps DEF ReplyTokens
    <3> QED
      BY <3>1, <3>2
  <2> QED
    BY <1>1, <2>1, <2>2 DEF Waiting
<1>3. Head(replies[t]) = h /\ Rest(replies[t], 1) = p
  <2>1. h \in ReplyTokens
    BY DEF ReplyTokens
  <2> QED
    BY <1>2, <2>1, RestOfFirst
<1>4. h.len \in Nat
  BY DEF ReplyHeaders
<1> DEFINE jj == [job[t] EXCEPT !.size = h.len]
<1>5. /\ jj \in Jobs /\ jj.pos = 0 /\ jj.cmd = "DOWNLOAD" /\ jj.size = h.len
      /\ jj.name \in Names
  BY <1>1, <1>4, JobFields
<1>7. /\ cstate'[t] = (IF h.status = "OK" THEN "create" ELSE "error")
      /\ job'[t] = jj /\ replies'[t] = p
      /\ username_'[t] = username_[t] /\ requests'[t] = requests[t]
      /\ closed'[t] = closed[t] /\ broken'[t] = broken[t] /\ changed'[t] = changed[t]
      /\ local'[t] = local[t]
  BY <1>3 DEF DownloadHeader, Go, Take, PerClient
<1> HIDE DEF jj
<1>8. Sound(t)'
  BY DownloadHeaderSound DEF Own
<1>9. /\ Between(t)' = Between(t) /\ Streaming(t)' = Streaming(t) /\ Clear(t)' = Clear(t)
      /\ Agreed(t)' = Agreed(t)
  BY <1>7 DEF Agreed, Clear, Between, Streaming, InSession, SameSession
<1>10. CASE Answered(t) /\ p = <<Text>> /\ h.len = 1 /\ h.status # "OK"
  <2>1. ReadsError(t)'
    BY <1>5, <1>7, <1>9, <1>10 DEF ReadsError, Answered
  <2> QED
    BY <1>7, <1>8, <1>10, <2>1 DEF Own, Conversation
<1>11. ASSUME NEW m \in Nat, h.status = "OK", p = Repeat(Unit, m), Feeds(t, m, h.len)
       PROVE  Own(t)'
  <2>1. ReadsFile(t)'
    <3>1. job'[t].pos + m = m /\ job'[t].size = h.len
      BY <1>5, <1>7
    <3> QED
      BY <1>7, <1>9, <1>11, <3>1 DEF ReadsFile, Feeds, SameSession
  <2> QED
    BY <1>7, <1>8, <1>11, <2>1 DEF Own, Conversation
<1> QED
  BY <1>2, <1>10, <1>11

LEMMA DownloadErrorSound ==
    ASSUME PerClient, NEW t \in Threads, Sound(t), SameSession(t), DownloadError(t)
    PROVE  Sound(t)'
<1>1. /\ cstate[t] = "error" /\ Prompt(t) /\ local'[t] = local[t]
      /\ job[t].size \in Nat /\ Len(replies[t]) \in Nat
  BY DEF DownloadError, At, Sound, ClientAt, TokensOK, Jobs
<1>2. PICK n \in Nat : n <= Len(replies[t]) /\ replies'[t] = Rest(replies[t], n)
  <2>1. CASE Len(replies[t]) >= job[t].size /\ Take(t, job[t].size)
    <3>1. replies'[t] = Rest(replies[t], job[t].size) /\ job[t].size <= Len(replies[t])
      BY <1>1, <2>1 DEF Take, PerClient
    <3> QED
      BY <1>1, <3>1
  <2>2. CASE Take(t, Len(replies[t]))
    <3>1. replies'[t] = Rest(replies[t], Len(replies[t]))
      BY <2>2 DEF Take, PerClient
    <3> QED
      BY <1>1, <3>1
  <2> QED
    BY <2>1, <2>2 DEF DownloadError
<1>3. replies'[t] \in Seq(ReplyTokens)
  BY <1>2, RepliesRest
<1> QED
  BY <1>1, <1>3, PromptSound

LEMMA DownloadErrorOwn ==
    ASSUME PerClient, NEW t \in Threads, Own(t), SameSession(t), DownloadError(t)
    PROVE  Own(t)'
<1>1. cstate[t] = "error" /\ ReadsError(t) /\ Prompt(t) /\ local'[t] = local[t]
  BY DEF DownloadError, At, Own, Conversation
<1>2. replies[t] \in Seq(ReplyTokens) /\ Len(replies[t]) = 1 /\ job[t].size = 1
  BY <1>1 DEF ReadsError, ReplyTokens
<1>3. replies'[t] = <<>>
  <2>1. \/ replies'[t] = Rest(replies[t], job[t].size)
        \/ replies'[t] = Rest(replies[t], Len(replies[t]))
    BY DEF DownloadError, Take, PerClient
  <2> QED
    BY <1>2, <2>1, RestEnds
<1> QED
  BY <1>1, <1>3, PromptOwn DEF ReadsError, DoneWith

LEMMA ReadingSound ==
    ASSUME PerClient, NEW t \in Threads, Sound(t), SameSession(t),
           cstate[t] \in {"create", "save", "drain"}, cstate'[t] \in {"save", "drain"},
           NEW n \in Nat, n + job[t].pos <= job[t].size, n <= Len(replies[t]),
           job'[t] = [job[t] EXCEPT !.pos = @ + n], replies'[t] = Rest(replies[t], n),
           username_'[t] = username_[t], requests'[t] = requests[t],
           closed'[t] = closed[t], broken'[t] = broken[t], changed'[t] = changed[t],
           local'[t] \in [Names -> Nat \cup {Nothing}]
    PROVE  /\ Sound(t)'
           /\ job'[t].pos = job[t].pos + n /\ job'[t].size = job[t].size
<1>1. /\ job[t] \in Jobs /\ job[t].cmd = "DOWNLOAD" /\ job[t].name \in Names
      /\ job[t].pos \in Nat /\ job[t].size \in Nat
  BY DEF Sound, ClientAt, JobOK, Jobs
<1>2. replies'[t] \in Seq(ReplyTokens)
  BY RepliesRest
<1> DEFINE jj == [job[t] EXCEPT !.pos = @ + n]
<1>3. /\ jj \in Jobs /\ jj.pos = job[t].pos + n /\ jj.cmd = "DOWNLOAD"
      /\ jj.size = job[t].size /\ jj.name \in Names
  BY <1>1, JobFields
<1>4. jj # Nothing /\ job'[t] = jj
  BY <1>3, JobFields
<1> HIDE DEF jj
<1>5. jj.pos <= jj.size /\ jj.pos \in Nat
  BY <1>1, <1>3
<1>6. ClientAt(t)'
  BY <1>3, <1>4, <1>5 DEF Sound, ClientAt
<1>7. TokensOK(t)' /\ Ends(t)'
  BY <1>2 DEF Sound, TokensOK, RequestsOK, Ends, SameSession, InSession
<1>8. JobOK(t)'
  BY <1>3, <1>4 DEF JobOK
<1> QED
  BY <1>3, <1>4, <1>6, <1>7, <1>8 DEF Sound

(* A client that reads a file goes on reading it. *)
LEMMA ReadingOwn ==
    ASSUME PerClient, NEW t \in Threads, Own(t), SameSession(t),
           cstate[t] \in {"create", "save", "drain"}, cstate'[t] \in {"save", "drain"},
           NEW n \in Nat, n + job[t].pos <= job[t].size, n <= Len(replies[t]),
           job'[t] = [job[t] EXCEPT !.pos = @ + n], replies'[t] = Rest(replies[t], n),
           username_'[t] = username_[t], requests'[t] = requests[t],
           closed'[t] = closed[t], broken'[t] = broken[t], changed'[t] = changed[t],
           local'[t] \in [Names -> Nat \cup {Nothing}]
    PROVE  Own(t)'
<1>0. /\ Sound(t) /\ Sound(t)'
      /\ job'[t].pos = job[t].pos + n /\ job'[t].size = job[t].size
  BY ReadingSound DEF Own
<1>1. ReadsFile(t) /\ job[t].pos \in Nat /\ job[t].size \in Nat
  BY DEF Own, Sound, Conversation, ClientAt, JobOK, Jobs
<1>2. PICK m \in Nat : replies[t] = Repeat(Unit, m) /\ Feeds(t, job[t].pos + m, job[t].size)
  BY <1>1 DEF ReadsFile
<1>3. n \in 0 .. m /\ m - n \in Nat
  <2>1. Len(Repeat(Unit, m)) = m
    BY RepeatProps DEF ReplyTokens
  <2> QED
    BY <1>2, <2>1
<1>4. replies'[t] = Repeat(Unit, m - n)
  BY <1>2, <1>3, RestOfRepeat
<1>9. ReadsFile(t)'
  <2>1. job'[t].pos + (m - n) = job[t].pos + m /\ job'[t].size = job[t].size
    BY <1>0, <1>1, <1>3
  <2>2. /\ Between(t)' = Between(t) /\ Streaming(t)' = Streaming(t) /\ Clear(t)' = Clear(t)
        /\ Agreed(t)' = Agreed(t)
    BY DEF Agreed, Clear, Between, Streaming, InSession, SameSession
  <2> QED
    BY <1>2, <1>3, <1>4, <2>1, <2>2 DEF ReadsFile, Feeds, SameSession
<1> QED
  BY <1>0, <1>9 DEF Own, Conversation

\* Opening the local file reads nothing.
Opens(t) ==
    /\ cstate[t] \in {"create", "save", "drain"} /\ cstate'[t] \in {"save", "drain"}
    /\ 0 + job[t].pos <= job[t].size /\ 0 <= Len(replies[t])
    /\ job'[t] = [job[t] EXCEPT !.pos = @ + 0] /\ replies'[t] = Rest(replies[t], 0)
    /\ username_'[t] = username_[t] /\ requests'[t] = requests[t]
    /\ closed'[t] = closed[t] /\ broken'[t] = broken[t] /\ changed'[t] = changed[t]
    /\ local'[t] \in [Names -> Nat \cup {Nothing}]

LEMMA CreateFileOpens ==
    ASSUME PerClient, NEW t \in Threads, Sound(t), CreateFile(t)
    PROVE  \/ disconnect(t) /\ UNCHANGED <<requests, replies, changed, local>>
           \/ Opens(t)
<1>1. /\ cstate[t] = "create" /\ local[t] \in [Names -> Nat \cup {Nothing}]
      /\ job[t] \in Jobs /\ job[t].pos = 0 /\ job[t].size \in Nat
      /\ replies[t] \in Seq(ReplyTokens)
  BY DEF CreateFile, At, Sound, ClientAt, JobOK, TokensOK, Jobs
<1>2. CASE /\ Go(t, "save") \/ Go(t, "drain")
           /\ SetLocal(t, 0) \/ UNCHANGED local
           /\ UNCHANGED <<username_, job, requests, replies, closed, broken, changed>>
  <2>1. cstate'[t] \in {"save", "drain"}
    BY <1>2 DEF Go, PerClient
  <2>2. local'[t] \in [Names -> Nat \cup {Nothing}]
    BY <1>1, <1>2 DEF SetLocal, PerClient
  <2>3. job'[t] = [job[t] EXCEPT !.pos = @ + 0]
    BY <1>1, <1>2 DEF Jobs
  <2>4. replies'[t] = Rest(replies[t], 0)
    BY <1>1, <1>2, RestEnds
  <2>5. 0 + job[t].pos <= job[t].size /\ 0 <= Len(replies[t])
    BY <1>1
  <2> QED
    BY <1>1, <1>2, <2>1, <2>2, <2>3, <2>4, <2>5 DEF Opens
<1> QED
  BY <1>2 DEF CreateFile

LEMMA CreateFileSound ==
    ASSUME PerClient, NEW t \in Threads, Sound(t), SameSession(t), CreateFile(t)
    PROVE  Sound(t)'
<1>1. CASE disconnect(t) /\ UNCHANGED <<requests, replies, changed, local>>
  BY <1>1, LeavesSound DEF Sound, TokensOK, ClientAt
<1>2. CASE Opens(t)
  BY <1>2, ReadingSound DEF Opens
<1> QED
  BY <1>1, <1>2, CreateFileOpens

LEMMA CreateFileOwn ==
    ASSUME PerClient, NEW t \in Threads, Own(t), SameSession(t), CreateFile(t)
    PROVE  Own(t)'
<1>1. ReadsFile(t)
  BY DEF CreateFile, At, Own, Conversation
<1>2. CASE disconnect(t) /\ UNCHANGED <<requests, replies, changed, local>>
  <2>1. Left(t)
    BY <1>1 DEF ReadsFile, Feeds, Left
  <2> QED
    BY <1>2, <2>1, Leaves DEF Own, Sound, TokensOK, ClientAt
<1>3. CASE Opens(t)
  BY <1>3, ReadingOwn DEF Opens
<1> QED
  BY <1>2, <1>3, CreateFileOpens DEF Own

\* The next n units of a file are read.
Reads(t, n) ==
    /\ cstate[t] \in {"save", "drain"} /\ cstate'[t] = cstate[t] /\ n <= Len(replies[t])
    /\ n + job[t].pos <= job[t].size
    /\ replies'[t] = Rest(replies[t], n) /\ job'[t] = [job[t] EXCEPT !.pos = @ + n]
    /\ username_'[t] = username_[t] /\ requests'[t] = requests[t]
    /\ closed'[t] = closed[t] /\ broken'[t] = broken[t] /\ changed'[t] = changed[t]
    /\ local'[t] \in [Names -> Nat \cup {Nothing}]

LEMMA DownloadPartReads ==
    ASSUME PerClient, NEW t \in Threads, Sound(t), DownloadPart(t)
    PROVE  \E n \in Nat : Reads(t, n)
<1>1. /\ cstate[t] \in {"save", "drain"} /\ local[t] \in [Names -> Nat \cup {Nothing}]
      /\ job[t] \in Jobs /\ job[t].pos \in Nat /\ job[t].size \in Nat
      /\ job[t].pos <= job[t].size
      /\ Buffer \in Nat
  BY SameNames DEF DownloadPart, Sound, ClientAt, JobOK, Jobs
<1>2. PICK n \in Nat : n = ChunkSize(t) /\ n + job[t].pos <= job[t].size
  BY <1>1 DEF ChunkSize, Smaller
<1>3. /\ cstate'[t] = cstate[t] /\ n <= Len(replies[t])
      /\ replies'[t] = Rest(replies[t], n) /\ job'[t] = [job[t] EXCEPT !.pos = @ + n]
      /\ username_'[t] = username_[t] /\ requests'[t] = requests[t]
      /\ closed'[t] = closed[t] /\ broken'[t] = broken[t] /\ changed'[t] = changed[t]
  BY <1>1, <1>2 DEF DownloadPart, Take, Advance, PerClient
<1>4. local'[t] \in [Names -> Nat \cup {Nothing}]
  BY <1>1, <1>2 DEF DownloadPart, SetLocal, PerClient
<1> QED
  BY <1>1, <1>2, <1>3, <1>4 DEF Reads

LEMMA DownloadPartSound ==
    ASSUME PerClient, NEW t \in Threads, Sound(t), SameSession(t), DownloadPart(t)
    PROVE  Sound(t)'
<1>1. PICK n \in Nat : Reads(t, n)
  BY DownloadPartReads
<1> QED
  BY <1>1, ReadingSound DEF Reads

LEMMA DownloadPartOwn ==
    ASSUME PerClient, NEW t \in Threads, Own(t), SameSession(t), DownloadPart(t)
    PROVE  Own(t)'
<1>1. PICK n \in Nat : Reads(t, n)
  BY DownloadPartReads DEF Own
<1> QED
  BY <1>1, ReadingOwn DEF Reads

LEMMA BreaksLocal ==
    ASSUME PerClient, NEW t \in Threads, Sound(t), DownloadBreaks(t)
    PROVE  local'[t] \in [Names -> Nat \cup {Nothing}] /\ replies'[t] \in Seq(ReplyTokens)
<1>1. /\ local[t] \in [Names -> Nat \cup {Nothing}] /\ job[t].pos \in Nat
      /\ replies[t] \in Seq(ReplyTokens)
  BY DEF DownloadBreaks, Sound, ClientAt, TokensOK, Jobs
<1> QED
  BY <1>1 DEF DownloadBreaks, SetLocal, PerClient

LEMMA DownloadBreaksSound ==
    ASSUME PerClient, NEW t \in Threads, Sound(t), SameSession(t), DownloadBreaks(t)
    PROVE  Sound(t)'
BY BreaksLocal, LeavesSound DEF DownloadBreaks

LEMMA DownloadBreaksOwn ==
    ASSUME PerClient, NEW t \in Threads, Own(t), SameSession(t), DownloadBreaks(t)
    PROVE  Own(t)'
<1>1. Left(t) /\ Sound(t)
  BY FailsLeft DEF DownloadBreaks, Own
<1> QED
  BY <1>1, BreaksLocal, Leaves DEF DownloadBreaks

\* What a client has when all of a file has arrived.
LEMMA DownloadedAll ==
    ASSUME NEW t \in Threads, Own(t), Downloaded(t)
    PROVE  /\ replies[t] = <<>> /\ job[t].pos = job[t].size /\ job[t].size \in VersionSizes
           /\ Clear(t) /\ Agreed(t) /\ (broken[t] \/ DoneWith(t))
<1>1. /\ ReadsFile(t) /\ job[t].pos \in Nat /\ job[t].size \in Nat
      /\ job[t].pos <= job[t].size /\ Buffer \in Nat /\ Buffer > 0
  BY SameNames DEF Downloaded, Own, Sound, Conversation, ClientAt, JobOK, Jobs
<1>2. job[t].pos = job[t].size
  BY <1>1 DEF Downloaded, ChunkSize, Smaller
<1>3. PICK m \in Nat : replies[t] = Repeat(Unit, m) /\ Feeds(t, job[t].pos + m, job[t].size)
  BY <1>1 DEF ReadsFile
<1>4. m = 0 /\ job[t].pos + m = job[t].size
  BY <1>1, <1>2, <1>3 DEF Feeds
<1> QED
  BY <1>2, <1>3, <1>4, RepeatNone DEF Feeds, DoneWith

LEMMA DownloadedSound ==
    ASSUME PerClient, NEW t \in Threads, Sound(t), SameSession(t), Downloaded(t)
    PROVE  Sound(t)'
<1>1. replies'[t] \in Seq(ReplyTokens)
  BY DEF Downloaded, Sound, TokensOK
<1> QED
  BY <1>1, PromptSound DEF Downloaded

LEMMA DownloadedOwn ==
    ASSUME PerClient, NEW t \in Threads, Own(t), SameSession(t), Downloaded(t)
    PROVE  Own(t)'
BY DownloadedAll, PromptOwn DEF Downloaded

(* Every step of a client keeps what holds of every client, ...            *)
LEMMA ClientSound ==
    ASSUME PerClient, NEW t \in Threads, Sound(t), SameSession(t),
           process_command(t) \/ EndOfInput(t) \/ ClientStep(t)
    PROVE  Sound(t)'
BY ProcessSound, EndOfInputSound, UploadSound, ReceiveSound, ResponseFailsSound,
   DownloadHeaderSound, DownloadErrorSound, CreateFileSound, DownloadPartSound,
   DownloadBreaksSound, DownloadedSound
   DEF ClientStep

(* ... and its conversation with the server. *)
LEMMA ClientOwn ==
    ASSUME PerClient, NEW t \in Threads, Own(t), WorksOn(t), SameSession(t),
           process_command(t) \/ EndOfInput(t) \/ ClientStep(t)
    PROVE  Own(t)'
BY ProcessOwn, EndOfInputOwn, UploadOwn, ReceiveOwn, ResponseFailsOwn, DownloadHeaderOwn,
   DownloadErrorOwn, CreateFileOwn, DownloadPartOwn, DownloadBreaksOwn, DownloadedOwn
   DEF ClientStep

-----------------------------------------------------------------------------
(* The steps of a session. *)

(* What a session does leaves the client's own state in order. *)
LEMMA ServerKeepsClient ==
    ASSUME NEW t \in Threads, Sound(t), SameLocal(t), closed'[t] = closed[t],
           broken'[t] = broken[t], stage'[t] # "off", stage[t] # "off",
           gone'[t] => gone[t] \/ broken[t] \/ cstate[t] = "off",
           RequestsOK(requests'[t]), replies'[t] \in Seq(ReplyTokens)
    PROVE  Sound(t)'
<1>1. ClientAt(t)'
  BY DEF Sound, ClientAt, SameLocal
<1>2. TokensOK(t)' /\ JobOK(t)'
  BY DEF Sound, TokensOK, JobOK, SameLocal
<1>3. Ends(t)'
  BY DEF Sound, Ends, SameLocal, InSession
<1> QED
  BY <1>1, <1>2, <1>3 DEF Sound

(* So does a session that reads and writes nothing, ... *)
LEMMA QuietSound ==
    ASSUME NEW t \in Threads, Sound(t), SameClient(t), "server" \notin closed[t],
           gone'[t] => gone[t] /\ InSession(t)
    PROVE  Sound(t)'
<1>1. ClientAt(t)' /\ TokensOK(t)' /\ JobOK(t)'
  BY DEF Sound, ClientAt, TokensOK, RequestsOK, JobOK, SameClient, SameLocal
<1>2. Ends(t)'
  BY DEF Sound, Ends, SameClient, SameLocal, InSession
<1> QED
  BY <1>1, <1>2 DEF Sound

(* ... and what it sends, which arrives unless the connection is broken. *)
LEMMA SentTokens ==
    ASSUME PerClient, NEW t \in Threads, Sound(t), NEW s \in Seq(ReplyTokens),
           ServerSends(t, s) \/ UNCHANGED replies
    PROVE  /\ replies'[t] \in Seq(ReplyTokens)
           /\ broken[t] => replies'[t] = replies[t]
           /\ ServerSends(t, s) /\ ~broken[t] => replies'[t] = replies[t] \o s
<1>0. replies[t] \in Seq(ReplyTokens) /\ DOMAIN replies = Threads
  BY DEF Sound, TokensOK, PerClient
<1>1. CASE ~ServerSends(t, s)
  BY <1>0, <1>1
<1>2. CASE ServerSends(t, s)
  <2>1. replies'[t] = replies[t] \o Delivered(t, s)
    BY <1>0, <1>2 DEF ServerSends
  <2>2. replies[t] \o <<>> = replies[t] /\ replies[t] \o s \in Seq(ReplyTokens)
    BY <1>0, ConcatEmptySeq, ConcatProperties
  <2> QED
    BY <1>0, <2>1, <2>2, Zenon DEF Delivered
<1> QED
  BY <1>1, <1>2

(* On a broken connection nothing the session does reaches the client. *)
LEMMA BrokenOwn ==
    ASSUME NEW t \in Threads, Own(t), broken[t], SameLocal(t), closed'[t] = closed[t],
           broken'[t] = broken[t], replies'[t] = replies[t],
           stage'[t] # "off", stage[t] # "off", RequestsOK(requests'[t]),
           requests[t] = <<>> => requests'[t] = <<>>,
           Clear(t) => session_user'[t] = session_user[t] \/ changed[t]
    PROVE  Own(t)'
<1>0. Sound(t) /\ replies[t] \in Seq(ReplyTokens)
  BY DEF Own, Sound, TokensOK
<1>g. gone'[t] => gone[t] \/ broken[t] \/ cstate[t] = "off"
  OBVIOUS
<1>1. Sound(t)'
  BY <1>0, <1>g, ServerKeepsClient
<1>2. Clear(t) => Clear(t)'
  BY DEF Clear, SameLocal
<1>3. Clear(t) /\ Agreed(t) => Agreed(t)'
  BY DEF Agreed, InSession, SameLocal
<1>4. AllSent(t)' = AllSent(t)
  BY DEF AllSent, SameLocal
<1>5. Answered(t) => Answered(t)'
  BY <1>2, <1>3, <1>4 DEF Answered, SameLocal
<1>6. \A m, n : Feeds(t, m, n) =>
          m <= n /\ n \in VersionSizes /\ broken'[t] /\ Clear(t)' /\ Agreed(t)'
  BY <1>2, <1>3 DEF Feeds
<1>7. Announced(t) => Announced(t)'
  <2>1. SUFFICES ASSUME Announced(t) PROVE Announced(t)'
    OBVIOUS
  <2>2. PICK h \in ReplyHeaders, m \in Nat :
          h.status = "OK" /\ replies[t] = <<h>> \o Repeat(Unit, m) /\ Feeds(t, m, h.len)
    BY <2>1 DEF Announced
  <2>3. m <= h.len /\ h.len \in VersionSizes /\ broken'[t] /\ Clear(t)' /\ Agreed(t)'
    BY <1>6, <2>2
  <2> QED
    BY <2>1, <2>2, <2>3 DEF Announced, Feeds, SameLocal
<1>8. ReadsFile(t) => ReadsFile(t)'
  <2>1. SUFFICES ASSUME ReadsFile(t) PROVE ReadsFile(t)'
    OBVIOUS
  <2>2. PICK m \in Nat : replies[t] = Repeat(Unit, m) /\ Feeds(t, job[t].pos + m, job[t].size)
    BY <2>1 DEF ReadsFile
  <2>3. /\ job[t].pos + m <= job[t].size /\ job[t].size \in VersionSizes
        /\ broken'[t] /\ Clear(t)' /\ Agreed(t)'
    BY <1>6, <2>2
  <2> QED
    BY <2>2, <2>3 DEF ReadsFile, Feeds, SameLocal
<1>9. Conversation(t)'
  BY <1>2, <1>3, <1>5, <1>7, <1>8 DEF Own, Conversation, Left, Idle, Waiting, ReadsError,
     SameLocal
<1> QED
  BY <1>1, <1>9 DEF Own

(* The session begins, waits for a request, or gives up waiting. *)
LEMMA QuietOwn ==
    ASSUME PerClient, NEW t \in Threads, Own(t), SameClient(t),
           Between(t), stage[t] # "end", stage'[t] \in {"loop", "recv", "end"},
           "server" \notin closed[t], Agreed(t) => Agreed(t)',
           gone'[t] => gone[t] /\ InSession(t)
    PROVE  Own(t)'
<1>1. Sound(t)'
  BY QuietSound DEF Own
<1>2. /\ Between(t)' /\ DoneWith(t)' /\ Clear(t)' = Clear(t) /\ AllSent(t)' = AllSent(t)
      /\ ~Streaming(t) /\ ~Working(t)
  BY DEF Between, DoneWith, Clear, AllSent, Streaming, Working, Replying, Calls, TakesUpload,
     SameClient, SameLocal
<1>3. /\ Asked(t) => Asked(t)'
      /\ Answered(t) => Answered(t)'
  BY <1>2 DEF Asked, InFlight, Answered, SameClient, SameLocal
<1>4. Announced(t) => Announced(t)'
  BY <1>2 DEF Announced, Feeds, SameClient, SameLocal
<1>5. ReadsFile(t) => ReadsFile(t)'
  BY <1>2 DEF ReadsFile, Feeds, SameClient, SameLocal
<1>6. Conversation(t)'
  BY <1>2, <1>3, <1>4, <1>5 DEF Own, Conversation, Left, Idle, Waiting, ReadsError, SameClient,
     SameLocal
<1> QED
  BY <1>1, <1>6 DEF Own

LEMMA LoopOwn ==
    ASSUME SessionInv, PerClient, NEW t \in Threads, Own(t), UNCHANGED clientVars,
           Loop(t) \/ ReceiveFails(t)
    PROVE  Own(t)'
<1>1. /\ stage[t] \in {"loop", "recv"} /\ stage'[t] \in {"loop", "recv", "end"}
      /\ session_user'[t] = session_user[t] /\ gone'[t] = gone[t]
  BY DEF Loop, ReceiveFails, Enter, SessionInv, SessionTypeOK
<1>2. SameClient(t)
  BY DEF clientVars, netVars, SameClient, SameLocal
<1>3. "server" \notin closed[t] /\ Between(t) /\ InSession(t)
  BY <1>1 DEF Own, Sound, Ends, Between, InSession
<1>4. Agreed(t) => Agreed(t)'
  BY <1>1, <1>2 DEF Agreed, InSession, SameClient, SameLocal
<1> QED
  BY <1>1, <1>2, <1>3, <1>4, QuietOwn

(* Nobody has logged in on a connection that waits for a worker. *)
LEMMA BeginsOwn ==
    ASSUME SessionInv, PerClient, NEW t \in Threads, Own(t), ServerBegins(t)
    PROVE  Own(t)'
<1>1. /\ stage[t] = "off" /\ stage'[t] = "loop" /\ "server" \notin closed[t]
      /\ session_user'[t] = None /\ gone'[t] = FALSE /\ UNCHANGED clientVars
  BY DEF ServerBegins, Queued, Begin, Enter, SessionInv, SessionTypeOK
<1>2. SameClient(t)
  BY <1>1 DEF clientVars, netVars, SameClient, SameLocal
<1>3. Between(t)
  BY <1>1 DEF Between
<1>4. Agreed(t) => Agreed(t)'
  BY <1>1, <1>2, SameNames DEF Agreed, InSession, SameClient, SameLocal
<1> QED
  BY <1>1, <1>2, <1>3, <1>4, QuietOwn

(* The server's end is closed: what the client has sent in vain breaks the *)
(* connection.                                                             *)
LEMMA ServerLeaves ==
    ASSUME SessionInv, PerClient, NEW t \in Threads, ServerCloses(t) \/ ServerRefuses(t)
    PROVE  /\ stage[t] \in {"end", "off"} /\ stage'[t] = "off" /\ gone'[t] = gone[t]
           /\ SameLocal(t) /\ requests'[t] = requests[t] /\ replies'[t] = replies[t]
           /\ closed'[t] = closed[t] \cup {"server"}
           /\ broken'[t] = (broken[t] \/ requests[t] # <<>>)
<1>1. /\ SameLocal(t) /\ requests'[t] = requests[t] /\ replies'[t] = replies[t]
      /\ closed'[t] = closed[t] \cup {"server"}
      /\ broken'[t] = (broken[t] \/ requests[t] # <<>>)
  BY DEF ServerCloses, ServerRefuses, Close, localVars, PerClient, SameLocal
<1>2. stage[t] \in {"end", "off"} /\ stage'[t] = "off" /\ gone'[t] = gone[t]
  BY DEF ServerCloses, ServerRefuses, Queued, SessionEnd, Enter, SessionInv, SessionTypeOK,
     allVars, sessionVars
<1> QED
  BY <1>1, <1>2

LEMMA ClosesSound ==
    ASSUME SessionInv, PerClient, NEW t \in Threads, Sound(t),
           ServerCloses(t) \/ ServerRefuses(t)
    PROVE  Sound(t)'
<1>1. /\ stage'[t] = "off" /\ SameLocal(t)
      /\ requests'[t] = requests[t] /\ replies'[t] = replies[t]
      /\ closed'[t] = closed[t] \cup {"server"}
      /\ broken'[t] = (broken[t] \/ requests[t] # <<>>)
  BY ServerLeaves
<1> QED
  BY <1>1 DEF Sound, ClientAt, TokensOK, RequestsOK, JobOK, Ends, SameLocal, InSession

LEMMA ClosesOwn ==
    ASSUME SessionInv, PerClient, NEW t \in Threads, Own(t),
           ServerCloses(t) \/ ServerRefuses(t)
    PROVE  Own(t)'
<1>1. /\ stage[t] \in {"end", "off"} /\ stage'[t] = "off" /\ gone'[t] = gone[t]
      /\ SameLocal(t) /\ requests'[t] = requests[t] /\ replies'[t] = replies[t]
      /\ closed'[t] = closed[t] \cup {"server"}
      /\ broken'[t] = (broken[t] \/ requests[t] # <<>>)
  BY ServerLeaves
<1>2. Sound(t)'
  BY ClosesSound DEF Own
<1>3. /\ Between(t)' /\ Agreed(t)' /\ (Clear(t) => Clear(t)')
      /\ AllSent(t)' = AllSent(t) /\ ~Streaming(t) /\ ~Working(t)
  BY <1>1 DEF Between, Clear, Agreed, InSession, AllSent, Streaming, Working, Replying, Calls,
     TakesUpload, SameLocal
<1>4. Asked(t) => broken'[t]
  <2>1. ASSUME NEW h \in RequestHeaders, NEW p \in Seq(RequestTokens), requests[t] = <<h>> \o p
        PROVE  requests[t] # <<>>
    BY <2>1
  <2> QED
    BY <1>1, <2>1 DEF Asked, InFlight
<1>5. Answered(t) => Answered(t)'
  BY <1>1, <1>3 DEF Answered, SameLocal
<1>6. Announced(t) => Announced(t)'
  BY <1>1, <1>3 DEF Announced, Feeds, SameLocal
<1>7. ReadsFile(t) => ReadsFile(t)'
  BY <1>1, <1>3 DEF ReadsFile, Feeds, SameLocal
<1>8. Conversation(t)'
  BY <1>1, <1>3, <1>4, <1>5, <1>6, <1>7 DEF Own, Conversation, Left, Idle, Waiting,
     ReadsError, DoneWith, SameLocal
<1> QED
  BY <1>2, <1>8 DEF Own

(* On an intact connection a session that works, or answers, does so for   *)
(* the command its client waits for.                                       *)
LEMMA MustWork ==
    ASSUME NEW t \in Threads, Own(t), ~broken[t], stage[t] \in {"call", "reply"},
           ~Streaming(t)
    PROVE  cstate[t] \in {"await", "upload", "header"} /\ replies[t] = <<>> /\ Working(t)
<1>1. ~Between(t) /\ ~DoneWith(t)
  BY DEF Between, DoneWith
<1>2. \A m, n : ~Feeds(t, m, n)
  BY <1>1 DEF Feeds
<1>3. ~Announced(t) /\ ~ReadsFile(t) /\ ~Answered(t) /\ ~Asked(t)
  BY <1>1, <1>2 DEF Announced, ReadsFile, Answered, Asked
<1>4. "server" \notin closed[t] /\ ~Streaming(t)
  BY DEF Own, Sound, Ends
<1>5. cstate[t] \notin {"off", "prompt", "error", "create", "save", "drain"}
  BY <1>1, <1>3, <1>4 DEF Own, Conversation, Left, Idle, ReadsError
<1> QED
  BY <1>3, <1>5 DEF Own, Sound, ClientAt, Conversation, Waiting

(* What a request makes the session do. *)
LEMMA ServedEffect ==
    ASSUME SessionInv, NEW t \in Threads, NEW h \in RequestHeaders, Served(t, h)
    PROVE  /\ cmd'[t] = h.cmd /\ gone'[t] = gone[t]
           /\ session_user'[t] = IF h.cmd = "LOGIN" THEN h.user ELSE session_user[t]
           /\ \/ /\ stage'[t] = "reply" /\ h.cmd # "UPLOAD"
                 /\ h.cmd = "DOWNLOAD" => status'[t] # "OK"
              \/ /\ stage'[t] = "call" /\ h.cmd = "UPLOAD"
                 /\ frame'[t].op \in {"save", "discard"}
                 /\ Len(frame'[t].data) = h.len /\ frame'[t].pos = 0
              \/ /\ stage'[t] = "call" /\ h.cmd # "UPLOAD"
                 /\ frame'[t].op \in {"list", "delete", "rename", "size"}
                 /\ frame'[t].op = "size" <=> h.cmd = "DOWNLOAD"
<1>t. /\ DOMAIN stage = Threads /\ DOMAIN session_user = Threads /\ DOMAIN cmd = Threads
      /\ DOMAIN status = Threads /\ DOMAIN frame = Threads
  BY DEF SessionInv, SessionTypeOK, TypeOK
<1> DEFINE Goal ==
           /\ cmd'[t] = h.cmd /\ gone'[t] = gone[t]
           /\ session_user'[t] = IF h.cmd = "LOGIN" THEN h.user ELSE session_user[t]
           /\ \/ /\ stage'[t] = "reply" /\ h.cmd # "UPLOAD"
                 /\ h.cmd = "DOWNLOAD" => status'[t] # "OK"
              \/ /\ stage'[t] = "call" /\ h.cmd = "UPLOAD"
                 /\ frame'[t].op \in {"save", "discard"}
                 /\ Len(frame'[t].data) = h.len /\ frame'[t].pos = 0
              \/ /\ stage'[t] = "call" /\ h.cmd # "UPLOAD"
                 /\ frame'[t].op \in {"list", "delete", "rename", "size"}
                 /\ frame'[t].op = "size" <=> h.cmd = "DOWNLOAD"
<1> USE <1>t DEF Receive, Enter, Status, Answer
<1>1. ASSUME h.cmd = "LOGIN", LOGIN(t, h.user) PROVE Goal
  BY <1>1 DEF LOGIN
<1>2. ASSUME h.cmd = "QUIT", QUIT(t) PROVE Goal
  BY <1>2 DEF QUIT
<1>3. ASSUME h.cmd \in FileCommands, Refuse(t, h.cmd),
             h.cmd = "UPLOAD" => Len(frame'[t].data) = h.len
      PROVE  Goal
  <2>1. CASE h.cmd # "UPLOAD"
    BY <1>3, <2>1 DEF Refuse, FileCommands
  <2>2. CASE h.cmd = "UPLOAD"
    <3>1. PICK d \in Payloads : discard_data(t, d)
      BY <1>3, <2>2 DEF Refuse
    <3>2. frame'[t].op = "discard" /\ frame'[t].pos = 0
      BY <3>1 DEF discard_data, Call, NewFrame
    <3> QED
      BY <1>3, <2>2, <3>2 DEF Refuse
  <2> QED
    BY <2>1, <2>2
<1>4. ASSUME NEW k, NEW d \in Payloads, h.cmd = "UPLOAD", Len(d) = h.len, UPLOAD(t, k, d)
      PROVE  Goal
  <2>1. frame'[t].op = "save" /\ frame'[t].pos = 0 /\ frame'[t].data = d
    BY <1>4 DEF UPLOAD, save_file, Call, NewFrame
  <2> QED
    BY <1>4, <2>1 DEF UPLOAD, Serve
<1>5. ASSUME NEW k, h.cmd = "DOWNLOAD", DOWNLOAD(t, k) PROVE Goal
  <2>1. frame'[t].op = "size"
    BY <1>5 DEF DOWNLOAD, get_file_size, Call, NewFrame
  <2> QED
    BY <1>5, <2>1 DEF DOWNLOAD, Serve
<1>6. ASSUME h.cmd = "LIST", LIST(t) PROVE Goal
  <2>1. frame'[t].op = "list"
    BY <1>6 DEF LIST, list_files, Call, NewFrame
  <2> QED
    BY <1>6, <2>1 DEF LIST, Serve
<1>7. ASSUME NEW k, h.cmd = "DELETE_F", DELETE_F(t, k) PROVE Goal
  <2>1. frame'[t].op = "delete"
    BY <1>7 DEF DELETE_F, delete_file, Call, NewFrame
  <2> QED
    BY <1>7, <2>1 DEF DELETE_F, Serve
<1>8. ASSUME NEW k, NEW j, h.cmd = "RENAME", RENAME(t, k, j) PROVE Goal
  <2>1. frame'[t].op = "rename"
    BY <1>8 DEF RENAME, rename_file, Call, NewFrame
  <2> QED
    BY <1>8, <2>1 DEF RENAME, Serve
<1> QED
  BY <1>1, <1>2, <1>3, <1>4, <1>5, <1>6, <1>7, <1>8 DEF Served

(* The session takes the next request off the connection. *)
LEMMA ReceivesEffect ==
    ASSUME SessionInv, PerClient, NEW t \in Threads, Sound(t), ServerReceives(t)
    PROVE  \E h \in RequestHeaders, n \in Nat :
             /\ h = Head(requests[t]) /\ Served(t, h)
             /\ n = RequestLength(h) /\ n <= Len(requests[t])
             /\ requests[t] \in Seq(RequestTokens) /\ requests[t] # <<>>
             /\ requests'[t] = Rest(requests[t], n) /\ RequestsOK(requests'[t])
             /\ SameLocal(t) /\ replies'[t] = replies[t] /\ closed'[t] = closed[t]
             /\ broken'[t] = broken[t] /\ stage[t] = "recv"
             /\ stage'[t] \in {"reply", "call"} /\ gone'[t] = gone[t]
<1> DEFINE h == Head(requests[t])
           n == RequestLength(h)
<1>1. /\ stage[t] = "recv" /\ requests[t] # <<>> /\ IsHeader(h) /\ Served(t, h)
      /\ n <= Len(requests[t]) /\ requests'[t] = Rest(requests[t], n)
      /\ SameLocal(t) /\ replies'[t] = replies[t] /\ closed'[t] = closed[t]
      /\ broken'[t] = broken[t]
  BY DEF ServerReceives, Arrived, ServerTakes, localVars, SameLocal, PerClient
<1>2. requests[t] \in Seq(RequestTokens) /\ RequestsOK(requests[t])
  BY DEF Sound, TokensOK, RequestsOK
<1>3. h \in RequestTokens
  BY <1>1, <1>2
<1> HIDE DEF h
<1>4. h \in RequestHeaders
  BY <1>1, <1>3, HeaderTokens
<1>5. n \in Nat
  BY <1>4 DEF RequestLength, RequestHeaders
<1> HIDE DEF n
<1>6. RequestsOK(requests'[t])
  BY <1>1, <1>2, <1>5, RequestsRest
<1>7. stage'[t] \in {"reply", "call"} /\ gone'[t] = gone[t]
  BY <1>1, <1>4, ServedEffect
<1> QED
  BY <1>1, <1>2, <1>4, <1>5, <1>6, <1>7 DEF h, n

LEMMA ReceivesSound ==
    ASSUME SessionInv, PerClient, NEW t \in Threads, Sound(t), ServerReceives(t)
    PROVE  Sound(t)'
<1>1. /\ RequestsOK(requests'[t]) /\ SameLocal(t) /\ replies'[t] = replies[t]
      /\ closed'[t] = closed[t] /\ broken'[t] = broken[t] /\ stage[t] # "off"
      /\ stage'[t] # "off" /\ gone'[t] = gone[t]
  BY ReceivesEffect
<1>2. replies'[t] \in Seq(ReplyTokens)
  BY <1>1 DEF Sound, TokensOK
<1> QED
  BY <1>1, <1>2, ServerKeepsClient

(* It is the one the client waits for. *)
LEMMA ReceivesOwn ==
    ASSUME SessionInv, PerClient, NEW t \in Threads, Own(t), ServerReceives(t)
    PROVE  Own(t)'
<1>s. Sound(t) /\ Sound(t)'
  BY ReceivesSound DEF Own
<1>1. PICK h \in RequestHeaders, n \in Nat :
        /\ h = Head(requests[t]) /\ Served(t, h)
        /\ n = RequestLength(h) /\ n <= Len(requests[t])
        /\ requests[t] \in Seq(RequestTokens) /\ requests[t] # <<>>
        /\ requests'[t] = Rest(requests[t], n) /\ RequestsOK(requests'[t])
        /\ SameLocal(t) /\ replies'[t] = replies[t] /\ closed'[t] = closed[t]
        /\ broken'[t] = broken[t] /\ stage[t] = "recv"
        /\ stage'[t] \in {"reply", "call"} /\ gone'[t] = gone[t]
  BY <1>s, ReceivesEffect
<1>3. h \in RequestTokens /\ IsHeader(h)
  BY HeaderTokens DEF RequestTokens
<1>7. /\ cmd'[t] = h.cmd
      /\ session_user'[t] = IF h.cmd = "LOGIN" THEN h.user ELSE session_user[t]
  BY <1>1, ServedEffect
<1>8. Clear(t) => changed[t] /\ broken[t]
  BY <1>1, <1>3, HeaderTokens DEF Clear
<1>9. CASE broken[t]
  <2>1. requests[t] = <<>> => requests'[t] = <<>>
    BY <1>1
  <2> QED
    BY <1>1, <1>8, <1>9, <2>1, BrokenOwn
<1>10. CASE ~broken[t]
  <2>1. ~Clear(t) /\ ~Working(t)
    BY <1>1, <1>8, <1>10 DEF Working, Replying, Calls, TakesUpload
  <2>2. \A i, j : ~Feeds(t, i, j)
    BY <2>1 DEF Feeds
  <2>3. ~Answered(t) /\ ~Announced(t) /\ ~ReadsFile(t)
    BY <2>1, <2>2 DEF Answered, Announced, ReadsFile
  <2>4. cstate[t] \in {"await", "upload", "header"} /\ replies[t] = <<>> /\ Asked(t)
    <3>1. "server" \notin closed[t]
      BY <1>1, <1>s DEF Sound, Ends
    <3> QED
      BY <1>1, <1>10, <1>s, <2>1, <2>3, <3>1 DEF Own, Sound, ClientAt, Conversation, Left, Idle,
         ReadsError, Waiting
  <2>5. PICK g \in RequestHeaders, p \in Seq(RequestTokens) : InFlight(t, g, p)
    BY <1>1, <1>3, <2>4, HeaderTokens DEF Asked
  <2>6. g \in RequestTokens
    BY DEF RequestTokens
  <2>7. g = h /\ requests[t] = <<h>> \o p
    BY <1>1, <2>5, <2>6, RestOfFirst DEF InFlight
  <2>8. /\ h.cmd = job[t].cmd /\ h.len = job[t].size
        /\ h.cmd = "LOGIN" => h.user = username_[t]
        /\ IF h.cmd = "UPLOAD" THEN p = Repeat(Unit, job[t].pos) ELSE Len(p) = h.len
    BY <2>5, <2>7 DEF InFlight
  <2>9. requests'[t] = IF h.cmd = "UPLOAD" THEN p ELSE <<>>
    <3>1. /\ Len(<<h>> \o p) = 1 + Len(p) /\ Rest(<<h>> \o p, 1) = p
          /\ Rest(<<h>> \o p, Len(<<h>> \o p)) = <<>>
      <4>1. /\ <<h>> \o p \in Seq(RequestTokens) /\ Len(<<h>> \o p) = 1 + Len(p)
            /\ Rest(<<h>> \o p, 1) = p
        BY <1>3, RestOfFirst
      <4> QED
        BY <4>1, RestEnds
    <3>2. n = IF h.cmd = "UPLOAD" THEN 1 ELSE Len(<<h>> \o p)
      BY <1>1, <2>8, <3>1 DEF RequestLength
    <3> QED
      BY <1>1, <2>7, <3>1, <3>2
  <2>10. Agreed(t)'
    <3>1. CASE h.cmd = "LOGIN"
      BY <1>1, <1>7, <2>8, <3>1 DEF Agreed, InSession, SameLocal
    <3>2. CASE h.cmd # "LOGIN"
      BY <1>1, <1>7, <2>4, <2>8, <3>2 DEF Agreed, Asked, InSession, SameLocal
    <3> QED
      BY <3>1, <3>2
  <2>11. cstate[t] = "upload" => h.cmd = "UPLOAD"
    BY <1>s, <2>8 DEF Sound, JobOK
  <2>12. Replying(t)' \/ Calls(t)' \/ TakesUpload(t)'
    <3>1. CASE /\ stage'[t] = "reply" /\ h.cmd # "UPLOAD"
               /\ h.cmd = "DOWNLOAD" => status'[t] # "OK"
      BY <1>1, <2>8, <2>9, <2>11, <3>1 DEF Replying, Clear, AllSent, SameLocal
    <3>2. CASE /\ stage'[t] = "call" /\ h.cmd = "UPLOAD"
               /\ frame'[t].op \in {"save", "discard"}
               /\ Len(frame'[t].data) = h.len /\ frame'[t].pos = 0
      <4>1. job[t].pos \in Nat
        BY <1>s, <2>4 DEF Sound, ClientAt, Jobs
      <4> QED
        BY <1>1, <2>8, <2>9, <3>2, <4>1 DEF TakesUpload, SameLocal
    <3>3. CASE /\ stage'[t] = "call" /\ h.cmd # "UPLOAD"
               /\ frame'[t].op \in {"list", "delete", "rename", "size"}
               /\ frame'[t].op = "size" <=> h.cmd = "DOWNLOAD"
      BY <1>1, <2>8, <2>9, <3>3 DEF Calls, Clear, SameLocal
    <3> QED
      BY <1>1, <3>1, <3>2, <3>3, ServedEffect
  <2>13. Waiting(t)'
    BY <1>1, <1>7, <2>4, <2>8, <2>10, <2>12 DEF Waiting, Working, SameLocal
  <2> QED
    BY <1>1, <1>s, <2>4, <2>13 DEF Own, Conversation, SameLocal
<1> QED
  BY <1>9, <1>10

(* The operation runs: it takes a part of an upload off the connection, or *)
(* adds a part of a file to it.                                            *)
WorkEffect(t, k, l) ==
    /\ stage[t] = "call" /\ stage'[t] = stage[t] /\ owed'[t] = owed[t]
    /\ session_user'[t] = session_user[t] /\ cmd'[t] = cmd[t] /\ status'[t] = status[t]
    /\ gone'[t] => gone[t] \/ broken[t] \/ cstate[t] = "off"
    /\ SameLocal(t) /\ closed'[t] = closed[t] /\ broken'[t] = broken[t]
    /\ requests[t] \in Seq(RequestTokens) /\ replies[t] \in Seq(ReplyTokens)
    /\ requests'[t] = Rest(requests[t], k) /\ RequestsOK(requests'[t])
    /\ replies'[t] = replies[t] \o Delivered(t, Repeat(Unit, l))
    /\ replies'[t] \in Seq(ReplyTokens)
    /\ frame'[t].op = frame[t].op /\ frame'[t].data = frame[t].data
    /\ frame[t].pos \in Nat /\ Len(frame[t].sent) \in Nat
    /\ k = 1 => /\ frame[t].op \in {"save", "discard"} /\ Len(requests[t]) > 0
                /\ frame'[t].pos = frame[t].pos + 1
    /\ k = 0 => frame'[t].pos = frame[t].pos /\ requests'[t] = requests[t]
    /\ l = 1 => /\ frame[t].op = "stream"
                /\ Len(frame'[t].sent) = Len(frame[t].sent) + 1
    /\ l = 0 => frame'[t].sent = frame[t].sent
    /\ l = 0 \/ broken[t] => replies'[t] = replies[t]

LEMMA WorksEffect ==
    ASSUME SessionInv, PerClient, NEW t \in Threads, Sound(t), ServerWorks(t)
    PROVE  \E k, l \in {0, 1} : WorkEffect(t, k, l)
<1> DEFINE k == frame'[t].pos - frame[t].pos
           l == Len(frame'[t].sent) - Len(frame[t].sent)
<1>1. /\ stage[t] = "call" /\ OpStep(t) /\ stage'[t] = stage[t] /\ owed'[t] = owed[t]
      /\ session_user'[t] = session_user[t] /\ cmd'[t] = cmd[t] /\ status'[t] = status[t]
      /\ SameLocal(t) /\ closed'[t] = closed[t] /\ broken'[t] = broken[t]
  BY DEF ServerWorks, Work, localVars, SameLocal
<1>2. gone'[t] => gone[t] \/ broken[t] \/ cstate[t] = "off"
  <2>1. gone'[t] => gone[t] \/ RecvFailed(t)
    BY DEF ServerWorks, Work, SessionInv, SessionTypeOK
  <2>2. RecvFailed(t) => gone[t] \/ broken[t] \/ "client" \in closed[t]
    BY DEF ServerWorks
  <2> QED
    BY <2>1, <2>2 DEF Sound, Ends
<1>3. /\ requests[t] \in Seq(RequestTokens) /\ RequestsOK(requests[t])
      /\ replies[t] \in Seq(ReplyTokens)
  BY DEF Sound, TokensOK, RequestsOK
<1>4. /\ FrameOK(frame[t]) /\ FrameOK(frame'[t])
      /\ frame'[t].op = frame[t].op /\ frame'[t].data = frame[t].data
      /\ \/ frame'[t].pos = frame[t].pos
         \/ frame'[t].pos = frame[t].pos + 1 /\ frame[t].op \in {"save", "discard"}
      /\ \/ frame'[t].sent = frame[t].sent
         \/ Len(frame'[t].sent) = Len(frame[t].sent) + 1 /\ frame[t].op = "stream"
  BY <1>1, KeepsRequest, OpMoves DEF SessionInv
<1>5. /\ frame[t].pos \in Nat /\ Len(frame[t].sent) \in Nat /\ k \in {0, 1} /\ l \in {0, 1}
      /\ k = 1 => frame[t].op \in {"save", "discard"} /\ frame'[t].pos = frame[t].pos + 1
      /\ k = 0 => frame'[t].pos = frame[t].pos
      /\ l = 1 => frame[t].op = "stream" /\ Len(frame'[t].sent) = Len(frame[t].sent) + 1
      /\ l = 0 => frame'[t].sent = frame[t].sent
  <2>1. /\ frame[t].pos \in Nat /\ Len(frame[t].sent) \in Nat /\ Len(frame'[t].sent) \in Nat
    BY <1>4 DEF FrameOK
  <2> QED
    BY <1>4, <2>1
<1>6. k = 1 => Len(requests[t]) > 0
  <2>1. k = 1 => frame'[t].pos > frame[t].pos
    BY <1>4, <1>5
  <2> HIDE DEF k, l
  <2>2. k = 1 => requests[t] # <<>>
    BY <2>1 DEF ServerWorks
  <2> QED
    BY <1>3, <2>2
<1> HIDE DEF k, l
<1>7. ServerTakes(t, k) /\ ServerSends(t, Repeat(Unit, l))
  BY DEF ServerWorks, k, l
<1>8. requests'[t] = Rest(requests[t], k)
  BY <1>7 DEF ServerTakes, PerClient
<1>9. RequestsOK(requests'[t])
  <2>1. k \in Nat /\ k <= Len(requests[t])
    BY <1>3, <1>5, <1>6
  <2> QED
    BY <1>3, <1>8, <2>1, RequestsRest
<1>10. k = 0 => requests'[t] = requests[t]
  BY <1>3, <1>8, RestEnds
<1>11. replies'[t] = replies[t] \o Delivered(t, Repeat(Unit, l))
  BY <1>7 DEF ServerSends, PerClient
<1>12. replies'[t] \in Seq(ReplyTokens) /\ (broken[t] => replies'[t] = replies[t])
  <2>1. Repeat(Unit, l) \in Seq(ReplyTokens)
    BY <1>5, RepeatProps DEF ReplyTokens
  <2> QED
    BY <1>7, <2>1, SentTokens
<1>13. l = 0 => replies'[t] = replies[t]
  <2>1. Repeat(Unit, 0) = <<>> /\ replies[t] \o <<>> = replies[t]
    BY <1>3, RepeatNone, ConcatEmptySeq
  <2> QED
    BY <1>11, <2>1 DEF Delivered
<1>14. WorkEffect(t, k, l)
  BY <1>1, <1>2, <1>3, <1>4, <1>5, <1>6, <1>8, <1>9, <1>10, <1>11, <1>12, <1>13
     DEF WorkEffect
<1> QED
  BY <1>5, <1>14

LEMMA WorksSound ==
    ASSUME SessionInv, PerClient, NEW t \in Threads, Sound(t), ServerWorks(t)
    PROVE  Sound(t)'
<1>1. PICK k \in {0, 1}, l \in {0, 1} : WorkEffect(t, k, l)
  BY WorksEffect
<1> QED
  BY <1>1, ServerKeepsClient DEF WorkEffect

LEMMA WorksOwn ==
    ASSUME SessionInv, PerClient, NEW t \in Threads, Own(t), ServerWorks(t),
           AnnouncedAt(t), AnnouncedAt(t)'
    PROVE  Own(t)'
<1>s. Sound(t) /\ Sound(t)'
  BY WorksSound DEF Own
<1>1. PICK k \in {0, 1}, l \in {0, 1} : WorkEffect(t, k, l)
  BY <1>s, WorksEffect
<1> USE DEF WorkEffect
<1>10. CASE broken[t]
  <2>1. requests[t] = <<>> => requests'[t] = <<>>
    <3>1. Len(<<>>) = 0
      OBVIOUS
    <3> QED
      BY <1>1, <3>1
  <2>2. replies'[t] = replies[t] /\ stage[t] # "off"
    BY <1>1, <1>10
  <2> QED
    BY <1>1, <1>10, <2>1, <2>2, BrokenOwn
<1>11. CASE k = 0 /\ l = 0
  <2>1. SameSession(t) /\ SameClient(t)
    BY <1>1, <1>11 DEF SameSession, SameClient
  <2> QED
    BY <2>1, SameOwn
<1>12. CASE ~broken[t] /\ k = 1
  <2>0. l = 0
    BY <1>1, <1>12
  <2>1. ~Streaming(t)
    BY <1>1, <1>12 DEF Streaming
  <2>2. cstate[t] \in {"await", "upload", "header"} /\ replies[t] = <<>> /\ Working(t)
    BY <1>1, <1>12, <2>1, MustWork
  <2>3. TakesUpload(t)
    BY <1>1, <1>12, <2>2 DEF Working, Replying, Calls
  <2>4. job[t].pos \in Nat
    BY <1>s, <2>2 DEF Sound, ClientAt, Jobs
  <2>5. PICK i \in Nat : i = job[t].pos - frame[t].pos /\ requests[t] = Repeat(Unit, i)
    BY <1>1, <2>3, <2>4 DEF TakesUpload
  <2>6. i > 0
    BY <1>1, <1>12, <2>5, RepeatNone
  <2>7. 1 \in 0 .. i /\ frame'[t].pos = frame[t].pos + 1
    BY <1>1, <1>12, <2>6
  <2>8. requests'[t] = Repeat(Unit, i - 1)
    BY <1>1, <1>12, <2>5, <2>7, RestOfRepeat
  <2>9. i - 1 = job[t].pos - frame'[t].pos /\ frame'[t].pos <= job[t].pos
    <3>1. PICK p \in Nat, j \in Nat : p = frame[t].pos /\ j = job[t].pos
      BY <1>1, <2>4
    <3>2. i = j - p /\ frame'[t].pos = p + 1
      BY <2>5, <2>7, <3>1
    <3>3. i - 1 = j - (p + 1) /\ p + 1 <= j
      BY <2>6, <3>2
    <3> QED
      BY <3>1, <3>2, <3>3
  <2>10. TakesUpload(t)'
    BY <1>1, <2>3, <2>8, <2>9 DEF TakesUpload, SameLocal
  <2>11. Waiting(t)'
    BY <1>1, <2>0, <2>2, <2>10 DEF Waiting, Working, Agreed, InSession, SameLocal
  <2> QED
    BY <1>1, <1>s, <2>2, <2>11 DEF Own, Conversation, SameLocal
<1>13. CASE ~broken[t] /\ l = 1
  <2>0. k = 0 /\ Streaming(t) /\ Streaming(t)'
    BY <1>1, <1>13 DEF Streaming
  <2>1. Len(frame'[t].sent) = Len(frame[t].sent) + 1 /\ Len(frame'[t].sent) <= owed[t]
    BY <1>1, <1>13, <2>0 DEF AnnouncedAt
  <2>2. owed[t] \in Nat
    BY <2>0, SameNames DEF AnnouncedAt
  <2>3. ~Between(t) /\ ~DoneWith(t) /\ ~Asked(t) /\ ~Working(t) /\ ~Answered(t)
    BY <1>1, <1>13, <2>0, <2>1, <2>2 DEF Between, DoneWith, Streaming, Asked, Working,
       Replying, Calls, TakesUpload, Answered
  <2>4. /\ replies'[t] = replies[t] \o Repeat(Unit, 1) /\ requests'[t] = requests[t]
        /\ Repeat(Unit, 1) \in Seq(ReplyTokens)
    <3>1. Unit \in ReplyTokens
      BY DEF ReplyTokens
    <3> QED
      BY <1>1, <1>13, <2>0, <3>1, RepeatProps DEF Delivered
  <2>5. Clear(t)' = Clear(t) /\ Agreed(t)' = Agreed(t)
    BY <1>1, <2>4 DEF Clear, Agreed, InSession, SameLocal
  <2>6. \A m, n \in Nat : Feeds(t, m, n) =>
            /\ m + 1 <= n /\ n \in VersionSizes /\ Clear(t)' /\ Agreed(t)'
            /\ owed'[t] = n /\ Len(frame'[t].sent) = m + 1
    BY <1>1, <1>13, <2>1, <2>2, <2>3, <2>5 DEF Feeds
  <2>7. Announced(t) => Announced(t)'
    <3>1. SUFFICES ASSUME Announced(t) PROVE Announced(t)'
      OBVIOUS
    <3>2. PICK h \in ReplyHeaders, m \in Nat :
            h.status = "OK" /\ replies[t] = <<h>> \o Repeat(Unit, m) /\ Feeds(t, m, h.len)
      BY <3>1 DEF Announced
    <3>3. h.len \in Nat
      BY DEF ReplyHeaders
    <3>4. /\ m + 1 <= h.len /\ h.len \in VersionSizes /\ Clear(t)' /\ Agreed(t)'
          /\ owed'[t] = h.len /\ Len(frame'[t].sent) = m + 1
      BY <2>6, <3>2, <3>3
    <3>5. replies'[t] = <<h>> \o Repeat(Unit, m + 1)
      <4>1. /\ <<h>> \in Seq(ReplyTokens) /\ Repeat(Unit, m) \in Seq(ReplyTokens)
        <5>1. h \in ReplyTokens /\ Unit \in ReplyTokens
          BY DEF ReplyTokens
        <5> QED
          BY <5>1, RepeatProps
      <4>2. Repeat(Unit, m) \o Repeat(Unit, 1) = Repeat(Unit, m + 1)
        BY RepeatMore
      <4>3. (<<h>> \o Repeat(Unit, m)) \o Repeat(Unit, 1)
              = <<h>> \o (Repeat(Unit, m) \o Repeat(Unit, 1))
        BY <2>4, <4>1, ConcatAssociative
      <4> QED
        BY <2>4, <3>2, <4>2, <4>3
    <3>6. m + 1 \in Nat
      OBVIOUS
    <3> QED
      BY <1>1, <2>0, <3>1, <3>2, <3>4, <3>5, <3>6 DEF Announced, Feeds, SameLocal
  <2>8. ReadsFile(t) /\ job[t] \in Jobs => ReadsFile(t)'
    <3>1. SUFFICES ASSUME ReadsFile(t), job[t] \in Jobs PROVE ReadsFile(t)'
      OBVIOUS
    <3>2. PICK m \in Nat :
            replies[t] = Repeat(Unit, m) /\ Feeds(t, job[t].pos + m, job[t].size)
      BY <3>1 DEF ReadsFile
    <3>3. job[t].pos + m \in Nat /\ job[t].size \in Nat /\ job[t].pos \in Nat
      BY <3>1 DEF Jobs
    <3>4. /\ job[t].pos + m + 1 <= job[t].size /\ job[t].size \in VersionSizes
          /\ Clear(t)' /\ Agreed(t)'
          /\ owed'[t] = job[t].size /\ Len(frame'[t].sent) = job[t].pos + m + 1
      BY <2>6, <3>2, <3>3
    <3>5. replies'[t] = Repeat(Unit, m + 1)
      <4>1. Repeat(Unit, m) \o Repeat(Unit, 1) = Repeat(Unit, m + 1)
        BY RepeatMore
      <4> QED
        BY <2>4, <3>2, <4>1
    <3>6. m + 1 \in Nat /\ job[t].pos + (m + 1) = job[t].pos + m + 1
      BY <3>3
    <3> QED
      BY <1>1, <2>0, <3>4, <3>5, <3>6 DEF ReadsFile, Feeds, SameLocal
  <2>11. Conversation(t)'
    BY <1>1, <1>13, <1>s, <2>0, <2>3, <2>5, <2>7, <2>8 DEF Own, Sound, ClientAt, Conversation,
       Left, Idle, Waiting, ReadsError, SameLocal
  <2> QED
    BY <1>s, <2>11 DEF Own
<1> QED
  BY <1>10, <1>11, <1>12, <1>13

(* The session announces a file, or cannot. *)
LEMMA AnnouncesEffect ==
    ASSUME SessionInv, PerClient, NEW t \in Threads, Sound(t), ServerAnnounces(t),
           NEW h, h = ResponseHeader(t, "OK", frame[t].size)
    PROVE  /\ stage[t] = "call" /\ pc[t] = "done" /\ frame[t].op = "size" /\ frame[t].ok
           /\ session_user'[t] = session_user[t] /\ gone'[t] = gone[t] /\ SameLocal(t)
           /\ requests'[t] = requests[t] /\ closed'[t] = closed[t] /\ broken'[t] = broken[t]
           /\ stage'[t] \in {"call", "end"} /\ RequestsOK(requests'[t])
           /\ h \in ReplyHeaders /\ h.status = "OK" /\ h.len = frame[t].size
           /\ <<h>> \in Seq(ReplyTokens) /\ replies'[t] \in Seq(ReplyTokens)
           /\ broken[t] => replies'[t] = replies[t]
<1>1. /\ stage[t] = "call" /\ pc[t] = "done" /\ frame[t].op = "size" /\ frame[t].ok
      /\ session_user'[t] = session_user[t] /\ gone'[t] = gone[t] /\ SameLocal(t)
      /\ requests'[t] = requests[t] /\ closed'[t] = closed[t] /\ broken'[t] = broken[t]
  BY DEF ServerAnnounces, SendSize, SendSizeFails, Returned, localVars, SameLocal
<1>2. stage'[t] \in {"call", "end"}
  BY <1>1 DEF ServerAnnounces, SendSize, SendSizeFails, Enter, SessionInv, SessionTypeOK
<1>3. h \in ReplyHeaders /\ h.status = "OK" /\ h.len = frame[t].size
  <2>1. frame[t].size \in Nat
    BY <1>1, InOperation DEF SessionInv, StorageInv, FrameAt
  <2>2. cmd[t] \in Commands \cup {Nothing, "UNKNOWN"}
    BY SameNames DEF SessionInv, SessionTypeOK, FileCommands, Commands
  <2> QED
    BY <2>1, <2>2 DEF ResponseHeader, ReplyHeaders
<1>4. <<h>> \in Seq(ReplyTokens)
  BY <1>3 DEF ReplyTokens
<1>5. ServerSends(t, <<h>>) \/ UNCHANGED replies
  BY DEF ServerAnnounces
<1>6. RequestsOK(requests'[t])
  BY <1>1 DEF Sound, TokensOK
<1> QED
  BY <1>1, <1>2, <1>3, <1>4, <1>5, <1>6, SentTokens

LEMMA AnnouncesSound ==
    ASSUME SessionInv, PerClient, NEW t \in Threads, Sound(t), ServerAnnounces(t)
    PROVE  Sound(t)'
<1>1. PICK h : h = ResponseHeader(t, "OK", frame[t].size)
  OBVIOUS
<1>2. /\ stage[t] # "off" /\ stage'[t] # "off" /\ gone'[t] = gone[t] /\ SameLocal(t)
      /\ closed'[t] = closed[t] /\ broken'[t] = broken[t]
      /\ RequestsOK(requests'[t]) /\ replies'[t] \in Seq(ReplyTokens)
  BY <1>1, AnnouncesEffect
<1> QED
  BY <1>2, ServerKeepsClient

LEMMA AnnouncesOwn ==
    ASSUME SessionInv, PerClient, NEW t \in Threads, Own(t), ServerAnnounces(t),
           AnnouncedAt(t)'
    PROVE  Own(t)'
<1>s. Sound(t) /\ Sound(t)'
  BY AnnouncesSound DEF Own
<1>h. PICK h : h = ResponseHeader(t, "OK", frame[t].size)
  OBVIOUS
<1>1. /\ stage[t] = "call" /\ pc[t] = "done" /\ frame[t].op = "size" /\ frame[t].ok
      /\ session_user'[t] = session_user[t] /\ gone'[t] = gone[t] /\ SameLocal(t)
      /\ requests'[t] = requests[t] /\ closed'[t] = closed[t] /\ broken'[t] = broken[t]
      /\ stage'[t] \in {"call", "end"} /\ RequestsOK(requests'[t])
      /\ h \in ReplyHeaders /\ h.status = "OK" /\ h.len = frame[t].size
      /\ <<h>> \in Seq(ReplyTokens) /\ replies'[t] \in Seq(ReplyTokens)
      /\ broken[t] => replies'[t] = replies[t]
  BY <1>h, <1>s, AnnouncesEffect
<1>2. ~Streaming(t)
  BY <1>1 DEF Streaming
<1>6. CASE broken[t]
  <2>1. stage[t] # "off" /\ stage'[t] # "off" /\ replies'[t] = replies[t]
    BY <1>1, <1>6
  <2> QED
    BY <1>1, <1>6, <2>1, BrokenOwn
<1>7. CASE ~broken[t]
  <2>1. cstate[t] \in {"await", "upload", "header"} /\ replies[t] = <<>> /\ Working(t)
    BY <1>1, <1>2, <1>7, MustWork
  <2>2. Clear(t) /\ Agreed(t) /\ job[t].cmd = "DOWNLOAD" /\ cstate[t] = "header"
    BY <1>1, <1>s, <2>1 DEF Working, Replying, Calls, TakesUpload, Sound, JobOK
  <2>3. ~ClientGone(t)
    BY <1>7, <1>s, <2>1 DEF ClientGone, Sound, Ends
  <2>5. SendSize(t) /\ ServerSends(t, <<h>>)
    BY <1>h, <2>3 DEF ServerAnnounces
  <2>6. /\ stage'[t] = "call" /\ owed'[t] = h.len /\ frame'[t].op = "stream"
        /\ frame'[t].sent = <<>>
    BY <1>1, <2>5 DEF SendSize, NewFrame, SessionInv, SessionTypeOK, TypeOK
  <2>7. replies'[t] = <<h>> \o Repeat(Unit, 0)
    <3>1. replies'[t] = <<>> \o <<h>>
      BY <1>1, <1>7, <1>s, <2>1, <2>5, SentTokens
    <3>2. Repeat(Unit, 0) = <<>> /\ <<>> \o <<h>> = <<h>> /\ <<h>> \o <<>> = <<h>>
      BY <1>1, RepeatNone, ConcatEmptySeq
    <3> QED
      BY <3>1, <3>2
  <2>8. Streaming(t)' /\ h.len \in VersionSizes /\ Len(frame'[t].sent) = 0
    BY <2>6 DEF Streaming, AnnouncedAt
  <2>9. Clear(t)' /\ Agreed(t)'
    BY <1>1, <2>2 DEF Clear, Agreed, InSession, SameLocal
  <2>10. 0 <= h.len
    <3>1. h.len \in Nat
      BY <1>1 DEF ReplyHeaders
    <3> QED
      BY <3>1
  <2>11. Announced(t)'
    BY <1>1, <2>2, <2>6, <2>7, <2>8, <2>9, <2>10 DEF Announced, Feeds, SameLocal
  <2> QED
    BY <1>1, <1>s, <2>2, <2>11 DEF Own, Conversation, Waiting, SameLocal
<1> QED
  BY <1>6, <1>7

(* The session answers: that is the response the client waits for. *)
LEMMA RepliesEffect ==
    ASSUME SessionInv, PerClient, NEW t \in Threads, Sound(t), ServerReplies(t),
           NEW h, h = ResponseHeader(t, status[t], 1)
    PROVE  /\ stage[t] = "reply"
           /\ session_user'[t] = session_user[t] /\ gone'[t] = gone[t] /\ SameLocal(t)
           /\ requests'[t] = requests[t] /\ closed'[t] = closed[t] /\ broken'[t] = broken[t]
           /\ stage'[t] \in {"loop", "end"} /\ RequestsOK(requests'[t])
           /\ h \in ReplyHeaders /\ h.status = status[t] /\ h.len = 1
           /\ <<h, Text>> \in Seq(ReplyTokens) /\ replies'[t] \in Seq(ReplyTokens)
           /\ broken[t] => replies'[t] = replies[t]
<1>1. /\ stage[t] = "reply"
      /\ session_user'[t] = session_user[t] /\ gone'[t] = gone[t] /\ SameLocal(t)
      /\ requests'[t] = requests[t] /\ closed'[t] = closed[t] /\ broken'[t] = broken[t]
  BY DEF ServerReplies, Reply, localVars, SameLocal
<1>2. stage'[t] \in {"loop", "end"}
  BY <1>1 DEF ServerReplies, Reply, Enter, SessionInv, SessionTypeOK
<1>3. h \in ReplyHeaders /\ h.status = status[t] /\ h.len = 1
  <2>1. status[t] \in {Nothing, "OK", "CREATED", "BAD_REQUEST", "NOT_FOUND", "INTERNAL_ERROR"}
    BY SameNames DEF SessionInv, SessionTypeOK
  <2>2. cmd[t] \in Commands \cup {Nothing, "UNKNOWN"}
    BY SameNames DEF SessionInv, SessionTypeOK, FileCommands, Commands
  <2> QED
    BY <2>1, <2>2 DEF ResponseHeader, ReplyHeaders
<1>4. <<h, Text>> \in Seq(ReplyTokens)
  BY <1>3 DEF ReplyTokens
<1>5. ServerSends(t, <<h, Text>>) \/ UNCHANGED replies
  BY DEF ServerReplies
<1>6. RequestsOK(requests'[t])
  BY <1>1 DEF Sound, TokensOK
<1> QED
  BY <1>1, <1>2, <1>3, <1>4, <1>5, <1>6, SentTokens

LEMMA RepliesSound ==
    ASSUME SessionInv, PerClient, NEW t \in Threads, Sound(t), ServerReplies(t)
    PROVE  Sound(t)'
<1>1. PICK h : h = ResponseHeader(t, status[t], 1)
  OBVIOUS
<1>2. /\ stage[t] # "off" /\ stage'[t] # "off" /\ gone'[t] = gone[t] /\ SameLocal(t)
      /\ closed'[t] = closed[t] /\ broken'[t] = broken[t]
      /\ RequestsOK(requests'[t]) /\ replies'[t] \in Seq(ReplyTokens)
  BY <1>1, RepliesEffect
<1> QED
  BY <1>2, ServerKeepsClient

LEMMA RepliesOwn ==
    ASSUME SessionInv, PerClient, NEW t \in Threads, Own(t), ServerReplies(t)
    PROVE  Own(t)'
<1>s. Sound(t) /\ Sound(t)'
  BY RepliesSound DEF Own
<1>h. PICK h : h = ResponseHeader(t, status[t], 1)
  OBVIOUS
<1>1. /\ stage[t] = "reply"
      /\ session_user'[t] = session_user[t] /\ gone'[t] = gone[t] /\ SameLocal(t)
      /\ requests'[t] = requests[t] /\ closed'[t] = closed[t] /\ broken'[t] = broken[t]
      /\ stage'[t] \in {"loop", "end"} /\ RequestsOK(requests'[t])
      /\ h \in ReplyHeaders /\ h.status = status[t] /\ h.len = 1
      /\ <<h, Text>> \in Seq(ReplyTokens) /\ replies'[t] \in Seq(ReplyTokens)
      /\ broken[t] => replies'[t] = replies[t]
  BY <1>h, <1>s, RepliesEffect
<1>2. ~Streaming(t)
  BY <1>1 DEF Streaming
<1>6. CASE broken[t]
  <2>1. stage[t] # "off" /\ stage'[t] # "off" /\ replies'[t] = replies[t]
    BY <1>1, <1>6
  <2> QED
    BY <1>1, <1>6, <2>1, BrokenOwn
<1>7. CASE ~broken[t]
  <2>1. cstate[t] \in {"await", "upload", "header"} /\ replies[t] = <<>> /\ Working(t)
    BY <1>1, <1>2, <1>7, MustWork
  <2>2. Clear(t) /\ Agreed(t) /\ Replying(t)
    BY <1>1, <2>1 DEF Working, Replying, Calls, TakesUpload
  <2>3. ~ClientGone(t)
    BY <1>7, <1>s, <2>1 DEF ClientGone, Sound, Ends
  <2>5. ServerSends(t, <<h, Text>>)
    BY <1>h, <2>3 DEF ServerReplies
  <2>6. replies'[t] = <<h, Text>>
    <3>1. replies'[t] = <<>> \o <<h, Text>>
      BY <1>1, <1>7, <1>s, <2>1, <2>5, SentTokens
    <3> QED
      BY <1>1, <3>1, ConcatEmptySeq
  <2>7. cstate[t] = "header" => h.status # "OK"
    BY <1>1, <1>s, <2>2 DEF Replying, Sound, JobOK
  <2>8. Clear(t)' /\ Agreed(t)' /\ Between(t)' /\ AllSent(t)'
    BY <1>1, <2>2 DEF Clear, Agreed, InSession, SameLocal, Between, AllSent, Replying
  <2>9. Answered(t)'
    BY <1>1, <2>6, <2>7, <2>8 DEF Answered, SameLocal
  <2> QED
    BY <1>1, <1>s, <2>1, <2>9 DEF Own, Conversation, Waiting, SameLocal
<1> QED
  BY <1>6, <1>7

(* The operation returns, or a file has been sent. *)
LEMMA ReturnsSound ==
    ASSUME SessionInv, PerClient, NEW t \in Threads, Sound(t),
           CollectResult(t) \/ Streamed(t), UNCHANGED clientVars
    PROVE  Sound(t)'
<1>1. stage[t] = "call" /\ gone'[t] = gone[t]
  BY DEF CollectResult, Streamed, Returned
<1>2. SameClient(t)
  BY DEF clientVars, netVars, SameClient, SameLocal
<1>3. "server" \notin closed[t] /\ InSession(t)
  BY <1>1 DEF Sound, Ends, InSession
<1> QED
  BY <1>1, <1>2, <1>3, QuietSound

(* An upload has been taken off the connection. *)
LEMMA CollectOwn ==
    ASSUME SessionInv, PerClient, NEW t \in Threads, Own(t), CollectResult(t),
           UNCHANGED clientVars
    PROVE  Own(t)'
<1>s. Sound(t) /\ Sound(t)'
  BY ReturnsSound DEF Own
<1>1. /\ stage[t] = "call" /\ pc[t] = "done"
      /\ frame[t].op \in {"save", "discard", "list", "delete", "rename", "size"}
      /\ frame[t].op = "size" => ~frame[t].ok
      /\ stage'[t] = "reply" /\ status'[t] = ResultStatus(t)
      /\ session_user'[t] = session_user[t] /\ cmd'[t] = cmd[t] /\ gone'[t] = gone[t]
  BY DEF CollectResult, Returned, Enter, Status, SessionInv, SessionTypeOK
<1>2. /\ SameLocal(t) /\ requests'[t] = requests[t] /\ replies'[t] = replies[t]
      /\ closed'[t] = closed[t] /\ broken'[t] = broken[t] /\ ~Streaming(t)
  BY <1>1 DEF clientVars, netVars, SameLocal, Streaming
<1>3. /\ requests[t] \in Seq(RequestTokens) /\ RequestsOK(requests[t])
      /\ replies[t] \in Seq(ReplyTokens)
  BY <1>s DEF Sound, TokensOK, RequestsOK
<1>4. CASE broken[t]
  BY <1>1, <1>2, <1>3, <1>4, BrokenOwn
<1>5. CASE ~broken[t]
  <2>1. cstate[t] \in {"await", "upload", "header"} /\ replies[t] = <<>> /\ Working(t)
    BY <1>1, <1>2, <1>5, MustWork
  <2>2. Agreed(t)'
    BY <1>1, <1>2, <2>1 DEF Agreed, InSession, SameLocal, Working
  <2>3. CASE Calls(t)
    <3>1. job[t].cmd = "DOWNLOAD" => status'[t] # "OK"
      BY <1>1, <2>3 DEF Calls, ResultStatus
    <3>2. Clear(t)' /\ AllSent(t)'
      BY <1>2, <1>s, <2>1, <2>3 DEF Calls, Clear, AllSent, SameLocal, Sound, JobOK
    <3> QED
      BY <1>1, <1>2, <1>s, <2>1, <2>2, <3>1, <3>2 DEF Own, Conversation, Waiting, Working,
         Replying, SameLocal
  <2>4. CASE TakesUpload(t)
    <3>1. Remaining(t) = 0
      <4>1. gone[t] \/ Remaining(t) = 0
        BY <1>1 DEF SessionInv, WorkerOK, PayloadLabels
      <4> QED
        BY <1>1, <1>5, <1>s, <2>1, <4>1 DEF Sound, Ends, InSession
    <3>2. /\ job[t].pos \in Nat /\ job[t].size \in Nat /\ job[t].cmd = "UPLOAD"
          /\ job[t].pos <= job[t].real
          /\ ~changed[t] => job[t].real = job[t].size
      BY <1>s, <2>1, <2>4 DEF Sound, ClientAt, Jobs, JobOK, TakesUpload
    <3>3. frame[t].pos = job[t].size
      <4>1. frame[t].pos \in Nat /\ Len(frame[t].data) = job[t].size
        BY <1>1, <2>4, CallFrame DEF WorksOn, TakesUpload
      <4> QED
        BY <3>1, <3>2, <4>1 DEF Remaining
    <3>4. PICK i \in Nat : i = job[t].pos - job[t].size /\ requests[t] = Repeat(Unit, i)
      BY <2>4, <3>2, <3>3 DEF TakesUpload
    <3>5. ~changed[t] => i = 0 /\ job[t].pos = job[t].size
      BY <3>2, <3>4
    <3>6. Clear(t)
      <4>1. CASE i = 0
        BY <3>4, <4>1, RepeatNone DEF Clear
      <4>2. CASE i > 0
        <5>1. Len(requests[t]) = i /\ requests[t][1] = Unit
          <6>1. Unit \in RequestTokens /\ 1 \in 1 .. i
            BY <4>2 DEF RequestTokens
          <6>2. Len(Repeat(Unit, i)) = i /\ \A j \in 1 .. i : Repeat(Unit, i)[j] = Unit
            BY <6>1, RepeatProps
          <6> QED
            BY <3>4, <6>1, <6>2
        <5> QED
          BY <1>3, <3>5, <4>2, <5>1 DEF Clear
      <4> QED
        BY <4>1, <4>2
    <3>7. Clear(t)' /\ AllSent(t)'
      BY <1>2, <3>5, <3>6 DEF Clear, AllSent, SameLocal
    <3> QED
      BY <1>1, <1>2, <1>s, <2>1, <2>2, <3>2, <3>7 DEF Own, Conversation, Waiting, Working,
         Replying, SameLocal
  <2> QED
    BY <1>1, <2>1, <2>3, <2>4 DEF Working, Replying
<1> QED
  BY <1>4, <1>5

(* A file has been sent, or the session ends. *)
LEMMA StreamedOwn ==
    ASSUME SessionInv, PerClient, NEW t \in Threads, Own(t), Streamed(t),
           UNCHANGED clientVars, AnnouncedAt(t)
    PROVE  Own(t)'
<1>1. /\ stage[t] = "call" /\ frame[t].op = "stream" /\ Streaming(t)
      /\ stage'[t] = (IF frame[t].ok THEN "loop" ELSE "end")
      /\ session_user'[t] = session_user[t] /\ gone'[t] = gone[t]
  BY DEF Streamed, Returned, Enter, SessionInv, SessionTypeOK, Streaming
<1>2. /\ SameLocal(t) /\ requests'[t] = requests[t] /\ replies'[t] = replies[t]
      /\ closed'[t] = closed[t] /\ broken'[t] = broken[t]
  BY DEF clientVars, netVars, SameLocal
<1>4. "server" \notin closed[t] /\ Sound(t) /\ Sound(t)'
  BY <1>1, ReturnsSound DEF Own, Sound, Ends
<1>5. /\ Between(t)' /\ DoneWith(t)' /\ Clear(t)' = Clear(t) /\ Agreed(t)' = Agreed(t)
      /\ AllSent(t)' = AllSent(t) /\ ~Between(t) /\ ~Working(t)
  BY <1>1, <1>2 DEF Between, DoneWith, Clear, Agreed, InSession, AllSent, SameLocal, Working,
     Replying, Calls, TakesUpload
<1>6. stage'[t] = "end" \/ Len(frame[t].sent) = owed[t]
  BY <1>1 DEF AnnouncedAt
<1>7. /\ Asked(t) => Asked(t)'
      /\ Answered(t) => Answered(t)'
  BY <1>2, <1>5 DEF Asked, InFlight, Answered, SameLocal
<1>8. Announced(t) => Announced(t)'
  BY <1>2, <1>4, <1>5, <1>6 DEF Announced, Feeds, SameLocal
<1>9. ReadsFile(t) => ReadsFile(t)'
  BY <1>2, <1>4, <1>5, <1>6 DEF ReadsFile, Feeds, SameLocal
<1>10. Conversation(t)'
  BY <1>1, <1>2, <1>5, <1>7, <1>8, <1>9 DEF Own, Conversation, Left, Idle, Waiting, ReadsError,
     SameLocal
<1> QED
  BY <1>4, <1>10 DEF Own

(* A new connection begins at a message boundary, with nobody logged in. *)
LEMMA ConnectOwn ==
    ASSUME SessionInv, PerClient, NEW t \in Threads, Sound(t), Connect(t)
    PROVE  Own(t)'
<1>1. /\ cstate[t] = "off" /\ cstate'[t] = "prompt" /\ username_'[t] = Nothing
      /\ requests'[t] = <<>> /\ replies'[t] = <<>> /\ closed'[t] = {} /\ broken'[t] = FALSE
      /\ job'[t] = job[t] /\ local'[t] = local[t] /\ changed'[t] = changed[t]
  BY DEF Connect, connect_to_server, At, Go, PerClient
<1>2. stage'[t] = "off"
  BY DEF Connect, allVars, sessionVars
<1>3. RequestsOK(<<>>) /\ <<>> \in Seq(ReplyTokens)
  BY DEF RequestsOK
<1>4. Sound(t)'
  BY <1>1, <1>2, <1>3 DEF Sound, ClientAt, TokensOK, JobOK, Ends, InSession
<1>5. Idle(t)'
  BY <1>1, <1>2 DEF Idle, Clear, Agreed, DoneWith, Between, InSession
<1> QED
  BY <1>1, <1>4, <1>5 DEF Own, Conversation

LEMMA BreakSound ==
    ASSUME PerClient, NEW t \in Threads, Sound(t), Break(t)
    PROVE  Sound(t)'
<1>1. SameSession(t)
  BY StillSession DEF Break
<1>2. /\ SameLocal(t) /\ requests'[t] = requests[t] /\ replies'[t] = replies[t]
      /\ closed'[t] = closed[t] /\ broken'[t] = TRUE
  BY DEF Break, localVars, SameLocal, PerClient
<1> QED
  BY <1>1, <1>2 DEF Sound, ClientAt, TokensOK, RequestsOK, JobOK, Ends, SameLocal, SameSession,
     InSession

LEMMA BreakOwn ==
    ASSUME PerClient, NEW t \in Threads, Own(t), Break(t)
    PROVE  Own(t)'
<1>1. SameSession(t)
  BY StillSession DEF Break
<1>2. /\ SameLocal(t) /\ requests'[t] = requests[t] /\ replies'[t] = replies[t]
      /\ closed'[t] = closed[t] /\ broken'[t] = TRUE
  BY DEF Break, localVars, SameLocal, PerClient
<1>3. Sound(t)'
  BY BreakSound DEF Own
<1>4. (Clear(t) => Clear(t)') /\ Agreed(t)' = Agreed(t) /\ AllSent(t)' = AllSent(t)
  BY <1>1, <1>2 DEF Clear, Agreed, InSession, AllSent, SameLocal, SameSession
<1>5. Answered(t) => Answered(t)'
  BY <1>2, <1>4 DEF Answered, SameLocal
<1>6. Announced(t) => Announced(t)'
  BY <1>2, <1>4 DEF Announced, Feeds, SameLocal
<1>7. ReadsFile(t) => ReadsFile(t)'
  BY <1>2, <1>4 DEF ReadsFile, Feeds, SameLocal
<1>8. Conversation(t)'
  BY <1>2, <1>4, <1>5, <1>6, <1>7 DEF Own, Conversation, Left, Idle, Waiting, ReadsError,
     SameLocal
<1> QED
  BY <1>3, <1>8 DEF Own

(* Every step of a session leaves the client's own state in order, ...     *)
LEMMA ServerSound ==
    ASSUME SessionInv, PerClient, NEW t \in Threads, Sound(t),
           Connect(t) \/ ServerStep(t) \/ Break(t)
    PROVE  Sound(t)'
<1>1. CASE (Loop(t) \/ ReceiveFails(t)) /\ UNCHANGED clientVars
  <2>1. stage[t] \in {"loop", "recv"} /\ gone'[t] = gone[t] /\ SameClient(t)
    BY <1>1 DEF Loop, ReceiveFails, clientVars, netVars, SameClient, SameLocal
  <2>2. "server" \notin closed[t] /\ InSession(t)
    BY <2>1 DEF Sound, Ends, InSession
  <2> QED
    BY <2>1, <2>2, QuietSound
<1>2. CASE ServerBegins(t)
  <2>1. "server" \notin closed[t] /\ gone'[t] = FALSE /\ SameClient(t)
    BY <1>2 DEF ServerBegins, Queued, Begin, SessionInv, SessionTypeOK, clientVars, netVars,
       SameClient, SameLocal
  <2> QED
    BY <2>1, QuietSound
<1>3. CASE Connect(t)
  BY <1>3, ConnectOwn DEF Own
<1> QED
  BY <1>1, <1>2, <1>3, ReceivesSound, WorksSound, AnnouncesSound, RepliesSound, ClosesSound,
     ReturnsSound, BreakSound DEF ServerStep, ServerReceiveFails

(* ... and the conversation, as long as the client was told the truth.     *)
LEMMA ServerOwn ==
    ASSUME SessionInv, PerClient, NEW t \in Threads, Own(t),
           Connect(t) \/ ServerStep(t) \/ Break(t), AnnouncedAt(t), AnnouncedAt(t)'
    PROVE  Own(t)'
<1>1. Sound(t)
  BY DEF Own
<1> QED
  BY <1>1, ConnectOwn, BreakOwn, BeginsOwn, ReceivesOwn, LoopOwn, WorksOwn, AnnouncesOwn,
     RepliesOwn, ClosesOwn, CollectOwn, StreamedOwn DEF ServerStep, ServerReceiveFails

-----------------------------------------------------------------------------
(* The other clients. *)

LEMMA OthersTalk ==
    ASSUME SessionInv, NEW t \in Threads, Begin(t) \/ Request(t) \/ Progress(t)
    PROVE  \A s \in Threads \ {t} : SameSession(s)
<1>t. /\ DOMAIN session_user = Threads /\ DOMAIN cmd = Threads /\ DOMAIN status = Threads
      /\ DOMAIN owed = Threads
  BY DEF SessionInv, SessionTypeOK
<1>1. \A s \in Threads \ {t} : stage'[s] = stage[s] /\ gone'[s] = gone[s] /\ frame'[s] = frame[s]
  BY OthersSessions
<1>2. \A s \in Threads \ {t} : session_user'[s] = session_user[s] /\ cmd'[s] = cmd[s]
  BY <1>t DEF Begin, Request, Progress, Receive, Loop, Work, CollectResult, SendSize,
     SendSizeFails, Streamed, Reply, SessionEnd, LOGIN, Refuse, UPLOAD, DOWNLOAD, LIST,
     DELETE_F, RENAME, QUIT, Unknown, ReceiveFails, ReceiveThrows, Serve
<1>3. \A s \in Threads \ {t} : owed'[s] = owed[s]
  BY <1>t DEF Begin, Request, Progress, Receive, Loop, Work, CollectResult, SendSize,
     SendSizeFails, Streamed, Reply, SessionEnd, LOGIN, Refuse, UPLOAD, DOWNLOAD, LIST,
     DELETE_F, RENAME, QUIT, Unknown, ReceiveFails, ReceiveThrows, Serve
<1>4. \A s \in Threads \ {t} : status'[s] = status[s]
  BY <1>t DEF Begin, Request, Progress, Receive, Loop, Work, CollectResult, SendSize,
     SendSizeFails, Streamed, Reply, SessionEnd, LOGIN, Refuse, UPLOAD, DOWNLOAD, LIST,
     DELETE_F, RENAME, QUIT, Unknown, ReceiveFails, ReceiveThrows, Serve, Answer, Status
<1> QED
  BY <1>1, <1>2, <1>3, <1>4 DEF SameSession

\* A step of client t, or of its session, at most.
OnlyOf(t) == PerClient' /\ \A s \in Threads \ {t} : SameClient(s)

LEMMA ServerOnly ==
    ASSUME PerClient, NEW t \in Threads, Connect(t) \/ ServerStep(t) \/ Break(t)
    PROVE  OnlyOf(t)
<1> USE DEF OnlyOf, PerClient, SameClient, SameLocal
<1>1. CASE Connect(t)
  BY <1>1 DEF Connect, connect_to_server, Go
<1>2. CASE ServerReceives(t)
  BY <1>2 DEF ServerReceives, ServerTakes, localVars
<1>3. CASE ServerWorks(t)
  BY <1>3 DEF ServerWorks, ServerTakes, ServerSends, localVars
<1>4. CASE ServerAnnounces(t) \/ ServerReplies(t)
  BY <1>4 DEF ServerAnnounces, ServerReplies, ServerSends, localVars
<1>5. CASE ServerCloses(t) \/ ServerRefuses(t) \/ Break(t)
  BY <1>5 DEF ServerCloses, ServerRefuses, Close, Break, localVars
<1>6. CASE UNCHANGED clientVars
  BY <1>6 DEF clientVars, netVars
<1> QED
  BY <1>1, <1>2, <1>3, <1>4, <1>5, <1>6 DEF ServerStep, ServerReceiveFails, ServerBegins

LEMMA ClientOnly ==
    ASSUME PerClient, NEW t \in Threads,
           process_command(t) \/ EndOfInput(t) \/ ClientStep(t)
    PROVE  OnlyOf(t)
<1> USE DEF OnlyOf, PerClient, SameClient, SameLocal, Go
<1>1. ASSUME NEW j, NEW user, NEW payload, NEW next, Command(t, j, user, payload, next)
      PROVE  OnlyOf(t)
  BY <1>1 DEF Command, Send, disconnect, Close
<1>2. CASE process_command(t)
  BY <1>1, <1>2 DEF process_command, login, SendList, quit, SendDelete, SendRename,
     send_command, upload_file, download_file
<1>3. CASE EndOfInput(t) \/ ResponseFails(t)
  BY <1>3 DEF EndOfInput, ResponseFails, disconnect, Close
<1>4. CASE UploadPart(t) \/ Uploaded(t)
  BY <1>4 DEF UploadPart, Uploaded, Send, Advance, disconnect, Close, netVars
<1>5. CASE receive_response(t)
  BY <1>5 DEF receive_response, Take, Prompt, disconnect, Close
<1>6. CASE DownloadHeader(t) \/ DownloadError(t)
  BY <1>6 DEF DownloadHeader, DownloadError, Take, Prompt
<1>7. CASE CreateFile(t)
  BY <1>7 DEF CreateFile, SetLocal, disconnect, Close
<1>8. CASE DownloadPart(t)
  BY <1>8 DEF DownloadPart, SetLocal, Take, Advance
<1>9. CASE DownloadBreaks(t)
  BY <1>9 DEF DownloadBreaks, SetLocal, disconnect, Close
<1>10. CASE Downloaded(t)
  BY <1>10 DEF Downloaded, Prompt
<1> QED
  BY <1>2, <1>3, <1>4, <1>5, <1>6, <1>7, <1>8, <1>9, <1>10 DEF ClientStep

-----------------------------------------------------------------------------
(* What the server tells a client of the length of a file. *)

(* What misleads a client is remembered. *)
LEMMA MisledStep ==
    ASSUME misled \in [Threads -> BOOLEAN], NEW t \in Threads, ServerStep(t)
    PROVE  /\ misled' \in [Threads -> BOOLEAN]
           /\ \A s \in Threads : misled[s] => misled'[s]
           /\ ~misled'[t] => ~misled[t] /\ ~Misleads(t)
<1>1. misled' = [misled EXCEPT ![t] = @ \/ Misleads(t)]
  BY DEF ServerStep
<1>2. (misled[t] \/ Misleads(t)) \in BOOLEAN
  OBVIOUS
<1>3. misled' \in [Threads -> BOOLEAN]
  BY <1>1, <1>2, Zenon
<1>4. misled'[t] = (misled[t] \/ Misleads(t))
  BY <1>1, Zenon
<1>5. \A s \in Threads \ {t} : misled'[s] = misled[s]
  BY <1>1, Zenon
<1> QED
  BY <1>3, <1>4, <1>5, Zenon

(* While a file is sent its reader holds the lock, and nobody changes it. *)
LEMMA FileSent ==
    ASSUME OneKeyPerFile, SessionInv, NoWrap, NEW t \in Threads, NEW s \in Threads \ {t},
           Begin(s) \/ Request(s) \/ Progress(s), pc[t] = "stream_send"
    PROVE  File(frame[t].key)' = File(frame[t].key)
<1>0. StorageInv /\ SessionTypeOK
  BY DEF SessionInv
<1>1. frame'[t] = frame[t]
  BY OthersSessions
<1>2. CASE UNCHANGED disk
  BY <1>1, <1>2 DEF File
<1>3. CASE OpStep(s)
  <2>1. PICK k \in Keys : k = frame[t].key
    BY <1>0, InOperation DEF StorageInv
  <2>2. Holds(t, k)
    BY <1>0, <2>1, ZenonT(60) DEF StorageInv, LocksFollowControl, LocksAt, HasLocked, OpKeys,
       Holds, ReadLabels, WriteLabels
  <2>3. ~HoldsExclusive(s, k)
    BY <1>0, <2>2, UpdatesApart DEF Holds
  <2>4. File(k)' = File(k)
    BY <1>0, <1>3, <2>3, TouchesOwnFiles DEF FileStays
  <2> QED
    BY <1>1, <2>1, <2>4
<1>4. CASE UNCHANGED vars \/ Starts(s) \/ Finish(s)
  <2>1. UNCHANGED disk
    BY <1>4 DEF vars, storeVars, diskVars, Starts, StartsWith, Finish
  <2> QED
    BY <1>2, <2>1
<1> QED
  BY <1>0, <1>3, <1>4, SessionStorage

(* What a client was told stays true while its session does nothing. *)
LEMMA ToldStays ==
    ASSUME NEW t \in Threads, Told(t), misled[t] => misled'[t],
           stage'[t] = stage[t], owed'[t] = owed[t], pc'[t] = pc[t], frame'[t] = frame[t],
           pc[t] = "stream_send" => File(frame[t].key)' = File(frame[t].key)
    PROVE  Told(t)'
BY DEF Told, AnnouncedAt, Streaming

(* Of the steps of a session two send a file or begin to. *)
LEMMA SendsNothing ==
    ASSUME SessionInv, NEW t \in Threads,
           \/ Begin(t) \/ Request(t) \/ Loop(t) \/ CollectResult(t) \/ SendSizeFails(t)
           \/ Streamed(t) \/ Reply(t) \/ SessionEnd(t)
    PROVE  ~Streaming(t)'
<1>t. /\ stage \in [Threads -> {"off", "loop", "recv", "call", "reply", "end"}]
      /\ DOMAIN frame = Threads
  BY DEF SessionInv, SessionTypeOK, StorageInv, TypeOK
<1>1. CASE ~Request(t)
  <2>1. stage'[t] # "call"
    BY <1>1, <1>t DEF Begin, Loop, CollectResult, SendSizeFails, Streamed, Reply, SessionEnd,
       Enter
  <2> QED
    BY <2>1 DEF Streaming
<1>2. CASE Request(t)
  <2>0. ASSUME frame'[t].op # "stream" PROVE ~Streaming(t)'
    BY <2>0 DEF Streaming
  <2>1. ASSUME NEW d \in Payloads, discard_data(t, d) PROVE ~Streaming(t)'
    BY <1>t, <2>0, <2>1 DEF discard_data, Call, NewFrame
  <2>2. ASSUME NEW k \in Keys, NEW d \in Payloads, save_file(t, k, d) PROVE ~Streaming(t)'
    BY <1>t, <2>0, <2>2 DEF save_file, Call, NewFrame
  <2>3. ASSUME NEW k \in Keys, get_file_size(t, k) PROVE ~Streaming(t)'
    BY <1>t, <2>0, <2>3 DEF get_file_size, Call, NewFrame
  <2>4. ASSUME list_files(t, session_user[t]) PROVE ~Streaming(t)'
    BY <1>t, <2>0, <2>4 DEF list_files, Call, NewFrame
  <2>5. ASSUME NEW k \in Keys, delete_file(t, k) PROVE ~Streaming(t)'
    BY <1>t, <2>0, <2>5 DEF delete_file, Call, NewFrame
  <2>6. ASSUME NEW k \in Keys, NEW j \in Keys, rename_file(t, k, j) PROVE ~Streaming(t)'
    BY <1>t, <2>0, <2>6 DEF rename_file, Call, NewFrame
  <2>7. ASSUME stage'[t] # "call" PROVE ~Streaming(t)'
    BY <2>7 DEF Streaming
  <2>8. CASE \E c \in FileCommands : Refuse(t, c)
    BY <1>t, <2>1, <2>7, <2>8 DEF Refuse, Answer, Enter
  <2>9. CASE \/ \E u \in Users \cup {None} : LOGIN(t, u)
             \/ QUIT(t) \/ Unknown(t) \/ ReceiveFails(t) \/ ReceiveThrows(t)
    BY <1>t, <2>7, <2>9 DEF LOGIN, QUIT, Unknown, ReceiveFails, ReceiveThrows, Answer, Enter
  <2> QED
    BY <1>2, <2>2, <2>3, <2>4, <2>5, <2>6, <2>8, <2>9
    DEF Request, UPLOAD, DOWNLOAD, LIST, DELETE_F, RENAME
<1> QED
  BY <1>1, <1>2

(* An operation that sends a file of the length announced sends no more,   *)
(* and all of it if it succeeds.                                           *)
LEMMA ToldWorks ==
    ASSUME SessionInv, TransferInv, NEW t \in Threads, Told(t), ~misled[t], ~Misleads(t),
           Work(t)
    PROVE  Told(t)'
<1>1. /\ OpStep(t) /\ StorageInv /\ stage[t] = "call" /\ stage'[t] = "call"
      /\ owed'[t] = owed[t] /\ Transfer(t)
  BY DEF Work, SessionInv, TransferInv
<1>2. /\ FrameOK(frame[t]) /\ FrameOK(frame'[t]) /\ FrameAt(t)
      /\ frame'[t].op = frame[t].op /\ frame'[t].key = frame[t].key
  BY <1>1, KeepsRequest
<1>t. /\ pc \in [Threads -> Labels] /\ DOMAIN frame = Threads
      /\ disk \in [Files -> Seq(Chunks) \cup {None}]
  BY <1>1 DEF StorageInv, TypeOK
<1>3. CASE frame[t].op # "stream"
  BY <1>2, <1>3 DEF Told, AnnouncedAt, Streaming
<1>4. CASE frame[t].op = "stream"
  <2>0. PICK k \in Keys : k = frame[t].key
    BY <1>2, <1>4 DEF FrameOK, FileOps
  <2>1. /\ owed[t] \in VersionSizes /\ Len(frame[t].sent) <= owed[t]
        /\ frame[t].ok => Len(frame[t].sent) = owed[t]
        /\ pc[t] = "stream_send" => File(k) # None /\ Len(File(k)) = owed[t]
    BY <1>1, <1>4, <2>0 DEF Told, AnnouncedAt, Streaming
  <2>2. File(k) \in Seq(Chunks) \cup {None}
    BY <1>t, StorageAssumption DEF File
  <2>3. PICK n \in Nat, o \in Nat : n = Len(frame[t].sent) /\ o = owed[t]
    <3>1. frame[t].sent \in Seq(Chunks) /\ owed[t] \in Nat
      BY <1>2, <2>1, SameNames DEF FrameOK
    <3>2. Len(frame[t].sent) \in Nat
      BY <3>1
    <3> QED
      BY <3>1, <3>2
  <2>g. ASSUME Len(frame'[t].sent) <= owed[t],
               frame'[t].ok => Len(frame'[t].sent) = owed[t],
               pc'[t] = "stream_send" => File(k)' # None /\ Len(File(k)') = owed[t]
        PROVE  Told(t)'
    BY <1>1, <1>2, <2>0, <2>1, <2>g DEF Told, AnnouncedAt, Streaming
  <2>4. CASE ~TransferStep(t)
    <3>1. frame'[t].sent = frame[t].sent /\ frame'[t].ok = frame[t].ok
          /\ pc'[t] # "stream_send"
      BY <1>1, <1>4, <2>4, OtherStepsTransferNothing
    <3> QED
      BY <2>1, <2>g, <3>1
  <2>5. CASE StreamOpen(t)
    <3>1. frame'[t] = frame[t] /\ UNCHANGED disk /\ pc[t] = "stream_open"
      BY <2>5 DEF StreamOpen, Then, diskVars
    <3>2. pc'[t] = "stream_send" => File(k) # None /\ Len(File(k)) = owed[t]
      <4>1. CASE File(frame[t].key) # None
        BY <2>0, <3>1, <4>1 DEF Misleads
      <4>2. CASE File(frame[t].key) = None
        BY <1>t, <2>5, <4>2 DEF StreamOpen, Then, GoTo
      <4> QED
        BY <4>1, <4>2
    <3>3. File(k)' = File(k)
      BY <3>1 DEF File
    <3> QED
      BY <2>1, <2>g, <3>1, <3>2, <3>3
  <2>6. CASE StreamNetError(t)
    <3>1. frame'[t] = frame[t] /\ pc'[t] = "unlock"
      BY <1>t, <2>6 DEF StreamNetError, Then, GoTo
    <3> QED
      BY <2>1, <2>g, <3>1
  <2>7. CASE StreamChunk(t)
    <3>1. /\ frame' = [frame EXCEPT ![t].sent = Append(@, File(frame[t].key)[Len(@) + 1])]
          /\ pc[t] = "stream_send" /\ ~AtEnd(t) /\ UNCHANGED <<pc, disk>>
      BY <2>7 DEF StreamChunk, diskVars
    <3>2. /\ frame'[t].sent = Append(frame[t].sent, File(k)[Len(frame[t].sent) + 1])
          /\ frame'[t].ok = frame[t].ok
      BY <1>t, <1>2, <2>0, <3>1 DEF FrameOK
    <3>3. frame[t].sent \in Seq(Chunks)
      BY <1>2 DEF FrameOK
    <3>4. Len(Append(frame[t].sent, File(k)[Len(frame[t].sent) + 1])) = Len(frame[t].sent) + 1
      BY <3>3
    <3>5. Len(frame'[t].sent) = n + 1
      BY <2>3, <3>2, <3>4
    <3>6. ~(Len(frame[t].sent) >= Len(File(k))) /\ Len(File(k)) = owed[t]
      BY <2>0, <2>1, <3>1 DEF AtEnd
    <3>7. ~(n >= o)
      BY <2>3, <3>6
    <3>8. n + 1 <= o
      BY <3>7
    <3>9. ~frame'[t].ok
      BY <1>1, <3>1, <3>2 DEF Transfer, Returning
    <3>10. File(k)' = File(k)
      BY <3>1 DEF File
    <3> QED
      BY <2>1, <2>3, <2>g, <3>1, <3>5, <3>8, <3>9, <3>10
  <2>8. CASE StreamEnd(t)
    <3>1. frame'[t].sent = frame[t].sent /\ pc[t] = "stream_send" /\ AtEnd(t)
          /\ pc'[t] = "unwind"
      BY <1>t, <1>2, <2>8 DEF StreamEnd, GoTo, FrameOK
    <3>2. Len(frame[t].sent) >= Len(File(k)) /\ Len(File(k)) = owed[t]
      BY <2>0, <2>1, <3>1 DEF AtEnd
    <3>3. n >= o /\ n <= o
      BY <2>1, <2>3, <3>2
    <3>4. n = o
      BY <3>3
    <3> QED
      BY <2>1, <2>3, <2>g, <3>1, <3>4
  <2>9. CASE TransferStep(t) /\ ~StreamOpen(t) /\ ~StreamNetError(t) /\ ~StreamChunk(t)
               /\ ~StreamEnd(t)
    BY <1>2, <1>4, <2>9 DEF TransferStep, FrameAt, SaveOpen, SaveChunk, SaveNetError,
       SaveIndex, DeleteRemove, RenameCheck, RenameMove
  <2> QED
    BY <2>4, <2>5, <2>6, <2>7, <2>8, <2>9
<1> QED
  BY <1>3, <1>4

(* A header that announces the length of a version of a file. *)
LEMMA ToldAnnounces ==
    ASSUME SessionInv, NEW t \in Threads, ~Misleads(t), SendSize(t)
    PROVE  Told(t)'
<1>t. DOMAIN frame = Threads /\ pc \in [Threads -> Labels] /\ DOMAIN owed = Threads
  BY DEF SessionInv, SessionTypeOK, StorageInv, TypeOK
<1>1. /\ Returned(t, "size") /\ pc'[t] \in {"stream_ref", "done"}
      /\ frame'[t] = NewFrame("stream", frame[t].key, frame[t].key, <<>>)
  BY <1>t DEF SendSize, GoTo, StreamEntry
<1>2. frame'[t].sent = <<>> /\ ~frame'[t].ok
  BY <1>1 DEF NewFrame
<1>3. owed'[t] \in VersionSizes
  BY <1>1 DEF Misleads
<1>4. Len(<<>>) <= owed'[t]
  <2>1. Len(<<>>) = 0 /\ owed'[t] \in Nat
    BY <1>3, SameNames
  <2> QED
    BY <2>1
<1> QED
  BY <1>1, <1>2, <1>3, <1>4 DEF Told, AnnouncedAt

(* What a session does keeps what its client was told. *)
LEMMA ToldOwn ==
    ASSUME SessionInv, TransferInv, NEW t \in Threads, RequestsOK(requests[t]), Told(t),
           misled \in [Threads -> BOOLEAN], ServerStep(t)
    PROVE  Told(t)'
<1>0. (~misled'[t] => ~misled[t] /\ ~Misleads(t)) /\ (misled[t] => misled'[t])
  BY MisledStep
<1>1. CASE misled'[t]
  BY <1>1 DEF Told
<1>2. CASE UNCHANGED allVars
  BY <1>0, <1>2, ToldStays DEF allVars, sessionVars, vars, storeVars, diskVars, File
<1>3. CASE Begin(t) \/ Request(t) \/ Progress(t)
  <2>1. ASSUME ~Streaming(t)', pc'[t] # "stream_send" \/ ~Streaming(t)' PROVE Told(t)'
    BY <2>1 DEF Told, AnnouncedAt
  <2>2. CASE Work(t) \/ SendSize(t)
    BY <1>0, <1>1, <2>2, ToldWorks, ToldAnnounces
  <2> QED
    BY <1>3, <2>1, <2>2, SendsNothing DEF Progress
<1> QED
  BY <1>2, <1>3, SessionOrNot

-----------------------------------------------------------------------------
(* The system. *)

(* Every step of a session keeps what the clients were told. *)
LEMMA ServerTells ==
    ASSUME OneKeyPerFile, SessionInv, TransferInv, NoWrap, misled \in [Threads -> BOOLEAN],
           \A s \in Threads : Told(s) /\ RequestsOK(requests[s]),
           NEW t \in Threads, ServerStep(t)
    PROVE  \A s \in Threads : Told(s)'
<1>1. \A s \in Threads : misled[s] => misled'[s]
  BY MisledStep
<1>2. ASSUME NEW s \in Threads \ {t}, Begin(t) \/ Request(t) \/ Progress(t)
      PROVE  Told(s)'
  <2>1. stage'[s] = stage[s] /\ pc'[s] = pc[s] /\ frame'[s] = frame[s]
    BY <1>2, OthersSessions
  <2>2. owed'[s] = owed[s]
    BY <1>2, OthersTalk DEF SameSession
  <2>3. pc[s] = "stream_send" => File(frame[s].key)' = File(frame[s].key)
    BY <1>2, FileSent
  <2> QED
    BY <1>1, <2>1, <2>2, <2>3, ToldStays
<1>3. ASSUME NEW s \in Threads, UNCHANGED allVars PROVE Told(s)'
  BY <1>1, <1>3, ToldStays DEF allVars, sessionVars, vars, storeVars, diskVars, File
<1>4. Told(t)'
  BY ToldOwn
<1> QED
  BY <1>2, <1>3, <1>4, SessionOrNot

(* Every step of the system keeps every client's conversation. *)
LEMMA SystemStep ==
    ASSUME OneKeyPerFile, SystemInv, NoWrap, [SystemNext]_systemVars
    PROVE  SystemInv'
<1>0. /\ SessionInv /\ DiskInv /\ TransferInv /\ PerClient
      /\ misled \in [Threads -> BOOLEAN]
      /\ \A t \in Threads : Kept(t) /\ Told(t) /\ RequestsOK(requests[t])
  BY DEF SystemInv, Kept, Sound, TokensOK
<1>1. SessionInv' /\ DiskInv' /\ TransferInv'
  <2>1. [SessionNext]_allVars
    BY <1>0, SystemSessions
  <2> QED
    BY <1>0, <2>1, SessionStep, SessionDisk, SessionTransfer
<1>2. ASSUME NEW t \in Threads, OnlyOf(t), Sound(t)', misled'[t] \/ Own(t)',
             misled' \in [Threads -> BOOLEAN], \A s \in Threads : misled[s] => misled'[s],
             \A s \in Threads : Told(s)', \A s \in Threads \ {t} : SameSession(s)
      PROVE  SystemInv'
  <2>1. ASSUME NEW s \in Threads \ {t} PROVE Sound(s)' /\ (misled'[s] \/ Own(s)')
    <3>1. SameClient(s) /\ SameSession(s) /\ (misled[s] => misled'[s]) /\ Kept(s)
      BY <1>0, <1>2 DEF OnlyOf
    <3>2. Sound(s)'
      BY <3>1, SameSound DEF Kept
    <3>3. Own(s) => Own(s)'
      BY <3>1, SameOwn
    <3> QED
      BY <3>1, <3>2, <3>3 DEF Kept
  <2>2. \A s \in Threads : Kept(s)'
    BY <1>2, <2>1 DEF Kept
  <2> QED
    BY <1>1, <1>2, <2>2 DEF OnlyOf, SystemInv
<1>3. ASSUME NEW t \in Threads, UNCHANGED <<allVars, misled>>
      PROVE  /\ misled' \in [Threads -> BOOLEAN]
             /\ \A s \in Threads : misled[s] => misled'[s]
             /\ \A s \in Threads : Told(s)' /\ SameSession(s)
  <2>1. \A s \in Threads : SameSession(s)
    BY <1>3, StillSession
  <2>2. \A s \in Threads : Told(s)'
    BY <1>0, <1>3, ToldStays DEF allVars, sessionVars, vars, storeVars, diskVars, File
  <2> QED
    BY <1>0, <1>3, <2>1, <2>2
<1>4. ASSUME NEW t \in Threads, Connect(t) \/ ServerStep(t) \/ Break(t)
      PROVE  SystemInv'
  <2>1. OnlyOf(t) /\ Sound(t)'
    BY <1>0, <1>4, ServerOnly, ServerSound DEF Kept
  <2>2. /\ misled' \in [Threads -> BOOLEAN]
        /\ \A s \in Threads : misled[s] => misled'[s]
        /\ \A s \in Threads : Told(s)'
        /\ \A s \in Threads \ {t} : SameSession(s)
    <3>1. CASE Connect(t) \/ Break(t)
      BY <1>3, <3>1 DEF Connect, Break
    <3>2. CASE ServerStep(t)
      <4>1. \A s \in Threads \ {t} : SameSession(s)
        BY <1>0, <3>2, SessionOrNot, OthersTalk, StillSession
      <4>2. \A s \in Threads : Told(s)'
        BY <1>0, <3>2, ServerTells
      <4> QED
        BY <1>0, <3>2, <4>1, <4>2, MisledStep
    <3> QED
      BY <1>4, <3>1, <3>2
  <2>3. CASE ~misled'[t]
    <3>1. ~misled[t] /\ Told(t) /\ Told(t)' /\ Own(t)
      BY <1>0, <2>2, <2>3 DEF Kept
    <3>2. AnnouncedAt(t) /\ AnnouncedAt(t)'
      BY <2>3, <3>1 DEF Told
    <3> QED
      BY <1>0, <1>2, <1>4, <2>1, <2>2, <3>1, <3>2, ServerOwn
  <2> QED
    BY <1>2, <2>1, <2>2, <2>3
<1>5. ASSUME NEW t \in Threads, process_command(t) \/ EndOfInput(t) \/ ClientStep(t),
             UNCHANGED <<allVars, misled>>
      PROVE  SystemInv'
  <2>1. /\ misled' \in [Threads -> BOOLEAN]
        /\ \A s \in Threads : misled[s] => misled'[s]
        /\ \A s \in Threads : Told(s)' /\ SameSession(s)
    BY <1>3, <1>5
  <2>2. OnlyOf(t) /\ Sound(t)' /\ (Own(t) => Own(t)')
    BY <1>0, <1>5, <2>1, ClientOnly, ClientSound, ClientOwn, CallFrame DEF Kept
  <2>3. misled'[t] \/ Own(t)'
    BY <1>0, <2>1, <2>2 DEF Kept
  <2> QED
    BY <1>2, <2>1, <2>2, <2>3
<1>6. CASE (Stop /\ UNCHANGED <<clientVars, misled>>) \/ AllLeft \/ UNCHANGED systemVars
  <2>1. UNCHANGED <<clientVars, misled, stage, pc, frame, owed, disk>>
        /\ \A s \in Threads : SameSession(s) /\ SameClient(s)
    BY <1>6 DEF Stop, AllLeft, systemVars, clientVars, netVars, allVars, sessionVars, vars,
       storeVars, diskVars, SameSession, SameClient, SameLocal
  <2>2. PerClient'
    BY <1>0, <2>1 DEF clientVars, netVars, PerClient
  <2>3. ASSUME NEW s \in Threads PROVE Kept(s)'
    <3>1. Told(s)'
      BY <1>0, <2>1, ToldStays DEF File
    <3>2. Sound(s)' /\ (Own(s) => Own(s)')
      BY <1>0, <2>1, SameSound, SameOwn DEF Kept
    <3> QED
      BY <1>0, <2>1, <3>1, <3>2 DEF Kept
  <2> QED
    BY <1>0, <1>1, <2>1, <2>2, <2>3 DEF SystemInv
<1> QED
  BY <1>4, <1>5, <1>6 DEF SystemNext

LEMMA SystemStart == SystemInit => SystemInv
<1> SUFFICES ASSUME SystemInit PROVE SystemInv
  OBVIOUS
<1>1. /\ SessionInit /\ SessionInv /\ PerClient
      /\ misled \in [Threads -> BOOLEAN] /\ \A t \in Threads : ~misled[t]
  BY SessionStart, SameNames DEF SystemInit, ClientInit, PerClient
<1>2. DiskInv /\ TransferInv
  BY <1>1, InitStarts, DiskStart, TransferStart DEF SessionInit
<1>3. ASSUME NEW t \in Threads PROVE Kept(t)
  <2>1. /\ cstate[t] = "off" /\ username_[t] = Nothing /\ job[t] = Nothing
        /\ requests[t] = <<>> /\ replies[t] = <<>> /\ closed[t] = {"client", "server"}
        /\ broken[t] = FALSE /\ changed[t] = FALSE /\ local[t] = [n \in Names |-> Nothing]
        /\ stage[t] = "off" /\ gone[t] = FALSE
    BY <1>1, <1>3, SameNames DEF SystemInit, ClientInit, SessionInit
  <2>2. RequestsOK(<<>>) /\ <<>> \in Seq(ReplyTokens)
    BY DEF RequestsOK
  <2>3. Own(t)
    BY <2>1, <2>2 DEF Own, Sound, ClientAt, TokensOK, JobOK, Ends, InSession, Conversation, Left
  <2>4. Told(t)
    BY <2>1 DEF Told, AnnouncedAt, Streaming
  <2> QED
    BY <2>3, <2>4 DEF Kept, Own
<1> QED
  BY <1>1, <1>2, <1>3 DEF SystemInv

(* The inductive invariant of clients, sessions and files. *)
THEOREM SystemInvariant ==
    ASSUME OneKeyPerFile
    PROVE  SystemSpec /\ []NoWrap => []SystemInv
<1>1. SystemInit => SystemInv
  BY SystemStart
<1>2. SystemInv /\ NoWrap /\ [SystemNext]_systemVars => SystemInv'
  BY SystemStep
<1> QED
  BY <1>1, <1>2, PTL DEF SystemSpec

(* No client's transfer goes beyond the file it reads or the length the    *)
(* header announced.                                                       *)
THEOREM ClientTypeCorrect ==
    ASSUME OneKeyPerFile
    PROVE  SystemSpec /\ []NoWrap => []ClientTypeOK
<1>1. SystemInv => ClientTypeOK
  BY SameNames DEF SystemInv, Kept, Sound, ClientTypeOK
<1> QED
  BY <1>1, SystemInvariant, PTL

(* Both ends agree on where messages begin, for every client to whom the   *)
(* server has not announced a length that was not the file's (misled; the  *)
(* requests, for every client whose own files kept their length): whatever *)
(* sends and receives fail, operations fail or remain half done, sessions  *)
(* end, the server stops and connections break.                            *)
THEOREM EndsAgreeOnFrames ==
    ASSUME OneKeyPerFile
    PROVE  SystemSpec /\ []NoWrap => []FramesAligned
<1>0. ASSUME SystemInv, NEW t \in Threads, ~misled[t] PROVE Own(t) /\ Sound(t)
  BY <1>0 DEF SystemInv, Kept
<1>1. ASSUME SystemInv, NEW t \in Threads, ~misled[t]
      PROVE  /\ cstate[t] = "prompt" => replies[t] = <<>>
             /\ ~changed[t] /\ cstate[t] = "prompt" => requests[t] = <<>>
  BY <1>0, <1>1 DEF Own, Conversation, Idle, Clear
<1>2. ASSUME SystemInv, NEW t \in Threads, ~misled[t], cstate[t] \in {"await", "header"},
             replies[t] # <<>>
      PROVE  IsHeader(Head(replies[t]))
  <2>1. Answered(t) \/ Announced(t)
    BY <1>0, <1>2 DEF Own, Conversation, Waiting
  <2>2. CASE Answered(t)
    <3>1. PICK h \in ReplyHeaders : replies[t] = <<h, Text>>
      BY <2>2 DEF Answered
    <3>2. Head(replies[t]) = h
      BY <3>1
    <3> QED
      BY <3>2, HeaderTokens DEF ReplyTokens
  <2>3. CASE Announced(t)
    <3>1. PICK h \in ReplyHeaders, m \in Nat : replies[t] = <<h>> \o Repeat(Unit, m)
      BY <2>3 DEF Announced
    <3>2. h \in ReplyTokens /\ Repeat(Unit, m) \in Seq(ReplyTokens)
      BY RepeatProps DEF ReplyTokens
    <3>3. Head(replies[t]) = h
      BY <3>1, <3>2, RestOfFirst
    <3> QED
      BY <3>2, <3>3, HeaderTokens
  <2> QED
    BY <2>1, <2>2, <2>3
<1>3. ASSUME SystemInv, NEW t \in Threads, ~misled[t], ~changed[t], ~broken[t],
             stage[t] = "recv", requests[t] # <<>>
      PROVE  IsHeader(Head(requests[t]))
  <2>0. Own(t) /\ Sound(t) /\ "server" \notin closed[t]
    BY <1>0, <1>3 DEF Sound, Ends
  <2>1. ~Clear(t) /\ ~Working(t)
    BY <1>3 DEF Clear, Working, Replying, Calls, TakesUpload
  <2>2. \A m, n : ~Feeds(t, m, n)
    BY <2>1 DEF Feeds
  <2>3. ~Answered(t) /\ ~Announced(t) /\ ~ReadsFile(t)
    BY <2>1, <2>2 DEF Answered, Announced, ReadsFile
  <2>4. Asked(t)
    BY <1>3, <2>0, <2>1, <2>3 DEF Own, Sound, ClientAt, Conversation, Left, Idle, ReadsError,
       Waiting
  <2>5. PICK h \in RequestHeaders, p \in Seq(RequestTokens) : InFlight(t, h, p)
    BY <1>3, <2>4 DEF Asked
  <2>6. h \in RequestTokens
    BY DEF RequestTokens
  <2>7. Head(requests[t]) = h
    BY <2>5, <2>6, RestOfFirst DEF InFlight
  <2> QED
    BY <2>6, <2>7, HeaderTokens
<1>4. SystemInv => FramesAligned
  BY <1>1, <1>2, <1>3 DEF FramesAligned
<1> QED
  BY <1>4, SystemInvariant, PTL

(* A client at its prompt and its session agree on the user: for any set   *)
(* of names, any number of LOGINs under different ones, refused and failed *)
(* commands between them, and from one connection to the next.             *)
THEOREM EndsAgreeOnLogin ==
    ASSUME OneKeyPerFile
    PROVE  SystemSpec /\ []NoWrap => []LoginAgreed
<1>1. SystemInv => LoginAgreed
  BY DEF SystemInv, Kept, Own, Conversation, Idle, Agreed, LoginAgreed
<1> QED
  BY <1>1, SystemInvariant, PTL

-----------------------------------------------------------------------------
(* The files a client has downloaded. *)

\* While a file is saved, what is there of it has arrived.
Saved(t) ==
    \/ misled[t]
    \/ /\ \A n \in Names : \/ cstate[t] = "save" /\ job[t].name = n
                           \/ local[t][n] \in VersionSizes \cup {Nothing}
       /\ cstate[t] = "save" => local[t][job[t].name] = job[t].pos

SavedInv == \A t \in Threads : Saved(t)

LEMMA SavedElsewhere ==
    ASSUME NEW t, Saved(t), cstate[t] # "save", cstate'[t] # "save", local'[t] = local[t],
           misled[t] => misled'[t]
    PROVE  Saved(t)'
BY DEF Saved

LEMMA SavedSame ==
    ASSUME NEW t, Saved(t), SameLocal(t), misled[t] => misled'[t]
    PROVE  Saved(t)'
BY DEF Saved, SameLocal

(* A partial file goes with the connection. *)
LEMMA SavedStep ==
    ASSUME "remove" \notin ClientFaults, SystemInv, NEW t \in Threads, Saved(t), ~misled[t],
           process_command(t) \/ EndOfInput(t) \/ ClientStep(t)
    PROVE  Saved(t)'
<1>0. PerClient /\ Own(t) /\ Sound(t) /\ (misled[t] => misled'[t])
  BY DEF SystemInv, Kept
<1>1. local[t] \in [Names -> Nat \cup {Nothing}]
  BY <1>0 DEF Sound, ClientAt
<1>2. cstate[t] \in {"create", "save", "drain"} =>
        /\ job[t] \in Jobs /\ job[t].name \in Names /\ job[t].pos \in Nat
        /\ job[t].size \in Nat
        /\ cstate[t] = "create" => job[t].pos = 0
  BY <1>0 DEF Sound, ClientAt, JobOK, Jobs
<1>3. ASSUME NEW j, NEW user, NEW payload, NEW next, Command(t, j, user, payload, next),
             next # "save"
      PROVE  Saved(t)'
  BY <1>0, <1>3, SavedElsewhere DEF Command, At, Go, disconnect, PerClient
<1>4. CASE process_command(t)
  BY <1>3, <1>4 DEF process_command, login, SendList, quit, SendDelete, SendRename,
     send_command, upload_file, download_file
<1>5. CASE \/ EndOfInput(t) \/ ResponseFails(t) \/ UploadPart(t) \/ Uploaded(t)
           \/ receive_response(t) \/ DownloadHeader(t) \/ DownloadError(t)
  BY <1>0, <1>5, SavedElsewhere DEF EndOfInput, ResponseFails, UploadPart, Uploaded,
     receive_response, DownloadHeader, DownloadError, At, Go, disconnect, Prompt, PerClient
<1>6. CASE CreateFile(t)
  <2>1. CASE SetLocal(t, 0) /\ Go(t, "save") /\ UNCHANGED job
    BY <1>0, <1>1, <1>2, <1>6, <2>1 DEF CreateFile, SetLocal, At, Go, PerClient, Saved
  <2>2. CASE UNCHANGED local /\ (Go(t, "drain") \/ disconnect(t))
    BY <1>0, <1>6, <2>2, SavedElsewhere DEF CreateFile, At, Go, disconnect, PerClient
  <2> QED
    BY <1>6, <2>1, <2>2 DEF CreateFile
<1>7. CASE DownloadPart(t)
  <2>1. PICK n \in Nat : n = ChunkSize(t)
    BY <1>2, <1>7, SameNames DEF DownloadPart, ChunkSize, Smaller
  <2>2. cstate'[t] = cstate[t] /\ job'[t] = [job[t] EXCEPT !.pos = @ + n]
    BY <1>0, <1>7, <2>1 DEF DownloadPart, Advance, PerClient
  <2>3. job'[t].name = job[t].name /\ job'[t].pos = job[t].pos + n
    BY <1>2, <1>7, <2>2, JobFields DEF DownloadPart
  <2>4. local'[t] = IF cstate[t] = "save" THEN [local[t] EXCEPT ![job[t].name] = job[t].pos + n]
                    ELSE local[t]
    BY <1>0, <1>7, <2>1 DEF DownloadPart, At, SetLocal, PerClient
  <2> QED
    BY <1>1, <1>2, <1>7, <2>2, <2>3, <2>4 DEF DownloadPart, Saved
<1>8. CASE DownloadBreaks(t)
  <2>1. cstate'[t] = "off"
    BY <1>0, <1>8 DEF DownloadBreaks, disconnect, Go, PerClient
  <2>2. local'[t] = IF cstate[t] = "save" THEN [local[t] EXCEPT ![job[t].name] = Nothing]
                    ELSE local[t]
    BY <1>0, <1>8 DEF DownloadBreaks, At, SetLocal, PerClient
  <2> QED
    BY <1>1, <1>2, <1>8, <2>1, <2>2 DEF DownloadBreaks, Saved
<1>9. CASE Downloaded(t)
  <2>1. job[t].pos \in VersionSizes
    BY <1>0, <1>9, DownloadedAll
  <2>2. cstate'[t] = "prompt" /\ local'[t] = local[t]
    BY <1>0, <1>9 DEF Downloaded, Prompt, Go, PerClient
  <2> QED
    BY <2>1, <2>2 DEF Saved
<1> QED
  BY <1>4, <1>5, <1>6, <1>7, <1>8, <1>9 DEF ClientStep

(* Every file in downloads/ of a client the server has not misled is as    *)
(* long as a complete version of a file of the server: wherever a download *)
(* breaks off, download_file leaves no part of it behind, unless           *)
(* fs::remove itself fails there.                                          *)
THEOREM DownloadsComplete ==
    ASSUME OneKeyPerFile, "remove" \notin ClientFaults
    PROVE  SystemSpec /\ []NoWrap => []DownloadsWhole
<1>1. SystemInit => SavedInv
  BY SameNames DEF SystemInit, ClientInit, SavedInv, Saved
<1>2. ASSUME SystemInv, SavedInv, [SystemNext]_systemVars PROVE SavedInv'
  <2>0. PerClient /\ misled \in [Threads -> BOOLEAN]
    BY <1>2 DEF SystemInv
  <2>1. ASSUME NEW t \in Threads, Connect(t) \/ ServerStep(t) \/ Break(t), NEW s \in Threads
        PROVE  Saved(s)'
    <3>0. misled[s] => misled'[s]
      BY <2>0, <2>1, MisledStep DEF Connect, Break
    <3>1. CASE s # t
      BY <1>2, <2>0, <2>1, <3>0, <3>1, ServerOnly, SavedSame DEF OnlyOf, SameClient, SavedInv
    <3>2. CASE s = t /\ Connect(t)
      BY <1>2, <2>0, <3>0, <3>2, SavedElsewhere DEF Connect, connect_to_server, At, Go,
         PerClient, SavedInv
    <3>3. CASE s = t /\ ~Connect(t)
      <4>1. SameLocal(t)
        BY <2>1, <3>3 DEF ServerStep, ServerBegins, ServerRefuses, ServerReceives,
           ServerReceiveFails, ServerWorks, ServerAnnounces, ServerReplies, ServerCloses, Break,
           localVars, clientVars, SameLocal
      <4> QED
        BY <1>2, <3>0, <3>3, <4>1, SavedSame DEF SavedInv
    <3> QED
      BY <3>1, <3>2, <3>3
  <2>2. ASSUME NEW t \in Threads, process_command(t) \/ EndOfInput(t) \/ ClientStep(t),
               UNCHANGED misled, NEW s \in Threads
        PROVE  Saved(s)'
    <3>1. CASE s # t
      BY <1>2, <2>0, <2>2, <3>1, ClientOnly, SavedSame DEF OnlyOf, SameClient, SavedInv
    <3>2. CASE s = t /\ ~misled[t]
      BY <1>2, <2>2, <3>2, SavedStep DEF SavedInv
    <3>3. CASE s = t /\ misled[t]
      BY <2>2, <3>3 DEF Saved
    <3> QED
      BY <3>1, <3>2, <3>3
  <2>3. CASE (Stop /\ UNCHANGED <<clientVars, misled>>) \/ AllLeft \/ UNCHANGED systemVars
    BY <1>2, <2>3, SavedSame DEF AllLeft, systemVars, clientVars, SameLocal, SavedInv
  <2> QED
    BY <1>2, <2>1, <2>2, <2>3 DEF SystemNext, SavedInv
<1>3. SavedInv => DownloadsWhole
  BY SameNames DEF SavedInv, Saved, DownloadsWhole
<1> QED
  BY <1>1, <1>2, <1>3, SystemInvariant, PTL DEF SystemSpec
=============================================================================
