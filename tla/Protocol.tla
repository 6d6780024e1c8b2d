------------------------------ MODULE Protocol ------------------------------
(***************************************************************************)
(* The binary protocol (src/common/protocol.cpp, protocol.h) over a TCP    *)
(* byte stream (src/common/network_utils.cpp): a 32-byte header in network *)
(* byte order, then user name, file name and payload, sent and received by *)
(* loops over send and recv, each of which moves as many bytes as it likes.*)
(*                                                                         *)
(* One side sends a script of messages, the other one receives them.  A    *)
(* message with meta = TRUE is sent by send_message_meta and received by   *)
(* recv_message_meta, which leave the payload to the caller; the others go *)
(* through send_message and recv_message.  Both sides know which is which. *)
(*                                                                         *)
(* A byte has Base values.  Hosts are little-endian (the program builds    *)
(* for Windows): an integer in memory starts with its lowest byte.         *)
(***************************************************************************)
EXTENDS Naturals, Sequences, SequencesExt

CONSTANTS
    Base,        \* values of a byte
    IntModulus,  \* values of an int: 2^32
    Messages,    \* the messages of the scripts
    Scripts      \* sequences of messages

Bytes == 0 .. (Base - 1)
Half == Base * Base * Base * Base      \* the values of a 32-bit integer

\* What the callers pass: fields that fit their widths, and a payload that is
\* as long as announced, or left to the caller.
ASSUME ProtocolAssumption ==
    /\ Base \in Nat \ {0, 1}
    /\ IntModulus \in Nat \ {0}
    /\ Messages \subseteq
         [meta : BOOLEAN, command : 0 .. (Half - 1), status : 0 .. (Half - 1),
          payload_length : 0 .. (Half * Half - 1),
          username : Seq(Bytes), filename : Seq(Bytes), payload : Seq(Bytes)]
    /\ \A m \in Messages :
        /\ Len(m.username) < Half * Half /\ Len(m.filename) < Half * Half
        /\ Len(m.payload) = IF m.meta THEN 0 ELSE m.payload_length
    /\ Scripts \subseteq Seq(Messages)

VARIABLES
    script,      \* the messages to send
    turn,        \* the message to send next
    sending,     \* the buffers send_all has still to send of the last one
    total_sent,  \* how much of the first of them is sent
    wire,        \* all bytes sent so far
    begins,      \* history: where on the wire each message begins
    taken,       \* how many of them recv has returned
    up,          \* the connection is not broken
    field,       \* what recv_all is reading
    buffer,      \* what it has of it
    hdr,         \* the header of the message being received
    got,         \* the caller's strings for the names
    received     \* the messages received

sendVars == <<script, turn, sending, total_sent, wire, begins>>
recvVars == <<taken, field, buffer, hdr, got, received>>
wireVars == <<sendVars, recvVars, up>>

-----------------------------------------------------------------------------
(* Byte order *)

\* The n bytes of an integer in memory, and the integer of the bytes.
Memory(x, n) ==
    LET q[i \in 0 .. n] == IF i = 0 THEN x ELSE q[i - 1] \div Base
    IN  [i \in 1 .. n |-> q[i - 1] % Base]

Value(s) ==
    LET v[i \in 0 .. Len(s)] ==
            IF i = 0 THEN 0 ELSE v[i - 1] * Base + s[Len(s) - i + 1]
    IN  v[Len(s)]

htonl(x) == Value(Reverse(Memory(x, 4)))

\* Bug variant: the halves stay where they are.
HtonllKeepsHalves(x) == htonl(x \div Half) * Half + htonl(x % Half)

htonll(x) ==
    IF htonl(1) = 1 THEN x ELSE htonl(x % Half) * Half + htonl(x \div Half)

ntohl(x) == htonl(x)
ntohll(x) == htonll(x)

-----------------------------------------------------------------------------
(* The header: its fields in order, with their widths in bytes. *)

HeaderSize == 32

send_header(m) ==
    Memory(htonl(m.command), 4) \o Memory(htonl(m.status), 4)
      \o Memory(htonll(m.payload_length), 8) \o Memory(htonll(Len(m.filename)), 8)
      \o Memory(htonll(Len(m.username)), 8)

recv_header(b) ==
    LET U32(i) == ntohl(Value(SubSeq(b, i, i + 3)))
        U64(i) == ntohll(Value(SubSeq(b, i, i + 7)))
    IN  [command |-> U32(1), status |-> U32(5), payload |-> U64(9),
         filename |-> U64(17), username |-> U64(25)]

NoHeader == [command |-> 0, status |-> 0, payload |-> 0, filename |-> 0, username |-> 0]
NoNames == [username |-> <<>>, filename |-> <<>>]

WireInit ==
    /\ script \in Scripts
    /\ turn = 1 /\ sending = <<>> /\ total_sent = 0
    /\ wire = <<>> /\ begins = <<>> /\ taken = 0 /\ up = TRUE
    /\ field = "header" /\ buffer = <<>> /\ hdr = NoHeader /\ got = NoNames
    /\ received = <<>>

-----------------------------------------------------------------------------
(* Sending *)

\* The bytes a call of send or recv is asked to move when n are left: n cast to
\* int.  A call with length 0 returns 0 and one with a negative length an
\* error: neither moves anything, so 0 stands for both.
AsInt(n) ==
    LET low == n % IntModulus
    IN  IF low < IntModulus \div 2 THEN low ELSE 0

\* The buffers of a message: the header, and the others when there is something
\* in them.
Part(b) == IF b = <<>> THEN <<>> ELSE <<b>>
Buffers(m) ==
    <<send_header(m)>> \o Part(m.username) \o Part(m.filename)
      \o Part(IF m.meta THEN <<>> ELSE m.payload)

send_message ==
    /\ sending = <<>> /\ turn <= Len(script)
    /\ sending' = Buffers(script[turn])
    /\ turn' = turn + 1
    /\ begins' = Append(begins, Len(wire))
    /\ UNCHANGED <<script, total_sent, wire, up, recvVars>>

LeftToSend == Len(Head(sending)) - total_sent

\* send(sock, data + total_sent, static_cast<int>(length - total_sent)) takes
\* n bytes.
SendPart(n) ==
    /\ n <= AsInt(LeftToSend)
    /\ wire' = wire \o SubSeq(Head(sending), total_sent + 1, total_sent + n)

send_all ==
    /\ sending # <<>>
    /\ \E n \in 1 .. Len(Head(sending)) :
        /\ SendPart(n)
        /\ IF total_sent + n = Len(Head(sending))
             THEN sending' = Tail(sending) /\ total_sent' = 0
             ELSE total_sent' = total_sent + n /\ UNCHANGED sending
    /\ UNCHANGED <<script, turn, begins, up, recvVars>>

\* send returns 0 or an error, because the connection is broken or because the
\* length makes no positive int: the caller closes the connection.
SendFails ==
    /\ sending # <<>>
    /\ ~up \/ AsInt(LeftToSend) = 0
    /\ sending' = <<>> /\ total_sent' = 0
    /\ turn' = Len(script) + 1
    /\ up' = FALSE
    /\ UNCHANGED <<script, wire, begins, recvVars>>

-----------------------------------------------------------------------------
(* Receiving *)

Expected == script[Len(received) + 1]

\* The length recv_all is called with.
Need ==
    CASE field = "header" -> HeaderSize
      [] field = "username" -> hdr.username
      [] field = "filename" -> hdr.filename
      [] field = "payload" -> IF Expected.meta THEN 0 ELSE hdr.payload
      [] field = "failed" -> 0

\* Bug variant: recv is given the size of the whole buffer again.
RecvTooMuch(n) == n <= AsInt(Need)

\* recv(sock, buffer + total_received, static_cast<int>(length -
\* total_received)) returns n bytes.
RecvPart(n) == n <= AsInt(Need - Len(buffer))

recv_all ==
    /\ Len(buffer) < Need
    /\ \E n \in 1 .. (Len(wire) - taken) :
        /\ RecvPart(n)
        /\ buffer' = buffer \o SubSeq(wire, taken + 1, taken + n)
        /\ taken' = taken + n
    /\ UNCHANGED <<sendVars, up, field, hdr, got, received>>

Ready == Len(received) < Len(script) /\ field # "failed" /\ Len(buffer) = Need

TakeHeader ==
    /\ Ready /\ field = "header"
    /\ hdr' = recv_header(buffer)
    /\ field' = "username" /\ buffer' = <<>>
    /\ UNCHANGED <<sendVars, up, taken, got, received>>

\* Bug variant: an empty name leaves the last one in the caller's string.
TakeNameUncleared ==
    /\ Ready /\ field \in {"username", "filename"}
    /\ got' = IF Need = 0 THEN got ELSE [got EXCEPT ![field] = buffer]
    /\ field' = IF field = "username" THEN "filename" ELSE "payload"
    /\ buffer' = <<>>
    /\ UNCHANGED <<sendVars, up, taken, hdr, received>>

\* The names; an empty one is cleared without a call of recv_all.
TakeName ==
    /\ Ready /\ field \in {"username", "filename"}
    /\ got' = [got EXCEPT ![field] = buffer]
    /\ field' = IF field = "username" THEN "filename" ELSE "payload"
    /\ buffer' = <<>>
    /\ UNCHANGED <<sendVars, up, taken, hdr, received>>

\* recv_message returns after the payload, recv_message_meta without it.
TakePayload ==
    /\ Ready /\ field = "payload"
    /\ received' = Append(received,
            [meta |-> Expected.meta, command |-> hdr.command, status |-> hdr.status,
             payload_length |-> hdr.payload, username |-> got.username,
             filename |-> got.filename, payload |-> buffer])
    /\ field' = "header" /\ buffer' = <<>>
    /\ UNCHANGED <<sendVars, up, taken, hdr, got>>

\* recv returns 0 or an error, for the same reasons; the caller closes the
\* connection.
RecvFails ==
    /\ Len(buffer) < Need
    /\ ~up \/ AsInt(Need - Len(buffer)) = 0
    /\ field' = "failed"
    /\ up' = FALSE
    /\ UNCHANGED <<sendVars, taken, buffer, hdr, got, received>>

-----------------------------------------------------------------------------
\* The connection breaks: what is in flight may arrive or not.
Break ==
    /\ up /\ up' = FALSE
    /\ UNCHANGED <<sendVars, recvVars>>

\* Everything is said, or the receiver gave up.
Over ==
    /\ field = "failed" \/ Len(received) = Len(script)
    /\ sending = <<>>
    /\ UNCHANGED wireVars

Sender == send_message \/ send_all \/ SendFails
Receiver == recv_all \/ TakeHeader \/ TakeName \/ TakePayload \/ RecvFails

WireNext == Sender \/ Receiver \/ Break \/ Over

\* Both sides are scheduled, and TCP delivers while the connection is up.
WireSpec ==
    /\ WireInit /\ [][WireNext]_wireVars
    /\ WF_wireVars(Sender) /\ WF_wireVars(Receiver)

-----------------------------------------------------------------------------
(* Type invariant: recv_all never writes past the end of its buffer. *)
WireTypeOK ==
    /\ turn \in 1 .. (Len(script) + 1)
    /\ sending \in Seq(Seq(Bytes)) /\ total_sent \in Nat
    /\ wire \in Seq(Bytes) /\ taken \in 0 .. Len(wire)
    /\ field \in {"header", "username", "filename", "payload", "failed"}
    /\ buffer \in Seq(Bytes)
    /\ Len(received) < Len(script) /\ field # "failed" => Len(buffer) <= Need

\* The bytes of a message, every integer with its highest byte first.
BigEndian(x, n) == Reverse(Memory(x, n))

Header(m) ==
    BigEndian(m.command, 4) \o BigEndian(m.status, 4) \o BigEndian(m.payload_length, 8)
      \o BigEndian(Len(m.filename), 8) \o BigEndian(Len(m.username), 8)
Encoding(m) == Header(m) \o m.username \o m.filename \o m.payload

\* Where message i begins when the messages before it are whole.
Length(m) == HeaderSize + Len(m.username) + Len(m.filename) + Len(m.payload)
StartOf(i) == IF i = 1 THEN 0 ELSE begins[i - 1] + Length(script[i - 1])

(***************************************************************************)
(* README, Network Byte Order: whatever pieces send takes, the bytes on    *)
(* the wire are the headers with big-endian fields, each followed by       *)
(* exactly what its lengths announce and then by the next one.             *)
(***************************************************************************)
NetworkByteOrder ==
    /\ Len(wire) <= StartOf(Len(begins) + 1)
    /\ \A i \in 1 .. Len(begins) :
        LET e == Encoding(script[i])
        IN  /\ begins[i] = StartOf(i)
            /\ \A j \in 1 .. Length(script[i]) :
                begins[i] + j <= Len(wire) => wire[begins[i] + j] = e[j]

(***************************************************************************)
(* README, Message Framing: the byte stream implements a channel of        *)
(* messages.  However send and recv cut the stream, and wherever it        *)
(* breaks, the receiver gets the messages that were sent, whole and in     *)
(* order, and all of them while the connection is up.  It does not stay up *)
(* for every message: where the length of a name or of a payload that is   *)
(* sent as one buffer, cast to int, is 0 or negative, send_all and recv_all*)
(* fail and their callers close the connection.                            *)
(***************************************************************************)
Channel == INSTANCE MessageChannel WITH sent <- SubSeq(script, 1, Len(begins))

ChannelSpec == Channel!Spec
=============================================================================
