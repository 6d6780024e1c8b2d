----------------------------- MODULE MCProtocol -----------------------------
(* A small instance of the protocol.  Base 5 is the smallest in which the  *)
(* status codes fit four bytes; 1000 needs more than four.  An int has 66  *)
(* values: the header's 32 bytes are just within the positive ones.        *)
EXTENDS Protocol

Message(meta, command, status, length, username, filename, payload) ==
    [meta |-> meta, command |-> command, status |-> status, payload_length |-> length,
     username |-> username, filename |-> filename, payload |-> payload]

Login    == Message(FALSE, 1, 0, 0, <<1, 2>>, <<>>, <<>>)
Upload   == Message(TRUE, 2, 0, 1000, <<1, 2>>, <<3>>, <<>>)
Rename   == Message(FALSE, 6, 0, 2, <<1>>, <<3>>, <<4, 0>>)
NotFound == Message(FALSE, 3, 404, 3, <<>>, <<>>, <<1, 0, 4>>)
Found    == Message(TRUE, 3, 200, 7, <<>>, <<>>, <<>>)

\* Payloads whose length is a negative int, and the positive int 1 and then 0.
Negative == Message(FALSE, 3, 200, 40, <<>>, <<>>, [i \in 1 .. 40 |-> 4])
Wrapped  == Message(FALSE, 3, 200, 67, <<>>, <<>>, [i \in 1 .. 67 |-> 4])

MCMessages == {Login, Upload, Rename, NotFound, Found, Negative, Wrapped}
MCScripts == {<<Login, Upload>>, <<Rename, Login>>, <<NotFound, Found>>,
              <<Negative>>, <<Wrapped>>}
=============================================================================
