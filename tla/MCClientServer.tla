------------------------- MODULE MCClientServer -------------------------
(* Small instances of clients and sessions: all contents are alike. *)
EXTENDS ClientServer, MCFileManager

CONSTANT n1

\* One user with one file.
OwnerOfOne == k1 :> alice
FileOfOne == k1 :> f1
OnlyFile == alice :> (n1 :> k1)

\* Two users with a file of the same name each.
FileOfEach == alice :> (n1 :> k1) @@ nested :> (n1 :> k2)

\* Half a buffer, and a buffer and a half.
OneOrThree == {<<a>>, <<a, a, a>>}
OneUnit == {<<a>>}
ThreeUnits == {<<a, a, a>>}
=========================================================================
