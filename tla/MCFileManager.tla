------------------------- MODULE MCFileManager -------------------------
(* Small instances of the storage operations. *)
EXTENDS FileManager, TLC

CONSTANTS k1, k2, bad, f1, f2, f3, alice, nested, a, b

\* Two files of one user.
TwoKeys == {k1, k2}
OwnerOfTwo == [k \in TwoKeys |-> alice]
Directories == alice :> "storage/alice"
FileOfTwo == k1 :> f1 @@ k2 :> f2

\* A second user whose name holds a separator, like "team/bob": the files are
\* at storage/team/bob/<file>, where the scan does not look.
OwnerOfNested == k1 :> alice @@ k2 :> nested
TwoDirectories == Directories @@ nested :> "storage/team/bob"

\* The two files, and a name that is_valid_filename rejects.
ThreeKeys == {k1, k2, bad}
OwnerOfThree == [k \in ThreeKeys |-> alice]
FileOfThree == FileOfTwo @@ bad :> f3

\* Contents of the files when the server starts, and of uploads.
NoFiles == {None}
OneFile == {<<a>>}
SomeFiles == {None, <<a>>}
ShortOrLong == {<<a>>, <<b, b>>}
Short == {<<a>>}
Long == {<<a, b>>}
Other == {<<b, b>>}

Symmetry == Permutations(Threads) \cup Permutations(Entries)

\* The two files, each with its key, may change places too.
Swap == k1 :> k2 @@ k2 :> k1 @@ f1 :> f2 @@ f2 :> f1
FileSymmetry == Symmetry \cup {Swap}
========================================================================
