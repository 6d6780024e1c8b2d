-------------------------- MODULE MetadataManager --------------------------
(***************************************************************************)
(* The in-memory index of the stored files (class MetadataManager of       *)
(* src/server/metadata_manager.cpp): a map from directories to maps from   *)
(* file names to sizes.  Every operation runs under mutex_ from beginning  *)
(* to end and is one step of its caller; upload times are left out.        *)
(*                                                                         *)
(* A directory is given by the user it belongs to, as in "storage/" +      *)
(* username; normalize_path maps the spellings of one directory to one     *)
(* key.  remove_directory has no caller.                                   *)
(***************************************************************************)
EXTENDS Naturals

CONSTANTS
    Users,          \* user names; each has a directory under storage/
    normalize_path  \* normalize_path[u]: the key of user u's directory

VARIABLE index_     \* index_[d][n]: the size of file n of directory d

Empty == <<>>       \* the map without keys

Put(f, x, v) == [y \in DOMAIN f \cup {x} |-> IF y = x THEN v ELSE f[y]]
Without(f, x) == [y \in DOMAIN f \ {x} |-> f[y]]

\* The inner map of directory d, which index_[d] creates when there is none.
Listing(d) == IF d \in DOMAIN index_ THEN index_[d] ELSE Empty

add_file(u, n, size) ==
    LET d == normalize_path[u]
    IN  index_' = Put(index_, d, Put(Listing(d), n, size))

\* Bug variant: a directory stays when its last file goes.
RemoveKeepsDirectory(u, n) ==
    LET d == normalize_path[u]
    IN  index_' = Put(index_, d, Without(Listing(d), n))

\* A directory whose last file goes is erased as well.
remove_file(u, n) ==
    LET d    == normalize_path[u]
        rest == Without(Listing(d), n)
    IN  index_' = IF DOMAIN rest = {} THEN Without(index_, d) ELSE Put(index_, d, rest)

file_exists(u, n) == n \in DOMAIN Listing(normalize_path[u])
get_size(u, n) == IF file_exists(u, n) THEN Listing(normalize_path[u])[n] ELSE 0
list_directory(u) == Listing(normalize_path[u])

\* What rebuild_from_disk builds of the files it visits, records of the user
\* whose directory a file is in, its name and its size.
RebuiltIndex(visited) ==
    LET In(d) == {f \in visited : normalize_path[f.user] = d}
    IN  [d \in {normalize_path[f.user] : f \in visited} |->
            [n \in {f.name : f \in In(d)} |-> (CHOOSE f \in In(d) : f.name = n).size]]

(* Type invariant: no directory of the index is empty. *)
IndexTypeOK(names) ==
    /\ DOMAIN index_ \subseteq {normalize_path[u] : u \in Users}
    /\ \A d \in DOMAIN index_ :
        \E S \in (SUBSET names) \ {{}} : index_[d] \in [S -> Nat]
=============================================================================
