-------------------------- MODULE FileLockManager --------------------------
(***************************************************************************)
(* The table of per-file reader/writer locks of the server                 *)
(* (src/server/file_manager.cpp, class FileLockManager).                   *)
(*                                                                         *)
(* A path key is mapped to a heap-allocated LockEntry that holds a         *)
(* std::shared_mutex and a reference count.  A thread takes a reference    *)
(* (acquire_lock_ref), locks the mutex of the entry it was given, unlocks  *)
(* it and gives the reference back (release_lock_ref); the entry is erased *)
(* from the table when its count drops to zero.  Both table operations run *)
(* under map_mutex_, so each is one step.  Some return paths of the        *)
(* callers give no reference back: drop_lock_ref.                          *)
(*                                                                         *)
(* Entries are identities of heap objects: an entry may be allocated again *)
(* once neither the table nor a shared_ptr on some stack refers to it.     *)
(***************************************************************************)
EXTENDS Naturals, FiniteSets

CONSTANTS
    Threads,     \* worker threads
    Keys,        \* path keys, one per file
    Entries,     \* identities of LockEntry objects
    NoEntry,     \* null: "not in the table", "no shared_ptr"
    RefModulus   \* ref_count is unsigned: 2^32 in the code, small for TLC

ASSUME LockAssumption ==
    /\ IsFiniteSet(Threads)
    /\ NoEntry \notin Entries
    /\ RefModulus \in Nat \ {0}

VARIABLES
    locks_,      \* locks_[k]: the entry of key k in the table, or NoEntry
    ref_count,   \* ref_count[e]: LockEntry::ref_count
    lock_entry,  \* lock_entry[t][k]: the shared_ptr thread t holds for key k
    writer,      \* writer[e]: the thread that locked e's mutex exclusively
    readers,     \* readers[e]: the threads that locked e's mutex shared
    leaked       \* history: references to k dropped without a release

lockVars == <<locks_, ref_count, lock_entry, writer, readers, leaked>>

LockInit ==
    /\ locks_ = [k \in Keys |-> NoEntry]
    /\ ref_count = [e \in Entries |-> 0]
    /\ lock_entry = [t \in Threads |-> [k \in Keys |-> NoEntry]]
    /\ writer = [e \in Entries |-> {}]
    /\ readers = [e \in Entries |-> {}]
    /\ leaked = [k \in Keys |-> 0]

\* What std::make_shared may return: an object nothing refers to.
Unallocated ==
    {e \in Entries : /\ \A k \in Keys : locks_[k] # e
                     /\ \A t \in Threads, k \in Keys : lock_entry[t][k] # e}

-----------------------------------------------------------------------------
(* The operations of the table. *)

\* Bug variant: an entry that is in the table already is not counted again.
UncountedAcquire(t, k) ==
    /\ lock_entry[t][k] = NoEntry
    /\ \E e \in IF locks_[k] = NoEntry THEN Unallocated ELSE {locks_[k]} :
        /\ locks_' = [locks_ EXCEPT ![k] = e]
        /\ ref_count' = [ref_count EXCEPT ![e] = IF locks_[k] = NoEntry THEN 1 ELSE @]
        /\ lock_entry' = [lock_entry EXCEPT ![t][k] = e]
    /\ UNCHANGED <<writer, readers, leaked>>

acquire_lock_ref(t, k) ==
    /\ lock_entry[t][k] = NoEntry
    /\ \E e \in IF locks_[k] = NoEntry THEN Unallocated ELSE {locks_[k]} :
        /\ locks_' = [locks_ EXCEPT ![k] = e]
        /\ ref_count' = [ref_count EXCEPT ![e] =
               (IF locks_[k] = NoEntry THEN 1 ELSE @ + 1) % RefModulus]
        /\ lock_entry' = [lock_entry EXCEPT ![t][k] = e]
    /\ UNCHANGED <<writer, readers, leaked>>

\* Bug variant: the entry is erased whatever its count.
EagerRelease(t, k) ==
    /\ lock_entry[t][k] # NoEntry
    /\ locks_' = [locks_ EXCEPT ![k] = NoEntry]
    /\ lock_entry' = [lock_entry EXCEPT ![t][k] = NoEntry]
    /\ UNCHANGED <<ref_count, writer, readers, leaked>>

\* The count is decremented in the entry the table has NOW for the key.
release_lock_ref(t, k) ==
    /\ lock_entry[t][k] # NoEntry
    /\ IF locks_[k] = NoEntry
         THEN UNCHANGED <<locks_, ref_count>>
         ELSE LET n == (ref_count[locks_[k]] + RefModulus - 1) % RefModulus
              IN  /\ ref_count' = [ref_count EXCEPT ![locks_[k]] = n]
                  /\ locks_' = IF n = 0 THEN [locks_ EXCEPT ![k] = NoEntry]
                                        ELSE locks_
    /\ lock_entry' = [lock_entry EXCEPT ![t][k] = NoEntry]
    /\ UNCHANGED <<writer, readers, leaked>>

\* A return path without release_lock_ref: only the shared_ptr goes away.
drop_lock_ref(t, k) ==
    /\ lock_entry[t][k] # NoEntry
    /\ lock_entry' = [lock_entry EXCEPT ![t][k] = NoEntry]
    /\ leaked' = [leaked EXCEPT ![k] = @ + 1]
    /\ UNCHANGED <<locks_, ref_count, writer, readers>>

-----------------------------------------------------------------------------
(* std::shared_mutex of the entry the thread holds for key k. *)

Free(t, k) ==
    LET e == lock_entry[t][k] IN writer[e] = {} /\ readers[e] = {}

lock(t, k) ==
    /\ lock_entry[t][k] # NoEntry
    /\ Free(t, k)
    /\ writer' = [writer EXCEPT ![lock_entry[t][k]] = {t}]
    /\ UNCHANGED <<locks_, ref_count, lock_entry, readers, leaked>>

lock_shared(t, k) ==
    /\ lock_entry[t][k] # NoEntry
    /\ writer[lock_entry[t][k]] = {}
    /\ readers' = [readers EXCEPT ![lock_entry[t][k]] = @ \cup {t}]
    /\ UNCHANGED <<locks_, ref_count, lock_entry, writer, leaked>>

\* unique_lock::unlock, shared_lock::unlock and their destructors.
unlock(t, k) ==
    /\ lock_entry[t][k] # NoEntry
    /\ writer' = [writer EXCEPT ![lock_entry[t][k]] = @ \ {t}]
    /\ readers' = [readers EXCEPT ![lock_entry[t][k]] = @ \ {t}]
    /\ UNCHANGED <<locks_, ref_count, lock_entry, leaked>>

\* The table is a function-local static: a new process starts with an empty one.
LockRestart ==
    /\ locks_' = [k \in Keys |-> NoEntry]
    /\ ref_count' = [e \in Entries |-> 0]
    /\ lock_entry' = [t \in Threads |-> [k \in Keys |-> NoEntry]]
    /\ writer' = [e \in Entries |-> {}]
    /\ readers' = [e \in Entries |-> {}]
    /\ leaked' = [k \in Keys |-> 0]

-----------------------------------------------------------------------------
HoldsExclusive(t, k) ==
    lock_entry[t][k] # NoEntry /\ t \in writer[lock_entry[t][k]]

HoldsShared(t, k) ==
    lock_entry[t][k] # NoEntry /\ t \in readers[lock_entry[t][k]]

Holds(t, k) == HoldsExclusive(t, k) \/ HoldsShared(t, k)

(***************************************************************************)
(* What callers may do with a lock: take a reference, lock, unlock, and    *)
(* give up the reference (either way) only once unlocked.                  *)
(***************************************************************************)
LockNext ==
    \/ \E t \in Threads, k \in Keys :
        \/ acquire_lock_ref(t, k)
        \/ lock(t, k)
        \/ lock_shared(t, k)
        \/ unlock(t, k)
        \/ ~Holds(t, k) /\ release_lock_ref(t, k)
        \/ ~Holds(t, k) /\ drop_lock_ref(t, k)
    \/ LockRestart

LockSpec == LockInit /\ [][LockNext]_lockVars

-----------------------------------------------------------------------------
(* Type invariant: every variable of the lock table has its type. *)
LockTypeOK ==
    /\ locks_ \in [Keys -> Entries \cup {NoEntry}]
    /\ ref_count \in [Entries -> 0 .. RefModulus - 1]
    /\ lock_entry \in [Threads -> [Keys -> Entries \cup {NoEntry}]]
    /\ writer \in [Entries -> SUBSET Threads]
    /\ readers \in [Entries -> SUBSET Threads]
    /\ leaked \in [Keys -> Nat]

Referrers(k) == {t \in Threads : lock_entry[t][k] # NoEntry}

\* The references leaked so far cannot have made ref_count wrap around.
CountFits(k) == leaked[k] + Cardinality(Threads) < RefModulus

(***************************************************************************)
(* While one thread holds a file exclusively no other thread holds it in   *)
(* any mode, as long as leaked references have not made the count wrap.    *)
(* The lock is taken on the entry a thread was given, so this fails as     *)
(* soon as release_lock_ref erases an entry somebody still refers to and   *)
(* the next acquire_lock_ref allocates a second one for the same file.     *)
(***************************************************************************)
MutualExclusion ==
    \A k \in Keys : CountFits(k) =>
        \A s, t \in Threads : s # t /\ HoldsExclusive(s, k) => ~Holds(t, k)

(* The parts of the inductive invariant. *)

\* No entry serves two keys.
EntriesDistinct ==
    /\ \A j, k \in Keys : locks_[j] = locks_[k] /\ locks_[j] # NoEntry => j = k
    /\ \A t \in Threads, j, k \in Keys :
          lock_entry[t][j] = locks_[k] /\ locks_[k] # NoEntry => j = k
    /\ \A s, t \in Threads, j, k \in Keys :
          lock_entry[s][j] = lock_entry[t][k] /\ lock_entry[s][j] # NoEntry
            => j = k

\* Whoever holds an entry's mutex still has a shared_ptr to the entry.
HoldersReferTo ==
    \A e \in Entries, t \in Threads :
        t \in writer[e] \cup readers[e] => \E k \in Keys : lock_entry[t][k] = e

\* shared_mutex: one writer alone, or any number of readers.
MutexExclusive ==
    \A e \in Entries :
        /\ \A s, t \in writer[e] : s = t
        /\ writer[e] # {} => readers[e] = {}

\* The count is what is in use plus what was leaked, and every user of a key
\* was given the entry the table has for it.
CountExact ==
    \A k \in Keys : CountFits(k) =>
        /\ locks_[k] = NoEntry => leaked[k] = 0 /\ Referrers(k) = {}
        /\ locks_[k] # NoEntry =>
             /\ \A t \in Referrers(k) : lock_entry[t][k] = locks_[k]
             /\ ref_count[locks_[k]] = Cardinality(Referrers(k)) + leaked[k]

(***************************************************************************)
(* The inductive invariant: the reference count of an entry is exact, so   *)
(* an entry is never erased or replaced while a thread still refers to it. *)
(***************************************************************************)
LockInv ==
    /\ LockTypeOK
    /\ EntriesDistinct
    /\ HoldersReferTo
    /\ MutexExclusive
    /\ CountExact
=============================================================================
