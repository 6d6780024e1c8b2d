------------------------ MODULE FileManagerProofs ------------------------
(***************************************************************************)
(* Proofs about the lock table (FileLockManager.tla) and about the storage *)
(* operations that use it (FileManager.tla), for every finite set of       *)
(* threads, any number of keys, files and contents, every width of the     *)
(* reference count and any set of faults.                                  *)
(***************************************************************************)
EXTENDS FileManager, FiniteSetTheorems, TLAPS

-----------------------------------------------------------------------------
(***************************************************************************)
(* The lock table.                                                         *)
(***************************************************************************)

(* Unsigned arithmetic on ref_count: the result is always in range, and a  *)
(* count that fits is incremented and decremented without wrapping.        *)
LEMMA ModInRange ==
    ASSUME NEW n \in Nat
    PROVE  /\ n % RefModulus \in 0 .. RefModulus - 1
           /\ n < RefModulus => n % RefModulus = n
           /\ 0 < n /\ n < RefModulus
                => (n + RefModulus - 1) % RefModulus = n - 1
<1>0. RefModulus \in Nat /\ RefModulus > 0
  BY LockAssumption
<1>1. n % RefModulus \in 0 .. RefModulus - 1
  BY <1>0
<1>2. ASSUME n < RefModulus PROVE n % RefModulus = n
  BY <1>0, <1>2
<1>3. ASSUME 0 < n, n < RefModulus
      PROVE  (n + RefModulus - 1) % RefModulus = n - 1
  BY <1>0, <1>3
<1> QED
  BY <1>1, <1>2, <1>3

(* The threads that refer to a key are finitely many, at most all of them. *)
LEMMA ReferrersFinite ==
    ASSUME NEW k \in Keys
    PROVE  /\ IsFiniteSet(Referrers(k))
           /\ Cardinality(Referrers(k)) \in Nat
           /\ Cardinality(Threads) \in Nat
           /\ Cardinality(Referrers(k)) <= Cardinality(Threads)
BY LockAssumption, FS_Subset, FS_CardinalityType DEF Referrers

(* The same for the successor state. *)
LEMMA ReferrersFinitePrime ==
    ASSUME NEW k \in Keys
    PROVE  /\ IsFiniteSet(Referrers(k)')
           /\ Cardinality(Referrers(k)') \in Nat
           /\ Cardinality(Referrers(k)') <= Cardinality(Threads)
<1>1. Referrers(k)' \in SUBSET Threads
  BY DEF Referrers
<1> QED
  BY <1>1, LockAssumption, FS_Subset, FS_CardinalityType

(* Taking one thread out of those that refer to a key lowers their number by one. *)
LEMMA OneLess ==
    ASSUME NEW k \in Keys, NEW t \in Referrers(k),
           Referrers(k)' = Referrers(k) \ {t}
    PROVE  /\ Cardinality(Referrers(k)) = Cardinality(Referrers(k)') + 1
           /\ Cardinality(Referrers(k)') \in Nat
<1>1. Cardinality(Referrers(k) \ {t}) = Cardinality(Referrers(k)) - 1
  BY FS_RemoveElement, ReferrersFinite
<1>2. Cardinality(Referrers(k)) \in Nat /\ Cardinality(Referrers(k)') \in Nat
  BY ReferrersFinite, ReferrersFinitePrime
<1> QED
  BY <1>1, <1>2

-----------------------------------------------------------------------------
(* Every operation keeps every variable of the lock table in its type. *)
LEMMA LockTypeStep == LockTypeOK /\ [LockNext]_lockVars => LockTypeOK'
<1> SUFFICES ASSUME LockTypeOK, [LockNext]_lockVars PROVE LockTypeOK'
  OBVIOUS
<1> USE DEF LockTypeOK
<1>1. ASSUME NEW t \in Threads, NEW k \in Keys, acquire_lock_ref(t, k)
      PROVE  LockTypeOK'
  <2>1. PICK e \in IF locks_[k] = NoEntry THEN Unallocated ELSE {locks_[k]} :
          /\ locks_' = [locks_ EXCEPT ![k] = e]
          /\ ref_count' = [ref_count EXCEPT ![e] =
               (IF locks_[k] = NoEntry THEN 1 ELSE @ + 1) % RefModulus]
          /\ lock_entry' = [lock_entry EXCEPT ![t][k] = e]
    BY <1>1 DEF acquire_lock_ref
  <2>2. e \in Entries
    BY <2>1 DEF Unallocated
  <2>3. (IF locks_[k] = NoEntry THEN 1 ELSE ref_count[e] + 1) \in Nat
    BY <2>2, LockAssumption
  <2>4. ref_count' \in [Entries -> 0 .. RefModulus - 1]
    BY <2>1, <2>2, <2>3, ModInRange
  <2> QED
    BY <1>1, <2>1, <2>2, <2>4 DEF acquire_lock_ref
<1>2. ASSUME NEW t \in Threads, NEW k \in Keys, release_lock_ref(t, k)
      PROVE  LockTypeOK'
  <2>1. CASE locks_[k] = NoEntry
    BY <1>2, <2>1 DEF release_lock_ref
  <2>2. CASE locks_[k] # NoEntry
    <3> DEFINE n == (ref_count[locks_[k]] + RefModulus - 1) % RefModulus
    <3>1. ref_count[locks_[k]] + RefModulus - 1 \in Nat
      BY <2>2, LockAssumption
    <3>2. n \in 0 .. RefModulus - 1
      BY <3>1, ModInRange
    <3> HIDE DEF n
    <3>3. /\ ref_count' = [ref_count EXCEPT ![locks_[k]] = n]
          /\ locks_' = IF n = 0 THEN [locks_ EXCEPT ![k] = NoEntry] ELSE locks_
      BY <1>2, <2>2 DEF release_lock_ref, n
    <3> QED
      BY <1>2, <2>2, <3>2, <3>3 DEF release_lock_ref
  <2> QED
    BY <2>1, <2>2
<1>3. ASSUME NEW t \in Threads, NEW k \in Keys, drop_lock_ref(t, k)
      PROVE  LockTypeOK'
  BY <1>3 DEF drop_lock_ref
<1>4. ASSUME NEW t \in Threads, NEW k \in Keys, lock(t, k)
      PROVE  LockTypeOK'
  BY <1>4 DEF lock
<1>5. ASSUME NEW t \in Threads, NEW k \in Keys, lock_shared(t, k)
      PROVE  LockTypeOK'
  BY <1>5 DEF lock_shared
<1>6. ASSUME NEW t \in Threads, NEW k \in Keys, unlock(t, k)
      PROVE  LockTypeOK'
  BY <1>6 DEF unlock
<1>7. ASSUME LockRestart
      PROVE  LockTypeOK'
  BY <1>7, LockAssumption DEF LockRestart
<1>8. ASSUME UNCHANGED lockVars
      PROVE  LockTypeOK'
  BY <1>8 DEF lockVars
<1> QED
  BY <1>1, <1>2, <1>3, <1>4, <1>5, <1>6, <1>7, <1>8 DEF LockNext

(* Type correctness of the lock table in every reachable state. *)
THEOREM LockTypeCorrect == LockSpec => []LockTypeOK
<1>1. LockInit => LockTypeOK
  BY LockAssumption DEF LockInit, LockTypeOK
<1> QED
  BY <1>1, LockTypeStep, PTL DEF LockSpec

-----------------------------------------------------------------------------
(* A newly created entry is one nothing refers to, so no entry ever serves *)
(* two keys.                                                               *)
LEMMA EntriesDistinctStep ==
    LockTypeOK /\ EntriesDistinct /\ [LockNext]_lockVars => EntriesDistinct'
<1> SUFFICES ASSUME LockTypeOK, EntriesDistinct, [LockNext]_lockVars
             PROVE  EntriesDistinct'
  OBVIOUS
<1> USE DEF LockTypeOK, EntriesDistinct
<1>1. ASSUME NEW t \in Threads, NEW k \in Keys, acquire_lock_ref(t, k)
      PROVE  EntriesDistinct'
  <2>1. PICK e \in IF locks_[k] = NoEntry THEN Unallocated ELSE {locks_[k]} :
          /\ locks_' = [locks_ EXCEPT ![k] = e]
          /\ lock_entry' = [lock_entry EXCEPT ![t][k] = e]
    BY <1>1 DEF acquire_lock_ref
  <2>2. e \in Entries
    BY <2>1 DEF Unallocated
  <2>3. CASE locks_[k] = NoEntry
    <3>1. /\ \A j \in Keys : locks_[j] # e
          /\ \A s \in Threads, j \in Keys : lock_entry[s][j] # e
      BY <2>1, <2>3 DEF Unallocated
    <3> QED
      BY <2>1, <2>2, <3>1
  <2>4. CASE locks_[k] # NoEntry
    <3>1. e = locks_[k] /\ e # NoEntry
      BY <2>1, <2>4
    <3> QED
      BY <2>1, <2>2, <3>1
  <2> QED
    BY <2>3, <2>4
<1>2. ASSUME NEW t \in Threads, NEW k \in Keys, release_lock_ref(t, k)
      PROVE  EntriesDistinct'
  <2>1. /\ locks_' = locks_ \/ locks_' = [locks_ EXCEPT ![k] = NoEntry]
        /\ lock_entry' = [lock_entry EXCEPT ![t][k] = NoEntry]
    BY <1>2 DEF release_lock_ref
  <2> QED
    BY <2>1
<1>3. ASSUME NEW t \in Threads, NEW k \in Keys, drop_lock_ref(t, k)
      PROVE  EntriesDistinct'
  BY <1>3 DEF drop_lock_ref
<1>4. ASSUME NEW t \in Threads, NEW k \in Keys,
             lock(t, k) \/ lock_shared(t, k) \/ unlock(t, k)
      PROVE  EntriesDistinct'
  BY <1>4 DEF lock, lock_shared, unlock
<1>5. ASSUME LockRestart
      PROVE  EntriesDistinct'
  BY <1>5 DEF LockRestart
<1>6. ASSUME UNCHANGED lockVars
      PROVE  EntriesDistinct'
  BY <1>6 DEF lockVars
<1> QED
  BY <1>1, <1>2, <1>3, <1>4, <1>5, <1>6 DEF LockNext

(* A reference is given up only by a thread that has unlocked, so whoever  *)
(* holds a mutex still has a shared_ptr to its entry.                      *)
LEMMA HoldersReferToStep ==
    LockTypeOK /\ HoldersReferTo /\ [LockNext]_lockVars => HoldersReferTo'
<1> SUFFICES ASSUME LockTypeOK, HoldersReferTo, [LockNext]_lockVars
             PROVE  HoldersReferTo'
  OBVIOUS
<1> USE DEF LockTypeOK, HoldersReferTo
<1>1. ASSUME NEW t \in Threads, NEW k \in Keys, acquire_lock_ref(t, k)
      PROVE  HoldersReferTo'
  <2>1. PICK e \in IF locks_[k] = NoEntry THEN Unallocated ELSE {locks_[k]} :
          lock_entry' = [lock_entry EXCEPT ![t][k] = e]
    BY <1>1 DEF acquire_lock_ref
  <2>2. lock_entry[t][k] = NoEntry /\ UNCHANGED <<writer, readers>>
    BY <1>1 DEF acquire_lock_ref
  <2> SUFFICES ASSUME NEW f \in Entries, NEW s \in Threads,
                      s \in writer[f] \cup readers[f]
               PROVE  \E j \in Keys : lock_entry'[s][j] = f
    BY <2>2
  <2>3. PICK j \in Keys : lock_entry[s][j] = f
    OBVIOUS
  <2>4. lock_entry'[s][j] = f
    BY <2>1, <2>2, <2>3, LockAssumption
  <2> QED
    BY <2>4
<1>2. ASSUME NEW t \in Threads, NEW k \in Keys, ~Holds(t, k),
             release_lock_ref(t, k) \/ drop_lock_ref(t, k)
      PROVE  HoldersReferTo'
  <2>1. /\ lock_entry' = [lock_entry EXCEPT ![t][k] = NoEntry]
        /\ UNCHANGED <<writer, readers>>
        /\ lock_entry[t][k] # NoEntry
        /\ t \notin writer[lock_entry[t][k]] \cup readers[lock_entry[t][k]]
    BY <1>2 DEF release_lock_ref, drop_lock_ref, Holds, HoldsExclusive, HoldsShared
  <2> SUFFICES ASSUME NEW f \in Entries, NEW s \in Threads,
                      s \in writer[f] \cup readers[f]
               PROVE  \E j \in Keys : lock_entry'[s][j] = f
    BY <2>1
  <2>2. PICK j \in Keys : lock_entry[s][j] = f
    OBVIOUS
  <2>3. lock_entry'[s][j] = f
    BY <2>1, <2>2
  <2> QED
    BY <2>3
<1>3. ASSUME NEW t \in Threads, NEW k \in Keys, lock(t, k)
      PROVE  HoldersReferTo'
  BY <1>3 DEF lock
<1>4. ASSUME NEW t \in Threads, NEW k \in Keys, lock_shared(t, k)
      PROVE  HoldersReferTo'
  BY <1>4 DEF lock_shared
<1>5. ASSUME NEW t \in Threads, NEW k \in Keys, unlock(t, k)
      PROVE  HoldersReferTo'
  BY <1>5 DEF unlock
<1>6. ASSUME LockRestart
      PROVE  HoldersReferTo'
  BY <1>6 DEF LockRestart
<1>7. ASSUME UNCHANGED lockVars
      PROVE  HoldersReferTo'
  BY <1>7 DEF lockVars
<1> QED
  BY <1>1, <1>2, <1>3, <1>4, <1>5, <1>6, <1>7 DEF LockNext

(* No step lets a writer in beside another holder of the same mutex. *)
LEMMA MutexExclusiveStep ==
    LockTypeOK /\ MutexExclusive /\ [LockNext]_lockVars => MutexExclusive'
<1> SUFFICES ASSUME LockTypeOK, MutexExclusive, [LockNext]_lockVars
             PROVE  MutexExclusive'
  OBVIOUS
<1> USE DEF LockTypeOK, MutexExclusive
<1>1. ASSUME NEW t \in Threads, NEW k \in Keys,
             \/ acquire_lock_ref(t, k)
             \/ release_lock_ref(t, k)
             \/ drop_lock_ref(t, k)
      PROVE  MutexExclusive'
  BY <1>1 DEF acquire_lock_ref, release_lock_ref, drop_lock_ref
<1>2. ASSUME NEW t \in Threads, NEW k \in Keys, lock(t, k)
      PROVE  MutexExclusive'
  BY <1>2 DEF lock, Free
<1>3. ASSUME NEW t \in Threads, NEW k \in Keys, lock_shared(t, k)
      PROVE  MutexExclusive'
  BY <1>3 DEF lock_shared
<1>4. ASSUME NEW t \in Threads, NEW k \in Keys, unlock(t, k)
      PROVE  MutexExclusive'
  BY <1>4 DEF unlock
<1>5. ASSUME LockRestart
      PROVE  MutexExclusive'
  BY <1>5 DEF LockRestart
<1>6. ASSUME UNCHANGED lockVars
      PROVE  MutexExclusive'
  BY <1>6 DEF lockVars
<1> QED
  BY <1>1, <1>2, <1>3, <1>4, <1>5, <1>6 DEF LockNext

-----------------------------------------------------------------------------
(* acquire_lock_ref counts the new reference in the entry it hands out,    *)
(* and touches the entry of no other key.                                  *)
LEMMA CountExactAcquire ==
    ASSUME LockTypeOK, EntriesDistinct, CountExact,
           NEW t \in Threads, NEW k \in Keys, acquire_lock_ref(t, k)
    PROVE  CountExact'
<1> USE DEF LockTypeOK
<1>1. PICK e \in IF locks_[k] = NoEntry THEN Unallocated ELSE {locks_[k]} :
        /\ locks_' = [locks_ EXCEPT ![k] = e]
        /\ ref_count' = [ref_count EXCEPT ![e] =
               (IF locks_[k] = NoEntry THEN 1 ELSE @ + 1) % RefModulus]
        /\ lock_entry' = [lock_entry EXCEPT ![t][k] = e]
  BY DEF acquire_lock_ref
<1>2. e \in Entries /\ e # NoEntry
  BY <1>1, LockAssumption DEF Unallocated
<1>3. lock_entry[t][k] = NoEntry /\ leaked' = leaked
  BY DEF acquire_lock_ref
<1> SUFFICES ASSUME NEW j \in Keys, CountFits(j)'
             PROVE  /\ locks_'[j] = NoEntry => leaked'[j] = 0 /\ Referrers(j)' = {}
                    /\ locks_'[j] # NoEntry =>
                         /\ \A s \in Referrers(j)' : lock_entry'[s][j] = locks_'[j]
                         /\ ref_count'[locks_'[j]]
                              = Cardinality(Referrers(j)') + leaked'[j]
  BY DEF CountExact
<1>4. CountFits(j)
  BY <1>3 DEF CountFits
<1>5. CASE j # k
  <2>1. Referrers(j)' = Referrers(j)
    BY <1>1, <1>5 DEF Referrers
  <2>2. locks_'[j] = locks_[j] /\ \A s \in Threads : lock_entry'[s][j] = lock_entry[s][j]
    BY <1>1, <1>5
  <2>3. locks_[j] # NoEntry => locks_[j] # e
    BY <1>1, <1>2, <1>5 DEF EntriesDistinct, Unallocated
  <2>4. locks_[j] # NoEntry => ref_count'[locks_[j]] = ref_count[locks_[j]]
    BY <1>1, <1>2, <2>3
  <2> QED
    BY <1>3, <1>4, <2>1, <2>2, <2>4 DEF CountExact, Referrers
<1>6. CASE j = k
  <2>1. Referrers(k)' = Referrers(k) \cup {t} /\ t \notin Referrers(k)
    BY <1>1, <1>2, <1>3 DEF Referrers
  <2>2. Cardinality(Referrers(k)') = Cardinality(Referrers(k)) + 1
    BY <2>1, FS_AddElement, ReferrersFinite
  <2>3. Cardinality(Referrers(k)') + leaked[k] < RefModulus
    BY <1>3, <1>6, ReferrersFinite, ReferrersFinitePrime, LockAssumption DEF CountFits
  <2>4. locks_'[k] = e
    BY <1>1
  <2>5. CASE locks_[k] = NoEntry
    <3>1. leaked[k] = 0 /\ Referrers(k) = {}
      BY <1>4, <1>6, <2>5 DEF CountExact
    <3>2. Cardinality(Referrers(k)) = 0
      BY <3>1, FS_EmptySet
    <3>3. ref_count'[e] = 1 % RefModulus
      BY <1>1, <1>2, <2>5
    <3>4. 1 % RefModulus = 1
      BY <2>2, <2>3, <3>1, <3>2, ModInRange
    <3>5. \A s \in Referrers(k)' : lock_entry'[s][k] = e
      BY <1>1, <2>1, <3>1
    <3> QED
      BY <1>2, <1>3, <1>6, <2>2, <2>4, <3>1, <3>2, <3>3, <3>4, <3>5
  <2>6. CASE locks_[k] # NoEntry
    <3>1. e = locks_[k]
      BY <1>1, <2>6
    <3>2. /\ \A s \in Referrers(k) : lock_entry[s][k] = e
          /\ ref_count[e] = Cardinality(Referrers(k)) + leaked[k]
      BY <1>4, <1>6, <2>6, <3>1 DEF CountExact
    <3>3. ref_count'[e] = (ref_count[e] + 1) % RefModulus
      BY <1>1, <1>2, <2>6
    <3>4. /\ ref_count[e] + 1 = Cardinality(Referrers(k)') + leaked[k]
          /\ ref_count[e] + 1 \in Nat
      <4>1. leaked[k] \in Nat /\ Cardinality(Referrers(k)) \in Nat
        BY ReferrersFinite
      <4> QED
        BY <2>2, <3>2, <4>1
    <3>5. (ref_count[e] + 1) % RefModulus = ref_count[e] + 1
      BY <2>3, <3>4, ModInRange
    <3>6. \A s \in Referrers(k)' : lock_entry'[s][k] = e
      BY <1>1, <2>1, <3>2 DEF Referrers
    <3> QED
      BY <1>2, <1>3, <1>6, <2>4, <3>3, <3>4, <3>5, <3>6
  <2> QED
    BY <2>5, <2>6
<1> QED
  BY <1>5, <1>6

(* release_lock_ref takes the thread's own reference out of the count, and *)
(* erases the entry only when that was the last reference.                 *)
LEMMA CountExactRelease ==
    ASSUME LockTypeOK, EntriesDistinct, CountExact,
           NEW t \in Threads, NEW k \in Keys, release_lock_ref(t, k)
    PROVE  CountExact'
<1> USE DEF LockTypeOK
<1>1. /\ lock_entry' = [lock_entry EXCEPT ![t][k] = NoEntry]
      /\ lock_entry[t][k] # NoEntry
      /\ leaked' = leaked
  BY DEF release_lock_ref
<1> SUFFICES ASSUME NEW j \in Keys, CountFits(j)'
             PROVE  /\ locks_'[j] = NoEntry => leaked'[j] = 0 /\ Referrers(j)' = {}
                    /\ locks_'[j] # NoEntry =>
                         /\ \A s \in Referrers(j)' : lock_entry'[s][j] = locks_'[j]
                         /\ ref_count'[locks_'[j]]
                              = Cardinality(Referrers(j)') + leaked'[j]
  BY DEF CountExact
<1>2. CountFits(j)
  BY <1>1 DEF CountFits
<1> DEFINE n == (ref_count[locks_[k]] + RefModulus - 1) % RefModulus
<1>3. CASE j # k
  <2>1. Referrers(j)' = Referrers(j)
    BY <1>1, <1>3 DEF Referrers
  <2>2. /\ locks_'[j] = locks_[j]
        /\ \A s \in Threads : lock_entry'[s][j] = lock_entry[s][j]
    BY <1>1, <1>3 DEF release_lock_ref
  <2>3. locks_[j] # NoEntry => ref_count'[locks_[j]] = ref_count[locks_[j]]
    <3>1. CASE locks_[k] = NoEntry
      BY <3>1 DEF release_lock_ref
    <3>2. CASE locks_[k] # NoEntry
      <4>1. ref_count' = [ref_count EXCEPT ![locks_[k]] = n]
        BY <3>2 DEF release_lock_ref
      <4>2. locks_[j] # NoEntry => locks_[j] # locks_[k]
        BY <1>3, <3>2 DEF EntriesDistinct
      <4> HIDE DEF n
      <4> QED
        BY <4>1, <4>2
    <3> QED
      BY <3>1, <3>2
  <2> QED
    BY <1>1, <1>2, <2>1, <2>2, <2>3 DEF CountExact, Referrers
<1>4. CASE j = k
  <2>1. t \in Referrers(k) /\ Referrers(k)' = Referrers(k) \ {t}
    BY <1>1 DEF Referrers
  <2>2. locks_[k] # NoEntry
    BY <1>2, <1>4, <2>1 DEF CountExact
  <2>3. /\ \A s \in Referrers(k) : lock_entry[s][k] = locks_[k]
        /\ ref_count[locks_[k]] = Cardinality(Referrers(k)) + leaked[k]
    BY <1>2, <1>4, <2>2 DEF CountExact
  <2>4. /\ Cardinality(Referrers(k)) = Cardinality(Referrers(k)') + 1
        /\ Cardinality(Referrers(k)') \in Nat
        /\ Cardinality(Referrers(k)) \in Nat
    BY <2>1, OneLess, ReferrersFinite
  <2>5. ref_count[locks_[k]] \in Nat /\ 0 < ref_count[locks_[k]]
        /\ ref_count[locks_[k]] < RefModulus
    BY <2>2, <2>3, <2>4, LockAssumption
  <2>6. n = Cardinality(Referrers(k)') + leaked[k]
    <3>1. n = ref_count[locks_[k]] - 1
      BY <2>5, ModInRange
    <3> HIDE DEF n
    <3> QED
      BY <2>3, <2>4, <3>1
  <2>7. /\ ref_count' = [ref_count EXCEPT ![locks_[k]] = n]
        /\ locks_' = IF n = 0 THEN [locks_ EXCEPT ![k] = NoEntry] ELSE locks_
    BY <2>2 DEF release_lock_ref
  <2> HIDE DEF n
  <2>8. CASE n = 0
    <3>1. leaked[k] = 0 /\ Cardinality(Referrers(k)') = 0
      BY <2>4, <2>6, <2>8
    <3>2. Referrers(k)' = {}
      BY <3>1, FS_EmptySet, ReferrersFinitePrime
    <3> QED
      BY <1>1, <1>4, <2>7, <2>8, <3>1, <3>2
  <2>9. CASE n # 0
    <3>1. locks_' = locks_ /\ ref_count'[locks_[k]] = n
      BY <2>2, <2>7, <2>9
    <3>2. \A s \in Referrers(k)' : lock_entry'[s][k] = locks_[k]
      BY <1>1, <2>1, <2>3 DEF Referrers
    <3> QED
      BY <1>1, <1>4, <2>2, <2>6, <3>1, <3>2
  <2> QED
    BY <2>8, <2>9
<1> QED
  BY <1>3, <1>4

(* A dropped reference moves from the referring threads to the leaked ones. *)
LEMMA CountExactDrop ==
    ASSUME LockTypeOK, CountExact,
           NEW t \in Threads, NEW k \in Keys, drop_lock_ref(t, k)
    PROVE  CountExact'
<1> USE DEF LockTypeOK
<1>1. /\ lock_entry' = [lock_entry EXCEPT ![t][k] = NoEntry]
      /\ lock_entry[t][k] # NoEntry
      /\ leaked' = [leaked EXCEPT ![k] = @ + 1]
      /\ locks_' = locks_ /\ ref_count' = ref_count
  BY DEF drop_lock_ref
<1> SUFFICES ASSUME NEW j \in Keys, CountFits(j)'
             PROVE  /\ locks_[j] = NoEntry => leaked'[j] = 0 /\ Referrers(j)' = {}
                    /\ locks_[j] # NoEntry =>
                         /\ \A s \in Referrers(j)' : lock_entry'[s][j] = locks_[j]
                         /\ ref_count[locks_[j]]
                              = Cardinality(Referrers(j)') + leaked'[j]
  BY <1>1 DEF CountExact
<1>2. CountFits(j)
  BY <1>1, ReferrersFinite, LockAssumption DEF CountFits
<1>3. CASE j # k
  <2>1. Referrers(j)' = Referrers(j)
    BY <1>1, <1>3 DEF Referrers
  <2> QED
    BY <1>1, <1>2, <1>3, <2>1 DEF CountExact, Referrers
<1>4. CASE j = k
  <2>1. t \in Referrers(k) /\ Referrers(k)' = Referrers(k) \ {t}
    BY <1>1 DEF Referrers
  <2>2. /\ Cardinality(Referrers(k)) = Cardinality(Referrers(k)') + 1
        /\ Cardinality(Referrers(k)') \in Nat
    BY <2>1, OneLess
  <2>3. locks_[k] # NoEntry
    BY <1>2, <1>4, <2>1 DEF CountExact
  <2>4. /\ \A s \in Referrers(k) : lock_entry[s][k] = locks_[k]
        /\ ref_count[locks_[k]] = Cardinality(Referrers(k)) + leaked[k]
    BY <1>2, <1>4, <2>3 DEF CountExact
  <2>5. \A s \in Referrers(k)' : lock_entry'[s][k] = locks_[k]
    BY <1>1, <2>1, <2>4 DEF Referrers
  <2>6. ref_count[locks_[k]] = Cardinality(Referrers(k)') + leaked'[k]
    BY <1>1, <2>2, <2>4
  <2> QED
    BY <1>4, <2>3, <2>5, <2>6
<1> QED
  BY <1>3, <1>4

(* Every step keeps the reference counts exact. *)
LEMMA CountExactStep ==
    LockTypeOK /\ EntriesDistinct /\ CountExact /\ [LockNext]_lockVars
        => CountExact'
<1> SUFFICES ASSUME LockTypeOK, EntriesDistinct, CountExact, [LockNext]_lockVars
             PROVE  CountExact'
  OBVIOUS
<1>1. ASSUME NEW t \in Threads, NEW k \in Keys,
             lock(t, k) \/ lock_shared(t, k) \/ unlock(t, k)
      PROVE  CountExact'
  BY <1>1 DEF lock, lock_shared, unlock, CountExact, CountFits, Referrers
<1>2. ASSUME LockRestart
      PROVE  CountExact'
  BY <1>2 DEF LockRestart, CountExact, Referrers
<1>3. ASSUME UNCHANGED lockVars
      PROVE  CountExact'
  BY <1>3 DEF lockVars, CountExact, CountFits, Referrers
<1> QED
  BY <1>1, <1>2, <1>3, CountExactAcquire, CountExactRelease, CountExactDrop
  DEF LockNext

-----------------------------------------------------------------------------
(* The inductive invariant holds at the start and is kept by every step. *)
LEMMA LockInvInit == LockInit => LockInv
BY LockAssumption DEF LockInit, LockInv, LockTypeOK, EntriesDistinct,
   HoldersReferTo, MutexExclusive, CountExact, Referrers

(* Every step of the lock table keeps the inductive invariant. *)
LEMMA LockInvStep == LockInv /\ [LockNext]_lockVars => LockInv'
BY LockTypeStep, EntriesDistinctStep, HoldersReferToStep,
   MutexExclusiveStep, CountExactStep DEF LockInv

(* The inductive invariant holds in every reachable state. *)
THEOREM LockInvariant == LockSpec => []LockInv
BY LockInvInit, LockInvStep, PTL DEF LockSpec

(* The inductive invariant implies mutual exclusion: two threads that hold *)
(* the same file hold the mutex of the same entry.                         *)
LEMMA InvImpliesExclusion == LockInv => MutualExclusion
<1> SUFFICES ASSUME LockInv, NEW k \in Keys, CountFits(k),
                    NEW s \in Threads, NEW t \in Threads, s # t,
                    HoldsExclusive(s, k), Holds(t, k)
             PROVE  FALSE
  BY DEF MutualExclusion
<1>1. s \in Referrers(k) /\ t \in Referrers(k)
  BY DEF HoldsExclusive, Holds, HoldsShared, Referrers
<1>2. locks_[k] # NoEntry
  BY <1>1 DEF LockInv, CountExact
<1>3. lock_entry[s][k] = locks_[k] /\ lock_entry[t][k] = locks_[k]
  BY <1>1, <1>2 DEF LockInv, CountExact
<1> QED
  BY <1>2, <1>3 DEF LockInv, LockTypeOK, MutexExclusive, HoldsExclusive, Holds,
     HoldsShared

(* Mutual exclusion of a file's writer in every reachable state. *)
THEOREM LockExclusion == LockSpec => []MutualExclusion
BY LockInvariant, InvImpliesExclusion, PTL

-----------------------------------------------------------------------------
(* What the operations of one thread on one key do to the locks of all     *)
(* threads, for the proofs about their callers.                            *)

\* What every thread has of every key, except t of k.
Untouched(t, k) ==
    \A s \in Threads, j \in Keys : s # t \/ j # k =>
        /\ lock_entry'[s][j] = lock_entry[s][j]
        /\ HoldsExclusive(s, j)' <=> HoldsExclusive(s, j)
        /\ HoldsShared(s, j)' <=> HoldsShared(s, j)

(* acquire_lock_ref hands out an entry whose mutex the thread does not hold. *)
LEMMA AcquireEffect ==
    ASSUME LockInv, NEW t \in Threads, NEW k \in Keys, acquire_lock_ref(t, k)
    PROVE  /\ Untouched(t, k)
           /\ lock_entry'[t][k] # NoEntry
           /\ ~HoldsExclusive(t, k)' /\ ~HoldsShared(t, k)'
<1> USE DEF LockInv, LockTypeOK
<1>1. PICK e \in IF locks_[k] = NoEntry THEN Unallocated ELSE {locks_[k]} :
        lock_entry' = [lock_entry EXCEPT ![t][k] = e]
  BY DEF acquire_lock_ref
<1>2. e \in Entries /\ e # NoEntry
  BY <1>1, LockAssumption DEF Unallocated
<1>3. lock_entry[t][k] = NoEntry /\ writer' = writer /\ readers' = readers
  BY DEF acquire_lock_ref
<1>4. \A j \in Keys : lock_entry[t][j] # e
  BY <1>1, <1>2, <1>3 DEF Unallocated, EntriesDistinct
<1>5. t \notin writer[e] /\ t \notin readers[e]
  BY <1>2, <1>4 DEF HoldersReferTo
<1>6. lock_entry'[t][k] = e
  BY <1>1
<1>7. \A s \in Threads, j \in Keys : s # t \/ j # k => lock_entry'[s][j] = lock_entry[s][j]
  BY <1>1
<1>8. Untouched(t, k)
  BY <1>3, <1>7 DEF Untouched, HoldsExclusive, HoldsShared
<1> QED
  BY <1>2, <1>3, <1>5, <1>6, <1>8 DEF HoldsExclusive, HoldsShared

(* The mutex a thread has for one key is not the mutex it has for another. *)
LEMMA EntriesApart ==
    ASSUME LockInv, NEW s \in Threads, NEW j \in Keys, NEW t \in Threads, NEW k \in Keys,
           j # k, lock_entry[s][j] # NoEntry
    PROVE  lock_entry[s][j] # lock_entry[t][k]
BY DEF LockInv, EntriesDistinct

(* Locking gives the thread the mutex of that key and changes no other lock. *)
LEMMA LockEffect ==
    ASSUME LockInv, NEW t \in Threads, NEW k \in Keys, lock(t, k)
    PROVE  /\ Untouched(t, k)
           /\ lock_entry' = lock_entry /\ lock_entry[t][k] # NoEntry
           /\ HoldsExclusive(t, k)' /\ ~HoldsShared(t, k)'
<1> USE DEF LockInv, LockTypeOK
<1> DEFINE e == lock_entry[t][k]
<1>1. /\ e \in Entries /\ e # NoEntry /\ writer[e] = {} /\ readers[e] = {}
      /\ writer' = [writer EXCEPT ![e] = {t}]
      /\ readers' = readers /\ lock_entry' = lock_entry
  BY DEF lock, Free
<1>2. \A s \in Threads, j \in Keys : s # t \/ j # k =>
        (HoldsExclusive(s, j)' <=> HoldsExclusive(s, j))
  <2> SUFFICES ASSUME NEW s \in Threads, NEW j \in Keys, s # t \/ j # k,
                      lock_entry[s][j] # NoEntry
               PROVE  s \in writer'[lock_entry[s][j]] <=> s \in writer[lock_entry[s][j]]
    BY <1>1 DEF HoldsExclusive
  <2>1. CASE lock_entry[s][j] = e
    <3>1. j = k
      BY <2>1, EntriesApart
    <3> QED
      BY <1>1, <2>1, <3>1
  <2>2. CASE lock_entry[s][j] # e
    BY <1>1, <2>2
  <2> QED
    BY <2>1, <2>2
<1>3. HoldsExclusive(t, k)' /\ ~HoldsShared(t, k)'
  BY <1>1 DEF HoldsExclusive, HoldsShared
<1> QED
  BY <1>1, <1>2, <1>3 DEF Untouched, HoldsShared

(* The same for a shared lock. *)
LEMMA LockSharedEffect ==
    ASSUME LockInv, NEW t \in Threads, NEW k \in Keys, lock_shared(t, k)
    PROVE  /\ Untouched(t, k)
           /\ lock_entry' = lock_entry /\ lock_entry[t][k] # NoEntry
           /\ ~HoldsExclusive(t, k)' /\ HoldsShared(t, k)'
<1> USE DEF LockInv, LockTypeOK
<1> DEFINE e == lock_entry[t][k]
<1>1. /\ e \in Entries /\ e # NoEntry /\ writer[e] = {}
      /\ readers' = [readers EXCEPT ![e] = @ \cup {t}]
      /\ writer' = writer /\ lock_entry' = lock_entry
  BY DEF lock_shared
<1>2. \A s \in Threads, j \in Keys : s # t \/ j # k =>
        (HoldsShared(s, j)' <=> HoldsShared(s, j))
  <2> SUFFICES ASSUME NEW s \in Threads, NEW j \in Keys, s # t \/ j # k,
                      lock_entry[s][j] # NoEntry
               PROVE  s \in readers'[lock_entry[s][j]] <=> s \in readers[lock_entry[s][j]]
    BY <1>1 DEF HoldsShared
  <2>1. CASE lock_entry[s][j] = e
    <3>1. j = k
      BY <2>1, EntriesApart
    <3> QED
      BY <1>1, <2>1, <3>1
  <2>2. CASE lock_entry[s][j] # e
    BY <1>1, <2>2
  <2> QED
    BY <2>1, <2>2
<1>3. ~HoldsExclusive(t, k)' /\ HoldsShared(t, k)'
  BY <1>1 DEF HoldsExclusive, HoldsShared
<1> QED
  BY <1>1, <1>2, <1>3 DEF Untouched, HoldsExclusive

(* Unlocking takes the lock of that key from the thread and changes no other. *)
LEMMA UnlockEffect ==
    ASSUME LockInv, NEW t \in Threads, NEW k \in Keys, unlock(t, k)
    PROVE  /\ Untouched(t, k)
           /\ lock_entry' = lock_entry /\ lock_entry[t][k] # NoEntry
           /\ ~HoldsExclusive(t, k)' /\ ~HoldsShared(t, k)'
<1> USE DEF LockInv, LockTypeOK
<1> DEFINE e == lock_entry[t][k]
<1>1. /\ e \in Entries /\ e # NoEntry
      /\ writer' = [writer EXCEPT ![e] = @ \ {t}]
      /\ readers' = [readers EXCEPT ![e] = @ \ {t}]
      /\ lock_entry' = lock_entry
  BY DEF unlock
<1>2. ASSUME NEW s \in Threads, NEW j \in Keys, s # t \/ j # k, lock_entry[s][j] # NoEntry
      PROVE  /\ s \in writer'[lock_entry[s][j]] <=> s \in writer[lock_entry[s][j]]
             /\ s \in readers'[lock_entry[s][j]] <=> s \in readers[lock_entry[s][j]]
  <2>1. CASE lock_entry[s][j] = e
    <3>1. j = k
      BY <1>2, <2>1, EntriesApart
    <3> QED
      BY <1>1, <1>2, <2>1, <3>1
  <2>2. CASE lock_entry[s][j] # e
    BY <1>1, <1>2, <2>2
  <2> QED
    BY <2>1, <2>2
<1>3. ~HoldsExclusive(t, k)' /\ ~HoldsShared(t, k)'
  BY <1>1 DEF HoldsExclusive, HoldsShared
<1> QED
  BY <1>1, <1>2, <1>3 DEF Untouched, HoldsExclusive, HoldsShared

(* Giving a reference up, either way, leaves every other lock alone. *)
LEMMA GiveUpEffect ==
    ASSUME LockInv, NEW t \in Threads, NEW k \in Keys,
           release_lock_ref(t, k) \/ drop_lock_ref(t, k)
    PROVE  /\ Untouched(t, k)
           /\ lock_entry[t][k] # NoEntry /\ lock_entry'[t][k] = NoEntry
<1> USE DEF LockInv, LockTypeOK
<1>1. /\ lock_entry[t][k] # NoEntry
      /\ lock_entry' = [lock_entry EXCEPT ![t][k] = NoEntry]
      /\ writer' = writer /\ readers' = readers
  BY DEF release_lock_ref, drop_lock_ref
<1>2. \A s \in Threads, j \in Keys : s # t \/ j # k => lock_entry'[s][j] = lock_entry[s][j]
  BY <1>1
<1> QED
  BY <1>1, <1>2 DEF Untouched, HoldsExclusive, HoldsShared

-----------------------------------------------------------------------------
(***************************************************************************)
(* The storage operations.                                                 *)
(***************************************************************************)

-----------------------------------------------------------------------------
(* The index. *)

(* add_file changes what the index says about that file, and nothing else. *)
LEMMA IndexEffect ==
    ASSUME NEW k \in Keys, NEW n, Index(k, n)
    PROVE  \A j \in Keys : /\ Indexed(j)' <=> j = k \/ Indexed(j)
                           /\ Size(j)' = IF j = k THEN n ELSE Size(j)
<1> DEFINE d == normalize_path[Owner[k]]
           old == Listing(d)
           new == Put(old, k, n)
<1>1. index_' = Put(index_, d, new)
  BY DEF Index, add_file
<1>2. /\ DOMAIN new = DOMAIN old \cup {k} /\ new[k] = n
      /\ \A j \in DOMAIN old : j # k => new[j] = old[j]
  BY DEF Put
<1> HIDE DEF new
<1>3. \A e : Listing(e)' = IF e = d THEN new ELSE Listing(e)
  BY <1>1 DEF Listing, Put
<1> SUFFICES ASSUME NEW j \in Keys
             PROVE  /\ Indexed(j)' <=> j = k \/ Indexed(j)
                    /\ Size(j)' = IF j = k THEN n ELSE Size(j)
  OBVIOUS
<1>4. CASE normalize_path[Owner[j]] = d
  BY <1>2, <1>3, <1>4 DEF Indexed, Size, file_exists, get_size
<1>5. CASE normalize_path[Owner[j]] # d
  BY <1>3, <1>5 DEF Indexed, Size, file_exists, get_size
<1> QED
  BY <1>4, <1>5

(* remove_file forgets that file, and nothing else, whether or not the     *)
(* directory goes with it.                                                 *)
LEMMA UnindexEffect ==
    ASSUME NEW k \in Keys, Unindex(k)
    PROVE  \A j \in Keys : /\ Indexed(j)' <=> j # k /\ Indexed(j)
                           /\ j # k => Size(j)' = Size(j)
<1> DEFINE d == normalize_path[Owner[k]]
           old == Listing(d)
           rest == Without(old, k)
<1>1. index_' = IF DOMAIN rest = {} THEN Without(index_, d) ELSE Put(index_, d, rest)
  BY DEF Unindex, remove_file
<1>2. DOMAIN rest = DOMAIN old \ {k} /\ \A j \in DOMAIN rest : rest[j] = old[j]
  BY DEF Without
<1> HIDE DEF rest
<1>3. \A e : e # d => Listing(e)' = Listing(e)
  BY <1>1 DEF Listing, Put, Without
<1>4. /\ DOMAIN Listing(d)' = DOMAIN rest
      /\ \A j \in DOMAIN rest : Listing(d)'[j] = rest[j]
  <2>1. CASE DOMAIN rest = {}
    BY <1>1, <2>1 DEF Listing, Without, Empty
  <2>2. CASE DOMAIN rest # {}
    BY <1>1, <2>2 DEF Listing, Put
  <2> QED
    BY <2>1, <2>2
<1> SUFFICES ASSUME NEW j \in Keys
             PROVE  /\ Indexed(j)' <=> j # k /\ Indexed(j)
                    /\ j # k => Size(j)' = Size(j)
  OBVIOUS
<1>5. CASE normalize_path[Owner[j]] = d
  BY <1>2, <1>4, <1>5 DEF Indexed, Size, file_exists, get_size
<1>6. CASE normalize_path[Owner[j]] # d
  BY <1>3, <1>6 DEF Indexed, Size, file_exists, get_size
<1> QED
  BY <1>5, <1>6

(* The sizes in the index are numbers. *)
LEMMA SizeIsNat ==
    ASSUME IndexTypeOK(Keys), NEW k \in Keys
    PROVE  Size(k) \in Nat
BY DEF IndexTypeOK, Size, get_size, file_exists, Listing, Empty

(* Both updates keep the index well formed. *)
LEMMA IndexTypeStep ==
    ASSUME IndexTypeOK(Keys), NEW k \in Keys,
           (\E n \in Nat : Index(k, n)) \/ Unindex(k) \/ UNCHANGED index_
    PROVE  IndexTypeOK(Keys)'
<1> DEFINE d == normalize_path[Owner[k]]
           old == Listing(d)
<1>1. Owner[k] \in Users
  BY StorageAssumption
<1>2. \E S \in SUBSET Keys : old \in [S -> Nat]
  <2>1. <<>> \in [{} -> Nat]
    OBVIOUS
  <2> QED
    BY <2>1 DEF IndexTypeOK, Listing, Empty
<1>3. ASSUME NEW n \in Nat, Index(k, n) PROVE IndexTypeOK(Keys)'
  <2> DEFINE new == Put(old, k, n)
  <2>1. index_' = Put(index_, d, new)
    BY <1>3 DEF Index, add_file
  <2>2. \E S \in (SUBSET Keys) \ {{}} : new \in [S -> Nat]
    <3>1. PICK S \in SUBSET Keys : old \in [S -> Nat]
      BY <1>2
    <3>2. new \in [S \cup {k} -> Nat]
      BY <3>1 DEF Put
    <3> QED
      BY <3>2
  <2> HIDE DEF new
  <2> QED
    BY <1>1, <2>1, <2>2, SMTT(30) DEF IndexTypeOK, Put
<1>4. ASSUME Unindex(k) PROVE IndexTypeOK(Keys)'
  <2> DEFINE rest == Without(old, k)
  <2>1. index_' = IF DOMAIN rest = {} THEN Without(index_, d) ELSE Put(index_, d, rest)
    BY <1>4 DEF Unindex, remove_file
  <2>2. \E S \in SUBSET Keys : rest \in [S -> Nat]
    <3>1. PICK S \in SUBSET Keys : old \in [S -> Nat]
      BY <1>2
    <3>2. rest \in [S \ {k} -> Nat]
      BY <3>1 DEF Without
    <3> QED
      BY <3>2
  <2>3. DOMAIN rest # {} => \E S \in (SUBSET Keys) \ {{}} : rest \in [S -> Nat]
    BY <2>2
  <2> HIDE DEF rest
  <2>4. CASE DOMAIN rest = {}
    BY <2>1, <2>4 DEF IndexTypeOK, Without
  <2>5. CASE DOMAIN rest # {}
    <3>1. index_' = Put(index_, d, rest)
      BY <2>1, <2>5
    <3>2. \E S \in (SUBSET Keys) \ {{}} : rest \in [S -> Nat]
      BY <2>3, <2>5
    <3> QED
      BY <1>1, <3>1, <3>2, SMTT(30) DEF IndexTypeOK, Put
  <2> QED
    BY <2>4, <2>5
<1>5. ASSUME UNCHANGED index_ PROVE IndexTypeOK(Keys)'
  BY <1>5 DEF IndexTypeOK
<1> QED
  BY <1>3, <1>4, <1>5

-----------------------------------------------------------------------------
(* What a thread has depends on its own locks only. *)

\* The labels, frames and locks of all threads but t stay as they are.
OthersStay(t) ==
    \A s \in Threads \ {t} :
        /\ pc'[s] = pc[s] /\ frame'[s] = frame[s]
        /\ \A k \in Keys : /\ lock_entry'[s][k] = lock_entry[s][k]
                           /\ HoldsExclusive(s, k)' <=> HoldsExclusive(s, k)
                           /\ HoldsShared(s, k)' <=> HoldsShared(s, k)

(* A step that leaves a thread's label, frame and locks alone keeps its    *)
(* lock discipline.                                                        *)
LEMMA OthersKeep ==
    ASSUME LocksFollowControl, NEW t \in Threads, OthersStay(t),
           FrameAt(t)' /\ LocksAt(t)'
    PROVE  LocksFollowControl'
<1> SUFFICES ASSUME NEW s \in Threads \ {t} PROVE FrameAt(s)' /\ LocksAt(s)'
  BY DEF LocksFollowControl
<1>1. /\ pc'[s] = pc[s] /\ frame'[s] = frame[s]
      /\ \A k \in Keys : /\ lock_entry'[s][k] = lock_entry[s][k]
                         /\ HoldsExclusive(s, k)' <=> HoldsExclusive(s, k)
                         /\ HoldsShared(s, k)' <=> HoldsShared(s, k)
  BY DEF OthersStay
<1>2. FrameAt(s) /\ LocksAt(s)
  BY DEF LocksFollowControl
<1>3. FrameAt(s)'
  BY <1>1, <1>2 DEF FrameAt, OpKeys
<1>4. OpKeys(s)' = OpKeys(s)
  BY <1>1 DEF OpKeys
<1>5. LocksAt(s)'
  BY <1>1, <1>2, <1>4 DEF LocksAt, Refers, HasLocked, Holds
<1> QED
  BY <1>3, <1>5

(* A step that changes no lock leaves all locks of the other threads alone, *)
(* and what a thread has is told by the labels and frames alone.            *)
LEMMA SameLocks ==
    ASSUME UNCHANGED lockVars
    PROVE  \A s \in Threads, k \in Keys :
              /\ lock_entry'[s][k] = lock_entry[s][k]
              /\ HoldsExclusive(s, k)' <=> HoldsExclusive(s, k)
              /\ HoldsShared(s, k)' <=> HoldsShared(s, k)
BY DEF lockVars, HoldsExclusive, HoldsShared

-----------------------------------------------------------------------------
\* Labels at which a call of an operation begins, with the frames they need.
Entry(fr, label) ==
    \/ label = "done" /\ fr.op \notin {"save", "discard"}
    \/ label = "discard" /\ fr.op \in {"save", "discard"}
    \/ label = "save_ref" /\ fr.op = "save"
    \/ label = "size_get" /\ fr.op = "size"
    \/ label = "stream_ref" /\ fr.op = "stream"
    \/ label = "delete_ref" /\ fr.op = "delete"
    \/ label = "rename_ref_old" /\ fr.op = "rename" /\ fr.key # fr.to /\ fr.first = fr.key

\* The frame of an operation that has not begun yet.
Fresh(fr) ==
    /\ FrameOK(fr)
    /\ fr.op # "rename" => fr.key = fr.to
    /\ fr.op = "save" => fr.data \in Payloads
    /\ fr.op \notin {"save", "discard"} => fr.data = <<>>
    /\ fr.pos = 0 /\ fr.sent = <<>> /\ fr.good
    /\ fr.ok => fr.op = "list" \/ (fr.op = "rename" /\ fr.key = fr.to)

\* Thread t begins an operation with that frame.
StartsWith(t, fr, label) ==
    /\ pc[t] \in {"idle", "done"}
    /\ pc' = [pc EXCEPT ![t] = label]
    /\ frame' = [frame EXCEPT ![t] = fr]
    /\ calls' \in 0 .. MaxCalls
    /\ UNCHANGED <<lockVars, diskVars, index_>>
    /\ Entry(fr, label) /\ Fresh(fr)

Starts(t) == \E fr, label : StartsWith(t, fr, label)

(* An operation begins without any lock. *)
LEMMA StartsControl ==
    ASSUME TypeOK, LocksFollowControl, NEW t \in Threads, Starts(t)
    PROVE  LocksFollowControl'
<1>0. PICK fr, label : StartsWith(t, fr, label)
  BY DEF Starts
<1>e. Entry(fr, label) /\ Fresh(fr)
  BY <1>0 DEF StartsWith
<1>1. /\ pc' = [pc EXCEPT ![t] = label]
      /\ frame' = [frame EXCEPT ![t] = fr]
      /\ UNCHANGED lockVars
      /\ pc[t] \in {"idle", "done"}
  BY <1>0 DEF StartsWith
<1>2. pc'[t] = label /\ frame'[t] = fr
  BY <1>1 DEF TypeOK
<1>3. OthersStay(t)
  BY <1>1, SameLocks DEF OthersStay, TypeOK
<1>4. FrameAt(t)'
  BY <1>2, <1>e DEF FrameAt, Entry, Fresh, OpKeys
<1>5. Refers(t, {})
  BY <1>1 DEF LocksFollowControl, LocksAt
<1>6. LocksAt(t)'
  BY <1>1, <1>2, <1>5, <1>e, SameLocks DEF LocksAt, Entry, Refers, ReadLabels, WriteLabels
<1> QED
  BY <1>3, <1>4, <1>6, OthersKeep

(* Inside an operation the frame is complete, and unless the call does not *)
(* touch files it names keys.                                              *)
LEMMA InOperation ==
    ASSUME TypeOK, LocksFollowControl, NEW t \in Threads, pc[t] # "idle"
    PROVE  /\ FrameOK(frame[t]) /\ FrameAt(t)
           /\ pc[t] \notin {"done", "discard"} =>
                /\ frame[t].key \in Keys /\ frame[t].to \in Keys
                /\ frame[t].first \in Keys /\ OpKeys(t) \subseteq Keys
<1>1. FrameOK(frame[t])
  BY DEF TypeOK
<1>2. FrameAt(t)
  BY DEF LocksFollowControl
<1>3. pc[t] \in Labels
  BY DEF TypeOK
<1>4. ASSUME pc[t] \notin {"done", "discard"}
      PROVE  frame[t].op \in FileOps \cup {"size"}
  BY <1>2, <1>3, <1>4 DEF Labels, FrameAt, FileOps
<1> QED
  BY <1>1, <1>2, <1>4 DEF FrameOK, OpKeys, FileOps

\* Where a step that changes no lock may lead.
QuietMove(l, m) ==
    \/ m = l
    \/ l \in {"discard", "size_get"} /\ m = "done"
    \/ l \in WriteLabels /\ m \in WriteLabels \cup {"unlock", "unwind"}
    \/ l \in ReadLabels /\ m \in ReadLabels \cup {"unlock", "unwind"}

\* Thread t keeps the arguments of its operation, the others all they have.
KeepsCall(t) ==
    /\ \A s \in Threads \ {t} : pc'[s] = pc[s] /\ frame'[s] = frame[s]
    /\ frame'[t].op = frame[t].op
    /\ frame'[t].key = frame[t].key
    /\ frame'[t].to = frame[t].to

(* A step that changes no lock and stays among labels with the same locks. *)
LEMMA QuietControl ==
    ASSUME TypeOK, LocksFollowControl, NEW t \in Threads, pc[t] # "idle",
           UNCHANGED lockVars, KeepsCall(t), frame'[t].first = frame[t].first,
           QuietMove(pc[t], pc'[t]), FrameAt(t)'
    PROVE  LocksFollowControl'
<1>1. OthersStay(t)
  BY SameLocks DEF OthersStay, KeepsCall
<1>2. OpKeys(t)' = OpKeys(t)
  BY DEF OpKeys, KeepsCall
<1>3. LocksAt(t)
  BY DEF LocksFollowControl
<1> SUFFICES LocksAt(t)'
  BY <1>1, OthersKeep
<1>4. CASE pc'[t] = pc[t]
  BY <1>2, <1>3, <1>4, SameLocks DEF LocksAt, Refers, HasLocked, Holds, KeepsCall
<1>5. CASE pc[t] \in {"discard", "size_get"} /\ pc'[t] = "done"
  BY <1>3, <1>5, SameLocks DEF LocksAt, Refers, ReadLabels, WriteLabels
<1>6. CASE pc[t] \in WriteLabels /\ pc'[t] \in WriteLabels \cup {"unlock", "unwind"}
  <2>1. Refers(t, OpKeys(t)) /\ HasLocked(t, OpKeys(t), {})
    BY <1>3, <1>6 DEF LocksAt
  <2>2. PICK k \in Keys : k \in OpKeys(t)
    BY <1>6, InOperation DEF OpKeys, WriteLabels
  <2>3. Refers(t, OpKeys(t))' /\ HasLocked(t, OpKeys(t), {})'
    BY <1>2, <2>1, SameLocks DEF Refers, HasLocked
  <2>4. Holds(t, k)'
    BY <2>1, <2>2, SameLocks DEF Holds, HasLocked
  <2> QED
    BY <1>6, <2>3, <2>4 DEF LocksAt, WriteLabels, ReadLabels
<1>7. CASE pc[t] \in ReadLabels /\ pc'[t] \in ReadLabels \cup {"unlock", "unwind"}
  <2>1. Refers(t, OpKeys(t)) /\ HasLocked(t, {}, OpKeys(t))
    BY <1>3, <1>7 DEF LocksAt
  <2>2. PICK k \in Keys : k \in OpKeys(t)
    BY <1>7, InOperation DEF OpKeys, ReadLabels
  <2>3. Refers(t, OpKeys(t))' /\ HasLocked(t, {}, OpKeys(t))'
    BY <1>2, <2>1, SameLocks DEF Refers, HasLocked
  <2>4. Holds(t, k)'
    BY <2>1, <2>2, SameLocks DEF Holds, HasLocked
  <2> QED
    BY <1>7, <2>3, <2>4 DEF LocksAt, WriteLabels, ReadLabels
<1> QED
  BY <1>4, <1>5, <1>6, <1>7 DEF QuietMove

\* The steps inside an operation that touch no lock.
QuietStep(t) ==
    \/ DiscardChunk(t) \/ DiscardEnd(t)
    \/ SaveOpen(t) \/ SaveChunk(t) \/ SaveNetError(t) \/ SaveIndex(t)
    \/ SizeGet(t)
    \/ StreamOpen(t) \/ StreamChunk(t) \/ StreamNetError(t) \/ StreamEnd(t)
    \/ DeleteRemove(t) \/ DeleteIndex(t)
    \/ RenameCheck(t) \/ RenameMove(t) \/ RenameSize(t) \/ RenameRemove(t)
    \/ RenameAdd(t)

(* Every step that touches no lock leads to a label with the same locks.   *)
LEMMA QuietSteps ==
    ASSUME TypeOK, LocksFollowControl, NEW t \in Threads, QuietStep(t)
    PROVE  LocksFollowControl'
<1> DEFINE Goal == /\ UNCHANGED lockVars
                   /\ pc[t] # "idle"
                   /\ KeepsCall(t) /\ frame'[t].first = frame[t].first
                   /\ QuietMove(pc[t], pc'[t])
                   /\ FrameAt(t)'
<1> USE DEF KeepsCall, QuietMove, ReadLabels, WriteLabels
<1>io. pc[t] # "idle" => FrameOK(frame[t]) /\ FrameAt(t)
  BY InOperation
<1>sz. pc[t] \in {"rename_size", "size_get"} => Size(frame[t].key) \in Nat
  BY InOperation, SizeIsNat DEF TypeOK
<1>ty. DOMAIN frame = Threads /\ pc \in [Threads -> Labels]
  BY DEF TypeOK
<1>1. ASSUME DiscardChunk(t) PROVE Goal
  BY <1>1, <1>io, <1>ty DEF DiscardChunk, Then, GoTo, FrameOK, FrameAt, OpKeys
<1>2. ASSUME DiscardEnd(t) PROVE Goal
  BY <1>2, <1>io, <1>ty DEF DiscardEnd, Then, GoTo, FrameOK, FrameAt, OpKeys
<1>3. ASSUME SaveOpen(t) PROVE Goal
  BY <1>3, <1>io, <1>ty DEF SaveOpen, Then, GoTo, FrameOK, FrameAt, OpKeys
<1>4. ASSUME SaveChunk(t) PROVE Goal
  BY <1>4, <1>io, <1>ty DEF SaveChunk, Then, GoTo, FrameOK, FrameAt, OpKeys
<1>5. ASSUME SaveNetError(t) PROVE Goal
  BY <1>5, <1>io, <1>ty DEF SaveNetError, Then, GoTo, FrameOK, FrameAt, OpKeys
<1>6. ASSUME SaveIndex(t) PROVE Goal
  BY <1>6, <1>io, <1>ty DEF SaveIndex, Then, GoTo, FrameOK, FrameAt, OpKeys
<1>7. ASSUME SizeGet(t) PROVE Goal
  BY <1>7, <1>io, <1>ty, <1>sz DEF SizeGet, Then, GoTo, FrameOK, FrameAt, OpKeys
<1>8. ASSUME StreamOpen(t) PROVE Goal
  BY <1>8, <1>io, <1>ty DEF StreamOpen, Then, GoTo, FrameOK, FrameAt, OpKeys
<1>9. ASSUME StreamChunk(t) PROVE Goal
  BY <1>9, <1>io, <1>ty DEF StreamChunk, Then, GoTo, FrameOK, FrameAt, OpKeys
<1>10. ASSUME StreamNetError(t) PROVE Goal
  BY <1>10, <1>io, <1>ty DEF StreamNetError, Then, GoTo, FrameOK, FrameAt, OpKeys
<1>11. ASSUME StreamEnd(t) PROVE Goal
  BY <1>11, <1>io, <1>ty DEF StreamEnd, Then, GoTo, FrameOK, FrameAt, OpKeys
<1>12. ASSUME DeleteRemove(t) PROVE Goal
  BY <1>12, <1>io, <1>ty DEF DeleteRemove, Then, GoTo, FrameOK, FrameAt, OpKeys
<1>13. ASSUME DeleteIndex(t) PROVE Goal
  BY <1>13, <1>io, <1>ty DEF DeleteIndex, Then, GoTo, FrameOK, FrameAt, OpKeys
<1>14. ASSUME RenameCheck(t) PROVE Goal
  BY <1>14, <1>io, <1>ty DEF RenameCheck, Then, GoTo, FrameOK, FrameAt, OpKeys
<1>15. ASSUME RenameMove(t) PROVE Goal
  BY <1>15, <1>io, <1>ty DEF RenameMove, Then, GoTo, FrameOK, FrameAt, OpKeys
<1>16. ASSUME RenameSize(t) PROVE Goal
  BY <1>16, <1>io, <1>ty, <1>sz DEF RenameSize, Then, GoTo, FrameOK, FrameAt, OpKeys
<1>17. ASSUME RenameRemove(t) PROVE Goal
  BY <1>17, <1>io, <1>ty DEF RenameRemove, Then, GoTo, FrameOK, FrameAt, OpKeys
<1>18. ASSUME RenameAdd(t) PROVE Goal
  BY <1>18, <1>io, <1>ty DEF RenameAdd, Then, GoTo, FrameOK, FrameAt, OpKeys
<1>99. Goal
  BY <1>1, <1>2, <1>3, <1>4, <1>5, <1>6, <1>7, <1>8, <1>9, <1>10, <1>11, <1>12, <1>13, <1>14, <1>15, <1>16, <1>17, <1>18 DEF QuietStep
<1> QED
  BY <1>99, QuietControl

(* A step that moves one thread and changes one of its locks. *)
LEMMA LockMove ==
    ASSUME TypeOK, NEW t \in Threads, NEW k \in Keys, Untouched(t, k),
           NEW label, GoTo(t, label),
           \A s \in Threads \ {t} : frame'[s] = frame[s]
    PROVE  OthersStay(t) /\ pc'[t] = label
<1>1. pc'[t] = label /\ \A s \in Threads \ {t} : pc'[s] = pc[s]
  BY DEF GoTo, TypeOK
<1> QED
  BY <1>1 DEF OthersStay, Untouched

(* Whoever has no reference to a key has no lock on it. *)
LEMMA NoReferenceNoLock ==
    ASSUME NEW t, NEW k, lock_entry[t][k] = NoEntry
    PROVE  ~HoldsExclusive(t, k) /\ ~HoldsShared(t, k)
BY DEF HoldsExclusive, HoldsShared

(* Taking the first reference of an operation. *)
LEMMA FirstRef ==
    ASSUME TypeOK, LockInv, LocksFollowControl, NEW t \in Threads,
           SaveRef(t) \/ StreamRef(t) \/ DeleteRef(t) \/ RenameRefOld(t)
    PROVE  LocksFollowControl'
<1>0. PICK k \in Keys : k = frame[t].key
  BY InOperation DEF SaveRef, StreamRef, DeleteRef, RenameRefOld
<1>1. PICK label \in {"save_lock", "stream_lock", "delete_lock", "rename_ref_new"} :
        /\ acquire_lock_ref(t, k) /\ Then(t, label)
        /\ pc[t] \in {"save_ref", "stream_ref", "delete_ref", "rename_ref_old"}
        /\ label = "save_lock" <=> pc[t] = "save_ref"
        /\ label = "stream_lock" <=> pc[t] = "stream_ref"
        /\ label = "delete_lock" <=> pc[t] = "delete_ref"
        /\ label = "rename_ref_new" <=> pc[t] = "rename_ref_old"
  BY <1>0 DEF SaveRef, StreamRef, DeleteRef, RenameRefOld
<1>2. k = frame[t].key /\ k \in Keys /\ FrameAt(t)
  BY <1>0, <1>1, InOperation
<1>3. Refers(t, {})
  BY <1>1 DEF LocksFollowControl, LocksAt
<1>4. /\ Untouched(t, k) /\ lock_entry'[t][k] # NoEntry
      /\ ~HoldsExclusive(t, k)' /\ ~HoldsShared(t, k)'
  BY <1>1, <1>2, AcquireEffect
<1>5. OthersStay(t) /\ pc'[t] = label /\ frame' = frame
  BY <1>1, <1>2, <1>4, LockMove DEF Then
<1>6. \A j \in Keys : j # k => /\ lock_entry'[t][j] = NoEntry
                               /\ ~HoldsExclusive(t, j)' /\ ~HoldsShared(t, j)'
  BY <1>3, <1>4, NoReferenceNoLock DEF Refers, Untouched
<1>7. Refers(t, {k})' /\ HasLocked(t, {}, {})'
  BY <1>4, <1>5, <1>6 DEF Refers, HasLocked
<1>8. LocksAt(t)'
  BY <1>1, <1>2, <1>5, <1>7 DEF LocksAt, ReadLabels, WriteLabels, Refers, HasLocked
<1>9. FrameAt(t)'
  BY <1>1, <1>2, <1>5 DEF FrameAt, OpKeys
<1> QED
  BY <1>5, <1>8, <1>9, OthersKeep

(* Taking the second reference of rename_file. *)
LEMMA SecondRef ==
    ASSUME TypeOK, LockInv, LocksFollowControl, NEW t \in Threads, RenameRefNew(t)
    PROVE  LocksFollowControl'
<1>0. PICK k \in Keys : k = frame[t].to
  BY InOperation DEF RenameRefNew
<1>1. /\ acquire_lock_ref(t, k) /\ Then(t, "rename_first")
      /\ pc[t] = "rename_ref_new"
  BY <1>0 DEF RenameRefNew
<1>2. k = frame[t].to /\ k \in Keys /\ frame[t].key \in Keys /\ FrameAt(t)
  BY <1>0, <1>1, InOperation
<1>3. Refers(t, {frame[t].key}) /\ HasLocked(t, {}, {})
  BY <1>1 DEF LocksFollowControl, LocksAt
<1>4. /\ Untouched(t, k) /\ lock_entry'[t][k] # NoEntry
      /\ ~HoldsExclusive(t, k)' /\ ~HoldsShared(t, k)'
  BY <1>1, <1>2, AcquireEffect
<1>5. OthersStay(t) /\ pc'[t] = "rename_first" /\ frame' = frame
  BY <1>1, <1>2, <1>4, LockMove DEF Then
<1>6. \A j \in Keys : j # k => /\ lock_entry'[t][j] # NoEntry <=> j = frame[t].key
                               /\ ~HoldsExclusive(t, j)' /\ ~HoldsShared(t, j)'
  BY <1>3, <1>4 DEF Refers, HasLocked, Untouched
<1>7. Refers(t, OpKeys(t))' /\ HasLocked(t, {}, {})'
  BY <1>2, <1>4, <1>5, <1>6 DEF Refers, HasLocked, OpKeys
<1>8. LocksAt(t)'
  BY <1>5, <1>7 DEF LocksAt, ReadLabels, WriteLabels
<1>9. FrameAt(t)'
  BY <1>1, <1>2, <1>5 DEF FrameAt, OpKeys
<1> QED
  BY <1>5, <1>8, <1>9, OthersKeep

(* Locking the one file of an operation. *)
LEMMA LockOne ==
    ASSUME TypeOK, LockInv, LocksFollowControl, NEW t \in Threads,
           SaveLock(t) \/ DeleteLock(t) \/ StreamLock(t)
    PROVE  LocksFollowControl'
<1>0. PICK k \in Keys : k = frame[t].key
  BY InOperation DEF SaveLock, DeleteLock, StreamLock
<1>1. PICK label \in {"save_open", "stream_open", "delete_remove"} :
        /\ pc[t] \in {"save_lock", "stream_lock", "delete_lock"}
        /\ label = "save_open" <=> pc[t] = "save_lock"
        /\ label = "stream_open" <=> pc[t] = "stream_lock"
        /\ label = "delete_remove" <=> pc[t] = "delete_lock"
        /\ IF label = "stream_open" THEN lock_shared(t, k) ELSE lock(t, k)
        /\ Then(t, label)
  BY <1>0 DEF SaveLock, DeleteLock, StreamLock
<1>2. k = frame[t].key /\ k \in Keys /\ FrameAt(t)
  BY <1>0, <1>1, InOperation
<1>3. Refers(t, {k}) /\ HasLocked(t, {}, {})
  BY <1>1, <1>2 DEF LocksFollowControl, LocksAt
<1>4. /\ Untouched(t, k) /\ lock_entry' = lock_entry
      /\ HoldsExclusive(t, k)' <=> label # "stream_open"
      /\ HoldsShared(t, k)' <=> label = "stream_open"
  BY <1>1, <1>2, LockEffect, LockSharedEffect
<1>5. OthersStay(t) /\ pc'[t] = label /\ frame' = frame
  BY <1>1, <1>2, <1>4, LockMove DEF Then
<1>6. \A j \in Keys : j # k => ~HoldsExclusive(t, j)' /\ ~HoldsShared(t, j)'
  BY <1>3, <1>4 DEF HasLocked, Untouched
<1>7. OpKeys(t)' = {k}
  BY <1>1, <1>2, <1>5 DEF FrameAt, OpKeys
<1>8. Refers(t, {k})'
  BY <1>3, <1>4, <1>5 DEF Refers
<1>9. IF label = "stream_open" THEN HasLocked(t, {}, {k})' ELSE HasLocked(t, {k}, {})'
  BY <1>4, <1>5, <1>6 DEF HasLocked
<1>10. LocksAt(t)'
  BY <1>5, <1>7, <1>8, <1>9 DEF LocksAt, ReadLabels, WriteLabels, Refers, HasLocked
<1>11. FrameAt(t)'
  BY <1>1, <1>2, <1>5 DEF FrameAt, OpKeys
<1> QED
  BY <1>5, <1>10, <1>11, OthersKeep

(* std::lock in rename_file: the mutex blocked on, the other one, and the  *)
(* way back when the other one is taken.                                   *)
LEMMA LockTwo ==
    ASSUME TypeOK, LockInv, LocksFollowControl, NEW t \in Threads,
           RenameFirst(t) \/ RenameSecond(t) \/ RenameBackOff(t)
    PROVE  LocksFollowControl'
<1>0. pc[t] \in {"rename_first", "rename_second"}
  BY DEF RenameFirst, RenameSecond, RenameBackOff
<1>1. PICK x \in Keys, y \in Keys : x = frame[t].first /\ y = Second(t)
  BY <1>0, InOperation DEF Second
<1>2. x # y /\ OpKeys(t) = {x, y} /\ FrameAt(t)
  BY <1>0, <1>1, InOperation DEF Second, OpKeys, FrameAt
<1>3. Refers(t, {x, y})
  BY <1>0, <1>2 DEF LocksFollowControl, LocksAt
<1>4. /\ pc[t] = "rename_first" => HasLocked(t, {}, {})
      /\ pc[t] = "rename_second" => HasLocked(t, {x}, {})
  BY <1>1 DEF LocksFollowControl, LocksAt
<1>5. CASE RenameFirst(t)
  <2>1. pc[t] = "rename_first" /\ lock(t, x) /\ Then(t, "rename_second")
    BY <1>1, <1>5 DEF RenameFirst
  <2>2. /\ Untouched(t, x) /\ lock_entry' = lock_entry
        /\ HoldsExclusive(t, x)' /\ ~HoldsShared(t, x)'
    BY <2>1, LockEffect
  <2>3. OthersStay(t) /\ pc'[t] = "rename_second" /\ frame' = frame
    BY <2>1, <2>2, LockMove DEF Then
  <2>4. OpKeys(t)' = {x, y} /\ frame'[t].first = x
    BY <1>1, <1>2, <2>3 DEF OpKeys
  <2>5. Refers(t, {x, y})' /\ HasLocked(t, {x}, {})'
    BY <1>3, <1>4, <2>1, <2>2 DEF Refers, HasLocked, Untouched
  <2>6. LocksAt(t)'
    BY <2>3, <2>4, <2>5 DEF LocksAt, Refers, HasLocked, ReadLabels, WriteLabels
  <2>7. FrameAt(t)'
    BY <1>2, <2>1, <2>3 DEF FrameAt, OpKeys
  <2> QED
    BY <2>3, <2>6, <2>7, OthersKeep
<1>6. CASE RenameSecond(t)
  <2>1. pc[t] = "rename_second" /\ lock(t, y) /\ Then(t, "rename_check")
    BY <1>1, <1>6 DEF RenameSecond
  <2>2. /\ Untouched(t, y) /\ lock_entry' = lock_entry
        /\ HoldsExclusive(t, y)' /\ ~HoldsShared(t, y)'
    BY <2>1, LockEffect
  <2>3. OthersStay(t) /\ pc'[t] = "rename_check" /\ frame' = frame
    BY <2>1, <2>2, LockMove DEF Then
  <2>4. OpKeys(t)' = {x, y}
    BY <1>2, <2>3 DEF OpKeys
  <2>5. Refers(t, {x, y})' /\ HasLocked(t, {x, y}, {})'
    BY <1>3, <1>4, <2>1, <2>2 DEF Refers, HasLocked, Untouched
  <2>6. LocksAt(t)'
    BY <2>3, <2>4, <2>5 DEF LocksAt, Refers, HasLocked, ReadLabels, WriteLabels
  <2>7. FrameAt(t)'
    BY <1>2, <2>1, <2>3 DEF FrameAt, OpKeys
  <2> QED
    BY <2>3, <2>6, <2>7, OthersKeep
<1>7. CASE RenameBackOff(t)
  <2>1. /\ pc[t] = "rename_second" /\ unlock(t, x) /\ GoTo(t, "rename_first")
        /\ frame' = [frame EXCEPT ![t].first = y]
    BY <1>1, <1>7 DEF RenameBackOff
  <2>2. /\ Untouched(t, x) /\ lock_entry' = lock_entry
        /\ ~HoldsExclusive(t, x)' /\ ~HoldsShared(t, x)'
    BY <2>1, UnlockEffect
  <2>3. /\ \A s \in Threads \ {t} : frame'[s] = frame[s]
        /\ frame'[t].first = y /\ frame'[t].op = frame[t].op
        /\ frame'[t].key = frame[t].key /\ frame'[t].to = frame[t].to
    BY <2>1 DEF TypeOK, FrameOK
  <2>4. OthersStay(t) /\ pc'[t] = "rename_first"
    BY <2>1, <2>2, <2>3, LockMove
  <2>5. OpKeys(t)' = {x, y}
    BY <1>2, <2>3 DEF OpKeys
  <2>6. Refers(t, {x, y})' /\ HasLocked(t, {}, {})'
    BY <1>3, <1>4, <2>1, <2>2 DEF Refers, HasLocked, Untouched
  <2>7. LocksAt(t)'
    BY <2>4, <2>5, <2>6 DEF LocksAt, Refers, HasLocked, ReadLabels, WriteLabels
  <2>8. FrameAt(t)'
    BY <1>2, <2>1, <2>3, <2>4, <2>5 DEF FrameAt
  <2> QED
    BY <2>4, <2>7, <2>8, OthersKeep
<1> QED
  BY <1>5, <1>6, <1>7

(* The key that the ways out take next, and that it is the last one        *)
(* exactly when no other is left.                                          *)
LEMMA NextOut ==
    ASSUME NEW t, NEW S \in SUBSET OpKeys(t), S # {}
    PROVE  /\ Earlier(t, S) \in S /\ Later(t, S) \in S
           /\ Cardinality(S) = 1 <=> S \ {Earlier(t, S)} = {}
           /\ Cardinality(S) = 1 <=> S \ {Later(t, S)} = {}
<1>1. Earlier(t, S) \in S /\ Later(t, S) \in S
  BY DEF Earlier, Later, OpKeys
<1>2. IsFiniteSet(OpKeys(t))
  <2>1. IsFiniteSet({frame[t].key})
    BY FS_Singleton
  <2>2. IsFiniteSet({frame[t].key} \cup {frame[t].to})
    BY <2>1, FS_AddElement
  <2>3. OpKeys(t) = {frame[t].key} \cup {frame[t].to}
    BY DEF OpKeys
  <2> QED
    BY <2>2, <2>3
<1>3. IsFiniteSet(S) /\ Cardinality(S) \in Nat
  BY <1>2, FS_Subset, FS_CardinalityType
<1>4. ASSUME NEW x \in S PROVE Cardinality(S) = 1 <=> S \ {x} = {}
  <2>1. /\ IsFiniteSet(S \ {x})
        /\ Cardinality(S \ {x}) = Cardinality(S) - 1
    BY <1>3, FS_RemoveElement
  <2>2. Cardinality(S \ {x}) = 0 <=> S \ {x} = {}
    BY <2>1, FS_EmptySet
  <2> QED
    BY <1>3, <2>1, <2>2
<1> QED
  BY <1>1, <1>4

(* Unlocking on the way out, mutex by mutex. *)
LEMMA UnlockOut ==
    ASSUME TypeOK, LockInv, LocksFollowControl, NEW t \in Threads,
           Unlock(t) \/ Unwind(t)
    PROVE  LocksFollowControl'
<1>0. pc[t] \in {"unlock", "unwind"}
  BY DEF Unlock, Unwind
<1>1. OpKeys(t) \subseteq Keys /\ FrameAt(t)
  BY <1>0, InOperation
<1>2. Refers(t, OpKeys(t)) /\ \E k \in Keys : Holds(t, k)
  BY <1>0 DEF LocksFollowControl, LocksAt
<1>3. LockedKeys(t) \in SUBSET OpKeys(t) /\ LockedKeys(t) # {}
  BY <1>1, <1>2, NoReferenceNoLock DEF LockedKeys, Refers, Holds
<1>4. PICK k \in LockedKeys(t), label \in {"release", "drop", "unlock", "unwind"} :
        /\ unlock(t, k) /\ Then(t, label)
        /\ label \in {"release", "drop"} <=> LockedKeys(t) \ {k} = {}
  BY <1>3, NextOut DEF Unlock, Unwind
<1>5. k \in Keys /\ k \in OpKeys(t)
  BY <1>1, <1>3, <1>4
<1>6. /\ Untouched(t, k) /\ lock_entry' = lock_entry
      /\ ~HoldsExclusive(t, k)' /\ ~HoldsShared(t, k)'
  BY <1>4, <1>5, UnlockEffect
<1>7. OthersStay(t) /\ pc'[t] = label /\ frame' = frame
  BY <1>4, <1>5, <1>6, LockMove DEF Then
<1>8. OpKeys(t)' = OpKeys(t)
  BY <1>7 DEF OpKeys
<1>9. Refers(t, OpKeys(t))'
  BY <1>2, <1>6, <1>8 DEF Refers
<1>10. CASE LockedKeys(t) \ {k} = {}
  <2>1. \A j \in Keys : j # k => ~HoldsExclusive(t, j) /\ ~HoldsShared(t, j)
    BY <1>2, <1>10, NoReferenceNoLock DEF LockedKeys, Refers, Holds
  <2>2. HasLocked(t, {}, {})'
    BY <1>6, <2>1 DEF HasLocked, Untouched
  <2> QED
    BY <1>4, <1>5, <1>7, <1>8, <1>9, <1>10, <2>2, OthersKeep, <1>0, <1>1
    DEF LocksAt, FrameAt, Refers, ReadLabels, WriteLabels, OpKeys
<1>11. CASE LockedKeys(t) \ {k} # {}
  <2>1. PICK j \in LockedKeys(t) : j # k
    BY <1>11
  <2>2. j \in Keys /\ Holds(t, j)
    BY <1>1, <2>1 DEF LockedKeys
  <2>3. Holds(t, j)'
    BY <1>6, <2>1, <2>2 DEF Holds, Untouched
  <2>4. LocksAt(t)'
    BY <1>4, <1>7, <1>9, <1>11, <2>2, <2>3 DEF LocksAt, ReadLabels, WriteLabels
  <2>5. FrameAt(t)'
    BY <1>0, <1>1, <1>4, <1>7, <1>11 DEF FrameAt
  <2> QED
    BY <1>7, <2>4, <2>5, OthersKeep
<1> QED
  BY <1>10, <1>11

(* Giving up the references on the way out, one by one. *)
LEMMA GiveUpOut ==
    ASSUME TypeOK, LockInv, LocksFollowControl, NEW t \in Threads,
           Release(t) \/ Drop(t)
    PROVE  LocksFollowControl'
<1>0. pc[t] \in {"release", "drop"}
  BY DEF Release, Drop
<1>1. OpKeys(t) \subseteq Keys /\ FrameAt(t)
  BY <1>0, InOperation
<1>2. /\ \E k \in Keys : lock_entry[t][k] # NoEntry
      /\ \A k \in Keys \ OpKeys(t) : lock_entry[t][k] = NoEntry
      /\ HasLocked(t, {}, {})
  BY <1>0 DEF LocksFollowControl, LocksAt
<1>3. ReferredKeys(t) \in SUBSET OpKeys(t) /\ ReferredKeys(t) # {}
  BY <1>1, <1>2 DEF ReferredKeys
<1>4. PICK k \in ReferredKeys(t), label \in {"done", "release", "drop"} :
        /\ release_lock_ref(t, k) \/ drop_lock_ref(t, k)
        /\ Then(t, label)
        /\ label = "done" <=> ReferredKeys(t) \ {k} = {}
  BY <1>3, NextOut DEF Release, Drop
<1>5. k \in Keys /\ k \in OpKeys(t)
  BY <1>1, <1>3, <1>4
<1>6. Untouched(t, k) /\ lock_entry'[t][k] = NoEntry
  BY <1>4, <1>5, GiveUpEffect
<1>7. OthersStay(t) /\ pc'[t] = label /\ frame' = frame
  BY <1>4, <1>5, <1>6, LockMove DEF Then
<1>8. OpKeys(t)' = OpKeys(t)
  BY <1>7 DEF OpKeys
<1>9. HasLocked(t, {}, {})'
  BY <1>2, <1>6 DEF HasLocked, Untouched, HoldsExclusive, HoldsShared
<1>10. \A j \in Keys \ OpKeys(t) : lock_entry'[t][j] = NoEntry
  BY <1>2, <1>6 DEF Untouched
<1>11. FrameAt(t)'
  BY <1>0, <1>1, <1>4, <1>7 DEF FrameAt
<1>12. CASE ReferredKeys(t) \ {k} = {}
  <2>1. Refers(t, {})'
    BY <1>2, <1>6, <1>12 DEF Refers, Untouched, ReferredKeys
  <2>2. LocksAt(t)'
    BY <1>4, <1>7, <1>12, <2>1 DEF LocksAt, ReadLabels, WriteLabels
  <2> QED
    BY <1>7, <1>11, <2>2, OthersKeep
<1>13. CASE ReferredKeys(t) \ {k} # {}
  <2>1. PICK j \in Keys : lock_entry'[t][j] # NoEntry
    BY <1>1, <1>6, <1>13 DEF ReferredKeys, Untouched
  <2>2. LocksAt(t)'
    BY <1>4, <1>7, <1>8, <1>9, <1>10, <1>13, <2>1 DEF LocksAt, ReadLabels, WriteLabels
  <2> QED
    BY <1>7, <1>11, <2>2, OthersKeep
<1> QED
  BY <1>12, <1>13

-----------------------------------------------------------------------------
(* The steps of one thread, of all operations. *)

\* The steps that take or give up references and mutexes.
LockStep(t) ==
    \/ SaveRef(t) \/ StreamRef(t) \/ DeleteRef(t) \/ RenameRefOld(t) \/ RenameRefNew(t)
    \/ SaveLock(t) \/ StreamLock(t) \/ DeleteLock(t)
    \/ RenameFirst(t) \/ RenameSecond(t) \/ RenameBackOff(t)
    \/ Unlock(t) \/ Unwind(t) \/ Release(t) \/ Drop(t)

(* Every step of an operation is of one of the two kinds. *)
LEMMA TwoKinds ==
    ASSUME NEW t
    PROVE  OpStep(t) <=> QuietStep(t) \/ LockStep(t)
BY DEF OpStep, QuietStep, LockStep

(* Every step of an operation keeps the lock discipline of all threads. *)
LEMMA OpControl ==
    ASSUME TypeOK, LockInv, LocksFollowControl, NEW t \in Threads, OpStep(t)
    PROVE  LocksFollowControl'
<1>1. CASE QuietStep(t)
  BY <1>1, QuietSteps
<1>2. CASE LockStep(t)
  BY <1>2, FirstRef, SecondRef, LockOne, LockTwo, UnlockOut, GiveUpOut DEF LockStep
<1> QED
  BY <1>1, <1>2, TwoKinds

(* A new frame is complete. *)
LEMMA NewFrameFresh ==
    ASSUME NEW op \in FileOps \cup {"size", "discard", "list"}, NEW k, NEW j, NEW d \in Seq(Chunks),
           op \in FileOps \cup {"size"} => k \in Keys /\ j \in Keys,
           op # "rename" => k = j,
           op = "save" => d \in Payloads,
           op \notin {"save", "discard"} => d = <<>>
    PROVE  /\ Fresh(NewFrame(op, k, j, d))
           /\ NewFrame(op, k, j, d).op = op
           /\ NewFrame(op, k, j, d).key = k /\ NewFrame(op, k, j, d).to = j
           /\ NewFrame(op, k, j, d).first = k
<1>1. 0 \in 0 .. Len(d) /\ <<>> \in Seq(Chunks)
  OBVIOUS
<1> QED
  BY <1>1 DEF Fresh, FrameOK, NewFrame, FileOps

(* Every call builds a frame that fits the label it goes to. *)
LEMMA CallShape ==
    ASSUME NEW t, NewCall(t)
    PROVE  \E fr, label : Call(t, fr, label) /\ Entry(fr, label) /\ Fresh(fr)
<1>1. /\ <<>> \in Seq(Chunks)
      /\ \A d \in Payloads : d \in Seq(Chunks)
  BY StorageAssumption
<1> USE DEF Entry
<1>2. ASSUME NEW k \in Keys, NEW d \in Payloads, save_file(t, k, d)
      PROVE  \E fr, label : Call(t, fr, label) /\ Entry(fr, label) /\ Fresh(fr)
  BY <1>1, <1>2, NewFrameFresh DEF save_file, FileOps
<1>3. ASSUME NEW k \in Keys, get_file_size(t, k)
      PROVE  \E fr, label : Call(t, fr, label) /\ Entry(fr, label) /\ Fresh(fr)
  BY <1>1, <1>3, NewFrameFresh DEF get_file_size, FileOps
<1>4. ASSUME NEW u \in Users, list_files(t, u)
      PROVE  \E fr, label : Call(t, fr, label) /\ Entry(fr, label) /\ Fresh(fr)
  <2> DEFINE new == NewFrame("list", None, None, <<>>)
             fr == [new EXCEPT !.listing = list_directory(u), !.ok = TRUE]
  <2>1. Fresh(new) /\ new.op = "list"
    BY <1>1 DEF Fresh, FrameOK, NewFrame, FileOps
  <2> HIDE DEF new
  <2>2. Fresh(fr) /\ fr.op = "list"
    BY <2>1 DEF Fresh, FrameOK
  <2>3. Call(t, fr, "done")
    BY <1>4 DEF list_files, new
  <2> QED
    BY <2>2, <2>3
<1>5. ASSUME NEW k \in Keys, stream_file_to_socket(t, k)
      PROVE  \E fr, label : Call(t, fr, label) /\ Entry(fr, label) /\ Fresh(fr)
  BY <1>1, <1>5, NewFrameFresh DEF stream_file_to_socket, StreamEntry, FileOps
<1>6. ASSUME NEW k \in Keys, delete_file(t, k)
      PROVE  \E fr, label : Call(t, fr, label) /\ Entry(fr, label) /\ Fresh(fr)
  BY <1>1, <1>6, NewFrameFresh DEF delete_file, FileOps
<1>7. ASSUME NEW k \in Keys, NEW j \in Keys, rename_file(t, k, j)
      PROVE  \E fr, label : Call(t, fr, label) /\ Entry(fr, label) /\ Fresh(fr)
  <2> DEFINE new == NewFrame("rename", k, j, <<>>)
             fr == [new EXCEPT !.ok = (k = j /\ k \in ValidKeys)]
  <2>1. /\ Fresh(new) /\ new.op = "rename"
        /\ new.key = k /\ new.to = j /\ new.first = k
    BY <1>1 DEF Fresh, FrameOK, NewFrame, FileOps
  <2> HIDE DEF new
  <2>2. Fresh(fr) /\ fr.op = "rename"
    BY <2>1 DEF Fresh, FrameOK
  <2>3. \/ Call(t, new, "rename_ref_old") /\ k # j
        \/ Call(t, fr, "done")
    BY <1>7 DEF rename_file, new
  <2> QED
    BY <2>1, <2>2, <2>3
<1> QED
  BY <1>2, <1>3, <1>4, <1>5, <1>6, <1>7 DEF NewCall

(* A call of a client begins an operation with nothing done yet. *)
LEMMA NewCallStarts ==
    ASSUME TypeOK, NEW t \in Threads, NewCall(t)
    PROVE  Starts(t)
<1>1. PICK fr, label : Call(t, fr, label) /\ Entry(fr, label) /\ Fresh(fr)
  BY CallShape
<1>2. calls + 1 \in 0 .. MaxCalls
  BY <1>1, StorageAssumption DEF Call, TypeOK
<1>3. StartsWith(t, fr, label)
  BY <1>1, <1>2 DEF Call, GoTo, StartsWith
<1> QED
  BY <1>3 DEF Starts

-----------------------------------------------------------------------------
(* The operations use the locks as LockSpec allows: references are given   *)
(* up only after the mutex is unlocked, on every path.                     *)
LEMMA OpLocks ==
    ASSUME TypeOK, LocksFollowControl, NEW t \in Threads, OpStep(t)
    PROVE  LockNext \/ UNCHANGED lockVars
<1>1. CASE QuietStep(t)
  BY <1>1 DEF QuietStep, DiscardChunk, DiscardEnd, SaveOpen, SaveChunk,
     SaveNetError, SaveIndex, SizeGet, StreamOpen, StreamChunk, StreamNetError,
     StreamEnd, DeleteRemove, DeleteIndex, RenameCheck, RenameMove, RenameSize,
     RenameRemove, RenameAdd
<1>2. CASE LockStep(t)
  <2>1. pc[t] # "idle" /\ pc[t] \notin {"done", "discard"}
    BY <1>2 DEF LockStep, SaveRef, StreamRef, DeleteRef, RenameRefOld, RenameRefNew,
       SaveLock, StreamLock, DeleteLock, RenameFirst, RenameSecond, RenameBackOff,
       Unlock, Unwind, Release, Drop
  <2>2. /\ frame[t].key \in Keys /\ frame[t].to \in Keys /\ frame[t].first \in Keys
        /\ Second(t) \in Keys
    BY <2>1, InOperation DEF Second
  <2>3. \A S : Earlier(t, S) \in Keys /\ Later(t, S) \in Keys
    BY <2>2 DEF Earlier, Later
  <2>4. pc[t] \in {"release", "drop"} => \A k \in Keys : ~Holds(t, k)
    BY DEF LocksFollowControl, LocksAt, HasLocked, Holds
  <2>5. ASSUME SaveRef(t) \/ StreamRef(t) \/ DeleteRef(t) \/ RenameRefOld(t)
                 \/ RenameRefNew(t) \/ SaveLock(t) \/ StreamLock(t) \/ DeleteLock(t)
        PROVE  LockNext
    BY <2>2, <2>5 DEF LockNext, SaveRef, StreamRef, DeleteRef, RenameRefOld,
       RenameRefNew, SaveLock, StreamLock, DeleteLock
  <2>6. ASSUME RenameFirst(t) \/ RenameSecond(t) \/ RenameBackOff(t)
        PROVE  LockNext
    BY <2>2, <2>6 DEF LockNext, RenameFirst, RenameSecond, RenameBackOff
  <2>7. ASSUME Unlock(t) \/ Unwind(t)
        PROVE  LockNext
    BY <2>3, <2>7 DEF LockNext, Unlock, Unwind
  <2>8. ASSUME Release(t) \/ Drop(t)
        PROVE  LockNext
    BY <2>3, <2>4, <2>8 DEF LockNext, Release, Drop
  <2> QED
    BY <1>2, <2>5, <2>6, <2>7, <2>8 DEF LockStep
<1> QED
  BY <1>1, <1>2, TwoKinds

(* Every step of an operation keeps the storage, the index and the frames  *)
(* in their types.                                                         *)
LEMMA OpType ==
    ASSUME TypeOK, LocksFollowControl, NEW t \in Threads, OpStep(t)
    PROVE  TypeOK'
<1> DEFINE Goal == /\ disk' \in [Files -> Seq(Chunks) \cup {None}]
                   /\ unsynced' \in SUBSET Files
                   /\ \/ \E k \in Keys, n \in Nat : Index(k, n)
                      \/ \E k \in Keys : Unindex(k)
                      \/ UNCHANGED index_
                   /\ pc' \in [Threads -> Labels] /\ pc'[t] # "idle"
                   /\ \A s \in Threads \ {t} : pc'[s] = pc[s] /\ frame'[s] = frame[s]
                   /\ DOMAIN frame' = Threads /\ FrameOK(frame'[t])
                   /\ calls' = calls
<1>ty. /\ disk \in [Files -> Seq(Chunks) \cup {None}]
       /\ unsynced \in SUBSET Files
       /\ pc \in [Threads -> Labels]
       /\ DOMAIN frame = Threads
  BY DEF TypeOK
<1>io. pc[t] # "idle" => FrameOK(frame[t]) /\ FrameAt(t)
  BY InOperation
<1>ks. pc[t] \notin {"idle", "done", "discard"} =>
         /\ frame[t].key \in Keys /\ frame[t].to \in Keys
         /\ FileOf[frame[t].key] \in Files /\ FileOf[frame[t].to] \in Files
         /\ Size(frame[t].key) \in Nat
  BY InOperation, SizeIsNat, StorageAssumption DEF TypeOK
<1> USE DEF Labels, FrameOK, Then, GoTo, diskVars
<1>1. ASSUME DiscardChunk(t) PROVE Goal
  BY <1>1, <1>ty, <1>io, <1>ks DEF DiscardChunk, Remaining
<1>2. ASSUME DiscardEnd(t) PROVE Goal
  BY <1>2, <1>ty, <1>io, <1>ks DEF DiscardEnd
<1>3. ASSUME SaveOpen(t) PROVE Goal
  <2>0. <<>> \in Seq(Chunks)
    OBVIOUS
  <2>1. PICK c \in Seq(Chunks) : c = <<>>
    BY <2>0, Zenon
  <2>2. pc[t] = "save_open"
    BY <1>3 DEF SaveOpen
  <2>3. \/ /\ SetFile(frame[t].key, c) /\ GoTo(t, "save_recv")
           /\ UNCHANGED <<unsynced, index_, frame, calls>>
        \/ Then(t, "save_discard")
    BY <1>3, <2>1 DEF SaveOpen
  <2>4. disk' \in [Files -> Seq(Chunks) \cup {None}]
    BY <2>3, <1>ty DEF SetFile
  <2> QED
    BY <2>2, <2>3, <2>4, <1>ty, <1>io, SMTT(30)
<1>4. ASSUME SaveChunk(t) PROVE Goal
  <2>1. PICK good \in BOOLEAN :
          /\ frame' = [frame EXCEPT ![t].pos = @ + 1, ![t].good = good]
          /\ IF good /\ File(frame[t].key) # None
               THEN SetFile(frame[t].key,
                            Append(File(frame[t].key), frame[t].data[frame[t].pos + 1]))
               ELSE UNCHANGED disk
    BY <1>4, <1>io DEF SaveChunk
  <2>2. pc[t] = "save_recv" /\ frame[t].pos < Len(frame[t].data)
    BY <1>4, <1>io DEF SaveChunk, Remaining
  <2>3. frame[t].data[frame[t].pos + 1] \in Chunks
    BY <1>io, <2>2
  <2>4. disk' \in [Files -> Seq(Chunks) \cup {None}]
    <3>1. CASE good /\ File(frame[t].key) # None
      <4>1. File(frame[t].key) \in Seq(Chunks)
        BY <3>1, <1>ty, <1>ks, <2>2 DEF File
      <4>2. Append(File(frame[t].key), frame[t].data[frame[t].pos + 1]) \in Seq(Chunks)
        BY <4>1, <2>3
      <4> QED
        BY <2>1, <3>1, <4>2, <1>ty DEF SetFile
    <3>2. CASE ~(good /\ File(frame[t].key) # None)
      BY <2>1, <3>2, <1>ty
    <3> QED
      BY <3>1, <3>2
  <2>5. /\ DOMAIN frame' = Threads /\ FrameOK(frame'[t])
        /\ \A s \in Threads \ {t} : frame'[s] = frame[s]
    BY <2>1, <2>2, <1>ty, <1>io
  <2> QED
    BY <1>4, <2>2, <2>4, <2>5, <1>ty DEF SaveChunk
<1>5. ASSUME SaveNetError(t) PROVE Goal
  BY <1>5, <1>ty, <1>io, <1>ks DEF SaveNetError, SetFile, SetSynced
<1>6. ASSUME SaveIndex(t) PROVE Goal
  <2>1. pc[t] = "save_recv" /\ Len(frame[t].data) \in Nat
    BY <1>6, <1>io DEF SaveIndex
  <2> QED
    BY <1>6, <2>1, <1>ty, <1>io, <1>ks DEF SaveIndex, SetSynced
<1>7. ASSUME SizeGet(t) PROVE Goal
  BY <1>7, <1>ty, <1>io, <1>ks DEF SizeGet
<1>8. ASSUME StreamOpen(t) PROVE Goal
  BY <1>8, <1>ty, <1>io, <1>ks, ZenonT(60) DEF StreamOpen
<1>9. ASSUME StreamChunk(t) PROVE Goal
  BY <1>9, <1>ty, <1>io, <1>ks, SMTT(30) DEF StreamChunk, AtEnd, File
<1>10. ASSUME StreamNetError(t) PROVE Goal
  BY <1>10, <1>ty, <1>io, <1>ks DEF StreamNetError
<1>11. ASSUME StreamEnd(t) PROVE Goal
  BY <1>11, <1>ty, <1>io, <1>ks DEF StreamEnd
<1>12. ASSUME DeleteRemove(t) PROVE Goal
  BY <1>12, <1>ty, <1>io, <1>ks, SMTT(30) DEF DeleteRemove, SetFile, SetSynced
<1>13. ASSUME DeleteIndex(t) PROVE Goal
  BY <1>13, <1>ty, <1>io, <1>ks DEF DeleteIndex
<1>14. ASSUME RenameCheck(t) PROVE Goal
  BY <1>14, <1>ty, <1>io, <1>ks DEF RenameCheck
<1>15. ASSUME RenameMove(t) PROVE Goal
  BY <1>15, <1>ty, <1>io, <1>ks, ZenonT(60) DEF RenameMove, File, SetSynced
<1>16. ASSUME RenameSize(t) PROVE Goal
  BY <1>16, <1>ty, <1>io, <1>ks DEF RenameSize
<1>17. ASSUME RenameRemove(t) PROVE Goal
  BY <1>17, <1>ty, <1>io, <1>ks DEF RenameRemove
<1>18. ASSUME RenameAdd(t) PROVE Goal
  BY <1>18, <1>ty, <1>io, <1>ks DEF RenameAdd, FrameAt
<1>19. ASSUME SaveRef(t) PROVE Goal
  BY <1>19, <1>ty, <1>io, <1>ks DEF SaveRef
<1>20. ASSUME StreamRef(t) PROVE Goal
  BY <1>20, <1>ty, <1>io, <1>ks DEF StreamRef
<1>21. ASSUME DeleteRef(t) PROVE Goal
  BY <1>21, <1>ty, <1>io, <1>ks DEF DeleteRef
<1>22. ASSUME RenameRefOld(t) PROVE Goal
  BY <1>22, <1>ty, <1>io, <1>ks DEF RenameRefOld
<1>23. ASSUME RenameRefNew(t) PROVE Goal
  BY <1>23, <1>ty, <1>io, <1>ks DEF RenameRefNew
<1>24. ASSUME SaveLock(t) PROVE Goal
  BY <1>24, <1>ty, <1>io, <1>ks DEF SaveLock
<1>25. ASSUME StreamLock(t) PROVE Goal
  BY <1>25, <1>ty, <1>io, <1>ks DEF StreamLock
<1>26. ASSUME DeleteLock(t) PROVE Goal
  BY <1>26, <1>ty, <1>io, <1>ks DEF DeleteLock
<1>27. ASSUME RenameFirst(t) PROVE Goal
  BY <1>27, <1>ty, <1>io, <1>ks DEF RenameFirst
<1>28. ASSUME RenameSecond(t) PROVE Goal
  BY <1>28, <1>ty, <1>io, <1>ks DEF RenameSecond
<1>29. ASSUME RenameBackOff(t) PROVE Goal
  BY <1>29, <1>ty, <1>io, <1>ks DEF RenameBackOff, Second
<1>30. ASSUME Unlock(t) PROVE Goal
  BY <1>30, <1>ty, <1>io, <1>ks DEF Unlock
<1>31. ASSUME Unwind(t) PROVE Goal
  BY <1>31, <1>ty, <1>io, <1>ks DEF Unwind
<1>32. ASSUME Release(t) PROVE Goal
  BY <1>32, <1>ty, <1>io, <1>ks DEF Release
<1>33. ASSUME Drop(t) PROVE Goal
  BY <1>33, <1>ty, <1>io, <1>ks, SMTT(30) DEF Drop
<1>34. Goal
  BY <1>1, <1>2, <1>3, <1>4, <1>5, <1>6, <1>7, <1>8, <1>9, <1>10, <1>11, <1>12, <1>13, <1>14, <1>15, <1>16, <1>17, <1>18, <1>19, <1>20, <1>21, <1>22, <1>23, <1>24, <1>25, <1>26, <1>27, <1>28, <1>29, <1>30, <1>31, <1>32, <1>33 DEF OpStep
<1>35. IndexTypeOK(Keys)'
  <2>1. CASE UNCHANGED index_
    BY <2>1 DEF TypeOK, IndexTypeOK
  <2>2. CASE \E k \in Keys : Unindex(k) \/ \E n \in Nat : Index(k, n)
    BY <2>2, IndexTypeStep DEF TypeOK
  <2> QED
    BY <1>34, <2>1, <2>2
<1>36. LockTypeOK'
  BY OpLocks, LockTypeStep DEF TypeOK
<1> QED
  BY <1>34, <1>35, <1>36, SMTT(30) DEF TypeOK

(* The beginning of an operation keeps the types. *)
LEMMA StartsType ==
    ASSUME TypeOK, NEW t \in Threads, Starts(t)
    PROVE  TypeOK'
<1>1. PICK fr, label : StartsWith(t, fr, label)
  BY DEF Starts
<1>2. /\ pc' = [pc EXCEPT ![t] = label] /\ frame' = [frame EXCEPT ![t] = fr]
      /\ calls' \in 0 .. MaxCalls
      /\ UNCHANGED <<lockVars, diskVars, index_>>
  BY <1>1 DEF StartsWith
<1>3. label \in Labels /\ label # "idle"
  BY <1>1 DEF StartsWith, Entry, Labels
<1>4. FrameOK(fr)
  BY <1>1 DEF StartsWith, Fresh
<1>5. LockTypeOK' /\ IndexTypeOK(Keys)'
  BY <1>2 DEF TypeOK, LockTypeOK, lockVars, IndexTypeOK
<1>6. disk' = disk /\ unsynced' = unsynced
  BY <1>2 DEF diskVars
<1> QED
  BY <1>2, <1>3, <1>4, <1>5, <1>6 DEF TypeOK

-----------------------------------------------------------------------------
(* The start of a process. *)

(* rebuild_from_disk lists every file it visits, with its size on disk, in *)
(* its user's directory.                                                   *)
LEMMA ScanEffect ==
    ASSUME NEW d, NEW S \in SUBSET Keys
    PROVE  LET ix == Scan(d, S).index
           IN  /\ DOMAIN ix = {normalize_path[Owner[k]] : k \in S}
               /\ \A e \in DOMAIN ix :
                    ix[e] = [k \in {j \in S : normalize_path[Owner[j]] = e} |->
                                Len(d[FileOf[k]])]
<1> DEFINE rec(k) == [user |-> Owner[k], name |-> k, size |-> Len(d[FileOf[k]])]
           visited == {rec(k) : k \in S}
           In(e) == {f \in visited : normalize_path[f.user] = e}
           ix == Scan(d, S).index
<1>1. ix = [e \in {normalize_path[f.user] : f \in visited} |->
              [n \in {f.name : f \in In(e)} |-> (CHOOSE f \in In(e) : f.name = n).size]]
  BY DEF Scan, RebuiltIndex
<1>2. \A k : rec(k).user = Owner[k] /\ rec(k).name = k /\ rec(k).size = Len(d[FileOf[k]])
  OBVIOUS
<1> HIDE DEF rec
<1>3. {normalize_path[f.user] : f \in visited} = {normalize_path[Owner[k]] : k \in S}
  BY <1>2
<1>4. ASSUME NEW e PROVE {f.name : f \in In(e)} = {j \in S : normalize_path[Owner[j]] = e}
  BY <1>2
<1>5. ASSUME NEW e, NEW n \in {j \in S : normalize_path[Owner[j]] = e}
      PROVE  (CHOOSE f \in In(e) : f.name = n).size = Len(d[FileOf[n]])
  <2>1. rec(n) \in In(e) /\ rec(n).name = n
    BY <1>2
  <2>2. \A f \in In(e) : f.name = n => f = rec(n)
    BY <1>2
  <2>3. (CHOOSE f \in In(e) : f.name = n) = rec(n)
    BY <2>1, <2>2
  <2> QED
    BY <1>2, <2>3
<1> HIDE DEF ix, In, visited
<1>6. ASSUME NEW e \in DOMAIN ix
      PROVE  ix[e] = [k \in {j \in S : normalize_path[Owner[j]] = e} |-> Len(d[FileOf[k]])]
  <2>1. ix[e] = [n \in {f.name : f \in In(e)} |-> (CHOOSE f \in In(e) : f.name = n).size]
    BY <1>1
  <2>2. ix[e] = [n \in {j \in S : normalize_path[Owner[j]] = e} |->
                   (CHOOSE f \in In(e) : f.name = n).size]
    BY <1>4, <2>1
  <2> DEFINE N == {j \in S : normalize_path[Owner[j]] = e}
             sz(n) == (CHOOSE f \in In(e) : f.name = n).size
  <2>3. ix[e] = [n \in N |-> sz(n)] /\ \A n \in N : sz(n) = Len(d[FileOf[n]])
    BY <1>5, <2>2
  <2> HIDE DEF sz
  <2> QED
    BY <2>3
<1>7. DOMAIN ix = {normalize_path[Owner[k]] : k \in S}
  BY <1>1, <1>3
<1> QED
  BY <1>6, <1>7 DEF ix

(* The files a scan visits are on the disk. *)
LEMMA ScanVisits ==
    ASSUME NEW d \in [Files -> Seq(Chunks) \cup {None}], NEW S \in Visits(d)
    PROVE  /\ S \in SUBSET Keys
           /\ \A k \in S : d[FileOf[k]] \in Seq(Chunks)
<1>1. S \in SUBSET {k \in Keys : d[FileOf[k]] # None}
  BY StorageAssumption DEF Visits
<1> QED
  BY <1>1, StorageAssumption

(* The index that rebuild_from_disk builds is well formed. *)
LEMMA ScanType ==
    ASSUME NEW d \in [Files -> Seq(Chunks) \cup {None}], NEW S \in Visits(d)
    PROVE  /\ DOMAIN Scan(d, S).index \subseteq {normalize_path[u] : u \in Users}
           /\ \A e \in DOMAIN Scan(d, S).index :
                \E N \in (SUBSET Keys) \ {{}} : Scan(d, S).index[e] \in [N -> Nat]
           /\ Scan(d, S).missed \in SUBSET Files
<1> DEFINE ix == Scan(d, S).index
<1>1. S \in SUBSET Keys /\ \A k \in S : Len(d[FileOf[k]]) \in Nat
  BY ScanVisits
<1>2. /\ DOMAIN ix = {normalize_path[Owner[k]] : k \in S}
      /\ \A e \in DOMAIN ix :
           ix[e] = [k \in {j \in S : normalize_path[Owner[j]] = e} |-> Len(d[FileOf[k]])]
  BY <1>1, ScanEffect
<1>3. Scan(d, S).missed \in SUBSET Files
  BY StorageAssumption DEF Scan
<1> HIDE DEF ix
<1>4. ASSUME NEW e \in DOMAIN ix
      PROVE  \E N \in (SUBSET Keys) \ {{}} : ix[e] \in [N -> Nat]
  <2> DEFINE N == {j \in S : normalize_path[Owner[j]] = e}
  <2>1. N \in (SUBSET Keys) \ {{}}
    BY <1>1, <1>2
  <2>2. ix[e] \in [N -> Nat]
    BY <1>1, <1>2
  <2> QED
    BY <2>1, <2>2
<1>5. DOMAIN ix \subseteq {normalize_path[u] : u \in Users}
  BY <1>1, <1>2, StorageAssumption
<1> QED
  BY <1>3, <1>4, <1>5 DEF ix

\* A process that has just started: no locks, no operations, and the index
\* of a scan of the disk.
Started(lk, d, ix, un, p, fr) ==
    /\ d \in [Files -> Seq(Chunks) \cup {None}]
    /\ \E S \in Visits(d) : ix = Scan(d, S).index /\ un = Scan(d, S).missed
    /\ p = [t \in Threads |-> "idle"]
    /\ fr = [t \in Threads |-> None]
    /\ lk = [t \in Threads |-> [k \in Keys |-> NoEntry]]

(* The initial state and every restart start a process. *)
LEMMA InitStarts ==
    Init => Started(lock_entry, disk, index_, unsynced, pc, frame)
BY StorageAssumption DEF Init, Started, LockInit

(* A restart puts the process into a state it can start in. *)
LEMMA RestartStarts ==
    TypeOK /\ Restart => Started(lock_entry, disk, index_, unsynced, pc, frame)'
BY DEF TypeOK, Restart, Started, LockRestart

(* A process that has just started holds no lock. *)
LEMMA StartControl ==
    Started(lock_entry, disk, index_, unsynced, pc, frame) => LocksFollowControl
BY DEF Started, LocksFollowControl, FrameAt, LocksAt, Refers, ReadLabels, WriteLabels

(* Its index, labels and frames have their types. *)
LEMMA StartType ==
    Started(lock_entry, disk, index_, unsynced, pc, frame) =>
        /\ disk \in [Files -> Seq(Chunks) \cup {None}]
        /\ unsynced \in SUBSET Files
        /\ IndexTypeOK(Keys)
        /\ pc \in [Threads -> Labels]
        /\ DOMAIN frame = Threads
        /\ \A t \in Threads : pc[t] = "idle" /\ frame[t] = None
<1> SUFFICES ASSUME Started(lock_entry, disk, index_, unsynced, pc, frame)
             PROVE  /\ disk \in [Files -> Seq(Chunks) \cup {None}]
                    /\ unsynced \in SUBSET Files
                    /\ IndexTypeOK(Keys)
                    /\ pc \in [Threads -> Labels]
                    /\ DOMAIN frame = Threads
                    /\ \A t \in Threads : pc[t] = "idle" /\ frame[t] = None
  OBVIOUS
<1>1. IndexTypeOK(Keys) /\ unsynced \in SUBSET Files
  BY ScanType DEF Started, IndexTypeOK
<1> QED
  BY <1>1 DEF Started, Labels

-----------------------------------------------------------------------------
(* The specification. *)

StorageInv == TypeOK /\ LockInv /\ LocksFollowControl

(* The storage starts in the invariant. *)
LEMMA StorageInit == Init => StorageInv
<1> SUFFICES ASSUME Init PROVE StorageInv
  OBVIOUS
<1>1. Started(lock_entry, disk, index_, unsynced, pc, frame)
  BY InitStarts
<1>2. LockInit
  BY DEF Init
<1>3. LockInv
  BY <1>2, LockInvInit
<1>4. calls \in 0 .. MaxCalls
  BY StorageAssumption DEF Init
<1> QED
  BY <1>1, <1>3, <1>4, StartType, StartControl DEF StorageInv, TypeOK, LockInv

(* A step of an operation, a call and the return of an operation keep the  *)
(* invariant, and are steps of the locks as LockSpec describes them.       *)
LEMMA StorageOp ==
    ASSUME StorageInv, NEW t \in Threads, OpStep(t)
    PROVE  StorageInv' /\ [LockNext]_lockVars
<1>1. [LockNext]_lockVars
  BY OpLocks DEF StorageInv
<1>2. LockInv'
  BY <1>1, LockInvStep DEF StorageInv
<1> QED
  BY <1>1, <1>2, OpType, OpControl DEF StorageInv

(* The beginning of an operation keeps the invariant and the lock table. *)
LEMMA StorageStarts ==
    ASSUME StorageInv, NEW t \in Threads, Starts(t)
    PROVE  StorageInv' /\ [LockNext]_lockVars
<1>1. UNCHANGED lockVars
  BY DEF Starts, StartsWith
<1>2. LockInv'
  BY <1>1, LockInvStep DEF StorageInv
<1> QED
  BY <1>1, <1>2, StartsType, StartsControl DEF StorageInv

(* So does the return of an operation. *)
LEMMA StorageFinish ==
    ASSUME StorageInv, NEW t \in Threads, Finish(t)
    PROVE  StorageInv' /\ [LockNext]_lockVars
<1>1. /\ pc[t] = "done" /\ pc' = [pc EXCEPT ![t] = "idle"]
      /\ frame' = [frame EXCEPT ![t] = None]
      /\ UNCHANGED <<lockVars, diskVars, index_, calls>>
  BY DEF Finish, GoTo
<1>2. LockInv'
  BY <1>1, LockInvStep DEF StorageInv
<1>3. /\ pc \in [Threads -> Labels] /\ DOMAIN frame = Threads
      /\ pc'[t] = "idle" /\ frame'[t] = None
      /\ \A s \in Threads \ {t} : pc'[s] = pc[s] /\ frame'[s] = frame[s]
  BY <1>1 DEF StorageInv, TypeOK
<1>4. TypeOK'
  <2>1. LockTypeOK' /\ IndexTypeOK(Keys)' /\ disk' = disk /\ unsynced' = unsynced
    BY <1>1, <1>2 DEF StorageInv, TypeOK, LockInv, IndexTypeOK, diskVars
  <2>2. pc' \in [Threads -> Labels] /\ DOMAIN frame' = Threads
    BY <1>1, <1>3 DEF Labels
  <2> QED
    BY <1>1, <1>3, <2>1, <2>2 DEF StorageInv, TypeOK
<1>5. LocksFollowControl'
  <2>1. OthersStay(t)
    BY <1>1, <1>3, SameLocks DEF OthersStay
  <2>2. Refers(t, {})'
    <3>1. Refers(t, {})
      BY <1>1 DEF StorageInv, LocksFollowControl, LocksAt
    <3> QED
      BY <1>1, <3>1, SameLocks DEF Refers
  <2>3. FrameAt(t)' /\ LocksAt(t)'
    BY <1>3, <2>2 DEF FrameAt, LocksAt, ReadLabels, WriteLabels
  <2> QED
    BY <2>1, <2>3, OthersKeep DEF StorageInv
<1> QED
  BY <1>1, <1>2, <1>4, <1>5 DEF StorageInv

(* So does a restart. *)
LEMMA StorageRestart ==
    ASSUME StorageInv, Restart
    PROVE  StorageInv' /\ LockNext
<1>1. LockNext
  BY DEF Restart, LockNext
<1>2. LockInv'
  BY <1>1, LockInvStep DEF StorageInv
<1>3. Started(lock_entry, disk, index_, unsynced, pc, frame)'
  BY RestartStarts DEF StorageInv
<1>4. LocksFollowControl'
  BY <1>3, StartControl, PTL
<1>5. (/\ disk \in [Files -> Seq(Chunks) \cup {None}]
       /\ unsynced \in SUBSET Files
       /\ IndexTypeOK(Keys)
       /\ pc \in [Threads -> Labels]
       /\ DOMAIN frame = Threads
       /\ \A t \in Threads : pc[t] = "idle" /\ frame[t] = None)'
  BY <1>3, StartType, PTL
<1>6. calls' \in 0 .. MaxCalls
  BY DEF Restart, StorageInv, TypeOK
<1> QED
  BY <1>1, <1>2, <1>4, <1>5, <1>6 DEF StorageInv, TypeOK, LockInv

(* Every step of the storage keeps the invariant, and is a step of the     *)
(* lock table or leaves that alone.                                        *)
LEMMA StorageStep ==
    ASSUME StorageInv, [Next]_vars
    PROVE  StorageInv' /\ [LockNext]_lockVars
<1>1. CASE UNCHANGED vars
  <2>1. /\ UNCHANGED lockVars /\ UNCHANGED <<disk, unsynced, index_, pc, frame, calls>>
    BY <1>1 DEF vars, storeVars, diskVars
  <2>2. LockInv'
    BY <2>1, LockInvStep DEF StorageInv
  <2>3. TypeOK'
    BY <2>1, <2>2 DEF StorageInv, TypeOK, LockInv, IndexTypeOK
  <2>4. ASSUME NEW t \in Threads PROVE FrameAt(t)' /\ LocksAt(t)'
    <3>1. FrameAt(t) /\ LocksAt(t)
      BY DEF StorageInv, LocksFollowControl
    <3>2. OpKeys(t)' = OpKeys(t)
      BY <2>1 DEF OpKeys
    <3> QED
      BY <2>1, <3>1, <3>2, SameLocks DEF FrameAt, LocksAt, Refers, HasLocked, Holds
  <2> QED
    BY <2>1, <2>2, <2>3, <2>4 DEF StorageInv, LocksFollowControl
<1>2. CASE Restart
  BY <1>2, StorageRestart
<1>3. ASSUME NEW t \in Threads, NewCall(t) \/ OpStep(t) \/ Finish(t)
      PROVE  StorageInv' /\ [LockNext]_lockVars
  BY <1>3, StorageStarts, StorageOp, StorageFinish, NewCallStarts DEF StorageInv
<1> QED
  BY <1>1, <1>2, <1>3 DEF Next, Quiescent

(* The inductive invariant of the storage operations. *)
THEOREM StorageInvariant == Spec => []StorageInv
<1>1. StorageInv /\ [Next]_vars => StorageInv'
  BY StorageStep
<1> QED
  BY StorageInit, <1>1, PTL DEF Spec

(* Every thread's frame, the index and the disk keep their types. *)
THEOREM StorageTypeCorrect == Spec => []TypeOK
<1>1. StorageInv => TypeOK
  BY DEF StorageInv
<1> QED
  BY <1>1, StorageInvariant, PTL

(* The lock discipline of the operations: at every point of every path,    *)
(* failures and exceptions included, a thread has exactly the references   *)
(* and mutexes the code says it has, and none at the end.                  *)
THEOREM LockDiscipline == Spec => []LocksFollowControl
<1>1. StorageInv => LocksFollowControl
  BY DEF StorageInv
<1> QED
  BY <1>1, StorageInvariant, PTL

(* The storage operations use the locks as LockSpec says callers do, so    *)
(* what is proved of LockSpec holds of the server.                         *)
THEOREM StorageUsesLocks == Spec => LockSpec
<1>1. Init => LockInit
  BY DEF Init
<1>2. StorageInv /\ [Next]_vars => [LockNext]_lockVars
  BY StorageStep
<1> QED
  BY <1>1, <1>2, StorageInvariant, PTL DEF Spec, LockSpec

(* A file's writer excludes all others in the running server. *)
THEOREM StorageExclusion == Spec => []MutualExclusion
BY StorageUsesLocks, LockExclusion, PTL

-----------------------------------------------------------------------------
(* Exclusive access to the files. *)

\* No key has leaked so many references that its count can wrap around.
NoWrap == \A k \in Keys : CountFits(k)

\* No two path keys name one file.
OneKeyPerFile == \A j, k \in Keys : FileOf[j] = FileOf[k] => j = k

(* Whoever touches a file holds its key: exclusively to write it. *)
LEMMA AccessNeedsLock ==
    ASSUME StorageInv, NEW t \in Threads
    PROVE  /\ \A f \in Writing(t) : \E k \in Keys : f = FileOf[k] /\ HoldsExclusive(t, k)
           /\ \A f \in Reading(t) : \E k \in Keys : f = FileOf[k] /\ HoldsShared(t, k)
<1>1. FrameAt(t) /\ LocksAt(t)
  BY DEF StorageInv, LocksFollowControl
<1>2. pc[t] \in ReadLabels \cup WriteLabels => OpKeys(t) \subseteq Keys
  BY InOperation DEF StorageInv, ReadLabels, WriteLabels
<1>3. pc[t] \in WriteLabels => HasLocked(t, OpKeys(t), {})
  BY <1>1 DEF LocksAt
<1>4. pc[t] \in ReadLabels => HasLocked(t, {}, OpKeys(t))
  BY <1>1 DEF LocksAt
<1>5. \A f \in Writing(t) : \E k \in Keys : f = FileOf[k] /\ HoldsExclusive(t, k)
  BY <1>2, <1>3 DEF Writing, HasLocked, WriteLabels
<1>6. \A f \in Reading(t) : \E k \in Keys : f = FileOf[k] /\ HoldsShared(t, k)
  BY <1>2, <1>4 DEF Reading, HasLocked, ReadLabels, OpKeys
<1> QED
  BY <1>5, <1>6

(* Nobody reads or writes a file that another thread is writing, as long   *)
(* as no reference count has wrapped and no two keys name one file.        *)
THEOREM NoConcurrentWrite ==
    ASSUME OneKeyPerFile
    PROVE  Spec => [](NoWrap => ExclusiveAccess)
<1>1. StorageInv /\ NoWrap => ExclusiveAccess
  <2> SUFFICES ASSUME StorageInv, NoWrap, NEW s \in Threads, NEW t \in Threads, s # t,
                      NEW f \in Writing(s) \cap (Reading(t) \cup Writing(t))
               PROVE  FALSE
    BY DEF ExclusiveAccess
  <2>1. PICK k \in Keys : f = FileOf[k] /\ HoldsExclusive(s, k)
    BY AccessNeedsLock
  <2>2. PICK j \in Keys : f = FileOf[j] /\ Holds(t, j)
    BY AccessNeedsLock DEF Holds
  <2>3. j = k
    BY <2>1, <2>2 DEF OneKeyPerFile
  <2> QED
    BY <2>1, <2>2, <2>3, InvImpliesExclusion DEF StorageInv, MutualExclusion, NoWrap
<1> QED
  BY <1>1, StorageInvariant, PTL

-----------------------------------------------------------------------------
(* Every step of an operation keeps what the client asked for. *)
LEMMA KeepsRequest ==
    ASSUME StorageInv, NEW t \in Threads, OpStep(t)
    PROVE  /\ pc[t] # "idle" /\ pc'[t] # "idle" /\ FrameOK(frame[t]) /\ FrameOK(frame'[t])
           /\ FrameAt(t)
           /\ frame'[t].op = frame[t].op /\ frame'[t].key = frame[t].key
           /\ frame'[t].to = frame[t].to /\ frame'[t].data = frame[t].data
<1>1. pc \in [Threads -> Labels] /\ DOMAIN frame = Threads
  BY DEF StorageInv, TypeOK
<1>2. pc[t] # "idle" /\ pc'[t] # "idle"
  BY <1>1 DEF OpStep, GoTo, Then, DiscardChunk, DiscardEnd, SaveRef, SaveLock, SaveOpen,
     SaveChunk, SaveNetError, SaveIndex, SizeGet, StreamRef, StreamLock, StreamOpen,
     StreamChunk, StreamNetError, StreamEnd, DeleteRef, DeleteLock, DeleteRemove,
     DeleteIndex, RenameRefOld, RenameRefNew, RenameFirst, RenameSecond,
     RenameBackOff, RenameCheck, RenameMove, RenameSize, RenameRemove, RenameAdd,
     Unlock, Release, Unwind, Drop
<1>3. FrameOK(frame[t]) /\ FrameAt(t)
  BY <1>2, InOperation DEF StorageInv
<1>4. FrameOK(frame'[t])
  BY <1>2, StorageOp DEF StorageInv, TypeOK
<1> DEFINE Same == /\ frame'[t].op = frame[t].op /\ frame'[t].key = frame[t].key
                   /\ frame'[t].to = frame[t].to /\ frame'[t].data = frame[t].data
<1> USE <1>1, <1>3 DEF FrameOK
<1>5. ASSUME frame' = frame PROVE Same
  BY <1>5
<1>6. ASSUME DiscardChunk(t) PROVE Same
  BY <1>6 DEF DiscardChunk
<1>7. ASSUME SaveChunk(t) PROVE Same
  <2>1. PICK good : frame' = [frame EXCEPT ![t].pos = @ + 1, ![t].good = good]
    BY <1>7 DEF SaveChunk
  <2> QED
    BY <2>1
<1>8. ASSUME SaveIndex(t) \/ StreamEnd(t) \/ DeleteIndex(t) \/ RenameAdd(t)
      PROVE  Same
  BY <1>8 DEF SaveIndex, StreamEnd, DeleteIndex, RenameAdd
<1>9. ASSUME SizeGet(t) \/ RenameSize(t) \/ StreamChunk(t) \/ RenameBackOff(t)
      PROVE  Same
  BY <1>9 DEF SizeGet, RenameSize, StreamChunk, RenameBackOff
<1>10. \/ frame' = frame \/ DiscardChunk(t) \/ SaveChunk(t)
       \/ SaveIndex(t) \/ StreamEnd(t) \/ DeleteIndex(t) \/ RenameAdd(t)
       \/ SizeGet(t) \/ RenameSize(t) \/ StreamChunk(t) \/ RenameBackOff(t)
  BY DEF OpStep, Then, DiscardEnd, SaveRef, SaveLock, SaveOpen, SaveNetError,
     StreamRef, StreamLock, StreamOpen, StreamNetError, DeleteRef, DeleteLock,
     DeleteRemove, RenameRefOld, RenameRefNew, RenameFirst, RenameSecond, RenameCheck,
     RenameMove, RenameRemove, Unlock, Release, Unwind, Drop
<1> QED
  BY <1>2, <1>4, <1>5, <1>6, <1>7, <1>8, <1>9, <1>10

(* A step of an operation takes at most one chunk from the socket, and     *)
(* only an upload does; it sends at most one chunk, and only a download    *)
(* does.                                                                   *)
LEMMA OpMoves ==
    ASSUME StorageInv, NEW t \in Threads, OpStep(t)
    PROVE  /\ \/ frame'[t].pos = frame[t].pos
              \/ /\ frame'[t].pos = frame[t].pos + 1
                 /\ frame[t].op \in {"save", "discard"}
           /\ \/ frame'[t].sent = frame[t].sent
              \/ /\ Len(frame'[t].sent) = Len(frame[t].sent) + 1
                 /\ frame[t].op = "stream"
<1>1. DOMAIN frame = Threads
  BY DEF StorageInv, TypeOK
<1>2. FrameOK(frame[t]) /\ FrameAt(t)
  BY KeepsRequest
<1> DEFINE NoChunk == frame'[t].pos = frame[t].pos /\ frame'[t].sent = frame[t].sent
           Taken == /\ frame'[t].pos = frame[t].pos + 1
                    /\ frame[t].op \in {"save", "discard"}
                    /\ frame'[t].sent = frame[t].sent
<1> USE <1>1, <1>2 DEF FrameOK
<1>3. ASSUME frame' = frame PROVE NoChunk
  BY <1>3
<1>4. ASSUME DiscardChunk(t) PROVE Taken
  BY <1>4 DEF DiscardChunk, FrameAt
<1>5. ASSUME SaveChunk(t) PROVE Taken
  <2>1. PICK good : frame' = [frame EXCEPT ![t].pos = @ + 1, ![t].good = good]
    BY <1>5 DEF SaveChunk
  <2>2. frame[t].op = "save"
    BY <1>5 DEF SaveChunk, FrameAt
  <2> QED
    BY <2>1, <2>2
<1>6. ASSUME SaveIndex(t) \/ StreamEnd(t) \/ DeleteIndex(t) \/ RenameAdd(t)
      PROVE  NoChunk
  BY <1>6 DEF SaveIndex, StreamEnd, DeleteIndex, RenameAdd
<1>7. ASSUME SizeGet(t) \/ RenameSize(t) \/ RenameBackOff(t)
      PROVE  NoChunk
  BY <1>7 DEF SizeGet, RenameSize, RenameBackOff
<1>8. ASSUME StreamChunk(t)
      PROVE  /\ frame'[t].pos = frame[t].pos
             /\ Len(frame'[t].sent) = Len(frame[t].sent) + 1 /\ frame[t].op = "stream"
  <2>1. frame[t].op = "stream"
    BY <1>8 DEF StreamChunk, FrameAt
  <2>2. PICK x : frame' = [frame EXCEPT ![t].sent = Append(@, x)]
    BY <1>8 DEF StreamChunk
  <2>3. frame'[t].pos = frame[t].pos /\ frame'[t].sent = Append(frame[t].sent, x)
    BY <2>2
  <2> QED
    BY <2>1, <2>3
<1>9. \/ frame' = frame \/ DiscardChunk(t) \/ SaveChunk(t)
      \/ SaveIndex(t) \/ StreamEnd(t) \/ DeleteIndex(t) \/ RenameAdd(t)
      \/ SizeGet(t) \/ RenameSize(t) \/ StreamChunk(t) \/ RenameBackOff(t)
  BY DEF OpStep, Then, DiscardEnd, SaveRef, SaveLock, SaveOpen, SaveNetError,
     StreamRef, StreamLock, StreamOpen, StreamNetError, DeleteRef, DeleteLock,
     DeleteRemove, RenameRefOld, RenameRefNew, RenameFirst, RenameSecond, RenameCheck,
     RenameMove, RenameRemove, Unlock, Release, Unwind, Drop
<1> QED
  BY <1>3, <1>4, <1>5, <1>6, <1>7, <1>8, <1>9
=============================================================================
