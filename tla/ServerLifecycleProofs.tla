----------------------- MODULE ServerLifecycleProofs -----------------------
(***************************************************************************)
(* Proofs about the task queue and about the start and the shutdown of the *)
(* server, for any number of threads, workers and connections and any      *)
(* capacity of the queue: the queue is bounded and loses no wakeup, the    *)
(* server uses it the way TaskQueue allows, every accepted connection has  *)
(* exactly one owner, and a process that exits has drained the queue.      *)
(***************************************************************************)
EXTENDS ServerLifecycle, FiniteSetTheorems, TLAPS

-----------------------------------------------------------------------------
(***************************************************************************)
(* The task queue.  The invariant counts the threads that are awake, so    *)
(* the lemmas say how a step changes the sets At(l).                       *)
(***************************************************************************)

Labels == {"idle", "push", "pop", "not_full", "not_empty", "pushed", "popped",
           "shut_empty", "shut_full", "true", "false"}

\* The threads at a label are finitely many.
LEMMA WhereFinite ==
    ASSUME NEW f, NEW l
    PROVE  IsFiniteSet(Where(f, l)) /\ Cardinality(Where(f, l)) \in Nat
<1>1. Where(f, l) \subseteq Threads
  BY DEF Where
<1> QED
  BY <1>1, QueueAssumption, FS_Subset, FS_CardinalityType DEF QueueAssumption

\* A thread that moves leaves one set ...
LEMMA Leaves ==
    ASSUME NEW f \in [Threads -> Labels], NEW p \in Threads, NEW b \in Labels,
           b # f[p]
    PROVE  LET l == f[p]  g == [f EXCEPT ![p] = b]
           IN  /\ Where(g, l) = Where(f, l) \ {p}
               /\ Cardinality(Where(g, l)) = Cardinality(Where(f, l)) - 1
<1> DEFINE l == f[p]
           g == [f EXCEPT ![p] = b]
<1>1. p \in Where(f, l) /\ Where(g, l) = Where(f, l) \ {p}
  BY DEF Where
<1> QED BY <1>1, WhereFinite, FS_RemoveElement

\* ... and enters another.
LEMMA Enters ==
    ASSUME NEW f \in [Threads -> Labels], NEW p \in Threads, NEW b \in Labels,
           b # f[p]
    PROVE  LET g == [f EXCEPT ![p] = b]
           IN  /\ Where(g, b) = Where(f, b) \cup {p}
               /\ Cardinality(Where(g, b)) = Cardinality(Where(f, b)) + 1
<1> DEFINE g == [f EXCEPT ![p] = b]
<1>1. p \notin Where(f, b) /\ Where(g, b) = Where(f, b) \cup {p}
  BY DEF Where
<1> QED BY <1>1, WhereFinite, FS_AddElement

\* Every step keeps the types.
LEMMA QueueTypeStep ==
    ASSUME QueueTypeOK, [QueueNext]_queueVars
    PROVE  QueueTypeOK'
<1> USE DEF QueueTypeOK, Go
<1>1. CASE UNCHANGED queueVars
  BY <1>1 DEF queueVars
<1>2. ASSUME NEW p \in Threads, Called(p)
      PROVE  QueueTypeOK'
  BY <1>2 DEF Called, push, pop, shutdown
<1>3. ASSUME NEW p \in Threads, PushWait(p) \/ PushRefused(p) \/ PushAccepted(p)
      PROVE  QueueTypeOK'
  BY <1>3, SMTT(30) DEF PushWait, PushRefused, PushAccepted
<1>4. ASSUME NEW p \in Threads, PushNotify(p) \/ PopNotify(p)
      PROVE  QueueTypeOK'
  BY <1>4 DEF PushNotify, PopNotify, notify_one, At, Where
<1>5. ASSUME NEW p \in Threads, PopWait(p) \/ PopRefused(p) \/ PopTaken(p)
      PROVE  QueueTypeOK'
  BY <1>5, SMTT(30) DEF PopWait, PopRefused, PopTaken
<1>6. ASSUME NEW p \in Threads, ShutdownNotEmpty(p) \/ ShutdownNotFull(p)
      PROVE  QueueTypeOK'
  BY <1>6 DEF ShutdownNotEmpty, ShutdownNotFull, notify_all
<1>7. ASSUME NEW p \in Threads, Spurious(p) \/ Return(p)
      PROVE  QueueTypeOK'
  BY <1>7 DEF Spurious, Return
<1> QED
  BY <1>1, <1>2, <1>3, <1>4, <1>5, <1>6, <1>7 DEF QueueNext, QueueStep

\* A task is added only below the capacity.
LEMMA QueueBoundedStep ==
    ASSUME QueueTypeOK, QueueBounded, [QueueNext]_queueVars
    PROVE  QueueBounded'
<1> USE QueueAssumption DEF QueueTypeOK, QueueBounded
<1>1. ASSUME NEW p \in Threads, PushAccepted(p)
      PROVE  QueueBounded'
  <2>1. Len(queue_') = Len(queue_) + 1
    BY <1>1 DEF PushAccepted
  <2> QED BY <1>1, <2>1 DEF PushAccepted, HasRoom
<1>2. ASSUME NEW p \in Threads, PopTaken(p)
      PROVE  QueueBounded'
  <2>1. Len(queue_') = Len(queue_) - 1 /\ Len(queue_) \in Nat
    BY <1>2 DEF PopTaken
  <2> QED BY <2>1
<1>3. CASE UNCHANGED queue_
  BY <1>3
<1> QED
  BY <1>1, <1>2, <1>3
  DEF QueueNext, queueVars, Called, push, pop, shutdown, QueueStep, PushWait,
      PushRefused, PushNotify, PopWait, PopRefused, PopNotify,
      ShutdownNotEmpty, ShutdownNotFull, Spurious, Return

-----------------------------------------------------------------------------
\* Every queued task keeps a consumer awake or about to be woken.
LEMMA EmptySleepersStep ==
    ASSUME QueueTypeOK, EmptySleepers, [QueueNext]_queueVars
    PROVE  EmptySleepers'
<1> USE QueueAssumption DEF At
<1> DEFINE Counted == {"not_empty", "pop", "pushed", "shut_empty"}
<1>a. at \in [Threads -> Labels] /\ queue_ \in Seq(Tasks) /\ Len(queue_) \in Nat
  BY DEF QueueTypeOK, Labels
<1>b. /\ Cardinality(Where(at, "pop")) \in Nat
      /\ Cardinality(Where(at', "pop")) \in Nat
      /\ Cardinality(Where(at, "pushed")) \in Nat
      /\ Cardinality(Where(at', "pushed")) \in Nat
  BY WhereFinite
<1>c. ASSUME NEW p \in Threads, NEW b \in Labels, at' = [at EXCEPT ![p] = b],
             at[p] \notin Counted, b \notin Counted,
             UNCHANGED <<queue_, shutdown_>>
      PROVE  EmptySleepers'
  <2>1. \A l \in Counted : Where(at', l) = Where(at, l)
    BY <1>a, <1>c DEF Where
  <2> QED BY <1>c, <2>1 DEF EmptySleepers
<1>1. CASE UNCHANGED queueVars
  BY <1>1 DEF queueVars, EmptySleepers
<1>2. ASSUME NEW p \in Threads, NEW x \in Tasks, push(p, x)
      PROVE  EmptySleepers'
  BY <1>2, <1>c DEF push, Go, Labels
<1>3. ASSUME NEW p \in Threads, Return(p) \/ PushWait(p) \/ PushRefused(p)
      PROVE  EmptySleepers'
  BY <1>3, <1>c DEF Return, PushWait, PushRefused, Go, Labels
<1>4. ASSUME NEW p \in Threads, PushAccepted(p)
      PROVE  EmptySleepers'
  <2>1. at' = [at EXCEPT ![p] = "pushed"] /\ at[p] = "push"
    BY <1>4 DEF PushAccepted, Go
  <2>2. Cardinality(Where(at', "pushed")) = Cardinality(Where(at, "pushed")) + 1
    BY <1>a, <2>1, Enters DEF Labels
  <2>3. /\ Where(at', "pop") = Where(at, "pop")
        /\ Where(at', "not_empty") = Where(at, "not_empty")
        /\ Where(at', "shut_empty") = Where(at, "shut_empty")
    BY <1>a, <2>1 DEF Where
  <2>4. Len(queue_') = Len(queue_) + 1 /\ shutdown_' = shutdown_
    BY <1>4 DEF PushAccepted, QueueTypeOK
  <2> QED BY <1>a, <1>b, <2>2, <2>3, <2>4 DEF EmptySleepers
<1>5. ASSUME NEW p \in Threads, PushNotify(p)
      PROVE  EmptySleepers'
  <2>1. UNCHANGED <<queue_, shutdown_>> /\ at[p] = "pushed"
    BY <1>5 DEF PushNotify
  <2>2. CASE At("not_empty") = {} /\ Go(p, "true")
    <3>1. Where(at', "not_empty") = Where(at, "not_empty")
      BY <1>a, <2>1, <2>2 DEF Go, Where
    <3> QED BY <2>2, <3>1 DEF EmptySleepers
  <2>3. ASSUME NEW q \in At("not_empty"),
               at' = [at EXCEPT ![p] = "true", ![q] = "pop"]
        PROVE  EmptySleepers'
    <3>1. at[q] = "not_empty" /\ q \in Threads /\ At("not_empty") # {}
      BY DEF Where
    <3> DEFINE g == [at EXCEPT ![p] = "true", ![q] = "pop"]
    <3>2. /\ Cardinality(Where(g, "pushed")) = Cardinality(Where(at, "pushed")) - 1
          /\ Cardinality(Where(g, "pop")) = Cardinality(Where(at, "pop")) + 1
      <4>1. p \in Where(at, "pushed") /\ Where(g, "pushed") = Where(at, "pushed") \ {p}
        BY <1>a, <2>1, <3>1 DEF Where
      <4>2. q \notin Where(at, "pop") /\ Where(g, "pop") = Where(at, "pop") \cup {q}
        BY <1>a, <2>1, <3>1 DEF Where
      <4> HIDE DEF g
      <4> QED BY <4>1, <4>2, WhereFinite, FS_RemoveElement, FS_AddElement
    <3>3. Where(at', "shut_empty") = Where(at, "shut_empty")
      BY <1>a, <2>1, <2>3, <3>1 DEF Where
    <3>4. at' = g
      BY <2>3
    <3> HIDE DEF g
    <3> QED BY <1>a, <1>b, <2>1, <3>1, <3>2, <3>3, <3>4 DEF EmptySleepers
  <2> QED BY <1>5, <2>2, <2>3 DEF PushNotify, notify_one
<1>6. ASSUME NEW p \in Threads, pop(p)
      PROVE  EmptySleepers'
  <2>1. at' = [at EXCEPT ![p] = "pop"] /\ at[p] = "idle"
    BY <1>6 DEF pop, Go
  <2>2. Cardinality(Where(at', "pop")) = Cardinality(Where(at, "pop")) + 1
    BY <1>a, <2>1, Enters DEF Labels
  <2>3. /\ Where(at', "pushed") = Where(at, "pushed")
        /\ Where(at', "not_empty") = Where(at, "not_empty")
        /\ Where(at', "shut_empty") = Where(at, "shut_empty")
    BY <1>a, <2>1 DEF Where
  <2> QED BY <1>a, <1>b, <1>6, <2>2, <2>3 DEF EmptySleepers, pop
<1>7. ASSUME NEW p \in Threads, PopWait(p)
      PROVE  EmptySleepers'
  <2>1. Len(queue_') = 0 /\ ~shutdown_'
    BY <1>7 DEF PopWait
  <2> QED BY <1>b, <2>1 DEF EmptySleepers
<1>8. ASSUME NEW p \in Threads, PopRefused(p)
      PROVE  EmptySleepers'
  <2>0. Len(queue_') = 0 /\ shutdown_' = shutdown_
    BY <1>8 DEF PopRefused
  <2>1. at' = [at EXCEPT ![p] = "false"] /\ at[p] = "pop"
    BY <1>8 DEF PopRefused, Go
  <2>2. /\ Where(at', "not_empty") = Where(at, "not_empty")
        /\ Where(at', "shut_empty") = Where(at, "shut_empty")
    BY <1>a, <2>1 DEF Where
  <2>3. Where(at', "not_empty") # {} /\ shutdown_' => Where(at', "shut_empty") # {}
    BY <2>0, <2>2, Zenon DEF EmptySleepers
  <2> QED BY <1>b, <2>0, <2>3 DEF EmptySleepers
<1>9. ASSUME NEW p \in Threads, PopTaken(p)
      PROVE  EmptySleepers'
  <2>1. at' = [at EXCEPT ![p] = "popped"] /\ at[p] = "pop"
    BY <1>9 DEF PopTaken, Go
  <2>2. Cardinality(Where(at', "pop")) = Cardinality(Where(at, "pop")) - 1
    BY <1>a, <2>1, Leaves, ZenonT(60) DEF Labels
  <2>3. /\ Where(at', "pushed") = Where(at, "pushed")
        /\ Where(at', "not_empty") = Where(at, "not_empty")
        /\ Where(at', "shut_empty") = Where(at, "shut_empty")
    BY <1>a, <2>1 DEF Where
  <2>4. Len(queue_') = Len(queue_) - 1 /\ shutdown_' = shutdown_
    BY <1>9 DEF PopTaken, QueueTypeOK
  <2> QED BY <1>a, <1>b, <2>2, <2>3, <2>4 DEF EmptySleepers
<1>10. ASSUME NEW p \in Threads, PopNotify(p)
       PROVE  EmptySleepers'
  <2>1. UNCHANGED <<queue_, shutdown_>> /\ at[p] = "popped"
    BY <1>10 DEF PopNotify
  <2>2. CASE Go(p, "true")
    BY <1>c, <2>1, <2>2 DEF Go, Labels
  <2>3. ASSUME NEW q \in At("not_full"),
               at' = [at EXCEPT ![p] = "true", ![q] = "push"]
        PROVE  EmptySleepers'
    <3>1. at[q] = "not_full" /\ q \in Threads
      BY DEF Where
    <3>2. \A l \in Counted : Where(at', l) = Where(at, l)
      BY <1>a, <2>1, <2>3, <3>1 DEF Where
    <3> QED BY <2>1, <3>2 DEF EmptySleepers
  <2> QED BY <1>10, <2>2, <2>3 DEF PopNotify, notify_one
<1>11. ASSUME NEW p \in Threads, shutdown(p)
       PROVE  EmptySleepers'
  <2>1. at' = [at EXCEPT ![p] = "shut_empty"] /\ at[p] = "idle"
    BY <1>11 DEF shutdown, Go
  <2>2. /\ Where(at', "pop") = Where(at, "pop")
        /\ Where(at', "pushed") = Where(at, "pushed")
        /\ Where(at', "not_empty") = Where(at, "not_empty")
    BY <1>a, <2>1 DEF Where
  <2>3. p \in Where(at', "shut_empty")
    BY <1>a, <2>1 DEF Where
  <2> QED BY <1>11, <2>2, <2>3 DEF EmptySleepers, shutdown
<1>12. ASSUME NEW p \in Threads, ShutdownNotEmpty(p)
       PROVE  EmptySleepers'
  <2>1. Where(at', "not_empty") = {}
    BY <1>12 DEF ShutdownNotEmpty, notify_all, Where
  <2> QED BY <2>1 DEF EmptySleepers
<1>13. ASSUME NEW p \in Threads, ShutdownNotFull(p)
       PROVE  EmptySleepers'
  <2>1. \A l \in Counted : Where(at', l) = Where(at, l)
    BY <1>a, <1>13 DEF ShutdownNotFull, notify_all, Where
  <2> QED BY <1>13, <2>1 DEF EmptySleepers, ShutdownNotFull
<1>14. ASSUME NEW p \in Threads, Spurious(p)
       PROVE  EmptySleepers'
  <2>1. UNCHANGED <<queue_, shutdown_>>
    BY <1>14 DEF Spurious
  <2>2. CASE at[p] = "not_empty" /\ Go(p, "pop")
    <3>1. Cardinality(Where(at', "pop")) = Cardinality(Where(at, "pop")) + 1
      BY <1>a, <2>2, Enters DEF Go, Labels
    <3>2. /\ Where(at', "pushed") = Where(at, "pushed")
          /\ Where(at', "shut_empty") = Where(at, "shut_empty")
      BY <1>a, <2>2 DEF Go, Where
    <3>3. Where(at, "not_empty") # {}
      BY <2>2 DEF Where
    <3> QED BY <1>a, <1>b, <2>1, <3>1, <3>2, <3>3 DEF EmptySleepers
  <2>3. CASE at[p] = "not_full" /\ Go(p, "push")
    BY <1>c, <2>1, <2>3 DEF Go, Labels
  <2> QED BY <1>14, <2>2, <2>3 DEF Spurious
<1> QED
  BY <1>1, <1>2, <1>3, <1>4, <1>5, <1>6, <1>7, <1>8, <1>9, <1>10, <1>11, <1>12,
     <1>13, <1>14
  DEF QueueNext, Called, QueueStep

\* Every free slot keeps a producer awake or about to be woken.
LEMMA FullSleepersStep ==
    ASSUME QueueTypeOK, FullSleepers, [QueueNext]_queueVars
    PROVE  FullSleepers'
<1> USE QueueAssumption DEF At
<1> DEFINE Counted == {"not_full", "push", "popped", "shut_empty", "shut_full"}
<1>a. at \in [Threads -> Labels] /\ queue_ \in Seq(Tasks) /\ Len(queue_) \in Nat
  BY DEF QueueTypeOK, Labels
<1>b. /\ Cardinality(Where(at, "push")) \in Nat
      /\ Cardinality(Where(at', "push")) \in Nat
      /\ Cardinality(Where(at, "popped")) \in Nat
      /\ Cardinality(Where(at', "popped")) \in Nat
  BY WhereFinite
<1>c. ASSUME NEW p \in Threads, NEW b \in Labels, at' = [at EXCEPT ![p] = b],
             at[p] \notin Counted, b \notin Counted,
             UNCHANGED <<queue_, shutdown_>>
      PROVE  FullSleepers'
  <2>1. \A l \in Counted : Where(at', l) = Where(at, l)
    BY <1>a, <1>c DEF Where
  <2> QED BY <1>c, <2>1 DEF FullSleepers
<1>1. CASE UNCHANGED queueVars
  BY <1>1 DEF queueVars, FullSleepers
<1>2. ASSUME NEW p \in Threads, pop(p) \/ Return(p) \/ PopWait(p) \/ PopRefused(p)
      PROVE  FullSleepers'
  BY <1>2, <1>c DEF pop, Return, PopWait, PopRefused, Go, Labels
<1>3. ASSUME NEW p \in Threads, NEW x \in Tasks, push(p, x)
      PROVE  FullSleepers'
  <2>0. UNCHANGED <<queue_, shutdown_>>
    BY <1>3 DEF push
  <2>1. at' = [at EXCEPT ![p] = "push"] /\ at[p] = "idle"
    BY <1>3 DEF push, Go
  <2>2. Cardinality(Where(at', "push")) = Cardinality(Where(at, "push")) + 1
    BY <1>a, <2>1, Enters DEF Labels
  <2>3. /\ Where(at', "not_full") = Where(at, "not_full")
        /\ Where(at', "popped") = Where(at, "popped")
        /\ Where(at', "shut_empty") = Where(at, "shut_empty")
        /\ Where(at', "shut_full") = Where(at, "shut_full")
    BY <1>a, <2>1 DEF Where
  <2> QED BY <1>a, <1>b, <2>0, <2>2, <2>3 DEF FullSleepers
<1>4. ASSUME NEW p \in Threads, PushWait(p)
      PROVE  FullSleepers'
  <2>1. max_size_ # 0 /\ max_size_ <= Len(queue_') /\ shutdown_' = FALSE
    BY <1>a, <1>4 DEF PushWait, HasRoom, QueueTypeOK
  <2>2. Len(queue_') \in Nat
    BY <1>a, <1>4 DEF PushWait
  <2> QED BY <1>b, <2>1, <2>2 DEF FullSleepers
<1>5. ASSUME NEW p \in Threads, PushRefused(p)
      PROVE  FullSleepers'
  <2>1. at' = [at EXCEPT ![p] = "false"] /\ at[p] = "push"
        /\ shutdown_ /\ shutdown_'
    BY <1>5 DEF PushRefused, Go
  <2>2. /\ Where(at', "not_full") = Where(at, "not_full")
        /\ Where(at', "shut_empty") = Where(at, "shut_empty")
        /\ Where(at', "shut_full") = Where(at, "shut_full")
    BY <1>a, <2>1 DEF Where
  <2> QED BY <2>1, <2>2, Zenon DEF FullSleepers
<1>6. ASSUME NEW p \in Threads, PushAccepted(p)
      PROVE  FullSleepers'
  <2>0. shutdown_' = shutdown_
    BY <1>6 DEF PushAccepted
  <2>1. at' = [at EXCEPT ![p] = "pushed"] /\ at[p] = "push"
    BY <1>6 DEF PushAccepted, Go
  <2>2. Cardinality(Where(at', "push")) = Cardinality(Where(at, "push")) - 1
    BY <1>a, <2>1, Leaves, ZenonT(60) DEF Labels
  <2>3. /\ Where(at', "not_full") = Where(at, "not_full")
        /\ Where(at', "popped") = Where(at, "popped")
        /\ Where(at', "shut_empty") = Where(at, "shut_empty")
        /\ Where(at', "shut_full") = Where(at, "shut_full")
    BY <1>a, <2>1 DEF Where
  <2>4. Len(queue_') = Len(queue_) + 1
    BY <1>6 DEF PushAccepted, QueueTypeOK
  <2> QED BY <1>a, <1>b, <2>0, <2>2, <2>3, <2>4 DEF FullSleepers
<1>7. ASSUME NEW p \in Threads, PopTaken(p)
      PROVE  FullSleepers'
  <2>0. shutdown_' = shutdown_
    BY <1>7 DEF PopTaken
  <2>1. at' = [at EXCEPT ![p] = "popped"] /\ at[p] = "pop"
    BY <1>7 DEF PopTaken, Go
  <2>2. Cardinality(Where(at', "popped")) = Cardinality(Where(at, "popped")) + 1
    BY <1>a, <2>1, Enters DEF Labels
  <2>3. /\ Where(at', "not_full") = Where(at, "not_full")
        /\ Where(at', "push") = Where(at, "push")
        /\ Where(at', "shut_empty") = Where(at, "shut_empty")
        /\ Where(at', "shut_full") = Where(at, "shut_full")
    BY <1>a, <2>1 DEF Where
  <2>4. Len(queue_') = Len(queue_) - 1
    BY <1>7 DEF PopTaken, QueueTypeOK
  <2> QED BY <1>a, <1>b, <2>0, <2>2, <2>3, <2>4 DEF FullSleepers
<1>8. ASSUME NEW p \in Threads, PopNotify(p)
      PROVE  FullSleepers'
  <2>1. UNCHANGED <<queue_, shutdown_>> /\ at[p] = "popped"
    BY <1>8 DEF PopNotify
  <2>2. CASE At("not_full") = {} /\ Go(p, "true")
    <3>1. Where(at', "not_full") = Where(at, "not_full")
      BY <1>a, <2>1, <2>2 DEF Go, Where
    <3> QED BY <2>2, <3>1 DEF FullSleepers
  <2>3. ASSUME NEW q \in At("not_full"),
               at' = [at EXCEPT ![p] = "true", ![q] = "push"]
        PROVE  FullSleepers'
    <3>1. at[q] = "not_full" /\ q \in Threads /\ At("not_full") # {}
      BY DEF Where
    <3> DEFINE g == [at EXCEPT ![p] = "true", ![q] = "push"]
    <3>2. /\ Cardinality(Where(g, "popped")) = Cardinality(Where(at, "popped")) - 1
          /\ Cardinality(Where(g, "push")) = Cardinality(Where(at, "push")) + 1
      <4>1. p \in Where(at, "popped") /\ Where(g, "popped") = Where(at, "popped") \ {p}
        BY <1>a, <2>1, <3>1 DEF Where
      <4>2. q \notin Where(at, "push") /\ Where(g, "push") = Where(at, "push") \cup {q}
        BY <1>a, <2>1, <3>1 DEF Where
      <4> HIDE DEF g
      <4> QED BY <4>1, <4>2, WhereFinite, FS_RemoveElement, FS_AddElement
    <3>3. /\ Where(at', "shut_empty") = Where(at, "shut_empty")
          /\ Where(at', "shut_full") = Where(at, "shut_full")
      BY <1>a, <2>1, <2>3, <3>1 DEF Where
    <3>4. at' = g
      BY <2>3
    <3> HIDE DEF g
    <3> QED BY <1>a, <1>b, <2>1, <3>1, <3>2, <3>3, <3>4 DEF FullSleepers
  <2> QED BY <1>8, <2>2, <2>3 DEF PopNotify, notify_one
<1>9. ASSUME NEW p \in Threads, PushNotify(p)
      PROVE  FullSleepers'
  <2>1. UNCHANGED <<queue_, shutdown_>> /\ at[p] = "pushed"
    BY <1>9 DEF PushNotify
  <2>2. CASE Go(p, "true")
    BY <1>c, <2>1, <2>2 DEF Go, Labels
  <2>3. ASSUME NEW q \in At("not_empty"),
               at' = [at EXCEPT ![p] = "true", ![q] = "pop"]
        PROVE  FullSleepers'
    <3>1. at[q] = "not_empty" /\ q \in Threads
      BY DEF Where
    <3>2. \A l \in Counted : Where(at', l) = Where(at, l)
      BY <1>a, <2>1, <2>3, <3>1 DEF Where
    <3> QED BY <2>1, <3>2 DEF FullSleepers
  <2> QED BY <1>9, <2>2, <2>3 DEF PushNotify, notify_one
<1>10. ASSUME NEW p \in Threads, shutdown(p)
       PROVE  FullSleepers'
  <2>1. at' = [at EXCEPT ![p] = "shut_empty"] /\ at[p] = "idle" /\ shutdown_'
    BY <1>10 DEF shutdown, Go
  <2>2. Where(at', "not_full") = Where(at, "not_full")
    BY <1>a, <2>1 DEF Where
  <2>3. p \in Where(at', "shut_empty")
    BY <1>a, <2>1 DEF Where
  <2> QED BY <2>1, <2>2, <2>3, Zenon DEF FullSleepers
<1>11. ASSUME NEW p \in Threads, ShutdownNotEmpty(p)
       PROVE  FullSleepers'
  <2>1. UNCHANGED <<queue_, shutdown_>>
    BY <1>11 DEF ShutdownNotEmpty
  <2>2. /\ Where(at', "not_full") = Where(at, "not_full")
        /\ Where(at', "push") = Where(at, "push")
        /\ Where(at', "popped") = Where(at, "popped")
        /\ p \in Where(at', "shut_full")
    BY <1>a, <1>11 DEF ShutdownNotEmpty, notify_all, Where
  <2> QED BY <2>1, <2>2 DEF FullSleepers
<1>12. ASSUME NEW p \in Threads, ShutdownNotFull(p)
       PROVE  FullSleepers'
  <2>1. Where(at', "not_full") = {}
    BY <1>12 DEF ShutdownNotFull, notify_all, Where
  <2> QED BY <2>1 DEF FullSleepers
<1>13. ASSUME NEW p \in Threads, Spurious(p)
       PROVE  FullSleepers'
  <2>1. UNCHANGED <<queue_, shutdown_>>
    BY <1>13 DEF Spurious
  <2>2. CASE at[p] = "not_full" /\ Go(p, "push")
    <3>1. Cardinality(Where(at', "push")) = Cardinality(Where(at, "push")) + 1
      BY <1>a, <2>2, Enters DEF Go, Labels
    <3>2. /\ Where(at', "popped") = Where(at, "popped")
          /\ Where(at', "shut_empty") = Where(at, "shut_empty")
          /\ Where(at', "shut_full") = Where(at, "shut_full")
      BY <1>a, <2>2 DEF Go, Where
    <3>3. Where(at, "not_full") # {}
      BY <2>2 DEF Where
    <3> QED BY <1>a, <1>b, <2>1, <3>1, <3>2, <3>3 DEF FullSleepers
  <2>3. CASE at[p] = "not_empty" /\ Go(p, "pop")
    BY <1>c, <2>1, <2>3 DEF Go, Labels
  <2> QED BY <1>13, <2>2, <2>3 DEF Spurious
<1> QED
  BY <1>1, <1>2, <1>3, <1>4, <1>5, <1>6, <1>7, <1>8, <1>9, <1>10, <1>11, <1>12,
     <1>13
  DEF QueueNext, Called, QueueStep

-----------------------------------------------------------------------------
\* The counting invariant excludes a sleeper nobody will wake.
LEMMA InvWakes == QueueInv => NoLostWakeup
<1> SUFFICES ASSUME QueueInv PROVE NoLostWakeup
  OBVIOUS
<1> USE QueueAssumption DEF At
<1>0. queue_ \in Seq(Tasks) /\ Len(queue_) \in Nat
  BY DEF QueueInv, QueueTypeOK
<1>1. ASSUME At("not_empty") # {}
      PROVE  \/ queue_ = <<>> /\ ~shutdown_
             \/ At("pop") \cup At("pushed") \cup At("shut_empty") # {}
  <2>1. CASE shutdown_
    BY <1>1, <2>1, Zenon DEF QueueInv, EmptySleepers
  <2>2. CASE ~shutdown_ /\ queue_ # <<>>
    <3>1. Len(queue_) > 0
      BY <1>0, <2>2
    <3>2. Cardinality(At("pop")) # 0 \/ Cardinality(At("pushed")) # 0
      BY <1>0, <1>1, <3>1, WhereFinite DEF QueueInv, EmptySleepers
    <3>3. At("pop") # {} \/ At("pushed") # {}
      BY <3>2, FS_EmptySet
    <3> QED BY <3>3
  <2> QED BY <2>1, <2>2
<1>2. ASSUME At("not_full") # {}
      PROVE  \/ ~HasRoom /\ ~shutdown_
             \/ At("push") \cup At("popped") \cup At("shut_empty")
                  \cup At("shut_full") # {}
  <2>1. CASE shutdown_
    BY <1>2, <2>1, Zenon DEF QueueInv, FullSleepers
  <2>2. CASE ~shutdown_ /\ HasRoom
    <3>1. Len(queue_) < max_size_
      BY <1>2, <2>2 DEF QueueInv, FullSleepers, HasRoom
    <3>2. Cardinality(At("push")) # 0 \/ Cardinality(At("popped")) # 0
      BY <1>0, <1>2, <2>2, <3>1, WhereFinite DEF QueueInv, FullSleepers
    <3>3. At("push") # {} \/ At("popped") # {}
      BY <3>2, FS_EmptySet
    <3> QED BY <3>3
  <2> QED BY <2>1, <2>2
<1> QED BY <1>1, <1>2 DEF NoLostWakeup

(***************************************************************************)
(* The counting invariant holds in every reachable state: for every number *)
(* of threads calling push, pop and shutdown of TaskQueue, every capacity, *)
(* every spurious wakeup and every delay of a notification.                *)
(***************************************************************************)
THEOREM QueueInvariant == QueueSpec => []QueueInv
<1>1. QueueInit => QueueInv
  <2> SUFFICES ASSUME QueueInit PROVE QueueInv
    OBVIOUS
  <2>1. QueueTypeOK
    <3>1. queue_ \in Seq(Tasks)
      BY DEF QueueInit
    <3>2. shutdown_ \in BOOLEAN
      BY DEF QueueInit
    <3> QED BY <3>1, <3>2 DEF QueueInit, QueueTypeOK
  <2>2. QueueBounded
    BY QueueAssumption DEF QueueInit, QueueBounded
  <2>3. At("not_empty") = {} /\ At("not_full") = {}
    BY DEF QueueInit, At, Where
  <2> QED BY <2>1, <2>2, <2>3 DEF QueueInv, EmptySleepers, FullSleepers
<1>2. QueueInv /\ [QueueNext]_queueVars => QueueInv'
  BY QueueTypeStep, QueueBoundedStep, EmptySleepersStep, FullSleepersStep
  DEF QueueInv
<1> QED BY <1>1, <1>2, PTL DEF QueueSpec

(***************************************************************************)
(* No wakeup is lost: TaskQueue may notify after it released mutex_.       *)
(***************************************************************************)
THEOREM QueueWakes == QueueSpec => []NoLostWakeup
BY QueueInvariant, InvWakes, PTL

-----------------------------------------------------------------------------
(***************************************************************************)
(* The server.                                                             *)
(***************************************************************************)

Queued(c) == \E i \in DOMAIN queue_ : queue_[i] = c
Distinct(s) == \A i, j \in DOMAIN s : s[i] = s[j] => i = j

\* Where a thread is in the queue follows from where it is in the server.
Control ==
    /\ main \notin {"pool", "freed"} => closer[Main] = "none"
    /\ main = "freed" => closer[Main] = "over"
    /\ at[Main] \in IF main = "push" THEN {"push", "not_full", "pushed", "true", "false"}
                    ELSE IF closer[Main] = "notify" THEN {"shut_empty", "shut_full", "true"}
                    ELSE {"idle"}
    /\ at[Handler] \in IF closer[Handler] = "notify" THEN {"shut_empty", "shut_full", "true"}
                       ELSE {"idle"}
    /\ \A w \in Workers :
        /\ at[w] \in IF worker[w] = "pop"
                     THEN {"idle", "pop", "not_empty", "popped", "true", "false"}
                     ELSE {"idle"}
        /\ at[w] \in {"popped", "true"} \/ worker[w] \in {"loop", "recv", "end"}
             => task[w] \in Tasks

\* A connection is open exactly while somebody has it, and only one has.
OwnerInv ==
    /\ \A p \in Threads, c \in Tasks : Held(p, c) => sock[c] = "open" /\ ~Queued(c)
    /\ \A p, q \in Threads, c \in Tasks : Held(p, c) /\ Held(q, c) => p = q
    /\ \A c \in Tasks : Queued(c) => sock[c] = "open"
    /\ \A c \in Tasks : sock[c] = "open" => Queued(c) \/ \E p \in Threads : Held(p, c)
    /\ Distinct(queue_)

\* A worker ends only when the queue is shut down and empty; then it stays so.
Drained ==
    /\ \A w \in Workers : worker[w] = "exit" \/ at[w] = "false"
         => shutdown_ /\ queue_ = <<>>
    /\ \A w \in joined : worker[w] = "exit"
    /\ main = "freed" /\ outcome \in {"up", "exit"} => joined = Workers
    /\ outcome = "exit" => main = "freed"

ServerInv == ServerTypeOK /\ Control /\ OwnerInv /\ Drained

-----------------------------------------------------------------------------
(* The server and its queue. *)

(* Every step of the server is a step of the queue or leaves it alone. *)
LEMMA ServerQueueStep ==
    ASSUME [ServerNext]_allVars
    PROVE  [QueueNext]_queueVars
<1>t. Main \in Threads /\ Handler \in Threads /\ \A w \in Workers : w \in Threads
  BY ServerAssumption
<1>1. ASSUME MainStep PROVE [QueueNext]_queueVars
  BY <1>t, <1>1 DEF MainStep, Start, TestRunning, AcceptFails, Pushed, Accept, PoolShutdown,
     PoolCas, PoolShutQueue, PoolQueueShut, PoolJoin, PoolJoined, Destroy, DestroyThreads,
     Exit, QueueNext, Called
<1>2. ASSUME Signal \/ HandlerStep PROVE [QueueNext]_queueVars
  BY <1>t, <1>2 DEF Signal, HandlerStep, stop, StopListening, StopPool, Stopped, LateAccess,
     PoolShutdown, PoolCas, PoolShutQueue, PoolQueueShut, PoolJoin, PoolJoined, QueueNext,
     Called
<1>3. ASSUME NEW w \in Workers, WorkerStep(w) \/ Client(w) PROVE [QueueNext]_queueVars
  BY <1>t, <1>3 DEF WorkerStep, WorkerPop, WorkerPopped, ServeLoop, ServeEnd, Client,
     ServeRequest, ClientLeaves, ServeThrows, QueueNext, Called
<1>4. ASSUME NEW p \in Threads, InQueue(p) PROVE [QueueNext]_queueVars
  BY <1>4 DEF InQueue, QueueNext
<1>5. ASSUME UNCHANGED allVars PROVE [QueueNext]_queueVars
  BY <1>5 DEF allVars
<1> QED
  BY <1>1, <1>2, <1>3, <1>4, <1>5 DEF ServerNext, Ended

(* The server uses its queue as TaskQueue allows, so the queue's theorems  *)
(* hold of the server.                                                     *)
THEOREM ServerUsesQueue == ServerSpec => QueueSpec
<1>1. [ServerNext]_allVars => [QueueNext]_queueVars
  BY ServerQueueStep
<1>2. ServerInit => QueueInit
  BY DEF ServerInit
<1> QED
  BY <1>1, <1>2, PTL DEF ServerSpec, QueueSpec

(* In the server no wakeup of a worker or of the accept loop is lost. *)
THEOREM ServerWakes == ServerSpec => []NoLostWakeup
BY ServerUsesQueue, QueueWakes, PTL

(* Every step keeps the types. *)
LEMMA ServerTypeStep ==
    ASSUME ServerTypeOK, [ServerNext]_allVars
    PROVE  ServerTypeOK'
<1>q. QueueTypeOK'
  BY ServerQueueStep, QueueTypeStep DEF ServerTypeOK
<1>t. Main \in Stoppers /\ Handler \in Stoppers
  BY DEF Stoppers
<1> USE <1>q, <1>t DEF ServerTypeOK
<1>1. ASSUME Start \/ TestRunning \/ AcceptFails PROVE ServerTypeOK'
  BY <1>1 DEF Start, TestRunning, AcceptFails
<1>2. ASSUME Pushed \/ \E c \in Tasks : Accept(c) PROVE ServerTypeOK'
  BY <1>2 DEF Accept, Pushed, SetSock
<1>3. ASSUME NEW p \in Stoppers, PoolShutdown(p) PROVE ServerTypeOK'
  BY <1>3, ZenonT(60) DEF PoolShutdown, PoolCas, PoolShutQueue, PoolQueueShut, PoolJoin, PoolJoined,
     CloserTo
<1>4. ASSUME Destroy \/ DestroyThreads \/ Exit PROVE ServerTypeOK'
  BY <1>4 DEF Destroy, DestroyThreads, Exit, CloserTo
<1>5. ASSUME Signal \/ stop \/ StopListening \/ StopPool \/ Stopped \/ LateAccess
      PROVE  ServerTypeOK'
  BY <1>5 DEF Signal, stop, StopListening, StopPool, Stopped, LateAccess, CloserTo
<1>6. ASSUME NEW w \in Workers, WorkerStep(w) PROVE ServerTypeOK'
  BY <1>6 DEF WorkerStep, WorkerPop, WorkerPopped, ServeLoop, ServeEnd, WorkerTo, SetSock,
     OnlyWorkers
<1>7. ASSUME NEW w \in Workers, Client(w) PROVE ServerTypeOK'
  BY <1>7 DEF Client, ServeRequest, ClientLeaves, ServeThrows, WorkerTo, SetSock, OnlyWorkers
<1>8. ASSUME UNCHANGED serverVars PROVE ServerTypeOK'
  BY <1>8 DEF serverVars
<1> QED
  BY <1>1, <1>2, <1>3, <1>4, <1>5, <1>6, <1>7, <1>8
  DEF ServerNext, MainStep, HandlerStep, InQueue, Ended, allVars

-----------------------------------------------------------------------------
(* Control. *)

(* A thread inside the queue stays where its call may be. *)
LEMMA QueueControl ==
    ASSUME ServerTypeOK, Control, NEW p \in Threads, InQueue(p)
    PROVE  Control'
<1>t. /\ Main \in Threads /\ Handler \in Threads /\ Main # Handler
      /\ \A w \in Workers : w \in Threads /\ w # Main /\ w # Handler
      /\ p = Main \/ p = Handler \/ p \in Workers
      /\ at \in [Threads -> Labels] /\ task \in [Threads -> Tasks \cup {NoTask}]
      /\ queue_ \in Seq(Tasks)
  BY ServerAssumption DEF ServerTypeOK, QueueTypeOK, Labels
<1>s. UNCHANGED <<main, closer, worker>>
  BY DEF InQueue, serverVars
<1> USE <1>t, <1>s DEF Control, Go
<1>1. CASE PushWait(p) \/ PushRefused(p) \/ PushAccepted(p)
  BY <1>1 DEF PushWait, PushRefused, PushAccepted
<1>2. CASE PopWait(p) \/ PopRefused(p)
  BY <1>2 DEF PopWait, PopRefused
<1>3. CASE PopTaken(p)
  <2>1. Head(queue_) \in Tasks
    BY <1>3 DEF PopTaken
  <2> QED
    BY <1>3, <2>1 DEF PopTaken
<1>4. CASE PushNotify(p)
  BY <1>4 DEF PushNotify, notify_one, At, Where
<1>5. CASE PopNotify(p)
  BY <1>5 DEF PopNotify, notify_one, At, Where
<1>6. CASE ShutdownNotEmpty(p) \/ ShutdownNotFull(p)
  BY <1>6 DEF ShutdownNotEmpty, ShutdownNotFull, notify_all
<1>7. CASE Spurious(p)
  BY <1>7 DEF Spurious
<1> QED
  BY <1>1, <1>2, <1>3, <1>4, <1>5, <1>6, <1>7 DEF InQueue, QueueStep

(* Every step keeps the threads' control in line. *)
LEMMA ControlStep ==
    ASSUME ServerTypeOK, Control, [ServerNext]_allVars
    PROVE  Control'
<1>t. /\ Main \in Threads /\ Handler \in Threads /\ Main # Handler
      /\ \A w \in Workers : w \in Threads /\ w # Main /\ w # Handler
      /\ at \in [Threads -> Labels] /\ task \in [Threads -> Tasks \cup {NoTask}]
      /\ Main \in Stoppers /\ Handler \in Stoppers
      /\ closer \in [Stoppers -> {"none", "cas", "queue", "notify", "join", "over"}]
      /\ worker \in [Workers -> {"pop", "loop", "recv", "end", "exit"}]
      /\ main \in {"start", "loop", "accept", "push", "destroy", "pool", "freed"}
  BY ServerAssumption DEF ServerTypeOK, QueueTypeOK, Labels, Stoppers
<1> USE <1>t DEF Control, Go
<1>1. ASSUME Start \/ TestRunning \/ AcceptFails PROVE Control'
  BY <1>1 DEF Start, TestRunning, AcceptFails, queueVars
<1>2. ASSUME Pushed \/ \E c \in Tasks : Accept(c) PROVE Control'
  BY <1>2 DEF Accept, Pushed, push, Return
<1>3. ASSUME PoolShutdown(Main) PROVE Control'
  BY <1>3 DEF PoolShutdown, PoolCas, PoolShutQueue, PoolQueueShut, PoolJoin, PoolJoined,
     CloserTo, shutdown, Return, queueVars
<1>4. ASSUME PoolShutdown(Handler) PROVE Control'
  BY <1>4 DEF PoolShutdown, PoolCas, PoolShutQueue, PoolQueueShut, PoolJoin, PoolJoined,
     CloserTo, shutdown, Return, queueVars
<1>5. ASSUME Destroy \/ DestroyThreads \/ Exit PROVE Control'
  BY <1>5 DEF Destroy, DestroyThreads, Exit, CloserTo, queueVars
<1>6. ASSUME Signal \/ stop \/ StopListening \/ StopPool \/ Stopped \/ LateAccess
      PROVE  Control'
  BY <1>6 DEF Signal, stop, StopListening, StopPool, Stopped, LateAccess, CloserTo, queueVars
<1>7. ASSUME NEW w \in Workers, WorkerStep(w) PROVE Control'
  BY <1>7 DEF WorkerStep, WorkerPop, WorkerPopped, ServeLoop, ServeEnd, WorkerTo,
     OnlyWorkers, pop, Return, queueVars
<1>8. ASSUME NEW w \in Workers, Client(w) PROVE Control'
  BY <1>8 DEF Client, ServeRequest, ClientLeaves, ServeThrows, WorkerTo, OnlyWorkers, queueVars
<1>9. ASSUME UNCHANGED allVars PROVE Control'
  BY <1>9 DEF allVars, queueVars, serverVars
<1>10. ASSUME NEW p \in Threads, InQueue(p) PROVE Control'
  BY <1>10, QueueControl
<1> QED
  BY <1>1, <1>2, <1>3, <1>4, <1>5, <1>6, <1>7, <1>8, <1>9, <1>10
  DEF ServerNext, MainStep, HandlerStep, Ended

-----------------------------------------------------------------------------
(* The connections.  A step changes who has which in one of five ways. *)

\* Nobody gives or takes one.
Keeps ==
    /\ UNCHANGED <<queue_, sock>>
    /\ \A q \in Threads, x \in Tasks : Held(q, x)' <=> Held(q, x)

\* p accepts c.
Opens(p, c) ==
    /\ sock[c] = "away" /\ sock' = [sock EXCEPT ![c] = "open"] /\ UNCHANGED queue_
    /\ \A q \in Threads, x \in Tasks : Held(q, x)' <=> Held(q, x) \/ (q = p /\ x = c)

\* p is done with c.
Closes(p, c) ==
    /\ Held(p, c) /\ UNCHANGED queue_
    /\ \E s \in {"closed", "leaked"} : sock' = [sock EXCEPT ![c] = s]
    /\ \A q \in Threads, x \in Tasks : Held(q, x)' <=> Held(q, x) /\ ~(q = p /\ x = c)

\* p queues c.
Puts(p, c) ==
    /\ Held(p, c) /\ UNCHANGED sock /\ queue_' = Append(queue_, c)
    /\ \A q \in Threads, x \in Tasks : Held(q, x)' <=> Held(q, x) /\ ~(q = p /\ x = c)

\* p takes the first one in the queue.
Takes(p) ==
    /\ queue_ # <<>> /\ UNCHANGED sock /\ queue_' = Tail(queue_)
    /\ \A q \in Threads, x \in Tasks :
          Held(q, x)' <=> Held(q, x) \/ (q = p /\ x = Head(queue_))

Passes ==
    \/ Keeps
    \/ \E p \in Threads : \/ \E c \in Tasks : Opens(p, c) \/ Closes(p, c) \/ Puts(p, c)
                          \/ Takes(p)

(* A step in the queue. *)
LEMMA QueuePasses ==
    ASSUME ServerTypeOK, Control, NEW p \in Threads, InQueue(p)
    PROVE  Passes
<1>t. /\ Main \in Threads /\ Handler \in Threads /\ Main # Handler
      /\ \A w \in Workers : w \in Threads /\ w # Main /\ w # Handler
      /\ p = Main \/ p = Handler \/ p \in Workers
      /\ at \in [Threads -> Labels] /\ task \in [Threads -> Tasks \cup {NoTask}]
      /\ queue_ \in Seq(Tasks)
      /\ \A q \in Threads : at[q] \in {"push", "not_full"} => task[q] \in Tasks
  BY ServerAssumption DEF ServerTypeOK, QueueTypeOK, Labels
<1>s. UNCHANGED <<main, closer, worker, sock>>
  BY DEF InQueue, serverVars
<1>c. Control
  OBVIOUS
<1>1. CASE PushAccepted(p)
  <2>1. p = Main
    BY <1>1, <1>t, <1>c DEF PushAccepted, Control
  <2>2. task[p] \in Tasks /\ queue_' = Append(queue_, task[p]) /\ task' = task
        /\ at[p] = "push" /\ at' = [at EXCEPT ![p] = "pushed"]
    BY <1>1, <1>t DEF PushAccepted, Go
  <2>3. Held(p, task[p])
    BY <2>1, <2>2 DEF Held
  <2>4. \A q \in Threads, x \in Tasks : Held(q, x)' <=> Held(q, x) /\ ~(q = p /\ x = task[p])
    BY <2>1, <2>2, <1>t, <1>s DEF Held
  <2>5. Puts(p, task[p])
    BY <1>s, <2>2, <2>3, <2>4 DEF Puts
  <2> QED
    BY <2>2, <2>5 DEF Passes
<1>2. CASE PopTaken(p)
  <2>1. p \in Workers /\ p # Main /\ worker[p] = "pop"
    BY <1>2, <1>t, <1>c DEF PopTaken, Control
  <2>2. /\ queue_ # <<>> /\ queue_' = Tail(queue_)
        /\ task' = [task EXCEPT ![p] = Head(queue_)]
        /\ at[p] = "pop" /\ at' = [at EXCEPT ![p] = "popped"]
    BY <1>2, <1>t DEF PopTaken, Go
  <2>3. \A q \in Threads, x \in Tasks : Held(q, x)' <=> Held(q, x) \/ (q = p /\ x = Head(queue_))
    <3> SUFFICES ASSUME NEW q \in Threads, NEW x \in Tasks
                 PROVE  Held(q, x)' <=> Held(q, x) \/ (q = p /\ x = Head(queue_))
      OBVIOUS
    <3>1. CASE q # p
      BY <3>1, <2>2, <1>t, <1>s DEF Held
    <3>2. CASE q = p
      BY <3>2, <2>1, <2>2, <1>t, <1>s DEF Held
    <3> QED
      BY <3>1, <3>2
  <2>4. Takes(p)
    BY <1>s, <2>2, <2>3 DEF Takes
  <2> QED
    BY <2>4 DEF Passes
<1>3. ASSUME UNCHANGED <<queue_, task>>,
             at'[Main] \in {"push", "not_full", "false"} <=> at[Main] \in {"push", "not_full", "false"},
             \A w \in Workers : at'[w] \in {"popped", "true"} <=> at[w] \in {"popped", "true"}
      PROVE  Passes
  <2>1. Keeps
    BY <1>s, <1>3 DEF Keeps, Held
  <2> QED
    BY <2>1 DEF Passes
<1>4. CASE PushWait(p) \/ PushRefused(p)
  BY <1>3, <1>4, <1>t, <1>c DEF PushWait, PushRefused, Go, Control
<1>5. CASE PopWait(p) \/ PopRefused(p) \/ Spurious(p)
  BY <1>3, <1>5, <1>t, <1>c DEF PopWait, PopRefused, Spurious, Go, Control
<1>6. CASE PushNotify(p)
  BY <1>3, <1>6, <1>t, <1>c DEF PushNotify, notify_one, At, Where, Go, Control
<1>7. CASE PopNotify(p)
  BY <1>3, <1>7, <1>t, <1>c DEF PopNotify, notify_one, At, Where, Go, Control
<1>8. CASE ShutdownNotEmpty(p) \/ ShutdownNotFull(p)
  BY <1>3, <1>8, <1>t, <1>c DEF ShutdownNotEmpty, ShutdownNotFull, notify_all, Control
<1> QED
  BY <1>1, <1>2, <1>4, <1>5, <1>6, <1>7, <1>8 DEF InQueue, QueueStep

(* Every step of the server. *)
LEMMA ServerPasses ==
    ASSUME ServerTypeOK, Control, [ServerNext]_allVars
    PROVE  Passes
<1>t. /\ Main \in Threads /\ Handler \in Threads /\ Main # Handler
      /\ \A w \in Workers : w \in Threads /\ w # Main /\ w # Handler
      /\ at \in [Threads -> Labels] /\ task \in [Threads -> Tasks \cup {NoTask}]
      /\ Main \in Stoppers /\ Handler \in Stoppers
      /\ closer \in [Stoppers -> {"none", "cas", "queue", "notify", "join", "over"}]
      /\ worker \in [Workers -> {"pop", "loop", "recv", "end", "exit"}]
      /\ sock \in [Tasks -> {"away", "open", "closed", "leaked"}]
  BY ServerAssumption DEF ServerTypeOK, QueueTypeOK, Labels, Stoppers
<1>c. Control
  OBVIOUS
<1>k. ASSUME Keeps PROVE Passes
  BY <1>k DEF Passes
<1>1. ASSUME UNCHANGED <<queueVars, worker, sock>> PROVE Passes
  BY <1>k, <1>1 DEF Keeps, Held, queueVars
<1>2. CASE \/ Start \/ TestRunning \/ AcceptFails \/ Destroy \/ DestroyThreads \/ Exit
           \/ Signal \/ stop \/ StopListening \/ StopPool \/ Stopped \/ LateAccess
           \/ UNCHANGED allVars
  BY <1>1, <1>2 DEF Start, TestRunning, AcceptFails, Destroy, DestroyThreads, Exit,
     Signal, stop, StopListening, StopPool, Stopped, LateAccess, allVars, serverVars
<1>3. ASSUME NEW c \in Tasks, Accept(c) PROVE Passes
  <2>1. /\ sock[c] = "away" /\ sock' = [sock EXCEPT ![c] = "open"]
        /\ UNCHANGED <<queue_, worker>>
        /\ at[Main] = "idle" /\ at' = [at EXCEPT ![Main] = "push"]
        /\ task' = [task EXCEPT ![Main] = c]
    BY <1>3 DEF Accept, SetSock, push, Go
  <2>2. \A q \in Threads, x \in Tasks : Held(q, x)' <=> Held(q, x) \/ (q = Main /\ x = c)
    BY <2>1, <1>t DEF Held
  <2>3. Opens(Main, c)
    BY <2>1, <2>2 DEF Opens
  <2> QED
    BY <1>t, <2>3 DEF Passes
<1>4. ASSUME Pushed PROVE Passes
  <2>1. /\ UNCHANGED <<queue_, worker, task>> /\ at' = [at EXCEPT ![Main] = "idle"]
        /\ at[Main] \in {"true", "false"}
        /\ IF at[Main] = "false" THEN sock' = [sock EXCEPT ![task[Main]] = "closed"]
                                 ELSE sock' = sock
    BY <1>4 DEF Pushed, Return, Go, SetSock
  <2>2. \A q \in Threads, x \in Tasks :
           Held(q, x)' <=> Held(q, x) /\ ~(q = Main /\ x = task[Main])
    BY <2>1, <1>t DEF Held
  <2>3. CASE at[Main] = "false" /\ task[Main] \in Tasks
    <3>1. Held(Main, task[Main])
      BY <2>3 DEF Held
    <3>2. Closes(Main, task[Main])
      BY <2>1, <2>2, <2>3, <3>1 DEF Closes
    <3> QED
      BY <1>t, <2>3, <3>2 DEF Passes
  <2>4. CASE ~(at[Main] = "false" /\ task[Main] \in Tasks)
    <3>1. \A x \in Tasks : ~Held(Main, x)
      BY <1>t, <2>1, <2>4 DEF Held
    <3>2. sock' = sock
      BY <1>t, <2>1, <2>4
    <3> QED
      BY <1>k, <2>1, <2>2, <3>1, <3>2 DEF Keeps
  <2> QED
    BY <2>3, <2>4
<1>5. ASSUME NEW p \in Stoppers, PoolShutdown(p) PROVE Passes
  <2>1. CASE PoolCas(p) \/ PoolJoin(p) \/ PoolJoined(p)
    BY <1>1, <2>1 DEF PoolCas, PoolJoin, PoolJoined
  <2>2. CASE PoolShutQueue(p) \/ PoolQueueShut(p)
    <3>1. /\ UNCHANGED <<queue_, task, worker, sock>> /\ p \in {Main, Handler}
          /\ \E l \in {"shut_empty", "idle"} : at' = [at EXCEPT ![p] = l]
          /\ at[p] \in {"idle", "true", "false"}
      BY <2>2 DEF PoolShutQueue, PoolQueueShut, shutdown, Return, Go, Stoppers
    <3>2. p = Main => at[p] # "false"
      BY <2>2, <1>t, <1>c, <3>1 DEF PoolShutQueue, PoolQueueShut, shutdown, Control
    <3> QED
      BY <1>k, <1>t, <3>1, <3>2 DEF Keeps, Held
  <2> QED
    BY <1>5, <2>1, <2>2 DEF PoolShutdown
<1>6. ASSUME NEW w \in Workers, WorkerPop(w) \/ WorkerPopped(w) PROVE Passes
  <2>1. /\ UNCHANGED <<queue_, sock>> /\ worker[w] = "pop"
        /\ \A q \in Threads \ {w} : at'[q] = at[q] /\ task'[q] = task[q]
        /\ \A v \in Workers \ {w} : worker'[v] = worker[v]
    BY <1>6, <1>t DEF WorkerPop, WorkerPopped, pop, Return, Go, WorkerTo
  <2>2. \A q \in Threads \ {w}, x \in Tasks : Held(q, x)' <=> Held(q, x)
    BY <1>t, <2>1 DEF Held
  <2>3. \A x \in Tasks : Held(w, x)' <=> Held(w, x)
    BY <1>6, <1>t DEF WorkerPop, WorkerPopped, pop, Return, Go, WorkerTo, Held
  <2> QED
    BY <1>k, <2>1, <2>2, <2>3 DEF Keeps
<1>7. ASSUME NEW w \in Workers, ServeLoop(w) \/ ServeRequest(w) \/ ClientLeaves(w) PROVE Passes
  <2>1. /\ UNCHANGED <<queueVars, sock>> /\ worker[w] \in {"loop", "recv", "end"}
        /\ \E l \in {"loop", "recv", "end"} : worker' = [worker EXCEPT ![w] = l]
    BY <1>7 DEF ServeLoop, ServeRequest, ClientLeaves, WorkerTo
  <2> QED
    BY <1>k, <1>t, <2>1 DEF Keeps, Held, queueVars
<1>8. ASSUME NEW w \in Workers, ServeEnd(w) \/ ServeThrows(w) PROVE Passes
  <2>1. /\ UNCHANGED <<queue_, at, task>> /\ worker[w] \in {"recv", "end"}
        /\ worker' = [worker EXCEPT ![w] = "pop"]
        /\ \E s \in {"closed", "leaked"} : sock' = [sock EXCEPT ![task[w]] = s]
    BY <1>8 DEF ServeEnd, ServeThrows, WorkerTo, SetSock, queueVars
  <2>2. at[w] = "idle" /\ task[w] \in Tasks
    BY <1>t, <1>c, <2>1 DEF Control
  <2>3. Held(w, task[w])
    BY <1>t, <2>1 DEF Held
  <2>4. \A q \in Threads, x \in Tasks : Held(q, x)' <=> Held(q, x) /\ ~(q = w /\ x = task[w])
    BY <1>t, <2>1, <2>2 DEF Held
  <2>5. Closes(w, task[w])
    BY <2>1, <2>3, <2>4 DEF Closes
  <2> QED
    BY <1>t, <2>2, <2>5 DEF Passes
<1>9. ASSUME NEW p \in Threads, InQueue(p) PROVE Passes
  BY <1>9, QueuePasses
<1> QED
  BY <1>t, <1>2, <1>3, <1>4, <1>5, <1>6, <1>7, <1>8, <1>9
  DEF ServerNext, MainStep, HandlerStep, WorkerStep, Client, Ended

(* Appending to the queue and taking its head. *)
LEMMA QueueGrows ==
    ASSUME queue_ \in Seq(Tasks), NEW c \in Tasks, queue_' = Append(queue_, c),
           Distinct(queue_), ~Queued(c)
    PROVE  Distinct(queue_)' /\ \A x \in Tasks : Queued(x)' <=> Queued(x) \/ x = c
<1>1. /\ DOMAIN queue_ = 1 .. Len(queue_) /\ Len(queue_) \in Nat
      /\ DOMAIN queue_' = 1 .. Len(queue_) + 1
      /\ \A i \in 1 .. Len(queue_) : queue_'[i] = queue_[i]
      /\ queue_'[Len(queue_) + 1] = c
  OBVIOUS
<1>2. \A i \in 1 .. Len(queue_) + 1 : i \in 1 .. Len(queue_) \/ i = Len(queue_) + 1
  BY <1>1
<1>3. Len(queue_) + 1 \in 1 .. Len(queue_) + 1
      /\ \A i \in 1 .. Len(queue_) : i \in 1 .. Len(queue_) + 1
  BY <1>1
<1>4. \A x \in Tasks : Queued(x)' <=> Queued(x) \/ x = c
  BY <1>1, <1>2, <1>3 DEF Queued
<1>5. \A i, j \in 1 .. Len(queue_) : queue_[i] = queue_[j] => i = j
  BY <1>1 DEF Distinct
<1>6. \A i \in 1 .. Len(queue_) : queue_[i] # c
  BY <1>1 DEF Queued
<1>7. Distinct(queue_')
  BY <1>1, <1>2, <1>5, <1>6 DEF Distinct
<1> QED
  BY <1>4, <1>7 DEF Distinct

(* Taking the first connection removes that one from the queue and no      *)
(* other.                                                                  *)
LEMMA QueueShrinks ==
    ASSUME queue_ \in Seq(Tasks), queue_ # <<>>, queue_' = Tail(queue_), Distinct(queue_)
    PROVE  /\ Head(queue_) \in Tasks /\ Queued(Head(queue_)) /\ Distinct(queue_)'
           /\ \A x \in Tasks : Queued(x)' <=> Queued(x) /\ x # Head(queue_)
<1>1. /\ DOMAIN queue_ = 1 .. Len(queue_) /\ Len(queue_) \in Nat \ {0}
      /\ DOMAIN queue_' = 1 .. Len(queue_) - 1
      /\ \A i \in 1 .. Len(queue_) - 1 : queue_'[i] = queue_[i + 1]
      /\ Head(queue_) = queue_[1] /\ Head(queue_) \in Tasks
  OBVIOUS
<1>2. Queued(Head(queue_))
  BY <1>1 DEF Queued
<1>3. \A i, j \in 1 .. Len(queue_) : queue_[i] = queue_[j] => i = j
  BY <1>1 DEF Distinct
<1>4. ASSUME NEW x \in Tasks, Queued(x)' PROVE Queued(x) /\ x # Head(queue_)
  <2>1. PICK i \in 1 .. Len(queue_) - 1 : queue_[i + 1] = x
    BY <1>1, <1>4 DEF Queued
  <2>2. i + 1 \in 1 .. Len(queue_) /\ i + 1 # 1 /\ 1 \in 1 .. Len(queue_)
    BY <1>1
  <2> QED
    BY <1>1, <1>3, <2>1, <2>2 DEF Queued
<1>5. ASSUME NEW x \in Tasks, Queued(x), x # Head(queue_) PROVE Queued(x)'
  <2>1. PICK i \in 1 .. Len(queue_) : queue_[i] = x
    BY <1>1, <1>5 DEF Queued
  <2>2. i - 1 \in 1 .. Len(queue_) - 1 /\ (i - 1) + 1 = i
    BY <1>1, <1>5, <2>1
  <2>3. queue_'[i - 1] = x
    BY <1>1, <2>1, <2>2
  <2> QED
    BY <1>1, <2>2, <2>3 DEF Queued
<1>6. Distinct(queue_')
  <2> SUFFICES ASSUME NEW i \in 1 .. Len(queue_) - 1, NEW j \in 1 .. Len(queue_) - 1,
                      queue_'[i] = queue_'[j]
               PROVE  i = j
    BY <1>1 DEF Distinct
  <2>1. i + 1 \in 1 .. Len(queue_) /\ j + 1 \in 1 .. Len(queue_)
    BY <1>1
  <2>2. i + 1 = j + 1
    BY <1>1, <1>3, <2>1
  <2> QED
    BY <2>2
<1> QED
  BY <1>1, <1>2, <1>4, <1>5, <1>6 DEF Distinct

(* However a connection is passed on, it has one owner while it is open. *)
LEMMA OwnerStep ==
    ASSUME ServerTypeOK, OwnerInv, Passes
    PROVE  OwnerInv'
<1>t. queue_ \in Seq(Tasks) /\ sock \in [Tasks -> {"away", "open", "closed", "leaked"}]
  BY DEF ServerTypeOK, QueueTypeOK
<1>o. OwnerInv
  OBVIOUS
<1>1. CASE Keeps
  <2>1. \A x \in Tasks : Queued(x)' <=> Queued(x)
    BY <1>1 DEF Keeps, Queued
  <2> QED
    BY <1>1, <1>o, <2>1 DEF Keeps, OwnerInv, Distinct
<1>2. ASSUME NEW p \in Threads, NEW c \in Tasks, Opens(p, c) PROVE OwnerInv'
  <2>1. /\ \A x \in Tasks : Queued(x)' <=> Queued(x)
        /\ Distinct(queue_)'
    BY <1>2, <1>o DEF Opens, Queued, OwnerInv, Distinct
  <2>2. /\ \A x \in Tasks : sock'[x] = "open" <=> sock[x] = "open" \/ x = c
        /\ sock[c] # "open"
    BY <1>2, <1>t DEF Opens
  <2> QED
    BY <1>2, <1>o, <2>1, <2>2 DEF Opens, OwnerInv
<1>3. ASSUME NEW p \in Threads, NEW c \in Tasks, Closes(p, c) PROVE OwnerInv'
  <2>1. /\ \A x \in Tasks : Queued(x)' <=> Queued(x)
        /\ Distinct(queue_)'
    BY <1>3, <1>o DEF Closes, Queued, OwnerInv, Distinct
  <2>2. \A x \in Tasks : sock'[x] = "open" <=> sock[x] = "open" /\ x # c
    BY <1>3, <1>t DEF Closes
  <2>3. Held(p, c) /\ ~Queued(c) /\ \A q \in Threads : Held(q, c) => q = p
    BY <1>3, <1>o DEF Closes, OwnerInv
  <2> QED
    BY <1>3, <1>o, <2>1, <2>2, <2>3 DEF Closes, OwnerInv
<1>4. ASSUME NEW p \in Threads, NEW c \in Tasks, Puts(p, c) PROVE OwnerInv'
  <2>1. Held(p, c) /\ sock[c] = "open" /\ ~Queued(c) /\ \A q \in Threads : Held(q, c) => q = p
    BY <1>4, <1>o DEF Puts, OwnerInv
  <2>2. Distinct(queue_)' /\ \A x \in Tasks : Queued(x)' <=> Queued(x) \/ x = c
    BY <1>4, <1>o, <1>t, <2>1, QueueGrows DEF Puts, OwnerInv
  <2> QED
    BY <1>4, <1>o, <2>1, <2>2 DEF Puts, OwnerInv
<1>5. ASSUME NEW p \in Threads, Takes(p) PROVE OwnerInv'
  <2>1. /\ Head(queue_) \in Tasks /\ Queued(Head(queue_)) /\ Distinct(queue_)'
        /\ \A x \in Tasks : Queued(x)' <=> Queued(x) /\ x # Head(queue_)
    BY <1>5, <1>o, <1>t, QueueShrinks DEF Takes, OwnerInv
  <2>2. PICK c \in Tasks : c = Head(queue_)
    BY <2>1
  <2>3. /\ sock[c] = "open" /\ \A q \in Threads : ~Held(q, c)
        /\ \A q \in Threads, x \in Tasks : Held(q, x)' <=> Held(q, x) \/ (q = p /\ x = c)
        /\ \A x \in Tasks : Queued(x)' <=> Queued(x) /\ x # c
        /\ sock' = sock
    BY <1>5, <1>o, <2>1, <2>2 DEF OwnerInv, Takes
  <2> QED
    BY <1>o, <2>1, <2>3 DEF OwnerInv
<1> QED
  BY <1>1, <1>2, <1>3, <1>4, <1>5 DEF Passes

-----------------------------------------------------------------------------
(* The end of the workers. *)

(* In a queue that is shut down and empty nothing happens any more. *)
LEMMA QueueStaysShut ==
    ASSUME [QueueNext]_queueVars, shutdown_, queue_ = <<>>
    PROVE  shutdown_' /\ queue_' = <<>>
BY DEF QueueNext, Called, push, pop, shutdown, QueueStep, PushWait, PushRefused, PushAccepted,
   PushNotify, PopWait, PopRefused, PopTaken, PopNotify, ShutdownNotEmpty, ShutdownNotFull,
   Spurious, Return, queueVars

(* Every step keeps what is known of the workers that ended and were       *)
(* joined.                                                                 *)
LEMMA DrainedStep ==
    ASSUME ServerTypeOK, Control, Drained, [ServerNext]_allVars
    PROVE  Drained'
<1>t. /\ Main \in Threads /\ Handler \in Threads /\ Main # Handler
      /\ \A w \in Workers : w \in Threads /\ w # Main /\ w # Handler
      /\ at \in [Threads -> Labels]
      /\ worker \in [Workers -> {"pop", "loop", "recv", "end", "exit"}]
      /\ joined \subseteq Workers
  BY ServerAssumption DEF ServerTypeOK, QueueTypeOK, Labels
<1>c. Control /\ Drained
  OBVIOUS
<1>q. shutdown_ /\ queue_ = <<>> => shutdown_' /\ queue_' = <<>>
  BY ServerQueueStep, QueueStaysShut
<1>1. ASSUME NEW w \in Workers, worker'[w] = "exit" \/ at'[w] = "false"
      PROVE  shutdown_' /\ queue_' = <<>>
  <2>1. CASE worker[w] = "exit" \/ at[w] = "false"
    BY <1>c, <1>q, <2>1 DEF Drained
  <2>2. CASE PopRefused(w)
    BY <1>q, <2>2 DEF PopRefused
  <2>3. CASE worker[w] # "exit" /\ at[w] # "false" /\ ~PopRefused(w)
    <3>1. ASSUME NEW p \in Threads, InQueue(p) PROVE FALSE
      <4>1. worker' = worker /\ at'[w] = "false"
        BY <1>1, <2>3, <3>1 DEF InQueue, serverVars
      <4>2. CASE PushRefused(p)
        <5>1. p = Main
          BY <1>t, <1>c, <4>2, ServerAssumption DEF PushRefused, Control
        <5> QED
          BY <1>t, <2>3, <4>1, <4>2, <5>1 DEF PushRefused, Go
      <4>3. CASE PopRefused(p)
        BY <1>t, <2>3, <4>1, <4>3 DEF PopRefused, Go
      <4>4. CASE ~PushRefused(p) /\ ~PopRefused(p)
        BY <1>t, <2>3, <3>1, <4>1, <4>4 DEF InQueue, QueueStep, Spurious, PushWait, PushAccepted,
           PushNotify, PopWait, PopTaken, PopNotify, ShutdownNotEmpty, ShutdownNotFull, Go,
           notify_one, notify_all, At, Where
      <4> QED
        BY <4>2, <4>3, <4>4
    <3>2. ASSUME NEW v \in Workers, WorkerStep(v) \/ Client(v) PROVE FALSE
      <4>1. \A u \in Workers : u # v => worker'[u] = worker[u] /\ at'[u] = at[u]
        BY <1>t, <3>2 DEF WorkerStep, Client, WorkerPop, WorkerPopped, ServeLoop, ServeEnd,
           ServeRequest, ClientLeaves, ServeThrows, WorkerTo, pop, Return, Go, queueVars
      <4>2. v = w
        BY <1>1, <2>3, <4>1
      <4> QED
        BY <1>t, <1>c, <1>1, <2>3, <3>2, <4>2 DEF WorkerStep, Client, WorkerPop, WorkerPopped,
           ServeLoop, ServeEnd, ServeRequest, ClientLeaves, ServeThrows, WorkerTo, pop, Return,
           Go, queueVars, Control
    <3>3. ASSUME MainStep PROVE FALSE
      BY <1>t, <1>1, <2>3, <3>3 DEF MainStep, Start, TestRunning, AcceptFails, Pushed, Accept,
         PoolShutdown, PoolCas, PoolShutQueue, PoolQueueShut, PoolJoin, PoolJoined, Destroy,
         DestroyThreads, Exit, push, Return, shutdown, Go, queueVars
    <3>4. ASSUME Signal \/ HandlerStep PROVE FALSE
      BY <1>t, <1>1, <2>3, <3>4 DEF Signal, HandlerStep, stop, StopListening, StopPool,
         Stopped, LateAccess, PoolShutdown, PoolCas, PoolShutQueue, PoolQueueShut, PoolJoin,
         PoolJoined, Return, shutdown, Go, queueVars
    <3>5. ASSUME UNCHANGED allVars PROVE FALSE
      BY <1>1, <2>3, <3>5 DEF allVars, queueVars, serverVars
    <3> QED
      BY <3>1, <3>2, <3>3, <3>4, <3>5 DEF ServerNext, Ended
  <2> QED
    BY <2>1, <2>2, <2>3
<1>2. ASSUME NEW w \in joined' PROVE worker'[w] = "exit"
  <2>1. joined' = joined \/ \E v \in Workers : worker[v] = "exit" /\ joined' = joined \cup {v}
    BY DEF ServerNext, MainStep, Start, TestRunning, AcceptFails, Pushed, Accept,
       PoolShutdown, PoolCas, PoolShutQueue, PoolQueueShut, PoolJoin, PoolJoined, Destroy,
       DestroyThreads, Exit, Signal, HandlerStep, stop, StopListening, StopPool, Stopped,
       LateAccess, WorkerStep, Client, WorkerPop, WorkerPopped, ServeLoop, ServeEnd,
       ServeRequest, ClientLeaves, ServeThrows, OnlyWorkers, InQueue, Ended, allVars, serverVars
  <2>2. w \in Workers /\ worker[w] = "exit"
    BY <1>2, <1>c, <1>t, <2>1 DEF Drained
  <2>3. at[w] = "idle"
    BY <1>c, <2>2 DEF Control
  <2>4. ASSUME NEW v \in Workers, WorkerStep(v) \/ Client(v) PROVE worker'[w] = worker[w]
    BY <1>t, <2>2, <2>3, <2>4 DEF WorkerStep, Client, WorkerPop, WorkerPopped, ServeLoop,
       ServeEnd, ServeRequest, ClientLeaves, ServeThrows, WorkerTo, Return
  <2>5. (~\E v \in Workers : WorkerStep(v) \/ Client(v)) => worker' = worker
    BY DEF ServerNext, MainStep, Start, TestRunning, AcceptFails, Pushed, Accept,
       PoolShutdown, PoolCas, PoolShutQueue, PoolQueueShut, PoolJoin, PoolJoined, Destroy,
       DestroyThreads, Exit, Signal, HandlerStep, stop, StopListening, StopPool, Stopped,
       LateAccess, InQueue, Ended, allVars, serverVars
  <2> QED
    BY <2>2, <2>4, <2>5
<1>3. /\ main' = "freed" /\ outcome' \in {"up", "exit"} => joined' = Workers
      /\ outcome' = "exit" => main' = "freed"
  <2>0. Up \/ outcome' = outcome
    BY DEF ServerNext, Ended, allVars, serverVars
  <2>1. CASE DestroyThreads \/ Exit
    BY <1>c, <2>0, <2>1 DEF DestroyThreads, Exit, Drained, Up
  <2>2. CASE ~DestroyThreads /\ ~Exit
    <3>1. /\ main' = "freed" <=> main = "freed"
          /\ outcome' \in {"up", "exit"} => outcome' = outcome
      BY <2>2 DEF ServerNext, MainStep, Start, TestRunning, AcceptFails, Pushed, Accept,
         PoolShutdown, PoolCas, PoolShutQueue, PoolQueueShut, PoolJoin, PoolJoined, Destroy,
         Signal, HandlerStep, stop, StopListening, StopPool, Stopped,
         LateAccess, WorkerStep, Client, WorkerPop, WorkerPopped, ServeLoop, ServeEnd,
         ServeRequest, ClientLeaves, ServeThrows, OnlyWorkers, InQueue, Ended, allVars,
         serverVars
    <3>2. joined = Workers => joined' = Workers
      BY <2>2, <1>t DEF ServerNext, MainStep, Start, TestRunning, AcceptFails, Pushed, Accept,
         PoolShutdown, PoolCas, PoolShutQueue, PoolQueueShut, PoolJoin, PoolJoined, Destroy,
         Signal, HandlerStep, stop, StopListening, StopPool, Stopped,
         LateAccess, WorkerStep, Client, WorkerPop, WorkerPopped, ServeLoop, ServeEnd,
         ServeRequest, ClientLeaves, ServeThrows, OnlyWorkers, InQueue, Ended, allVars,
         serverVars
    <3> QED
      BY <1>c, <3>1, <3>2 DEF Drained
  <2> QED
    BY <2>1, <2>2
<1> QED
  BY <1>1, <1>2, <1>3 DEF Drained

-----------------------------------------------------------------------------
(* The inductive invariant of the server's lifecycle. *)
THEOREM ServerInvariant == ServerSpec => []ServerInv
<1>1. ServerInit => ServerInv
  <2> SUFFICES ASSUME ServerInit PROVE ServerInv
    OBVIOUS
  <2>t. /\ Main \in Threads /\ Handler \in Threads /\ Main \in Stoppers /\ Handler \in Stoppers
        /\ \A w \in Workers : w \in Threads
    BY ServerAssumption DEF Stoppers
  <2>0. <<>> \in Seq(Tasks)
    OBVIOUS
  <2>1. QueueTypeOK
    BY <2>0 DEF ServerInit, QueueInit, QueueTypeOK
  <2>2. ServerTypeOK
    BY <2>1 DEF ServerInit, ServerTypeOK
  <2>3. Control
    BY <2>t DEF ServerInit, QueueInit, Control
  <2>4. OwnerInv
    <3>1. /\ \A x : ~Queued(x)
          /\ Distinct(queue_)
      BY DEF ServerInit, QueueInit, Queued, Distinct
    <3>2. \A p \in Threads, c \in Tasks : ~Held(p, c)
      BY <2>t DEF ServerInit, QueueInit, Held
    <3> QED
      BY <3>1, <3>2 DEF ServerInit, OwnerInv
  <2>5. Drained
    BY <2>t DEF ServerInit, QueueInit, Drained
  <2> QED
    BY <2>2, <2>3, <2>4, <2>5 DEF ServerInv
<1>2. ASSUME ServerInv, [ServerNext]_allVars PROVE ServerInv'
  BY <1>2, ServerTypeStep, ControlStep, ServerPasses, OwnerStep, DrainedStep DEF ServerInv
<1>3. ServerInv /\ [ServerNext]_allVars => ServerInv'
  BY <1>2
<1> QED
  BY <1>1, <1>3, PTL DEF ServerSpec

(* Type correctness of the server and its queue. *)
THEOREM ServerTypeCorrect == ServerSpec => []ServerTypeOK
<1>1. ServerInv => ServerTypeOK
  BY DEF ServerInv
<1> QED
  BY <1>1, ServerInvariant, PTL

(* Every accepted connection is with the accept loop, in one place of the  *)
(* queue or with one worker until it is closed: a shutdown at any moment   *)
(* forgets none, and none is served twice.                                 *)
THEOREM ConnectionsOwned == ServerSpec => []OneOwner
<1>1. ASSUME ServerInv, NEW c \in Tasks
      PROVE  Cardinality({p \in Threads : Held(p, c)})
               + Cardinality({i \in DOMAIN queue_ : queue_[i] = c})
             = IF sock[c] = "open" THEN 1 ELSE 0
  <2> DEFINE H == {p \in Threads : Held(p, c)}
             Q == {i \in DOMAIN queue_ : queue_[i] = c}
  <2>o. OwnerInv
    BY <1>1 DEF ServerInv
  <2>0. Cardinality({}) = 0 /\ \A x : Cardinality({x}) = 1
    BY FS_EmptySet, FS_Singleton
  <2>1. CASE sock[c] # "open"
    <3>1. H = {} /\ Q = {}
      BY <2>1, <2>o DEF OwnerInv, Queued
    <3> QED
      BY <2>0, <2>1, <3>1
  <2>2. CASE \E p \in Threads : Held(p, c)
    <3>1. PICK p \in Threads : Held(p, c)
      BY <2>2
    <3>2. H = {p} /\ Q = {} /\ sock[c] = "open"
      BY <3>1, <2>o DEF OwnerInv, Queued
    <3>3. Cardinality(H) = 1 /\ Cardinality(Q) = 0
      BY <2>0, <3>2
    <3> QED
      BY <3>2, <3>3
  <2>3. CASE Queued(c)
    <3>1. PICK i \in DOMAIN queue_ : queue_[i] = c
      BY <2>3 DEF Queued
    <3>2. Q = {i}
      BY <3>1, <2>o DEF OwnerInv, Distinct
    <3>3. H = {} /\ sock[c] = "open"
      BY <2>3, <2>o DEF OwnerInv
    <3>4. Cardinality(H) = 0 /\ Cardinality(Q) = 1
      BY <2>0, <3>2, <3>3
    <3> QED
      BY <3>3, <3>4
  <2> QED
    BY <2>1, <2>2, <2>3, <2>o DEF OwnerInv
<1>2. ServerInv => OneOwner
  BY <1>1 DEF OneOwner
<1> QED
  BY <1>2, ServerInvariant, PTL

(* A process that exits normally has drained the queue, joined every       *)
(* worker and closed every connection it accepted.                         *)
THEOREM ExitsDrained == ServerSpec => []ExitDrained
<1>1. ASSUME ServerInv, outcome = "exit"
      PROVE  /\ queue_ = <<>>
             /\ \A w \in Workers : worker[w] = "exit" /\ w \in joined
             /\ \A c \in Tasks : sock[c] # "open"
  <2>1. /\ joined = Workers /\ main = "freed"
        /\ \A w \in Workers : worker[w] = "exit" /\ w \in joined
    BY <1>1 DEF ServerInv, Drained
  <2>2. queue_ = <<>>
    BY <1>1, <2>1, ServerAssumption DEF ServerInv, Drained
  <2>3. /\ at[Main] = "idle" /\ \A w \in Workers : at[w] = "idle"
    BY <1>1, <2>1 DEF ServerInv, Control
  <2>4. \A p \in Threads, c \in Tasks : ~Held(p, c)
    BY <2>1, <2>3 DEF Held
  <2>5. \A c \in Tasks : ~Queued(c)
    BY <2>2 DEF Queued
  <2> QED
    BY <1>1, <2>1, <2>2, <2>4, <2>5 DEF ServerInv, OwnerInv
<1>2. ServerInv => ExitDrained
  BY <1>1 DEF ExitDrained
<1> QED
  BY <1>2, ServerInvariant, PTL
=============================================================================
