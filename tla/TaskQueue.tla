----------------------------- MODULE TaskQueue -----------------------------
(***************************************************************************)
(* The bounded producer/consumer queue between the accept loop and the     *)
(* worker threads (src/server/task_queue.cpp, class TaskQueue).            *)
(*                                                                         *)
(* What a thread does while it holds mutex_ is one step, from acquiring    *)
(* the mutex to releasing it or to waiting on a condition variable, which  *)
(* releases it.  The notifications are sent after the mutex is released    *)
(* and are steps of their own: any thread may run in between.              *)
(*                                                                         *)
(* at[p] is where thread p is:                                             *)
(*   "idle"                   not in a call of the queue                   *)
(*   "push", "pop"            about to lock mutex_ and test the predicate  *)
(*   "not_full", "not_empty"  asleep on that condition variable            *)
(*   "pushed", "popped"       mutex_ released, notify_one to be called     *)
(*   "shut_empty", "shut_full"  in shutdown(), before notify_all of        *)
(*                            not_empty_, of not_full_                     *)
(*   "true", "false"          the call has returned that                   *)
(***************************************************************************)
EXTENDS Naturals, Sequences, FiniteSets

CONSTANTS
    Threads,     \* the threads that use the queue
    Tasks,       \* what is queued
    NoTask,
    max_size_    \* capacity; 0 means unbounded

ASSUME QueueAssumption ==
    /\ IsFiniteSet(Threads)
    /\ max_size_ \in Nat
    /\ NoTask \notin Tasks

VARIABLES
    queue_,
    shutdown_,
    at,          \* see above
    task         \* task[p]: the argument of push, the result of pop

queueVars == <<queue_, shutdown_, at, task>>

QueueInit ==
    /\ queue_ = <<>>
    /\ shutdown_ = FALSE
    /\ at = [p \in Threads |-> "idle"]
    /\ task = [p \in Threads |-> NoTask]

Where(f, label) == {p \in Threads : f[p] = label}
At(label) == Where(at, label)

Go(p, label) == at' = [at EXCEPT ![p] = label]

\* notify_one: wakes one of the sleepers, if there is one.
notify_one(p, sleep, wake, label) ==
    \/ /\ At(sleep) = {}
       /\ Go(p, label)
    \/ \E q \in At(sleep) : at' = [at EXCEPT ![p] = label, ![q] = wake]

notify_all(p, sleep, wake, label) ==
    at' = [q \in Threads |-> IF q = p THEN label
                             ELSE IF at[q] = sleep THEN wake ELSE at[q]]

-----------------------------------------------------------------------------
(* push *)

push(p, x) ==
    /\ at[p] = "idle"
    /\ Go(p, "push")
    /\ task' = [task EXCEPT ![p] = x]
    /\ UNCHANGED <<queue_, shutdown_>>

\* Bug variant: one task too many.
HasRoomForOneMore == max_size_ = 0 \/ Len(queue_) <= max_size_

HasRoom == max_size_ = 0 \/ Len(queue_) < max_size_

PushWait(p) ==
    /\ at[p] = "push"
    /\ ~shutdown_ /\ ~HasRoom
    /\ Go(p, "not_full")
    /\ UNCHANGED <<queue_, shutdown_, task>>

PushRefused(p) ==
    /\ at[p] = "push"
    /\ shutdown_
    /\ Go(p, "false")
    /\ UNCHANGED <<queue_, shutdown_, task>>

PushAccepted(p) ==
    /\ at[p] = "push"
    /\ ~shutdown_ /\ HasRoom
    /\ queue_' = Append(queue_, task[p])
    /\ Go(p, "pushed")
    /\ UNCHANGED <<shutdown_, task>>

\* Bug variant: a push never notifies.
PushQuietly(p) ==
    /\ at[p] = "pushed"
    /\ Go(p, "true")
    /\ UNCHANGED <<queue_, shutdown_, task>>

PushNotify(p) ==
    /\ at[p] = "pushed"
    /\ notify_one(p, "not_empty", "pop", "true")
    /\ UNCHANGED <<queue_, shutdown_, task>>

-----------------------------------------------------------------------------
(* pop *)

pop(p) ==
    /\ at[p] = "idle"
    /\ Go(p, "pop")
    /\ task' = [task EXCEPT ![p] = NoTask]
    /\ UNCHANGED <<queue_, shutdown_>>

PopWait(p) ==
    /\ at[p] = "pop"
    /\ ~shutdown_ /\ queue_ = <<>>
    /\ Go(p, "not_empty")
    /\ UNCHANGED <<queue_, shutdown_, task>>

\* Bug variant: shutdown discards what is queued.
PopRefusedEarly(p) ==
    /\ at[p] = "pop"
    /\ shutdown_
    /\ Go(p, "false")
    /\ UNCHANGED <<queue_, shutdown_, task>>

PopRefused(p) ==
    /\ at[p] = "pop"
    /\ shutdown_ /\ queue_ = <<>>
    /\ Go(p, "false")
    /\ UNCHANGED <<queue_, shutdown_, task>>

PopTaken(p) ==
    /\ at[p] = "pop"
    /\ queue_ # <<>>
    /\ task' = [task EXCEPT ![p] = Head(queue_)]
    /\ queue_' = Tail(queue_)
    /\ Go(p, "popped")
    /\ UNCHANGED shutdown_

PopNotify(p) ==
    /\ at[p] = "popped"
    /\ notify_one(p, "not_full", "push", "true")
    /\ UNCHANGED <<queue_, shutdown_, task>>

-----------------------------------------------------------------------------
(* shutdown *)

shutdown(p) ==
    /\ at[p] = "idle"
    /\ shutdown_' = TRUE
    /\ Go(p, "shut_empty")
    /\ UNCHANGED <<queue_, task>>

\* Bug variant: the sleeping consumers are not notified.
ShutdownSkipsNotEmpty(p) ==
    /\ at[p] = "shut_empty"
    /\ Go(p, "shut_full")
    /\ UNCHANGED <<queue_, shutdown_, task>>

ShutdownNotEmpty(p) ==
    /\ at[p] = "shut_empty"
    /\ notify_all(p, "not_empty", "pop", "shut_full")
    /\ UNCHANGED <<queue_, shutdown_, task>>

\* Bug variant: the sleeping producers are not notified.
ShutdownSkipsNotFull(p) ==
    /\ at[p] = "shut_full"
    /\ Go(p, "true")
    /\ UNCHANGED <<queue_, shutdown_, task>>

ShutdownNotFull(p) ==
    /\ at[p] = "shut_full"
    /\ notify_all(p, "not_full", "push", "true")
    /\ UNCHANGED <<queue_, shutdown_, task>>

-----------------------------------------------------------------------------
\* A condition variable may wake a thread nobody notified.
Spurious(p) ==
    /\ \/ at[p] = "not_empty" /\ Go(p, "pop")
       \/ at[p] = "not_full" /\ Go(p, "push")
    /\ UNCHANGED <<queue_, shutdown_, task>>

\* The caller has the result.
Return(p) ==
    /\ at[p] \in {"true", "false"}
    /\ Go(p, "idle")
    /\ UNCHANGED <<queue_, shutdown_, task>>

QueueStep(p) ==
    \/ PushWait(p) \/ PushRefused(p) \/ PushAccepted(p) \/ PushNotify(p)
    \/ PopWait(p) \/ PopRefused(p) \/ PopTaken(p) \/ PopNotify(p)
    \/ ShutdownNotEmpty(p) \/ ShutdownNotFull(p)

Called(p) ==
    \/ \E x \in Tasks : push(p, x)
    \/ pop(p)
    \/ shutdown(p)

QueueNext ==
    \E p \in Threads : Called(p) \/ QueueStep(p) \/ Spurious(p) \/ Return(p)

QueueSpec == QueueInit /\ [][QueueNext]_queueVars

-----------------------------------------------------------------------------
(* Type invariant: the queue and where each thread is. *)
QueueTypeOK ==
    /\ queue_ \in Seq(Tasks)
    /\ shutdown_ \in BOOLEAN
    /\ at \in [Threads -> {"idle", "push", "pop", "not_full", "not_empty",
                           "pushed", "popped", "shut_empty", "shut_full",
                           "true", "false"}]
    /\ task \in [Threads -> Tasks \cup {NoTask}]
    /\ \A p \in Threads : at[p] \in {"push", "not_full"} => task[p] \in Tasks

(***************************************************************************)
(* Bounded backpressure (README): however many threads push, the queue     *)
(* never holds more than max_size_ tasks.                                  *)
(***************************************************************************)
QueueBounded == max_size_ # 0 => Len(queue_) <= max_size_

(***************************************************************************)
(* No wakeup is lost, although push and pop notify after they released the *)
(* mutex: when a thread sleeps, either it is right to, or somebody is on   *)
(* the way to the work it sleeps through, or will wake it.                 *)
(***************************************************************************)
NoLostWakeup ==
    /\ At("not_empty") # {} =>
         \/ queue_ = <<>> /\ ~shutdown_
         \/ At("pop") \cup At("pushed") \cup At("shut_empty") # {}
    /\ At("not_full") # {} =>
         \/ ~HasRoom /\ ~shutdown_
         \/ At("push") \cup At("popped") \cup At("shut_empty")
              \cup At("shut_full") # {}

(* The parts of the inductive invariant. *)

\* Every queued task has a consumer awake or a notification on the way.
EmptySleepers ==
    At("not_empty") # {} =>
        /\ Len(queue_) <= Cardinality(At("pop")) + Cardinality(At("pushed"))
        /\ shutdown_ => At("shut_empty") # {}

\* Every free slot has a producer awake or a notification on the way.
FullSleepers ==
    At("not_full") # {} =>
        /\ max_size_ # 0
        /\ \/ max_size_ <= Len(queue_) + Cardinality(At("push"))
                                       + Cardinality(At("popped"))
           \/ shutdown_
        /\ shutdown_ => At("shut_empty") \cup At("shut_full") # {}

(***************************************************************************)
(* The inductive invariant: as many threads are awake or about to be       *)
(* notified as there are tasks to take and slots to fill.                  *)
(***************************************************************************)
QueueInv ==
    /\ QueueTypeOK
    /\ QueueBounded
    /\ EmptySleepers
    /\ FullSleepers
=============================================================================
