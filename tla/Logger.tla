------------------------------- MODULE Logger -------------------------------
(***************************************************************************)
(* The asynchronous logger (src/server/logger.cpp): any thread queues a    *)
(* message, one background thread writes them, and the destructor of the   *)
(* static instance stops that thread when the process exits.               *)
(*                                                                         *)
(* The destructor clears running_ WITHOUT mutex_, so a step that tests the *)
(* wait predicate and a step that goes to sleep are two steps here, with   *)
(* mutex_ held in between; whoever needs mutex_ waits, the destructor does *)
(* not.                                                                    *)
(*                                                                         *)
(* background: "loop" (the while condition, read without mutex_), "lock",  *)
(* "test" (mutex_ held, the predicate), "block" (mutex_ held, about to     *)
(* sleep), "asleep", "take" (mutex_ held), "write", "exit".                *)
(***************************************************************************)
EXTENDS Naturals, Sequences, FiniteSets

CONSTANTS
    Callers,     \* the threads that log
    Messages,    \* what they log, each once
    NoMessage

ASSUME LoggerAssumption == NoMessage \notin Messages

VARIABLES
    queue_,
    running_,
    background,  \* see above
    msg,         \* the message the background thread writes
    caller,      \* caller[p]: "idle", "lock", "push" (mutex_ held), "notify"
    argument,    \* argument[p]: the message p logs
    destructor,  \* "no", "flag", "notify", "join", "done"
    output,      \* what has been written
    logged,      \* history: messages some thread called log with
    promised     \* history: messages queued when the destructor was entered

loggerVars == <<queue_, running_, background, msg, caller, argument, destructor,
                output, logged, promised>>

LoggerInit ==
    /\ queue_ = <<>>
    /\ running_ = TRUE
    /\ background = "loop"
    /\ msg = NoMessage
    /\ caller = [p \in Callers |-> "idle"]
    /\ argument = [p \in Callers |-> NoMessage]
    /\ destructor = "no"
    /\ output = <<>>
    /\ logged = {}
    /\ promised = <<>>

Pushing == {p \in Callers : caller[p] = "push"}

\* mutex_ is free for another thread.
Unlocked == background \notin {"test", "block", "take"} /\ Pushing = {}

Wake == IF background = "asleep" THEN "lock" ELSE background

-----------------------------------------------------------------------------
(* log *)

CallerTo(p, label) == caller' = [caller EXCEPT ![p] = label]

\* Bug variant: the message is lost before it is queued.
LogForgets(p, m) ==
    /\ caller[p] = "idle" /\ m \notin logged
    /\ logged' = logged \cup {m}
    /\ CallerTo(p, "lock")
    /\ UNCHANGED <<queue_, running_, background, msg, argument, destructor,
                   output, promised>>

log(p, m) ==
    /\ caller[p] = "idle" /\ m \notin logged
    /\ logged' = logged \cup {m}
    /\ argument' = [argument EXCEPT ![p] = m]
    /\ CallerTo(p, "lock")
    /\ UNCHANGED <<queue_, running_, background, msg, destructor, output, promised>>

LogLock(p) ==
    /\ caller[p] = "lock" /\ Unlocked
    /\ CallerTo(p, "push")
    /\ UNCHANGED <<queue_, running_, background, msg, argument, destructor,
                   output, logged, promised>>

LogPush(p) ==
    /\ caller[p] = "push"
    /\ queue_' = Append(queue_, argument[p])
    /\ CallerTo(p, "notify")
    /\ UNCHANGED <<running_, background, msg, argument, destructor, output,
                   logged, promised>>

\* Bug variant: nobody is notified.
LogQuietly(p) ==
    /\ caller[p] = "notify"
    /\ CallerTo(p, "idle")
    /\ UNCHANGED <<queue_, running_, background, msg, argument, destructor,
                   output, logged, promised>>

LogNotify(p) ==
    /\ caller[p] = "notify"
    /\ background' = Wake
    /\ CallerTo(p, "idle")
    /\ UNCHANGED <<queue_, running_, msg, argument, destructor, output, logged,
                   promised>>

-----------------------------------------------------------------------------
(* process_queue *)

BackgroundTo(label) ==
    /\ background' = label
    /\ UNCHANGED <<queue_, running_, msg, caller, argument, destructor, output,
                   logged, promised>>

\* Bug variant: what is still queued at the end is dropped.
LoopTestDrops ==
    /\ background = "loop"
    /\ BackgroundTo(IF running_ THEN "lock" ELSE "exit")

\* queue_.empty() is read without mutex_: while another thread pushes the first
\* message the new end of the queue may or may not be visible.
LoopTest ==
    /\ background = "loop"
    /\ \/ /\ running_ \/ queue_ # <<>> \/ Pushing # {}
          /\ BackgroundTo("lock")
       \/ /\ ~running_
          /\ queue_ = <<>>
          /\ BackgroundTo("exit")

Lock == background = "lock" /\ Pushing = {} /\ BackgroundTo("test")

WaitTest ==
    /\ background = "test"
    /\ BackgroundTo(IF queue_ # <<>> \/ ~running_ THEN "take" ELSE "block")

\* The wait releases mutex_ and sleeps; it may also wake up for no reason.
Block == background = "block" /\ BackgroundTo("asleep")
Spurious == background = "asleep" /\ BackgroundTo("lock")

TakeNothing ==
    /\ background = "take"
    /\ ~running_ /\ queue_ = <<>>
    /\ BackgroundTo("exit")

\* Bug variant: the message stays in the queue.
TakeKeeps ==
    /\ background = "take"
    /\ queue_ # <<>>
    /\ msg' = Head(queue_)
    /\ background' = "write"
    /\ UNCHANGED <<queue_, running_, caller, argument, destructor, output, logged, promised>>

Take ==
    /\ background = "take"
    /\ queue_ # <<>>
    /\ msg' = Head(queue_)
    /\ queue_' = Tail(queue_)
    /\ background' = "write"
    /\ UNCHANGED <<running_, caller, argument, destructor, output, logged, promised>>

Write ==
    /\ background = "write"
    /\ output' = Append(output, msg)
    /\ background' = "loop"
    /\ UNCHANGED <<queue_, running_, msg, caller, argument, destructor, logged, promised>>

-----------------------------------------------------------------------------
(* ~Logger *)

Destroy ==
    /\ destructor = "no"
    /\ destructor' = "flag"
    /\ promised' = queue_
    /\ UNCHANGED <<queue_, running_, background, msg, caller, argument, output, logged>>

ClearRunning ==
    /\ destructor = "flag"
    /\ running_' = FALSE
    /\ destructor' = "notify"
    /\ UNCHANGED <<queue_, background, msg, caller, argument, output, logged, promised>>

DestructorNotify ==
    /\ destructor = "notify"
    /\ background' = Wake
    /\ destructor' = "join"
    /\ UNCHANGED <<queue_, running_, msg, caller, argument, output, logged, promised>>

Join ==
    /\ destructor = "join" /\ background = "exit"
    /\ destructor' = "done"
    /\ UNCHANGED <<queue_, running_, background, msg, caller, argument, output,
                   logged, promised>>

-----------------------------------------------------------------------------
LogStep(p) == LogLock(p) \/ LogPush(p) \/ LogNotify(p)

BackgroundStep ==
    LoopTest \/ Lock \/ WaitTest \/ Block \/ TakeNothing \/ Take \/ Write

DestructorStep == ClearRunning \/ DestructorNotify \/ Join

\* The instance is gone: the process is over.
Gone == destructor = "done" /\ UNCHANGED loggerVars

LoggerNext ==
    \/ /\ destructor # "done"
       /\ \/ \E p \in Callers : LogStep(p) \/ \E m \in Messages : log(p, m)
          \/ BackgroundStep \/ Spurious \/ Destroy \/ DestructorStep
    \/ Gone

LoggerSpec == LoggerInit /\ [][LoggerNext]_loggerVars

\* Every thread is scheduled and gets mutex_ if it becomes free often enough;
\* nobody can rely on a spurious wakeup.
LoggerFairSpec ==
    /\ LoggerSpec
    /\ WF_loggerVars(BackgroundStep) /\ SF_loggerVars(Lock)
    /\ WF_loggerVars(DestructorStep)
    /\ \A p \in Callers : SF_loggerVars(LogStep(p))

-----------------------------------------------------------------------------
(* Type invariant: the queue, the two threads' control and the output. *)
LoggerTypeOK ==
    /\ {queue_, output, promised} \subseteq Seq(Messages)
    /\ running_ \in BOOLEAN
    /\ background \in {"loop", "lock", "test", "block", "asleep", "take", "write", "exit"}
    /\ msg \in Messages \cup {NoMessage}
    /\ caller \in [Callers -> {"idle", "lock", "push", "notify"}]
    /\ argument \in [Callers -> Messages \cup {NoMessage}]
    /\ destructor \in {"no", "flag", "notify", "join", "done"}
    /\ logged \subseteq Messages

Written(m) == \E i \in DOMAIN output : output[i] = m

(***************************************************************************)
(* README, Graceful Shutdown: the logging queue is flushed.  When the      *)
(* destructor returns, everything that was queued when it was entered has  *)
(* been written, whoever logs while it runs.                               *)
(***************************************************************************)
LogFlushed ==
    destructor = "done" => \A i \in DOMAIN promised : Written(promised[i])

(***************************************************************************)
(* No message is written twice, or both written and still queued.          *)
(***************************************************************************)
WrittenOnce ==
    LET all == output \o (IF background = "write" THEN <<msg>> ELSE <<>>) \o queue_
    IN  \A i, j \in DOMAIN all : all[i] = all[j] => i = j

(***************************************************************************)
(* As long as the process runs every message is written: the notification, *)
(* sent after mutex_ is released, is not lost.                             *)
(***************************************************************************)
EventuallyWritten ==
    \A m \in Messages : m \in logged /\ destructor = "no"
                          ~> Written(m) \/ destructor # "no"

(***************************************************************************)
(* README, Graceful Shutdown: the destructor returns and the process can   *)
(* exit.                                                                   *)
(***************************************************************************)
DestructorReturns == destructor = "flag" ~> destructor = "done"
=============================================================================
