---------------------------- MODULE LoggerProofs ----------------------------
(***************************************************************************)
(* Proofs about the logger, for any number of threads and messages.  The   *)
(* argument looks at one sequence, Pipeline: what has been written, the    *)
(* message being written, and what is queued.  The background thread moves *)
(* messages along it and changes neither its elements nor their order; log *)
(* appends a message that is not in it yet.                                *)
(***************************************************************************)
EXTENDS Logger, SequenceTheorems, TLAPS

InHand == IF background = "write" THEN <<msg>> ELSE <<>>
Pipeline == output \o InHand \o queue_

Among(m, s) == \E i \in DOMAIN s : s[i] = m
Distinct(s) == \A i, j \in DOMAIN s : s[i] = s[j] => i = j

\* p has called log and not queued its message yet.
Pending(p) == caller[p] \in {"lock", "push"}

\* The messages on their way to the queue are new, each of one thread.
Arguments ==
    \A p \in Callers : Pending(p) =>
        /\ argument[p] \in logged
        /\ ~Among(argument[p], Pipeline)
        /\ \A q \in Callers : Pending(q) /\ argument[q] = argument[p] => q = p

\* The destructor clears running_, and only then does the background thread
\* end, having written all that was queued.
Ending ==
    /\ destructor \in {"no", "flag"} => running_
    /\ background = "exit" =>
         ~running_ /\ \A i \in DOMAIN promised : Written(promised[i])
    /\ destructor = "done" => background = "exit"

LoggerInv ==
    /\ LoggerTypeOK
    /\ background = "write" => msg \in Messages
    /\ Arguments
    /\ \A m : Among(m, Pipeline) => m \in logged
    /\ Distinct(Pipeline)
    /\ \A i \in DOMAIN promised : Among(promised[i], Pipeline)
    /\ Ending

-----------------------------------------------------------------------------
(* Sequences. *)

(* A message appended to a sequence is the one new element of it. *)
LEMMA AppendAmong ==
    ASSUME NEW S, NEW s \in Seq(S), NEW e \in S
    PROVE  \A m : Among(m, Append(s, e)) <=> Among(m, s) \/ m = e
<1>1. /\ DOMAIN s = 1 .. Len(s) /\ Len(s) \in Nat
      /\ DOMAIN Append(s, e) = 1 .. Len(s) + 1
      /\ \A i \in 1 .. Len(s) : Append(s, e)[i] = s[i]
      /\ Append(s, e)[Len(s) + 1] = e
  BY AppendProperties, LenProperties
<1>2. ASSUME NEW m, Among(m, s) PROVE Among(m, Append(s, e))
  BY <1>1, <1>2 DEF Among
<1>3. Among(e, Append(s, e))
  BY <1>1 DEF Among
<1>4. ASSUME NEW m, Among(m, Append(s, e)) PROVE Among(m, s) \/ m = e
  <2>1. PICK i \in 1 .. Len(s) + 1 : Append(s, e)[i] = m
    BY <1>1, <1>4 DEF Among
  <2>2. CASE i = Len(s) + 1
    BY <1>1, <2>1, <2>2
  <2>3. CASE i # Len(s) + 1
    <3>1. i \in 1 .. Len(s)
      BY <1>1, <2>3
    <3> QED
      BY <1>1, <2>1, <3>1 DEF Among
  <2> QED
    BY <2>2, <2>3
<1> QED
  BY <1>2, <1>3, <1>4

(* It keeps the elements distinct if it is not one of them. *)
LEMMA AppendDistinct ==
    ASSUME NEW S, NEW s \in Seq(S), NEW e \in S, Distinct(s), ~Among(e, s)
    PROVE  Distinct(Append(s, e))
<1>1. /\ DOMAIN s = 1 .. Len(s) /\ Len(s) \in Nat
      /\ DOMAIN Append(s, e) = 1 .. Len(s) + 1
      /\ \A i \in 1 .. Len(s) : Append(s, e)[i] = s[i]
      /\ Append(s, e)[Len(s) + 1] = e
  BY AppendProperties, LenProperties
<1>2. \A i \in 1 .. Len(s) + 1 : i \in 1 .. Len(s) \/ i = Len(s) + 1
  BY <1>1
<1>3. \A i, j \in 1 .. Len(s) : s[i] = s[j] => i = j
  BY <1>1 DEF Distinct
<1>4. \A i \in 1 .. Len(s) : s[i] # e
  BY <1>1 DEF Among
<1> QED
  BY <1>1, <1>2, <1>3, <1>4 DEF Distinct

(* The pipeline is a sequence of messages. *)
LEMMA PipelineType ==
    ASSUME LoggerTypeOK, background = "write" => msg \in Messages
    PROVE  /\ InHand \in Seq(Messages) /\ Pipeline \in Seq(Messages)
           /\ queue_ \in Seq(Messages) /\ output \in Seq(Messages)
<1>1. queue_ \in Seq(Messages) /\ output \in Seq(Messages)
  BY DEF LoggerTypeOK
<1>2. InHand \in Seq(Messages)
  BY DEF InHand
<1>3. output \o InHand \in Seq(Messages)
  BY <1>1, <1>2, ConcatProperties
<1> QED
  BY <1>1, <1>2, <1>3, ConcatProperties DEF Pipeline

(* Taking a message from the queue and writing it leave the pipeline as it *)
(* is.                                                                     *)
LEMMA PipelineMoves ==
    ASSUME LoggerInv, Take \/ Write
    PROVE  Pipeline' = Pipeline
<1>0. /\ InHand \in Seq(Messages) /\ queue_ \in Seq(Messages) /\ output \in Seq(Messages)
  BY PipelineType DEF LoggerInv
<1>e. \A s \in Seq(Messages) : s \o <<>> = s /\ <<>> \o s = s
  BY ConcatEmptySeq
<1>1. CASE Take
  <2>1. /\ output' = output /\ queue_ # <<>> /\ queue_' = Tail(queue_)
        /\ InHand = <<>> /\ InHand' = <<Head(queue_)>>
    BY <1>1 DEF Take, InHand
  <2>2. /\ Head(queue_) \in Messages /\ Tail(queue_) \in Seq(Messages)
        /\ <<Head(queue_)>> \in Seq(Messages)
    BY <1>0, <2>1, HeadTailProperties
  <2>3. <<Head(queue_)>> \o Tail(queue_) = queue_
    BY <1>0, <2>1
  <2>4. (output \o <<Head(queue_)>>) \o Tail(queue_) = output \o queue_
    BY <1>0, <2>2, <2>3, ConcatAssociative, SMTT(30)
  <2>5. Pipeline = output \o queue_
    BY <1>0, <1>e, <2>1 DEF Pipeline
  <2> QED
    BY <2>1, <2>4, <2>5 DEF Pipeline
<1>2. CASE Write
  <2>1. /\ output' = Append(output, msg) /\ queue_' = queue_ /\ msg \in Messages
        /\ InHand = <<msg>> /\ InHand' = <<>>
    BY <1>2 DEF Write, InHand, LoggerInv
  <2>2. Append(output, msg) = output \o <<msg>> /\ Append(output, msg) \in Seq(Messages)
    BY <1>0, <2>1, AppendIsConcat, AppendProperties
  <2>3. Append(output, msg) \o <<>> = Append(output, msg)
    BY <1>e, <2>2
  <2> QED
    BY <2>1, <2>2, <2>3 DEF Pipeline
<1> QED
  BY <1>1, <1>2

(* log appends its message to it. *)
LEMMA PipelineGrows ==
    ASSUME LoggerInv, NEW p \in Callers, LogPush(p)
    PROVE  argument[p] \in Messages /\ Pipeline' = Append(Pipeline, argument[p])
<1>0. /\ InHand \in Seq(Messages) /\ queue_ \in Seq(Messages) /\ output \in Seq(Messages)
      /\ Pipeline \in Seq(Messages)
  BY PipelineType DEF LoggerInv
<1>1. argument[p] \in Messages
  BY DEF LogPush, LoggerInv, Arguments, Pending, LoggerTypeOK
<1>2. queue_' = Append(queue_, argument[p]) /\ output' = output /\ InHand' = InHand
  BY DEF LogPush, InHand
<1>3. /\ Append(queue_, argument[p]) = queue_ \o <<argument[p]>>
      /\ Append(Pipeline, argument[p]) = Pipeline \o <<argument[p]>>
      /\ <<argument[p]>> \in Seq(Messages)
  BY <1>0, <1>1, AppendIsConcat
<1>4. output \o InHand \in Seq(Messages)
  BY <1>0, ConcatProperties
<1>5. ((output \o InHand) \o queue_) \o <<argument[p]>>
        = (output \o InHand) \o (queue_ \o <<argument[p]>>)
  <2>1. \A s, t, u \in Seq(Messages) : (s \o t) \o u = s \o (t \o u)
    BY ConcatAssociative, SMTT(30)
  <2> QED
    BY <1>0, <1>3, <1>4, <2>1, Zenon
<1> QED
  BY <1>1, <1>2, <1>3, <1>5 DEF Pipeline

(* Every other step leaves it alone. *)
LEMMA PipelineStays ==
    ASSUME LoggerTypeOK, UNCHANGED <<queue_, output, msg>>,
           (background' = "write") <=> (background = "write")
    PROVE  Pipeline' = Pipeline
BY DEF Pipeline, InHand

-----------------------------------------------------------------------------
(* The parts of the invariant. *)

(* Every step keeps the types. *)
LEMMA LoggerTypeStep ==
    ASSUME LoggerInv, [LoggerNext]_loggerVars
    PROVE  LoggerTypeOK' /\ (background' = "write" => msg' \in Messages)
<1>t. /\ LoggerTypeOK /\ (background = "write" => msg \in Messages)
      /\ queue_ \in Seq(Messages) /\ output \in Seq(Messages) /\ promised \in Seq(Messages)
  BY DEF LoggerInv, LoggerTypeOK
<1> DEFINE Goal == LoggerTypeOK' /\ (background' = "write" => msg' \in Messages)
<1>1. ASSUME NEW p \in Callers, NEW m \in Messages, log(p, m) PROVE Goal
  BY <1>t, <1>1 DEF log, CallerTo, LoggerTypeOK
<1>2. ASSUME NEW p \in Callers, LogLock(p) \/ LogNotify(p) PROVE Goal
  BY <1>t, <1>2 DEF LogLock, LogNotify, CallerTo, Wake, LoggerTypeOK
<1>3. ASSUME NEW p \in Callers, LogPush(p) PROVE Goal
  <2>1. Append(queue_, argument[p]) \in Seq(Messages)
    BY <1>t, <1>3, PipelineGrows, AppendProperties
  <2> QED
    BY <1>t, <1>3, <2>1 DEF LogPush, CallerTo, LoggerTypeOK
<1>4. ASSUME LoopTest \/ Lock \/ WaitTest \/ Block \/ TakeNothing \/ Spurious PROVE Goal
  BY <1>t, <1>4 DEF LoopTest, Lock, WaitTest, Block, TakeNothing, Spurious, BackgroundTo,
     LoggerTypeOK
<1>5. ASSUME Take PROVE Goal
  <2>1. Head(queue_) \in Messages /\ Tail(queue_) \in Seq(Messages)
    BY <1>t, <1>5, HeadTailProperties DEF Take
  <2> QED
    BY <1>t, <1>5, <2>1 DEF Take, LoggerTypeOK
<1>6. ASSUME Write PROVE Goal
  <2>1. Append(output, msg) \in Seq(Messages)
    BY <1>t, <1>6, AppendProperties DEF Write
  <2> QED
    BY <1>t, <1>6, <2>1 DEF Write, LoggerTypeOK
<1>7. ASSUME Destroy \/ ClearRunning \/ DestructorNotify \/ Join PROVE Goal
  BY <1>t, <1>7 DEF Destroy, ClearRunning, DestructorNotify, Join, Wake, LoggerTypeOK
<1>8. ASSUME UNCHANGED loggerVars PROVE Goal
  BY <1>t, <1>8 DEF loggerVars, LoggerTypeOK
<1> QED
  BY <1>1, <1>2, <1>3, <1>4, <1>5, <1>6, <1>7, <1>8
  DEF LoggerNext, LogStep, BackgroundStep, DestructorStep, Gone

(* What a step does to the pipeline and to the threads that log. *)
LEMMA LoggerShape ==
    ASSUME LoggerInv, [LoggerNext]_loggerVars
    PROVE  \/ \E p \in Callers, m \in Messages :
                /\ m \notin logged /\ logged' = logged \cup {m}
                /\ argument' = [argument EXCEPT ![p] = m]
                /\ caller[p] = "idle" /\ caller' = [caller EXCEPT ![p] = "lock"]
                /\ Pipeline' = Pipeline
           \/ \E p \in Callers : LogPush(p)
           \/ /\ UNCHANGED <<logged, argument>> /\ Pipeline' = Pipeline
              /\ \A p \in Callers : Pending(p)' <=> Pending(p)
<1>t. LoggerTypeOK
  BY DEF LoggerInv
<1>s. ASSUME UNCHANGED <<queue_, output, msg>>, (background' = "write") <=> (background = "write")
      PROVE  Pipeline' = Pipeline
  BY <1>s, <1>t, PipelineStays
<1>1. CASE \E p \in Callers, m \in Messages : log(p, m)
  <2>1. Pipeline' = Pipeline
    BY <1>1, <1>s DEF log
  <2> QED
    BY <1>1, <2>1 DEF log, CallerTo
<1>2. ASSUME NEW p \in Callers, LogLock(p) \/ LogNotify(p)
      PROVE  /\ UNCHANGED <<logged, argument>> /\ Pipeline' = Pipeline
             /\ \A q \in Callers : Pending(q)' <=> Pending(q)
  <2>1. Pipeline' = Pipeline
    BY <1>2, <1>s DEF LogLock, LogNotify, Wake
  <2> QED
    BY <1>2, <1>t, <2>1 DEF LogLock, LogNotify, CallerTo, Pending, LoggerTypeOK
<1>3. CASE LoopTest \/ Lock \/ WaitTest \/ Block \/ TakeNothing \/ Spurious
  <2>1. Pipeline' = Pipeline
    BY <1>3, <1>s DEF LoopTest, Lock, WaitTest, Block, TakeNothing, Spurious, BackgroundTo
  <2> QED
    BY <1>3, <2>1 DEF LoopTest, Lock, WaitTest, Block, TakeNothing, Spurious, BackgroundTo,
       Pending
<1>4. CASE Take \/ Write
  BY <1>4, PipelineMoves DEF Take, Write, Pending
<1>5. CASE Destroy \/ ClearRunning \/ DestructorNotify \/ Join \/ UNCHANGED loggerVars
  <2>1. Pipeline' = Pipeline
    BY <1>5, <1>s DEF Destroy, ClearRunning, DestructorNotify, Join, loggerVars, Wake
  <2> QED
    BY <1>5, <2>1 DEF Destroy, ClearRunning, DestructorNotify, Join, loggerVars, Pending
<1> QED
  BY <1>1, <1>2, <1>3, <1>4, <1>5
  DEF LoggerNext, LogStep, BackgroundStep, DestructorStep, Gone

(* No message enters the pipeline twice. *)
LEMMA PipelineStep ==
    ASSUME LoggerInv, [LoggerNext]_loggerVars
    PROVE  /\ Arguments'
           /\ \A m : Among(m, Pipeline)' => m \in logged'
           /\ Distinct(Pipeline)'
           /\ \A m : Among(m, Pipeline) => Among(m, Pipeline)'
<1>0. /\ Pipeline \in Seq(Messages) /\ Arguments /\ Distinct(Pipeline)
      /\ caller \in [Callers -> {"idle", "lock", "push", "notify"}]
      /\ argument \in [Callers -> Messages \cup {NoMessage}]
      /\ \A m : Among(m, Pipeline) => m \in logged
  BY PipelineType DEF LoggerInv, LoggerTypeOK
<1> DEFINE Goal == /\ Arguments'
                   /\ \A m : Among(m, Pipeline') => m \in logged'
                   /\ Distinct(Pipeline')
                   /\ \A m : Among(m, Pipeline) => Among(m, Pipeline')
<1> SUFFICES Goal
  BY DEF Among, Distinct
<1>1. ASSUME NEW p \in Callers, NEW m \in Messages,
             m \notin logged, logged' = logged \cup {m},
             argument' = [argument EXCEPT ![p] = m],
             caller[p] = "idle", caller' = [caller EXCEPT ![p] = "lock"],
             Pipeline' = Pipeline
      PROVE  Goal
  <2>1. \A q \in Callers : Pending(q)' <=> q = p \/ Pending(q)
    BY <1>0, <1>1 DEF Pending
  <2>2. \A q \in Callers : argument'[q] = IF q = p THEN m ELSE argument[q]
    BY <1>0, <1>1
  <2>3. ASSUME NEW q \in Callers, Pending(q)'
        PROVE  /\ argument'[q] \in logged'
               /\ ~Among(argument'[q], Pipeline')
               /\ \A r \in Callers : Pending(r)' /\ argument'[r] = argument'[q] => r = q
    BY <1>0, <1>1, <2>1, <2>2, <2>3 DEF Arguments
  <2>4. Arguments'
    BY <2>3 DEF Arguments, Among
  <2> QED
    BY <1>0, <1>1, <2>4
<1>2. ASSUME NEW p \in Callers, LogPush(p) PROVE Goal
  <2>1. /\ argument[p] \in Messages /\ Pipeline' = Append(Pipeline, argument[p])
        /\ UNCHANGED <<logged, argument>> /\ Pending(p)
        /\ \A q \in Callers : Pending(q)' <=> q # p /\ Pending(q)
    BY <1>0, <1>2, PipelineGrows DEF LogPush, CallerTo, Pending
  <2>2. argument[p] \in logged /\ ~Among(argument[p], Pipeline)
    BY <1>0, <2>1 DEF Arguments
  <2>3. \A m : Among(m, Pipeline') <=> Among(m, Pipeline) \/ m = argument[p]
    BY <1>0, <2>1, AppendAmong
  <2>4. Distinct(Pipeline')
    BY <1>0, <2>1, <2>2, AppendDistinct
  <2>5. ASSUME NEW q \in Callers, Pending(q)'
        PROVE  /\ argument'[q] \in logged'
               /\ ~Among(argument'[q], Pipeline')
               /\ \A r \in Callers : Pending(r)' /\ argument'[r] = argument'[q] => r = q
    BY <1>0, <2>1, <2>3, <2>5 DEF Arguments
  <2>6. Arguments'
    BY <2>5 DEF Arguments, Among
  <2> QED
    BY <1>0, <2>1, <2>2, <2>3, <2>4, <2>6
<1>3. ASSUME UNCHANGED <<logged, argument>>, Pipeline' = Pipeline,
             \A p \in Callers : Pending(p)' <=> Pending(p)
      PROVE  Goal
  BY <1>0, <1>3 DEF Arguments, Among
<1> QED
  BY <1>1, <1>2, <1>3, LoggerShape, Zenon

(* An output only grows. *)
LEMMA WrittenStays ==
    ASSUME LoggerInv, [LoggerNext]_loggerVars
    PROVE  \A m : Written(m) => Written(m)'
<1>1. CASE Write
  <2>1. output' = Append(output, msg) /\ msg \in Messages /\ output \in Seq(Messages)
    BY <1>1, PipelineType DEF Write, LoggerInv
  <2>2. \A m : Among(m, output) => Among(m, output')
    BY <2>1, AppendAmong
  <2> QED
    BY <2>2 DEF Written, Among
<1>2. CASE ~Write
  <2>1. output' = output
    BY <1>2 DEF LoggerNext, LogStep, log, LogLock, LogPush, LogNotify, BackgroundStep,
       LoopTest, Lock, WaitTest, Block, TakeNothing, Take, Spurious, BackgroundTo, Destroy,
       DestructorStep, ClearRunning, DestructorNotify, Join, Gone, loggerVars
  <2> QED
    BY <2>1 DEF Written
<1> QED
  BY <1>1, <1>2

(* The background thread ends after the last promised message is written. *)
LEMMA EndingStep ==
    ASSUME LoggerInv, [LoggerNext]_loggerVars
    PROVE  Ending' /\ \A i \in DOMAIN promised' : Among(promised'[i], Pipeline')
<1>0. /\ Ending /\ LoggerTypeOK
      /\ queue_ \in Seq(Messages) /\ output \in Seq(Messages)
      /\ \A i \in DOMAIN promised : Among(promised[i], Pipeline)
  BY DEF LoggerInv, LoggerTypeOK
<1>w. \A m : Written(m) => \E j \in DOMAIN output' : output'[j] = m
  BY WrittenStays DEF Written
<1>p. \A m : Among(m, Pipeline) => Among(m, Pipeline')
  BY PipelineStep DEF Among
<1>1. CASE Destroy
  <2>1. /\ promised' = queue_ /\ Pipeline' = Pipeline /\ background # "exit"
        /\ UNCHANGED <<running_, background>> /\ destructor' = "flag" /\ running_
    BY <1>0, <1>1, PipelineStays DEF Destroy, Ending
  <2>2. \A i \in DOMAIN queue_ : Among(queue_[i], Pipeline)
    <3>0. InHand \in Seq(Messages) /\ output \o InHand \in Seq(Messages)
      BY <1>0, PipelineType, ConcatProperties DEF LoggerInv
    <3> SUFFICES ASSUME NEW s \in Seq(Messages), NEW i \in DOMAIN queue_
                 PROVE  Among(queue_[i], s \o queue_)
      BY <3>0 DEF Pipeline
    <3>1. /\ Len(s) \in Nat /\ Len(queue_) \in Nat /\ i \in 1 .. Len(queue_)
          /\ s \o queue_ \in Seq(Messages) /\ Len(s \o queue_) = Len(s) + Len(queue_)
          /\ DOMAIN (s \o queue_) = 1 .. Len(s) + Len(queue_)
      BY <1>0, ConcatProperties, LenProperties
    <3>2. (s \o queue_)[Len(s) + i] = queue_[i]
      BY <1>0, <3>1, ConcatProperties
    <3>3. Len(s) + i \in 1 .. Len(s) + Len(queue_)
      BY <3>1
    <3> QED
      BY <3>1, <3>2, <3>3 DEF Among
  <2> QED
    BY <2>1, <2>2 DEF Ending
<1>2. CASE ~Destroy
  <2>1. promised' = promised
    BY <1>2 DEF LoggerNext, LogStep, log, LogLock, LogPush, LogNotify, BackgroundStep,
       LoopTest, Lock, WaitTest, Block, TakeNothing, Take, Write, Spurious, BackgroundTo,
       DestructorStep, ClearRunning, DestructorNotify, Join, Gone, loggerVars
  <2>2. \A i \in DOMAIN promised' : Among(promised'[i], Pipeline')
    BY <1>0, <1>p, <2>1
  <2>3. CASE background # "exit" /\ background' = "exit"
    <3>1. /\ ~running_ /\ queue_ = <<>> /\ InHand = <<>>
          /\ UNCHANGED <<running_, destructor, output>>
      BY <2>3, <1>2 DEF LoggerNext, LogStep, log, LogLock, LogPush, LogNotify, BackgroundStep,
         LoopTest, Lock, WaitTest, Block, TakeNothing, Take, Write, Spurious, BackgroundTo,
         DestructorStep, ClearRunning, DestructorNotify, Join, Gone, loggerVars, Wake, InHand
    <3>2. Pipeline = output
      BY <1>0, <3>1, ConcatEmptySeq DEF Pipeline
    <3>3. \A i \in DOMAIN promised : Written(promised[i])
      BY <1>0, <3>2 DEF Written, Among
    <3> QED
      BY <1>0, <2>1, <2>2, <2>3, <3>1, <3>3 DEF Ending, Written
  <2>4. CASE background = "exit" \/ background' # "exit"
    <3>1. /\ background = "exit" => background' = "exit"
          /\ ~running_ => ~running_'
          /\ destructor' \in {"no", "flag"} => destructor \in {"no", "flag"} /\ running_' = running_
          /\ destructor' = "done" => destructor = "done" \/ background = "exit"
      BY <1>2 DEF LoggerNext, LogStep, log, LogLock, LogPush, LogNotify, BackgroundStep,
         LoopTest, Lock, WaitTest, Block, TakeNothing, Take, Write, Spurious, BackgroundTo,
         DestructorStep, ClearRunning, DestructorNotify, Join, Gone, loggerVars, Wake
    <3>2. background' = "exit" =>
            \A i \in DOMAIN promised : \E j \in DOMAIN output' : output'[j] = promised[i]
      BY <1>0, <1>w, <2>1, <2>4 DEF Ending
    <3>3. Ending'
      BY <1>0, <2>1, <2>4, <3>1, <3>2 DEF Ending, Written
    <3> QED
      BY <2>2, <3>3
  <2> QED
    BY <2>3, <2>4
<1> QED
  BY <1>1, <1>2

-----------------------------------------------------------------------------
(* The inductive invariant of the logger. *)
THEOREM LoggerInvariant == LoggerSpec => []LoggerInv
<1>1. LoggerInit => LoggerInv
  <2> SUFFICES ASSUME LoggerInit PROVE LoggerInv
    OBVIOUS
  <2>0. <<>> \in Seq(Messages)
    OBVIOUS
  <2>1. LoggerTypeOK
    BY <2>0 DEF LoggerInit, LoggerTypeOK
  <2>2. Pipeline = <<>>
    BY <2>0, ConcatEmptySeq DEF LoggerInit, Pipeline, InHand
  <2>3. /\ \A m : ~Among(m, Pipeline)
        /\ Distinct(Pipeline)
    BY <2>2 DEF Among, Distinct
  <2>4. Arguments
    BY DEF LoggerInit, Arguments, Pending
  <2>5. Ending
    BY DEF LoggerInit, Ending
  <2> QED
    BY <2>1, <2>3, <2>4, <2>5 DEF LoggerInit, LoggerInv
<1>2. ASSUME LoggerInv, [LoggerNext]_loggerVars PROVE LoggerInv'
  BY <1>2, LoggerTypeStep, PipelineStep, EndingStep DEF LoggerInv, Among
<1>3. LoggerInv /\ [LoggerNext]_loggerVars => LoggerInv'
  BY <1>2
<1> QED
  BY <1>1, <1>3, PTL DEF LoggerSpec

(* Type correctness of the logger. *)
THEOREM LoggerTypeCorrect == LoggerSpec => []LoggerTypeOK
<1>1. LoggerInv => LoggerTypeOK
  BY DEF LoggerInv
<1> QED
  BY <1>1, LoggerInvariant, PTL

(* No message is written twice, or both written and still queued, however  *)
(* many threads log.                                                       *)
THEOREM LogsWrittenOnce == LoggerSpec => []WrittenOnce
<1>1. LoggerInv => WrittenOnce
  BY DEF LoggerInv, WrittenOnce, Distinct, Pipeline, InHand
<1> QED
  BY <1>1, LoggerInvariant, PTL

(* When the destructor of the logger returns, everything that was queued   *)
(* when it was entered has been written.                                   *)
THEOREM DestructorFlushes == LoggerSpec => []LogFlushed
<1>1. LoggerInv => LogFlushed
  BY DEF LoggerInv, Ending, LogFlushed
<1> QED
  BY <1>1, LoggerInvariant, PTL
=============================================================================
