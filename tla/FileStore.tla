----------------------------- MODULE FileStore -----------------------------
(***************************************************************************)
(* What the storage promises its clients, without locks, index or chunks:  *)
(* every operation takes effect at one instant between its call and its    *)
(* return, on the whole file.                                              *)
(*                                                                         *)
(* op[t] is the operation thread t has called.  Its state is "called",     *)
(* then "ok" or "failed".  An upload replaces the file's contents when it  *)
(* begins and is "writing" until all of it has arrived: meanwhile nobody   *)
(* else touches the file, and an upload that breaks off leaves no file.    *)
(*                                                                         *)
(* Faults may hold "crash" (the process is started again), "write" (the    *)
(* disk refuses data and nobody notices) and "remove" (the remains of an   *)
(* upload cannot be removed).                                              *)
(***************************************************************************)
EXTENDS Naturals, Sequences

CONSTANTS
    Threads, Files, None, Faults,
    Payloads,    \* what clients upload
    Initial      \* what a file may hold in the beginning, None included

VARIABLES store, op

Requests ==
    [what : {"save", "stream", "delete", "rename"}, file : Files, to : Files,
     data : Payloads \cup {<<>>}, state : {"called", "failed", "ok"}, got : {None}]

Init ==
    /\ store \in [Files -> Initial]
    /\ op = [t \in Threads |-> None]

Is(t, what, state) == op[t] # None /\ op[t].what = what /\ op[t].state = state
Becomes(t, state) == op' = [op EXCEPT ![t].state = state]
Settled(f) == \A t \in Threads : ~(Is(t, "save", "writing") /\ op[t].file = f)
Prefixes(d) == {SubSeq(d, 1, n) : n \in 0 .. Len(d)}

Leave(f, contents) == \E c \in contents : store' = [store EXCEPT ![f] = c]
Remains(t, fault) == IF fault \in Faults THEN Prefixes(op[t].data) ELSE {}

\* A call may be turned down at once; renaming a file to itself succeeds.
Invoke(t) ==
    /\ op[t] = None /\ op'[t] \in Requests
    /\ op'[t].state = "ok" => op'[t].what = "rename" /\ op'[t].file = op'[t].to
    /\ op' = [op EXCEPT ![t] = op'[t]]
    /\ UNCHANGED store

Reject(t) ==
    /\ op[t] # None /\ op[t].state = "called"
    /\ Becomes(t, "failed")
    /\ UNCHANGED store

Write(t) ==
    /\ Is(t, "save", "called") /\ Settled(op[t].file)
    /\ Leave(op[t].file, {op[t].data})
    /\ Becomes(t, "writing")

Written(t) ==
    /\ Is(t, "save", "writing")
    /\ Leave(op[t].file, {op[t].data} \cup Remains(t, "write"))
    /\ Becomes(t, "ok")

BreakOff(t) ==
    /\ Is(t, "save", "writing")
    /\ Leave(op[t].file, {None} \cup Remains(t, "remove"))
    /\ Becomes(t, "failed")

Read(t) ==
    /\ Is(t, "stream", "called") /\ Settled(op[t].file)
    /\ store[op[t].file] # None
    /\ op' = [op EXCEPT ![t].state = "ok", ![t].got = store[op[t].file]]
    /\ UNCHANGED store

Remove(t) ==
    /\ Is(t, "delete", "called") /\ Settled(op[t].file)
    /\ store[op[t].file] # None
    /\ Leave(op[t].file, {None})
    /\ Becomes(t, "ok")

Move(t) ==
    /\ Is(t, "rename", "called") /\ Settled(op[t].file) /\ Settled(op[t].to)
    /\ store[op[t].file] # None /\ store[op[t].to] = None
    /\ store' = [store EXCEPT ![op[t].to] = store[op[t].file], ![op[t].file] = None]
    /\ Becomes(t, "ok")

Return(t) ==
    /\ op[t] # None /\ op[t].state \in {"ok", "failed"}
    /\ op' = [op EXCEPT ![t] = None]
    /\ UNCHANGED store

\* Whole files survive; an upload under way may leave its beginning.
Crash ==
    /\ "crash" \in Faults
    /\ op' = [t \in Threads |-> None]
    /\ DOMAIN store' = Files
    /\ \A f \in Files :
        \/ store'[f] = store[f]
        \/ \E t \in Threads : /\ Is(t, "save", "writing") /\ op[t].file = f
                              /\ store'[f] \in Prefixes(op[t].data)

\* Whatever a thread does shows in its operation.
Step(t) ==
    /\ op'[t] # op[t]
    /\ \/ Invoke(t) \/ Reject(t) \/ Return(t)
       \/ Write(t) \/ Written(t) \/ BreakOff(t)
       \/ Read(t) \/ Remove(t) \/ Move(t)

Next == (\E t \in Threads : Step(t)) \/ Crash

Spec == Init /\ [][Next]_<<store, op>>
=============================================================================
