-------------------------- MODULE ServerLifecycle --------------------------
(***************************************************************************)
(* Start and graceful shutdown of the server process: the accept loop and  *)
(* the destructors on the main thread (src/server/main.cpp, server.cpp),   *)
(* the console handler that stops the server on Ctrl+C, the worker threads *)
(* of the pool (thread_pool.cpp) and the task queue between them.          *)
(*                                                                         *)
(* handle_client is reduced to what the lifecycle sees: it tests running_, *)
(* blocks until its client sends a request or leaves, serves the request   *)
(* and tests again (Session.tla has the details).                          *)
(*                                                                         *)
(* The model starts when main has constructed the Server, whose pool is    *)
(* running, and has registered ctrl_handler.                               *)
(***************************************************************************)
EXTENDS TaskQueue

CONSTANTS
    Workers,     \* the threads of the pool
    Main,        \* the main thread
    Handler      \* the thread Windows runs ctrl_handler on

ASSUME ServerAssumption ==
    /\ Threads = Workers \cup {Main, Handler}
    /\ Main \notin Workers /\ Handler \notin Workers /\ Main # Handler
    /\ Workers # {}   \* main asks for DEFAULT_THREAD_POOL workers

Stoppers == {Main, Handler}

VARIABLES
    running_,
    listening,   \* listen_socket_ is open
    stopped_,    \* ThreadPool::stopped_
    main,        \* main thread: "start", "loop", "accept", "push", "destroy",
                 \* "pool" (in ~ThreadPool), "freed" (thread_pool_ is gone)
    handler,     \* ctrl_handler: "none", "stop", "close", "pool", "done"
    closer,      \* closer[p]: where p is in ThreadPool::shutdown: "none",
                 \* "cas", "queue", "notify", "join", "over"
    joined,      \* the workers whose std::thread has been joined
    worker,      \* worker[w]: "pop", "loop", "recv", "end", "exit"
    sock,        \* sock[c]: "away", "open", "closed"; "leaked" after an
                 \* exception left handle_client
    outcome      \* "up", "exit", "terminate", "undefined"

serverVars == <<running_, listening, stopped_, main, handler, closer, joined,
                worker, sock, outcome>>
allVars == <<queueVars, serverVars>>

ServerInit ==
    /\ QueueInit
    /\ running_ = FALSE
    /\ listening = TRUE
    /\ stopped_ = FALSE
    /\ main = "start"
    /\ handler = "none"
    /\ closer = [p \in Stoppers |-> "none"]
    /\ joined = {}
    /\ worker = [w \in Workers |-> "pop"]
    /\ sock = [c \in Tasks |-> "away"]
    /\ outcome = "up"

SetSock(c, s) == sock' = [sock EXCEPT ![c] = s]

-----------------------------------------------------------------------------
(* Server::start on the main thread *)

Start ==
    /\ main = "start"
    /\ running_' = TRUE
    /\ main' = "loop"
    /\ UNCHANGED <<queueVars, listening, stopped_, handler, closer, joined,
                   worker, sock, outcome>>

TestRunning ==
    /\ main = "loop"
    /\ main' = IF running_ THEN "accept" ELSE "destroy"
    /\ UNCHANGED <<queueVars, running_, listening, stopped_, handler, closer,
                   joined, worker, sock, outcome>>

Accept(c) ==
    /\ main = "accept"
    /\ listening /\ sock[c] = "away"
    /\ SetSock(c, "open")
    /\ push(Main, c)
    /\ main' = "push"
    /\ UNCHANGED <<running_, listening, stopped_, handler, closer, joined,
                   worker, outcome>>

\* Bug variant: INVALID_SOCKET is queued like a connection.
AcceptInvalid ==
    /\ main = "accept"
    /\ push(Main, NoTask)
    /\ main' = "push"
    /\ UNCHANGED <<running_, listening, stopped_, handler, closer, joined,
                   worker, sock, outcome>>

\* A failed connection, or the listening socket is closed.
AcceptFails ==
    /\ main = "accept"
    /\ main' = "loop"
    /\ UNCHANGED <<queueVars, running_, listening, stopped_, handler, closer,
                   joined, worker, sock, outcome>>

\* Bug variant: a refused connection is not closed.
PushedKeepsSocket ==
    /\ main = "push" /\ Return(Main)
    /\ main' = "loop"
    /\ UNCHANGED <<running_, listening, stopped_, handler, closer, joined,
                   worker, sock, outcome>>

\* push returned; a connection it refused is closed.
Pushed ==
    /\ main = "push" /\ Return(Main)
    /\ IF at[Main] = "false" THEN SetSock(task[Main], "closed") ELSE UNCHANGED sock
    /\ main' = "loop"
    /\ UNCHANGED <<running_, listening, stopped_, handler, closer, joined,
                   worker, outcome>>

-----------------------------------------------------------------------------
(* ThreadPool::shutdown, from Server::stop or from ~ThreadPool *)

CloserTo(p, label) == closer' = [closer EXCEPT ![p] = label]

\* Only the first caller goes on.
PoolCas(p) ==
    /\ closer[p] = "cas"
    /\ stopped_' = TRUE
    /\ CloserTo(p, IF stopped_ THEN "over" ELSE "queue")
    /\ UNCHANGED <<queueVars, running_, listening, main, handler, joined,
                   worker, sock, outcome>>

PoolShutQueue(p) ==
    /\ closer[p] = "queue"
    /\ shutdown(p)
    /\ CloserTo(p, "notify")
    /\ UNCHANGED <<running_, listening, stopped_, main, handler, joined,
                   worker, sock, outcome>>

PoolQueueShut(p) ==
    /\ closer[p] = "notify" /\ Return(p)
    /\ CloserTo(p, "join")
    /\ UNCHANGED <<running_, listening, stopped_, main, handler, joined,
                   worker, sock, outcome>>

\* The workers are joined one after the other.
PoolJoin(p) ==
    /\ closer[p] = "join"
    /\ \E w \in Workers \ joined :
        /\ worker[w] = "exit"
        /\ joined' = joined \cup {w}
    /\ UNCHANGED <<queueVars, running_, listening, stopped_, main, handler,
                   closer, worker, sock, outcome>>

PoolJoined(p) ==
    /\ closer[p] = "join" /\ joined = Workers
    /\ CloserTo(p, "over")
    /\ UNCHANGED <<queueVars, running_, listening, stopped_, main, handler,
                   joined, worker, sock, outcome>>

PoolShutdown(p) ==
    PoolCas(p) \/ PoolShutQueue(p) \/ PoolQueueShut(p) \/ PoolJoin(p) \/ PoolJoined(p)

-----------------------------------------------------------------------------
(* The end of main: g_server = nullptr, then ~Server, whose stop() finds   *)
(* running_ false, then ~ThreadPool.                                       *)

Destroy ==
    /\ main = "destroy"
    /\ main' = "pool"
    /\ CloserTo(Main, "cas")
    /\ UNCHANGED <<queueVars, running_, listening, stopped_, handler, joined,
                   worker, sock, outcome>>

\* Destroying a std::thread that is still joinable calls std::terminate.
DestroyThreads ==
    /\ main = "pool" /\ closer[Main] = "over"
    /\ main' = "freed"
    /\ outcome' = IF joined = Workers THEN "up" ELSE "terminate"
    /\ UNCHANGED <<queueVars, running_, listening, stopped_, handler, closer,
                   joined, worker, sock>>

Exit ==
    /\ main = "freed"
    /\ outcome' = "exit"
    /\ UNCHANGED <<queueVars, running_, listening, stopped_, main, handler,
                   closer, joined, worker, sock>>

-----------------------------------------------------------------------------
(* ctrl_handler and Server::stop *)

\* After start() has returned g_server is null.
Signal ==
    /\ handler = "none"
    /\ handler' = IF main \in {"start", "loop", "accept", "push"} THEN "stop" ELSE "done"
    /\ UNCHANGED <<queueVars, running_, listening, stopped_, main, closer,
                   joined, worker, sock, outcome>>

stop ==
    /\ handler = "stop"
    /\ handler' = IF running_ THEN "close" ELSE "done"
    /\ running_' = FALSE
    /\ UNCHANGED <<queueVars, listening, stopped_, main, closer, joined,
                   worker, sock, outcome>>

StopListening ==
    /\ handler = "close"
    /\ listening' = FALSE
    /\ handler' = "pool"
    /\ UNCHANGED <<queueVars, running_, stopped_, main, closer, joined,
                   worker, sock, outcome>>

\* thread_pool_->shutdown(), unless main has already destroyed thread_pool_.
StopPool ==
    /\ handler = "pool" /\ closer[Handler] = "none"
    /\ IF main = "freed" THEN outcome' = "undefined" /\ UNCHANGED closer
                         ELSE CloserTo(Handler, "cas") /\ UNCHANGED outcome
    /\ UNCHANGED <<queueVars, running_, listening, stopped_, main, handler,
                   joined, worker, sock>>

Stopped ==
    /\ handler = "pool" /\ closer[Handler] = "over"
    /\ handler' = "done"
    /\ UNCHANGED <<queueVars, running_, listening, stopped_, main, closer,
                   joined, worker, sock, outcome>>

\* ThreadPool::shutdown reads stopped_ or workers_ after main destroyed them.
LateAccess ==
    /\ closer[Handler] \in {"cas", "join"} /\ main = "freed"
    /\ outcome' = "undefined"
    /\ UNCHANGED <<queueVars, running_, listening, stopped_, main, handler,
                   closer, joined, worker, sock>>

-----------------------------------------------------------------------------
(* worker_loop *)

WorkerTo(w, label) == worker' = [worker EXCEPT ![w] = label]
OnlyWorkers == UNCHANGED <<running_, listening, stopped_, main, handler, closer,
                           joined, outcome>>

WorkerPop(w) ==
    /\ worker[w] = "pop" /\ pop(w)
    /\ OnlyWorkers /\ UNCHANGED <<worker, sock>>

WorkerPopped(w) ==
    /\ worker[w] = "pop" /\ Return(w)
    /\ WorkerTo(w, IF at[w] = "true" THEN "loop" ELSE "exit")
    /\ OnlyWorkers /\ UNCHANGED sock

(* handle_client *)

ServeLoop(w) ==
    /\ worker[w] = "loop"
    /\ WorkerTo(w, IF running_ THEN "recv" ELSE "end")
    /\ OnlyWorkers /\ UNCHANGED <<queueVars, sock>>

ServeRequest(w) ==
    /\ worker[w] = "recv"
    /\ WorkerTo(w, "loop")
    /\ OnlyWorkers /\ UNCHANGED <<queueVars, sock>>

\* QUIT, or recv fails because the client is gone.
ClientLeaves(w) ==
    /\ worker[w] = "recv"
    /\ WorkerTo(w, "end")
    /\ OnlyWorkers /\ UNCHANGED <<queueVars, sock>>

ServeEnd(w) ==
    /\ worker[w] = "end"
    /\ SetSock(task[w], "closed")
    /\ WorkerTo(w, "pop")
    /\ OnlyWorkers /\ UNCHANGED queueVars

\* worker_loop catches what handle_client throws; the socket stays open.
ServeThrows(w) ==
    /\ worker[w] = "recv"
    /\ SetSock(task[w], "leaked")
    /\ WorkerTo(w, "pop")
    /\ OnlyWorkers /\ UNCHANGED queueVars

-----------------------------------------------------------------------------
InQueue(p) == (QueueStep(p) \/ Spurious(p)) /\ UNCHANGED serverVars

MainStep ==
    \/ Start \/ TestRunning \/ AcceptFails \/ Pushed
    \/ \E c \in Tasks : Accept(c)
    \/ PoolShutdown(Main) \/ Destroy \/ DestroyThreads \/ Exit

HandlerStep ==
    \/ stop \/ StopListening \/ StopPool \/ Stopped
    \/ LateAccess
    \/ main # "freed" /\ PoolShutdown(Handler)

WorkerStep(w) ==
    \/ WorkerPop(w) \/ WorkerPopped(w) \/ ServeLoop(w) \/ ServeEnd(w)

Client(w) == ServeRequest(w) \/ ClientLeaves(w) \/ ServeThrows(w)

Up == outcome = "up"

Ended == ~Up /\ UNCHANGED allVars

ServerNext ==
    \/ Up /\ \/ MainStep \/ Signal \/ HandlerStep
             \/ \E w \in Workers : WorkerStep(w) \/ Client(w)
             \/ \E p \in Threads : InQueue(p)
    \/ Ended

ServerSpec == ServerInit /\ [][ServerNext]_allVars

(***************************************************************************)
(* The scheduler runs every thread that can run.  Clients owe nothing:     *)
(* they may stay connected and silent.                                     *)
(***************************************************************************)
QueueWork(p) == QueueStep(p) /\ UNCHANGED serverVars

ServerFairSpec ==
    /\ ServerSpec
    /\ WF_allVars(Up /\ MainStep)
    /\ WF_allVars(Up /\ HandlerStep)
    /\ \A w \in Workers : WF_allVars(Up /\ WorkerStep(w))
    /\ \A p \in Threads : WF_allVars(Up /\ QueueWork(p))

\* The same, with clients that end their sessions some day.
ServerPoliteSpec ==
    ServerFairSpec /\ \A w \in Workers : SF_allVars(Up /\ ClientLeaves(w))

-----------------------------------------------------------------------------
(* Type invariant: the server and its queue. *)
ServerTypeOK ==
    /\ QueueTypeOK
    /\ {running_, listening, stopped_} \subseteq BOOLEAN
    /\ main \in {"start", "loop", "accept", "push", "destroy", "pool", "freed"}
    /\ handler \in {"none", "stop", "close", "pool", "done"}
    /\ closer \in [Stoppers -> {"none", "cas", "queue", "notify", "join", "over"}]
    /\ joined \subseteq Workers
    /\ worker \in [Workers -> {"pop", "loop", "recv", "end", "exit"}]
    /\ sock \in [Tasks -> {"away", "open", "closed", "leaked"}]
    /\ outcome \in {"up", "exit", "terminate", "undefined"}

Held(p, c) ==
    /\ task[p] = c
    /\ \/ p = Main /\ at[p] \in {"push", "not_full", "false"}
       \/ p \in Workers /\ (at[p] \in {"popped", "true"} \/ worker[p] \in {"loop", "recv", "end"})

(***************************************************************************)
(* Every accepted connection is in exactly one hand until it is closed:    *)
(* the accept loop's, one place of the queue, or one worker's.  None is    *)
(* forgotten by a shutdown at any moment and none is served twice.         *)
(***************************************************************************)
OneOwner ==
    \A c \in Tasks :
        Cardinality({p \in Threads : Held(p, c)})
          + Cardinality({i \in DOMAIN queue_ : queue_[i] = c})
        = IF sock[c] = "open" THEN 1 ELSE 0

(***************************************************************************)
(* A process that exits normally has drained the queue, joined all workers *)
(* and closed every connection it accepted (README, Graceful Shutdown).    *)
(***************************************************************************)
ExitDrained ==
    outcome = "exit" =>
        /\ queue_ = <<>>
        /\ \A w \in Workers : worker[w] = "exit" /\ w \in joined
        /\ \A c \in Tasks : sock[c] # "open"

(***************************************************************************)
(* README, Graceful Shutdown: the process joins all worker threads before  *)
(* it exits; it never dies in a destructor or on freed memory.             *)
(***************************************************************************)
ShutdownClean == outcome \notin {"terminate", "undefined"}

(***************************************************************************)
(* README, Graceful Shutdown: a Ctrl+C that meets a server whose start()   *)
(* has set running_ ends the process.  (An earlier one is swallowed.)      *)
(***************************************************************************)
ShutdownEnds == handler = "stop" /\ running_ ~> outcome # "up"

(***************************************************************************)
(* Every accepted connection gets a worker and is let go of in the end, as *)
(* long as clients end their sessions: recv has no timeout, so a client in *)
(* the queue depends on the ones before it.                                *)
(***************************************************************************)
ConnectionsServed ==
    \A c \in Tasks : sock[c] = "open" ~> sock[c] # "open" \/ outcome # "up"
=============================================================================
