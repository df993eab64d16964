---------------------------- MODULE WorkExecutor -----------------------------
(***************************************************************************)
(* tt_metal/impl/dispatch/work_executor.hpp: the queue of host work of a   *)
(* device and the thread that runs it.  worker_queue is taken as the       *)
(* bounded FIFO that LockFreeQueue implements.                             *)
(*                                                                         *)
(* Owner creates the executor and alone changes its mode; the other        *)
(* producers push between two mode changes only.  A unit of work is        *)
(* <<p, k>>, the k-th of producer p; the k in Nested push work themselves  *)
(* while the worker runs them.                                             *)
(***************************************************************************)
EXTENDS Naturals, Sequences, Functions

CONSTANTS Producers, Owner,
          Capacity,    \* ring_buffer_size - 1
          MaxWork,     \* bound: units of work per producer
          MaxModes,    \* bound: mode changes
          Nested

ASSUME WorkAssumption ==
  /\ Owner \in Producers
  /\ Capacity \in Nat \ {0} /\ MaxWork \in Nat /\ MaxModes \in Nat

VARIABLES
  mode,        \* work_executor_mode
  state,       \* worker_state
  queue,       \* worker_queue
  workerId,    \* worker_queue.worker_thread_id names the running thread
  cvMutex,     \* the worker holds cv_mutex
  wpc, wcur,   \* the worker thread: its position, {} or the unit it runs
  ppc, blk,    \* per producer: its position, its call's blocking flag
  count,       \* per producer: units pushed so far
  ran,         \* history: the units run to their end, in that order
  modes        \* history: number of mode changes

vars == <<mode, state, queue, workerId, cvMutex, wpc, wcur, ppc, blk, count, ran, modes>>
config == <<mode, state, workerId, modes>>
worker == <<cvMutex, wpc, wcur>>
calls == <<ppc, blk, count>>

Flush == << >>            \* the empty function synchronize pushes
Work == Producers \X (1 .. MaxWork)

TypeOK ==
  /\ mode \in {"SYNCHRONOUS", "ASYNCHRONOUS"}
  /\ state \in {"IDLE", "RUNNING", "TERMINATE"}
  /\ queue \in Seq(Work \cup {Flush}) /\ Len(queue) <= Capacity
  /\ workerId \in BOOLEAN /\ cvMutex \in BOOLEAN
  /\ wpc \in {"none", "lock", "predQueue", "predState", "sleep", "asleep",
              "check", "pop", "run", "selfSync"}
  /\ wcur \in SUBSET (Work \cup {Flush})
  /\ ppc \in [Producers -> {"idle", "inline", "push", "notify", "flush", "flushNotify",
                            "poll", "start", "started", "stop", "stopNotify", "join"}]
  /\ blk \in [Producers -> BOOLEAN]
  /\ count \in [Producers -> 0 .. MaxWork]
  /\ ran \in Seq(Work)
  /\ modes \in 0 .. MaxModes

\* The constructor and initialize(): the default mode comes from the
\* environment, and an asynchronous executor starts its worker at once.
Init ==
  /\ mode \in {"SYNCHRONOUS", "ASYNCHRONOUS"}
  /\ state = "IDLE" /\ queue = << >> /\ workerId = FALSE /\ cvMutex = FALSE
  /\ wpc = "none" /\ wcur = {}
  /\ ppc = [p \in Producers |->
              IF p = Owner /\ mode = "ASYNCHRONOUS" THEN "start" ELSE "idle"]
  /\ blk = [p \in Producers |-> FALSE]
  /\ count = [p \in Producers |-> 0]
  /\ ran = << >> /\ modes = 0

Goto(p, l) == ppc' = [ppc EXCEPT ![p] = l]
Current(p) == <<p, count[p]>>

\* The caller's promise: nobody else is in a call while the mode changes.
ChangingMode == ppc[Owner] \in {"start", "started", "stop", "stopNotify", "join"}

(***************************************************************************)
(* The worker thread: run_worker.  The predicate of the wait reads the     *)
(* queue and worker_state one after the other, both written by threads     *)
(* that do not hold cv_mutex.                                              *)
(***************************************************************************)
WorkerLock ==
  /\ wpc = "lock" /\ ~cvMutex
  /\ cvMutex' = TRUE /\ wpc' = "predQueue"
  /\ UNCHANGED <<calls, config, queue, wcur, ran>>

WorkerPredQueue ==
  /\ wpc = "predQueue"
  /\ IF queue # << >> THEN wpc' = "check" /\ cvMutex' = FALSE
                      ELSE wpc' = "predState" /\ UNCHANGED cvMutex
  /\ UNCHANGED <<calls, config, queue, wcur, ran>>

WorkerPredState ==
  /\ wpc = "predState"
  /\ IF state = "TERMINATE" THEN wpc' = "check" /\ cvMutex' = FALSE
                            ELSE wpc' = "sleep" /\ UNCHANGED cvMutex
  /\ UNCHANGED <<calls, config, queue, wcur, ran>>

\* Going to sleep releases the mutex in the same step.
WorkerSleep ==
  /\ wpc = "sleep"
  /\ wpc' = "asleep" /\ cvMutex' = FALSE
  /\ UNCHANGED <<calls, config, queue, wcur, ran>>

WorkerSpuriousWake ==
  /\ wpc = "asleep"
  /\ wpc' = "lock"
  /\ UNCHANGED <<calls, config, queue, cvMutex, wcur, ran>>

\* Mutant of WorkerCheck: a terminated worker leaves work behind.
WorkerCheckNoDrain ==
  /\ wpc = "check"
  /\ wpc' = IF state = "TERMINATE" THEN "none" ELSE "pop"
  /\ UNCHANGED <<calls, config, queue, cvMutex, wcur, ran>>

WorkerCheck ==
  /\ wpc = "check"
  /\ wpc' = IF state = "TERMINATE" /\ queue = << >> THEN "none" ELSE "pop"
  /\ UNCHANGED <<calls, config, queue, cvMutex, wcur, ran>>

\* pop() of an empty queue would crash: there is no step for it.
WorkerPop ==
  /\ wpc = "pop" /\ queue # << >>
  /\ wcur' = {Head(queue)} /\ queue' = Tail(queue)
  /\ wpc' = "run"
  /\ UNCHANGED <<calls, config, cvMutex, ran>>

\* use_passthrough called by work that the worker runs.
UsePassthroughOnWorker == workerId \/ state # "RUNNING"

IsNested(w) == w # Flush /\ w[2] \in Nested

\* (*func)().  Nested work runs inside it, unless the worker takes itself for
\* another thread and blocks on its own queue.
WorkerRun ==
  /\ wpc = "run"
  /\ IF \E w \in wcur : IsNested(w) /\ ~UsePassthroughOnWorker
       THEN wpc' = "selfSync" /\ UNCHANGED <<ran, wcur>>
       ELSE /\ wpc' = "lock" /\ wcur' = {}
            /\ ran' = IF wcur = {Flush} THEN ran
                      ELSE Append(ran, CHOOSE w \in wcur : TRUE)
  /\ UNCHANGED <<calls, config, queue, cvMutex>>

WorkerStep == WorkerLock \/ WorkerPredQueue \/ WorkerPredState \/ WorkerSleep
              \/ WorkerCheck \/ WorkerPop \/ WorkerRun

(***************************************************************************)
(* push_work and synchronize, called by a producer.                        *)
(***************************************************************************)
UsePassthrough == state # "RUNNING"

PushWork(p, blocking) ==
  /\ ppc[p] = "idle" /\ count[p] < MaxWork
  /\ p # Owner => ~ChangingMode
  /\ count' = [count EXCEPT ![p] = @ + 1]
  /\ blk' = [blk EXCEPT ![p] = blocking]
  /\ Goto(p, IF UsePassthrough THEN "inline" ELSE "push")
  /\ UNCHANGED <<worker, config, queue, ran>>

RunInline(p) ==
  /\ ppc[p] = "inline"
  /\ ran' = Append(ran, Current(p))
  /\ Goto(p, "idle")
  /\ UNCHANGED <<worker, config, queue, blk, count>>

\* worker_queue.push, which stalls while the ring is full.
PushToQueue(p) ==
  /\ ppc[p] \in {"push", "flush"}
  /\ Len(queue) < Capacity
  /\ queue' = Append(queue, IF ppc[p] = "push" THEN Current(p) ELSE Flush)
  /\ Goto(p, IF ppc[p] = "push" THEN "notify" ELSE "flushNotify")
  /\ UNCHANGED <<worker, config, blk, count, ran>>

NotifyOne == wpc' = IF wpc = "asleep" THEN "lock" ELSE wpc

\* The end of push_work: what follows the notification.  synchronize does
\* something only in asynchronous mode.
AfterNotify(p) ==
  IF ppc[p] = "flushNotify" THEN "poll"
  ELSE IF blk[p] /\ mode = "ASYNCHRONOUS" THEN "flush" ELSE "idle"

\* cv.notify_one() without its lock_guard; taken alone, a mutant of Notify.
NotifyUnlocked(p) ==
  /\ ppc[p] \in {"notify", "flushNotify"}
  /\ NotifyOne
  /\ Goto(p, AfterNotify(p))
  /\ UNCHANGED <<config, queue, cvMutex, wcur, blk, count, ran>>

Notify(p) == ~cvMutex /\ NotifyUnlocked(p)

\* Mutant of Synchronize: no flush command, only the wait for an empty queue.
SynchronizeNoFlush(p) ==
  /\ ppc[p] = "idle" /\ mode = "ASYNCHRONOUS"
  /\ p # Owner => ~ChangingMode
  /\ Goto(p, "poll")
  /\ UNCHANGED <<worker, config, queue, blk, count, ran>>

Synchronize(p) ==
  /\ ppc[p] = "idle" /\ mode = "ASYNCHRONOUS"
  /\ p # Owner => ~ChangingMode
  /\ Goto(p, "flush")
  /\ UNCHANGED <<worker, config, queue, blk, count, ran>>

PollEmpty(p) ==
  /\ ppc[p] = "poll" /\ queue = << >>
  /\ Goto(p, "idle")
  /\ UNCHANGED <<worker, config, queue, blk, count, ran>>

(***************************************************************************)
(* set_worker_mode and reset, called by Owner.  Both store the new mode;   *)
(* on the way to SYNCHRONOUS set_worker_mode calls synchronize after the   *)
(* store, when it does nothing: it is stop_worker that drains the queue.   *)
(***************************************************************************)
SetWorkerMode ==
  /\ \A p \in Producers : ppc[p] = "idle"
  /\ modes < MaxModes /\ modes' = modes + 1
  /\ IF mode = "SYNCHRONOUS"
       THEN mode' = "ASYNCHRONOUS" /\ Goto(Owner, "start")
       ELSE mode' = "SYNCHRONOUS" /\ Goto(Owner, "stop")
  /\ UNCHANGED <<worker, state, queue, workerId, blk, count, ran>>

\* reset, of the destructor: the mode is stored after the worker stopped.
Reset ==
  /\ \A p \in Producers : ppc[p] = "idle"
  /\ mode = "ASYNCHRONOUS" /\ modes < MaxModes /\ modes' = modes + 1
  /\ Goto(Owner, "stop")
  /\ UNCHANGED <<worker, mode, state, queue, workerId, blk, count, ran>>

\* start_worker, up to the creation of the thread.
StartWorker ==
  /\ ppc[Owner] = "start"
  /\ state' = "RUNNING" /\ wpc' = "lock" /\ workerId' = FALSE
  /\ Goto(Owner, "started")
  /\ UNCHANGED <<mode, queue, cvMutex, wcur, blk, count, ran, modes>>

SetWorkerThreadId ==
  /\ ppc[Owner] = "started"
  /\ workerId' = TRUE
  /\ Goto(Owner, "idle")
  /\ UNCHANGED <<worker, mode, state, queue, blk, count, ran, modes>>

\* stop_worker: the state is stored before the mutex is taken.
StopWorker ==
  /\ ppc[Owner] = "stop"
  /\ IF state = "IDLE" THEN Goto(Owner, "idle") /\ UNCHANGED state
                       ELSE Goto(Owner, "stopNotify") /\ state' = "TERMINATE"
  /\ UNCHANGED <<worker, mode, queue, workerId, blk, count, ran, modes>>

\* As for Notify: without the mutex this is a mutant of StopNotify.
StopNotifyUnlocked ==
  /\ ppc[Owner] = "stopNotify"
  /\ NotifyOne
  /\ Goto(Owner, "join")
  /\ UNCHANGED <<config, queue, cvMutex, wcur, blk, count, ran>>

StopNotify == ~cvMutex /\ StopNotifyUnlocked

\* The end of stop_worker; not waiting for the thread is a mutant of Join.
JoinNoWait ==
  /\ ppc[Owner] = "join"
  /\ state' = "IDLE" /\ mode' = "SYNCHRONOUS"
  /\ Goto(Owner, "idle")
  /\ UNCHANGED <<worker, queue, workerId, blk, count, ran, modes>>

Join == wpc = "none" /\ JoinNoWait

\* What a producer does inside a call, as opposed to making one.
ProducerStep(p) ==
  \/ RunInline(p) \/ PushToQueue(p) \/ Notify(p) \/ PollEmpty(p)
  \/ p = Owner /\ (StartWorker \/ SetWorkerThreadId \/ StopWorker \/ StopNotify \/ Join)

Next ==
  \/ WorkerStep \/ WorkerSpuriousWake \/ SetWorkerMode \/ Reset
  \/ \E p \in Producers :
       \/ ProducerStep(p) \/ Synchronize(p)
       \/ \E blocking \in BOOLEAN : PushWork(p, blocking)

\* The threads are scheduled, and a thread that wants cv_mutex gets it if it is
\* free again and again (the worker may wake spuriously for ever and take it
\* each time).  Nobody is obliged to make a call.
Fairness ==
  /\ WF_vars(WorkerStep)
  /\ \A p \in Producers : WF_vars(ProducerStep(p)) /\ SF_vars(Notify(p))
  /\ SF_vars(StopNotify)

Spec == Init /\ [][Next]_vars /\ Fairness

(***************************************************************************)
(* Properties.                                                             *)
(***************************************************************************)
\* Work of one producer runs in the order it was pushed and at most once,
\* also when some was queued, some ran in the caller, and the mode changed.
ProgramOrder ==
  \A i, j \in 1 .. Len(ran) :
    i < j /\ ran[i][1] = ran[j][1] => ran[i][2] < ran[j][2]

\* synchronize, or a blocking push_work, returns only after all the work its
\* caller pushed has run to its end: an empty queue alone would not say so.
SynchronizeWaits ==
  [][\A p \in Producers : ppc[p] = "poll" /\ ppc'[p] = "idle" =>
        \A k \in 1 .. count[p] : <<p, k>> \in Range(ran)]_vars

\* When the worker has been stopped no accepted work is left behind, though
\* the synchronize that set_worker_mode calls first does nothing.
StopDrains ==
  state = "IDLE" /\ ppc[Owner] = "idle" =>
    /\ queue = << >> /\ wcur = {}
    /\ \A p \in Producers : \A k \in 1 .. count[p] :
         (k = count[p] /\ ppc[p] = "inline") \/ <<p, k>> \in Range(ran)

\* The worker never pops an empty queue, never blocks on its own queue, and never
\* sleeps on the condition variable with work in the queue or a stop to see and
\* nobody on the way to notify it.
WorkerNeverStuck ==
  /\ wpc = "pop" => queue # << >>
  /\ wpc # "selfSync"
  /\ wpc = "asleep" /\ queue # << >> => \E p \in Producers : ppc[p] \in {"notify", "flushNotify"}
  /\ wpc = "asleep" /\ state = "TERMINATE" => ppc[Owner] = "stopNotify"

\* No wakeup is lost: work that was pushed is run.
PushedWorkRuns ==
  \A p \in Producers : \A k \in 1 .. MaxWork :
    k <= count[p] ~> <<p, k>> \in Range(ran)

\* Every call returns, stop_worker's join included, once the other producers
\* leave the queue alone: synchronize waits for an empty queue, not for its own
\* flush command, so a producer that never stops pushing can hold it up.
CallsReturn ==
  \A p \in Producers :
    <>[](\A q \in Producers \ {p} : ppc[q] = "idle")
      => (ppc[p] # "idle" ~> ppc[p] = "idle")

(***************************************************************************)
(* The inductive invariant behind ProgramOrder, StopDrains,                *)
(* SynchronizeWaits and WorkerNeverStuck.                                  *)
(***************************************************************************)

\* Where the producers can be in each state of the worker: only Owner changes
\* the mode, alone; work is queued while the worker runs, run by the caller
\* while there is none.
CallInv ==
  /\ \A p \in Producers \ {Owner} :
       /\ ppc[p] \notin {"start", "started", "stop", "stopNotify", "join"}
       /\ ChangingMode => ppc[p] = "idle"
  /\ \A p \in Producers :
       /\ ppc[p] \in {"push", "notify", "flush", "flushNotify", "poll"} => state = "RUNNING"
       /\ ppc[p] = "inline" => state = "IDLE"
       /\ ppc[p] \in {"push", "inline"} => count[p] > 0
  /\ state = "IDLE" => IF mode = "SYNCHRONOUS" THEN ppc[Owner] \in {"idle", "inline"}
                                               ELSE ppc[Owner] = "start"
  /\ state = "RUNNING" => /\ ppc[Owner] \notin {"start", "stopNotify", "join"}
                          /\ mode = "ASYNCHRONOUS" \/ ppc[Owner] = "stop"
  /\ state = "TERMINATE" => ppc[Owner] \in {"stopNotify", "join"}

\* The worker thread: it exists unless the state is IDLE or it drained the
\* queue, it holds a unit exactly while it runs it, it goes to pop only with
\* something queued, and it knows its own id before anything is queued.
WorkerInv ==
  /\ state = "IDLE" => wpc = "none"
  /\ wpc = "none" => state # "RUNNING" /\ queue = << >>
  /\ wpc = "run" => \E w \in Work \cup {Flush} : wcur = {w}
  /\ wpc # "run" => wcur = {}
  /\ wpc = "pop" => queue # << >>
  /\ wpc = "check" => queue # << >> \/ state = "TERMINATE"
  /\ state = "RUNNING" /\ ~workerId =>
       ppc[Owner] = "started" /\ queue = << >> /\ wcur = {}
  /\ wpc # "selfSync"

\* w was pushed before x if they are work of one producer.
Older(w, x) == w # Flush /\ x # Flush /\ w[1] = x[1] => w[2] < x[2]

\* What has run is older than what is running, that than what is queued, in
\* the order of the queue, and that than what is still to be pushed or run by
\* its producer.
OrderInv ==
  /\ \A i, j \in 1 .. Len(ran) : i < j => Older(ran[i], ran[j])
  /\ \A i \in 1 .. Len(ran) : \A w \in wcur \cup Range(queue) : Older(ran[i], w)
  /\ \A w \in wcur : \A x \in Range(queue) : Older(w, x)
  /\ \A i, j \in 1 .. Len(queue) : i < j => Older(queue[i], queue[j])
  /\ \A p \in Producers : \A k \in 1 .. MaxWork :
       <<p, k>> \in Range(ran) \cup wcur \cup Range(queue) =>
         k <= count[p] /\ (ppc[p] \in {"push", "inline"} => k < count[p])

\* No unit of work is lost on its way from push_work to its run.
CoverInv ==
  \A p \in Producers : \A k \in 1 .. count[p] :
    \/ <<p, k>> \in Range(ran) \cup wcur \cup Range(queue)
    \/ k = count[p] /\ ppc[p] \in {"push", "inline"}

\* All the work p pushed has run.
AllRan(p) == \A k \in 1 .. count[p] : <<p, k>> \in Range(ran)

\* A flush command is queued with no work of p behind it.
FlushQueued(p) ==
  \E i \in 1 .. Len(queue) :
    /\ queue[i] = Flush
    /\ \A j \in i + 1 .. Len(queue) : \A k \in 1 .. MaxWork : queue[j] # <<p, k>>

\* The flush command of a synchronize is queued behind the caller's work: it
\* leaves the queue only after that work has run.
FlushInv ==
  \A p \in Producers : ppc[p] \in {"flushNotify", "poll"} => AllRan(p) \/ FlushQueued(p)

\* For WorkerNeverStuck.  From the test of its predicate until it sleeps the
\* worker holds the mutex, so what comes behind the test finds it asleep.
WakeInv ==
  /\ wpc \in {"predQueue", "predState", "sleep"} => cvMutex
  /\ wpc \in {"predState", "sleep", "asleep"} /\ queue # << >> =>
       \E p \in Producers : ppc[p] \in {"notify", "flushNotify"}
  /\ wpc \in {"sleep", "asleep"} /\ state = "TERMINATE" => ppc[Owner] = "stopNotify"

ExecutorInv == TypeOK /\ CallInv /\ WorkerInv /\ OrderInv /\ CoverInv /\ FlushInv
=============================================================================
