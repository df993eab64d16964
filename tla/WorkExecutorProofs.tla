------------------------- MODULE WorkExecutorProofs --------------------------
(***************************************************************************)
(* Proofs about WorkExecutor for every set of producers, every capacity of *)
(* the queue, any amount of work and any number of mode changes.           *)
(***************************************************************************)
EXTENDS WorkExecutor, Integers, SequenceTheorems, TLAPS

\* The range of a sequence is the set of its entries.
LEMMA RangeFacts ==
  ASSUME NEW S, NEW s \in Seq(S)
  PROVE  /\ Range(s) \subseteq S
         /\ \A i \in 1 .. Len(s) : s[i] \in Range(s)
         /\ \A x \in Range(s) : \E i \in 1 .. Len(s) : s[i] = x
         /\ s = << >> <=> Range(s) = {}
         /\ s = << >> <=> Len(s) = 0
<1>1. DOMAIN s = 1 .. Len(s) /\ Len(s) \in Nat
  BY LenProperties
<1>2. Range(s) = {s[i] : i \in 1 .. Len(s)}
  BY <1>1 DEF Range
<1>3. s = << >> <=> Len(s) = 0
  BY EmptySeq
<1>4. Len(s) # 0 => 1 \in 1 .. Len(s)
  BY <1>1
<1>. QED BY <1>1, <1>2, <1>3, <1>4, ElementOfSeq

\* Appending an entry.
LEMMA AppendFacts ==
  ASSUME NEW S, NEW s \in Seq(S), NEW e \in S
  PROVE  /\ Append(s, e) \in Seq(S)
         /\ Len(Append(s, e)) = Len(s) + 1
         /\ \A i \in 1 .. Len(s) : Append(s, e)[i] = s[i]
         /\ Append(s, e)[Len(s) + 1] = e
         /\ Range(Append(s, e)) = Range(s) \cup {e}
<1>1. /\ Append(s, e) \in Seq(S)
      /\ Len(Append(s, e)) = Len(s) + 1 /\ Len(s) \in Nat
      /\ \A i \in 1 .. Len(s) : Append(s, e)[i] = s[i]
      /\ Append(s, e)[Len(s) + 1] = e
  OBVIOUS
<1>2. Range(Append(s, e)) = {Append(s, e)[i] : i \in 1 .. Len(s) + 1}
  BY <1>1, LenProperties DEF Range
<1>3. Range(s) = {s[i] : i \in 1 .. Len(s)}
  BY LenProperties DEF Range
<1>4. 1 .. Len(s) + 1 = (1 .. Len(s)) \cup {Len(s) + 1}
  BY <1>1
<1>. QED BY <1>1, <1>2, <1>3, <1>4

\* Taking the first entry off.
LEMMA TailFacts ==
  ASSUME NEW S, NEW s \in Seq(S), s # << >>
  PROVE  /\ Head(s) = s[1] /\ Head(s) \in S /\ Head(s) \in Range(s)
         /\ Len(s) \in Nat \ {0}
         /\ Tail(s) \in Seq(S)
         /\ Len(Tail(s)) = Len(s) - 1
         /\ \A i \in 1 .. Len(s) - 1 : Tail(s)[i] = s[i + 1]
         /\ Range(s) = {Head(s)} \cup Range(Tail(s))
<1>1. /\ Head(s) = s[1] /\ Head(s) \in S
      /\ Tail(s) \in Seq(S)
      /\ Len(Tail(s)) = Len(s) - 1
      /\ \A i \in 1 .. Len(s) - 1 : Tail(s)[i] = s[i + 1]
  BY HeadTailProperties
<1>2. Len(s) \in Nat \ {0}
  BY EmptySeq
<1>3. Range(Tail(s)) = {s[i + 1] : i \in 1 .. Len(s) - 1}
  BY <1>1, LenProperties DEF Range
<1>4. Range(s) = {s[i] : i \in 1 .. Len(s)}
  BY LenProperties DEF Range
<1>5. \A i \in 1 .. Len(s) : i = 1 \/ (i - 1 \in 1 .. Len(s) - 1 /\ i = (i - 1) + 1)
  BY <1>2
<1>6. \A i \in 1 .. Len(s) - 1 : i + 1 \in 1 .. Len(s)
  BY <1>2
<1>7. 1 \in 1 .. Len(s)
  BY <1>2
<1>8. ASSUME NEW x \in Range(s) PROVE x \in {Head(s)} \cup Range(Tail(s))
  <2>1. PICK i \in 1 .. Len(s) : x = s[i]
    BY <1>4, <1>8
  <2>2. CASE i = 1
    BY <1>1, <2>1, <2>2
  <2>3. CASE i - 1 \in 1 .. Len(s) - 1 /\ i = (i - 1) + 1
    BY <1>3, <2>1, <2>3
  <2>. QED BY <1>5, <2>2, <2>3
<1>9. ASSUME NEW x \in {Head(s)} \cup Range(Tail(s)) PROVE x \in Range(s)
  BY <1>1, <1>3, <1>4, <1>6, <1>7, <1>9
<1>10. Range(s) = {Head(s)} \cup Range(Tail(s))
  BY <1>8, <1>9
<1>. QED BY <1>1, <1>2, <1>10

USE WorkAssumption

\* The flush command is not a unit of work.
LEMMA FlushIsNotWork ==
  /\ Flush \notin Work
  /\ \A p, k : <<p, k>> # Flush
BY DEF Flush, Work

\* A unit of work is a pair of its producer and its number.
LEMMA WorkIsPair ==
  ASSUME NEW w \in Work
  PROVE  /\ w = <<w[1], w[2]>> /\ w # Flush
         /\ w[1] \in Producers /\ w[2] \in 1 .. MaxWork
BY FlushIsNotWork DEF Work

\* The constructor establishes the invariant.
LEMMA InitLemma == Init => ExecutorInv
<1> SUFFICES ASSUME Init PROVE ExecutorInv
  OBVIOUS
<1> USE DEF Init
<1>0. Len(<< >>) = 0 /\ Range(<< >>) = {}
  BY EmptySeq, RangeFacts
<1>1. TypeOK
  <2>1. /\ queue \in Seq(Work \cup {Flush}) /\ Len(queue) <= Capacity
        /\ ran \in Seq(Work)
    BY <1>0
  <2>2. ppc \in [Producers -> {"idle", "inline", "push", "notify", "flush", "flushNotify",
                               "poll", "start", "started", "stop", "stopNotify", "join"}]
    OBVIOUS
  <2>3. blk \in [Producers -> BOOLEAN] /\ count \in [Producers -> 0 .. MaxWork]
    OBVIOUS
  <2>4. workerId \in BOOLEAN /\ cvMutex \in BOOLEAN
    OBVIOUS
  <2>. QED BY <2>1, <2>2, <2>3, <2>4 DEF TypeOK
<1>2. CallInv BY DEF CallInv, ChangingMode
<1>3. WorkerInv BY DEF WorkerInv
<1>4. OrderInv BY <1>0 DEF OrderInv
<1>5. CoverInv BY DEF CoverInv
<1>6. FlushInv BY DEF FlushInv
<1>. QED BY <1>1, <1>2, <1>3, <1>4, <1>5, <1>6 DEF ExecutorInv

\* What the worker adds to ran, and what a producer adds to the queue or to ran.
LEMMA RunEffect ==
  ASSUME ExecutorInv, WorkerRun
  PROVE  \E w \in Work \cup {Flush} :
           /\ wcur = {w} /\ wcur' = {}
           /\ wpc = "run" /\ wpc' = "lock"
           /\ ran' = IF w = Flush THEN ran ELSE Append(ran, w)
           /\ UNCHANGED <<calls, config, queue, cvMutex>>
<1> USE DEF ExecutorInv, WorkerRun
<1>1. PICK w \in Work \cup {Flush} : wcur = {w}
  BY DEF WorkerInv
<1>2. UsePassthroughOnWorker
  BY <1>1 DEF WorkerInv, UsePassthroughOnWorker
<1>3. (CHOOSE x \in wcur : TRUE) = w
  BY <1>1
<1>4. wcur = {Flush} <=> w = Flush
  BY <1>1
<1>. QED BY <1>1, <1>2, <1>3, <1>4

\* The unit of work a producer is about to queue or to run.
LEMMA CurrentIsWork ==
  ASSUME TypeOK, CallInv, NEW p \in Producers, ppc[p] \in {"push", "inline"}
  PROVE  Current(p) \in Work /\ count[p] \in 1 .. MaxWork
BY DEF TypeOK, CallInv, Current, Work

\* Every step keeps the variables in their types.
LEMMA TypeStep == ExecutorInv /\ [Next]_vars => TypeOK'
<1> SUFFICES ASSUME ExecutorInv, [Next]_vars PROVE TypeOK'
  OBVIOUS
<1> USE DEF TypeOK
<1>0. TypeOK /\ CallInv BY DEF ExecutorInv
<1>1. CASE WorkerStep \/ WorkerSpuriousWake
  <2>1. CASE WorkerLock \/ WorkerPredQueue \/ WorkerPredState \/ WorkerSleep \/ WorkerCheck
             \/ WorkerSpuriousWake
    BY <1>0, <2>1 DEF WorkerLock, WorkerPredQueue, WorkerPredState, WorkerSleep, WorkerCheck,
       WorkerSpuriousWake, calls, config
  <2>2. CASE WorkerPop
    BY <1>0, <2>2, TailFacts DEF WorkerPop, calls, config
  <2>3. CASE WorkerRun
    <3>1. PICK w \in Work \cup {Flush} :
             /\ wcur' = {} /\ wpc' = "lock"
             /\ ran' = IF w = Flush THEN ran ELSE Append(ran, w)
             /\ UNCHANGED <<calls, config, queue, cvMutex>>
      BY <2>3, RunEffect
    <3>2. ran' \in Seq(Work) BY <1>0, <3>1, AppendFacts
    <3>. QED BY <1>0, <3>1, <3>2 DEF calls, config
  <2>. QED BY <1>1, <2>1, <2>2, <2>3 DEF WorkerStep
<1>2. CASE SetWorkerMode \/ Reset
  BY <1>0, <1>2 DEF SetWorkerMode, Reset, Goto, worker
<1>3. ASSUME NEW p \in Producers, ProducerStep(p) PROVE TypeOK'
  <2>1. CASE RunInline(p)
    <3>1. ran' \in Seq(Work)
      BY <1>0, <2>1, CurrentIsWork, AppendFacts DEF RunInline
    <3>. QED BY <1>0, <2>1, <3>1 DEF RunInline, Goto, worker, config
  <2>2. CASE PushToQueue(p)
    <3>1. PICK w \in Work \cup {Flush} : queue' = Append(queue, w)
      BY <1>0, <2>2, CurrentIsWork DEF PushToQueue
    <3>2. queue' \in Seq(Work \cup {Flush}) /\ Len(queue') <= Capacity
      BY <1>0, <2>2, <3>1, AppendFacts DEF PushToQueue
    <3>. QED BY <1>0, <2>2, <3>2 DEF PushToQueue, Goto, worker, config
  <2>3. CASE Notify(p)
    BY <1>0, <2>3 DEF Notify, NotifyUnlocked, NotifyOne, AfterNotify, Goto, config
  <2>4. CASE PollEmpty(p)
    BY <1>0, <2>4 DEF PollEmpty, Goto, worker, config
  <2>5. CASE StartWorker \/ SetWorkerThreadId \/ StopWorker
    BY <1>0, <2>5 DEF StartWorker, SetWorkerThreadId, StopWorker, Goto, worker
  <2>6. CASE StopNotify \/ Join
    BY <1>0, <2>6 DEF StopNotify, StopNotifyUnlocked, NotifyOne, Join, JoinNoWait, Goto,
       worker, config
  <2>. QED BY <1>3, <2>1, <2>2, <2>3, <2>4, <2>5, <2>6 DEF ProducerStep
<1>4. ASSUME NEW p \in Producers, Synchronize(p) PROVE TypeOK'
  BY <1>0, <1>4 DEF Synchronize, Goto, worker, config
<1>5. ASSUME NEW p \in Producers, NEW b \in BOOLEAN, PushWork(p, b) PROVE TypeOK'
  <2>1. count' \in [Producers -> 0 .. MaxWork]
    BY <1>0, <1>5 DEF PushWork
  <2>2. blk' \in [Producers -> BOOLEAN] BY <1>0, <1>5, Zenon DEF PushWork
  <2>. QED BY <1>0, <1>5, <2>1, <2>2 DEF PushWork, Goto, worker, config
<1>6. CASE UNCHANGED vars
  BY <1>0, <1>6 DEF vars
<1>. QED BY <1>1, <1>2, <1>3, <1>4, <1>5, <1>6 DEF Next

\* Where the producers are, and when.
LEMMA CallStep == ExecutorInv /\ [Next]_vars => CallInv'
<1> SUFFICES ASSUME ExecutorInv, [Next]_vars PROVE CallInv'
  OBVIOUS
<1> USE DEF TypeOK, CallInv, ChangingMode
<1>0. TypeOK /\ CallInv BY DEF ExecutorInv
<1>1. CASE WorkerStep \/ WorkerSpuriousWake
  <2>1. UNCHANGED <<calls, config>>
    BY <1>1, RunEffect DEF WorkerStep, WorkerSpuriousWake, WorkerLock, WorkerPredQueue,
       WorkerPredState, WorkerSleep, WorkerCheck, WorkerPop, WorkerRun
  <2>. QED BY <1>0, <2>1 DEF calls, config
<1>2. CASE SetWorkerMode \/ Reset
  BY <1>0, <1>2 DEF SetWorkerMode, Reset, Goto, worker
<1>3. ASSUME NEW p \in Producers, ProducerStep(p) PROVE CallInv'
  <2>1. CASE RunInline(p)
    BY <1>0, <2>1 DEF RunInline, Goto, config
  <2>2. CASE PushToQueue(p)
    BY <1>0, <2>2 DEF PushToQueue, Goto, config
  <2>3. CASE Notify(p)
    BY <1>0, <2>3 DEF Notify, NotifyUnlocked, AfterNotify, Goto, config
  <2>4. CASE PollEmpty(p)
    BY <1>0, <2>4 DEF PollEmpty, Goto, config
  <2>5. CASE StartWorker
    BY <1>0, <2>5 DEF StartWorker, Goto
  <2>6. CASE SetWorkerThreadId
    BY <1>0, <2>6 DEF SetWorkerThreadId, Goto
  <2>7. CASE StopWorker
    BY <1>0, <2>7 DEF StopWorker, Goto
  <2>8. CASE StopNotify
    BY <1>0, <2>8 DEF StopNotify, StopNotifyUnlocked, Goto, config
  <2>9. CASE Join
    BY <1>0, <2>9 DEF Join, JoinNoWait, Goto
  <2>. QED BY <1>3, <2>1, <2>2, <2>3, <2>4, <2>5, <2>6, <2>7, <2>8, <2>9 DEF ProducerStep
<1>4. ASSUME NEW p \in Producers, Synchronize(p) PROVE CallInv'
  BY <1>0, <1>4 DEF Synchronize, Goto, config
<1>5. ASSUME NEW p \in Producers, NEW b \in BOOLEAN, PushWork(p, b) PROVE CallInv'
  BY <1>0, <1>5 DEF PushWork, UsePassthrough, Goto, config
<1>6. CASE UNCHANGED vars
  BY <1>0, <1>6 DEF vars
<1>. QED BY <1>1, <1>2, <1>3, <1>4, <1>5, <1>6 DEF Next

\* What the worker thread holds, and when it exists.
LEMMA WorkerInvStep == ExecutorInv /\ [Next]_vars => WorkerInv'
<1> SUFFICES ASSUME ExecutorInv, [Next]_vars PROVE WorkerInv'
  OBVIOUS
<1>0. TypeOK /\ CallInv /\ WorkerInv BY DEF ExecutorInv
<1> USE DEF TypeOK, WorkerInv
<1>1. CASE WorkerStep \/ WorkerSpuriousWake
  <2>1. CASE WorkerLock BY <1>0, <2>1 DEF WorkerLock, calls, config
  <2>2. CASE WorkerPredQueue BY <1>0, <2>2 DEF WorkerPredQueue, calls, config
  <2>3. CASE WorkerPredState BY <1>0, <2>3 DEF WorkerPredState, calls, config
  <2>4. CASE WorkerSleep BY <1>0, <2>4 DEF WorkerSleep, calls, config
  <2>5. CASE WorkerSpuriousWake BY <1>0, <2>5 DEF WorkerSpuriousWake, calls, config
  <2>6. CASE WorkerCheck BY <1>0, <2>6 DEF WorkerCheck, calls, config
  <2>7. CASE WorkerPop
    <3>1. Head(queue) \in Work \cup {Flush} BY <1>0, <2>7, TailFacts DEF WorkerPop
    <3>. QED BY <1>0, <2>7, <3>1 DEF WorkerPop, calls, config
  <2>8. CASE WorkerRun
    <3>1. /\ wcur' = {} /\ wpc = "run" /\ wpc' = "lock"
          /\ UNCHANGED <<calls, config, queue, cvMutex>>
      BY <2>8, RunEffect
    <3>. QED BY <1>0, <3>1 DEF calls, config
  <2>. QED BY <1>1, <2>1, <2>2, <2>3, <2>4, <2>5, <2>6, <2>7, <2>8 DEF WorkerStep
<1>2. CASE SetWorkerMode \/ Reset
  BY <1>0, <1>2 DEF SetWorkerMode, Reset, Goto, worker
<1>3. ASSUME NEW p \in Producers, ProducerStep(p) PROVE WorkerInv'
  <2>1. CASE RunInline(p)
    BY <1>0, <2>1 DEF RunInline, Goto, worker, config, CallInv
  <2>2. CASE PushToQueue(p)
    <3>1. PICK w \in Work \cup {Flush} : queue' = Append(queue, w)
      BY <1>0, <2>2, CurrentIsWork DEF PushToQueue
    <3>2. queue' # << >>
      BY <1>0, <3>1
    <3>3. state = "RUNNING" /\ workerId
      BY <1>0, <2>2 DEF PushToQueue, CallInv, ChangingMode
    <3>. QED BY <1>0, <2>2, <3>2, <3>3 DEF PushToQueue, Goto, worker, config
  <2>3. CASE Notify(p)
    BY <1>0, <2>3 DEF Notify, NotifyUnlocked, NotifyOne, AfterNotify, Goto, config, CallInv,
       ChangingMode
  <2>4. CASE PollEmpty(p)
    BY <1>0, <2>4 DEF PollEmpty, Goto, worker, config
  <2>5. CASE StartWorker
    BY <1>0, <2>5 DEF StartWorker, Goto, CallInv
  <2>6. CASE SetWorkerThreadId
    BY <1>0, <2>6 DEF SetWorkerThreadId, Goto, worker
  <2>7. CASE StopWorker
    BY <1>0, <2>7 DEF StopWorker, Goto, worker
  <2>8. CASE StopNotify
    BY <1>0, <2>8 DEF StopNotify, StopNotifyUnlocked, NotifyOne, Goto, config, CallInv
  <2>9. CASE Join
    BY <1>0, <2>9 DEF Join, JoinNoWait, Goto, worker
  <2>. QED BY <1>3, <2>1, <2>2, <2>3, <2>4, <2>5, <2>6, <2>7, <2>8, <2>9 DEF ProducerStep
<1>4. ASSUME NEW p \in Producers, Synchronize(p) PROVE WorkerInv'
  BY <1>0, <1>4 DEF Synchronize, Goto, worker, config
<1>5. ASSUME NEW p \in Producers, NEW b \in BOOLEAN, PushWork(p, b) PROVE WorkerInv'
  BY <1>0, <1>5 DEF PushWork, Goto, worker, config
<1>6. CASE UNCHANGED vars
  BY <1>0, <1>6 DEF vars
<1>. QED BY <1>1, <1>2, <1>3, <1>4, <1>5, <1>6 DEF Next

\* A step that moves no work, and lets nobody into a call that would, keeps
\* the order and loses nothing.
LEMMA QuietStep ==
  ASSUME ExecutorInv, UNCHANGED <<queue, wcur, ran, count>>,
         \A p \in Producers :
           /\ ppc'[p] \in {"push", "inline"} <=> ppc[p] \in {"push", "inline"}
           /\ ppc'[p] \in {"flushNotify", "poll"} => ppc[p] \in {"flushNotify", "poll"}
  PROVE  OrderInv' /\ CoverInv' /\ FlushInv'
<1>1. OrderInv' BY DEF ExecutorInv, OrderInv, Older
<1>2. CoverInv' BY DEF ExecutorInv, CoverInv
<1>3. \A p \in Producers : (AllRan(p)' <=> AllRan(p)) /\ (FlushQueued(p)' <=> FlushQueued(p))
  BY Zenon DEF AllRan, FlushQueued
<1>4. FlushInv' BY <1>3 DEF ExecutorInv, FlushInv
<1>. QED BY <1>1, <1>2, <1>4

\* What a producer is about to queue or run is its youngest work.
LEMMA CurrentIsYoungest ==
  ASSUME ExecutorInv, NEW p \in Producers, ppc[p] \in {"push", "inline"}
  PROVE  \A w \in Range(ran) \cup wcur \cup Range(queue) : Older(w, Current(p))
<1> USE DEF ExecutorInv
<1> TAKE w \in Range(ran) \cup wcur \cup Range(queue)
<1>1. w \in Work \cup {Flush}
  BY RangeFacts DEF TypeOK
<1>2. CASE w = Flush BY <1>2 DEF Older
<1>3. CASE w \in Work
  <2>1. w = <<w[1], w[2]>> /\ w[1] \in Producers /\ w[2] \in 1 .. MaxWork
    BY <1>3, WorkIsPair
  <2>2. w[1] = p => w[2] < count[p]
    BY <2>1 DEF OrderInv
  <2>. QED BY <2>1, <2>2 DEF Older, Current
<1>. QED BY <1>1, <1>2, <1>3

\* The worker takes the oldest queued unit.
LEMMA PopStep ==
  ASSUME ExecutorInv, WorkerPop
  PROVE  OrderInv' /\ CoverInv' /\ FlushInv'
<1> USE DEF ExecutorInv
<1>1. /\ queue # << >> /\ wcur = {} /\ wcur' = {Head(queue)} /\ queue' = Tail(queue)
      /\ UNCHANGED <<ran, count, ppc>>
  BY DEF WorkerPop, WorkerInv, calls
<1>0. queue \in Seq(Work \cup {Flush}) BY DEF TypeOK
<1>2. /\ Head(queue) = queue[1] /\ Len(queue) \in Nat \ {0}
      /\ Len(queue') = Len(queue) - 1
      /\ \A i \in 1 .. Len(queue) - 1 : queue'[i] = queue[i + 1]
      /\ Range(queue) = wcur' \cup Range(queue') /\ queue' \in Seq(Work \cup {Flush})
  BY <1>1, TailFacts DEF TypeOK
<1>3. OrderInv'
  <2>1. (\A i, j \in 1 .. Len(ran) : i < j => Older(ran[i], ran[j]))'
    BY <1>1 DEF OrderInv, Older
  <2>2. (\A i \in 1 .. Len(ran) : \A w \in wcur \cup Range(queue) : Older(ran[i], w))'
    BY <1>1, <1>2 DEF OrderInv, Older
  <2>3. (\A w \in wcur : \A x \in Range(queue) : Older(w, x))'
    <3> SUFFICES ASSUME NEW x \in Range(queue') PROVE Older(queue[1], x)
      BY <1>1, <1>2 DEF Older
    <3>1. PICK i \in 1 .. Len(queue') : queue'[i] = x
      BY <1>2, RangeFacts
    <3>2. x = queue[i + 1] /\ i + 1 \in 1 .. Len(queue) /\ 1 \in 1 .. Len(queue) /\ 1 < i + 1
      BY <1>2, <3>1
    <3>. QED BY <3>2 DEF OrderInv
  <2>4. (\A i, j \in 1 .. Len(queue) : i < j => Older(queue[i], queue[j]))'
    <3> SUFFICES ASSUME NEW i \in 1 .. Len(queue'), NEW j \in 1 .. Len(queue'), i < j
                 PROVE  Older(queue[i + 1], queue[j + 1])
      BY <1>2 DEF Older
    <3>1. i + 1 \in 1 .. Len(queue) /\ j + 1 \in 1 .. Len(queue) /\ i + 1 < j + 1
      BY <1>2
    <3>. QED BY <3>1 DEF OrderInv
  <2>5. (\A p \in Producers : \A k \in 1 .. MaxWork :
           <<p, k>> \in Range(ran) \cup wcur \cup Range(queue) =>
             k <= count[p] /\ (ppc[p] \in {"push", "inline"} => k < count[p]))'
    BY <1>1, <1>2 DEF OrderInv
  <2>. QED BY <2>1, <2>2, <2>3, <2>4, <2>5 DEF OrderInv
<1>4. CoverInv'
  BY <1>1, <1>2 DEF CoverInv
<1>5. FlushInv'
  <2> SUFFICES ASSUME NEW p \in Producers, ppc[p] \in {"flushNotify", "poll"}, ~AllRan(p)
               PROVE  FlushQueued(p)'
    BY <1>1 DEF FlushInv, AllRan
  <2>1. PICK i \in 1 .. Len(queue) :
           /\ queue[i] = Flush
           /\ \A j \in i + 1 .. Len(queue) : \A k \in 1 .. MaxWork : queue[j] # <<p, k>>
    BY DEF FlushInv, FlushQueued
  <2>2. i # 1
    <3> SUFFICES ASSUME i = 1, NEW k \in 1 .. count[p] PROVE <<p, k>> \in Range(ran)
      BY DEF AllRan
    <3>1. k \in 1 .. MaxWork BY DEF TypeOK
    <3>2. <<p, k>> \in Range(ran) \cup Range(queue)
      BY <1>1 DEF CoverInv
    <3>3. ASSUME <<p, k>> \in Range(queue) PROVE FALSE
      <4>1. PICK j \in 1 .. Len(queue) : queue[j] = <<p, k>>
        BY <1>0, <3>3, RangeFacts
      <4>2. j = 1 \/ j \in i + 1 .. Len(queue)
        BY <1>2
      <4>. QED BY <2>1, <3>1, <4>1, <4>2, FlushIsNotWork
    <3>. QED BY <3>2, <3>3
  <2>3. i - 1 \in 1 .. Len(queue') /\ queue'[i - 1] = Flush
    BY <1>2, <2>1, <2>2
  <2>4. \A j \in (i - 1) + 1 .. Len(queue') : queue'[j] = queue[j + 1] /\ j + 1 \in i + 1 .. Len(queue)
    BY <1>2, <2>1, <2>2
  <2>. QED BY <2>1, <2>3, <2>4 DEF FlushQueued
<1>. QED BY <1>3, <1>4, <1>5

\* Appending the youngest unit of its producer to what has run.
LEMMA RanGrows ==
  ASSUME ExecutorInv, NEW w \in Work,
         ran' = Append(ran, w),
         \A x \in Range(ran) : Older(x, w),
         \A x \in Range(queue) : Older(w, x),
         wcur' = {}, UNCHANGED queue
  PROVE  /\ (\A i, j \in 1 .. Len(ran) : i < j => Older(ran[i], ran[j]))'
         /\ (\A i \in 1 .. Len(ran) : \A x \in wcur \cup Range(queue) : Older(ran[i], x))'
         /\ (\A v \in wcur : \A x \in Range(queue) : Older(v, x))'
         /\ (\A i, j \in 1 .. Len(queue) : i < j => Older(queue[i], queue[j]))'
         /\ Range(ran') = Range(ran) \cup {w}
<1> USE DEF ExecutorInv
<1>1. /\ Len(ran') = Len(ran) + 1 /\ Len(ran) \in Nat
      /\ \A i \in 1 .. Len(ran) : ran'[i] = ran[i] /\ ran[i] \in Range(ran)
      /\ ran'[Len(ran) + 1] = w
      /\ Range(ran') = Range(ran) \cup {w}
  BY AppendFacts, RangeFacts DEF TypeOK
<1>2. \A i \in 1 .. Len(ran') : i \in 1 .. Len(ran) \/ i = Len(ran) + 1
  BY <1>1
<1>3. ASSUME NEW i \in 1 .. Len(ran'), NEW j \in 1 .. Len(ran'), i < j
      PROVE  Older(ran'[i], ran'[j])
  <2>1. i \in 1 .. Len(ran) BY <1>1, <1>3
  <2>2. CASE j \in 1 .. Len(ran) BY <1>1, <1>3, <2>1, <2>2 DEF OrderInv
  <2>3. CASE j = Len(ran) + 1 BY <1>1, <2>1, <2>3
  <2>. QED BY <1>2, <2>2, <2>3
<1>4. ASSUME NEW i \in 1 .. Len(ran'), NEW x \in Range(queue)
      PROVE  Older(ran'[i], x)
  BY <1>1, <1>2 DEF OrderInv
<1>5. \A i, j \in 1 .. Len(queue) : i < j => Older(queue[i], queue[j])
  BY DEF OrderInv
<1>. QED BY <1>1, <1>3, <1>4, <1>5 DEF Older

\* The worker ends the unit it runs.
LEMMA RunStep ==
  ASSUME ExecutorInv, WorkerRun
  PROVE  OrderInv' /\ CoverInv' /\ FlushInv'
<1> USE DEF ExecutorInv
<1>1. PICK w \in Work \cup {Flush} :
           /\ wcur = {w} /\ wcur' = {}
           /\ ran' = IF w = Flush THEN ran ELSE Append(ran, w)
           /\ UNCHANGED <<queue, count, ppc>>
  BY RunEffect DEF calls
<1>2. CASE w = Flush
  <2>1. OrderInv'
    BY <1>1, <1>2 DEF OrderInv, Older
  <2>2. CoverInv'
    BY <1>1, <1>2, FlushIsNotWork DEF CoverInv
  <2>3. FlushInv'
    <3>1. \A p \in Producers : (AllRan(p)' <=> AllRan(p)) /\ (FlushQueued(p)' <=> FlushQueued(p))
      BY <1>1, <1>2, Zenon DEF AllRan, FlushQueued
    <3>. QED BY <1>1, <3>1 DEF FlushInv
  <2>. QED BY <2>1, <2>2, <2>3
<1>3. CASE w \in Work
  <2>1. ran' = Append(ran, w)
    BY <1>1, <1>3, FlushIsNotWork
  <2>2. \A x \in Range(ran) : Older(x, w)
    <3> TAKE x \in Range(ran)
    <3>1. ran \in Seq(Work) BY DEF TypeOK
    <3>2. PICK i \in 1 .. Len(ran) : ran[i] = x BY <3>1, RangeFacts
    <3>. QED BY <1>1, <3>2 DEF OrderInv
  <2>3. \A x \in Range(queue) : Older(w, x)
    BY <1>1 DEF OrderInv
  <2>4. Range(ran') = Range(ran) \cup {w}
    BY <1>1, <1>3, <2>1, <2>2, <2>3, RanGrows
  <2>5. OrderInv'
    <3>1. (\A p \in Producers : \A k \in 1 .. MaxWork :
             <<p, k>> \in Range(ran) \cup wcur \cup Range(queue) =>
               k <= count[p] /\ (ppc[p] \in {"push", "inline"} => k < count[p]))'
      BY <1>1, <2>4 DEF OrderInv
    <3>. QED BY <1>1, <1>3, <2>1, <2>2, <2>3, <3>1, RanGrows DEF OrderInv
  <2>6. CoverInv'
    BY <1>1, <2>4 DEF CoverInv
  <2>7. \A p \in Producers : (AllRan(p) => AllRan(p)') /\ (FlushQueued(p)' <=> FlushQueued(p))
    BY <1>1, <2>4, Zenon DEF AllRan, FlushQueued
  <2>8. FlushInv'
    BY <1>1, <2>7 DEF FlushInv
  <2>. QED BY <2>5, <2>6, <2>8
<1>. QED BY <1>2, <1>3

\* A producer runs its work itself: there is no worker, and nothing is queued.
LEMMA InlineStep ==
  ASSUME ExecutorInv, NEW p \in Producers, RunInline(p)
  PROVE  OrderInv' /\ CoverInv' /\ FlushInv'
<1> USE DEF ExecutorInv
<1>1. /\ ppc[p] = "inline" /\ ran' = Append(ran, Current(p))
      /\ ppc' = [ppc EXCEPT ![p] = "idle"]
      /\ UNCHANGED <<queue, wcur, count>>
  BY DEF RunInline, Goto, worker
<1>2. queue = << >> /\ wcur = {}
  BY <1>1 DEF CallInv, WorkerInv
<1>3. Range(queue) = {} BY <1>2, RangeFacts DEF TypeOK
<1>4. Current(p) \in Work BY <1>1, CurrentIsWork
<1>5. \A x \in Range(ran) : Older(x, Current(p))
  BY <1>1, CurrentIsYoungest
<1>6. Range(ran') = Range(ran) \cup {Current(p)}
  BY <1>1, <1>2, <1>3, <1>4, <1>5, RanGrows
<1>7. OrderInv'
  <2>1. (\A q \in Producers : \A k \in 1 .. MaxWork :
           <<q, k>> \in Range(ran) \cup wcur \cup Range(queue) =>
             k <= count[q] /\ (ppc[q] \in {"push", "inline"} => k < count[q]))'
    <3> SUFFICES ASSUME NEW q \in Producers, NEW k \in 1 .. MaxWork,
                        <<q, k>> \in Range(ran) \cup {Current(p)}
                 PROVE  k <= count[q] /\ (ppc'[q] \in {"push", "inline"} => k < count[q])
      BY <1>1, <1>2, <1>3, <1>6
    <3>1. CASE <<q, k>> \in Range(ran)
      BY <1>1, <3>1 DEF OrderInv, TypeOK
    <3>2. CASE <<q, k>> = Current(p)
      BY <1>1, <3>2 DEF Current, TypeOK
    <3>. QED BY <3>1, <3>2
  <2>. QED BY <1>1, <1>2, <1>3, <1>4, <1>5, <2>1, RanGrows DEF OrderInv
<1>8. CoverInv'
  BY <1>1, <1>6 DEF CoverInv, Current, TypeOK
<1>9. FlushInv'
  <2>1. \A q \in Producers : ppc'[q] \notin {"flushNotify", "poll"}
    BY <1>1 DEF CallInv, TypeOK
  <2>. QED BY <2>1 DEF FlushInv
<1>. QED BY <1>7, <1>8, <1>9

\* A producer appends its youngest unit, or a flush command, to the queue.
LEMMA QueueStep ==
  ASSUME ExecutorInv, NEW p \in Producers, PushToQueue(p)
  PROVE  OrderInv' /\ CoverInv' /\ FlushInv'
<1> USE DEF ExecutorInv
<1> DEFINE w == IF ppc[p] = "push" THEN Current(p) ELSE Flush
<1>0. queue \in Seq(Work \cup {Flush}) /\ ran \in Seq(Work) BY DEF TypeOK
<1>1. /\ ppc[p] \in {"push", "flush"} /\ queue' = Append(queue, w)
      /\ ppc' = [ppc EXCEPT ![p] = IF ppc[p] = "push" THEN "notify" ELSE "flushNotify"]
      /\ UNCHANGED <<ran, wcur, count>>
  BY DEF PushToQueue, Goto, worker
<1>2. w \in Work \cup {Flush}
  BY <1>1, CurrentIsWork
<1>3. \A x \in Range(ran) \cup wcur \cup Range(queue) : Older(x, w)
  BY <1>1, CurrentIsYoungest DEF Older
<1> HIDE DEF w
<1>4. /\ Len(queue') = Len(queue) + 1 /\ Len(queue) \in Nat
      /\ \A i \in 1 .. Len(queue) : queue'[i] = queue[i] /\ queue[i] \in Range(queue)
      /\ queue'[Len(queue) + 1] = w
      /\ Range(queue') = Range(queue) \cup {w}
  <2>1. \A i \in 1 .. Len(queue) : queue[i] \in Range(queue)
    BY <1>0, RangeFacts
  <2>2. Len(queue) \in Nat BY <1>0
  <2>. QED BY <1>0, <1>1, <1>2, <2>1, <2>2, AppendFacts
<1>5. OrderInv'
  <2>1. (\A i, j \in 1 .. Len(ran) : i < j => Older(ran[i], ran[j]))'
    BY <1>1 DEF OrderInv, Older
  <2>2. (\A i \in 1 .. Len(ran) : \A x \in wcur \cup Range(queue) : Older(ran[i], x))'
    <3> SUFFICES ASSUME NEW i \in 1 .. Len(ran), NEW x \in wcur \cup Range(queue) \cup {w}
                 PROVE  Older(ran[i], x)
      BY <1>1, <1>4 DEF Older
    <3>1. ran[i] \in Range(ran) BY <1>0, RangeFacts
    <3>. QED BY <1>3, <3>1 DEF OrderInv
  <2>3. (\A v \in wcur : \A x \in Range(queue) : Older(v, x))'
    <3> SUFFICES ASSUME NEW v \in wcur, NEW x \in Range(queue) \cup {w}
                 PROVE  Older(v, x)
      BY <1>1, <1>4 DEF Older
    <3>. QED BY <1>3 DEF OrderInv
  <2>4. (\A i, j \in 1 .. Len(queue) : i < j => Older(queue[i], queue[j]))'
    <3> SUFFICES ASSUME NEW i \in 1 .. Len(queue'), NEW j \in 1 .. Len(queue'), i < j
                 PROVE  Older(queue'[i], queue'[j])
      BY DEF Older
    <3>1. i \in 1 .. Len(queue) BY <1>4
    <3>2. CASE j \in 1 .. Len(queue) BY <1>4, <3>1, <3>2 DEF OrderInv
    <3>3. CASE j = Len(queue) + 1 BY <1>3, <1>4, <3>1, <3>3
    <3>. QED BY <1>4, <3>2, <3>3
  <2>5. (\A q \in Producers : \A k \in 1 .. MaxWork :
           <<q, k>> \in Range(ran) \cup wcur \cup Range(queue) =>
             k <= count[q] /\ (ppc[q] \in {"push", "inline"} => k < count[q]))'
    <3> SUFFICES ASSUME NEW q \in Producers, NEW k \in 1 .. MaxWork,
                        <<q, k>> \in Range(ran) \cup wcur \cup Range(queue) \cup {w}
                 PROVE  k <= count[q] /\ (ppc'[q] \in {"push", "inline"} => k < count[q])
      BY <1>1, <1>4
    <3>1. CASE <<q, k>> \in Range(ran) \cup wcur \cup Range(queue)
      BY <1>1, <3>1 DEF OrderInv, TypeOK
    <3>2. CASE <<q, k>> = w
      <4>1. q = p /\ k = count[p] BY <3>2, FlushIsNotWork DEF w, Current
      <4>. QED BY <1>1, <4>1 DEF TypeOK
    <3>. QED BY <3>1, <3>2
  <2>. QED BY <2>1, <2>2, <2>3, <2>4, <2>5 DEF OrderInv
<1>6. CoverInv'
  BY <1>1, <1>4 DEF CoverInv, Current, w, TypeOK
<1>7. FlushInv'
  <2> SUFFICES ASSUME NEW q \in Producers, ppc'[q] \in {"flushNotify", "poll"}, ~AllRan(q)
               PROVE  FlushQueued(q)'
    BY <1>1 DEF FlushInv, AllRan
  <2>1. CASE q = p
    <3>1. w = Flush BY <1>1, <2>1 DEF w, TypeOK
    <3>2. Len(queue) + 1 \in 1 .. Len(queue') /\ queue'[Len(queue) + 1] = Flush
      BY <1>4, <3>1
    <3>3. (Len(queue) + 1) + 1 .. Len(queue') = {} BY <1>4
    <3>. QED BY <3>2, <3>3 DEF FlushQueued
  <2>2. CASE q # p
    <3>1. ppc[q] \in {"flushNotify", "poll"} BY <1>1, <2>2 DEF TypeOK
    <3>2. PICK i \in 1 .. Len(queue) :
             /\ queue[i] = Flush
             /\ \A j \in i + 1 .. Len(queue) : \A k \in 1 .. MaxWork : queue[j] # <<q, k>>
      BY <3>1 DEF FlushInv, FlushQueued
    <3>3. \A k \in 1 .. MaxWork : w # <<q, k>>
      BY <2>2, FlushIsNotWork DEF w, Current
    <3>4. i \in 1 .. Len(queue') /\ queue'[i] = Flush
      BY <1>4, <3>2
    <3>5. \A j \in i + 1 .. Len(queue') : j \in i + 1 .. Len(queue) \/ j = Len(queue) + 1
      BY <1>4
    <3>6. \A j \in i + 1 .. Len(queue) : queue'[j] = queue[j]
      BY <1>4
    <3>. QED BY <1>4, <3>2, <3>3, <3>4, <3>5, <3>6 DEF FlushQueued
  <2>. QED BY <2>1, <2>2
<1>. QED BY <1>5, <1>6, <1>7

\* A new unit is its producer's youngest, and on its way.
LEMMA PushWorkStep ==
  ASSUME ExecutorInv, NEW p \in Producers, NEW b \in BOOLEAN, PushWork(p, b)
  PROVE  OrderInv' /\ CoverInv' /\ FlushInv'
<1> USE DEF ExecutorInv
<1>1. /\ ppc[p] = "idle" /\ count[p] < MaxWork
      /\ count' = [count EXCEPT ![p] = count[p] + 1]
      /\ ppc' = [ppc EXCEPT ![p] = IF UsePassthrough THEN "inline" ELSE "push"]
      /\ UNCHANGED <<queue, wcur, ran>>
  BY DEF PushWork, Goto, worker
<1>2. /\ \A q \in Producers \ {p} : count'[q] = count[q] /\ ppc'[q] = ppc[q]
      /\ count'[p] = count[p] + 1 /\ ppc'[p] \in {"inline", "push"}
      /\ \A q \in Producers : count[q] \in Nat
  BY <1>1 DEF TypeOK
<1>3. OrderInv'
  <2>1. (\A q \in Producers : \A k \in 1 .. MaxWork :
           <<q, k>> \in Range(ran) \cup wcur \cup Range(queue) =>
             k <= count[q] /\ (ppc[q] \in {"push", "inline"} => k < count[q]))'
    <3> SUFFICES ASSUME NEW q \in Producers, NEW k \in 1 .. MaxWork,
                        <<q, k>> \in Range(ran) \cup wcur \cup Range(queue)
                 PROVE  k <= count'[q] /\ (ppc'[q] \in {"push", "inline"} => k < count'[q])
      BY <1>1
    <3>1. k <= count[q] /\ (ppc[q] \in {"push", "inline"} => k < count[q])
      BY DEF OrderInv
    <3>2. CASE q = p BY <1>2, <3>1, <3>2
    <3>3. CASE q # p BY <1>2, <3>1, <3>3
    <3>. QED BY <3>2, <3>3
  <2>. QED BY <1>1, <2>1 DEF OrderInv, Older
<1>4. CoverInv'
  <2> SUFFICES ASSUME NEW q \in Producers, NEW k \in 1 .. count'[q]
               PROVE  \/ <<q, k>> \in Range(ran) \cup wcur \cup Range(queue)
                      \/ k = count'[q] /\ ppc'[q] \in {"push", "inline"}
    BY <1>1 DEF CoverInv
  <2>1. CASE q = p
    <3>1. k \in 1 .. count[p] \/ k = count'[p] BY <1>2, <2>1
    <3>. QED BY <1>1, <1>2, <2>1, <3>1 DEF CoverInv
  <2>2. CASE q # p BY <1>2, <2>2 DEF CoverInv
  <2>. QED BY <2>1, <2>2
<1>5. FlushInv'
  <2> SUFFICES ASSUME NEW q \in Producers, ppc'[q] \in {"flushNotify", "poll"}
               PROVE  AllRan(q)' \/ FlushQueued(q)'
    BY DEF FlushInv
  <2>1. count'[q] = count[q] /\ ppc[q] \in {"flushNotify", "poll"}
    BY <1>2
  <2>2. (AllRan(q)' <=> AllRan(q)) /\ (FlushQueued(q)' <=> FlushQueued(q))
    BY <1>1, <2>1, Zenon DEF AllRan, FlushQueued
  <2>. QED BY <2>1, <2>2 DEF FlushInv
<1>. QED BY <1>3, <1>4, <1>5

\* ExecutorInv is an inductive invariant of the executor.
THEOREM ExecutorInvariant == Spec => []ExecutorInv
<1>1. ExecutorInv /\ [Next]_vars => ExecutorInv'
  <2> SUFFICES ASSUME ExecutorInv, [Next]_vars PROVE ExecutorInv'
    OBVIOUS
  <2>1. TypeOK' /\ CallInv' /\ WorkerInv' BY TypeStep, CallStep, WorkerInvStep
  <2>2. OrderInv' /\ CoverInv' /\ FlushInv'
    <3>0. TypeOK /\ CallInv BY DEF ExecutorInv
    <3> USE DEF TypeOK
    <3>1. CASE WorkerStep \/ WorkerSpuriousWake
      <4>1. CASE WorkerPop BY <4>1, PopStep
      <4>2. CASE WorkerRun BY <4>2, RunStep
      <4>3. CASE WorkerLock \/ WorkerPredQueue \/ WorkerPredState \/ WorkerSleep
                 \/ WorkerCheck \/ WorkerSpuriousWake
        BY <4>3, QuietStep DEF WorkerLock, WorkerPredQueue, WorkerPredState, WorkerSleep,
           WorkerCheck, WorkerSpuriousWake, calls
      <4>. QED BY <3>1, <4>1, <4>2, <4>3 DEF WorkerStep
    <3>2. CASE SetWorkerMode \/ Reset
      BY <3>0, <3>2, QuietStep DEF SetWorkerMode, Reset, Goto, worker
    <3>3. ASSUME NEW p \in Producers, ProducerStep(p) PROVE OrderInv' /\ CoverInv' /\ FlushInv'
      <4>1. CASE RunInline(p) BY <4>1, InlineStep
      <4>2. CASE PushToQueue(p) BY <4>2, QueueStep
      <4>3. CASE Notify(p)
        BY <3>0, <4>3, QuietStep DEF Notify, NotifyUnlocked, AfterNotify, Goto
      <4>4. CASE PollEmpty(p)
        BY <3>0, <4>4, QuietStep DEF PollEmpty, Goto, worker
      <4>5. CASE StartWorker \/ SetWorkerThreadId \/ StopWorker
        BY <3>0, <4>5, QuietStep DEF StartWorker, SetWorkerThreadId, StopWorker, Goto, worker
      <4>6. CASE StopNotify \/ Join
        BY <3>0, <4>6, QuietStep DEF StopNotify, StopNotifyUnlocked, Join, JoinNoWait, Goto,
           worker
      <4>. QED BY <3>3, <4>1, <4>2, <4>3, <4>4, <4>5, <4>6 DEF ProducerStep
    <3>4. ASSUME NEW p \in Producers, Synchronize(p) PROVE OrderInv' /\ CoverInv' /\ FlushInv'
      BY <3>0, <3>4, QuietStep DEF Synchronize, Goto, worker
    <3>5. CASE UNCHANGED vars BY <3>5, QuietStep DEF vars
    <3>. QED BY <3>1, <3>2, <3>3, <3>4, <3>5, PushWorkStep DEF Next
  <2>. QED BY <2>1, <2>2 DEF ExecutorInv
<1>. QED BY InitLemma, <1>1, PTL DEF Spec

\* Type correctness.
THEOREM ExecutorTypeCorrect == Spec => []TypeOK
<1>1. ExecutorInv => TypeOK BY DEF ExecutorInv
<1>. QED BY ExecutorInvariant, <1>1, PTL

\* Work runs in the order its producer pushed it, whoever ran it.
THEOREM ProgramOrderTheorem == Spec => []ProgramOrder
<1>1. ExecutorInv => ProgramOrder
  <2> SUFFICES ASSUME ExecutorInv, NEW i \in 1 .. Len(ran), NEW j \in 1 .. Len(ran),
                      i < j, ran[i][1] = ran[j][1]
               PROVE  ran[i][2] < ran[j][2]
    BY DEF ProgramOrder
  <2>1. ran \in Seq(Work) BY DEF ExecutorInv, TypeOK
  <2>2. ran[i] # Flush /\ ran[j] # Flush BY <2>1, ElementOfSeq, FlushIsNotWork
  <2>. QED BY <2>2 DEF ExecutorInv, OrderInv, Older
<1>. QED BY ExecutorInvariant, <1>1, PTL

\* A stopped worker leaves no work behind.
THEOREM StopDrainsTheorem == Spec => []StopDrains
<1>1. ExecutorInv => StopDrains
  <2> SUFFICES ASSUME ExecutorInv, state = "IDLE", ppc[Owner] = "idle"
               PROVE  /\ queue = << >> /\ wcur = {}
                      /\ \A p \in Producers : \A k \in 1 .. count[p] :
                           (k = count[p] /\ ppc[p] = "inline") \/ <<p, k>> \in Range(ran)
    BY DEF StopDrains
  <2>1. queue = << >> /\ wcur = {} BY DEF ExecutorInv, WorkerInv
  <2>2. Range(queue) = {} BY <2>1, RangeFacts DEF ExecutorInv, TypeOK
  <2>3. \A p \in Producers : ppc[p] # "push" BY DEF ExecutorInv, CallInv
  <2>. QED BY <2>1, <2>2, <2>3 DEF ExecutorInv, CoverInv
<1>. QED BY ExecutorInvariant, <1>1, PTL

\* synchronize returns only when all the work of its caller has run.
THEOREM SynchronizeTheorem == Spec => SynchronizeWaits
<1> DEFINE Waits == \A p \in Producers : ppc[p] = "poll" /\ ppc'[p] = "idle" =>
                      \A k \in 1 .. count[p] : <<p, k>> \in Range(ran)
<1>1. ExecutorInv /\ [Next]_vars => [Waits]_vars
  <2> SUFFICES ASSUME ExecutorInv, Next,
                      NEW p \in Producers, ppc[p] = "poll", ppc'[p] = "idle"
               PROVE  AllRan(p)
    BY DEF AllRan
  <2>1. queue = << >>
    BY DEF ExecutorInv, TypeOK, CallInv, ChangingMode, Next, WorkerStep, WorkerSpuriousWake,
       WorkerLock, WorkerPredQueue, WorkerPredState, WorkerSleep, WorkerCheck, WorkerPop,
       WorkerRun, SetWorkerMode, Reset, ProducerStep, RunInline, PushToQueue, Notify,
       NotifyUnlocked, AfterNotify, PollEmpty, StartWorker, SetWorkerThreadId, StopWorker,
       StopNotify, StopNotifyUnlocked, Join, JoinNoWait, Synchronize, PushWork, Goto, calls
  <2>2. ~FlushQueued(p) BY <2>1 DEF FlushQueued
  <2>. QED BY <2>2 DEF ExecutorInv, FlushInv
<1>. QED BY ExecutorInvariant, <1>1, PTL DEF Spec, SynchronizeWaits

-----------------------------------------------------------------------------
(***************************************************************************)
(* The condition variable.                                                 *)
(***************************************************************************)
\* Who is about to notify stays so while others move.
LEMMA StillNotifying ==
  ASSUME TypeOK, NEW p \in Producers, NEW l, ppc[p] \notin {"notify", "flushNotify"},
         ppc' = [ppc EXCEPT ![p] = l],
         \E q \in Producers : ppc[q] \in {"notify", "flushNotify"}
  PROVE  \E q \in Producers : ppc'[q] \in {"notify", "flushNotify"}
BY DEF TypeOK

\* WakeInv is kept by the worker: it sleeps after a test that it makes with the
\* mutex held.
LEMMA WorkerWake ==
  ASSUME ExecutorInv, WakeInv, WorkerStep \/ WorkerSpuriousWake
  PROVE  WakeInv'
<1>1. UNCHANGED <<ppc, state>>
  BY DEF WorkerStep, WorkerLock, WorkerPredQueue, WorkerPredState, WorkerSleep, WorkerCheck,
     WorkerPop, WorkerRun, WorkerSpuriousWake, calls, config
<1>2. CASE WorkerLock \/ WorkerPredQueue \/ WorkerPredState \/ WorkerSleep
  BY <1>1, <1>2 DEF WakeInv, WorkerLock, WorkerPredQueue, WorkerPredState, WorkerSleep
<1>3. CASE WorkerCheck \/ WorkerPop \/ WorkerRun \/ WorkerSpuriousWake
  <2>1. wpc' \in {"none", "pop", "run", "selfSync", "lock"}
    BY <1>3 DEF WorkerCheck, WorkerPop, WorkerRun, WorkerSpuriousWake
  <2>. QED BY <2>1 DEF WakeInv
<1>. QED BY <1>2, <1>3 DEF WorkerStep

\* WakeInv is kept by the producers: whoever gives the worker something to see
\* is then about to notify, and a notification finds no worker between its test
\* and its sleep.
LEMMA ProducerWake ==
  ASSUME ExecutorInv, WakeInv, NEW p \in Producers, ProducerStep(p)
  PROVE  WakeInv'
<1>0. TypeOK /\ CallInv /\ Owner \in Producers
  BY WorkAssumption DEF ExecutorInv
<1>1. CASE RunInline(p) \/ PollEmpty(p)
  <2>1. /\ UNCHANGED <<wpc, cvMutex, queue, state>> /\ ppc[p] \in {"inline", "poll"}
        /\ ppc' = [ppc EXCEPT ![p] = "idle"]
    BY <1>1 DEF RunInline, PollEmpty, Goto, worker, config
  <2>2. ppc[Owner] = "stopNotify" => ppc'[Owner] = "stopNotify"
    BY <1>0, <2>1 DEF TypeOK
  <2>. QED BY <1>0, <2>1, <2>2, StillNotifying DEF WakeInv
<1>2. CASE PushToQueue(p)
  <2>1. /\ UNCHANGED <<wpc, cvMutex, state>> /\ ppc[p] \in {"push", "flush"}
        /\ ppc' = [ppc EXCEPT ![p] = IF ppc[p] = "push" THEN "notify" ELSE "flushNotify"]
    BY <1>2 DEF PushToQueue, Goto, worker, config
  <2>2. ppc'[p] \in {"notify", "flushNotify"}
    BY <1>0, <2>1 DEF TypeOK
  <2>3. ppc[Owner] = "stopNotify" => ppc'[Owner] = "stopNotify"
    BY <1>0, <2>1 DEF TypeOK
  <2>. QED BY <2>1, <2>2, <2>3 DEF WakeInv
<1>3. CASE Notify(p) \/ StopNotify
  <2>1. ~cvMutex /\ wpc' = (IF wpc = "asleep" THEN "lock" ELSE wpc) /\ UNCHANGED cvMutex
    BY <1>3 DEF Notify, NotifyUnlocked, StopNotify, StopNotifyUnlocked, NotifyOne
  <2>2. wpc' \notin {"predQueue", "predState", "sleep", "asleep"}
    BY <2>1 DEF WakeInv
  <2>. QED BY <2>2 DEF WakeInv
<1>4. CASE StartWorker \/ Join
  <2>1. wpc' \in {"lock", "none"}
    BY <1>4 DEF StartWorker, Join, JoinNoWait, worker
  <2>. QED BY <2>1 DEF WakeInv
<1>5. CASE SetWorkerThreadId \/ StopWorker
  <2>1. /\ UNCHANGED <<wpc, cvMutex, queue>> /\ ppc[Owner] \in {"started", "stop"}
        /\ \E l : ppc' = [ppc EXCEPT ![Owner] = l]
        /\ state' = "TERMINATE" => ppc' = [ppc EXCEPT ![Owner] = "stopNotify"] \/ state = state'
    BY <1>5 DEF SetWorkerThreadId, StopWorker, Goto, worker
  <2>2. state' = "TERMINATE" => ppc'[Owner] = "stopNotify"
    BY <1>0, <2>1 DEF TypeOK, CallInv
  <2>. QED BY <1>0, <2>1, <2>2, StillNotifying DEF WakeInv
<1>. QED BY <1>1, <1>2, <1>3, <1>4, <1>5 DEF ProducerStep

\* The calls begin with somebody who is not about to notify.
LEMMA CallWake ==
  ASSUME ExecutorInv, WakeInv, NEW p \in Producers,
         \/ Synchronize(p) \/ \E b \in BOOLEAN : PushWork(p, b)
         \/ p = Owner /\ (SetWorkerMode \/ Reset)
  PROVE  WakeInv'
<1>0. TypeOK /\ CallInv /\ Owner \in Producers
  BY WorkAssumption DEF ExecutorInv
<1>1. /\ UNCHANGED <<wpc, cvMutex, queue, state>> /\ ppc[p] = "idle"
      /\ \E l : ppc' = [ppc EXCEPT ![p] = l]
  BY DEF Synchronize, PushWork, SetWorkerMode, Reset, Goto, worker, config
<1>2. ppc[Owner] = "stopNotify" => ppc'[Owner] = "stopNotify"
  BY <1>0, <1>1 DEF TypeOK
<1>. QED BY <1>0, <1>1, <1>2, StillNotifying DEF WakeInv

\* WakeInv is inductive on top of ExecutorInv.
THEOREM WakeInvariant == Spec => []WakeInv
<1>1. Init => WakeInv
  BY DEF Init, WakeInv
<1>2. ExecutorInv /\ WakeInv /\ [Next]_vars => WakeInv'
  <2> SUFFICES ASSUME ExecutorInv, WakeInv, [Next]_vars PROVE WakeInv'
    OBVIOUS
  <2>1. CASE UNCHANGED vars
    BY <2>1 DEF vars, WakeInv
  <2>. QED BY <2>1, WorkerWake, ProducerWake, CallWake, WorkAssumption DEF Next
<1>. QED BY ExecutorInvariant, <1>1, <1>2, PTL DEF Spec

\* The worker never pops an empty queue, never waits for itself, and no wake-up
\* is lost: whenever it sleeps on the condition variable with work queued or a
\* stop requested, the one who pushed or stops is about to notify it.
THEOREM NeverStuckTheorem == Spec => []WorkerNeverStuck
<1>1. ExecutorInv /\ WakeInv => WorkerNeverStuck
  BY DEF ExecutorInv, WorkerInv, WakeInv, WorkerNeverStuck
<1>. QED BY ExecutorInvariant, WakeInvariant, <1>1, PTL
=============================================================================
