------------------------------ MODULE RingProofs ------------------------------
(***************************************************************************)
(* Proofs about the two rings whose slots a writer and a reader use        *)
(* without a common lock: the nodes of LockFreeQueue, for every ring size  *)
(* from two on, every set of values and every set of writers, and the      *)
(* pages of DispatchBuffer, for every number and size of blocks and every  *)
(* length of a command.                                                    *)
(***************************************************************************)
EXTENDS LockFreeQueue, DispatchBuffer, SequenceTheorems, TLAPS

USE SizeAssumption, ValuesAssumption, WritersAssumption

\* A function on an initial interval is a sequence.
LEMMA IntervalIsSeq ==
  ASSUME NEW n \in Nat, NEW S, NEW f \in [1 .. n -> S]
  PROVE  f \in Seq(S) /\ Len(f) = n
BY LenProperties

\* The links of the ring are a bijection without fixed points.
LEMMA SuccLemma ==
  /\ \A i \in Nodes : Succ(i) \in Nodes /\ Succ(i) # i
  /\ \A i, j \in Nodes : Succ(i) = Succ(j) => i = j
BY DEF Nodes, Succ

\* The constructor establishes the invariant.
LEMMA InitLemma == Init => QueueInv
<1> SUFFICES ASSUME Init PROVE QueueInv
  OBVIOUS
<1> USE DEF Init
<1>1. TypeOK
  <2>1. 0 \in Nodes BY DEF Nodes
  <2>2. data \in [Nodes -> Values \cup {Null}] OBVIOUS
  <2>3. mutex \in SUBSET Writers /\ result \in SUBSET (Values \cup {Null}) OBVIOUS
  <2>4. lockBased \in BOOLEAN /\ clearing \in BOOLEAN OBVIOUS
  <2>5. wpc \in [Writers -> {"idle", "lock", "stall", "write", "publish", "unlock"}]
    OBVIOUS
  <2>6. QED BY <2>1, <2>2, <2>3, <2>4, <2>5 DEF TypeOK
<1>2. LockInv BY DEF LockInv
<1>3. GapInv /\ ReaderInv BY DEF GapInv, ReaderInv
<1>4. DataInv BY DEF DataInv, Occupied, Nodes
<1>5. QED BY <1>1, <1>2, <1>3, <1>4 DEF QueueInv

\* Every step keeps the variables in their types.
LEMMA TypeStep == TypeOK /\ [Next]_vars => TypeOK'
<1> SUFFICES ASSUME TypeOK, [Next]_vars PROVE TypeOK'
  OBVIOUS
<1> USE SuccLemma DEF TypeOK
<1>1. CASE SetLockMode BY <1>1 DEF SetLockMode
<1>2. ASSUME NEW w \in Writers, Push(w) PROVE TypeOK'
  <2>1. ASSUME NEW v \in Values, PushCall(w, v) PROVE TypeOK' BY <2>1 DEF PushCall
  <2>2. CASE PushLock(w) BY <2>2 DEF PushLock
  <2>3. CASE PushStall(w) BY <2>3 DEF PushStall
  <2>4. CASE PushWrite(w) BY <2>4 DEF PushWrite
  <2>5. CASE PushPublish(w) BY <2>5 DEF PushPublish
  <2>6. CASE PushUnlock(w) BY <2>6 DEF PushUnlock
  <2>7. QED BY <1>2, <2>1, <2>2, <2>3, <2>4, <2>5, <2>6 DEF Push
<1>3. CASE Pop
  <2>1. CASE PopCall BY <2>1 DEF PopCall, writerVars
  <2>2. CASE ClearCall BY <2>2 DEF ClearCall, writerVars
  <2>3. CASE ClearStep BY <2>3 DEF ClearStep, writerVars
  <2>4. CASE PopLoad BY <2>4 DEF PopLoad, writerVars
  <2>5. CASE PopStore BY <2>5 DEF PopStore, writerVars
  <2>6. CASE PopCopy BY <2>6 DEF PopCopy, writerVars
  <2>7. CASE PopReset BY <2>7 DEF PopReset, writerVars
  <2>8. QED BY <1>3, <2>1, <2>2, <2>3, <2>4, <2>5, <2>6, <2>7 DEF Pop
<1>4. CASE UNCHANGED vars BY <1>4 DEF vars
<1>5. QED BY <1>1, <1>2, <1>3, <1>4 DEF Next

\* The lock discipline is kept: only push takes part in it.
LEMMA LockStep == TypeOK /\ LockInv /\ [Next]_vars => LockInv'
<1> SUFFICES ASSUME TypeOK, LockInv, [Next]_vars PROVE LockInv'
  OBVIOUS
<1> USE DEF TypeOK, LockInv
<1>1. CASE SetLockMode BY <1>1 DEF SetLockMode
<1>2. ASSUME NEW w \in Writers, Push(w) PROVE LockInv'
  <2>1. ASSUME NEW v \in Values, PushCall(w, v) PROVE LockInv' BY <2>1 DEF PushCall
  <2>2. CASE PushLock(w) BY <2>2 DEF PushLock
  <2>3. CASE PushStall(w) BY <2>3 DEF PushStall
  <2>4. CASE PushWrite(w) BY <2>4 DEF PushWrite
  <2>5. CASE PushPublish(w) BY <2>5 DEF PushPublish
  <2>6. CASE PushUnlock(w) BY <2>6 DEF PushUnlock
  <2>7. QED BY <1>2, <2>1, <2>2, <2>3, <2>4, <2>5, <2>6 DEF Push
<1>3. CASE Pop
  BY <1>3 DEF Pop, PopCall, ClearCall, ClearStep, PopLoad, PopStore, PopCopy,
              PopReset, writerVars
<1>4. CASE UNCHANGED vars BY <1>4 DEF vars
<1>5. QED BY <1>1, <1>2, <1>3, <1>4 DEF Next

\* Two writers are never both past lock_func.
LEMMA OneWriterLemma == TypeOK /\ LockInv => OneWriter
BY DEF TypeOK, LockInv, OneWriter

\* A step of the writer keeps the gap, the reader's pointers and the data:
\* head stands still and tail moves only onto a node that is not head.
LEMMA PushStep ==
  ASSUME QueueInv, NEW w \in Writers, Push(w)
  PROVE  GapInv' /\ ReaderInv' /\ DataInv'
<1> USE SuccLemma DEF QueueInv, TypeOK, GapInv, ReaderInv, DataInv
<1>0. OneWriter
  BY OneWriterLemma
<1>1. ASSUME NEW v \in Values, PushCall(w, v) PROVE GapInv' /\ ReaderInv' /\ DataInv'
  BY <1>1 DEF PushCall, Occupied
<1>2. CASE PushLock(w) BY <1>2 DEF PushLock, Occupied
<1>3. CASE PushStall(w) BY <1>3 DEF PushStall, Occupied
<1>4. CASE PushWrite(w)
  <2>1. GapInv' /\ ReaderInv' BY <1>4 DEF PushWrite
  <2>2. \A i \in Nodes : data'[i] = data[i] \/ data'[i] # Null
    BY <1>4 DEF PushWrite
  <2>3. data'[tail] # Null BY <1>4 DEF PushWrite
  <2>4. DataInv' BY <1>4, <2>2, <2>3 DEF PushWrite, Occupied
  <2>5. QED BY <2>1, <2>4
<1>5. CASE PushPublish(w)
  <2>1. Succ(tail) # head /\ data[tail] # Null BY <1>5 DEF PushPublish
  <2>2. \A u \in Writers : wpc'[u] \notin {"write", "publish"}
    BY <1>0, <1>5 DEF PushPublish, OneWriter
  <2>3. GapInv' BY <2>2
  <2>4. ReaderInv' BY <1>5, <2>1 DEF PushPublish
  <2>5. \A i \in Nodes : Occupied(i)' => Occupied(i) \/ i = tail
    BY <1>5, <2>1 DEF PushPublish, Occupied, Succ, Nodes
  <2>6. DataInv' BY <1>5, <2>1, <2>2, <2>5 DEF PushPublish
  <2>7. QED BY <2>3, <2>4, <2>6
<1>6. CASE PushUnlock(w) BY <1>6 DEF PushUnlock, Occupied
<1>7. QED BY <1>1, <1>2, <1>3, <1>4, <1>5, <1>6 DEF Push

\* A step of the reader keeps them too: the node it gives up with the store
\* to head is the one node the writer cannot reach before head moves again.
LEMMA PopStep ==
  ASSUME QueueInv, Pop
  PROVE  GapInv' /\ ReaderInv' /\ DataInv'
<1> USE SuccLemma DEF QueueInv, TypeOK, GapInv, ReaderInv, DataInv
<1>1. CASE PopCall BY <1>1 DEF PopCall, Empty, Occupied, writerVars
<1>2. CASE ClearCall BY <1>2 DEF ClearCall, Occupied, writerVars
<1>3. CASE ClearStep BY <1>3 DEF ClearStep, Empty, Occupied, writerVars
<1>4. CASE PopLoad BY <1>4 DEF PopLoad, Occupied, writerVars
<1>5. CASE PopStore
  <2>1. head # tail /\ oldHead = head /\ head' = Succ(head) BY <1>5 DEF PopStore
  <2>2. GapInv' BY <1>5, <2>1 DEF PopStore, writerVars
  <2>3. ReaderInv' BY <1>5, <2>1 DEF PopStore, writerVars
  <2>4. Occupied(head)
    BY <2>1 DEF Occupied, Nodes
  <2>5. \A i \in Nodes : Occupied(i)' => Occupied(i)
    BY <1>5, <2>1 DEF PopStore, Occupied, Succ, Nodes, writerVars
  <2>6. DataInv' BY <1>5, <2>1, <2>4, <2>5 DEF PopStore, writerVars
  <2>7. QED BY <2>2, <2>3, <2>6
<1>6. CASE PopCopy BY <1>6 DEF PopCopy, Occupied, writerVars
<1>7. CASE PopReset
  <2>1. head = Succ(oldHead) BY <1>7 DEF PopReset
  <2>2. ~Occupied(oldHead) BY <2>1 DEF Occupied, Succ, Nodes
  <2>3. \A u \in Writers : wpc[u] = "publish" => tail # oldHead BY <2>1
  <2>4. \A i \in Nodes : i # oldHead => data'[i] = data[i] BY <1>7 DEF PopReset
  <2>5. DataInv' BY <1>7, <2>2, <2>3, <2>4 DEF PopReset, Occupied, writerVars
  <2>6. GapInv' /\ ReaderInv' BY <1>7 DEF PopReset, writerVars
  <2>7. QED BY <2>5, <2>6
<1>8. QED BY <1>1, <1>2, <1>3, <1>4, <1>5, <1>6, <1>7 DEF Pop

\* QueueInv is an inductive invariant of the queue.
THEOREM QueueInvariant == Spec => []QueueInv
<1>1. QueueInv /\ [Next]_vars => QueueInv'
  <2> SUFFICES ASSUME QueueInv, [Next]_vars PROVE QueueInv'
    OBVIOUS
  <2>1. TypeOK' /\ LockInv' BY TypeStep, LockStep DEF QueueInv
  <2>2. GapInv' /\ ReaderInv' /\ DataInv'
    <3>1. CASE SetLockMode
      BY <3>1 DEF SetLockMode, QueueInv, GapInv, ReaderInv, DataInv, Occupied
    <3>2. CASE UNCHANGED vars
      BY <3>2 DEF vars, QueueInv, GapInv, ReaderInv, DataInv, Occupied
    <3>3. QED BY <3>1, <3>2, PushStep, PopStep DEF Next
  <2>3. QED BY <2>1, <2>2 DEF QueueInv
<1>2. QED BY InitLemma, <1>1, PTL DEF Spec

\* Type correctness for every ring size.
THEOREM TypeCorrect == Spec => []TypeOK
<1>1. QueueInv => TypeOK BY DEF QueueInv
<1>2. QED BY QueueInvariant, <1>1, PTL

\* push never stores into a node the reader is still copying or resetting,
\* although pop_head advances head before pop reads the node.
THEOREM NoSlotRaceTheorem == Spec => []NoSlotRace
<1>1. QueueInv => NoSlotRace
  BY SuccLemma DEF QueueInv, TypeOK, GapInv, ReaderInv, NoSlotRace
<1>2. QED BY QueueInvariant, <1>1, PTL

\* The critical part of push is run by one thread at a time, in both lock modes.
THEOREM OneWriterTheorem == Spec => []OneWriter
<1>1. QueueInv => OneWriter BY OneWriterLemma DEF QueueInv
<1>2. QED BY QueueInvariant, <1>1, PTL

\* pop, called after a false empty(), never meets an empty queue or node.
THEOREM NoNullPopTheorem == Spec => []NoNullPop
<1>1. QueueInv => NoNullPop BY DEF QueueInv, ReaderInv, DataInv, NoNullPop
<1>2. QED BY QueueInvariant, <1>1, PTL

(***************************************************************************)
(* The refinement of FifoQueue.                                            *)
(***************************************************************************)

\* The node that is k - 1 links after node h.
Node(h, k) == IF h + k - 1 < Size THEN h + k - 1 ELSE h + k - 1 - Size

\* The mapped queue is a sequence: one entry per node from head up to tail.
LEMMA QueuedIsSeq ==
  ASSUME TypeOK
  PROVE  /\ Count \in 0 .. Size - 1
         /\ Queued \in Seq(Values \cup {Null})
         /\ Len(Queued) = Count
         /\ \A k \in 1 .. Count : Node(head, k) \in Nodes /\ Queued[k] = data[Node(head, k)]
<1>1. Count \in 0 .. Size - 1
  BY DEF TypeOK, Nodes, Count
<1>2. \A k \in 1 .. Count : Node(head, k) \in Nodes
  BY <1>1 DEF TypeOK, Nodes, Node
<1>3. Queued = [k \in 1 .. Count |-> data[Node(head, k)]]
  BY DEF Queued, Node
<1>4. Queued \in [1 .. Count -> Values \cup {Null}]
  BY <1>2, <1>3 DEF TypeOK
<1>5. Queued \in Seq(Values \cup {Null}) /\ Len(Queued) = Count
  BY <1>1, <1>4, IntervalIsSeq
<1>. QED BY <1>1, <1>2, <1>3, <1>5

\* A step that changes neither the pointers nor an occupied node leaves the
\* mapped queue as it is.
LEMMA QueuedSame ==
  ASSUME TypeOK, UNCHANGED <<head, tail>>,
         \A i \in Nodes : Occupied(i) => data'[i] = data[i]
  PROVE  UNCHANGED Queued
<1>1. Count' = Count /\ Count \in 0 .. Size - 1
  BY DEF TypeOK, Count, Nodes
<1>2. \A k \in 1 .. Count : Node(head, k) \in Nodes /\ Occupied(Node(head, k))
  BY <1>1 DEF TypeOK, Nodes, Node, Occupied, Count
<1>3. Queued = [k \in 1 .. Count |-> data[Node(head, k)]]
  BY DEF Queued, Node
<1>4. Queued' = [k \in 1 .. Count |-> data'[Node(head, k)]]
  BY <1>1 DEF Queued, Node
<1>. QED BY <1>2, <1>3, <1>4

\* Storing tail puts the value of the tail node at the end.
LEMMA PublishAppends ==
  ASSUME QueueInv, NEW w \in Writers, PushPublish(w)
  PROVE  data[tail] \in Values /\ Fifo!Put(data[tail])
<1> USE DEF QueueInv
<1>1. Succ(tail) # head /\ data[tail] # Null
  BY DEF TypeOK, GapInv, DataInv, PushPublish
<1>2. data[tail] \in Values
  BY <1>1 DEF TypeOK
<1>3. Count' = Count + 1 /\ Count < Size - 1 /\ Count \in Nat
  BY <1>1 DEF TypeOK, Nodes, Count, Succ, PushPublish
<1>4. Node(head, Count + 1) = tail
  BY DEF TypeOK, Nodes, Count, Node
<1>5. Len(Queued) < Size - 1
  BY <1>3, QueuedIsSeq
<1>6. Queued' = Append(Queued, data[tail])
  <2>1. Queued' = [k \in 1 .. Count + 1 |-> data[Node(head, k)]]
    BY <1>3 DEF Queued, Node, PushPublish
  <2>2. Append(Queued, data[tail]) \in Seq(Values \cup {Null})
    BY <1>2, QueuedIsSeq
  <2>3. Len(Append(Queued, data[tail])) = Count + 1
    BY <1>2, QueuedIsSeq
  <2>4. Queued' \in Seq(Values \cup {Null}) /\ Len(Queued') = Count + 1
    <3>1. \A k \in 1 .. Count + 1 : Node(head, k) \in Nodes
      BY <1>3 DEF TypeOK, Nodes, Node
    <3>2. Queued' \in [1 .. Count + 1 -> Values \cup {Null}]
      BY <2>1, <3>1 DEF TypeOK
    <3>. QED BY <1>3, <3>2, IntervalIsSeq
  <2>5. \A k \in 1 .. Count + 1 : Append(Queued, data[tail])[k] = data[Node(head, k)]
    <3> TAKE k \in 1 .. Count + 1
    <3>1. CASE k = Count + 1 BY <3>1, <1>4, <1>2, QueuedIsSeq
    <3>2. CASE k # Count + 1
      <4>1. k \in 1 .. Count BY <3>2, <1>3
      <4>. QED BY <4>1, <1>2, QueuedIsSeq
    <3>. QED BY <3>1, <3>2
  <2>. QED BY <2>1, <2>2, <2>3, <2>4, <2>5, SeqEqual
<1>7. UNCHANGED (IF rpc = "copy" THEN {data[oldHead]} ELSE result)
  BY DEF PushPublish
<1>. QED BY <1>2, <1>5, <1>6, <1>7 DEF Fifo!Put

\* Storing head takes the value of the old head node from the front.
LEMMA StoreTakes ==
  ASSUME QueueInv, PopStore
  PROVE  Fifo!Take
<1> USE DEF QueueInv
<1>1. head # tail /\ oldHead = head /\ head' = Succ(head)
  BY DEF PopStore, ReaderInv
<1>2. Count' = Count - 1 /\ Count \in Nat /\ Count >= 1
  BY <1>1 DEF TypeOK, Nodes, Count, Succ, PopStore, writerVars
<1>4. Queued # << >>
  BY <1>2, QueuedIsSeq
<1>5. Head(Queued) = data[oldHead]
  <2>1. Queued[1] = data[Node(head, 1)] BY <1>2, QueuedIsSeq
  <2>2. Node(head, 1) = head BY DEF Node, TypeOK, Nodes
  <2>. QED BY <1>1, <1>4, <2>1, <2>2, QueuedIsSeq
<1>6. Queued' = Tail(Queued)
  <2>1. \A k \in 1 .. Count - 1 : Node(head, k + 1) = Node(Succ(head), k)
    BY <1>2 DEF Node, Succ, TypeOK, Nodes, Count
  <2>2. Queued' = [k \in 1 .. Count - 1 |-> data[Node(Succ(head), k)]]
    BY <1>1, <1>2 DEF Queued, Node, PopStore
  <2>3. Queued' \in Seq(Values \cup {Null}) /\ Len(Queued') = Count - 1
    <3>1. \A k \in 1 .. Count - 1 : Node(head, k + 1) \in Nodes
      BY <1>2, QueuedIsSeq
    <3>2. Queued' \in [1 .. Count - 1 -> Values \cup {Null}]
      BY <2>1, <2>2, <3>1 DEF TypeOK
    <3>. QED BY <1>2, <3>2, IntervalIsSeq
  <2>4. Tail(Queued) \in Seq(Values \cup {Null}) /\ Len(Tail(Queued)) = Count - 1
    BY <1>4, <1>2, QueuedIsSeq
  <2>5. \A k \in 1 .. Count - 1 : Tail(Queued)[k] = data[Node(head, k + 1)]
    <3> TAKE k \in 1 .. Count - 1
    <3>1. k + 1 \in 1 .. Count BY <1>2
    <3>2. Tail(Queued)[k] = Queued[k + 1] BY <1>4, <1>2, QueuedIsSeq
    <3>. QED BY <3>1, <3>2, QueuedIsSeq
  <2>. QED BY <2>1, <2>2, <2>3, <2>4, <2>5, SeqEqual
<1>7. (IF rpc = "copy" THEN {data[oldHead]} ELSE result)' = {data[oldHead]}
  BY DEF PopStore
<1>. QED BY <1>4, <1>5, <1>6, <1>7 DEF Fifo!Take

\* Every step of the ring is a step of the FIFO queue or leaves it alone.
LEMMA StepRefines ==
  ASSUME QueueInv, [Next]_vars
  PROVE  [Fifo!Next]_(Fifo!vars)
<1> DEFINE LastOut == IF rpc = "copy" THEN {data[oldHead]} ELSE result
<1> SUFFICES \/ \E w \in Writers : PushPublish(w)
             \/ PopStore
             \/ UNCHANGED <<Queued, LastOut>>
  BY PublishAppends, StoreTakes DEF Fifo!Next, Fifo!vars
<1> USE DEF QueueInv
<1>1. CASE SetLockMode \/ UNCHANGED vars
  BY <1>1, QueuedSame DEF SetLockMode, vars
<1>2. ASSUME NEW w \in Writers, Push(w), ~PushPublish(w) PROVE UNCHANGED <<Queued, LastOut>>
  <2>1. CASE PushWrite(w)
    <3>1. ~Occupied(tail) /\ (rpc = "copy" => tail # oldHead)
      BY <2>1, SuccLemma DEF PushWrite, Occupied, TypeOK, Nodes, GapInv, ReaderInv
    <3>2. \A i \in Nodes : i # tail => data'[i] = data[i]
      BY <2>1 DEF PushWrite, TypeOK
    <3>3. UNCHANGED Queued BY <2>1, <3>1, <3>2, QueuedSame DEF PushWrite
    <3>4. UNCHANGED LastOut BY <2>1, <3>1, <3>2 DEF PushWrite, TypeOK
    <3>. QED BY <3>3, <3>4
  <2>2. CASE PushLock(w) \/ PushStall(w) \/ PushUnlock(w) \/ \E v \in Values : PushCall(w, v)
    BY <2>2, QueuedSame DEF PushLock, PushStall, PushUnlock, PushCall
  <2>. QED BY <1>2, <2>1, <2>2 DEF Push
<1>3. ASSUME Pop, ~PopStore PROVE UNCHANGED <<Queued, LastOut>>
  <2>1. CASE PopReset
    <3>1. ~Occupied(oldHead)
      BY <2>1 DEF PopReset, Occupied, TypeOK, Nodes, ReaderInv, Succ
    <3>2. \A i \in Nodes : i # oldHead => data'[i] = data[i]
      BY <2>1 DEF PopReset, TypeOK
    <3>3. UNCHANGED Queued BY <2>1, <3>1, <3>2, QueuedSame DEF PopReset, writerVars
    <3>4. UNCHANGED LastOut BY <2>1 DEF PopReset
    <3>. QED BY <3>3, <3>4
  <2>2. CASE PopCopy
    BY <2>2, QueuedSame DEF PopCopy, writerVars
  <2>3. CASE PopCall \/ ClearCall \/ ClearStep \/ PopLoad
    BY <2>3, QueuedSame DEF PopCall, ClearCall, ClearStep, PopLoad, writerVars
  <2>. QED BY <1>3, <2>1, <2>2, <2>3 DEF Pop
<1>. QED BY <1>1, <1>2, <1>3 DEF Next

\* The ring of nodes implements the bounded FIFO queue its users rely on:
\* a push takes effect at the store to tail, a pop at the store to head.
THEOREM FifoTheorem == Spec => ImplementsFifo
<1>1. Init => Fifo!Init
  <2> SUFFICES ASSUME Init PROVE Fifo!Init
    OBVIOUS
  <2>1. Queued = << >> BY QueuedIsSeq, InitLemma DEF Init, Count, QueueInv
  <2>. QED BY <2>1 DEF Init, Fifo!Init
<1>2. QueueInv /\ [Next]_vars => [Fifo!Next]_(Fifo!vars)
  BY StepRefines
<1>. QED BY <1>1, <1>2, QueueInvariant, PTL DEF Spec, ImplementsFifo, Fifo!Spec

-----------------------------------------------------------------------------
(***************************************************************************)
(* DispatchBuffer: pages are conserved, the pointers agree, and the        *)
(* prefetcher never writes to a page that is still read.                   *)
(*                                                                         *)
(* These are one invariant.  That a counter stays within the buffer, and   *)
(* that all the pages in use fit into it, follows from the conservation of *)
(* pages; the conservation at the end of the kernels needs the place of    *)
(* the dispatcher's pointer then.  Only the last section turns counts into *)
(* pages of the ring, with the arithmetic of remainders.                   *)
(***************************************************************************)

\* A release in write_downstream never asks for more pages than are held.
PrefetcherInv ==
  /\ ppc = "acquire" => want > 0
  /\ ppc = "write" => keep <= own

\* The dispatcher leaves its loop at the fence.
CmdInv == dpc # "run" => cmd = fence

\* The writes that have not departed read the block before, if it is held,
\* and the processed part of the current one.
WritesInv ==
  /\ ~prev => toClear = 0
  /\ toClear <= PagesPerBlock
  /\ out <= toClear + (cmd - BlockStart)
  /\ dpc \in {"release", "wait", "out"} => out = 0

\* PointersMeet without the modulus: the two pointers are equal or one of them
\* has been round the ring once more.
PointerInv ==
  fence + ready = wptr \/ fence + ready = wptr + Pages \/ fence + ready + Pages = wptr

BufferInv ==
  BufferTypeOK /\ CreditsConserved /\ PrefetcherInv /\ CmdInv /\ WritesInv /\ PointerInv

-----------------------------------------------------------------------------
\* The blocks are equal parts of the buffer, which has at least two.
LEMMA BlockLemma ==
  /\ PagesPerBlock \in Nat \ {0} /\ Blocks \in Nat \ {0, 1}
  /\ Pages \in Nat /\ 2 * PagesPerBlock <= Pages
<1>1. \A x, y, z \in Nat : x <= y => x * z <= y * z
  OBVIOUS
<1> QED
  BY <1>1, BufferAssumption DEF Pages

\* The current block is one of them, and its successor begins where it ends.
LEMMA CurrentLemma ==
  ASSUME blk \in 0 .. Blocks - 1
  PROVE  /\ BlockStart \in Nat
         /\ BlockEnd <= Pages
         /\ blk # Blocks - 1 => (blk + 1) * PagesPerBlock = BlockEnd
         /\ blk = Blocks - 1 => BlockEnd = Pages
<1>1. BlockStart \in Nat /\ (blk + 1) * PagesPerBlock = BlockEnd
  BY BlockLemma DEF BlockStart, BlockEnd
<1>2. \A x, y, z \in Nat : x <= y => x * z <= y * z
  OBVIOUS
<1>3. (blk + 1) * PagesPerBlock <= Pages
  BY <1>2, BlockLemma DEF Pages
<1>4. blk = Blocks - 1 => BlockEnd = Pages
  BY <1>1, BlockLemma DEF Pages
<1> QED
  BY <1>1, <1>3, <1>4

\* In the initial state all the pages are the prefetcher's to take.
LEMMA InitInv == BufferInit => BufferInv
<1> SUFFICES ASSUME BufferInit PROVE BufferInv
  OBVIOUS
<1> USE BlockLemma
<1>1. blk \in 0 .. Blocks - 1 /\ BlockStart = 0
  BY DEF BufferInit, BlockStart
<1>2. prev = FALSE /\ dpc = "run" /\ ppc = "idle" /\ ending = FALSE
  BY DEF BufferInit
<1>3. prev \in BOOLEAN /\ ending \in BOOLEAN
  BY <1>2
<1>4. BufferTypeOK
  BY <1>1, <1>3 DEF BufferInit, BufferTypeOK, BlockEnd
<1>5. CreditsConserved
  BY <1>1, <1>2 DEF BufferInit, CreditsConserved, HeldPages
<1>6. PrefetcherInv /\ CmdInv /\ WritesInv /\ PointerInv
  BY <1>1, <1>2 DEF BufferInit, PrefetcherInv, CmdInv, WritesInv, PointerInv
<1> QED
  BY <1>4, <1>5, <1>6 DEF BufferInv

\* A call of the prefetcher that only begins to wait changes no count.  What
\* it keeps is among the pages it asks for.
LEMMA RequestInv ==
  ASSUME BufferInv,
         NEW n \in Nat, NEW k \in {0, 1}, NEW last \in BOOLEAN, n = 0 => k = 0,
         Request(n, k, last)
  PROVE  BufferInv'
<1> USE BlockLemma
<1>1. BufferTypeOK'
  BY DEF BufferInv, Request, BufferTypeOK, BlockStart, BlockEnd, dispatcher, writes
<1>2. CreditsConserved'
  BY DEF BufferInv, Request, CreditsConserved, HeldPages, BlockStart, dispatcher
<1>3. PrefetcherInv' /\ CmdInv' /\ WritesInv' /\ PointerInv'
  BY DEF BufferInv, Request, BufferTypeOK, PrefetcherInv, CmdInv, WritesInv, BlockStart,
     dispatcher, writes, PointerInv
<1> QED
  BY <1>1, <1>2, <1>3 DEF BufferInv

\* Every step keeps the invariant.
LEMMA StepInv == BufferInv /\ [BufferNext]_bufferVars => BufferInv'
<1> SUFFICES ASSUME BufferInv, [BufferNext]_bufferVars PROVE BufferInv'
  OBVIOUS
<1> USE BlockLemma
<1>0. /\ BufferTypeOK /\ CreditsConserved /\ PrefetcherInv /\ CmdInv /\ WritesInv /\ PointerInv
      /\ BlockStart \in Nat /\ BlockEnd <= Pages
      /\ blk # Blocks - 1 => (blk + 1) * PagesPerBlock = BlockEnd
      /\ blk = Blocks - 1 => BlockEnd = Pages
  BY CurrentLemma DEF BufferInv, BufferTypeOK
<1>1. CASE RelayInline
  <2>1. PICK n \in 1 .. MaxInline : Request(n, 0, FALSE)
    BY <1>1 DEF RelayInline
  <2>2. n \in Nat /\ n # 0
    BY BufferAssumption
  <2> QED
    BY <2>1, <2>2, RequestInv
<1>2. CASE RelayInlineNoflush
  BY <1>2, RequestInv DEF RelayInlineNoflush
<1>3. CASE RelayChunk
  <2>1. PICK n \in 1 .. MaxChunk : Request(n, 1, FALSE)
    BY <1>3 DEF RelayChunk
  <2>2. n \in Nat /\ n # 0
    BY BufferAssumption
  <2> QED
    BY <2>1, <2>2, RequestInv
<1>4. CASE RelayLast
  <2>1. PICK n \in 0 .. MaxChunk : Request(n, 0, FALSE)
    BY <1>4 DEF RelayLast
  <2>2. n \in Nat
    BY BufferAssumption
  <2> QED
    BY <2>1, <2>2, RequestInv
<1>5. CASE RelayTerminate
  BY <1>5, RequestInv DEF RelayTerminate
<1>6. CASE AcquirePages
  <2>1. CreditsConserved'
    BY <1>0, <1>6 DEF AcquirePages, EnoughCredits, BufferTypeOK, CreditsConserved, HeldPages,
       PrefetcherInv, CmdInv, BlockStart, BlockEnd, dispatcher, writes
  <2>2. BufferTypeOK'
    BY <1>0, <1>6, <2>1 DEF AcquirePages, EnoughCredits, BufferTypeOK, CreditsConserved,
       HeldPages, PrefetcherInv, CmdInv, WritesInv, BlockStart, BlockEnd, dispatcher, writes
  <2>3. PrefetcherInv' /\ CmdInv' /\ WritesInv' /\ PointerInv'
    BY <1>0, <1>6 DEF AcquirePages, EnoughCredits, BufferTypeOK, PrefetcherInv, CmdInv, WritesInv,
       BlockStart, BlockEnd, dispatcher, writes, PointerInv
  <2> QED
    BY <2>1, <2>2, <2>3 DEF BufferInv
<1>7. CASE WriteDownstream
  <2>1. CreditsConserved'
    BY <1>0, <1>7 DEF WriteDownstream, Advanced, BufferTypeOK, CreditsConserved, HeldPages,
       PrefetcherInv, CmdInv, BlockStart, BlockEnd, dispatcher, writes
  <2>2. BufferTypeOK'
    BY <1>0, <1>7, <2>1 DEF WriteDownstream, Advanced, BufferTypeOK, CreditsConserved, HeldPages,
       PrefetcherInv, CmdInv, WritesInv, BlockStart, BlockEnd, dispatcher, writes
  <2>3. PrefetcherInv' /\ CmdInv' /\ WritesInv'
    BY <1>0, <1>7 DEF WriteDownstream, Advanced, BufferTypeOK, PrefetcherInv, CmdInv, WritesInv,
       BlockStart, BlockEnd, dispatcher, writes
  <2>4. PointerInv'
    <3>1. fence \in 0 .. Pages /\ fence' = fence
      BY <1>0, <1>7 DEF WriteDownstream, BufferTypeOK, dispatcher
    <3>2. PICK n \in Nat : ready' = ready + n /\ wptr' = Advanced(wptr, n) /\ ready + n <= Pages
      BY <1>0, <1>7, <2>2 DEF WriteDownstream, BufferTypeOK, PrefetcherInv
    <3> QED
      BY <1>0, <3>1, <3>2 DEF BufferTypeOK, Advanced, PointerInv
  <2> QED
    BY <2>1, <2>2, <2>3, <2>4 DEF BufferInv
<1>8. CASE PrefetcherOut
  <2>1. CreditsConserved'
    BY <1>0, <1>8 DEF PrefetcherOut, BufferTypeOK, CreditsConserved, HeldPages, PrefetcherInv,
       CmdInv, BlockStart, BlockEnd, dispatcher, writes
  <2>2. BufferTypeOK'
    BY <1>0, <1>8, <2>1 DEF PrefetcherOut, BufferTypeOK, CreditsConserved, HeldPages,
       PrefetcherInv, CmdInv, WritesInv, BlockStart, BlockEnd, dispatcher, writes
  <2>3. PrefetcherInv' /\ CmdInv' /\ WritesInv' /\ PointerInv'
    BY <1>0, <1>8 DEF PrefetcherOut, BufferTypeOK, PrefetcherInv, CmdInv, WritesInv, BlockStart,
       BlockEnd, dispatcher, writes, PointerInv
  <2> QED
    BY <2>1, <2>2, <2>3 DEF BufferInv
<1>9. CASE MoveToNextBlock
  <2>1. /\ blk' \in 0 .. Blocks - 1
        /\ fence' \in BlockStart' .. BlockEnd' /\ cmd' \in BlockStart' .. fence'
        /\ HeldPages' = PagesPerBlock
    <3>0. prev' = TRUE /\ dpc' = "run"
      BY <1>9 DEF MoveToNextBlock, BlockRelease
    <3>1. CASE blk = Blocks - 1
      BY <1>9, <3>0, <3>1 DEF MoveToNextBlock, BlockStart, BlockEnd, HeldPages
    <3>2. CASE blk # Blocks - 1
      <4>1. blk' = blk + 1 /\ fence' = BlockEnd /\ cmd' = BlockEnd
        BY <1>9, <3>2 DEF MoveToNextBlock
      <4>2. BlockStart' = BlockEnd
        BY <1>0, <3>2, <4>1 DEF BlockStart
      <4>3. BlockEnd \in Nat
        BY <1>0 DEF BlockEnd
      <4> QED
        BY <1>0, <3>0, <3>2, <4>1, <4>2, <4>3 DEF BufferTypeOK, BlockEnd, HeldPages
    <3> QED
      BY <3>1, <3>2
  <2>2. CreditsConserved'
    <3>1. HeldPages' = PagesPerBlock
      BY <2>1
    <3>2. HeldPages = (IF prev THEN PagesPerBlock ELSE 0) + PagesPerBlock
      BY <1>0, <1>9 DEF MoveToNextBlock, BufferTypeOK, HeldPages, BlockEnd
    <3>3. credits' = credits + (IF prev THEN PagesPerBlock ELSE 0)
      BY <1>0, <1>9 DEF MoveToNextBlock, BlockRelease, BufferTypeOK
    <3>4. own' = own /\ ready' = ready /\ owed' = owed
      BY <1>9 DEF MoveToNextBlock, prefetcher
    <3> QED
      BY <1>0, <3>1, <3>2, <3>3, <3>4 DEF BufferTypeOK, CreditsConserved
  <2>3. credits' \in owed .. Pages + owed
    BY <1>0, <1>9 DEF MoveToNextBlock, BlockRelease, BufferTypeOK, CreditsConserved, HeldPages
  <2>4. BufferTypeOK'
    BY <1>0, <1>9, <2>1, <2>3 DEF MoveToNextBlock, BlockRelease, BufferTypeOK, prefetcher
  <2>5. PrefetcherInv' /\ CmdInv' /\ WritesInv'
    BY <1>0, <1>9 DEF MoveToNextBlock, BlockRelease, BufferTypeOK, PrefetcherInv, CmdInv,
       WritesInv, BlockStart, BlockEnd, prefetcher
  <2>6. PointerInv'
    <3>1. CASE blk = Blocks - 1
      BY <1>0, <1>9, <3>1 DEF MoveToNextBlock, BufferTypeOK, PointerInv, prefetcher
    <3>2. CASE blk # Blocks - 1
      BY <1>0, <1>9, <3>2 DEF MoveToNextBlock, PointerInv, prefetcher
    <3> QED
      BY <3>1, <3>2
  <2> QED
    BY <2>2, <2>4, <2>5, <2>6 DEF BufferInv
<1>10. CASE TakeIn
  <2>1. CreditsConserved'
    BY <1>0, <1>10 DEF TakeIn, Usable, BufferTypeOK, CreditsConserved, HeldPages, PrefetcherInv,
       CmdInv, BlockStart, BlockEnd, prefetcher, writes
  <2>2. BufferTypeOK'
    BY <1>0, <1>10, <2>1 DEF TakeIn, Usable, BufferTypeOK, CreditsConserved, HeldPages,
       PrefetcherInv, CmdInv, WritesInv, BlockStart, BlockEnd, prefetcher, writes
  <2>3. PrefetcherInv' /\ CmdInv' /\ WritesInv' /\ PointerInv'
    BY <1>0, <1>10 DEF TakeIn, Usable, BufferTypeOK, PrefetcherInv, CmdInv, WritesInv, BlockStart,
       BlockEnd, prefetcher, writes, PointerInv
  <2> QED
    BY <2>1, <2>2, <2>3 DEF BufferInv
<1>11. CASE ProcessPage
  <2>1. CreditsConserved'
    BY <1>0, <1>11 DEF ProcessPage, BufferTypeOK, CreditsConserved, HeldPages, PrefetcherInv,
       CmdInv, BlockStart, BlockEnd, prefetcher
  <2>2. BufferTypeOK'
    BY <1>0, <1>11, <2>1 DEF ProcessPage, BufferTypeOK, CreditsConserved, HeldPages,
       PrefetcherInv, CmdInv, WritesInv, BlockStart, BlockEnd, prefetcher
  <2>3. PrefetcherInv' /\ CmdInv' /\ WritesInv' /\ PointerInv'
    BY <1>0, <1>11 DEF ProcessPage, BufferTypeOK, PrefetcherInv, CmdInv, WritesInv, BlockStart,
       BlockEnd, prefetcher, PointerInv
  <2> QED
    BY <2>1, <2>2, <2>3 DEF BufferInv
<1>12. CASE Drain
  <2>1. CreditsConserved'
    BY <1>0, <1>12 DEF Drain, BlockRelease, BufferTypeOK, CreditsConserved, HeldPages,
       PrefetcherInv, CmdInv, BlockStart, BlockEnd, prefetcher
  <2>2. BufferTypeOK'
    BY <1>0, <1>12, <2>1 DEF Drain, BlockRelease, BufferTypeOK, CreditsConserved, HeldPages,
       PrefetcherInv, CmdInv, WritesInv, BlockStart, BlockEnd, prefetcher
  <2>3. PrefetcherInv' /\ CmdInv' /\ WritesInv' /\ PointerInv'
    BY <1>0, <1>12 DEF Drain, BlockRelease, BufferTypeOK, PrefetcherInv, CmdInv, WritesInv,
       BlockStart, BlockEnd, prefetcher, PointerInv
  <2> QED
    BY <2>1, <2>2, <2>3 DEF BufferInv
<1>13. CASE ReleaseCurrent
  <2>1. CreditsConserved'
    BY <1>0, <1>13 DEF ReleaseCurrent, PagesOfBlock, BufferTypeOK, CreditsConserved, HeldPages,
       PrefetcherInv, CmdInv, BlockStart, BlockEnd, prefetcher, writes
  <2>2. BufferTypeOK'
    BY <1>0, <1>13, <2>1 DEF ReleaseCurrent, PagesOfBlock, BufferTypeOK, CreditsConserved,
       HeldPages, PrefetcherInv, CmdInv, WritesInv, BlockStart, BlockEnd, prefetcher, writes
  <2>3. PrefetcherInv' /\ CmdInv' /\ WritesInv' /\ PointerInv'
    BY <1>0, <1>13 DEF ReleaseCurrent, PagesOfBlock, BufferTypeOK, PrefetcherInv, CmdInv,
       WritesInv, BlockStart, BlockEnd, prefetcher, writes, PointerInv
  <2> QED
    BY <2>1, <2>2, <2>3 DEF BufferInv
<1>14. CASE DispatcherOut
  <2>1. CreditsConserved'
    BY <1>0, <1>14 DEF DispatcherOut, BufferTypeOK, CreditsConserved, HeldPages, PrefetcherInv,
       CmdInv, BlockStart, BlockEnd, prefetcher, writes
  <2>2. BufferTypeOK'
    BY <1>0, <1>14, <2>1 DEF DispatcherOut, BufferTypeOK, CreditsConserved, HeldPages,
       PrefetcherInv, CmdInv, WritesInv, BlockStart, BlockEnd, prefetcher, writes
  <2>3. PrefetcherInv' /\ CmdInv' /\ WritesInv' /\ PointerInv'
    BY <1>0, <1>14 DEF DispatcherOut, BufferTypeOK, PrefetcherInv, CmdInv, WritesInv, BlockStart,
       BlockEnd, prefetcher, writes, PointerInv
  <2> QED
    BY <2>1, <2>2, <2>3 DEF BufferInv
<1>15. CASE DecrementLands
  <2>1. CreditsConserved'
    BY <1>0, <1>15 DEF DecrementLands, BufferTypeOK, CreditsConserved, HeldPages, PrefetcherInv,
       CmdInv, BlockStart, BlockEnd, prefetcher, dispatcher, writes
  <2>2. BufferTypeOK'
    BY <1>0, <1>15, <2>1 DEF DecrementLands, BufferTypeOK, CreditsConserved, HeldPages,
       PrefetcherInv, CmdInv, WritesInv, BlockStart, BlockEnd, prefetcher, dispatcher,
       writes
  <2>3. PrefetcherInv' /\ CmdInv' /\ WritesInv' /\ PointerInv'
    BY <1>0, <1>15 DEF DecrementLands, BufferTypeOK, PrefetcherInv, CmdInv, WritesInv, BlockStart,
       BlockEnd, prefetcher, dispatcher, writes, PointerInv
  <2> QED
    BY <2>1, <2>2, <2>3 DEF BufferInv
<1>16. CASE WriteDeparts
  <2>1. CreditsConserved'
    BY <1>0, <1>16 DEF WriteDeparts, BufferTypeOK, CreditsConserved, HeldPages, PrefetcherInv,
       CmdInv, BlockStart, BlockEnd, prefetcher, dispatcher
  <2>2. BufferTypeOK'
    BY <1>0, <1>16, <2>1 DEF WriteDeparts, BufferTypeOK, CreditsConserved, HeldPages,
       PrefetcherInv, CmdInv, WritesInv, BlockStart, BlockEnd, prefetcher, dispatcher
  <2>3. PrefetcherInv' /\ CmdInv' /\ WritesInv' /\ PointerInv'
    BY <1>0, <1>16 DEF WriteDeparts, BufferTypeOK, PrefetcherInv, CmdInv, WritesInv, BlockStart,
       BlockEnd, prefetcher, dispatcher, PointerInv
  <2> QED
    BY <2>1, <2>2, <2>3 DEF BufferInv
<1>17. CASE UNCHANGED bufferVars
  BY <1>0, <1>17 DEF bufferVars, prefetcher, dispatcher, writes, BufferInv, BufferTypeOK,
     CreditsConserved, HeldPages, PrefetcherInv, CmdInv, WritesInv, PointerInv, BlockStart,
     BlockEnd
<1> QED
  BY <1>1, <1>2, <1>3, <1>4, <1>5, <1>6, <1>7, <1>8, <1>9, <1>10, <1>11, <1>12, <1>13, <1>14,
     <1>15, <1>16, <1>17 DEF BufferNext, PrefetcherStep, DispatcherStep

\* BufferInv is inductive: it holds in every state of a prefetcher and a
\* dispatcher that share a buffer of any number and size of blocks.
THEOREM BufferInvariant == BufferSpec => []BufferInv
  BY InitInv, StepInv, PTL DEF BufferSpec

\* cb_acquire_pages, cb_release_pages and cb_block_release_pages never lose a
\* page or give one back twice, whatever the commands and their lengths, up to
\* the "leak" checks at the end of both kernels.
THEOREM CreditsTheorem == BufferSpec => []CreditsConserved
<1>1. BufferInv => CreditsConserved
  BY DEF BufferInv
<1> QED
  BY <1>1, BufferInvariant, PTL

\* Pointers stay inside the ring, the dispatcher's fence inside its block, and
\* no semaphore goes below 0 or above the pages there are.
THEOREM BufferTypeCorrect == BufferSpec => []BufferTypeOK
<1>1. BufferInv => BufferTypeOK
  BY DEF BufferInv
<1> QED
  BY <1>1, BufferInvariant, PTL

-----------------------------------------------------------------------------
(***************************************************************************)
(* From counts to places in the ring.                                      *)
(***************************************************************************)
\* Quotient and remainder.
LEMMA DivMod ==
  \A a \in Nat, p \in Nat \ {0} :
     a = p * (a \div p) + (a % p) /\ a % p \in 0 .. p - 1 /\ a \div p \in Nat
  OBVIOUS

\* Between -p and p there is no multiple of p but 0.
LEMMA NoMultiple ==
  ASSUME NEW d \in Int, NEW p \in Nat \ {0}, d * p < p, d * p > -p
  PROVE  d = 0
<1>1. CASE d >= 1
  <2>1. d * p >= p
    BY <1>1
  <2> QED
    BY <2>1
<1>2. CASE d <= -1
  <2>1. d * p <= -p
    BY <1>2
  <2> QED
    BY <2>1
<1> QED
  BY <1>1, <1>2

\* Numbers less than p apart have different remainders.
LEMMA Apart ==
  ASSUME NEW x \in Nat, NEW y \in Nat, NEW p \in Nat \ {0}, x < y, y < x + p
  PROVE  x % p # y % p
<1> SUFFICES ASSUME x % p = y % p PROVE FALSE
  OBVIOUS
<1> DEFINE d == (y \div p) - (x \div p)
<1>1. /\ x = p * (x \div p) + (x % p) /\ y = p * (y \div p) + (y % p)
      /\ (x \div p) \in Nat /\ (y \div p) \in Nat
  BY DivMod
<1>2. d \in Int /\ y - x = d * p
  BY <1>1
<1> HIDE DEF d
<1>3. d = 0
  BY <1>2, NoMultiple
<1> QED
  BY <1>2, <1>3

\* Once round the ring is the same page.
LEMMA OnceRound ==
  ASSUME NEW x \in Nat, NEW p \in Nat \ {0}
  PROVE  (x + p) % p = x % p
<1>1. PICK y \in Nat : y = x + p
  OBVIOUS
<1> DEFINE d == (y \div p) - (x \div p) - 1
<1>2. /\ x = p * (x \div p) + (x % p) /\ y = p * (y \div p) + (y % p)
      /\ (x \div p) \in Nat /\ (y \div p) \in Nat
      /\ x % p \in 0 .. p - 1 /\ y % p \in 0 .. p - 1
  BY DivMod
<1>3. d \in Int /\ d * p = (x % p) - (y % p)
  BY <1>1, <1>2
<1> HIDE DEF d
<1>4. d = 0
  BY <1>2, <1>3, NoMultiple
<1> QED
  BY <1>1, <1>2, <1>3, <1>4

\* Everything the prefetcher and the dispatcher still use fits into the ring.
LEMMA RoomLemma == BufferInv => own + ready + out + (fence - cmd) <= Pages
<1> SUFFICES ASSUME BufferInv PROVE own + ready + out + (fence - cmd) <= Pages
  OBVIOUS
<1> USE BlockLemma, CurrentLemma
<1>1. BufferTypeOK /\ CreditsConserved /\ CmdInv /\ WritesInv /\ BlockStart \in Nat
  BY DEF BufferInv, BufferTypeOK
<1>2. out + (fence - cmd) <= HeldPages /\ HeldPages \in Nat
  BY <1>1 DEF BufferTypeOK, CmdInv, WritesInv, HeldPages, BlockEnd
<1> QED
  BY <1>1, <1>2 DEF BufferTypeOK, CreditsConserved

\* The page after the ones sent is the prefetcher's next, and i pages further
\* on they still agree.
LEMMA SamePage ==
  ASSUME BufferInv, NEW i \in Nat
  PROVE  (fence + ready + Pages + i) % Pages = (wptr + i) % Pages
<1>1. /\ fence \in Nat /\ ready \in Nat /\ wptr \in Nat /\ Pages \in Nat \ {0}
      /\ PointerInv
  BY BlockLemma, CurrentLemma DEF BufferInv, BufferTypeOK
<1>2. PICK y \in Nat : y = fence + ready + i
  BY <1>1
<1>3. PICK w \in Nat : w = wptr + i
  BY <1>1
<1>4. (y + Pages) % Pages = y % Pages /\ (w + Pages) % Pages = w % Pages
  BY <1>1, OnceRound
<1>5. y % Pages = w % Pages
  <2>1. y = w \/ y = w + Pages \/ y + Pages = w
    BY <1>1, <1>2, <1>3 DEF PointerInv
  <2> QED
    BY <1>4, <2>1
<1>6. fence + ready + Pages + i = y + Pages
  BY <1>1, <1>2
<1> QED
  BY <1>3, <1>4, <1>5, <1>6

\* The pages the prefetcher may write to are none of those still read.
LEMMA FreeLemma == BufferInv => AcquiredIsFree
<1> SUFFICES ASSUME BufferInv,
                    NEW i \in 0 .. own - 1,
                    NEW j \in 0 .. (out + (fence - cmd) + ready) - 1,
                    (wptr + i) % Pages = (Pages + cmd - out + j) % Pages
             PROVE  FALSE
  BY DEF AcquiredIsFree, RingPages, NeededPages
<1>1. /\ fence \in Nat /\ cmd \in Nat /\ cmd <= fence /\ ready \in Nat /\ wptr \in Nat
      /\ own \in Nat /\ out \in Nat /\ out <= Pages /\ Pages \in Nat \ {0}
  BY BlockLemma, CurrentLemma DEF BufferInv, BufferTypeOK
<1>2. PICK x \in Nat : x = Pages + cmd - out + j
  BY <1>1
<1>3. PICK y \in Nat : y = fence + ready + Pages + i
  BY <1>1
<1>4. x < y /\ y < x + Pages
  BY <1>1, <1>2, <1>3, RoomLemma
<1>5. x % Pages # y % Pages
  BY <1>1, <1>4, Apart
<1>6. y % Pages = (wptr + i) % Pages
  <2>1. i \in Nat
    BY <1>1
  <2>2. (fence + ready + Pages + i) % Pages = (wptr + i) % Pages
    BY <2>1, SamePage
  <2> QED
    BY <1>3, <2>2
<1> QED
  BY <1>2, <1>5, <1>6

\* write_downstream, cb_block_release_pages and the credits between them never
\* let the prefetcher write to a page that the dispatcher has still to take in
\* or to process, or that a NoC write of the dispatcher still reads.
THEOREM AcquiredIsFreeTheorem == BufferSpec => []AcquiredIsFree
  BY FreeLemma, BufferInvariant, PTL

\* The prefetcher's downstream_data_ptr, which rests at the end of the ring, and
\* the dispatcher's cb_fence, which is reset there, stay on the same page.
THEOREM PointersMeetTheorem == BufferSpec => []PointersMeet
<1>1. BufferInv => PointersMeet
  <2> SUFFICES ASSUME BufferInv PROVE PointersMeet
    OBVIOUS
  <2>1. fence \in Nat /\ ready \in Nat /\ wptr \in Nat /\ Pages \in Nat \ {0}
    BY BlockLemma, CurrentLemma DEF BufferInv, BufferTypeOK
  <2>2. (fence + ready + Pages + 0) % Pages = (wptr + 0) % Pages
    BY SamePage
  <2>3. PICK y \in Nat : y = fence + ready
    BY <2>1
  <2>4. (y + Pages) % Pages = y % Pages
    BY <2>1, OnceRound
  <2>5. fence + ready + Pages + 0 = y + Pages /\ wptr + 0 = wptr
    BY <2>1, <2>3
  <2> QED
    BY <2>2, <2>3, <2>4, <2>5 DEF PointersMeet
<1> QED
  BY <1>1, BufferInvariant, PTL
==============================================================================
