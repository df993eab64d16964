---------------------------- MODULE LockFreeQueue ----------------------------
(***************************************************************************)
(* tt_metal/impl/dispatch/lock_free_queue.hpp: a ring of Size nodes with   *)
(* two atomic node pointers.  head and tail are node indices and `next' of *)
(* a node is Succ.  An action is one access of an atomic or of a node's    *)
(* data; seq_cst atomics make the interleaving of those accesses the       *)
(* program's behaviours.                                                   *)
(*                                                                         *)
(* The callers are: a set of writers, of which only Parent pushes while    *)
(* the queue is lock free ("Supports single writer, single reader"), and   *)
(* one reader, which calls pop only after it saw empty() return false, or  *)
(* calls clear.                                                            *)
(***************************************************************************)
EXTENDS Integers, Sequences

CONSTANTS Size,      \* ring_buffer_size
          Values,    \* what is pushed
          Null,      \* the empty shared_ptr
          Writers,   \* the threads that may call push
          Parent     \* the one that pushes in lock-free mode

ASSUME SizeAssumption == Size \in Nat /\ Size >= 2
ASSUME ValuesAssumption == Null \notin Values
ASSUME WritersAssumption == Parent \in Writers

VARIABLES
  head, tail,   \* indices of the nodes the atomics point to
  data,         \* data[i]: the shared_ptr of node i
  lockBased,    \* lock_func/unlock_func lock queue_mutex
  mutex,        \* queue_mutex: the set of writers holding it
  wpc, wval,    \* per writer: where it is in push, and its argument
  rpc,          \* where the reader is in pop, or in the pop of clear
  clearing,     \* the reader is inside clear()
  oldHead,      \* the reader's local in pop_head
  result        \* what pop returned last: {} or {value}

writerVars == <<tail, mutex, wpc, wval>>
vars == <<head, tail, data, lockBased, mutex, wpc, wval,
          rpc, clearing, oldHead, result>>

Nodes == 0 .. Size - 1

\* The constructor links each node to the following one, the last to the first.
Succ(i) == IF i = Size - 1 THEN 0 ELSE i + 1

TypeOK ==
  /\ head \in Nodes /\ tail \in Nodes /\ oldHead \in Nodes
  /\ data \in [Nodes -> Values \cup {Null}]
  /\ lockBased \in BOOLEAN /\ clearing \in BOOLEAN
  /\ mutex \in SUBSET Writers
  /\ wpc \in [Writers -> {"idle", "lock", "stall", "write", "publish", "unlock"}]
  /\ wval \in [Writers -> Values]
  /\ rpc \in {"idle", "load", "store", "copy", "reset", "null"}
  /\ result \in SUBSET (Values \cup {Null})

Init ==
  /\ head = 0 /\ tail = 0 /\ oldHead = 0
  /\ data = [i \in Nodes |-> Null]
  /\ lockBased = FALSE /\ clearing = FALSE
  /\ mutex = {}
  /\ wpc = [w \in Writers |-> "idle"]
  /\ wval \in [Writers -> Values]
  /\ rpc = "idle"
  /\ result = {}

(***************************************************************************)
(* set_lock_free / set_lock_based.  They assign the std::functions that    *)
(* push calls, so the caller may not be racing with a push.                *)
(***************************************************************************)
SetLockMode ==
  /\ \A w \in Writers : wpc[w] = "idle"
  /\ lockBased' = ~lockBased
  /\ UNCHANGED <<head, data, tail, mutex, wpc, wval, rpc, clearing, oldHead, result>>

(***************************************************************************)
(* push(value), both overloads.                                            *)
(***************************************************************************)
PushCall(w, v) ==
  /\ wpc[w] = "idle"
  /\ lockBased \/ w = Parent
  /\ wpc' = [wpc EXCEPT ![w] = IF lockBased THEN "lock" ELSE "stall"]
  /\ wval' = [wval EXCEPT ![w] = v]
  /\ UNCHANGED <<head, tail, data, lockBased, mutex, rpc, clearing, oldHead, result>>

PushLock(w) ==
  /\ wpc[w] = "lock"
  /\ mutex = {}
  /\ mutex' = {w}
  /\ wpc' = [wpc EXCEPT ![w] = "stall"]
  /\ UNCHANGED <<head, tail, data, lockBased, wval, rpc, clearing, oldHead, result>>

\* Mutant of PushStall: every node may be filled, none is kept free.
PushStallNoGap(w) ==
  /\ wpc[w] = "stall"
  /\ tail # head \/ rpc # "copy"
  /\ wpc' = [wpc EXCEPT ![w] = "write"]
  /\ UNCHANGED <<head, tail, data, lockBased, mutex, wval, rpc, clearing, oldHead, result>>

\* while (tail.load()->next == head.load()) {};
PushStall(w) ==
  /\ wpc[w] = "stall"
  /\ Succ(tail) # head
  /\ wpc' = [wpc EXCEPT ![w] = "write"]
  /\ UNCHANGED <<head, tail, data, lockBased, mutex, wval, rpc, clearing, oldHead, result>>

PushWrite(w) ==
  /\ wpc[w] = "write"
  /\ data' = [data EXCEPT ![tail] = wval[w]]
  /\ wpc' = [wpc EXCEPT ![w] = "publish"]
  /\ UNCHANGED <<head, tail, lockBased, mutex, wval, rpc, clearing, oldHead, result>>

PushPublish(w) ==
  /\ wpc[w] = "publish"
  /\ tail' = Succ(tail)
  /\ wpc' = [wpc EXCEPT ![w] = IF lockBased THEN "unlock" ELSE "idle"]
  /\ UNCHANGED <<head, data, lockBased, mutex, wval, rpc, clearing, oldHead, result>>

PushUnlock(w) ==
  /\ wpc[w] = "unlock"
  /\ mutex' = mutex \ {w}
  /\ wpc' = [wpc EXCEPT ![w] = "idle"]
  /\ UNCHANGED <<head, tail, data, lockBased, wval, rpc, clearing, oldHead, result>>

(***************************************************************************)
(* The reader.  empty() compares the two pointers; the callers in the      *)
(* repository test it before they pop, and clear() does so in a loop.      *)
(***************************************************************************)
Empty == head = tail

PopCall ==
  /\ rpc = "idle" /\ ~clearing
  /\ ~Empty
  /\ rpc' = "load"
  /\ UNCHANGED <<head, clearing, oldHead, result, data, lockBased, writerVars>>

ClearCall ==
  /\ rpc = "idle" /\ ~clearing
  /\ clearing' = TRUE
  /\ UNCHANGED <<head, rpc, oldHead, result, data, lockBased, writerVars>>

\* while (!empty()) { void(pop()); }
ClearStep ==
  /\ rpc = "idle" /\ clearing
  /\ IF Empty THEN clearing' = FALSE /\ UNCHANGED rpc
              ELSE rpc' = "load" /\ UNCHANGED clearing
  /\ UNCHANGED <<head, oldHead, result, data, lockBased, writerVars>>

\* pop_head: oldHead = head.load(), compared with tail.load().  On an empty
\* queue pop_head returns nullptr, which pop dereferences: rpc stays "null".
PopLoad ==
  /\ rpc = "load"
  /\ oldHead' = head
  /\ rpc' = IF head = tail THEN "null" ELSE "store"
  /\ UNCHANGED <<head, clearing, result, data, lockBased, writerVars>>

\* head.store(oldHead->next): the node is given up before its data is read.
PopStore ==
  /\ rpc = "store"
  /\ head' = Succ(oldHead)
  /\ rpc' = "copy"
  /\ UNCHANGED <<clearing, oldHead, result, data, lockBased, writerVars>>

\* Mutant of PopCopy: the data of the new head is copied.
PopCopyNewHead ==
  /\ rpc = "copy"
  /\ result' = {data[head]}
  /\ rpc' = "reset"
  /\ UNCHANGED <<head, clearing, oldHead, data, lockBased, writerVars>>

PopCopy ==
  /\ rpc = "copy"
  /\ result' = {data[oldHead]}
  /\ rpc' = "reset"
  /\ UNCHANGED <<head, clearing, oldHead, data, lockBased, writerVars>>

PopReset ==
  /\ rpc = "reset"
  /\ data' = [data EXCEPT ![oldHead] = Null]
  /\ rpc' = "idle"
  /\ UNCHANGED <<head, clearing, oldHead, result, lockBased, writerVars>>

Push(w) == \/ \E v \in Values : PushCall(w, v)
           \/ PushLock(w) \/ PushStall(w) \/ PushWrite(w)
           \/ PushPublish(w) \/ PushUnlock(w)

Pop == PopCall \/ ClearCall \/ ClearStep
       \/ PopLoad \/ PopStore \/ PopCopy \/ PopReset

Next == SetLockMode \/ Pop \/ \E w \in Writers : Push(w)

Spec == Init /\ [][Next]_vars

(***************************************************************************)
(* Properties.                                                             *)
(***************************************************************************)

\* A writer about to store into the tail node never meets the reader still
\* copying or resetting that node, although pop_head gives the node up (by
\* advancing head) before pop reads it: the stall condition of push keeps one
\* node free for exactly this.
NoSlotRace ==
  \A w \in Writers : wpc[w] = "write" /\ rpc \in {"copy", "reset"} => tail # oldHead

\* Two pushes never run their critical part at once, whatever the lock mode.
OneWriter ==
  \A u, w \in Writers :
    wpc[u] \in {"stall", "write", "publish"} /\ wpc[w] \in {"stall", "write", "publish"}
      => u = w

\* The nodes from head up to tail, the ones a pop may hand out.
Occupied(i) == IF head <= tail THEN head <= i /\ i < tail
                               ELSE head <= i \/ i < tail

\* pop never runs into an empty queue, and never hands out the empty pointer
\* that marks a consumed node: its callers dereference the result at once.
NoNullPop ==
  /\ rpc # "null"
  /\ Null \notin result
  /\ rpc = "copy" => data[oldHead] # Null

(***************************************************************************)
(* The inductive invariant behind the three properties above.              *)
(***************************************************************************)

\* In lock-based mode the critical part of push is run by the holder of the
\* mutex; in lock-free mode only Parent is inside push.
LockInv ==
  /\ \A u, w \in mutex : u = w
  /\ lockBased => \A w \in Writers :
       wpc[w] \in {"stall", "write", "publish", "unlock"} <=> w \in mutex
  /\ ~lockBased => /\ mutex = {}
                   /\ \A w \in Writers : wpc[w] # "idle" => w = Parent
                   /\ \A w \in Writers : wpc[w] \notin {"lock", "unlock"}

\* Past the stall loop the node after tail is not head, and it stays so until
\* tail moves although head moves meanwhile.
GapInv ==
  \A w \in Writers : wpc[w] \in {"write", "publish"} => Succ(tail) # head

\* The reader's oldHead is head before the store and the node before it after.
ReaderInv ==
  /\ rpc # "null"
  /\ rpc \in {"load", "store"} => head # tail
  /\ rpc = "store" => oldHead = head
  /\ rpc \in {"copy", "reset"} => head = Succ(oldHead)

\* Nodes that are, or are about to be, or were just queued hold a value.
DataInv ==
  /\ \A i \in Nodes : Occupied(i) => data[i] # Null
  /\ \A w \in Writers : wpc[w] = "publish" => data[tail] # Null
  /\ rpc = "copy" => data[oldHead] # Null
  /\ Null \notin result

QueueInv == TypeOK /\ LockInv /\ GapInv /\ ReaderInv /\ DataInv

(***************************************************************************)
(* The ring implements FifoQueue: a push takes effect when it stores tail, *)
(* a pop when it stores head, even though the reader fetches the data of   *)
(* the node it took only later.                                            *)
(***************************************************************************)
Count == IF head <= tail THEN tail - head ELSE tail + Size - head

Queued == [k \in 1 .. Count |-> data[IF head + k - 1 < Size THEN head + k - 1
                                                           ELSE head + k - 1 - Size]]

Fifo == INSTANCE FifoQueue WITH
          Capacity <- Size - 1,
          queue    <- Queued,
          lastOut  <- IF rpc = "copy" THEN {data[oldHead]} ELSE result

\* Values are popped exactly once and in the order of the pushes, also across
\* the wrap of the ring and with a push in progress.
ImplementsFifo == Fifo!Spec
=============================================================================
