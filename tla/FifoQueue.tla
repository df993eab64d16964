------------------------------ MODULE FifoQueue ------------------------------
(***************************************************************************)
(* What LockFreeQueue promises its users (WorkExecutor, CommandQueue and   *)
(* HWCommandQueue): a bounded first-in first-out queue.  A value that was  *)
(* put is handed out exactly once, in the order of the puts, and a put     *)
(* waits while Capacity values are queued.                                 *)
(***************************************************************************)
EXTENDS Naturals, Sequences

CONSTANTS Values, Capacity

VARIABLES queue,    \* the values put and not yet taken, oldest first
          lastOut   \* the singleton of the value taken last, {} before that

vars == <<queue, lastOut>>

Init == /\ queue = << >>
        /\ lastOut = {}

Put(v) == /\ Len(queue) < Capacity
          /\ queue' = Append(queue, v)
          /\ UNCHANGED lastOut

Take == /\ queue # << >>
        /\ lastOut' = {Head(queue)}
        /\ queue' = Tail(queue)

Next == Take \/ \E v \in Values : Put(v)

Spec == Init /\ [][Next]_vars
=============================================================================
