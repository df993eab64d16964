------------------------------ MODULE IssueQueue ------------------------------
(***************************************************************************)
(* How commands get from the host to the prefetcher: SystemMemoryManager   *)
(* (command_queue_interface.hpp) writes a command into the issue queue, a  *)
(* ring in host memory, and its size into the fetch queue, a ring of       *)
(* entries in the prefetcher's memory; fetch_q_get_cmds (cq_prefetch.cpp)  *)
(* reads it over PCIe into cmddat_q, from where it is processed.           *)
(*                                                                         *)
(* Nothing guards the issue queue itself.  The host writes first and waits *)
(* for a fetch queue entry afterwards, and the prefetcher gives the entry  *)
(* back when it has only asked for the data.  Sizes are in units of one    *)
(* prefetcher command; a fetch of n units is n commands, the last of which *)
(* is an exec_buf if the entry has the stall flag.                         *)
(*                                                                         *)
(* A cell of memory holds the place of its command in the line of commands *)
(* issued and not yet processed, 1 for the next one to process.  A cell    *)
(* that was read is worth nothing any more and holds 0.                    *)
(***************************************************************************)
EXTENDS Naturals

CONSTANTS Entries,     \* prefetch_q_entries
          MaxSize,     \* max_prefetch_command_size
          IssueSize,   \* get_issue_queue_size, pcie_size
          CmddatSize   \* cmddat_q_size

\* The TT_FATAL of SystemMemoryManager and the TT_ASSERT of dispatch_constants.
ASSUME IssueAssumption ==
  /\ Entries \in Nat \ {0, 1} /\ MaxSize \in Nat \ {0}
  /\ IssueSize \in Nat /\ MaxSize * (Entries + 2) <= IssueSize
  /\ CmddatSize \in Nat /\ CmddatSize >= 2 * MaxSize

VARIABLES
  hpc, hsize, hstall,   \* the host: its position and the command being issued
  wrPtr,      \* issue_fifo_wr_ptr
  devPtr,     \* prefetch_q_dev_ptrs: the next entry to write
  devFence,   \* prefetch_q_dev_fences: rdPtr when the host last looked
  line,       \* the number of commands issued and not processed
  issueMem,   \* the issue queue
  fetchQ,     \* the fetch queue: size and stall flag, size 0 if free
  rdPtr,      \* PREFETCH_Q_RD: the last entry the prefetcher took
  dpc,        \* the prefetcher's position
  qPtr,       \* prefetch_q_rd_ptr: the next entry to take
  pciePtr,    \* pcie_read_ptr
  fence, cmdPtr, cmddat,   \* the prefetcher's queue of data
  pending,    \* the read in flight: address in the issue queue and size
  stall       \* stall_state

host == <<hpc, hsize, hstall, wrPtr, devPtr, devFence, issueMem>>
vars == <<hpc, hsize, hstall, wrPtr, devPtr, devFence, line, issueMem, fetchQ, rdPtr,
          dpc, qPtr, pciePtr, fence, cmdPtr, cmddat, pending, stall>>
prefetcher == <<dpc, qPtr, pciePtr, fence, cmdPtr, cmddat, pending, stall>>

Free == [size |-> 0, stall |-> FALSE]
NoRead == [from |-> 0, size |-> 0, here |-> FALSE]
Junk == [place |-> 0, exec |-> FALSE]
Cells == [place : 0 .. IssueSize + CmddatSize, exec : BOOLEAN]

TypeOK ==
  /\ hpc \in {"idle", "reserve", "wrapped", "write"}
  /\ hsize \in 0 .. MaxSize /\ hstall \in BOOLEAN
  /\ wrPtr \in 0 .. IssueSize - 1
  /\ devPtr \in 0 .. Entries /\ devFence \in 0 .. Entries /\ rdPtr \in 0 .. Entries
  /\ line \in 0 .. IssueSize + CmddatSize
  /\ issueMem \in [0 .. IssueSize - 1 -> Cells]
  /\ fetchQ \in [0 .. Entries - 1 -> [size : 0 .. MaxSize, stall : BOOLEAN]]
  /\ dpc \in {"get", "barrier", "stallBarrier", "process"}
  /\ qPtr \in 0 .. Entries - 1 /\ pciePtr \in 0 .. IssueSize
  /\ fence \in 0 .. CmddatSize /\ cmdPtr \in 0 .. CmddatSize
  /\ fence + pending.size <= CmddatSize
  /\ cmddat \in [0 .. CmddatSize - 1 -> Cells]
  /\ stall \in {"NOT_STALLED", "STALL_NEXT", "STALLED"}

Init ==
  /\ hpc = "idle" /\ hsize = 0 /\ hstall = FALSE /\ wrPtr = 0
  /\ devPtr = 0 /\ devFence = Entries /\ rdPtr = Entries /\ line = 0
  /\ issueMem = [a \in 0 .. IssueSize - 1 |-> Junk]
  /\ fetchQ = [e \in 0 .. Entries - 1 |-> Free]
  /\ dpc = "get" /\ qPtr = 0 /\ pciePtr = 0
  /\ fence = 0 /\ cmdPtr = 0 /\ cmddat = [a \in 0 .. CmddatSize - 1 |-> Junk]
  /\ pending = NoRead /\ stall = "NOT_STALLED"

-----------------------------------------------------------------------------
(***************************************************************************)
(* Host.                                                                   *)
(***************************************************************************)
\* issue_queue_reserve: where a command of this size goes.
Reserved(size) == IF wrPtr + size > IssueSize THEN 0 ELSE wrPtr

\* issue_queue_push_back.
PushedBack(at, size) == IF at + size >= IssueSize THEN 0 ELSE at + size

\* issue_queue_reserve, cq_write and issue_queue_push_back.
IssueCommand(size, isExec) ==
  LET at == Reserved(size)
  IN  /\ hpc = "idle"
      /\ issueMem' = [a \in 0 .. IssueSize - 1 |->
                        IF a \in at .. at + size - 1
                          THEN [place |-> line + 1 + (a - at),
                                exec |-> isExec /\ a = at + size - 1]
                          ELSE issueMem[a]]
      /\ line' = line + size
      /\ wrPtr' = PushedBack(at, size)
      /\ hsize' = size /\ hstall' = isExec /\ hpc' = "reserve"
      /\ UNCHANGED <<prefetcher, devPtr, devFence, fetchQ, rdPtr>>

\* One round of wait_for_fetch_q_space.
ReadFence ==
  /\ hpc \in {"reserve", "wrapped"} /\ devPtr = devFence
  /\ devFence' = rdPtr
  /\ UNCHANGED <<prefetcher, hpc, hsize, hstall, wrPtr, devPtr, line, issueMem, fetchQ, rdPtr>>

\* fetch_queue_reserve_back: wait, wrap, wait again if it wrapped.
FetchQueueReserveBack ==
  /\ hpc \in {"reserve", "wrapped"} /\ devPtr # devFence
  /\ IF hpc = "reserve" /\ devPtr = Entries
       THEN devPtr' = 0 /\ hpc' = "wrapped"
       ELSE hpc' = "write" /\ UNCHANGED devPtr
  /\ UNCHANGED <<prefetcher, hsize, hstall, wrPtr, devFence, line, issueMem, fetchQ, rdPtr>>

FetchQueueWrite ==
  /\ hpc = "write"
  /\ fetchQ' = [fetchQ EXCEPT ![devPtr] = [size |-> hsize, stall |-> hstall]]
  /\ devPtr' = devPtr + 1
  /\ hpc' = "idle" /\ hsize' = 0 /\ hstall' = FALSE
  /\ UNCHANGED <<prefetcher, wrPtr, devFence, line, issueMem, rdPtr>>

HostStep == ReadFence \/ FetchQueueReserveBack \/ FetchQueueWrite

-----------------------------------------------------------------------------
(***************************************************************************)
(* Prefetcher.                                                             *)
(***************************************************************************)
\* Mutant of PcieFrom: the prefetcher wraps where the host does not.
PcieFromEarly(size) == IF pciePtr + size >= IssueSize THEN 0 ELSE pciePtr

\* read_from_pcie: the prefetcher follows the host's writes by wrapping as it does.
PcieFrom(size) == IF pciePtr + size > IssueSize THEN 0 ELSE pciePtr

\* read_from_pcie has to wait with a wrap of cmddat_q until nothing is left in it.
CanRead(size, f, c) == f + size <= CmddatSize \/ c = f

NextEntry == IF qPtr + 1 = Entries THEN 0 ELSE qPtr + 1

\* What read_from_pcie tells the host: the entry it has just read.
Published == qPtr

\* read_from_pcie, when it does read; f is fence.
ReadFromPcie(size, f) ==
  /\ fence' = IF f + size > CmddatSize THEN 0 ELSE f
  /\ pending' = [from |-> PcieFrom(size), size |-> size, here |-> FALSE]
  /\ pciePtr' = PcieFrom(size) + size
  /\ fetchQ' = [fetchQ EXCEPT ![qPtr] = Free]
  /\ rdPtr' = Published
  /\ qPtr' = NextEntry

\* The NoC delivers the data any time after it was asked for.
ReadArrives ==
  /\ pending.size > 0 /\ ~pending.here
  /\ cmddat' = [a \in 0 .. CmddatSize - 1 |->
                  IF a \in fence .. fence + pending.size - 1
                    THEN issueMem[pending.from + (a - fence)] ELSE cmddat[a]]
  /\ issueMem' = [a \in 0 .. IssueSize - 1 |->
                    IF a \in pending.from .. pending.from + pending.size - 1
                      THEN Junk ELSE issueMem[a]]
  /\ pending' = [pending EXCEPT !.here = TRUE]
  /\ UNCHANGED <<hpc, hsize, hstall, wrPtr, devPtr, devFence, line, fetchQ, rdPtr,
                 dpc, qPtr, pciePtr, fence, cmdPtr, stall>>

StallNext(e) == IF e.stall THEN "STALL_NEXT" ELSE "NOT_STALLED"

\* if (fence < cmd_ptr) cmd_ptr = fence;
Rewound == IF fence < cmdPtr THEN fence ELSE cmdPtr

\* fetch_q_get_cmds up to its first read or barrier.  With nothing fetched,
\* pending or offered it waits for the host, that is, starts again.
GetCmds ==
  /\ dpc = "get"
  /\ LET e     == fetchQ[qPtr]
         c     == Rewound
         ready == c # fence
         reads == e.size > 0 /\ pending.size = 0 /\ CanRead(e.size, fence, c)
     IN  IF stall = "STALLED"
           THEN dpc' = "process"
                /\ UNCHANGED <<fetchQ, rdPtr, qPtr, pciePtr, fence, cmdPtr, pending, stall>>
           ELSE /\ stall' = StallNext(e)
                /\ cmdPtr' = c
                /\ IF reads THEN ReadFromPcie(e.size, fence)
                            ELSE UNCHANGED <<fence, pending, pciePtr, fetchQ, rdPtr, qPtr>>
                /\ dpc' = IF reads /\ e.stall THEN "stallBarrier"
                          ELSE IF ready THEN "process"
                          ELSE IF reads \/ pending.size > 0 THEN "barrier" ELSE "get"
  /\ UNCHANGED <<host, line, cmddat>>

\* The read barrier; the next entry, if there is one, is asked for at once.
Barrier ==
  /\ dpc = "barrier" /\ pending.here
  /\ LET e     == fetchQ[qPtr]
         f     == fence + pending.size
         c     == Rewound
         reads == e.size > 0 /\ CanRead(e.size, f, c)
     IN  /\ cmdPtr' = c
         /\ stall' = IF e.size > 0 THEN StallNext(e) ELSE stall
         /\ IF reads THEN ReadFromPcie(e.size, f)
                     ELSE /\ fence' = f /\ pending' = NoRead
                          /\ UNCHANGED <<pciePtr, fetchQ, rdPtr, qPtr>>
         /\ dpc' = IF reads /\ e.stall THEN "stallBarrier" ELSE "process"
  /\ UNCHANGED <<host, line, cmddat>>

\* Mutant of StallBarrier: the stall is not recorded.
StallBarrierForget ==
  /\ dpc = "stallBarrier" /\ pending.here
  /\ cmdPtr' = Rewound
  /\ fence' = fence + pending.size /\ pending' = NoRead
  /\ stall' = "NOT_STALLED" /\ dpc' = "process"
  /\ UNCHANGED <<host, line, fetchQ, rdPtr, qPtr, pciePtr, cmddat>>

\* barrier_and_stall.
StallBarrier ==
  /\ dpc = "stallBarrier" /\ pending.here
  /\ cmdPtr' = Rewound
  /\ fence' = fence + pending.size /\ pending' = NoRead
  /\ stall' = "STALLED" /\ dpc' = "process"
  /\ UNCHANGED <<host, line, fetchQ, rdPtr, qPtr, pciePtr, cmddat>>

\* Every cell of a memory moves up in the line when a command is processed.
MovedUp(mem) ==
  [a \in DOMAIN mem |-> IF mem[a].place <= 1 THEN Junk ELSE [mem[a] EXCEPT !.place = @ - 1]]

\* Mutant of StallAfter: exec_buf leaves the prefetcher stalled.
StallAfterKept(isExec) == stall

\* stall_state after a command.
StallAfter(isExec) == IF isExec THEN "NOT_STALLED" ELSE stall

\* process_cmd.  process_exec_buf_cmd reads the trace into cmddat_q, from its
\* base, over whatever is there.
ProcessCmd ==
  /\ dpc = "process" /\ cmdPtr < CmddatSize /\ line > 0
  /\ LET isExec == cmddat[cmdPtr].exec
     IN  /\ stall' = StallAfter(isExec)
         /\ cmddat' = IF isExec THEN [a \in DOMAIN cmddat |-> Junk] ELSE MovedUp(cmddat)
  /\ issueMem' = MovedUp(issueMem) /\ line' = line - 1
  /\ cmdPtr' = cmdPtr + 1 /\ dpc' = "get"
  /\ UNCHANGED <<hpc, hsize, hstall, wrPtr, devPtr, devFence,
                 fetchQ, rdPtr, qPtr, pciePtr, fence, pending>>

PrefetcherStep == GetCmds \/ Barrier \/ StallBarrier \/ ProcessCmd

Next ==
  \/ \E size \in 1 .. MaxSize, isExec \in BOOLEAN : IssueCommand(size, isExec)
  \/ HostStep \/ PrefetcherStep \/ ReadArrives

\* Host calls and the kernel run on, and the NoC answers; nobody has to issue.
Spec ==
  /\ Init /\ [][Next]_vars
  /\ WF_vars(HostStep) /\ WF_vars(PrefetcherStep) /\ WF_vars(ReadArrives)

-----------------------------------------------------------------------------
\* The prefetcher processes the commands that the host issued, each once and in
\* order: no command is overwritten before its read has come back, and both
\* sides wrap their rings at the same places.
InOrder == dpc = "process" => cmddat[cmdPtr].place = 1

\* An exec_buf, which reuses cmddat_q, runs with nothing else fetched or being
\* fetched: the ASSERT of process_cmd and the reason for the stall flag.
ExecBufAlone ==
  dpc = "process" /\ cmddat[cmdPtr].exec =>
    stall = "STALLED" /\ pending.size = 0 /\ fence = cmdPtr + 1

\* An entry of the fetch queue is free when the host writes it, though the
\* host judges by a pointer it read some time ago.
EntryIsFree == hpc = "write" => fetchQ[devPtr] = Free

\* The host always gets its fetch queue entry.
HostReturns == hpc # "idle" ~> hpc = "idle"

\* Everything issued is processed when the host pauses, and the host is never
\* left waiting for its entry (fetch_queue_reserve_back).
AllProcessed ==
  /\ HostReturns
  /\ <>[](hpc = "idle") => []<>(line = 0)
-----------------------------------------------------------------------------
(***************************************************************************)
(* The inductive invariant.  q entries of the fetch queue are written and  *)
(* not taken; the commands they stand for, and the one the host is busy    *)
(* with, are numbered from 0 on.  base[i] is the number of units in line   *)
(* before command i, and command w is the first one that does not fit      *)
(* behind its predecessor and lies at the beginning of the issue queue.    *)
(***************************************************************************)
\* The i-th entry that the prefetcher is going to take.
Entry(i) == fetchQ[IF qPtr + i >= Entries THEN qPtr + i - Entries ELSE qPtr + i]

\* The entry that the host writes next.
Place == IF devPtr = Entries THEN 0 ELSE devPtr

\* The host has judged by devFence that Place is free: since it read devFence it
\* has written c entries, of which q are not taken.
FenceInv(q) ==
  IF devFence = Entries
    THEN IF rdPtr = Entries THEN qPtr = 0 /\ devPtr = q ELSE devPtr = rdPtr + 1 + q
    ELSE /\ rdPtr # Entries
         /\ \E c \in q .. Entries - 1 : Place = devFence + 1 + c \/ Place + Entries = devFence + 1 + c

FetchInv(q) ==
  /\ q \in 0 .. Entries
  /\ Place = qPtr + q \/ Place + Entries = qPtr + q
  /\ \A i \in 0 .. Entries - 1 : IF i < q THEN Entry(i).size > 0 ELSE Entry(i) = Free
  /\ rdPtr # Entries => /\ q < Entries
                        /\ qPtr = IF rdPtr + 1 = Entries THEN 0 ELSE rdPtr + 1
  /\ FenceInv(q)
  /\ hpc \in {"wrapped", "write"} => devPtr # Entries
  /\ hpc = "write" => devPtr # devFence
  /\ hpc = "idle" <=> hsize = 0

\* What the prefetcher can process, and what it has asked for.
Ready == IF fence < cmdPtr THEN 0 ELSE fence - cmdPtr
InFlight == IF pending.here THEN 0 ELSE pending.size

Commands(q) == IF hpc = "idle" THEN q ELSE q + 1
SizeOf(q, i) == IF i < q THEN Entry(i).size ELSE hsize
StallOf(q, i) == IF i < q THEN Entry(i).stall ELSE hstall

\* Units are counted as they lie in line, and no command is larger than MaxSize.
BaseInv(q, base) ==
  /\ base[0] = Ready + pending.size /\ base[Commands(q)] = line
  /\ \A i \in 0 .. Commands(q) - 1 : base[i + 1] = base[i] + SizeOf(q, i)
  /\ \A i, j \in 0 .. Commands(q) :
       i <= j => base[i] <= base[j] /\ base[j] <= base[i] + (j - i) * MaxSize

\* Where the commands lie: both sides wrap at w, and behind the wrap the
\* commands do not reach what is being read.
Top(base, w) == pciePtr + (base[w] - base[0])
At(base, w, i) == IF i < w THEN pciePtr + (base[i] - base[0]) ELSE base[i] - base[w]

RoomInv(q, base, w) ==
  /\ w \in 0 .. Commands(q) /\ Top(base, w) <= IssueSize
  /\ IF w < Commands(q)
       THEN /\ Top(base, w) + (base[w + 1] - base[w]) > IssueSize
            /\ base[Commands(q)] - base[w] <= pciePtr - InFlight
            /\ wrPtr = base[Commands(q)] - base[w]
       ELSE wrPtr = IF Top(base, w) = IssueSize THEN 0 ELSE Top(base, w)

\* The issue queue holds the commands that are not asked for.
IssuedInv(q, base, w) ==
  \A i \in 0 .. Commands(q) - 1 : \A j \in 0 .. (base[i + 1] - base[i]) - 1 :
    issueMem[At(base, w, i) + j] =
      [place |-> base[i] + 1 + j,
       exec |-> StallOf(q, i) /\ j = (base[i + 1] - base[i]) - 1]

\* The command asked for is behind those that are ready.
PendingInv ==
  /\ pending \in [from : 0 .. IssueSize, size : 0 .. MaxSize, here : BOOLEAN]
  /\ pending.size = 0 => pending = NoRead
  /\ pending.size > 0 => /\ pending.from + pending.size = pciePtr /\ rdPtr # Entries
                         /\ \A j \in 0 .. pending.size - 1 :
                              (IF pending.here THEN cmddat[fence + j] ELSE issueMem[pending.from + j]) =
                                [place |-> Ready + 1 + j,
                                 exec |-> dpc = "stallBarrier" /\ j = pending.size - 1]

\* An exec_buf is the last of what is ready, and then nothing is asked for.
ReadyInv ==
  /\ \A a \in cmdPtr .. fence - 1 :
       cmddat[a] = [place |-> a - cmdPtr + 1, exec |-> stall = "STALLED" /\ a = fence - 1]
  /\ stall = "STALLED" => dpc \in {"get", "process"} /\ pending.size = 0 /\ Ready > 0
  /\ dpc = "process" => Ready > 0
  /\ dpc \in {"barrier", "stallBarrier"} => pending.size > 0

LineInv(q, base, w) ==
  FetchInv(q) /\ BaseInv(q, base) /\ RoomInv(q, base, w) /\ IssuedInv(q, base, w)

IssueInv ==
  /\ TypeOK /\ PendingInv /\ ReadyInv
  /\ \E q \in 0 .. Entries, base \in [0 .. Entries + 1 -> Nat], w \in 0 .. Entries + 1 :
       LineInv(q, base, w)

=============================================================================
