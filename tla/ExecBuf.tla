------------------------------- MODULE ExecBuf -------------------------------
(***************************************************************************)
(* How the prefetcher runs a trace (process_exec_buf_cmd, cq_prefetch.cpp).*)
(* The recorded commands lie in DRAM, one behind the other and padded to   *)
(* full pages.  paged_read_into_cmddat_q reads as many pages as cmddat_q   *)
(* holds, the commands in it are processed, and the next pages are read    *)
(* over them; a command may be cut anywhere between two such loads.        *)
(*                                                                         *)
(* Memory is in units of one command header (16 bytes).  A cell of         *)
(* cmddat_q holds the address in the trace that its contents came from, so *)
(* what is relayed can be compared with what was recorded.  Writes to the  *)
(* dispatcher are asynchronous: they take their data from cmddat_q when    *)
(* they depart, which noc_async_writes_flushed waits for.                  *)
(***************************************************************************)
EXTENDS Naturals, Sequences, FiniteSets

CONSTANTS Align,         \* pcie_alignment
          PageSize,      \* of the trace buffer
          CmddatSize,    \* cmddat_q_size
          Lengths,       \* the lengths of inline data and of sub-commands
          MaxCommands,   \* of a trace, before EXEC_BUF_END
          MaxAddr,       \* addresses of DRAM are below this
          Width          \* length and stride are uint32_t, here modulo Width

\* Pages and cmddat_q are aligned, and cmddat_q holds a page (kExecBufPageMax);
\* neither the length of the trace nor that of cmddat_q overflows.
ASSUME ExecBufAssumption ==
  /\ Align \in Nat \ {0, 1} /\ PageSize \in Nat /\ CmddatSize \in Nat
  /\ PageSize > 0 /\ PageSize % Align = 0 /\ PageSize <= CmddatSize
  /\ Lengths \subseteq Nat \ {0} /\ MaxCommands \in Nat /\ MaxAddr \in Nat
  /\ Width \in Nat /\ MaxAddr < Width /\ CmddatSize < Width

VARIABLES
  trace,      \* the recorded commands
  page_id, pages, length,   \* PrefetchExecBufState
  cmddat,     \* cmddat_q: where in the trace each cell came from
  pc,         \* the prefetcher's position
  cur,        \* the number of the command being processed
  cmd_ptr, data_ptr, left, stride, remaining, remaining_stride,   \* of the handler
  issued,     \* units of data handed to the dispatcher
  out,        \* what arrived there: place to address in the trace
  pending,    \* writes that have not departed
  hit         \* history: places whose write had not departed when cmddat_q was
              \* read over

state == <<page_id, pages, length>>
local == <<cmd_ptr, data_ptr, left, stride, remaining, remaining_stride>>
vars == <<trace, page_id, pages, length, cmddat, pc, cur, cmd_ptr, data_ptr, left, stride,
          remaining, remaining_stride, issued, out, pending, hit>>

-----------------------------------------------------------------------------
(***************************************************************************)
(* What was recorded.                                                      *)
(***************************************************************************)
RoundUp(n, unit) == ((n + unit - 1) \div unit) * unit

\* An inline command, one without flush, packed reads (the data of which are
\* the sub-commands), the other relays, a stall, the end of the trace.
Commands == [kind : {"inline", "noflush", "packed"}, len : Lengths]
              \cup [kind : {"relay", "stall"}, len : {0}]
End == [kind |-> "end", len |-> 1]

\* relay_inline.stride, relay_paged_packed.stride, CQ_PREFETCH_CMD_BARE_MIN_SIZE.
Stride(c) == RoundUp(1 + c.len, Align)

\* Where the header of command k was recorded, and where its data belongs.
Start[k \in Nat] == IF k <= 1 THEN 0 ELSE Start[k - 1] + Stride(trace[k - 1])
Place[k \in Nat] == IF k <= 1 THEN 0 ELSE Place[k - 1] + trace[k - 1].len

\* Trace::initialize_buffer: the size of the buffer, padding included.
Pages == RoundUp(Start[Len(trace) + 1], PageSize) \div PageSize

\* What the host records, with record_end's command: the relay that reads
\* memory comes right behind the inline command without flush it belongs to.
Recorded == {Append(t, End) : t \in UNION {[1 .. n -> Commands] : n \in 0 .. MaxCommands}}
WellFormed(t) ==
  /\ t[1].kind \notin {"packed", "relay"}
  /\ \A k \in 1 .. Len(t) - 1 :
       t[k].kind = "noflush" <=> t[k + 1].kind \in {"packed", "relay"}

TypeOK ==
  /\ pc \in {"fetch", "commands", "split", "last", "next", "lost", "done"}
  /\ page_id \in Nat /\ pages \in Nat /\ length \in 0 .. Width - 1
  /\ cmddat \in [0 .. CmddatSize - 1 -> 0 .. MaxAddr]
  /\ stride \in 0 .. Width - 1 /\ remaining \in 0 .. Width - 1 /\ left \in Nat
  /\ cmd_ptr \in 0 .. CmddatSize /\ data_ptr \in 0 .. CmddatSize
  /\ \A w \in pending : w.from + w.size <= CmddatSize
  /\ issued \in 0 .. MaxAddr

\* process_exec_buf_cmd up to its loop.  The trace buffer was allocated, so it
\* lies in DRAM.
Init ==
  /\ trace \in {t \in Recorded : WellFormed(t)} /\ Pages * PageSize <= MaxAddr
  /\ page_id = 0 /\ pages = Pages /\ length = 0
  /\ cmddat = [a \in 0 .. CmddatSize - 1 |-> MaxAddr]
  /\ pc = "fetch" /\ cur = 0
  /\ cmd_ptr = 0 /\ data_ptr = 0 /\ left = 0 /\ stride = 0
  /\ remaining = 0 /\ remaining_stride = 0
  /\ issued = 0 /\ out = <<>> /\ pending = {} /\ hit = {}

-----------------------------------------------------------------------------
(***************************************************************************)
(* Data movement.                                                          *)
(***************************************************************************)
\* The places that a write goes to.
Units(w) == w.at .. w.at + w.size - 1

\* A write departs, with what its part of cmddat_q holds now.
Depart(w) ==
  /\ w \in pending
  /\ out' = [i \in DOMAIN out \cup Units(w) |->
               IF i \in Units(w) THEN cmddat[w.from + (i - w.at)] ELSE out[i]]
  /\ pending' = pending \ {w}
  /\ UNCHANGED <<trace, state, cmddat, pc, cur, local, issued, hit>>

\* noc_async_writes_flushed.
Flushed == pending = {}

\* pages_at_once.
AtOnce == IF CmddatSize \div PageSize > pages THEN pages ELSE CmddatSize \div PageSize

\* paged_read_into_cmddat_q with the barrier that follows it: so many pages,
\* behind `len' units that are still to be processed.  The code counts
\* pages_at_once down to 0 before it subtracts it: pages stays what it was, and
\* the last load goes on behind the buffer.
Fetch(len) ==
  /\ cmddat' = [a \in 0 .. CmddatSize - 1 |->
                  IF a < AtOnce * PageSize /\ page_id * PageSize + a < MaxAddr
                    THEN page_id * PageSize + a
                    ELSE IF a < AtOnce * PageSize THEN MaxAddr ELSE cmddat[a]]
  /\ page_id' = page_id + AtOnce
  /\ pages' = pages
  /\ length' = (len + AtOnce * PageSize) % Width
  /\ hit' = hit \cup UNION {Units(w) : w \in pending}

\* write_downstream, noc_async_write: so many units from data_ptr.
Write(size) ==
  /\ pending' = IF size = 0 THEN pending
                ELSE pending \cup {[at |-> issued, from |-> data_ptr, size |-> size]}
  /\ issued' = issued + size
  /\ out' = out

\* careful_copy_from_l1_to_local_cache: the same for sub-commands, at once.
Copy(size) ==
  /\ out' = [i \in DOMAIN out \cup issued .. issued + size - 1 |->
               IF i \in DOMAIN out THEN out[i] ELSE cmddat[data_ptr + (i - issued)]]
  /\ issued' = issued + size
  /\ pending' = pending

Move(kind, size) == IF kind = "packed" THEN Copy(size) ELSE Write(size)

-----------------------------------------------------------------------------
(***************************************************************************)
(* process_exec_buf_cmd and the handlers it calls.                         *)
(***************************************************************************)
\* The outer loop: the next load.  Nothing waits for a write without flush.
FetchNext ==
  /\ pc = "fetch"
  /\ Fetch(length)
  /\ cmd_ptr' = 0 /\ pc' = "commands"
  /\ UNCHANGED <<trace, cur, data_ptr, left, stride, remaining, remaining_stride,
                 issued, out, pending>>

\* The start of a handler: the command's lengths and what is left in this load.
StartCommand(c) ==
  /\ left' = c.len /\ stride' = Stride(c)
  /\ data_ptr' = cmd_ptr + 1
  /\ remaining' = length - 1
  /\ remaining_stride' = length
  /\ pc' = "split"

\* The inner loop: the command at cmd_ptr.  What is no header is no command,
\* and process_cmd asserts.
ProcessCmd ==
  /\ pc = "commands" /\ length > 0
  /\ IF cmd_ptr < CmddatSize /\ \E k \in 1 .. Len(trace) : cmddat[cmd_ptr] = Start[k]
       THEN LET k == CHOOSE k \in 1 .. Len(trace) : cmddat[cmd_ptr] = Start[k]
            IN  /\ cur' = k
                /\ StartCommand(trace[k])
       ELSE /\ pc' = "lost"
            /\ UNCHANGED <<cur, data_ptr, left, stride, remaining, remaining_stride>>
  /\ UNCHANGED <<trace, state, cmddat, cmd_ptr, issued, out, pending, hit>>

LoadDone ==
  /\ pc = "commands" /\ length = 0
  /\ pc' = "fetch"
  /\ UNCHANGED <<trace, state, cmddat, cur, local, issued, out, pending, hit>>

\* The loop of the handlers: hand on what is here of a command that was cut.
SplitWrite ==
  /\ pc = "split" /\ left > remaining
  /\ Move(trace[cur].kind, remaining)
  /\ left' = left - remaining
  /\ stride' = (stride + Width - remaining_stride) % Width
  /\ length' = 0
  /\ data_ptr' = 0 /\ cmd_ptr' = 0
  /\ pc' = "next"
  /\ UNCHANGED <<trace, page_id, pages, cmddat, cur, remaining, remaining_stride, hit>>

\* Mutant of MustFlush: nobody waits for the writes.
NeverFlush(kind) == FALSE

\* The inline handlers wait for their writes before they fetch more; that of
\* packed reads has written nothing and does not look at earlier writes.
MustFlush(kind) == kind # "packed"

\* The loop of the handlers: fetch more.
SplitFetch ==
  /\ pc = "next"
  /\ MustFlush(trace[cur].kind) => Flushed
  /\ Fetch(length)
  /\ remaining' = length' /\ remaining_stride' = length'
  /\ pc' = "split"
  /\ UNCHANGED <<trace, cur, cmd_ptr, data_ptr, left, stride, issued, out, pending>>

\* The rest of the command.
SplitEnd ==
  /\ pc = "split" /\ left <= remaining
  /\ Move(trace[cur].kind, left)
  /\ left' = 0 /\ pc' = "last"
  /\ UNCHANGED <<trace, state, cmddat, cur, cmd_ptr, data_ptr, stride, remaining,
                 remaining_stride, hit>>

\* Mutant of Advance: the stride of a command that was cut is not reduced.
AdvanceWhole ==
  /\ length' = (length + Width - Stride(trace[cur])) % Width
  /\ cmd_ptr' = IF cmd_ptr + Stride(trace[cur]) > CmddatSize THEN CmddatSize
                ELSE cmd_ptr + Stride(trace[cur])

\* exec_buf_state.length -= stride; cmd_ptr += stride.
Advance ==
  /\ length' = (length + Width - stride) % Width
  /\ cmd_ptr' = IF cmd_ptr + stride > CmddatSize THEN CmddatSize ELSE cmd_ptr + stride

\* Mutant of Finish: a command without data that stands last in a load is the end.
FinishEarly ==
  /\ pc = "last"
  /\ trace[cur].kind # "noflush" => Flushed
  /\ IF trace[cur].kind = "end" \/ (length = stride /\ trace[cur].kind = "stall")
       THEN pc' = "done" /\ UNCHANGED <<length, cmd_ptr>>
       ELSE pc' = "commands" /\ Advance
  /\ UNCHANGED <<trace, page_id, pages, cmddat, cur, data_ptr, left, stride, remaining,
                 remaining_stride, issued, out, pending, hit>>

\* The end of the handler and of the round.  Inline commands wait for their
\* writes, relays for all before they use the scratch buffer.
Finish ==
  /\ pc = "last"
  /\ trace[cur].kind \notin {"noflush", "stall"} => Flushed
  /\ IF trace[cur].kind = "end"
       THEN pc' = "done" /\ UNCHANGED <<length, cmd_ptr>>
       ELSE pc' = "commands" /\ Advance
  /\ UNCHANGED <<trace, page_id, pages, cmddat, cur, data_ptr, left, stride, remaining,
                 remaining_stride, issued, out, pending, hit>>

\* The trace is over: the prefetcher goes on with its fetch queue.
Done ==
  /\ pc = "done" /\ pending = {}
  /\ UNCHANGED vars

Next ==
  \/ FetchNext \/ ProcessCmd \/ LoadDone \/ SplitWrite \/ SplitFetch \/ SplitEnd \/ Finish
  \/ Done
  \/ \E w \in pending : Depart(w)

Spec == Init /\ [][Next]_vars /\ WF_vars(Next)

-----------------------------------------------------------------------------
(***************************************************************************)
(* Properties.                                                             *)
(***************************************************************************)
\* process_exec_buf_cmd: the prefetcher finds every command of the trace, in
\* order and exactly once, however the trace is cut into loads: a command that
\* ends where a load ends, a header at the end, a command longer than a load.
\* (Data of a command that was read but not yet handled counts with its command.)
InOrder ==
  /\ pc # "lost"
  /\ pc \in {"split", "next", "last"} => issued + left = Place[cur + 1]
  /\ pc \in {"fetch", "commands"} => issued = Place[cur + 1]

\* The handlers: what arrives at the dispatcher (or in the cache of
\* sub-commands) is the data recorded behind the command's header, unless the
\* write had not departed when cmddat_q was read over; and that can only happen
\* to an inline command without flush, which nobody waits for before a load.
DataIntact ==
  \A k \in 1 .. Len(trace) : \A i \in 1 .. trace[k].len :
    /\ Place[k] + i - 1 \in DOMAIN out \ hit => out[Place[k] + i - 1] = Start[k] + i
    /\ Place[k] + i - 1 \in hit => trace[k].kind = "noflush"

\* process_exec_buf_cmd comes to the end of the trace, and by then all the
\* recorded data was handed on.
TraceEnds == <>(pc = "done" /\ issued = Place[Len(trace) + 1])
=============================================================================
