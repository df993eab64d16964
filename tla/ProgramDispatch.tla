--------------------------- MODULE ProgramDispatch ---------------------------
(***************************************************************************)
(* How programs get to the workers: HWCommandQueue::enqueue_program with   *)
(* EnqueueProgramCommand::process, trace capture and replay, on the host;  *)
(* the dispatcher, which writes a program's configuration, waits where the *)
(* command stream says so and sends the go signal; and the workers, which  *)
(* count their completions in a 32-bit semaphore of the dispatcher.  The   *)
(* host never reads that semaphore: it decides what may be overwritten     *)
(* from its own count of the workers it has started.                       *)
(*                                                                         *)
(* The command stream is a sequence: the rings it travels through are      *)
(* IssueQueue's and DispatchBuffer's subject.  One sub-device.             *)
(***************************************************************************)
EXTENDS ConfigBufferMgr, Sequences

CONSTANTS Programs,     \* records [sizes, runs, fixed]: what a program needs of the
                        \* buffers, the core types it runs on, and whether it
                        \* has binaries at fixed addresses
          Launch,       \* the buffer that stands for the launch messages
          NumWorkers,   \* num_worker_cores of each core type
          CounterMod,   \* 2^32: where the completion counters wrap
          MaxInFlight,  \* bound: commands issued and not completed
          MaxTrace      \* bound: programs in a trace

Workers(types) == MapThenSumSet(LAMBDA b : NumWorkers[b], types)

\* reset_config_buffer_mgr lets one launch message be in use at a time; the
\* workers of a chip are far fewer than the counter tells apart.
ASSUME DispatchAssumption ==
  /\ Launch \in Buffers /\ BufSize[Launch] = 1
  /\ CounterMod \in Nat \ {0} /\ CounterMod % 2 = 0
  /\ NumWorkers \in [Buffers \ {Launch} -> Nat \ {0}]
  /\ Workers({}) = 0
  /\ \A types \in SUBSET (Buffers \ {Launch}) :
       Workers(types) \in Nat /\ 4 * Workers(types) <= CounterMod
  /\ \A p \in Programs : /\ p.sizes \in [Buffers -> Nat] /\ p.sizes[Launch] = 1
                         /\ \A b \in Buffers : p.sizes[b] <= BufSize[b]
                         /\ p.runs \subseteq Buffers \ {Launch} /\ Workers(p.runs) > 0
                         /\ p.fixed \in BOOLEAN

VARIABLES
  mgr,        \* config_buffer_mgr
  expected,   \* expected_num_workers_completed
  cached,     \* the programs whose command sequence is cached
  bypass,     \* the manager records a trace
  traceExp,   \* num_completion_worker_cores of the trace being recorded
  trace,      \* the recorded commands
  sent,       \* the commands issued to the device and not completed
  stage,      \* stage[i]: how far the dispatcher is with sent[i]
  left,       \* left[i]: workers that have not completed sent[i]
  counter     \* the workers' semaphore at the dispatcher

hostVars == <<mgr, expected, cached, bypass, traceExp, trace>>
vars == <<mgr, expected, cached, bypass, traceExp, trace,
          sent, stage, left, counter>>

Init ==
  /\ mgr = NewMgr /\ expected = 0 /\ cached = {}
  /\ bypass = FALSE /\ traceExp = 0 /\ trace = << >>
  /\ sent = << >> /\ stage = << >> /\ left = << >> /\ counter = 0

Stages == {"queued", "config", "rest", "reset", "gone"}

TypeOK ==
  /\ mgr.alloc \in Index /\ mgr.free \in Index
  /\ \A i \in Index : \A b \in Buffers :
       mgr.entries[i].addr[b] + mgr.entries[i].size[b] <= BufSize[b]
  /\ expected \in 0 .. CounterMod - 1 /\ traceExp \in 0 .. CounterMod - 1
  /\ counter \in 0 .. CounterMod - 1
  /\ cached \subseteq Programs /\ bypass \in BOOLEAN
  /\ Len(sent) = Len(stage) /\ Len(sent) = Len(left)
  /\ \A i \in DOMAIN sent : stage[i] \in Stages /\ left[i] \in Nat

(***************************************************************************)
(* Host.                                                                   *)
(***************************************************************************)
Plus(a, b) == (a + b) % CounterMod

\* Commands are either a program or the wait-and-clear of the counter, which
\* in front of a trace is preceded by a go signal that makes the workers of
\* these core types reset their read pointers and report back.
IsProgram(c) == c.kind = "program"

\* Mutant of ClearCommand: the wait does not cover the workers' reports.
ClearCommandNoAck(count, types) ==
  [kind |-> "clear", wait |-> count, sync |-> count, workers |-> Workers(types)]

ClearCommand(count, types) ==
  [kind |-> "clear", wait |-> count, sync |-> Plus(count, Workers(types)),
   workers |-> Workers(types)]

Submit(cmds) ==
  /\ Len(sent) + Len(cmds) <= MaxInFlight
  /\ sent' = sent \o cmds
  /\ stage' = stage \o [i \in 1 .. Len(cmds) |-> "queued"]
  /\ left' = left \o [i \in 1 .. Len(cmds) |-> cmds[i].workers]

\* Mutant of Command: the stall before fixed-address binaries is left out.
CommandNoLate(p, before) ==
  LET r        == Reserve(mgr, p.sizes)
      isCached == p \in cached
      memory   == Reserve(mgr, [p.sizes EXCEPT ![Launch] = 0]).need
      first    == isCached => r.need /\ (p.fixed \/ memory)
      late     == FALSE
  IN  [kind |-> "program", addr |-> r.addr, sizes |-> p.sizes, fixed |-> p.fixed,
       first |-> first, late |-> late,
       sync |-> IF ~isCached \/ p.fixed THEN before ELSE r.sync,
       wait |-> before, runs |-> p.runs, workers |-> Workers(p.runs)]

(***************************************************************************)
(* EnqueueProgramCommand::process.  `before' is the count of the workers   *)
(* of all earlier programs.  first / late are stall_first and              *)
(* stall_before_program: the stall comes before any configuration is       *)
(* written, or after what goes to the ring and before fixed-address        *)
(* binaries and the launch message.  The second reservation finds out      *)
(* whether only the launch message is in the way.  A program that is not   *)
(* cached waits for everything.                                            *)
(***************************************************************************)
Command(p, before) ==
  LET r        == Reserve(mgr, p.sizes)
      isCached == p \in cached
      memory   == Reserve(mgr, [p.sizes EXCEPT ![Launch] = 0]).need
      first    == isCached => r.need /\ (p.fixed \/ memory)
      late     == (p.fixed \/ r.need) /\ ~first
  IN  [kind |-> "program", addr |-> r.addr, sizes |-> p.sizes, fixed |-> p.fixed,
       first |-> first, late |-> late,
       sync |-> IF ~isCached \/ p.fixed THEN before ELSE r.sync,
       wait |-> before, runs |-> p.runs, workers |-> Workers(p.runs)]

\* Mutant of ConfigAfter: the entry asks for one worker too many.
ConfigAfterLate(c, before) ==
  Alloc(IF c.first \/ c.late THEN Free(mgr, c.sync) ELSE mgr,
        c.addr, c.sizes, Plus(before, c.workers + 1))

\* What process does to the manager.
ConfigAfter(c, before) ==
  Alloc(IF c.first \/ c.late THEN Free(mgr, c.sync) ELSE mgr,
        c.addr, c.sizes, Plus(before, c.workers))

\* enqueue_program.  In bypass mode the commands go to the trace, and only a
\* program that ran before (finalized, cached) may be recorded.
EnqueueProgram(p) ==
  LET before == IF bypass THEN traceExp ELSE expected
      c      == Command(p, before)
  IN  /\ bypass => p \in cached /\ Len(trace) < MaxTrace
      /\ IF bypass
           THEN /\ trace' = Append(trace, c)
                /\ traceExp' = Plus(traceExp, c.workers)
                /\ UNCHANGED <<expected, sent, stage, left>>
           ELSE /\ Submit(<<c>>)
                /\ expected' = Plus(expected, c.workers)
                /\ UNCHANGED <<trace, traceExp>>
      /\ mgr' = ConfigAfter(c, before)
      /\ cached' = cached \cup {p}
      /\ UNCHANGED <<bypass, counter>>

\* record_begin: the counter starts again at 0, for the host and the device.
RecordBegin ==
  /\ ~bypass
  /\ bypass' = TRUE
  /\ Submit(<<ClearCommand(expected, {})>>)
  /\ expected' = 0 /\ traceExp' = 0 /\ trace' = << >>
  /\ mgr' = MarkCompletelyFull(mgr, 0)
  /\ UNCHANGED <<cached, counter>>

\* record_end: what the manager holds is the state inside the trace.
RecordEnd ==
  /\ bypass
  /\ bypass' = FALSE
  /\ mgr' = MarkCompletelyFull(mgr, expected)
  /\ UNCHANGED <<expected, cached, traceExp, trace, sent, stage, left, counter>>

\* enqueue_trace: reset the workers that the trace uses, drain and clear the
\* counter, then run the recorded commands.
EnqueueTrace ==
  /\ ~bypass /\ trace # << >>
  /\ LET used == UNION {trace[i].runs : i \in DOMAIN trace}
     IN  Submit(<<ClearCommand(expected, used)>> \o trace)
  /\ expected' = traceExp
  /\ mgr' = MarkCompletelyFull(mgr, traceExp)
  /\ UNCHANGED <<cached, bypass, traceExp, trace, counter>>

(***************************************************************************)
(* Dispatcher: the commands in order.                                      *)
(***************************************************************************)
At(i, s) ==
  /\ i \in DOMAIN sent /\ stage[i] = s
  /\ \A h \in 1 .. i - 1 : stage[h] = "gone"

\* wrap_ge: the sign of the 32-bit difference.
WrapGe(a, b) == (a + CounterMod - b) % CounterMod < CounterMod \div 2

\* process_wait of the stall, if any, then the runtime arguments and what
\* else goes to the ring of configurations.
WriteConfig(i) ==
  /\ At(i, "queued") /\ IsProgram(sent[i])
  /\ sent[i].first => WrapGe(counter, sent[i].sync)
  /\ stage' = [stage EXCEPT ![i] = "config"]
  /\ UNCHANGED <<hostVars, sent, left, counter>>

\* The late stall, then binaries at fixed addresses and the launch message.
WriteRest(i) ==
  /\ At(i, "config")
  /\ sent[i].late => WrapGe(counter, sent[i].sync)
  /\ stage' = [stage EXCEPT ![i] = "rest"]
  /\ UNCHANGED <<hostVars, sent, left, counter>>

\* process_go_signal_mcast_cmd: while (*worker_sem_addr < wait_count);
SendGo(i) ==
  /\ At(i, "rest")
  /\ ~(counter < sent[i].wait)
  /\ stage' = [stage EXCEPT ![i] = "gone"]
  /\ UNCHANGED <<hostVars, sent, left, counter>>

\* Completed commands leave the model at the head of the stream.
Retire == sent' = Tail(sent) /\ stage' = Tail(stage) /\ left' = Tail(left)

\* The go signal RUN_MSG_RESET_READ_PTR, when all earlier programs completed.
SendReset(i) ==
  /\ At(i, "queued") /\ ~IsProgram(sent[i]) /\ sent[i].workers > 0
  /\ ~(counter < sent[i].wait)
  /\ stage' = [stage EXCEPT ![i] = "reset"]
  /\ UNCHANGED <<hostVars, sent, left, counter>>

\* Is a clear the dispatcher's next step?
Clearing(i) ==
  /\ At(i, IF i \in DOMAIN sent /\ sent[i].workers > 0 THEN "reset" ELSE "queued")
  /\ ~IsProgram(sent[i])
  /\ WrapGe(counter, sent[i].sync)

\* process_wait with clear_count.
ProcessClear(i) ==
  /\ Clearing(i)
  /\ counter' = 0
  /\ IF i = 1 THEN Retire
              ELSE stage' = [stage EXCEPT ![i] = "gone"] /\ UNCHANGED <<sent, left>>
  /\ UNCHANGED hostVars

\* A worker that was started, or told to reset, reports back.
WorkerDone(i) ==
  /\ i \in DOMAIN sent /\ stage[i] \in {"reset", "gone"} /\ left[i] > 0
  /\ counter' = Plus(counter, 1)
  /\ IF i = 1 /\ left[i] = 1 /\ stage[i] = "gone"
       THEN Retire
       ELSE left' = [left EXCEPT ![i] = @ - 1] /\ UNCHANGED <<sent, stage>>
  /\ UNCHANGED hostVars

HostNext == \/ \E p \in Programs : EnqueueProgram(p)
            \/ RecordBegin \/ RecordEnd \/ EnqueueTrace

DeviceStep(i) == \/ WriteConfig(i) \/ WriteRest(i) \/ SendGo(i)
                 \/ SendReset(i) \/ ProcessClear(i) \/ WorkerDone(i)

DeviceNext == \E i \in DOMAIN sent : DeviceStep(i)

Next == HostNext \/ DeviceNext

Spec == Init /\ [][Next]_vars /\ WF_vars(DeviceNext)

(***************************************************************************)
(* Properties.                                                             *)
(***************************************************************************)
Overlap(i, j, b) ==
  /\ sent[i].addr[b] < sent[j].addr[b] + sent[j].sizes[b]
  /\ sent[j].addr[b] < sent[i].addr[b] + sent[i].sizes[b]

\* i and j are programs, i before j, and workers still run i.
Unfinished(i, j) == i < j /\ IsProgram(sent[i]) /\ IsProgram(sent[j]) /\ left[i] > 0

\* The configuration of a program is never written over that of an earlier
\* one which some worker has not completed, though the host decides that
\* without reading the device's state and frees entries ahead of time.
NoStomp ==
  \A i, j \in DOMAIN sent :
    Unfinished(i, j) /\ stage[j] # "queued" =>
      \A b \in Buffers \ {Launch} : ~Overlap(i, j, b)

\* Likewise for the launch message, and for binaries at fixed addresses.
\* All launch messages share one place, so this is also what keeps a go
\* signal from reaching workers that run the previous program.
NoLateStomp ==
  \A i, j \in DOMAIN sent :
    Unfinished(i, j) /\ stage[j] \in {"rest", "gone"} =>
      ~sent[j].fixed /\ ~Overlap(i, j, Launch)

\* The counter is cleared only when nobody is left to increment it: a report
\* that came after the clear would count for the next program.
ClearIsQuiet ==
  \A i \in DOMAIN sent : Clearing(i) => \A h \in 1 .. i : left[h] = 0

\* The ring of entries is never overrun: a table whose indices met would
\* count as empty, and the next reservation would not wait at all.
TableNotOverrun == mgr.alloc # mgr.free \/ mgr = NewMgr

\* Every wait the host puts into the stream can be satisfied: commands,
\* enqueued or replayed, keep completing as long as there are any.
AllComplete ==
  []<>(sent = << >>) \/ []<><<Len(sent') < Len(sent)>>_vars
=============================================================================
