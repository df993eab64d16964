------------------------------ MODULE GoSignals ------------------------------
(***************************************************************************)
(* How go signals get to the workers when a second dispatcher sends them   *)
(* (dispatch_s, cq_dispatch_slave.cpp).  The prefetcher relays one stream  *)
(* of commands to the two dispatchers.  dispatch_d writes configurations   *)
(* and launch messages and then allows dispatch_s to send one more go      *)
(* signal; dispatch_s sends it when the workers of the sub-device have     *)
(* completed what was before.  Workers count their completions at          *)
(* dispatch_s; if the dispatchers are on different cores (distributed)     *)
(* dispatch_s forwards the counts to dispatch_d, else they share them.     *)
(*                                                                         *)
(* A worker (brisc.cc) polls one word for a go signal and takes its launch *)
(* message from a ring, at a read pointer of its own.  The host has only   *)
(* its own write pointer, which it has to keep in step through trace       *)
(* capture, trace replay and changes of the sub-devices.                   *)
(*                                                                         *)
(* Configurations are ProgramDispatch's subject: of a program there is its *)
(* launch message, which the host lets wait for the program before it.     *)
(***************************************************************************)
EXTENDS Naturals, Sequences, FiniteSets, SequencesExt

CONSTANTS Workers,
          Managers,     \* the sub-device managers: sequences of sets of workers
          Slots,        \* launch_msg_buffer_num_entries
          CounterMod,   \* 2^32
          Before,       \* programs that have run so far, on the default manager
          DPages,       \* bound: commands at dispatch_d
          SPages,       \* dispatch_s_buffer_pages
          MaxIssued,    \* bound: commands before the prefetcher
          MaxTrace,     \* bound: programs in a trace
          MaxCalls,     \* bound: calls that send commands
          Kernels       \* sets of workers that a program has kernels on

ASSUME GoAssumption ==
  /\ \A m \in Managers : \A i, j \in DOMAIN m :
       m[i] \subseteq Workers /\ m[i] # {} /\ (i # j => m[i] \cap m[j] = {})
  /\ Kernels \subseteq SUBSET Workers
  /\ Before \in Nat
  /\ {Slots, CounterMod, DPages, SPages, MaxIssued, MaxTrace, MaxCalls} \subseteq Nat \ {0}
  /\ CounterMod % 2 = 0 /\ Cardinality(Workers) < CounterMod \div 2

MaxSubDevices == 2
SubDevices == 1 .. MaxSubDevices    \* DISPATCH_MESSAGE_ENTRIES
Default == <<Workers>>              \* default_sub_device_manager

VARIABLES
  distributed,   \* distributed_dispatcher, chosen when the device is opened
  mgr,        \* active_sub_device_manager
  expected,   \* expected_num_workers_completed
  wptr,       \* multicast_cores_launch_message_wptr
  saved,      \* multicast_cores_launch_message_wptr_reset
  bypass,     \* a trace is recorded
  trace,      \* its programs
  closing,    \* how far the device is closed, and by which call
  calls,      \* calls so far
  issued,     \* commands the prefetcher has not relayed
  stalled,    \* the prefetcher waits for dispatch_d
  dq, sq,     \* commands at dispatch_d and dispatch_s
  posted,     \* launch messages on their way: <<worker, slot>>
  safe,       \* num_go_signals_safe_to_send
  sync,       \* dispatch_s_sync_sem
  sent,       \* num_mcasts_sent
  going,      \* dispatch_s is past its wait for dispatch_d
  sem,        \* the counts of the workers, at dispatch_s
  told,       \* worker_count_update_for_dispatch_d
  net,        \* counts on their way to dispatch_d: <<sub-device, count>>
  dsem,       \* the counts at dispatch_d
  numSems,    \* num_worker_sems
  groups,     \* go_signal_noc_data
  done,       \* dispatch_s has ended
  go,         \* go_message, with its sub-device and, for the property, whether
              \* the program has a kernel on this worker
  rd,         \* launch_msg_rd_ptr
  fresh,      \* the slots that hold a launch message with kernels
  wpc         \* the position of the worker

host == <<mgr, expected, wptr, saved, bypass, trace, closing, calls>>
stream == <<issued, stalled, dq, sq>>
slave == <<sync, sent, going, sem, told, net, numSems, groups, done>>
conf == <<numSems, groups, done>>
workers == <<go, rd, fresh, wpc>>
vars == <<distributed, host, stream, posted, safe, dsem, slave, workers>>

Zero == [i \in SubDevices |-> 0]

Init ==
  LET counted == [Zero EXCEPT ![1] = (Before * Cardinality(Workers)) % CounterMod]
      signals == [Zero EXCEPT ![1] = Before % CounterMod]
  IN
  /\ distributed \in BOOLEAN
  /\ mgr = Default /\ expected = counted /\ saved = Zero
  /\ wptr = [Zero EXCEPT ![1] = Before % Slots]
  /\ bypass = FALSE /\ trace = <<>> /\ closing = "no" /\ calls = 0
  /\ issued = <<>> /\ stalled = FALSE /\ dq = <<>> /\ sq = <<>>
  /\ posted = {} /\ safe = signals /\ sync = signals /\ sent = signals /\ going = FALSE
  /\ sem = counted /\ net = <<>>
  /\ told = (IF distributed THEN counted ELSE Zero) /\ dsem = told
  /\ numSems = Len(Default) /\ groups = Default /\ done = FALSE
  /\ go = [w \in Workers |-> [signal |-> "DONE", sd |-> 1, kernel |-> FALSE]]
  /\ rd = [w \in Workers |-> Before % Slots] /\ fresh = [w \in Workers |-> {}]
  /\ wpc = [w \in Workers |-> "poll"]

TypeOK ==
  /\ mgr \in Managers \cup {Default} /\ groups \in Managers \cup {Default}
  /\ {expected, sem, told, dsem, sync, sent, safe} \subseteq
       [SubDevices -> 0 .. CounterMod - 1]
  /\ {wptr, saved} \subseteq [SubDevices -> 0 .. Slots - 1]
  /\ {distributed, bypass, stalled, going, done} \subseteq BOOLEAN
  /\ closing \in {"no", "device", "sync", "devices"}
  /\ Len(trace) <= MaxTrace /\ Len(issued) <= MaxIssued
  /\ Len(dq) <= DPages /\ Len(sq) <= SPages
  /\ posted \subseteq Workers \X (0 .. Slots - 1)
  /\ numSems \in SubDevices
  /\ rd \in [Workers -> 0 .. Slots - 1] /\ fresh \in [Workers -> SUBSET (0 .. Slots - 1)]
  /\ wpc \in [Workers -> {"poll", "notify", "advance", "ack"}]
  /\ \A w \in Workers : go[w].signal \in {"DONE", "GO", "RESET"}

Plus(a, b) == (a + b) % CounterMod

\* wrap_ge
WrapGe(a, b) == (a + CounterMod - b) % CounterMod < CounterMod \div 2

-----------------------------------------------------------------------------
(***************************************************************************)
(* The commands, as the host assembles them.                               *)
(***************************************************************************)
Write(slot, on)     == [to |-> "d", cmd |-> "write", slot |-> slot, on |-> on]
Notify(set, wait)   == [to |-> "d", cmd |-> "notify", set |-> set, wait |-> wait]
Wait(i, n, clear, stall) ==
  [to |-> "d", cmd |-> "wait", sd |-> i, count |-> n, clear |-> clear, stall |-> stall]
SWait(i, n)         == [to |-> "s", cmd |-> "wait", sd |-> i, count |-> n]
Go(i, n, kind, on)  ==
  [to |-> "s", cmd |-> "go", sd |-> i, count |-> n, kind |-> kind, on |-> on]
SetSems(n)          == [to |-> "s", cmd |-> "sems", n |-> n]
SetNocData(m)       == [to |-> "s", cmd |-> "noc", groups |-> m]
Terminate(to)       == [to |-> to, cmd |-> "terminate"]

\* A program for sub-device i after n completions, its launch message in `slot'.
ProgramCommands(i, n, slot, on, stall) ==
  <<Wait(i, n, FALSE, stall), Write(slot, on), Notify({i}, TRUE), Go(i, n, "GO", on)>>

\* Mutant of ClearCommands: dispatch_s does not clear its count.
ClearCommandsD(n, set) ==
  [k \in 1 .. Len(set) |-> Wait(set[k], n[set[k]], TRUE, FALSE)]

\* The waits that set the counts of these sub-devices back.
ClearCommands(n, set) ==
  FlattenSeq([k \in 1 .. Len(set) |->
    (IF distributed THEN <<SWait(set[k], n[set[k]])>> ELSE <<>>)
      \o <<Wait(set[k], n[set[k]], TRUE, FALSE)>>])

\* Go signals that make the workers of these sub-devices reset their read
\* pointers, and the wait for their answers.
ResetCommands(n, set) ==
  LET after == [i \in SubDevices |-> IF i \in ToSet(set)
                                       THEN Plus(n[i], Cardinality(mgr[i])) ELSE n[i]]
  IN  <<Notify(ToSet(set), FALSE)>>
        \o [k \in 1 .. Len(set) |-> Go(set[k], n[set[k]], "RESET", {})]
        \o ClearCommands(after, set)

Issue(cmds) ==
  /\ closing = "no" /\ Len(issued) + Len(cmds) <= MaxIssued
  /\ calls < MaxCalls /\ calls' = calls + 1
  /\ issued' = issued \o cmds
  /\ UNCHANGED <<stalled, dq, sq, posted, safe, dsem, distributed, slave, workers>>

-----------------------------------------------------------------------------
(***************************************************************************)
(* The host.                                                               *)
(***************************************************************************)
All == [i \in 1 .. Len(mgr) |-> i]

\* The completions of sub-device i in the trace.
Traced(i) == Cardinality({k \in DOMAIN trace : trace[k].sd = i})
InTrace == SetToSeq({trace[k].sd : k \in DOMAIN trace})

\* inc_mcast_wptr
NextSlot(i) == (wptr[i] + 1) % Slots

\* enqueue_program; a program whose commands are not cached stalls the
\* prefetcher, and a trace takes none.
EnqueueProgram(i, on, stall) ==
  /\ on # {}
  /\ wptr' = [wptr EXCEPT ![i] = NextSlot(i)]
  /\ IF bypass
       THEN /\ ~stall /\ Len(trace) < MaxTrace
            /\ trace' = Append(trace, [sd |-> i, cmds |->
                 ProgramCommands(i, (Traced(i) * Cardinality(mgr[i])) % CounterMod,
                                 wptr[i], on, FALSE)])
            /\ UNCHANGED <<calls, expected, stream, posted, safe, dsem, distributed, slave, workers>>
       ELSE /\ Issue(ProgramCommands(i, expected[i], wptr[i], on, stall))
            /\ expected' = [expected EXCEPT ![i] = Plus(@, Cardinality(mgr[i]))]
            /\ UNCHANGED trace
  /\ UNCHANGED <<mgr, saved, bypass, closing>>

\* enqueue_record_event, a write or a read: a wait for one sub-device.
EnqueueWait(i) ==
  /\ ~bypass /\ i <= Len(mgr)
  /\ Issue(<<Wait(i, expected[i], FALSE, FALSE)>>)
  /\ UNCHANGED <<mgr, expected, wptr, saved, bypass, trace, closing>>

RecordBegin ==
  /\ ~bypass
  /\ Issue(ClearCommands(expected, All))
  /\ bypass' = TRUE /\ trace' = <<>>
  /\ expected' = [i \in SubDevices |-> IF i <= Len(mgr) THEN 0 ELSE expected[i]]
  /\ saved' = [i \in SubDevices |-> IF i <= Len(mgr) THEN wptr[i] ELSE saved[i]]
  /\ wptr' = [i \in SubDevices |-> IF i <= Len(mgr) THEN 0 ELSE wptr[i]]
  /\ UNCHANGED <<mgr, closing>>

RecordEnd ==
  /\ bypass /\ bypass' = FALSE
  /\ wptr' = [i \in SubDevices |-> IF i <= Len(mgr) THEN saved[i] ELSE wptr[i]]
  /\ UNCHANGED <<mgr, expected, saved, trace, closing, calls, stream, posted, safe,
                 dsem, distributed, slave, workers>>

\* enqueue_trace
EnqueueTrace ==
  /\ ~bypass /\ trace # <<>>
  /\ Issue(ResetCommands(expected, InTrace)
             \o FlattenSeq([k \in DOMAIN trace |-> trace[k].cmds]))
  /\ expected' = [i \in SubDevices |-> IF Traced(i) = 0 THEN expected[i]
                    ELSE (Traced(i) * Cardinality(mgr[i])) % CounterMod]
  /\ wptr' = [i \in SubDevices |-> IF Traced(i) = 0 THEN wptr[i] ELSE Traced(i) % Slots]
  /\ UNCHANGED <<mgr, saved, bypass, trace, closing>>

\* reset_sub_devices_state
LoadCommands(m) ==
  ResetCommands(expected, All) \o <<SetSems(Len(m)), SetNocData(m)>>

\* load_sub_device_manager.  The traces of the old manager are gone.
LoadSubDeviceManager(m) ==
  /\ ~bypass /\ m # mgr
  /\ Issue(LoadCommands(m))
  /\ mgr' = m /\ trace' = <<>>
  /\ expected' = [i \in SubDevices |-> IF i <= Len(mgr) THEN 0 ELSE expected[i]]
  /\ wptr' = [i \in SubDevices |-> IF i <= Len(m) THEN 0 ELSE wptr[i]]
  /\ UNCHANGED <<saved, bypass, closing>>

WorkersIdle == \A w \in Workers : go[w].signal = "DONE" /\ wpc[w] = "poll"
Quiet == /\ issued = <<>> /\ dq = <<>> /\ sq = <<>> /\ ~going /\ net = <<>>
         /\ (distributed => sem = told) /\ WorkersIdle

\* Mutant of TerminateCommands: dispatch_s is not told.
TerminateMaster == <<Terminate("d")>>

\* EnqueueTerminateCommand
TerminateCommands == <<Terminate("d"), Terminate("s")>>

\* close_device terminates at once, whatever runs.
CloseDevice ==
  /\ ~bypass
  /\ Issue(TerminateCommands)
  /\ closing' = "device"
  /\ UNCHANGED <<mgr, expected, wptr, saved, bypass, trace>>

\* close_devices: Synchronize records an event after all sub-devices, and waits
\* until dispatch_d has got to it.
CloseDevices ==
  /\ ~bypass
  /\ Issue([k \in 1 .. Len(mgr) |-> Wait(k, expected[k], FALSE, FALSE)])
  /\ closing' = "sync"
  /\ UNCHANGED <<mgr, expected, wptr, saved, bypass, trace>>

\* Then it terminates.
TerminateSynced ==
  /\ closing = "sync" /\ issued = <<>> /\ dq = <<>>
  /\ issued' = TerminateCommands
  /\ closing' = "devices"
  /\ UNCHANGED <<mgr, expected, wptr, saved, bypass, trace, calls, stalled, dq, sq, posted, safe,
                 dsem, distributed, slave, workers>>

HostNext ==
  \/ \E i \in SubDevices : \/ EnqueueWait(i)
                           \/ \E k \in Kernels, stall \in BOOLEAN :
                                i <= Len(mgr) /\ EnqueueProgram(i, k \cap mgr[i], stall)
  \/ \E m \in Managers \cup {Default} : LoadSubDeviceManager(m)
  \/ RecordBegin \/ RecordEnd \/ EnqueueTrace \/ CloseDevice \/ CloseDevices

-----------------------------------------------------------------------------
(***************************************************************************)
(* The prefetcher.                                                         *)
(***************************************************************************)
Relay ==
  /\ issued # <<>> /\ ~stalled /\ issued' = Tail(issued)
  /\ LET c == Head(issued)
     IN  IF c.to = "d"
           THEN /\ Len(dq) < DPages /\ dq' = Append(dq, c) /\ UNCHANGED sq
                /\ stalled' = (c.cmd = "wait" /\ c.stall)
           ELSE Len(sq) < SPages /\ sq' = Append(sq, c) /\ UNCHANGED <<dq, stalled>>
  /\ UNCHANGED <<host, posted, safe, dsem, distributed, slave, workers>>

-----------------------------------------------------------------------------
(***************************************************************************)
(* dispatch_d.                                                             *)
(***************************************************************************)
AtD(cmd) == dq # <<>> /\ Head(dq).cmd = cmd

WriteLaunchMsg ==
  /\ AtD("write") /\ dq' = Tail(dq)
  /\ posted' = posted \cup (Head(dq).on \X {Head(dq).slot})
  /\ UNCHANGED <<host, issued, stalled, sq, safe, dsem, distributed, slave, workers>>

\* The NoC writes arrive.
Land ==
  /\ posted # {} /\ posted' = {}
  /\ fresh' = [w \in Workers |-> fresh[w] \cup {p[2] : p \in {q \in posted : q[1] = w}}]
  /\ UNCHANGED <<host, stream, safe, dsem, distributed, slave, go, rd, wpc>>

\* Mutant of NotifySlave: no barrier.
NotifySlaveNoBarrier ==
  /\ AtD("notify") /\ dq' = Tail(dq)
  /\ safe' = [i \in SubDevices |-> IF i \in Head(dq).set THEN Plus(safe[i], 1) ELSE safe[i]]
  /\ sync' = IF distributed THEN sync ELSE safe'
  /\ UNCHANGED <<host, issued, stalled, sq, posted, dsem, distributed, sent, going, sem, told, net,
                 conf, workers>>

\* process_notify_dispatch_s_go_signal_cmd
NotifySlave ==
  /\ AtD("notify") /\ dq' = Tail(dq)
  /\ Head(dq).wait => posted = {}
  /\ safe' = [i \in SubDevices |-> IF i \in Head(dq).set THEN Plus(safe[i], 1) ELSE safe[i]]
  /\ sync' = IF distributed THEN sync ELSE safe'
  /\ UNCHANGED <<host, issued, stalled, sq, posted, dsem, distributed, sent, going, sem, told, net,
                 conf, workers>>

\* The write of a notification arrives at dispatch_s.
LandNotify(i) ==
  /\ sync[i] # safe[i] /\ sync' = [sync EXCEPT ![i] = Plus(@, 1)]
  /\ UNCHANGED <<host, stream, posted, safe, dsem, distributed, sent, going, sem, told, net, conf,
                 workers>>

\* process_wait
ProcessWait ==
  /\ AtD("wait") /\ dq' = Tail(dq)
  /\ LET c == Head(dq)
     IN  /\ WrapGe(IF distributed THEN dsem[c.sd] ELSE sem[c.sd], c.count)
         /\ c.stall => posted = {}
         /\ stalled' = IF c.stall THEN FALSE ELSE stalled
         /\ dsem' = IF c.clear /\ distributed THEN [dsem EXCEPT ![c.sd] = 0] ELSE dsem
         /\ sem' = IF c.clear /\ ~distributed THEN [sem EXCEPT ![c.sd] = 0] ELSE sem
  /\ UNCHANGED <<host, issued, sq, posted, safe, distributed, sync, sent, going, told, net,
                 conf, workers>>

TerminateD ==
  /\ AtD("terminate") /\ dq' = Tail(dq)
  /\ UNCHANGED <<host, issued, stalled, sq, posted, safe, dsem, distributed, slave, workers>>

-----------------------------------------------------------------------------
(***************************************************************************)
(* dispatch_s.                                                             *)
(***************************************************************************)
AtS(cmd) == sq # <<>> /\ Head(sq).cmd = cmd

\* The counts to forward, which differ from what dispatch_d was told last.
News == {i \in 1 .. numSems : sem[i] # told[i]}

Told == [i \in SubDevices |-> IF i \in News THEN sem[i] ELSE told[i]]
Forward == LET new == SetToSeq(News)
           IN  net' = net \o [k \in 1 .. Len(new) |-> <<new[k], sem[new[k]]>>]

\* update_worker_completion_count_on_dispatch_d
Update == IF distributed THEN told' = Told /\ Forward ELSE UNCHANGED <<told, net>>

\* The loops of cb_acquire_pages_dispatch_s and process_go_signal_mcast_cmd.
UpdateWhileWaiting ==
  /\ distributed /\ News # {} /\ ~going /\ ~done
  /\ sq = <<>> \/ AtS("go")
  /\ Update
  /\ UNCHANGED <<host, stream, posted, safe, dsem, distributed, sync, sent, going, sem, conf,
                 workers>>

\* A count arrives at dispatch_d.
LandCount ==
  /\ net # <<>> /\ net' = Tail(net)
  /\ dsem' = [dsem EXCEPT ![Head(net)[1]] = Head(net)[2]]
  /\ UNCHANGED <<host, stream, posted, safe, distributed, sync, sent, going, sem, told, conf,
                 workers>>

\* process_go_signal_mcast_cmd, up to wait_for_workers.
TakeGo ==
  /\ ~going /\ AtS("go")
  /\ LET i == Head(sq).sd
     IN  ~WrapGe(sent[i], sync[i]) /\ sent' = [sent EXCEPT ![i] = Plus(@, 1)]
  /\ going' = TRUE
  /\ UNCHANGED <<host, stream, posted, safe, dsem, distributed, sync, sem, told, net, conf,
                 workers>>

\* Mutant of SendGo: no wait_for_workers.
SendGoNow ==
  /\ going /\ going' = FALSE /\ sq' = Tail(sq)
  /\ LET c == Head(sq)
     IN  go' = [w \in Workers |->
                  IF w \in groups[c.sd]
                    THEN [signal |-> c.kind, sd |-> c.sd, kernel |-> w \in c.on] ELSE go[w]]
  /\ Update
  /\ UNCHANGED <<host, issued, stalled, dq, posted, safe, dsem, distributed, sync, sent, sem,
                 conf, rd, fresh, wpc>>

\* The rest of it.
SendGo ==
  /\ going /\ going' = FALSE /\ sq' = Tail(sq)
  /\ LET c == Head(sq)
     IN  /\ WrapGe(sem[c.sd], c.count)
         /\ go' = [w \in Workers |->
                     IF w \in groups[c.sd]
                       THEN [signal |-> c.kind, sd |-> c.sd, kernel |-> w \in c.on] ELSE go[w]]
  /\ Update
  /\ UNCHANGED <<host, issued, stalled, dq, posted, safe, dsem, distributed, sync, sent, sem,
                 conf, rd, fresh, wpc>>

\* Mutant of ProcessSWait: the count is forwarded after it was set back.
ProcessSWaitAfter ==
  /\ AtS("wait") /\ sq' = Tail(sq)
  /\ LET c == Head(sq)
     IN  /\ WrapGe(sem[c.sd], c.count)
         /\ sem' = [sem EXCEPT ![c.sd] = 0]
  /\ UNCHANGED <<told, net>>
  /\ UNCHANGED <<host, issued, stalled, dq, posted, safe, dsem, distributed, sync, sent, going,
                 conf, workers>>

\* process_dispatch_s_wait_cmd
ProcessSWait ==
  /\ AtS("wait") /\ sq' = Tail(sq)
  /\ LET c == Head(sq)
     IN  /\ WrapGe(sem[c.sd], c.count)
         /\ sem' = [sem EXCEPT ![c.sd] = 0]
         /\ told' = [Told EXCEPT ![c.sd] = 0]
  /\ Forward
  /\ UNCHANGED <<host, issued, stalled, dq, posted, safe, dsem, distributed, sync, sent, going, conf,
                 workers>>

\* set_num_worker_sems, set_go_signal_noc_data and the end of kernel_main.
Configure ==
  /\ AtS("sems") \/ AtS("noc") \/ AtS("terminate")
  /\ sq' = Tail(sq)
  /\ numSems' = IF AtS("sems") THEN Head(sq).n ELSE numSems
  /\ groups' = IF AtS("noc") THEN Head(sq).groups ELSE groups
  /\ done' = AtS("terminate")
  /\ UNCHANGED <<host, issued, stalled, dq, posted, safe, dsem, distributed, sync, sent, going,
                 sem, told,
                 net, workers>>

-----------------------------------------------------------------------------
(***************************************************************************)
(* A worker, main of brisc.cc.                                             *)
(***************************************************************************)
Signal(w, s) == go' = [go EXCEPT ![w].signal = s]
Step(w, from, to) == wpc[w] = from /\ wpc' = [wpc EXCEPT ![w] = to]
Count(w) == sem' = [sem EXCEPT ![go[w].sd] = Plus(@, 1)]

TakeReset(w) ==
  /\ Step(w, "poll", "ack") /\ go[w].signal = "RESET"
  /\ Signal(w, "DONE") /\ rd' = [rd EXCEPT ![w] = 0]
  /\ UNCHANGED <<host, stream, posted, safe, dsem, distributed, slave, fresh>>

\* The kernels have run.
Finish(w) ==
  /\ Step(w, "poll", "notify") /\ go[w].signal = "GO"
  /\ Signal(w, "DONE") /\ fresh' = [fresh EXCEPT ![w] = @ \ {rd[w]}]
  /\ UNCHANGED <<host, stream, posted, safe, dsem, distributed, slave, rd>>

Complete(w) ==
  /\ \/ Step(w, "notify", "advance")
     \/ Step(w, "ack", "poll")
  /\ Count(w)
  /\ UNCHANGED <<host, stream, posted, safe, dsem, distributed, sync, sent, going, told, net,
                 conf, go, rd, fresh>>

Advance(w) ==
  /\ Step(w, "advance", "poll") /\ rd' = [rd EXCEPT ![w] = (@ + 1) % Slots]
  /\ UNCHANGED <<host, stream, posted, safe, dsem, distributed, slave, go, fresh>>

-----------------------------------------------------------------------------
Prefetcher == Relay
Master == WriteLaunchMsg \/ NotifySlave \/ ProcessWait \/ TerminateD
Slave == UpdateWhileWaiting \/ TakeGo \/ SendGo \/ ProcessSWait \/ Configure
Worker(w) == TakeReset(w) \/ Finish(w) \/ Complete(w) \/ Advance(w)
Noc == \/ LandCount \/ Land
       \/ \E i \in SubDevices : LandNotify(i)

Next ==
  \/ HostNext \/ TerminateSynced \/ Prefetcher \/ Master \/ Slave \/ Noc
  \/ \E w \in Workers : Worker(w)

\* Everybody takes its next step, and NoC writes arrive; the host need not call,
\* but goes on with a call.
Spec == /\ Init /\ [][Next]_vars
        /\ WF_vars(TerminateSynced) /\ WF_vars(Prefetcher) /\ WF_vars(Master) /\ WF_vars(Slave) /\ WF_vars(Noc)
        /\ \A w \in Workers : WF_vars(Worker(w))

-----------------------------------------------------------------------------
\* A worker that finds a go signal finds the launch message of that program at
\* its read pointer, or no message if the program has no kernel for it: the
\* pointers of host and worker agree and the message has arrived, though two
\* dispatchers send message and signal.
LaunchInPlace ==
  \A w \in Workers : go[w].signal = "GO" /\ wpc[w] = "poll" =>
    (rd[w] \in fresh[w] <=> go[w].kernel)

\* No go signal reaches a worker that has not reported the one before.
GoNotLost ==
  [][\A w \in Workers : go'[w] # go[w] /\ go'[w].signal # "DONE" =>
       go[w].signal = "DONE" /\ wpc[w] \in {"advance", "poll"}]_vars

\* When all is quiet the host's idea of the device is right: both dispatchers
\* have the count it expects, workers read where it will write, and dispatch_s
\* knows the sub-devices.
InStep ==
  Quiet /\ closing = "no" =>
    /\ groups = mgr /\ numSems = Len(mgr)
    /\ \A i \in 1 .. Len(mgr) :
         /\ sem[i] = expected[i] /\ (distributed => dsem[i] = expected[i])
         /\ ~bypass => \A w \in mgr[i] : rd[w] = wptr[i]

\* close_device with dispatchers on two cores: dispatch_s ends at its terminate
\* command and forwards no count after it, so dispatch_d may wait for ever.
CutOff == distributed /\ closing = "device"

\* What the host issues gets done: no dispatcher waits for ever for the other,
\* for a worker or for room, unless it is cut off.
AllDone == []<>Quiet \/ []<><<HostNext>>_vars \/ <>CutOff

\* After a close both dispatchers end, also if close_device terminates them while
\* programs run, unless dispatch_d is cut off.
ShutdownEnds == closing # "no" /\ ~CutOff ~> (done /\ dq = <<>> /\ issued = <<>>)
=============================================================================
