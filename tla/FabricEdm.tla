------------------------------ MODULE FabricEdm ------------------------------
(***************************************************************************)
(* The fabric's Ethernet data movers (edm_fabric/).  Chips stand in a      *)
(* line; link l leads from chip l - 1 to chip l.  The core that feeds link *)
(* l has two sender channels: workers of its chip write packets into       *)
(* channel 0, the receiver of link l - 1 forwards packets into channel 1.  *)
(* Both send into the one receiver channel at the other end, which writes  *)
(* a packet to its chip, passes it on, or both.                            *)
(*                                                                         *)
(* A worker and a sender channel count each other's progress in            *)
(* semaphores.  The two ends of a link keep no messages at all: each       *)
(* writes the channel_sync word of a buffer at the other end, and each has *)
(* its own idea of the other's buffer index.  This module is one           *)
(* direction; what the cores do for the other one shows only in the        *)
(* transmit queue, which may be busy at any time.                          *)
(***************************************************************************)
EXTENDS Naturals, Sequences, FiniteSets, SequencesExt

CONSTANTS NLinks,
          S,             \* SENDER_NUM_BUFFERS
          R,             \* RECEIVER_NUM_BUFFERS
          BufferSize,    \* channel_buffer_size, in units of a channel_sync
          Loads          \* what the workers send

Links == 1 .. NLinks
Channels == {0, 1}
None == [id |-> <<0, 0, 0>>, mcast |-> FALSE, hops |-> 0, range |-> 0, size |-> 0]

(***************************************************************************)
(* A load has, for each link, the sessions of its workers one after the    *)
(* other, and for each session its packets.                                *)
(***************************************************************************)
ASSUME FabricAssumption ==
  /\ {NLinks, S, R, BufferSize} \subseteq Nat \ {0}
  /\ R >= 2 * S   \* how the builder divides the memory of a core
  /\ \A d \in Loads : DOMAIN d = Links

VARIABLES
  load,
  \* the clients of a sender channel
  session, pc, sent,    \* the worker of link l: its session, position, packets
  bidx,                 \* *buffer_index_ptr of the client of channel c
  sem,                  \* a client's flow control semaphore, one per session
  \* what clients write at the EDM
  live,                 \* connection_live_semaphore
  info,                 \* worker_location_info: the session to notify
  keptIdx,              \* the buffer index kept between connections
  full,                 \* local_semaphore: a packet was written
  \* the sending end
  state, idx, buf, sync,
  remoteIdx,            \* remote_receiver_channel's buff_idx
  turn,                 \* sender_channel_index
  \* the link: writes in flight in each direction
  data, acks,
  \* the receiving end
  rstate, ridx, rbuf, rsync,
  senderIdx,            \* remote_sender_channels' buff_idx
  \* the end
  stop, ended,
  \* histories
  got,                  \* the packets written to chip l
  breach                \* the promises of the code's comments broken so far

client == <<session, pc, sent>>
shared == <<live, info, keptIdx>>
sender == <<state, idx, sync, remoteIdx, turn>>
receiver == <<rstate, ridx, rbuf, rsync, senderIdx>>
vars == <<load, client, bidx, sem, shared, full, sender, buf, data, acks, receiver,
          stop, ended, got, breach>>

Idle == [sent |-> FALSE, ack |-> FALSE]

MaxSessions == 2

Init ==
  /\ load \in Loads
  /\ session = [l \in Links |-> 1]
  /\ pc = [l \in Links |-> IF load[l] = <<>> THEN "done" ELSE "open"]
  /\ sent = [l \in Links |-> 0]
  /\ bidx = [l \in Links |-> [c \in Channels |-> 0]]
  /\ sem = [l \in Links |-> [c \in Channels |-> [k \in 1 .. MaxSessions |-> 0]]]
  \* a receiver opens channel 1 of the next link before its main loop
  /\ live = [l \in Links |-> [c \in Channels |-> c = 1 /\ l > 1]]
  /\ info = [l \in Links |-> [c \in Channels |-> 1]]
  /\ keptIdx = [l \in Links |-> 0]
  /\ full = [l \in Links |-> [c \in Channels |-> 0]]
  /\ state = [l \in Links |-> [c \in Channels |-> "handshake"]]
  /\ idx = [l \in Links |-> [c \in Channels |-> 0]]
  /\ buf = [l \in Links |-> [c \in Channels |-> [i \in 0 .. S - 1 |-> None]]]
  /\ sync = [l \in Links |-> [c \in Channels |-> [i \in 0 .. S - 1 |-> Idle]]]
  /\ remoteIdx = [l \in Links |-> 0]
  /\ turn = [l \in Links |-> 0]
  /\ data = [l \in Links |-> <<>>] /\ acks = [l \in Links |-> <<>>]
  /\ rstate = [l \in Links |-> "eth"]
  /\ ridx = [l \in Links |-> 0]
  /\ rbuf = [l \in Links |-> [i \in 0 .. R - 1 |-> None]]
  /\ rsync = [l \in Links |-> [i \in 0 .. R - 1 |-> [sent |-> FALSE, src |-> 0]]]
  /\ senderIdx = [l \in Links |-> [c \in Channels |-> 0]]
  /\ stop = FALSE
  /\ ended = [l \in Links |-> [sender |-> FALSE, receiver |-> FALSE]]
  /\ got = [l \in Links |-> <<>>]
  /\ breach = {}

(***************************************************************************)
(* What the comments of the code rule out, and the code does:              *)
(*   interleaved  a payload is sent while the other channel still owes the *)
(*                channel_sync of its own (SENT_PAYLOAD_ONLY: "MUST NOT")  *)
(*   torn         a connection is torn down with a packet not yet sent     *)
(*                ("the EDM will guarantee to forward the messages")       *)
(*   reopened     a worker opens before the EDM has seen the last close    *)
(*                ("it is safe for another kernel to establish ...")       *)
(*   unsynced     a payload is taken to carry its channel_sync, and does   *)
(*                not                                                      *)
(*   resynced     the second channel_sync of a full packet arrives when    *)
(*                the packet is completed, and looks like another packet   *)
(*   left         a core returns before what is for it has gone through    *)
(*                (GRACEFULLY_TERMINATE: "Wait for messages to drain")     *)
(***************************************************************************)
Records(cond, what) == breach' = IF cond THEN breach \cup {what} ELSE breach

Wrap(i, n) == (i + 1) % n

-----------------------------------------------------------------------------
(***************************************************************************)
(* Clients of a sender channel: WorkerToFabricEdmSender.                   *)
(***************************************************************************)
Packets(l) == load[l][session[l]]

Open(l) ==
  /\ pc[l] = "open"
  /\ Records(state[l][0] # "handshake", "reopened")
  /\ bidx' = [bidx EXCEPT ![l][0] = keptIdx[l]]
  /\ info' = [info EXCEPT ![l][0] = session[l]]
  /\ live' = [live EXCEPT ![l][0] = TRUE]
  /\ pc' = [pc EXCEPT ![l] = "send"]
  /\ UNCHANGED <<load, session, sent, sem, keptIdx, full, sender, buf, data, acks,
                 receiver, stop, ended, got>>

HasSpace(l, c, k) == sem[l][c][k] = 1

\* send_payload: the semaphore is cleared, the packet written, the EDM told.
Send(l, c, k, p) ==
  /\ sem' = [sem EXCEPT ![l][c][k] = 0]
  /\ buf' = [buf EXCEPT ![l][c][bidx[l][c]] = p]
  /\ full' = [full EXCEPT ![l][c] = @ + 1]
  /\ bidx' = [bidx EXCEPT ![l][c] = Wrap(@, S)]

WorkerSend(l) ==
  /\ pc[l] = "send" /\ sent[l] < Len(Packets(l))
  /\ HasSpace(l, 0, session[l])
  /\ LET n == sent[l] + 1
         p == Packets(l)[n] IN
     Send(l, 0, session[l],
          [id |-> <<l, session[l], n>>, mcast |-> p.mcast, hops |-> p.hops,
           range |-> p.range, size |-> p.size])
  /\ sent' = [sent EXCEPT ![l] = @ + 1]
  /\ UNCHANGED <<load, session, pc, shared, sender, data, acks, receiver, stop, ended, got,
                 breach>>

Targets(l, p) ==
  IF p.mcast THEN l + p.hops .. l + p.hops + p.range ELSE {l + p.hops}

Arrived(l, n) ==
  \A t \in Targets(l, Packets(l)[n]) : Contains(got[t], <<l, session[l], n>>)

\* A worker that sends unicasts waits until the last of them has arrived; one
\* that sends multicasts does not.
WorkerFinishes(l) ==
  /\ pc[l] = "send" /\ sent[l] = Len(Packets(l))
  /\ Packets(l)[sent[l]].mcast \/ Arrived(l, sent[l])
  /\ pc' = [pc EXCEPT ![l] = "close"]
  /\ UNCHANGED <<load, session, sent, bidx, sem, shared, full, sender, buf, data, acks,
                 receiver, stop, ended, got, breach>>

Close(l) ==
  /\ pc[l] = "close"
  /\ live' = [live EXCEPT ![l][0] = FALSE]
  /\ keptIdx' = [keptIdx EXCEPT ![l] = bidx[l][0]]
  /\ sent' = [sent EXCEPT ![l] = 0]
  /\ LET last == session[l] = Len(load[l]) IN
       /\ session' = [session EXCEPT ![l] = IF last THEN @ ELSE @ + 1]
       /\ pc' = [pc EXCEPT ![l] = IF last THEN "done" ELSE "open"]
  /\ UNCHANGED <<load, bidx, sem, info, full, sender, buf, data, acks, receiver,
                 stop, ended, got, breach>>

WorkerStep(l) == Open(l) \/ WorkerSend(l) \/ WorkerFinishes(l) \/ Close(l)

-----------------------------------------------------------------------------
(***************************************************************************)
(* The sending end.  One iteration of the main loop runs one step of one   *)
(* sender channel; busy is what eth_txq_is_busy returns in it.             *)
(***************************************************************************)
Current(l, c) == sync[l][c][idx[l][c]]
SendDone(l, c) == ~ Current(l, c).sent
SendAcked(l, c) == Current(l, c).ack

IncrementWorker(l, c) == sem' = [sem EXCEPT ![l][c][info[l][c]] = @ + 1]

\* sender_notify_workers_if_buffer_available_sequence
Notify(l, c) ==
  /\ full' = [full EXCEPT ![l][c] = 0]
  /\ IncrementWorker(l, c)

Goto(l, c, s) == state' = [state EXCEPT ![l][c] = s]

SyncMessage(l, c) ==
  [slot |-> remoteIdx[l], pkt |-> None, sync |-> TRUE, sent |-> Current(l, c).sent, src |-> c]

\* A payload is sent with 16 bytes more, which are its channel_sync only if the
\* packet fills the buffer.
PayloadMessage(l, c, p) ==
  [slot |-> remoteIdx[l], pkt |-> p, sync |-> p.size = BufferSize, sent |-> TRUE, src |-> c]

OneShot(p) == p.size + 1 = BufferSize

Advance(l, c) ==
  /\ idx' = [idx EXCEPT ![l][c] = Wrap(@, S)]
  /\ remoteIdx' = [remoteIdx EXCEPT ![l] = Wrap(@, R)]

\* Mutant of AbleToSend: a first-level acknowledgement is enough to send again.
AbleToSendAcked(l, c, busy) == full[l][c] > 0 /\ ~ busy

AbleToSend(l, c, busy) == full[l][c] > 0 /\ ~ busy /\ SendDone(l, c)

\* send_next_data; `again' is what eth_txq_is_busy returns after the payload.
SendNextData(l, c, again) ==
  LET p == buf[l][c][idx[l][c]]
      payload == PayloadMessage(l, c, p)
      follow == [payload EXCEPT !.pkt = None, !.sync = TRUE]
      payloadOnly == again /\ ~ OneShot(p) IN    \* SENT_PAYLOAD_ONLY
  /\ sync' = [sync EXCEPT ![l][c][idx[l][c]] = [sent |-> TRUE, ack |-> FALSE]]
  /\ data' = [data EXCEPT ![l] =
       @ \o IF OneShot(p) \/ again THEN <<payload>> ELSE <<payload, follow>>]
  /\ IF payloadOnly
     THEN Goto(l, c, "sync") /\ UNCHANGED <<idx, remoteIdx, turn>>
     ELSE Advance(l, c) /\ Goto(l, c, "eth") /\ turn' = [turn EXCEPT ![l] = 1 - c]

SenderSends(l, c, busy, again) ==
  /\ state[l][c] = "worker" /\ AbleToSend(l, c, busy)
  /\ SendNextData(l, c, again)
  /\ breach' = breach
       \cup {b \in {"interleaved"} : state[l][1 - c] = "sync"}
       \cup {b \in {"unsynced"} : OneShot(buf[l][c][idx[l][c]])}
  /\ UNCHANGED <<sem, full>>

SenderTeardown(l, c, busy) ==
  /\ state[l][c] = "worker" /\ ~ AbleToSend(l, c, busy)
  /\ ~ live[l][c]
  /\ IncrementWorker(l, c) /\ Goto(l, c, "handshake")
  /\ Records(full[l][c] > 0, "torn")
  /\ turn' = [turn EXCEPT ![l] = 1 - c]
  /\ UNCHANGED <<idx, sync, remoteIdx, data, full>>


SenderHandshake(l, c) ==
  /\ state[l][c] = "handshake" /\ live[l][c]
  /\ IF SendAcked(l, c) \/ SendDone(l, c)
     THEN Notify(l, c) /\ Goto(l, c, "worker")
     ELSE Goto(l, c, "eth") /\ UNCHANGED <<sem, full>>
  /\ turn' = [turn EXCEPT ![l] = 1 - c]
  /\ UNCHANGED <<idx, sync, remoteIdx, data, breach>>

SenderSendsSync(l, c, busy) ==
  /\ state[l][c] = "sync" /\ ~ busy
  /\ data' = [data EXCEPT ![l] = Append(@, SyncMessage(l, c))]
  /\ Advance(l, c) /\ Goto(l, c, "eth")
  /\ turn' = [turn EXCEPT ![l] = 1 - c]
  /\ UNCHANGED <<sync, sem, full, breach>>

SenderChecksAck(l, c) ==
  /\ state[l][c] = "eth"
  /\ SendAcked(l, c) \/ SendDone(l, c)
  /\ sync' = [sync EXCEPT ![l][c][idx[l][c]].ack = FALSE]
  /\ Notify(l, c) /\ Goto(l, c, "worker")
  /\ turn' = [turn EXCEPT ![l] = 1 - c]
  /\ UNCHANGED <<idx, remoteIdx, data, breach>>

\* A step that finds nothing to do only gives up its turn.
SenderIdles(l, c, busy) ==
  /\ CASE state[l][c] = "worker"    -> ~ AbleToSend(l, c, busy) /\ live[l][c]
       [] state[l][c] = "handshake" -> ~ live[l][c]
       [] state[l][c] = "sync"      -> busy
       [] state[l][c] = "eth"       -> ~ (SendAcked(l, c) \/ SendDone(l, c))
  /\ turn' = [turn EXCEPT ![l] = 1 - c]
  /\ UNCHANGED <<state, idx, sync, remoteIdx, data, sem, full, breach>>

SenderDrained(l) ==
  \A c \in Channels, i \in 0 .. S - 1 : ~ sync[l][c][i].sent

SenderStep(l, c, busy) ==
  /\ ~ ended[l].sender /\ turn[l] = c
  /\ \/ \E again \in BOOLEAN : SenderSends(l, c, busy, again)
     \/ SenderTeardown(l, c, busy)
     \/ SenderHandshake(l, c)
     \/ SenderSendsSync(l, c, busy)
     \/ SenderChecksAck(l, c)
     \/ SenderIdles(l, c, busy)
  /\ UNCHANGED <<load, client, bidx, shared, buf, acks, receiver, stop, ended, got>>

-----------------------------------------------------------------------------
(***************************************************************************)
(* The link: writes arrive in the order in which they were sent.           *)
(***************************************************************************)
LandData(l) ==
  /\ data[l] # <<>>
  /\ LET m == Head(data[l]) IN
       /\ rbuf' = IF m.pkt = None THEN rbuf ELSE [rbuf EXCEPT ![l][m.slot] = m.pkt]
       /\ rsync' = IF m.sync
                   THEN [rsync EXCEPT ![l][m.slot] = [sent |-> m.sent, src |-> m.src]]
                   ELSE rsync
       /\ Records(/\ m.pkt = None /\ m.sent /\ ~ rsync[l][m.slot].sent
                  /\ rbuf[l][m.slot].size = BufferSize,
                  "resynced")
  /\ data' = [data EXCEPT ![l] = Tail(@)]
  /\ UNCHANGED <<load, client, bidx, sem, shared, full, sender, buf, acks, rstate, ridx,
                 senderIdx, stop, ended, got>>

LandAck(l) ==
  /\ acks[l] # <<>>
  /\ LET m == Head(acks[l]) IN
       sync' = [sync EXCEPT ![l][m.src][m.slot] = [sent |-> m.sent, ack |-> m.ack]]
  /\ acks' = [acks EXCEPT ![l] = Tail(@)]
  /\ UNCHANGED <<load, client, bidx, sem, shared, full, state, idx, remoteIdx, turn, buf,
                 data, receiver, stop, ended, got, breach>>

-----------------------------------------------------------------------------
(***************************************************************************)
(* The receiving end.                                                      *)
(***************************************************************************)
Local(p) == p.hops = 0     \* packet_must_be_consumed_locally
Remote(p) == IF p.mcast THEN p.range # 0 ELSE p.hops # 0

\* update_packet_header_for_next_hop
NextHop(p) ==
  IF p.mcast /\ p.hops = 0 THEN [p EXCEPT !.range = @ - 1] ELSE [p EXCEPT !.hops = @ - 1]

AckTo(l, c, isSent, isAck) ==
  acks' = [acks EXCEPT ![l] =
    Append(@, [src |-> c, slot |-> senderIdx[l][c], sent |-> isSent, ack |-> isAck])]

ReceiverAcks(l) ==
  /\ rstate[l] = "eth" /\ rsync[l][ridx[l]].sent
  /\ AckTo(l, rsync[l][ridx[l]].src, TRUE, TRUE)
  /\ rstate' = [rstate EXCEPT ![l] = "payload"]
  /\ UNCHANGED <<ridx, rbuf, rsync, senderIdx, bidx, sem, full, buf, got>>

ReceiverForwards(l) ==
  LET p == rbuf[l][ridx[l]] IN
  /\ rstate[l] = "payload"
  /\ Local(p) \/ Remote(p)
  /\ Remote(p) => HasSpace(l + 1, 1, 1)
  /\ got' = IF Local(p) THEN [got EXCEPT ![l] = Append(@, p.id)] ELSE got
  /\ IF Remote(p)
     THEN /\ Send(l + 1, 1, 1, NextHop(p))
          /\ rbuf' = [rbuf EXCEPT ![l][ridx[l]] = NextHop(p)]
     ELSE UNCHANGED <<bidx, sem, full, buf, rbuf>>
  /\ rstate' = [rstate EXCEPT ![l] = "flush"]
  /\ UNCHANGED <<ridx, rsync, senderIdx, acks>>

ReceiverCompletes(l) ==
  LET i == ridx[l]
      c == rsync[l][i].src IN
  /\ rstate[l] = "flush"
  /\ rsync' = [rsync EXCEPT ![l][i].sent = FALSE]
  /\ AckTo(l, c, FALSE, FALSE)
  /\ ridx' = [ridx EXCEPT ![l] = Wrap(@, R)]
  /\ senderIdx' = [senderIdx EXCEPT ![l][c] = Wrap(@, S)]
  /\ rstate' = [rstate EXCEPT ![l] = "eth"]
  /\ UNCHANGED <<rbuf, bidx, sem, full, buf, got>>


ReceiverDrained(l) == \A i \in 0 .. R - 1 : ~ rsync[l][i].sent

ReceiverStep(l) ==
  /\ ~ ended[l].receiver
  /\ ReceiverAcks(l) \/ ReceiverForwards(l) \/ ReceiverCompletes(l)
  /\ UNCHANGED <<load, client, shared, sender, data, stop, ended, breach>>

-----------------------------------------------------------------------------
(***************************************************************************)
(* The end: the last worker writes GRACEFULLY_TERMINATE for every core     *)
(* when it has closed.  A core sees it at the top of some later iteration  *)
(* of its main loop, and returns if its buffers are drained.               *)
(***************************************************************************)
SessionPackets(l, k) ==
  [n \in 1 .. Len(load[l][k]) |-> [id |-> <<l, k, n>>, p |-> load[l][k][n]]]

\* The packets of the workers of link l that are for chip t, in order.
Expected(l, t) ==
  LET all == FlattenSeq([k \in 1 .. Len(load[l]) |-> SessionPackets(l, k)])
      for == SelectSeq(all, LAMBDA e : t \in Targets(l, e.p)) IN
  [n \in 1 .. Len(for) |-> for[n].id]

From(l, t) == SelectSeq(got[t], LAMBDA id : id[1] = l)

Delivered == \A l, t \in Links : From(l, t) = Expected(l, t)

\* Every packet that is to go over link l has arrived.
Through(l) == \A k \in 1 .. l, t \in l .. NLinks : From(k, t) = Expected(k, t)

Terminate ==
  /\ ~ stop /\ \A l \in Links : pc[l] = "done"
  /\ stop' = TRUE
  /\ UNCHANGED <<load, client, bidx, sem, shared, full, sender, buf, data, acks,
                 receiver, ended, got, breach>>

Return(l, end) ==
  /\ stop /\ ~ ended[l][end]
  /\ ended' = [ended EXCEPT ![l][end] = TRUE]
  /\ Records(~ Through(l), "left")
  /\ UNCHANGED <<load, client, bidx, sem, shared, full, sender, buf, data, acks,
                 receiver, stop, got>>

EndSender(l) == SenderDrained(l) /\ Return(l, "sender")
EndReceiver(l) == ReceiverDrained(l) /\ Return(l, "receiver")

Next ==
  \/ \E l \in Links : WorkerStep(l)
  \/ \E l \in Links, c \in Channels, busy \in BOOLEAN : SenderStep(l, c, busy)
  \/ \E l \in Links : LandData(l) \/ LandAck(l) \/ ReceiverStep(l)
  \/ Terminate
  \/ \E l \in Links : EndSender(l) \/ EndReceiver(l)

(***************************************************************************)
(* Cores run, writes arrive, and each channel finds the transmit queue     *)
(* free again and again.                                                   *)
(***************************************************************************)
Fairness ==
  /\ \A l \in Links :
       /\ WF_vars(WorkerStep(l))
       /\ \A c \in Channels : SF_vars(SenderStep(l, c, FALSE))
       /\ WF_vars(LandData(l)) /\ WF_vars(LandAck(l)) /\ WF_vars(ReceiverStep(l))
       /\ WF_vars(EndSender(l)) /\ WF_vars(EndReceiver(l))
  /\ WF_vars(Terminate)

Spec == Init /\ [][Next]_vars /\ Fairness

-----------------------------------------------------------------------------
TypeOK ==
  /\ \A l \in Links :
       /\ pc[l] \in {"open", "send", "close", "done"} /\ session[l] \in 1 .. MaxSessions
       /\ remoteIdx[l] \in 0 .. R - 1 /\ ridx[l] \in 0 .. R - 1 /\ turn[l] \in Channels
       /\ rstate[l] \in {"eth", "payload", "flush"}
       /\ \A c \in Channels :
            /\ state[l][c] \in {"handshake", "worker", "sync", "eth"}
            /\ {bidx[l][c], idx[l][c], senderIdx[l][c]} \subseteq 0 .. S - 1
            /\ full[l][c] \in 0 .. 1

Without(what) == breach \cap what = {}

\* A torn packet is lost, but nothing waits for it.
Blocking == {"interleaved", "reopened", "unsynced", "resynced", "left"}

\* Every chip gets the packets of every worker that are for it, each once and in
\* the order in which they were sent, and nothing else: no buffer is taken for a
\* packet before it holds one, and none is written over (send_next_data,
\* receiver_forward_packet), until one of three breaches; no other interleaving
\* of workers, channels, cores and termination does that.
InOrder ==
  Without({"interleaved", "torn", "resynced"}) =>
    \A t \in Links :
      /\ \A l \in Links : IsPrefix(From(l, t), Expected(l, t))
      /\ \A k \in 1 .. Len(got[t]) : got[t][k] # None.id


=============================================================================
