---------------------------- MODULE CompletionQueue ----------------------------
(***************************************************************************)
(* How results get back to the host.  The dispatcher (cq_dispatch.cpp)     *)
(* writes pages into the completion queue, a ring in host memory with      *)
(* pointers that carry a wrap toggle.  A reader thread of HWCommandQueue   *)
(* (command_queue.cpp) takes the descriptors the calling thread left for   *)
(* it in issued_completion_q_reads, waits for the pages, copies buffer     *)
(* data out and records completed events.  finish waits for the reader by  *)
(* two counters and a condition variable; enqueue_read_buffer, EventSyn-   *)
(* chronize and the destructor are built on that.                          *)
(*                                                                         *)
(* A call of the host is the list of its steps, done one at a time.  The   *)
(* commands that the device answers are numbered in the order of the calls *)
(* and an event has its command's number.  A critical section of a mutex   *)
(* is one step; a pointer is one word and is read and written in one step. *)
(***************************************************************************)
EXTENDS Naturals, Sequences, FiniteSets

CONSTANTS Size,        \* pages of the completion queue
          Sizes,       \* the sizes of the buffers that are read, in pages
          MaxPush,     \* pages the dispatcher has at hand at once
          MaxId,       \* bound: commands of a behaviour
          Calls        \* the calls that the program makes

ASSUME CompletionAssumption ==
  /\ Size \in Nat \ {0} /\ Sizes \subseteq Nat \ {0} /\ MaxId \in Nat
  /\ MaxPush \in 1 .. Size
  /\ Calls \subseteq {"read", "readBlocking", "record", "finish", "sync"}

VARIABLES
  todo,        \* the steps left of the host's call
  asleep,      \* the host's thread sleeps in reads_processed_cv
  nextId,      \* the number of the next command
  closed,      \* how the program closes the device, if it does
  testMode,    \* get_test_mode_enabled
  hung,        \* watcher_server_killed_due_to_error
  exit,        \* exit_condition
  entries,     \* num_entries_in_completion_q
  completed,   \* num_completed_completion_q_reads
  issued,      \* issued_completion_q_reads
  last,        \* cq_to_last_completed_event
  rpc, batch, taken, cur, left,   \* the reader: position, num_events_to_read, how many
                                  \* of them it has taken, the last of them, pages left
  rd, rdT,     \* completion_fifo_rd_ptr and its toggle
  wr, wrT,     \* completion_fifo_wr_ptr and its toggle
  ring,        \* the completion queue
  devQ,        \* commands the device has not answered
  dleft,       \* pages of the first of them still to be written
  chunk        \* pages being written

host == <<todo, asleep, nextId, closed, testMode, hung>>
reader == <<rpc, batch, taken, cur, left, last, rd, rdT>>
device == <<wr, wrT, ring, devQ, dleft, chunk>>
vars == <<host, exit, entries, completed, issued, reader, device>>

NoItem == [id |-> 0, pages |-> 0, event |-> FALSE]
Items == [id : 0 .. MaxId, pages : Sizes \cup {0, 1}, event : BOOLEAN]
Ops == {"push", "process", "count", "notify", "wait", "sync", "destroy", "notifyExit", "join"}
Steps == [op : Ops, item : Items]

TypeOK ==
  /\ todo \in Seq(Steps) /\ asleep \in BOOLEAN
  /\ nextId \in 1 .. MaxId + 1 /\ closed \in {"open", "device", "devices"}
  /\ testMode \in BOOLEAN /\ hung \in BOOLEAN /\ exit \in BOOLEAN
  /\ completed \in 0 .. entries /\ entries \in 0 .. MaxId
  /\ issued \in Seq(Items) /\ devQ \in Seq(Items)
  /\ last \in 0 .. MaxId
  /\ rpc \in {"wait", "asleep", "check", "pop", "front", "copy", "event",
              "bump", "notify", "out"}
  /\ batch \in 0 .. MaxId /\ taken \in 0 .. batch /\ cur \in Items /\ left \in Nat
  /\ rd \in 0 .. Size - 1 /\ wr \in 0 .. Size - 1 /\ rdT \in {0, 1} /\ wrT \in {0, 1}
  /\ ring \in [0 .. Size - 1 -> [id : 0 .. MaxId, left : Nat]]
  /\ dleft \in Nat /\ chunk \in 0 .. MaxPush

Init ==
  /\ todo = <<>> /\ asleep = FALSE /\ nextId = 1 /\ closed = "open"
  /\ testMode \in BOOLEAN /\ hung = FALSE /\ exit = FALSE
  /\ entries = 0 /\ completed = 0 /\ issued = <<>> /\ last = 0
  /\ rpc = "wait" /\ batch = 0 /\ taken = 0 /\ cur = NoItem /\ left = 0
  /\ rd = 0 /\ rdT = 0 /\ wr = 0 /\ wrT = 0
  /\ ring = [p \in 0 .. Size - 1 |-> [id |-> 0, left |-> 0]]
  /\ devQ = <<>> /\ dleft = 0 /\ chunk = 0

-----------------------------------------------------------------------------
(***************************************************************************)
(* The calls of the host, as lists of steps.                               *)
(***************************************************************************)
Step(op, item) == [op |-> op, item |-> item]
Plain(op) == Step(op, NoItem)
Buffer(id, n) == [id |-> id, pages |-> n, event |-> FALSE]
Event(id) == [id |-> id, pages |-> 1, event |-> TRUE]

\* Mutant of Increment: the reader is told before there is something to see.
IncrementLate == <<Plain("notify"), Plain("count")>>

\* increment_num_entries_in_completion_q
Increment == <<Plain("count"), Plain("notify")>>

\* enqueue_record_event
RecordEvent(id) == <<Step("process", Event(id)), Step("push", Event(id))>> \o Increment

\* finish
Finish(id) == RecordEvent(id) \o <<Plain("wait")>>

\* enqueue_read_buffer of an interleaved buffer: enqueue_command finishes a
\* blocking call before the read has been counted.
ReadInterleaved(id, n, blocking) ==
  <<Step("push", Buffer(id, n)), Step("process", Buffer(id, n))>>
    \o (IF blocking THEN Finish(id + 1) ELSE <<>>) \o Increment

\* enqueue_read_buffer of a sharded buffer, on one core.
ReadSharded(id, n, blocking) ==
  <<Step("push", Buffer(id, n)), Step("process", Buffer(id, n))>>
    \o Increment \o (IF blocking THEN Finish(id + 1) ELSE <<>>)

\* Device::close
Close == <<Plain("destroy"), Plain("join")>>

\* Mutant of SyncAndClose: the queue is destroyed with whatever is in it.
CloseAtOnce(id) == Close

\* close_devices synchronizes the device first.
SyncAndClose(id) == Finish(id) \o Close

Call(steps, ids) ==
  /\ todo = <<>> /\ closed = "open" /\ nextId + ids <= MaxId + 1
  /\ todo' = steps /\ nextId' = nextId + ids
  /\ UNCHANGED <<asleep, testMode, hung, exit, entries, completed, issued, reader, device>>

\* One command is kept for the finish of SyncAndClose.
CallApi(steps, ids) == nextId + ids <= MaxId /\ Call(steps, ids) /\ UNCHANGED closed

EnqueueReadBuffer ==
  \E n \in Sizes, blocking \in BOOLEAN :
    LET ids == IF blocking THEN 2 ELSE 1
    IN  /\ (IF blocking THEN "readBlocking" ELSE "read") \in Calls
        /\ \/ CallApi(ReadInterleaved(nextId, n, blocking), ids)
           \/ CallApi(ReadSharded(nextId, n, blocking), ids)

EnqueueRecordEvent == "record" \in Calls /\ CallApi(RecordEvent(nextId), 1)

CallFinish == "finish" \in Calls /\ CallApi(Finish(nextId), 1)

\* EnqueueRecordEvent followed by EventSynchronize.
EventSynchronize ==
  "sync" \in Calls /\ CallApi(RecordEvent(nextId) \o <<Step("sync", Event(nextId))>>, 1)

\* DevicePool::close_device does not synchronize, whatever its comment says.
CloseDevice == Call(Close, 0) /\ closed' = "device"

CloseDevices == Call(SyncAndClose(nextId), 1) /\ closed' = "devices"

-----------------------------------------------------------------------------
(***************************************************************************)
(* The steps of the host's thread.                                         *)
(***************************************************************************)
At(op) == todo # <<>> /\ Head(todo).op = op
Done == todo' = Tail(todo)
Item == Head(todo).item

Process ==
  /\ At("process") /\ Done
  /\ devQ' = Append(devQ, Item)
  /\ dleft' = IF devQ = <<>> THEN Item.pages ELSE dleft
  /\ UNCHANGED <<asleep, nextId, closed, testMode, hung, exit, entries, completed, issued,
                 reader, wr, wrT, ring, chunk>>

PushDescriptor ==
  /\ At("push") /\ Done
  /\ issued' = Append(issued, Item)
  /\ UNCHANGED <<asleep, nextId, closed, testMode, hung, exit, entries, completed,
                 reader, device>>

Count ==
  /\ At("count") /\ Done
  /\ entries' = entries + 1
  /\ UNCHANGED <<asleep, nextId, closed, testMode, hung, exit, completed, issued,
                 reader, device>>

\* reader_thread_cv.notify_one() under the mutex.
Woken == IF rpc = "asleep" THEN "wait" ELSE rpc

NotifyReader ==
  /\ At("notify") \/ At("notifyExit")
  /\ Done /\ rpc' = Woken
  /\ UNCHANGED <<asleep, nextId, closed, testMode, hung, exit, entries, completed, issued,
                 batch, taken, cur, left, last, rd, rdT, device>>

\* finish waits for the reader.
WaitForReads ==
  /\ At("wait") /\ ~testMode /\ ~asleep
  /\ IF entries = completed THEN Done /\ UNCHANGED asleep
                            ELSE asleep' = TRUE /\ UNCHANGED todo
  /\ UNCHANGED <<nextId, closed, testMode, hung, exit, entries, completed, issued,
                 reader, device>>

\* finish polls in test mode, and gives up when the device is known to hang.
PollForReads ==
  /\ At("wait") /\ testMode
  /\ \/ entries <= completed /\ Done /\ UNCHANGED exit
     \/ /\ entries > completed /\ hung
        /\ exit' = TRUE /\ todo' = <<Plain("notifyExit")>> \o Tail(todo)
  /\ UNCHANGED <<asleep, nextId, closed, testMode, hung, entries, completed, issued,
                 reader, device>>

\* EventSynchronize; TT_FATAL if the device hangs.
Synchronize ==
  /\ At("sync") /\ (last >= Item.id \/ (testMode /\ hung))
  /\ Done
  /\ UNCHANGED <<asleep, nextId, closed, testMode, hung, exit, entries, completed, issued,
                 reader, device>>

\* Device::close polls the dispatch cores until they are done, without a timeout
\* and without a look at the watcher: after a hang it waits for ever.
DeviceDone == devQ = <<>>

\* The destructor.
Destroy ==
  /\ At("destroy") /\ DeviceDone
  /\ exit' = TRUE
  /\ todo' = (IF exit THEN <<>> ELSE <<Plain("notifyExit")>>) \o Tail(todo)
  /\ UNCHANGED <<asleep, nextId, closed, testMode, hung, entries, completed, issued,
                 reader, device>>

Join ==
  /\ At("join") /\ rpc = "out"
  /\ Done
  /\ UNCHANGED <<asleep, nextId, closed, testMode, hung, exit, entries, completed, issued,
                 reader, device>>

HostStep ==
  \/ Process \/ PushDescriptor \/ Count \/ NotifyReader \/ WaitForReads \/ PollForReads
  \/ Synchronize \/ Destroy \/ Join

-----------------------------------------------------------------------------
(***************************************************************************)
(* The reader thread, read_completion_queue.                               *)
(***************************************************************************)
ReaderWait ==
  /\ rpc = "wait"
  /\ rpc' = IF entries > completed \/ exit THEN "check" ELSE "asleep"
  /\ UNCHANGED <<host, exit, entries, completed, issued, batch, taken, cur, left, last,
                 rd, rdT, device>>

\* Mutant of ReaderCheck: the entries count as read when the reader turns to them.
ReaderCheckCounts ==
  /\ rpc = "check"
  /\ IF entries > completed
       THEN batch' = entries - completed /\ rpc' = "pop" /\ completed' = entries
       ELSE rpc' = (IF exit THEN "out" ELSE "wait") /\ UNCHANGED <<batch, completed>>
  /\ UNCHANGED <<host, exit, entries, issued, taken, cur, left, last, rd, rdT, device>>

\* How many answers are due.
ReaderCheck ==
  /\ rpc = "check"
  /\ IF entries > completed THEN batch' = entries - completed /\ rpc' = "pop"
                            ELSE rpc' = (IF exit THEN "out" ELSE "wait") /\ UNCHANGED batch
  /\ UNCHANGED <<host, exit, entries, completed, issued, taken, cur, left, last, rd, rdT, device>>

\* issued_completion_q_reads.pop()
PopDescriptor ==
  /\ rpc = "pop" /\ issued # <<>>
  /\ cur' = Head(issued) /\ issued' = Tail(issued)
  /\ left' = cur'.pages /\ taken' = taken + 1 /\ rpc' = "front"
  /\ UNCHANGED <<host, exit, entries, completed, batch, last, rd, rdT, device>>

\* completion_queue_wait_front returns when this is false or on exit.
Empty == rd = wr /\ rdT = wrT

WaitFront ==
  /\ rpc = "front" /\ (~Empty \/ exit)
  /\ rpc' = IF exit THEN "out" ELSE IF cur.event THEN "event" ELSE "copy"
  /\ UNCHANGED <<host, exit, entries, completed, issued, batch, taken, cur, left, last,
                 rd, rdT, device>>

\* The end of a round of the loop over the batch.
NextOfBatch ==
  /\ rpc' = IF taken = batch THEN "bump" ELSE "pop"
  /\ cur' = NoItem

\* completion_queue_pop_front
PopFront(n) ==
  IF rd + n >= Size THEN rd' = 0 /\ rdT' = 1 - rdT ELSE rd' = rd + n /\ UNCHANGED rdT

\* bytes_avail_in_completion_queue: up to the limit if the writer has wrapped.
Readable == IF wr > rd /\ wrT = rdT THEN wr - rd ELSE Size - rd

\* A round of copy_into_user_space.
CopyIntoUserSpace ==
  /\ rpc = "copy" /\ (~Empty \/ exit)
  /\ IF exit
       THEN NextOfBatch /\ UNCHANGED <<left, rd, rdT>>
       ELSE LET n == IF left > Readable THEN Readable ELSE left
            IN  /\ PopFront(n)
                /\ left' = left - n
                /\ IF left' = 0 THEN NextOfBatch ELSE UNCHANGED <<rpc, cur>>
  /\ UNCHANGED <<host, exit, entries, completed, issued, batch, taken, last, device>>

\* Mutant of LastCompleted: the event after the one that was read.
LastCompletedNext == cur.id + 1

\* get_global_event_id of the descriptor.
LastCompleted == cur.id

\* The ReadEventDescriptor branch, with set_last_completed_event.
ReadEvent ==
  /\ rpc = "event"
  /\ PopFront(1)
  /\ last' = LastCompleted
  /\ NextOfBatch
  /\ left' = 0
  /\ UNCHANGED <<host, exit, entries, completed, issued, batch, taken, device>>

\* num_completed_completion_q_reads += num_events_to_read
Bump ==
  /\ rpc = "bump"
  /\ completed' = completed + batch /\ batch' = 0 /\ taken' = 0
  /\ rpc' = "notify"
  /\ UNCHANGED <<host, exit, entries, issued, cur, left, last, rd, rdT, device>>

\* reads_processed_cv.notify_one() under the mutex.
NotifyHost ==
  /\ rpc = "notify"
  /\ asleep' = FALSE /\ rpc' = "wait"
  /\ UNCHANGED <<todo, nextId, closed, testMode, hung, exit, entries, completed, issued,
                 batch, taken, cur, left, last, rd, rdT, device>>

ReaderStep ==
  \/ ReaderWait \/ ReaderCheck \/ PopDescriptor \/ WaitFront \/ CopyIntoUserSpace
  \/ ReadEvent \/ Bump \/ NotifyHost

-----------------------------------------------------------------------------
(***************************************************************************)
(* The dispatcher, process_write_host_h.                                   *)
(***************************************************************************)
\* Some pages of the command have come in.
TakeChunk ==
  /\ devQ # <<>> /\ chunk = 0 /\ ~hung
  /\ \E n \in 1 .. MaxPush : n <= dleft /\ chunk' = n
  /\ UNCHANGED <<host, exit, entries, completed, issued, reader, wr, wrT, ring, devQ, dleft>>

\* Mutant of Space: a full queue looks like an empty one.
SpaceNoToggle == IF wr < rd THEN rd - wr ELSE Size - (wr - rd)

\* available_space of completion_queue_reserve_back
Space == IF rdT # wrT THEN rd - wr ELSE Size - (wr - rd)

\* Data and pointer go to the host in this order: completion_queue_reserve_back,
\* the writes and completion_queue_push_back.
WriteHost ==
  /\ chunk > 0 /\ chunk <= Space /\ ~hung
  /\ ring' = [p \in 0 .. Size - 1 |->
                LET i == (p + Size - wr) % Size
                IN  IF i < chunk THEN [id |-> Head(devQ).id, left |-> dleft - i] ELSE ring[p]]
  /\ IF wr + chunk >= Size THEN wr' = wr + chunk - Size /\ wrT' = 1 - wrT
                           ELSE wr' = wr + chunk /\ UNCHANGED wrT
  /\ chunk' = 0
  /\ IF dleft > chunk
       THEN dleft' = dleft - chunk /\ UNCHANGED devQ
       ELSE /\ devQ' = Tail(devQ)
            /\ dleft' = IF Tail(devQ) = <<>> THEN 0 ELSE Head(Tail(devQ)).pages
  /\ UNCHANGED <<host, exit, entries, completed, issued, reader>>

DeviceStep == TakeChunk \/ WriteHost

\* A hang that the watcher or the print server finds; only test mode looks for it.
Hang ==
  /\ testMode /\ ~hung
  /\ hung' = TRUE
  /\ UNCHANGED <<todo, asleep, nextId, closed, testMode, exit, entries, completed, issued,
                 reader, device>>

Next ==
  \/ EnqueueReadBuffer \/ EnqueueRecordEvent \/ CallFinish \/ EventSynchronize \/ CloseDevice
  \/ CloseDevices \/ HostStep \/ ReaderStep \/ DeviceStep \/ Hang

\* The threads are scheduled and the dispatcher runs; nobody has to call.
Spec ==
  Init /\ [][Next]_vars /\ WF_vars(HostStep) /\ WF_vars(ReaderStep) /\ WF_vars(DeviceStep)

-----------------------------------------------------------------------------
\* The reader finds the answer to the command it is at, page by page and in
\* order: the TT_ASSERT on event ids in read_completion_queue, for data too.
ReadsOwnPages ==
  rpc \in {"event", "copy"} /\ ~Empty => ring[rd] = [id |-> cur.id, left |-> left]

\* A descriptor is there when the counters say so: LockFreeQueue's pop may not
\* be called on an empty queue.
DescriptorThere == rpc = "pop" => issued # <<>>

\* The descriptors the reader has not dealt with.
Pending == {issued[i] : i \in 1 .. Len(issued)} \cup (IF cur = NoItem THEN {} ELSE {cur})

\* Who sees an event completed has everything before it.
EventMeansRead == \A i \in Pending : i.id > last

\* When finish returns every buffer is in the memory of the program, though a
\* blocking read calls it before it has counted itself.
FinishMeansRead ==
  [][At("wait") /\ todo' = Tail(todo) => \A i \in Pending : i.event]_vars

\* The two TT_ASSERTs of the destructor: nothing is left to read when the device
\* is closed through close_devices.  It says nothing of close_device, which does
\* not synchronize: there the reader may be behind and the TT_ASSERTs may fail.
NothingInFlight ==
  closed = "devices" /\ At("destroy") /\ devQ = <<>> /\ ~exit => issued = <<>> /\ entries = completed

\* Every call returns: no wake-up is lost between the two threads, finish and
\* EventSynchronize give up after a hang, and the destructor can join the reader.
\* The one call that may not return is a close that finds a device that hangs
\* with commands to answer.
CallsReturn == todo # <<>> ~> todo = <<>> \/ (hung /\ At("destroy") /\ devQ # <<>>)

-----------------------------------------------------------------------------
(***************************************************************************)
(* The inductive invariant.                                                *)
(***************************************************************************)
\* The places of a kind of step in a list of steps.
Places(s, op) == {i \in DOMAIN s : s[i].op = op}
Many(op) == Cardinality(Places(todo, op))

\* Descriptors are numbered in the order in which they are pushed, so they are
\* taken in this order; `last' is behind all that are not dealt with.
OrderInv ==
  /\ \A i \in Places(todo, "push") :
       /\ todo[i].item.id > last /\ todo[i].item.id < nextId
       /\ \A j \in Places(todo, "push") : i < j => todo[i].item.id < todo[j].item.id
       /\ \A k \in DOMAIN issued : issued[k].id < todo[i].item.id
       /\ cur # NoItem => cur.id < todo[i].item.id
  /\ \A k \in DOMAIN issued :
       /\ issued[k].id > last /\ issued[k].id < nextId
       /\ \A l \in DOMAIN issued : k < l => issued[k].id < issued[l].id
       /\ cur # NoItem => cur.id < issued[k].id
  /\ cur # NoItem => last < cur.id /\ cur.id < nextId
  /\ last < nextId

\* Every command is pushed once and counted once, in whatever order.
CountInv ==
  /\ entries + Many("count") = nextId - 1
  /\ Len(issued) + completed + taken + Many("push") = nextId - 1

\* A descriptor is counted after it is pushed.
Pairs(s) ==
  \E m \in [Places(s, "push") -> Places(s, "count")] :
    /\ \A i \in Places(s, "push") : m[i] > i
    /\ \A i, j \in Places(s, "push") : m[i] = m[j] => i = j

\* The reader works on a batch of descriptors that are counted and not completed.
ReaderInv ==
  /\ completed + batch <= entries
  /\ rpc \in {"wait", "asleep", "check", "notify"} => batch = 0
  /\ rpc = "pop" => taken < batch /\ cur = NoItem
  /\ rpc \in {"front", "copy", "event"} => cur # NoItem
  /\ rpc = "bump" => taken = batch
  /\ cur # NoItem => taken > 0 /\ rpc \in {"front", "copy", "event", "out"}

\* What finish waits for: nothing is pushed any more, at most one descriptor is
\* not counted, and the last one pushed is an event.
WaitInv ==
  \A j \in Places(todo, "wait") :
    /\ \A i \in Places(todo, "push") : i < j
    /\ \A k, l \in Places(todo, "count") : k > j /\ l > j => k = l
    /\ \/ \E i \in Places(todo, "push") : todo[i].item.event /\
            \A k \in Places(todo, "push") : k <= i
       \/ /\ Places(todo, "push") = {}
          /\ issued = <<>> \/ issued[Len(issued)].event

\* Before the destructor that close_devices leads to, everything was waited for.
DestroyInv ==
  closed = "devices" /\ ~exit => \A j \in Places(todo, "destroy") :
    \/ \E i \in Places(todo, "wait") :
         i < j /\ \A k \in Places(todo, "push") \cup Places(todo, "count") : k < i
    \/ /\ Places(todo, "push") = {} /\ Places(todo, "count") = {}
       /\ issued = <<>> /\ entries = completed

\* The dispatcher writes pages of the command it is at.
DeviceInv == chunk > 0 => devQ # <<>> /\ chunk <= dleft

CompletionInv ==
  /\ TypeOK /\ OrderInv /\ CountInv /\ Pairs(todo) /\ ReaderInv /\ WaitInv /\ DestroyInv /\ DeviceInv

(***************************************************************************)
(* For ReadsOwnPages: all pages that are ever written lie in one line, and *)
(* start[id] is the number of those before the pages of command id.        *)
(***************************************************************************)
\* An item is a command with its own pages.
Fits(start, i) ==
  /\ i.id \in 1 .. MaxId /\ i.pages > 0 /\ start[i.id + 1] = start[i.id] + i.pages
  /\ i.event => i.pages = 1

\* Pages in the ring, and where the k-th of them is.
Used == IF rdT = wrT THEN wr - rd ELSE Size - (rd - wr)
Slot(k) == IF rd + k >= Size THEN rd + k - Size ELSE rd + k

\* Where reader and dispatcher are in the line.
ReadAt(start) == start[completed + taken + 1] - left
WriteAt(start) ==
  IF devQ = <<>> THEN start[nextId - Many("process")] ELSE start[Head(devQ).id + 1] - dleft

Rising(start) == \A i, j \in 1 .. nextId : i <= j => start[i] <= start[j]

\* Commands are pushed, and handed to the device, without a gap.
StepsInLine(start) ==
  \A op \in {"push", "process"} : \A i \in Places(todo, op) :
    /\ Fits(start, todo[i].item)
    /\ \A j \in Places(todo, op) : i < j => todo[j].item.id = todo[i].item.id + 1
    /\ (\A j \in Places(todo, op) : i <= j) => todo[i].item.id + Many(op) = nextId

ReaderInLine(start) ==
  /\ \A k \in DOMAIN issued : Fits(start, issued[k]) /\ issued[k].id = completed + taken + k
  /\ cur # NoItem => /\ Fits(start, cur) /\ cur.id = completed + taken
                     /\ left \in 1 .. cur.pages
                     /\ rpc \in {"front", "event"} => left = cur.pages
  /\ cur = NoItem => left = 0
  /\ rpc = "event" => cur.event

DeviceInLine(start) ==
  /\ \A k \in DOMAIN devQ : /\ Fits(start, devQ[k])
                            /\ devQ[k].id + Len(devQ) + Many("process") = nextId + k - 1
  /\ devQ # <<>> => dleft \in 1 .. Head(devQ).pages

\* The pointers say how far the dispatcher is ahead.
RingInLine(start) ==
  /\ IF rdT = wrT THEN rd <= wr ELSE wr <= rd
  /\ WriteAt(start) = ReadAt(start) + Used
  /\ rpc = "event" => Used > 0

\* The pages in the ring are those that come next in the line.
PagesInLine(start) ==
  \A k \in 0 .. Used - 1 : \A id \in 1 .. nextId - 1 :
    start[id] <= ReadAt(start) + k /\ ReadAt(start) + k < start[id + 1] =>
      ring[Slot(k)] = [id |-> id, left |-> start[id + 1] - (ReadAt(start) + k)]

Stream(start) ==
  /\ Rising(start) /\ StepsInLine(start) /\ ReaderInLine(start) /\ DeviceInLine(start)
  /\ RingInLine(start) /\ PagesInLine(start)

\* When the reader is told to leave it may skip the rest of a command, but then
\* it reads no other.
Reading == ~exit \/ rpc \in {"event", "copy"}
StreamInv == Reading => \E start \in [1 .. MaxId + 1 -> Nat] : Stream(start)
=============================================================================
