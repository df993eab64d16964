------------------------------ MODULE RelayPaged ------------------------------
(***************************************************************************)
(* Data from memory to the dispatcher: process_relay_paged_cmd,            *)
(* process_relay_paged_cmd_large and process_relay_linear_cmd of           *)
(* cq_prefetch.cpp.  The data is read into the halves of a scratch buffer  *)
(* in turn, one half filled while the other is written to the dispatch     *)
(* buffer; reads and writes are asynchronous.  The header of the dispatch  *)
(* command was put at the top of a page before, by                         *)
(* process_relay_inline_noflush_cmd, and that page is held.                *)
(*                                                                         *)
(* Units are headers.  The data of all relays is numbered through: a cell  *)
(* of the scratch buffer holds the number of the data in it, and the data  *)
(* of a relay starts at `base'.  A relay of pages of one unit is a linear  *)
(* one.  That there is room in the dispatch buffer is for DispatchBuffer.  *)
(***************************************************************************)
EXTENDS Integers, FiniteSets

CONSTANTS Half,       \* scratch_db_half_size
          CbPage,     \* downstream_cb_page_size, a power of two
          CbPages,    \* pages of the dispatch buffer
          PageSizes, MaxPages,   \* of what is relayed
          LargeAdjust,           \* length_adjust is used with large pages too
          MaxRelays,  \* bound: relays in a behaviour
          Width       \* lengths are uint32_t, here modulo Width

ASSUME RelayAssumption ==
  /\ Half \in Nat \ {0} /\ CbPage \in Nat \ {0, 1} /\ CbPages \in Nat \ {0}
  /\ Half <= CbPage * (CbPages - 1)
  /\ PageSizes \subseteq Nat \ {0} /\ MaxPages \in Nat \ {0} /\ MaxRelays \in Nat \ {0}
  /\ LargeAdjust \in BOOLEAN
  /\ Width \in Nat /\ \A p \in PageSizes : Width > MaxPages * p + 2 * Half + 2 * CbPage

VARIABLES
  cmd,        \* the command: page_size, pages, length_adjust
  pc,
  page_id, page_offset, page_length,   \* what is read next
  read_length, write_length, amt,      \* still to read, still to write, read last
  toggle,     \* db_toggle
  scratch,    \* the halves
  reading,    \* reads that have not landed
  writing,    \* writes that have not departed
  ptr,        \* downstream_data_ptr
  held,       \* pages acquired and not released
  free,       \* units of the held pages that are not written
  base,       \* the number of the relay's first unit
  issued,     \* units of it that were written
  relays

pos == <<page_id, page_offset, page_length>>
vars == <<cmd, pc, page_id, page_offset, page_length, read_length, write_length, amt,
          toggle, scratch, reading, writing, ptr, held, free, base, issued, relays>>

\* The ASSERT on length_adjust.  The host uses it for small pages only (kernel
\* binaries), the tests of the prefetcher for large ones too.
Cmds == {c \in [page_size : PageSizes, pages : 1 .. MaxPages, length_adjust : 0 .. Width] :
           /\ c.length_adjust < c.page_size
           /\ c.page_size > Half /\ ~LargeAdjust => c.length_adjust = 0}
Large == cmd.page_size > Half
Total == cmd.pages * cmd.page_size - cmd.length_adjust
Smaller(a, b) == IF a > b THEN b ELSE a

TypeOK ==
  /\ cmd \in Cmds
  /\ pc \in {"start", "barrier", "loop", "done"}
  /\ page_id \in Nat /\ page_offset \in 0 .. cmd.page_size
  /\ page_length \in 0 .. cmd.page_size
  /\ {read_length, write_length} \subseteq 0 .. Width - 1
  /\ amt \in 0 .. Half /\ toggle \in 0 .. 1
  /\ scratch \in [0 .. 1 -> [0 .. Half - 1 -> Int]]
  /\ reading \subseteq [half : 0 .. 1, at : 0 .. Half, data : Nat, size : 0 .. Half]
  /\ \A r \in reading : r.at + r.size <= Half
  /\ writing \subseteq [half : 0 .. 1, from : 0 .. Half, data : Nat, size : 0 .. Half]
  /\ \A w \in writing : w.from + w.size <= Half
  /\ ptr \in 0 .. CbPage * CbPages
  /\ held \in 0 .. CbPages /\ free \in 0 .. CbPage
  /\ base \in Nat /\ issued \in Nat /\ relays \in Nat

-----------------------------------------------------------------------------
(***************************************************************************)
(* Data movement.                                                          *)
(***************************************************************************)
\* noc_async_read: `size' units from a place in a page to a place in a half.
Read(half, at, id, offset, size) ==
  [half |-> half, at |-> at, data |-> base + id * cmd.page_size + offset, size |-> size]

\* A read lands.
Land(r) ==
  /\ r \in reading
  /\ reading' = reading \ {r}
  /\ scratch' = [scratch EXCEPT ![r.half] = [a \in 0 .. Half - 1 |->
                   IF a \in r.at .. r.at + r.size - 1 THEN r.data + (a - r.at) ELSE @[a]]]
  /\ UNCHANGED <<cmd, pc, pos, read_length, write_length, amt, toggle, writing, ptr, held,
                 free, base, issued, relays>>

\* A write has taken its data and departs.
Depart(w) ==
  /\ w \in writing
  /\ writing' = writing \ {w}
  /\ UNCHANGED <<cmd, pc, pos, read_length, write_length, amt, toggle, scratch, reading, ptr,
                 held, free, base, issued, relays>>

\* Mutant of Flushed: the flushes are left out.
NotFlushed == TRUE

\* noc_async_writes_flushed.
Flushed == writing = {}

\* Mutant of NPages: the last write rounds up as well.
NPagesNoRound(size, round) ==
  (((size - (CbPage - (ptr % CbPage)) + CbPage) + Width) % Width) \div CbPage

\* write_pages_to_dispatcher: the pages to acquire.  In the loop a write that
\* ends on the edge of a page gets the next one too, the last write does not.
NPages(size, round) ==
  (((size - (CbPage - (ptr % CbPage)) + CbPage - round) + Width) % Width) \div CbPage

\* Its write, in two parts at the end of the ring.
End == CbPage * CbPages
Wrapped(p, size) ==
  IF p = End THEN size ELSE IF p + size > End THEN p + size - End ELSE p + size

\* write_pages_to_dispatcher and cb_release_pages, with `extra' more pages.
WriteOut(half, size, round, extra) ==
  LET n == NPages(size, round)
  IN  /\ writing' = IF size = 0 THEN writing
                    ELSE writing \cup {[half |-> half, from |-> 0, size |-> size,
                                        data |-> base + issued]}
      /\ ptr' = Wrapped(ptr, size)
      /\ held' = held + n - (n + extra)
      /\ free' = free + n * CbPage - size
      /\ issued' = issued + size

-----------------------------------------------------------------------------
(***************************************************************************)
(* The relay.                                                              *)
(***************************************************************************)
\* process_relay_inline_noflush_cmd, then the head of process_relay_paged_cmd.
Begin(c, at, first) ==
  /\ cmd' = c /\ pc' = "start" /\ base' = first /\ issued' = 0
  /\ page_id' = 0 /\ page_offset' = 0 /\ page_length' = 0
  /\ read_length' = 0 /\ write_length' = 0 /\ amt' = 0 /\ toggle' = 0
  /\ held' = 1 /\ free' = CbPage - 1
  /\ ptr' = (IF at = End THEN 0 ELSE at) + 1

Init ==
  /\ cmd \in Cmds /\ pc = "start" /\ base = 0 /\ issued = 0
  /\ page_id = 0 /\ page_offset = 0 /\ page_length = 0
  /\ read_length = 0 /\ write_length = 0 /\ amt = 0 /\ toggle = 0
  /\ scratch = [h \in 0 .. 1 |-> [a \in 0 .. Half - 1 |-> -1]]
  /\ reading = {} /\ writing = {} /\ held = 1 /\ free = CbPage - 1 /\ ptr = 1 /\ relays = 1

\* The full pages that fit into a half.
Batch(length) == (Smaller(Half, length) \div cmd.page_size) * cmd.page_size

\* First step of process_relay_paged_cmd: read into DB0.
FirstRead ==
  /\ pc = "start" /\ ~Large /\ Flushed
  /\ amt' = Batch(cmd.pages * cmd.page_size)
  /\ read_length' = cmd.pages * cmd.page_size - amt'
  /\ page_id' = amt' \div cmd.page_size
  /\ reading' = {Read(0, 0, 0, 0, amt')}
  /\ pc' = "barrier"
  /\ UNCHANGED <<cmd, page_offset, page_length, write_length, toggle, scratch, writing, ptr,
                 held, free, base, issued, relays>>

\* First step of process_relay_paged_cmd_large.
FirstReadLarge ==
  /\ pc = "start" /\ Large /\ Flushed
  /\ write_length' = Total
  /\ amt' = Smaller(Half, Total) /\ read_length' = Total - amt'
  /\ page_length' = cmd.page_size - amt' /\ page_offset' = amt'
  /\ reading' = {Read(0, 0, 0, 0, amt')}
  /\ pc' = "barrier"
  /\ UNCHANGED <<cmd, page_id, toggle, scratch, writing, ptr, held, free, base, issued, relays>>

\* noc_async_read_barrier.
Barrier ==
  /\ pc = "barrier" /\ reading = {}
  /\ pc' = "loop"
  /\ UNCHANGED <<cmd, pos, read_length, write_length, amt, toggle, scratch, reading, writing,
                 ptr, held, free, base, issued, relays>>

\* Second step, small pages: write one half, read into the other.
LoopPaged ==
  /\ pc = "loop" /\ ~Large /\ read_length # 0 /\ Flushed
  /\ toggle' = 1 - toggle
  /\ amt' = Batch(read_length)
  /\ reading' = {Read(toggle', 0, page_id, 0, amt')}
  /\ page_id' = page_id + amt' \div cmd.page_size
  /\ WriteOut(toggle, amt, 0, 0)
  /\ read_length' = read_length - amt'
  /\ pc' = "barrier"
  /\ UNCHANGED <<cmd, page_offset, page_length, write_length, scratch, base, relays>>

\* Second step, large pages: the rest of the page, and the start of the next.
ReadRest ==
  /\ page_length <= Half
  /\ page_id' = page_id + 1
  /\ IF page_length < Half /\ read_length > page_length
       THEN /\ reading' = {Read(1 - toggle, 0, page_id, page_offset, page_length),
                           Read(1 - toggle, page_length, page_id', 0, Half - page_length)}
            /\ amt' = Half
            /\ page_offset' = Half - page_length
            /\ page_length' = cmd.page_size - (Half - page_length)
       ELSE /\ reading' = {Read(1 - toggle, 0, page_id, page_offset, page_length)}
            /\ amt' = page_length /\ page_offset' = 0 /\ page_length' = cmd.page_size

\* Second step, large pages: a half from the middle of a page.
ReadMiddle ==
  /\ page_length > Half
  /\ reading' = {Read(1 - toggle, 0, page_id, page_offset, Half)}
  /\ page_length' = page_length - Half /\ page_offset' = page_offset + Half
  /\ amt' = Half /\ page_id' = page_id

\* Mutant of WriteLarge: what is left to write is not counted down.
WriteLargeKeep ==
  LET size == Smaller(amt, write_length)
  IN  /\ read_length' = IF write_length < amt THEN 0 ELSE (read_length + Width - amt') % Width
      /\ write_length' = write_length
      /\ WriteOut(toggle, size, 0, 0)

\* Third step in the loop, large pages.  length_adjust may have made the last
\* read too long: read_length wraps around, and write_length ends the loop.
WriteLarge ==
  LET size == Smaller(amt, write_length)
  IN  /\ read_length' = IF write_length < amt THEN 0 ELSE (read_length + Width - amt') % Width
      /\ write_length' = write_length - size
      /\ WriteOut(toggle, size, 0, 0)

LoopLarge ==
  /\ pc = "loop" /\ Large /\ read_length # 0 /\ Flushed
  /\ toggle' = 1 - toggle
  /\ ReadRest \/ ReadMiddle
  /\ WriteLarge
  /\ pc' = "barrier"
  /\ UNCHANGED <<cmd, scratch, base, relays>>

\* Third step: what is left, and the page of the header is released.
LastSize == IF Large THEN write_length ELSE amt - cmd.length_adjust
LastWrite ==
  /\ pc = "loop" /\ read_length = 0
  /\ IF LastSize > 0
       THEN WriteOut(toggle, LastSize, 1, 1)
       ELSE /\ held' = held - 1
            /\ UNCHANGED <<writing, ptr, free, issued>>
  /\ pc' = "done"
  /\ UNCHANGED <<cmd, pos, read_length, write_length, amt, toggle, scratch, reading, base,
                 relays>>

\* downstream_data_ptr goes to the top of the next page.
RoundedUp(p) == ((p + CbPage - 1) \div CbPage) * CbPage

\* The next relay may begin before the last writes departed.
NextRelay ==
  /\ pc = "done" /\ relays < MaxRelays
  /\ relays' = relays + 1
  /\ \E c \in Cmds : Begin(c, RoundedUp(ptr), base + issued)
  /\ UNCHANGED <<scratch, reading, writing>>

Done == pc = "done" /\ relays = MaxRelays /\ UNCHANGED vars

Relay == FirstRead \/ FirstReadLarge \/ Barrier \/ LoopPaged \/ LoopLarge \/ LastWrite

Next ==
  \/ Relay \/ NextRelay \/ Done
  \/ \E r \in reading : Land(r)
  \/ \E w \in writing : Depart(w)

\* The prefetcher runs, and the NoC delivers.
Spec == Init /\ [][Next]_vars /\ WF_vars(Relay) /\ WF_vars(\E r \in reading : Land(r))
             /\ WF_vars(\E w \in writing : Depart(w))

-----------------------------------------------------------------------------
(***************************************************************************)
(* Properties.                                                             *)
(***************************************************************************)
\* The double buffering: as long as a write has not departed, its half of the
\* scratch buffer holds the data it is to carry, in order and without gaps,
\* over page edges, for large pages, and when the next command starts.
DataIntact ==
  \A w \in writing : \A k \in 0 .. w.size - 1 : scratch[w.half][w.from + k] = w.data + k

\* write_pages_to_dispatcher: `when an xfer lands exactly at a page boundary, who
\* is responsible for getting the next page?'  Nothing is ever written outside
\* the pages held, what is held in between is the page being filled and no
\* more, and at the end everything was released with the last page not empty.
OnePageHeld ==
  /\ free >= 0
  /\ pc = "done" => held = 0 /\ free < CbPage
  /\ pc # "done" => held = 1 /\ free > 0 /\ (ptr + free) % CbPage = 0

\* A relay that has ended wrote what the command asks for and no more.
ExactlyWritten == pc = "done" => issued = Total

\* Every relay ends, having written what the command asks for and no more: no
\* round of the loops waits for data or pages that do not come.
AllWritten == pc = "start" ~> pc = "done" /\ issued = Total

-----------------------------------------------------------------------------
(***************************************************************************)
(* The inductive invariant.                                                *)
(***************************************************************************)
InLoop == pc \in {"barrier", "loop"}

\* length_adjust made the last read too long and all was written in the loop:
\* what is in the scratch buffer then is written by nobody.
Spent == Large /\ write_length = 0

\* Who uses which half: reads fill the half that is written next, and only
\* between their issue and the barrier; in the loop the writes are in the other.
HalfInv ==
  /\ pc # "barrier" => reading = {}
  /\ pc = "start" => toggle = 0
  /\ \A r \in reading : r.half = toggle
  /\ \A w \in writing : w.from = 0 /\ (InLoop => w.half # toggle)

\* What the half to be written next holds, or will hold when the reads landed.
FilledInv ==
  InLoop /\ ~Spent =>
    /\ \A r \in reading : r.data = base + issued + r.at
    /\ \A k \in 0 .. amt - 1 :
         \/ scratch[toggle][k] = base + issued + k
         \/ \E r \in reading : k \in r.at .. r.at + r.size - 1

\* The place read next comes after what was written and what is in the half.
PosInv ==
  /\ pc = "start" => page_id = 0 /\ page_offset = 0 /\ issued = 0
  /\ InLoop /\ ~Spent =>
       /\ page_id * cmd.page_size + page_offset = issued + amt
       /\ amt > 0
       /\ Large => page_length > 0 /\ page_offset + page_length = cmd.page_size

\* What is left to read and to write.  Small pages: whole pages are left.  Large
\* ones: unless length_adjust is used the two differ by what is in the half; with
\* it the last read may be too long, and read_length has then wrapped around.
LengthInv ==
  InLoop =>
    /\ ~Large => /\ page_offset = 0 /\ amt >= cmd.page_size
                 /\ read_length = cmd.pages * cmd.page_size - page_id * cmd.page_size
    /\ Large =>
         /\ write_length + issued = Total
         /\ \/ 0 < write_length /\ amt <= write_length /\ read_length = write_length - amt
            \/ /\ LargeAdjust /\ 0 < write_length /\ write_length < amt
               /\ read_length = Width + write_length - amt
            \/ LargeAdjust /\ write_length = 0 /\ read_length = 0

\* The page being filled is held and not full; at the end nothing is held.
PageInv ==
  /\ pc # "done" => held = 1 /\ free > 0 /\ (ptr + free) % CbPage = 0
  /\ pc = "done" => held = 0 /\ (~LargeAdjust => free < CbPage)

RelayInv ==
  TypeOK /\ HalfInv /\ FilledInv /\ PosInv /\ LengthInv /\ PageInv /\ DataIntact /\
  ExactlyWritten
=============================================================================
