---------------------------- MODULE DispatchBuffer ----------------------------
(***************************************************************************)
(* The buffer between the prefetcher (cq_prefetch.cpp) and the dispatcher  *)
(* (cq_dispatch.cpp), with the page credits of cq_common.hpp.  The buffer  *)
(* is a ring of Blocks * PagesPerBlock pages.  The prefetcher waits for    *)
(* credits, which it takes back by an atomic sent to its own semaphore,    *)
(* writes pages and counts them up at the dispatcher.  The dispatcher      *)
(* takes the pages in, never beyond the end of a block, processes them and *)
(* gives them back a block at a time, one block late, when the NoC writes  *)
(* that read from that block have departed.                                *)
(*                                                                         *)
(* Pointers are in pages; the counters that only grow in the code are kept *)
(* as differences.  Every page is the source of one NoC write.  The sender *)
(* of a semaphore increment never looks whether it has landed, so that it  *)
(* lands at once here; the exception is the prefetcher's own decrement.    *)
(***************************************************************************)
EXTENDS Naturals

CONSTANTS Blocks,          \* dispatch_cb_blocks
          PagesPerBlock,   \* dispatch_cb_pages_per_block
          MaxInline,       \* the pages of the longest relay_inline
          MaxChunk         \* the pages that write_pages_to_dispatcher takes at once

ASSUME BufferAssumption ==
  /\ Blocks \in Nat \ {0, 1} /\ PagesPerBlock \in Nat \ {0}
  /\ MaxInline \in Nat \ {0} /\ MaxChunk \in Nat \ {0}

Pages == Blocks * PagesPerBlock   \* dispatch_cb_pages, downstream_cb_pages

VARIABLES
  ppc,       \* the prefetcher's position
  want,      \* the pages it waits for
  keep,      \* 1 if it keeps the last page it has, to go on writing it
  ending,    \* it sends the terminate command
  own,       \* pages it acquired and has not released
  wptr,      \* downstream_data_ptr, as the first of them
  credits,   \* my_downstream_cb_sem
  owed,      \* the decrement of it that is under way
  dpc,       \* the dispatcher's position
  ready,     \* my_dispatch_cb_sem - upstream_total_acquired_page_count
  seen,      \* upstream_count - upstream_total_acquired_page_count
  fence,     \* cb_fence
  cmd,       \* cmd_ptr, or data_ptr inside a command
  blk,       \* rd_block_idx
  prev,      \* prev_block
  out,       \* NoC writes issued that have not departed
  toClear    \* block_noc_writes_to_clear, how many of them have to depart

prefetcher == <<ppc, want, keep, ending, own, wptr>>
dispatcher == <<dpc, seen, fence, cmd, blk, prev>>
writes == <<out, toClear>>
bufferVars == <<prefetcher, credits, owed, ready, dispatcher, writes>>

\* The block the dispatcher is in, up to block_next_start_addr[rd_block_idx].
BlockStart == blk * PagesPerBlock
BlockEnd == BlockStart + PagesPerBlock

BufferTypeOK ==
  /\ ppc \in {"idle", "paged", "acquire", "write", "wait", "out"}
  /\ want \in Nat /\ keep \in {0, 1} /\ ending \in BOOLEAN
  /\ own \in 0 .. Pages /\ wptr \in 0 .. Pages
  /\ owed \in 0 .. Pages /\ credits \in owed .. Pages + owed
  /\ dpc \in {"run", "drain", "release", "wait", "out"}
  /\ ready \in 0 .. Pages /\ seen \in 0 .. ready
  /\ blk \in 0 .. Blocks - 1
  /\ fence \in BlockStart .. BlockEnd /\ cmd \in BlockStart .. fence
  /\ prev \in BOOLEAN
  /\ out \in 0 .. Pages /\ toClear \in 0 .. out

BufferInit ==
  /\ ppc = "idle" /\ want = 0 /\ keep = 0 /\ ending = FALSE /\ own = 0 /\ wptr = 0
  /\ credits = Pages /\ owed = 0
  /\ dpc = "run" /\ ready = 0 /\ seen = 0 /\ fence = 0 /\ cmd = 0 /\ blk = 0
  /\ prev = FALSE /\ out = 0 /\ toClear = 0

-----------------------------------------------------------------------------
(***************************************************************************)
(* Prefetcher.                                                             *)
(***************************************************************************)
\* A call that needs n more pages and keeps k of all it has then.
Request(n, k, last) ==
  /\ want' = n /\ keep' = k /\ ending' = last
  /\ ppc' = IF n = 0 THEN "write" ELSE "acquire"
  /\ UNCHANGED <<own, wptr, credits, owed, ready, dispatcher, writes>>

\* process_relay_inline_cmd.
RelayInline == ppc = "idle" /\ \E n \in 1 .. MaxInline : Request(n, 0, FALSE)

\* process_relay_inline_noflush_cmd: the header of a command whose data
\* follows; its page is acquired and not released.
RelayInlineNoflush == ppc = "idle" /\ Request(1, 1, FALSE)

\* A round of process_relay_paged_cmd and its like: data from the scratch buffer.
RelayChunk == ppc = "paged" /\ \E n \in 1 .. MaxChunk : Request(n, 1, FALSE)

\* Their last write, which may fit into the page at hand.
RelayLast == ppc = "paged" /\ \E n \in 0 .. MaxChunk : Request(n, 0, FALSE)

\* The terminate command for the dispatcher, followed by the prefetcher's own.
RelayTerminate == ppc = "idle" /\ Request(1, 0, TRUE)

\* Mutant of EnoughCredits: one page is never used.
EnoughCreditsStrict == credits > want

\* The wait of cb_acquire_pages, after its barrier: wrap_gt(n, *sem_addr).
EnoughCredits == credits >= want

\* cb_acquire_pages of the prefetcher.
AcquirePages ==
  /\ ppc = "acquire" /\ owed = 0 /\ EnoughCredits
  /\ owed' = want /\ own' = own + want /\ want' = 0 /\ ppc' = "write"
  /\ UNCHANGED <<keep, ending, wptr, credits, ready, dispatcher, writes>>

\* The decrement lands.
DecrementLands ==
  /\ owed > 0
  /\ credits' = credits - owed /\ owed' = 0
  /\ UNCHANGED <<prefetcher, ready, dispatcher, writes>>

\* write_downstream: the pointer stays at the end until there is more to write.
Advanced(p, n) == IF p + n > Pages THEN p + n - Pages ELSE p + n

\* The data is written, then cb_release_pages.
WriteDownstream ==
  LET n == own - keep
  IN  /\ ppc = "write"
      /\ ready' = ready + n /\ own' = keep /\ wptr' = Advanced(wptr, n)
      /\ ppc' = CASE keep = 1 -> "paged" [] ending -> "wait" [] OTHER -> "idle"
      /\ UNCHANGED <<want, keep, ending, credits, owed, dispatcher, writes>>

\* cb_wait_all_pages at the end of kernel_main.
PrefetcherOut ==
  /\ ppc = "wait" /\ credits = Pages
  /\ ppc' = "out"
  /\ UNCHANGED <<want, keep, ending, own, wptr, credits, owed, ready, dispatcher, writes>>

PrefetcherStep == AcquirePages \/ WriteDownstream \/ PrefetcherOut

-----------------------------------------------------------------------------
(***************************************************************************)
(* Dispatcher.                                                             *)
(***************************************************************************)
\* Mutant of BlockRelease: the writes from the block are not waited for.
BlockReleaseEarly ==
  /\ credits' = IF prev THEN credits + PagesPerBlock ELSE credits
  /\ prev' = TRUE /\ toClear' = out

\* cb_block_release_pages: gives back the previous block, not this one.
BlockRelease ==
  /\ prev => toClear = 0
  /\ credits' = IF prev THEN credits + PagesPerBlock ELSE credits
  /\ prev' = TRUE /\ toClear' = out

\* The end of a block in get_cb_page_and_release_pages and in the commands:
\* move_rd_to_next_block_and_release_pages, with the wrap of the pointers.
MoveToNextBlock ==
  /\ dpc = "run" /\ cmd = fence /\ fence = BlockEnd
  /\ BlockRelease
  /\ IF blk = Blocks - 1 THEN blk' = 0 /\ cmd' = 0 /\ fence' = 0
                         ELSE blk' = blk + 1 /\ UNCHANGED <<cmd, fence>>
  /\ UNCHANGED <<prefetcher, owed, ready, dpc, seen, out>>

\* How many of n pages are taken in.
Usable(n) == IF n > BlockEnd - fence THEN BlockEnd - fence ELSE n

\* cb_acquire_pages of the dispatcher: the semaphore is read only when
\* everything it showed the last time has been taken in.
TakeIn ==
  LET count == IF seen = 0 THEN ready ELSE seen
      n     == Usable(count)
  IN  /\ dpc = "run" /\ cmd = fence /\ fence # BlockEnd
      /\ count > 0
      /\ fence' = fence + n /\ ready' = ready - n /\ seen' = count - n
      /\ UNCHANGED <<prefetcher, credits, owed, dpc, cmd, blk, prev, writes>>

\* A page is processed; the last page ever sent holds the terminate command.
ProcessPage ==
  /\ dpc = "run" /\ cmd < fence
  /\ cmd' = cmd + 1
  /\ IF ppc \in {"wait", "out"} /\ ready = 0 /\ cmd' = fence
       THEN dpc' = "drain" /\ UNCHANGED out
       ELSE out' = out + 1 /\ UNCHANGED dpc
  /\ UNCHANGED <<prefetcher, credits, owed, ready, seen, fence, blk, prev, toClear>>

\* A NoC write has read its page and leaves: NIU_MST_NONPOSTED_WR_REQ_SENT.
WriteDeparts ==
  /\ out > 0
  /\ out' = out - 1 /\ toClear' = IF toClear = 0 THEN 0 ELSE toClear - 1
  /\ UNCHANGED <<prefetcher, credits, owed, ready, dispatcher>>

\* Mutant of Drain: the previous block is not given back.
DrainForget ==
  /\ dpc = "drain" /\ out = 0
  /\ dpc' = "release"
  /\ UNCHANGED <<prefetcher, credits, owed, ready, seen, fence, cmd, blk, prev, writes>>

\* After the loop: noc_async_write_barrier, release of the previous block.
Drain ==
  /\ dpc = "drain" /\ out = 0
  /\ BlockRelease
  /\ dpc' = "release"
  /\ UNCHANGED <<prefetcher, owed, ready, seen, fence, cmd, blk, out>>

\* Mutant of PagesOfBlock: the pages that are left instead of the ones used.
PagesOfBlockLeft == BlockEnd - cmd

\* npages: the pages of the current block that were processed.
PagesOfBlock == PagesPerBlock - (BlockEnd - cmd)

ReleaseCurrent ==
  /\ dpc = "release"
  /\ credits' = credits + PagesOfBlock
  /\ dpc' = "wait"
  /\ UNCHANGED <<prefetcher, owed, ready, seen, fence, cmd, blk, prev, writes>>

\* cb_wait_all_pages at the end of kernel_main.
DispatcherOut ==
  /\ dpc = "wait" /\ ready = 0
  /\ dpc' = "out"
  /\ UNCHANGED <<prefetcher, credits, owed, ready, seen, fence, cmd, blk, prev, writes>>

DispatcherStep ==
  MoveToNextBlock \/ TakeIn \/ ProcessPage \/ Drain \/ ReleaseCurrent \/ DispatcherOut

BufferNext ==
  \/ RelayInline \/ RelayInlineNoflush \/ RelayChunk \/ RelayLast \/ RelayTerminate
  \/ PrefetcherStep \/ DispatcherStep
  \/ DecrementLands \/ WriteDeparts

\* Both kernels run on and the NoC delivers.  Nobody has to issue commands,
\* but a command that was started has an end.
BufferSpec ==
  /\ BufferInit /\ [][BufferNext]_bufferVars
  /\ WF_bufferVars(PrefetcherStep) /\ WF_bufferVars(DispatcherStep)
  /\ WF_bufferVars(DecrementLands) /\ WF_bufferVars(WriteDeparts)

-----------------------------------------------------------------------------
\* The pages a kernel has, counted on from a page of the ring.
RingPages(from, n) == {(from + i) % Pages : i \in 0 .. n - 1}

\* The pages the dispatcher still needs: sent and not taken in, taken in and
\* not processed, processed and still being read by a NoC write.
NeededPages == RingPages(Pages + cmd - out, out + (fence - cmd) + ready)

\* The prefetcher writes to pages nobody reads any more, though it only knows
\* the number of credits, which come back a block late and in two ways.
AcquiredIsFree == RingPages(wptr, own) \cap NeededPages = {}

\* Both pointers go round the ring together: the page the dispatcher will take
\* in after the ones already sent is the one the prefetcher writes next.
PointersMeet == (fence + ready) % Pages = wptr % Pages

\* Pages the dispatcher has taken in and not given back.
HeldPages ==
  (IF prev /\ dpc \in {"run", "drain"} THEN PagesPerBlock ELSE 0)
    + (IF dpc \in {"wait", "out"} THEN 0 ELSE fence - BlockStart)

\* No page is lost or given back twice, up to the end of both kernels.
CreditsConserved == credits + own + ready + HeldPages = Pages + owed

\* A prefetcher that waits for credits gets them, though the dispatcher keeps
\* the block before the one it works on.
ChunkGetsThrough == ppc = "acquire" ~> ppc # "acquire"

\* After terminate both kernels leave: each has counted all the pages, the
\* "leak" that cb_wait_all_pages looks for does not occur.
ShutdownEnds == ending ~> ppc = "out" /\ dpc = "out"

\* The comment on dispatch_cb_pages_per_block: with nothing left to process at
\* most one block of pages is unavailable to the prefetcher.
OneBlockHeld ==
  dpc = "run" /\ cmd = fence /\ fence # BlockEnd /\ ready = 0 => HeldPages <= PagesPerBlock
=============================================================================
