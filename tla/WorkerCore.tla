----------------------------- MODULE WorkerCore -----------------------------
(***************************************************************************)
(* A Tensix worker core: the firmware of its processors and the circular   *)
(* buffers between their kernels.  BRISC waits for a go signal, starts the *)
(* others through slave_sync, runs its own kernel and waits until they are *)
(* done.  NCRISC reads tiles into circular buffer "in", TRISC0 unpacks     *)
(* them, TRISC2 packs results into "out", from where BRISC writes them.  A *)
(* program without compute kernels moves tiles from NCRISC to BRISC.       *)
(*                                                                         *)
(* A circular buffer has two counters in registers, tiles_received and     *)
(* tiles_acked, which only its producer and only its consumer write.  The  *)
(* data movement processors add to them as 32-bit words; TRISCs have the   *)
(* Tensix engine store 16 bits of counts of their own, when it gets to it. *)
(* Who waits computes the tiles or the space from both.                    *)
(***************************************************************************)
EXTENDS Naturals, Sequences

CONSTANTS Pages,     \* fifo_num_pages of both buffers
          W16, W32,  \* 2^16 and 2^32
          DestTiles, \* how many tiles the destination registers hold
          Loads      \* records [wide, programs]: see below

(***************************************************************************)
(* A program is [compute, tiles, batch]: how many tiles go through it and  *)
(* how many at a time.  wide: the packer's count of free tiles has 32 bits *)
(* (Wormhole and Blackhole; it has 16 on Grayskull).                       *)
(***************************************************************************)
ASSUME CoreAssumption ==
  /\ {Pages, W16, W32, DestTiles} \subseteq Nat \ {0}
  /\ Pages < W16 /\ W16 < W32 /\ W32 % (2 * W16) = 0
  /\ \A d \in Loads :
       /\ d.wide \in BOOLEAN
       /\ d.programs \in Seq([compute : BOOLEAN, tiles : Nat, batch : Nat \ {0}])
       /\ \A k \in 1 .. Len(d.programs) :
            LET p == d.programs[k] IN p.tiles % p.batch = 0 /\ Pages % p.batch = 0

CBs == {"in", "out"}
Slaves == {"ncrisc", "trisc0", "trisc2"}

VARIABLES
  load, n,            \* the programs, and the one that runs or ran last
  go,                 \* go_message.signal
  slaveSync,          \* slave_sync, per processor
  pc,                 \* position of each processor
  received, acked,    \* the registers of the circular buffers
  wr, rd,             \* fifo_wr_ptr at the producer, fifo_rd_ptr at the consumer
  packed, unpacked,   \* tiles_received of TRISC2 and tiles_acked of TRISC0
  left,               \* tiles that each processor's kernel has still to handle
  mem,                \* the buffers
  uq, pq,             \* instructions issued to the unpacker and to the packer
  dest,               \* tiles in the destination registers
  out                 \* history: the tiles written by this program

regs == <<received, acked>>
local == <<wr, rd, packed, unpacked>>
engine == <<uq, pq, dest>>
vars == <<load, n, go, slaveSync, pc, regs, local, left, mem, engine, out>>

Program == load.programs[n]
Last == IF Program.compute THEN "out" ELSE "in"     \* the buffer BRISC reads
All == [c \in CBs |-> 0]

Init ==
  /\ load \in Loads /\ n = 0 /\ go = "DONE"
  /\ slaveSync = [s \in Slaves |-> "DONE"]
  /\ pc = [p \in Slaves \cup {"brisc"} |-> IF p = "brisc" THEN "init" ELSE "idle"]
  /\ received = All /\ acked = All /\ wr = All /\ rd = All
  /\ packed = 0 /\ unpacked = 0
  /\ left = [p \in Slaves \cup {"brisc"} |-> 0]
  /\ mem = [c \in CBs |-> [i \in 0 .. Pages - 1 |-> <<0, 0>>]]
  /\ uq = <<>> /\ pq = <<>> /\ dest = <<>> /\ out = <<>>

-----------------------------------------------------------------------------
(***************************************************************************)
(* Circular buffers.                                                       *)
(***************************************************************************)
Diff(a, b, w) == (a + w - (b % w)) % w

\* cb_reserve_back: 32-bit received, 16 bits of acked, the result has 16 bits.
FreePages(c) == Diff(Pages, Diff(received[c], acked[c] % W16, W32), W16)

\* cb_wait_front
PagesAt(c) == Diff(received[c] % W16, acked[c], W16)

\* Mutant of FreeTiles: the register instead of the packer's own count.
FreeTilesStale(k) ==
  LET free == Diff(Pages, Diff(received["out"], acked["out"] % W16, W32), W16) IN free >= k

\* llk_wait_for_free_tiles: a 32-bit result is compared as a signed number.
FreeTiles(k) ==
  LET used == Diff(packed, acked["out"] % W16, W32)
      wrap == Diff(Pages, used, IF load.wide THEN W32 ELSE W16) IN
  wrap >= k /\ (load.wide => wrap < W32 \div 2)

\* Mutant of TilesAt: one tile too many is asked for.
TilesAtLess == Diff(received["in"] % W16, unpacked + 1, W16)

\* llk_wait_tiles
TilesAt == Diff(received["in"] % W16, unpacked, W16)

\* fifo_wr_ptr and fifo_rd_ptr: a batch ends at fifo_limit or before it.
Moved(ptr, k) == IF ptr + k >= Pages THEN ptr + k - Pages ELSE ptr + k

Batch == 0 .. Program.batch - 1

-----------------------------------------------------------------------------
(***************************************************************************)
(* Firmware of BRISC.                                                      *)
(***************************************************************************)
\* The dispatcher sends the next go signal when it was told of the last DONE.
Dispatch ==
  /\ go = "DONE" /\ pc["brisc"] \in {"init", "poll"} /\ n < Len(load.programs)
  /\ go' = "GO" /\ n' = n + 1 /\ out' = <<>>
  /\ UNCHANGED <<load, slaveSync, pc, regs, local, left, mem, engine>>

InitSyncRegisters ==
  /\ pc["brisc"] = "init"
  /\ received' = All /\ acked' = All
  /\ pc' = [pc EXCEPT !["brisc"] = "poll"]
  /\ UNCHANGED <<load, n, go, slaveSync, local, left, mem, engine, out>>

\* After the loop that polls the go signal.
RunTriscs ==
  /\ pc["brisc"] = "poll" /\ go = "GO"
  /\ slaveSync' = IF Program.compute
                  THEN [ncrisc |-> "DONE", trisc0 |-> "GO", trisc2 |-> "GO"] ELSE slaveSync
  /\ pc' = [pc EXCEPT !["brisc"] = "setup"]
  /\ UNCHANGED <<load, n, go, regs, local, left, mem, engine, out>>

\* The local interfaces, finish_ncrisc_copy_and_run.
SetupAndRunNcrisc ==
  /\ pc["brisc"] = "setup"
  /\ rd' = [rd EXCEPT ![Last] = 0]
  /\ slaveSync' = [slaveSync EXCEPT !["ncrisc"] = "GO"]
  /\ left' = [left EXCEPT !["brisc"] = Program.tiles]
  /\ pc' = [pc EXCEPT !["brisc"] = "run"]
  /\ UNCHANGED <<load, n, go, regs, wr, packed, unpacked, mem, engine, out>>

WaitNcriscTrisc ==
  /\ pc["brisc"] = "run" /\ left["brisc"] = 0
  /\ \A s \in Slaves : slaveSync[s] = "DONE"
  /\ go' = "DONE"
  /\ pc' = [pc EXCEPT !["brisc"] = "init"]
  /\ UNCHANGED <<load, n, slaveSync, regs, local, left, mem, engine, out>>

-----------------------------------------------------------------------------
(***************************************************************************)
(* Firmware of the others: what each sets up of its interfaces, and how it *)
(* reports.                                                                *)
(***************************************************************************)
Start(s) ==
  /\ pc[s] = "idle" /\ slaveSync[s] = "GO"
  /\ left' = [left EXCEPT ![s] = Program.tiles]
  /\ wr' = CASE s = "ncrisc" -> [wr EXCEPT !["in"] = 0]
             [] s = "trisc2" -> [wr EXCEPT !["out"] = 0]
             [] OTHER -> wr
  /\ rd' = IF s = "trisc0" THEN [rd EXCEPT !["in"] = 0] ELSE rd
  /\ unpacked' = IF s = "trisc0" THEN 0 ELSE unpacked
  /\ packed' = IF s = "trisc2" THEN 0 ELSE packed
  /\ pc' = [pc EXCEPT ![s] = "run"]
  /\ UNCHANGED <<load, n, go, slaveSync, regs, mem, engine, out>>

\* Mutant of TensixSync: the kernel's end is taken for the engine's.
TensixSyncNone(s) == TRUE

TensixSync(s) == (s = "trisc0" => uq = <<>>) /\ (s = "trisc2" => pq = <<>>)

Report(s) ==
  /\ pc[s] = "run" /\ left[s] = 0 /\ TensixSync(s)
  /\ slaveSync' = [slaveSync EXCEPT ![s] = "DONE"]
  /\ pc' = [pc EXCEPT ![s] = "idle"]
  /\ UNCHANGED <<load, n, go, regs, local, left, mem, engine, out>>

-----------------------------------------------------------------------------
(***************************************************************************)
(* Kernels: a batch at a time.                                             *)
(***************************************************************************)
\* NCRISC: cb_reserve_back and the reads from DRAM.
Fill ==
  /\ pc["ncrisc"] = "run" /\ left["ncrisc"] > 0 /\ FreePages("in") >= Program.batch
  /\ mem' = [mem EXCEPT !["in"] = [i \in DOMAIN @ |->
       IF i \in {wr["in"] + j : j \in Batch}
       THEN <<n, Program.tiles - left["ncrisc"] + i - wr["in"] + 1>> ELSE @[i]]]
  /\ pc' = [pc EXCEPT !["ncrisc"] = "push"]
  /\ UNCHANGED <<load, n, go, slaveSync, regs, local, left, engine, out>>

PushBack ==
  /\ pc["ncrisc"] = "push"
  /\ received' = [received EXCEPT !["in"] = (@ + Program.batch) % W32]
  /\ wr' = [wr EXCEPT !["in"] = Moved(@, Program.batch)]
  /\ left' = [left EXCEPT !["ncrisc"] = @ - Program.batch]
  /\ pc' = [pc EXCEPT !["ncrisc"] = "run"]
  /\ UNCHANGED <<load, n, go, slaveSync, acked, rd, packed, unpacked, mem, engine, out>>

\* TRISC0: llk_wait_tiles, the unpack instructions, llk_pop_tiles.
Unpack ==
  /\ pc["trisc0"] = "run" /\ left["trisc0"] > 0 /\ TilesAt >= Program.batch
  /\ unpacked' = (unpacked + Program.batch) % W16
  /\ uq' = uq \o [j \in 1 .. Program.batch |-> [op |-> "unpack", arg |-> rd["in"] + j - 1]]
              \o <<[op |-> "store", arg |-> unpacked']>>
  /\ rd' = [rd EXCEPT !["in"] = Moved(@, Program.batch)]
  /\ left' = [left EXCEPT !["trisc0"] = @ - Program.batch]
  /\ UNCHANGED <<load, n, go, slaveSync, pc, regs, wr, packed, mem, pq, dest, out>>

\* TRISC2: llk_wait_for_free_tiles, the pack instructions, llk_push_tiles.
Pack ==
  /\ pc["trisc2"] = "run" /\ left["trisc2"] > 0 /\ FreeTiles(Program.batch)
  /\ packed' = (packed + Program.batch) % W16
  /\ pq' = pq \o [j \in 1 .. Program.batch |-> [op |-> "pack", arg |-> wr["out"] + j - 1]]
              \o <<[op |-> "store", arg |-> packed']>>
  /\ wr' = [wr EXCEPT !["out"] = Moved(@, Program.batch)]
  /\ left' = [left EXCEPT !["trisc2"] = @ - Program.batch]
  /\ UNCHANGED <<load, n, go, slaveSync, pc, regs, rd, unpacked, mem, uq, dest, out>>

\* BRISC: cb_wait_front and the writes to DRAM.
Drain ==
  /\ pc["brisc"] = "run" /\ left["brisc"] > 0 /\ PagesAt(Last) >= Program.batch
  /\ out' = out \o [j \in 1 .. Program.batch |-> mem[Last][rd[Last] + j - 1]]
  /\ pc' = [pc EXCEPT !["brisc"] = "pop"]
  /\ UNCHANGED <<load, n, go, slaveSync, regs, local, left, mem, engine>>

PopFront ==
  /\ pc["brisc"] = "pop"
  /\ acked' = [acked EXCEPT ![Last] = (@ + Program.batch) % W32]
  /\ rd' = [rd EXCEPT ![Last] = Moved(@, Program.batch)]
  /\ left' = [left EXCEPT !["brisc"] = @ - Program.batch]
  /\ pc' = [pc EXCEPT !["brisc"] = "run"]
  /\ UNCHANGED <<load, n, go, slaveSync, received, wr, packed, unpacked, mem, engine, out>>

-----------------------------------------------------------------------------
(***************************************************************************)
(* The Tensix engine: each thread's instructions in order; the math thread *)
(* and the semaphores of the destination registers are its `dest'.         *)
(***************************************************************************)
UnpackerStep ==
  /\ uq # <<>> /\ uq' = Tail(uq)
  /\ \/ /\ Head(uq).op = "unpack" /\ Len(dest) < DestTiles
        /\ dest' = Append(dest, mem["in"][Head(uq).arg]) /\ UNCHANGED acked
     \/ /\ Head(uq).op = "store"
        /\ acked' = [acked EXCEPT !["in"] = Head(uq).arg] /\ UNCHANGED dest
  /\ UNCHANGED <<load, n, go, slaveSync, pc, received, local, left, mem, pq, out>>

PackerStep ==
  /\ pq # <<>> /\ pq' = Tail(pq)
  /\ \/ /\ Head(pq).op = "pack" /\ dest # <<>> /\ dest' = Tail(dest)
        /\ mem' = [mem EXCEPT !["out"][Head(pq).arg] = Head(dest)] /\ UNCHANGED received
     \/ /\ Head(pq).op = "store"
        /\ received' = [received EXCEPT !["out"] = Head(pq).arg] /\ UNCHANGED <<mem, dest>>
  /\ UNCHANGED <<load, n, go, slaveSync, pc, acked, local, left, uq, out>>

Brisc == InitSyncRegisters \/ RunTriscs \/ SetupAndRunNcrisc \/ Drain \/ PopFront
         \/ WaitNcriscTrisc
Slave(s) == \/ Start(s) \/ Report(s)
            \/ s = "ncrisc" /\ (Fill \/ PushBack)
            \/ s = "trisc0" /\ Unpack
            \/ s = "trisc2" /\ Pack

Next == Dispatch \/ Brisc \/ (\E s \in Slaves : Slave(s)) \/ UnpackerStep \/ PackerStep

\* Every processor and the engine keep running; the dispatcher goes on.
Fairness ==
  /\ WF_vars(Dispatch) /\ WF_vars(Brisc) /\ WF_vars(UnpackerStep) /\ WF_vars(PackerStep)
  /\ \A s \in Slaves : WF_vars(Slave(s))

Spec == Init /\ [][Next]_vars /\ Fairness

-----------------------------------------------------------------------------
TypeOK ==
  /\ {received, acked} \subseteq [CBs -> 0 .. W32 - 1]
  /\ {wr, rd} \subseteq [CBs -> 0 .. Pages - 1]
  /\ packed \in 0 .. W16 - 1 /\ unpacked \in 0 .. W16 - 1
  /\ Len(dest) <= DestTiles

\* What BRISC writes out is what NCRISC read in, tile by tile, of this program
\* and of no other, however often the counters wrap and however late the engine
\* stores its counts (cb_reserve_back, cb_wait_front and their llk counterparts).
DataIntact == \A i \in 1 .. Len(out) : out[i] = <<n, i>>

\* When the core reports DONE nothing of the program is left on it: the engine
\* has no store to do that would hit the counters of the next program, and no
\* processor is in the program's kernel (wait_ncrisc_trisc, tensix_sync).
QuietWhenDone ==
  go = "DONE" => /\ uq = <<>> /\ pq = <<>> /\ dest = <<>>
                 /\ \A s \in Slaves : pc[s] = "idle"

\* Every program ends: producers and consumers never wait for each other for ever.
ProgramsEnd == <>[] (n = Len(load.programs) /\ go = "DONE")
=============================================================================
