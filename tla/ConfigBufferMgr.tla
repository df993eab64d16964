--------------------------- MODULE ConfigBufferMgr ---------------------------
(***************************************************************************)
(* tt_metal/impl/dispatch/worker_config_buffer.cpp: the host's record of   *)
(* which part of the kernel-config memory of the workers is in use, one    *)
(* ring of bytes per buffer (core type) and one ring of entries for all.   *)
(*                                                                         *)
(* A manager is a record.  An entry is the allocation of one program: for  *)
(* each buffer an address and a size, and the worker completion count from *)
(* which on it may be reused.  The code keeps alloc_index, free_index and  *)
(* sync_count per buffer, but alloc, free and mark_completely_full treat   *)
(* all buffers alike, so one of each says the same.  Addresses are offsets *)
(* from base_addrs_.                                                       *)
(***************************************************************************)
EXTENDS Naturals, FiniteSetsExt

CONSTANTS Buffers,    \* programmable core types, and the launch messages
          BufSize,    \* end_addrs_ - base_addrs_
          Entries,    \* kernel_config_entry_count
          DebugSync   \* 0xbabababa, the count of an entry not yet allocated

ASSUME MgrAssumption ==
  /\ Entries \in Nat /\ Entries >= 2
  /\ BufSize \in [Buffers -> Nat \ {0}]
  /\ DebugSync \in Nat

Index == 0 .. Entries - 1
NextIndex(i) == IF i = Entries - 1 THEN 0 ELSE i + 1
Ahead(i, k) == (i + k) % Entries
Zero == [b \in Buffers |-> 0]

\* The constructor and init_add_buffer.
NewMgr == [entries |-> [i \in Index |-> [addr |-> Zero, size |-> Zero, sync |-> 0]],
           alloc |-> 0, free |-> 0]

(***************************************************************************)
(* One round of the loop of reserve: is there room for size bytes of       *)
(* buffer b, which ends at top, if the entries before f are gone?  If not, *)
(* would freeing f make room?  If that is not enough either, the loop      *)
(* retries with the entry after f.                                         *)
(***************************************************************************)
FitFor(m, b, size, f) ==
  LET top     == BufSize[b]
      e       == m.entries
      here    == e[m.alloc].addr[b]
      limit   == IF here >= e[f].addr[b] + e[f].size[b] THEN top ELSE e[f].addr[b]
      wraps   == here + size > limit /\ limit = top
      addr    == IF wraps THEN 0 ELSE here
      end     == IF wraps THEN e[f].addr[b] ELSE limit
      nf      == NextIndex(f)
      nextEnd == IF addr >= e[nf].addr[b] THEN top ELSE e[nf].addr[b]
  IN  IF addr + size <= end
        THEN [addr |-> addr, sync |-> e[f].sync, retry |-> FALSE,
              need |-> NextIndex(m.alloc) = f]
        ELSE [addr |-> IF nf = m.alloc THEN 0 ELSE addr, sync |-> e[f].sync, need |-> TRUE,
              retry |-> nf # m.alloc /\ addr + size > nextEnd]

\* Mutant of Fit: the wait is for the entry after the one that is freed.
FitWrongEntry(m, b, size, f) ==
  [FitFor(m, b, size, f) EXCEPT !.sync = m.entries[NextIndex(f)].sync]

Fit(m, b, size, f) == FitFor(m, b, size, f)

\* The round that ends the loop.
Fitted(m, b, size) ==
  LET k == Min({j \in Index : ~Fit(m, b, size, Ahead(m.free, j)).retry})
  IN  Fit(m, b, size, Ahead(m.free, k))

\* The outcome for each buffer that is asked for: size 0 takes no part.
Fits(m, sizes) ==
  [b \in {c \in Buffers : sizes[c] > 0} |-> Fitted(m, b, sizes[b])]

\* Where reserve puts each buffer's part: one of size 0 stays where it is.
Places(m, fits) ==
  [b \in Buffers |-> IF b \in DOMAIN fits THEN fits[b].addr ELSE m.entries[m.alloc].addr[b]]

\* The counts the buffers ask to wait for.
Syncs(fits) == {fits[b].sync : b \in {c \in DOMAIN fits : fits[c].need}}

\* reserve(sizes).
Reserve(m, sizes) ==
  LET fits == Fits(m, sizes)
      s    == Syncs(fits)
  IN  [addr |-> Places(m, fits), need |-> s # {}, sync |-> IF s = {} THEN 0 ELSE Max(s)]

\* free(count): drop the oldest entries up to the first that needs more.
Free(m, count) ==
  [m EXCEPT !.free =
     Ahead(m.free, Min({k \in Index : \/ Ahead(m.free, k) = m.alloc
                                      \/ m.entries[Ahead(m.free, k)].sync > count}))]

\* alloc(sync): the reservation becomes an entry, the entry after it starts
\* where this one ends.
Alloc(m, addr, sizes, sync) ==
  LET next == NextIndex(m.alloc)
  IN  [m EXCEPT
        !.entries[m.alloc] = [addr |-> addr, size |-> sizes, sync |-> sync],
        !.entries[next] = [addr |-> [b \in Buffers |-> addr[b] + sizes[b]],
                           size |-> Zero, sync |-> DebugSync],
        !.alloc = next]

\* mark_completely_full(sync): one entry that takes everything.
MarkCompletelyFull(m, sync) ==
  [entries |-> [m.entries EXCEPT
                  ![0] = [addr |-> Zero, size |-> BufSize, sync |-> sync],
                  ![1] = [addr |-> BufSize, size |-> Zero, sync |-> DebugSync]],
   free |-> 0, alloc |-> 1]
=============================================================================
