------------------------ MODULE ProgramDispatchProofs ------------------------
(***************************************************************************)
(* Proofs about ProgramDispatch with ConfigBufferMgr, for any buffers,     *)
(* programs, sizes, numbers of workers and lengths of the command stream:  *)
(* nothing that workers still use is overwritten, and the counter is       *)
(* cleared only when nobody is left to increment it.                       *)
(*                                                                         *)
(* The host decides from counts alone.  The argument has three parts: each *)
(* command waits for exactly what was enqueued before it, also across      *)
(* clears, traces and the wrap of the counter (the chain of commands); the *)
(* manager's table holds one live entry, which covers the last program     *)
(* (the table); and so the dispatcher has at most one program running and  *)
(* one more being written, with the counter in step (the device).          *)
(***************************************************************************)
EXTENDS ProgramDispatch, Integers, SequenceTheorems, TLAPS

Counts == 0 .. CounterMod - 1

(***************************************************************************)
(* The chain.                                                              *)
(***************************************************************************)
Commands ==
  [kind : {"program"}, addr : [Buffers -> Nat], sizes : [Buffers -> Nat],
   fixed : BOOLEAN, first : BOOLEAN, late : BOOLEAN, sync : Counts, wait : Counts,
   runs : SUBSET (Buffers \ {Launch}), workers : Nat]
    \cup [kind : {"clear"}, wait : Counts, sync : Counts, workers : Nat]

\* A command as the host puts it into the stream.  A program always waits for
\* all that is before it: only one launch message may be in use.
CmdOK(c) ==
  /\ 4 * c.workers <= CounterMod
  /\ ~IsProgram(c) => c.sync = Plus(c.wait, c.workers)
  /\ IsProgram(c) =>
       /\ c.workers > 0 /\ c.sync = c.wait /\ (c.first \/ c.late)
       /\ \A b \in Buffers : c.addr[b] + c.sizes[b] <= BufSize[b]

\* The counter when everything up to c has completed.
After(c) == IF IsProgram(c) THEN Plus(c.wait, c.workers) ELSE 0

\* The part of d in buffer b is beside the n bytes from a on.
Beside(a, n, d, b) == a + n <= d.addr[b] \/ d.addr[b] + d.sizes[b] <= a

\* Command d comes directly after c.
Follows(c, d) ==
  /\ d.wait = After(c)
  /\ IsProgram(c) /\ IsProgram(d) /\ ~d.first =>
       \A b \in Buffers \ {Launch} : Beside(c.addr[b], c.sizes[b], d, b)

\* The sequence s is a chain of commands that starts at count n and ends at m.
Chain(s, n, m) ==
  /\ s \in Seq(Commands)
  /\ \A i \in 1 .. Len(s) : CmdOK(s[i])
  /\ \A i \in 1 .. Len(s) - 1 : Follows(s[i], s[i + 1])
  /\ s # << >> => s[1].wait = n /\ m = After(s[Len(s)])
  /\ s = << >> => m = n

(***************************************************************************)
(* The table.                                                              *)
(***************************************************************************)
Entry == [addr : [Buffers -> Nat], size : [Buffers -> Nat], sync : Nat]

MgrOK(m) ==
  /\ m \in [entries : [Index -> Entry], alloc : Index, free : Index]
  /\ \A i \in Index : \A b \in Buffers :
       m.entries[i].addr[b] + m.entries[i].size[b] <= BufSize[b]

\* One live entry, free from count n on; the next one begins where it ends.
Live(m, n) ==
  LET e == m.entries[m.free]
  IN  /\ m.alloc = NextIndex(m.free)
      /\ e.sync = n /\ e.addr[Launch] = 0 /\ e.size[Launch] = 1
      /\ \A b \in Buffers : m.entries[m.alloc].addr[b] = e.addr[b] + e.size[b]

\* The live entry has room for the last program of s.
Covers(m, s) ==
  LET e == m.entries[m.free]
      c == s[Len(s)]
  IN  s # << >> /\ IsProgram(c) =>
        \A b \in Buffers \ {Launch} :
          e.addr[b] <= c.addr[b] /\ c.addr[b] + c.sizes[b] <= e.addr[b] + e.size[b]

MgrInv ==
  /\ MgrOK(mgr)
  /\ \/ mgr = NewMgr /\ cached = {} /\ ~bypass
     \/ /\ Live(mgr, IF bypass THEN traceExp ELSE expected)
        /\ Covers(mgr, IF bypass THEN trace ELSE sent)

(***************************************************************************)
(* The device.                                                             *)
(***************************************************************************)
\* The reports still to come.
Pending == left[1] + (IF Len(sent) >= 2 /\ stage[2] = "reset" THEN left[2] ELSE 0)

\* The counter that the commands sent so far lead to.
Target ==
  CASE stage[1] \in {"queued", "config", "rest"} -> sent[1].wait
    [] stage[1] = "reset"                        -> sent[1].sync
    [] OTHER -> IF Len(sent) >= 2 /\ stage[2] = "reset" THEN sent[2].sync ELSE After(sent[1])

DeviceInv ==
  /\ counter \in Counts
  /\ Len(stage) = Len(sent) /\ Len(left) = Len(sent)
  /\ \A i \in 1 .. Len(sent) :
       /\ stage[i] \in {"queued", "config", "rest"} => left[i] = sent[i].workers
       /\ stage[i] \in {"config", "rest", "gone"} => IsProgram(sent[i])
       /\ stage[i] = "reset" => ~IsProgram(sent[i]) /\ sent[i].workers > 0
       /\ left[i] \in 0 .. sent[i].workers
       /\ stage[i] = "gone" => i = 1 /\ left[i] > 0
       /\ i > 1 /\ stage[i] # "queued" =>
            /\ i = 2 /\ stage[1] = "gone" /\ stage[2] \in {"config", "reset"}
            /\ stage[2] = "config" => ~sent[2].first
  /\ sent # << >> =>
       IF stage[1] \in {"gone", "reset"} THEN Plus(counter, Pending) = Target
                                         ELSE counter = Target

\* The count that the first command waits for.
Base == IF sent = << >> THEN counter ELSE sent[1].wait

DispatchInv ==
  /\ stage \in Seq(Stages) /\ left \in Seq(Nat)
  /\ expected \in Counts /\ traceExp \in Counts /\ bypass \in BOOLEAN
  /\ cached \subseteq Programs
  /\ Chain(sent, Base, expected)
  /\ Chain(trace, 0, traceExp) /\ \A i \in 1 .. Len(trace) : IsProgram(trace[i])
  /\ MgrInv /\ DeviceInv
-----------------------------------------------------------------------------
(***************************************************************************)
(* Counting modulo CounterMod.                                             *)
(***************************************************************************)
LEMMA DivMod ==
  \A a \in Nat, p \in Nat \ {0} :
     a = p * (a \div p) + (a % p) /\ a % p \in 0 .. p - 1 /\ a \div p \in Nat
OBVIOUS

\* Between -p and p there is no multiple of p but 0.
LEMMA NoMultiple ==
  ASSUME NEW d \in Int, NEW p \in Nat \ {0}, d * p < p, d * p > -p
  PROVE  d = 0
<1>1. CASE d >= 1
  <2>1. d * p >= p
    BY <1>1
  <2>. QED  BY <2>1
<1>2. CASE d <= -1
  <2>1. d * p <= -p
    BY <1>2
  <2>. QED  BY <2>1
<1>. QED  BY <1>1, <1>2

\* The remainder is determined by the number up to multiples.
LEMMA Remainder ==
  ASSUME NEW a \in Nat, NEW p \in Nat \ {0}, NEW r \in 0 .. p - 1, NEW k \in Int, a = r + k * p
  PROVE  a % p = r
<1>1. a = p * (a \div p) + (a % p) /\ a % p \in 0 .. p - 1 /\ (a \div p) \in Nat
  BY DivMod
<1>2. PICK d \in Int : d = k - (a \div p)
  BY <1>1
<1>3. d * p = (a % p) - r
  BY <1>1, <1>2
<1>4. d = 0
  BY <1>1, <1>3, NoMultiple
<1>. QED  BY <1>1, <1>3, <1>4

\* Adding to a number below p.
LEMMA Sum ==
  ASSUME NEW a \in Nat, NEW b \in Nat, NEW p \in Nat \ {0}, a < p, b < p
  PROVE  (a + b) % p = IF a + b < p THEN a + b ELSE a + b - p
<1>1. CASE a + b < p
  <2>1. a + b = (a + b) + 0 * p
    OBVIOUS
  <2>. QED  BY <1>1, <2>1, Remainder
<1>2. CASE ~(a + b < p)
  <2>1. a + b = (a + b - p) + 1 * p
    OBVIOUS
  <2>2. a + b \in Nat /\ a + b - p \in 0 .. p - 1 /\ 1 \in Int
    BY <1>2
  <2>3. (a + b) % p = a + b - p
    BY <2>1, <2>2, Remainder
  <2>. QED  BY <1>2, <2>3
<1>. QED  BY <1>1, <1>2

\* Counters stay in range.
LEMMA PlusType ==
  ASSUME NEW a \in Nat, NEW b \in Nat
  PROVE  Plus(a, b) \in Counts
BY DivMod, DispatchAssumption DEF Plus, Counts

\* Below the wrap, and across it once.
LEMMA PlusOnce ==
  ASSUME NEW a \in Counts, NEW b \in Counts
  PROVE  Plus(a, b) = IF a + b < CounterMod THEN a + b ELSE a + b - CounterMod
BY Sum, DispatchAssumption DEF Plus, Counts

\* Counts may be added one after the other.
LEMMA PlusPlus ==
  ASSUME NEW a \in Counts, NEW b \in Counts, NEW c \in Counts, b + c < CounterMod
  PROVE  Plus(Plus(a, b), c) = Plus(a, b + c)
<1>1. Plus(a, b) \in Counts /\ b + c \in Counts /\ CounterMod \in Nat
  BY PlusType, DispatchAssumption DEF Counts
<1>. QED  BY <1>1, PlusOnce DEF Counts

\* wrap_ge tells that r reports are missing, if r is at most half the range.
LEMMA StillWaiting ==
  ASSUME NEW a \in Counts, NEW r \in Nat, r > 0, 2 * r <= CounterMod
  PROVE  ~WrapGe(a, Plus(a, r))
<1>1. CounterMod \in Nat \ {0} /\ r \in Counts /\ a \in Nat
  BY DispatchAssumption DEF Counts
<1>2. PICK t \in Counts : t = Plus(a, r)
  BY <1>1, PlusType DEF Counts
<1>3. a + CounterMod - t \in Nat
  BY <1>1, <1>2 DEF Counts
<1>4. (a + CounterMod - t) % CounterMod = CounterMod - r
  <2>1. CounterMod - r \in 0 .. CounterMod - 1
    BY <1>1 DEF Counts
  <2>2. CASE a + r < CounterMod
    <3>1. a + CounterMod - t = (CounterMod - r) + 0 * CounterMod
      BY <1>1, <1>2, <2>2, PlusOnce
    <3>. QED  BY <1>1, <1>3, <2>1, <3>1, Remainder
  <2>3. CASE ~(a + r < CounterMod)
    <3>1. a + CounterMod - t = (CounterMod - r) + 1 * CounterMod
      BY <1>1, <1>2, <2>3, PlusOnce
    <3>. QED  BY <1>1, <1>3, <2>1, <3>1, Remainder
  <2>. QED  BY <2>2, <2>3
<1>5. ~(CounterMod - r < CounterMod \div 2)
  <2>1. CounterMod = 2 * (CounterMod \div 2) + (CounterMod % 2) /\ CounterMod \div 2 \in Nat
        /\ CounterMod % 2 = 0
    BY <1>1, DispatchAssumption, DivMod
  <2>. QED  BY <1>1, <2>1
<1>. QED  BY <1>2, <1>4, <1>5 DEF WrapGe


-----------------------------------------------------------------------------
(***************************************************************************)
(* The manager.                                                            *)
(***************************************************************************)
LEMMA MinZero ==
  ASSUME NEW S \in SUBSET Nat, 0 \in S
  PROVE  Min(S) = 0
<1>1. \E x \in S : \A y \in S : x =< y
  OBVIOUS
<1>2. Min(S) \in S /\ \A y \in S : Min(S) =< y
  BY <1>1 DEF Min
<1>3. Min(S) \in Nat /\ Min(S) =< 0
  BY <1>2
<1>. QED  BY <1>3

LEMMA MaxSingle ==
  ASSUME NEW S, NEW n \in Nat, S \subseteq {n}, S # {}
  PROVE  Max(S) = n
<1>1. \E x \in S : \A y \in S : x >= y
  <2>1. S = {n}
    OBVIOUS
  <2>. QED  BY <2>1
<1>2. Max(S) \in S
  BY <1>1 DEF Max
<1>. QED  BY <1>2

LEMMA IndexFacts ==
  /\ Entries \in Nat /\ Entries >= 2
  /\ \A i \in Index : /\ NextIndex(i) \in Index /\ NextIndex(i) # i
                      /\ Ahead(i, 0) = i /\ Ahead(i, 1) = NextIndex(i)
<1>1. Entries \in Nat /\ Entries >= 2
  BY MgrAssumption
<1>2. ASSUME NEW i \in Index
      PROVE  /\ NextIndex(i) \in Index /\ NextIndex(i) # i
             /\ Ahead(i, 0) = i /\ Ahead(i, 1) = NextIndex(i)
  <2>1. i \in Nat /\ i < Entries
    BY <1>1 DEF Index
  <2>2. NextIndex(i) \in Index /\ NextIndex(i) # i
    BY <1>1, <2>1 DEF NextIndex, Index
  <2>3. Ahead(i, 0) = i
    BY <1>1, <2>1, Sum DEF Ahead
  <2>4. Ahead(i, 1) = NextIndex(i)
    BY <1>1, <2>1, Sum DEF Ahead, NextIndex
  <2>. QED  BY <2>2, <2>3, <2>4
<1>. QED  BY <1>1, <1>2

\* If the first round of the loop of reserve does not retry, it is the last.
LEMMA FirstRound ==
  ASSUME NEW m, NEW b, NEW size, m.free \in Index, ~FitFor(m, b, size, m.free).retry
  PROVE  Fitted(m, b, size) = FitFor(m, b, size, m.free)
<1> DEFINE S == {j \in Index : ~Fit(m, b, size, Ahead(m.free, j)).retry}
<1>1. 0 \in Index /\ Index \subseteq Nat
  BY IndexFacts DEF Index
<1>2. Ahead(m.free, 0) = m.free
  BY IndexFacts
<1>3. 0 \in S /\ S \in SUBSET Nat
  BY <1>1, <1>2 DEF Fit
<1>4. Min(S) = 0
  BY <1>3, MinZero
<1>. QED  BY <1>2, <1>4 DEF Fitted, Fit

\* With one live entry the loop of reserve ends in its first round: the space
\* is beside that entry, or the wait is for it.
LEMMA LiveFit ==
  ASSUME NEW m, NEW n, MgrOK(m), Live(m, n), NEW b \in Buffers, NEW size \in Nat,
         size > 0, size <= BufSize[b]
  PROVE  LET f == Fitted(m, b, size)
             e == m.entries[m.free]
         IN  /\ f.addr \in Nat /\ f.addr + size <= BufSize[b] /\ f.need \in BOOLEAN
             /\ f.sync = n
             /\ ~f.need => e.addr[b] + e.size[b] <= f.addr \/ f.addr + size <= e.addr[b]
             /\ b = Launch => f.need
<1> DEFINE f == FitFor(m, b, size, m.free)
           a == m.entries[m.free].addr[b]
           s == m.entries[m.free].size[b]
           here == m.entries[m.alloc].addr[b]
<1>1. /\ m.free \in Index /\ m.alloc = NextIndex(m.free) /\ m.entries[m.free].sync = n
      /\ a \in Nat /\ s \in Nat /\ here = a + s /\ a + s <= BufSize[b]
      /\ b = Launch => a = 0 /\ s = 1
  BY DEF MgrOK, Live, Entry
<1>2. BufSize[b] \in Nat /\ (b = Launch => BufSize[b] = 1)
  BY MgrAssumption, DispatchAssumption
<1> DEFINE addr == IF here + size > BufSize[b] THEN 0 ELSE here
           end == IF here + size > BufSize[b] THEN a ELSE BufSize[b]
<1>f. f = IF addr + size <= end
            THEN [addr |-> addr, sync |-> n, retry |-> FALSE, need |-> NextIndex(m.alloc) = m.free]
            ELSE [addr |-> 0, sync |-> n, need |-> TRUE, retry |-> FALSE]
  <2>1. here >= a + s
    BY <1>1
  <2>2. NextIndex(m.free) = m.alloc
    BY <1>1
  <2>. QED  BY <1>1, <1>2, <2>1, <2>2 DEF FitFor
<1>g. PICK tight \in BOOLEAN : tight = (NextIndex(m.alloc) = m.free)
  OBVIOUS
<1> HIDE DEF f
<1>3. /\ f.sync = n /\ f.retry = FALSE
      /\ f.addr = IF addr + size <= end THEN addr ELSE 0
      /\ f.need = IF addr + size <= end THEN tight ELSE TRUE
  <2>1. CASE addr + size <= end
    <3>1. f = [addr |-> addr, sync |-> n, retry |-> FALSE, need |-> tight]
      BY <1>f, <1>g, <2>1
    <3>. QED  BY <2>1, <3>1
  <2>2. CASE ~(addr + size <= end)
    <3>1. f = [addr |-> 0, sync |-> n, need |-> TRUE, retry |-> FALSE]
      BY <1>f, <2>2
    <3>. QED  BY <2>2, <3>1
  <2>. QED  BY <2>1, <2>2
<1>4. Fitted(m, b, size) = f
  BY <1>1, <1>3, FirstRound DEF f
<1>5. f.need \in BOOLEAN
  BY <1>3
<1>6. /\ f.addr \in Nat /\ f.addr + size <= BufSize[b]
      /\ addr + size <= end => a + s <= f.addr \/ f.addr + size <= a
  <2>0. a \in Nat /\ s \in Nat /\ here = a + s /\ a + s <= BufSize[b] /\ BufSize[b] \in Nat
    BY <1>1, <1>2
  <2>f. f.addr = IF addr + size <= end THEN addr ELSE 0
    BY <1>3
  <2>1. CASE here + size > BufSize[b]
    <3>1. addr = 0 /\ end = a
      BY <2>1
    <3>. QED  BY <2>0, <2>f, <3>1
  <2>2. CASE ~(here + size > BufSize[b])
    <3>1. addr = here /\ end = BufSize[b]
      BY <2>2
    <3>. QED  BY <2>0, <2>2, <2>f, <3>1
  <2>. QED  BY <2>1, <2>2
<1>7. b = Launch => ~(addr + size <= end)
  BY <1>1, <1>2
<1>. QED  BY <1>3, <1>4, <1>5, <1>6, <1>7

\* What reserve answers with one live entry.
LEMMA LiveReserve ==
  ASSUME NEW m, NEW n \in Nat, MgrOK(m), Live(m, n), NEW sizes \in [Buffers -> Nat],
         \A b \in Buffers : sizes[b] <= BufSize[b]
  PROVE  LET r == Reserve(m, sizes)
             e == m.entries[m.free]
         IN  /\ r.addr \in [Buffers -> Nat] /\ r.need \in BOOLEAN
             /\ \A b \in Buffers : r.addr[b] + sizes[b] <= BufSize[b]
             /\ r.need => r.sync = n
             /\ sizes[Launch] > 0 => r.need
             /\ ~r.need => \A b \in Buffers : \/ e.addr[b] + e.size[b] <= r.addr[b]
                                              \/ r.addr[b] + sizes[b] <= e.addr[b]
<1> DEFINE e == m.entries[m.free]
           fits == Fits(m, sizes)
           r == Reserve(m, sizes)
<1>1. /\ DOMAIN fits = {c \in Buffers : sizes[c] > 0}
      /\ \A b \in DOMAIN fits : fits[b] = Fitted(m, b, sizes[b])
  BY DEF Fits
<1> HIDE DEF fits
<1>2. \A b \in DOMAIN fits :
        /\ b \in Buffers
        /\ fits[b].addr \in Nat /\ fits[b].addr + sizes[b] <= BufSize[b]
        /\ fits[b].need \in BOOLEAN /\ fits[b].sync = n
        /\ ~fits[b].need => \/ e.addr[b] + e.size[b] <= fits[b].addr
                            \/ fits[b].addr + sizes[b] <= e.addr[b]
        /\ b = Launch => fits[b].need
  BY <1>1, LiveFit
<1>3. Syncs(fits) \subseteq {n} /\ (Syncs(fits) # {} <=> \E b \in DOMAIN fits : fits[b].need)
  BY <1>2 DEF Syncs
<1>4. /\ r.addr = Places(m, fits) /\ r.need = (Syncs(fits) # {})
      /\ Syncs(fits) # {} => r.sync = Max(Syncs(fits))
  BY DEF Reserve, fits
<1> HIDE DEF r
<1>5. \A b \in Buffers : r.addr[b] = IF b \in DOMAIN fits THEN fits[b].addr
                                                          ELSE m.entries[m.alloc].addr[b]
  BY <1>4 DEF Places
<1>6. \A b \in Buffers : /\ m.entries[m.alloc].addr[b] = e.addr[b] + e.size[b]
                         /\ e.addr[b] \in Nat /\ e.size[b] \in Nat
                         /\ e.addr[b] + e.size[b] <= BufSize[b]
  BY DEF Live, MgrOK, Entry
<1>7. \A b \in Buffers : b \notin DOMAIN fits => sizes[b] = 0
  BY <1>1
<1>8. ASSUME NEW b \in Buffers
      PROVE  r.addr[b] \in Nat /\ r.addr[b] + sizes[b] <= BufSize[b]
  <2>1. CASE b \in DOMAIN fits
    BY <1>2, <1>5, <2>1
  <2>2. CASE b \notin DOMAIN fits
    BY <1>5, <1>6, <1>7, <2>2
  <2>. QED  BY <2>1, <2>2
<1>9. r.addr \in [Buffers -> Nat]
  BY <1>4, <1>8 DEF Places
<1>10. r.need => r.sync = n
  BY <1>3, <1>4, MaxSingle
<1>11. sizes[Launch] > 0 => r.need
  <2>1. Launch \in Buffers
    BY DispatchAssumption
  <2>. QED  BY <1>1, <1>2, <1>3, <1>4, <2>1
<1>12. ASSUME ~r.need, NEW b \in Buffers
       PROVE  e.addr[b] + e.size[b] <= r.addr[b] \/ r.addr[b] + sizes[b] <= e.addr[b]
  <2>1. CASE b \in DOMAIN fits
    BY <1>2, <1>3, <1>4, <1>5, <1>12, <2>1
  <2>2. CASE b \notin DOMAIN fits
    BY <1>5, <1>6, <1>7, <2>2
  <2>. QED  BY <2>1, <2>2
<1>. QED  BY <1>4, <1>8, <1>9, <1>10, <1>11, <1>12 DEF r


\* In a manager that was never used everything fits at the start.
LEMMA NewReserve ==
  ASSUME NEW sizes \in [Buffers -> Nat], \A b \in Buffers : sizes[b] <= BufSize[b]
  PROVE  LET r == Reserve(NewMgr, sizes)
         IN  /\ r.addr \in [Buffers -> Nat]
             /\ \A b \in Buffers : r.addr[b] + sizes[b] <= BufSize[b]
<1> DEFINE fits == Fits(NewMgr, sizes)
<1>1. /\ NewMgr.alloc = 0 /\ NewMgr.free = 0 /\ 0 \in Index
      /\ \A b \in Buffers : NewMgr.entries[0].addr[b] = 0 /\ NewMgr.entries[0].size[b] = 0
  BY IndexFacts DEF NewMgr, Zero, Index
<1>2. BufSize \in [Buffers -> Nat]
  BY MgrAssumption
<1>3. ASSUME NEW b \in Buffers PROVE Fitted(NewMgr, b, sizes[b]).addr = 0
  <2> DEFINE f == FitFor(NewMgr, b, sizes[b], NewMgr.free)
  <2>a. 0 >= 0 + 0 /\ ~(0 + sizes[b] > BufSize[b]) /\ 0 + sizes[b] <= BufSize[b]
    BY <1>2
  <2>1. f = [addr |-> 0, sync |-> NewMgr.entries[0].sync, retry |-> FALSE,
             need |-> NextIndex(NewMgr.alloc) = NewMgr.free]
    BY <1>1, <1>3, <2>a DEF FitFor
  <2> HIDE DEF f
  <2>2. f.addr = 0 /\ ~f.retry
    BY <2>1
  <2>. QED  BY <1>1, <2>2, FirstRound DEF f
<1>4. /\ DOMAIN fits = {c \in Buffers : sizes[c] > 0}
      /\ \A b \in DOMAIN fits : fits[b] = Fitted(NewMgr, b, sizes[b])
  BY DEF Fits
<1>5. Reserve(NewMgr, sizes).addr = Places(NewMgr, fits)
  BY DEF Reserve
<1> HIDE DEF fits
<1>6. \A b \in Buffers : Places(NewMgr, fits)[b] = 0
  BY <1>1, <1>3, <1>4 DEF Places
<1>7. Places(NewMgr, fits) \in [Buffers -> Nat]
  BY <1>6 DEF Places
<1>. QED  BY <1>2, <1>5, <1>6, <1>7

\* What alloc does.
LEMMA AllocFacts ==
  ASSUME NEW m, MgrOK(m), NEW addr \in [Buffers -> Nat], NEW sizes \in [Buffers -> Nat],
         NEW n \in Nat, \A b \in Buffers : addr[b] + sizes[b] <= BufSize[b],
         addr[Launch] = 0, sizes[Launch] = 1, m.free = m.alloc
  PROVE  LET k == Alloc(m, addr, sizes, n)
         IN  /\ MgrOK(k) /\ Live(k, n)
             /\ k.entries[k.free].addr = addr /\ k.entries[k.free].size = sizes
<1> DEFINE k == Alloc(m, addr, sizes, n)
           next == NextIndex(m.alloc)
           e == [addr |-> addr, size |-> sizes, sync |-> n]
           d == [addr |-> [b \in Buffers |-> addr[b] + sizes[b]], size |-> Zero,
                 sync |-> DebugSync]
<1>1. m.alloc \in Index /\ next \in Index /\ next # m.alloc /\ m.entries \in [Index -> Entry]
  BY IndexFacts DEF MgrOK
<1>2. e \in Entry /\ d \in Entry
  BY MgrAssumption DEF Entry, Zero
<1>3. k = [m EXCEPT !.entries = [[m.entries EXCEPT ![m.alloc] = e] EXCEPT ![next] = d],
                    !.alloc = next]
  BY <1>1 DEF Alloc, MgrOK
<1> HIDE DEF e, d, k
<1>4. /\ k \in [entries : [Index -> Entry], alloc : Index, free : Index]
      /\ k.alloc = next /\ k.free = m.free
      /\ k.entries[m.alloc] = e /\ k.entries[next] = d
      /\ \A i \in Index : i # m.alloc /\ i # next => k.entries[i] = m.entries[i]
  BY <1>1, <1>2, <1>3 DEF MgrOK
<1>5. /\ e.addr = addr /\ e.size = sizes /\ e.sync = n
      /\ \A b \in Buffers : d.addr[b] = addr[b] + sizes[b] /\ d.size[b] = 0
  BY DEF e, d, Zero
<1>6. MgrOK(k)
  <2>1. ASSUME NEW i \in Index, NEW b \in Buffers
        PROVE  k.entries[i].addr[b] + k.entries[i].size[b] <= BufSize[b]
    <3>1. CASE i = m.alloc
      BY <1>4, <1>5, <3>1
    <3>2. CASE i = next
      BY <1>4, <1>5, <3>2
    <3>3. CASE i # m.alloc /\ i # next
      BY <1>4, <3>3 DEF MgrOK
    <3>. QED  BY <3>1, <3>2, <3>3
  <2>. QED  BY <1>4, <2>1 DEF MgrOK
<1>7. Live(k, n)
  BY <1>4, <1>5 DEF Live
<1>. QED  BY <1>4, <1>5, <1>6, <1>7 DEF k

\* free(n) with one live entry that is free from n on: the table is empty.
LEMMA FreeFacts ==
  ASSUME NEW m, NEW n \in Nat, MgrOK(m), Live(m, n)
  PROVE  MgrOK(Free(m, n)) /\ Free(m, n).free = m.alloc /\ Free(m, n).alloc = m.alloc
<1> DEFINE S == {k \in Index : \/ Ahead(m.free, k) = m.alloc
                               \/ m.entries[Ahead(m.free, k)].sync > n}
<1>1. /\ m.free \in Index /\ m.alloc = NextIndex(m.free) /\ m.entries[m.free].sync = n
      /\ Ahead(m.free, 0) = m.free /\ Ahead(m.free, 1) = m.alloc /\ m.alloc # m.free
  BY IndexFacts DEF MgrOK, Live
<1>2. 1 \in Index /\ Index \subseteq Nat
  BY IndexFacts DEF Index
<1>3. 0 \notin S /\ 1 \in S /\ S \in SUBSET Nat
  <2>1. ~(n > n)
    OBVIOUS
  <2>2. ~(m.entries[Ahead(m.free, 0)].sync > n)
    BY <1>1, <2>1
  <2>. QED  BY <1>1, <1>2, <2>2
<1>4. Min(S) = 1
  <2>1. \A y \in S : 1 =< y
    BY <1>3
  <2>2. \E x \in S : \A y \in S : x =< y
    BY <1>3, <2>1
  <2> HIDE DEF S
  <2>3. Min(S) \in S /\ \A y \in S : Min(S) =< y
    BY <2>2 DEF Min
  <2>4. Min(S) \in Nat /\ Min(S) =< 1 /\ 1 =< Min(S)
    BY <1>3, <2>1, <2>3
  <2>. QED  BY <2>4
<1>5. Free(m, n) = [m EXCEPT !.free = m.alloc]
  BY <1>1, <1>4 DEF Free
<1>. QED  BY <1>5 DEF MgrOK

\* mark_completely_full(n): the live entry is everything.
LEMMA FullFacts ==
  ASSUME NEW m, NEW n \in Nat, MgrOK(m)
  PROVE  LET k == MarkCompletelyFull(m, n)
         IN  /\ MgrOK(k) /\ Live(k, n)
             /\ \A b \in Buffers : /\ k.entries[k.free].addr[b] = 0
                                   /\ k.entries[k.free].size[b] = BufSize[b]
<1> DEFINE k == MarkCompletelyFull(m, n)
           e == [addr |-> Zero, size |-> BufSize, sync |-> n]
           d == [addr |-> BufSize, size |-> Zero, sync |-> DebugSync]
<1>1. 0 \in Index /\ 1 \in Index /\ NextIndex(0) = 1 /\ m.entries \in [Index -> Entry]
  BY IndexFacts DEF MgrOK, Index, NextIndex
<1>2. BufSize \in [Buffers -> Nat] /\ DebugSync \in Nat /\ BufSize[Launch] = 1 /\ Launch \in Buffers
  BY MgrAssumption, DispatchAssumption
<1>3. e \in Entry /\ d \in Entry
  BY <1>2 DEF Entry, Zero
<1>4. k = [entries |-> [[m.entries EXCEPT ![0] = e] EXCEPT ![1] = d], free |-> 0, alloc |-> 1]
  BY <1>1 DEF MarkCompletelyFull
<1> HIDE DEF e, d, k
<1>5. /\ k \in [entries : [Index -> Entry], alloc : Index, free : Index]
      /\ k.alloc = 1 /\ k.free = 0 /\ k.entries[0] = e /\ k.entries[1] = d
      /\ \A i \in Index : i # 0 /\ i # 1 => k.entries[i] = m.entries[i]
  BY <1>1, <1>3, <1>4
<1>6. /\ e.sync = n /\ e.size = BufSize /\ d.addr = BufSize
      /\ \A b \in Buffers : e.addr[b] = 0 /\ d.size[b] = 0
  BY DEF e, d, Zero
<1>7. MgrOK(k)
  <2>1. ASSUME NEW i \in Index, NEW b \in Buffers
        PROVE  k.entries[i].addr[b] + k.entries[i].size[b] <= BufSize[b]
    <3>1. CASE i = 0 \/ i = 1
      BY <1>2, <1>5, <1>6, <3>1
    <3>2. CASE i # 0 /\ i # 1
      BY <1>5, <3>2 DEF MgrOK
    <3>. QED  BY <3>1, <3>2
  <2>. QED  BY <1>5, <2>1 DEF MgrOK
<1>8. Live(k, n)
  BY <1>1, <1>2, <1>5, <1>6 DEF Live
<1>. QED  BY <1>5, <1>6, <1>7, <1>8 DEF k


\* The two states of the manager in which a program is enqueued after count n.
Ready(n) == Live(mgr, n) \/ (mgr = NewMgr /\ cached = {})

\* What the host needs to know of a program and its workers.
LEMMA ProgramFacts ==
  ASSUME NEW p \in Programs
  PROVE  /\ p.sizes \in [Buffers -> Nat] /\ p.sizes[Launch] = 1 /\ p.fixed \in BOOLEAN
         /\ \A b \in Buffers : p.sizes[b] <= BufSize[b]
         /\ p.runs \in SUBSET (Buffers \ {Launch})
         /\ Workers(p.runs) \in Nat \ {0} /\ 4 * Workers(p.runs) <= CounterMod
<1>1. /\ p.sizes \in [Buffers -> Nat] /\ p.sizes[Launch] = 1 /\ p.fixed \in BOOLEAN
      /\ \A b \in Buffers : p.sizes[b] <= BufSize[b]
      /\ p.runs \in SUBSET (Buffers \ {Launch}) /\ Workers(p.runs) > 0
  BY DispatchAssumption
<1>2. Workers(p.runs) \in Nat /\ 4 * Workers(p.runs) <= CounterMod
  BY <1>1, DispatchAssumption
<1>. QED  BY <1>1, <1>2

\* EnqueueProgramCommand::process waits for everything before the program, and
\* what it writes before it waits is beside the live entry.
LEMMA CommandFacts ==
  ASSUME NEW p \in Programs, NEW n \in Counts, MgrOK(mgr), Ready(n)
  PROVE  LET c == Command(p, n)
             e == mgr.entries[mgr.free]
         IN  /\ c \in Commands /\ CmdOK(c) /\ IsProgram(c) /\ c.wait = n
             /\ c.addr[Launch] = 0 /\ c.sizes[Launch] = 1 /\ c.workers = Workers(p.runs)
             /\ ~c.first => /\ Live(mgr, n)
                            /\ \A b \in Buffers \ {Launch} : Beside(e.addr[b], e.size[b], c, b)
<1> DEFINE c == Command(p, n)
           e == mgr.entries[mgr.free]
           r == Reserve(mgr, p.sizes)
           others == [p.sizes EXCEPT ![Launch] = 0]
           q == Reserve(mgr, others)
<1>1. n \in Nat /\ BufSize \in [Buffers -> Nat] /\ Launch \in Buffers /\ BufSize[Launch] = 1
  BY DispatchAssumption, MgrAssumption DEF Counts
<1>2. /\ others \in [Buffers -> Nat] /\ \A b \in Buffers : others[b] <= BufSize[b]
      /\ \A b \in Buffers \ {Launch} : others[b] = p.sizes[b]
  BY <1>1, ProgramFacts
<1>3. /\ c.kind = "program" /\ c.addr = r.addr /\ c.sizes = p.sizes /\ c.fixed = p.fixed
      /\ c.runs = p.runs /\ c.wait = n /\ c.workers = Workers(p.runs)
      /\ c.first = (p \in cached => r.need /\ (p.fixed \/ q.need))
      /\ c.late = ((p.fixed \/ r.need) /\ ~c.first)
      /\ c.sync = IF p \notin cached \/ p.fixed THEN n ELSE r.sync
      /\ c = [kind |-> c.kind, addr |-> c.addr, sizes |-> c.sizes, fixed |-> c.fixed,
              first |-> c.first, late |-> c.late, sync |-> c.sync, wait |-> c.wait,
              runs |-> c.runs, workers |-> c.workers]
  BY DEF Command
<1>4. r.addr \in [Buffers -> Nat] /\ \A b \in Buffers : r.addr[b] + p.sizes[b] <= BufSize[b]
  <2>1. CASE Live(mgr, n)
    BY <1>1, <2>1, ProgramFacts, LiveReserve
  <2>2. CASE mgr = NewMgr
    BY <2>2, ProgramFacts, NewReserve
  <2>. QED  BY <2>1, <2>2 DEF Ready
<1>5. Live(mgr, n) =>
        /\ r.need \in BOOLEAN /\ r.need /\ r.sync = n
        /\ q.need \in BOOLEAN
        /\ ~q.need => \A b \in Buffers : \/ e.addr[b] + e.size[b] <= q.addr[b]
                                         \/ q.addr[b] + others[b] <= e.addr[b]
  <2>1. SUFFICES ASSUME Live(mgr, n)
                 PROVE  /\ r.need \in BOOLEAN /\ r.need /\ r.sync = n
                        /\ q.need \in BOOLEAN
                        /\ ~q.need => \A b \in Buffers : \/ e.addr[b] + e.size[b] <= q.addr[b]
                                                         \/ q.addr[b] + others[b] <= e.addr[b]
    OBVIOUS
  <2>2. r.need \in BOOLEAN /\ (p.sizes[Launch] > 0 => r.need) /\ (r.need => r.sync = n)
    BY <1>1, <2>1, ProgramFacts, LiveReserve
  <2>3. p.sizes[Launch] > 0
    BY ProgramFacts
  <2> HIDE DEF others
  <2>4. /\ q.need \in BOOLEAN
        /\ ~q.need => \A b \in Buffers : \/ e.addr[b] + e.size[b] <= q.addr[b]
                                         \/ q.addr[b] + others[b] <= e.addr[b]
    BY <1>1, <1>2, <2>1, LiveReserve
  <2>. QED  BY <2>2, <2>3, <2>4
<1>6. \A b \in Buffers \ {Launch} : q.addr[b] = r.addr[b]
  <2>1. \A b \in Buffers \ {Launch} :
          Places(mgr, Fits(mgr, others))[b] = Places(mgr, Fits(mgr, p.sizes))[b]
    BY <1>2 DEF Places, Fits
  <2>. QED  BY <2>1 DEF Reserve
<1> HIDE DEF c, r, q, others
<1>7. c.first \in BOOLEAN /\ c.late \in BOOLEAN
  BY <1>3
<1>8. ~c.first => Live(mgr, n) /\ ~q.need
  BY <1>3, <1>5 DEF Ready
<1>9. c.sync = n
  <2>1. CASE p \notin cached \/ p.fixed
    BY <1>3, <2>1
  <2>2. CASE p \in cached /\ ~p.fixed
    BY <1>3, <1>5, <2>2 DEF Ready
  <2>. QED  BY <2>1, <2>2
<1>10. c.first \/ c.late
  BY <1>3, <1>5, <1>8
<1>11. c \in Commands
  BY <1>3, <1>4, <1>7, <1>9, ProgramFacts DEF Commands
<1>12. CmdOK(c) /\ IsProgram(c)
  BY <1>3, <1>4, <1>9, <1>10, ProgramFacts DEF CmdOK, IsProgram
<1>13. c.addr[Launch] = 0 /\ c.sizes[Launch] = 1
  <2>1. r.addr[Launch] \in Nat /\ r.addr[Launch] + p.sizes[Launch] <= 1 /\ p.sizes[Launch] = 1
    BY <1>1, <1>4, ProgramFacts
  <2>. QED  BY <1>3, <2>1
<1>14. ~c.first => \A b \in Buffers \ {Launch} : Beside(e.addr[b], e.size[b], c, b)
  BY <1>2, <1>3, <1>5, <1>6, <1>8 DEF Beside
<1>. QED  BY <1>3, <1>8, <1>11, <1>12, <1>13, <1>14 DEF c

\* ... and leaves one live entry, which is that of the program.
LEMMA ConfigFacts ==
  ASSUME NEW p \in Programs, NEW n \in Counts, MgrOK(mgr), Ready(n)
  PROVE  LET c == Command(p, n)
             k == ConfigAfter(c, n)
         IN  /\ MgrOK(k) /\ Live(k, After(c))
             /\ k.entries[k.free].addr = c.addr /\ k.entries[k.free].size = c.sizes
<1> DEFINE c == Command(p, n)
           k == ConfigAfter(c, n)
           m == IF c.first \/ c.late THEN Free(mgr, c.sync) ELSE mgr
<1>1. /\ c \in Commands /\ CmdOK(c) /\ IsProgram(c) /\ c.wait = n
      /\ c.addr[Launch] = 0 /\ c.sizes[Launch] = 1
  BY CommandFacts
<1>2. n \in Nat /\ c.sync = n /\ (c.first \/ c.late) /\ After(c) = Plus(n, c.workers)
  BY <1>1 DEF CmdOK, Counts, After
<1> HIDE DEF c
<1>3. m = Free(mgr, n)
  BY <1>2
<1>4. MgrOK(m) /\ m.free = m.alloc
  <2>1. CASE Live(mgr, n)
    BY <1>2, <1>3, <2>1, FreeFacts
  <2>2. CASE mgr = NewMgr
    <3> DEFINE S == {i \in Index : \/ Ahead(mgr.free, i) = mgr.alloc
                                   \/ mgr.entries[Ahead(mgr.free, i)].sync > n}
    <3>1. mgr.free = 0 /\ mgr.alloc = 0 /\ 0 \in Index /\ Index \subseteq Nat
      BY <2>2, IndexFacts DEF NewMgr, Index
    <3>2. 0 \in S /\ S \in SUBSET Nat
      BY <3>1, IndexFacts
    <3>3. Min(S) = 0
      BY <3>2, MinZero
    <3>4. Ahead(mgr.free, Min(S)) = 0
      BY <3>1, <3>3, IndexFacts
    <3>5. m = [mgr EXCEPT !.free = 0]
      BY <1>3, <3>4 DEF Free
    <3>. QED  BY <3>1, <3>5 DEF MgrOK
  <2>. QED  BY <2>1, <2>2 DEF Ready
<1>5. /\ c.addr \in [Buffers -> Nat] /\ c.sizes \in [Buffers -> Nat] /\ c.workers \in Nat
      /\ \A b \in Buffers : c.addr[b] + c.sizes[b] <= BufSize[b]
  BY <1>1 DEF Commands, CmdOK, IsProgram
<1>6. k = Alloc(m, c.addr, c.sizes, Plus(n, c.workers))
  BY DEF ConfigAfter
<1>7. Plus(n, c.workers) \in Nat
  BY <1>2, <1>5, PlusType DEF Counts
<1> HIDE DEF m, k
<1>8. /\ MgrOK(k) /\ Live(k, Plus(n, c.workers))
      /\ k.entries[k.free].addr = c.addr /\ k.entries[k.free].size = c.sizes
  BY <1>1, <1>4, <1>5, <1>6, <1>7, AllocFacts
<1>. QED  BY <1>2, <1>8 DEF c, k


-----------------------------------------------------------------------------
(***************************************************************************)
(* Chains.                                                                 *)
(***************************************************************************)
LEMMA ChainOne ==
  ASSUME NEW c \in Commands, CmdOK(c)
  PROVE  Chain(<<c>>, c.wait, After(c))
BY DEF Chain

\* Two chains that meet are one.
LEMMA ChainConcat ==
  ASSUME NEW s, NEW t, NEW n, NEW m, NEW k, Chain(s, n, m), Chain(t, m, k),
         s # << >> /\ t # << >> => Follows(s[Len(s)], t[1])
  PROVE  Chain(s \o t, n, k)
<1>1. /\ s \in Seq(Commands) /\ t \in Seq(Commands) /\ s \o t \in Seq(Commands)
      /\ Len(s) \in Nat /\ Len(t) \in Nat /\ Len(s \o t) = Len(s) + Len(t)
  BY DEF Chain
<1>2. /\ \A i \in 1 .. Len(s) : (s \o t)[i] = s[i]
      /\ \A i \in Len(s) + 1 .. Len(s) + Len(t) : (s \o t)[i] = t[i - Len(s)]
  BY <1>1
<1>3. ASSUME NEW i \in 1 .. Len(s) + Len(t) PROVE CmdOK((s \o t)[i])
  <2>1. CASE i <= Len(s)
    BY <1>1, <1>2, <2>1 DEF Chain
  <2>2. CASE i > Len(s)
    <3>1. i - Len(s) \in 1 .. Len(t) /\ i \in Len(s) + 1 .. Len(s) + Len(t)
      BY <1>1, <2>2
    <3>. QED  BY <1>2, <3>1 DEF Chain
  <2>. QED  BY <1>1, <2>1, <2>2
<1>4. ASSUME NEW i \in 1 .. Len(s) + Len(t) - 1 PROVE Follows((s \o t)[i], (s \o t)[i + 1])
  <2>1. CASE i < Len(s)
    <3>1. i \in 1 .. Len(s) - 1 /\ i \in 1 .. Len(s) /\ i + 1 \in 1 .. Len(s)
      BY <1>1, <2>1
    <3>. QED  BY <1>2, <3>1 DEF Chain
  <2>2. CASE i = Len(s)
    <3>1. /\ i \in 1 .. Len(s) /\ i + 1 \in Len(s) + 1 .. Len(s) + Len(t)
          /\ i + 1 - Len(s) = 1 /\ s # << >> /\ t # << >>
      BY <1>1, <2>2
    <3>2. (s \o t)[i] = s[Len(s)] /\ (s \o t)[i + 1] = t[1]
      BY <1>2, <2>2, <3>1
    <3>. QED  BY <3>1, <3>2
  <2>3. CASE i > Len(s)
    <3>1. PICK j \in Nat : j = i - Len(s)
      BY <1>1, <2>3
    <3>2. /\ j \in 1 .. Len(t) - 1 /\ i \in Len(s) + 1 .. Len(s) + Len(t)
          /\ i + 1 \in Len(s) + 1 .. Len(s) + Len(t) /\ (i + 1) - Len(s) = j + 1
      BY <1>1, <2>3, <3>1
    <3>3. (s \o t)[i] = t[j] /\ (s \o t)[i + 1] = t[j + 1]
      BY <1>2, <3>1, <3>2
    <3>. QED  BY <3>2, <3>3 DEF Chain
  <2>. QED  BY <1>1, <2>1, <2>2, <2>3
<1>5. s = << >> => Chain(s \o t, n, k)
  BY <1>1 DEF Chain
<1>6. t = << >> => Chain(s \o t, n, k)
  BY <1>1 DEF Chain
<1>7. ASSUME s # << >>, t # << >> PROVE Chain(s \o t, n, k)
  <2>1. /\ 1 \in 1 .. Len(s) /\ Len(s) + Len(t) \in Len(s) + 1 .. Len(s) + Len(t)
        /\ (Len(s) + Len(t)) - Len(s) = Len(t) /\ s \o t # << >>
    BY <1>1, <1>7
  <2>2. (s \o t)[1] = s[1] /\ (s \o t)[Len(s \o t)] = t[Len(t)]
    BY <1>1, <1>2, <2>1
  <2>. QED  BY <1>1, <1>3, <1>4, <1>7, <2>1, <2>2 DEF Chain
<1>. QED  BY <1>5, <1>6, <1>7

\* Retiring the first command leaves a chain that starts after it.
LEMMA ChainTail ==
  ASSUME NEW s, NEW n, NEW m, Chain(s, n, m), s # << >>
  PROVE  Chain(Tail(s), After(s[1]), m)
<1>1. /\ s \in Seq(Commands) /\ Len(s) \in Nat \ {0} /\ Tail(s) \in Seq(Commands)
      /\ Len(Tail(s)) = Len(s) - 1
      /\ \A i \in 1 .. Len(s) - 1 : Tail(s)[i] = s[i + 1]
  BY DEF Chain
<1>2. ASSUME NEW i \in 1 .. Len(s) - 1 PROVE CmdOK(Tail(s)[i])
  <2>1. i + 1 \in 1 .. Len(s)
    BY <1>1
  <2>. QED  BY <1>1, <2>1 DEF Chain
<1>3. ASSUME NEW i \in 1 .. (Len(s) - 1) - 1 PROVE Follows(Tail(s)[i], Tail(s)[i + 1])
  <2>1. i + 1 \in 1 .. Len(s) - 1 /\ i \in 1 .. Len(s) - 1
    BY <1>1
  <2>2. Follows(s[i + 1], s[(i + 1) + 1])
    BY <2>1 DEF Chain
  <2>. QED  BY <1>1, <2>1, <2>2
<1>4. CASE Len(s) = 1
  <2>1. Tail(s) = << >>
    <3>0. Tail(s) \in Seq(Commands) /\ Len(Tail(s)) = 0
      BY <1>1, <1>4
    <3>1. PICK t \in Seq(Commands) : t = Tail(s) /\ Len(t) = 0
      BY <3>0, Zenon
    <3>2. t = << >>
      BY <3>1, EmptySeq
    <3>. QED  BY <3>1, <3>2
  <2>2. m = After(s[1])
    BY <1>4 DEF Chain
  <2>. QED  BY <1>1, <1>2, <1>3, <2>1, <2>2 DEF Chain
<1>5. CASE Len(s) > 1
  <2>1. 1 \in 1 .. Len(s) - 1 /\ Len(s) - 1 \in 1 .. Len(s) - 1
    BY <1>1, <1>5
  <2>a. Tail(s) # << >>
    <3>1. Len(Tail(s)) # 0
      BY <1>1, <1>5
    <3>2. Len(<< >>) = 0
      OBVIOUS
    <3>. QED  BY <3>1, <3>2
  <2>2. Tail(s)[1] = s[1 + 1] /\ Tail(s)[Len(Tail(s))] = s[Len(s)]
    BY <1>1, <2>1
  <2>3. s[1 + 1].wait = After(s[1])
    BY <2>1 DEF Chain, Follows
  <2>4. m = After(s[Len(s)])
    BY DEF Chain
  <2>. QED  BY <1>1, <1>2, <1>3, <2>a, <2>2, <2>3, <2>4 DEF Chain
<1>. QED  BY <1>1, <1>4, <1>5

\* Where a chain ends is a count.
LEMMA AfterType ==
  ASSUME NEW c \in Commands
  PROVE  After(c) \in Counts
<1>1. c.wait \in Nat /\ c.workers \in Nat /\ CounterMod \in Nat \ {0}
  BY DispatchAssumption DEF Commands, Counts
<1>2. 0 \in Counts
  BY <1>1 DEF Counts
<1>3. Plus(c.wait, c.workers) \in Counts
  BY <1>1, PlusType
<1>. QED  BY <1>2, <1>3 DEF After


-----------------------------------------------------------------------------
(***************************************************************************)
(* The host's steps.                                                       *)
(***************************************************************************)
LEMMA ConcatFacts ==
  ASSUME NEW S, NEW s \in Seq(S), NEW t \in Seq(S)
  PROVE  /\ s \o t \in Seq(S) /\ Len(s \o t) = Len(s) + Len(t)
         /\ \A i \in 1 .. Len(s) : (s \o t)[i] = s[i]
         /\ \A i \in Len(s) + 1 .. Len(s) + Len(t) : (s \o t)[i] = t[i - Len(s)]
OBVIOUS

LEMMA Basics ==
  ASSUME DispatchInv
  PROVE  /\ CounterMod \in Nat \ {0} /\ Counts \subseteq Nat /\ 0 \in Counts
         /\ sent \in Seq(Commands) /\ trace \in Seq(Commands) /\ stage \in Seq(Stages)
         /\ left \in Seq(Nat) /\ Len(sent) \in Nat
         /\ Len(stage) = Len(sent) /\ Len(left) = Len(sent)
         /\ \A i \in 1 .. Len(sent) :
              /\ sent[i] \in Commands /\ CmdOK(sent[i]) /\ stage[i] \in Stages
              /\ left[i] \in Nat /\ sent[i].workers \in Nat /\ 4 * sent[i].workers <= CounterMod
              /\ sent[i].wait \in Counts /\ sent[i].sync \in Counts
<1>1. CounterMod \in Nat \ {0}
  BY DispatchAssumption
<1>2. Counts \subseteq Nat /\ 0 \in Counts
  BY <1>1 DEF Counts
<1>3. /\ sent \in Seq(Commands) /\ trace \in Seq(Commands) /\ stage \in Seq(Stages)
      /\ left \in Seq(Nat) /\ Len(stage) = Len(sent) /\ Len(left) = Len(sent)
      /\ \A i \in 1 .. Len(sent) : CmdOK(sent[i])
  BY DEF DispatchInv, DeviceInv, Chain
<1>4. Len(sent) \in Nat
  BY <1>3
<1>5. ASSUME NEW i \in 1 .. Len(sent)
      PROVE  /\ sent[i] \in Commands /\ CmdOK(sent[i]) /\ stage[i] \in Stages
             /\ left[i] \in Nat /\ sent[i].workers \in Nat
             /\ 4 * sent[i].workers <= CounterMod
             /\ sent[i].wait \in Counts /\ sent[i].sync \in Counts
  <2>1. sent[i] \in Commands /\ CmdOK(sent[i]) /\ stage[i] \in Stages /\ left[i] \in Nat
    BY <1>3
  <2>2. sent[i].workers \in Nat /\ sent[i].wait \in Counts /\ sent[i].sync \in Counts
    BY <2>1 DEF Commands
  <2>. QED  BY <2>1, <2>2 DEF CmdOK
<1>. QED  BY <1>1, <1>2, <1>3, <1>4, <1>5

\* The constructor of the queue.
LEMMA InitLemma == Init => DispatchInv
<1> SUFFICES ASSUME Init PROVE DispatchInv
  OBVIOUS
<1>1. CounterMod \in Nat \ {0} /\ 0 \in Counts
  BY DispatchAssumption DEF Counts
<1>2. Chain(sent, Base, expected) /\ Chain(trace, 0, traceExp) /\ Len(trace) = 0
  BY DEF Init, Chain, Base
<1>3. MgrOK(NewMgr)
  <2>1. NewMgr \in [entries : [Index -> Entry], alloc : Index, free : Index]
    BY IndexFacts DEF NewMgr, Zero, Index, Entry
  <2>2. \A b \in Buffers : BufSize[b] \in Nat
    BY MgrAssumption
  <2>. QED  BY <2>1, <2>2 DEF MgrOK, NewMgr, Zero
<1>4. MgrInv
  BY <1>3 DEF Init, MgrInv
<1>5. DeviceInv
  BY <1>1 DEF Init, DeviceInv
<1>6. stage \in Seq(Stages) /\ left \in Seq(Nat) /\ expected \in Counts /\ traceExp \in Counts
  BY <1>1 DEF Init
<1>7. bypass \in BOOLEAN /\ cached \subseteq Programs
  BY DEF Init
<1>8. \A i \in 1 .. Len(trace) : IsProgram(trace[i])
  BY <1>2
<1>. QED  BY <1>2, <1>4, <1>5, <1>6, <1>7, <1>8 DEF DispatchInv

\* A chain of commands that continues the stream may be submitted.
LEMMA SubmitStep ==
  ASSUME DispatchInv, NEW cmds, NEW k, cmds # << >>, Chain(cmds, expected, k),
         sent # << >> => Follows(sent[Len(sent)], cmds[1]),
         Submit(cmds), counter' = counter
  PROVE  /\ stage' \in Seq(Stages) /\ left' \in Seq(Nat)
         /\ Chain(sent', Base', k) /\ DeviceInv'
         /\ sent' # << >> /\ sent'[Len(sent')] = cmds[Len(cmds)]
<1>0. /\ sent \in Seq(Commands) /\ stage \in Seq(Stages) /\ left \in Seq(Nat)
      /\ Len(sent) \in Nat /\ Len(stage) = Len(sent) /\ Len(left) = Len(sent)
  BY Basics
<1>1. /\ cmds \in Seq(Commands) /\ Len(cmds) \in Nat \ {0} /\ 1 \in 1 .. Len(cmds)
      /\ \A j \in 1 .. Len(cmds) : cmds[j] \in Commands /\ cmds[j].workers \in Nat
      /\ cmds[1].wait = expected
  <2>1. cmds \in Seq(Commands)
    BY <1>0 DEF Chain
  <2>2. \A j \in 1 .. Len(cmds) : cmds[j] \in Commands
    BY <1>0, <2>1
  <2>3. Len(cmds) \in Nat \ {0}
    BY <1>0, <2>1
  <2>. QED  BY <1>0, <2>1, <2>2, <2>3 DEF Commands, Chain
<1>2. PICK q \in Seq(Stages), w \in Seq(Nat) :
        /\ Len(q) = Len(cmds) /\ Len(w) = Len(cmds)
        /\ \A j \in 1 .. Len(cmds) : q[j] = "queued" /\ w[j] = cmds[j].workers
        /\ stage' = stage \o q /\ left' = left \o w
  <2> DEFINE q == [j \in 1 .. Len(cmds) |-> "queued"]
             w == [j \in 1 .. Len(cmds) |-> cmds[j].workers]
  <2>1. q \in Seq(Stages) /\ Len(q) = Len(cmds)
    BY <1>0, <1>1 DEF Stages
  <2>2. w \in Seq(Nat) /\ Len(w) = Len(cmds)
    BY <1>0, <1>1
  <2>. QED  BY <1>0, <2>1, <2>2 DEF Submit
<1>3. sent' = sent \o cmds /\ sent' \in Seq(Commands) /\ Len(sent') = Len(sent) + Len(cmds)
  BY <1>0, <1>1 DEF Submit
<1>a. /\ stage' \in Seq(Stages) /\ Len(stage') = Len(stage) + Len(q)
      /\ \A i \in Len(stage) + 1 .. Len(stage) + Len(q) : stage'[i] = q[i - Len(stage)]
  <2>1. stage \in Seq(Stages) /\ q \in Seq(Stages) /\ stage' = stage \o q
    BY <1>0, <1>2
  <2>2. /\ stage \o q \in Seq(Stages) /\ Len(stage \o q) = Len(stage) + Len(q)
        /\ \A i \in Len(stage) + 1 .. Len(stage) + Len(q) : (stage \o q)[i] = q[i - Len(stage)]
    BY <2>1, ConcatFacts, Zenon
  <2>. QED  BY <2>1, <2>2, Zenon
<1>b. /\ left' \in Seq(Nat) /\ Len(left') = Len(left) + Len(w)
      /\ \A i \in Len(left) + 1 .. Len(left) + Len(w) : left'[i] = w[i - Len(left)]
  <2>1. left \in Seq(Nat) /\ w \in Seq(Nat) /\ left' = left \o w
    BY <1>0, <1>2
  <2>2. /\ left \o w \in Seq(Nat) /\ Len(left \o w) = Len(left) + Len(w)
        /\ \A i \in Len(left) + 1 .. Len(left) + Len(w) : (left \o w)[i] = w[i - Len(left)]
    BY <2>1, ConcatFacts, Zenon
  <2>. QED  BY <2>1, <2>2, Zenon
<1>4. /\ stage' \in Seq(Stages) /\ left' \in Seq(Nat)
      /\ Len(stage') = Len(sent') /\ Len(left') = Len(sent')
  BY <1>0, <1>a, <1>b, <1>2, <1>3
<1>5. \A i \in 1 .. Len(sent) : sent'[i] = sent[i] /\ stage'[i] = stage[i] /\ left'[i] = left[i]
  BY <1>0, <1>1, <1>2, <1>3
<1>6. ASSUME NEW i \in Len(sent) + 1 .. Len(sent')
      PROVE  /\ sent'[i] = cmds[i - Len(sent)] /\ stage'[i] = "queued"
             /\ left'[i] = sent'[i].workers /\ sent'[i].workers \in Nat
  <2>1. i - Len(sent) \in 1 .. Len(cmds)
    BY <1>0, <1>1, <1>3
  <2>2. sent'[i] = cmds[i - Len(sent)]
    BY <1>0, <1>1, <1>3, ConcatFacts
  <2>3. stage'[i] = q[i - Len(sent)] /\ left'[i] = w[i - Len(sent)]
    BY <1>0, <1>a, <1>b, <1>2, <1>3
  <2>. QED  BY <1>0, <1>1, <1>2, <2>1, <2>2, <2>3
<1>7. sent' # << >> /\ sent'[Len(sent')] = cmds[Len(cmds)]
  <2>1. Len(sent') \in Len(sent) + 1 .. Len(sent') /\ Len(sent') - Len(sent) = Len(cmds)
        /\ Len(sent') # 0
    BY <1>0, <1>1, <1>3
  <2>. QED  BY <1>0, <1>3, <1>6, <2>1
<1>8. sent = << >> => sent'[1] = cmds[1] /\ stage'[1] = "queued" /\ expected = counter
  <2>1. SUFFICES ASSUME sent = << >>
                 PROVE  sent'[1] = cmds[1] /\ stage'[1] = "queued" /\ expected = counter
    OBVIOUS
  <2>2. Len(sent) = 0 /\ 1 \in Len(sent) + 1 .. Len(sent') /\ 1 - Len(sent) = 1
    BY <1>0, <1>1, <1>3, <2>1
  <2>3. expected = counter
    BY <1>0, <2>1 DEF DispatchInv, Base, Chain
  <2>. QED  BY <1>0, <1>6, <2>2, <2>3
<1>9. Base' = Base
  <2>1. CASE sent = << >>
    BY <1>0, <1>1, <1>7, <1>8, <2>1 DEF Base
  <2>2. CASE sent # << >>
    <3>1. 1 \in 1 .. Len(sent)
      BY <1>0, <2>2
    <3>. QED  BY <1>0, <1>5, <1>7, <2>2, <3>1 DEF Base
  <2>. QED  BY <1>0, <2>1, <2>2
<1>10. Chain(sent', Base', k)
  BY <1>0, <1>3, <1>9, ChainConcat DEF DispatchInv
<1>11. ASSUME NEW i \in 1 .. Len(sent')
       PROVE  /\ stage'[i] \in {"queued", "config", "rest"} => left'[i] = sent'[i].workers
              /\ stage'[i] \in {"config", "rest", "gone"} => IsProgram(sent'[i])
              /\ stage'[i] = "reset" => ~IsProgram(sent'[i]) /\ sent'[i].workers > 0
              /\ left'[i] \in 0 .. sent'[i].workers
              /\ stage'[i] = "gone" => i = 1 /\ left'[i] > 0
              /\ i > 1 /\ stage'[i] # "queued" =>
                   /\ i = 2 /\ stage'[1] = "gone" /\ stage'[2] \in {"config", "reset"}
                   /\ stage'[2] = "config" => ~sent'[2].first
  <2>1. CASE i \in 1 .. Len(sent)
    <3>1. 1 \in 1 .. Len(sent)
      BY <1>0, <2>1
    <3>. QED  BY <1>0, <1>5, <2>1, <3>1 DEF DispatchInv, DeviceInv
  <2>2. CASE i \in Len(sent) + 1 .. Len(sent')
    BY <1>0, <1>6, <2>2
  <2>. QED  BY <1>0, <1>3, <2>1, <2>2
<1>12. IF stage'[1] \in {"gone", "reset"} THEN Plus(counter', Pending') = Target'
                                         ELSE counter' = Target'
  <2>1. CASE sent = << >>
    BY <1>0, <1>1, <1>8, <2>1 DEF Target
  <2>2. CASE sent # << >>
    <3>1. 1 \in 1 .. Len(sent)
      BY <1>0, <2>2
    <3>2. (Len(sent') >= 2 /\ stage'[2] = "reset") <=> (Len(sent) >= 2 /\ stage[2] = "reset")
      <4>1. CASE Len(sent) >= 2
        <5>1. Len(sent') >= 2 /\ 2 \in 1 .. Len(sent)
          BY <1>0, <1>1, <1>3, <4>1
        <5>. QED  BY <1>5, <4>1, <5>1
      <4>2. CASE Len(sent) < 2
        <5>1. Len(sent') >= 2 => 2 \in Len(sent) + 1 .. Len(sent')
          BY <1>0, <1>3, <4>2
        <5>. QED  BY <1>0, <1>6, <4>2, <5>1
      <4>. QED  BY <1>0, <4>1, <4>2
    <3>3. Len(sent) >= 2 => sent'[2] = sent[2] /\ left'[2] = left[2]
      BY <1>0, <1>5
    <3>4. Pending' = Pending /\ Target' = Target
      BY <1>0, <1>5, <3>1, <3>2, <3>3 DEF Pending, Target, After, IsProgram
    <3>. QED  BY <1>0, <1>5, <2>2, <3>1, <3>4 DEF DispatchInv, DeviceInv
  <2>. QED  BY <1>0, <2>1, <2>2
<1>13. DeviceInv'
  BY <1>0, <1>4, <1>11, <1>12 DEF DispatchInv, DeviceInv
<1>. QED  BY <1>0, <1>4, <1>7, <1>10, <1>13

\* What the host's steps leave alone.
LEMMA DeviceFrame ==
  ASSUME DeviceInv, UNCHANGED <<sent, stage, left, counter>>
  PROVE  DeviceInv' /\ Base' = Base
<1>1. Base' = Base
  BY DEF Base
<1>2. Pending' = Pending /\ Target' = Target
  BY DEF Pending, Target, After, IsProgram
<1>. QED  BY <1>1, <1>2 DEF DeviceInv, IsProgram

\* A program that is enqueued continues the stream that the manager stands for.
LEMMA FollowsLast ==
  ASSUME NEW s, NEW n, NEW m \in Counts, Chain(s, n, m), s # << >>, NEW p \in Programs, MgrOK(mgr),
         (mgr = NewMgr /\ cached = {}) \/ (Live(mgr, m) /\ Covers(mgr, s))
  PROVE  Follows(s[Len(s)], Command(p, m))
<1> DEFINE c == Command(p, m)
           l == s[Len(s)]
           e == mgr.entries[mgr.free]
<1>1. s \in Seq(Commands) /\ Len(s) \in 1 .. Len(s) /\ m = After(l) /\ l \in Commands
  <2>1. s \in Seq(Commands) /\ m = After(l)
    BY DEF Chain
  <2>2. Len(s) \in 1 .. Len(s)
    BY <2>1
  <2>. QED  BY <2>1, <2>2
<1>2. /\ c \in Commands /\ c.wait = m /\ IsProgram(c)
      /\ ~c.first => /\ Live(mgr, m)
                     /\ \A b \in Buffers \ {Launch} : Beside(e.addr[b], e.size[b], c, b)
  BY CommandFacts DEF Ready
<1> HIDE DEF c
<1>3. ASSUME ~c.first, IsProgram(l), NEW b \in Buffers \ {Launch}
      PROVE  Beside(l.addr[b], l.sizes[b], c, b)
  <2>1. Live(mgr, m)
    BY <1>2, <1>3
  <2>2. mgr # NewMgr
    <3>1. 0 \in Index
      BY IndexFacts DEF Index
    <3>2. NewMgr.alloc = 0 /\ NewMgr.free = 0
      BY DEF NewMgr
    <3>. QED  BY <2>1, <3>1, <3>2, IndexFacts DEF Live
  <2>3. e.addr[b] <= l.addr[b] /\ l.addr[b] + l.sizes[b] <= e.addr[b] + e.size[b]
    BY <1>3, <2>2 DEF Covers
  <2>4. e.addr[b] \in Nat /\ e.size[b] \in Nat
    BY DEF MgrOK, Entry
  <2>5. l.addr[b] \in Nat /\ l.sizes[b] \in Nat /\ c.addr[b] \in Nat /\ c.sizes[b] \in Nat
    BY <1>1, <1>2, <1>3 DEF Commands, IsProgram
  <2>6. e.addr[b] + e.size[b] <= c.addr[b] \/ c.addr[b] + c.sizes[b] <= e.addr[b]
    BY <1>2, <1>3, <2>1 DEF Beside
  <2> HIDE DEF e, l
  <2>7. l.addr[b] + l.sizes[b] <= c.addr[b] \/ c.addr[b] + c.sizes[b] <= l.addr[b]
    BY <2>3, <2>4, <2>5, <2>6
  <2>. QED  BY <2>7 DEF Beside
<1>. QED  BY <1>1, <1>2, <1>3 DEF Follows, c

\* A full manager covers every program.
LEMMA FullCovers ==
  ASSUME NEW m, NEW n \in Nat, MgrOK(m), NEW s \in Seq(Commands), s # << >> => CmdOK(s[Len(s)])
  PROVE  Covers(MarkCompletelyFull(m, n), s)
<1> DEFINE k == MarkCompletelyFull(m, n)
           e == k.entries[k.free]
           c == s[Len(s)]
<1>1. \A b \in Buffers : e.addr[b] = 0 /\ e.size[b] = BufSize[b] /\ BufSize[b] \in Nat
  BY FullFacts, MgrAssumption
<1>2. ASSUME s # << >>, IsProgram(c), NEW b \in Buffers \ {Launch}
      PROVE  e.addr[b] <= c.addr[b] /\ c.addr[b] + c.sizes[b] <= e.addr[b] + e.size[b]
  <2>1. c \in Commands
    BY <1>2
  <2>2. c.addr[b] \in Nat /\ c.sizes[b] \in Nat /\ c.addr[b] + c.sizes[b] <= BufSize[b]
    BY <1>2, <2>1 DEF Commands, IsProgram, CmdOK
  <2>. QED  BY <1>1, <2>2
<1>. QED  BY <1>2 DEF Covers


\* The live entry of the manager is that of the program just enqueued.
LEMMA ConfigCovers ==
  ASSUME NEW p \in Programs, NEW n \in Counts, MgrOK(mgr), Ready(n), NEW s,
         s[Len(s)] = Command(p, n)
  PROVE  Covers(ConfigAfter(Command(p, n), n), s)
<1> DEFINE c == Command(p, n)
           k == ConfigAfter(c, n)
           e == k.entries[k.free]
<1>1. e.addr = c.addr /\ e.size = c.sizes
  BY ConfigFacts
<1>2. c \in Commands /\ IsProgram(c)
  BY CommandFacts
<1> HIDE DEF c, k
<1>3. \A b \in Buffers : c.addr[b] \in Nat /\ c.sizes[b] \in Nat
  BY <1>2 DEF Commands, IsProgram
<1>4. \A b \in Buffers \ {Launch} :
        e.addr[b] <= c.addr[b] /\ c.addr[b] + c.sizes[b] <= e.addr[b] + e.size[b]
  BY <1>1, <1>3
<1>5. Covers(k, s)
  BY <1>4 DEF Covers, c
<1>. QED  BY <1>5 DEF c, k

LEMMA EnqueueProgramStep ==
  ASSUME DispatchInv, NEW p \in Programs, EnqueueProgram(p)
  PROVE  DispatchInv'
<1> DEFINE n == IF bypass THEN traceExp ELSE expected
           s == IF bypass THEN trace ELSE sent
           c == Command(p, n)
<1>1. /\ n \in Counts /\ MgrOK(mgr) /\ Ready(n)
      /\ (mgr = NewMgr /\ cached = {}) \/ (Live(mgr, n) /\ Covers(mgr, s))
  BY DEF DispatchInv, MgrInv, Ready
<1>2. /\ c \in Commands /\ CmdOK(c) /\ IsProgram(c) /\ c.wait = n
      /\ MgrOK(ConfigAfter(c, n)) /\ Live(ConfigAfter(c, n), After(c))
  BY <1>1, CommandFacts, ConfigFacts
<1>3. /\ mgr' = ConfigAfter(c, n) /\ bypass' = bypass /\ counter' = counter
      /\ cached' \subseteq Programs /\ bypass' \in BOOLEAN
  BY DEF EnqueueProgram, DispatchInv
<1>4. Chain(<<c>>, n, After(c)) /\ After(c) = Plus(n, c.workers) /\ After(c) \in Counts
  BY <1>2, ChainOne, AfterType DEF After
<1>c. s # << >> => Follows(s[Len(s)], c)
  <2>1. CASE bypass
    BY <1>1, <2>1, FollowsLast DEF DispatchInv
  <2>2. CASE ~bypass
    BY <1>1, <2>2, FollowsLast DEF DispatchInv
  <2>. QED  BY <2>1, <2>2
<1>5. CASE bypass
  <2>1. /\ trace' = Append(trace, c) /\ traceExp' = Plus(traceExp, c.workers)
        /\ UNCHANGED <<expected, sent, stage, left>> /\ n = traceExp /\ s = trace
    BY <1>5 DEF EnqueueProgram
  <2> HIDE DEF c, n, s
  <2>2. trace \in Seq(Commands) /\ Chain(trace, 0, traceExp)
    BY DEF DispatchInv, Chain
  <2>3. /\ trace' = trace \o <<c>> /\ Len(trace') = Len(trace) + 1
        /\ trace'[Len(trace')] = c /\ \A i \in 1 .. Len(trace) : trace'[i] = trace[i]
    BY <1>2, <2>1, <2>2
  <2>4. Chain(trace', 0, traceExp')
    BY <1>4, <1>c, <2>1, <2>2, <2>3, ChainConcat
  <2>5. \A i \in 1 .. Len(trace') : IsProgram(trace'[i])
    <3>1. Len(trace) \in Nat
      BY <2>2
    <3>2. \A i \in 1 .. Len(trace') : i = Len(trace') \/ i \in 1 .. Len(trace)
      BY <2>3, <3>1
    <3>. QED  BY <1>2, <2>3, <3>2 DEF DispatchInv
  <2>6. MgrInv'
    <3>1. Live(mgr', traceExp') /\ MgrOK(mgr')
      BY <1>2, <1>3, <1>4, <2>1
    <3>2. Covers(mgr', trace')
      BY <1>1, <1>3, <2>3, ConfigCovers DEF c
    <3>. QED  BY <1>3, <1>5, <3>1, <3>2 DEF MgrInv
  <2>7. DeviceInv' /\ Base' = Base
    BY <1>3, <2>1, DeviceFrame DEF DispatchInv
  <2>8. /\ Chain(sent', Base', expected') /\ stage' \in Seq(Stages) /\ left' \in Seq(Nat)
        /\ expected' \in Counts /\ traceExp' \in Counts
    BY <1>4, <2>1, <2>7 DEF DispatchInv
  <2>. QED  BY <1>3, <2>4, <2>5, <2>6, <2>7, <2>8 DEF DispatchInv
<1>6. CASE ~bypass
  <2>1. /\ Submit(<<c>>) /\ expected' = Plus(expected, c.workers)
        /\ UNCHANGED <<trace, traceExp>> /\ n = expected /\ s = sent
    BY <1>6 DEF EnqueueProgram
  <2> HIDE DEF c, n, s
  <2>2. <<c>> # << >> /\ <<c>>[1] = c /\ <<c>>[Len(<<c>>)] = c
    OBVIOUS
  <2>3. /\ stage' \in Seq(Stages) /\ left' \in Seq(Nat)
        /\ Chain(sent', Base', After(c)) /\ DeviceInv'
        /\ sent' # << >> /\ sent'[Len(sent')] = c
    BY <1>3, <1>4, <1>c, <2>1, <2>2, SubmitStep
  <2>4. MgrInv'
    <3>1. Live(mgr', expected') /\ MgrOK(mgr')
      BY <1>2, <1>3, <1>4, <2>1
    <3>2. Covers(mgr', sent')
      BY <1>1, <1>3, <2>3, ConfigCovers DEF c
    <3>. QED  BY <1>3, <1>6, <3>1, <3>2 DEF MgrInv
  <2>5. /\ Chain(sent', Base', expected') /\ expected' \in Counts /\ traceExp' \in Counts
        /\ Chain(trace', 0, traceExp') /\ \A i \in 1 .. Len(trace') : IsProgram(trace'[i])
    BY <1>4, <2>1, <2>3 DEF DispatchInv
  <2>. QED  BY <1>3, <2>3, <2>4, <2>5 DEF DispatchInv
<1>. QED  BY <1>5, <1>6


\* The wait-and-clear command continues every stream, and starts it again at 0.
LEMMA ClearFacts ==
  ASSUME DispatchInv, NEW types \in SUBSET (Buffers \ {Launch})
  PROVE  LET c == ClearCommand(expected, types)
         IN  /\ c \in Commands /\ CmdOK(c) /\ ~IsProgram(c)
             /\ Chain(<<c>>, expected, 0) /\ After(c) = 0
             /\ sent # << >> => Follows(sent[Len(sent)], c)
<1> DEFINE c == ClearCommand(expected, types)
<1>1. Workers(types) \in Nat /\ 4 * Workers(types) <= CounterMod
  BY DispatchAssumption
<1>2. expected \in Counts /\ expected \in Nat /\ Plus(expected, Workers(types)) \in Counts
  BY <1>1, PlusType, Basics DEF DispatchInv
<1>3. /\ c \in Commands /\ c.kind = "clear" /\ c.wait = expected /\ c.workers = Workers(types)
      /\ c.sync = Plus(expected, Workers(types))
  BY <1>1, <1>2 DEF ClearCommand, Commands
<1> HIDE DEF c
<1>4. ~IsProgram(c) /\ CmdOK(c) /\ After(c) = 0
  BY <1>1, <1>3 DEF IsProgram, CmdOK, After
<1>5. sent # << >> => Follows(sent[Len(sent)], c)
  BY <1>3, <1>4 DEF DispatchInv, Chain, Follows
<1>6. Chain(<<c>>, expected, 0)
  BY <1>3, <1>4, ChainOne
<1>. QED  BY <1>3, <1>4, <1>5, <1>6 DEF c

LEMMA RecordBeginStep ==
  ASSUME DispatchInv, RecordBegin
  PROVE  DispatchInv'
<1> DEFINE c == ClearCommand(expected, {})
<1>1. Chain(<<c>>, expected, 0) /\ (sent # << >> => Follows(sent[Len(sent)], c))
  BY ClearFacts
<1>2. /\ Submit(<<c>>) /\ expected' = 0 /\ traceExp' = 0 /\ trace' = << >> /\ bypass' = TRUE
      /\ mgr' = MarkCompletelyFull(mgr, 0) /\ cached' = cached /\ counter' = counter
  BY DEF RecordBegin
<1> HIDE DEF c
<1>3. <<c>> # << >> /\ <<c>>[1] = c
  OBVIOUS
<1>4. /\ stage' \in Seq(Stages) /\ left' \in Seq(Nat) /\ Chain(sent', Base', 0) /\ DeviceInv'
  BY <1>1, <1>2, <1>3, SubmitStep
<1>5. Chain(trace', 0, traceExp') /\ Len(trace') = 0
  BY <1>2 DEF Chain
<1>6. MgrInv'
  <2>1. MgrOK(mgr') /\ Live(mgr', 0)
    BY <1>2, FullFacts DEF DispatchInv, MgrInv
  <2>2. Covers(mgr', trace')
    BY <1>2 DEF Covers
  <2>. QED  BY <1>2, <2>1, <2>2 DEF MgrInv
<1>7. 0 \in Counts /\ bypass' \in BOOLEAN /\ cached' \subseteq Programs
  BY <1>2, Basics DEF DispatchInv
<1>8. \A i \in 1 .. Len(trace') : IsProgram(trace'[i])
  BY <1>5
<1>9. expected' \in Counts /\ traceExp' \in Counts /\ Chain(sent', Base', expected')
  BY <1>2, <1>4, <1>7
<1>. QED  BY <1>4, <1>5, <1>6, <1>7, <1>8, <1>9 DEF DispatchInv

LEMMA RecordEndStep ==
  ASSUME DispatchInv, RecordEnd
  PROVE  DispatchInv'
<1>1. /\ UNCHANGED <<expected, cached, traceExp, trace, sent, stage, left, counter>>
      /\ bypass' = FALSE /\ mgr' = MarkCompletelyFull(mgr, expected)
  BY DEF RecordEnd
<1>2. DeviceInv' /\ Base' = Base
  BY <1>1, DeviceFrame DEF DispatchInv
<1>3. expected \in Nat /\ sent \in Seq(Commands) /\ (sent # << >> => CmdOK(sent[Len(sent)]))
  <2>1. expected \in Nat /\ sent \in Seq(Commands)
    BY Basics DEF DispatchInv
  <2>2. sent # << >> => Len(sent) \in 1 .. Len(sent)
    BY <2>1
  <2>. QED  BY <2>1, <2>2, Basics
<1>4. MgrOK(mgr') /\ Live(mgr', expected) /\ Covers(mgr', sent)
  BY <1>1, <1>3, FullFacts, FullCovers DEF DispatchInv, MgrInv
<1>5. MgrInv'
  BY <1>1, <1>4 DEF MgrInv
<1>6. bypass' \in BOOLEAN
  BY <1>1
<1>. QED  BY <1>1, <1>2, <1>5, <1>6 DEF DispatchInv

LEMMA EnqueueTraceStep ==
  ASSUME DispatchInv, EnqueueTrace
  PROVE  DispatchInv'
<1> DEFINE used == UNION {trace[i].runs : i \in DOMAIN trace}
           c == ClearCommand(expected, used)
           cmds == <<c>> \o trace
<1>1. /\ Submit(cmds) /\ expected' = traceExp /\ mgr' = MarkCompletelyFull(mgr, traceExp)
      /\ UNCHANGED <<cached, bypass, traceExp, trace, counter>> /\ ~bypass /\ trace # << >>
  BY DEF EnqueueTrace
<1>2. /\ trace \in Seq(Commands) /\ Len(trace) \in Nat \ {0} /\ Chain(trace, 0, traceExp)
      /\ DOMAIN trace = 1 .. Len(trace) /\ traceExp \in Counts /\ traceExp \in Nat
  <2>1. trace \in Seq(Commands) /\ Chain(trace, 0, traceExp) /\ traceExp \in Counts
    BY DEF DispatchInv, Chain
  <2>2. traceExp \in Nat
    BY <2>1, Basics
  <2>. QED  BY <1>1, <2>1, <2>2
<1>3. used \in SUBSET (Buffers \ {Launch})
  <2>1. ASSUME NEW i \in DOMAIN trace PROVE trace[i].runs \in SUBSET (Buffers \ {Launch})
    <3>1. trace[i] \in Commands /\ IsProgram(trace[i])
      BY <1>2, <2>1 DEF DispatchInv
    <3>. QED  BY <3>1 DEF Commands, IsProgram
  <2>. QED  BY <2>1
<1> HIDE DEF used
<1>4. /\ c \in Commands /\ Chain(<<c>>, expected, 0) /\ After(c) = 0 /\ ~IsProgram(c)
      /\ sent # << >> => Follows(sent[Len(sent)], c)
  BY <1>3, ClearFacts
<1> HIDE DEF c
<1>5. Chain(cmds, expected, traceExp)
  <2>1. Follows(c, trace[1])
    BY <1>1, <1>2, <1>4 DEF Follows, Chain
  <2>2. <<c>>[Len(<<c>>)] = c
    OBVIOUS
  <2>. QED  BY <1>2, <1>4, <2>1, <2>2, ChainConcat
<1>6. /\ cmds # << >> /\ cmds[1] = c /\ Len(cmds) = 1 + Len(trace)
      /\ cmds[Len(cmds)] = trace[Len(trace)]
  <2>1. <<c>> \in Seq(Commands) /\ Len(<<c>>) = 1 /\ <<c>>[1] = c
    BY <1>4
  <2>2. Len(cmds) = 1 + Len(trace) /\ cmds \in Seq(Commands)
    BY <1>2, <2>1, ConcatFacts
  <2>3. cmds[1] = c
    BY <1>2, <2>1
  <2>4. cmds[1 + Len(trace)] = trace[Len(trace)]
    BY <1>2, <2>1
  <2>5. cmds # << >>
    BY <1>2, <2>2
  <2>. QED  BY <2>2, <2>3, <2>4, <2>5
<1> HIDE DEF cmds
<1>7. /\ stage' \in Seq(Stages) /\ left' \in Seq(Nat) /\ Chain(sent', Base', traceExp)
      /\ DeviceInv' /\ sent' # << >> /\ sent'[Len(sent')] = trace[Len(trace)]
  BY <1>1, <1>4, <1>5, <1>6, SubmitStep
<1>8. MgrInv'
  <2>1. sent' \in Seq(Commands) /\ CmdOK(sent'[Len(sent')])
    <3>1. Len(trace) \in 1 .. Len(trace)
      BY <1>2
    <3>. QED  BY <1>2, <1>7, <3>1 DEF Chain
  <2>2. MgrOK(mgr') /\ Live(mgr', traceExp) /\ Covers(mgr', sent')
    BY <1>1, <1>2, <2>1, FullFacts, FullCovers DEF DispatchInv, MgrInv
  <2>. QED  BY <1>1, <2>2 DEF MgrInv
<1>. QED  BY <1>1, <1>2, <1>7, <1>8 DEF DispatchInv

LEMMA HostStep ==
  ASSUME DispatchInv, HostNext
  PROVE  DispatchInv'
BY EnqueueProgramStep, RecordBeginStep, RecordEndStep, EnqueueTraceStep DEF HostNext

-----------------------------------------------------------------------------
(***************************************************************************)
(* The device's steps.                                                     *)
(***************************************************************************)
\* Only the first two commands are ever in progress, and the second only while
\* the workers of the first are busy.
LEMMA AtFacts ==
  ASSUME DispatchInv, NEW i, NEW s, At(i, s), s # "gone"
  PROVE  /\ i \in 1 .. Len(sent) /\ stage[i] = s /\ i \in {1, 2}
         /\ i = 2 => stage[1] = "gone" /\ Len(sent) >= 2
<1>1. i \in 1 .. Len(sent) /\ stage[i] = s /\ \A h \in 1 .. i - 1 : stage[h] = "gone"
  BY Basics DEF At
<1>2. i \in Nat /\ Len(sent) \in Nat
  BY <1>1, Basics
<1>3. i <= 2
  <2>1. SUFFICES ASSUME i > 2 PROVE FALSE
    BY <1>2
  <2>2. 2 \in 1 .. i - 1 /\ 2 \in 1 .. Len(sent)
    BY <1>1, <1>2, <2>1
  <2>. QED  BY <1>1, <2>2 DEF DispatchInv, DeviceInv
<1>4. i = 2 => 1 \in 1 .. i - 1
  BY <1>2
<1>. QED  BY <1>1, <1>2, <1>3, <1>4

LEMMA OthersQueued ==
  ASSUME DispatchInv, stage[1] # "gone", NEW j \in 2 .. Len(sent)
  PROVE  stage[j] = "queued"
<1>1. j \in 1 .. Len(sent) /\ j > 1
  BY Basics
<1>. QED  BY <1>1 DEF DispatchInv, DeviceInv

\* The command after a running program cannot pass a wait for it: the counter
\* lacks the reports of at most half its range.
LEMMA Waits ==
  ASSUME DispatchInv, Len(sent) >= 2, stage[1] = "gone"
  PROVE  /\ stage[2] # "reset" => ~WrapGe(counter, sent[2].wait)
         /\ stage[2] = "reset" => ~WrapGe(counter, sent[2].sync)
         /\ sent[2].wait = After(sent[1])
<1>1. 1 \in 1 .. Len(sent) /\ 2 \in 1 .. Len(sent) /\ 1 \in 1 .. Len(sent) - 1 /\ sent # << >>
  BY Basics
<1>2. Follows(sent[1], sent[1 + 1])
  BY <1>1 DEF DispatchInv, Chain
<1>3. sent[2].wait = After(sent[1])
  BY <1>2 DEF Follows
<1>4. /\ left[1] \in Nat /\ left[1] > 0 /\ left[1] <= sent[1].workers
      /\ left[2] \in Nat /\ left[2] <= sent[2].workers
      /\ sent[1].workers \in Nat /\ sent[2].workers \in Nat /\ CounterMod \in Nat
      /\ 4 * sent[1].workers <= CounterMod /\ 4 * sent[2].workers <= CounterMod
  BY <1>1, Basics DEF DispatchInv, DeviceInv
<1>5. counter \in Counts /\ Plus(counter, Pending) = Target
  BY <1>1 DEF DispatchInv, DeviceInv
<1>6. ASSUME stage[2] # "reset" PROVE ~WrapGe(counter, sent[2].wait)
  <2>1. Pending = left[1] /\ Target = After(sent[1])
    BY <1>4, <1>6 DEF Pending, Target
  <2>2. 2 * left[1] <= CounterMod
    BY <1>4
  <2>. QED  BY <1>3, <1>4, <1>5, <2>1, <2>2, StillWaiting
<1>7. ASSUME stage[2] = "reset" PROVE ~WrapGe(counter, sent[2].sync)
  <2>1. Pending = left[1] + left[2] /\ Target = sent[2].sync
    BY <1>7 DEF Pending, Target
  <2>2. PICK r \in Nat : r = left[1] + left[2]
    BY <1>4
  <2>3. r > 0 /\ 2 * r <= CounterMod
    <3>1. 4 * left[1] <= CounterMod /\ 4 * left[2] <= CounterMod
      BY <1>4
    <3>2. left[1] \in Nat /\ left[1] > 0 /\ left[2] \in Nat /\ CounterMod \in Nat
      BY <1>4
    <3>. QED  BY <2>2, <3>1, <3>2
  <2>4. Plus(counter, r) = sent[2].sync
    BY <1>5, <2>1, <2>2
  <2>5. ~WrapGe(counter, Plus(counter, r))
    BY <1>5, <2>3, StillWaiting
  <2>. QED  BY <2>4, <2>5
<1>. QED  BY <1>3, <1>6, <1>7

\* A command without workers asks for no reports.
LEMMA NoReports ==
  ASSUME DispatchInv, NEW i \in 1 .. Len(sent), ~IsProgram(sent[i]), ~(sent[i].workers > 0)
  PROVE  sent[i].sync = sent[i].wait
<1>1. /\ sent[i].wait \in Counts /\ sent[i].workers = 0 /\ CmdOK(sent[i])
      /\ CounterMod \in Nat /\ 0 \in Counts
  BY Basics
<1>2. Plus(sent[i].wait, 0) = sent[i].wait
  BY <1>1, PlusOnce DEF Counts
<1>. QED  BY <1>1, <1>2 DEF CmdOK

\* The device's steps leave the host alone.
LEMMA DeviceFinish ==
  ASSUME DispatchInv, UNCHANGED hostVars, sent # << >>, sent' = sent \/ sent' = Tail(sent),
         stage' \in Seq(Stages), left' \in Seq(Nat), Chain(sent', Base', expected), DeviceInv'
  PROVE  DispatchInv'
<1>1. UNCHANGED <<mgr, expected, cached, bypass, traceExp, trace>>
  BY DEF hostVars
<1>2. Covers(mgr, sent) => Covers(mgr, sent')
  <2>1. CASE sent' = sent
    BY <2>1
  <2>2. CASE sent' = Tail(sent) /\ Tail(sent) # << >>
    <3>1. sent \in Seq(Commands) /\ Len(sent) \in Nat \ {0} /\ Len(Tail(sent)) = Len(sent) - 1
      BY Basics
    <3>2. Len(sent) - 1 \in 1 .. Len(sent) - 1
      <4>1. Tail(sent) \in Seq(Commands)
        BY <3>1
      <4>2. Len(Tail(sent)) # 0
        <5>1. PICK t \in Seq(Commands) : t = Tail(sent) /\ t # << >>
          BY <2>2, <4>1
        <5>2. Len(t) # 0
          BY <5>1, EmptySeq
        <5>. QED  BY <5>1, <5>2
      <4>. QED  BY <3>1, <4>2
    <3>3. Tail(sent)[Len(Tail(sent))] = sent[Len(sent)]
      BY <3>1, <3>2
    <3>. QED  BY <2>2, <3>3 DEF Covers
  <2>3. CASE sent' = Tail(sent) /\ Tail(sent) = << >>
    BY <2>3 DEF Covers
  <2>. QED  BY <2>1, <2>2, <2>3
<1>3. MgrInv'
  BY <1>1, <1>2 DEF DispatchInv, MgrInv
<1>. QED  BY <1>1, <1>3 DEF DispatchInv


\* A step of the dispatcher that moves command i on to stage st.
LEMMA StageStep ==
  ASSUME DispatchInv, NEW i, NEW s, At(i, s), s # "gone", NEW st \in Stages \ {"queued"},
         stage' = [stage EXCEPT ![i] = st], UNCHANGED <<hostVars, sent, left, counter>>,
         st \in {"config", "rest"} => left[i] = sent[i].workers,
         st = "reset" <=> ~IsProgram(sent[i]), st = "reset" => sent[i].workers > 0,
         st = "gone" => i = 1 /\ left[i] > 0,
         i = 2 => st \in {"config", "reset"} /\ (st = "config" => ~sent[2].first),
         IF stage'[1] \in {"gone", "reset"} THEN Plus(counter, Pending') = Target'
                                            ELSE counter = Target'
  PROVE  DispatchInv'
<1>1. /\ i \in 1 .. Len(sent) /\ stage[i] = s /\ i \in {1, 2}
      /\ i = 2 => stage[1] = "gone" /\ Len(sent) >= 2
  BY AtFacts
<1>2. /\ stage \in Seq(Stages) /\ Len(stage) = Len(sent) /\ Len(sent) \in Nat
      /\ left \in Seq(Nat) /\ Len(left) = Len(sent)
  BY Basics
<1>3. /\ stage' \in Seq(Stages) /\ Len(stage') = Len(stage) /\ stage'[i] = st
      /\ \A j \in 1 .. Len(sent) : j # i => stage'[j] = stage[j]
  BY <1>1, <1>2
<1>4. UNCHANGED <<sent, left, counter>> /\ sent # << >> /\ UNCHANGED hostVars
  BY <1>1
<1>5. ASSUME NEW j \in 1 .. Len(sent)
      PROVE  /\ stage'[j] \in {"queued", "config", "rest"} => left[j] = sent[j].workers
             /\ stage'[j] \in {"config", "rest", "gone"} => IsProgram(sent[j])
             /\ stage'[j] = "reset" => ~IsProgram(sent[j]) /\ sent[j].workers > 0
             /\ left[j] \in 0 .. sent[j].workers
             /\ stage'[j] = "gone" => j = 1 /\ left[j] > 0
             /\ j > 1 /\ stage'[j] # "queued" =>
                  /\ j = 2 /\ stage'[1] = "gone" /\ stage'[2] \in {"config", "reset"}
                  /\ stage'[2] = "config" => ~sent[2].first
  <2>1. CASE j = i
    <3>1. left[j] \in 0 .. sent[j].workers
      BY DEF DispatchInv, DeviceInv
    <3>2. i = 2 => stage'[1] = "gone"
      <4>1. i = 2 => 1 \in 1 .. Len(sent) /\ 1 # i
        BY <1>1, <1>2
      <4>. QED  BY <1>1, <1>3, <4>1
    <3>3. i = 1 \/ i = 2
      BY <1>1
    <3>. QED  BY <1>3, <2>1, <3>1, <3>2, <3>3
  <2>2. CASE j # i
    <3>1. stage'[j] = stage[j]
      BY <1>3, <2>2
    <3>2. i = 1 /\ j > 1 => stage[j] = "queued"
      <4>1. j > 1 => j \in 2 .. Len(sent)
        BY <1>2
      <4>. QED  BY <1>1, <4>1, OthersQueued
    <3>3. ~(i = 2 /\ j > 1 /\ stage[j] # "queued")
      BY <2>2 DEF DispatchInv, DeviceInv
    <3>. QED  BY <1>1, <3>1, <3>2, <3>3 DEF DispatchInv, DeviceInv
  <2>. QED  BY <2>1, <2>2
<1>6. DeviceInv'
  BY <1>2, <1>3, <1>4, <1>5 DEF DispatchInv, DeviceInv
<1>7. Chain(sent', Base', expected)
  BY <1>4 DEF DispatchInv, Base
<1>. QED  BY <1>2, <1>3, <1>4, <1>6, <1>7, DeviceFinish

LEMMA WriteConfigStep ==
  ASSUME DispatchInv, NEW i, WriteConfig(i)
  PROVE  DispatchInv'
<1>1. /\ At(i, "queued") /\ IsProgram(sent[i]) /\ (sent[i].first => WrapGe(counter, sent[i].sync))
      /\ stage' = [stage EXCEPT ![i] = "config"] /\ UNCHANGED <<hostVars, sent, left, counter>>
  BY DEF WriteConfig
<1>2. /\ i \in 1 .. Len(sent) /\ stage[i] = "queued" /\ i \in {1, 2}
      /\ i = 2 => stage[1] = "gone" /\ Len(sent) >= 2
  BY <1>1, AtFacts
<1>3. /\ left[i] = sent[i].workers /\ sent[i].sync = sent[i].wait /\ sent # << >>
      /\ stage \in Seq(Stages) /\ Len(stage) = Len(sent) /\ Len(sent) \in Nat
  BY <1>1, <1>2, Basics DEF DispatchInv, DeviceInv, CmdOK
<1>4. i = 2 => ~sent[2].first
  BY <1>1, <1>2, <1>3, Waits
<1>5. IF stage'[1] \in {"gone", "reset"} THEN Plus(counter, Pending') = Target'
                                         ELSE counter = Target'
  <2>1. CASE i = 1
    <3>1. stage'[1] = "config" /\ stage[1] = "queued"
      BY <1>1, <1>2, <1>3, <2>1
    <3>2. counter = Target /\ Target = sent[1].wait /\ Target' = sent[1].wait
      BY <1>1, <1>3, <3>1 DEF DispatchInv, DeviceInv, Target
    <3>. QED  BY <3>1, <3>2
  <2>2. CASE i = 2
    <3>1. stage'[1] = stage[1] /\ stage'[2] # "reset" /\ stage[2] # "reset" /\ stage[1] = "gone"
      BY <1>1, <1>2, <1>3, <2>2
    <3>2. Pending' = Pending /\ Target' = Target
      BY <1>1, <3>1 DEF Pending, Target, After, IsProgram
    <3>. QED  BY <1>3, <3>1, <3>2 DEF DispatchInv, DeviceInv
  <2>. QED  BY <1>2, <2>1, <2>2
<1>6. "config" \in Stages \ {"queued"}
  BY DEF Stages
<1>. QED  BY <1>1, <1>3, <1>4, <1>5, <1>6, StageStep

LEMMA WriteRestStep ==
  ASSUME DispatchInv, NEW i, WriteRest(i)
  PROVE  DispatchInv'
<1>1. /\ At(i, "config") /\ (sent[i].late => WrapGe(counter, sent[i].sync))
      /\ stage' = [stage EXCEPT ![i] = "rest"] /\ UNCHANGED <<hostVars, sent, left, counter>>
  BY DEF WriteRest
<1>2. /\ i \in 1 .. Len(sent) /\ stage[i] = "config" /\ i \in {1, 2}
      /\ i = 2 => stage[1] = "gone" /\ Len(sent) >= 2
  BY <1>1, AtFacts
<1>3. /\ left[i] = sent[i].workers /\ IsProgram(sent[i]) /\ sent # << >>
      /\ stage \in Seq(Stages) /\ Len(stage) = Len(sent) /\ Len(sent) \in Nat
  BY <1>2, Basics DEF DispatchInv, DeviceInv
<1>4. i = 1
  <2>1. SUFFICES ASSUME i = 2 PROVE FALSE
    BY <1>2
  <2>2. ~sent[2].first
    BY <1>2, <2>1 DEF DispatchInv, DeviceInv
  <2>3. sent[2].sync = sent[2].wait /\ sent[2].late
    BY <1>2, <1>3, <2>1, <2>2, Basics DEF CmdOK
  <2>. QED  BY <1>1, <1>2, <2>1, <2>3, Waits
<1>5. stage'[1] = "rest" /\ stage[1] = "config"
  BY <1>1, <1>2, <1>3, <1>4
<1>6. counter = Target /\ Target = sent[1].wait /\ Target' = sent[1].wait
  BY <1>1, <1>3, <1>5 DEF DispatchInv, DeviceInv, Target
<1>7. "rest" \in Stages \ {"queued"} /\ i # 2
  BY <1>4 DEF Stages
<1>8. IF stage'[1] \in {"gone", "reset"} THEN Plus(counter, Pending') = Target'
                                         ELSE counter = Target'
  BY <1>5, <1>6
<1>. QED  BY <1>1, <1>3, <1>7, <1>8, StageStep


LEMMA SendGoStep ==
  ASSUME DispatchInv, NEW i, SendGo(i)
  PROVE  DispatchInv'
<1>1. /\ At(i, "rest") /\ stage' = [stage EXCEPT ![i] = "gone"]
      /\ UNCHANGED <<hostVars, sent, left, counter>>
  BY DEF SendGo
<1>2. i \in 1 .. Len(sent) /\ stage[i] = "rest" /\ i \in {1, 2}
  BY <1>1, AtFacts
<1>3. /\ left[i] = sent[i].workers /\ IsProgram(sent[i]) /\ sent # << >>
      /\ stage \in Seq(Stages) /\ Len(stage) = Len(sent) /\ Len(sent) \in Nat
      /\ left[i] \in Nat /\ left[i] > 0
  BY <1>2, Basics DEF DispatchInv, DeviceInv, CmdOK
<1>4. i = 1
  BY <1>2 DEF DispatchInv, DeviceInv
<1>5. /\ stage'[1] = "gone" /\ stage[1] = "rest"
      /\ Len(sent) >= 2 => stage'[2] = "queued"
  <2>1. stage'[1] = "gone" /\ stage[1] = "rest"
    BY <1>1, <1>2, <1>3, <1>4
  <2>2. Len(sent) >= 2 => stage'[2] = stage[2]
    BY <1>1, <1>3, <1>4
  <2>3. Len(sent) >= 2 => 2 \in 2 .. Len(sent)
    BY <1>3
  <2>. QED  BY <2>1, <2>2, <2>3, OthersQueued
<1>6. counter = sent[1].wait
  BY <1>3, <1>5 DEF DispatchInv, DeviceInv, Target
<1>7. Pending' = left[1] /\ Target' = After(sent[1])
  BY <1>1, <1>3, <1>4, <1>5 DEF Pending, Target, After, IsProgram
<1>8. Plus(counter, Pending') = Target'
  BY <1>3, <1>4, <1>6, <1>7 DEF After
<1>9. "gone" \in Stages \ {"queued"} /\ i # 2
  BY <1>4 DEF Stages
<1>10. IF stage'[1] \in {"gone", "reset"} THEN Plus(counter, Pending') = Target'
                                          ELSE counter = Target'
  BY <1>5, <1>8
<1>. QED  BY <1>1, <1>3, <1>4, <1>9, <1>10, StageStep

LEMMA SendResetStep ==
  ASSUME DispatchInv, NEW i, SendReset(i)
  PROVE  DispatchInv'
<1>1. /\ At(i, "queued") /\ ~IsProgram(sent[i]) /\ sent[i].workers > 0
      /\ stage' = [stage EXCEPT ![i] = "reset"] /\ UNCHANGED <<hostVars, sent, left, counter>>
  BY DEF SendReset
<1>2. /\ i \in 1 .. Len(sent) /\ stage[i] = "queued" /\ i \in {1, 2}
      /\ i = 2 => stage[1] = "gone" /\ Len(sent) >= 2
  BY <1>1, AtFacts
<1>3. /\ left[i] = sent[i].workers /\ left[i] \in Nat
      /\ sent[i].sync = Plus(sent[i].wait, sent[i].workers) /\ sent # << >>
      /\ stage \in Seq(Stages) /\ Len(stage) = Len(sent) /\ Len(sent) \in Nat
  <2>1. /\ CmdOK(sent[i]) /\ stage \in Seq(Stages) /\ Len(stage) = Len(sent)
        /\ Len(sent) \in Nat /\ left[i] \in Nat /\ sent # << >>
    BY <1>2, Basics
  <2>2. left[i] = sent[i].workers
    BY <1>2 DEF DispatchInv, DeviceInv
  <2>. QED  BY <1>1, <2>1, <2>2 DEF CmdOK
<1>4. stage'[1] \in {"gone", "reset"} /\ Plus(counter, Pending') = Target'
  <2>1. CASE i = 1
    <3>1. stage'[1] = "reset" /\ stage[1] = "queued"
      BY <1>1, <1>2, <1>3, <2>1
    <3>2. Len(sent) >= 2 => stage'[2] = "queued"
      <4>1. Len(sent) >= 2 => stage'[2] = stage[2] /\ 2 \in 2 .. Len(sent)
        BY <1>1, <1>3, <2>1
      <4>. QED  BY <3>1, <4>1, OthersQueued
    <3>3. counter = sent[1].wait
      BY <1>3, <3>1 DEF DispatchInv, DeviceInv, Target
    <3>4. Pending' = left[1] /\ Target' = sent[1].sync
      BY <1>1, <1>3, <2>1, <3>1, <3>2 DEF Pending, Target
    <3>. QED  BY <1>3, <2>1, <3>1, <3>3, <3>4
  <2>2. CASE i = 2
    <3>1. stage[1] = "gone" /\ stage'[1] = "gone" /\ stage'[2] = "reset" /\ Len(sent) >= 2
      BY <1>1, <1>2, <1>3, <2>2
    <3>2. Pending' = left[1] + left[2] /\ Target' = sent[2].sync
      BY <1>1, <3>1 DEF Pending, Target
    <3>3. Pending = left[1] /\ Target = After(sent[1])
      <4>1. left[1] \in Nat
        BY <1>2, <2>2, Basics
      <4>. QED  BY <1>2, <2>2, <4>1 DEF Pending, Target
    <3>4. Plus(counter, left[1]) = sent[2].wait /\ counter \in Counts
      BY <1>3, <3>1, <3>3, Waits DEF DispatchInv, DeviceInv
    <3>5. left[1] \in Counts /\ left[2] \in Counts /\ left[1] + left[2] < CounterMod
      <4>1. 1 \in 1 .. Len(sent) /\ 2 \in 1 .. Len(sent)
        BY <1>3, <3>1
      <4>2. /\ left[1] \in Nat /\ left[2] \in Nat /\ left[1] <= sent[1].workers
            /\ left[2] <= sent[2].workers /\ CounterMod \in Nat \ {0}
            /\ sent[1].workers \in Nat /\ sent[2].workers \in Nat
            /\ 4 * sent[1].workers <= CounterMod /\ 4 * sent[2].workers <= CounterMod
        BY <4>1, Basics DEF DispatchInv, DeviceInv
      <4>. QED  BY <4>2 DEF Counts
    <3>6. Plus(Plus(counter, left[1]), left[2]) = Plus(counter, left[1] + left[2])
      BY <3>4, <3>5, PlusPlus
    <3>. QED  BY <1>3, <2>2, <3>1, <3>2, <3>4, <3>6
  <2>. QED  BY <1>2, <2>1, <2>2
<1>5. "reset" \in Stages \ {"queued"}
  BY DEF Stages
<1>6. IF stage'[1] \in {"gone", "reset"} THEN Plus(counter, Pending') = Target'
                                         ELSE counter = Target'
  BY <1>4
<1>. QED  BY <1>1, <1>5, <1>6, StageStep


LEMMA TailFacts ==
  ASSUME NEW S, NEW s \in Seq(S), s # << >>
  PROVE  /\ Tail(s) \in Seq(S) /\ Len(Tail(s)) = Len(s) - 1
         /\ \A j \in 1 .. Len(s) - 1 : Tail(s)[j] = s[j + 1]
OBVIOUS

\* The first command leaves when the counter is where the rest expects it.
LEMMA RetireStep ==
  ASSUME DispatchInv, sent # << >>, Retire, UNCHANGED hostVars, counter' \in Counts,
         IF Len(sent) >= 2 /\ stage[2] = "reset" THEN Plus(counter', left[2]) = sent[2].sync
                                                 ELSE counter' = After(sent[1])
  PROVE  DispatchInv'
<1>1. /\ sent \in Seq(Commands) /\ stage \in Seq(Stages) /\ left \in Seq(Nat)
      /\ Len(sent) \in Nat \ {0} /\ Len(stage) = Len(sent) /\ Len(left) = Len(sent)
      /\ stage # << >> /\ left # << >>
  <2>1. /\ sent \in Seq(Commands) /\ stage \in Seq(Stages) /\ left \in Seq(Nat)
        /\ Len(stage) = Len(sent) /\ Len(left) = Len(sent)
    BY Basics
  <2>2. Len(sent) \in Nat \ {0}
    BY <2>1
  <2>. QED  BY <2>1, <2>2
<1>2. sent' = Tail(sent) /\ stage' = Tail(stage) /\ left' = Tail(left)
  BY DEF Retire
<1>3. sent' \in Seq(Commands) /\ Len(sent') = Len(sent) - 1
      /\ \A j \in 1 .. Len(sent) - 1 : sent'[j] = sent[j + 1]
  BY <1>1, <1>2, TailFacts
<1>4. stage' \in Seq(Stages) /\ Len(stage') = Len(sent) - 1
      /\ \A j \in 1 .. Len(sent) - 1 : stage'[j] = stage[j + 1]
  <2>1. /\ Tail(stage) \in Seq(Stages) /\ Len(Tail(stage)) = Len(stage) - 1
        /\ \A j \in 1 .. Len(stage) - 1 : Tail(stage)[j] = stage[j + 1]
    BY <1>1, TailFacts
  <2>. QED  BY <1>1, <1>2, <2>1
<1>5. left' \in Seq(Nat) /\ Len(left') = Len(sent) - 1
      /\ \A j \in 1 .. Len(sent) - 1 : left'[j] = left[j + 1]
  <2>1. /\ Tail(left) \in Seq(Nat) /\ Len(Tail(left)) = Len(left) - 1
        /\ \A j \in 1 .. Len(left) - 1 : Tail(left)[j] = left[j + 1]
    BY <1>1, TailFacts
  <2>. QED  BY <1>1, <1>2, <2>1
<1>6. Chain(sent', After(sent[1]), expected)
  BY <1>2, ChainTail DEF DispatchInv
<1>7. sent' # << >> => 1 \in 1 .. Len(sent) - 1 /\ Len(sent) >= 2 /\ sent'[1].wait = After(sent[1])
  <2>1. SUFFICES ASSUME sent' # << >>
                 PROVE  1 \in 1 .. Len(sent) - 1 /\ Len(sent) >= 2 /\ sent'[1].wait = After(sent[1])
    OBVIOUS
  <2>2. PICK t \in Seq(Commands) : t = sent' /\ t # << >>
    BY <1>3, <2>1
  <2>3. Len(t) # 0
    BY <2>2, EmptySeq
  <2>. QED  BY <1>1, <1>3, <1>6, <2>1, <2>2, <2>3 DEF Chain
<1>8. sent' = << >> => Len(sent) < 2
  <2>1. Len(<< >>) = 0
    OBVIOUS
  <2>. QED  BY <1>1, <1>3, <2>1
<1>9. Base' = After(sent[1])
  BY <1>7, <1>8 DEF Base
<1>10. ASSUME NEW j \in 1 .. Len(sent')
       PROVE  /\ stage'[j] \in {"queued", "config", "rest"} => left'[j] = sent'[j].workers
              /\ stage'[j] \in {"config", "rest", "gone"} => IsProgram(sent'[j])
              /\ stage'[j] = "reset" => ~IsProgram(sent'[j]) /\ sent'[j].workers > 0
              /\ left'[j] \in 0 .. sent'[j].workers
              /\ stage'[j] # "gone"
              /\ j > 1 => stage'[j] = "queued"
  <2>1. j + 1 \in 1 .. Len(sent) /\ j + 1 > 1 /\ (j > 1 => j + 1 # 2) /\ j \in 1 .. Len(sent) - 1
    BY <1>1, <1>3
  <2>2. PICK i \in 1 .. Len(sent) : i = j + 1
    BY <2>1
  <2>3. sent'[j] = sent[i] /\ stage'[j] = stage[i] /\ left'[j] = left[i]
    BY <1>3, <1>4, <1>5, <2>1, <2>2
  <2>4. i > 1 /\ i # 1 /\ (j > 1 => i # 2)
    BY <2>1, <2>2
  <2>. QED  BY <2>3, <2>4 DEF DispatchInv, DeviceInv
<1>11. ASSUME sent' # << >>
       PROVE  IF stage'[1] \in {"gone", "reset"} THEN Plus(counter', Pending') = Target'
                                                 ELSE counter' = Target'
  <2>1. /\ stage'[1] = stage[2] /\ left'[1] = left[2] /\ sent'[1] = sent[2]
        /\ Len(sent) >= 2 /\ 1 \in 1 .. Len(sent') /\ sent'[1].wait = After(sent[1])
    <3>1. 1 \in 1 .. Len(sent) - 1 /\ Len(sent) >= 2 /\ sent'[1].wait = After(sent[1])
      BY <1>7, <1>11
    <3>2. 1 + 1 = 2
      OBVIOUS
    <3>3. sent'[1] = sent[1 + 1] /\ stage'[1] = stage[1 + 1] /\ left'[1] = left[1 + 1]
      BY <1>3, <1>4, <1>5, <3>1
    <3>4. 1 \in 1 .. Len(sent')
      BY <1>3, <3>1
    <3>. QED  BY <3>1, <3>2, <3>3, <3>4
  <2>2. Len(sent') >= 2 => stage'[2] = "queued"
    <3>1. Len(sent') >= 2 => 2 \in 1 .. Len(sent')
      BY <1>1, <1>3
    <3>. QED  BY <1>10, <3>1
  <2>3. stage'[1] \in {"queued", "config", "rest", "reset"}
    BY <1>1, <1>10, <2>1, Basics DEF Stages
  <2>4. CASE stage'[1] = "reset"
    <3>1. Pending' = left'[1] /\ Target' = sent'[1].sync
      <4>1. left'[1] \in Nat
        BY <1>5, <1>7, <1>11
      <4>. QED  BY <2>2, <2>4, <4>1 DEF Pending, Target
    <3>. QED  BY <2>1, <2>4, <3>1
  <2>5. CASE stage'[1] # "reset"
    <3>1. Target' = sent'[1].wait
      BY <2>3, <2>5 DEF Target
    <3>. QED  BY <2>1, <2>3, <2>5, <3>1
  <2>. QED  BY <2>4, <2>5
<1>12. DeviceInv'
  BY <1>3, <1>4, <1>5, <1>10, <1>11 DEF DeviceInv
<1>. QED  BY <1>2, <1>4, <1>5, <1>6, <1>9, <1>12, DeviceFinish


\* A clear gets through only at the head of the stream, with no report to come.
LEMMA ClearingFacts ==
  ASSUME DispatchInv, NEW i, Clearing(i)
  PROVE  i = 1 /\ sent # << >> /\ left[1] = 0 /\ stage[1] # "gone" /\ ~IsProgram(sent[1])
<1> DEFINE s == IF i \in DOMAIN sent /\ sent[i].workers > 0 THEN "reset" ELSE "queued"
<1>1. At(i, s) /\ ~IsProgram(sent[i]) /\ WrapGe(counter, sent[i].sync) /\ s # "gone"
  BY DEF Clearing
<1> HIDE DEF s
<1>2. /\ i \in 1 .. Len(sent) /\ stage[i] = s /\ i \in {1, 2}
      /\ i = 2 => stage[1] = "gone" /\ Len(sent) >= 2
  BY <1>1, AtFacts
<1>3. /\ sent \in Seq(Commands) /\ Len(sent) \in Nat /\ sent # << >>
      /\ DOMAIN sent = 1 .. Len(sent)
  BY <1>2, Basics
<1>4. s = IF sent[i].workers > 0 THEN "reset" ELSE "queued"
  BY <1>2, <1>3 DEF s
<1>5. i = 1
  <2>1. SUFFICES ASSUME i = 2 PROVE FALSE
    BY <1>2
  <2>2. CASE sent[2].workers > 0
    BY <1>1, <1>2, <1>4, <2>1, <2>2, Waits
  <2>3. CASE ~(sent[2].workers > 0)
    <3>1. sent[2].sync = sent[2].wait
      BY <1>1, <1>2, <2>1, <2>3, NoReports
    <3>. QED  BY <1>1, <1>2, <1>4, <2>1, <2>3, <3>1, Waits
  <2>. QED  BY <2>2, <2>3
<1>6. /\ left[1] \in Nat /\ left[1] <= sent[1].workers /\ sent[1].workers \in Nat
      /\ 4 * sent[1].workers <= CounterMod /\ CounterMod \in Nat /\ counter \in Counts
  BY <1>2, <1>5, Basics DEF DispatchInv, DeviceInv
<1>7. left[1] = 0
  <2>1. CASE sent[1].workers > 0
    <3>1. stage[1] = "reset"
      BY <1>2, <1>4, <1>5, <2>1
    <3>2. ~(Len(sent) >= 2 /\ stage[2] = "reset")
      <4>1. Len(sent) >= 2 => 2 \in 2 .. Len(sent)
        BY <1>3
      <4>. QED  BY <3>1, <4>1, OthersQueued
    <3>3. Plus(counter, left[1]) = sent[1].sync
      <4>1. Pending = left[1] /\ Target = sent[1].sync
        BY <1>6, <3>1, <3>2 DEF Pending, Target
      <4>. QED  BY <1>3, <3>1, <4>1 DEF DispatchInv, DeviceInv
    <3>4. left[1] > 0 => 2 * left[1] <= CounterMod
      BY <1>6
    <3>5. ~(left[1] > 0)
      BY <1>1, <1>5, <1>6, <3>3, <3>4, StillWaiting
    <3>. QED  BY <1>6, <3>5
  <2>2. CASE ~(sent[1].workers > 0)
    BY <1>6, <2>2
  <2>. QED  BY <2>1, <2>2
<1>. QED  BY <1>1, <1>2, <1>3, <1>5, <1>7

LEMMA ProcessClearStep ==
  ASSUME DispatchInv, NEW i, ProcessClear(i)
  PROVE  DispatchInv'
<1>1. Clearing(i) /\ counter' = 0 /\ (i = 1 => Retire) /\ UNCHANGED hostVars
  BY DEF ProcessClear
<1>2. i = 1 /\ sent # << >> /\ stage[1] # "gone" /\ ~IsProgram(sent[1])
  BY <1>1, ClearingFacts
<1>3. ~(Len(sent) >= 2 /\ stage[2] = "reset")
  <2>1. Len(sent) >= 2 => 2 \in 2 .. Len(sent)
    BY Basics
  <2>. QED  BY <1>2, <2>1, OthersQueued
<1>4. counter' = After(sent[1]) /\ counter' \in Counts
  BY <1>1, <1>2, Basics DEF After
<1>. QED  BY <1>1, <1>2, <1>3, <1>4, RetireStep

LEMMA WorkerDoneStep ==
  ASSUME DispatchInv, NEW i \in DOMAIN sent, WorkerDone(i)
  PROVE  DispatchInv'
<1>1. /\ stage[i] \in {"reset", "gone"} /\ left[i] > 0 /\ counter' = Plus(counter, 1)
      /\ UNCHANGED hostVars
      /\ IF i = 1 /\ left[i] = 1 /\ stage[i] = "gone"
           THEN Retire
           ELSE left' = [left EXCEPT ![i] = @ - 1] /\ UNCHANGED <<sent, stage>>
  BY DEF WorkerDone
<1>2. /\ i \in 1 .. Len(sent) /\ sent # << >> /\ Len(sent) \in Nat /\ left \in Seq(Nat)
      /\ Len(left) = Len(sent) /\ 1 \in 1 .. Len(sent)
      /\ \A j \in 1 .. Len(sent) :
           /\ left[j] \in Nat /\ left[j] <= sent[j].workers /\ sent[j].workers \in Nat
           /\ 4 * sent[j].workers <= CounterMod
      /\ CounterMod \in Nat \ {0} /\ counter \in Counts
  <2>1. i \in 1 .. Len(sent) /\ Len(sent) \in Nat
    BY Basics
  <2>2. sent # << >> /\ 1 \in 1 .. Len(sent)
    BY <2>1
  <2>. QED  BY <2>1, <2>2, Basics DEF DispatchInv, DeviceInv
<1>3. /\ i \in {1, 2} /\ stage[1] \in {"gone", "reset"}
      /\ i = 2 => Len(sent) >= 2 /\ stage[2] = "reset" /\ stage[1] = "gone"
  <2>1. CASE i = 1
    BY <1>1, <2>1
  <2>2. CASE i # 1
    <3>1. i > 1
      BY <1>2, <2>2
    <3>2. i = 2 /\ stage[1] = "gone" /\ stage[2] \in {"config", "reset"}
      BY <1>1, <1>2, <3>1 DEF DispatchInv, DeviceInv
    <3>. QED  BY <1>1, <1>2, <3>2
  <2>. QED  BY <2>1, <2>2
<1> DEFINE both == Len(sent) >= 2 /\ stage[2] = "reset"
<1>4. /\ Plus(counter, Pending) = Target /\ Pending \in Nat /\ Pending > 0 /\ Pending < CounterMod
      /\ Pending = IF both THEN left[1] + left[2] ELSE left[1]
  <2>1. Plus(counter, Pending) = Target
    BY <1>2, <1>3 DEF DispatchInv, DeviceInv
  <2>2. CASE both
    <3>1. 2 \in 1 .. Len(sent)
      BY <1>2, <2>2
    <3>2. Pending = left[1] + left[2]
      BY <2>2 DEF Pending
    <3>3. /\ left[1] \in Nat /\ left[2] \in Nat /\ sent[1].workers \in Nat /\ sent[2].workers \in Nat
          /\ left[1] <= sent[1].workers /\ left[2] <= sent[2].workers
          /\ 4 * sent[1].workers <= CounterMod /\ 4 * sent[2].workers <= CounterMod
          /\ CounterMod \in Nat \ {0}
      BY <1>2, <3>1
    <3>4. left[1] > 0 \/ left[2] > 0
      BY <1>1, <1>3
    <3>5. Pending \in Nat /\ Pending > 0 /\ Pending < CounterMod
      BY <3>2, <3>3, <3>4
    <3>. QED  BY <2>1, <2>2, <3>2, <3>5
  <2>3. CASE ~both
    <3>1. Pending = left[1] /\ i = 1
      BY <1>2, <1>3, <2>3 DEF Pending
    <3>. QED  BY <1>1, <1>2, <2>1, <2>3, <3>1
  <2>. QED  BY <2>2, <2>3
<1>5. Plus(Plus(counter, 1), Pending - 1) = Target /\ counter' \in Counts
  <2>1. 1 \in Counts /\ Pending - 1 \in Counts /\ 1 + (Pending - 1) = Pending
    <3>1. PICK n \in Nat : n = Pending /\ n > 0 /\ n < CounterMod
      BY <1>4
    <3>2. 1 \in Counts /\ n - 1 \in Counts /\ 1 + (n - 1) = n
      BY <1>2, <3>1 DEF Counts
    <3>. QED  BY <3>1, <3>2
  <2>2. counter' \in Counts
    BY <1>1, <1>2, PlusType DEF Counts
  <2>3. Plus(Plus(counter, 1), Pending - 1) = Plus(counter, 1 + (Pending - 1))
    BY <1>2, <1>4, <2>1, PlusPlus
  <2>. QED  BY <1>4, <2>1, <2>2, <2>3
<1>6. CASE i = 1 /\ left[i] = 1 /\ stage[i] = "gone"
  <2>1. Retire
    BY <1>1, <1>6
  <2>2. CASE both
    <3>1. Target = sent[2].sync /\ Pending - 1 = left[2]
      <4>1. left[2] \in Nat
        BY <1>2, <2>2
      <4>. QED  BY <1>4, <1>6, <2>2, <4>1 DEF Target
    <3>. QED  BY <1>1, <1>2, <1>5, <2>1, <2>2, <3>1, RetireStep
  <2>3. CASE ~both
    <3>1. Target = After(sent[1]) /\ Pending - 1 = 0
      BY <1>4, <1>6, <2>3 DEF Target
    <3>2. Plus(counter', 0) = counter'
      BY <1>2, <1>5, PlusOnce DEF Counts
    <3>3. counter' = After(sent[1])
      BY <1>1, <1>5, <3>1, <3>2
    <3>. QED  BY <1>1, <1>2, <1>5, <2>1, <2>3, <3>3, RetireStep
  <2>. QED  BY <2>2, <2>3
<1>7. CASE ~(i = 1 /\ left[i] = 1 /\ stage[i] = "gone")
  <2>1. left' = [left EXCEPT ![i] = @ - 1] /\ UNCHANGED <<sent, stage>> /\ Base' = Base
    BY <1>1, <1>2, <1>7 DEF Base
  <2>2. /\ left' \in Seq(Nat) /\ Len(left') = Len(left) /\ left'[i] = left[i] - 1
        /\ \A j \in 1 .. Len(sent) : j # i => left'[j] = left[j]
    BY <1>1, <1>2, <2>1
  <2>3. ASSUME NEW j \in 1 .. Len(sent)
        PROVE  /\ stage[j] \in {"queued", "config", "rest"} => left'[j] = sent[j].workers
               /\ left'[j] \in 0 .. sent[j].workers
               /\ stage[j] = "gone" => left'[j] > 0
    <3>1. CASE j = i
      <4>1. stage[j] \notin {"queued", "config", "rest"}
        BY <1>1, <3>1
      <4>2. stage[j] = "gone" => left[j] > 1
        <5>1. stage[j] = "gone" => i = 1
          BY <3>1 DEF DispatchInv, DeviceInv
        <5>. QED  BY <1>1, <1>2, <1>7, <3>1, <5>1
      <4>. QED  BY <1>1, <1>2, <2>2, <3>1, <4>1, <4>2
    <3>2. CASE j # i
      BY <2>2, <3>2 DEF DispatchInv, DeviceInv
    <3>. QED  BY <3>1, <3>2
  <2>4. Pending' = Pending - 1 /\ Target' = Target
    <3>1. Target' = Target
      BY <2>1 DEF Target, After, IsProgram
    <3>2. Pending' = IF both THEN left'[1] + left'[2] ELSE left'[1]
      <4>1. CASE both
        BY <2>1, <4>1 DEF Pending
      <4>2. CASE ~both
        <5>1. left'[1] \in Nat
          BY <1>2, <2>2
        <5>. QED  BY <2>1, <4>2, <5>1 DEF Pending
      <4>. QED  BY <4>1, <4>2
    <3>3. CASE i = 1
      <4>1. both => left'[2] = left[2] /\ left[2] \in Nat
        BY <1>2, <2>2, <3>3
      <4>2. left'[1] = left[1] - 1 /\ left[1] \in Nat
        BY <1>2, <2>2, <3>3
      <4>3. Pending' = Pending - 1
        <5>1. CASE both
          BY <1>4, <3>2, <4>1, <4>2, <5>1
        <5>2. CASE ~both
          BY <1>4, <3>2, <4>2, <5>2
        <5>. QED  BY <5>1, <5>2
      <4>. QED  BY <3>1, <4>3
    <3>4. CASE i = 2
      <4>1. both /\ left'[1] = left[1] /\ left[1] \in Nat /\ left[2] \in Nat
        BY <1>2, <1>3, <2>2, <3>4
      <4>. QED  BY <1>4, <2>2, <3>1, <3>2, <3>4, <4>1
    <3>. QED  BY <1>3, <3>3, <3>4
  <2>5. DeviceInv'
    <3>1. Plus(counter', Pending') = Target'
      BY <1>1, <1>5, <2>4
    <3>2. Len(stage') = Len(sent') /\ Len(left') = Len(sent')
      BY <1>2, <2>1, <2>2, Basics
    <3>. QED  BY <1>3, <1>5, <2>1, <2>3, <3>1, <3>2 DEF DispatchInv, DeviceInv, IsProgram
  <2>6. Chain(sent', Base', expected) /\ stage' \in Seq(Stages)
    BY <2>1 DEF DispatchInv
  <2>. QED  BY <1>1, <1>2, <2>1, <2>2, <2>5, <2>6, DeviceFinish
<1>. QED  BY <1>6, <1>7


LEMMA DeviceNextStep ==
  ASSUME DispatchInv, DeviceNext
  PROVE  DispatchInv'
BY WriteConfigStep, WriteRestStep, SendGoStep, SendResetStep, ProcessClearStep, WorkerDoneStep
   DEF DeviceNext, DeviceStep

LEMMA StutterStep ==
  ASSUME DispatchInv, UNCHANGED vars
  PROVE  DispatchInv'
<1>1. /\ UNCHANGED <<mgr, expected, cached, bypass, traceExp, trace>>
      /\ UNCHANGED <<sent, stage, left, counter>>
  BY DEF vars
<1>2. DeviceInv' /\ Base' = Base
  BY <1>1, DeviceFrame DEF DispatchInv
<1>3. MgrInv'
  BY <1>1 DEF DispatchInv, MgrInv
<1>. QED  BY <1>1, <1>2, <1>3 DEF DispatchInv
-----------------------------------------------------------------------------
(***************************************************************************)
(* The theorems.                                                           *)
(***************************************************************************)
\* The invariant that the others follow from: each command of the stream and
\* of the trace waits for exactly what is before it, the manager has one live
\* entry, and the device counts in step with the host, whatever is enqueued,
\* recorded, replayed or completed, in any order.
THEOREM DispatchInvariant == Spec => []DispatchInv
<1>1. DispatchInv /\ [Next]_vars => DispatchInv'
  BY HostStep, DeviceNextStep, StutterStep DEF Next
<1>. QED  BY <1>1, InitLemma, PTL DEF Spec

\* Every variable has its type: no entry of the manager's table reaches past its
\* buffer, and the host's and the device's counts stay below the wrap.
THEOREM DispatchTypeCorrect == Spec => []TypeOK
<1>1. DispatchInv => TypeOK
  <2> SUFFICES ASSUME DispatchInv PROVE TypeOK
    OBVIOUS
  <2>1. /\ mgr.alloc \in Index /\ mgr.free \in Index
        /\ \A i \in Index : \A b \in Buffers :
             mgr.entries[i].addr[b] + mgr.entries[i].size[b] <= BufSize[b]
    BY DEF DispatchInv, MgrInv, MgrOK
  <2>2. /\ expected \in 0 .. CounterMod - 1 /\ traceExp \in 0 .. CounterMod - 1
        /\ counter \in 0 .. CounterMod - 1 /\ cached \subseteq Programs /\ bypass \in BOOLEAN
    BY DEF DispatchInv, DeviceInv, Counts
  <2>3. DOMAIN sent = 1 .. Len(sent)
    BY Basics
  <2>. QED  BY <2>1, <2>2, <2>3, Basics DEF TypeOK
<1>. QED  BY <1>1, DispatchInvariant, PTL

\* Only the second of two commands can be under way while the first still runs.
LEMMA UnfinishedFacts ==
  ASSUME DispatchInv, NEW i \in DOMAIN sent, NEW j \in DOMAIN sent, Unfinished(i, j),
         stage[j] # "queued"
  PROVE  /\ i = 1 /\ j = 2 /\ stage[2] = "config" /\ ~sent[2].first
         /\ 1 \in 1 .. Len(sent) /\ 2 \in 1 .. Len(sent) /\ 1 \in 1 .. Len(sent) - 1
<1>1. i \in 1 .. Len(sent) /\ j \in 1 .. Len(sent) /\ Len(sent) \in Nat
  BY Basics
<1>2. i < j /\ IsProgram(sent[i]) /\ IsProgram(sent[j])
  BY DEF Unfinished
<1>3. j > 1
  BY <1>1, <1>2
<1>4. j = 2 /\ stage[2] \in {"config", "reset"} /\ (stage[2] = "config" => ~sent[2].first)
  BY <1>1, <1>3 DEF DispatchInv, DeviceInv
<1>5. stage[2] # "reset"
  BY <1>1, <1>2, <1>4 DEF DispatchInv, DeviceInv
<1>. QED  BY <1>1, <1>2, <1>4, <1>5

\* The configuration of a program is never written over that of an earlier one
\* that some worker has not completed, for any buffers and any programs,
\* although the host never reads the device's counter.
THEOREM NoStompTheorem == Spec => []NoStomp
<1>1. DispatchInv => NoStomp
  <2> SUFFICES ASSUME DispatchInv, NEW i \in DOMAIN sent, NEW j \in DOMAIN sent,
                      Unfinished(i, j), stage[j] # "queued", NEW b \in Buffers \ {Launch}
               PROVE  ~Overlap(i, j, b)
    BY DEF NoStomp
  <2>1. /\ i = 1 /\ j = 2 /\ ~sent[2].first /\ 1 \in 1 .. Len(sent) /\ 2 \in 1 .. Len(sent)
        /\ 1 \in 1 .. Len(sent) - 1
    BY UnfinishedFacts
  <2>2. IsProgram(sent[1]) /\ IsProgram(sent[2])
    BY <2>1 DEF Unfinished
  <2>3. Follows(sent[1], sent[1 + 1])
    BY <2>1 DEF DispatchInv, Chain
  <2>4. Beside(sent[1].addr[b], sent[1].sizes[b], sent[2], b)
    BY <2>1, <2>2, <2>3 DEF Follows
  <2>5. /\ sent[1].addr[b] \in Nat /\ sent[1].sizes[b] \in Nat
        /\ sent[2].addr[b] \in Nat /\ sent[2].sizes[b] \in Nat
    <3>1. sent[1] \in Commands /\ sent[2] \in Commands
      BY <2>1, Basics
    <3>. QED  BY <2>2, <3>1 DEF Commands, IsProgram
  <2>. QED  BY <2>1, <2>4, <2>5 DEF Overlap, Beside
<1>. QED  BY <1>1, DispatchInvariant, PTL

\* Launch messages and binaries at fixed addresses are never written while an
\* earlier program still runs: the late stall always comes in between.
THEOREM NoLateStompTheorem == Spec => []NoLateStomp
<1>1. DispatchInv => NoLateStomp
  BY UnfinishedFacts DEF NoLateStomp
<1>. QED  BY <1>1, DispatchInvariant, PTL

\* The counter is cleared only when every worker has reported, also where the
\* counter has wrapped and where the reset go signal went out ahead of time.
THEOREM ClearIsQuietTheorem == Spec => []ClearIsQuiet
<1>1. DispatchInv => ClearIsQuiet
  <2> SUFFICES ASSUME DispatchInv, NEW i \in DOMAIN sent, Clearing(i), NEW h \in 1 .. i
               PROVE  left[h] = 0
    BY DEF ClearIsQuiet
  <2>1. i = 1 /\ left[1] = 0
    BY ClearingFacts
  <2>. QED  BY <2>1
<1>. QED  BY <1>1, DispatchInvariant, PTL

\* The manager's ring of entries is never overrun: its indices only meet in a
\* manager that was never used.
THEOREM TableTheorem == Spec => []TableNotOverrun
<1>1. DispatchInv => TableNotOverrun
  BY IndexFacts DEF DispatchInv, MgrInv, MgrOK, Live, TableNotOverrun
<1>. QED  BY <1>1, DispatchInvariant, PTL

=============================================================================
