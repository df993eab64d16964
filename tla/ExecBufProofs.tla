---------------------------- MODULE ExecBufProofs ----------------------------
(***************************************************************************)
(* Proofs about ExecBuf for traces of every length, every page size and    *)
(* every size of cmddat_q: the prefetcher finds each command of the trace, *)
(* and what it hands on is what was recorded.                              *)
(*                                                                         *)
(* The argument is about addresses in the trace: how many units of the     *)
(* load are left, where the command began and where its data goes on all   *)
(* determine one another.  That a command whose data ends in a load ends   *)
(* there with its padding as well follows from the alignment.              *)
(***************************************************************************)
EXTENDS ExecBuf, Integers, WellFoundedInduction, SequenceTheorems, TLAPS

-----------------------------------------------------------------------------
(***************************************************************************)
(* Induction on natural numbers, for a set instead of a predicate.         *)
(***************************************************************************)
\* A set of natural numbers has a least element.
LEMMA LeastElement ==
  ASSUME NEW T, T \subseteq Nat, T # {}
  PROVE  \E x \in T : \A y \in T : x <= y
<1>. DEFINE R == OpToRel(<, Nat)
<1>1. IsWellFoundedOn(R, Nat)
  BY NatLessThanWellFounded
<1>2. PICK x \in T : \A y \in T : ~(<<y, x>> \in R)
  BY <1>1, WFMin
<1>3. \A y \in T : y < x => <<y, x>> \in R
  BY DEF OpToRel
<1>4. \A y \in T : ~(y < x)
  BY <1>2, <1>3
<1>5. x \in Nat /\ \A y \in T : y \in Nat
  OBVIOUS
<1>. HIDE DEF R
<1>. QED  BY <1>4, <1>5

\* A set that has 0, and with each number the next one, has them all.
LEMMA SetInduction ==
  ASSUME NEW T, 0 \in T, \A n \in Nat : n \in T => n + 1 \in T
  PROVE  Nat \subseteq T
<1>. SUFFICES ASSUME Nat \ T # {} PROVE FALSE
  OBVIOUS
<1>1. PICK x \in Nat \ T : \A y \in Nat \ T : x <= y
  BY LeastElement
<1>2. x # 0 /\ x - 1 \in Nat /\ x = (x - 1) + 1
  OBVIOUS
<1>. QED  BY <1>1, <1>2

-----------------------------------------------------------------------------
(***************************************************************************)
(* Sums: Start and Place add up the strides and the lengths of the         *)
(* commands before one.                                                    *)
(***************************************************************************)
IsSum(f, D, X) == f = [k \in D |-> IF k <= 1 THEN 0 ELSE f[k - 1] + X[k - 1]]

\* On an initial interval there is a sum.
LEMMA SumExists ==
  ASSUME NEW X
  PROVE  \A m \in Nat : \E f : IsSum(f, 0 .. m, X)
<1>. DEFINE T == {m \in Nat : \E f : IsSum(f, 0 .. m, X)}
<1>1. 0 \in T
  <2>1. IsSum([k \in 0 .. 0 |-> 0], 0 .. 0, X)
    BY DEF IsSum
  <2>. QED  BY <2>1
<1>2. ASSUME NEW n \in Nat, n \in T PROVE n + 1 \in T
  <2>1. PICK f : IsSum(f, 0 .. n, X)
    BY <1>2
  <2>. DEFINE g == [k \in 0 .. n + 1 |->
                      IF k <= n THEN f[k] ELSE IF k <= 1 THEN 0 ELSE f[k - 1] + X[k - 1]]
  <2>2. \A k \in 0 .. n : f[k] = IF k <= 1 THEN 0 ELSE f[k - 1] + X[k - 1]
    BY <2>1 DEF IsSum
  <2>3. \A k \in 0 .. n + 1 : g[k] = IF k <= 1 THEN 0 ELSE g[k - 1] + X[k - 1]
    <3>. SUFFICES ASSUME NEW k \in 0 .. n + 1
                  PROVE  g[k] = IF k <= 1 THEN 0 ELSE g[k - 1] + X[k - 1]
      OBVIOUS
    <3>1. k > 1 => k - 1 \in 0 .. n /\ g[k - 1] = f[k - 1]
      OBVIOUS
    <3>2. k <= n => k \in 0 .. n
      OBVIOUS
    <3>. QED  BY <2>2, <3>1, <3>2
  <2>4. IsSum(g, 0 .. n + 1, X)
    BY <2>3 DEF IsSum
  <2>. QED  BY <2>4
<1>. QED  BY <1>1, <1>2, SetInduction

\* Two sums agree where both are defined.
LEMMA SumUnique ==
  ASSUME NEW X, NEW m \in Nat, NEW n \in Nat, NEW f, NEW g,
         IsSum(f, 0 .. m, X), IsSum(g, 0 .. n, X)
  PROVE  \A k \in Nat : k <= m /\ k <= n => f[k] = g[k]
<1>. DEFINE T == {k \in Nat : k <= m /\ k <= n => f[k] = g[k]}
<1>1. /\ \A k \in 0 .. m : f[k] = IF k <= 1 THEN 0 ELSE f[k - 1] + X[k - 1]
      /\ \A k \in 0 .. n : g[k] = IF k <= 1 THEN 0 ELSE g[k - 1] + X[k - 1]
  BY DEF IsSum
<1>2. 0 \in T
  BY <1>1
<1>3. ASSUME NEW k \in Nat, k \in T PROVE k + 1 \in T
  <2>. SUFFICES ASSUME k + 1 <= m, k + 1 <= n PROVE f[k + 1] = g[k + 1]
    OBVIOUS
  <2>1. f[k] = g[k] /\ k + 1 \in 0 .. m /\ k + 1 \in 0 .. n /\ (k + 1) - 1 = k
    BY <1>3
  <2>. QED  BY <1>1, <2>1
<1>. QED  BY <1>2, <1>3, SetInduction

\* So there is a sum on all numbers.
LEMMA SumOfAll ==
  ASSUME NEW X
  PROVE  \E f : IsSum(f, Nat, X)
<1>. DEFINE G(k) == CHOOSE f : IsSum(f, 0 .. k, X)
            F == [k \in Nat |-> G(k)[k]]
<1>1. ASSUME NEW k \in Nat PROVE IsSum(G(k), 0 .. k, X)
  BY SumExists
<1>2. ASSUME NEW k \in Nat PROVE F[k] = IF k <= 1 THEN 0 ELSE F[k - 1] + X[k - 1]
  <2>1. G(k)[k] = IF k <= 1 THEN 0 ELSE G(k)[k - 1] + X[k - 1]
    <3>1. k \in 0 .. k
      OBVIOUS
    <3>2. IsSum(G(k), 0 .. k, X)
      BY <1>1
    <3>. HIDE DEF G
    <3>. QED  BY <3>1, <3>2 DEF IsSum
  <2>2. CASE k > 1
    <3>1. k - 1 \in Nat /\ k - 1 <= k
      BY <2>2
    <3>2. G(k)[k - 1] = G(k - 1)[k - 1]
      BY <1>1, <3>1, SumUnique
    <3>. QED  BY <2>1, <2>2, <3>1, <3>2
  <2>. QED  BY <2>1, <2>2
<1>3. IsSum(F, Nat, X)
  BY <1>2 DEF IsSum
<1>. QED  BY <1>3

\* What a sum of natural numbers is: it starts at 0, adds the next number at
\* each step, and so rises.
LEMMA SumFacts ==
  ASSUME NEW X, NEW f, IsSum(f, Nat, X), NEW n \in Nat, \A k \in 1 .. n : X[k] \in Nat
  PROVE  /\ f[1] = 0
         /\ \A k \in 1 .. n + 1 : f[k] \in Nat
         /\ \A k \in 1 .. n : f[k + 1] = f[k] + X[k]
         /\ \A j, k \in 1 .. n + 1 : j <= k => f[j] <= f[k]
<1>1. \A k \in Nat : f[k] = IF k <= 1 THEN 0 ELSE f[k - 1] + X[k - 1]
  BY DEF IsSum
<1>2. f[1] = 0
  BY <1>1
<1>3. ASSUME NEW k \in 1 .. n PROVE f[k + 1] = f[k] + X[k]
  <2>1. k + 1 \in Nat /\ ~(k + 1 <= 1) /\ (k + 1) - 1 = k
    OBVIOUS
  <2>. QED  BY <1>1, <2>1
<1>. DEFINE T == {k \in Nat : k + 1 <= n + 1 =>
                    f[k + 1] \in Nat /\ \A j \in 1 .. k + 1 : f[j] \in Nat /\ f[j] <= f[k + 1]}
<1>4. 0 \in T
  BY <1>2
<1>5. ASSUME NEW k \in Nat, k \in T PROVE k + 1 \in T
  <2>. SUFFICES ASSUME k + 2 <= n + 1
                PROVE  /\ f[k + 2] \in Nat
                       /\ \A j \in 1 .. k + 2 : f[j] \in Nat /\ f[j] <= f[k + 2]
    OBVIOUS
  <2>1. f[k + 1] \in Nat /\ \A j \in 1 .. k + 1 : f[j] \in Nat /\ f[j] <= f[k + 1]
    BY <1>5
  <2>2. k + 1 \in 1 .. n /\ f[(k + 1) + 1] = f[k + 1] + X[k + 1] /\ X[k + 1] \in Nat
    BY <1>3
  <2>3. f[k + 2] \in Nat /\ f[k + 1] <= f[k + 2]
    BY <2>1, <2>2
  <2>4. ASSUME NEW j \in 1 .. k + 2 PROVE f[j] \in Nat /\ f[j] <= f[k + 2]
    <3>1. CASE j = k + 2
      BY <2>3, <3>1
    <3>2. CASE j \in 1 .. k + 1
      BY <2>1, <2>3, <3>2
    <3>. QED  BY <3>1, <3>2
  <2>. QED  BY <2>3, <2>4
<1>6. Nat \subseteq T
  BY <1>4, <1>5, SetInduction
<1>7. ASSUME NEW k \in 1 .. n + 1
      PROVE  f[k] \in Nat /\ \A j \in 1 .. k : f[j] \in Nat /\ f[j] <= f[k]
  <2>1. k - 1 \in T /\ (k - 1) + 1 = k
    BY <1>6
  <2>. QED  BY <2>1
<1>8. ASSUME NEW j \in 1 .. n + 1, NEW k \in 1 .. n + 1, j <= k PROVE f[j] <= f[k]
  BY <1>7, <1>8
<1>. QED  BY <1>2, <1>3, <1>7, <1>8

-----------------------------------------------------------------------------
(***************************************************************************)
(* Alignment.                                                              *)
(***************************************************************************)
\* RoundUp gives the least multiple of the unit that is not less.
LEMMA RoundUpFacts ==
  ASSUME NEW n \in Nat, NEW u \in Nat \ {0}
  PROVE  /\ RoundUp(n, u) \in Nat /\ RoundUp(n, u) >= n
         /\ \E q \in Nat : RoundUp(n, u) = q * u
         /\ \A q \in Nat : n <= q * u => RoundUp(n, u) <= q * u
<1>. DEFINE d == (n + u - 1) \div u
<1>1. d \in Nat /\ d * u <= n + u - 1 /\ n + u - 1 < d * u + u
  <2>1. n + u - 1 \in Nat
    OBVIOUS
  <2>2. ASSUME NEW a \in Nat PROVE a \div u \in Nat /\ (a \div u) * u <= a /\ a < (a \div u) * u + u
    OBVIOUS
  <2>. QED  BY <2>1, <2>2
<1>2. RoundUp(n, u) = d * u
  BY DEF RoundUp
<1>. HIDE DEF d
<1>3. ASSUME NEW q \in Nat, n <= q * u PROVE d * u <= q * u
  <2>. SUFFICES ASSUME d > q PROVE FALSE
    BY <1>1
  <2>1. d * u >= (q + 1) * u
    BY <1>1
  <2>2. (q + 1) * u = q * u + u
    OBVIOUS
  <2>3. q * u \in Nat /\ d * u \in Nat
    BY <1>1
  <2>. QED  BY <1>1, <1>3, <2>1, <2>2, <2>3
<1>4. d * u \in Nat
  BY <1>1
<1>5. d * u >= n
  BY <1>1, <1>4
<1>. QED  BY <1>1, <1>2, <1>3, <1>4, <1>5


-----------------------------------------------------------------------------
(***************************************************************************)
(* The invariant.                                                          *)
(***************************************************************************)
\* The trace is a list of commands with lengths, the last one is its end, and
\* it lies in DRAM.
TraceInv ==
  /\ trace \in Seq(Commands \cup {End}) /\ Len(trace) >= 1
  /\ trace[Len(trace)] = End
  /\ Start[Len(trace) + 1] <= MaxAddr

\* The units of a load, the address where it ends, and where it begins.
Load == AtOnce * PageSize
LoadEnd == page_id * PageSize
LoadBase == LoadEnd - Load

\* Where the data goes on that is still to be handed on.
DataAt == Start[cur] + 1 + (trace[cur].len - left)

\* While there are commands in cmddat_q it holds the last load.
LoadInv ==
  pc \in {"commands", "split", "last"} =>
    /\ LoadBase >= 0
    /\ \A a \in 0 .. Load - 1 : LoadBase + a < MaxAddr => cmddat[a] = LoadBase + a

\* Between commands, the next one begins where the rest of the load does.
BetweenInv ==
  /\ pc \in {"fetch", "commands"} => /\ cur \in 0 .. Len(trace) - 1 /\ issued = Place[cur + 1]
                                     /\ LoadEnd - length = Start[cur + 1]
  /\ pc = "fetch" => length = 0
  /\ pc = "commands" => cmd_ptr = Load - length /\ length <= Load

\* In a command, its data goes on at data_ptr, or with the next load, and it
\* ends `stride' units behind cmd_ptr.
WithinInv ==
  /\ pc \in {"split", "next", "last"} =>
       /\ cur \in 1 .. Len(trace) /\ left \in 0 .. trace[cur].len
       /\ issued + left = Place[cur + 1]
       /\ cmd_ptr \in Nat
  /\ pc = "split" => /\ LoadBase + data_ptr = DataAt /\ data_ptr + remaining = Load
                     /\ remaining_stride = length
                     /\ data_ptr >= 0 /\ remaining >= 0
  /\ pc = "next" => /\ LoadEnd = DataAt /\ left > 0 /\ length = 0
                    /\ cmd_ptr = 0 /\ data_ptr = 0
                    /\ LoadEnd + stride = Start[cur + 1]
  /\ pc \in {"split", "last"} => /\ length = Load - cmd_ptr /\ length >= 0
                                 /\ LoadBase + cmd_ptr + stride = Start[cur + 1]
  /\ pc = "last" => left = 0 /\ stride <= length

ExecBufInv ==
  /\ TypeOK /\ pages = Pages
  /\ TraceInv /\ LoadInv /\ BetweenInv /\ WithinInv /\ pc # "lost"

\* What a write that has not departed will find in cmddat_q is what was recorded,
\* unless cmddat_q was read over.
PendingInv ==
  \A w \in pending : \A k \in 1 .. Len(trace) : \A i \in 1 .. trace[k].len :
    \A x \in Units(w) :
      x = Place[k] + i - 1 /\ x \notin hit => cmddat[w.from + (x - w.at)] = Start[k] + i

\* Such a write belongs to an inline command, and to one without flush unless
\* that command is still processed.
OwnerInv ==
  \A w \in pending : \A k \in 1 .. Len(trace) : \A i \in 1 .. trace[k].len :
    Place[k] + i - 1 \in Units(w) =>
      \/ trace[k].kind = "noflush"
      \/ k = cur /\ trace[k].kind # "packed" /\ pc \in {"split", "next", "last"}

DataInv == ExecBufInv /\ PendingInv /\ OwnerInv /\ DataIntact


-----------------------------------------------------------------------------
(***************************************************************************)
(* Facts about the trace and the loads.                                    *)
(***************************************************************************)
\* Start and Place are sums.
LEMMA StartIsSum == IsSum(Start, Nat, [k \in Nat |-> Stride(trace[k])])
<1>. DEFINE X == [k \in Nat |-> Stride(trace[k])]
<1>1. PICK f : IsSum(f, Nat, X)
  BY SumOfAll
<1>2. f = [k \in Nat |-> IF k <= 1 THEN 0 ELSE f[k - 1] + X[k - 1]]
  BY <1>1 DEF IsSum
<1>3. \A k \in Nat : ~(k <= 1) => X[k - 1] = Stride(trace[k - 1])
  OBVIOUS
<1>. HIDE DEF X
<1>4. f = [k \in Nat |-> IF k <= 1 THEN 0 ELSE f[k - 1] + Stride(trace[k - 1])]
  BY <1>2, <1>3
<1>5. Start = [k \in Nat |-> IF k <= 1 THEN 0 ELSE Start[k - 1] + Stride(trace[k - 1])]
  BY <1>4 DEF Start
<1>6. Start = [k \in Nat |-> IF k <= 1 THEN 0 ELSE Start[k - 1] + X[k - 1]]
  BY <1>3, <1>5
<1>7. IsSum(Start, Nat, X)
  BY <1>6 DEF IsSum
<1>. QED  BY <1>7 DEF X

LEMMA PlaceIsSum == IsSum(Place, Nat, [k \in Nat |-> trace[k].len])
<1>. DEFINE X == [k \in Nat |-> trace[k].len]
<1>1. PICK f : IsSum(f, Nat, X)
  BY SumOfAll
<1>2. f = [k \in Nat |-> IF k <= 1 THEN 0 ELSE f[k - 1] + X[k - 1]]
  BY <1>1 DEF IsSum
<1>3. \A k \in Nat : ~(k <= 1) => X[k - 1] = trace[k - 1].len
  OBVIOUS
<1>. HIDE DEF X
<1>4. f = [k \in Nat |-> IF k <= 1 THEN 0 ELSE f[k - 1] + trace[k - 1].len]
  BY <1>2, <1>3
<1>5. Place = [k \in Nat |-> IF k <= 1 THEN 0 ELSE Place[k - 1] + trace[k - 1].len]
  BY <1>4 DEF Place
<1>6. Place = [k \in Nat |-> IF k <= 1 THEN 0 ELSE Place[k - 1] + X[k - 1]]
  BY <1>3, <1>5
<1>7. IsSum(Place, Nat, X)
  BY <1>6 DEF IsSum
<1>. QED  BY <1>7 DEF X

\* The commands of the trace.
LEMMA CommandFacts ==
  ASSUME trace \in Seq(Commands \cup {End}), NEW k \in 1 .. Len(trace)
  PROVE  /\ trace[k] \in Commands \cup {End} /\ trace[k].len \in Nat
         /\ Stride(trace[k]) \in Nat /\ Stride(trace[k]) >= 1 + trace[k].len
         /\ \E q \in Nat : Stride(trace[k]) = q * Align
<1>1. trace[k] \in Commands \cup {End}
  BY ElementOfSeq
<1>2. trace[k].len \in Nat
  <2>1. CASE trace[k] = End
    BY <2>1 DEF End
  <2>2. CASE trace[k] \in Commands
    <3>1. trace[k].len \in Lengths \cup {0}
      BY <2>2 DEF Commands
    <3>2. \A x \in Lengths \cup {0} : x \in Nat
      BY ExecBufAssumption
    <3>. QED  BY <3>1, <3>2
  <2>. QED  BY <1>1, <2>1, <2>2
<1>3. 1 + trace[k].len \in Nat /\ Align \in Nat \ {0}
  BY <1>2, ExecBufAssumption
<1>. QED  BY <1>1, <1>2, <1>3, RoundUpFacts DEF Stride

\* Where the commands are and where their data belongs.
LEMMA TraceFacts ==
  ASSUME trace \in Seq(Commands \cup {End})
  PROVE  /\ Len(trace) \in Nat /\ Start[1] = 0 /\ Place[1] = 0
         /\ \A k \in 1 .. Len(trace) + 1 : Start[k] \in Nat /\ Place[k] \in Nat
         /\ \A k \in 1 .. Len(trace) : /\ Start[k + 1] = Start[k] + Stride(trace[k])
                                       /\ Place[k + 1] = Place[k] + trace[k].len
         /\ \A j, k \in 1 .. Len(trace) + 1 : j <= k => Start[j] <= Start[k] /\ Place[j] <= Place[k]
<1>1. Len(trace) \in Nat
  BY LenProperties
<1>. DEFINE X == [k \in Nat |-> Stride(trace[k])]
            Y == [k \in Nat |-> trace[k].len]
<1>2. \A k \in 1 .. Len(trace) : /\ X[k] = Stride(trace[k]) /\ X[k] \in Nat
                                 /\ Y[k] = trace[k].len /\ Y[k] \in Nat
  BY <1>1, CommandFacts
<1>3. IsSum(Start, Nat, X) /\ IsSum(Place, Nat, Y)
  BY StartIsSum, PlaceIsSum
<1>. HIDE DEF X, Y
<1>4. /\ Start[1] = 0 /\ \A k \in 1 .. Len(trace) + 1 : Start[k] \in Nat
      /\ \A k \in 1 .. Len(trace) : Start[k + 1] = Start[k] + X[k]
      /\ \A j, k \in 1 .. Len(trace) + 1 : j <= k => Start[j] <= Start[k]
  BY ZenonT(40), <1>1, <1>2, <1>3, SumFacts
<1>5. /\ Place[1] = 0 /\ \A k \in 1 .. Len(trace) + 1 : Place[k] \in Nat
      /\ \A k \in 1 .. Len(trace) : Place[k + 1] = Place[k] + Y[k]
      /\ \A j, k \in 1 .. Len(trace) + 1 : j <= k => Place[j] <= Place[k]
  BY ZenonT(40), <1>1, <1>2, <1>3, SumFacts
<1>. QED  BY <1>1, <1>2, <1>4, <1>5

\* Commands are aligned, and the data takes less than the commands.
LEMMA AlignedFacts ==
  ASSUME trace \in Seq(Commands \cup {End})
  PROVE  \A k \in 1 .. Len(trace) + 1 : /\ \E q \in Nat : Start[k] = q * Align
                                        /\ Place[k] <= Start[k]
<1>1. Len(trace) \in Nat /\ Align \in Nat
  BY LenProperties, ExecBufAssumption
<1>. DEFINE T == {k \in Nat : k <= Len(trace) => /\ \E q \in Nat : Start[k + 1] = q * Align
                                                 /\ Place[k + 1] <= Start[k + 1]}
<1>2. 0 \in T
  <2>1. Start[0 + 1] = 0 * Align /\ Place[0 + 1] <= Start[0 + 1]
    BY <1>1, TraceFacts
  <2>. QED  BY <2>1
<1>3. ASSUME NEW k \in Nat, k \in T PROVE k + 1 \in T
  <2>. SUFFICES ASSUME k + 1 <= Len(trace)
                PROVE  /\ \E q \in Nat : Start[(k + 1) + 1] = q * Align
                       /\ Place[(k + 1) + 1] <= Start[(k + 1) + 1]
    OBVIOUS
  <2>1. PICK q \in Nat : Start[k + 1] = q * Align /\ Place[k + 1] <= Start[k + 1]
    <3>1. k <= Len(trace)
      BY <1>1
    <3>. QED  BY <1>3, <3>1
  <2>2. k + 1 \in 1 .. Len(trace) /\ k + 1 \in 1 .. Len(trace) + 1
    BY <1>1
  <2>3. PICK r \in Nat : Stride(trace[k + 1]) = r * Align
    BY <2>2, CommandFacts
  <2>4. /\ Start[(k + 1) + 1] = Start[k + 1] + Stride(trace[k + 1])
        /\ Place[(k + 1) + 1] = Place[k + 1] + trace[k + 1].len
        /\ Start[k + 1] \in Nat /\ Place[k + 1] \in Nat
    BY <2>2, TraceFacts
  <2>5. Stride(trace[k + 1]) \in Nat /\ trace[k + 1].len \in Nat
        /\ Stride(trace[k + 1]) >= 1 + trace[k + 1].len
    BY <2>2, CommandFacts
  <2>6. q * Align + r * Align = (q + r) * Align /\ q + r \in Nat
    BY <1>1
  <2>7. Start[(k + 1) + 1] = (q + r) * Align
    BY <2>1, <2>3, <2>4, <2>6
  <2>8. Place[(k + 1) + 1] <= Start[(k + 1) + 1]
    BY <2>1, <2>4, <2>5
  <2>. QED  BY <2>6, <2>7, <2>8
<1>4. Nat \subseteq T
  BY <1>2, <1>3, SetInduction
<1>5. ASSUME NEW k \in 1 .. Len(trace) + 1
      PROVE  (\E q \in Nat : Start[k] = q * Align) /\ Place[k] <= Start[k]
  <2>1. k - 1 \in Nat /\ (k - 1) + 1 = k /\ k - 1 <= Len(trace)
    BY <1>1
  <2>2. k - 1 \in T
    BY <1>4, <2>1
  <2>. QED  BY <2>1, <2>2
<1>. QED  BY <1>5

\* Nothing changes the trace, and what is computed from it.
LEMMA SameTrace ==
  ASSUME trace' = trace
  PROVE  Start' = Start /\ Place' = Place
<1>1. Start' = Start
  BY DEF Start
<1>2. Place' = Place
  BY DEF Place
<1>. QED  BY <1>1, <1>2

\* A load fits into cmddat_q.
LEMMA LoadFacts ==
  ASSUME page_id \in Nat, pages \in Nat
  PROVE  /\ Load \in 0 .. CmddatSize /\ AtOnce \in Nat
         /\ LoadEnd \in Nat /\ \E q \in Nat : LoadEnd = q * Align
         /\ (page_id + AtOnce) * PageSize = LoadEnd + Load
<1>1. PageSize \in Nat \ {0} /\ CmddatSize \in Nat /\ Align \in Nat \ {0}
  BY ExecBufAssumption
<1>. DEFINE d == CmddatSize \div PageSize
<1>2. d \in Nat /\ d * PageSize <= CmddatSize
  BY <1>1
<1>3. AtOnce = IF d > pages THEN pages ELSE d
  BY DEF AtOnce
<1>. HIDE DEF d
<1>4. AtOnce \in Nat /\ AtOnce <= d
  BY <1>2, <1>3
<1>5. \A x, y, z \in Nat : x <= y => x * z <= y * z
  OBVIOUS
<1>6. Load \in Nat /\ Load <= d * PageSize /\ d * PageSize \in Nat
  BY <1>1, <1>2, <1>4, <1>5 DEF Load
<1>7. \E r \in Nat : PageSize = r * Align
  <2>1. PageSize % Align = 0
    BY ExecBufAssumption
  <2>2. \A u \in Nat \ {0} : \A a \in Nat : a = u * (a \div u) + (a % u) /\ a \div u \in Nat
    OBVIOUS
  <2>3. PageSize = Align * (PageSize \div Align) + 0 /\ PageSize \div Align \in Nat
    BY <1>1, <2>1, <2>2
  <2>4. \A r \in Nat : Align * r + 0 = r * Align
    BY <1>1
  <2>. QED  BY <2>3, <2>4
<1>8. PICK r \in Nat : PageSize = r * Align
  BY <1>7
<1>9. page_id * (r * Align) = (page_id * r) * Align /\ page_id * r \in Nat
  BY <1>1
<1>10. LoadEnd \in Nat /\ LoadEnd = (page_id * r) * Align
  BY <1>1, <1>8, <1>9 DEF LoadEnd
<1>11. (page_id + AtOnce) * PageSize = page_id * PageSize + AtOnce * PageSize
  BY <1>1, <1>4
<1>12. Load \in 0 .. CmddatSize
  BY <1>1, <1>2, <1>6
<1>13. (page_id + AtOnce) * PageSize = LoadEnd + Load
  BY <1>11 DEF Load, LoadEnd
<1>. QED  BY <1>4, <1>9, <1>10, <1>12, <1>13


\* The pages of the trace buffer hold the trace.
LEMMA PagesFacts ==
  ASSUME trace \in Seq(Commands \cup {End})
  PROVE  Pages \in Nat /\ Start[Len(trace) + 1] <= Pages * PageSize
<1>1. PageSize \in Nat \ {0}
  BY ExecBufAssumption
<1>2. Start[Len(trace) + 1] \in Nat
  BY TraceFacts
<1>. DEFINE n == RoundUp(Start[Len(trace) + 1], PageSize)
<1>3. n \in Nat /\ Start[Len(trace) + 1] <= n
  BY <1>1, <1>2, RoundUpFacts
<1>4. PICK q \in Nat : n = q * PageSize
  BY <1>1, <1>2, RoundUpFacts
<1>5. Pages = n \div PageSize
  BY DEF Pages
<1>. HIDE DEF n
<1>6. n \div PageSize = q
  <2>. DEFINE d == n \div PageSize
              m == n % PageSize
  <2>1. n = PageSize * d + m /\ m \in 0 .. PageSize - 1 /\ d \in Nat
    <3>1. \A u \in Nat \ {0} : \A a \in Nat :
            a = u * (a \div u) + (a % u) /\ a % u \in 0 .. u - 1 /\ a \div u \in Nat
      OBVIOUS
    <3>. QED  BY <1>1, <1>3, <3>1
  <2>. HIDE DEF d, m
  <2>2. \A x \in Nat : PageSize * x = x * PageSize /\ x * PageSize \in Nat
    BY <1>1
  <2>3. CASE d < q
    <3>1. (d + 1) * PageSize <= q * PageSize /\ (d + 1) * PageSize = d * PageSize + PageSize
      BY <1>1, <2>1, <2>3
    <3>. QED  BY <1>1, <1>4, <2>1, <2>2, <3>1
  <2>4. CASE d > q
    <3>1. (q + 1) * PageSize <= d * PageSize /\ (q + 1) * PageSize = q * PageSize + PageSize
      BY <1>1, <2>1, <2>4
    <3>. QED  BY <1>1, <1>4, <2>1, <2>2, <3>1
  <2>. QED  BY <2>1, <2>3, <2>4 DEF d
<1>. QED  BY <1>3, <1>4, <1>5, <1>6

\* What is recorded is a list of commands that ends with EXEC_BUF_END.
LEMMA RecordedFacts ==
  ASSUME NEW t \in Recorded
  PROVE  t \in Seq(Commands \cup {End}) /\ Len(t) >= 1 /\ t[Len(t)] = End
<1>1. PICK s \in UNION {[1 .. n -> Commands] : n \in 0 .. MaxCommands} : t = Append(s, End)
  BY Zenon DEF Recorded
<1>2. PICK n \in Nat : s \in [1 .. n -> Commands]
  <2>1. \E n \in 0 .. MaxCommands : s \in [1 .. n -> Commands]
    BY Zenon
  <2>2. \A n \in 0 .. MaxCommands : n \in Nat
    BY ExecBufAssumption
  <2>. QED  BY <2>1, <2>2, Zenon
<1>3. s \in Seq(Commands \cup {End})
  BY <1>2
<1>4. Append(s, End) \in Seq(Commands \cup {End})
  BY <1>3
<1>5. Len(s) \in Nat /\ Len(Append(s, End)) = Len(s) + 1 /\ Append(s, End)[Len(s) + 1] = End
  BY <1>3
<1>. QED  BY <1>1, <1>4, <1>5

LEMMA InitInv == Init => DataInv
<1>. SUFFICES ASSUME Init PROVE DataInv
  OBVIOUS
<1>1. trace \in Recorded
  BY DEF Init
<1>2. trace \in Seq(Commands \cup {End}) /\ Len(trace) >= 1 /\ trace[Len(trace)] = End
  BY <1>1, RecordedFacts
<1>3. Pages \in Nat /\ Start[Len(trace) + 1] <= Pages * PageSize /\ Pages * PageSize <= MaxAddr
  BY <1>2, PagesFacts DEF Init
<1>4. Start[Len(trace) + 1] \in Nat /\ Len(trace) \in Nat /\ Start[1] = 0 /\ Place[1] = 0
  BY <1>2, TraceFacts
<1>5. TraceInv
  <2>1. Start[Len(trace) + 1] <= MaxAddr
    <3>1. Pages * PageSize \in Nat /\ MaxAddr \in Nat
      BY <1>3, ExecBufAssumption
    <3>. QED  BY <1>3, <1>4, <3>1
  <2>. QED  BY <1>2, <2>1 DEF TraceInv
<1>6. /\ pc = "fetch" /\ cur = 0 /\ page_id = 0 /\ length = 0 /\ pending = {} /\ issued = 0
      /\ pages = Pages /\ out = <<>>
  BY DEF Init
<1>7. TypeOK
  BY <1>3, ExecBufAssumption DEF Init, TypeOK
<1>8. LoadInv /\ WithinInv /\ pc # "lost"
  BY <1>6 DEF LoadInv, WithinInv
<1>9. BetweenInv
  <2>1. LoadEnd = 0
    BY <1>6, ExecBufAssumption DEF LoadEnd
  <2>. QED  BY <1>2, <1>4, <1>6, <2>1 DEF BetweenInv
<1>10. PendingInv /\ OwnerInv
  BY <1>6 DEF PendingInv, OwnerInv
<1>11. DataIntact
  <2>1. DOMAIN out = {} /\ hit = {}
    BY <1>6 DEF Init
  <2>. QED  BY <2>1 DEF DataIntact
<1>. QED  BY <1>5, <1>6, <1>7, <1>8, <1>9, <1>10, <1>11 DEF DataInv, ExecBufInv


-----------------------------------------------------------------------------
(***************************************************************************)
(* Every step keeps the positions right.                                   *)
(***************************************************************************)
\* What every step relies on.
LEMMA Basics ==
  ASSUME ExecBufInv
  PROVE  /\ CmddatSize \in Nat /\ MaxAddr \in Nat /\ Width \in Nat /\ MaxAddr < Width
         /\ CmddatSize < Width
         /\ page_id \in Nat /\ pages \in Nat /\ Load \in 0 .. CmddatSize /\ LoadEnd \in Nat
         /\ LoadBase = LoadEnd - Load
         /\ length \in 0 .. Width - 1 /\ Len(trace) \in Nat \ {0}
         /\ cmddat \in [0 .. CmddatSize - 1 -> 0 .. MaxAddr]
<1>1. page_id \in Nat /\ pages \in Nat /\ length \in 0 .. Width - 1
      /\ cmddat \in [0 .. CmddatSize - 1 -> 0 .. MaxAddr]
  BY DEF ExecBufInv, TypeOK
<1>2. Len(trace) \in Nat \ {0}
  <2>1. Len(trace) \in Nat
    BY LenProperties DEF ExecBufInv, TraceInv
  <2>. QED  BY <2>1 DEF ExecBufInv, TraceInv
<1>. QED  BY <1>1, <1>2, LoadFacts, ExecBufAssumption DEF LoadBase

\* A command of the trace.
LEMMA Command ==
  ASSUME ExecBufInv, NEW k \in 1 .. Len(trace)
  PROVE  /\ k + 1 \in 1 .. Len(trace) + 1
         /\ trace[k].len \in Nat /\ Start[k] \in Nat /\ Start[k + 1] \in Nat
         /\ Stride(trace[k]) \in Nat
         /\ Start[k + 1] = Start[k] + Stride(trace[k])
         /\ Stride(trace[k]) >= 1 + trace[k].len
         /\ Start[k + 1] <= MaxAddr
         /\ Place[k] \in Nat /\ Place[k + 1] = Place[k] + trace[k].len
         /\ Place[k + 1] \in Nat /\ Place[k + 1] <= MaxAddr
<1>1. trace \in Seq(Commands \cup {End}) /\ Start[Len(trace) + 1] <= MaxAddr
  BY DEF ExecBufInv, TraceInv
<1>2. Len(trace) \in Nat /\ MaxAddr \in Nat
  BY Basics
<1>3. /\ k \in 1 .. Len(trace) + 1 /\ k + 1 \in 1 .. Len(trace) + 1 /\ k + 1 <= Len(trace) + 1
      /\ Len(trace) + 1 \in 1 .. Len(trace) + 1
  BY <1>2
<1>4. /\ trace[k].len \in Nat /\ Stride(trace[k]) \in Nat
      /\ Stride(trace[k]) >= 1 + trace[k].len
  BY <1>1, CommandFacts
<1>5. /\ Start[k] \in Nat /\ Start[k + 1] \in Nat /\ Place[k] \in Nat /\ Place[k + 1] \in Nat
      /\ Start[k + 1] = Start[k] + Stride(trace[k]) /\ Place[k + 1] = Place[k] + trace[k].len
      /\ Start[k + 1] <= Start[Len(trace) + 1] /\ Start[Len(trace) + 1] \in Nat
  BY <1>1, <1>3, TraceFacts
<1>6. Place[k + 1] <= Start[k + 1]
  BY <1>1, <1>3, AlignedFacts
<1>7. Start[k + 1] <= MaxAddr /\ Place[k + 1] <= MaxAddr
  BY <1>1, <1>2, <1>5, <1>6
<1>. QED  BY <1>3, <1>4, <1>5, <1>7

\* The command that is processed.
LEMMA InCommand ==
  ASSUME ExecBufInv, pc \in {"split", "next", "last"}
  PROVE  /\ cur \in 1 .. Len(trace) /\ left \in 0 .. trace[cur].len /\ left \in Nat
         /\ issued + left = Place[cur + 1]
         /\ DataAt \in Nat /\ DataAt + left = Start[cur] + 1 + trace[cur].len
         /\ DataAt + left <= Start[cur + 1]
         /\ Start[cur + 1] \in Nat /\ Start[cur + 1] <= MaxAddr
         /\ issued \in Nat /\ issued + left <= MaxAddr
         /\ stride \in Nat /\ cmd_ptr \in Nat /\ data_ptr \in Nat /\ remaining \in Nat
<1>1. cur \in 1 .. Len(trace) /\ left \in 0 .. trace[cur].len /\ issued + left = Place[cur + 1]
  BY DEF ExecBufInv, WithinInv
<1>2. /\ issued \in Nat /\ stride \in Nat /\ cmd_ptr \in Nat /\ data_ptr \in Nat
      /\ remaining \in Nat
  BY Basics DEF ExecBufInv, TypeOK
<1>3. /\ trace[cur].len \in Nat /\ Start[cur] \in Nat /\ Start[cur + 1] \in Nat
      /\ Start[cur + 1] = Start[cur] + Stride(trace[cur])
      /\ Stride(trace[cur]) \in Nat
      /\ Stride(trace[cur]) >= 1 + trace[cur].len
      /\ Start[cur + 1] <= MaxAddr /\ Place[cur + 1] <= MaxAddr
  BY <1>1, Command
<1>4. left \in Nat /\ left <= trace[cur].len
  BY <1>1, <1>3
<1>5. DataAt \in Nat /\ DataAt + left = Start[cur] + 1 + trace[cur].len
  BY <1>3, <1>4 DEF DataAt
<1>6. DataAt + left <= Start[cur + 1]
  BY <1>3, <1>5
<1>. QED  BY <1>1, <1>2, <1>3, <1>4, <1>5, <1>6

\* What a load does.
LEMMA Fetching ==
  ASSUME ExecBufInv, trace' = trace, length = 0, Fetch(length)
  PROVE  /\ length' = Load /\ page_id' \in Nat /\ pages' = pages
         /\ Load' = Load /\ LoadEnd' = LoadEnd + Load /\ LoadBase' = LoadEnd
         /\ cmddat' \in [0 .. CmddatSize - 1 -> 0 .. MaxAddr]
         /\ \A a \in 0 .. Load - 1 : LoadEnd + a < MaxAddr => cmddat'[a] = LoadEnd + a
<1>1. /\ page_id' = page_id + AtOnce /\ pages' = pages /\ length' = (0 + Load) % Width
  BY DEF Fetch, Load
<1>2. /\ page_id \in Nat /\ pages \in Nat /\ Load \in 0 .. CmddatSize /\ LoadEnd \in Nat
      /\ CmddatSize < Width /\ CmddatSize \in Nat /\ Width \in Nat /\ MaxAddr \in Nat
      /\ cmddat \in [0 .. CmddatSize - 1 -> 0 .. MaxAddr]
  BY Basics
<1>3. AtOnce \in Nat /\ (page_id + AtOnce) * PageSize = LoadEnd + Load
  BY <1>2, LoadFacts
<1>4. length' = Load
  <2>1. \A x, w \in Nat : x < w => x % w = x
    OBVIOUS
  <2>2. Load \in Nat /\ Load < Width /\ 0 + Load = Load
    BY <1>2
  <2>. QED  BY <1>1, <1>2, <2>1, <2>2
<1>5. Load' = Load /\ LoadEnd' = LoadEnd + Load
  BY <1>1, <1>3 DEF Load, LoadEnd, AtOnce
<1>6. LoadBase' = LoadEnd
  BY <1>2, <1>5 DEF LoadBase
<1>7. cmddat' = [a \in 0 .. CmddatSize - 1 |->
                   IF a < Load /\ LoadEnd + a < MaxAddr THEN LoadEnd + a
                   ELSE IF a < Load THEN MaxAddr ELSE cmddat[a]]
  BY DEF Fetch, Load, LoadEnd
<1>8. cmddat' \in [0 .. CmddatSize - 1 -> 0 .. MaxAddr]
  <2>1. \A a \in 0 .. CmddatSize - 1 :
          (IF a < Load /\ LoadEnd + a < MaxAddr THEN LoadEnd + a
           ELSE IF a < Load THEN MaxAddr ELSE cmddat[a]) \in 0 .. MaxAddr
    BY <1>2
  <2>. QED  BY <1>7, <2>1
<1>9. ASSUME NEW a \in 0 .. Load - 1, LoadEnd + a < MaxAddr PROVE cmddat'[a] = LoadEnd + a
  <2>1. a \in 0 .. CmddatSize - 1 /\ a < Load
    BY <1>2
  <2>. QED  BY <1>7, <1>9, <2>1
<1>. QED  BY <1>1, <1>2, <1>3, <1>4, <1>5, <1>6, <1>8, <1>9


\* The trace and its pages stay what they are.
LEMMA TraceStep ==
  ASSUME ExecBufInv, trace' = trace, pages' = pages
  PROVE  TraceInv' /\ pages' = Pages' /\ Start' = Start /\ Place' = Place /\ Load' = Load
<1>1. Start' = Start /\ Place' = Place
  BY SameTrace
<1>2. Pages' = Pages
  BY <1>1 DEF Pages
<1>. QED  BY <1>1, <1>2 DEF ExecBufInv, TraceInv, Load, AtOnce

LEMMA FetchNextInv ==
  ASSUME ExecBufInv, FetchNext
  PROVE  ExecBufInv'
<1>1. /\ pc = "fetch" /\ pc' = "commands" /\ Fetch(length) /\ cmd_ptr' = 0
      /\ UNCHANGED <<trace, cur, data_ptr, left, stride, remaining, remaining_stride,
                     issued, out, pending>>
  BY DEF FetchNext
<1>2. /\ length = 0 /\ cur \in 0 .. Len(trace) - 1 /\ issued = Place[cur + 1]
      /\ LoadEnd - length = Start[cur + 1]
  BY <1>1 DEF ExecBufInv, BetweenInv
<1>3. /\ length' = Load /\ page_id' \in Nat /\ pages' = pages
      /\ Load' = Load /\ LoadEnd' = LoadEnd + Load /\ LoadBase' = LoadEnd
      /\ cmddat' \in [0 .. CmddatSize - 1 -> 0 .. MaxAddr]
      /\ \A a \in 0 .. Load - 1 : LoadEnd + a < MaxAddr => cmddat'[a] = LoadEnd + a
  BY <1>1, <1>2, Fetching
<1>4. /\ Load \in 0 .. CmddatSize /\ LoadEnd \in Nat /\ CmddatSize < Width
      /\ CmddatSize \in Nat /\ Width \in Nat
  BY Basics
<1>5. TraceInv' /\ pages' = Pages' /\ Start' = Start /\ Place' = Place
  BY <1>1, <1>3, TraceStep
<1>6. TypeOK'
  <2>1. length' \in 0 .. Width - 1 /\ cmd_ptr' \in 0 .. CmddatSize
    BY <1>1, <1>3, <1>4
  <2>. QED  BY <1>1, <1>3, <2>1 DEF ExecBufInv, TypeOK
<1>7. LoadInv'
  BY <1>3, <1>4 DEF LoadInv
<1>8. BetweenInv'
  BY <1>1, <1>2, <1>3, <1>4, <1>5 DEF BetweenInv
<1>9. WithinInv' /\ pc' # "lost"
  BY <1>1 DEF WithinInv
<1>. QED  BY <1>5, <1>6, <1>7, <1>8, <1>9 DEF ExecBufInv

\* The command at cmd_ptr is the next one.
LEMMA ProcessCmdInv ==
  ASSUME ExecBufInv, ProcessCmd
  PROVE  ExecBufInv'
<1>1. /\ pc = "commands" /\ length > 0
      /\ UNCHANGED <<trace, state, cmddat, cmd_ptr, issued, out, pending>>
  BY DEF ProcessCmd
<1>2. /\ cur \in 0 .. Len(trace) - 1 /\ issued = Place[cur + 1]
      /\ LoadEnd - length = Start[cur + 1] /\ cmd_ptr = Load - length /\ length <= Load
  BY <1>1 DEF ExecBufInv, BetweenInv
<1>3. /\ Load \in 0 .. CmddatSize /\ LoadEnd \in Nat /\ LoadBase = LoadEnd - Load
      /\ CmddatSize < Width /\ CmddatSize \in Nat /\ Width \in Nat /\ MaxAddr \in Nat
      /\ MaxAddr < Width
      /\ length \in 0 .. Width - 1 /\ Len(trace) \in Nat \ {0}
  BY Basics
<1>. DEFINE n == cur + 1
<1>4. n \in 1 .. Len(trace)
  BY <1>2, <1>3
<1>5. /\ trace[n].len \in Nat /\ Start[n] \in Nat /\ Start[n + 1] \in Nat
      /\ Stride(trace[n]) \in Nat
      /\ Start[n + 1] = Start[n] + Stride(trace[n]) /\ Stride(trace[n]) >= 1 + trace[n].len
      /\ Start[n + 1] <= MaxAddr
      /\ Place[n] \in Nat /\ Place[n + 1] = Place[n] + trace[n].len
  BY <1>4, Command
<1>6. Start[n] = LoadEnd - length /\ issued = Place[n]
  BY <1>2
<1>. HIDE DEF n
<1>7. cmd_ptr \in 0 .. Load - 1 /\ LoadBase + cmd_ptr = Start[n] /\ Start[n] < MaxAddr
  BY <1>1, <1>2, <1>3, <1>5, <1>6
<1>8. LoadBase >= 0 /\ cmddat[cmd_ptr] = Start[n]
  BY <1>1, <1>7 DEF ExecBufInv, LoadInv
<1>9. ASSUME NEW k \in 1 .. Len(trace), Start[n] = Start[k] PROVE k = n
  <2>1. trace \in Seq(Commands \cup {End})
    BY DEF ExecBufInv, TraceInv
  <2>2. CASE k < n
    <3>1. k + 1 \in 1 .. Len(trace) + 1 /\ n \in 1 .. Len(trace) + 1 /\ k + 1 <= n
      BY <1>3, <1>4, <2>2
    <3>2. Start[k + 1] <= Start[n]
      BY <2>1, <3>1, TraceFacts
    <3>3. /\ Start[k + 1] = Start[k] + Stride(trace[k]) /\ Stride(trace[k]) >= 1 + trace[k].len
          /\ Start[k] \in Nat /\ trace[k].len \in Nat /\ Stride(trace[k]) \in Nat
      BY Command
    <3>. QED  BY SMTT(30), <1>5, <1>9, <3>2, <3>3
  <2>3. CASE n < k
    <3>1. n + 1 \in 1 .. Len(trace) + 1 /\ k \in 1 .. Len(trace) + 1 /\ n + 1 <= k
      BY <1>3, <1>4, <2>3
    <3>2. Start[n + 1] <= Start[k]
      BY <2>1, <3>1, TraceFacts
    <3>3. Start[n + 1] > Start[n] /\ Start[k] \in Nat
      BY SMTT(30), <1>5, Command
    <3>. QED  BY <1>5, <1>9, <3>2, <3>3
  <2>. QED  BY <1>3, <1>4, <2>2, <2>3
<1>10. (CHOOSE k \in 1 .. Len(trace) : cmddat[cmd_ptr] = Start[k]) = n
  BY <1>4, <1>8, <1>9
<1>11. cur' = n /\ StartCommand(trace[n])
  <2>1. cmd_ptr < CmddatSize /\ \E k \in 1 .. Len(trace) : cmddat[cmd_ptr] = Start[k]
    BY <1>3, <1>4, <1>7, <1>8
  <2>. QED  BY <1>10, <2>1 DEF ProcessCmd
<1>12. /\ left' = trace[n].len /\ stride' = Stride(trace[n]) /\ data_ptr' = cmd_ptr + 1
       /\ remaining' = length - 1 /\ remaining_stride' = length /\ pc' = "split"
  BY <1>11 DEF StartCommand
<1>13. /\ TraceInv' /\ pages' = Pages' /\ Start' = Start /\ Place' = Place /\ Load' = Load
       /\ LoadEnd' = LoadEnd /\ LoadBase' = LoadBase
  BY <1>1, TraceStep DEF state, LoadEnd, LoadBase
<1>14. TypeOK'
  <2>1. stride' \in 0 .. Width - 1 /\ remaining' \in 0 .. Width - 1 /\ left' \in Nat
        /\ data_ptr' \in 0 .. CmddatSize
    BY <1>1, <1>3, <1>5, <1>7, <1>12
  <2>. QED  BY <1>1, <1>12, <2>1 DEF ExecBufInv, TypeOK, state
<1>15. LoadInv'
  BY <1>1, <1>8, <1>13 DEF ExecBufInv, LoadInv, state
<1>16. BetweenInv' /\ pc' # "lost"
  BY <1>12 DEF BetweenInv
<1>17. WithinInv'
  <2>1. trace'[cur'].len = trace[n].len /\ Start'[cur'] = Start[n] /\ Start'[cur' + 1] = Start[n + 1]
        /\ Place'[cur' + 1] = Place[n + 1]
    BY <1>1, <1>11, <1>13
  <2>2. DataAt' = Start[n] + 1
    BY <1>5, <1>12, <2>1 DEF DataAt
  <2>3. cur' \in 1 .. Len(trace') /\ left' \in 0 .. trace'[cur'].len /\ cmd_ptr' \in Nat
    BY <1>1, <1>3, <1>4, <1>5, <1>7, <1>11, <1>12, <2>1
  <2>4. issued' + left' = Place'[cur' + 1]
    BY <1>1, <1>5, <1>6, <1>12, <2>1
  <2>5. /\ LoadBase' + data_ptr' = DataAt' /\ data_ptr' + remaining' = Load'
        /\ remaining_stride' = length' /\ data_ptr' >= 0 /\ remaining' >= 0
    BY <1>1, <1>2, <1>3, <1>7, <1>12, <1>13, <2>2 DEF state
  <2>6. /\ length' = Load' - cmd_ptr' /\ length' >= 0
        /\ LoadBase' + cmd_ptr' + stride' = Start'[cur' + 1]
    BY <1>1, <1>2, <1>3, <1>5, <1>7, <1>12, <1>13, <2>1 DEF state
  <2>. QED  BY <1>12, <2>3, <2>4, <2>5, <2>6 DEF WithinInv
<1>. QED  BY <1>13, <1>14, <1>15, <1>16, <1>17 DEF ExecBufInv

LEMMA LoadDoneInv ==
  ASSUME ExecBufInv, LoadDone
  PROVE  ExecBufInv'
<1>1. /\ pc = "commands" /\ length = 0 /\ pc' = "fetch"
      /\ UNCHANGED <<trace, state, cmddat, cur, local, issued, out, pending>>
  BY DEF LoadDone
<1>2. /\ TraceInv' /\ pages' = Pages' /\ Start' = Start /\ Place' = Place /\ Load' = Load
      /\ LoadEnd' = LoadEnd /\ LoadBase' = LoadBase
  BY <1>1, TraceStep DEF state, LoadEnd, LoadBase
<1>3. TypeOK'
  BY <1>1 DEF ExecBufInv, TypeOK, state, local
<1>4. LoadInv' /\ WithinInv' /\ pc' # "lost"
  BY <1>1 DEF LoadInv, WithinInv
<1>5. BetweenInv'
  BY <1>1, <1>2 DEF ExecBufInv, BetweenInv, state
<1>. QED  BY <1>2, <1>3, <1>4, <1>5 DEF ExecBufInv


\* Handing on so many units from data_ptr.
LEMMA Moving ==
  ASSUME ExecBufInv, NEW kind, NEW size \in Nat, data_ptr + size <= CmddatSize, Move(kind, size)
  PROVE  issued' = issued + size /\ \A w \in pending' : w.from + w.size <= CmddatSize
<1>1. \A w \in pending : w.from + w.size <= CmddatSize
  BY DEF ExecBufInv, TypeOK
<1>2. CASE kind = "packed"
  BY <1>1, <1>2 DEF Move, Copy
<1>3. CASE kind # "packed"
  <2>1. issued' = issued + size
    BY <1>3 DEF Move, Write
  <2>2. ASSUME NEW w \in pending' PROVE w.from + w.size <= CmddatSize
    <3>. DEFINE new == [at |-> issued, from |-> data_ptr, size |-> size]
    <3>1. w \in pending \/ w = new
      BY <1>3 DEF Move, Write
    <3>2. new.from + new.size <= CmddatSize
      OBVIOUS
    <3>. HIDE DEF new
    <3>. QED  BY <1>1, <3>1, <3>2
  <2>. QED  BY <2>1, <2>2
<1>. QED  BY <1>2, <1>3

LEMMA SplitWriteInv ==
  ASSUME ExecBufInv, SplitWrite
  PROVE  ExecBufInv'
<1>1. /\ pc = "split" /\ left > remaining /\ Move(trace[cur].kind, remaining)
      /\ left' = left - remaining
      /\ length' = 0 /\ data_ptr' = 0 /\ cmd_ptr' = 0 /\ pc' = "next"
      /\ UNCHANGED <<trace, page_id, pages, cmddat, cur, remaining, remaining_stride>>
  BY DEF SplitWrite
<1>0. stride' = (stride + Width - remaining_stride) % Width
  BY DEF SplitWrite
<1>2. /\ cur \in 1 .. Len(trace) /\ left \in 0 .. trace[cur].len /\ left \in Nat
      /\ issued + left = Place[cur + 1]
      /\ DataAt \in Nat /\ DataAt + left = Start[cur] + 1 + trace[cur].len
      /\ DataAt + left <= Start[cur + 1]
      /\ Start[cur + 1] \in Nat /\ Start[cur + 1] <= MaxAddr
      /\ issued \in Nat /\ issued + left <= MaxAddr
      /\ stride \in Nat /\ cmd_ptr \in Nat /\ data_ptr \in Nat /\ remaining \in Nat
  BY <1>1, InCommand
<1>3. /\ LoadBase + data_ptr = DataAt /\ data_ptr + remaining = Load
      /\ remaining_stride = length /\ length = Load - cmd_ptr
      /\ LoadBase + cmd_ptr + stride = Start[cur + 1] /\ LoadBase >= 0
  BY <1>1 DEF ExecBufInv, WithinInv, LoadInv
<1>4. /\ Load \in 0 .. CmddatSize /\ LoadEnd \in Nat /\ LoadBase = LoadEnd - Load
      /\ CmddatSize < Width /\ CmddatSize \in Nat /\ Width \in Nat /\ MaxAddr \in Nat
      /\ MaxAddr < Width /\ length \in 0 .. Width - 1
  BY Basics
<1>5. issued' = issued + remaining /\ \A w \in pending' : w.from + w.size <= CmddatSize
  <2>1. data_ptr + remaining <= CmddatSize
    BY <1>3, <1>4
  <2>. QED  BY <1>1, <1>2, <2>1, Moving
<1>6. stride' = stride - length /\ stride > length
  <2>1. stride > length /\ stride < Width
    BY <1>1, <1>2, <1>3, <1>4
  <2>2. \A x, w \in Nat : x < w => (x + w) % w = x
    OBVIOUS
  <2>. DEFINE x == stride - length
  <2>3. x \in Nat /\ x < Width /\ stride + Width - remaining_stride = x + Width
    <3>1. stride \in Nat /\ length \in Nat /\ Width \in Nat /\ remaining_stride = length
      BY <1>2, <1>3, <1>4
    <3>. QED  BY <2>1, <3>1
  <2>. HIDE DEF x
  <2>4. stride' = x
    BY <1>0, <1>4, <2>2, <2>3
  <2>. QED  BY <2>1, <2>4 DEF x
<1>7. /\ TraceInv' /\ pages' = Pages' /\ Start' = Start /\ Place' = Place /\ Load' = Load
      /\ LoadEnd' = LoadEnd /\ LoadBase' = LoadBase
  BY <1>1, TraceStep DEF LoadEnd, LoadBase
<1>8. TypeOK'
  <2>1. /\ left' \in Nat /\ stride' \in 0 .. Width - 1 /\ length' \in 0 .. Width - 1
        /\ issued' \in 0 .. MaxAddr /\ data_ptr' \in 0 .. CmddatSize /\ cmd_ptr' \in 0 .. CmddatSize
    BY <1>1, <1>2, <1>3, <1>4, <1>5, <1>6
  <2>. QED  BY <1>1, <1>5, <2>1 DEF ExecBufInv, TypeOK
<1>9. LoadInv' /\ BetweenInv' /\ pc' # "lost"
  BY <1>1 DEF LoadInv, BetweenInv
<1>10. WithinInv'
  <2>1. trace'[cur'].len = trace[cur].len /\ Start'[cur'] = Start[cur]
        /\ Start'[cur' + 1] = Start[cur + 1] /\ Place'[cur' + 1] = Place[cur + 1]
    BY <1>1, <1>7
  <2>2. trace[cur].len \in Nat /\ Start[cur] \in Nat
    BY <1>2, Command
  <2>3. DataAt' = DataAt + remaining
    <3>1. /\ DataAt = Start[cur] + 1 + (trace[cur].len - left)
          /\ DataAt' = Start[cur] + 1 + (trace[cur].len - left')
      BY <2>1 DEF DataAt
    <3>2. left' = left - remaining /\ left \in Nat /\ remaining \in Nat
      BY <1>1, <1>2
    <3>. QED  BY <2>2, <3>1, <3>2
  <2>4. LoadEnd' = DataAt' /\ LoadEnd' + stride' = Start'[cur' + 1]
    <3>1. LoadEnd = DataAt + remaining
      BY <1>2, <1>3, <1>4
    <3>2. LoadEnd + (stride - length) = Start[cur + 1]
      BY <1>2, <1>3, <1>4
    <3>. QED  BY <1>6, <1>7, <2>1, <2>3, <3>1, <3>2
  <2>5. /\ cur' \in 1 .. Len(trace') /\ left' \in 0 .. trace'[cur'].len /\ cmd_ptr' \in Nat
        /\ issued' + left' = Place'[cur' + 1] /\ left' > 0
    <3>1. /\ left' = left - remaining /\ left \in Nat /\ remaining \in Nat /\ issued \in Nat
          /\ left <= trace[cur].len /\ left > remaining /\ issued + left = Place[cur + 1]
      BY <1>1, <1>2, <2>2
    <3>2. left' \in 0 .. trace[cur].len /\ left' > 0 /\ issued' + left' = Place[cur + 1]
      BY <1>5, <2>2, <3>1
    <3>. QED  BY <1>1, <1>2, <2>1, <3>2
  <2>. QED  BY <1>1, <2>4, <2>5 DEF WithinInv
<1>. QED  BY <1>7, <1>8, <1>9, <1>10 DEF ExecBufInv

LEMMA SplitFetchInv ==
  ASSUME ExecBufInv, SplitFetch
  PROVE  ExecBufInv'
<1>1. /\ pc = "next" /\ Fetch(length) /\ remaining' = length' /\ remaining_stride' = length'
      /\ pc' = "split"
      /\ UNCHANGED <<trace, cur, cmd_ptr, data_ptr, left, stride, issued, out, pending>>
  BY DEF SplitFetch
<1>2. /\ LoadEnd = DataAt /\ length = 0 /\ cmd_ptr = 0 /\ data_ptr = 0
      /\ LoadEnd + stride = Start[cur + 1]
      /\ cur \in 1 .. Len(trace) /\ left \in 0 .. trace[cur].len
      /\ issued + left = Place[cur + 1]
  BY <1>1 DEF ExecBufInv, WithinInv
<1>3. /\ length' = Load /\ page_id' \in Nat /\ pages' = pages
      /\ Load' = Load /\ LoadEnd' = LoadEnd + Load /\ LoadBase' = LoadEnd
      /\ cmddat' \in [0 .. CmddatSize - 1 -> 0 .. MaxAddr]
      /\ \A a \in 0 .. Load - 1 : LoadEnd + a < MaxAddr => cmddat'[a] = LoadEnd + a
  BY <1>1, <1>2, Fetching
<1>4. /\ Load \in 0 .. CmddatSize /\ LoadEnd \in Nat /\ CmddatSize < Width
      /\ CmddatSize \in Nat /\ Width \in Nat
  BY Basics
<1>5. TraceInv' /\ pages' = Pages' /\ Start' = Start /\ Place' = Place
  BY <1>1, <1>3, TraceStep
<1>6. TypeOK'
  <2>1. length' \in 0 .. Width - 1 /\ remaining' \in 0 .. Width - 1
    BY <1>1, <1>3, <1>4
  <2>. QED  BY <1>1, <1>3, <2>1 DEF ExecBufInv, TypeOK
<1>7. LoadInv'
  BY <1>3, <1>4 DEF LoadInv
<1>8. BetweenInv' /\ pc' # "lost"
  BY <1>1 DEF BetweenInv
<1>9. WithinInv'
  <2>1. DataAt' = DataAt
    BY <1>1, <1>5 DEF DataAt
  <2>2. /\ Start'[cur' + 1] = Start[cur + 1] /\ Place'[cur' + 1] = Place[cur + 1]
        /\ trace'[cur'].len = trace[cur].len
    BY <1>1, <1>5
  <2>3. /\ cur' \in 1 .. Len(trace') /\ left' \in 0 .. trace'[cur'].len
        /\ issued' + left' = Place'[cur' + 1] /\ cmd_ptr' \in Nat
    BY <1>1, <1>2, <2>2
  <2>4. /\ LoadBase' + data_ptr' = DataAt' /\ data_ptr' + remaining' = Load'
        /\ remaining_stride' = length' /\ data_ptr' >= 0 /\ remaining' >= 0
    BY <1>1, <1>2, <1>3, <1>4, <2>1
  <2>5. /\ length' = Load' - cmd_ptr' /\ length' >= 0
        /\ LoadBase' + cmd_ptr' + stride' = Start'[cur' + 1]
    <3>1. stride \in Nat
      BY <1>1, InCommand
    <3>. QED  BY <1>1, <1>2, <1>3, <1>4, <2>2, <3>1
  <2>. QED  BY <1>1, <2>3, <2>4, <2>5 DEF WithinInv
<1>. QED  BY <1>5, <1>6, <1>7, <1>8, <1>9 DEF ExecBufInv


\* A command whose data ends in this load ends there with its padding as well:
\* commands and loads are aligned.
LEMMA PaddingHere ==
  ASSUME ExecBufInv, pc = "split", left <= remaining
  PROVE  Start[cur + 1] <= LoadEnd
<1>1. /\ cur \in 1 .. Len(trace) /\ DataAt \in Nat /\ left \in Nat /\ remaining \in Nat
      /\ data_ptr \in Nat /\ DataAt + left = Start[cur] + 1 + trace[cur].len
  BY InCommand
<1>2. LoadBase + data_ptr = DataAt /\ data_ptr + remaining = Load
  BY DEF ExecBufInv, WithinInv
<1>3. Load \in Nat /\ LoadEnd \in Nat /\ LoadBase = LoadEnd - Load
  BY Basics
<1>4. DataAt + left <= LoadEnd
  BY <1>1, <1>2, <1>3
<1>5. PICK q \in Nat : LoadEnd = q * Align
  BY LoadFacts, Basics
<1>6. PICK r \in Nat : Start[cur] = r * Align
  <2>1. trace \in Seq(Commands \cup {End}) /\ cur \in 1 .. Len(trace) + 1
    BY <1>1, Basics DEF ExecBufInv, TraceInv
  <2>. QED  BY <2>1, AlignedFacts
<1>7. /\ trace[cur].len \in Nat /\ Start[cur] \in Nat
      /\ Start[cur + 1] = Start[cur] + Stride(trace[cur]) /\ Stride(trace[cur]) \in Nat
  BY <1>1, Command
<1>8. Align \in Nat \ {0}
  BY ExecBufAssumption
<1>. DEFINE n == 1 + trace[cur].len
<1>9. n \in Nat /\ Start[cur] + n <= LoadEnd
  <2>1. n \in Nat /\ Start[cur] + n = Start[cur] + 1 + trace[cur].len
    BY <1>7
  <2>. QED  BY <1>1, <1>4, <2>1
<1>10. q - r \in Nat /\ (q - r) * Align = LoadEnd - Start[cur]
  <2>1. (q - r) * Align = q * Align - r * Align
    BY <1>8
  <2>2. q >= r
    <3>. SUFFICES ASSUME q < r PROVE FALSE
      OBVIOUS
    <3>1. q * Align <= r * Align
      BY <1>8
    <3>. QED  BY <1>5, <1>6, <1>7, <1>9, <3>1
  <2>. QED  BY <1>5, <1>6, <2>1, <2>2
<1>11. RoundUp(n, Align) <= (q - r) * Align
  <2>1. n <= (q - r) * Align
    BY <1>3, <1>7, <1>9, <1>10
  <2>. QED  BY <1>8, <1>9, <1>10, <2>1, RoundUpFacts
<1>12. Stride(trace[cur]) <= LoadEnd - Start[cur]
  BY <1>10, <1>11 DEF Stride
<1>. QED  BY <1>3, <1>7, <1>12

LEMMA SplitEndInv ==
  ASSUME ExecBufInv, SplitEnd
  PROVE  ExecBufInv'
<1>1. /\ pc = "split" /\ left <= remaining /\ Move(trace[cur].kind, left)
      /\ left' = 0 /\ pc' = "last"
      /\ UNCHANGED <<trace, state, cmddat, cur, cmd_ptr, data_ptr, stride, remaining,
                     remaining_stride>>
  BY DEF SplitEnd
<1>2. /\ cur \in 1 .. Len(trace) /\ left \in Nat /\ issued + left = Place[cur + 1]
      /\ issued \in Nat /\ issued + left <= MaxAddr
      /\ stride \in Nat /\ cmd_ptr \in Nat /\ data_ptr \in Nat /\ remaining \in Nat
  BY <1>1, InCommand
<1>3. /\ data_ptr + remaining = Load /\ length = Load - cmd_ptr /\ length >= 0
      /\ LoadBase + cmd_ptr + stride = Start[cur + 1]
  BY <1>1 DEF ExecBufInv, WithinInv
<1>4. /\ Load \in 0 .. CmddatSize /\ LoadEnd \in Nat /\ LoadBase = LoadEnd - Load
      /\ CmddatSize \in Nat /\ MaxAddr \in Nat
  BY Basics
<1>5. issued' = issued + left /\ \A w \in pending' : w.from + w.size <= CmddatSize
  <2>1. data_ptr + left <= CmddatSize
    BY <1>1, <1>2, <1>3, <1>4
  <2>. QED  BY <1>1, <1>2, <2>1, Moving
<1>6. stride <= length
  <2>1. Start[cur + 1] <= LoadEnd
    BY <1>1, PaddingHere
  <2>2. Start[cur + 1] \in Nat
    BY <1>2, Command
  <2>. QED  BY <1>2, <1>3, <1>4, <2>1, <2>2
<1>7. /\ TraceInv' /\ pages' = Pages' /\ Start' = Start /\ Place' = Place /\ Load' = Load
      /\ LoadEnd' = LoadEnd /\ LoadBase' = LoadBase
  BY <1>1, TraceStep DEF LoadEnd, LoadBase, state
<1>8. TypeOK'
  <2>1. left' \in Nat /\ issued' \in 0 .. MaxAddr
    BY <1>1, <1>2, <1>4, <1>5
  <2>. QED  BY <1>1, <1>5, <2>1 DEF ExecBufInv, TypeOK, state
<1>9. LoadInv'
  BY <1>1, <1>7 DEF ExecBufInv, LoadInv, state
<1>10. BetweenInv' /\ pc' # "lost"
  BY <1>1 DEF BetweenInv
<1>11. WithinInv'
  <2>1. /\ trace'[cur'].len = trace[cur].len /\ Start'[cur' + 1] = Start[cur + 1]
        /\ Place'[cur' + 1] = Place[cur + 1] /\ trace[cur].len \in Nat
    BY <1>1, <1>2, <1>7, Command
  <2>2. /\ cur' \in 1 .. Len(trace') /\ left' \in 0 .. trace'[cur'].len
        /\ issued' + left' = Place'[cur' + 1] /\ cmd_ptr' \in Nat
    BY <1>1, <1>2, <1>5, <2>1
  <2>3. /\ length' = Load' - cmd_ptr' /\ length' >= 0 /\ stride' <= length'
        /\ LoadBase' + cmd_ptr' + stride' = Start'[cur' + 1]
    BY <1>1, <1>3, <1>6, <1>7, <2>1 DEF state
  <2>. QED  BY <1>1, <2>2, <2>3 DEF WithinInv
<1>. QED  BY <1>7, <1>8, <1>9, <1>10, <1>11 DEF ExecBufInv

LEMMA FinishInv ==
  ASSUME ExecBufInv, Finish
  PROVE  ExecBufInv'
<1>1. /\ pc = "last"
      /\ UNCHANGED <<trace, page_id, pages, cmddat, cur, data_ptr, left, stride, remaining,
                     remaining_stride, issued, out, pending>>
  BY DEF Finish
<1>2. /\ cur \in 1 .. Len(trace) /\ left \in Nat /\ issued + left = Place[cur + 1]
      /\ issued \in Nat /\ stride \in Nat /\ cmd_ptr \in Nat
      /\ Start[cur + 1] \in Nat
  BY <1>1, InCommand
<1>3. /\ length = Load - cmd_ptr /\ length >= 0 /\ left = 0 /\ stride <= length
      /\ LoadBase + cmd_ptr + stride = Start[cur + 1]
  BY <1>1 DEF ExecBufInv, WithinInv
<1>4. /\ Load \in 0 .. CmddatSize /\ LoadEnd \in Nat /\ LoadBase = LoadEnd - Load
      /\ CmddatSize \in Nat /\ Width \in Nat /\ length \in 0 .. Width - 1
      /\ Len(trace) \in Nat
  BY Basics
<1>5. /\ TraceInv' /\ pages' = Pages' /\ Start' = Start /\ Place' = Place /\ Load' = Load
      /\ LoadEnd' = LoadEnd /\ LoadBase' = LoadBase
  BY <1>1, TraceStep DEF LoadEnd, LoadBase
<1>6. CASE trace[cur].kind = "end"
  <2>1. pc' = "done" /\ UNCHANGED <<length, cmd_ptr>>
    BY <1>6 DEF Finish
  <2>2. TypeOK'
    BY <1>1, <2>1 DEF ExecBufInv, TypeOK
  <2>3. LoadInv' /\ BetweenInv' /\ WithinInv' /\ pc' # "lost"
    BY <2>1 DEF LoadInv, BetweenInv, WithinInv
  <2>. QED  BY <1>5, <2>2, <2>3 DEF ExecBufInv
<1>7. CASE trace[cur].kind # "end"
  <2>1. pc' = "commands" /\ Advance
    BY <1>7 DEF Finish
  <2>2. length' = length - stride /\ length' \in 0 .. Width - 1
    <3>. DEFINE x == length - stride
    <3>1. x \in Nat /\ x < Width /\ length + Width - stride = x + Width
      BY <1>2, <1>3, <1>4
    <3>2. length' = (length + Width - stride) % Width
      BY <2>1 DEF Advance
    <3>3. \A y, w \in Nat : y < w => (y + w) % w = y
      OBVIOUS
    <3>. HIDE DEF x
    <3>4. length' = x
      BY <1>4, <3>1, <3>2, <3>3
    <3>. QED  BY <1>4, <3>1, <3>4 DEF x
  <2>3. cmd_ptr' = cmd_ptr + stride /\ cmd_ptr' \in 0 .. CmddatSize
    <3>1. cmd_ptr + stride <= CmddatSize
      BY <1>2, <1>3, <1>4
    <3>2. cmd_ptr' = IF cmd_ptr + stride > CmddatSize THEN CmddatSize ELSE cmd_ptr + stride
      BY <2>1 DEF Advance
    <3>. QED  BY <1>2, <1>4, <3>1, <3>2
  <2>4. TypeOK'
    BY <1>1, <2>1, <2>2, <2>3 DEF ExecBufInv, TypeOK
  <2>5. LoadInv'
    BY <1>1, <1>5, <2>1 DEF ExecBufInv, LoadInv
  <2>6. WithinInv' /\ pc' # "lost"
    BY <2>1 DEF WithinInv
  <2>7. BetweenInv'
    <3>1. cur # Len(trace)
      <4>1. trace[Len(trace)] = End
        BY DEF ExecBufInv, TraceInv
      <4>. QED  BY <1>7, <4>1 DEF End
    <3>2. cur' \in 0 .. Len(trace') - 1
      BY <1>1, <1>2, <1>4, <3>1
    <3>3. issued' = Place'[cur' + 1] /\ Start'[cur' + 1] = Start[cur + 1]
      BY <1>1, <1>2, <1>3, <1>5
    <3>4. LoadEnd' - length' = Start[cur + 1] /\ cmd_ptr' = Load' - length' /\ length' <= Load'
      BY <1>2, <1>3, <1>4, <1>5, <2>2, <2>3
    <3>. QED  BY <2>1, <3>2, <3>3, <3>4 DEF BetweenInv
  <2>. QED  BY <1>5, <2>4, <2>5, <2>6, <2>7 DEF ExecBufInv
<1>. QED  BY <1>6, <1>7

\* The steps that change nothing the positions depend on.
LEMMA DepartInv ==
  ASSUME ExecBufInv, NEW w \in pending, Depart(w)
  PROVE  ExecBufInv'
<1>1. pending' = pending \ {w} /\ UNCHANGED <<trace, state, cmddat, pc, cur, local, issued>>
  BY DEF Depart
<1>2. /\ TraceInv' /\ pages' = Pages' /\ Start' = Start /\ Place' = Place /\ Load' = Load
      /\ LoadEnd' = LoadEnd /\ LoadBase' = LoadBase
  BY <1>1, TraceStep DEF LoadEnd, LoadBase, state
<1>3. TypeOK'
  BY <1>1 DEF ExecBufInv, TypeOK, state, local
<1>4. LoadInv' /\ BetweenInv'
  BY <1>1, <1>2 DEF ExecBufInv, LoadInv, BetweenInv, state, local
<1>5. WithinInv' /\ pc' # "lost"
  <2>1. DataAt' = DataAt
    BY <1>1, <1>2 DEF DataAt, local
  <2>. QED  BY <1>1, <1>2, <2>1 DEF ExecBufInv, WithinInv, state, local
<1>. QED  BY <1>2, <1>3, <1>4, <1>5 DEF ExecBufInv

LEMMA StutterInv ==
  ASSUME ExecBufInv, UNCHANGED vars
  PROVE  ExecBufInv'
<1>1. /\ pending' = pending
      /\ UNCHANGED <<trace, state, cmddat, pc, cur, local, issued>>
  BY DEF vars, state, local
<1>2. /\ TraceInv' /\ pages' = Pages' /\ Start' = Start /\ Place' = Place /\ Load' = Load
      /\ LoadEnd' = LoadEnd /\ LoadBase' = LoadBase
  BY <1>1, TraceStep DEF LoadEnd, LoadBase, state
<1>3. TypeOK'
  BY <1>1 DEF ExecBufInv, TypeOK, state, local
<1>4. LoadInv' /\ BetweenInv'
  BY <1>1, <1>2 DEF ExecBufInv, LoadInv, BetweenInv, state, local
<1>5. WithinInv' /\ pc' # "lost"
  <2>1. DataAt' = DataAt
    BY <1>1, <1>2 DEF DataAt, local
  <2>. QED  BY <1>1, <1>2, <2>1 DEF ExecBufInv, WithinInv, state, local
<1>. QED  BY <1>2, <1>3, <1>4, <1>5 DEF ExecBufInv

LEMMA StepInv == ExecBufInv /\ [Next]_vars => ExecBufInv'
<1>. SUFFICES ASSUME ExecBufInv, [Next]_vars PROVE ExecBufInv'
  OBVIOUS
<1>1. CASE Done
  BY <1>1, StutterInv DEF Done
<1>. QED  BY <1>1, FetchNextInv, ProcessCmdInv, LoadDoneInv, SplitWriteInv, SplitFetchInv,
             SplitEndInv, FinishInv, DepartInv, StutterInv DEF Next

-----------------------------------------------------------------------------
(***************************************************************************)
(* The theorems.                                                           *)
(***************************************************************************)
\* The positions of process_exec_buf_cmd and its handlers agree, always.
THEOREM ExecBufInvariant == Spec => []ExecBufInv
<1>1. Init => ExecBufInv
  BY InitInv DEF DataInv
<1>. QED  BY <1>1, StepInv, PTL DEF Spec

\* Its variables have their types: no length or pointer leaves cmddat_q.
THEOREM ExecBufTypeCorrect == Spec => []TypeOK
<1>1. ExecBufInv => TypeOK
  BY DEF ExecBufInv
<1>. QED  BY <1>1, ExecBufInvariant, PTL

\* process_exec_buf_cmd finds every command of the trace, in order and exactly
\* once, wherever the loads cut it.
THEOREM InOrderTheorem == Spec => []InOrder
<1>1. ExecBufInv => InOrder
  BY DEF ExecBufInv, BetweenInv, WithinInv, InOrder
<1>. QED  BY <1>1, ExecBufInvariant, PTL


-----------------------------------------------------------------------------
(***************************************************************************)
(* The data.  A place at the dispatcher belongs to one command only, so    *)
(* what the positions say of the command that is processed is all there is *)
(* to say of the places that are written now.                              *)
(***************************************************************************)
LEMMA OneOwner ==
  ASSUME ExecBufInv, NEW c \in 1 .. Len(trace), NEW k \in 1 .. Len(trace),
         NEW i \in 1 .. trace[k].len,
         Place[c] <= Place[k] + i - 1, Place[k] + i - 1 < Place[c + 1]
  PROVE  k = c
<1>1. /\ trace[k].len \in Nat /\ Place[k] \in Nat /\ Place[k + 1] = Place[k] + trace[k].len
      /\ Place[c] \in Nat /\ Place[c + 1] \in Nat
      /\ k + 1 \in 1 .. Len(trace) + 1 /\ c + 1 \in 1 .. Len(trace) + 1
  BY Command
<1>2. Len(trace) \in Nat
  BY Basics
<1>3. trace \in Seq(Commands \cup {End})
  BY DEF ExecBufInv, TraceInv
<1>4. CASE k < c
  <2>1. c \in 1 .. Len(trace) + 1 /\ k + 1 <= c
    BY <1>2, <1>4
  <2>2. Place[k + 1] <= Place[c]
    BY <1>1, <1>3, <2>1, TraceFacts
  <2>. QED  BY <1>1, <2>2
<1>5. CASE c < k
  <2>1. k \in 1 .. Len(trace) + 1 /\ c + 1 <= k
    BY <1>2, <1>5
  <2>2. Place[c + 1] <= Place[k]
    BY <1>1, <1>3, <2>1, TraceFacts
  <2>. QED  BY <1>1, <2>2
<1>. QED  BY <1>2, <1>4, <1>5

\* What is handed on now is part of the command's data.
LEMMA PieceWithin ==
  ASSUME NEW at \in Int, NEW rest \in Int, NEW place \in Int, NEW len \in Int,
         at + rest = place + len, NEW size \in Int, size <= rest, rest <= len,
         NEW x \in Int, at <= x, x < at + size
  PROVE  place <= x /\ x < place + len
OBVIOUS

\* What a handler hands on now lies at data_ptr.
LEMMA RightData ==
  ASSUME ExecBufInv, pc = "split"
  PROVE  \A size \in Nat : size <= left /\ size <= remaining =>
           \A k \in 1 .. Len(trace) : \A i \in 1 .. trace[k].len :
             \A x \in issued .. issued + size - 1 :
               x = Place[k] + i - 1 => cmddat[data_ptr + (x - issued)] = Start[k] + i
<1>1. /\ cur \in 1 .. Len(trace) /\ left \in 0 .. trace[cur].len /\ left \in Nat
      /\ issued + left = Place[cur + 1] /\ issued \in Nat
      /\ data_ptr \in Nat /\ remaining \in Nat
  BY InCommand
<1>2. /\ trace[cur].len \in Nat /\ Start[cur] \in Nat
      /\ Place[cur] \in Nat /\ Place[cur + 1] = Place[cur] + trace[cur].len
      /\ Start[cur + 1] = Start[cur] + Stride(trace[cur]) /\ Stride(trace[cur]) \in Nat
      /\ Stride(trace[cur]) >= 1 + trace[cur].len /\ Start[cur + 1] <= MaxAddr
  BY <1>1, Command
<1>3. /\ LoadBase + data_ptr = DataAt /\ data_ptr + remaining = Load
      /\ \A a \in 0 .. Load - 1 : LoadBase + a < MaxAddr => cmddat[a] = LoadBase + a
  BY DEF ExecBufInv, WithinInv, LoadInv
<1>4. Load \in Nat /\ LoadEnd \in Nat /\ LoadBase = LoadEnd - Load /\ MaxAddr \in Nat
  BY Basics
<1>5. ASSUME NEW size \in Nat, size <= left /\ size <= remaining,
             NEW k \in 1 .. Len(trace), NEW i, i \in 1 .. trace[k].len, NEW x,
             x \in issued .. issued + size - 1, x = Place[k] + i - 1
      PROVE  cmddat[data_ptr + (x - issued)] = Start[k] + i
  <2>1. trace[k].len \in Nat /\ Place[k] \in Nat
    BY Command
  <2>2. i \in Nat /\ x \in Int /\ issued <= x /\ x < issued + size
    BY <1>1, <1>5, <2>1
  <2>3. /\ issued \in Int /\ left \in Int /\ Place[cur] \in Int /\ trace[cur].len \in Int
        /\ issued + left = Place[cur] + trace[cur].len /\ size \in Int
    BY <1>1, <1>2
  <2>4. size <= left /\ left <= trace[cur].len
    BY <1>1, <1>2, <1>5
  <2>5. k = cur
    <3>1. Place[cur] <= x /\ x < Place[cur] + trace[cur].len
      BY <2>2, <2>3, <2>4, PieceWithin
    <3>2. Place[cur] <= Place[k] + i - 1 /\ Place[k] + i - 1 < Place[cur + 1]
      BY <1>2, <1>5, <3>1
    <3>. QED  BY <1>1, <1>5, <3>2, OneOwner
  <2>. DEFINE d == x - issued
  <2>6. d \in Nat /\ d < size
    BY <2>2, <2>3
  <2>7. LoadBase + (data_ptr + d) = Start[cur] + i
    <3>1. x = Place[cur] + i - 1 /\ i \in Int
      BY <1>5, <2>2, <2>5
    <3>2. /\ LoadBase \in Int /\ data_ptr \in Int /\ Start[cur] \in Int
          /\ LoadBase + data_ptr = Start[cur] + 1 + (trace[cur].len - left)
      BY <1>1, <1>2, <1>3, <1>4 DEF DataAt
    <3>3. PICK n \in Int, p \in Int, s \in Int : n = trace[cur].len /\ p = Place[cur] /\ s = Start[cur]
      BY <2>3, <3>2
    <3>4. PICK r \in Int, e \in Int, t \in Int : r = left /\ e = d /\ t = issued
      BY <2>3, <2>6
    <3>5. PICK b \in Int, q \in Int : b = LoadBase /\ q = data_ptr
      BY <3>2
    <3>6. x = p + i - 1 /\ t + r = p + n
      BY <2>3, <3>1, <3>3, <3>4
    <3>7. b + q = s + 1 + (n - r)
      BY <3>2, <3>3, <3>4, <3>5
    <3>8. e = x - t
      BY <3>4
    <3>9. b + (q + e) = s + i
      BY <2>2, <3>6, <3>7, <3>8
    <3>. QED  BY <3>3, <3>4, <3>5, <3>9
  <2>8. data_ptr + d \in 0 .. Load - 1
    <3>1. data_ptr + remaining = Load /\ data_ptr \in Nat /\ remaining \in Nat /\ size <= remaining
      BY <1>1, <1>3, <1>5
    <3>. HIDE DEF d
    <3>. QED  BY <1>4, <2>6, <3>1
  <2>9. Start[cur] + i < MaxAddr
    <3>1. i <= trace[cur].len
      BY <1>5, <2>1, <2>5
    <3>2. /\ Stride(trace[cur]) >= 1 + trace[cur].len /\ trace[cur].len \in Nat
          /\ Start[cur] \in Nat /\ Start[cur] + Stride(trace[cur]) <= MaxAddr
          /\ Stride(trace[cur]) \in Nat /\ MaxAddr \in Nat /\ i \in Nat
      BY <1>2, <1>4, <2>2
    <3>. QED  BY <3>1, <3>2
  <2>10. cmddat[data_ptr + d] = Start[cur] + i
    <3>. HIDE DEF d
    <3>. QED  BY <1>3, <2>7, <2>8, <2>9
  <2>. QED  BY <2>5, <2>10
<1>. QED  BY SMTT(30), <1>5

\* What a handler writes now belongs to its command.
LEMMA RightOwner ==
  ASSUME ExecBufInv, pc = "split", NEW size \in Nat, size <= left,
         NEW k \in 1 .. Len(trace), NEW i \in 1 .. trace[k].len,
         Place[k] + i - 1 \in issued .. issued + size - 1
  PROVE  k = cur
<1>1. /\ cur \in 1 .. Len(trace) /\ left \in 0 .. trace[cur].len /\ left \in Nat
      /\ issued + left = Place[cur + 1] /\ issued \in Nat
  BY InCommand
<1>2. /\ trace[cur].len \in Nat /\ Place[cur] \in Nat
      /\ Place[cur + 1] = Place[cur] + trace[cur].len
  BY <1>1, Command
<1>3. trace[k].len \in Nat /\ Place[k] \in Nat
  BY Command
<1>4. PICK x \in Int : x = Place[k] + i - 1
  BY <1>3
<1>5. issued <= x /\ x < issued + size
  BY <1>1, <1>4
<1>6. Place[cur] <= x /\ x < Place[cur] + trace[cur].len
  <2>1. PICK p \in Int, n \in Int, r \in Int, t \in Int :
          p = Place[cur] /\ n = trace[cur].len /\ r = left /\ t = issued
    BY <1>1, <1>2
  <2>2. t + r = p + n /\ r <= n
    BY <1>1, <1>2, <2>1
  <2>3. t <= x /\ x < t + size /\ size <= r
    BY <1>5, <2>1
  <2>4. p <= x /\ x < p + n
    BY <2>2, <2>3
  <2>. QED  BY <2>1, <2>4
<1>. QED  BY <1>1, <1>2, <1>4, <1>6, OneOwner

\* Handing it on keeps the data right.
LEMMA MoveData ==
  ASSUME DataInv, pc = "split", NEW size \in Nat, size <= left, size <= remaining,
         Move(trace[cur].kind, size), UNCHANGED <<trace, cmddat, cur, hit>>,
         pc' \in {"next", "last"}
  PROVE  PendingInv' /\ OwnerInv' /\ DataIntact'
<1>. DEFINE kind == trace[cur].kind
<1>1. Start' = Start /\ Place' = Place
  BY SameTrace
<1>2. ExecBufInv /\ PendingInv /\ OwnerInv /\ DataIntact
  BY DEF DataInv
<1>3. ASSUME NEW k \in 1 .. Len(trace), NEW i \in 1 .. trace[k].len,
             NEW x \in issued .. issued + size - 1, x = Place[k] + i - 1
      PROVE  cmddat[data_ptr + (x - issued)] = Start[k] + i
  BY <1>2, <1>3, RightData
<1>4. CASE kind = "packed"
  <2>1. pending' = pending
    BY <1>4 DEF Move, Copy
  <2>2. PendingInv' /\ OwnerInv'
    BY <1>1, <1>2, <2>1 DEF PendingInv, OwnerInv
  <2>3. out' = [x \in DOMAIN out \cup issued .. issued + size - 1 |->
                  IF x \in DOMAIN out THEN out[x] ELSE cmddat[data_ptr + (x - issued)]]
    BY <1>4 DEF Move, Copy
  <2>4. ASSUME NEW k \in 1 .. Len(trace), NEW i \in 1 .. trace[k].len,
               NEW x \in DOMAIN out' \ hit, x = Place[k] + i - 1
        PROVE  out'[x] = Start[k] + i
    <3>1. CASE x \in DOMAIN out
      <4>1. out'[x] = out[x]
        BY <2>3, <3>1
      <4>. QED  BY <1>2, <2>4, <3>1, <4>1 DEF DataIntact
    <3>2. CASE x \notin DOMAIN out
      <4>1. x \in issued .. issued + size - 1
        BY <2>3, <2>4, <3>2
      <4>2. out'[x] = cmddat[data_ptr + (x - issued)]
        BY <2>3, <3>2, <4>1
      <4>3. cmddat[data_ptr + (x - issued)] = Start[k] + i
        BY <1>3, <2>4, <4>1
      <4>. QED  BY <4>2, <4>3
    <3>. QED  BY <3>1, <3>2
  <2>5. DataIntact'
    BY <1>1, <1>2, <2>4 DEF DataIntact
  <2>. QED  BY <2>2, <2>5
<1>5. CASE kind # "packed"
  <2>1. out' = out
    BY <1>5 DEF Move, Write
  <2>2. DataIntact'
    BY <1>1, <1>2, <2>1 DEF DataIntact
  <2>. DEFINE new == [at |-> issued, from |-> data_ptr, size |-> size]
  <2>3. pending' \subseteq pending \cup {new}
    BY <1>5 DEF Move, Write
  <2>4. Units(new) = issued .. issued + size - 1
    BY DEF Units
  <2>5. ASSUME NEW w \in pending', NEW k \in 1 .. Len(trace), NEW i \in 1 .. trace[k].len,
               NEW x \in Units(w), x = Place[k] + i - 1, x \notin hit
        PROVE  cmddat[w.from + (x - w.at)] = Start[k] + i
    <3>1. CASE w \in pending
      BY <1>2, <2>5, <3>1 DEF PendingInv
    <3>2. CASE w = new
      <4>1. w.at = issued /\ w.from = data_ptr
        BY <3>2
      <4>2. x \in issued .. issued + size - 1
        BY <2>4, <2>5, <3>2
      <4>. QED  BY <1>3, <2>5, <4>1, <4>2
    <3>. QED  BY <2>3, <3>1, <3>2
  <2>6. PendingInv'
    BY <1>1, <2>5 DEF PendingInv
  <2>7. ASSUME NEW w \in pending', NEW k \in 1 .. Len(trace), NEW i \in 1 .. trace[k].len,
               Place[k] + i - 1 \in Units(w)
        PROVE  trace[k].kind = "noflush" \/ (k = cur /\ trace[k].kind # "packed")
    <3>1. CASE w \in pending
      BY <1>2, <2>7, <3>1 DEF OwnerInv
    <3>2. CASE w = new
      <4>1. Place[k] + i - 1 \in issued .. issued + size - 1
        BY <2>4, <2>7, <3>2
      <4>2. k = cur
        BY <1>2, <2>7, <4>1, RightOwner
      <4>. QED  BY <1>5, <4>2
    <3>. QED  BY <2>3, <3>1, <3>2
  <2>8. OwnerInv'
    BY <1>1, <2>7 DEF OwnerInv
  <2>. QED  BY <2>2, <2>6, <2>8
<1>. QED  BY <1>4, <1>5

\* Where cmddat_q is left alone, so are the writes that have not departed.
LEMMA QuietData ==
  ASSUME DataInv, UNCHANGED <<trace, out, pending, cmddat, hit>>
  PROVE  PendingInv' /\ DataIntact'
<1>1. Start' = Start /\ Place' = Place
  BY SameTrace
<1>2. DataIntact'
  BY <1>1 DEF DataInv, DataIntact
<1>3. PendingInv'
  BY <1>1 DEF DataInv, PendingInv
<1>. QED  BY <1>2, <1>3

\* A load hits the writes that have not departed, and these are without flush.
LEMMA LoadData ==
  ASSUME DataInv, UNCHANGED <<trace, out, pending>>,
         hit' = hit \cup UNION {Units(w) : w \in pending},
         \A w \in pending : \A k \in 1 .. Len(trace) : \A i \in 1 .. trace[k].len :
           Place[k] + i - 1 \in Units(w) => trace[k].kind = "noflush"
  PROVE  PendingInv' /\ OwnerInv' /\ DataIntact'
<1>1. Start' = Start /\ Place' = Place
  BY SameTrace
<1>2. DataIntact'
  <2>1. ASSUME NEW k \in 1 .. Len(trace), NEW i \in 1 .. trace[k].len, Place[k] + i - 1 \in hit'
        PROVE  trace[k].kind = "noflush"
    <3>1. CASE Place[k] + i - 1 \in hit
      BY <2>1, <3>1 DEF DataInv, DataIntact
    <3>2. CASE \E w \in pending : Place[k] + i - 1 \in Units(w)
      BY <2>1, <3>2
    <3>. QED  BY <2>1, <3>1, <3>2
  <2>2. ASSUME NEW k \in 1 .. Len(trace), NEW i \in 1 .. trace[k].len,
               Place[k] + i - 1 \in DOMAIN out \ hit'
        PROVE  out[Place[k] + i - 1] = Start[k] + i
    BY <2>2 DEF DataInv, DataIntact
  <2>. QED  BY <1>1, <2>1, <2>2 DEF DataIntact
<1>3. PendingInv'
  <2>1. \A w \in pending : Units(w) \subseteq hit'
    OBVIOUS
  <2>. QED  BY <1>1, <2>1 DEF PendingInv
<1>4. OwnerInv'
  BY <1>1 DEF OwnerInv
<1>. QED  BY <1>2, <1>3, <1>4

\* A write departs with what cmddat_q holds.
LEMMA DepartData ==
  ASSUME DataInv, NEW w \in pending, Depart(w)
  PROVE  PendingInv' /\ OwnerInv' /\ DataIntact'
<1>1. /\ pending' = pending \ {w} /\ UNCHANGED <<trace, cmddat, hit, pc, cur>>
  BY DEF Depart
<1>2. Start' = Start /\ Place' = Place
  BY <1>1, SameTrace
<1>3. PendingInv' /\ OwnerInv'
  BY <1>1, <1>2 DEF DataInv, PendingInv, OwnerInv
<1>4. out' = [x \in DOMAIN out \cup Units(w) |->
                IF x \in Units(w) THEN cmddat[w.from + (x - w.at)] ELSE out[x]]
  BY DEF Depart
<1>5. ASSUME NEW k \in 1 .. Len(trace), NEW i \in 1 .. trace[k].len,
             NEW x \in DOMAIN out' \ hit, x = Place[k] + i - 1
      PROVE  out'[x] = Start[k] + i
  <2>1. CASE x \in Units(w)
    <3>1. out'[x] = cmddat[w.from + (x - w.at)]
      BY <1>4, <2>1
    <3>2. cmddat[w.from + (x - w.at)] = Start[k] + i
      BY <1>5, <2>1 DEF DataInv, PendingInv
    <3>. QED  BY <3>1, <3>2
  <2>2. CASE x \notin Units(w)
    <3>1. x \in DOMAIN out /\ out'[x] = out[x]
      BY <1>4, <1>5, <2>2
    <3>. QED  BY <1>5, <3>1 DEF DataInv, DataIntact
  <2>. QED  BY <2>1, <2>2
<1>6. DataIntact'
  BY <1>1, <1>2, <1>5 DEF DataInv, DataIntact
<1>. QED  BY <1>3, <1>6

LEMMA DataStep ==
  ASSUME DataInv, [Next]_vars
  PROVE  DataInv'
<1>1. ExecBufInv'
  BY StepInv DEF DataInv
<1>2. CASE FetchNext
  <2>1. /\ UNCHANGED <<trace, out, pending>> /\ hit' = hit \cup UNION {Units(w) : w \in pending}
        /\ pc = "fetch"
    BY <1>2 DEF FetchNext, Fetch
  <2>. QED  BY <1>1, <2>1, LoadData DEF DataInv, OwnerInv
<1>3. CASE SplitFetch
  <2>1. /\ UNCHANGED <<trace, out, pending>> /\ hit' = hit \cup UNION {Units(w) : w \in pending}
        /\ trace[cur].kind # "packed" => pending = {}
    BY <1>3 DEF SplitFetch, Fetch, MustFlush, Flushed
  <2>. QED  BY <1>1, <2>1, LoadData DEF DataInv, OwnerInv
<1>4. CASE ProcessCmd \/ LoadDone \/ Finish \/ Done \/ UNCHANGED vars
  <2>1. UNCHANGED <<trace, out, pending, cmddat, hit>>
    BY <1>4 DEF ProcessCmd, LoadDone, Finish, Done, vars
  <2>2. Place' = Place
    BY <2>1, SameTrace
  <2>3. OwnerInv'
    <3>1. CASE ProcessCmd \/ LoadDone
      <4>1. pc = "commands"
        BY <3>1 DEF ProcessCmd, LoadDone
      <4>. QED  BY <2>1, <2>2, <4>1 DEF DataInv, OwnerInv
    <3>2. CASE Finish
      <4>1. trace[cur].kind \notin {"noflush", "stall"} => pending = {}
        BY <3>2 DEF Finish, Flushed
      <4>2. ASSUME NEW k \in 1 .. Len(trace), NEW i \in 1 .. trace[k].len
            PROVE  trace[k].kind # "stall"
        <5>1. trace[k] \in Commands \cup {End}
          BY ElementOfSeq DEF DataInv, ExecBufInv, TraceInv
        <5>. QED  BY <4>2, <5>1 DEF Commands, End
      <4>3. \A w \in pending : \A k \in 1 .. Len(trace) : \A i \in 1 .. trace[k].len :
              Place[k] + i - 1 \in Units(w) => trace[k].kind = "noflush"
        BY <4>1, <4>2 DEF DataInv, OwnerInv
      <4>. QED  BY <2>1, <2>2, <4>3 DEF OwnerInv
    <3>3. CASE UNCHANGED vars
      BY <2>1, <2>2, <3>3 DEF DataInv, OwnerInv, vars
    <3>. QED  BY <1>4, <3>1, <3>2, <3>3 DEF Done
  <2>. QED  BY <1>1, <2>1, <2>3, QuietData DEF DataInv
<1>5. CASE SplitWrite
  <2>1. /\ pc = "split" /\ left > remaining /\ Move(trace[cur].kind, remaining)
        /\ UNCHANGED <<trace, cmddat, cur, hit>> /\ pc' = "next"
    BY <1>5 DEF SplitWrite
  <2>2. remaining \in Nat /\ left \in Nat
    BY <2>1, InCommand DEF DataInv
  <2>3. remaining <= left /\ remaining <= remaining
    BY <2>1, <2>2
  <2>. QED  BY <1>1, <2>1, <2>2, <2>3, MoveData DEF DataInv
<1>6. CASE SplitEnd
  <2>1. /\ pc = "split" /\ left <= remaining /\ Move(trace[cur].kind, left)
        /\ UNCHANGED <<trace, cmddat, cur, hit>> /\ pc' = "last"
    BY <1>6 DEF SplitEnd
  <2>2. left \in Nat /\ left <= left
    <3>1. left \in Nat
      BY <2>1, InCommand DEF DataInv
    <3>. QED  BY <3>1
  <2>. QED  BY <1>1, <2>1, <2>2, MoveData DEF DataInv
<1>7. ASSUME NEW w \in pending, Depart(w) PROVE DataInv'
  BY <1>1, <1>7, DepartData DEF DataInv
<1>. QED  BY <1>2, <1>3, <1>4, <1>5, <1>6, <1>7 DEF Next

\* What arrives at the dispatcher, and in the cache of sub-commands, is what was
\* recorded behind the command's header; the exception is an inline command
\* without flush whose write has not departed when the next load is read, and no
\* other command can be hit.
THEOREM DataIntactTheorem == Spec => []DataIntact
<1>1. DataInv /\ [Next]_vars => DataInv'
  BY DataStep
<1>2. DataInv => DataIntact
  BY DEF DataInv
<1>. QED  BY <1>1, <1>2, InitInv, PTL DEF Spec

=============================================================================
