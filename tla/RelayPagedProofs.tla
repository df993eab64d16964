--------------------------- MODULE RelayPagedProofs ---------------------------
(***************************************************************************)
(* Proofs about RelayPaged: the double buffering keeps the data of every   *)
(* write intact, a relay writes what its command asks for, and the pages   *)
(* of the dispatch buffer are acquired and released one for one, for       *)
(* scratch buffers, dispatch pages, page sizes and relays of every size.   *)
(***************************************************************************)
EXTENDS RelayPaged, TLAPS

-----------------------------------------------------------------------------
(***************************************************************************)
(* Arithmetic of whole multiples.                                          *)
(***************************************************************************)
\* Products of naturals, and the laws used to move a factor around.
LEMMA Products ==
  ASSUME NEW a \in Int, NEW b \in Int, NEW C \in Nat \ {0}
  PROVE  /\ a * C \in Int /\ C * a = a * C
         /\ (a + b) * C = a * C + b * C /\ (a - b) * C = a * C - b * C
         /\ (a + 1) * C = a * C + C /\ (a - 1) * C = a * C - C
         /\ 0 * C = 0 /\ 1 * C = C
         /\ a \in Nat => a * C \in Nat
  OBVIOUS

\* A multiple that is positive is at least the factor.
LEMMA Multiples ==
  ASSUME NEW a \in Int, NEW C \in Nat \ {0}
  PROVE  /\ a >= 1 => a * C >= C /\ a * C >= a
         /\ a * C > 0 => a >= 1
         /\ a <= -1 => a * C <= -C
  <1>1. a >= 1 => a * C >= C /\ a * C >= a
    OBVIOUS
  <1>2. a <= -1 => a * C <= -C
    OBVIOUS
  <1>3. a = 0 => a * C = 0
    OBVIOUS
  <1>. QED  BY <1>1, <1>2, <1>3

\* Multiplying is monotonic.
LEMMA Monotonic ==
  ASSUME NEW a \in Int, NEW b \in Int, NEW C \in Nat \ {0}
  PROVE  /\ a <= b => a * C <= b * C
         /\ a * C < b * C => a < b
  <1>1. (b - a) * C = b * C - a * C
    BY Products
  <1>2. b - a >= 1 => (b - a) * C >= C
    BY Multiples
  <1>3. b - a <= -1 => (b - a) * C <= -C
    BY Multiples
  <1>. QED  BY <1>1, <1>2, <1>3

\* Division with remainder.
LEMMA Division ==
  ASSUME NEW C \in Nat \ {0}, NEW a \in Nat
  PROVE  /\ a = (a \div C) * C + (a % C)
         /\ a % C \in 0 .. C - 1 /\ a \div C \in Nat
  OBVIOUS

\* Quotient and remainder are unique.
LEMMA Unique ==
  ASSUME NEW C \in Nat \ {0}, NEW a \in Nat, NEW q \in Int, NEW r \in 0 .. C - 1,
         a = q * C + r
  PROVE  a \div C = q /\ a % C = r
  <1>. DEFINE d == a \div C
              m == a % C
  <1>1. d \in Int /\ m \in 0 .. C - 1 /\ a = d * C + m
    BY Division
  <1>. HIDE DEF d, m
  <1>2. (q - d) * C = q * C - d * C
    BY <1>1, Products
  <1>3. q - d >= 1 => (q - d) * C >= C
    BY <1>1, Multiples
  <1>4. q - d <= -1 => (q - d) * C <= -C
    BY <1>1, Multiples
  <1>5. q = d
    BY <1>1, <1>2, <1>3, <1>4
  <1>6. r = m
    BY <1>1, <1>5
  <1>. QED  BY <1>5, <1>6 DEF d, m

\* The remainder does not see whole multiples.
LEMMA Shift ==
  ASSUME NEW C \in Nat \ {0}, NEW a \in Nat, NEW b \in Nat, NEW k \in Int, b = a + k * C
  PROVE  b % C = a % C
  <1>. DEFINE d == a \div C
              m == a % C
  <1>1. d \in Int /\ m \in 0 .. C - 1 /\ a = d * C + m
    BY Division
  <1>. HIDE DEF d, m
  <1>2. d + k \in Int /\ (d + k) * C = d * C + k * C
    BY <1>1, Products
  <1>3. b = (d + k) * C + m
    BY <1>1, <1>2, Products
  <1>4. b % C = m
    BY <1>1, <1>2, <1>3, Unique
  <1>. QED  BY <1>4 DEF m

\* What is free behind a place: up to the next edge.
LEMMA ToEdge ==
  ASSUME NEW C \in Nat \ {0}, NEW p \in Nat, NEW f \in 1 .. C, (p + f) % C = 0
  PROVE  C - (p % C) = f
  <1>. DEFINE q == (p + f) \div C
  <1>0. p + f \in Nat
    OBVIOUS
  <1>1. q \in Int /\ p + f = q * C
    <2>1. p + f = q * C + ((p + f) % C) /\ q \in Nat
      BY <1>0, Division
    <2>2. q * C \in Int
      BY <2>1, Products
    <2>. HIDE DEF q
    <2>. QED  BY <2>1, <2>2
  <1>. HIDE DEF q
  <1>2. (q - 1) * C = q * C - C /\ q - 1 \in Int /\ C - f \in 0 .. C - 1
    BY <1>1, Products
  <1>3. p = (q - 1) * C + (C - f)
    BY <1>1, <1>2, Products
  <1>4. p % C = C - f
    BY <1>2, <1>3, Unique
  <1>. QED  BY <1>4

-----------------------------------------------------------------------------
(***************************************************************************)
(* Commands, batches and pages.                                            *)
(***************************************************************************)
\* What is assumed of the sizes.
LEMMA Sizes ==
  /\ Half \in Nat \ {0} /\ CbPage \in Nat \ {0, 1} /\ CbPages \in Nat \ {0}
  /\ Half <= CbPage * (CbPages - 1)
  /\ PageSizes \subseteq Nat \ {0} /\ MaxPages \in Nat \ {0} /\ Width \in Nat
  BY RelayAssumption, Zenon

\* The sizes of a command: positive, and small against Width.
LEMMA CmdFacts ==
  ASSUME NEW c \in Cmds
  PROVE  /\ c.page_size \in Nat \ {0} /\ c.pages \in Nat \ {0}
         /\ c.length_adjust \in Nat /\ c.length_adjust < c.page_size
         /\ c.page_size > Half /\ ~LargeAdjust => c.length_adjust = 0
         /\ c.pages * c.page_size \in Nat /\ c.pages * c.page_size >= c.page_size
         /\ c.pages * c.page_size + 2 * Half + 2 * CbPage < Width
         /\ Half \in Nat \ {0} /\ CbPage \in Nat \ {0, 1} /\ Width \in Nat
  <1>1. /\ c.page_size \in PageSizes /\ c.pages \in 1 .. MaxPages
        /\ c.length_adjust \in 0 .. Width /\ c.length_adjust < c.page_size
    BY Zenon DEF Cmds
  <1>a. c.page_size > Half /\ ~LargeAdjust => c.length_adjust = 0
    BY Zenon DEF Cmds
  <1>2. /\ c.page_size \in Nat \ {0} /\ c.pages \in Nat \ {0} /\ MaxPages \in Nat \ {0}
        /\ c.length_adjust \in Nat /\ c.pages <= MaxPages
        /\ Half \in Nat \ {0} /\ CbPage \in Nat \ {0, 1} /\ Width \in Nat
    <2>1. c.page_size \in Nat \ {0}
      BY <1>1, Sizes, Zenon
    <2>2. c.pages \in Nat \ {0} /\ c.pages <= MaxPages
      BY <1>1, Sizes
    <2>3. c.length_adjust \in Nat
      BY <1>1, Sizes
    <2>. QED  BY <2>1, <2>2, <2>3, Sizes, Zenon
  <1>3. c.pages * c.page_size <= MaxPages * c.page_size
    BY <1>2, Monotonic
  <1>4. c.pages * c.page_size >= c.page_size /\ c.pages * c.page_size \in Nat
        /\ MaxPages * c.page_size \in Int
    BY <1>2, Multiples, Products
  <1>5. Width > MaxPages * c.page_size + 2 * Half + 2 * CbPage
    BY <1>1, RelayAssumption
  <1>6. c.pages * c.page_size + 2 * Half + 2 * CbPage < Width
    BY <1>2, <1>3, <1>4, <1>5
  <1>. QED  BY <1>1, <1>a, <1>2, <1>4, <1>6

\* A batch of whole pages is not empty, fits into a half and is not more than
\* there is.
LEMMA BatchFacts ==
  ASSUME NEW m \in Int, m >= 1, cmd \in Cmds, ~Large
  PROVE  \E j \in Nat :
           /\ j >= 1 /\ j <= m
           /\ Batch(m * cmd.page_size) = j * cmd.page_size
           /\ Batch(m * cmd.page_size) \in Nat
           /\ Batch(m * cmd.page_size) >= cmd.page_size
           /\ Batch(m * cmd.page_size) <= Half
           /\ Batch(m * cmd.page_size) <= m * cmd.page_size
           /\ Batch(m * cmd.page_size) \div cmd.page_size = j
  <1>. DEFINE ps == cmd.page_size
              x == Smaller(Half, m * ps)
              j == x \div ps
  <1>1. ps \in Nat \ {0} /\ Half \in Nat /\ ps <= Half
    BY CmdFacts DEF Large
  <1>. HIDE DEF ps
  <1>2. m * ps \in Int /\ m * ps >= ps
    BY <1>1, Multiples, Products
  <1>3. x \in Nat /\ x >= ps /\ x <= Half /\ x <= m * ps
    BY <1>1, <1>2 DEF Smaller
  <1>. HIDE DEF x
  <1>4. x = j * ps + (x % ps) /\ x % ps \in 0 .. ps - 1 /\ j \in Nat
    BY <1>1, <1>3, Division
  <1>. HIDE DEF j
  <1>5. j * ps \in Nat /\ j * ps <= x /\ j * ps > 0
    BY <1>1, <1>3, <1>4, Products
  <1>6. j >= 1 /\ j * ps >= ps
    BY <1>1, <1>4, <1>5, Multiples
  <1>7. j <= m
    <2>1. m + 1 \in Int /\ (m + 1) * ps = m * ps + ps
      BY <1>1, Products
    <2>2. j * ps < (m + 1) * ps
      BY <1>1, <1>2, <1>3, <1>5, <2>1
    <2>3. j < m + 1
      BY <1>1, <1>4, <2>1, <2>2, Monotonic
    <2>. QED  BY <1>4, <2>3
  <1>8. (j * ps) \div ps = j
    <2>1. 0 \in 0 .. ps - 1 /\ j * ps = j * ps + 0
      BY <1>1, <1>5
    <2>. QED  BY <1>1, <1>4, <1>5, <2>1, Unique
  <1>9. Batch(m * cmd.page_size) = j * ps
    BY DEF Batch, j, x, ps
  <1>10. j * ps <= Half /\ j * ps <= m * ps
    BY <1>1, <1>2, <1>3, <1>5
  <1>. QED
    <2>. j \in Nat
      BY <1>4
    <2>. WITNESS j \in Nat
    <2>. QED  BY <1>5, <1>6, <1>7, <1>8, <1>9, <1>10 DEF ps

\* write_pages_to_dispatcher: a write of at least a unit and at most a half
\* leaves one page held, with room in it; the last one leaves none, full or not.
LEMMA WriteFacts ==
  ASSUME TypeOK, PageInv, pc # "done",
         NEW half, NEW size \in 1 .. Half, NEW round \in 0 .. 1, NEW extra \in 0 .. 1,
         WriteOut(half, size, round, extra)
  PROVE  /\ ptr' \in 0 .. CbPage * CbPages /\ held' = 1 - extra
         /\ free' \in 1 - round .. CbPage - round
         /\ round = 0 => (ptr' + free') % CbPage = 0
         /\ issued' = issued + size
  <1>. DEFINE x == size - free + CbPage - round
              n == x \div CbPage
              m == x % CbPage
              R == CbPage * CbPages
  <1>1. CbPage \in Nat \ {0} /\ CbPages \in Nat \ {0} /\ Half \in Nat \ {0} /\ Width \in Nat
    BY Sizes
  <1>2. Half + 2 * CbPage < Width
    <2>1. cmd \in Cmds
      BY DEF TypeOK
    <2>2. cmd.pages * cmd.page_size \in Nat
          /\ cmd.pages * cmd.page_size + 2 * Half + 2 * CbPage < Width
      BY <2>1, CmdFacts
    <2>. QED  BY <1>1, <2>2
  <1>3. /\ ptr \in Nat /\ ptr <= R /\ free \in 1 .. CbPage /\ held = 1
        /\ (ptr + free) % CbPage = 0 /\ issued \in Nat
    BY <1>1 DEF TypeOK, PageInv
  <1>4. CbPage - (ptr % CbPage) = free
    BY <1>1, <1>3, ToEdge
  <1>5. x \in Nat /\ x < Width
    BY <1>1, <1>2, <1>3
  <1>6. NPages(size, round) = n
    <2>1. size - (CbPage - (ptr % CbPage)) + CbPage - round = x
      BY <1>4
    <2>. HIDE DEF x
    <2>2. Width \in Nat \ {0} /\ x + Width \in Nat /\ x \in 0 .. Width - 1
          /\ x + Width = 1 * Width + x /\ 1 \in Int
      BY <1>1, <1>5
    <2>3. (x + Width) % Width = x
      BY <2>2, Unique
    <2>. QED  BY <2>1, <2>3 DEF NPages
  <1>. HIDE DEF x
  <1>7. x = n * CbPage + m /\ m \in 0 .. CbPage - 1 /\ n \in Nat
    BY <1>1, <1>5, Division
  <1>. HIDE DEF n, m
  <1>8. n * CbPage \in Int
    BY <1>1, <1>7, Products
  <1>9. /\ ptr' = Wrapped(ptr, size) /\ held' = held + n - (n + extra)
        /\ free' = free + n * CbPage - size /\ issued' = issued + size
    BY <1>6 DEF WriteOut
  <1>10. free' = CbPage - round - m
    BY <1>1, <1>3, <1>7, <1>8, <1>9 DEF x
  <1>11. free' \in 1 - round .. CbPage - round
    BY <1>1, <1>7, <1>10
  <1>12. held' = 1 - extra
    BY <1>3, <1>7, <1>9
  <1>13. R \in Nat /\ R = CbPages * CbPage /\ Half <= R - CbPage
    <2>1. CbPage * CbPages = CbPages * CbPage /\ CbPages * CbPage \in Nat
      BY <1>1, Products
    <2>2. CbPage * (CbPages - 1) = (CbPages - 1) * CbPage
          /\ (CbPages - 1) * CbPage = CbPages * CbPage - CbPage
      BY <1>1, Products
    <2>. QED  BY <2>1, <2>2, Sizes
  <1>. HIDE DEF R
  <1>14. PICK k \in {0, -1} : ptr' = ptr + size + k * R
    <2>1. ptr' = IF ptr = R THEN size ELSE IF ptr + size > R THEN ptr + size - R
                                       ELSE ptr + size
      BY <1>9 DEF Wrapped, End, R
    <2>2. 0 * R = 0 /\ (-1) * R = -R
      BY <1>13
    <2>3. ptr' = ptr + size + 0 * R \/ ptr' = ptr + size + (-1) * R
      BY <1>3, <1>13, <2>1, <2>2
    <2>. QED  BY <2>3
  <1>15. ptr' \in 0 .. R
    <2>1. ptr' = IF ptr = R THEN size ELSE IF ptr + size > R THEN ptr + size - R
                                       ELSE ptr + size
      BY <1>9 DEF Wrapped, End, R
    <2>. QED  BY <1>1, <1>3, <1>13, <2>1
  <1>16. ASSUME round = 0
         PROVE  (ptr' + free') % CbPage = 0
    <2>1. k * R = (k * CbPages) * CbPage /\ k * CbPages \in Int
      BY <1>1, <1>13
    <2>2. n + k * CbPages \in Int
          /\ (n + k * CbPages) * CbPage = n * CbPage + k * R
      BY <1>1, <1>7, <2>1, Products
    <2>3. ptr' + free' = (ptr + free) + (n + k * CbPages) * CbPage
      BY <1>1, <1>3, <1>8, <1>9, <1>13, <1>14, <2>1, <2>2
    <2>4. ptr + free \in Nat /\ ptr' + free' \in Nat
      <3>1. ptr + free \in Nat
        BY <1>1, <1>3
      <3>2. free' \in Nat
        BY <1>1, <1>11, <1>16
      <3>3. ptr' \in Nat
        BY <1>13, <1>15
      <3>4. ptr' + free' \in Nat
        <4>. DEFINE p == ptr'
                    f == free'
        <4>1. p \in Nat /\ f \in Nat
          BY <3>2, <3>3
        <4>. HIDE DEF p, f
        <4>2. p + f \in Nat
          BY <4>1
        <4>. QED  BY <4>2 DEF p, f
      <3>. QED  BY <3>1, <3>4, Zenon
    <2>5. (ptr' + free') % CbPage = (ptr + free) % CbPage
      BY <1>1, <2>2, <2>3, <2>4, Shift
    <2>. QED  BY <2>5, <1>3
  <1>. QED  BY <1>9, <1>11, <1>12, <1>15, <1>16 DEF R

-----------------------------------------------------------------------------
(***************************************************************************)
(* One lemma per action.                                                   *)
(***************************************************************************)
\* The first state.
LEMMA InitLemma == Init => RelayInv
  <1>. SUFFICES ASSUME Init PROVE RelayInv
    OBVIOUS
  <1>1. /\ cmd.page_size \in Nat \ {0}
        /\ CbPage \in Nat \ {0, 1} /\ CbPages \in Nat \ {0} /\ Half \in Nat \ {0}
        /\ Width \in Nat /\ Width > 0
    <2>1. cmd \in Cmds
      BY DEF Init
    <2>2. cmd.pages * cmd.page_size \in Nat
          /\ cmd.pages * cmd.page_size + 2 * Half + 2 * CbPage < Width
          /\ cmd.page_size \in Nat \ {0}
      BY <2>1, CmdFacts
    <2>. QED  BY <2>2, Sizes
  <1>2. CbPage * CbPages \in Nat /\ CbPage * CbPages >= 1
    <2>1. CbPage * CbPages = CbPages * CbPage /\ CbPages * CbPage \in Nat
      BY <1>1, Products
    <2>2. CbPages * CbPage >= CbPage
      BY <1>1, Multiples
    <2>. QED  BY <1>1, <2>1, <2>2
  <1>3. TypeOK
    BY <1>1, <1>2 DEF Init, TypeOK
  <1>4. HalfInv /\ FilledInv /\ PosInv /\ LengthInv /\ DataIntact /\ ExactlyWritten
    BY DEF Init, HalfInv, FilledInv, PosInv, LengthInv, DataIntact, ExactlyWritten, InLoop
  <1>5. PageInv
    <2>1. ptr + free = CbPage /\ CbPage > 1
      BY <1>1 DEF Init
    <2>2. CbPage % CbPage = 0
      BY <1>1
    <2>3. held = 1 /\ free > 0 /\ pc = "start"
      BY <1>1 DEF Init
    <2>. QED  BY <2>1, <2>2, <2>3 DEF PageInv
  <1>. QED  BY <1>3, <1>4, <1>5 DEF RelayInv

\* A read lands: in the half that is written next, so no write loses data.
LEMMA LandStep ==
  ASSUME RelayInv, NEW r \in reading, Land(r)
  PROVE  RelayInv'
  <1>. USE DEF RelayInv
  <1>1. /\ pc = "barrier" /\ r.half = toggle /\ toggle \in 0 .. 1
        /\ r.at \in Nat /\ r.size \in Nat /\ r.data \in Nat
        /\ scratch \in [0 .. 1 -> [0 .. Half - 1 -> Int]]
    BY DEF HalfInv, TypeOK
  <1>2. /\ scratch' \in [0 .. 1 -> [0 .. Half - 1 -> Int]]
        /\ \A h \in 0 .. 1 : h # toggle => scratch'[h] = scratch[h]
        /\ \A a \in 0 .. Half - 1 : scratch'[toggle][a] =
              IF a \in r.at .. r.at + r.size - 1 THEN r.data + (a - r.at) ELSE scratch[toggle][a]
    <2>. DEFINE F == [a \in 0 .. Half - 1 |->
                       IF a \in r.at .. r.at + r.size - 1 THEN r.data + (a - r.at)
                       ELSE scratch[toggle][a]]
    <2>1. scratch' = [scratch EXCEPT ![toggle] = F]
      BY <1>1 DEF Land
    <2>2. F \in [0 .. Half - 1 -> Int]
      <3>1. scratch[toggle] \in [0 .. Half - 1 -> Int]
        BY <1>1
      <3>2. ASSUME NEW a \in 0 .. Half - 1
            PROVE  (IF a \in r.at .. r.at + r.size - 1 THEN r.data + (a - r.at)
                    ELSE scratch[toggle][a]) \in Int
        <4>1. scratch[toggle][a] \in Int /\ a \in Int
          BY <3>1, Sizes
        <4>. QED  BY <1>1, <4>1
      <3>. QED  BY <3>2
    <2>3. \A a \in 0 .. Half - 1 : F[a] =
            IF a \in r.at .. r.at + r.size - 1 THEN r.data + (a - r.at) ELSE scratch[toggle][a]
      OBVIOUS
    <2>. HIDE DEF F
    <2>4. scratch'[toggle] = F
      BY <1>1, <2>1
    <2>5. /\ scratch' \in [0 .. 1 -> [0 .. Half - 1 -> Int]]
          /\ \A h \in 0 .. 1 : h # toggle => scratch'[h] = scratch[h]
      BY <1>1, <2>1, <2>2
    <2>. QED  BY <2>3, <2>4, <2>5, Zenon
  <1>3. TypeOK'
    BY <1>2 DEF TypeOK, Land, Cmds, pos
  <1>4. HalfInv'
    BY <1>1 DEF HalfInv, Land, InLoop, pos
  <1>5. FilledInv'
    <2>. SUFFICES ASSUME (InLoop /\ ~Spent)'
                  PROVE  /\ \A q \in reading' : q.data = base + issued + q.at
                         /\ \A k \in 0 .. amt - 1 :
                              \/ scratch'[toggle][k] = base + issued + k
                              \/ \E q \in reading' : k \in q.at .. q.at + q.size - 1
      BY DEF FilledInv, Land
    <2>1. /\ \A q \in reading : q.data = base + issued + q.at
          /\ \A k \in 0 .. amt - 1 :
               \/ scratch[toggle][k] = base + issued + k
               \/ \E q \in reading : k \in q.at .. q.at + q.size - 1
      BY DEF FilledInv, Land, InLoop, Spent, Large
    <2>2. reading' = reading \ {r}
      BY DEF Land
    <2>3. ASSUME NEW k \in 0 .. amt - 1
          PROVE  \/ scratch'[toggle][k] = base + issued + k
                 \/ \E q \in reading' : k \in q.at .. q.at + q.size - 1
      <3>1. k \in 0 .. Half - 1 /\ base \in Nat /\ issued \in Nat
        BY Sizes DEF TypeOK
      <3>2. CASE k \in r.at .. r.at + r.size - 1
        BY <1>1, <1>2, <2>1, <3>1, <3>2
      <3>3. CASE k \notin r.at .. r.at + r.size - 1
        BY <1>2, <2>1, <2>2, <3>1, <3>3
      <3>. QED  BY <3>2, <3>3
    <2>. QED  BY <2>1, <2>2, <2>3
  <1>6. PosInv' /\ LengthInv' /\ PageInv' /\ ExactlyWritten'
    BY DEF PosInv, LengthInv, PageInv, ExactlyWritten, Land, InLoop, Spent, Large, Total,
           pos
  <1>7. DataIntact'
    <2>1. \A w \in writing : w.half # toggle /\ w.half \in 0 .. 1
      BY <1>1 DEF HalfInv, InLoop, TypeOK
    <2>2. writing' = writing
      BY DEF Land
    <2>. QED  BY <1>2, <2>1, <2>2 DEF DataIntact
  <1>. QED  BY <1>3, <1>4, <1>5, <1>6, <1>7

\* A write departs, or the reads of a round are waited for.
LEMMA DepartStep ==
  ASSUME RelayInv, NEW w \in writing, Depart(w)
  PROVE  RelayInv'
  <1>. USE DEF RelayInv
  <1>1. TypeOK' /\ HalfInv' /\ DataIntact'
    BY DEF TypeOK, HalfInv, DataIntact, Depart, Cmds, InLoop, pos
  <1>2. FilledInv' /\ PosInv' /\ LengthInv' /\ PageInv' /\ ExactlyWritten'
    BY DEF FilledInv, PosInv, LengthInv, PageInv, ExactlyWritten, Depart, InLoop, Spent, Large,
           Total, pos
  <1>. QED  BY <1>1, <1>2

LEMMA BarrierStep ==
  ASSUME RelayInv, Barrier
  PROVE  RelayInv'
  <1>. USE DEF RelayInv
  <1>1. TypeOK' /\ HalfInv' /\ DataIntact'
    BY DEF TypeOK, HalfInv, DataIntact, Barrier, Cmds, InLoop, pos
  <1>2. FilledInv' /\ PosInv' /\ LengthInv' /\ PageInv' /\ ExactlyWritten'
    BY DEF FilledInv, PosInv, LengthInv, PageInv, ExactlyWritten, Barrier, InLoop, Spent, Large,
           Total, pos
  <1>. QED  BY <1>1, <1>2

\* The first read of small pages: whole pages, into the first half.
LEMMA FirstReadStep ==
  ASSUME RelayInv, FirstRead
  PROVE  RelayInv'
  <1>. USE DEF RelayInv
  <1>. DEFINE ps == cmd.page_size
              r0 == [half |-> 0, at |-> 0, data |-> base, size |-> amt']
  <1>1. /\ ps \in Nat \ {0} /\ cmd.pages \in Nat \ {0}
        /\ cmd.pages * ps \in Nat /\ cmd.pages * ps + 2 * Half + 2 * CbPage < Width
        /\ Half \in Nat \ {0} /\ CbPage \in Nat \ {0, 1} /\ Width \in Nat
    BY CmdFacts DEF TypeOK
  <1>2. /\ toggle = 0 /\ page_id = 0 /\ page_offset = 0 /\ issued = 0 /\ base \in Nat
        /\ writing = {} /\ ~Large /\ cmd \in Cmds
    BY DEF FirstRead, Flushed, HalfInv, PosInv, TypeOK
  <1>3. PICK j \in Nat :
          /\ j >= 1 /\ j <= cmd.pages
          /\ amt' = j * ps /\ amt' \in Nat /\ amt' >= ps /\ amt' <= Half
          /\ amt' <= cmd.pages * ps /\ amt' \div ps = j
    <2>1. cmd.pages \in Int /\ cmd.pages >= 1
      BY <1>1
    <2>. QED  BY <1>2, <2>1, BatchFacts DEF FirstRead
  <1>4. /\ page_id' = j /\ read_length' = cmd.pages * ps - amt' /\ pc' = "barrier"
        /\ UNCHANGED <<cmd, page_offset, page_length, write_length, toggle, scratch, writing,
                       ptr, held, free, base, issued, relays>>
    BY <1>3 DEF FirstRead
  <1>5. reading' = {r0}
    <2>1. 0 * ps = 0 /\ base + 0 + 0 = base
      BY <1>1, <1>2, Products
    <2>. QED  BY <2>1 DEF FirstRead, Read
  <1>. HIDE DEF ps
  <1>6. TypeOK'
    <2>1. reading' \subseteq [half : 0 .. 1, at : 0 .. Half, data : Nat, size : 0 .. Half]
      BY <1>1, <1>2, <1>3, <1>5
    <2>2. \A r \in reading' : r.at + r.size <= Half
      BY <1>1, <1>3, <1>5
    <2>3. read_length' \in 0 .. Width - 1
      BY <1>1, <1>3, <1>4
    <2>4. amt' \in 0 .. Half /\ page_id' \in Nat
      BY <1>1, <1>3, <1>4
    <2>. QED  BY <1>4, <2>1, <2>2, <2>3, <2>4 DEF TypeOK, Cmds
  <1>7. HalfInv'
    BY <1>2, <1>4, <1>5 DEF HalfInv
  <1>8. FilledInv'
    <2>1. \A r \in reading' : r.data = base + issued + r.at
      BY <1>2, <1>5
    <2>2. \A k \in 0 .. amt' - 1 : \E r \in reading' : k \in r.at .. r.at + r.size - 1
      BY <1>3, <1>5
    <2>. QED  BY <1>4, <2>1, <2>2 DEF FilledInv
  <1>9. PosInv'
    <2>1. page_id' * ps + page_offset' = issued' + amt' /\ amt' > 0
      BY <1>1, <1>2, <1>3, <1>4
    <2>. QED  BY <1>2, <1>4, <2>1 DEF PosInv, Large, ps
  <1>10. LengthInv'
    BY <1>2, <1>3, <1>4 DEF LengthInv, Large, ps
  <1>11. PageInv' /\ DataIntact' /\ ExactlyWritten'
    BY <1>2, <1>4 DEF PageInv, DataIntact, ExactlyWritten, FirstRead
  <1>. QED  BY <1>6, <1>7, <1>8, <1>9, <1>10, <1>11

\* The first read of large pages: a half, or all there is.
LEMMA FirstReadLargeStep ==
  ASSUME RelayInv, FirstReadLarge
  PROVE  RelayInv'
  <1>. USE DEF RelayInv
  <1>. DEFINE ps == cmd.page_size
              r0 == [half |-> 0, at |-> 0, data |-> base, size |-> amt']
  <1>1. /\ ps \in Nat \ {0} /\ cmd.pages * ps \in Nat /\ cmd.pages * ps >= ps
        /\ cmd.pages * ps + 2 * Half + 2 * CbPage < Width
        /\ cmd.length_adjust \in Nat /\ cmd.length_adjust < ps
        /\ Half \in Nat \ {0} /\ CbPage \in Nat \ {0, 1} /\ Width \in Nat
    BY CmdFacts DEF TypeOK
  <1>2. /\ toggle = 0 /\ page_id = 0 /\ page_offset = 0 /\ issued = 0 /\ base \in Nat
        /\ writing = {} /\ Large /\ cmd \in Cmds /\ ps > Half
    BY DEF FirstReadLarge, Flushed, HalfInv, PosInv, TypeOK, Large
  <1>3. Total \in Nat /\ Total > 0 /\ Total < Width
    BY <1>1 DEF Total
  <1>4. amt' \in Nat /\ amt' > 0 /\ amt' <= Half /\ amt' <= Total
    BY <1>1, <1>3 DEF FirstReadLarge, Smaller
  <1>5. /\ write_length' = Total /\ read_length' = Total - amt'
        /\ page_length' = ps - amt' /\ page_offset' = amt' /\ pc' = "barrier"
        /\ UNCHANGED <<cmd, page_id, toggle, scratch, writing, ptr, held, free, base, issued,
                       relays>>
    BY DEF FirstReadLarge
  <1>6. reading' = {r0}
    <2>1. 0 * ps = 0 /\ base + 0 + 0 = base
      BY <1>1, <1>2, Products
    <2>. QED  BY <2>1 DEF FirstReadLarge, Read
  <1>7. TypeOK'
    <2>1. reading' \subseteq [half : 0 .. 1, at : 0 .. Half, data : Nat, size : 0 .. Half]
      BY <1>1, <1>2, <1>4, <1>6
    <2>2. \A r \in reading' : r.at + r.size <= Half
      BY <1>1, <1>4, <1>6
    <2>3. read_length' \in 0 .. Width - 1 /\ write_length' \in 0 .. Width - 1
      <3>1. Total \in 0 .. Width - 1
        BY <1>1, <1>3
      <3>2. Total - amt' \in 0 .. Width - 1
        <4>. DEFINE a == amt'
                    t == Total
        <4>1. /\ a \in Nat /\ a <= t /\ t \in 0 .. Width - 1 /\ Width \in Nat
          BY <1>1, <1>4, <3>1
        <4>. HIDE DEF a, t
        <4>2. t - a \in 0 .. Width - 1
          BY <4>1
        <4>. QED  BY <4>2 DEF a, t
      <3>. QED  BY <1>5, <3>1, <3>2
    <2>4. amt' \in 0 .. Half /\ page_offset' \in 0 .. ps /\ page_length' \in 0 .. ps
      BY <1>1, <1>2, <1>4, <1>5
    <2>. QED  BY <1>5, <2>1, <2>2, <2>3, <2>4 DEF TypeOK, Cmds
  <1>8. HalfInv'
    BY <1>2, <1>5, <1>6 DEF HalfInv
  <1>9. FilledInv'
    <2>1. \A r \in reading' : r.data = base + issued + r.at
      BY <1>2, <1>6
    <2>2. \A k \in 0 .. amt' - 1 : \E r \in reading' : k \in r.at .. r.at + r.size - 1
      <3>1. r0 \in reading' /\ r0.at = 0 /\ r0.size = amt'
        BY <1>6
      <3>2. \A k \in 0 .. amt' - 1 : k \in 0 .. 0 + amt' - 1
        <4>. DEFINE a == amt'
        <4>1. a \in Nat
          BY <1>4
        <4>. HIDE DEF a
        <4>2. \A k \in 0 .. a - 1 : k \in 0 .. 0 + a - 1
          BY <4>1
        <4>. QED  BY <4>2 DEF a
      <3>. QED  BY <3>1, <3>2, Zenon
    <2>. QED  BY <1>5, <2>1, <2>2 DEF FilledInv
  <1>10. PosInv'
    <2>1. page_id' * ps + page_offset' = issued' + amt'
      <3>1. 0 * ps = 0
        BY <1>1, Products
      <3>. QED  BY <1>2, <1>4, <1>5, <3>1
    <2>2. page_length' > 0 /\ page_offset' + page_length' = ps
      BY <1>1, <1>2, <1>4, <1>5
    <2>. QED  BY <1>4, <1>5, <2>1, <2>2 DEF PosInv
  <1>11. LengthInv'
    <2>1. Total' = Total /\ Large' = Large
      BY <1>5 DEF Total, Large
    <2>2. write_length' + issued' = Total
      BY <1>2, <1>3, <1>5
    <2>3. 0 < write_length' /\ amt' <= write_length' /\ read_length' = write_length' - amt'
      BY <1>3, <1>4, <1>5
    <2>. QED  BY <1>2, <2>1, <2>2, <2>3 DEF LengthInv
  <1>12. PageInv' /\ DataIntact' /\ ExactlyWritten'
    BY <1>2, <1>5 DEF PageInv, DataIntact, ExactlyWritten, FirstReadLarge
  <1>. QED  BY <1>7, <1>8, <1>9, <1>10, <1>11, <1>12

\* The half to be written in the loop, or last, holds what is to be written.
LEMMA HalfReady ==
  ASSUME RelayInv, pc = "loop", ~Spent
  PROVE  /\ reading = {} /\ amt \in Nat /\ amt > 0 /\ amt <= Half
         /\ \A k \in 0 .. amt - 1 : scratch[toggle][k] = base + issued + k
  <1>1. reading = {} /\ amt \in 0 .. Half /\ amt > 0
    BY DEF RelayInv, HalfInv, TypeOK, PosInv, InLoop
  <1>2. \A k \in 0 .. amt - 1 : scratch[toggle][k] = base + issued + k
    BY <1>1 DEF RelayInv, FilledInv, InLoop
  <1>. QED  BY <1>1, <1>2, Sizes

\* A write out of that half joins the others, which are in the other half.
LEMMA WriteIntact ==
  ASSUME RelayInv, pc = "loop", ~Spent, NEW size \in 1 .. Half, size <= amt,
         NEW round, NEW extra, WriteOut(toggle, size, round, extra), UNCHANGED scratch
  PROVE  /\ writing' \subseteq [half : 0 .. 1, from : 0 .. Half, data : Nat, size : 0 .. Half]
         /\ \A w \in writing' : w.from = 0 /\ w.from + w.size <= Half
         /\ \A w \in writing' : w \in writing \/ w.half = toggle
         /\ DataIntact'
  <1>. DEFINE w0 == [half |-> toggle, from |-> 0, size |-> size, data |-> base + issued]
  <1>1. Half \in Nat \ {0} /\ toggle \in 0 .. 1 /\ base \in Nat /\ issued \in Nat
    BY Sizes DEF RelayInv, TypeOK
  <1>2. writing' = writing \cup {w0}
    BY <1>1 DEF WriteOut
  <1>3. /\ w0 \in [half : 0 .. 1, from : 0 .. Half, data : Nat, size : 0 .. Half]
        /\ w0.half = toggle /\ w0.from = 0 /\ w0.size = size /\ w0.data = base + issued
    BY <1>1
  <1>4. w0.from + w0.size <= Half
    BY <1>1
  <1>5. /\ writing \subseteq [half : 0 .. 1, from : 0 .. Half, data : Nat, size : 0 .. Half]
        /\ \A w \in writing : w.from = 0 /\ w.from + w.size <= Half
    BY DEF RelayInv, TypeOK, HalfInv
  <1>6. \A k \in 0 .. w0.size - 1 : scratch[w0.half][w0.from + k] = w0.data + k
    <2>1. \A k \in 0 .. amt - 1 : scratch[toggle][k] = base + issued + k
      BY HalfReady
    <2>2. amt \in Nat
      BY HalfReady
    <2>3. ASSUME NEW k \in 0 .. size - 1
          PROVE  scratch[toggle][0 + k] = base + issued + k
      <3>1. k \in 0 .. amt - 1 /\ 0 + k = k
        BY <1>1, <2>2
      <3>. QED  BY <2>1, <3>1
    <2>. QED  BY <1>3, <2>3
  <1>. HIDE DEF w0
  <1>7. DataIntact'
    <2>1. DataIntact
      BY DEF RelayInv
    <2>. QED  BY <1>2, <1>6, <2>1 DEF DataIntact
  <1>. QED  BY <1>2, <1>3, <1>4, <1>5, <1>7

\* A round of small pages.
LEMMA LoopPagedStep ==
  ASSUME RelayInv, LoopPaged
  PROVE  RelayInv'
  <1>. USE DEF RelayInv
  <1>. DEFINE ps == cmd.page_size
              m == cmd.pages - page_id
              r0 == [half |-> 1 - toggle, at |-> 0, data |-> base + issued + amt, size |-> amt']
  <1>1. /\ ps \in Nat \ {0} /\ cmd.pages \in Nat \ {0}
        /\ cmd.pages * ps \in Nat /\ cmd.pages * ps + 2 * Half + 2 * CbPage < Width
        /\ Half \in Nat \ {0} /\ CbPage \in Nat \ {0, 1} /\ Width \in Nat
    BY CmdFacts DEF TypeOK
  <1>2. /\ pc = "loop" /\ ~Large /\ ~Spent /\ writing = {} /\ cmd \in Cmds
        /\ toggle \in 0 .. 1 /\ page_id \in Nat /\ base \in Nat /\ issued \in Nat
        /\ read_length \in Nat /\ read_length # 0
    BY <1>1 DEF LoopPaged, Flushed, TypeOK, Spent
  <1>3. /\ page_offset = 0 /\ read_length = cmd.pages * ps - page_id * ps
        /\ page_id * ps + page_offset = issued + amt
    BY <1>2 DEF LengthInv, PosInv, InLoop
  <1>4. amt \in 1 .. Half
    BY <1>2, HalfReady
  <1>5. m \in Int /\ m >= 1 /\ read_length = m * ps
    <2>1. m \in Int /\ m * ps = cmd.pages * ps - page_id * ps
      BY <1>1, <1>2, Products
    <2>2. m * ps > 0
      BY <1>2, <1>3, <2>1
    <2>. QED  BY <1>1, <1>3, <2>1, <2>2, Multiples
  <1>6. PICK j \in Nat :
          /\ j >= 1 /\ j <= m /\ amt' = j * ps /\ amt' \in Nat /\ amt' >= ps /\ amt' <= Half
          /\ amt' <= m * ps /\ amt' \div ps = j
    <2>1. amt' = Batch(m * cmd.page_size)
      BY <1>5 DEF LoopPaged
    <2>. HIDE DEF m
    <2>. QED  BY <1>2, <1>5, <2>1, BatchFacts
  <1>7. /\ page_id' = page_id + j /\ read_length' = read_length - amt' /\ pc' = "barrier"
        /\ toggle' = 1 - toggle /\ WriteOut(toggle, amt, 0, 0)
        /\ UNCHANGED <<cmd, page_offset, page_length, write_length, scratch, base, relays>>
    BY <1>6 DEF LoopPaged
  <1>8. reading' = {r0}
    <2>1. page_id * ps \in Nat
      BY <1>1, <1>2, Products
    <2>2. base + page_id * ps + 0 = base + issued + amt
      BY <1>2, <1>3, <1>4, <2>1
    <2>. QED  BY <1>7, <2>2 DEF LoopPaged, Read
  <1>9. /\ ptr' \in 0 .. CbPage * CbPages /\ held' = 1 /\ free' \in 1 .. CbPage
        /\ (ptr' + free') % CbPage = 0 /\ issued' = issued + amt
    <2>1. 0 \in 0 .. 1 /\ pc # "done"
      BY <1>2
    <2>2. /\ ptr' \in 0 .. CbPage * CbPages /\ held' = 1 - 0 /\ free' \in 1 - 0 .. CbPage - 0
          /\ (ptr' + free') % CbPage = 0 /\ issued' = issued + amt
      BY <1>4, <1>7, <2>1, WriteFacts
    <2>3. 1 - 0 = 1 /\ CbPage - 0 = CbPage
      BY <1>1
    <2>. QED  BY <2>2, <2>3, Zenon
  <1>10. /\ writing' \subseteq [half : 0 .. 1, from : 0 .. Half, data : Nat, size : 0 .. Half]
         /\ \A w \in writing' : w.from = 0 /\ w.from + w.size <= Half
         /\ \A w \in writing' : w.half = toggle
         /\ DataIntact'
    <2>1. amt <= amt
      BY <1>4
    <2>. QED  BY <1>2, <1>4, <1>7, <2>1, WriteIntact
  <1>. HIDE DEF ps, m
  <1>11. TypeOK'
    <2>1. reading' \subseteq [half : 0 .. 1, at : 0 .. Half, data : Nat, size : 0 .. Half]
      BY <1>1, <1>2, <1>4, <1>6, <1>8
    <2>2. \A r \in reading' : r.at + r.size <= Half
      BY <1>1, <1>6, <1>8
    <2>3. read_length' \in 0 .. Width - 1
      <3>1. read_length \in 0 .. Width - 1
        BY DEF TypeOK
      <3>. QED  BY <1>1, <1>5, <1>6, <1>7, <3>1
    <2>4. amt' \in 0 .. Half /\ page_id' \in Nat /\ issued' \in Nat /\ toggle' \in 0 .. 1
      BY <1>1, <1>2, <1>4, <1>6, <1>7, <1>9
    <2>5. held' \in 0 .. CbPages /\ free' \in 0 .. CbPage
      BY <1>1, <1>9, Sizes
    <2>. QED  BY <1>7, <1>9, <1>10, <2>1, <2>2, <2>3, <2>4, <2>5 DEF TypeOK, Cmds
  <1>12. HalfInv'
    <2>1. toggle # 1 - toggle
      BY <1>2
    <2>. QED  BY <1>7, <1>8, <1>10, <2>1 DEF HalfInv
  <1>13. FilledInv'
    <2>1. \A r \in reading' : r.data = base + issued' + r.at
      BY <1>2, <1>4, <1>8, <1>9
    <2>2. \A k \in 0 .. amt' - 1 : \E r \in reading' : k \in r.at .. r.at + r.size - 1
      BY <1>6, <1>8
    <2>. QED  BY <1>7, <2>1, <2>2 DEF FilledInv
  <1>14. page_id' * ps = page_id * ps + amt'
    BY <1>1, <1>2, <1>6, <1>7, Products
  <1>15. PosInv'
    <2>1. page_id' * ps + page_offset' = issued' + amt'
      BY <1>1, <1>2, <1>3, <1>4, <1>6, <1>7, <1>9, <1>14
    <2>2. amt' > 0
      BY <1>1, <1>6
    <2>. QED  BY <1>2, <1>7, <2>1, <2>2 DEF PosInv, Large, ps
  <1>16. LengthInv'
    <2>1. read_length' = cmd.pages * ps - page_id' * ps
      <3>1. page_id * ps \in Int
        BY <1>1, <1>2, Products
      <3>. QED  BY <1>1, <1>3, <1>6, <1>7, <1>14, <3>1
    <2>. QED  BY <1>2, <1>3, <1>6, <1>7, <2>1 DEF LengthInv, Large, ps
  <1>17. PageInv' /\ ExactlyWritten'
    BY <1>7, <1>9 DEF PageInv, ExactlyWritten
  <1>. QED  BY <1>10, <1>11, <1>12, <1>13, <1>15, <1>16, <1>17

\* The rounds of large pages read on where the last read ended, at most a half,
\* over the edge of a page if need be; without length_adjust, no more than is left.
LEMMA LargeReads ==
  ASSUME RelayInv, LoopLarge, ~Spent
  PROVE  /\ amt' \in 1 .. Half /\ page_id' \in Nat
         /\ page_offset' \in 0 .. cmd.page_size /\ page_length' \in 1 .. cmd.page_size
         /\ page_offset' + page_length' = cmd.page_size
         /\ page_id' * cmd.page_size + page_offset' = issued + amt + amt'
         /\ reading' \subseteq [half : {1 - toggle}, at : 0 .. Half, data : Nat, size : 0 .. Half]
         /\ \A r \in reading' : r.at + r.size <= Half /\ r.data = base + issued + amt + r.at
         /\ \A k \in 0 .. amt' - 1 : \E r \in reading' : k \in r.at .. r.at + r.size - 1
         /\ ~LargeAdjust => amt' <= read_length
  <1>. USE DEF RelayInv
  <1>. DEFINE ps == cmd.page_size
              at == page_id * ps + page_offset
              left == cmd.pages - page_id
  <1>1. /\ ps \in Nat \ {0} /\ ps > Half /\ Half \in Nat \ {0} /\ cmd.pages \in Nat
        /\ cmd.pages * ps \in Nat
    BY CmdFacts DEF TypeOK, LoopLarge, Large
  <1>2. /\ InLoop /\ Large /\ pc = "loop" /\ page_id \in Nat /\ toggle \in 0 .. 1
        /\ base \in Nat /\ issued \in Nat /\ read_length \in Nat /\ read_length # 0
        /\ page_offset \in Nat /\ page_length \in Nat /\ amt \in Nat
    BY <1>1, Sizes DEF LoopLarge, TypeOK, InLoop
  <1>3. at = issued + amt /\ page_length > 0 /\ page_offset + page_length = ps
    BY <1>2 DEF PosInv
  <1>4. page_id * ps \in Nat /\ (page_id + 1) * ps = page_id * ps + ps
    BY <1>1, <1>2, Products
  <1>5. \A id, off \in Nat : \A h, a, n : id * ps + off = at + a /\ a \in Nat =>
           Read(h, a, id, off, n) = [half |-> h, at |-> a, data |-> base + at + a, size |-> n]
    <2>. SUFFICES ASSUME NEW id \in Nat, NEW off \in Nat, NEW h, NEW a \in Nat, NEW n,
                         id * ps + off = at + a
                  PROVE  base + id * ps + off = base + at + a
      BY DEF Read
    <2>1. id * ps \in Nat /\ at \in Nat
      BY <1>1, <1>2, <1>3, Products
    <2>. HIDE DEF at, ps
    <2>. DEFINE p == id * ps
    <2>2. p \in Nat /\ p + off = at + a
      BY <2>1
    <2>. HIDE DEF p
    <2>3. base + p + off = base + at + a
      BY <1>2, <2>1, <2>2
    <2>. QED  BY <2>3 DEF p
  <1>6. ~LargeAdjust => read_length >= page_length /\ (read_length > page_length =>
                          read_length >= page_length + ps)
    <2>. SUFFICES ASSUME ~LargeAdjust
                  PROVE  read_length >= page_length
                         /\ (read_length > page_length => read_length >= page_length + ps)
      OBVIOUS
    <2>1. Total = cmd.pages * ps
      <3>1. cmd.length_adjust = 0
        BY <1>2, CmdFacts DEF TypeOK, Large
      <3>. QED  BY <1>1, <3>1 DEF Total
    <2>2. read_length = write_length - amt /\ write_length + issued = Total
      BY <1>2 DEF LengthInv
    <2>3. write_length \in Nat
      BY <1>1, CmdFacts DEF TypeOK
    <2>4. read_length = cmd.pages * ps - page_id * ps - page_offset
      BY <1>1, <1>2, <1>3, <1>4, <2>1, <2>2, <2>3
    <2>5. left \in Int /\ left * ps = cmd.pages * ps - page_id * ps
      BY <1>1, <1>2, Products
    <2>6. left - 1 \in Int /\ (left - 1) * ps = left * ps - ps
      BY <1>1, <2>5, Products
    <2>7. read_length = (left - 1) * ps + page_length
      BY <1>1, <1>2, <1>3, <1>4, <2>4, <2>5, <2>6
    <2>. HIDE DEF left
    <2>8. left >= 1
      <3>1. left * ps > 0
        BY <1>1, <1>2, <1>3, <1>4, <2>4, <2>5
      <3>. QED  BY <1>1, <2>5, <3>1, Multiples
    <2>9. left - 1 = 0 \/ (left - 1) * ps >= ps
      <3>1. left - 1 >= 1 \/ left - 1 = 0
        BY <2>5, <2>8
      <3>. QED  BY <1>1, <2>6, <3>1, Multiples
    <2>10. left - 1 = 0 => (left - 1) * ps = 0
      BY <1>1, Products
    <2>. QED  BY <1>1, <1>2, <2>6, <2>7, <2>9, <2>10
  <1>. HIDE DEF ps, at
  <1>7. CASE ReadMiddle
    <2>. DEFINE r0 == [half |-> 1 - toggle, at |-> 0, data |-> base + at + 0, size |-> Half]
    <2>1. /\ page_length > Half /\ page_length' = page_length - Half
          /\ page_offset' = page_offset + Half /\ amt' = Half /\ page_id' = page_id
      BY <1>7 DEF ReadMiddle
    <2>2. reading' = {r0}
      <3>1. page_id * ps + page_offset = at + 0
        BY <1>2, <1>4 DEF at
      <3>2. Read(1 - toggle, 0, page_id, page_offset, Half) = r0
        BY <1>2, <1>5, <3>1
      <3>. QED  BY <1>7, <3>2 DEF ReadMiddle
    <2>3. amt' \in 1 .. Half /\ page_offset' \in 0 .. ps /\ page_length' \in 1 .. ps
          /\ page_id' \in Nat /\ page_offset' + page_length' = ps
      BY <1>1, <1>2, <1>3, <2>1
    <2>4. page_id' * ps + page_offset' = issued + amt + amt'
      BY <1>1, <1>2, <1>3, <1>4, <2>1 DEF at
    <2>5. base + at + 0 = base + issued + amt + 0 /\ base + at + 0 \in Nat
      BY <1>2, <1>3
    <2>6. /\ reading' \subseteq [half : {1 - toggle}, at : 0 .. Half, data : Nat, size : 0 .. Half]
          /\ \A r \in reading' : r.at + r.size <= Half /\ r.data = base + issued + amt + r.at
      BY <1>1, <2>2, <2>5
    <2>7. \A k \in 0 .. amt' - 1 : \E r \in reading' : k \in r.at .. r.at + r.size - 1
      BY <1>1, <2>1, <2>2
    <2>8. ~LargeAdjust => amt' <= read_length
      BY <1>1, <1>2, <1>6, <2>1
    <2>. QED  BY <2>3, <2>4, <2>6, <2>7, <2>8 DEF ps
  <1>8. CASE ReadRest /\ page_length < Half /\ read_length > page_length
    <2>. DEFINE more == Half - page_length
                r0 == [half |-> 1 - toggle, at |-> 0, data |-> base + at + 0,
                       size |-> page_length]
                r1 == [half |-> 1 - toggle, at |-> page_length, data |-> base + at + page_length,
                       size |-> more]
    <2>1. /\ page_id' = page_id + 1 /\ amt' = Half /\ page_offset' = more
          /\ page_length' = ps - more
      BY <1>8 DEF ReadRest, ps
    <2>2. reading' = {r0, r1}
      <3>1. page_id * ps + page_offset = at + 0
        BY <1>2, <1>4 DEF at
      <3>2. (page_id + 1) * ps + 0 = at + page_length /\ page_id + 1 \in Nat
        BY <1>1, <1>2, <1>3, <1>4 DEF at
      <3>3. Read(1 - toggle, 0, page_id, page_offset, page_length) = r0
        BY <1>2, <1>5, <3>1
      <3>4. Read(1 - toggle, page_length, page_id + 1, 0, more) = r1
        BY <1>2, <1>5, <3>2
      <3>. QED  BY <1>8, <2>1, <3>3, <3>4 DEF ReadRest
    <2>3. amt' \in 1 .. Half /\ page_offset' \in 0 .. ps /\ page_length' \in 1 .. ps
          /\ page_id' \in Nat /\ page_offset' + page_length' = ps
      BY <1>1, <1>2, <1>3, <1>8, <2>1
    <2>4. page_id' * ps + page_offset' = issued + amt + amt'
      BY <1>1, <1>2, <1>3, <1>4, <2>1 DEF at
    <2>5. base + at + 0 = base + issued + amt + 0 /\ base + at + 0 \in Nat
          /\ base + at + page_length = base + issued + amt + page_length
          /\ base + at + page_length \in Nat /\ more \in 0 .. Half /\ page_length \in 0 .. Half
      BY <1>1, <1>2, <1>3, <1>8
    <2>6. /\ reading' \subseteq [half : {1 - toggle}, at : 0 .. Half, data : Nat, size : 0 .. Half]
          /\ \A r \in reading' : r.at + r.size <= Half /\ r.data = base + issued + amt + r.at
      BY <1>1, <1>2, <2>2, <2>5
    <2>7. \A k \in 0 .. amt' - 1 : \E r \in reading' : k \in r.at .. r.at + r.size - 1
      BY <1>1, <1>2, <2>1, <2>2
    <2>8. ~LargeAdjust => amt' <= read_length
      BY <1>1, <1>2, <1>6, <1>8, <2>1
    <2>. QED  BY <2>3, <2>4, <2>6, <2>7, <2>8 DEF ps
  <1>9. CASE ReadRest /\ ~(page_length < Half /\ read_length > page_length)
    <2>. DEFINE r0 == [half |-> 1 - toggle, at |-> 0, data |-> base + at + 0,
                       size |-> page_length]
    <2>1. /\ page_id' = page_id + 1 /\ amt' = page_length /\ page_offset' = 0
          /\ page_length' = ps /\ page_length <= Half
      BY <1>9 DEF ReadRest, ps
    <2>2. reading' = {r0}
      <3>1. page_id * ps + page_offset = at + 0
        BY <1>2, <1>4 DEF at
      <3>2. Read(1 - toggle, 0, page_id, page_offset, page_length) = r0
        BY <1>2, <1>5, <3>1
      <3>. QED  BY <1>9, <3>2 DEF ReadRest
    <2>3. amt' \in 1 .. Half /\ page_offset' \in 0 .. ps /\ page_length' \in 1 .. ps
          /\ page_id' \in Nat /\ page_offset' + page_length' = ps
      BY <1>1, <1>2, <1>3, <2>1
    <2>4. page_id' * ps + page_offset' = issued + amt + amt'
      BY <1>1, <1>2, <1>3, <1>4, <2>1 DEF at
    <2>5. base + at + 0 = base + issued + amt + 0 /\ base + at + 0 \in Nat
          /\ page_length \in 0 .. Half
      BY <1>1, <1>2, <1>3, <2>1
    <2>6. /\ reading' \subseteq [half : {1 - toggle}, at : 0 .. Half, data : Nat, size : 0 .. Half]
          /\ \A r \in reading' : r.at + r.size <= Half /\ r.data = base + issued + amt + r.at
      BY <1>1, <2>2, <2>5
    <2>7. \A k \in 0 .. amt' - 1 : \E r \in reading' : k \in r.at .. r.at + r.size - 1
      BY <1>2, <2>1, <2>2
    <2>8. ~LargeAdjust => amt' <= read_length
      BY <1>1, <1>2, <1>6, <2>1
    <2>. QED  BY <2>3, <2>4, <2>6, <2>7, <2>8 DEF ps
  <1>. QED  BY <1>7, <1>8, <1>9 DEF LoopLarge

\* A round of large pages.
LEMMA LoopLargeStep ==
  ASSUME RelayInv, LoopLarge
  PROVE  RelayInv'
  <1>. USE DEF RelayInv
  <1>. DEFINE ps == cmd.page_size
              size == Smaller(amt, write_length)
  <1>1. /\ ps \in Nat \ {0} /\ cmd.pages * ps + 2 * Half + 2 * CbPage < Width
        /\ cmd.pages * ps \in Nat /\ cmd.length_adjust \in Nat
        /\ Half \in Nat \ {0} /\ CbPage \in Nat \ {0, 1} /\ Width \in Nat
    BY CmdFacts DEF TypeOK
  <1>2. /\ pc = "loop" /\ InLoop /\ Large /\ writing = {} /\ cmd \in Cmds
        /\ toggle \in 0 .. 1 /\ base \in Nat /\ issued \in Nat
        /\ read_length \in 0 .. Width - 1 /\ read_length # 0 /\ write_length \in 0 .. Width - 1
        /\ amt \in 0 .. Half
    BY DEF LoopLarge, Flushed, TypeOK, InLoop
  <1>3. /\ write_length + issued = Total
        /\ \/ 0 < write_length /\ amt <= write_length /\ read_length = write_length - amt
           \/ LargeAdjust /\ 0 < write_length /\ write_length < amt
    BY <1>2 DEF LengthInv
  <1>4. write_length > 0 /\ ~Spent
    BY <1>1, <1>2, <1>3 DEF Spent
  <1>5. /\ amt' \in 1 .. Half /\ page_id' \in Nat
        /\ page_offset' \in 0 .. ps /\ page_length' \in 1 .. ps
        /\ page_offset' + page_length' = ps
        /\ page_id' * ps + page_offset' = issued + amt + amt'
        /\ reading' \subseteq [half : {1 - toggle}, at : 0 .. Half, data : Nat, size : 0 .. Half]
        /\ \A r \in reading' : r.at + r.size <= Half /\ r.data = base + issued + amt + r.at
        /\ \A k \in 0 .. amt' - 1 : \E r \in reading' : k \in r.at .. r.at + r.size - 1
    BY <1>4, LargeReads
  <1>6. ~LargeAdjust => amt' <= read_length
    BY <1>4, LargeReads
  <1>7. size \in 1 .. Half /\ size <= amt
    <2>1. amt > 0
      BY <1>2, <1>4, HalfReady
    <2>. QED  BY <1>1, <1>2, <1>4, <2>1 DEF Smaller
  <1>8. /\ read_length' = (IF write_length < amt THEN 0
                           ELSE (read_length + Width - amt') % Width)
        /\ write_length' = write_length - size /\ WriteOut(toggle, size, 0, 0)
        /\ toggle' = 1 - toggle /\ pc' = "barrier" /\ UNCHANGED <<cmd, scratch, base, relays>>
    BY DEF LoopLarge, WriteLarge
  <1>. HIDE DEF size
  <1>9. /\ ptr' \in 0 .. CbPage * CbPages /\ held' = 1 /\ free' \in 1 .. CbPage
        /\ (ptr' + free') % CbPage = 0 /\ issued' = issued + size
    <2>1. 0 \in 0 .. 1 /\ pc # "done"
      BY <1>2
    <2>2. /\ ptr' \in 0 .. CbPage * CbPages /\ held' = 1 - 0 /\ free' \in 1 - 0 .. CbPage - 0
          /\ (ptr' + free') % CbPage = 0 /\ issued' = issued + size
      BY <1>7, <1>8, <2>1, WriteFacts
    <2>3. 1 - 0 = 1 /\ CbPage - 0 = CbPage
      BY <1>1
    <2>. QED  BY <2>2, <2>3, Zenon
  <1>10. /\ writing' \subseteq [half : 0 .. 1, from : 0 .. Half, data : Nat, size : 0 .. Half]
         /\ \A w \in writing' : w.from = 0 /\ w.from + w.size <= Half
         /\ \A w \in writing' : w.half = toggle
         /\ DataIntact'
    BY <1>2, <1>4, <1>7, <1>8, WriteIntact
  <1>11. \/ /\ amt <= write_length /\ size = amt /\ write_length' = read_length
            /\ \/ amt' <= read_length /\ read_length' = read_length - amt'
               \/ LargeAdjust /\ read_length < amt' /\ read_length' = Width + read_length - amt'
         \/ LargeAdjust /\ write_length < amt /\ write_length' = 0 /\ read_length' = 0
    <2>1. CASE write_length < amt
      <3>1. size = write_length
        BY <1>2, <2>1 DEF size, Smaller
      <3>2. write_length' = 0 /\ read_length' = 0
        BY <1>2, <1>8, <2>1, <3>1
      <3>3. LargeAdjust
        BY <1>2, <1>3, <2>1
      <3>. QED  BY <2>1, <3>2, <3>3
    <2>2. CASE ~(write_length < amt)
      <3>1. amt <= write_length /\ read_length = write_length - amt
        BY <1>2, <1>3, <2>2
      <3>2. size = amt
        BY <1>2, <3>1 DEF size, Smaller
      <3>3. write_length' = read_length
        BY <1>8, <3>1, <3>2
      <3>. DEFINE a == amt'
      <3>4. a \in Nat /\ a <= Half /\ read_length \in Nat /\ read_length < Width /\ Half < Width
        BY <1>1, <1>2, <1>5
      <3>5. read_length' = (read_length + Width - a) % Width
        BY <1>8, <2>2
      <3>. HIDE DEF a
      <3>6. Width \in Nat \ {0} /\ read_length + Width - a \in Nat
        BY <1>1, <3>4
      <3>7. CASE a <= read_length
        <4>1. read_length - a \in 0 .. Width - 1
              /\ read_length + Width - a = 1 * Width + (read_length - a)
          BY <1>1, <3>4, <3>7
        <4>. DEFINE all == read_length + Width - a
                    rest == read_length - a
        <4>a. all \in Nat /\ rest \in 0 .. Width - 1 /\ all = 1 * Width + rest /\ 1 \in Int
          BY <3>6, <4>1
        <4>. HIDE DEF all, rest
        <4>b. all % Width = rest
          BY <3>6, <4>a, Unique
        <4>2. read_length' = read_length - a
          BY <3>5, <4>b DEF all, rest
        <4>. QED  BY <3>1, <3>2, <3>3, <3>7, <4>2 DEF a
      <3>8. CASE ~(a <= read_length)
        <4>1. Width + read_length - a \in 0 .. Width - 1
              /\ read_length + Width - a = 0 * Width + (Width + read_length - a)
          BY <1>1, <3>4, <3>8
        <4>2. read_length' = Width + read_length - a
          BY <3>5, <3>6, <4>1, Unique
        <4>3. read_length < a
          BY <3>4, <3>8
        <4>4. LargeAdjust
          BY <1>6, <3>8 DEF a
        <4>. QED  BY <3>1, <3>2, <3>3, <4>2, <4>3, <4>4 DEF a
      <3>. QED  BY <3>7, <3>8
    <2>. QED  BY <2>1, <2>2
  <1>. HIDE DEF ps
  <1>12. TypeOK'
    <2>1. reading' \subseteq [half : 0 .. 1, at : 0 .. Half, data : Nat, size : 0 .. Half]
      <3>1. 1 - toggle \in 0 .. 1
        BY <1>2
      <3>. QED  BY <1>5, <3>1
    <2>2. \A r \in reading' : r.at + r.size <= Half
      BY <1>5
    <2>3. read_length' \in 0 .. Width - 1 /\ write_length' \in 0 .. Width - 1
      BY <1>1, <1>2, <1>5, <1>11
    <2>4. amt' \in 0 .. Half /\ issued' \in Nat /\ toggle' \in 0 .. 1
      BY <1>1, <1>2, <1>5, <1>7, <1>8, <1>9
    <2>5. page_id' \in Nat /\ page_offset' \in 0 .. ps /\ page_length' \in 0 .. ps
      BY <1>1, <1>5
    <2>6. held' \in 0 .. CbPages /\ free' \in 0 .. CbPage
      BY <1>1, <1>9, Sizes
    <2>7. /\ cmd' \in Cmds /\ pc' \in {"start", "barrier", "loop", "done"} /\ cmd' = cmd
          /\ scratch' \in [0 .. 1 -> [0 .. Half - 1 -> Int]] /\ base' \in Nat /\ relays' \in Nat
      BY <1>2, <1>8 DEF TypeOK
    <2>. QED  BY <1>9, <1>10, <2>1, <2>2, <2>3, <2>4, <2>5, <2>6, <2>7 DEF TypeOK, Cmds, ps
  <1>13. HalfInv'
    <2>1. toggle # 1 - toggle
      BY <1>2
    <2>2. \A r \in reading' : r.half = 1 - toggle
      BY <1>5
    <2>. QED  BY <1>8, <1>10, <2>1, <2>2 DEF HalfInv
  <1>14. Large' /\ Total' = Total /\ (Spent' <=> write_length' = 0)
    BY <1>2, <1>8 DEF Large, Total, Spent
  <1>15. CASE write_length' = 0
    <2>1. FilledInv' /\ PosInv'
      BY <1>8, <1>14, <1>15 DEF FilledInv, PosInv
    <2>2. LargeAdjust /\ read_length' = 0 /\ write_length < amt
      BY <1>2, <1>11, <1>15
    <2>3. write_length' + issued' = Total
      <3>1. size = write_length
        BY <1>2, <2>2 DEF size, Smaller
      <3>. QED  BY <1>2, <1>3, <1>9, <1>15, <3>1
    <2>4. LengthInv'
      BY <1>14, <1>15, <2>2, <2>3 DEF LengthInv
    <2>. QED  BY <1>8, <1>9, <1>10, <1>12, <1>13, <2>1, <2>4 DEF PageInv, ExactlyWritten
  <1>16. CASE write_length' # 0
    <2>1. /\ size = amt /\ write_length' = read_length /\ amt <= write_length
          /\ \/ amt' <= read_length /\ read_length' = read_length - amt'
             \/ LargeAdjust /\ read_length < amt' /\ read_length' = Width + read_length - amt'
      BY <1>11, <1>16
    <2>2. issued' = issued + amt
      BY <1>9, <2>1
    <2>3. FilledInv'
      <3>1. \A r \in reading' : r.data = base + issued' + r.at
        BY <1>5, <2>2, <1>2
      <3>. QED  BY <1>5, <1>8, <3>1 DEF FilledInv
    <2>4. PosInv'
      <3>1. page_id' * ps + page_offset' = issued' + amt'
        BY <1>5, <2>2
      <3>2. amt' > 0 /\ page_length' > 0
        BY <1>1, <1>5
      <3>. QED  BY <1>5, <1>8, <3>1, <3>2 DEF PosInv, ps
    <2>5. LengthInv'
      <3>1. write_length' + issued' = Total
        <4>1. amt \in Int /\ write_length \in Int /\ write_length' = write_length - amt
          BY <1>2, <1>8, <2>1
        <4>. QED  BY <1>2, <1>3, <2>2, <4>1
      <3>2. 0 < write_length'
        BY <1>2, <2>1
      <3>3. \/ amt' <= write_length' /\ read_length' = write_length' - amt'
            \/ LargeAdjust /\ write_length' < amt' /\ read_length' = Width + write_length' - amt'
        BY <2>1
      <3>. QED  BY <1>14, <3>1, <3>2, <3>3 DEF LengthInv
    <2>. QED  BY <1>8, <1>9, <1>10, <1>12, <1>13, <2>3, <2>4, <2>5 DEF PageInv, ExactlyWritten
  <1>. QED  BY <1>15, <1>16

\* The last write of a relay, and the release of what is held.
LEMMA LastWriteStep ==
  ASSUME RelayInv, LastWrite
  PROVE  RelayInv'
  <1>. USE DEF RelayInv
  <1>. DEFINE ps == cmd.page_size
  <1>1. /\ ps \in Nat \ {0} /\ cmd.pages * ps + 2 * Half + 2 * CbPage < Width
        /\ cmd.pages * ps \in Nat /\ cmd.length_adjust \in Nat /\ cmd.length_adjust < ps
        /\ Half \in Nat \ {0} /\ CbPage \in Nat \ {0, 1} /\ Width \in Nat
    BY CmdFacts DEF TypeOK
  <1>2. /\ pc = "loop" /\ InLoop /\ read_length = 0 /\ reading = {} /\ cmd \in Cmds
        /\ toggle \in 0 .. 1 /\ issued \in Nat /\ write_length \in 0 .. Width - 1
        /\ amt \in 0 .. Half /\ page_id \in Nat /\ held = 1 /\ free \in 1 .. CbPage
    BY DEF LastWrite, TypeOK, InLoop, HalfInv, PageInv
  <1>3. /\ pc' = "done"
        /\ UNCHANGED <<cmd, page_id, page_offset, page_length, read_length, write_length, amt,
                       toggle, scratch, reading, base, relays>>
    BY DEF LastWrite, pos
  <1>4. LastSize \in Nat /\ LastSize <= amt /\ issued + LastSize = Total
        /\ (LastSize > 0 => ~Spent) /\ (LastSize = 0 => LargeAdjust)
    <2>1. CASE Large
      <3>1. LastSize = write_length
        BY <2>1 DEF LastSize
      <3>2. /\ write_length + issued = Total
            /\ \/ 0 < write_length /\ amt <= write_length /\ 0 = write_length - amt
               \/ /\ LargeAdjust /\ 0 < write_length /\ write_length < amt
                  /\ 0 = Width + write_length - amt
               \/ LargeAdjust /\ write_length = 0
        BY <1>2, <2>1 DEF LengthInv
      <3>3. ~(0 < write_length /\ 0 = Width + write_length - amt)
        BY <1>1, <1>2
      <3>4. write_length \in Nat /\ issued + write_length = Total
        BY <1>1, <1>2, <3>2
      <3>5. write_length <= amt
        BY <1>2, <3>2, <3>3
      <3>6. write_length = 0 => LargeAdjust
        BY <3>2
      <3>7. write_length > 0 => ~Spent
        BY DEF Spent
      <3>. QED  BY <3>1, <3>4, <3>5, <3>6, <3>7
    <2>2. CASE ~Large
      <3>1. LastSize = amt - cmd.length_adjust /\ ~Spent
        BY <2>2 DEF LastSize, Spent
      <3>2. /\ page_offset = 0 /\ amt >= ps /\ 0 = cmd.pages * ps - page_id * ps
            /\ page_id * ps + page_offset = issued + amt
        BY <1>2, <2>2, <3>1 DEF LengthInv, PosInv
      <3>3. page_id * ps \in Nat
        BY <1>1, <1>2, Products
      <3>4. cmd.pages * ps = issued + amt
        BY <1>1, <1>2, <3>2, <3>3
      <3>5. issued + LastSize = Total
        BY <1>1, <1>2, <3>1, <3>4 DEF Total
      <3>6. LastSize \in Nat /\ LastSize <= amt /\ LastSize > 0
        <4>. DEFINE la == cmd.length_adjust
        <4>1. /\ ps \in Nat /\ la \in Nat /\ la < ps /\ amt \in Nat /\ amt >= ps
          BY <1>1, <1>2, <3>2
        <4>. HIDE DEF la, ps
        <4>2. amt - la \in Nat /\ amt - la <= amt /\ amt - la > 0
          BY <4>1
        <4>. QED  BY <3>1, <4>2 DEF la
      <3>. QED  BY <3>1, <3>5, <3>6
    <2>. QED  BY <2>1, <2>2
  <1>5. /\ writing' \subseteq [half : 0 .. 1, from : 0 .. Half, data : Nat, size : 0 .. Half]
        /\ \A w \in writing' : w.from = 0 /\ w.from + w.size <= Half
        /\ DataIntact'
        /\ ptr' \in 0 .. CbPage * CbPages /\ held' = 0 /\ free' \in 0 .. CbPage
        /\ (~LargeAdjust => free' < CbPage) /\ issued' = Total
    <2>1. CASE LastSize > 0
      <3>1. LastSize \in 1 .. Half /\ WriteOut(toggle, LastSize, 1, 1)
        BY <1>1, <1>2, <1>4, <2>1 DEF LastWrite
      <3>2. 1 \in 0 .. 1 /\ pc # "done"
        BY <1>2
      <3>3. /\ ptr' \in 0 .. CbPage * CbPages /\ held' = 1 - 1 /\ free' \in 1 - 1 .. CbPage - 1
            /\ issued' = issued + LastSize
        <4>. DEFINE size == LastSize
        <4>1. size \in 1 .. Half /\ WriteOut(toggle, size, 1, 1)
          BY <3>1
        <4>. HIDE DEF size
        <4>2. /\ ptr' \in 0 .. CbPage * CbPages /\ held' = 1 - 1 /\ free' \in 1 - 1 .. CbPage - 1
              /\ issued' = issued + size
          BY <3>2, <4>1, WriteFacts
        <4>. QED  BY <4>2 DEF size
      <3>4. free' \in 0 .. CbPage /\ free' < CbPage /\ held' = 0
        BY <1>1, <3>3
      <3>5. /\ writing' \subseteq [half : 0 .. 1, from : 0 .. Half, data : Nat, size : 0 .. Half]
            /\ \A w \in writing' : w.from = 0 /\ w.from + w.size <= Half
            /\ DataIntact'
        <4>. DEFINE size == LastSize
        <4>1. size \in 1 .. Half /\ size <= amt /\ WriteOut(toggle, size, 1, 1)
              /\ UNCHANGED scratch /\ ~Spent
          BY <1>3, <1>4, <2>1, <3>1
        <4>. HIDE DEF size
        <4>. QED  BY <1>2, <4>1, WriteIntact
      <3>. QED  BY <1>4, <3>3, <3>4, <3>5
    <2>2. CASE ~(LastSize > 0)
      <3>1. held' = held - 1 /\ UNCHANGED <<writing, ptr, free, issued>>
        BY <2>2 DEF LastWrite
      <3>2. LastSize = 0 /\ LargeAdjust /\ issued' = Total
        BY <1>2, <1>4, <2>2, <3>1
      <3>3. held' = 0 /\ free' \in 0 .. CbPage
        BY <1>1, <1>2, <3>1
      <3>4. /\ writing' \subseteq [half : 0 .. 1, from : 0 .. Half, data : Nat, size : 0 .. Half]
            /\ \A w \in writing' : w.from = 0 /\ w.from + w.size <= Half
            /\ ptr' \in 0 .. CbPage * CbPages
        BY <3>1 DEF TypeOK, HalfInv
      <3>5. DataIntact'
        BY <1>3, <3>1 DEF DataIntact
      <3>. QED  BY <3>2, <3>3, <3>4, <3>5
    <2>. QED  BY <2>1, <2>2
  <1>6. TypeOK'
    <2>1. held' \in 0 .. CbPages /\ issued' \in Nat
      BY <1>2, <1>4, <1>5, Sizes
    <2>. QED  BY <1>3, <1>5, <2>1 DEF TypeOK, Cmds
  <1>7. HalfInv' /\ FilledInv' /\ PosInv' /\ LengthInv' /\ PageInv'
    BY <1>2, <1>3, <1>5 DEF HalfInv, FilledInv, PosInv, LengthInv, PageInv, InLoop
  <1>8. ExactlyWritten'
    BY <1>3, <1>5 DEF ExactlyWritten, Total
  <1>. QED  BY <1>5, <1>6, <1>7, <1>8

\* The next relay begins at the top of a page, writes may still be under way.
LEMMA NextRelayStep ==
  ASSUME RelayInv, NextRelay
  PROVE  RelayInv'
  <1>. USE DEF RelayInv
  <1>. DEFINE q == (ptr + CbPage - 1) \div CbPage
              R == CbPage * CbPages
              top == IF RoundedUp(ptr) = R THEN 0 ELSE RoundedUp(ptr)
  <1>1. PICK c \in Cmds : Begin(c, RoundedUp(ptr), base + issued)
    BY DEF NextRelay
  <1>2. /\ pc = "done" /\ reading = {} /\ relays' = relays + 1
        /\ UNCHANGED <<scratch, reading, writing>>
    BY DEF NextRelay, HalfInv
  <1>3. /\ cmd' = c /\ pc' = "start" /\ base' = base + issued /\ issued' = 0
        /\ page_id' = 0 /\ page_offset' = 0 /\ page_length' = 0
        /\ read_length' = 0 /\ write_length' = 0 /\ amt' = 0 /\ toggle' = 0
        /\ held' = 1 /\ free' = CbPage - 1 /\ ptr' = top + 1
    BY <1>1 DEF Begin, End
  <1>4. /\ c.page_size \in Nat \ {0} /\ CbPage \in Nat \ {0, 1} /\ CbPages \in Nat \ {0}
        /\ Half \in Nat \ {0} /\ Width \in Nat /\ Width > 0
    <2>1. c.page_size \in Nat \ {0} /\ c.pages * c.page_size \in Nat
          /\ c.pages * c.page_size + 2 * Half + 2 * CbPage < Width
      BY CmdFacts
    <2>. QED  BY <2>1, Sizes
  <1>5. R = CbPages * CbPage /\ R \in Nat /\ ptr \in Nat /\ ptr <= R
    <2>1. R = CbPages * CbPage /\ R \in Nat
      BY <1>4, Products
    <2>. QED  BY <2>1 DEF TypeOK
  <1>6. PICK k \in Nat : top = k * CbPage /\ k < CbPages
    <2>1. ptr + CbPage - 1 \in Nat
      BY <1>4, <1>5
    <2>2. q \in Nat /\ q * CbPage <= ptr + CbPage - 1
      <3>. DEFINE x == ptr + CbPage - 1
                  d == x \div CbPage
      <3>1. x \in Nat
        BY <2>1
      <3>. HIDE DEF x
      <3>2. x = d * CbPage + (x % CbPage) /\ x % CbPage \in 0 .. CbPage - 1 /\ d \in Nat
        BY <1>4, <3>1, Division
      <3>. HIDE DEF d
      <3>3. d * CbPage \in Int
        BY <1>4, <3>2, Products
      <3>4. d * CbPage <= x
        BY <1>4, <3>1, <3>2, <3>3
      <3>. QED  BY <3>2, <3>4 DEF d, x
    <2>3. RoundedUp(ptr) = q * CbPage
      BY DEF RoundedUp
    <2>. HIDE DEF q
    <2>4. q < CbPages + 1
      <3>1. CbPages + 1 \in Int /\ (CbPages + 1) * CbPage = CbPages * CbPage + CbPage
        BY <1>4, Products
      <3>2. q * CbPage \in Int
        BY <1>4, <2>2, Products
      <3>3. q * CbPage < (CbPages + 1) * CbPage
        BY <1>4, <1>5, <2>2, <3>1, <3>2
      <3>. QED  BY <1>4, <2>2, <3>1, <3>3, Monotonic
    <2>5. CASE q * CbPage = R
      <3>1. top = 0 /\ 0 * CbPage = 0 /\ 0 < CbPages /\ 0 \in Nat
        BY <1>4, <2>3, <2>5, Products
      <3>. QED  BY <3>1
    <2>6. CASE q * CbPage # R
      <3>1. q < CbPages
        BY <1>4, <1>5, <2>2, <2>4, <2>6
      <3>2. top = q * CbPage
        BY <2>3, <2>6
      <3>. QED  BY <2>2, <3>1, <3>2
    <2>. QED  BY <2>5, <2>6
  <1>. HIDE DEF q, top
  <1>7. top \in Nat /\ top + 1 <= R
    <2>1. k + 1 \in Int /\ (k + 1) * CbPage = k * CbPage + CbPage /\ k * CbPage \in Nat
      BY <1>4, <1>6, Products
    <2>2. (k + 1) * CbPage <= CbPages * CbPage
      BY <1>4, <1>6, <2>1, Monotonic
    <2>. QED  BY <1>4, <1>5, <1>6, <2>1, <2>2
  <1>8. TypeOK'
    <2>1. ptr' \in 0 .. R /\ held' \in 0 .. CbPages /\ free' \in 0 .. CbPage
      BY <1>3, <1>4, <1>5, <1>7
    <2>2. base' \in Nat /\ relays' \in Nat
      BY <1>2, <1>3 DEF TypeOK
    <2>3. cmd' \in Cmds
      BY <1>3
    <2>. QED  BY SMTT(30), <1>2, <1>3, <1>4, <2>1, <2>2, <2>3 DEF TypeOK, Cmds
  <1>9. PageInv'
    <2>1. ptr' + free' = (k + 1) * CbPage + 0 /\ ptr' + free' \in Nat
      <3>1. (k + 1) * CbPage = k * CbPage + CbPage /\ k * CbPage \in Nat
        BY <1>4, <1>6, Products
      <3>. QED  BY <1>3, <1>4, <1>6, <3>1
    <2>2. (ptr' + free') % CbPage = 0
      <3>. DEFINE x == ptr' + free'
                  d == k + 1
      <3>1. x \in Nat /\ d \in Int /\ 0 \in 0 .. CbPage - 1 /\ x = d * CbPage + 0
        BY <1>4, <1>6, <2>1
      <3>. HIDE DEF x, d
      <3>2. x % CbPage = 0
        BY <1>4, <3>1, Unique
      <3>. QED  BY <3>2 DEF x
    <2>3. free' > 0
      BY <1>3, <1>4
    <2>. QED  BY <1>3, <2>2, <2>3 DEF PageInv
  <1>10. HalfInv' /\ FilledInv' /\ PosInv' /\ LengthInv' /\ DataIntact' /\ ExactlyWritten'
    BY <1>2, <1>3 DEF HalfInv, FilledInv, PosInv, LengthInv, DataIntact, ExactlyWritten, InLoop
  <1>. QED  BY <1>8, <1>9, <1>10

-----------------------------------------------------------------------------
(***************************************************************************)
(* The theorems.                                                           *)
(***************************************************************************)
\* RelayInv is an invariant of the relays.
THEOREM RelayInvariant == Spec => []RelayInv
  <1>1. Init => RelayInv
    BY InitLemma
  <1>2. RelayInv /\ [Next]_vars => RelayInv'
    <2>. SUFFICES ASSUME RelayInv, [Next]_vars PROVE RelayInv'
      OBVIOUS
    <2>1. CASE UNCHANGED vars
      BY <2>1 DEF RelayInv, TypeOK, HalfInv, FilledInv, PosInv, LengthInv, PageInv, DataIntact,
                  ExactlyWritten, InLoop, Spent, Large, Total, Cmds, vars
    <2>2. CASE Relay
      BY <2>2, FirstReadStep, FirstReadLargeStep, BarrierStep, LoopPagedStep, LoopLargeStep,
         LastWriteStep DEF Relay
    <2>3. CASE NextRelay
      BY <2>3, NextRelayStep
    <2>4. CASE \E r \in reading : Land(r)
      BY <2>4, LandStep
    <2>5. CASE \E w \in writing : Depart(w)
      BY <2>5, DepartStep
    <2>. QED  BY <2>1, <2>2, <2>3, <2>4, <2>5 DEF Next, Done
  <1>. QED  BY <1>1, <1>2, PTL DEF Spec

\* The variables keep their types: every read and write stays inside its half of
\* the scratch buffer and the write pointer inside the dispatch buffer.
THEOREM RelayTypeCorrect == Spec => []TypeOK
  <1>1. RelayInv => TypeOK
    BY DEF RelayInv
  <1>. QED  BY RelayInvariant, <1>1, PTL

\* As long as a write has not departed, its half of the scratch buffer holds the
\* data it is to carry: process_relay_paged_cmd never refills a half too early,
\* and never writes one that is not filled.
THEOREM DataIntactTheorem == Spec => []DataIntact
  <1>1. RelayInv => DataIntact
    BY DEF RelayInv
  <1>. QED  BY RelayInvariant, <1>1, PTL

\* A relay that ended wrote exactly what its command asks for, with length_adjust
\* on pages of any size, although read_length may wrap below 0.
THEOREM ExactlyWrittenTheorem == Spec => []ExactlyWritten
  <1>1. RelayInv => ExactlyWritten
    BY DEF RelayInv
  <1>. QED  BY RelayInvariant, <1>1, PTL

\* write_pages_to_dispatcher: for the commands the host sends (length_adjust on
\* small pages only) the page being filled is the only one held, and at the end
\* all were released with data in the last one.
THEOREM OnePageHeldTheorem == ~LargeAdjust => (Spec => []OnePageHeld)
  <1>. SUFFICES ASSUME ~LargeAdjust PROVE Spec => []OnePageHeld
    OBVIOUS
  <1>1. RelayInv => OnePageHeld
    <2>. SUFFICES ASSUME RelayInv PROVE OnePageHeld
      OBVIOUS
    <2>1. free >= 0
      BY Sizes DEF RelayInv, TypeOK
    <2>. QED  BY <2>1 DEF RelayInv, PageInv, OnePageHeld
  <1>. QED  BY RelayInvariant, <1>1, PTL

=============================================================================
