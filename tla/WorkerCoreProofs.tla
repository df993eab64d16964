-------------------------- MODULE WorkerCoreProofs --------------------------
(***************************************************************************)
(* Proofs about WorkerCore, for buffers, batches and programs of any size. *)
(***************************************************************************)
EXTENDS WorkerCore, Integers, SequenceTheorems, TLAPS

(***************************************************************************)
(* Remainders.                                                             *)
(***************************************************************************)
LEMMA DivMod ==
  \A a \in Nat, p \in Nat \ {0} :
     a = p * (a \div p) + (a % p) /\ a % p \in 0 .. p - 1 /\ a \div p \in Nat
OBVIOUS

LEMMA Quotient ==
  ASSUME NEW a \in Nat, NEW p \in Nat \ {0}
  PROVE  \E m \in Nat : a = p * m + (a % p)
<1>1. a = p * (a \div p) + (a % p) /\ a \div p \in Nat
  BY DivMod
<1>. QED  BY <1>1

\* Between -p and p there is no multiple of p but 0.
LEMMA NoMultiple ==
  ASSUME NEW d \in Int, NEW p \in Nat \ {0}, d * p < p, d * p > -p
  PROVE  d = 0
<1>1. CASE d >= 1
  <2>1. d * p >= p
    BY <1>1
  <2>. QED  BY <2>1
<1>2. CASE d <= -1
  <2>1. d * p <= -p
    BY <1>2
  <2>. QED  BY <2>1
<1>. QED  BY <1>1, <1>2

\* A multiple of p apart.
Cong(x, y, p) == \E k \in Int : x = y + k * p

LEMMA CongSym ==
  ASSUME NEW x \in Int, NEW y \in Int, NEW p \in Int, Cong(x, y, p)
  PROVE  Cong(y, x, p)
<1>1. PICK k \in Int : x = y + k * p
  BY DEF Cong
<1>2. PICK j \in Int : j = -k
  OBVIOUS
<1>3. y = x + j * p
  BY <1>1, <1>2
<1>. QED  BY <1>3 DEF Cong

LEMMA CongTrans ==
  ASSUME NEW x \in Int, NEW y \in Int, NEW z \in Int, NEW p \in Int, Cong(x, y, p), Cong(y, z, p)
  PROVE  Cong(x, z, p)
<1>1. PICK k \in Int : x = y + k * p
  BY DEF Cong
<1>2. PICK m \in Int : y = z + m * p
  BY DEF Cong
<1>3. PICK j \in Int : j = k + m
  OBVIOUS
<1>4. x = z + j * p
  BY <1>1, <1>2, <1>3
<1>. QED  BY <1>4 DEF Cong

LEMMA CongAdd ==
  ASSUME NEW x \in Int, NEW y \in Int, NEW p \in Int, Cong(x, y, p)
  PROVE  \A b \in Int : Cong(x + b, y + b, p)
<1>1. PICK k \in Int : x = y + k * p
  BY DEF Cong
<1>2. ASSUME NEW b \in Int PROVE Cong(x + b, y + b, p)
  <2>1. x + b = y + b + k * p
    BY <1>1
  <2>. QED  BY <2>1 DEF Cong
<1>. QED  BY <1>2

LEMMA CongSelf ==
  ASSUME NEW x \in Int, NEW p \in Int
  PROVE  Cong(x, x, p)
<1>1. PICK k \in Int : k = 0
  OBVIOUS
<1>2. x = x + k * p
  BY <1>1
<1>. QED  BY <1>2 DEF Cong

\* Once round.
LEMMA CongOnce ==
  ASSUME NEW x \in Int, NEW p \in Int
  PROVE  Cong(x + p, x, p)
<1>1. PICK k \in Int : k = 1
  OBVIOUS
<1>2. x + p = x + k * p
  BY <1>1
<1>. QED  BY <1>2 DEF Cong

\* Of numbers below p only a number itself.
LEMMA CongSmall ==
  ASSUME NEW x \in Int, NEW y \in Int, NEW p \in Nat \ {0}, Cong(x, y, p), x < y + p, y < x + p
  PROVE  x = y
<1>1. PICK k \in Int : x = y + k * p
  BY DEF Cong
<1>2. k = 0
  BY <1>1, NoMultiple
<1>. QED  BY <1>1, <1>2

\* A number and its remainder.
LEMMA CongMod ==
  ASSUME NEW x \in Nat, NEW p \in Nat \ {0}
  PROVE  x % p \in Nat /\ x % p < p /\ Cong(x % p, x, p)
<1>1. x % p \in 0 .. p - 1
  BY DivMod
<1>2. PICK r \in Nat : r = x % p
  BY <1>1
<1>3. PICK m \in Nat : x = p * m + (x % p)
  BY Quotient
<1>4. PICK k \in Int : k = -m
  OBVIOUS
<1>5. r = x + k * p
  BY <1>2, <1>3, <1>4
<1>6. Cong(r, x, p)
  BY <1>5 DEF Cong
<1>. QED  BY <1>1, <1>2, <1>6

\* What is congruent to a number below p has that remainder.
LEMMA Residue ==
  ASSUME NEW z \in Nat, NEW p \in Nat \ {0}, NEW d \in 0 .. p - 1, Cong(z, d, p)
  PROVE  z % p = d
<1>1. PICK r \in Int : r = z % p /\ r >= 0 /\ r < p /\ Cong(r, z, p)
  BY CongMod
<1>2. Cong(r, d, p)
  BY <1>1, CongTrans
<1>3. r = d
  BY <1>1, <1>2, CongSmall
<1>. QED  BY <1>1, <1>3

LEMMA Small ==
  ASSUME NEW x \in Nat, NEW p \in Nat \ {0}, x < p
  PROVE  x % p = x
<1>1. x \in 0 .. p - 1 /\ Cong(x, x, p)
  BY CongSelf
<1>. QED  BY <1>1, Residue

LEMMA SameResidue ==
  ASSUME NEW x \in Nat, NEW y \in Nat, NEW p \in Nat \ {0}, Cong(x, y, p)
  PROVE  x % p = y % p
<1>1. PICK r \in 0 .. p - 1 : r = y % p /\ Cong(r, y, p)
  BY CongMod
<1>2. Cong(y, r, p)
  BY <1>1, CongSym
<1>3. Cong(x, r, p)
  BY <1>2, CongTrans
<1>4. x % p = r
  BY <1>3, Residue
<1>. QED  BY <1>1, <1>4

\* A counter that wraps is the remainder of the count.
LEMMA WrapCount ==
  ASSUME NEW h \in Nat, NEW b \in Nat, NEW w \in Nat \ {0}
  PROVE  ((h % w) + b) % w = (h + b) % w /\ (h + b) % w \in 0 .. w - 1
<1>1. PICK r \in Nat : r = h % w /\ Cong(r, h, w)
  BY CongMod
<1>2. PICK x \in Nat, y \in Nat : x = r + b /\ y = h + b
  OBVIOUS
<1>3. PICK k \in Int : r = h + k * w
  BY <1>1 DEF Cong
<1>4. x = y + k * w
  BY <1>2, <1>3
<1>5. Cong(x, y, w)
  BY <1>4 DEF Cong
<1>6. x % w = y % w
  BY <1>5, SameResidue
<1>7. y % w \in 0 .. w - 1
  BY DivMod
<1>. QED  BY <1>1, <1>2, <1>6, <1>7

\* Numbers less than p apart have different remainders.
LEMMA Apart ==
  ASSUME NEW x \in Nat, NEW y \in Nat, NEW p \in Nat \ {0}, x < y, y < x + p
  PROVE  x % p # y % p
<1>. SUFFICES ASSUME x % p = y % p PROVE FALSE
  OBVIOUS
<1>0. x % p \in Nat /\ Cong(x % p, x, p) /\ Cong(y % p, y, p)
  BY CongMod
<1>1. PICK r \in Int : r = x % p /\ Cong(r, x, p) /\ Cong(r, y, p)
  BY <1>0
<1>2. Cong(x, r, p)
  BY <1>1, CongSym
<1>3. Cong(x, y, p)
  BY <1>1, <1>2, CongTrans
<1>. QED  BY <1>3, CongSmall

\* The remainder by a multiple of p.
LEMMA CongModMod ==
  ASSUME NEW x \in Nat, NEW p \in Nat \ {0}, NEW w \in Nat \ {0}, Cong(w, 0, p)
  PROVE  Cong(x % w, x, p)
<1>1. PICK r \in Nat : r = x % w /\ Cong(r, x, w)
  BY CongMod
<1>2. PICK k \in Int : r = x + k * w
  BY <1>1 DEF Cong
<1>3. PICK q \in Int : w = 0 + q * p
  BY DEF Cong
<1>4. PICK j \in Int : j = k * q
  OBVIOUS
<1>5. k * w = j * p
  BY <1>3, <1>4
<1>6. r = x + j * p
  BY <1>2, <1>5
<1>7. Cong(r, x, p)
  BY <1>6 DEF Cong
<1>. QED  BY <1>1, <1>7

LEMMA ZeroMod ==
  ASSUME NEW a \in Nat, NEW p \in Nat \ {0}
  PROVE  a % p = 0 <=> Cong(a, 0, p)
<1>1. CASE a % p = 0
  <2>1. PICK r \in Int : r = a % p /\ Cong(r, a, p)
    BY CongMod
  <2>2. Cong(a, r, p)
    BY <2>1, CongSym
  <2>. QED  BY <1>1, <2>1, <2>2
<1>2. CASE Cong(a, 0, p)
  BY <1>2, Residue
<1>. QED  BY <1>1, <1>2

-----------------------------------------------------------------------------
(***************************************************************************)
(* What the processors compute from the counters: only the remainders of   *)
(* the counters matter, and who waits gets the number of tiles between the *)
(* two counts as long as that fits into the buffer.                        *)
(***************************************************************************)
LEMMA Constants ==
  /\ Pages \in Nat \ {0} /\ W16 \in Nat \ {0} /\ W32 \in Nat \ {0} /\ DestTiles \in Nat \ {0}
  /\ Pages < W16 /\ W16 < W32 /\ Cong(W32, 0, W16)
<1>1. /\ Pages \in Nat \ {0} /\ W16 \in Nat \ {0} /\ W32 \in Nat \ {0} /\ DestTiles \in Nat \ {0}
      /\ Pages < W16 /\ W16 < W32 /\ W32 % (2 * W16) = 0
  BY CoreAssumption
<1>2. PICK w \in Nat \ {0} : w = 2 * W16
  BY <1>1
<1>3. W32 % w = 0
  BY <1>1, <1>2
<1>4. Cong(W32, 0, w)
  BY <1>1, <1>3, ZeroMod
<1>5. PICK q \in Int : W32 = 0 + q * w
  BY <1>4 DEF Cong
<1>6. PICK k \in Int : k = 2 * q
  OBVIOUS
<1>7. W32 = 0 + k * W16
  BY <1>1, <1>2, <1>5, <1>6
<1>8. Cong(W32, 0, W16)
  BY <1>7 DEF Cong
<1>. QED  BY <1>1, <1>8

\* Diff of two counters is the distance of the counts.
LEMMA DiffIs ==
  ASSUME NEW a \in Nat, NEW b \in Nat, NEW w \in Nat \ {0}, NEW x \in Nat, NEW y \in Nat,
         Cong(a, x, w), Cong(b, y, w), y <= x, x < y + w
  PROVE  Diff(a, b, w) = x - y
<1>1. PICK r \in Nat : r = b % w /\ r < w /\ Cong(r, b, w)
  BY CongMod
<1>2. PICK i \in Int : a = x + i * w
  BY DEF Cong
<1>3. PICK k \in Int : b = y + k * w
  BY DEF Cong
<1>4. PICK m \in Int : r = b + m * w
  BY <1>1 DEF Cong
<1>5. PICK z \in Nat : z = a + w - r
  <2>1. a + w - r \in Nat
    BY <1>1
  <2>. QED  BY <2>1
<1>6. PICK d \in 0 .. w - 1 : d = x - y
  OBVIOUS
<1>7. PICK j \in Int : j = i - k - m + 1
  OBVIOUS
<1>8. z = d + j * w
  BY <1>2, <1>3, <1>4, <1>5, <1>6, <1>7
<1>9. Cong(z, d, w)
  BY <1>8 DEF Cong
<1>10. z % w = d
  BY <1>9, Residue
<1>. QED  BY <1>1, <1>5, <1>6, <1>10 DEF Diff

\* The difference in more bits has the same remainder.
LEMMA WideDiff ==
  ASSUME NEW w \in Nat \ {0}, NEW v \in Nat \ {0}, w < v, Cong(v, 0, w), NEW a \in Nat, NEW b \in Nat,
         NEW x \in Nat, NEW y \in Nat, Cong(a, x, w), Cong(b, y, w), y <= x
  PROVE  Diff(a, b % w, v) \in Nat /\ Cong(Diff(a, b % w, v), x - y, w)
<1>1. PICK r \in Nat : r = b % w /\ r < w /\ Cong(r, b, w)
  BY CongMod
<1>2. r % v = r
  BY <1>1, Small
<1>3. PICK z \in Nat : z = a + v - r
  <2>1. a + v - r \in Nat
    BY <1>1
  <2>. QED  BY <2>1
<1>4. Diff(a, b % w, v) = z % v
  BY <1>1, <1>2, <1>3 DEF Diff
<1>5. z % v \in Nat /\ Cong(z % v, z, w)
  BY CongMod, CongModMod
<1>6. PICK i \in Int : a = x + i * w
  BY DEF Cong
<1>7. PICK k \in Int : b = y + k * w
  BY DEF Cong
<1>8. PICK m \in Int : r = b + m * w
  BY <1>1 DEF Cong
<1>9. PICK q \in Int : v = 0 + q * w
  BY DEF Cong
<1>10. PICK d \in Nat : d = x - y
  OBVIOUS
<1>11. PICK j \in Int : j = i - k - m + q
  OBVIOUS
<1>12. z = d + j * w
  BY <1>3, <1>6, <1>7, <1>8, <1>9, <1>10, <1>11
<1>13. Cong(z, d, w)
  BY <1>12 DEF Cong
<1>14. Cong(z % v, d, w)
  BY <1>5, <1>13, CongTrans
<1>. QED  BY <1>4, <1>5, <1>10, <1>14

\* The space a producer sees.
LEMMA FreeIs ==
  ASSUME NEW w \in Nat \ {0}, NEW v \in Nat \ {0}, w < v, Cong(v, 0, w), NEW g \in Nat, g < w,
         NEW a \in Nat, NEW b \in Nat, NEW x \in Nat, NEW y \in Nat,
         Cong(a, x, w), Cong(b, y, w), y <= x, x <= y + g
  PROVE  Diff(g, Diff(a, b % w, v), w) = g - (x - y)
<1>1. PICK d \in Nat : d = x - y
  OBVIOUS
<1>2. d <= g /\ g < d + w
  BY <1>1
<1>3. PICK e \in Nat : e = Diff(a, b % w, v) /\ Cong(e, d, w)
  BY <1>1, WideDiff
<1>4. Cong(g, g, w)
  BY CongSelf
<1>5. Diff(g, e, w) = g - d
  BY <1>2, <1>3, <1>4, DiffIs
<1>. QED  BY <1>1, <1>3, <1>5

\* The same in more bits, for counts that did not wrap.
LEMMA WideFreeIs ==
  ASSUME NEW w \in Nat \ {0}, NEW v \in Nat \ {0}, w < v, NEW g \in Nat, g < w, NEW b \in Nat,
         NEW x \in Nat, NEW y \in Nat, Cong(b, y, w), y <= x, x <= y + g, x < w
  PROVE  Diff(g, Diff(x, b % w, v), v) = g - (x - y)
<1>1. PICK d \in Nat : d = x - y
  OBVIOUS
<1>2. d <= g /\ g < d + v /\ y \in 0 .. w - 1 /\ x < y + v
  BY <1>1
<1>3. b % w = y
  BY <1>2, Residue
<1>4. Cong(x, x, v) /\ Cong(y, y, v) /\ Cong(g, g, v) /\ Cong(d, d, v)
  BY CongSelf
<1>5. Diff(x, y, v) = d
  BY <1>1, <1>2, <1>4, DiffIs
<1>6. Diff(g, d, v) = g - d
  BY <1>2, <1>4, DiffIs
<1>. QED  BY <1>1, <1>3, <1>5, <1>6

-----------------------------------------------------------------------------
(***************************************************************************)
(* Batches.                                                                *)
(***************************************************************************)
\* What is left is no batch or at least one.
LEMMA BatchLeft ==
  ASSUME NEW x \in Nat, NEW b \in Nat \ {0}, Cong(x, 0, b), x > 0
  PROVE  x >= b /\ x - b \in Nat /\ Cong(x - b, 0, b)
<1>1. x >= b
  BY CongSmall
<1>2. PICK u \in Nat : u = x - b
  BY <1>1
<1>3. Cong(u + b, u, b) /\ u + b = x
  BY <1>2, CongOnce
<1>4. Cong(u, x, b)
  BY <1>3, CongSym
<1>5. Cong(u, 0, b)
  BY <1>4, CongTrans
<1>. QED  BY <1>1, <1>2, <1>5

LEMMA BatchSub ==
  ASSUME NEW x \in Nat, NEW y \in Nat, NEW b \in Nat \ {0}, Cong(x, 0, b), Cong(y, 0, b), y <= x
  PROVE  x - y \in Nat /\ Cong(x - y, 0, b)
<1>1. PICK k \in Int : x = 0 + k * b
  BY DEF Cong
<1>2. PICK m \in Int : y = 0 + m * b
  BY DEF Cong
<1>3. PICK j \in Int : j = k - m
  OBVIOUS
<1>4. x - y \in Nat /\ x - y = 0 + j * b
  BY <1>1, <1>2, <1>3
<1>5. PICK u \in Nat : u = x - y
  BY <1>4
<1>6. Cong(u, 0, b)
  BY <1>4, <1>5 DEF Cong
<1>. QED  BY <1>5, <1>6

LEMMA BatchAdd ==
  ASSUME NEW x \in Nat, NEW b \in Nat \ {0}, Cong(x, 0, b)
  PROVE  Cong(x + b, 0, b)
<1>1. Cong(x + b, x, b)
  BY CongOnce
<1>. QED  BY <1>1, CongTrans

\* A batch does not go past fifo_limit: its pages lie side by side.
LEMMA BatchPages ==
  ASSUME NEW t \in Nat, NEW b \in Nat \ {0}, Cong(t, 0, b), Cong(Pages, 0, b)
  PROVE  /\ t % Pages \in 0 .. Pages - 1 /\ (t % Pages) + b <= Pages
         /\ \A j \in 0 .. b - 1 : (t + j) % Pages = (t % Pages) + j
         /\ Moved(t % Pages, b) = (t + b) % Pages
         /\ Moved(t % Pages, b) \in 0 .. Pages - 1
<1>1. PICK g \in Nat \ {0} : g = Pages
  BY Constants
<1>2. PICK r \in Nat : r = t % g /\ r < g /\ Cong(r, t, g)
  BY CongMod
<1>3. Cong(r, 0, b)
  <2>1. Cong(t % g, t, b)
    BY <1>1, CongModMod
  <2>. QED  BY <1>2, <2>1, CongTrans
<1>4. r + b <= g
  <2>1. PICK u \in Nat : u = g - r /\ u > 0 /\ Cong(u, 0, b)
    BY <1>1, <1>2, <1>3, BatchSub
  <2>2. u >= b
    BY <2>1, BatchLeft
  <2>. QED  BY <2>1, <2>2
<1>5. ASSUME NEW j \in Nat, r + j < g PROVE (t + j) % g = r + j
  <2>1. PICK z \in Nat, d \in Nat : z = t + j /\ d = r + j
    OBVIOUS
  <2>2. Cong(t, r, g)
    BY <1>2, CongSym
  <2>3. Cong(z, d, g)
    <3>1. Cong(t + j, r + j, g)
      BY <2>2, CongAdd
    <3>. QED  BY <2>1, <3>1
  <2>4. d \in 0 .. g - 1
    BY <1>5, <2>1
  <2>5. z % g = d
    BY <2>3, <2>4, Residue
  <2>. QED  BY <2>1, <2>5
<1>6. Moved(r, b) = (t + b) % g /\ Moved(r, b) \in 0 .. g - 1
  <2>1. CASE r + b < g
    <3>1. (t + b) % g = r + b
      BY <1>5, <2>1
    <3>. QED  BY <1>1, <2>1, <3>1 DEF Moved
  <2>2. CASE r + b = g
    <3>1. PICK z \in Nat : z = t + b
      OBVIOUS
    <3>2. Cong(t, r, g)
      BY <1>2, CongSym
    <3>3. Cong(z, g, g)
      <4>1. Cong(t + b, r + b, g)
        BY <3>2, CongAdd
      <4>. QED  BY <2>2, <3>1, <4>1
    <3>4. Cong(0 + g, 0, g)
      BY CongOnce
    <3>5. Cong(z, 0, g)
      BY <3>3, <3>4, CongTrans
    <3>6. z % g = 0
      BY <3>5, Residue
    <3>7. Moved(r, b) = 0
      BY <1>1, <2>2 DEF Moved
    <3>. QED  BY <3>1, <3>6, <3>7
  <2>. QED  BY <1>4, <2>1, <2>2
<1>7. ASSUME NEW j \in 0 .. b - 1 PROVE (t + j) % g = r + j
  <2>1. j \in Nat /\ r + j < g
    BY <1>4
  <2>. QED  BY <1>5, <2>1
<1>. QED  BY <1>1, <1>2, <1>4, <1>6, <1>7

-----------------------------------------------------------------------------
(***************************************************************************)
(* The instructions a thread has issued and the engine has not executed:   *)
(* `from' tiles were handled before the first of them, `to' will have been *)
(* after the last.  T[i] counts the tiles handled before the i-th.         *)
(***************************************************************************)
Instruction == [op : {"unpack", "pack", "store"}, arg : Nat]

Counts(T, q, op, from, to) ==
  /\ T \in [Nat -> Nat] /\ T[1] = from /\ T[Len(q) + 1] = to
  /\ \A i \in 1 .. Len(q) :
       /\ T[i] <= to
       /\ \/ q[i].op = op /\ T[i + 1] = T[i] + 1 /\ q[i].arg = T[i] % Pages
          \/ q[i].op = "store" /\ T[i + 1] = T[i] /\ q[i].arg = T[i] % W16

Stream(q, op, from, to) ==
  q \in Seq(Instruction) /\ \E T \in [Nat -> Nat] : Counts(T, q, op, from, to)

LEMMA StreamEmpty ==
  ASSUME NEW op, NEW x \in Nat
  PROVE  Stream(<<>>, op, x, x)
<1>1. PICK T \in [Nat -> Nat] : T = [i \in Nat |-> x]
  OBVIOUS
<1>2. Counts(T, <<>>, op, x, x)
  BY <1>1 DEF Counts
<1>. QED  BY <1>2 DEF Stream

LEMMA StreamEnd ==
  ASSUME NEW op, NEW from, NEW to, Stream(<<>>, op, from, to)
  PROVE  from = to
BY DEF Stream, Counts

LEMMA StreamBounds ==
  ASSUME NEW q, NEW op, NEW from, NEW to, Stream(q, op, from, to)
  PROVE  from \in Nat /\ to \in Nat /\ from <= to
<1>1. PICK T \in [Nat -> Nat] : Counts(T, q, op, from, to)
  BY DEF Stream
<1>2. Len(q) \in Nat
  BY DEF Stream
<1>3. from \in Nat /\ to \in Nat
  BY <1>1, <1>2 DEF Counts
<1>4. CASE Len(q) = 0
  BY <1>1, <1>3, <1>4 DEF Counts
<1>5. CASE Len(q) # 0
  <2>1. 1 \in 1 .. Len(q)
    BY <1>2, <1>5
  <2>. QED  BY <1>1, <1>3, <2>1 DEF Counts
<1>. QED  BY <1>3, <1>4, <1>5

\* The engine executes the first.
LEMMA StreamNext ==
  ASSUME NEW q, NEW op, op # "store", NEW from, NEW to, Stream(q, op, from, to), q # <<>>
  PROVE  /\ Head(q) \in Instruction
         /\ \/ /\ Head(q).op = op /\ Head(q).arg = from % Pages
               /\ from < to /\ Stream(Tail(q), op, from + 1, to)
            \/ /\ Head(q).op = "store" /\ Head(q).arg = from % W16
               /\ Stream(Tail(q), op, from, to)
<1>1. q \in Seq(Instruction)
  BY DEF Stream
<1>2. PICK T \in [Nat -> Nat] : Counts(T, q, op, from, to)
  BY DEF Stream
<1>3. from \in Nat /\ to \in Nat
  BY StreamBounds
<1>4. /\ Len(q) \in Nat /\ Len(q) > 0 /\ Head(q) = q[1] /\ q[1] \in Instruction
      /\ Tail(q) \in Seq(Instruction) /\ Len(Tail(q)) = Len(q) - 1
      /\ \A i \in 1 .. Len(q) - 1 : Tail(q)[i] = q[i + 1]
  BY <1>1
<1>5. PICK t : t = Tail(q)
  OBVIOUS
<1>6. PICK S \in [Nat -> Nat] : S = [i \in Nat |-> T[i + 1]]
  <2>1. \A i \in Nat : i + 1 \in Nat
    OBVIOUS
  <2>2. [i \in Nat |-> T[i + 1]] \in [Nat -> Nat]
    BY <2>1
  <2>. QED  BY <2>2
<1>7. Counts(S, t, op, T[2], to)
  <2>1. \A i \in Nat : S[i] = T[i + 1]
    BY <1>6
  <2>2. S[1] = T[2] /\ S[Len(t) + 1] = to
    <3>1. S[1] = T[1 + 1] /\ 1 + 1 = 2
      BY <2>1
    <3>2. Len(t) + 1 = Len(q) /\ Len(q) \in Nat
      BY <1>4, <1>5
    <3>3. S[Len(q)] = T[Len(q) + 1]
      BY <2>1, <3>2
    <3>4. T[Len(q) + 1] = to
      BY <1>2 DEF Counts
    <3>. QED  BY <3>1, <3>2, <3>3, <3>4
  <2>3. ASSUME NEW i \in 1 .. Len(t)
        PROVE  /\ S[i] <= to
               /\ \/ t[i].op = op /\ S[i + 1] = S[i] + 1 /\ t[i].arg = S[i] % Pages
                  \/ t[i].op = "store" /\ S[i + 1] = S[i] /\ t[i].arg = S[i] % W16
    <3>1. i + 1 \in 1 .. Len(q) /\ i \in Nat /\ i \in 1 .. Len(q) - 1
      BY <1>4, <1>5
    <3>2. S[i] = T[i + 1] /\ S[i + 1] = T[(i + 1) + 1] /\ t[i] = q[i + 1]
      <4>1. i + 1 \in Nat
        BY <3>1
      <4>2. S[i] = T[i + 1] /\ S[i + 1] = T[(i + 1) + 1]
        BY <2>1, <3>1, <4>1, Zenon
      <4>. QED  BY <1>4, <1>5, <3>1, <4>2
    <3>. QED  BY <1>2, <3>1, <3>2 DEF Counts
  <2>. QED  BY <1>6, <2>2, <2>3 DEF Counts
<1>8. Stream(t, op, T[2], to)
  BY <1>4, <1>5, <1>7 DEF Stream
<1>9. T[1] = from /\ 1 \in 1 .. Len(q) /\ 1 + 1 = 2
  BY <1>2, <1>4 DEF Counts
<1>10. T[2] <= to
  BY <1>8, StreamBounds
<1>11. CASE q[1].op = op
  <2>1. T[2] = from + 1 /\ q[1].arg = from % Pages
    BY <1>2, <1>9, <1>11 DEF Counts
  <2>2. from < to
    BY <1>3, <1>10, <2>1
  <2>. QED  BY <1>4, <1>5, <1>8, <1>11, <2>1, <2>2
<1>12. CASE q[1].op = "store"
  <2>1. T[2] = from /\ q[1].arg = from % W16
    BY <1>2, <1>9, <1>12 DEF Counts
  <2>. QED  BY <1>4, <1>5, <1>8, <1>12, <2>1
<1>13. q[1].op = op \/ q[1].op = "store"
  BY <1>2, <1>9 DEF Counts
<1>. QED  BY <1>11, <1>12, <1>13

LEMMA Concat ==
  ASSUME NEW S, NEW s \in Seq(S), NEW t \in Seq(S)
  PROVE  /\ s \o t \in Seq(S) /\ Len(s \o t) = Len(s) + Len(t)
         /\ \A i \in 1 .. Len(s) : (s \o t)[i] = s[i]
         /\ \A j \in 1 .. Len(t) : (s \o t)[Len(s) + j] = t[j]
<1>1. Len(s) \in Nat /\ Len(t) \in Nat
  OBVIOUS
<1>2. /\ s \o t \in Seq(S) /\ Len(s \o t) = Len(s) + Len(t)
      /\ \A i \in 1 .. Len(s) + Len(t) : (s \o t)[i] =
           IF i <= Len(s) THEN s[i] ELSE t[i - Len(s)]
  BY ConcatProperties
<1>3. ASSUME NEW i \in 1 .. Len(s) PROVE (s \o t)[i] = s[i]
  <2>1. i \in 1 .. Len(s) + Len(t) /\ i <= Len(s)
    BY <1>1
  <2>. QED  BY <1>2, <2>1
<1>4. ASSUME NEW j \in 1 .. Len(t) PROVE (s \o t)[Len(s) + j] = t[j]
  <2>1. /\ Len(s) + j \in 1 .. Len(s) + Len(t) /\ ~(Len(s) + j <= Len(s))
        /\ (Len(s) + j) - Len(s) = j
    BY <1>1
  <2>. QED  BY <1>2, <2>1
<1>. QED  BY <1>2, <1>3, <1>4

\* A thread issues the instructions of a batch ...
LEMMA StreamBatch ==
  ASSUME NEW q, NEW op \in {"unpack", "pack"}, NEW from, NEW to, Stream(q, op, from, to),
         NEW b \in Nat \ {0}, NEW ptr \in Nat,
         \A j \in 0 .. b - 1 : (to + j) % Pages = ptr + j
  PROVE  Stream(q \o [j \in 1 .. b |-> [op |-> op, arg |-> ptr + j - 1]], op, from, to + b)
<1>1. PICK T \in [Nat -> Nat] : Counts(T, q, op, from, to)
  BY DEF Stream
<1>2. from \in Nat /\ to \in Nat
  BY StreamBounds
<1>0. q \in Seq(Instruction) /\ Len(q) \in Nat
  BY DEF Stream
<1>3. PICK l \in Nat : l = Len(q) /\ T[l + 1] = to /\ T[1] = from
  BY <1>0, <1>1 DEF Counts
<1>4. PICK F \in Seq(Instruction) : /\ Len(F) = b
                                    /\ F = [j \in 1 .. b |-> [op |-> op, arg |-> ptr + j - 1]]
                                    /\ \A j \in 1 .. b : F[j].op = op /\ F[j].arg = ptr + (j - 1)
  <2>. DEFINE F == [j \in 1 .. b |-> [op |-> op, arg |-> ptr + j - 1]]
  <2>1. ASSUME NEW j \in 1 .. b
        PROVE  /\ F[j] \in Instruction /\ F[j].op = op /\ F[j].arg = ptr + (j - 1)
    <3>1. ptr + j - 1 \in Nat /\ ptr + j - 1 = ptr + (j - 1)
      OBVIOUS
    <3>2. F[j] = [op |-> op, arg |-> ptr + j - 1]
      OBVIOUS
    <3>. QED  BY <3>1, <3>2 DEF Instruction
  <2>2. F \in [1 .. b -> Instruction]
    BY <2>1
  <2>3. F \in Seq(Instruction) /\ Len(F) = b
    BY <2>2
  <2>. QED  BY <2>1, <2>3
<1>5. PICK p \in Seq(Instruction) : p = q \o F
  BY <1>0, <1>4, Concat
<1>6. /\ Len(p) = l + b
      /\ \A i \in 1 .. l : p[i] = q[i]
      /\ \A j \in 1 .. b : p[l + j] = F[j]
  BY <1>0, <1>3, <1>4, <1>5, Concat
<1>7. PICK S \in [Nat -> Nat] :
        /\ \A i \in 1 .. l + 1 : S[i] = T[i]
        /\ \A j \in 0 .. b : S[l + 1 + j] = to + j
  <2>. DEFINE S == [i \in Nat |-> IF i <= l + 1 THEN T[i] ELSE to + (i - (l + 1))]
  <2>1. ASSUME NEW i \in Nat
        PROVE  (IF i <= l + 1 THEN T[i] ELSE to + (i - (l + 1))) \in Nat
    BY <1>2, <1>3
  <2>2. S \in [Nat -> Nat]
    BY <2>1
  <2>3. ASSUME NEW i \in 1 .. l + 1 PROVE S[i] = T[i]
    BY <1>3
  <2>4. ASSUME NEW j \in 0 .. b PROVE S[l + 1 + j] = to + j
    <3>1. CASE j = 0
      <4>1. l + 1 \in 1 .. l + 1 /\ l + 1 + j = l + 1 /\ to + j = to
        BY <1>2, <1>3, <3>1
      <4>. QED  BY <1>3, <2>3, <4>1
    <3>2. CASE j > 0
      <4>1. l + 1 + j \in Nat /\ ~(l + 1 + j <= l + 1)
            /\ l + 1 + j - (l + 1) = j
        BY <3>2
      <4>. QED  BY <4>1
    <3>. QED  BY <3>1, <3>2
  <2>. QED  BY <2>2, <2>3, <2>4
<1>8. Counts(S, p, op, from, to + b)
  <2>1. S[1] = from
    BY <1>3, <1>7
  <2>2. S[Len(p) + 1] = to + b
    <3>1. b \in 0 .. b /\ Len(p) + 1 = l + 1 + b
      BY <1>3, <1>6
    <3>. QED  BY <1>7, <3>1
  <2>3. ASSUME NEW i \in 1 .. Len(p)
        PROVE  /\ S[i] <= to + b
               /\ \/ p[i].op = op /\ S[i + 1] = S[i] + 1 /\ p[i].arg = S[i] % Pages
                  \/ p[i].op = "store" /\ S[i + 1] = S[i] /\ p[i].arg = S[i] % W16
    <3>1. CASE i <= l
      <4>1. i \in 1 .. l /\ i \in 1 .. l + 1 /\ i + 1 \in 1 .. l + 1
        BY <1>3, <3>1
      <4>2. S[i] = T[i] /\ S[i + 1] = T[i + 1] /\ p[i] = q[i] /\ T[i] \in Nat
        <5>1. S[i] = T[i] /\ S[i + 1] = T[i + 1]
          BY <1>7, <4>1
        <5>2. i \in Nat
          BY <4>1
        <5>. QED  BY <1>6, <4>1, <5>1, <5>2
      <4>3. /\ T[i] <= to
            /\ \/ q[i].op = op /\ T[i + 1] = T[i] + 1 /\ q[i].arg = T[i] % Pages
               \/ q[i].op = "store" /\ T[i + 1] = T[i] /\ q[i].arg = T[i] % W16
        BY <1>1, <1>3, <4>1 DEF Counts
      <4>4. T[i] <= to + b
        <5>1. T[i] <= to /\ T[i] \in Nat
          BY <4>2, <4>3
        <5>2. PICK x \in Nat, y \in Nat : x = T[i] /\ y = to /\ x <= y
          BY <1>2, <5>1
        <5>3. x <= y + b
          BY <5>2
        <5>. QED  BY <5>2, <5>3
      <4>. QED  BY <4>2, <4>3, <4>4
    <3>2. CASE i > l
      <4>1. PICK j \in 1 .. b : i = l + j
        <5>1. i \in 1 .. l + b
          BY <1>6
        <5>2. i - l \in 1 .. b /\ i = l + (i - l)
          BY <3>2, <5>1
        <5>. QED  BY <5>2
      <4>2. /\ j - 1 \in 0 .. b /\ j \in 0 .. b /\ j - 1 \in 0 .. b - 1
            /\ i = l + 1 + (j - 1) /\ i + 1 = l + 1 + j
        BY <1>3, <4>1
      <4>3. S[i] = to + (j - 1) /\ S[i + 1] = to + j
        BY <1>7, <4>2
      <4>4. p[i].op = op /\ p[i].arg = ptr + (j - 1)
        BY <1>4, <1>6, <4>1
      <4>5. (to + (j - 1)) % Pages = ptr + (j - 1)
        BY <4>2
      <4>6. S[i + 1] = S[i] + 1 /\ S[i] <= to + b
        BY <1>2, <4>2, <4>3
      <4>. QED  BY <4>3, <4>4, <4>5, <4>6
    <3>. QED  BY <1>3, <1>6, <3>1, <3>2
  <2>. QED  BY <2>1, <2>2, <2>3 DEF Counts
<1>9. Stream(p, op, from, to + b)
  BY <1>8 DEF Stream
<1>. QED  BY <1>4, <1>5, <1>9

\* ... and the store of its count.
LEMMA StreamStore ==
  ASSUME NEW q, NEW op, NEW from, NEW to, Stream(q, op, from, to)
  PROVE  Stream(q \o <<[op |-> "store", arg |-> to % W16]>>, op, from, to)
<1>1. PICK T \in [Nat -> Nat] : Counts(T, q, op, from, to)
  BY DEF Stream
<1>2. from \in Nat /\ to \in Nat /\ to % W16 \in Nat
  BY StreamBounds, CongMod, Constants
<1>0. q \in Seq(Instruction) /\ Len(q) \in Nat
  BY DEF Stream
<1>3. PICK l \in Nat : l = Len(q) /\ T[l + 1] = to /\ T[1] = from
  BY <1>0, <1>1 DEF Counts
<1>4. PICK s \in Instruction : s = [op |-> "store", arg |-> to % W16]
  BY <1>2 DEF Instruction
<1>5. PICK p \in Seq(Instruction) : p = q \o <<s>>
  <2>1. <<s>> \in Seq(Instruction)
    OBVIOUS
  <2>. QED  BY <1>0, <2>1, Concat
<1>6. /\ Len(p) = l + 1 /\ p[l + 1] = s
      /\ \A i \in 1 .. l : p[i] = q[i]
  <2>1. <<s>> \in Seq(Instruction) /\ Len(<<s>>) = 1 /\ <<s>>[1] = s /\ 1 \in 1 .. 1
    OBVIOUS
  <2>. QED  BY <1>0, <1>3, <1>5, <2>1, Concat
<1>7. PICK S \in [Nat -> Nat] :
        /\ \A i \in 1 .. l + 1 : S[i] = T[i]
        /\ S[l + 2] = to
  <2>. DEFINE S == [T EXCEPT ![l + 2] = to]
  <2>0. to \in Nat /\ l + 2 \in Nat
    BY <1>2
  <2>1. S \in [Nat -> Nat] /\ S[l + 2] = to
    BY <2>0
  <2>2. ASSUME NEW i \in 1 .. l + 1 PROVE S[i] = T[i]
    OBVIOUS
  <2>. QED  BY <2>1, <2>2
<1>8. Counts(S, p, op, from, to)
  <2>1. S[1] = from
    BY <1>3, <1>7
  <2>2. S[Len(p) + 1] = to
    <3>1. Len(p) + 1 = l + 2
      BY <1>3, <1>6
    <3>. QED  BY <1>7, <3>1
  <2>3. ASSUME NEW i \in 1 .. Len(p)
        PROVE  /\ S[i] <= to
               /\ \/ p[i].op = op /\ S[i + 1] = S[i] + 1 /\ p[i].arg = S[i] % Pages
                  \/ p[i].op = "store" /\ S[i + 1] = S[i] /\ p[i].arg = S[i] % W16
    <3>1. CASE i <= l
      <4>1. i \in 1 .. l /\ i \in 1 .. l + 1 /\ i + 1 \in 1 .. l + 1
        BY <1>3, <3>1
      <4>2. S[i] = T[i] /\ S[i + 1] = T[i + 1] /\ p[i] = q[i]
        BY <1>6, <1>7, <4>1
      <4>3. /\ T[i] <= to
            /\ \/ q[i].op = op /\ T[i + 1] = T[i] + 1 /\ q[i].arg = T[i] % Pages
               \/ q[i].op = "store" /\ T[i + 1] = T[i] /\ q[i].arg = T[i] % W16
        BY <1>1, <1>3, <4>1 DEF Counts
      <4>. QED  BY <4>2, <4>3
    <3>2. CASE i > l
      <4>1. i = l + 1 /\ i + 1 = l + 2 /\ i \in 1 .. l + 1
        <5>1. i \in 1 .. l + 1
          BY <1>6
        <5>. QED  BY <3>2, <5>1
      <4>2. S[i] = to /\ S[i + 1] = to
        BY <1>3, <1>7, <4>1
      <4>3. p[i].op = "store" /\ p[i].arg = to % W16
        <5>1. p[i] = s
          BY <1>6, <4>1
        <5>. QED  BY <1>4, <5>1
      <4>. QED  BY <1>2, <4>2, <4>3
    <3>. QED  BY <1>3, <1>6, <3>1, <3>2
  <2>. QED  BY <2>1, <2>2, <2>3 DEF Counts
<1>9. Stream(p, op, from, to)
  BY <1>8 DEF Stream
<1>. QED  BY <1>4, <1>5, <1>9

-----------------------------------------------------------------------------
(***************************************************************************)
(* The invariant.                                                          *)
(***************************************************************************)
Processors == Slaves \cup {"brisc"}
Busy(p) == pc[p] \in {"run", "push", "pop"}
Cells == Nat \X Int

\* BRISC is between run_triscs and its last wait: the core works on a program.
Engaged == pc["brisc"] \in {"setup", "run", "pop"}

\* How many tiles a processor's kernel has handled, also before it was started.
Handled(p) ==
  IF \/ pc["brisc"] = "setup" /\ p \in {"brisc", "ncrisc"}
     \/ pc[p] = "idle" /\ slaveSync[p] = "GO"
    THEN 0 ELSE Program.tiles - left[p]

\* Who runs when: slave_sync is GO while a processor runs and until it has
\* started, and between programs nobody runs.
CtlInv ==
  /\ load \in Loads /\ n \in 0 .. Len(load.programs)
  /\ go \in {"GO", "DONE"} /\ slaveSync \in [Slaves -> {"GO", "DONE"}]
  /\ pc \in [Processors -> {"init", "poll", "setup", "idle", "run", "push", "pop"}]
  /\ pc["brisc"] \in {"init", "poll", "setup", "run", "pop"}
  /\ pc["ncrisc"] \in {"idle", "run", "push"}
  /\ pc["trisc0"] \in {"idle", "run"} /\ pc["trisc2"] \in {"idle", "run"}
  /\ \A s \in Slaves : pc[s] # "idle" => slaveSync[s] = "GO"
  /\ Engaged => go = "GO"
  /\ go = "GO" => n # 0
  /\ ~Engaged => \A s \in Slaves : slaveSync[s] = "DONE"
  /\ pc["brisc"] = "setup" => slaveSync["ncrisc"] = "DONE"
  /\ Engaged /\ ~Program.compute =>
       slaveSync["trisc0"] = "DONE" /\ slaveSync["trisc2"] = "DONE"

\* What is left is whole batches.
LeftInv ==
  /\ left \in [Processors -> Nat]
  /\ \A p \in Processors :
       IF Busy(p) THEN left[p] <= Program.tiles /\ Cong(left[p], 0, Program.batch)
       ELSE left[p] = 0
  /\ pc["ncrisc"] = "push" => left["ncrisc"] > 0
  /\ pc["brisc"] = "pop" => left["brisc"] > 0

\* The local interfaces agree with what was handled.
PtrInv ==
  /\ wr \in [CBs -> 0 .. Pages - 1] /\ rd \in [CBs -> 0 .. Pages - 1]
  /\ packed \in 0 .. W16 - 1 /\ unpacked \in 0 .. W16 - 1
  /\ Busy("ncrisc") => wr["in"] = Handled("ncrisc") % Pages
  /\ Busy("trisc0") => /\ rd["in"] = Handled("trisc0") % Pages
                       /\ unpacked = Handled("trisc0") % W16
  /\ Busy("trisc2") => /\ wr["out"] = Handled("trisc2") % Pages
                       /\ packed = Handled("trisc2") % W16
  /\ Busy("brisc") => rd[Last] = Handled("brisc") % Pages

RegInv ==
  /\ received \in [CBs -> 0 .. W32 - 1] /\ acked \in [CBs -> 0 .. W32 - 1]
  /\ mem \in [CBs -> [0 .. Pages - 1 -> Cells]]
  /\ dest \in Seq(Cells) /\ Len(dest) <= DestTiles /\ out \in Seq(Cells)

\* The engine has unpacked U tiles and packed P.
EngineInv(U, P) ==
  /\ U \in Nat /\ P \in Nat
  /\ pc["trisc0"] = "idle" => uq = <<>>
  /\ pc["trisc2"] = "idle" => pq = <<>>
  /\ IF Engaged /\ Program.compute
       THEN /\ Stream(uq, "unpack", U, Handled("trisc0"))
            /\ Stream(pq, "pack", P, Handled("trisc2"))
            /\ U = P + Len(dest)
       ELSE uq = <<>> /\ pq = <<>> /\ dest = <<>>

CoreInv(U, P) == CtlInv /\ LeftInv /\ PtrInv /\ RegInv /\ EngineInv(U, P)

\* Pages NCRISC has filled and not yet pushed, and that BRISC has read and not
\* yet popped.
Ahead == IF pc["ncrisc"] = "push" THEN Program.batch ELSE 0
Taken == IF pc["brisc"] = "pop" THEN Program.batch ELSE 0

\* The buffer NCRISC fills, of which A tiles were acknowledged.
InRing(A) ==
  /\ A \in Nat /\ A <= Handled("ncrisc") /\ Handled("ncrisc") + Ahead <= A + Pages
  /\ Cong(received["in"], Handled("ncrisc"), W16) /\ Cong(acked["in"], A, W16)
  /\ \A t \in A .. Handled("ncrisc") + Ahead - 1 : mem["in"][t % Pages] = <<n, t + 1>>

\* The buffer the packer fills, of which it has announced R tiles.
OutRing(P, R) ==
  /\ R \in Nat /\ R <= P /\ Handled("trisc2") <= Handled("brisc") + Pages
  /\ Cong(received["out"], R, W16) /\ Cong(acked["out"], Handled("brisc"), W16)
  /\ \A t \in Handled("brisc") .. P - 1 : mem["out"][t % Pages] = <<n, t + 1>>
  /\ \A j \in 1 .. Len(dest) : dest[j] = <<n, P + j>>

\* The tiles on their way from NCRISC to BRISC.
Flow(U, P, A, R) ==
  /\ InRing(A) /\ Len(out) = Handled("brisc") + Taken
  /\ Program.compute =>
       /\ A <= U /\ Handled("trisc0") <= Handled("ncrisc")
       /\ OutRing(P, R) /\ Handled("brisc") + Taken <= R
  /\ ~Program.compute =>
       A = Handled("brisc") /\ Handled("brisc") + Taken <= Handled("ncrisc")

DataInv(U, P, A, R) ==
  /\ go = "GO" /\ ~Engaged => out = <<>>
  /\ pc["brisc"] = "poll" => received = All /\ acked = All
  /\ Engaged => Flow(U, P, A, R)
  /\ DataIntact

-----------------------------------------------------------------------------
(***************************************************************************)
(* Facts about the state.                                                  *)
(***************************************************************************)
LEMMA ProgramFacts ==
  ASSUME CtlInv, n # 0
  PROVE  /\ Program.tiles \in Nat /\ Program.batch \in Nat \ {0} /\ Program.compute \in BOOLEAN
         /\ Cong(Program.tiles, 0, Program.batch) /\ Cong(Pages, 0, Program.batch)
<1>1. load \in Loads /\ n \in 1 .. Len(load.programs)
  BY DEF CtlInv
<1>2. /\ load.programs \in Seq([compute : BOOLEAN, tiles : Nat, batch : Nat \ {0}])
      /\ Program.tiles % Program.batch = 0 /\ Pages % Program.batch = 0
  BY <1>1, CoreAssumption DEF Program
<1>3. Program \in [compute : BOOLEAN, tiles : Nat, batch : Nat \ {0}]
  <2>1. PICK q \in Seq([compute : BOOLEAN, tiles : Nat, batch : Nat \ {0}]) : q = load.programs
    BY <1>2
  <2>2. n \in 1 .. Len(q)
    BY <1>1, <2>1
  <2>3. q[n] \in [compute : BOOLEAN, tiles : Nat, batch : Nat \ {0}]
    BY <2>2, ElementOfSeq
  <2>. QED  BY <2>1, <2>3 DEF Program
<1>4. /\ Program.tiles \in Nat /\ Program.batch \in Nat \ {0} /\ Program.compute \in BOOLEAN
  BY <1>3
<1>5. Pages \in Nat
  BY Constants
<1>. QED  BY <1>2, <1>4, <1>5, ZeroMod

LEMMA EngagedFacts ==
  ASSUME CtlInv, Engaged
  PROVE  n # 0 /\ go = "GO"
BY DEF CtlInv

\* Between programs nobody runs.
LEMMA Between ==
  ASSUME CtlInv, ~Engaged
  PROVE  \A p \in Processors : ~Busy(p) /\ (p \in Slaves => pc[p] = "idle" /\ slaveSync[p] = "DONE")
BY DEF CtlInv, Engaged, Busy, Processors, Slaves

LEMMA HandledFacts ==
  ASSUME CtlInv, LeftInv, Engaged, NEW p \in Processors
  PROVE  /\ Handled(p) \in Nat /\ Handled(p) <= Program.tiles
         /\ Cong(Handled(p), 0, Program.batch) /\ Cong(left[p], 0, Program.batch)
         /\ left[p] \in Nat /\ left[p] <= Program.tiles
         /\ Busy(p) => Handled(p) = Program.tiles - left[p]
<1>1. /\ Program.tiles \in Nat /\ Program.batch \in Nat \ {0}
      /\ Cong(Program.tiles, 0, Program.batch)
  BY EngagedFacts, ProgramFacts
<1>2. Cong(0, 0, Program.batch)
  BY <1>1, CongSelf
<1>3. left[p] \in Nat /\ left[p] <= Program.tiles /\ Cong(left[p], 0, Program.batch)
  BY <1>1, <1>2 DEF LeftInv
<1>4. /\ Program.tiles - left[p] \in Nat /\ Program.tiles - left[p] <= Program.tiles
      /\ Cong(Program.tiles - left[p], 0, Program.batch)
  BY <1>1, <1>3, BatchSub
<1>5. Handled(p) = 0 \/ Handled(p) = Program.tiles - left[p]
  BY DEF Handled
<1>6. Busy(p) => Handled(p) = Program.tiles - left[p]
  BY DEF Handled, Busy, CtlInv, Processors, Slaves
<1>. QED  BY <1>1, <1>2, <1>3, <1>4, <1>5, <1>6

\* One batch more.
LEMMA OneMore ==
  ASSUME CtlInv, LeftInv, Engaged, NEW p \in Processors, Busy(p), left[p] > 0
  PROVE  /\ left[p] - Program.batch \in Nat /\ Cong(left[p] - Program.batch, 0, Program.batch)
         /\ left[p] - Program.batch <= Program.tiles
         /\ Program.tiles - (left[p] - Program.batch) = Handled(p) + Program.batch
<1>1. Program.tiles \in Nat /\ Program.batch \in Nat \ {0}
  BY EngagedFacts, ProgramFacts
<1>2. /\ left[p] \in Nat /\ left[p] <= Program.tiles /\ Cong(left[p], 0, Program.batch)
      /\ Handled(p) = Program.tiles - left[p]
  BY HandledFacts
<1>3. left[p] - Program.batch \in Nat /\ Cong(left[p] - Program.batch, 0, Program.batch)
  BY <1>1, <1>2, BatchLeft
<1>. QED  BY <1>1, <1>2, <1>3

\* A processor that runs goes on by a batch.
LEMMA PointerStep ==
  ASSUME CtlInv, LeftInv, Engaged, NEW p \in Processors
  PROVE  /\ Handled(p) % Pages \in 0 .. Pages - 1
         /\ (Handled(p) % Pages) + Program.batch <= Pages
         /\ \A j \in 0 .. Program.batch - 1 : (Handled(p) + j) % Pages = (Handled(p) % Pages) + j
         /\ Moved(Handled(p) % Pages, Program.batch) = (Handled(p) + Program.batch) % Pages
         /\ Moved(Handled(p) % Pages, Program.batch) \in 0 .. Pages - 1
<1>1. Program.batch \in Nat \ {0} /\ Cong(Pages, 0, Program.batch)
  BY EngagedFacts, ProgramFacts
<1>2. Handled(p) \in Nat /\ Cong(Handled(p), 0, Program.batch)
  BY HandledFacts
<1>. QED  BY <1>1, <1>2, BatchPages

-----------------------------------------------------------------------------
(***************************************************************************)
(* Firmware of BRISC keeps the invariant.                                  *)
(***************************************************************************)
LEMMA InitCore == Init => CoreInv(0, 0)
<1>. SUFFICES ASSUME Init PROVE CoreInv(0, 0)
  OBVIOUS
<1>. USE Constants
<1>1. ~Engaged /\ \A p \in Processors : ~Busy(p)
  BY DEF Init, Engaged, Busy, Processors, Slaves
<1>2. CtlInv
  <2>1. 0 \in 0 .. Len(load.programs)
    <3>1. load \in Loads
      BY DEF Init
    <3>2. load.programs \in Seq([compute : BOOLEAN, tiles : Nat, batch : Nat \ {0}])
      BY <3>1, CoreAssumption
    <3>3. PICK q \in Seq([compute : BOOLEAN, tiles : Nat, batch : Nat \ {0}]) : q = load.programs
      BY <3>2
    <3>4. Len(q) \in Nat
      OBVIOUS
    <3>. QED  BY <3>3, <3>4
  <2>. QED  BY <1>1, <2>1 DEF Init, CtlInv, Slaves, Processors
<1>3. LeftInv
  BY <1>1 DEF Init, LeftInv, Processors, Slaves
<1>4. PtrInv
  <2>1. wr \in [CBs -> 0 .. Pages - 1] /\ rd \in [CBs -> 0 .. Pages - 1]
    BY DEF Init, All, CBs
  <2>2. packed \in 0 .. W16 - 1 /\ unpacked \in 0 .. W16 - 1
    BY DEF Init
  <2>. QED  BY <1>1, <2>1, <2>2 DEF PtrInv, Processors, Slaves
<1>5. RegInv
  <2>1. received \in [CBs -> 0 .. W32 - 1] /\ acked \in [CBs -> 0 .. W32 - 1]
    BY DEF Init, All, CBs
  <2>2. mem \in [CBs -> [0 .. Pages - 1 -> Cells]]
    <3>1. <<0, 0>> \in Cells
      BY DEF Cells
    <3>. QED  BY <3>1 DEF Init
  <2>3. dest \in Seq(Cells) /\ out \in Seq(Cells) /\ Len(dest) <= DestTiles
    BY DEF Init
  <2>. QED  BY <2>1, <2>2, <2>3 DEF RegInv
<1>6. EngineInv(0, 0)
  BY <1>1 DEF Init, EngineInv
<1>. QED  BY <1>2, <1>3, <1>4, <1>5, <1>6 DEF CoreInv

LEMMA DispatchCore ==
  ASSUME NEW U, NEW P, CoreInv(U, P), Dispatch
  PROVE  CoreInv(U, P)'
<1>1. /\ ~Engaged /\ n < Len(load.programs) /\ go' = "GO" /\ n' = n + 1 /\ out' = <<>>
      /\ UNCHANGED <<load, slaveSync, pc, received, acked, wr, rd, packed, unpacked, left, mem,
                     uq, pq, dest>>
  BY DEF Dispatch, Engaged, regs, local, engine
<1>2. CtlInv /\ LeftInv /\ PtrInv /\ RegInv /\ EngineInv(U, P)
  BY DEF CoreInv
<1>3. ~Engaged' /\ \A p \in Processors : ~Busy(p) /\ ~Busy(p)'
  BY <1>1, <1>2, Between DEF Engaged, Busy
<1>4. CtlInv'
  <2>1. n' \in 0 .. Len(load'.programs) /\ n' # 0
    <3>1. load.programs \in Seq([compute : BOOLEAN, tiles : Nat, batch : Nat \ {0}])
      BY <1>2, CoreAssumption DEF CtlInv
    <3>2. PICK k \in Nat : k = Len(load.programs)
      BY <3>1
    <3>3. n \in 0 .. k /\ n < k
      BY <1>1, <1>2, <3>2 DEF CtlInv
    <3>. QED  BY <1>1, <3>2, <3>3
  <2>. QED  BY <1>1, <1>2, <1>3, <2>1 DEF CtlInv
<1>5. LeftInv'
  BY <1>1, <1>2, <1>3 DEF LeftInv
<1>6. PtrInv'
  BY <1>1, <1>2, <1>3 DEF PtrInv, Processors, Slaves
<1>7. RegInv'
  BY <1>1, <1>2 DEF RegInv
<1>8. EngineInv(U, P)'
  BY <1>1, <1>2, <1>3 DEF EngineInv
<1>. QED  BY <1>4, <1>5, <1>6, <1>7, <1>8 DEF CoreInv

LEMMA InitSyncCore ==
  ASSUME NEW U, NEW P, CoreInv(U, P), InitSyncRegisters
  PROVE  CoreInv(U, P)'
<1>1. /\ pc["brisc"] = "init" /\ received' = All /\ acked' = All
      /\ pc' = [pc EXCEPT !["brisc"] = "poll"]
      /\ UNCHANGED <<load, n, go, slaveSync, wr, rd, packed, unpacked, left, mem, uq, pq, dest, out>>
  BY DEF InitSyncRegisters, local, engine
<1>2. CtlInv /\ LeftInv /\ PtrInv /\ RegInv /\ EngineInv(U, P)
  BY DEF CoreInv
<1>3. /\ pc \in [Processors -> {"init", "poll", "setup", "idle", "run", "push", "pop"}]
      /\ pc'["brisc"] = "poll" /\ \A s \in Slaves : pc'[s] = pc[s]
  BY <1>1, <1>2 DEF CtlInv, Processors, Slaves
<1>4. ~Engaged /\ ~Engaged'
  BY <1>1, <1>3 DEF Engaged
<1>5. \A p \in Processors : ~Busy(p) /\ ~Busy(p)'
  BY <1>1, <1>2, <1>3, <1>4, Between DEF Busy, Processors, Slaves
<1>6. CtlInv'
  BY <1>1, <1>2, <1>3, <1>4 DEF CtlInv, Processors, Slaves
<1>7. LeftInv'
  BY <1>1, <1>2, <1>3, <1>5 DEF LeftInv, Slaves, Busy, Processors
<1>8. PtrInv'
  BY <1>1, <1>2, <1>5 DEF PtrInv, Processors, Slaves
<1>9. RegInv'
  <2>1. All \in [CBs -> 0 .. W32 - 1]
    BY Constants DEF All, CBs
  <2>. QED  BY <1>1, <1>2, <2>1 DEF RegInv
<1>10. EngineInv(U, P)'
  BY <1>1, <1>2, <1>3, <1>4 DEF EngineInv, Slaves
<1>. QED  BY <1>6, <1>7, <1>8, <1>9, <1>10 DEF CoreInv

\* A program begins: so far the engine has handled nothing of it.
LEMMA RunTriscsCore ==
  ASSUME NEW U, NEW P, CoreInv(U, P), RunTriscs
  PROVE  /\ CoreInv(0, 0)' /\ ~Engaged /\ Engaged' /\ n # 0 /\ go = "GO" /\ Program' = Program
         /\ Handled("brisc")' = 0 /\ Handled("ncrisc")' = 0
         /\ Program.compute => Handled("trisc0")' = 0 /\ Handled("trisc2")' = 0
<1>1. /\ pc["brisc"] = "poll" /\ go = "GO"
      /\ slaveSync' = IF Program.compute
                      THEN [ncrisc |-> "DONE", trisc0 |-> "GO", trisc2 |-> "GO"] ELSE slaveSync
      /\ pc' = [pc EXCEPT !["brisc"] = "setup"]
      /\ UNCHANGED <<load, n, go, received, acked, wr, rd, packed, unpacked, left, mem,
                     uq, pq, dest, out>>
  BY DEF RunTriscs, local, engine, regs
<1>2. CtlInv /\ LeftInv /\ PtrInv /\ RegInv /\ EngineInv(U, P)
  BY DEF CoreInv
<1>3. /\ pc \in [Processors -> {"init", "poll", "setup", "idle", "run", "push", "pop"}]
      /\ pc'["brisc"] = "setup" /\ \A s \in Slaves : pc'[s] = pc[s]
  BY <1>1, <1>2 DEF CtlInv, Processors, Slaves
<1>4. ~Engaged /\ Engaged' /\ n # 0 /\ Program' = Program
  BY <1>1, <1>2, <1>3 DEF Engaged, CtlInv, Program
<1>5. /\ \A p \in Processors : ~Busy(p) /\ ~Busy(p)'
      /\ \A s \in Slaves : pc[s] = "idle" /\ pc'[s] = "idle" /\ slaveSync[s] = "DONE"
  BY <1>1, <1>2, <1>3, <1>4, Between DEF Busy, Processors, Slaves
<1>6. /\ slaveSync' \in [Slaves -> {"GO", "DONE"}] /\ slaveSync'["ncrisc"] = "DONE"
      /\ Program.compute => slaveSync'["trisc0"] = "GO" /\ slaveSync'["trisc2"] = "GO"
      /\ ~Program.compute => slaveSync'["trisc0"] = "DONE" /\ slaveSync'["trisc2"] = "DONE"
  <2>1. slaveSync \in [Slaves -> {"GO", "DONE"}]
    BY <1>2 DEF CtlInv
  <2>2. CASE Program.compute
    BY <1>1, <2>2 DEF Slaves
  <2>3. CASE ~Program.compute
    BY <1>1, <1>5, <2>1, <2>3 DEF Slaves
  <2>. QED  BY <2>2, <2>3
<1>7. CtlInv'
  BY <1>1, <1>2, <1>3, <1>4, <1>5, <1>6 DEF CtlInv, Processors, Slaves
<1>8. LeftInv'
  BY <1>1, <1>2, <1>3, <1>5 DEF LeftInv, Processors, Slaves
<1>9. PtrInv'
  BY <1>1, <1>2, <1>5 DEF PtrInv, Processors, Slaves
<1>10. RegInv'
  BY <1>1, <1>2 DEF RegInv
<1>11. /\ Handled("brisc")' = 0 /\ Handled("ncrisc")' = 0
       /\ Program.compute => Handled("trisc0")' = 0 /\ Handled("trisc2")' = 0
  BY <1>3, <1>5, <1>6 DEF Handled, Slaves
<1>12. EngineInv(0, 0)'
  <2>1. uq' = <<>> /\ pq' = <<>> /\ dest' = <<>> /\ Len(dest') = 0
    BY <1>1, <1>2, <1>4 DEF EngineInv
  <2>2. Stream(<<>>, "unpack", 0, 0) /\ Stream(<<>>, "pack", 0, 0)
    BY StreamEmpty
  <2>. QED  BY <1>4, <1>11, <2>1, <2>2 DEF EngineInv
<1>. QED  BY <1>1, <1>4, <1>7, <1>8, <1>9, <1>10, <1>11, <1>12 DEF CoreInv

LEMMA SetupCore ==
  ASSUME NEW U, NEW P, CoreInv(U, P), SetupAndRunNcrisc
  PROVE  /\ CoreInv(U, P)' /\ Engaged /\ Engaged' /\ Program' = Program
         /\ \A p \in Processors : Handled(p)' = Handled(p)
<1>1. /\ pc["brisc"] = "setup"
      /\ rd' = [rd EXCEPT ![Last] = 0]
      /\ slaveSync' = [slaveSync EXCEPT !["ncrisc"] = "GO"]
      /\ left' = [left EXCEPT !["brisc"] = Program.tiles]
      /\ pc' = [pc EXCEPT !["brisc"] = "run"]
      /\ UNCHANGED <<load, n, go, received, acked, wr, packed, unpacked, mem, uq, pq, dest, out>>
  BY DEF SetupAndRunNcrisc, engine, regs
<1>2. CtlInv /\ LeftInv /\ PtrInv /\ RegInv /\ EngineInv(U, P)
  BY DEF CoreInv
<1>3. /\ pc \in [Processors -> {"init", "poll", "setup", "idle", "run", "push", "pop"}]
      /\ pc'["brisc"] = "run" /\ \A s \in Slaves : pc'[s] = pc[s]
  BY <1>1, <1>2 DEF CtlInv, Processors, Slaves
<1>4. Engaged /\ Engaged' /\ n # 0 /\ Program' = Program /\ Last' = Last
  BY <1>1, <1>2, <1>3 DEF Engaged, CtlInv, Program, Last
<1>5. /\ Program.tiles \in Nat /\ Program.compute \in BOOLEAN
      /\ Cong(Program.tiles, 0, Program.batch)
  BY <1>2, <1>4, ProgramFacts
<1>6. /\ slaveSync \in [Slaves -> {"GO", "DONE"}] /\ slaveSync["ncrisc"] = "DONE"
      /\ slaveSync' \in [Slaves -> {"GO", "DONE"}] /\ slaveSync'["ncrisc"] = "GO"
      /\ slaveSync'["trisc0"] = slaveSync["trisc0"] /\ slaveSync'["trisc2"] = slaveSync["trisc2"]
      /\ pc["ncrisc"] = "idle"
  BY <1>1, <1>2 DEF CtlInv, Slaves
<1>7. /\ left \in [Processors -> Nat] /\ left' \in [Processors -> Nat]
      /\ left'["brisc"] = Program.tiles /\ \A s \in Slaves : left'[s] = left[s]
  BY <1>1, <1>2, <1>5 DEF LeftInv, Processors, Slaves
<1>8. CtlInv'
  BY <1>1, <1>2, <1>3, <1>4, <1>6 DEF CtlInv, Processors, Slaves
<1>9. \A p \in Processors : Handled(p)' = Handled(p)
  <2>1. Handled("brisc") = 0 /\ Handled("ncrisc") = 0 /\ Handled("ncrisc")' = 0
    BY <1>1, <1>3, <1>6 DEF Handled, Slaves
  <2>2. Handled("brisc")' = 0
    BY <1>3, <1>4, <1>5, <1>7 DEF Handled
  <2>3. Handled("trisc0")' = Handled("trisc0") /\ Handled("trisc2")' = Handled("trisc2")
    BY <1>3, <1>4, <1>6, <1>7 DEF Handled, Slaves
  <2>. QED  BY <2>1, <2>2, <2>3 DEF Processors, Slaves
<1>10. \A s \in Slaves : Busy(s)' <=> Busy(s)
  BY <1>3 DEF Busy
<1>11. LeftInv'
  BY <1>2, <1>3, <1>4, <1>5, <1>6, <1>7, <1>10 DEF LeftInv, Processors, Slaves, Busy
<1>12. PtrInv'
  <2>1. rd' \in [CBs -> 0 .. Pages - 1] /\ rd'[Last] = 0
    BY <1>1, <1>2, Constants DEF PtrInv, CBs, Last
  <2>2. Busy("trisc0") => Program.compute
    BY <1>2, <1>4 DEF Busy, CtlInv, Slaves
  <2>3. Busy("trisc0") => rd'["in"] = rd["in"]
    BY <1>1, <1>2, <2>2 DEF PtrInv, CBs, Last
  <2>4. Handled("brisc")' = 0 /\ 0 % Pages = 0
    <3>1. Handled("brisc")' = 0
      BY <1>1, <1>9 DEF Handled, Processors
    <3>2. 0 % Pages = 0
      BY Constants, Small
    <3>. QED  BY <3>1, <3>2
  <2>. QED  BY <1>1, <1>2, <1>4, <1>9, <1>10, <2>1, <2>3, <2>4 DEF PtrInv, Processors, Slaves
<1>13. RegInv'
  BY <1>1, <1>2 DEF RegInv
<1>14. EngineInv(U, P)'
  BY <1>1, <1>2, <1>3, <1>4, <1>9 DEF EngineInv, Slaves, Processors
<1>. QED  BY <1>4, <1>8, <1>9, <1>11, <1>12, <1>13, <1>14 DEF CoreInv

\* The program ends: as many tiles were packed as unpacked, all of them.
LEMMA WaitCore ==
  ASSUME NEW U, NEW P, CoreInv(U, P), WaitNcriscTrisc
  PROVE  CoreInv(U, P)' /\ ~Engaged' /\ Engaged /\ pc'["brisc"] = "init" /\ go' = "DONE"
<1>1. /\ pc["brisc"] = "run" /\ left["brisc"] = 0
      /\ \A s \in Slaves : slaveSync[s] = "DONE"
      /\ go' = "DONE"
      /\ pc' = [pc EXCEPT !["brisc"] = "init"]
      /\ UNCHANGED <<load, n, slaveSync, received, acked, wr, rd, packed, unpacked, left, mem,
                     uq, pq, dest, out>>
  BY DEF WaitNcriscTrisc, engine, regs, local
<1>2. CtlInv /\ LeftInv /\ PtrInv /\ RegInv /\ EngineInv(U, P)
  BY DEF CoreInv
<1>3. /\ pc \in [Processors -> {"init", "poll", "setup", "idle", "run", "push", "pop"}]
      /\ pc'["brisc"] = "init" /\ \A s \in Slaves : pc'[s] = pc[s]
  BY <1>1, <1>2 DEF CtlInv, Processors, Slaves
<1>4. Engaged /\ ~Engaged' /\ \A s \in Slaves : pc[s] = "idle"
  BY <1>1, <1>2, <1>3 DEF Engaged, CtlInv
<1>5. \A p \in Processors : ~Busy(p)'
  BY <1>3, <1>4 DEF Busy, Processors, Slaves
<1>6. uq = <<>> /\ pq = <<>> /\ dest = <<>>
  <2>1. uq = <<>> /\ pq = <<>>
    BY <1>2, <1>4 DEF EngineInv, Slaves
  <2>2. CASE Program.compute
    <3>1. left["trisc0"] = 0 /\ left["trisc2"] = 0
      BY <1>2, <1>4 DEF LeftInv, Busy, Processors, Slaves
    <3>2. Handled("trisc0") = Handled("trisc2")
      BY <1>1, <1>4, <3>1 DEF Handled, Slaves
    <3>3. /\ Stream(<<>>, "unpack", U, Handled("trisc0")) /\ Stream(<<>>, "pack", P, Handled("trisc2"))
          /\ U = P + Len(dest) /\ P \in Nat
      BY <1>2, <1>4, <2>1, <2>2 DEF EngineInv
    <3>4. U = Handled("trisc0") /\ P = Handled("trisc2")
      BY <3>3, StreamEnd
    <3>5. dest \in Seq(Cells)
      BY <1>2 DEF RegInv
    <3>6. Len(dest) = 0
      <4>1. PICK k \in Nat : k = Len(dest)
        BY <3>5
      <4>2. P = P + k
        BY <3>2, <3>3, <3>4, <4>1
      <4>3. k = 0
        BY <3>3, <4>2
      <4>. QED  BY <4>1, <4>3
    <3>. QED  BY <2>1, <3>5, <3>6
  <2>3. CASE ~Program.compute
    BY <1>2, <2>3 DEF EngineInv
  <2>. QED  BY <2>2, <2>3
<1>7. CtlInv'
  BY <1>1, <1>2, <1>3, <1>4 DEF CtlInv, Processors, Slaves
<1>8. LeftInv'
  BY <1>1, <1>2, <1>3, <1>4, <1>5 DEF LeftInv, Processors, Slaves, Busy
<1>9. PtrInv'
  BY <1>1, <1>2, <1>5 DEF PtrInv, Processors, Slaves
<1>10. RegInv'
  BY <1>1, <1>2 DEF RegInv
<1>11. EngineInv(U, P)'
  BY <1>1, <1>2, <1>3, <1>4, <1>6 DEF EngineInv
<1>. QED  BY <1>1, <1>3, <1>4, <1>7, <1>8, <1>9, <1>10, <1>11 DEF CoreInv

-----------------------------------------------------------------------------
(***************************************************************************)
(* So does the firmware of the others.                                     *)
(***************************************************************************)
LEMMA StartCore ==
  ASSUME NEW U, NEW P, CoreInv(U, P), NEW s \in Slaves, Start(s)
  PROVE  /\ CoreInv(U, P)' /\ Engaged /\ Engaged' /\ Program' = Program
         /\ \A p \in Processors : Handled(p)' = Handled(p)
<1>1. /\ pc[s] = "idle" /\ slaveSync[s] = "GO"
      /\ left' = [left EXCEPT ![s] = Program.tiles]
      /\ wr' = CASE s = "ncrisc" -> [wr EXCEPT !["in"] = 0]
                 [] s = "trisc2" -> [wr EXCEPT !["out"] = 0]
                 [] OTHER -> wr
      /\ rd' = IF s = "trisc0" THEN [rd EXCEPT !["in"] = 0] ELSE rd
      /\ unpacked' = IF s = "trisc0" THEN 0 ELSE unpacked
      /\ packed' = IF s = "trisc2" THEN 0 ELSE packed
      /\ pc' = [pc EXCEPT ![s] = "run"]
      /\ UNCHANGED <<load, n, go, slaveSync, received, acked, mem, uq, pq, dest, out>>
  BY DEF Start, engine, regs
<1>2. CtlInv /\ LeftInv /\ PtrInv /\ RegInv /\ EngineInv(U, P)
  BY DEF CoreInv
<1>3. /\ pc \in [Processors -> {"init", "poll", "setup", "idle", "run", "push", "pop"}]
      /\ pc'[s] = "run" /\ \A p \in Processors \ {s} : pc'[p] = pc[p]
      /\ s \in Processors /\ s # "brisc"
  BY <1>1, <1>2 DEF CtlInv, Processors, Slaves
<1>4. Engaged /\ Engaged' /\ n # 0 /\ Program' = Program /\ Last' = Last
  BY <1>1, <1>2, <1>3 DEF Engaged, CtlInv, Program, Last, Processors
<1>5. /\ Program.tiles \in Nat /\ Program.compute \in BOOLEAN
      /\ Cong(Program.tiles, 0, Program.batch)
  BY <1>2, <1>4, ProgramFacts
<1>6. /\ left \in [Processors -> Nat] /\ left' \in [Processors -> Nat]
      /\ left'[s] = Program.tiles /\ \A p \in Processors \ {s} : left'[p] = left[p]
  BY <1>1, <1>2, <1>3, <1>5 DEF LeftInv
<1>7. s = "ncrisc" => pc["brisc"] # "setup"
  BY <1>1, <1>2 DEF CtlInv
<1>8. CtlInv'
  BY <1>1, <1>2, <1>3, <1>4 DEF CtlInv, Processors, Slaves
<1>9. Handled(s) = 0 /\ \A p \in Processors : Handled(p)' = Handled(p)
  <2>1. Handled(s) = 0
    BY <1>1 DEF Handled
  <2>2. Handled(s)' = 0
    BY <1>3, <1>4, <1>5, <1>6, <1>7 DEF Handled, Processors, Slaves
  <2>3. \A p \in Processors \ {s} : Handled(p)' = Handled(p)
    BY <1>1, <1>3, <1>4, <1>6 DEF Handled, Processors
  <2>. QED  BY <2>1, <2>2, <2>3
<1>10. Busy(s)' /\ \A p \in Processors \ {s} : Busy(p)' <=> Busy(p)
  BY <1>3 DEF Busy
<1>11. LeftInv'
  <2>1. \A p \in Processors :
          IF Busy(p)' THEN left'[p] <= Program.tiles /\ Cong(left'[p], 0, Program.batch)
          ELSE left'[p] = 0
    BY <1>2, <1>5, <1>6, <1>10 DEF LeftInv
  <2>2. pc'["ncrisc"] = "push" => left'["ncrisc"] > 0
    BY <1>2, <1>3, <1>6 DEF LeftInv, Processors, Slaves
  <2>3. pc'["brisc"] = "pop" => left'["brisc"] > 0
    BY <1>2, <1>3, <1>6 DEF LeftInv, Processors, Slaves
  <2>. QED  BY <1>4, <1>6, <2>1, <2>2, <2>3 DEF LeftInv
<1>12. PtrInv'
  <2>0. 0 % Pages = 0 /\ 0 % W16 = 0 /\ 0 \in 0 .. Pages - 1 /\ 0 \in 0 .. W16 - 1
    BY Constants, Small
  <2>1. /\ wr \in [CBs -> 0 .. Pages - 1] /\ rd \in [CBs -> 0 .. Pages - 1]
        /\ packed \in 0 .. W16 - 1 /\ unpacked \in 0 .. W16 - 1
    BY <1>2 DEF PtrInv
  <2>2. CASE s = "ncrisc"
    <3>1. /\ wr' = [wr EXCEPT !["in"] = 0] /\ rd' = rd /\ unpacked' = unpacked /\ packed' = packed
      BY <1>1, <2>2
    <3>2. wr' \in [CBs -> 0 .. Pages - 1] /\ wr'["in"] = 0 /\ wr'["out"] = wr["out"]
      BY <2>0, <2>1, <3>1 DEF CBs
    <3>. QED  BY <1>2, <1>4, <1>9, <1>10, <2>0, <2>1, <2>2, <3>1, <3>2 DEF PtrInv, Processors, Slaves
  <2>3. CASE s = "trisc0"
    <3>1. /\ wr' = wr /\ rd' = [rd EXCEPT !["in"] = 0] /\ unpacked' = 0 /\ packed' = packed
      BY <1>1, <2>3
    <3>2. rd' \in [CBs -> 0 .. Pages - 1] /\ rd'["in"] = 0 /\ rd'["out"] = rd["out"]
      BY <2>0, <2>1, <3>1 DEF CBs
    <3>3. Last = "out"
      BY <1>1, <1>2, <1>4, <2>3 DEF CtlInv, Last
    <3>. QED  BY <1>2, <1>4, <1>9, <1>10, <2>0, <2>1, <2>3, <3>1, <3>2, <3>3
              DEF PtrInv, Processors, Slaves
  <2>4. CASE s = "trisc2"
    <3>1. /\ wr' = [wr EXCEPT !["out"] = 0] /\ rd' = rd /\ unpacked' = unpacked /\ packed' = 0
      BY <1>1, <2>4
    <3>2. wr' \in [CBs -> 0 .. Pages - 1] /\ wr'["out"] = 0 /\ wr'["in"] = wr["in"]
      BY <2>0, <2>1, <3>1 DEF CBs
    <3>. QED  BY <1>2, <1>4, <1>9, <1>10, <2>0, <2>1, <2>4, <3>1, <3>2 DEF PtrInv, Processors, Slaves
  <2>. QED  BY <2>2, <2>3, <2>4 DEF Slaves
<1>13. RegInv'
  BY <1>1, <1>2 DEF RegInv
<1>14. EngineInv(U, P)'
  BY <1>1, <1>2, <1>3, <1>4, <1>9 DEF EngineInv, Slaves, Processors
<1>. QED  BY <1>4, <1>8, <1>9, <1>11, <1>12, <1>13, <1>14 DEF CoreInv

LEMMA ReportCore ==
  ASSUME NEW U, NEW P, CoreInv(U, P), NEW s \in Slaves, Report(s)
  PROVE  /\ CoreInv(U, P)' /\ Engaged /\ Engaged' /\ Program' = Program
         /\ \A p \in Processors : Handled(p)' = Handled(p)
<1>1. /\ pc[s] = "run" /\ left[s] = 0 /\ TensixSync(s)
      /\ slaveSync' = [slaveSync EXCEPT ![s] = "DONE"]
      /\ pc' = [pc EXCEPT ![s] = "idle"]
      /\ UNCHANGED <<load, n, go, received, acked, wr, rd, packed, unpacked, left, mem,
                     uq, pq, dest, out>>
  BY DEF Report, engine, regs, local
<1>2. CtlInv /\ LeftInv /\ PtrInv /\ RegInv /\ EngineInv(U, P)
  BY DEF CoreInv
<1>3. /\ pc \in [Processors -> {"init", "poll", "setup", "idle", "run", "push", "pop"}]
      /\ pc'[s] = "idle" /\ \A p \in Processors \ {s} : pc'[p] = pc[p]
      /\ s \in Processors /\ s # "brisc"
  BY <1>1, <1>2 DEF CtlInv, Processors, Slaves
<1>4. slaveSync[s] = "GO"
  BY <1>1, <1>2 DEF CtlInv
<1>5. Engaged /\ Engaged' /\ Program' = Program /\ Last' = Last
  BY <1>1, <1>2, <1>3, <1>4 DEF Engaged, CtlInv, Program, Last, Processors
<1>6. /\ slaveSync \in [Slaves -> {"GO", "DONE"}] /\ slaveSync' \in [Slaves -> {"GO", "DONE"}]
      /\ slaveSync'[s] = "DONE" /\ \A t \in Slaves \ {s} : slaveSync'[t] = slaveSync[t]
  BY <1>1, <1>2 DEF CtlInv
<1>7. s = "ncrisc" => pc["brisc"] # "setup"
  BY <1>2, <1>4 DEF CtlInv
<1>8. CtlInv'
  BY <1>1, <1>2, <1>3, <1>5, <1>6 DEF CtlInv, Processors, Slaves
<1>9. \A p \in Processors : Handled(p)' = Handled(p)
  <2>1. Handled(s)' = Handled(s)
    BY <1>1, <1>3, <1>5, <1>6, <1>7 DEF Handled, Processors, Slaves
  <2>2. \A p \in Processors \ {s} : Handled(p)' = Handled(p)
    BY <1>1, <1>2, <1>3, <1>5, <1>6 DEF Handled, Processors, Slaves, CtlInv
  <2>. QED  BY <2>1, <2>2
<1>10. ~Busy(s)' /\ \A p \in Processors \ {s} : Busy(p)' <=> Busy(p)
  BY <1>3 DEF Busy
<1>11. LeftInv'
  BY <1>1, <1>2, <1>3, <1>5, <1>10 DEF LeftInv, Processors, Slaves
<1>12. PtrInv'
  BY <1>1, <1>2, <1>5, <1>9, <1>10 DEF PtrInv, Processors, Slaves
<1>13. RegInv'
  BY <1>1, <1>2 DEF RegInv
<1>14. EngineInv(U, P)'
  <2>1. (pc'["trisc0"] = "idle" => uq' = <<>>) /\ (pc'["trisc2"] = "idle" => pq' = <<>>)
    BY <1>1, <1>2, <1>3 DEF EngineInv, TensixSync, Slaves, Processors
  <2>. QED  BY <1>1, <1>2, <1>5, <1>9, <2>1 DEF EngineInv, Slaves, Processors
<1>. QED  BY <1>5, <1>8, <1>9, <1>11, <1>12, <1>13, <1>14 DEF CoreInv

-----------------------------------------------------------------------------
(***************************************************************************)
(* So do the kernels.                                                      *)
(***************************************************************************)
\* Who runs, runs a program.
LEMMA BusyEngaged ==
  ASSUME CtlInv, NEW p \in Processors, Busy(p)
  PROVE  /\ Engaged /\ n # 0 /\ Program.batch \in Nat \ {0} /\ Program.tiles \in Nat
         /\ p \in {"trisc0", "trisc2"} => Program.compute
<1>1. Engaged
  BY Between
<1>2. n # 0
  BY <1>1, EngagedFacts
<1>3. p \in {"trisc0", "trisc2"} => Program.compute
  BY <1>1 DEF CtlInv, Busy, Processors, Slaves
<1>. QED  BY <1>1, <1>2, <1>3, ProgramFacts

LEMMA FillCore ==
  ASSUME NEW U, NEW P, CoreInv(U, P), Fill
  PROVE  /\ CoreInv(U, P)' /\ Engaged /\ Engaged' /\ Program' = Program
         /\ \A p \in Processors : Handled(p)' = Handled(p)
<1>1. /\ pc["ncrisc"] = "run" /\ left["ncrisc"] > 0
      /\ mem' = [mem EXCEPT !["in"] = [i \in DOMAIN @ |->
           IF i \in {wr["in"] + j : j \in Batch}
           THEN <<n, Program.tiles - left["ncrisc"] + i - wr["in"] + 1>> ELSE @[i]]]
      /\ pc' = [pc EXCEPT !["ncrisc"] = "push"]
      /\ UNCHANGED <<load, n, go, slaveSync, received, acked, wr, rd, packed, unpacked, left,
                     uq, pq, dest, out>>
  BY DEF Fill, engine, regs, local
<1>2. CtlInv /\ LeftInv /\ PtrInv /\ RegInv /\ EngineInv(U, P)
  BY DEF CoreInv
<1>3. /\ pc \in [Processors -> {"init", "poll", "setup", "idle", "run", "push", "pop"}]
      /\ pc'["ncrisc"] = "push" /\ \A p \in Processors \ {"ncrisc"} : pc'[p] = pc[p]
      /\ "ncrisc" \in Processors
  BY <1>1, <1>2 DEF CtlInv, Processors, Slaves
<1>4. Busy("ncrisc") /\ \A p \in Processors : Busy(p)' <=> Busy(p)
  BY <1>1, <1>3 DEF Busy
<1>5. Engaged /\ Engaged' /\ n # 0 /\ Program' = Program /\ Last' = Last /\ Program.tiles \in Nat
  <2>1. Engaged /\ n # 0 /\ Program.tiles \in Nat
    BY <1>2, <1>3, <1>4, BusyEngaged
  <2>. QED  BY <1>1, <1>3, <2>1 DEF Engaged, Program, Last, Processors
<1>6. CtlInv'
  BY <1>1, <1>2, <1>3, <1>5 DEF CtlInv, Processors, Slaves
<1>7. \A p \in Processors : Handled(p)' = Handled(p)
  BY <1>1, <1>3, <1>5 DEF Handled, Processors
<1>8. LeftInv'
  BY <1>1, <1>2, <1>3, <1>4, <1>5 DEF LeftInv, Processors, Slaves
<1>9. PtrInv'
  BY <1>1, <1>2, <1>4, <1>5, <1>7 DEF PtrInv, Processors, Slaves
<1>10. RegInv'
  <2>1. mem \in [CBs -> [0 .. Pages - 1 -> Cells]] /\ wr["in"] \in 0 .. Pages - 1
    BY <1>2 DEF RegInv, PtrInv, CBs
  <2>2. left["ncrisc"] \in Nat /\ n \in Nat
    BY <1>2 DEF LeftInv, CtlInv, Processors, Slaves
  <2>3. ASSUME NEW i \in 0 .. Pages - 1
        PROVE  <<n, Program.tiles - left["ncrisc"] + i - wr["in"] + 1>> \in Cells
    <3>1. wr["in"] \in Int /\ i \in Int
      BY <2>1
    <3>2. Program.tiles - left["ncrisc"] + i - wr["in"] + 1 \in Int
      BY <1>5, <2>2, <3>1
    <3>. QED  BY <2>2, <3>2 DEF Cells
  <2>4. mem["in"] \in [0 .. Pages - 1 -> Cells] /\ DOMAIN mem["in"] = 0 .. Pages - 1
    BY <2>1 DEF CBs
  <2>. DEFINE new == [i \in DOMAIN mem["in"] |->
           IF i \in {wr["in"] + j : j \in Batch}
           THEN <<n, Program.tiles - left["ncrisc"] + i - wr["in"] + 1>> ELSE mem["in"][i]]
  <2>5. new \in [0 .. Pages - 1 -> Cells]
    BY <2>3, <2>4
  <2>6. mem' = [mem EXCEPT !["in"] = new]
    BY <1>1
  <2>. HIDE DEF new
  <2>7. mem' \in [CBs -> [0 .. Pages - 1 -> Cells]]
    BY <2>1, <2>5, <2>6
  <2>. QED  BY <1>1, <1>2, <2>7 DEF RegInv
<1>11. EngineInv(U, P)'
  BY <1>1, <1>2, <1>3, <1>5, <1>7 DEF EngineInv, Slaves, Processors
<1>. QED  BY <1>5, <1>6, <1>7, <1>8, <1>9, <1>10, <1>11 DEF CoreInv

LEMMA PushCore ==
  ASSUME NEW U, NEW P, CoreInv(U, P), PushBack
  PROVE  /\ CoreInv(U, P)' /\ Engaged /\ Engaged' /\ Program' = Program
         /\ Handled("ncrisc")' = Handled("ncrisc") + Program.batch
         /\ \A p \in Processors \ {"ncrisc"} : Handled(p)' = Handled(p)
<1>1. /\ pc["ncrisc"] = "push"
      /\ received' = [received EXCEPT !["in"] = (@ + Program.batch) % W32]
      /\ wr' = [wr EXCEPT !["in"] = Moved(@, Program.batch)]
      /\ left' = [left EXCEPT !["ncrisc"] = @ - Program.batch]
      /\ pc' = [pc EXCEPT !["ncrisc"] = "run"]
      /\ UNCHANGED <<load, n, go, slaveSync, acked, rd, packed, unpacked, mem, uq, pq, dest, out>>
  BY DEF PushBack, engine
<1>2. CtlInv /\ LeftInv /\ PtrInv /\ RegInv /\ EngineInv(U, P)
  BY DEF CoreInv
<1>3. /\ pc \in [Processors -> {"init", "poll", "setup", "idle", "run", "push", "pop"}]
      /\ pc'["ncrisc"] = "run" /\ \A p \in Processors \ {"ncrisc"} : pc'[p] = pc[p]
      /\ "ncrisc" \in Processors
  BY <1>1, <1>2 DEF CtlInv, Processors, Slaves
<1>4. Busy("ncrisc") /\ \A p \in Processors : Busy(p)' <=> Busy(p)
  BY <1>1, <1>3 DEF Busy
<1>5. Engaged /\ Engaged' /\ n # 0 /\ Program' = Program /\ Last' = Last /\ Program.batch \in Nat \ {0}
  <2>1. Engaged /\ n # 0 /\ Program.batch \in Nat \ {0}
    BY <1>2, <1>3, <1>4, BusyEngaged
  <2>. QED  BY <1>1, <1>3, <2>1 DEF Engaged, Program, Last, Processors
<1>6. CtlInv'
  BY <1>1, <1>2, <1>3, <1>5 DEF CtlInv, Processors, Slaves
<1>7. left["ncrisc"] > 0
  BY <1>1, <1>2 DEF LeftInv
<1>8. /\ left["ncrisc"] - Program.batch \in Nat
      /\ Cong(left["ncrisc"] - Program.batch, 0, Program.batch)
      /\ left["ncrisc"] - Program.batch <= Program.tiles
      /\ Program.tiles - (left["ncrisc"] - Program.batch) = Handled("ncrisc") + Program.batch
  BY <1>2, <1>3, <1>4, <1>5, <1>7, OneMore
<1>9. /\ left \in [Processors -> Nat] /\ left' \in [Processors -> Nat]
      /\ left'["ncrisc"] = left["ncrisc"] - Program.batch
      /\ \A p \in Processors \ {"ncrisc"} : left'[p] = left[p]
  BY <1>1, <1>2, <1>3, <1>8 DEF LeftInv
<1>10. Handled("ncrisc")' = Handled("ncrisc") + Program.batch
  <2>1. Handled("ncrisc")' = Program.tiles - left'["ncrisc"]
    BY <1>2, <1>3, <1>5, <1>6 DEF Handled, CtlInv, Slaves, Processors
  <2>. QED  BY <1>8, <1>9, <2>1
<1>11. \A p \in Processors \ {"ncrisc"} : Handled(p)' = Handled(p)
  BY <1>1, <1>3, <1>5, <1>9 DEF Handled, Processors, Slaves
<1>12. LeftInv'
  BY <1>2, <1>3, <1>4, <1>5, <1>8, <1>9 DEF LeftInv, Processors, Slaves
<1>13. PtrInv'
  <2>1. /\ wr["in"] = Handled("ncrisc") % Pages
        /\ wr \in [CBs -> 0 .. Pages - 1] /\ rd \in [CBs -> 0 .. Pages - 1]
        /\ packed \in 0 .. W16 - 1 /\ unpacked \in 0 .. W16 - 1
    BY <1>2, <1>4 DEF PtrInv
  <2>2. /\ Moved(wr["in"], Program.batch) = (Handled("ncrisc") + Program.batch) % Pages
        /\ Moved(wr["in"], Program.batch) \in 0 .. Pages - 1
    BY <1>2, <1>3, <1>5, <2>1, PointerStep
  <2>3. /\ wr' \in [CBs -> 0 .. Pages - 1] /\ wr'["out"] = wr["out"]
        /\ wr'["in"] = (Handled("ncrisc") + Program.batch) % Pages
    BY <1>1, <2>1, <2>2 DEF CBs
  <2>. QED  BY <1>1, <1>2, <1>4, <1>5, <1>10, <1>11, <2>1, <2>3 DEF PtrInv, Processors, Slaves
<1>14. RegInv'
  <2>1. received \in [CBs -> 0 .. W32 - 1] /\ received["in"] \in Nat
    BY <1>2, Constants DEF RegInv, CBs
  <2>2. (received["in"] + Program.batch) % W32 \in 0 .. W32 - 1
    <3>1. received["in"] + Program.batch \in Nat
      BY <1>5, <2>1
    <3>. QED  BY <3>1, Constants, DivMod
  <2>3. received' \in [CBs -> 0 .. W32 - 1]
    BY <1>1, <2>1, <2>2 DEF CBs
  <2>. QED  BY <1>1, <1>2, <2>3 DEF RegInv
<1>15. EngineInv(U, P)'
  BY <1>1, <1>2, <1>3, <1>5, <1>11 DEF EngineInv, Slaves, Processors
<1>. QED  BY <1>5, <1>6, <1>10, <1>11, <1>12, <1>13, <1>14, <1>15 DEF CoreInv

LEMMA UnpackCore ==
  ASSUME NEW U, NEW P, CoreInv(U, P), Unpack
  PROVE  /\ CoreInv(U, P)' /\ Engaged /\ Engaged' /\ Program' = Program
         /\ Handled("trisc0")' = Handled("trisc0") + Program.batch
         /\ \A p \in Processors \ {"trisc0"} : Handled(p)' = Handled(p)
<1>1. /\ pc["trisc0"] = "run" /\ left["trisc0"] > 0
      /\ unpacked' = (unpacked + Program.batch) % W16
      /\ uq' = uq \o [j \in 1 .. Program.batch |-> [op |-> "unpack", arg |-> rd["in"] + j - 1]]
                  \o <<[op |-> "store", arg |-> unpacked']>>
      /\ rd' = [rd EXCEPT !["in"] = Moved(@, Program.batch)]
      /\ left' = [left EXCEPT !["trisc0"] = @ - Program.batch]
      /\ UNCHANGED <<load, n, go, slaveSync, pc, received, acked, wr, packed, mem, pq, dest, out>>
  BY DEF Unpack, regs
<1>2. CtlInv /\ LeftInv /\ PtrInv /\ RegInv /\ EngineInv(U, P)
  BY DEF CoreInv
<1>3. "trisc0" \in Processors
  BY DEF Processors, Slaves
<1>4. Busy("trisc0") /\ \A p \in Processors : Busy(p)' <=> Busy(p)
  BY <1>1 DEF Busy
<1>5. /\ Engaged /\ Engaged' /\ n # 0 /\ Program' = Program /\ Last' = Last /\ Program.compute
      /\ Program.batch \in Nat \ {0} /\ Last = "out"
  <2>1. Engaged /\ n # 0 /\ Program.batch \in Nat \ {0} /\ Program.compute
    BY <1>2, <1>3, <1>4, BusyEngaged
  <2>. QED  BY <1>1, <2>1 DEF Engaged, Program, Last
<1>6. CtlInv'
  BY <1>1, <1>2, <1>5 DEF CtlInv
<1>8. /\ left["trisc0"] - Program.batch \in Nat
      /\ Cong(left["trisc0"] - Program.batch, 0, Program.batch)
      /\ left["trisc0"] - Program.batch <= Program.tiles
      /\ Program.tiles - (left["trisc0"] - Program.batch) = Handled("trisc0") + Program.batch
  BY <1>1, <1>2, <1>3, <1>4, <1>5, OneMore
<1>9. /\ left \in [Processors -> Nat] /\ left' \in [Processors -> Nat]
      /\ left'["trisc0"] = left["trisc0"] - Program.batch
      /\ \A p \in Processors \ {"trisc0"} : left'[p] = left[p]
  BY <1>1, <1>2, <1>3, <1>8 DEF LeftInv
<1>10. Handled("trisc0")' = Handled("trisc0") + Program.batch
  <2>1. Handled("trisc0")' = Program.tiles - left'["trisc0"]
    BY <1>1, <1>5 DEF Handled
  <2>. QED  BY <1>8, <1>9, <2>1
<1>11. \A p \in Processors \ {"trisc0"} : Handled(p)' = Handled(p)
  BY <1>1, <1>5, <1>9 DEF Handled
<1>12. LeftInv'
  BY <1>1, <1>2, <1>4, <1>5, <1>8, <1>9 DEF LeftInv, Processors, Slaves
<1>13. /\ Handled("trisc0") \in Nat /\ rd["in"] \in Nat
       /\ rd["in"] = Handled("trisc0") % Pages /\ unpacked = Handled("trisc0") % W16
       /\ \A j \in 0 .. Program.batch - 1 : (Handled("trisc0") + j) % Pages = rd["in"] + j
       /\ Moved(rd["in"], Program.batch) = (Handled("trisc0") + Program.batch) % Pages
       /\ Moved(rd["in"], Program.batch) \in 0 .. Pages - 1
  <2>1. /\ rd["in"] = Handled("trisc0") % Pages /\ unpacked = Handled("trisc0") % W16
        /\ rd["in"] \in 0 .. Pages - 1
    BY <1>2, <1>4 DEF PtrInv, CBs
  <2>2. Handled("trisc0") \in Nat
    BY <1>2, <1>3, <1>5, HandledFacts
  <2>. QED  BY <1>2, <1>3, <1>5, <2>1, <2>2, PointerStep
<1>14. unpacked' = (Handled("trisc0") + Program.batch) % W16 /\ unpacked' \in 0 .. W16 - 1
  <2>1. W16 \in Nat \ {0} /\ Handled("trisc0") \in Nat /\ Program.batch \in Nat
    BY <1>5, <1>13, Constants
  <2>2. unpacked' = ((Handled("trisc0") % W16) + Program.batch) % W16
    BY <1>1, <1>13
  <2>. QED  BY <2>1, <2>2, WrapCount
<1>15. PtrInv'
  <2>1. /\ wr \in [CBs -> 0 .. Pages - 1] /\ rd \in [CBs -> 0 .. Pages - 1]
        /\ packed \in 0 .. W16 - 1
    BY <1>2 DEF PtrInv
  <2>2. /\ rd' \in [CBs -> 0 .. Pages - 1] /\ rd'["out"] = rd["out"]
        /\ rd'["in"] = (Handled("trisc0") + Program.batch) % Pages
    BY <1>1, <1>13, <2>1 DEF CBs
  <2>. QED  BY <1>1, <1>2, <1>4, <1>5, <1>10, <1>11, <1>14, <2>1, <2>2 DEF PtrInv, Processors, Slaves
<1>16. RegInv'
  BY <1>1, <1>2 DEF RegInv
<1>17. EngineInv(U, P)'
  <2>1. /\ Stream(uq, "unpack", U, Handled("trisc0")) /\ Stream(pq, "pack", P, Handled("trisc2"))
        /\ U = P + Len(dest) /\ U \in Nat /\ P \in Nat /\ (pc["trisc2"] = "idle" => pq = <<>>)
    BY <1>2, <1>5 DEF EngineInv
  <2>2. Stream(uq \o [j \in 1 .. Program.batch |-> [op |-> "unpack", arg |-> rd["in"] + j - 1]],
               "unpack", U, Handled("trisc0") + Program.batch)
    <3>1. PICK h \in Nat, b \in Nat \ {0}, r \in Nat :
            h = Handled("trisc0") /\ b = Program.batch /\ r = rd["in"]
      BY <1>5, <1>13
    <3>2. Stream(uq, "unpack", U, h) /\ \A j \in 0 .. b - 1 : (h + j) % Pages = r + j
      BY <1>13, <2>1, <3>1
    <3>3. Stream(uq \o [j \in 1 .. b |-> [op |-> "unpack", arg |-> r + j - 1]], "unpack", U, h + b)
      BY <3>2, StreamBatch
    <3>. QED  BY <3>1, <3>3
  <2>3. Stream(uq', "unpack", U, Handled("trisc0") + Program.batch)
    BY <1>1, <1>14, <2>2, StreamStore
  <2>4. Stream(uq', "unpack", U, Handled("trisc0")')
    BY <1>10, <2>3
  <2>5. Stream(pq', "pack", P, Handled("trisc2")')
    BY <1>1, <1>11, <2>1 DEF Processors, Slaves
  <2>. QED  BY <1>1, <1>5, <2>1, <2>4, <2>5 DEF EngineInv
<1>. QED  BY <1>5, <1>6, <1>10, <1>11, <1>12, <1>15, <1>16, <1>17 DEF CoreInv

LEMMA PackCore ==
  ASSUME NEW U, NEW P, CoreInv(U, P), Pack
  PROVE  /\ CoreInv(U, P)' /\ Engaged /\ Engaged' /\ Program' = Program
         /\ Handled("trisc2")' = Handled("trisc2") + Program.batch
         /\ \A p \in Processors \ {"trisc2"} : Handled(p)' = Handled(p)
<1>1. /\ pc["trisc2"] = "run" /\ left["trisc2"] > 0
      /\ packed' = (packed + Program.batch) % W16
      /\ pq' = pq \o [j \in 1 .. Program.batch |-> [op |-> "pack", arg |-> wr["out"] + j - 1]]
                  \o <<[op |-> "store", arg |-> packed']>>
      /\ wr' = [wr EXCEPT !["out"] = Moved(@, Program.batch)]
      /\ left' = [left EXCEPT !["trisc2"] = @ - Program.batch]
      /\ UNCHANGED <<load, n, go, slaveSync, pc, received, acked, rd, unpacked, mem, uq, dest, out>>
  BY DEF Pack, regs
<1>2. CtlInv /\ LeftInv /\ PtrInv /\ RegInv /\ EngineInv(U, P)
  BY DEF CoreInv
<1>3. "trisc2" \in Processors
  BY DEF Processors, Slaves
<1>4. Busy("trisc2") /\ \A p \in Processors : Busy(p)' <=> Busy(p)
  BY <1>1 DEF Busy
<1>5. /\ Engaged /\ Engaged' /\ n # 0 /\ Program' = Program /\ Last' = Last /\ Program.compute
      /\ Program.batch \in Nat \ {0}
  <2>1. Engaged /\ n # 0 /\ Program.batch \in Nat \ {0} /\ Program.compute
    BY <1>2, <1>3, <1>4, BusyEngaged
  <2>. QED  BY <1>1, <2>1 DEF Engaged, Program, Last
<1>6. CtlInv'
  BY <1>1, <1>2, <1>5 DEF CtlInv
<1>8. /\ left["trisc2"] - Program.batch \in Nat
      /\ Cong(left["trisc2"] - Program.batch, 0, Program.batch)
      /\ left["trisc2"] - Program.batch <= Program.tiles
      /\ Program.tiles - (left["trisc2"] - Program.batch) = Handled("trisc2") + Program.batch
  BY <1>1, <1>2, <1>3, <1>4, <1>5, OneMore
<1>9. /\ left \in [Processors -> Nat] /\ left' \in [Processors -> Nat]
      /\ left'["trisc2"] = left["trisc2"] - Program.batch
      /\ \A p \in Processors \ {"trisc2"} : left'[p] = left[p]
  BY <1>1, <1>2, <1>3, <1>8 DEF LeftInv
<1>10. Handled("trisc2")' = Handled("trisc2") + Program.batch
  <2>1. Handled("trisc2")' = Program.tiles - left'["trisc2"]
    BY <1>1, <1>5 DEF Handled
  <2>. QED  BY <1>8, <1>9, <2>1
<1>11. \A p \in Processors \ {"trisc2"} : Handled(p)' = Handled(p)
  BY <1>1, <1>5, <1>9 DEF Handled
<1>12. LeftInv'
  BY <1>1, <1>2, <1>4, <1>5, <1>8, <1>9 DEF LeftInv, Processors, Slaves
<1>13. /\ Handled("trisc2") \in Nat /\ wr["out"] \in Nat
       /\ wr["out"] = Handled("trisc2") % Pages /\ packed = Handled("trisc2") % W16
       /\ \A j \in 0 .. Program.batch - 1 : (Handled("trisc2") + j) % Pages = wr["out"] + j
       /\ Moved(wr["out"], Program.batch) = (Handled("trisc2") + Program.batch) % Pages
       /\ Moved(wr["out"], Program.batch) \in 0 .. Pages - 1
  <2>1. /\ wr["out"] = Handled("trisc2") % Pages /\ packed = Handled("trisc2") % W16
        /\ wr["out"] \in 0 .. Pages - 1
    BY <1>2, <1>4 DEF PtrInv, CBs
  <2>2. Handled("trisc2") \in Nat
    BY <1>2, <1>3, <1>5, HandledFacts
  <2>. QED  BY <1>2, <1>3, <1>5, <2>1, <2>2, PointerStep
<1>14. packed' = (Handled("trisc2") + Program.batch) % W16 /\ packed' \in 0 .. W16 - 1
  <2>1. W16 \in Nat \ {0} /\ Handled("trisc2") \in Nat /\ Program.batch \in Nat
    BY <1>5, <1>13, Constants
  <2>2. packed' = ((Handled("trisc2") % W16) + Program.batch) % W16
    BY <1>1, <1>13
  <2>. QED  BY <2>1, <2>2, WrapCount
<1>15. PtrInv'
  <2>1. /\ rd \in [CBs -> 0 .. Pages - 1] /\ wr \in [CBs -> 0 .. Pages - 1]
        /\ unpacked \in 0 .. W16 - 1
    BY <1>2 DEF PtrInv
  <2>2. /\ wr' \in [CBs -> 0 .. Pages - 1] /\ wr'["in"] = wr["in"]
        /\ wr'["out"] = (Handled("trisc2") + Program.batch) % Pages
    BY <1>1, <1>13, <2>1 DEF CBs
  <2>. QED  BY <1>1, <1>2, <1>4, <1>5, <1>10, <1>11, <1>14, <2>1, <2>2 DEF PtrInv, Processors, Slaves
<1>16. RegInv'
  BY <1>1, <1>2 DEF RegInv
<1>17. EngineInv(U, P)'
  <2>1. /\ Stream(pq, "pack", P, Handled("trisc2")) /\ Stream(uq, "unpack", U, Handled("trisc0"))
        /\ U = P + Len(dest) /\ U \in Nat /\ P \in Nat /\ (pc["trisc0"] = "idle" => uq = <<>>)
    BY <1>2, <1>5 DEF EngineInv
  <2>2. Stream(pq \o [j \in 1 .. Program.batch |-> [op |-> "pack", arg |-> wr["out"] + j - 1]],
               "pack", P, Handled("trisc2") + Program.batch)
    <3>1. PICK h \in Nat, b \in Nat \ {0}, r \in Nat :
            h = Handled("trisc2") /\ b = Program.batch /\ r = wr["out"]
      BY <1>5, <1>13
    <3>2. Stream(pq, "pack", P, h) /\ \A j \in 0 .. b - 1 : (h + j) % Pages = r + j
      BY <1>13, <2>1, <3>1
    <3>3. Stream(pq \o [j \in 1 .. b |-> [op |-> "pack", arg |-> r + j - 1]], "pack", P, h + b)
      BY <3>2, StreamBatch
    <3>. QED  BY <3>1, <3>3
  <2>3. Stream(pq', "pack", P, Handled("trisc2") + Program.batch)
    BY <1>1, <1>14, <2>2, StreamStore
  <2>4. Stream(pq', "pack", P, Handled("trisc2")')
    BY <1>10, <2>3
  <2>5. Stream(uq', "unpack", U, Handled("trisc0")')
    BY <1>1, <1>11, <2>1 DEF Processors, Slaves
  <2>. QED  BY <1>1, <1>5, <2>1, <2>4, <2>5 DEF EngineInv
<1>. QED  BY <1>5, <1>6, <1>10, <1>11, <1>12, <1>15, <1>16, <1>17 DEF CoreInv

LEMMA DrainCore ==
  ASSUME NEW U, NEW P, CoreInv(U, P), Drain
  PROVE  /\ CoreInv(U, P)' /\ Engaged /\ Engaged' /\ Program' = Program
         /\ \A p \in Processors : Handled(p)' = Handled(p)
         /\ Len(out') = Len(out) + Program.batch
         /\ \A i \in 1 .. Len(out) : out'[i] = out[i]
         /\ \A j \in 1 .. Program.batch : out'[Len(out) + j] = mem[Last][rd[Last] + j - 1]
<1>1. /\ pc["brisc"] = "run" /\ left["brisc"] > 0
      /\ out' = out \o [j \in 1 .. Program.batch |-> mem[Last][rd[Last] + j - 1]]
      /\ pc' = [pc EXCEPT !["brisc"] = "pop"]
      /\ UNCHANGED <<load, n, go, slaveSync, received, acked, wr, rd, packed, unpacked, left, mem,
                     uq, pq, dest>>
  BY DEF Drain, engine, regs, local
<1>2. CtlInv /\ LeftInv /\ PtrInv /\ RegInv /\ EngineInv(U, P)
  BY DEF CoreInv
<1>3. /\ pc \in [Processors -> {"init", "poll", "setup", "idle", "run", "push", "pop"}]
      /\ pc'["brisc"] = "pop" /\ \A p \in Processors \ {"brisc"} : pc'[p] = pc[p]
      /\ "brisc" \in Processors
  BY <1>1, <1>2 DEF CtlInv, Processors, Slaves
<1>4. Busy("brisc") /\ \A p \in Processors : Busy(p)' <=> Busy(p)
  BY <1>1, <1>3 DEF Busy
<1>5. Engaged /\ Engaged' /\ n # 0 /\ Program' = Program /\ Last' = Last /\ Program.batch \in Nat \ {0}
  <2>1. Engaged /\ n # 0 /\ Program.batch \in Nat \ {0}
    BY <1>2, <1>3, <1>4, BusyEngaged
  <2>. QED  BY <1>1, <1>3, <2>1 DEF Engaged, Program, Last, Processors
<1>6. CtlInv'
  BY <1>1, <1>2, <1>3, <1>5 DEF CtlInv, Processors, Slaves
<1>7. \A p \in Processors : Handled(p)' = Handled(p)
  BY <1>1, <1>3, <1>5 DEF Handled, Processors, Slaves
<1>8. LeftInv'
  BY <1>1, <1>2, <1>3, <1>4, <1>5 DEF LeftInv, Processors, Slaves
<1>9. PtrInv'
  BY <1>1, <1>2, <1>4, <1>5, <1>7 DEF PtrInv, Processors, Slaves
<1>10. /\ out' \in Seq(Cells) /\ Len(out') = Len(out) + Program.batch
       /\ \A i \in 1 .. Len(out) : out'[i] = out[i]
       /\ \A j \in 1 .. Program.batch : out'[Len(out) + j] = mem[Last][rd[Last] + j - 1]
  <2>1. /\ mem[Last] \in [0 .. Pages - 1 -> Cells] /\ rd[Last] \in 0 .. Pages - 1 /\ out \in Seq(Cells)
    BY <1>2 DEF RegInv, PtrInv, Last, CBs
  <2>2. rd[Last] + Program.batch <= Pages
    BY <1>2, <1>3, <1>4, <1>5, PointerStep DEF PtrInv
  <2>. DEFINE F == [j \in 1 .. Program.batch |-> mem[Last][rd[Last] + j - 1]]
  <2>3. ASSUME NEW j \in 1 .. Program.batch PROVE mem[Last][rd[Last] + j - 1] \in Cells
    <3>1. PICK r \in Nat, b \in Nat, g \in Nat : r = rd[Last] /\ b = Program.batch /\ g = Pages
      BY <1>5, <2>1, Constants
    <3>2. j \in 1 .. b /\ r + b <= g
      BY <2>2, <3>1
    <3>3. r + j - 1 \in 0 .. g - 1
      BY <3>2
    <3>. QED  BY <2>1, <3>1, <3>3
  <2>4. F \in [1 .. Program.batch -> Cells]
    BY <2>3
  <2>6. \A j \in 1 .. Program.batch : F[j] = mem[Last][rd[Last] + j - 1]
    OBVIOUS
  <2>7. out' = out \o F
    BY <1>1
  <2>. HIDE DEF F
  <2>5. F \in Seq(Cells) /\ Len(F) = Program.batch
    <3>1. PICK b \in Nat : b = Program.batch
      BY <1>5
    <3>2. F \in [1 .. b -> Cells]
      BY <2>4, <3>1
    <3>3. F \in Seq(Cells) /\ Len(F) = b
      BY <3>2
    <3>. QED  BY <3>1, <3>3
  <2>. QED  BY <2>1, <2>5, <2>6, <2>7, Concat
<1>11. RegInv'
  BY <1>1, <1>2, <1>10 DEF RegInv
<1>12. EngineInv(U, P)'
  BY <1>1, <1>2, <1>3, <1>5, <1>7 DEF EngineInv, Slaves, Processors
<1>. QED  BY <1>5, <1>6, <1>7, <1>8, <1>9, <1>10, <1>11, <1>12 DEF CoreInv

LEMMA PopCore ==
  ASSUME NEW U, NEW P, CoreInv(U, P), PopFront
  PROVE  /\ CoreInv(U, P)' /\ Engaged /\ Engaged' /\ Program' = Program
         /\ Handled("brisc")' = Handled("brisc") + Program.batch
         /\ \A p \in Processors \ {"brisc"} : Handled(p)' = Handled(p)
<1>1. /\ pc["brisc"] = "pop"
      /\ acked' = [acked EXCEPT ![Last] = (@ + Program.batch) % W32]
      /\ rd' = [rd EXCEPT ![Last] = Moved(@, Program.batch)]
      /\ left' = [left EXCEPT !["brisc"] = @ - Program.batch]
      /\ pc' = [pc EXCEPT !["brisc"] = "run"]
      /\ UNCHANGED <<load, n, go, slaveSync, received, wr, packed, unpacked, mem, uq, pq, dest, out>>
  BY DEF PopFront, engine
<1>2. CtlInv /\ LeftInv /\ PtrInv /\ RegInv /\ EngineInv(U, P)
  BY DEF CoreInv
<1>3. /\ pc \in [Processors -> {"init", "poll", "setup", "idle", "run", "push", "pop"}]
      /\ pc'["brisc"] = "run" /\ \A p \in Processors \ {"brisc"} : pc'[p] = pc[p]
      /\ "brisc" \in Processors
  BY <1>1, <1>2 DEF CtlInv, Processors, Slaves
<1>4. Busy("brisc") /\ \A p \in Processors : Busy(p)' <=> Busy(p)
  BY <1>1, <1>3 DEF Busy
<1>5. /\ Engaged /\ Engaged' /\ n # 0 /\ Program' = Program /\ Last' = Last
      /\ Program.batch \in Nat \ {0} /\ Last \in CBs
  <2>1. Engaged /\ n # 0 /\ Program.batch \in Nat \ {0}
    BY <1>2, <1>3, <1>4, BusyEngaged
  <2>. QED  BY <1>1, <1>3, <2>1 DEF Engaged, Program, Last, Processors, CBs
<1>6. CtlInv'
  BY <1>1, <1>2, <1>3, <1>5 DEF CtlInv, Processors, Slaves
<1>7. left["brisc"] > 0
  BY <1>1, <1>2 DEF LeftInv
<1>8. /\ left["brisc"] - Program.batch \in Nat
      /\ Cong(left["brisc"] - Program.batch, 0, Program.batch)
      /\ left["brisc"] - Program.batch <= Program.tiles
      /\ Program.tiles - (left["brisc"] - Program.batch) = Handled("brisc") + Program.batch
  BY <1>2, <1>3, <1>4, <1>5, <1>7, OneMore
<1>9. /\ left \in [Processors -> Nat] /\ left' \in [Processors -> Nat]
      /\ left'["brisc"] = left["brisc"] - Program.batch
      /\ \A p \in Processors \ {"brisc"} : left'[p] = left[p]
  BY <1>1, <1>2, <1>3, <1>8 DEF LeftInv
<1>10. Handled("brisc")' = Handled("brisc") + Program.batch
  <2>1. Handled("brisc")' = Program.tiles - left'["brisc"]
    BY <1>3, <1>5 DEF Handled
  <2>. QED  BY <1>8, <1>9, <2>1
<1>11. \A p \in Processors \ {"brisc"} : Handled(p)' = Handled(p)
  BY <1>1, <1>3, <1>5, <1>9 DEF Handled, Processors, Slaves
<1>12. LeftInv'
  BY <1>2, <1>3, <1>4, <1>5, <1>8, <1>9 DEF LeftInv, Processors, Slaves
<1>13. PtrInv'
  <2>1. /\ rd[Last] = Handled("brisc") % Pages
        /\ wr \in [CBs -> 0 .. Pages - 1] /\ rd \in [CBs -> 0 .. Pages - 1]
        /\ packed \in 0 .. W16 - 1 /\ unpacked \in 0 .. W16 - 1
    BY <1>2, <1>4 DEF PtrInv
  <2>2. /\ Moved(rd[Last], Program.batch) = (Handled("brisc") + Program.batch) % Pages
        /\ Moved(rd[Last], Program.batch) \in 0 .. Pages - 1
    BY <1>2, <1>3, <1>5, <2>1, PointerStep
  <2>3. /\ rd' \in [CBs -> 0 .. Pages - 1] /\ \A c \in CBs \ {Last} : rd'[c] = rd[c]
        /\ rd'[Last] = (Handled("brisc") + Program.batch) % Pages
    BY <1>1, <1>5, <2>1, <2>2
  <2>4. Busy("trisc0") => Last = "out"
    BY <1>2, BusyEngaged DEF Last, Processors, Slaves
  <2>5. Busy("trisc0") => rd'["in"] = rd["in"]
    BY <2>3, <2>4 DEF CBs
  <2>. QED  BY <1>1, <1>2, <1>4, <1>5, <1>10, <1>11, <2>1, <2>3, <2>5 DEF PtrInv, Processors, Slaves
<1>14. RegInv'
  <2>1. acked \in [CBs -> 0 .. W32 - 1] /\ acked[Last] \in Nat
    BY <1>2, <1>5, Constants DEF RegInv
  <2>2. (acked[Last] + Program.batch) % W32 \in 0 .. W32 - 1
    <3>1. acked[Last] + Program.batch \in Nat
      BY <1>5, <2>1
    <3>. QED  BY <3>1, Constants, DivMod
  <2>3. acked' \in [CBs -> 0 .. W32 - 1]
    BY <1>1, <1>5, <2>1, <2>2
  <2>. QED  BY <1>1, <1>2, <2>3 DEF RegInv
<1>15. EngineInv(U, P)'
  BY <1>1, <1>2, <1>3, <1>5, <1>11 DEF EngineInv, Slaves, Processors
<1>. QED  BY <1>5, <1>6, <1>10, <1>11, <1>12, <1>13, <1>14, <1>15 DEF CoreInv

-----------------------------------------------------------------------------
(***************************************************************************)
(* So does the engine.  A step of the unpacker unpacks the next tile or    *)
(* stores how many were unpacked.                                          *)
(***************************************************************************)
LEMMA UnpackerCore ==
  ASSUME NEW U, NEW P, CoreInv(U, P), UnpackerStep
  PROVE  /\ Engaged /\ Engaged' /\ Program' = Program /\ Program.compute
         /\ \A p \in Processors : Handled(p)' = Handled(p)
         /\ \/ /\ CoreInv(U + 1, P)' /\ U < Handled("trisc0")
               /\ acked' = acked /\ dest' = Append(dest, mem["in"][U % Pages])
            \/ /\ CoreInv(U, P)' /\ dest' = dest
               /\ acked' = [acked EXCEPT !["in"] = U % W16]
<1>1. /\ uq # <<>> /\ uq' = Tail(uq)
      /\ UNCHANGED <<load, n, go, slaveSync, pc, received, wr, rd, packed, unpacked, left, mem, pq, out>>
      /\ \/ /\ Head(uq).op = "unpack" /\ Len(dest) < DestTiles
            /\ dest' = Append(dest, mem["in"][Head(uq).arg]) /\ acked' = acked
         \/ /\ Head(uq).op = "store"
            /\ acked' = [acked EXCEPT !["in"] = Head(uq).arg] /\ dest' = dest
  BY DEF UnpackerStep, local
<1>2. CtlInv /\ LeftInv /\ PtrInv /\ RegInv /\ EngineInv(U, P)
  BY DEF CoreInv
<1>3. /\ Engaged /\ Program.compute /\ pc["trisc0"] # "idle"
      /\ Stream(uq, "unpack", U, Handled("trisc0")) /\ Stream(pq, "pack", P, Handled("trisc2"))
      /\ U = P + Len(dest) /\ U \in Nat /\ P \in Nat /\ (pc["trisc2"] = "idle" => pq = <<>>)
  BY <1>1, <1>2 DEF EngineInv
<1>4. Engaged' /\ Program' = Program /\ Last' = Last /\ \A p \in Processors : Handled(p)' = Handled(p)
  BY <1>1, <1>3 DEF Engaged, Program, Last, Handled
<1>5. \A p \in Processors : Busy(p)' <=> Busy(p)
  BY <1>1 DEF Busy
<1>6. CtlInv' /\ LeftInv' /\ PtrInv'
  <2>1. CtlInv'
    BY <1>1, <1>2, <1>3, <1>4 DEF CtlInv
  <2>2. LeftInv'
    BY <1>1, <1>2, <1>4, <1>5 DEF LeftInv
  <2>3. PtrInv'
    BY <1>1, <1>2, <1>4, <1>5 DEF PtrInv, Processors, Slaves
  <2>. QED  BY <2>1, <2>2, <2>3
<1>7. \/ /\ Head(uq).op = "unpack" /\ Head(uq).arg = U % Pages
         /\ U < Handled("trisc0") /\ Stream(Tail(uq), "unpack", U + 1, Handled("trisc0"))
      \/ /\ Head(uq).op = "store" /\ Head(uq).arg = U % W16
         /\ Stream(Tail(uq), "unpack", U, Handled("trisc0"))
  BY <1>1, <1>3, StreamNext
<1>8. dest \in Seq(Cells) /\ Len(dest) \in Nat /\ Len(dest) <= DestTiles /\ acked \in [CBs -> 0 .. W32 - 1]
  BY <1>2 DEF RegInv
<1>9. CASE Head(uq).op = "unpack"
  <2>1. /\ Len(dest) < DestTiles /\ acked' = acked /\ dest' = Append(dest, mem["in"][U % Pages])
        /\ U < Handled("trisc0") /\ Stream(uq', "unpack", U + 1, Handled("trisc0"))
    BY <1>1, <1>7, <1>9
  <2>2. U % Pages \in 0 .. Pages - 1
    BY <1>3, Constants, DivMod
  <2>3. mem["in"][U % Pages] \in Cells
    BY <1>2, <2>2 DEF RegInv, CBs
  <2>4. dest' \in Seq(Cells) /\ Len(dest') = Len(dest) + 1
    BY <1>8, <2>1, <2>3
  <2>5. Len(dest') <= DestTiles
    BY <1>8, <2>1, <2>4, Constants
  <2>6. RegInv'
    BY <1>1, <1>2, <2>1, <2>4, <2>5 DEF RegInv
  <2>7. U + 1 = P + Len(dest') /\ U + 1 \in Nat
    BY <1>3, <1>8, <2>4
  <2>8. Stream(uq', "unpack", U + 1, Handled("trisc0")') /\ Stream(pq', "pack", P, Handled("trisc2")')
    BY <1>1, <1>3, <1>4, <2>1 DEF Processors, Slaves
  <2>9. EngineInv(U + 1, P)'
    BY <1>1, <1>3, <1>4, <2>7, <2>8 DEF EngineInv
  <2>. QED  BY <1>3, <1>4, <1>6, <2>1, <2>6, <2>9 DEF CoreInv
<1>10. CASE Head(uq).op = "store"
  <2>1. /\ dest' = dest /\ acked' = [acked EXCEPT !["in"] = U % W16]
        /\ Stream(uq', "unpack", U, Handled("trisc0"))
    BY <1>1, <1>7, <1>10
  <2>2. U % W16 \in 0 .. W32 - 1
    <3>1. U % W16 \in 0 .. W16 - 1
      BY <1>3, Constants, DivMod
    <3>. QED  BY <3>1, Constants
  <2>3. acked' \in [CBs -> 0 .. W32 - 1]
    BY <1>8, <2>1, <2>2
  <2>4. RegInv'
    BY <1>1, <1>2, <2>1, <2>3 DEF RegInv
  <2>5. Stream(uq', "unpack", U, Handled("trisc0")') /\ Stream(pq', "pack", P, Handled("trisc2")')
    BY <1>1, <1>3, <1>4, <2>1 DEF Processors, Slaves
  <2>6. EngineInv(U, P)'
    BY <1>1, <1>3, <1>4, <2>1, <2>5 DEF EngineInv
  <2>. QED  BY <1>3, <1>4, <1>6, <2>1, <2>4, <2>6 DEF CoreInv
<1>. QED  BY <1>7, <1>9, <1>10

LEMMA PackerCore ==
  ASSUME NEW U, NEW P, CoreInv(U, P), PackerStep
  PROVE  /\ Engaged /\ Engaged' /\ Program' = Program /\ Program.compute
         /\ \A p \in Processors : Handled(p)' = Handled(p)
         /\ \/ /\ CoreInv(U, P + 1)' /\ P < Handled("trisc2") /\ dest # <<>> /\ dest' = Tail(dest)
               /\ mem' = [mem EXCEPT !["out"][P % Pages] = Head(dest)] /\ received' = received
            \/ /\ CoreInv(U, P)' /\ dest' = dest /\ mem' = mem
               /\ received' = [received EXCEPT !["out"] = P % W16]
<1>1. /\ pq # <<>> /\ pq' = Tail(pq)
      /\ UNCHANGED <<load, n, go, slaveSync, pc, acked, wr, rd, packed, unpacked, left, uq, out>>
      /\ \/ /\ Head(pq).op = "pack" /\ dest # <<>> /\ dest' = Tail(dest)
            /\ mem' = [mem EXCEPT !["out"][Head(pq).arg] = Head(dest)] /\ received' = received
         \/ /\ Head(pq).op = "store"
            /\ received' = [received EXCEPT !["out"] = Head(pq).arg] /\ mem' = mem /\ dest' = dest
  BY DEF PackerStep, local
<1>2. CtlInv /\ LeftInv /\ PtrInv /\ RegInv /\ EngineInv(U, P)
  BY DEF CoreInv
<1>3. /\ Engaged /\ Program.compute /\ pc["trisc2"] # "idle"
      /\ Stream(uq, "unpack", U, Handled("trisc0")) /\ Stream(pq, "pack", P, Handled("trisc2"))
      /\ U = P + Len(dest) /\ U \in Nat /\ P \in Nat /\ (pc["trisc0"] = "idle" => uq = <<>>)
  BY <1>1, <1>2 DEF EngineInv
<1>4. Engaged' /\ Program' = Program /\ Last' = Last /\ \A p \in Processors : Handled(p)' = Handled(p)
  BY <1>1, <1>3 DEF Engaged, Program, Last, Handled
<1>5. \A p \in Processors : Busy(p)' <=> Busy(p)
  BY <1>1 DEF Busy
<1>6. CtlInv' /\ LeftInv' /\ PtrInv'
  <2>1. CtlInv'
    BY <1>1, <1>2, <1>3, <1>4 DEF CtlInv
  <2>2. LeftInv'
    BY <1>1, <1>2, <1>4, <1>5 DEF LeftInv
  <2>3. PtrInv'
    BY <1>1, <1>2, <1>4, <1>5 DEF PtrInv, Processors, Slaves
  <2>. QED  BY <2>1, <2>2, <2>3
<1>7. \/ /\ Head(pq).op = "pack" /\ Head(pq).arg = P % Pages
         /\ P < Handled("trisc2") /\ Stream(Tail(pq), "pack", P + 1, Handled("trisc2"))
      \/ /\ Head(pq).op = "store" /\ Head(pq).arg = P % W16
         /\ Stream(Tail(pq), "pack", P, Handled("trisc2"))
  BY <1>1, <1>3, StreamNext
<1>8. /\ dest \in Seq(Cells) /\ Len(dest) \in Nat /\ Len(dest) <= DestTiles
      /\ received \in [CBs -> 0 .. W32 - 1] /\ mem \in [CBs -> [0 .. Pages - 1 -> Cells]]
  BY <1>2 DEF RegInv
<1>9. CASE Head(pq).op = "pack"
  <2>1. /\ dest # <<>> /\ dest' = Tail(dest) /\ received' = received
        /\ mem' = [mem EXCEPT !["out"][P % Pages] = Head(dest)]
        /\ P < Handled("trisc2") /\ Stream(pq', "pack", P + 1, Handled("trisc2"))
    BY <1>1, <1>7, <1>9
  <2>2. Head(dest) \in Cells /\ dest' \in Seq(Cells) /\ Len(dest') = Len(dest) - 1 /\ Len(dest') \in Nat
    BY <1>8, <2>1
  <2>3. mem' \in [CBs -> [0 .. Pages - 1 -> Cells]]
    BY <1>8, <2>1, <2>2
  <2>4. Len(dest') <= DestTiles
    BY <1>8, <2>2, Constants
  <2>5. RegInv'
    BY <1>1, <1>2, <2>1, <2>2, <2>3, <2>4 DEF RegInv
  <2>6. U = (P + 1) + Len(dest') /\ P + 1 \in Nat
    BY <1>3, <1>8, <2>2
  <2>7. Stream(uq', "unpack", U, Handled("trisc0")') /\ Stream(pq', "pack", P + 1, Handled("trisc2")')
    BY <1>1, <1>3, <1>4, <2>1 DEF Processors, Slaves
  <2>8. EngineInv(U, P + 1)'
    BY <1>1, <1>3, <1>4, <2>6, <2>7 DEF EngineInv
  <2>. QED  BY <1>3, <1>4, <1>6, <2>1, <2>5, <2>8 DEF CoreInv
<1>10. CASE Head(pq).op = "store"
  <2>1. /\ dest' = dest /\ mem' = mem /\ received' = [received EXCEPT !["out"] = P % W16]
        /\ Stream(pq', "pack", P, Handled("trisc2"))
    BY <1>1, <1>7, <1>10
  <2>2. P % W16 \in 0 .. W32 - 1
    <3>1. P % W16 \in 0 .. W16 - 1
      BY <1>3, Constants, DivMod
    <3>. QED  BY <3>1, Constants
  <2>3. received' \in [CBs -> 0 .. W32 - 1]
    BY <1>8, <2>1, <2>2
  <2>4. RegInv'
    BY <1>1, <1>2, <2>1, <2>3 DEF RegInv
  <2>5. Stream(uq', "unpack", U, Handled("trisc0")') /\ Stream(pq', "pack", P, Handled("trisc2")')
    BY <1>1, <1>3, <1>4, <2>1 DEF Processors, Slaves
  <2>6. EngineInv(U, P)'
    BY <1>1, <1>3, <1>4, <2>1, <2>5 DEF EngineInv
  <2>. QED  BY <1>3, <1>4, <1>6, <2>1, <2>4, <2>6 DEF CoreInv
<1>. QED  BY <1>7, <1>9, <1>10

LEMMA StutterCore ==
  ASSUME NEW U, NEW P, CoreInv(U, P), UNCHANGED vars
  PROVE  CoreInv(U, P)'
<1>1. UNCHANGED <<load, n, go, slaveSync, pc, received, acked, wr, rd, packed, unpacked, left, mem,
                  uq, pq, dest, out>>
  BY DEF vars, regs, local, engine
<1>2. CtlInv /\ LeftInv /\ PtrInv /\ RegInv /\ EngineInv(U, P)
  BY DEF CoreInv
<1>3. /\ Engaged' <=> Engaged
      /\ Program' = Program /\ Last' = Last
      /\ \A p \in Processors : Handled(p)' = Handled(p) /\ (Busy(p)' <=> Busy(p))
  BY <1>1 DEF Engaged, Program, Last, Handled, Busy
<1>4. CtlInv'
  BY <1>1, <1>2, <1>3 DEF CtlInv
<1>5. LeftInv'
  BY <1>1, <1>2, <1>3 DEF LeftInv
<1>6. PtrInv'
  BY <1>1, <1>2, <1>3 DEF PtrInv, Processors, Slaves
<1>7. RegInv'
  BY <1>1, <1>2 DEF RegInv
<1>8. EngineInv(U, P)'
  BY <1>1, <1>2, <1>3 DEF EngineInv, Processors, Slaves
<1>. QED  BY <1>4, <1>5, <1>6, <1>7, <1>8 DEF CoreInv

-----------------------------------------------------------------------------
(***************************************************************************)
(* Safety of the core itself.                                              *)
(***************************************************************************)
CoreSafe == \E U \in Nat, P \in Nat : CoreInv(U, P)

LEMMA CoreSafeStep == CoreSafe /\ [Next]_vars => CoreSafe'
<1>. SUFFICES ASSUME CoreSafe, [Next]_vars PROVE CoreSafe'
  OBVIOUS
<1>0. PICK U \in Nat, P \in Nat : CoreInv(U, P)
  BY DEF CoreSafe
<1>. SUFFICES \E V \in Nat, Q \in Nat : CoreInv(V, Q)'
  BY DEF CoreSafe
<1>1. CASE Dispatch
  BY <1>0, <1>1, DispatchCore
<1>2. CASE InitSyncRegisters
  BY <1>0, <1>2, InitSyncCore
<1>3. CASE RunTriscs
  <2>1. CoreInv(0, 0)'
    BY <1>0, <1>3, RunTriscsCore
  <2>. QED  BY <2>1
<1>4. CASE SetupAndRunNcrisc
  BY <1>0, <1>4, SetupCore
<1>5. CASE Drain
  BY <1>0, <1>5, DrainCore
<1>6. CASE PopFront
  BY <1>0, <1>6, PopCore
<1>7. CASE WaitNcriscTrisc
  BY <1>0, <1>7, WaitCore
<1>8. ASSUME NEW s \in Slaves, Start(s) PROVE \E V \in Nat, Q \in Nat : CoreInv(V, Q)'
  BY <1>0, <1>8, StartCore
<1>9. ASSUME NEW s \in Slaves, Report(s) PROVE \E V \in Nat, Q \in Nat : CoreInv(V, Q)'
  BY <1>0, <1>9, ReportCore
<1>10. CASE Fill
  BY <1>0, <1>10, FillCore
<1>11. CASE PushBack
  BY <1>0, <1>11, PushCore
<1>12. CASE Unpack
  BY <1>0, <1>12, UnpackCore
<1>13. CASE Pack
  BY <1>0, <1>13, PackCore
<1>14. CASE UnpackerStep
  <2>1. CoreInv(U + 1, P)' \/ CoreInv(U, P)'
    BY <1>0, <1>14, UnpackerCore
  <2>2. U + 1 \in Nat
    OBVIOUS
  <2>. QED  BY <2>1, <2>2
<1>15. CASE PackerStep
  <2>1. CoreInv(U, P + 1)' \/ CoreInv(U, P)'
    BY <1>0, <1>15, PackerCore
  <2>2. P + 1 \in Nat
    OBVIOUS
  <2>. QED  BY <2>1, <2>2
<1>16. CASE UNCHANGED vars
  BY <1>0, <1>16, StutterCore
<1>. QED  BY <1>1, <1>2, <1>3, <1>4, <1>5, <1>6, <1>7, <1>8, <1>9, <1>10, <1>11, <1>12, <1>13,
             <1>14, <1>15, <1>16 DEF Next, Brisc, Slave

\* The invariant of the core: who runs when, what each has handled, and which
\* instructions the engine still has.
THEOREM CoreInvariant == Spec => []CoreSafe
<1>1. Init => CoreSafe
  BY InitCore DEF CoreSafe
<1>. QED  BY <1>1, CoreSafeStep, PTL DEF Spec

\* The counters stay in their registers, the pointers of the circular buffers
\* inside the buffers, and the destination registers never overflow.
THEOREM CoreTypeCorrect == Spec => []TypeOK
<1>1. CoreSafe => TypeOK
  BY DEF CoreSafe, CoreInv, PtrInv, RegInv, TypeOK
<1>. QED  BY <1>1, CoreInvariant, PTL

\* When a core reports DONE its engine has executed every instruction and no
\* other processor is in a kernel: wait_ncrisc_trisc and tensix_sync are enough,
\* for any sequence of programs.
THEOREM QuietTheorem == Spec => []QuietWhenDone
<1>1. CoreSafe => QuietWhenDone
  <2>. SUFFICES ASSUME CoreSafe, go = "DONE"
                PROVE  uq = <<>> /\ pq = <<>> /\ dest = <<>> /\ \A s \in Slaves : pc[s] = "idle"
    BY DEF QuietWhenDone
  <2>1. PICK U \in Nat, P \in Nat : CtlInv /\ EngineInv(U, P)
    BY DEF CoreSafe, CoreInv
  <2>2. ~Engaged
    BY <2>1 DEF CtlInv
  <2>3. \A s \in Slaves : pc[s] = "idle"
    BY <2>1, <2>2, Between DEF Processors
  <2>. QED  BY <2>1, <2>2, <2>3 DEF EngineInv
<1>. QED  BY <1>1, CoreInvariant, PTL

-----------------------------------------------------------------------------
(***************************************************************************)
(* How much BRISC has written.                                             *)
(***************************************************************************)
\* When brisc reports RUN_MSG_DONE its kernel has written every tile of the
\* program; QuietWhenDone says that nothing is left over, not that all was done.
AllWritten == go = "DONE" /\ n # 0 => Len(out) = Program.tiles

WrittenInv ==
  /\ go = "GO" /\ ~Engaged => out = <<>>
  /\ Engaged => Len(out) = Handled("brisc") + Taken
  /\ AllWritten

\* Steps in which BRISC does not go on.
LEMMA WrittenFrame ==
  ASSUME WrittenInv, CtlInv', Engaged, Engaged', out' = out,
         Handled("brisc")' = Handled("brisc"), Taken' = Taken
  PROVE  WrittenInv'
<1>1. go' = "GO"
  BY DEF CtlInv
<1>. QED  BY <1>1 DEF WrittenInv, AllWritten

LEMMA WrittenBegin ==
  ASSUME NEW U, NEW P, CoreInv(U, P), WrittenInv,
         Dispatch \/ InitSyncRegisters \/ RunTriscs
  PROVE  WrittenInv'
<1>1. CASE Dispatch
  <2>1. go' = "GO" /\ ~Engaged' /\ out' = <<>>
    BY <1>1 DEF Dispatch, Engaged
  <2>. QED  BY <2>1 DEF WrittenInv, AllWritten
<1>2. CASE InitSyncRegisters
  <2>1. /\ pc["brisc"] = "init" /\ pc' = [pc EXCEPT !["brisc"] = "poll"]
        /\ UNCHANGED <<load, n, go, out>>
    BY <1>2 DEF InitSyncRegisters
  <2>2. ~Engaged /\ ~Engaged' /\ Program' = Program
    <3>1. pc'["brisc"] = "poll"
      BY <2>1 DEF CoreInv, CtlInv, Processors
    <3>. QED  BY <2>1, <3>1 DEF Engaged, Program
  <2>. QED  BY <2>1, <2>2 DEF WrittenInv, AllWritten
<1>3. CASE RunTriscs
  <2>1. CtlInv' /\ ~Engaged /\ Engaged' /\ go = "GO" /\ Handled("brisc")' = 0
    BY <1>3, RunTriscsCore DEF CoreInv
  <2>2. pc' = [pc EXCEPT !["brisc"] = "setup"] /\ out' = out /\ go' = go
    BY <1>3 DEF RunTriscs
  <2>3. Taken' = 0
    <3>1. pc'["brisc"] = "setup"
      BY <2>2 DEF CoreInv, CtlInv, Processors
    <3>. QED  BY <3>1 DEF Taken
  <2>4. Len(out') = 0
    BY <2>1, <2>2 DEF WrittenInv
  <2>. QED  BY <2>1, <2>2, <2>3, <2>4 DEF WrittenInv, AllWritten
<1>. QED  BY <1>1, <1>2, <1>3

LEMMA WrittenBatch ==
  ASSUME NEW U, NEW P, CoreInv(U, P), WrittenInv, Drain \/ PopFront \/ WaitNcriscTrisc
  PROVE  WrittenInv'
<1>0. CtlInv /\ LeftInv
  BY DEF CoreInv
<1>1. CASE Drain
  <2>1. /\ CtlInv' /\ Engaged /\ Engaged' /\ Program' = Program
        /\ Handled("brisc")' = Handled("brisc") /\ Len(out') = Len(out) + Program.batch
    BY <1>1, DrainCore DEF CoreInv, Processors
  <2>2. pc["brisc"] = "run" /\ pc'["brisc"] = "pop"
    BY <1>0, <1>1 DEF Drain, CtlInv, Processors
  <2>3. Taken = 0 /\ Taken' = Program.batch
    BY <2>1, <2>2 DEF Taken
  <2>4. PICK c \in Nat, b \in Nat : c = Handled("brisc") /\ b = Program.batch
    BY <1>0, <2>1, HandledFacts, EngagedFacts, ProgramFacts DEF Processors
  <2>5. Len(out) = c + 0
    BY <2>1, <2>3, <2>4 DEF WrittenInv
  <2>6. Len(out') = c + b
    BY <2>1, <2>4, <2>5
  <2>7. go' = "GO"
    BY <2>1 DEF CtlInv
  <2>. QED  BY <2>1, <2>3, <2>4, <2>6, <2>7 DEF WrittenInv, AllWritten
<1>2. CASE PopFront
  <2>1. /\ CtlInv' /\ Engaged /\ Engaged' /\ Program' = Program
        /\ Handled("brisc")' = Handled("brisc") + Program.batch
    BY <1>2, PopCore DEF CoreInv
  <2>2. pc["brisc"] = "pop" /\ pc'["brisc"] = "run" /\ out' = out
    BY <1>0, <1>2 DEF PopFront, CtlInv, Processors
  <2>3. Taken = Program.batch /\ Taken' = 0
    BY <2>1, <2>2 DEF Taken
  <2>4. PICK c \in Nat, b \in Nat : c = Handled("brisc") /\ b = Program.batch
    BY <1>0, <2>1, HandledFacts, EngagedFacts, ProgramFacts DEF Processors
  <2>5. Len(out) = c + b
    BY <2>1, <2>3, <2>4 DEF WrittenInv
  <2>6. c + b = (c + b) + 0
    OBVIOUS
  <2>7. go' = "GO"
    BY <2>1 DEF CtlInv
  <2>. QED  BY <2>1, <2>2, <2>3, <2>4, <2>5, <2>6, <2>7 DEF WrittenInv, AllWritten
<1>3. CASE WaitNcriscTrisc
  <2>1. ~Engaged' /\ Engaged /\ go' = "DONE"
    BY <1>3, WaitCore
  <2>2. pc["brisc"] = "run" /\ left["brisc"] = 0 /\ UNCHANGED <<load, n, out>>
    BY <1>3 DEF WaitNcriscTrisc
  <2>3. Taken = 0 /\ Program' = Program
    BY <2>2 DEF Taken, Program
  <2>4. PICK m \in Nat : m = Program.tiles
    BY <1>0, <2>1, EngagedFacts, ProgramFacts
  <2>5. Handled("brisc") = m - 0
    BY <1>0, <2>1, <2>2, <2>4, HandledFacts DEF Busy, Processors
  <2>6. Len(out) = (m - 0) + 0
    BY <2>1, <2>3, <2>5 DEF WrittenInv
  <2>7. Len(out) = m
    BY <2>6
  <2>. QED  BY <2>1, <2>2, <2>3, <2>4, <2>7 DEF WrittenInv, AllWritten
<1>. QED  BY <1>1, <1>2, <1>3

\* BRISC stays where it is.
LEMMA WrittenOthers ==
  ASSUME NEW U, NEW P, CoreInv(U, P), WrittenInv,
         \/ SetupAndRunNcrisc \/ Fill \/ PushBack \/ Unpack \/ Pack
         \/ UnpackerStep \/ PackerStep \/ \E s \in Slaves : Start(s) \/ Report(s)
  PROVE  WrittenInv'
<1>1. /\ CtlInv' /\ Engaged /\ Engaged' /\ Program' = Program
      /\ Handled("brisc")' = Handled("brisc")
  <2>0. "brisc" \in Processors /\ "brisc" \in Processors \ {"ncrisc"}
        /\ "brisc" \in Processors \ {"trisc0"} /\ "brisc" \in Processors \ {"trisc2"}
    BY DEF Processors
  <2>1. CASE SetupAndRunNcrisc
    BY <2>0, <2>1, SetupCore DEF CoreInv
  <2>2. CASE Fill
    BY <2>0, <2>2, FillCore DEF CoreInv
  <2>3. CASE PushBack
    BY <2>0, <2>3, PushCore DEF CoreInv
  <2>4. CASE Unpack
    BY <2>0, <2>4, UnpackCore DEF CoreInv
  <2>5. CASE Pack
    BY <2>0, <2>5, PackCore DEF CoreInv
  <2>6. CASE UnpackerStep
    BY <2>0, <2>6, UnpackerCore DEF CoreInv
  <2>7. CASE PackerStep
    BY <2>0, <2>7, PackerCore DEF CoreInv
  <2>8. CASE \E s \in Slaves : Start(s) \/ Report(s)
    BY <2>0, <2>8, StartCore, ReportCore DEF CoreInv
  <2>. QED  BY <2>1, <2>2, <2>3, <2>4, <2>5, <2>6, <2>7, <2>8
<1>2. out' = out
  BY DEF SetupAndRunNcrisc, Fill, PushBack, Unpack, Pack, UnpackerStep, PackerStep, Start, Report
<1>3. pc'["brisc"] = "pop" <=> pc["brisc"] = "pop"
  <2>1. pc \in [Processors -> {"init", "poll", "setup", "idle", "run", "push", "pop"}]
    BY DEF CoreInv, CtlInv
  <2>2. CASE SetupAndRunNcrisc
    BY <2>1, <2>2 DEF SetupAndRunNcrisc, Processors
  <2>3. CASE Fill \/ PushBack
    BY <2>1, <2>3 DEF Fill, PushBack, Processors
  <2>4. CASE Unpack \/ Pack \/ UnpackerStep \/ PackerStep
    BY <2>4 DEF Unpack, Pack, UnpackerStep, PackerStep
  <2>5. ASSUME NEW s \in Slaves, Start(s) \/ Report(s)
        PROVE  pc'["brisc"] = "pop" <=> pc["brisc"] = "pop"
    BY <2>1, <2>5 DEF Start, Report, Processors, Slaves
  <2>. QED  BY <2>2, <2>3, <2>4, <2>5
<1>4. Taken' = Taken
  BY <1>1, <1>3 DEF Taken
<1>. QED  BY <1>1, <1>2, <1>4, WrittenFrame

\* A core that reports DONE has written as many tiles as its program has: none
\* is missing and none was written twice (with DataIntact: these tiles).
THEOREM AllWrittenTheorem == Spec => []AllWritten
<1>1. Init => WrittenInv
  BY DEF Init, WrittenInv, AllWritten, Engaged
<1>2. CoreSafe /\ WrittenInv /\ [Next]_vars => WrittenInv'
  <2>. SUFFICES ASSUME CoreSafe, WrittenInv, [Next]_vars PROVE WrittenInv'
    OBVIOUS
  <2>0. PICK U \in Nat, P \in Nat : CoreInv(U, P)
    BY DEF CoreSafe
  <2>1. CASE Dispatch \/ InitSyncRegisters \/ RunTriscs
    BY <2>0, <2>1, WrittenBegin
  <2>2. CASE Drain \/ PopFront \/ WaitNcriscTrisc
    BY <2>0, <2>2, WrittenBatch
  <2>3. CASE \/ SetupAndRunNcrisc \/ Fill \/ PushBack \/ Unpack \/ Pack
             \/ UnpackerStep \/ PackerStep \/ \E s \in Slaves : Start(s) \/ Report(s)
    BY <2>0, <2>3, WrittenOthers
  <2>4. CASE UNCHANGED vars
    BY <2>4 DEF vars, WrittenInv, AllWritten, Engaged, Program, Handled, Taken
  <2>. QED  BY <2>1, <2>2, <2>3, <2>4 DEF Next, Brisc, Slave
<1>3. WrittenInv => AllWritten
  BY DEF WrittenInv
<1>. QED  BY <1>1, <1>2, <1>3, CoreInvariant, PTL DEF Spec

-----------------------------------------------------------------------------
(***************************************************************************)
(* The data.  The packer of Wormhole and Blackhole compares its own count, *)
(* which has 16 bits, in 32: there programs with compute kernels must stay *)
(* below 2^16 tiles.                                                       *)
(***************************************************************************)
ShortOrNarrow ==
  \A d \in Loads : d.wide =>
    \A k \in 1 .. Len(d.programs) : d.programs[k].compute => d.programs[k].tiles < W16

\* The counts of a program that runs, as numbers.
LEMMA Numbers ==
  ASSUME NEW U, NEW P, CoreInv(U, P), Engaged
  PROVE  /\ U \in Nat /\ P \in Nat
         /\ Handled("brisc") \in Nat /\ Handled("ncrisc") \in Nat
         /\ Handled("trisc0") \in Nat /\ Handled("trisc2") \in Nat
         /\ Program.batch \in Nat \ {0} /\ Program.tiles \in Nat /\ Program.compute \in BOOLEAN
         /\ Ahead \in Nat /\ Taken \in Nat /\ Last \in CBs
         /\ received["in"] \in Nat /\ received["out"] \in Nat
         /\ acked["in"] \in Nat /\ acked["out"] \in Nat
         /\ Program.compute => U <= Handled("trisc0") /\ P <= Handled("trisc2")
<1>1. CtlInv /\ LeftInv /\ RegInv /\ EngineInv(U, P)
  BY DEF CoreInv
<1>2. /\ Handled("brisc") \in Nat /\ Handled("ncrisc") \in Nat
      /\ Handled("trisc0") \in Nat /\ Handled("trisc2") \in Nat
  BY <1>1, HandledFacts DEF Processors, Slaves
<1>3. Program.batch \in Nat \ {0} /\ Program.tiles \in Nat /\ Program.compute \in BOOLEAN
  BY <1>1, EngagedFacts, ProgramFacts
<1>4. Ahead \in Nat /\ Taken \in Nat /\ Last \in CBs
  BY <1>3 DEF Ahead, Taken, Last, CBs
<1>5. /\ received["in"] \in 0 .. W32 - 1 /\ received["out"] \in 0 .. W32 - 1
      /\ acked["in"] \in 0 .. W32 - 1 /\ acked["out"] \in 0 .. W32 - 1
  BY <1>1 DEF RegInv, CBs
<1>6. U \in Nat /\ P \in Nat
  BY <1>1 DEF EngineInv
<1>7. Program.compute => U <= Handled("trisc0") /\ P <= Handled("trisc2")
  BY <1>1, StreamBounds DEF EngineInv
<1>. QED  BY <1>2, <1>3, <1>4, <1>5, <1>6, <1>7, Constants

\* Steps that move no tile.
LEMMA FlowFrame ==
  ASSUME NEW U, NEW P, NEW A, NEW R, DataInv(U, P, A, R), Engaged, Engaged',
         Program' = Program, UNCHANGED <<n, received, acked, mem, dest, out>>,
         Ahead' = Ahead, Taken' = Taken, \A p \in Processors : Handled(p)' = Handled(p)
  PROVE  DataInv(U, P, A, R)'
<1>1. Flow(U, P, A, R) /\ DataIntact
  BY DEF DataInv
<1>2. /\ Handled("brisc")' = Handled("brisc") /\ Handled("ncrisc")' = Handled("ncrisc")
      /\ Handled("trisc0")' = Handled("trisc0") /\ Handled("trisc2")' = Handled("trisc2")
  BY DEF Processors, Slaves
<1>3. InRing(A)' <=> InRing(A)
  BY <1>2 DEF InRing
<1>4. OutRing(P, R)' <=> OutRing(P, R)
  BY <1>2 DEF OutRing
<1>5. Flow(U, P, A, R)'
  BY <1>1, <1>2, <1>3, <1>4 DEF Flow
<1>6. DataIntact'
  BY <1>1 DEF DataIntact
<1>7. pc'["brisc"] # "poll"
  BY DEF Engaged
<1>. QED  BY <1>5, <1>6, <1>7 DEF DataInv

\* Steps that leave what was written alone and of which the flow is known.
LEMMA FlowStep ==
  ASSUME NEW V, NEW Q, NEW B, NEW S, NEW U, NEW P, NEW A, NEW R, DataInv(U, P, A, R),
         Engaged', UNCHANGED <<n, out>>, Flow(V, Q, B, S)'
  PROVE  DataInv(V, Q, B, S)'
<1>1. DataIntact'
  BY DEF DataInv, DataIntact
<1>2. pc'["brisc"] # "poll"
  BY DEF Engaged
<1>. QED  BY <1>1, <1>2 DEF DataInv

-----------------------------------------------------------------------------
LEMMA InitData == Init => DataInv(0, 0, 0, 0)
<1>. SUFFICES ASSUME Init PROVE DataInv(0, 0, 0, 0)
  OBVIOUS
<1>1. ~Engaged /\ pc["brisc"] # "poll" /\ go = "DONE" /\ out = <<>>
  BY DEF Init, Engaged
<1>2. DataIntact
  BY <1>1 DEF DataIntact
<1>. QED  BY <1>1, <1>2 DEF DataInv

LEMMA DispatchData ==
  ASSUME NEW U, NEW P, NEW A, NEW R, CoreInv(U, P), DataInv(U, P, A, R), Dispatch
  PROVE  DataInv(U, P, A, R)'
<1>1. ~Engaged' /\ out' = <<>> /\ pc' = pc /\ received' = received /\ acked' = acked
  BY DEF Dispatch, Engaged, regs
<1>2. DataIntact'
  BY <1>1 DEF DataIntact
<1>. QED  BY <1>1, <1>2 DEF DataInv

LEMMA InitSyncData ==
  ASSUME NEW U, NEW P, NEW A, NEW R, CoreInv(U, P), DataInv(U, P, A, R), InitSyncRegisters
  PROVE  DataInv(U, P, A, R)'
<1>1. /\ pc["brisc"] = "init" /\ out' = out /\ go' = go /\ n' = n /\ received' = All /\ acked' = All
      /\ pc' = [pc EXCEPT !["brisc"] = "poll"]
  BY DEF InitSyncRegisters
<1>2. ~Engaged /\ ~Engaged'
  <2>1. pc'["brisc"] = "poll"
    BY <1>1 DEF CoreInv, CtlInv, Processors
  <2>. QED  BY <1>1, <2>1 DEF Engaged
<1>3. DataIntact'
  BY <1>1 DEF DataInv, DataIntact
<1>. QED  BY <1>1, <1>2, <1>3 DEF DataInv, All

\* The buffers are empty when a program begins.
LEMMA RunTriscsData ==
  ASSUME NEW U, NEW P, NEW A, NEW R, CoreInv(U, P), DataInv(U, P, A, R), RunTriscs
  PROVE  DataInv(0, 0, 0, 0)'
<1>1. /\ pc["brisc"] = "poll" /\ go = "GO" /\ pc' = [pc EXCEPT !["brisc"] = "setup"]
      /\ UNCHANGED <<n, received, acked, mem, dest, out>>
  BY DEF RunTriscs, regs, engine
<1>2. /\ ~Engaged /\ Engaged' /\ Program' = Program
      /\ Handled("brisc")' = 0 /\ Handled("ncrisc")' = 0
      /\ Program.compute => Handled("trisc0")' = 0 /\ Handled("trisc2")' = 0
  BY RunTriscsCore
<1>3. received = All /\ acked = All /\ out = <<>>
  BY <1>1, <1>2 DEF DataInv
<1>4. dest = <<>>
  BY <1>2 DEF CoreInv, EngineInv
<1>5. Ahead' = 0 /\ Taken' = 0
  <2>1. pc["ncrisc"] = "idle"
    BY <1>2, Between DEF CoreInv, Slaves, Processors
  <2>2. pc'["ncrisc"] = "idle" /\ pc'["brisc"] = "setup"
    BY <1>1, <2>1 DEF CoreInv, CtlInv, Processors, Slaves
  <2>. QED  BY <2>2 DEF Ahead, Taken
<1>6. /\ Cong(0, 0, W16)
      /\ received'["in"] = 0 /\ received'["out"] = 0 /\ acked'["in"] = 0 /\ acked'["out"] = 0
  <2>1. Cong(0, 0, W16)
    BY Constants, CongSelf
  <2>. QED  BY <1>1, <1>3, <2>1 DEF All, CBs
<1>7. InRing(0)'
  BY <1>2, <1>5, <1>6, Constants DEF InRing
<1>8. Program.compute => OutRing(0, 0)'
  <2>1. Len(dest') = 0
    BY <1>1, <1>4
  <2>. QED  BY <1>2, <1>6, <2>1, Constants DEF OutRing
<1>9. Len(out') = 0
  BY <1>1, <1>3
<1>10. Flow(0, 0, 0, 0)'
  BY <1>2, <1>5, <1>7, <1>8, <1>9 DEF Flow
<1>. QED  BY <1>1, <1>2, <1>10, FlowStep

LEMMA SetupData ==
  ASSUME NEW U, NEW P, NEW A, NEW R, CoreInv(U, P), DataInv(U, P, A, R), SetupAndRunNcrisc
  PROVE  DataInv(U, P, A, R)'
<1>1. /\ pc["brisc"] = "setup" /\ pc' = [pc EXCEPT !["brisc"] = "run"]
      /\ UNCHANGED <<n, received, acked, mem, dest, out>>
  BY DEF SetupAndRunNcrisc, regs, engine
<1>2. Engaged /\ Engaged' /\ Program' = Program /\ \A p \in Processors : Handled(p)' = Handled(p)
  BY SetupCore
<1>3. Ahead' = Ahead /\ Taken' = Taken
  BY <1>1, <1>2 DEF Ahead, Taken, CoreInv, CtlInv, Processors, Slaves
<1>. QED  BY <1>1, <1>2, <1>3, FlowFrame

LEMMA WaitData ==
  ASSUME NEW U, NEW P, NEW A, NEW R, CoreInv(U, P), DataInv(U, P, A, R), WaitNcriscTrisc
  PROVE  DataInv(U, P, A, R)'
<1>1. ~Engaged' /\ pc'["brisc"] = "init" /\ go' = "DONE"
  BY WaitCore
<1>2. DataIntact'
  BY DEF WaitNcriscTrisc, DataInv, DataIntact
<1>. QED  BY <1>1, <1>2 DEF DataInv

LEMMA StartData ==
  ASSUME NEW U, NEW P, NEW A, NEW R, CoreInv(U, P), DataInv(U, P, A, R), NEW s \in Slaves, Start(s)
  PROVE  DataInv(U, P, A, R)'
<1>1. /\ pc[s] = "idle" /\ pc' = [pc EXCEPT ![s] = "run"]
      /\ UNCHANGED <<n, received, acked, mem, dest, out>>
  BY DEF Start, regs, engine
<1>2. Engaged /\ Engaged' /\ Program' = Program /\ \A p \in Processors : Handled(p)' = Handled(p)
  BY StartCore
<1>3. Ahead' = Ahead /\ Taken' = Taken
  BY <1>1, <1>2 DEF Ahead, Taken, CoreInv, CtlInv, Processors, Slaves
<1>. QED  BY <1>1, <1>2, <1>3, FlowFrame

LEMMA ReportData ==
  ASSUME NEW U, NEW P, NEW A, NEW R, CoreInv(U, P), DataInv(U, P, A, R), NEW s \in Slaves, Report(s)
  PROVE  DataInv(U, P, A, R)'
<1>1. /\ pc[s] = "run" /\ pc' = [pc EXCEPT ![s] = "idle"]
      /\ UNCHANGED <<n, received, acked, mem, dest, out>>
  BY DEF Report, regs, engine
<1>2. Engaged /\ Engaged' /\ Program' = Program /\ \A p \in Processors : Handled(p)' = Handled(p)
  BY ReportCore
<1>3. Ahead' = Ahead /\ Taken' = Taken
  BY <1>1, <1>2 DEF Ahead, Taken, CoreInv, CtlInv, Processors, Slaves
<1>. QED  BY <1>1, <1>2, <1>3, FlowFrame

LEMMA StutterData ==
  ASSUME NEW U, NEW P, NEW A, NEW R, DataInv(U, P, A, R), UNCHANGED vars
  PROVE  DataInv(U, P, A, R)'
<1>1. UNCHANGED <<load, n, go, slaveSync, pc, received, acked, left, mem, dest, out>>
  BY DEF vars, regs, engine
<1>2. /\ Engaged' <=> Engaged
      /\ Program' = Program /\ Ahead' = Ahead /\ Taken' = Taken
      /\ \A p \in Processors : Handled(p)' = Handled(p)
  BY <1>1 DEF Engaged, Program, Ahead, Taken, Handled
<1>3. CASE Engaged
  BY <1>1, <1>2, <1>3, FlowFrame
<1>4. CASE ~Engaged
  BY <1>1, <1>2, <1>4 DEF DataInv, DataIntact
<1>. QED  BY <1>3, <1>4

-----------------------------------------------------------------------------
(***************************************************************************)
(* NCRISC fills only pages whose tiles were acknowledged.                  *)
(***************************************************************************)
LEMMA FillSpace ==
  ASSUME NEW U, NEW P, NEW A, NEW R, CoreInv(U, P), Engaged, Flow(U, P, A, R), Ahead = 0,
         FreePages("in") >= Program.batch
  PROVE  Handled("ncrisc") + Program.batch <= A + Pages
<1>1. PICK N \in Nat, b \in Nat \ {0}, g \in Nat \ {0}, w \in Nat \ {0}, v \in Nat \ {0},
           r \in Nat, a \in Nat :
        /\ N = Handled("ncrisc") /\ b = Program.batch /\ g = Pages /\ w = W16 /\ v = W32
        /\ r = received["in"] /\ a = acked["in"]
  BY Numbers, Constants
<1>2. A \in Nat /\ A <= N /\ N <= A + g /\ Cong(r, N, w) /\ Cong(a, A, w)
  BY <1>1 DEF Flow, InRing
<1>3. w < v /\ g < w /\ Cong(v, 0, w)
  BY <1>1, Constants
<1>4. Diff(g, Diff(r, a % w, v), w) = g - (N - A)
  BY <1>2, <1>3, FreeIs
<1>5. g - (N - A) >= b
  BY <1>1, <1>4 DEF FreePages
<1>6. N + b <= A + g
  BY <1>2, <1>5
<1>. QED  BY <1>1, <1>6

LEMMA FillData ==
  ASSUME NEW U, NEW P, NEW A, NEW R, CoreInv(U, P), DataInv(U, P, A, R), Fill
  PROVE  DataInv(U, P, A, R)'
<1>1. /\ pc["ncrisc"] = "run" /\ left["ncrisc"] > 0 /\ FreePages("in") >= Program.batch
      /\ mem' = [mem EXCEPT !["in"] = [i \in DOMAIN @ |->
           IF i \in {wr["in"] + j : j \in Batch}
           THEN <<n, Program.tiles - left["ncrisc"] + i - wr["in"] + 1>> ELSE @[i]]]
      /\ pc' = [pc EXCEPT !["ncrisc"] = "push"]
      /\ UNCHANGED <<n, received, acked, dest, out>>
  BY DEF Fill, engine, regs
<1>2. /\ Engaged /\ Engaged' /\ Program' = Program
      /\ \A p \in Processors : Handled(p)' = Handled(p)
  BY FillCore
<1>3. /\ Handled("brisc")' = Handled("brisc") /\ Handled("ncrisc")' = Handled("ncrisc")
      /\ Handled("trisc0")' = Handled("trisc0") /\ Handled("trisc2")' = Handled("trisc2")
  BY <1>2 DEF Processors, Slaves
<1>4. CtlInv /\ LeftInv /\ PtrInv /\ RegInv /\ Flow(U, P, A, R) /\ InRing(A)
  BY <1>2 DEF CoreInv, DataInv, Flow
<1>5. Ahead = 0 /\ Ahead' = Program.batch /\ Taken' = Taken
  <2>1. pc'["ncrisc"] = "push" /\ pc'["brisc"] = pc["brisc"]
    BY <1>1, <1>4 DEF CtlInv, Processors, Slaves
  <2>. QED  BY <1>1, <1>2, <2>1 DEF Ahead, Taken
<1>6. Handled("ncrisc") + Program.batch <= A + Pages
  BY <1>1, <1>2, <1>4, <1>5, FillSpace
<1>7. PICK N \in Nat, b \in Nat \ {0}, g \in Nat \ {0} :
        N = Handled("ncrisc") /\ b = Program.batch /\ g = Pages
  BY <1>2, Numbers, Constants
<1>8. A \in Nat /\ A <= N /\ N + b <= A + g
  BY <1>4, <1>6, <1>7 DEF InRing
<1>9. /\ wr["in"] = N % g /\ N = Program.tiles - left["ncrisc"]
      /\ \A j \in 0 .. b - 1 : (N + j) % g = (N % g) + j
  <2>1. Busy("ncrisc") /\ "ncrisc" \in Processors
    BY <1>1 DEF Busy, Processors, Slaves
  <2>. QED  BY <1>2, <1>4, <1>7, <2>1, HandledFacts, PointerStep DEF PtrInv
<1>10. N % g \in Nat /\ (N % g) + b <= g
  <2>1. "ncrisc" \in Processors
    BY DEF Processors, Slaves
  <2>. QED  BY <1>2, <1>4, <1>7, <2>1, PointerStep, DivMod
<1>11. PICK p \in Nat : p = N % g /\ p = wr["in"] /\ p + b <= g
  BY <1>9, <1>10
<1>12. /\ mem'["out"] = mem["out"]
       /\ \A i \in 0 .. g - 1 : mem'["in"][i] =
            IF i \in {p + j : j \in 0 .. b - 1} THEN <<n, N + i - p + 1>> ELSE mem["in"][i]
  <2>1. mem \in [CBs -> [0 .. g - 1 -> Cells]]
    BY <1>4, <1>7 DEF RegInv
  <2>2. mem'["out"] = mem["out"]
    BY <1>1, <2>1 DEF CBs
  <2>3. mem'["in"] = [i \in 0 .. g - 1 |->
          IF i \in {p + j : j \in 0 .. b - 1} THEN <<n, N + i - p + 1>> ELSE mem["in"][i]]
    BY <1>1, <1>7, <1>9, <1>11, <2>1 DEF CBs, Batch
  <2>. QED  BY <2>2, <2>3
<1>13. ASSUME NEW t \in A .. N + b - 1 PROVE mem'["in"][t % g] = <<n, t + 1>>
  <2>1. t \in Nat /\ t % g \in 0 .. g - 1
    BY <1>8, DivMod
  <2>2. CASE t < N
    <3>1. ASSUME NEW j \in 0 .. b - 1 PROVE t % g # p + j
      <4>1. PICK y \in Nat : y = N + j
        OBVIOUS
      <4>2. t < y /\ y < t + g
        BY <1>8, <2>1, <2>2, <4>1
      <4>3. t % g # y % g
        BY <2>1, <4>2, Apart
      <4>. QED  BY <1>9, <1>11, <4>1, <4>3
    <3>2. mem'["in"][t % g] = mem["in"][t % g]
      BY <1>12, <2>1, <3>1
    <3>3. t \in A .. N + Ahead - 1
      BY <1>5, <1>8, <2>1, <2>2
    <3>. QED  BY <1>4, <1>7, <3>2, <3>3 DEF InRing
  <2>3. CASE t >= N
    <3>1. PICK j \in 0 .. b - 1 : t = N + j
      <4>1. t - N \in 0 .. b - 1 /\ t = N + (t - N)
        BY <2>1, <2>3
      <4>. QED  BY <4>1
    <3>2. t % g = p + j
      BY <1>9, <1>11, <3>1
    <3>3. mem'["in"][t % g] = <<n, N + (p + j) - p + 1>>
      BY <1>12, <2>1, <3>2
    <3>4. N + (p + j) - p + 1 = t + 1
      BY <3>1
    <3>. QED  BY <3>3, <3>4
  <2>. QED  BY <2>1, <2>2, <2>3
<1>14. InRing(A)'
  BY <1>1, <1>3, <1>4, <1>5, <1>7, <1>8, <1>13 DEF InRing
<1>15. Program.compute => OutRing(P, R)'
  BY <1>1, <1>3, <1>4, <1>12 DEF Flow, OutRing
<1>16. Flow(U, P, A, R)'
  BY <1>1, <1>2, <1>3, <1>4, <1>5, <1>14, <1>15 DEF Flow
<1>. QED  BY <1>1, <1>2, <1>16, FlowStep

\* A 32-bit counter counts on: what was congruent by 16 bits stays so.
LEMMA CountOn ==
  ASSUME NEW r \in Nat, NEW x \in Nat, NEW b \in Nat, Cong(r, x, W16)
  PROVE  Cong((r + b) % W32, x + b, W16)
<1>1. PICK w \in Nat \ {0}, v \in Nat \ {0} : w = W16 /\ v = W32 /\ Cong(v, 0, w)
  BY Constants
<1>2. PICK y \in Nat, z \in Nat : y = r + b /\ z = x + b
  OBVIOUS
<1>3. Cong(y, z, w)
  <2>1. Cong(r + b, x + b, w)
    BY <1>1, CongAdd
  <2>. QED  BY <1>2, <2>1
<1>4. Cong(y % v, y, w)
  BY <1>1, CongModMod
<1>5. y % v \in Nat
  BY DivMod
<1>6. Cong(y % v, z, w)
  BY <1>3, <1>4, <1>5, CongTrans
<1>. QED  BY <1>1, <1>2, <1>6

LEMMA PushData ==
  ASSUME NEW U, NEW P, NEW A, NEW R, CoreInv(U, P), DataInv(U, P, A, R), PushBack
  PROVE  DataInv(U, P, A, R)'
<1>1. /\ pc["ncrisc"] = "push"
      /\ received' = [received EXCEPT !["in"] = (@ + Program.batch) % W32]
      /\ pc' = [pc EXCEPT !["ncrisc"] = "run"]
      /\ UNCHANGED <<n, acked, mem, dest, out>>
  BY DEF PushBack, engine
<1>2. /\ Engaged /\ Engaged' /\ Program' = Program
      /\ Handled("ncrisc")' = Handled("ncrisc") + Program.batch
      /\ \A p \in Processors \ {"ncrisc"} : Handled(p)' = Handled(p)
  BY PushCore
<1>3. /\ Handled("brisc")' = Handled("brisc")
      /\ Handled("trisc0")' = Handled("trisc0") /\ Handled("trisc2")' = Handled("trisc2")
  BY <1>2 DEF Processors, Slaves
<1>4. CtlInv /\ RegInv /\ Flow(U, P, A, R) /\ InRing(A)
  BY <1>2 DEF CoreInv, DataInv, Flow
<1>5. Ahead = Program.batch /\ Ahead' = 0 /\ Taken' = Taken
  <2>1. pc'["ncrisc"] = "run" /\ pc'["brisc"] = pc["brisc"]
    BY <1>1, <1>4 DEF CtlInv, Processors, Slaves
  <2>. QED  BY <1>1, <1>2, <2>1 DEF Ahead, Taken
<1>6. PICK N \in Nat, b \in Nat, w \in Nat \ {0}, v \in Nat \ {0}, r \in Nat :
        /\ N = Handled("ncrisc") /\ b = Program.batch /\ w = W16 /\ v = W32 /\ r = received["in"]
  BY <1>2, Numbers, Constants
<1>7. /\ A \in Nat /\ A <= N /\ N + b <= A + Pages /\ Cong(r, N, w)
      /\ \A t \in A .. N + b - 1 : mem["in"][t % Pages] = <<n, t + 1>>
  BY <1>4, <1>5, <1>6 DEF InRing
<1>8. received'["in"] = (r + b) % v /\ received'["out"] = received["out"]
  BY <1>1, <1>4, <1>6 DEF RegInv, CBs
<1>9. Cong((r + b) % v, N + b, w)
  BY <1>6, <1>7, CountOn
<1>10. N + b \in Nat /\ A <= N + b /\ N + b + 0 = N + b
  BY <1>7
<1>11. InRing(A)'
  BY <1>1, <1>2, <1>4, <1>5, <1>6, <1>7, <1>8, <1>9, <1>10 DEF InRing
<1>12. Program.compute => OutRing(P, R)'
  BY <1>1, <1>3, <1>4, <1>8 DEF Flow, OutRing
<1>13. /\ Program.compute => Handled("trisc0")' <= Handled("ncrisc")'
       /\ ~Program.compute => Handled("brisc")' + Taken' <= Handled("ncrisc")'
  <2>1. PICK I \in Nat, C \in Nat, k \in Nat : I = Handled("trisc0") /\ C = Handled("brisc") /\ k = Taken
    BY <1>2, Numbers
  <2>2. (Program.compute => I <= N) /\ (~Program.compute => C + k <= N)
    BY <1>4, <1>6, <2>1 DEF Flow
  <2>3. (Program.compute => I <= N + b) /\ (~Program.compute => C + k <= N + b)
    BY <2>2
  <2>. QED  BY <1>2, <1>3, <1>5, <1>6, <2>1, <2>3
<1>14. Flow(U, P, A, R)'
  BY <1>1, <1>2, <1>3, <1>4, <1>5, <1>11, <1>12, <1>13 DEF Flow
<1>. QED  BY <1>1, <1>2, <1>14, FlowStep

-----------------------------------------------------------------------------
(***************************************************************************)
(* TRISC0 unpacks only tiles that NCRISC has announced.                    *)
(***************************************************************************)
LEMMA UnpackData ==
  ASSUME NEW U, NEW P, NEW A, NEW R, CoreInv(U, P), DataInv(U, P, A, R), Unpack
  PROVE  DataInv(U, P, A, R)'
<1>1. /\ pc["trisc0"] = "run" /\ TilesAt >= Program.batch
      /\ UNCHANGED <<n, pc, received, acked, mem, dest, out>>
  BY DEF Unpack, regs
<1>2. /\ Engaged /\ Engaged' /\ Program' = Program
      /\ Handled("trisc0")' = Handled("trisc0") + Program.batch
      /\ \A p \in Processors \ {"trisc0"} : Handled(p)' = Handled(p)
  BY UnpackCore
<1>3. /\ Handled("brisc")' = Handled("brisc")
      /\ Handled("ncrisc")' = Handled("ncrisc") /\ Handled("trisc2")' = Handled("trisc2")
  BY <1>2 DEF Processors, Slaves
<1>4. CtlInv /\ PtrInv /\ Flow(U, P, A, R) /\ InRing(A)
  BY <1>2 DEF CoreInv, DataInv, Flow
<1>5. Ahead' = Ahead /\ Taken' = Taken
  BY <1>1, <1>2 DEF Ahead, Taken
<1>6. Busy("trisc0") /\ Program.compute
  <2>1. Busy("trisc0")
    BY <1>1 DEF Busy
  <2>. QED  BY <1>4, <2>1, BusyEngaged DEF Processors, Slaves
<1>7. PICK N \in Nat, I \in Nat, b \in Nat, g \in Nat, h \in Nat, w \in Nat \ {0}, r \in Nat, V \in Nat :
        /\ N = Handled("ncrisc") /\ I = Handled("trisc0") /\ b = Program.batch /\ g = Pages
        /\ h = Ahead /\ w = W16 /\ r = received["in"] /\ V = U
  BY <1>2, Numbers, Constants
<1>8. A \in Nat /\ N + h <= A + g /\ Cong(r, N, w) /\ A <= V /\ I <= N /\ V <= I /\ g < w
  <2>1. V <= I
    BY <1>2, <1>6, <1>7, Numbers
  <2>. QED  BY <1>4, <1>6, <1>7, <2>1, Constants DEF Flow, InRing
<1>9. I <= N /\ N < I + w
  BY <1>8
<1>10. r % w \in Nat /\ Cong(r % w, N, w)
  <2>1. r % w \in Nat /\ Cong(r % w, r, w)
    BY CongMod
  <2>. QED  BY <1>8, <2>1, CongTrans
<1>11. unpacked \in Nat /\ Cong(unpacked, I, w)
  <2>1. unpacked = I % w
    BY <1>4, <1>6, <1>7 DEF PtrInv
  <2>. QED  BY <2>1, CongMod
<1>12. Diff(r % w, unpacked, w) = N - I
  BY <1>9, <1>10, <1>11, DiffIs
<1>13. N - I >= b
  BY <1>1, <1>7, <1>12 DEF TilesAt
<1>14. I + b <= N
  BY <1>13
<1>15. InRing(A)' /\ OutRing(P, R)'
  <2>1. InRing(A)'
    BY <1>1, <1>3, <1>4, <1>5 DEF InRing
  <2>2. OutRing(P, R)'
    BY <1>1, <1>3, <1>4, <1>6 DEF Flow, OutRing
  <2>. QED  BY <2>1, <2>2
<1>16. Flow(U, P, A, R)'
  BY <1>1, <1>2, <1>3, <1>4, <1>5, <1>6, <1>7, <1>14, <1>15 DEF Flow
<1>. QED  BY <1>1, <1>2, <1>16, FlowStep

(***************************************************************************)
(* TRISC2 packs only into pages that BRISC has popped.                     *)
(***************************************************************************)
LEMMA PackSpace ==
  ASSUME ShortOrNarrow, NEW U, NEW P, NEW A, NEW R, CoreInv(U, P), Engaged, Flow(U, P, A, R),
         Program.compute, Busy("trisc2"), FreeTiles(Program.batch)
  PROVE  Handled("trisc2") + Program.batch <= Handled("brisc") + Pages
<1>1. PICK C \in Nat, K \in Nat, b \in Nat, g \in Nat, w \in Nat \ {0}, v \in Nat \ {0},
           a \in Nat, Q \in Nat, k \in Nat :
        /\ C = Handled("brisc") /\ K = Handled("trisc2") /\ b = Program.batch /\ g = Pages
        /\ w = W16 /\ v = W32 /\ a = acked["out"] /\ Q = P /\ k = Taken
  BY Numbers, Constants
<1>2. R \in Nat /\ R <= Q /\ C + k <= R /\ Q <= K /\ K <= C + g /\ Cong(a, C, w)
  <2>1. Q <= K
    BY <1>1, Numbers
  <2>. QED  BY <1>1, <2>1 DEF Flow, OutRing
<1>3. C <= K
  BY <1>2
<1>4. w < v /\ g < w /\ Cong(v, 0, w)
  BY <1>1, Constants
<1>5. packed = K % w /\ packed \in Nat /\ Cong(packed, K, w)
  <2>1. packed = K % w
    BY <1>1 DEF CoreInv, PtrInv
  <2>. QED  BY <2>1, CongMod
<1>6. load \in Loads /\ load.wide \in BOOLEAN
  BY CoreAssumption DEF CoreInv, CtlInv
<1>7. CASE ~load.wide
  <2>1. Diff(g, Diff(packed, a % w, v), w) = g - (K - C)
    BY <1>2, <1>3, <1>4, <1>5, FreeIs
  <2>2. g - (K - C) >= b
    BY <1>1, <1>7, <2>1 DEF FreeTiles
  <2>3. K + b <= C + g
    BY <2>2
  <2>. QED  BY <1>1, <2>3
<1>8. CASE load.wide
  <2>1. K < w
    <3>1. n \in 1 .. Len(load.programs)
      BY EngagedFacts DEF CoreInv, CtlInv
    <3>2. Program.tiles < W16
      BY <1>6, <1>8, <3>1 DEF ShortOrNarrow, Program
    <3>3. Handled("trisc2") <= Program.tiles
      BY HandledFacts DEF CoreInv, Processors, Slaves
    <3>4. PICK m \in Nat : m = Program.tiles
      BY Numbers
    <3>5. K <= m /\ m < w
      BY <1>1, <3>2, <3>3, <3>4
    <3>. QED  BY <3>5
  <2>2. packed = K
    BY <1>5, <2>1, Small
  <2>3. Diff(g, Diff(K, a % w, v), v) = g - (K - C)
    BY <1>2, <1>3, <1>4, <2>1, WideFreeIs
  <2>4. g - (K - C) >= b
    BY <1>1, <1>8, <2>2, <2>3 DEF FreeTiles
  <2>5. K + b <= C + g
    BY <2>4
  <2>. QED  BY <1>1, <2>5
<1>. QED  BY <1>7, <1>8

LEMMA PackData ==
  ASSUME ShortOrNarrow, NEW U, NEW P, NEW A, NEW R, CoreInv(U, P), DataInv(U, P, A, R), Pack
  PROVE  DataInv(U, P, A, R)'
<1>1. /\ pc["trisc2"] = "run" /\ FreeTiles(Program.batch)
      /\ UNCHANGED <<n, pc, received, acked, mem, dest, out>>
  BY DEF Pack, regs
<1>2. /\ Engaged /\ Engaged' /\ Program' = Program
      /\ Handled("trisc2")' = Handled("trisc2") + Program.batch
      /\ \A p \in Processors \ {"trisc2"} : Handled(p)' = Handled(p)
  BY PackCore
<1>3. /\ Handled("brisc")' = Handled("brisc")
      /\ Handled("ncrisc")' = Handled("ncrisc") /\ Handled("trisc0")' = Handled("trisc0")
  BY <1>2 DEF Processors, Slaves
<1>4. CtlInv /\ Flow(U, P, A, R) /\ InRing(A)
  BY <1>2 DEF CoreInv, DataInv, Flow
<1>5. Ahead' = Ahead /\ Taken' = Taken
  BY <1>1, <1>2 DEF Ahead, Taken
<1>6. Busy("trisc2") /\ Program.compute
  <2>1. Busy("trisc2")
    BY <1>1 DEF Busy
  <2>. QED  BY <1>4, <2>1, BusyEngaged DEF Processors, Slaves
<1>7. Handled("trisc2") + Program.batch <= Handled("brisc") + Pages
  BY <1>1, <1>2, <1>4, <1>6, PackSpace
<1>8. InRing(A)'
  BY <1>1, <1>3, <1>4, <1>5 DEF InRing
<1>9. OutRing(P, R)'
  BY <1>1, <1>2, <1>3, <1>4, <1>6, <1>7 DEF Flow, OutRing
<1>10. Flow(U, P, A, R)'
  BY <1>1, <1>2, <1>3, <1>4, <1>5, <1>6, <1>8, <1>9 DEF Flow
<1>. QED  BY <1>1, <1>2, <1>10, FlowStep

(***************************************************************************)
(* BRISC writes out only tiles that were announced, each once.             *)
(***************************************************************************)
LEMMA DrainTiles ==
  ASSUME NEW U, NEW P, NEW A, NEW R, CoreInv(U, P), Engaged, Flow(U, P, A, R), Taken = 0,
         Busy("brisc"), PagesAt(Last) >= Program.batch
  PROVE  /\ Program.compute => Handled("brisc") + Program.batch <= R
         /\ ~Program.compute => Handled("brisc") + Program.batch <= Handled("ncrisc")
         /\ \A t \in Handled("brisc") .. Handled("brisc") + Program.batch - 1 :
              mem[Last][t % Pages] = <<n, t + 1>>
<1>1. PICK C \in Nat, N \in Nat, K \in Nat, b \in Nat, g \in Nat, w \in Nat \ {0}, Q \in Nat, h \in Nat :
        /\ C = Handled("brisc") /\ N = Handled("ncrisc") /\ K = Handled("trisc2")
        /\ b = Program.batch /\ g = Pages /\ w = W16 /\ Q = P /\ h = Ahead
  BY Numbers, Constants
<1>2. PICK r \in Nat, a \in Nat : r = received[Last] /\ a = acked[Last]
  <2>1. received["in"] \in Nat /\ received["out"] \in Nat /\ acked["in"] \in Nat /\ acked["out"] \in Nat
    BY Numbers
  <2>. QED  BY <2>1 DEF Last
<1>3. r % w \in Nat /\ Cong(r % w, r, w) /\ g < w
  BY <1>1, Constants, CongMod
<1>4. Diff(r % w, a, w) >= b
  BY <1>1, <1>2 DEF PagesAt
<1>5. ASSUME NEW x \in Nat, Cong(r, x, w), Cong(a, C, w), C <= x, x <= C + g
      PROVE  C + b <= x
  <2>1. x < C + w
    BY <1>3, <1>5
  <2>2. Cong(r % w, x, w)
    BY <1>3, <1>5, CongTrans
  <2>3. Diff(r % w, a, w) = x - C
    BY <1>3, <1>5, <2>1, <2>2, DiffIs
  <2>4. x - C >= b
    BY <1>4, <2>3
  <2>. QED  BY <1>5, <2>4
<1>6. CASE Program.compute
  <2>1. Last = "out"
    BY <1>6 DEF Last
  <2>2. R \in Nat /\ R <= Q /\ C <= R /\ Q <= K /\ K <= C + g /\ Cong(r, R, w) /\ Cong(a, C, w)
    <3>1. Q <= K
      BY <1>1, <1>6, Numbers
    <3>. QED  BY <1>1, <1>2, <1>6, <2>1, <3>1 DEF Flow, OutRing
  <2>3. R <= C + g
    BY <2>2
  <2>4. C + b <= R
    BY <1>5, <2>2, <2>3
  <2>5. ASSUME NEW t \in C .. C + b - 1 PROVE mem["out"][t % Pages] = <<n, t + 1>>
    <3>1. t \in C .. Q - 1
      BY <2>2, <2>4
    <3>. QED  BY <1>1, <1>6, <3>1 DEF Flow, OutRing
  <2>. QED  BY <1>1, <1>6, <2>1, <2>4, <2>5
<1>7. CASE ~Program.compute
  <2>1. Last = "in"
    BY <1>7 DEF Last
  <2>2. A = C /\ C <= N /\ N + h <= C + g /\ Cong(r, N, w) /\ Cong(a, C, w)
    BY <1>1, <1>2, <1>7, <2>1 DEF Flow, InRing
  <2>3. N <= C + g
    BY <2>2
  <2>4. C + b <= N
    BY <1>5, <2>2, <2>3
  <2>5. ASSUME NEW t \in C .. C + b - 1 PROVE mem["in"][t % Pages] = <<n, t + 1>>
    <3>1. t \in C .. N + h - 1
      BY <2>4
    <3>. QED  BY <1>1, <1>7, <2>2, <3>1 DEF Flow, InRing
  <2>. QED  BY <1>1, <1>7, <2>1, <2>4, <2>5
<1>. QED  BY <1>6, <1>7

LEMMA DrainData ==
  ASSUME NEW U, NEW P, NEW A, NEW R, CoreInv(U, P), DataInv(U, P, A, R), Drain
  PROVE  DataInv(U, P, A, R)'
<1>1. /\ pc["brisc"] = "run" /\ PagesAt(Last) >= Program.batch
      /\ pc' = [pc EXCEPT !["brisc"] = "pop"]
      /\ UNCHANGED <<n, received, acked, mem, dest>>
  BY DEF Drain, engine, regs
<1>2. /\ Engaged /\ Engaged' /\ Program' = Program
      /\ \A p \in Processors : Handled(p)' = Handled(p)
      /\ Len(out') = Len(out) + Program.batch
      /\ \A i \in 1 .. Len(out) : out'[i] = out[i]
      /\ \A j \in 1 .. Program.batch : out'[Len(out) + j] = mem[Last][rd[Last] + j - 1]
  BY DrainCore
<1>3. /\ Handled("brisc")' = Handled("brisc") /\ Handled("ncrisc")' = Handled("ncrisc")
      /\ Handled("trisc0")' = Handled("trisc0") /\ Handled("trisc2")' = Handled("trisc2")
  BY <1>2 DEF Processors, Slaves
<1>4. CtlInv /\ LeftInv /\ PtrInv /\ Flow(U, P, A, R) /\ InRing(A) /\ DataIntact
  BY <1>2 DEF CoreInv, DataInv, Flow
<1>5. Taken = 0 /\ Taken' = Program.batch /\ Ahead' = Ahead
  <2>1. pc'["brisc"] = "pop" /\ pc'["ncrisc"] = pc["ncrisc"]
    BY <1>1, <1>4 DEF CtlInv, Processors, Slaves
  <2>. QED  BY <1>1, <1>2, <2>1 DEF Ahead, Taken
<1>6. Busy("brisc") /\ "brisc" \in Processors
  BY <1>1 DEF Busy, Processors
<1>7. /\ Program.compute => Handled("brisc") + Program.batch <= R
      /\ ~Program.compute => Handled("brisc") + Program.batch <= Handled("ncrisc")
      /\ \A t \in Handled("brisc") .. Handled("brisc") + Program.batch - 1 :
           mem[Last][t % Pages] = <<n, t + 1>>
  BY <1>1, <1>2, <1>4, <1>5, <1>6, DrainTiles
<1>8. PICK C \in Nat, b \in Nat \ {0} : C = Handled("brisc") /\ b = Program.batch /\ Len(out) = C
  <2>1. Len(out) = Handled("brisc") + 0 /\ Handled("brisc") \in Nat
    BY <1>2, <1>4, <1>5, Numbers DEF Flow
  <2>2. Len(out) = Handled("brisc")
    BY <2>1
  <2>. QED  BY <1>2, <2>1, <2>2, Numbers
<1>9. DataIntact'
  <2>. SUFFICES ASSUME NEW i \in 1 .. Len(out') PROVE out'[i] = <<n', i>>
    BY DEF DataIntact
  <2>0. i \in 1 .. C + b
    BY <1>2, <1>8
  <2>1. CASE i <= C
    <3>1. i \in 1 .. C
      BY <2>0, <2>1
    <3>2. out'[i] = out[i] /\ out[i] = <<n, i>>
      BY <1>2, <1>4, <1>8, <3>1 DEF DataIntact
    <3>. QED  BY <1>1, <3>2
  <2>2. CASE i > C
    <3>1. PICK j \in 0 .. b - 1 : i = C + (j + 1)
      <4>1. i - C - 1 \in 0 .. b - 1 /\ i = C + ((i - C - 1) + 1)
        BY <2>0, <2>2
      <4>. QED  BY <4>1
    <3>2. PICK m \in 1 .. b : m = j + 1
      OBVIOUS
    <3>3. out'[C + m] = mem[Last][rd[Last] + m - 1]
      BY <1>2, <1>8, <3>2
    <3>4. rd[Last] = C % Pages /\ (C + j) % Pages = (C % Pages) + j /\ C % Pages \in Nat
      <4>1. rd[Last] = C % Pages
        BY <1>4, <1>6, <1>8 DEF PtrInv
      <4>2. (C + j) % Pages = (C % Pages) + j
        BY <1>2, <1>4, <1>6, <1>8, PointerStep
      <4>3. C % Pages \in Nat
        BY Constants, DivMod
      <4>. QED  BY <4>1, <4>2, <4>3
    <3>5. rd[Last] + m - 1 = (C + j) % Pages
      <4>1. PICK z \in Nat : z = C % Pages
        BY <3>4
      <4>2. z + m - 1 = z + j
        BY <3>2
      <4>. QED  BY <3>4, <4>1, <4>2
    <3>6. C + j \in C .. C + b - 1 /\ (C + j) + 1 = i /\ C + m = i
      BY <3>1, <3>2
    <3>7. mem[Last][(C + j) % Pages] = <<n, (C + j) + 1>>
      BY <1>7, <1>8, <3>6
    <3>. QED  BY <1>1, <3>3, <3>5, <3>6, <3>7
  <2>. QED  BY <2>0, <2>1, <2>2
<1>10. InRing(A)'
  BY <1>1, <1>3, <1>4, <1>5 DEF InRing
<1>11. Program.compute => OutRing(P, R)'
  BY <1>1, <1>3, <1>4 DEF Flow, OutRing
<1>12. Len(out') = Handled("brisc")' + Taken'
  BY <1>2, <1>3, <1>5, <1>8
<1>13. Flow(U, P, A, R)'
  BY <1>2, <1>3, <1>4, <1>5, <1>7, <1>10, <1>11, <1>12 DEF Flow
<1>14. pc'["brisc"] # "poll"
  BY <1>2 DEF Engaged
<1>. QED  BY <1>2, <1>9, <1>13, <1>14 DEF DataInv

LEMMA PopData ==
  ASSUME NEW U, NEW P, NEW A, NEW R, CoreInv(U, P), DataInv(U, P, A, R), PopFront
  PROVE  \E B \in Nat : DataInv(U, P, B, R)'
<1>1. /\ pc["brisc"] = "pop"
      /\ acked' = [acked EXCEPT ![Last] = (@ + Program.batch) % W32]
      /\ pc' = [pc EXCEPT !["brisc"] = "run"]
      /\ UNCHANGED <<n, received, mem, dest, out>>
  BY DEF PopFront, engine
<1>2. /\ Engaged /\ Engaged' /\ Program' = Program
      /\ Handled("brisc")' = Handled("brisc") + Program.batch
      /\ \A p \in Processors \ {"brisc"} : Handled(p)' = Handled(p)
  BY PopCore
<1>3. /\ Handled("ncrisc")' = Handled("ncrisc")
      /\ Handled("trisc0")' = Handled("trisc0") /\ Handled("trisc2")' = Handled("trisc2")
  BY <1>2 DEF Processors, Slaves
<1>4. CtlInv /\ RegInv /\ Flow(U, P, A, R) /\ InRing(A)
  BY <1>2 DEF CoreInv, DataInv, Flow
<1>5. Taken = Program.batch /\ Taken' = 0 /\ Ahead' = Ahead
  <2>1. pc'["brisc"] = "run" /\ pc'["ncrisc"] = pc["ncrisc"]
    BY <1>1, <1>4 DEF CtlInv, Processors, Slaves
  <2>. QED  BY <1>1, <1>2, <2>1 DEF Ahead, Taken
<1>6. PICK C \in Nat, N \in Nat, K \in Nat, b \in Nat, g \in Nat, h \in Nat :
        /\ C = Handled("brisc") /\ N = Handled("ncrisc") /\ K = Handled("trisc2")
        /\ b = Program.batch /\ g = Pages /\ h = Ahead
  BY <1>2, Numbers, Constants
<1>7. C + b + 0 = C + b /\ C + b \in Nat
  OBVIOUS
<1>8. Len(out') = Handled("brisc")' + Taken'
  <2>1. Len(out) = C + b
    BY <1>4, <1>5, <1>6 DEF Flow
  <2>. QED  BY <1>1, <1>2, <1>5, <1>6, <1>7, <2>1
<1>9. acked \in [CBs -> 0 .. W32 - 1] /\ acked["in"] \in Nat /\ acked["out"] \in Nat
  BY <1>2, <1>4, Numbers DEF RegInv
<1>10. CASE Program.compute
  <2>1. acked'["out"] = (acked["out"] + b) % W32 /\ acked'["in"] = acked["in"]
    BY <1>1, <1>6, <1>9, <1>10 DEF Last, CBs
  <2>2. /\ R \in Nat /\ C + b <= R /\ R <= P /\ K <= C + g /\ Cong(acked["out"], C, W16)
        /\ Cong(received["out"], R, W16)
        /\ \A t \in C .. P - 1 : mem["out"][t % Pages] = <<n, t + 1>>
        /\ \A j \in 1 .. Len(dest) : dest[j] = <<n, P + j>>
    BY <1>4, <1>5, <1>6, <1>10 DEF Flow, OutRing
  <2>3. Cong(acked'["out"], C + b, W16)
    BY <1>9, <2>1, <2>2, CountOn
  <2>4. InRing(A)'
    BY <1>1, <1>3, <1>4, <1>5, <2>1 DEF InRing
  <2>5. K <= (C + b) + g
    BY <2>2
  <2>6. \A t \in C + b .. P - 1 : mem["out"][t % Pages] = <<n, t + 1>>
    <3>1. P \in Nat
      BY <1>2, Numbers
    <3>2. ASSUME NEW t \in C + b .. P - 1 PROVE t \in C .. P - 1
      BY <3>1
    <3>. QED  BY <2>2, <3>2
  <2>7. OutRing(P, R)'
    BY <1>1, <1>2, <1>3, <1>6, <2>2, <2>3, <2>5, <2>6 DEF OutRing
  <2>8. Handled("brisc")' + Taken' <= R
    BY <1>2, <1>5, <1>6, <1>7, <2>2
  <2>9. Flow(U, P, A, R)'
    BY <1>2, <1>3, <1>4, <1>8, <1>10, <2>4, <2>7, <2>8 DEF Flow
  <2>10. A \in Nat
    BY <1>4 DEF InRing
  <2>. QED  BY <1>1, <1>2, <2>9, <2>10, FlowStep
<1>11. CASE ~Program.compute
  <2>1. acked'["in"] = (acked["in"] + b) % W32
    BY <1>1, <1>6, <1>9, <1>11 DEF Last, CBs
  <2>2. /\ A = C /\ C + b <= N /\ N + h <= A + g /\ Cong(acked["in"], C, W16)
        /\ Cong(received["in"], N, W16)
        /\ \A t \in C .. N + h - 1 : mem["in"][t % Pages] = <<n, t + 1>>
    BY <1>4, <1>5, <1>6, <1>11 DEF Flow, InRing
  <2>3. Cong(acked'["in"], C + b, W16)
    BY <1>9, <2>1, <2>2, CountOn
  <2>4. N + h <= (C + b) + g
    BY <2>2
  <2>5. \A t \in C + b .. N + h - 1 : mem["in"][t % Pages] = <<n, t + 1>>
    <3>1. ASSUME NEW t \in C + b .. N + h - 1 PROVE t \in C .. N + h - 1
      OBVIOUS
    <3>. QED  BY <2>2, <3>1
  <2>6. InRing(C + b)'
    BY <1>1, <1>3, <1>5, <1>6, <1>7, <2>2, <2>3, <2>4, <2>5 DEF InRing
  <2>7. Handled("brisc")' + Taken' <= Handled("ncrisc")'
    BY <1>2, <1>3, <1>5, <1>6, <1>7, <2>2
  <2>8. Flow(U, P, C + b, R)'
    BY <1>2, <1>6, <1>8, <1>11, <2>6, <2>7 DEF Flow
  <2>9. DataInv(U, P, C + b, R)'
    BY <1>1, <1>2, <2>8, FlowStep
  <2>. QED  BY <1>7, <2>9
<1>. QED  BY <1>10, <1>11

-----------------------------------------------------------------------------
(***************************************************************************)
(* The engine unpacks the tile that comes next and packs it as that tile;  *)
(* its stores only say what it has done.                                   *)
(***************************************************************************)
LEMMA UnpackerData ==
  ASSUME NEW U, NEW P, NEW A, NEW R, CoreInv(U, P), DataInv(U, P, A, R), UnpackerStep
  PROVE  \/ CoreInv(U + 1, P)' /\ DataInv(U + 1, P, A, R)'
         \/ CoreInv(U, P)' /\ DataInv(U, P, U, R)'
<1>1. UNCHANGED <<n, pc, received, mem, out>>
  BY DEF UnpackerStep
<1>2. /\ Engaged /\ Engaged' /\ Program' = Program /\ Program.compute
      /\ \A p \in Processors : Handled(p)' = Handled(p)
      /\ \/ /\ CoreInv(U + 1, P)' /\ U < Handled("trisc0")
            /\ acked' = acked /\ dest' = Append(dest, mem["in"][U % Pages])
         \/ /\ CoreInv(U, P)' /\ dest' = dest
            /\ acked' = [acked EXCEPT !["in"] = U % W16]
  BY UnpackerCore
<1>3. /\ Handled("brisc")' = Handled("brisc") /\ Handled("ncrisc")' = Handled("ncrisc")
      /\ Handled("trisc0")' = Handled("trisc0") /\ Handled("trisc2")' = Handled("trisc2")
  BY <1>2 DEF Processors, Slaves
<1>4. RegInv /\ Flow(U, P, A, R) /\ InRing(A) /\ OutRing(P, R) /\ U = P + Len(dest)
  BY <1>2 DEF CoreInv, EngineInv, DataInv, Flow
<1>5. Ahead' = Ahead /\ Taken' = Taken
  BY <1>1, <1>2 DEF Ahead, Taken
<1>6. PICK N \in Nat, I \in Nat, h \in Nat, g \in Nat, V \in Nat, Q \in Nat :
        /\ N = Handled("ncrisc") /\ I = Handled("trisc0") /\ h = Ahead /\ g = Pages /\ V = U /\ Q = P
  BY <1>2, Numbers, Constants
<1>7. /\ A \in Nat /\ A <= V /\ V <= I /\ I <= N /\ N + h <= A + g
      /\ \A t \in A .. N + h - 1 : mem["in"][t % Pages] = <<n, t + 1>>
  <2>1. V <= I
    BY <1>2, <1>6, Numbers
  <2>. QED  BY <1>2, <1>4, <1>6, <2>1 DEF Flow, InRing
<1>8. CASE /\ CoreInv(U + 1, P)' /\ U < Handled("trisc0")
           /\ acked' = acked /\ dest' = Append(dest, mem["in"][U % Pages])
  <2>1. V \in A .. N + h - 1
    BY <1>6, <1>7, <1>8
  <2>2. mem["in"][U % Pages] = <<n, V + 1>>
    BY <1>6, <1>7, <2>1
  <2>3. PICK l \in Nat : l = Len(dest) /\ V = Q + l /\ dest \in Seq(Cells)
    BY <1>4, <1>6 DEF RegInv
  <2>4. PICK c : c = <<n, V + 1>>
    OBVIOUS
  <2>5. Len(dest') = l + 1 /\ \A j \in 1 .. l + 1 : dest'[j] = IF j = l + 1 THEN c ELSE dest[j]
    BY <1>8, <2>2, <2>3, <2>4
  <2>6. ASSUME NEW j \in 1 .. Len(dest') PROVE dest'[j] = <<n', P + j>>
    <3>0. j \in 1 .. l + 1
      BY <2>5
    <3>1. CASE j = l + 1
      <4>1. V + 1 = Q + j
        BY <2>3, <3>1
      <4>. QED  BY <1>1, <1>6, <2>4, <2>5, <3>0, <3>1, <4>1
    <3>2. CASE j # l + 1
      <4>1. j \in 1 .. l
        BY <3>0, <3>2
      <4>2. dest'[j] = dest[j]
        BY <2>5, <3>0, <3>2
      <4>. QED  BY <1>1, <1>4, <2>3, <4>1, <4>2 DEF OutRing
    <3>. QED  BY <3>1, <3>2
  <2>7. InRing(A)'
    BY <1>1, <1>3, <1>4, <1>5, <1>8 DEF InRing
  <2>8. OutRing(P, R)'
    BY <1>1, <1>3, <1>4, <1>8, <2>6 DEF OutRing
  <2>9. A <= U + 1
    BY <1>6, <1>7
  <2>10. Flow(U + 1, P, A, R)'
    BY <1>1, <1>2, <1>3, <1>4, <1>5, <2>7, <2>8, <2>9 DEF Flow
  <2>11. DataInv(U + 1, P, A, R)'
    BY <1>1, <1>2, <2>10, FlowStep
  <2>. QED  BY <1>8, <2>11
<1>9. CASE /\ CoreInv(U, P)' /\ dest' = dest /\ acked' = [acked EXCEPT !["in"] = U % W16]
  <2>1. acked'["in"] = V % W16 /\ acked'["out"] = acked["out"]
    BY <1>4, <1>6, <1>9 DEF RegInv, CBs
  <2>2. Cong(acked'["in"], V, W16)
    BY <2>1, Constants, CongMod
  <2>3. V <= N /\ N + h <= V + g
    BY <1>7
  <2>4. \A t \in V .. N + h - 1 : mem["in"][t % Pages] = <<n, t + 1>>
    <3>1. ASSUME NEW t \in V .. N + h - 1 PROVE t \in A .. N + h - 1
      BY <1>7
    <3>. QED  BY <1>7, <3>1
  <2>5. InRing(V)'
    BY <1>1, <1>3, <1>4, <1>5, <1>6, <2>2, <2>3, <2>4 DEF InRing
  <2>6. OutRing(P, R)'
    BY <1>1, <1>3, <1>4, <1>9, <2>1 DEF OutRing
  <2>7. V <= U
    BY <1>6
  <2>8. Flow(U, P, V, R)'
    BY <1>1, <1>2, <1>3, <1>4, <1>5, <2>5, <2>6, <2>7 DEF Flow
  <2>9. DataInv(U, P, V, R)'
    BY <1>1, <1>2, <2>8, FlowStep
  <2>. QED  BY <1>6, <1>9, <2>9
<1>. QED  BY <1>2, <1>8, <1>9

LEMMA PackerData ==
  ASSUME NEW U, NEW P, NEW A, NEW R, CoreInv(U, P), DataInv(U, P, A, R), PackerStep
  PROVE  \/ CoreInv(U, P + 1)' /\ DataInv(U, P + 1, A, R)'
         \/ CoreInv(U, P)' /\ DataInv(U, P, A, P)'
<1>1. UNCHANGED <<n, pc, acked, out>>
  BY DEF PackerStep
<1>2. /\ Engaged /\ Engaged' /\ Program' = Program /\ Program.compute
      /\ \A p \in Processors : Handled(p)' = Handled(p)
      /\ \/ /\ CoreInv(U, P + 1)' /\ P < Handled("trisc2") /\ dest # <<>> /\ dest' = Tail(dest)
            /\ mem' = [mem EXCEPT !["out"][P % Pages] = Head(dest)] /\ received' = received
         \/ /\ CoreInv(U, P)' /\ dest' = dest /\ mem' = mem
            /\ received' = [received EXCEPT !["out"] = P % W16]
  BY PackerCore
<1>3. /\ Handled("brisc")' = Handled("brisc") /\ Handled("ncrisc")' = Handled("ncrisc")
      /\ Handled("trisc0")' = Handled("trisc0") /\ Handled("trisc2")' = Handled("trisc2")
  BY <1>2 DEF Processors, Slaves
<1>4. RegInv /\ Flow(U, P, A, R) /\ InRing(A) /\ OutRing(P, R)
  BY <1>2 DEF CoreInv, DataInv, Flow
<1>5. Ahead' = Ahead /\ Taken' = Taken
  BY <1>1, <1>2 DEF Ahead, Taken
<1>6. PICK C \in Nat, K \in Nat, g \in Nat \ {0}, Q \in Nat, k \in Nat :
        C = Handled("brisc") /\ K = Handled("trisc2") /\ g = Pages /\ Q = P /\ k = Taken
  BY <1>2, Numbers, Constants
<1>7. /\ R \in Nat /\ C + k <= R /\ R <= Q /\ K <= C + g
      /\ \A t \in C .. Q - 1 : mem["out"][t % g] = <<n, t + 1>>
      /\ \A j \in 1 .. Len(dest) : dest[j] = <<n, Q + j>>
  BY <1>2, <1>4, <1>6 DEF Flow, OutRing
<1>8. CASE /\ CoreInv(U, P + 1)' /\ P < Handled("trisc2") /\ dest # <<>> /\ dest' = Tail(dest)
           /\ mem' = [mem EXCEPT !["out"][P % Pages] = Head(dest)] /\ received' = received
  <2>1. PICK l \in Nat : l = Len(dest) /\ l > 0 /\ dest \in Seq(Cells)
    BY <1>4, <1>8 DEF RegInv
  <2>2. /\ Head(dest) = dest[1] /\ Len(dest') = l - 1
        /\ \A j \in 1 .. l - 1 : dest'[j] = dest[j + 1]
    BY <1>8, <2>1
  <2>3. Head(dest) = <<n, Q + 1>>
    <3>1. 1 \in 1 .. Len(dest)
      BY <2>1
    <3>. QED  BY <1>7, <2>2, <3>1
  <2>4. Q % g \in 0 .. g - 1
    BY DivMod
  <2>5. /\ mem'["in"] = mem["in"] /\ mem'["out"][Q % g] = <<n, Q + 1>>
        /\ \A i \in 0 .. g - 1 : i # Q % g => mem'["out"][i] = mem["out"][i]
    <3>1. mem \in [CBs -> [0 .. g - 1 -> Cells]]
      BY <1>4, <1>6 DEF RegInv
    <3>2. mem' = [mem EXCEPT !["out"] = [mem["out"] EXCEPT ![Q % g] = Head(dest)]]
      BY <1>6, <1>8, <3>1 DEF CBs
    <3>3. mem'["in"] = mem["in"] /\ mem'["out"] = [mem["out"] EXCEPT ![Q % g] = Head(dest)]
      BY <3>1, <3>2 DEF CBs
    <3>4. mem["out"] \in [0 .. g - 1 -> Cells]
      BY <3>1 DEF CBs
    <3>. QED  BY <2>3, <2>4, <3>3, <3>4
  <2>6. ASSUME NEW t \in C .. Q PROVE mem'["out"][t % g] = <<n, t + 1>>
    <3>1. CASE t = Q
      BY <2>5, <3>1
    <3>2. CASE t # Q
      <4>0. Q < K /\ K <= C + g
        BY <1>6, <1>7, <1>8
      <4>1. t \in Nat /\ t < Q /\ Q < t + g /\ t \in C .. Q - 1
        BY <3>2, <4>0
      <4>2. t % g # Q % g
        BY <4>1, Apart
      <4>3. t % g \in 0 .. g - 1
        BY <4>1, DivMod
      <4>. QED  BY <1>7, <2>5, <4>1, <4>2, <4>3
    <3>. QED  BY <3>1, <3>2
  <2>7. ASSUME NEW j \in 1 .. Len(dest') PROVE dest'[j] = <<n, (Q + 1) + j>>
    <3>1. j \in 1 .. l - 1 /\ j + 1 \in 1 .. Len(dest) /\ Q + (j + 1) = (Q + 1) + j
      BY <2>1, <2>2
    <3>. QED  BY <1>7, <2>2, <3>1
  <2>8. InRing(A)'
    BY <1>1, <1>3, <1>4, <1>5, <1>8, <2>5 DEF InRing
  <2>9. R <= Q + 1 /\ (Q + 1) - 1 = Q
    BY <1>7
  <2>10. OutRing(Q + 1, R)'
    BY <1>1, <1>3, <1>4, <1>6, <1>8, <2>6, <2>7, <2>9 DEF OutRing
  <2>11. Flow(U, Q + 1, A, R)'
    BY <1>1, <1>2, <1>3, <1>4, <1>5, <2>8, <2>10 DEF Flow
  <2>12. DataInv(U, Q + 1, A, R)'
    BY <1>1, <1>2, <2>11, FlowStep
  <2>. QED  BY <1>6, <1>8, <2>12
<1>9. CASE /\ CoreInv(U, P)' /\ dest' = dest /\ mem' = mem
           /\ received' = [received EXCEPT !["out"] = P % W16]
  <2>1. received'["out"] = Q % W16 /\ received'["in"] = received["in"]
    BY <1>4, <1>6, <1>9 DEF RegInv, CBs
  <2>2. Cong(received'["out"], Q, W16)
    BY <2>1, Constants, CongMod
  <2>3. InRing(A)'
    BY <1>1, <1>3, <1>4, <1>5, <1>9, <2>1 DEF InRing
  <2>4. Q <= P /\ C + k <= Q
    BY <1>6, <1>7
  <2>5. OutRing(P, Q)'
    BY <1>1, <1>3, <1>4, <1>9, <2>2, <2>4 DEF OutRing
  <2>6. Flow(U, P, A, Q)'
    BY <1>1, <1>2, <1>3, <1>4, <1>5, <1>6, <2>3, <2>4, <2>5 DEF Flow
  <2>7. DataInv(U, P, A, Q)'
    BY <1>1, <1>2, <2>6, FlowStep
  <2>. QED  BY <1>6, <1>9, <2>7
<1>. QED  BY <1>2, <1>8, <1>9

-----------------------------------------------------------------------------
(***************************************************************************)
(* Safety of the data.                                                     *)
(***************************************************************************)
DataSafe ==
  \E U \in Nat, P \in Nat, A \in Nat, R \in Nat : CoreInv(U, P) /\ DataInv(U, P, A, R)

LEMMA DataSafeStep == ShortOrNarrow /\ DataSafe /\ [Next]_vars => DataSafe'
<1>. SUFFICES ASSUME ShortOrNarrow, DataSafe, [Next]_vars PROVE DataSafe'
  OBVIOUS
<1>0. PICK U \in Nat, P \in Nat, A \in Nat, R \in Nat : CoreInv(U, P) /\ DataInv(U, P, A, R)
  BY DEF DataSafe
<1>. DEFINE Goal == \E V \in Nat, Q \in Nat, B \in Nat, S \in Nat :
                      CoreInv(V, Q)' /\ DataInv(V, Q, B, S)'
<1>. SUFFICES Goal
  BY DEF DataSafe
<1>1. CASE Dispatch
  BY <1>0, <1>1, DispatchCore, DispatchData
<1>2. CASE InitSyncRegisters
  BY <1>0, <1>2, InitSyncCore, InitSyncData
<1>3. CASE RunTriscs
  <2>1. CoreInv(0, 0)' /\ DataInv(0, 0, 0, 0)'
    BY <1>0, <1>3, RunTriscsCore, RunTriscsData
  <2>. QED  BY <2>1
<1>4. CASE SetupAndRunNcrisc
  BY <1>0, <1>4, SetupCore, SetupData
<1>5. CASE Drain
  BY <1>0, <1>5, DrainCore, DrainData
<1>6. CASE PopFront
  BY <1>0, <1>6, PopCore, PopData
<1>7. CASE WaitNcriscTrisc
  BY <1>0, <1>7, WaitCore, WaitData
<1>8. ASSUME NEW s \in Slaves, Start(s) PROVE Goal
  BY <1>0, <1>8, StartCore, StartData
<1>9. ASSUME NEW s \in Slaves, Report(s) PROVE Goal
  BY <1>0, <1>9, ReportCore, ReportData
<1>10. CASE Fill
  BY <1>0, <1>10, FillCore, FillData
<1>11. CASE PushBack
  BY <1>0, <1>11, PushCore, PushData
<1>12. CASE Unpack
  BY <1>0, <1>12, UnpackCore, UnpackData
<1>13. CASE Pack
  BY <1>0, <1>13, PackCore, PackData
<1>14. CASE UnpackerStep
  <2>1. \/ CoreInv(U + 1, P)' /\ DataInv(U + 1, P, A, R)'
        \/ CoreInv(U, P)' /\ DataInv(U, P, U, R)'
    BY <1>0, <1>14, UnpackerData
  <2>2. U + 1 \in Nat
    OBVIOUS
  <2>. QED  BY <2>1, <2>2
<1>15. CASE PackerStep
  <2>1. \/ CoreInv(U, P + 1)' /\ DataInv(U, P + 1, A, R)'
        \/ CoreInv(U, P)' /\ DataInv(U, P, A, P)'
    BY <1>0, <1>15, PackerData
  <2>2. P + 1 \in Nat
    OBVIOUS
  <2>. QED  BY <2>1, <2>2
<1>16. CASE UNCHANGED vars
  BY <1>0, <1>16, StutterCore, StutterData
<1>. HIDE DEF Goal
<1>. QED  BY <1>1, <1>2, <1>3, <1>4, <1>5, <1>6, <1>7, <1>8, <1>9, <1>10, <1>11, <1>12, <1>13,
             <1>14, <1>15, <1>16 DEF Next, Brisc, Slave

\* Every tile BRISC writes out is the tile NCRISC read in at that place, of this
\* program: however the processors and the engine interleave, however late the
\* engine stores its counts and however often the counters wrap, for buffers,
\* batches and registers of any size.  The one condition is on the packer that
\* compares 16-bit counts in 32 bits (llk_wait_for_free_tiles): its programs
\* have fewer than 2^16 tiles.
THEOREM CoreDataTheorem == ShortOrNarrow => (Spec => []DataIntact)
<1>. SUFFICES ASSUME ShortOrNarrow PROVE Spec => []DataIntact
  OBVIOUS
<1>1. Init => DataSafe
  BY InitCore, InitData DEF DataSafe
<1>2. DataSafe /\ [Next]_vars => DataSafe'
  BY DataSafeStep
<1>3. DataSafe => DataIntact
  BY DEF DataSafe, DataInv
<1>. QED  BY <1>1, <1>2, <1>3, PTL DEF Spec

=============================================================================
