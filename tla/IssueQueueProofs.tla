--------------------------- MODULE IssueQueueProofs ---------------------------
(***************************************************************************)
(* The prefetcher processes what the host issued, once and in order, and   *)
(* an exec_buf runs alone, for every number of fetch queue entries and all *)
(* sizes that the checks of SystemMemoryManager admit.                     *)
(*                                                                         *)
(* The argument is IssueInv.  FetchInv and FenceInv say that the host does *)
(* not write an entry that is not taken; so at most Entries commands, the  *)
(* one the host is busy with and the one being read are in the issue queue *)
(* at a time.  RoomInv follows that nothing of it is overwritten, because  *)
(* the queue holds MaxSize * (Entries + 2), and that both sides wrap at    *)
(* the same command.                                                       *)
(***************************************************************************)
EXTENDS IssueQueue, Integers, TLAPS

-----------------------------------------------------------------------------
(***************************************************************************)
(* The fetch queue.                                                        *)
(***************************************************************************)
\* The index of the entry that is i entries behind p.
LEMMA EntryIndex ==
  ASSUME NEW n \in Nat \ {0}, NEW p \in 0 .. n - 1,
         NEW i \in 0 .. n - 1, NEW j \in 0 .. n - 1
  PROVE  /\ (IF p + i >= n THEN p + i - n ELSE p + i) \in 0 .. n - 1
         /\ (IF p + i >= n THEN p + i - n ELSE p + i) = (IF p + j >= n THEN p + j - n ELSE p + j)
              => i = j
OBVIOUS

\* An entry of the fetch queue is a record.
LEMMA EntryType ==
  ASSUME TypeOK, NEW i \in 0 .. Entries - 1
  PROVE  /\ Entry(i) \in [size : 0 .. MaxSize, stall : BOOLEAN]
         /\ Entry(i).size \in 0 .. MaxSize /\ Entry(i).stall \in BOOLEAN
<1>1. Entry(i) \in [size : 0 .. MaxSize, stall : BOOLEAN]
  BY IssueAssumption, EntryIndex DEF TypeOK, Entry
<1>. QED BY <1>1

\* The entry that the host writes is free, and there is one left to write.
LEMMA EntryFree ==
  ASSUME TypeOK, NEW q \in 0 .. Entries, FetchInv(q), hpc = "write"
  PROVE  /\ q < Entries /\ (rdPtr # Entries => q + 1 < Entries)
         /\ devPtr \in 0 .. Entries - 1 /\ Place = devPtr
         /\ devPtr = IF qPtr + q >= Entries THEN qPtr + q - Entries ELSE qPtr + q
         /\ fetchQ[devPtr] = Free
<1>1. devPtr \in 0 .. Entries - 1 /\ Place = devPtr /\ devPtr # devFence
  BY IssueAssumption DEF TypeOK, FetchInv, Place
<1>2. q < Entries /\ (rdPtr # Entries => q + 1 < Entries)
  <2>1. CASE devFence = Entries
    BY <1>1, <2>1, IssueAssumption DEF TypeOK, FetchInv, FenceInv
  <2>2. CASE devFence # Entries
    <3>1. PICK c \in q .. Entries - 1 :
            devPtr = devFence + 1 + c \/ devPtr + Entries = devFence + 1 + c
      BY <1>1, <2>2 DEF FetchInv, FenceInv
    <3>2. devFence \in 0 .. Entries - 1 /\ Entries \in Nat
      BY <2>2, IssueAssumption DEF TypeOK
    <3>. QED BY <1>1, <3>1, <3>2
  <2>. QED BY <2>1, <2>2
<1>3. devPtr = IF qPtr + q >= Entries THEN qPtr + q - Entries ELSE qPtr + q
  BY <1>1, <1>2, IssueAssumption DEF TypeOK, FetchInv
<1>4. Entry(q) = Free
  BY <1>2, IssueAssumption DEF FetchInv
<1>. QED BY <1>1, <1>2, <1>3, <1>4 DEF Entry

\* Writing an entry.
LEMMA FetchWrite ==
  ASSUME TypeOK, NEW q \in 0 .. Entries, FetchInv(q), FetchQueueWrite
  PROVE  /\ q + 1 \in 0 .. Entries /\ FetchInv(q + 1)'
         /\ Entry(q)' = [size |-> hsize, stall |-> hstall]
         /\ \A i \in 0 .. Entries - 1 : i # q => Entry(i)' = Entry(i)
<1>1. /\ q < Entries /\ (rdPtr # Entries => q + 1 < Entries)
      /\ devPtr \in 0 .. Entries - 1 /\ Place = devPtr
      /\ devPtr = IF qPtr + q >= Entries THEN qPtr + q - Entries ELSE qPtr + q
  BY EntryFree DEF FetchQueueWrite
<1>2. /\ devPtr' = devPtr + 1 /\ hpc' = "idle" /\ hsize' = 0 /\ qPtr' = qPtr
      /\ devFence' = devFence /\ rdPtr' = rdPtr
      /\ fetchQ' = [fetchQ EXCEPT ![devPtr] = [size |-> hsize, stall |-> hstall]]
      /\ hpc = "write"
  BY DEF FetchQueueWrite, prefetcher
<1>3. /\ Entries \in Nat \ {0, 1} /\ qPtr \in 0 .. Entries - 1 /\ q \in Nat
      /\ devFence \in 0 .. Entries /\ rdPtr \in 0 .. Entries /\ hsize \in 0 .. MaxSize
      /\ DOMAIN fetchQ = 0 .. Entries - 1 /\ MaxSize \in Nat
  BY IssueAssumption DEF TypeOK
<1>4. Entry(q)' = [size |-> hsize, stall |-> hstall]
  BY <1>1, <1>2, <1>3 DEF Entry
<1>5. ASSUME NEW i \in 0 .. Entries - 1, i # q PROVE Entry(i)' = Entry(i)
  <2>1. (IF qPtr + i >= Entries THEN qPtr + i - Entries ELSE qPtr + i) # devPtr
    BY <1>1, <1>3, <1>5
  <2>. QED BY <1>2, <2>1 DEF Entry
<1>6. Place' = IF devPtr + 1 = Entries THEN 0 ELSE devPtr + 1
  BY <1>1, <1>2 DEF Place
<1>7. Place' = qPtr + (q + 1) \/ Place' + Entries = qPtr + (q + 1)
  BY <1>1, <1>3, <1>6
<1>8. hsize > 0
  BY <1>2, <1>3 DEF FetchInv
<1>9. \A i \in 0 .. Entries - 1 :
        IF i < q + 1 THEN Entry(i)'.size > 0 ELSE Entry(i)' = Free
  BY <1>3, <1>4, <1>5, <1>8 DEF FetchInv
<1>10. FenceInv(q + 1)'
  <2>1. CASE devFence = Entries
    BY <1>1, <1>2, <1>3, <2>1 DEF FetchInv, FenceInv
  <2>2. CASE devFence # Entries
    <3>1. PICK c \in q .. Entries - 1 :
            devPtr = devFence + 1 + c \/ devPtr + Entries = devFence + 1 + c
      BY <1>1, <2>2 DEF FetchInv, FenceInv
    <3>2. rdPtr # Entries /\ devPtr # devFence
      BY <1>2, <2>2 DEF FetchInv, FenceInv
    <3>3. c + 1 \in q + 1 .. Entries - 1
      BY <1>1, <1>3, <2>2, <3>1, <3>2
    <3>4. Place' = devFence + 1 + (c + 1) \/ Place' + Entries = devFence + 1 + (c + 1)
      BY <1>1, <1>3, <1>6, <2>2, <3>1, <3>3
    <3>. QED BY <1>2, <2>2, <3>2, <3>3, <3>4 DEF FenceInv
  <2>. QED BY <2>1, <2>2
<1>11. q + 1 \in 0 .. Entries
  BY <1>1, <1>3
<1>12. rdPtr # Entries => qPtr = IF rdPtr + 1 = Entries THEN 0 ELSE rdPtr + 1
  BY DEF FetchInv
<1>13. FetchInv(q + 1)'
  BY <1>1, <1>2, <1>7, <1>9, <1>10, <1>11, <1>12 DEF FetchInv
<1>. QED BY <1>4, <1>5, <1>11, <1>13

\* The host looks at the prefetcher's pointer.
LEMMA FetchFence ==
  ASSUME TypeOK, NEW q \in 0 .. Entries, FetchInv(q), ReadFence
  PROVE  FetchInv(q)'
<1>1. /\ Entries \in Nat \ {0, 1} /\ qPtr \in 0 .. Entries - 1 /\ q \in Nat
      /\ devFence \in 0 .. Entries /\ rdPtr \in 0 .. Entries /\ devPtr \in 0 .. Entries
  BY IssueAssumption DEF TypeOK
<1>2. /\ devFence' = rdPtr /\ rdPtr' = rdPtr /\ qPtr' = qPtr /\ devPtr' = devPtr
      /\ hpc' = hpc /\ hsize' = hsize /\ fetchQ' = fetchQ /\ hpc # "write"
  BY DEF ReadFence, prefetcher
<1>3. Place' = Place /\ \A i \in 0 .. Entries - 1 : Entry(i)' = Entry(i)
  BY <1>2 DEF Place, Entry
<1>4. FenceInv(q)'
  <2>1. CASE rdPtr = Entries
    <3>1. devFence = Entries
      BY <2>1 DEF FetchInv, FenceInv
    <3>. QED BY <1>2, <2>1, <3>1 DEF FetchInv, FenceInv
  <2>2. CASE rdPtr # Entries
    <3>1. q < Entries /\ qPtr = IF rdPtr + 1 = Entries THEN 0 ELSE rdPtr + 1
      BY <2>2 DEF FetchInv
    <3>2. Place = qPtr + q \/ Place + Entries = qPtr + q
      BY DEF FetchInv
    <3>3. Place \in 0 .. Entries - 1
      BY <1>1 DEF Place
    <3>4. Place = rdPtr + 1 + q \/ Place + Entries = rdPtr + 1 + q
      BY <1>1, <3>1, <3>2, <3>3
    <3>5. q \in q .. Entries - 1
      BY <1>1, <3>1
    <3>. QED BY <1>2, <1>3, <2>2, <3>4, <3>5 DEF FenceInv
  <2>. QED BY <2>1, <2>2
<1>. QED BY <1>2, <1>3, <1>4 DEF FetchInv

\* The host has seen that there is a free entry.
LEMMA FetchReserve ==
  ASSUME TypeOK, NEW q \in 0 .. Entries, FetchInv(q), FetchQueueReserveBack
  PROVE  FetchInv(q)'
<1>1. /\ Entries \in Nat \ {0, 1} /\ qPtr \in 0 .. Entries - 1 /\ q \in Nat
      /\ devFence \in 0 .. Entries /\ rdPtr \in 0 .. Entries /\ devPtr \in 0 .. Entries
  BY IssueAssumption DEF TypeOK
<1>2. /\ devFence' = devFence /\ rdPtr' = rdPtr /\ qPtr' = qPtr
      /\ hsize' = hsize /\ fetchQ' = fetchQ /\ hpc # "idle" /\ hpc' # "idle"
      /\ devPtr # devFence
      /\ \/ hpc = "reserve" /\ devPtr = Entries /\ devPtr' = 0 /\ hpc' = "wrapped"
         \/ devPtr # Entries /\ devPtr' = devPtr /\ hpc' = "write"
  BY DEF FetchQueueReserveBack, prefetcher, FetchInv
<1>3. Place' = Place /\ \A i \in 0 .. Entries - 1 : Entry(i)' = Entry(i)
  BY <1>1, <1>2 DEF Place, Entry
<1>4. FenceInv(q)'
  BY <1>1, <1>2, <1>3 DEF FetchInv, FenceInv
<1>5. devPtr' # Entries
  BY <1>1, <1>2
<1>. QED BY <1>2, <1>3, <1>4, <1>5 DEF FetchInv

\* The host issues a command.
LEMMA FetchIssue ==
  ASSUME TypeOK, NEW q \in 0 .. Entries, FetchInv(q),
         NEW size \in 1 .. MaxSize, NEW isExec \in BOOLEAN, IssueCommand(size, isExec)
  PROVE  FetchInv(q)'
<1>1. /\ devFence' = devFence /\ rdPtr' = rdPtr /\ qPtr' = qPtr /\ devPtr' = devPtr
      /\ fetchQ' = fetchQ /\ hpc' = "reserve" /\ hsize' = size
  BY DEF IssueCommand, prefetcher
<1>2. size # 0
  BY IssueAssumption
<1>. QED BY <1>1, <1>2 DEF FetchInv, FenceInv, Place, Entry

\* The prefetcher takes an entry.
LEMMA FetchTake ==
  ASSUME TypeOK, NEW q \in 0 .. Entries, FetchInv(q), Entry(0).size > 0,
         fetchQ' = [fetchQ EXCEPT ![qPtr] = Free], rdPtr' = qPtr, qPtr' = NextEntry,
         devPtr' = devPtr, devFence' = devFence, hpc' = hpc, hsize' = hsize
  PROVE  /\ q > 0 /\ q - 1 \in 0 .. Entries /\ FetchInv(q - 1)'
         /\ \A i \in 0 .. Entries - 2 : Entry(i)' = Entry(i + 1)
<1>1. /\ Entries \in Nat \ {0, 1} /\ qPtr \in 0 .. Entries - 1 /\ q \in 0 .. Entries
      /\ devFence \in 0 .. Entries /\ rdPtr \in 0 .. Entries /\ devPtr \in 0 .. Entries
      /\ DOMAIN fetchQ = 0 .. Entries - 1
  BY IssueAssumption DEF TypeOK
<1>2. q > 0
  <2>1. 0 \in 0 .. Entries - 1 /\ Free.size = 0
    BY <1>1 DEF Free
  <2>. QED BY <1>1, <2>1 DEF FetchInv
<1>3. qPtr' = IF qPtr + 1 = Entries THEN 0 ELSE qPtr + 1
  BY DEF NextEntry
<1>4. ASSUME NEW i \in 0 .. Entries - 2 PROVE Entry(i)' = Entry(i + 1)
  <2>1. /\ (IF qPtr' + i >= Entries THEN qPtr' + i - Entries ELSE qPtr' + i)
             = (IF qPtr + (i + 1) >= Entries THEN qPtr + (i + 1) - Entries ELSE qPtr + (i + 1))
        /\ (IF qPtr + (i + 1) >= Entries THEN qPtr + (i + 1) - Entries ELSE qPtr + (i + 1)) # qPtr
    BY <1>1, <1>3
  <2>. QED BY <2>1 DEF Entry
<1>5. Entry(Entries - 1)' = Free
  <2>1. (IF qPtr' + (Entries - 1) >= Entries THEN qPtr' + (Entries - 1) - Entries
                                             ELSE qPtr' + (Entries - 1)) = qPtr
    BY <1>1, <1>3
  <2>. QED BY <1>1, <2>1 DEF Entry
<1>6. Place' = Place /\ Place \in 0 .. Entries - 1
  BY <1>1 DEF Place
<1>7. Place = qPtr' + (q - 1) \/ Place + Entries = qPtr' + (q - 1)
  <2>1. Place = qPtr + q \/ Place + Entries = qPtr + q
    BY DEF FetchInv
  <2>. QED BY <1>1, <1>2, <1>3, <1>6, <2>1
<1>8. ASSUME NEW i \in 0 .. Entries - 1
      PROVE  IF i < q - 1 THEN Entry(i)'.size > 0 ELSE Entry(i)' = Free
  <2>1. CASE i = Entries - 1
    BY <1>1, <1>5, <2>1
  <2>2. CASE i # Entries - 1
    <3>1. i \in 0 .. Entries - 2 /\ i + 1 \in 0 .. Entries - 1
      BY <1>1, <2>2
    <3>2. IF i + 1 < q THEN Entry(i + 1).size > 0 ELSE Entry(i + 1) = Free
      BY <3>1 DEF FetchInv
    <3>3. i < q - 1 <=> i + 1 < q
      BY <1>1
    <3>. QED BY <1>4, <3>1, <3>2, <3>3
  <2>. QED BY <2>1, <2>2
<1>9. qPtr # Entries /\ q - 1 < Entries /\ q - 1 \in 0 .. Entries
  BY <1>1, <1>2
<1>10. FenceInv(q - 1)'
  <2>1. CASE devFence = Entries
    <3>1. devPtr = qPtr + q
      BY <1>1, <1>2, <2>1 DEF FetchInv, FenceInv
    <3>2. devPtr = qPtr + 1 + (q - 1)
      BY <1>1, <3>1
    <3>. QED BY <1>9, <2>1, <3>2 DEF FenceInv
  <2>2. CASE devFence # Entries
    <3>1. PICK c \in q .. Entries - 1 :
            Place = devFence + 1 + c \/ Place + Entries = devFence + 1 + c
      BY <2>2 DEF FetchInv, FenceInv
    <3>2. c \in q - 1 .. Entries - 1
      BY <1>1, <3>1
    <3>. QED BY <1>6, <1>9, <2>2, <3>1, <3>2 DEF FenceInv
  <2>. QED BY <2>1, <2>2
<1>11. FetchInv(q - 1)'
  BY <1>3, <1>6, <1>7, <1>8, <1>9, <1>10 DEF FetchInv
<1>. QED BY <1>2, <1>4, <1>9, <1>11

-----------------------------------------------------------------------------
(***************************************************************************)
(* The line of commands.                                                   *)
(***************************************************************************)
LEMMA Products ==
  ASSUME NEW a \in Nat, NEW b \in Nat, NEW m \in Nat, a <= b
  PROVE  a * m <= b * m /\ (a + 1) * m = a * m + m /\ a * m \in Nat
<1>1. PICK d \in Nat : b = a + d
  <2>1. b - a \in Nat /\ b = a + (b - a)
    OBVIOUS
  <2>. QED BY <2>1
<1>2. b * m = a * m + d * m
  BY <1>1
<1>3. a * m \in Nat /\ d * m \in Nat
  OBVIOUS
<1>. QED BY <1>2, <1>3

\* The TT_FATAL: q commands that take used, the one being read, the one that is
\* issued and what is lost at the wrap fit into the issue queue.
LEMMA Room ==
  ASSUME NEW q \in 0 .. Entries, NEW f \in 0 .. MaxSize, f > 0 => q < Entries,
         NEW used \in Nat, used <= q * MaxSize
  PROVE  used + f + MaxSize + MaxSize <= IssueSize
<1>1. /\ Entries \in Nat /\ MaxSize \in Nat /\ IssueSize \in Nat /\ q \in Nat
      /\ MaxSize * (Entries + 2) <= IssueSize
  BY IssueAssumption
<1>2. Entries * MaxSize + MaxSize + MaxSize <= IssueSize
  BY <1>1
<1>3. Entries * MaxSize \in Nat /\ q * MaxSize \in Nat /\ q * MaxSize <= Entries * MaxSize
  BY <1>1, Products
<1>4. CASE f = 0
  BY <1>1, <1>2, <1>3, <1>4
<1>5. CASE f > 0
  <2>1. q + 1 <= Entries
    BY <1>1, <1>5
  <2>2. (q + 1) * MaxSize <= Entries * MaxSize
    BY <1>1, <2>1, Products
  <2>3. q * MaxSize + MaxSize <= Entries * MaxSize
    BY <1>1, <2>2, Products
  <2>. QED BY <1>1, <1>2, <1>3, <2>3
<1>. QED BY <1>1, <1>4, <1>5

\* What there is of the prefetcher's data.
LEMMA Counts ==
  ASSUME TypeOK, PendingInv
  PROVE  /\ pending.size \in 0 .. MaxSize /\ pending.from \in 0 .. IssueSize
         /\ pending.here \in BOOLEAN
         /\ Ready \in Nat /\ Ready <= fence /\ Ready + pending.size <= CmddatSize
         /\ InFlight \in 0 .. MaxSize /\ InFlight <= pciePtr
         /\ InFlight > 0 => rdPtr # Entries
<1>1. pending.size \in 0 .. MaxSize /\ pending.from \in 0 .. IssueSize /\ pending.here \in BOOLEAN
  BY DEF PendingInv
<1>2. /\ MaxSize \in Nat /\ IssueSize \in Nat /\ CmddatSize \in Nat /\ fence \in 0 .. CmddatSize
      /\ cmdPtr \in 0 .. CmddatSize /\ fence + pending.size <= CmddatSize /\ pciePtr \in 0 .. IssueSize
  BY IssueAssumption DEF TypeOK
<1>3. Ready \in Nat /\ Ready <= fence /\ Ready + pending.size <= CmddatSize
  <2>1. Ready \in Nat /\ Ready <= fence
    BY <1>2 DEF Ready
  <2>. QED BY <1>1, <1>2, <2>1
<1>4. InFlight \in 0 .. MaxSize /\ InFlight <= pending.size
  BY <1>1, <1>2 DEF InFlight
<1>5. InFlight > 0 => rdPtr # Entries /\ pending.from + pending.size = pciePtr
  BY <1>1, <1>2, <1>4 DEF PendingInv
<1>6. InFlight <= pciePtr
  BY <1>1, <1>2, <1>4, <1>5
<1>. QED BY <1>1, <1>3, <1>4, <1>5, <1>6

\* A command has a size.
LEMMA Sizes ==
  ASSUME TypeOK, NEW q \in 0 .. Entries, FetchInv(q), NEW i \in 0 .. Commands(q) - 1
  PROVE  SizeOf(q, i) \in 1 .. MaxSize /\ StallOf(q, i) \in BOOLEAN
<1>1. /\ Entries \in Nat \ {0, 1} /\ MaxSize \in Nat \ {0} /\ q \in 0 .. Entries
      /\ hsize \in 0 .. MaxSize /\ hstall \in BOOLEAN
  BY IssueAssumption DEF TypeOK
<1>2. CASE i < q
  <2>1. i \in 0 .. Entries - 1
    BY <1>1, <1>2 DEF Commands
  <2>2. Entry(i).size > 0 /\ Entry(i).size \in 0 .. MaxSize /\ Entry(i).stall \in BOOLEAN
    BY <1>2, <2>1, EntryType DEF FetchInv
  <2>. QED BY <1>1, <1>2, <2>2 DEF SizeOf, StallOf
<1>3. CASE ~ (i < q)
  <2>1. hpc # "idle"
    BY <1>1, <1>3 DEF Commands
  <2>2. hsize > 0
    BY <1>1, <2>1 DEF FetchInv
  <2>. QED BY <1>1, <1>3, <2>2 DEF SizeOf, StallOf
<1>. QED BY <1>2, <1>3

\* The units that lie before a command.
LEMMA Bases ==
  ASSUME TypeOK, PendingInv, NEW q \in 0 .. Entries, NEW base \in [0 .. Entries + 1 -> Nat],
         FetchInv(q), BaseInv(q, base)
  PROVE  /\ Commands(q) \in 0 .. Entries + 1
         /\ \A i \in 0 .. Commands(q) : base[i] \in Nat /\ base[0] <= base[i] /\ base[i] <= line
         /\ \A i \in 0 .. Commands(q) - 1 :
              /\ base[i] \in Nat /\ base[i + 1] \in Nat
              /\ base[i + 1] - base[i] = SizeOf(q, i)
              /\ base[i + 1] - base[i] \in 1 .. MaxSize
         /\ base[0] = Ready + pending.size
         /\ base[Commands(q)] = line
<1>1. Entries \in Nat /\ MaxSize \in Nat /\ q \in 0 .. Entries
  BY IssueAssumption
<1>2. Commands(q) \in 0 .. Entries + 1
  BY <1>1 DEF Commands
<1>3. \A i \in 0 .. Commands(q) : i \in 0 .. Entries + 1 /\ base[i] \in Nat
  BY <1>1, <1>2
<1>4. ASSUME NEW i \in 0 .. Commands(q)
      PROVE  base[i] \in Nat /\ base[0] <= base[i] /\ base[i] <= line
  <2>1. 0 \in 0 .. Commands(q) /\ Commands(q) \in 0 .. Commands(q) /\ 0 <= i /\ i <= Commands(q)
    BY <1>2
  <2>. QED BY <1>3, <2>1 DEF BaseInv
<1>5. ASSUME NEW i \in 0 .. Commands(q) - 1
      PROVE  /\ base[i] \in Nat /\ base[i + 1] \in Nat
             /\ base[i + 1] - base[i] = SizeOf(q, i)
             /\ base[i + 1] - base[i] \in 1 .. MaxSize
  <2>1. SizeOf(q, i) \in 1 .. MaxSize
    BY Sizes
  <2>2. i \in 0 .. Commands(q) /\ i + 1 \in 0 .. Commands(q)
    BY <1>2
  <2>3. base[i] \in Nat /\ base[i + 1] \in Nat
    BY <1>3, <2>2
  <2>4. base[i + 1] = base[i] + SizeOf(q, i)
    BY DEF BaseInv
  <2>. QED BY SMTT(30), <1>1, <2>1, <2>3, <2>4
<1>. QED BY <1>2, <1>4, <1>5 DEF BaseInv

\* Where a command goes: behind the last one, or to the beginning if it does not
\* fit there, and never over what is not read yet.
LEMMA Placement ==
  ASSUME TypeOK, PendingInv, NEW q \in 0 .. Entries, NEW base \in [0 .. Entries + 1 -> Nat],
         NEW w \in 0 .. Entries + 1, LineInv(q, base, w), hpc = "idle",
         NEW size \in 1 .. MaxSize
  PROVE  /\ Reserved(size) \in Nat /\ Reserved(size) + size <= IssueSize
         /\ w \in 0 .. q /\ Top(base, w) \in Nat /\ Top(base, w) >= pciePtr
         /\ w < q => /\ Reserved(size) = base[q] - base[w]
                     /\ Reserved(size) + size < IssueSize
                     /\ Reserved(size) + size <= pciePtr - InFlight
         /\ w = q /\ Top(base, w) + size <= IssueSize => Reserved(size) = Top(base, w)
         /\ w = q /\ Top(base, w) + size > IssueSize =>
              Reserved(size) = 0 /\ size <= pciePtr - InFlight /\ size < IssueSize
<1>1. Commands(q) = q
  BY DEF Commands
<1>2. w \in 0 .. q
  BY <1>1 DEF LineInv, RoomInv
<1>3. /\ Entries \in Nat /\ MaxSize \in Nat \ {0} /\ IssueSize \in Nat /\ q \in 0 .. Entries
      /\ pciePtr \in 0 .. IssueSize /\ wrPtr \in 0 .. IssueSize - 1 /\ size \in 1 .. MaxSize
  BY IssueAssumption DEF TypeOK
<1>4. FetchInv(q) /\ BaseInv(q, base) /\ RoomInv(q, base, w)
  BY DEF LineInv
<1>5. /\ \A i \in 0 .. q : base[i] \in Nat /\ base[0] <= base[i] /\ base[i] <= base[q]
      /\ \A i \in 0 .. q - 1 : base[i + 1] - base[i] \in 1 .. MaxSize
  BY <1>1, <1>4, Bases
<1>6. 0 \in 0 .. q /\ q \in 0 .. q
  BY <1>3
<1>7. InFlight \in 0 .. MaxSize /\ InFlight <= pciePtr /\ (InFlight > 0 => q < Entries)
  BY <1>4, Counts DEF FetchInv
<1>8. base[q] - base[0] \in Nat /\ base[q] - base[0] <= q * MaxSize
  <2>1. base[q] <= base[0] + (q - 0) * MaxSize
    BY <1>1, <1>3, <1>4, <1>6 DEF BaseInv
  <2>2. q - 0 = q /\ q * MaxSize \in Nat
    BY <1>3, Products
  <2>. QED BY <1>5, <1>6, <2>1, <2>2
<1>9. (base[q] - base[0]) + InFlight + MaxSize + MaxSize <= IssueSize
  BY <1>7, <1>8, Room
<1>10. Top(base, w) = pciePtr + (base[w] - base[0]) /\ Top(base, w) \in Nat /\ Top(base, w) >= pciePtr
  BY <1>2, <1>3, <1>5, <1>6 DEF Top
<1>11. CASE w < q
  <2>1. base[w + 1] - base[w] \in 1 .. MaxSize
    BY <1>2, <1>3, <1>5, <1>11
  <2>2. Top(base, w) + (base[w + 1] - base[w]) > IssueSize /\ wrPtr = base[q] - base[w]
    BY <1>1, <1>4, <1>11 DEF RoomInv
  <2>3. base[w] \in Nat /\ base[q] \in Nat /\ base[0] \in Nat /\ base[0] <= base[w] /\ base[w] <= base[q]
    BY <1>2, <1>5, <1>6
  <2>. DEFINE s == base[w + 1] - base[w]
              f == InFlight
              x == base[w]
              y == base[q]
              z == base[0]
  <2>4. /\ s \in 1 .. MaxSize /\ f \in 0 .. MaxSize /\ x \in Nat /\ y \in Nat /\ z \in Nat
        /\ z <= x /\ x <= y /\ (y - z) + f + MaxSize + MaxSize <= IssueSize
        /\ pciePtr + (x - z) + s > IssueSize /\ wrPtr = y - x
    BY <1>7, <1>9, <1>10, <2>1, <2>2, <2>3
  <2>. HIDE DEF s, f, x, y, z
  <2>5. wrPtr + size < IssueSize /\ wrPtr + size <= pciePtr - f
    BY ONLY <1>3, <2>4
  <2>6. Reserved(size) = wrPtr
    BY <1>3, <2>5 DEF Reserved
  <2>7. Reserved(size) \in Nat /\ Reserved(size) + size <= IssueSize
    BY <1>3, <2>5, <2>6
  <2>. QED BY <1>2, <1>3, <1>10, <1>11, <2>2, <2>5, <2>6, <2>7 DEF f
<1>12. CASE w = q
  <2>1. wrPtr = (IF Top(base, w) = IssueSize THEN 0 ELSE Top(base, w)) /\ Top(base, w) <= IssueSize
    BY <1>1, <1>3, <1>4, <1>12 DEF RoomInv
  <2>2. CASE Top(base, w) + size <= IssueSize
    <3>1. wrPtr = Top(base, w) /\ Reserved(size) = Top(base, w)
      BY SMTT(30), <1>3, <1>10, <2>1, <2>2 DEF Reserved
    <3>. QED BY <1>2, <1>3, <1>10, <1>12, <2>2, <3>1
  <2>3. CASE Top(base, w) + size > IssueSize
    <3>. DEFINE u == base[q] - base[0]
                f == InFlight
    <3>1. u \in Nat /\ f \in 0 .. MaxSize /\ u + f + MaxSize + MaxSize <= IssueSize
          /\ pciePtr + u + size > IssueSize
      BY <1>7, <1>8, <1>9, <1>10, <1>12, <2>3
    <3>. HIDE DEF u, f
    <3>2. size <= pciePtr - f /\ size < IssueSize
      BY ONLY <1>3, <3>1
    <3>3. Reserved(size) = 0
      BY <1>3, <1>10, <2>1, <2>3, <3>2 DEF Reserved
    <3>. QED BY <1>2, <1>3, <1>10, <1>12, <2>3, <3>2, <3>3 DEF f
  <2>. QED BY <1>3, <1>10, <2>2, <2>3
<1>. QED BY <1>2, <1>3, <1>11, <1>12

\* issue_queue_reserve, cq_write and issue_queue_push_back.
LEMMA IssueStep ==
  ASSUME IssueInv, NEW size \in 1 .. MaxSize, NEW isExec \in BOOLEAN, IssueCommand(size, isExec)
  PROVE  IssueInv'
<1>1. TypeOK /\ PendingInv /\ ReadyInv
  BY DEF IssueInv
<1>2. PICK q \in 0 .. Entries, base \in [0 .. Entries + 1 -> Nat], w \in 0 .. Entries + 1 :
        LineInv(q, base, w)
  BY DEF IssueInv
<1>. DEFINE at == Reserved(size)
            t  == Top(base, w)
<1>3. FetchInv(q) /\ BaseInv(q, base) /\ RoomInv(q, base, w) /\ IssuedInv(q, base, w)
  BY <1>2 DEF LineInv
<1>4. /\ hpc = "idle" /\ hpc' = "reserve" /\ hsize' = size /\ hstall' = isExec
      /\ line' = line + size /\ wrPtr' = PushedBack(at, size)
      /\ issueMem' = [a \in 0 .. IssueSize - 1 |->
                        IF a \in at .. at + size - 1
                          THEN [place |-> line + 1 + (a - at),
                                exec |-> isExec /\ a = at + size - 1]
                          ELSE issueMem[a]]
      /\ dpc' = dpc /\ qPtr' = qPtr /\ pciePtr' = pciePtr /\ fence' = fence /\ cmdPtr' = cmdPtr
      /\ cmddat' = cmddat /\ pending' = pending /\ stall' = stall
      /\ devPtr' = devPtr /\ devFence' = devFence /\ fetchQ' = fetchQ /\ rdPtr' = rdPtr
  BY DEF IssueCommand, prefetcher
<1>p. /\ Reserved(size) \in Nat /\ Reserved(size) + size <= IssueSize
      /\ w \in 0 .. q /\ Top(base, w) \in Nat /\ Top(base, w) >= pciePtr
      /\ w < q => /\ Reserved(size) = base[q] - base[w]
                  /\ Reserved(size) + size < IssueSize
                  /\ Reserved(size) + size <= pciePtr - InFlight
      /\ w = q /\ Top(base, w) + size <= IssueSize => Reserved(size) = Top(base, w)
      /\ w = q /\ Top(base, w) + size > IssueSize =>
           Reserved(size) = 0 /\ size <= pciePtr - InFlight /\ size < IssueSize
  BY <1>1, <1>2, <1>4, Placement
<1>5. /\ at \in Nat /\ at + size <= IssueSize
      /\ w \in 0 .. q /\ t \in Nat /\ t >= pciePtr
      /\ w < q => at = base[q] - base[w] /\ at + size < IssueSize /\ at + size <= pciePtr - InFlight
      /\ w = q /\ t + size <= IssueSize => at = t
      /\ w = q /\ t + size > IssueSize => at = 0 /\ size <= pciePtr - InFlight /\ size < IssueSize
  BY <1>p
<1>6. /\ Entries \in Nat \ {0, 1} /\ MaxSize \in Nat \ {0} /\ IssueSize \in Nat /\ CmddatSize \in Nat
      /\ q \in 0 .. Entries /\ pciePtr \in 0 .. IssueSize /\ line \in 0 .. IssueSize + CmddatSize
      /\ size \in 1 .. MaxSize
  BY <1>1, IssueAssumption DEF TypeOK
<1>7. Commands(q) = q /\ Commands(q)' = q + 1
  BY <1>4 DEF Commands
<1>8. /\ \A i \in 0 .. q : base[i] \in Nat /\ base[0] <= base[i] /\ base[i] <= line
      /\ \A i \in 0 .. q - 1 : /\ base[i] \in Nat /\ base[i + 1] \in Nat
                               /\ base[i + 1] - base[i] \in 1 .. MaxSize
      /\ base[0] = Ready + pending.size /\ base[q] = line
  BY <1>1, <1>3, <1>7, Bases
<1>9. PICK b2 \in [0 .. Entries + 1 -> Nat] :
        b2[q + 1] = line + size /\ \A i \in 0 .. q : b2[i] = base[i]
  <2>. DEFINE b == [base EXCEPT ![q + 1] = line + size]
  <2>1. b \in [0 .. Entries + 1 -> Nat] /\ b[q + 1] = line + size /\ \A i \in 0 .. q : b[i] = base[i]
    BY <1>6, <1>8
  <2>. QED BY <2>1
<1>10. /\ Ready' = Ready /\ InFlight' = InFlight
       /\ \A i \in 0 .. q - 1 : StallOf(q, i)' = StallOf(q, i) /\ SizeOf(q, i)' = SizeOf(q, i)
       /\ StallOf(q, q)' = isExec /\ SizeOf(q, q)' = size
  BY <1>4, <1>6 DEF Ready, InFlight, StallOf, SizeOf, Entry
<1>. HIDE DEF at, t
<1>11. FetchInv(q)'
  BY <1>1, <1>3, FetchIssue
<1>12. \A i, j \in 0 .. q + 1 :
         i <= j => b2[i] <= b2[j] /\ b2[j] <= b2[i] + (j - i) * MaxSize
  <2>. SUFFICES ASSUME NEW i \in 0 .. q + 1, NEW j \in 0 .. q + 1, i <= j
                PROVE  b2[i] <= b2[j] /\ b2[j] <= b2[i] + (j - i) * MaxSize
    OBVIOUS
  <2>1. CASE j <= q
    <3>1. i \in 0 .. q /\ j \in 0 .. q
      BY <1>6, <2>1
    <3>. QED BY <1>3, <1>7, <1>9, <3>1 DEF BaseInv
  <2>2. CASE j = q + 1 /\ i <= q
    <3>1. i \in 0 .. q /\ q \in 0 .. q /\ i <= q
      BY <1>6, <2>2
    <3>2. base[i] <= base[q] /\ base[q] <= base[i] + (q - i) * MaxSize /\ base[i] \in Nat
      BY <1>3, <1>7, <1>8, <3>1 DEF BaseInv
    <3>3. q - i \in Nat /\ j - i = (q - i) + 1
      BY <1>6, <2>2, <3>1
    <3>4. (j - i) * MaxSize = (q - i) * MaxSize + MaxSize /\ (q - i) * MaxSize \in Nat
      BY <1>6, <3>3, Products
    <3>. QED BY SMTT(30), <1>6, <1>8, <1>9, <2>2, <3>1, <3>2, <3>4
  <2>3. CASE j = q + 1 /\ i = q + 1
    <3>1. (j - i) * MaxSize = 0
      BY <1>6, <2>3
    <3>. QED BY <1>6, <1>9, <2>3, <3>1
  <2>. QED BY <1>6, <2>1, <2>2, <2>3
<1>13. BaseInv(q, b2)'
  <2>1. b2[0] = Ready + pending.size
    BY <1>6, <1>8, <1>9
  <2>2. ASSUME NEW i \in 0 .. (q + 1) - 1 PROVE b2[i + 1] = b2[i] + SizeOf(q, i)'
    <3>1. CASE i = q
      BY <1>6, <1>8, <1>9, <1>10, <3>1
    <3>2. CASE i # q
      <4>1. i \in 0 .. q - 1 /\ i \in 0 .. q /\ i + 1 \in 0 .. q
        BY <1>6, <3>2
      <4>. QED BY <1>3, <1>7, <1>9, <1>10, <4>1 DEF BaseInv
    <3>. QED BY <3>1, <3>2
  <2>. QED BY <1>4, <1>7, <1>9, <1>10, <1>12, <2>1, <2>2 DEF BaseInv
<1>w. PICK w2 \in 0 .. q + 1 :
        w2 = IF w < q THEN w ELSE IF t + size > IssueSize THEN q ELSE q + 1
  BY <1>5, <1>6
<1>14. w \in 0 .. q /\ 0 \in 0 .. q
  BY <1>5, <1>6
<1>15. t = pciePtr + (base[w] - base[0]) /\ t <= IssueSize
  BY <1>3 DEF Top, RoomInv, t
<1>16. RoomInv(q, b2, w2)'
  <2>1. CASE w < q
    <3>1. w2 = w /\ w < q + 1 /\ w + 1 \in 0 .. q
      BY <1>w, <1>6, <1>14, <2>1
    <3>2. Top(b2, w2)' = t
      BY <1>4, <1>9, <1>14, <1>15, <3>1 DEF Top
    <3>3. t + (b2[w2 + 1] - b2[w2]) > IssueSize
      BY <1>3, <1>7, <1>9, <1>14, <2>1, <3>1 DEF RoomInv, t
    <3>4. b2[q + 1] - b2[w2] = at + size
      <4>1. b2[w2] = base[w] /\ base[w] \in Nat /\ base[q] = line /\ b2[q + 1] = line + size
        BY <1>8, <1>9, <1>14, <3>1
      <4>. QED BY <1>5, <1>6, <2>1, <4>1
    <3>5. wrPtr' = at + size
      BY <1>4, <1>5, <1>6, <2>1 DEF PushedBack
    <3>. QED BY <1>4, <1>5, <1>7, <1>10, <1>14, <1>15, <2>1, <3>1, <3>2, <3>3, <3>4, <3>5 DEF RoomInv
  <2>2. CASE w = q /\ t + size > IssueSize
    <3>1. w2 = q /\ w2 < q + 1 /\ q \in 0 .. q
      BY <1>w, <1>6, <2>2
    <3>2. Top(b2, w2)' = t
      BY <1>4, <1>9, <1>14, <1>15, <2>2, <3>1 DEF Top
    <3>3. b2[q + 1] - b2[q] = size
      BY <1>6, <1>8, <1>9, <3>1
    <3>4. wrPtr' = size
      BY <1>4, <1>5, <1>6, <2>2 DEF PushedBack
    <3>. QED BY <1>4, <1>5, <1>7, <1>10, <1>14, <1>15, <2>2, <3>1, <3>2, <3>3, <3>4 DEF RoomInv
  <2>3. CASE w = q /\ t + size <= IssueSize
    <3>1. w2 = q + 1 /\ ~ (q + 1 < q + 1)
      BY <1>w, <1>5, <1>6, <2>3
    <3>2. Top(b2, w2)' = t + size
      <4>1. /\ b2[w2] = line + size /\ b2[0] = base[0] /\ base[w] = line
            /\ base[0] \in Nat /\ pciePtr' = pciePtr
        BY <1>4, <1>8, <1>9, <1>14, <2>3, <3>1
      <4>2. Top(b2, w2)' = pciePtr + ((line + size) - base[0])
        BY <4>1 DEF Top
      <4>. QED BY SMTT(30), <1>6, <1>15, <4>1, <4>2
    <3>3. wrPtr' = IF t + size = IssueSize THEN 0 ELSE t + size
      <4>1. wrPtr' = (IF t + size >= IssueSize THEN 0 ELSE t + size)
        BY <1>4, <1>5, <2>3 DEF PushedBack
      <4>. QED BY <1>5, <1>6, <2>3, <4>1
    <3>. QED BY <1>4, <1>7, <1>14, <2>3, <3>1, <3>2, <3>3 DEF RoomInv
  <2>. QED BY <1>5, <1>6, <2>1, <2>2, <2>3
<1>17. ASSUME NEW a \in 0 .. IssueSize - 1, a < at \/ a >= at + size
       PROVE  issueMem'[a] = issueMem[a]
  BY <1>4, <1>5, <1>6, <1>17
<1>18. ASSUME NEW i \in 0 .. q - 1, NEW j \in 0 .. (base[i + 1] - base[i]) - 1
       PROVE  /\ At(b2, w2, i)' = At(base, w, i)
              /\ issueMem'[At(base, w, i) + j] = issueMem[At(base, w, i) + j]
  <2>0. i \in 0 .. q /\ i + 1 \in 0 .. q /\ q \in 0 .. q /\ i \in Nat
    BY <1>6, <1>18
  <2>1. /\ i \in 0 .. q /\ i + 1 \in 0 .. q /\ q \in 0 .. q /\ i \in Nat
        /\ base[i] \in Nat /\ base[i + 1] \in Nat /\ base[w] \in Nat /\ base[0] \in Nat
        /\ base[0] <= base[i] /\ base[0] <= base[w]
    BY <1>8, <1>14, <2>0
  <2>2. b2[i] = base[i] /\ b2[0] = base[0]
    BY <1>9, <1>14, <2>1
  <2>3. CASE i < w
    <3>1. i < w2 /\ At(base, w, i) = pciePtr + (base[i] - base[0])
      BY <1>w, <1>6, <1>14, <2>1, <2>3 DEF At
    <3>2. At(b2, w2, i)' = At(base, w, i)
      BY <1>4, <2>2, <3>1 DEF At
    <3>3. i + 1 <= w /\ base[i + 1] <= base[w]
      BY SMTT(30), <1>3, <1>7, <1>14, <2>1, <2>3 DEF BaseInv
    <3>. DEFINE x == base[i]
                y == base[i + 1]
                z == base[0]
                v == base[w]
                a == At(base, w, i) + j
    <3>4. /\ x \in Nat /\ y \in Nat /\ z \in Nat /\ v \in Nat /\ z <= x /\ y <= v
          /\ a = pciePtr + (x - z) + j /\ j \in 0 .. (y - x) - 1 /\ t = pciePtr + (v - z)
      BY <1>15, <1>18, <2>1, <3>1, <3>3
    <3>. HIDE DEF x, y, z, v, a
    <3>5. a \in Nat /\ pciePtr <= a /\ a < t
      BY ONLY <1>6, <3>4
    <3>6. a < at \/ a >= at + size
      <4>1. CASE w < q
        <5>1. InFlight \in Nat
          BY <1>1, <1>6, Counts
        <5>2. at + size <= pciePtr - InFlight
          BY <1>5, <4>1
        <5>. QED BY <1>5, <1>6, <3>5, <5>1, <5>2
      <4>2. CASE w = q /\ t + size <= IssueSize
        BY <1>5, <3>5, <4>2
      <4>3. CASE w = q /\ t + size > IssueSize
        <5>1. InFlight \in Nat
          BY <1>1, <1>6, Counts
        <5>. QED BY <1>5, <1>6, <3>5, <4>3, <5>1
      <4>. QED BY <1>5, <1>6, <4>1, <4>2, <4>3
    <3>7. a \in 0 .. IssueSize - 1
      BY <1>5, <1>6, <1>15, <3>5
    <3>8. issueMem'[a] = issueMem[a]
      BY <1>17, <3>6, <3>7
    <3>. QED BY <3>2, <3>8 DEF a
  <2>4. CASE w <= i
    <3>1. w < q /\ w2 = w /\ ~ (i < w) /\ At(base, w, i) = base[i] - base[w] /\ b2[w] = base[w]
      BY <1>w, <1>6, <1>9, <1>14, <1>18, <2>1, <2>4 DEF At
    <3>2. At(b2, w2, i)' = At(base, w, i)
      BY <2>2, <3>1 DEF At
    <3>3. base[i + 1] <= base[q] /\ base[w] <= base[i]
      BY <1>3, <1>6, <1>7, <1>14, <1>18, <2>1, <2>4 DEF BaseInv
    <3>. DEFINE x == base[i]
                y == base[i + 1]
                z == base[q]
                v == base[w]
                a == At(base, w, i) + j
    <3>4. /\ x \in Nat /\ y \in Nat /\ z \in Nat /\ v \in Nat /\ v <= x /\ y <= z
          /\ a = (x - v) + j /\ j \in 0 .. (y - x) - 1 /\ at = z - v
      BY <1>5, <1>6, <1>8, <1>18, <2>1, <3>1, <3>3
    <3>. HIDE DEF x, y, z, v, a
    <3>5. a \in Nat /\ a < at
      BY ONLY <3>4
    <3>6. a \in 0 .. IssueSize - 1
      BY <1>5, <1>6, <3>5
    <3>7. issueMem'[a] = issueMem[a]
      BY <1>17, <3>5, <3>6
    <3>. QED BY <3>2, <3>7 DEF a
  <2>. QED BY <1>6, <1>14, <2>1, <2>3, <2>4
<1>19. IssuedInv(q, b2, w2)'
  <2>. SUFFICES ASSUME NEW i \in 0 .. (q + 1) - 1, NEW j \in 0 .. (b2[i + 1] - b2[i]) - 1
                PROVE  issueMem'[At(b2, w2, i)' + j] =
                         [place |-> b2[i] + 1 + j,
                          exec |-> StallOf(q, i)' /\ j = (b2[i + 1] - b2[i]) - 1]
    BY <1>7 DEF IssuedInv
  <2>1. CASE i # q
    <3>1. i \in 0 .. q - 1 /\ i \in 0 .. q /\ i + 1 \in 0 .. q
      BY <1>6, <2>1
    <3>2. b2[i] = base[i] /\ b2[i + 1] = base[i + 1]
      BY <1>9, <3>1
    <3>3. j \in 0 .. (base[i + 1] - base[i]) - 1
      BY <3>2
    <3>4. issueMem[At(base, w, i) + j] =
            [place |-> base[i] + 1 + j, exec |-> StallOf(q, i) /\ j = (base[i + 1] - base[i]) - 1]
      BY <1>3, <1>7, <3>1, <3>3 DEF IssuedInv
    <3>. QED BY <1>10, <1>18, <3>1, <3>2, <3>3, <3>4
  <2>2. CASE i = q
    <3>1. q \in 0 .. q /\ b2[i] = line /\ b2[i + 1] = line + size
      BY <1>6, <1>8, <1>9, <2>2
    <3>2. j \in 0 .. size - 1 /\ (b2[i + 1] - b2[i]) - 1 = size - 1
      BY <1>6, <3>1
    <3>3. At(b2, w2, i)' = at
      <4>1. CASE w < q
        <5>1. w2 = w /\ ~ (i < w) /\ b2[w] = base[w]
          BY <1>w, <1>6, <1>9, <1>14, <2>2, <4>1
        <5>. QED BY <1>5, <1>8, <3>1, <4>1, <5>1 DEF At
      <4>2. CASE w = q /\ t + size <= IssueSize
        <5>1. i < w2 /\ b2[0] = base[0]
          BY <1>w, <1>5, <1>6, <1>9, <1>14, <2>2, <4>2
        <5>. QED BY <1>4, <1>5, <1>8, <1>15, <3>1, <4>2, <5>1 DEF At
      <4>3. CASE w = q /\ t + size > IssueSize
        <5>1. w2 = q /\ ~ (i < w2)
          BY <1>w, <1>6, <2>2, <4>3
        <5>2. b2[i] - b2[w2] = 0
          BY <1>6, <2>2, <3>1, <5>1
        <5>. QED BY <1>5, <4>3, <5>1, <5>2 DEF At
      <4>. QED BY <1>5, <1>6, <4>1, <4>2, <4>3
    <3>4. at + j \in 0 .. IssueSize - 1 /\ at + j \in at .. at + size - 1 /\ (at + j) - at = j
          /\ (at + j = at + size - 1 <=> j = size - 1)
      BY <1>5, <1>6, <3>2
    <3>5. issueMem'[at + j] = [place |-> line + 1 + j, exec |-> isExec /\ j = size - 1]
      BY <1>4, <3>4
    <3>. QED BY <1>10, <2>2, <3>1, <3>2, <3>3, <3>5
  <2>. QED BY <2>1, <2>2
<1>20. PendingInv'
  <2>1. ASSUME pending.size > 0, ~pending.here, NEW j \in 0 .. pending.size - 1
        PROVE  issueMem'[pending.from + j] = issueMem[pending.from + j]
    <3>1. InFlight = pending.size /\ pending.from + pending.size = pciePtr
      BY <1>1, <2>1 DEF InFlight, PendingInv
    <3>2. pending.size \in 0 .. MaxSize /\ pending.from \in 0 .. IssueSize
      BY <1>1, Counts
    <3>. DEFINE a == pending.from + j
                s == pending.size
                f == pending.from
    <3>b. s \in Nat /\ f \in Nat /\ f + s = pciePtr /\ a = f + j /\ j \in 0 .. s - 1 /\ s = InFlight
      BY <1>6, <2>1, <3>1, <3>2
    <3>. HIDE DEF a, s, f
    <3>3. s \in Nat /\ a \in Nat /\ a < pciePtr /\ a >= pciePtr - s
      BY ONLY <3>b, <1>6
    <3>4. a \in 0 .. IssueSize - 1
      BY <1>6, <3>3
    <3>5. a < at \/ a >= at + size
      <4>1. CASE w < q
        <5>1. at + size <= pciePtr - s
          BY <1>5, <3>b, <4>1
        <5>. QED BY <1>5, <1>6, <3>3, <5>1
      <4>2. CASE w = q /\ t + size <= IssueSize
        BY <1>5, <1>6, <3>3, <4>2
      <4>3. CASE w = q /\ t + size > IssueSize
        BY <1>5, <1>6, <3>b, <3>3, <4>3
      <4>. QED BY <1>5, <1>6, <4>1, <4>2, <4>3
    <3>6. issueMem'[a] = issueMem[a]
      BY <1>17, <3>4, <3>5
    <3>. QED BY <3>6 DEF a
  <2>. QED BY <1>1, <1>4, <1>10, <2>1 DEF PendingInv
<1>21. ReadyInv'
  BY <1>1, <1>4, <1>10 DEF ReadyInv
<1>22. line + size <= IssueSize + CmddatSize
  <2>1. line <= base[0] + (q - 0) * MaxSize
    BY <1>3, <1>6, <1>7, <1>8, <1>14 DEF BaseInv
  <2>2. q - 0 = q /\ q * MaxSize \in Nat /\ q * MaxSize <= q * MaxSize
    BY <1>6, Products
  <2>3. 0 \in 0 .. MaxSize /\ ~ (0 > 0)
    BY <1>6
  <2>4. q * MaxSize + 0 + MaxSize + MaxSize <= IssueSize
    BY <2>2, <2>3, Room
  <2>5. base[0] \in Nat /\ base[0] <= CmddatSize
    BY <1>1, <1>8, <1>14, Counts
  <2>. QED BY <1>6, <2>1, <2>2, <2>4, <2>5
<1>23. TypeOK'
  <2>1. ASSUME NEW a \in 0 .. IssueSize - 1 PROVE issueMem'[a] \in Cells
    <3>1. CASE a \in at .. at + size - 1
      <4>1. line + 1 + (a - at) \in 0 .. IssueSize + CmddatSize
        BY <1>5, <1>6, <1>22, <3>1
      <4>2. issueMem'[a] = [place |-> line + 1 + (a - at), exec |-> isExec /\ a = at + size - 1]
        BY <1>4, <3>1
      <4>. QED BY <4>1, <4>2 DEF Cells
    <3>2. CASE a \notin at .. at + size - 1
      BY <1>1, <1>4, <3>2 DEF TypeOK
    <3>. QED BY <3>1, <3>2
  <2>2. issueMem' \in [0 .. IssueSize - 1 -> Cells]
    BY <1>4, <2>1
  <2>3. wrPtr' \in 0 .. IssueSize - 1
    BY <1>4, <1>5, <1>6 DEF PushedBack
  <2>4. line' \in 0 .. IssueSize + CmddatSize /\ hsize' \in 0 .. MaxSize
    BY <1>4, <1>6, <1>22
  <2>. QED BY <1>1, <1>4, <2>2, <2>3, <2>4 DEF TypeOK
<1>24. w2 \in 0 .. Entries + 1 /\ LineInv(q, b2, w2)'
  BY <1>6, <1>11, <1>13, <1>14, <1>16, <1>19 DEF LineInv
<1>. QED BY <1>1, <1>9, <1>20, <1>21, <1>23, <1>24 DEF IssueInv

-----------------------------------------------------------------------------
(***************************************************************************)
(* The host waits for an entry and writes it.                              *)
(***************************************************************************)
\* What a step leaves alone when it neither issues nor takes a command.
LEMMA LineFrame ==
  ASSUME NEW q \in 0 .. Entries, NEW p \in 0 .. Entries, NEW base \in [0 .. Entries + 1 -> Nat],
         NEW w \in 0 .. Entries + 1,
         BaseInv(q, base), RoomInv(q, base, w), IssuedInv(q, base, w),
         Commands(p)' = Commands(q),
         \A i \in 0 .. Commands(q) - 1 : /\ SizeOf(p, i)' = SizeOf(q, i)
                                         /\ StallOf(p, i)' = StallOf(q, i),
         Ready' + pending'.size = Ready + pending.size, InFlight' = InFlight,
         line' = line, pciePtr' = pciePtr, wrPtr' = wrPtr, issueMem' = issueMem
  PROVE  BaseInv(p, base)' /\ RoomInv(p, base, w)' /\ IssuedInv(p, base, w)'
<1>1. BaseInv(p, base)'
  BY DEF BaseInv
<1>2. Top(base, w)' = Top(base, w) /\ \A i \in 0 .. Commands(q) - 1 : At(base, w, i)' = At(base, w, i)
  BY DEF Top, At
<1>3. RoomInv(p, base, w)'
  BY <1>2 DEF RoomInv
<1>4. IssuedInv(p, base, w)'
  BY <1>2 DEF IssuedInv
<1>. QED BY <1>1, <1>3, <1>4

LEMMA HostLineStep ==
  ASSUME IssueInv, HostStep
  PROVE  IssueInv'
<1>1. TypeOK /\ PendingInv /\ ReadyInv
  BY DEF IssueInv
<1>2. PICK q \in 0 .. Entries, base \in [0 .. Entries + 1 -> Nat], w \in 0 .. Entries + 1 :
        LineInv(q, base, w)
  BY DEF IssueInv
<1>3. FetchInv(q) /\ BaseInv(q, base) /\ RoomInv(q, base, w) /\ IssuedInv(q, base, w)
  BY <1>2 DEF LineInv
<1>4. /\ Entries \in Nat \ {0, 1} /\ MaxSize \in Nat \ {0} /\ q \in 0 .. Entries
      /\ hsize \in 0 .. MaxSize /\ hstall \in BOOLEAN
      /\ devPtr \in 0 .. Entries /\ devFence \in 0 .. Entries /\ rdPtr \in 0 .. Entries
  BY <1>1, IssueAssumption DEF TypeOK
<1>5. /\ dpc' = dpc /\ qPtr' = qPtr /\ pciePtr' = pciePtr /\ fence' = fence /\ cmdPtr' = cmdPtr
      /\ cmddat' = cmddat /\ pending' = pending /\ stall' = stall
      /\ line' = line /\ issueMem' = issueMem /\ wrPtr' = wrPtr /\ rdPtr' = rdPtr
  BY DEF HostStep, ReadFence, FetchQueueReserveBack, FetchQueueWrite, prefetcher
<1>6. Ready' = Ready /\ InFlight' = InFlight /\ Ready' + pending'.size = Ready + pending.size
  BY <1>5 DEF Ready, InFlight
<1>7. PendingInv' /\ ReadyInv'
  BY <1>1, <1>5, <1>6 DEF PendingInv, ReadyInv
<1>8. CASE FetchQueueWrite
  <2>1. /\ q + 1 \in 0 .. Entries /\ FetchInv(q + 1)'
        /\ Entry(q)' = [size |-> hsize, stall |-> hstall]
        /\ \A i \in 0 .. Entries - 1 : i # q => Entry(i)' = Entry(i)
    BY <1>1, <1>3, <1>8, FetchWrite
  <2>2. /\ hpc = "write" /\ hpc' = "idle" /\ hsize' = 0 /\ hstall' = FALSE /\ devPtr' = devPtr + 1
        /\ devFence' = devFence
        /\ fetchQ' = [fetchQ EXCEPT ![devPtr] = [size |-> hsize, stall |-> hstall]]
    BY <1>8 DEF FetchQueueWrite
  <2>3. Commands(q) = q + 1 /\ Commands(q + 1)' = q + 1
    BY <2>2 DEF Commands
  <2>4. ASSUME NEW i \in 0 .. (q + 1) - 1
        PROVE  SizeOf(q + 1, i)' = SizeOf(q, i) /\ StallOf(q + 1, i)' = StallOf(q, i)
    <3>1. i < q + 1 /\ i \in 0 .. Entries - 1
      BY <1>4, <2>1
    <3>2. CASE i = q
      BY <1>4, <2>1, <3>1, <3>2 DEF SizeOf, StallOf
    <3>3. CASE i # q
      <4>1. i < q
        BY <1>4, <2>4, <3>3
      <4>. QED BY <2>1, <3>1, <3>3, <4>1 DEF SizeOf, StallOf
    <3>. QED BY <3>2, <3>3
  <2>5. BaseInv(q + 1, base)' /\ RoomInv(q + 1, base, w)' /\ IssuedInv(q + 1, base, w)'
    BY <1>3, <1>5, <1>6, <2>1, <2>3, <2>4, LineFrame
  <2>6. TypeOK'
    <3>1. devPtr' \in 0 .. Entries /\ hsize' \in 0 .. MaxSize
      BY <1>1, <1>3, <1>4, <2>2, EntryFree
    <3>2. fetchQ' \in [0 .. Entries - 1 -> [size : 0 .. MaxSize, stall : BOOLEAN]]
      BY <1>1, <1>4, <2>2 DEF TypeOK
    <3>. QED BY <1>1, <1>5, <2>2, <3>1, <3>2 DEF TypeOK
  <2>. QED BY <1>7, <2>1, <2>5, <2>6 DEF IssueInv, LineInv
<1>9. CASE ReadFence \/ FetchQueueReserveBack
  <2>1. FetchInv(q)'
    BY <1>1, <1>3, <1>9, FetchFence, FetchReserve
  <2>2. /\ hsize' = hsize /\ hstall' = hstall /\ fetchQ' = fetchQ /\ hpc # "idle" /\ hpc' # "idle"
        /\ devPtr' \in {0, devPtr} /\ devFence' \in {devFence, rdPtr}
        /\ hpc' \in {"wrapped", "write", hpc}
    BY <1>9 DEF ReadFence, FetchQueueReserveBack
  <2>3. /\ Commands(q)' = Commands(q)
        /\ \A i \in 0 .. Commands(q) - 1 : /\ SizeOf(q, i)' = SizeOf(q, i)
                                           /\ StallOf(q, i)' = StallOf(q, i)
    BY <1>5, <2>2 DEF Commands, SizeOf, StallOf, Entry
  <2>4. BaseInv(q, base)' /\ RoomInv(q, base, w)' /\ IssuedInv(q, base, w)'
    BY <1>3, <1>5, <1>6, <2>3, LineFrame
  <2>5. TypeOK'
    <3>1. devPtr' \in 0 .. Entries /\ devFence' \in 0 .. Entries
      BY <1>4, <2>2
    <3>2. hpc' \in {"idle", "reserve", "wrapped", "write"}
      BY <1>1, <2>2 DEF TypeOK
    <3>. QED BY <1>1, <1>5, <2>2, <3>1, <3>2 DEF TypeOK
  <2>. QED BY <1>7, <2>1, <2>4, <2>5 DEF IssueInv, LineInv
<1>. QED BY <1>8, <1>9 DEF HostStep

-----------------------------------------------------------------------------
(***************************************************************************)
(* Data arrives.                                                           *)
(***************************************************************************)
\* Where the commands lie in the issue queue: not in what is being read.
LEMMA Apart ==
  ASSUME TypeOK, PendingInv, NEW q \in 0 .. Entries, NEW base \in [0 .. Entries + 1 -> Nat],
         NEW w \in 0 .. Entries + 1, LineInv(q, base, w),
         NEW i \in 0 .. Commands(q) - 1, NEW j \in 0 .. (base[i + 1] - base[i]) - 1
  PROVE  /\ At(base, w, i) + j \in 0 .. IssueSize - 1
         /\ At(base, w, i) + j >= pciePtr \/ At(base, w, i) + j < pciePtr - InFlight
<1>. DEFINE n == Commands(q)
<1>1. FetchInv(q) /\ BaseInv(q, base) /\ RoomInv(q, base, w)
  BY DEF LineInv
<1>2. /\ n \in 0 .. Entries + 1
      /\ \A k \in 0 .. n : base[k] \in Nat /\ base[0] <= base[k]
      /\ \A k, m \in 0 .. n : k <= m => base[k] <= base[m]
  BY <1>1, Bases DEF BaseInv
<1>3. /\ Entries \in Nat /\ IssueSize \in Nat /\ pciePtr \in 0 .. IssueSize
      /\ InFlight \in Nat /\ InFlight <= pciePtr
  <2>1. Entries \in Nat /\ IssueSize \in Nat /\ MaxSize \in Nat /\ pciePtr \in 0 .. IssueSize
    BY IssueAssumption DEF TypeOK
  <2>2. InFlight \in 0 .. MaxSize /\ InFlight <= pciePtr
    BY Counts
  <2>. QED BY <2>1, <2>2
<1>4. w \in 0 .. n /\ Top(base, w) <= IssueSize
  BY <1>1 DEF RoomInv
<1>. HIDE DEF n
<1>5. i \in 0 .. n /\ i + 1 \in 0 .. n /\ 0 \in 0 .. n /\ n \in 0 .. n /\ i \in 0 .. n - 1
  BY SMTT(30), <1>2, <1>3 DEF n
<1>6. CASE i < w
  <2>1. i + 1 <= w /\ base[i + 1] <= base[w]
    BY <1>2, <1>4, <1>5, <1>6
  <2>. DEFINE x == base[i]
              y == base[i + 1]
              z == base[0]
              v == base[w]
              a == At(base, w, i) + j
  <2>2. /\ x \in Nat /\ y \in Nat /\ z \in Nat /\ v \in Nat /\ z <= x /\ y <= v
        /\ a = pciePtr + (x - z) + j /\ j \in 0 .. (y - x) - 1 /\ pciePtr + (v - z) <= IssueSize
    BY <1>2, <1>4, <1>5, <1>6, <2>1 DEF At, Top
  <2>. HIDE DEF x, y, z, v, a
  <2>3. a \in 0 .. IssueSize - 1 /\ a >= pciePtr
    BY ONLY <1>3, <2>2
  <2>. QED BY <2>3 DEF a
<1>7. CASE w <= i
  <2>1. w < n
    BY <1>2, <1>3, <1>4, <1>5, <1>7
  <2>2. base[n] - base[w] <= pciePtr - InFlight
    BY <1>1, <2>1 DEF RoomInv, n
  <2>3. base[i + 1] <= base[n] /\ base[w] <= base[i] /\ ~ (i < w)
    BY <1>2, <1>4, <1>5, <1>7
  <2>. DEFINE x == base[i]
              y == base[i + 1]
              z == base[n]
              v == base[w]
              a == At(base, w, i) + j
              f == InFlight
  <2>4. /\ x \in Nat /\ y \in Nat /\ z \in Nat /\ v \in Nat /\ v <= x /\ y <= z /\ f \in Nat
        /\ a = (x - v) + j /\ j \in 0 .. (y - x) - 1 /\ z - v <= pciePtr - f /\ f <= pciePtr
    BY <1>2, <1>3, <1>4, <1>5, <2>2, <2>3 DEF At
  <2>. HIDE DEF x, y, z, v, a, f
  <2>5. a \in 0 .. IssueSize - 1 /\ a < pciePtr - f
    BY ONLY <1>3, <2>4
  <2>. QED BY <2>5 DEF a, f
<1>. QED BY <1>2, <1>3, <1>4, <1>5, <1>6, <1>7

LEMMA ArriveStep ==
  ASSUME IssueInv, ReadArrives
  PROVE  IssueInv'
<1>1. TypeOK /\ PendingInv /\ ReadyInv
  BY DEF IssueInv
<1>2. PICK q \in 0 .. Entries, base \in [0 .. Entries + 1 -> Nat], w \in 0 .. Entries + 1 :
        LineInv(q, base, w)
  BY DEF IssueInv
<1>3. FetchInv(q) /\ BaseInv(q, base) /\ RoomInv(q, base, w) /\ IssuedInv(q, base, w)
  BY <1>2 DEF LineInv
<1>4. /\ pending.size > 0 /\ ~pending.here
      /\ cmddat' = [a \in 0 .. CmddatSize - 1 |->
                      IF a \in fence .. fence + pending.size - 1
                        THEN issueMem[pending.from + (a - fence)] ELSE cmddat[a]]
      /\ issueMem' = [a \in 0 .. IssueSize - 1 |->
                        IF a \in pending.from .. pending.from + pending.size - 1
                          THEN Junk ELSE issueMem[a]]
      /\ pending' = [pending EXCEPT !.here = TRUE]
      /\ hpc' = hpc /\ hsize' = hsize /\ hstall' = hstall /\ wrPtr' = wrPtr /\ devPtr' = devPtr
      /\ devFence' = devFence /\ line' = line /\ fetchQ' = fetchQ /\ rdPtr' = rdPtr
      /\ dpc' = dpc /\ qPtr' = qPtr /\ pciePtr' = pciePtr /\ fence' = fence /\ cmdPtr' = cmdPtr
      /\ stall' = stall
  BY DEF ReadArrives
<1>5. pending \in [from : 0 .. IssueSize, size : 0 .. MaxSize, here : BOOLEAN]
  BY <1>1 DEF PendingInv
<1>6. /\ pending'.from = pending.from /\ pending'.size = pending.size /\ pending'.here = TRUE
      /\ pending' \in [from : 0 .. IssueSize, size : 0 .. MaxSize, here : BOOLEAN]
  BY <1>4, <1>5
<1>. DEFINE f == pending.from
            s == pending.size
<1>7. /\ IssueSize \in Nat /\ CmddatSize \in Nat /\ MaxSize \in Nat /\ Entries \in Nat
      /\ f \in 0 .. IssueSize /\ s \in 0 .. MaxSize /\ s > 0 /\ f + s = pciePtr
      /\ pciePtr \in 0 .. IssueSize /\ fence \in 0 .. CmddatSize /\ fence + s <= CmddatSize
      /\ cmdPtr \in 0 .. CmddatSize /\ rdPtr # Entries
  BY <1>1, <1>4, <1>5, IssueAssumption DEF TypeOK, PendingInv
<1>8. Ready' = Ready /\ InFlight = s /\ InFlight' = 0
  BY <1>4, <1>6 DEF Ready, InFlight
<1>9. Ready \in Nat
  BY <1>1, Counts
<1>10. FetchInv(q)'
  BY <1>3, <1>4 DEF FetchInv, FenceInv, Place, Entry
<1>11. /\ Commands(q)' = Commands(q)
       /\ \A i \in 0 .. Commands(q) - 1 : /\ SizeOf(q, i)' = SizeOf(q, i)
                                          /\ StallOf(q, i)' = StallOf(q, i)
  BY <1>4 DEF Commands, SizeOf, StallOf, Entry
<1>12. BaseInv(q, base)'
  BY <1>3, <1>4, <1>6, <1>8, <1>11 DEF BaseInv
<1>13. Top(base, w)' = Top(base, w) /\ \A i \in 0 .. Commands(q) - 1 : At(base, w, i)' = At(base, w, i)
  BY <1>4 DEF Top, At
<1>14. RoomInv(q, base, w)'
  <2>1. w < Commands(q) => base[Commands(q)] - base[w] <= pciePtr - 0
    <3>1. ASSUME w < Commands(q) PROVE base[Commands(q)] - base[w] <= pciePtr - 0
      <4>1. base[Commands(q)] - base[w] <= pciePtr - s
        BY <1>3, <1>8, <3>1 DEF RoomInv
      <4>2. Commands(q) \in 0 .. Entries + 1 /\ w \in 0 .. Entries + 1 /\ base[Commands(q)] \in Nat
            /\ base[w] \in Nat
        BY <1>1, <1>3, <1>7, Bases
      <4>. HIDE DEF s
      <4>. QED BY <1>7, <4>1, <4>2
    <3>. QED BY <3>1
  <2>. QED BY <1>3, <1>4, <1>8, <1>11, <1>13, <2>1 DEF RoomInv
<1>15. IssuedInv(q, base, w)'
  <2>. SUFFICES ASSUME NEW i \in 0 .. Commands(q) - 1, NEW j \in 0 .. (base[i + 1] - base[i]) - 1
                PROVE  issueMem'[At(base, w, i) + j] = issueMem[At(base, w, i) + j]
    BY <1>3, <1>11, <1>13 DEF IssuedInv
  <2>. DEFINE a == At(base, w, i) + j
  <2>1. a \in 0 .. IssueSize - 1 /\ (a >= pciePtr \/ a < pciePtr - s)
    BY <1>1, <1>2, <1>8, Apart
  <2>. HIDE DEF a, s, f
  <2>2. a \notin f .. f + s - 1
    BY <1>7, <2>1
  <2>3. issueMem'[a] = issueMem[a]
    BY <1>4, <2>1, <2>2 DEF f, s
  <2>. QED BY <2>3 DEF a
<1>16. PendingInv'
  <2>1. ASSUME NEW j \in 0 .. s - 1
        PROVE  cmddat'[fence + j] = [place |-> Ready + 1 + j,
                                     exec |-> dpc = "stallBarrier" /\ j = s - 1]
    <3>1. issueMem[f + j] = [place |-> Ready + 1 + j, exec |-> dpc = "stallBarrier" /\ j = s - 1]
      BY <1>1, <1>4, <2>1 DEF PendingInv
    <3>2. fence + j \in 0 .. CmddatSize - 1 /\ fence + j \in fence .. fence + s - 1 /\ (fence + j) - fence = j
      <4>. HIDE DEF s
      <4>. QED BY <1>7, <2>1
    <3>3. cmddat'[fence + j] = issueMem[f + j]
      BY <1>4, <3>2
    <3>. QED BY <3>1, <3>3
  <2>2. \A j \in 0 .. pending'.size - 1 :
          (IF pending'.here THEN cmddat'[fence' + j] ELSE issueMem'[pending'.from + j]) =
            [place |-> Ready' + 1 + j, exec |-> dpc' = "stallBarrier" /\ j = pending'.size - 1]
    BY ZenonT(40), <1>4, <1>6, <1>8, <2>1
  <2>3. /\ pending'.size # 0 /\ pending'.from + pending'.size = pciePtr' /\ rdPtr' # Entries
    BY <1>4, <1>6, <1>7
  <2>. QED BY <1>6, <2>2, <2>3 DEF PendingInv
<1>17. ReadyInv'
  <2>1. ASSUME NEW a \in cmdPtr .. fence - 1 PROVE cmddat'[a] = cmddat[a]
    <3>1. a \in 0 .. CmddatSize - 1 /\ a \notin fence .. fence + s - 1
      BY <1>7, <2>1
    <3>. QED BY <1>4, <3>1
  <2>. QED BY ZenonT(40), <1>1, <1>4, <1>6, <1>8, <2>1 DEF ReadyInv
<1>18. TypeOK'
  <2>1. Junk \in Cells
    BY <1>7 DEF Junk, Cells
  <2>2. issueMem' \in [0 .. IssueSize - 1 -> Cells]
    BY <1>1, <1>4, <2>1 DEF TypeOK
  <2>3. ASSUME NEW a \in 0 .. CmddatSize - 1 PROVE cmddat'[a] \in Cells
    <3>1. CASE a \in fence .. fence + s - 1
      <4>1. f + (a - fence) \in 0 .. IssueSize - 1
        <5>. HIDE DEF f, s
        <5>. QED BY <1>7, <3>1
      <4>2. cmddat'[a] = issueMem[f + (a - fence)]
        BY <1>4, <3>1
      <4>. QED BY <1>1, <4>1, <4>2 DEF TypeOK
    <3>2. CASE a \notin fence .. fence + s - 1
      BY <1>1, <1>4, <3>2 DEF TypeOK
    <3>. QED BY <3>1, <3>2
  <2>4. cmddat' \in [0 .. CmddatSize - 1 -> Cells]
    BY <1>4, <2>3
  <2>. QED BY <1>1, <1>4, <1>6, <2>2, <2>4 DEF TypeOK
<1>. QED BY <1>10, <1>12, <1>14, <1>15, <1>16, <1>17, <1>18 DEF IssueInv, LineInv

-----------------------------------------------------------------------------
(***************************************************************************)
(* The prefetcher asks for the next command.                               *)
(***************************************************************************)
\* The prefetcher reads where the host has put the command.
LEMMA PcieFollows ==
  ASSUME TypeOK, PendingInv, NEW q \in 0 .. Entries, NEW base \in [0 .. Entries + 1 -> Nat],
         NEW w \in 0 .. Entries + 1, LineInv(q, base, w), Entry(0).size > 0, q > 0
  PROVE  /\ Commands(q) \in 1 .. Entries + 1 /\ Commands(q) - 1 \in 0 .. Entries
         /\ w \in 0 .. Commands(q)
         /\ Entry(0).size = base[1] - base[0]
         /\ PcieFrom(Entry(0).size) = At(base, w, 0)
         /\ w = 0 => PcieFrom(Entry(0).size) = 0 /\ Entry(0).size < IssueSize
         /\ w > 0 => PcieFrom(Entry(0).size) = pciePtr /\ pciePtr + Entry(0).size <= IssueSize
         /\ \A j \in 0 .. Entry(0).size - 1 :
              issueMem[PcieFrom(Entry(0).size) + j] =
                [place |-> base[0] + 1 + j, exec |-> Entry(0).stall /\ j = Entry(0).size - 1]
<1>. DEFINE n == Commands(q)
            s == Entry(0).size
<1>1. FetchInv(q) /\ BaseInv(q, base) /\ RoomInv(q, base, w) /\ IssuedInv(q, base, w)
  BY DEF LineInv
<1>2. /\ Entries \in Nat \ {0, 1} /\ MaxSize \in Nat \ {0} /\ IssueSize \in Nat /\ q \in 0 .. Entries
      /\ pciePtr \in 0 .. IssueSize
  BY IssueAssumption DEF TypeOK
<1>3. n \in 1 .. Entries + 1 /\ n - 1 \in 0 .. Entries /\ 0 \in 0 .. n - 1
  BY <1>2 DEF Commands
<1>4. SizeOf(q, 0) = s /\ StallOf(q, 0) = Entry(0).stall
  BY DEF SizeOf, StallOf
<1>5. /\ base[0] \in Nat /\ base[0 + 1] \in Nat /\ base[0 + 1] - base[0] = s /\ s \in 1 .. MaxSize
  BY <1>1, <1>3, <1>4, Bases
<1>6. base[1] \in Nat /\ s = base[1] - base[0]
  BY <1>5
<1>7. w \in 0 .. n /\ Top(base, w) <= IssueSize
  BY <1>1 DEF RoomInv
<1>8. s < IssueSize
  <2>1. 0 \in 0 .. Entries /\ 0 \in 0 .. MaxSize /\ ~ (0 > 0) /\ 0 \in Nat /\ 0 <= 0 * MaxSize
    BY <1>2
  <2>2. 0 + 0 + MaxSize + MaxSize <= IssueSize
    BY <2>1, Room
  <2>. QED BY <1>2, <1>5, <2>2
<1>9. PcieFrom(s) = IF pciePtr + s > IssueSize THEN 0 ELSE pciePtr
  BY DEF PcieFrom
<1>. HIDE DEF n, s
<1>10. ASSUME w = 0 PROVE PcieFrom(s) = 0 /\ At(base, w, 0) = 0
  <2>1. w < n
    BY <1>2, <1>3, <1>10
  <2>2. Top(base, w) + (base[w + 1] - base[w]) > IssueSize
    BY <1>1, <2>1 DEF RoomInv, n
  <2>3. pciePtr + s > IssueSize
    BY <1>2, <1>5, <1>6, <1>10, <2>2 DEF Top
  <2>4. PcieFrom(s) = 0
    BY <1>9, <2>3
  <2>5. At(base, w, 0) = 0
    BY <1>5, <1>10 DEF At
  <2>. QED BY <2>4, <2>5
<1>11. ASSUME w > 0
       PROVE  PcieFrom(s) = pciePtr /\ At(base, w, 0) = pciePtr /\ pciePtr + s <= IssueSize
  <2>1. 1 <= w /\ 1 \in 0 .. n
    BY <1>3, <1>7, <1>11
  <2>2. base[1] <= base[w]
    BY <1>1, <1>7, <2>1 DEF BaseInv, n
  <2>3. base[w] \in Nat
    BY <1>2, <1>7
  <2>4. pciePtr + (base[w] - base[0]) <= IssueSize
    BY <1>7 DEF Top
  <2>5. pciePtr + s <= IssueSize
    BY SMTT(30), <1>2, <1>5, <1>6, <2>2, <2>3, <2>4
  <2>6. PcieFrom(s) = pciePtr
    BY <1>2, <1>5, <1>9, <2>5
  <2>7. At(base, w, 0) = pciePtr
    BY <1>2, <1>5, <1>11 DEF At
  <2>. QED BY <2>5, <2>6, <2>7
<1>12. PcieFrom(s) = At(base, w, 0)
       /\ (w = 0 => PcieFrom(s) = 0 /\ s < IssueSize)
       /\ (w > 0 => PcieFrom(s) = pciePtr /\ pciePtr + s <= IssueSize)
  <2>1. w = 0 \/ w > 0
    BY <1>3, <1>7
  <2>. QED BY <1>8, <1>10, <1>11, <2>1
<1>13. \A j \in 0 .. s - 1 :
         issueMem[PcieFrom(s) + j] =
           [place |-> base[0] + 1 + j, exec |-> Entry(0).stall /\ j = s - 1]
  <2>1. \A j \in 0 .. (base[0 + 1] - base[0]) - 1 :
          issueMem[At(base, w, 0) + j] =
            [place |-> base[0] + 1 + j, exec |-> StallOf(q, 0) /\ j = (base[0 + 1] - base[0]) - 1]
    BY <1>1, <1>3 DEF IssuedInv, n
  <2>. QED BY <1>4, <1>5, <1>12, <2>1
<1>. QED BY <1>3, <1>6, <1>7, <1>12, <1>13 DEF n, s

\* The command is taken from the line.
LEMMA TakeLine ==
  ASSUME TypeOK, PendingInv, NEW q \in 0 .. Entries, NEW base \in [0 .. Entries + 1 -> Nat],
         NEW w \in 0 .. Entries + 1, LineInv(q, base, w), Entry(0).size > 0, q > 0,
         InFlight = 0, Ready' = base[0],
         pending' = [from |-> PcieFrom(Entry(0).size), size |-> Entry(0).size, here |-> FALSE],
         pciePtr' = PcieFrom(Entry(0).size) + Entry(0).size,
         \A i \in 0 .. Entries - 2 : Entry(i)' = Entry(i + 1),
         hpc' = hpc, hsize' = hsize, hstall' = hstall, wrPtr' = wrPtr,
         line' = line, issueMem' = issueMem
  PROVE  \E b \in [0 .. Entries + 1 -> Nat], v \in 0 .. Entries + 1 :
           BaseInv(q - 1, b)' /\ RoomInv(q - 1, b, v)' /\ IssuedInv(q - 1, b, v)'
<1>. DEFINE n == Commands(q)
            s == Entry(0).size
<1>1. FetchInv(q) /\ BaseInv(q, base) /\ RoomInv(q, base, w) /\ IssuedInv(q, base, w)
  BY DEF LineInv
<1>2. /\ Entries \in Nat \ {0, 1} /\ MaxSize \in Nat \ {0} /\ IssueSize \in Nat /\ q \in 1 .. Entries
      /\ pciePtr \in 0 .. IssueSize /\ wrPtr \in 0 .. IssueSize - 1
  BY IssueAssumption DEF TypeOK
<1>3. /\ n \in 1 .. Entries + 1 /\ n - 1 \in 0 .. Entries /\ w \in 0 .. n
      /\ s = base[1] - base[0]
      /\ w = 0 => PcieFrom(s) = 0 /\ s < IssueSize
      /\ w > 0 => PcieFrom(s) = pciePtr /\ pciePtr + s <= IssueSize
  BY PcieFollows
<1>4. /\ \A i \in 0 .. n : base[i] \in Nat /\ base[0] <= base[i] /\ base[i] <= line
      /\ \A i \in 0 .. n - 1 : /\ base[i + 1] - base[i] = SizeOf(q, i)
                               /\ base[i + 1] - base[i] \in 1 .. MaxSize
      /\ base[n] = line
  BY <1>1, Bases
<1>5. Commands(q - 1)' = n - 1
  BY <1>2 DEF Commands
<1>6. ASSUME NEW i \in 0 .. n - 2
      PROVE  SizeOf(q - 1, i)' = SizeOf(q, i + 1) /\ StallOf(q - 1, i)' = StallOf(q, i + 1)
  <2>1. i < q - 1 <=> i + 1 < q
    BY <1>2, <1>3
  <2>2. CASE i + 1 < q
    <3>1. i \in 0 .. Entries - 2
      BY <1>2, <1>3, <2>2
    <3>. QED BY <2>1, <2>2, <3>1 DEF SizeOf, StallOf
  <2>3. CASE ~ (i + 1 < q)
    BY <2>1, <2>3 DEF SizeOf, StallOf
  <2>. QED BY <2>2, <2>3
<1>7. /\ s \in 1 .. MaxSize /\ base[0] \in Nat /\ base[1] \in Nat /\ 1 \in 0 .. n /\ 0 \in 0 .. n
      /\ n \in 0 .. n
  <2>1. 0 \in 0 .. n - 1 /\ 0 \in 0 .. n /\ 1 \in 0 .. n /\ n \in 0 .. n /\ 0 + 1 = 1
    BY SMTT(30), <1>2, <1>3
  <2>. QED BY <1>3, <1>4, <2>1
<1>8. InFlight' = s /\ pending'.size = s
  BY DEF InFlight
<1>. HIDE DEF n, s
<1>9. PICK b \in [0 .. Entries + 1 -> Nat] : \A i \in 0 .. n - 1 : b[i] = base[i + 1]
  <2>. DEFINE c == [i \in 0 .. Entries + 1 |-> IF i \in 0 .. n - 1 THEN base[i + 1] ELSE 0]
  <2>1. ASSUME NEW i \in 0 .. n - 1 PROVE i \in 0 .. Entries + 1 /\ base[i + 1] \in Nat
    BY <1>2, <1>3
  <2>2. c \in [0 .. Entries + 1 -> Nat] /\ \A i \in 0 .. n - 1 : c[i] = base[i + 1]
    BY <2>1
  <2>. QED BY <2>2
<1>10. PICK v \in 0 .. n - 1 : /\ w = 0 => v = n - 1 /\ ~ (v < n - 1)
                               /\ w > 0 => v = w - 1 /\ v + 1 = w /\ (v < n - 1 <=> w < n)
  <2>1. n \in Nat /\ n >= 1 /\ w \in 0 .. n
    BY <1>2, <1>3
  <2>2. n - 1 \in 0 .. n - 1 /\ ~ (n - 1 < n - 1) /\ (w = 0 \/ w > 0) /\ ~ (0 > 0)
    BY ONLY <2>1
  <2>3. w > 0 => w - 1 \in 0 .. n - 1 /\ (w - 1) + 1 = w /\ (w - 1 < n - 1 <=> w < n)
    BY ONLY <2>1
  <2>. QED BY <2>2, <2>3
<1>11. b[0] = base[1] /\ b[n - 1] = base[n]
  <2>1. 0 \in 0 .. n - 1 /\ n - 1 \in 0 .. n - 1 /\ 0 + 1 = 1 /\ (n - 1) + 1 = n
    BY <1>2, <1>3
  <2>. QED BY <1>9, <2>1
<1>12. BaseInv(q - 1, b)'
  <2>1. b[0] = Ready' + pending'.size
    BY <1>3, <1>7, <1>8, <1>11
  <2>2. b[n - 1] = line'
    BY <1>4, <1>11
  <2>3. ASSUME NEW i \in 0 .. (n - 1) - 1 PROVE b[i + 1] = b[i] + SizeOf(q - 1, i)'
    <3>1. /\ i \in 0 .. n - 2 /\ i \in 0 .. n - 1 /\ i + 1 \in 0 .. n - 1
      BY <1>2, <1>3
    <3>2. base[(i + 1) + 1] = base[i + 1] + SizeOf(q, i + 1)
      BY <1>1, <3>1 DEF BaseInv, n
    <3>. QED BY <1>6, <1>9, <3>1, <3>2
  <2>4. ASSUME NEW i \in 0 .. n - 1, NEW j \in 0 .. n - 1, i <= j
        PROVE  b[i] <= b[j] /\ b[j] <= b[i] + (j - i) * MaxSize
    <3>1. i + 1 \in 0 .. n /\ j + 1 \in 0 .. n /\ i + 1 <= j + 1 /\ (j + 1) - (i + 1) = j - i
      BY <1>2, <1>3, <2>4
    <3>2. base[i + 1] <= base[j + 1] /\ base[j + 1] <= base[i + 1] + ((j + 1) - (i + 1)) * MaxSize
      BY <1>1, <3>1 DEF BaseInv, n
    <3>. QED BY <1>9, <3>1, <3>2
  <2>. QED BY <1>5, <2>1, <2>2, <2>3, <2>4 DEF BaseInv
<1>13. /\ w = 0 => pciePtr' = s
       /\ w > 0 => pciePtr' = pciePtr + s
  BY <1>3, <1>7 DEF s
<1>14. RoomInv(q - 1, b, v)'
  <2>1. CASE w = 0
    <3>1. v = n - 1 /\ b[v] = base[n] /\ ~ (v < n - 1)
      BY <1>10, <1>11, <2>1
    <3>2. 0 < n
      BY <1>2, <1>3
    <3>3. wrPtr = base[n] - base[0]
      BY <1>1, <2>1, <3>2 DEF RoomInv, n
    <3>4. base[n] \in Nat
      BY <1>4, <1>7
    <3>5. Top(b, v)' = s + (base[n] - base[1])
      BY <1>11, <1>13, <2>1, <3>1 DEF Top
    <3>6. Top(b, v)' = wrPtr
      BY SMTT(30), <1>3, <1>7, <3>3, <3>4, <3>5
    <3>7. wrPtr # IssueSize /\ wrPtr <= IssueSize
      BY <1>2
    <3>. QED BY <1>5, <1>10, <3>1, <3>6, <3>7 DEF RoomInv
  <2>2. CASE w > 0
    <3>1. /\ v = w - 1 /\ v + 1 = w /\ v \in 0 .. n - 1 /\ (v < n - 1 <=> w < n)
          /\ b[v] = base[w] /\ base[w] \in Nat
      <4>1. v = w - 1 /\ v + 1 = w /\ v \in 0 .. n - 1 /\ (v < n - 1 <=> w < n)
        BY <1>10, <2>2
      <4>2. b[v] = base[v + 1]
        BY <1>9, <4>1
      <4>. QED BY <1>3, <1>4, <4>1, <4>2
    <3>2. Top(b, v)' = (pciePtr + s) + (base[w] - base[1])
      BY <1>11, <1>13, <2>2, <3>1 DEF Top
    <3>3. Top(b, v)' = Top(base, w)
      <4>1. Top(base, w) = pciePtr + (base[w] - base[0])
        BY DEF Top
      <4>. DEFINE x == base[w]
                  y == base[1]
                  z == base[0]
      <4>2. x \in Nat /\ y \in Nat /\ z \in Nat /\ s = y - z
        BY <1>3, <1>7, <3>1
      <4>. HIDE DEF x, y, z
      <4>3. (pciePtr + s) + (x - y) = pciePtr + (x - z)
        BY <1>2, <4>2
      <4>. QED BY <3>2, <4>1, <4>3 DEF x, y, z
    <3>4. Top(base, w) <= IssueSize
      BY <1>1 DEF RoomInv
    <3>5. CASE w < n
      <4>1. /\ Top(base, w) + (base[w + 1] - base[w]) > IssueSize
            /\ base[n] - base[w] <= pciePtr - 0 /\ wrPtr = base[n] - base[w]
        BY <1>1, <3>5 DEF RoomInv, n
      <4>2. b[v + 1] = base[w + 1]
        <5>1. v + 1 \in 0 .. n - 1 /\ (v + 1) + 1 = w + 1
          BY <1>2, <1>3, <3>1, <3>5
        <5>. QED BY <1>9, <5>1
      <4>3. base[n] \in Nat
        BY <1>4, <1>7
      <4>4. base[n] - base[w] <= (pciePtr + s) - s
        BY <1>2, <1>7, <3>1, <4>1, <4>3
      <4>. QED BY <1>5, <1>8, <1>10, <1>11, <1>13, <2>2, <3>1, <3>3, <3>4, <3>5, <4>1, <4>2, <4>4
           DEF RoomInv
    <3>6. CASE ~ (w < n)
      <4>1. wrPtr = IF Top(base, w) = IssueSize THEN 0 ELSE Top(base, w)
        BY <1>1, <3>6 DEF RoomInv, n
      <4>. QED BY <1>5, <1>10, <3>1, <3>3, <3>4, <3>6, <4>1 DEF RoomInv
    <3>. QED BY <3>5, <3>6
  <2>. QED BY <1>3, <2>1, <2>2
<1>15. ASSUME NEW i \in 0 .. n - 2 PROVE At(b, v, i)' = At(base, w, i + 1)
  <2>1. /\ i \in 0 .. n - 1 /\ i + 1 \in 0 .. n /\ b[i] = base[i + 1] /\ base[i + 1] \in Nat
    <3>1. i \in 0 .. n - 1 /\ i + 1 \in 0 .. n
      BY <1>2, <1>3
    <3>. QED BY <1>4, <1>9, <3>1
  <2>2. CASE w = 0
    <3>1. i < v /\ ~ (i + 1 < w)
      BY <1>2, <1>3, <1>10, <1>15, <2>2
    <3>2. At(b, v, i)' = s + (base[i + 1] - base[1])
      BY <1>11, <1>13, <2>1, <2>2, <3>1 DEF At
    <3>3. At(base, w, i + 1) = base[i + 1] - base[0]
      BY <2>2, <3>1 DEF At
    <3>. QED BY SMTT(30), <1>3, <1>7, <2>1, <3>2, <3>3
  <2>3. CASE w > 0
    <3>1. (i < v <=> i + 1 < w) /\ b[v] = base[w]
      <4>1. (i < v <=> i + 1 < w) /\ v + 1 = w
        <5>1. v + 1 = w /\ v \in Int /\ i \in Int
          BY <1>3, <1>10, <2>1, <2>3
        <5>. QED BY ONLY <5>1
      <4>2. b[v] = base[v + 1]
        BY <1>9, <1>10
      <4>. QED BY <4>1, <4>2
    <3>2. CASE i < v
      <4>1. At(b, v, i)' = (pciePtr + s) + (base[i + 1] - base[1])
        BY <1>11, <1>13, <2>1, <2>3, <3>2 DEF At
      <4>2. At(base, w, i + 1) = pciePtr + (base[i + 1] - base[0])
        BY <3>1, <3>2 DEF At
      <4>. DEFINE x == base[i + 1]
                  y == base[1]
                  z == base[0]
      <4>3. x \in Nat /\ y \in Nat /\ z \in Nat /\ s = y - z
        BY <1>3, <1>7, <2>1
      <4>. HIDE DEF x, y, z
      <4>4. (pciePtr + s) + (x - y) = pciePtr + (x - z)
        BY <1>2, <4>3
      <4>. QED BY <4>1, <4>2, <4>4 DEF x, y, z
    <3>3. CASE ~ (i < v)
      BY <2>1, <3>1, <3>3 DEF At
    <3>. QED BY <3>2, <3>3
  <2>. QED BY <1>3, <2>2, <2>3
<1>16. IssuedInv(q - 1, b, v)'
  <2>. SUFFICES ASSUME NEW i \in 0 .. (n - 1) - 1, NEW j \in 0 .. (b[i + 1] - b[i]) - 1
                PROVE  issueMem[At(b, v, i)' + j] =
                         [place |-> b[i] + 1 + j,
                          exec |-> StallOf(q - 1, i)' /\ j = (b[i + 1] - b[i]) - 1]
    BY <1>5 DEF IssuedInv
  <2>1. /\ i \in 0 .. n - 2 /\ i + 1 \in 0 .. n - 1
        /\ b[i] = base[i + 1] /\ b[i + 1] = base[(i + 1) + 1]
    BY SMTT(30), <1>2, <1>3, <1>9
  <2>2. issueMem[At(base, w, i + 1) + j] =
          [place |-> base[i + 1] + 1 + j,
           exec |-> StallOf(q, i + 1) /\ j = (base[(i + 1) + 1] - base[i + 1]) - 1]
    BY <1>1, <2>1 DEF IssuedInv, n
  <2>. QED BY <1>6, <1>15, <2>1, <2>2
<1>17. v \in 0 .. Entries + 1
  <2>1. \A x \in 0 .. n - 1 : x \in 0 .. Entries + 1
    BY <1>2, <1>3
  <2>. QED BY <1>10, <2>1
<1>. QED BY <1>12, <1>14, <1>16, <1>17

-----------------------------------------------------------------------------
(***************************************************************************)
(* fetch_q_get_cmds.                                                       *)
(***************************************************************************)
\* What is ready and what has arrived behind it.
LEMMA Fetched ==
  ASSUME TypeOK, PendingInv, ReadyInv, pending.size > 0 => pending.here, stall # "STALLED"
  PROVE  /\ Rewound \in 0 .. fence /\ fence - Rewound = Ready
         /\ (fence + pending.size) - Rewound = Ready + pending.size
         /\ \A a \in Rewound .. (fence + pending.size) - 1 :
              cmddat[a] = [place |-> a - Rewound + 1,
                           exec |-> dpc = "stallBarrier" /\ a = (fence + pending.size) - 1]
<1>. DEFINE c == Rewound
            s == pending.size
<1>1. /\ CmddatSize \in Nat /\ MaxSize \in Nat /\ fence \in 0 .. CmddatSize /\ cmdPtr \in 0 .. CmddatSize
  BY IssueAssumption DEF TypeOK
<1>2. s \in 0 .. MaxSize /\ Ready \in Nat
  BY Counts
<1>3. c \in 0 .. fence /\ fence - c = Ready /\ (c = cmdPtr \/ c = fence)
  BY <1>1 DEF Rewound, Ready
<1>. HIDE DEF c, s
<1>4. (fence + s) - c = Ready + s
  BY <1>1, <1>2, <1>3
<1>5. ASSUME NEW a \in c .. (fence + s) - 1
      PROVE  cmddat[a] = [place |-> a - c + 1, exec |-> dpc = "stallBarrier" /\ a = (fence + s) - 1]
  <2>1. CASE a < fence
    <3>1. c = cmdPtr /\ a \in cmdPtr .. fence - 1
      BY <1>1, <1>2, <1>3, <1>5, <2>1
    <3>2. cmddat[a] = [place |-> a - cmdPtr + 1, exec |-> FALSE]
      <4>1. cmddat[a] = [place |-> a - cmdPtr + 1, exec |-> stall = "STALLED" /\ a = fence - 1]
        BY <3>1 DEF ReadyInv
      <4>2. (stall = "STALLED" /\ a = fence - 1) = FALSE
        OBVIOUS
      <4>. QED BY <4>1, <4>2
    <3>3. (dpc = "stallBarrier" /\ a = (fence + s) - 1) = FALSE
      <4>1. dpc = "stallBarrier" => s > 0
        BY DEF ReadyInv, s
      <4>2. s > 0 => a # (fence + s) - 1
        BY <1>1, <1>2, <1>3, <1>5, <2>1
      <4>. QED BY <4>1, <4>2
    <3>. QED BY <3>1, <3>2, <3>3
  <2>2. CASE a >= fence
    <3>1. a - fence \in 0 .. s - 1 /\ fence + (a - fence) = a /\ s > 0
      BY <1>1, <1>2, <1>3, <1>5, <2>2
    <3>2. cmddat[fence + (a - fence)] = [place |-> Ready + 1 + (a - fence),
                                         exec |-> dpc = "stallBarrier" /\ a - fence = s - 1]
      BY <3>1 DEF PendingInv, s
    <3>3. Ready + 1 + (a - fence) = a - c + 1 /\ (a - fence = s - 1 <=> a = (fence + s) - 1)
      BY <1>1, <1>2, <1>3, <1>5
    <3>. QED BY <3>1, <3>2, <3>3
  <2>. QED BY <1>1, <1>3, <1>5, <2>1, <2>2
<1>. QED BY <1>3, <1>4, <1>5 DEF c, s

\* fetch_q_get_cmds with a call of read_from_pcie, at its beginning or behind
\* the barrier for what was asked for before.
LEMMA ReadStep ==
  ASSUME IssueInv, fetchQ[qPtr].size > 0, stall # "STALLED",
         pending.size > 0 => pending.here /\ dpc # "stallBarrier",
         NEW f \in Nat, f = fence + pending.size,
         CanRead(fetchQ[qPtr].size, f, Rewound), ReadFromPcie(fetchQ[qPtr].size, f),
         cmdPtr' = Rewound, stall' \in {"NOT_STALLED", "STALL_NEXT"},
         dpc' \in {"barrier", "stallBarrier", "process"},
         dpc' = "stallBarrier" <=> fetchQ[qPtr].stall,
         dpc' = "process" => f # Rewound,
         UNCHANGED <<host, line, cmddat>>
  PROVE  IssueInv'
<1>1. TypeOK /\ PendingInv /\ ReadyInv
  BY DEF IssueInv
<1>2. PICK q \in 0 .. Entries, base \in [0 .. Entries + 1 -> Nat], w \in 0 .. Entries + 1 :
        LineInv(q, base, w)
  BY DEF IssueInv
<1>3. FetchInv(q) /\ BaseInv(q, base)
  BY <1>2 DEF LineInv
<1>4. /\ Entries \in Nat \ {0, 1} /\ MaxSize \in Nat \ {0} /\ IssueSize \in Nat /\ CmddatSize \in Nat
      /\ CmddatSize >= 2 * MaxSize /\ qPtr \in 0 .. Entries - 1 /\ fence \in 0 .. CmddatSize
      /\ pciePtr \in 0 .. IssueSize /\ fence + pending.size <= CmddatSize
  BY <1>1, IssueAssumption DEF TypeOK
<1>5. fetchQ[qPtr] = Entry(0) /\ 0 \in 0 .. Entries - 1
  BY <1>4 DEF Entry
<1>. DEFINE s == Entry(0).size
            e == Entry(0).stall
            c == Rewound
<1>6. s \in 1 .. MaxSize /\ e \in BOOLEAN
  <2>1. s \in 0 .. MaxSize /\ e \in BOOLEAN
    BY <1>1, <1>5, EntryType
  <2>. QED BY <1>4, <1>5, <2>1
<1>7. /\ fence' = (IF f + s > CmddatSize THEN 0 ELSE f)
      /\ pending' = [from |-> PcieFrom(s), size |-> s, here |-> FALSE]
      /\ pciePtr' = PcieFrom(s) + s
      /\ fetchQ' = [fetchQ EXCEPT ![qPtr] = Free] /\ rdPtr' = qPtr /\ qPtr' = NextEntry
  BY <1>5 DEF ReadFromPcie, Published
<1>8. /\ hpc' = hpc /\ hsize' = hsize /\ hstall' = hstall /\ wrPtr' = wrPtr /\ devPtr' = devPtr
      /\ devFence' = devFence /\ issueMem' = issueMem /\ line' = line /\ cmddat' = cmddat
  BY DEF host
<1>9. /\ q > 0 /\ q - 1 \in 0 .. Entries /\ FetchInv(q - 1)'
      /\ \A i \in 0 .. Entries - 2 : Entry(i)' = Entry(i + 1)
  BY <1>1, <1>3, <1>5, <1>7, <1>8, FetchTake
<1>10. /\ c \in 0 .. fence /\ fence - c = Ready /\ f - c = Ready + pending.size
       /\ \A a \in c .. f - 1 :
            cmddat[a] = [place |-> a - c + 1, exec |-> dpc = "stallBarrier" /\ a = f - 1]
  BY <1>1, Fetched
<1>11. pending.size \in 0 .. MaxSize /\ Ready \in Nat /\ base[0] = Ready + pending.size
       /\ base[0] \in Nat
  BY <1>1, <1>3, <1>4, Counts DEF BaseInv
<1>12. InFlight = 0
  BY <1>11 DEF InFlight
<1>13. f + s <= CmddatSize \/ c = f
  BY <1>5 DEF CanRead
<1>14. f - c = base[0] /\ c <= f
  BY <1>4, <1>10, <1>11
<1>. HIDE DEF s, e, c
<1>15. /\ fence' \in 0 .. CmddatSize /\ fence' + s <= CmddatSize
       /\ Ready' = base[0] /\ (Ready' > 0 => fence' = f /\ f > c)
  <2>1. CASE f + s > CmddatSize
    <3>1. c = f /\ fence' = 0 /\ base[0] = 0
      BY <1>4, <1>6, <1>7, <1>13, <1>14, <2>1
    <3>2. Ready' = 0
      BY <1>4, <1>10, <3>1 DEF Ready, c
    <3>. QED BY <1>4, <1>6, <3>1, <3>2
  <2>2. CASE ~ (f + s > CmddatSize)
    <3>1. fence' = f /\ f + s <= CmddatSize
      BY <1>4, <1>6, <1>7, <2>2
    <3>2. Ready' = f - c
      BY <1>4, <1>10, <1>14, <3>1 DEF Ready, c
    <3>. QED BY <1>4, <1>6, <1>10, <1>14, <3>1, <3>2
  <2>. QED BY <2>1, <2>2
<1>16. PICK b \in [0 .. Entries + 1 -> Nat], v \in 0 .. Entries + 1 :
         BaseInv(q - 1, b)' /\ RoomInv(q - 1, b, v)' /\ IssuedInv(q - 1, b, v)'
  <2>1. Entry(0).size > 0
    BY <1>5
  <2>. QED BY <1>1, <1>2, <1>7, <1>8, <1>9, <1>12, <1>15, <2>1, TakeLine DEF s
<1>17. /\ PcieFrom(s) \in 0 .. IssueSize /\ PcieFrom(s) + s \in 0 .. IssueSize
       /\ \A j \in 0 .. s - 1 :
            issueMem[PcieFrom(s) + j] = [place |-> base[0] + 1 + j, exec |-> e /\ j = s - 1]
  <2>1. Entry(0).size > 0
    BY <1>5
  <2>2. /\ w = 0 => PcieFrom(s) = 0 /\ s < IssueSize
        /\ w > 0 => PcieFrom(s) = pciePtr /\ pciePtr + s <= IssueSize
        /\ \A j \in 0 .. s - 1 :
             issueMem[PcieFrom(s) + j] = [place |-> base[0] + 1 + j, exec |-> e /\ j = s - 1]
    BY <1>1, <1>2, <1>9, <2>1, PcieFollows DEF s, e
  <2>3. w = 0 \/ w > 0
    BY <1>4
  <2>4. PcieFrom(s) \in 0 .. IssueSize /\ PcieFrom(s) + s \in 0 .. IssueSize
    <3>1. CASE w = 0
      BY <1>4, <1>6, <2>2, <3>1
    <3>2. CASE w > 0
      BY <1>4, <1>6, <2>2, <3>2
    <3>. QED BY <2>3, <3>1, <3>2
  <2>. QED BY <2>2, <2>4
<1>18. PendingInv'
  <2>1. /\ pending'.from = PcieFrom(s) /\ pending'.size = s /\ pending'.here = FALSE
        /\ pending' \in [from : 0 .. IssueSize, size : 0 .. MaxSize, here : BOOLEAN]
    BY <1>4, <1>6, <1>7, <1>17
  <2>2. pending'.size # 0 /\ pending'.from + pending'.size = pciePtr' /\ rdPtr' # Entries
    BY SMTT(30), <1>4, <1>6, <1>7, <2>1
  <2>3. (dpc' = "stallBarrier") = e
    BY <1>5, <1>6 DEF e
  <2>4. \A j \in 0 .. pending'.size - 1 :
          (IF pending'.here THEN cmddat'[fence' + j] ELSE issueMem'[pending'.from + j]) =
            [place |-> Ready' + 1 + j, exec |-> dpc' = "stallBarrier" /\ j = pending'.size - 1]
    BY <1>8, <1>15, <1>17, <2>1, <2>3
  <2>. QED BY <2>1, <2>2, <2>4 DEF PendingInv
<1>19. ReadyInv'
  <2>1. cmdPtr' = c
    BY DEF c
  <2>2. ASSUME NEW a \in c .. fence' - 1
        PROVE  cmddat[a] = [place |-> a - c + 1, exec |-> FALSE]
    <3>1. a \in c .. f - 1
      BY <1>4, <1>7, <1>10, <1>14, <2>2
    <3>2. cmddat[a] = [place |-> a - c + 1, exec |-> dpc = "stallBarrier" /\ a = f - 1]
      BY <1>10, <3>1
    <3>3. dpc # "stallBarrier"
      BY <1>1 DEF ReadyInv
    <3>. QED BY <3>2, <3>3
  <2>3. stall' # "STALLED"
    OBVIOUS
  <2>4. dpc' = "process" => Ready' > 0
    <3>1. dpc' = "process" => f # c
      BY DEF c
    <3>2. f # c => base[0] > 0
      <4>. DEFINE z == base[0]
      <4>1. z \in Nat /\ f - c = z /\ c \in 0 .. fence
        BY <1>10, <1>11, <1>14
      <4>. HIDE DEF z
      <4>2. f # c => z > 0
        BY <1>4, <4>1
      <4>. QED BY <4>2 DEF z
    <3>. QED BY <1>15, <3>1, <3>2
  <2>5. pending'.size > 0
    BY <1>4, <1>6, <1>7
  <2>6. \A a \in cmdPtr' .. fence' - 1 :
          cmddat'[a] = [place |-> a - cmdPtr' + 1, exec |-> stall' = "STALLED" /\ a = fence' - 1]
    BY <1>8, <2>1, <2>2, <2>3
  <2>. QED BY <2>3, <2>4, <2>5, <2>6 DEF ReadyInv
<1>20. TypeOK'
  <2>1. fetchQ' \in [0 .. Entries - 1 -> [size : 0 .. MaxSize, stall : BOOLEAN]]
    <3>1. Free \in [size : 0 .. MaxSize, stall : BOOLEAN]
      BY <1>4 DEF Free
    <3>. QED BY <1>1, <1>7, <3>1 DEF TypeOK
  <2>2. qPtr' \in 0 .. Entries - 1 /\ rdPtr' \in 0 .. Entries /\ pciePtr' \in 0 .. IssueSize
    BY <1>4, <1>7, <1>17 DEF NextEntry
  <2>3. cmdPtr' \in 0 .. CmddatSize
    BY <1>4, <1>10 DEF c
  <2>4. fence' + pending'.size <= CmddatSize
    BY <1>7, <1>15
  <2>. QED BY <1>1, <1>8, <1>15, <2>1, <2>2, <2>3, <2>4 DEF TypeOK
<1>. QED BY <1>9, <1>16, <1>18, <1>19, <1>20 DEF IssueInv, LineInv

\* A step of the prefetcher that takes no entry leaves the line alone.
LEMMA LineKept ==
  ASSUME NEW q \in 0 .. Entries, NEW base \in [0 .. Entries + 1 -> Nat], NEW w \in 0 .. Entries + 1,
         LineInv(q, base, w),
         Ready' + pending'.size = Ready + pending.size, InFlight' = InFlight,
         UNCHANGED <<host, line, fetchQ, rdPtr, qPtr, pciePtr>>
  PROVE  LineInv(q, base, w)'
<1>1. /\ hpc' = hpc /\ hsize' = hsize /\ hstall' = hstall /\ wrPtr' = wrPtr /\ devPtr' = devPtr
      /\ devFence' = devFence /\ issueMem' = issueMem /\ line' = line /\ fetchQ' = fetchQ
      /\ rdPtr' = rdPtr /\ qPtr' = qPtr /\ pciePtr' = pciePtr
  BY DEF host
<1>2. FetchInv(q)'
  BY <1>1 DEF LineInv, FetchInv, FenceInv, Place, Entry
<1>3. /\ Commands(q)' = Commands(q)
      /\ \A i \in 0 .. Commands(q) - 1 : /\ SizeOf(q, i)' = SizeOf(q, i)
                                         /\ StallOf(q, i)' = StallOf(q, i)
  BY <1>1 DEF Commands, SizeOf, StallOf, Entry
<1>4. BaseInv(q, base)' /\ RoomInv(q, base, w)' /\ IssuedInv(q, base, w)'
  BY <1>1, <1>3, LineFrame DEF LineInv
<1>. QED BY <1>2, <1>4 DEF LineInv

\* The barriers: what has arrived becomes ready.
LEMMA BarrierStep ==
  ASSUME IssueInv, dpc \in {"barrier", "stallBarrier"}, pending.here,
         cmdPtr' = Rewound, fence' = fence + pending.size, pending' = NoRead, dpc' = "process",
         stall' \in {"NOT_STALLED", "STALL_NEXT", "STALLED"},
         stall' = "STALLED" <=> dpc = "stallBarrier",
         UNCHANGED <<host, line, cmddat, fetchQ, rdPtr, qPtr, pciePtr>>
  PROVE  IssueInv'
<1>1. TypeOK /\ PendingInv /\ ReadyInv
  BY DEF IssueInv
<1>2. PICK q \in 0 .. Entries, base \in [0 .. Entries + 1 -> Nat], w \in 0 .. Entries + 1 :
        LineInv(q, base, w)
  BY DEF IssueInv
<1>3. stall # "STALLED" /\ pending.size > 0
  BY <1>1 DEF ReadyInv
<1>. DEFINE c == Rewound
            f == fence + pending.size
<1>4. /\ c \in 0 .. fence /\ fence - c = Ready /\ f - c = Ready + pending.size
      /\ \A a \in c .. f - 1 :
           cmddat[a] = [place |-> a - c + 1, exec |-> dpc = "stallBarrier" /\ a = f - 1]
  BY <1>1, <1>3, Fetched
<1>5. /\ CmddatSize \in Nat /\ MaxSize \in Nat /\ fence \in 0 .. CmddatSize /\ f <= CmddatSize
      /\ pending.size \in 0 .. MaxSize /\ Ready \in Nat
  <2>1. /\ CmddatSize \in Nat /\ MaxSize \in Nat /\ fence \in 0 .. CmddatSize /\ f <= CmddatSize
    BY <1>1, IssueAssumption DEF TypeOK
  <2>. QED BY <1>1, <2>1, Counts
<1>6. f \in 0 .. CmddatSize
  BY <1>5
<1>. DEFINE s == pending.size
<1>. HIDE DEF c, f, s
<1>7. cmdPtr' = c /\ fence' = f /\ pending'.size = 0 /\ ~pending'.here /\ cmddat' = cmddat
  BY DEF c, f, NoRead
<1>8. Ready' = f - c /\ f - c > 0
  <2>1. s \in Nat /\ s > 0 /\ f - c = Ready + s
    BY <1>3, <1>4, <1>5 DEF s
  <2>2. f - c > 0
    BY <1>5, <2>1
  <2>3. ~ (f < c)
    BY <1>4, <1>5, <1>6, <2>2
  <2>. QED BY <1>7, <2>2, <2>3 DEF Ready
<1>9. InFlight = 0 /\ InFlight' = 0
  BY <1>7 DEF InFlight
<1>10. Ready' + pending'.size = Ready + pending.size
  BY <1>4, <1>5, <1>7, <1>8
<1>11. LineInv(q, base, w)'
  BY <1>2, <1>9, <1>10, LineKept
<1>12. PendingInv'
  <2>1. pending' \in [from : 0 .. IssueSize, size : 0 .. MaxSize, here : BOOLEAN]
    BY <1>5, IssueAssumption DEF NoRead
  <2>. QED BY <1>7, <2>1 DEF PendingInv
<1>13. ReadyInv'
  <2>1. \A a \in cmdPtr' .. fence' - 1 :
          cmddat'[a] = [place |-> a - cmdPtr' + 1, exec |-> stall' = "STALLED" /\ a = fence' - 1]
    <3>1. (stall' = "STALLED") = (dpc = "stallBarrier")
      OBVIOUS
    <3>. QED BY <1>4, <1>7, <3>1
  <2>. QED BY <1>7, <1>8, <2>1 DEF ReadyInv
<1>14. TypeOK'
  <2>1. cmdPtr' \in 0 .. CmddatSize /\ fence' + pending'.size <= CmddatSize /\ fence' \in 0 .. CmddatSize
    BY <1>4, <1>5, <1>6, <1>7
  <2>. QED BY <1>1, <2>1 DEF TypeOK, host
<1>. QED BY <1>11, <1>12, <1>13, <1>14 DEF IssueInv

LEMMA GetStep ==
  ASSUME IssueInv, GetCmds
  PROVE  IssueInv'
<1>1. TypeOK /\ PendingInv /\ ReadyInv
  BY DEF IssueInv
<1>2. PICK q \in 0 .. Entries, base \in [0 .. Entries + 1 -> Nat], w \in 0 .. Entries + 1 :
        LineInv(q, base, w)
  BY DEF IssueInv
<1>. DEFINE e == fetchQ[qPtr]
            c == Rewound
            reads == e.size > 0 /\ pending.size = 0 /\ CanRead(e.size, fence, c)
<1>3. dpc = "get" /\ UNCHANGED <<host, line, cmddat>>
  BY DEF GetCmds
<1>4. /\ Entries \in Nat \ {0, 1} /\ CmddatSize \in Nat /\ fence \in 0 .. CmddatSize
      /\ cmdPtr \in 0 .. CmddatSize /\ qPtr \in 0 .. Entries - 1
  BY <1>1, IssueAssumption DEF TypeOK
<1>5. c \in 0 .. fence /\ fence - c = Ready /\ (c = cmdPtr \/ c = fence)
  BY <1>4 DEF Rewound, Ready
<1>6. CASE stall = "STALLED"
  <2>1. dpc' = "process" /\ UNCHANGED <<fetchQ, rdPtr, qPtr, pciePtr, fence, cmdPtr, pending, stall>>
    BY <1>6 DEF GetCmds
  <2>2. Ready' = Ready /\ InFlight' = InFlight /\ Ready' + pending'.size = Ready + pending.size
    BY <2>1 DEF Ready, InFlight
  <2>3. LineInv(q, base, w)'
    BY <1>2, <1>3, <2>1, <2>2, LineKept
  <2>4. ReadyInv'
    BY <1>1, <1>3, <1>6, <2>1, <2>2 DEF ReadyInv
  <2>5. PendingInv'
    <3>1. issueMem' = issueMem /\ cmddat' = cmddat
      BY <1>3 DEF host
    <3>. QED BY <1>1, <1>3, <2>1, <2>2, <3>1 DEF PendingInv
  <2>6. TypeOK'
    BY <1>1, <1>3, <2>1 DEF TypeOK, host
  <2>. QED BY <2>3, <2>4, <2>5, <2>6 DEF IssueInv
<1>7. CASE stall # "STALLED"
  <2>1. /\ stall' = StallNext(e) /\ cmdPtr' = c
        /\ IF reads THEN ReadFromPcie(e.size, fence)
                    ELSE UNCHANGED <<fence, pending, pciePtr, fetchQ, rdPtr, qPtr>>
        /\ dpc' = IF reads /\ e.stall THEN "stallBarrier"
                  ELSE IF c # fence THEN "process"
                  ELSE IF reads \/ pending.size > 0 THEN "barrier" ELSE "get"
    BY <1>7 DEF GetCmds
  <2>2. stall' \in {"NOT_STALLED", "STALL_NEXT"}
    BY <2>1 DEF StallNext
  <2>3. CASE reads
    <3>1. fence = fence + pending.size /\ fence \in Nat
      BY <1>4, <2>3
    <3>2. /\ dpc' \in {"barrier", "stallBarrier", "process"}
          /\ dpc' = "stallBarrier" <=> e.stall
          /\ dpc' = "process" => fence # c
      BY <2>1, <2>3
    <3>3. ~ (pending.size > 0)
      BY <2>3
    <3>. QED BY <1>3, <1>7, <2>1, <2>2, <2>3, <3>1, <3>2, <3>3, ReadStep
  <2>4. CASE ~reads
    <3>1. UNCHANGED <<fence, pending, pciePtr, fetchQ, rdPtr, qPtr>>
      BY <2>1, <2>4
    <3>2. Ready' = Ready /\ InFlight' = InFlight
      <4>1. Ready' = fence - c
        BY <1>4, <1>5, <2>1, <3>1 DEF Ready
      <4>. QED BY <1>5, <3>1, <4>1 DEF InFlight
    <3>3. Ready' + pending'.size = Ready + pending.size
      BY <3>1, <3>2
    <3>4. LineInv(q, base, w)'
      BY <1>2, <1>3, <3>1, <3>2, <3>3, LineKept
    <3>5. dpc' \in {"process", "barrier", "get"} /\ (dpc' = "process" => c # fence)
          /\ (dpc' = "barrier" => pending.size > 0)
      BY <2>1, <2>4
    <3>6. PendingInv'
      <4>1. issueMem' = issueMem /\ cmddat' = cmddat
        BY <1>3 DEF host
      <4>2. dpc # "stallBarrier" /\ dpc' # "stallBarrier"
        BY <1>3, <3>5
      <4>. QED BY <1>1, <3>1, <3>2, <4>1, <4>2 DEF PendingInv
    <3>7. ReadyInv'
      <4>1. stall' # "STALLED"
        BY <2>2
      <4>2. ASSUME NEW a \in c .. fence - 1
            PROVE  cmddat[a] = [place |-> a - c + 1, exec |-> stall = "STALLED" /\ a = fence - 1]
        <5>1. c = cmdPtr
          BY <1>4, <1>5, <4>2
        <5>. QED BY <1>1, <5>1 DEF ReadyInv
      <4>3. \A a \in cmdPtr' .. fence' - 1 :
              cmddat'[a] = [place |-> a - cmdPtr' + 1, exec |-> stall' = "STALLED" /\ a = fence' - 1]
        BY <1>3, <1>7, <2>1, <3>1, <4>1, <4>2
      <4>4. dpc' = "process" => Ready' > 0
        BY <1>4, <1>5, <3>2, <3>5
      <4>. QED BY <3>1, <3>5, <4>1, <4>3, <4>4 DEF ReadyInv
    <3>8. TypeOK'
      <4>1. cmdPtr' \in 0 .. CmddatSize
        BY <1>4, <1>5, <2>1
      <4>. QED BY <1>1, <1>3, <2>2, <3>1, <3>5, <4>1 DEF TypeOK, host
    <3>. QED BY <3>4, <3>6, <3>7, <3>8 DEF IssueInv
  <2>. QED BY <2>3, <2>4
<1>. QED BY <1>6, <1>7

LEMMA BarriersStep ==
  ASSUME IssueInv, Barrier \/ StallBarrier
  PROVE  IssueInv'
<1>1. TypeOK /\ PendingInv /\ ReadyInv
  BY DEF IssueInv
<1>2. CASE StallBarrier
  BY <1>2, BarrierStep DEF StallBarrier
<1>3. CASE Barrier
  <2>. DEFINE e == fetchQ[qPtr]
              f == fence + pending.size
              reads == e.size > 0 /\ CanRead(e.size, f, Rewound)
  <2>1. /\ dpc = "barrier" /\ pending.here /\ cmdPtr' = Rewound
        /\ stall' = (IF e.size > 0 THEN StallNext(e) ELSE stall)
        /\ IF reads THEN ReadFromPcie(e.size, f)
                    ELSE /\ fence' = f /\ pending' = NoRead
                         /\ UNCHANGED <<pciePtr, fetchQ, rdPtr, qPtr>>
        /\ dpc' = (IF reads /\ e.stall THEN "stallBarrier" ELSE "process")
        /\ UNCHANGED <<host, line, cmddat>>
    BY <1>3 DEF Barrier
  <2>2. stall # "STALLED" /\ pending.size > 0
    BY <1>1, <2>1 DEF ReadyInv
  <2>3. stall' \in {"NOT_STALLED", "STALL_NEXT"}
    BY <1>1, <2>1, <2>2 DEF StallNext, TypeOK
  <2>4. CASE ~reads
    BY <2>1, <2>3, <2>4, BarrierStep
  <2>5. CASE reads
    <3>1. f \in Nat /\ f # Rewound
      <4>1. /\ CmddatSize \in Nat /\ MaxSize \in Nat /\ fence \in 0 .. CmddatSize /\ cmdPtr \in 0 .. CmddatSize
        BY <1>1, IssueAssumption DEF TypeOK
      <4>2. pending.size \in 0 .. MaxSize
        BY <1>1, Counts
      <4>3. Rewound \in 0 .. fence
        BY <4>1 DEF Rewound
      <4>. DEFINE s == pending.size
      <4>4. s \in Nat /\ s > 0 /\ f = fence + s
        BY <2>2, <4>1, <4>2
      <4>. HIDE DEF s, f
      <4>. QED BY <4>1, <4>3, <4>4
    <3>2. dpc' \in {"barrier", "stallBarrier", "process"} /\ (dpc' = "stallBarrier" <=> e.stall)
      BY <2>1, <2>5
    <3>. QED BY <2>1, <2>2, <2>3, <2>5, <3>1, <3>2, ReadStep
  <2>. QED BY <2>4, <2>5
<1>. QED BY <1>2, <1>3

-----------------------------------------------------------------------------
(***************************************************************************)
(* A command is processed.                                                 *)
(***************************************************************************)
\* A cell of a memory of which the line moves up.
LEMMA MovedCell ==
  ASSUME NEW c, NEW p \in Nat, NEW x, p >= 2, c = [place |-> p, exec |-> x]
  PROVE  (IF c.place <= 1 THEN Junk ELSE [c EXCEPT !.place = @ - 1]) = [place |-> p - 1, exec |-> x]
<1>1. c.place = p /\ c.exec = x /\ ~ (p <= 1)
  OBVIOUS
<1>2. [c EXCEPT !.place = @ - 1] = [place |-> p - 1, exec |-> x]
  OBVIOUS
<1>. QED BY <1>1, <1>2

LEMMA MovedType ==
  ASSUME NEW N \in Nat, NEW mem \in [0 .. N - 1 -> Cells]
  PROVE  MovedUp(mem) \in [0 .. N - 1 -> Cells]
<1>1. IssueSize + CmddatSize \in Nat
  BY IssueAssumption
<1>2. Junk \in Cells
  BY <1>1 DEF Junk, Cells
<1>3. ASSUME NEW a \in 0 .. N - 1, ~ (mem[a].place <= 1)
      PROVE  [mem[a] EXCEPT !.place = @ - 1] \in Cells
  <2>1. mem[a] \in Cells
    OBVIOUS
  <2>2. mem[a].place \in 0 .. IssueSize + CmddatSize /\ mem[a].exec \in BOOLEAN
    BY <2>1 DEF Cells
  <2>3. mem[a].place - 1 \in 0 .. IssueSize + CmddatSize
    BY <1>1, <1>3, <2>2
  <2>. QED BY <2>1, <2>2, <2>3 DEF Cells
<1>. QED BY <1>2, <1>3 DEF MovedUp

LEMMA ProcessStep ==
  ASSUME IssueInv, ProcessCmd
  PROVE  IssueInv'
<1>1. TypeOK /\ PendingInv /\ ReadyInv
  BY DEF IssueInv
<1>2. PICK q \in 0 .. Entries, base \in [0 .. Entries + 1 -> Nat], w \in 0 .. Entries + 1 :
        LineInv(q, base, w)
  BY DEF IssueInv
<1>3. FetchInv(q) /\ BaseInv(q, base) /\ RoomInv(q, base, w) /\ IssuedInv(q, base, w)
  BY <1>2 DEF LineInv
<1>. DEFINE isExec == cmddat[cmdPtr].exec
            n == Commands(q)
<1>4. /\ dpc = "process" /\ dpc' = "get" /\ cmdPtr < CmddatSize
      /\ stall' = StallAfter(isExec)
      /\ cmddat' = (IF isExec THEN [a \in DOMAIN cmddat |-> Junk] ELSE MovedUp(cmddat))
      /\ issueMem' = MovedUp(issueMem) /\ line' = line - 1 /\ line > 0 /\ cmdPtr' = cmdPtr + 1
      /\ hpc' = hpc /\ hsize' = hsize /\ hstall' = hstall /\ wrPtr' = wrPtr /\ devPtr' = devPtr
      /\ devFence' = devFence /\ fetchQ' = fetchQ /\ rdPtr' = rdPtr
      /\ qPtr' = qPtr /\ pciePtr' = pciePtr /\ fence' = fence /\ pending' = pending
  BY DEF ProcessCmd
<1>5. /\ Entries \in Nat \ {0, 1} /\ MaxSize \in Nat \ {0} /\ IssueSize \in Nat /\ CmddatSize \in Nat
      /\ fence \in 0 .. CmddatSize /\ cmdPtr \in 0 .. CmddatSize /\ line \in 0 .. IssueSize + CmddatSize
      /\ cmddat \in [0 .. CmddatSize - 1 -> Cells] /\ issueMem \in [0 .. IssueSize - 1 -> Cells]
      /\ fence + pending.size <= CmddatSize /\ pciePtr \in 0 .. IssueSize
  BY <1>1, IssueAssumption DEF TypeOK
<1>6. Ready \in Nat /\ Ready > 0 /\ pending.size \in 0 .. MaxSize
  BY <1>1, <1>4, Counts DEF ReadyInv
<1>7. /\ Ready = fence - cmdPtr /\ cmdPtr < fence /\ Ready' = Ready - 1 /\ InFlight' = InFlight
      /\ cmdPtr \in cmdPtr .. fence - 1
  <2>1. Ready = fence - cmdPtr /\ cmdPtr < fence
    BY <1>5, <1>6 DEF Ready
  <2>2. Ready' = fence - (cmdPtr + 1)
    BY <1>4, <1>5, <2>1 DEF Ready
  <2>. QED BY <1>4, <1>5, <2>1, <2>2 DEF InFlight
<1>8. isExec = (stall = "STALLED" /\ cmdPtr = fence - 1)
  <2>1. cmddat[cmdPtr] = [place |-> cmdPtr - cmdPtr + 1, exec |-> stall = "STALLED" /\ cmdPtr = fence - 1]
    BY <1>1, <1>7 DEF ReadyInv
  <2>. QED BY <2>1
<1>. HIDE DEF isExec, n
<1>9. FetchInv(q)'
  BY <1>3, <1>4 DEF FetchInv, FenceInv, Place, Entry
<1>10. /\ Commands(q)' = n
       /\ \A i \in 0 .. n - 1 : /\ SizeOf(q, i)' = SizeOf(q, i)
                                /\ StallOf(q, i)' = StallOf(q, i)
  BY <1>4 DEF Commands, SizeOf, StallOf, Entry, n
<1>11. /\ n \in 0 .. Entries + 1
       /\ \A i \in 0 .. n : base[i] \in Nat /\ base[0] <= base[i]
       /\ base[0] = Ready + pending.size /\ base[n] = line
  BY <1>1, <1>3, Bases DEF n
<1>12. \A i \in 0 .. n : base[i] \in Nat /\ base[i] >= 1
  <2>1. base[0] \in Nat /\ base[0] >= 1
    BY <1>5, <1>6, <1>11
  <2>. QED BY <1>11, <2>1
<1>13. PICK b \in [0 .. Entries + 1 -> Nat] : \A i \in 0 .. n : b[i] = base[i] - 1
  <2>. DEFINE d == [i \in 0 .. Entries + 1 |-> IF i \in 0 .. n THEN base[i] - 1 ELSE 0]
  <2>1. \A i \in 0 .. n : base[i] - 1 \in Nat /\ i \in 0 .. Entries + 1
    BY <1>5, <1>11, <1>12
  <2>2. d \in [0 .. Entries + 1 -> Nat] /\ \A i \in 0 .. n : d[i] = base[i] - 1
    BY <2>1
  <2>. QED BY <2>2
<1>14. 0 \in 0 .. n /\ n \in 0 .. n /\ w \in 0 .. n /\ Top(base, w) <= IssueSize
  BY <1>3, <1>5, <1>11 DEF RoomInv, n
<1>15. \A i, j \in 0 .. n : b[j] - b[i] = base[j] - base[i]
  <2>. SUFFICES ASSUME NEW i \in 0 .. n, NEW j \in 0 .. n PROVE b[j] - b[i] = base[j] - base[i]
    OBVIOUS
  <2>1. base[i] \in Nat /\ base[j] \in Nat /\ b[i] = base[i] - 1 /\ b[j] = base[j] - 1
    BY <1>12, <1>13
  <2>. QED BY SMTT(30), <2>1
<1>16. BaseInv(q, b)'
  <2>1. b[0] = Ready' + pending'.size
    <3>. DEFINE r == Ready
                s == pending.size
    <3>1. r \in Nat /\ s \in Nat /\ b[0] = (r + s) - 1
      BY SMTT(30), <1>5, <1>6, <1>11, <1>13, <1>14
    <3>2. Ready' = r - 1 /\ pending'.size = s
      BY <1>4, <1>7
    <3>. HIDE DEF r, s
    <3>. QED BY <3>1, <3>2
  <2>2. b[n] = line'
    BY <1>4, <1>11, <1>13, <1>14
  <2>3. ASSUME NEW i \in 0 .. n - 1 PROVE b[i + 1] = b[i] + SizeOf(q, i)'
    <3>1. i \in 0 .. n /\ i + 1 \in 0 .. n
      BY <1>5, <1>11
    <3>2. SizeOf(q, i) \in 1 .. MaxSize
      BY <1>1, <1>3, Sizes DEF n
    <3>3. base[i + 1] = base[i] + SizeOf(q, i)
      BY <1>3 DEF BaseInv, n
    <3>4. b[i] = base[i] - 1 /\ b[i + 1] = base[i + 1] - 1 /\ base[i] \in Nat /\ base[i + 1] \in Nat
      BY <1>12, <1>13, <3>1
    <3>. DEFINE z == SizeOf(q, i)
    <3>5. z \in Nat /\ base[i + 1] = base[i] + z /\ SizeOf(q, i)' = z
      BY <1>5, <1>10, <3>2, <3>3
    <3>. HIDE DEF z
    <3>. QED BY <3>4, <3>5
  <2>4. ASSUME NEW i \in 0 .. n, NEW j \in 0 .. n, i <= j
        PROVE  b[i] <= b[j] /\ b[j] <= b[i] + (j - i) * MaxSize
    <3>1. base[i] <= base[j] /\ base[j] <= base[i] + (j - i) * MaxSize
      BY <1>3, <2>4 DEF BaseInv, n
    <3>2. j - i \in Nat /\ (j - i) * MaxSize \in Nat
      <4>1. j - i \in Nat
        BY <1>11, <2>4
      <4>. QED BY <1>5, <4>1, Products
    <3>3. base[i] \in Nat /\ base[j] \in Nat /\ b[i] = base[i] - 1 /\ b[j] = base[j] - 1
      BY <1>12, <1>13
    <3>. DEFINE m == (j - i) * MaxSize
    <3>. HIDE DEF m
    <3>4. base[j] <= base[i] + m /\ m \in Nat
      BY <3>1, <3>2 DEF m
    <3>5. b[i] <= b[j] /\ b[j] <= b[i] + m
      BY <3>1, <3>3, <3>4
    <3>. QED BY <3>5 DEF m
  <2>. QED BY <1>10, <2>1, <2>2, <2>3, <2>4 DEF BaseInv
<1>17. Top(b, w)' = Top(base, w) /\ \A i \in 0 .. n : At(b, w, i)' = At(base, w, i)
  BY <1>4, <1>14, <1>15 DEF Top, At
<1>18. RoomInv(q, b, w)'
  <2>1. CASE w < n
    <3>1. w + 1 \in 0 .. n
      BY <1>5, <1>11, <1>14, <2>1
    <3>2. b[w + 1] - b[w] = base[w + 1] - base[w] /\ b[n] - b[w] = base[n] - base[w]
      BY <1>14, <1>15, <3>1
    <3>3. /\ Top(base, w) + (base[w + 1] - base[w]) > IssueSize
          /\ base[n] - base[w] <= pciePtr - InFlight /\ wrPtr = base[n] - base[w]
      BY <1>3, <2>1 DEF RoomInv, n
    <3>. QED BY <1>4, <1>7, <1>10, <1>14, <1>17, <2>1, <3>2, <3>3 DEF RoomInv
  <2>2. CASE ~ (w < n)
    <3>1. wrPtr = IF Top(base, w) = IssueSize THEN 0 ELSE Top(base, w)
      BY <1>3, <2>2 DEF RoomInv, n
    <3>. QED BY <1>4, <1>10, <1>14, <1>17, <2>2, <3>1 DEF RoomInv
  <2>. QED BY <2>1, <2>2
<1>19. IssuedInv(q, b, w)'
  <2>. SUFFICES ASSUME NEW i \in 0 .. n - 1, NEW j \in 0 .. (b[i + 1] - b[i]) - 1
                PROVE  issueMem'[At(b, w, i)' + j] =
                         [place |-> b[i] + 1 + j,
                          exec |-> StallOf(q, i)' /\ j = (b[i + 1] - b[i]) - 1]
    BY <1>10 DEF IssuedInv
  <2>1. i \in 0 .. n /\ i + 1 \in 0 .. n
    BY <1>5, <1>11
  <2>2. /\ b[i + 1] - b[i] = base[i + 1] - base[i] /\ b[i] = base[i] - 1
        /\ base[i] \in Nat /\ base[i] >= 1 /\ base[i + 1] \in Nat
    BY <1>12, <1>13, <1>15, <2>1
  <2>3. j \in 0 .. (base[i + 1] - base[i]) - 1 /\ i \in 0 .. Commands(q) - 1
    BY <2>2 DEF n
  <2>. DEFINE a == At(base, w, i) + j
              x == StallOf(q, i) /\ j = (base[i + 1] - base[i]) - 1
  <2>4. a \in 0 .. IssueSize - 1
    BY <1>1, <1>2, <2>3, Apart
  <2>5. issueMem[a] = [place |-> base[i] + 1 + j, exec |-> x]
    BY <1>3, <2>3 DEF IssuedInv
  <2>6. x \in BOOLEAN /\ base[i] + 1 + j \in Nat /\ base[i] + 1 + j >= 2
        /\ (base[i] + 1 + j) - 1 = b[i] + 1 + j
    BY <2>2
  <2>. DEFINE p == base[i] + 1 + j
  <2>. HIDE DEF a, x, p
  <2>p. p \in Nat /\ p >= 2 /\ p - 1 = b[i] + 1 + j /\ issueMem[a] = [place |-> p, exec |-> x]
    BY <2>5, <2>6 DEF p
  <2>7. MovedUp(issueMem)[a] = [place |-> p - 1, exec |-> x]
    <3>1. (IF issueMem[a].place <= 1 THEN Junk ELSE [issueMem[a] EXCEPT !.place = @ - 1])
           = [place |-> p - 1, exec |-> x]
      BY <2>4, <2>6, <2>p, MovedCell
    <3>2. MovedUp(issueMem)[a] =
          (IF issueMem[a].place <= 1
             THEN Junk ELSE [issueMem[a] EXCEPT !.place = @ - 1])
      BY <1>5, <2>4, <2>6, <2>p DEF MovedUp
    <3>. QED BY <3>1, <3>2
  <2>8. At(b, w, i)' + j = a
    BY <1>17, <2>1 DEF a
  <2>9. StallOf(q, i)' = StallOf(q, i)
    BY <1>10
  <2>. QED BY <1>4, <2>2, <2>p, <2>7, <2>8, <2>9 DEF x
<1>20. /\ isExec \in BOOLEAN
       /\ isExec => stall = "STALLED" /\ cmdPtr = fence - 1 /\ ~ (pending.size > 0)
  <2>1. isExec \in BOOLEAN /\ (isExec => stall = "STALLED" /\ cmdPtr = fence - 1)
    BY <1>8, Zenon
  <2>2. stall = "STALLED" => ~ (pending.size > 0)
    BY <1>1, <1>6 DEF ReadyInv
  <2>. QED BY <2>1, <2>2, Zenon
<1>21. PendingInv'
  <2>. DEFINE s == pending.size
  <2>1. ASSUME NEW j \in 0 .. s - 1
        PROVE  (IF pending.here THEN cmddat'[fence + j] ELSE issueMem'[pending.from + j]) =
                 [place |-> Ready' + 1 + j, exec |-> FALSE]
    <3>1. s > 0 /\ j \in Nat /\ j < s
      BY SMTT(30), <1>5, <1>6, <2>1
    <3>2. (IF pending.here THEN cmddat[fence + j] ELSE issueMem[pending.from + j]) =
            [place |-> Ready + 1 + j, exec |-> FALSE]
      <4>1. (IF pending.here THEN cmddat[fence + j] ELSE issueMem[pending.from + j]) =
              [place |-> Ready + 1 + j, exec |-> dpc = "stallBarrier" /\ j = s - 1]
        BY <1>1, <3>1 DEF PendingInv
      <4>2. dpc # "stallBarrier"
        BY <1>4
      <4>. QED BY <4>1, <4>2
    <3>3. Ready + 1 + j \in Nat /\ Ready + 1 + j >= 2 /\ (Ready + 1 + j) - 1 = Ready' + 1 + j
      BY SMTT(30), <1>6, <1>7, <3>1
    <3>. DEFINE p == Ready + 1 + j
    <3>. HIDE DEF p
    <3>p. p \in Nat /\ p >= 2 /\ FALSE \in BOOLEAN /\ p - 1 = Ready' + 1 + j
      BY <3>3 DEF p
    <3>4. CASE pending.here
      <4>1. fence + j \in 0 .. CmddatSize - 1
        <5>1. s \in Nat /\ fence + s <= CmddatSize
          BY <1>5, <1>6
        <5>. HIDE DEF s
        <5>. QED BY <1>5, <3>1, <5>1
      <4>2. cmddat[fence + j] = [place |-> p, exec |-> FALSE]
        BY <3>2, <3>4 DEF p
      <4>4. MovedUp(cmddat)[fence + j] = [place |-> p - 1, exec |-> FALSE]
        <5>1. (IF cmddat[fence + j].place <= 1
                 THEN Junk ELSE [cmddat[fence + j] EXCEPT !.place = @ - 1])
               = [place |-> p - 1, exec |-> FALSE]
          BY <3>p, <4>1, <4>2, MovedCell
        <5>2. MovedUp(cmddat)[fence + j] =
              (IF cmddat[fence + j].place <= 1
                 THEN Junk ELSE [cmddat[fence + j] EXCEPT !.place = @ - 1])
          BY <1>5, <3>p, <4>1, <4>2 DEF MovedUp
        <5>. QED BY <5>1, <5>2
      <4>3. cmddat' = MovedUp(cmddat)
        BY <1>4, <1>20, <3>1
      <4>. QED BY <3>p, <3>4, <4>3, <4>4
    <3>5. CASE ~pending.here
      <4>1. pending.from + j \in 0 .. IssueSize - 1
        <5>. DEFINE h == pending.from
        <5>1. s \in Nat /\ h \in 0 .. IssueSize /\ h + s = pciePtr
          <6>1. h \in 0 .. IssueSize /\ s \in 0 .. MaxSize
            BY <1>1, Counts
          <6>2. h + s = pciePtr
            BY <1>1, <3>1 DEF PendingInv
          <6>. QED BY <1>5, <6>1, <6>2
        <5>. HIDE DEF s, h
        <5>2. h + j \in 0 .. IssueSize - 1
          BY <1>5, <3>1, <5>1
        <5>. QED BY <5>2 DEF h
      <4>2. issueMem[pending.from + j] = [place |-> p, exec |-> FALSE]
        BY <3>2, <3>5 DEF p
      <4>3. MovedUp(issueMem)[pending.from + j] = [place |-> p - 1, exec |-> FALSE]
        <5>1. (IF issueMem[pending.from + j].place <= 1
                 THEN Junk ELSE [issueMem[pending.from + j] EXCEPT !.place = @ - 1])
               = [place |-> p - 1, exec |-> FALSE]
          BY <3>p, <4>1, <4>2, MovedCell
        <5>2. MovedUp(issueMem)[pending.from + j] =
              (IF issueMem[pending.from + j].place <= 1
                 THEN Junk ELSE [issueMem[pending.from + j] EXCEPT !.place = @ - 1])
          BY <1>5, <3>p, <4>1, <4>2 DEF MovedUp
        <5>. QED BY <5>1, <5>2
      <4>. QED BY <1>4, <3>p, <3>5, <4>3
    <3>. QED BY <3>4, <3>5
  <2>2. \A j \in 0 .. pending'.size - 1 :
          (IF pending'.here THEN cmddat'[fence' + j] ELSE issueMem'[pending'.from + j]) =
            [place |-> Ready' + 1 + j, exec |-> dpc' = "stallBarrier" /\ j = pending'.size - 1]
    <3>1. dpc' # "stallBarrier"
      BY <1>4
    <3>. QED BY <1>4, <2>1, <3>1
  <2>. QED BY <1>1, <1>4, <2>2 DEF PendingInv
<1>22. ReadyInv'
  <2>1. CASE isExec
    <3>1. stall' = "NOT_STALLED" /\ pending.size = 0
      BY <1>1, <1>4, <1>8, <2>1 DEF StallAfter, ReadyInv
    <3>2. cmdPtr' = fence /\ fence' = fence
      BY <1>4, <1>5, <1>20, <2>1
    <3>3. \A a \in cmdPtr' .. fence' - 1 :
            cmddat'[a] = [place |-> a - cmdPtr' + 1, exec |-> stall' = "STALLED" /\ a = fence' - 1]
      BY <1>5, <3>2
    <3>. QED BY <1>4, <3>1, <3>3 DEF ReadyInv
  <2>2. CASE ~isExec
    <3>1. stall' = stall /\ cmddat' = MovedUp(cmddat)
      BY <1>4, <2>2 DEF StallAfter
    <3>2. ASSUME NEW a \in cmdPtr + 1 .. fence - 1
          PROVE  MovedUp(cmddat)[a] = [place |-> a - (cmdPtr + 1) + 1,
                                       exec |-> stall = "STALLED" /\ a = fence - 1]
      <4>. DEFINE x == stall = "STALLED" /\ a = fence - 1
      <4>1. a \in cmdPtr .. fence - 1 /\ a \in 0 .. CmddatSize - 1
        BY <1>5
      <4>2. cmddat[a] = [place |-> a - cmdPtr + 1, exec |-> x]
        BY <1>1, <4>1 DEF ReadyInv
      <4>3. a - cmdPtr + 1 \in Nat /\ a - cmdPtr + 1 >= 2 /\ x \in BOOLEAN
            /\ (a - cmdPtr + 1) - 1 = a - (cmdPtr + 1) + 1
        BY <1>5, <3>2
      <4>. DEFINE p == a - cmdPtr + 1
      <4>. HIDE DEF x, p
      <4>4. cmddat[a] = [place |-> p, exec |-> x] /\ p \in Nat /\ p >= 2
        BY <4>2, <4>3 DEF p
      <4>5. MovedUp(cmddat)[a] = [place |-> p - 1, exec |-> x]
        <5>1. (IF cmddat[a].place <= 1 THEN Junk ELSE [cmddat[a] EXCEPT !.place = @ - 1])
               = [place |-> p - 1, exec |-> x]
          BY <4>1, <4>3, <4>4, MovedCell
        <5>2. MovedUp(cmddat)[a] =
              (IF cmddat[a].place <= 1
                 THEN Junk ELSE [cmddat[a] EXCEPT !.place = @ - 1])
          BY <1>5, <4>1, <4>3, <4>4 DEF MovedUp
        <5>. QED BY <5>1, <5>2
      <4>. QED BY <4>3, <4>5 DEF x, p
    <3>3. \A a \in cmdPtr' .. fence' - 1 :
            cmddat'[a] = [place |-> a - cmdPtr' + 1, exec |-> stall' = "STALLED" /\ a = fence' - 1]
      BY <1>4, <3>1, <3>2
    <3>4. stall' = "STALLED" => pending'.size = 0 /\ Ready' > 0
      <4>1. stall = "STALLED" => pending.size = 0 /\ cmdPtr # fence - 1
        BY <1>1, <1>8, <2>2 DEF ReadyInv
      <4>2. cmdPtr # fence - 1 => Ready - 1 > 0
        BY <1>5, <1>7
      <4>. QED BY <1>4, <1>7, <3>1, <4>1, <4>2
    <3>. QED BY <1>4, <3>3, <3>4 DEF ReadyInv
  <2>. QED BY <2>1, <2>2
<1>23. TypeOK'
  <2>1. issueMem' \in [0 .. IssueSize - 1 -> Cells]
    BY <1>4, <1>5, MovedType
  <2>2. cmddat' \in [0 .. CmddatSize - 1 -> Cells]
    <3>1. Junk \in Cells
      BY <1>5 DEF Junk, Cells
    <3>2. MovedUp(cmddat) \in [0 .. CmddatSize - 1 -> Cells]
      BY <1>5, MovedType
    <3>3. [a \in DOMAIN cmddat |-> Junk] \in [0 .. CmddatSize - 1 -> Cells]
      BY <1>5, <3>1
    <3>. QED BY <1>4, <3>2, <3>3
  <2>3. line' \in 0 .. IssueSize + CmddatSize /\ cmdPtr' \in 0 .. CmddatSize
    BY <1>4, <1>5
  <2>4. stall' \in {"NOT_STALLED", "STALL_NEXT", "STALLED"}
    BY <1>1, <1>4 DEF StallAfter, TypeOK
  <2>. QED BY <1>1, <1>4, <2>1, <2>2, <2>3, <2>4 DEF TypeOK
<1>. QED BY <1>9, <1>16, <1>18, <1>19, <1>21, <1>22, <1>23 DEF IssueInv, LineInv

-----------------------------------------------------------------------------
(***************************************************************************)
(* The theorems.                                                           *)
(***************************************************************************)
LEMMA IssueInit ==
  ASSUME Init
  PROVE  IssueInv
<1>1. /\ Entries \in Nat \ {0, 1} /\ MaxSize \in Nat \ {0} /\ IssueSize \in Nat /\ CmddatSize \in Nat
      /\ 0 \in 0 .. Entries /\ 0 \in 0 .. Entries - 1 /\ 0 \in 0 .. Entries + 1
  BY IssueAssumption
<1>2. IssueSize > 0
  <2>1. 0 \in 0 .. Entries /\ 0 \in 0 .. MaxSize /\ ~ (0 > 0) /\ 0 \in Nat /\ 0 <= 0 * MaxSize
    BY <1>1
  <2>2. 0 + 0 + MaxSize + MaxSize <= IssueSize
    BY <2>1, Room
  <2>. QED BY <1>1, <2>2
<1>3. pending.size = 0 /\ ~pending.here /\ Ready = 0 /\ InFlight = 0
  BY <1>1 DEF Init, NoRead, Ready, InFlight
<1>4. TypeOK
  <2>1. Junk \in Cells
    BY <1>1 DEF Junk, Cells
  <2>2. Free \in [size : 0 .. MaxSize, stall : BOOLEAN]
    BY <1>1 DEF Free
  <2>3. fence + pending.size <= CmddatSize
    BY <1>1, <1>3 DEF Init
  <2>4. issueMem \in [0 .. IssueSize - 1 -> Cells] /\ cmddat \in [0 .. CmddatSize - 1 -> Cells]
    BY <2>1 DEF Init
  <2>5. fetchQ \in [0 .. Entries - 1 -> [size : 0 .. MaxSize, stall : BOOLEAN]]
    BY <2>2 DEF Init
  <2>6. /\ hsize \in 0 .. MaxSize /\ wrPtr \in 0 .. IssueSize - 1 /\ line \in 0 .. IssueSize + CmddatSize
        /\ devPtr \in 0 .. Entries /\ devFence \in 0 .. Entries /\ rdPtr \in 0 .. Entries
        /\ qPtr \in 0 .. Entries - 1 /\ pciePtr \in 0 .. IssueSize
        /\ fence \in 0 .. CmddatSize /\ cmdPtr \in 0 .. CmddatSize
    BY <1>1, <1>2 DEF Init
  <2>. QED BY <2>3, <2>4, <2>5, <2>6 DEF Init, TypeOK
<1>5. PendingInv
  <2>1. pending \in [from : 0 .. IssueSize, size : 0 .. MaxSize, here : BOOLEAN]
    BY <1>1 DEF Init, NoRead
  <2>. QED BY <1>3, <2>1 DEF Init, PendingInv
<1>6. ReadyInv
  BY <1>1, <1>3 DEF Init, ReadyInv
<1>7. PICK base \in [0 .. Entries + 1 -> Nat] : \A i \in 0 .. Entries + 1 : base[i] = 0
  <2>1. [i \in 0 .. Entries + 1 |-> 0] \in [0 .. Entries + 1 -> Nat]
    OBVIOUS
  <2>. QED BY <2>1
<1>8. Commands(0) = 0 /\ base[0] = 0
  BY <1>1, <1>7 DEF Init, Commands
<1>9. FetchInv(0)
  <2>1. ASSUME NEW i \in 0 .. Entries - 1 PROVE Entry(i) = Free /\ ~ (i < 0)
    <3>1. (IF qPtr + i >= Entries THEN qPtr + i - Entries ELSE qPtr + i) \in 0 .. Entries - 1
      BY <1>1 DEF Init
    <3>. QED BY <1>1, <3>1 DEF Init, Entry
  <2>2. Place = 0 /\ qPtr = 0 /\ devPtr = 0 /\ hpc = "idle" /\ hsize = 0 /\ rdPtr = Entries
        /\ devFence = Entries
    BY <1>1 DEF Init, Place
  <2>3. FenceInv(0)
    BY <2>2 DEF FenceInv
  <2>4. Place = qPtr + 0
    BY <2>2
  <2>. QED BY <1>1, <2>1, <2>2, <2>3, <2>4 DEF FetchInv
<1>10. BaseInv(0, base)
  <2>1. base[0] = Ready + pending.size /\ base[0] = line
    BY <1>3, <1>8 DEF Init
  <2>2. ASSUME NEW i \in 0 .. 0, NEW j \in 0 .. 0
        PROVE  base[i] <= base[j] /\ base[j] <= base[i] + (j - i) * MaxSize
    <3>1. i = 0 /\ j = 0 /\ (j - i) * MaxSize = 0
      BY <1>1
    <3>. QED BY <1>8, <3>1
  <2>. QED BY <1>8, <2>1, <2>2 DEF BaseInv
<1>11. RoomInv(0, base, 0)
  <2>1. Top(base, 0) = 0
    BY <1>8 DEF Init, Top
  <2>. QED BY <1>1, <1>2, <1>8, <2>1 DEF Init, RoomInv
<1>12. IssuedInv(0, base, 0)
  BY <1>8 DEF IssuedInv
<1>. QED BY <1>1, <1>4, <1>5, <1>6, <1>9, <1>10, <1>11, <1>12 DEF IssueInv, LineInv

\* The commands that are issued and not processed lie in line, in the issue
\* queue and in cmddat_q, and both sides agree on where.
THEOREM IssueInvariant == Spec => []IssueInv
<1>1. Init => IssueInv
  BY IssueInit
<1>2. IssueInv /\ [Next]_vars => IssueInv'
  <2>. SUFFICES ASSUME IssueInv, [Next]_vars PROVE IssueInv'
    OBVIOUS
  <2>1. ASSUME NEW size \in 1 .. MaxSize, NEW isExec \in BOOLEAN, IssueCommand(size, isExec)
        PROVE  IssueInv'
    BY <2>1, IssueStep
  <2>2. CASE HostStep
    BY <2>2, HostLineStep
  <2>3. CASE GetCmds
    BY <2>3, GetStep
  <2>4. CASE Barrier \/ StallBarrier
    BY <2>4, BarriersStep
  <2>5. CASE ProcessCmd
    BY <2>5, ProcessStep
  <2>6. CASE ReadArrives
    BY <2>6, ArriveStep
  <2>7. CASE UNCHANGED vars
    <3>1. /\ hpc' = hpc /\ hsize' = hsize /\ hstall' = hstall /\ wrPtr' = wrPtr /\ devPtr' = devPtr
          /\ devFence' = devFence /\ line' = line /\ issueMem' = issueMem /\ fetchQ' = fetchQ
          /\ rdPtr' = rdPtr /\ dpc' = dpc /\ qPtr' = qPtr /\ pciePtr' = pciePtr /\ fence' = fence
          /\ cmdPtr' = cmdPtr /\ cmddat' = cmddat /\ pending' = pending /\ stall' = stall
      BY <2>7 DEF vars
    <3>2. TypeOK' /\ PendingInv' /\ ReadyInv'
      BY SMTT(30), <3>1 DEF IssueInv, TypeOK, PendingInv, ReadyInv, Ready
    <3>3. PICK q \in 0 .. Entries, base \in [0 .. Entries + 1 -> Nat], w \in 0 .. Entries + 1 :
            LineInv(q, base, w)
      BY DEF IssueInv
    <3>4. LineInv(q, base, w)'
      BY <3>1, <3>3, LineKept DEF Ready, InFlight, host
    <3>. QED BY <3>2, <3>4 DEF IssueInv
  <2>. QED BY <2>1, <2>2, <2>3, <2>4, <2>5, <2>6, <2>7 DEF Next, PrefetcherStep
<1>. QED BY <1>1, <1>2, PTL DEF Spec

\* Every variable keeps its type: the pointers of both sides stay in their rings.
THEOREM IssueTypeCorrect == Spec => []TypeOK
<1>1. IssueInv => TypeOK
  BY DEF IssueInv
<1>. QED BY <1>1, IssueInvariant, PTL

\* What process_cmd finds at cmd_ptr.
LEMMA HeadOfLine ==
  ASSUME IssueInv, dpc = "process"
  PROVE  /\ fence \in Nat /\ cmdPtr \in Nat
         /\ cmddat[cmdPtr] = [place |-> 1, exec |-> stall = "STALLED" /\ cmdPtr = fence - 1]
<1>1. TypeOK /\ ReadyInv /\ Ready > 0
  BY DEF IssueInv, ReadyInv
<1>2. CmddatSize \in Nat /\ fence \in 0 .. CmddatSize /\ cmdPtr \in 0 .. CmddatSize
  BY <1>1, IssueAssumption DEF TypeOK
<1>3. cmdPtr \in cmdPtr .. fence - 1 /\ cmdPtr - cmdPtr + 1 = 1
  BY <1>1, <1>2 DEF Ready
<1>4. cmddat[cmdPtr] = [place |-> cmdPtr - cmdPtr + 1, exec |-> stall = "STALLED" /\ cmdPtr = fence - 1]
  BY <1>1, <1>3 DEF ReadyInv
<1>. QED BY <1>2, <1>3, <1>4

\* process_cmd finds the next command of the line at cmd_ptr: none was
\* overwritten in the issue queue before its read came back, skipped at a wrap
\* or processed twice.
THEOREM InOrderTheorem == Spec => []InOrder
<1>1. IssueInv => InOrder
  BY HeadOfLine DEF InOrder
<1>. QED BY <1>1, IssueInvariant, PTL

\* process_exec_buf_cmd runs with nothing else in cmddat_q and nothing asked for.
THEOREM ExecBufAloneTheorem == Spec => []ExecBufAlone
<1>1. IssueInv => ExecBufAlone
  <2>. SUFFICES ASSUME IssueInv, dpc = "process"
                PROVE  cmddat[cmdPtr].exec =>
                         stall = "STALLED" /\ pending.size = 0 /\ fence = cmdPtr + 1
    BY Zenon DEF ExecBufAlone
  <2>1. cmddat[cmdPtr].exec = (stall = "STALLED" /\ cmdPtr = fence - 1)
    BY HeadOfLine
  <2>2. stall = "STALLED" /\ cmdPtr = fence - 1 => pending.size = 0 /\ fence = cmdPtr + 1
    BY HeadOfLine DEF IssueInv, ReadyInv
  <2>. QED BY <2>1, <2>2, Zenon
<1>. QED BY <1>1, IssueInvariant, PTL

\* fetch_queue_write never overwrites an entry that the prefetcher has not taken,
\* though the host judges by a pointer that it read some time ago.
THEOREM EntryIsFreeTheorem == Spec => []EntryIsFree
<1>1. IssueInv => EntryIsFree
  <2>. SUFFICES ASSUME IssueInv, hpc = "write" PROVE fetchQ[devPtr] = Free
    BY DEF EntryIsFree
  <2>1. PICK q \in 0 .. Entries, base \in [0 .. Entries + 1 -> Nat], w \in 0 .. Entries + 1 :
          LineInv(q, base, w)
    BY DEF IssueInv
  <2>2. TypeOK /\ FetchInv(q)
    BY <2>1 DEF IssueInv, LineInv
  <2>. QED BY <2>2, EntryFree
<1>. QED BY <1>1, IssueInvariant, PTL

=============================================================================
