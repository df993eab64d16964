------------------------ MODULE CompletionQueueProofs ------------------------
(***************************************************************************)
(* Proofs about CompletionQueue: the reader thread deals with descriptors  *)
(* in the order of the commands, finds one whenever the counters promise   *)
(* one, and finish and the destructor wait for enough; and each read gets  *)
(* its own pages, for queues, buffers and programs of every size.          *)
(***************************************************************************)
EXTENDS CompletionQueue, Integers, SequenceTheorems, FunctionTheorems, FiniteSetTheorems,
        TLAPS

\* Appending an entry.
LEMMA AppendFacts ==
  ASSUME NEW S, NEW s \in Seq(S), NEW e \in S
  PROVE  /\ Append(s, e) \in Seq(S)
         /\ Len(Append(s, e)) = Len(s) + 1
         /\ \A i \in 1 .. Len(s) : Append(s, e)[i] = s[i]
         /\ Append(s, e)[Len(s) + 1] = e
OBVIOUS

\* Taking the first entry off.
LEMMA TailFacts ==
  ASSUME NEW S, NEW s \in Seq(S), s # << >>
  PROVE  /\ Head(s) = s[1] /\ Head(s) \in S
         /\ Len(s) \in Nat \ {0}
         /\ Tail(s) \in Seq(S)
         /\ Len(Tail(s)) = Len(s) - 1
         /\ \A i \in 1 .. Len(s) - 1 : Tail(s)[i] = s[i + 1]
<1>1. Len(s) \in Nat \ {0}
  BY EmptySeq
<1>. QED BY <1>1, HeadTailProperties

-----------------------------------------------------------------------------
(***************************************************************************)
(* Lists of steps.                                                         *)
(***************************************************************************)
\* The places of a kind of step are finitely many.
LEMMA PlacesFinite ==
  ASSUME NEW S, NEW s \in Seq(S), NEW op
  PROVE  /\ Places(s, op) \subseteq 1 .. Len(s) /\ IsFiniteSet(Places(s, op))
         /\ Cardinality(Places(s, op)) \in Nat
         /\ Places(s, op) = {} <=> Cardinality(Places(s, op)) = 0
  <1>1. Len(s) \in Nat /\ DOMAIN s = 1 .. Len(s)
    BY LenProperties
  <1>2. Places(s, op) \subseteq 1 .. Len(s)
    BY <1>1 DEF Places
  <1>3. IsFiniteSet(1 .. Len(s))
    BY <1>1, FS_Interval
  <1>4. IsFiniteSet(Places(s, op))
    BY <1>2, <1>3, FS_Subset
  <1>. QED  BY <1>2, <1>4, FS_CardinalityType, FS_EmptySet

\* The steps that are left when the first one is done.
LEMMA TailPlaces ==
  ASSUME NEW S, NEW s \in Seq(S), s # << >>, NEW op
  PROVE  /\ \A i : i \in Places(Tail(s), op) <=> i \in Nat \ {0} /\ i + 1 \in Places(s, op)
         /\ \A i \in Places(Tail(s), op) : Tail(s)[i] = s[i + 1]
         /\ 1 \in Places(s, op) <=> Head(s).op = op
         /\ Cardinality(Places(s, op)) =
              Cardinality(Places(Tail(s), op)) + (IF Head(s).op = op THEN 1 ELSE 0)
  <1>. DEFINE A == Places(s, op)
              B == Places(Tail(s), op)
  <1>1. /\ Head(s) = s[1] /\ Len(s) \in Nat \ {0} /\ Tail(s) \in Seq(S)
        /\ Len(Tail(s)) = Len(s) - 1 /\ DOMAIN s = 1 .. Len(s)
        /\ \A i \in 1 .. Len(s) - 1 : Tail(s)[i] = s[i + 1]
    BY TailFacts, LenProperties
  <1>2. DOMAIN Tail(s) = 1 .. Len(s) - 1
    BY <1>1, LenProperties
  <1>3. \A i : i \in B <=> i \in Nat \ {0} /\ i + 1 \in A
    BY <1>1, <1>2 DEF Places
  <1>4. \A i \in B : Tail(s)[i] = s[i + 1]
    BY <1>1, <1>2 DEF Places
  <1>5. 1 \in A <=> Head(s).op = op
    BY <1>1 DEF Places
  <1>6. /\ IsFiniteSet(A) /\ IsFiniteSet(B) /\ A \subseteq 1 .. Len(s)
        /\ Cardinality(A) \in Nat /\ Cardinality(B) \in Nat
    BY <1>1, PlacesFinite
  <1>. HIDE DEF A, B
  <1>7. Cardinality(B) = Cardinality(A \ {1})
    <2>. DEFINE f == [i \in B |-> i + 1]
    <2>1. f \in [B -> A \ {1}]
      BY <1>3
    <2>2. \A i, j \in B : f[i] = f[j] => i = j
      BY <1>3
    <2>3. \A y \in A \ {1} : \E i \in B : f[i] = y
      <3>. SUFFICES ASSUME NEW y \in A \ {1} PROVE \E i \in B : f[i] = y
        OBVIOUS
      <3>1. y - 1 \in Nat \ {0} /\ (y - 1) + 1 = y
        BY <1>1, <1>6
      <3>2. y - 1 \in B
        BY <1>3, <3>1
      <3>. QED  BY <3>1, <3>2
    <2>4. f \in Bijection(B, A \ {1})
      BY <2>1, <2>2, <2>3, Fun_IsBij
    <2>5. ExistsBijection(B, A \ {1})
      BY <2>4 DEF ExistsBijection
    <2>. QED  BY <1>6, <2>5, FS_Bijection
  <1>8. CASE Head(s).op = op
    <2>1. Cardinality(A \ {1}) = Cardinality(A) - 1
      BY <1>5, <1>6, <1>8, FS_RemoveElement
    <2>2. Cardinality(A) = Cardinality(B) + 1
      BY <1>6, <1>7, <2>1
    <2>. QED  BY <1>3, <1>4, <1>5, <1>8, <2>2 DEF A, B
  <1>9. CASE Head(s).op # op
    <2>1. A \ {1} = A
      BY <1>5, <1>9
    <2>2. Cardinality(A) = Cardinality(B)
      BY <1>7, <2>1
    <2>3. Cardinality(B) = Cardinality(B) + 0
      BY <1>6
    <2>. QED  BY <1>3, <1>4, <1>5, <1>9, <2>2, <2>3 DEF A, B
  <1>. QED  BY <1>8, <1>9

\* The steps when the first one is replaced by a step of another kind.
LEMMA OtherHead ==
  ASSUME NEW S, NEW s \in Seq(S), s # << >>, NEW x \in S, NEW op,
         x.op # op, Head(s).op # op
  PROVE  /\ Places(<<x>> \o Tail(s), op) = Places(s, op)
         /\ \A i \in Places(s, op) : (<<x>> \o Tail(s))[i] = s[i]
  <1>. DEFINE t == <<x>> \o Tail(s)
  <1>1. /\ Head(s) = s[1] /\ Len(s) \in Nat \ {0} /\ Tail(s) \in Seq(S)
        /\ Len(Tail(s)) = Len(s) - 1 /\ DOMAIN s = 1 .. Len(s)
        /\ \A i \in 1 .. Len(s) - 1 : Tail(s)[i] = s[i + 1]
    BY TailFacts, LenProperties
  <1>2. <<x>> \in Seq(S) /\ Len(<<x>>) = 1 /\ <<x>>[1] = x
    OBVIOUS
  <1>3. /\ t \in Seq(S) /\ Len(t) = 1 + (Len(s) - 1)
        /\ \A i \in 1 .. 1 + (Len(s) - 1) : t[i] = IF i <= 1 THEN <<x>>[i] ELSE Tail(s)[i - 1]
    BY <1>1, <1>2, ConcatProperties
  <1>4. DOMAIN t = 1 .. Len(s) /\ t[1] = x
    BY <1>1, <1>2, <1>3, LenProperties
  <1>5. ASSUME NEW i \in 1 .. Len(s), i # 1
        PROVE  t[i] = s[i]
    <2>1. i - 1 \in 1 .. Len(s) - 1 /\ (i - 1) + 1 = i /\ ~(i <= 1)
      BY <1>1, <1>5
    <2>2. t[i] = Tail(s)[i - 1]
      BY <1>1, <1>3, <2>1
    <2>. QED  BY <1>1, <2>1, <2>2
  <1>. HIDE DEF t
  <1>6. Places(t, op) = Places(s, op)
    BY <1>1, <1>4, <1>5 DEF Places
  <1>7. \A i \in Places(s, op) : t[i] = s[i]
    BY <1>1, <1>4, <1>5 DEF Places
  <1>. QED  BY <1>6, <1>7 DEF t

-----------------------------------------------------------------------------
(***************************************************************************)
(* The calls.                                                              *)
(***************************************************************************)
\* What the invariant needs of the list of a call that uses the numbers from
\* `first' on: descriptors in order, as many counted as pushed, each after it
\* was pushed, an event pushed last before a wait.
GoodList(s, first, ids) ==
  /\ s \in Seq(Steps)
  /\ \A i \in Places(s, "push") :
       /\ s[i].item.id >= first /\ s[i].item.id < first + ids
       /\ \A j \in Places(s, "push") : i < j => s[i].item.id < s[j].item.id
  /\ Cardinality(Places(s, "push")) = ids /\ Cardinality(Places(s, "count")) = ids
  /\ Pairs(s)
  /\ \A j \in Places(s, "wait") :
       /\ \A i \in Places(s, "push") : i < j
       /\ \A k, l \in Places(s, "count") : k > j /\ l > j => k = l
       /\ \E i \in Places(s, "push") : s[i].item.event /\ \A k \in Places(s, "push") : k <= i

\* The destructor comes after a wait for everything.
Synced(s) ==
  \A j \in Places(s, "destroy") : \E i \in Places(s, "wait") :
    i < j /\ \A k \in Places(s, "push") \cup Places(s, "count") : k < i

\* The steps are steps, for numbers in range.
LEMMA StepTypes ==
  ASSUME NEW op \in Ops
  PROVE  /\ \A id \in 1 .. MaxId : /\ Step(op, Event(id)) \in Steps
                                   /\ \A n \in Sizes : Step(op, Buffer(id, n)) \in Steps
         /\ Plain(op) \in Steps
  <1>1. MaxId \in Nat
    BY CompletionAssumption
  <1>2. \A id \in 1 .. MaxId : Event(id) \in Items /\ \A n \in Sizes : Buffer(id, n) \in Items
    BY <1>1 DEF Buffer, Event, Items
  <1>3. NoItem \in Items
    BY <1>1 DEF NoItem, Items
  <1>. QED  BY <1>2, <1>3 DEF Step, Plain, Steps

\* The cardinality of small sets.
LEMMA SmallSets ==
  ASSUME NEW a, NEW b, a # b
  PROVE  Cardinality({}) = 0 /\ Cardinality({a}) = 1 /\ Cardinality({a, b}) = 2
  <1>1. Cardinality({}) = 0
    BY FS_EmptySet
  <1>2. IsFiniteSet({a}) /\ Cardinality({a}) = 1
    BY FS_Singleton
  <1>3. Cardinality({a} \cup {b}) = Cardinality({a}) + 1
    BY <1>2, FS_AddElement
  <1>4. {a} \cup {b} = {a, b}
    OBVIOUS
  <1>. QED  BY <1>1, <1>2, <1>3, <1>4

\* A list with one descriptor, pushed before it is counted.
LEMMA OneDescriptor ==
  ASSUME NEW s \in Seq(Steps), NEW first \in Nat, NEW p \in Nat, NEW c \in Nat, p < c,
         Places(s, "push") = {p}, Places(s, "count") = {c}, s[p].item.id = first,
         \A j \in Places(s, "wait") : c < j /\ s[p].item.event
  PROVE  GoodList(s, first, 1)
  <1>1. Cardinality({p}) = 1 /\ Cardinality({c}) = 1
    BY FS_Singleton
  <1>2. Pairs(s)
    <2>. DEFINE m == [i \in {p} |-> c]
    <2>1. m \in [{p} -> {c}] /\ m[p] = c
      OBVIOUS
    <2>. HIDE DEF m
    <2>. QED  BY <2>1 DEF Pairs
  <1>3. \A j \in Places(s, "wait") : p < j
    <2>1. Places(s, "wait") \subseteq Nat
      <3>1. Len(s) \in Nat /\ Places(s, "wait") \subseteq 1 .. Len(s)
        BY PlacesFinite, LenProperties
      <3>. QED  BY <3>1
    <2>. QED  BY <2>1
  <1>4. \A i \in {p} : /\ s[i].item.id >= first /\ s[i].item.id < first + 1
                      /\ \A j \in {p} : i < j => s[i].item.id < s[j].item.id
    OBVIOUS
  <1>5. \A j \in Places(s, "wait") :
          /\ \A i \in {p} : i < j
          /\ \A k, l \in {c} : k > j /\ l > j => k = l
          /\ \E i \in {p} : s[i].item.event /\ \A k \in {p} : k <= i
    BY <1>3
  <1>. QED  BY <1>1, <1>2, <1>4, <1>5, Zenon DEF GoodList

\* A list with a buffer and an event, in this order.
LEMMA TwoDescriptors ==
  ASSUME NEW s \in Seq(Steps), NEW first \in Nat,
         NEW p \in Nat, NEW q \in Nat, NEW c \in Nat, NEW d \in Nat, NEW w \in Nat,
         p < q, p < c, q < d, c # d, q < w, ~(c > w /\ d > w),
         Places(s, "push") = {p, q}, Places(s, "count") = {c, d}, Places(s, "wait") = {w},
         s[p].item.id = first, s[q].item.id = first + 1, s[q].item.event
  PROVE  GoodList(s, first, 2)
  <1>1. Cardinality({p, q}) = 2 /\ Cardinality({c, d}) = 2
    <2>1. p # q
      OBVIOUS
    <2>2. Cardinality({p, q}) = 2
      BY <2>1, SmallSets
    <2>3. Cardinality({c, d}) = 2
      BY SmallSets
    <2>. QED  BY <2>2, <2>3
  <1>2. Pairs(s)
    <2>. DEFINE m == [i \in {p, q} |-> IF i = p THEN c ELSE d]
    <2>1. m \in [{p, q} -> {c, d}] /\ m[p] = c /\ m[q] = d
      OBVIOUS
    <2>. HIDE DEF m
    <2>. QED  BY <2>1 DEF Pairs
  <1>3. \A i \in {p, q} :
          /\ s[i].item.id >= first /\ s[i].item.id < first + 2
          /\ \A j \in {p, q} : i < j => s[i].item.id < s[j].item.id
    OBVIOUS
  <1>4. \A i \in {p, q} : i < w
    OBVIOUS
  <1>5. \A k, l \in {c, d} : k > w /\ l > w => k = l
    OBVIOUS
  <1>6. \E i \in {p, q} : s[i].item.event /\ \A k \in {p, q} : k <= i
    OBVIOUS
  <1>7. \A j \in {w} :
          /\ \A i \in {p, q} : i < j
          /\ \A k, l \in {c, d} : k > j /\ l > j => k = l
          /\ \E i \in {p, q} : s[i].item.event /\ \A k \in {p, q} : k <= i
    BY <1>4, <1>5, <1>6
  <1>9. \A i \in Places(s, "push") :
          /\ s[i].item.id >= first /\ s[i].item.id < first + 2
          /\ \A j \in Places(s, "push") : i < j => s[i].item.id < s[j].item.id
    BY <1>3, Zenon
  <1>10. Cardinality(Places(s, "push")) = 2 /\ Cardinality(Places(s, "count")) = 2
    BY <1>1, Zenon
  <1>11. \A j \in Places(s, "wait") :
          /\ \A i \in Places(s, "push") : i < j
          /\ \A k, l \in Places(s, "count") : k > j /\ l > j => k = l
          /\ \E i \in Places(s, "push") : s[i].item.event /\ \A k \in Places(s, "push") : k <= i
    BY <1>7, Zenon
  <1>. QED  BY ONLY s \in Seq(Steps), <1>2, <1>9, <1>10, <1>11, Zenon DEF GoodList

\* The kinds of steps in the lists, and their types.
LEMMA OpTypes ==
  ASSUME NEW id \in 1 .. MaxId
  PROVE  /\ Step("process", Event(id)) \in Steps /\ Step("push", Event(id)) \in Steps
         /\ Step("sync", Event(id)) \in Steps
         /\ \A n \in Sizes : /\ Step("process", Buffer(id, n)) \in Steps
                             /\ Step("push", Buffer(id, n)) \in Steps
         /\ Plain("count") \in Steps /\ Plain("notify") \in Steps /\ Plain("wait") \in Steps
         /\ Plain("destroy") \in Steps /\ Plain("join") \in Steps
  <1>1. {"process", "push", "sync", "count", "notify", "wait", "destroy", "join"} \subseteq Ops
    BY DEF Ops
  <1>. QED  BY <1>1, StepTypes

\* enqueue_record_event
LEMMA RecordGood ==
  ASSUME NEW id \in 1 .. MaxId
  PROVE  /\ GoodList(RecordEvent(id), id, 1)
         /\ GoodList(Finish(id), id, 1)
         /\ GoodList(RecordEvent(id) \o <<Step("sync", Event(id))>>, id, 1)
  <1>. DEFINE E == <<Step("process", Event(id)), Step("push", Event(id))>>
              s == RecordEvent(id)
              t == Finish(id)
              u == RecordEvent(id) \o <<Step("sync", Event(id))>>
  <1>0. MaxId \in Nat /\ id \in Nat
    BY CompletionAssumption
  <1>1. /\ E \in Seq(Steps) /\ Increment \in Seq(Steps) /\ <<Plain("wait")>> \in Seq(Steps)
        /\ <<Step("sync", Event(id))>> \in Seq(Steps)
    BY OpTypes DEF Increment
  <1>2. s \in Seq(Steps)
    BY <1>1, ConcatProperties DEF RecordEvent
  <1>3. t \in Seq(Steps) /\ u \in Seq(Steps)
    BY <1>1, <1>2, ConcatProperties DEF Finish
  <1>4. /\ Len(s) = 4 /\ s[1] = Step("process", Event(id)) /\ s[2] = Step("push", Event(id))
        /\ s[3] = Plain("count") /\ s[4] = Plain("notify")
    BY DEF RecordEvent, Increment
  <1>5. /\ Len(t) = 5 /\ t[1] = Step("process", Event(id)) /\ t[2] = Step("push", Event(id))
        /\ t[3] = Plain("count") /\ t[4] = Plain("notify") /\ t[5] = Plain("wait")
    BY DEF Finish, RecordEvent, Increment
  <1>6. /\ Len(u) = 5 /\ u[1] = Step("process", Event(id)) /\ u[2] = Step("push", Event(id))
        /\ u[3] = Plain("count") /\ u[4] = Plain("notify") /\ u[5] = Step("sync", Event(id))
    BY DEF RecordEvent, Increment
  <1>. HIDE DEF s, t, u
  <1>7. /\ Places(s, "push") = {2} /\ Places(s, "count") = {3} /\ Places(s, "wait") = {}
    BY <1>2, <1>4 DEF Places, Step, Plain
  <1>8. /\ Places(t, "push") = {2} /\ Places(t, "count") = {3} /\ Places(t, "wait") = {5}
    BY <1>3, <1>5 DEF Places, Step, Plain
  <1>9. /\ Places(u, "push") = {2} /\ Places(u, "count") = {3} /\ Places(u, "wait") = {}
    BY <1>3, <1>6 DEF Places, Step, Plain
  <1>10. /\ s[2].item.id = id /\ t[2].item.id = id /\ u[2].item.id = id /\ t[2].item.event
    BY <1>4, <1>5, <1>6 DEF Step, Event
  <1>11. GoodList(s, id, 1)
    <2>1. 2 \in Nat /\ 3 \in Nat /\ 2 < 3
      OBVIOUS
    <2>2. \A j \in Places(s, "wait") : 3 < j /\ s[2].item.event
      BY <1>7
    <2>. QED  BY <1>0, <1>2, <1>7, <1>10, <2>1, <2>2, OneDescriptor
  <1>12. GoodList(t, id, 1)
    <2>1. 2 \in Nat /\ 3 \in Nat /\ 2 < 3
      OBVIOUS
    <2>2. \A j \in Places(t, "wait") : 3 < j /\ t[2].item.event
      BY <1>8, <1>10
    <2>. QED  BY <1>0, <1>3, <1>8, <1>10, <2>1, <2>2, OneDescriptor
  <1>13. GoodList(u, id, 1)
    <2>1. 2 \in Nat /\ 3 \in Nat /\ 2 < 3
      OBVIOUS
    <2>2. \A j \in Places(u, "wait") : 3 < j /\ u[2].item.event
      BY <1>9
    <2>. QED  BY <1>0, <1>3, <1>9, <1>10, <2>1, <2>2, OneDescriptor
  <1>. QED  BY <1>11, <1>12, <1>13 DEF s, t, u

\* enqueue_read_buffer that does not block
LEMMA ReadGood ==
  ASSUME NEW id \in 1 .. MaxId, NEW n \in Sizes
  PROVE  /\ GoodList(ReadInterleaved(id, n, FALSE), id, 1)
         /\ GoodList(ReadSharded(id, n, FALSE), id, 1)
  <1>. DEFINE E == <<Step("push", Buffer(id, n)), Step("process", Buffer(id, n))>>
              s == ReadInterleaved(id, n, FALSE)
              t == ReadSharded(id, n, FALSE)
  <1>0. MaxId \in Nat /\ id \in Nat
    BY CompletionAssumption
  <1>1. E \in Seq(Steps) /\ Increment \in Seq(Steps)
    BY OpTypes DEF Increment
  <1>2. E \o Increment \in Seq(Steps)
    BY <1>1, ConcatProperties
  <1>3. s = E \o Increment /\ t = E \o Increment
    <2>1. E \o <<>> = E /\ (E \o Increment) \o <<>> = E \o Increment
      BY <1>1, <1>2, ConcatEmptySeq
    <2>. QED  BY <2>1 DEF ReadInterleaved, ReadSharded
  <1>4. /\ Len(s) = 4 /\ s[1] = Step("push", Buffer(id, n))
        /\ s[2] = Step("process", Buffer(id, n))
        /\ s[3] = Plain("count") /\ s[4] = Plain("notify")
    <2>. HIDE DEF s
    <2>. QED  BY <1>3 DEF Increment
  <1>5. s \in Seq(Steps) /\ t = s
    BY <1>2, <1>3
  <1>. HIDE DEF s, t
  <1>6. /\ Places(s, "push") = {1} /\ Places(s, "count") = {3} /\ Places(s, "wait") = {}
    BY <1>4, <1>5 DEF Places, Step, Plain
  <1>7. s[1].item.id = id
    BY <1>4 DEF Step, Buffer
  <1>8. GoodList(s, id, 1)
    BY <1>0, <1>5, <1>6, <1>7, OneDescriptor
  <1>. QED  BY <1>5, <1>8 DEF s, t

\* enqueue_read_buffer that blocks
LEMMA BlockingReadGood ==
  ASSUME NEW id \in 1 .. MaxId, id + 1 \in 1 .. MaxId, NEW n \in Sizes
  PROVE  /\ GoodList(ReadInterleaved(id, n, TRUE), id, 2)
         /\ GoodList(ReadSharded(id, n, TRUE), id, 2)
  <1>. DEFINE E == <<Step("push", Buffer(id, n)), Step("process", Buffer(id, n))>>
              s == ReadInterleaved(id, n, TRUE)
              t == ReadSharded(id, n, TRUE)
  <1>0. MaxId \in Nat /\ id \in Nat
    BY CompletionAssumption
  <1>1. /\ E \in Seq(Steps) /\ Increment \in Seq(Steps) /\ Finish(id + 1) \in Seq(Steps)
    <2>1. Finish(id + 1) \in Seq(Steps)
      BY RecordGood DEF GoodList
    <2>. QED  BY <2>1, OpTypes DEF Increment
  <1>2. s \in Seq(Steps) /\ t \in Seq(Steps)
    BY <1>1, ConcatProperties DEF ReadInterleaved, ReadSharded
  <1>3. /\ Len(s) = 9 /\ s[1] = Step("push", Buffer(id, n))
        /\ s[2] = Step("process", Buffer(id, n)) /\ s[3] = Step("process", Event(id + 1))
        /\ s[4] = Step("push", Event(id + 1)) /\ s[5] = Plain("count") /\ s[6] = Plain("notify")
        /\ s[7] = Plain("wait") /\ s[8] = Plain("count") /\ s[9] = Plain("notify")
    BY DEF ReadInterleaved, Finish, RecordEvent, Increment
  <1>4. /\ Len(t) = 9 /\ t[1] = Step("push", Buffer(id, n))
        /\ t[2] = Step("process", Buffer(id, n)) /\ t[3] = Plain("count")
        /\ t[4] = Plain("notify") /\ t[5] = Step("process", Event(id + 1))
        /\ t[6] = Step("push", Event(id + 1)) /\ t[7] = Plain("count") /\ t[8] = Plain("notify")
        /\ t[9] = Plain("wait")
    BY DEF ReadSharded, Finish, RecordEvent, Increment
  <1>. HIDE DEF s, t
  <1>5. /\ Places(s, "push") = {1, 4} /\ Places(s, "count") = {5, 8}
        /\ Places(s, "wait") = {7}
    BY <1>2, <1>3 DEF Places, Step, Plain
  <1>6. /\ Places(t, "push") = {1, 6} /\ Places(t, "count") = {3, 7}
        /\ Places(t, "wait") = {9}
    BY <1>2, <1>4 DEF Places, Step, Plain
  <1>7. /\ s[1].item.id = id /\ s[4].item.id = id + 1 /\ s[4].item.event
        /\ t[1].item.id = id /\ t[6].item.id = id + 1 /\ t[6].item.event
    BY <1>3, <1>4 DEF Step, Buffer, Event
  <1>8. GoodList(s, id, 2)
    <2>. DEFINE p == 1
                q == 4
                c == 5
                d == 8
                w == 7
    <2>1. /\ p \in Nat /\ q \in Nat /\ c \in Nat /\ d \in Nat /\ w \in Nat
          /\ p < q /\ p < c /\ q < d /\ c # d /\ q < w /\ ~(c > w /\ d > w)
      OBVIOUS
    <2>2. /\ Places(s, "push") = {p, q} /\ Places(s, "count") = {c, d}
          /\ Places(s, "wait") = {w}
          /\ s[p].item.id = id /\ s[q].item.id = id + 1 /\ s[q].item.event
      BY <1>5, <1>7
    <2>. HIDE DEF p, q, c, d, w
    <2>. QED  BY <1>0, <1>2, <2>1, <2>2, TwoDescriptors, Zenon
  <1>9. GoodList(t, id, 2)
    <2>. DEFINE p == 1
                q == 6
                c == 3
                d == 7
                w == 9
    <2>1. /\ p \in Nat /\ q \in Nat /\ c \in Nat /\ d \in Nat /\ w \in Nat
          /\ p < q /\ p < c /\ q < d /\ c # d /\ q < w /\ ~(c > w /\ d > w)
      OBVIOUS
    <2>2. /\ Places(t, "push") = {p, q} /\ Places(t, "count") = {c, d}
          /\ Places(t, "wait") = {w}
          /\ t[p].item.id = id /\ t[q].item.id = id + 1 /\ t[q].item.event
      BY <1>6, <1>7
    <2>. HIDE DEF p, q, c, d, w
    <2>. QED  BY <1>0, <1>2, <2>1, <2>2, TwoDescriptors, Zenon
  <1>. QED  BY <1>8, <1>9 DEF s, t

\* Device::close, with and without a finish before it.
LEMMA CloseGood ==
  ASSUME NEW id \in 1 .. MaxId + 1
  PROVE  /\ GoodList(Close, id, 0)
         /\ id \in 1 .. MaxId => GoodList(SyncAndClose(id), id, 1) /\ Synced(SyncAndClose(id))
  <1>0. MaxId \in Nat /\ id \in Nat
    BY CompletionAssumption
  <1>1. Close \in Seq(Steps)
    <2>1. Plain("destroy") \in Steps /\ Plain("join") \in Steps
      BY StepTypes DEF Ops
    <2>. QED  BY <2>1 DEF Close
  <1>2. ASSUME id \in 1 .. MaxId
        PROVE  GoodList(SyncAndClose(id), id, 1) /\ Synced(SyncAndClose(id))
    <2>. DEFINE s == SyncAndClose(id)
    <2>1. s = Finish(id) \o Close
      BY DEF SyncAndClose
    <2>2. Finish(id) \in Seq(Steps)
      BY <1>2, RecordGood DEF GoodList
    <2>3. s \in Seq(Steps)
      BY <1>1, <2>1, <2>2, ConcatProperties
    <2>4. /\ Len(s) = 7 /\ s[1] = Step("process", Event(id)) /\ s[2] = Step("push", Event(id))
          /\ s[3] = Plain("count") /\ s[4] = Plain("notify") /\ s[5] = Plain("wait")
          /\ s[6] = Plain("destroy") /\ s[7] = Plain("join")
      BY <2>1 DEF Finish, RecordEvent, Increment, Close
    <2>. HIDE DEF s
    <2>5. /\ Places(s, "push") = {2} /\ Places(s, "count") = {3} /\ Places(s, "wait") = {5}
          /\ Places(s, "destroy") = {6}
      BY <2>3, <2>4 DEF Places, Step, Plain
    <2>6. s[2].item.id = id /\ s[2].item.event
      BY <2>4 DEF Step, Event
    <2>7. GoodList(s, id, 1)
      <3>1. 2 \in Nat /\ 3 \in Nat /\ 2 < 3
        OBVIOUS
      <3>2. \A j \in Places(s, "wait") : 3 < j /\ s[2].item.event
        BY <2>5, <2>6
      <3>. QED  BY <1>0, <2>3, <2>5, <2>6, <3>1, <3>2, OneDescriptor
    <2>8. Synced(s)
      BY <2>5 DEF Synced
    <2>. QED  BY <2>7, <2>8 DEF s
  <1>3. GoodList(Close, id, 0)
    <2>2. Len(Close) = 2 /\ Close[1] = Plain("destroy") /\ Close[2] = Plain("join")
      BY DEF Close
    <2>3. Places(Close, "push") = {} /\ Places(Close, "count") = {} /\ Places(Close, "wait") = {}
      BY <1>1, <2>2 DEF Places, Step, Plain
    <2>4. Cardinality({}) = 0
      BY FS_EmptySet
    <2>5. Pairs(Close)
      <3>1. [i \in {} |-> i] \in [{} -> {}]
        OBVIOUS
      <3>. QED  BY <2>3, <3>1 DEF Pairs
    <2>. QED  BY <1>1, <2>3, <2>4, <2>5 DEF GoodList
  <1>. QED  BY <1>2, <1>3

-----------------------------------------------------------------------------
(***************************************************************************)
(* The invariant holds at first and after a call.                          *)
(***************************************************************************)
\* Nothing is left of an empty list.
LEMMA NoPlaces ==
  ASSUME NEW op
  PROVE  Places(<<>>, op) = {} /\ Cardinality(Places(<<>>, op)) = 0
  <1>1. Places(<<>>, op) = {}
    BY DEF Places
  <1>. QED  BY <1>1, FS_EmptySet

\* The first state.
LEMMA InitLemma == Init => CompletionInv
  <1>. SUFFICES ASSUME Init PROVE CompletionInv
    OBVIOUS
  <1>1. MaxId \in Nat /\ Size \in Nat \ {0} /\ MaxPush \in 1 .. Size
    BY CompletionAssumption
  <1>2. NoItem \in Items
    BY <1>1 DEF NoItem, Items
  <1>3. TypeOK
    <2>1. <<>> \in Seq(Steps) /\ <<>> \in Seq(Items)
      OBVIOUS
    <2>2. ring \in [0 .. Size - 1 -> [id : 0 .. MaxId, left : Nat]]
      BY <1>1 DEF Init
    <2>3. 0 \in 0 .. MaxId /\ 0 \in 0 .. 0 /\ 1 \in 1 .. MaxId + 1 /\ 0 \in 0 .. Size - 1
          /\ 0 \in 0 .. MaxPush
      BY <1>1
    <2>. QED  BY <1>2, <2>1, <2>2, <2>3 DEF Init, TypeOK
  <1>4. todo = <<>> /\ issued = <<>> /\ cur = NoItem /\ last = 0 /\ nextId = 1 /\ DOMAIN issued = {}
    BY DEF Init
  <1>5. OrderInv
    BY <1>4, NoPlaces DEF OrderInv
  <1>6. CountInv
    <2>1. Many("count") = 0 /\ Many("push") = 0
      BY <1>4, NoPlaces DEF Many
    <2>. QED  BY <2>1 DEF Init, CountInv
  <1>7. Pairs(todo)
    <2>1. [i \in {} |-> i] \in [{} -> {}]
      OBVIOUS
    <2>. QED  BY <1>4, <2>1, NoPlaces DEF Pairs
  <1>8. ReaderInv
    BY DEF Init, ReaderInv
  <1>9. WaitInv /\ DestroyInv
    BY <1>4, NoPlaces DEF WaitInv, DestroyInv
  <1>10. DeviceInv
    BY DEF Init, DeviceInv
  <1>. QED  BY <1>3, <1>5, <1>6, <1>7, <1>8, <1>9, <1>10 DEF CompletionInv

\* A call begins.
LEMMA CallStep ==
  ASSUME CompletionInv, NEW s, NEW ids \in 0 .. 2, Call(s, ids), GoodList(s, nextId, ids),
         closed' \in {"open", "device", "devices"}, closed' = "devices" => Synced(s)
  PROVE  CompletionInv'
  <1>. USE DEF CompletionInv
  <1>1. /\ todo = <<>> /\ todo' = s /\ nextId' = nextId + ids /\ nextId + ids <= MaxId + 1
        /\ UNCHANGED <<asleep, testMode, hung, exit, entries, completed, issued, rpc, batch,
                       taken, cur, left, last, rd, rdT, wr, wrT, ring, devQ, dleft, chunk>>
    BY DEF Call, reader, device
  <1>2. nextId \in 1 .. MaxId + 1 /\ MaxId \in Nat
    BY CompletionAssumption DEF TypeOK
  <1>3. TypeOK'
    <2>1. nextId' \in 1 .. MaxId + 1
      BY <1>1, <1>2
    <2>2. s \in Seq(Steps)
      BY DEF GoodList
    <2>. QED  BY <1>1, <2>1, <2>2 DEF TypeOK
  <1>4. OrderInv'
    <2>1. \A i \in Places(s, "push") : s[i].item.id \in Int
      <3>1. s \in Seq(Steps)
        BY DEF GoodList
      <3>2. Len(s) \in Nat /\ Places(s, "push") \subseteq 1 .. Len(s)
        BY <3>1, PlacesFinite, LenProperties
      <3>3. \A i \in Places(s, "push") : s[i] \in Steps
        BY <3>1, <3>2, ElementOfSeq
      <3>. QED  BY <1>2, <3>3 DEF Steps, Items
    <2>2. /\ \A k \in DOMAIN issued : issued[k].id \in Int
          /\ cur.id \in Int /\ last \in Int
      <3>1. issued \in Seq(Items) /\ cur \in Items /\ last \in 0 .. MaxId
        BY DEF TypeOK
      <3>2. \A k \in DOMAIN issued : issued[k] \in Items
        BY <3>1, ElementOfSeq, LenProperties
      <3>. QED  BY <1>2, <3>1, <3>2 DEF Items
    <2>3. /\ \A k \in DOMAIN issued :
               /\ issued[k].id > last /\ issued[k].id < nextId
               /\ \A l \in DOMAIN issued : k < l => issued[k].id < issued[l].id
               /\ cur # NoItem => cur.id < issued[k].id
          /\ cur # NoItem => last < cur.id /\ cur.id < nextId
          /\ last < nextId
      BY DEF OrderInv
    <2>4. \A i \in Places(s, "push") :
            /\ s[i].item.id >= nextId /\ s[i].item.id < nextId + ids
            /\ \A j \in Places(s, "push") : i < j => s[i].item.id < s[j].item.id
      BY DEF GoodList
    <2>5. \A i \in Places(s, "push") :
            /\ s[i].item.id > last /\ s[i].item.id < nextId'
            /\ \A j \in Places(s, "push") : i < j => s[i].item.id < s[j].item.id
            /\ \A k \in DOMAIN issued : issued[k].id < s[i].item.id
            /\ cur # NoItem => cur.id < s[i].item.id
      BY <1>1, <1>2, <2>1, <2>2, <2>3, <2>4
    <2>6. /\ \A k \in DOMAIN issued : issued[k].id < nextId'
          /\ cur # NoItem => cur.id < nextId'
          /\ last < nextId'
      BY <1>1, <1>2, <2>2, <2>3
    <2>. QED  BY <1>1, <2>3, <2>5, <2>6 DEF OrderInv
  <1>5. CountInv'
    <2>1. Many("count") = 0 /\ Many("push") = 0
      BY <1>1, NoPlaces DEF Many
    <2>2. Many("count")' = ids /\ Many("push")' = ids
      BY <1>1 DEF Many, GoodList
    <2>3. /\ entries \in Nat /\ completed \in Nat /\ taken \in Nat /\ Len(issued) \in Nat
      BY <1>2, LenProperties DEF TypeOK
    <2>. QED  BY <1>1, <1>2, <2>1, <2>2, <2>3 DEF CountInv
  <1>6. Pairs(todo)'
    BY <1>1 DEF GoodList, Pairs
  <1>7. ReaderInv' /\ DeviceInv'
    BY <1>1 DEF ReaderInv, DeviceInv
  <1>8. WaitInv'
    BY <1>1 DEF WaitInv, GoodList
  <1>9. DestroyInv'
    BY <1>1 DEF DestroyInv, Synced
  <1>. QED  BY <1>3, <1>4, <1>5, <1>6, <1>7, <1>8, <1>9

-----------------------------------------------------------------------------
(***************************************************************************)
(* What a step done does to each part of the invariant.                    *)
(***************************************************************************)
\* The types that the parts below rely on.
LEMMA Basics ==
  ASSUME TypeOK
  PROVE  /\ MaxId \in Nat /\ todo \in Seq(Steps) /\ issued \in Seq(Items)
         /\ nextId \in Nat /\ last \in Nat /\ cur.id \in Nat
         /\ entries \in Nat /\ completed \in Nat /\ taken \in Nat /\ batch \in Nat
         /\ Len(issued) \in Nat /\ Len(todo) \in Nat
         /\ DOMAIN issued = 1 .. Len(issued) /\ DOMAIN todo = 1 .. Len(todo)
         /\ \A k \in DOMAIN issued : issued[k] \in Items /\ issued[k].id \in Nat
         /\ \A i \in DOMAIN todo : todo[i] \in Steps /\ todo[i].item.id \in Nat
         /\ \A op : Places(todo, op) \subseteq DOMAIN todo
  <1>1. MaxId \in Nat
    BY CompletionAssumption
  <1>2. /\ todo \in Seq(Steps) /\ issued \in Seq(Items) /\ nextId \in Nat /\ last \in Nat
        /\ cur \in Items /\ entries \in Nat /\ completed \in Nat /\ taken \in Nat /\ batch \in Nat
    BY <1>1 DEF TypeOK
  <1>3. /\ Len(issued) \in Nat /\ Len(todo) \in Nat
        /\ DOMAIN issued = 1 .. Len(issued) /\ DOMAIN todo = 1 .. Len(todo)
    BY <1>2, LenProperties
  <1>4. /\ \A k \in DOMAIN issued : issued[k] \in Items
        /\ \A i \in DOMAIN todo : todo[i] \in Steps
    BY <1>2, <1>3, ElementOfSeq
  <1>5. \A x \in Items : x.id \in Nat
    BY <1>1 DEF Items
  <1>6. \A x \in Steps : x.item \in Items
    BY DEF Steps
  <1>7. \A op : Places(todo, op) \subseteq DOMAIN todo
    BY DEF Places
  <1>. QED  BY <1>1, <1>2, <1>3, <1>4, <1>5, <1>6, <1>7

\* The places of the steps that are left.
LEMMA Shifted ==
  ASSUME TypeOK, todo # <<>>, Done
  PROVE  /\ todo' \in Seq(Steps) /\ Head(todo) = todo[1] /\ Head(todo) \in Steps
         /\ Item \in Items /\ 1 \in DOMAIN todo
         /\ \A op, i : i \in Places(todo', op) <=> i \in Nat \ {0} /\ i + 1 \in Places(todo, op)
         /\ \A op : \A i \in Places(todo', op) : todo'[i] = todo[i + 1]
         /\ \A op : 1 \in Places(todo, op) <=> Head(todo).op = op
         /\ \A op : /\ Many(op) = Many(op)' + (IF Head(todo).op = op THEN 1 ELSE 0)
                    /\ Many(op) \in Nat /\ Many(op)' \in Nat
  <1>1. todo \in Seq(Steps) /\ todo' = Tail(todo)
    BY Basics DEF Done
  <1>2. /\ Head(todo) = todo[1] /\ Head(todo) \in Steps /\ Tail(todo) \in Seq(Steps)
        /\ Len(todo) \in Nat \ {0} /\ DOMAIN todo = 1 .. Len(todo)
    BY <1>1, TailFacts, LenProperties
  <1>3. \A op :
          /\ \A i : i \in Places(Tail(todo), op) <=> i \in Nat \ {0} /\ i + 1 \in Places(todo, op)
          /\ \A i \in Places(Tail(todo), op) : Tail(todo)[i] = todo[i + 1]
          /\ 1 \in Places(todo, op) <=> Head(todo).op = op
          /\ Cardinality(Places(todo, op)) =
               Cardinality(Places(Tail(todo), op)) + (IF Head(todo).op = op THEN 1 ELSE 0)
    BY <1>1, TailPlaces
  <1>4. \A op : Cardinality(Places(todo, op)) \in Nat
                /\ Cardinality(Places(Tail(todo), op)) \in Nat
    BY <1>1, <1>2, PlacesFinite
  <1>5. Item \in Items /\ 1 \in DOMAIN todo
    BY <1>2 DEF Item, Steps
  <1>6. \A op : Many(op)' = Cardinality(Places(Tail(todo), op))
    BY <1>1 DEF Many
  <1>. QED  BY <1>1, <1>2, <1>3, <1>4, <1>5, <1>6 DEF Many

\* Descriptors keep their order.
LEMMA OrderTail ==
  ASSUME TypeOK, OrderInv, todo # <<>>, Done, UNCHANGED <<nextId, last, issued, cur>>
  PROVE  OrderInv'
  <1>1. /\ \A i : i \in Places(todo', "push") <=> i \in Nat \ {0} /\ i + 1 \in Places(todo, "push")
        /\ \A i \in Places(todo', "push") : todo'[i] = todo[i + 1]
    BY Shifted
  <1>2. \A i \in Places(todo', "push") :
          /\ todo'[i].item.id > last /\ todo'[i].item.id < nextId
          /\ \A j \in Places(todo', "push") : i < j => todo'[i].item.id < todo'[j].item.id
          /\ \A k \in DOMAIN issued : issued[k].id < todo'[i].item.id
          /\ cur # NoItem => cur.id < todo'[i].item.id
    <2>. SUFFICES ASSUME NEW i \in Places(todo', "push")
                  PROVE  /\ todo'[i].item.id > last /\ todo'[i].item.id < nextId
                         /\ \A j \in Places(todo', "push") :
                              i < j => todo'[i].item.id < todo'[j].item.id
                         /\ \A k \in DOMAIN issued : issued[k].id < todo'[i].item.id
                         /\ cur # NoItem => cur.id < todo'[i].item.id
      OBVIOUS
    <2>1. i \in Nat /\ i + 1 \in Places(todo, "push") /\ todo'[i] = todo[i + 1]
      BY <1>1
    <2>2. \A j \in Places(todo', "push") : /\ j \in Nat /\ j + 1 \in Places(todo, "push")
                                           /\ todo'[j] = todo[j + 1]
      BY <1>1
    <2>3. \A j \in Places(todo', "push") : i < j => i + 1 < j + 1
      BY <2>1, <2>2
    <2>. QED  BY <2>1, <2>2, <2>3 DEF OrderInv
  <1>. QED  BY <1>2 DEF OrderInv

\* Descriptors are still counted after they are pushed.
LEMMA PairsTail ==
  ASSUME TypeOK, Pairs(todo), todo # <<>>, Done
  PROVE  Pairs(todo)'
  <1>. DEFINE P == Places(todo', "push")
              C == Places(todo', "count")
  <1>1. PICK m \in [Places(todo, "push") -> Places(todo, "count")] :
          /\ \A i \in Places(todo, "push") : m[i] > i
          /\ \A i, j \in Places(todo, "push") : m[i] = m[j] => i = j
    BY DEF Pairs
  <1>2. /\ \A i : i \in P <=> i \in Nat \ {0} /\ i + 1 \in Places(todo, "push")
        /\ \A i : i \in C <=> i \in Nat \ {0} /\ i + 1 \in Places(todo, "count")
    BY Shifted
  <1>3. Places(todo, "count") \subseteq Nat
    BY Basics
  <1>. DEFINE f == [i \in P |-> m[i + 1] - 1]
  <1>4. \A i \in P : /\ i \in Nat \ {0} /\ i + 1 \in Places(todo, "push")
                     /\ m[i + 1] \in Places(todo, "count") /\ m[i + 1] \in Nat
                     /\ m[i + 1] > i + 1
    BY <1>1, <1>2, <1>3
  <1>5. \A i \in P : /\ m[i + 1] - 1 \in C /\ m[i + 1] - 1 > i
    <2>. SUFFICES ASSUME NEW i \in P PROVE m[i + 1] - 1 \in C /\ m[i + 1] - 1 > i
      OBVIOUS
    <2>1. m[i + 1] - 1 \in Nat \ {0} /\ (m[i + 1] - 1) + 1 = m[i + 1] /\ m[i + 1] - 1 > i
      BY <1>4
    <2>. QED  BY <1>2, <1>4, <2>1
  <1>6. f \in [P -> C] /\ \A i \in P : f[i] = m[i + 1] - 1
    BY <1>5
  <1>7. \A i, j \in P : f[i] = f[j] => i = j
    <2>. SUFFICES ASSUME NEW i \in P, NEW j \in P, f[i] = f[j] PROVE i = j
      OBVIOUS
    <2>1. m[i + 1] = m[j + 1]
      BY <1>4, <1>6
    <2>2. i + 1 = j + 1
      BY <1>1, <1>4, <2>1
    <2>. QED  BY <1>4, <2>2
  <1>8. \A i \in P : f[i] > i
    BY <1>5, <1>6
  <1>. HIDE DEF f
  <1>9. \E g \in [P -> C] : (\A i \in P : g[i] > i) /\ (\A i, j \in P : g[i] = g[j] => i = j)
    BY <1>6, <1>7, <1>8
  <1>. QED  BY <1>9 DEF Pairs

\* What finish waits for stays, also when the last event is pushed.
LEMMA WaitTail ==
  ASSUME TypeOK, WaitInv, todo # <<>>, Done,
         IF Head(todo).op = "push" THEN issued' = Append(issued, Item) ELSE UNCHANGED issued
  PROVE  WaitInv'
  <1>. DEFINE P == Places(todo', "push")
              C == Places(todo', "count")
              W == Places(todo', "wait")
  <1>1. /\ \A i : i \in P <=> i \in Nat \ {0} /\ i + 1 \in Places(todo, "push")
        /\ \A i : i \in C <=> i \in Nat \ {0} /\ i + 1 \in Places(todo, "count")
        /\ \A i : i \in W <=> i \in Nat \ {0} /\ i + 1 \in Places(todo, "wait")
        /\ \A i \in P : todo'[i] = todo[i + 1]
        /\ 1 \in Places(todo, "push") <=> Head(todo).op = "push"
        /\ Item = todo[1].item /\ Item \in Items
    BY Shifted DEF Item
  <1>2. issued \in Seq(Items) /\ Places(todo, "push") \subseteq Nat \ {0}
    BY Basics
  <1>3. ASSUME NEW j \in W
        PROVE  /\ \A i \in P : i < j
               /\ \A k, l \in C : k > j /\ l > j => k = l
               /\ \/ \E i \in P : todo'[i].item.event /\ \A k \in P : k <= i
                  \/ /\ P = {}
                     /\ issued' = <<>> \/ issued'[Len(issued')].event
    <2>1. j \in Nat /\ j + 1 \in Places(todo, "wait")
      BY <1>1
    <2>2. /\ \A i \in Places(todo, "push") : i < j + 1
          /\ \A k, l \in Places(todo, "count") : k > j + 1 /\ l > j + 1 => k = l
          /\ \/ \E i \in Places(todo, "push") : todo[i].item.event /\
                  \A k \in Places(todo, "push") : k <= i
             \/ /\ Places(todo, "push") = {}
                /\ issued = <<>> \/ issued[Len(issued)].event
      BY <2>1 DEF WaitInv
    <2>3. \A i \in P : i < j
      BY <1>1, <2>1, <2>2
    <2>4. \A k, l \in C : k > j /\ l > j => k = l
      <3>. SUFFICES ASSUME NEW k \in C, NEW l \in C, k > j, l > j PROVE k = l
        OBVIOUS
      <3>1. k \in Nat /\ l \in Nat /\ k + 1 \in Places(todo, "count")
            /\ l + 1 \in Places(todo, "count") /\ k + 1 > j + 1 /\ l + 1 > j + 1
        BY <1>1, <2>1
      <3>2. k + 1 = l + 1
        BY <2>2, <3>1
      <3>. QED  BY <3>1, <3>2
    <2>5. CASE Places(todo, "push") = {} /\ (issued = <<>> \/ issued[Len(issued)].event)
      BY <1>1, <2>3, <2>4, <2>5
    <2>6. CASE \E i \in Places(todo, "push") : todo[i].item.event /\
                 \A k \in Places(todo, "push") : k <= i
      <3>1. PICK i \in Places(todo, "push") : todo[i].item.event /\
                 \A k \in Places(todo, "push") : k <= i
        BY <2>6
      <3>2. CASE i = 1
        <4>1. P = {}
          BY <1>1, <3>1, <3>2
        <4>2. issued' = Append(issued, Item) /\ Item.event
          BY <1>1, <3>1, <3>2
        <4>3. issued'[Len(issued')].event
          <5>1. Len(issued') = Len(issued) + 1 /\ issued'[Len(issued) + 1] = Item
            BY <1>1, <1>2, <4>2, AppendFacts
          <5>. QED  BY <4>2, <5>1
        <4>. QED  BY <2>3, <2>4, <4>1, <4>3
      <3>3. CASE i # 1
        <4>1. i - 1 \in Nat \ {0} /\ (i - 1) + 1 = i
          BY <1>2, <3>3
        <4>2. i - 1 \in P /\ todo'[i - 1] = todo[i]
          BY <1>1, <4>1
        <4>3. \A k \in P : k <= i - 1
          BY <1>1, <3>1, <4>1
        <4>. QED  BY <2>3, <2>4, <3>1, <4>2, <4>3
      <3>. QED  BY <3>2, <3>3
    <2>. QED  BY <2>2, <2>5, <2>6
  <1>. QED  BY <1>3 DEF WaitInv

\* The destructor comes after a wait, or there is nothing left.
LEMMA DestroyTail ==
  ASSUME TypeOK, DestroyInv, todo # <<>>, Done, UNCHANGED <<exit, closed>>,
         Head(todo).op \notin {"push", "count"} => UNCHANGED <<issued, entries, completed>>,
         Head(todo).op = "wait" /\ Places(todo, "push") = {} /\ Places(todo, "count") = {} =>
           issued = <<>> /\ entries = completed
  PROVE  DestroyInv'
  <1>. DEFINE P == Places(todo', "push")
              C == Places(todo', "count")
              W == Places(todo', "wait")
  <1>1. /\ \A i : i \in P <=> i \in Nat \ {0} /\ i + 1 \in Places(todo, "push")
        /\ \A i : i \in C <=> i \in Nat \ {0} /\ i + 1 \in Places(todo, "count")
        /\ \A i : i \in W <=> i \in Nat \ {0} /\ i + 1 \in Places(todo, "wait")
        /\ \A i : i \in Places(todo', "destroy") <=>
                    i \in Nat \ {0} /\ i + 1 \in Places(todo, "destroy")
        /\ 1 \in Places(todo, "push") <=> Head(todo).op = "push"
        /\ 1 \in Places(todo, "count") <=> Head(todo).op = "count"
        /\ 1 \in Places(todo, "wait") <=> Head(todo).op = "wait"
    BY Shifted
  <1>2. /\ Places(todo, "push") \subseteq Nat \ {0} /\ Places(todo, "count") \subseteq Nat \ {0}
        /\ Places(todo, "wait") \subseteq Nat \ {0}
    BY Basics
  <1>3. ASSUME closed = "devices", ~exit, NEW j \in Places(todo', "destroy")
        PROVE  \/ \E i \in W : i < j /\ \A k \in P \cup C : k < i
               \/ /\ P = {} /\ C = {} /\ issued' = <<>> /\ entries' = completed'
    <2>1. \/ \E i \in Places(todo, "wait") :
               i < j + 1 /\ \A k \in Places(todo, "push") \cup Places(todo, "count") : k < i
          \/ /\ Places(todo, "push") = {} /\ Places(todo, "count") = {}
             /\ issued = <<>> /\ entries = completed
      BY <1>1, <1>3 DEF DestroyInv
    <2>2. CASE /\ Places(todo, "push") = {} /\ Places(todo, "count") = {}
               /\ issued = <<>> /\ entries = completed
      <3>1. Head(todo).op \notin {"push", "count"}
        BY <1>1, <2>2
      <3>. QED  BY <1>1, <2>2, <3>1
    <2>3. CASE \E i \in Places(todo, "wait") :
                 i < j + 1 /\ \A k \in Places(todo, "push") \cup Places(todo, "count") : k < i
      <3>1. PICK i \in Places(todo, "wait") :
                 i < j + 1 /\ \A k \in Places(todo, "push") \cup Places(todo, "count") : k < i
        BY <2>3
      <3>2. CASE i = 1
        <4>1. Places(todo, "push") = {} /\ Places(todo, "count") = {}
          BY <1>2, <3>1, <3>2
        <4>2. Head(todo).op = "wait"
          BY <1>1, <3>2
        <4>3. issued = <<>> /\ entries = completed
          BY <4>1, <4>2
        <4>. QED  BY <1>1, <4>1, <4>2, <4>3
      <3>3. CASE i # 1
        <4>1. i - 1 \in Nat \ {0} /\ (i - 1) + 1 = i
          BY <1>2, <3>3
        <4>2. i - 1 \in W
          BY <1>1, <4>1
        <4>3. i - 1 < j /\ \A k \in P \cup C : k < i - 1
          <5>1. j \in Nat
            BY <1>1, <1>3
          <5>. QED  BY <1>1, <3>1, <4>1, <5>1
        <4>. QED  BY <4>2, <4>3
      <3>. QED  BY <3>2, <3>3
    <2>. QED  BY <2>1, <2>2, <2>3
  <1>. QED  BY <1>3 DEF DestroyInv

\* The calls of the program.
LEMMA CallSteps ==
  ASSUME CompletionInv,
         EnqueueReadBuffer \/ EnqueueRecordEvent \/ CallFinish \/ EventSynchronize \/ CloseDevice
         \/ CloseDevices
  PROVE  CompletionInv'
  <1>1. MaxId \in Nat /\ nextId \in 1 .. MaxId + 1 
    BY CompletionAssumption DEF CompletionInv, TypeOK
  <1>2. CASE EnqueueReadBuffer
    <2>1. PICK n \in Sizes, blocking \in BOOLEAN :
            \/ CallApi(ReadInterleaved(nextId, n, blocking), IF blocking THEN 2 ELSE 1)
            \/ CallApi(ReadSharded(nextId, n, blocking), IF blocking THEN 2 ELSE 1)
      BY <1>2, Zenon DEF EnqueueReadBuffer
    <2>2. CASE blocking = TRUE
      <3>1. \/ CallApi(ReadInterleaved(nextId, n, TRUE), 2)
            \/ CallApi(ReadSharded(nextId, n, TRUE), 2)
        BY <2>1, <2>2, Zenon
      <3>2. nextId + 2 <= MaxId /\ closed' = "open"
        BY <3>1, Zenon DEF CallApi, Call
      <3>3. nextId \in 1 .. MaxId /\ nextId + 1 \in 1 .. MaxId /\ 2 \in 0 .. 2
        BY <1>1, <3>2
      <3>4. /\ GoodList(ReadInterleaved(nextId, n, TRUE), nextId, 2)
            /\ GoodList(ReadSharded(nextId, n, TRUE), nextId, 2)
        BY <3>3, BlockingReadGood
      <3>5. \/ Call(ReadInterleaved(nextId, n, TRUE), 2)
            \/ Call(ReadSharded(nextId, n, TRUE), 2)
        BY <3>1 DEF CallApi
      <3>. QED  BY <1>1, <3>2, <3>3, <3>4, <3>5, CallStep
    <2>3. CASE blocking = FALSE
      <3>1. \/ CallApi(ReadInterleaved(nextId, n, FALSE), 1)
            \/ CallApi(ReadSharded(nextId, n, FALSE), 1)
        BY <2>1, <2>3, Zenon
      <3>2. nextId + 1 <= MaxId /\ closed' = "open"
        BY <3>1, Zenon DEF CallApi, Call
      <3>3. nextId \in 1 .. MaxId /\ 1 \in 0 .. 2
        BY <1>1, <3>2
      <3>4. /\ GoodList(ReadInterleaved(nextId, n, FALSE), nextId, 1)
            /\ GoodList(ReadSharded(nextId, n, FALSE), nextId, 1)
        BY <3>3, ReadGood
      <3>5. \/ Call(ReadInterleaved(nextId, n, FALSE), 1)
            \/ Call(ReadSharded(nextId, n, FALSE), 1)
        BY <3>1 DEF CallApi
      <3>. QED  BY <1>1, <3>2, <3>3, <3>4, <3>5, CallStep
    <2>. QED  BY <2>2, <2>3, Zenon
  <1>3. CASE EnqueueRecordEvent \/ CallFinish \/ EventSynchronize
    <2>1. \/ CallApi(RecordEvent(nextId), 1) \/ CallApi(Finish(nextId), 1)
          \/ CallApi(RecordEvent(nextId) \o <<Step("sync", Event(nextId))>>, 1)
      BY <1>3, Zenon DEF EnqueueRecordEvent, CallFinish, EventSynchronize
    <2>2. nextId + 1 <= MaxId /\ closed' = "open"
      BY <2>1, Zenon DEF CallApi, Call
    <2>3. nextId \in 1 .. MaxId /\ 1 \in 0 .. 2
      BY <1>1, <2>2
    <2>4. /\ GoodList(RecordEvent(nextId), nextId, 1) /\ GoodList(Finish(nextId), nextId, 1)
          /\ GoodList(RecordEvent(nextId) \o <<Step("sync", Event(nextId))>>, nextId, 1)
      BY <2>3, RecordGood
    <2>5. \/ Call(RecordEvent(nextId), 1) \/ Call(Finish(nextId), 1)
          \/ Call(RecordEvent(nextId) \o <<Step("sync", Event(nextId))>>, 1)
      BY <2>1, Zenon DEF CallApi
    <2>. QED  BY <1>1, <2>2, <2>3, <2>4, <2>5, CallStep, Zenon
  <1>4. CASE CloseDevice
    <2>1. Call(Close, 0) /\ closed' = "device" /\ 0 \in 0 .. 2
      BY <1>4 DEF CloseDevice
    <2>2. GoodList(Close, nextId, 0)
      BY <1>1, CloseGood
    <2>. QED  BY <2>1, <2>2, CallStep
  <1>5. CASE CloseDevices
    <2>1. Call(SyncAndClose(nextId), 1) /\ closed' = "devices" /\ 1 \in 0 .. 2
      BY <1>5 DEF CloseDevices
    <2>2. nextId \in 1 .. MaxId
      BY <1>1, <2>1 DEF Call
    <2>3. GoodList(SyncAndClose(nextId), nextId, 1) /\ Synced(SyncAndClose(nextId))
      BY <1>1, <2>2, CloseGood
    <2>. QED  BY <2>1, <2>3, CallStep
  <1>. QED  BY <1>2, <1>3, <1>4, <1>5

\* What is left of a list whose first step is replaced, as finish and the
\* destructor do when they tell the reader to leave.
LEMMA ExitHead ==
  ASSUME CompletionInv, todo # <<>>, Head(todo).op \in {"wait", "destroy"}, exit' = TRUE,
         todo' = <<Plain("notifyExit")>> \o Tail(todo),
         UNCHANGED <<asleep, nextId, closed, testMode, hung, entries, completed, issued,
                     reader, device>>
  PROVE  CompletionInv'
  <1>. USE DEF CompletionInv
  <1>. DEFINE x == Plain("notifyExit")
  <1>1. x \in Steps /\ x.op = "notifyExit"
    BY StepTypes DEF Ops, Plain, Step
  <1>2. todo \in Seq(Steps) /\ Tail(todo) \in Seq(Steps)
    BY TailFacts DEF TypeOK
  <1>3. todo' \in Seq(Steps)
    <2>1. <<x>> \in Seq(Steps)
      BY <1>1
    <2>. QED  BY <1>2, <2>1, ConcatProperties
  <1>4. UNCHANGED <<asleep, nextId, closed, testMode, hung, entries, completed, issued,
                    rpc, batch, taken, cur, left, last, rd, rdT, wr, wrT, ring, devQ, dleft, chunk>>
    BY DEF reader, device
  <1>5. /\ Places(todo', "push") = Places(todo, "push")
        /\ \A i \in Places(todo, "push") : todo'[i] = todo[i]
        /\ Places(todo', "count") = Places(todo, "count")
    <2>1. /\ "notifyExit" # "push" /\ "notifyExit" # "count"
          /\ Head(todo).op # "push" /\ Head(todo).op # "count" /\ todo' = <<x>> \o Tail(todo)
      OBVIOUS
    <2>. HIDE DEF x
    <2>2. /\ Places(<<x>> \o Tail(todo), "push") = Places(todo, "push")
          /\ \A i \in Places(todo, "push") : (<<x>> \o Tail(todo))[i] = todo[i]
      BY <1>1, <1>2, <2>1, OtherHead
    <2>3. Places(<<x>> \o Tail(todo), "count") = Places(todo, "count")
      BY <1>1, <1>2, <2>1, OtherHead
    <2>. QED  BY <2>1, <2>2, <2>3
  <1>6. \A j \in Places(todo', "wait") : j \in Places(todo, "wait")
    <2>. SUFFICES ASSUME NEW j \in Places(todo', "wait") PROVE j \in Places(todo, "wait")
      OBVIOUS
    <2>. DEFINE t == todo'
    <2>1. /\ Head(t) = x /\ Tail(t) = Tail(todo) /\ t # <<>> /\ t \in Seq(Steps)
          /\ j \in Places(t, "wait")
      BY <1>1, <1>2, <1>3
    <2>. HIDE DEF t, x
    <2>2. j # 1
      <3>1. 1 \in Places(t, "wait") <=> Head(t).op = "wait"
        BY <2>1, TailPlaces
      <3>. QED  BY <1>1, <2>1, <3>1
    <2>3. j \in Nat \ {0}
      <3>1. Len(t) \in Nat /\ Places(t, "wait") \subseteq 1 .. Len(t)
        BY <2>1, PlacesFinite, LenProperties
      <3>. QED  BY <2>1, <3>1
    <2>4. j - 1 \in Nat \ {0} /\ (j - 1) + 1 = j
      BY <2>2, <2>3
    <2>5. j - 1 \in Places(Tail(todo), "wait")
      <3>1. \A i : i \in Places(Tail(t), "wait") <=> i \in Nat \ {0} /\ i + 1 \in Places(t, "wait")
        BY <2>1, TailPlaces
      <3>. QED  BY <2>1, <2>4, <3>1
    <2>. QED  BY <1>2, <2>4, <2>5, TailPlaces
  <1>7. TypeOK'
    BY <1>3, <1>4 DEF TypeOK
  <1>8. OrderInv' /\ Pairs(todo)' /\ ReaderInv' /\ DeviceInv'
    <2>1. OrderInv'
      BY ZenonT(40), <1>4, <1>5 DEF OrderInv
    <2>2. Pairs(todo)'
      BY <1>5 DEF Pairs
    <2>. QED  BY <1>4, <2>1, <2>2 DEF ReaderInv, DeviceInv
  <1>9. CountInv'
    BY <1>4, <1>5 DEF CountInv, Many
  <1>10. WaitInv'
    BY <1>4, <1>5, <1>6 DEF WaitInv
  <1>11. DestroyInv'
    BY DEF DestroyInv
  <1>. QED  BY <1>7, <1>8, <1>9, <1>10, <1>11

\* What finish knows when it finds the counters equal.
LEMMA Waited ==
  ASSUME CompletionInv, At("wait"), entries <= completed
  PROVE  /\ entries = completed /\ cur = NoItem /\ Places(todo, "push") = {}
         /\ Len(issued) <= 1 /\ (issued = <<>> \/ issued[Len(issued)].event)
         /\ Places(todo, "count") = {} => issued = <<>>
  <1>. USE DEF CompletionInv
  <1>1. /\ todo \in Seq(Steps) /\ todo # <<>> /\ entries \in Nat /\ completed \in Nat /\ taken \in Nat
        /\ batch \in Nat /\ Len(issued) \in Nat /\ issued \in Seq(Items)
        /\ \A op : Places(todo, op) \subseteq Nat \ {0}
    BY Basics DEF At
  <1>2. 1 \in Places(todo, "wait") /\ 1 \notin Places(todo, "count")
    BY <1>1, TailPlaces DEF At
  <1>3. /\ \A i \in Places(todo, "push") : i < 1
        /\ \A k, l \in Places(todo, "count") : k > 1 /\ l > 1 => k = l
        /\ \/ \E i \in Places(todo, "push") : TRUE
           \/ issued = <<>> \/ issued[Len(issued)].event
    BY <1>2 DEF WaitInv
  <1>4. Places(todo, "push") = {}
    BY <1>1, <1>3
  <1>5. Many("push") = 0
    BY <1>4, FS_EmptySet DEF Many
  <1>6. Many("count") \in {0, 1}
    <2>1. CASE Places(todo, "count") = {}
      BY <2>1, FS_EmptySet DEF Many
    <2>2. CASE Places(todo, "count") # {}
      <3>1. PICK k \in Places(todo, "count") : TRUE
        BY <2>2
      <3>2. \A l \in Places(todo, "count") : l > 1
        BY <1>1, <1>2
      <3>3. Places(todo, "count") = {k}
        BY <1>3, <3>1, <3>2
      <3>. QED  BY <3>3, FS_Singleton DEF Many
    <2>. QED  BY <2>1, <2>2
  <1>7. entries = completed /\ batch = 0 /\ taken = 0
    BY <1>1 DEF ReaderInv, TypeOK
  <1>8. cur = NoItem
    BY <1>7 DEF ReaderInv
  <1>9. Len(issued) = Many("count")
    BY <1>1, <1>5, <1>6, <1>7 DEF CountInv
  <1>10. Places(todo, "count") = {} => Many("count") = 0
    BY FS_EmptySet DEF Many
  <1>. QED  BY <1>1, <1>3, <1>4, <1>6, <1>7, <1>8, <1>9, <1>10, EmptySeq

\* A step that is done and touches neither descriptors nor counters.
LEMMA TailStep ==
  ASSUME CompletionInv, todo # <<>>, Done, Head(todo).op \notin {"push", "count"},
         Head(todo).op = "wait" => entries <= completed,
         TypeOK', ReaderInv', DeviceInv',
         UNCHANGED <<nextId, closed, exit, entries, completed, issued, taken, cur, last>>
  PROVE  CompletionInv'
  <1>. USE DEF CompletionInv
  <1>1. OrderInv' /\ Pairs(todo)' /\ WaitInv'
    BY OrderTail, PairsTail, WaitTail
  <1>2. CountInv'
    <2>1. Many("push")' = Many("push") /\ Many("count")' = Many("count")
      BY Shifted
    <2>. QED  BY <2>1 DEF CountInv
  <1>3. DestroyInv'
    <2>1. Head(todo).op = "wait" /\ Places(todo, "push") = {} /\ Places(todo, "count") = {} =>
            issued = <<>> /\ entries = completed
      BY Waited DEF At
    <2>. QED  BY <2>1, DestroyTail
  <1>. QED  BY <1>1, <1>2, <1>3

\* A step of the host that is about to do without the device's counters.
LEMMA PlainHostSteps ==
  ASSUME CompletionInv,
         Process \/ NotifyReader \/ Synchronize \/ Join
  PROVE  CompletionInv'
  <1>. USE DEF CompletionInv
  <1>1. CASE Process
    <2>1. /\ todo # <<>> /\ Head(todo).op = "process" /\ Done
          /\ devQ' = Append(devQ, Item) /\ dleft' = (IF devQ = <<>> THEN Item.pages ELSE dleft)
          /\ UNCHANGED <<asleep, nextId, closed, testMode, hung, exit, entries, completed, issued,
                         rpc, batch, taken, cur, left, last, rd, rdT, wr, wrT, ring, chunk>>
      BY <1>1 DEF Process, At, reader
    <2>2. todo' \in Seq(Steps) /\ Item \in Items
      BY <2>1, Shifted
    <2>3. devQ' \in Seq(Items) /\ devQ' # <<>>
      <3>1. devQ \in Seq(Items)
        BY DEF TypeOK
      <3>. QED  BY <2>1, <2>2, <3>1, AppendProperties
    <2>4. Item.pages \in Nat
      <3>1. \A x \in Items : x.pages \in Sizes \cup {0, 1}
        BY DEF Items
      <3>2. Item.pages \in Sizes \cup {0, 1}
        BY <2>2, <3>1, Zenon
      <3>3. Sizes \subseteq Nat
        BY CompletionAssumption
      <3>4. \A y \in Sizes \cup {0, 1} : y \in Nat
        BY <3>3
      <3>. QED  BY <3>2, <3>4, Zenon
    <2>5. TypeOK'
      BY <2>1, <2>2, <2>3, <2>4 DEF TypeOK
    <2>6. ReaderInv'
      BY <2>1 DEF ReaderInv
    <2>7. DeviceInv'
      BY <2>1, <2>3 DEF DeviceInv
    <2>. QED  BY <2>1, <2>5, <2>6, <2>7, TailStep
  <1>2. CASE NotifyReader
    <2>1. /\ todo # <<>> /\ Head(todo).op \in {"notify", "notifyExit"} /\ Done
          /\ rpc' = Woken
          /\ UNCHANGED <<asleep, nextId, closed, testMode, hung, exit, entries, completed, issued,
                         batch, taken, cur, left, last, rd, rdT, wr, wrT, ring, devQ, dleft, chunk>>
      BY <1>2 DEF NotifyReader, At, device
    <2>2. todo' \in Seq(Steps)
      BY <2>1, Shifted
    <2>3. TypeOK'
      BY <2>1, <2>2 DEF TypeOK, Woken
    <2>4. ReaderInv' /\ DeviceInv'
      BY <2>1 DEF ReaderInv, DeviceInv, Woken
    <2>. QED  BY <2>1, <2>3, <2>4, TailStep
  <1>3. CASE Synchronize \/ Join
    <2>1. /\ todo # <<>> /\ Head(todo).op \in {"sync", "join"} /\ Done
          /\ UNCHANGED <<asleep, nextId, closed, testMode, hung, exit, entries, completed, issued,
                         rpc, batch, taken, cur, left, last, rd, rdT, wr, wrT, ring, devQ, dleft, chunk>>
      BY <1>3 DEF Synchronize, Join, At, device, reader
    <2>2. todo' \in Seq(Steps)
      BY <2>1, Shifted
    <2>3. TypeOK'
      BY <2>1, <2>2 DEF TypeOK
    <2>4. ReaderInv' /\ DeviceInv'
      BY <2>1 DEF ReaderInv, DeviceInv
    <2>. QED  BY <2>1, <2>3, <2>4, TailStep
  <1>. QED  BY <1>1, <1>2, <1>3

\* finish waits.
LEMMA WaitSteps ==
  ASSUME CompletionInv, WaitForReads \/ PollForReads
  PROVE  CompletionInv'
  <1>. USE DEF CompletionInv
  <1>1. entries \in Nat /\ completed \in Nat
    BY Basics
  <1>2. /\ todo # <<>> /\ Head(todo).op = "wait"
        /\ UNCHANGED <<nextId, closed, testMode, hung, entries, completed, issued,
                       rpc, batch, taken, cur, left, last, rd, rdT, wr, wrT, ring, devQ, dleft, chunk>>
    BY DEF WaitForReads, PollForReads, At, device, reader
  <1>3. CASE Done /\ entries <= completed /\ UNCHANGED <<exit, asleep>>
    <2>1. todo' \in Seq(Steps)
      BY <1>2, <1>3, Shifted
    <2>2. TypeOK'
      BY <1>2, <1>3, <2>1 DEF TypeOK
    <2>3. ReaderInv' /\ DeviceInv'
      BY <1>2 DEF ReaderInv, DeviceInv
    <2>. QED  BY <1>2, <1>3, <2>2, <2>3, TailStep
  <1>4. CASE asleep' = TRUE /\ UNCHANGED <<todo, exit>>
    <2>1. TypeOK'
      BY <1>2, <1>4 DEF TypeOK
    <2>2. OrderInv' /\ CountInv' /\ Pairs(todo)' /\ WaitInv' /\ DestroyInv'
      BY <1>2, <1>4 DEF OrderInv, CountInv, Many, Pairs, WaitInv, DestroyInv
    <2>3. ReaderInv' /\ DeviceInv'
      BY <1>2 DEF ReaderInv, DeviceInv
    <2>. QED  BY <2>1, <2>2, <2>3
  <1>5. CASE /\ exit' = TRUE /\ todo' = <<Plain("notifyExit")>> \o Tail(todo)
             /\ UNCHANGED asleep
    BY <1>2, <1>5, ExitHead DEF reader, device
  <1>6. CASE WaitForReads
    <2>1. \/ entries = completed /\ Done /\ UNCHANGED <<exit, asleep>>
          \/ asleep' = TRUE /\ UNCHANGED <<todo, exit>>
      BY <1>6 DEF WaitForReads
    <2>2. entries = completed => entries <= completed
      BY <1>1
    <2>. QED  BY <1>3, <1>4, <2>1, <2>2, Zenon
  <1>7. CASE PollForReads
    <2>1. \/ entries <= completed /\ Done /\ UNCHANGED <<exit, asleep>>
          \/ /\ exit' = TRUE /\ todo' = <<Plain("notifyExit")>> \o Tail(todo)
             /\ UNCHANGED asleep
      BY <1>7, Zenon DEF PollForReads
    <2>. QED  BY <1>3, <1>5, <2>1
  <1>. QED  BY <1>6, <1>7

\* The destructor tells the reader to leave, if finish has not done so.
LEMMA DestroyStep ==
  ASSUME CompletionInv, Destroy
  PROVE  CompletionInv'
  <1>. USE DEF CompletionInv
  <1>1. /\ todo # <<>> /\ Head(todo).op = "destroy" /\ exit' = TRUE /\ todo \in Seq(Steps)
        /\ exit \in BOOLEAN
        /\ UNCHANGED <<asleep, nextId, closed, testMode, hung, entries, completed, issued,
                       rpc, batch, taken, cur, left, last, rd, rdT, wr, wrT, ring, devQ, dleft, chunk>>
    BY DEF Destroy, At, device, reader, TypeOK
  <1>2. CASE exit
    <2>1. Done /\ UNCHANGED exit
      <3>1. todo' = <<>> \o Tail(todo)
        BY <1>2, Zenon DEF Destroy
      <3>2. Tail(todo) \in Seq(Steps)
        BY <1>1, TailFacts
      <3>3. exit' = exit
        BY <1>1, <1>2, Zenon
      <3>. QED  BY <3>1, <3>2, <3>3, ConcatEmptySeq DEF Done
    <2>2. todo' \in Seq(Steps)
      BY <1>1, <2>1, Shifted
    <2>3. TypeOK'
      BY <1>1, <2>2 DEF TypeOK
    <2>4. ReaderInv' /\ DeviceInv'
      BY <1>1 DEF ReaderInv, DeviceInv
    <2>. QED  BY <1>1, <2>1, <2>3, <2>4, TailStep
  <1>3. CASE ~exit
    <2>1. todo' = <<Plain("notifyExit")>> \o Tail(todo)
      BY <1>3, Zenon DEF Destroy
    <2>. QED  BY <1>1, <2>1, ExitHead DEF reader, device
  <1>. QED  BY <1>2, <1>3

\* A descriptor is pushed.
LEMMA PushStep ==
  ASSUME CompletionInv, PushDescriptor
  PROVE  CompletionInv'
  <1>. USE DEF CompletionInv
  <1>1. /\ todo # <<>> /\ Head(todo).op = "push" /\ Done /\ issued' = Append(issued, Item)
        /\ UNCHANGED <<asleep, nextId, closed, testMode, hung, exit, entries, completed,
                       rpc, batch, taken, cur, left, last, rd, rdT, wr, wrT, ring, devQ, dleft, chunk>>
    BY DEF PushDescriptor, At, reader, device
  <1>2. /\ todo' \in Seq(Steps) /\ Item \in Items /\ Item = todo[1].item
        /\ 1 \in Places(todo, "push")
        /\ \A i : i \in Places(todo', "push") <=> i \in Nat \ {0} /\ i + 1 \in Places(todo, "push")
        /\ \A i \in Places(todo', "push") : todo'[i] = todo[i + 1]
        /\ Many("push") = Many("push")' + 1 /\ Many("count") = Many("count")'
        /\ Many("push")' \in Nat
    <2>1. /\ \A op : Many(op) = Many(op)' + (IF Head(todo).op = op THEN 1 ELSE 0)
          /\ \A op : Many(op) \in Nat /\ Many(op)' \in Nat
      BY <1>1, Shifted
    <2>2. Many("push") = Many("push")' + 1
      BY <1>1, <2>1
    <2>3. Many("count") = Many("count")'
      BY <1>1, <2>1
    <2>. QED  BY <1>1, <2>1, <2>2, <2>3, Shifted DEF Item
  <1>3. /\ issued \in Seq(Items) /\ Len(issued) \in Nat /\ DOMAIN issued = 1 .. Len(issued)
        /\ nextId \in Nat /\ completed \in Nat /\ taken \in Nat /\ entries \in Nat
    BY Basics
  <1>4. /\ issued' \in Seq(Items) /\ Len(issued') = Len(issued) + 1
        /\ \A k \in 1 .. Len(issued) : issued'[k] = issued[k]
        /\ issued'[Len(issued) + 1] = Item
    BY <1>1, <1>2, <1>3, AppendFacts
  <1>5. DOMAIN issued' = 1 .. Len(issued) + 1
    BY <1>4, LenProperties
  <1>6. TypeOK'
    BY <1>1, <1>2, <1>4 DEF TypeOK
  <1>7. OrderInv'
    <2>1. /\ Item.id > last /\ Item.id < nextId
          /\ \A i \in Places(todo', "push") : Item.id < todo'[i].item.id
          /\ \A k \in DOMAIN issued : issued[k].id < Item.id
          /\ cur # NoItem => cur.id < Item.id
      BY <1>2 DEF OrderInv
    <2>2. \A i \in Places(todo', "push") :
            /\ todo'[i].item.id > last /\ todo'[i].item.id < nextId
            /\ \A j \in Places(todo', "push") : i < j => todo'[i].item.id < todo'[j].item.id
            /\ \A k \in DOMAIN issued : issued[k].id < todo'[i].item.id
            /\ cur # NoItem => cur.id < todo'[i].item.id
      <3>. SUFFICES ASSUME NEW i \in Places(todo', "push")
                    PROVE  /\ todo'[i].item.id > last /\ todo'[i].item.id < nextId
                           /\ \A j \in Places(todo', "push") :
                                i < j => todo'[i].item.id < todo'[j].item.id
                           /\ \A k \in DOMAIN issued : issued[k].id < todo'[i].item.id
                           /\ cur # NoItem => cur.id < todo'[i].item.id
        OBVIOUS
      <3>1. i \in Nat /\ i + 1 \in Places(todo, "push") /\ todo'[i] = todo[i + 1]
        BY <1>2
      <3>2. \A j \in Places(todo', "push") :
              j \in Nat /\ j + 1 \in Places(todo, "push") /\ todo'[j] = todo[j + 1]
        BY <1>2
      <3>3. \A j \in Places(todo', "push") : i < j => i + 1 < j + 1
        BY <3>1, <3>2
      <3>. QED  BY <3>1, <3>2, <3>3 DEF OrderInv
    <2>3. \A k \in DOMAIN issued' : \/ k \in DOMAIN issued /\ issued'[k] = issued[k]
                                    \/ k = Len(issued) + 1 /\ issued'[k] = Item
      <3>. SUFFICES ASSUME NEW k \in 1 .. Len(issued) + 1
                    PROVE  \/ k \in DOMAIN issued /\ issued'[k] = issued[k]
                           \/ k = Len(issued) + 1 /\ issued'[k] = Item
        BY <1>5
      <3>1. k \in 1 .. Len(issued) \/ k = Len(issued) + 1
        BY <1>3
      <3>. QED  BY <1>3, <1>4, <3>1, Zenon
    <2>4. \A k, l \in DOMAIN issued' : k < l => k \in DOMAIN issued
      BY <1>3, <1>5
    <2>5. /\ \A k \in DOMAIN issued :
               /\ issued[k].id > last /\ issued[k].id < nextId
               /\ \A l \in DOMAIN issued : k < l => issued[k].id < issued[l].id
               /\ cur # NoItem => cur.id < issued[k].id
          /\ cur # NoItem => last < cur.id /\ cur.id < nextId
          /\ last < nextId
      BY DEF OrderInv
    <2>6. \A k \in DOMAIN issued' :
               /\ issued'[k].id > last /\ issued'[k].id < nextId
               /\ \A l \in DOMAIN issued' : k < l => issued'[k].id < issued'[l].id
               /\ cur # NoItem => cur.id < issued'[k].id
      <3>. SUFFICES ASSUME NEW k \in DOMAIN issued'
                    PROVE  /\ issued'[k].id > last /\ issued'[k].id < nextId
                           /\ \A l \in DOMAIN issued' : k < l => issued'[k].id < issued'[l].id
                           /\ cur # NoItem => cur.id < issued'[k].id
        OBVIOUS
      <3>1. issued'[k].id > last /\ issued'[k].id < nextId /\ (cur # NoItem => cur.id < issued'[k].id)
        BY <2>1, <2>3, <2>5
      <3>2. ASSUME NEW l \in DOMAIN issued', k < l
            PROVE  issued'[k].id < issued'[l].id
        <4>1. k \in DOMAIN issued /\ issued'[k] = issued[k]
          BY <1>4, <1>3, <2>4, <3>2
        <4>. QED  BY <2>1, <2>3, <2>5, <3>2, <4>1
      <3>. QED  BY <3>1, <3>2
    <2>7. \A i \in Places(todo', "push") : \A k \in DOMAIN issued' : issued'[k].id < todo'[i].item.id
      BY <2>1, <2>2, <2>3
    <2>. QED  BY <1>1, <2>2, <2>5, <2>6, <2>7 DEF OrderInv
  <1>8. CountInv'
    <2>. DEFINE p == Many("push")'
                n == Len(issued')
    <2>1. Many("push") = p + 1 /\ n = Len(issued) + 1 /\ p \in Nat
      BY <1>2, <1>4
    <2>. HIDE DEF p, n
    <2>2. n + completed + taken + p = nextId - 1
      BY <1>3, <2>1 DEF CountInv
    <2>. QED  BY <1>1, <1>2, <2>2 DEF CountInv, p, n
  <1>9. Pairs(todo)' /\ WaitInv' /\ DestroyInv'
    BY <1>1, PairsTail, WaitTail, DestroyTail
  <1>10. ReaderInv' /\ DeviceInv'
    BY <1>1 DEF ReaderInv, DeviceInv
  <1>. QED  BY <1>6, <1>7, <1>8, <1>9, <1>10

\* A descriptor is counted.
LEMMA CountStep ==
  ASSUME CompletionInv, Count
  PROVE  CompletionInv'
  <1>. USE DEF CompletionInv
  <1>1. /\ todo # <<>> /\ Head(todo).op = "count" /\ Done /\ entries' = entries + 1
        /\ UNCHANGED <<asleep, nextId, closed, testMode, hung, exit, completed, issued,
                       rpc, batch, taken, cur, left, last, rd, rdT, wr, wrT, ring, devQ, dleft, chunk>>
    BY DEF Count, At, reader, device
  <1>2. /\ todo' \in Seq(Steps)
        /\ Many("count") = Many("count")' + 1 /\ Many("push") = Many("push")'
        /\ Many("count")' \in Nat
    <2>1. /\ \A op : Many(op) = Many(op)' + (IF Head(todo).op = op THEN 1 ELSE 0)
          /\ \A op : Many(op) \in Nat /\ Many(op)' \in Nat
      BY <1>1, Shifted
    <2>2. Many("count") = Many("count")' + 1
      BY <1>1, <2>1
    <2>3. Many("push") = Many("push")'
      BY <1>1, <2>1
    <2>. QED  BY <1>1, <2>1, <2>2, <2>3, Shifted
  <1>3. /\ MaxId \in Nat /\ nextId \in 1 .. MaxId + 1 /\ completed \in Nat /\ taken \in Nat
        /\ entries \in Nat /\ batch \in Nat /\ completed <= entries
    BY Basics DEF TypeOK
  <1>4. /\ entries + 1 + Many("count")' = nextId - 1 /\ entries + 1 \in 0 .. MaxId
        /\ completed \in 0 .. entries + 1
    <2>. DEFINE c == Many("count")'
    <2>1. Many("count") = c + 1 /\ c \in Nat
      BY <1>2
    <2>. HIDE DEF c
    <2>2. /\ entries + 1 + c = nextId - 1 /\ entries + 1 \in 0 .. MaxId
          /\ completed \in 0 .. entries + 1
      BY <1>3, <2>1 DEF CountInv
    <2>. QED  BY <2>2 DEF c
  <1>5. TypeOK'
    <2>1. entries' \in 0 .. MaxId /\ completed' \in 0 .. entries'
      BY <1>1, <1>4
    <2>. QED  BY <1>1, <1>2, <2>1 DEF TypeOK
  <1>6. OrderInv' /\ Pairs(todo)' /\ WaitInv' /\ DestroyInv'
    BY <1>1, OrderTail, PairsTail, WaitTail, DestroyTail
  <1>7. CountInv'
    BY <1>1, <1>2, <1>4 DEF CountInv
  <1>8. ReaderInv' /\ DeviceInv'
    <2>1. completed + batch <= entries + 1
      BY <1>3 DEF ReaderInv
    <2>. QED  BY <1>1, <2>1 DEF ReaderInv, DeviceInv
  <1>. QED  BY <1>5, <1>6, <1>7, <1>8

-----------------------------------------------------------------------------
(***************************************************************************)
(* The steps of the reader and of the dispatcher.                          *)
(***************************************************************************)
\* A step that leaves descriptors and counters alone.
LEMMA Frame ==
  ASSUME CompletionInv, TypeOK', ReaderInv', DeviceInv',
         UNCHANGED <<todo, nextId, closed, exit, entries, completed, issued, taken, cur, last>>
  PROVE  CompletionInv'
  BY DEF CompletionInv, OrderInv, CountInv, Many, Pairs, WaitInv, DestroyInv

\* A step that has dealt with a descriptor, and may have recorded its event.
LEMMA DealtWith ==
  ASSUME CompletionInv, TypeOK', ReaderInv', DeviceInv', cur # NoItem, cur' = NoItem,
         last' \in {last, cur.id},
         UNCHANGED <<todo, nextId, closed, exit, entries, completed, issued, taken>>
  PROVE  CompletionInv'
  <1>. USE DEF CompletionInv
  <1>1. OrderInv'
    <2>1. /\ \A i \in Places(todo, "push") :
               /\ todo[i].item.id > last' /\ todo[i].item.id < nextId
               /\ \A j \in Places(todo, "push") : i < j => todo[i].item.id < todo[j].item.id
               /\ \A k \in DOMAIN issued : issued[k].id < todo[i].item.id
          /\ \A k \in DOMAIN issued :
               /\ issued[k].id > last' /\ issued[k].id < nextId
               /\ \A l \in DOMAIN issued : k < l => issued[k].id < issued[l].id
          /\ last' < nextId
      <3>. DEFINE l1 == last'
      <3>1. l1 \in {last, cur.id}
        OBVIOUS
      <3>2. /\ \A i \in Places(todo, "push") :
                 /\ todo[i].item.id > last /\ todo[i].item.id > cur.id
                 /\ todo[i].item.id < nextId
                 /\ \A j \in Places(todo, "push") : i < j => todo[i].item.id < todo[j].item.id
                 /\ \A k \in DOMAIN issued : issued[k].id < todo[i].item.id
            /\ \A k \in DOMAIN issued :
                 /\ issued[k].id > last /\ issued[k].id > cur.id /\ issued[k].id < nextId
                 /\ \A l \in DOMAIN issued : k < l => issued[k].id < issued[l].id
            /\ last < nextId /\ cur.id < nextId
        <4>1. /\ \A i \in Places(todo, "push") : todo[i].item.id \in Nat
              /\ \A k \in DOMAIN issued : issued[k].id \in Nat
              /\ cur.id \in Nat
          BY Basics
        <4>. QED  BY <4>1 DEF OrderInv
      <3>. HIDE DEF l1
      <3>. QED  BY <3>1, <3>2 DEF l1
    <2>. QED  BY <2>1 DEF OrderInv
  <1>2. CountInv' /\ Pairs(todo)' /\ WaitInv' /\ DestroyInv'
    BY DEF CountInv, Many, Pairs, WaitInv, DestroyInv
  <1>. QED  BY <1>1, <1>2

\* The reader looks for work.
LEMMA LookSteps ==
  ASSUME CompletionInv, ReaderWait \/ ReaderCheck \/ WaitFront \/ NotifyHost
  PROVE  CompletionInv'
  <1>. USE DEF CompletionInv
  <1>1. /\ UNCHANGED <<todo, nextId, closed, testMode, hung, exit, entries, completed, issued,
                       taken, cur, left, last, rd, rdT, wr, wrT, ring, devQ, dleft, chunk>>
    BY DEF ReaderWait, ReaderCheck, WaitFront, NotifyHost, host, device
  <1>2. /\ entries \in 0 .. MaxId /\ completed \in 0 .. entries /\ MaxId \in Nat /\ batch \in 0 .. MaxId
        /\ taken \in 0 .. batch
    BY CompletionAssumption DEF TypeOK
  <1>3. DeviceInv'
    BY <1>1 DEF DeviceInv
  <1>4. TypeOK' /\ ReaderInv'
    <2>1. CASE ReaderWait
      <3>1. rpc = "wait" /\ rpc' \in {"check", "asleep"} /\ UNCHANGED <<asleep, batch>>
        BY <2>1 DEF ReaderWait, host
      <3>2. TypeOK'
        BY <1>1, <3>1 DEF TypeOK
      <3>. QED  BY <1>1, <3>1, <3>2 DEF ReaderInv
    <2>2. CASE ReaderCheck
      <3>1. rpc = "check" /\ UNCHANGED asleep /\ batch = 0 /\ taken = 0 /\ cur = NoItem
        BY <1>2, <2>2 DEF ReaderCheck, ReaderInv, host
      <3>2. CASE entries > completed
        <4>1. batch' = entries - completed /\ rpc' = "pop"
          BY <2>2, <3>2 DEF ReaderCheck
        <4>2. /\ entries - completed \in 0 .. MaxId /\ 0 < entries - completed
              /\ completed + (entries - completed) <= entries
              /\ taken \in 0 .. (entries - completed)
          BY <1>2, <3>1, <3>2
        <4>3. TypeOK'
          BY <1>1, <3>1, <4>1, <4>2 DEF TypeOK
        <4>. QED  BY <1>1, <3>1, <4>1, <4>2, <4>3 DEF ReaderInv
      <3>3. CASE ~(entries > completed)
        <4>1. UNCHANGED batch /\ rpc' \in {"out", "wait"}
          BY <2>2, <3>3 DEF ReaderCheck
        <4>2. TypeOK'
          BY <1>1, <3>1, <4>1 DEF TypeOK
        <4>. QED  BY <1>1, <3>1, <4>1, <4>2 DEF ReaderInv
      <3>. QED  BY <3>2, <3>3
    <2>3. CASE WaitFront
      <3>1. rpc = "front" /\ rpc' \in {"out", "event", "copy"} /\ UNCHANGED <<asleep, batch>>
        BY <2>3 DEF WaitFront, host
      <3>2. TypeOK'
        BY <1>1, <3>1 DEF TypeOK
      <3>. QED  BY <1>1, <3>1, <3>2 DEF ReaderInv
    <2>4. CASE NotifyHost
      <3>1. rpc = "notify" /\ rpc' = "wait" /\ asleep' = FALSE /\ UNCHANGED batch
        BY <2>4 DEF NotifyHost
      <3>2. TypeOK'
        BY <1>1, <3>1 DEF TypeOK
      <3>. QED  BY <1>1, <3>1, <3>2 DEF ReaderInv
    <2>. QED  BY <2>1, <2>2, <2>3, <2>4
  <1>. QED  BY <1>1, <1>3, <1>4, Frame

\* The reader takes a descriptor.
LEMMA PopStep ==
  ASSUME CompletionInv, PopDescriptor
  PROVE  CompletionInv'
  <1>. USE DEF CompletionInv
  <1>1. /\ rpc = "pop" /\ issued # <<>> /\ cur' = Head(issued) /\ issued' = Tail(issued)
        /\ left' = Head(issued).pages /\ taken' = taken + 1 /\ rpc' = "front"
        /\ UNCHANGED <<todo, asleep, nextId, closed, testMode, hung, exit, entries, completed,
                       batch, last, rd, rdT, wr, wrT, ring, devQ, dleft, chunk>>
    BY DEF PopDescriptor, host, device
  <1>2. /\ issued \in Seq(Items) /\ Len(issued) \in Nat /\ DOMAIN issued = 1 .. Len(issued)
        /\ nextId \in Nat /\ completed \in Nat /\ taken \in Nat /\ entries \in Nat /\ batch \in Nat
        /\ \A k \in DOMAIN issued : issued[k].id \in Nat
    BY Basics
  <1>3. /\ Head(issued) = issued[1] /\ Head(issued) \in Items /\ Len(issued) \in Nat \ {0}
        /\ issued' \in Seq(Items) /\ Len(issued') = Len(issued) - 1
        /\ \A k \in 1 .. Len(issued) - 1 : issued'[k] = issued[k + 1]
    BY <1>1, <1>2, TailFacts
  <1>4. DOMAIN issued' = 1 .. Len(issued) - 1
    BY <1>3, LenProperties
  <1>5. taken < batch /\ cur = NoItem
    BY <1>1 DEF ReaderInv
  <1>6. cur' # NoItem
    <2>1. 1 \in DOMAIN issued
      BY <1>2, <1>3
    <2>2. cur'.id > last /\ last \in Nat
      BY <1>1, <1>3, <2>1, Basics DEF OrderInv
    <2>3. NoItem.id = 0
      BY DEF NoItem
    <2>. QED  BY <2>2, <2>3
  <1>7. TypeOK'
    <2>1. Head(issued).pages \in Nat
      <3>1. Head(issued).pages \in Sizes \cup {0, 1}
        BY <1>3 DEF Items
      <3>2. Sizes \subseteq Nat
        BY CompletionAssumption
      <3>3. \A y \in Sizes \cup {0, 1} : y \in Nat
        BY <3>2
      <3>. QED  BY <3>1, <3>3, Zenon
    <2>2. taken + 1 \in 0 .. batch
      BY <1>2, <1>5
    <2>. QED  BY <1>1, <1>3, <2>1, <2>2 DEF TypeOK
  <1>8. OrderInv'
    <2>1. \A k \in DOMAIN issued' : /\ k \in Nat /\ k + 1 \in DOMAIN issued
                                    /\ issued'[k] = issued[k + 1] /\ 1 < k + 1
      BY <1>2, <1>3, <1>4
    <2>2. /\ \A k \in DOMAIN issued :
               /\ issued[k].id > last /\ issued[k].id < nextId
               /\ \A l \in DOMAIN issued : k < l => issued[k].id < issued[l].id
          /\ \A i \in Places(todo, "push") : \A k \in DOMAIN issued : issued[k].id < todo[i].item.id
      BY DEF OrderInv
    <2>3. 1 \in DOMAIN issued /\ cur' = issued[1]
      BY <1>1, <1>2, <1>3
    <2>4. \A k, l \in DOMAIN issued' : k < l => k + 1 < l + 1
      BY <2>1
    <2>5. \A k \in DOMAIN issued' :
            /\ issued'[k].id > last /\ issued'[k].id < nextId
            /\ \A l \in DOMAIN issued' : k < l => issued'[k].id < issued'[l].id
            /\ cur'.id < issued'[k].id
      BY <2>1, <2>2, <2>3, <2>4
    <2>6. /\ last < cur'.id /\ cur'.id < nextId
          /\ \A i \in Places(todo, "push") : cur'.id < todo[i].item.id
      BY <2>2, <2>3
    <2>7. \A i \in Places(todo, "push") : \A k \in DOMAIN issued' : issued'[k].id < todo[i].item.id
      BY <2>1, <2>2
    <2>. QED  BY <1>1, <2>5, <2>6, <2>7 DEF OrderInv
  <1>9. CountInv'
    <2>1. Many("push") \in Nat
      BY PlacesFinite DEF Many, TypeOK
    <2>2. (Len(issued) - 1) + completed + (taken + 1) + Many("push") = nextId - 1
      BY <1>2, <2>1 DEF CountInv
    <2>. QED  BY <1>1, <1>3, <2>2 DEF CountInv, Many
  <1>10. Pairs(todo)' /\ DeviceInv'
    BY <1>1 DEF Pairs, DeviceInv
  <1>11. ReaderInv'
    <2>1. taken + 1 > 0
      BY <1>2
    <2>. QED  BY <1>1, <1>6, <2>1 DEF ReaderInv
  <1>12. WaitInv'
    <2>1. issued[Len(issued)].event => issued' = <<>> \/ issued'[Len(issued')].event
      <3>1. CASE Len(issued) = 1
        BY <1>3, <3>1, EmptySeq
      <3>2. CASE Len(issued) # 1
        <4>1. Len(issued) - 1 \in 1 .. Len(issued) - 1 /\ (Len(issued) - 1) + 1 = Len(issued)
          BY <1>3, <3>2
        <4>. QED  BY <1>3, <4>1
      <3>. QED  BY <3>1, <3>2
    <2>. QED  BY <1>1, <2>1 DEF WaitInv
  <1>13. DestroyInv'
    BY <1>1 DEF DestroyInv
  <1>. QED  BY <1>7, <1>8, <1>9, <1>10, <1>11, <1>12, <1>13

\* The read pointer stays in the ring.
LEMMA PopFrontType ==
  ASSUME TypeOK, NEW n \in Nat, PopFront(n)
  PROVE  rd' \in 0 .. Size - 1 /\ rdT' \in {0, 1}
  <1>1. Size \in Nat \ {0} /\ rd \in 0 .. Size - 1 /\ rdT \in {0, 1}
    BY CompletionAssumption DEF TypeOK
  <1>2. CASE rd + n >= Size
    BY <1>1, <1>2 DEF PopFront
  <1>3. CASE ~(rd + n >= Size)
    <2>1. rd + n \in 0 .. Size - 1
      BY <1>1, <1>3
    <2>. QED  BY <1>1, <1>3, <2>1 DEF PopFront
  <1>. QED  BY <1>2, <1>3

\* The reader copies pages or reads an event.
LEMMA ReadSteps ==
  ASSUME CompletionInv, CopyIntoUserSpace \/ ReadEvent
  PROVE  CompletionInv'
  <1>. USE DEF CompletionInv
  <1>1. /\ UNCHANGED <<todo, asleep, nextId, closed, testMode, hung, exit, entries, completed, issued,
                       batch, taken, wr, wrT, ring, devQ, dleft, chunk>>
        /\ rpc \in {"copy", "event"}
    BY DEF CopyIntoUserSpace, ReadEvent, host, device
  <1>2. /\ cur # NoItem /\ cur \in Items /\ NoItem \in Items /\ cur.id \in 0 .. MaxId
        /\ taken \in 0 .. batch /\ batch \in Nat /\ left \in Nat /\ exit \in BOOLEAN
    <2>1. cur # NoItem
      BY <1>1 DEF ReaderInv
    <2>2. NoItem \in Items
      BY CompletionAssumption DEF NoItem, Items
    <2>3. cur \in Items /\ taken \in 0 .. batch /\ batch \in Nat /\ left \in Nat /\ exit \in BOOLEAN
      BY CompletionAssumption DEF TypeOK
    <2>. QED  BY <2>1, <2>2, <2>3 DEF Items
  <1>3. DeviceInv'
    BY <1>1 DEF DeviceInv
  <1>4. ASSUME NextOfBatch, left' \in Nat, rd' \in 0 .. Size - 1, rdT' \in {0, 1},
               last' \in {last, cur.id}
        PROVE  CompletionInv'
    <2>1. cur' = NoItem /\ rpc' \in {"bump", "pop"} /\ (rpc' = "bump" => taken = batch)
          /\ (rpc' = "pop" => taken # batch)
      BY <1>4 DEF NextOfBatch
    <2>2. last' \in 0 .. MaxId
      <3>1. last \in 0 .. MaxId
        BY DEF TypeOK
      <3>. QED  BY <1>2, <1>4, <3>1, Zenon
    <2>3. TypeOK'
      BY <1>1, <1>2, <1>4, <2>1, <2>2 DEF TypeOK
    <2>4. taken # batch => taken < batch
      BY <1>2
    <2>5. ReaderInv'
      BY <1>1, <2>1, <2>4 DEF ReaderInv
    <2>. QED  BY <1>1, <1>2, <1>3, <1>4, <2>1, <2>3, <2>5, DealtWith
  <1>5. CASE ReadEvent
    <2>1. PopFront(1) /\ last' = cur.id /\ NextOfBatch /\ left' = 0
      BY <1>5 DEF ReadEvent, LastCompleted
    <2>2. rd' \in 0 .. Size - 1 /\ rdT' \in {0, 1}
      BY <2>1, PopFrontType
    <2>. QED  BY <1>4, <2>1, <2>2
  <1>6. CASE CopyIntoUserSpace
    <2>1. rpc = "copy" /\ UNCHANGED last
      BY <1>6 DEF CopyIntoUserSpace
    <2>2. CASE exit
      <3>1. NextOfBatch /\ UNCHANGED <<left, rd, rdT>>
        BY <1>6, <2>2, Zenon DEF CopyIntoUserSpace
      <3>2. left' \in Nat /\ rd' \in 0 .. Size - 1 /\ rdT' \in {0, 1}
        BY <3>1 DEF TypeOK
      <3>. QED  BY <1>4, <2>1, <3>1, <3>2
    <2>3. CASE ~exit
      <3>. DEFINE n == IF left > Readable THEN Readable ELSE left
      <3>1. /\ PopFront(n) /\ left' = left - n
            /\ IF left' = 0 THEN NextOfBatch ELSE UNCHANGED <<rpc, cur>>
        BY <1>6, <2>3, Zenon DEF CopyIntoUserSpace
      <3>2. n \in Nat /\ left - n \in Nat
        <4>1. Readable \in Nat
          BY CompletionAssumption DEF TypeOK, Readable
        <4>. QED  BY <1>2, <4>1
      <3>. HIDE DEF n
      <3>3. left' \in Nat /\ rd' \in 0 .. Size - 1 /\ rdT' \in {0, 1}
        BY <3>1, <3>2, PopFrontType
      <3>4. CASE NextOfBatch
        BY <1>4, <2>1, <3>3, <3>4
      <3>5. CASE UNCHANGED <<rpc, cur>>
        <4>1. TypeOK'
          BY <1>1, <2>1, <3>3, <3>5 DEF TypeOK
        <4>2. ReaderInv'
          BY <1>1, <3>5 DEF ReaderInv
        <4>. QED  BY <1>1, <1>3, <2>1, <3>5, <4>1, <4>2, Frame
      <3>. QED  BY <3>1, <3>4, <3>5
    <2>. QED  BY <2>2, <2>3
  <1>. QED  BY <1>5, <1>6

\* The reader completes its batch.
LEMMA BumpStep ==
  ASSUME CompletionInv, Bump
  PROVE  CompletionInv'
  <1>. USE DEF CompletionInv
  <1>1. /\ rpc = "bump" /\ completed' = completed + batch /\ batch' = 0 /\ taken' = 0
        /\ rpc' = "notify"
        /\ UNCHANGED <<todo, asleep, nextId, closed, testMode, hung, exit, entries, issued,
                       cur, left, last, rd, rdT, wr, wrT, ring, devQ, dleft, chunk>>
    BY DEF Bump, host, device
  <1>2. /\ MaxId \in Nat /\ nextId \in Nat /\ completed \in Nat /\ taken \in Nat /\ entries \in Nat
        /\ batch \in Nat /\ Len(issued) \in Nat /\ entries \in 0 .. MaxId
    BY Basics DEF TypeOK
  <1>3. taken = batch /\ cur = NoItem /\ completed + batch <= entries
    BY <1>1 DEF ReaderInv
  <1>4. TypeOK'
    <2>1. completed + batch \in 0 .. entries /\ 0 \in 0 .. MaxId /\ 0 \in 0 .. 0
      BY <1>2, <1>3
    <2>. QED  BY <1>1, <2>1 DEF TypeOK
  <1>5. OrderInv' /\ Pairs(todo)' /\ WaitInv' /\ DeviceInv'
    BY <1>1 DEF OrderInv, Pairs, WaitInv, DeviceInv
  <1>6. CountInv'
    <2>1. Many("push") \in Nat
      BY PlacesFinite DEF Many, TypeOK
    <2>2. Len(issued) + (completed + batch) + 0 + Many("push") = nextId - 1
      BY <1>2, <1>3, <2>1 DEF CountInv
    <2>. QED  BY <1>1, <2>2 DEF CountInv, Many
  <1>7. ReaderInv'
    <2>1. (completed + batch) + 0 <= entries
      BY <1>2, <1>3
    <2>. QED  BY <1>1, <1>3, <2>1 DEF ReaderInv
  <1>8. DestroyInv'
    <2>1. entries = completed => entries = completed + batch
      BY <1>2, <1>3
    <2>. QED  BY <1>1, <2>1 DEF DestroyInv
  <1>. QED  BY <1>4, <1>5, <1>6, <1>7, <1>8

\* The dispatcher, and a hang of the device.
LEMMA DeviceSteps ==
  ASSUME CompletionInv, TakeChunk \/ WriteHost \/ Hang
  PROVE  CompletionInv'
  <1>. USE DEF CompletionInv
  <1>1. UNCHANGED <<todo, asleep, nextId, closed, testMode, exit, entries, completed, issued,
                    rpc, batch, taken, cur, left, last, rd, rdT>>
    BY DEF TakeChunk, WriteHost, Hang, host, reader
  <1>2. ReaderInv'
    BY <1>1 DEF ReaderInv
  <1>3. /\ Size \in Nat \ {0} /\ MaxPush \in 1 .. Size /\ MaxId \in Nat /\ chunk \in 0 .. MaxPush
        /\ wr \in 0 .. Size - 1 /\ wrT \in {0, 1} /\ dleft \in Nat /\ devQ \in Seq(Items)
        /\ ring \in [0 .. Size - 1 -> [id : 0 .. MaxId, left : Nat]]
    BY CompletionAssumption DEF TypeOK
  <1>4. CASE Hang
    <2>1. TypeOK'
      BY <1>1, <1>4 DEF Hang, TypeOK, device
    <2>2. DeviceInv'
      BY <1>4 DEF Hang, DeviceInv, device
    <2>. QED  BY <1>1, <1>2, <2>1, <2>2, Frame
  <1>5. CASE TakeChunk
    <2>1. PICK n \in 1 .. MaxPush : n <= dleft /\ chunk' = n
      BY <1>5 DEF TakeChunk
    <2>2. UNCHANGED <<hung, wr, wrT, ring, devQ, dleft>> /\ devQ # <<>>
      BY <1>5 DEF TakeChunk, host
    <2>3. chunk' \in 0 .. MaxPush
      BY <1>3, <2>1
    <2>4. TypeOK'
      BY <1>1, <2>2, <2>3 DEF TypeOK
    <2>5. DeviceInv'
      BY <2>1, <2>2 DEF DeviceInv
    <2>. QED  BY <1>1, <1>2, <2>4, <2>5, Frame
  <1>6. CASE WriteHost
    <2>1. chunk > 0 /\ chunk' = 0 /\ UNCHANGED hung
      BY <1>6 DEF WriteHost, host
    <2>2. devQ # <<>> /\ chunk <= dleft
      BY <2>1 DEF DeviceInv
    <2>3. /\ Head(devQ) \in Items /\ Tail(devQ) \in Seq(Items)
          /\ \A x \in Items : x.id \in 0 .. MaxId /\ x.pages \in Nat
      <3>1. \A x \in Items : x.id \in 0 .. MaxId /\ x.pages \in Sizes \cup {0, 1}
        BY DEF Items
      <3>2. Sizes \subseteq Nat
        BY CompletionAssumption
      <3>3. \A y \in Sizes \cup {0, 1} : y \in Nat
        BY <3>2
      <3>4. \A x \in Items : x.id \in 0 .. MaxId /\ x.pages \in Nat
        BY <3>1, <3>3, Zenon
      <3>. QED  BY <1>3, <2>2, <3>4, TailFacts
    <2>4. ring' \in [0 .. Size - 1 -> [id : 0 .. MaxId, left : Nat]]
      <3>1. \A p \in 0 .. Size - 1 : (p + Size - wr) % Size \in Nat
        BY <1>3
      <3>2. \A i \in Nat : i < chunk => [id |-> Head(devQ).id, left |-> dleft - i]
                                          \in [id : 0 .. MaxId, left : Nat]
        BY <1>3, <2>2, <2>3
      <3>3. ring' = [p \in 0 .. Size - 1 |->
                LET i == (p + Size - wr) % Size
                IN  IF i < chunk THEN [id |-> Head(devQ).id, left |-> dleft - i] ELSE ring[p]]
        BY <1>6, Zenon DEF WriteHost
      <3>. QED  BY <1>3, <3>1, <3>2, <3>3
    <2>5. wr' \in 0 .. Size - 1 /\ wrT' \in {0, 1}
      <3>1. CASE wr + chunk >= Size
        <4>1. wr + chunk - Size \in 0 .. Size - 1 /\ 1 - wrT \in {0, 1}
          BY <1>3, <3>1
        <4>. QED  BY <1>6, <3>1, <4>1 DEF WriteHost
      <3>2. CASE ~(wr + chunk >= Size)
        <4>1. wr + chunk \in 0 .. Size - 1
          BY <1>3, <3>2
        <4>. QED  BY <1>3, <1>6, <3>2, <4>1 DEF WriteHost
      <3>. QED  BY <3>1, <3>2
    <2>6. devQ' \in Seq(Items) /\ dleft' \in Nat
      <3>1. CASE dleft > chunk
        <4>1. dleft - chunk \in Nat
          BY <1>3, <3>1
        <4>. QED  BY <1>3, <1>6, <3>1, <4>1 DEF WriteHost
      <3>2. CASE ~(dleft > chunk)
        <4>1. devQ' = Tail(devQ) /\ dleft' = IF Tail(devQ) = <<>> THEN 0 ELSE Head(Tail(devQ)).pages
          BY <1>6, <3>2 DEF WriteHost
        <4>2. Tail(devQ) # <<>> => Head(Tail(devQ)) \in Items
          BY <2>3, TailFacts
        <4>. QED  BY <2>3, <4>1, <4>2
      <3>. QED  BY <3>1, <3>2
    <2>7. TypeOK'
      <3>1. 0 \in 0 .. MaxPush
        BY <1>3
      <3>. QED  BY <1>1, <2>1, <2>4, <2>5, <2>6, <3>1 DEF TypeOK
    <2>8. DeviceInv'
      BY <2>1 DEF DeviceInv
    <2>. QED  BY <1>1, <1>2, <2>7, <2>8, Frame
  <1>. QED  BY <1>4, <1>5, <1>6

-----------------------------------------------------------------------------
(***************************************************************************)
(* The theorems.                                                           *)
(***************************************************************************)
\* Every step keeps the invariant.
LEMMA NextLemma == CompletionInv /\ [Next]_vars => CompletionInv'
  <1>. SUFFICES ASSUME CompletionInv, [Next]_vars PROVE CompletionInv'
    OBVIOUS
  <1>1. CASE EnqueueReadBuffer \/ EnqueueRecordEvent \/ CallFinish \/ EventSynchronize \/ CloseDevice
         \/ CloseDevices
    BY <1>1, CallSteps
  <1>2. CASE HostStep
    BY <1>2, PlainHostSteps, PushStep, CountStep, WaitSteps, DestroyStep DEF HostStep
  <1>3. CASE ReaderStep
    BY <1>3, LookSteps, PopStep, ReadSteps, BumpStep DEF ReaderStep
  <1>4. CASE DeviceStep \/ Hang
    BY <1>4, DeviceSteps DEF DeviceStep
  <1>5. CASE UNCHANGED vars
    <2>1. UNCHANGED <<todo, asleep, nextId, closed, testMode, hung, exit, entries, completed, issued,
                      rpc, batch, taken, cur, left, last, rd, rdT, wr, wrT, ring, devQ, dleft, chunk>>
      BY <1>5 DEF vars, host, reader, device
    <2>2. TypeOK'
      BY <2>1 DEF CompletionInv, TypeOK
    <2>3. ReaderInv' /\ DeviceInv'
      BY <2>1 DEF CompletionInv, ReaderInv, DeviceInv
    <2>. QED  BY <2>1, <2>2, <2>3, Frame
  <1>. QED  BY <1>1, <1>2, <1>3, <1>4, <1>5 DEF Next

\* The inductive invariant: how the steps left of the host's call, the
\* descriptors in issued_completion_q_reads, the two counters and the reader's
\* batch belong together.
THEOREM CompletionInvariant == Spec => []CompletionInv
  BY InitLemma, NextLemma, PTL DEF Spec

\* The variables of the completion queue keep their types: the counters, ring
\* pointers and page counts of HWCommandQueue and of the dispatcher stay in range.
THEOREM CompletionTypeCorrect == Spec => []TypeOK
  <1>1. CompletionInv => TypeOK
    BY DEF CompletionInv
  <1>. QED  BY <1>1, CompletionInvariant, PTL

\* set_last_completed_event names no event before a descriptor that the reader
\* thread still has to deal with: who sees an event completed has all before it.
THEOREM EventMeansReadTheorem == Spec => []EventMeansRead
  <1>1. CompletionInv => EventMeansRead
    <2>. SUFFICES ASSUME CompletionInv, NEW i \in Pending PROVE i.id > last
      BY DEF EventMeansRead
    <2>1. DOMAIN issued = 1 .. Len(issued) /\ last \in Nat /\ cur.id \in Nat
      BY Basics DEF CompletionInv
    <2>2. CASE \E k \in 1 .. Len(issued) : i = issued[k]
      BY <2>1, <2>2 DEF CompletionInv, OrderInv
    <2>3. CASE i = cur /\ cur # NoItem
      BY <2>1, <2>3 DEF CompletionInv, OrderInv
    <2>. QED  BY <2>2, <2>3 DEF Pending
  <1>. QED  BY <1>1, CompletionInvariant, PTL

\* issued_completion_q_reads.pop() in read_completion_queue is never called on
\* an empty queue, though the descriptor and its count are written separately.
THEOREM DescriptorThereTheorem == Spec => []DescriptorThere
  <1>1. CompletionInv => DescriptorThere
    <2>. SUFFICES ASSUME CompletionInv, rpc = "pop" PROVE issued # <<>>
      BY DEF DescriptorThere
    <2>. USE DEF CompletionInv
    <2>1. /\ todo \in Seq(Steps) /\ entries \in Nat /\ completed \in Nat /\ taken \in Nat
          /\ batch \in Nat /\ Len(issued) \in Nat
      BY Basics
    <2>2. Many("push") <= Many("count") /\ Many("push") \in Nat /\ Many("count") \in Nat
      <3>. DEFINE P == Places(todo, "push")
                  C == Places(todo, "count")
      <3>1. PICK m \in [P -> C] : \A i, j \in P : m[i] = m[j] => i = j
        BY DEF Pairs
      <3>2. m \in Injection(P, C)
        BY <3>1, Fun_IsInj
      <3>3. IsFiniteSet(C)
        BY <2>1, PlacesFinite
      <3>4. Cardinality(P) <= Cardinality(C)
        BY <3>2, <3>3, FS_Injection
      <3>. QED  BY <2>1, <3>4, PlacesFinite DEF Many
    <2>3. taken < batch /\ completed + batch <= entries
      BY DEF ReaderInv
    <2>4. Len(issued) > 0
      BY <2>1, <2>2, <2>3 DEF CountInv, TypeOK
    <2>. QED  BY <2>4
  <1>. QED  BY <1>1, CompletionInvariant, PTL

\* finish returns when no buffer is left to read: the only descriptor that may
\* be pending is the event of finish itself, for a blocking read that has not
\* been counted yet.
THEOREM FinishMeansReadTheorem == Spec => FinishMeansRead
  <1>1. CompletionInv /\ [Next]_vars =>
          [At("wait") /\ todo' = Tail(todo) => \A i \in Pending : i.event]_vars
    <2>. SUFFICES ASSUME CompletionInv, Next, At("wait"), todo' = Tail(todo), NEW i \in Pending
                  PROVE  i.event
      OBVIOUS
    <2>1. todo \in Seq(Steps) /\ todo # <<>> /\ Head(todo).op = "wait" /\ todo' # todo
      <3>1. todo \in Seq(Steps) /\ todo # <<>> /\ Head(todo).op = "wait"
        BY Basics DEF CompletionInv, At
      <3>2. Len(Tail(todo)) = Len(todo) - 1 /\ Len(todo) \in Nat \ {0}
        BY <3>1, TailFacts
      <3>3. Tail(todo) # todo
        <4>. SUFFICES ASSUME Tail(todo) = todo PROVE FALSE
          OBVIOUS
        <4>1. Len(todo) = Len(todo) - 1
          BY <3>2, Zenon
        <4>. QED  BY ONLY <3>2, <4>1
      <3>. QED  BY <3>1, <3>3
    <2>2. entries <= completed
      <3>1. ~(EnqueueReadBuffer \/ EnqueueRecordEvent \/ CallFinish \/ EventSynchronize \/ CloseDevice
              \/ CloseDevices)
        BY <2>1, Zenon DEF EnqueueReadBuffer, EnqueueRecordEvent, CallFinish, EventSynchronize,
           CloseDevice, CloseDevices, CallApi, Call
      <3>2. ~ReaderStep /\ ~DeviceStep /\ ~Hang
        BY <2>1 DEF ReaderStep, ReaderWait, ReaderCheck, PopDescriptor, WaitFront,
           CopyIntoUserSpace, ReadEvent, Bump, NotifyHost, DeviceStep, TakeChunk, WriteHost, Hang, host
      <3>3. WaitForReads \/ PollForReads
        BY <2>1, <3>1, <3>2 DEF Next, HostStep, Process, PushDescriptor, Count, NotifyReader,
           Synchronize, Destroy, Join, At
      <3>4. entries \in Nat /\ completed \in Nat
        BY Basics DEF CompletionInv
      <3>5. todo' # <<Plain("notifyExit")>> \o Tail(todo)
        <4>1. Plain("notifyExit") \in Steps
          BY StepTypes DEF Ops
        <4>2. Tail(todo) \in Seq(Steps) /\ <<Plain("notifyExit")>> \in Seq(Steps)
              /\ Len(<<Plain("notifyExit")>>) = 1 /\ Len(Tail(todo)) \in Nat
          BY <2>1, <4>1, TailFacts, LenProperties
        <4>3. Len(<<Plain("notifyExit")>> \o Tail(todo)) = 1 + Len(Tail(todo))
          BY <4>2, ConcatProperties
        <4>. QED  BY <4>2, <4>3
      <3>. QED  BY <2>1, <3>3, <3>4, <3>5 DEF WaitForReads, PollForReads
    <2>3. /\ cur = NoItem /\ Len(issued) <= 1 /\ (issued = <<>> \/ issued[Len(issued)].event)
          /\ Len(issued) \in Nat /\ issued \in Seq(Items)
      BY <2>2, Waited, Basics DEF CompletionInv
    <2>4. PICK k \in 1 .. Len(issued) : i = issued[k]
      BY <2>3 DEF Pending
    <2>5. k = Len(issued) /\ issued # <<>>
      BY <2>3, <2>4, EmptySeq
    <2>. QED  BY <2>3, <2>4, <2>5
  <1>. QED  BY <1>1, CompletionInvariant, PTL DEF Spec, FinishMeansRead

\* The TT_ASSERTs of the destructor of HWCommandQueue hold when the device is
\* closed through close_devices, which synchronizes it first.
THEOREM NothingInFlightTheorem == Spec => []NothingInFlight
  <1>1. CompletionInv => NothingInFlight
    <2>. SUFFICES ASSUME CompletionInv, closed = "devices", At("destroy"), ~exit
                  PROVE  issued = <<>> /\ entries = completed
      BY DEF NothingInFlight
    <2>1. todo \in Seq(Steps) /\ todo # <<>> /\ \A op : Places(todo, op) \subseteq Nat \ {0}
      BY Basics DEF CompletionInv, At
    <2>2. 1 \in Places(todo, "destroy")
      BY <2>1, TailPlaces DEF At
    <2>3. \A i \in Places(todo, "wait") : ~(i < 1)
      BY <2>1
    <2>. QED  BY <2>2, <2>3 DEF CompletionInv, DestroyInv
  <1>. QED  BY <1>1, CompletionInvariant, PTL

-----------------------------------------------------------------------------
(***************************************************************************)
(* Proof of ReadsOwnPages.  All pages the dispatcher ever writes lie in    *)
(* one line, command after command; the ring holds the pages between the   *)
(* reader's place in the line and the dispatcher's.                        *)
(***************************************************************************)

\* The types that the parts below rely on.
LEMMA LineTypes ==
  ASSUME CompletionInv, NEW T \in [1 .. MaxId + 1 -> Nat], RingInLine(T)
  PROVE  /\ MaxId \in Nat /\ Size \in Nat \ {0} /\ nextId \in 1 .. MaxId + 1
         /\ completed \in Nat /\ taken \in Nat /\ completed + taken + 1 \in 1 .. nextId
         /\ T[completed + taken + 1] \in Nat /\ left \in Nat /\ ReadAt(T) \in Int
         /\ rd \in 0 .. Size - 1 /\ wr \in 0 .. Size - 1
         /\ Used \in 0 .. Size /\ WriteAt(T) = ReadAt(T) + Used
  <1>1. /\ MaxId \in Nat /\ Size \in Nat \ {0} /\ nextId \in 1 .. MaxId + 1
        /\ left \in Nat /\ rd \in 0 .. Size - 1 /\ wr \in 0 .. Size - 1
    BY CompletionAssumption DEF CompletionInv, TypeOK
  <1>2. completed \in Nat /\ taken \in Nat /\ Len(issued) \in Nat
    BY Basics DEF CompletionInv
  <1>3. Many("push") \in Nat
    BY PlacesFinite DEF Many, CompletionInv, TypeOK
  <1>4. completed + taken + 1 \in 1 .. nextId
    BY <1>1, <1>2, <1>3 DEF CompletionInv, CountInv
  <1>5. T[completed + taken + 1] \in Nat
    BY <1>1, <1>4
  <1>6. Used \in 0 .. Size
    BY <1>1 DEF RingInLine, Used
  <1>. QED  BY <1>1, <1>2, <1>4, <1>5, <1>6 DEF ReadAt, RingInLine

-----------------------------------------------------------------------------
(***************************************************************************)
(* The steps of the host.                                                  *)
(***************************************************************************)
\* What is left of a call stays in line.
LEMMA StepsTail ==
  ASSUME TypeOK, NEW T, StepsInLine(T), todo # <<>>, Done, UNCHANGED nextId
  PROVE  StepsInLine(T)'
  <1>1. /\ \A op, i : i \in Places(todo', op) <=> i \in Nat \ {0} /\ i + 1 \in Places(todo, op)
        /\ \A op : \A i \in Places(todo', op) : todo'[i] = todo[i + 1]
        /\ \A op : 1 \in Places(todo, op) <=> Head(todo).op = op
        /\ \A op : /\ Many(op) = Many(op)' + (IF Head(todo).op = op THEN 1 ELSE 0)
                   /\ Many(op) \in Nat /\ Many(op)' \in Nat
    BY Shifted
  <1>2. /\ \A op : Places(todo, op) \subseteq Nat \ {0} /\ nextId \in Nat
        /\ \A op : \A i \in Places(todo, op) : todo[i].item.id \in Nat
    BY Basics
  <1>. SUFFICES ASSUME NEW op \in {"push", "process"}, NEW i \in Places(todo', op)
                PROVE  /\ Fits(T, todo'[i].item)
                       /\ \A j \in Places(todo', op) :
                            i < j => todo'[j].item.id = todo'[i].item.id + 1
                       /\ (\A j \in Places(todo', op) : i <= j) =>
                            todo'[i].item.id + Many(op)' = nextId
    BY DEF StepsInLine, Fits
  <1>. DEFINE P == Places(todo, op)
              Q == Places(todo', op)
              m == Many(op)'
  <1>3. /\ \A k \in P : /\ Fits(T, todo[k].item)
                        /\ \A j \in P : k < j => todo[j].item.id = todo[k].item.id + 1
                        /\ (\A j \in P : k <= j) => todo[k].item.id + Many(op) = nextId
    BY DEF StepsInLine
  <1>4. /\ i \in Nat \ {0} /\ i + 1 \in P /\ todo'[i] = todo[i + 1]
        /\ \A j \in Q : j \in Nat \ {0} /\ j + 1 \in P /\ todo'[j] = todo[j + 1]
        /\ \A j \in P : j # 1 => j - 1 \in Q
    <2>1. \A j \in P : j # 1 => j - 1 \in Nat \ {0} /\ (j - 1) + 1 = j
      BY <1>2
    <2>. QED  BY <1>1, <2>1
  <1>5. Fits(T, todo'[i].item)
    BY <1>3, <1>4
  <1>6. \A j \in Q : i < j => todo'[j].item.id = todo'[i].item.id + 1
    BY <1>3, <1>4
  <1>7. ASSUME \A j \in Q : i <= j
        PROVE  todo'[i].item.id + Many(op)' = nextId
    <2>1. Many(op) = m + (IF Head(todo).op = op THEN 1 ELSE 0) /\ m \in Nat /\ Many(op) \in Nat
      BY <1>1
    <2>2. todo[i + 1].item.id \in Nat /\ nextId \in Nat
      BY <1>2, <1>4
    <2>. HIDE DEF m
    <2>3. CASE Head(todo).op = op
      <3>1. 1 \in P /\ \A j \in P : 1 <= j
        BY <1>1, <1>2, <2>3
      <3>2. todo[1].item.id + Many(op) = nextId /\ todo[i + 1].item.id = todo[1].item.id + 1
        BY <1>3, <1>4, <3>1
      <3>3. todo[1].item.id \in Nat
        BY <1>2, <3>1
      <3>4. todo[i + 1].item.id + m = nextId
        BY <2>1, <2>2, <2>3, <3>2, <3>3
      <3>. QED  BY <1>4, <3>4 DEF m
    <2>4. CASE Head(todo).op # op
      <3>1. \A j \in P : j # 1
        BY <1>1, <2>4
      <3>2. \A j \in P : i + 1 <= j
        <4>. SUFFICES ASSUME NEW j \in P PROVE i + 1 <= j
          OBVIOUS
        <4>1. i <= j - 1 /\ j \in Nat
          BY <1>2, <1>4, <1>7, <3>1
        <4>. QED  BY <1>4, <4>1
      <3>3. todo[i + 1].item.id + Many(op) = nextId
        BY <1>3, <1>4, <3>2
      <3>4. Many(op) = m
        BY <2>1, <2>4
      <3>. QED  BY <1>4, <3>3, <3>4 DEF m
    <2>. QED  BY <2>3, <2>4
  <1>. QED  BY <1>5, <1>6, <1>7

\* Nothing else in the line depends on the steps left, but for the number of
\* commands that are not with the device yet.
LEMMA StillLine ==
  ASSUME NEW T, Stream(T), StepsInLine(T)', ReaderInLine(T)', Many("process")' = Many("process"),
         rpc' = "event" => rpc = "event" \/ Used > 0, ReadAt(T)' = ReadAt(T),
         UNCHANGED <<nextId, rd, rdT, wr, wrT, ring, devQ, dleft>>
  PROVE  Stream(T)'
  <1>1. Rising(T)' /\ DeviceInLine(T)'
    BY DEF Stream, Rising, DeviceInLine, Fits
  <1>2. Used' = Used /\ WriteAt(T)' = WriteAt(T)
    BY DEF Used, WriteAt
  <1>3. RingInLine(T)'
    BY <1>2 DEF Stream, RingInLine
  <1>4. PagesInLine(T)'
    BY <1>2 DEF Stream, PagesInLine, Slot
  <1>. QED  BY <1>1, <1>3, <1>4 DEF Stream

\* The same when the reader stays where it is.
LEMMA LineFrame ==
  ASSUME NEW T, Stream(T), StepsInLine(T)', ReaderInLine(T)', Many("process")' = Many("process"),
         rpc' = "event" => rpc = "event",
         UNCHANGED <<nextId, completed, taken, left, rd, rdT, wr, wrT, ring, devQ, dleft>>
  PROVE  Stream(T)'
  <1>1. ReadAt(T)' = ReadAt(T)
    BY DEF ReadAt
  <1>. QED  BY <1>1, StillLine

\* The reader's part does not depend on the host's position.
LEMMA ReaderFrame ==
  ASSUME NEW T, ReaderInLine(T), rpc' \in {"front", "event"} => rpc' = rpc,
         UNCHANGED <<issued, completed, taken, cur, left>>
  PROVE  ReaderInLine(T)'
  BY DEF ReaderInLine, Fits

\* A step that is done and moves no command.
LEMMA PlainLine ==
  ASSUME CompletionInv, NEW T, Stream(T), todo # <<>>, Done, Head(todo).op \notin {"push", "process"},
         rpc' \in {"front", "event"} => rpc' = rpc,
         UNCHANGED <<issued, cur, nextId, completed, taken, left, rd, rdT, wr, wrT, ring, devQ, dleft>>
  PROVE  Stream(T)'
  <1>1. StepsInLine(T)' /\ ReaderInLine(T)'
    BY StepsTail, ReaderFrame DEF Stream, CompletionInv
  <1>2. Many("process")' = Many("process")
    BY Shifted DEF CompletionInv
  <1>. QED  BY <1>1, <1>2, LineFrame

\* A step that is replaced by the one that tells the reader to leave.
LEMMA ExitLine ==
  ASSUME CompletionInv, NEW T, Stream(T), todo # <<>>, Head(todo).op \in {"wait", "destroy"},
         todo' = <<Plain("notifyExit")>> \o Tail(todo),
         UNCHANGED <<rpc, issued, cur, nextId, completed, taken, left, rd, rdT, wr, wrT, ring,
                     devQ, dleft>>
  PROVE  Stream(T)'
  <1>. DEFINE x == Plain("notifyExit")
  <1>1. x \in Steps /\ x.op = "notifyExit" /\ todo \in Seq(Steps)
    BY StepTypes DEF Ops, Plain, Step, CompletionInv, TypeOK
  <1>2. todo' = <<x>> \o Tail(todo)
    OBVIOUS
  <1>. HIDE DEF x
  <1>3. \A op \in {"push", "process"} :
          /\ Places(<<x>> \o Tail(todo), op) = Places(todo, op)
          /\ \A i \in Places(todo, op) : (<<x>> \o Tail(todo))[i] = todo[i]
    <2>. SUFFICES ASSUME NEW op \in {"push", "process"}
                  PROVE  /\ Places(<<x>> \o Tail(todo), op) = Places(todo, op)
                         /\ \A i \in Places(todo, op) : (<<x>> \o Tail(todo))[i] = todo[i]
      OBVIOUS
    <2>1. x.op # op /\ Head(todo).op # op
      BY <1>1
    <2>. QED  BY <1>1, <2>1, OtherHead
  <1>4. \A op \in {"push", "process"} :
          /\ Places(todo', op) = Places(todo, op)
          /\ \A i \in Places(todo, op) : todo'[i] = todo[i]
    BY <1>2, <1>3, Zenon
  <1>5. \A op \in {"push", "process"} : Many(op)' = Many(op)
    BY <1>4 DEF Many
  <1>6. StepsInLine(T)'
    <2>. SUFFICES ASSUME NEW op \in {"push", "process"}, NEW i \in Places(todo', op)
                  PROVE  /\ Fits(T, todo'[i].item)
                         /\ \A j \in Places(todo', op) :
                              i < j => todo'[j].item.id = todo'[i].item.id + 1
                         /\ (\A j \in Places(todo', op) : i <= j) =>
                              todo'[i].item.id + Many(op)' = nextId
      BY ZenonT(40) DEF StepsInLine, Fits
    <2>1. /\ Fits(T, todo[i].item)
          /\ \A j \in Places(todo, op) : i < j => todo[j].item.id = todo[i].item.id + 1
          /\ (\A j \in Places(todo, op) : i <= j) => todo[i].item.id + Many(op) = nextId
      BY <1>4 DEF Stream, StepsInLine
    <2>2. Places(todo', op) = Places(todo, op) /\ Many(op)' = Many(op)
          /\ \A j \in Places(todo, op) : todo'[j] = todo[j]
      BY <1>4, <1>5
    <2>. QED  BY <2>1, <2>2
  <1>7. ReaderInLine(T)'
    BY ReaderFrame DEF Stream
  <1>. QED  BY <1>5, <1>6, <1>7, LineFrame

\* A descriptor is pushed: it is the one after those that were pushed before.
LEMMA PushLine ==
  ASSUME CompletionInv, NEW T, Stream(T), PushDescriptor
  PROVE  Stream(T)'
  <1>1. /\ todo # <<>> /\ Head(todo).op = "push" /\ Done /\ issued' = Append(issued, Item)
        /\ UNCHANGED <<rpc, cur, nextId, completed, taken, left, rd, rdT, wr, wrT, ring,
                       devQ, dleft>>
    BY DEF PushDescriptor, At, reader, device
  <1>2. /\ Item \in Items /\ Item = todo[1].item /\ 1 \in Places(todo, "push")
        /\ Many("process")' = Many("process") /\ Many("push") \in Nat
    BY <1>1, Shifted DEF CompletionInv, Item
  <1>3. /\ issued \in Seq(Items) /\ Len(issued) \in Nat /\ nextId \in Nat /\ completed \in Nat
        /\ taken \in Nat /\ \A i \in Places(todo, "push") : i \in Nat \ {0} /\ todo[i].item.id \in Nat
    BY Basics DEF CompletionInv
  <1>4. Fits(T, Item) /\ Item.id + Many("push") = nextId
    <2>1. \A j \in Places(todo, "push") : 1 <= j
      BY <1>3
    <2>. QED  BY <1>2, <2>1 DEF Stream, StepsInLine
  <1>5. Item.id = completed + taken + (Len(issued) + 1)
    BY <1>2, <1>3, <1>4 DEF CompletionInv, CountInv
  <1>6. /\ issued' \in Seq(Items) /\ Len(issued') = Len(issued) + 1
        /\ \A k \in 1 .. Len(issued) : issued'[k] = issued[k]
        /\ issued'[Len(issued) + 1] = Item
    BY <1>1, <1>2, <1>3, AppendFacts
  <1>7. DOMAIN issued' = 1 .. Len(issued) + 1 /\ DOMAIN issued = 1 .. Len(issued)
    BY <1>3, <1>6, LenProperties
  <1>8. \A k \in 1 .. Len(issued) + 1 :
          Fits(T, issued'[k]) /\ issued'[k].id = completed + taken + k
    <2>. SUFFICES ASSUME NEW k \in 1 .. Len(issued) + 1
                  PROVE  Fits(T, issued'[k]) /\ issued'[k].id = completed + taken + k
      OBVIOUS
    <2>1. CASE k = Len(issued) + 1
      BY <1>4, <1>5, <1>6, <2>1
    <2>2. CASE k \in 1 .. Len(issued)
      BY <1>6, <1>7, <2>2 DEF Stream, ReaderInLine
    <2>. QED  BY <1>3, <2>1, <2>2
  <1>9. ReaderInLine(T)'
    BY <1>1, <1>7, <1>8 DEF Stream, ReaderInLine, Fits
  <1>10. StepsInLine(T)'
    BY <1>1, StepsTail DEF Stream, CompletionInv
  <1>. QED  BY <1>1, <1>2, <1>9, <1>10, LineFrame

\* A command is handed to the device: it is the one after those it has.
LEMMA ProcessLine ==
  ASSUME CompletionInv, NEW T \in [1 .. MaxId + 1 -> Nat], Stream(T), Process
  PROVE  Stream(T)'
  <1>1. /\ todo # <<>> /\ Head(todo).op = "process" /\ Done
        /\ devQ' = Append(devQ, Item) /\ dleft' = (IF devQ = <<>> THEN Item.pages ELSE dleft)
        /\ UNCHANGED <<rpc, issued, cur, nextId, completed, taken, left, rd, rdT, wr, wrT, ring>>
    BY DEF Process, At, reader
  <1>2. /\ Item \in Items /\ Item = todo[1].item /\ 1 \in Places(todo, "process")
        /\ Many("process") = Many("process")' + 1 /\ Many("process")' \in Nat
    BY <1>1, Shifted DEF CompletionInv, Item
  <1>3. /\ nextId \in Nat /\ \A i \in Places(todo, "process") : i \in Nat \ {0} /\ todo[i].item.id \in Nat
        /\ devQ \in Seq(Items) /\ Len(devQ) \in Nat /\ MaxId \in Nat
    BY Basics, LenProperties DEF CompletionInv, TypeOK
  <1>4. Fits(T, Item) /\ Item.id + Many("process") = nextId /\ Item.id \in Nat
    <2>1. \A j \in Places(todo, "process") : 1 <= j
      BY <1>3
    <2>. QED  BY <1>2, <1>3, <2>1 DEF Stream, StepsInLine
  <1>5. /\ devQ' \in Seq(Items) /\ Len(devQ') = Len(devQ) + 1
        /\ \A k \in 1 .. Len(devQ) : devQ'[k] = devQ[k]
        /\ devQ'[Len(devQ) + 1] = Item
    BY <1>1, <1>2, <1>3, AppendFacts
  <1>6. /\ DOMAIN devQ' = 1 .. Len(devQ) + 1 /\ DOMAIN devQ = 1 .. Len(devQ)
        /\ devQ' # <<>> /\ Head(devQ') = devQ'[1]
    BY <1>3, <1>5, LenProperties, TailFacts, EmptySeq
  <1>. DEFINE m == Many("process")'
  <1>7. Many("process") = m + 1 /\ m \in Nat
    BY <1>2
  <1>. HIDE DEF m
  <1>8. \A k \in 1 .. Len(devQ) + 1 :
          Fits(T, devQ'[k]) /\ devQ'[k].id + (Len(devQ) + 1) + m = nextId + k - 1
    <2>. SUFFICES ASSUME NEW k \in 1 .. Len(devQ) + 1
                  PROVE  Fits(T, devQ'[k]) /\ devQ'[k].id + (Len(devQ) + 1) + m = nextId + k - 1
      OBVIOUS
    <2>1. CASE k = Len(devQ) + 1
      <3>1. devQ'[k] = Item
        BY <1>5, <2>1
      <3>2. Item.id + (Len(devQ) + 1) + m = nextId + k - 1
        BY SMTT(30), <1>3, <1>4, <1>7, <2>1
      <3>. QED  BY <1>4, <3>1, <3>2
    <2>2. CASE k \in 1 .. Len(devQ)
      <3>1. Fits(T, devQ[k]) /\ devQ[k].id + Len(devQ) + Many("process") = nextId + k - 1
        BY <1>6, <2>2 DEF Stream, DeviceInLine
      <3>2. devQ[k].id \in Nat
        BY <1>3, <3>1 DEF Fits
      <3>3. devQ[k].id + (Len(devQ) + 1) + m = nextId + k - 1
        <4>. DEFINE d == devQ[k].id
                    l == Len(devQ)
                    p == Many("process")
        <4>1. d + l + p = nextId + k - 1 /\ d \in Nat /\ l \in Nat /\ p = m + 1 /\ m \in Nat
              /\ nextId \in Nat /\ k \in Nat
          BY <1>3, <1>7, <2>2, <3>1, <3>2
        <4>. HIDE DEF d, l, p
        <4>2. d + (l + 1) + m = nextId + k - 1
          BY ONLY <4>1
        <4>. QED  BY <4>2 DEF d, l
      <3>. QED  BY <1>5, <2>2, <3>1, <3>3
    <2>. QED  BY <1>3, <2>1, <2>2
  <1>9. WriteAt(T)' = WriteAt(T) /\ dleft' \in 1 .. Head(devQ').pages
    <2>1. CASE devQ = <<>>
      <3>1. Len(devQ) = 0 /\ Head(devQ') = Item
        BY <1>5, <1>6, <2>1
      <3>2. Item.pages \in Nat /\ Item.pages > 0 /\ T[Item.id + 1] = T[Item.id] + Item.pages
            /\ Item.id \in 1 .. MaxId
        <4>1. Item.pages \in Nat
          <5>1. Item.pages \in Sizes \cup {0, 1}
            BY <1>2 DEF Items
          <5>2. Sizes \subseteq Nat
            BY CompletionAssumption
          <5>3. \A y \in Sizes \cup {0, 1} : y \in Nat
            BY <5>2
          <5>. QED  BY <5>1, <5>3, Zenon
        <4>. QED  BY <1>4, <4>1 DEF Fits
      <3>3. Item.id = nextId - Many("process")
        BY <1>3, <1>4, <1>7
      <3>4. T[Item.id] \in Nat
        BY <1>3, <3>2
      <3>5. T[Item.id + 1] - Item.pages = T[Item.id]
        BY <3>2, <3>4
      <3>6. WriteAt(T) = T[Item.id]
        BY <2>1, <3>3 DEF WriteAt
      <3>7. dleft' = Item.pages
        BY <1>1, <2>1
      <3>8. WriteAt(T)' = T[Item.id + 1] - Item.pages
        BY <1>6, <3>1, <3>7 DEF WriteAt
      <3>9. dleft' \in 1 .. Head(devQ').pages
        BY <3>1, <3>2, <3>7
      <3>. QED  BY <3>5, <3>6, <3>8, <3>9
    <2>2. CASE devQ # <<>>
      <3>1. Len(devQ) >= 1 /\ Head(devQ) = devQ[1]
        BY <1>3, <2>2, TailFacts
      <3>2. Head(devQ') = Head(devQ)
        BY <1>3, <1>5, <1>6, <3>1
      <3>3. dleft' = dleft
        BY <1>1, <2>2
      <3>4. dleft \in 1 .. Head(devQ).pages
        BY <2>2 DEF Stream, DeviceInLine
      <3>. QED  BY <1>6, <2>2, <3>2, <3>3, <3>4 DEF WriteAt
    <2>. QED  BY <2>1, <2>2
  <1>10. DeviceInLine(T)'
    <2>1. \A k \in DOMAIN devQ' : /\ Fits(T, devQ'[k])
                                  /\ devQ'[k].id + Len(devQ') + Many("process")' = nextId + k - 1
      BY <1>5, <1>6, <1>8 DEF m
    <2>. QED  BY <1>1, <1>9, <2>1 DEF DeviceInLine, Fits
  <1>11. Used' = Used /\ ReadAt(T)' = ReadAt(T) /\ Rising(T)'
    BY <1>1 DEF Used, ReadAt, Stream, Rising
  <1>12. RingInLine(T)'
    BY <1>1, <1>9, <1>11 DEF Stream, RingInLine
  <1>13. PagesInLine(T)'
    BY <1>1, <1>11 DEF Stream, PagesInLine, Slot
  <1>14. StepsInLine(T)' /\ ReaderInLine(T)'
    BY <1>1, StepsTail, ReaderFrame DEF Stream, CompletionInv
  <1>. QED  BY <1>10, <1>11, <1>12, <1>13, <1>14 DEF Stream

\* The steps of the host's thread.
LEMMA HostLine ==
  ASSUME CompletionInv, NEW T \in [1 .. MaxId + 1 -> Nat], Stream(T), HostStep
  PROVE  Stream(T)'
  <1>1. CASE Process \/ PushDescriptor
    BY <1>1, ProcessLine, PushLine
  <1>2. CASE Count \/ NotifyReader \/ Synchronize \/ Join
    <2>1. /\ todo # <<>> /\ Done /\ Head(todo).op \in {"count", "notify", "notifyExit", "sync", "join"}
          /\ UNCHANGED <<issued, cur, nextId, completed, taken, left, rd, rdT, wr, wrT, ring, devQ, dleft>>
          /\ rpc' = rpc \/ rpc' = Woken
      BY <1>2 DEF Count, NotifyReader, Synchronize, Join, At, reader, device
    <2>2. rpc' \in {"front", "event"} => rpc' = rpc
      BY <2>1 DEF Woken
    <2>. QED  BY <2>1, <2>2, PlainLine
  <1>3. CASE WaitForReads \/ PollForReads \/ Destroy
    <2>1. /\ todo # <<>> /\ Head(todo).op \in {"wait", "destroy"}
          /\ UNCHANGED <<rpc, issued, cur, nextId, completed, taken, left, rd, rdT, wr, wrT, ring, devQ, dleft>>
      BY <1>3 DEF WaitForReads, PollForReads, Destroy, At, reader, device
    <2>2. CASE Done
      BY <2>1, <2>2, PlainLine
    <2>3. CASE UNCHANGED todo
      <3>1. StepsInLine(T)' /\ Many("process")' = Many("process")
        BY <2>1, <2>3 DEF Stream, StepsInLine, Fits, Many
      <3>2. ReaderInLine(T)'
        BY <2>1, ReaderFrame DEF Stream
      <3>. QED  BY <2>1, <3>1, <3>2, LineFrame
    <2>4. CASE todo' = <<Plain("notifyExit")>> \o Tail(todo)
      BY <2>1, <2>4, ExitLine
    <2>5. CASE todo' = <<>> \o Tail(todo)
      <3>1. Tail(todo) \in Seq(Steps)
        BY <2>1, TailFacts DEF CompletionInv, TypeOK
      <3>2. Done
        BY <2>5, <3>1, ConcatEmptySeq DEF Done
      <3>. QED  BY <2>2, <3>2
    <2>6. Done \/ UNCHANGED todo \/ todo' = <<Plain("notifyExit")>> \o Tail(todo)
          \/ todo' = <<>> \o Tail(todo)
      <3>1. CASE WaitForReads
        BY <3>1 DEF WaitForReads
      <3>2. CASE PollForReads
        BY <3>2, Zenon DEF PollForReads
      <3>3. CASE Destroy
        <4>1. exit \in BOOLEAN
          BY DEF CompletionInv, TypeOK
        <4>. QED  BY <3>3, <4>1, Zenon DEF Destroy
      <3>. QED  BY <1>3, <3>1, <3>2, <3>3
    <2>. QED  BY <2>2, <2>3, <2>4, <2>5, <2>6
  <1>. QED  BY <1>1, <1>2, <1>3 DEF HostStep

-----------------------------------------------------------------------------
(***************************************************************************)
(* The steps of the reader.                                                *)
(***************************************************************************)
\* The host's steps stay in line when only the reader or the device moves.
LEMMA HostStays ==
  ASSUME NEW T, StepsInLine(T), UNCHANGED <<todo, nextId>>
  PROVE  StepsInLine(T)' /\ \A op : Many(op)' = Many(op)
  BY DEF StepsInLine, Fits, Many

\* Looking at the counters, and telling the host.
LEMMA LookLine ==
  ASSUME NEW T, Stream(T), ReaderWait \/ ReaderCheck \/ NotifyHost
  PROVE  Stream(T)'
  <1>1. /\ rpc' \in {"check", "asleep", "pop", "out", "wait"}
        /\ UNCHANGED <<todo, issued, cur, nextId, completed, taken, left, rd, rdT, wr, wrT, ring,
                       devQ, dleft>>
    BY DEF ReaderWait, ReaderCheck, NotifyHost, host, device
  <1>2. rpc' \notin {"front", "event"}
    BY <1>1
  <1>3. ReaderInLine(T)' /\ StepsInLine(T)' /\ Many("process")' = Many("process")
    BY <1>1, <1>2, ReaderFrame, HostStays DEF Stream
  <1>. QED  BY <1>1, <1>2, <1>3, LineFrame

\* Something is in the ring when the pointers differ.
LEMMA NotEmpty ==
  ASSUME CompletionInv, NEW T, RingInLine(T), ~Empty
  PROVE  Used > 0 /\ Readable > 0 /\ Readable <= Used /\ rd + Readable <= Size
         /\ Readable \in Nat
  <1>1. /\ Size \in Nat \ {0} /\ rd \in 0 .. Size - 1 /\ wr \in 0 .. Size - 1
    BY CompletionAssumption DEF CompletionInv, TypeOK
  <1>2. CASE rdT = wrT
    BY <1>1, <1>2 DEF RingInLine, Empty, Used, Readable
  <1>3. CASE rdT # wrT
    BY <1>1, <1>3 DEF RingInLine, Empty, Used, Readable
  <1>. QED  BY <1>2, <1>3

\* The reader goes on to the page it waited for, unless it is told to leave.
LEMMA FrontLine ==
  ASSUME CompletionInv, NEW T, Stream(T), WaitFront, Reading'
  PROVE  Stream(T)'
  <1>1. /\ rpc = "front" /\ (~Empty \/ exit)
        /\ rpc' = (IF exit THEN "out" ELSE IF cur.event THEN "event" ELSE "copy")
        /\ UNCHANGED <<exit, todo, issued, cur, nextId, completed, taken, left, rd, rdT, wr, wrT, ring,
                       devQ, dleft>>
    BY DEF WaitFront, host, device
  <1>2. exit \in BOOLEAN /\ cur.event \in BOOLEAN
    BY DEF CompletionInv, TypeOK, Items
  <1>3. ~exit
    <2>1. exit => rpc' = "out" /\ exit'
      BY <1>1
    <2>2. ~exit' \/ rpc' \in {"event", "copy"}
      BY DEF Reading
    <2>. QED  BY <2>1, <2>2
  <1>4. ~Empty /\ rpc' = IF cur.event THEN "event" ELSE "copy"
    BY <1>1, <1>2, <1>3
  <1>5. Used > 0
    BY <1>4, NotEmpty DEF Stream
  <1>6. rpc' = "event" => cur.event
    BY <1>2, <1>4
  <1>7. ReaderInLine(T)'
    BY <1>1, <1>6 DEF Stream, ReaderInLine, Fits
  <1>8. StepsInLine(T)' /\ Many("process")' = Many("process") /\ ReadAt(T)' = ReadAt(T)
    BY <1>1, HostStays DEF Stream, ReadAt
  <1>. QED  BY <1>1, <1>5, <1>7, <1>8, StillLine

\* The next descriptor is that of the next command.
LEMMA PopDescriptorLine ==
  ASSUME CompletionInv, NEW T \in [1 .. MaxId + 1 -> Nat], Stream(T), PopDescriptor
  PROVE  Stream(T)'
  <1>1. /\ rpc = "pop" /\ issued # <<>> /\ cur' = Head(issued) /\ issued' = Tail(issued)
        /\ left' = cur'.pages /\ taken' = taken + 1 /\ rpc' = "front"
        /\ UNCHANGED <<todo, nextId, completed, rd, rdT, wr, wrT, ring, devQ, dleft>>
    BY DEF PopDescriptor, host, device
  <1>2. cur = NoItem /\ left = 0
    BY <1>1 DEF CompletionInv, ReaderInv, Stream, ReaderInLine
  <1>3. /\ issued \in Seq(Items) /\ Len(issued) \in Nat \ {0} /\ completed \in Nat /\ taken \in Nat
        /\ MaxId \in Nat /\ DOMAIN issued = 1 .. Len(issued)
    BY <1>1, Basics, CompletionAssumption, TailFacts DEF CompletionInv
  <1>4. /\ Head(issued) = issued[1] /\ Head(issued) \in Items /\ Tail(issued) \in Seq(Items)
        /\ Len(Tail(issued)) = Len(issued) - 1
        /\ \A k \in 1 .. Len(issued) - 1 : Tail(issued)[k] = issued[k + 1]
    BY <1>1, <1>3, TailFacts
  <1>5. DOMAIN Tail(issued) = 1 .. Len(issued) - 1
    BY <1>4, LenProperties
  <1>6. \A k \in 1 .. Len(issued) : Fits(T, issued[k]) /\ issued[k].id = completed + taken + k
    BY <1>3 DEF Stream, ReaderInLine
  <1>7. Fits(T, Head(issued)) /\ Head(issued).id = completed + taken + 1
    BY <1>3, <1>4, <1>6
  <1>8. \A k \in 1 .. Len(issued) - 1 :
          Fits(T, Tail(issued)[k]) /\ Tail(issued)[k].id = completed + (taken + 1) + k
    <2>. SUFFICES ASSUME NEW k \in 1 .. Len(issued) - 1
                  PROVE  Fits(T, Tail(issued)[k]) /\ Tail(issued)[k].id = completed + (taken + 1) + k
      OBVIOUS
    <2>1. k + 1 \in 1 .. Len(issued) /\ Tail(issued)[k] = issued[k + 1]
      BY <1>3, <1>4
    <2>2. completed + taken + (k + 1) = completed + (taken + 1) + k
      BY <1>3
    <2>. QED  BY <1>6, <2>1, <2>2
  <1>9. Head(issued).pages \in Nat
    <2>1. Head(issued).pages \in Sizes \cup {0, 1}
      BY <1>4 DEF Items
    <2>2. \A y \in Sizes \cup {0, 1} : y \in Nat
      BY CompletionAssumption
    <2>. QED  BY <2>1, <2>2, Zenon
  <1>. DEFINE h == Head(issued)
  <1>10. /\ h.id \in 1 .. MaxId /\ h.pages > 0 /\ T[h.id + 1] = T[h.id] + h.pages
         /\ h.id = completed + taken + 1 /\ h.pages \in Nat /\ T[h.id] \in Nat
    BY <1>3, <1>7, <1>9 DEF Fits
  <1>11. ReadAt(T)' = ReadAt(T)
    <2>1. ReadAt(T)' = T[completed + (taken + 1) + 1] - h.pages
      BY <1>1 DEF ReadAt
    <2>2. completed + (taken + 1) + 1 = h.id + 1
      BY <1>3, <1>10
    <2>3. ReadAt(T) = T[h.id] - 0
      BY <1>2, <1>10 DEF ReadAt
    <2>4. T[h.id + 1] - h.pages = T[h.id] - 0
      BY <1>10
    <2>. QED  BY <2>1, <2>2, <2>3, <2>4
  <1>12. left' \in 1 .. cur'.pages /\ left' = cur'.pages
    BY <1>1, <1>10
  <1>13. cur' # NoItem /\ Fits(T, cur') /\ cur'.id = completed + (taken + 1)
    BY <1>1, <1>3, <1>7, <1>10 DEF NoItem
  <1>. HIDE DEF h
  <1>14. ReaderInLine(T)'
    BY <1>1, <1>5, <1>8, <1>12, <1>13 DEF ReaderInLine, Fits
  <1>15. StepsInLine(T)' /\ Many("process")' = Many("process")
    BY <1>1, HostStays DEF Stream
  <1>. QED  BY <1>1, <1>11, <1>14, <1>15, StillLine

\* A batch is counted as completed.
LEMMA BumpLine ==
  ASSUME CompletionInv, NEW T, Stream(T), Bump
  PROVE  Stream(T)'
  <1>1. /\ rpc = "bump" /\ completed' = completed + batch /\ taken' = 0 /\ rpc' = "notify"
        /\ UNCHANGED <<todo, issued, cur, left, nextId, rd, rdT, wr, wrT, ring, devQ, dleft>>
    BY DEF Bump, host, device
  <1>2. taken = batch /\ cur = NoItem /\ completed \in Nat /\ taken \in Nat
    BY <1>1, Basics DEF CompletionInv, ReaderInv
  <1>3. completed' + taken' = completed + taken
    BY <1>1, <1>2
  <1>4. ReadAt(T)' = ReadAt(T)
    BY <1>1, <1>3 DEF ReadAt
  <1>5. ReaderInLine(T)'
    BY <1>1, <1>2, <1>3 DEF Stream, ReaderInLine, Fits
  <1>6. StepsInLine(T)' /\ Many("process")' = Many("process")
    BY <1>1, HostStays DEF Stream
  <1>. QED  BY <1>1, <1>4, <1>5, <1>6, StillLine

\* The reader takes n pages that are there.
LEMMA TakePages ==
  ASSUME CompletionInv, NEW T \in [1 .. MaxId + 1 -> Nat], RingInLine(T), PagesInLine(T),
         NEW n \in Nat, n <= Used, rd + n <= Size, PopFront(n), rpc' # "event",
         ReadAt(T)' = ReadAt(T) + n, WriteAt(T)' = WriteAt(T),
         UNCHANGED <<nextId, wr, wrT, ring>>
  PROVE  RingInLine(T)' /\ PagesInLine(T)'
  <1>1. /\ Size \in Nat \ {0} /\ rd \in 0 .. Size - 1 /\ wr \in 0 .. Size - 1
        /\ rdT \in {0, 1} /\ wrT \in {0, 1} /\ nextId \in Nat /\ MaxId \in Nat
        /\ nextId \in 1 .. MaxId + 1
    BY CompletionAssumption DEF CompletionInv, TypeOK
  <1>2. ReadAt(T) \in Int /\ Used \in 0 .. Size /\ WriteAt(T) = ReadAt(T) + Used
    BY LineTypes
  <1>. DEFINE u == Used'
              r == ReadAt(T)
  <1>3. /\ u = Used - n /\ u \in Nat
        /\ IF rdT' = wrT' THEN rd' <= wr' ELSE wr' <= rd'
        /\ \A k \in 0 .. u - 1 : Slot(k)' = Slot(k + n)
    <2>1. CASE rd + n >= Size
      <3>1. rd' = 0 /\ rdT' = 1 - rdT /\ rd + n = Size /\ wr' = wr /\ wrT' = wrT
        BY <1>1, <2>1 DEF PopFront
      <3>2. rdT # wrT
        BY <1>1, <3>1 DEF Used, RingInLine
      <3>3. rdT' = wrT
        BY <1>1, <3>1, <3>2
      <3>4. Used = Size - (rd - wr) /\ u = wr - 0
        BY <3>1, <3>2, <3>3 DEF Used
      <3>5. \A k \in 0 .. u - 1 : Slot(k)' = k /\ Slot(k + n) = k
        BY <1>1, <3>1, <3>4 DEF Slot
      <3>. HIDE DEF u
      <3>. QED  BY <1>1, <3>1, <3>3, <3>4, <3>5
    <2>2. CASE ~(rd + n >= Size)
      <3>1. rd' = rd + n /\ rdT' = rdT /\ wr' = wr /\ wrT' = wrT
        BY <2>2 DEF PopFront
      <3>2. u = Used - n
        BY <1>1, <3>1 DEF Used
      <3>3. IF rdT' = wrT' THEN rd' <= wr' ELSE wr' <= rd'
        BY <1>1, <3>1 DEF RingInLine, Used
      <3>4. u \in Nat
        BY <1>2, <3>2
      <3>5. \A k \in 0 .. u - 1 : Slot(k)' = Slot(k + n)
        <4>. SUFFICES ASSUME NEW k \in 0 .. u - 1 PROVE Slot(k)' = Slot(k + n)
          OBVIOUS
        <4>1. k \in Nat
          BY <3>4
        <4>2. Slot(k)' = IF rd' + k >= Size THEN rd' + k - Size ELSE rd' + k
          BY DEF Slot
        <4>3. Slot(k + n) = IF rd + (k + n) >= Size THEN rd + (k + n) - Size ELSE rd + (k + n)
          BY DEF Slot
        <4>. QED  BY ONLY <1>1, <3>1, <4>1, <4>2, <4>3, n \in Nat
      <3>. QED  BY <3>2, <3>3, <3>4, <3>5
    <2>. QED  BY <2>1, <2>2
  <1>4. RingInLine(T)'
    <2>1. ReadAt(T)' = r + n /\ WriteAt(T)' = r + Used
      BY <1>2
    <2>. HIDE DEF r, u
    <2>2. r + Used = (r + n) + u
      BY <1>2, <1>3 DEF r
    <2>3. WriteAt(T)' = ReadAt(T)' + Used'
      BY <2>1, <2>2 DEF u
    <2>. QED  BY <1>3, <2>3 DEF RingInLine
  <1>5. PagesInLine(T)'
    <2>. SUFFICES ASSUME NEW k \in 0 .. u - 1, NEW id \in 1 .. nextId - 1,
                         T[id] <= (r + n) + k, (r + n) + k < T[id + 1]
                  PROVE  ring[Slot(k)'] = [id |-> id, left |-> T[id + 1] - ((r + n) + k)]
      BY DEF PagesInLine
    <2>. HIDE DEF r, u
    <2>1. k \in Nat /\ k + n \in 0 .. Used - 1 /\ r \in Int
      BY <1>2, <1>3 DEF r
    <2>2. (r + n) + k = r + (k + n)
      BY <2>1
    <2>3. ring[Slot(k + n)] = [id |-> id, left |-> T[id + 1] - (r + (k + n))]
      BY <2>1, <2>2 DEF PagesInLine, r
    <2>. QED  BY <1>3, <2>2, <2>3
  <1>. QED  BY <1>4, <1>5

\* What the reader's moves in the ring leave alone.
LEMMA MoveFrame ==
  ASSUME NEW T, Stream(T), ReaderInLine(T)', RingInLine(T)', PagesInLine(T)',
         UNCHANGED <<todo, nextId, devQ, dleft>>
  PROVE  Stream(T)'
  <1>1. StepsInLine(T)' /\ Many("process")' = Many("process")
    BY HostStays DEF Stream
  <1>2. Rising(T)' /\ DeviceInLine(T)'
    BY <1>1 DEF Stream, Rising, DeviceInLine, Fits
  <1>. QED  BY <1>1, <1>2 DEF Stream

\* A round of copying: the pages of the command that are there.
LEMMA CopyLine ==
  ASSUME CompletionInv, NEW T \in [1 .. MaxId + 1 -> Nat], Stream(T), CopyIntoUserSpace, Reading'
  PROVE  Stream(T)'
  <1>1. /\ rpc = "copy" /\ (~Empty \/ exit)
        /\ UNCHANGED <<exit, todo, issued, nextId, completed, taken, batch, wr, wrT, ring, devQ, dleft>>
    BY DEF CopyIntoUserSpace, host, device
  <1>. DEFINE n == IF left > Readable THEN Readable ELSE left
  <1>2. IF exit THEN NextOfBatch /\ UNCHANGED <<left, rd, rdT>>
        ELSE /\ PopFront(n) /\ left' = left - n
             /\ IF left' = 0 THEN NextOfBatch ELSE UNCHANGED <<rpc, cur>>
    BY DEF CopyIntoUserSpace
  <1>3. exit \in BOOLEAN
    BY DEF CompletionInv, TypeOK
  <1>4. ~exit
    <2>. SUFFICES ASSUME exit PROVE FALSE
      OBVIOUS
    <2>1. rpc' \in {"bump", "pop"}
      BY <1>2 DEF NextOfBatch
    <2>2. exit' = exit
      BY <1>1
    <2>. QED  BY <2>1, <2>2 DEF Reading
  <1>5. /\ PopFront(n) /\ left' = left - n
        /\ IF left' = 0 THEN NextOfBatch ELSE UNCHANGED <<rpc, cur>>
    BY <1>2, <1>4
  <1>6. Readable \in Nat /\ Readable <= Used /\ rd + Readable <= Size /\ Readable > 0
    BY <1>1, <1>4, NotEmpty DEF Stream
  <1>7. /\ cur # NoItem /\ Fits(T, cur) /\ cur.id = completed + taken /\ left \in 1 .. cur.pages
        /\ cur.pages \in Nat
    <2>1. cur # NoItem
      BY <1>1 DEF CompletionInv, ReaderInv
    <2>2. cur.pages \in Sizes \cup {0, 1}
      BY DEF CompletionInv, TypeOK, Items
    <2>3. \A y \in Sizes \cup {0, 1} : y \in Nat
      BY CompletionAssumption
    <2>4. cur.pages \in Nat
      BY <2>2, <2>3, Zenon
    <2>. QED  BY <2>1, <2>4 DEF Stream, ReaderInLine
  <1>8. /\ RingInLine(T) /\ PagesInLine(T) /\ Used \in Nat /\ ReadAt(T) \in Int /\ rd \in Nat
        /\ Size \in Nat /\ T[completed + taken + 1] \in Nat
    BY SMTT(30), LineTypes DEF Stream
  <1>9. n \in 1 .. left /\ n <= Used /\ rd + n <= Size /\ n \in Nat
    BY <1>6, <1>7, <1>8
  <1>. HIDE DEF n
  <1>10. ReadAt(T)' = ReadAt(T) + n
    <2>1. ReadAt(T)' = T[completed + taken + 1] - (left - n)
      BY <1>1, <1>5 DEF ReadAt
    <2>. QED  BY <1>7, <1>8, <1>9, <2>1 DEF ReadAt
  <1>11. WriteAt(T)' = WriteAt(T)
    <2>1. Many("process")' = Many("process")
      BY <1>1 DEF Many
    <2>. QED  BY <1>1, <2>1 DEF WriteAt
  <1>12. rpc' \in {"bump", "pop", "copy"}
    BY <1>1, <1>5 DEF NextOfBatch
  <1>13. rpc' \notin {"event", "front"}
    BY <1>12
  <1>14. RingInLine(T)' /\ PagesInLine(T)'
    BY <1>1, <1>5, <1>8, <1>9, <1>10, <1>11, <1>13, TakePages
  <1>15. ReaderInLine(T)'
    <2>1. \A k \in DOMAIN issued : Fits(T, issued[k]) /\ issued[k].id = completed + taken + k
      BY DEF Stream, ReaderInLine
    <2>2. CASE left' = 0
      <3>1. cur' = NoItem
        BY <1>5, <2>2 DEF NextOfBatch
      <3>. QED  BY <1>1, <1>13, <2>1, <2>2, <3>1 DEF ReaderInLine, Fits
    <2>3. CASE left' # 0
      <3>1. cur' = cur
        BY <1>5, <2>3
      <3>2. left' \in 1 .. cur.pages
        BY <1>5, <1>7, <1>9, <2>3
      <3>. QED  BY <1>1, <1>7, <1>13, <2>1, <3>1, <3>2 DEF ReaderInLine, Fits
    <2>. QED  BY <2>2, <2>3
  <1>. QED  BY <1>1, <1>14, <1>15, MoveFrame

\* The page of an event.
LEMMA EventLine ==
  ASSUME CompletionInv, NEW T \in [1 .. MaxId + 1 -> Nat], Stream(T), ReadEvent
  PROVE  Stream(T)'
  <1>1. /\ rpc = "event" /\ PopFront(1) /\ cur' = NoItem /\ left' = 0 /\ rpc' \in {"bump", "pop"}
        /\ UNCHANGED <<todo, issued, nextId, completed, taken, wr, wrT, ring, devQ, dleft>>
    BY DEF ReadEvent, NextOfBatch, host, device
  <1>2. rpc' \notin {"event", "front"}
    BY <1>1
  <1>3. left = 1
    <2>1. cur # NoItem
      BY <1>1 DEF CompletionInv, ReaderInv
    <2>2. cur.event /\ left = cur.pages /\ Fits(T, cur)
      BY <1>1, <2>1 DEF Stream, ReaderInLine
    <2>. QED  BY <2>2 DEF Fits
  <1>4. /\ RingInLine(T) /\ PagesInLine(T) /\ Used \in Nat /\ Used > 0 /\ ReadAt(T) \in Int
        /\ rd \in 0 .. Size - 1 /\ Size \in Nat /\ T[completed + taken + 1] \in Nat
    BY SMTT(30), <1>1, LineTypes DEF Stream, RingInLine
  <1>5. 1 <= Used /\ rd + 1 <= Size /\ 1 \in Nat
    BY <1>4
  <1>6. ReadAt(T)' = ReadAt(T) + 1
    <2>1. ReadAt(T)' = T[completed + taken + 1] - 0
      BY <1>1 DEF ReadAt
    <2>. QED  BY <1>3, <1>4, <2>1 DEF ReadAt
  <1>7. WriteAt(T)' = WriteAt(T)
    <2>1. Many("process")' = Many("process")
      BY <1>1 DEF Many
    <2>. QED  BY <1>1, <2>1 DEF WriteAt
  <1>8. RingInLine(T)' /\ PagesInLine(T)'
    BY <1>1, <1>2, <1>4, <1>5, <1>6, <1>7, TakePages
  <1>9. ReaderInLine(T)'
    BY <1>1, <1>2 DEF Stream, ReaderInLine, Fits
  <1>. QED  BY <1>1, <1>8, <1>9, MoveFrame

\* The steps of the reader's thread.
LEMMA ReaderLine ==
  ASSUME CompletionInv, NEW T \in [1 .. MaxId + 1 -> Nat], Stream(T), ReaderStep, Reading'
  PROVE  Stream(T)'
  BY LookLine, FrontLine, PopDescriptorLine, BumpLine, CopyLine, EventLine DEF ReaderStep

-----------------------------------------------------------------------------
(***************************************************************************)
(* The steps of the device.                                                *)
(***************************************************************************)
\* Quotient and remainder.
LEMMA Remainder ==
  ASSUME NEW a \in Nat, NEW b \in Nat \ {0}
  PROVE  a = b * (a \div b) + (a % b) /\ a % b \in 0 .. b - 1 /\ a \div b \in Nat
  OBVIOUS

\* The remainder of a number below twice the divisor.
LEMMA SmallRemainder ==
  ASSUME NEW a \in Nat, NEW b \in Nat \ {0}, a < b + b
  PROVE  a % b = IF a >= b THEN a - b ELSE a
  <1>. DEFINE q == a \div b
              m == a % b
  <1>1. a = b * q + m /\ m \in 0 .. b - 1 /\ q \in Nat
    BY Remainder
  <1>. HIDE DEF q, m
  <1>2. q = 0 \/ q = 1
    <2>. SUFFICES ASSUME q >= 2 PROVE FALSE
      BY <1>1
    <2>1. PICK x \in Nat : q = x + 2
      <3>1. q - 2 \in Nat /\ q = (q - 2) + 2
        BY <1>1
      <3>. QED  BY <3>1
    <2>2. b * (x + 2) = b * x + (b + b) /\ b * x \in Nat
      BY <2>1
    <2>. QED  BY <1>1, <2>1, <2>2
  <1>3. CASE q = 0
    <2>1. b * q = 0
      BY <1>3
    <2>. QED  BY <1>1, <2>1 DEF m
  <1>4. CASE q = 1
    <2>1. b * q = b
      BY <1>4
    <2>. QED  BY <1>1, <2>1 DEF m
  <1>. QED  BY <1>2, <1>3, <1>4

\* How far the slots of the ring are behind the dispatcher's pointer.
LEMMA SlotBehind ==
  ASSUME CompletionInv, NEW T, RingInLine(T), NEW k \in 0 .. Size - 1
  PROVE  /\ Slot(k) \in 0 .. Size - 1
         /\ (Slot(k) + Size - wr) % Size = IF k < Used THEN k + Size - Used ELSE k - Used
  <1>1. Size \in Nat \ {0} /\ rd \in 0 .. Size - 1 /\ wr \in 0 .. Size - 1
    BY CompletionAssumption DEF CompletionInv, TypeOK
  <1>2. Used \in 0 .. Size
    BY <1>1 DEF RingInLine, Used
  <1>3. Slot(k) \in 0 .. Size - 1
    BY <1>1 DEF Slot
  <1>. DEFINE p == Slot(k)
              a == p + Size - wr
  <1>4. a \in Nat /\ a < Size + Size
    BY <1>1, <1>3
  <1>5. a % Size = IF a >= Size THEN a - Size ELSE a
    BY <1>1, <1>4, SmallRemainder
  <1>6. (IF a >= Size THEN a - Size ELSE a) = IF k < Used THEN k + Size - Used ELSE k - Used
    <2>1. CASE rdT = wrT
      BY <1>1, <2>1 DEF RingInLine, Used, Slot
    <2>2. CASE rdT # wrT
      BY <1>1, <2>2 DEF RingInLine, Used, Slot
    <2>. QED  BY <2>1, <2>2
  <1>. QED  BY <1>3, <1>5, <1>6

\* The commands that the device has, when it is done with the first.
LEMMA NextCommand ==
  ASSUME CompletionInv, NEW T \in [1 .. MaxId + 1 -> Nat], Stream(T), devQ # <<>>
  PROVE  /\ Fits(T, Head(devQ)) /\ Head(devQ).id \in 1 .. nextId - 1 /\ dleft \in 1 .. Head(devQ).pages
         /\ Head(devQ).pages \in Nat /\ Tail(devQ) \in Seq(Items)
         /\ \A k \in DOMAIN Tail(devQ) :
              /\ Fits(T, Tail(devQ)[k]) /\ Tail(devQ)[k].pages \in Nat
              /\ Tail(devQ)[k].id + Len(Tail(devQ)) + Many("process") = nextId + k - 1
         /\ Tail(devQ) = <<>> => Head(devQ).id + 1 = nextId - Many("process")
         /\ Tail(devQ) # <<>> => /\ Head(Tail(devQ)).id = Head(devQ).id + 1
                                 /\ Head(Tail(devQ)) = Tail(devQ)[1] /\ 1 \in DOMAIN Tail(devQ)
  <1>. DEFINE h == Head(devQ)
              t == Tail(devQ)
              m == Many("process")
  <1>1. /\ devQ \in Seq(Items) /\ Len(devQ) \in Nat \ {0} /\ DOMAIN devQ = 1 .. Len(devQ)
        /\ nextId \in Nat /\ MaxId \in Nat /\ m \in Nat
    BY CompletionAssumption, TailFacts, LenProperties, PlacesFinite DEF CompletionInv, TypeOK, Many
  <1>2. /\ h = devQ[1] /\ t \in Seq(Items) /\ Len(t) = Len(devQ) - 1
        /\ \A k \in 1 .. Len(devQ) - 1 : t[k] = devQ[k + 1]
    BY <1>1, TailFacts
  <1>3. DOMAIN t = 1 .. Len(devQ) - 1
    BY <1>2, LenProperties
  <1>4. \A x \in Items : x.pages \in Nat
    <2>1. \A x \in Items : x.pages \in Sizes \cup {0, 1}
      BY DEF Items
    <2>2. \A y \in Sizes \cup {0, 1} : y \in Nat
      BY CompletionAssumption
    <2>. QED  BY <2>1, <2>2, Zenon
  <1>5. \A k \in 1 .. Len(devQ) : /\ Fits(T, devQ[k]) /\ devQ[k].pages \in Nat /\ devQ[k].id \in Nat
                                  /\ devQ[k].id + Len(devQ) + m = nextId + k - 1
    <2>1. \A k \in 1 .. Len(devQ) : devQ[k] \in Items
      BY <1>1, ElementOfSeq
    <2>2. \A k \in 1 .. Len(devQ) : Fits(T, devQ[k]) /\ devQ[k].id + Len(devQ) + m = nextId + k - 1
      BY <1>1 DEF Stream, DeviceInLine
    <2>3. \A k \in 1 .. Len(devQ) : devQ[k].id \in Nat
      BY <1>1, <2>2 DEF Fits
    <2>. QED  BY <1>4, <2>1, <2>2, <2>3
  <1>6. 1 \in 1 .. Len(devQ) /\ h.id + Len(devQ) + m = nextId /\ h.id \in Nat
    <2>1. 1 \in 1 .. Len(devQ)
      BY <1>1
    <2>2. devQ[1].id \in Nat /\ devQ[1].id + Len(devQ) + m = nextId + 1 - 1
      BY <1>5, <2>1
    <2>. HIDE DEF h, m
    <2>. QED  BY <1>1, <1>2, <2>1, <2>2
  <1>7. Fits(T, h) /\ h.pages \in Nat /\ dleft \in 1 .. h.pages /\ h.id >= 1
    <2>1. h = devQ[1] /\ dleft \in 1 .. h.pages
      BY <1>2 DEF Stream, DeviceInLine
    <2>2. Fits(T, h) /\ h.pages \in Nat
      BY <1>5, <1>6, <2>1
    <2>. QED  BY <1>1, <2>1, <2>2 DEF Fits
  <1>. HIDE DEF h, t, m
  <1>8. h.id \in 1 .. nextId - 1
    BY <1>1, <1>6, <1>7
  <1>9. ASSUME NEW k \in DOMAIN t
        PROVE  Fits(T, t[k]) /\ t[k].pages \in Nat /\ t[k].id + Len(t) + m = nextId + k - 1
               /\ t[k].id = h.id + k
    <2>1. k \in Nat /\ k + 1 \in 1 .. Len(devQ) /\ t[k] = devQ[k + 1]
      BY <1>1, <1>2, <1>3
    <2>. DEFINE d == devQ[k + 1]
    <2>2. Fits(T, d) /\ d.pages \in Nat /\ d.id \in Nat /\ d.id + Len(devQ) + m = nextId + (k + 1) - 1
      BY <1>5, <2>1
    <2>. HIDE DEF d
    <2>3. d.id + Len(t) + m = nextId + k - 1 /\ d.id = h.id + k
      <3>. DEFINE l == Len(devQ)
                  e == d.id
                  f == h.id
      <3>1. /\ l \in Nat /\ e \in Nat /\ f \in Nat /\ m \in Nat /\ nextId \in Nat /\ k \in Nat
            /\ e + l + m = nextId + (k + 1) - 1 /\ f + l + m = nextId /\ Len(t) = l - 1
        BY <1>1, <1>2, <1>6, <2>1, <2>2
      <3>. HIDE DEF l, e, f
      <3>2. e + (l - 1) + m = nextId + k - 1 /\ e = f + k
        BY ONLY <3>1
      <3>. QED  BY <3>1, <3>2 DEF e, f
    <2>. QED  BY <2>1, <2>2, <2>3 DEF d
  <1>10. t = <<>> => h.id + 1 = nextId - m
    <2>. SUFFICES ASSUME t = <<>> PROVE h.id + 1 = nextId - m
      OBVIOUS
    <2>1. Len(t) = 0
      BY <1>2, EmptySeq
    <2>2. Len(devQ) = 1 /\ h.id \in Nat /\ m \in Nat /\ nextId \in Nat /\ h.id + Len(devQ) + m = nextId
      <3>. DEFINE l == Len(devQ)
                  n == Len(t)
      <3>1. l \in Nat /\ n = 0 /\ n = l - 1
        BY <1>1, <1>2, <2>1
      <3>. HIDE DEF l, n
      <3>2. l = 1
        BY ONLY <3>1
      <3>. QED  BY <1>1, <1>6, <3>2 DEF l
    <2>. QED  BY ONLY <2>2
  <1>11. t # <<>> => Head(t) = t[1] /\ 1 \in DOMAIN t /\ Head(t).id = h.id + 1
    <2>. SUFFICES ASSUME t # <<>> PROVE Head(t) = t[1] /\ 1 \in DOMAIN t /\ Head(t).id = h.id + 1
      OBVIOUS
    <2>1. Head(t) = t[1] /\ 1 \in DOMAIN t
      BY <1>1, <1>2, <1>3, TailFacts
    <2>. QED  BY <1>9, <2>1
  <1>. QED  BY <1>2, <1>7, <1>8, <1>9, <1>10, <1>11 DEF h, t, m

\* The dispatcher's place in the line after some pages of the first command.
LEMMA WriteMoves ==
  ASSUME CompletionInv, NEW T \in [1 .. MaxId + 1 -> Nat], Stream(T), WriteHost
  PROVE  /\ WriteAt(T)' = WriteAt(T) + chunk /\ DeviceInLine(T)'
         /\ WriteAt(T) = T[Head(devQ).id + 1] - dleft
  <1>. DEFINE h == Head(devQ)
              t == Tail(devQ)
  <1>1. /\ chunk > 0 /\ UNCHANGED <<todo, nextId>>
        /\ IF dleft > chunk
             THEN dleft' = dleft - chunk /\ UNCHANGED devQ
             ELSE /\ devQ' = Tail(devQ)
                  /\ dleft' = IF Tail(devQ) = <<>> THEN 0 ELSE Head(Tail(devQ)).pages
    BY DEF WriteHost, host
  <1>2. Many("process")' = Many("process")
    BY <1>1 DEF Many
  <1>3. devQ # <<>> /\ chunk <= dleft
    BY <1>1 DEF CompletionInv, DeviceInv
  <1>4. /\ chunk \in Nat /\ dleft \in Nat /\ MaxId \in Nat /\ nextId \in 1 .. MaxId + 1
    BY CompletionAssumption DEF CompletionInv, TypeOK
  <1>5. /\ Fits(T, h) /\ h.id \in 1 .. nextId - 1 /\ dleft \in 1 .. h.pages /\ h.pages \in Nat
        /\ \A k \in DOMAIN t :
              /\ Fits(T, t[k]) /\ t[k].pages \in Nat
              /\ t[k].id + Len(t) + Many("process") = nextId + k - 1
        /\ t = <<>> => h.id + 1 = nextId - Many("process")
        /\ t # <<>> => Head(t).id = h.id + 1 /\ Head(t) = t[1] /\ 1 \in DOMAIN t
    BY <1>3, NextCommand
  <1>6. WriteAt(T) = T[h.id + 1] - dleft /\ T[h.id + 1] \in Nat
    <2>1. h.id + 1 \in 1 .. MaxId + 1
      BY <1>4, <1>5
    <2>. QED  BY <1>3, <2>1 DEF WriteAt
  <1>7. CASE dleft > chunk
    <2>1. dleft' = dleft - chunk /\ devQ' = devQ
      BY <1>1, <1>7
    <2>2. WriteAt(T)' = T[h.id + 1] - (dleft - chunk)
      BY <1>3, <2>1 DEF WriteAt
    <2>3. dleft - chunk \in 1 .. h.pages
      BY <1>4, <1>5, <1>7
    <2>4. DeviceInLine(T)'
      BY <1>1, <1>2, <2>1, <2>3 DEF Stream, DeviceInLine, Fits
    <2>5. T[h.id + 1] - (dleft - chunk) = T[h.id + 1] - dleft + chunk
      BY <1>4, <1>6
    <2>. QED  BY <1>6, <2>2, <2>4, <2>5
  <1>8. CASE ~(dleft > chunk)
    <2>1. dleft = chunk
      BY <1>3, <1>4, <1>8
    <2>2. T[h.id + 1] = WriteAt(T) + chunk
      BY <1>4, <1>6, <2>1
    <2>3. devQ' = t /\ dleft' = IF t = <<>> THEN 0 ELSE Head(t).pages
      BY <1>1, <1>8
    <2>4. CASE t = <<>>
      <3>1. WriteAt(T)' = T[nextId - Many("process")]
        BY <1>1, <1>2, <2>3, <2>4 DEF WriteAt
      <3>2. DeviceInLine(T)'
        BY <2>3, <2>4 DEF DeviceInLine
      <3>. QED  BY <1>5, <1>6, <2>2, <2>4, <3>1, <3>2
    <2>5. CASE t # <<>>
      <3>. DEFINE g == Head(t)
      <3>1. dleft' = g.pages /\ WriteAt(T)' = T[g.id + 1] - g.pages
        BY <2>3, <2>5 DEF WriteAt
      <3>2. g.id = h.id + 1 /\ Fits(T, g) /\ g.pages \in Nat
        BY <1>5, <2>5
      <3>3. T[g.id + 1] = T[g.id] + g.pages /\ g.pages > 0
        BY <3>2 DEF Fits
      <3>4. T[g.id + 1] - g.pages = T[h.id + 1]
        <4>. DEFINE x == T[h.id + 1]
                    y == T[g.id + 1]
                    z == g.pages
        <4>1. x \in Nat /\ y = x + z /\ z \in Nat
          BY <1>6, <3>2, <3>3
        <4>. HIDE DEF x, y, z
        <4>2. y - z = x
          BY ONLY <4>1
        <4>. QED  BY <4>2 DEF x, y, z
      <3>5. dleft' \in 1 .. Head(devQ').pages
        <4>1. Head(devQ') = g
          BY <2>3
        <4>2. \A z \in Nat : z > 0 => z \in 1 .. z
          OBVIOUS
        <4>3. g.pages \in 1 .. g.pages
          BY <3>2, <3>3, <4>2, Zenon
        <4>. QED  BY <3>1, <4>1, <4>3
      <3>6. \A k \in DOMAIN devQ' : Fits(T, devQ'[k])
               /\ devQ'[k].id + Len(devQ') + Many("process")' = nextId' + k - 1
        BY <1>1, <1>2, <1>5, <2>3
      <3>7. DeviceInLine(T)'
        BY <3>5, <3>6 DEF DeviceInLine, Fits
      <3>. QED  BY <1>6, <2>2, <3>1, <3>4, <3>7
    <2>. QED  BY <2>4, <2>5
  <1>. QED  BY <1>7, <1>8

\* The pages of one command are a part of the line of their own.
LEMMA OneCommand ==
  ASSUME CompletionInv, NEW T \in [1 .. MaxId + 1 -> Nat], Rising(T), NEW x \in Int,
         NEW i \in 1 .. nextId - 1, T[i] <= x, x < T[i + 1],
         NEW j \in 1 .. nextId - 1, T[j] <= x, x < T[j + 1]
  PROVE  i = j
  <1>1. MaxId \in Nat /\ nextId \in 1 .. MaxId + 1
    BY CompletionAssumption DEF CompletionInv, TypeOK
  <1>2. i \in 1 .. nextId /\ j \in 1 .. nextId /\ i + 1 \in 1 .. nextId /\ j + 1 \in 1 .. nextId
    BY <1>1
  <1>3. T[i] \in Nat /\ T[j] \in Nat /\ T[i + 1] \in Nat /\ T[j + 1] \in Nat
    BY <1>1, <1>2
  <1>4. ~(i + 1 <= j)
    BY <1>2, <1>3 DEF Rising
  <1>5. ~(j + 1 <= i)
    BY <1>2, <1>3 DEF Rising
  <1>. QED  BY <1>1, <1>4, <1>5

\* Pages are written behind those that are there, and are the next in line.
LEMMA WriteLine ==
  ASSUME CompletionInv, NEW T \in [1 .. MaxId + 1 -> Nat], Stream(T), WriteHost
  PROVE  Stream(T)'
  <1>. DEFINE h == Head(devQ)
              r == ReadAt(T)
              u == Used
  <1>1. /\ chunk > 0 /\ chunk <= Space
        /\ UNCHANGED <<todo, nextId, issued, rpc, completed, taken, cur, left, rd, rdT>>
    BY DEF WriteHost, host, reader
  <1>2. ring' = [p \in 0 .. Size - 1 |->
                  LET i == (p + Size - wr) % Size
                  IN  IF i < chunk THEN [id |-> h.id, left |-> dleft - i] ELSE ring[p]]
    BY DEF WriteHost
  <1>3. IF wr + chunk >= Size THEN wr' = wr + chunk - Size /\ wrT' = 1 - wrT
                              ELSE wr' = wr + chunk /\ UNCHANGED wrT
    BY DEF WriteHost
  <1>4. /\ Size \in Nat \ {0} /\ rd \in 0 .. Size - 1 /\ wr \in 0 .. Size - 1 /\ rdT \in {0, 1}
        /\ wrT \in {0, 1} /\ chunk \in 0 .. Size /\ dleft \in Nat /\ MaxId \in Nat
        /\ nextId \in 1 .. MaxId + 1
    BY CompletionAssumption DEF CompletionInv, TypeOK
  <1>5. RingInLine(T) /\ PagesInLine(T) /\ Rising(T)
    BY DEF Stream
  <1>6. r \in Int /\ u \in 0 .. Size /\ WriteAt(T) = r + u
    BY <1>5, LineTypes
  <1>7. Space = Size - u
    BY <1>4, <1>5 DEF Space, Used, RingInLine
  <1>8. Used' = u + chunk /\ (IF rdT' = wrT' THEN rd' <= wr' ELSE wr' <= rd')
    <2>1. CASE rdT = wrT
      <3>1. Space = Size - (wr - rd) /\ u = wr - rd
        BY <2>1 DEF Space, Used
      <3>2. CASE wr + chunk >= Size
        <4>1. wr' = wr + chunk - Size /\ wrT' = 1 - wrT /\ rd' = rd /\ rdT' = rdT
          BY <1>1, <1>3, <3>2
        <4>2. rdT' # wrT' /\ wr' <= rd'
          BY <1>1, <1>4, <2>1, <3>1, <3>2, <4>1
        <4>3. Used' = Size - (rd - (wr + chunk - Size))
          BY <4>1, <4>2 DEF Used
        <4>. QED  BY <1>4, <3>1, <4>2, <4>3
      <3>3. CASE ~(wr + chunk >= Size)
        <4>1. wr' = wr + chunk /\ wrT' = wrT /\ rd' = rd /\ rdT' = rdT
          BY <1>1, <1>3, <3>3
        <4>2. Used' = wr + chunk - rd
          <5>1. Used' = wr' - rd'
            BY <2>1, <4>1 DEF Used
          <5>. QED  BY ONLY <1>4, <4>1, <5>1
        <4>. QED  BY <1>4, <1>5, <2>1, <3>1, <4>1, <4>2 DEF RingInLine
      <3>. QED  BY <3>2, <3>3
    <2>2. CASE rdT # wrT
      <3>1. Space = rd - wr /\ u = Size - (rd - wr)
        BY <2>2 DEF Space, Used
      <3>2. wr + chunk < Size
        BY <1>1, <1>4, <3>1
      <3>3. wr' = wr + chunk /\ wrT' = wrT /\ rd' = rd /\ rdT' = rdT
        BY <1>1, <1>3, <1>4, <3>2
      <3>4. Used' = Size - (rd - (wr + chunk))
        BY <2>2, <3>3 DEF Used
      <3>. QED  BY <1>1, <1>4, <2>2, <3>1, <3>3, <3>4
    <2>. QED  BY <2>1, <2>2
  <1>9. /\ WriteAt(T)' = WriteAt(T) + chunk /\ DeviceInLine(T)' /\ WriteAt(T) = T[h.id + 1] - dleft
    BY WriteMoves
  <1>10. ReadAt(T)' = r
    BY <1>1 DEF ReadAt
  <1>11. RingInLine(T)'
    <2>. HIDE DEF r, u
    <2>1. WriteAt(T)' = ReadAt(T)' + Used'
      BY <1>4, <1>6, <1>8, <1>9, <1>10
    <2>2. rpc' = "event" => Used' > 0
      BY <1>1, <1>4, <1>6, <1>8
    <2>. QED  BY <1>8, <2>1, <2>2 DEF RingInLine
  <1>12. StepsInLine(T)' /\ Rising(T)' /\ ReaderInLine(T)'
    BY <1>1, HostStays, ReaderFrame DEF Stream, Rising
  <1>13. /\ devQ # <<>> /\ chunk <= dleft
    BY <1>1 DEF CompletionInv, DeviceInv
  <1>14. /\ Fits(T, h) /\ h.id \in 1 .. nextId - 1 /\ dleft \in 1 .. h.pages /\ h.pages \in Nat
    BY <1>13, NextCommand
  <1>15. PagesInLine(T)'
    <2>. SUFFICES ASSUME NEW k \in 0 .. (u + chunk) - 1, NEW id \in 1 .. nextId - 1,
                         T[id] <= r + k, r + k < T[id + 1]
                  PROVE  ring'[Slot(k)] = [id |-> id, left |-> T[id + 1] - (r + k)]
      BY <1>1, <1>8, <1>10 DEF PagesInLine, Slot
    <2>1. k \in 0 .. Size - 1 /\ k \in Nat
      BY <1>1, <1>4, <1>6, <1>7
    <2>. DEFINE p == Slot(k)
                i == (p + Size - wr) % Size
    <2>2. p \in 0 .. Size - 1 /\ i = IF k < u THEN k + Size - u ELSE k - u
      BY <1>5, <2>1, SlotBehind
    <2>3. ring'[p] = IF i < chunk THEN [id |-> h.id, left |-> dleft - i] ELSE ring[p]
      BY <1>2, <2>2
    <2>. HIDE DEF p, i, r, u, h
    <2>4. CASE k < u
      <3>1. ~(i < chunk) /\ k \in 0 .. u - 1
        BY <1>1, <1>4, <1>6, <1>7, <2>1, <2>2, <2>4
      <3>2. ring[p] = [id |-> id, left |-> T[id + 1] - (r + k)]
        BY <1>5, <3>1 DEF PagesInLine, p, r, u
      <3>. QED  BY <2>3, <3>1, <3>2 DEF p
    <2>5. CASE ~(k < u)
      <3>1. i = k - u /\ i \in Nat /\ i < chunk
        BY <1>4, <1>6, <2>1, <2>2, <2>5
      <3>. DEFINE x == r + k
                  e == T[h.id + 1]
                  b == T[h.id]
      <3>2. b \in Nat /\ e \in Nat /\ e = b + h.pages
        <4>1. h.id \in 1 .. MaxId + 1 /\ h.id + 1 \in 1 .. MaxId + 1
          BY SMTT(30), <1>4, <1>14
        <4>. QED  BY <1>14, <4>1 DEF Fits
      <3>3. x \in Int /\ x = e - dleft + i
        <4>. HIDE DEF e
        <4>. QED  BY <1>4, <1>6, <1>9, <2>1, <3>1, <3>2 DEF e
      <3>4. b <= x /\ x < e
        <4>. DEFINE g == h.pages
        <4>1. /\ b \in Nat /\ e \in Nat /\ g \in Nat /\ e = b + g /\ x \in Int /\ x = e - dleft + i
              /\ i \in Nat /\ i < chunk /\ chunk \in Nat /\ dleft \in Nat /\ chunk <= dleft /\ dleft <= g
          BY <1>4, <1>13, <1>14, <3>1, <3>2, <3>3
        <4>. HIDE DEF x, e, b, g
        <4>. QED  BY ONLY <4>1
      <3>5. id = h.id
        BY <1>5, <1>14, <3>3, <3>4, OneCommand
      <3>6. dleft - i = e - x
        <4>1. e \in Nat /\ x \in Int /\ x = e - dleft + i /\ i \in Nat /\ dleft \in Nat
          BY <1>4, <3>1, <3>2, <3>3
        <4>. HIDE DEF x, e, b
        <4>. QED  BY ONLY <4>1
      <3>7. ring'[p] = [id |-> h.id, left |-> dleft - i]
        BY <2>3, <3>1
      <3>. QED  BY <3>5, <3>6, <3>7 DEF p
    <2>. QED  BY <2>4, <2>5
  <1>. QED  BY <1>9, <1>11, <1>12, <1>15 DEF Stream

\* The steps of the device, and a hang.
LEMMA DeviceLine ==
  ASSUME CompletionInv, NEW T \in [1 .. MaxId + 1 -> Nat], Stream(T), DeviceStep \/ Hang
  PROVE  Stream(T)'
  <1>1. CASE WriteHost
    BY <1>1, WriteLine
  <1>2. CASE TakeChunk \/ Hang
    <2>1. UNCHANGED <<todo, issued, rpc, cur, nextId, completed, taken, left, rd, rdT, wr, wrT,
                      ring, devQ, dleft>>
      BY <1>2 DEF TakeChunk, Hang, host, reader, device
    <2>2. StepsInLine(T)' /\ ReaderInLine(T)' /\ Many("process")' = Many("process")
      BY <2>1, HostStays, ReaderFrame DEF Stream
    <2>. QED  BY <2>1, <2>2, LineFrame
  <1>. QED  BY <1>1, <1>2 DEF DeviceStep

-----------------------------------------------------------------------------
(***************************************************************************)
(* The calls.                                                              *)
(***************************************************************************)
\* The commands of a list are the next ones in the line.
LineList(s, first, ids, start) ==
  \A op \in {"push", "process"} :
    /\ Cardinality(Places(s, op)) = ids
    /\ \A i \in Places(s, op) :
         /\ Fits(start, s[i].item)
         /\ \A j \in Places(s, op) : i < j => s[j].item.id = s[i].item.id + 1
         /\ (\A j \in Places(s, op) : i <= j) => s[i].item.id = first

\* A list with one command.
LEMMA OneInLine ==
  ASSUME NEW s, NEW p, NEW q, NEW x, NEW U, p \in Nat, q \in Nat,
         Places(s, "push") = {p}, Places(s, "process") = {q}, s[p].item = x, s[q].item = x, Fits(U, x)
  PROVE  LineList(s, x.id, 1, U)
  <1>. SUFFICES ASSUME NEW op \in {"push", "process"}
                PROVE  /\ Cardinality(Places(s, op)) = 1
                       /\ \A i \in Places(s, op) :
                            /\ Fits(U, s[i].item)
                            /\ \A j \in Places(s, op) : i < j => s[j].item.id = s[i].item.id + 1
                            /\ (\A j \in Places(s, op) : i <= j) => s[i].item.id = x.id
    BY DEF LineList
  <1>1. PICK y \in Nat : Places(s, op) = {y} /\ s[y].item = x
    OBVIOUS
  <1>2. Cardinality({y}) = 1
    BY FS_Singleton
  <1>. QED  BY <1>1, <1>2

\* A list with two.
LEMMA TwoInLine ==
  ASSUME NEW s, NEW U, NEW first, NEW x, NEW z,
         x.id = first, z.id = first + 1, Fits(U, x), Fits(U, z),
         \A op \in {"push", "process"} : \E p, q \in Nat :
           p < q /\ Places(s, op) = {p, q} /\ s[p].item = x /\ s[q].item = z
  PROVE  LineList(s, first, 2, U)
  <1>. SUFFICES ASSUME NEW op \in {"push", "process"}
                PROVE  /\ Cardinality(Places(s, op)) = 2
                       /\ \A i \in Places(s, op) :
                            /\ Fits(U, s[i].item)
                            /\ \A j \in Places(s, op) : i < j => s[j].item.id = s[i].item.id + 1
                            /\ (\A j \in Places(s, op) : i <= j) => s[i].item.id = first
    BY DEF LineList
  <1>1. PICK p, q \in Nat : p < q /\ Places(s, op) = {p, q} /\ s[p].item = x /\ s[q].item = z
    OBVIOUS
  <1>2. p # q
    BY <1>1
  <1>3. Cardinality({p, q}) = 2
    BY <1>2, SmallSets
  <1>4. ASSUME NEW i \in {p, q}
        PROVE  /\ Fits(U, s[i].item)
               /\ \A j \in {p, q} : i < j => s[j].item.id = s[i].item.id + 1
               /\ (\A j \in {p, q} : i <= j) => s[i].item.id = first
    BY <1>1, <1>4
  <1>. QED  BY <1>1, <1>3, <1>4

\* The calls with one event.
LEMMA RecordInLine ==
  ASSUME NEW id \in 1 .. MaxId, NEW U, U[id + 1] = U[id] + 1
  PROVE  /\ LineList(RecordEvent(id), id, 1, U)
         /\ LineList(Finish(id), id, 1, U)
         /\ LineList(RecordEvent(id) \o <<Step("sync", Event(id))>>, id, 1, U)
         /\ LineList(Finish(id) \o <<Plain("destroy"), Plain("join")>>, id, 1, U)
  <1>. DEFINE E == <<Step("process", Event(id)), Step("push", Event(id))>>
              D == <<Plain("destroy"), Plain("join")>>
              s == RecordEvent(id)
              t == Finish(id)
              u == RecordEvent(id) \o <<Step("sync", Event(id))>>
              v == Finish(id) \o D
  <1>1. /\ E \in Seq(Steps) /\ Increment \in Seq(Steps) /\ <<Plain("wait")>> \in Seq(Steps)
        /\ <<Step("sync", Event(id))>> \in Seq(Steps) /\ D \in Seq(Steps)
    BY OpTypes DEF Increment
  <1>2. s \in Seq(Steps)
    BY <1>1, ConcatProperties DEF RecordEvent
  <1>3. t \in Seq(Steps) /\ u \in Seq(Steps)
    BY <1>1, <1>2, ConcatProperties DEF Finish
  <1>4. v \in Seq(Steps)
    BY <1>1, <1>3, ConcatProperties
  <1>5. /\ Len(s) = 4 /\ s[1] = Step("process", Event(id)) /\ s[2] = Step("push", Event(id))
        /\ s[3] = Plain("count") /\ s[4] = Plain("notify")
    BY DEF RecordEvent, Increment
  <1>6. /\ Len(t) = 5 /\ t[1] = Step("process", Event(id)) /\ t[2] = Step("push", Event(id))
        /\ t[3] = Plain("count") /\ t[4] = Plain("notify") /\ t[5] = Plain("wait")
    BY DEF Finish, RecordEvent, Increment
  <1>7. /\ Len(u) = 5 /\ u[1] = Step("process", Event(id)) /\ u[2] = Step("push", Event(id))
        /\ u[3] = Plain("count") /\ u[4] = Plain("notify") /\ u[5] = Step("sync", Event(id))
    BY DEF RecordEvent, Increment
  <1>8. /\ Len(v) = 7 /\ v[1] = Step("process", Event(id)) /\ v[2] = Step("push", Event(id))
        /\ v[3] = Plain("count") /\ v[4] = Plain("notify") /\ v[5] = Plain("wait")
        /\ v[6] = Plain("destroy") /\ v[7] = Plain("join")
    BY DEF Finish, RecordEvent, Increment
  <1>. HIDE DEF s, t, u, v
  <1>9. /\ Places(s, "push") = {2} /\ Places(s, "process") = {1}
        /\ Places(t, "push") = {2} /\ Places(t, "process") = {1}
    BY <1>2, <1>3, <1>5, <1>6 DEF Places, Step, Plain
  <1>10. /\ Places(u, "push") = {2} /\ Places(u, "process") = {1}
         /\ Places(v, "push") = {2} /\ Places(v, "process") = {1}
    BY <1>3, <1>4, <1>7, <1>8 DEF Places, Step, Plain
  <1>. DEFINE x == Event(id)
  <1>11. /\ s[1].item = x /\ s[2].item = x /\ t[1].item = x /\ t[2].item = x
         /\ u[1].item = x /\ u[2].item = x /\ v[1].item = x /\ v[2].item = x
    BY <1>5, <1>6, <1>7, <1>8 DEF Step
  <1>12. x.id = id /\ Fits(U, x)
    BY DEF Event, Fits
  <1>. HIDE DEF x
  <1>13. LineList(s, x.id, 1, U) /\ LineList(t, x.id, 1, U)
    BY <1>9, <1>11, <1>12, OneInLine
  <1>14. LineList(u, x.id, 1, U) /\ LineList(v, x.id, 1, U)
    BY <1>10, <1>11, <1>12, OneInLine
  <1>. QED  BY <1>12, <1>13, <1>14 DEF s, t, u, v

\* Reading a buffer without waiting for it.
LEMMA ReadInLine ==
  ASSUME NEW id \in 1 .. MaxId, NEW n \in Sizes, NEW U, U[id + 1] = U[id] + n
  PROVE  /\ LineList(ReadInterleaved(id, n, FALSE), id, 1, U)
         /\ LineList(ReadSharded(id, n, FALSE), id, 1, U)
  <1>. DEFINE E == <<Step("push", Buffer(id, n)), Step("process", Buffer(id, n))>>
              s == ReadInterleaved(id, n, FALSE)
              t == ReadSharded(id, n, FALSE)
              x == Buffer(id, n)
  <1>1. E \in Seq(Steps) /\ Increment \in Seq(Steps)
    BY OpTypes DEF Increment
  <1>2. E \o Increment \in Seq(Steps)
    BY <1>1, ConcatProperties
  <1>3. s = E \o Increment /\ t = E \o Increment
    <2>1. E \o <<>> = E /\ (E \o Increment) \o <<>> = E \o Increment
      BY <1>1, <1>2, ConcatEmptySeq
    <2>. QED  BY <2>1 DEF ReadInterleaved, ReadSharded
  <1>4. /\ Len(s) = 4 /\ s[1] = Step("push", Buffer(id, n))
        /\ s[2] = Step("process", Buffer(id, n))
        /\ s[3] = Plain("count") /\ s[4] = Plain("notify")
    <2>. HIDE DEF s
    <2>. QED  BY <1>3 DEF Increment
  <1>5. s \in Seq(Steps) /\ t = s
    BY <1>2, <1>3
  <1>. HIDE DEF s, t
  <1>6. Places(s, "push") = {1} /\ Places(s, "process") = {2}
    BY <1>4, <1>5 DEF Places, Step, Plain
  <1>7. s[1].item = x /\ s[2].item = x
    BY <1>4 DEF Step
  <1>8. x.id = id /\ Fits(U, x)
    <2>1. n \in Nat \ {0}
      BY CompletionAssumption
    <2>2. n > 0
      BY <2>1
    <2>. QED  BY <2>2 DEF Buffer, Fits
  <1>. HIDE DEF x
  <1>9. LineList(s, x.id, 1, U)
    BY <1>6, <1>7, <1>8, OneInLine
  <1>. QED  BY <1>5, <1>8, <1>9 DEF s, t

\* Reading a buffer and waiting for it.
LEMMA BlockingReadInLine ==
  ASSUME NEW id \in 1 .. MaxId, id + 1 \in 1 .. MaxId, NEW n \in Sizes, NEW U,
         U[id + 1] = U[id] + n, U[id + 2] = U[id + 1] + 1
  PROVE  /\ LineList(ReadInterleaved(id, n, TRUE), id, 2, U)
         /\ LineList(ReadSharded(id, n, TRUE), id, 2, U)
  <1>. DEFINE E == <<Step("push", Buffer(id, n)), Step("process", Buffer(id, n))>>
              s == ReadInterleaved(id, n, TRUE)
              t == ReadSharded(id, n, TRUE)
              x == Buffer(id, n)
              z == Event(id + 1)
  <1>1. /\ E \in Seq(Steps) /\ Increment \in Seq(Steps) /\ Finish(id + 1) \in Seq(Steps)
    <2>1. Finish(id + 1) \in Seq(Steps)
      BY RecordGood DEF GoodList
    <2>. QED  BY <2>1, OpTypes DEF Increment
  <1>2. s \in Seq(Steps) /\ t \in Seq(Steps)
    BY <1>1, ConcatProperties DEF ReadInterleaved, ReadSharded
  <1>3. /\ Len(s) = 9 /\ s[1] = Step("push", Buffer(id, n))
        /\ s[2] = Step("process", Buffer(id, n)) /\ s[3] = Step("process", Event(id + 1))
        /\ s[4] = Step("push", Event(id + 1)) /\ s[5] = Plain("count") /\ s[6] = Plain("notify")
        /\ s[7] = Plain("wait") /\ s[8] = Plain("count") /\ s[9] = Plain("notify")
    BY DEF ReadInterleaved, Finish, RecordEvent, Increment
  <1>4. /\ Len(t) = 9 /\ t[1] = Step("push", Buffer(id, n))
        /\ t[2] = Step("process", Buffer(id, n)) /\ t[3] = Plain("count")
        /\ t[4] = Plain("notify") /\ t[5] = Step("process", Event(id + 1))
        /\ t[6] = Step("push", Event(id + 1)) /\ t[7] = Plain("count") /\ t[8] = Plain("notify")
        /\ t[9] = Plain("wait")
    BY DEF ReadSharded, Finish, RecordEvent, Increment
  <1>. HIDE DEF s, t
  <1>5. /\ Places(s, "push") = {1, 4} /\ Places(s, "process") = {2, 3}
        /\ Places(t, "push") = {1, 6} /\ Places(t, "process") = {2, 5}
    BY <1>2, <1>3, <1>4 DEF Places, Step, Plain
  <1>6. /\ s[1].item = x /\ s[2].item = x /\ s[3].item = z /\ s[4].item = z
        /\ t[1].item = x /\ t[2].item = x /\ t[5].item = z /\ t[6].item = z
    BY <1>3, <1>4 DEF Step
  <1>7. x.id = id /\ Fits(U, x)
    <2>1. n \in Nat \ {0}
      BY CompletionAssumption
    <2>2. n > 0
      BY <2>1
    <2>. QED  BY <2>2 DEF Buffer, Fits
  <1>8. z.id = id + 1 /\ Fits(U, z)
    <2>1. (id + 1) + 1 = id + 2
      BY CompletionAssumption
    <2>. QED  BY <2>1 DEF Event, Fits
  <1>. HIDE DEF x, z
  <1>9. \A op \in {"push", "process"} : \E p, q \in Nat :
          p < q /\ Places(s, op) = {p, q} /\ s[p].item = x /\ s[q].item = z
    BY <1>5, <1>6
  <1>10. \A op \in {"push", "process"} : \E p, q \in Nat :
          p < q /\ Places(t, op) = {p, q} /\ t[p].item = x /\ t[q].item = z
    BY <1>5, <1>6
  <1>. QED  BY <1>7, <1>8, <1>9, <1>10, TwoInLine DEF s, t

\* The line goes on with the pages of one or two more commands.
LEMMA LongerLine ==
  ASSUME MaxId \in Nat, NEW T \in [1 .. MaxId + 1 -> Nat], NEW f \in 1 .. MaxId + 1,
         \A i, j \in 1 .. f : i <= j => T[i] <= T[j], NEW a \in Nat, NEW b \in Nat
  PROVE  \E U \in [1 .. MaxId + 1 -> Nat] :
           /\ \A i \in 1 .. f : U[i] = T[i]
           /\ \A i, j \in 1 .. MaxId + 1 : i <= j => U[i] <= U[j]
           /\ f + 1 <= MaxId + 1 => U[f + 1] = U[f] + a
           /\ f + 2 <= MaxId + 1 => U[f + 2] = U[f + 1] + b
  <1>. DEFINE U == [i \in 1 .. MaxId + 1 |-> IF i <= f THEN T[i]
                                             ELSE IF i = f + 1 THEN T[f] + a ELSE T[f] + a + b]
  <1>1. \A i \in 1 .. MaxId + 1 : T[i] \in Nat
    OBVIOUS
  <1>2. U \in [1 .. MaxId + 1 -> Nat]
    BY <1>1
  <1>3. \A i \in 1 .. f : U[i] = T[i]
    OBVIOUS
  <1>4. f + 1 <= MaxId + 1 => U[f + 1] = T[f] + a
    OBVIOUS
  <1>5. f + 2 <= MaxId + 1 => U[f + 2] = T[f] + a + b
    OBVIOUS
  <1>6. U[f] = T[f]
    BY <1>3
  <1>7. ASSUME NEW i \in 1 .. MaxId + 1, NEW j \in 1 .. MaxId + 1, i <= j PROVE U[i] <= U[j]
    <2>1. CASE j <= f
      BY <1>3, <1>7, <2>1
    <2>2. CASE j > f /\ i <= f
      <3>1. T[i] <= T[f] /\ U[i] = T[i]
        BY <1>3, <2>2
      <3>2. U[j] >= T[f]
        BY <1>1, <2>2
      <3>. QED  BY <1>1, <1>2, <3>1, <3>2
    <2>3. CASE i > f
      BY <1>1, <1>7, <2>3
    <2>. QED  BY <2>1, <2>2, <2>3
  <1>. HIDE DEF U
  <1>8. f + 1 <= MaxId + 1 => U[f + 1] = U[f] + a
    BY <1>4, <1>6
  <1>9. f + 2 <= MaxId + 1 => U[f + 2] = U[f + 1] + b
    BY <1>4, <1>5
  <1>. WITNESS U \in [1 .. MaxId + 1 -> Nat]
  <1>. QED  BY <1>3, <1>7, <1>8, <1>9

\* A call begins: the line goes on.
LEMMA CallLine ==
  ASSUME CompletionInv, NEW T \in [1 .. MaxId + 1 -> Nat], Stream(T),
         NEW U \in [1 .. MaxId + 1 -> Nat], \A i \in 1 .. nextId : U[i] = T[i],
         \A i, j \in 1 .. MaxId + 1 : i <= j => U[i] <= U[j],
         NEW s, NEW ids \in 0 .. 2, Call(s, ids), LineList(s, nextId, ids, U)
  PROVE  Stream(U)'
  <1>1. /\ todo = <<>> /\ todo' = s /\ nextId' = nextId + ids /\ nextId + ids <= MaxId + 1
        /\ UNCHANGED <<completed, issued, rpc, taken, cur, left, rd, rdT, wr, wrT, ring, devQ, dleft>>
    BY DEF Call, reader, device
  <1>2. MaxId \in Nat /\ nextId \in 1 .. MaxId + 1 /\ nextId + ids \in 1 .. MaxId + 1
    BY <1>1, CompletionAssumption DEF CompletionInv, TypeOK
  <1>3. Many("process") = 0 /\ Many("process")' = ids /\ Many("push")' = ids
    <2>1. Many("process") = 0
      BY <1>1, NoPlaces DEF Many
    <2>2. \A op \in {"push", "process"} : Cardinality(Places(s, op)) = ids
      BY DEF LineList
    <2>. QED  BY <1>1, <2>1, <2>2 DEF Many
  <1>4. ASSUME NEW x, Fits(T, x), x.id < nextId PROVE Fits(U, x)
    <2>1. x.id \in 1 .. nextId /\ x.id + 1 \in 1 .. nextId
      BY SMTT(30), <1>2, <1>4 DEF Fits
    <2>2. U[x.id] = T[x.id] /\ U[x.id + 1] = T[x.id + 1]
      BY <2>1
    <2>. QED  BY <1>4, <2>2 DEF Fits
  <1>5. StepsInLine(U)'
    <2>. SUFFICES ASSUME NEW op \in {"push", "process"}, NEW i \in Places(s, op)
                  PROVE  /\ Fits(U, s[i].item)
                         /\ \A j \in Places(s, op) : i < j => s[j].item.id = s[i].item.id + 1
                         /\ (\A j \in Places(s, op) : i <= j) =>
                              s[i].item.id + Many(op)' = nextId'
      BY <1>1 DEF StepsInLine, Fits
    <2>1. /\ Fits(U, s[i].item)
          /\ \A j \in Places(s, op) : i < j => s[j].item.id = s[i].item.id + 1
          /\ (\A j \in Places(s, op) : i <= j) => s[i].item.id = nextId
      BY DEF LineList
    <2>2. Many(op)' = ids
      BY <1>3
    <2>. QED  BY <1>1, <2>1, <2>2
  <1>6. ReaderInLine(U)'
    <2>1. \A k \in DOMAIN issued : Fits(T, issued[k]) /\ issued[k].id = completed + taken + k
                                   /\ issued[k].id < nextId
      BY DEF Stream, ReaderInLine, CompletionInv, OrderInv
    <2>2. \A k \in DOMAIN issued : Fits(U, issued[k])
      BY <1>4, <2>1
    <2>3. cur # NoItem => Fits(U, cur)
      BY <1>4 DEF Stream, ReaderInLine, CompletionInv, OrderInv
    <2>. QED  BY <1>1, <2>1, <2>2, <2>3 DEF Stream, ReaderInLine, Fits
  <1>7. DeviceInLine(U)' /\ \A k \in DOMAIN devQ : devQ[k].id < nextId
    <2>. SUFFICES ASSUME NEW k \in DOMAIN devQ
                  PROVE  /\ Fits(U, devQ[k]) /\ devQ[k].id < nextId
                         /\ devQ[k].id + Len(devQ) + ids = (nextId + ids) + k - 1
      BY <1>1, <1>3 DEF Stream, DeviceInLine, Fits
    <2>1. devQ \in Seq(Items) /\ Len(devQ) \in Nat /\ k \in 1 .. Len(devQ)
      BY LenProperties DEF CompletionInv, TypeOK
    <2>. DEFINE d == devQ[k].id
                l == Len(devQ)
    <2>2. Fits(T, devQ[k]) /\ d + l + 0 = nextId + k - 1
      BY <1>3 DEF Stream, DeviceInLine
    <2>3. d \in Nat /\ l \in Nat /\ k \in 1 .. l /\ nextId \in Nat /\ ids \in Nat
      <3>1. devQ[k].id \in 1 .. MaxId
        BY <2>2 DEF Fits
      <3>2. d \in Nat
        BY <3>1
      <3>3. nextId \in Nat /\ ids \in Nat
        BY <1>2
      <3>. QED  BY <2>1, <3>2, <3>3
    <2>. HIDE DEF d, l
    <2>4. d < nextId /\ d + l + ids = (nextId + ids) + k - 1
      BY ONLY <2>2, <2>3
    <2>. QED  BY <1>4, <2>2, <2>4 DEF d, l
  <1>8. RingInLine(T) /\ PagesInLine(T) /\ Rising(T)
    BY DEF Stream
  <1>9. /\ completed + taken + 1 \in 1 .. nextId /\ ReadAt(T) \in Int /\ Used \in Nat
        /\ WriteAt(T) = ReadAt(T) + Used
    BY <1>8, LineTypes
  <1>10. ReadAt(U)' = ReadAt(T) /\ Used' = Used
    <2>1. ReadAt(U)' = U[completed + taken + 1] - left
      BY <1>1 DEF ReadAt
    <2>. QED  BY <1>1, <1>9, <2>1 DEF ReadAt, Used
  <1>11. WriteAt(U)' = WriteAt(T) /\ WriteAt(T) <= T[nextId]
    <2>1. CASE devQ = <<>>
      <3>1. WriteAt(T) = T[nextId - 0]
        BY <1>3, <2>1 DEF WriteAt
      <3>2. WriteAt(U)' = U[(nextId + ids) - ids]
        BY <1>1, <1>3, <2>1 DEF WriteAt
      <3>3. nextId - 0 = nextId /\ (nextId + ids) - ids = nextId /\ nextId \in 1 .. nextId
        BY <1>2
      <3>4. T[nextId] \in Nat /\ U[nextId] = T[nextId]
        BY <1>2, <3>3
      <3>. QED  BY <3>1, <3>2, <3>3, <3>4
    <2>2. CASE devQ # <<>>
      <3>1. Head(devQ).id \in 1 .. nextId - 1
        BY <2>2, NextCommand
      <3>. DEFINE h == Head(devQ).id
      <3>2. h + 1 \in 1 .. nextId /\ nextId \in 1 .. nextId /\ h + 1 <= nextId
        BY <1>2, <3>1
      <3>3. WriteAt(T) = T[h + 1] - dleft /\ WriteAt(U)' = U[h + 1] - dleft
        BY <1>1, <2>2 DEF WriteAt
      <3>4. U[h + 1] = T[h + 1] /\ T[h + 1] <= T[nextId] /\ T[h + 1] \in Nat /\ T[nextId] \in Nat
            /\ dleft \in Nat
        BY SMTT(30), <1>2, <1>8, <3>2 DEF Rising, CompletionInv, TypeOK
      <3>. QED  BY <3>3, <3>4
    <2>. QED  BY <2>1, <2>2
  <1>12. RingInLine(U)'
    <2>1. WriteAt(U)' = ReadAt(U)' + Used'
      BY <1>9, <1>10, <1>11
    <2>. QED  BY <1>1, <1>8, <1>10, <2>1 DEF RingInLine
  <1>13. PagesInLine(U)'
    <2>. DEFINE r == ReadAt(T)
    <2>. SUFFICES ASSUME NEW k \in 0 .. Used' - 1, NEW id \in 1 .. nextId' - 1,
                         U[id] <= ReadAt(U)' + k, ReadAt(U)' + k < U[id + 1]
                  PROVE  ring'[Slot(k)'] = [id |-> id, left |-> U[id + 1] - (ReadAt(U)' + k)]
      BY DEF PagesInLine
    <2>0. /\ k \in 0 .. Used - 1 /\ id \in 1 .. nextId + ids - 1
          /\ U[id] <= r + k /\ r + k < U[id + 1]
          /\ ring' = ring /\ Slot(k)' = Slot(k) /\ ReadAt(U)' = r
      <3>1. Used' = Used /\ nextId' = nextId + ids /\ ring' = ring /\ ReadAt(U)' = r
        BY <1>1, <1>10
      <3>2. Slot(k)' = Slot(k)
        BY <1>1 DEF Slot
      <3>. HIDE DEF r
      <3>3. k \in 0 .. Used - 1
        BY <3>1
      <3>4. id \in 1 .. nextId + ids - 1
        <4>1. nextId \in Nat /\ ids \in Nat /\ nextId' = nextId + ids
          BY <1>1, <1>2
        <4>. QED  BY <4>1
      <3>5. U[id] <= r + k /\ r + k < U[id + 1]
        BY <3>1
      <3>. QED  BY <3>1, <3>2, <3>3, <3>4, <3>5
    <2>1. CASE id \in 1 .. nextId - 1
      <3>1. id \in 1 .. nextId /\ id + 1 \in 1 .. nextId
        BY <1>2, <2>1
      <3>2. U[id] = T[id] /\ U[id + 1] = T[id + 1]
        BY <3>1
      <3>3. ring[Slot(k)] = [id |-> id, left |-> T[id + 1] - (r + k)]
        BY <1>8, <2>0, <2>1, <3>2 DEF PagesInLine
      <3>. QED  BY <2>0, <3>2, <3>3
    <2>2. CASE id >= nextId
      <3>1. id \in 1 .. MaxId + 1 /\ nextId \in 1 .. MaxId + 1 /\ nextId \in 1 .. nextId
        BY <1>2, <2>0
      <3>2. T[nextId] <= U[id] /\ U[id] \in Nat /\ T[nextId] \in Nat
        BY <2>2, <3>1
      <3>. HIDE DEF r
      <3>3. r + k < r + Used /\ r + Used <= T[nextId] /\ r \in Int /\ k \in Nat
        BY <1>9, <1>11, <2>0 DEF r
      <3>. QED  BY <1>9, <2>0, <3>2, <3>3
    <2>. QED  BY <1>2, <2>0, <2>1, <2>2
  <1>14. Rising(U)'
    BY <1>1, <1>2 DEF Rising
  <1>. QED  BY <1>5, <1>6, <1>7, <1>12, <1>13, <1>14 DEF Stream

\* Every call extends the line.
LEMMA CallsLine ==
  ASSUME CompletionInv, NEW T \in [1 .. MaxId + 1 -> Nat], Stream(T),
         EnqueueReadBuffer \/ EnqueueRecordEvent \/ CallFinish \/ EventSynchronize \/ CloseDevice
         \/ CloseDevices
  PROVE  \E U \in [1 .. MaxId + 1 -> Nat] : Stream(U)'
  <1>1. MaxId \in Nat /\ nextId \in 1 .. MaxId + 1 /\ 1 \in 0 .. 2 /\ 2 \in 0 .. 2 /\ 0 \in 0 .. 2
    BY CompletionAssumption DEF CompletionInv, TypeOK
  <1>2. \A a, b \in Nat : \E U \in [1 .. MaxId + 1 -> Nat] :
           /\ \A i \in 1 .. nextId : U[i] = T[i]
           /\ \A i, j \in 1 .. MaxId + 1 : i <= j => U[i] <= U[j]
           /\ nextId + 1 <= MaxId + 1 => U[nextId + 1] = U[nextId] + a
           /\ nextId + 2 <= MaxId + 1 => U[nextId + 2] = U[nextId + 1] + b
    <2>1. \A i, j \in 1 .. nextId : i <= j => T[i] <= T[j]
      BY DEF Stream, Rising
    <2>. QED  BY ZenonT(40), <1>1, <2>1, LongerLine
  <1>3. CASE EnqueueReadBuffer
    <2>1. PICK n \in Sizes, blocking \in BOOLEAN :
            \/ CallApi(ReadInterleaved(nextId, n, blocking), IF blocking THEN 2 ELSE 1)
            \/ CallApi(ReadSharded(nextId, n, blocking), IF blocking THEN 2 ELSE 1)
      BY <1>3, Zenon DEF EnqueueReadBuffer
    <2>2. n \in Nat /\ 1 \in Nat
      BY CompletionAssumption
    <2>3. PICK U \in [1 .. MaxId + 1 -> Nat] :
           /\ \A i \in 1 .. nextId : U[i] = T[i]
           /\ \A i, j \in 1 .. MaxId + 1 : i <= j => U[i] <= U[j]
           /\ nextId + 1 <= MaxId + 1 => U[nextId + 1] = U[nextId] + n
           /\ nextId + 2 <= MaxId + 1 => U[nextId + 2] = U[nextId + 1] + 1
      BY <1>2, <2>2
    <2>4. CASE blocking = TRUE
      <3>1. \/ CallApi(ReadInterleaved(nextId, n, TRUE), 2)
            \/ CallApi(ReadSharded(nextId, n, TRUE), 2)
        BY <2>1, <2>4, Zenon
      <3>2. nextId + 2 <= MaxId
        BY <3>1 DEF CallApi
      <3>3. nextId \in 1 .. MaxId /\ nextId + 1 \in 1 .. MaxId /\ nextId + 1 <= MaxId + 1
            /\ nextId + 2 <= MaxId + 1
        BY <1>1, <3>2
      <3>4. U[nextId + 1] = U[nextId] + n /\ U[nextId + 2] = U[nextId + 1] + 1
        BY <2>3, <3>3
      <3>5. /\ LineList(ReadInterleaved(nextId, n, TRUE), nextId, 2, U)
            /\ LineList(ReadSharded(nextId, n, TRUE), nextId, 2, U)
        BY <3>3, <3>4, BlockingReadInLine
      <3>6. \/ Call(ReadInterleaved(nextId, n, TRUE), 2)
            \/ Call(ReadSharded(nextId, n, TRUE), 2)
        BY <3>1 DEF CallApi
      <3>. QED  BY <1>1, <2>3, <3>5, <3>6, CallLine
    <2>5. CASE blocking = FALSE
      <3>1. \/ CallApi(ReadInterleaved(nextId, n, FALSE), 1)
            \/ CallApi(ReadSharded(nextId, n, FALSE), 1)
        BY <2>1, <2>5, Zenon
      <3>2. nextId + 1 <= MaxId
        BY <3>1 DEF CallApi
      <3>3. nextId \in 1 .. MaxId /\ nextId + 1 <= MaxId + 1
        BY <1>1, <3>2
      <3>4. U[nextId + 1] = U[nextId] + n
        BY <2>3, <3>3
      <3>5. /\ LineList(ReadInterleaved(nextId, n, FALSE), nextId, 1, U)
            /\ LineList(ReadSharded(nextId, n, FALSE), nextId, 1, U)
        BY <3>3, <3>4, ReadInLine
      <3>6. \/ Call(ReadInterleaved(nextId, n, FALSE), 1)
            \/ Call(ReadSharded(nextId, n, FALSE), 1)
        BY <3>1 DEF CallApi
      <3>. QED  BY <1>1, <2>3, <3>5, <3>6, CallLine
    <2>. QED  BY <2>4, <2>5, Zenon
  <1>4. PICK U \in [1 .. MaxId + 1 -> Nat] :
           /\ \A i \in 1 .. nextId : U[i] = T[i]
           /\ \A i, j \in 1 .. MaxId + 1 : i <= j => U[i] <= U[j]
           /\ nextId + 1 <= MaxId + 1 => U[nextId + 1] = U[nextId] + 1
    <2>1. 1 \in Nat
      OBVIOUS
    <2>. QED  BY <1>2, <2>1
  <1>5. CASE EnqueueRecordEvent \/ CallFinish \/ EventSynchronize
    <2>1. \/ CallApi(RecordEvent(nextId), 1) \/ CallApi(Finish(nextId), 1)
          \/ CallApi(RecordEvent(nextId) \o <<Step("sync", Event(nextId))>>, 1)
      BY <1>5, Zenon DEF EnqueueRecordEvent, CallFinish, EventSynchronize
    <2>2. nextId + 1 <= MaxId
      BY <2>1 DEF CallApi
    <2>3. nextId \in 1 .. MaxId /\ nextId + 1 <= MaxId + 1
      BY <1>1, <2>2
    <2>4. U[nextId + 1] = U[nextId] + 1
      BY <1>4, <2>3
    <2>5. /\ LineList(RecordEvent(nextId), nextId, 1, U) /\ LineList(Finish(nextId), nextId, 1, U)
          /\ LineList(RecordEvent(nextId) \o <<Step("sync", Event(nextId))>>, nextId, 1, U)
      BY <2>3, <2>4, RecordInLine
    <2>6. \/ Call(RecordEvent(nextId), 1) \/ Call(Finish(nextId), 1)
          \/ Call(RecordEvent(nextId) \o <<Step("sync", Event(nextId))>>, 1)
      BY <2>1, Zenon DEF CallApi
    <2>. QED  BY <1>1, <1>4, <2>5, <2>6, CallLine, Zenon
  <1>6. CASE CloseDevices
    <2>1. Call(Finish(nextId) \o Close, 1)
      BY <1>6 DEF CloseDevices, SyncAndClose
    <2>2. nextId + 1 <= MaxId + 1
      BY <2>1 DEF Call
    <2>3. nextId \in 1 .. MaxId /\ U[nextId + 1] = U[nextId] + 1
      BY <1>1, <1>4, <2>2
    <2>4. LineList(Finish(nextId) \o Close, nextId, 1, U)
      BY <2>3, RecordInLine DEF Close
    <2>. QED  BY <1>1, <1>4, <2>1, <2>4, CallLine
  <1>7. CASE CloseDevice
    <2>1. Close \in Seq(Steps)
      <3>1. Plain("destroy") \in Steps /\ Plain("join") \in Steps
        BY StepTypes DEF Ops
      <3>. QED  BY <3>1 DEF Close
    <2>2. Len(Close) = 2 /\ Close[1] = Plain("destroy") /\ Close[2] = Plain("join")
      BY DEF Close
    <2>3. Places(Close, "push") = {} /\ Places(Close, "process") = {}
      BY <2>1, <2>2 DEF Places, Step, Plain
    <2>4. Cardinality({}) = 0
      BY FS_EmptySet
    <2>5. LineList(Close, nextId, 0, U)
      BY <2>1, <2>3, <2>4 DEF LineList
    <2>6. Call(Close, 0)
      BY <1>7 DEF CloseDevice
    <2>. QED  BY <1>1, <1>4, <2>5, <2>6, CallLine
  <1>. QED  BY <1>3, <1>5, <1>6, <1>7

-----------------------------------------------------------------------------
(***************************************************************************)
(* The theorems.                                                           *)
(***************************************************************************)
\* At first the line is empty.
LEMMA FirstLine == Init => StreamInv
  <1>. SUFFICES ASSUME Init PROVE \E T \in [1 .. MaxId + 1 -> Nat] : Stream(T)
    BY DEF StreamInv
  <1>. DEFINE T == [i \in 1 .. MaxId + 1 |-> 0]
  <1>1. MaxId \in Nat /\ Size \in Nat \ {0}
    BY CompletionAssumption
  <1>2. T \in [1 .. MaxId + 1 -> Nat] /\ \A i \in 1 .. MaxId + 1 : T[i] = 0
    OBVIOUS
  <1>3. T[1] = 0
    BY <1>1, <1>2
  <1>. HIDE DEF T
  <1>4. todo = <<>> /\ issued = <<>> /\ cur = NoItem /\ nextId = 1 /\ devQ = <<>> /\ left = 0
        /\ completed = 0 /\ taken = 0 /\ rd = 0 /\ wr = 0 /\ rdT = 0 /\ wrT = 0 /\ rpc = "wait"
    BY DEF Init
  <1>5. Rising(T)
    BY <1>3, <1>4 DEF Rising
  <1>6. StepsInLine(T)
    BY <1>4, NoPlaces DEF StepsInLine
  <1>7. ReaderInLine(T) /\ DeviceInLine(T)
    BY <1>4 DEF ReaderInLine, DeviceInLine
  <1>8. Used = 0
    BY <1>4 DEF Used
  <1>9. ReadAt(T) = 0 /\ WriteAt(T) = 0
    <2>1. Many("process") = 0
      BY <1>4, NoPlaces DEF Many
    <2>. QED  BY <1>3, <1>4, <2>1 DEF ReadAt, WriteAt
  <1>10. RingInLine(T)
    BY <1>4, <1>8, <1>9 DEF RingInLine
  <1>11. PagesInLine(T)
    BY <1>8 DEF PagesInLine
  <1>. QED  BY <1>2, <1>5, <1>6, <1>7, <1>10, <1>11 DEF Stream

\* A reader that has been told to leave does not begin to read again.
LEMMA ReadingBefore ==
  ASSUME CompletionInv, [Next]_vars, Reading'
  PROVE  Reading
  <1>. SUFFICES ASSUME exit, rpc \notin {"event", "copy"} PROVE FALSE
    BY DEF Reading
  <1>1. exit' = TRUE
    <2>1. exit = TRUE
      BY DEF CompletionInv, TypeOK
    <2>2. exit' = exit \/ exit' = TRUE
      BY DEF Next, vars, EnqueueReadBuffer, EnqueueRecordEvent, CallFinish, EventSynchronize,
         CloseDevice, CloseDevices, CallApi, Call, HostStep, Process, PushDescriptor, Count, NotifyReader,
         WaitForReads, PollForReads, Synchronize, Destroy, Join, ReaderStep, ReaderWait, ReaderCheck,
         PopDescriptor, WaitFront, CopyIntoUserSpace, ReadEvent, Bump, NotifyHost, DeviceStep,
         TakeChunk, WriteHost, Hang
    <2>. QED  BY <2>1, <2>2
  <1>2. rpc' \in {"event", "copy"}
    BY <1>1 DEF Reading
  <1>3. ~ReaderStep
    BY <1>2 DEF ReaderStep, ReaderWait, ReaderCheck, PopDescriptor, WaitFront, CopyIntoUserSpace,
       ReadEvent, Bump, NotifyHost
  <1>4. rpc' = rpc \/ rpc' = Woken
    BY <1>3 DEF Next, vars, EnqueueReadBuffer, EnqueueRecordEvent, CallFinish, EventSynchronize,
       CloseDevice, CloseDevices, CallApi, Call, HostStep, Process, PushDescriptor, Count, NotifyReader,
       WaitForReads, PollForReads, Synchronize, Destroy, Join, DeviceStep, TakeChunk, WriteHost,
       Hang, reader
  <1>. QED  BY <1>2, <1>4 DEF Woken

\* Every step keeps the pages in line.
LEMMA StreamStep == CompletionInv /\ StreamInv /\ [Next]_vars => StreamInv'
  <1>. SUFFICES ASSUME CompletionInv, StreamInv, [Next]_vars, Reading'
                PROVE  \E U \in [1 .. MaxId + 1 -> Nat] : Stream(U)'
    BY DEF StreamInv
  <1>1. PICK T \in [1 .. MaxId + 1 -> Nat] : Stream(T)
    BY ReadingBefore DEF StreamInv
  <1>2. CASE EnqueueReadBuffer \/ EnqueueRecordEvent \/ CallFinish \/ EventSynchronize \/ CloseDevice
         \/ CloseDevices
    BY <1>1, <1>2, CallsLine
  <1>3. CASE HostStep
    BY <1>1, <1>3, HostLine
  <1>4. CASE ReaderStep
    BY <1>1, <1>4, ReaderLine
  <1>5. CASE DeviceStep \/ Hang
    BY <1>1, <1>5, DeviceLine
  <1>6. CASE UNCHANGED vars
    <2>1. UNCHANGED <<todo, issued, rpc, cur, nextId, completed, taken, left, rd, rdT, wr, wrT,
                      ring, devQ, dleft>>
      BY <1>6 DEF vars, host, reader, device
    <2>2. StepsInLine(T)' /\ ReaderInLine(T)' /\ Many("process")' = Many("process")
      BY <1>1, <2>1, HostStays, ReaderFrame DEF Stream
    <2>3. Stream(T)'
      BY <1>1, <2>1, <2>2, LineFrame
    <2>. QED  BY <1>1, <2>3
  <1>. QED  BY <1>2, <1>3, <1>4, <1>5, <1>6 DEF Next

\* As long as the reader reads, the completion queue holds the pages between
\* the reader's and the dispatcher's place in one line of all pages, though
\* descriptors, counters, pages and pointers are written by three parties.
THEOREM StreamInvariant == Spec => []StreamInv
  BY FirstLine, StreamStep, CompletionInvariant, PTL DEF Spec

\* read_completion_queue and copy_into_user_space find the page of their own
\* command at the read pointer, with the right number of pages left, for every
\* size of the completion queue and of the buffers (the TT_ASSERT on the event
\* id in read_completion_queue).
THEOREM ReadsOwnPagesTheorem == Spec => []ReadsOwnPages
  <1>1. CompletionInv /\ StreamInv => ReadsOwnPages
    <2>. SUFFICES ASSUME CompletionInv, StreamInv, rpc \in {"event", "copy"}, ~Empty
                  PROVE  ring[rd] = [id |-> cur.id, left |-> left]
      BY DEF ReadsOwnPages
    <2>1. PICK T \in [1 .. MaxId + 1 -> Nat] : Stream(T)
      BY DEF StreamInv, Reading
    <2>2. /\ MaxId \in Nat /\ Size \in Nat \ {0} /\ nextId \in 1 .. MaxId + 1 /\ rd \in 0 .. Size - 1
          /\ Used \in Nat /\ Used > 0 /\ left \in Nat /\ completed \in Nat /\ taken \in Nat
      BY <2>1, LineTypes, NotEmpty DEF Stream
    <2>3. /\ Fits(T, cur) /\ cur.id = completed + taken /\ left \in 1 .. cur.pages
          /\ cur.id < nextId
      BY <2>1 DEF Stream, ReaderInLine, CompletionInv, ReaderInv, OrderInv
    <2>. DEFINE i == cur.id
                e == T[i + 1]
                r == ReadAt(T)
    <2>4. i \in 1 .. nextId - 1 /\ e = T[i] + cur.pages /\ e \in Nat /\ T[i] \in Nat
      BY <2>2, <2>3 DEF Fits
    <2>5. r = e - left
      BY <2>3 DEF ReadAt
    <2>6. T[i] <= r + 0 /\ r + 0 < e /\ e - (r + 0) = left
      <3>. DEFINE b == T[i]
                  c == cur.pages
      <3>1. c \in Nat
        <4>1. c \in Sizes \cup {0, 1}
          BY DEF CompletionInv, TypeOK, Items
        <4>2. \A y \in Sizes \cup {0, 1} : y \in Nat
          BY CompletionAssumption
        <4>. QED  BY <4>1, <4>2, Zenon
      <3>2. e = b + c /\ e \in Nat /\ b \in Nat /\ left \in 1 .. c /\ r = e - left
        BY <2>3, <2>4, <2>5
      <3>. HIDE DEF b, c, e, r
      <3>3. b <= r + 0 /\ r + 0 < e /\ e - (r + 0) = left
        BY ONLY <3>1, <3>2
      <3>. QED  BY <3>3 DEF b
    <2>7. 0 \in 0 .. Used - 1 /\ Slot(0) = rd
      BY <2>2 DEF Slot
    <2>8. ring[Slot(0)] = [id |-> i, left |-> e - (r + 0)]
      BY <2>1, <2>4, <2>6, <2>7 DEF Stream, PagesInLine
    <2>. QED  BY <2>6, <2>7, <2>8
  <1>. QED  BY <1>1, CompletionInvariant, StreamInvariant, PTL
=============================================================================
