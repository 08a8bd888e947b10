------------------------- MODULE NqPacketReaderProof ------------------------
(***************************************************************************)
(* Proofs about the memory packets are read into, for any number of        *)
(* workers, of slots and of messages.  The numbers given out so far are    *)
(* shared out between the slots, the pools and the queues of the workers   *)
(* and what was dropped (Split).  A step takes numbers out of one place,   *)
(* or makes new ones, and puts them into one other place or drops them:    *)
(* the lemmas say so for sets first (Taken, Placed), then for pools,       *)
(* queues and slots, and then for each action.                             *)
(***************************************************************************)
EXTENDS NqPacketReader, FiniteSetTheorems, TLAPS

Elems(q) == {q[i] : i \in DOMAIN q}
Unique(q) == \A i, j \in DOMAIN q : q[i] = q[j] => i = j
Packets == [buffer : Nat, object : Nat]
BufferSeq(q) == [i \in DOMAIN q |-> q[i].buffer]
ObjectSeq(q) == [i \in DOMAIN q |-> q[i].object]

Kinds == {"slot", "pool", "queue"}

\* The slots with a buffer that was not handed over.
Full(w) == IF multi THEN Fresh(w) ELSE {}

\* By worker, what is in its slots, and the buffers and the objects in its queue.
Slotted == [w \in Workers |-> {slot[w][i] : i \in Full(w)}]
NoSlots == [w \in Workers |-> {}]
BufferQueue == [w \in Workers |-> BufferSeq(queue[w])]
ObjectQueue == [w \in Workers |-> ObjectSeq(queue[w])]

\* What is at each place, given slots, pools and queues.
Place(S, P, Q) ==
  [k \in Kinds |-> [w \in Workers |->
     IF k = "slot" THEN S[w] ELSE IF k = "pool" THEN Elems(P[w]) ELSE Elems(Q[w])]]

BufferAt == Place(Slotted, buffer_pool, BufferQueue)
ObjectAt == Place(NoSlots, packet_pool, ObjectQueue)

\* 1 .. n is split between the places in f and what was dropped.
Split(f, d, n) ==
  /\ \A k, l \in Kinds, v, w \in Workers : k # l \/ v # w => f[k][v] \cap f[l][w] = {}
  /\ \A k \in Kinds, w \in Workers : f[k][w] \subseteq 1 .. n /\ f[k][w] \cap d = {}
  /\ d \subseteq 1 .. n
  /\ \A b \in 1 .. n : b \in d \/ \E k \in Kinds, w \in Workers : b \in f[k][w]

\* Slots, pools and queues share out 1 .. n but for d, and none has anything twice.
Kept(S, P, Q, d, n) ==
  /\ S \in [Workers -> SUBSET Nat]
  /\ P \in [Workers -> Seq(Nat)] /\ Q \in [Workers -> Seq(Nat)] /\ n \in Nat
  /\ \A w \in Workers : Unique(P[w]) /\ Unique(Q[w])
  /\ Split(Place(S, P, Q), d, n)

Types ==
  /\ multi \in BOOLEAN /\ client \in BOOLEAN
  /\ slot \in [Workers -> [Slots -> Nat]]
  /\ last \in [Workers -> 0 .. NumSlots]
  /\ batch \in [Workers -> Seq(Destinations)]
  /\ buffer_pool \in [Workers -> Seq(Nat)] /\ packet_pool \in [Workers -> Seq(Nat)]
  /\ queue \in [Workers -> Seq(Packets)]
  /\ buffers \in Nat /\ objects \in Nat
  /\ dropped \in [buffers : SUBSET Nat, objects : SUBSET Nat]

Single(w) ==
  /\ Len(batch[w]) <= last[w]
  /\ ~multi => batch[w] = << >> /\ \A i \in Slots : slot[w][i] = 0
  /\ \A i, j \in Full(w) : slot[w][i] = slot[w][j] => i = j

IInv ==
  /\ Types
  /\ \A w \in Workers : Single(w)
  /\ Kept(Slotted, buffer_pool, BufferQueue, dropped.buffers, buffers)
  /\ Kept(NoSlots, packet_pool, ObjectQueue, dropped.objects, objects)

----------------------------------------------------------------------------
\* X is taken out of a place of f, or put there, which makes it g.
Takes(f, g, X, k, v) ==
  /\ k \in Kinds /\ v \in Workers /\ X \subseteq f[k][v]
  /\ \A j \in Kinds, u \in Workers : g[j][u] = IF j = k /\ u = v THEN f[j][u] \ X ELSE f[j][u]
Puts(f, g, X, l, w) ==
  /\ l \in Kinds /\ w \in Workers /\ g[l][w] = f[l][w] \cup X
  /\ \A j \in Kinds, u \in Workers : j # l \/ u # w => g[j][u] = f[j][u]

\* X and the new ones are taken out, and nowhere for the moment.
LEMMA Taken ==
  ASSUME NEW f, NEW g, NEW d, NEW n \in Nat, NEW m \in Nat, n <= m, Split(f, d, n),
         NEW k, NEW v, NEW X, Takes(f, g, X, k, v)
  PROVE  Split(g, d \cup X \cup (n + 1 .. m), m)
<1> k \in Kinds /\ v \in Workers /\ X \subseteq f[k][v]
  BY Zenon DEF Takes
<1>0. \A j \in Kinds, u \in Workers : g[j][u] = IF j = k /\ u = v THEN f[j][u] \ X ELSE f[j][u]
  BY Zenon DEF Takes
<1>1. \A j \in Kinds, u \in Workers :
        /\ f[j][u] \subseteq 1 .. n /\ f[j][u] \cap d = {} /\ d \subseteq 1 .. n
        /\ j # k \/ u # v => f[j][u] \cap X = {}
  BY ZenonT(60) DEF Split
<1>2. 1 .. n \subseteq 1 .. m /\ (1 .. n) \cap (n + 1 .. m) = {} /\ n + 1 .. m \subseteq 1 .. m
  OBVIOUS
<1>3. \A j \in Kinds, u \in Workers : g[j][u] = f[j][u] \ X
  BY <1>0, <1>1, Zenon
<1>4. \A j \in Kinds, u \in Workers :
        g[j][u] \subseteq 1 .. m /\ g[j][u] \cap (d \cup X \cup (n + 1 .. m)) = {}
  BY <1>1, <1>2, <1>3
<1>5. \A j, i \in Kinds, t, u \in Workers : j # i \/ t # u => g[j][t] \cap g[i][u] = {}
  BY <1>3 DEF Split
<1>6. ASSUME NEW b \in 1 .. m, b \notin d \cup X \cup (n + 1 .. m)
      PROVE  \E j \in Kinds, u \in Workers : b \in g[j][u]
  BY <1>2, <1>3, <1>6 DEF Split
<1>7. d \cup X \cup (n + 1 .. m) \subseteq 1 .. m
  BY <1>1, <1>2, Zenon
<1> QED
  BY <1>4, <1>5, <1>6, <1>7, Zenon DEF Split

\* X, which was nowhere, is put to a place.
LEMMA Placed ==
  ASSUME NEW f, NEW g, NEW d, NEW X, NEW n \in Nat, Split(f, d \cup X, n), d \cap X = {},
         NEW l, NEW w, Puts(f, g, X, l, w)
  PROVE  Split(g, d, n)
<1> /\ l \in Kinds /\ w \in Workers /\ g[l][w] = f[l][w] \cup X
    /\ \A j \in Kinds, u \in Workers : j # l \/ u # w => g[j][u] = f[j][u]
  BY Zenon DEF Puts
<1>1. \A j \in Kinds, u \in Workers : f[j][u] \cap X = {} /\ f[j][u] \cap d = {}
  BY ZenonT(60) DEF Split
<1>2. \A j \in Kinds, u \in Workers : g[j][u] \subseteq 1 .. n /\ g[j][u] \cap d = {}
  BY <1>1 DEF Split
<1>3. \A j, i \in Kinds, t, u \in Workers : j # i \/ t # u => g[j][t] \cap g[i][u] = {}
  <2>1. \A j \in Kinds, u \in Workers : j # l \/ u # w => g[j][u] \cap g[l][w] = {}
    BY <1>1 DEF Split
  <2> QED
    BY <2>1, SMTT(60) DEF Split
<1>4. ASSUME NEW b \in 1 .. n, b \notin d PROVE \E j \in Kinds, u \in Workers : b \in g[j][u]
  <2>1. CASE b \in X
    BY <2>1, Zenon
  <2>2. CASE b \notin X
    BY <1>4, <2>2 DEF Split
  <2> QED
    BY <2>1, <2>2, Zenon
<1>5. d \subseteq 1 .. n
  BY Zenon DEF Split
<1> QED
  BY <1>2, <1>3, <1>4, <1>5, Zenon DEF Split

----------------------------------------------------------------------------
\* Sequences.
LEMMA AppendFacts ==
  ASSUME NEW q \in Seq(Nat), NEW x \in Nat
  PROVE  /\ Append(q, x) \in Seq(Nat) /\ Elems(Append(q, x)) = Elems(q) \cup {x}
         /\ Unique(q) /\ x \notin Elems(q) => Unique(Append(q, x))
<1>1. /\ Append(q, x) \in Seq(Nat) /\ Len(q) \in Nat
      /\ DOMAIN q = 1 .. Len(q) /\ DOMAIN Append(q, x) = 1 .. Len(q) + 1
      /\ \A i \in 1 .. Len(q) : Append(q, x)[i] = q[i]
      /\ Append(q, x)[Len(q) + 1] = x
  OBVIOUS
<1>2. \A i \in DOMAIN Append(q, x) : i \in DOMAIN q \/ i = Len(q) + 1
  BY <1>1
<1>3. Elems(Append(q, x)) \subseteq Elems(q) \cup {x}
  BY <1>1, <1>2, Zenon DEF Elems
<1>4. Elems(q) \cup {x} \subseteq Elems(Append(q, x))
  BY <1>1 DEF Elems
<1>5. ASSUME Unique(q), x \notin Elems(q) PROVE Unique(Append(q, x))
  <2>1. \A i \in DOMAIN q : q[i] # x
    BY <1>5, Zenon DEF Elems
  <2> QED
    BY <1>1, <1>2, <1>5, <2>1, Zenon DEF Unique
<1> QED
  BY <1>1, <1>3, <1>4, <1>5, Zenon

\* What a queue has after its first packet was taken.
LEMMA TailFacts ==
  ASSUME NEW q \in Seq(Nat), q # << >>, Unique(q)
  PROVE  /\ Tail(q) \in Seq(Nat) /\ Head(q) \in Elems(q) /\ Head(q) \in Nat
         /\ Elems(Tail(q)) = Elems(q) \ {Head(q)} /\ Unique(Tail(q))
<1>1. /\ Tail(q) \in Seq(Nat) /\ Len(q) \in Nat /\ Len(q) > 0
      /\ DOMAIN q = 1 .. Len(q) /\ DOMAIN Tail(q) = 1 .. Len(q) - 1
      /\ \A i \in 1 .. Len(q) - 1 : Tail(q)[i] = q[i + 1]
      /\ Head(q) = q[1] /\ q[1] \in Nat
  OBVIOUS
<1>2. Head(q) \in Elems(q)
  BY <1>1 DEF Elems
<1>3. ASSUME NEW x \in Elems(Tail(q)) PROVE x \in Elems(q) \ {Head(q)}
  <2>1. PICK i \in 1 .. Len(q) - 1 : x = q[i + 1]
    BY <1>1, <1>3, Zenon DEF Elems
  <2>2. i + 1 \in DOMAIN q /\ 1 \in DOMAIN q /\ i + 1 # 1
    BY <1>1
  <2> QED
    BY <1>1, <2>1, <2>2, Zenon DEF Elems, Unique
<1>4. ASSUME NEW x \in Elems(q), x # Head(q) PROVE x \in Elems(Tail(q))
  <2>1. PICK i \in 1 .. Len(q) : x = q[i]
    BY <1>1, <1>4, Zenon DEF Elems
  <2>2. i - 1 \in 1 .. Len(q) - 1 /\ Tail(q)[i - 1] = x
    BY <1>1, <1>4, <2>1
  <2> QED
    BY <1>1, <2>2, Zenon DEF Elems
<1>5. Unique(Tail(q))
  <2>1. \A i \in DOMAIN Tail(q) : i \in Nat /\ i + 1 \in DOMAIN q /\ Tail(q)[i] = q[i + 1]
    BY <1>1, SMTT(60)
  <2>2. ASSUME NEW i \in DOMAIN Tail(q), NEW j \in DOMAIN Tail(q), Tail(q)[i] = Tail(q)[j]
        PROVE  i = j
    <3>1. i + 1 = j + 1
      BY <2>1, <2>2, Zenon DEF Unique
    <3> QED
      BY <2>1, <3>1
  <2> QED
    BY <2>2, Zenon DEF Unique
<1> QED
  BY <1>1, <1>2, <1>3, <1>4, <1>5, Zenon

\* The buffers, or the objects, of a queue are a sequence.
LEMMA QueueSeqs ==
  ASSUME NEW q \in Seq(Packets)
  PROVE  /\ BufferSeq(q) \in Seq(Nat) /\ ObjectSeq(q) \in Seq(Nat)
         /\ \A p \in Packets : /\ Append(q, p) \in Seq(Packets)
                               /\ BufferSeq(Append(q, p)) = Append(BufferSeq(q), p.buffer)
                               /\ ObjectSeq(Append(q, p)) = Append(ObjectSeq(q), p.object)
         /\ q # << >> =>
              /\ Tail(q) \in Seq(Packets) /\ Head(q) \in Packets
              /\ BufferSeq(q) # << >> /\ ObjectSeq(q) # << >>
              /\ BufferSeq(Tail(q)) = Tail(BufferSeq(q)) /\ Head(BufferSeq(q)) = Head(q).buffer
              /\ ObjectSeq(Tail(q)) = Tail(ObjectSeq(q)) /\ Head(ObjectSeq(q)) = Head(q).object
<1>1. /\ Len(q) \in Nat /\ DOMAIN q = 1 .. Len(q) /\ \A i \in 1 .. Len(q) : q[i] \in Packets
  OBVIOUS
<1>2. /\ BufferSeq(q) \in Seq(Nat) /\ ObjectSeq(q) \in Seq(Nat)
      /\ Len(BufferSeq(q)) = Len(q) /\ Len(ObjectSeq(q)) = Len(q)
  BY <1>1 DEF BufferSeq, ObjectSeq, Packets
<1>3. ASSUME NEW p \in Packets
      PROVE  /\ Append(q, p) \in Seq(Packets)
             /\ BufferSeq(Append(q, p)) = Append(BufferSeq(q), p.buffer)
             /\ ObjectSeq(Append(q, p)) = Append(ObjectSeq(q), p.object)
  BY <1>1, <1>2 DEF BufferSeq, ObjectSeq, Packets
<1>4. ASSUME q # << >>
      PROVE  /\ Tail(q) \in Seq(Packets) /\ Head(q) \in Packets
             /\ BufferSeq(q) # << >> /\ ObjectSeq(q) # << >>
             /\ BufferSeq(Tail(q)) = Tail(BufferSeq(q)) /\ Head(BufferSeq(q)) = Head(q).buffer
             /\ ObjectSeq(Tail(q)) = Tail(ObjectSeq(q)) /\ Head(ObjectSeq(q)) = Head(q).object
  BY <1>1, <1>2, <1>4, SMTT(60) DEF BufferSeq, ObjectSeq
<1> QED
  BY <1>2, <1>3, <1>4, Zenon

\* What n times top and pop take from a pool: what was on top, and then new.
LEMMA PoppedFacts ==
  ASSUME NEW p \in Seq(Nat), NEW n \in Nat, NEW made \in Nat, Unique(p),
         Elems(p) \subseteq 1 .. made
  PROVE  /\ Popped(p, n) \in Seq(Nat) /\ Unique(Popped(p, n))
         /\ Elems(Popped(p, n)) \subseteq Elems(p)
         /\ Made(p, n, made) \in Nat /\ made <= Made(p, n, made)
         /\ {Given(p, i, made) : i \in 1 .. n} =
              (Elems(p) \ Elems(Popped(p, n))) \cup (made + 1 .. Made(p, n, made))
         /\ \A i \in 1 .. n : Given(p, i, made) \in Nat
         /\ \A i, j \in 1 .. n : Given(p, i, made) = Given(p, j, made) => i = j
<1>0. PICK k : k = IF n < Len(p) THEN Len(p) - n ELSE 0
  BY Zenon
<1>q. PICK q : q = Popped(p, n)
  BY Zenon
<1> DEFINE m == Made(p, n, made)
           G(i) == Given(p, i, made)
<1>1. /\ Len(p) \in Nat /\ DOMAIN p = 1 .. Len(p) /\ \A i \in 1 .. Len(p) : p[i] \in Nat
      /\ k \in 0 .. Len(p) /\ \A i \in 1 .. k : i \in 1 .. Len(p)
  BY <1>0
<1>2. /\ q \in Seq(Nat) /\ DOMAIN q = 1 .. k /\ \A i \in 1 .. k : q[i] = p[i]
  <2>1. q = SubSeq(p, 1, k)
    BY <1>0, <1>q, Zenon DEF Popped
  <2>2. q = [i \in 1 .. k |-> p[i]]
    BY <1>1, <2>1
  <2> QED
    BY <1>1, <2>2
<1>3. Elems(q) \subseteq Elems(p) /\ Unique(q)
  <2>1. \A i \in DOMAIN q : i \in DOMAIN p /\ q[i] = p[i]
    BY <1>1, <1>2, Zenon
  <2>2. ASSUME NEW x \in Elems(q) PROVE x \in Elems(p)
    <3>1. PICK i \in DOMAIN q : x = q[i]
      BY <2>2, Zenon DEF Elems
    <3> QED
      BY <2>1, <3>1, Zenon DEF Elems
  <2>3. ASSUME NEW i \in DOMAIN q, NEW j \in DOMAIN q, q[i] = q[j] PROVE i = j
    <3>1. i \in DOMAIN p /\ j \in DOMAIN p /\ p[i] = p[j]
      BY <2>1, <2>3, Zenon
    <3> QED
      BY <3>1, Zenon DEF Unique
  <2> QED
    BY <2>2, <2>3, Zenon DEF Unique
<1>4. m \in Nat /\ made <= m /\ m = IF n > Len(p) THEN made + n - Len(p) ELSE made
  BY <1>1 DEF Made
<1>5. \A i \in 1 .. n : G(i) = IF i <= Len(p) THEN p[Len(p) - i + 1] ELSE made + i - Len(p)
  BY Zenon DEF Given
<1>6. \A i \in 1 .. n : i <= Len(p) => /\ Len(p) - i + 1 \in k + 1 .. Len(p)
                                       /\ p[Len(p) - i + 1] \in 1 .. made
  <2>1. ASSUME NEW i \in 1 .. n, i <= Len(p)
        PROVE  Len(p) - i + 1 \in k + 1 .. Len(p) /\ Len(p) - i + 1 \in DOMAIN p
    <3>0. i \in Nat /\ i <= n /\ k \in Nat
      BY <1>1
    <3>1. k <= Len(p) - i /\ k \in Nat
      <4>1. CASE n < Len(p)
        BY <1>0, <1>1, <3>0, <4>1
      <4>2. CASE ~(n < Len(p))
        BY <1>0, <1>1, <2>1, <3>0, <4>2, SMTT(60)
      <4> QED
        BY <4>1, <4>2, Zenon
    <3> QED
      BY <1>1, <2>1, <3>1
  <2>2. \A j \in DOMAIN p : p[j] \in 1 .. made
    BY ZenonT(60) DEF Elems
  <2> QED
    BY <2>1, <2>2, Zenon
<1>7. \A i \in 1 .. n : i > Len(p) => made + i - Len(p) \in made + 1 .. m
  BY <1>1, <1>4
<1> HIDE DEF m, G
<1>8. ASSUME NEW i \in 1 .. n PROVE G(i) \in (Elems(p) \ Elems(q)) \cup (made + 1 .. m)
  <2>1. CASE i > Len(p)
    BY <1>1, <1>5, <1>7, <2>1
  <2>2. CASE i <= Len(p)
    <3>1. G(i) = p[Len(p) - i + 1] /\ Len(p) - i + 1 \in k + 1 .. Len(p)
      BY <1>5, <1>6, <2>2, Zenon
    <3>2. \A j \in 1 .. k : j \in 1 .. Len(p) /\ j # Len(p) - i + 1
      BY <1>1, <3>1, SMTT(60)
    <3>3. Len(p) - i + 1 \in DOMAIN p /\ \A j \in 1 .. k : j \in DOMAIN p
      BY <1>1, <3>1
    <3>4. \A j \in 1 .. k : p[j] # p[Len(p) - i + 1]
      BY <3>2, <3>3, Zenon DEF Unique
    <3>5. G(i) \in Elems(p)
      BY <3>1, <3>3, Zenon DEF Elems
    <3>6. \A j \in DOMAIN q : q[j] # G(i)
      BY <1>2, <3>1, <3>4, Zenon
    <3> QED
      BY <3>5, <3>6, Zenon DEF Elems
  <2> QED
    BY <1>1, <2>1, <2>2
<1>9. ASSUME NEW x \in (Elems(p) \ Elems(q)) \cup (made + 1 .. m)
      PROVE  \E i \in 1 .. n : x = G(i)
  <2>1. CASE x \in made + 1 .. m
    <3>1. x - made + Len(p) \in 1 .. n /\ x - made + Len(p) > Len(p)
      BY <1>1, <1>4, <2>1
    <3>2. G(x - made + Len(p)) = x
      BY <1>1, <1>5, <2>1, <3>1
    <3> QED
      BY <3>1, <3>2, Zenon
  <2>2. CASE x \in Elems(p) \ Elems(q)
    <3>1. PICK j \in 1 .. Len(p) : x = p[j]
      BY <1>1, <2>2, Zenon DEF Elems
    <3>2. j \notin 1 .. k
      <4>1. \A i \in DOMAIN q : q[i] # x
        BY <2>2, Zenon DEF Elems
      <4> QED
        BY <1>2, <3>1, <4>1, Zenon
    <3>3. Len(p) - j + 1 \in 1 .. n /\ Len(p) - j + 1 <= Len(p)
      <4>1. j \in Nat /\ j > k /\ j <= Len(p)
        BY <1>1, <3>1, <3>2
      <4>2. CASE n < Len(p)
        BY <1>0, <1>1, <4>1, <4>2, SMTT(60)
      <4>3. CASE ~(n < Len(p))
        BY <1>0, <1>1, <4>1, <4>3
      <4> QED
        BY <4>2, <4>3, Zenon
    <3>4. G(Len(p) - j + 1) = x
      BY <1>1, <1>5, <3>1, <3>3, SMTT(60)
    <3> QED
      BY <3>3, <3>4, Zenon
  <2> QED
    BY <1>9, <2>1, <2>2, Zenon
<1>10. ASSUME NEW i \in 1 .. n PROVE G(i) \in Nat
  <2>1. CASE i <= Len(p)
    BY <1>5, <1>6, <2>1
  <2>2. CASE i > Len(p)
    BY <1>1, <1>5, <1>7, <2>2
  <2> QED
    BY <1>1, <2>1, <2>2
<1>11. ASSUME NEW i \in 1 .. n, NEW j \in 1 .. n, G(i) = G(j) PROVE i = j
  <2>1. CASE i <= Len(p) /\ j <= Len(p)
    <3>1. Len(p) - i + 1 \in DOMAIN p /\ Len(p) - j + 1 \in DOMAIN p
      BY <1>1, <2>1
    <3>2. Len(p) - i + 1 = Len(p) - j + 1
      BY <1>5, <1>11, <2>1, <3>1, Zenon DEF Unique
    <3> QED
      BY <1>1, <3>2, SMTT(60)
  <2>2. CASE i > Len(p) /\ j > Len(p)
    BY <1>1, <1>5, <1>11, <2>2
  <2>3. CASE (i <= Len(p) /\ j > Len(p)) \/ (i > Len(p) /\ j <= Len(p))
    BY <1>1, <1>5, <1>6, <1>7, <1>11, <2>3, SMTT(60)
  <2> QED
    BY <1>1, <2>1, <2>2, <2>3, SMTT(60)
<1>12. {G(i) : i \in 1 .. n} = (Elems(p) \ Elems(q)) \cup (made + 1 .. m)
  BY <1>8, <1>9, ZenonT(60)
<1> QED
  BY <1>q, <1>2, <1>3, <1>4, <1>10, <1>11, <1>12, Zenon DEF m, G

----------------------------------------------------------------------------
\* What is taken out and put back, of buffers or of objects.
LEMMA Places ==
  ASSUME NEW S, NEW P, NEW Q, NEW w \in Workers
  PROVE  /\ Place(S, P, Q)["slot"][w] = S[w]
         /\ Place(S, P, Q)["pool"][w] = Elems(P[w])
         /\ Place(S, P, Q)["queue"][w] = Elems(Q[w])
BY Zenon DEF Place, Kinds

\* What c times top and pop give.
Gives(p, c, n) == {Given(p, i, n) : i \in 1 .. c}
GivesOnce(p, c, n) == \A i, j \in 1 .. c : Given(p, i, n) = Given(p, j, n) => i = j

\* c times top and pop, with new for what the pool does not have.
LEMMA TakeMany ==
  ASSUME NEW S, NEW P, NEW Q, NEW d, NEW n, Kept(S, P, Q, d, n), NEW w \in Workers, NEW c \in Nat
  PROVE  /\ Kept(S, [P EXCEPT ![w] = Popped(@, c)], Q, d \cup Gives(P[w], c, n),
                 Made(P[w], c, n))
         /\ Gives(P[w], c, n) \subseteq Nat /\ Gives(P[w], c, n) \cap d = {}
         /\ GivesOnce(P[w], c, n)
<1> DEFINE X == Gives(P[w], c, n)
           B == [P EXCEPT ![w] = Popped(@, c)]
           Y == Elems(P[w]) \ Elems(Popped(P[w], c))
           m == Made(P[w], c, n)
<1>1. /\ S \in [Workers -> SUBSET Nat]
      /\ P \in [Workers -> Seq(Nat)] /\ Q \in [Workers -> Seq(Nat)]
      /\ n \in Nat /\ \A v \in Workers : Unique(P[v]) /\ Unique(Q[v])
      /\ Split(Place(S, P, Q), d, n)
  BY Zenon DEF Kept
<1>2. Elems(P[w]) \subseteq 1 .. n /\ Elems(P[w]) \cap d = {} /\ d \subseteq 1 .. n
  <2>1. Place(S, P, Q)["pool"][w] = Elems(P[w]) /\ "pool" \in Kinds
    BY Places DEF Kinds
  <2> QED
    BY <1>1, <2>1 DEF Split
<1>3. /\ Popped(P[w], c) \in Seq(Nat) /\ Unique(Popped(P[w], c))
      /\ Elems(Popped(P[w], c)) \subseteq Elems(P[w]) /\ m \in Nat /\ n <= m
      /\ X = Y \cup (n + 1 .. m) /\ \A i \in 1 .. c : Given(P[w], i, n) \in Nat
      /\ GivesOnce(P[w], c, n)
  BY <1>1, <1>2, PoppedFacts, Zenon DEF Gives, GivesOnce
<1>4. /\ B \in [Workers -> Seq(Nat)]
      /\ \A v \in Workers : B[v] = IF v = w THEN Popped(P[w], c) ELSE P[v]
  BY <1>1, <1>3, Zenon
<1>5. X \subseteq Nat
  BY <1>3, Zenon DEF Gives
<1> HIDE DEF X, B, m, Y
<1>6. \A v \in Workers : Unique(B[v])
  BY <1>1, <1>3, <1>4, Zenon
<1>7. \A j \in Kinds, u \in Workers :
        Place(S, B, Q)[j][u] = IF j = "pool" /\ u = w THEN Place(S, P, Q)[j][u] \ Y
                               ELSE Place(S, P, Q)[j][u]
  <2> SUFFICES ASSUME NEW j \in Kinds, NEW u \in Workers
               PROVE Place(S, B, Q)[j][u] = IF j = "pool" /\ u = w THEN Place(S, P, Q)[j][u] \ Y
                                            ELSE Place(S, P, Q)[j][u]
    BY Zenon
  <2>1. CASE j = "pool"
    <3>1. Place(S, B, Q)[j][u] = Elems(B[u]) /\ Place(S, P, Q)[j][u] = Elems(P[u])
      BY <2>1, Places, SMTT(60)
    <3>2. Elems(Popped(P[w], c)) = Elems(P[w]) \ Y
      BY <1>3, Zenon DEF Y
    <3> QED
      BY <1>4, <2>1, <3>1, <3>2, Zenon
  <2>2. CASE j = "slot" \/ j = "queue"
    BY <2>2, Places
  <2> QED
    BY <2>1, <2>2, Zenon DEF Kinds
<1>8. Y \subseteq Place(S, P, Q)["pool"][w] /\ "pool" \in Kinds
  BY Places DEF Y, Kinds
<1>9. Split(Place(S, B, Q), d \cup Y \cup (n + 1 .. m), m)
  <2>1. Takes(Place(S, P, Q), Place(S, B, Q), Y, "pool", w)
    BY <1>7, <1>8, Zenon DEF Takes
  <2> QED
    BY <1>1, <1>3, <2>1, Taken, Zenon
<1>10. d \cup Y \cup (n + 1 .. m) = d \cup X
  BY <1>3, Zenon
<1>11. X \cap d = {}
  <2>1. (n + 1 .. m) \cap d = {}
    BY <1>1, <1>2, <1>3
  <2> QED
    BY <1>2, <1>3, <2>1, Zenon DEF Y
<1>12. Kept(S, B, Q, d \cup X, m)
  BY <1>1, <1>3, <1>4, <1>6, <1>9, <1>10, Zenon DEF Kept
<1> QED
  BY <1>3, <1>5, <1>11, <1>12, Zenon DEF X, B, m

\* NewBuffer or NewPacket.
LEMMA TakeOne ==
  ASSUME NEW S, NEW P, NEW Q, NEW d, NEW n, Kept(S, P, Q, d, n), NEW w \in Workers
  PROVE  /\ Kept(S, [P EXCEPT ![w] = Popped(@, 1)], Q, d \cup {Given(P[w], 1, n)},
                 Made(P[w], 1, n))
         /\ Given(P[w], 1, n) \in Nat /\ Given(P[w], 1, n) \notin d
<1>1. Gives(P[w], 1, n) = {Given(P[w], 1, n)}
  <2>1. 1 .. 1 = {1}
    OBVIOUS
  <2> QED
    BY <2>1, Zenon DEF Gives
<1>2. /\ Kept(S, [P EXCEPT ![w] = Popped(@, 1)], Q, d \cup Gives(P[w], 1, n), Made(P[w], 1, n))
      /\ Gives(P[w], 1, n) \subseteq Nat /\ Gives(P[w], 1, n) \cap d = {}
  BY TakeMany, 1 \in Nat, Zenon
<1> QED
  BY <1>1, <1>2, ZenonT(60)

\* X, taken from one place, is put to another.
LEMMA Put ==
  ASSUME NEW S, NEW P, NEW Q, NEW d, NEW X, NEW n, Kept(S, P, Q, d \cup X, n), d \cap X = {},
         NEW T \in [Workers -> SUBSET Nat], NEW U \in [Workers -> Seq(Nat)],
         NEW V \in [Workers -> Seq(Nat)], \A v \in Workers : Unique(U[v]) /\ Unique(V[v]),
         NEW l, NEW w, Puts(Place(S, P, Q), Place(T, U, V), X, l, w)
  PROVE  Kept(T, U, V, d, n)
<1>1. n \in Nat /\ Split(Place(S, P, Q), d \cup X, n)
  BY Zenon DEF Kept
<1>2. Split(Place(T, U, V), d, n)
  BY <1>1, Placed, Zenon
<1> QED
  BY <1>1, <1>2, Zenon DEF Kept

\* Pool puts it on top.
LEMMA ToPool ==
  ASSUME NEW S, NEW P, NEW Q, NEW d, NEW n, NEW x \in Nat, Kept(S, P, Q, d \cup {x}, n), x \notin d,
         NEW w \in Workers
  PROVE  Kept(S, [P EXCEPT ![w] = Append(@, x)], Q, d, n)
<1>1. PICK U : U = [P EXCEPT ![w] = Append(@, x)]
  BY Zenon
<1>2. /\ S \in [Workers -> SUBSET Nat]
      /\ P \in [Workers -> Seq(Nat)] /\ Q \in [Workers -> Seq(Nat)]
      /\ \A v \in Workers : Unique(P[v]) /\ Unique(Q[v])
      /\ Split(Place(S, P, Q), d \cup {x}, n)
  BY Zenon DEF Kept
<1>3. x \notin Elems(P[w])
  <2>1. Place(S, P, Q)["pool"][w] = Elems(P[w]) /\ "pool" \in Kinds
    BY Places, SMTT(60) DEF Kinds
  <2> QED
    BY <1>2, <2>1 DEF Split
<1>4. /\ Append(P[w], x) \in Seq(Nat) /\ Elems(Append(P[w], x)) = Elems(P[w]) \cup {x}
      /\ Unique(Append(P[w], x))
  BY <1>2, <1>3, AppendFacts, Zenon
<1>5. /\ U \in [Workers -> Seq(Nat)]
      /\ \A v \in Workers : U[v] = IF v = w THEN Append(P[w], x) ELSE P[v]
  BY <1>1, <1>2, <1>4, Zenon
<1>6. \A v \in Workers : Unique(U[v]) /\ Unique(Q[v])
  BY <1>2, <1>4, <1>5, Zenon
<1>P. \A u \in Workers : /\ Place(S, U, Q)["slot"][u] = Place(S, P, Q)["slot"][u]
                         /\ Place(S, U, Q)["queue"][u] = Place(S, P, Q)["queue"][u]
                         /\ Place(S, U, Q)["pool"][u] = Elems(U[u])
                         /\ Place(S, P, Q)["pool"][u] = Elems(P[u])
  BY Places, SMTT(60)
<1>7. Place(S, U, Q)["pool"][w] = Place(S, P, Q)["pool"][w] \cup {x} /\ "pool" \in Kinds
  BY <1>4, <1>5, <1>P, Zenon DEF Kinds
<1>8. ASSUME NEW j \in Kinds, NEW u \in Workers, j # "pool" \/ u # w
      PROVE  Place(S, U, Q)[j][u] = Place(S, P, Q)[j][u]
  <2>1. CASE j = "pool"
    BY <1>5, <1>8, <2>1, <1>P, ZenonT(60)
  <2>2. CASE j = "slot" \/ j = "queue"
    BY <2>2, <1>P, ZenonT(60)
  <2> QED
    BY <2>1, <2>2, Zenon DEF Kinds
<1>9. d \cap {x} = {}
  BY Zenon
<1>10. Puts(Place(S, P, Q), Place(S, U, Q), {x}, "pool", w)
  BY <1>7, <1>8, Zenon DEF Puts
<1>11. Kept(S, U, Q, d, n)
  BY <1>2, <1>5, <1>6, <1>9, <1>10, Put, Zenon
<1> QED
  BY <1>1, <1>11, Zenon

\* A packet for another worker is appended to its queue.
LEMMA ToQueue ==
  ASSUME NEW S, NEW P, NEW Q, NEW d, NEW n, NEW x \in Nat, Kept(S, P, Q, d \cup {x}, n), x \notin d,
         NEW w \in Workers
  PROVE  Kept(S, P, [Q EXCEPT ![w] = Append(@, x)], d, n)
<1>1. PICK V : V = [Q EXCEPT ![w] = Append(@, x)]
  BY Zenon
<1>2. /\ S \in [Workers -> SUBSET Nat]
      /\ P \in [Workers -> Seq(Nat)] /\ Q \in [Workers -> Seq(Nat)]
      /\ \A v \in Workers : Unique(P[v]) /\ Unique(Q[v])
      /\ Split(Place(S, P, Q), d \cup {x}, n)
  BY Zenon DEF Kept
<1>3. x \notin Elems(Q[w])
  <2>1. Place(S, P, Q)["queue"][w] = Elems(Q[w]) /\ "queue" \in Kinds
    BY Places DEF Kinds
  <2> QED
    BY <1>2, <2>1 DEF Split
<1>4. /\ Append(Q[w], x) \in Seq(Nat) /\ Elems(Append(Q[w], x)) = Elems(Q[w]) \cup {x}
      /\ Unique(Append(Q[w], x))
  BY <1>2, <1>3, AppendFacts, Zenon
<1>5. /\ V \in [Workers -> Seq(Nat)]
      /\ \A v \in Workers : V[v] = IF v = w THEN Append(Q[w], x) ELSE Q[v]
  BY <1>1, <1>2, <1>4, Zenon
<1>6. \A v \in Workers : Unique(P[v]) /\ Unique(V[v])
  BY <1>2, <1>4, <1>5, Zenon
<1>P. \A u \in Workers : /\ Place(S, P, V)["slot"][u] = Place(S, P, Q)["slot"][u]
                         /\ Place(S, P, V)["pool"][u] = Place(S, P, Q)["pool"][u]
                         /\ Place(S, P, V)["queue"][u] = Elems(V[u])
                         /\ Place(S, P, Q)["queue"][u] = Elems(Q[u])
  BY Places, SMTT(60)
<1>7. Place(S, P, V)["queue"][w] = Place(S, P, Q)["queue"][w] \cup {x} /\ "queue" \in Kinds
  BY <1>4, <1>5, <1>P, Zenon DEF Kinds
<1>8. ASSUME NEW j \in Kinds, NEW u \in Workers, j # "queue" \/ u # w
      PROVE  Place(S, P, V)[j][u] = Place(S, P, Q)[j][u]
  <2>1. CASE j = "queue"
    BY <1>5, <1>8, <2>1, <1>P, ZenonT(60)
  <2>2. CASE j = "slot" \/ j = "pool"
    BY <2>2, <1>P, Zenon
  <2> QED
    BY <2>1, <2>2, Zenon DEF Kinds
<1>9. d \cap {x} = {}
  BY Zenon
<1>10. Puts(Place(S, P, Q), Place(S, P, V), {x}, "queue", w)
  BY <1>7, <1>8, Zenon DEF Puts
<1>11. Kept(S, P, V, d, n)
  BY <1>2, <1>5, <1>6, <1>9, <1>10, Put, Zenon
<1> QED
  BY <1>1, <1>11, ZenonT(60)

\* X is taken out, and nothing is new.
LEMMA Take ==
  ASSUME NEW f, NEW g, NEW d, NEW n \in Nat, NEW X, NEW k, NEW v, Split(f, d, n),
         Takes(f, g, X, k, v)
  PROVE  Split(g, d \cup X, n) /\ X \cap d = {}
<1>1. n <= n /\ n + 1 .. n = {}
  BY SMTT(60)
<1>2. Split(g, d \cup X \cup (n + 1 .. n), n)
  BY <1>1, Taken, Zenon
<1>3. d \cup X \cup (n + 1 .. n) = d \cup X
  BY <1>1, Zenon
<1>4. X \cap d = {}
  BY Zenon DEF Takes, Split
<1> QED
  BY <1>2, <1>3, <1>4, Zenon

\* The first packet of the queue is taken.
LEMMA FromQueue ==
  ASSUME NEW S, NEW P, NEW Q, NEW d, NEW n, Kept(S, P, Q, d, n), NEW w \in Workers, Q[w] # << >>
  PROVE  /\ Kept(S, P, [Q EXCEPT ![w] = Tail(@)], d \cup {Head(Q[w])}, n)
         /\ Head(Q[w]) \in Nat /\ Head(Q[w]) \notin d
<1>1. PICK V : V = [Q EXCEPT ![w] = Tail(@)]
  BY Zenon
<1>2. /\ S \in [Workers -> SUBSET Nat]
      /\ P \in [Workers -> Seq(Nat)] /\ Q \in [Workers -> Seq(Nat)]
      /\ \A v \in Workers : Unique(P[v]) /\ Unique(Q[v])
      /\ n \in Nat /\ Split(Place(S, P, Q), d, n)
  BY Zenon DEF Kept
<1>3. /\ Tail(Q[w]) \in Seq(Nat) /\ Head(Q[w]) \in Elems(Q[w]) /\ Head(Q[w]) \in Nat
      /\ Elems(Tail(Q[w])) = Elems(Q[w]) \ {Head(Q[w])} /\ Unique(Tail(Q[w]))
  BY <1>2, TailFacts, Zenon
<1>4. /\ V \in [Workers -> Seq(Nat)]
      /\ \A v \in Workers : V[v] = IF v = w THEN Tail(Q[w]) ELSE Q[v]
  BY <1>1, <1>2, <1>3, Zenon
<1>5. \A v \in Workers : Unique(P[v]) /\ Unique(V[v])
  BY <1>2, <1>3, <1>4, Zenon
<1>6. \A u \in Workers : /\ Place(S, P, V)["slot"][u] = Place(S, P, Q)["slot"][u]
                         /\ Place(S, P, V)["pool"][u] = Place(S, P, Q)["pool"][u]
                         /\ Place(S, P, V)["queue"][u] = Elems(V[u])
                         /\ Place(S, P, Q)["queue"][u] = Elems(Q[u])
  BY Places, SMTT(60)
<1>7. ASSUME NEW j \in Kinds, NEW u \in Workers
      PROVE  Place(S, P, V)[j][u] = IF j = "queue" /\ u = w THEN Place(S, P, Q)[j][u] \ {Head(Q[w])}
                                    ELSE Place(S, P, Q)[j][u]
  <2>1. CASE j = "queue"
    BY <1>3, <1>4, <1>6, <2>1, ZenonT(60)
  <2>2. CASE j = "slot" \/ j = "pool"
    BY <1>6, <2>2, ZenonT(60)
  <2> QED
    BY <2>1, <2>2, Zenon DEF Kinds
<1>8. Takes(Place(S, P, Q), Place(S, P, V), {Head(Q[w])}, "queue", w)
  <2>1. {Head(Q[w])} \subseteq Place(S, P, Q)["queue"][w] /\ "queue" \in Kinds
    BY <1>3, <1>6, Zenon DEF Kinds
  <2> QED
    BY <1>7, <2>1, Zenon DEF Takes
<1>9. Kept(S, P, V, d \cup {Head(Q[w])}, n) /\ {Head(Q[w])} \cap d = {}
  <2>1. Split(Place(S, P, V), d \cup {Head(Q[w])}, n) /\ {Head(Q[w])} \cap d = {}
    <3>1. PICK X : X = {Head(Q[w])}
      BY ZenonT(60)
    <3>2. PICK f : f = Place(S, P, Q)
      BY Zenon
    <3>3. PICK g : g = Place(S, P, V)
      BY Zenon
    <3>4. Takes(f, g, X, "queue", w) /\ Split(f, d, n)
      BY <1>2, <1>8, <3>1, <3>2, <3>3, Zenon
    <3>5. Split(g, d \cup X, n)
      BY <1>2, <3>4, Take, ZenonT(60)
    <3>6. X \cap d = {}
      BY <1>2, <3>4, Take, ZenonT(60)
    <3> QED
      BY <3>1, <3>3, <3>5, <3>6, Zenon
  <2> QED
    BY <1>2, <1>4, <1>5, <2>1, Zenon DEF Kept
<1> QED
  BY <1>1, <1>3, <1>9, Zenon

\* A buffer is handed over from its slot.
LEMMA FromSlot ==
  ASSUME NEW S, NEW P, NEW Q, NEW d, NEW n, Kept(S, P, Q, d, n), NEW w \in Workers, NEW x \in S[w]
  PROVE  /\ Kept([S EXCEPT ![w] = @ \ {x}], P, Q, d \cup {x}, n)
         /\ x \in Nat /\ x \notin d
<1>1. PICK T : T = [S EXCEPT ![w] = @ \ {x}]
  BY Zenon
<1>2. /\ S \in [Workers -> SUBSET Nat]
      /\ P \in [Workers -> Seq(Nat)] /\ Q \in [Workers -> Seq(Nat)]
      /\ \A v \in Workers : Unique(P[v]) /\ Unique(Q[v])
      /\ n \in Nat /\ Split(Place(S, P, Q), d, n)
  BY Zenon DEF Kept
<1>3. /\ T \in [Workers -> SUBSET Nat]
      /\ \A v \in Workers : T[v] = IF v = w THEN S[w] \ {x} ELSE S[v]
  BY <1>1, <1>2, Zenon
<1>4. \A u \in Workers : /\ Place(T, P, Q)["queue"][u] = Place(S, P, Q)["queue"][u]
                         /\ Place(T, P, Q)["pool"][u] = Place(S, P, Q)["pool"][u]
                         /\ Place(T, P, Q)["slot"][u] = T[u]
                         /\ Place(S, P, Q)["slot"][u] = S[u]
  BY Places
<1>5. ASSUME NEW j \in Kinds, NEW u \in Workers
      PROVE  Place(T, P, Q)[j][u] = IF j = "slot" /\ u = w THEN Place(S, P, Q)[j][u] \ {x}
                                    ELSE Place(S, P, Q)[j][u]
  <2>1. CASE j = "slot"
    BY <1>3, <1>4, <2>1, SMTT(60)
  <2>2. CASE j = "queue" \/ j = "pool"
    BY <1>4, <2>2, Zenon
  <2> QED
    BY <2>1, <2>2, Zenon DEF Kinds
<1>6. Takes(Place(S, P, Q), Place(T, P, Q), {x}, "slot", w)
  <2>1. {x} \subseteq Place(S, P, Q)["slot"][w] /\ "slot" \in Kinds
    BY <1>4, Zenon DEF Kinds
  <2> QED
    BY <1>5, <2>1, Zenon DEF Takes
<1>7. Kept(T, P, Q, d \cup {x}, n) /\ {x} \cap d = {}
  <2>1. Split(Place(T, P, Q), d \cup {x}, n) /\ {x} \cap d = {}
    <3>1. PICK X : X = {x}
      BY Zenon
    <3>2. PICK f : f = Place(S, P, Q)
      BY Zenon
    <3>3. PICK g : g = Place(T, P, Q)
      BY Zenon
    <3>4. Takes(f, g, X, "slot", w) /\ Split(f, d, n)
      BY <1>2, <1>6, <3>1, <3>2, <3>3, Zenon
    <3>5. Split(g, d \cup X, n)
      BY <1>2, <3>4, Take, ZenonT(60)
    <3>6. X \cap d = {}
      BY <1>2, <3>4, Take, Zenon
    <3> QED
      BY <3>1, <3>3, <3>5, <3>6, Zenon
  <2> QED
    BY <1>2, <1>3, <2>1, Zenon DEF Kept
<1>8. x \in Nat
  BY <1>2, Zenon
<1> QED
  BY <1>1, <1>7, <1>8, Zenon

\* Buffers are put into slots.
LEMMA ToSlots ==
  ASSUME NEW S, NEW P, NEW Q, NEW d, NEW n, NEW X \in SUBSET Nat, Kept(S, P, Q, d \cup X, n),
         d \cap X = {}, NEW w \in Workers
  PROVE  Kept([S EXCEPT ![w] = @ \cup X], P, Q, d, n)
<1>1. PICK T : T = [S EXCEPT ![w] = @ \cup X]
  BY Zenon
<1>2. /\ S \in [Workers -> SUBSET Nat]
      /\ P \in [Workers -> Seq(Nat)] /\ Q \in [Workers -> Seq(Nat)]
      /\ \A v \in Workers : Unique(P[v]) /\ Unique(Q[v])
  BY Zenon DEF Kept
<1>3. /\ T \in [Workers -> SUBSET Nat]
      /\ \A v \in Workers : T[v] = IF v = w THEN S[w] \cup X ELSE S[v]
  BY <1>1, <1>2, Zenon
<1>4. \A u \in Workers : /\ Place(T, P, Q)["queue"][u] = Place(S, P, Q)["queue"][u]
                         /\ Place(T, P, Q)["pool"][u] = Place(S, P, Q)["pool"][u]
                         /\ Place(T, P, Q)["slot"][u] = T[u]
                         /\ Place(S, P, Q)["slot"][u] = S[u]
  BY Places, SMTT(60)
<1>5. ASSUME NEW j \in Kinds, NEW u \in Workers, j # "slot" \/ u # w
      PROVE  Place(T, P, Q)[j][u] = Place(S, P, Q)[j][u]
  <2>1. CASE j = "slot"
    BY <1>3, <1>4, <1>5, <2>1, Zenon
  <2>2. CASE j = "queue" \/ j = "pool"
    BY <1>4, <2>2, ZenonT(60)
  <2> QED
    BY <2>1, <2>2, Zenon DEF Kinds
<1>6. Puts(Place(S, P, Q), Place(T, P, Q), X, "slot", w)
  BY <1>3, <1>4, <1>5, ZenonT(60) DEF Puts, Kinds
<1>7. Kept(T, P, Q, d, n)
  BY <1>2, <1>3, <1>6, Put, Zenon
<1> QED
  BY <1>1, <1>7, Zenon

----------------------------------------------------------------------------
\* The steps.
LEMMA SlotsStay ==
  ASSUME Types, \A v \in Workers : Single(v), UNCHANGED <<multi, slot, last, batch>>
  PROVE  Slotted' = Slotted /\ \A v \in Workers : Single(v)'
<1>1. \A v \in Workers : Full(v)' = Full(v)
  BY Zenon DEF Full, Fresh, NextSlot
<1> QED
  BY <1>1, SMTT(60) DEF Slotted, Single

\* The message of the next slot is handed over, or passed over.
LEMMA NextMessage ==
  ASSUME IInv, NEW w \in Workers, batch[w] # << >>, batch' = [batch EXCEPT ![w] = Tail(@)],
         UNCHANGED <<multi, slot, last>>
  PROVE  /\ slot[w][NextSlot(w)] \in Slotted[w]
         /\ Slotted' = [Slotted EXCEPT ![w] = @ \ {slot[w][NextSlot(w)]}]
         /\ \A v \in Workers : Single(v)'
         /\ batch' \in [Workers -> Seq(Destinations)]
<1> DEFINE s == NextSlot(w)
<1>1. /\ multi /\ NumSlots \in Nat /\ slot \in [Workers -> [Slots -> Nat]]
      /\ last \in [Workers -> 0 .. NumSlots] /\ batch \in [Workers -> Seq(Destinations)]
      /\ \A v \in Workers : Single(v)
  BY BoundsAssumption, ZenonT(60) DEF IInv, Types, Single
<1>2. /\ Len(batch[w]) \in Nat /\ Len(batch[w]) > 0 /\ Tail(batch[w]) \in Seq(Destinations)
      /\ Len(Tail(batch[w])) = Len(batch[w]) - 1 /\ Len(batch[w]) <= last[w]
  BY <1>1, SMTT(60) DEF Single
<1>3. /\ batch' \in [Workers -> Seq(Destinations)]
      /\ \A v \in Workers : v # w => batch'[v] = batch[v]
  BY <1>1, <1>2, Zenon
<1>4. s \in Slots /\ s \in Nat /\ NextSlot(w)' = s + 1
  BY <1>1, <1>2, SMTT(60) DEF NextSlot, Slots
<1>5. s \in Full(w) /\ Full(w)' = Full(w) \ {s}
  BY <1>1, <1>4, SMTT(60) DEF Full, Fresh, Slots
<1>6. ASSUME NEW v \in Workers, v # w PROVE Full(v)' = Full(v) /\ Single(v)'
  <2>1. Full(v)' = Full(v)
    BY <1>3, <1>6, Zenon DEF Full, Fresh, NextSlot
  <2> QED
    BY <1>1, <1>3, <1>6, <2>1, SMTT(60) DEF Single
<1>7. \A i, j \in Full(w) : slot[w][i] = slot[w][j] => i = j
  BY <1>1, Zenon DEF Single
<1>8. Single(w)'
  BY <1>1, <1>2, <1>5, <1>7 DEF Single
<1> HIDE DEF s
<1>9. {slot[w][i] : i \in Full(w) \ {s}} = {slot[w][i] : i \in Full(w)} \ {slot[w][s]}
  BY <1>5, <1>7, Zenon
<1>10. Slotted' = [Slotted EXCEPT ![w] = @ \ {slot[w][s]}]
  <2>1. \A v \in Workers : v # w => {slot[v][i] : i \in Full(v)}' = {slot[v][i] : i \in Full(v)}
    BY <1>6, Zenon
  <2>2. {slot[w][i] : i \in Full(w)}' = {slot[w][i] : i \in Full(w) \ {s}}
    BY <1>5, Zenon
  <2>3. Slotted' = [v \in Workers |-> {slot[v][i] : i \in Full(v)}']
    BY Zenon DEF Slotted
  <2>4. \A v \in Workers : Slotted'[v] = IF v = w THEN Slotted[w] \ {slot[w][s]} ELSE Slotted[v]
    <3>1. Slotted'[w] = Slotted[w] \ {slot[w][s]}
      <4>1. Slotted'[w] = {slot[w][i] : i \in Full(w)}' /\ Slotted[w] = {slot[w][i] : i \in Full(w)}
        BY <2>3, ZenonT(60) DEF Slotted
      <4> QED
        BY <1>9, <2>2, <4>1, Zenon
    <3>2. ASSUME NEW v \in Workers, v # w PROVE Slotted'[v] = Slotted[v]
      <4>1. Slotted'[v] = {slot[v][i] : i \in Full(v)}' /\ Slotted[v] = {slot[v][i] : i \in Full(v)}
        BY <2>3, Zenon DEF Slotted
      <4> QED
        BY <2>1, <3>2, <4>1, Zenon
    <3> QED
      BY <3>1, <3>2, Zenon
  <2>5. /\ Slotted' = [v \in Workers |-> Slotted'[v]]
        /\ Slotted = [v \in Workers |-> Slotted[v]]
    BY Zenon DEF Slotted
  <2> QED
    BY <2>4, <2>5, Zenon
<1>11. slot[w][s] \in Slotted[w]
  BY <1>5, Zenon DEF Slotted
<1> QED
  BY <1>3, <1>6, <1>8, <1>10, <1>11, Zenon DEF s

\* OnRecv, with b taken from where it was.
LEMMA OnRecvKeeps ==
  ASSUME NEW w \in Workers, NEW b \in Nat, NEW d, NEW S, NEW pool, NEW n,
         queue \in [Workers -> Seq(Packets)],
         dropped \in [buffers : SUBSET Nat, objects : SUBSET Nat],
         Kept(S, pool, BufferQueue, dropped.buffers \cup {b}, n), b \notin dropped.buffers,
         Kept(NoSlots, packet_pool, ObjectQueue, dropped.objects, objects),
         OnRecv(w, b, d, pool)
  PROVE  /\ Kept(S, buffer_pool', BufferQueue', dropped'.buffers, n)
         /\ Kept(NoSlots, packet_pool', ObjectQueue', dropped'.objects, objects')
         /\ queue' \in [Workers -> Seq(Packets)]
         /\ dropped' \in [buffers : SUBSET Nat, objects : SUBSET Nat]
<1>1. PICK o : o = Given(packet_pool[w], 1, objects)
  BY ZenonT(60)
<1>2. PICK p : p = [packet_pool EXCEPT ![w] = Popped(@, 1)]
  BY Zenon
<1>3. objects' = Made(packet_pool[w], 1, objects)
  BY Zenon DEF OnRecv
<1>4. Kept(NoSlots, p, ObjectQueue, dropped.objects \cup {o}, objects') /\ o \in Nat
      /\ o \notin dropped.objects
  BY <1>1, <1>2, <1>3, TakeOne, Zenon
<1>5. CASE /\ client \/ d = NoId
           /\ dropped' = [buffers |-> dropped.buffers \cup {b},
                          objects |-> dropped.objects \cup {o}]
           /\ buffer_pool' = pool /\ packet_pool' = p /\ queue' = queue
  <2>1. BufferQueue' = BufferQueue /\ ObjectQueue' = ObjectQueue
    BY <1>5, Zenon DEF BufferQueue, ObjectQueue
  <2> QED
    BY <1>4, <1>5, <2>1, ZenonT(60)
<1>6. CASE /\ d = w /\ queue' = queue /\ dropped' = dropped
           /\ buffer_pool' = [pool EXCEPT ![w] = Append(@, b)]
           /\ packet_pool' = [p EXCEPT ![w] = Append(@, o)]
  <2>1. BufferQueue' = BufferQueue /\ ObjectQueue' = ObjectQueue
    BY <1>6, ZenonT(60) DEF BufferQueue, ObjectQueue
  <2>2. Kept(S, buffer_pool', BufferQueue, dropped.buffers, n)
    BY <1>6, ToPool, Zenon
  <2>3. Kept(NoSlots, packet_pool', ObjectQueue, dropped.objects, objects')
    BY <1>4, <1>6, ToPool, Zenon
  <2> QED
    BY <1>6, <2>1, <2>2, <2>3, Zenon
<1>7. CASE /\ d \in Workers /\ dropped' = dropped /\ buffer_pool' = pool /\ packet_pool' = p
           /\ queue' = [queue EXCEPT ![d] = Append(@, [buffer |-> b, object |-> o])]
  <2>1. PICK k : k = [buffer |-> b, object |-> o]
    BY ZenonT(60)
  <2>2. k \in Packets /\ k.buffer = b /\ k.object = o
    BY <1>4, <2>1, Zenon DEF Packets
  <2>3. /\ Append(queue[d], k) \in Seq(Packets)
        /\ BufferSeq(Append(queue[d], k)) = Append(BufferSeq(queue[d]), b)
        /\ ObjectSeq(Append(queue[d], k)) = Append(ObjectSeq(queue[d]), o)
    BY <1>7, <2>2, QueueSeqs, Zenon
  <2>4. /\ queue' \in [Workers -> Seq(Packets)]
        /\ \A v \in Workers : queue'[v] = IF v = d THEN Append(queue[d], k) ELSE queue[v]
    BY <1>7, <2>1, <2>3, Zenon
  <2>5. /\ BufferQueue' = [BufferQueue EXCEPT ![d] = Append(@, b)]
        /\ ObjectQueue' = [ObjectQueue EXCEPT ![d] = Append(@, o)]
    BY <2>3, <2>4, ZenonT(60) DEF BufferQueue, ObjectQueue
  <2>6. Kept(S, pool, BufferQueue', dropped.buffers, n)
    BY <1>7, <2>5, ToQueue, Zenon
  <2>7. Kept(NoSlots, p, ObjectQueue', dropped.objects, objects')
    BY <1>4, <1>7, <2>5, ToQueue, Zenon
  <2> QED
    BY <1>7, <2>4, <2>6, <2>7, Zenon
<1> QED
  BY <1>1, <1>2, <1>5, <1>6, <1>7, Zenon DEF OnRecv

\* Types of pools that follow from Kept.
LEMMA KeptTypes ==
  ASSUME NEW S, NEW P, NEW Q, NEW d, NEW n, Kept(S, P, Q, d, n)
  PROVE  P \in [Workers -> Seq(Nat)] /\ n \in Nat
BY Zenon DEF Kept

\* A message that is passed over: its buffer leaves its slot and is dropped.
LEMMA SkipsStep ==
  ASSUME IInv, NEW w \in Workers, Skips(w) PROVE IInv'
<1>1. PICK b : b = slot[w][NextSlot(w)]
  BY ZenonT(60)
<1>2. /\ Types
      /\ Kept(Slotted, buffer_pool, BufferQueue, dropped.buffers, buffers)
      /\ Kept(NoSlots, packet_pool, ObjectQueue, dropped.objects, objects)
  BY Zenon DEF IInv
<1>3. /\ b \in Slotted[w] /\ Slotted' = [Slotted EXCEPT ![w] = @ \ {b}]
      /\ \A v \in Workers : Single(v)'
      /\ batch' \in [Workers -> Seq(Destinations)]
  BY <1>1, NextMessage, Zenon DEF Skips
<1>4. Kept(Slotted', buffer_pool, BufferQueue, dropped.buffers \cup {b}, buffers) /\ b \in Nat
  BY <1>2, <1>3, FromSlot, Zenon
<1>5. /\ UNCHANGED <<multi, client, slot, last, buffer_pool, packet_pool, queue, buffers, objects>>
      /\ dropped' = [dropped EXCEPT !.buffers = @ \cup {b}]
  BY <1>1, Zenon DEF Skips
<1>6. BufferQueue' = BufferQueue /\ ObjectQueue' = ObjectQueue /\ NoSlots' = NoSlots
  BY <1>5, Zenon DEF BufferQueue, ObjectQueue, NoSlots
<1>7. /\ dropped' \in [buffers : SUBSET Nat, objects : SUBSET Nat]
      /\ dropped'.buffers = dropped.buffers \cup {b} /\ dropped'.objects = dropped.objects
  BY <1>2, <1>4, <1>5, Zenon DEF Types
<1>8. Types'
  BY BoundsAssumption, <1>2, <1>3, <1>5, <1>7, Zenon DEF Types
<1> QED
  BY <1>2, <1>3, <1>4, <1>5, <1>6, <1>7, <1>8, Zenon DEF IInv

\* A message of a batch goes to OnRecv: its buffer leaves its slot.
LEMMA DeliversStep ==
  ASSUME IInv, NEW w \in Workers, Delivers(w) PROVE IInv'
<1>1. PICK b : b = slot[w][NextSlot(w)]
  BY ZenonT(60)
<1>2. /\ Types
      /\ Kept(Slotted, buffer_pool, BufferQueue, dropped.buffers, buffers)
      /\ Kept(NoSlots, packet_pool, ObjectQueue, dropped.objects, objects)
  BY Zenon DEF IInv
<1>3. /\ b \in Slotted[w] /\ Slotted' = [Slotted EXCEPT ![w] = @ \ {b}]
      /\ \A v \in Workers : Single(v)'
      /\ batch' \in [Workers -> Seq(Destinations)]
  BY <1>1, NextMessage, Zenon DEF Delivers
<1>4. /\ Kept(Slotted', buffer_pool, BufferQueue, dropped.buffers \cup {b}, buffers) /\ b \in Nat
      /\ b \notin dropped.buffers
  BY <1>2, <1>3, FromSlot, Zenon
<1>5. UNCHANGED <<multi, client, slot, last, buffers>>
  BY Zenon DEF Delivers
<1>6. OnRecv(w, b, Head(batch[w]), buffer_pool)
  BY <1>1, Zenon DEF Delivers
<1>7. /\ Kept(Slotted', buffer_pool', BufferQueue', dropped'.buffers, buffers)
      /\ Kept(NoSlots, packet_pool', ObjectQueue', dropped'.objects, objects')
      /\ queue' \in [Workers -> Seq(Packets)]
      /\ dropped' \in [buffers : SUBSET Nat, objects : SUBSET Nat]
  BY <1>2, <1>4, <1>6, OnRecvKeeps, Zenon DEF Types
<1>8. /\ buffer_pool' \in [Workers -> Seq(Nat)] /\ packet_pool' \in [Workers -> Seq(Nat)]
      /\ objects' \in Nat /\ NoSlots' = NoSlots
  BY <1>7, KeptTypes, Zenon DEF NoSlots
<1>9. Types'
  BY BoundsAssumption, <1>2, <1>3, <1>5, <1>7, <1>8, Zenon DEF Types
<1> QED
  BY <1>3, <1>5, <1>7, <1>8, <1>9, ZenonT(60) DEF IInv

\* Nothing was read: the buffer goes back into the pool it is from.
LEMMA ReadFailsStep ==
  ASSUME IInv, NEW w \in Workers, ReadFails(w) PROVE IInv'
<1>1. PICK b : b = Given(buffer_pool[w], 1, buffers)
  BY Zenon
<1>2. PICK p : p = [buffer_pool EXCEPT ![w] = Popped(@, 1)]
  BY Zenon
<1>3. /\ Types /\ \A v \in Workers : Single(v)
      /\ Kept(Slotted, buffer_pool, BufferQueue, dropped.buffers, buffers)
      /\ Kept(NoSlots, packet_pool, ObjectQueue, dropped.objects, objects)
  BY Zenon DEF IInv
<1>4. /\ UNCHANGED <<multi, client, slot, last, batch, packet_pool, queue, objects, dropped>>
      /\ buffers' = Made(buffer_pool[w], 1, buffers)
  BY Zenon DEF ReadFails
<1>5. buffer_pool' = [p EXCEPT ![w] = Append(@, b)]
  BY <1>1, <1>2, <1>3, Zenon DEF ReadFails, Types
<1>6. /\ Kept(Slotted, p, BufferQueue, dropped.buffers \cup {b}, buffers') /\ b \in Nat
      /\ b \notin dropped.buffers
  BY <1>1, <1>2, <1>3, <1>4, TakeOne, Zenon
<1>7. Kept(Slotted, buffer_pool', BufferQueue, dropped.buffers, buffers')
  BY <1>5, <1>6, ToPool, ZenonT(60)
<1>8. /\ Slotted' = Slotted /\ (\A v \in Workers : Single(v)') /\ NoSlots' = NoSlots
      /\ BufferQueue' = BufferQueue /\ ObjectQueue' = ObjectQueue
  BY <1>3, <1>4, SlotsStay, Zenon DEF BufferQueue, ObjectQueue, NoSlots
<1>9. buffer_pool' \in [Workers -> Seq(Nat)] /\ buffers' \in Nat
  BY <1>7, KeptTypes, Zenon
<1>10. Types'
  BY BoundsAssumption, <1>3, <1>4, <1>9, Zenon DEF Types
<1> QED
  BY <1>3, <1>4, <1>7, <1>8, <1>10, ZenonT(60) DEF IInv

\* A message read without recvmmsg: its buffer is from the pool.
LEMMA ReadPacketsStep ==
  ASSUME IInv, NEW w \in Workers, ReadPackets(w) PROVE IInv'
<1>1. PICK b : b = Given(buffer_pool[w], 1, buffers)
  BY Zenon
<1>2. PICK p : p = [buffer_pool EXCEPT ![w] = Popped(@, 1)]
  BY Zenon
<1>3. /\ Types /\ \A v \in Workers : Single(v)
      /\ Kept(Slotted, buffer_pool, BufferQueue, dropped.buffers, buffers)
      /\ Kept(NoSlots, packet_pool, ObjectQueue, dropped.objects, objects)
  BY Zenon DEF IInv
<1>4. /\ UNCHANGED <<multi, client, slot, last, batch>>
      /\ buffers' = Made(buffer_pool[w], 1, buffers)
  BY Zenon DEF ReadPackets
<1>5. PICK d \in Destinations : OnRecv(w, b, d, p)
  BY <1>1, <1>2, Zenon DEF ReadPackets
<1>6. /\ Kept(Slotted, p, BufferQueue, dropped.buffers \cup {b}, buffers') /\ b \in Nat
      /\ b \notin dropped.buffers
  BY <1>1, <1>2, <1>3, <1>4, TakeOne, Zenon
<1>7. /\ Kept(Slotted, buffer_pool', BufferQueue', dropped'.buffers, buffers')
      /\ Kept(NoSlots, packet_pool', ObjectQueue', dropped'.objects, objects')
      /\ queue' \in [Workers -> Seq(Packets)]
      /\ dropped' \in [buffers : SUBSET Nat, objects : SUBSET Nat]
  BY <1>3, <1>5, <1>6, OnRecvKeeps, Zenon DEF Types
<1>8. Slotted' = Slotted /\ (\A v \in Workers : Single(v)') /\ NoSlots' = NoSlots
  BY <1>3, <1>4, SlotsStay, ZenonT(60) DEF NoSlots
<1>9. /\ buffer_pool' \in [Workers -> Seq(Nat)] /\ packet_pool' \in [Workers -> Seq(Nat)]
      /\ buffers' \in Nat /\ objects' \in Nat
  BY <1>7, KeptTypes, Zenon
<1>10. Types'
  BY BoundsAssumption, <1>3, <1>4, <1>7, <1>9, Zenon DEF Types
<1> QED
  BY <1>7, <1>8, <1>10, Zenon DEF IInv

\* A packet of another worker: buffer and object go from the queue into the pools.
LEMMA ProcessStep ==
  ASSUME IInv, NEW w \in Workers, Process(w) PROVE IInv'
<1>1. PICK b : b = Head(queue[w]).buffer
  BY ZenonT(60)
<1>2. PICK o : o = Head(queue[w]).object
  BY Zenon
<1>3. /\ Types /\ \A v \in Workers : Single(v)
      /\ Kept(Slotted, buffer_pool, BufferQueue, dropped.buffers, buffers)
      /\ Kept(NoSlots, packet_pool, ObjectQueue, dropped.objects, objects)
  BY Zenon DEF IInv
<1>4. /\ UNCHANGED <<multi, client, slot, last, batch, buffers, objects, dropped>>
      /\ queue[w] # << >> /\ queue' = [queue EXCEPT ![w] = Tail(@)]
      /\ buffer_pool' = [buffer_pool EXCEPT ![w] = Append(@, b)]
      /\ packet_pool' = [packet_pool EXCEPT ![w] = Append(@, o)]
  BY <1>1, <1>2, Zenon DEF Process
<1>5. queue \in [Workers -> Seq(Packets)]
  BY <1>3, Zenon DEF Types
<1>6. /\ Tail(queue[w]) \in Seq(Packets)
      /\ BufferSeq(queue[w]) # << >> /\ ObjectSeq(queue[w]) # << >>
      /\ BufferSeq(Tail(queue[w])) = Tail(BufferSeq(queue[w])) /\ Head(BufferSeq(queue[w])) = b
      /\ ObjectSeq(Tail(queue[w])) = Tail(ObjectSeq(queue[w])) /\ Head(ObjectSeq(queue[w])) = o
  BY <1>1, <1>2, <1>4, <1>5, QueueSeqs, Zenon
<1>7. /\ queue' \in [Workers -> Seq(Packets)]
      /\ \A v \in Workers : queue'[v] = IF v = w THEN Tail(queue[w]) ELSE queue[v]
  BY <1>4, <1>5, <1>6, ZenonT(60)
<1>8. /\ BufferQueue' = [BufferQueue EXCEPT ![w] = Tail(@)]
      /\ ObjectQueue' = [ObjectQueue EXCEPT ![w] = Tail(@)]
      /\ BufferQueue[w] # << >> /\ Head(BufferQueue[w]) = b
      /\ ObjectQueue[w] # << >> /\ Head(ObjectQueue[w]) = o
  BY <1>6, <1>7, Zenon DEF BufferQueue, ObjectQueue
<1>9. /\ Kept(Slotted, buffer_pool, BufferQueue', dropped.buffers \cup {b}, buffers) /\ b \in Nat
      /\ b \notin dropped.buffers
  BY <1>3, <1>8, FromQueue, Zenon
<1>10. /\ Kept(NoSlots, packet_pool, ObjectQueue', dropped.objects \cup {o}, objects) /\ o \in Nat
       /\ o \notin dropped.objects
  BY <1>3, <1>8, FromQueue, Zenon
<1>11. Kept(Slotted, buffer_pool', BufferQueue', dropped.buffers, buffers)
  BY <1>4, <1>9, ToPool, ZenonT(60)
<1>12. Kept(NoSlots, packet_pool', ObjectQueue', dropped.objects, objects)
  BY <1>4, <1>10, ToPool, Zenon
<1>13. Slotted' = Slotted /\ (\A v \in Workers : Single(v)') /\ NoSlots' = NoSlots
  BY <1>3, <1>4, SlotsStay, Zenon DEF NoSlots
<1>14. buffer_pool' \in [Workers -> Seq(Nat)] /\ packet_pool' \in [Workers -> Seq(Nat)]
  BY <1>11, <1>12, KeptTypes, ZenonT(60)
<1>15. Types'
  BY BoundsAssumption, <1>3, <1>4, <1>7, <1>14, ZenonT(60) DEF Types
<1> QED
  BY <1>4, <1>11, <1>12, <1>13, <1>15, Zenon DEF IInv

\* ResetSlots gives the slots that were used new buffers, and recvmmsg may
\* write to all of them again.
LEMMA Refilled ==
  ASSUME IInv, NEW w \in Workers, ReadPacketsMulti(w), NEW X,
         X = Gives(buffer_pool[w], last[w], buffers), X \cap Slotted[w] = {},
         X \subseteq Nat, GivesOnce(buffer_pool[w], last[w], buffers)
  PROVE  /\ Slotted' = [Slotted EXCEPT ![w] = @ \cup X]
         /\ \A v \in Workers : Single(v)'
         /\ slot' \in [Workers -> [Slots -> Nat]] /\ last' \in [Workers -> 0 .. NumSlots]
         /\ batch' \in [Workers -> Seq(Destinations)]
<1>1. /\ multi /\ multi' = multi /\ NumSlots \in Nat /\ slot \in [Workers -> [Slots -> Nat]]
      /\ last \in [Workers -> 0 .. NumSlots] /\ batch \in [Workers -> Seq(Destinations)]
      /\ (\A v \in Workers : Single(v)) /\ batch[w] = << >>
  BY BoundsAssumption, ZenonT(60) DEF IInv, Types, ReadPacketsMulti, Reads
<1>2. PICK n \in 0 .. NumSlots, to \in UNION {[1 .. m -> Destinations] : m \in 0 .. NumSlots} :
        /\ to \in [1 .. n -> Destinations]
        /\ last' = [last EXCEPT ![w] = n] /\ batch' = [batch EXCEPT ![w] = to]
  BY ZenonT(60) DEF ReadPacketsMulti
<1>3. PICK c : c = last[w]
  BY Zenon
<1>4. c \in 0 .. NumSlots /\ c \in Nat
  BY <1>1, <1>3
<1>5. PICK G : G = [i \in 1 .. c |-> Given(buffer_pool[w], i, buffers)]
  BY Zenon
<1>6. /\ X = {G[i] : i \in 1 .. c} /\ (\A i \in 1 .. c : G[i] \in Nat)
      /\ \A i, j \in 1 .. c : G[i] = G[j] => i = j
  BY <1>3, <1>5, Zenon DEF Gives, GivesOnce
<1>7. PICK t : t = [i \in Slots |-> IF i <= c THEN G[i] ELSE slot[w][i]]
  BY ZenonT(60)
<1>8. slot' = [slot EXCEPT ![w] = t]
  <2>1. \A i \in Slots : i <= c => i \in 1 .. c
    BY <1>4, SMTT(60) DEF Slots
  <2>2. slot' = [slot EXCEPT ![w] =
          [i \in Slots |-> IF i <= c THEN Given(buffer_pool[w], i, buffers) ELSE slot[w][i]]]
    BY <1>1, <1>3, ZenonT(60) DEF ReadPacketsMulti, ResetSlots
  <2>3. t = [i \in Slots |-> IF i <= c THEN Given(buffer_pool[w], i, buffers) ELSE slot[w][i]]
    BY <1>5, <1>7, <2>1, Zenon
  <2> QED
    BY <2>2, <2>3, Zenon
<1>9. t \in [Slots -> Nat]
  BY <1>1, <1>4, <1>6, <1>7, SMTT(60) DEF Slots
<1>10. /\ slot' \in [Workers -> [Slots -> Nat]] /\ slot'[w] = t
       /\ \A v \in Workers : v # w => slot'[v] = slot[v]
  BY <1>1, <1>8, <1>9, Zenon
<1>11. to \in Seq(Destinations) /\ Len(to) = n /\ n \in Nat
  BY <1>2, SMTT(60)
<1>12. /\ last' \in [Workers -> 0 .. NumSlots] /\ batch' \in [Workers -> Seq(Destinations)]
       /\ last'[w] = n /\ batch'[w] = to
       /\ \A v \in Workers : v # w => last'[v] = last[v] /\ batch'[v] = batch[v]
  BY <1>1, <1>2, <1>11, Zenon
<1>13. Full(w) = {i \in Slots : i > c}
  <2>1. NextSlot(w) = c + 1
    BY <1>1, <1>3, <1>4 DEF NextSlot
  <2> QED
    BY <1>1, <1>4, <2>1, SMTT(60) DEF Full, Fresh, Slots
<1>14. Full(w)' = Slots
  <2>1. NextSlot(w)' = 1
    BY <1>11, <1>12, SMTT(60) DEF NextSlot
  <2> QED
    BY <1>1, <2>1, SMTT(60) DEF Full, Fresh, Slots
<1>15. ASSUME NEW v \in Workers, v # w PROVE Full(v)' = Full(v) /\ Single(v)'
  <2>1. Full(v)' = Full(v)
    BY <1>1, <1>12, <1>15, ZenonT(60) DEF Full, Fresh, NextSlot
  <2> QED
    BY <1>1, <1>10, <1>12, <1>15, <2>1, SMTT(60) DEF Single
<1>16. Slotted[w] = {slot[w][i] : i \in Full(w)}
  BY Zenon DEF Slotted
<1>17. ASSUME NEW i \in Slots, NEW j \in Slots, t[i] = t[j] PROVE i = j
  <2>1. i \in Nat /\ j \in Nat /\ i >= 1 /\ j >= 1
    BY SMTT(60) DEF Slots
  <2>2. CASE i <= c /\ j <= c
    BY <1>4, <1>6, <1>7, <1>17, <2>1, <2>2, SMTT(60)
  <2>3. CASE i > c /\ j > c
    <3>1. i \in Full(w) /\ j \in Full(w) /\ slot[w][i] = slot[w][j]
      BY <1>4, <1>7, <1>13, <1>17, <2>1, <2>3, SMTT(60)
    <3> QED
      BY <1>1, <3>1, ZenonT(60) DEF Single
  <2>4. \A a, b \in Slots : a <= c /\ b > c => t[a] # t[b]
    <3> SUFFICES ASSUME NEW a \in Slots, NEW b \in Slots, a <= c, b > c PROVE t[a] # t[b]
      BY Zenon
    <3>1. a \in 1 .. c /\ ~(b <= c) /\ b \in Full(w)
      BY <1>4, <1>13, SMTT(60) DEF Slots
    <3>2. t[a] \in X /\ t[b] \in Slotted[w]
      BY <1>6, <1>7, <1>16, <3>1, ZenonT(60)
    <3> QED
      BY <3>2, ZenonT(60)
  <2> QED
    BY <1>4, <1>17, <2>1, <2>2, <2>3, <2>4
<1>18. Single(w)'
  BY <1>1, <1>10, <1>11, <1>12, <1>14, <1>17, SMTT(60) DEF Single
<1>19. {t[i] : i \in Slots} = {slot[w][i] : i \in Full(w)} \cup X
  <2>1. ASSUME NEW i \in Slots PROVE t[i] \in {slot[w][a] : a \in Full(w)} \cup X
    <3>1. CASE i <= c
      <4>1. i \in 1 .. c
        BY <1>4, <3>1, SMTT(60) DEF Slots
      <4> QED
        BY <1>6, <1>7, <3>1, <4>1, Zenon
    <3>2. CASE i > c
      <4>1. ~(i <= c) /\ i \in Full(w)
        BY <1>4, <1>13, <3>2, SMTT(60) DEF Slots
      <4> QED
        BY <1>7, <4>1, Zenon
    <3> QED
      BY <1>4, <3>1, <3>2, SMTT(60) DEF Slots
  <2>2. ASSUME NEW i \in Full(w) PROVE i \in Slots /\ t[i] = slot[w][i]
    BY <1>4, <1>7, <1>13, <2>2, SMTT(60) DEF Slots
  <2>3. ASSUME NEW i \in 1 .. c PROVE i \in Slots /\ t[i] = G[i]
    BY <1>1, <1>4, <1>7, <2>3, SMTT(60) DEF Slots
  <2>4. ASSUME NEW x \in {slot[w][a] : a \in Full(w)} \cup X PROVE x \in {t[i] : i \in Slots}
    <3>1. CASE x \in X
      BY <1>6, <2>3, <3>1, SMTT(60)
    <3>2. CASE x \in {slot[w][a] : a \in Full(w)}
      BY <2>2, <3>2, Zenon
    <3> QED
      BY <2>4, <3>1, <3>2, Zenon
  <2> QED
    BY <2>1, <2>4, ZenonT(60)
<1>20. Slotted' = [Slotted EXCEPT ![w] = @ \cup X]
  <2>1. Slotted'[w] = Slotted[w] \cup X
    <3>1. {slot[w][i] : i \in Full(w)}' = {t[i] : i \in Slots}
      BY <1>10, <1>14, ZenonT(60)
    <3>2. Slotted'[w] = {slot[w][i] : i \in Full(w)}'
      BY ZenonT(60) DEF Slotted
    <3> QED
      BY <1>16, <1>19, <3>1, <3>2, ZenonT(60)
  <2>2. ASSUME NEW v \in Workers, v # w PROVE Slotted'[v] = Slotted[v]
    <3>1. Slotted'[v] = {slot[v][i] : i \in Full(v)}' /\ Slotted[v] = {slot[v][i] : i \in Full(v)}
      BY ZenonT(60) DEF Slotted
    <3> QED
      BY <1>10, <1>15, <2>2, <3>1, SMTT(60)
  <2>3. /\ Slotted' = [v \in Workers |-> Slotted'[v]]
        /\ Slotted = [v \in Workers |-> Slotted[v]]
    BY Zenon DEF Slotted
  <2>4. \A v \in Workers : Slotted'[v] = IF v = w THEN Slotted[w] \cup X ELSE Slotted[v]
    BY <2>1, <2>2, Zenon
  <2> QED
    BY <2>3, <2>4, Zenon
<1> QED
  BY <1>10, <1>12, <1>15, <1>18, <1>20, ZenonT(60)

\* The slots get new buffers, and recvmmsg fills them.
LEMMA ReadPacketsMultiStep ==
  ASSUME IInv, NEW w \in Workers, ReadPacketsMulti(w) PROVE IInv'
<1>1. PICK X : X = Gives(buffer_pool[w], last[w], buffers)
  BY ZenonT(60)
<1>2. PICK p : p = [buffer_pool EXCEPT ![w] = Popped(@, last[w])]
  BY Zenon
<1>3. /\ Types /\ \A v \in Workers : Single(v)
      /\ Kept(Slotted, buffer_pool, BufferQueue, dropped.buffers, buffers)
      /\ Kept(NoSlots, packet_pool, ObjectQueue, dropped.objects, objects)
  BY Zenon DEF IInv
<1>4. /\ UNCHANGED <<multi, client, packet_pool, queue, objects, dropped>>
      /\ buffer_pool' = p /\ buffers' = Made(buffer_pool[w], last[w], buffers)
  BY <1>2, Zenon DEF ReadPacketsMulti, ResetSlots
<1>5. last[w] \in Nat
  BY BoundsAssumption, <1>3 DEF Types
<1>6. /\ Kept(Slotted, p, BufferQueue, dropped.buffers \cup X, buffers')
      /\ X \subseteq Nat /\ X \cap dropped.buffers = {}
      /\ GivesOnce(buffer_pool[w], last[w], buffers)
  BY <1>1, <1>2, <1>3, <1>4, <1>5, TakeMany, ZenonT(60)
<1>7. X \cap Slotted[w] = {}
  <2>1. Split(Place(Slotted, p, BufferQueue), dropped.buffers \cup X, buffers')
    BY <1>6, Zenon DEF Kept
  <2>2. Place(Slotted, p, BufferQueue)["slot"][w] = Slotted[w] /\ "slot" \in Kinds
    BY Places, SMTT(60) DEF Kinds
  <2>3. Place(Slotted, p, BufferQueue)["slot"][w] \cap (dropped.buffers \cup X) = {}
    BY <2>1, <2>2, Zenon DEF Split
  <2> QED
    BY <2>2, <2>3, ZenonT(60)
<1>8. /\ Slotted' = [Slotted EXCEPT ![w] = @ \cup X] /\ \A v \in Workers : Single(v)'
      /\ slot' \in [Workers -> [Slots -> Nat]] /\ last' \in [Workers -> 0 .. NumSlots]
      /\ batch' \in [Workers -> Seq(Destinations)]
  BY <1>1, <1>6, <1>7, Refilled, Zenon
<1>9. Kept(Slotted', buffer_pool', BufferQueue, dropped.buffers, buffers')
  BY <1>4, <1>6, <1>8, ToSlots, ZenonT(60)
<1>10. BufferQueue' = BufferQueue /\ ObjectQueue' = ObjectQueue /\ NoSlots' = NoSlots
  BY <1>4, ZenonT(60) DEF BufferQueue, ObjectQueue, NoSlots
<1>11. buffer_pool' \in [Workers -> Seq(Nat)] /\ buffers' \in Nat
  BY <1>9, KeptTypes, Zenon
<1>12. Types'
  BY BoundsAssumption, <1>3, <1>4, <1>8, <1>11, Zenon DEF Types
<1> QED
  BY <1>3, <1>4, <1>8, <1>9, <1>10, <1>12, Zenon DEF IInv

----------------------------------------------------------------------------
\* The buffers that Initialize makes, by worker and slot.
LEMMA FirstBuffers ==
         /\ NumWorkers * NumSlots \in Nat
         /\ \A w \in Workers, i \in Slots : w * NumSlots + i \in 1 .. NumWorkers * NumSlots
         /\ \A v, w \in Workers, i, j \in Slots :
              v * NumSlots + i = w * NumSlots + j => v = w /\ i = j
         /\ \A b \in 1 .. NumWorkers * NumSlots :
              \E w \in Workers, i \in Slots : b = w * NumSlots + i
<1>1. NumWorkers \in Nat \ {0} /\ NumSlots \in Nat \ {0} /\ NumWorkers * NumSlots \in Nat
  BY BoundsAssumption, SMTT(60)
<1>2. ASSUME NEW w \in Workers, NEW i \in Slots
      PROVE  w * NumSlots + i \in 1 .. NumWorkers * NumSlots
  <2>1. w \in 0 .. NumWorkers - 1 /\ i \in 1 .. NumSlots
    BY Zenon DEF Workers, Slots
  <2> QED
    BY <1>1, <2>1
<1>3. ASSUME NEW v \in Workers, NEW w \in Workers, NEW i \in Slots, NEW j \in Slots,
             v * NumSlots + i = w * NumSlots + j
      PROVE  v = w /\ i = j
  <2>1. v \in Nat /\ w \in Nat /\ i \in 1 .. NumSlots /\ j \in 1 .. NumSlots
    BY <1>1, SMTT(60) DEF Workers, Slots
  <2>2. (v - w) * NumSlots = j - i /\ (w - v) * NumSlots = i - j
    BY <1>1, <1>3, <2>1
  <2>3. CASE v > w
    BY <1>1, <2>1, <2>2, <2>3
  <2>4. CASE w > v
    BY <1>1, <2>1, <2>2, <2>4, SMTT(60)
  <2>5. CASE w = v
    BY <1>1, <2>1, <2>2, <2>5, SMTT(60)
  <2> QED
    BY <2>1, <2>3, <2>4, <2>5, SMTT(60)
<1>4. ASSUME NEW b \in 1 .. NumWorkers * NumSlots
      PROVE  \E w \in Workers, i \in Slots : b = w * NumSlots + i
  <2>1. b \in Nat /\ b - 1 \in Nat /\ b <= NumWorkers * NumSlots
    BY <1>1, SMTT(60)
  <2>2. PICK w : w = (b - 1) \div NumSlots
    BY Zenon
  <2>3. w \in Nat /\ NumSlots * w <= b - 1
    BY <1>1, <2>1, <2>2
  <2>4. b - 1 < NumSlots * (w + 1)
    BY <1>1, <2>1, <2>2, SMTT(60)
  <2>5. /\ w * NumSlots = NumSlots * w /\ NumSlots * (w + 1) = w * NumSlots + NumSlots
        /\ w * NumSlots \in Nat
    BY <1>1, <2>3
  <2>6. w < NumWorkers
    <3>1. CASE w >= NumWorkers
      <4>1. /\ (w - NumWorkers) * NumSlots >= 0
            /\ (w - NumWorkers) * NumSlots = w * NumSlots - NumWorkers * NumSlots
        BY <1>1, <2>3, <3>1, SMTT(60)
      <4> QED
        BY <1>1, <2>1, <2>3, <2>5, <4>1, SMTT(60)
    <3> QED
      BY <1>1, <2>3, <3>1
  <2>7. b - w * NumSlots \in Slots /\ b = w * NumSlots + (b - w * NumSlots)
    BY <1>1, <2>1, <2>3, <2>4, <2>5, SMTT(60) DEF Slots
  <2>8. w \in Workers
    BY <1>1, <2>3, <2>6, SMTT(60) DEF Workers
  <2> QED
    BY <2>7, <2>8, Zenon
<1> QED
  BY <1>1, <1>2, <1>3, <1>4, Zenon

\* At first every buffer is in the slot it was made for.
LEMMA InitHolds ==
  ASSUME Init PROVE IInv
<1>1. /\ multi \in BOOLEAN /\ client \in BOOLEAN /\ NumWorkers * NumSlots \in Nat
      /\ NumSlots \in Nat \ {0} /\ NumWorkers \in Nat \ {0}
  BY BoundsAssumption, FirstBuffers, ZenonT(60) DEF Init
<1>2. Types
  <2>1. \A w \in Workers, i \in Slots : w * NumSlots + i \in Nat
    BY <1>1, SMTT(60) DEF Workers, Slots
  <2>2. slot \in [Workers -> [Slots -> Nat]]
    BY <2>1, Zenon DEF Init
  <2>3. /\ buffer_pool \in [Workers -> Seq(Nat)] /\ packet_pool \in [Workers -> Seq(Nat)]
        /\ queue \in [Workers -> Seq(Packets)] /\ batch \in [Workers -> Seq(Destinations)]
    BY DEF Init
  <2>4. last \in [Workers -> 0 .. NumSlots] /\ buffers \in Nat /\ objects \in Nat
    BY <1>1 DEF Init
  <2>5. dropped \in [buffers : SUBSET Nat, objects : SUBSET Nat]
    BY Zenon DEF Init
  <2> QED
    BY <1>1, <2>2, <2>3, <2>4, <2>5, ZenonT(60) DEF Types
<1>3. \A w \in Workers : Full(w) = IF multi THEN Slots ELSE {}
  <2> SUFFICES ASSUME NEW w \in Workers PROVE Full(w) = IF multi THEN Slots ELSE {}
    BY Zenon
  <2>1. NextSlot(w) = 1
    BY DEF Init, NextSlot
  <2>2. Fresh(w) = Slots
    BY <1>1, <2>1 DEF Fresh, Slots
  <2> QED
    BY <2>2, Zenon DEF Full
<1>4. ASSUME NEW w \in Workers PROVE Single(w)
  <2>1. /\ Len(batch[w]) <= last[w] /\ batch[w] = << >>
        /\ ~multi => \A i \in Slots : slot[w][i] = 0
    BY SMTT(60) DEF Init
  <2>2. ASSUME NEW i \in Full(w), NEW j \in Full(w), slot[w][i] = slot[w][j] PROVE i = j
    <3>1. multi /\ i \in Slots /\ j \in Slots
      BY <1>3, Zenon
    <3>2. w * NumSlots + i = w * NumSlots + j
      BY <2>2, <3>1, Zenon DEF Init
    <3> QED
      BY <3>1, <3>2, FirstBuffers
  <2> QED
    BY <2>1, <2>2, Zenon DEF Single
<1>5. \A w \in Workers : Slotted[w] = IF multi THEN {w * NumSlots + i : i \in Slots} ELSE {}
  BY <1>3, Zenon DEF Slotted, Init
<1>6. \A w \in Workers : /\ buffer_pool[w] = << >> /\ packet_pool[w] = << >>
                         /\ BufferQueue[w] = << >> /\ ObjectQueue[w] = << >>
  BY SMTT(60) DEF Init, BufferQueue, ObjectQueue, BufferSeq, ObjectSeq
<1>7. Elems(<< >>) = {} /\ Unique(<< >>) /\ << >> \in Seq(Nat)
  BY DEF Elems, Unique
<1>9. \A w \in Workers : /\ Place(Slotted, buffer_pool, BufferQueue)["slot"][w] = Slotted[w]
                         /\ Place(Slotted, buffer_pool, BufferQueue)["pool"][w] = {}
                         /\ Place(Slotted, buffer_pool, BufferQueue)["queue"][w] = {}
                         /\ Place(NoSlots, packet_pool, ObjectQueue)["slot"][w] = {}
                         /\ Place(NoSlots, packet_pool, ObjectQueue)["pool"][w] = {}
                         /\ Place(NoSlots, packet_pool, ObjectQueue)["queue"][w] = {}
  BY <1>6, <1>7, Places DEF NoSlots
<1>10. Split(Place(NoSlots, packet_pool, ObjectQueue), {}, 0)
  BY <1>9, SMTT(60) DEF Split, Kinds
<1>11. Split(Place(Slotted, buffer_pool, BufferQueue), {}, buffers)
  <2>1. PICK f : f = Place(Slotted, buffer_pool, BufferQueue)
    BY Zenon
  <2>2. \A w \in Workers : f["slot"][w] = Slotted[w] /\ f["pool"][w] = {} /\ f["queue"][w] = {}
    BY <1>9, <2>1, Zenon
  <2>3. \A v, w \in Workers : v # w => Slotted[v] \cap Slotted[w] = {}
    <3>1. ASSUME NEW v \in Workers, NEW w \in Workers, v # w,
                 NEW x \in Slotted[v] \cap Slotted[w]
          PROVE  FALSE
      <4>1. PICK i \in Slots : x = v * NumSlots + i
        BY <1>5, <3>1, ZenonT(60)
      <4>2. PICK j \in Slots : x = w * NumSlots + j
        BY <1>5, <3>1, Zenon
      <4> QED
        BY <3>1, <4>1, <4>2, FirstBuffers
    <3> QED
      BY <3>1, Zenon
  <2>4. \A w \in Workers : Slotted[w] \subseteq 1 .. buffers
    <3>1. ASSUME NEW w \in Workers, NEW x \in Slotted[w] PROVE x \in 1 .. buffers
      <4>1. multi
        BY <1>5, <3>1, Zenon
      <4>2. PICK i \in Slots : x = w * NumSlots + i
        BY <1>5, <3>1, <4>1, Zenon
      <4>3. buffers = NumWorkers * NumSlots
        BY <4>1, Zenon DEF Init
      <4> QED
        BY <4>2, <4>3, FirstBuffers, Zenon
    <3> QED
      BY <3>1, Zenon
  <2>5. ASSUME NEW b \in 1 .. buffers PROVE \E w \in Workers : b \in Slotted[w]
    <3>1. multi /\ b \in 1 .. NumWorkers * NumSlots
      BY <2>5, SMTT(60) DEF Init
    <3>2. PICK w \in Workers, i \in Slots : b = w * NumSlots + i
      BY <3>1, FirstBuffers, Zenon
    <3> QED
      BY <1>5, <3>1, <3>2, Zenon
  <2>6. \A k, l \in Kinds, v, w \in Workers : k # l \/ v # w => f[k][v] \cap f[l][w] = {}
    BY <2>2, <2>3, ZenonT(60) DEF Kinds
  <2>7. \A k \in Kinds, w \in Workers : f[k][w] \subseteq 1 .. buffers /\ f[k][w] \cap {} = {}
    BY <2>2, <2>4, Zenon DEF Kinds
  <2>8. \A b \in 1 .. buffers : \E k \in Kinds, w \in Workers : b \in f[k][w]
    BY <2>2, <2>5, Zenon DEF Kinds
  <2> QED
    BY <2>1, <2>6, <2>7, <2>8, ZenonT(60) DEF Split
<1>12. /\ Slotted \in [Workers -> SUBSET Nat] /\ NoSlots \in [Workers -> SUBSET Nat]
       /\ BufferQueue \in [Workers -> Seq(Nat)] /\ ObjectQueue \in [Workers -> Seq(Nat)]
  <2>0. \A w \in Workers, i \in Slots : w * NumSlots + i \in Nat
    BY <1>1 DEF Workers, Slots
  <2>1. \A w \in Workers : Slotted[w] \in SUBSET Nat
    <3>1. ASSUME NEW w \in Workers, NEW x \in Slotted[w] PROVE x \in Nat
      <4>1. multi
        BY <1>5, <3>1, Zenon
      <4>2. PICK i \in Slots : x = w * NumSlots + i
        BY <1>5, <3>1, <4>1, Zenon
      <4> QED
        BY <2>0, <4>2, Zenon
    <3> QED
      BY <3>1, Zenon
  <2>2. /\ Slotted = [w \in Workers |-> Slotted[w]]
        /\ BufferQueue = [w \in Workers |-> BufferQueue[w]]
        /\ ObjectQueue = [w \in Workers |-> ObjectQueue[w]]
    BY Zenon DEF Slotted, BufferQueue, ObjectQueue
  <2> QED
    BY <1>6, <1>7, <2>1, <2>2, Zenon DEF NoSlots
<1>13. dropped.buffers = {} /\ dropped.objects = {} /\ objects = 0
  BY Zenon DEF Init
<1>14. Kept(Slotted, buffer_pool, BufferQueue, dropped.buffers, buffers)
  BY <1>2, <1>6, <1>7, <1>11, <1>12, <1>13, Zenon DEF Kept, Types
<1>15. Kept(NoSlots, packet_pool, ObjectQueue, dropped.objects, objects)
  BY <1>2, <1>6, <1>7, <1>10, <1>12, <1>13, ZenonT(60) DEF Kept, Types
<1> QED
  BY <1>2, <1>4, <1>14, <1>15, ZenonT(60) DEF IInv

\* Every step keeps the invariant.
LEMMA NextKeeps ==
  ASSUME IInv, [Next]_vars PROVE IInv'
<1>1. ASSUME NEW w \in Workers,
             \/ ReadPacketsMulti(w) \/ Skips(w) \/ Delivers(w)
             \/ ReadFails(w) \/ ReadPackets(w) \/ Process(w)
      PROVE  IInv'
  BY <1>1, ReadPacketsMultiStep, SkipsStep, DeliversStep, ReadFailsStep, ReadPacketsStep,
     ProcessStep, Zenon
<1>2. CASE UNCHANGED vars
  <2>1. /\ Slotted' = Slotted /\ NoSlots' = NoSlots
        /\ BufferQueue' = BufferQueue /\ ObjectQueue' = ObjectQueue
        /\ \A v \in Workers : Single(v)'
    BY <1>2, SlotsStay, Zenon DEF vars, BufferQueue, ObjectQueue, NoSlots, IInv
  <2>2. Types'
    BY BoundsAssumption, <1>2, Zenon DEF IInv, Types, vars
  <2> QED
    BY <1>2, <2>1, <2>2, ZenonT(60) DEF IInv, vars
<1> QED
  BY <1>1, <1>2, ZenonT(60) DEF Next

----------------------------------------------------------------------------
\* What the buffers and the objects of a queue are.
LEMMA SeqFacts ==
  ASSUME NEW q
  PROVE  /\ \A b : b \in Elems(BufferSeq(q)) <=> \E i \in DOMAIN q : q[i].buffer = b
         /\ \A o : o \in Elems(ObjectSeq(q)) <=> \E i \in DOMAIN q : q[i].object = o
         /\ Unique(BufferSeq(q)) <=> \A i, j \in DOMAIN q : q[i].buffer = q[j].buffer => i = j
         /\ Unique(ObjectSeq(q)) <=> \A i, j \in DOMAIN q : q[i].object = q[j].object => i = j
BY Zenon DEF Elems, Unique, BufferSeq, ObjectSeq

\* Who holds a buffer, and who holds an object.
LEMMA Holder ==
  ASSUME NEW b, NEW h
  PROVE  h \in BufferHolders(b) <=>
           \/ \E w \in Workers : \E i \in DOMAIN slot[w] :
                slot[w][i] = b /\ i \in Fresh(w) /\ h = <<"slot", w, i>>
           \/ \E w \in Workers : \E i \in DOMAIN buffer_pool[w] :
                buffer_pool[w][i] = b /\ h = <<"pool", w, i>>
           \/ \E w \in Workers : \E i \in DOMAIN queue[w] :
                queue[w][i].buffer = b /\ h = <<"queue", w, i>>
BY SMTT(60) DEF BufferHolders, At

\* A slot, a pool or a queue that has a buffer is one of its holders.
LEMMA Held ==
  ASSUME NEW b, NEW w \in Workers, NEW i
  PROVE  /\ i \in DOMAIN slot[w] /\ i \in Fresh(w) /\ slot[w][i] = b =>
              <<"slot", w, i>> \in BufferHolders(b)
         /\ i \in DOMAIN buffer_pool[w] /\ buffer_pool[w][i] = b =>
              <<"pool", w, i>> \in BufferHolders(b)
         /\ i \in DOMAIN queue[w] /\ queue[w][i].buffer = b =>
              <<"queue", w, i>> \in BufferHolders(b)
BY SMTT(60) DEF BufferHolders, At

\* The same for the objects.
LEMMA ObjectHolder ==
  ASSUME NEW o, NEW h
  PROVE  h \in ObjectHolders(o) <=>
           \/ \E w \in Workers : \E i \in DOMAIN packet_pool[w] :
                packet_pool[w][i] = o /\ h = <<"pool", w, i>>
           \/ \E w \in Workers : \E i \in DOMAIN queue[w] :
                queue[w][i].object = o /\ h = <<"queue", w, i>>
BY DEF ObjectHolders, At

\* The same for the objects.
LEMMA ObjectHeld ==
  ASSUME NEW o, NEW w \in Workers, NEW i
  PROVE  /\ i \in DOMAIN packet_pool[w] /\ packet_pool[w][i] = o =>
              <<"pool", w, i>> \in ObjectHolders(o)
         /\ i \in DOMAIN queue[w] /\ queue[w][i].object = o =>
              <<"queue", w, i>> \in ObjectHolders(o)
BY SMTT(60) DEF ObjectHolders, At

\* What is at a place.
LEMMA BufferPlaces ==
  ASSUME NEW w \in Workers
  PROVE  /\ BufferAt["slot"][w] = {slot[w][i] : i \in Full(w)}
         /\ BufferAt["pool"][w] = Elems(buffer_pool[w])
         /\ BufferAt["queue"][w] = Elems(BufferSeq(queue[w]))
         /\ ObjectAt["slot"][w] = {}
         /\ ObjectAt["pool"][w] = Elems(packet_pool[w])
         /\ ObjectAt["queue"][w] = Elems(ObjectSeq(queue[w]))
BY ZenonT(60) DEF BufferAt, ObjectAt, Place, Slotted, NoSlots, BufferQueue, ObjectQueue, Kinds

\* A buffer is at the place of each of its holders.
LEMMA HolderPlace ==
  ASSUME IInv, NEW b \in 1 .. buffers, NEW h \in BufferHolders(b)
  PROVE  \E k \in Kinds, w \in Workers, i \in Nat :
           /\ h = <<k, w, i>> /\ b \in BufferAt[k][w]
           /\ k = "slot" => i \in Full(w) /\ slot[w][i] = b
           /\ k = "pool" => i \in DOMAIN buffer_pool[w] /\ buffer_pool[w][i] = b
           /\ k = "queue" => i \in DOMAIN queue[w] /\ queue[w][i].buffer = b
<1>1. /\ slot \in [Workers -> [Slots -> Nat]] /\ buffers \in Nat
      /\ buffer_pool \in [Workers -> Seq(Nat)] /\ queue \in [Workers -> Seq(Packets)]
  BY ZenonT(60) DEF IInv, Types
<1>2. CASE \E w \in Workers : \E i \in DOMAIN slot[w] :
             slot[w][i] = b /\ i \in Fresh(w) /\ h = <<"slot", w, i>>
  <2>1. PICK w \in Workers, i \in Slots :
          slot[w][i] = b /\ i \in Fresh(w) /\ h = <<"slot", w, i>>
    BY <1>1, <1>2, ZenonT(60)
  <2>2. i \in Full(w) /\ i \in Nat
    BY BoundsAssumption, <2>1, SMTT(60) DEF Full, IInv, Single, Slots
  <2>3. b \in BufferAt["slot"][w]
    BY <2>1, <2>2, BufferPlaces, Zenon
  <2> QED
    BY <2>1, <2>2, <2>3, Zenon DEF Kinds
<1>3. CASE \E w \in Workers : \E i \in DOMAIN buffer_pool[w] :
             buffer_pool[w][i] = b /\ h = <<"pool", w, i>>
  <2>1. PICK w \in Workers, i \in Nat :
          i \in DOMAIN buffer_pool[w] /\ buffer_pool[w][i] = b /\ h = <<"pool", w, i>>
    BY <1>1, <1>3, SMTT(60)
  <2>2. b \in BufferAt["pool"][w] /\ i \in Nat
    BY <1>1, <2>1, BufferPlaces, ZenonT(60) DEF Elems
  <2> QED
    BY <2>1, <2>2, ZenonT(60) DEF Kinds
<1>4. CASE \E w \in Workers : \E i \in DOMAIN queue[w] :
             queue[w][i].buffer = b /\ h = <<"queue", w, i>>
  <2>1. PICK w \in Workers, i \in Nat :
          i \in DOMAIN queue[w] /\ queue[w][i].buffer = b /\ h = <<"queue", w, i>>
    BY <1>1, <1>4, SMTT(60)
  <2>2. b \in BufferAt["queue"][w] /\ i \in Nat
    BY <1>1, <2>1, BufferPlaces, SeqFacts, SMTT(60)
  <2> QED
    BY <2>1, <2>2, ZenonT(60) DEF Kinds
<1> QED
  BY <1>2, <1>3, <1>4, Holder, Zenon

\* A buffer has one holder, or none once it was dropped.
LEMMA BufferInOnePlace ==
  ASSUME IInv, NEW b \in 1 .. buffers
  PROVE  Cardinality(BufferHolders(b)) = IF b \in dropped.buffers THEN 0 ELSE 1
<1>1. /\ slot \in [Workers -> [Slots -> Nat]] /\ buffers \in Nat
      /\ buffer_pool \in [Workers -> Seq(Nat)] /\ queue \in [Workers -> Seq(Packets)]
      /\ Split(BufferAt, dropped.buffers, buffers) /\ \A w \in Workers : Single(w)
      /\ \A w \in Workers : Unique(buffer_pool[w]) /\ Unique(BufferSeq(queue[w]))
  BY Zenon DEF IInv, Types, Kept, BufferAt, BufferQueue
<1>2. CASE b \in dropped.buffers
  <2>1. ASSUME NEW h \in BufferHolders(b) PROVE FALSE
    <3>1. PICK k \in Kinds, w \in Workers : b \in BufferAt[k][w]
      BY <2>1, HolderPlace, ZenonT(60)
    <3> QED
      BY <1>1, <1>2, <3>1, ZenonT(60) DEF Split
  <2>2. BufferHolders(b) = {}
    BY <2>1, Zenon
  <2> QED
    BY <1>2, <2>2, FS_EmptySet, Zenon
<1>3. CASE b \notin dropped.buffers
  <2>1. PICK k \in Kinds, w \in Workers : b \in BufferAt[k][w]
    BY <1>1, <1>3, Zenon DEF Split
  <2>2. \E h : h \in BufferHolders(b)
    <3>1. CASE k = "slot"
      <4>1. PICK i \in Full(w) : slot[w][i] = b
        BY <2>1, <3>1, BufferPlaces, SMTT(60)
      <4>2. i \in DOMAIN slot[w] /\ i \in Fresh(w)
        BY <1>1, <4>1, ZenonT(60) DEF Full, Fresh
      <4> QED
        BY <4>1, <4>2, Held, ZenonT(60)
    <3>2. CASE k = "pool"
      <4>1. PICK i \in DOMAIN buffer_pool[w] : buffer_pool[w][i] = b
        BY <2>1, <3>2, BufferPlaces, SMTT(60) DEF Elems
      <4> QED
        BY <4>1, Held, ZenonT(60)
    <3>3. CASE k = "queue"
      <4>1. PICK i \in DOMAIN queue[w] : queue[w][i].buffer = b
        BY <2>1, <3>3, BufferPlaces, SeqFacts, SMTT(60)
      <4> QED
        BY <4>1, Held, ZenonT(60)
    <3> QED
      BY <3>1, <3>2, <3>3, Zenon DEF Kinds
  <2>3. PICK h : h \in BufferHolders(b)
    BY <2>2, ZenonT(60)
  <2>4. ASSUME NEW g \in BufferHolders(b) PROVE g = h
    <3>1. PICK l \in Kinds, v \in Workers, i \in Nat :
            /\ h = <<l, v, i>> /\ b \in BufferAt[l][v]
            /\ l = "slot" => i \in Full(v) /\ slot[v][i] = b
            /\ l = "pool" => i \in DOMAIN buffer_pool[v] /\ buffer_pool[v][i] = b
            /\ l = "queue" => i \in DOMAIN queue[v] /\ queue[v][i].buffer = b
      BY <2>3, HolderPlace, ZenonT(60)
    <3>2. PICK m \in Kinds, u \in Workers, j \in Nat :
            /\ g = <<m, u, j>> /\ b \in BufferAt[m][u]
            /\ m = "slot" => j \in Full(u) /\ slot[u][j] = b
            /\ m = "pool" => j \in DOMAIN buffer_pool[u] /\ buffer_pool[u][j] = b
            /\ m = "queue" => j \in DOMAIN queue[u] /\ queue[u][j].buffer = b
      BY <2>4, HolderPlace, Zenon
    <3>3. l = m /\ u = v
      BY <1>1, <3>1, <3>2, ZenonT(60) DEF Split
    <3>4. i = j
      <4>1. /\ \A s, t \in Full(v) : slot[v][s] = slot[v][t] => s = t
            /\ Unique(buffer_pool[v]) /\ Unique(BufferSeq(queue[v]))
        BY <1>1, ZenonT(60) DEF Single
      <4>2. /\ \A s, t \in DOMAIN buffer_pool[v] : buffer_pool[v][s] = buffer_pool[v][t] => s = t
            /\ \A s, t \in DOMAIN queue[v] : queue[v][s].buffer = queue[v][t].buffer => s = t
        BY <4>1, SeqFacts, Zenon DEF Unique
      <4> QED
        BY <3>1, <3>2, <3>3, <4>1, <4>2, ZenonT(60) DEF Kinds
    <3> QED
      BY <3>1, <3>2, <3>3, <3>4, Zenon
  <2>5. BufferHolders(b) = {h}
    BY <2>3, <2>4, ZenonT(60)
  <2> QED
    BY <1>3, <2>5, FS_Singleton, Zenon
<1> QED
  BY <1>2, <1>3, ZenonT(60)

\* The same for the objects.
LEMMA ObjectPlace ==
  ASSUME IInv, NEW o \in 1 .. objects, NEW h \in ObjectHolders(o)
  PROVE  \E k \in Kinds, w \in Workers, i \in Nat :
           /\ h = <<k, w, i>> /\ o \in ObjectAt[k][w]
           /\ k = "pool" => i \in DOMAIN packet_pool[w] /\ packet_pool[w][i] = o
           /\ k = "queue" => i \in DOMAIN queue[w] /\ queue[w][i].object = o
<1>1. packet_pool \in [Workers -> Seq(Nat)] /\ queue \in [Workers -> Seq(Packets)]
  BY Zenon DEF IInv, Types
<1>2. CASE \E w \in Workers : \E i \in DOMAIN packet_pool[w] :
             packet_pool[w][i] = o /\ h = <<"pool", w, i>>
  <2>1. PICK w \in Workers, i \in Nat :
          i \in DOMAIN packet_pool[w] /\ packet_pool[w][i] = o /\ h = <<"pool", w, i>>
    BY <1>1, <1>2, SMTT(60)
  <2>2. o \in ObjectAt["pool"][w] /\ i \in Nat
    BY <1>1, <2>1, BufferPlaces, ZenonT(60) DEF Elems
  <2> QED
    BY <2>1, <2>2, Zenon DEF Kinds
<1>3. CASE \E w \in Workers : \E i \in DOMAIN queue[w] :
             queue[w][i].object = o /\ h = <<"queue", w, i>>
  <2>1. PICK w \in Workers, i \in Nat :
          i \in DOMAIN queue[w] /\ queue[w][i].object = o /\ h = <<"queue", w, i>>
    BY <1>1, <1>3, SMTT(60)
  <2>2. o \in ObjectAt["queue"][w] /\ i \in Nat
    BY <1>1, <2>1, BufferPlaces, SeqFacts, SMTT(60)
  <2> QED
    BY <2>1, <2>2, Zenon DEF Kinds
<1> QED
  BY <1>2, <1>3, ObjectHolder, Zenon

\* An object has one holder, or none once it was dropped.
LEMMA ObjectInOnePlace ==
  ASSUME IInv, NEW o \in 1 .. objects
  PROVE  Cardinality(ObjectHolders(o)) = IF o \in dropped.objects THEN 0 ELSE 1
<1>1. /\ packet_pool \in [Workers -> Seq(Nat)] /\ queue \in [Workers -> Seq(Packets)]
      /\ Split(ObjectAt, dropped.objects, objects) /\ \A w \in Workers : Single(w)
      /\ \A w \in Workers : Unique(packet_pool[w]) /\ Unique(ObjectSeq(queue[w]))
  BY ZenonT(60) DEF IInv, Types, Kept, ObjectAt, ObjectQueue
<1>2. CASE o \in dropped.objects
  <2>1. ASSUME NEW h \in ObjectHolders(o) PROVE FALSE
    <3>1. PICK k \in Kinds, w \in Workers : o \in ObjectAt[k][w]
      BY <2>1, ObjectPlace, ZenonT(60)
    <3> QED
      BY <1>1, <1>2, <3>1, Zenon DEF Split
  <2>2. ObjectHolders(o) = {}
    BY <2>1, Zenon
  <2> QED
    BY <1>2, <2>2, FS_EmptySet, ZenonT(60)
<1>3. CASE o \notin dropped.objects
  <2>1. PICK k \in Kinds, w \in Workers : o \in ObjectAt[k][w]
    BY <1>1, <1>3, Zenon DEF Split
  <2>2. \E h : h \in ObjectHolders(o)
    <3>1. CASE k = "pool"
      <4>1. PICK i \in DOMAIN packet_pool[w] : packet_pool[w][i] = o
        BY <2>1, <3>1, BufferPlaces, SMTT(60) DEF Elems
      <4> QED
        BY <4>1, ObjectHeld, ZenonT(60)
    <3>2. CASE k = "queue"
      <4>1. o \in Elems(ObjectSeq(queue[w]))
        BY <2>1, <3>2, BufferPlaces, Zenon
      <4>2. PICK i \in DOMAIN queue[w] : queue[w][i].object = o
        BY <4>1, SeqFacts, Zenon
      <4> QED
        BY <4>2, ObjectHeld, Zenon
    <3>3. k # "slot"
      BY <2>1, BufferPlaces, Zenon
    <3> QED
      BY <3>1, <3>2, <3>3, Zenon DEF Kinds
  <2>3. PICK h : h \in ObjectHolders(o)
    BY <2>2, Zenon
  <2>4. ASSUME NEW g \in ObjectHolders(o) PROVE g = h
    <3>1. PICK l \in Kinds, v \in Workers, i \in Nat :
            /\ h = <<l, v, i>> /\ o \in ObjectAt[l][v]
            /\ l = "pool" => i \in DOMAIN packet_pool[v] /\ packet_pool[v][i] = o
            /\ l = "queue" => i \in DOMAIN queue[v] /\ queue[v][i].object = o
      BY <2>3, ObjectPlace, ZenonT(60)
    <3>2. PICK m \in Kinds, u \in Workers, j \in Nat :
            /\ g = <<m, u, j>> /\ o \in ObjectAt[m][u]
            /\ m = "pool" => j \in DOMAIN packet_pool[u] /\ packet_pool[u][j] = o
            /\ m = "queue" => j \in DOMAIN queue[u] /\ queue[u][j].object = o
      BY <2>4, ObjectPlace, ZenonT(60)
    <3>3. l = m /\ u = v
      BY <1>1, <3>1, <3>2, ZenonT(60) DEF Split
    <3>4. l # "slot"
      BY <3>1, BufferPlaces, ZenonT(60)
    <3>5. i = j
      <4>1. Unique(packet_pool[v]) /\ Unique(ObjectSeq(queue[v]))
        BY <1>1, ZenonT(60) DEF Single
      <4>2. /\ \A s, t \in DOMAIN packet_pool[v] : packet_pool[v][s] = packet_pool[v][t] => s = t
            /\ \A s, t \in DOMAIN queue[v] : queue[v][s].object = queue[v][t].object => s = t
        BY <4>1, SeqFacts, Zenon DEF Unique
      <4> QED
        BY <3>1, <3>2, <3>3, <3>4, <4>2, ZenonT(60) DEF Kinds
    <3> QED
      BY <3>1, <3>2, <3>3, <3>5, Zenon
  <2>5. ObjectHolders(o) = {h}
    BY <2>3, <2>4, Zenon
  <2> QED
    BY <1>3, <2>5, FS_Singleton, Zenon
<1> QED
  BY <1>2, <1>3, ZenonT(60)

\* The memory of a packet is in one place, whichever workers it goes through, and
\* is lost only where it is dropped (NewBuffer, NewPacket, Pool, ReadPacketsMulti,
\* NqDispatcher::Process).
THEOREM MemoryInOnePlace ==
  Spec => []EveryBufferOnce
<1>1. Init => IInv
  BY InitHolds, ZenonT(60)
<1>2. IInv /\ [Next]_vars => IInv'
  BY NextKeeps, Zenon
<1>3. ASSUME IInv PROVE EveryBufferOnce
  <2>1. \A b \in 1 .. buffers :
          Cardinality(BufferHolders(b)) = IF b \in dropped.buffers THEN 0 ELSE 1
    BY <1>3, BufferInOnePlace, ZenonT(60)
  <2>2. \A o \in 1 .. objects :
          Cardinality(ObjectHolders(o)) = IF o \in dropped.objects THEN 0 ELSE 1
    BY <1>3, ObjectInOnePlace, ZenonT(60)
  <2> QED
    BY <2>1, <2>2, Zenon DEF EveryBufferOnce
<1> QED
  BY <1>1, <1>2, <1>3, PTL DEF Spec
=============================================================================
