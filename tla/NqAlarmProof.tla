---------------------------- MODULE NqAlarmProof ----------------------------
(***************************************************************************)
(* Proofs about the alarms of the API, for any pool, any number of alarms  *)
(* and of calls.  SerialInv is what makes a serial tell an alarm from the  *)
(* earlier ones of its block; StepInv is what a careful caller and the     *)
(* loop keep between them.                                                 *)
(***************************************************************************)
EXTENDS NqAlarm, SequenceTheorems, TLAPS

Codes == {"start", "finalize", "exec"}
Ops == [code : Codes, serial : Serials, ptr : Blocks]

(* A serial is in one block at most, never again once it is destroyed.     *)
SerialInv ==
  /\ destroyed \subseteq 1 .. made
  /\ \A n \in Serials : n <= made => block[n] \in Blocks
  /\ \A b \in Blocks :
       /\ serial[b] <= made /\ serial[b] \notin destroyed
       /\ serial[b] # Empty => block[serial[b]] = b

(* Every queued operation is for the alarm that is in its block; an Exec   *)
(* is alone and its alarm set without an entry, a Finalize is the last for *)
(* its alarm, and the loop polls when nothing is queued for an entry.      *)
OpInv(k) ==
  /\ serial[queue[k].ptr] = queue[k].serial
  /\ queue[k].code = "exec" =>
       /\ set[queue[k].ptr] /\ ~entry[queue[k].ptr]
       /\ \A j \in DOMAIN queue : queue[j].ptr = queue[k].ptr => j = k
  /\ queue[k].code = "finalize" =>
       \A j \in DOMAIN queue : queue[j].ptr = queue[k].ptr => j <= k

BlockInv(b) ==
  /\ orphans[b] = 0
  /\ entry[b] => set[b]
  /\ set[b] => serial[b] # Empty
  /\ set[b] /\ ~entry[b] => \E k \in DOMAIN queue : queue[k].code = "exec" /\ queue[k].ptr = b
  /\ phase = "poll" /\ entry[b] => \A k \in DOMAIN queue : queue[k].ptr # b

StepInv ==
  careful =>
    /\ broken = {}
    /\ \A k \in DOMAIN queue : OpInv(k)
    /\ \A b \in Blocks : BlockInv(b)

IInv == TypeOK /\ SerialInv /\ PoolExact

----------------------------------------------------------------------------
LEMMA InitIInv == Init => IInv /\ StepInv
<1> SUFFICES ASSUME Init PROVE IInv /\ StepInv
  OBVIOUS
<1>1. TypeOK
  BY BoundsAssumption DEF Init, TypeOK, Blocks, Empty
<1>2. SerialInv
  BY BoundsAssumption DEF Init, SerialInv, Serials, Empty
<1>3. PoolExact
  <2>1. Len(pool) = NumBlocks /\ \A i \in 1 .. NumBlocks : pool[i] = i
    BY BoundsAssumption DEF Init, Blocks
  <2> QED
    BY <2>1, Zenon DEF Init, PoolExact, PoolHolds, Blocks
<1>4. StepInv
  BY DEF Init, StepInv, BlockInv
<1> QED
  BY <1>1, <1>2, <1>3, <1>4 DEF IInv

(* What appending to, popping from and taking the head of a sequence do.   *)
LEMMA AppendFacts ==
  ASSUME NEW S, NEW s \in Seq(S), NEW x \in S
  PROVE  /\ Append(s, x) \in Seq(S) /\ Len(Append(s, x)) = Len(s) + 1 /\ Len(s) \in Nat
         /\ DOMAIN s = 1 .. Len(s) /\ DOMAIN Append(s, x) = 1 .. (Len(s) + 1)
         /\ \A i \in 1 .. Len(s) : Append(s, x)[i] = s[i]
         /\ Append(s, x)[Len(s) + 1] = x
OBVIOUS

LEMMA PopFacts ==
  ASSUME NEW S, NEW s \in Seq(S), s # << >>
  PROVE  /\ SubSeq(s, 1, Len(s) - 1) \in Seq(S) /\ Len(SubSeq(s, 1, Len(s) - 1)) = Len(s) - 1
         /\ Len(s) \in Nat /\ Len(s) > 0 /\ s[Len(s)] \in S
         /\ \A i \in 1 .. Len(s) - 1 : SubSeq(s, 1, Len(s) - 1)[i] = s[i]
<1>1. Len(s) \in Nat /\ Len(s) > 0
  OBVIOUS
<1>2. \A i \in 1 .. Len(s) : s[i] \in S
  OBVIOUS
<1>3. Len(s) - 1 \in Int /\ 1 \in Int /\ \A i \in 1 .. Len(s) - 1 : s[i] \in S
  BY <1>1, <1>2
<1>4. /\ SubSeq(s, 1, Len(s) - 1) \in Seq(S)
      /\ Len(SubSeq(s, 1, Len(s) - 1)) = IF 1 <= Len(s) - 1 THEN Len(s) - 1 - 1 + 1 ELSE 0
      /\ \A i \in 1 .. Len(s) - 1 - 1 + 1 : SubSeq(s, 1, Len(s) - 1)[i] = s[1 + i - 1]
  BY <1>3, SubSeqProperties
<1>5. Len(s) - 1 - 1 + 1 = Len(s) - 1 /\ \A i \in 1 .. Len(s) - 1 : 1 + i - 1 = i
  BY <1>1
<1> QED
  BY <1>1, <1>2, <1>4, <1>5

LEMMA TailFacts ==
  ASSUME NEW S, NEW s \in Seq(S), s # << >>
  PROVE  /\ Head(s) \in S /\ Head(s) = s[1] /\ 1 \in DOMAIN s
         /\ Tail(s) \in Seq(S)
         /\ \A i \in DOMAIN Tail(s) : i \in Nat \ {0} /\ i + 1 \in DOMAIN s /\ Tail(s)[i] = s[i + 1]
         /\ \A i \in DOMAIN s : i # 1 => i - 1 \in DOMAIN Tail(s) /\ Tail(s)[i - 1] = s[i]
OBVIOUS

(* A block goes out of the pool, and comes back.                           *)
LEMMA PoppedFacts ==
  ASSUME NEW p \in Seq(Blocks)
  PROVE  Popped(p) \in Seq(Blocks) /\ (p # << >> => p[Len(p)] \in Blocks)
<1>1. CASE p = << >>
  <2>1. Len(p) = 0 /\ \A i \in 1 .. 0 - 1 : p[i] \in Blocks
    BY <1>1
  <2>2. SubSeq(p, 1, 0 - 1) \in Seq(Blocks)
    BY <2>1, SubSeqProperties
  <2> QED
    BY <1>1, <2>1, <2>2, Zenon DEF Popped
<1>2. CASE p # << >>
  BY <1>2, PopFacts, Zenon DEF Popped
<1> QED
  BY <1>1, <1>2, Zenon

LEMMA PoolPops ==
  ASSUME IInv, NewAlarm, makers = "loop"
  PROVE  /\ pool[Len(pool)] \in Blocks /\ serial[pool[Len(pool)]] = Empty
         /\ PoolHolds'
<1>0. PoolHolds
  BY Zenon DEF IInv, PoolExact
<1> USE DEF IInv
<1> DEFINE b == pool[Len(pool)]
<1>1. /\ pool # << >> /\ pool' = SubSeq(pool, 1, Len(pool) - 1) /\ pool \in Seq(Blocks)
      /\ serial' = [serial EXCEPT ![b] = made + 1] /\ registry' = registry \cup {made + 1}
      /\ serial \in [Blocks -> Serials \cup {Empty}] /\ made + 1 # Empty
  BY <1>0, SMTT(60) DEF NewAlarm, Construct, Popped, TypeOK, Empty
<1>2. /\ pool' \in Seq(Blocks) /\ Len(pool') = Len(pool) - 1 /\ Len(pool) \in Nat /\ Len(pool) > 0
      /\ b \in Blocks /\ \A i \in 1 .. Len(pool) - 1 : pool'[i] = pool[i]
  BY <1>1, PopFacts
<1>3. serial[b] = Empty
  BY <1>0, <1>2 DEF PoolHolds
<1>4. \A c \in Blocks : serial'[c] = IF c = b THEN made + 1 ELSE serial[c]
  BY <1>1, <1>2
<1>5. \A i \in 1 .. Len(pool') : i \in 1 .. Len(pool) /\ i # Len(pool) /\ pool'[i] = pool[i] /\ pool[i] # b
  BY <1>0, <1>2, SMTT(60) DEF PoolHolds
<1>6. \A i \in 1 .. Len(pool) : i \in 1 .. Len(pool') \/ i = Len(pool)
  BY <1>2
<1> HIDE DEF b
<1>7. PoolHolds'
  <2>1. \A c \in Blocks : serial'[c] # Empty => serial'[c] \in registry'
    BY <1>0, <1>1, <1>4 DEF PoolHolds
  <2>2. ASSUME NEW c \in Blocks PROVE serial'[c] = Empty <=> \E i \in 1 .. Len(pool') : pool'[i] = c
    <3>1. CASE c = b
      BY <1>1, <1>4, <1>5, <3>1, Zenon
    <3>2. CASE c # b
      <4>1. serial'[c] = serial[c] /\ (serial[c] = Empty <=> \E i \in 1 .. Len(pool) : pool[i] = c)
        BY <1>0, <1>4, <3>2 DEF PoolHolds
      <4>2. (\E i \in 1 .. Len(pool) : pool[i] = c) <=> \E i \in 1 .. Len(pool') : pool'[i] = c
        BY <1>5, <1>6, <3>2 DEF b
      <4> QED
        BY <4>1, <4>2
    <3> QED
      BY <3>1, <3>2
  <2>3. \A i, j \in 1 .. Len(pool') : pool'[i] = pool'[j] => i = j
    BY <1>0, <1>5 DEF PoolHolds
  <2> QED
    BY <2>1, <2>2, <2>3 DEF PoolHolds
<1> QED
  BY <1>2, <1>3, <1>7 DEF b

LEMMA PoolPushes ==
  ASSUME IInv, NEW b \in Blocks, serial[b] # Empty, pool' = Append(pool, b),
         serial' = [serial EXCEPT ![b] = Empty], registry \ {serial[b]} \subseteq registry',
         makers' = makers
  PROVE  pool' \in Seq(Blocks) /\ PoolExact'
<1> USE DEF IInv
<1>0. makers' = "loop" => PoolHolds
  BY Zenon DEF PoolExact
<1>1. /\ pool \in Seq(Blocks) /\ serial \in [Blocks -> Serials \cup {Empty}]
      /\ \A c \in Blocks : serial'[c] = IF c = b THEN Empty ELSE serial[c]
  BY DEF TypeOK
<1>2. /\ pool' \in Seq(Blocks) /\ Len(pool') = Len(pool) + 1 /\ Len(pool) \in Nat
      /\ \A i \in 1 .. Len(pool) : pool'[i] = pool[i]
      /\ pool'[Len(pool) + 1] = b
  BY <1>1, AppendFacts
<1> SUFFICES ASSUME PoolHolds PROVE PoolHolds'
  BY <1>0, <1>2, Zenon DEF PoolExact
<1>3. \A i \in 1 .. Len(pool') : \/ i \in 1 .. Len(pool) /\ pool'[i] = pool[i] /\ pool[i] # b
                                 \/ i = Len(pool') /\ pool'[i] = b
  BY <1>2 DEF PoolHolds
<1>4. \A i \in 1 .. Len(pool) : i \in 1 .. Len(pool')
  BY <1>2
<1>5. Len(pool') \in 1 .. Len(pool') /\ pool'[Len(pool')] = b
  BY <1>2
<1>6. \A c \in Blocks : serial'[c] # Empty => serial'[c] \in registry'
  <2> SUFFICES ASSUME NEW c \in Blocks, serial'[c] # Empty PROVE serial'[c] \in registry'
    OBVIOUS
  <2>1. c # b /\ serial'[c] = serial[c] /\ serial[c] # Empty
    BY <1>1
  <2>2. serial[c] # serial[b]
    BY <2>1 DEF SerialInv
  <2> QED
    BY <2>1, <2>2 DEF PoolHolds
<1>7. ASSUME NEW c \in Blocks PROVE serial'[c] = Empty <=> \E i \in 1 .. Len(pool') : pool'[i] = c
  <2>1. CASE c = b
    BY <1>1, <1>5, <2>1
  <2>2. CASE c # b
    <3>1. serial'[c] = serial[c] /\ (serial[c] = Empty <=> \E i \in 1 .. Len(pool) : pool[i] = c)
      BY <1>1, <2>2 DEF PoolHolds
    <3>2. (\E i \in 1 .. Len(pool) : pool[i] = c) <=> \E i \in 1 .. Len(pool') : pool'[i] = c
      BY <1>2, <1>3, <1>4, <2>2, Zenon
    <3> QED
      BY <3>1, <3>2
  <2> QED
    BY <2>1, <2>2
<1>8. \A i, j \in 1 .. Len(pool') : pool'[i] = pool'[j] => i = j
  BY <1>3 DEF PoolHolds
<1> QED
  BY <1>2, <1>6, <1>7, <1>8, Zenon DEF PoolHolds

(* The head of the queue, when it is for the alarm in its block.           *)
LEMMA TakeFacts ==
  ASSUME IInv, NEW code, Take(code)
  PROVE  /\ Head(queue) \in Ops /\ Head(queue).ptr \in Blocks /\ Head(queue).serial \in Serials
         /\ Head(queue).serial # Empty /\ Head(queue) = queue[1] /\ 1 \in DOMAIN queue
         /\ queue' \in Seq(Ops)
         /\ \A i \in DOMAIN queue' : i \in Nat \ {0} /\ i + 1 \in DOMAIN queue /\ queue'[i] = queue[i + 1]
         /\ \A i \in DOMAIN queue : i # 1 => i - 1 \in DOMAIN queue' /\ queue'[i - 1] = queue[i]
<1>1. queue \in Seq(Ops) /\ queue # << >> /\ queue' = Tail(queue)
  BY DEF IInv, TypeOK, Take, Ops, Codes
<1>2. \A n \in Serials : n # Empty
  BY BoundsAssumption DEF Serials, Empty
<1>3. Head(queue) \in Ops => Head(queue).ptr \in Blocks /\ Head(queue).serial \in Serials
  BY DEF Ops
<1> QED
  BY <1>1, <1>2, <1>3, TailFacts

----------------------------------------------------------------------------
(* IInv, one lemma per kind of step.                                       *)
LEMMA ConstructIInv ==
  ASSUME IInv, made < MaxAlarms, NEW b \in Blocks, Construct(b),
         pool' \in Seq(Blocks), alloc' \in Seq(Blocks), alloc' # << >> => makers = "any",
         registry' \subseteq registry \cup {made + 1}
  PROVE  TypeOK' /\ SerialInv'
<1> USE DEF IInv
<1>1. b \in Blocks
  OBVIOUS
<1>2. /\ made < MaxAlarms /\ made' = made + 1 /\ block' = [block EXCEPT ![made + 1] = b]
      /\ serial' = [serial EXCEPT ![b] = made + 1] /\ set' = [set EXCEPT ![b] = FALSE]
      /\ entry' = [entry EXCEPT ![b] = FALSE] /\ orphans' = [orphans EXCEPT ![b] = Orphaned(b)]
      /\ ran' = Empty /\ UNCHANGED <<careful, makers, queue, phase, calls, destroyed, broken>>
  BY Zenon DEF Construct
<1>3. made + 1 \in Serials /\ made' \in 0 .. MaxAlarms /\ made \in Nat
  BY <1>2, BoundsAssumption DEF TypeOK, Serials
<1>4. TypeOK'
  <2>1. orphans' \in [Blocks -> Nat]
    <3>1. Orphaned(b) \in Nat
      BY SMTT(60) DEF Orphaned, TypeOK
    <3> QED
      BY <1>2, <3>1, Zenon DEF TypeOK
  <2>2. registry' \subseteq Serials
    BY <1>3, Zenon DEF TypeOK
  <2> QED
    BY <1>1, <1>2, <1>3, <2>1, <2>2, ZenonT(60) DEF TypeOK
<1>5. SerialInv'
  <2>1. destroyed' \subseteq 1 .. made' /\ made + 1 \notin destroyed
    BY <1>2, <1>3 DEF SerialInv
  <2>2. \A n \in Serials : n <= made' => n <= made \/ n = made + 1
    BY <1>2, <1>3 DEF Serials
  <2>3. \A n \in Serials : block'[n] = IF n = made + 1 THEN b ELSE block[n]
    BY <1>2, <1>3 DEF TypeOK
  <2>4. \A n \in Serials : n <= made' => block'[n] \in Blocks
    BY <1>1, <2>2, <2>3 DEF SerialInv
  <2>5. ASSUME NEW c \in Blocks
        PROVE  /\ serial'[c] <= made' /\ serial'[c] \notin destroyed'
               /\ serial'[c] # Empty => block'[serial'[c]] = c
    <3>1. CASE c = b
      <4>1. serial'[c] = made + 1
        BY <1>2, <3>1, Zenon DEF TypeOK
      <4> QED
        BY <1>2, <1>3, <2>1, <2>3, <3>1, <4>1
    <3>2. CASE c # b
      <4>1. serial'[c] = serial[c] /\ serial[c] <= made /\ serial[c] \in Serials \cup {Empty}
        BY <1>2, <3>2, Zenon DEF TypeOK, SerialInv
      <4>2. serial[c] # made + 1 /\ serial[c] <= made'
        BY <1>2, <1>3, <4>1 DEF Serials, Empty
      <4> QED
        BY <1>2, <2>3, <4>1, <4>2 DEF SerialInv
    <3> QED
      BY <3>1, <3>2
  <2> QED
    BY <2>1, <2>4, <2>5 DEF SerialInv
<1> QED
  BY <1>4, <1>5

LEMMA NewAlarmIInv == ASSUME IInv, NewAlarm PROVE IInv'
<1>1. /\ made < MaxAlarms /\ pool # << >> /\ pool' = Popped(pool) /\ alloc' = alloc
      /\ registry' = registry \cup {made + 1} /\ Construct(pool[Len(pool)]) /\ makers' = makers
  BY Zenon DEF NewAlarm, Construct
<1>2. alloc \in Seq(Blocks) /\ pool \in Seq(Blocks) /\ (alloc # << >> => makers = "any")
  BY Zenon DEF IInv, TypeOK
<1>3. TypeOK' /\ SerialInv'
  BY <1>1, <1>2, PoppedFacts, ConstructIInv, Zenon
<1>4. PoolExact'
  BY <1>1, PoolPops, Zenon DEF PoolExact
<1> QED
  BY <1>3, <1>4, Zenon DEF IInv

(* Another thread makes an alarm: nothing is left to show of the pool.     *)
LEMMA AllocIInv == ASSUME IInv, AllocTop \/ AllocPop PROVE IInv'
<1>1. alloc \in Seq(Blocks) /\ pool \in Seq(Blocks) /\ << >> \in Seq(Blocks)
  <2>1. << >> \in Seq(Blocks)
    OBVIOUS
  <2> QED
    BY <2>1, Zenon DEF IInv, TypeOK
<1>2. CASE AllocTop
  <2>1. calls' \in 0 .. MaxOps
    BY <1>2, BoundsAssumption DEF IInv, TypeOK, AllocTop
  <2>2. /\ makers = "any" /\ alloc' = pool /\ ran' = Empty
        /\ UNCHANGED <<careful, makers, pool, registry, made, block, serial, set, entry, orphans,
                       queue, phase, destroyed, broken>>
    BY <1>2, Zenon DEF AllocTop
  <2>3. TypeOK'
    BY <1>1, <2>1, <2>2, ZenonT(60) DEF IInv, TypeOK
  <2>4. SerialInv'
    BY <2>2, Zenon DEF IInv, SerialInv
  <2>5. PoolExact'
    BY <2>2 DEF PoolExact
  <2> QED
    BY <2>3, <2>4, <2>5, Zenon DEF IInv
<1>3. CASE AllocPop
  <2>1. /\ made < MaxAlarms /\ alloc # << >> /\ Construct(alloc[Len(alloc)]) /\ alloc' = << >>
        /\ pool' \in {Popped(pool), Popped(alloc), pool}
        /\ registry' \subseteq registry \cup {made + 1} /\ makers' = makers
    BY <1>3, Zenon DEF AllocPop, Construct
  <2>2. TypeOK' /\ SerialInv'
    BY <1>1, <2>1, PoppedFacts, ConstructIInv, Zenon
  <2>3. PoolExact'
    BY <2>1, SMTT(60) DEF IInv, TypeOK, PoolExact
  <2> QED
    BY <2>2, <2>3, Zenon DEF IInv
<1> QED
  BY <1>2, <1>3

LEMMA ApiCallIInv == ASSUME IInv, NEW n \in Serials,
nq_alarm_set(n) \/ nq_alarm_destroy(n) PROVE IInv'
<1> USE DEF IInv
<1>1. PICK code \in {"start", "finalize"} : ApiCall(code, n)
  BY DEF nq_alarm_set, nq_alarm_destroy
<1>2. Op(code, n, block[n]) \in Ops /\ queue \in Seq(Ops)
  BY <1>1 DEF ApiCall, SerialInv, Op, Ops, Codes, TypeOK
<1>3. queue' \in Seq(Ops) /\ calls' \in 0 .. MaxOps
  BY <1>1, <1>2, AppendFacts, BoundsAssumption DEF ApiCall, TypeOK
<1>4. TypeOK'
  BY <1>1, <1>3, Zenon DEF ApiCall, alarms, callers, TypeOK, Ops, Codes
<1>5. SerialInv' /\ PoolExact'
  BY <1>1 DEF ApiCall, alarms, callers, SerialInv, PoolExact, PoolHolds
<1> QED
  BY <1>4, <1>5

LEMMA FireIInv ==
  ASSUME IInv, NEW b \in Blocks, OnFire(b) \/ OnFireOrphan(b)
  PROVE  IInv'
<1> USE DEF IInv
<1>1. serial[b] # Empty => Op("exec", serial[b], b) \in Ops
  BY DEF Op, Ops, Codes, TypeOK
<1>2. queue' \in Seq(Ops)
  <2>1. queue \in Seq(Ops)
    BY DEF TypeOK, Ops, Codes
  <2>2. queue' = queue \/ (serial[b] # Empty /\ queue' = Append(queue, Op("exec", serial[b], b)))
    BY DEF OnFire, OnFireOrphan
  <2> QED
    BY <1>1, <2>1, <2>2, AppendFacts
<1>3. orphans' \in [Blocks -> Nat] /\ entry' \in [Blocks -> BOOLEAN]
  <2>1. CASE OnFire(b)
    BY <2>1, Zenon DEF OnFire, TypeOK
  <2>2. CASE OnFireOrphan(b)
    BY <2>2, SMTT(60) DEF OnFireOrphan, TypeOK
  <2> QED
    BY <2>1, <2>2
<1>4. broken' \subseteq {"cancel", "finalize", "exec", "freed"} /\ ran' = Empty
  BY ZenonT(60) DEF OnFire, OnFireOrphan, TypeOK
<1>5. UNCHANGED <<careful, makers, alloc, pool, registry, made, block, serial, set, phase, calls,
                  destroyed>>
  BY Zenon DEF OnFire, OnFireOrphan, callers
<1>6. TypeOK'
  BY <1>2, <1>3, <1>4, <1>5, Zenon DEF TypeOK, Ops, Codes
<1>7. SerialInv' /\ PoolExact'
  BY <1>5, Zenon DEF SerialInv, PoolExact, PoolHolds
<1> QED
  BY <1>6, <1>7

(* The operations that leave the alarm in its block.                       *)
LEMMA TakeIInv ==
  ASSUME IInv, Start \/ StartStale \/ Stale("finalize") \/ Stale("exec") \/ ExecAgain \/ ExecStops
  PROVE  IInv'
<1> USE DEF IInv
<1>1. PICK code : Take(code)
  BY Zenon DEF Start, StartStale, Stale, ExecAgain, ExecStops, ExecTake
<1>2. queue' \in Seq(Ops) /\ Head(queue).ptr \in Blocks /\ Head(queue).serial \in Serials
  BY <1>1, TakeFacts, Zenon
<1>3. UNCHANGED <<careful, makers, alloc, made, block, phase, calls, pool, registry, serial,
                  destroyed>>
  BY <1>1, Zenon DEF Take, callers, Start, StartStale, Stale, ExecAgain, ExecStops, ExecTake
<1>4. set' \in [Blocks -> BOOLEAN] /\ entry' \in [Blocks -> BOOLEAN]
  BY <1>2, Zenon DEF Start, StartStale, Stale, ExecAgain, ExecStops, TypeOK
<1>5. orphans' \in [Blocks -> Nat]
  <2>1. Orphaned(Head(queue).ptr) \in Nat
    BY <1>2, SMTT(60) DEF Orphaned, TypeOK
  <2> QED
    BY <1>2, <2>1, ZenonT(60) DEF Start, StartStale, Stale, ExecAgain, ExecStops, ExecTake, TypeOK
<1>6. ran' \in Serials \cup {Empty}
  BY <1>2, Zenon DEF Start, StartStale, Stale, ExecAgain, ExecStops, ExecTake
<1>7. broken' \subseteq {"cancel", "finalize", "exec", "freed"}
  BY Zenon DEF Start, StartStale, Stale, ExecAgain, ExecStops, ExecTake, TypeOK
<1>8. TypeOK'
  BY <1>2, <1>3, <1>4, <1>5, <1>6, <1>7, Zenon DEF TypeOK, Ops, Codes
<1>9. SerialInv' /\ PoolExact'
  BY <1>3, Zenon DEF SerialInv, PoolExact, PoolHolds
<1> QED
  BY <1>8, <1>9

(* The operations that delete the alarm.                                   *)
LEMMA DeleteFacts ==
  ASSUME IInv, Finalize \/ ExecDeletes, NEW b, b = Head(queue).ptr
  PROVE  /\ b \in Blocks /\ serial[b] = Head(queue).serial /\ serial[b] \in Serials /\ serial[b] # Empty
         /\ queue' \in Seq(Ops)
         /\ pool' = Append(pool, b) /\ serial' = [serial EXCEPT ![b] = Empty]
         /\ set' = [set EXCEPT ![b] = FALSE] /\ entry' = [entry EXCEPT ![b] = FALSE]
         /\ registry \ {serial[b]} \subseteq registry' /\ registry' \subseteq registry
         /\ destroyed \subseteq destroyed' /\ destroyed' \subseteq destroyed \cup {serial[b]}
         /\ UNCHANGED <<careful, makers, alloc, made, block, phase, calls>>
<1>1. PICK code : Take(code) /\ Current
  BY Zenon DEF Finalize, ExecDeletes, ExecTake
<1>2. queue' \in Seq(Ops) /\ b \in Blocks /\ Head(queue).serial \in Serials /\ Head(queue).serial # Empty
  BY <1>1, TakeFacts
<1>3. UNCHANGED <<careful, makers, alloc, made, block, phase, calls>> /\ serial[b] = Head(queue).serial
  BY <1>1, Zenon DEF Take, Current, callers
<1> QED
  BY <1>2, <1>3, Zenon DEF Finalize, ExecDeletes, ExecTake

LEMMA DeleteIInv == ASSUME IInv, Finalize \/ ExecDeletes PROVE IInv'
<1> USE DEF IInv
<1>1. PICK b : b = Head(queue).ptr
  OBVIOUS
<1>2. /\ b \in Blocks /\ serial[b] = Head(queue).serial /\ serial[b] \in Serials /\ serial[b] # Empty
      /\ queue' \in Seq(Ops)
      /\ pool' = Append(pool, b) /\ serial' = [serial EXCEPT ![b] = Empty]
      /\ set' = [set EXCEPT ![b] = FALSE] /\ entry' = [entry EXCEPT ![b] = FALSE]
      /\ registry \ {serial[b]} \subseteq registry' /\ registry' \subseteq registry
      /\ destroyed \subseteq destroyed' /\ destroyed' \subseteq destroyed \cup {serial[b]}
      /\ UNCHANGED <<careful, makers, alloc, made, block, phase, calls>>
  BY <1>1, DeleteFacts, Zenon
<1>3. pool' \in Seq(Blocks) /\ PoolExact'
  BY <1>2, PoolPushes, Zenon
<1>4. orphans' \in [Blocks -> Nat]
  <2>1. Orphaned(Head(queue).ptr) \in Nat
    BY <1>1, <1>2, SMTT(60) DEF Orphaned, TypeOK
  <2> QED
    BY <1>1, <1>2, <2>1, ZenonT(60) DEF Finalize, ExecDeletes, ExecTake, TypeOK
<1>5. ran' \in Serials \cup {Empty} /\ broken' \subseteq {"cancel", "finalize", "exec", "freed"}
  BY <1>2, ZenonT(60) DEF Finalize, ExecDeletes, ExecTake, TypeOK
<1>6. TypeOK'
  BY <1>2, <1>3, <1>4, <1>5, Zenon DEF TypeOK, Ops, Codes
<1>7. SerialInv'
  <2>1. \A c \in Blocks : serial'[c] = IF c = b THEN Empty ELSE serial[c]
    BY <1>2, Zenon DEF TypeOK
  <2>2. serial[b] \in 1 .. made /\ made \in Nat
    BY <1>2 DEF SerialInv, TypeOK, Serials
  <2>3. destroyed' \subseteq 1 .. made
    BY <1>2, <2>2, Zenon DEF SerialInv
  <2>4. Empty \notin destroyed' /\ Empty <= made
    BY <2>2, <2>3 DEF Empty
  <2>5. ASSUME NEW c \in Blocks
        PROVE  /\ serial'[c] <= made /\ serial'[c] \notin destroyed'
               /\ serial'[c] # Empty => block[serial'[c]] = c
    <3>1. CASE c = b
      BY <2>1, <2>4, <3>1
    <3>2. CASE c # b
      <4>1. serial'[c] = serial[c]
        BY <2>1, <3>2
      <4>2. serial[c] # serial[b]
        BY <1>2, <3>2, Zenon DEF SerialInv
      <4> QED
        BY <1>2, <4>1, <4>2, Zenon DEF SerialInv
    <3> QED
      BY <3>1, <3>2
  <2> QED
    BY <1>2, <2>3, <2>5 DEF SerialInv
<1> QED
  BY <1>3, <1>6, <1>7

LEMMA NextIInv == ASSUME IInv, [Next]_vars PROVE IInv'
<1>1. CASE UNCHANGED vars
  <2>1. TypeOK'
    BY <1>1, Zenon DEF IInv, vars, TypeOK
  <2>2. SerialInv' /\ PoolExact'
    BY <1>1, Zenon DEF IInv, vars, SerialInv, PoolExact, PoolHolds
  <2> QED
    BY <2>1, <2>2 DEF IInv
<1>2. CASE DrainDone \/ PollDone
  <2>1. UNCHANGED alarms /\ UNCHANGED <<queue, calls, destroyed, broken>> /\ ran' = Empty
        /\ phase' \in {"drain", "poll"}
    BY <1>2 DEF DrainDone, PollDone
  <2>2. TypeOK'
    BY <2>1 DEF IInv, alarms, callers, TypeOK
  <2>3. SerialInv' /\ PoolExact'
    BY <2>1 DEF IInv, alarms, callers, SerialInv, PoolExact, PoolHolds
  <2> QED
    BY <2>2, <2>3 DEF IInv
<1> QED
  BY <1>1, <1>2, NewAlarmIInv, AllocIInv, ApiCallIInv, FireIInv, TakeIInv, DeleteIInv DEF Next

----------------------------------------------------------------------------
(* StepInv, in the same way.                                               *)
LEMMA OpFacts ==
  ASSUME IInv, NEW k \in DOMAIN queue
  PROVE  /\ queue[k] \in Ops /\ queue[k].ptr \in Blocks /\ queue[k].serial \in Serials
         /\ queue[k].serial # Empty
<1>1. queue \in Seq(Ops)
  BY DEF IInv, TypeOK, Ops, Codes
<1>2. queue[k] \in Ops
  BY <1>1
<1>3. \A n \in Serials : n # Empty
  BY BoundsAssumption DEF Serials, Empty
<1> QED
  BY <1>2, <1>3 DEF Ops

LEMMA NewAlarmStep ==
  ASSUME IInv, StepInv, careful, NewAlarm
  PROVE  StepInv'
<1> DEFINE b == pool[Len(pool)]
<1>1. b \in Blocks /\ serial[b] = Empty
  BY PoolPops, Zenon DEF IInv, TypeOK
<1>2. /\ serial' = [serial EXCEPT ![b] = made + 1] /\ set' = [set EXCEPT ![b] = FALSE]
      /\ entry' = [entry EXCEPT ![b] = FALSE] /\ orphans' = [orphans EXCEPT ![b] = Orphaned(b)]
      /\ UNCHANGED <<careful, queue, phase, calls, destroyed, broken>>
  BY Zenon DEF NewAlarm, Construct
<1> HIDE DEF b
<1>3. \A c \in Blocks : /\ c # b => serial'[c] = serial[c] /\ set'[c] = set[c]
                        /\ orphans'[c] = orphans[c] /\ (entry'[c] <=> entry[c])
  <2>1. ~entry[b]
    BY <1>1, Zenon DEF StepInv, BlockInv
  <2>2. Orphaned(b) = orphans[b]
    BY <2>1, Zenon DEF Orphaned
  <2> QED
    BY <1>1, <1>2, <2>1, <2>2, ZenonT(60) DEF IInv, TypeOK
<1>4. ~set'[b] /\ ~entry'[b]
  BY <1>1, <1>2, ZenonT(60) DEF IInv, TypeOK
<1>5. ASSUME NEW k \in DOMAIN queue' PROVE OpInv(k)'
  <2>1. queue[k].ptr \in Blocks /\ serial[queue[k].ptr] # Empty
    BY <1>2, OpFacts, Zenon DEF StepInv, OpInv
  <2>2. serial'[queue[k].ptr] = serial[queue[k].ptr] /\ set'[queue[k].ptr] = set[queue[k].ptr]
    BY <1>1, <1>3, <2>1
  <2> QED
    BY <1>2, <1>3, <2>1, <2>2, ZenonT(60) DEF StepInv, OpInv
<1>6. ASSUME NEW c \in Blocks PROVE BlockInv(c)'
  <2>1. CASE c = b
    BY <1>2, <1>3, <1>4, <2>1, ZenonT(60) DEF StepInv, BlockInv
  <2>2. CASE c # b
    BY <1>2, <1>3, <2>2, ZenonT(60) DEF StepInv, BlockInv
  <2> QED
    BY <2>1, <2>2
<1> QED
  BY <1>2, <1>5, <1>6 DEF StepInv

(* Careful callers queue for an alarm that is there, with nothing but      *)
(* Starts before, and an entry that the loop is not polling if it is set.  *)
LEMMA ApiCallStep ==
  ASSUME IInv, StepInv, careful, NEW n \in Serials, nq_alarm_set(n) \/ nq_alarm_destroy(n)
  PROVE  StepInv'
<1>1. PICK code \in {"start", "finalize"} : ApiCall(code, n)
  BY DEF nq_alarm_set, nq_alarm_destroy
<1>2. PICK b : b = block[n]
  OBVIOUS
<1>3. /\ b \in Blocks /\ serial[b] = n /\ (set[b] => phase = "drain" /\ entry[b])
      /\ \A k \in 1 .. Len(queue) : queue[k].serial = n => queue[k].code = "start"
      /\ UNCHANGED alarms /\ UNCHANGED <<phase, destroyed, broken>>
      /\ queue' = Append(queue, Op(code, n, b))
  BY <1>1, <1>2, Zenon DEF ApiCall, InStep, IInv, SerialInv
<1>4. Op(code, n, b) \in Ops /\ Op(code, n, b).code = code /\ Op(code, n, b).serial = n
      /\ Op(code, n, b).ptr = b
  BY <1>3, Zenon DEF Op, Ops, Codes
<1>5. PICK l : l = Len(queue)
  BY Zenon
<1>6. queue \in Seq(Ops)
  BY DEF IInv, TypeOK, Ops, Codes
<1>7. /\ l \in Nat /\ DOMAIN queue = 1 .. l /\ DOMAIN queue' = 1 .. (l + 1)
      /\ \A i \in 1 .. l : queue'[i] = queue[i]
      /\ queue'[l + 1] = Op(code, n, b)
  BY <1>3, <1>4, <1>5, <1>6, AppendFacts, SMTT(60)
<1>8. \A k \in DOMAIN queue : queue[k].ptr = b => queue[k].code = "start"
  BY <1>3, <1>5, <1>7, SMTT(60) DEF StepInv, OpInv
<1>9. \A k \in DOMAIN queue' : \/ k \in DOMAIN queue /\ k \in 1 .. l /\ queue'[k] = queue[k]
                               \/ k = l + 1 /\ queue'[k] = Op(code, n, b)
  BY <1>7
<1>10. ASSUME NEW k \in DOMAIN queue' PROVE OpInv(k)'
  <2>1. CASE k = l + 1
    <3>1. \A j \in DOMAIN queue' : j <= k
      BY <1>7, <2>1, SMTT(60)
    <3> QED
      BY <1>1, <1>3, <1>4, <1>7, <2>1, <3>1, SMTT(60) DEF OpInv, alarms
  <2>2. CASE k \in DOMAIN queue /\ queue'[k] = queue[k]
    <3>1. queue[k].code \in {"exec", "finalize"} => queue[k].ptr # b
      BY <1>8, <2>2
    <3>2. OpInv(k)
      BY <2>2, Zenon DEF StepInv
    <3>3. UNCHANGED <<serial, set, entry>>
      BY <1>3, ZenonT(60) DEF alarms
    <3>4. ASSUME queue[k].code = "exec" \/ queue[k].code = "finalize"
          PROVE  \A j \in DOMAIN queue' : queue'[j].ptr = queue'[k].ptr =>
                   j \in DOMAIN queue /\ queue[j].ptr = queue[k].ptr
      BY <1>4, <1>9, <2>2, <3>1, <3>4, Zenon
    <3> QED
      BY <2>2, <3>2, <3>3, <3>4, Zenon DEF OpInv
  <2> QED
    BY <1>9, <2>1, <2>2, Zenon
<1>11. ASSUME NEW c \in Blocks PROVE BlockInv(c)'
  <2>1. BlockInv(c) /\ UNCHANGED <<orphans, set, entry, serial, phase>>
    BY <1>3, Zenon DEF StepInv, alarms
  <2>2. \A k \in DOMAIN queue : k \in DOMAIN queue' /\ queue'[k] = queue[k]
    BY <1>7, SMTT(60)
  <2>3. phase = "poll" /\ entry[c] => \A k \in DOMAIN queue' : queue'[k].ptr # c
    <3>1. phase = "poll" /\ entry[c] => c # b
      BY <1>3, <2>1, Zenon DEF BlockInv
    <3> QED
      BY <1>4, <1>9, <2>1, <3>1, Zenon DEF BlockInv
  <2> QED
    BY <2>1, <2>2, <2>3, Zenon DEF BlockInv
<1> QED
  BY <1>3, <1>10, <1>11, Zenon DEF StepInv, alarms, callers

(* An alarm that fires has nothing queued, since its entry is polled.      *)
LEMMA FireStep ==
  ASSUME IInv, StepInv, careful, NEW b \in Blocks, OnFire(b)
  PROVE  StepInv'
<1>1. /\ phase = "poll" /\ entry[b] /\ serial[b] # Empty /\ entry' = [entry EXCEPT ![b] = FALSE]
      /\ queue' = Append(queue, Op("exec", serial[b], b))
      /\ UNCHANGED <<careful, serial, set, orphans, phase, broken>>
  BY Zenon DEF OnFire, callers
<1>2. PICK o : o = Op("exec", serial[b], b)
  OBVIOUS
<1>3. o \in Ops /\ o.code = "exec" /\ o.serial = serial[b] /\ o.ptr = b
  BY <1>1, <1>2, Zenon DEF Op, Ops, Codes, IInv, TypeOK
<1>4. PICK l : l = Len(queue)
  BY Zenon
<1>5. queue \in Seq(Ops)
  BY SMTT(60) DEF IInv, TypeOK, Ops, Codes
<1>6. /\ l \in Nat /\ DOMAIN queue = 1 .. l /\ DOMAIN queue' = 1 .. (l + 1)
      /\ \A i \in 1 .. l : queue'[i] = queue[i]
      /\ queue'[l + 1] = o
  BY <1>1, <1>2, <1>3, <1>4, <1>5, AppendFacts
<1>7. set[b] /\ \A k \in DOMAIN queue : queue[k].ptr # b
  BY <1>1, Zenon DEF StepInv, BlockInv
<1>8. \A k \in DOMAIN queue' : \/ k \in DOMAIN queue /\ queue'[k] = queue[k]
                               \/ k = l + 1 /\ queue'[k] = o
  BY <1>6
<1>9. \A c \in Blocks : entry'[c] = IF c = b THEN FALSE ELSE entry[c]
  BY <1>1 DEF IInv, TypeOK
<1>10. ASSUME NEW k \in DOMAIN queue' PROVE OpInv(k)'
  <2>1. CASE k = l + 1 /\ queue'[k] = o
    <3>1. \A j \in DOMAIN queue' : queue'[j].ptr = b => j = k
      BY <1>7, <1>8, <2>1, Zenon
    <3>2. queue'[k].code = "exec" /\ queue'[k].ptr = b /\ queue'[k].serial = serial[b]
      BY <1>3, <2>1
    <3> QED
      BY <1>1, <1>7, <1>9, <3>1, <3>2, ZenonT(60) DEF OpInv
  <2>2. CASE k \in DOMAIN queue /\ queue'[k] = queue[k]
    <3>1. OpInv(k) /\ queue[k].ptr # b /\ queue[k].ptr \in Blocks
      BY <1>7, <2>2, OpFacts, ZenonT(60) DEF StepInv
    <3>2. \A j \in DOMAIN queue' : queue'[j].ptr = queue'[k].ptr =>
                 j \in DOMAIN queue /\ queue[j].ptr = queue[k].ptr
      BY <1>3, <1>8, <2>2, <3>1, Zenon
    <3> QED
      BY <1>1, <1>9, <2>2, <3>1, <3>2, ZenonT(60) DEF OpInv
  <2> QED
    BY <1>8, <2>1, <2>2, Zenon
<1>11. ASSUME NEW c \in Blocks PROVE BlockInv(c)'
  <2>1. BlockInv(c)
    BY DEF StepInv
  <2>2. \A k \in DOMAIN queue : k \in DOMAIN queue' /\ queue'[k] = queue[k]
    BY <1>6, SMTT(60)
  <2>3. CASE c = b
    <3>1. l + 1 \in DOMAIN queue' /\ queue'[l + 1].code = "exec" /\ queue'[l + 1].ptr = c
      BY <1>3, <1>6, <2>3
    <3> QED
      BY <1>1, <1>9, <2>1, <2>3, <3>1, Zenon DEF BlockInv
  <2>4. CASE c # b
    <3>1. entry'[c] = entry[c]
      BY <1>9, <2>4, Zenon
    <3>2. phase' = "poll" /\ entry'[c] => \A k \in DOMAIN queue' : queue'[k].ptr # c
      BY <1>1, <1>3, <1>8, <2>1, <2>4, <3>1, SMTT(60) DEF BlockInv
    <3> QED
      BY <1>1, <2>1, <2>2, <3>1, <3>2, ZenonT(60) DEF BlockInv
  <2> QED
    BY <2>3, <2>4
<1> QED
  BY <1>1, <1>10, <1>11, SMTT(60) DEF StepInv

(* What it takes to carry out the head of the queue, which is for block b. *)
LEMMA TakeStep ==
  ASSUME IInv, StepInv, careful, NEW code, Take(code), NEW b, b = Head(queue).ptr,
         orphans' = orphans, broken' = broken,
         \A c \in Blocks : c # b => serial'[c] = serial[c] /\ set'[c] = set[c] /\ entry'[c] = entry[c],
         (entry'[b] => set'[b]) /\ (set'[b] => entry'[b]) /\ (set'[b] => serial'[b] # Empty),
         \A k \in DOMAIN queue : k # 1 /\ queue[k].ptr = b =>
           serial'[b] = serial[b] /\ queue[k].code # "exec"
  PROVE  StepInv'
<1>1. /\ b \in Blocks /\ Head(queue) = queue[1] /\ 1 \in DOMAIN queue
      /\ \A i \in DOMAIN queue' : i \in Nat \ {0} /\ i + 1 \in DOMAIN queue /\ queue'[i] = queue[i + 1]
      /\ \A i \in DOMAIN queue : i # 1 => i - 1 \in DOMAIN queue' /\ queue'[i - 1] = queue[i]
  BY TakeFacts, Zenon
<1>2. careful' /\ phase' = "drain"
  BY Zenon DEF Take, callers
<1>3. ASSUME NEW k \in DOMAIN queue' PROVE OpInv(k)'
  <2>1. PICK i : i = k + 1
    BY Zenon
  <2>2. k \in Nat /\ i \in DOMAIN queue /\ i # 1 /\ queue'[k] = queue[i]
    BY <1>1, <2>1, SMTT(60)
  <2>3. OpInv(i) /\ queue[i].ptr \in Blocks
    BY <2>2, OpFacts, Zenon DEF StepInv
  <2>4. serial'[queue[i].ptr] = serial[queue[i].ptr]
    BY <2>2, <2>3, ZenonT(60)
  <2>5. ASSUME queue[i].code = "exec"
        PROVE  /\ set'[queue[i].ptr] /\ ~entry'[queue[i].ptr]
               /\ \A j \in DOMAIN queue' : queue'[j].ptr = queue[i].ptr => j = k
    <3>1. queue[i].ptr # b
      BY <2>2, <2>5, Zenon
    <3>2. set'[queue[i].ptr] /\ ~entry'[queue[i].ptr]
      BY <2>3, <2>5, <3>1, Zenon DEF OpInv
    <3>3. ASSUME NEW j \in DOMAIN queue', queue'[j].ptr = queue[i].ptr PROVE j = k
      <4>1. j \in Nat /\ j + 1 \in DOMAIN queue /\ queue[j + 1].ptr = queue[i].ptr
        BY <1>1, <3>3, Zenon
      <4>2. j + 1 = i
        BY <2>3, <2>5, <4>1, Zenon DEF OpInv
      <4> QED
        BY <2>1, <2>2, <4>1, <4>2, SMTT(60)
    <3> QED
      BY <3>2, <3>3, Zenon
  <2>6. ASSUME queue[i].code = "finalize", NEW j \in DOMAIN queue', queue'[j].ptr = queue[i].ptr
        PROVE  j <= k
    <3>1. j \in Nat /\ j + 1 \in DOMAIN queue /\ queue[j + 1].ptr = queue[i].ptr
      BY <1>1, <2>6, Zenon
    <3>2. j + 1 <= i
      BY <2>3, <2>6, <3>1, ZenonT(60) DEF OpInv
    <3> QED
      BY <2>1, <2>2, <3>1, <3>2, SMTT(60)
  <2> QED
    BY <2>2, <2>3, <2>4, <2>5, <2>6, ZenonT(60) DEF OpInv
<1>4. ASSUME NEW c \in Blocks PROVE BlockInv(c)'
  <2>1. BlockInv(c)
    BY Zenon DEF StepInv
  <2>2. CASE c = b
    BY <1>2, <2>1, <2>2, Zenon DEF BlockInv
  <2>3. CASE c # b
    <3>1. ASSUME set[c], ~entry[c]
          PROVE  \E k \in DOMAIN queue' : queue'[k].code = "exec" /\ queue'[k].ptr = c
      <4>1. PICK k \in DOMAIN queue : queue[k].code = "exec" /\ queue[k].ptr = c
        BY <2>1, <3>1, Zenon DEF BlockInv
      <4>2. k # 1
        BY <1>1, <2>3, <4>1, Zenon
      <4>3. k - 1 \in DOMAIN queue' /\ queue'[k - 1] = queue[k]
        BY <1>1, <4>2, Zenon
      <4> QED
        BY <4>1, <4>3, Zenon
    <3> QED
      BY <1>2, <2>1, <2>3, <3>1, Zenon DEF BlockInv
  <2> QED
    BY <2>2, <2>3, Zenon
<1> QED
  BY <1>2, <1>3, <1>4, ZenonT(60) DEF StepInv

(* The head of the queue is for the alarm in its block, and an alarm it is *)
(* to set or to destroy has its entry if it is set.                        *)
LEMMA HeadStep ==
  ASSUME IInv, StepInv, careful, NEW code, Take(code), NEW b, b = Head(queue).ptr
  PROVE  /\ Current /\ b \in Blocks /\ serial[b] # Empty /\ broken = {} /\ BlockInv(b) /\ OpInv(1)
         /\ 1 \in DOMAIN queue /\ queue[1].ptr = b /\ queue[1].code = code
         /\ code # "exec" => ~StopFails(b)
         /\ code # "exec" => \A k \in DOMAIN queue : queue[k].ptr = b => queue[k].code # "exec"
<1>1. /\ b \in Blocks /\ Head(queue).serial # Empty /\ Head(queue) = queue[1] /\ 1 \in DOMAIN queue
      /\ queue[1].code = code
  BY TakeFacts, Zenon DEF Take
<1>2. OpInv(1) /\ BlockInv(b) /\ broken = {}
  BY <1>1, SMTT(60) DEF StepInv
<1>3. Current /\ serial[b] # Empty
  BY <1>1, <1>2, Zenon DEF OpInv, Current
<1>4. ASSUME code # "exec", NEW k \in DOMAIN queue, queue[k].ptr = b PROVE queue[k].code # "exec"
  <2>1. OpInv(k)
    BY DEF StepInv
  <2>2. queue[k].code = "exec" => k = 1
    BY <1>1, <1>4, <2>1, Zenon DEF OpInv
  <2> QED
    BY <1>1, <1>4, <2>2
<1>5. code # "exec" => ~StopFails(b)
  BY <1>2, <1>4, Zenon DEF BlockInv, StopFails
<1> QED
  BY <1>1, <1>2, <1>3, <1>4, <1>5, Zenon

LEMMA StartStep == ASSUME IInv, StepInv, careful, Start PROVE StepInv'
<1>1. PICK b : b = Head(queue).ptr
  OBVIOUS
<1>2. Take("start")
  BY DEF Start
<1>3. /\ b \in Blocks /\ serial[b] # Empty /\ ~StopFails(b)
      /\ \A k \in DOMAIN queue : queue[k].ptr = b => queue[k].code # "exec"
  BY <1>1, <1>2, HeadStep, SMTT(60)
<1>4. /\ broken' = broken /\ set' = [set EXCEPT ![b] = TRUE] /\ entry' = [entry EXCEPT ![b] = TRUE]
      /\ serial' = serial /\ orphans' = orphans
  BY <1>1, <1>3, Zenon DEF Start
<1>5. \A c \in Blocks : c # b => serial'[c] = serial[c] /\ set'[c] = set[c] /\ entry'[c] = entry[c]
  BY <1>4, Zenon DEF IInv, TypeOK
<1>6. entry'[b] /\ set'[b] /\ serial'[b] = serial[b]
  BY <1>3, <1>4, Zenon DEF IInv, TypeOK
<1>7. /\ (entry'[b] => set'[b]) /\ (set'[b] => entry'[b]) /\ (set'[b] => serial'[b] # Empty)
      /\ \A k \in DOMAIN queue : k # 1 /\ queue[k].ptr = b =>
           serial'[b] = serial[b] /\ queue[k].code # "exec"
  BY <1>3, <1>6, Zenon
<1>8. orphans' = orphans /\ broken' = broken
  BY <1>4
<1> QED
  BY <1>1, <1>2, <1>5, <1>7, <1>8, TakeStep, SMTT(60)

LEMMA FinalizeStep == ASSUME IInv, StepInv, careful, Finalize PROVE StepInv'
<1>1. PICK b : b = Head(queue).ptr
  OBVIOUS
<1>2. Take("finalize")
  BY DEF Finalize
<1>3. b \in Blocks /\ ~StopFails(b) /\ OpInv(1) /\ queue[1].ptr = b /\ queue[1].code = "finalize"
  BY <1>1, <1>2, HeadStep
<1>4. /\ broken' = broken /\ set' = [set EXCEPT ![b] = FALSE] /\ entry' = [entry EXCEPT ![b] = FALSE]
      /\ serial' = [serial EXCEPT ![b] = Empty] /\ orphans' = orphans
  BY <1>1, <1>3, Zenon DEF Finalize
<1>5. \A c \in Blocks : c # b => serial'[c] = serial[c] /\ set'[c] = set[c] /\ entry'[c] = entry[c]
  BY <1>4, Zenon DEF IInv, TypeOK
<1>6. ~entry'[b] /\ ~set'[b]
  BY <1>3, <1>4, Zenon DEF IInv, TypeOK
<1>7. ASSUME NEW k \in DOMAIN queue, k # 1 PROVE queue[k].ptr # b
  <2>1. k \in Nat /\ k >= 1
    <3>1. queue \in Seq(Ops)
      BY DEF IInv, TypeOK, Ops, Codes
    <3> QED
      BY <3>1
  <2>2. queue[k].ptr = b => k <= 1
    BY <1>3, Zenon DEF OpInv
  <2> QED
    BY <1>7, <2>1, <2>2
<1> QED
  BY <1>1, <1>2, <1>4, <1>5, <1>6, <1>7, TakeStep, ZenonT(60)

LEMMA ExecStep == ASSUME IInv, StepInv, careful, Exec PROVE StepInv'
<1>1. PICK b : b = Head(queue).ptr
  OBVIOUS
<1>2. Take("exec") /\ ExecTake
  BY ZenonT(60) DEF Exec, ExecAgain, ExecStops, ExecDeletes, ExecTake
<1>3. /\ b \in Blocks /\ serial[b] # Empty /\ OpInv(1) /\ queue[1].ptr = b /\ queue[1].code = "exec"
      /\ BlockInv(b) /\ 1 \in DOMAIN queue
  BY <1>1, <1>2, HeadStep, Zenon
<1>4. orphans' = orphans /\ broken' = broken
  <2>1. ~entry[b]
    BY <1>3, Zenon DEF OpInv
  <2>2. Orphaned(b) = orphans[b]
    BY <2>1 DEF Orphaned
  <2> QED
    BY <1>1, <1>2, <1>3, <2>2, ZenonT(60) DEF ExecTake, IInv, TypeOK
<1>5. \A k \in DOMAIN queue : queue[k].ptr = b => k = 1
  BY <1>3, Zenon DEF OpInv
<1>6. /\ \A c \in Blocks : c # b => serial'[c] = serial[c] /\ set'[c] = set[c] /\ entry'[c] = entry[c]
      /\ entry'[b] <=> set'[b]
      /\ set'[b] => serial'[b] # Empty
  <2>1. CASE ExecAgain
    <3>1. /\ set' = [set EXCEPT ![b] = TRUE] /\ entry' = [entry EXCEPT ![b] = TRUE] /\ serial' = serial
      BY <1>1, <2>1, Zenon DEF ExecAgain
    <3> QED
      BY <1>3, <3>1, Zenon DEF IInv, TypeOK
  <2>2. CASE ExecStops
    <3>1. /\ set' = [set EXCEPT ![b] = FALSE] /\ entry' = [entry EXCEPT ![b] = FALSE] /\ serial' = serial
      BY <1>1, <2>2, Zenon DEF ExecStops
    <3> QED
      BY <1>3, <3>1, Zenon DEF IInv, TypeOK
  <2>3. CASE ExecDeletes
    <3>1. /\ set' = [set EXCEPT ![b] = FALSE] /\ entry' = [entry EXCEPT ![b] = FALSE]
          /\ serial' = [serial EXCEPT ![b] = Empty]
      BY <1>1, <2>3, Zenon DEF ExecDeletes
    <3> QED
      BY <1>3, <3>1, Zenon DEF IInv, TypeOK
  <2> QED
    BY <2>1, <2>2, <2>3, Zenon DEF Exec
<1> QED
  BY <1>1, <1>2, <1>4, <1>5, <1>6, TakeStep, ZenonT(60)

LEMMA NextStep == ASSUME IInv, StepInv, [Next]_vars PROVE StepInv'
<1>0. careful' = careful
  BY ZenonT(60) DEF Next, vars, alarms, callers, NewAlarm, AllocTop, AllocPop, Construct, nq_alarm_set,
     nq_alarm_destroy, ApiCall, Start, StartStale, Finalize, Stale, ExecAgain, ExecStops,
     ExecDeletes, ExecTake, Take, DrainDone, PollDone, OnFire, OnFireOrphan
<1> SUFFICES ASSUME careful PROVE StepInv'
  BY <1>0, Zenon DEF StepInv
<1>1. CASE UNCHANGED vars
  BY <1>1, ZenonT(60) DEF vars, StepInv, OpInv, BlockInv
<1>2. CASE DrainDone
  <2>1. DOMAIN queue = {} /\ UNCHANGED <<alarms, queue, broken>>
    BY <1>2, SMTT(60) DEF DrainDone
  <2> QED
    BY <2>1, Zenon DEF StepInv, OpInv, BlockInv, alarms, callers
<1>3. CASE PollDone
  BY <1>3, ZenonT(60) DEF PollDone, StepInv, OpInv, BlockInv, alarms, callers
<1>4. ~(StartStale \/ Stale("finalize") \/ Stale("exec"))
  <2>1. ASSUME NEW code, Take(code) PROVE Current
    BY <2>1, HeadStep, Zenon
  <2> QED
    BY <2>1, Zenon DEF StartStale, Stale
<1>5. ASSUME NEW b \in Blocks PROVE ~OnFireOrphan(b)
  <2>1. orphans[b] = 0
    BY Zenon DEF StepInv, BlockInv
  <2> QED
    BY <2>1 DEF OnFireOrphan
<1>6. ~(AllocTop \/ AllocPop)
  BY SMTT(60) DEF IInv, TypeOK, AllocTop, AllocPop
<1> QED
  BY <1>1, <1>2, <1>3, <1>4, <1>5, <1>6, NewAlarmStep, ApiCallStep, FireStep, StartStep,
     FinalizeStep, ExecStep, Zenon DEF Next, Exec

LEMMA SpecIInv == Spec => [](IInv /\ StepInv)
<1>1. IInv /\ StepInv /\ [Next]_vars => (IInv /\ StepInv)'
  BY NextIInv, NextStep
<1> QED
  BY <1>1, InitIInv, PTL DEF Spec

----------------------------------------------------------------------------
(* The state keeps its types.                                              *)
THEOREM TypeCorrect == Spec => []TypeOK
BY SpecIInv, PTL DEF IInv

(* A block is in the pool exactly while it holds no alarm, and once, and   *)
(* every live alarm is registered, however alarms are set and destroyed,   *)
(* as long as only the thread of the loop makes them                       *)
(* (NqAlarm::operator new and delete, NqBoxer::RemoveAlarm).               *)
THEOREM PoolIsExact == Spec => []PoolExact
BY SpecIInv, PTL DEF IInv

(* When callers keep in step with the loop, an alarm has an entry in       *)
(* alarm_map_ exactly while it is set and not being executed, no entry     *)
(* outlives its alarm and no assertion fails (NqAlarmBase::Start and Stop, *)
(* NqAlarm::OnFire and Exec).                                              *)
THEOREM MapStaysInStep == Spec => []MapInStep
<1>1. IInv /\ StepInv => MapInStep
  <2> SUFFICES ASSUME IInv, StepInv, careful, NEW b \in Blocks
               PROVE  broken = {} /\ orphans[b] = 0 /\ (entry[b] <=> set[b] /\ ~Queued("exec",
               serial[b]))
    BY Zenon DEF MapInStep, StepInv
  <2>1. BlockInv(b) /\ broken = {} /\ queue \in Seq(Ops)
    BY Zenon DEF StepInv, IInv, TypeOK, Ops, Codes
  <2>2. DOMAIN queue = 1 .. Len(queue)
    BY <2>1
  <2>3. CASE ~set[b]
    BY <2>1, <2>3, Zenon DEF BlockInv
  <2>4. CASE set[b]
    <3>1. PICK n : n = serial[b] /\ n # Empty /\ block[n] = b
      BY <2>1, <2>4, Zenon DEF BlockInv, IInv, SerialInv
    <3>2. Queued("exec", n) <=> \E k \in DOMAIN queue : queue[k] = Op("exec", n, b)
      BY <2>2, <3>1, Zenon DEF Queued
    <3>3. ASSUME ~entry[b] PROVE Queued("exec", n)
      <4>1. PICK k \in DOMAIN queue : queue[k].code = "exec" /\ queue[k].ptr = b
        BY <2>1, <2>4, <3>3, Zenon DEF BlockInv
      <4>2. queue[k] \in Ops /\ queue[k].serial = n
        BY <3>1, <4>1, OpFacts, Zenon DEF StepInv, OpInv
      <4>3. queue[k] = Op("exec", n, b)
        BY <4>1, <4>2, Zenon DEF Ops, Op
      <4> QED
        BY <3>2, <4>3, Zenon
    <3>4. ASSUME entry[b] PROVE ~Queued("exec", n)
      <4>1. ASSUME NEW k \in DOMAIN queue, queue[k] = Op("exec", n, b) PROVE FALSE
        <5>1. queue[k].code = "exec" /\ queue[k].ptr = b
          BY <4>1 DEF Op
        <5> QED
          BY <3>4, <5>1, Zenon DEF StepInv, OpInv
      <4> QED
        BY <3>2, <4>1, SMTT(60)
    <3> QED
      BY <2>1, <2>4, <3>1, <3>3, <3>4, Zenon DEF BlockInv
  <2> QED
    BY <2>3, <2>4, Zenon
<1> QED
  BY <1>1, SpecIInv, PTL

(* Once nq_alarm_destroy is carried out no callback of that alarm runs:    *)
(* the serial of an Exec that is still queued is in no block any more,     *)
(* whatever alarm its block holds by then (NqBoxer::InvokeAlarm).          *)
THEOREM DestroyedIsSilent == Spec => DestroyedStaysSilent
<1>1. ASSUME IInv, [Next]_vars, ran' # ran PROVE ran' \notin destroyed
  <2>1. Empty \notin destroyed
    BY <1>1, SMTT(60) DEF IInv, SerialInv, Empty
  <2>2. CASE ran' = Empty
    BY <2>1, <2>2
  <2>3. CASE ExecTake
    <3>1. Head(queue).ptr \in Blocks /\ ran' = serial[Head(queue).ptr]
      BY <1>1, <2>3, TakeFacts, Zenon DEF ExecTake, Current
    <3> QED
      BY <1>1, <3>1, Zenon DEF IInv, SerialInv
  <2> QED
    BY <1>1, <2>2, <2>3, Zenon
       DEF Next, vars, NewAlarm, AllocTop, AllocPop, Construct, nq_alarm_set, nq_alarm_destroy,
           ApiCall, Start, StartStale, Finalize, Stale, ExecAgain, ExecStops, ExecDeletes, DrainDone, PollDone, OnFire,
           OnFireOrphan
<1>2. IInv /\ [Next]_vars => [ran' # ran => ran' \notin destroyed]_vars
  BY <1>1
<1> QED
  BY <1>2, SpecIInv, PTL DEF Spec, DestroyedStaysSilent
=============================================================================
