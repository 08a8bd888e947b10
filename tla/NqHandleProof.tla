--------------------------- MODULE NqHandleProof ---------------------------
(***************************************************************************)
(* Proofs about handles, for any number of threads, blocks, objects and    *)
(* calls.  IInv says which serial a block may hold, that the mutex of a    *)
(* block belongs to the one call that has passed it, and that an operation *)
(* marked late stands behind a close that is still to be carried out, is   *)
(* being carried out, or has voided the serial.                            *)
(***************************************************************************)
EXTENDS NqHandle, TLAPS

(* A handle points to a block, and the serial of a block to its handle.    *)
PoolInv ==
  /\ \A n \in 1 .. made : at[n] \in Blocks
  /\ \A b \in Blocks : serial[b] # Empty => serial[b] <= made /\ at[serial[b]] = b
  /\ ~rejected => \A b \in Blocks : serial[b] # Empty => object[b] = serial[b]

ClosingInv == closing # Empty => closing <= made /\ serial[at[closing]] = closing

(* A call that is not waiting holds the mutex of its block, alone.         *)
Holds(t, i) == i \in DOMAIN frames[t] /\ frames[t][i].pc # "wait"

FrameOK(t, i) ==
  /\ frames[t][i].n <= made
  /\ Holds(t, i) => mutex[at[frames[t][i].n]] = {t}
  /\ ~rejected /\ frames[t][i].pc = "inside" => serial[at[frames[t][i].n]] = frames[t][i].n

(* A thread holds the mutex of a block for one call.                       *)
Apart(t) ==
  \A i, j \in DOMAIN frames[t] :
    Holds(t, i) /\ Holds(t, j) /\ i # j => at[frames[t][i].n] # at[frames[t][j].n]

FrameInv == \A t \in Threads : Apart(t) /\ \A i \in DOMAIN frames[t] : FrameOK(t, i)

(* An earlier close of the same caller and handle is queued.               *)
BehindClose(i) ==
  \E j \in DOMAIN queue :
    j < i /\ queue[j].code = "close" /\ queue[j].by = queue[i].by /\ queue[j].n = queue[i].n

QueueInv ==
  \A i \in DOMAIN queue :
    /\ queue[i].n <= made
    /\ queue[i].late =>
         \/ BehindClose(i)
         \/ closing = queue[i].n
         \/ serial[at[queue[i].n]] # queue[i].n

LastInv == ~last.late /\ (~rejected => last.own)

IInv == TypeOK /\ PoolInv /\ ClosingInv /\ FrameInv /\ QueueInv /\ LastInv

Frames == [n : Objects, pc : PCs]
Operations == [by : Callers, code : Codes, n : Objects, late : BOOLEAN]

----------------------------------------------------------------------------
(* What the index sets are used for.                                       *)
LEMMA Indices ==
  /\ \A n \in Objects : n \in Nat /\ n # Empty /\ n \in 0 .. MaxObjects
  /\ \A n \in 0 .. MaxObjects : n \in Nat /\ (n # Empty => n \in Objects)
  /\ \A m \in 0 .. MaxObjects : \A n \in 1 .. m : n \in Objects /\ n <= m
  /\ \A m \in 0 .. MaxObjects : \A n \in Objects : n <= m => n \in 1 .. m
  /\ \A m \in 0 .. MaxObjects :
       m < MaxObjects => m + 1 \in Objects /\ m + 1 \in 0 .. MaxObjects /\ m + 1 # Empty
  /\ NoBlock \notin Blocks
BY HandleAssumption DEF Objects, Empty

(* A sequence without its last element.                                    *)
LEMMA PopFacts ==
  ASSUME NEW S, NEW s \in Seq(S), s # <<>>
  PROVE  LET r == SubSeq(s, 1, Len(s) - 1)
         IN  /\ r \in Seq(S) /\ Len(s) \in DOMAIN s
             /\ \A i : i \in DOMAIN r <=> i \in DOMAIN s /\ i # Len(s)
             /\ \A i \in DOMAIN r : r[i] = s[i]
<1>1. Len(s) \in Nat /\ Len(s) # 0 /\ DOMAIN s = 1 .. Len(s)
  OBVIOUS
<1> DEFINE r == SubSeq(s, 1, Len(s) - 1)
<1>2. r \in Seq(S) /\ Len(r) = Len(s) - 1 /\ \A i \in 1 .. Len(s) - 1 : r[i] = s[i]
  BY <1>1
<1>3. DOMAIN r = 1 .. Len(s) - 1
  BY <1>1, <1>2
<1> QED
  BY <1>1, <1>2, <1>3

(* A sequence with another last element.                                   *)
LEMMA SetFacts ==
  ASSUME NEW S, NEW s \in Seq(S), s # <<>>, NEW f \in S
  PROVE  LET r == [s EXCEPT ![Len(s)] = f]
         IN  /\ r \in Seq(S) /\ DOMAIN r = DOMAIN s /\ Len(s) \in DOMAIN s
             /\ r[Len(s)] = f /\ Len(r) = Len(s) /\ r # <<>>
             /\ \A i \in DOMAIN s : i # Len(s) => r[i] = s[i]
OBVIOUS

(* A sequence with one element more.                                       *)
LEMMA AppendFacts ==
  ASSUME NEW S, NEW s \in Seq(S), NEW f \in S
  PROVE  LET r == Append(s, f)
         IN  /\ r \in Seq(S) /\ Len(s) + 1 \notin DOMAIN s
             /\ \A i : i \in DOMAIN r <=> i \in DOMAIN s \/ i = Len(s) + 1
             /\ r[Len(s) + 1] = f
             /\ \A i \in DOMAIN s : r[i] = s[i] /\ i < Len(s) + 1
OBVIOUS

(* The queue without its element i.                                        *)
LEMMA WithoutFacts ==
  ASSUME queue \in Seq(Operations), NEW i \in DOMAIN queue
  PROVE  /\ Without(i) \in Seq(Operations)
         /\ DOMAIN Without(i) = 1 .. Len(queue) - 1 /\ DOMAIN queue = 1 .. Len(queue)
         /\ Len(queue) \in Nat
         /\ \A k \in 1 .. Len(queue) - 1 :
              Without(i)[k] = IF k < i THEN queue[k] ELSE queue[k + 1]
<1>1. Len(queue) \in Nat /\ DOMAIN queue = 1 .. Len(queue) /\ i \in 1 .. Len(queue)
  OBVIOUS
<1>2. \A k \in 1 .. Len(queue) - 1 : (IF k < i THEN queue[k] ELSE queue[k + 1]) \in Operations
  BY <1>1
<1>3. Without(i) \in [1 .. Len(queue) - 1 -> Operations]
  BY <1>1, <1>2 DEF Without
<1>4. Len(queue) - 1 \in Nat
  BY <1>1
<1>5. Without(i) \in Seq(Operations)
  BY <1>3, <1>4
<1> QED
  BY <1>1, <1>5 DEF Without

(* Nothing is made, held or queued at first.                               *)
LEMMA InitIInv == Init => IInv
<1> SUFFICES ASSUME Init PROVE IInv
  OBVIOUS
<1>1. TypeOK
  <2>1. /\ made \in 0 .. MaxObjects /\ calls \in 0 .. MaxCalls /\ closing \in 0 .. MaxObjects
        /\ object \in [Blocks -> 0 .. MaxObjects] /\ serial \in [Blocks -> 0 .. MaxObjects]
        /\ at \in [Objects -> Blocks \cup {NoBlock}] /\ mutex \in [Blocks -> SUBSET Threads]
    BY HandleAssumption DEF Init, Empty
  <2>2. /\ frames \in [Threads -> Seq([n : Objects, pc : PCs])]
        /\ queue \in Seq([by : Callers, code : Codes, n : Objects, late : BOOLEAN])
    BY DEF Init
  <2>3. /\ careful \in BOOLEAN /\ rejected \in BOOLEAN
        /\ last \in [own : BOOLEAN, late : BOOLEAN]
    BY Zenon DEF Init
  <2> QED
    BY <2>1, <2>2, <2>3, Zenon DEF TypeOK
<1>2. PoolInv /\ ClosingInv /\ LastInv
  BY DEF Init, PoolInv, ClosingInv, LastInv, Empty
<1>3. FrameInv /\ QueueInv
  BY DEF Init, FrameInv, FrameOK, Apart, QueueInv
<1> QED
  BY <1>1, <1>2, <1>3 DEF IInv

(* What Apart and FrameInv depend on.                                      *)
LEMMA ApartStays ==
  ASSUME NEW t, Apart(t), UNCHANGED <<at, frames>>
  PROVE  Apart(t)'
  BY SMTT(60) DEF Apart, Holds

LEMMA FrameStays ==
  ASSUME FrameInv, UNCHANGED <<made, at, serial, rejected, mutex, frames>>
  PROVE  FrameInv'
<1>1. \A t, i : Holds(t, i)' <=> Holds(t, i)
  BY Zenon DEF Holds
<1>2. \A t, i : FrameOK(t, i)' <=> FrameOK(t, i)
  BY <1>1, ZenonT(60) DEF FrameOK
<1>3. \A t \in Threads : Apart(t)'
  BY ApartStays, Zenon DEF FrameInv
<1> QED
  BY <1>2, <1>3, Zenon DEF FrameInv

(* What calls and operations refer to exists.                              *)
LEMMA FrameFacts ==
  ASSUME TypeOK, PoolInv, FrameInv, NEW t \in Threads, NEW i \in DOMAIN frames[t]
  PROVE  /\ frames[t][i].n \in Objects /\ frames[t][i].pc \in PCs
         /\ frames[t][i].n \in 1 .. made /\ at[frames[t][i].n] \in Blocks
<1>1. frames[t] \in Seq(Frames)
  BY Zenon DEF TypeOK, Frames
<1>2. frames[t][i] \in Frames
  BY <1>1
<1>3. frames[t][i].n \in Objects /\ frames[t][i].pc \in PCs
  BY <1>2 DEF Frames
<1>4. frames[t][i].n <= made
  BY Zenon DEF FrameInv, FrameOK
<1> QED
  BY <1>3, <1>4, Indices, Zenon DEF TypeOK, PoolInv

LEMMA QueueFacts ==
  ASSUME TypeOK, PoolInv, QueueInv, NEW i \in DOMAIN queue
  PROVE  /\ queue[i].n \in Objects /\ queue[i].late \in BOOLEAN /\ queue[i].n # Empty
         /\ queue[i].n \in 1 .. made /\ at[queue[i].n] \in Blocks
<1>1. queue \in Seq(Operations)
  BY DEF TypeOK, Operations
<1>2. queue[i] \in Operations
  BY <1>1
<1>3. queue[i].n \in Objects /\ queue[i].late \in BOOLEAN
  BY <1>2 DEF Operations
<1>4. queue[i].n <= made
  BY DEF QueueInv
<1> QED
  BY <1>3, <1>4, Indices DEF TypeOK, PoolInv

----------------------------------------------------------------------------
(* An object is made in a block whose serial no call that is inside holds. *)
LEMMA CreateIInv ==
  ASSUME IInv, NEW b \in Blocks, Create(b)
  PROVE  IInv'
<1> USE Indices DEF IInv, Create
<1>1. /\ made + 1 \in Objects /\ closing = Empty /\ closing' = Empty /\ made \in 0 .. MaxObjects
      /\ \A n \in 1 .. made : at'[n] = at[n] /\ at[n] \in Blocks /\ n \in 1 .. made'
      /\ at'[made + 1] = b /\ serial'[b] = made + 1 /\ object'[b] = made + 1
      /\ \A c \in Blocks : c # b => serial'[c] = serial[c] /\ object'[c] = object[c]
  BY SMTT(60) DEF TypeOK, PoolInv
<1>2. UNCHANGED <<mutex, frames, calls, queue, last, rejected, careful>>
  BY DEF api, ops
<1>3. TypeOK'
  BY <1>1, <1>2, ZenonT(60) DEF TypeOK
<1>4. PoolInv'
  <2>1. \A n \in 1 .. made' : at'[n] \in Blocks
    BY <1>1
  <2>2. ASSUME NEW c \in Blocks, serial'[c] # Empty
        PROVE  serial'[c] <= made' /\ at'[serial'[c]] = c
    BY <1>1, <2>2, SMTT(60) DEF PoolInv, TypeOK
  <2>3. ~rejected' => \A c \in Blocks : serial'[c] # Empty => object'[c] = serial'[c]
    BY <1>1, <1>2 DEF PoolInv
  <2> QED
    BY <2>1, <2>2, <2>3 DEF PoolInv
<1>5. FrameInv'
  <2> SUFFICES ASSUME NEW t \in Threads PROVE Apart(t)' /\ \A i \in DOMAIN frames[t] : FrameOK(t, i)'
    BY <1>2 DEF FrameInv
  <2>1. \A j \in DOMAIN frames[t] : /\ frames[t][j].n \in 1 .. made /\ frames[t][j].n # Empty
                                    /\ at'[frames[t][j].n] = at[frames[t][j].n]
                                    /\ at[frames[t][j].n] \in Blocks
    BY <1>1, FrameFacts, Zenon
  <2>2. Apart(t)'
    BY <1>2, <2>1 DEF FrameInv, Apart, Holds
  <2>3. ASSUME NEW i \in DOMAIN frames[t] PROVE FrameOK(t, i)'
    <3>0. FrameOK(t, i)
      BY SMTT(60) DEF FrameInv
    <3>1. frames[t][i].n <= made' /\ (Holds(t, i)' => mutex'[at'[frames[t][i].n]] = {t})
      BY <1>1, <1>2, <2>1, <3>0, Zenon DEF FrameOK, Holds
    <3>2. ASSUME ~rejected, frames[t][i].pc = "inside"
          PROVE  serial'[at[frames[t][i].n]] = frames[t][i].n
      <4>1. serial[at[frames[t][i].n]] = frames[t][i].n
        BY <3>0, <3>2, Zenon DEF FrameOK
      <4>2. object[at[frames[t][i].n]] # Empty
        BY <2>1, <3>2, <4>1, Zenon DEF PoolInv
      <4> QED
        BY <1>1, <2>1, <4>1, <4>2, Zenon
    <3>3. ASSUME ~rejected', frames'[t][i].pc = "inside"
          PROVE  serial'[at'[frames'[t][i].n]] = frames'[t][i].n
      <4>1. frames' = frames /\ ~rejected
        BY <1>2, <3>3
      <4>2. serial'[at[frames[t][i].n]] = frames[t][i].n
        BY <3>2, <3>3, <4>1, Zenon
      <4>3. at'[frames[t][i].n] = at[frames[t][i].n]
        BY <2>1, Zenon
      <4> QED
        BY <4>1, <4>2, <4>3, Zenon
    <3> QED
      BY <1>2, <3>1, <3>3, ZenonT(60) DEF FrameOK
  <2> QED
    BY <2>2, <2>3
<1>6. QueueInv'
  <2> SUFFICES ASSUME NEW i \in DOMAIN queue
               PROVE  /\ queue[i].n <= made'
                      /\ queue[i].late => \/ BehindClose(i)
                                         \/ serial'[at'[queue[i].n]] # queue[i].n
    BY <1>2, Zenon DEF QueueInv, BehindClose
  <2>1. queue[i].n \in 1 .. made /\ queue[i].n # Empty
    BY QueueFacts, Zenon
  <2>2. queue[i].late => BehindClose(i) \/ serial[at[queue[i].n]] # queue[i].n
    BY <1>1, <2>1, Zenon DEF QueueInv
  <2>3. serial'[at[queue[i].n]] # queue[i].n \/ serial[at[queue[i].n]] = queue[i].n
    BY <1>1, <2>1
  <2> QED
    BY <1>1, <2>1, <2>2, <2>3
<1>7. ClosingInv' /\ LastInv'
  BY <1>1, <1>2 DEF ClosingInv, LastInv
<1> QED
  BY <1>3, <1>4, <1>5, <1>6, <1>7

(* Close, Reject, Delete and LoopCalls leave the serials alone.            *)
LEMMA LoopIInv ==
  ASSUME IInv, \/ \E n \in Objects : Close(n) \/ Reject(n) \/ LoopCalls(n)
               \/ \E b \in Blocks : Delete(b)
  PROVE  IInv'
<1> USE Indices DEF IInv
<1>1. UNCHANGED <<made, at, serial, mutex, frames, calls, queue, careful>> /\ closing = Empty
  BY Zenon DEF Close, Reject, LoopCalls, Delete, pool, api, ops
<1>2. rejected' \/ (~rejected /\ ~rejected')
  BY Zenon DEF Close, Reject, LoopCalls, Delete, pool, TypeOK
<1>3. TypeOK'
  <2>1. /\ object' \in [Blocks -> 0 .. MaxObjects] /\ closing' \in 0 .. MaxObjects
    BY SMTT(60) DEF Close, Reject, LoopCalls, Delete, pool, ops, TypeOK, PoolInv, Empty
  <2>2. rejected' \in BOOLEAN
    BY Zenon DEF Close, Reject, LoopCalls, Delete, pool, TypeOK
  <2>3. last' \in [own : BOOLEAN, late : BOOLEAN]
    <3>1. CASE last' = last
      BY <3>1 DEF TypeOK
    <3>2. CASE \E n \in Objects : last' = [own |-> object[at[n]] = n, late |-> FALSE]
      BY <3>2
    <3> QED
      BY <3>1, <3>2, Zenon DEF Close, Reject, LoopCalls, Delete, ops
  <2> QED
    BY <1>1, <2>1, <2>2, <2>3, Zenon DEF TypeOK
<1>4. PoolInv'
  <2> SUFFICES ASSUME ~rejected', NEW b \in Blocks, serial[b] # Empty
               PROVE  object'[b] = serial[b]
    BY <1>1, Zenon DEF PoolInv
  <2>1. object[b] = serial[b]
    BY <1>2, Zenon DEF PoolInv
  <2> QED
    BY <2>1, Zenon DEF Close, Reject, LoopCalls, Delete, pool, TypeOK
<1>5. FrameInv'
  <2>1. ASSUME NEW t \in Threads, NEW i \in DOMAIN frames[t] PROVE FrameOK(t, i)'
    <3>1. FrameOK(t, i)
      BY Zenon DEF FrameInv
    <3> QED
      BY <1>1, <1>2, <3>1, ZenonT(60) DEF FrameOK, Holds
  <2>2. ASSUME NEW t \in Threads PROVE Apart(t)'
    BY <1>1, ApartStays, Zenon DEF FrameInv
  <2> QED
    BY <1>1, <2>1, <2>2, Zenon DEF FrameInv
<1>6. ClosingInv'
  BY <1>1, Zenon DEF ClosingInv, Close, Reject, LoopCalls, Delete, TypeOK
<1>7. QueueInv'
  BY <1>1, QueueFacts, Zenon DEF QueueInv, BehindClose
<1>8. LastInv'
  <2>1. CASE \E n \in Objects : LoopCalls(n)
    <3>1. PICK n \in Objects : LoopCalls(n)
      BY <2>1
    <3>2. at[n] \in Blocks /\ serial[at[n]] = n /\ n # Empty
      BY <3>1, Zenon DEF LoopCalls, Current, PoolInv, TypeOK
    <3>3. ~rejected => object[at[n]] = n
      BY <3>2, Zenon DEF PoolInv
    <3> QED
      BY <3>1, <3>3, Zenon DEF LoopCalls, LastInv, pool
  <2>2. CASE last' = last
    BY <1>2, <2>2 DEF LastInv
  <2> QED
    BY <2>1, <2>2, Zenon DEF Close, Reject, Delete, ops
<1> QED
  BY <1>3, <1>4, <1>5, <1>6, <1>7, <1>8

(* InvalidateSerial gets the mutex only when no call is inside.            *)
LEMMA InvalidateIInv ==
  ASSUME IInv, Invalidate
  PROVE  IInv'
<1> USE Indices DEF IInv
<1>1. /\ closing \in Objects /\ closing \in 1 .. made /\ at[closing] \in Blocks
      /\ serial[at[closing]] = closing /\ mutex[at[closing]] = {} /\ closing' = Empty
      /\ serial' = [serial EXCEPT ![at[closing]] = Empty]
  BY Zenon DEF Invalidate, ClosingInv, PoolInv, TypeOK
<1>2. UNCHANGED <<made, at, object, rejected, mutex, frames, calls, queue, last, careful>>
  BY Zenon DEF Invalidate, api, ops
<1>3. /\ serial'[at[closing]] = Empty
      /\ \A b \in Blocks : b # at[closing] => serial'[b] = serial[b]
  BY <1>1 DEF TypeOK
<1>4. TypeOK'
  <2>1. Empty \in 0 .. MaxObjects
    BY HandleAssumption DEF Empty
  <2>2. serial' \in [Blocks -> 0 .. MaxObjects] /\ closing' \in 0 .. MaxObjects
    BY <1>1, <2>1 DEF TypeOK
  <2> QED
    BY <1>2, <2>2, Zenon DEF TypeOK
<1>5. PoolInv'
  BY <1>2, <1>3, Zenon DEF PoolInv
<1>6. FrameInv'
  <2> SUFFICES ASSUME NEW t \in Threads, NEW i \in DOMAIN frames[t], ~rejected,
                      frames[t][i].pc = "inside"
               PROVE  serial'[at[frames[t][i].n]] = frames[t][i].n
    <3>1. ASSUME NEW t \in Threads PROVE Apart(t)'
      BY <1>2, ApartStays, Zenon DEF FrameInv
    <3>2. ASSUME NEW t \in Threads, NEW i \in DOMAIN frames[t] PROVE FrameOK(t, i)
      BY Zenon DEF FrameInv
    <3> QED
      BY <1>2, <3>1, <3>2, ZenonT(60) DEF FrameInv, FrameOK, Holds
  <2>1. mutex[at[frames[t][i].n]] = {t} /\ serial[at[frames[t][i].n]] = frames[t][i].n
    BY Zenon DEF FrameInv, FrameOK, Holds
  <2>2. at[frames[t][i].n] # at[closing] /\ at[frames[t][i].n] \in Blocks
    BY <1>1, <2>1, FrameFacts, Zenon
  <2> QED
    BY <1>3, <2>1, <2>2, Zenon
<1>7. QueueInv'
  <2> SUFFICES ASSUME NEW i \in DOMAIN queue, queue[i].late, ~BehindClose(i)
               PROVE  serial'[at[queue[i].n]] # queue[i].n
    BY <1>2, Zenon DEF QueueInv, BehindClose
  <2>1. queue[i].n # Empty /\ at[queue[i].n] \in Blocks
    BY QueueFacts, Zenon
  <2>2. closing = queue[i].n \/ serial[at[queue[i].n]] # queue[i].n
    BY DEF QueueInv
  <2> QED
    BY <1>1, <1>3, <2>1, <2>2, Zenon
<1>8. ClosingInv' /\ LastInv'
  BY <1>1, <1>2 DEF ClosingInv, LastInv
<1> QED
  BY <1>4, <1>5, <1>6, <1>7, <1>8, Zenon

----------------------------------------------------------------------------
(* The innermost call of a thread.                                         *)
LEMMA TopFacts ==
  ASSUME TypeOK, NEW t \in Threads, frames[t] # <<>>
  PROVE  /\ frames[t] \in Seq(Frames) /\ Len(frames[t]) \in DOMAIN frames[t]
         /\ Top(t) = frames[t][Len(frames[t])] /\ Top(t) \in Frames
<1>1. frames[t] \in Seq(Frames)
  BY Zenon DEF TypeOK, Frames
<1> QED
  BY <1>1, SetFacts DEF Top

(* It goes on to another point.                                            *)
LEMMA SetTopFacts ==
  ASSUME TypeOK, NEW t \in Threads, frames[t] # <<>>, NEW c \in PCs,
         frames' = SetTop(t, [Top(t) EXCEPT !.pc = c])
  PROVE  /\ frames' \in [Threads -> Seq(Frames)]
         /\ \A u \in Threads : u # t => frames'[u] = frames[u]
         /\ DOMAIN frames'[t] = DOMAIN frames[t]
         /\ frames'[t][Len(frames[t])].n = Top(t).n /\ frames'[t][Len(frames[t])].pc = c
         /\ \A i \in DOMAIN frames[t] : i # Len(frames[t]) => frames'[t][i] = frames[t][i]
<1> DEFINE f == [Top(t) EXCEPT !.pc = c]
<1>1. f \in Frames /\ f.n = Top(t).n /\ f.pc = c
  BY TopFacts DEF Frames
<1> HIDE DEF f
<1>2. frames \in [Threads -> Seq(Frames)]
  BY Zenon DEF TypeOK, Frames
<1>3. frames' = [frames EXCEPT ![t] = [frames[t] EXCEPT ![Len(frames[t])] = f]]
  BY <1>2 DEF SetTop, f
<1> DEFINE r == [frames[t] EXCEPT ![Len(frames[t])] = f]
<1>4. /\ r \in Seq(Frames) /\ DOMAIN r = DOMAIN frames[t] /\ r[Len(frames[t])] = f
      /\ \A i \in DOMAIN frames[t] : i # Len(frames[t]) => r[i] = frames[t][i]
  BY <1>1, TopFacts, SetFacts
<1> HIDE DEF r
<1>5. frames' = [frames EXCEPT ![t] = r]
  BY <1>3, Zenon DEF r
<1> QED
  BY <1>1, <1>2, <1>4, <1>5, Zenon

(* It returns.                                                             *)
LEMMA PopTopFacts ==
  ASSUME TypeOK, NEW t \in Threads, frames[t] # <<>>, frames' = PopTop(t)
  PROVE  /\ frames' \in [Threads -> Seq(Frames)]
         /\ \A u \in Threads : u # t => frames'[u] = frames[u]
         /\ \A i : i \in DOMAIN frames'[t] <=> i \in DOMAIN frames[t] /\ i # Len(frames[t])
         /\ \A i \in DOMAIN frames'[t] : frames'[t][i] = frames[t][i]
<1> DEFINE r == SubSeq(frames[t], 1, Len(frames[t]) - 1)
<1>1. frames \in [Threads -> Seq(Frames)]
  BY Zenon DEF TypeOK, Frames
<1>2. /\ r \in Seq(Frames)
      /\ \A i : i \in DOMAIN r <=> i \in DOMAIN frames[t] /\ i # Len(frames[t])
      /\ \A i \in DOMAIN r : r[i] = frames[t][i]
  BY TopFacts, PopFacts, Zenon
<1>3. frames' = [frames EXCEPT ![t] = r]
  BY <1>1 DEF PopTop
<1> HIDE DEF r
<1> QED
  BY <1>1, <1>2, <1>3

(* It makes a call in turn.                                                *)
LEMMA PushFacts ==
  ASSUME TypeOK, NEW t \in Threads, NEW n \in Objects,
         frames' = [frames EXCEPT ![t] = Append(@, [n |-> n, pc |-> "wait"])]
  PROVE  /\ frames' \in [Threads -> Seq(Frames)]
         /\ \A u \in Threads : u # t => frames'[u] = frames[u]
         /\ \A i : i \in DOMAIN frames'[t] <=> i \in DOMAIN frames[t] \/ i = Len(frames[t]) + 1
         /\ frames'[t][Len(frames[t]) + 1] = [n |-> n, pc |-> "wait"]
         /\ \A i \in DOMAIN frames[t] : frames'[t][i] = frames[t][i]
<1> DEFINE f == [n |-> n, pc |-> "wait"]
           r == Append(frames[t], f)
<1>1. frames \in [Threads -> Seq(Frames)] /\ f \in Frames
  BY Zenon DEF TypeOK, Frames, PCs
<1>2. frames' = [frames EXCEPT ![t] = r]
  BY <1>1
<1>3. /\ r \in Seq(Frames)
      /\ \A i : i \in DOMAIN r <=> i \in DOMAIN frames[t] \/ i = Len(frames[t]) + 1
      /\ r[Len(frames[t]) + 1] = f
      /\ \A i \in DOMAIN frames[t] : r[i] = frames[t][i]
  BY <1>1, AppendFacts
<1> HIDE DEF r
<1> QED
  BY <1>1, <1>2, <1>3, Zenon

(* A step of a thread changes its calls and a mutex, nothing else.         *)
LEMMA ThreadRest ==
  ASSUME IInv, UNCHANGED <<careful, pool, closing, ops>>, calls' \in 0 .. MaxCalls,
         frames' \in [Threads -> Seq(Frames)], mutex' \in [Blocks -> SUBSET Threads], FrameInv'
  PROVE  IInv'
<1> USE DEF IInv
<1>1. UNCHANGED <<made, at, object, serial, rejected, queue, last, careful, closing>>
  BY Zenon DEF pool, ops
<1>2. TypeOK'
  BY <1>1, Zenon DEF TypeOK, Frames
<1>3. PoolInv' /\ ClosingInv' /\ LastInv'
  BY <1>1, Zenon DEF PoolInv, ClosingInv, LastInv
<1>4. QueueInv'
  BY <1>1, Zenon DEF QueueInv, BehindClose
<1> QED
  BY <1>2, <1>3, <1>4, Zenon

(* A call stays right while its mutex is left alone.                       *)
LEMMA FrameKept ==
  ASSUME IInv, UNCHANGED <<made, at, serial, rejected>>,
         NEW t \in Threads, NEW i \in DOMAIN frames[t], i \in DOMAIN frames'[t],
         frames'[t][i] = frames[t][i],
         Holds(t, i) => mutex'[at[frames[t][i].n]] = mutex[at[frames[t][i].n]]
  PROVE  FrameOK(t, i)'
<1>1. FrameOK(t, i)
  BY Zenon DEF IInv, FrameInv
<1> QED
  BY <1>1, Zenon DEF FrameOK, Holds

(* A call that begins holds nothing.                                       *)
LEMMA UnwrapIInv ==
  ASSUME IInv, NEW t \in Threads, NEW n \in Objects, Unwrap(t, n)
  PROVE  IInv'
<1> USE DEF IInv
<1>0. PICK k : k = Len(frames[t]) + 1
  OBVIOUS
<1>1. UNCHANGED <<careful, pool, closing, ops, mutex>> /\ calls' \in 0 .. MaxCalls
  BY HandleAssumption DEF Unwrap, TypeOK
<1>2. UNCHANGED <<at, serial, made, rejected>> /\ n <= made
  BY <1>1, Indices, Zenon DEF pool, Unwrap, TypeOK
<1>3. /\ frames' \in [Threads -> Seq(Frames)]
      /\ \A u \in Threads : u # t => frames'[u] = frames[u]
      /\ \A i : i \in DOMAIN frames'[t] <=> i \in DOMAIN frames[t] \/ i = k
      /\ frames'[t][k] = [n |-> n, pc |-> "wait"]
      /\ \A i \in DOMAIN frames[t] : frames'[t][i] = frames[t][i]
  <2>1. frames' = [frames EXCEPT ![t] = Append(@, [n |-> n, pc |-> "wait"])]
    BY Zenon DEF Unwrap
  <2> QED
    BY <1>0, <2>1, PushFacts, Zenon
<1>4. frames'[t][k].n = n /\ frames'[t][k].pc = "wait"
  BY <1>3
<1>5. FrameInv'
  <2>0. ASSUME NEW u \in Threads, NEW i \in DOMAIN frames'[u], u # t \/ i # k
        PROVE  i \in DOMAIN frames[u] /\ frames'[u][i] = frames[u][i]
    BY <1>3, <2>0, Zenon
  <2>1. ASSUME NEW u \in Threads, NEW i \in DOMAIN frames'[u], u # t \/ i # k
        PROVE  FrameOK(u, i)'
    BY <1>1, <1>2, <2>0, <2>1, FrameKept, Zenon
  <2>2. FrameOK(t, k)'
    BY <1>2, <1>4, Zenon DEF FrameOK, Holds
  <2>3. ASSUME NEW u \in Threads, NEW i \in DOMAIN frames'[u], NEW j \in DOMAIN frames'[u],
               Holds(u, i)', Holds(u, j)', i # j
        PROVE  at'[frames'[u][i].n] # at'[frames'[u][j].n]
    <3>1. (u # t \/ i # k) /\ (u # t \/ j # k)
      BY <1>4, <2>3, Zenon DEF Holds
    <3>2. Holds(u, i) /\ Holds(u, j) /\ Apart(u)
      BY <2>0, <2>3, <3>1, Zenon DEF FrameInv, Holds
    <3> QED
      BY <1>2, <2>0, <2>3, <3>1, <3>2 DEF Apart
  <2> QED
    BY <2>1, <2>2, <2>3, ZenonT(60) DEF FrameInv, Apart
<1> QED
  BY <1>1, <1>3, <1>5, ThreadRest, Zenon DEF TypeOK

(* The mutex is free when a call takes it.                                 *)
LEMMA LockIInv ==
  ASSUME IInv, NEW t \in Threads, Lock(t)
  PROVE  IInv'
<1> USE DEF IInv
<1>0. PICK k, b : k = Len(frames[t]) /\ b = at[Top(t).n]
  BY Zenon
<1>1. UNCHANGED <<careful, pool, closing, ops, calls>> /\ frames[t] # <<>>
  BY DEF Lock, Waits
<1>2. UNCHANGED <<at, serial, made, rejected>>
  BY <1>1, Zenon DEF pool
<1>3. /\ k \in DOMAIN frames[t] /\ Top(t) = frames[t][k] /\ b \in Blocks /\ Top(t).n <= made
  BY <1>0, <1>1, TopFacts, FrameFacts, Zenon DEF FrameInv, FrameOK
<1>4. /\ frames' \in [Threads -> Seq(Frames)]
      /\ \A u \in Threads : u # t => frames'[u] = frames[u]
      /\ DOMAIN frames'[t] = DOMAIN frames[t]
      /\ frames'[t][k].n = Top(t).n /\ frames'[t][k].pc = "locked"
      /\ \A i \in DOMAIN frames[t] : i # k => frames'[t][i] = frames[t][i]
  BY <1>0, <1>1, SetTopFacts, Zenon DEF Lock, PCs
<1>5. /\ mutex[b] = {} /\ mutex'[b] = {t} /\ mutex' \in [Blocks -> SUBSET Threads]
      /\ \A c \in Blocks : c # b => mutex'[c] = mutex[c]
  BY <1>0, <1>3, Zenon DEF Lock, TypeOK
<1>6. \A u \in Threads : \A i \in DOMAIN frames[u] :
        Holds(u, i) => at[frames[u][i].n] # b /\ at[frames[u][i].n] \in Blocks
  <2> SUFFICES ASSUME NEW u \in Threads, NEW i \in DOMAIN frames[u], Holds(u, i)
               PROVE  at[frames[u][i].n] # b /\ at[frames[u][i].n] \in Blocks
    BY Zenon
  <2>1. FrameOK(u, i)
    BY DEF FrameInv
  <2>2. mutex[at[frames[u][i].n]] = {u}
    BY <2>1, Zenon DEF FrameOK
  <2>3. at[frames[u][i].n] \in Blocks
    BY FrameFacts, Zenon
  <2> QED
    BY <1>5, <2>2, <2>3, Zenon
<1>7. FrameInv'
  <2>0. ASSUME NEW u \in Threads, NEW i \in DOMAIN frames'[u], u # t \/ i # k
        PROVE  i \in DOMAIN frames[u] /\ frames'[u][i] = frames[u][i]
    BY <1>4, <2>0, Zenon
  <2>1. ASSUME NEW u \in Threads, NEW i \in DOMAIN frames'[u], u # t \/ i # k
        PROVE  FrameOK(u, i)'
    <3>1. Holds(u, i) => mutex'[at[frames[u][i].n]] = mutex[at[frames[u][i].n]]
      BY <1>5, <1>6, <2>0, <2>1, SMTT(60)
    <3> QED
      BY <1>2, <2>0, <2>1, <3>1, FrameKept, Zenon
  <2>2. FrameOK(t, k)'
    <3>1. frames'[t][k].n = Top(t).n /\ frames'[t][k].pc # "inside"
      BY <1>4, Zenon
    <3> QED
      BY <1>0, <1>2, <1>3, <1>5, <3>1, Zenon DEF FrameOK
  <2>3. ASSUME NEW u \in Threads, NEW i \in DOMAIN frames'[u], NEW j \in DOMAIN frames'[u],
               Holds(u, i)', Holds(u, j)', i # j
        PROVE  at'[frames'[u][i].n] # at'[frames'[u][j].n]
    <3>1. CASE (u # t \/ i # k) /\ (u # t \/ j # k)
      <4>1. Holds(u, i) /\ Holds(u, j) /\ Apart(u)
        BY <2>0, <2>3, <3>1, Zenon DEF FrameInv, Holds
      <4> QED
        BY <1>2, <2>0, <2>3, <3>1, <4>1 DEF Apart
    <3>2. CASE u = t /\ i = k
      <4>1. Holds(u, j) /\ frames'[u][j] = frames[u][j] /\ j \in DOMAIN frames[u]
        BY <2>0, <2>3, <3>2, Zenon DEF Holds
      <4> QED
        BY <1>0, <1>2, <1>4, <1>6, <3>2, <4>1
    <3>3. CASE u = t /\ j = k
      <4>1. Holds(u, i) /\ frames'[u][i] = frames[u][i] /\ i \in DOMAIN frames[u]
        BY <2>0, <2>3, <3>3, Zenon DEF Holds
      <4> QED
        BY <1>0, <1>2, <1>4, <1>6, <3>3, <4>1
    <3> QED
      BY <3>1, <3>2, <3>3, Zenon
  <2> QED
    BY <2>1, <2>2, <2>3, ZenonT(60) DEF FrameInv, Apart
<1> QED
  BY <1>1, <1>4, <1>5, <1>7, ThreadRest, Zenon DEF TypeOK

(* A call that returns gives back a mutex no other call holds.             *)
LEMMA PopIInv ==
  ASSUME IInv, NEW t \in Threads, frames[t] # <<>>, Top(t).pc # "wait",
         frames' = PopTop(t), mutex' = [mutex EXCEPT ![at[Top(t).n]] = {}],
         UNCHANGED <<careful, pool, closing, ops, calls>>
  PROVE  IInv'
<1> USE DEF IInv
<1>0. PICK k, b : k = Len(frames[t]) /\ b = at[Top(t).n]
  BY Zenon
<1>1. UNCHANGED <<at, serial, made, rejected>>
  BY Zenon DEF pool
<1>2. k \in DOMAIN frames[t] /\ Top(t) = frames[t][k] /\ b \in Blocks /\ Holds(t, k)
  BY <1>0, TopFacts, FrameFacts, Zenon DEF Holds
<1>3. /\ frames' \in [Threads -> Seq(Frames)]
      /\ \A u \in Threads : u # t => frames'[u] = frames[u]
      /\ \A i : i \in DOMAIN frames'[t] <=> i \in DOMAIN frames[t] /\ i # k
      /\ \A i \in DOMAIN frames'[t] : frames'[t][i] = frames[t][i]
  BY <1>0, PopTopFacts, Zenon
<1>4. /\ mutex[b] = {t} /\ mutex' \in [Blocks -> SUBSET Threads]
      /\ \A c \in Blocks : c # b => mutex'[c] = mutex[c]
  BY <1>0, <1>2, Zenon DEF TypeOK, FrameInv, FrameOK
<1>5. ASSUME NEW u \in Threads, NEW i \in DOMAIN frames'[u]
      PROVE  i \in DOMAIN frames[u] /\ frames'[u][i] = frames[u][i] /\ (u # t \/ i # k)
  BY <1>3, Zenon
<1>6. ASSUME NEW u \in Threads, NEW i \in DOMAIN frames'[u]
      PROVE  FrameOK(u, i)'
  <2>1. ASSUME Holds(u, i) PROVE at[frames[u][i].n] # b /\ at[frames[u][i].n] \in Blocks
    <3>1. FrameOK(u, i) /\ FrameOK(t, k) /\ Apart(t) /\ at[frames[u][i].n] \in Blocks
      BY <1>2, <1>5, FrameFacts, Zenon DEF FrameInv
    <3>2. CASE u # t
      BY <1>4, <2>1, <3>1, <3>2, Zenon DEF FrameOK
    <3>3. CASE u = t
      <4>1. i # k /\ i \in DOMAIN frames[t] /\ Holds(t, i) /\ Holds(t, k)
        BY <1>2, <1>5, <2>1, <3>3, Zenon
      <4> QED
        BY <1>0, <1>2, <3>1, <3>3, <4>1, Zenon DEF Apart
    <3> QED
      BY <3>1, <3>2, <3>3, Zenon
  <2>2. Holds(u, i) => mutex'[at[frames[u][i].n]] = mutex[at[frames[u][i].n]]
    BY <1>4, <2>1, Zenon
  <2> QED
    BY <1>1, <1>5, <2>2, FrameKept, Zenon
<1>7. ASSUME NEW u \in Threads PROVE Apart(u)'
  <2>1. Apart(u)
    BY Zenon DEF FrameInv
  <2> QED
    BY <1>1, <1>5, <2>1 DEF Apart, Holds
<1>8. FrameInv'
  BY <1>6, <1>7, Zenon DEF FrameInv
<1> QED
  BY <1>3, <1>4, <1>8, ThreadRest, Zenon DEF TypeOK

(* A call passes the check when the serial is that of its handle.          *)
LEMMA EnterIInv ==
  ASSUME IInv, NEW t \in Threads, Locked(t), serial[at[Top(t).n]] = Top(t).n,
         frames' = SetTop(t, [Top(t) EXCEPT !.pc = "inside"]), mutex' = mutex,
         UNCHANGED <<careful, pool, closing, ops, calls>>
  PROVE  IInv'
<1> USE DEF IInv
<1>0. PICK k : k = Len(frames[t])
  BY Zenon
<1>1. UNCHANGED <<at, serial, made, rejected>> /\ frames[t] # <<>>
  BY DEF pool, Locked
<1>2. k \in DOMAIN frames[t] /\ Top(t) = frames[t][k] /\ Holds(t, k)
  BY <1>0, <1>1, TopFacts DEF Holds, Locked
<1>3. /\ frames' \in [Threads -> Seq(Frames)]
      /\ \A u \in Threads : u # t => frames'[u] = frames[u]
      /\ DOMAIN frames'[t] = DOMAIN frames[t]
      /\ frames'[t][k].n = Top(t).n /\ frames'[t][k].pc = "inside"
      /\ \A i \in DOMAIN frames[t] : i # k => frames'[t][i] = frames[t][i]
  BY <1>0, <1>1, SetTopFacts, Zenon DEF PCs
<1>4. ASSUME NEW u \in Threads, NEW i \in DOMAIN frames'[u]
      PROVE  i \in DOMAIN frames[u] /\ frames'[u][i].n = frames[u][i].n /\ Holds(u,
      i)' = Holds(u, i)
  BY <1>2, <1>3, Zenon DEF Holds
<1>5. ASSUME NEW u \in Threads, NEW i \in DOMAIN frames'[u]
      PROVE  FrameOK(u, i)'
  <2>1. CASE u # t \/ i # k
    <3>1. frames'[u][i] = frames[u][i]
      BY <1>3, <1>4, <2>1, Zenon
    <3> QED
      BY <1>1, <1>4, <3>1, FrameKept
  <2>2. CASE u = t /\ i = k
    <3>1. FrameOK(u, i)
      BY <1>4, Zenon DEF FrameInv
    <3> QED
      BY <1>1, <1>2, <1>3, <1>4, <2>2, <3>1, ZenonT(60) DEF FrameOK
  <2> QED
    BY <2>1, <2>2
<1>6. ASSUME NEW u \in Threads PROVE Apart(u)'
  <2>1. Apart(u)
    BY DEF FrameInv
  <2> QED
    BY <1>1, <1>4, <2>1 DEF Apart
<1>7. FrameInv'
  BY <1>5, <1>6 DEF FrameInv
<1> QED
  BY <1>3, <1>7, ThreadRest, Zenon DEF TypeOK

(* Check and Return are one or the other.                                  *)
LEMMA CheckReturnIInv ==
  ASSUME IInv, NEW t \in Threads, Check(t) \/ Return(t)
  PROVE  IInv'
<1>1. CASE Check(t) /\ serial[at[Top(t).n]] = Top(t).n
  BY <1>1, EnterIInv DEF Check
<1>2. CASE Return(t) \/ (Check(t) /\ serial[at[Top(t).n]] # Top(t).n)
  BY <1>2, PopIInv, Zenon DEF Check, Return, Inside, Locked
<1> QED
  BY <1>1, <1>2, Zenon

----------------------------------------------------------------------------
(* What is queued behind a close is marked late.                           *)
LEMMA EnqueueIInv ==
  ASSUME IInv, NEW t \in Callers, NEW c \in Codes, NEW n \in Objects, Enqueue(t, c, n)
  PROVE  IInv'
<1> USE DEF IInv
<1> DEFINE behind == \E i \in DOMAIN queue :
                        queue[i].code = "close" /\ queue[i].by = t /\ queue[i].n = n
<1>a. queue' = Append(queue, [by |-> t, code |-> c, n |-> n, late |-> behind])
  BY Zenon DEF Enqueue
<1>b. PICK late : late = behind
  BY Zenon
<1>c. late \in BOOLEAN
  BY <1>b
<1>0. PICK k, o :
        /\ k = Len(queue) + 1
        /\ o = [by |-> t, code |-> c, n |-> n, late |-> late]
        /\ queue' = Append(queue, o)
  BY <1>a, <1>b, Zenon
<1>1. /\ UNCHANGED <<made, at, object, serial, rejected, mutex, frames, closing, last, careful>>
      /\ calls' \in 0 .. MaxCalls /\ n <= made
  BY HandleAssumption, Indices DEF Enqueue, pool, TypeOK
<1>2. queue \in Seq(Operations) /\ o \in Operations
  BY <1>0, <1>c, Zenon DEF TypeOK, Operations
<1>3. /\ queue' \in Seq(Operations) /\ queue'[k] = o
      /\ \A i : i \in DOMAIN queue' <=> i \in DOMAIN queue \/ i = k
      /\ \A i \in DOMAIN queue : queue'[i] = queue[i] /\ i < k
  BY <1>0, <1>2, AppendFacts
<1>4. o.by = t /\ o.n = n /\ o.late = late
  BY <1>0, Zenon
<1>5. TypeOK'
  BY <1>1, <1>3, Zenon DEF TypeOK, Operations
<1>6. PoolInv' /\ ClosingInv' /\ LastInv'
  BY <1>1, Zenon DEF PoolInv, ClosingInv, LastInv
<1>7. FrameInv'
  BY <1>1, FrameStays, Zenon
<1>8. QueueInv'
  <2>1. ASSUME NEW i \in DOMAIN queue, BehindClose(i) PROVE BehindClose(i)'
    BY <1>3, <2>1, Zenon DEF BehindClose
  <2>2. late => BehindClose(k)'
    BY <1>b, <1>3, <1>4, ZenonT(60) DEF BehindClose
  <2>3. ASSUME NEW i \in DOMAIN queue'
        PROVE  /\ queue'[i].n <= made'
               /\ queue'[i].late => \/ BehindClose(i)'
                                   \/ closing' = queue'[i].n
                                   \/ serial'[at'[queue'[i].n]] # queue'[i].n
    <3>1. CASE i = k
      BY <1>1, <1>3, <1>4, <2>2, <3>1, Zenon
    <3>2. CASE i \in DOMAIN queue
      BY <1>1, <1>3, <2>1, <3>2, Zenon DEF QueueInv
    <3> QED
      BY <1>3, <3>1, <3>2, Zenon
  <2> QED
    BY <2>3, Zenon DEF QueueInv
<1> QED
  BY <1>5, <1>6, <1>7, <1>8, Zenon

(* An operation that is carried out is not late, and when a close is, all  *)
(* that stands behind it is void.                                          *)
LEMMA TakeIInv ==
  ASSUME IInv, NEW i, Take(i)
  PROVE  IInv'
<1> USE DEF IInv
<1>1. /\ UNCHANGED <<made, at, object, serial, rejected, mutex, frames, calls, careful>>
      /\ closing = Empty /\ i \in DOMAIN queue /\ IsHead(i) /\ queue' = Without(i)
  BY Zenon DEF Take, IsHead, pool, api
<1>2. queue \in Seq(Operations)
  BY DEF TypeOK, Operations
<1>3. /\ queue' \in Seq(Operations)
      /\ DOMAIN queue' = 1 .. Len(queue) - 1 /\ DOMAIN queue = 1 .. Len(queue)
      /\ Len(queue) \in Nat
      /\ \A k \in 1 .. Len(queue) - 1 :
           queue'[k] = IF k < i THEN queue[k] ELSE queue[k + 1]
  BY <1>1, <1>2, WithoutFacts, Zenon
<1>4. PICK n, c, late :
        /\ n = queue[i].n /\ c = queue[i].code /\ late = queue[i].late
        /\ n \in Objects /\ n # Empty /\ n \in 1 .. made /\ at[n] \in Blocks
        /\ late \in BOOLEAN
  BY <1>1, QueueFacts, Zenon
<1>5. ~BehindClose(i)
  BY <1>1, <1>3, SMTT(60) DEF BehindClose, IsHead
<1>6. late => serial[at[n]] # n
  BY <1>1, <1>4, <1>5, Zenon DEF QueueInv
<1>7. PICK p \in Targets(queue[i]) :
        \/ /\ Current(p, n)
           /\ last' = [own |-> object[p] = n, late |-> late]
           /\ closing' = IF c = "close" THEN n ELSE Empty
        \/ ~Current(p, n) /\ UNCHANGED <<last, closing>>
  BY <1>4, Zenon DEF Take
<1>8. p \in Blocks \cup {NoBlock} /\ (c = "close" => p = at[n])
  BY <1>4, <1>7, Zenon DEF Targets
<1>9. ASSUME Current(p, n)
      PROVE  p = at[n] /\ ~late /\ (~rejected => object[p] = n)
  <2>1. p \in Blocks /\ serial[p] = n
    BY <1>8, <1>9, Zenon DEF Current
  <2>2. p = at[n] /\ (~rejected => object[p] = n)
    BY <1>4, <2>1, Zenon DEF PoolInv
  <2> QED
    BY <1>6, <2>1, <2>2, Zenon
<1>10. closing' \in {Empty, n} /\ (closing' = n => serial[at[n]] = n)
  BY <1>1, <1>4, <1>7, <1>9, Zenon DEF Current
<1>11. TypeOK'
  <2>1. last' \in [own : BOOLEAN, late : BOOLEAN]
    <3>1. CASE last' = last
      BY <3>1, Zenon DEF TypeOK
    <3>2. CASE last' = [own |-> object[p] = n, late |-> late]
      BY <1>4, <3>2, Zenon
    <3> QED
      BY <1>7, <3>1, <3>2, Zenon
  <2>2. closing' \in 0 .. MaxObjects
    BY <1>1, <1>4, <1>10, Indices, Zenon DEF TypeOK
  <2> QED
    BY <1>1, <1>3, <2>1, <2>2, ZenonT(60) DEF TypeOK, Operations
<1>12. PoolInv'
  BY <1>1, Zenon DEF PoolInv
<1>13. FrameInv'
  BY <1>1, FrameStays, Zenon
<1>14. ClosingInv'
  <2>1. n <= made
    BY <1>4, Indices, Zenon DEF TypeOK
  <2> QED
    BY <1>1, <1>10, <2>1, Zenon DEF ClosingInv
<1>15. LastInv'
  <2>1. CASE last' = last
    BY <1>1, <2>1, Zenon DEF LastInv
  <2>2. CASE Current(p, n) /\ last' = [own |-> object[p] = n, late |-> late]
    <3>1. last'.own = (object[p] = n) /\ last'.late = late
      BY <2>2, Zenon
    <3> QED
      BY <1>1, <1>9, <2>2, <3>1, Zenon DEF LastInv
  <2> QED
    BY <1>7, <2>1, <2>2, Zenon
<1>16. QueueInv'
  <2> SUFFICES ASSUME NEW k \in DOMAIN queue'
               PROVE  /\ queue'[k].n <= made
                      /\ queue'[k].late => \/ BehindClose(k)'
                                          \/ closing' = queue'[k].n
                                          \/ serial[at[queue'[k].n]] # queue'[k].n
    BY <1>1, Zenon DEF QueueInv
  <2>1. PICK m \in DOMAIN queue : queue'[k] = queue[m] /\ m = (IF k < i THEN k ELSE k + 1)
    BY <1>1, <1>3, SMTT(60)
  <2>2. /\ queue[m].n <= made /\ queue[m].n # Empty
        /\ queue[m].late => BehindClose(m) \/ serial[at[queue[m].n]] # queue[m].n
    BY <1>1, QueueFacts, Zenon DEF QueueInv
  <2>3. ASSUME BehindClose(m)
        PROVE  \/ BehindClose(k)' \/ closing' = queue[m].n
               \/ serial[at[queue[m].n]] # queue[m].n
    <3>1. PICK j \in DOMAIN queue :
            j < m /\ queue[j].code = "close" /\ queue[j].by = queue[m].by
                  /\ queue[j].n = queue[m].n
      BY <2>3, Zenon DEF BehindClose
    <3>2. CASE j = i
      <4>1. c = "close" /\ n = queue[m].n /\ p = at[n]
        BY <1>4, <1>8, <3>1, <3>2, Zenon
      <4>2. CASE Current(p, n)
        BY <1>7, <4>1, <4>2, Zenon
      <4>3. CASE ~Current(p, n)
        BY <1>4, <4>1, <4>3, Indices, Zenon DEF Current
      <4> QED
        BY <4>2, <4>3, Zenon
    <3>3. CASE j # i
      <4>1. PICK l \in DOMAIN queue' : queue'[l] = queue[j] /\ l < k
        <5>1. CASE j < i
          <6>1. j \in DOMAIN queue' /\ queue'[j] = queue[j] /\ j < k
            BY <1>1, <1>3, <2>1, <3>1, <5>1, SMTT(60)
          <6> QED
            BY <6>1, Zenon
        <5>2. CASE j > i
          <6>1. j - 1 \in DOMAIN queue' /\ queue'[j - 1] = queue[j] /\ j - 1 < k
            BY <1>1, <1>3, <2>1, <3>1, <5>2
          <6> QED
            BY <6>1, Zenon
        <5> QED
          BY <1>1, <1>3, <3>3, <5>1, <5>2
      <4> QED
        BY <2>1, <3>1, <4>1, Zenon DEF BehindClose
    <3> QED
      BY <3>2, <3>3, Zenon
  <2> QED
    BY <2>1, <2>2, <2>3, Zenon
<1> QED
  BY <1>11, <1>12, <1>13, <1>14, <1>15, <1>16, SMTT(60)

(* Every step of the loop and of the threads keeps IInv.                   *)
LEMMA NextIInv == IInv /\ [Next]_vars => IInv'
<1> SUFFICES ASSUME IInv, [Next]_vars PROVE IInv'
  BY Zenon
<1>1. CASE UNCHANGED vars
  <2>1. TypeOK'
    BY <1>1, Zenon DEF vars, IInv, TypeOK
  <2>2. PoolInv' /\ ClosingInv' /\ LastInv'
    BY <1>1, Zenon DEF vars, IInv, PoolInv, ClosingInv, LastInv
  <2>3. FrameInv'
    BY <1>1, FrameStays, Zenon DEF vars, IInv
  <2>4. QueueInv'
    BY <1>1, Zenon DEF vars, IInv, QueueInv, BehindClose
  <2> QED
    BY <2>1, <2>2, <2>3, <2>4, Zenon DEF IInv
<1>2. CASE Invalidate
  BY <1>2, InvalidateIInv
<1>3. CASE \E b \in Blocks : Create(b)
  BY <1>3, CreateIInv
<1>4. CASE \/ \E n \in Objects : Close(n) \/ Reject(n) \/ LoopCalls(n)
           \/ \E b \in Blocks : Delete(b)
  BY <1>4, LoopIInv
<1>5. CASE \E i \in 1 .. MaxCalls : Take(i)
  BY <1>5, TakeIInv
<1>6. CASE \E n \in Objects : \E c \in Codes :
             LoopPosts(c, n) \/ \E t \in Threads : Post(t, c, n)
  BY <1>6, EnqueueIInv, Zenon DEF LoopPosts, Post, Callers
<1>7. CASE \E n \in Objects, t \in Threads : Unwrap(t, n)
  BY <1>7, UnwrapIInv, Zenon
<1>8. CASE \E t \in Threads : Lock(t)
  BY <1>8, LockIInv
<1>9. CASE \E t \in Threads : Check(t) \/ Return(t)
  BY <1>9, CheckReturnIInv
<1> QED
  BY <1>1, <1>2, <1>3, <1>4, <1>5, <1>6, <1>7, <1>8, <1>9, Zenon DEF Next

LEMMA SpecIInv == Spec => []IInv
BY InitIInv, NextIInv, PTL DEF Spec

(* The state of handles, blocks, calls and queue keeps its types.          *)
THEOREM TypeCorrect == Spec => []TypeOK
BY SpecIInv, PTL DEF IInv

(* An object that a thread works on behind a handle is the handle's and is *)
(* not deleted before the call returns: UNWRAP_CONN and UNWRAP_STREAM      *)
(* against InvalidateSerial, for any number of threads, blocks and calls.  *)
THEOREM InsideStaysAlive == Spec => []InsideAlive
<1>1. IInv => InsideAlive
  <2> SUFFICES ASSUME IInv, ~rejected, NEW t \in Threads, NEW n \in InsideOf(t)
               PROVE  object[at[n]] = n /\ serial[at[n]] = n
    BY Zenon DEF InsideAlive
  <2>1. PICK i \in DOMAIN frames[t] : frames[t][i].pc = "inside" /\ frames[t][i].n = n
    BY Zenon DEF InsideOf
  <2>2. n \in Objects /\ at[n] \in Blocks /\ serial[at[n]] = n
    BY <2>1, FrameFacts, Zenon DEF IInv, FrameInv, FrameOK, Holds
  <2> QED
    BY <2>2, Indices, Zenon DEF IInv, PoolInv
<1> QED
  BY <1>1, SpecIInv, PTL

(* An operation of the queue reaches the object its handle was made for or *)
(* none, whatever target_ptr_ holds (Processor::Poll).                     *)
THEOREM OperationReachesItsObject == Spec => []ReachesItsObject
<1>1. IInv => ReachesItsObject
  BY Zenon DEF IInv, LastInv, ReachesItsObject
<1> QED
  BY <1>1, SpecIInv, PTL

(* Nothing that a thread asks of an object after nq_conn_close or          *)
(* nq_stream_close is carried out.                                         *)
THEOREM NothingAfterClose == Spec => []CloseIsLast
<1>1. IInv => CloseIsLast
  BY SMTT(60) DEF IInv, LastInv, CloseIsLast
<1> QED
  BY <1>1, SpecIInv, PTL

----------------------------------------------------------------------------
(* What HandleService sees of a step.                                      *)
Insides == [t \in Threads |-> InsideOf(t)]
Seen == <<Life, Insides, ~rejected>>

(* Steps that leave serials and calls alone are not seen.                  *)
LEMMA Unseen ==
  ASSUME UNCHANGED <<made, at, serial, rejected, frames>>
  PROVE  UNCHANGED Seen
BY Zenon DEF Seen, Life, Insides, InsideOf

LEMMA CreateMakes ==
  ASSUME IInv, ~rejected, NEW b \in Blocks, Create(b)
  PROVE  Service!Make(made + 1) /\ made + 1 \in Objects
<1> USE Indices DEF IInv
<1>1. /\ made \in 0 .. MaxObjects /\ made + 1 \in Objects /\ made' = made + 1
      /\ object[b] = Empty /\ UNCHANGED <<frames, rejected>>
      /\ at' = [at EXCEPT ![made + 1] = b] /\ serial' = [serial EXCEPT ![b] = made + 1]
  BY HandleAssumption, Zenon DEF Create, TypeOK, Objects, api
<1>2. serial[b] = Empty
  BY <1>1, Zenon DEF PoolInv
<1>3. ASSUME NEW n \in Objects
      PROVE  Life'[n] = IF n = made + 1 THEN "valid" ELSE Life[n]
  <2>1. CASE n = made + 1
    BY <1>1, <2>1 DEF Life, TypeOK
  <2>2. CASE n > made + 1
    BY <1>1, <2>2 DEF Life
  <2>3. CASE n <= made
    <3>1. n \in 1 .. made /\ at[n] \in Blocks /\ at'[n] = at[n] /\ n # made + 1
      BY <1>1, <2>3 DEF PoolInv, TypeOK
    <3>2. serial'[at'[n]] = n <=> serial[at[n]] = n
      BY <1>1, <1>2, <3>1, Zenon DEF TypeOK
    <3> QED
      BY <1>1, <2>3, <3>1, <3>2, SMTT(60) DEF Life
  <2> QED
    BY <1>1, <2>1, <2>2, <2>3
<1>4. Life[made + 1] = "unmade"
  BY <1>1 DEF Life
<1>5. Life' = [Life EXCEPT ![made + 1] = "valid"]
  <2>1. Life = [n \in Objects |-> Life[n]] /\ Life' = [n \in Objects |-> Life'[n]]
    BY Zenon DEF Life
  <2> QED
    BY <1>3, <2>1, Zenon
<1> QED
  BY <1>1, <1>4, <1>5, Zenon DEF Service!Make, InsideOf

LEMMA InvalidateRevokes ==
  ASSUME IInv, Invalidate
  PROVE  Service!Revoke(closing) /\ closing \in Objects
<1> USE Indices DEF IInv
<1>1. /\ closing \in Objects /\ closing \in 1 .. made /\ at[closing] \in Blocks
      /\ serial[at[closing]] = closing /\ mutex[at[closing]] = {}
      /\ serial' = [serial EXCEPT ![at[closing]] = Empty]
      /\ UNCHANGED <<made, at, rejected, frames>>
  BY Zenon DEF Invalidate, ClosingInv, PoolInv, TypeOK, api
<1>2. ASSUME NEW n \in Objects
      PROVE  Life'[n] = IF n = closing THEN "void" ELSE Life[n]
  <2>1. CASE n > made
    <3>1. n # closing
      BY <1>1, <2>1 DEF TypeOK
    <3> QED
      BY <1>1, <2>1, <3>1, Zenon DEF Life
  <2>2. CASE n <= made
    <3>1. n \in 1 .. made /\ at[n] \in Blocks /\ n # Empty
      BY <1>1, <2>2, Zenon DEF PoolInv, TypeOK
    <3>2. serial'[at[n]] = n <=> serial[at[n]] = n /\ n # closing
      BY <1>1, <3>1, Zenon DEF TypeOK
    <3>3. ~(n > made) /\ ~(n > made')
      BY <1>1, <2>2, SMTT(60) DEF TypeOK
    <3>4. /\ Life[n] = IF serial[at[n]] = n THEN "valid" ELSE "void"
          /\ Life'[n] = IF serial'[at[n]] = n THEN "valid" ELSE "void"
      BY <1>1, <3>3, Zenon DEF Life
    <3> QED
      BY <3>2, <3>4, Zenon
  <2> QED
    BY <1>1, <2>1, <2>2, SMTT(60) DEF TypeOK
<1>3. Life' = [Life EXCEPT ![closing] = "void"] /\ Life[closing] = "valid"
  <2>1. Life = [n \in Objects |-> Life[n]] /\ Life' = [n \in Objects |-> Life'[n]]
    BY Zenon DEF Life
  <2>2. ~(closing > made)
    BY <1>1, SMTT(60) DEF TypeOK
  <2>3. Life[closing] = "valid"
    BY <1>1, <2>2, Zenon DEF Life
  <2> QED
    BY <1>2, <2>1, <2>3, Zenon
<1>4. ASSUME NEW t \in Threads, closing \in InsideOf(t) PROVE FALSE
  <2>1. PICK i \in DOMAIN frames[t] : frames[t][i].pc = "inside" /\ frames[t][i].n = closing
    BY <1>4, Zenon DEF InsideOf
  <2> QED
    BY <1>1, <2>1, Zenon DEF FrameInv, FrameOK, Holds
<1> QED
  BY <1>1, <1>3, <1>4, Zenon DEF Service!Revoke, InsideOf

(* A call that has the mutex of its block is in it alone.                  *)
LEMMA Alone ==
  ASSUME IInv, NEW t \in Threads, NEW i \in DOMAIN frames[t], Holds(t, i),
         NEW u \in Threads, NEW j \in DOMAIN frames[u], Holds(u, j),
         frames[u][j].n = frames[t][i].n
  PROVE  u = t /\ j = i
<1>1. FrameOK(t, i) /\ FrameOK(u, j)
  BY Zenon DEF IInv, FrameInv
<1>2. {u} = {t}
  BY <1>1, Zenon DEF FrameOK
<1> QED
  BY <1>2, Zenon DEF IInv, FrameInv, Apart

(* A thread whose calls are what they were is inside what it was.          *)
LEMMA InsideSame ==
  ASSUME NEW u, frames'[u] = frames[u]
  PROVE  InsideOf(u)' = InsideOf(u)
  BY Zenon DEF InsideOf

LEMMA CheckEnters ==
  ASSUME IInv, NEW t \in Threads, Check(t), serial[at[Top(t).n]] = Top(t).n
  PROVE  Service!Enter(t, Top(t).n) /\ Top(t).n \in Objects
<1> USE DEF IInv
<1>0. PICK k, n : k = Len(frames[t]) /\ n = Top(t).n
  BY ZenonT(60)
<1>1. /\ frames[t] # <<>> /\ Top(t).pc = "locked" /\ UNCHANGED <<made, at, serial, rejected>>
      /\ frames' = SetTop(t, [Top(t) EXCEPT !.pc = "inside"]) /\ "inside" \in PCs
  BY DEF Check, Locked, pool, PCs
<1>2. k \in DOMAIN frames[t] /\ frames[t][k].n = n /\ frames[t][k].pc = "locked"
  BY <1>0, <1>1, TopFacts
<1>3. n \in Objects /\ n \in 1 .. made /\ Holds(t, k)
  BY <1>2, FrameFacts, Zenon DEF Holds
<1>4. ASSUME NEW u \in Threads, n \in InsideOf(u) PROVE FALSE
  <2>1. PICK j \in DOMAIN frames[u] : frames[u][j].pc = "inside" /\ frames[u][j].n = n
    BY <1>4, Zenon DEF InsideOf
  <2>2. Holds(u, j)
    BY <2>1, Zenon DEF Holds
  <2> QED
    BY <1>2, <1>3, <2>1, <2>2, Alone, Zenon
<1>5. /\ \A u \in Threads : u # t => frames'[u] = frames[u]
      /\ DOMAIN frames'[t] = DOMAIN frames[t]
      /\ frames'[t][k].n = n /\ frames'[t][k].pc = "inside"
      /\ \A i \in DOMAIN frames[t] : i # k => frames'[t][i] = frames[t][i]
  BY <1>0, <1>1, SetTopFacts, Zenon
<1>6. InsideOf(t)' = InsideOf(t) \cup {n}
  BY <1>2, <1>5, SMTT(60) DEF InsideOf
<1>7. \A u \in Threads : u # t => InsideOf(u)' = InsideOf(u)
  BY <1>5, InsideSame, Zenon
<1>8. Life[n] = "valid" /\ Life' = Life
  BY <1>0, <1>1, <1>3, Indices, SMTT(60) DEF Life, TypeOK
<1>9. [u \in Threads |-> InsideOf(u)'] =
        [[u \in Threads |-> InsideOf(u)] EXCEPT ![t] = @ \cup {n}]
  BY <1>6, <1>7, Zenon
<1> QED
  BY <1>0, <1>1, <1>3, <1>4, <1>8, <1>9 DEF Service!Enter

LEMMA ReturnLeaves ==
  ASSUME IInv, NEW t \in Threads, Return(t)
  PROVE  Service!Leave(t, Top(t).n) /\ Top(t).n \in Objects
<1> USE DEF IInv
<1>0. PICK k, n : k = Len(frames[t]) /\ n = Top(t).n
  BY Zenon
<1>1. /\ frames[t] # <<>> /\ Top(t).pc = "inside" /\ UNCHANGED <<made, at, serial, rejected>>
      /\ frames' = PopTop(t)
  BY Zenon DEF Return, Inside, pool
<1>2. k \in DOMAIN frames[t] /\ frames[t][k].n = n /\ frames[t][k].pc = "inside"
  BY <1>0, <1>1, TopFacts, Zenon
<1>3. n \in Objects /\ Holds(t, k) /\ n \in InsideOf(t)
  BY <1>2, FrameFacts, Zenon DEF Holds, InsideOf
<1>4. ASSUME NEW j \in DOMAIN frames[t], frames[t][j].pc = "inside", frames[t][j].n = n
      PROVE  j = k
  <2>1. Holds(t, j)
    BY <1>4, Zenon DEF Holds
  <2> QED
    BY <1>2, <1>3, <1>4, <2>1, Alone, Zenon
<1>5. /\ \A u \in Threads : u # t => frames'[u] = frames[u]
      /\ \A i : i \in DOMAIN frames'[t] <=> i \in DOMAIN frames[t] /\ i # k
      /\ \A i \in DOMAIN frames'[t] : frames'[t][i] = frames[t][i]
  BY <1>0, <1>1, PopTopFacts, Zenon
<1>6. InsideOf(t)' = InsideOf(t) \ {n}
  BY <1>2, <1>4, <1>5, SMTT(60) DEF InsideOf
<1>7. \A u \in Threads : u # t => InsideOf(u)' = InsideOf(u)
  BY <1>5, InsideSame, Zenon
<1>8. Life' = Life
  BY <1>1, Zenon DEF Life
<1>9. [u \in Threads |-> InsideOf(u)'] =
        [[u \in Threads |-> InsideOf(u)] EXCEPT ![t] = @ \ {n}]
  BY <1>6, <1>7, Zenon
<1> QED
  BY <1>0, <1>1, <1>3, <1>8, <1>9, Zenon DEF Service!Leave

(* The other steps of a call are not seen.                                 *)
LEMMA WaitUnseen ==
  ASSUME IInv, NEW t \in Threads,
         \/ \E n \in Objects : Unwrap(t, n)
         \/ Lock(t)
         \/ Check(t) /\ serial[at[Top(t).n]] # Top(t).n
  PROVE  UNCHANGED Seen
<1> USE DEF IInv
<1>1. UNCHANGED <<made, at, serial, rejected>>
  BY Zenon DEF Unwrap, Lock, Check, pool
<1>2. \A u \in Threads : InsideOf(u)' = InsideOf(u)
  <2>1. CASE \E n \in Objects : Unwrap(t, n)
    <3>1. PICK n \in Objects : Unwrap(t, n)
      BY <2>1, Zenon
    <3>2. PICK k : k = Len(frames[t]) + 1
      BY Zenon
    <3>3. /\ \A u \in Threads : u # t => frames'[u] = frames[u]
          /\ \A i : i \in DOMAIN frames'[t] <=> i \in DOMAIN frames[t] \/ i = k
          /\ frames'[t][k].pc = "wait"
          /\ \A i \in DOMAIN frames[t] : frames'[t][i] = frames[t][i]
      <4>1. frames' = [frames EXCEPT ![t] = Append(@, [n |-> n, pc |-> "wait"])]
        BY <3>1, Zenon DEF Unwrap
      <4>2. frames'[t][k] = [n |-> n, pc |-> "wait"]
        BY <3>2, <4>1, PushFacts, ZenonT(60)
      <4>3. frames'[t][k].pc = "wait"
        BY <4>2, SMTT(60)
      <4> QED
        BY <3>2, <4>1, <4>3, PushFacts, ZenonT(60)
    <3>4. InsideOf(t)' = InsideOf(t)
      BY <3>3, SMTT(60) DEF InsideOf
    <3> QED
      BY <3>3, <3>4, InsideSame, Zenon
  <2>2. CASE Lock(t)
    <3>1. /\ frames[t] # <<>> /\ Top(t).pc = "wait" /\ "locked" \in PCs
          /\ frames' = SetTop(t, [Top(t) EXCEPT !.pc = "locked"])
      BY <2>2, Zenon DEF Lock, Waits, PCs
    <3>2. PICK k : k = Len(frames[t])
      BY ZenonT(60)
    <3>3. /\ k \in DOMAIN frames[t] /\ frames[t][k].pc = "wait"
          /\ \A u \in Threads : u # t => frames'[u] = frames[u]
          /\ DOMAIN frames'[t] = DOMAIN frames[t] /\ frames'[t][k].pc = "locked"
          /\ \A i \in DOMAIN frames[t] : i # k => frames'[t][i] = frames[t][i]
      BY <3>1, <3>2, SetTopFacts, TopFacts, Zenon
    <3>4. InsideOf(t)' = InsideOf(t)
      BY <3>3, SMTT(60) DEF InsideOf
    <3> QED
      BY <3>3, <3>4, InsideSame, Zenon
  <2>3. CASE Check(t) /\ serial[at[Top(t).n]] # Top(t).n
    <3>1. frames[t] # <<>> /\ Top(t).pc = "locked" /\ frames' = PopTop(t)
      BY <2>3, SMTT(60) DEF Check, Locked
    <3>2. PICK k : k = Len(frames[t])
      BY Zenon
    <3>3. /\ k \in DOMAIN frames[t] /\ frames[t][k].pc = "locked"
          /\ \A u \in Threads : u # t => frames'[u] = frames[u]
          /\ \A i : i \in DOMAIN frames'[t] <=> i \in DOMAIN frames[t] /\ i # k
          /\ \A i \in DOMAIN frames'[t] : frames'[t][i] = frames[t][i]
      BY <3>1, <3>2, PopTopFacts, TopFacts, Zenon
    <3>4. InsideOf(t)' = InsideOf(t)
      BY <3>3 DEF InsideOf
    <3> QED
      BY <3>3, <3>4, InsideSame, Zenon
  <2> QED
    BY <2>1, <2>2, <2>3, Zenon
<1> QED
  BY <1>1, <1>2, Zenon DEF Seen, Life, Insides

(* Serials, mutexes and the UNWRAP macros implement HandleService as long  *)
(* as no stream is deleted behind its handle: a thread enters an object    *)
(* only while it is valid and alone, and no serial is revoked under it.    *)
THEOREM HandlesImplementService == Spec => ImplementsHandles
<1>1. Init => Service!Init
  <2> SUFFICES ASSUME Init PROVE Service!Init
    OBVIOUS
  <2>1. Life = [n \in Objects |-> "unmade"]
    <3>1. \A n \in Objects : n > made
      BY DEF Init, Objects
    <3> QED
      BY <3>1, Zenon DEF Life
  <2>2. \A t \in Threads : InsideOf(t) = {}
    <3>1. \A t \in Threads : frames[t] = <<>>
      BY Zenon DEF Init
    <3>2. DOMAIN <<>> = {}
      OBVIOUS
    <3> QED
      BY <3>1, <3>2, Zenon DEF InsideOf
  <2> QED
    BY <2>1, <2>2, Zenon DEF Init, Service!Init
<1>2. IInv /\ [Next]_vars => [Service!Next]_(Service!vars)
  <2> SUFFICES ASSUME IInv, [Next]_vars, ~rejected'
               PROVE  Service!Next \/ UNCHANGED Seen
    BY Zenon DEF Service!Next, Service!Unreliable, Service!vars, Seen, Insides
  <2>1. CASE \/ UNCHANGED vars
             \/ \E n \in Objects : Close(n) \/ LoopCalls(n)
             \/ \E n \in Objects, c \in Codes : LoopPosts(c, n)
             \/ \E n \in Objects, t \in Threads, c \in Codes : Post(t, c, n)
             \/ \E b \in Blocks : Delete(b)
             \/ \E i \in 1 .. MaxCalls : Take(i)
    <3>1. UNCHANGED <<made, at, serial, rejected, frames>>
      BY <2>1, ZenonT(60) DEF vars, Close, LoopCalls, LoopPosts, Post, Enqueue, Delete, Take,
         pool, api
    <3> QED
      BY <3>1, Unseen, SMTT(60)
  <2>2. CASE \E n \in Objects : Reject(n)
    BY <2>2, Zenon DEF Reject
  <2>3. CASE \E b \in Blocks : Create(b)
    <3>1. ~rejected
      BY <2>3 DEF Create
    <3> QED
      BY <2>3, <3>1, CreateMakes DEF Service!Next
  <2>4. CASE Invalidate
    BY <2>4, InvalidateRevokes, SMTT(60) DEF Service!Next
  <2>5. ASSUME NEW t \in Threads,
  Check(t) \/ Return(t) \/ Lock(t) \/ \E n \in Objects : Unwrap(t, n)
        PROVE  Service!Next \/ UNCHANGED Seen
    <3>1. CASE Check(t) /\ serial[at[Top(t).n]] = Top(t).n
      BY <3>1, CheckEnters, Zenon DEF Service!Next
    <3>2. CASE Return(t)
      BY <3>2, ReturnLeaves, Zenon DEF Service!Next
    <3> QED
      BY <2>5, <3>1, <3>2, WaitUnseen, Zenon
  <2> QED
    BY <2>1, <2>2, <2>3, <2>4, <2>5, Zenon DEF Next
<1> QED
  BY <1>1, <1>2, SpecIInv, PTL DEF Spec, ImplementsHandles, Service!Spec
=============================================================================
