---------------------------- MODULE NqLoopProof ----------------------------
(***************************************************************************)
(* Proofs about the alarm map of NqLoop, for any number of alarms, entries *)
(* and instants.                                                           *)
(*                                                                         *)
(* Three inductive invariants, each on top of the one before:              *)
(*   IInv      the iterator of Poll stands at an entry that is in the map; *)
(*   KeepInv   (time is not set back) every alarm that is set has a live   *)
(*             entry ahead of the iterator;                                *)
(*   ExactInv  (and callbacks set deadlines of the future only) every live *)
(*             entry ahead of the iterator belongs to an alarm that is set *)
(*             for exactly that time.                                      *)
(* ExactInv is what the refinement of AlarmService rests on.               *)
(***************************************************************************)
EXTENDS NqLoop, TLAPS

(* Entries above the last one made were never used.                        *)
Fresh == \A i \in Entries : i > made => ptr[i] = NoAlarm /\ ~erased[i]

(* Every entry in the map has a time as its key.                           *)
KeyTime == \A i \in Entries : ptr[i] # NoAlarm => key[i] \in Times

(* Where Poll is: a callback runs for an entry that is due, and the entry  *)
(* under the iterator is in the map.                                       *)
PollInv ==
  /\ pc = "idle" => it = End /\ processTs = 0
  /\ pc # "idle" => processTs \in Times
  /\ pc = "fire" => it # End /\ key[it] <= processTs
  /\ it # End => ptr[it] # NoAlarm

IInv == TypeOK /\ Fresh /\ KeyTime /\ PollInv

----------------------------------------------------------------------------
(* What the index sets are used for.                                       *)
LEMMA IndexFacts ==
  /\ \A i \in Entries : i \in Nat /\ i # End /\ i <= MaxSets
  /\ \A n \in 0 .. MaxSets : n < MaxSets => n + 1 \in Entries /\ n \in Nat
  /\ \A t \in Times : t \in Nat /\ t # 0 /\ t \in 0 .. MaxTime
  /\ \A t \in 0 .. MaxTime : t \in Nat /\ (t # 0 => t \in Times)
  /\ End \notin Entries /\ End \in Entries \cup {End}
  /\ NoAlarm \notin Alarms
  /\ 0 \in 0 .. MaxTime
BY AlarmsAssumption, BoundsAssumption DEF Entries, Times, End

(* Initially the map is empty and Poll does not run.                       *)
LEMMA InitIInv == Init => IInv
<1> SUFFICES ASSUME Init PROVE IInv
  OBVIOUS
<1>1. TypeOK
  BY IndexFacts, BoundsAssumption DEF Init, TypeOK
<1>2. Fresh /\ KeyTime /\ PollInv
  BY IndexFacts DEF Init, Fresh, KeyTime, PollInv
<1> QED
  BY <1>1, <1>2 DEF IInv

(* Time passing leaves the map alone.                                      *)
LEMMA TickIInv ==
  ASSUME IInv, Tick
  PROVE  IInv'
<1> USE IndexFacts DEF IInv, Tick
<1>1. TypeOK'
  BY BoundsAssumption DEF TypeOK, Times
<1>2. Fresh'
  BY DEF TypeOK, Fresh
<1>3. KeyTime'
  BY DEF TypeOK, KeyTime
<1>4. PollInv'
  BY DEF TypeOK, Fresh, KeyTime, PollInv
<1> QED
  BY <1>1, <1>2, <1>3, <1>4

(* So does setting it back.                                                *)
LEMMA StepBackIInv ==
  ASSUME IInv, StepBack
  PROVE  IInv'
<1> USE IndexFacts DEF IInv, StepBack
<1>1. TypeOK'
  BY BoundsAssumption DEF TypeOK, Times
<1>2. Fresh'
  BY DEF TypeOK, Fresh
<1>3. KeyTime'
  BY DEF TypeOK, KeyTime
<1>4. PollInv'
  BY DEF TypeOK, Fresh, KeyTime, PollInv
<1> QED
  BY <1>1, <1>2, <1>3, <1>4

(* SetAlarm uses a fresh entry.                                            *)
LEMMA SetAlarmIInv ==
  ASSUME NEW a \in Alarms, NEW t \in Times, IInv, SetAlarm(a, t)
  PROVE  IInv'
<1> USE IndexFacts DEF IInv, SetAlarm, OwnersRun
<1>0. made + 1 \in Entries /\ made + 1 # it
  BY DEF TypeOK, Fresh, PollInv
<1>1. TypeOK'
  BY <1>0 DEF TypeOK
<1>2. Fresh'
  BY <1>0 DEF TypeOK, Fresh
<1>3. KeyTime'
  BY <1>0 DEF TypeOK, KeyTime
<1>4. PollInv'
  BY <1>0 DEF TypeOK, Fresh, KeyTime, PollInv
<1> QED
  BY <1>1, <1>2, <1>3, <1>4

(* CancelAlarm never erases the entry under the iterator.                  *)
LEMMA CancelAlarmIInv ==
  ASSUME NEW a \in Alarms, IInv, CancelAlarm(a)
  PROVE  IInv'
<1> USE IndexFacts DEF IInv, CancelAlarm, OwnersRun, IsFirstMatch, Matches
<1>1. TypeOK'
  BY Zenon DEF TypeOK
<1>2. Fresh'
  BY DEF TypeOK, Fresh
<1>3. KeyTime'
  BY DEF TypeOK, KeyTime
<1>4. PollInv'
  BY DEF TypeOK, Fresh, KeyTime, PollInv
<1> QED
  BY <1>1, <1>2, <1>3, <1>4

(* Poll starts at an entry of the map or at the end.                       *)
LEMMA PollBeginIInv ==
  ASSUME IInv, PollBegin
  PROVE  IInv'
<1> USE IndexFacts DEF IInv, PollBegin, IsBegin, Present
<1>1. TypeOK'
  BY DEF TypeOK
<1>2. Fresh'
  BY DEF TypeOK, Fresh
<1>3. KeyTime'
  BY DEF TypeOK, KeyTime
<1>4. PollInv'
  BY DEF TypeOK, Fresh, KeyTime, PollInv
<1> QED
  BY <1>1, <1>2, <1>3, <1>4

(* Poll ends at the end of the map.                                        *)
LEMMA PollAtEndIInv ==
  ASSUME IInv, PollAtEnd
  PROVE  IInv'
<1> USE IndexFacts DEF IInv, PollAtEnd, PollDone
<1>1. TypeOK'
  BY DEF TypeOK
<1>2. Fresh'
  BY DEF TypeOK, Fresh
<1>3. KeyTime'
  BY DEF TypeOK, KeyTime
<1>4. PollInv'
  BY DEF TypeOK, Fresh, KeyTime, PollInv
<1> QED
  BY <1>1, <1>2, <1>3, <1>4

(* Poll ends before the first entry of the future.                         *)
LEMMA PollAtFutureIInv ==
  ASSUME IInv, PollAtFuture
  PROVE  IInv'
<1> USE IndexFacts DEF IInv, PollAtFuture, PollDone, Present, Before
<1>1. TypeOK'
  BY DEF TypeOK
<1>2. Fresh'
  BY DEF TypeOK, Fresh
<1>3. KeyTime'
  BY DEF TypeOK, KeyTime
<1>4. PollInv'
  BY Zenon DEF TypeOK, Fresh, KeyTime, PollInv
<1> QED
  BY <1>1, <1>2, <1>3, <1>4

(* Poll goes over a marked entry.                                          *)
LEMMA PollAtErasedIInv ==
  ASSUME IInv, PollAtErased
  PROVE  IInv'
<1> USE IndexFacts DEF IInv, PollAtErased, IsNext, Present
<1>1. TypeOK'
  BY Zenon DEF TypeOK
<1>2. Fresh'
  BY DEF TypeOK, Fresh
<1>3. KeyTime'
  BY DEF TypeOK, KeyTime
<1>4. PollInv'
  BY DEF TypeOK, Fresh, KeyTime, PollInv
<1> QED
  BY <1>1, <1>2, <1>3, <1>4, Zenon

(* OnFire of a due entry starts.                                           *)
LEMMA PollFiresIInv ==
  ASSUME IInv, PollFires
  PROVE  IInv'
<1> USE IndexFacts DEF IInv, PollFires
<1>1. TypeOK'
  BY DEF TypeOK, PollInv
<1>2. Fresh'
  BY Zenon DEF TypeOK, Fresh
<1>3. KeyTime'
  BY DEF TypeOK, KeyTime
<1>4. PollInv'
  BY DEF TypeOK, Fresh, KeyTime, PollInv
<1> QED
  BY <1>1, <1>2, <1>3, <1>4

(* OnFire of an alarm that is not set returns.                             *)
LEMMA PollAtUnsetIInv ==
  ASSUME IInv, PollAtUnset
  PROVE  IInv'
<1> USE IndexFacts DEF IInv, PollAtUnset, IsNext, Present
<1>1. TypeOK'
  BY DEF TypeOK
<1>2. Fresh'
  BY DEF TypeOK, Fresh
<1>3. KeyTime'
  BY DEF TypeOK, KeyTime
<1>4. PollInv'
  BY Zenon DEF TypeOK, Fresh, KeyTime, PollInv
<1> QED
  BY <1>1, <1>2, <1>3, <1>4

(* OnFire returns and the iterator moves on.                               *)
LEMMA FireReturnsIInv ==
  ASSUME IInv, FireReturns
  PROVE  IInv'
<1> USE IndexFacts DEF IInv, FireReturns, IsNext, Present
<1>1. TypeOK'
  BY DEF TypeOK
<1>2. Fresh'
  BY DEF TypeOK, Fresh
<1>3. KeyTime'
  BY DEF TypeOK, KeyTime
<1>4. PollInv'
  BY Zenon DEF TypeOK, Fresh, KeyTime, PollInv
<1> QED
  BY <1>1, <1>2, <1>3, <1>4

(* Every step keeps the iterator valid.                                    *)
LEMMA NextIInv == IInv /\ [Next]_vars => IInv'
<1> SUFFICES ASSUME IInv, [Next]_vars PROVE IInv'
  OBVIOUS
<1>1. CASE UNCHANGED vars
  BY <1>1 DEF vars, IInv, TypeOK, Fresh, KeyTime, PollInv
<1>2. CASE Tick
  BY <1>2, TickIInv
<1>3. CASE StepBack
  BY <1>3, StepBackIInv
<1>4. CASE \E a \in Alarms : CancelAlarm(a)
  BY <1>4, CancelAlarmIInv
<1>5. CASE \E a \in Alarms : \E t \in Times : SetAlarm(a, t)
  BY <1>5, SetAlarmIInv
<1>6. CASE PollBegin
  BY <1>6, PollBeginIInv
<1>7. CASE PollAtEnd
  BY <1>7, PollAtEndIInv
<1>8. CASE PollAtFuture
  BY <1>8, PollAtFutureIInv
<1>9. CASE PollAtErased
  BY <1>9, PollAtErasedIInv
<1>10. CASE PollFires
  BY <1>10, PollFiresIInv
<1>11. CASE PollAtUnset
  BY <1>11, PollAtUnsetIInv
<1>12. CASE FireReturns
  BY <1>12, FireReturnsIInv
<1> QED
  BY <1>1, <1>2, <1>3, <1>4, <1>5, <1>6, <1>7, <1>8, <1>9, <1>10, <1>11, <1>12
  DEF Next

(* IInv is an invariant whatever the constants are.                        *)
LEMMA SpecIInv == Spec => []IInv
BY InitIInv, NextIInv, PTL DEF Spec

(* The state keeps its types for any number of alarms, entries and         *)
(* instants, whatever Poll, its callbacks and the other owners do.         *)
THEOREM TypeCorrect == Spec => []TypeOK
<1>1. IInv => TypeOK
  BY DEF IInv
<1> QED
  BY <1>1, SpecIInv, PTL

(* The iterator of NqLoop::Poll always stands at an entry of alarm_map_,   *)
(* even if the time of day is set back in the middle of a pass.            *)
THEOREM IteratorStaysValid == Spec => []IteratorValid
<1>1. IInv => IteratorValid
  BY DEF IInv, PollInv, IteratorValid, Present
<1> QED
  BY <1>1, SpecIInv, PTL

----------------------------------------------------------------------------
(* Time that is not set back is never behind the reading Poll works with.  *)
Monotone == processTs <= now

KeepInv == IInv /\ Monotone /\ Kept

(* The multimap order is total.                                            *)
LEMMA TotalOrder ==
  ASSUME TypeOK, NEW i \in Entries, NEW j \in Entries
  PROVE  /\ Before(i, j) \/ Before(j, i) \/ i = j
         /\ ~Before(i, i)
         /\ ~(Before(i, j) /\ Before(j, i))
BY IndexFacts DEF TypeOK, Before

(* The iterator does not pass an entry of the map that lies behind it.     *)
LEMMA NextIsAhead ==
  ASSUME IInv, it \in Entries, NEW i \in Entries, Present(i), Before(it, i),
         NEW j, IsNext(j)
  PROVE  j \in Entries /\ ~Before(i, j)
BY IndexFacts DEF IsNext

(* An empty map forgets nothing.                                           *)
LEMMA InitKeep == Init => KeepInv
<1> SUFFICES ASSUME Init PROVE KeepInv
  OBVIOUS
<1>1. IInv
  BY InitIInv
<1>2. Monotone
  BY IndexFacts DEF Init, Monotone
<1>3. Kept
  BY DEF Init, Kept
<1> QED
  BY <1>1, <1>2, <1>3 DEF KeepInv

(* While time is not set back, no step behind Poll's back or of Poll loses *)
(* an alarm.                                                               *)
LEMMA NextKeep ==
  ASSUME KeepInv, [Next]_vars, ~StepBack
  PROVE  KeepInv'
<1>0. IInv /\ IInv' /\ Monotone /\ Kept
  BY NextIInv, SMTT(60) DEF KeepInv
<1> USE <1>0, IndexFacts
<1>1. Monotone'
  BY SMTT(60) DEF Next, vars, Monotone, IInv, TypeOK, Tick, SetAlarm, CancelAlarm,
     PollBegin, PollAtEnd, PollAtFuture, PollDone, PollAtErased, PollFires,
     PollAtUnset, FireReturns
<1>2. ASSUME NEW b \in Alarms, ts'[b] # 0, ts[b] = ts'[b]
      PROVE  \E i \in Entries :
               /\ ptr[i] = b /\ key[i] = ts[b] /\ ~erased[i] /\ Ahead(i)
               /\ Present(i)
  BY <1>2, SMTT(60) DEF Kept, Present
<1>3. Kept'
  <2> SUFFICES ASSUME NEW b \in Alarms, ts'[b] # 0
               PROVE  \E i \in Entries : /\ ptr'[i] = b /\ key'[i] = ts'[b]
                                         /\ ~erased'[i] /\ Ahead(i)'
    BY Zenon DEF Kept
  <2>1. CASE UNCHANGED vars \/ Tick \/ StepBack
    BY <2>1, <1>2, SMTT(60) DEF vars, Tick, StepBack, Ahead, Before
  <2>2. ASSUME NEW a \in Alarms, NEW t \in Times, SetAlarm(a, t)
        PROVE  \E i \in Entries : /\ ptr'[i] = b /\ key'[i] = ts'[b]
                                  /\ ~erased'[i] /\ Ahead(i)'
    <3>1. PICK n \in Entries : n = made + 1 /\ ptr[n] = NoAlarm /\ ~erased[n]
      BY <2>2, SMTT(60) DEF SetAlarm, IInv, TypeOK, Fresh
    <3>2. CASE b = a
      <4>1. ptr'[n] = b /\ key'[n] = ts'[b] /\ ~erased'[n]
        BY <2>2, <3>1, <3>2, Zenon DEF SetAlarm, IInv, TypeOK
      <4>2. ASSUME pc = "fire" PROVE Before(it, n)'
        <5>1. it \in Entries /\ key[it] <= processTs /\ it < n
          BY <4>2, <3>1 DEF IInv, TypeOK, Fresh, PollInv
        <5>2. processTs <= t
          BY <2>2, <4>2 DEF SetAlarm, MinDelay, IInv, TypeOK, Monotone
        <5>3. it' = it /\ key'[n] = t /\ key'[it] = key[it]
          BY <2>2, <3>1, <5>1 DEF SetAlarm, IInv, TypeOK
        <5> QED
          BY <5>1, <5>2, <5>3, SMTT(60) DEF Before, IInv, TypeOK
      <4> QED
        BY <2>2, <4>1, <4>2, Zenon DEF SetAlarm, OwnersRun, Ahead
    <3>3. CASE b # a
      <4>1. ts[b] = ts'[b]
        BY <2>2, <3>3, ZenonT(60) DEF SetAlarm, IInv, TypeOK
      <4>2. PICK i \in Entries : /\ ptr[i] = b /\ key[i] = ts[b] /\ ~erased[i]
                                 /\ Ahead(i) /\ Present(i)
        BY <4>1, <1>2, Zenon
      <4>3. i # n
        BY <3>1, <4>2 DEF Present
      <4>4. ptr'[i] = b /\ key'[i] = ts'[b] /\ ~erased'[i]
        BY <2>2, <3>1, <4>1, <4>2, <4>3, ZenonT(60) DEF SetAlarm, IInv, TypeOK
      <4>5. Ahead(i)'
        BY <2>2, <3>1, <4>2, <4>3, SMTT(60) DEF SetAlarm, Ahead, Before, IInv, TypeOK, PollInv
      <4> QED
        BY <4>4, <4>5, Zenon
    <3> QED
      BY <3>2, <3>3, Zenon
  <2>3. ASSUME NEW a \in Alarms, CancelAlarm(a)
        PROVE  \E i \in Entries : /\ ptr'[i] = b /\ key'[i] = ts'[b]
                                  /\ ~erased'[i] /\ Ahead(i)'
    <3>1. b # a /\ ts[b] = ts'[b]
      BY <2>3, Zenon DEF CancelAlarm, IInv, TypeOK
    <3>2. PICK i \in Entries : /\ ptr[i] = b /\ key[i] = ts[b] /\ ~erased[i]
                               /\ Ahead(i) /\ Present(i)
      BY <3>1, <1>2, Zenon
    <3>3. ptr'[i] = b /\ ~erased'[i]
      BY <2>3, <3>1, <3>2, Zenon DEF CancelAlarm, IsFirstMatch, Matches, IInv, TypeOK
    <3>4. key'[i] = ts'[b] /\ Ahead(i)'
      BY <2>3, <3>1, <3>2, Zenon DEF CancelAlarm, Ahead, Before
    <3> QED
      BY <3>3, <3>4, Zenon
  <2>4. CASE PollBegin
    <3>1. PICK i \in Entries : /\ ptr[i] = b /\ key[i] = ts[b] /\ ~erased[i]
                               /\ Ahead(i) /\ Present(i)
      BY <2>4, <1>2, Zenon DEF PollBegin
    <3> QED
      BY <2>4, <3>1, Zenon DEF PollBegin, IsBegin, Ahead, Before
  <2>5. CASE PollAtEnd
    BY <2>5, <1>2, Zenon DEF PollAtEnd, Ahead
  <2>6. CASE PollAtFuture
    <3>1. PICK i \in Entries : /\ ptr[i] = b /\ key[i] = ts[b] /\ ~erased[i]
                               /\ Ahead(i) /\ Present(i)
      BY <2>6, <1>2, Zenon DEF PollAtFuture
    <3> QED
      BY <2>6, <3>1, Zenon DEF PollAtFuture, PollDone, Ahead
  <2>7. CASE PollAtErased \/ PollAtUnset
    <3>1. PICK i \in Entries : /\ ptr[i] = b /\ key[i] = ts[b] /\ ~erased[i]
                               /\ Ahead(i) /\ Present(i)
      BY <2>7, <1>2, Zenon DEF PollAtErased, PollAtUnset
    <3>2. it \in Entries /\ Before(it, i)
      BY <2>7, <3>1, TotalOrder, ZenonT(60) DEF PollAtErased, PollAtUnset, Ahead, IInv, TypeOK
    <3>3. it' \in Entries /\ ~Before(i, it')
      BY <2>7, <3>1, <3>2, NextIsAhead, Zenon DEF PollAtErased, PollAtUnset
    <3>4. it' # End /\ pc' = "scan"
      BY <2>7, <3>3, Zenon DEF PollAtErased, PollAtUnset
    <3> QED
      BY <2>7, <3>1, <3>3, <3>4, Zenon DEF PollAtErased, PollAtUnset, Ahead, Before
  <2>8. CASE PollFires
    <3>1. b # ptr[it] /\ ts[b] = ts'[b]
      BY <2>8, Zenon DEF PollFires, IInv, TypeOK
    <3>2. PICK i \in Entries : /\ ptr[i] = b /\ key[i] = ts[b] /\ ~erased[i]
                               /\ Ahead(i) /\ Present(i)
      BY <3>1, <1>2, Zenon
    <3>3. it \in Entries /\ Before(it, i)
      BY <2>8, <3>1, <3>2, TotalOrder, Zenon DEF PollFires, Ahead, IInv, TypeOK
    <3> QED
      BY <2>8, <3>1, <3>2, <3>3, Zenon DEF PollFires, Ahead, Before
  <2>9. CASE FireReturns
    <3>1. PICK i \in Entries : /\ ptr[i] = b /\ key[i] = ts[b] /\ ~erased[i]
                               /\ Ahead(i) /\ Present(i)
      BY <2>9, <1>2, Zenon DEF FireReturns
    <3>2. it \in Entries /\ Before(it, i)
      BY <2>9, <3>1, Zenon DEF FireReturns, Ahead, IInv, TypeOK, PollInv
    <3>3. it' \in Entries /\ ~Before(i, it')
      BY <2>9, <3>1, <3>2, NextIsAhead, Zenon DEF FireReturns
    <3> QED
      BY <2>9, <3>1, <3>3, Zenon DEF FireReturns, Ahead, Before
  <2> QED
    BY <2>1, <2>2, <2>3, <2>4, <2>5, <2>6, <2>7, <2>8, <2>9, Zenon DEF Next
<1> QED
  BY <1>1, <1>3 DEF KeepInv

(* KeepInv holds until time is set back.                                   *)
LEMMA SpecKeep == Spec => [](IInv /\ (back = 0 => KeepInv))
<1>1. Init => IInv /\ KeepInv
  BY InitIInv, InitKeep, SMTT(60)
<1>2. ASSUME IInv, [Next]_vars, back' = 0
      PROVE  back = 0 /\ ~StepBack
  <2>1. back \in Nat
    BY <1>2 DEF IInv, TypeOK
  <2>2. ~StepBack
    BY <1>2, <2>1 DEF StepBack
  <2> QED
    BY <1>2, <2>2, Zenon DEF Next, vars, Tick, SetAlarm, CancelAlarm, PollBegin, PollAtEnd,
       PollAtFuture, PollDone, PollAtErased, PollFires, PollAtUnset, FireReturns
<1>3. (IInv /\ (back = 0 => KeepInv)) /\ [Next]_vars
        => (IInv /\ (back = 0 => KeepInv))'
  BY <1>2, NextIInv, NextKeep
<1> QED
  BY <1>1, <1>3, PTL DEF Spec

(* SetAlarm and Poll never lose an alarm, whether it is set between two    *)
(* passes or by a callback of the pass that runs, as long as the time of   *)
(* day is not set back.                                                    *)
THEOREM AlarmNeverLost == Spec => []NoLostAlarm
<1>1. IInv /\ (back = 0 => KeepInv) => NoLostAlarm
  BY DEF KeepInv, NoLostAlarm
<1> QED
  BY <1>1, SpecKeep, PTL

(* Then CancelAlarm always finds the entry it looks for: its ASSERT holds. *)
THEOREM CancelAssertHolds == Spec => []CancelFindsEntry
<1>1. IInv /\ (back = 0 => KeepInv) => CancelFindsEntry
  BY Zenon DEF KeepInv, Kept, CancelFindsEntry, Matches
<1> QED
  BY <1>1, SpecKeep, PTL

----------------------------------------------------------------------------
(* Only entries that this pass will reach, or has reached, are marked.     *)
MarkedIsPast ==
  \A i \in Entries : Present(i) /\ erased[i] => pc # "idle" /\ key[i] <= processTs

(* Poll does not pass an entry of the future.                              *)
FutureIsAhead ==
  \A i \in Entries : Present(i) /\ key[i] > processTs => Ahead(i)

(* A live entry ahead belongs to an alarm that is set for that time.       *)
LiveIsSet ==
  \A i \in Entries : Present(i) /\ ~erased[i] /\ Ahead(i) => ts[ptr[i]] = key[i]

(* An alarm has at most one entry in the past of the pass, and at most one *)
(* in its future.                                                          *)
OnePerSide ==
  \A i, j \in Entries :
    /\ Present(i) /\ Present(j) /\ ptr[i] = ptr[j]
    /\ (key[i] <= processTs) <=> (key[j] <= processTs)
    => i = j

ExactInv == KeepInv /\ MarkedIsPast /\ FutureIsAhead /\ LiveIsSet /\ OnePerSide

(* An empty map has no entry that could be wrong.                          *)
LEMMA InitExact == Init => ExactInv
<1> SUFFICES ASSUME Init PROVE ExactInv
  OBVIOUS
<1>1. \A i \in Entries : ~Present(i)
  BY SMTT(60) DEF Init, Present
<1> QED
  BY <1>1, InitKeep, Zenon DEF ExactInv, MarkedIsPast, FutureIsAhead, LiveIsSet, OnePerSide

(* Time passing leaves the entries alone.                                  *)
LEMMA TickExact ==
  ASSUME ExactInv, Tick \/ UNCHANGED vars
  PROVE  /\ MarkedIsPast' /\ FutureIsAhead' /\ LiveIsSet' /\ OnePerSide'
<1>1. UNCHANGED <<ts, made, ptr, key, erased, pc, it, processTs>>
  BY DEF Tick, vars
<1>2. \A i \in Entries : (Present(i)' <=> Present(i)) /\ (Ahead(i)' <=> Ahead(i))
  BY <1>1 DEF Present, Ahead, Before
<1>3. MarkedIsPast'
  BY <1>1, <1>2, Zenon DEF ExactInv, MarkedIsPast
<1>4. FutureIsAhead'
  BY <1>1, <1>2 DEF ExactInv, FutureIsAhead
<1>5. LiveIsSet'
  BY <1>1, <1>2, Zenon DEF ExactInv, LiveIsSet
<1>6. OnePerSide'
  BY <1>1, <1>2, Zenon DEF ExactInv, OnePerSide
<1> QED
  BY <1>3, <1>4, <1>5, <1>6

(* SetAlarm makes the only entry of its alarm on its side.                 *)
LEMMA SetAlarmExact ==
  ASSUME delayed, ExactInv, NEW a \in Alarms, NEW t \in Times, SetAlarm(a, t)
  PROVE  /\ MarkedIsPast' /\ FutureIsAhead' /\ LiveIsSet' /\ OnePerSide'
<1> USE IndexFacts DEF ExactInv, KeepInv, IInv
<1>1. PICK n \in Entries :
        /\ n = made + 1 /\ ptr[n] = NoAlarm /\ ~erased[n]
        /\ ptr' = [ptr EXCEPT ![n] = a] /\ key' = [key EXCEPT ![n] = t]
  <2>1. /\ made + 1 \in Entries
        /\ ptr' = [ptr EXCEPT ![made + 1] = a]
        /\ key' = [key EXCEPT ![made + 1] = t]
    BY Zenon DEF SetAlarm, TypeOK
  <2>2. ptr[made + 1] = NoAlarm /\ ~erased[made + 1]
    BY <2>1 DEF TypeOK, Fresh
  <2> QED
    BY <2>1, <2>2, Zenon
<1>2. /\ ptr'[n] = a /\ key'[n] = t /\ ts'[a] = t /\ erased' = erased
      /\ \A i \in Entries : i # n => ptr'[i] = ptr[i] /\ key'[i] = key[i]
      /\ \A b \in Alarms : b # a => ts'[b] = ts[b]
  BY <1>1, ZenonT(60) DEF SetAlarm, TypeOK
<1>3. t > processTs
  BY DEF SetAlarm, OwnersRun, TypeOK, PollInv, Monotone, MinDelay
<1>4. /\ UNCHANGED <<pc, it, processTs>> /\ pc \in {"idle", "fire"} /\ it # n
      /\ it # End => it \in Entries
  BY <1>1, Zenon DEF SetAlarm, OwnersRun, TypeOK, PollInv
<1>5. \A i \in Entries : i # n =>
        /\ Present(i)' <=> Present(i)
        /\ Ahead(i)' <=> Ahead(i)
  BY <1>2, <1>4, Zenon DEF Present, Ahead, Before, PollInv
<1>6. ASSUME NEW i \in Entries, ptr[i] = a, key[i] > processTs
      PROVE  FALSE
  <2>1. Present(i) /\ ~erased[i] /\ Ahead(i)
    BY <1>6, SMTT(60) DEF Present, MarkedIsPast, FutureIsAhead, TypeOK
  <2>2. ts[a] = key[i]
    BY <1>6, <2>1, Zenon DEF LiveIsSet
  <2> QED
    BY <1>6, <2>2 DEF SetAlarm, TypeOK
<1>7. Ahead(n)'
  BY <1>1, <1>2, <1>3, <1>4, SMTT(60) DEF Ahead, Before, PollInv, TypeOK
<1>8. MarkedIsPast'
  BY <1>1, <1>2, <1>4, <1>5, Zenon DEF MarkedIsPast
<1>9. FutureIsAhead'
  BY <1>1, <1>2, <1>4, <1>5, <1>7, Zenon DEF FutureIsAhead
<1>10. LiveIsSet'
  <2> SUFFICES ASSUME NEW i \in Entries, i # n, Present(i), ~erased[i], Ahead(i)
               PROVE  ts'[ptr'[i]] = key'[i]
    BY <1>1, <1>2, <1>5, <1>7, Zenon DEF LiveIsSet
  <2>1. ts[ptr[i]] = key[i] /\ ptr[i] \in Alarms /\ key[i] # 0
    BY Zenon DEF LiveIsSet, Present, TypeOK, KeyTime
  <2>2. ptr[i] # a
    BY <2>1, Zenon DEF SetAlarm
  <2> QED
    BY <1>2, <2>1, <2>2, Zenon
<1>11. OnePerSide'
  BY <1>1, <1>2, <1>3, <1>4, <1>5, <1>6, SMTT(60) DEF OnePerSide, TypeOK
<1> QED
  BY <1>8, <1>9, <1>10, <1>11

(* CancelAlarm hits the one live entry of its alarm.                       *)
LEMMA CancelAlarmExact ==
  ASSUME ExactInv, NEW a \in Alarms, CancelAlarm(a)
  PROVE  /\ MarkedIsPast' /\ FutureIsAhead' /\ LiveIsSet' /\ OnePerSide'
<1>1. /\ MarkedIsPast /\ FutureIsAhead /\ LiveIsSet /\ OnePerSide
      /\ TypeOK /\ PollInv
  BY DEF ExactInv, KeepInv, IInv
<1>2. processTs \in Nat /\ ts[a] \in Nat
  BY <1>1, IndexFacts, Zenon DEF TypeOK
<1>3. UNCHANGED <<pc, it, processTs, key>> /\ ts' = [ts EXCEPT ![a] = 0]
  BY DEF CancelAlarm
<1>4. \A i \in Entries : Ahead(i)' <=> Ahead(i)
  BY <1>3 DEF Ahead, Before
<1>5. \A i \in Entries : Present(i)' => Present(i) /\ ptr'[i] = ptr[i]
  BY <1>1, Zenon DEF CancelAlarm, TypeOK, Present
<1>6. \A i \in Entries : erased[i] => erased'[i]
  BY <1>1, Zenon DEF CancelAlarm, TypeOK
<1>7. \A i \in Entries :
        erased'[i] => erased[i] \/ (key[i] = ts[a] /\ processTs # 0 /\ ts[a] <= processTs)
  BY <1>1, <1>2, Zenon DEF CancelAlarm, TypeOK, IsFirstMatch, Matches
<1>8. Matches(a) # {} => \E f \in Matches(a) : ptr'[f] = NoAlarm \/ erased'[f]
  BY <1>1, Zenon DEF CancelAlarm, TypeOK, IsFirstMatch, Matches
<1>9. MarkedIsPast'
  BY <1>1, <1>3, <1>5, <1>7, Zenon DEF MarkedIsPast, PollInv
<1>10. FutureIsAhead'
  BY <1>1, <1>3, <1>4, <1>5, Zenon DEF FutureIsAhead
<1>11. OnePerSide'
  BY <1>1, <1>3, <1>5, Zenon DEF OnePerSide
<1>12. LiveIsSet'
  <2> SUFFICES ASSUME NEW i \in Entries, Present(i)', ~erased'[i], Ahead(i)'
               PROVE  ts'[ptr'[i]] = key'[i]
    BY Zenon DEF LiveIsSet
  <2>1. Present(i) /\ ptr'[i] = ptr[i] /\ ~erased[i] /\ Ahead(i)
    BY <1>4, <1>5, <1>6, Zenon
  <2>2. ts[ptr[i]] = key[i] /\ ptr[i] \in Alarms
    BY <1>1, <2>1, Zenon DEF LiveIsSet, Present, TypeOK
  <2>3. ASSUME ptr[i] = a PROVE FALSE
    <3>1. i \in Matches(a)
      BY <2>2, <2>3, Zenon DEF Matches
    <3>2. PICK f \in Matches(a) : ptr'[f] = NoAlarm \/ erased'[f]
      BY <1>8, <3>1, Zenon
    <3>3. f \in Entries /\ ptr[f] = ptr[i] /\ key[f] = key[i] /\ Present(f)
      BY <2>1, <2>2, <2>3, <3>2, Zenon DEF Matches, Present
    <3>4. f = i
      BY <1>1, <2>1, <3>3, Zenon DEF OnePerSide
    <3> QED
      BY <3>2, <3>4, Zenon DEF Present
  <2> QED
    BY <1>1, <1>3, <2>1, <2>2, <2>3, Zenon DEF TypeOK
<1> QED
  BY <1>9, <1>10, <1>11, <1>12

(* When Poll starts, no entry is marked and each alarm has one at most.    *)
LEMMA PollBeginExact ==
  ASSUME ExactInv, PollBegin
  PROVE  /\ MarkedIsPast' /\ FutureIsAhead' /\ LiveIsSet' /\ OnePerSide'
<1> USE IndexFacts DEF ExactInv, KeepInv, IInv
<1>1. /\ UNCHANGED <<ts, ptr, key, erased>> /\ pc = "idle" /\ processTs = 0
      /\ \A i \in Entries : Ahead(i)
  BY Zenon DEF PollBegin, PollInv, Ahead
<1>2. \A i \in Entries : Present(i) => ~erased[i] /\ key[i] > 0
  BY <1>1 DEF MarkedIsPast, KeyTime, Present
<1>3. \A i \in Entries : Present(i)' <=> Present(i)
  BY <1>1 DEF Present
<1>4. \A i \in Entries : Present(i) => Ahead(i)'
  BY Zenon DEF PollBegin, IsBegin, Ahead, Before
<1>5. MarkedIsPast' /\ FutureIsAhead'
  BY <1>1, <1>2, <1>3, <1>4 DEF MarkedIsPast, FutureIsAhead
<1>6. LiveIsSet'
  BY <1>1, <1>2, <1>3, Zenon DEF LiveIsSet
<1>7. OnePerSide'
  BY <1>1, <1>2, <1>3, SMTT(60) DEF OnePerSide, TypeOK
<1> QED
  BY <1>5, <1>6, <1>7, Zenon

(* When Poll is over, only entries of the future are left.                 *)
LEMMA PollEndExact ==
  ASSUME ExactInv, PollAtEnd \/ PollAtFuture
  PROVE  /\ MarkedIsPast' /\ FutureIsAhead' /\ LiveIsSet' /\ OnePerSide'
<1> USE IndexFacts DEF ExactInv, KeepInv, IInv
<1>1. /\ UNCHANGED <<ts, key, erased>> /\ pc = "scan" /\ pc' = "idle"
      /\ processTs' = 0
  BY DEF PollAtEnd, PollAtFuture, PollDone
<1>2. ASSUME NEW i \in Entries, Present(i)'
      PROVE  /\ Present(i) /\ ptr'[i] = ptr[i] /\ key[i] > processTs
             /\ Ahead(i) /\ ~erased[i]
  <2>1. Present(i) /\ ptr'[i] = ptr[i] /\ key[i] > processTs
    BY <1>2, SMTT(60) DEF PollAtEnd, PollAtFuture, Present, Before, TypeOK
  <2> QED
    BY <2>1 DEF FutureIsAhead, MarkedIsPast, TypeOK
<1>3. MarkedIsPast' /\ FutureIsAhead'
  BY <1>1, <1>2, Zenon DEF MarkedIsPast, FutureIsAhead, Ahead
<1>4. LiveIsSet'
  BY <1>1, <1>2, Zenon DEF LiveIsSet
<1>5. OnePerSide'
  BY <1>1, <1>2, SMTT(60) DEF OnePerSide, TypeOK
<1> QED
  BY <1>3, <1>4, <1>5

(* When the iterator moves on, all it leaves behind is past.               *)
LEMMA PollMovesExact ==
  ASSUME ExactInv, PollAtErased \/ PollAtUnset \/ FireReturns
  PROVE  /\ MarkedIsPast' /\ FutureIsAhead' /\ LiveIsSet' /\ OnePerSide'
<1> USE IndexFacts DEF ExactInv, KeepInv, IInv
<1>1. /\ UNCHANGED <<ts, ptr, key, erased, processTs>> /\ pc # "idle" /\ pc' = "scan"
      /\ it \in Entries /\ key[it] <= processTs /\ IsNext(it')
  BY Zenon DEF PollAtErased, PollAtUnset, FireReturns, PollInv, TypeOK
<1>2. \A i \in Entries : Present(i)' <=> Present(i)
  BY <1>1 DEF Present
<1>3. \A i \in Entries : Present(i) /\ Before(it, i) => Ahead(i)'
  BY <1>1, NextIsAhead, SMTT(60) DEF Ahead, Before
<1>4. \A i \in Entries : Present(i) /\ Ahead(i)' => Ahead(i)
  <2> SUFFICES ASSUME NEW i \in Entries, Present(i), Ahead(i)' PROVE Ahead(i)
    OBVIOUS
  <2>1. it' \in Entries /\ Before(it, it') /\ ~Before(i, it')
    BY <1>1, Zenon DEF IsNext, Ahead, Before
  <2>2. Before(it, i)
    BY <1>1, <2>1, SMTT(60) DEF Before, TypeOK
  <2> QED
    BY <1>1, <2>2, TotalOrder, Zenon DEF Ahead, TypeOK
<1>5. MarkedIsPast'
  BY <1>1, <1>2, SMTT(60) DEF MarkedIsPast
<1>6. FutureIsAhead'
  BY <1>1, <1>2, <1>3, SMTT(60) DEF FutureIsAhead, Before, TypeOK
<1>7. LiveIsSet'
  BY <1>1, <1>2, <1>4, Zenon DEF LiveIsSet
<1>8. OnePerSide'
  BY <1>1, <1>2, Zenon DEF OnePerSide
<1> QED
  BY <1>5, <1>6, <1>7, <1>8, SMTT(60)

(* When an alarm fires, no other live entry of it lies ahead.              *)
LEMMA PollFiresExact ==
  ASSUME ExactInv, PollFires
  PROVE  /\ MarkedIsPast' /\ FutureIsAhead' /\ LiveIsSet' /\ OnePerSide'
<1> USE IndexFacts DEF ExactInv, KeepInv, IInv
<1>1. /\ UNCHANGED <<ptr, key, erased, processTs, it>> /\ pc = "scan" /\ pc' = "fire"
      /\ it \in Entries /\ key[it] <= processTs /\ Present(it) /\ ~erased[it]
      /\ ptr[it] \in Alarms
  BY Zenon DEF PollFires, PollInv, TypeOK, Present
<1>2. \A i \in Entries : Present(i)' <=> Present(i)
  BY <1>1, SMTT(60) DEF Present
<1>3. \A i \in Entries : Ahead(i)' <=> Ahead(i) /\ i # it
  BY <1>1, TotalOrder, SMTT(60) DEF Ahead, Before, TypeOK
<1>4. ts[ptr[it]] = key[it]
  BY <1>1, TotalOrder, Zenon DEF LiveIsSet, Ahead
<1>5. MarkedIsPast' /\ OnePerSide'
  BY <1>1, <1>2, Zenon DEF MarkedIsPast, OnePerSide
<1>6. FutureIsAhead'
  BY <1>1, <1>2, <1>3, SMTT(60) DEF FutureIsAhead, TypeOK
<1>7. LiveIsSet'
  <2> SUFFICES ASSUME NEW i \in Entries, Present(i), ~erased[i], Ahead(i), i # it
               PROVE  ts'[ptr[i]] = key[i]
    BY <1>1, <1>2, <1>3, Zenon DEF LiveIsSet
  <2>1. ts[ptr[i]] = key[i] /\ ptr[i] \in Alarms
    BY Zenon DEF LiveIsSet, Present, TypeOK
  <2>2. ptr[i] # ptr[it]
    BY <1>1, <1>4, <2>1, Zenon DEF OnePerSide
  <2> QED
    BY <2>1, <2>2, Zenon DEF PollFires, TypeOK
<1> QED
  BY <1>5, <1>6, <1>7

(* Every step keeps the entries exact.                                     *)
LEMMA NextExact ==
  ASSUME delayed, ExactInv, [Next]_vars, ~StepBack
  PROVE  ExactInv'
<1>1. KeepInv'
  BY NextKeep DEF ExactInv
<1>2. MarkedIsPast' /\ FutureIsAhead' /\ LiveIsSet' /\ OnePerSide'
  BY TickExact, SetAlarmExact, CancelAlarmExact, PollBeginExact,
     PollEndExact, PollMovesExact, PollFiresExact DEF Next
<1> QED
  BY <1>1, <1>2 DEF ExactInv

(* Until time is set back, and if callbacks set deadlines of the future    *)
(* only, ExactInv holds.                                                   *)
LEMMA SpecExact == Spec => [](IInv /\ (Reliable => ExactInv))
<1>1. Init => IInv /\ (Reliable => ExactInv)
  BY InitIInv, InitExact, SMTT(60)
<1>2. ASSUME IInv, [Next]_vars, Reliable'
      PROVE  Reliable /\ ~StepBack
  <2>1. back \in Nat /\ back' = 0
    BY <1>2 DEF IInv, TypeOK, Reliable
  <2>2. ~StepBack
    BY <2>1 DEF StepBack
  <2> QED
    BY <1>2, <2>2, Zenon DEF Reliable, Next, vars, Tick, SetAlarm, CancelAlarm, PollBegin,
       PollAtEnd, PollAtFuture, PollDone, PollAtErased, PollFires, PollAtUnset, FireReturns
<1>3. (IInv /\ (Reliable => ExactInv)) /\ [Next]_vars
        => (IInv /\ (Reliable => ExactInv))'
  BY <1>2, NextIInv, NextExact DEF Reliable
<1> QED
  BY <1>1, <1>3, PTL DEF Spec

(* Between two passes alarm_map_ holds no pointer to an alarm that is not  *)
(* set, so an owner may delete one it has cancelled or that has fired, as  *)
(* long as time is not set back and callbacks set deadlines of the future. *)
THEOREM NoEntryDangles == Spec => []NoDanglingEntry
<1>1. (Reliable => ExactInv) => NoDanglingEntry
  <2> SUFFICES ASSUME ExactInv, pc = "idle", NEW i \in Entries, Present(i)
               PROVE  ts[ptr[i]] # 0
    BY Zenon DEF NoDanglingEntry
  <2> QED
    BY IndexFacts, ZenonT(60) DEF ExactInv, KeepInv, IInv, KeyTime, MarkedIsPast, LiveIsSet,
       Present, Ahead
<1> QED
  BY <1>1, SpecExact, PTL

(* Under the same conditions Poll invokes no alarm before its deadline.    *)
THEOREM NeverEarly == Spec => NoEarlyFire
<1>1. (Reliable => ExactInv) /\ [Next]_vars =>
        [(Reliable /\ pc = "scan" /\ pc' = "fire") => (ts[ptr[it]] <= processTs)]_vars
  <2> SUFFICES ASSUME ExactInv, Next, pc = "scan", pc' = "fire"
               PROVE  ts[ptr[it]] <= processTs
    BY Zenon DEF vars
  <2>1. PollFires
    BY Zenon DEF Next, Tick, StepBack, SetAlarm, CancelAlarm, PollBegin, PollAtEnd,
       PollAtFuture, PollDone, PollAtErased, PollAtUnset, FireReturns
  <2>2. it \in Entries /\ Present(it) /\ ~erased[it] /\ Ahead(it)
    BY <2>1, TotalOrder, Zenon DEF PollFires, ExactInv, KeepInv, IInv, TypeOK, PollInv,
       Present, Ahead
  <2> QED
    BY <2>1, <2>2, Zenon DEF PollFires, ExactInv, LiveIsSet
<1> QED
  BY <1>1, SpecExact, PTL DEF Spec, NoEarlyFire

(* Owners leave the entry alone whose callback runs: a new entry is in a   *)
(* place of its own, and CancelAlarm erases entries of the future only.    *)
LEMMA OwnersKeepRunning ==
  ASSUME IInv, NEW a \in Alarms, CancelAlarm(a) \/ \E t \in Times : SetAlarm(a, t)
  PROVE  Running' = Running
<1>1. pc' = pc /\ it' = it
  BY Zenon DEF CancelAlarm, SetAlarm
<1>2. ASSUME pc = "fire" PROVE ptr'[it] = ptr[it]
  <2>1. it \in Entries /\ ptr[it] # NoAlarm /\ key[it] <= processTs /\ processTs # 0
    BY <1>2, IndexFacts, Zenon DEF IInv, TypeOK, PollInv
  <2>2. ASSUME NEW t \in Times, SetAlarm(a, t) PROVE ptr'[it] = ptr[it]
    <3>1. made \in 0 .. MaxSets /\ made < MaxSets /\ ptr' = [ptr EXCEPT ![made + 1] = a]
      BY <2>2 DEF SetAlarm, IInv, TypeOK
    <3>2. made + 1 \in Entries /\ made + 1 > made
      BY <3>1, IndexFacts
    <3>3. it # made + 1
      BY <2>1, <3>2, Zenon DEF IInv, Fresh
    <3> QED
      BY <2>1, <3>1, <3>2, <3>3, Zenon DEF IInv, TypeOK
  <2>3. CASE CancelAlarm(a)
    <3>1. CASE ptr' = ptr
      BY <3>1
    <3>2. ASSUME NEW i \in Entries, IsFirstMatch(a, i), processTs = 0 \/ processTs < ts[a],
                 ptr' = [ptr EXCEPT ![i] = NoAlarm]
          PROVE  ptr'[it] = ptr[it]
      <4>1. key[i] = ts[a]
        BY <3>2, Zenon DEF IsFirstMatch, Matches
      <4>2. processTs \in Nat /\ key[i] \in Nat /\ key[it] \in Nat
        BY <2>1, IndexFacts, Zenon DEF IInv, TypeOK
      <4>3. i # it
        BY <2>1, <3>2, <4>1, <4>2
      <4> QED
        BY <2>1, <3>2, <4>3, Zenon DEF IInv, TypeOK
    <3> QED
      BY <2>3, <3>1, <3>2, Zenon DEF CancelAlarm
  <2> QED
    BY <2>2, <2>3, Zenon
<1> QED
  BY <1>1, <1>2, Zenon DEF Running

(* The map, Poll and the owners' side of it implement AlarmService: while  *)
(* the loop is reliable it invokes OnAlarm only for an alarm that is set   *)
(* and due and clears its deadline by that, never for one that was         *)
(* cancelled or too early, and one callback returns before the next.       *)
THEOREM LoopImplementsService == Spec => Service!Spec
<1>1. Init => Service!Init
  BY DEF Init, Service!Init, Times, Reliable, Running
<1>2. (Reliable => ExactInv) /\ IInv /\ [Next]_vars => [Service!Next]_(Service!vars)
  <2> SUFFICES ASSUME Reliable => ExactInv, IInv, [Next]_vars, Reliable'
               PROVE  [Service!Next]_(Service!vars)
    BY Zenon DEF Service!Next, Service!Unreliable
  <2>0. Reliable /\ ~StepBack /\ ExactInv
    <3>1. back \in Nat /\ back' = 0
      BY DEF IInv, TypeOK, Reliable
    <3>2. ~StepBack
      BY <3>1 DEF StepBack
    <3> QED
      BY <3>2, Zenon DEF Reliable, Next, vars, Tick, SetAlarm, CancelAlarm, PollBegin, PollAtEnd,
         PollAtFuture, PollDone, PollAtErased, PollFires, PollAtUnset, FireReturns
  <2>1. CASE UNCHANGED vars
    BY <2>1, Zenon DEF vars, Service!vars, Reliable, Running
  <2>2. CASE Tick
    BY <2>2, Zenon DEF Tick, Service!Next, Service!Tick, Reliable, Running
  <2>3. ASSUME NEW a \in Alarms, NEW t \in Times, SetAlarm(a, t)
        PROVE  Service!Next
    <3>1. Running' = Running
      BY <2>3, OwnersKeepRunning, Zenon
    <3> QED
      BY <2>3, <3>1, Zenon DEF SetAlarm, Service!Next, Service!Set, Times, Reliable
  <2>4. ASSUME NEW a \in Alarms, CancelAlarm(a)
        PROVE  Service!Next
    <3>1. Running' = Running
      BY <2>4, OwnersKeepRunning, Zenon
    <3> QED
      BY <2>4, <3>1, ZenonT(60) DEF CancelAlarm, Service!Next, Service!Cancel, Reliable
  <2>5. CASE PollFires
    <3>1. it \in Entries /\ Present(it) /\ ~erased[it] /\ Ahead(it) /\ ptr[it] \in Alarms
      BY <2>0, <2>5, TotalOrder, Zenon DEF PollFires, ExactInv, KeepInv, IInv, TypeOK, PollInv,
         Present, Ahead
    <3>2. ts[ptr[it]] <= now
      BY <2>0, <2>5, <3>1, IndexFacts, SMTT(60) DEF PollFires, ExactInv, LiveIsSet, KeepInv,
         Monotone, IInv, TypeOK
    <3>3. Running = NoAlarm /\ Running' = ptr[it]
      BY <2>5, Zenon DEF PollFires, Running
    <3> QED
      BY <2>0, <2>5, <3>1, <3>2, <3>3, Zenon DEF PollFires, Service!Next, Service!Fire, Reliable
  <2>6. CASE PollBegin \/ PollAtEnd \/ PollAtFuture \/ PollAtErased \/ PollAtUnset
    <3>1. Running' = NoAlarm /\ Running = NoAlarm
      BY <2>6, Zenon DEF PollBegin, PollAtEnd, PollAtFuture, PollDone, PollAtErased, PollAtUnset,
         Running
    <3> QED
      BY <2>6, <3>1, Zenon DEF PollBegin, PollAtEnd, PollAtFuture, PollAtErased, PollAtUnset,
         Service!vars, Reliable
  <2>7. CASE FireReturns
    <3>1. Running' = NoAlarm /\ Running # NoAlarm
      BY <2>7, Zenon DEF FireReturns, Running, IInv, PollInv
    <3> QED
      BY <2>7, <3>1, Zenon DEF FireReturns, Service!Next, Service!Return, Reliable
  <2> QED
    BY <2>0, <2>1, <2>2, <2>3, <2>4, <2>5, <2>6, <2>7, Zenon DEF Next
<1> QED
  BY <1>1, <1>2, SpecExact, PTL DEF Spec, Service!Spec
=============================================================================
