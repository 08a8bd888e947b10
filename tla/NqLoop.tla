------------------------------- MODULE NqLoop -------------------------------
(***************************************************************************)
(* The alarms of a loop: alarm_map_, SetAlarm, CancelAlarm and Poll of     *)
(* NqLoop (src/core/nq_loop.cpp) under the owners' side of it, NqQuicAlarm *)
(* (src/core/nq_alarm.h) on top of QuicAlarm.                              *)
(*                                                                         *)
(* Poll walks the multimap with an iterator while the callbacks it invokes *)
(* set and cancel alarms in the same map.  Entries are numbered in the     *)
(* order they are inserted: a multimap keeps them ordered by key, and by   *)
(* insertion within a key, so an iterator is the number of an entry.       *)
(***************************************************************************)
EXTENDS Naturals

CONSTANTS
  Alarms,     \* the alarm objects
  NoAlarm,    \* no alarm object
  MaxSets,    \* bound: the entries ever inserted
  MaxTime,    \* bound: the last instant
  StepsBack   \* bound: how often the time of day is set back

ASSUME AlarmsAssumption == NoAlarm \notin Alarms
ASSUME BoundsAssumption ==
  MaxSets \in Nat /\ MaxTime \in Nat \ {0} /\ StepsBack \in Nat

Entries == 1 .. MaxSets
End == 0            \* alarm_map_.end()
Times == 1 .. MaxTime

VARIABLES
  delayed,    \* whether callbacks set deadlines of the future only
  now,        \* the time of day (gettimeofday)
  back,       \* how often it was set back
  ts,         \* timeout_in_us_ of an alarm whose deadline_ is set, else 0
  made,       \* how many entries were inserted so far
  ptr,        \* ptr_ of an entry, NoAlarm when it is not in the map
  key,        \* the key of an entry
  erased,     \* erased_ of an entry
  pc,         \* Poll: not running, at the top of the loop, in a callback
  it,         \* the iterator of Poll
  processTs,  \* alarm_process_us_ts_
  fires       \* approx_now_in_usec_ - alarm_process_us_ts_ during Poll

vars == <<delayed, now, back, ts, made, ptr, key, erased, pc, it, processTs, fires>>

----------------------------------------------------------------------------
Present(i) == ptr[i] # NoAlarm

(* The order of the multimap.                                              *)
Before(i, j) == key[i] < key[j] \/ (key[i] = key[j] /\ i < j)

(* A faulty variant: on to the next key.                                   *)
IsNextKey(j) ==
  \/ /\ j \in Entries /\ Present(j) /\ key[it] < key[j]
     /\ \A k \in Entries : Present(k) /\ key[it] < key[k] => ~Before(k, j)
  \/ /\ j = End
     /\ \A k \in Entries : Present(k) => key[k] <= key[it]

(* j is where ++it goes from it, on the map as it is.                      *)
IsNext(j) ==
  \/ /\ j \in Entries /\ Present(j) /\ Before(it, j)
     /\ \A k \in Entries : Present(k) /\ Before(it, k) => ~Before(k, j)
  \/ /\ j = End
     /\ \A k \in Entries : Present(k) => ~Before(it, k)

IsBegin(j) ==
  \/ /\ j \in Entries /\ Present(j)
     /\ \A k \in Entries : Present(k) => ~Before(k, j)
  \/ /\ j = End
     /\ \A k \in Entries : ~Present(k)

(* Owners run outside Poll (the other parts of the loop) or in a callback. *)
OwnersRun == pc \in {"idle", "fire"}

Init ==
  /\ delayed \in BOOLEAN
  /\ now \in Times
  /\ back = 0
  /\ ts = [a \in Alarms |-> 0]
  /\ made = 0
  /\ ptr = [i \in Entries |-> NoAlarm]
  /\ key = [i \in Entries |-> 0]
  /\ erased = [i \in Entries |-> FALSE]
  /\ pc = "idle"
  /\ it = End
  /\ processTs = 0
  /\ fires = 0

----------------------------------------------------------------------------
(* Time passes; an operator or a time service may set it back.             *)
Tick ==
  /\ now < MaxTime
  /\ now' = now + 1
  /\ UNCHANGED <<delayed, back, ts, made, ptr, key, erased, pc, it, processTs, fires>>

StepBack ==
  /\ back < StepsBack
  /\ back' = back + 1
  /\ now' \in 1 .. (now - 1)
  /\ UNCHANGED <<delayed, ts, made, ptr, key, erased, pc, it, processTs, fires>>

(* QuicAlarm::Set and SetAlarm.  In a callback deadlines are taken from    *)
(* ApproximateNow (QUIC) or from the time of day (NqAlarmBase).            *)
MinDelay == IF delayed THEN 1 ELSE 0

SetAlarm(a, t) ==
  /\ OwnersRun
  /\ made < MaxSets
  /\ ts[a] = 0
  /\ pc = "fire" => t >= processTs + fires + MinDelay \/ t >= now + MinDelay
  /\ ts' = [ts EXCEPT ![a] = t]
  /\ made' = made + 1
  /\ ptr' = [ptr EXCEPT ![made + 1] = a]
  /\ key' = [key EXCEPT ![made + 1] = t]
  /\ UNCHANGED <<delayed, now, back, erased, pc, it, processTs, fires>>

(* The entries CancelAlarm looks through, and the one it stops at.         *)
Matches(a) == {i \in Entries : ptr[i] = a /\ key[i] = ts[a]}
IsFirstMatch(a, i) == i \in Matches(a) /\ \A j \in Matches(a) : i <= j

(* A faulty variant: the entry is always erased.                           *)
CancelAlarmErases(a) ==
  /\ OwnersRun
  /\ ts[a] # 0
  /\ ts' = [ts EXCEPT ![a] = 0]
  /\ \/ \E i \in Entries :
          /\ IsFirstMatch(a, i)
          /\ ptr' = [ptr EXCEPT ![i] = NoAlarm]
     \/ Matches(a) = {} /\ ptr' = ptr
  /\ UNCHANGED <<delayed, now, back, made, key, erased, pc, it, processTs, fires>>

(* A faulty variant: during Poll every entry is only marked.               *)
CancelAlarmMarks(a) ==
  /\ OwnersRun
  /\ ts[a] # 0
  /\ ts' = [ts EXCEPT ![a] = 0]
  /\ \/ \E i \in Entries :
          /\ IsFirstMatch(a, i)
          /\ \/ processTs = 0 /\ ptr' = [ptr EXCEPT ![i] = NoAlarm] /\ erased' = erased
             \/ processTs # 0 /\ erased' = [erased EXCEPT ![i] = TRUE] /\ ptr' = ptr
     \/ Matches(a) = {} /\ UNCHANGED <<ptr, erased>>
  /\ UNCHANGED <<delayed, now, back, made, key, pc, it, processTs, fires>>

(* QuicAlarm::Cancel and CancelAlarm: an entry Poll may stand at, or has   *)
(* still to come to in this pass, is only marked.                          *)
CancelAlarm(a) ==
  /\ OwnersRun
  /\ ts[a] # 0
  /\ ts' = [ts EXCEPT ![a] = 0]
  /\ \/ \E i \in Entries :
          /\ IsFirstMatch(a, i)
          /\ \/ /\ processTs = 0 \/ processTs < ts[a]
                /\ ptr' = [ptr EXCEPT ![i] = NoAlarm]
                /\ erased' = erased
             \/ /\ processTs # 0 /\ processTs >= ts[a]
                /\ erased' = [erased EXCEPT ![i] = TRUE]
                /\ ptr' = ptr
     \/ /\ Matches(a) = {}       \* ASSERT(false)
        /\ UNCHANGED <<ptr, erased>>
  /\ UNCHANGED <<delayed, now, back, made, key, pc, it, processTs, fires>>

----------------------------------------------------------------------------
(* Poll reads the clock and takes begin().                                 *)
PollBegin ==
  /\ pc = "idle"
  /\ pc' = "scan"
  /\ processTs' = now
  /\ fires' = 0
  /\ \E j \in Entries \cup {End} : IsBegin(j) /\ it' = j
  /\ UNCHANGED <<delayed, now, back, ts, made, ptr, key, erased>>

PollDone ==
  /\ pc' = "idle"
  /\ it' = End
  /\ processTs' = 0
  /\ fires' = 0

(* end() is reached: clear.                                                *)
PollAtEnd ==
  /\ pc = "scan" /\ it = End
  /\ ptr' = [i \in Entries |-> NoAlarm]
  /\ PollDone
  /\ UNCHANGED <<delayed, now, back, ts, made, key, erased>>

(* The first entry of the future is reached: erase all before it.          *)
PollAtFuture ==
  /\ pc = "scan" /\ it # End
  /\ key[it] > processTs
  /\ ptr' = [i \in Entries |-> IF Before(i, it) THEN NoAlarm ELSE ptr[i]]
  /\ PollDone
  /\ UNCHANGED <<delayed, now, back, ts, made, key, erased>>

PollAtErased ==
  /\ pc = "scan" /\ it # End
  /\ key[it] <= processTs
  /\ erased[it]
  /\ \E j \in Entries \cup {End} : IsNext(j) /\ it' = j
  /\ UNCHANGED <<delayed, now, back, ts, made, ptr, key, erased, pc, processTs, fires>>

(* A faulty variant: an entry is taken to be due one instant too soon.     *)
PollFiresEarly ==
  /\ pc = "scan" /\ it # End
  /\ key[it] <= processTs + 1
  /\ ~erased[it]
  /\ ts[ptr[it]] # 0
  /\ pc' = "fire"
  /\ ts' = [ts EXCEPT ![ptr[it]] = 0]
  /\ UNCHANGED <<delayed, now, back, made, ptr, key, erased, it, processTs, fires>>

(* OnFire is QuicAlarm::Fire: OnAlarm runs with the deadline cleared.      *)
PollFires ==
  /\ pc = "scan" /\ it # End
  /\ key[it] <= processTs
  /\ ~erased[it]
  /\ ts[ptr[it]] # 0
  /\ pc' = "fire"
  /\ ts' = [ts EXCEPT ![ptr[it]] = 0]
  /\ UNCHANGED <<delayed, now, back, made, ptr, key, erased, it, processTs, fires>>

(* QuicAlarm::Fire of an alarm that is not set returns at once.            *)
PollAtUnset ==
  /\ pc = "scan" /\ it # End
  /\ key[it] <= processTs
  /\ ~erased[it]
  /\ ts[ptr[it]] = 0
  /\ fires' = fires + 1
  /\ \E j \in Entries \cup {End} : IsNext(j) /\ it' = j
  /\ UNCHANGED <<delayed, now, back, ts, made, ptr, key, erased, pc, processTs>>

(* OnFire returns: it++.                                                   *)
FireReturns ==
  /\ pc = "fire"
  /\ pc' = "scan"
  /\ fires' = fires + 1
  /\ \E j \in Entries \cup {End} : IsNext(j) /\ it' = j
  /\ UNCHANGED <<delayed, now, back, ts, made, ptr, key, erased, processTs>>

Poll ==
  \/ PollBegin \/ PollAtEnd \/ PollAtFuture \/ PollAtErased \/ PollFires
  \/ PollAtUnset \/ FireReturns

Next ==
  \/ Tick \/ StepBack
  \/ \E a \in Alarms : CancelAlarm(a) \/ \E t \in Times : SetAlarm(a, t)
  \/ PollBegin \/ PollAtEnd \/ PollAtFuture \/ PollAtErased \/ PollFires
  \/ PollAtUnset \/ FireReturns

Spec == Init /\ [][Next]_vars

(* The thread of the loop keeps polling, callbacks return, time passes.    *)
FairSpec == Spec /\ WF_vars(Poll) /\ WF_vars(Tick)

----------------------------------------------------------------------------
(* The state keeps its types; the iterator is an entry or end().           *)
TypeOK ==
  /\ delayed \in BOOLEAN
  /\ now \in Times
  /\ back \in 0 .. StepsBack
  /\ ts \in [Alarms -> 0 .. MaxTime]
  /\ made \in 0 .. MaxSets
  /\ ptr \in [Entries -> Alarms \cup {NoAlarm}]
  /\ key \in [Entries -> 0 .. MaxTime]
  /\ erased \in [Entries -> BOOLEAN]
  /\ pc \in {"idle", "scan", "fire"}
  /\ it \in Entries \cup {End}
  /\ processTs \in 0 .. MaxTime
  /\ fires \in Nat

(* The iterator of Poll is valid: the entry it stands at is in the map,    *)
(* however the callbacks change the map under it.                          *)
IteratorValid ==
  /\ it # End => Present(it)
  /\ pc = "fire" => it # End

(* Poll has not yet passed entry i.                                        *)
Ahead(i) ==
  \/ pc = "idle"
  \/ pc = "scan" /\ it # End /\ ~Before(i, it)
  \/ pc = "fire" /\ Before(it, i)

(* Every alarm that is set has a live entry at its deadline that Poll has  *)
(* still to come to.                                                       *)
Kept ==
  \A a \in Alarms : ts[a] # 0 =>
    \E i \in Entries : ptr[i] = a /\ key[i] = ts[a] /\ ~erased[i] /\ Ahead(i)

(* Until the time of day is set back, SetAlarm and Poll forget no alarm,   *)
(* wherever it is set from and however close its deadline is.              *)
NoLostAlarm == back = 0 => Kept

(* The time of day is not set back, and callbacks set no deadline into the *)
(* pass of Poll that runs.                                                 *)
Reliable == delayed /\ back = 0

(* Then, between two passes of Poll, no entry points to an alarm that is   *)
(* not set: its owner may delete it, NqQuicAlarm does not deregister       *)
(* itself.                                                                 *)
NoDanglingEntry ==
  Reliable /\ pc = "idle" => \A i \in Entries : Present(i) => ts[ptr[i]] # 0

(* What QuicAlarm::Fire asks of whoever calls it (quic_alarm.h line 69):   *)
(* OnAlarm is not invoked before the deadline has been reached.            *)
NoEarlyFire ==
  [][(Reliable /\ pc = "scan" /\ pc' = "fire") => (ts[ptr[it]] <= processTs)]_vars

(* The assertion of CancelAlarm (nq_loop.cpp line 63): until the time of   *)
(* day is set back, the entry of an alarm that is set is found.            *)
CancelFindsEntry ==
  back = 0 => \A a \in Alarms : ts[a] # 0 /\ OwnersRun => Matches(a) # {}

(* The alarm whose OnAlarm Poll has invoked and that has not returned.     *)
Running == IF pc = "fire" THEN ptr[it] ELSE NoAlarm

(* The map and Poll implement the service the owners count on: while the   *)
(* loop is reliable, OnAlarm is only invoked for an alarm whose deadline_  *)
(* is set and reached, once for each time it is set, and for every one of  *)
(* them in the end.                                                        *)
Service == INSTANCE AlarmService WITH
             due <- ts, running <- Running, clock <- now, reliable <- Reliable

ImplementsService == Service!FairSpec
=============================================================================
