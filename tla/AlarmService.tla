---------------------------- MODULE AlarmService ----------------------------
(***************************************************************************)
(* What the loop promises to the owners of alarms, whatever the map behind *)
(* it looks like: an alarm that is set fires once, at its deadline or      *)
(* later, unless it is cancelled before, and a cancelled one stays silent. *)
(* It promises this while it is reliable: as long as the time of day is    *)
(* not set back, and to owners that set no deadline into the pass of Poll  *)
(* that runs.  What an owner sees of the loop is whose OnAlarm it invokes, *)
(* so that to fire an alarm and to cancel it are different steps.          *)
(***************************************************************************)
EXTENDS Naturals

CONSTANTS
  Alarms,    \* the alarm objects
  NoAlarm,   \* no alarm object
  MaxTime    \* bound: the last instant

VARIABLES
  due,       \* the deadline of an alarm, 0 when it is not set
  running,   \* the alarm whose OnAlarm is being invoked, or NoAlarm
  clock,     \* the time of day
  reliable   \* the promise holds

vars == <<due, running, clock, reliable>>

Init ==
  /\ due = [a \in Alarms |-> 0]
  /\ running = NoAlarm
  /\ clock \in 1 .. MaxTime
  /\ reliable \in BOOLEAN

Set(a, t) ==
  /\ due[a] = 0
  /\ due' = [due EXCEPT ![a] = t]
  /\ UNCHANGED <<running, clock, reliable>>

Cancel(a) ==
  /\ due[a] # 0
  /\ due' = [due EXCEPT ![a] = 0]
  /\ UNCHANGED <<running, clock, reliable>>

(* OnAlarm of the owner is invoked, one at a time, and returns.            *)
Fire(a) ==
  /\ reliable
  /\ running = NoAlarm
  /\ due[a] # 0
  /\ due[a] <= clock
  /\ due' = [due EXCEPT ![a] = 0]
  /\ running' = a
  /\ UNCHANGED <<clock, reliable>>

Return ==
  /\ running # NoAlarm
  /\ running' = NoAlarm
  /\ UNCHANGED <<due, clock, reliable>>

Tick ==
  /\ clock < MaxTime
  /\ clock' = clock + 1
  /\ UNCHANGED <<due, running, reliable>>

Unreliable == ~reliable'

Next ==
  \/ Tick \/ Return \/ Unreliable
  \/ \E a \in Alarms :
       Cancel(a) \/ Fire(a) \/ \E t \in 1 .. MaxTime : Set(a, t)

Spec == Init /\ [][Next]_vars

(* A due alarm is not left waiting, however many others come before it.    *)
FairSpec == Spec /\ \A a \in Alarms : SF_vars(Fire(a))
=============================================================================
