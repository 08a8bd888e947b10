------------------------------- MODULE NqAlarm ------------------------------
(***************************************************************************)
(* The alarms of the API (nq_alarm_t): NqAlarm objects in pooled memory,   *)
(* the operations any thread queues for them (NqBoxer::InvokeAlarm), and   *)
(* the loop that drains the queue and then fires what is due               *)
(* (src/core/nq_alarm.h, nq_alarm.cpp, nq_boxer.h, nq_boxer.cpp).          *)
(*                                                                         *)
(* Firing and running the callback are apart: OnFire only queues Exec, so  *)
(* operations of other threads may come in between.  The alarm_map_ of the *)
(* loop, modelled in NqLoop, appears as the entries it holds for a block:  *)
(* the one under invocation_ts_ and those under any other time.            *)
(***************************************************************************)
EXTENDS Naturals, Sequences

CONSTANTS
  NumBlocks,   \* the memory blocks of the pool
  MaxAlarms,   \* bound: the alarms created, one serial each
  MaxOps       \* bound: the API calls, but for the alarms the loop makes

ASSUME BoundsAssumption ==
  NumBlocks \in Nat /\ MaxAlarms \in Nat /\ MaxOps \in Nat

Blocks == 1 .. NumBlocks
Serials == 1 .. MaxAlarms
Empty == 0         \* a cleared serial, and no block

VARIABLES
  careful,    \* whether callers leave alone alarms that may be firing or gone
  makers,     \* the threads that make alarms: that of the "loop", or "any"
  alloc,      \* pool_ as another thread inside Alloc saw it, or << >>
  pool,       \* pool_ of the allocator, the top last
  registry,   \* alarm_map_ of the boxer, by serial: the alarms Close deletes
  made,       \* serials given out so far
  block,      \* the block a handle (a serial) points to
  serial,     \* alarm_serial_ in a block, Empty when it is cleared
  set,        \* invocation_ts_ # 0 in a block
  entry,      \* whether alarm_map_ has an entry under invocation_ts_
  orphans,    \* how many entries it has for the block under other times
  queue,      \* the operations queued to the loop
  phase,      \* the loop drains the queue, or polls its alarms
  calls,      \* those API calls made so far
  destroyed,  \* the serials whose Finalize was carried out
  ran,        \* the serial whose callback the last step ran, or Empty
  broken      \* the assertions that failed

callers == <<careful, makers, alloc>>
alarms == <<callers, pool, registry, made, block, serial, set, entry, orphans>>
vars == <<careful, makers, alloc, pool, registry, made, block, serial, set, entry, orphans, queue,
          phase, calls, destroyed, ran, broken>>

Op(code, n, b) == [code |-> code, serial |-> n, ptr |-> b]

Init ==
  /\ careful \in BOOLEAN
  /\ makers \in IF careful THEN {"loop"} ELSE {"loop", "any"}
  /\ alloc = << >>
  /\ pool = [i \in Blocks |-> i]
  /\ registry = {}
  /\ made = 0
  /\ block = [n \in Serials |-> Empty]
  /\ serial = [b \in Blocks |-> Empty]
  /\ set = [b \in Blocks |-> FALSE]
  /\ entry = [b \in Blocks |-> FALSE]
  /\ orphans = [b \in Blocks |-> 0]
  /\ queue = << >>
  /\ phase = "drain"
  /\ calls = 0
  /\ destroyed = {}
  /\ ran = Empty
  /\ broken = {}

----------------------------------------------------------------------------
(* The constructor and InitSerial: block b holds a new alarm that is not   *)
(* set.  An entry that was there is now under another time.                *)
Orphaned(b) == IF entry[b] THEN orphans[b] + 1 ELSE orphans[b]

Construct(b) ==
  /\ block' = [block EXCEPT ![made + 1] = b]
  /\ serial' = [serial EXCEPT ![b] = made + 1]
  /\ set' = [set EXCEPT ![b] = FALSE]
  /\ entry' = [entry EXCEPT ![b] = FALSE]
  /\ orphans' = [orphans EXCEPT ![b] = Orphaned(b)]
  /\ made' = made + 1
  /\ ran' = Empty
  /\ UNCHANGED <<careful, makers, queue, phase, calls, destroyed, broken>>

(* pool_.pop().                                                            *)
Popped(p) == SubSeq(p, 1, Len(p) - 1)

(* NewAlarm in the thread of the loop: the top block of the pool.          *)
NewAlarm ==
  /\ made < MaxAlarms
  /\ pool # << >>
  /\ Construct(pool[Len(pool)])
  /\ pool' = Popped(pool)
  /\ registry' = registry \cup {made + 1}
  /\ alloc' = alloc

(* NewAlarm in another thread, by nq_stream_alarm or nq_rpc_alarm.  Alloc  *)
(* reads the top of pool_ without a lock,                                  *)
AllocTop ==
  /\ makers = "any"
  /\ calls < MaxOps
  /\ made < MaxAlarms
  /\ alloc = << >> /\ pool # << >>
  /\ alloc' = pool
  /\ calls' = calls + 1
  /\ ran' = Empty
  /\ UNCHANGED <<careful, makers, pool, registry, made, block, serial, set, entry, orphans, queue,
                 phase, destroyed, broken>>

(* and pops.  If the loop has been in pool_ and the registry meanwhile,    *)
(* its change or this one may be lost.                                     *)
AllocPop ==
  /\ made < MaxAlarms
  /\ alloc # << >>
  /\ Construct(alloc[Len(alloc)])
  /\ IF pool = alloc
     THEN pool' = Popped(pool) /\ registry' = registry \cup {made + 1}
     ELSE /\ pool' \in {Popped(pool), Popped(alloc), pool}
          /\ registry' \in {registry, registry \cup {made + 1}}
  /\ alloc' = << >>

(* The alarm is there, it is not being destroyed or executed, and either   *)
(* it is not set or the call is made by the thread of the loop while it    *)
(* drains its queue, before it polls the alarms again.                     *)
InStep(n) ==
  /\ serial[block[n]] = n
  /\ set[block[n]] => phase = "drain" /\ entry[block[n]]
  /\ \A k \in 1 .. Len(queue) : queue[k].serial = n => queue[k].code = "start"

(* nq_alarm_set and nq_alarm_destroy only queue an operation.              *)
ApiCall(code, n) ==
  /\ calls < MaxOps
  /\ n <= made
  /\ careful => InStep(n)
  /\ queue' = Append(queue, Op(code, n, block[n]))
  /\ calls' = calls + 1
  /\ ran' = Empty
  /\ UNCHANGED alarms
  /\ UNCHANGED <<phase, destroyed, broken>>

nq_alarm_set(n) == ApiCall("start", n)
nq_alarm_destroy(n) == ApiCall("finalize", n)

----------------------------------------------------------------------------
(* NqAlarmBase::Stop: CancelAlarm asserts that it finds the entry.         *)
StopFails(b) == set[b] /\ ~entry[b]

(* The head of the queue, and whether it is still meant for its block.     *)
Take(code) ==
  /\ phase = "drain"
  /\ queue # << >>
  /\ Head(queue).code = code
  /\ queue' = Tail(queue)
  /\ UNCHANGED <<callers, made, block, phase, calls>>

Current == serial[Head(queue).ptr] = Head(queue).serial

(* Start: Stop, then SetAlarm.                                             *)
Start ==
  /\ Take("start") /\ Current
  /\ LET b == Head(queue).ptr IN
       /\ broken' = IF StopFails(b) THEN broken \cup {"cancel"} ELSE broken
       /\ set' = [set EXCEPT ![b] = TRUE]
       /\ entry' = [entry EXCEPT ![b] = TRUE]
  /\ ran' = Empty
  /\ UNCHANGED <<pool, registry, serial, orphans, destroyed>>

StartStale ==
  /\ Take("start") /\ ~Current
  /\ ran' = Empty
  /\ UNCHANGED <<pool, registry, serial, set, entry, orphans, destroyed, broken>>

(* Finalize: RemoveAlarm, Stop, delete; the destructor clears the serial.  *)
Finalize ==
  /\ Take("finalize") /\ Current
  /\ LET b == Head(queue).ptr IN
       /\ broken' = IF StopFails(b) THEN broken \cup {"cancel"} ELSE broken
       /\ set' = [set EXCEPT ![b] = FALSE]
       /\ entry' = [entry EXCEPT ![b] = FALSE]
       /\ serial' = [serial EXCEPT ![b] = Empty]
       /\ pool' = Append(pool, b)
       /\ registry' = registry \ {serial[b]}
       /\ destroyed' = destroyed \cup {serial[b]}
  /\ ran' = Empty
  /\ UNCHANGED orphans

(* Finalize or Exec for an alarm that is gone: ASSERT(false).              *)
Stale(code) ==
  /\ Take(code) /\ ~Current
  /\ broken' = broken \cup {code}
  /\ ran' = Empty
  /\ UNCHANGED <<pool, registry, serial, set, entry, orphans, destroyed>>

----------------------------------------------------------------------------
(* A faulty variant: Exec goes by the pointer and not by the serial.       *)
ExecTakeByPointer ==
  /\ Take("exec")
  /\ orphans' = orphans
  /\ ran' = Head(queue).serial
  /\ UNCHANGED <<registry, destroyed, broken>>

(* NqAlarm::Exec runs the callback and clears invocation_ts_, whether or   *)
(* not alarm_map_ has an entry under it.                                   *)
ExecTake ==
  /\ Take("exec") /\ Current
  /\ orphans' = [orphans EXCEPT ![Head(queue).ptr] = Orphaned(Head(queue).ptr)]
  /\ ran' = Head(queue).serial
  /\ UNCHANGED <<registry, destroyed, broken>>

(* The callback asked for a later time.                                    *)
ExecAgain ==
  /\ ExecTake
  /\ set' = [set EXCEPT ![Head(queue).ptr] = TRUE]
  /\ entry' = [entry EXCEPT ![Head(queue).ptr] = TRUE]
  /\ UNCHANGED <<pool, serial>>

(* A faulty variant: invocation_ts_ is not cleared for a stopped alarm.    *)
ExecStopsKeepsTime ==
  /\ ExecTake
  /\ UNCHANGED <<pool, serial, set, entry>>

(* The callback asked for STOP_INVOKE_NQ_TIME.                             *)
ExecStops ==
  /\ ExecTake
  /\ set' = [set EXCEPT ![Head(queue).ptr] = FALSE]
  /\ entry' = [entry EXCEPT ![Head(queue).ptr] = FALSE]
  /\ UNCHANGED <<pool, serial>>

(* A faulty variant: the alarm is freed and its serial left in the block.  *)
ExecDeletesKeepsSerial ==
  /\ ExecTake
  /\ set[Head(queue).ptr]
  /\ LET b == Head(queue).ptr IN
       /\ set' = [set EXCEPT ![b] = FALSE]
       /\ entry' = [entry EXCEPT ![b] = FALSE]
       /\ pool' = Append(pool, b)
  /\ UNCHANGED serial

(* The callback left the time as it is, or set an earlier one: delete.     *)
(* An invocation_ts_ of 0 is the time that stops, and nothing is earlier.  *)
ExecDeletes ==
  /\ ExecTake
  /\ set[Head(queue).ptr]
  /\ LET b == Head(queue).ptr IN
       /\ set' = [set EXCEPT ![b] = FALSE]
       /\ entry' = [entry EXCEPT ![b] = FALSE]
       /\ serial' = [serial EXCEPT ![b] = Empty]
       /\ pool' = Append(pool, b)

----------------------------------------------------------------------------
DrainDone ==
  /\ phase = "drain" /\ queue = << >>
  /\ phase' = "poll"
  /\ ran' = Empty
  /\ UNCHANGED alarms
  /\ UNCHANGED <<queue, calls, destroyed, broken>>

(* A faulty variant: nothing is queued when the alarm fires.               *)
OnFireQueuesNothing(b) ==
  /\ phase = "poll"
  /\ entry[b] /\ serial[b] # Empty
  /\ entry' = [entry EXCEPT ![b] = FALSE]
  /\ ran' = Empty
  /\ UNCHANGED <<callers, pool, registry, made, block, serial, set, orphans, queue, phase,
                 calls, destroyed, broken>>

(* NqLoop::Poll fires a due entry: OnFire queues Exec, invocation_ts_      *)
(* stays.  The entry is gone when Poll is over.                            *)
OnFire(b) ==
  /\ phase = "poll"
  /\ entry[b] /\ serial[b] # Empty
  /\ entry' = [entry EXCEPT ![b] = FALSE]
  /\ queue' = Append(queue, Op("exec", serial[b], b))
  /\ ran' = Empty
  /\ UNCHANGED <<callers, pool, registry, made, block, serial, set, orphans, phase, calls,
                 destroyed, broken>>

(* The same for an entry under another time, with whatever is in the       *)
(* block: the alarm it was made for, a later one, or freed memory.         *)
OnFireOrphan(b) ==
  /\ phase = "poll"
  /\ orphans[b] > 0
  /\ orphans' = [orphans EXCEPT ![b] = @ - 1]
  /\ IF serial[b] # Empty
     THEN queue' = Append(queue, Op("exec", serial[b], b)) /\ broken' = broken
     ELSE queue' = queue /\ broken' = broken \cup {"freed"}
  /\ ran' = Empty
  /\ UNCHANGED <<callers, pool, registry, made, block, serial, set, entry, phase, calls,
                 destroyed>>

PollDone ==
  /\ phase = "poll"
  /\ phase' = "drain"
  /\ ran' = Empty
  /\ UNCHANGED alarms
  /\ UNCHANGED <<queue, calls, destroyed, broken>>

----------------------------------------------------------------------------
Exec == ExecAgain \/ ExecStops \/ ExecDeletes

Drain ==
  \/ Start \/ StartStale \/ Finalize \/ Stale("finalize") \/ Stale("exec")
  \/ Exec \/ DrainDone

Next ==
  \/ NewAlarm \/ AllocTop \/ AllocPop
  \/ \E n \in Serials : nq_alarm_set(n) \/ nq_alarm_destroy(n)
  \/ Start \/ StartStale \/ Finalize \/ Stale("finalize") \/ Stale("exec")
  \/ ExecAgain \/ ExecStops \/ ExecDeletes
  \/ DrainDone \/ PollDone
  \/ \E b \in Blocks : OnFire(b) \/ OnFireOrphan(b)

Spec == Init /\ [][Next]_vars

(* The thread of the loop drains the queue and polls in turn; an alarm     *)
(* that stays due is fired by one of its passes.                           *)
FairSpec ==
  /\ Spec
  /\ WF_vars(Drain) /\ WF_vars(PollDone)
  /\ \A b \in Blocks : SF_vars(OnFire(b))

----------------------------------------------------------------------------
(* The state keeps its types.                                              *)
TypeOK ==
  /\ makers \in {"loop", "any"} /\ (careful => makers = "loop")
  /\ alloc \in Seq(Blocks) /\ (alloc # << >> => makers = "any") /\ pool \in Seq(Blocks)
  /\ registry \subseteq Serials
  /\ made \in 0 .. MaxAlarms /\ careful \in BOOLEAN
  /\ block \in [Serials -> Blocks \cup {Empty}]
  /\ serial \in [Blocks -> Serials \cup {Empty}]
  /\ set \in [Blocks -> BOOLEAN]
  /\ entry \in [Blocks -> BOOLEAN]
  /\ orphans \in [Blocks -> Nat]
  /\ queue \in Seq([code : {"start", "finalize", "exec"}, serial : Serials, ptr : Blocks])
  /\ phase \in {"drain", "poll"}
  /\ calls \in 0 .. MaxOps
  /\ destroyed \subseteq Serials
  /\ ran \in Serials \cup {Empty}
  /\ broken \subseteq {"cancel", "finalize", "exec", "freed"}

Queued(code, n) == \E k \in 1 .. Len(queue) : queue[k] = Op(code, n, block[n])

(* When callers are careful to keep in step with the loop, an alarm is in  *)
(* alarm_map_ exactly while invocation_ts_ is set and its Exec is not      *)
(* under way, no entry outlives its alarm, and no assertion fails.         *)
MapInStep ==
  careful =>
    /\ broken = {}
    /\ \A b \in Blocks :
         /\ orphans[b] = 0
         /\ entry[b] <=> set[b] /\ ~Queued("exec", serial[b])

(* A block is in the pool exactly while it holds no alarm, once, and the   *)
(* registry names every alarm that is alive.                               *)
PoolHolds ==
  /\ \A b \in Blocks : serial[b] # Empty => serial[b] \in registry
  /\ \A b \in Blocks : serial[b] = Empty <=> \E i \in 1 .. Len(pool) : pool[i] = b
  /\ \A i, j \in 1 .. Len(pool) : pool[i] = pool[j] => i = j

(* However alarms are set and destroyed, the pool and the registry that    *)
(* NqClientLoop and NqDispatcher keep hold what they should, as long as    *)
(* only the thread of the loop makes alarms.                               *)
PoolExact == makers = "loop" => PoolHolds

(* Once nq_alarm_destroy is carried out, no callback of that alarm runs,   *)
(* although an Exec for it may be queued and its block be in use again.    *)
DestroyedStaysSilent ==
  [][ran' # ran => ran' \notin destroyed]_vars

(* An alarm that is set runs its callback or is destroyed, when callers    *)
(* are careful: OnFire queues Exec, and the loop comes to it.              *)
SetRuns ==
  \A n \in Serials :
    (careful /\ \E b \in Blocks : serial[b] = n /\ set[b]) ~> (ran = n \/ n \in destroyed)

----------------------------------------------------------------------------
(* Statements of the repository that the code does not keep.               *)

(* What Exec says of itself (nq_alarm.cpp line 41): the alarm is no longer *)
(* in alarm_map_ when it runs.                                             *)
ExecUnregistered ==
  [][Exec => ~entry[Head(queue).ptr]]_vars

(* What nq.h line 519 says of an alarm that removed its memory: further    *)
(* use of the handle is silently ignored.                                  *)
StaleUseIgnored == "finalize" \notin broken

(* What NQAPI_THREADSAFE says (nq.h line 22) of nq_stream_alarm and        *)
(* nq_rpc_alarm: they may be called concurrently, and work correctly.      *)
AlarmsMadeAnywhere == PoolHolds
=============================================================================
