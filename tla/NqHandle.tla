------------------------------ MODULE NqHandle ------------------------------
(***************************************************************************)
(* Handles and the threads that use them: the UNWRAP macros of             *)
(* src/core/nq_unwrapper.h under the API of src/nq.cpp, the operations     *)
(* NqBoxer queues for the loop (src/core/nq_boxer.h, nq_boxer.cpp), and    *)
(* the serials of clients, sessions and streams.                           *)
(*                                                                         *)
(* An object is made in a block of a pool.  Its handle is the address of   *)
(* the block and the serial; the block keeps a mutex that outlives the     *)
(* object (NqStaticSection).  Serials are numbered in the order they are   *)
(* made: time, index and side make them unique.                            *)
(***************************************************************************)
EXTENDS Naturals, Sequences

CONSTANTS
  Threads,     \* the threads of the application
  Loop,        \* the thread of the loop
  Blocks,      \* the blocks of the pool
  NoBlock,     \* a pointer to no block
  MaxObjects,  \* bound: the objects ever made
  MaxCalls     \* bound: the calls of the API that wait or are queued

ASSUME HandleAssumption ==
  /\ Loop \notin Threads /\ NoBlock \notin Blocks
  /\ MaxObjects \in Nat /\ MaxCalls \in Nat

Objects == 1 .. MaxObjects
Empty == 0          \* NqSerial::IsEmpty, and a block without an object
Callers == Threads \cup {Loop}

VARIABLES
  careful,   \* validate callbacks do not unwrap handles again
  made,      \* how many objects were made so far
  at,        \* p of the handle of an object
  object,    \* the object that lives in a block
  serial,    \* session_serial_ or stream_serial_ in a block
  mutex,     \* the threads that hold the static mutex of a block
  frames,    \* the API calls a thread is in, the innermost last
  calls,     \* how many calls were made
  closing,   \* the object whose InvalidateSerial the loop is in
  queue,     \* the operations queued for the loop
  last,      \* the last operation carried out: on its own object, and late
  rejected   \* on_stream_open refused a stream

vars == <<careful, made, at, object, serial, mutex, frames, calls, closing, queue, last, rejected>>
pool == <<made, at, object, serial, rejected>>
api == <<mutex, frames, calls>>
ops == <<queue, last>>

Init ==
  /\ careful \in BOOLEAN
  /\ made = 0
  /\ at = [n \in Objects |-> NoBlock]
  /\ object = [b \in Blocks |-> Empty]
  /\ serial = [b \in Blocks |-> Empty]
  /\ mutex = [b \in Blocks |-> {}]
  /\ frames = [t \in Threads |-> <<>>]
  /\ calls = 0
  /\ closing = Empty
  /\ queue = <<>>
  /\ last = [own |-> TRUE, late |-> FALSE]
  /\ rejected = FALSE

----------------------------------------------------------------------------
(* The loop.  It makes an object: the constructor clears the serial of the *)
(* block, InitSerial gives the new one, neither takes the mutex.           *)
Create(b) ==
  /\ closing = Empty
  /\ made < MaxObjects
  /\ object[b] = Empty
  /\ made' = made + 1
  /\ at' = [at EXCEPT ![made + 1] = b]
  /\ object' = [object EXCEPT ![b] = made + 1]
  /\ serial' = [serial EXCEPT ![b] = made + 1]
  /\ UNCHANGED <<careful, api, closing, ops, rejected>>

(* RecoverOutgoingStreams, OpenHandler returns false: the stream is        *)
(* deleted as it is.                                                       *)
Reject(n) ==
  /\ closing = Empty
  /\ n \in 1 .. made
  /\ object[at[n]] = n /\ serial[at[n]] = n
  /\ object' = [object EXCEPT ![at[n]] = Empty]
  /\ rejected' = TRUE
  /\ UNCHANGED <<careful, made, at, serial, api, closing, ops>>

(* OnClose: after the callback, InvalidateSerial.                          *)
Close(n) ==
  /\ closing = Empty
  /\ n \in 1 .. made
  /\ object[at[n]] = n /\ serial[at[n]] = n
  /\ closing' = n
  /\ UNCHANGED <<careful, pool, api, ops>>

(* A faulty variant: the serial is cleared without the mutex.              *)
InvalidateUnlocked ==
  /\ closing # Empty
  /\ serial' = [serial EXCEPT ![at[closing]] = Empty]
  /\ closing' = Empty
  /\ UNCHANGED <<careful, made, at, object, rejected, api, ops>>

(* InvalidateSerial waits for the mutex of the block.                      *)
Invalidate ==
  /\ closing # Empty
  /\ mutex[at[closing]] = {}
  /\ serial' = [serial EXCEPT ![at[closing]] = Empty]
  /\ closing' = Empty
  /\ UNCHANGED <<careful, made, at, object, rejected, api, ops>>

(* The object is deleted once it is closed.                                *)
Delete(b) ==
  /\ closing = Empty
  /\ object[b] # Empty /\ serial[b] = Empty
  /\ object' = [object EXCEPT ![b] = Empty]
  /\ UNCHANGED <<careful, made, at, serial, rejected, api, closing, ops>>

----------------------------------------------------------------------------
(* UNWRAP_CONN and UNWRAP_STREAM by a thread that is not the loop's.  The  *)
(* code they guard runs with the mutex held: a validate callback may call  *)
(* the API in turn.                                                        *)
Top(t) == frames[t][Len(frames[t])]
SetTop(t, f) == [frames EXCEPT ![t] = [@ EXCEPT ![Len(@)] = f]]
PopTop(t) == [frames EXCEPT ![t] = SubSeq(@, 1, Len(@) - 1)]
Waits(t) == frames[t] # <<>> /\ Top(t).pc = "wait"
Locked(t) == frames[t] # <<>> /\ Top(t).pc = "locked"
Inside(t) == frames[t] # <<>> /\ Top(t).pc = "inside"

Unwrap(t, n) ==
  /\ calls < MaxCalls
  /\ n \in 1 .. made
  /\ frames[t] = <<>> \/ (Inside(t) /\ ~careful)
  /\ calls' = calls + 1
  /\ frames' = [frames EXCEPT ![t] = Append(@, [n |-> n, pc |-> "wait"])]
  /\ UNCHANGED <<careful, pool, mutex, closing, ops>>

(* std::unique_lock lk: a mutex a thread holds already is waited for, too. *)
Lock(t) ==
  /\ Waits(t)
  /\ mutex[at[Top(t).n]] = {}
  /\ mutex' = [mutex EXCEPT ![at[Top(t).n]] = {t}]
  /\ frames' = SetTop(t, [Top(t) EXCEPT !.pc = "locked"])
  /\ UNCHANGED <<careful, pool, calls, closing, ops>>

(* A faulty variant: any object in the block will do.                      *)
CheckAny(t) ==
  /\ Locked(t)
  /\ IF object[at[Top(t).n]] # Empty
     THEN frames' = SetTop(t, [Top(t) EXCEPT !.pc = "inside"]) /\ mutex' = mutex
     ELSE frames' = PopTop(t) /\ mutex' = [mutex EXCEPT ![at[Top(t).n]] = {}]
  /\ UNCHANGED <<careful, pool, calls, closing, ops>>

(* SessionSerial() == handle.s: the code runs, or the call returns.        *)
Check(t) ==
  /\ Locked(t)
  /\ IF serial[at[Top(t).n]] = Top(t).n
     THEN frames' = SetTop(t, [Top(t) EXCEPT !.pc = "inside"]) /\ mutex' = mutex
     ELSE frames' = PopTop(t) /\ mutex' = [mutex EXCEPT ![at[Top(t).n]] = {}]
  /\ UNCHANGED <<careful, pool, calls, closing, ops>>

(* A faulty variant: a call that ran its code keeps the mutex.             *)
ReturnLocked(t) ==
  /\ Inside(t)
  /\ frames' = PopTop(t)
  /\ UNCHANGED <<careful, pool, mutex, calls, closing, ops>>

(* The code is done; lk goes out of scope.                                 *)
Return(t) ==
  /\ Inside(t)
  /\ frames' = PopTop(t)
  /\ mutex' = [mutex EXCEPT ![at[Top(t).n]] = {}]
  /\ UNCHANGED <<careful, pool, calls, closing, ops>>

----------------------------------------------------------------------------
(* Operations for the loop: "close" is Disconnect, "send" is Send and      *)
(* SendEx, "other" any other.  Close, task and the operations on           *)
(* connections are queued whoever calls; send, call, notify and reply are  *)
(* queued by the other threads.                                            *)
Codes == {"close", "send", "other"}

(* late marks an operation behind a close of the same caller and handle.   *)
Enqueue(t, c, n) ==
  /\ calls < MaxCalls
  /\ n \in 1 .. made
  /\ LET late == \E i \in DOMAIN queue :
                    queue[i].code = "close" /\ queue[i].by = t /\ queue[i].n = n
     IN queue' = Append(queue, [by |-> t, code |-> c, n |-> n, late |-> late])
  /\ calls' = calls + 1
  /\ UNCHANGED <<careful, pool, mutex, frames, closing, last>>

(* A thread calls when it is in no call that waits.                        *)
Post(t, c, n) == (frames[t] = <<>> \/ Inside(t)) /\ Enqueue(t, c, n)
LoopPosts(c, n) == closing = Empty /\ c # "send" /\ Enqueue(Loop, c, n)

(* A faulty variant: whatever lives in the block is taken.                 *)
CurrentByBlock(p, n) == p # NoBlock /\ serial[p] # Empty

(* The serial found through pointer p is the handle's.                     *)
Current(p, n) == p # NoBlock /\ serial[p] = n

(* UNWRAP_*_OR_ENQUEUE in the thread of the loop: done at once.            *)
LoopCalls(n) ==
  /\ closing = Empty
  /\ n \in 1 .. made
  /\ Current(at[n], n)
  /\ last' = [own |-> object[at[n]] = n, late |-> FALSE]
  /\ UNCHANGED <<careful, pool, api, closing, queue>>

(* target_ptr_: the two constructors that Send and SendEx are made with    *)
(* leave it uninitialized.  It may point anywhere; if it points to no      *)
(* block, the loop may as well crash, which ends the behaviour.            *)
Targets(o) == IF o.code = "send" THEN Blocks \cup {NoBlock} ELSE {at[o.n]}

(* A faulty variant: operations are taken in any order.                    *)
IsHeadAny(i) == i \in DOMAIN queue

(* The queue keeps the order of the operations of one caller only.         *)
IsHead(i) == i \in DOMAIN queue /\ \A j \in 1 .. i - 1 : queue[j].by # queue[i].by

(* The queue without its element i.                                        *)
Without(i) == [j \in 1 .. Len(queue) - 1 |-> IF j < i THEN queue[j] ELSE queue[j + 1]]

(* Processor::Poll takes an operation and drops it if the serial expired.  *)
(* Disconnect closes the object.                                           *)
Take(i) ==
  /\ closing = Empty
  /\ IsHead(i)
  /\ queue' = Without(i)
  /\ \E p \in Targets(queue[i]) :
       \/ /\ Current(p, queue[i].n)
          /\ last' = [own |-> object[p] = queue[i].n, late |-> queue[i].late]
          /\ closing' = IF queue[i].code = "close" THEN queue[i].n ELSE Empty
       \/ ~Current(p, queue[i].n) /\ UNCHANGED <<last, closing>>
  /\ UNCHANGED <<careful, pool, api>>

----------------------------------------------------------------------------
LoopStep ==
  \/ Invalidate
  \/ \E b \in Blocks : Delete(b)
  \/ \E i \in 1 .. MaxCalls : Take(i)
ThreadStep(t) == Lock(t) \/ Check(t) \/ Return(t)

Next ==
  \/ Invalidate
  \/ \E b \in Blocks : Create(b) \/ Delete(b)
  \/ \E i \in 1 .. MaxCalls : Take(i)
  \/ \E n \in Objects :
       \/ Reject(n) \/ Close(n) \/ LoopCalls(n)
       \/ \E c \in Codes : LoopPosts(c, n)
       \/ \E t \in Threads :
            \/ Unwrap(t, n)
            \/ \E c \in Codes : Post(t, c, n)
  \/ \E t \in Threads : Lock(t) \/ Check(t) \/ Return(t)

Spec == Init /\ [][Next]_vars

(* The loop keeps polling, threads are scheduled, callbacks return.        *)
FairSpec ==
  /\ Spec
  /\ WF_vars(LoopStep)
  /\ \A t \in Threads : WF_vars(ThreadStep(t))

----------------------------------------------------------------------------
PCs == {"wait", "locked", "inside"}

(* The state keeps its types.                                              *)
TypeOK ==
  /\ careful \in BOOLEAN /\ rejected \in BOOLEAN
  /\ made \in 0 .. MaxObjects
  /\ at \in [Objects -> Blocks \cup {NoBlock}]
  /\ object \in [Blocks -> 0 .. MaxObjects]
  /\ serial \in [Blocks -> 0 .. MaxObjects]
  /\ mutex \in [Blocks -> SUBSET Threads]
  /\ frames \in [Threads -> Seq([n : Objects, pc : PCs])]
  /\ calls \in 0 .. MaxCalls
  /\ closing \in 0 .. MaxObjects
  /\ queue \in Seq([by : Callers, code : Codes, n : Objects, late : BOOLEAN])
  /\ last \in [own : BOOLEAN, late : BOOLEAN]

(* The objects thread t is inside of.                                      *)
InsideOf(t) == {frames[t][i].n : i \in {j \in DOMAIN frames[t] : frames[t][j].pc = "inside"}}

(* A call that passed the check works on the object its handle was made    *)
(* for, and the memory of the object is not given back before it returns:  *)
(* what InvalidateSerial takes the mutex of the block for.                 *)
InsideAlive ==
  ~rejected => \A t \in Threads : \A n \in InsideOf(t) :
                 object[at[n]] = n /\ serial[at[n]] = n

(* An operation is carried out on the object its handle was made for or    *)
(* not at all, however long it waited and whatever moved into the block    *)
(* meanwhile; an uninitialized target_ptr_ does not change this.           *)
ReachesItsObject == ~rejected => last.own

(* What a thread asks of an object after closing it is not carried out.    *)
(* The loop's own calls are not queued and may overtake its close.         *)
CloseIsLast == ~last.late

(* If validate callbacks do not unwrap handles nobody waits for ever: once *)
(* the calls cease every one of them has returned, the loop is out of      *)
(* InvalidateSerial and has taken every operation of the queue.            *)
NobodyWaits ==
  careful ~> /\ \A t \in Threads : frames[t] = <<>>
             /\ closing = Empty
             /\ queue = <<>>

(* Serials and mutexes implement what handles promise.                     *)
Life ==
  [n \in Objects |->
     IF n > made THEN "unmade" ELSE IF serial[at[n]] = n THEN "valid" ELSE "void"]
Service == INSTANCE HandleService
             WITH life <- Life, inside <- [t \in Threads |-> InsideOf(t)],
                  reliable <- ~rejected

ImplementsHandles == Service!Spec

----------------------------------------------------------------------------
(* Statements of the repository that the code does not keep.               *)

(* nq.h line 373: the callback given to nq_conn_is_valid is there "to      *)
(* operate this conn safety on validation success".                        *)
OperatesSafely ==
  \A t \in Threads : (frames[t] # <<>>) ~> (frames[t] = <<>>)

(* nq.h line 414: nq_stream_send sends "to stream peer", from any thread:  *)
(* an operation in the queue points to the object of its handle.           *)
SendArrives == \A i \in DOMAIN queue : Targets(queue[i]) = {at[queue[i].n]}
=============================================================================
