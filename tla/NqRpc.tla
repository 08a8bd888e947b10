------------------------------- MODULE NqRpc -------------------------------
(***************************************************************************)
(* The caller's side of one RPC stream: NqSimpleRPCStreamHandler and its   *)
(* Request objects (src/core/nq_stream.h, nq_stream.cpp).                  *)
(*                                                                         *)
(* Everything here runs on the loop thread of the stream, but user         *)
(* callbacks are re-entrant: from on_reply (with a reply, NQ_ETIMEOUT or   *)
(* NQ_EGOAWAY) and from on_rpc_close the user may issue new calls, which   *)
(* run at once, and any write may fail and close the stream before it      *)
(* returns.  A handler that invokes a callback is therefore two actions,   *)
(* up to the callback and from its return on, and what may run in between  *)
(* is an action of its own.  The call stack never gets deeper than         *)
(*                                                                         *)
(*    frame (a reply or a timeout callback)                                *)
(*      > writing (a Call whose write closes the stream)                   *)
(*        > phase (the close: on_rpc_close, then the Cleanup loop)         *)
(*                                                                         *)
(* because a stream closes once, so three variables hold it.  Calls are    *)
(* numbered in the order they are issued; a call also names its Request.   *)
(***************************************************************************)
EXTENDS Naturals

CONSTANTS
  MaxCalls,    \* bound: the calls issued on the stream
  MsgIdLimit   \* limit_ of msgid_factory_: 0xFFFF, or 2^32 - 100 if use_large_msgid

ASSUME MaxCallsAssumption == MaxCalls \in Nat
ASSUME MsgIdLimitAssumption == MsgIdLimit \in Nat /\ MsgIdLimit >= 2

Calls == 1 .. MaxCalls
NoCall == 0
MsgIds == 1 .. (MsgIdLimit - 1)

VARIABLES
  issued,   \* how many calls have been issued
  seed,     \* msgid_factory_.seed_
  msgid,    \* the msgid a call was given, 0 before
  reqMap,   \* req_map_: the call registered under a msgid, or NoCall
  req,      \* the Request object of a call
  sent,     \* the calls whose request was written to the stream
  told,     \* how often on_reply of a call was invoked
  answer,   \* the call whose reply on_reply of a call was last invoked with
  frame,    \* the callback of OnRecv or OnFire that is running, if any
  running,  \* the call it belongs to
  writing,  \* the call whose write is closing the stream, or NoCall
  phase,    \* the life of the stream
  cursor,   \* the msgid the iterator of Cleanup stands at
  fault     \* freed memory or an invalid iterator was used

vars == <<issued, seed, msgid, reqMap, req, sent, told, answer, frame, running,
          writing, phase, cursor, fault>>

----------------------------------------------------------------------------
(* A Request: not created, registered with its alarm set, its callback     *)
(* running with a reply / a timeout / a go-away, deleted.                  *)
ReqState == {"none", "armed", "replying", "firing", "leaving", "freed"}

(* The alarm of a Request is in the loop until Destroy cancels it or it    *)
(* fires.                                                                  *)
AlarmSet(c) == req[c] \in {"armed", "replying", "leaving"}

Frame == {"idle", "reply", "timeout"}

Phase == {"open", "onclose", "cleanup", "closed", "deleted"}

(* The serial of the stream is cleared at the end of OnClose: until then   *)
(* the API lets the user call.                                             *)
SerialValid == phase \in {"open", "onclose", "cleanup"}

(* The loop runs a handler only when no other is running.                  *)
LoopFree == frame = "idle" /\ phase \in {"open", "closed", "deleted"} /\ ~fault

(* nq::IdFactory::New                                                      *)
NewMsgId(s) == IF s + 1 >= MsgIdLimit THEN 1 ELSE s + 1

----------------------------------------------------------------------------
Init ==
  /\ issued = 0
  /\ seed = 0
  /\ msgid = [c \in Calls |-> 0]
  /\ reqMap = [i \in MsgIds |-> NoCall]
  /\ req = [c \in Calls |-> "none"]
  /\ sent = {}
  /\ told = [c \in Calls |-> 0]
  /\ answer = [c \in Calls |-> NoCall]
  /\ frame = "idle"
  /\ running = NoCall
  /\ writing = NoCall
  /\ phase = "open"
  /\ cursor = 0
  /\ fault = FALSE

(* EntryRequest on a stream that is still valid: an entry under the same   *)
(* msgid is overwritten.                                                   *)
EntryRequest(c, id) ==
  /\ reqMap' = [reqMap EXCEPT ![id] = c]
  /\ req' = [req EXCEPT ![c] = "armed"]

(* Call and CallEx, at top level or from a callback, when the write does   *)
(* not close the stream.  A stream that is already closing swallows it.    *)
Call ==
  /\ SerialValid /\ ~fault
  /\ issued < MaxCalls
  /\ issued' = issued + 1
  /\ seed' = NewMsgId(seed)
  /\ msgid' = [msgid EXCEPT ![issued + 1] = NewMsgId(seed)]
  /\ sent' = IF phase = "open" THEN sent \cup {issued + 1} ELSE sent
  /\ EntryRequest(issued + 1, NewMsgId(seed))
  /\ UNCHANGED <<told, answer, frame, running, writing, phase, cursor, fault>>

(* Call whose write fails: the stream is closed inside SendCommon, and     *)
(* EntryRequest finds the serial cleared when the close is over.           *)
CallWriteFails ==
  /\ phase = "open" /\ ~fault
  /\ issued < MaxCalls
  /\ issued' = issued + 1
  /\ seed' = NewMsgId(seed)
  /\ msgid' = [msgid EXCEPT ![issued + 1] = NewMsgId(seed)]
  /\ writing' = issued + 1
  /\ phase' = "onclose"
  /\ UNCHANGED <<reqMap, req, sent, told, answer, frame, running, cursor, fault>>

(* The stream closes: at top level by nq_rpc_close, the peer or the        *)
(* connection, inside a callback by a Notify or Reply whose write fails.   *)
(* NqStreamHandler::OnClose invokes on_rpc_close first.                    *)
OnClose ==
  /\ phase = "open" /\ ~fault
  /\ phase' = "onclose"
  /\ UNCHANGED <<issued, seed, msgid, reqMap, req, sent, told, answer, frame,
                 running, writing, cursor, fault>>

----------------------------------------------------------------------------
(* Cleanup goes over req_map_ in key order.                                *)
Keys(above) == {i \in MsgIds : i > above /\ reqMap[i] # NoCall}

(* The iterator moves to the first key above the one it stands at: GoAway. *)
GoAway(above) ==
  \E id \in Keys(above) :
    /\ \A j \in Keys(above) : id <= j
    /\ cursor' = id
    /\ phase' = "cleanup"
    /\ told' = [told EXCEPT ![reqMap[id]] = @ + 1]

(* The loop is over: clear the map, then InvalidateSerial.  A Call that    *)
(* was waiting for this close returns without registering a Request.       *)
CleanupDone(above) ==
  /\ Keys(above) = {}
  /\ reqMap' = [i \in MsgIds |-> NoCall]
  /\ phase' = "closed"
  /\ writing' = NoCall
  /\ cursor' = 0
  /\ told' = told

(* A faulty variant: Cleanup only clears req_map_.                         *)
OnCloseReturnsNoGoAway ==
  /\ phase = "onclose" /\ ~fault
  /\ reqMap' = [i \in MsgIds |-> NoCall]
  /\ phase' = "closed"
  /\ writing' = NoCall
  /\ UNCHANGED <<issued, seed, msgid, req, sent, told, answer, frame, running,
                 cursor, fault>>

(* on_rpc_close returns and Cleanup starts.                                *)
OnCloseReturns ==
  /\ phase = "onclose" /\ ~fault
  /\ \/ /\ GoAway(0)
        /\ req' = [req EXCEPT ![reqMap[cursor']] = "leaving"]
        /\ UNCHANGED <<reqMap, writing>>
     \/ /\ CleanupDone(0)
        /\ req' = req
  /\ UNCHANGED <<issued, seed, msgid, sent, answer, frame, running, fault>>

(* A faulty variant: no Destroy after the callback.                        *)
GoAwayReturnsNoDestroy ==
  /\ phase = "cleanup" /\ ~fault
  /\ \/ /\ GoAway(cursor)
        /\ req' = [req EXCEPT ![reqMap[cursor']] = "leaving"]
        /\ UNCHANGED <<reqMap, writing>>
     \/ /\ CleanupDone(cursor)
        /\ req' = req
  /\ UNCHANGED <<issued, seed, msgid, sent, answer, frame, running, fault>>

(* The go-away callback returns: Destroy what the entry holds now, go on.  *)
GoAwayReturns ==
  /\ phase = "cleanup" /\ ~fault
  /\ LET destroyed == [req EXCEPT ![reqMap[cursor]] = "freed"] IN
     \/ /\ GoAway(cursor)
        /\ req' = [destroyed EXCEPT ![reqMap[cursor']] = "leaving"]
        /\ UNCHANGED <<reqMap, writing>>
     \/ /\ CleanupDone(cursor)
        /\ req' = destroyed
  /\ UNCHANGED <<issued, seed, msgid, sent, answer, frame, running, fault>>

(* The session deletes the closed stream, and its handler, from an alarm.  *)
DeleteStream ==
  /\ LoopFree /\ phase = "closed"
  /\ phase' = "deleted"
  /\ UNCHANGED <<issued, seed, msgid, reqMap, req, sent, told, answer, frame,
                 running, writing, cursor, fault>>

----------------------------------------------------------------------------
(* A faulty variant: the entry stays in req_map_.                          *)
RecvReplyNoErase(c) ==
  /\ LoopFree /\ phase = "open"
  /\ c \in sent
  /\ LET r == reqMap[msgid[c]] IN
       /\ r # NoCall
       /\ req' = [req EXCEPT ![r] = "replying"]
       /\ told' = [told EXCEPT ![r] = @ + 1]
       /\ answer' = [answer EXCEPT ![r] = c]
       /\ running' = r
  /\ frame' = "reply"
  /\ UNCHANGED <<issued, seed, msgid, reqMap, sent, writing, phase, cursor, fault>>

(* A faulty variant: replies are matched in the order of the calls.        *)
RecvReplyInOrder(c) ==
  /\ LoopFree /\ phase = "open"
  /\ c \in sent
  /\ \E id \in Keys(0) :
       /\ \A j \in Keys(0) : id <= j
       /\ reqMap' = [reqMap EXCEPT ![id] = NoCall]
       /\ req' = [req EXCEPT ![reqMap[id]] = "replying"]
       /\ told' = [told EXCEPT ![reqMap[id]] = @ + 1]
       /\ answer' = [answer EXCEPT ![reqMap[id]] = c]
       /\ running' = reqMap[id]
  /\ frame' = "reply"
  /\ UNCHANGED <<issued, seed, msgid, sent, writing, phase, cursor, fault>>

(* OnRecv of the reply the peer made to call c: the entry is erased, then  *)
(* the callback runs.  The peer may reply in any order, late or twice.     *)
RecvReply(c) ==
  /\ LoopFree /\ phase = "open"
  /\ c \in sent
  /\ LET r == reqMap[msgid[c]] IN
       /\ r # NoCall
       /\ reqMap' = [reqMap EXCEPT ![msgid[c]] = NoCall]
       /\ req' = [req EXCEPT ![r] = "replying"]
       /\ told' = [told EXCEPT ![r] = @ + 1]
       /\ answer' = [answer EXCEPT ![r] = c]
       /\ running' = r
  /\ frame' = "reply"
  /\ UNCHANGED <<issued, seed, msgid, sent, writing, phase, cursor, fault>>

(* A faulty variant: no Destroy after the callback.                        *)
ReplyReturnsNoDestroy ==
  /\ frame = "reply" /\ phase \in {"open", "closed"} /\ ~fault
  /\ frame' = "idle"
  /\ running' = NoCall
  /\ UNCHANGED <<issued, seed, msgid, reqMap, req, sent, told, answer, writing,
                 phase, cursor, fault>>

(* The reply callback returns: Request::Destroy.                           *)
ReplyReturns ==
  /\ frame = "reply" /\ phase \in {"open", "closed"} /\ ~fault
  /\ req' = [req EXCEPT ![running] = "freed"]
  /\ frame' = "idle"
  /\ running' = NoCall
  /\ UNCHANGED <<issued, seed, msgid, reqMap, sent, told, answer, writing,
                 phase, cursor, fault>>

(* Request::OnFire with an entry under its msgid: NQ_ETIMEOUT, and the     *)
(* entry is erased only when the callback has returned.                    *)
OnFire(c) ==
  /\ LoopFree /\ phase # "deleted"
  /\ AlarmSet(c)
  /\ reqMap[msgid[c]] # NoCall
  /\ req' = [req EXCEPT ![c] = "firing"]
  /\ told' = [told EXCEPT ![c] = @ + 1]
  /\ frame' = "timeout"
  /\ running' = c
  /\ UNCHANGED <<issued, seed, msgid, reqMap, sent, answer, writing, phase,
                 cursor, fault>>

(* A faulty variant: NQ_ETIMEOUT although there is no entry.               *)
OnFireUnregisteredTells(c) ==
  /\ LoopFree /\ phase # "deleted"
  /\ AlarmSet(c)
  /\ reqMap[msgid[c]] = NoCall
  /\ req' = [req EXCEPT ![c] = "freed"]
  /\ told' = [told EXCEPT ![c] = @ + 1]
  /\ UNCHANGED <<issued, seed, msgid, reqMap, sent, answer, frame, running,
                 writing, phase, cursor, fault>>

(* OnFire with no entry under its msgid: the Request deletes itself.       *)
OnFireUnregistered(c) ==
  /\ LoopFree /\ phase # "deleted"
  /\ AlarmSet(c)
  /\ reqMap[msgid[c]] = NoCall
  /\ req' = [req EXCEPT ![c] = "freed"]
  /\ UNCHANGED <<issued, seed, msgid, reqMap, sent, told, answer, frame,
                 running, writing, phase, cursor, fault>>

(* OnFire reads stream_handler_->req_map_ of a handler that is gone.       *)
OnFireAfterDelete(c) ==
  /\ LoopFree /\ phase = "deleted"
  /\ AlarmSet(c)
  /\ fault' = TRUE
  /\ UNCHANGED <<issued, seed, msgid, reqMap, req, sent, told, answer, frame,
                 running, writing, phase, cursor>>

(* The timeout callback returns: erase(it) and delete this.  If Cleanup    *)
(* ran meanwhile, the iterator is invalid.                                 *)
TimeoutReturns ==
  /\ frame = "timeout" /\ phase \in {"open", "closed"} /\ ~fault
  /\ \/ /\ phase = "open"
        /\ reqMap' = [reqMap EXCEPT ![msgid[running]] = NoCall]
        /\ req' = [req EXCEPT ![running] = "freed"]
        /\ frame' = "idle"
        /\ running' = NoCall
        /\ fault' = fault
     \/ /\ phase = "closed"
        /\ fault' = TRUE
        /\ UNCHANGED <<reqMap, req, frame, running>>
  /\ UNCHANGED <<issued, seed, msgid, sent, told, answer, writing, phase,
                 cursor>>

----------------------------------------------------------------------------
Next ==
  \/ Call \/ CallWriteFails
  \/ OnClose \/ OnCloseReturns \/ GoAwayReturns \/ DeleteStream
  \/ \E c \in Calls : RecvReply(c) \/ OnFire(c) \/ OnFireUnregistered(c)
                        \/ OnFireAfterDelete(c)
  \/ ReplyReturns \/ TimeoutReturns

Spec == Init /\ [][Next]_vars

(* Callbacks return, and the loop is polled until every alarm it holds has *)
(* fired or was cancelled.                                                 *)
FairSpec ==
  /\ Spec
  /\ WF_vars(OnCloseReturns) /\ WF_vars(GoAwayReturns)
  /\ WF_vars(ReplyReturns) /\ WF_vars(TimeoutReturns)
  /\ \A c \in Calls : WF_vars(OnFire(c) \/ OnFireUnregistered(c))

----------------------------------------------------------------------------
(* The state keeps its types: no call, msgid or counter leaves its range.  *)
TypeOK ==
  /\ issued \in 0 .. MaxCalls
  /\ seed \in 0 .. (MsgIdLimit - 1)
  /\ msgid \in [Calls -> 0 .. (MsgIdLimit - 1)]
  /\ reqMap \in [MsgIds -> Calls \cup {NoCall}]
  /\ req \in [Calls -> ReqState]
  /\ sent \in SUBSET Calls
  /\ told \in [Calls -> Nat]
  /\ answer \in [Calls -> Calls \cup {NoCall}]
  /\ frame \in Frame
  /\ running \in Calls \cup {NoCall}
  /\ writing \in Calls \cup {NoCall}
  /\ phase \in Phase
  /\ cursor \in 0 .. (MsgIdLimit - 1)
  /\ fault \in BOOLEAN

(* on_reply of a call is invoked at most once, whatever replies, timeouts, *)
(* re-entrant calls and closes come together and even when msgids wrap;    *)
(* the one exception is a call whose own timeout callback made a write     *)
(* that closed the stream: Cleanup then still finds it in req_map_.        *)
AtMostOnce ==
  \A c \in Calls :
    told[c] > 1 => frame = "timeout" /\ running = c /\ phase # "open"

(* The factory has not yet started again with the first msgid.             *)
Unwrapped == issued < MsgIdLimit

(* Until msgids wrap, a callback is invoked with the reply the peer made   *)
(* to that very call, although OnRecv matches replies by msgid only.       *)
ReplyMatchesCall ==
  Unwrapped => \A c \in Calls : answer[c] \in {c, NoCall}

(* Until msgids wrap, a closed stream leaves no alarm in the loop:         *)
(* Request::OnFire reads the handler through a raw pointer, and the        *)
(* session frees the handler.                                              *)
NoOrphanAlarm ==
  Unwrapped /\ phase \in {"closed", "deleted"} /\ frame = "idle" =>
    \A c \in Calls : ~AlarmSet(c)

(* Until msgids wrap, between two handlers, a call whose callback was      *)
(* invoked has had its Request deleted: neither the memory nor the alarm   *)
(* leaks on any path.                                                      *)
SettledRequestFreed ==
  Unwrapped /\ LoopFree => \A c \in Calls : told[c] > 0 => req[c] = "freed"

(* No on_reply runs once OnClose is over and the serial is cleared.  This  *)
(* is about the callbacks of calls: on_notify and on_request, which OnRecv *)
(* goes on to invoke for what it has read, are not followed here.          *)
NoCallbackAfterClose ==
  [][(phase \in {"closed", "deleted"}) => (told' = told)]_vars

(* A call that got its Request is settled unless msgids wrap: its callback *)
(* is invoked with a reply, a timeout or a go-away.                        *)
EveryCallSettled ==
  \A c \in Calls : req[c] = "armed" ~> (told[c] > 0 \/ fault \/ ~Unwrapped)

----------------------------------------------------------------------------
(* Statements of the repository that the code does not keep.               *)

(* What OnRecv says of a reply whose msgid it does not find (nq_stream.cpp *)
(* line 367): the caller has already been told, by a timeout or by an      *)
(* earlier copy of the reply.                                              *)
UnknownReplySettled ==
  LoopFree /\ phase = "open" =>
    \A c \in sent : reqMap[msgid[c]] = NoCall => told[c] > 0

(* What nq_alarm.h line 19 asks of every alarm: OnFire does not cancel     *)
(* alarms.  Cleanup does, for each Request it goes over.                   *)
NoCancelInOnFire ==
  frame = "timeout" => phase # "cleanup"
=============================================================================
