----------------------------- MODULE NqRpcProof -----------------------------
(***************************************************************************)
(* Proofs about NqRpc for every number of calls and every msgid limit.     *)
(***************************************************************************)
EXTENDS NqRpc, TLAPS

(* AtMostOnce with the bound on the exception that makes it inductive.     *)
ToldBound ==
  \A c \in Calls :
    told[c] <= 1 \/ (frame = "timeout" /\ running = c /\ phase # "open")

(* A call that was not issued has left no trace.                           *)
Unissued ==
  \A c \in Calls : c > issued =>
    req[c] = "none" /\ told[c] = 0 /\ c \notin sent

(* An entry of req_map_ is under the msgid of its call.                    *)
Keyed ==
  \A i \in MsgIds : reqMap[i] # NoCall =>
    msgid[reqMap[i]] = i /\ reqMap[i] <= issued

(* The Request of an entry Cleanup has still to visit is alive.            *)
EntryAlive ==
  \A i \in MsgIds :
    reqMap[i] # NoCall /\ (phase = "cleanup" => i >= cursor) =>
      req[reqMap[i]] \in {"armed", "firing", "leaving"}

(* What the state of a Request says of its callback and of the call stack. *)
ReqInv ==
  \A c \in Calls :
    /\ req[c] \in {"none", "armed"} => told[c] = 0
    /\ req[c] # "none" => msgid[c] \in MsgIds
    /\ c \in sent => msgid[c] \in MsgIds
    /\ req[c] = "replying" => frame = "reply" /\ running = c
    /\ req[c] = "firing" => frame = "timeout" /\ running = c
    /\ req[c] = "leaving" => /\ phase \in {"cleanup", "closed", "deleted"}
                             /\ phase = "cleanup" => msgid[c] <= cursor

(* The callback that runs belongs to a call, and a reply callback to one   *)
(* whose Request waits to be destroyed.                                    *)
FrameInv ==
  /\ frame # "idle" => running \in Calls /\ req[running] # "none"
  /\ frame = "reply" => req[running] = "replying"
  /\ frame = "timeout" => req[running] # "armed"

(* Where Cleanup stands, and that nothing is registered after it.          *)
PhaseInv ==
  /\ phase = "cleanup" => cursor \in MsgIds /\ reqMap[cursor] # NoCall
  /\ phase \in {"closed", "deleted"} => \A i \in MsgIds : reqMap[i] = NoCall

(* The inductive invariant.                                                *)
IInv ==
  /\ TypeOK
  /\ ToldBound
  /\ Unissued
  /\ Keyed
  /\ EntryAlive
  /\ ReqInv
  /\ FrameInv
  /\ PhaseInv

----------------------------------------------------------------------------
(* nq::IdFactory::New never returns 0, the msgid of a notification, and    *)
(* stays below the limit.                                                  *)
LEMMA NewMsgIdRange ==
  ASSUME NEW s \in 0 .. (MsgIdLimit - 1)
  PROVE  NewMsgId(s) \in MsgIds
BY MsgIdLimitAssumption DEF NewMsgId, MsgIds

(* The facts about the two index sets that the proofs below rest on.       *)
LEMMA IndexFacts ==
  /\ NoCall \notin Calls
  /\ NoCall = 0
  /\ MsgIds \subseteq Nat \ {0}
  /\ 0 \in 0 .. (MsgIdLimit - 1)
  /\ MsgIds \subseteq 0 .. (MsgIdLimit - 1)
  /\ Calls \subseteq Nat \ {0}
  /\ \A n \in 0 .. MaxCalls :
       n < MaxCalls => n + 1 \in Calls /\ n + 1 \in 0 .. MaxCalls
BY MaxCallsAssumption, MsgIdLimitAssumption DEF Calls, NoCall, MsgIds

(* The inductive invariant holds initially.                                *)
LEMMA InitIInv == Init => IInv
  <1> SUFFICES ASSUME Init PROVE IInv
    OBVIOUS
  <1>1. TypeOK
    <2>1. issued \in 0 .. MaxCalls
      BY MaxCallsAssumption DEF Init
    <2>2. reqMap \in [MsgIds -> Calls \cup {NoCall}]
      BY DEF Init
    <2>3. msgid \in [Calls -> 0 .. (MsgIdLimit - 1)]
      BY IndexFacts DEF Init
    <2>4. QED
      BY <2>1, <2>2, <2>3, IndexFacts, Zenon DEF Init, TypeOK, ReqState, Frame, Phase
  <1>2. ToldBound /\ Unissued /\ ReqInv
    BY IndexFacts DEF Init, ToldBound, Unissued, ReqInv
  <1>3. Keyed /\ EntryAlive /\ FrameInv /\ PhaseInv
    BY IndexFacts DEF Init, Keyed, EntryAlive, FrameInv, PhaseInv
  <1>4. QED  BY <1>1, <1>2, <1>3 DEF IInv

(* A call registers a Request that no callback has been invoked for.       *)
LEMMA CallIInv ==
  ASSUME IInv, Call
  PROVE  IInv'
  <1>0. NewMsgId(seed) \in MsgIds
    BY NewMsgIdRange DEF IInv, TypeOK
  <1>1. TypeOK'
    BY IndexFacts, <1>0, Zenon DEF Call, EntryRequest, SerialValid, IInv, TypeOK,
       FrameInv, ReqState, Frame, Phase
  <1>2. ToldBound'
    BY IndexFacts, <1>0 DEF Call, EntryRequest, SerialValid, IInv, TypeOK,
       ToldBound, Unissued, Keyed, EntryAlive, ReqInv, FrameInv, PhaseInv
  <1>3. Unissued'
    BY IndexFacts, <1>0 DEF Call, EntryRequest, SerialValid, IInv, TypeOK,
       ToldBound, Unissued, Keyed, EntryAlive, ReqInv, FrameInv, PhaseInv
  <1>4. Keyed'
    <2> SUFFICES ASSUME NEW i \in MsgIds, reqMap'[i] # NoCall
                 PROVE  msgid'[reqMap'[i]] = i /\ reqMap'[i] <= issued'
      BY DEF Keyed
    <2>1. issued \in Nat /\ issued + 1 \in Calls /\ issued' = issued + 1
      BY IndexFacts DEF Call, IInv, TypeOK
    <2>2. CASE i = NewMsgId(seed)
      BY <2>1, <2>2, <1>0 DEF Call, EntryRequest, IInv, TypeOK
    <2>3. CASE i # NewMsgId(seed)
      <3>1. reqMap'[i] = reqMap[i] /\ reqMap[i] \in Calls
        BY <2>3, IndexFacts DEF Call, EntryRequest, IInv, TypeOK
      <3>2. reqMap[i] <= issued /\ reqMap[i] # issued + 1
        BY <2>1, <3>1, IndexFacts DEF IInv, Keyed
      <3>3. msgid'[reqMap[i]] = msgid[reqMap[i]]
        BY <3>1, <3>2 DEF Call, IInv, TypeOK
      <3>4. msgid[reqMap[i]] = i
        BY <3>1, IndexFacts DEF IInv, Keyed
      <3>5. reqMap[i] \in Nat
        BY <3>1, IndexFacts, Zenon
      <3>6. reqMap[i] <= issued + 1
        BY <2>1, <3>2, <3>5
      <3>7. QED
        BY <2>1, <3>1, <3>3, <3>4, <3>6
    <2>4. QED  BY <2>2, <2>3
  <1>5. EntryAlive'
    BY IndexFacts, <1>0 DEF Call, EntryRequest, SerialValid, IInv, TypeOK,
       ToldBound, Unissued, Keyed, EntryAlive, ReqInv, FrameInv, PhaseInv
  <1>6. ReqInv'
    BY IndexFacts, <1>0 DEF Call, EntryRequest, SerialValid, IInv, TypeOK,
       ToldBound, Unissued, Keyed, EntryAlive, ReqInv, FrameInv, PhaseInv
  <1>7. FrameInv'
    BY IndexFacts, <1>0 DEF Call, EntryRequest, SerialValid, IInv, TypeOK,
       ToldBound, Unissued, Keyed, EntryAlive, ReqInv, FrameInv, PhaseInv
  <1>8. PhaseInv'
    BY IndexFacts, <1>0 DEF Call, EntryRequest, SerialValid, IInv, TypeOK,
       ToldBound, Unissued, Keyed, EntryAlive, ReqInv, FrameInv, PhaseInv
  <1>9. QED
    BY <1>1, <1>2, <1>3, <1>4, <1>5, <1>6, <1>7, <1>8 DEF IInv

(* A call whose write closes the stream registers nothing.                 *)
LEMMA CallWriteFailsIInv ==
  ASSUME IInv, CallWriteFails
  PROVE  IInv'
  <1>0. NewMsgId(seed) \in MsgIds
    BY NewMsgIdRange DEF IInv, TypeOK
  <1>1. TypeOK'
    BY IndexFacts, <1>0, Zenon DEF CallWriteFails, IInv, TypeOK, FrameInv, ReqState,
       Frame, Phase
  <1>2. ToldBound'
    BY IndexFacts, <1>0 DEF CallWriteFails, IInv, TypeOK, ToldBound, Unissued,
       Keyed, EntryAlive, ReqInv, FrameInv, PhaseInv
  <1>3. Unissued'
    BY IndexFacts, <1>0 DEF CallWriteFails, IInv, TypeOK, ToldBound, Unissued,
       Keyed, EntryAlive, ReqInv, FrameInv, PhaseInv
  <1>4. Keyed'
    <2> SUFFICES ASSUME NEW i \in MsgIds, reqMap[i] # NoCall
                 PROVE  msgid'[reqMap[i]] = i /\ reqMap[i] <= issued'
      BY DEF Keyed, CallWriteFails
    <2>1. issued \in Nat /\ issued' = issued + 1
      BY IndexFacts DEF CallWriteFails, IInv, TypeOK
    <2>2. reqMap[i] \in Calls /\ reqMap[i] <= issued /\ reqMap[i] # issued + 1
      BY <2>1, IndexFacts DEF IInv, TypeOK, Keyed
    <2>3. msgid'[reqMap[i]] = msgid[reqMap[i]]
      BY <2>2 DEF CallWriteFails, IInv, TypeOK
    <2>4. msgid[reqMap[i]] = i /\ reqMap[i] \in Nat
      BY <2>2, IndexFacts, Zenon DEF IInv, Keyed
    <2>5. reqMap[i] <= issued + 1
      BY <2>1, <2>2, <2>4
    <2>6. QED
      BY <2>1, <2>3, <2>4, <2>5
  <1>5. EntryAlive'
    BY IndexFacts, <1>0 DEF CallWriteFails, IInv, TypeOK, ToldBound, Unissued,
       Keyed, EntryAlive, ReqInv, FrameInv, PhaseInv
  <1>6. ReqInv'
    BY IndexFacts, <1>0 DEF CallWriteFails, IInv, TypeOK, ToldBound, Unissued,
       Keyed, EntryAlive, ReqInv, FrameInv, PhaseInv
  <1>7. FrameInv'
    BY IndexFacts, <1>0 DEF CallWriteFails, IInv, TypeOK, ToldBound, Unissued,
       Keyed, EntryAlive, ReqInv, FrameInv, PhaseInv
  <1>8. PhaseInv'
    BY IndexFacts, <1>0 DEF CallWriteFails, IInv, TypeOK, ToldBound, Unissued,
       Keyed, EntryAlive, ReqInv, FrameInv, PhaseInv
  <1>9. QED
    BY <1>1, <1>2, <1>3, <1>4, <1>5, <1>6, <1>7, <1>8 DEF IInv

(* The close starts.                                                       *)
LEMMA OnCloseIInv ==
  ASSUME IInv, OnClose
  PROVE  IInv'
  <1>1. TypeOK'
    BY IndexFacts DEF OnClose, IInv, TypeOK, FrameInv, ReqState, Frame, Phase
  <1>2. ToldBound'
    BY IndexFacts DEF OnClose, IInv, TypeOK, ToldBound, Unissued, Keyed,
       EntryAlive, ReqInv, FrameInv, PhaseInv
  <1>3. Unissued'
    BY IndexFacts DEF OnClose, IInv, TypeOK, ToldBound, Unissued, Keyed,
       EntryAlive, ReqInv, FrameInv, PhaseInv
  <1>4. Keyed'
    BY IndexFacts DEF OnClose, IInv, TypeOK, ToldBound, Unissued, Keyed,
       EntryAlive, ReqInv, FrameInv, PhaseInv
  <1>5. EntryAlive'
    BY IndexFacts DEF OnClose, IInv, TypeOK, ToldBound, Unissued, Keyed,
       EntryAlive, ReqInv, FrameInv, PhaseInv
  <1>6. ReqInv'
    BY IndexFacts DEF OnClose, IInv, TypeOK, ToldBound, Unissued, Keyed,
       EntryAlive, ReqInv, FrameInv, PhaseInv
  <1>7. FrameInv'
    BY IndexFacts DEF OnClose, IInv, TypeOK, ToldBound, Unissued, Keyed,
       EntryAlive, ReqInv, FrameInv, PhaseInv
  <1>8. PhaseInv'
    BY IndexFacts DEF OnClose, IInv, TypeOK, ToldBound, Unissued, Keyed,
       EntryAlive, ReqInv, FrameInv, PhaseInv
  <1>9. QED
    BY <1>1, <1>2, <1>3, <1>4, <1>5, <1>6, <1>7, <1>8 DEF IInv

(* Cleanup starts: the first go-away, or nothing to clean up.              *)
LEMMA OnCloseReturnsIInv ==
  ASSUME IInv, OnCloseReturns
  PROVE  IInv'
  <1>1. CASE GoAway(0)
    <2>1. PICK id \in MsgIds :
            /\ id > 0 /\ reqMap[id] # NoCall
            /\ \A j \in MsgIds : j > 0 /\ reqMap[j] # NoCall => id <= j
            /\ cursor' = id /\ phase' = "cleanup"
            /\ told' = [told EXCEPT ![reqMap[id]] = @ + 1]
      BY <1>1, Zenon DEF GoAway, Keys
    <2>2. req' = [req EXCEPT ![reqMap[id]] = "leaving"]
      BY <1>1, <2>1, IndexFacts DEF OnCloseReturns, CleanupDone, GoAway, Keys
    <2>3. reqMap' = reqMap /\ writing' = writing
      BY <1>1, <2>1, IndexFacts DEF OnCloseReturns, CleanupDone, GoAway, Keys
    <2>4. UNCHANGED <<issued, seed, msgid, sent, answer, frame, running, fault>>
      BY DEF OnCloseReturns
    <2>5. phase = "onclose"
      BY DEF OnCloseReturns
    <2>6. TypeOK'
      <3>1. reqMap[id] \in Calls
        BY <2>1 DEF IInv, TypeOK
      <3>2. told' \in [Calls -> Nat] /\ req' \in [Calls -> ReqState]
        BY <2>1, <2>2, <3>1 DEF IInv, TypeOK, ReqState
      <3>3. QED
        BY <2>1, <2>3, <2>4, <3>2, IndexFacts, Zenon DEF IInv, TypeOK, Phase
    <2>7. ToldBound'
      BY IndexFacts, <2>1, <2>2, <2>3, <2>4, <2>5 DEF IInv, TypeOK, ToldBound,
         Unissued, Keyed, EntryAlive, ReqInv, FrameInv, PhaseInv
    <2>8. Unissued'
      BY IndexFacts, <2>1, <2>2, <2>3, <2>4, <2>5 DEF IInv, TypeOK, ToldBound,
         Unissued, Keyed, EntryAlive, ReqInv, FrameInv, PhaseInv
    <2>9. Keyed'
      BY IndexFacts, <2>1, <2>2, <2>3, <2>4, <2>5, Zenon DEF IInv, TypeOK, ToldBound,
         Unissued, Keyed, EntryAlive, ReqInv, FrameInv, PhaseInv
    <2>10. EntryAlive'
      BY IndexFacts, <2>1, <2>2, <2>3, <2>4, <2>5 DEF IInv, TypeOK, ToldBound,
         Unissued, Keyed, EntryAlive, ReqInv, FrameInv, PhaseInv
    <2>11. ReqInv'
      BY IndexFacts, <2>1, <2>2, <2>3, <2>4, <2>5, SMTT(60) DEF IInv, TypeOK, ToldBound,
         Unissued, Keyed, EntryAlive, ReqInv, FrameInv, PhaseInv
    <2>12. FrameInv'
      BY IndexFacts, <2>1, <2>2, <2>3, <2>4, <2>5, SMTT(60) DEF IInv, TypeOK, ToldBound,
         Unissued, Keyed, EntryAlive, ReqInv, FrameInv, PhaseInv
    <2>13. PhaseInv'
      BY IndexFacts, <2>1, <2>2, <2>3, <2>4, <2>5, Zenon DEF IInv, TypeOK, ToldBound,
         Unissued, Keyed, EntryAlive, ReqInv, FrameInv, PhaseInv
    <2>14. QED
      BY <2>6, <2>7, <2>8, <2>9, <2>10, <2>11, <2>12, <2>13 DEF IInv
  <1>2. CASE CleanupDone(0)
    <2>1. TypeOK'
      BY IndexFacts, <1>2, Zenon DEF OnCloseReturns, CleanupDone, GoAway, Keys, IInv,
         TypeOK, FrameInv, ReqState, Frame, Phase
    <2>2. ToldBound'
      BY IndexFacts, <1>2, Zenon DEF OnCloseReturns, CleanupDone, GoAway, Keys, IInv,
         TypeOK, ToldBound, Unissued, Keyed, EntryAlive, ReqInv, FrameInv,
         PhaseInv
    <2>3. Unissued'
      BY IndexFacts, <1>2, Zenon DEF OnCloseReturns, CleanupDone, GoAway, Keys, IInv,
         TypeOK, ToldBound, Unissued, Keyed, EntryAlive, ReqInv, FrameInv,
         PhaseInv
    <2>4. Keyed'
      BY IndexFacts, <1>2, Zenon DEF OnCloseReturns, CleanupDone, GoAway, Keys, IInv,
         TypeOK, ToldBound, Unissued, Keyed, EntryAlive, ReqInv, FrameInv,
         PhaseInv
    <2>5. EntryAlive'
      BY IndexFacts, <1>2, Zenon DEF OnCloseReturns, CleanupDone, GoAway, Keys, IInv,
         TypeOK, ToldBound, Unissued, Keyed, EntryAlive, ReqInv, FrameInv,
         PhaseInv
    <2>6. ReqInv'
      BY IndexFacts, <1>2, SMTT(60) DEF OnCloseReturns, CleanupDone, GoAway, Keys, IInv,
         TypeOK, ToldBound, Unissued, Keyed, EntryAlive, ReqInv, FrameInv,
         PhaseInv
    <2>7. FrameInv'
      BY IndexFacts, <1>2, Zenon DEF OnCloseReturns, CleanupDone, GoAway, Keys, IInv,
         TypeOK, ToldBound, Unissued, Keyed, EntryAlive, ReqInv, FrameInv,
         PhaseInv
    <2>8. PhaseInv'
      BY IndexFacts, <1>2, Zenon DEF OnCloseReturns, CleanupDone, GoAway, Keys, IInv,
         TypeOK, ToldBound, Unissued, Keyed, EntryAlive, ReqInv, FrameInv,
         PhaseInv
    <2>9. QED
      BY <2>1, <2>2, <2>3, <2>4, <2>5, <2>6, <2>7, <2>8 DEF IInv
  <1>3. QED  BY <1>1, <1>2 DEF OnCloseReturns

(* Cleanup destroys a Request and goes on to the next, or ends.            *)
LEMMA GoAwayReturnsIInv ==
  ASSUME IInv, GoAwayReturns
  PROVE  IInv'
  <1>1. CASE GoAway(cursor)
    <2>1. PICK id \in MsgIds :
            /\ id > cursor /\ reqMap[id] # NoCall
            /\ \A j \in MsgIds : j > cursor /\ reqMap[j] # NoCall => id <= j
            /\ cursor' = id /\ phase' = "cleanup"
            /\ told' = [told EXCEPT ![reqMap[id]] = @ + 1]
      BY <1>1, Zenon DEF GoAway, Keys
    <2>2. req' = [[req EXCEPT ![reqMap[cursor]] = "freed"]
                   EXCEPT ![reqMap[id]] = "leaving"]
      BY <1>1, <2>1, IndexFacts DEF GoAwayReturns, CleanupDone, GoAway, Keys
    <2>3. reqMap' = reqMap /\ writing' = writing
      BY <1>1, <2>1, IndexFacts DEF GoAwayReturns, CleanupDone, GoAway, Keys
    <2>4. UNCHANGED <<issued, seed, msgid, sent, answer, frame, running, fault>>
      BY DEF GoAwayReturns
    <2>5. phase = "cleanup"
      BY DEF GoAwayReturns
    <2>6. TypeOK'
      <3>1. reqMap[id] \in Calls
        BY <2>1 DEF IInv, TypeOK
      <3>2. told' \in [Calls -> Nat] /\ req' \in [Calls -> ReqState]
        BY <2>1, <2>2, <3>1 DEF IInv, TypeOK, ReqState
      <3>3. QED
        BY <2>1, <2>3, <2>4, <3>2, IndexFacts DEF IInv, TypeOK, Phase
    <2>7. ToldBound'
      BY IndexFacts, <2>1, <2>2, <2>3, <2>4, <2>5 DEF IInv, TypeOK, ToldBound,
         Unissued, Keyed, EntryAlive, ReqInv, FrameInv, PhaseInv
    <2>8. Unissued'
      BY IndexFacts, <2>1, <2>2, <2>3, <2>4, <2>5, SMTT(60) DEF IInv, TypeOK, ToldBound,
         Unissued, Keyed, EntryAlive, ReqInv, FrameInv, PhaseInv
    <2>9. Keyed'
      BY IndexFacts, <2>1, <2>2, <2>3, <2>4, <2>5, Zenon DEF IInv, TypeOK, ToldBound,
         Unissued, Keyed, EntryAlive, ReqInv, FrameInv, PhaseInv
    <2>10. EntryAlive'
      <3> SUFFICES ASSUME NEW i \in MsgIds, reqMap[i] # NoCall, i >= id
                   PROVE  req'[reqMap[i]] \in {"armed", "firing", "leaving"}
        BY <2>1, <2>3 DEF EntryAlive
      <3>1. cursor \in MsgIds /\ reqMap[cursor] \in Calls /\ reqMap[i] \in Calls
        BY <2>5, IndexFacts, Zenon DEF IInv, TypeOK, PhaseInv
      <3>2. i > cursor
        BY <2>1, <3>1, IndexFacts
      <3>3. reqMap[i] # reqMap[cursor]
        BY <3>1, <3>2, IndexFacts DEF IInv, Keyed
      <3>4. req[reqMap[i]] \in {"armed", "firing", "leaving"}
        BY <3>1, <3>2, IndexFacts, SMTT(60) DEF IInv, EntryAlive
      <3>5. QED
        BY <2>1, <2>2, <3>1, <3>3, <3>4, Zenon DEF IInv, TypeOK
    <2>11. ReqInv'
      BY IndexFacts, <2>1, <2>2, <2>3, <2>4, <2>5, SMTT(60) DEF IInv, TypeOK, ToldBound,
         Unissued, Keyed, EntryAlive, ReqInv, FrameInv, PhaseInv
    <2>12. FrameInv'
      BY IndexFacts, <2>1, <2>2, <2>3, <2>4, <2>5, SMTT(60) DEF IInv, TypeOK, ToldBound,
         Unissued, Keyed, EntryAlive, ReqInv, FrameInv, PhaseInv
    <2>13. PhaseInv'
      BY IndexFacts, <2>1, <2>2, <2>3, <2>4, <2>5, Zenon DEF IInv, TypeOK, ToldBound,
         Unissued, Keyed, EntryAlive, ReqInv, FrameInv, PhaseInv
    <2>14. QED
      BY <2>6, <2>7, <2>8, <2>9, <2>10, <2>11, <2>12, <2>13 DEF IInv
  <1>2. CASE CleanupDone(cursor)
    <2>1. TypeOK'
      BY IndexFacts, <1>2, Zenon DEF GoAwayReturns, CleanupDone, GoAway, Keys, IInv,
         TypeOK, FrameInv, ReqState, Frame, Phase
    <2>2. ToldBound'
      BY IndexFacts, <1>2, Zenon DEF GoAwayReturns, CleanupDone, GoAway, Keys, IInv,
         TypeOK, ToldBound, Unissued, Keyed, EntryAlive, ReqInv, FrameInv,
         PhaseInv
    <2>3. Unissued'
      BY IndexFacts, <1>2, SMTT(60) DEF GoAwayReturns, CleanupDone, GoAway, Keys, IInv,
         TypeOK, ToldBound, Unissued, Keyed, EntryAlive, ReqInv, FrameInv,
         PhaseInv
    <2>4. Keyed'
      BY IndexFacts, <1>2, SMTT(60) DEF GoAwayReturns, CleanupDone, GoAway, Keys, IInv,
         TypeOK, ToldBound, Unissued, Keyed, EntryAlive, ReqInv, FrameInv,
         PhaseInv
    <2>5. EntryAlive'
      BY IndexFacts, <1>2, SMTT(60) DEF GoAwayReturns, CleanupDone, GoAway, Keys, IInv,
         TypeOK, ToldBound, Unissued, Keyed, EntryAlive, ReqInv, FrameInv,
         PhaseInv
    <2>6. ReqInv'
      BY IndexFacts, <1>2 DEF GoAwayReturns, CleanupDone, GoAway, Keys, IInv,
         TypeOK, ToldBound, Unissued, Keyed, EntryAlive, ReqInv, FrameInv,
         PhaseInv
    <2>7. FrameInv'
      BY IndexFacts, <1>2, SMTT(60) DEF GoAwayReturns, CleanupDone, GoAway, Keys, IInv,
         TypeOK, ToldBound, Unissued, Keyed, EntryAlive, ReqInv, FrameInv,
         PhaseInv
    <2>8. PhaseInv'
      BY IndexFacts, <1>2 DEF GoAwayReturns, CleanupDone, GoAway, Keys, IInv,
         TypeOK, ToldBound, Unissued, Keyed, EntryAlive, ReqInv, FrameInv,
         PhaseInv
    <2>9. QED
      BY <2>1, <2>2, <2>3, <2>4, <2>5, <2>6, <2>7, <2>8 DEF IInv
  <1>3. QED  BY <1>1, <1>2 DEF GoAwayReturns

(* The session deletes the stream.                                         *)
LEMMA DeleteStreamIInv ==
  ASSUME IInv, DeleteStream
  PROVE  IInv'
  <1>1. TypeOK'
    BY IndexFacts DEF DeleteStream, LoopFree, IInv, TypeOK, FrameInv,
       ReqState, Frame, Phase
  <1>2. ToldBound'
    BY IndexFacts DEF DeleteStream, LoopFree, IInv, TypeOK, ToldBound,
       Unissued, Keyed, EntryAlive, ReqInv, FrameInv, PhaseInv
  <1>3. Unissued'
    BY IndexFacts DEF DeleteStream, LoopFree, IInv, TypeOK, ToldBound,
       Unissued, Keyed, EntryAlive, ReqInv, FrameInv, PhaseInv
  <1>4. Keyed'
    BY IndexFacts, SMTT(60) DEF DeleteStream, LoopFree, IInv, TypeOK, ToldBound,
       Unissued, Keyed, EntryAlive, ReqInv, FrameInv, PhaseInv
  <1>5. EntryAlive'
    BY IndexFacts DEF DeleteStream, LoopFree, IInv, TypeOK, ToldBound,
       Unissued, Keyed, EntryAlive, ReqInv, FrameInv, PhaseInv
  <1>6. ReqInv'
    BY IndexFacts DEF DeleteStream, LoopFree, IInv, TypeOK, ToldBound,
       Unissued, Keyed, EntryAlive, ReqInv, FrameInv, PhaseInv
  <1>7. FrameInv'
    BY IndexFacts DEF DeleteStream, LoopFree, IInv, TypeOK, ToldBound,
       Unissued, Keyed, EntryAlive, ReqInv, FrameInv, PhaseInv
  <1>8. PhaseInv'
    BY IndexFacts DEF DeleteStream, LoopFree, IInv, TypeOK, ToldBound,
       Unissued, Keyed, EntryAlive, ReqInv, FrameInv, PhaseInv
  <1>9. QED
    BY <1>1, <1>2, <1>3, <1>4, <1>5, <1>6, <1>7, <1>8 DEF IInv

(* A reply finds a Request no callback has been invoked for.               *)
LEMMA RecvReplyIInv ==
  ASSUME IInv, NEW c \in Calls, RecvReply(c)
  PROVE  IInv'
  <1>1. TypeOK'
    <2>1. msgid[c] \in MsgIds /\ reqMap[msgid[c]] \in Calls
      BY SMTT(60) DEF RecvReply, IInv, TypeOK, ReqInv
    <2>2. QED
      BY <2>1, SMTT(60) DEF RecvReply, IInv, TypeOK, ReqState, Frame
  <1>2. ToldBound'
    BY IndexFacts, SMTT(60) DEF RecvReply, LoopFree, IInv, TypeOK, ToldBound, Unissued,
       Keyed, EntryAlive, ReqInv, FrameInv, PhaseInv
  <1>3. Unissued'
    BY IndexFacts, SMTT(60) DEF RecvReply, LoopFree, IInv, TypeOK, ToldBound, Unissued,
       Keyed, EntryAlive, ReqInv, FrameInv, PhaseInv
  <1>4. Keyed'
    BY IndexFacts, SMTT(60) DEF RecvReply, LoopFree, IInv, TypeOK, ToldBound, Unissued,
       Keyed, EntryAlive, ReqInv, FrameInv, PhaseInv
  <1>5. EntryAlive'
    BY IndexFacts, SMTT(60) DEF RecvReply, LoopFree, IInv, TypeOK, ToldBound, Unissued,
       Keyed, EntryAlive, ReqInv, FrameInv, PhaseInv
  <1>6. ReqInv'
    BY IndexFacts, SMTT(60) DEF RecvReply, LoopFree, IInv, TypeOK, ToldBound, Unissued,
       Keyed, EntryAlive, ReqInv, FrameInv, PhaseInv
  <1>7. FrameInv'
    BY IndexFacts, SMTT(60) DEF RecvReply, LoopFree, IInv, TypeOK, ToldBound, Unissued,
       Keyed, EntryAlive, ReqInv, FrameInv, PhaseInv
  <1>8. PhaseInv'
    BY IndexFacts, SMTT(60) DEF RecvReply, LoopFree, IInv, TypeOK, ToldBound, Unissued,
       Keyed, EntryAlive, ReqInv, FrameInv, PhaseInv
  <1>9. QED
    BY <1>1, <1>2, <1>3, <1>4, <1>5, <1>6, <1>7, <1>8 DEF IInv

(* So does a timeout.                                                      *)
LEMMA OnFireIInv ==
  ASSUME IInv, NEW c \in Calls, OnFire(c)
  PROVE  IInv'
  <1>1. TypeOK'
    BY IndexFacts DEF OnFire, LoopFree, AlarmSet, IInv, TypeOK, FrameInv,
       ReqState, Frame, Phase
  <1>2. ToldBound'
    BY IndexFacts DEF OnFire, LoopFree, AlarmSet, IInv, TypeOK, ToldBound,
       Unissued, Keyed, EntryAlive, ReqInv, FrameInv, PhaseInv
  <1>3. Unissued'
    BY IndexFacts, SMTT(60) DEF OnFire, LoopFree, AlarmSet, IInv, TypeOK, ToldBound,
       Unissued, Keyed, EntryAlive, ReqInv, FrameInv, PhaseInv
  <1>4. Keyed'
    BY IndexFacts, SMTT(60) DEF OnFire, LoopFree, AlarmSet, IInv, TypeOK, ToldBound,
       Unissued, Keyed, EntryAlive, ReqInv, FrameInv, PhaseInv
  <1>5. EntryAlive'
    BY IndexFacts, SMTT(60) DEF OnFire, LoopFree, AlarmSet, IInv, TypeOK, ToldBound,
       Unissued, Keyed, EntryAlive, ReqInv, FrameInv, PhaseInv
  <1>6. ReqInv'
    BY IndexFacts, SMTT(60) DEF OnFire, LoopFree, AlarmSet, IInv, TypeOK, ToldBound,
       Unissued, Keyed, EntryAlive, ReqInv, FrameInv, PhaseInv
  <1>7. FrameInv'
    BY IndexFacts, SMTT(60) DEF OnFire, LoopFree, AlarmSet, IInv, TypeOK, ToldBound,
       Unissued, Keyed, EntryAlive, ReqInv, FrameInv, PhaseInv
  <1>8. PhaseInv'
    BY IndexFacts, SMTT(60) DEF OnFire, LoopFree, AlarmSet, IInv, TypeOK, ToldBound,
       Unissued, Keyed, EntryAlive, ReqInv, FrameInv, PhaseInv
  <1>9. QED
    BY <1>1, <1>2, <1>3, <1>4, <1>5, <1>6, <1>7, <1>8 DEF IInv

(* A Request whose entry is gone deletes itself.                           *)
LEMMA OnFireUnregisteredIInv ==
  ASSUME IInv, NEW c \in Calls, OnFireUnregistered(c)
  PROVE  IInv'
  <1>1. TypeOK'
    BY IndexFacts DEF OnFireUnregistered, LoopFree, AlarmSet, IInv, TypeOK,
       FrameInv, ReqState, Frame, Phase
  <1>2. ToldBound'
    BY IndexFacts, SMTT(60) DEF OnFireUnregistered, LoopFree, AlarmSet, IInv, TypeOK,
       ToldBound, Unissued, Keyed, EntryAlive, ReqInv, FrameInv, PhaseInv
  <1>3. Unissued'
    BY IndexFacts, SMTT(60) DEF OnFireUnregistered, LoopFree, AlarmSet, IInv, TypeOK,
       ToldBound, Unissued, Keyed, EntryAlive, ReqInv, FrameInv, PhaseInv
  <1>4. Keyed'
    BY IndexFacts, SMTT(60) DEF OnFireUnregistered, LoopFree, AlarmSet, IInv, TypeOK,
       ToldBound, Unissued, Keyed, EntryAlive, ReqInv, FrameInv, PhaseInv
  <1>5. EntryAlive'
    BY IndexFacts, SMTT(60) DEF OnFireUnregistered, LoopFree, AlarmSet, IInv, TypeOK,
       ToldBound, Unissued, Keyed, EntryAlive, ReqInv, FrameInv, PhaseInv
  <1>6. ReqInv'
    BY IndexFacts, SMTT(60) DEF OnFireUnregistered, LoopFree, AlarmSet, IInv, TypeOK,
       ToldBound, Unissued, Keyed, EntryAlive, ReqInv, FrameInv, PhaseInv
  <1>7. FrameInv'
    BY IndexFacts, SMTT(60) DEF OnFireUnregistered, LoopFree, AlarmSet, IInv, TypeOK,
       ToldBound, Unissued, Keyed, EntryAlive, ReqInv, FrameInv, PhaseInv
  <1>8. PhaseInv'
    BY IndexFacts, SMTT(60) DEF OnFireUnregistered, LoopFree, AlarmSet, IInv, TypeOK,
       ToldBound, Unissued, Keyed, EntryAlive, ReqInv, FrameInv, PhaseInv
  <1>9. QED
    BY <1>1, <1>2, <1>3, <1>4, <1>5, <1>6, <1>7, <1>8 DEF IInv

(* A Request fires after its handler.                                      *)
LEMMA OnFireAfterDeleteIInv ==
  ASSUME IInv, NEW c \in Calls, OnFireAfterDelete(c)
  PROVE  IInv'
  <1>1. TypeOK'
    BY IndexFacts, SMTT(60) DEF OnFireAfterDelete, LoopFree, IInv, TypeOK, FrameInv,
       ReqState, Frame, Phase
  <1>2. ToldBound'
    BY IndexFacts, SMTT(60) DEF OnFireAfterDelete, LoopFree, IInv, TypeOK, ToldBound,
       Unissued, Keyed, EntryAlive, ReqInv, FrameInv, PhaseInv
  <1>3. Unissued'
    BY IndexFacts, SMTT(60) DEF OnFireAfterDelete, LoopFree, IInv, TypeOK, ToldBound,
       Unissued, Keyed, EntryAlive, ReqInv, FrameInv, PhaseInv
  <1>4. Keyed'
    BY IndexFacts, SMTT(60) DEF OnFireAfterDelete, LoopFree, IInv, TypeOK, ToldBound,
       Unissued, Keyed, EntryAlive, ReqInv, FrameInv, PhaseInv
  <1>5. EntryAlive'
    BY IndexFacts, SMTT(60) DEF OnFireAfterDelete, LoopFree, IInv, TypeOK, ToldBound,
       Unissued, Keyed, EntryAlive, ReqInv, FrameInv, PhaseInv
  <1>6. ReqInv'
    BY IndexFacts, SMTT(60) DEF OnFireAfterDelete, LoopFree, IInv, TypeOK, ToldBound,
       Unissued, Keyed, EntryAlive, ReqInv, FrameInv, PhaseInv
  <1>7. FrameInv'
    BY IndexFacts, SMTT(60) DEF OnFireAfterDelete, LoopFree, IInv, TypeOK, ToldBound,
       Unissued, Keyed, EntryAlive, ReqInv, FrameInv, PhaseInv
  <1>8. PhaseInv'
    BY IndexFacts DEF OnFireAfterDelete, LoopFree, IInv, TypeOK, ToldBound,
       Unissued, Keyed, EntryAlive, ReqInv, FrameInv, PhaseInv
  <1>9. QED
    BY <1>1, <1>2, <1>3, <1>4, <1>5, <1>6, <1>7, <1>8 DEF IInv

(* The reply callback returns.                                             *)
LEMMA ReplyReturnsIInv ==
  ASSUME IInv, ReplyReturns
  PROVE  IInv'
  <1>1. TypeOK'
    BY IndexFacts, SMTT(60) DEF ReplyReturns, IInv, TypeOK, FrameInv, ReqState, Frame,
       Phase
  <1>2. ToldBound'
    BY IndexFacts, SMTT(60) DEF ReplyReturns, IInv, TypeOK, ToldBound, Unissued, Keyed,
       EntryAlive, ReqInv, FrameInv, PhaseInv
  <1>3. Unissued'
    BY IndexFacts, SMTT(60) DEF ReplyReturns, IInv, TypeOK, ToldBound, Unissued, Keyed,
       EntryAlive, ReqInv, FrameInv, PhaseInv
  <1>4. Keyed'
    BY IndexFacts, SMTT(60) DEF ReplyReturns, IInv, TypeOK, ToldBound, Unissued, Keyed,
       EntryAlive, ReqInv, FrameInv, PhaseInv
  <1>5. EntryAlive'
    BY IndexFacts, SMTT(60) DEF ReplyReturns, IInv, TypeOK, ToldBound, Unissued, Keyed,
       EntryAlive, ReqInv, FrameInv, PhaseInv
  <1>6. ReqInv'
    BY IndexFacts, SMTT(60) DEF ReplyReturns, IInv, TypeOK, ToldBound, Unissued, Keyed,
       EntryAlive, ReqInv, FrameInv, PhaseInv
  <1>7. FrameInv'
    BY IndexFacts, SMTT(60) DEF ReplyReturns, IInv, TypeOK, ToldBound, Unissued, Keyed,
       EntryAlive, ReqInv, FrameInv, PhaseInv
  <1>8. PhaseInv'
    BY IndexFacts DEF ReplyReturns, IInv, TypeOK, ToldBound, Unissued, Keyed,
       EntryAlive, ReqInv, FrameInv, PhaseInv
  <1>9. QED
    BY <1>1, <1>2, <1>3, <1>4, <1>5, <1>6, <1>7, <1>8 DEF IInv

(* The timeout callback returns.                                           *)
LEMMA TimeoutReturnsIInv ==
  ASSUME IInv, TimeoutReturns
  PROVE  IInv'
  <1>1. TypeOK'
    BY IndexFacts, ZenonT(60) DEF TimeoutReturns, IInv, TypeOK, FrameInv, ReqState, Frame,
       Phase
  <1>2. ToldBound'
    BY IndexFacts, SMTT(60) DEF TimeoutReturns, IInv, TypeOK, ToldBound, Unissued,
       Keyed, EntryAlive, ReqInv, FrameInv, PhaseInv
  <1>3. Unissued'
    BY IndexFacts, SMTT(60) DEF TimeoutReturns, IInv, TypeOK, ToldBound, Unissued,
       Keyed, EntryAlive, ReqInv, FrameInv, PhaseInv
  <1>4. Keyed'
    BY IndexFacts, SMTT(60) DEF TimeoutReturns, IInv, TypeOK, ToldBound, Unissued,
       Keyed, EntryAlive, ReqInv, FrameInv, PhaseInv
  <1>5. EntryAlive'
    <2>1. CASE phase = "closed"
      BY <2>1, IndexFacts, SMTT(60) DEF TimeoutReturns, IInv, PhaseInv, EntryAlive
    <2>2. CASE phase = "open"
      <3>1. running \in Calls /\ msgid[running] \in MsgIds
        BY DEF TimeoutReturns, IInv, FrameInv, ReqInv
      <3>2. \A i \in MsgIds : i # msgid[running] /\ reqMap[i] # NoCall =>
              reqMap[i] \in Calls /\ reqMap[i] # running
        BY <3>1 DEF IInv, TypeOK, Keyed
      <3>3. \A i \in MsgIds : reqMap'[i] # NoCall =>
              reqMap'[i] = reqMap[i] /\ req'[reqMap[i]] = req[reqMap[i]]
        BY <2>2, <3>1, <3>2, SMTT(60) DEF TimeoutReturns, IInv, TypeOK
      <3>4. QED
        BY <2>2, <3>3, SMTT(60) DEF TimeoutReturns, IInv, EntryAlive
    <2>3. QED  BY <2>1, <2>2 DEF TimeoutReturns
  <1>6. ReqInv'
    BY IndexFacts, SMTT(60) DEF TimeoutReturns, IInv, TypeOK, ToldBound, Unissued,
       Keyed, EntryAlive, ReqInv, FrameInv, PhaseInv
  <1>7. FrameInv'
    BY IndexFacts, SMTT(60) DEF TimeoutReturns, IInv, TypeOK, ToldBound, Unissued,
       Keyed, EntryAlive, ReqInv, FrameInv, PhaseInv
  <1>8. PhaseInv'
    BY IndexFacts, SMTT(60) DEF TimeoutReturns, IInv, TypeOK, ToldBound, Unissued,
       Keyed, EntryAlive, ReqInv, FrameInv, PhaseInv
  <1>9. QED
    BY <1>1, <1>2, <1>3, <1>4, <1>5, <1>6, <1>7, <1>8 DEF IInv

(* Every step keeps the inductive invariant.                               *)
LEMMA NextIInv == IInv /\ [Next]_vars => IInv'
  <1> SUFFICES ASSUME IInv, [Next]_vars PROVE IInv'
    OBVIOUS
  <1>1. CASE Call \/ CallWriteFails
    BY <1>1, CallIInv, CallWriteFailsIInv
  <1>2. CASE OnClose \/ OnCloseReturns \/ GoAwayReturns \/ DeleteStream
    BY <1>2, OnCloseIInv, OnCloseReturnsIInv, GoAwayReturnsIInv, DeleteStreamIInv
  <1>3. ASSUME NEW c \in Calls,
               RecvReply(c) \/ OnFire(c) \/ OnFireUnregistered(c)
                 \/ OnFireAfterDelete(c)
        PROVE  IInv'
    BY <1>3, RecvReplyIInv, OnFireIInv, OnFireUnregisteredIInv,
       OnFireAfterDeleteIInv, SMTT(60)
  <1>4. CASE ReplyReturns \/ TimeoutReturns
    BY <1>4, ReplyReturnsIInv, TimeoutReturnsIInv
  <1>5. CASE UNCHANGED vars
    BY <1>5, SMTT(60) DEF vars, IInv, TypeOK, ToldBound, Unissued, Keyed, EntryAlive,
       ReqInv, FrameInv, PhaseInv
  <1>6. QED  BY <1>1, <1>2, <1>3, <1>4, <1>5 DEF Next

(* The variables of NqRpc keep their types in every behaviour.             *)
THEOREM TypeCorrect == Spec => []TypeOK
  <1>1. IInv => TypeOK
    BY DEF IInv
  <1>2. QED  BY InitIInv, NextIInv, <1>1, PTL DEF Spec

(* on_reply of a call is invoked at most once for every number of calls    *)
(* and every msgid limit, save for the call whose own timeout callback     *)
(* closed the stream (Request::OnFire erases its entry too late).          *)
THEOREM CallbackAtMostOnce == Spec => []AtMostOnce
  <1>1. IInv => AtMostOnce
    <2> SUFFICES ASSUME IInv, NEW c \in Calls, told[c] > 1
                 PROVE  frame = "timeout" /\ running = c /\ phase # "open"
      BY DEF AtMostOnce
    <2>1. told[c] \in Nat
      BY DEF IInv, TypeOK
    <2>2. ~(told[c] <= 1)
      BY <2>1
    <2>3. QED  BY <2>2 DEF IInv, ToldBound
  <1>2. QED  BY InitIInv, NextIInv, <1>1, PTL DEF Spec

(* No on_reply runs once the close of the stream is over.                  *)
THEOREM SilentAfterClose == Spec => NoCallbackAfterClose
  <1>1. IInv /\ [Next]_vars =>
          [(phase \in {"closed", "deleted"}) => (told' = told)]_vars
    <2> SUFFICES ASSUME IInv, [Next]_vars, phase \in {"closed", "deleted"}
                 PROVE  told' = told
      BY SMTT(60)
    <2>1. CASE Call \/ CallWriteFails \/ OnClose \/ OnCloseReturns
                 \/ GoAwayReturns \/ DeleteStream
      BY <2>1, SMTT(60) DEF Call, CallWriteFails, SerialValid, OnClose, OnCloseReturns,
         GoAwayReturns, DeleteStream
    <2>2. ASSUME NEW c \in Calls,
                 RecvReply(c) \/ OnFireUnregistered(c) \/ OnFireAfterDelete(c)
          PROVE  told' = told
      BY <2>2, ZenonT(60) DEF RecvReply, OnFireUnregistered, OnFireAfterDelete
    <2>3. ASSUME NEW c \in Calls, OnFire(c)
          PROVE  told' = told
      <3>1. msgid[c] \in MsgIds
        BY <2>3, SMTT(60) DEF OnFire, AlarmSet, IInv, ReqInv
      <3>2. reqMap[msgid[c]] = NoCall
        BY <3>1, SMTT(60) DEF IInv, PhaseInv
      <3>3. QED  BY <2>3, <3>2, Zenon DEF OnFire
    <2>4. CASE ReplyReturns \/ TimeoutReturns \/ UNCHANGED vars
      BY <2>4, SMTT(60) DEF ReplyReturns, TimeoutReturns, vars
    <2>5. QED  BY <2>1, <2>2, <2>3, <2>4 DEF Next
  <1>2. QED
    BY InitIInv, NextIInv, <1>1, PTL DEF Spec, NoCallbackAfterClose

----------------------------------------------------------------------------
(* Until msgids wrap, a call is registered under its own number from its   *)
(* EntryRequest until a reply, its timeout or Cleanup takes it.            *)
Numbered ==
  /\ seed = issued
  /\ \A c \in Calls : c <= issued => msgid[c] = c

Pending ==
  \A c \in Calls :
    /\ req[c] = "armed" => /\ phase \in {"open", "onclose", "cleanup"}
                           /\ reqMap[c] = c
                           /\ phase = "cleanup" => c > cursor
    /\ req[c] = "leaving" => phase = "cleanup" /\ c = cursor

Matched == \A c \in Calls : answer[c] \in {c, NoCall}

UniqueInv == Numbered /\ Pending /\ Matched

(* Before the wrap the number of a call is a msgid, and entries are        *)
(* numbered like their calls.                                              *)
LEMMA EntryIsOwnNumber ==
  ASSUME Unwrapped, IInv, UniqueInv
  PROVE  /\ \A c \in Calls : c <= issued => c \in MsgIds
         /\ \A c \in Calls : req[c] # "none" => c \in MsgIds /\ c <= issued
         /\ \A i \in MsgIds : reqMap[i] # NoCall => reqMap[i] = i
  <1>0. issued \in Nat /\ issued < MsgIdLimit
    BY DEF Unwrapped, IInv, TypeOK
  <1>1. \A c \in Calls : c <= issued => c \in MsgIds
    BY <1>0, MaxCallsAssumption, MsgIdLimitAssumption DEF Calls, MsgIds
  <1>4. \A c \in Calls : req[c] # "none" => c <= issued
    BY <1>0, IndexFacts DEF IInv, Unissued
  <1>2. ASSUME NEW i \in MsgIds, reqMap[i] # NoCall
        PROVE  reqMap[i] = i
    BY <1>2 DEF IInv, TypeOK, Keyed, UniqueInv, Numbered
  <1>3. QED  BY <1>1, <1>2, <1>4

(* The msgid of the next call, before the wrap, is its number.             *)
LEMMA NextIsOwnNumber ==
  ASSUME IInv, UniqueInv, issued + 1 < MsgIdLimit
  PROVE  NewMsgId(seed) = issued + 1 /\ issued + 1 \in MsgIds
BY MaxCallsAssumption, MsgIdLimitAssumption
   DEF IInv, TypeOK, UniqueInv, Numbered, NewMsgId, MsgIds

(* The stronger invariant holds before the first call.                     *)
LEMMA InitUnique == Init => UniqueInv
  <1> SUFFICES ASSUME Init PROVE UniqueInv
    OBVIOUS
  <1>1. Numbered
    BY IndexFacts DEF Init, Numbered
  <1>2. Pending /\ Matched
    BY DEF Init, Pending, Matched
  <1>3. QED  BY <1>1, <1>2 DEF UniqueInv

(* Every step after which msgids have not yet wrapped keeps it.            *)
LEMMA NextUnique ==
  ASSUME Unwrapped, Unwrapped', IInv, UniqueInv, [Next]_vars
  PROVE  UniqueInv'
  <1> USE IndexFacts
  <1>a. /\ \A c \in Calls : req[c] # "none" => c \in MsgIds /\ c <= issued
        /\ \A i \in MsgIds : reqMap[i] # NoCall => reqMap[i] = i
    BY EntryIsOwnNumber
  <1>b. issued' = issued + 1 => NewMsgId(seed) = issued + 1 /\ issued + 1 \in MsgIds
    BY NextIsOwnNumber DEF Unwrapped
  <1>1. CASE Call
    <2>1. /\ issued + 1 \in Calls /\ issued \in Nat
          /\ NewMsgId(seed) = issued + 1 /\ issued + 1 \in MsgIds
      BY <1>1, <1>b, SMTT(60) DEF Call, IInv, TypeOK
    <2>2. Numbered'
      BY <1>1, <1>b, <2>1, SMTT(60) DEF Call, IInv, TypeOK, UniqueInv, Numbered
    <2>3. phase = "cleanup" => cursor <= issued
      BY <1>a, SMTT(60) DEF IInv, TypeOK, PhaseInv, Keyed
    <2>4. Pending'
      BY <1>1, <1>a, <1>b, <2>1, <2>3, SMTT(60)
         DEF Call, EntryRequest, SerialValid, IInv, TypeOK, Unissued, UniqueInv,
             Pending
    <2>5. QED
      BY <1>1, <2>2, <2>4, SMTT(60) DEF Call, UniqueInv, Matched
  <1>2. CASE CallWriteFails
    <2>1. Numbered'
      BY <1>2, <1>b, SMTT(60) DEF CallWriteFails, IInv, TypeOK, UniqueInv, Numbered
    <2>2. Pending'
      BY <1>2 DEF CallWriteFails, UniqueInv, Pending
    <2>3. QED
      BY <1>2, <2>1, <2>2, SMTT(60) DEF CallWriteFails, UniqueInv, Matched
  <1>3. CASE OnClose
    BY <1>3 DEF OnClose, UniqueInv, Numbered, Pending, Matched
  <1>4. CASE OnCloseReturns
    <2>1. Numbered' /\ Matched'
      BY <1>4, SMTT(60) DEF OnCloseReturns, UniqueInv, Numbered, Matched
    <2>2. Pending'
      BY <1>4, <1>a, SMTT(60) DEF OnCloseReturns, GoAway, CleanupDone, Keys, IInv, TypeOK,
         UniqueInv, Pending
    <2>3. QED  BY <2>1, <2>2 DEF UniqueInv
  <1>5. CASE GoAwayReturns
    <2>1. Numbered' /\ Matched'
      BY <1>5, SMTT(60) DEF GoAwayReturns, UniqueInv, Numbered, Matched
    <2>2. Pending'
      BY <1>5, <1>a, SMTT(60) DEF GoAwayReturns, GoAway, CleanupDone, Keys, IInv, TypeOK,
         PhaseInv, UniqueInv, Pending
    <2>3. QED  BY <2>1, <2>2 DEF UniqueInv
  <1>6. CASE DeleteStream
    BY <1>6 DEF DeleteStream, LoopFree, UniqueInv, Numbered, Pending,
       Matched
  <1>7. ASSUME NEW c \in Calls, RecvReply(c)
        PROVE  UniqueInv'
    <2>1. c <= issued /\ msgid[c] = c
      BY <1>7, SMTT(60) DEF RecvReply, IInv, TypeOK, Unissued, UniqueInv, Numbered
    <2>2. reqMap[msgid[c]] = c
      BY <1>7, <1>a, <2>1, SMTT(60) DEF RecvReply, IInv, ReqInv
    <2>3. Numbered' /\ Matched'
      BY <1>7, <2>2, SMTT(60) DEF RecvReply, IInv, TypeOK, UniqueInv, Numbered,
         Matched
    <2>4. Pending'
      BY <1>7, <1>a, <2>1, <2>2, SMTT(60) DEF RecvReply, IInv, TypeOK, UniqueInv, Pending
    <2>5. QED  BY <2>3, <2>4, SMTT(60) DEF UniqueInv
  <1>8. ASSUME NEW c \in Calls, OnFire(c) \/ OnFireUnregistered(c)
        PROVE  UniqueInv'
    BY <1>8, SMTT(60) DEF OnFire, OnFireUnregistered, IInv, TypeOK, UniqueInv, Numbered,
       Pending, Matched
  <1>9. ASSUME NEW c \in Calls, OnFireAfterDelete(c)
        PROVE  UniqueInv'
    BY <1>9 DEF OnFireAfterDelete, UniqueInv, Numbered, Pending,
       Matched
  <1>10. CASE ReplyReturns
    BY <1>10, SMTT(60) DEF ReplyReturns, IInv, TypeOK, UniqueInv, Numbered, Pending,
       Matched
  <1>11. CASE TimeoutReturns
    <2>1. running \in Calls /\ req[running] # "armed" /\ req[running] # "none"
      BY <1>11 DEF TimeoutReturns, IInv, FrameInv
    <2>2. msgid[running] = running
      BY <2>1 DEF IInv, TypeOK, Unissued, UniqueInv, Numbered
    <2>3. Pending'
      BY <1>11, <1>a, <2>1, <2>2, SMTT(60) DEF TimeoutReturns, IInv, TypeOK, UniqueInv,
         Pending
    <2>4. QED
      BY <1>11, <2>3 DEF TimeoutReturns, UniqueInv, Numbered, Matched
  <1>12. CASE UNCHANGED vars
    BY <1>12, SMTT(60) DEF vars, UniqueInv, Numbered, Pending, Matched
  <1>13. QED
    BY <1>1, <1>2, <1>3, <1>4, <1>5, <1>6, <1>7, <1>8, <1>9, <1>10, <1>11,
       <1>12 DEF Next

(* A step only ever issues calls, so what was wrapped stays so, and the    *)
(* stronger invariant holds up to the wrap.                                *)
LEMMA SpecUnique == Spec => [](IInv /\ (Unwrapped => UniqueInv))
  <1>1. Init => IInv /\ UniqueInv
    BY InitIInv, InitUnique
  <1>2. ASSUME IInv, [Next]_vars, Unwrapped'
        PROVE  Unwrapped
    <2>1. issued \in Nat /\ MsgIdLimit \in Nat
      BY <1>2, MsgIdLimitAssumption, MaxCallsAssumption, SMTT(60) DEF IInv, TypeOK
    <2>2. issued' = issued \/ issued' = issued + 1
      BY <1>2, Zenon DEF Next, vars, Call, CallWriteFails, OnClose, OnCloseReturns,
         GoAwayReturns, DeleteStream, RecvReply, OnFire, OnFireUnregistered,
         OnFireAfterDelete, ReplyReturns, TimeoutReturns
    <2>3. QED  BY <1>2, <2>1, <2>2 DEF Unwrapped
  <1>3. (IInv /\ (Unwrapped => UniqueInv)) /\ [Next]_vars
          => (IInv /\ (Unwrapped => UniqueInv))'
    BY <1>2, NextIInv, NextUnique
  <1>4. QED  BY <1>1, <1>3, PTL DEF Spec

(* Until msgids wrap, a callback only ever gets the reply the peer         *)
(* made to that call, although OnRecv matches replies by msgid alone.      *)
THEOREM ReplyCorrelation == Spec => []ReplyMatchesCall
  <1>1. IInv /\ (Unwrapped => UniqueInv) => ReplyMatchesCall
    BY DEF UniqueInv, Matched, ReplyMatchesCall
  <1>2. QED  BY <1>1, SpecUnique, PTL

(* Until msgids wrap, a closed stream has left no alarm in the loop        *)
(* that would read the handler after the session freed it.                 *)
THEOREM NoAlarmOutlivesStream == Spec => []NoOrphanAlarm
  <1>1. IInv /\ (Unwrapped => UniqueInv) => NoOrphanAlarm
    BY DEF IInv, ReqInv, UniqueInv, Pending, NoOrphanAlarm, AlarmSet
  <1>2. QED  BY <1>1, SpecUnique, PTL

(* Until msgids wrap, no path leaks a Request: once the handler            *)
(* that invoked its callback is over, it has been deleted.                 *)
THEOREM NoRequestLeak == Spec => []SettledRequestFreed
  <1>1. IInv /\ (Unwrapped => UniqueInv) => SettledRequestFreed
    BY DEF IInv, TypeOK, ReqState, ReqInv, UniqueInv, Pending,
       SettledRequestFreed, LoopFree
  <1>2. QED  BY <1>1, SpecUnique, PTL
=============================================================================
