--------------------------- MODULE HandleService ----------------------------
(***************************************************************************)
(* What a handle (nq_conn_t, nq_stream_t, nq_rpc_t) promises to a thread   *)
(* that is not the thread of the loop: it enters an object only while the  *)
(* object is valid, and the object is not taken away while it is inside.   *)
(***************************************************************************)
EXTENDS Naturals

CONSTANTS
  Threads,   \* the threads that call the API
  Objects    \* the connections and streams ever made

VARIABLES
  life,      \* of an object: "unmade", "valid" or "void"
  inside,    \* the objects a thread is inside of
  reliable   \* no object was deleted behind the back of its handle

vars == <<life, inside, reliable>>

Init ==
  /\ life = [n \in Objects |-> "unmade"]
  /\ inside = [t \in Threads |-> {}]
  /\ reliable = TRUE

Make(n) ==
  /\ life[n] = "unmade"
  /\ life' = [life EXCEPT ![n] = "valid"]
  /\ UNCHANGED <<inside, reliable>>

Revoke(n) ==
  /\ life[n] = "valid"
  /\ \A t \in Threads : n \notin inside[t]
  /\ life' = [life EXCEPT ![n] = "void"]
  /\ UNCHANGED <<inside, reliable>>

(* The serial of the handle is compared and is the object's.               *)
Enter(t, n) ==
  /\ life[n] = "valid"
  /\ \A u \in Threads : n \notin inside[u]
  /\ inside' = [inside EXCEPT ![t] = @ \cup {n}]
  /\ UNCHANGED <<life, reliable>>

Leave(t, n) ==
  /\ n \in inside[t]
  /\ inside' = [inside EXCEPT ![t] = @ \ {n}]
  /\ UNCHANGED <<life, reliable>>

(* Once an object was deleted behind its handle nothing is promised.       *)
Unreliable == ~reliable'

Next ==
  \/ \E n \in Objects :
       \/ Make(n) \/ Revoke(n)
       \/ \E t \in Threads : Enter(t, n) \/ Leave(t, n)
  \/ Unreliable

Spec == Init /\ [][Next]_vars
=============================================================================
