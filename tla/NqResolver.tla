----------------------------- MODULE NqResolver -----------------------------
(***************************************************************************)
(* Names: NqAsyncResolver (src/core/nq_async_resolver.h, .cpp), the        *)
(* queries of NqClientLoop, and the table of processors of the event loop  *)
(* (src/basis/loop.h) that the sockets of c-ares share with those of the   *)
(* clients.                                                                *)
(*                                                                         *)
(* c-ares and the kernel are external: c-ares has at most one socket open, *)
(* closes it when nothing is asked, and looks at its timeouts only when it *)
(* is called; the kernel drops the registration of a descriptor that is    *)
(* closed and gives the number away again.                                 *)
(***************************************************************************)
EXTENDS Naturals, Sequences

CONSTANTS
  Queries,   \* the queries the application makes
  Fds,       \* the numbers of descriptors
  NoFd       \* no descriptor

ASSUME NoFdAssumption == NoFd \notin Fds

(* What may go wrong in a behaviour: answers get lost; c-ares turns to     *)
(* another server, with a new socket; it knows the answer at once; the     *)
(* server hangs up.                                                        *)
Troubles == {"none", "lost", "reopen", "inside", "hangup"}

VARIABLES
  trouble,     \* the trouble of this behaviour
  addrs,       \* the families a name has addresses of
  family,      \* family_ of a query
  stage,       \* "new", "asked" (StartResolve was called) or "done"
  found,       \* the answer the callback got: "found", "notfound", "timeout"
  queries,     \* queries_
  flying,      \* the queries c-ares works on
  arrived,     \* and those whose answer waits in its socket
  sock,        \* its socket
  want,        \* the events c-ares wants of it: "r" or "rw"
  owner,       \* who has a descriptor open: "none", "ares" or "client"
  registered,  \* the descriptors epoll watches, "none", "r" or "rw"
  processors,  \* processors_: "none", "req" or "client"
  requests,    \* current_flags_ of io_requests_, "none" if there is none
  phase,       \* where Poll is
  next,        \* the iterator over queries_
  end,         \* and its end, taken before the iteration
  iter         \* both are "valid", or "dangling" when queries_ was reallocated

resolver_vars == <<trouble, addrs, family, stage, found, queries, flying, arrived, sock, want,
                   owner, registered, processors, requests, phase, next, end, iter>>
world == <<trouble, addrs>>
ares == <<flying, arrived, sock, want>>
loop == <<owner, registered, processors, requests>>
poll == <<phase, next, end, iter>>

InitResolver ==
  /\ trouble \in Troubles
  /\ addrs \in [Queries -> {{}, {"v4"}, {"v6"}}]
  /\ family \in [Queries -> {"inet", "inet6"}]
  /\ stage = [q \in Queries |-> "new"]
  /\ found = [q \in Queries |-> "none"]
  /\ queries = <<>>
  /\ flying = {} /\ arrived = {}
  /\ sock = NoFd /\ want = "r"
  /\ owner = [f \in Fds |-> "none"]
  /\ registered = [f \in Fds |-> "none"]
  /\ processors = [f \in Fds |-> "none"]
  /\ requests = [f \in Fds |-> "none"]
  /\ phase = "idle" /\ next = 1 /\ end = 0 /\ iter = "valid"

----------------------------------------------------------------------------
(* StartResolve: push_back, which reallocates queries_ if it is full, also *)
(* while Poll iterates over it.                                            *)
StartResolve(q) ==
  /\ queries' = Append(queries, q)
  /\ iter' \in IF phase \in {"start", "called"} THEN {iter, "dangling"} ELSE {iter}

(* The application.  NqClientLoop::Resolve and StartResolve, between two   *)
(* calls of Poll or in a callback of an event or of a query.               *)
Ask(q) ==
  /\ phase \in {"idle", "events", "called"}
  /\ stage[q] = "new"
  /\ stage' = [stage EXCEPT ![q] = "asked"]
  /\ StartResolve(q)
  /\ UNCHANGED <<world, family, found, ares, loop, phase, next, end>>

(* CreateUDPSocketAndBind of a client and Loop::Add, which overwrites what *)
(* stands in the table.  A descriptor is left to c-ares.                   *)
OpenClient(f) ==
  /\ phase \in {"idle", "events", "called"}
  /\ owner[f] = "none"
  /\ \E g \in Fds \ {f} : owner[g] # "client"
  /\ owner' = [owner EXCEPT ![f] = "client"]
  /\ processors' = [processors EXCEPT ![f] = "client"]
  /\ registered' = [registered EXCEPT ![f] = "rw"]
  /\ UNCHANGED <<world, family, stage, found, queries, ares, requests, poll>>

(* CleanUpUDPSocketImpl: Loop::Del and close.                              *)
CloseClient(f) ==
  /\ phase \in {"idle", "events", "called"}
  /\ owner[f] = "client"
  /\ owner' = [owner EXCEPT ![f] = "none"]
  /\ processors' = [processors EXCEPT ![f] = IF registered[f] # "none" THEN "none" ELSE @]
  /\ registered' = [registered EXCEPT ![f] = "none"]
  /\ UNCHANGED <<world, family, stage, found, queries, ares, requests, poll>>

----------------------------------------------------------------------------
(* The first half of NqAsyncResolver::Poll: io_requests_ and the loop are  *)
(* brought in step with the sockets of c-ares.                             *)
Wanted(f) == f = sock

(* Loop::Mod fails if the kernel has dropped the registration.             *)
Modified(f) == Wanted(f) /\ requests[f] \notin {"none", want} /\ registered[f] # "none"
Added(f) == Wanted(f) /\ requests[f] = "none"
Alive(f) == Modified(f) \/ (Wanted(f) /\ requests[f] = want)
Removed(f) == requests[f] # "none" /\ ~Alive(f)

(* A faulty variant: whatever stands in the table is deleted.              *)
ForcedDelAny(f) == Removed(f)

(* ForceDelWithCheck.                                                      *)
ForcedDel(f) == Removed(f) /\ processors[f] = "req"

Sync ==
  /\ phase = "idle"
  /\ phase' = "start" /\ next' = 1 /\ end' = Len(queries) /\ iter' = "valid"
  /\ requests' = [f \in Fds |->
       IF Added(f) \/ Modified(f) THEN want ELSE IF Removed(f) THEN "none" ELSE requests[f]]
  /\ processors' = [f \in Fds |->
       IF Added(f) THEN "req" ELSE IF ForcedDel(f) THEN "none" ELSE processors[f]]
  /\ registered' = [f \in Fds |->
       IF Added(f) \/ Modified(f) THEN want ELSE IF ForcedDel(f) THEN "none" ELSE registered[f]]
  /\ UNCHANGED <<world, family, stage, found, queries, ares, owner>>

----------------------------------------------------------------------------
(* A faulty variant: the other family is not searched.                     *)
CompleteNoRetry(q, status) ==
  /\ stage' = [stage EXCEPT ![q] = "done"]
  /\ found' = [found EXCEPT ![q] = status]
  /\ UNCHANGED <<family, queries, iter>>

(* A faulty variant: the query for the other family is not started.        *)
CompleteForgetsRetry(q, status) ==
  \/ /\ family[q] = "inet" /\ status = "notfound"
     /\ family' = [family EXCEPT ![q] = "inet6"]
     /\ UNCHANGED <<queries, iter, stage, found>>
  \/ /\ ~(family[q] = "inet" /\ status = "notfound")
     /\ stage' = [stage EXCEPT ![q] = "done"]
     /\ found' = [found EXCEPT ![q] = status]
     /\ UNCHANGED <<family, queries, iter>>

(* Query::OnComplete: a name without IPv4 address is asked for again.      *)
Complete(q, status) ==
  \/ /\ family[q] = "inet" /\ status = "notfound"
     /\ family' = [family EXCEPT ![q] = "inet6"]
     /\ StartResolve(q)
     /\ UNCHANGED <<stage, found>>
  \/ /\ ~(family[q] = "inet" /\ status = "notfound")
     /\ stage' = [stage EXCEPT ![q] = "done"]
     /\ found' = [found EXCEPT ![q] = status]
     /\ UNCHANGED <<family, queries, iter>>

(* The answer of the name service: Poll asks for AF_UNSPEC in place of     *)
(* AF_INET6, which searches both families.                                 *)
Status(q) ==
  IF addrs[q] = {} \/ (family[q] = "inet" /\ "v4" \notin addrs[q])
  THEN "notfound" ELSE "found"

(* The iterator stands at q: in freed memory that may be any query there   *)
(* was, a deleted one too.                                                 *)
StandsAt(q) == IF iter = "dangling" THEN stage[q] # "new" ELSE q = queries[next]

(* The second half of Poll: Resolve of the query the iterator stands at.   *)
(* c-ares opens its socket,                                                *)
StartFlies ==
  /\ phase = "start" /\ next <= end
  /\ trouble # "inside"
  /\ flying' = flying \cup {queries[next]}
  /\ next' = next + 1
  /\ \/ sock # NoFd /\ UNCHANGED <<sock, want, owner>>
     \/ /\ sock = NoFd
        /\ \E f \in Fds : owner[f] = "none" /\ sock' = f /\ owner' = [owner EXCEPT ![f] = "ares"]
        /\ want' \in {"r", "rw"}
  /\ UNCHANGED <<world, family, stage, found, queries, arrived, registered, processors,
                 requests, phase, end, iter>>

(* or calls OnComplete at once.                                            *)
StartCompletes ==
  /\ phase = "start" /\ next <= end
  /\ trouble = "inside"
  /\ \E q \in Queries : StandsAt(q) /\ Complete(q, Status(q))
  /\ next' = next + 1
  /\ phase' = "called"
  /\ UNCHANGED <<world, ares, loop, end>>

(* What the iterator finds in freed memory is no query at all.             *)
StartCrashes ==
  /\ phase = "start" /\ next <= end
  /\ iter = "dangling"
  /\ phase' = "crashed"
  /\ UNCHANGED <<world, family, stage, found, queries, ares, loop, next, end, iter>>

CallbackReturns ==
  /\ phase = "called"
  /\ phase' = "start"
  /\ UNCHANGED <<world, family, stage, found, queries, ares, loop, next, end, iter>>

(* A faulty variant: what was started is not cleared away.                 *)
StartEndsKeeps ==
  /\ phase = "start" /\ next > end
  /\ phase' = "events" /\ iter' = "valid"
  /\ UNCHANGED <<world, family, stage, found, queries, ares, loop, next, end>>

(* queries_.clear(), whatever was added meanwhile.                         *)
StartEnds ==
  /\ phase = "start" /\ next > end
  /\ queries' = <<>>
  /\ phase' = "events" /\ iter' = "valid"
  /\ UNCHANGED <<world, family, stage, found, ares, loop, next, end>>

----------------------------------------------------------------------------
(* The events of the loop.  c-ares gets an answer into its socket.         *)
Arrive(q) ==
  /\ q \in flying \ arrived
  /\ want = "r"
  /\ arrived' = arrived \cup {q}
  /\ UNCHANGED <<world, family, stage, found, queries, flying, sock, want, loop, poll>>

HasEvent ==
  /\ sock # NoFd /\ registered[sock] # "none"
  /\ arrived # {} \/ (want = "rw" /\ registered[sock] = "rw")

(* Loop::Poll finds the processor of the descriptor, OnEvent calls         *)
(* ares_process_fd.                                                        *)
Dispatched == phase = "events" /\ HasEvent /\ processors[sock] = "req"

(* c-ares has no more use of query q, and closes its socket after the last.*)
Landed(q) ==
  /\ flying' = flying \ {q}
  /\ arrived' = arrived \ {q}
  /\ want' = want
  /\ IF flying = {q}
     THEN /\ sock' = NoFd
          /\ owner' = [owner EXCEPT ![sock] = "none"]
          /\ registered' = [registered EXCEPT ![sock] = "none"]
     ELSE UNCHANGED <<sock, owner, registered>>

ProcessAnswer(q) ==
  /\ Dispatched
  /\ q \in arrived
  /\ Complete(q, Status(q))
  /\ Landed(q)
  /\ UNCHANGED <<world, processors, requests, poll>>

(* Timeouts are looked at when there is something else to do.              *)
ProcessTimeout(q) ==
  /\ Dispatched
  /\ trouble = "lost"
  /\ q \in flying \ arrived
  /\ Complete(q, "timeout")
  /\ Landed(q)
  /\ UNCHANGED <<world, processors, requests, poll>>

(* The connection is up, c-ares has written what it had to.                *)
ProcessWritable ==
  /\ Dispatched
  /\ want = "rw"
  /\ want' = "r"
  /\ UNCHANGED <<world, family, stage, found, queries, flying, arrived, sock, loop, poll>>

(* An error on the socket: on to another server, with another socket.      *)
ProcessReopens ==
  /\ phase = "events"
  /\ trouble = "reopen"
  /\ sock # NoFd /\ registered[sock] # "none" /\ processors[sock] = "req"
  /\ \E f \in Fds :
       /\ owner[f] = "none" \/ f = sock
       /\ sock' = f
       /\ owner' = [owner EXCEPT ![sock] = "none", ![f] = "ares"]
  /\ want' \in {"r", "rw"}
  /\ arrived' = {}
  /\ registered' = [registered EXCEPT ![sock] = "none"]
  /\ UNCHANGED <<world, family, stage, found, queries, flying, processors, requests, poll>>

(* The server hangs up: a closed event takes the processor away.           *)
HangUp ==
  /\ phase = "events"
  /\ trouble = "hangup"
  /\ sock # NoFd /\ registered[sock] # "none" /\ processors[sock] # "none"
  /\ processors' = [processors EXCEPT ![sock] = "none"]
  /\ UNCHANGED <<world, family, stage, found, queries, ares, owner, registered, requests, poll>>

(* An event of a descriptor without processor: nullptr is called.          *)
Crash ==
  /\ phase = "events" /\ HasEvent
  /\ processors[sock] = "none"
  /\ phase' = "crashed"
  /\ UNCHANGED <<world, family, stage, found, queries, ares, loop, next, end, iter>>

(* All that the kernel reported is handled.                                *)
EventsEnd ==
  /\ phase = "events"
  /\ ~HasEvent
  /\ phase' = "idle"
  /\ UNCHANGED <<world, family, stage, found, queries, ares, loop, next, end, iter>>

----------------------------------------------------------------------------
PollStep ==
  \/ Sync \/ StartFlies \/ StartCompletes \/ StartCrashes \/ CallbackReturns \/ StartEnds
  \/ \E q \in Queries : ProcessAnswer(q)
  \/ ProcessWritable \/ Crash \/ EventsEnd

NextResolver ==
  \/ \E q \in Queries : Ask(q) \/ Arrive(q) \/ ProcessAnswer(q) \/ ProcessTimeout(q)
  \/ \E f \in Fds : OpenClient(f) \/ CloseClient(f)
  \/ Sync \/ StartFlies \/ StartCompletes \/ StartCrashes \/ CallbackReturns \/ StartEnds
  \/ ProcessWritable \/ ProcessReopens \/ HangUp \/ Crash \/ EventsEnd

ResolverSpec == InitResolver /\ [][NextResolver]_resolver_vars

(* The application keeps polling; the network delivers unless it loses.    *)
FairResolverSpec ==
  /\ ResolverSpec
  /\ WF_resolver_vars(PollStep)
  /\ \A q \in Queries : WF_resolver_vars(trouble # "lost" /\ Arrive(q))

----------------------------------------------------------------------------
Flags == {"none", "r", "rw"}

(* The state keeps its types.                                              *)
ResolverTypeOK ==
  /\ trouble \in Troubles
  /\ family \in [Queries -> {"inet", "inet6"}]
  /\ stage \in [Queries -> {"new", "asked", "done"}]
  /\ found \in [Queries -> {"none", "found", "notfound", "timeout"}]
  /\ queries \in Seq(Queries)
  /\ arrived \subseteq flying /\ flying \subseteq Queries
  /\ sock \in Fds \cup {NoFd} /\ want \in {"r", "rw"}
  /\ owner \in [Fds -> {"none", "ares", "client"}]
  /\ registered \in [Fds -> Flags] /\ requests \in [Fds -> Flags]
  /\ processors \in [Fds -> {"none", "req", "client"}]
  /\ phase \in {"idle", "start", "called", "events", "crashed"}
  /\ next \in Nat /\ end \in Nat /\ iter \in {"valid", "dangling"}

(* Whatever becomes of the numbers c-ares and the clients close and reuse, *)
(* an event finds the processor of whoever has the descriptor open now,    *)
(* and an IoRequest that is in the table was not deleted.                  *)
EventFindsOwner ==
  \A f \in Fds :
    /\ trouble # "hangup" /\ registered[f] # "none" =>
         \/ owner[f] = "ares" /\ processors[f] = "req"
         \/ owner[f] = "client" /\ processors[f] = "client"
    /\ owner[f] = "client" => registered[f] # "none" /\ processors[f] = "client"
    /\ processors[f] = "req" => requests[f] # "none"

(* A name is reported as not found only if it has no address of either     *)
(* family, whichever was to be searched first.                             *)
BothFamiliesSearched ==
  \A q \in Queries : found[q] = "notfound" => addrs[q] = {}

(* From position i to j each query waits for c-ares, and is there once.    *)
Waiting(i, j) ==
  \A k \in i .. j :
    /\ stage[queries[k]] = "asked" /\ queries[k] \notin flying
    /\ \A l \in i .. j : queries[k] = queries[l] => k = l

(* A query is in one place: it waits in queries_, c-ares has it, or it is  *)
(* answered and deleted.  What Poll has still to give to c-ares is neither *)
(* deleted nor with c-ares already, unless a callback that ran inside Poll *)
(* made queries_ move.                                                     *)
OnePlace ==
  /\ \A q \in flying : stage[q] = "asked"
  /\ phase \in {"idle", "events"} => Waiting(1, Len(queries))
  /\ phase \in {"start", "called"} /\ iter = "valid" => Waiting(next, end)

(* A query is answered, if the network answers c-ares, which neither       *)
(* changes its socket nor answers before its call returns.                 *)
EveryQueryAnswered ==
  \A q \in Queries : (trouble = "none" /\ stage[q] = "asked") ~> (stage[q] = "done")

----------------------------------------------------------------------------
(* Statements of the repository that the code does not keep.               *)

(* nq.h line 230: query_timeout is the "dns query timeout", so a query     *)
(* ends even if its answer is lost.                                        *)
QueryTimesOut ==
  \A q \in Queries : (trouble = "lost" /\ stage[q] = "asked") ~> (stage[q] = "done")

(* nq.h line 276: with a loop that is polled nq_client_resolve_host is to  *)
(* "work correctly", wherever it is called from.                           *)
ResolvesAnswered ==
  \A q \in Queries : (trouble = "inside" /\ stage[q] = "asked") ~> (stage[q] = "done")

(* The same line, of the queries themselves: Poll does not go on over      *)
(* queries_ after a callback has made it move.                             *)
IterationValid == phase = "start" /\ next <= end => iter = "valid"

(* The assertion of Loop::Add (basis/loop.h line 40): a client opens its   *)
(* socket where the table is empty.                                        *)
AddFindsNothing ==
  [][\A f \in Fds :
       owner[f] = "none" /\ owner'[f] = "client" => processors[f] = "none"]_resolver_vars
=============================================================================
