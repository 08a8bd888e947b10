------------------------ MODULE NqResolverStreamsProof ------------------------
(***************************************************************************)
(* Proofs about what a client relies on: the streams it opens, for any     *)
(* number of streams and sessions, and the resolver, for any number of     *)
(* queries and descriptors.                                                *)
(*                                                                         *)
(* Streams: ClosedInv says that what has been closed is neither open nor   *)
(* waiting to be opened; CarefulInv is the life of one stream when callers *)
(* are careful.                                                            *)
(*                                                                         *)
(* Resolver: TableInv says who owns what the kernel watches and what       *)
(* stands in the table of processors; WaitInv says where a query is at     *)
(* each point of Poll: what the iterator has passed is with c-ares, what   *)
(* it has still to come to is not.  queries_ moves under the iterator only *)
(* when c-ares answers before its call returns.                            *)
(***************************************************************************)
EXTENDS NqStreamManager, NqResolver, TLAPS

-----------------------------------------------------------------------------
(***************************************************************************)
(* The resolver.                                                           *)
(***************************************************************************)
TableInv ==
  /\ \A f \in Fds : owner[f] = "ares" <=> sock = f
  /\ \A f \in Fds : registered[f] # "none" => owner[f] # "none"
  /\ EventFindsOwner

(* From position i on the queries are asked for, not yet with c-ares, and  *)
(* each is there once.                                                     *)
WaitingFrom(i) ==
  \A j \in DOMAIN queries : j >= i =>
    /\ stage[queries[j]] = "asked" /\ queries[j] \notin flying
    /\ \A k \in DOMAIN queries : k >= i /\ queries[j] = queries[k] => j = k

WaitInv ==
  /\ \A q \in flying : stage[q] = "asked"
  /\ phase \in {"idle", "events"} => WaitingFrom(1)
  /\ phase \in {"start", "called"} => next >= 1 /\ end <= Len(queries)
  /\ phase \in {"start", "called"} /\ iter = "valid" => Waiting(next, end)
  /\ trouble = "inside" => flying = {}
  /\ phase = "called" => trouble = "inside"
  /\ iter = "dangling" => trouble = "inside" /\ phase \in {"start", "called", "crashed"}

ResolverInv == ResolverTypeOK /\ TableInv /\ WaitInv /\ BothFamiliesSearched

LEMMA InitResolverInv == InitResolver => ResolverInv
<1> SUFFICES ASSUME InitResolver PROVE ResolverInv
  BY Zenon
<1>1. ResolverTypeOK
  BY DEF InitResolver, ResolverTypeOK, Flags
<1>2. TableInv
  BY NoFdAssumption, Zenon DEF InitResolver, TableInv, EventFindsOwner
<1>3. WaitInv
  <2>1. \A j : j \notin DOMAIN queries
    BY DEF InitResolver
  <2> QED
    BY <2>1, Zenon DEF InitResolver, WaitInv, WaitingFrom
<1>4. BothFamiliesSearched
  BY Zenon DEF InitResolver, BothFamiliesSearched
<1> QED
  BY <1>1, <1>2, <1>3, <1>4, Zenon DEF ResolverInv

----------------------------------------------------------------------------
(* The table of the loop.  Steps that leave descriptors alone:             *)
LEMMA TableKept ==
  ASSUME TableInv, UNCHANGED <<trouble, sock, loop>>
  PROVE  TableInv'
BY Zenon DEF TableInv, EventFindsOwner, loop

LEMMA ClientTable ==
  ASSUME ResolverTypeOK, TableInv, NEW f \in Fds, OpenClient(f) \/ CloseClient(f)
  PROVE  TableInv'
<1>1. CASE OpenClient(f)
  <2>1. /\ owner[f] = "none" /\ UNCHANGED <<sock, trouble, requests>>
        /\ owner' = [owner EXCEPT ![f] = "client"]
        /\ processors' = [processors EXCEPT ![f] = "client"]
        /\ registered' = [registered EXCEPT ![f] = "rw"]
    BY <1>1, Zenon DEF OpenClient, ares, world
  <2> QED
    BY <2>1 DEF ResolverTypeOK, TableInv, EventFindsOwner
<1>2. CASE CloseClient(f)
  <2>1. /\ owner[f] = "client" /\ UNCHANGED <<sock, trouble, requests>>
        /\ owner' = [owner EXCEPT ![f] = "none"]
        /\ processors' = [processors EXCEPT ![f] = IF registered[f] # "none" THEN "none" ELSE @]
        /\ registered' = [registered EXCEPT ![f] = "none"]
    BY <1>2, Zenon DEF CloseClient, ares, world
  <2>2. processors'[f] = "none"
    BY <2>1, ZenonT(60) DEF ResolverTypeOK, TableInv, EventFindsOwner
  <2> QED
    BY <2>1, <2>2 DEF ResolverTypeOK, TableInv, EventFindsOwner
<1> QED
  BY <1>1, <1>2, Zenon

LEMMA SyncTable ==
  ASSUME ResolverTypeOK, TableInv, Sync
  PROVE  TableInv'
<1>1. UNCHANGED <<owner, sock, trouble>>
  BY Zenon DEF Sync, ares, world
<1>2. ASSUME NEW f \in Fds
      PROVE  /\ requests'[f] = IF Added(f) \/ Modified(f) THEN want
                               ELSE IF Removed(f) THEN "none" ELSE requests[f]
             /\ processors'[f] = IF Added(f) THEN "req"
                                 ELSE IF ForcedDel(f) THEN "none" ELSE processors[f]
             /\ registered'[f] = IF Added(f) \/ Modified(f) THEN want
                                 ELSE IF ForcedDel(f) THEN "none" ELSE registered[f]
  BY Zenon DEF Sync
<1>3. want # "none"
  BY Zenon DEF ResolverTypeOK
<1>4. ASSUME NEW f \in Fds, registered'[f] # "none" PROVE owner[f] # "none"
  BY <1>2, <1>4, Zenon DEF TableInv, Added, Modified, Wanted
<1>5. ASSUME NEW f \in Fds
      PROVE  /\ trouble # "hangup" /\ registered'[f] # "none" =>
                  \/ owner[f] = "ares" /\ processors'[f] = "req"
                  \/ owner[f] = "client" /\ processors'[f] = "client"
             /\ owner[f] = "client" => registered'[f] # "none" /\ processors'[f] = "client"
             /\ processors'[f] = "req" => requests'[f] # "none"
  <2>0. /\ trouble # "hangup" /\ registered[f] # "none" =>
             \/ owner[f] = "ares" /\ processors[f] = "req"
             \/ owner[f] = "client" /\ processors[f] = "client"
        /\ owner[f] = "client" => registered[f] # "none" /\ processors[f] = "client"
        /\ processors[f] = "req" => requests[f] # "none"
        /\ owner[f] = "ares" <=> sock = f
    BY Zenon DEF TableInv, EventFindsOwner
  <2>1. CASE Added(f)
    BY <1>2, <1>3, <2>0, <2>1, Zenon DEF Added, Wanted
  <2>2. CASE Modified(f)
    BY <1>2, <1>3, <2>0, <2>2, Zenon DEF Added, Modified, Wanted, Alive, ForcedDel, Removed
  <2>3. CASE ~Added(f) /\ ~Modified(f)
    BY <1>2, <1>3, <2>0, <2>3, Zenon DEF ForcedDel, Removed
  <2> QED
    BY <2>1, <2>2, <2>3, Zenon
<1> QED
  BY <1>1, <1>4, <1>5, Zenon DEF TableInv, EventFindsOwner

(* c-ares gives its socket back after the last query.                      *)
LEMMA LandedTable ==
  ASSUME ResolverTypeOK, TableInv, NEW q, Landed(q), sock \in Fds,
         UNCHANGED <<trouble, processors, requests>>
  PROVE  TableInv'
<1>1. CASE flying = {q}
  BY <1>1, NoFdAssumption, SMTT(60) DEF Landed, ResolverTypeOK, TableInv, EventFindsOwner
<1>2. CASE flying # {q}
  BY <1>2, Zenon DEF Landed, TableInv, EventFindsOwner
<1> QED
  BY <1>1, <1>2, Zenon

LEMMA AresTable ==
  ASSUME ResolverTypeOK, TableInv, StartFlies \/ ProcessReopens \/ HangUp
  PROVE  TableInv'
<1>1. CASE StartFlies
  <2>1. UNCHANGED <<trouble, registered, processors, requests>>
    BY <1>1, Zenon DEF StartFlies, world
  <2>2. CASE sock # NoFd
    <3>1. sock' = sock /\ owner' = owner
      BY <1>1, <2>2, Zenon DEF StartFlies
    <3> QED
      BY <2>1, <3>1, Zenon DEF TableInv, EventFindsOwner
  <2>3. CASE sock = NoFd
    <3>1. PICK f \in Fds : owner[f] = "none" /\ sock' = f /\ owner' = [owner EXCEPT ![f] = "ares"]
      BY <1>1, <2>3, Zenon DEF StartFlies
    <3>2. registered[f] = "none" /\ \A g \in Fds : owner[g] # "ares"
      BY <2>3, <3>1, NoFdAssumption, Zenon DEF TableInv
    <3>3. \A g \in Fds : owner'[g] = IF g = f THEN "ares" ELSE owner[g]
      BY <3>1, Zenon DEF ResolverTypeOK
    <3> QED
      BY <2>1, <3>1, <3>2, <3>3 DEF TableInv, EventFindsOwner
  <2> QED
    BY <2>2, <2>3, Zenon
<1>2. CASE ProcessReopens
  <2>1. PICK f \in Fds :
          /\ owner[f] = "none" \/ f = sock
          /\ sock' = f /\ owner' = [owner EXCEPT ![sock] = "none", ![f] = "ares"]
    BY <1>2, Zenon DEF ProcessReopens
  <2>2. /\ sock \in Fds /\ registered' = [registered EXCEPT ![sock] = "none"]
        /\ UNCHANGED <<trouble, processors, requests>>
    BY <1>2, Zenon DEF ProcessReopens, ResolverTypeOK, world
  <2>3. owner[sock] = "ares" /\ (f # sock => registered[f] = "none")
    BY <2>1, <2>2, Zenon DEF TableInv
  <2>4. \A g \in Fds :
          /\ owner'[g] = IF g = f THEN "ares" ELSE IF g = sock THEN "none" ELSE owner[g]
          /\ registered'[g] = IF g = sock THEN "none" ELSE registered[g]
    BY <2>1, <2>2, Zenon DEF ResolverTypeOK
  <2>5. ASSUME NEW g \in Fds PROVE owner'[g] = "ares" <=> sock' = g
    <3>1. owner[g] = "ares" <=> sock = g
      BY Zenon DEF TableInv
    <3>2. owner'[g] = IF g = f THEN "ares" ELSE IF g = sock THEN "none" ELSE owner[g]
      BY <2>4, Zenon
    <3> QED
      BY <2>1, <3>1, <3>2, Zenon
  <2>6. registered'[f] = "none" /\ registered'[sock] = "none"
    BY <2>2, <2>3, <2>4, Zenon
  <2>7. \A g \in Fds : registered'[g] # "none" => owner'[g] # "none"
    BY <2>4, <2>6, Zenon DEF TableInv
  <2>8. EventFindsOwner'
    <3>1. ASSUME NEW g \in Fds, g # f, g # sock
          PROVE  owner'[g] = owner[g] /\ registered'[g] = registered[g]
      BY <2>4, <3>1, Zenon
    <3>2. owner'[f] # "client" /\ owner'[sock] # "client"
      BY <2>2, <2>4, Zenon
    <3> QED
      BY <2>2, <2>6, <3>1, <3>2 DEF TableInv, EventFindsOwner
  <2> QED
    BY <2>5, <2>7, <2>8, Zenon DEF TableInv
<1>3. CASE HangUp
  <2>1. /\ sock \in Fds /\ trouble = "hangup" /\ processors' = [processors EXCEPT ![sock] = "none"]
        /\ UNCHANGED <<trouble, owner, sock, registered, requests>>
    BY <1>3, Zenon DEF HangUp, ResolverTypeOK, world, ares
  <2> QED
    BY <2>1 DEF ResolverTypeOK, TableInv, EventFindsOwner
<1> QED
  BY <1>1, <1>2, <1>3, Zenon

----------------------------------------------------------------------------
(* The queries.  Nothing but the places of Poll changes:                   *)
LEMMA QueryAppended ==
  ASSUME NEW S, NEW s \in Seq(S), NEW e \in S
  PROVE  LET r == Append(s, e)
         IN  /\ r \in Seq(S) /\ Len(r) = Len(s) + 1 /\ Len(s) \in Nat
             /\ DOMAIN s = 1 .. Len(s) /\ DOMAIN r = 1 .. Len(s) + 1
             /\ r[Len(s) + 1] = e
             /\ \A i \in DOMAIN s : r[i] = s[i]
BY SMTT(60)

(* Query::OnComplete.                                                      *)
LEMMA CompleteFacts ==
  ASSUME ResolverTypeOK, NEW q \in Queries, NEW status \in {"found", "notfound", "timeout"},
         Complete(q, status)
  PROVE  /\ family' \in [Queries -> {"inet", "inet6"}]
         /\ stage' \in [Queries -> {"new", "asked", "done"}]
         /\ found' \in [Queries -> {"none", "found", "notfound", "timeout"}]
         /\ \/ queries' = Append(queries, q) /\ stage' = stage
            \/ queries' = queries /\ stage' = [stage EXCEPT ![q] = "done"]
         /\ iter' \in {iter, "dangling"} /\ (phase = "events" => iter' = iter)
         /\ \A p \in Queries : found'[p] # found[p] =>
              p = q /\ found'[q] = status /\ ~(family[q] = "inet" /\ status = "notfound")
<1>1. CASE family[q] = "inet" /\ status = "notfound"
  BY <1>1, ZenonT(60) DEF Complete, StartResolve, ResolverTypeOK
<1>2. CASE ~(family[q] = "inet" /\ status = "notfound")
  BY <1>2, SMTT(60) DEF Complete, StartResolve, ResolverTypeOK
<1> QED
  BY <1>1, <1>2, Zenon

LEMMA StatusFacts ==
  ASSUME ResolverTypeOK, NEW q \in Queries
  PROVE  /\ Status(q) \in {"found", "notfound", "timeout"}
         /\ Status(q) = "notfound" /\ family[q] # "inet" => addrs[q] = {}
BY Zenon DEF Status

(* Resolve completes query q at once.                                      *)
CompletesAt(q) == StartCompletes /\ StandsAt(q) /\ Complete(q, Status(q))

(* The steps in which a query ends or is asked for again.                  *)
LEMMA CompletesFacts ==
  ASSUME ResolverTypeOK, WaitInv, NEW q \in Queries,
         ProcessAnswer(q) \/ ProcessTimeout(q) \/ CompletesAt(q)
  PROVE  /\ \E status \in {"found", "notfound", "timeout"} :
              /\ Complete(q, status)
              /\ status = "notfound" /\ family[q] # "inet" => addrs[q] = {}
         /\ addrs' = addrs /\ trouble' = trouble
<1>1. CASE ProcessTimeout(q)
  BY <1>1, Zenon DEF ProcessTimeout, world
<1>2. CASE ProcessAnswer(q) \/ CompletesAt(q)
  BY <1>2, StatusFacts, Zenon DEF ProcessAnswer, CompletesAt, StartCompletes, world
<1> QED
  BY <1>1, <1>2, Zenon

(* Not found means searched in both families.                              *)
LEMMA FamiliesKept ==
  ASSUME ResolverInv, NextResolver
  PROVE  BothFamiliesSearched'
<1> USE DEF ResolverInv
<1>1. ASSUME NEW q \in Queries,
             ProcessAnswer(q) \/ ProcessTimeout(q) \/ CompletesAt(q)
      PROVE  BothFamiliesSearched'
  <2>1. PICK status \in {"found", "notfound", "timeout"} :
          /\ Complete(q, status)
          /\ status = "notfound" /\ family[q] # "inet" => addrs[q] = {}
    BY <1>1, CompletesFacts, Zenon
  <2>2. addrs' = addrs
    BY <1>1, CompletesFacts, Zenon
  <2>3. \A p \in Queries : found'[p] # found[p] =>
          p = q /\ found'[q] = status /\ ~(family[q] = "inet" /\ status = "notfound")
    BY <2>1, CompleteFacts
  <2> QED
    BY <2>1, <2>2, <2>3, Zenon DEF BothFamiliesSearched
<1>2. CASE StartCompletes
  BY <1>1, <1>2, Zenon DEF StartCompletes, CompletesAt
<1>3. CASE UNCHANGED <<found, addrs>>
  BY <1>3, Zenon DEF BothFamiliesSearched
<1>4. \/ \E q \in Queries : ProcessAnswer(q) \/ ProcessTimeout(q)
      \/ StartCompletes
      \/ UNCHANGED <<found, addrs>>
  BY Zenon DEF NextResolver, Ask, Arrive, OpenClient, CloseClient, Sync, StartFlies,
     StartCrashes, CallbackReturns, StartEnds, ProcessWritable, ProcessReopens, HangUp, Crash,
     EventsEnd, world
<1> QED
  BY <1>1, <1>2, <1>3, <1>4, Zenon

----------------------------------------------------------------------------
(* Types.                                                                  *)
LEMMA TypeKept ==
  ASSUME ResolverInv, NextResolver
  PROVE  ResolverTypeOK'
<1> USE DEF ResolverInv, ResolverTypeOK, Flags, world, ares, loop, poll
<1>1. ASSUME NEW q \in Queries, Ask(q) PROVE ResolverTypeOK'
  <2>1. /\ queries' = Append(queries, q) /\ iter' \in {"valid", "dangling"}
        /\ stage' = [stage EXCEPT ![q] = "asked"]
        /\ UNCHANGED <<world, family, found, ares, loop, phase, next, end>>
    BY <1>1, Zenon DEF Ask, StartResolve
  <2> QED
    BY <2>1, QueryAppended, Zenon
<1>2. ASSUME NEW f \in Fds, OpenClient(f) PROVE ResolverTypeOK'
  BY <1>2, Zenon DEF OpenClient
<1>3. ASSUME NEW f \in Fds, CloseClient(f) PROVE ResolverTypeOK'
  BY <1>3, Zenon DEF CloseClient
<1>4. CASE Sync
  BY <1>4, SMTT(60) DEF Sync
<1>5. CASE StartFlies
  <2>1. queries[next] \in Queries
    BY <1>5, SMTT(60) DEF StartFlies, WaitInv
  <2>2. sock' \in Fds \cup {NoFd} /\ want' \in {"r", "rw"}
    BY <1>5 DEF StartFlies
  <2>3. owner' \in [Fds -> {"none", "ares", "client"}]
    BY <1>5 DEF StartFlies
  <2>4. flying' = flying \cup {queries[next]} /\ next' \in Nat
    BY <1>5, SMTT(60) DEF StartFlies
  <2> QED
    BY <1>5, <2>1, <2>2, <2>3, <2>4, SMTT(60) DEF StartFlies
<1>6. ASSUME NEW q \in Queries,
             ProcessAnswer(q) \/ ProcessTimeout(q) \/ CompletesAt(q)
      PROVE  ResolverTypeOK'
  <2>1. PICK status \in {"found", "notfound", "timeout"} : Complete(q, status)
    BY <1>6, CompletesFacts, ZenonT(60)
  <2>2. /\ family' \in [Queries -> {"inet", "inet6"}]
        /\ stage' \in [Queries -> {"new", "asked", "done"}]
        /\ found' \in [Queries -> {"none", "found", "notfound", "timeout"}]
        /\ iter' \in {"valid", "dangling"}
    BY <2>1, CompleteFacts
  <2>3. queries' \in Seq(Queries)
    <3>1. Append(queries, q) \in Seq(Queries)
      BY QueryAppended, Zenon
    <3>2. queries' = Append(queries, q) \/ queries' = queries
      BY <2>1, CompleteFacts, SMTT(60)
    <3> QED
      BY <3>1, <3>2, Zenon
  <2>4. CASE ProcessAnswer(q) \/ ProcessTimeout(q)
    <3>1. Landed(q) /\ UNCHANGED <<trouble, addrs, processors, requests, phase, next, end>>
      BY <2>4, Zenon DEF ProcessAnswer, ProcessTimeout
    <3>2. /\ sock' \in Fds \cup {NoFd} /\ owner' \in [Fds -> {"none", "ares", "client"}]
          /\ registered' \in [Fds -> Flags]
      BY <3>1, SMTT(60) DEF Landed
    <3> QED
      BY <2>2, <2>3, <3>1, <3>2, Zenon DEF Landed
  <2>5. CASE CompletesAt(q)
    BY <2>2, <2>3, <2>5, SMTT(60) DEF CompletesAt, StartCompletes
  <2> QED
    BY <1>6, <2>4, <2>5, Zenon
<1>7. CASE StartCompletes
  BY <1>6, <1>7, Zenon DEF StartCompletes, CompletesAt
<1>8. CASE StartCrashes \/ CallbackReturns \/ StartEnds \/ Crash \/ EventsEnd
  <2>1. queries' \in Seq(Queries)
    <3>1. queries' = <<>> \/ queries' = queries
      BY <1>8, Zenon DEF StartCrashes, CallbackReturns, StartEnds, Crash, EventsEnd
    <3>2. <<>> \in Seq(Queries)
      BY SMTT(60)
    <3> QED
      BY <3>1, <3>2, Zenon
  <2>2. /\ phase' \in {"start", "events", "crashed", "idle"}
        /\ UNCHANGED <<world, family, stage, found, ares, loop, next, end>>
        /\ iter' \in {"valid", "dangling"}
    BY <1>8, Zenon DEF StartCrashes, CallbackReturns, StartEnds, Crash, EventsEnd
  <2> QED
    BY <2>1, <2>2, Zenon
<1>9. ASSUME NEW q \in Queries, Arrive(q) PROVE ResolverTypeOK'
  BY <1>9, ZenonT(60) DEF Arrive
<1>10. CASE ProcessWritable
  BY <1>10, Zenon DEF ProcessWritable
<1>11. CASE ProcessReopens
  BY <1>11, SMTT(60) DEF ProcessReopens
<1>12. CASE HangUp
  BY <1>12, Zenon DEF HangUp
<1> QED
  BY <1>1, <1>2, <1>3, <1>4, <1>5, <1>6, <1>7, <1>8, <1>9, <1>10, <1>11,
     <1>12, ZenonT(60) DEF NextResolver

----------------------------------------------------------------------------
(* Where the queries are.  A query that is put behind the others:          *)
LEMMA QueueMore ==
  ASSUME queries \in Seq(Queries), WaitingFrom(1), NEW q \in Queries,
         queries' = Append(queries, q), stage'[q] = "asked", q \notin flying',
         \A i \in DOMAIN queries :
           /\ queries[i] # q /\ stage'[queries[i]] = stage[queries[i]]
           /\ queries[i] \notin flying'
  PROVE  WaitingFrom(1)'
<1>1. /\ DOMAIN queries = 1 .. Len(queries) /\ DOMAIN queries' = 1 .. Len(queries) + 1
      /\ queries'[Len(queries) + 1] = q /\ Len(queries) \in Nat
      /\ \A i \in DOMAIN queries : queries'[i] = queries[i]
  BY QueryAppended
<1>2. \A i \in DOMAIN queries' : i \in DOMAIN queries \/ i = Len(queries) + 1
  BY <1>1
<1>3. \A i \in DOMAIN queries : i >= 1
  BY <1>1
<1> QED
  BY <1>1, <1>2, <1>3 DEF WaitingFrom

LEMMA AskWaits ==
  ASSUME ResolverInv, NEW q \in Queries, Ask(q)
  PROVE  WaitInv'
<1> USE DEF ResolverInv
<1>1. /\ stage[q] = "new" /\ stage' = [stage EXCEPT ![q] = "asked"] /\ queries' = Append(queries, q)
      /\ UNCHANGED <<flying, phase, next, end, trouble>> /\ phase \in {"idle", "events", "called"}
      /\ iter' \in {iter, "dangling"} /\ (phase # "called" => iter' = iter)
  BY Zenon DEF Ask, StartResolve, ares, world
<1>2. stage'[q] = "asked" /\ \A p \in Queries : p # q => stage'[p] = stage[p]
  BY <1>1, Zenon DEF ResolverTypeOK
<1>3. queries \in Seq(Queries) /\ flying \subseteq Queries /\ next \in Nat /\ end \in Nat
  BY Zenon DEF ResolverTypeOK
<1>4. \A p \in flying : stage'[p] = "asked"
  BY <1>2, <1>3, Zenon DEF WaitInv
<1>5. CASE phase \in {"idle", "events"}
  <2>1. WaitingFrom(1)
    BY <1>5, Zenon DEF WaitInv
  <2>2. q \notin flying /\ \A i \in DOMAIN queries : queries[i] # q /\ queries[i] \in Queries
    <3>1. \A i \in DOMAIN queries : i >= 1
      BY <1>3
    <3> QED
      BY <1>1, <1>3, <2>1, <3>1 DEF WaitInv, WaitingFrom
  <2>3. \A i \in DOMAIN queries : queries[i] \notin flying
    BY <1>3, <2>1 DEF WaitingFrom
  <2>4. WaitingFrom(1)'
    BY <1>1, <1>2, <1>3, <2>1, <2>2, <2>3, QueueMore, Zenon
  <2> QED
    BY <1>1, <1>4, <1>5, <2>4, Zenon DEF WaitInv
<1>6. CASE phase = "called"
  <2>1. end <= Len(queries')
    BY <1>1, <1>3, <1>6, QueryAppended DEF WaitInv
  <2>2. ASSUME iter = "valid" PROVE Waiting(next, end)'
    <3>1. next >= 1 /\ end <= Len(queries) /\ Waiting(next, end)
      BY <1>6, <2>2, Zenon DEF WaitInv
    <3>2. \A k \in next .. end : k \in DOMAIN queries /\ queries[k] \in Queries
      BY <1>3, <3>1
    <3>3. \A k \in next .. end : queries'[k] = queries[k]
      BY <1>1, <1>3, <3>2, QueryAppended
    <3>4. \A k \in next .. end : stage'[queries[k]] = "asked" /\ queries[k] \notin flying'
      BY <1>1, <1>2, <3>1, <3>2, Zenon DEF Waiting
    <3>5. Waiting(next, end)' <=> \A k \in next .. end :
            /\ stage'[queries'[k]] = "asked" /\ queries'[k] \notin flying'
            /\ \A l \in next .. end : queries'[k] = queries'[l] => k = l
      BY <1>1, Zenon DEF Waiting
    <3> QED
      BY <3>1, <3>3, <3>4, <3>5, Zenon DEF Waiting
  <2>3. trouble = "inside"
    BY <1>6, Zenon DEF WaitInv
  <2> QED
    BY <1>1, <1>4, <1>6, <2>1, <2>2, <2>3, Zenon DEF WaitInv
<1> QED
  BY <1>1, <1>5, <1>6, Zenon

(* c-ares is done with a query, which ends or is queued again.             *)
LEMMA LandsWaits ==
  ASSUME ResolverInv, NEW q \in Queries, ProcessAnswer(q) \/ ProcessTimeout(q)
  PROVE  WaitInv'
<1> USE DEF ResolverInv
<1>1. /\ q \in flying /\ flying' = flying \ {q} /\ UNCHANGED <<trouble, phase, next, end, iter>>
      /\ phase = "events"
  BY Zenon DEF ProcessAnswer, ProcessTimeout, Landed, Dispatched, ResolverTypeOK, poll, world
<1>2. \/ queries' = Append(queries, q) /\ stage' = stage
      \/ queries' = queries /\ stage' = [stage EXCEPT ![q] = "done"]
  <2>1. PICK status \in {"found", "notfound", "timeout"} : Complete(q, status)
    BY CompletesFacts, Zenon
  <2> QED
    BY <2>1, CompleteFacts, ZenonT(60)
<1>3. WaitingFrom(1) /\ queries \in Seq(Queries) /\ flying \subseteq Queries
  BY <1>1, Zenon DEF WaitInv, ResolverTypeOK
<1>4. \A i \in DOMAIN queries : queries[i] # q /\ queries[i] \in Queries /\ queries[i] \notin flying
  BY <1>1, <1>3 DEF WaitingFrom
<1>5. stage[q] = "asked"
  BY <1>1, Zenon DEF WaitInv
<1>6. /\ \A p \in Queries : p # q => stage'[p] = stage[p]
      /\ \A p \in flying' : stage'[p] = "asked"
  BY <1>1, <1>2, <1>3, ZenonT(60) DEF ResolverTypeOK, WaitInv
<1>7. WaitingFrom(1)'
  <2>1. CASE queries' = Append(queries, q) /\ stage' = stage
    BY <1>1, <1>3, <1>4, <1>5, <2>1, QueueMore, Zenon
  <2>2. CASE queries' = queries /\ stage' = [stage EXCEPT ![q] = "done"]
    BY <1>1, <1>3, <1>4, <1>6, <2>2, Zenon DEF WaitingFrom
  <2> QED
    BY <1>2, <2>1, <2>2, Zenon
<1> QED
  BY <1>1, <1>6, <1>7, Zenon DEF WaitInv

(* Poll goes over the queries.                                             *)
LEMMA StartWaits ==
  ASSUME ResolverInv, StartFlies \/ StartCompletes \/ CallbackReturns \/ StartEnds
  PROVE  WaitInv'
<1> USE DEF ResolverInv
<1>1. queries \in Seq(Queries) /\ next \in Nat /\ end \in Nat /\ Len(queries) \in Nat
  BY SMTT(60) DEF ResolverTypeOK
<1>2. CASE StartFlies
  <2>1. /\ phase = "start" /\ trouble # "inside" /\ next <= end /\ next' = next + 1
        /\ flying' = flying \cup {queries[next]}
        /\ UNCHANGED <<trouble, stage, queries, phase, end, iter>>
    BY <1>2, Zenon DEF StartFlies, world
  <2>2. end <= Len(queries) /\ Waiting(next, end) /\ next >= 1 /\ iter = "valid"
    BY <2>1, Zenon DEF WaitInv, ResolverTypeOK
  <2>3. next \in next .. end /\ \A k \in next + 1 .. end : k \in next .. end /\ k # next
    BY <1>1, <2>1
  <2>4. stage[queries[next]] = "asked" /\ \A k \in next + 1 .. end : queries[k] # queries[next]
    BY <2>2, <2>3, Zenon DEF Waiting
  <2>5. Waiting(next, end)'
    BY <2>1, <2>2, <2>3, <2>4, ZenonT(60) DEF Waiting
  <2>6. next' >= 1
    BY <1>1, <2>1, <2>2
  <2> QED
    BY <2>1, <2>2, <2>4, <2>5, <2>6, Zenon DEF WaitInv
<1>3. CASE StartCompletes
  <2>1. /\ phase = "start" /\ trouble = "inside" /\ next <= end /\ next' = next + 1
        /\ phase' = "called" /\ UNCHANGED <<trouble, flying, end>>
    BY <1>3, Zenon DEF StartCompletes, world, ares
  <2>2. flying = {} /\ next >= 1 /\ end <= Len(queries)
    BY <2>1, Zenon DEF WaitInv
  <2>3. PICK q \in Queries : CompletesAt(q)
    BY <1>3, Zenon DEF StartCompletes, CompletesAt
  <2>4. /\ \/ queries' = Append(queries, q) /\ stage' = stage
           \/ queries' = queries /\ stage' = [stage EXCEPT ![q] = "done"]
        /\ iter' \in {iter, "dangling"}
    <3>1. PICK status \in {"found", "notfound", "timeout"} : Complete(q, status)
      BY <2>3, CompletesFacts, Zenon
    <3> QED
      BY <3>1, CompleteFacts, ZenonT(60)
  <2>5. /\ Len(Append(queries, q)) = Len(queries) + 1
        /\ \A k \in DOMAIN queries : queries'[k] = queries[k]
    BY <1>1, <2>3, <2>4, QueryAppended
  <2>6. end <= Len(queries') /\ next' >= 1
    BY <1>1, <2>1, <2>2, <2>4, <2>5
  <2>7. ASSUME iter' = "valid" PROVE Waiting(next, end)'
    <3>1. iter = "valid" /\ q = queries[next] /\ Waiting(next, end)
      BY <2>1, <2>3, <2>4, <2>7, Zenon DEF CompletesAt, StandsAt, WaitInv
    <3>2. /\ next \in next .. end
          /\ \A k \in next + 1 .. end : /\ k \in next .. end /\ k # next
                                         /\ k \in DOMAIN queries /\ queries[k] \in Queries
      BY <1>1, <2>1, <2>2
    <3>3. \A k \in next + 1 .. end : queries[k] # q /\ stage[queries[k]] = "asked"
      BY <3>1, <3>2, Zenon DEF Waiting
    <3>4. \A k \in next + 1 .. end : queries'[k] = queries[k] /\ stage'[queries[k]] = "asked"
      BY <2>4, <2>5, <3>2, <3>3, ZenonT(60) DEF ResolverTypeOK
    <3>5. Waiting(next, end)' <=> \A k \in next + 1 .. end :
            /\ stage'[queries'[k]] = "asked" /\ queries'[k] \notin flying'
            /\ \A l \in next + 1 .. end : queries'[k] = queries'[l] => k = l
      BY <2>1, Zenon DEF Waiting
    <3>6. \A k \in next + 1 .. end : queries'[k] \notin flying'
      BY <2>1, <2>2, Zenon
    <3>7. \A k, l \in next + 1 .. end : queries[k] = queries[l] => k = l
      BY <3>1, <3>2, Zenon DEF Waiting
    <3> QED
      BY <3>4, <3>5, <3>6, <3>7, Zenon
  <2> QED
    BY <2>1, <2>2, <2>6, <2>7, Zenon DEF WaitInv
<1>4. CASE CallbackReturns
  <2>1. /\ phase = "called" /\ phase' = "start"
        /\ UNCHANGED <<trouble, stage, queries, flying, next, end, iter>>
    BY <1>4, Zenon DEF CallbackReturns, world, ares
  <2> QED
    BY <2>1, Zenon DEF WaitInv, Waiting
<1>5. CASE StartEnds
  <2>1. /\ phase = "start" /\ phase' = "events" /\ queries' = <<>>
        /\ UNCHANGED <<trouble, stage, flying>> /\ iter' = "valid"
    BY <1>5, Zenon DEF StartEnds, world, ares
  <2>2. \A j : j \notin DOMAIN queries'
    BY <2>1
  <2> QED
    BY <2>1, <2>2, Zenon DEF WaitInv, WaitingFrom
<1> QED
  BY <1>2, <1>3, <1>4, <1>5, Zenon

(* The other steps leave the queries alone.                                *)
LEMMA OtherWaits ==
  ASSUME ResolverInv, UNCHANGED <<trouble, stage, queries, flying>>,
         \/ Sync
         \/ phase' = "crashed" /\ iter' = iter
         \/ phase = "events" /\ phase' = "idle" /\ iter' = iter
         \/ UNCHANGED poll
  PROVE  WaitInv'
<1> USE DEF ResolverInv
<1>1. CASE Sync
  <2>1. phase = "idle" /\ phase' = "start" /\ next' = 1 /\ end' = Len(queries) /\ iter' = "valid"
    BY <1>1, Zenon DEF Sync
  <2>2. Len(queries) \in Nat /\ DOMAIN queries = 1 .. Len(queries)
    BY SMTT(60) DEF ResolverTypeOK
  <2>3. \A k \in 1 .. Len(queries) : k >= 1
    BY <2>2
  <2>4. WaitingFrom(1)
    BY <2>1, Zenon DEF WaitInv
  <2>5. Waiting(next, end)'
    BY <2>1, <2>2, <2>3, <2>4, Zenon DEF Waiting, WaitingFrom
  <2>6. next' >= 1 /\ end' <= Len(queries')
    BY <2>1, <2>2
  <2> QED
    BY <2>1, <2>5, <2>6, Zenon DEF WaitInv
<1>2. CASE \/ phase' = "crashed" /\ iter' = iter
           \/ phase = "events" /\ phase' = "idle" /\ iter' = iter
           \/ UNCHANGED poll
  <2>1. CASE phase' = "crashed" /\ iter' = iter
    BY <2>1, Zenon DEF WaitInv
  <2>2. CASE phase = "events" /\ phase' = "idle" /\ iter' = iter
    BY <2>2, Zenon DEF WaitInv, WaitingFrom
  <2>3. CASE UNCHANGED poll
    BY <2>3, Zenon DEF WaitInv, WaitingFrom, Waiting, poll
  <2> QED
    BY <1>2, <2>1, <2>2, <2>3, Zenon
<1> QED
  BY <1>1, <1>2, Zenon

LEMMA NextResolverInv == ResolverInv /\ [NextResolver]_resolver_vars => ResolverInv'
<1> SUFFICES ASSUME ResolverInv, [NextResolver]_resolver_vars PROVE ResolverInv'
  BY Zenon
<1> USE DEF ResolverInv
<1>1. CASE UNCHANGED resolver_vars
  <2>1. ResolverTypeOK'
    BY <1>1, Zenon DEF resolver_vars, ResolverTypeOK
  <2>2. TableInv'
    BY <1>1, TableKept, Zenon DEF resolver_vars, loop
  <2>3. WaitInv'
    BY <1>1, OtherWaits, Zenon DEF resolver_vars, poll
  <2>4. BothFamiliesSearched'
    BY <1>1, Zenon DEF resolver_vars, BothFamiliesSearched
  <2> QED
    BY <2>1, <2>2, <2>3, <2>4, Zenon
<1>2. CASE NextResolver
  <2>1. ResolverTypeOK' /\ BothFamiliesSearched'
    BY <1>2, TypeKept, FamiliesKept, Zenon
  <2>2. TableInv'
    <3>1. CASE \E f \in Fds : OpenClient(f) \/ CloseClient(f)
      BY <3>1, ClientTable, Zenon
    <3>2. CASE Sync
      BY <3>2, SyncTable, Zenon
    <3>3. CASE StartFlies \/ ProcessReopens \/ HangUp
      BY <3>3, AresTable, Zenon
    <3>4. CASE \E q \in Queries : ProcessAnswer(q) \/ ProcessTimeout(q)
      <4>1. PICK q \in Queries : ProcessAnswer(q) \/ ProcessTimeout(q)
        BY <3>4, Zenon
      <4>2. Landed(q) /\ sock \in Fds /\ UNCHANGED <<trouble, processors, requests>>
        BY <4>1, Zenon DEF ProcessAnswer, ProcessTimeout, Dispatched, HasEvent,
           ResolverTypeOK, world
      <4> QED
        BY <4>2, LandedTable, Zenon
    <3>5. CASE UNCHANGED <<trouble, sock, loop>>
      BY <3>5, TableKept, Zenon
    <3>6. \/ \E q \in Queries : Ask(q) \/ Arrive(q)
          \/ StartCompletes \/ StartCrashes \/ CallbackReturns \/ StartEnds \/ ProcessWritable
          \/ Crash \/ EventsEnd
          => UNCHANGED <<trouble, sock, loop>>
      BY Zenon DEF Ask, Arrive, StartCompletes, StartCrashes, CallbackReturns, StartEnds,
         ProcessWritable, Crash, EventsEnd, world, ares
    <3> QED
      BY <1>2, <3>1, <3>2, <3>3, <3>4, <3>5, <3>6, Zenon DEF NextResolver
  <2>3. WaitInv'
    <3>1. CASE \E q \in Queries : Ask(q) \/ ProcessAnswer(q) \/ ProcessTimeout(q)
      BY <3>1, AskWaits, LandsWaits, Zenon
    <3>2. CASE StartFlies \/ StartCompletes \/ CallbackReturns \/ StartEnds
      BY <3>2, StartWaits, Zenon
    <3>3. CASE \/ \E q \in Queries : Arrive(q)
               \/ \E f \in Fds : OpenClient(f) \/ CloseClient(f)
               \/ ProcessWritable \/ ProcessReopens \/ HangUp
      <4>1. UNCHANGED <<trouble, stage, queries, flying>> /\ UNCHANGED poll
        BY <3>3, Zenon DEF Arrive, OpenClient, CloseClient, ProcessWritable, ProcessReopens, HangUp,
           world, ares
      <4> QED
        BY <4>1, OtherWaits, Zenon
    <3>4. CASE Sync \/ StartCrashes \/ Crash \/ EventsEnd
      <4>1. UNCHANGED <<trouble, stage, queries, flying>>
        BY <3>4, Zenon DEF Sync, StartCrashes, Crash, EventsEnd, world, ares
      <4> QED
        BY <3>4, <4>1, OtherWaits, Zenon DEF StartCrashes, Crash, EventsEnd
    <3> QED
      BY <1>2, <3>1, <3>2, <3>3, <3>4, Zenon DEF NextResolver
  <2> QED
    BY <2>1, <2>2, <2>3, Zenon
<1> QED
  BY <1>1, <1>2, Zenon

LEMMA ResolverKeeps == ResolverSpec => []ResolverInv
BY InitResolverInv, NextResolverInv, PTL DEF ResolverSpec

----------------------------------------------------------------------------
(* The state of the resolver and of the loop's table keeps its types.      *)
THEOREM ResolverTypes == ResolverSpec => []ResolverTypeOK
BY ResolverKeeps, PTL DEF ResolverInv

(* Whoever has a descriptor open gets its events, and no IoRequest is in   *)
(* the table after it was deleted, for any number of descriptors however   *)
(* c-ares and the clients reuse them (Poll, ForceDelWithCheck).            *)
THEOREM EventsFindOwners == ResolverSpec => []EventFindsOwner
BY ResolverKeeps, PTL DEF ResolverInv, TableInv

(* Query::OnComplete reports a name as not found only if it has no address *)
(* of either family.                                                       *)
THEOREM NotFoundIsNotThere == ResolverSpec => []BothFamiliesSearched
BY ResolverKeeps, PTL DEF ResolverInv

(* A query is in queries_ once, or with c-ares, or answered: as long as no *)
(* callback that runs inside Poll makes queries_ move, what Poll gives to  *)
(* c-ares next is not deleted, and c-ares does not have it.                *)
THEOREM QueryInOnePlace == ResolverSpec => []OnePlace
<1>1. ResolverInv => OnePlace
  <2> SUFFICES ASSUME ResolverInv PROVE OnePlace
    BY Zenon
  <2>1. DOMAIN queries = 1 .. Len(queries) /\ Len(queries) \in Nat
    BY DEF ResolverInv, ResolverTypeOK
  <2>2. \A i \in DOMAIN queries : i >= 1
    BY <2>1
  <2>3. WaitingFrom(1) => Waiting(1, Len(queries))
    BY <2>1, <2>2, Zenon DEF Waiting, WaitingFrom
  <2> QED
    BY <2>3, Zenon DEF ResolverInv, WaitInv, OnePlace
<1> QED
  BY <1>1, ResolverKeeps, PTL

-----------------------------------------------------------------------------
(***************************************************************************)
(* The streams.                                                            *)
(***************************************************************************)
Records == [owner : 0 .. MaxSessions, life : {"none", "open", "closed", "freed"}]
Codes == {"OpenStream", "DoReconnect"}

(* A reconnection is queued once, while the client is down.                *)
QueueInv ==
  \A k \in DOMAIN queue : queue[k] = "DoReconnect" =>
    /\ state = "DOWN" /\ session < MaxSessions
    /\ \A j \in DOMAIN queue : queue[j] = "DoReconnect" => j = k

(* Nothing is known of an index that was not given out, and no stream of   *)
(* the server's waits to be opened.                                        *)
FreshInv ==
  \A i \in Indices :
    /\ i > made => /\ entries[i] = "absent" /\ opens[i] = 0 /\ closes[i] = 0
                   /\ i \notin incoming
    /\ i \in incoming => entries[i] # "named"

ClosedInv ==
  \A i \in Indices :
    /\ stream[i].owner <= session
    /\ entries[i] = "named" \/ Open(i) => closes[i] = 0

CarefulInv ==
  careful =>
    /\ reader = "idle"
    /\ \A i \in Indices :
         /\ entries[i] = "open" => Open(i)
         /\ entries[i] = "named" => opens[i] = 0
         /\ state = "DOWN" => entries[i] = "absent" /\ ~Open(i)
         /\ opens[i] \in {0, 1} /\ closes[i] \in {0, 1} /\ closes[i] <= opens[i]
         /\ opens[i] # closes[i] => Open(i)

IInv == TypeOK /\ QueueInv /\ FreshInv /\ ClosedInv /\ CarefulInv

----------------------------------------------------------------------------
LEMMA InitIInv == Init => IInv
<1> SUFFICES ASSUME Init PROVE IInv
  BY Zenon
<1>1. TypeOK
  BY BoundsAssumption DEF Init, TypeOK
<1>2. QueueInv
  BY DEF Init, QueueInv
<1>3. FreshInv /\ ClosedInv
  BY DEF Init, FreshInv, ClosedInv, Open
<1>4. CarefulInv
  BY DEF Init, CarefulInv, Open
<1> QED
  BY <1>1, <1>2, <1>3, <1>4, Zenon DEF IInv

(* Numbers of indices and sessions.                                        *)
LEMMA Numbers ==
  /\ \A i \in Indices : i \in Nat
  /\ \A m \in 0 .. MaxStreams : m \in Nat /\ (m < MaxStreams => m + 1 \in Indices /\ m + 1 \in 0 .. MaxStreams)
BY BoundsAssumption DEF Indices

LEMMA SessionFacts ==
  ASSUME TypeOK
  PROVE  session \in 0 .. MaxSessions /\ session \in Nat /\ session <= session
<1>1. session \in 1 .. MaxSessions
  BY Zenon DEF TypeOK
<1> QED
  BY <1>1, BoundsAssumption

LEMMA AppendFacts ==
  ASSUME NEW s \in Seq(Codes), NEW e \in Codes
  PROVE  LET r == Append(s, e)
         IN  /\ r \in Seq(Codes)
             /\ \A i : i \in DOMAIN r <=> i \in DOMAIN s \/ i = Len(s) + 1
             /\ r[Len(s) + 1] = e
             /\ \A i \in DOMAIN s : r[i] = s[i]
OBVIOUS

LEMMA TailFacts ==
  ASSUME NEW s \in Seq(Codes), s # << >>
  PROVE  /\ Tail(s) \in Seq(Codes) /\ Head(s) = s[1] /\ 1 \in DOMAIN s
         /\ \A i \in DOMAIN Tail(s) : i \in Nat /\ i + 1 \in DOMAIN s /\ i + 1 # 1 /\ Tail(s)[i] = s[i + 1]
OBVIOUS

(* The queue gets a request to open streams, or loses its head.            *)
LEMMA QueueKept ==
  ASSUME TypeOK, QueueInv, UNCHANGED <<state, session>>,
         \/ queue' = queue
         \/ queue' = Append(queue, "OpenStream")
         \/ queue # << >> /\ queue' = Tail(queue)
  PROVE  queue' \in Seq(Codes) /\ QueueInv'
<1>1. queue \in Seq(Codes) /\ "OpenStream" \in Codes
  BY Zenon DEF TypeOK, Codes
<1>2. CASE queue' = queue
  BY <1>1, <1>2, Zenon DEF QueueInv
<1>3. CASE queue' = Append(queue, "OpenStream")
  <2>1. /\ queue' \in Seq(Codes)
        /\ \A i \in DOMAIN queue' : queue'[i] = "DoReconnect" => i \in DOMAIN queue /\ queue[i] = "DoReconnect"
    BY <1>1, <1>3, AppendFacts
  <2> QED
    BY <2>1, Zenon DEF QueueInv
<1>4. CASE queue # << >> /\ queue' = Tail(queue)
  <2>1. /\ queue' \in Seq(Codes)
        /\ \A i \in DOMAIN queue' : i \in Nat /\ i + 1 \in DOMAIN queue /\ queue'[i] = queue[i + 1]
    BY <1>1, <1>4, TailFacts, Zenon
  <2> QED
    BY <2>1 DEF QueueInv
<1> QED
  BY <1>2, <1>3, <1>4, Zenon

----------------------------------------------------------------------------
(* OnOutgoingOpen in either thread: a new entry with a name.               *)
LEMMA OutgoingIInv ==
  ASSUME IInv, NEW connected \in BOOLEAN, OnOutgoingOpen(connected), made < MaxStreams,
         UNCHANGED <<careful, state, session, incoming, stream, opens, closes, broken>>,
         reader' \in {"idle", "connected", "not"},
         careful => reader' = "idle" /\ state # "DOWN"
  PROVE  IInv'
<1> USE DEF IInv
<1>1. /\ made' = made + 1 /\ made + 1 \in Indices /\ made \in Nat /\ made + 1 \in 0 .. MaxStreams
      /\ entries' = [entries EXCEPT ![made + 1] = "named"]
      /\ queue' = queue \/ queue' = Append(queue, "OpenStream")
  BY Numbers, Zenon DEF OnOutgoingOpen, TypeOK
<1>2. \A i \in Indices : entries'[i] = IF i = made + 1 THEN "named" ELSE entries[i]
  BY <1>1, Zenon DEF TypeOK
<1>3. queue' \in Seq(Codes) /\ QueueInv'
  BY <1>1, QueueKept, Zenon
<1>4. TypeOK'
  BY <1>1, <1>3, Zenon DEF TypeOK, Codes
<1>5. made + 1 > made /\ \A i \in Indices : i > made + 1 => i > made /\ i # made + 1
  BY <1>1, Numbers
<1>6. /\ opens[made + 1] = 0 /\ closes[made + 1] = 0 /\ entries[made + 1] = "absent"
      /\ made + 1 \notin incoming
  BY <1>1, <1>5, Zenon DEF FreshInv
<1>7. FreshInv' /\ ClosedInv'
  BY <1>1, <1>2, <1>5, <1>6, ZenonT(60) DEF FreshInv, ClosedInv, Open
<1>8. CarefulInv'
  BY <1>2, <1>6, Zenon DEF CarefulInv, Open
<1> QED
  BY <1>3, <1>4, <1>7, <1>8, Zenon

(* RecoverOutgoingStreams, for one index.                                  *)
LEMMA RecoverFacts ==
  ASSUME TypeOK, RecoverOutgoingStreams
  PROVE  /\ entries' \in [Indices -> {"absent", "named", "open"}]
         /\ stream' \in [Indices -> Records]
         /\ opens' \in [Indices -> Nat]
         /\ broken' \subseteq {"deleted with serial", "used after free"}
         /\ \A i \in Indices :
              \/ /\ entries[i] = "named" /\ entries'[i] = "open" /\ opens'[i] = opens[i] + 1
                 /\ stream'[i].owner = session /\ stream'[i].life = "open"
              \/ /\ entries[i] = "named" /\ entries'[i] = "named" /\ opens'[i] = opens[i] + 1
                 /\ stream'[i].owner = session /\ stream'[i].life = "freed" /\ ~careful
              \/ /\ entries[i] # "named" /\ entries'[i] = entries[i] /\ opens'[i] = opens[i]
                 /\ stream'[i] = stream[i]
<1>1. PICK failed \in SUBSET Fresh :
        /\ careful => failed = {}
        /\ entries' = [i \in Indices |-> IF i \in Fresh \ failed THEN "open" ELSE entries[i]]
        /\ stream' = [i \in Indices |->
             IF i \in Fresh
             THEN [owner |-> session, life |-> IF i \in failed THEN "freed" ELSE "open"]
             ELSE stream[i]]
        /\ opens' = [i \in Indices |-> IF i \in Fresh THEN opens[i] + 1 ELSE opens[i]]
        /\ broken' = broken \cup (IF failed # {} THEN {"deleted with serial"} ELSE {})
                            \cup (IF Stale # {} THEN {"used after free"} ELSE {})
  BY Zenon DEF RecoverOutgoingStreams
<1>2. session \in 0 .. MaxSessions
  BY SessionFacts, Zenon
<1> DEFINE o == [owner |-> session, life |-> "open"]
           d == [owner |-> session, life |-> "freed"]
<1>3. /\ o \in Records /\ o.owner = session /\ o.life = "open"
      /\ d \in Records /\ d.owner = session /\ d.life = "freed"
  BY <1>2, Zenon DEF Records
<1>4. ASSUME NEW i \in Indices
      PROVE  stream'[i] = IF i \in Fresh THEN IF i \in failed THEN d ELSE o ELSE stream[i]
  BY <1>1, Zenon
<1> HIDE DEF o, d
<1>5. stream' \in [Indices -> Records]
  <2>1. \A i \in Indices : stream'[i] \in Records
    BY <1>3, <1>4, Zenon DEF TypeOK, Records
  <2>2. stream' = [i \in Indices |-> stream'[i]]
    BY <1>1, Zenon
  <2> QED
    BY <2>1, <2>2, Zenon
<1>6. entries' \in [Indices -> {"absent", "named", "open"}]
  BY <1>1, Zenon DEF TypeOK
<1>7. opens' \in [Indices -> Nat]
  <2>1. opens' = [i \in Indices |-> IF i \in Fresh THEN opens[i] + 1 ELSE opens[i]]
    BY <1>1, Zenon
  <2>2. ASSUME NEW i \in Indices PROVE opens[i] \in Nat /\ opens[i] + 1 \in Nat
    <3>1. opens[i] \in Nat
      BY Zenon DEF TypeOK
    <3> QED
      BY <3>1
  <2>3. ASSUME NEW i \in Indices PROVE opens'[i] \in Nat
    BY <2>1, <2>2, Zenon
  <2>4. opens' = [i \in Indices |-> opens'[i]]
    BY <2>1, Zenon
  <2> QED
    BY <2>3, <2>4, Zenon
<1>8. broken' \subseteq {"deleted with serial", "used after free"}
  BY <1>1, Zenon DEF TypeOK
<1>9. ASSUME NEW i \in Indices
      PROVE  /\ entries'[i] = IF i \in Fresh \ failed THEN "open" ELSE entries[i]
             /\ opens'[i] = IF i \in Fresh THEN opens[i] + 1 ELSE opens[i]
  BY <1>1, Zenon
<1>10. ASSUME NEW i \in Indices
       PROVE  \/ /\ entries[i] = "named" /\ entries'[i] = "open" /\ opens'[i] = opens[i] + 1
                 /\ stream'[i].owner = session /\ stream'[i].life = "open"
              \/ /\ entries[i] = "named" /\ entries'[i] = "named" /\ opens'[i] = opens[i] + 1
                 /\ stream'[i].owner = session /\ stream'[i].life = "freed" /\ ~careful
              \/ /\ entries[i] # "named" /\ entries'[i] = entries[i] /\ opens'[i] = opens[i]
                 /\ stream'[i] = stream[i]
  <2>1. CASE i \in failed
    <3>1. i \in Fresh /\ ~careful
      BY <1>1, <2>1, Zenon
    <3>2. stream'[i] = d /\ entries'[i] = entries[i] /\ opens'[i] = opens[i] + 1 /\ entries[i] = "named"
      BY <1>4, <1>9, <2>1, <3>1, Zenon DEF Fresh
    <3> QED
      BY <1>3, <3>1, <3>2, Zenon
  <2>2. CASE i \in Fresh /\ i \notin failed
    <3>1. stream'[i] = o /\ entries'[i] = "open" /\ opens'[i] = opens[i] + 1 /\ entries[i] = "named"
      BY <1>4, <1>9, <2>2, Zenon DEF Fresh
    <3> QED
      BY <1>3, <3>1, Zenon
  <2>3. CASE i \notin Fresh
    BY <1>4, <1>9, <2>3, Zenon DEF Fresh
  <2> QED
    BY <2>1, <2>2, <2>3, Zenon
<1> QED
  BY <1>5, <1>6, <1>7, <1>8, <1>10, Zenon

LEMMA RecoverIInv ==
  ASSUME IInv, RecoverOutgoingStreams, TypeOK', QueueInv',
         UNCHANGED <<careful, session, made, incoming, reader, closes>>,
         state' = state \/ (state = "CONNECTING" /\ state' = "CONNECTED")
  PROVE  IInv'
<1> USE DEF IInv
<1>1. ASSUME NEW i \in Indices
      PROVE  \/ /\ entries[i] = "named" /\ entries'[i] = "open" /\ opens'[i] = opens[i] + 1
                /\ stream'[i].owner = session /\ stream'[i].life = "open"
             \/ /\ entries[i] = "named" /\ entries'[i] = "named" /\ opens'[i] = opens[i] + 1
                /\ stream'[i].owner = session /\ stream'[i].life = "freed" /\ ~careful
             \/ /\ entries[i] # "named" /\ entries'[i] = entries[i] /\ opens'[i] = opens[i]
                /\ stream'[i] = stream[i]
  BY RecoverFacts, Zenon
<1>2. FreshInv'
  BY <1>1, Zenon DEF FreshInv
<1>3. ClosedInv'
  <2>1. session <= session
    BY SessionFacts, Zenon
  <2>2. ASSUME NEW i \in Indices
        PROVE  stream'[i].owner <= session' /\ (entries'[i] = "named" \/ Open(i)' => closes'[i] = 0)
    <3>1. stream[i].owner <= session /\ (entries[i] = "named" \/ Open(i) => closes[i] = 0)
      BY Zenon DEF ClosedInv
    <3> QED
      BY <1>1, <2>1, <3>1, Zenon DEF Open
  <2> QED
    BY <2>2, Zenon DEF ClosedInv
<1>4. CarefulInv'
  <2> SUFFICES ASSUME careful, NEW i \in Indices
               PROVE  /\ entries'[i] = "open" => Open(i)'
                      /\ entries'[i] = "named" => opens'[i] = 0
                      /\ state' = "DOWN" => entries'[i] = "absent" /\ ~Open(i)'
                      /\ opens'[i] \in {0, 1} /\ closes'[i] \in {0, 1} /\ closes'[i] <= opens'[i]
                      /\ opens'[i] # closes'[i] => Open(i)'
    BY Zenon DEF CarefulInv
  <2>1. /\ entries[i] = "open" => Open(i)
        /\ entries[i] = "named" => opens[i] = 0
        /\ state = "DOWN" => entries[i] = "absent" /\ ~Open(i)
        /\ opens[i] \in {0, 1} /\ closes[i] \in {0, 1} /\ closes[i] <= opens[i]
        /\ opens[i] # closes[i] => Open(i)
    BY Zenon DEF CarefulInv
  <2>2. CASE entries[i] = "named"
    <3>1. /\ entries'[i] = "open" /\ opens'[i] = 1 /\ closes'[i] \in {0, 1} /\ Open(i)'
          /\ state' # "DOWN"
      BY <1>1, <2>1, <2>2, SMTT(60) DEF Open
    <3> QED
      BY <3>1, SMTT(60)
  <2>3. CASE entries[i] # "named"
    <3>1. entries'[i] = entries[i] /\ opens'[i] = opens[i] /\ (Open(i)' <=> Open(i))
      BY <1>1, <2>3, Zenon DEF Open
    <3> QED
      BY <2>1, <2>3, <3>1, Zenon
  <2> QED
    BY <2>2, <2>3, Zenon
<1> QED
  BY <1>2, <1>3, <1>4, Zenon

(* Both steps that run it.                                                 *)
LEMMA OpensIInv ==
  ASSUME IInv, TakeOpenStream \/ OnOpen
  PROVE  IInv'
<1> USE DEF IInv
<1>1. CASE TakeOpenStream
  <2>1. /\ RecoverOutgoingStreams /\ queue # << >> /\ queue' = Tail(queue)
        /\ UNCHANGED <<careful, state, session, made, incoming, reader, closes>>
    BY <1>1, Zenon DEF TakeOpenStream
  <2>2. queue' \in Seq(Codes) /\ QueueInv'
    BY <2>1, QueueKept, Zenon
  <2>3. TypeOK'
    BY <2>1, <2>2, RecoverFacts, Zenon DEF TypeOK, Codes, Records
  <2> QED
    BY <2>1, <2>2, <2>3, RecoverIInv, Zenon
<1>2. CASE OnOpen
  <2>1. /\ RecoverOutgoingStreams /\ state = "CONNECTING" /\ state' = "CONNECTED"
        /\ UNCHANGED <<careful, session, made, incoming, queue, reader, closes>>
    BY <1>2, Zenon DEF OnOpen
  <2>2. QueueInv'
    BY <2>1, Zenon DEF QueueInv
  <2>3. TypeOK'
    BY <2>1, RecoverFacts, Zenon DEF TypeOK, Records
  <2> QED
    BY <2>1, <2>2, <2>3, RecoverIInv, Zenon
<1> QED
  BY <1>1, <1>2, Zenon

(* The server opens a stream.                                              *)
LEMMA IncomingIInv ==
  ASSUME IInv, OnIncomingOpen
  PROVE  IInv'
<1> USE DEF IInv
<1> DEFINE o == [owner |-> session, life |-> "open"]
<1>1. /\ made' = made + 1 /\ made + 1 \in Indices /\ made \in Nat /\ made + 1 \in 0 .. MaxStreams
      /\ entries' = [entries EXCEPT ![made + 1] = "open"] /\ stream' = [stream EXCEPT ![made + 1] = o]
      /\ incoming' = incoming \cup {made + 1} /\ state = "CONNECTED"
      /\ UNCHANGED <<careful, state, session, queue, reader, opens, closes, broken>>
  BY Numbers, Zenon DEF OnIncomingOpen, TypeOK
<1>2. o \in Records /\ o.owner = session /\ o.life = "open" /\ session <= session
  BY SessionFacts, Zenon DEF Records
<1> HIDE DEF o
<1>3. \A i \in Indices : /\ entries'[i] = IF i = made + 1 THEN "open" ELSE entries[i]
                         /\ stream'[i] = IF i = made + 1 THEN o ELSE stream[i]
  BY <1>1, Zenon DEF TypeOK
<1>4. TypeOK'
  BY <1>1, <1>2, Zenon DEF TypeOK, Records
<1>5. QueueInv'
  BY <1>1, Zenon DEF QueueInv
<1>6. made + 1 > made /\ \A i \in Indices : i > made + 1 => i > made /\ i # made + 1
  BY <1>1, Numbers, SMTT(60)
<1>7. opens[made + 1] = 0 /\ closes[made + 1] = 0
  BY <1>1, <1>6, Zenon DEF FreshInv
<1>8. FreshInv'
  BY <1>1, <1>3, <1>6 DEF FreshInv
<1>9. ClosedInv'
  BY <1>1, <1>2, <1>3, <1>7, SMTT(60) DEF ClosedInv, Open
<1>10. CarefulInv'
  BY <1>1, <1>2, <1>3, <1>7, SMTT(60) DEF CarefulInv, Open
<1> QED
  BY <1>4, <1>5, <1>8, <1>9, <1>10, Zenon

(* on_stream_open of a stream of the server's.                             *)
LEMMA HandlerIInv ==
  ASSUME IInv, NEW i \in Indices, OpenHandler(i)
  PROVE  IInv'
<1> USE DEF IInv
<1>1. /\ Open(i) /\ opens[i] = 0 /\ opens' = [opens EXCEPT ![i] = 1] /\ state = "CONNECTED"
      /\ UNCHANGED <<careful, state, session, made, entries, incoming, stream, queue, reader,
                     closes, broken>>
  BY Zenon DEF OpenHandler
<1>2. TypeOK'
  BY <1>1, Zenon DEF TypeOK
<1>3. \A j \in Indices : opens'[j] = IF j = i THEN 1 ELSE opens[j]
  BY <1>1, Zenon DEF TypeOK
<1>4. QueueInv' /\ ClosedInv' /\ closes[i] = 0
  BY <1>1, Zenon DEF QueueInv, ClosedInv, Open
<1>5. FreshInv'
  BY <1>1, <1>3, Zenon DEF FreshInv, OpenHandler
<1>6. entries[i] # "named"
  BY Zenon DEF FreshInv, OpenHandler
<1>7. CarefulInv'
  <2>1. \A j \in Indices : Open(j)' <=> Open(j)
    BY <1>1, Zenon DEF Open
  <2>2. ASSUME careful, NEW j \in Indices, j # i
        PROVE  opens'[j] = opens[j]
    BY <1>3, <2>2, Zenon
  <2>3. opens'[i] = 1 /\ closes'[i] = 0 /\ entries'[i] # "named" /\ Open(i)
    BY <1>1, <1>3, <1>4, <1>6, Zenon
  <2> QED
    BY <1>1, <2>1, <2>2, <2>3, SMTT(60) DEF CarefulInv
<1> QED
  BY <1>2, <1>4, <1>5, <1>7, Zenon

(* Streams close, one or all of a session.                                 *)
LEMMA ClosedFacts ==
  ASSUME TypeOK, NEW closing, StreamClosed(closing)
  PROVE  /\ stream' \in [Indices -> Records] /\ closes' \in [Indices -> Nat]
         /\ \A i \in Indices :
              /\ stream'[i].owner = stream[i].owner
              /\ i \in closing => stream'[i].life = "closed"
              /\ i \notin closing => stream'[i] = stream[i]
              /\ closes'[i] = IF i \in closing /\ opens[i] > 0 THEN closes[i] + 1 ELSE closes[i]
<1>1. \A i \in Indices :
        LET r == [stream[i] EXCEPT !.life = "closed"]
        IN  r \in Records /\ r.owner = stream[i].owner /\ r.life = "closed"
  BY Zenon DEF TypeOK, Records
<1>2. /\ stream' = [i \in Indices |-> IF i \in closing THEN [stream[i] EXCEPT !.life = "closed"]
                                                       ELSE stream[i]]
      /\ closes' = [i \in Indices |->
                      closes[i] + (IF i \in closing /\ opens[i] > 0 THEN 1 ELSE 0)]
  BY Zenon DEF StreamClosed
<1>3. stream' \in [Indices -> Records]
  <2>1. \A i \in Indices : stream[i] \in Records
    BY Zenon DEF TypeOK, Records
  <2> QED
    BY <1>1, <1>2, <2>1, Zenon
<1>4. ASSUME NEW i \in Indices
      PROVE  /\ stream'[i].owner = stream[i].owner
             /\ i \in closing => stream'[i].life = "closed"
             /\ i \notin closing => stream'[i] = stream[i]
  BY <1>1, <1>2, Zenon
<1>5. ASSUME NEW i \in Indices
      PROVE  closes'[i] = IF i \in closing /\ opens[i] > 0 THEN closes[i] + 1 ELSE closes[i]
  <2>1. closes'[i] = closes[i] + (IF i \in closing /\ opens[i] > 0 THEN 1 ELSE 0)
    BY <1>2, Zenon
  <2>2. closes[i] \in Nat
    BY Zenon DEF TypeOK
  <2> QED
    BY <2>1, <2>2, SMTT(60)
<1>6. closes' \in [Indices -> Nat]
  <2>1. closes' = [i \in Indices |-> closes'[i]]
    BY <1>2, Zenon
  <2>2. ASSUME NEW i \in Indices PROVE closes'[i] \in Nat
    <3>1. closes[i] \in Nat
      BY Zenon DEF TypeOK
    <3>2. closes'[i] = closes[i] \/ closes'[i] = closes[i] + 1
      BY <1>5, Zenon
    <3> QED
      BY <3>1, <3>2
  <2> QED
    BY <2>1, <2>2, Zenon
<1> QED
  BY <1>3, <1>4, <1>5, <1>6, Zenon

LEMMA CloseIInv ==
  ASSUME IInv, ConnectionCloses \/ \E i \in Indices : OnClose(i)
  PROVE  IInv'
<1> USE DEF IInv
<1>1. PICK closing \in SUBSET Indices :
        /\ StreamClosed(closing) /\ \A i \in closing : Open(i)
        /\ entries' \in [Indices -> {"absent", "named", "open"}]
        /\ \A i \in Indices : /\ entries'[i] = IF i \in closing THEN "absent" ELSE entries'[i]
                              /\ entries'[i] \in {"absent", entries[i]}
        /\ \/ state' = "DOWN" /\ state # "DOWN" /\ closing = {i \in Indices : Open(i)}
              /\ \A i \in Indices : entries'[i] = "absent"
           \/ state' = state /\ state # "DOWN"
        /\ UNCHANGED <<careful, session, made, incoming, queue, reader, opens, broken>>
  <2>1. CASE ConnectionCloses
    <3> DEFINE c == {i \in Indices : Open(i)}
    <3>1. /\ StreamClosed(c) /\ state \in {"CONNECTING", "CONNECTED"} /\ state' = "DOWN"
          /\ entries' = [i \in Indices |-> "absent"]
          /\ UNCHANGED <<careful, session, made, incoming, queue, reader, opens, broken>>
      BY <2>1, Zenon DEF ConnectionCloses
    <3> QED
      BY <3>1, Zenon
  <2>2. CASE \E i \in Indices : OnClose(i)
    <3>1. PICK i \in Indices : OnClose(i)
      BY <2>2, Zenon
    <3>2. /\ StreamClosed({i}) /\ Open(i) /\ state = "CONNECTED" /\ state' = state
          /\ entries' = [entries EXCEPT ![i] = "absent"]
          /\ UNCHANGED <<careful, session, made, incoming, queue, reader, opens, broken>>
      BY <3>1, Zenon DEF OnClose
    <3>3. /\ entries' \in [Indices -> {"absent", "named", "open"}]
          /\ \A j \in Indices : entries'[j] = IF j = i THEN "absent" ELSE entries[j]
      BY <3>2, Zenon DEF TypeOK
    <3> QED
      BY <3>2, <3>3, ZenonT(60)
  <2> QED
    BY <2>1, <2>2, Zenon
<1>2. /\ stream' \in [Indices -> Records] /\ closes' \in [Indices -> Nat]
      /\ \A i \in Indices :
           /\ stream'[i].owner = stream[i].owner
           /\ i \in closing => stream'[i].life = "closed"
           /\ i \notin closing => stream'[i] = stream[i]
           /\ closes'[i] = IF i \in closing /\ opens[i] > 0 THEN closes[i] + 1 ELSE closes[i]
  BY <1>1, ClosedFacts, Zenon
<1>3. TypeOK'
  <2>1. state' \in {"CONNECTING", "CONNECTED", "DOWN"}
    BY <1>1, Zenon DEF TypeOK
  <2> QED
    BY <1>1, <1>2, <2>1, Zenon DEF TypeOK, Records
<1>4. QueueInv'
  BY <1>1, Zenon DEF QueueInv
<1>5. \A i \in Indices : (Open(i)' <=> Open(i) /\ i \notin closing)
  BY <1>1, <1>2, Zenon DEF Open
<1>6. FreshInv'
  <2>1. ASSUME NEW i \in Indices, i > made PROVE closes'[i] = 0
    <3>1. opens[i] = 0 /\ closes[i] = 0
      BY <2>1, Zenon DEF FreshInv
    <3>2. ~(opens[i] > 0)
      BY <3>1
    <3> QED
      BY <1>2, <3>1, <3>2, Zenon
  <2> QED
    BY <1>1, <2>1, Zenon DEF FreshInv
<1>7. ClosedInv'
  BY <1>1, <1>2, <1>5, Zenon DEF ClosedInv
<1>8. CarefulInv'
  <2> SUFFICES ASSUME careful, NEW i \in Indices
               PROVE  /\ entries'[i] = "open" => Open(i)'
                      /\ entries'[i] = "named" => opens'[i] = 0
                      /\ state' = "DOWN" => entries'[i] = "absent" /\ ~Open(i)'
                      /\ opens'[i] \in {0, 1} /\ closes'[i] \in {0, 1} /\ closes'[i] <= opens'[i]
                      /\ opens'[i] # closes'[i] => Open(i)'
    <3>1. careful' => careful
      BY <1>1
    <3>2. careful => reader' = "idle"
      BY <1>1, Zenon DEF CarefulInv
    <3> QED
      BY <3>1, <3>2, ZenonT(60) DEF CarefulInv
  <2>1. /\ entries[i] = "open" => Open(i)
        /\ entries[i] = "named" => opens[i] = 0
        /\ opens[i] \in {0, 1} /\ closes[i] \in {0, 1} /\ closes[i] <= opens[i]
        /\ opens[i] # closes[i] => Open(i)
    BY Zenon DEF CarefulInv
  <2>2. i \in closing => closes[i] = 0
    BY <1>1, Zenon DEF ClosedInv
  <2>3. state' = "DOWN" => entries'[i] = "absent" /\ ~Open(i)'
    BY <1>1, <1>5, Zenon
  <2>4. CASE i \in closing
    <3>1. entries'[i] = "absent" /\ Open(i) /\ opens'[i] = opens[i]
      BY <1>1, <2>4, Zenon
    <3>2. closes'[i] = IF opens[i] > 0 THEN closes[i] + 1 ELSE closes[i]
      BY <1>2, <2>4, Zenon
    <3>3. closes'[i] = opens'[i]
      BY <2>1, <2>2, <2>4, <3>1, <3>2
    <3> QED
      BY <2>1, <2>3, <3>1, <3>3
  <2>5. CASE i \notin closing
    <3>1. entries'[i] \in {"absent", entries[i]} /\ opens'[i] = opens[i]
      BY <1>1, Zenon
    <3>2. closes'[i] = closes[i] /\ (Open(i)' <=> Open(i))
      BY <1>2, <1>5, <2>5, Zenon
    <3> QED
      BY <2>1, <2>3, <3>1, <3>2, Zenon
  <2> QED
    BY <2>4, <2>5, Zenon
<1> QED
  BY <1>3, <1>4, <1>6, <1>7, <1>8, Zenon

(* The next session, which deletes the streams of the last one.            *)
LEMMA ReconnectIInv ==
  ASSUME IInv, Reconnect \/ TakeDoReconnect
  PROVE  IInv'
<1> USE DEF IInv
<1>0. queue \in Seq(Codes) /\ "DoReconnect" \in Codes
  BY Zenon DEF TypeOK, Codes
<1>1. CASE Reconnect
  <2>1. /\ state = "DOWN" /\ session < MaxSessions /\ queue' = Append(queue, "DoReconnect")
        /\ \A k \in 1 .. Len(queue) : queue[k] # "DoReconnect"
        /\ UNCHANGED <<careful, state, session, made, entries, incoming, stream, reader, opens,
                       closes, broken>>
    BY <1>1, Zenon DEF Reconnect
  <2>2. /\ queue' \in Seq(Codes)
        /\ \A i : i \in DOMAIN queue' <=> i \in DOMAIN queue \/ i = Len(queue) + 1
        /\ \A i \in DOMAIN queue : queue'[i] = queue[i]
    BY <1>0, <2>1, AppendFacts, SMTT(60)
  <2>3. DOMAIN queue = 1 .. Len(queue)
    BY <1>0
  <2>4. QueueInv'
    BY <2>1, <2>2, <2>3, Zenon DEF QueueInv
  <2>5. TypeOK'
    BY <2>1, <2>2, Zenon DEF TypeOK, Codes
  <2>6. FreshInv' /\ ClosedInv' /\ CarefulInv'
    BY <2>1, Zenon DEF FreshInv, ClosedInv, CarefulInv, Open
  <2> QED
    BY <2>4, <2>5, <2>6, Zenon
<1>2. CASE TakeDoReconnect
  <2>1. /\ queue # << >> /\ Head(queue) = "DoReconnect" /\ queue' = Tail(queue)
        /\ state' = "CONNECTING" /\ session' = session + 1
        /\ stream' = [i \in Indices |-> IF stream[i].owner = session
                                        THEN [stream[i] EXCEPT !.life = "freed"] ELSE stream[i]]
        /\ UNCHANGED <<careful, made, entries, incoming, reader, opens, closes, broken>>
    BY <1>2, Zenon DEF TakeDoReconnect
  <2>2. /\ queue' \in Seq(Codes) /\ 1 \in DOMAIN queue /\ queue[1] = "DoReconnect"
        /\ \A i \in DOMAIN queue' : /\ i \in Nat /\ i + 1 \in DOMAIN queue /\ i + 1 # 1
                                    /\ queue'[i] = queue[i + 1]
    BY <1>0, <2>1, TailFacts, Zenon
  <2>3. state = "DOWN" /\ session < MaxSessions
    BY <2>2, Zenon DEF QueueInv
  <2>4. QueueInv'
    <3>1. ASSUME NEW k \in DOMAIN queue' PROVE queue'[k] # "DoReconnect"
      <4>1. k + 1 \in DOMAIN queue /\ k + 1 # 1 /\ queue'[k] = queue[k + 1]
        BY <2>2, Zenon
      <4> QED
        BY <2>2, <4>1, Zenon DEF QueueInv
    <3> QED
      BY <3>1, Zenon DEF QueueInv
  <2>5. session' \in 1 .. MaxSessions /\ session < session' /\ session' \in Nat /\ session \in Nat
    <3>1. session \in 1 .. MaxSessions /\ MaxSessions \in Nat
      BY BoundsAssumption, Zenon DEF TypeOK
    <3>2. session' = session + 1
      BY <2>1, Zenon
    <3> QED
      BY <2>3, <3>1, <3>2
  <2>6. ASSUME NEW i \in Indices
        PROVE  /\ stream'[i] \in Records /\ stream'[i].owner = stream[i].owner
               /\ stream'[i].owner <= session' /\ ~Open(i)'
    <3>1. LET r == [stream[i] EXCEPT !.life = "freed"]
          IN  r \in Records /\ r.owner = stream[i].owner
      BY Zenon DEF TypeOK, Records
    <3>2. stream[i] \in Records
      BY Zenon DEF TypeOK, Records
    <3>3. stream'[i] \in Records /\ stream'[i].owner = stream[i].owner
      BY <2>1, <3>1, <3>2, Zenon
    <3>4. stream[i].owner <= session /\ stream[i].owner \in 0 .. MaxSessions
      BY <3>2, Zenon DEF ClosedInv, Records
    <3>5. stream[i].owner <= session' /\ stream[i].owner # session'
      BY <2>5, <3>4
    <3> QED
      BY <3>3, <3>5, Zenon DEF Open
  <2>7. TypeOK'
    <3>1. stream' \in [Indices -> Records]
      BY <2>1, <2>6, Zenon
    <3> QED
      BY <2>1, <2>2, <2>5, <3>1, Zenon DEF TypeOK, Codes, Records
  <2>8. FreshInv' /\ ClosedInv'
    BY <2>1, <2>6, Zenon DEF FreshInv, ClosedInv
  <2>9. CarefulInv'
    <3> SUFFICES ASSUME careful, NEW i \in Indices
                 PROVE  /\ entries[i] = "absent" /\ opens[i] = closes[i]
                        /\ opens[i] \in {0, 1} /\ closes[i] <= opens[i]
      BY <2>1, <2>6, Zenon DEF CarefulInv
    <3> QED
      BY <2>3, Zenon DEF CarefulInv
  <2> QED
    BY <2>4, <2>7, <2>8, <2>9, Zenon
<1> QED
  BY <1>1, <1>2, Zenon

LEMMA NextIInv == IInv /\ [Next]_vars => IInv'
<1> SUFFICES ASSUME IInv, [Next]_vars PROVE IInv'
  BY Zenon
<1> USE DEF IInv
<1>1. CASE UNCHANGED vars
  <2>1. TypeOK' /\ QueueInv' /\ FreshInv'
    BY <1>1, ZenonT(60) DEF vars, TypeOK, QueueInv, FreshInv
  <2>2. ClosedInv' /\ CarefulInv'
    BY <1>1, Zenon DEF vars, ClosedInv, CarefulInv, Open
  <2> QED
    BY <2>1, <2>2, Zenon
<1>2. CASE InitStream
  <2>1. (state = "CONNECTED") \in BOOLEAN
    BY Zenon
  <2>2. /\ OnOutgoingOpen(state = "CONNECTED") /\ made < MaxStreams /\ (careful => state # "DOWN")
        /\ UNCHANGED <<careful, state, session, incoming, stream, reader, opens, closes, broken>>
    BY <1>2, Zenon DEF InitStream, MayOpen
  <2>3. reader' \in {"idle", "connected", "not"} /\ (careful => reader' = "idle")
    BY <2>2, Zenon DEF TypeOK, CarefulInv
  <2> QED
    BY <2>1, <2>2, <2>3, OutgoingIInv, Zenon
<1>3. CASE InitStreamEmplaces
  <2>1. (reader = "connected") \in BOOLEAN
    BY Zenon
  <2>2. /\ OnOutgoingOpen(reader = "connected") /\ made < MaxStreams /\ reader # "idle" /\ reader' = "idle"
        /\ UNCHANGED <<careful, state, session, incoming, stream, opens, closes, broken>>
    BY <1>3, Zenon DEF InitStreamEmplaces
  <2>3. ~careful
    BY <2>2, Zenon DEF CarefulInv
  <2> QED
    BY <2>1, <2>2, <2>3, OutgoingIInv, Zenon
<1>4. CASE InitStreamReads
  <2>1. /\ ~careful /\ reader' \in {"connected", "not"}
        /\ UNCHANGED <<careful, state, session, made, entries, incoming, stream, queue, opens,
                       closes, broken>>
    BY <1>4, Zenon DEF InitStreamReads
  <2>2. TypeOK' /\ QueueInv' /\ FreshInv'
    BY <2>1, Zenon DEF TypeOK, QueueInv, FreshInv
  <2>3. ClosedInv' /\ CarefulInv'
    BY <2>1, Zenon DEF ClosedInv, CarefulInv, Open
  <2> QED
    BY <2>2, <2>3, Zenon
<1> QED
  BY <1>1, <1>2, <1>3, <1>4, OpensIInv, IncomingIInv, HandlerIInv, CloseIInv, ReconnectIInv, Zenon
     DEF Next, Loop

LEMMA SpecIInv == Spec => []IInv
BY InitIInv, NextIInv, PTL DEF Spec

----------------------------------------------------------------------------
(* The variables keep their types.                                         *)
THEOREM TypeCorrect == Spec => []TypeOK
BY SpecIInv, PTL DEF IInv

(* When callers are careful, the stream of an entry is an open stream of   *)
(* the present session, through any number of reconnections: the entries   *)
(* are cleared when the session closes, before the next one deletes its    *)
(* streams (NqClient::OnClose, RecoverOutgoingStreams).                    *)
THEOREM EntriesLive == Spec => []EntryLive
<1>1. IInv => EntryLive
  BY Zenon DEF IInv, CarefulInv, EntryLive
<1> QED
  BY <1>1, SpecIInv, PTL

(* When callers are careful, on_stream_open and on_stream_close run at     *)
(* most once for a stream, and as often by the time its connection ended   *)
(* (OnOpen, StreamManager::OnClose, NqSession::OnConnectionClosed).        *)
THEOREM OpensAndClosesPair == Spec => []OpenClosePaired
<1>1. IInv => OpenClosePaired
  <2> SUFFICES ASSUME IInv, careful, NEW i \in Indices
               PROVE  /\ opens[i] <= 1 /\ closes[i] <= opens[i]
                      /\ state = "DOWN" => closes[i] = opens[i]
    BY Zenon DEF OpenClosePaired
  <2> QED
    BY SMTT(60) DEF IInv, CarefulInv
<1> QED
  BY <1>1, SpecIInv, PTL

(* A step neither opens nor closes a stream that has been closed.          *)
LEMMA ClosedStays ==
  ASSUME IInv, Next, NEW i \in Indices, closes[i] > 0
  PROVE  opens'[i] = opens[i] /\ closes'[i] = closes[i]
<1>1. closes[i] \in Nat /\ closes \in [Indices -> Nat] /\ opens \in [Indices -> Nat]
  BY Zenon DEF IInv, TypeOK
<1>2. entries[i] # "named" /\ ~Open(i)
  BY <1>1 DEF IInv, ClosedInv
<1>3. CASE OnOpen \/ TakeOpenStream
  <2>1. closes' = closes /\ opens' = [j \in Indices |-> IF j \in Fresh THEN opens[j] + 1 ELSE opens[j]]
    BY <1>3, Zenon DEF OnOpen, TakeOpenStream, RecoverOutgoingStreams
  <2> QED
    BY <1>2, <2>1, Zenon DEF Fresh
<1>4. CASE \E j \in Indices : OpenHandler(j)
  BY <1>1, <1>2, <1>4, Zenon DEF OpenHandler
<1>5. CASE (\E j \in Indices : OnClose(j)) \/ ConnectionCloses
  <2>1. PICK closing : StreamClosed(closing) /\ i \notin closing /\ opens' = opens
    BY <1>2, <1>5, Zenon DEF OnClose, ConnectionCloses
  <2> QED
    BY <1>1, <2>1 DEF StreamClosed
<1>6. CASE UNCHANGED <<opens, closes>>
  BY <1>6, Zenon
<1> QED
  BY <1>3, <1>4, <1>5, <1>6, Zenon
     DEF Next, Loop, InitStream, InitStreamReads, InitStreamEmplaces, TakeDoReconnect,
         OnIncomingOpen, Reconnect

(* A stream that has been closed is never opened nor closed again, however *)
(* careless the callers are and whenever the connection ends               *)
(* (StreamManager::OnClose, RecoverOutgoingStreams).                       *)
THEOREM NeverReopened == Spec => ClosedForGood
<1>1. IInv /\ [Next]_vars =>
        [\A i \in Indices : closes[i] > 0 => opens'[i] = opens[i] /\ closes'[i] = closes[i]]_vars
  BY ClosedStays, Zenon
<1> QED
  BY <1>1, SpecIInv, PTL DEF Spec, ClosedForGood
=============================================================================
