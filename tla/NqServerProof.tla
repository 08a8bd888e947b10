---------------------------- MODULE NqServerProof ---------------------------
(***************************************************************************)
(* Proofs about NqServer, for every number of workers, connections and     *)
(* packets, for both arguments of nq_server_start, and also when           *)
(* nq_server_join comes before the server runs.                            *)
(***************************************************************************)
EXTENDS NqServer, FiniteSetTheorems, TLAPS

\* What ties the threads together.  The joiner can only be past its wait once
\* the stopper has given mutex_ back, and the stopper sets TERMINATED only
\* after it has seen every worker end; no worker starts after that.
ThreadInv ==
  /\ (mutex = "stopper") <=> (stopper \in {"stopping", "unlock"})
  /\ (mutex = "joiner") <=> (joiner = "joining")
  /\ status = "TERMINATED" => stopper \in {"unlock", "returned"}
  /\ joiner \in {"joining", "returned"} => stopper = "returned"
  /\ stopper \in {"unlock", "returned"} => \A w \in Workers : worker[w] = "exited"
  /\ stopper # "none" => assigned = NumWorkers /\ started = NumWorkers
  /\ stopper = "none" => starter # "blocked"
  /\ (stopper # "none") => (starter \in {"blocked", "storing", "returned"})
  /\ (starter = "storing") => (stopper # "none")
  /\ (stopper = "returned") => (starter \in {"storing", "returned"})

\* Sessions are where their connection id says, and so are queued packets.
SessionsOwned ==
  \A w \in Workers, c \in Conns : sessions[w][c] # "none" => c % NumWorkers = w

QueuesOwned ==
  \A w \in Workers : \A i \in 1 .. Len(queue[w]) : queue[w][i] % NumWorkers = w

RouteInv == SessionsOwned /\ QueuesOwned

IInv == TypeOK /\ ThreadInv /\ RouteInv

\* Every connection id has its worker (NqDispatcher::OnRecv).
LEMMA OwnerIsWorker == ASSUME NEW c \in Conns PROVE c % NumWorkers \in Workers
BY BoundsAssumption DEF Workers

\* The packet a worker takes from its queue is its own.
LEMMA HeadOwned == ASSUME NEW w \in Workers, queue \in [Workers -> Seq(Conns)],
                          queue[w] # << >>, RouteInv
                   PROVE  Head(queue[w]) \in Conns /\ Head(queue[w]) % NumWorkers = w
<1>1. queue[w] \in Seq(Conns)
  OBVIOUS
<1>2. Len(queue[w]) \in Nat \ {0} /\ Head(queue[w]) = queue[w][1] /\ queue[w][1] \in Conns
  BY <1>1
<1> QED BY <1>2 DEF RouteInv, QueuesOwned

\* What is left in the queue is still the worker's own.
LEMMA TailOwned == ASSUME NEW w \in Workers, queue \in [Workers -> Seq(Conns)],
                          queue[w] # << >>, QueuesOwned,
                          queue' = [queue EXCEPT ![w] = Tail(queue[w])]
                   PROVE  QueuesOwned'
<1> SUFFICES ASSUME NEW v \in Workers, NEW i \in 1 .. Len(queue'[v])
             PROVE  queue'[v][i] % NumWorkers = v
  BY Zenon DEF QueuesOwned
<1>1. CASE v = w
  <2>1. queue'[w] = Tail(queue[w]) /\ queue[w] \in Seq(Conns)
    OBVIOUS
  <2>2. i + 1 \in 1 .. Len(queue[w]) /\ queue'[v][i] = queue[w][i + 1]
    BY <1>1, <2>1
  <2> QED BY <1>1, <2>2 DEF QueuesOwned
<1>2. CASE v # w
  BY <1>2 DEF QueuesOwned
<1> QED BY <1>1, <1>2

\* A packet passed on goes to the queue of its own worker.
LEMMA AppendOwned == ASSUME NEW c \in Conns, NEW v \in Workers, v = c % NumWorkers,
                            queue \in [Workers -> Seq(Conns)], QueuesOwned,
                            queue' = [queue EXCEPT ![v] = Append(queue[v], c)]
                     PROVE  QueuesOwned'
<1> SUFFICES ASSUME NEW u \in Workers, NEW i \in 1 .. Len(queue'[u])
             PROVE  queue'[u][i] % NumWorkers = u
  BY Zenon DEF QueuesOwned
<1>1. CASE u = v
  <2>1. queue'[v] = Append(queue[v], c) /\ queue[v] \in Seq(Conns)
    BY Zenon
  <2>2. CASE i \in 1 .. Len(queue[v])
    <3>1. queue'[u][i] = queue[v][i]
      BY <1>1, <2>1, <2>2
    <3> QED BY <1>1, <2>2, <3>1, Zenon DEF QueuesOwned
  <2>3. CASE i = Len(queue[v]) + 1
    <3>1. queue'[u][i] = c
      BY <1>1, <2>1, <2>3
    <3> QED BY <1>1, <3>1, Zenon
  <2>4. i \in 1 .. Len(queue[v]) \/ i = Len(queue[v]) + 1
    BY <1>1, <2>1
  <2> QED BY <2>2, <2>3, <2>4, Zenon
<1>2. CASE u # v
  BY <1>2, Zenon DEF QueuesOwned
<1> QED BY <1>1, <1>2, Zenon

\* Closing sessions keeps the types of what it changes.
LEMMA CloseTypes == ASSUME NEW w \in Workers, NEW cs \in SUBSET Conns, TypeOK,
                           CloseSessions(w, cs)
                    PROVE  /\ sessions' \in [Workers -> [Conns -> SessionState]]
                           /\ gone' \subseteq Conns
                           /\ closed' \in [Conns -> Nat]
<1> DEFINE after == [c \in Conns |-> IF c \in cs THEN "none" ELSE sessions[w][c]]
<1>1. after \in [Conns -> SessionState]
  BY Zenon DEF TypeOK, SessionState
<1>2. sessions' = [sessions EXCEPT ![w] = after]
  BY DEF CloseSessions
<1>3. sessions' \in [Workers -> [Conns -> SessionState]]
  BY <1>1, <1>2 DEF TypeOK
<1>4. gone' \subseteq Conns /\ closed' \in [Conns -> Nat]
  BY DEF CloseSessions, TypeOK
<1> QED BY <1>3, <1>4

\* What processing a packet of c at worker w does to the sessions.
Served(w, c) ==
  /\ \E s \in SessionState : sessions' = [sessions EXCEPT ![w][c] = s]
  /\ gone' \subseteq Conns /\ opened' \subseteq Conns
  /\ closed' \in [Conns -> Nat]
  /\ refused' \subseteq (Conns \X Nat)

\* NqDispatcher::Process touches only the session of the packet's connection.
LEMMA ProcessServes == ASSUME NEW w \in Workers, NEW c \in Conns, TypeOK, Process(w, c)
                       PROVE  Served(w, c)
<1>1. CASE c \in gone \/ sessions[w][c] = "open"
  <2>1. UNCHANGED <<sessions, gone, opened, closed, refused>>
    BY <1>1, Zenon DEF Process
  <2>2. sessions' = [sessions EXCEPT ![w][c] = sessions[w][c]] /\ sessions[w][c] \in SessionState
    BY <2>1 DEF TypeOK
  <2> QED BY <2>1, <2>2, Zenon DEF Served, TypeOK
<1>2. CASE ~(c \in gone \/ sessions[w][c] = "open")
  <2> DEFINE others == Cardinality(SessionMap(w) \ {c})
  <2>1. others \in Nat
    BY BoundsAssumption, FS_Subset, FS_CardinalityType DEF SessionMap
  <2>2. Hello(w, c)
    BY <1>2, Zenon DEF Process
  <2>3. CASE CanAcceptClientHello(others + 1)
    <3>1. PICK s \in {"handshake", "open"} :
            /\ sessions' = [sessions EXCEPT ![w][c] = s]
            /\ opened' = IF s = "open" THEN opened \cup {c} ELSE opened
      BY <2>2, <2>3 DEF Hello
    <3>2. UNCHANGED <<gone, closed, refused>>
      BY <2>2, <2>3 DEF Hello
    <3> QED BY <3>1, <3>2, Zenon DEF Served, TypeOK, SessionState
  <2>4. CASE ~CanAcceptClientHello(others + 1)
    <3>1. /\ CloseSessions(w, {c})
          /\ refused' = (IF alive THEN refused \cup {<<c, others>>} ELSE refused)
          /\ opened' = opened
      BY <2>2, <2>4, Zenon DEF Hello
    <3>2. sessions' = [sessions EXCEPT ![w][c] = "none"]
      BY <3>1, Zenon DEF CloseSessions, TypeOK
    <3>3. gone' \subseteq Conns /\ closed' \in [Conns -> Nat]
      BY <3>1 DEF CloseSessions, TypeOK
    <3>4. refused' \subseteq (Conns \X Nat)
      BY <2>1, <3>1 DEF TypeOK
    <3> QED BY <3>1, <3>2, <3>3, <3>4, Zenon DEF Served, TypeOK, SessionState
  <2> QED BY <2>3, <2>4
<1> QED BY <1>1, <1>2

\* The invariant holds when the server has been created.
LEMMA InitIInv == Init => IInv
<1> SUFFICES ASSUME Init PROVE IInv
  OBVIOUS
<1> USE BoundsAssumption
<1>1. TypeOK
  BY DEF Init, TypeOK, SessionState, Workers, Free
<1>2. ThreadInv
  BY DEF Init, ThreadInv, Free
<1>3. RouteInv
  BY DEF Init, RouteInv, SessionsOwned, QueuesOwned
<1> QED BY <1>1, <1>2, <1>3 DEF IInv

(***************************************************************************)
(* One lemma per action: it preserves the invariant.                       *)
(***************************************************************************)

\* nq_server_start begins, or returns at once when a join came first.
LEMMA StepStartCalled == ASSUME IInv, StartCalled
       PROVE IInv'
<1> USE BoundsAssumption DEF IInv
<1>1. TypeOK'
  BY SMTT(60) DEF TypeOK, StartCalled, alive, threads, traffic, SessionState, Workers, Free
<1>2. ThreadInv'
  BY DEF ThreadInv, TypeOK, StartCalled, alive, threads, traffic, Workers, Free
<1>3. RouteInv'
  BY DEF RouteInv, SessionsOwned, QueuesOwned, TypeOK, StartCalled, alive, threads, traffic
<1> QED BY <1>1, <1>2, <1>3

\* A worker thread is created while there is no stopper yet.
LEMMA StepStartWorker == ASSUME IInv, StartWorker
       PROVE IInv'
<1> USE BoundsAssumption DEF IInv
<1>1. TypeOK'
  BY SMTT(60) DEF TypeOK, StartWorker, threads, traffic, SessionState, Workers, Free
<1>2. ThreadInv'
  BY Zenon DEF ThreadInv, TypeOK, StartWorker, threads, traffic, Workers, Free
<1>3. RouteInv'
  BY Zenon DEF RouteInv, SessionsOwned, QueuesOwned, TypeOK, StartWorker, threads, traffic
<1> QED BY <1>1, <1>2, <1>3

\* The new thread is stored in thread_.
LEMMA StepStoreThread == ASSUME IInv, StoreThread
       PROVE IInv'
<1> USE BoundsAssumption DEF IInv
<1>1. TypeOK'
  BY SMTT(60) DEF TypeOK, StoreThread, threads, traffic, SessionState, Workers, Free
<1>2. ThreadInv'
  BY Zenon DEF ThreadInv, TypeOK, StoreThread, threads, traffic, Workers, Free
<1>3. RouteInv'
  BY DEF RouteInv, SessionsOwned, QueuesOwned, TypeOK, StoreThread, threads, traffic
<1> QED BY <1>1, <1>2, <1>3

\* The stopper begins when all the workers exist.
LEMMA StepStartsStopper == ASSUME IInv, StartsStopper
       PROVE IInv'
<1> USE BoundsAssumption DEF IInv
<1>1. TypeOK'
  BY ZenonT(60) DEF TypeOK, StartsStopper, threads, traffic, SessionState, Workers, Free
<1>2. ThreadInv'
  BY DEF ThreadInv, TypeOK, StartsStopper, threads, traffic, Workers, Free
<1>3. RouteInv'
  BY Zenon DEF RouteInv, SessionsOwned, QueuesOwned, TypeOK, StartsStopper, threads, traffic
<1> QED BY <1>1, <1>2, <1>3

\* The shutdown thread is stored, when it may be well under way.
LEMMA StepStoresStopper == ASSUME IInv, StoresStopper
       PROVE IInv'
<1> USE BoundsAssumption DEF IInv
<1>1. TypeOK'
  BY ZenonT(60) DEF TypeOK, StoresStopper, threads, traffic, SessionState, Workers, Free
<1>2. ThreadInv'
  BY DEF ThreadInv, TypeOK, StoresStopper, threads, traffic, Workers, Free
<1>3. RouteInv'
  BY Zenon DEF RouteInv, SessionsOwned, QueuesOwned, TypeOK, StoresStopper, threads, traffic
<1> QED BY <1>1, <1>2, <1>3

\* The stopper takes mutex_ when nobody holds it, or waits without it.
LEMMA StepStopperWaits == ASSUME IInv, StopperWaits
       PROVE IInv'
<1> USE BoundsAssumption DEF IInv
<1>1. TypeOK'
  BY ZenonT(60) DEF TypeOK, StopperWaits, alive, threads, traffic, SessionState, Workers, Free
<1>2. ThreadInv'
  BY Zenon DEF ThreadInv, TypeOK, StopperWaits, alive, threads, traffic, Workers, Free
<1>3. RouteInv'
  BY Zenon DEF RouteInv, SessionsOwned, QueuesOwned, TypeOK, StopperWaits, alive, threads, traffic
<1> QED BY <1>1, <1>2, <1>3

\* TERMINATED is set with every worker ended and mutex_ held.
LEMMA StepStop == ASSUME IInv, Stop
       PROVE IInv'
<1> USE BoundsAssumption DEF IInv
<1>1. TypeOK'
  BY Zenon DEF TypeOK, Stop, NotifyJoiner, WorkersJoined, threads, traffic, SessionState,
     Workers, Free
<1>2. ThreadInv'
  BY Zenon DEF ThreadInv, TypeOK, Stop, NotifyJoiner, WorkersJoined, threads, traffic, Workers, Free
<1>3. RouteInv'
  BY DEF RouteInv, SessionsOwned, QueuesOwned, TypeOK, Stop, NotifyJoiner, WorkersJoined,
     threads, traffic
<1> QED BY <1>1, <1>2, <1>3

\* The stopper gives mutex_ back, and a blocked nq_server_start returns.
LEMMA StepStopperReturns == ASSUME IInv, StopperReturns
       PROVE IInv'
<1> USE BoundsAssumption DEF IInv
<1>1. TypeOK'
  BY Zenon DEF TypeOK, StopperReturns, threads, traffic, SessionState, Workers, Free
<1>2. ThreadInv'
  BY Zenon DEF ThreadInv, TypeOK, StopperReturns, threads, traffic, Workers, Free
<1>3. RouteInv'
  BY Zenon DEF RouteInv, SessionsOwned, QueuesOwned, TypeOK, StopperReturns, threads, traffic
<1> QED BY <1>1, <1>2, <1>3

\* The joiner asks for the shutdown.
LEMMA StepJoinSetsStatus == ASSUME IInv, JoinSetsStatus
       PROVE IInv'
<1> USE BoundsAssumption DEF IInv
<1>1. TypeOK'
  BY Zenon DEF TypeOK, JoinSetsStatus, alive, threads, traffic, SessionState, Workers, Free
<1>2. ThreadInv'
  BY Zenon DEF ThreadInv, TypeOK, JoinSetsStatus, alive, threads, traffic, Workers, Free
<1>3. RouteInv'
  BY Zenon DEF RouteInv, SessionsOwned, QueuesOwned, TypeOK, JoinSetsStatus, alive, threads, traffic
<1> QED BY <1>1, <1>2, <1>3

\* The joiner wakes the stopper.
LEMMA StepJoinNotifies == ASSUME IInv, JoinNotifies
       PROVE IInv'
<1> USE BoundsAssumption DEF IInv
<1>1. TypeOK'
  BY Zenon DEF TypeOK, JoinNotifies, NotifyStopper, threads, traffic, SessionState, Workers, Free
<1>2. ThreadInv'
  BY Zenon DEF ThreadInv, TypeOK, JoinNotifies, NotifyStopper, threads, traffic, Workers, Free
<1>3. RouteInv'
  BY DEF RouteInv, SessionsOwned, QueuesOwned, TypeOK, JoinNotifies, NotifyStopper, threads,
     traffic
<1> QED BY <1>1, <1>2, <1>3

\* The joiner passes its wait only when TERMINATED is set and mutex_ is free.
LEMMA StepJoinWaits == ASSUME IInv, JoinWaits
       PROVE IInv'
<1> USE BoundsAssumption DEF IInv
<1>1. TypeOK'
  BY ZenonT(60) DEF TypeOK, JoinWaits, terminated, threads, traffic, SessionState, Workers, Free
<1>2. ThreadInv'
  BY Zenon DEF ThreadInv, TypeOK, JoinWaits, terminated, threads, traffic, Workers, Free
<1>3. RouteInv'
  BY Zenon DEF RouteInv, SessionsOwned, QueuesOwned, TypeOK, JoinWaits, terminated, threads, traffic
<1> QED BY <1>1, <1>2, <1>3

\* The joiner gives mutex_ back.
LEMMA StepJoinReturns == ASSUME IInv, JoinReturns
       PROVE IInv'
<1> USE BoundsAssumption DEF IInv
<1>1. TypeOK'
  BY Zenon DEF TypeOK, JoinReturns, threads, traffic, SessionState, Workers, Free
<1>2. ThreadInv'
  BY DEF ThreadInv, TypeOK, JoinReturns, threads, traffic, Workers, Free
<1>3. RouteInv'
  BY DEF RouteInv, SessionsOwned, QueuesOwned, TypeOK, JoinReturns, threads, traffic
<1> QED BY <1>1, <1>2, <1>3

\* A new worker starts to serve.
LEMMA StepListen == ASSUME NEW w \in Workers, IInv, Listen(w)
       PROVE IInv'
<1> USE BoundsAssumption DEF IInv
<1>1. TypeOK'
  BY SMTT(60) DEF TypeOK, Listen, threads, traffic, SessionState, Free
<1>2. ThreadInv'
  BY Zenon DEF ThreadInv, TypeOK, Listen, threads, traffic, Free
<1>3. RouteInv'
  BY Zenon DEF RouteInv, SessionsOwned, QueuesOwned, TypeOK, Listen, threads, traffic
<1> QED BY <1>1, <1>2, <1>3

\* A worker processes a packet that was passed on to it.
LEMMA StepDequeue == ASSUME NEW w \in Workers, IInv, Dequeue(w)
       PROVE IInv'
<1> USE BoundsAssumption DEF IInv
<1>0. Head(queue[w]) \in Conns /\ queue[w] # << >> /\ Head(queue[w]) % NumWorkers = w
  BY HeadOwned, Zenon DEF TypeOK, Dequeue
<1>1. Served(w, Head(queue[w]))
  BY <1>0, ProcessServes, Zenon DEF Dequeue
<1>2. /\ queue' = [queue EXCEPT ![w] = Tail(queue[w])]
      /\ UNCHANGED <<status, mutex, starter, stopper, joiner, started, assigned, worker,
                    thread_id, packets>>
  BY Zenon DEF Dequeue, threads
<1>3. TypeOK'
  BY <1>0, <1>1, <1>2, SMTT(60) DEF TypeOK, Served, SessionState
<1>4. ThreadInv'
  BY <1>2, Zenon DEF ThreadInv
<1>5. RouteInv'
  <2>1. SessionsOwned'
    BY <1>0, <1>1, SMTT(60) DEF RouteInv, SessionsOwned, Served
  <2>2. QueuesOwned'
    BY <1>0, <1>2, TailOwned, Zenon DEF RouteInv, TypeOK
  <2> QED BY <2>1, <2>2 DEF RouteInv
<1> QED BY <1>3, <1>4, <1>5

\* A worker closes all its sessions.
LEMMA StepShutdown == ASSUME NEW w \in Workers, IInv, Shutdown(w)
       PROVE IInv'
<1> USE BoundsAssumption DEF IInv
<1>0. SessionMap(w) \subseteq Conns /\ CloseSessions(w, SessionMap(w))
  BY Zenon DEF SessionMap, Shutdown
<1>1. TypeOK'
  <2>1. /\ sessions' \in [Workers -> [Conns -> SessionState]]
        /\ gone' \subseteq Conns /\ closed' \in [Conns -> Nat]
    BY <1>0, CloseTypes, Zenon
  <2>2. worker' \in [Workers -> {"none", "listen", "loop", "drain", "last", "exited"}]
    BY Zenon DEF TypeOK, Shutdown
  <2>3. UNCHANGED <<status, mutex, starter, stopper, joiner, started, assigned, thread_id,
                    queue, packets, opened, refused>>
    BY DEF Shutdown, threads
  <2> QED BY <2>1, <2>2, <2>3 DEF TypeOK
<1>2. ThreadInv'
  BY Zenon DEF ThreadInv, TypeOK, Shutdown, threads
<1>3. RouteInv'
  BY <1>0 DEF RouteInv, SessionsOwned, QueuesOwned, TypeOK, Shutdown, CloseSessions
<1> QED BY <1>1, <1>2, <1>3

\* A worker is done with its sessions.
LEMMA StepShutdownFinished == ASSUME NEW w \in Workers, IInv, ShutdownFinished(w)
       PROVE IInv'
<1> USE BoundsAssumption DEF IInv
<1>1. TypeOK'
  BY SMTT(60) DEF TypeOK, ShutdownFinished, threads, traffic, SessionState, Free
<1>2. ThreadInv'
  BY Zenon DEF ThreadInv, TypeOK, ShutdownFinished, threads, traffic, Free
<1>3. RouteInv'
  BY Zenon DEF RouteInv, SessionsOwned, QueuesOwned, TypeOK, ShutdownFinished, threads, traffic
<1> QED BY <1>1, <1>2, <1>3

\* A worker ends.
LEMMA StepRunReturns == ASSUME NEW w \in Workers, IInv, RunReturns(w)
       PROVE IInv'
<1> USE BoundsAssumption DEF IInv
<1>1. TypeOK'
  BY SMTT(60) DEF TypeOK, RunReturns, threads, traffic, SessionState, Free
<1>2. ThreadInv'
  BY Zenon DEF ThreadInv, TypeOK, RunReturns, threads, traffic, Free
<1>3. RouteInv'
  BY Zenon DEF RouteInv, SessionsOwned, QueuesOwned, TypeOK, RunReturns, threads, traffic
<1> QED BY <1>1, <1>2, <1>3

\* A worker processes a packet of its own or passes it on.
LEMMA StepOnRecv == ASSUME NEW w \in Workers, NEW c \in Conns, IInv, OnRecv(w, c)
       PROVE IInv'
<1> USE BoundsAssumption DEF IInv
<1>1. UNCHANGED <<status, mutex, starter, stopper, joiner, started, assigned, worker, thread_id>>
  BY Zenon DEF OnRecv, threads
<1>2. packets' \in 0 .. MaxPackets
  BY DEF OnRecv, TypeOK
<1>3. ThreadInv'
  BY <1>1, Zenon DEF ThreadInv
<1>4. CASE c % NumWorkers = w
  <2>1. Served(w, c) /\ queue' = queue
    BY <1>4, ProcessServes, Zenon DEF OnRecv
  <2>2. TypeOK'
    BY <1>1, <1>2, <2>1, SMTT(60) DEF TypeOK, Served, SessionState
  <2>3. RouteInv'
    BY <1>4, <2>1 DEF RouteInv, SessionsOwned, QueuesOwned, Served
  <2> QED BY <1>3, <2>2, <2>3
<1>5. CASE c % NumWorkers # w
  <2> DEFINE v == c % NumWorkers
  <2>1. v \in Workers
    BY OwnerIsWorker, Zenon
  <2>2. /\ queue' = [queue EXCEPT ![v] = Append(queue[v], c)]
        /\ UNCHANGED <<sessions, gone, opened, closed, refused>>
    BY <1>5, Zenon DEF OnRecv
  <2>3. TypeOK'
    BY <1>1, <1>2, <2>1, <2>2, SMTT(60) DEF TypeOK
  <2>4. QueuesOwned'
    BY <2>1, <2>2, AppendOwned, Zenon DEF RouteInv, TypeOK
  <2>5. SessionsOwned'
    BY <2>2, Zenon DEF RouteInv, SessionsOwned
  <2> QED BY <1>3, <2>3, <2>4, <2>5 DEF RouteInv
<1> QED BY <1>4, <1>5

\* A connection ends.
LEMMA StepConnectionCloses == ASSUME NEW w \in Workers, NEW c \in Conns, IInv,
ConnectionCloses(w, c)
       PROVE IInv'
<1> USE BoundsAssumption DEF IInv
<1>0. {c} \subseteq Conns /\ CloseSessions(w, {c})
  BY Zenon DEF SessionMap, ConnectionCloses
<1>1. TypeOK'
  <2>1. /\ sessions' \in [Workers -> [Conns -> SessionState]]
        /\ gone' \subseteq Conns /\ closed' \in [Conns -> Nat]
    BY <1>0, CloseTypes, Zenon
  <2>2. worker' \in [Workers -> {"none", "listen", "loop", "drain", "last", "exited"}]
    BY Zenon DEF TypeOK, ConnectionCloses
  <2>3. UNCHANGED <<status, mutex, starter, stopper, joiner, started, assigned, thread_id,
                    queue, packets, opened, refused>>
    BY Zenon DEF ConnectionCloses, threads
  <2> QED BY <2>1, <2>2, <2>3, SMTT(60) DEF TypeOK
<1>2. ThreadInv'
  BY Zenon DEF ThreadInv, TypeOK, ConnectionCloses, threads
<1>3. RouteInv'
  BY <1>0 DEF RouteInv, SessionsOwned, QueuesOwned, TypeOK, ConnectionCloses, CloseSessions
<1> QED BY <1>1, <1>2, <1>3, Zenon

\* Every step preserves the invariant.
LEMMA NextIInv == IInv /\ [Next]_vars => IInv'
<1> SUFFICES ASSUME IInv, [Next]_vars PROVE IInv'
  BY Zenon
<1>1. CASE Start
  BY <1>1, StepStartCalled, StepStartWorker, StepStoreThread, StepStartsStopper,
     StepStoresStopper DEF Start
<1>2. CASE Stopping
  BY <1>2, StepStopperWaits, StepStop, StepStopperReturns, Zenon DEF Stopping
<1>3. CASE Join
  BY <1>3, StepJoinSetsStatus, StepJoinNotifies, StepJoinWaits, StepJoinReturns, Zenon DEF Join
<1>4. ASSUME NEW w \in Workers,
             Listen(w) \/ Dequeue(w) \/ Shutdown(w) \/ ShutdownFinished(w) \/ RunReturns(w)
      PROVE  IInv'
  BY <1>4, StepListen, StepDequeue, StepShutdown, StepShutdownFinished, StepRunReturns, Zenon
<1>5. ASSUME NEW w \in Workers, NEW c \in Conns, OnRecv(w, c) \/ ConnectionCloses(w, c)
      PROVE  IInv'
  BY <1>5, StepOnRecv, StepConnectionCloses, Zenon
<1>6. CASE UNCHANGED vars
  BY <1>6, SMTT(60) DEF vars, IInv, TypeOK, ThreadInv, RouteInv, SessionsOwned, QueuesOwned, SessionMap
<1> QED BY <1>1, <1>2, <1>3, <1>4, <1>5, <1>6 DEF Next

\* The invariant holds in every reachable state of the server.
THEOREM Invariance == Spec => []IInv
BY InitIInv, NextIInv, PTL DEF Spec

\* The variables of the server keep their types.
THEOREM TypeCorrect == Spec => []TypeOK
<1>1. IInv => TypeOK
  BY DEF IInv
<1> QED BY <1>1, Invariance, PTL

\* When nq_server_join deletes the server, every worker has ended and the
\* thread that called Stop has given mutex_ back, for both arguments of
\* nq_server_start; of nq_server_start itself at most the store of
\* shutdown_thread_ is left, if nq_server_join came before it had returned.
THEOREM DeletedUnused == Spec => []NobodyLeft
<1>1. IInv => NobodyLeft
  BY Zenon DEF IInv, ThreadInv, NobodyLeft, TypeOK, Free
<1> QED BY <1>1, Invariance, PTL

\* No connection ever has sessions at two workers, however its packets are
\* spread over their sockets (NqDispatcher::OnRecv).
THEOREM SingleOwner == Spec => []OneOwner
<1>1. IInv => OneOwner
  BY DEF IInv, RouteInv, SessionsOwned, OneOwner, SessionMap
<1> QED BY <1>1, Invariance, PTL

\* A session is in the map of a worker in its loop only, and no session has
\* an id in the time-wait list; on_close ran once for the ids in that list
\* and for no other, and what on_open ran for is in one of the two.  This
\* outlasts the shutdown because the server is not alive when a worker leaves
\* its loop and never will be: a hello that comes then is refused.
CloseInv ==
  /\ \A w \in Workers : w >= started => worker[w] = "none"
  /\ \A w \in Workers : worker[w] \in {"drain", "last", "exited"} => ~alive
  /\ \A w \in Workers, c \in Conns :
       sessions[w][c] # "none" => worker[w] = "loop" /\ c \notin gone
  /\ \A c \in Conns : closed[c] = IF c \in gone THEN 1 ELSE 0
  /\ \A c \in opened : c \in gone \/ sessions[c % NumWorkers][c] = "open"

LEMMA InitClose == Init => CloseInv
BY DEF Init, CloseInv, alive

\* A step of the threads alone.  No worker leaves its loop in it.
LEMMA ThreadsKeepClose ==
  ASSUME IInv, CloseInv, UNCHANGED <<sessions, gone, opened, closed>>,
         started' \in Nat, started' >= started, alive' => alive,
         \A w \in Workers :
           \/ worker'[w] = worker[w]
           \/ /\ w < started' /\ worker[w] # "loop"
              /\ worker'[w] \in {"last", "exited"} => worker[w] \in {"drain", "last"}
              /\ worker'[w] # "drain"
  PROVE  CloseInv'
<1>1. started \in Nat /\ \A w \in Workers : w \in Nat
  BY BoundsAssumption, SMTT(60) DEF IInv, TypeOK, Workers
<1>2. ASSUME NEW w \in Workers, w >= started' PROVE worker'[w] = "none"
  BY <1>1, <1>2 DEF CloseInv
<1>3. ASSUME NEW w \in Workers, worker'[w] \in {"drain", "last", "exited"} PROVE ~alive'
  BY <1>3, Zenon DEF CloseInv
<1>4. ASSUME NEW w \in Workers, NEW c \in Conns, sessions'[w][c] # "none"
      PROVE  worker'[w] = "loop" /\ c \notin gone'
  BY <1>4 DEF CloseInv
<1>5. /\ \A c \in Conns : closed'[c] = IF c \in gone' THEN 1 ELSE 0
      /\ \A c \in opened' : c \in gone' \/ sessions'[c % NumWorkers][c] = "open"
  BY Zenon DEF CloseInv
<1> QED BY <1>2, <1>3, <1>4, <1>5, Zenon DEF CloseInv

\* Sessions are closed whose ids are not in the time-wait list yet.
LEMMA ClosesKeepClose ==
  ASSUME IInv, CloseInv, NEW w \in Workers, NEW cs \in SUBSET Conns, CloseSessions(w, cs),
         cs \cap gone = {}, \A c \in cs : c % NumWorkers = w,
         UNCHANGED <<status, started, opened>>,
         \/ worker' = worker
         \/ /\ worker' = [worker EXCEPT ![w] = "drain"] /\ SessionMap(w) \subseteq cs
            /\ worker[w] = "loop" /\ ~alive
  PROVE  CloseInv'
<1> DEFINE after == [c \in Conns |-> IF c \in cs THEN "none" ELSE sessions[w][c]]
<1>1. /\ sessions \in [Workers -> [Conns -> SessionState]] /\ opened \subseteq Conns
      /\ gone \subseteq Conns /\ started \in Nat /\ \A v \in Workers : v \in Nat
      /\ worker \in [Workers -> {"none", "listen", "loop", "drain", "last", "exited"}]
  BY BoundsAssumption, SMTT(60) DEF IInv, TypeOK, Workers
<1>2. /\ sessions' = [sessions EXCEPT ![w] = after]
      /\ gone' = gone \cup cs
      /\ closed' = [c \in Conns |-> IF c \in cs THEN closed[c] + 1 ELSE closed[c]]
  BY Zenon DEF CloseSessions
<1>3. \A c \in Conns : /\ sessions'[w][c] = IF c \in cs THEN "none" ELSE sessions[w][c]
                       /\ \A v \in Workers : v # w => sessions'[v][c] = sessions[v][c]
  BY <1>1, <1>2
<1>4. /\ \A v \in Workers : v >= started' => worker'[v] = "none"
      /\ \A v \in Workers : worker'[v] \in {"drain", "last", "exited"} => ~alive'
  <2>1. alive' = alive
    BY Zenon DEF alive
  <2>2. \A v \in Workers : v # w => worker'[v] = worker[v]
    BY <1>1
  <2>3. worker'[w] = worker[w] \/ (worker[w] = "loop" /\ worker'[w] = "drain" /\ ~alive)
    BY <1>1, Zenon
  <2> QED BY <2>1, <2>2, <2>3, ZenonT(60) DEF CloseInv
<1>5. ASSUME NEW v \in Workers, NEW c \in Conns, sessions'[v][c] # "none"
      PROVE  worker'[v] = "loop" /\ c \notin gone'
  <2>1. sessions[v][c] # "none" /\ (v = w => c \notin cs)
    BY <1>3, <1>5, Zenon
  <2>2. worker[v] = "loop" /\ c \notin gone
    BY <2>1, Zenon DEF CloseInv
  <2>3. c % NumWorkers = v
    BY <2>1, Zenon DEF IInv, RouteInv, SessionsOwned
  <2>4. c \notin gone'
    BY <1>2, <2>1, <2>2, <2>3, Zenon
  <2>5. worker'[v] = "loop"
    BY <1>1, <2>1, <2>2, Zenon DEF SessionMap
  <2> QED BY <2>4, <2>5, Zenon
<1>6. ASSUME NEW c \in Conns PROVE closed'[c] = IF c \in gone' THEN 1 ELSE 0
  BY <1>2 DEF CloseInv
<1>7. ASSUME NEW c \in opened' PROVE c \in gone' \/ sessions'[c % NumWorkers][c] = "open"
  BY <1>1, <1>2, <1>3, OwnerIsWorker DEF CloseInv
<1> QED BY <1>4, <1>5, <1>6, <1>7, Zenon DEF CloseInv

\* NqDispatcher::Process: a hello is accepted only while the server is alive,
\* and then the worker that gets it is in its loop.
LEMMA ProcessKeepsClose ==
  ASSUME IInv, CloseInv, NEW w \in Workers, NEW c \in Conns, c % NumWorkers = w,
         Runs(w), Process(w, c), UNCHANGED <<status, started, worker>>
  PROVE  CloseInv'
<1>1. CASE c \in gone \/ sessions[w][c] = "open"
  <2>1. UNCHANGED <<sessions, gone, opened, closed>>
    BY <1>1 DEF Process
  <2> QED BY <2>1, Zenon DEF CloseInv, alive
<1>2. CASE c \notin gone /\ sessions[w][c] # "open"
  <2> DEFINE others == Cardinality(SessionMap(w) \ {c})
  <2>1. Hello(w, c)
    BY <1>2, Zenon DEF Process
  <2>2. CASE ~CanAcceptClientHello(others + 1)
    <3>1. CloseSessions(w, {c}) /\ opened' = opened
      BY <2>1, <2>2, Zenon DEF Hello
    <3> QED BY <1>2, <3>1, ClosesKeepClose
  <2>3. CASE CanAcceptClientHello(others + 1)
    <3>1. PICK s \in {"handshake", "open"} :
            /\ sessions' = [sessions EXCEPT ![w][c] = s]
            /\ opened' = IF s = "open" THEN opened \cup {c} ELSE opened
      BY <2>1, <2>3, Zenon DEF Hello
    <3>2. UNCHANGED <<gone, closed>>
      BY <2>1, <2>3, Zenon DEF Hello
    <3>3. worker[w] = "loop"
      BY <2>3, Zenon DEF CanAcceptClientHello, Runs, CloseInv
    <3>4. sessions \in [Workers -> [Conns -> SessionState]] /\ opened \subseteq Conns
      BY Zenon DEF IInv, TypeOK
    <3>5. /\ sessions'[w][c] = s
          /\ \A v \in Workers, d \in Conns : v # w \/ d # c => sessions'[v][d] = sessions[v][d]
      BY <3>1, <3>4
    <3>6. /\ \A v \in Workers : v >= started' => worker'[v] = "none"
          /\ \A v \in Workers : worker'[v] \in {"drain", "last", "exited"} => ~alive'
          /\ \A d \in Conns : closed'[d] = IF d \in gone' THEN 1 ELSE 0
      BY <3>2, Zenon DEF CloseInv, alive
    <3>7. ASSUME NEW v \in Workers, NEW d \in Conns, sessions'[v][d] # "none"
          PROVE  worker'[v] = "loop" /\ d \notin gone'
      BY <1>2, <3>2, <3>3, <3>5, <3>7 DEF CloseInv
    <3>8. ASSUME NEW d \in opened' PROVE d \in gone' \/ sessions'[d % NumWorkers][d] = "open"
      <4>1. CASE d = c
        <5>1. c \in opened => FALSE
          BY <1>2, Zenon DEF CloseInv
        <5> QED BY <3>1, <3>5, <3>8, <4>1, <5>1, Zenon
      <4>2. CASE d # c
        <5>1. d \in opened /\ d \in Conns
          BY <3>1, <3>4, <3>8, <4>2, Zenon
        <5> QED BY <3>2, <3>5, <4>2, <5>1, OwnerIsWorker DEF CloseInv
      <4> QED BY <4>1, <4>2, Zenon
    <3> QED BY <3>6, <3>7, <3>8, Zenon DEF CloseInv
  <2> QED BY <2>2, <2>3
<1> QED BY <1>1, <1>2, Zenon

LEMMA NextClose == ASSUME IInv, CloseInv, [Next]_vars PROVE CloseInv'
<1>1. /\ started \in Nat /\ status \in {"RUNNING", "TERMINATING", "TERMINATED"}
      /\ worker \in [Workers -> {"none", "listen", "loop", "drain", "last", "exited"}]
      /\ queue \in [Workers -> Seq(Conns)] /\ \A w \in Workers : w \in Nat
  BY BoundsAssumption, SMTT(60) DEF IInv, TypeOK, Workers
<1>2. CASE StartWorker
  <2>1. /\ started' = started + 1 /\ status' = status /\ started \in Workers
        /\ worker' = [worker EXCEPT ![started] = "listen"]
        /\ UNCHANGED <<sessions, gone, opened, closed>>
    BY <1>1, <1>2, BoundsAssumption DEF StartWorker, traffic, Workers
  <2>2. \A w \in Workers : \/ worker'[w] = worker[w]
                           \/ w < started' /\ worker[w] # "loop" /\ worker'[w] = "listen"
    BY <1>1, <2>1 DEF CloseInv
  <2> QED BY <1>1, <2>1, <2>2, ThreadsKeepClose DEF alive
<1>3. CASE \/ StartCalled \/ StoreThread \/ StartsStopper \/ StoresStopper \/ Stopping \/ Join
           \/ UNCHANGED vars
  <2>1. UNCHANGED <<started, worker, sessions, gone, opened, closed>> /\ (alive' => alive)
    BY <1>3, Zenon DEF StartCalled, StoreThread, StartsStopper, StoresStopper, Stopping,
                StopperWaits, Stop,
                StopperReturns, Join, JoinSetsStatus, JoinNotifies, JoinWaits, JoinReturns,
                traffic, vars, alive
  <2> QED BY <1>1, <2>1, ThreadsKeepClose
<1>4. ASSUME NEW w \in Workers, Listen(w) \/ ShutdownFinished(w) \/ RunReturns(w)
      PROVE  CloseInv'
  <2>1. UNCHANGED <<started, status, sessions, gone, opened, closed>>
    BY <1>4, Zenon DEF Listen, ShutdownFinished, RunReturns, threads, traffic
  <2>2. /\ \A v \in Workers : v # w => worker'[v] = worker[v]
        /\ \/ worker[w] = "listen" /\ worker'[w] = "loop"
           \/ worker[w] = "drain" /\ worker'[w] = "last"
           \/ worker[w] = "last" /\ worker'[w] = "exited"
    BY <1>1, <1>4, Zenon DEF Listen, ShutdownFinished, RunReturns
  <2>3. w < started'
    BY <1>1, <2>1, <2>2 DEF CloseInv
  <2> QED BY <1>1, <2>1, <2>2, <2>3, ThreadsKeepClose DEF alive
<1>5. ASSUME NEW w \in Workers, Dequeue(w) PROVE CloseInv'
  <2>1. queue[w] # << >> /\ Process(w, Head(queue[w])) /\ Runs(w)
        /\ UNCHANGED <<status, started, worker>>
    BY <1>5, Zenon DEF Dequeue, Runs, threads
  <2>2. Head(queue[w]) \in Conns /\ Head(queue[w]) % NumWorkers = w
    BY <1>1, <2>1, HeadOwned, Zenon DEF IInv
  <2> QED BY <2>1, <2>2, ProcessKeepsClose, Zenon
<1>6. ASSUME NEW w \in Workers, NEW c \in Conns, OnRecv(w, c) PROVE CloseInv'
  <2>1. Runs(w) /\ UNCHANGED <<status, started, worker>>
    BY <1>6, Zenon DEF OnRecv, threads
  <2>2. CASE c % NumWorkers = w
    BY <1>6, <2>1, <2>2, ProcessKeepsClose, Zenon DEF OnRecv
  <2>3. CASE c % NumWorkers # w
    BY <1>6, <2>1, <2>3, SMTT(60) DEF OnRecv, CloseInv, alive
  <2> QED BY <2>2, <2>3, Zenon
<1>7. ASSUME NEW w \in Workers, NEW c \in Conns, ConnectionCloses(w, c) PROVE CloseInv'
  <2>1. /\ CloseSessions(w, {c}) /\ sessions[w][c] # "none"
        /\ UNCHANGED <<status, started, opened, worker>>
    BY <1>7, Zenon DEF ConnectionCloses, threads
  <2>2. c \notin gone /\ c % NumWorkers = w
    BY <2>1 DEF CloseInv, IInv, RouteInv, SessionsOwned
  <2> QED BY <2>1, <2>2, ClosesKeepClose
<1>8. ASSUME NEW w \in Workers, Shutdown(w) PROVE CloseInv'
  <2>1. /\ CloseSessions(w, SessionMap(w)) /\ worker[w] = "loop" /\ ~alive
        /\ worker' = [worker EXCEPT ![w] = "drain"] /\ UNCHANGED <<status, started, opened>>
    BY <1>8, Zenon DEF Shutdown, threads
  <2>2. SessionMap(w) \in SUBSET Conns /\ SessionMap(w) \cap gone = {}
    BY Zenon DEF SessionMap, CloseInv
  <2>3. \A c \in SessionMap(w) : c % NumWorkers = w
    BY DEF SessionMap, IInv, RouteInv, SessionsOwned
  <2> QED BY <2>1, <2>2, <2>3, ClosesKeepClose, Zenon
<1> QED BY <1>2, <1>3, <1>4, <1>5, <1>6, <1>7, <1>8, Zenon DEF Next, Start

\* A worker that has ended left no session behind, and every connection that
\* on_open ran for at it was told on_close exactly once, also when it was
\* shut down while its packets kept coming.
THEOREM ClosedOnce == Spec => []OpenedIsClosed
<1>1. Init => IInv /\ CloseInv
  BY InitIInv, InitClose
<1>2. IInv /\ CloseInv /\ [Next]_vars => (IInv /\ CloseInv)'
  BY NextIInv, NextClose
<1>3. IInv /\ CloseInv => OpenedIsClosed
  <2> SUFFICES ASSUME IInv, CloseInv, NEW w \in Workers, worker[w] = "exited"
               PROVE  /\ SessionMap(w) = {}
                      /\ \A c \in opened : c % NumWorkers = w => closed[c] = 1
    BY Zenon DEF OpenedIsClosed
  <2>1. \A c \in Conns : sessions[w][c] = "none"
    BY DEF CloseInv
  <2>2. opened \subseteq Conns
    BY DEF IInv, TypeOK
  <2>3. \A c \in opened : c % NumWorkers = w => c \in gone
    BY <2>1, <2>2, Zenon DEF CloseInv
  <2> QED BY <2>1, <2>2, <2>3 DEF CloseInv, SessionMap
<1> QED BY <1>1, <1>2, <1>3, PTL DEF Spec

=============================================================================
