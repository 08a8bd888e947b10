------------------------------ MODULE NqServer ------------------------------
(***************************************************************************)
(* The life of a server: nq_server_start creates the workers, a stopper    *)
(* (the starting thread itself when it blocks, else shutdown_thread_)      *)
(* waits for nq_server_join, stops the workers and wakes the joiner, who   *)
(* then deletes the server.  Each worker reads its own socket, passes a    *)
(* packet on to the worker that owns its connection id, and keeps the      *)
(* sessions of its connections (src/core/nq_server.h, nq_worker.h,         *)
(* nq_worker.cpp, nq_dispatcher.h, nq_dispatcher.cpp,                      *)
(* nq_server_session.cpp).  One port is open: the dispatchers of a worker  *)
(* run one after another in its thread and share nothing but its queue.    *)
(***************************************************************************)
EXTENDS Naturals, Sequences, FiniteSets

CONSTANTS
  NumWorkers,     \* n_worker_
  Conns,          \* the connection ids of the clients, not 0
  MaxPackets,     \* bound: the packets that reach the sockets
  SessionLimit    \* session_limit_, 0 when there is none

ASSUME BoundsAssumption ==
  /\ NumWorkers \in Nat \ {0} /\ MaxPackets \in Nat
  /\ Conns \subseteq Nat \ {0} /\ IsFiniteSet(Conns)
  /\ SessionLimit \in Nat

Workers == 0 .. NumWorkers - 1
Free == "free"   \* mutex_ is held by nobody

VARIABLES
  status,     \* status_
  mutex,      \* who holds mutex_: the stopper, the joiner or nobody
  starter,    \* where nq_server_start is
  stopper,    \* where the thread that will call Stop is
  joiner,     \* where nq_server_join is
  started,    \* how many worker threads exist
  assigned,   \* how many of them Start has stored in thread_
  worker,     \* where each worker thread is
  thread_id,  \* what the dispatcher of a worker took for its own thread
  queue,      \* worker_queue_
  sessions,   \* session_map of each worker's dispatcher: connection id -> how far it is
  gone,       \* connection ids in the time-wait list of their worker
  packets,    \* packets the sockets received so far
  opened,     \* connections whose on_open ran
  closed,     \* how many times on_close ran for a connection
  refused     \* connections refused with "session count exceeds limit", and
              \* the sessions there were at that time

vars == <<status, mutex, starter, stopper, joiner, started, assigned, worker, thread_id,
          queue, sessions, gone, packets, opened, closed, refused>>
threads == <<status, mutex, starter, stopper, joiner, started, assigned>>
traffic == <<queue, sessions, gone, packets, opened, closed, refused>>

SessionState == {"none", "handshake", "open"}

Init ==
  /\ status = "RUNNING" /\ mutex = Free
  /\ starter = "idle" /\ stopper = "none" /\ joiner = "idle"
  /\ started = 0 /\ assigned = 0
  /\ worker = [w \in Workers |-> "none"]
  /\ thread_id = [w \in Workers |-> "none"]
  /\ queue = [w \in Workers |-> << >>]
  /\ sessions = [w \in Workers |-> [c \in Conns |-> "none"]]
  /\ gone = {} /\ packets = 0 /\ opened = {}
  /\ closed = [c \in Conns |-> 0]
  /\ refused = {}

alive == status = "RUNNING"
terminated == status = "TERMINATED"

(***************************************************************************)
(* nq_server_start.  A new thread runs before it is stored in thread_.     *)
(***************************************************************************)
StartCalled ==
  /\ starter = "idle"
  /\ starter' = IF alive THEN "starting" ELSE "returned"
  /\ UNCHANGED <<status, mutex, stopper, joiner, started, assigned, worker, thread_id, traffic>>

StartWorker ==
  /\ starter = "starting" /\ started = assigned /\ started < NumWorkers
  /\ started' = started + 1
  /\ worker' = [worker EXCEPT ![started] = "listen"]
  /\ UNCHANGED <<status, mutex, starter, stopper, joiner, assigned, thread_id, traffic>>

StoreThread ==
  /\ starter = "starting" /\ assigned < started
  /\ assigned' = started
  /\ UNCHANGED <<status, mutex, starter, stopper, joiner, started, worker, thread_id, traffic>>

\* All workers exist: block here, or leave the waiting to a new thread, as
\* the argument of nq_server_start says.  The new thread runs before it is
\* stored in shutdown_thread_.
StartsStopper ==
  /\ starter = "starting" /\ assigned = NumWorkers
  /\ stopper' = "lock"
  /\ starter' \in {"blocked", "storing"}
  /\ UNCHANGED <<status, mutex, joiner, started, assigned, worker, thread_id, traffic>>

StoresStopper ==
  /\ starter = "storing"
  /\ starter' = "returned"
  /\ UNCHANGED <<status, mutex, stopper, joiner, started, assigned, worker, thread_id, traffic>>

(***************************************************************************)
(* The stopper: cond_.wait for the end of alive(), then Stop.  It joins    *)
(* the workers with mutex_ held and gives it back when it returns.         *)
(***************************************************************************)
StopperWaits ==
  /\ stopper \in {"lock", "woken"} /\ mutex = Free
  /\ IF alive THEN stopper' = "waiting" /\ UNCHANGED mutex
              ELSE stopper' = "stopping" /\ mutex' = "stopper"
  /\ UNCHANGED <<status, starter, joiner, started, assigned, worker, thread_id, traffic>>

\* notify_all wakes whoever waits at that time, and nobody who comes later.
NotifyStopper == stopper' = IF stopper = "waiting" THEN "woken" ELSE stopper
NotifyJoiner == joiner' = IF joiner = "waiting" THEN "woken" ELSE joiner

WorkersJoined == \A w \in Workers : worker[w] = "exited"

\* A faulty variant: TERMINATED is set before the workers have ended.
StopEarly ==
  /\ stopper = "stopping"
  /\ status' = "TERMINATED"
  /\ NotifyJoiner
  /\ stopper' = "unlock"
  /\ UNCHANGED <<mutex, starter, started, assigned, worker, thread_id, traffic>>

Stop ==
  /\ stopper = "stopping" /\ WorkersJoined
  /\ status' = "TERMINATED"
  /\ NotifyJoiner
  /\ stopper' = "unlock"
  /\ UNCHANGED <<mutex, starter, started, assigned, worker, thread_id, traffic>>

StopperReturns ==
  /\ stopper = "unlock"
  /\ mutex' = Free
  /\ stopper' = "returned"
  /\ starter' = IF starter = "blocked" THEN "returned" ELSE starter
  /\ UNCHANGED <<status, joiner, started, assigned, worker, thread_id, traffic>>

(***************************************************************************)
(* nq_server_join, called once, by any thread and at any time.             *)
(***************************************************************************)
\* A faulty variant: the others are woken with status_ as it was.
JoinSetsNothing ==
  /\ joiner = "idle" /\ alive /\ mutex = Free
  /\ joiner' = "notify"
  /\ UNCHANGED <<status, mutex, starter, stopper, started, assigned, worker, thread_id, traffic>>

JoinSetsStatus ==
  /\ joiner = "idle" /\ alive /\ mutex = Free
  /\ status' = "TERMINATING"
  /\ joiner' = "notify"
  /\ UNCHANGED <<mutex, starter, stopper, started, assigned, worker, thread_id, traffic>>

JoinNotifies ==
  /\ joiner = "notify"
  /\ NotifyStopper
  /\ joiner' = "lock"
  /\ UNCHANGED <<status, mutex, starter, started, assigned, worker, thread_id, traffic>>

JoinWaits ==
  /\ joiner \in {"lock", "woken"} /\ mutex = Free
  /\ IF terminated THEN joiner' = "joining" /\ mutex' = "joiner"
                   ELSE joiner' = "waiting" /\ UNCHANGED mutex
  /\ UNCHANGED <<status, starter, stopper, started, assigned, worker, thread_id, traffic>>

\* With mutex_ held it joins shutdown_thread_, which is not joinable when
\* the starting thread blocks and as long as it has not been stored; then
\* nq_server_join deletes the server.
JoinReturns ==
  /\ joiner = "joining" /\ (starter \in {"blocked", "storing"} \/ stopper = "returned")
  /\ mutex' = Free
  /\ joiner' = "returned"
  /\ UNCHANGED <<status, starter, stopper, started, assigned, worker, thread_id, traffic>>

(***************************************************************************)
(* A session: created by the first packet of its connection id and in the  *)
(* session map before CanAcceptClientHello is asked, which is asked again  *)
(* for every further hello until one completes the handshake.              *)
(***************************************************************************)
SessionMap(w) == {c \in Conns : sessions[w][c] # "none"}

AtLimit(n) == SessionLimit > 0 /\ n >= SessionLimit

\* A faulty variant: a shutdown does not refuse anybody.
CanAcceptAlways(n) == ~AtLimit(n)

CanAcceptClientHello(n) == alive /\ ~AtLimit(n)

\* OnConnectionClosed: out of the session map, into the time-wait list, on_close.
CloseSessions(w, cs) ==
  /\ sessions' = [sessions EXCEPT ![w] = [c \in Conns |-> IF c \in cs THEN "none" ELSE @[c]]]
  /\ gone' = gone \cup cs
  /\ closed' = [c \in Conns |-> IF c \in cs THEN closed[c] + 1 ELSE closed[c]]

\* NqDispatcher::Process at worker w.
Hello(w, c) ==
  LET others == Cardinality(SessionMap(w) \ {c})
  IN  IF CanAcceptClientHello(others + 1)
      THEN /\ \E s \in {"handshake", "open"} :
                /\ sessions' = [sessions EXCEPT ![w][c] = s]
                /\ opened' = IF s = "open" THEN opened \cup {c} ELSE opened
           /\ UNCHANGED <<gone, closed, refused>>
      ELSE /\ CloseSessions(w, {c})
           /\ refused' = IF alive THEN refused \cup {<<c, others>>} ELSE refused
           /\ UNCHANGED opened

Process(w, c) ==
  IF c \in gone \/ sessions[w][c] = "open"
  THEN UNCHANGED <<sessions, gone, opened, closed, refused>>
  ELSE Hello(w, c)

(***************************************************************************)
(* NqWorker::Run.                                                          *)
(***************************************************************************)
Listen(w) ==
  /\ worker[w] = "listen"
  /\ worker' = [worker EXCEPT ![w] = "loop"]
  /\ thread_id' = [thread_id EXCEPT ![w] = IF w < assigned THEN "own" ELSE "nobody"]
  /\ UNCHANGED <<threads, traffic>>

Runs(w) == worker[w] \in {"loop", "drain", "last"}

\* A faulty variant: a packet is processed where it arrives.
RecvDirect(w, c) ==
  /\ Runs(w) /\ packets < MaxPackets
  /\ packets' = packets + 1
  /\ Process(w, c)
  /\ UNCHANGED <<threads, worker, thread_id, queue>>

\* A packet reaches the socket of w.  The connection id says whose it is.
OnRecv(w, c) ==
  /\ Runs(w) /\ packets < MaxPackets
  /\ packets' = packets + 1
  /\ IF c % NumWorkers = w
     THEN Process(w, c) /\ UNCHANGED queue
     ELSE /\ queue' = [queue EXCEPT ![c % NumWorkers] = Append(@, c)]
          /\ UNCHANGED <<sessions, gone, opened, closed, refused>>
  /\ UNCHANGED <<threads, worker, thread_id>>

Dequeue(w) ==
  /\ worker[w] \in {"loop", "drain"} /\ queue[w] # << >>
  /\ queue' = [queue EXCEPT ![w] = Tail(@)]
  /\ Process(w, Head(queue[w]))
  /\ UNCHANGED <<threads, worker, thread_id, packets>>

\* The peer closes, the idle timeout expires or the user calls nq_conn_close.
ConnectionCloses(w, c) ==
  /\ Runs(w) /\ sessions[w][c] # "none"
  /\ CloseSessions(w, {c})
  /\ UNCHANGED <<threads, worker, thread_id, queue, packets, opened, refused>>

\* The loop sees that the server is not alive, and Shutdown disconnects all.
Shutdown(w) ==
  /\ worker[w] = "loop" /\ ~alive
  /\ worker' = [worker EXCEPT ![w] = "drain"]
  /\ CloseSessions(w, SessionMap(w))
  /\ UNCHANGED <<threads, thread_id, queue, packets, opened, refused>>

\* ShutdownFinished, once the queue was found empty: no session is left, or
\* shutdown_timeout has passed, which it may at any time.  The loop is polled
\* a last time before the thread ends.
ShutdownFinished(w) ==
  /\ worker[w] = "drain" /\ queue[w] = << >>
  /\ worker' = [worker EXCEPT ![w] = "last"]
  /\ UNCHANGED <<threads, thread_id, traffic>>

RunReturns(w) ==
  /\ worker[w] = "last"
  /\ worker' = [worker EXCEPT ![w] = "exited"]
  /\ UNCHANGED <<threads, thread_id, traffic>>

Start == StartCalled \/ StartWorker \/ StoreThread \/ StartsStopper \/ StoresStopper
Stopping == StopperWaits \/ Stop \/ StopperReturns
Join == JoinSetsStatus \/ JoinNotifies \/ JoinWaits \/ JoinReturns

Next ==
  \/ Start \/ Stopping \/ Join
  \/ \E w \in Workers :
       \/ Listen(w) \/ Dequeue(w) \/ Shutdown(w) \/ ShutdownFinished(w) \/ RunReturns(w)
       \/ \E c \in Conns : OnRecv(w, c) \/ ConnectionCloses(w, c)

Spec == Init /\ [][Next]_vars

\* Every thread that can run gets to run, and a worker goes round its loop.
\* The user starts the server; nothing makes a client send, or the user call
\* nq_server_join.
FairSpec ==
  /\ Spec
  /\ WF_vars(Start)
  /\ WF_vars(Stopping)
  /\ WF_vars(JoinNotifies \/ JoinWaits \/ JoinReturns)
  /\ \A w \in Workers :
       WF_vars(Listen(w)) /\ WF_vars(Dequeue(w)) /\ WF_vars(Shutdown(w))
       /\ WF_vars(ShutdownFinished(w)) /\ WF_vars(RunReturns(w))

(***************************************************************************)
(* Properties.                                                             *)
(***************************************************************************)
\* The variables keep their types, and a thread is stored right after it is
\* made (NqServer::Start, StartWorker).
TypeOK ==
  /\ status \in {"RUNNING", "TERMINATING", "TERMINATED"}
  /\ mutex \in {Free, "stopper", "joiner"}
  /\ starter \in {"idle", "starting", "blocked", "storing", "returned"}
  /\ stopper \in {"none", "lock", "waiting", "woken", "stopping", "unlock", "returned"}
  /\ joiner \in {"idle", "notify", "lock", "waiting", "woken", "joining", "returned"}
  /\ started \in 0 .. NumWorkers /\ assigned \in {started, started - 1}
  /\ worker \in [Workers -> {"none", "listen", "loop", "drain", "last", "exited"}]
  /\ thread_id \in [Workers -> {"none", "own", "nobody"}]
  /\ queue \in [Workers -> Seq(Conns)]
  /\ sessions \in [Workers -> [Conns -> SessionState]]
  /\ gone \subseteq Conns /\ opened \subseteq Conns
  /\ packets \in 0 .. MaxPackets
  /\ closed \in [Conns -> Nat]
  /\ refused \subseteq (Conns \X Nat)

\* When nq_server_join returns from Join and deletes the server, no thread
\* that uses it is left: every worker ended, the thread that called Stop gave
\* mutex_ back, and nq_server_start is over.  Only when nq_server_join was
\* called before nq_server_start had returned, at the same time as it, may
\* that thread still have to store shutdown_thread_.
NobodyLeft ==
  joiner = "returned" =>
    /\ \A w \in Workers : worker[w] = "exited"
    /\ stopper = "returned" /\ mutex = Free
    /\ starter \in {"returned", "storing"}

\* A connection has its session at one worker, whichever sockets its packets
\* come to: NqDispatcher::OnRecv hands them to the worker of their id.
OneOwner ==
  \A v, w \in Workers : v # w => SessionMap(v) \cap SessionMap(w) = {}

\* A worker ends (NqWorker::Run) with no session in its map, and every
\* connection that was told on_open has been told on_close, once, also when
\* its packets kept coming during the shutdown.
OpenedIsClosed ==
  \A w \in Workers : worker[w] = "exited" =>
    /\ SessionMap(w) = {}
    /\ \A c \in opened : c % NumWorkers = w => closed[c] = 1

\* nq_server_join of a server whose start has begun returns: neither the wait
\* for Stop nor the locks it takes hold it for ever, even when the workers are
\* still being made.
JoinEnds ==
  (joiner = "notify" /\ (starter = "starting" \/ stopper # "none")) ~> (joiner = "returned")

(***************************************************************************)
(* Statements of the repository that the code does not keep.               *)
(***************************************************************************)
\* What nq_server.h line 113 says of the wait in Join ("never deadlock"): it
\* ends, whenever nq_server_join is called.
NeverDeadlock == (joiner = "notify") ~> (joiner = "returned")

\* What nq_server.h line 118 says of the end of Join ("ensure shutdown thread
\* finished"): it does not return past a shutdown thread not yet stored, whose
\* std::thread would then be written into the deleted server.
ShutdownThreadJoined == joiner = "returned" => starter # "storing"

\* max_session_hint, as the limit, bounds the sessions of the server.
HardLimit ==
  SessionLimit > 0 =>
    Cardinality({p \in Workers \X Conns : sessions[p[1]][p[2]] = "open"}) <= SessionLimit

\* A connection is refused for the limit (CanAcceptClientHello) only when
\* with it there would be more sessions than the limit.
RefusedBeyondLimit == \A r \in refused : r[2] + 1 > SessionLimit

\* The dispatcher of a running worker knows the worker's thread as its own, so
\* that MainThread() is true there and UnwrapMutex takes no lock.
KnowsThread == \A w \in Workers : worker[w] = "loop" => thread_id[w] = "own"

=============================================================================
