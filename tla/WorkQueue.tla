------------------------------ MODULE WorkQueue ------------------------------
(***************************************************************************)
(* The daemon's threads and the queue between them (main, enqueue_work,     *)
(* worker_thread and handle_connection in tools/qwen3-engine-daemon.c):     *)
(* main starts the workers and the reaper, accepts connections and appends  *)
(* them to a linked list under work_mutex; a worker takes one, serves it    *)
(* until it ends, and closes it; on a signal, or when accepting fails, main *)
(* stops, sets ds.shutdown, wakes the workers and joins them.              *)
(*                                                                         *)
(* A critical section that nobody can observe half done is one action.      *)
(* Deciding to sleep and going to sleep are two: main sets ds.shutdown and  *)
(* broadcasts without work_mutex.                                          *)
(***************************************************************************)
EXTENDS Naturals, Sequences, FiniteSets

CONSTANTS
  Workers,      \* worker threads
  Conns,        \* connections clients open, each once
  None,         \* no connection, no thread
  MaxQueue,     \* --max-queued-connections; 0 = unlimited
  MaxRequests   \* bound: requests a client sends on a connection

ASSUME NoneAssumption == None \notin Conns /\ None \notin Workers
ASSUME WorkersAssumption ==   \* main starts 4 rather than none
  Workers # {} /\ IsFiniteSet(Workers)
ASSUME BoundsAssumption == MaxQueue \in Nat /\ MaxRequests \in Nat

VARIABLES
  stop,         \* g_stop, set by the signal handler
  handlers,     \* main has installed the signal handlers
  shutdown,     \* ds.shutdown
  main,         \* where main is
  reaper,       \* "unborn", "running" or "exited"
  held,         \* the connection main has accepted and not yet queued
  head, tail,   \* ds.work_head, ds.work_tail
  next,         \* the next field of each connection's work_item_t
  count,        \* ds.work_count
  workMutex,    \* the worker that decided to sleep, still holding work_mutex
  asleep,       \* workers blocked in pthread_cond_wait
  pc,           \* where each worker is
  conn,         \* the connection it serves
  fd,           \* the state of each connection's descriptor
  unsent,       \* requests its client will still send
  order, served \* history variables: connections as queued, and as taken

listVars == <<head, tail, next, count, order>>
vars == <<stop, handlers, shutdown, main, reaper, held, listVars, workMutex, asleep, pc, conn,
          fd, unsent, served>>
-----------------------------------------------------------------------------
Init ==
  /\ stop = FALSE /\ handlers = FALSE /\ shutdown = FALSE
  /\ main = "start" /\ reaper = "unborn" /\ held = None
  /\ head = None /\ tail = None /\ count = 0
  /\ next = [c \in Conns |-> None]
  /\ workMutex = None /\ asleep = {}
  /\ pc = [w \in Workers |-> "unborn"] /\ conn = [w \in Workers |-> None]
  /\ fd = [c \in Conns |-> "none"] /\ unsent = [c \in Conns |-> MaxRequests]
  /\ order = <<>> /\ served = <<>>

(* Main starts the workers one by one, then the reaper, then listens. *)
StartWorker(w) ==
  /\ main = "start" /\ pc[w] = "unborn"
  /\ pc' = [pc EXCEPT ![w] = "look"]
  /\ UNCHANGED <<stop, handlers, shutdown, main, reaper, held, listVars, workMutex, asleep, conn,
                 fd, unsent, served>>

StartReaper ==
  /\ main = "start" /\ reaper = "unborn"
  /\ \A w \in Workers : pc[w] # "unborn"
  /\ reaper' = "running"
  /\ UNCHANGED <<stop, handlers, shutdown, main, held, listVars, workMutex, asleep, pc, conn,
                 fd, unsent, served>>

Listen ==
  /\ main = "start" /\ reaper = "running"
  /\ main' = "listen" /\ handlers' = TRUE
  /\ UNCHANGED <<stop, shutdown, reaper, held, listVars, workMutex, asleep, pc, conn,
                 fd, unsent, served>>

StartFails ==   \* a thread or the socket cannot be created
  /\ main = "start"
  /\ main' = "stopping"
  /\ UNCHANGED <<stop, handlers, shutdown, reaper, held, listVars, workMutex, asleep, pc, conn,
                 fd, unsent, served>>

Accept(c) ==
  /\ main = "listen" /\ ~stop /\ fd[c] = "none"
  /\ fd' = [fd EXCEPT ![c] = "open"] /\ held' = c
  /\ main' = "admit"
  /\ UNCHANGED <<stop, handlers, shutdown, reaper, listVars, workMutex, asleep, pc, conn,
                 unsent, served>>

StopListening ==   \* g_stop was seen, or poll or accept failed
  /\ main = "listen"
  /\ main' = "stopping"
  /\ UNCHANGED <<stop, handlers, shutdown, reaper, held, listVars, workMutex, asleep, pc, conn,
                 fd, unsent, served>>

(* enqueue_work: the limit is tested in one critical section, the item      *)
(* allocated outside, and appended in another.                             *)
Full_OffByOne == MaxQueue > 0 /\ count > MaxQueue   \* mutant
Full == MaxQueue > 0 /\ count >= MaxQueue

Admit ==
  /\ main = "admit" /\ workMutex = None /\ ~Full
  /\ main' = "allocate"
  /\ UNCHANGED <<stop, handlers, shutdown, reaper, held, listVars, workMutex, asleep, pc, conn,
                 fd, unsent, served>>

Drop_Uncounts ==   \* mutant: undoes a count it never made
  /\ \/ main = "admit" /\ workMutex = None /\ Full
     \/ main = "allocate"
  /\ fd' = [fd EXCEPT ![held] = "closed"] /\ held' = None
  /\ count' = count - 1
  /\ main' = "listen"
  /\ UNCHANGED <<stop, handlers, shutdown, reaper, head, tail, next, order, workMutex,
                 asleep, pc, conn, unsent, served>>

Drop_Leaks ==   \* mutant: returns without closing the descriptor
  /\ \/ main = "admit" /\ workMutex = None /\ Full
     \/ main = "allocate"
  /\ held' = None
  /\ main' = "listen"
  /\ UNCHANGED <<stop, handlers, shutdown, reaper, listVars, workMutex, asleep, pc, conn,
                 fd, unsent, served>>

Drop ==   \* the queue is full, or malloc failed
  /\ \/ main = "admit" /\ workMutex = None /\ Full
     \/ main = "allocate"
  /\ fd' = [fd EXCEPT ![held] = "closed"] /\ held' = None
  /\ main' = "listen"
  /\ UNCHANGED <<stop, handlers, shutdown, reaper, listVars, workMutex, asleep, pc, conn,
                 unsent, served>>

(* pthread_cond_signal wakes one sleeper, if there is one. *)
Signal_WhenEmpty ==   \* mutant: signal only when the queue was empty
  IF asleep = {} \/ head # None THEN UNCHANGED <<asleep, pc>>
  ELSE \E w \in asleep : asleep' = asleep \ {w} /\ pc' = [pc EXCEPT ![w] = "look"]

Signal ==
  IF asleep = {} THEN UNCHANGED <<asleep, pc>>
  ELSE \E w \in asleep : asleep' = asleep \ {w} /\ pc' = [pc EXCEPT ![w] = "look"]

Enqueue ==
  /\ main = "allocate" /\ workMutex = None
  /\ IF tail = None
     THEN head' = held /\ next' = [next EXCEPT ![held] = None]
     ELSE head' = head /\ next' = [next EXCEPT ![held] = None, ![tail] = held]
  /\ tail' = held
  /\ count' = count + 1
  /\ Signal
  /\ order' = Append(order, held)
  /\ held' = None
  /\ main' = "listen"
  /\ UNCHANGED <<stop, handlers, shutdown, reaper, workMutex, conn, fd, unsent, served>>

(* Shutdown: the flag and the broadcast, neither under work_mutex; join. *)
SetShutdown ==
  /\ main = "stopping"
  /\ shutdown' = TRUE
  /\ main' = "broadcast"
  /\ UNCHANGED <<stop, handlers, reaper, held, listVars, workMutex, asleep, pc, conn,
                 fd, unsent, served>>

Broadcast ==
  /\ main = "broadcast"
  /\ asleep' = {}
  /\ pc' = [w \in Workers |-> IF w \in asleep THEN "look" ELSE pc[w]]
  /\ main' = "join"
  /\ UNCHANGED <<stop, handlers, shutdown, reaper, held, listVars, workMutex, conn,
                 fd, unsent, served>>

Join ==   \* every started thread has exited: sessions and engine are freed
  /\ main = "join"
  /\ reaper # "running" /\ \A w \in Workers : pc[w] \in {"unborn", "exited"}
  /\ main' = "done"
  /\ UNCHANGED <<stop, handlers, shutdown, reaper, held, listVars, workMutex, asleep, pc, conn,
                 fd, unsent, served>>

Main ==
  \/ (\E w \in Workers : StartWorker(w)) \/ StartReaper \/ Listen \/ StartFails
  \/ (\E c \in Conns : Accept(c)) \/ StopListening \/ Admit \/ Drop \/ Enqueue
  \/ SetShutdown \/ Broadcast \/ Join

ReaperExits ==   \* after its current sleep or pass
  /\ reaper = "running" /\ shutdown
  /\ reaper' = "exited"
  /\ UNCHANGED <<stop, handlers, shutdown, main, held, listVars, workMutex, asleep, pc, conn,
                 fd, unsent, served>>

SignalHandler ==   \* SIGINT or SIGTERM; before, the signal kills the process
  /\ handlers /\ main # "done" /\ ~stop
  /\ stop' = TRUE
  /\ UNCHANGED <<handlers, shutdown, main, reaper, held, listVars, workMutex, asleep, pc,
                 conn, fd, unsent, served>>
-----------------------------------------------------------------------------
(* worker_thread.  Whoever looks and finds the list empty keeps work_mutex   *)
(* until it sleeps.                                                        *)
Take_KeepsTail(w) ==   \* mutant: work_tail still names the item taken
  /\ pc[w] = "look" /\ workMutex = None /\ head # None
  /\ conn' = [conn EXCEPT ![w] = head]
  /\ head' = next[head]
  /\ tail' = tail
  /\ count' = count - 1
  /\ served' = Append(served, head)
  /\ pc' = [pc EXCEPT ![w] = "serve"]
  /\ UNCHANGED <<stop, handlers, shutdown, main, reaper, held, next, order, workMutex, asleep, fd, unsent>>

Take(w) ==
  /\ pc[w] = "look" /\ workMutex = None /\ head # None
  /\ conn' = [conn EXCEPT ![w] = head]
  /\ head' = next[head]
  /\ tail' = IF next[head] = None THEN None ELSE tail
  /\ count' = count - 1
  /\ served' = Append(served, head)
  /\ pc' = [pc EXCEPT ![w] = "serve"]
  /\ UNCHANGED <<stop, handlers, shutdown, main, reaper, held, next, order, workMutex, asleep, fd, unsent>>

Doze(w) ==   \* nothing to do and no shutdown: about to call pthread_cond_wait
  /\ pc[w] = "look" /\ workMutex = None /\ head = None /\ ~shutdown
  /\ workMutex' = w
  /\ pc' = [pc EXCEPT ![w] = "dozing"]
  /\ UNCHANGED <<stop, handlers, shutdown, main, reaper, held, listVars, asleep, conn,
                 fd, unsent, served>>

Sleep(w) ==
  /\ pc[w] = "dozing"
  /\ workMutex' = None /\ asleep' = asleep \cup {w}
  /\ pc' = [pc EXCEPT ![w] = "asleep"]
  /\ UNCHANGED <<stop, handlers, shutdown, main, reaper, held, listVars, conn,
                 fd, unsent, served>>

SpuriousWakeup(w) ==   \* POSIX allows it
  /\ w \in asleep
  /\ asleep' = asleep \ {w}
  /\ pc' = [pc EXCEPT ![w] = "look"]
  /\ UNCHANGED <<stop, handlers, shutdown, main, reaper, held, listVars, workMutex, conn,
                 fd, unsent, served>>

Exit_LeavesItems(w) ==   \* mutant: leaves although connections wait
  /\ pc[w] = "look" /\ workMutex = None /\ shutdown
  /\ pc' = [pc EXCEPT ![w] = "exited"]
  /\ UNCHANGED <<stop, handlers, shutdown, main, reaper, held, listVars, workMutex, asleep, conn,
                 fd, unsent, served>>

Exit(w) ==
  /\ pc[w] = "look" /\ workMutex = None /\ head = None /\ shutdown
  /\ pc' = [pc EXCEPT ![w] = "exited"]
  /\ UNCHANGED <<stop, handlers, shutdown, main, reaper, held, listVars, workMutex, asleep, conn,
                 fd, unsent, served>>

(* handle_connection: one request after another, until g_stop is set, the    *)
(* client closes or is idle for too long, or the connection fails.  A        *)
(* request under way when g_stop is set is still answered.                  *)
Request(w) ==
  /\ pc[w] = "serve" /\ ~stop /\ unsent[conn[w]] > 0
  /\ unsent' = [unsent EXCEPT ![conn[w]] = @ - 1]
  /\ pc' = [pc EXCEPT ![w] = "handle"]
  /\ UNCHANGED <<stop, handlers, shutdown, main, reaper, held, listVars, workMutex, asleep,
                 conn, fd, served>>

Respond(w) ==
  /\ pc[w] = "handle"
  /\ pc' = [pc EXCEPT ![w] = "serve"]
  /\ UNCHANGED <<stop, handlers, shutdown, main, reaper, held, listVars, workMutex, asleep,
                 conn, fd, unsent, served>>

Close(w) ==
  /\ pc[w] = "serve"
  /\ fd' = [fd EXCEPT ![conn[w]] = "closed"] /\ conn' = [conn EXCEPT ![w] = None]
  /\ pc' = [pc EXCEPT ![w] = "look"]
  /\ UNCHANGED <<stop, handlers, shutdown, main, reaper, held, listVars, workMutex, asleep, unsent, served>>

Work(w) == Take(w) \/ Doze(w) \/ Sleep(w) \/ Exit(w) \/ Request(w) \/ Respond(w) \/ Close(w)

Next ==
  \/ Main \/ ReaperExits \/ SignalHandler
  \/ \E w \in Workers : Work(w) \/ SpuriousWakeup(w)

Spec == Init /\ [][Next]_vars

(* Threads that can run do, and a worker that finds work_mutex free again    *)
(* and again gets it.  Clients, signals, failures and spurious wakeups come  *)
(* when they like; main, once it has stopped listening, proceeds.          *)
MainProceeds == SetShutdown \/ Broadcast \/ Join \/ Admit \/ Drop \/ Enqueue
FairSpec ==
  /\ Spec
  /\ \A w \in Workers : WF_vars(Sleep(w) \/ Request(w) \/ Respond(w) \/ Close(w))
                        /\ SF_vars(Take(w) \/ Doze(w) \/ Exit(w))
  /\ SF_vars(MainProceeds) /\ WF_vars(ReaperExits)
  /\ WF_vars(stop /\ StopListening)
-----------------------------------------------------------------------------
(* Type invariant. *)
TypeOK ==
  /\ stop \in BOOLEAN /\ handlers \in BOOLEAN /\ shutdown \in BOOLEAN
  /\ main \in {"start", "listen", "admit", "allocate", "stopping", "broadcast", "join", "done"}
  /\ reaper \in {"unborn", "running", "exited"}
  /\ held \in Conns \cup {None} /\ head \in Conns \cup {None} /\ tail \in Conns \cup {None}
  /\ next \in [Conns -> Conns \cup {None}] /\ count \in Nat
  /\ workMutex \in Workers \cup {None} /\ asleep \in SUBSET Workers
  /\ pc \in [Workers -> {"unborn", "look", "dozing", "asleep", "serve", "handle", "exited"}]
  /\ conn \in [Workers -> Conns \cup {None}]
  /\ fd \in [Conns -> {"none", "open", "closed"}]
  /\ unsent \in [Conns -> Nat]
  /\ order \in Seq(Conns) /\ served \in Seq(Conns)

(* The list from work_head to work_tail holds exactly the connections queued *)
(* and not yet taken, in the order they came, and work_count is its length  *)
(* (enqueue_work links behind work_tail, worker_thread must reset it).      *)
ListIsQueue ==
  LET n == Len(served)
      m == Len(order)
  IN  /\ n <= m /\ \A i \in 1..n : served[i] = order[i]
      /\ count = m - n
      /\ head = IF n < m THEN order[n + 1] ELSE None
      /\ tail = IF n < m THEN order[m] ELSE None
      /\ \A i \in (n + 1)..m : next[order[i]] = IF i < m THEN order[i + 1] ELSE None

(* The limit holds although it is tested in one critical section and the     *)
(* item appended in another (enqueue_work): only main appends.              *)
QueueWithinLimit == MaxQueue > 0 => count <= MaxQueue

(* Every open connection has exactly one owner: main, the queue or a worker; *)
(* so none is closed twice or forgotten.                                    *)
OneOwner ==
  LET queued == {order[i] : i \in (Len(served) + 1)..Len(order)}
  IN  /\ \A c \in Conns :
           fd[c] = "open" <=> c = held \/ c \in queued \/ \E w \in Workers : conn[w] = c
      /\ held \notin queued
      /\ \A w \in Workers : conn[w] # None =>
           conn[w] \notin queued \cup {held} /\ \A v \in Workers : conn[v] = conn[w] => v = w

(* While a worker sleeps, every queued connection has another worker on its  *)
(* way to it: each append signals one sleeper, and a worker sleeps only on   *)
(* an empty queue, so no wakeup is lost, whoever gets there first.          *)
NoIdleWhileQueued ==
  asleep # {} => count <= Cardinality({w \in Workers : pc[w] = "look"})

(* When main frees the sessions and the engine, every accepted connection    *)
(* has been closed, the queued ones included: workers drain the queue.      *)
AllClosedAtExit == main = "done" => \A c \in Conns : fd[c] # "open"

(* Every accepted connection is eventually closed, after its turn in the     *)
(* queue, if its client sends finitely many requests and goes quiet.         *)
EveryConnectionEnds == \A c \in Conns : fd[c] = "open" ~> fd[c] = "closed"
-----------------------------------------------------------------------------
(* The inductive invariant behind ListIsQueue, QueueWithinLimit, OneOwner    *)
(* and AllClosedAtExit.                                                    *)
HeldByMain == held # None <=> main \in {"admit", "allocate"}
HeldByWorker == \A w \in Workers : conn[w] # None <=> pc[w] \in {"serve", "handle"}
SleepersSleep == \A w \in Workers : w \in asleep <=> pc[w] = "asleep"

(* A connection is queued at most once in its life. *)
OrderIsFresh ==
  /\ \A i \in 1..Len(order) : fd[order[i]] # "none" /\ order[i] # held
  /\ \A i, j \in 1..Len(order) : order[i] = order[j] => i = j

RoomStays == main = "allocate" /\ MaxQueue > 0 => count < MaxQueue

(* A worker leaves only when nothing waits, and nothing is queued after.      *)
ExitIsFinal ==
  /\ shutdown => main \in {"broadcast", "join", "done"}
  /\ \A w \in Workers : pc[w] = "exited" => shutdown /\ head = None
  /\ main \in {"listen", "admit", "allocate"} \/ order # <<>> \/ reaper # "unborn"
       => \A w \in Workers : pc[w] # "unborn"
  /\ main = "done" => \A w \in Workers : pc[w] \in {"unborn", "exited"}

Inv ==
  /\ TypeOK /\ HeldByMain /\ HeldByWorker /\ SleepersSleep
  /\ OrderIsFresh /\ RoomStays /\ ExitIsFinal
  /\ ListIsQueue /\ QueueWithinLimit /\ OneOwner
-----------------------------------------------------------------------------
(* What the list holds, by ListIsQueue. *)
Waiting == [i \in 1..count |-> order[Len(served) + i]]

Queue == INSTANCE ConnectionQueue WITH
  Limit <- MaxQueue,
  waiting <- Waiting,
  serving <- {conn[w] : w \in Workers} \ {None},
  closed <- {c \in Conns : fd[c] = "closed"}

(* The linked list, the pool and their mutex implement a bounded FIFO queue. *)
ImplementsQueue == Queue!Spec
-----------------------------------------------------------------------------
(* Documented, and not so: main (qwen3-engine-daemon.c:2197), "Graceful       *)
(* shutdown: stop accepting new connections, wake workers, and wait for       *)
(* in-flight work to finish": after a signal the daemon exits.               *)
ShutdownCompletes == stop ~> main = "done"
=============================================================================
