--------------------------- MODULE WorkQueueProofs ---------------------------
(***************************************************************************)
(* WorkQueue for any number of workers and connections and any limit: the   *)
(* linked list is the queue, the limit holds, every descriptor has one      *)
(* owner, and none is open when the daemon exits.  Inv is inductive; each   *)
(* lemma proves one part of it for every action.                           *)
(***************************************************************************)
EXTENDS WorkQueue, SequenceTheorems, FiniteSetTheorems, TLAPS

(* Every action keeps the types of the variables (one step per action of main, the
   workers, the reaper and the signal handler). *)
LEMMA TypesStay ==
  ASSUME Inv, [Next]_vars
  PROVE  TypeOK'
<1> USE NoneAssumption, BoundsAssumption
<1>1. ASSUME NEW w \in Workers, StartWorker(w) PROVE TypeOK'
  BY <1>1 DEF Inv, TypeOK, listVars, HeldByMain, HeldByWorker, ListIsQueue, StartWorker
<1>2. ASSUME StartReaper PROVE TypeOK'
  BY <1>2 DEF Inv, TypeOK, listVars, HeldByMain, HeldByWorker, ListIsQueue, StartReaper
<1>3. ASSUME Listen PROVE TypeOK'
  BY <1>3 DEF Inv, TypeOK, listVars, HeldByMain, HeldByWorker, ListIsQueue, Listen
<1>4. ASSUME StartFails PROVE TypeOK'
  BY <1>4 DEF Inv, TypeOK, listVars, HeldByMain, HeldByWorker, ListIsQueue, StartFails
<1>5. ASSUME NEW c \in Conns, Accept(c) PROVE TypeOK'
  BY <1>5 DEF Inv, TypeOK, listVars, HeldByMain, HeldByWorker, ListIsQueue, Accept
<1>6. ASSUME StopListening PROVE TypeOK'
  BY <1>6 DEF Inv, TypeOK, listVars, HeldByMain, HeldByWorker, ListIsQueue, StopListening
<1>7. ASSUME Admit PROVE TypeOK'
  BY <1>7 DEF Inv, TypeOK, listVars, HeldByMain, HeldByWorker, ListIsQueue, Admit
<1>8. ASSUME Drop PROVE TypeOK'
  BY <1>8 DEF Inv, TypeOK, listVars, HeldByMain, HeldByWorker, ListIsQueue, Drop
<1>9. ASSUME Enqueue PROVE TypeOK'
  <2>1. held \in Conns /\ TypeOK
    BY <1>9 DEF Inv, TypeOK, HeldByMain, Enqueue
  <2>2. order' \in Seq(Conns) /\ count' \in Nat /\ head' \in Conns \cup {None}
    BY <1>9, <2>1 DEF TypeOK, Enqueue
  <2>3. next' \in [Conns -> Conns \cup {None}]
    BY <1>9, <2>1 DEF TypeOK, Enqueue
  <2>4. asleep' \in SUBSET Workers /\ pc' \in [Workers -> {"unborn", "look", "dozing", "asleep", "serve", "handle", "exited"}]
    BY <1>9, <2>1 DEF TypeOK, Enqueue, Signal
  <2> QED
    BY <1>9, <2>1, <2>2, <2>3, <2>4 DEF TypeOK, Enqueue
<1>10. ASSUME SetShutdown PROVE TypeOK'
  BY <1>10 DEF Inv, TypeOK, listVars, HeldByMain, HeldByWorker, ListIsQueue, SetShutdown
<1>11. ASSUME Broadcast PROVE TypeOK'
  BY <1>11 DEF Inv, TypeOK, listVars, HeldByMain, HeldByWorker, ListIsQueue, Broadcast
<1>12. ASSUME Join PROVE TypeOK'
  BY <1>12 DEF Inv, TypeOK, listVars, HeldByMain, HeldByWorker, ListIsQueue, Join
<1>13. ASSUME ReaperExits PROVE TypeOK'
  BY <1>13 DEF Inv, TypeOK, listVars, HeldByMain, HeldByWorker, ListIsQueue, ReaperExits
<1>14. ASSUME SignalHandler PROVE TypeOK'
  BY <1>14 DEF Inv, TypeOK, listVars, HeldByMain, HeldByWorker, ListIsQueue, SignalHandler
<1>15. ASSUME NEW w \in Workers, Take(w) PROVE TypeOK'
  BY <1>15 DEF Inv, TypeOK, listVars, HeldByMain, HeldByWorker, ListIsQueue, Take
<1>16. ASSUME NEW w \in Workers, Doze(w) PROVE TypeOK'
  BY <1>16 DEF Inv, TypeOK, listVars, HeldByMain, HeldByWorker, ListIsQueue, Doze
<1>17. ASSUME NEW w \in Workers, Sleep(w) PROVE TypeOK'
  BY <1>17 DEF Inv, TypeOK, listVars, HeldByMain, HeldByWorker, ListIsQueue, Sleep
<1>18. ASSUME NEW w \in Workers, Exit(w) PROVE TypeOK'
  BY <1>18 DEF Inv, TypeOK, listVars, HeldByMain, HeldByWorker, ListIsQueue, Exit
<1>19. ASSUME NEW w \in Workers, Request(w) PROVE TypeOK'
  BY <1>19 DEF Inv, TypeOK, listVars, HeldByMain, HeldByWorker, ListIsQueue, Request
<1>20. ASSUME NEW w \in Workers, Respond(w) PROVE TypeOK'
  BY <1>20 DEF Inv, TypeOK, listVars, HeldByMain, HeldByWorker, ListIsQueue, Respond
<1>21. ASSUME NEW w \in Workers, Close(w) PROVE TypeOK'
  BY <1>21 DEF Inv, TypeOK, listVars, HeldByMain, HeldByWorker, ListIsQueue, Close
<1>22. ASSUME NEW w \in Workers, SpuriousWakeup(w) PROVE TypeOK'
  BY <1>22 DEF Inv, TypeOK, listVars, HeldByMain, HeldByWorker, ListIsQueue, SpuriousWakeup
<1>23. CASE UNCHANGED vars
  BY <1>23 DEF vars, listVars, Inv, TypeOK, listVars, HeldByMain, HeldByWorker, ListIsQueue
<1> QED
  BY <1>1, <1>2, <1>3, <1>4, <1>5, <1>6, <1>7, <1>8, <1>9, <1>10, <1>11, <1>12, <1>13,
     <1>14, <1>15, <1>16, <1>17, <1>18, <1>19, <1>20, <1>21, <1>22, <1>23 DEF Next, Main,
     Work

(* What Signal may do to the program counters. *)
LEMMA SignalWakes ==
  ASSUME TypeOK, Signal, NEW w \in Workers
  PROVE  pc'[w] = pc[w] \/ (w \in asleep /\ pc'[w] = "look")
  BY DEF TypeOK, Signal

(* main holds a connection between accept and enqueue_work's end, a worker between
   taking it and close: exactly where the program counters say. *)
LEMMA HeldStays ==
  ASSUME Inv, [Next]_vars
  PROVE  HeldByMain' /\ HeldByWorker'
<1> USE NoneAssumption, BoundsAssumption
<1>1. ASSUME NEW w \in Workers, StartWorker(w) PROVE HeldByMain' /\ HeldByWorker'
  BY <1>1 DEF Inv, TypeOK, listVars, HeldByMain, HeldByWorker, StartWorker
<1>2. ASSUME StartReaper PROVE HeldByMain' /\ HeldByWorker'
  BY <1>2 DEF Inv, TypeOK, listVars, HeldByMain, HeldByWorker, StartReaper
<1>3. ASSUME Listen PROVE HeldByMain' /\ HeldByWorker'
  BY <1>3 DEF Inv, TypeOK, listVars, HeldByMain, HeldByWorker, Listen
<1>4. ASSUME StartFails PROVE HeldByMain' /\ HeldByWorker'
  BY <1>4 DEF Inv, TypeOK, listVars, HeldByMain, HeldByWorker, StartFails
<1>5. ASSUME NEW c \in Conns, Accept(c) PROVE HeldByMain' /\ HeldByWorker'
  BY <1>5 DEF Inv, TypeOK, listVars, HeldByMain, HeldByWorker, Accept
<1>6. ASSUME StopListening PROVE HeldByMain' /\ HeldByWorker'
  BY <1>6 DEF Inv, TypeOK, listVars, HeldByMain, HeldByWorker, StopListening
<1>7. ASSUME Admit PROVE HeldByMain' /\ HeldByWorker'
  BY <1>7 DEF Inv, TypeOK, listVars, HeldByMain, HeldByWorker, Admit
<1>8. ASSUME Drop PROVE HeldByMain' /\ HeldByWorker'
  BY <1>8 DEF Inv, TypeOK, listVars, HeldByMain, HeldByWorker, Drop
<1>9. ASSUME Enqueue PROVE HeldByMain' /\ HeldByWorker'
  <2>1. TypeOK /\ HeldByWorker /\ SleepersSleep
    BY DEF Inv
  <2>2. ASSUME NEW v \in Workers
        PROVE  conn'[v] # None <=> pc'[v] \in {"serve", "handle"}
    <3>1. pc'[v] = pc[v] \/ (pc[v] = "asleep" /\ pc'[v] = "look")
      BY <1>9, <2>1, SignalWakes DEF Enqueue, SleepersSleep
    <3> QED
      BY <1>9, <2>1, <3>1 DEF Enqueue, HeldByWorker
  <2> QED
    BY <1>9, <2>2 DEF Enqueue, HeldByMain, HeldByWorker
<1>10. ASSUME SetShutdown PROVE HeldByMain' /\ HeldByWorker'
  BY <1>10 DEF Inv, TypeOK, listVars, HeldByMain, HeldByWorker, SetShutdown
<1>11. ASSUME Broadcast PROVE HeldByMain' /\ HeldByWorker'
  BY <1>11 DEF Inv, TypeOK, listVars, HeldByMain, HeldByWorker, Broadcast, SleepersSleep
<1>12. ASSUME Join PROVE HeldByMain' /\ HeldByWorker'
  BY <1>12 DEF Inv, TypeOK, listVars, HeldByMain, HeldByWorker, Join
<1>13. ASSUME ReaperExits PROVE HeldByMain' /\ HeldByWorker'
  BY <1>13 DEF Inv, TypeOK, listVars, HeldByMain, HeldByWorker, ReaperExits
<1>14. ASSUME SignalHandler PROVE HeldByMain' /\ HeldByWorker'
  BY <1>14 DEF Inv, TypeOK, listVars, HeldByMain, HeldByWorker, SignalHandler
<1>15. ASSUME NEW w \in Workers, Take(w) PROVE HeldByMain' /\ HeldByWorker'
  BY <1>15 DEF Inv, TypeOK, listVars, HeldByMain, HeldByWorker, Take
<1>16. ASSUME NEW w \in Workers, Doze(w) PROVE HeldByMain' /\ HeldByWorker'
  BY <1>16 DEF Inv, TypeOK, listVars, HeldByMain, HeldByWorker, Doze
<1>17. ASSUME NEW w \in Workers, Sleep(w) PROVE HeldByMain' /\ HeldByWorker'
  BY <1>17 DEF Inv, TypeOK, listVars, HeldByMain, HeldByWorker, Sleep
<1>18. ASSUME NEW w \in Workers, Exit(w) PROVE HeldByMain' /\ HeldByWorker'
  BY <1>18 DEF Inv, TypeOK, listVars, HeldByMain, HeldByWorker, Exit
<1>19. ASSUME NEW w \in Workers, Request(w) PROVE HeldByMain' /\ HeldByWorker'
  BY <1>19 DEF Inv, TypeOK, listVars, HeldByMain, HeldByWorker, Request
<1>20. ASSUME NEW w \in Workers, Respond(w) PROVE HeldByMain' /\ HeldByWorker'
  BY <1>20 DEF Inv, TypeOK, listVars, HeldByMain, HeldByWorker, Respond
<1>21. ASSUME NEW w \in Workers, Close(w) PROVE HeldByMain' /\ HeldByWorker'
  BY <1>21 DEF Inv, TypeOK, listVars, HeldByMain, HeldByWorker, Close
<1>22. ASSUME NEW w \in Workers, SpuriousWakeup(w) PROVE HeldByMain' /\ HeldByWorker'
  BY <1>22 DEF Inv, TypeOK, listVars, HeldByMain, HeldByWorker, SpuriousWakeup, SleepersSleep
<1>23. CASE UNCHANGED vars
  BY <1>23 DEF vars, listVars, Inv, TypeOK, listVars, HeldByMain, HeldByWorker
<1> QED
  BY <1>1, <1>2, <1>3, <1>4, <1>5, <1>6, <1>7, <1>8, <1>9, <1>10, <1>11, <1>12, <1>13,
     <1>14, <1>15, <1>16, <1>17, <1>18, <1>19, <1>20, <1>21, <1>22, <1>23 DEF Next, Main,
     Work

(* The sleepers on work_cond are the workers inside pthread_cond_wait. *)
LEMMA SleepersStay ==
  ASSUME Inv, [Next]_vars
  PROVE  SleepersSleep'
<1> USE NoneAssumption, BoundsAssumption
<1>1. ASSUME NEW w \in Workers, StartWorker(w) PROVE SleepersSleep'
  BY <1>1 DEF Inv, TypeOK, listVars, SleepersSleep, StartWorker
<1>2. ASSUME StartReaper PROVE SleepersSleep'
  BY <1>2 DEF Inv, TypeOK, listVars, SleepersSleep, StartReaper
<1>3. ASSUME Listen PROVE SleepersSleep'
  BY <1>3 DEF Inv, TypeOK, listVars, SleepersSleep, Listen
<1>4. ASSUME StartFails PROVE SleepersSleep'
  BY <1>4 DEF Inv, TypeOK, listVars, SleepersSleep, StartFails
<1>5. ASSUME NEW c \in Conns, Accept(c) PROVE SleepersSleep'
  BY <1>5 DEF Inv, TypeOK, listVars, SleepersSleep, Accept
<1>6. ASSUME StopListening PROVE SleepersSleep'
  BY <1>6 DEF Inv, TypeOK, listVars, SleepersSleep, StopListening
<1>7. ASSUME Admit PROVE SleepersSleep'
  BY <1>7 DEF Inv, TypeOK, listVars, SleepersSleep, Admit
<1>8. ASSUME Drop PROVE SleepersSleep'
  BY <1>8 DEF Inv, TypeOK, listVars, SleepersSleep, Drop
<1>9. ASSUME Enqueue PROVE SleepersSleep'
  BY <1>9 DEF Inv, TypeOK, listVars, SleepersSleep, Enqueue, Signal
<1>10. ASSUME SetShutdown PROVE SleepersSleep'
  BY <1>10 DEF Inv, TypeOK, listVars, SleepersSleep, SetShutdown
<1>11. ASSUME Broadcast PROVE SleepersSleep'
  BY <1>11 DEF Inv, TypeOK, listVars, SleepersSleep, Broadcast
<1>12. ASSUME Join PROVE SleepersSleep'
  BY <1>12 DEF Inv, TypeOK, listVars, SleepersSleep, Join
<1>13. ASSUME ReaperExits PROVE SleepersSleep'
  BY <1>13 DEF Inv, TypeOK, listVars, SleepersSleep, ReaperExits
<1>14. ASSUME SignalHandler PROVE SleepersSleep'
  BY <1>14 DEF Inv, TypeOK, listVars, SleepersSleep, SignalHandler
<1>15. ASSUME NEW w \in Workers, Take(w) PROVE SleepersSleep'
  BY <1>15 DEF Inv, TypeOK, listVars, SleepersSleep, Take
<1>16. ASSUME NEW w \in Workers, Doze(w) PROVE SleepersSleep'
  BY <1>16 DEF Inv, TypeOK, listVars, SleepersSleep, Doze
<1>17. ASSUME NEW w \in Workers, Sleep(w) PROVE SleepersSleep'
  BY <1>17 DEF Inv, TypeOK, listVars, SleepersSleep, Sleep
<1>18. ASSUME NEW w \in Workers, Exit(w) PROVE SleepersSleep'
  BY <1>18 DEF Inv, TypeOK, listVars, SleepersSleep, Exit
<1>19. ASSUME NEW w \in Workers, Request(w) PROVE SleepersSleep'
  BY <1>19 DEF Inv, TypeOK, listVars, SleepersSleep, Request
<1>20. ASSUME NEW w \in Workers, Respond(w) PROVE SleepersSleep'
  BY <1>20 DEF Inv, TypeOK, listVars, SleepersSleep, Respond
<1>21. ASSUME NEW w \in Workers, Close(w) PROVE SleepersSleep'
  BY <1>21 DEF Inv, TypeOK, listVars, SleepersSleep, Close
<1>22. ASSUME NEW w \in Workers, SpuriousWakeup(w) PROVE SleepersSleep'
  BY <1>22 DEF Inv, TypeOK, listVars, SleepersSleep, SpuriousWakeup
<1>23. CASE UNCHANGED vars
  BY <1>23 DEF vars, listVars, Inv, TypeOK, listVars, SleepersSleep
<1> QED
  BY <1>1, <1>2, <1>3, <1>4, <1>5, <1>6, <1>7, <1>8, <1>9, <1>10, <1>11, <1>12, <1>13,
     <1>14, <1>15, <1>16, <1>17, <1>18, <1>19, <1>20, <1>21, <1>22, <1>23 DEF Next, Main,
     Work

(* The room enqueue_work found under its first lock is still there when it appends
   under the second: only main appends. *)
LEMMA RoomKept ==
  ASSUME Inv, [Next]_vars
  PROVE  RoomStays' /\ QueueWithinLimit'
<1> USE NoneAssumption, BoundsAssumption
<1>1. ASSUME NEW w \in Workers, StartWorker(w) PROVE RoomStays' /\ QueueWithinLimit'
  BY <1>1 DEF Inv, TypeOK, listVars, RoomStays, QueueWithinLimit, StartWorker
<1>2. ASSUME StartReaper PROVE RoomStays' /\ QueueWithinLimit'
  BY <1>2 DEF Inv, TypeOK, listVars, RoomStays, QueueWithinLimit, StartReaper
<1>3. ASSUME Listen PROVE RoomStays' /\ QueueWithinLimit'
  BY <1>3 DEF Inv, TypeOK, listVars, RoomStays, QueueWithinLimit, Listen
<1>4. ASSUME StartFails PROVE RoomStays' /\ QueueWithinLimit'
  BY <1>4 DEF Inv, TypeOK, listVars, RoomStays, QueueWithinLimit, StartFails
<1>5. ASSUME NEW c \in Conns, Accept(c) PROVE RoomStays' /\ QueueWithinLimit'
  BY <1>5 DEF Inv, TypeOK, listVars, RoomStays, QueueWithinLimit, Accept
<1>6. ASSUME StopListening PROVE RoomStays' /\ QueueWithinLimit'
  BY <1>6 DEF Inv, TypeOK, listVars, RoomStays, QueueWithinLimit, StopListening
<1>7. ASSUME Admit PROVE RoomStays' /\ QueueWithinLimit'
  BY <1>7 DEF Inv, TypeOK, listVars, RoomStays, QueueWithinLimit, Admit, Full
<1>8. ASSUME Drop PROVE RoomStays' /\ QueueWithinLimit'
  BY <1>8 DEF Inv, TypeOK, listVars, RoomStays, QueueWithinLimit, Drop
<1>9. ASSUME Enqueue PROVE RoomStays' /\ QueueWithinLimit'
  BY <1>9 DEF Inv, TypeOK, listVars, RoomStays, QueueWithinLimit, Enqueue, Signal
<1>10. ASSUME SetShutdown PROVE RoomStays' /\ QueueWithinLimit'
  BY <1>10 DEF Inv, TypeOK, listVars, RoomStays, QueueWithinLimit, SetShutdown
<1>11. ASSUME Broadcast PROVE RoomStays' /\ QueueWithinLimit'
  BY <1>11 DEF Inv, TypeOK, listVars, RoomStays, QueueWithinLimit, Broadcast
<1>12. ASSUME Join PROVE RoomStays' /\ QueueWithinLimit'
  BY <1>12 DEF Inv, TypeOK, listVars, RoomStays, QueueWithinLimit, Join
<1>13. ASSUME ReaperExits PROVE RoomStays' /\ QueueWithinLimit'
  BY <1>13 DEF Inv, TypeOK, listVars, RoomStays, QueueWithinLimit, ReaperExits
<1>14. ASSUME SignalHandler PROVE RoomStays' /\ QueueWithinLimit'
  BY <1>14 DEF Inv, TypeOK, listVars, RoomStays, QueueWithinLimit, SignalHandler
<1>15. ASSUME NEW w \in Workers, Take(w) PROVE RoomStays' /\ QueueWithinLimit'
  BY <1>15 DEF Inv, TypeOK, listVars, RoomStays, QueueWithinLimit, Take
<1>16. ASSUME NEW w \in Workers, Doze(w) PROVE RoomStays' /\ QueueWithinLimit'
  BY <1>16 DEF Inv, TypeOK, listVars, RoomStays, QueueWithinLimit, Doze
<1>17. ASSUME NEW w \in Workers, Sleep(w) PROVE RoomStays' /\ QueueWithinLimit'
  BY <1>17 DEF Inv, TypeOK, listVars, RoomStays, QueueWithinLimit, Sleep
<1>18. ASSUME NEW w \in Workers, Exit(w) PROVE RoomStays' /\ QueueWithinLimit'
  BY <1>18 DEF Inv, TypeOK, listVars, RoomStays, QueueWithinLimit, Exit
<1>19. ASSUME NEW w \in Workers, Request(w) PROVE RoomStays' /\ QueueWithinLimit'
  BY <1>19 DEF Inv, TypeOK, listVars, RoomStays, QueueWithinLimit, Request
<1>20. ASSUME NEW w \in Workers, Respond(w) PROVE RoomStays' /\ QueueWithinLimit'
  BY <1>20 DEF Inv, TypeOK, listVars, RoomStays, QueueWithinLimit, Respond
<1>21. ASSUME NEW w \in Workers, Close(w) PROVE RoomStays' /\ QueueWithinLimit'
  BY <1>21 DEF Inv, TypeOK, listVars, RoomStays, QueueWithinLimit, Close
<1>22. ASSUME NEW w \in Workers, SpuriousWakeup(w) PROVE RoomStays' /\ QueueWithinLimit'
  BY <1>22 DEF Inv, TypeOK, listVars, RoomStays, QueueWithinLimit, SpuriousWakeup
<1>23. CASE UNCHANGED vars
  BY <1>23 DEF vars, listVars, Inv, TypeOK, listVars, RoomStays, QueueWithinLimit
<1> QED
  BY <1>1, <1>2, <1>3, <1>4, <1>5, <1>6, <1>7, <1>8, <1>9, <1>10, <1>11, <1>12, <1>13,
     <1>14, <1>15, <1>16, <1>17, <1>18, <1>19, <1>20, <1>21, <1>22, <1>23 DEF Next, Main,
     Work

(* A worker that leaves left nothing in the list, and nothing is appended after
   ds.shutdown is set. *)
LEMMA ExitStays ==
  ASSUME Inv, [Next]_vars
  PROVE  ExitIsFinal'
<1> USE NoneAssumption, BoundsAssumption
<1>1. ASSUME NEW w \in Workers, StartWorker(w) PROVE ExitIsFinal'
  BY <1>1 DEF Inv, TypeOK, listVars, ExitIsFinal, HeldByMain, StartWorker
<1>2. ASSUME StartReaper PROVE ExitIsFinal'
  BY <1>2 DEF Inv, TypeOK, listVars, ExitIsFinal, HeldByMain, StartReaper
<1>3. ASSUME Listen PROVE ExitIsFinal'
  BY <1>3 DEF Inv, TypeOK, listVars, ExitIsFinal, HeldByMain, Listen
<1>4. ASSUME StartFails PROVE ExitIsFinal'
  BY <1>4 DEF Inv, TypeOK, listVars, ExitIsFinal, HeldByMain, StartFails
<1>5. ASSUME NEW c \in Conns, Accept(c) PROVE ExitIsFinal'
  BY <1>5 DEF Inv, TypeOK, listVars, ExitIsFinal, HeldByMain, Accept
<1>6. ASSUME StopListening PROVE ExitIsFinal'
  BY <1>6 DEF Inv, TypeOK, listVars, ExitIsFinal, HeldByMain, StopListening
<1>7. ASSUME Admit PROVE ExitIsFinal'
  BY <1>7 DEF Inv, TypeOK, listVars, ExitIsFinal, HeldByMain, Admit
<1>8. ASSUME Drop PROVE ExitIsFinal'
  BY <1>8 DEF Inv, TypeOK, listVars, ExitIsFinal, HeldByMain, Drop
<1>9. ASSUME Enqueue PROVE ExitIsFinal'
  BY <1>9 DEF Inv, TypeOK, listVars, ExitIsFinal, HeldByMain, Enqueue, Signal
<1>10. ASSUME SetShutdown PROVE ExitIsFinal'
  BY <1>10 DEF Inv, TypeOK, listVars, ExitIsFinal, HeldByMain, SetShutdown
<1>11. ASSUME Broadcast PROVE ExitIsFinal'
  BY <1>11 DEF Inv, TypeOK, listVars, ExitIsFinal, HeldByMain, Broadcast
<1>12. ASSUME Join PROVE ExitIsFinal'
  BY <1>12 DEF Inv, TypeOK, listVars, ExitIsFinal, HeldByMain, Join
<1>13. ASSUME ReaperExits PROVE ExitIsFinal'
  BY <1>13 DEF Inv, TypeOK, listVars, ExitIsFinal, HeldByMain, ReaperExits
<1>14. ASSUME SignalHandler PROVE ExitIsFinal'
  BY <1>14 DEF Inv, TypeOK, listVars, ExitIsFinal, HeldByMain, SignalHandler
<1>15. ASSUME NEW w \in Workers, Take(w) PROVE ExitIsFinal'
  BY <1>15 DEF Inv, TypeOK, listVars, ExitIsFinal, HeldByMain, Take
<1>16. ASSUME NEW w \in Workers, Doze(w) PROVE ExitIsFinal'
  BY <1>16 DEF Inv, TypeOK, listVars, ExitIsFinal, HeldByMain, Doze
<1>17. ASSUME NEW w \in Workers, Sleep(w) PROVE ExitIsFinal'
  BY <1>17 DEF Inv, TypeOK, listVars, ExitIsFinal, HeldByMain, Sleep
<1>18. ASSUME NEW w \in Workers, Exit(w) PROVE ExitIsFinal'
  BY <1>18 DEF Inv, TypeOK, listVars, ExitIsFinal, HeldByMain, Exit
<1>19. ASSUME NEW w \in Workers, Request(w) PROVE ExitIsFinal'
  BY <1>19 DEF Inv, TypeOK, listVars, ExitIsFinal, HeldByMain, Request
<1>20. ASSUME NEW w \in Workers, Respond(w) PROVE ExitIsFinal'
  BY <1>20 DEF Inv, TypeOK, listVars, ExitIsFinal, HeldByMain, Respond
<1>21. ASSUME NEW w \in Workers, Close(w) PROVE ExitIsFinal'
  BY <1>21 DEF Inv, TypeOK, listVars, ExitIsFinal, HeldByMain, Close
<1>22. ASSUME NEW w \in Workers, SpuriousWakeup(w) PROVE ExitIsFinal'
  BY <1>22 DEF Inv, TypeOK, listVars, ExitIsFinal, HeldByMain, SpuriousWakeup, SleepersSleep
<1>23. CASE UNCHANGED vars
  BY <1>23 DEF vars, listVars, Inv, TypeOK, listVars, ExitIsFinal, HeldByMain
<1> QED
  BY <1>1, <1>2, <1>3, <1>4, <1>5, <1>6, <1>7, <1>8, <1>9, <1>10, <1>11, <1>12, <1>13,
     <1>14, <1>15, <1>16, <1>17, <1>18, <1>19, <1>20, <1>21, <1>22, <1>23 DEF Next, Main,
     Work

(* A connection is queued once, and not while main still holds it. *)
LEMMA FreshStays ==
  ASSUME Inv, [Next]_vars
  PROVE  OrderIsFresh'
<1> USE NoneAssumption, BoundsAssumption
<1>1. ASSUME NEW w \in Workers, StartWorker(w) PROVE OrderIsFresh'
  BY <1>1 DEF Inv, TypeOK, listVars, OrderIsFresh, HeldByMain, HeldByWorker, OneOwner,
     StartWorker
<1>2. ASSUME StartReaper PROVE OrderIsFresh'
  BY <1>2 DEF Inv, TypeOK, listVars, OrderIsFresh, HeldByMain, HeldByWorker, OneOwner,
     StartReaper
<1>3. ASSUME Listen PROVE OrderIsFresh'
  BY <1>3 DEF Inv, TypeOK, listVars, OrderIsFresh, HeldByMain, HeldByWorker, OneOwner, Listen
<1>4. ASSUME StartFails PROVE OrderIsFresh'
  BY <1>4 DEF Inv, TypeOK, listVars, OrderIsFresh, HeldByMain, HeldByWorker, OneOwner,
     StartFails
<1>5. ASSUME NEW c \in Conns, Accept(c) PROVE OrderIsFresh'
  BY <1>5 DEF Inv, TypeOK, listVars, OrderIsFresh, HeldByMain, HeldByWorker, OneOwner, Accept
<1>6. ASSUME StopListening PROVE OrderIsFresh'
  BY <1>6 DEF Inv, TypeOK, listVars, OrderIsFresh, HeldByMain, HeldByWorker, OneOwner,
     StopListening
<1>7. ASSUME Admit PROVE OrderIsFresh'
  BY <1>7 DEF Inv, TypeOK, listVars, OrderIsFresh, HeldByMain, HeldByWorker, OneOwner, Admit
<1>8. ASSUME Drop PROVE OrderIsFresh'
  BY <1>8 DEF Inv, TypeOK, listVars, OrderIsFresh, HeldByMain, HeldByWorker, OneOwner, Drop
<1>9. ASSUME Enqueue PROVE OrderIsFresh'
  BY <1>9 DEF Inv, TypeOK, listVars, OrderIsFresh, HeldByMain, HeldByWorker, OneOwner,
     Enqueue, Signal
<1>10. ASSUME SetShutdown PROVE OrderIsFresh'
  BY <1>10 DEF Inv, TypeOK, listVars, OrderIsFresh, HeldByMain, HeldByWorker, OneOwner,
     SetShutdown
<1>11. ASSUME Broadcast PROVE OrderIsFresh'
  BY <1>11 DEF Inv, TypeOK, listVars, OrderIsFresh, HeldByMain, HeldByWorker, OneOwner,
     Broadcast
<1>12. ASSUME Join PROVE OrderIsFresh'
  BY <1>12 DEF Inv, TypeOK, listVars, OrderIsFresh, HeldByMain, HeldByWorker, OneOwner, Join
<1>13. ASSUME ReaperExits PROVE OrderIsFresh'
  BY <1>13 DEF Inv, TypeOK, listVars, OrderIsFresh, HeldByMain, HeldByWorker, OneOwner,
     ReaperExits
<1>14. ASSUME SignalHandler PROVE OrderIsFresh'
  BY <1>14 DEF Inv, TypeOK, listVars, OrderIsFresh, HeldByMain, HeldByWorker, OneOwner,
     SignalHandler
<1>15. ASSUME NEW w \in Workers, Take(w) PROVE OrderIsFresh'
  BY <1>15 DEF Inv, TypeOK, listVars, OrderIsFresh, HeldByMain, HeldByWorker, OneOwner, Take
<1>16. ASSUME NEW w \in Workers, Doze(w) PROVE OrderIsFresh'
  BY <1>16 DEF Inv, TypeOK, listVars, OrderIsFresh, HeldByMain, HeldByWorker, OneOwner, Doze
<1>17. ASSUME NEW w \in Workers, Sleep(w) PROVE OrderIsFresh'
  BY <1>17 DEF Inv, TypeOK, listVars, OrderIsFresh, HeldByMain, HeldByWorker, OneOwner, Sleep
<1>18. ASSUME NEW w \in Workers, Exit(w) PROVE OrderIsFresh'
  BY <1>18 DEF Inv, TypeOK, listVars, OrderIsFresh, HeldByMain, HeldByWorker, OneOwner, Exit
<1>19. ASSUME NEW w \in Workers, Request(w) PROVE OrderIsFresh'
  BY <1>19 DEF Inv, TypeOK, listVars, OrderIsFresh, HeldByMain, HeldByWorker, OneOwner, Request
<1>20. ASSUME NEW w \in Workers, Respond(w) PROVE OrderIsFresh'
  BY <1>20 DEF Inv, TypeOK, listVars, OrderIsFresh, HeldByMain, HeldByWorker, OneOwner, Respond
<1>21. ASSUME NEW w \in Workers, Close(w) PROVE OrderIsFresh'
  BY <1>21 DEF Inv, TypeOK, listVars, OrderIsFresh, HeldByMain, HeldByWorker, OneOwner, Close
<1>22. ASSUME NEW w \in Workers, SpuriousWakeup(w) PROVE OrderIsFresh'
  BY <1>22 DEF Inv, TypeOK, listVars, OrderIsFresh, HeldByMain, HeldByWorker, OneOwner,
     SpuriousWakeup
<1>23. CASE UNCHANGED vars
  BY <1>23 DEF vars, listVars, Inv, TypeOK, listVars, OrderIsFresh, HeldByMain,
     HeldByWorker, OneOwner
<1> QED
  BY <1>1, <1>2, <1>3, <1>4, <1>5, <1>6, <1>7, <1>8, <1>9, <1>10, <1>11, <1>12, <1>13,
     <1>14, <1>15, <1>16, <1>17, <1>18, <1>19, <1>20, <1>21, <1>22, <1>23 DEF Next, Main,
     Work

(* The pointers: enqueue_work links behind work_tail, worker_thread unlinks   *)
(* work_head and resets work_tail with the last item.                        *)
LEMMA ListStays ==
  ASSUME Inv, [Next]_vars
  PROVE  ListIsQueue'
<1> USE NoneAssumption, BoundsAssumption
<1> DEFINE n == Len(served)
           m == Len(order)
<1>1. TypeOK /\ ListIsQueue /\ OrderIsFresh /\ HeldByMain
  BY DEF Inv
<1>2. n \in Nat /\ m \in Nat /\ n <= m
  BY <1>1 DEF TypeOK, ListIsQueue
<1>3. \A i \in 1..m : order[i] \in Conns /\ order[i] # None
  BY <1>1 DEF TypeOK
<1>4. CASE Enqueue
  <2>1. held \in Conns /\ held # None
    BY <1>1, <1>4 DEF Enqueue, HeldByMain, TypeOK
  <2>2. /\ Len(order') = m + 1 /\ order'[m + 1] = held
        /\ \A i \in 1..m : order'[i] = order[i]
    BY <1>1, <1>4, <2>1 DEF Enqueue, TypeOK
  <2>3. served' = served /\ count' = count + 1 /\ tail' = held
    BY <1>4 DEF Enqueue
  <2>4. tail = None <=> n = m
    BY <1>1, <1>2, <1>3 DEF ListIsQueue
  <2>5. head' = order'[n + 1]
    BY <1>1, <1>2, <1>4, <2>2, <2>4 DEF Enqueue, ListIsQueue
  <2>6. next'[held] = None
    <3>1. n < m => tail = order[m] /\ tail # held
      BY <1>1, <1>2 DEF ListIsQueue, OrderIsFresh
    <3> QED
      BY <1>1, <1>2, <1>4, <2>1, <2>4, <3>1 DEF Enqueue, TypeOK
  <2>7. ASSUME NEW i \in (n + 1)..m
        PROVE  next'[order[i]] = order'[i + 1]
    <3>1. order[i] \in Conns /\ order[i] # held /\ order[m] \in Conns /\ tail = order[m] /\ tail # None
      <4>1. i \in 1..m /\ m \in 1..m /\ n < m
        BY <1>2
      <4>2. order[i] \in Conns /\ order[m] \in Conns /\ order[i] # held
        BY <1>1, <1>3, <4>1 DEF OrderIsFresh
      <4>3. tail = order[m]
        BY <1>1, <4>1 DEF ListIsQueue
      <4> QED
        BY <1>3, <4>1, <4>2, <4>3
    <3>2. CASE i = m
      BY <1>1, <1>4, <2>1, <2>2, <3>1, <3>2 DEF Enqueue, TypeOK
    <3>3. CASE i # m
      <4>1. i \in 1..m /\ i + 1 \in 1..m /\ i < m
        BY <1>2, <3>3
      <4>2. order[i] # order[m]
        BY <1>1, <1>2, <3>3, <4>1 DEF OrderIsFresh
      <4>3. next[order[i]] = order[i + 1]
        BY <1>1, <4>1 DEF ListIsQueue
      <4> QED
        BY <1>1, <1>4, <2>1, <2>2, <3>1, <4>1, <4>2, <4>3 DEF Enqueue, TypeOK
    <3> QED
      BY <3>2, <3>3
  <2>8. \A i \in 1..n : served'[i] = order'[i]
    BY <1>1, <1>2, <2>2, <2>3 DEF ListIsQueue
  <2>9. count' = m + 1 - n
    BY <1>1, <1>2, <2>3 DEF ListIsQueue, TypeOK
  <2> QED
    BY <1>2, <2>2, <2>3, <2>5, <2>6, <2>7, <2>8, <2>9 DEF ListIsQueue
<1>5. ASSUME NEW w \in Workers, Take(w)
      PROVE  ListIsQueue'
  <2>1. n < m /\ head = order[n + 1] /\ head \in Conns
    BY <1>1, <1>2, <1>3, <1>5 DEF Take, ListIsQueue
  <2>2. /\ Len(served') = n + 1 /\ served'[n + 1] = head
        /\ \A i \in 1..n : served'[i] = served[i]
    BY <1>1, <1>5, <2>1 DEF Take, TypeOK
  <2>3. UNCHANGED <<order, next>> /\ head' = next[head] /\ count' = count - 1
    BY <1>5 DEF Take
  <2>4. next[head] = IF n + 1 < m THEN order[n + 2] ELSE None
    BY <1>1, <1>2, <2>1 DEF ListIsQueue
  <2>5. tail' = IF n + 1 < m THEN order[m] ELSE None
    BY <1>1, <1>2, <1>3, <1>5, <2>1, <2>4 DEF Take, ListIsQueue
  <2>6. \A i \in 1..(n + 1) : served'[i] = order[i]
    BY <1>1, <1>2, <2>1, <2>2 DEF ListIsQueue
  <2>7. \A i \in (n + 2)..m : next[order[i]] = IF i < m THEN order[i + 1] ELSE None
    BY <1>1, <1>2 DEF ListIsQueue
  <2>8. count' = m - (n + 1)
    BY <1>1, <1>2, <2>3 DEF ListIsQueue, TypeOK
  <2> QED
    BY <1>2, <2>1, <2>2, <2>3, <2>4, <2>5, <2>6, <2>7, <2>8 DEF ListIsQueue
<1>6. CASE UNCHANGED <<listVars, served>>
  BY <1>1, <1>6 DEF ListIsQueue, listVars
<1>7. CASE Drop \/ \E c \in Conns : Accept(c)
  BY <1>6, <1>7 DEF Drop, Accept
<1>8. CASE \E w \in Workers : Close(w)
  BY <1>6, <1>8 DEF Close
<1> QED
  BY <1>4, <1>5, <1>6, <1>7, <1>8 DEF Next, Main, Work, vars, StartWorker, StartReaper,
     Listen, StartFails, StopListening, Admit, SetShutdown, Broadcast, Join, ReaperExits,
     SignalHandler, Doze, Sleep, Exit, Request, Respond, SpuriousWakeup

(* OneOwner, element by element. *)
Queued(c) == \E i \in (Len(served) + 1)..Len(order) : order[i] = c

LEMMA OneOwnerMeans ==
  OneOwner <=>
    /\ \A c \in Conns : fd[c] = "open" <=> c = held \/ Queued(c) \/ \E w \in Workers : conn[w] = c
    /\ ~Queued(held)
    /\ \A w \in Workers : conn[w] # None =>
         ~Queued(conn[w]) /\ conn[w] # held /\ \A v \in Workers : conn[v] = conn[w] => v = w
  BY DEF OneOwner, Queued

(* Every action hands a descriptor from one owner to the next, or closes it. *)
LEMMA OwnerStays ==
  ASSUME Inv, [Next]_vars
  PROVE  OneOwner'
<1> USE NoneAssumption, BoundsAssumption
<1> DEFINE n == Len(served)
           m == Len(order)
<1>1. TypeOK /\ ListIsQueue /\ OrderIsFresh /\ HeldByMain /\ HeldByWorker /\ OneOwner
  BY DEF Inv
<1>2. /\ \A c \in Conns : fd[c] = "open" <=>
           c = held \/ Queued(c) \/ \E w \in Workers : conn[w] = c
      /\ ~Queued(held)
      /\ \A w \in Workers : conn[w] # None =>
           ~Queued(conn[w]) /\ conn[w] # held /\ \A v \in Workers : conn[v] = conn[w] => v = w
  BY <1>1, OneOwnerMeans
<1>3. n \in Nat /\ m \in Nat /\ n <= m /\ \A i \in 1..m : order[i] \in Conns /\ order[i] # None
  BY <1>1 DEF TypeOK, ListIsQueue
<1>4. ~Queued(None)
  BY <1>3 DEF Queued
<1> DEFINE Owned ==
      /\ \A c \in Conns : fd'[c] = "open" <=>
           c = held' \/ Queued(c)' \/ \E w \in Workers : conn'[w] = c
      /\ ~Queued(held)'
      /\ \A w \in Workers : conn'[w] # None =>
           /\ ~Queued(conn[w])' /\ conn'[w] # held'
           /\ \A v \in Workers : conn'[v] = conn'[w] => v = w
<1>5. SUFFICES Owned
  BY DEF OneOwner, Queued
<1>6. ASSUME NEW a \in Conns, Accept(a)
      PROVE  Owned
  <2>1. held = None /\ fd[a] = "none" /\ held' = a /\ fd' = [fd EXCEPT ![a] = "open"]
        /\ conn' = conn /\ order' = order /\ served' = served
    BY <1>1, <1>6 DEF Accept, HeldByMain, listVars
  <2>2. \A c : Queued(c)' <=> Queued(c)
    BY <2>1 DEF Queued
  <2>3. ~Queued(a) /\ \A w \in Workers : conn[w] # a
    BY <1>2, <2>1
  <2> QED
    BY <1>1, <1>2, <2>1, <2>2, <2>3 DEF TypeOK
<1>7. CASE Drop
  <2>1. held \in Conns /\ held' = None /\ fd' = [fd EXCEPT ![held] = "closed"]
        /\ conn' = conn /\ order' = order /\ served' = served
    BY <1>1, <1>7 DEF Drop, HeldByMain, TypeOK, listVars
  <2>2. \A c : Queued(c)' <=> Queued(c)
    BY <2>1 DEF Queued
  <2>3. \A w \in Workers : conn[w] # held
    BY <1>2, <2>1
  <2> QED
    BY <1>1, <1>2, <1>4, <2>1, <2>2, <2>3 DEF TypeOK
<1>8. CASE Enqueue
  <2>1. held \in Conns /\ held' = None /\ fd' = fd /\ conn' = conn
        /\ order' = Append(order, held) /\ served' = served
    BY <1>1, <1>8 DEF Enqueue, HeldByMain, TypeOK
  <2>2. /\ Len(order') = m + 1 /\ order'[m + 1] = held
        /\ \A i \in 1..m : order'[i] = order[i]
    BY <1>1, <2>1 DEF TypeOK
  <2>3. \A c : Queued(c)' <=> Queued(c) \/ c = held
    BY <1>3, <2>1, <2>2 DEF Queued
  <2> QED
    BY <1>2, <1>4, <2>1, <2>3
<1>9. ASSUME NEW u \in Workers, Take(u)
      PROVE  Owned
  <2>1. n < m /\ head = order[n + 1] /\ head \in Conns /\ Queued(head)
    BY <1>1, <1>3, <1>9 DEF Take, ListIsQueue, Queued
  <2>2. held' = held /\ fd' = fd /\ conn' = [conn EXCEPT ![u] = head]
        /\ order' = order /\ served' = Append(served, head) /\ conn[u] = None
    BY <1>1, <1>9 DEF Take, HeldByWorker
  <2>3. Len(served') = n + 1
    BY <1>1, <2>1, <2>2 DEF TypeOK
  <2>4. \A c : Queued(c)' <=> Queued(c) /\ c # head
    BY <1>1, <1>3, <2>1, <2>2, <2>3 DEF Queued, OrderIsFresh
  <2>5. \A w \in Workers : conn[w] # head
    BY <1>2, <2>1
  <2> QED
    BY <1>1, <1>2, <1>4, <2>1, <2>2, <2>4, <2>5 DEF TypeOK
<1>10. ASSUME NEW u \in Workers, Close(u)
       PROVE  Owned
  <2>1. conn[u] \in Conns /\ held' = held /\ fd' = [fd EXCEPT ![conn[u]] = "closed"]
        /\ conn' = [conn EXCEPT ![u] = None] /\ order' = order /\ served' = served
    BY <1>1, <1>10 DEF Close, HeldByWorker, TypeOK, listVars
  <2>2. \A c : Queued(c)' <=> Queued(c)
    BY <2>1 DEF Queued
  <2>3. ~Queued(conn[u]) /\ conn[u] # held /\ \A v \in Workers : conn[v] = conn[u] => v = u
    BY <1>2, <2>1
  <2> QED
    BY <1>1, <1>2, <1>4, <2>1, <2>2, <2>3 DEF TypeOK
<1>11. CASE UNCHANGED <<fd, held, conn, order, served>>
  <2>1. \A c : Queued(c)' <=> Queued(c)
    BY <1>11 DEF Queued
  <2> QED
    BY <1>2, <1>11, <2>1
<1> QED
  BY <1>6, <1>7, <1>8, <1>9, <1>10, <1>11 DEF Next, Main, Work, vars, listVars, StartWorker,
     StartReaper, Listen, StartFails, StopListening, Admit, SetShutdown, Broadcast, Join,
     ReaperExits, SignalHandler, Doze, Sleep, Exit, Request, Respond, SpuriousWakeup

(* Inv is inductive. *)
THEOREM Invariant == Spec => []Inv
<1>1. ASSUME Init PROVE Inv
  <2> USE NoneAssumption, WorkersAssumption, BoundsAssumption
  <2>1. order = <<>> /\ served = <<>> /\ Len(order) = 0 /\ Len(served) = 0
    BY <1>1 DEF Init
  <2>2. TypeOK
    <3>1. order \in Seq(Conns) /\ served \in Seq(Conns)
      BY <2>1
    <3>2. /\ next \in [Conns -> Conns \cup {None}] /\ fd \in [Conns -> {"none", "open", "closed"}]
          /\ unsent \in [Conns -> Nat]
      BY <1>1 DEF Init
    <3>3. /\ pc \in [Workers -> {"unborn", "look", "dozing", "asleep", "serve", "handle", "exited"}]
          /\ conn \in [Workers -> Conns \cup {None}]
      BY <1>1 DEF Init
    <3> QED
      BY <1>1, <3>1, <3>2, <3>3 DEF Init, TypeOK
  <2>3. HeldByMain /\ HeldByWorker /\ SleepersSleep /\ RoomStays /\ ExitIsFinal
    BY <1>1 DEF Init, HeldByMain, HeldByWorker, SleepersSleep, RoomStays, ExitIsFinal
  <2>4. OrderIsFresh /\ ListIsQueue /\ QueueWithinLimit
    BY <1>1, <2>1 DEF Init, OrderIsFresh, ListIsQueue, QueueWithinLimit
  <2>5. OneOwner
    BY <1>1, <2>1, OneOwnerMeans DEF Init, Queued
  <2> QED
    BY <2>2, <2>3, <2>4, <2>5 DEF Inv
<1>2. Inv /\ [Next]_vars => Inv'
  BY TypesStay, HeldStays, SleepersStay, RoomKept, ExitStays, FreshStays, ListStays, OwnerStays
  DEF Inv
<1> QED
  BY <1>1, <1>2, PTL DEF Spec

(* Every variable keeps its type. *)
THEOREM TypeCorrect == Spec => []TypeOK
  BY Invariant, PTL DEF Inv

(* The linked list of work items is a first-come-first-served queue of the    *)
(* connections accepted and not yet taken, however appends and takes mix.    *)
THEOREM ListIsTheQueue == Spec => []ListIsQueue
  BY Invariant, PTL DEF Inv

(* --max-queued-connections holds although the test and the append are two    *)
(* critical sections.                                                      *)
THEOREM LimitHolds == Spec => []QueueWithinLimit
  BY Invariant, PTL DEF Inv

(* A worker that found nothing keeps work_mutex until it sleeps, so nothing   *)
(* is queued until then.                                                   *)
DozersAreAlone == \A w \in Workers : pc[w] = "dozing" => workMutex = w /\ count = 0

Lookers == {w \in Workers : pc[w] = "look"}
Awake == asleep # {} => count <= Cardinality(Lookers)

LEMMA LookersCount ==
  ASSUME TypeOK
  PROVE  /\ Cardinality(Lookers) \in Nat
         /\ Lookers' = Lookers => Cardinality(Lookers') = Cardinality(Lookers)
         /\ \A w \in Workers : pc' = [pc EXCEPT ![w] = "look"] /\ pc[w] # "look"
              => Cardinality(Lookers') = Cardinality(Lookers) + 1
         /\ \A w \in Workers : Lookers' = Lookers \ {w} /\ pc[w] = "look"
              => Cardinality(Lookers') = Cardinality(Lookers) - 1
<1>1. IsFiniteSet(Lookers)
  BY FS_Subset, WorkersAssumption DEF Lookers
<1>2. Cardinality(Lookers) \in Nat
  BY <1>1, FS_CardinalityType
<1>3. ASSUME NEW w \in Workers, pc' = [pc EXCEPT ![w] = "look"], pc[w] # "look"
      PROVE  Cardinality(Lookers') = Cardinality(Lookers) + 1
  <2>1. Lookers' = Lookers \cup {w} /\ w \notin Lookers
    BY <1>3 DEF Lookers, TypeOK
  <2> QED
    BY <1>1, <2>1, FS_AddElement
<1>4. ASSUME NEW w \in Workers, Lookers' = Lookers \ {w}, pc[w] = "look"
      PROVE  Cardinality(Lookers') = Cardinality(Lookers) - 1
  <2>1. w \in Lookers
    BY <1>4 DEF Lookers
  <2> QED
    BY <1>1, <1>4, <2>1, FS_RemoveElement
<1> QED
  BY <1>2, <1>3, <1>4

LEMMA NoHeadIsEmpty ==
  ASSUME Inv
  PROVE  head = None => count = 0
<1> DEFINE n == Len(served)
           m == Len(order)
<1>1. /\ n <= m /\ count = m - n /\ head = IF n < m THEN order[n + 1] ELSE None
      /\ n \in Nat /\ m \in Nat /\ order \in Seq(Conns)
  BY DEF Inv, ListIsQueue, TypeOK
<1>2. CASE n < m
  <2>1. n + 1 \in 1..Len(order)
    BY <1>1, <1>2
  <2>2. order[n + 1] \in Conns
    BY <1>1, <2>1, ElementOfSeq
  <2> QED
    BY <1>1, <1>2, <2>2, NoneAssumption
<1>3. CASE ~(n < m)
  BY <1>1, <1>3
<1> QED
  BY <1>2, <1>3

LEMMA DozersStay ==
  ASSUME Inv, DozersAreAlone, [Next]_vars
  PROVE  DozersAreAlone'
<1>1. /\ TypeOK /\ SleepersSleep /\ ListIsQueue
      /\ \A w \in Workers : pc[w] = "dozing" => workMutex = w /\ count = 0 /\ w # None
  BY NoneAssumption DEF Inv, DozersAreAlone
<1>2. head = None => count = 0
  BY NoHeadIsEmpty
<1>3. CASE Enqueue
  BY <1>1, <1>3 DEF Enqueue, Signal, DozersAreAlone, TypeOK
<1>4. CASE \E w \in Workers : Take(w)
  BY <1>1, <1>4 DEF Take, DozersAreAlone, TypeOK
<1>5. CASE \E w \in Workers : Doze(w)
  BY <1>1, <1>2, <1>5 DEF Doze, DozersAreAlone, TypeOK, listVars
<1>6. CASE \E w \in Workers : Sleep(w)
  BY <1>1, <1>6 DEF Sleep, DozersAreAlone, TypeOK, listVars
<1>7. ASSUME UNCHANGED <<workMutex, count>>, \A w \in Workers : pc'[w] = "dozing" => pc[w] = "dozing"
      PROVE  DozersAreAlone'
  BY <1>1, <1>7 DEF DozersAreAlone
<1>8. CASE \E w \in Workers : Exit(w) \/ Request(w) \/ Respond(w) \/ Close(w) \/ SpuriousWakeup(w)
  BY <1>1, <1>7, <1>8 DEF Exit, Request, Respond, Close, SpuriousWakeup, TypeOK, listVars
<1>9. CASE Main /\ ~Enqueue
  BY <1>1, <1>7, <1>9 DEF Main, StartWorker, StartReaper, Listen, StartFails, Accept,
     StopListening, Admit, Drop, SetShutdown, Broadcast, Join, TypeOK, listVars
<1>10. CASE ReaperExits \/ SignalHandler \/ UNCHANGED vars
  BY <1>7, <1>10 DEF ReaperExits, SignalHandler, vars, listVars
<1> QED
  BY <1>3, <1>4, <1>5, <1>6, <1>8, <1>9, <1>10 DEF Next, Work

LEMMA AwakeStays ==
  ASSUME Inv, DozersAreAlone, Awake, [Next]_vars
  PROVE  Awake'
<1>1. TypeOK /\ SleepersSleep /\ Cardinality(Lookers) \in Nat /\ count \in Nat
  BY LookersCount DEF Inv, TypeOK
<1>2. head = None => count = 0
  BY NoHeadIsEmpty
<1>3. CASE Enqueue
  <2>1. count' = count + 1 /\ Signal
    BY <1>3 DEF Enqueue
  <2>2. CASE asleep = {}
    BY <2>1, <2>2 DEF Signal, Awake
  <2>3. CASE asleep # {}
    <3>1. PICK w \in asleep : asleep' = asleep \ {w} /\ pc' = [pc EXCEPT ![w] = "look"]
      BY <2>1, <2>3 DEF Signal
    <3>2. w \in Workers /\ pc[w] # "look"
      BY <1>1 DEF TypeOK, SleepersSleep
    <3>3. Cardinality(Lookers') = Cardinality(Lookers) + 1
      BY <1>1, <3>1, <3>2, LookersCount
    <3> QED
      BY <1>1, <2>1, <2>3, <3>3 DEF Awake
  <2> QED
    BY <2>2, <2>3
<1>4. ASSUME NEW w \in Workers, Take(w)
      PROVE  Awake'
  <2>1. pc[w] = "look" /\ Lookers' = Lookers \ {w}
    BY <1>1, <1>4 DEF Take, TypeOK, Lookers
  <2>2. Cardinality(Lookers') = Cardinality(Lookers) - 1
    BY <1>1, <2>1, LookersCount
  <2> QED
    BY <1>1, <1>4, <2>2 DEF Take, Awake
<1>5. ASSUME count' = 0, Cardinality(Lookers') \in Nat
      PROVE  Awake'
  BY <1>5 DEF Awake
<1>6. TypeOK' /\ Cardinality(Lookers') \in Nat
  <2>1. TypeOK'
    BY TypesStay DEF Inv
  <2>2. IsFiniteSet(Lookers')
    BY FS_Subset, WorkersAssumption DEF Lookers
  <2> QED
    BY <2>1, <2>2, FS_CardinalityType
<1>7. CASE \E w \in Workers : Doze(w) \/ Sleep(w) \/ Exit(w)
  <2>1. count' = count /\ count = 0
    BY <1>1, <1>2, <1>7 DEF Doze, Sleep, Exit, DozersAreAlone, listVars
  <2> QED
    BY <1>5, <1>6, <2>1
<1>8. ASSUME NEW w \in Workers, pc' = [pc EXCEPT ![w] = "look"], pc[w] # "look", count' = count,
             asleep' \subseteq asleep
      PROVE  Awake'
  <2>1. Cardinality(Lookers') = Cardinality(Lookers) + 1
    BY <1>1, <1>8, LookersCount
  <2> QED
    BY <1>1, <1>8, <2>1 DEF Awake
<1>9. ASSUME UNCHANGED <<count, asleep>>, Lookers' = Lookers
      PROVE  Awake'
  BY <1>1, <1>9, LookersCount DEF Awake
<1>10. CASE \E w \in Workers : SpuriousWakeup(w) \/ Close(w) \/ StartWorker(w)
  BY <1>1, <1>8, <1>10 DEF SpuriousWakeup, Close, StartWorker, SleepersSleep, listVars
<1>11. CASE \E w \in Workers : Request(w) \/ Respond(w)
  <2>1. UNCHANGED <<count, asleep>> /\ Lookers' = Lookers
    BY <1>1, <1>11 DEF Request, Respond, Lookers, TypeOK, listVars
  <2> QED
    BY <1>9, <2>1
<1>12. CASE Broadcast
  BY <1>12 DEF Broadcast, Awake
<1>13. ASSUME UNCHANGED <<count, asleep, pc>>
       PROVE  Awake'
  BY <1>9, <1>13 DEF Lookers
<1> QED
  BY <1>3, <1>4, <1>7, <1>10, <1>11, <1>12, <1>13
  DEF Next, Main, Work, vars, listVars, StartReaper, Listen, StartFails, Accept, StopListening,
     Admit, Drop, SetShutdown, Join, ReaperExits, SignalHandler

(* No wakeup is lost: while a worker sleeps, each queued connection has a      *)
(* worker that is awake and about to look.                                 *)
THEOREM NoWakeupIsLost == Spec => []NoIdleWhileQueued
<1>1. Init => DozersAreAlone /\ Awake
  BY DEF Init, DozersAreAlone, Awake
<1>2. Inv /\ DozersAreAlone /\ Awake /\ [Next]_vars => DozersAreAlone' /\ Awake'
  BY DozersStay, AwakeStays
<1>3. Awake => NoIdleWhileQueued
  BY DEF Awake, Lookers, NoIdleWhileQueued
<1> QED
  BY <1>1, <1>2, <1>3, Invariant, PTL DEF Spec

(* Each open descriptor is main's, the queue's or one worker's. *)
THEOREM EveryFdHasOneOwner == Spec => []OneOwner
  BY Invariant, PTL DEF Inv

(* When main frees the engine no accepted connection is open. *)
THEOREM ExitLeavesNothingOpen == Spec => []AllClosedAtExit
<1>1. Inv => AllClosedAtExit
  <2> SUFFICES ASSUME Inv, main = "done", NEW c \in Conns, fd[c] = "open"
               PROVE  FALSE
    BY DEF AllClosedAtExit
  <2> USE NoneAssumption, WorkersAssumption
  <2>1. TypeOK /\ HeldByMain /\ HeldByWorker /\ ExitIsFinal /\ ListIsQueue /\ OneOwner
    BY DEF Inv
  <2>2. c # held /\ \A w \in Workers : conn[w] # c
    BY <2>1 DEF HeldByMain, HeldByWorker, ExitIsFinal
  <2>3. Queued(c)
    BY <2>1, <2>2, OneOwnerMeans
  <2>4. Len(served) < Len(order) /\ order # <<>>
    BY <2>1, <2>3 DEF Queued, TypeOK
  <2>5. head = None
    BY <2>1, <2>4 DEF ExitIsFinal
  <2>6. head \in Conns
    BY <2>1, <2>4 DEF ListIsQueue, TypeOK
  <2> QED
    BY <2>5, <2>6
<1> QED
  BY <1>1, Invariant, PTL

(* A step that leaves the list, the workers' connections and the closed       *)
(* descriptors alone is a stutter of ConnectionQueue.                       *)
LEMMA Stutters ==
  ASSUME UNCHANGED <<order, served, count, conn>>,
         \A c \in Conns : fd'[c] = "closed" <=> fd[c] = "closed"
  PROVE  UNCHANGED Queue!vars
  BY DEF Queue!vars, Waiting

(* The last k elements of a sequence are a sequence. *)
LEMMA Suffix ==
  ASSUME NEW s \in Seq(Conns), NEW n \in Nat, NEW k \in Nat, n + k = Len(s)
  PROVE  LET t == [i \in 1..k |-> s[n + i]]
         IN  t \in Seq(Conns) /\ Len(t) = k /\ \A i \in 1..k : t[i] = s[n + i]
<1>1. \A i \in 1..k : n + i \in 1..Len(s) /\ s[n + i] \in Conns
  OBVIOUS
<1> QED
  BY <1>1

(* Enqueue maps to Admit, Drop to Refuse, Take to Start, Close to Finish, and *)
(* every other step to a stutter.                                          *)
LEMMA StepsRefine ==
  ASSUME Inv, [Next]_vars
  PROVE  [Queue!Next]_(Queue!vars)
<1> USE NoneAssumption, BoundsAssumption
<1> DEFINE n == Len(served)
           m == Len(order)
           ServingSet == {conn[w] : w \in Workers} \ {None}
           ClosedSet == {c \in Conns : fd[c] = "closed"}
<1>1. TypeOK /\ ListIsQueue /\ OrderIsFresh /\ HeldByMain /\ HeldByWorker /\ OneOwner /\ RoomStays
  BY DEF Inv
<1>2. n \in Nat /\ m \in Nat /\ n <= m /\ count = m - n /\ \A i \in 1..m : order[i] \in Conns
  BY <1>1 DEF TypeOK, ListIsQueue
<1>3. /\ Waiting \in Seq(Conns) /\ Len(Waiting) = count
      /\ \A i \in 1..count : Waiting[i] = order[n + i]
  <2>1. count \in Nat /\ n + count = Len(order) /\ order \in Seq(Conns)
    BY <1>1, <1>2 DEF TypeOK
  <2> QED
    BY <1>2, <2>1, Suffix DEF Waiting
<1>4. /\ \A c \in Conns : fd[c] = "open" <=>
           c = held \/ Queued(c) \/ \E w \in Workers : conn[w] = c
      /\ ~Queued(held)
      /\ \A w \in Workers : conn[w] # None =>
           ~Queued(conn[w]) /\ conn[w] # held /\ \A v \in Workers : conn[v] = conn[w] => v = w
  BY <1>1, OneOwnerMeans
<1>5. ASSUME held \in Conns
      PROVE  Queue!New(held)
  <2>1. held \notin ClosedSet \cup ServingSet
    BY <1>4, <1>5
  <2>2. \A i \in 1..count : Waiting[i] # held
    BY <1>2, <1>3, <1>4 DEF Queued
  <2> QED
    BY <1>3, <2>1, <2>2 DEF Queue!New
<1>6. CASE Enqueue
  <2>1. held \in Conns /\ order' = Append(order, held) /\ served' = served
        /\ count' = count + 1 /\ conn' = conn /\ fd' = fd /\ main = "allocate"
    BY <1>1, <1>6 DEF Enqueue, HeldByMain, TypeOK
  <2>2. MaxQueue > 0 => Len(Waiting) < MaxQueue
    BY <1>1, <1>3, <2>1 DEF RoomStays
  <2>3. Waiting' = Append(Waiting, held)
    <3>1. /\ Len(order') = m + 1 /\ order'[m + 1] = held /\ order' \in Seq(Conns)
          /\ \A i \in 1..m : order'[i] = order[i]
      BY <1>1, <2>1 DEF TypeOK
    <3>2. Waiting' = [i \in 1..(count + 1) |-> order'[n + i]]
      BY <2>1 DEF Waiting
    <3>3. /\ Waiting' \in Seq(Conns) /\ Len(Waiting') = count + 1
          /\ \A i \in 1..(count + 1) : Waiting'[i] = order'[n + i]
      <4>1. count + 1 \in Nat /\ n + (count + 1) = Len(order')
        BY <1>2, <3>1
      <4> QED
        BY <1>2, <3>1, <3>2, <4>1, Suffix
    <3>4. /\ Append(Waiting, held) \in Seq(Conns) /\ Len(Append(Waiting, held)) = count + 1
          /\ \A i \in 1..count : Append(Waiting, held)[i] = Waiting[i]
          /\ Append(Waiting, held)[count + 1] = held
      BY <1>3, <2>1, AppendProperties
    <3>5. \A i \in 1..(count + 1) : Waiting'[i] = Append(Waiting, held)[i]
      <4>1. ASSUME NEW i \in 1..count PROVE Waiting'[i] = Append(Waiting, held)[i]
        <5>1. n + i \in 1..m /\ i \in 1..(count + 1)
          BY <1>2
        <5> QED
          BY <1>3, <3>1, <3>3, <3>4, <5>1
      <4>2. Waiting'[count + 1] = Append(Waiting, held)[count + 1]
        <5>1. n + (count + 1) = m + 1 /\ count + 1 \in 1..(count + 1)
          BY <1>2
        <5> QED
          BY <3>1, <3>3, <3>4, <5>1
      <4>3. \A i \in 1..(count + 1) : i \in 1..count \/ i = count + 1
        BY <1>2
      <4> HIDE DEF n, m
      <4> QED
        BY <4>1, <4>2, <4>3
    <3> QED
      BY <3>3, <3>4, <3>5, SeqEqual
  <2>4. UNCHANGED <<ServingSet, ClosedSet>>
    BY <2>1
  <2>5. Queue!Admit(held)
    BY <1>5, <2>1, <2>2, <2>3, <2>4 DEF Queue!Admit
  <2> QED
    BY <2>1, <2>5 DEF Queue!Next
<1>7. CASE Drop
  <2>1. held \in Conns /\ UNCHANGED <<order, served, count, conn>> /\ fd' = [fd EXCEPT ![held] = "closed"]
    BY <1>1, <1>7 DEF Drop, HeldByMain, TypeOK, listVars
  <2>2. UNCHANGED <<Waiting, ServingSet>>
    BY <2>1 DEF Waiting
  <2>3. ClosedSet' = ClosedSet \cup {held}
    BY <1>1, <2>1 DEF TypeOK
  <2>4. Queue!Refuse(held)
    BY <1>5, <2>1, <2>2, <2>3 DEF Queue!Refuse
  <2>5. \E c \in Conns : Queue!Refuse(c)
    BY <2>1, <2>4 DEF Queue!Refuse
  <2> QED
    BY <2>5 DEF Queue!Next
<1>8. ASSUME NEW u \in Workers, Take(u)
      PROVE  Queue!Start
  <2>1. n < m /\ head = order[n + 1] /\ head \in Conns /\ count > 0
    BY <1>1, <1>2, <1>8 DEF Take, ListIsQueue
  <2>2. /\ UNCHANGED <<order, fd>> /\ count' = count - 1 /\ conn' = [conn EXCEPT ![u] = head]
        /\ served' = Append(served, head) /\ conn[u] = None
    BY <1>1, <1>8 DEF Take, HeldByWorker
  <2>3. Waiting # <<>> /\ Head(Waiting) = head
    BY <1>2, <1>3, <2>1
  <2>4. Waiting' = Tail(Waiting)
    <3>1. Len(served') = n + 1
      BY <1>1, <2>1, <2>2 DEF TypeOK
    <3>2. Waiting' = [i \in 1..(count - 1) |-> order[n + 1 + i]]
      BY <2>2, <3>1 DEF Waiting
    <3>3. /\ Waiting' \in Seq(Conns) /\ Len(Waiting') = count - 1
          /\ \A i \in 1..(count - 1) : Waiting'[i] = order[n + 1 + i]
      <4>1. count - 1 \in Nat /\ n + 1 \in Nat /\ (n + 1) + (count - 1) = Len(order) /\ order \in Seq(Conns)
        BY <1>1, <1>2, <2>1 DEF TypeOK
      <4> QED
        BY <3>2, <4>1, Suffix
    <3>4. /\ Tail(Waiting) \in Seq(Conns) /\ Len(Tail(Waiting)) = count - 1
          /\ \A i \in 1..(count - 1) : Tail(Waiting)[i] = Waiting[i + 1]
      BY <1>3, <2>3, HeadTailProperties
    <3>5. \A i \in 1..(count - 1) : Waiting'[i] = Tail(Waiting)[i]
      BY <1>2, <1>3, <2>1, <3>3, <3>4
    <3> QED
      BY <3>3, <3>4, <3>5, SeqEqual
  <2>5. ServingSet' = ServingSet \cup {head} /\ UNCHANGED ClosedSet
    BY <1>1, <2>1, <2>2 DEF TypeOK
  <2> QED
    BY <2>3, <2>4, <2>5 DEF Queue!Start
<1>9. ASSUME NEW u \in Workers, Close(u)
      PROVE  conn[u] \in Conns /\ Queue!Finish(conn[u])
  <2>1. /\ conn[u] \in Conns /\ UNCHANGED <<order, served, count>>
        /\ fd' = [fd EXCEPT ![conn[u]] = "closed"] /\ conn' = [conn EXCEPT ![u] = None]
    BY <1>1, <1>9 DEF Close, HeldByWorker, TypeOK, listVars
  <2>2. \A v \in Workers : conn[v] = conn[u] => v = u
    BY <1>4, <2>1
  <2>3. ServingSet' = ServingSet \ {conn[u]}
    BY <1>1, <2>1, <2>2 DEF TypeOK
  <2>4. ClosedSet' = ClosedSet \cup {conn[u]}
    BY <1>1, <2>1 DEF TypeOK
  <2>5. UNCHANGED Waiting
    BY <2>1 DEF Waiting
  <2> QED
    BY <2>1, <2>3, <2>4, <2>5 DEF Queue!Finish
<1>10. ASSUME NEW a \in Conns, Accept(a)
       PROVE  UNCHANGED Queue!vars
  <2>1. UNCHANGED <<order, served, count, conn>> /\ fd[a] = "none" /\ fd' = [fd EXCEPT ![a] = "open"]
    BY <1>10 DEF Accept, listVars
  <2> QED
    BY <1>1, <2>1, Stutters DEF TypeOK
<1>11. CASE UNCHANGED <<order, served, count, conn, fd>>
  BY <1>11, Stutters
<1>12. CASE \E u \in Workers : Close(u)
  <2>1. \E c \in Conns : Queue!Finish(c)
    BY <1>9, <1>12 DEF Queue!Finish
  <2> QED
    BY <2>1 DEF Queue!Next
<1>13. CASE \E u \in Workers : Take(u)
  BY <1>8, <1>13 DEF Queue!Next
<1> QED
  BY <1>6, <1>7, <1>10, <1>11, <1>12, <1>13
  DEF Next, Main, Work, vars, listVars, StartWorker, StartReaper, Listen, StartFails,
     StopListening, Admit, SetShutdown, Broadcast, Join, ReaperExits, SignalHandler, Doze,
     Sleep, Exit, Request, Respond, SpuriousWakeup

(* The daemon's queue and pool implement the bounded first-come-first-served  *)
(* queue: no connection is served twice, out of turn, or lost.               *)
THEOREM Implements == Spec => ImplementsQueue
<1>1. Init => Queue!Init
  BY NoneAssumption DEF Init, Queue!Init, Waiting
<1>2. Inv /\ [Next]_vars => [Queue!Next]_(Queue!vars)
  BY StepsRefine
<1> QED
  BY <1>1, <1>2, Invariant, PTL DEF Spec, Queue!Spec, ImplementsQueue
=============================================================================
