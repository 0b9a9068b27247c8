------------------------- MODULE SessionTableProofs -------------------------
(***************************************************************************)
(* Proofs about SessionTable, for any number of threads, sessions, ids and *)
(* requests.                                                               *)
(***************************************************************************)
EXTENDS SessionTable, TLAPS

-----------------------------------------------------------------------------
(* Lemmas about the data the model is built from. *)

(* A request carries an id unless it is load_model or health, and messages. *)
LEMMA RequestFields ==
  ASSUME NEW r \in Requests
  PROVE  /\ r.op \in AllOps
         /\ r.msgs \in Seq(Roles)
         /\ r.op \notin Global => r.id \in Ids
         /\ r.op = "load_model" => r.ctx \in Nat
<1>1. PICK op \in Ops :
        r \in [op : {op}, id : IF op \in Global THEN {None} ELSE Ids, msgs : Payload(op),
               ctx : IF op = "load_model" THEN CtxSizes ELSE {0}]
  BY DEF Requests
<1>2. r.op = op /\ r.msgs \in Payload(op)
      /\ r.id \in (IF op \in Global THEN {None} ELSE Ids)
      /\ r.ctx \in (IF op = "load_model" THEN CtxSizes ELSE {0})
  BY <1>1
<1>3. op \in AllOps
  BY OpsAssumption
<1>4. Payload(op) \subseteq Seq(Roles)
  <2>1. <<"user", "assistant">> \in Seq(Roles) /\ <<"assistant">> \in Seq(Roles)
        /\ <<"tool_result">> \in Seq(Roles) /\ <<"system">> \in Seq(Roles)
        /\ <<>> \in Seq(Roles)
    BY DEF Roles
  <2>. QED  BY <2>1 DEF Payload
<1>5. r.op \notin Global => r.id \in Ids
  BY <1>2
<1>6. r.op = "load_model" => r.ctx \in Nat
  BY <1>2, CtxAssumption
<1>. QED  BY <1>2, <1>3, <1>4, <1>5, <1>6

(* Removing a table entry: what RemoveAt leaves is a table of objects, one   *)
(* shorter, whose entries are the others.                                   *)
Without(s, i) == [j \in 1..(Len(s) - 1) |-> IF j = i THEN s[Len(s)] ELSE s[j]]

LEMMA WithoutProperties ==
  ASSUME NEW S, NEW s \in Seq(S), NEW i \in DOMAIN s
  PROVE  /\ Without(s, i) \in Seq(S)
         /\ Len(Without(s, i)) = Len(s) - 1
         /\ DOMAIN Without(s, i) = 1..(Len(s) - 1)
         /\ \A j \in 1..(Len(s) - 1) : Without(s, i)[j] = IF j = i THEN s[Len(s)] ELSE s[j]
<1>1. Len(s) \in Nat \ {0} /\ DOMAIN s = 1..Len(s) /\ i \in 1..Len(s)
  OBVIOUS
<1>2. \A j \in 1..(Len(s) - 1) : Without(s, i)[j] \in S
  BY <1>1 DEF Without
<1>3. DOMAIN Without(s, i) = 1..(Len(s) - 1)
  BY DEF Without
<1>4. Without(s, i) \in Seq(S)
  BY <1>1, <1>2, <1>3, Len(s) - 1 \in Nat DEF Without
<1>. QED  BY <1>1, <1>3, <1>4 DEF Without

LEMMA RemoveAtTypes ==
  ASSUME TypeOK, NEW i \in DOMAIN table, RemoveAt(i)
  PROVE  /\ table' \in Seq(Objs) /\ live' \in SUBSET Objs
         /\ sess' \in [Objs -> Session \cup {Freed}]
         /\ provider' \in SUBSET Ids
         /\ mutex' \in [Objs -> Threads \cup {None}]
<1>1. table' = Without(table, i)
  BY DEF RemoveAt, Without
<1>2. table' \in Seq(Objs)
  BY <1>1, WithoutProperties DEF TypeOK
<1>. QED  BY <1>2 DEF RemoveAt, TypeOK

(* Every step keeps every variable in its type. *)
LEMMA TypeInit == Init => TypeOK
BY CtxAssumption, LimitsAssumption DEF Init, TypeOK, PCs, Threads


(* Under the invariant, the object a thread works on is an allocated session. *)
LEMMA RefIsSession ==
  ASSUME Inv, NEW w \in Workers, ref[w] # None
  PROVE  ref[w] \in Objs /\ ref[w] \in live /\ sess[ref[w]] \in Session
<1>1. ref[w] \in Objs
  BY DEF Inv, TypeOK
<1>2. ref[w] \in live
  BY DEF Inv, NoUseAfterFree
<1>. QED  BY <1>1, <1>2 DEF Inv, TableIsLive

LEMMA TypeCreate ==
  ASSUME Inv, NEW w \in Workers, Create(w)
  PROVE  TypeOK'
<1>0. TypeOK /\ ServesItsRequest /\ SessionOwner /\ ScanIndex /\ w \in Threads
  BY DEF Inv, Threads
<1>. USE DEF TypeOK, PCs, modelVars, clockVars, tableVars, locals, Goto, Answer
<1>1. CASE CreateLock(w)
  <2>1. idx' \in [Threads -> Nat]
    <3>1. idx' = [idx EXCEPT ![w] = 1] \/ idx' = idx
      BY <1>1 DEF CreateLock, ScanFrom
    <3>. QED  BY <1>0, <3>1
  <2>2. pc' \in [Threads -> PCs] /\ idle' \in SUBSET Objs
    BY <1>0, <1>1 DEF CreateLock
  <2>. QED  BY <1>0, <1>1, <2>1, <2>2 DEF CreateLock
<1>2. CASE CreateScan(w)
  <2>1. idx[w] \in DOMAIN table /\ table[idx[w]] \in Objs
    BY <1>0, <1>2 DEF CreateScan, ScanIndex
  <2>2. mutex' \in [Objs -> Threads \cup {None}]
    <3>1. \/ mutex' = mutex
          \/ mutex' = [x \in Objs |-> IF x = table[idx[w]] THEN w
                                      ELSE IF best[w] > 0 /\ x = table[best[w]] THEN None
                                      ELSE mutex[x]]
      BY <1>2 DEF CreateScan
    <3>. QED  BY <1>0, <3>1
  <2>4. best' \in [Workers -> Nat]
    BY <1>0, <1>2 DEF CreateScan
  <2>3. idx' \in [Threads -> Nat]
    BY <1>0, <1>2 DEF CreateScan
  <2>. QED  BY <1>0, <1>2, <2>2, <2>3, <2>4 DEF CreateScan
<1>3. CASE CreateLimit(w)
  BY <1>0, <1>3 DEF CreateLimit
<1>4. CASE CreateEvict(w)
  <2>1. best[w] \in DOMAIN table
    BY <1>0, <1>4 DEF CreateEvict, SessionOwner
  <2>. QED  BY <1>0, <1>4, <2>1, RemoveAtTypes DEF CreateEvict
<1>5. CASE CreateReplace(w)
  <2>1. PICK i \in DOMAIN table : RemoveAt(i)
    BY <1>5 DEF CreateReplace, Has
  <2>. QED  BY <1>0, <1>5, <2>1, RemoveAtTypes DEF CreateReplace
<1>6. CASE CreateNew(w)
  <2>1. req[w].id \in Ids
    BY <1>0, <1>6, RequestFields DEF CreateNew, IdIsFree, ServesItsRequest, Global
  <2>2. [id |-> req[w].id, hist |-> <<>>, ctx |-> ctx, active |-> now, created |-> FALSE]
          \in Session
    BY <1>0, <2>1 DEF Session
  <2>3. PICK o \in Objs \ live :
          /\ live' = live \cup {o} /\ table' = Append(table, o)
          /\ sess' = [sess EXCEPT ![o] = [id |-> req[w].id, hist |-> <<>>, ctx |-> ctx,
                                          active |-> now, created |-> FALSE]]
          /\ mutex' = [mutex EXCEPT ![o] = w] /\ ref' = [ref EXCEPT ![w] = o]
    BY <1>6 DEF CreateNew
  <2>4. sess' \in [Objs -> Session \cup {Freed}]
    BY <1>0, <2>2, <2>3
  <2>. QED  BY <1>0, <1>6, <2>3, <2>4 DEF CreateNew
<1>7. CASE CreateOutOfMemory(w)
  BY <1>0, <1>7 DEF CreateOutOfMemory
<1>8. CASE CreateSetup(w)
  <2>1. req[w].id \in Ids
    BY <1>0, <1>8, RequestFields DEF CreateSetup, ServesItsRequest, Global
  <2>2. provider' \in SUBSET Ids
    BY <1>0, <1>8, <2>1 DEF CreateSetup
  <2>3. ref[w] \in Objs /\ sess[ref[w]] \in Session
    BY <1>0, <1>8, RefIsSession DEF CreateSetup, SessionOwner, UsePCs
  <2>4. sess' \in [Objs -> Session \cup {Freed}]
    BY <1>0, <1>8, <2>3 DEF CreateSetup, Session
  <2>. QED  BY <1>0, <1>8, <2>2, <2>4 DEF CreateSetup
<1>. QED  BY <1>1, <1>2, <1>3, <1>4, <1>5, <1>6, <1>7, <1>8 DEF Create

LEMMA TypeFind ==
  ASSUME Inv, NEW w \in Workers, Find(w)
  PROVE  TypeOK'
<1>0. TypeOK /\ SessionOwner /\ w \in Threads
  BY DEF Inv, Threads
<1>. USE DEF TypeOK, PCs, modelVars, clockVars, tableVars, locals, Goto, Answer
<1>1. CASE FindMiss(w)
  BY <1>0, <1>1 DEF FindMiss
<1>2. CASE FindHit(w)
  <2>1. ref' \in [Workers -> Objs \cup {None}]
    BY <1>0, <1>2 DEF FindHit, Has
  <2>. QED  BY <1>0, <1>2, <2>1 DEF FindHit
<1>3. CASE FindAcquire(w)
  BY <1>0, <1>3 DEF FindAcquire
<1>. QED  BY <1>1, <1>2, <1>3 DEF Find

(* The handlers of append_turn, replace_history and reset_session, and the   *)
(* turn a generate appends, write a history into an allocated session.       *)
LEMMA SessionUpdate ==
  ASSUME Inv, NEW w \in Workers, ref[w] # None, NEW h \in Seq(Roles), NEW t \in Nat
  PROVE  /\ [sess EXCEPT ![ref[w]].hist = h, ![ref[w]].active = t]
               \in [Objs -> Session \cup {Freed}]
         /\ [sess EXCEPT ![ref[w]].hist = h] \in [Objs -> Session \cup {Freed}]
         /\ [sess EXCEPT ![ref[w]].active = t] \in [Objs -> Session \cup {Freed}]
         /\ [sess EXCEPT ![ref[w]].created = TRUE] \in [Objs -> Session \cup {Freed}]
<1>1. ref[w] \in Objs /\ sess[ref[w]] \in Session
  BY RefIsSession
<1>2. sess \in [Objs -> Session \cup {Freed}]
  BY DEF Inv, TypeOK
<1>. QED  BY <1>1, <1>2 DEF Session

LEMMA TypeEdit ==
  ASSUME Inv, NEW w \in Workers, Edit(w)
  PROVE  TypeOK'
<1>0. TypeOK /\ w \in Threads /\ ref[w] # None /\ req[w] \in Requests
  BY DEF Inv, Threads, SessionOwner, ServesItsRequest, UsePCs, Edit, AppendTurn,
         ReplaceHistory, ResetSession, BadParams
<1>1. req[w].msgs \in Seq(Roles) /\ sess[ref[w]].hist \in Seq(Roles) /\ <<>> \in Seq(Roles)
  BY <1>0, RequestFields, RefIsSession DEF Session
<1>2. sess[ref[w]].hist \o req[w].msgs \in Seq(Roles)
  BY <1>1
<1>3. sess' \in [Objs -> Session \cup {Freed}]
  <2>0. now \in Nat
    BY <1>0 DEF TypeOK
  <2>1. CASE AppendTurn(w)
    BY <1>0, <1>2, <2>0, <2>1, SessionUpdate DEF AppendTurn
  <2>2. CASE ReplaceHistory(w)
    BY <1>0, <1>1, <2>0, <2>2, SessionUpdate DEF ReplaceHistory
  <2>3. CASE ResetSession(w)
    BY <1>0, <1>1, <2>0, <2>3, SessionUpdate DEF ResetSession
  <2>4. CASE BadParams(w)
    BY <1>0, <2>4 DEF BadParams, TypeOK
  <2>. QED  BY <2>1, <2>2, <2>3, <2>4 DEF Edit
<1>4. Finish(w, "ok") \/ Finish(w, "error")
  BY DEF Edit, AppendTurn, ReplaceHistory, ResetSession, BadParams
<1>. QED
  BY <1>0, <1>3, <1>4
     DEF Finish, TypeOK, PCs, modelVars, clockVars, Goto, Answer

LEMMA TypeGenerate ==
  ASSUME Inv, NEW w \in Workers, Generate(w)
  PROVE  TypeOK'
<1>0. TypeOK /\ SessionOwner /\ ServesItsRequest /\ w \in Threads /\ now \in Nat
  BY DEF Inv, Threads, TypeOK
<1>1. CASE GenNoModel(w)
  BY <1>0, <1>1 DEF GenNoModel, TypeOK, PCs, modelVars, clockVars, tableVars, Goto, Answer
<1>2. CASE GenEngine(w)
  BY <1>0, <1>2 DEF GenEngine, TypeOK, PCs, modelVars, clockVars, tableVars, locals, Goto
<1>3. ASSUME pc[w] \in UsePCs
      PROVE  /\ ref[w] # None /\ ref[w] \in Objs /\ sess[ref[w]] \in Session
             /\ sess[ref[w]].hist \in Seq(Roles) /\ sess[ref[w]].id \in Ids
  <2>1. ref[w] # None
    BY <1>0, <1>3 DEF SessionOwner
  <2>. QED  BY <2>1, RefIsSession DEF Session
<1>4. CASE GenStart(w)
  <2>1. ref[w] # None /\ sess[ref[w]].hist \in Seq(Roles) /\ sess[ref[w]].id \in Ids
    BY <1>3, <1>4 DEF GenStart, UsePCs
  <2>2. sess' \in [Objs -> Session \cup {Freed}]
    BY <1>0, <1>4, <2>1, SessionUpdate DEF GenStart
  <2>3. provider' \in SUBSET Ids /\ prompt' \in [Workers -> Seq(Roles)]
    BY <1>0, <1>4, <2>1 DEF GenStart, TypeOK
  <2>. QED
    BY <1>0, <1>4, <2>2, <2>3 DEF GenStart, TypeOK, PCs, modelVars, clockVars, Goto
<1>5. CASE GenDone(w)
  <2>1. ref[w] # None /\ sess[ref[w]].hist \in Seq(Roles)
    BY <1>3, <1>5 DEF GenDone, UsePCs
  <2>2. sess' \in [Objs -> Session \cup {Freed}]
    BY <1>0, <1>5, <2>1, SessionUpdate DEF GenDone
  <2>. QED  BY <1>0, <1>5, <2>2 DEF GenDone, TypeOK, PCs, modelVars, clockVars, Goto
<1>6. CASE GenFail(w)
  <2>1. prompt' \in [Workers -> Seq(Roles)] /\ mutex' \in [Objs -> Threads \cup {None}]
    BY <1>0, <1>6, <<>> \in Seq(Roles) DEF GenFail, TypeOK
  <2>. QED
    BY <1>0, <1>6, <2>1
       DEF GenFail, TypeOK, PCs, modelVars, clockVars, tableVars, Goto, Answer
<1>7. CASE GenSend(w)
  BY <1>0, <1>7 DEF GenSend, TypeOK, PCs, modelVars, clockVars, tableVars, Goto
<1>8. CASE GenAppend(w)
  <2>1. ref[w] # None /\ sess[ref[w]].hist \in Seq(Roles) /\ req[w].msgs \in Seq(Roles)
    BY <1>0, <1>3, <1>8, RequestFields DEF GenAppend, UsePCs, ServesItsRequest
  <2>2. sess[ref[w]].hist \o req[w].msgs \in Seq(Roles)
    BY <2>1
  <2>3. sess' \in [Objs -> Session \cup {Freed}]
    BY <1>0, <1>8, <2>1, <2>2, SessionUpdate DEF GenAppend
  <2>4. prompt' \in [Workers -> Seq(Roles)] /\ mutex' \in [Objs -> Threads \cup {None}]
    BY <1>0, <1>8, <<>> \in Seq(Roles) DEF GenAppend, TypeOK
  <2>. QED
    BY <1>0, <1>8, <2>3, <2>4 DEF GenAppend, TypeOK, PCs, modelVars, clockVars, Goto
<1>. QED  BY <1>1, <1>2, <1>4, <1>5, <1>6, <1>7, <1>8 DEF Generate

LEMMA TypeClose ==
  ASSUME Inv, NEW w \in Workers, Close(w)
  PROVE  TypeOK'
<1>0. TypeOK /\ NoUseAfterFree /\ w \in Threads
  BY DEF Inv, Threads
<1>1. CASE CloseMiss(w)
  BY <1>0, <1>1 DEF CloseMiss, TypeOK, PCs, modelVars, clockVars, tableVars, Goto, Answer
<1>2. CASE CloseHit(w)
  <2>1. idx' \in [Threads -> Nat]
    BY <1>0, <1>2 DEF CloseHit, Has, TypeOK
  <2>. QED
    BY <1>0, <1>2, <2>1 DEF CloseHit, TypeOK, PCs, modelVars, clockVars, tableVars, Goto
<1>3. CASE CloseRemove(w)
  <2>1. idx[w] \in DOMAIN table
    BY <1>0, <1>3 DEF CloseRemove, NoUseAfterFree
  <2>. QED
    BY <1>0, <1>3, <2>1, RemoveAtTypes
       DEF CloseRemove, TypeOK, PCs, modelVars, clockVars, Goto, Answer
<1>. QED  BY <1>1, <1>2, <1>3 DEF Close

LEMMA TypeLoad ==
  ASSUME Inv, NEW w \in Workers, Load(w)
  PROVE  TypeOK'
<1>0. TypeOK /\ ServesItsRequest /\ w \in Threads
  BY DEF Inv, Threads
<1>. USE DEF modelVars, clockVars, tableVars, locals, Goto, Answer
<1>1. CASE LoadEngine(w)
  BY <1>0, <1>1 DEF LoadEngine, TypeOK, PCs
<1>2. CASE LoadLock(w)
  <2>1. sessionsMutex' \in Threads \cup {None} /\ pc' \in [Threads -> PCs]
    BY <1>0, <1>2 DEF LoadLock, TypeOK, PCs
  <2>. QED  BY <1>0, <1>2, <2>1 DEF LoadLock, TypeOK
<1>3. CASE LoadClear(w)
  <2>1. 1 \in DOMAIN table
    BY <1>0, <1>3 DEF LoadClear, TypeOK
  <2>. QED  BY <1>0, <1>3, <2>1, RemoveAtTypes DEF LoadClear, TypeOK
<1>4. CASE LoadClose(w)
  BY <1>0, <1>4 DEF LoadClose, TypeOK, PCs
<1>5. CASE LoadOpen(w)
  <2>1. req[w].ctx \in Nat
    BY <1>0, <1>5, RequestFields DEF LoadOpen, ServesItsRequest
  <2>. QED  BY <1>0, <1>5, <2>1 DEF LoadOpen, TypeOK, PCs
<1>6. CASE LoadVocab(w)
  BY <1>0, <1>6 DEF LoadVocab, TypeOK, PCs
<1>7. CASE LoadFail(w)
  BY <1>0, <1>7 DEF LoadFail, TypeOK, PCs
<1>. QED  BY <1>1, <1>2, <1>3, <1>4, <1>5, <1>6, <1>7 DEF Load

LEMMA TypeHealth ==
  ASSUME TypeOK, NEW w \in Workers, Health(w)
  PROVE  TypeOK'
BY DEF Health, HealthSessions, HealthEngine, TypeOK, PCs, Threads, modelVars, clockVars,
       tableVars, locals, Goto, Answer

LEMMA TypeReap ==
  ASSUME Inv, Reap
  PROVE  TypeOK'
<1>0. TypeOK /\ ScanIndex /\ Reaper \in Threads
  BY DEF Inv, Threads
<1>. USE DEF modelVars, clockVars, tableVars, locals, Goto
<1>1. CASE ReapLock
  <2>1. pc' \in [Threads -> PCs] /\ idx' \in [Threads -> Nat] /\ idle' \in SUBSET Objs
    BY <1>0, <1>1 DEF ReapLock, TypeOK, PCs
  <2>. QED  BY <1>0, <1>1, <2>1 DEF ReapLock, TypeOK
<1>2. CASE ReapKeep
  BY <1>0, <1>2 DEF ReapKeep, TypeOK, PCs
<1>3. CASE ReapRemove
  <2>1. idx[Reaper] \in DOMAIN table
    BY <1>0, <1>3 DEF ReapRemove, ScanIndex, TypeOK
  <2>. QED  BY <1>0, <1>3, <2>1, RemoveAtTypes DEF ReapRemove, TypeOK
<1>4. CASE ReapEnd
  BY <1>0, <1>4 DEF ReapEnd, TypeOK, PCs
<1>. QED  BY <1>1, <1>2, <1>3, <1>4 DEF Reap

LEMMA TypeReceive ==
  ASSUME TypeOK, NEW w \in Workers, Receive(w) \/ Reply(w)
  PROVE  TypeOK'
<1>0. w \in Threads
  BY DEF Threads
<1>1. \A op : Entry(op) \in PCs
  BY DEF Entry, PCs
<1>2. CASE Receive(w)
  <2>1. pc' \in [Threads -> PCs] /\ req' \in [Workers -> Requests \cup {NoRequest}]
    BY <1>0, <1>1, <1>2 DEF Receive, TypeOK, Goto
  <2>. QED  BY <1>0, <1>2, <2>1 DEF Receive, TypeOK, modelVars, clockVars, tableVars
<1>3. CASE Reply(w)
  BY <1>0, <1>3 DEF Reply, TypeOK, PCs, modelVars, clockVars, tableVars, Goto
<1>. QED  BY <1>2, <1>3

LEMMA TypeNext == Inv /\ [Next]_vars => TypeOK'
<1>. SUFFICES ASSUME Inv, [Next]_vars PROVE TypeOK'
  OBVIOUS
<1>0. TypeOK
  BY DEF Inv
<1>1. ASSUME NEW w \in Workers, Receive(w) \/ Serve(w) PROVE TypeOK'
  BY <1>0, <1>1, TypeCreate, TypeFind, TypeEdit, TypeGenerate, TypeClose, TypeLoad, TypeHealth,
     TypeReceive DEF Serve
<1>2. CASE Tick
  BY <1>0, <1>2 DEF Tick, TypeOK, modelVars, tableVars, locals
<1>3. CASE UNCHANGED vars
  BY <1>0, <1>3 DEF TypeOK, vars, modelVars, tableVars, clockVars, locals
<1>. QED  BY <1>1, <1>2, <1>3, TypeReap DEF Next

-----------------------------------------------------------------------------
(* Who holds which mutex is read off the program counters, and every request *)
(* is served at the program points of its own handler.                       *)

(* A worker's program point and its request stay matched. *)
LEMMA ServesItsRequestNext == Inv /\ [Next]_vars => ServesItsRequest'
<1>. SUFFICES ASSUME Inv, [Next]_vars PROVE ServesItsRequest'
  OBVIOUS
<1>0. TypeOK /\ ServesItsRequest
  BY DEF Inv
<1>p. /\ pc \in [Threads -> PCs] /\ req \in [Workers -> Requests \cup {NoRequest}]
      /\ Workers \subseteq Threads /\ Reaper \notin Workers /\ ServesItsRequest
  BY <1>0, ThreadsAssumption DEF TypeOK, Threads
<1>. USE DEF ServesItsRequest, Goto, Answer, locals, Finds, AllOps, NoRequest
<1>1. ASSUME NEW w \in Workers, Create(w) PROVE ServesItsRequest'
  <2>1. CASE CreateLock(w)
    <3>1. \/ pc' = [pc EXCEPT ![w] = "c_scan"]
          \/ pc' = [pc EXCEPT ![w] = "c_find"]
      BY <2>1 DEF CreateLock
    <3>2. req' = req /\ pc[w] = "c_lock"
      BY <2>1 DEF CreateLock
    <3>. QED  BY <1>p, <3>1, <3>2
  <2>2. CASE CreateScan(w)
    BY <1>p, <2>2 DEF CreateScan
  <2>3. CASE CreateLimit(w)
    BY <1>p, <2>3 DEF CreateLimit
  <2>4. CASE CreateEvict(w)
    BY <1>p, <2>4 DEF CreateEvict
  <2>5. CASE CreateReplace(w)
    BY <1>p, <2>5 DEF CreateReplace
  <2>6. CASE CreateNew(w)
    BY <1>p, <2>6 DEF CreateNew, IdIsFree
  <2>7. CASE CreateOutOfMemory(w)
    BY <1>p, <2>7 DEF CreateOutOfMemory, IdIsFree
  <2>8. CASE CreateSetup(w)
    BY <1>p, <2>8 DEF CreateSetup
  <2>. QED  BY <1>1, <2>1, <2>2, <2>3, <2>4, <2>5, <2>6, <2>7, <2>8 DEF Create
<1>2. ASSUME NEW w \in Workers, Find(w) PROVE ServesItsRequest'
  <2>1. CASE FindMiss(w)
    BY <1>p, <2>1 DEF FindMiss
  <2>2. CASE FindHit(w)
    BY <1>p, <2>2 DEF FindHit
  <2>3. CASE FindAcquire(w)
    BY <1>p, <2>3 DEF FindAcquire
  <2>. QED  BY <1>2, <2>1, <2>2, <2>3 DEF Find
<1>3. ASSUME NEW w \in Workers, Edit(w) PROVE ServesItsRequest'
  <2>1. CASE AppendTurn(w)
    BY <1>p, <2>1 DEF AppendTurn, Finish
  <2>2. CASE ReplaceHistory(w)
    BY <1>p, <2>2 DEF ReplaceHistory, Finish
  <2>3. CASE ResetSession(w)
    BY <1>p, <2>3 DEF ResetSession, Finish
  <2>4. CASE BadParams(w)
    BY <1>p, <2>4 DEF BadParams, Finish
  <2>. QED  BY <1>3, <2>1, <2>2, <2>3, <2>4 DEF Edit
<1>4. ASSUME NEW w \in Workers, Generate(w) PROVE ServesItsRequest'
  <2>1. CASE GenNoModel(w)
    BY <1>p, <2>1 DEF GenNoModel
  <2>2. CASE GenEngine(w)
    BY <1>p, <2>2 DEF GenEngine
  <2>3. CASE GenStart(w)
    BY <1>p, <2>3 DEF GenStart
  <2>4. CASE GenDone(w)
    BY <1>p, <2>4 DEF GenDone
  <2>5. CASE GenFail(w)
    BY <1>p, <2>5 DEF GenFail
  <2>6. CASE GenSend(w)
    BY <1>p, <2>6 DEF GenSend
  <2>7. CASE GenAppend(w)
    <3>1. pc' = [pc EXCEPT ![w] = "idle"] /\ req' = [req EXCEPT ![w] = NoRequest]
      BY <2>7 DEF GenAppend
    <3>. QED  BY <1>p, <3>1
  <2>. QED  BY <1>4, <2>1, <2>2, <2>3, <2>4, <2>5, <2>6, <2>7 DEF Generate
<1>5. ASSUME NEW w \in Workers, Close(w) PROVE ServesItsRequest'
  <2>1. CASE CloseMiss(w)
    BY <1>p, <2>1 DEF CloseMiss
  <2>2. CASE CloseHit(w)
    BY <1>p, <2>2 DEF CloseHit
  <2>3. CASE CloseRemove(w)
    BY <1>p, <2>3 DEF CloseRemove
  <2>. QED  BY <1>5, <2>1, <2>2, <2>3 DEF Close
<1>6. ASSUME NEW w \in Workers, Load(w) PROVE ServesItsRequest'
  <2>1. CASE LoadEngine(w)
    BY <1>p, <2>1 DEF LoadEngine
  <2>2. CASE LoadLock(w)
    <3>1. \/ pc' = [pc EXCEPT ![w] = "l_open"]
          \/ pc' = [pc EXCEPT ![w] = "l_clear"]
      BY <2>2 DEF LoadLock
    <3>2. req' = req /\ pc[w] = "l_lock"
      BY <2>2 DEF LoadLock
    <3>. QED  BY <1>p, <3>1, <3>2
  <2>3. CASE LoadClear(w)
    BY <1>p, <2>3 DEF LoadClear
  <2>4. CASE LoadClose(w)
    BY <1>p, <2>4 DEF LoadClose
  <2>5. CASE LoadOpen(w)
    BY <1>p, <2>5 DEF LoadOpen
  <2>6. CASE LoadVocab(w)
    BY <1>p, <2>6 DEF LoadVocab
  <2>7. CASE LoadFail(w)
    BY <1>p, <2>7 DEF LoadFail
  <2>. QED  BY <1>6, <2>1, <2>2, <2>3, <2>4, <2>5, <2>6, <2>7 DEF Load
<1>7. ASSUME NEW w \in Workers, Health(w) PROVE ServesItsRequest'
  <2>1. CASE HealthSessions(w)
    BY <1>p, <2>1 DEF HealthSessions
  <2>2. CASE HealthEngine(w)
    BY <1>p, <2>2 DEF HealthEngine
  <2>. QED  BY <1>7, <2>1, <2>2 DEF Health
<1>8. ASSUME NEW w \in Workers, Receive(w) PROVE ServesItsRequest'
  <2>1. PICK r \in Requests :
          req' = [req EXCEPT ![w] = r] /\ pc' = [pc EXCEPT ![w] = Entry(r.op)]
    BY <1>8 DEF Receive, Goto
  <2>2. r.op \in AllOps
    BY RequestFields
  <2>3. CASE Entry(r.op) = "h_lock"
    <3>1. r.op = "health"
      BY <2>2, <2>3 DEF Entry, AllOps
    <3>. QED  BY <1>p, <2>1, <2>3, <3>1
  <2>4. CASE Entry(r.op) # "h_lock"
    BY <1>p, <2>1, <2>2, <2>4 DEF Entry, AllOps, Finds
  <2>. QED  BY <2>3, <2>4
<1>9. ASSUME NEW w \in Workers, Reply(w) PROVE ServesItsRequest'
  BY <1>p, <1>9 DEF Reply
<1>10. CASE ReapLock
  BY <1>p, <1>10 DEF ReapLock
<1>11. CASE ReapKeep
  BY <1>p, <1>11 DEF ReapKeep
<1>12. CASE ReapRemove
  BY <1>p, <1>12 DEF ReapRemove
<1>13. CASE ReapEnd
  BY <1>p, <1>13 DEF ReapEnd
<1>14. CASE Tick
  BY <1>p, <1>14 DEF Tick
<1>15. CASE UNCHANGED vars
  BY <1>p, <1>15 DEF vars
<1>. QED  BY <1>1, <1>2, <1>3, <1>4, <1>5, <1>6, <1>7, <1>8, <1>9, <1>10, <1>11, <1>12, <1>13, <1>14, <1>15 DEF Next, Serve, Reap

(* sessions_mutex is held exactly at the program points of TablePCs. *)
LEMMA TableOwnerNext == Inv /\ [Next]_vars => TableOwner'
<1>. SUFFICES ASSUME Inv, [Next]_vars PROVE TableOwner'
  OBVIOUS
<1>0. TypeOK /\ TableOwner
  BY DEF Inv
<1>p. /\ pc \in [Threads -> PCs] /\ req \in [Workers -> Requests \cup {NoRequest}]
      /\ Workers \subseteq Threads /\ Reaper \in Threads /\ Reaper \notin Workers
      /\ None \notin Threads
  BY <1>0, ThreadsAssumption DEF TypeOK, Threads
<1>. USE DEF TableOwner, TablePCs, Goto, Answer, locals
<1>1. ASSUME NEW w \in Workers, Create(w) PROVE TableOwner'
  <2>1. CASE CreateLock(w)
    BY <1>0, <1>p, <2>1 DEF CreateLock
  <2>2. CASE CreateScan(w)
    BY <1>0, <1>p, <2>2 DEF CreateScan
  <2>3. CASE CreateLimit(w)
    BY <1>0, <1>p, <2>3 DEF CreateLimit
  <2>4. CASE CreateEvict(w)
    BY <1>0, <1>p, <2>4 DEF CreateEvict
  <2>5. CASE CreateReplace(w)
    BY <1>0, <1>p, <2>5 DEF CreateReplace
  <2>6. CASE CreateNew(w)
    BY <1>0, <1>p, <2>6 DEF CreateNew, IdIsFree
  <2>7. CASE CreateOutOfMemory(w)
    BY <1>0, <1>p, <2>7 DEF CreateOutOfMemory, IdIsFree
  <2>8. CASE CreateSetup(w)
    BY <1>0, <1>p, <2>8 DEF CreateSetup
  <2>. QED  BY <1>1, <2>1, <2>2, <2>3, <2>4, <2>5, <2>6, <2>7, <2>8 DEF Create
<1>2. ASSUME NEW w \in Workers, Find(w) PROVE TableOwner'
  <2>1. CASE FindMiss(w)
    BY <1>0, <1>p, <2>1 DEF FindMiss
  <2>2. CASE FindHit(w)
    BY <1>0, <1>p, <2>2 DEF FindHit
  <2>3. CASE FindAcquire(w)
    BY <1>0, <1>p, <2>3 DEF FindAcquire
  <2>. QED  BY <1>2, <2>1, <2>2, <2>3 DEF Find
<1>3. ASSUME NEW w \in Workers, Edit(w) PROVE TableOwner'
  <2>1. CASE AppendTurn(w)
    BY <1>0, <1>p, <2>1 DEF AppendTurn, Finish
  <2>2. CASE ReplaceHistory(w)
    BY <1>0, <1>p, <2>2 DEF ReplaceHistory, Finish
  <2>3. CASE ResetSession(w)
    BY <1>0, <1>p, <2>3 DEF ResetSession, Finish
  <2>4. CASE BadParams(w)
    BY <1>0, <1>p, <2>4 DEF BadParams, Finish
  <2>. QED  BY <1>3, <2>1, <2>2, <2>3, <2>4 DEF Edit
<1>4. ASSUME NEW w \in Workers, Generate(w) PROVE TableOwner'
  <2>1. CASE GenNoModel(w)
    BY <1>0, <1>p, <2>1 DEF GenNoModel
  <2>2. CASE GenEngine(w)
    BY <1>0, <1>p, <2>2 DEF GenEngine
  <2>3. CASE GenStart(w)
    BY <1>0, <1>p, <2>3 DEF GenStart
  <2>4. CASE GenDone(w)
    BY <1>0, <1>p, <2>4 DEF GenDone
  <2>5. CASE GenFail(w)
    BY <1>0, <1>p, <2>5 DEF GenFail
  <2>6. CASE GenSend(w)
    BY <1>0, <1>p, <2>6 DEF GenSend
  <2>7. CASE GenAppend(w)
    BY <1>0, <1>p, <2>7 DEF GenAppend
  <2>. QED  BY <1>4, <2>1, <2>2, <2>3, <2>4, <2>5, <2>6, <2>7 DEF Generate
<1>5. ASSUME NEW w \in Workers, Close(w) PROVE TableOwner'
  <2>1. CASE CloseMiss(w)
    BY <1>0, <1>p, <2>1 DEF CloseMiss
  <2>2. CASE CloseHit(w)
    BY <1>0, <1>p, <2>2 DEF CloseHit
  <2>3. CASE CloseRemove(w)
    BY <1>0, <1>p, <2>3 DEF CloseRemove
  <2>. QED  BY <1>5, <2>1, <2>2, <2>3 DEF Close
<1>6. ASSUME NEW w \in Workers, Load(w) PROVE TableOwner'
  <2>1. CASE LoadEngine(w)
    BY <1>0, <1>p, <2>1 DEF LoadEngine
  <2>2. CASE LoadLock(w)
    BY <1>0, <1>p, <2>2 DEF LoadLock
  <2>3. CASE LoadClear(w)
    BY <1>0, <1>p, <2>3 DEF LoadClear
  <2>4. CASE LoadClose(w)
    BY <1>0, <1>p, <2>4 DEF LoadClose
  <2>5. CASE LoadOpen(w)
    BY <1>0, <1>p, <2>5 DEF LoadOpen
  <2>6. CASE LoadVocab(w)
    BY <1>0, <1>p, <2>6 DEF LoadVocab
  <2>7. CASE LoadFail(w)
    BY <1>0, <1>p, <2>7 DEF LoadFail
  <2>. QED  BY <1>6, <2>1, <2>2, <2>3, <2>4, <2>5, <2>6, <2>7 DEF Load
<1>7. ASSUME NEW w \in Workers, Health(w) PROVE TableOwner'
  <2>1. CASE HealthSessions(w)
    BY <1>0, <1>p, <2>1 DEF HealthSessions
  <2>2. CASE HealthEngine(w)
    BY <1>0, <1>p, <2>2 DEF HealthEngine
  <2>. QED  BY <1>7, <2>1, <2>2 DEF Health
<1>8. ASSUME NEW w \in Workers, Receive(w) PROVE TableOwner'
  <2>1. PICK r \in Requests : req' = [req EXCEPT ![w] = r] /\ pc' = [pc EXCEPT ![w] = Entry(r.op)]
    BY <1>8 DEF Receive
  <2>2. Entry(r.op) \in {"c_lock", "e_lock", "f_lock", "x_lock", "h_lock"}
        /\ (Entry(r.op) = "f_lock" => r.op # "generate")
    BY DEF Entry
  <2>3. pc[w] = "idle" /\ UNCHANGED <<engineMutex, sessionsMutex>>
    BY <1>8 DEF Receive
  <2>4. /\ pc'[w] = Entry(r.op) /\ req'[w] = r
        /\ \A t \in Threads \ {w} : pc'[t] = pc[t]
        /\ \A v \in Workers \ {w} : req'[v] = req[v]
    BY <1>p, <2>1
  <2>. QED  BY <1>0, <1>p, <2>2, <2>3, <2>4
<1>9. ASSUME NEW w \in Workers, Reply(w) PROVE TableOwner'
  BY <1>0, <1>p, <1>9 DEF Reply
<1>10. CASE ReapLock
  BY <1>0, <1>p, <1>10 DEF ReapLock
<1>11. CASE ReapKeep
  BY <1>0, <1>p, <1>11 DEF ReapKeep
<1>12. CASE ReapRemove
  BY <1>0, <1>p, <1>12 DEF ReapRemove
<1>13. CASE ReapEnd
  BY <1>0, <1>p, <1>13 DEF ReapEnd
<1>14. CASE Tick
  BY <1>0, <1>p, <1>14 DEF Tick
<1>15. CASE UNCHANGED vars
  BY <1>0, <1>p, <1>15 DEF vars
<1>. QED  BY <1>1, <1>2, <1>3, <1>4, <1>5, <1>6, <1>7, <1>8, <1>9, <1>10, <1>11, <1>12, <1>13, <1>14, <1>15 DEF Next, Serve, Reap

(* engine_mutex is held exactly while UsesEngine. *)
LEMMA EngineOwnerNext == Inv /\ [Next]_vars => EngineOwner'
<1>. SUFFICES ASSUME Inv, [Next]_vars PROVE EngineOwner'
  OBVIOUS
<1>0. TypeOK /\ EngineOwner /\ ServesItsRequest
  BY DEF Inv
<1>p. /\ pc \in [Threads -> PCs] /\ req \in [Workers -> Requests \cup {NoRequest}]
      /\ Workers \subseteq Threads /\ Reaper \in Threads /\ Reaper \notin Workers
      /\ None \notin Threads
  BY <1>0, ThreadsAssumption DEF TypeOK, Threads
<1>. USE DEF EngineOwner, UsesEngine, ServesItsRequest, Goto, Answer, locals, NoRequest
<1>1. ASSUME NEW w \in Workers, Create(w) PROVE EngineOwner'
  <2>1. CASE CreateLock(w)
    BY <1>0, <1>p, <2>1 DEF CreateLock
  <2>2. CASE CreateScan(w)
    BY <1>0, <1>p, <2>2 DEF CreateScan
  <2>3. CASE CreateLimit(w)
    BY <1>0, <1>p, <2>3 DEF CreateLimit
  <2>4. CASE CreateEvict(w)
    BY <1>0, <1>p, <2>4 DEF CreateEvict
  <2>5. CASE CreateReplace(w)
    BY <1>0, <1>p, <2>5 DEF CreateReplace
  <2>6. CASE CreateNew(w)
    BY <1>0, <1>p, <2>6 DEF CreateNew, IdIsFree
  <2>7. CASE CreateOutOfMemory(w)
    BY <1>0, <1>p, <2>7 DEF CreateOutOfMemory, IdIsFree
  <2>8. CASE CreateSetup(w)
    BY <1>0, <1>p, <2>8 DEF CreateSetup
  <2>. QED  BY <1>1, <2>1, <2>2, <2>3, <2>4, <2>5, <2>6, <2>7, <2>8 DEF Create
<1>2. ASSUME NEW w \in Workers, Find(w) PROVE EngineOwner'
  <2>1. CASE FindMiss(w)
    BY <1>0, <1>p, <2>1 DEF FindMiss
  <2>2. CASE FindHit(w)
    BY <1>0, <1>p, <2>2 DEF FindHit
  <2>3. CASE FindAcquire(w)
    BY <1>0, <1>p, <2>3 DEF FindAcquire
  <2>. QED  BY <1>2, <2>1, <2>2, <2>3 DEF Find
<1>3. ASSUME NEW w \in Workers, Edit(w) PROVE EngineOwner'
  <2>1. CASE AppendTurn(w)
    BY <1>0, <1>p, <2>1 DEF AppendTurn, Finish
  <2>2. CASE ReplaceHistory(w)
    BY <1>0, <1>p, <2>2 DEF ReplaceHistory, Finish
  <2>3. CASE ResetSession(w)
    BY <1>0, <1>p, <2>3 DEF ResetSession, Finish
  <2>4. CASE BadParams(w)
    BY <1>0, <1>p, <2>4 DEF BadParams, Finish
  <2>. QED  BY <1>3, <2>1, <2>2, <2>3, <2>4 DEF Edit
<1>4. ASSUME NEW w \in Workers, Generate(w) PROVE EngineOwner'
  <2>1. CASE GenNoModel(w)
    BY <1>0, <1>p, <2>1 DEF GenNoModel
  <2>2. CASE GenEngine(w)
    BY <1>0, <1>p, <2>2 DEF GenEngine
  <2>3. CASE GenStart(w)
    BY <1>0, <1>p, <2>3 DEF GenStart
  <2>4. CASE GenDone(w)
    BY <1>0, <1>p, <2>4 DEF GenDone
  <2>5. CASE GenFail(w)
    BY <1>0, <1>p, <2>5 DEF GenFail
  <2>6. CASE GenSend(w)
    BY <1>0, <1>p, <2>6 DEF GenSend
  <2>7. CASE GenAppend(w)
    BY <1>0, <1>p, <2>7 DEF GenAppend
  <2>. QED  BY <1>4, <2>1, <2>2, <2>3, <2>4, <2>5, <2>6, <2>7 DEF Generate
<1>5. ASSUME NEW w \in Workers, Close(w) PROVE EngineOwner'
  <2>1. CASE CloseMiss(w)
    BY <1>0, <1>p, <2>1 DEF CloseMiss
  <2>2. CASE CloseHit(w)
    BY <1>0, <1>p, <2>2 DEF CloseHit
  <2>3. CASE CloseRemove(w)
    BY <1>0, <1>p, <2>3 DEF CloseRemove
  <2>. QED  BY <1>5, <2>1, <2>2, <2>3 DEF Close
<1>6. ASSUME NEW w \in Workers, Load(w) PROVE EngineOwner'
  <2>1. CASE LoadEngine(w)
    BY <1>0, <1>p, <2>1 DEF LoadEngine
  <2>2. CASE LoadLock(w)
    BY <1>0, <1>p, <2>2 DEF LoadLock
  <2>3. CASE LoadClear(w)
    BY <1>0, <1>p, <2>3 DEF LoadClear
  <2>4. CASE LoadClose(w)
    BY <1>0, <1>p, <2>4 DEF LoadClose
  <2>5. CASE LoadOpen(w)
    BY <1>0, <1>p, <2>5 DEF LoadOpen
  <2>6. CASE LoadVocab(w)
    BY <1>0, <1>p, <2>6 DEF LoadVocab
  <2>7. CASE LoadFail(w)
    BY <1>0, <1>p, <2>7 DEF LoadFail
  <2>. QED  BY <1>6, <2>1, <2>2, <2>3, <2>4, <2>5, <2>6, <2>7 DEF Load
<1>7. ASSUME NEW w \in Workers, Health(w) PROVE EngineOwner'
  <2>1. CASE HealthSessions(w)
    BY <1>0, <1>p, <2>1 DEF HealthSessions
  <2>2. CASE HealthEngine(w)
    BY <1>0, <1>p, <2>2 DEF HealthEngine
  <2>. QED  BY <1>7, <2>1, <2>2 DEF Health
<1>8. ASSUME NEW w \in Workers, Receive(w) PROVE EngineOwner'
  <2>1. PICK r \in Requests : req' = [req EXCEPT ![w] = r] /\ pc' = [pc EXCEPT ![w] = Entry(r.op)]
    BY <1>8 DEF Receive
  <2>2. Entry(r.op) \in {"c_lock", "e_lock", "f_lock", "x_lock", "h_lock"}
        /\ (Entry(r.op) = "f_lock" => r.op # "generate")
    BY DEF Entry
  <2>3. pc[w] = "idle" /\ UNCHANGED <<engineMutex, sessionsMutex>>
    BY <1>8 DEF Receive
  <2>4. /\ pc'[w] = Entry(r.op) /\ req'[w] = r
        /\ \A t \in Threads \ {w} : pc'[t] = pc[t]
        /\ \A v \in Workers \ {w} : req'[v] = req[v]
    BY <1>p, <2>1
  <2>. QED  BY <1>0, <1>p, <2>2, <2>3, <2>4
<1>9. ASSUME NEW w \in Workers, Reply(w) PROVE EngineOwner'
  BY <1>0, <1>p, <1>9 DEF Reply
<1>10. CASE ReapLock
  BY <1>0, <1>p, <1>10 DEF ReapLock
<1>11. CASE ReapKeep
  BY <1>0, <1>p, <1>11 DEF ReapKeep
<1>12. CASE ReapRemove
  BY <1>0, <1>p, <1>12 DEF ReapRemove
<1>13. CASE ReapEnd
  BY <1>0, <1>p, <1>13 DEF ReapEnd
<1>14. CASE Tick
  BY <1>0, <1>p, <1>14 DEF Tick
<1>15. CASE UNCHANGED vars
  BY <1>0, <1>p, <1>15 DEF vars
<1>. QED  BY <1>1, <1>2, <1>3, <1>4, <1>5, <1>6, <1>7, <1>8, <1>9, <1>10, <1>11, <1>12, <1>13, <1>14, <1>15 DEF Next, Serve, Reap

-----------------------------------------------------------------------------
(* Which thread may remove an entry, and what a removal leaves.             *)
(* At most one thread is at a program point that owns sessions_mutex. *)
LEMMA OneTableOwner ==
  ASSUME Inv, NEW s \in Threads, NEW t \in Threads, pc[s] \in TablePCs, pc[t] \in TablePCs
  PROVE  s = t
BY DEF Inv, TableOwner

(* A thread that owns sessions_mutex may remove an entry whose session mutex *)
(* nobody else holds: no worker refers to that session, since one that uses  *)
(* it holds its mutex and one that waits for it owns sessions_mutex; and no  *)
(* other worker has an eviction candidate.                                   *)
LEMMA RemovalIsSafe ==
  ASSUME Inv, NEW t \in Threads, pc[t] \in TablePCs \ {"f_wait"},
         NEW i \in DOMAIN table, mutex[table[i]] \in {None, t}
  PROVE  \A w \in Workers : ref[w] # table[i] /\ (w # t => best[w] = 0)
<1>. TAKE w \in Workers
<1>0. w \in Threads /\ w # None /\ TypeOK /\ SessionOwner /\ TableOwner
  BY ThreadsAssumption DEF Inv, Threads
<1>1. ASSUME ref[w] = table[i] PROVE FALSE
  <2>1. ref[w] # None
    BY <1>0, <1>1, ObjsAssumption DEF TypeOK
  <2>2. CASE pc[w] = "f_wait"
    <3>1. w = t
      BY <1>0, <2>2, OneTableOwner DEF TablePCs
    <3>. QED  BY <2>2, <3>1
  <2>3. CASE pc[w] \in UsePCs
    <3>1. w = t
      BY <1>0, <1>1, <2>3 DEF SessionOwner
    <3>. QED  BY <2>3, <3>1 DEF UsePCs, TablePCs
  <2>. QED  BY <1>0, <2>1, <2>2, <2>3 DEF SessionOwner
<1>2. ASSUME w # t PROVE best[w] = 0
  <2>1. best[w] \in Nat
    BY <1>0 DEF TypeOK
  <2>2. ASSUME best[w] > 0 PROVE FALSE
    <3>1. pc[w] = "c_scan"
      BY <1>0, <2>2 DEF SessionOwner
    <3>. QED  BY <1>0, <1>2, <3>1, OneTableOwner DEF TablePCs
  <2>. QED  BY <2>1, <2>2
<1>. QED  BY <1>1, <1>2

(* RemoveAt(i) leaves exactly the other entries, once each, untouched. *)
LEMMA RemoveAtEffect ==
  ASSUME Inv, NEW i \in DOMAIN table, RemoveAt(i)
  PROVE  /\ \A j \in DOMAIN table' : \E k \in DOMAIN table : k # i /\ table'[j] = table[k]
         /\ \A k \in DOMAIN table : k # i => \E j \in DOMAIN table' : table'[j] = table[k]
         /\ \A o \in Objs \ {table[i]} : sess'[o] = sess[o] /\ mutex'[o] = mutex[o]
         /\ TableIsLive' /\ OneSessionPerId'
<1>. DEFINE n == Len(table)
<1>0. TypeOK /\ TableIsLive /\ OneSessionPerId
  BY DEF Inv
<1>1. /\ table \in Seq(Objs) /\ n \in Nat \ {0} /\ DOMAIN table = 1..n /\ i \in 1..n
      /\ table[i] \in Objs
  BY <1>0 DEF TypeOK
<1>2. /\ table' = Without(table, i)
      /\ live' = live \ {table[i]}
      /\ mutex' = [mutex EXCEPT ![table[i]] = None]
      /\ sess' = [sess EXCEPT ![table[i]] = Freed]
  BY DEF RemoveAt, Without
<1>3. /\ DOMAIN table' = 1..(n - 1)
      /\ \A j \in 1..(n - 1) : table'[j] = IF j = i THEN table[n] ELSE table[j]
  BY <1>1, <1>2, WithoutProperties
<1>. HIDE DEF n
<1>4. \A j \in DOMAIN table' : \E k \in DOMAIN table : k # i /\ table'[j] = table[k]
  <2>. TAKE j \in DOMAIN table'
  <2>1. CASE j = i
    <3>1. n \in DOMAIN table /\ n # i /\ table'[j] = table[n]
      BY <1>1, <1>3, <2>1
    <3>. QED  BY <3>1
  <2>2. CASE j # i
    <3>1. j \in DOMAIN table /\ table'[j] = table[j]
      BY <1>1, <1>3, <2>2
    <3>. QED  BY <2>2, <3>1
  <2>. QED  BY <2>1, <2>2
<1>5. \A k \in DOMAIN table : k # i => \E j \in DOMAIN table' : table'[j] = table[k]
  <2>. SUFFICES ASSUME NEW k \in DOMAIN table, k # i
                PROVE  \E j \in DOMAIN table' : table'[j] = table[k]
    OBVIOUS
  <2>1. CASE k = n
    <3>1. i \in DOMAIN table' /\ table'[i] = table[k]
      BY <1>1, <1>3, <2>1
    <3>. QED  BY <3>1
  <2>2. CASE k # n
    <3>1. k \in DOMAIN table' /\ table'[k] = table[k]
      BY <1>1, <1>3, <2>2
    <3>. QED  BY <3>1
  <2>. QED  BY <2>1, <2>2
<1>6. \A o \in Objs \ {table[i]} : sess'[o] = sess[o] /\ mutex'[o] = mutex[o]
  BY <1>0, <1>2 DEF TypeOK
<1>7. \A j \in DOMAIN table' : table'[j] \in Objs \ {table[i]}
  <2>. TAKE j \in DOMAIN table'
  <2>1. PICK k \in DOMAIN table : k # i /\ table'[j] = table[k]
    BY <1>4
  <2>. QED  BY <1>0, <1>1, <2>1 DEF TableIsLive
<1>8. \A j, l \in DOMAIN table' : table'[j] = table'[l] => j = l
  BY <1>0, <1>1, <1>3 DEF TableIsLive
<1>9. TableIsLive'
  <2>1. \A o \in Objs : o \in live' <=> \E j \in DOMAIN table' : table'[j] = o
    <3>. TAKE o \in Objs
    <3>1. ASSUME o \in live' PROVE \E j \in DOMAIN table' : table'[j] = o
      <4>1. PICK k \in DOMAIN table : table[k] = o
        BY <1>0, <1>2, <3>1 DEF TableIsLive
      <4>2. k # i
        BY <1>2, <3>1, <4>1
      <4>. QED  BY <1>5, <4>1, <4>2
    <3>2. ASSUME NEW j \in DOMAIN table', table'[j] = o PROVE o \in live'
      <4>1. PICK k \in DOMAIN table : k # i /\ table'[j] = table[k]
        BY <1>4
      <4>2. o \in live /\ o # table[i]
        BY <1>0, <1>7, <3>2, <4>1 DEF TableIsLive
      <4>. QED  BY <1>2, <4>2
    <3>. QED  BY <3>1, <3>2
  <2>2. \A o \in live' : sess'[o] \in Session
    BY <1>0, <1>2 DEF TableIsLive, TypeOK
  <2>. QED  BY <1>8, <2>1, <2>2 DEF TableIsLive
<1>10. OneSessionPerId'
  <2>. SUFFICES ASSUME NEW j \in DOMAIN table', NEW l \in DOMAIN table',
                       sess'[table'[j]].id = sess'[table'[l]].id
                PROVE  j = l
    BY DEF OneSessionPerId
  <2>1. PICK k \in DOMAIN table : k # i /\ table'[j] = table[k]
    BY <1>4
  <2>2. PICK m \in DOMAIN table : m # i /\ table'[l] = table[m]
    BY <1>4
  <2>3. sess[table[k]].id = sess[table[m]].id
    BY <1>6, <1>7, <2>1, <2>2
  <2>4. k = m
    BY <1>0, <2>3 DEF OneSessionPerId
  <2>. QED  BY <1>8, <2>1, <2>2, <2>4
<1>. QED  BY <1>4, <1>5, <1>6, <1>9, <1>10
-----------------------------------------------------------------------------
(* A step leaves the table alone, removes one entry, or appends a session.  *)

(* No entry comes, goes or changes its id. *)
Stable ==
  /\ table' = table /\ live' = live
  /\ \A o \in Objs : sess'[o].id = sess[o].id /\ (sess[o] \in Session => sess'[o] \in Session)

(* What the five actions that remove an entry have in common. *)
Removes(t, i) ==
  /\ RemoveAt(i)
  /\ pc[t] \in TablePCs \ {"f_wait"} /\ mutex[table[i]] \in {None, t}
  /\ UNCHANGED <<req, ref, prompt>>
  /\ \A s \in Threads \ {t} : pc'[s] = pc[s]
  /\ pc'[t] \in {"c_find", "c_new", "reply", "l_clear", "r_scan"}
  /\ pc'[t] = "c_new" => t \in Workers /\ req[t].id = sess[table[i]].id
  /\ \A w \in Workers : best'[w] = 0

(* The five actions that remove an entry are removals in this sense. *)
LEMMA RemovalSteps ==
  ASSUME Inv,
         \/ \E w \in Workers : CreateEvict(w) \/ CreateReplace(w) \/ CloseRemove(w) \/ LoadClear(w)
         \/ ReapRemove
  PROVE  \E t \in Threads, i \in DOMAIN table : Removes(t, i)
<1>0. TypeOK /\ SessionOwner /\ NoUseAfterFree /\ Workers \subseteq Threads /\ Reaper \in Threads
  BY DEF Inv, Threads
<1>0a. pc \in [Threads -> PCs] /\ best \in [Workers -> Nat] /\ Reaper \notin Workers
  BY <1>0, ThreadsAssumption DEF TypeOK
<1>1. ASSUME NEW t \in Threads, pc[t] \in TablePCs \ {"f_wait"},
             NEW i \in DOMAIN table, mutex[table[i]] \in {None, t}
      PROVE  \A v \in Workers : v # t => best[v] = 0
  BY <1>1, RemovalIsSafe
<1>2. ASSUME NEW v \in Workers, pc[v] # "c_scan" PROVE best[v] = 0
  BY <1>0, <1>0a, <1>2 DEF SessionOwner
<1>3. ASSUME NEW w \in Workers, CreateEvict(w)
      PROVE  \E t \in Threads, i \in DOMAIN table : Removes(t, i)
  <2>1. best[w] \in DOMAIN table /\ mutex[table[best[w]]] = w
    BY <1>0, <1>3 DEF CreateEvict, SessionOwner
  <2>2. pc[w] = "c_scan" /\ pc' = [pc EXCEPT ![w] = "c_find"] /\ RemoveAt(best[w])
        /\ best' = [best EXCEPT ![w] = 0] /\ UNCHANGED <<req, ref, prompt>>
    BY <1>3 DEF CreateEvict, Goto
  <2>3. \A v \in Workers : best'[v] = 0
    BY <1>0, <1>0a, <1>1, <2>1, <2>2 DEF TablePCs
  <2>4. Removes(w, best[w])
    BY <1>0, <1>0a, <2>1, <2>2, <2>3 DEF Removes, TablePCs
  <2>. QED  BY <1>0, <2>1, <2>4
<1>4. ASSUME NEW w \in Workers, CreateReplace(w)
      PROVE  \E t \in Threads, i \in DOMAIN table : Removes(t, i)
  <2>1. PICK i \in DOMAIN table :
          sess[table[i]].id = req[w].id /\ mutex[table[i]] = None /\ RemoveAt(i)
    BY <1>4 DEF CreateReplace, Has
  <2>2. pc[w] = "c_find" /\ pc' = [pc EXCEPT ![w] = "c_new"]
        /\ UNCHANGED <<req, ref, prompt, best>>
    BY <1>4 DEF CreateReplace, Goto, locals
  <2>3. \A v \in Workers : best'[v] = 0
    BY <1>0, <1>1, <1>2, <2>1, <2>2 DEF TablePCs
  <2>4. Removes(w, i)
    BY <1>0, <1>0a, <2>1, <2>2, <2>3 DEF Removes, TablePCs
  <2>. QED  BY <1>0, <2>4
<1>5. ASSUME NEW w \in Workers, CloseRemove(w)
      PROVE  \E t \in Threads, i \in DOMAIN table : Removes(t, i)
  <2>1. idx[w] \in DOMAIN table
    BY <1>0, <1>5 DEF CloseRemove, NoUseAfterFree
  <2>2. pc[w] = "x_wait" /\ pc' = [pc EXCEPT ![w] = "reply"] /\ RemoveAt(idx[w])
        /\ mutex[table[idx[w]]] = None /\ UNCHANGED <<req, ref, prompt, best>>
    BY <1>5 DEF CloseRemove, Goto, Answer
  <2>3. \A v \in Workers : best'[v] = 0
    BY <1>0, <1>1, <1>2, <2>1, <2>2 DEF TablePCs
  <2>4. Removes(w, idx[w])
    BY <1>0, <1>0a, <2>1, <2>2, <2>3 DEF Removes, TablePCs
  <2>. QED  BY <1>0, <2>1, <2>4
<1>6. ASSUME NEW w \in Workers, LoadClear(w)
      PROVE  \E t \in Threads, i \in DOMAIN table : Removes(t, i)
  <2>1. 1 \in DOMAIN table
    BY <1>0, <1>6 DEF LoadClear, TypeOK
  <2>2. pc[w] = "l_clear" /\ pc' = pc /\ RemoveAt(1)
        /\ mutex[table[1]] = None /\ UNCHANGED <<req, ref, prompt, best>>
    BY <1>6 DEF LoadClear, locals
  <2>3. \A v \in Workers : best'[v] = 0
    BY <1>0, <1>1, <1>2, <2>1, <2>2 DEF TablePCs
  <2>4. Removes(w, 1)
    BY <1>0, <1>0a, <2>1, <2>2, <2>3 DEF Removes, TablePCs
  <2>. QED  BY <1>0, <2>1, <2>4
<1>7. CASE ReapRemove
  <2>1. idx[Reaper] \in DOMAIN table
    BY <1>0, <1>7 DEF Inv, ReapRemove, ScanIndex, TypeOK
  <2>2. pc[Reaper] = "r_scan" /\ pc' = pc /\ RemoveAt(idx[Reaper])
        /\ mutex[table[idx[Reaper]]] = None /\ UNCHANGED <<req, ref, prompt, best>>
    BY <1>7 DEF ReapRemove, locals
  <2>3. \A v \in Workers : best'[v] = 0
    BY <1>0, <1>0a, <1>1, <2>1, <2>2 DEF TablePCs
  <2>4. Removes(Reaper, idx[Reaper])
    BY <1>0, <1>0a, <2>1, <2>2, <2>3 DEF Removes, TablePCs
  <2>. QED  BY <1>0, <2>1, <2>4
<1>. QED  BY <1>3, <1>4, <1>5, <1>6, <1>7

(* A removal keeps every part of the invariant that is about the table. *)
LEMMA RemovesKeeps ==
  ASSUME Inv, NEW t \in Threads, NEW i \in DOMAIN table, Removes(t, i)
  PROVE  /\ TableIsLive' /\ OneSessionPerId' /\ SessionOwner'
         /\ NoUseAfterFree' /\ PromptIsHistory' /\ IdStaysFree'
<1>0. /\ TypeOK /\ SessionOwner /\ NoUseAfterFree /\ PromptIsHistory /\ OneSessionPerId
      /\ TableIsLive /\ None \notin Workers /\ Reaper \notin Workers /\ Workers \subseteq Threads
  BY ThreadsAssumption DEF Inv, Threads
<1>1. /\ \A j \in DOMAIN table' : \E k \in DOMAIN table : k # i /\ table'[j] = table[k]
      /\ \A k \in DOMAIN table : k # i => \E j \in DOMAIN table' : table'[j] = table[k]
      /\ \A o \in Objs \ {table[i]} : sess'[o] = sess[o] /\ mutex'[o] = mutex[o]
      /\ TableIsLive' /\ OneSessionPerId'
  BY RemoveAtEffect DEF Removes
<1>2. \A w \in Workers : ref[w] # table[i]
  BY RemovalIsSafe DEF Removes
<1>3. /\ ref' = ref /\ req' = req /\ prompt' = prompt /\ \A s \in Threads \ {t} : pc'[s] = pc[s]
      /\ pc[t] \in TablePCs \ {"f_wait"}
      /\ pc'[t] \in {"c_find", "c_new", "reply", "l_clear", "r_scan"}
      /\ \A w \in Workers : best'[w] = 0
  BY DEF Removes
<1>4. ASSUME NEW w \in Workers, pc[w] \in UsePCs \cup {"f_wait"}
      PROVE  pc'[w] = pc[w] /\ ref[w] \in Objs \ {table[i]}
  BY <1>0, <1>2, <1>3, <1>4 DEF UsePCs, TablePCs, SessionOwner, TypeOK
<1>5. ASSUME NEW w \in Workers, pc'[w] \in UsePCs \cup {"f_wait"} PROVE pc'[w] = pc[w]
  BY <1>0, <1>3, <1>5 DEF UsePCs
<1>6. SessionOwner'
  BY <1>0, <1>1, <1>3, <1>4, <1>5 DEF SessionOwner
<1>7. NoUseAfterFree'
  <2>1. ASSUME NEW w \in Workers, ref[w] # None
        PROVE  \E j \in DOMAIN table' : table'[j] = ref[w]
    <3>1. PICK k \in DOMAIN table : table[k] = ref[w]
      BY <1>0, <2>1 DEF NoUseAfterFree
    <3>. QED  BY <1>1, <1>2, <3>1
  <2>2. \A j \in DOMAIN table' : table'[j] \in live'
    <3>. TAKE j \in DOMAIN table'
    <3>1. table'[j] \in Objs
      BY <1>0, <1>1 DEF TypeOK
    <3>. QED  BY <1>1, <3>1 DEF TableIsLive
  <2>3. \A w \in Workers : pc'[w] # "x_wait"
    <3>. SUFFICES ASSUME NEW w \in Workers, pc'[w] = "x_wait" PROVE FALSE
      OBVIOUS
    <3>1. w # t /\ pc[w] = "x_wait"
      BY <1>0, <1>3
    <3>. QED  BY <1>0, <1>3, <3>1, OneTableOwner DEF TablePCs
  <2>. QED  BY <1>3, <2>1, <2>2, <2>3 DEF NoUseAfterFree
<1>8. PromptIsHistory'
  BY <1>0, <1>1, <1>3, <1>4, <1>5 DEF PromptIsHistory, UsePCs
<1>9. IdStaysFree'
  <2>. SUFFICES ASSUME NEW w \in Workers, pc'[w] = "c_new",
                       NEW j \in DOMAIN table', sess'[table'[j]].id = req[w].id
                PROVE  FALSE
    BY <1>3 DEF IdStaysFree, Has
  <2>1. w = t
    <3>1. CASE w # t
      <4>1. pc[w] = "c_new"
        BY <1>0, <1>3, <3>1
      <4>. QED  BY <1>0, <1>3, <3>1, <4>1, OneTableOwner DEF TablePCs
    <3>. QED  BY <3>1
  <2>2. req[t].id = sess[table[i]].id
    BY <2>1 DEF Removes
  <2>3. PICK k \in DOMAIN table : k # i /\ table'[j] = table[k]
    BY <1>1
  <2>4. table[k] \in Objs \ {table[i]}
    BY <1>0, <2>3 DEF TableIsLive, TypeOK
  <2>5. sess[table[k]].id = sess[table[i]].id
    BY <1>1, <2>1, <2>2, <2>3, <2>4
  <2>. QED  BY <1>0, <2>3, <2>5 DEF OneSessionPerId
<1>. QED  BY <1>1, <1>6, <1>7, <1>8, <1>9
-----------------------------------------------------------------------------
(* A new session is appended under an id that no entry has.                 *)
LEMMA CreateNewKeeps ==
  ASSUME Inv, NEW w \in Workers, CreateNew(w)
  PROVE  /\ TableIsLive' /\ OneSessionPerId' /\ SessionOwner'
         /\ NoUseAfterFree' /\ PromptIsHistory' /\ IdStaysFree'
<1>0. /\ TypeOK /\ TableIsLive /\ OneSessionPerId /\ SessionOwner /\ NoUseAfterFree
      /\ PromptIsHistory /\ IdStaysFree /\ ServesItsRequest /\ TableOwner
      /\ None \notin Workers /\ w \in Threads /\ Workers \subseteq Threads
  BY ThreadsAssumption DEF Inv, Threads
<1>1. /\ pc[w] \in {"c_find", "c_new"} /\ Has(req[w].id) = {} /\ req[w].id \in Ids
  <2>1. pc[w] \in {"c_find", "c_new"} /\ Has(req[w].id) = {}
    BY <1>0 DEF CreateNew, IdIsFree, IdStaysFree
  <2>2. req[w].id \in Ids
    BY <1>0, <2>1, RequestFields DEF ServesItsRequest, Global
  <2>. QED  BY <2>1, <2>2
<1>. DEFINE s0 == [id |-> req[w].id, hist |-> <<>>, ctx |-> ctx, active |-> now,
                   created |-> FALSE]
<1>2. PICK o \in Objs \ live :
        /\ live' = live \cup {o} /\ table' = Append(table, o)
        /\ sess' = [sess EXCEPT ![o] = s0]
        /\ mutex' = [mutex EXCEPT ![o] = w] /\ ref' = [ref EXCEPT ![w] = o]
  BY DEF CreateNew
<1>3. /\ pc' = [pc EXCEPT ![w] = "c_setup"]
      /\ UNCHANGED <<req, idx, best, prompt>>
  BY DEF CreateNew, Goto
<1>4. s0 \in Session /\ s0.id = req[w].id
  <2>. <<>> \in Seq(Roles)
    OBVIOUS
  <2>. QED  BY <1>0, <1>1 DEF Session, TypeOK
<1>. HIDE DEF s0
<1>. DEFINE n == Len(table)
<1>5. /\ n \in Nat /\ DOMAIN table = 1..n /\ DOMAIN table' = 1..(n + 1)
      /\ table'[n + 1] = o /\ \A k \in 1..n : table'[k] = table[k] /\ table[k] \in Objs
  BY <1>0, <1>2 DEF TypeOK
<1>. HIDE DEF n
<1>6. \A k \in 1..n : table[k] # o /\ table[k] \in live
  BY <1>0, <1>2, <1>5 DEF TableIsLive
<1>7. /\ sess'[o] = s0 /\ mutex'[o] = w
      /\ \A x \in Objs \ {o} : sess'[x] = sess[x] /\ mutex'[x] = mutex[x]
  BY <1>0, <1>2 DEF TypeOK
<1>8. TableIsLive'
  <2>1. \A i, j \in DOMAIN table' : table'[i] = table'[j] => i = j
    <3>. TAKE i, j \in DOMAIN table'
    <3>1. CASE i \in 1..n /\ j \in 1..n
      BY <1>0, <1>5, <3>1 DEF TableIsLive
    <3>2. CASE i = n + 1 \/ j = n + 1
      BY <1>5, <1>6, <3>2
    <3>. QED  BY <1>5, <3>1, <3>2
  <2>2. \A x \in Objs : x \in live' <=> \E i \in DOMAIN table' : table'[i] = x
    <3>. TAKE x \in Objs
    <3>1. CASE x = o
      <4>1. n + 1 \in DOMAIN table' /\ table'[n + 1] = x
        BY <1>5, <3>1
      <4>. QED  BY <1>2, <3>1, <4>1
    <3>2. CASE x # o
      <4>1. ASSUME NEW i \in DOMAIN table', table'[i] = x PROVE x \in live'
        <5>1. i \in 1..n
          BY <1>5, <3>2, <4>1
        <5>. QED  BY <1>2, <1>5, <1>6, <4>1, <5>1
      <4>2. ASSUME x \in live' PROVE \E i \in DOMAIN table' : table'[i] = x
        <5>1. PICK k \in 1..n : table[k] = x
          BY <1>0, <1>2, <1>5, <3>2, <4>2 DEF TableIsLive
        <5>2. k \in DOMAIN table' /\ table'[k] = x
          BY <1>5, <5>1
        <5>. QED  BY <5>2
      <4>. QED  BY <4>1, <4>2
    <3>. QED  BY <3>1, <3>2
  <2>3. \A x \in live' : sess'[x] \in Session
    BY <1>0, <1>2, <1>4, <1>7 DEF TableIsLive, TypeOK
  <2>. QED  BY <2>1, <2>2, <2>3 DEF TableIsLive
<1>9. \A k \in 1..n : sess'[table'[k]].id = sess[table[k]].id
                      /\ sess[table[k]].id # req[w].id
  <2>. TAKE k \in 1..n
  <2>1. sess[table[k]].id # req[w].id
    BY <1>1, <1>5 DEF Has
  <2>. QED  BY <1>5, <1>6, <1>7, <2>1
<1>10. OneSessionPerId'
  <2>. SUFFICES ASSUME NEW i \in DOMAIN table', NEW j \in DOMAIN table',
                       sess'[table'[i]].id = sess'[table'[j]].id
                PROVE  i = j
    BY DEF OneSessionPerId
  <2>1. CASE i \in 1..n /\ j \in 1..n
    BY <1>0, <1>5, <1>9, <2>1 DEF OneSessionPerId
  <2>2. CASE i = n + 1 \/ j = n + 1
    <3>1. sess'[table'[n + 1]].id = req[w].id
      BY <1>4, <1>5, <1>7
    <3>. QED  BY <1>5, <1>9, <2>2, <3>1
  <2>. QED  BY <1>5, <2>1, <2>2
<1>11. \A v \in Workers \ {w} : ref'[v] = ref[v] /\ pc'[v] = pc[v] /\ ref[v] # o
  <2>. TAKE v \in Workers \ {w}
  <2>1. ref[v] # o
    <3>1. o # None
      BY <1>2, ObjsAssumption
    <3>2. ref[v] # None => ref[v] \in live
      BY <1>0 DEF NoUseAfterFree
    <3>. QED  BY <1>2, <3>1, <3>2
  <2>. QED  BY <1>0, <1>2, <1>3, <2>1 DEF TypeOK
<1>12. pc'[w] = "c_setup" /\ ref'[w] = o /\ o # None
  BY <1>0, <1>2, <1>3, ObjsAssumption DEF TypeOK
<1>13. \A v \in Workers : best[v] = 0
  <2>. TAKE v \in Workers
  <2>0. best[v] \in Nat
    BY <1>0 DEF TypeOK
  <2>1. pc[v] # "c_scan"
    BY <1>0, <1>1, OneTableOwner DEF TablePCs
  <2>. QED  BY <1>0, <2>0, <2>1 DEF SessionOwner
<1>14. SessionOwner'
  <2>. SUFFICES ASSUME NEW v \in Workers
       PROVE  /\ ref'[v] # None <=> pc'[v] \in UsePCs \cup {"f_wait"}
              /\ pc'[v] \in UsePCs => mutex'[ref'[v]] = v
              /\ best'[v] = 0
    BY DEF SessionOwner
  <2>1. CASE v = w
    BY <1>3, <1>7, <1>12, <1>13, <2>1 DEF UsePCs
  <2>2. CASE v # w
    <3>1. ref[v] \in Objs \cup {None}
      BY <1>0 DEF TypeOK
    <3>. QED  BY <1>0, <1>3, <1>7, <1>11, <1>13, <2>2, <3>1 DEF SessionOwner
  <2>. QED  BY <2>1, <2>2
<1>15. NoUseAfterFree'
  <2>1. ASSUME NEW v \in Workers, ref'[v] # None
        PROVE  \E i \in DOMAIN table' : table'[i] = ref'[v]
    <3>1. CASE v = w
      <4>1. n + 1 \in DOMAIN table' /\ table'[n + 1] = ref'[v]
        BY <1>5, <1>12, <3>1
      <4>. QED  BY <4>1
    <3>2. CASE v # w
      <4>1. PICK k \in 1..n : table[k] = ref[v]
        BY <1>0, <1>5, <1>11, <2>1, <3>2 DEF NoUseAfterFree
      <4>2. k \in DOMAIN table' /\ table'[k] = ref'[v]
        BY <1>5, <1>11, <3>2, <4>1
      <4>. QED  BY <4>2
    <3>. QED  BY <3>1, <3>2
  <2>2. \A i \in DOMAIN table' : table'[i] \in live'
    BY <1>2, <1>5, <1>6
  <2>3. ASSUME NEW v \in Workers, pc'[v] = "x_wait" PROVE FALSE
    <3>1. v # w /\ pc[v] = "x_wait"
      BY <1>11, <1>12, <2>3
    <3>. QED  BY <1>0, <1>1, <3>1, OneTableOwner DEF TablePCs
  <2>. QED  BY <2>1, <2>2, <2>3 DEF NoUseAfterFree
<1>16. PromptIsHistory'
  <2>. SUFFICES ASSUME NEW v \in Workers, pc'[v] \in {"g_run", "g_send", "g_append"}
                PROVE  sess'[ref'[v]].hist = prompt'[v]
    BY DEF PromptIsHistory
  <2>1. v # w
    BY <1>12
  <2>2. ref[v] \in Objs \ {o} /\ pc[v] \in {"g_run", "g_send", "g_append"}
    BY <1>0, <1>11, <2>1 DEF SessionOwner, UsePCs, TypeOK
  <2>. QED  BY <1>0, <1>3, <1>7, <1>11, <2>1, <2>2 DEF PromptIsHistory
<1>17. IdStaysFree'
  <2>1. ASSUME NEW v \in Workers, pc'[v] = "c_new" PROVE FALSE
    <3>1. v # w /\ pc[v] = "c_new"
      BY <1>11, <1>12, <2>1
    <3>. QED  BY <1>0, <1>1, <3>1, OneTableOwner DEF TablePCs
  <2>. QED  BY <2>1 DEF IdStaysFree
<1>. QED  BY <1>8, <1>10, <1>14, <1>15, <1>16, <1>17
-----------------------------------------------------------------------------
(* Steps that neither remove nor append an entry.                           *)

(* Storing a history, a time or the provider's flag in a session in use      *)
(* changes neither its id nor its type.                                     *)
LEMMA UpdateIsStable ==
  ASSUME Inv, NEW w \in Workers, ref[w] # None, NEW h \in Seq(Roles), NEW t \in Nat,
         table' = table, live' = live,
         \/ sess' = [sess EXCEPT ![ref[w]].hist = h, ![ref[w]].active = t]
         \/ sess' = [sess EXCEPT ![ref[w]].hist = h]
         \/ sess' = [sess EXCEPT ![ref[w]].active = t]
         \/ sess' = [sess EXCEPT ![ref[w]].created = TRUE]
  PROVE  Stable
<1>1. ref[w] \in Objs /\ sess[ref[w]] \in Session
  BY RefIsSession
<1>2. sess \in [Objs -> Session \cup {Freed}]
  BY DEF Inv, TypeOK
<1>. DEFINE s == sess[ref[w]]
<1>3. sess'[ref[w]].id = sess[ref[w]].id /\ sess'[ref[w]] \in Session
  <2>1. \/ sess'[ref[w]] = [s EXCEPT !.hist = h, !.active = t]
        \/ sess'[ref[w]] = [s EXCEPT !.hist = h]
        \/ sess'[ref[w]] = [s EXCEPT !.active = t]
        \/ sess'[ref[w]] = [s EXCEPT !.created = TRUE]
    BY <1>1, <1>2
  <2>2. s \in Session
    BY <1>1
  <2>. HIDE DEF s
  <2>3. sess'[ref[w]].id = s.id /\ sess'[ref[w]] \in Session
    BY <2>1, <2>2 DEF Session
  <2>. QED  BY <2>3 DEF s
<1>4. \A o \in Objs : o # ref[w] => sess'[o] = sess[o]
  BY <1>2
<1>. QED  BY <1>3, <1>4 DEF Stable

(* A step leaves the table alone, removes an entry, or appends one. *)
TableStep ==
  \/ Stable
  \/ \E t \in Threads, i \in DOMAIN table : Removes(t, i)
  \/ \E w \in Workers : CreateNew(w)

(* The actions that do not touch the table or a session at all. *)
LEMMA UnchangedIsStable == table' = table /\ live' = live /\ sess' = sess => Stable
BY DEF Stable

(* Every step is of one of the three kinds. *)
LEMMA TableSteps == Inv /\ [Next]_vars => TableStep
<1>. SUFFICES ASSUME Inv, [Next]_vars PROVE TableStep
  OBVIOUS
<1>0. TypeOK /\ SessionOwner /\ ServesItsRequest /\ now \in Nat
  BY DEF Inv, TypeOK
<1>. USE DEF TableStep, tableVars
<1>1. ASSUME NEW w \in Workers, Create(w) PROVE TableStep
  <2>1. CASE CreateLock(w)
    BY UnchangedIsStable, <2>1 DEF CreateLock
  <2>2. CASE CreateScan(w)
    BY UnchangedIsStable, <2>2 DEF CreateScan
  <2>3. CASE CreateLimit(w)
    BY UnchangedIsStable, <2>3 DEF CreateLimit
  <2>4. CASE CreateEvict(w)
    BY <2>4, RemovalSteps
  <2>5. CASE CreateReplace(w)
    BY <2>5, RemovalSteps
  <2>6. CASE CreateNew(w)
    BY <2>6
  <2>7. CASE CreateOutOfMemory(w)
    BY UnchangedIsStable, <2>7 DEF CreateOutOfMemory, IdIsFree
  <2>8. CASE CreateSetup(w)
    <3>1. ref[w] # None /\ <<>> \in Seq(Roles)
      BY <1>0, <2>8 DEF CreateSetup, SessionOwner, UsePCs
    <3>. QED  BY <1>0, <2>8, <3>1, UpdateIsStable DEF CreateSetup
  <2>. QED  BY <1>1, <2>1, <2>2, <2>3, <2>4, <2>5, <2>6, <2>7, <2>8 DEF Create
<1>2. ASSUME NEW w \in Workers, Find(w) PROVE TableStep
  <2>1. CASE FindMiss(w)
    BY UnchangedIsStable, <2>1 DEF FindMiss
  <2>2. CASE FindHit(w)
    BY UnchangedIsStable, <2>2 DEF FindHit
  <2>3. CASE FindAcquire(w)
    BY UnchangedIsStable, <2>3 DEF FindAcquire
  <2>. QED  BY <1>2, <2>1, <2>2, <2>3 DEF Find
<1>3. ASSUME NEW w \in Workers, Edit(w) PROVE TableStep
  <2>1. CASE AppendTurn(w)
    <3>1. ref[w] # None /\ req[w] \in Requests
      BY <1>0, <2>1 DEF AppendTurn, SessionOwner, UsePCs, ServesItsRequest
    <3>2. sess[ref[w]].hist \o req[w].msgs \in Seq(Roles)
      BY <3>1, RefIsSession, RequestFields DEF Session
    <3>. QED  BY <1>0, <2>1, <3>1, <3>2, UpdateIsStable DEF AppendTurn, Finish
  <2>2. CASE ReplaceHistory(w)
    <3>1. ref[w] # None /\ req[w] \in Requests
      BY <1>0, <2>2 DEF ReplaceHistory, SessionOwner, UsePCs, ServesItsRequest
    <3>2. req[w].msgs \in Seq(Roles)
      BY <3>1, RefIsSession, RequestFields DEF Session
    <3>. QED  BY <1>0, <2>2, <3>1, <3>2, UpdateIsStable DEF ReplaceHistory, Finish
  <2>3. CASE ResetSession(w)
    <3>1. ref[w] # None /\ req[w] \in Requests
      BY <1>0, <2>3 DEF ResetSession, SessionOwner, UsePCs, ServesItsRequest
    <3>2. <<>> \in Seq(Roles)
      BY <3>1, RefIsSession, RequestFields DEF Session
    <3>. QED  BY <1>0, <2>3, <3>1, <3>2, UpdateIsStable DEF ResetSession, Finish
  <2>4. CASE BadParams(w)
    BY UnchangedIsStable, <2>4 DEF BadParams, Finish
  <2>. QED  BY <1>3, <2>1, <2>2, <2>3, <2>4 DEF Edit
<1>4. ASSUME NEW w \in Workers, Generate(w) PROVE TableStep
  <2>1. CASE GenNoModel(w)
    BY UnchangedIsStable, <2>1 DEF GenNoModel
  <2>2. CASE GenEngine(w)
    BY UnchangedIsStable, <2>2 DEF GenEngine
  <2>3. CASE GenStart(w)
    <3>1. ref[w] # None /\ <<>> \in Seq(Roles)
      BY <1>0, <2>3 DEF GenStart, SessionOwner, UsePCs
    <3>. QED  BY <1>0, <2>3, <3>1, UpdateIsStable DEF GenStart
  <2>4. CASE GenDone(w)
    <3>1. ref[w] # None /\ <<>> \in Seq(Roles)
      BY <1>0, <2>4 DEF GenDone, SessionOwner, UsePCs
    <3>. QED  BY <1>0, <2>4, <3>1, UpdateIsStable DEF GenDone
  <2>5. CASE GenFail(w)
    BY UnchangedIsStable, <2>5 DEF GenFail
  <2>6. CASE GenSend(w)
    BY UnchangedIsStable, <2>6 DEF GenSend
  <2>7. CASE GenAppend(w)
    <3>1. ref[w] # None /\ req[w] \in Requests
      BY <1>0, <2>7 DEF GenAppend, SessionOwner, UsePCs, ServesItsRequest
    <3>2. sess[ref[w]].hist \o req[w].msgs \in Seq(Roles)
      BY <3>1, RefIsSession, RequestFields DEF Session
    <3>. QED  BY <1>0, <2>7, <3>1, <3>2, UpdateIsStable DEF GenAppend
  <2>. QED  BY <1>4, <2>1, <2>2, <2>3, <2>4, <2>5, <2>6, <2>7 DEF Generate
<1>5. ASSUME NEW w \in Workers, Close(w) PROVE TableStep
  <2>1. CASE CloseMiss(w)
    BY UnchangedIsStable, <2>1 DEF CloseMiss
  <2>2. CASE CloseHit(w)
    BY UnchangedIsStable, <2>2 DEF CloseHit
  <2>3. CASE CloseRemove(w)
    BY <2>3, RemovalSteps
  <2>. QED  BY <1>5, <2>1, <2>2, <2>3 DEF Close
<1>6. ASSUME NEW w \in Workers, Load(w) PROVE TableStep
  <2>1. CASE LoadEngine(w)
    BY UnchangedIsStable, <2>1 DEF LoadEngine
  <2>2. CASE LoadLock(w)
    BY UnchangedIsStable, <2>2 DEF LoadLock
  <2>3. CASE LoadClear(w)
    BY <2>3, RemovalSteps
  <2>4. CASE LoadClose(w)
    BY UnchangedIsStable, <2>4 DEF LoadClose
  <2>5. CASE LoadOpen(w)
    BY UnchangedIsStable, <2>5 DEF LoadOpen
  <2>6. CASE LoadVocab(w)
    BY UnchangedIsStable, <2>6 DEF LoadVocab
  <2>7. CASE LoadFail(w)
    BY UnchangedIsStable, <2>7 DEF LoadFail
  <2>. QED  BY <1>6, <2>1, <2>2, <2>3, <2>4, <2>5, <2>6, <2>7 DEF Load
<1>7. ASSUME NEW w \in Workers, Health(w) PROVE TableStep
  <2>1. CASE HealthSessions(w)
    BY UnchangedIsStable, <2>1 DEF HealthSessions
  <2>2. CASE HealthEngine(w)
    BY UnchangedIsStable, <2>2 DEF HealthEngine
  <2>. QED  BY <1>7, <2>1, <2>2 DEF Health
<1>8. ASSUME NEW w \in Workers, Receive(w) PROVE TableStep
  BY UnchangedIsStable, <1>8 DEF Receive, Entry
<1>9. ASSUME NEW w \in Workers, Reply(w) PROVE TableStep
  BY UnchangedIsStable, <1>9 DEF Reply
<1>10. CASE ReapLock
  BY UnchangedIsStable, <1>10 DEF ReapLock
<1>11. CASE ReapKeep
  BY UnchangedIsStable, <1>11 DEF ReapKeep
<1>12. CASE ReapRemove
  BY <1>12, RemovalSteps
<1>13. CASE ReapEnd
  BY UnchangedIsStable, <1>13 DEF ReapEnd
<1>14. CASE Tick
  BY UnchangedIsStable, <1>14 DEF Tick
<1>15. CASE UNCHANGED vars
  BY UnchangedIsStable, <1>15 DEF vars
<1>. QED  BY <1>1, <1>2, <1>3, <1>4, <1>5, <1>6, <1>7, <1>8, <1>9, <1>10, <1>11, <1>12, <1>13, <1>14, <1>15 DEF Next, Serve, Reap

(* Scans keep their index above the candidate. *)
LEMMA ScanIndexNext == Inv /\ [Next]_vars => ScanIndex'
<1>. SUFFICES ASSUME Inv, [Next]_vars PROVE ScanIndex'
  OBVIOUS
<1>0. TypeOK /\ ScanIndex /\ SessionOwner
  BY DEF Inv
<1>p. /\ pc \in [Threads -> PCs] /\ idx \in [Threads -> Nat] /\ best \in [Workers -> Nat]
      /\ Workers \subseteq Threads /\ Reaper \in Threads /\ Reaper \notin Workers
  BY <1>0, ThreadsAssumption DEF TypeOK, Threads
<1>. USE DEF ScanIndex, Goto, Answer, locals
<1>1. ASSUME NEW w \in Workers, Create(w) PROVE ScanIndex'
  <2>1. CASE CreateLock(w)
    <3>1. idx' = [idx EXCEPT ![w] = 1] \/ (idx' = idx /\ pc' = [pc EXCEPT ![w] = "c_find"])
      <4>1. CASE AtLimit
        BY <2>1, <4>1 DEF CreateLock, ScanFrom
      <4>2. CASE ~AtLimit
        BY <2>1, <4>2 DEF CreateLock
      <4>. QED  BY <4>1, <4>2
    <3>2. pc[w] = "c_lock" /\ best' = best /\ \A t \in Threads : t # w => pc'[t] = pc[t]
      BY <1>0, <1>p, <2>1 DEF CreateLock
    <3>3. ~(best[w] > 0)
      BY <1>0, <3>2 DEF SessionOwner
    <3>4. CASE idx' = [idx EXCEPT ![w] = 1]
      <4>1. idx'[w] = 1 /\ \A t \in Threads : t # w => idx'[t] = idx[t]
        BY <1>p, <3>4
      <4>. QED  BY <1>0, <1>p, <3>2, <3>3, <4>1
    <3>5. CASE idx' = idx /\ pc' = [pc EXCEPT ![w] = "c_find"]
      BY <1>0, <1>p, <3>2, <3>3, <3>5
    <3>. QED  BY <3>1, <3>4, <3>5
  <2>2. CASE CreateScan(w)
    BY <1>0, <1>p, <2>2 DEF CreateScan
  <2>3. CASE CreateLimit(w)
    BY <1>0, <1>p, <2>3 DEF CreateLimit
  <2>4. CASE CreateEvict(w)
    BY <1>0, <1>p, <2>4 DEF CreateEvict
  <2>5. CASE CreateReplace(w)
    BY <1>0, <1>p, <2>5 DEF CreateReplace
  <2>6. CASE CreateNew(w)
    BY <1>0, <1>p, <2>6 DEF CreateNew, IdIsFree
  <2>7. CASE CreateOutOfMemory(w)
    BY <1>0, <1>p, <2>7 DEF CreateOutOfMemory, IdIsFree
  <2>8. CASE CreateSetup(w)
    BY <1>0, <1>p, <2>8 DEF CreateSetup
  <2>. QED  BY <1>1, <2>1, <2>2, <2>3, <2>4, <2>5, <2>6, <2>7, <2>8 DEF Create
<1>2. ASSUME NEW w \in Workers, Find(w) PROVE ScanIndex'
  <2>1. CASE FindMiss(w)
    BY <1>0, <1>p, <2>1 DEF FindMiss
  <2>2. CASE FindHit(w)
    BY <1>0, <1>p, <2>2 DEF FindHit
  <2>3. CASE FindAcquire(w)
    BY <1>0, <1>p, <2>3 DEF FindAcquire
  <2>. QED  BY <1>2, <2>1, <2>2, <2>3 DEF Find
<1>3. ASSUME NEW w \in Workers, Edit(w) PROVE ScanIndex'
  <2>1. CASE AppendTurn(w)
    BY <1>0, <1>p, <2>1 DEF AppendTurn, Finish
  <2>2. CASE ReplaceHistory(w)
    BY <1>0, <1>p, <2>2 DEF ReplaceHistory, Finish
  <2>3. CASE ResetSession(w)
    BY <1>0, <1>p, <2>3 DEF ResetSession, Finish
  <2>4. CASE BadParams(w)
    BY <1>0, <1>p, <2>4 DEF BadParams, Finish
  <2>. QED  BY <1>3, <2>1, <2>2, <2>3, <2>4 DEF Edit
<1>4. ASSUME NEW w \in Workers, Generate(w) PROVE ScanIndex'
  <2>1. CASE GenNoModel(w)
    BY <1>0, <1>p, <2>1 DEF GenNoModel
  <2>2. CASE GenEngine(w)
    BY <1>0, <1>p, <2>2 DEF GenEngine
  <2>3. CASE GenStart(w)
    BY <1>0, <1>p, <2>3 DEF GenStart
  <2>4. CASE GenDone(w)
    BY <1>0, <1>p, <2>4 DEF GenDone
  <2>5. CASE GenFail(w)
    BY <1>0, <1>p, <2>5 DEF GenFail
  <2>6. CASE GenSend(w)
    BY <1>0, <1>p, <2>6 DEF GenSend
  <2>7. CASE GenAppend(w)
    BY <1>0, <1>p, <2>7 DEF GenAppend
  <2>. QED  BY <1>4, <2>1, <2>2, <2>3, <2>4, <2>5, <2>6, <2>7 DEF Generate
<1>5. ASSUME NEW w \in Workers, Close(w) PROVE ScanIndex'
  <2>1. CASE CloseMiss(w)
    BY <1>0, <1>p, <2>1 DEF CloseMiss
  <2>2. CASE CloseHit(w)
    <3>1. idx'[w] \in Nat /\ ~(best[w] > 0) /\ pc'[w] = "x_wait"
      BY <1>0, <1>p, <2>2 DEF CloseHit, Has, SessionOwner, TypeOK
    <3>2. best' = best /\ \A t \in Threads : t # w => pc'[t] = pc[t] /\ idx'[t] = idx[t]
      BY <1>p, <2>2 DEF CloseHit
    <3>. QED  BY <1>0, <1>p, <3>1, <3>2
  <2>3. CASE CloseRemove(w)
    <3>1. ~(best[w] > 0) /\ pc'[w] = "reply"
      BY <1>0, <1>p, <2>3 DEF CloseRemove, SessionOwner
    <3>2. best' = best /\ \A t \in Threads : t # w => pc'[t] = pc[t] /\ idx'[t] = idx[t]
      BY <1>p, <2>3 DEF CloseRemove
    <3>. QED  BY <1>0, <1>p, <3>1, <3>2
  <2>. QED  BY <1>5, <2>1, <2>2, <2>3 DEF Close
<1>6. ASSUME NEW w \in Workers, Load(w) PROVE ScanIndex'
  <2>1. CASE LoadEngine(w)
    BY <1>0, <1>p, <2>1 DEF LoadEngine
  <2>2. CASE LoadLock(w)
    BY <1>0, <1>p, <2>2 DEF LoadLock
  <2>3. CASE LoadClear(w)
    BY <1>0, <1>p, <2>3 DEF LoadClear
  <2>4. CASE LoadClose(w)
    BY <1>0, <1>p, <2>4 DEF LoadClose
  <2>5. CASE LoadOpen(w)
    BY <1>0, <1>p, <2>5 DEF LoadOpen
  <2>6. CASE LoadVocab(w)
    BY <1>0, <1>p, <2>6 DEF LoadVocab
  <2>7. CASE LoadFail(w)
    BY <1>0, <1>p, <2>7 DEF LoadFail
  <2>. QED  BY <1>6, <2>1, <2>2, <2>3, <2>4, <2>5, <2>6, <2>7 DEF Load
<1>7. ASSUME NEW w \in Workers, Health(w) PROVE ScanIndex'
  <2>1. CASE HealthSessions(w)
    BY <1>0, <1>p, <2>1 DEF HealthSessions
  <2>2. CASE HealthEngine(w)
    BY <1>0, <1>p, <2>2 DEF HealthEngine
  <2>. QED  BY <1>7, <2>1, <2>2 DEF Health
<1>8. ASSUME NEW w \in Workers, Receive(w) PROVE ScanIndex'
  BY <1>0, <1>p, <1>8 DEF Receive, Entry
<1>9. ASSUME NEW w \in Workers, Reply(w) PROVE ScanIndex'
  BY <1>0, <1>p, <1>9 DEF Reply
<1>10. CASE ReapLock
  BY <1>0, <1>p, <1>10 DEF ReapLock
<1>11. CASE ReapKeep
  BY <1>0, <1>p, <1>11 DEF ReapKeep
<1>12. CASE ReapRemove
  BY <1>0, <1>p, <1>12 DEF ReapRemove
<1>13. CASE ReapEnd
  BY <1>0, <1>p, <1>13 DEF ReapEnd
<1>14. CASE Tick
  BY <1>0, <1>p, <1>14 DEF Tick
<1>15. CASE UNCHANGED vars
  BY <1>0, <1>p, <1>15 DEF vars
<1>. QED  BY <1>1, <1>2, <1>3, <1>4, <1>5, <1>6, <1>7, <1>8, <1>9, <1>10, <1>11, <1>12, <1>13, <1>14, <1>15 DEF Next, Serve, Reap

(* Whoever closes or replaces the engine owns engine_mutex, and so does a *)
(* generate that relies on it.                                             *)
LEMMA EngineStaysNext == Inv /\ [Next]_vars => EngineStays'
<1>. SUFFICES ASSUME Inv, [Next]_vars PROVE EngineStays'
  OBVIOUS
<1>0. TypeOK /\ EngineStays /\ EngineOwner /\ ServesItsRequest
  BY DEF Inv
<1>p. /\ pc \in [Threads -> PCs] /\ req \in [Workers -> Requests \cup {NoRequest}]
      /\ Workers \subseteq Threads /\ Reaper \in Threads /\ Reaper \notin Workers
  BY <1>0, ThreadsAssumption DEF TypeOK, Threads
<1>. USE DEF EngineStays, EngineOwner, UsesEngine, ServesItsRequest, Goto, Answer, locals, modelVars,
          Finds, AllOps, NoRequest
<1>1. ASSUME NEW w \in Workers, Create(w) PROVE EngineStays'
  <2>1. CASE CreateLock(w)
    BY <1>0, <1>p, <2>1 DEF CreateLock
  <2>2. CASE CreateScan(w)
    BY <1>0, <1>p, <2>2 DEF CreateScan
  <2>3. CASE CreateLimit(w)
    BY <1>0, <1>p, <2>3 DEF CreateLimit
  <2>4. CASE CreateEvict(w)
    BY <1>0, <1>p, <2>4 DEF CreateEvict
  <2>5. CASE CreateReplace(w)
    BY <1>0, <1>p, <2>5 DEF CreateReplace
  <2>6. CASE CreateNew(w)
    BY <1>0, <1>p, <2>6 DEF CreateNew, IdIsFree
  <2>7. CASE CreateOutOfMemory(w)
    BY <1>0, <1>p, <2>7 DEF CreateOutOfMemory, IdIsFree
  <2>8. CASE CreateSetup(w)
    BY <1>0, <1>p, <2>8 DEF CreateSetup
  <2>. QED  BY <1>1, <2>1, <2>2, <2>3, <2>4, <2>5, <2>6, <2>7, <2>8 DEF Create
<1>2. ASSUME NEW w \in Workers, Find(w) PROVE EngineStays'
  <2>1. CASE FindMiss(w)
    BY <1>0, <1>p, <2>1 DEF FindMiss
  <2>2. CASE FindHit(w)
    BY <1>0, <1>p, <2>2 DEF FindHit
  <2>3. CASE FindAcquire(w)
    BY <1>0, <1>p, <2>3 DEF FindAcquire
  <2>. QED  BY <1>2, <2>1, <2>2, <2>3 DEF Find
<1>3. ASSUME NEW w \in Workers, Edit(w) PROVE EngineStays'
  <2>1. CASE AppendTurn(w)
    BY <1>0, <1>p, <2>1 DEF AppendTurn, Finish
  <2>2. CASE ReplaceHistory(w)
    BY <1>0, <1>p, <2>2 DEF ReplaceHistory, Finish
  <2>3. CASE ResetSession(w)
    BY <1>0, <1>p, <2>3 DEF ResetSession, Finish
  <2>4. CASE BadParams(w)
    BY <1>0, <1>p, <2>4 DEF BadParams, Finish
  <2>. QED  BY <1>3, <2>1, <2>2, <2>3, <2>4 DEF Edit
<1>4. ASSUME NEW w \in Workers, Generate(w) PROVE EngineStays'
  <2>1. CASE GenNoModel(w)
    BY <1>0, <1>p, <2>1 DEF GenNoModel
  <2>2. CASE GenEngine(w)
    BY <1>0, <1>p, <2>2 DEF GenEngine
  <2>3. CASE GenStart(w)
    BY <1>0, <1>p, <2>3 DEF GenStart
  <2>4. CASE GenDone(w)
    BY <1>0, <1>p, <2>4 DEF GenDone
  <2>5. CASE GenFail(w)
    BY <1>0, <1>p, <2>5 DEF GenFail
  <2>6. CASE GenSend(w)
    BY <1>0, <1>p, <2>6 DEF GenSend
  <2>7. CASE GenAppend(w)
    BY <1>0, <1>p, <2>7 DEF GenAppend
  <2>. QED  BY <1>4, <2>1, <2>2, <2>3, <2>4, <2>5, <2>6, <2>7 DEF Generate
<1>5. ASSUME NEW w \in Workers, Close(w) PROVE EngineStays'
  <2>1. CASE CloseMiss(w)
    BY <1>0, <1>p, <2>1 DEF CloseMiss
  <2>2. CASE CloseHit(w)
    BY <1>0, <1>p, <2>2 DEF CloseHit
  <2>3. CASE CloseRemove(w)
    BY <1>0, <1>p, <2>3 DEF CloseRemove
  <2>. QED  BY <1>5, <2>1, <2>2, <2>3 DEF Close
<1>6. ASSUME NEW w \in Workers, Load(w) PROVE EngineStays'
  <2>1. CASE LoadEngine(w)
    BY <1>0, <1>p, <2>1 DEF LoadEngine
  <2>2. CASE LoadLock(w)
    BY <1>0, <1>p, <2>2 DEF LoadLock
  <2>3. CASE LoadClear(w)
    BY <1>0, <1>p, <2>3 DEF LoadClear
  <2>4. CASE LoadClose(w)
    BY <1>0, <1>p, <2>4 DEF LoadClose
  <2>5. CASE LoadOpen(w)
    BY <1>0, <1>p, <2>5 DEF LoadOpen
  <2>6. CASE LoadVocab(w)
    BY <1>0, <1>p, <2>6 DEF LoadVocab
  <2>7. CASE LoadFail(w)
    BY <1>0, <1>p, <2>7 DEF LoadFail
  <2>. QED  BY <1>6, <2>1, <2>2, <2>3, <2>4, <2>5, <2>6, <2>7 DEF Load
<1>7. ASSUME NEW w \in Workers, Health(w) PROVE EngineStays'
  <2>1. CASE HealthSessions(w)
    BY <1>0, <1>p, <2>1 DEF HealthSessions
  <2>2. CASE HealthEngine(w)
    BY <1>0, <1>p, <2>2 DEF HealthEngine
  <2>. QED  BY <1>7, <2>1, <2>2 DEF Health
<1>8. ASSUME NEW w \in Workers, Receive(w) PROVE EngineStays'
  BY <1>0, <1>p, <1>8 DEF Receive, Entry
<1>9. ASSUME NEW w \in Workers, Reply(w) PROVE EngineStays'
  BY <1>0, <1>p, <1>9 DEF Reply
<1>10. CASE ReapLock
  BY <1>0, <1>p, <1>10 DEF ReapLock
<1>11. CASE ReapKeep
  BY <1>0, <1>p, <1>11 DEF ReapKeep
<1>12. CASE ReapRemove
  BY <1>0, <1>p, <1>12 DEF ReapRemove
<1>13. CASE ReapEnd
  BY <1>0, <1>p, <1>13 DEF ReapEnd
<1>14. CASE Tick
  BY <1>0, <1>p, <1>14 DEF Tick
<1>15. CASE UNCHANGED vars
  BY <1>0, <1>p, <1>15 DEF vars
<1>. QED  BY <1>1, <1>2, <1>3, <1>4, <1>5, <1>6, <1>7, <1>8, <1>9, <1>10, <1>11, <1>12, <1>13, <1>14, <1>15 DEF Next, Serve, Reap

(* Steps that leave the table alone keep it well-formed and every lookup.   *)
LEMMA StableKeeps ==
  ASSUME Inv, Stable
  PROVE  TableIsLive' /\ OneSessionPerId' /\ \A i : Has(i)' = Has(i)
<1>0. TypeOK /\ TableIsLive /\ OneSessionPerId
  BY DEF Inv
<1>1. table' = table /\ live' = live /\ \A k \in DOMAIN table : table[k] \in Objs
  BY <1>0 DEF Stable, TypeOK
<1>2. \A o \in Objs : sess'[o].id = sess[o].id
  BY DEF Stable
<1>3. TableIsLive'
  <2>1. \A o \in live' : sess'[o] \in Session
    BY <1>0, <1>1 DEF Stable, TableIsLive, TypeOK
  <2>. QED  BY <1>0, <1>1, <2>1 DEF TableIsLive
<1>4. OneSessionPerId'
  BY <1>0, <1>1, <1>2 DEF OneSessionPerId
<1>5. \A i : Has(i)' = Has(i)
  BY <1>1, <1>2 DEF Has
<1>. QED  BY <1>3, <1>4, <1>5

(* The table stays well-formed and its ids stay distinct. *)
LEMMA TableNext == Inv /\ [Next]_vars => TableIsLive' /\ OneSessionPerId'
BY TableSteps, StableKeeps, RemovesKeeps, CreateNewKeeps DEF TableStep

(* A worker that refers to a session waits for it or holds its mutex. *)
LEMMA SessionOwnerNext == Inv /\ [Next]_vars => SessionOwner'
<1>. SUFFICES ASSUME Inv, [Next]_vars PROVE SessionOwner'
  OBVIOUS
<1>0. TypeOK /\ SessionOwner
  BY DEF Inv
<1>p. /\ pc \in [Threads -> PCs] /\ ref \in [Workers -> Objs \cup {None}]
      /\ mutex \in [Objs -> Threads \cup {None}] /\ best \in [Workers -> Nat]
      /\ sess \in [Objs -> Session \cup {Freed}] /\ prompt \in [Workers -> Seq(Roles)]
      /\ Workers \subseteq Threads /\ Reaper \in Threads /\ Reaper \notin Workers
      /\ None \notin Threads /\ None \notin Objs
  BY <1>0, ThreadsAssumption, ObjsAssumption DEF TypeOK, Threads
<1>. USE DEF SessionOwner, UsePCs, Goto, Answer, locals, tableVars
<1>1. ASSUME NEW w \in Workers, Create(w) PROVE SessionOwner'
  <2>1. CASE CreateLock(w)
    BY <1>0, <1>p, <2>1 DEF CreateLock
  <2>2. CASE CreateScan(w)
    <3>1. /\ pc[w] = "c_scan" /\ idx[w] \in DOMAIN table /\ table[idx[w]] \in Objs
          /\ UNCHANGED <<table, ref, pc>>
      <4>1. pc[w] = "c_scan" /\ UNCHANGED <<table, ref, pc>> /\ idx[w] <= Len(table)
        BY <2>2 DEF CreateScan
      <4>2. idx[w] >= 1
        BY <1>p, <4>1 DEF Inv, ScanIndex
      <4>3. idx[w] \in Nat /\ table \in Seq(Objs)
        BY <1>0, <1>p DEF TypeOK
      <4>. QED  BY <4>1, <4>2, <4>3
    <3>2. \A v \in Workers : v # w => best[v] = 0
      BY <1>0, <1>p, <3>1, OneTableOwner DEF TablePCs
    <3>. DEFINE o == table[idx[w]]
                c == best[w]
    <3>3. \/ mutex' = mutex /\ best' = best
          \/ /\ mutex[o] = None /\ best' = [best EXCEPT ![w] = idx[w]]
             /\ mutex' = [x \in Objs |-> IF x = o THEN w
                                         ELSE IF c > 0 /\ x = table[c] THEN None
                                         ELSE mutex[x]]
      BY <2>2 DEF CreateScan
    <3>4. CASE mutex' = mutex /\ best' = best
      BY <1>0, <3>1, <3>4
    <3>5. CASE /\ mutex[o] = None /\ best' = [best EXCEPT ![w] = idx[w]]
               /\ mutex' = [x \in Objs |-> IF x = o THEN w
                                           ELSE IF c > 0 /\ x = table[c] THEN None
                                           ELSE mutex[x]]
      <4>1. c > 0 => mutex[table[c]] = w
        BY <1>0
      <4>2. ASSUME NEW v \in Workers, pc[v] \in UsePCs PROVE mutex'[ref[v]] = v
        <5>1. v # w /\ ref[v] \in Objs /\ mutex[ref[v]] = v /\ v # None
          BY <1>0, <1>p, <3>1, <4>2
        <5>2. ref[v] # o /\ (c > 0 => ref[v] # table[c])
          BY <3>5, <4>1, <5>1
        <5>3. mutex'[ref[v]] = mutex[ref[v]]
          BY <3>5, <5>1, <5>2
        <5>. QED  BY <5>1, <5>3
      <4>3. best'[w] = idx[w] /\ mutex'[table[idx[w]]] = w
        BY <1>p, <3>1, <3>5
      <4>4. \A v \in Workers : v # w => best'[v] = 0
        BY <1>p, <3>2, <3>5
      <4>. QED  BY <1>0, <3>1, <4>2, <4>3, <4>4
    <3>. QED  BY <3>3, <3>4, <3>5
  <2>3. CASE CreateLimit(w)
    BY <1>0, <1>p, <2>3 DEF CreateLimit
  <2>4. CASE CreateEvict(w)
    BY <2>4, RemovalSteps, RemovesKeeps
  <2>5. CASE CreateReplace(w)
    BY <2>5, RemovalSteps, RemovesKeeps
  <2>6. CASE CreateNew(w)
    BY <2>6, CreateNewKeeps
  <2>7. CASE CreateOutOfMemory(w)
    BY <1>0, <1>p, <2>7 DEF CreateOutOfMemory, IdIsFree
  <2>8. CASE CreateSetup(w)
    BY <1>0, <1>p, <2>8 DEF CreateSetup
  <2>. QED  BY <1>1, <2>1, <2>2, <2>3, <2>4, <2>5, <2>6, <2>7, <2>8 DEF Create
<1>2. ASSUME NEW w \in Workers, Find(w) PROVE SessionOwner'
  <2>1. CASE FindMiss(w)
    BY <1>0, <1>p, <2>1 DEF FindMiss
  <2>2. CASE FindHit(w)
    <3>1. PICK i \in DOMAIN table : ref' = [ref EXCEPT ![w] = table[i]]
      BY <2>2 DEF FindHit, Has
    <3>2. table[i] # None /\ pc[w] = "f_lock" /\ pc' = [pc EXCEPT ![w] = "f_wait"]
          /\ UNCHANGED <<table, mutex, best>>
      BY <1>0, <1>p, <2>2 DEF FindHit, TypeOK
    <3>. QED  BY <1>0, <1>p, <3>1, <3>2
  <2>3. CASE FindAcquire(w)
    BY <1>0, <1>p, <2>3 DEF FindAcquire
  <2>. QED  BY <1>2, <2>1, <2>2, <2>3 DEF Find
<1>3. ASSUME NEW w \in Workers, Edit(w) PROVE SessionOwner'
  <2>1. CASE AppendTurn(w)
    BY <1>0, <1>p, <2>1 DEF AppendTurn, Finish
  <2>2. CASE ReplaceHistory(w)
    BY <1>0, <1>p, <2>2 DEF ReplaceHistory, Finish
  <2>3. CASE ResetSession(w)
    BY <1>0, <1>p, <2>3 DEF ResetSession, Finish
  <2>4. CASE BadParams(w)
    BY <1>0, <1>p, <2>4 DEF BadParams, Finish
  <2>. QED  BY <1>3, <2>1, <2>2, <2>3, <2>4 DEF Edit
<1>4. ASSUME NEW w \in Workers, Generate(w) PROVE SessionOwner'
  <2>1. CASE GenNoModel(w)
    BY <1>0, <1>p, <2>1 DEF GenNoModel
  <2>2. CASE GenEngine(w)
    BY <1>0, <1>p, <2>2 DEF GenEngine
  <2>3. CASE GenStart(w)
    BY <1>0, <1>p, <2>3 DEF GenStart
  <2>4. CASE GenDone(w)
    BY <1>0, <1>p, <2>4 DEF GenDone
  <2>5. CASE GenFail(w)
    BY <1>0, <1>p, <2>5 DEF GenFail
  <2>6. CASE GenSend(w)
    BY <1>0, <1>p, <2>6 DEF GenSend
  <2>7. CASE GenAppend(w)
    BY <1>0, <1>p, <2>7 DEF GenAppend
  <2>. QED  BY <1>4, <2>1, <2>2, <2>3, <2>4, <2>5, <2>6, <2>7 DEF Generate
<1>5. ASSUME NEW w \in Workers, Close(w) PROVE SessionOwner'
  <2>1. CASE CloseMiss(w)
    BY <1>0, <1>p, <2>1 DEF CloseMiss
  <2>2. CASE CloseHit(w)
    BY <1>0, <1>p, <2>2 DEF CloseHit
  <2>3. CASE CloseRemove(w)
    BY <2>3, RemovalSteps, RemovesKeeps
  <2>. QED  BY <1>5, <2>1, <2>2, <2>3 DEF Close
<1>6. ASSUME NEW w \in Workers, Load(w) PROVE SessionOwner'
  <2>1. CASE LoadEngine(w)
    BY <1>0, <1>p, <2>1 DEF LoadEngine
  <2>2. CASE LoadLock(w)
    BY <1>0, <1>p, <2>2 DEF LoadLock
  <2>3. CASE LoadClear(w)
    BY <2>3, RemovalSteps, RemovesKeeps
  <2>4. CASE LoadClose(w)
    BY <1>0, <1>p, <2>4 DEF LoadClose
  <2>5. CASE LoadOpen(w)
    BY <1>0, <1>p, <2>5 DEF LoadOpen
  <2>6. CASE LoadVocab(w)
    BY <1>0, <1>p, <2>6 DEF LoadVocab
  <2>7. CASE LoadFail(w)
    BY <1>0, <1>p, <2>7 DEF LoadFail
  <2>. QED  BY <1>6, <2>1, <2>2, <2>3, <2>4, <2>5, <2>6, <2>7 DEF Load
<1>7. ASSUME NEW w \in Workers, Health(w) PROVE SessionOwner'
  <2>1. CASE HealthSessions(w)
    BY <1>0, <1>p, <2>1 DEF HealthSessions
  <2>2. CASE HealthEngine(w)
    BY <1>0, <1>p, <2>2 DEF HealthEngine
  <2>. QED  BY <1>7, <2>1, <2>2 DEF Health
<1>8. ASSUME NEW w \in Workers, Receive(w) PROVE SessionOwner'
  BY <1>0, <1>p, <1>8 DEF Receive, Entry
<1>9. ASSUME NEW w \in Workers, Reply(w) PROVE SessionOwner'
  BY <1>0, <1>p, <1>9 DEF Reply
<1>10. CASE ReapLock
  BY <1>0, <1>p, <1>10 DEF ReapLock
<1>11. CASE ReapKeep
  BY <1>0, <1>p, <1>11 DEF ReapKeep
<1>12. CASE ReapRemove
  BY <1>12, RemovalSteps, RemovesKeeps
<1>13. CASE ReapEnd
  BY <1>0, <1>p, <1>13 DEF ReapEnd
<1>14. CASE Tick
  BY <1>0, <1>p, <1>14 DEF Tick
<1>15. CASE UNCHANGED vars
  BY <1>0, <1>p, <1>15 DEF vars
<1>. QED  BY <1>1, <1>2, <1>3, <1>4, <1>5, <1>6, <1>7, <1>8, <1>9, <1>10, <1>11, <1>12, <1>13, <1>14, <1>15 DEF Next, Serve, Reap

(* Only the holder of a session's mutex changes its history. *)
LEMMA PromptIsHistoryNext == Inv /\ [Next]_vars => PromptIsHistory'
<1>. SUFFICES ASSUME Inv, [Next]_vars PROVE PromptIsHistory'
  OBVIOUS
<1>0. TypeOK /\ SessionOwner /\ PromptIsHistory
  BY DEF Inv
<1>p. /\ pc \in [Threads -> PCs] /\ ref \in [Workers -> Objs \cup {None}]
      /\ mutex \in [Objs -> Threads \cup {None}] /\ best \in [Workers -> Nat]
      /\ sess \in [Objs -> Session \cup {Freed}] /\ prompt \in [Workers -> Seq(Roles)]
      /\ Workers \subseteq Threads /\ Reaper \in Threads /\ Reaper \notin Workers
      /\ None \notin Threads /\ None \notin Objs
  BY <1>0, ThreadsAssumption, ObjsAssumption DEF TypeOK, Threads
<1>. USE DEF SessionOwner, UsePCs, PromptIsHistory, Goto, Answer, locals, tableVars
<1>1. ASSUME NEW w \in Workers, Create(w) PROVE PromptIsHistory'
  <2>1. CASE CreateLock(w)
    BY <1>0, <1>p, <2>1 DEF CreateLock
  <2>2. CASE CreateScan(w)
    BY <1>0, <1>p, <2>2 DEF CreateScan
  <2>3. CASE CreateLimit(w)
    BY <1>0, <1>p, <2>3 DEF CreateLimit
  <2>4. CASE CreateEvict(w)
    BY <2>4, RemovalSteps, RemovesKeeps
  <2>5. CASE CreateReplace(w)
    BY <2>5, RemovalSteps, RemovesKeeps
  <2>6. CASE CreateNew(w)
    BY <2>6, CreateNewKeeps
  <2>7. CASE CreateOutOfMemory(w)
    BY <1>0, <1>p, <2>7 DEF CreateOutOfMemory, IdIsFree
  <2>8. CASE CreateSetup(w)
    BY <1>0, <1>p, <2>8 DEF CreateSetup
  <2>. QED  BY <1>1, <2>1, <2>2, <2>3, <2>4, <2>5, <2>6, <2>7, <2>8 DEF Create
<1>2. ASSUME NEW w \in Workers, Find(w) PROVE PromptIsHistory'
  <2>1. CASE FindMiss(w)
    BY <1>0, <1>p, <2>1 DEF FindMiss
  <2>2. CASE FindHit(w)
    BY <1>0, <1>p, <2>2 DEF FindHit
  <2>3. CASE FindAcquire(w)
    BY <1>0, <1>p, <2>3 DEF FindAcquire
  <2>. QED  BY <1>2, <2>1, <2>2, <2>3 DEF Find
<1>3. ASSUME NEW w \in Workers, Edit(w) PROVE PromptIsHistory'
  <2>1. CASE AppendTurn(w)
    <3>1. /\ pc[w] = "held" /\ pc' = [pc EXCEPT ![w] = "reply"] /\ prompt' = prompt
          /\ ref' = [ref EXCEPT ![w] = None]
          /\ \A o \in Objs : o # ref[w] => sess'[o] = sess[o]
      BY <1>p, <2>1 DEF AppendTurn, Finish
    <3>2. ASSUME NEW v \in Workers, v # w, pc[v] \in UsePCs PROVE ref[v] # ref[w] /\ ref[v] \in Objs
      BY <1>0, <1>p, <3>1, <3>2
    <3>. QED  BY <1>0, <1>p, <3>1, <3>2
  <2>2. CASE ReplaceHistory(w)
    BY <1>0, <1>p, <2>2 DEF ReplaceHistory, Finish
  <2>3. CASE ResetSession(w)
    BY <1>0, <1>p, <2>3 DEF ResetSession, Finish
  <2>4. CASE BadParams(w)
    BY <1>0, <1>p, <2>4 DEF BadParams, Finish
  <2>. QED  BY <1>3, <2>1, <2>2, <2>3, <2>4 DEF Edit
<1>4. ASSUME NEW w \in Workers, Generate(w) PROVE PromptIsHistory'
  <2>1. CASE GenNoModel(w)
    BY <1>0, <1>p, <2>1 DEF GenNoModel
  <2>2. CASE GenEngine(w)
    BY <1>0, <1>p, <2>2 DEF GenEngine
  <2>3. CASE GenStart(w)
    BY <1>0, <1>p, <2>3 DEF GenStart
  <2>4. CASE GenDone(w)
    BY <1>0, <1>p, <2>4 DEF GenDone
  <2>5. CASE GenFail(w)
    BY <1>0, <1>p, <2>5 DEF GenFail
  <2>6. CASE GenSend(w)
    BY <1>0, <1>p, <2>6 DEF GenSend
  <2>7. CASE GenAppend(w)
    BY <1>0, <1>p, <2>7 DEF GenAppend
  <2>. QED  BY <1>4, <2>1, <2>2, <2>3, <2>4, <2>5, <2>6, <2>7 DEF Generate
<1>5. ASSUME NEW w \in Workers, Close(w) PROVE PromptIsHistory'
  <2>1. CASE CloseMiss(w)
    BY <1>0, <1>p, <2>1 DEF CloseMiss
  <2>2. CASE CloseHit(w)
    BY <1>0, <1>p, <2>2 DEF CloseHit
  <2>3. CASE CloseRemove(w)
    BY <2>3, RemovalSteps, RemovesKeeps
  <2>. QED  BY <1>5, <2>1, <2>2, <2>3 DEF Close
<1>6. ASSUME NEW w \in Workers, Load(w) PROVE PromptIsHistory'
  <2>1. CASE LoadEngine(w)
    BY <1>0, <1>p, <2>1 DEF LoadEngine
  <2>2. CASE LoadLock(w)
    BY <1>0, <1>p, <2>2 DEF LoadLock
  <2>3. CASE LoadClear(w)
    BY <2>3, RemovalSteps, RemovesKeeps
  <2>4. CASE LoadClose(w)
    BY <1>0, <1>p, <2>4 DEF LoadClose
  <2>5. CASE LoadOpen(w)
    BY <1>0, <1>p, <2>5 DEF LoadOpen
  <2>6. CASE LoadVocab(w)
    BY <1>0, <1>p, <2>6 DEF LoadVocab
  <2>7. CASE LoadFail(w)
    BY <1>0, <1>p, <2>7 DEF LoadFail
  <2>. QED  BY <1>6, <2>1, <2>2, <2>3, <2>4, <2>5, <2>6, <2>7 DEF Load
<1>7. ASSUME NEW w \in Workers, Health(w) PROVE PromptIsHistory'
  <2>1. CASE HealthSessions(w)
    BY <1>0, <1>p, <2>1 DEF HealthSessions
  <2>2. CASE HealthEngine(w)
    BY <1>0, <1>p, <2>2 DEF HealthEngine
  <2>. QED  BY <1>7, <2>1, <2>2 DEF Health
<1>8. ASSUME NEW w \in Workers, Receive(w) PROVE PromptIsHistory'
  BY <1>0, <1>p, <1>8 DEF Receive, Entry
<1>9. ASSUME NEW w \in Workers, Reply(w) PROVE PromptIsHistory'
  BY <1>0, <1>p, <1>9 DEF Reply
<1>10. CASE ReapLock
  BY <1>0, <1>p, <1>10 DEF ReapLock
<1>11. CASE ReapKeep
  BY <1>0, <1>p, <1>11 DEF ReapKeep
<1>12. CASE ReapRemove
  BY <1>12, RemovalSteps, RemovesKeeps
<1>13. CASE ReapEnd
  BY <1>0, <1>p, <1>13 DEF ReapEnd
<1>14. CASE Tick
  BY <1>0, <1>p, <1>14 DEF Tick
<1>15. CASE UNCHANGED vars
  BY <1>0, <1>p, <1>15 DEF vars
<1>. QED  BY <1>1, <1>2, <1>3, <1>4, <1>5, <1>6, <1>7, <1>8, <1>9, <1>10, <1>11, <1>12, <1>13, <1>14, <1>15 DEF Next, Serve, Reap

(* What is left to prove of the steps that leave the table alone: a worker   *)
(* keeps, drops or takes from the table its reference; close_session takes   *)
(* an index, and its request does not change.                               *)
Borrows ==
  \A w \in Workers :
    /\ ref'[w] \in {None, ref[w]} \/ \E i \in DOMAIN table : ref'[w] = table[i]
    /\ pc'[w] = "c_new" => pc[w] = "c_new" /\ req'[w] = req[w]
    /\ pc'[w] = "x_wait" =>
         \/ pc[w] = "x_wait" /\ req'[w] = req[w] /\ idx'[w] = idx[w]
         \/ idx'[w] \in Has(req[w].id) /\ req'[w] = req[w]

(* The steps already dealt with. *)
TableChange ==
  (\E t \in Threads, i \in DOMAIN table : Removes(t, i)) \/ \E w \in Workers : CreateNew(w)

(* Steps that do not change the table borrow from it properly. *)
LEMMA BorrowSteps == Inv /\ [Next]_vars => Borrows \/ TableChange
<1>. SUFFICES ASSUME Inv, [Next]_vars PROVE Borrows \/ TableChange
  OBVIOUS
<1>0. TypeOK
  BY DEF Inv
<1>p. /\ pc \in [Threads -> PCs] /\ ref \in [Workers -> Objs \cup {None}]
      /\ req \in [Workers -> Requests \cup {NoRequest}] /\ idx \in [Threads -> Nat]
      /\ Workers \subseteq Threads /\ Reaper \in Threads /\ Reaper \notin Workers
      /\ \A k \in DOMAIN table : table[k] \in Objs
  BY <1>0, ThreadsAssumption DEF TypeOK, Threads
<1>. USE DEF Borrows, Goto, Answer, locals
<1>1. ASSUME NEW w \in Workers, Create(w) PROVE Borrows \/ TableChange
  <2>1. CASE CreateLock(w)
    BY <1>0, <1>p, <2>1 DEF CreateLock
  <2>2. CASE CreateScan(w)
    BY <1>0, <1>p, <2>2 DEF CreateScan
  <2>3. CASE CreateLimit(w)
    BY <1>0, <1>p, <2>3 DEF CreateLimit
  <2>4. CASE CreateEvict(w)
    BY <2>4, RemovalSteps DEF TableChange
  <2>5. CASE CreateReplace(w)
    BY <2>5, RemovalSteps DEF TableChange
  <2>6. CASE CreateNew(w)
    BY <2>6 DEF TableChange
  <2>7. CASE CreateOutOfMemory(w)
    BY <1>0, <1>p, <2>7 DEF CreateOutOfMemory, IdIsFree
  <2>8. CASE CreateSetup(w)
    BY <1>0, <1>p, <2>8 DEF CreateSetup
  <2>. QED  BY <1>1, <2>1, <2>2, <2>3, <2>4, <2>5, <2>6, <2>7, <2>8 DEF Create
<1>2. ASSUME NEW w \in Workers, Find(w) PROVE Borrows \/ TableChange
  <2>1. CASE FindMiss(w)
    BY <1>0, <1>p, <2>1 DEF FindMiss
  <2>2. CASE FindHit(w)
    <3>1. PICK i \in DOMAIN table : ref' = [ref EXCEPT ![w] = table[i]]
      BY <2>2 DEF FindHit, Has
    <3>2. pc' = [pc EXCEPT ![w] = "f_wait"] /\ UNCHANGED <<req, idx>>
      BY <2>2 DEF FindHit
    <3>. QED  BY <1>0, <1>p, <3>1, <3>2
  <2>3. CASE FindAcquire(w)
    BY <1>0, <1>p, <2>3 DEF FindAcquire
  <2>. QED  BY <1>2, <2>1, <2>2, <2>3 DEF Find
<1>3. ASSUME NEW w \in Workers, Edit(w) PROVE Borrows \/ TableChange
  <2>1. CASE AppendTurn(w)
    BY <1>0, <1>p, <2>1 DEF AppendTurn, Finish
  <2>2. CASE ReplaceHistory(w)
    BY <1>0, <1>p, <2>2 DEF ReplaceHistory, Finish
  <2>3. CASE ResetSession(w)
    BY <1>0, <1>p, <2>3 DEF ResetSession, Finish
  <2>4. CASE BadParams(w)
    BY <1>0, <1>p, <2>4 DEF BadParams, Finish
  <2>. QED  BY <1>3, <2>1, <2>2, <2>3, <2>4 DEF Edit
<1>4. ASSUME NEW w \in Workers, Generate(w) PROVE Borrows \/ TableChange
  <2>1. CASE GenNoModel(w)
    BY <1>0, <1>p, <2>1 DEF GenNoModel
  <2>2. CASE GenEngine(w)
    BY <1>0, <1>p, <2>2 DEF GenEngine
  <2>3. CASE GenStart(w)
    BY <1>0, <1>p, <2>3 DEF GenStart
  <2>4. CASE GenDone(w)
    BY <1>0, <1>p, <2>4 DEF GenDone
  <2>5. CASE GenFail(w)
    BY <1>0, <1>p, <2>5 DEF GenFail
  <2>6. CASE GenSend(w)
    BY <1>0, <1>p, <2>6 DEF GenSend
  <2>7. CASE GenAppend(w)
    BY <1>0, <1>p, <2>7 DEF GenAppend
  <2>. QED  BY <1>4, <2>1, <2>2, <2>3, <2>4, <2>5, <2>6, <2>7 DEF Generate
<1>5. ASSUME NEW w \in Workers, Close(w) PROVE Borrows \/ TableChange
  <2>1. CASE CloseMiss(w)
    BY <1>0, <1>p, <2>1 DEF CloseMiss
  <2>2. CASE CloseHit(w)
    BY <1>0, <1>p, <2>2 DEF CloseHit
  <2>3. CASE CloseRemove(w)
    BY <2>3, RemovalSteps DEF TableChange
  <2>. QED  BY <1>5, <2>1, <2>2, <2>3 DEF Close
<1>6. ASSUME NEW w \in Workers, Load(w) PROVE Borrows \/ TableChange
  <2>1. CASE LoadEngine(w)
    BY <1>0, <1>p, <2>1 DEF LoadEngine
  <2>2. CASE LoadLock(w)
    BY <1>0, <1>p, <2>2 DEF LoadLock
  <2>3. CASE LoadClear(w)
    BY <2>3, RemovalSteps DEF TableChange
  <2>4. CASE LoadClose(w)
    BY <1>0, <1>p, <2>4 DEF LoadClose
  <2>5. CASE LoadOpen(w)
    BY <1>0, <1>p, <2>5 DEF LoadOpen
  <2>6. CASE LoadVocab(w)
    BY <1>0, <1>p, <2>6 DEF LoadVocab
  <2>7. CASE LoadFail(w)
    BY <1>0, <1>p, <2>7 DEF LoadFail
  <2>. QED  BY <1>6, <2>1, <2>2, <2>3, <2>4, <2>5, <2>6, <2>7 DEF Load
<1>7. ASSUME NEW w \in Workers, Health(w) PROVE Borrows \/ TableChange
  <2>1. CASE HealthSessions(w)
    BY <1>0, <1>p, <2>1 DEF HealthSessions
  <2>2. CASE HealthEngine(w)
    BY <1>0, <1>p, <2>2 DEF HealthEngine
  <2>. QED  BY <1>7, <2>1, <2>2 DEF Health
<1>8. ASSUME NEW w \in Workers, Receive(w) PROVE Borrows \/ TableChange
  BY <1>0, <1>p, <1>8 DEF Receive, Entry
<1>9. ASSUME NEW w \in Workers, Reply(w) PROVE Borrows \/ TableChange
  BY <1>0, <1>p, <1>9 DEF Reply
<1>10. CASE ReapLock
  BY <1>0, <1>p, <1>10 DEF ReapLock
<1>11. CASE ReapKeep
  BY <1>0, <1>p, <1>11 DEF ReapKeep
<1>12. CASE ReapRemove
  BY <1>12, RemovalSteps DEF TableChange
<1>13. CASE ReapEnd
  BY <1>0, <1>p, <1>13 DEF ReapEnd
<1>14. CASE Tick
  BY <1>0, <1>p, <1>14 DEF Tick
<1>15. CASE UNCHANGED vars
  BY <1>0, <1>p, <1>15 DEF vars
<1>. QED  BY <1>1, <1>2, <1>3, <1>4, <1>5, <1>6, <1>7, <1>8, <1>9, <1>10, <1>11, <1>12, <1>13, <1>14, <1>15 DEF Next, Serve, Reap

(* Such a step leaves every reference and index pointing into the table. *)
LEMMA StableBorrowsKeep ==
  ASSUME Inv, Stable, Borrows
  PROVE  NoUseAfterFree' /\ IdStaysFree'
<1>0. TypeOK /\ NoUseAfterFree /\ IdStaysFree
  BY DEF Inv
<1>1. table' = table /\ live' = live /\ \A i : Has(i)' = Has(i)
  BY StableKeeps DEF Stable
<1>2. \A k \in DOMAIN table : table[k] \in Objs /\ sess'[table[k]].id = sess[table[k]].id
  BY <1>0 DEF Stable, TypeOK
<1>3. IdStaysFree'
  <2>. SUFFICES ASSUME NEW w \in Workers, pc'[w] = "c_new"
                PROVE  \A k \in DOMAIN table' : sess'[table'[k]].id # req'[w].id
    BY DEF IdStaysFree, Has
  <2>1. pc[w] = "c_new" /\ req'[w] = req[w]
    BY DEF Borrows
  <2>2. Has(req[w].id) = {}
    BY <1>0, <2>1 DEF IdStaysFree
  <2>. QED  BY <1>1, <1>2, <2>1, <2>2 DEF Has
<1>4. NoUseAfterFree'
  <2>1. ASSUME NEW w \in Workers, ref'[w] # None
        PROVE  \E i \in DOMAIN table' : table'[i] = ref'[w]
    BY <1>0, <1>1, <2>1 DEF NoUseAfterFree, Borrows
  <2>2. ASSUME NEW w \in Workers, pc'[w] = "x_wait"
        PROVE  idx'[w] \in DOMAIN table' /\ sess'[table'[idx'[w]]].id = req'[w].id
    <3>1. \/ pc[w] = "x_wait" /\ req'[w] = req[w] /\ idx'[w] = idx[w]
          \/ idx'[w] \in Has(req[w].id) /\ req'[w] = req[w]
      BY <2>2 DEF Borrows
    <3>2. idx'[w] \in DOMAIN table /\ sess[table[idx'[w]]].id = req'[w].id
      BY <1>0, <3>1 DEF NoUseAfterFree, Has
    <3>. QED  BY <1>1, <1>2, <3>2
  <2>. QED  BY <1>0, <1>1, <2>1, <2>2 DEF NoUseAfterFree
<1>. QED  BY <1>3, <1>4

(* No step leaves a thread with a freed session. *)
LEMMA UseNext == Inv /\ [Next]_vars => NoUseAfterFree' /\ IdStaysFree'
BY TableSteps, BorrowSteps, StableBorrowsKeep, RemovesKeeps, CreateNewKeeps
   DEF TableStep, TableChange
-----------------------------------------------------------------------------
(* The invariant, and what follows from it. *)

(* The invariant holds initially ... *)
LEMMA InvInit == Init => Inv
<1>. SUFFICES ASSUME Init PROVE Inv
  OBVIOUS
<1>1. TypeOK
  BY TypeInit
<1>2. /\ \A t \in Threads : pc[t] = "idle" /\ \A w \in Workers : w \in Threads
      /\ \A w \in Workers : pc[w] = "idle" /\ ref[w] = None /\ best[w] = 0 /\ req[w] = NoRequest
      /\ table = <<>> /\ live = {} /\ engineMutex = None /\ sessionsMutex = None
  BY DEF Init, Threads
<1>3. DOMAIN table = {}
  BY <1>2
<1>4. ServesItsRequest /\ EngineStays /\ IdStaysFree /\ PromptIsHistory
  BY <1>2 DEF ServesItsRequest, EngineStays, IdStaysFree, PromptIsHistory, NoRequest
<1>5. TableOwner /\ EngineOwner
  BY <1>2, ThreadsAssumption
     DEF TableOwner, EngineOwner, UsesEngine, TablePCs, NoRequest, Threads
<1>6. SessionOwner /\ ScanIndex
  BY <1>2 DEF SessionOwner, ScanIndex, UsePCs
<1>7. TableIsLive /\ NoUseAfterFree /\ OneSessionPerId
  BY <1>2, <1>3 DEF TableIsLive, NoUseAfterFree, OneSessionPerId
<1>. QED  BY <1>1, <1>4, <1>5, <1>6, <1>7 DEF Inv

(* ... and every step preserves it. *)
LEMMA InvNext == Inv /\ [Next]_vars => Inv'
<1>. SUFFICES ASSUME Inv, [Next]_vars PROVE Inv'
  OBVIOUS
<1>1. TypeOK' /\ ServesItsRequest' /\ TableOwner' /\ EngineOwner'
  BY TypeNext, ServesItsRequestNext, TableOwnerNext, EngineOwnerNext
<1>2. SessionOwner' /\ ScanIndex' /\ EngineStays' /\ PromptIsHistory'
  BY SessionOwnerNext, ScanIndexNext, EngineStaysNext, PromptIsHistoryNext
<1>3. TableIsLive' /\ OneSessionPerId' /\ NoUseAfterFree' /\ IdStaysFree'
  BY TableNext, UseNext
<1>. QED  BY <1>1, <1>2, <1>3 DEF Inv

(* The inductive invariant holds throughout: the mutexes are held exactly    *)
(* where the program counters say, and a session in use is in the table.    *)
THEOREM Invariant == Spec => []Inv
BY InvInit, InvNext, PTL DEF Spec

(* Every variable keeps its type. *)
THEOREM TypeCorrect == Spec => []TypeOK
<1>1. Inv => TypeOK
  BY DEF Inv
<1>. QED  BY <1>1, Invariant, PTL

(* For any number of workers, sessions and requests no handler is left with  *)
(* a session_t that close_session, create_session, load_model or the reaper  *)
(* has freed.                                                               *)
THEOREM NoHandlerUsesFreed == Spec => []NoUseAfterFree
<1>1. Inv => NoUseAfterFree
  BY DEF Inv
<1>. QED  BY <1>1, Invariant, PTL

(* No id ever names two sessions. *)
THEOREM IdsAreUnique == Spec => []OneSessionPerId
<1>1. Inv => OneSessionPerId
  BY DEF Inv
<1>. QED  BY <1>1, Invariant, PTL

(* While a generate runs, answers and appends, its session's history is the  *)
(* one its prompt was built from.                                           *)
THEOREM TurnsAreAtomic == Spec => []PromptIsHistory
<1>1. Inv => PromptIsHistory
  BY DEF Inv
<1>. QED  BY <1>1, Invariant, PTL

(* Only the owner of engine_mutex closes or opens the engine. *)
LEMMA EngineSteps ==
  ASSUME Inv, [Next]_vars, engine' # engine
  PROVE  \E v \in Workers : engineMutex = v /\ pc[v] \in {"l_clear", "l_open"}
<1>1. PICK v \in Workers : LoadClose(v) \/ LoadOpen(v)
  <2>. USE DEF modelVars
  <2>1. ASSUME NEW v \in Workers, Receive(v) \/ Serve(v)
        PROVE  engine' = engine \/ LoadClose(v) \/ LoadOpen(v)
    <3>1. CASE Create(v)
      BY <3>1 DEF Create, CreateLock, CreateScan, CreateLimit, CreateEvict, CreateReplace,
                  CreateNew, CreateOutOfMemory, CreateSetup
    <3>2. CASE Find(v) \/ Edit(v)
      BY <3>2 DEF Find, FindMiss, FindHit, FindAcquire, Edit, AppendTurn, ReplaceHistory,
                  ResetSession, BadParams, Finish
    <3>3. CASE Generate(v)
      BY <3>3 DEF Generate, GenNoModel, GenEngine, GenStart, GenDone, GenFail, GenSend, GenAppend
    <3>4. CASE Close(v) \/ Health(v)
      BY <3>4 DEF Close, CloseMiss, CloseHit, CloseRemove, Health, HealthSessions, HealthEngine
    <3>5. CASE Load(v)
      BY <3>5 DEF Load, LoadEngine, LoadLock, LoadClear, LoadVocab, LoadFail
    <3>6. CASE Receive(v) \/ Reply(v)
      BY <3>6 DEF Receive, Reply
    <3>. QED  BY <2>1, <3>1, <3>2, <3>3, <3>4, <3>5, <3>6 DEF Serve
  <2>2. Reap \/ Tick \/ UNCHANGED vars => engine' = engine
    BY DEF Reap, ReapLock, ReapKeep, ReapRemove, ReapEnd, Tick, vars
  <2>. QED  BY <2>1, <2>2 DEF Next
<1>2. pc[v] \in {"l_clear", "l_open"}
  BY <1>1 DEF LoadClose, LoadOpen
<1>3. engineMutex = v
  BY <1>2 DEF Inv, EngineOwner, UsesEngine
<1>. QED  BY <1>2, <1>3

(* A generate keeps the engine it was checked against until it is done. *)
THEOREM EngineIsKept == Spec => GenerateKeepsEngine
<1>1. Inv /\ [Next]_vars =>
        [\A w \in Workers : pc[w] = "g_run" => engine # None /\ engine' = engine]_vars
  <2>. SUFFICES ASSUME Inv, [Next]_vars, NEW w \in Workers, pc[w] = "g_run"
                PROVE  engine # None /\ engine' = engine
    OBVIOUS
  <2>1. req[w].op = "generate" /\ engineMutex = w
    BY DEF Inv, ServesItsRequest, EngineOwner, UsesEngine
  <2>2. engine # None
    BY <2>1 DEF Inv, EngineStays
  <2>3. engine' = engine
    <3>1. ASSUME engine' # engine PROVE FALSE
      <4>1. PICK v \in Workers : engineMutex = v /\ pc[v] \in {"l_clear", "l_open"}
        BY <3>1, EngineSteps
      <4>. QED  BY <2>1, <4>1
    <3>. QED  BY <3>1
  <2>. QED  BY <2>2, <2>3
<1>. QED  BY <1>1, Invariant, PTL DEF Spec, GenerateKeepsEngine
-----------------------------------------------------------------------------
(* The limit.  A create that has passed the test or evicted a session keeps  *)
(* sessions_mutex until it has appended, so the room it found is still there. *)
Room ==
  MaxSessions > 0 =>
    /\ Len(table) <= MaxSessions
    /\ \A w \in Workers : pc[w] \in {"c_find", "c_new"} => Len(table) < MaxSessions

(* A create is past the test because there was room or an entry went away. *)
LEMMA RoomIsFound ==
  ASSUME Inv, [Next]_vars, NEW w \in Workers, pc'[w] \in {"c_find", "c_new"}
  PROVE  \/ pc[w] \in {"c_find", "c_new"}
         \/ ~AtLimit
         \/ \E t \in Threads, i \in DOMAIN table : Removes(t, i)
<1>. DEFINE Goal == \/ pc[w] \in {"c_find", "c_new"}
                    \/ ~AtLimit
                    \/ \E t \in Threads, i \in DOMAIN table : Removes(t, i)
<1>0. pc \in [Threads -> PCs] /\ Workers \subseteq Threads /\ Reaper \in Threads
      /\ Reaper \notin Workers
  BY ThreadsAssumption DEF Inv, TypeOK, Threads
<1>. USE <1>0 DEF Goto, Answer, locals
<1>1. ASSUME NEW v \in Workers, Create(v) PROVE Goal
  <2>1. CASE CreateEvict(v) \/ CreateReplace(v)
    BY <2>1, RemovalSteps
  <2>2. CASE CreateLock(v)
    BY <2>2 DEF CreateLock
  <2>3. CASE CreateScan(v) \/ CreateLimit(v)
    BY <2>3 DEF CreateScan, CreateLimit
  <2>4. CASE CreateNew(v) \/ CreateOutOfMemory(v) \/ CreateSetup(v)
    BY <2>4 DEF CreateNew, CreateOutOfMemory, CreateSetup
  <2>. QED  BY <1>1, <2>1, <2>2, <2>3, <2>4 DEF Create
<1>2. ASSUME NEW v \in Workers, Find(v) \/ Edit(v) PROVE Goal
  <2>1. CASE Find(v)
    BY <2>1 DEF Find, FindMiss, FindHit, FindAcquire
  <2>2. CASE Edit(v)
    BY <2>2 DEF Edit, AppendTurn, ReplaceHistory, ResetSession, BadParams, Finish
  <2>. QED  BY <1>2, <2>1, <2>2
<1>3. ASSUME NEW v \in Workers, Generate(v) PROVE Goal
  <2>1. CASE GenNoModel(v) \/ GenEngine(v) \/ GenStart(v)
    BY <2>1 DEF GenNoModel, GenEngine, GenStart
  <2>2. CASE GenDone(v) \/ GenFail(v)
    BY <2>2 DEF GenDone, GenFail
  <2>3. CASE GenSend(v) \/ GenAppend(v)
    BY <2>3 DEF GenSend, GenAppend
  <2>. QED  BY <1>3, <2>1, <2>2, <2>3 DEF Generate
<1>4. ASSUME NEW v \in Workers, Close(v) \/ Health(v) PROVE Goal
  BY <1>4 DEF Close, CloseMiss, CloseHit, CloseRemove, Health, HealthSessions, HealthEngine
<1>5. ASSUME NEW v \in Workers, Load(v) PROVE Goal
  <2>1. CASE LoadEngine(v) \/ LoadLock(v) \/ LoadClear(v)
    BY <2>1 DEF LoadEngine, LoadLock, LoadClear
  <2>2. CASE LoadClose(v) \/ LoadOpen(v) \/ LoadVocab(v) \/ LoadFail(v)
    BY <2>2 DEF LoadClose, LoadOpen, LoadVocab, LoadFail
  <2>. QED  BY <1>5, <2>1, <2>2 DEF Load
<1>6. ASSUME NEW v \in Workers, Receive(v) \/ Reply(v) PROVE Goal
  BY <1>6 DEF Receive, Entry, Reply
<1>7. ASSUME Reap \/ Tick \/ UNCHANGED vars PROVE Goal
  BY <1>7 DEF Reap, ReapLock, ReapKeep, ReapRemove, ReapEnd, Tick, vars
<1>. QED  BY <1>1, <1>2, <1>3, <1>4, <1>5, <1>6, <1>7 DEF Next, Serve

(* An append takes the room that was found, a removal makes room. *)
LEMMA RoomNext == Inv /\ Room /\ [Next]_vars => Room'
<1>. SUFFICES ASSUME Inv, Room, [Next]_vars, MaxSessions > 0
              PROVE  /\ Len(table') <= MaxSessions
                     /\ \A w \in Workers : pc'[w] \in {"c_find", "c_new"} => Len(table') < MaxSessions
  BY DEF Room
<1>0. /\ table \in Seq(Objs) /\ Len(table) \in Nat /\ DOMAIN table = 1..Len(table)
      /\ pc \in [Threads -> PCs] /\ Workers \subseteq Threads
      /\ MaxSessions \in Nat
  BY LimitsAssumption DEF Inv, TypeOK, Threads
<1>1. Len(table) <= MaxSessions
      /\ \A w \in Workers : pc[w] \in {"c_find", "c_new"} => Len(table) < MaxSessions
  BY DEF Room
<1>2. ASSUME NEW t \in Threads, NEW i \in DOMAIN table, Removes(t, i)
      PROVE  Len(table') < MaxSessions
  <2>1. table' = [j \in 1..(Len(table) - 1) |-> IF j = i THEN table[Len(table)] ELSE table[j]]
    BY <1>2 DEF Removes, RemoveAt
  <2>2. Len(table) - 1 \in Nat /\ \A j \in 1..Len(table) : table[j] \in Objs
    BY <1>0, <1>2
  <2>3. Len(table') = Len(table) - 1
    BY <2>1, <2>2, <1>0
  <2>. QED  BY <1>0, <1>1, <2>3
<1>3. ASSUME NEW v \in Workers, CreateNew(v)
      PROVE  /\ Len(table') <= MaxSessions
             /\ \A w \in Workers : pc'[w] \notin {"c_find", "c_new"}
  <2>1. pc[v] \in {"c_find", "c_new"} /\ pc' = [pc EXCEPT ![v] = "c_setup"]
    BY <1>3 DEF CreateNew, IdIsFree, Goto
  <2>2. PICK o \in Objs : table' = Append(table, o)
    BY <1>3 DEF CreateNew
  <2>3. Len(table') = Len(table) + 1
    BY <1>0, <2>2
  <2>4. ASSUME NEW w \in Workers, w # v PROVE pc[w] \notin {"c_find", "c_new"}
    BY <1>0, <2>1, <2>4, OneTableOwner DEF TablePCs
  <2>. QED  BY <1>0, <1>1, <2>1, <2>3, <2>4
<1>4. CASE Stable
  BY <1>0, <1>1, <1>2, <1>4, RoomIsFound DEF Stable, AtLimit
<1>. QED  BY <1>0, <1>2, <1>3, <1>4, TableSteps DEF TableStep

(* There are never more sessions than --max-sessions allows. *)
THEOREM LimitIsKept == Spec => []WithinLimit
<1>1. Init => Room
  BY LimitsAssumption DEF Init, Room, Threads
<1>2. Room => WithinLimit
  BY DEF Room, WithinLimit
<1>. QED  BY <1>1, <1>2, Invariant, RoomNext, PTL DEF Spec
-----------------------------------------------------------------------------
(* The provider.  A worker's session is the one its request names, and so a  *)
(* create tells the provider of the id of the session it appended.          *)
RefIsNamed ==
  \A w \in Workers : ref[w] # None => sess[ref[w]].id = req[w].id

(* What the steps that neither remove nor append an entry do to the provider: *)
(* a session it has been told of stays marked, and an id it is told is the id *)
(* of a session a worker has, which is marked.                               *)
Tells ==
  /\ \A o \in Objs : sess[o].created => sess'[o].created
  /\ \A p \in provider' \ provider :
       \E w \in Workers : ref[w] # None /\ sess[ref[w]].id = p /\ sess'[ref[w]].created
  /\ \A w \in Workers : ref'[w] # None =>
       /\ ref'[w] = ref[w] \/ \E i \in Has(req[w].id) : ref'[w] = table[i]
       /\ req'[w] = req[w]

(* Every step that leaves the table's entries alone is of this kind. *)
LEMMA TellSteps ==
  Inv /\ RefIsNamed /\ [Next]_vars => Tells \/ TableChange
<1>. SUFFICES ASSUME Inv, RefIsNamed, [Next]_vars PROVE Tells \/ TableChange
  OBVIOUS
<1>0. /\ pc \in [Threads -> PCs] /\ sess \in [Objs -> Session \cup {Freed}]
      /\ Workers \subseteq Threads /\ Reaper \in Threads /\ Reaper \notin Workers
  BY ThreadsAssumption DEF Inv, TypeOK, Threads
<1>r. ref \in [Workers -> Objs \cup {None}] /\ req \in [Workers -> Requests \cup {NoRequest}]
  BY DEF Inv, TypeOK
<1>a. ASSUME NEW w \in Workers, pc[w] \in UsePCs
      PROVE  ref[w] # None /\ ref[w] \in Objs /\ sess[ref[w]] \in Session
  BY <1>a, RefIsSession DEF Inv, SessionOwner
<1>. USE <1>0 DEF Tells, Goto, Answer, locals, tableVars
<1>1. ASSUME NEW v \in Workers, Create(v) PROVE Tells \/ TableChange
  <2>1. CASE CreateEvict(v) \/ CreateReplace(v)
    BY <2>1, RemovalSteps DEF TableChange
  <2>2. CASE CreateNew(v)
    BY <2>2 DEF TableChange
  <2>3. CASE CreateLock(v) \/ CreateScan(v) \/ CreateLimit(v) \/ CreateOutOfMemory(v)
    BY <2>3 DEF CreateLock, CreateScan, CreateLimit, CreateOutOfMemory
  <2>4. CASE CreateSetup(v)
    <3>1. sess[ref[v]].id = req[v].id /\ ref[v] # None /\ sess' = [sess EXCEPT ![ref[v]].created = TRUE]
          /\ ref[v] \in Objs /\ sess[ref[v]] \in Session
      BY <1>a, <2>4 DEF CreateSetup, RefIsNamed, UsePCs
    <3>2. sess'[ref[v]].created /\ \A o \in Objs : o # ref[v] => sess'[o] = sess[o]
      BY <3>1 DEF Session
    <3>3. provider' \subseteq provider \cup {sess[ref[v]].id}
      BY <2>4, <3>1 DEF CreateSetup
    <3>. QED  BY <2>4, <3>1, <3>2, <3>3 DEF CreateSetup
  <2>. QED  BY <1>1, <2>1, <2>2, <2>3, <2>4 DEF Create
<1>2. ASSUME NEW v \in Workers, Find(v) PROVE Tells
  <2>1. CASE FindMiss(v)
    BY <2>1 DEF FindMiss
  <2>2. CASE FindHit(v)
    <3>1. /\ req' = req /\ \A w \in Workers \ {v} : ref'[w] = ref[w]
          /\ \E i \in Has(req[v].id) : ref'[v] = table[i]
      BY <1>r, <2>2 DEF FindHit
    <3>. QED  BY <2>2, <3>1 DEF FindHit
  <2>3. CASE FindAcquire(v)
    BY <2>3 DEF FindAcquire
  <2>. QED  BY <1>2, <2>1, <2>2, <2>3 DEF Find
<1>b. ASSUME NEW v \in Workers, pc[v] \in UsePCs, NEW h, NEW t,
             \/ sess' = [sess EXCEPT ![ref[v]].hist = h, ![ref[v]].active = t]
             \/ sess' = [sess EXCEPT ![ref[v]].hist = h]
             \/ sess' = [sess EXCEPT ![ref[v]].active = t]
      PROVE  \A o \in Objs : sess[o].created => sess'[o].created
  <2>. DEFINE s == sess[ref[v]]
  <2>1. s \in Session /\ ref[v] \in Objs
    BY <1>a, <1>b
  <2>2. \/ sess'[ref[v]] = [s EXCEPT !.hist = h, !.active = t]
        \/ sess'[ref[v]] = [s EXCEPT !.hist = h]
        \/ sess'[ref[v]] = [s EXCEPT !.active = t]
    BY <1>b, <2>1
  <2>3. \A o \in Objs : o # ref[v] => sess'[o] = sess[o]
    BY <1>b
  <2>4. sess'[ref[v]].created = s.created
    <3>. HIDE DEF s
    <3>. QED  BY <2>1, <2>2 DEF Session
  <2>. QED  BY <2>3, <2>4
<1>3. ASSUME NEW v \in Workers, Edit(v) PROVE Tells
  <2>1. pc[v] \in UsePCs
    BY <1>3 DEF Edit, AppendTurn, ReplaceHistory, ResetSession, BadParams, UsePCs
  <2>2. \A o \in Objs : sess[o].created => sess'[o].created
    <3>1. CASE AppendTurn(v)
      BY <1>b, <2>1, <3>1 DEF AppendTurn
    <3>2. CASE ReplaceHistory(v)
      BY <1>b, <2>1, <3>2 DEF ReplaceHistory
    <3>3. CASE ResetSession(v)
      BY <1>b, <2>1, <3>3 DEF ResetSession
    <3>4. CASE BadParams(v)
      BY <3>4 DEF BadParams
    <3>. QED  BY <1>3, <3>1, <3>2, <3>3, <3>4 DEF Edit
  <2>3. Finish(v, "ok") \/ Finish(v, "error")
    BY <1>3 DEF Edit, AppendTurn, ReplaceHistory, ResetSession, BadParams
  <2>4. /\ provider' = provider /\ req' = req
        /\ ref'[v] = None /\ \A w \in Workers \ {v} : ref'[w] = ref[w]
    BY <1>r, <2>3 DEF Finish
  <2>. QED  BY <2>2, <2>4
<1>4. ASSUME NEW v \in Workers, Generate(v) PROVE Tells
  <2>1. CASE GenNoModel(v) \/ GenEngine(v)
    BY <2>1 DEF GenNoModel, GenEngine
  <2>2. CASE GenStart(v)
    <3>1. ref[v] # None /\ sess' = [sess EXCEPT ![ref[v]].created = TRUE]
          /\ ref[v] \in Objs /\ sess[ref[v]] \in Session
      BY <1>a, <2>2 DEF GenStart, UsePCs
    <3>2. sess'[ref[v]].created /\ \A o \in Objs : o # ref[v] => sess'[o] = sess[o]
      BY <3>1 DEF Session
    <3>3. provider' \subseteq provider \cup {sess[ref[v]].id}
      BY <2>2 DEF GenStart
    <3>. QED  BY <2>2, <3>1, <3>2, <3>3 DEF GenStart
  <2>3. CASE GenDone(v)
    <3>1. \A o \in Objs : sess[o].created => sess'[o].created
      BY <1>b, <2>3 DEF GenDone, UsePCs
    <3>. QED  BY <2>3, <3>1 DEF GenDone
  <2>4. CASE GenFail(v)
    BY <1>r, <2>4 DEF GenFail
  <2>5. CASE GenSend(v)
    BY <2>5 DEF GenSend
  <2>6. CASE GenAppend(v)
    <3>1. \A o \in Objs : sess[o].created => sess'[o].created
      BY <1>b, <2>6 DEF GenAppend, UsePCs
    <3>2. ref'[v] = None /\ \A w \in Workers \ {v} : ref'[w] = ref[w] /\ req'[w] = req[w]
      BY <1>r, <2>6 DEF GenAppend
    <3>. QED  BY <2>6, <3>1, <3>2 DEF GenAppend
  <2>. QED  BY <1>4, <2>1, <2>2, <2>3, <2>4, <2>5, <2>6 DEF Generate
<1>5. ASSUME NEW v \in Workers, Close(v) \/ Health(v) PROVE Tells \/ TableChange
  <2>1. CASE CloseRemove(v)
    BY <2>1, RemovalSteps DEF TableChange
  <2>2. CASE CloseMiss(v) \/ CloseHit(v) \/ Health(v)
    BY <2>2 DEF CloseMiss, CloseHit, Health, HealthSessions, HealthEngine
  <2>. QED  BY <1>5, <2>1, <2>2 DEF Close
<1>6. ASSUME NEW v \in Workers, Load(v) PROVE Tells \/ TableChange
  <2>1. CASE LoadClear(v)
    BY <2>1, RemovalSteps DEF TableChange
  <2>2. CASE LoadEngine(v) \/ LoadLock(v)
    BY <2>2 DEF LoadEngine, LoadLock
  <2>3. CASE LoadClose(v) \/ LoadOpen(v) \/ LoadVocab(v) \/ LoadFail(v)
    BY <2>3 DEF LoadClose, LoadOpen, LoadVocab, LoadFail
  <2>. QED  BY <1>6, <2>1, <2>2, <2>3 DEF Load
<1>7. ASSUME NEW v \in Workers, Receive(v) \/ Reply(v) PROVE Tells
  <2>1. ref[v] = None
    BY <1>7 DEF Inv, SessionOwner, UsePCs, Receive, Reply
  <2>2. ref' = ref /\ \A w \in Workers \ {v} : req'[w] = req[w]
    BY <1>r, <1>7 DEF Receive, Reply
  <2>. QED  BY <1>7, <2>1, <2>2 DEF Receive, Reply
<1>8. CASE ReapRemove
  BY <1>8, RemovalSteps DEF TableChange
<1>9. CASE ReapLock \/ ReapKeep \/ ReapEnd \/ Tick \/ UNCHANGED vars
  BY <1>9 DEF ReapLock, ReapKeep, ReapEnd, Tick, vars
<1>. QED  BY <1>1, <1>2, <1>3, <1>4, <1>5, <1>6, <1>7, <1>8, <1>9 DEF Next, Serve, Reap

(* A removal takes an id from the provider together with its entry. *)
LEMMA RemovalTellsProvider ==
  ASSUME Inv, RefIsNamed, NoOrphanInProvider,
         NEW t \in Threads, NEW i \in DOMAIN table, Removes(t, i)
  PROVE  RefIsNamed' /\ NoOrphanInProvider'
<1>0. /\ pc \in [Threads -> PCs] /\ Workers \subseteq Threads
      /\ \A k \in DOMAIN table : table[k] \in Objs
      /\ TableIsLive /\ SessionOwner /\ NoUseAfterFree /\ OneSessionPerId
      /\ ref \in [Workers -> Objs \cup {None}]
  BY DEF Inv, TypeOK, Threads
<1>1. /\ \A k \in DOMAIN table : k # i => \E j \in DOMAIN table' : table'[j] = table[k]
      /\ \A o \in Objs \ {table[i]} : sess'[o] = sess[o]
  BY RemoveAtEffect DEF Removes
<1>2. req' = req /\ ref' = ref
  BY DEF Removes
<1>3. ASSUME NEW w \in Workers, ref'[w] # None PROVE sess'[ref'[w]].id = req'[w].id
  <2>1. ref[w] # None /\ ref[w] # table[i]
    BY <1>2, <1>3, RemovalIsSafe DEF Removes
  <2>2. ref[w] \in Objs \ {table[i]}
    BY <1>0, <2>1
  <2>. QED  BY <1>1, <1>2, <2>1, <2>2 DEF RefIsNamed
<1>4. ASSUME NEW p \in provider' \ LongIds
      PROVE  \E j \in DOMAIN table' : sess'[table'[j]].id = p /\ sess'[table'[j]].created
  <2>1. provider' = IF sess[table[i]].created THEN provider \ ({sess[table[i]].id} \ LongIds)
                    ELSE provider
    BY DEF Removes, RemoveAt
  <2>2. PICK k \in DOMAIN table : sess[table[k]].id = p /\ sess[table[k]].created
    BY <1>4, <2>1 DEF NoOrphanInProvider
  <2>3. k # i
    BY <1>4, <2>1, <2>2
  <2>4. table[k] \in Objs \ {table[i]}
    BY <1>0, <2>3 DEF TableIsLive
  <2>. QED  BY <1>1, <2>2, <2>3, <2>4
<1>. QED  BY <1>3, <1>4 DEF RefIsNamed, NoOrphanInProvider

(* An appended session is unknown to the provider until its creator tells it. *)
LEMMA AppendTellsProvider ==
  ASSUME Inv, RefIsNamed, NoOrphanInProvider, NEW w \in Workers, CreateNew(w)
  PROVE  RefIsNamed' /\ NoOrphanInProvider'
<1>0. /\ pc \in [Threads -> PCs] /\ w \in Threads /\ Workers \subseteq Threads
      /\ table \in Seq(Objs) /\ sess \in [Objs -> Session \cup {Freed}]
      /\ TableIsLive /\ SessionOwner /\ NoUseAfterFree
      /\ ref \in [Workers -> Objs \cup {None}]
  BY DEF Inv, TypeOK, Threads
<1>1. PICK o \in Objs \ live :
        /\ table' = Append(table, o) /\ ref' = [ref EXCEPT ![w] = o]
        /\ sess' = [sess EXCEPT ![o] = [id |-> req[w].id, hist |-> <<>>, ctx |-> ctx,
                                       active |-> now, created |-> FALSE]]
  BY DEF CreateNew
<1>2. pc' = [pc EXCEPT ![w] = "c_setup"] /\ req' = req /\ provider' = provider
  BY DEF CreateNew, Goto
<1>3. ASSUME NEW v \in Workers, ref'[v] # None PROVE sess'[ref'[v]].id = req'[v].id
  <2>1. CASE v = w
    BY <1>0, <1>1, <1>2, <2>1
  <2>2. CASE v # w
    <3>1. ref[v] # None /\ ref'[v] = ref[v]
      BY <1>0, <1>1, <1>3, <2>2
    <3>2. ref[v] \in live
      BY <3>1, RefIsSession
    <3>. QED  BY <1>0, <1>1, <1>2, <3>1, <3>2 DEF RefIsNamed
  <2>. QED  BY <2>1, <2>2
<1>4. ASSUME NEW p \in provider \ LongIds
      PROVE  \E j \in DOMAIN table' : sess'[table'[j]].id = p /\ sess'[table'[j]].created
  <2>1. PICK k \in DOMAIN table : sess[table[k]].id = p /\ sess[table[k]].created
    BY <1>4 DEF NoOrphanInProvider
  <2>2. k \in DOMAIN table' /\ table'[k] = table[k]
    BY <1>0, <1>1, <2>1
  <2>3. table[k] \in live
    BY <1>0, <2>1 DEF TableIsLive
  <2>4. table[k] \in Objs /\ sess'[table[k]] = sess[table[k]]
    BY <1>0, <1>1, <2>1, <2>3
  <2>. QED  BY <2>1, <2>2, <2>4
<1>. QED  BY <1>2, <1>3, <1>4 DEF RefIsNamed, NoOrphanInProvider

(* What the provider holds has an entry after every step. *)
LEMMA ProviderNext ==
  Inv /\ RefIsNamed /\ NoOrphanInProvider /\ [Next]_vars
    => RefIsNamed' /\ NoOrphanInProvider'
<1>. SUFFICES ASSUME Inv, RefIsNamed, NoOrphanInProvider, [Next]_vars
              PROVE  RefIsNamed' /\ NoOrphanInProvider'
  OBVIOUS
<1>1. CASE TableChange
  BY <1>1, RemovalTellsProvider, AppendTellsProvider DEF TableChange
<1>2. CASE Stable /\ Tells
  <2>1. \A k \in DOMAIN table : table[k] \in Objs
    BY DEF Inv, TypeOK
  <2>2. ASSUME NEW w \in Workers, ref[w] # None
        PROVE  ref[w] \in Objs /\ \E k \in DOMAIN table : table[k] = ref[w]
    BY <2>2, RefIsSession DEF Inv, NoUseAfterFree
  <2>3. /\ table' = table
        /\ \A o \in Objs : sess'[o].id = sess[o].id /\ (sess[o].created => sess'[o].created)
    BY <1>2 DEF Stable, Tells
  <2>4. ASSUME NEW w \in Workers, ref'[w] # None PROVE sess'[ref'[w]].id = req'[w].id
    <3>1. /\ ref'[w] = ref[w] \/ \E i \in Has(req[w].id) : ref'[w] = table[i]
          /\ req'[w] = req[w]
      BY <1>2, <2>4 DEF Tells
    <3>2. CASE ref'[w] = ref[w]
      BY <2>2, <2>3, <2>4, <3>1, <3>2 DEF RefIsNamed
    <3>3. ASSUME NEW i \in Has(req[w].id), ref'[w] = table[i]
          PROVE  sess'[ref'[w]].id = req'[w].id
      BY <2>1, <2>3, <3>1, <3>3 DEF Has
    <3>. QED  BY <3>1, <3>2, <3>3
  <2>5. ASSUME NEW p \in provider' \ LongIds
        PROVE  \E k \in DOMAIN table : sess'[table[k]].id = p /\ sess'[table[k]].created
    <3>1. CASE p \in provider
      BY <2>1, <2>3, <3>1 DEF NoOrphanInProvider
    <3>2. CASE p \notin provider
      <4>1. PICK w \in Workers : ref[w] # None /\ sess'[ref[w]].created /\ p = sess[ref[w]].id
        BY <1>2, <2>5, <3>2 DEF Tells
      <4>. QED  BY <2>2, <2>3, <4>1
    <3>. QED  BY <3>1, <3>2
  <2>. QED  BY <2>3, <2>4, <2>5 DEF RefIsNamed, NoOrphanInProvider
<1>. QED  BY <1>1, <1>2, TellSteps, TableSteps DEF TableStep, TableChange

(* Whatever the mutexes under which the provider is told of creates and      *)
(* closes, it never holds a session whose id is not in the table, short of    *)
(* ids that it cuts when they are created.                                   *)
THEOREM ProviderFollowsTable == Spec => []NoOrphanInProvider
<1>1. Init => RefIsNamed /\ NoOrphanInProvider
  BY DEF Init, RefIsNamed, NoOrphanInProvider, Threads
<1>. QED  BY <1>1, Invariant, ProviderNext, PTL DEF Spec

-----------------------------------------------------------------------------
(* The two scans, the one of session_create for a session to evict and the   *)
(* one of the reaper: what they have seen so far, while other threads go on  *)
(* using and releasing sessions, and so what they have done when they end.   *)
(* During session_create's scan no session that was idle when it began has   *)
(* been freed or taken, except the candidate, which the scanner took; and no *)
(* visited one has been inactive for longer than the candidate.              *)
EvictionScan ==
  \A w \in Workers : pc[w] = "c_scan" =>
    /\ \A o \in idle :
         o \in live /\ (mutex[o] = None \/ (best[w] > 0 /\ o = table[best[w]]))
    /\ \A i \in DOMAIN table : i < idx[w] /\ table[i] \in idle =>
         best[w] > 0 /\ sess[table[best[w]]].active <= sess[table[i]].active

(* During the reaper's scan no session that was idle when it began has been  *)
(* taken, and none of those at the indices behind it is expired: a removal   *)
(* moves a session only to the index the reaper looks at next.               *)
Kept(i) ==
  table[i] \in idle => mutex[table[i]] = None /\ (i < idx[Reaper] => ~Expired(table[i]))
ReaperScan == pc[Reaper] = "r_scan" => \A i \in DOMAIN table : Kept(i)

Scans == EvictionScan /\ ReaperScan
-----------------------------------------------------------------------------
(* What a step leaves alone for the thread t that owns sessions_mutex: the   *)
(* table, t's own variables, and every session t holds or nobody holds.      *)
Bystands(t) ==
  /\ table' = table /\ live' = live /\ idle' = idle /\ reapedAt' = reapedAt
  /\ pc'[t] = pc[t] /\ idx'[t] = idx[t] /\ (t \in Workers => best'[t] = best[t])
  /\ \A o \in Objs : mutex[o] \in {None, t} => mutex'[o] = mutex[o] /\ sess'[o] = sess[o]

(* The steps of the other threads: those that start with sessions_mutex wait *)
(* for it, those of its owner are t's, and the rest touch only the session   *)
(* whose mutex they hold.                                                    *)
LEMMA WorkerBystands ==
  ASSUME Inv, NEW t \in Threads, pc[t] \in {"c_scan", "r_scan"},
         NEW v \in Workers, v # t, Receive(v) \/ Serve(v)
  PROVE  Bystands(t)
<1>0. /\ pc \in [Threads -> PCs] /\ Workers \subseteq Threads /\ v \in Threads
      /\ ref \in [Workers -> Objs \cup {None}] /\ mutex \in [Objs -> Threads \cup {None}]
      /\ sess \in [Objs -> Session \cup {Freed}]
      /\ idx \in [Threads -> Nat] /\ best \in [Workers -> Nat]
      /\ None \notin Threads
  BY ThreadsAssumption DEF Inv, TypeOK, Threads
<1>1. sessionsMutex = t /\ sessionsMutex # None
  BY <1>0 DEF Inv, TableOwner, TablePCs
<1>2. pc[v] \notin TablePCs
  BY <1>0, OneTableOwner DEF TablePCs
<1>3. ASSUME pc[v] \in UsePCs PROVE mutex[ref[v]] \notin {None, t}
  BY <1>0, <1>3 DEF Inv, SessionOwner
<1>. USE <1>0 DEF Bystands, Goto, Answer, locals, tableVars, clockVars
<1>4. CASE Create(v)
  <2>1. CASE CreateSetup(v)
    BY <1>3, <2>1 DEF CreateSetup, UsePCs
  <2>2. CASE Create(v) /\ ~CreateSetup(v)
    BY <1>1, <1>2, <2>2 DEF Create, CreateLock, CreateScan, CreateLimit, CreateEvict,
          CreateReplace, CreateNew, CreateOutOfMemory, IdIsFree, TablePCs
  <2>. QED  BY <1>4, <2>1, <2>2
<1>5. CASE Find(v)
  BY <1>1, <1>2, <1>5 DEF Find, FindMiss, FindHit, FindAcquire, TablePCs
<1>6. CASE Edit(v)
  BY <1>3, <1>6 DEF Edit, AppendTurn, ReplaceHistory, ResetSession, BadParams, Finish, UsePCs
<1>7. CASE Generate(v)
  <2>1. CASE GenNoModel(v) \/ GenEngine(v) \/ GenSend(v)
    BY <2>1 DEF GenNoModel, GenEngine, GenSend
  <2>2. CASE GenStart(v) \/ GenDone(v)
    BY <1>3, <2>2 DEF GenStart, GenDone, UsePCs
  <2>3. CASE GenFail(v) \/ GenAppend(v)
    BY <1>3, <2>3 DEF GenFail, GenAppend, UsePCs
  <2>. QED  BY <1>7, <2>1, <2>2, <2>3 DEF Generate
<1>8. CASE Close(v) \/ Health(v)
  BY <1>1, <1>2, <1>8 DEF Close, CloseMiss, CloseHit, CloseRemove, Health, HealthSessions,
        HealthEngine, TablePCs
<1>9. CASE Load(v)
  BY <1>1, <1>2, <1>9 DEF Load, LoadEngine, LoadLock, LoadClear, LoadClose, LoadOpen,
        LoadVocab, LoadFail, TablePCs
<1>10. CASE Receive(v) \/ Reply(v)
  BY <1>10 DEF Receive, Reply
<1>. QED  BY <1>4, <1>5, <1>6, <1>7, <1>8, <1>9, <1>10 DEF Serve

(* Only one scan goes on at a time; the rest of the system stands by. *)
LEMMA OthersBystand ==
  ASSUME Inv, [Next]_vars, NEW t \in Threads, pc[t] \in {"c_scan", "r_scan"},
         t \in Workers => ~Create(t), t = Reaper => ~Reap
  PROVE  Bystands(t)
<1>0. pc \in [Threads -> PCs] /\ None \notin Threads /\ Reaper \notin Workers
  BY ThreadsAssumption DEF Inv, TypeOK
<1>1. ASSUME NEW v \in Workers, Receive(v) \/ Serve(v) PROVE Bystands(t)
  <2>1. CASE v # t
    BY <1>1, <2>1, WorkerBystands
  <2>2. CASE v = t
    <3>. QED
      BY <1>1, <2>2 DEF Receive, Serve, Find, FindMiss, FindHit, FindAcquire, Edit,
           AppendTurn, ReplaceHistory, ResetSession, BadParams, Generate, GenNoModel, GenEngine,
           GenStart, GenDone, GenFail, GenSend, GenAppend, Close, CloseMiss, CloseHit,
           CloseRemove, Load, LoadEngine, LoadLock, LoadClear, LoadClose, LoadOpen, LoadVocab,
           LoadFail, Health, HealthSessions, HealthEngine, Reply
  <2>. QED  BY <2>1, <2>2
<1>2. ASSUME Reap PROVE Bystands(t)
  <2>1. t # Reaper
    BY <1>2
  <2>2. sessionsMutex # None /\ pc[Reaper] \notin TablePCs
    BY <1>0, <2>1, OneTableOwner DEF Inv, TableOwner, TablePCs, Threads
  <2>. QED
    BY <1>2, <2>2 DEF Reap, ReapLock, ReapKeep, ReapRemove, ReapEnd, TablePCs
<1>3. CASE Tick \/ UNCHANGED vars
  BY <1>3 DEF Tick, vars, Bystands, tableVars, locals, clockVars
<1>. QED  BY <1>1, <1>2, <1>3 DEF Next
-----------------------------------------------------------------------------
(* The owner's own steps keep what its scan has seen. *)
LEMMA CreateKeepsScan ==
  ASSUME Inv, EvictionScan, NEW w \in Workers, Create(w), pc'[w] = "c_scan"
  PROVE  /\ \A o \in idle' :
              o \in live' /\ (mutex'[o] = None \/ (best'[w] > 0 /\ o = table'[best'[w]]))
         /\ \A i \in DOMAIN table' : i < idx'[w] /\ table'[i] \in idle' =>
              best'[w] > 0 /\ sess'[table'[best'[w]]].active <= sess'[table'[i]].active
<1>0. /\ pc \in [Threads -> PCs] /\ w \in Threads /\ w # None
      /\ table \in Seq(Objs) /\ DOMAIN table = 1..Len(table) /\ Len(table) \in Nat
      /\ \A i \in DOMAIN table : table[i] \in Objs
      /\ mutex \in [Objs -> Threads \cup {None}]
      /\ sess \in [Objs -> Session \cup {Freed}]
      /\ idx \in [Threads -> Nat] /\ best \in [Workers -> Nat]
      /\ idle \in SUBSET Objs
  BY ThreadsAssumption DEF Inv, TypeOK, Threads
<1>1. CASE CreateLock(w)
  <2>1. pc[w] = "c_lock" /\ idx'[w] = 1 /\ idle' = {o \in live : mutex[o] = None}
        /\ table' = table /\ live' = live /\ mutex' = mutex
    BY <1>0, <1>1 DEF CreateLock, Goto, ScanFrom, tableVars
  <2>. QED  BY <1>0, <2>1
<1>2. CASE CreateScan(w)
  <2>. DEFINE o == table[idx[w]]
              c == best[w]
  <2>1. /\ pc[w] = "c_scan" /\ idx[w] \in DOMAIN table /\ idx' = [idx EXCEPT ![w] = @ + 1]
        /\ table' = table /\ live' = live /\ sess' = sess /\ idle' = idle
    BY <1>0, <1>2 DEF CreateScan, Inv, ScanIndex, tableVars
  <2>2. c > 0 => c \in DOMAIN table /\ c < idx[w] /\ table[c] # o /\ mutex[table[c]] = w
    BY <1>0, <2>1 DEF Inv, SessionOwner, ScanIndex, TableIsLive
  <2>3. /\ \A p \in idle : p \in live /\ (mutex[p] = None \/ (c > 0 /\ p = table[c]))
        /\ \A i \in DOMAIN table : i < idx[w] /\ table[i] \in idle =>
             c > 0 /\ sess[table[c]].active <= sess[table[i]].active
    BY <2>1 DEF EvictionScan
  <2>4. \A p \in live : sess[p].active \in Nat
    BY DEF Inv, TableIsLive, Session
  <2>5. \A i \in DOMAIN table : table[i] \in live
    BY DEF Inv, NoUseAfterFree
  <2>6. CASE mutex[o] = None /\ Better(o, c)
    <3>1. /\ mutex' = [x \in Objs |-> IF x = o THEN w
                                       ELSE IF c > 0 /\ x = table[c] THEN None ELSE mutex[x]]
          /\ best'[w] = idx[w]
      BY <1>0, <1>2, <2>6 DEF CreateScan
    <3>2. \A p \in idle : p \in live' /\ (mutex'[p] = None \/ p = table'[best'[w]])
      BY <1>0, <2>1, <2>2, <2>3, <3>1
    <3>3. ASSUME NEW i \in DOMAIN table, i < idx[w] + 1, table[i] \in idle
          PROVE  sess[o].active <= sess[table[i]].active
      <4>1. CASE i = idx[w]
        BY <2>1, <2>4, <2>5, <4>1
      <4>2. CASE i < idx[w]
        <5>1. c > 0 /\ sess[table[c]].active <= sess[table[i]].active
          BY <2>3, <3>3, <4>2
        <5>2. sess[o].active < sess[table[c]].active
          BY <1>0, <2>6, <5>1 DEF Better
        <5>3. {sess[o].active, sess[table[c]].active, sess[table[i]].active} \subseteq Nat
          BY <2>1, <2>2, <2>4, <2>5, <5>1
        <5>. QED  BY <5>1, <5>2, <5>3
      <4>. QED  BY <1>0, <2>1, <3>3, <4>1, <4>2
    <3>4. best'[w] > 0 /\ table'[best'[w]] = o /\ idx'[w] = idx[w] + 1
      BY <1>0, <2>1, <3>1
    <3>. HIDE DEF o, c
    <3>. QED  BY <2>1, <3>2, <3>3, <3>4
  <2>7. CASE ~(mutex[o] = None /\ Better(o, c))
    <3>1. mutex' = mutex /\ best' = best
      BY <1>2, <2>7 DEF CreateScan
    <3>2. ASSUME o \in idle PROVE c > 0 /\ sess[table[c]].active <= sess[o].active
      <4>1. mutex[o] = None
        BY <2>2, <2>3, <3>2
      <4>2. c # 0 /\ ~(sess[o].active < sess[table[c]].active)
        BY <2>7, <4>1 DEF Better
      <4>. QED  BY <1>0, <2>1, <2>2, <2>4, <2>5, <4>2
    <3>. QED  BY <1>0, <2>1, <2>3, <3>1, <3>2
  <2>. QED  BY <2>6, <2>7
<1>. QED
  BY <1>0, <1>1, <1>2 DEF Create, CreateLimit, CreateEvict, CreateReplace, CreateNew,
     CreateOutOfMemory, CreateSetup, Goto, Answer

(* A worker begins a scan only in session_create. *)
LEMMA NoLateScan ==
  ASSUME Inv, [Next]_vars, NEW w \in Workers, ~Create(w), pc[w] # "c_scan"
  PROVE  pc'[w] # "c_scan"
<1>0. pc \in [Threads -> PCs] /\ Workers \subseteq Threads /\ Reaper \in Threads
      /\ Reaper \notin Workers
  BY ThreadsAssumption DEF Inv, TypeOK, Threads
<1>. USE <1>0 DEF Goto, Answer, locals
<1>1. ASSUME NEW v \in Workers, Receive(v) \/ Reply(v) PROVE pc'[w] # "c_scan"
  BY <1>1 DEF Receive, Entry, Reply
<1>2. ASSUME NEW v \in Workers, Create(v) PROVE pc'[w] # "c_scan"
  BY <1>2 DEF Create, CreateLock, CreateScan, CreateLimit, CreateEvict, CreateReplace,
              CreateNew, CreateOutOfMemory, CreateSetup
<1>3. ASSUME NEW v \in Workers, Find(v) \/ Edit(v) PROVE pc'[w] # "c_scan"
  BY <1>3 DEF Find, FindMiss, FindHit, FindAcquire, Edit, AppendTurn, ReplaceHistory,
              ResetSession, BadParams, Finish
<1>4. ASSUME NEW v \in Workers, Generate(v) PROVE pc'[w] # "c_scan"
  BY <1>4 DEF Generate, GenNoModel, GenEngine, GenStart, GenDone, GenFail, GenSend, GenAppend
<1>5. ASSUME NEW v \in Workers, Close(v) \/ Health(v) PROVE pc'[w] # "c_scan"
  BY <1>5 DEF Close, CloseMiss, CloseHit, CloseRemove, Health, HealthSessions, HealthEngine
<1>6. ASSUME NEW v \in Workers, Load(v) PROVE pc'[w] # "c_scan"
  BY <1>6 DEF Load, LoadEngine, LoadLock, LoadClear, LoadClose, LoadOpen, LoadVocab, LoadFail
<1>7. Reap \/ Tick \/ UNCHANGED vars => pc'[w] # "c_scan"
  BY DEF Reap, ReapLock, ReapKeep, ReapRemove, ReapEnd, Tick, vars
<1>. QED  BY <1>1, <1>2, <1>3, <1>4, <1>5, <1>6, <1>7 DEF Next, Serve

(* The eviction scan, whoever takes the step. *)
LEMMA EvictionScanNext == Inv /\ EvictionScan /\ [Next]_vars => EvictionScan'
<1>. SUFFICES ASSUME Inv, EvictionScan, [Next]_vars, NEW w \in Workers, pc'[w] = "c_scan"
              PROVE  /\ \A o \in idle' :
                          o \in live' /\ (mutex'[o] = None
                                           \/ (best'[w] > 0 /\ o = table'[best'[w]]))
                     /\ \A i \in DOMAIN table' : i < idx'[w] /\ table'[i] \in idle' =>
                          /\ best'[w] > 0
                          /\ sess'[table'[best'[w]]].active <= sess'[table'[i]].active
  BY DEF EvictionScan
<1>0. w \in Threads /\ w # Reaper /\ pc \in [Threads -> PCs] /\ idle \in SUBSET Objs
  BY ThreadsAssumption DEF Inv, TypeOK, Threads
<1>1. CASE Create(w)
  BY <1>1, CreateKeepsScan
<1>2. CASE ~Create(w) /\ pc[w] = "c_scan"
  <2>1. Bystands(w)
    BY <1>0, <1>2, OthersBystand
  <2>2. \A o \in idle : o \in live /\ (mutex[o] = None \/ (best[w] > 0 /\ o = table[best[w]]))
    BY <1>2 DEF EvictionScan
  <2>3. best[w] > 0 => table[best[w]] \in Objs /\ mutex[table[best[w]]] = w
    BY DEF Inv, SessionOwner, TypeOK
  <2>4. \A o \in idle : mutex'[o] = mutex[o] /\ sess'[o] = sess[o]
    BY <1>0, <2>1, <2>2, <2>3 DEF Bystands
  <2>5. best[w] > 0 => sess'[table[best[w]]] = sess[table[best[w]]]
    BY <2>1, <2>3 DEF Bystands
  <2>. QED  BY <1>2, <2>1, <2>2, <2>4, <2>5 DEF Bystands, EvictionScan
<1>3. CASE ~Create(w) /\ pc[w] # "c_scan"
  BY <1>0, <1>3, NoLateScan
<1>. QED  BY <1>1, <1>2, <1>3

(* No worker moves the reaper. *)
LEMMA ReaperStays ==
  ASSUME Inv, [Next]_vars, ~Reap
  PROVE  pc'[Reaper] = pc[Reaper]
<1>0. pc \in [Threads -> PCs] /\ Workers \subseteq Threads /\ Reaper \in Threads
      /\ Reaper \notin Workers
  BY ThreadsAssumption DEF Inv, TypeOK, Threads
<1>. USE <1>0 DEF Goto, Answer
<1>1. ASSUME NEW v \in Workers, Receive(v) \/ Serve(v)
      PROVE  \A t \in Threads \ {v} : pc'[t] = pc[t]
  <2>1. CASE Create(v) \/ Receive(v) \/ Reply(v)
    BY <2>1 DEF Create, CreateLock, CreateScan, CreateLimit, CreateEvict, CreateReplace,
       CreateNew, CreateOutOfMemory, CreateSetup, Receive, Reply
  <2>2. CASE Find(v) \/ Edit(v)
    BY <2>2 DEF Find, FindMiss, FindHit, FindAcquire, Edit, AppendTurn, ReplaceHistory,
       ResetSession, BadParams, Finish
  <2>3. CASE Generate(v)
    BY <2>3 DEF Generate, GenNoModel, GenEngine, GenStart, GenDone, GenFail, GenSend, GenAppend
  <2>4. CASE Close(v) \/ Health(v)
    BY <2>4 DEF Close, CloseMiss, CloseHit, CloseRemove, Health, HealthSessions, HealthEngine
  <2>5. CASE Load(v)
    BY <2>5 DEF Load, LoadEngine, LoadLock, LoadClear, LoadClose, LoadOpen, LoadVocab, LoadFail
  <2>. QED  BY <1>1, <2>1, <2>2, <2>3, <2>4, <2>5 DEF Serve
<1>2. Tick \/ UNCHANGED vars => pc' = pc
  BY DEF Tick, vars
<1>. QED  BY <1>1, <1>2 DEF Next

(* What the reaper's own steps keep: a removal puts the last session at the  *)
(* reaper's index, which it has not passed.                                  *)
LEMMA ReapKeepsScan ==
  ASSUME Inv, ReaperScan, Reap, pc'[Reaper] = "r_scan"
  PROVE  \A i \in DOMAIN table' : Kept(i)'
<1>0. /\ pc \in [Threads -> PCs] /\ Reaper \in Threads /\ Reaper # None
      /\ table \in Seq(Objs) /\ DOMAIN table = 1..Len(table) /\ Len(table) \in Nat
      /\ \A i \in DOMAIN table : table[i] \in Objs
      /\ idx \in [Threads -> Nat] /\ idle \in SUBSET Objs
  BY ThreadsAssumption DEF Inv, TypeOK, Threads
<1>1. CASE ReapLock
  <2>1. idx'[Reaper] = 1 /\ idle' = {o \in live : mutex[o] = None}
        /\ table' = table /\ mutex' = mutex
    BY <1>0, <1>1 DEF ReapLock, tableVars
  <2>. QED  BY <1>0, <2>1 DEF Kept
<1>2. CASE ReapKeep
  <2>1. /\ pc[Reaper] = "r_scan" /\ idx' = [idx EXCEPT ![Reaper] = @ + 1]
        /\ mutex[table[idx[Reaper]]] # None \/ ~Expired(table[idx[Reaper]])
        /\ UNCHANGED <<table, sess, mutex, idle, reapedAt>>
    BY <1>2 DEF ReapKeep, tableVars, clockVars
  <2>2. \A i \in DOMAIN table : table[i] \in idle =>
          mutex[table[i]] = None /\ (i < idx[Reaper] => ~Expired(table[i]))
    BY <2>1 DEF ReaperScan, Kept
  <2>. QED  BY <1>0, <2>1, <2>2 DEF Kept, Expired
<1>3. CASE ReapRemove
  <2>. DEFINE k == idx[Reaper]
              n == Len(table)
  <2>1. /\ pc[Reaper] = "r_scan" /\ k \in DOMAIN table /\ RemoveAt(k)
        /\ UNCHANGED <<idx, idle, reapedAt>>
    BY <1>0, <1>3 DEF ReapRemove, Inv, ScanIndex, locals, clockVars
  <2>2. \A i \in DOMAIN table : table[i] \in idle =>
          mutex[table[i]] = None /\ (i < k => ~Expired(table[i]))
    BY <2>1 DEF ReaperScan, Kept
  <2>3. /\ DOMAIN table' = 1..(n - 1)
        /\ \A j \in 1..(n - 1) : table'[j] = IF j = k THEN table[n] ELSE table[j]
    <3>1. table' = Without(table, k)
      BY <2>1 DEF RemoveAt, Without
    <3>. QED  BY <1>0, <2>1, <3>1, WithoutProperties
  <2>4. \A o \in Objs \ {table[k]} : sess'[o] = sess[o] /\ mutex'[o] = mutex[o]
    BY <2>1, RemoveAtEffect
  <2>. HIDE DEF k, n
  <2>5. ASSUME NEW j \in DOMAIN table', table'[j] \in idle PROVE Kept(j)'
    <3>1. PICK m \in DOMAIN table : m # k /\ table'[j] = table[m] /\ (j < k => m = j)
      <4>1. j \in 1..(n - 1) /\ n \in DOMAIN table /\ j \in DOMAIN table /\ k \in 1..n
        BY <1>0, <2>1, <2>3 DEF n
      <4>2. CASE j = k
        BY <2>3, <4>1, <4>2
      <4>3. CASE j # k
        BY <2>3, <4>1, <4>3
      <4>. QED  BY <4>2, <4>3
    <3>2. table[m] \in Objs \ {table[k]}
      BY <1>0, <2>1, <3>1 DEF Inv, TableIsLive
    <3>3. mutex[table[m]] = None /\ (m < k => ~Expired(table[m]))
      BY <2>2, <2>5, <3>1
    <3>4. sess'[table'[j]] = sess[table[m]] /\ reapedAt' = reapedAt /\ idx'[Reaper] = k
      BY <2>1, <2>4, <3>1, <3>2 DEF k
    <3>. QED  BY <2>4, <3>1, <3>2, <3>3, <3>4 DEF Kept, Expired
  <2>. QED  BY <2>1, <2>5 DEF Kept
<1>. QED  BY <1>0, <1>1, <1>2, <1>3 DEF Reap, ReapEnd, Goto

(* The reaper's scan, whoever takes the step. *)
LEMMA ReaperScanNext == Inv /\ ReaperScan /\ [Next]_vars => ReaperScan'
<1>. SUFFICES ASSUME Inv, ReaperScan, [Next]_vars, pc'[Reaper] = "r_scan"
              PROVE  \A i \in DOMAIN table' : Kept(i)'
  BY DEF ReaperScan
<1>0. /\ Reaper \in Threads /\ Reaper \notin Workers /\ pc \in [Threads -> PCs]
      /\ \A i \in DOMAIN table : table[i] \in Objs
  BY ThreadsAssumption DEF Inv, TypeOK, Threads
<1>1. CASE Reap
  BY <1>1, ReapKeepsScan
<1>2. CASE ~Reap /\ pc[Reaper] = "r_scan"
  <2>1. Bystands(Reaper)
    BY <1>0, <1>2, OthersBystand
  <2>2. \A i \in DOMAIN table : table[i] \in idle =>
          mutex[table[i]] = None /\ (i < idx[Reaper] => ~Expired(table[i]))
    BY <1>2 DEF ReaperScan, Kept
  <2>. QED  BY <1>0, <2>1, <2>2 DEF Bystands, Kept, Expired
<1>3. CASE ~Reap /\ pc[Reaper] # "r_scan"
  <2>1. pc'[Reaper] = pc[Reaper]
    BY <1>0, <1>3, ReaperStays
  <2>. QED  BY <1>3, <2>1
<1>. QED  BY <1>1, <1>2, <1>3

LEMMA ScansNext == Inv /\ Scans /\ [Next]_vars => Scans'
BY EvictionScanNext, ReaperScanNext DEF Scans

LEMMA ScansInit == Init => Scans
BY DEF Init, Scans, EvictionScan, ReaperScan, Threads

LEMMA ScansInvariant == Spec => []Scans
BY ScansInit, ScansNext, Invariant, PTL DEF Spec
-----------------------------------------------------------------------------
(* What the scans have done when they end.                                  *)

(* create_session leaves its scan only behind the last entry. *)
LEMMA ScanIsComplete ==
  ASSUME Inv, [Next]_vars, NEW w \in Workers, pc[w] = "c_scan",
         pc'[w] \in {"c_find", "reply"}
  PROVE  idx[w] > Len(table) /\ (pc'[w] = "reply" => best[w] = 0)
<1>0. w \in Threads /\ w # Reaper /\ pc \in [Threads -> PCs]
  BY ThreadsAssumption DEF Inv, TypeOK, Threads
<1>1. Create(w)
  BY <1>0, OthersBystand DEF Bystands
<1>. QED
  BY <1>0, <1>1 DEF Create, CreateLock, CreateScan, CreateLimit, CreateEvict, CreateReplace,
     CreateNew, CreateOutOfMemory, CreateSetup, IdIsFree, Goto, Answer

(* For any limit and any number of sessions, the session that create_session *)
(* evicts is the least recently active of those idle when it began to look.  *)
THEOREM EvictionIsLeastRecent == Spec => EvictsLeastRecent
<1>1. Inv /\ Scans /\ [Next]_vars =>
        [\A w \in Workers : pc[w] = "c_scan" /\ pc'[w] = "c_find" =>
           \A o \in idle : sess[table[best[w]]].active <= sess[o].active]_vars
  <2>. SUFFICES ASSUME Inv, Scans, [Next]_vars,
                       NEW w \in Workers, pc[w] = "c_scan", pc'[w] = "c_find",
                       NEW o \in idle
                PROVE  sess[table[best[w]]].active <= sess[o].active
    OBVIOUS
  <2>1. idx[w] > Len(table)
    BY ScanIsComplete
  <2>2. o \in live /\ o \in Objs
    BY DEF Scans, EvictionScan, Inv, TypeOK
  <2>3. PICK i \in DOMAIN table : table[i] = o
    BY <2>2 DEF Inv, TableIsLive
  <2>4. i < idx[w]
    BY <2>1 DEF Inv, TypeOK, Threads
  <2>. QED  BY <2>3, <2>4 DEF Scans, EvictionScan
<1>. QED  BY <1>1, Invariant, ScansInvariant, PTL DEF Spec, EvictsLeastRecent

(* For any limit and any number of sessions, create_session refuses a client *)
(* for the limit only if it found every session in use when it began to look. *)
THEOREM RefusalMeansBusy == Spec => RefusesOnlyWhenBusy
<1>1. Inv /\ Scans /\ [Next]_vars =>
        [\A w \in Workers : pc[w] = "c_scan" /\ pc'[w] = "reply" => idle = {}]_vars
  <2>. SUFFICES ASSUME Inv, Scans, [Next]_vars,
                       NEW w \in Workers, pc[w] = "c_scan", pc'[w] = "reply", NEW o \in idle
                PROVE  FALSE
    OBVIOUS
  <2>1. idx[w] > Len(table) /\ best[w] = 0
    BY ScanIsComplete
  <2>2. o \in live /\ o \in Objs
    BY DEF Scans, EvictionScan, Inv, TypeOK
  <2>3. PICK i \in DOMAIN table : table[i] = o
    BY <2>2 DEF Inv, TableIsLive
  <2>4. i < idx[w]
    BY <2>1 DEF Inv, TypeOK, Threads
  <2>. QED  BY <2>1, <2>3, <2>4 DEF Scans, EvictionScan
<1>. QED  BY <1>1, Invariant, ScansInvariant, PTL DEF Spec, RefusesOnlyWhenBusy

(* For any timeout and any number of sessions, a pass of the reaper leaves   *)
(* no session behind that was expired and idle when the pass began.          *)
THEOREM ReaperMissesNone == Spec => ReapsAllExpired
<1>1. Inv /\ Scans /\ [Next]_vars =>
        [pc[Reaper] = "r_scan" /\ pc'[Reaper] = "idle" =>
           \A i \in DOMAIN table : table[i] \in idle => ~Expired(table[i])]_vars
  <2>. SUFFICES ASSUME Inv, Scans, [Next]_vars, pc[Reaper] = "r_scan", pc'[Reaper] = "idle",
                       NEW i \in DOMAIN table, table[i] \in idle
                PROVE  ~Expired(table[i])
    OBVIOUS
  <2>0. /\ Reaper \in Threads /\ Reaper \notin Workers /\ pc \in [Threads -> PCs]
        /\ idx[Reaper] \in Nat /\ i \in 1..Len(table) /\ Len(table) \in Nat
    BY ThreadsAssumption DEF Inv, TypeOK, Threads
  <2>1. idx[Reaper] > Len(table)
    <3>1. Reap
      BY <2>0, OthersBystand DEF Bystands
    <3>. QED  BY <2>0, <3>1 DEF Reap, ReapLock, ReapKeep, ReapRemove, ReapEnd, locals
  <2>. QED  BY <2>0, <2>1 DEF Scans, ReaperScan, Kept
<1>. QED  BY <1>1, Invariant, ScansInvariant, PTL DEF Spec, ReapsAllExpired
=============================================================================
