---------------------------- MODULE SessionTable ----------------------------
(***************************************************************************)
(* The session table of the engine daemon (tools/qwen3-engine-daemon.c):   *)
(* worker threads that serve one request at a time, the idle-session        *)
(* reaper, and the three levels of mutexes they take,                      *)
(*                                                                         *)
(*     engine_mutex  ->  sessions_mutex  ->  the mutex in each session_t.   *)
(*                                                                         *)
(* One action is one stretch of a handler between two points where another *)
(* thread can interfere: acquiring a mutex, or a slow call made under one. *)
(* A session_t is a heap object that is freed and reused; conversations    *)
(* are sequences of message roles.                                         *)
(***************************************************************************)
EXTENDS Naturals, Sequences

CONSTANTS
  Workers,         \* worker threads, each serving one request at a time
  Reaper,          \* the reaper thread
  None,            \* no thread, no object, no engine, no conversation
  Objs,            \* addresses a session_t can be allocated at
  Ids,             \* session ids clients use
  LongIds,         \* those of 64 characters or more
  Ops,             \* the methods clients call in this instance
  MaxSessions,     \* --max-sessions; 0 = unlimited
  SessionTimeout,  \* --session-timeout in clock ticks; 0 = never
  CtxSizes,        \* values of n_ctx a load_model may ask for
  DefaultCtx,      \* n_ctx of the engine main opens
  MaxRequests,     \* bound: requests received in a behaviour
  MaxTime          \* bound: the clock stops here

Threads == Workers \cup {Reaper}
AllOps == {"load_model", "create_session", "generate", "append_turn",
           "replace_history", "reset_session", "close_session", "health"}
Roles == {"system", "user", "assistant", "tool_result"}

ASSUME ThreadsAssumption == Reaper \notin Workers /\ None \notin Threads
ASSUME ObjsAssumption == None \notin Objs
ASSUME HistoriesAssumption == None \notin Seq(Roles)
ASSUME IdsAssumption == LongIds \subseteq Ids
ASSUME OpsAssumption == Ops \subseteq AllOps
ASSUME LimitsAssumption ==
  /\ MaxSessions \in Nat /\ SessionTimeout \in Nat
  /\ MaxRequests \in Nat /\ MaxTime \in Nat
ASSUME CtxAssumption ==
  CtxSizes \subseteq Nat /\ DefaultCtx \in Nat /\ None \notin Nat

VARIABLES
  engine,         \* ds->engine: None, or the n_ctx it was opened with
  ctx,            \* ds->n_ctx
  table,          \* ds->sessions[0 .. n_sessions - 1]
  live,           \* the allocated session_t objects
  sess,           \* their fields, by address
  provider,       \* ids the KV-cache provider holds a session for
  engineMutex,    \* holder of ds->engine_mutex
  sessionsMutex,  \* holder of ds->sessions_mutex
  mutex,          \* holder of each session's mutex
  now,            \* time(NULL)
  reapedAt,       \* when the reaper last finished a pass
  budget,         \* requests still to come
  pc, req,        \* where each thread is, and the request it serves
  ref,            \* the session_t * it works on
  idx, best,      \* its loop index and its eviction candidate
  prompt,         \* the history its prompt was built from
  reply,          \* the outcome it answers with
  idle            \* history variable: sessions unlocked when the scan began

tableVars == <<table, live, sess, provider>>
modelVars == <<engine, ctx>>
clockVars == <<now, reapedAt>>
locals == <<req, ref, idx, best, prompt, reply, idle>>
vars == <<tableVars, modelVars, engineMutex, sessionsMutex, mutex, clockVars,
          budget, pc, locals>>
-----------------------------------------------------------------------------
(* Requests.  msgs is what the request puts into a history: the turn of a   *)
(* generate (the user message only when user_prompt is not empty), the      *)
(* message of an append_turn, the new history of a replace_history.         *)
Payload(op) ==
  CASE op = "generate" -> {<<"user", "assistant">>, <<"assistant">>}
    [] op = "append_turn" -> {<<"tool_result">>}
    [] op = "replace_history" -> {<<>>, <<"system">>}
    [] OTHER -> {<<>>}

Global == {"load_model", "health"}  \* name no session

Requests ==
  UNION {[op : {op}, id : IF op \in Global THEN {None} ELSE Ids, msgs : Payload(op),
          ctx : IF op = "load_model" THEN CtxSizes ELSE {0}] : op \in Ops}
NoRequest == [op |-> "none", id |-> None, msgs |-> <<>>, ctx |-> 0]

Session ==
  [id : Ids, hist : Seq(Roles), ctx : Nat, active : Nat, created : BOOLEAN]
Freed == [id |-> None, hist |-> <<>>, ctx |-> 0, active |-> 0, created |-> FALSE]

Finds == {"generate", "append_turn", "replace_history", "reset_session"}

Has(i) == {k \in DOMAIN table : sess[table[k]].id = i}
Goto(t, l) == pc' = [pc EXCEPT ![t] = l]
Answer(t, code) == Goto(t, "reply") /\ reply' = [reply EXCEPT ![t] = code]

(* Mutant: the slot is cleared instead of filled with the last entry. *)
RemoveAt_Tombstone(i) ==
  /\ table' = [table EXCEPT ![i] = None]
  /\ live' = live \ {table[i]}
  /\ sess' = [sess EXCEPT ![table[i]] = Freed]
  /\ provider' = provider \ {sess[table[i]].id}
  /\ mutex' = [mutex EXCEPT ![table[i]] = None]

(* Mutant: the provider is not told. *)
RemoveAt_KeepsProvider(i) ==
  /\ table' = [j \in 1..(Len(table) - 1) |-> IF j = i THEN table[Len(table)] ELSE table[j]]
  /\ live' = live \ {table[i]}
  /\ sess' = [sess EXCEPT ![table[i]] = Freed]
  /\ mutex' = [mutex EXCEPT ![table[i]] = None]
  /\ UNCHANGED provider

(* session_remove_at: the last entry takes the place of the removed one,   *)
(* the provider forgets the session, and the object is unlocked and freed. *)
(* local_close_session does not find an id that was cut to 63 characters,  *)
(* and nobody looks at what it returns.                                    *)
RemoveAt(i) ==
  LET o == table[i]
      n == Len(table)
  IN  /\ table' = [j \in 1..(n - 1) |-> IF j = i THEN table[n] ELSE table[j]]
      /\ live' = live \ {o}
      /\ provider' = IF sess[o].created THEN provider \ ({sess[o].id} \ LongIds) ELSE provider
      /\ mutex' = [mutex EXCEPT ![o] = None]
      /\ sess' = [sess EXCEPT ![o] = Freed]

Init ==
  /\ engine = DefaultCtx /\ ctx = DefaultCtx
  /\ table = <<>> /\ live = {} /\ provider = {}
  /\ sess = [o \in Objs |-> Freed]
  /\ engineMutex = None /\ sessionsMutex = None
  /\ mutex = [o \in Objs |-> None]
  /\ now = 0 /\ reapedAt = 0 /\ budget = MaxRequests
  /\ pc = [t \in Threads |-> "idle"]
  /\ req = [w \in Workers |-> NoRequest]
  /\ ref = [w \in Workers |-> None]
  /\ idx = [t \in Threads |-> 0] /\ best = [w \in Workers |-> 0]
  /\ prompt = [w \in Workers |-> <<>>]
  /\ reply = [w \in Workers |-> "none"]
  /\ idle = {}
-----------------------------------------------------------------------------
(* read_line, parse_request and dispatch_request: a request arrives.       *)
Entry(op) ==
  CASE op = "create_session" -> "c_lock"
    [] op \in {"generate", "load_model"} -> "e_lock"
    [] op \in {"append_turn", "replace_history", "reset_session"} -> "f_lock"
    [] op = "close_session" -> "x_lock"
    [] OTHER -> "h_lock"

Receive(w) ==
  /\ pc[w] = "idle" /\ budget > 0
  /\ budget' = budget - 1
  /\ \E r \in Requests : req' = [req EXCEPT ![w] = r] /\ Goto(w, Entry(r.op))
  /\ UNCHANGED <<tableVars, modelVars, engineMutex, sessionsMutex, mutex, clockVars,
                 ref, idx, best, prompt, reply, idle>>

(* send_response / send_error, after every mutex has been released. *)
Reply(w) ==
  /\ pc[w] = "reply"
  /\ Goto(w, "idle")
  /\ req' = [req EXCEPT ![w] = NoRequest]
  /\ reply' = [reply EXCEPT ![w] = "none"]
  /\ UNCHANGED <<tableVars, modelVars, engineMutex, sessionsMutex, mutex, clockVars,
                 budget, ref, idx, best, prompt, idle>>
-----------------------------------------------------------------------------
(* session_create.  Under sessions_mutex, at the limit, the sessions that   *)
(* can be trylocked are scanned for the one least recently active, which    *)
(* stays locked as the candidate; it is removed, before an older session    *)
(* with the same id is replaced and the new one appended.                   *)
AtLimit_OffByOne == MaxSessions > 0 /\ Len(table) > MaxSessions       \* mutant
AtLimit == MaxSessions > 0 /\ Len(table) >= MaxSessions

ScanFrom_Second == 2                                                 \* mutant
ScanFrom == 1

CreateLock(w) ==
  /\ pc[w] = "c_lock" /\ sessionsMutex = None
  /\ sessionsMutex' = w
  /\ IF AtLimit
     THEN /\ Goto(w, "c_scan")
          /\ idx' = [idx EXCEPT ![w] = ScanFrom]
          /\ idle' = {o \in live : mutex[o] = None}
     ELSE Goto(w, "c_find") /\ UNCHANGED <<idx, idle>>
  /\ UNCHANGED <<tableVars, modelVars, engineMutex, mutex, clockVars, budget,
                 req, ref, best, prompt, reply>>

Better_Youngest(o, c) == c = 0 \/ sess[o].active > sess[table[c]].active  \* mutant
Better(o, c) == c = 0 \/ sess[o].active < sess[table[c]].active

CreateScan(w) ==
  /\ pc[w] = "c_scan" /\ idx[w] <= Len(table)
  /\ LET o == table[idx[w]]
         c == best[w]
     IN  IF mutex[o] = None /\ Better(o, c)
         THEN /\ mutex' = [x \in Objs |-> IF x = o THEN w
                                          ELSE IF c > 0 /\ x = table[c] THEN None
                                          ELSE mutex[x]]
              /\ best' = [best EXCEPT ![w] = idx[w]]
         ELSE UNCHANGED <<mutex, best>>
  /\ idx' = [idx EXCEPT ![w] = @ + 1]
  /\ UNCHANGED <<tableVars, modelVars, engineMutex, sessionsMutex, clockVars, budget,
                 pc, req, ref, prompt, reply, idle>>

(* Mutant: sessions_mutex is not released on the error path. *)
CreateLimit_KeepsMutex(w) ==
  /\ pc[w] = "c_scan" /\ idx[w] > Len(table) /\ best[w] = 0
  /\ idx' = [idx EXCEPT ![w] = 0]
  /\ Answer(w, "error")
  /\ UNCHANGED <<tableVars, modelVars, engineMutex, sessionsMutex, mutex, clockVars,
                 budget, req, ref, best, prompt, idle>>

CreateLimit(w) ==   \* every session is busy: ERR_SESSION_LIMIT
  /\ pc[w] = "c_scan" /\ idx[w] > Len(table) /\ best[w] = 0
  /\ sessionsMutex' = None
  /\ idx' = [idx EXCEPT ![w] = 0]
  /\ Answer(w, "error")
  /\ UNCHANGED <<tableVars, modelVars, engineMutex, mutex, clockVars, budget,
                 req, ref, best, prompt, idle>>

CreateEvict(w) ==
  /\ pc[w] = "c_scan" /\ idx[w] > Len(table) /\ best[w] > 0
  /\ RemoveAt(best[w])
  /\ idx' = [idx EXCEPT ![w] = 0] /\ best' = [best EXCEPT ![w] = 0]
  /\ Goto(w, "c_find")
  /\ UNCHANGED <<modelVars, engineMutex, sessionsMutex, clockVars, budget,
                 req, ref, prompt, reply, idle>>

CreateReplace(w) ==   \* waits for the session it replaces
  /\ pc[w] = "c_find"
  /\ \E i \in Has(req[w].id) :
       /\ \A k \in Has(req[w].id) : i <= k
       /\ mutex[table[i]] = None
       /\ RemoveAt(i)
  /\ Goto(w, "c_new")
  /\ UNCHANGED <<modelVars, engineMutex, sessionsMutex, clockVars, budget, locals>>

IdIsFree_NoReplace(w) == pc[w] \in {"c_find", "c_new"}   \* mutant
IdIsFree(w) ==
  \/ pc[w] = "c_new"
  \/ /\ pc[w] = "c_find"
     /\ Has(req[w].id) = {}

CreateNew(w) ==
  /\ IdIsFree(w)
  /\ \E o \in Objs \ live :
       /\ live' = live \cup {o}
       /\ sess' = [sess EXCEPT ![o] = [id |-> req[w].id, hist |-> <<>>, ctx |-> ctx,
                                       active |-> now, created |-> FALSE]]
       /\ table' = Append(table, o)
       /\ mutex' = [mutex EXCEPT ![o] = w]
       /\ ref' = [ref EXCEPT ![w] = o]
  /\ sessionsMutex' = None
  /\ Goto(w, "c_setup")
  /\ UNCHANGED <<provider, modelVars, engineMutex, clockVars, budget,
                 req, idx, best, prompt, reply, idle>>

CreateOutOfMemory(w) ==   \* calloc failed: ERR_INTERNAL
  /\ IdIsFree(w)
  /\ sessionsMutex' = None
  /\ Answer(w, "error")
  /\ UNCHANGED <<tableVars, modelVars, engineMutex, mutex, clockVars, budget,
                 req, ref, idx, best, prompt, idle>>

(* handle_create_session, with the new session's mutex still held: the      *)
(* provider is told, and the session counts as created there even when the *)
(* provider refuses (a full slot table, an unreachable service).            *)
CreateSetup(w) ==
  /\ pc[w] = "c_setup"
  /\ provider' \in {provider, provider \cup {req[w].id}}
  /\ sess' = [sess EXCEPT ![ref[w]].created = TRUE]
  /\ mutex' = [mutex EXCEPT ![ref[w]] = None]
  /\ ref' = [ref EXCEPT ![w] = None]
  /\ Answer(w, "ok")
  /\ UNCHANGED <<table, live, modelVars, engineMutex, sessionsMutex, clockVars, budget,
                 req, idx, best, prompt, idle>>

Create(w) ==
  \/ CreateLock(w) \/ CreateScan(w) \/ CreateLimit(w) \/ CreateEvict(w)
  \/ CreateReplace(w) \/ CreateNew(w) \/ CreateOutOfMemory(w) \/ CreateSetup(w)
-----------------------------------------------------------------------------
(* session_find_and_lock.  The lookup and the wait for the session happen   *)
(* under sessions_mutex, so a session cannot be freed while a thread waits *)
(* for its mutex, and nobody else can use the table meanwhile.              *)
FindMiss(w) ==
  /\ pc[w] = "f_lock" /\ sessionsMutex = None
  /\ Has(req[w].id) = {}
  /\ engineMutex' = IF req[w].op = "generate" THEN None ELSE engineMutex
  /\ Answer(w, "not_found")
  /\ UNCHANGED <<tableVars, modelVars, sessionsMutex, mutex, clockVars, budget,
                 req, ref, idx, best, prompt, idle>>

FindHit(w) ==
  /\ pc[w] = "f_lock" /\ sessionsMutex = None
  /\ sessionsMutex' = w
  /\ \E i \in Has(req[w].id) :
       /\ \A k \in Has(req[w].id) : i <= k
       /\ ref' = [ref EXCEPT ![w] = table[i]]
  /\ Goto(w, "f_wait")
  /\ UNCHANGED <<tableVars, modelVars, engineMutex, mutex, clockVars, budget,
                 req, idx, best, prompt, reply, idle>>

FindAcquire(w) ==
  /\ pc[w] = "f_wait" /\ mutex[ref[w]] = None
  /\ mutex' = [mutex EXCEPT ![ref[w]] = w]
  /\ sessionsMutex' = None
  /\ Goto(w, "held")
  /\ UNCHANGED <<tableVars, modelVars, engineMutex, clockVars, budget, locals>>

Find(w) == FindMiss(w) \/ FindHit(w) \/ FindAcquire(w)

(* Release the session and answer. *)
Finish(w, code) ==
  /\ mutex' = [mutex EXCEPT ![ref[w]] = None]
  /\ ref' = [ref EXCEPT ![w] = None]
  /\ Answer(w, code)
  /\ UNCHANGED <<table, live, provider, modelVars, engineMutex, sessionsMutex, clockVars,
                 budget, req, idx, best, prompt, idle>>

AppendTurn(w) ==
  /\ pc[w] = "held" /\ req[w].op = "append_turn"
  /\ sess' = [sess EXCEPT ![ref[w]].hist = @ \o req[w].msgs, ![ref[w]].active = now]
  /\ Finish(w, "ok")

ReplaceHistory(w) ==
  /\ pc[w] = "held" /\ req[w].op = "replace_history"
  /\ sess' = [sess EXCEPT ![ref[w]].hist = req[w].msgs, ![ref[w]].active = now]
  /\ Finish(w, "ok")

ResetSession(w) ==   \* does not count as activity
  /\ pc[w] = "held" /\ req[w].op = "reset_session"
  /\ sess' = [sess EXCEPT ![ref[w]].hist = <<>>]
  /\ Finish(w, "ok")

BadParams(w) ==   \* missing role, missing or invalid messages
  /\ pc[w] = "held" /\ req[w].op \in {"append_turn", "replace_history"}
  /\ UNCHANGED sess
  /\ Finish(w, "error")

Edit(w) == AppendTurn(w) \/ ReplaceHistory(w) \/ ResetSession(w) \/ BadParams(w)
-----------------------------------------------------------------------------
(* handle_generate: engine_mutex, then the session.  The engine is released *)
(* before the answer is sent, and the turn appended after it was sent, both *)
(* still under the session's mutex.                                         *)
GenNoModel(w) ==
  /\ pc[w] = "e_lock" /\ req[w].op = "generate"
  /\ engineMutex = None /\ engine = None
  /\ Answer(w, "error")
  /\ UNCHANGED <<tableVars, modelVars, engineMutex, sessionsMutex, mutex, clockVars,
                 budget, req, ref, idx, best, prompt, idle>>

(* Mutant: the engine is tested, but its mutex not kept. *)
GenEngine_Unlocks(w) ==
  /\ pc[w] = "e_lock" /\ req[w].op = "generate"
  /\ engineMutex = None /\ engine # None
  /\ Goto(w, "f_lock")
  /\ UNCHANGED <<tableVars, modelVars, engineMutex, sessionsMutex, mutex, clockVars,
                 budget, locals>>

GenEngine(w) ==
  /\ pc[w] = "e_lock" /\ req[w].op = "generate"
  /\ engineMutex = None /\ engine # None
  /\ engineMutex' = w
  /\ Goto(w, "f_lock")
  /\ UNCHANGED <<tableVars, modelVars, sessionsMutex, mutex, clockVars, budget, locals>>

(* generate_for_session, up to the call of the engine: the prompt is built  *)
(* from the history, and a session the provider does not know is created.   *)
GenStart(w) ==
  /\ pc[w] = "held" /\ req[w].op = "generate"
  /\ prompt' = [prompt EXCEPT ![w] = sess[ref[w]].hist]
  /\ provider' \in {provider} \cup
       (IF sess[ref[w]].created THEN {} ELSE {provider \cup {sess[ref[w]].id}})
  /\ sess' = [sess EXCEPT ![ref[w]].created = TRUE]
  /\ Goto(w, "g_run")
  /\ UNCHANGED <<table, live, modelVars, engineMutex, sessionsMutex, mutex, clockVars,
                 budget, req, ref, idx, best, reply, idle>>

(* Mutant: the session is released together with the engine. *)
GenDone_Unlocks(w) ==
  /\ pc[w] = "g_run"
  /\ sess' = [sess EXCEPT ![ref[w]].active = now]
  /\ engineMutex' = None
  /\ mutex' = [mutex EXCEPT ![ref[w]] = None]
  /\ reply' = [reply EXCEPT ![w] = "ok"]
  /\ Goto(w, "g_send")
  /\ UNCHANGED <<table, live, provider, modelVars, sessionsMutex, clockVars,
                 budget, req, ref, idx, best, prompt, idle>>

GenDone(w) ==
  /\ pc[w] = "g_run"
  /\ sess' = [sess EXCEPT ![ref[w]].active = now]
  /\ engineMutex' = None
  /\ reply' = [reply EXCEPT ![w] = "ok"]
  /\ Goto(w, "g_send")
  /\ UNCHANGED <<table, live, provider, modelVars, sessionsMutex, mutex, clockVars,
                 budget, req, ref, idx, best, prompt, idle>>

(* Mutant: a failed generate leaves its user message in the history. *)
GenFail_KeepsUser(w) ==
  /\ pc[w] = "g_run"
  /\ sess' = [sess EXCEPT ![ref[w]].hist = Append(@, "user")]
  /\ engineMutex' = None
  /\ mutex' = [mutex EXCEPT ![ref[w]] = None]
  /\ ref' = [ref EXCEPT ![w] = None]
  /\ prompt' = [prompt EXCEPT ![w] = <<>>]
  /\ Answer(w, "error")
  /\ UNCHANGED <<table, live, provider, modelVars, sessionsMutex, clockVars, budget,
                 req, idx, best, idle>>

GenFail(w) ==   \* context overflow, timeout, failed stream or engine error
  /\ pc[w] = "g_run"
  /\ engineMutex' = None
  /\ mutex' = [mutex EXCEPT ![ref[w]] = None]
  /\ ref' = [ref EXCEPT ![w] = None]
  /\ prompt' = [prompt EXCEPT ![w] = <<>>]
  /\ Answer(w, "error")
  /\ UNCHANGED <<tableVars, modelVars, sessionsMutex, clockVars, budget,
                 req, idx, best, idle>>

GenSend(w) ==
  /\ pc[w] = "g_send"
  /\ reply' = [reply EXCEPT ![w] = "none"]
  /\ Goto(w, "g_append")
  /\ UNCHANGED <<tableVars, modelVars, engineMutex, sessionsMutex, mutex, clockVars,
                 budget, req, ref, idx, best, prompt, idle>>

GenAppend(w) ==
  /\ pc[w] = "g_append"
  /\ sess' = [sess EXCEPT ![ref[w]].hist = @ \o req[w].msgs, ![ref[w]].active = now]
  /\ mutex' = [mutex EXCEPT ![ref[w]] = None]
  /\ ref' = [ref EXCEPT ![w] = None]
  /\ prompt' = [prompt EXCEPT ![w] = <<>>]
  /\ req' = [req EXCEPT ![w] = NoRequest]
  /\ Goto(w, "idle")
  /\ UNCHANGED <<table, live, provider, modelVars, engineMutex, sessionsMutex, clockVars,
                 budget, idx, best, reply, idle>>

Generate(w) ==
  \/ GenNoModel(w) \/ GenEngine(w) \/ GenStart(w)
  \/ GenDone(w) \/ GenFail(w) \/ GenSend(w) \/ GenAppend(w)
-----------------------------------------------------------------------------
(* session_close *)
CloseMiss(w) ==
  /\ pc[w] = "x_lock" /\ sessionsMutex = None
  /\ Has(req[w].id) = {}
  /\ Answer(w, "ok")
  /\ UNCHANGED <<tableVars, modelVars, engineMutex, sessionsMutex, mutex, clockVars,
                 budget, req, ref, idx, best, prompt, idle>>

CloseHit(w) ==
  /\ pc[w] = "x_lock" /\ sessionsMutex = None
  /\ sessionsMutex' = w
  /\ \E i \in Has(req[w].id) :
       /\ \A k \in Has(req[w].id) : i <= k
       /\ idx' = [idx EXCEPT ![w] = i]
  /\ Goto(w, "x_wait")
  /\ UNCHANGED <<tableVars, modelVars, engineMutex, mutex, clockVars, budget,
                 req, ref, best, prompt, reply, idle>>

CloseRemove(w) ==
  /\ pc[w] = "x_wait" /\ mutex[table[idx[w]]] = None
  /\ RemoveAt(idx[w])
  /\ idx' = [idx EXCEPT ![w] = 0]
  /\ sessionsMutex' = None
  /\ Answer(w, "ok")
  /\ UNCHANGED <<modelVars, engineMutex, clockVars, budget, req, ref, best, prompt, idle>>

Close(w) == CloseMiss(w) \/ CloseHit(w) \/ CloseRemove(w)
-----------------------------------------------------------------------------
(* handle_load_model: with both mutexes held an open engine's sessions are   *)
(* removed and the engine closed; sessions_mutex is released before the slow *)
(* ds3_engine_open, engine_mutex after it.                                  *)
LoadEngine(w) ==
  /\ pc[w] = "e_lock" /\ req[w].op = "load_model"
  /\ engineMutex = None
  /\ engineMutex' = w
  /\ Goto(w, "l_lock")
  /\ UNCHANGED <<tableVars, modelVars, sessionsMutex, mutex, clockVars, budget, locals>>

LoadLock(w) ==
  /\ pc[w] = "l_lock" /\ sessionsMutex = None
  /\ IF engine = None
     THEN Goto(w, "l_open") /\ UNCHANGED sessionsMutex
     ELSE Goto(w, "l_clear") /\ sessionsMutex' = w
  /\ UNCHANGED <<tableVars, modelVars, engineMutex, mutex, clockVars, budget, locals>>

LoadClear(w) ==
  /\ pc[w] = "l_clear" /\ table # <<>>
  /\ mutex[table[1]] = None
  /\ RemoveAt(1)
  /\ UNCHANGED <<modelVars, engineMutex, sessionsMutex, clockVars, budget, pc, locals>>

LoadClose(w) ==
  /\ pc[w] = "l_clear" /\ table = <<>>
  /\ engine' = None
  /\ sessionsMutex' = None
  /\ Goto(w, "l_open")
  /\ UNCHANGED <<tableVars, ctx, engineMutex, mutex, clockVars, budget, locals>>

LoadOpen(w) ==
  /\ pc[w] = "l_open"
  /\ engine' = req[w].ctx /\ ctx' = req[w].ctx
  /\ engineMutex' = None
  /\ Goto(w, "l_vocab")
  /\ UNCHANGED <<tableVars, sessionsMutex, mutex, clockVars, budget, locals>>

(* ds->engine is read once more, with no mutex held, for the vocab_size of   *)
(* the answer: by then another load_model may be replacing the engine.      *)
LoadVocab(w) ==
  /\ pc[w] = "l_vocab"
  /\ Answer(w, "ok")
  /\ UNCHANGED <<tableVars, modelVars, engineMutex, sessionsMutex, mutex, clockVars,
                 budget, req, ref, idx, best, prompt, idle>>

LoadFail(w) ==   \* no engine is left behind
  /\ pc[w] = "l_open"
  /\ engineMutex' = None
  /\ Answer(w, "error")
  /\ UNCHANGED <<tableVars, modelVars, sessionsMutex, mutex, clockVars, budget,
                 req, ref, idx, best, prompt, idle>>

Load(w) ==
  \/ LoadEngine(w) \/ LoadLock(w) \/ LoadClear(w)
  \/ LoadClose(w) \/ LoadOpen(w) \/ LoadVocab(w) \/ LoadFail(w)

(* handle_health and handle_stats read the table's size, then the engine. *)
HealthSessions(w) ==
  /\ pc[w] = "h_lock" /\ sessionsMutex = None
  /\ Goto(w, "h_engine")
  /\ UNCHANGED <<tableVars, modelVars, engineMutex, sessionsMutex, mutex, clockVars,
                 budget, locals>>

HealthEngine(w) ==
  /\ pc[w] = "h_engine" /\ engineMutex = None
  /\ Answer(w, "ok")
  /\ UNCHANGED <<tableVars, modelVars, engineMutex, sessionsMutex, mutex, clockVars,
                 budget, req, ref, idx, best, prompt, idle>>

Health(w) == HealthSessions(w) \/ HealthEngine(w)
-----------------------------------------------------------------------------
(* reaper_thread: after each sleep, one pass over the table that removes    *)
(* the sessions it can trylock and that have been inactive for too long.   *)
ReapLock ==
  /\ pc[Reaper] = "idle" /\ sessionsMutex = None
  /\ SessionTimeout > 0 /\ now > reapedAt
  /\ sessionsMutex' = Reaper
  /\ reapedAt' = now
  /\ idx' = [idx EXCEPT ![Reaper] = 1]
  /\ idle' = {o \in live : mutex[o] = None}
  /\ Goto(Reaper, "r_scan")
  /\ UNCHANGED <<tableVars, modelVars, engineMutex, mutex, now, budget,
                 req, ref, best, prompt, reply>>

(* reapedAt is the pass's "now": the clock may move on during the pass. *)
Expired(o) == reapedAt > sess[o].active + SessionTimeout

ReapKeep ==
  /\ pc[Reaper] = "r_scan" /\ idx[Reaper] <= Len(table)
  /\ LET o == table[idx[Reaper]] IN mutex[o] # None \/ ~Expired(o)
  /\ idx' = [idx EXCEPT ![Reaper] = @ + 1]
  /\ UNCHANGED <<tableVars, modelVars, engineMutex, sessionsMutex, mutex, clockVars,
                 budget, pc, req, ref, best, prompt, reply, idle>>

(* Mutant: the reaper steps over the session moved to the freed slot. *)
ReapRemove_Advances ==
  /\ pc[Reaper] = "r_scan" /\ idx[Reaper] <= Len(table)
  /\ LET o == table[idx[Reaper]] IN mutex[o] = None /\ Expired(o)
  /\ RemoveAt(idx[Reaper])
  /\ idx' = [idx EXCEPT ![Reaper] = @ + 1]
  /\ UNCHANGED <<modelVars, engineMutex, sessionsMutex, clockVars, budget, pc,
                 req, ref, best, prompt, reply, idle>>

(* Mutant: the reaper does not try the session's mutex. *)
ReapRemove_NoTrylock ==
  /\ pc[Reaper] = "r_scan" /\ idx[Reaper] <= Len(table)
  /\ Expired(table[idx[Reaper]])
  /\ RemoveAt(idx[Reaper])
  /\ UNCHANGED <<modelVars, engineMutex, sessionsMutex, clockVars, budget, pc, locals>>

ReapRemove ==   \* the last session now has this index: look again
  /\ pc[Reaper] = "r_scan" /\ idx[Reaper] <= Len(table)
  /\ LET o == table[idx[Reaper]] IN mutex[o] = None /\ Expired(o)
  /\ RemoveAt(idx[Reaper])
  /\ UNCHANGED <<modelVars, engineMutex, sessionsMutex, clockVars, budget, pc, locals>>

ReapEnd ==
  /\ pc[Reaper] = "r_scan" /\ idx[Reaper] > Len(table)
  /\ sessionsMutex' = None
  /\ idx' = [idx EXCEPT ![Reaper] = 0]
  /\ Goto(Reaper, "idle")
  /\ UNCHANGED <<tableVars, modelVars, engineMutex, mutex, clockVars, budget,
                 req, ref, best, prompt, reply, idle>>

Reap == ReapLock \/ ReapKeep \/ ReapRemove \/ ReapEnd

Tick ==
  /\ now < MaxTime
  /\ now' = now + 1
  /\ UNCHANGED <<tableVars, modelVars, engineMutex, sessionsMutex, mutex, reapedAt,
                 budget, pc, locals>>
-----------------------------------------------------------------------------
(* What a thread does once it has a request to serve. *)
Serve(w) ==
  \/ Create(w) \/ Find(w) \/ Edit(w) \/ Generate(w)
  \/ Close(w) \/ Load(w) \/ Health(w) \/ Reply(w)

Next == (\E w \in Workers : Receive(w) \/ Serve(w)) \/ Reap \/ Tick

Spec == Init /\ [][Next]_vars

(* Every thread that can run eventually does; clients need not call, and   *)
(* nothing is assumed of mutexes beyond that: with finitely many requests  *)
(* and passes of the reaper nobody can be overtaken for ever.               *)
FairSpec == Spec /\ (\A w \in Workers : WF_vars(Serve(w))) /\ WF_vars(Reap) /\ WF_vars(Tick)
-----------------------------------------------------------------------------
PCs == {"idle", "reply", "c_lock", "c_scan", "c_find", "c_new", "c_setup", "f_lock",
        "f_wait", "held", "e_lock", "g_run", "g_send", "g_append", "x_lock", "x_wait",
        "l_lock", "l_clear", "l_open", "l_vocab", "h_lock", "h_engine", "r_scan"}

TypeOK ==
  /\ engine \in Nat \cup {None} /\ ctx \in Nat
  /\ table \in Seq(Objs) /\ live \in SUBSET Objs
  /\ sess \in [Objs -> Session \cup {Freed}]
  /\ provider \in SUBSET Ids
  /\ engineMutex \in Workers \cup {None} /\ sessionsMutex \in Threads \cup {None}
  /\ mutex \in [Objs -> Threads \cup {None}]
  /\ now \in Nat /\ reapedAt \in Nat /\ budget \in Nat
  /\ pc \in [Threads -> PCs]
  /\ req \in [Workers -> Requests \cup {NoRequest}]
  /\ ref \in [Workers -> Objs \cup {None}]
  /\ idx \in [Threads -> Nat] /\ best \in [Workers -> Nat]
  /\ prompt \in [Workers -> Seq(Roles)]
  /\ reply \in [Workers -> {"none", "ok", "not_found", "error"}]
  /\ idle \in SUBSET Objs

(* A thread only works on a session_t that is allocated and in the table:   *)
(* no handler, wherever it was interrupted, is left with a pointer to an    *)
(* object that close_session, create_session, load_model or the reaper has  *)
(* freed (session_find_and_lock, session_remove_at).                        *)
NoUseAfterFree ==
  /\ \A w \in Workers : ref[w] # None => \E i \in DOMAIN table : table[i] = ref[w]
  /\ \A i \in DOMAIN table : table[i] \in live
  /\ \A w \in Workers : pc[w] = "x_wait" =>
       idx[w] \in DOMAIN table /\ sess[table[idx[w]]].id = req[w].id

(* No id names two sessions, whatever creations, replacements and removals   *)
(* raced (session_create looks for the id and appends in one critical        *)
(* section, which spans a wait for the session it replaces).                *)
OneSessionPerId ==
  \A i, j \in DOMAIN table : sess[table[i]].id = sess[table[j]].id => i = j

(* --max-sessions bounds the table even though the limit is tested before   *)
(* an eviction, a replacement and an append (session_create).               *)
WithinLimit == MaxSessions > 0 => Len(table) <= MaxSessions

(* The KV-cache provider holds sessions only for ids in the table: closing   *)
(* one cannot overtake or be overtaken by the creation of a new session with *)
(* the same id, although the provider is told under different mutexes.  Ids  *)
(* of 64 characters or more are left behind by every close.                  *)
NoOrphanInProvider ==
  \A p \in provider \ LongIds : \E i \in DOMAIN table :
     sess[table[i]].id = p /\ (sess[table[i]].created)

(* From the moment the prompt is built until the turn is appended the        *)
(* history is the one the prompt was built from: no other request's message  *)
(* falls between a prompt and its answer (handle_generate keeps s->mutex).   *)
PromptIsHistory ==
  \A w \in Workers :
     pc[w] \in {"g_run", "g_send", "g_append"} => sess[ref[w]].hist = prompt[w]

(* A generate that passed the check of ds->engine runs on an open engine    *)
(* that no load_model closes or replaces under it.                          *)
GenerateKeepsEngine ==
  [][\A w \in Workers : pc[w] = "g_run" => engine # None /\ engine' = engine]_vars

(* The session evicted at the limit is the least recently active of all     *)
(* those that were not in use when create_session began to look.            *)
EvictsLeastRecent ==
  [][\A w \in Workers : pc[w] = "c_scan" /\ pc'[w] = "c_find" =>
       \A o \in idle : sess[table[best[w]]].active <= sess[o].active]_vars

(* A session is refused for the limit only when every session was in use.   *)
RefusesOnlyWhenBusy ==
  [][\A w \in Workers : pc[w] = "c_scan" /\ pc'[w] = "reply" => idle = {}]_vars

(* A pass of the reaper leaves no expired session behind that nobody was     *)
(* using when it began: the swap in session_remove_at hides none from it.   *)
ReapsAllExpired ==
  [][pc[Reaper] = "r_scan" /\ pc'[Reaper] = "idle" =>
       \A i \in DOMAIN table : table[i] \in idle => ~Expired(table[i])]_vars

(* Every request is answered: no cycle of waits among the three levels of    *)
(* mutexes, and no return path that forgets one.                            *)
EveryRequestAnswered == \A w \in Workers : pc[w] # "idle" ~> pc[w] = "idle"
-----------------------------------------------------------------------------
(* Why: the inductive invariant behind the properties above.                 *)

(* Who holds what can be read off the program counters. *)
TablePCs == {"c_scan", "c_find", "c_new", "f_wait", "x_wait", "l_clear", "r_scan"}
UsePCs == {"c_setup", "held", "g_run", "g_send", "g_append"}
UsesEngine(w) ==
  \/ pc[w] \in {"l_lock", "l_clear", "l_open", "g_run"}
  \/ req[w].op = "generate" /\ pc[w] \in {"f_lock", "f_wait", "held"}

TableOwner == \A t \in Threads : sessionsMutex = t <=> pc[t] \in TablePCs
EngineOwner == \A w \in Workers : engineMutex = w <=> UsesEngine(w)

(* A worker has a session exactly between finding and releasing it; from    *)
(* the moment it stopped waiting it holds that session's mutex.             *)
SessionOwner ==
  \A w \in Workers :
    /\ ref[w] # None <=> pc[w] \in UsePCs \cup {"f_wait"}
    /\ pc[w] \in UsePCs => mutex[ref[w]] = w
    /\ best[w] > 0 => /\ pc[w] = "c_scan" /\ best[w] \in DOMAIN table
                      /\ mutex[table[best[w]]] = w

(* The table holds the live objects, once each. *)
TableIsLive ==
  /\ \A i, j \in DOMAIN table : table[i] = table[j] => i = j
  /\ \A o \in Objs : o \in live <=> \E i \in DOMAIN table : table[i] = o
  /\ \A o \in live : sess[o] \in Session

(* A scan's index is 1-based; a candidate is an entry already visited.       *)
ScanIndex ==
  /\ \A t \in Threads : pc[t] \in {"c_scan", "r_scan"} => idx[t] >= 1
  /\ \A w \in Workers : best[w] > 0 => best[w] < idx[w]

(* The request each program point serves. *)
ServesItsRequest ==
  \A w \in Workers :
    /\ pc[w] \in {"c_lock", "c_scan", "c_find", "c_new", "c_setup"} =>
         req[w] \in Requests /\ req[w].op = "create_session"
    /\ pc[w] \in {"f_lock", "f_wait", "held"} => req[w] \in Requests /\ req[w].op \in Finds
    /\ pc[w] \in {"g_run", "g_send", "g_append"} =>
         req[w] \in Requests /\ req[w].op = "generate"
    /\ pc[w] \in {"x_lock", "x_wait"} => req[w] \in Requests /\ req[w].op = "close_session"
    /\ pc[w] = "e_lock" => req[w] \in Requests /\ req[w].op \in {"generate", "load_model"}
    /\ pc[w] \in {"l_lock", "l_clear", "l_open", "l_vocab"} =>
         req[w] \in Requests /\ req[w].op = "load_model"
    /\ pc[w] \in {"h_lock", "h_engine"} => req[w] \in Requests /\ req[w].op = "health"

(* After the replacement the id stays free: nobody else can append it. *)
IdStaysFree == \A w \in Workers : pc[w] = "c_new" => Has(req[w].id) = {}

(* A generate past its test of ds->engine has one. *)
EngineStays ==
  \A w \in Workers :
    req[w].op = "generate" /\ pc[w] \in {"f_lock", "f_wait", "held", "g_run"} => engine # None

Inv ==
  /\ TypeOK /\ ServesItsRequest
  /\ TableOwner /\ EngineOwner /\ SessionOwner /\ TableIsLive /\ ScanIndex
  /\ IdStaysFree /\ EngineStays
  /\ NoUseAfterFree /\ OneSessionPerId /\ PromptIsHistory
-----------------------------------------------------------------------------
(* The daemon implements SessionService: a turn counts from the moment the  *)
(* engine has finished, although it is appended after the answer was sent.  *)
Owed(o) ==
  LET ws == {w \in Workers : pc[w] \in {"g_send", "g_append"} /\ ref[w] = o}
  IN  IF ws = {} THEN <<>> ELSE req[CHOOSE w \in ws : TRUE].msgs

Conversation(i) ==
  IF Has(i) = {} THEN None
  ELSE LET o == table[CHOOSE k \in Has(i) : TRUE] IN sess[o].hist \o Owed(o)

Phase(w) ==
  CASE pc[w] \in {"idle", "g_append"} -> "idle"
    [] pc[w] \in {"reply", "c_setup", "g_send", "l_vocab"} -> "decided"
    [] OTHER -> "called"

Service == INSTANCE SessionService WITH
  NoSession <- None, NoCall <- NoRequest,
  conv <- [i \in Ids |-> Conversation(i)],
  call <- [w \in Workers |-> IF Phase(w) = "idle" THEN NoRequest ELSE req[w]],
  phase <- [w \in Workers |-> Phase(w)],
  answer <- [w \in Workers |-> IF pc[w] \in {"c_setup", "l_vocab"} THEN "ok" ELSE reply[w]]

(* Requests take effect atomically and one at a time, on the conversation    *)
(* they name and on no other.                                               *)
ImplementsService == Service!Spec
=============================================================================
