------------------------ MODULE SessionTableRefinement ------------------------
(***************************************************************************)
(* Proof that SessionTable implements SessionService for every number of    *)
(* workers, ids, addresses and requests: requests take effect atomically,   *)
(* each in one step between its call and its answer, on the conversation   *)
(* it names, although they are served by threads that share a table.        *)
(***************************************************************************)
EXTENDS SessionTableProofs, FiniteSetTheorems

(* The variables of SessionService as SessionTable implements them. *)
Convs == [i \in Ids |-> Conversation(i)]
Calls == [w \in Workers |-> IF Phase(w) = "idle" THEN NoRequest ELSE req[w]]
Phases == [w \in Workers |-> Phase(w)]
Answered(w) == IF pc[w] \in {"c_setup", "l_vocab"} THEN "ok" ELSE reply[w]
Answers == [w \in Workers |-> Answered(w)]

(* What a conversation holds: its session's history, and the turn that a     *)
(* generate has answered and not appended yet.                              *)
Owers == {w \in Workers : pc[w] \in {"g_send", "g_append"}}
Owes == [o \in Objs |-> Owed(o)]
Texts == [o \in Objs |-> sess[o].hist \o Owes[o]]
-----------------------------------------------------------------------------
(* The refinement mapping, without its choices.                             *)

(* A session's mutex keeps the turns of two generates apart. *)
LEMMA OwedIsUnique ==
  ASSUME Inv, NEW w \in Owers
  PROVE  ref[w] \in Objs /\ Owes[ref[w]] = req[w].msgs
<1>0. w \in Workers /\ pc[w] \in UsePCs
  BY DEF Owers, UsePCs
<1>1. ref[w] \in Objs
  BY <1>0, RefIsSession DEF Inv, SessionOwner
<1>2. ASSUME NEW v \in Owers, ref[v] = ref[w] PROVE v = w
  BY <1>0, <1>2 DEF Inv, SessionOwner, UsePCs, Owers
<1>3. {v \in Workers : pc[v] \in {"g_send", "g_append"} /\ ref[v] = ref[w]} = {w}
  BY <1>2 DEF Owers
<1>4. ASSUME NEW o \in Objs, o = ref[w] PROVE Owed(o) = req[w].msgs
  BY <1>3, <1>4 DEF Owed
<1>. QED  BY <1>1, <1>4 DEF Owes

LEMMA NothingIsOwed ==
  ASSUME NEW o \in Objs, \A w \in Owers : ref[w] # o
  PROVE  Owes[o] = <<>>
<1>1. {v \in Workers : pc[v] \in {"g_send", "g_append"} /\ ref[v] = o} = {}
  BY DEF Owers
<1>. QED  BY <1>1 DEF Owed, Owes

(* An id's conversation is the text of the one session that has the id. *)
LEMMA ConversationIsText ==
  ASSUME Inv, NEW k \in DOMAIN table
  PROVE  /\ sess[table[k]].id \in Ids
         /\ Convs[sess[table[k]].id] = Texts[table[k]]
         /\ Texts[table[k]] \in Seq(Roles)
<1>1. table[k] \in Objs /\ sess[table[k]] \in Session
  BY DEF Inv, TypeOK, TableIsLive
<1>2. ASSUME NEW i \in Ids, i = sess[table[k]].id PROVE Convs[i] = Texts[table[k]]
  <2>1. Has(i) = {k}
    BY <1>2 DEF Inv, OneSessionPerId, Has
  <2>2. (CHOOSE j \in Has(i) : TRUE) = k
    BY <2>1
  <2>3. Conversation(i) = sess[table[k]].hist \o Owed(table[k])
    BY <2>1, <2>2 DEF Conversation
  <2>. QED  BY <1>1, <2>3 DEF Texts, Owes, Convs
<1>3. <<>> \in Seq(Roles) /\ \A r \in Requests : r.msgs \in Seq(Roles)
  BY RequestFields
<1>4. Owes[table[k]] \in Seq(Roles)
  <2>1. CASE \A w \in Owers : ref[w] # table[k]
    <3>1. Owes[table[k]] = <<>>
      BY <1>1, <2>1, NothingIsOwed
    <3>. QED  BY <1>3, <3>1
  <2>2. ASSUME NEW w \in Owers, ref[w] = table[k] PROVE Owes[table[k]] \in Seq(Roles)
    <3>1. Owes[table[k]] = req[w].msgs
      BY <2>2, OwedIsUnique
    <3>2. req[w] \in Requests
      BY DEF Inv, ServesItsRequest, Owers
    <3>. QED  BY <1>3, <3>1, <3>2
  <2>. QED  BY <2>1, <2>2
<1>5. sess[table[k]].id \in Ids /\ sess[table[k]].hist \in Seq(Roles)
  BY <1>1 DEF Session
<1>6. Texts[table[k]] = sess[table[k]].hist \o Owes[table[k]]
  BY <1>1 DEF Texts
<1>7. Texts[table[k]] \in Seq(Roles)
  BY <1>4, <1>5, <1>6
<1>. QED  BY <1>2, <1>5, <1>7

(* These facts, as a state predicate that holds before and after each step.  *)
TurnIsOwed == \A w \in Owers : ref[w] \in Objs /\ Owes[ref[w]] = req[w].msgs
OthersOweNone == \A o \in Objs : (\A w \in Owers : ref[w] # o) => Owes[o] = <<>>
TextIsAll == \A o \in Objs : Texts[o] = sess[o].hist \o Owes[o]
ConvIsText ==
  \A k \in DOMAIN table : /\ table[k] \in Objs /\ sess[table[k]].id \in Ids
                          /\ Convs[sess[table[k]].id] = Texts[table[k]]
                          /\ Texts[table[k]] \in Seq(Roles)
ConvIsNone ==
  \A i \in Ids : (\A k \in DOMAIN table : sess[table[k]].id # i) => Convs[i] = None

Mapped == TurnIsOwed /\ OthersOweNone /\ TextIsAll /\ ConvIsText /\ ConvIsNone

LEMMA InvMaps == Inv => Mapped
<1>. SUFFICES ASSUME Inv PROVE Mapped
  OBVIOUS
<1>1. ASSUME NEW i \in Ids, \A k \in DOMAIN table : sess[table[k]].id # i
      PROVE  Convs[i] = None
  <2>1. Has(i) = {}
    BY <1>1 DEF Has
  <2>. QED  BY <2>1 DEF Convs, Conversation
<1>2. \A k \in DOMAIN table : table[k] \in Objs
  BY DEF Inv, TypeOK
<1>3. TextIsAll
  BY DEF Texts, TextIsAll
<1>4. TurnIsOwed /\ OthersOweNone
  BY OwedIsUnique, NothingIsOwed DEF TurnIsOwed, OthersOweNone
<1>5. ConvIsText
  BY <1>2, ConversationIsText DEF ConvIsText
<1>6. ConvIsNone
  BY <1>1 DEF ConvIsNone
<1>. QED  BY <1>3, <1>4, <1>5, <1>6 DEF Mapped

Known == Inv /\ Room /\ RefIsNamed /\ Mapped

LEMMA KnownHolds == Spec => []Known
<1>1. Init => Room
  BY LimitsAssumption DEF Init, Room, Threads
<1>2. Init => RefIsNamed
  BY DEF Init, RefIsNamed
<1>3. Init => NoOrphanInProvider
  BY DEF Init, NoOrphanInProvider
<1>4. Inv /\ Room /\ RefIsNamed /\ NoOrphanInProvider => Known
  BY InvMaps DEF Known
<1>. QED  BY <1>1, <1>2, <1>3, <1>4, Invariant, RoomNext, ProviderNext, PTL DEF Spec
-----------------------------------------------------------------------------
(* Conversations.                                                           *)

(* The turns owed on session o are the same before and after the step. *)
SameOwers(o) ==
  /\ \A w \in Owers : ref[w] = o => w \in Owers' /\ ref'[w] = o /\ req'[w] = req[w]
  /\ \A w \in Owers' : ref'[w] = o => w \in Owers /\ ref[w] = o

(* A step that leaves a session's history and owed turn alone keeps its text. *)
LEMMA SameText ==
  ASSUME Mapped, Mapped', NEW o \in Objs, sess'[o].hist = sess[o].hist, SameOwers(o)
  PROVE  Texts'[o] = Texts[o]
<1>1. Owes'[o] = Owes[o]
  <2>1. CASE \A w \in Owers : ref[w] # o
    BY <2>1 DEF Mapped, OthersOweNone, SameOwers
  <2>2. ASSUME NEW w \in Owers, ref[w] = o PROVE Owes'[o] = Owes[o]
    BY <2>2 DEF Mapped, TurnIsOwed, SameOwers
  <2>. QED  BY <2>1, <2>2
<1>. QED  BY <1>1 DEF Mapped, TextIsAll

(* Two conversation maps are equal if they agree on every id. *)
LEMMA ConvsDomain ==
  /\ Convs = [i \in Ids |-> Convs[i]]
  /\ Convs' = [i \in Ids |-> Convs'[i]]
BY DEF Convs

(* A step that changes no entry and no text changes no conversation. *)
LEMMA SameConversations ==
  ASSUME Mapped, Mapped', table' = table,
         \A k \in DOMAIN table : /\ sess'[table[k]].id = sess[table[k]].id
                                 /\ Texts'[table[k]] = Texts[table[k]]
  PROVE  Convs' = Convs
<1>1. ASSUME NEW i \in Ids PROVE Convs'[i] = Convs[i]
  <2>1. CASE \A k \in DOMAIN table : sess[table[k]].id # i
    BY <2>1 DEF Mapped, ConvIsNone
  <2>2. ASSUME NEW k \in DOMAIN table, sess[table[k]].id = i PROVE Convs'[i] = Convs[i]
    BY <2>2 DEF Mapped, ConvIsText
  <2>. QED  BY <2>1, <2>2
<1>. QED  BY <1>1, ConvsDomain

(* A step that changes no entry and one text changes one conversation. *)
LEMMA OneConversation ==
  ASSUME Mapped, Mapped', table' = table, NEW k \in DOMAIN table,
         \A j \in DOMAIN table : /\ sess'[table[j]].id = sess[table[j]].id
                                 /\ j # k => Texts'[table[j]] = Texts[table[j]]
  PROVE  Convs' = [Convs EXCEPT ![sess[table[k]].id] = Texts'[table[k]]]
<1>1. ASSUME NEW i \in Ids, i # sess[table[k]].id PROVE Convs'[i] = Convs[i]
  <2>1. CASE \A j \in DOMAIN table : sess[table[j]].id # i
    BY <2>1 DEF Mapped, ConvIsNone
  <2>2. ASSUME NEW j \in DOMAIN table, sess[table[j]].id = i PROVE Convs'[i] = Convs[i]
    BY <1>1, <2>2 DEF Mapped, ConvIsText
  <2>. QED  BY <2>1, <2>2
<1>2. Convs'[sess[table[k]].id] = Texts'[table[k]] /\ sess[table[k]].id \in Ids
  BY DEF Mapped, ConvIsText
<1>. QED  BY <1>1, <1>2, ConvsDomain
-----------------------------------------------------------------------------
(* Calls and answers.                                                       *)

CalledPCs == PCs \ {"idle", "g_append", "reply", "c_setup", "g_send", "l_vocab"}

(* The stage a request is in can be read off its worker's program counter. *)
Staged ==
  \A w \in Workers :
    /\ pc[w] \in {"idle", "g_append"} => Phases[w] = "idle" /\ Calls[w] = NoRequest
    /\ pc[w] \in {"reply", "c_setup", "g_send", "l_vocab"} =>
         Phases[w] = "decided" /\ Calls[w] = req[w]
    /\ pc[w] \in CalledPCs => Phases[w] = "called" /\ Calls[w] = req[w]
    /\ Answers[w] = IF pc[w] \in {"c_setup", "l_vocab"} THEN "ok" ELSE reply[w]

LEMMA StagesHold == Staged
<1>. SUFFICES ASSUME NEW v \in Workers
              PROVE  /\ pc[v] \in {"idle", "g_append"} => Phases[v] = "idle" /\ Calls[v] = NoRequest
                     /\ pc[v] \in {"reply", "c_setup", "g_send", "l_vocab"} =>
                          Phases[v] = "decided" /\ Calls[v] = req[v]
                     /\ pc[v] \in CalledPCs => Phases[v] = "called" /\ Calls[v] = req[v]
                     /\ Answers[v] = IF pc[v] \in {"c_setup", "l_vocab"} THEN "ok" ELSE reply[v]
  BY DEF Staged
<1>1. /\ Phases[v] = Phase(v)
      /\ Calls[v] = IF Phase(v) = "idle" THEN NoRequest ELSE req[v]
      /\ Answers[v] = IF pc[v] \in {"c_setup", "l_vocab"} THEN "ok" ELSE reply[v]
  BY DEF Phases, Calls, Answers, Answered
<1>2. /\ pc[v] \in {"idle", "g_append"} => Phase(v) = "idle"
      /\ pc[v] \in {"reply", "c_setup", "g_send", "l_vocab"} => Phase(v) = "decided"
      /\ pc[v] \in CalledPCs => Phase(v) = "called"
  BY DEF Phase, CalledPCs
<1>. QED  BY <1>1, <1>2

(* Only the workers of S move. *)
OnlyMoves(S) ==
  \A w \in Workers \ S :
    pc'[w] = pc[w] /\ req'[w] = req[w] /\ reply'[w] = reply[w] /\ ref'[w] = ref[w]

(* Who does not move stays in its stage. *)
LEMMA OthersStay ==
  ASSUME NEW S, OnlyMoves(S), NEW w \in Workers \ S
  PROVE  Phases'[w] = Phases[w] /\ Calls'[w] = Calls[w] /\ Answers'[w] = Answers[w]
<1>1. Phase(w)' = Phase(w)
  BY DEF OnlyMoves, Phase
<1>. QED  BY <1>1 DEF OnlyMoves, Phases, Calls, Answers, Answered

LEMMA Domains ==
  /\ Phases = [w \in Workers |-> Phases[w]] /\ Phases' = [w \in Workers |-> Phases'[w]]
  /\ Calls = [w \in Workers |-> Calls[w]] /\ Calls' = [w \in Workers |-> Calls'[w]]
  /\ Answers = [w \in Workers |-> Answers[w]] /\ Answers' = [w \in Workers |-> Answers'[w]]
BY DEF Phases, Calls, Answers

(* A worker whose request is decided, with everybody else where they were.   *)
LEMMA DecideStep ==
  ASSUME NEW v \in Workers, NEW code, OnlyMoves({v}), Phases[v] = "called",
         Phases'[v] = "decided", Calls'[v] = Calls[v], Answers'[v] = code
  PROVE  Service!Decide(v, code)
<1>1. /\ Phases' = [Phases EXCEPT ![v] = "decided"]
      /\ Answers' = [Answers EXCEPT ![v] = code]
      /\ Calls' = Calls
  BY OthersStay, Domains
<1>. QED  BY <1>1 DEF Service!Decide, Phases, Calls, Answers, Answered

(* A step in which no request changes its stage. *)
LEMMA StutterStep ==
  ASSUME NEW S, S \subseteq Workers, OnlyMoves(S), Convs' = Convs,
         \A v \in S : Phases'[v] = Phases[v] /\ Calls'[v] = Calls[v] /\ Answers'[v] = Answers[v]
  PROVE  UNCHANGED Service!vars
<1>1. Phases' = Phases /\ Calls' = Calls /\ Answers' = Answers
  BY OthersStay, Domains
<1>. QED  BY <1>1 DEF Service!vars, Convs, Phases, Calls, Answers, Answered

(* The sessions' ids and histories stay, and nobody who moves owes a turn.   *)
SameSessions ==
  /\ table' = table
  /\ \A o \in Objs : sess'[o].id = sess[o].id /\ sess'[o].hist = sess[o].hist

LEMMA SameConvs ==
  ASSUME Mapped, Mapped', NEW S, OnlyMoves(S), SameSessions,
         \A v \in S : pc[v] \notin {"g_send", "g_append"} /\ pc'[v] \notin {"g_send", "g_append"}
  PROVE  Convs' = Convs
<1>1. \A o \in Objs : SameOwers(o)
  BY DEF SameOwers, Owers, OnlyMoves
<1>2. \A o \in Objs : Texts'[o] = Texts[o]
  BY <1>1, SameText DEF SameSessions
<1>3. \A k \in DOMAIN table : table[k] \in Objs
  BY DEF Mapped, ConvIsText
<1>. QED  BY <1>2, <1>3, SameConversations DEF SameSessions

(* The steps of a request before it takes effect. *)
LEMMA CalledStep ==
  ASSUME Mapped, Mapped', NEW v \in Workers, OnlyMoves({v}), SameSessions,
         pc[v] \in CalledPCs, pc'[v] \in CalledPCs, req'[v] = req[v], reply'[v] = reply[v]
  PROVE  UNCHANGED Service!vars
<1>1. Convs' = Convs
  BY SameConvs DEF CalledPCs
<1>2. Staged /\ Staged'
  BY StagesHold, PTL
<1>3. Phases'[v] = Phases[v] /\ Calls'[v] = Calls[v] /\ Answers'[v] = Answers[v]
  BY <1>2 DEF Staged, CalledPCs
<1>. QED  BY <1>1, <1>3, StutterStep

(* A request that is answered. *)
LEMMA AnswerStep ==
  ASSUME NEW v \in Workers, NEW code, OnlyMoves({v}), pc[v] \in CalledPCs, req'[v] = req[v],
         \/ pc'[v] \in {"reply", "g_send"} /\ reply'[v] = code
         \/ pc'[v] \in {"c_setup", "l_vocab"} /\ code = "ok"
  PROVE  Service!Decide(v, code) /\ Calls[v] = req[v]
<1>2. Staged /\ Staged'
  BY StagesHold, PTL
<1>3. /\ Phases[v] = "called" /\ Phases'[v] = "decided"
      /\ Calls[v] = req[v] /\ Calls'[v] = Calls[v] /\ Answers'[v] = code
  BY <1>2 DEF Staged
<1>. QED  BY <1>3, DecideStep

(* A request that fails changes no conversation. *)
LEMMA FailStep ==
  ASSUME Mapped, Mapped', NEW v \in Workers, OnlyMoves({v}), SameSessions,
         pc[v] \in CalledPCs, pc'[v] = "reply", req'[v] = req[v], reply'[v] = "error"
  PROVE  Service!Next
<1>1. Convs' = Convs
  BY SameConvs DEF CalledPCs
<1>2. Service!Decide(v, "error")
  BY AnswerStep
<1>. QED  BY <1>1, <1>2 DEF Service!Next, Service!Fail, Convs
-----------------------------------------------------------------------------
(* Sessions that go and come.                                               *)

(* A removal ends one conversation, the removed session's. *)
LEMMA RemovalDrops ==
  ASSUME Known, Known', NEW t \in Threads, NEW i \in DOMAIN table, Removes(t, i)
  PROVE  /\ sess[table[i]].id \in Ids
         /\ Convs[sess[table[i]].id] # None
         /\ Convs' = [Convs EXCEPT ![sess[table[i]].id] = None]
<1>. DEFINE x == sess[table[i]].id
<1>0. /\ Mapped /\ Mapped' /\ TableIsLive /\ OneSessionPerId
      /\ \A k \in DOMAIN table : table[k] \in Objs
  BY DEF Known, Inv, Mapped, ConvIsText
<1>1. /\ \A j \in DOMAIN table' : \E k \in DOMAIN table : k # i /\ table'[j] = table[k]
      /\ \A k \in DOMAIN table : k # i => \E j \in DOMAIN table' : table'[j] = table[k]
      /\ \A o \in Objs \ {table[i]} : sess'[o] = sess[o]
  BY RemoveAtEffect DEF Removes, Known
<1>2. \A k \in DOMAIN table : k # i => table[k] \in Objs \ {table[i]}
  BY <1>0 DEF TableIsLive
<1>3. ref' = ref /\ req' = req /\ Owers' = Owers
  <2>1. pc[t] \notin {"g_send", "g_append"} /\ pc'[t] \notin {"g_send", "g_append"}
    BY DEF Removes, TablePCs
  <2>2. \A w \in Workers : w # t => pc'[w] = pc[w]
    BY DEF Removes, Threads
  <2>. QED  BY <2>1, <2>2 DEF Owers, Removes
<1>4. ASSUME NEW o \in Objs \ {table[i]} PROVE Texts'[o] = Texts[o]
  <2>1. SameOwers(o)
    BY <1>3 DEF SameOwers
  <2>. QED  BY <1>0, <1>1, <2>1, SameText
<1>5. x \in Ids /\ Convs[x] # None
  <2>1. x \in Ids /\ Convs[x] \in Seq(Roles)
    BY <1>0 DEF Mapped, ConvIsText
  <2>. QED  BY <2>1, HistoriesAssumption
<1>6. ASSUME NEW j \in Ids, j # x PROVE Convs'[j] = Convs[j]
  <2>1. CASE \A k \in DOMAIN table : sess[table[k]].id # j
    <3>1. \A k \in DOMAIN table' : sess'[table'[k]].id # j
      BY <1>1, <1>2, <2>1
    <3>. QED  BY <1>0, <2>1, <3>1 DEF Mapped, ConvIsNone
  <2>2. ASSUME NEW k \in DOMAIN table, sess[table[k]].id = j PROVE Convs'[j] = Convs[j]
    <3>1. k # i
      BY <1>6, <2>2
    <3>2. PICK l \in DOMAIN table' : table'[l] = table[k]
      BY <1>1, <3>1
    <3>3. Convs[j] = Texts[table[k]]
      BY <1>0, <2>2 DEF Mapped, ConvIsText
    <3>4. Convs'[j] = Texts'[table[k]]
      BY <1>0, <1>1, <1>2, <2>2, <3>1, <3>2 DEF Mapped, ConvIsText
    <3>. QED  BY <1>2, <1>4, <3>1, <3>3, <3>4
  <2>. QED  BY <2>1, <2>2
<1>7. Convs'[x] = None
  <2>1. ASSUME NEW k \in DOMAIN table', sess'[table'[k]].id = x PROVE FALSE
    <3>1. PICK l \in DOMAIN table : l # i /\ table'[k] = table[l]
      BY <1>1
    <3>. QED  BY <1>0, <1>1, <1>2, <2>1, <3>1 DEF OneSessionPerId
  <2>. QED  BY <1>0, <1>5, <2>1 DEF Mapped, ConvIsNone
<1>. QED  BY <1>5, <1>6, <1>7, ConvsDomain

(* ... which SessionService calls a drop, unless it is what was asked for.    *)
LEMMA DropStep ==
  ASSUME Known, Known', NEW t \in Threads, NEW i \in DOMAIN table, Removes(t, i),
         NEW S, S \subseteq Workers, OnlyMoves(S),
         \A v \in S : Phases'[v] = Phases[v] /\ Calls'[v] = Calls[v] /\ Answers'[v] = Answers[v]
  PROVE  Service!Next
<1>1. Phases' = Phases /\ Calls' = Calls /\ Answers' = Answers
  BY OthersStay, Domains
<1>2. Service!Drop(sess[table[i]].id)
  BY <1>1, RemovalDrops DEF Service!Drop, Convs, Phases, Calls, Answers, Answered
<1>3. sess[table[i]].id \in Ids
  BY RemovalDrops
<1>. QED  BY <1>2, <1>3 DEF Service!Next

(* The cardinality that SessionService counts with is the usual one. *)
LEMMA SameCardinality == ASSUME NEW S PROVE Service!Cardinality(S) = Cardinality(S)
BY DEF Service!Cardinality, Cardinality

(* The open conversations are no more than the sessions. *)
LEMMA OpenIsBounded ==
  ASSUME Known
  PROVE  /\ Cardinality(Service!Open) \in Nat
         /\ Cardinality(Service!Open) <= Len(table)
<1>. DEFINE f == [k \in DOMAIN table |-> sess[table[k]].id]
<1>1. table \in Seq(Objs) /\ DOMAIN table = 1..Len(table) /\ Len(table) \in Nat
  BY DEF Known, Inv, TypeOK
<1>2. Service!Open = {i \in Ids : Convs[i] # None}
  BY DEF Service!Open, Convs
<1>3. ASSUME NEW k \in DOMAIN table PROVE f[k] \in Service!Open
  <2>1. Convs[sess[table[k]].id] \in Seq(Roles) /\ sess[table[k]].id \in Ids
    BY DEF Known, Mapped, ConvIsText
  <2>. QED  BY <1>2, <2>1, HistoriesAssumption
<1>4. ASSUME NEW i \in Service!Open PROVE \E k \in DOMAIN table : f[k] = i
  BY <1>2 DEF Known, Mapped, ConvIsNone
<1>5. f \in Surjection(DOMAIN table, Service!Open)
  BY <1>3, <1>4 DEF Surjection
<1>6. IsFiniteSet(DOMAIN table) /\ Cardinality(DOMAIN table) = Len(table)
  <2>1. 1 \in Int /\ Len(table) \in Int
    BY <1>1
  <2>2. /\ IsFiniteSet(1..Len(table))
        /\ Cardinality(1..Len(table)) = IF 1 > Len(table) THEN 0 ELSE Len(table) - 1 + 1
    BY <2>1, FS_Interval
  <2>. QED  BY <1>1, <2>2
<1>7. IsFiniteSet(Service!Open) /\ Cardinality(Service!Open) <= Cardinality(DOMAIN table)
  BY <1>5, <1>6, FS_Surjection
<1>. QED  BY <1>6, <1>7, FS_CardinalityType

(* An append opens one empty conversation, for which there is room. *)
LEMMA CreateStep ==
  ASSUME Known, Known', NEW w \in Workers, CreateNew(w)
  PROVE  Service!Next
<1>0. /\ Mapped /\ Mapped' /\ TableIsLive /\ NoUseAfterFree /\ w \in Threads
      /\ table \in Seq(Objs) /\ sess \in [Objs -> Session \cup {Freed}]
      /\ pc \in [Threads -> PCs] /\ ref \in [Workers -> Objs \cup {None}]
      /\ Workers \subseteq Threads
  BY DEF Known, Inv, TypeOK, Threads
<1>. DEFINE x == req[w].id
<1>1. /\ pc[w] \in {"c_find", "c_new"} /\ x \in Ids /\ req[w].op = "create_session"
      /\ \A k \in DOMAIN table : sess[table[k]].id # x
  <2>1. pc[w] \in {"c_find", "c_new"} /\ Has(x) = {}
    BY DEF CreateNew, IdIsFree, IdStaysFree, Known, Inv
  <2>2. req[w] \in Requests /\ req[w].op = "create_session"
    BY <2>1 DEF ServesItsRequest, Known, Inv
  <2>. QED  BY <2>1, <2>2, RequestFields DEF Has, Global
<1>2. PICK o \in Objs \ live :
        /\ table' = Append(table, o) /\ ref' = [ref EXCEPT ![w] = o]
        /\ sess' = [sess EXCEPT ![o] = [id |-> x, hist |-> <<>>, ctx |-> ctx,
                                       active |-> now, created |-> FALSE]]
  BY DEF CreateNew
<1>3. pc' = [pc EXCEPT ![w] = "c_setup"] /\ req' = req /\ reply' = reply
  BY DEF CreateNew, Goto
<1>4. OnlyMoves({w}) /\ pc'[w] = "c_setup"
  BY <1>0, <1>2, <1>3 DEF OnlyMoves
<1>5. Owers' = Owers /\ w \notin Owers
  BY <1>0, <1>1, <1>3 DEF Owers
<1>6. \A v \in Owers : v # w /\ ref[v] \in live /\ ref'[v] = ref[v]
  <2>1. \A v \in Owers : v \in Workers /\ v # w /\ ref[v] # None
    BY <1>5 DEF Owers, Known, Inv, SessionOwner, UsePCs
  <2>2. \A v \in Owers : ref[v] \in live
    BY <2>1, RefIsSession DEF Known
  <2>. QED  BY <1>0, <1>2, <2>1, <2>2
<1>7. ASSUME NEW k \in DOMAIN table
      PROVE  /\ k \in DOMAIN table' /\ table'[k] = table[k]
             /\ sess'[table[k]] = sess[table[k]] /\ Texts'[table[k]] = Texts[table[k]]
  <2>1. table[k] \in Objs /\ table[k] \in live
    BY <1>0 DEF NoUseAfterFree
  <2>2. table'[k] = table[k] /\ k \in DOMAIN table' /\ sess'[table[k]] = sess[table[k]]
    BY <1>0, <1>2, <2>1
  <2>3. SameOwers(table[k])
    BY <1>3, <1>5, <1>6, <2>1 DEF SameOwers
  <2>. QED  BY <1>0, <2>1, <2>2, <2>3, SameText
<1>8. ASSUME NEW k \in DOMAIN table' PROVE k \in DOMAIN table \/ table'[k] = o
  BY <1>0, <1>2
<1>9. /\ Len(table) + 1 \in DOMAIN table' /\ table'[Len(table) + 1] = o
      /\ sess'[o].id = x /\ sess'[o].hist = <<>>
  BY <1>0, <1>2
<1>10. ASSUME NEW j \in Ids, j # x PROVE Convs'[j] = Convs[j]
  <2>1. CASE \A k \in DOMAIN table : sess[table[k]].id # j
    <3>1. \A k \in DOMAIN table' : sess'[table'[k]].id # j
      BY <1>7, <1>8, <1>9, <1>10, <2>1
    <3>. QED  BY <1>0, <2>1, <3>1 DEF Mapped, ConvIsNone
  <2>2. ASSUME NEW k \in DOMAIN table, sess[table[k]].id = j PROVE Convs'[j] = Convs[j]
    <3>1. Convs[j] = Texts[table[k]]
      BY <1>0, <2>2 DEF Mapped, ConvIsText
    <3>2. Convs'[j] = Texts'[table[k]]
      BY <1>0, <1>7, <2>2 DEF Mapped, ConvIsText
    <3>. QED  BY <1>7, <3>1, <3>2
  <2>. QED  BY <2>1, <2>2
<1>11. Convs'[x] = <<>>
  <2>1. Owes'[o] = <<>>
    BY <1>0, <1>5, <1>6 DEF Mapped, OthersOweNone
  <2>2. Texts'[o] = <<>>
    <3>1. Texts'[o] = sess'[o].hist \o Owes'[o]
      BY <1>0 DEF Mapped, TextIsAll
    <3>2. <<>> \o <<>> = <<>>
      OBVIOUS
    <3>. QED  BY <1>9, <2>1, <3>1, <3>2
  <2>3. Convs'[x] = Texts'[o]
    BY <1>0, <1>9 DEF Mapped, ConvIsText
  <2>. QED  BY <2>2, <2>3
<1>12. Convs' = [Convs EXCEPT ![x] = <<>>]
  BY <1>10, <1>11, ConvsDomain
<1>13. Convs[x] = None
  BY <1>0, <1>1 DEF Mapped, ConvIsNone
<1>14. Service!Decide(w, "ok") /\ Calls[w] = req[w]
  BY <1>1, <1>3, <1>4, AnswerStep DEF CalledPCs, PCs
<1>15. MaxSessions > 0 => Cardinality(Service!Open) < MaxSessions
  BY <1>0, <1>1, OpenIsBounded, LimitsAssumption DEF Known, Room
<1>16. /\ Calls[w].op = "create_session" /\ Convs[Calls[w].id] = None
       /\ Convs' = [Convs EXCEPT ![Calls[w].id] = <<>>]
  BY <1>1, <1>12, <1>13, <1>14
<1>17. Service!CreateEffect(w)
  BY <1>14, <1>15, <1>16, SameCardinality DEF Service!CreateEffect, Convs, Calls
<1>. QED  BY <1>17 DEF Service!Next
-----------------------------------------------------------------------------
(* Steps that write into a session in use.                                   *)

(* Its mutex keeps everybody else from owing a turn on it. *)
LEMMA NobodyElseOwes ==
  ASSUME Known, NEW v \in Workers, pc[v] \in UsePCs, OnlyMoves({v})
  PROVE  /\ ref[v] \in Objs /\ \E k \in DOMAIN table : table[k] = ref[v]
         /\ \A w \in Owers : w # v => ref[w] # ref[v]
         /\ \A w \in Owers' : w # v => ref'[w] # ref[v]
<1>1. SessionOwner /\ ref[v] # None
  BY DEF Known, Inv, SessionOwner
<1>2. ref[v] \in Objs /\ \E k \in DOMAIN table : table[k] = ref[v]
  BY <1>1, RefIsSession DEF Known, Inv, NoUseAfterFree
<1>3. ASSUME NEW w \in Owers, w # v PROVE ref[w] # ref[v]
  BY <1>1, <1>3 DEF SessionOwner, Owers, UsePCs
<1>4. ASSUME NEW w \in Owers', w # v PROVE w \in Owers /\ ref'[w] = ref[w]
  BY <1>4 DEF Owers, OnlyMoves
<1>. QED  BY <1>2, <1>3, <1>4

(* The conversation the request names becomes the session's new text; no      *)
(* other changes.                                                           *)
LEMMA TextStep ==
  ASSUME Known, Known', NEW v \in Workers, pc[v] \in UsePCs, OnlyMoves({v}),
         ref'[v] \in {None, ref[v]}, table' = table,
         \A o \in Objs : /\ sess'[o].id = sess[o].id
                         /\ o # ref[v] => sess'[o].hist = sess[o].hist
  PROVE  /\ ref[v] \in Objs /\ req[v].id \in Ids /\ sess[ref[v]].hist \in Seq(Roles)
         /\ Convs[req[v].id] = Texts[ref[v]] /\ Convs[req[v].id] # None
         /\ Convs' = [Convs EXCEPT ![req[v].id] = Texts'[ref[v]]]
<1>0. Mapped /\ Mapped' /\ None \notin Objs
  BY ObjsAssumption DEF Known
<1>1. PICK k \in DOMAIN table : table[k] = ref[v]
  BY NobodyElseOwes
<1>2. ref[v] \in Objs /\ ref[v] # None
  BY <1>0, NobodyElseOwes
<1>3. sess[table[k]].id = req[v].id
  BY <1>1, <1>2 DEF Known, RefIsNamed
<1>4. ASSUME NEW j \in DOMAIN table, j # k PROVE Texts'[table[j]] = Texts[table[j]]
  <2>1. table[j] \in Objs /\ table[j] # ref[v]
    BY <1>0, <1>1, <1>4 DEF Known, Inv, TableIsLive, Mapped, ConvIsText
  <2>2. SameOwers(table[j])
    <3>1. \A w \in Owers : ref[w] = table[j] => w # v
      BY <2>1
    <3>2. \A w \in Owers' : ref'[w] = table[j] => w # v
      BY <1>0, <2>1
    <3>. QED  BY <3>1, <3>2 DEF SameOwers, Owers, OnlyMoves
  <2>. QED  BY <1>0, <2>1, <2>2, SameText
<1>5. \A j \in DOMAIN table : table[j] \in Objs
  BY <1>0 DEF Mapped, ConvIsText
<1>6. Convs' = [Convs EXCEPT ![sess[table[k]].id] = Texts'[table[k]]]
  BY <1>0, <1>4, <1>5, OneConversation
<1>7. /\ Convs[req[v].id] = Texts[ref[v]] /\ req[v].id \in Ids
      /\ Convs[req[v].id] \in Seq(Roles)
  BY <1>0, <1>1, <1>3 DEF Mapped, ConvIsText
<1>8. sess[ref[v]].hist \in Seq(Roles)
  BY <1>2, RefIsSession DEF Known, Session
<1>. QED  BY <1>1, <1>2, <1>3, <1>6, <1>7, <1>8, HistoriesAssumption

(* A text with no turn owed is the history. *)
LEMMA TextIsHistory ==
  ASSUME Mapped, NEW o \in Objs, sess[o].hist \in Seq(Roles), \A w \in Owers : ref[w] # o
  PROVE  Texts[o] = sess[o].hist
<1>1. Owes[o] = <<>> /\ Texts[o] = sess[o].hist \o Owes[o]
  BY DEF Mapped, OthersOweNone, TextIsAll
<1>2. sess[o].hist \o <<>> = sess[o].hist
  OBVIOUS
<1>. QED  BY <1>1, <1>2

(* The same after the step. *)
LEMMA NextTextIsHistory ==
  ASSUME Mapped', NEW o \in Objs, sess'[o].hist \in Seq(Roles), \A w \in Owers' : ref'[w] # o
  PROVE  Texts'[o] = sess'[o].hist
<1>1. Owes'[o] = <<>> /\ Texts'[o] = sess'[o].hist \o Owes'[o]
  BY DEF Mapped, OthersOweNone, TextIsAll
<1>2. sess'[o].hist \o <<>> = sess'[o].hist
  OBVIOUS
<1>. QED  BY <1>1, <1>2

(* What storing a history, a time or a flag changes. *)
LEMMA StoreKeeps ==
  ASSUME Known, NEW v \in Workers, pc[v] \in UsePCs, NEW h, NEW t,
         \/ sess' = [sess EXCEPT ![ref[v]].hist = h, ![ref[v]].active = t]
         \/ sess' = [sess EXCEPT ![ref[v]].hist = h]
         \/ sess' = [sess EXCEPT ![ref[v]].active = t] /\ h = sess[ref[v]].hist
         \/ sess' = [sess EXCEPT ![ref[v]].created = TRUE] /\ h = sess[ref[v]].hist
  PROVE  /\ sess'[ref[v]].hist = h
         /\ \A o \in Objs : /\ sess'[o].id = sess[o].id
                            /\ o # ref[v] => sess'[o].hist = sess[o].hist
<1>. DEFINE s == sess[ref[v]]
<1>1. s \in Session /\ ref[v] \in Objs /\ sess \in [Objs -> Session \cup {Freed}]
  BY RefIsSession DEF Known, Inv, SessionOwner, TypeOK
<1>2. \/ sess'[ref[v]] = [s EXCEPT !.hist = h, !.active = t]
      \/ sess'[ref[v]] = [s EXCEPT !.hist = h]
      \/ sess'[ref[v]] = [s EXCEPT !.active = t] /\ h = s.hist
      \/ sess'[ref[v]] = [s EXCEPT !.created = TRUE] /\ h = s.hist
  BY <1>1
<1>3. \A o \in Objs : o # ref[v] => sess'[o] = sess[o]
  BY <1>1
<1>4. sess'[ref[v]].hist = h /\ sess'[ref[v]].id = s.id
  <2>. HIDE DEF s
  <2>. QED  BY <1>1, <1>2 DEF Session
<1>. QED  BY <1>3, <1>4

(* append_turn, replace_history and reset_session: one step from "held" to the  *)
(* answer, with the session released.                                        *)
LEMMA EditStep ==
  ASSUME Known, Known', NEW v \in Workers, Edit(v)
  PROVE  Service!Next
<1>0. /\ pc \in [Threads -> PCs] /\ ref \in [Workers -> Objs \cup {None}]
      /\ reply \in [Workers -> {"none", "ok", "not_found", "error"}]
      /\ Workers \subseteq Threads /\ Mapped /\ Mapped' /\ ServesItsRequest /\ None \notin Objs
  BY ObjsAssumption DEF Known, Inv, TypeOK, Threads
<1>1. /\ pc[v] = "held" /\ pc[v] \in UsePCs /\ pc[v] \in CalledPCs
      /\ \E code \in {"ok", "error"} : Finish(v, code)
  BY DEF Edit, AppendTurn, ReplaceHistory, ResetSession, BadParams, UsePCs, CalledPCs, PCs
<1>2. /\ OnlyMoves({v}) /\ pc'[v] = "reply" /\ req' = req /\ table' = table
      /\ ref'[v] = None
  BY <1>0, <1>1 DEF Finish, Answer, Goto, OnlyMoves
<1>3. /\ ref[v] \in Objs /\ \A w \in Owers : ref[w] # ref[v]
      /\ \A w \in Owers' : ref'[w] # ref[v]
  BY <1>0, <1>1, <1>2, NobodyElseOwes DEF Owers
<1>4. ASSUME BadParams(v) PROVE Service!Next
  <2>1. SameSessions /\ reply'[v] = "error"
    BY <1>0, <1>2, <1>4 DEF BadParams, SameSessions, Finish, Answer
  <2>. QED  BY <1>0, <1>1, <1>2, <2>1, FailStep
<1>5. ASSUME Finish(v, "ok") PROVE Service!Decide(v, "ok") /\ Calls[v] = req[v]
  <2>1. reply'[v] = "ok"
    BY <1>0, <1>5 DEF Finish, Answer
  <2>. QED  BY <1>1, <1>2, <2>1, AnswerStep
<1>6. ASSUME NEW h \in Seq(Roles), Finish(v, "ok"),
             \/ sess' = [sess EXCEPT ![ref[v]].hist = h, ![ref[v]].active = now]
             \/ sess' = [sess EXCEPT ![ref[v]].hist = h]
      PROVE  /\ Convs[Calls[v].id] = sess[ref[v]].hist /\ Convs[Calls[v].id] # None
             /\ Convs' = [Convs EXCEPT ![Calls[v].id] = h]
  <2>1. /\ sess'[ref[v]].hist = h
        /\ \A o \in Objs : /\ sess'[o].id = sess[o].id
                           /\ o # ref[v] => sess'[o].hist = sess[o].hist
    <3>1. CASE sess' = [sess EXCEPT ![ref[v]].hist = h, ![ref[v]].active = now]
      BY <1>1, <3>1, StoreKeeps
    <3>2. CASE sess' = [sess EXCEPT ![ref[v]].hist = h]
      BY <1>1, <3>2, StoreKeeps
    <3>. QED  BY <1>6, <3>1, <3>2
  <2>2. /\ sess[ref[v]].hist \in Seq(Roles)
        /\ Convs[req[v].id] = Texts[ref[v]] /\ Convs[req[v].id] # None
        /\ Convs' = [Convs EXCEPT ![req[v].id] = Texts'[ref[v]]]
    BY <1>1, <1>2, <2>1, TextStep
  <2>3. Texts[ref[v]] = sess[ref[v]].hist /\ Texts'[ref[v]] = h
    BY <1>0, <1>3, <1>6, <2>1, <2>2, TextIsHistory, NextTextIsHistory
  <2>. QED  BY <1>5, <1>6, <2>2, <2>3
<1>7. req[v] \in Requests /\ req[v].msgs \in Seq(Roles) /\ sess[ref[v]].hist \in Seq(Roles)
  BY <1>0, <1>1, <1>3, RequestFields, RefIsSession DEF ServesItsRequest, Known, Session
<1>8. ASSUME AppendTurn(v) PROVE Service!Next
  <2>1. sess[ref[v]].hist \o req[v].msgs \in Seq(Roles)
    BY <1>7
  <2>2. /\ Finish(v, "ok") /\ req[v].op = "append_turn"
        /\ sess' = [sess EXCEPT ![ref[v]].hist = sess[ref[v]].hist \o req[v].msgs,
                                ![ref[v]].active = now]
    BY <1>8 DEF AppendTurn
  <2>3. /\ Service!Decide(v, "ok") /\ Calls[v].op = "append_turn" /\ Convs[Calls[v].id] # None
        /\ Convs' = [Convs EXCEPT ![Calls[v].id] = Convs[Calls[v].id] \o Calls[v].msgs]
    BY <1>5, <1>6, <2>1, <2>2
  <2>4. Service!TurnEffect(v)
    BY <2>3 DEF Service!TurnEffect, Convs, Calls
  <2>. QED  BY <2>4 DEF Service!Next
<1>9. ASSUME ReplaceHistory(v) \/ ResetSession(v) PROVE Service!Next
  <2>1. /\ Finish(v, "ok") /\ req[v].op \in {"replace_history", "reset_session"}
        /\ \/ sess' = [sess EXCEPT ![ref[v]].hist = req[v].msgs, ![ref[v]].active = now]
           \/ sess' = [sess EXCEPT ![ref[v]].hist = req[v].msgs]
    <3>1. req[v].op = "reset_session" => req[v].msgs = <<>>
      BY <1>7 DEF Requests, Payload
    <3>. QED  BY <1>9, <3>1 DEF ReplaceHistory, ResetSession
  <2>2. /\ Service!Decide(v, "ok") /\ Calls[v].op \in {"replace_history", "reset_session"}
        /\ Convs[Calls[v].id] # None
        /\ Convs' = [Convs EXCEPT ![Calls[v].id] = Calls[v].msgs]
    BY <1>5, <1>6, <1>7, <2>1
  <2>3. Service!RewriteEffect(v)
    BY <2>2 DEF Service!RewriteEffect, Convs, Calls
  <2>. QED  BY <2>3 DEF Service!Next
<1>. QED  BY <1>4, <1>8, <1>9 DEF Edit
-----------------------------------------------------------------------------
(* The remaining steps, by what they are to SessionService.                  *)

LEMMA Shapes ==
  ASSUME Known
  PROVE  /\ pc \in [Threads -> PCs] /\ ref \in [Workers -> Objs \cup {None}]
         /\ req \in [Workers -> Requests \cup {NoRequest}]
         /\ reply \in [Workers -> {"none", "ok", "not_found", "error"}]
         /\ Workers \subseteq Threads /\ Reaper \in Threads \ Workers
         /\ Mapped /\ ServesItsRequest
BY ThreadsAssumption DEF Known, Inv, TypeOK, Threads

(* Steps of a request on its way to its effect. *)
LEMMA QuietSteps ==
  ASSUME Known, Known', NEW v \in Workers,
         \/ CreateLock(v) \/ CreateScan(v) \/ FindHit(v) \/ FindAcquire(v)
         \/ GenEngine(v) \/ CloseHit(v) \/ LoadEngine(v) \/ LoadLock(v) \/ LoadClose(v)
         \/ HealthSessions(v)
  PROVE  UNCHANGED Service!vars
<1>0. Mapped /\ Mapped'
  BY DEF Known
<1>. USE Shapes DEF Goto, tableVars, locals, OnlyMoves, SameSessions
<1>. DEFINE Quiet == /\ OnlyMoves({v}) /\ SameSessions /\ pc[v] \in CalledPCs
                     /\ pc'[v] \in CalledPCs /\ req'[v] = req[v] /\ reply'[v] = reply[v]
<1>1. CASE CreateLock(v) \/ CreateScan(v)
  <2>1. Quiet
    BY <1>1 DEF CreateLock, CreateScan, CalledPCs, PCs
  <2>. QED  BY <1>0, <2>1, CalledStep
<1>2. CASE FindHit(v) \/ FindAcquire(v) \/ CloseHit(v)
  <2>1. Quiet
    BY <1>2 DEF FindHit, FindAcquire, CloseHit, CalledPCs, PCs
  <2>. QED  BY <1>0, <2>1, CalledStep
<1>3. CASE GenEngine(v) \/ LoadEngine(v) \/ HealthSessions(v)
  <2>1. Quiet
    BY <1>3 DEF GenEngine, LoadEngine, HealthSessions, CalledPCs, PCs
  <2>. QED  BY <1>0, <2>1, CalledStep
<1>4. CASE LoadLock(v) \/ LoadClose(v)
  <2>1. Quiet
    BY <1>4 DEF LoadLock, LoadClose, CalledPCs, PCs
  <2>. QED  BY <1>0, <2>1, CalledStep
<1>. QED  BY <1>1, <1>2, <1>3, <1>4

LEMMA StartStep ==
  ASSUME Known, Known', NEW v \in Workers, GenStart(v)
  PROVE  UNCHANGED Service!vars
<1>0. Mapped /\ Mapped'
  BY DEF Known
<1>1. /\ pc[v] = "held" /\ pc' = [pc EXCEPT ![v] = "g_run"] /\ table' = table
      /\ req' = req /\ reply' = reply /\ ref' = ref
      /\ sess' = [sess EXCEPT ![ref[v]].created = TRUE]
  BY DEF GenStart, Goto
<1>2. OnlyMoves({v}) /\ pc'[v] = "g_run"
  BY <1>1, Shapes DEF OnlyMoves
<1>3. SameSessions
  <2>1. pc[v] \in UsePCs
    BY <1>1 DEF UsePCs
  <2>2. /\ sess'[ref[v]].hist = sess[ref[v]].hist
        /\ \A o \in Objs : /\ sess'[o].id = sess[o].id
                           /\ o # ref[v] => sess'[o].hist = sess[o].hist
    BY <1>1, <2>1, StoreKeeps
  <2>. QED  BY <1>1, <2>2 DEF SameSessions
<1>. QED  BY <1>0, <1>1, <1>2, <1>3, Shapes, CalledStep DEF CalledPCs, PCs

LEMMA FailSteps ==
  ASSUME Known, Known', NEW v \in Workers,
         \/ CreateLimit(v) \/ CreateOutOfMemory(v) \/ GenNoModel(v) \/ GenFail(v) \/ LoadFail(v)
  PROVE  Service!Next
<1>0. Mapped /\ Mapped'
  BY DEF Known
<1>1. /\ pc[v] \in CalledPCs /\ table' = table /\ sess' = sess /\ req' = req
      /\ pc' = [pc EXCEPT ![v] = "reply"] /\ reply' = [reply EXCEPT ![v] = "error"]
      /\ ref' = ref \/ ref' = [ref EXCEPT ![v] = None]
  BY DEF CreateLimit, CreateOutOfMemory, IdIsFree, GenNoModel, GenFail, LoadFail, Answer, Goto,
         tableVars, CalledPCs, PCs
<1>2. OnlyMoves({v}) /\ SameSessions /\ pc'[v] = "reply" /\ reply'[v] = "error"
  BY <1>1, Shapes DEF OnlyMoves, SameSessions
<1>. QED  BY <1>0, <1>1, <1>2, Shapes, FailStep

(* The answers that touch no conversation, and the end of create_session and  *)
(* load_model.                                                              *)
LEMMA ProbeSteps ==
  ASSUME Known, Known', NEW v \in Workers, LoadOpen(v) \/ HealthEngine(v)
  PROVE  Service!Next
<1>0. Mapped /\ Mapped'
  BY DEF Known
<1>1. /\ pc[v] \in CalledPCs /\ table' = table /\ sess' = sess /\ req' = req /\ ref' = ref
      /\ \/ pc' = [pc EXCEPT ![v] = "l_vocab"] /\ reply' = reply
         \/ pc' = [pc EXCEPT ![v] = "reply"] /\ reply' = [reply EXCEPT ![v] = "ok"]
      /\ pc[v] \in {"l_open", "h_engine"}
  BY DEF LoadOpen, HealthEngine, Answer, Goto, tableVars, locals, CalledPCs, PCs
<1>2. /\ OnlyMoves({v}) /\ SameSessions
      /\ \/ pc'[v] = "reply" /\ reply'[v] = "ok"
         \/ pc'[v] = "l_vocab"
  BY <1>1, Shapes DEF OnlyMoves, SameSessions
<1>3. Service!Decide(v, "ok") /\ Calls[v] = req[v]
  BY <1>1, <1>2, AnswerStep
<1>4. Convs' = Convs
  BY <1>0, <1>1, <1>2, Shapes, SameConvs
<1>5. req[v].op \in {"load_model", "health"}
  BY <1>1, Shapes DEF ServesItsRequest
<1>6. Service!Probe(v)
  BY <1>3, <1>4, <1>5 DEF Service!Probe, Convs, Calls
<1>. QED  BY <1>6 DEF Service!Next

LEMMA LastSteps ==
  ASSUME Known, Known', NEW v \in Workers, CreateSetup(v) \/ LoadVocab(v)
  PROVE  UNCHANGED Service!vars
<1>0. Mapped /\ Mapped'
  BY DEF Known
<1>1. /\ pc[v] \in {"c_setup", "l_vocab"} /\ table' = table /\ req' = req
      /\ pc' = [pc EXCEPT ![v] = "reply"] /\ reply' = [reply EXCEPT ![v] = "ok"]
      /\ ref' = ref \/ ref' = [ref EXCEPT ![v] = None]
  BY DEF CreateSetup, LoadVocab, Answer, Goto, tableVars
<1>2. OnlyMoves({v}) /\ pc'[v] = "reply" /\ reply'[v] = "ok"
  BY <1>1, Shapes DEF OnlyMoves
<1>3. SameSessions
  <2>1. CASE LoadVocab(v)
    BY <2>1 DEF LoadVocab, tableVars, SameSessions
  <2>2. CASE CreateSetup(v)
    <3>1. pc[v] \in UsePCs /\ sess' = [sess EXCEPT ![ref[v]].created = TRUE]
      BY <2>2 DEF CreateSetup, UsePCs
    <3>2. /\ sess'[ref[v]].hist = sess[ref[v]].hist
          /\ \A o \in Objs : /\ sess'[o].id = sess[o].id
                             /\ o # ref[v] => sess'[o].hist = sess[o].hist
      BY <3>1, StoreKeeps
    <3>. QED  BY <1>1, <3>2 DEF SameSessions
  <2>. QED  BY <2>1, <2>2
<1>4. Convs' = Convs
  BY <1>0, <1>1, <1>2, <1>3, Shapes, SameConvs
<1>5. Staged /\ Staged'
  BY StagesHold, PTL
<1>6. Phases'[v] = Phases[v] /\ Calls'[v] = Calls[v] /\ Answers'[v] = Answers[v]
  BY <1>1, <1>2, <1>5 DEF Staged
<1>. QED  BY <1>2, <1>4, <1>6, StutterStep

LEMMA NotFoundStep ==
  ASSUME Known, Known', NEW v \in Workers, FindMiss(v)
  PROVE  Service!Next
<1>0. Mapped /\ Mapped'
  BY DEF Known
<1>1. /\ pc[v] = "f_lock" /\ table' = table /\ sess' = sess /\ req' = req /\ ref' = ref
      /\ pc' = [pc EXCEPT ![v] = "reply"] /\ reply' = [reply EXCEPT ![v] = "not_found"]
      /\ Has(req[v].id) = {}
  BY DEF FindMiss, Answer, Goto, tableVars
<1>2. /\ OnlyMoves({v}) /\ SameSessions /\ pc'[v] = "reply" /\ reply'[v] = "not_found"
      /\ pc[v] \in CalledPCs
  BY <1>1, Shapes DEF OnlyMoves, SameSessions, CalledPCs, PCs
<1>3. Service!Decide(v, "not_found") /\ Calls[v] = req[v]
  BY <1>1, <1>2, AnswerStep
<1>4. Convs' = Convs
  BY <1>0, <1>1, <1>2, Shapes, SameConvs
<1>5. req[v].op \in Finds /\ req[v].id \in Ids
  BY <1>1, Shapes, RequestFields DEF ServesItsRequest, Finds, Global
<1>6. Convs[req[v].id] = None
  BY <1>1, <1>5, Shapes DEF Has, Mapped, ConvIsNone
<1>7. Service!NotFound(v)
  BY <1>3, <1>4, <1>5, <1>6 DEF Service!NotFound, Convs, Calls, Finds
<1>. QED  BY <1>7 DEF Service!Next

(* A request arrives, an answer leaves. *)
LEMMA InvokeStep ==
  ASSUME Known, Known', NEW v \in Workers, Receive(v)
  PROVE  Service!Next
<1>0. Mapped /\ Mapped'
  BY DEF Known
<1>1. PICK r \in Requests : req' = [req EXCEPT ![v] = r] /\ pc' = [pc EXCEPT ![v] = Entry(r.op)]
  BY DEF Receive, Goto
<1>2. pc[v] = "idle" /\ table' = table /\ sess' = sess /\ ref' = ref /\ reply' = reply
  BY DEF Receive, tableVars
<1>3. Entry(r.op) \in CalledPCs
  BY DEF Entry, CalledPCs, PCs
<1>4. OnlyMoves({v}) /\ SameSessions /\ pc'[v] \in CalledPCs /\ req'[v] = r
  BY <1>1, <1>2, <1>3, Shapes DEF OnlyMoves, SameSessions
<1>5. Convs' = Convs
  BY <1>0, <1>2, <1>4, Shapes, SameConvs DEF CalledPCs
<1>6. Staged /\ Staged'
  BY StagesHold, PTL
<1>7. /\ Phases[v] = "idle" /\ Phases'[v] = "called" /\ Calls'[v] = r
      /\ Answers'[v] = Answers[v]
  BY <1>2, <1>4, <1>6 DEF Staged, CalledPCs
<1>8. /\ Phases' = [Phases EXCEPT ![v] = "called"] /\ Calls' = [Calls EXCEPT ![v] = r]
      /\ Answers' = Answers
  BY <1>4, <1>7, OthersStay, Domains
<1>9. Service!Invoke(v)
  BY <1>5, <1>7, <1>8 DEF Service!Invoke, Convs, Phases, Calls, Answers, Answered
<1>. QED  BY <1>9 DEF Service!Next

LEMMA ReturnSteps ==
  ASSUME Known, Known', NEW v \in Workers, Reply(v) \/ GenSend(v)
  PROVE  Service!Next
<1>0. Mapped /\ Mapped'
  BY DEF Known
<1>1. /\ table' = table /\ sess' = sess /\ ref' = ref /\ reply' = [reply EXCEPT ![v] = "none"]
      /\ \/ /\ pc[v] = "reply" /\ pc' = [pc EXCEPT ![v] = "idle"]
            /\ req' = [req EXCEPT ![v] = NoRequest]
         \/ pc[v] = "g_send" /\ pc' = [pc EXCEPT ![v] = "g_append"] /\ req' = req
  BY DEF Reply, GenSend, Goto, tableVars
<1>2. /\ OnlyMoves({v}) /\ SameSessions /\ reply'[v] = "none"
      /\ \/ pc[v] = "reply" /\ pc'[v] = "idle"
         \/ pc[v] = "g_send" /\ pc'[v] = "g_append" /\ req'[v] = req[v]
  BY <1>1, Shapes DEF OnlyMoves, SameSessions
<1>3. \A o \in Objs : SameOwers(o)
  BY <1>1, <1>2 DEF SameOwers, Owers, OnlyMoves
<1>4. Convs' = Convs
  <2>1. \A o \in Objs : Texts'[o] = Texts[o]
    BY <1>0, <1>2, <1>3, Shapes, SameText DEF SameSessions, Known
  <2>2. \A k \in DOMAIN table : table[k] \in Objs
    BY Shapes DEF Mapped, ConvIsText
  <2>. QED  BY <1>0, <1>2, <2>1, <2>2, Shapes, SameConversations DEF SameSessions, Known
<1>5. Staged /\ Staged'
  BY StagesHold, PTL
<1>6. /\ Phases[v] = "decided" /\ Phases'[v] = "idle" /\ Calls'[v] = NoRequest
      /\ Answers'[v] = "none"
  BY <1>2, <1>5 DEF Staged
<1>7. /\ Phases' = [Phases EXCEPT ![v] = "idle"] /\ Calls' = [Calls EXCEPT ![v] = NoRequest]
      /\ Answers' = [Answers EXCEPT ![v] = "none"]
  BY <1>2, <1>6, OthersStay, Domains
<1>8. Service!Return(v)
  BY <1>4, <1>6, <1>7 DEF Service!Return, Convs, Phases, Calls, Answers, Answered
<1>. QED  BY <1>8 DEF Service!Next
-----------------------------------------------------------------------------
(* generate: its turn counts from the moment the engine has finished, and is  *)
(* appended to the history after the answer was sent.                       *)
LEMMA TurnStep ==
  ASSUME Known, Known', NEW v \in Workers, GenDone(v)
  PROVE  Service!Next
<1>0. Mapped /\ Mapped'
  BY DEF Known
<1>1. /\ pc[v] = "g_run" /\ table' = table /\ req' = req /\ ref' = ref
      /\ pc' = [pc EXCEPT ![v] = "g_send"] /\ reply' = [reply EXCEPT ![v] = "ok"]
      /\ sess' = [sess EXCEPT ![ref[v]].active = now]
  BY DEF GenDone, Goto
<1>2. /\ OnlyMoves({v}) /\ pc'[v] = "g_send" /\ reply'[v] = "ok"
      /\ pc[v] \in UsePCs /\ pc[v] \in CalledPCs
  BY <1>1, Shapes DEF OnlyMoves, UsePCs, CalledPCs, PCs
<1>3. Service!Decide(v, "ok") /\ Calls[v] = req[v]
  BY <1>1, <1>2, AnswerStep
<1>4. /\ sess'[ref[v]].hist = sess[ref[v]].hist
      /\ \A o \in Objs : /\ sess'[o].id = sess[o].id
                         /\ o # ref[v] => sess'[o].hist = sess[o].hist
  BY <1>1, <1>2, StoreKeeps
<1>5. /\ ref[v] \in Objs /\ sess[ref[v]].hist \in Seq(Roles)
      /\ Convs[req[v].id] = Texts[ref[v]] /\ Convs[req[v].id] # None
      /\ Convs' = [Convs EXCEPT ![req[v].id] = Texts'[ref[v]]]
  BY <1>1, <1>2, <1>4, TextStep
<1>6. Texts[ref[v]] = sess[ref[v]].hist
  <2>1. \A w \in Owers : ref[w] # ref[v]
    BY <1>1, <1>2, NobodyElseOwes DEF Owers
  <2>. QED  BY <1>0, <1>5, <2>1, TextIsHistory
<1>7. Texts'[ref[v]] = sess[ref[v]].hist \o req[v].msgs
  <2>1. v \in Owers'
    BY <1>2 DEF Owers
  <2>2. Owes'[ref[v]] = req[v].msgs
    BY <1>0, <1>1, <2>1 DEF Mapped, TurnIsOwed
  <2>. QED  BY <1>0, <1>4, <1>5, <2>2 DEF Mapped, TextIsAll
<1>8. req[v].op = "generate"
  BY <1>1, Shapes DEF ServesItsRequest
<1>9. /\ Convs[Calls[v].id] # None
      /\ Convs' = [Convs EXCEPT ![Calls[v].id] = Convs[Calls[v].id] \o Calls[v].msgs]
  BY <1>3, <1>5, <1>6, <1>7
<1>10. Service!TurnEffect(v)
  BY <1>3, <1>8, <1>9 DEF Service!TurnEffect, Convs, Calls
<1>. QED  BY <1>10 DEF Service!Next

LEMMA AppendStep ==
  ASSUME Known, Known', NEW v \in Workers, GenAppend(v)
  PROVE  UNCHANGED Service!vars
<1>0. Mapped /\ Mapped' /\ None \notin Objs
  BY ObjsAssumption DEF Known
<1>1. /\ pc[v] = "g_append" /\ table' = table /\ reply' = reply
      /\ pc' = [pc EXCEPT ![v] = "idle"] /\ req' = [req EXCEPT ![v] = NoRequest]
      /\ ref' = [ref EXCEPT ![v] = None]
      /\ sess' = [sess EXCEPT ![ref[v]].hist = sess[ref[v]].hist \o req[v].msgs,
                              ![ref[v]].active = now]
  BY DEF GenAppend, Goto
<1>2. OnlyMoves({v}) /\ pc'[v] = "idle" /\ ref'[v] = None /\ pc[v] \in UsePCs
  BY <1>1, Shapes DEF OnlyMoves, UsePCs
<1>3. /\ sess'[ref[v]].hist = sess[ref[v]].hist \o req[v].msgs
      /\ \A o \in Objs : /\ sess'[o].id = sess[o].id
                         /\ o # ref[v] => sess'[o].hist = sess[o].hist
  <2>1. ASSUME NEW h, h = sess[ref[v]].hist \o req[v].msgs
        PROVE  /\ sess'[ref[v]].hist = h
               /\ \A o \in Objs : /\ sess'[o].id = sess[o].id
                                  /\ o # ref[v] => sess'[o].hist = sess[o].hist
    <3>1. sess' = [sess EXCEPT ![ref[v]].hist = h, ![ref[v]].active = now]
      BY <1>1, <2>1
    <3>. QED  BY <1>2, <3>1, StoreKeeps
  <2>. QED  BY <2>1
<1>4. /\ ref[v] \in Objs /\ req[v].id \in Ids /\ sess[ref[v]].hist \in Seq(Roles)
      /\ Convs[req[v].id] = Texts[ref[v]]
      /\ Convs' = [Convs EXCEPT ![req[v].id] = Texts'[ref[v]]]
  BY <1>1, <1>2, <1>3, TextStep
<1>5. Texts[ref[v]] = sess[ref[v]].hist \o req[v].msgs
  <2>1. Owes[ref[v]] = req[v].msgs
    BY <1>0, <1>1 DEF Mapped, TurnIsOwed, Owers
  <2>. QED  BY <1>0, <1>4, <2>1 DEF Mapped, TextIsAll
<1>6. Texts'[ref[v]] = sess[ref[v]].hist \o req[v].msgs
  <2>1. \A w \in Owers' : ref'[w] # ref[v]
    BY <1>0, <1>2, <1>4, NobodyElseOwes
  <2>2. req[v] \in Requests
    BY <1>1, Shapes DEF ServesItsRequest
  <2>3. sess'[ref[v]].hist \in Seq(Roles)
    BY <1>3, <1>4, <2>2, RequestFields
  <2>. QED  BY <1>0, <1>3, <1>4, <2>1, <2>3, NextTextIsHistory
<1>7. Convs' = Convs
  <2>1. Texts'[ref[v]] = Convs[req[v].id]
    BY <1>4, <1>5, <1>6
  <2>2. Convs' = [Convs EXCEPT ![req[v].id] = Convs[req[v].id]]
    BY <1>4, <2>1
  <2>. QED  BY <2>2, ConvsDomain
<1>8. Staged /\ Staged'
  BY StagesHold, PTL
<1>9. Phases'[v] = Phases[v] /\ Calls'[v] = Calls[v] /\ Answers'[v] = Answers[v]
  BY <1>1, <1>2, <1>8 DEF Staged
<1>. QED  BY <1>2, <1>7, <1>9, StutterStep
-----------------------------------------------------------------------------
(* close_session, and the removals nobody asked for. *)

LEMMA CloseMissStep ==
  ASSUME Known, Known', NEW v \in Workers, CloseMiss(v)
  PROVE  Service!Next
<1>0. Mapped /\ Mapped'
  BY DEF Known
<1>1. /\ pc[v] = "x_lock" /\ table' = table /\ sess' = sess /\ req' = req /\ ref' = ref
      /\ pc' = [pc EXCEPT ![v] = "reply"] /\ reply' = [reply EXCEPT ![v] = "ok"]
      /\ Has(req[v].id) = {}
  BY DEF CloseMiss, Answer, Goto, tableVars
<1>2. /\ OnlyMoves({v}) /\ SameSessions /\ pc'[v] = "reply" /\ reply'[v] = "ok"
      /\ pc[v] \in CalledPCs
  BY <1>1, Shapes DEF OnlyMoves, SameSessions, CalledPCs, PCs
<1>3. Service!Decide(v, "ok") /\ Calls[v] = req[v]
  BY <1>1, <1>2, AnswerStep
<1>4. Convs' = Convs
  BY <1>0, <1>1, <1>2, SameConvs
<1>5. req[v].op = "close_session" /\ req[v].id \in Ids
  BY <1>1, Shapes, RequestFields DEF ServesItsRequest, Global
<1>6. Convs[req[v].id] = None
  BY <1>0, <1>1, <1>5 DEF Has, Mapped, ConvIsNone
<1>7. Convs' = [Convs EXCEPT ![Calls[v].id] = None]
  BY <1>3, <1>4, <1>5, <1>6, ConvsDomain
<1>8. Service!CloseEffect(v)
  BY <1>3, <1>5, <1>7 DEF Service!CloseEffect, Convs, Calls
<1>. QED  BY <1>8 DEF Service!Next

LEMMA CloseStep ==
  ASSUME Known, Known', NEW v \in Workers, CloseRemove(v)
  PROVE  Service!Next
<1>1. /\ pc[v] = "x_wait" /\ req' = req /\ ref' = ref /\ RemoveAt(idx[v]) /\ best' = best
      /\ pc' = [pc EXCEPT ![v] = "reply"] /\ reply' = [reply EXCEPT ![v] = "ok"]
      /\ prompt' = prompt /\ mutex[table[idx[v]]] = None
  BY DEF CloseRemove, Answer, Goto
<1>2. /\ OnlyMoves({v}) /\ pc'[v] = "reply" /\ reply'[v] = "ok" /\ pc[v] \in CalledPCs
  BY <1>1, Shapes DEF OnlyMoves, CalledPCs, PCs
<1>3. Service!Decide(v, "ok") /\ Calls[v] = req[v]
  BY <1>1, <1>2, AnswerStep
<1>4. idx[v] \in DOMAIN table /\ sess[table[idx[v]]].id = req[v].id
  BY <1>1 DEF Known, Inv, NoUseAfterFree
<1>5. Removes(v, idx[v])
  <2>1. v \in Threads /\ pc[v] \in TablePCs \ {"f_wait"}
    BY <1>1, Shapes DEF TablePCs
  <2>2. \A w \in Workers : w # v => best[w] = 0
    BY <1>1, <1>4, <2>1, RemovalIsSafe DEF Known
  <2>3. best[v] = 0
    BY <1>1 DEF Known, Inv, SessionOwner, TypeOK
  <2>. QED  BY <1>1, <1>2, <2>1, <2>2, <2>3, Shapes DEF Removes
<1>6. Convs' = [Convs EXCEPT ![Calls[v].id] = None]
  BY <1>3, <1>4, <1>5, Shapes, RemovalDrops
<1>7. Calls[v].op = "close_session"
  BY <1>1, <1>3, Shapes DEF ServesItsRequest
<1>8. Service!CloseEffect(v)
  BY <1>3, <1>6, <1>7 DEF Service!CloseEffect, Convs, Calls
<1>. QED  BY <1>8 DEF Service!Next

LEMMA DropSteps ==
  ASSUME Known, Known',
         \/ \E v \in Workers : CreateEvict(v) \/ CreateReplace(v) \/ LoadClear(v)
         \/ ReapRemove
  PROVE  Service!Next
<1>1. PICK t \in Threads, i \in DOMAIN table : Removes(t, i)
  BY RemovalSteps DEF Known
<1>2. ASSUME NEW v \in Workers, CreateEvict(v) \/ CreateReplace(v) \/ LoadClear(v)
      PROVE  Service!Next
  <2>1. /\ pc[v] \in CalledPCs /\ req' = req /\ ref' = ref /\ reply' = reply
        /\ \/ pc' = [pc EXCEPT ![v] = "c_find"]
           \/ pc' = [pc EXCEPT ![v] = "c_new"]
           \/ pc' = pc
    BY <1>2 DEF CreateEvict, CreateReplace, LoadClear, Goto, locals, CalledPCs, PCs
  <2>2. OnlyMoves({v}) /\ pc'[v] \in CalledPCs
    BY <2>1, Shapes DEF OnlyMoves, CalledPCs, PCs
  <2>3. Staged /\ Staged'
    BY StagesHold, PTL
  <2>4. Phases'[v] = Phases[v] /\ Calls'[v] = Calls[v] /\ Answers'[v] = Answers[v]
    BY <2>1, <2>2, <2>3 DEF Staged, CalledPCs
  <2>. QED  BY <1>1, <2>2, <2>4, DropStep
<1>3. CASE ReapRemove
  <2>1. OnlyMoves({})
    BY <1>3 DEF ReapRemove, locals, OnlyMoves
  <2>. QED  BY <1>1, <2>1, DropStep
<1>. QED  BY <1>2, <1>3

(* The rest of the reaper's pass, and the clock. *)
LEMMA IdleSteps ==
  ASSUME Known, Known', ReapLock \/ ReapKeep \/ ReapEnd \/ Tick \/ UNCHANGED vars
  PROVE  UNCHANGED Service!vars
<1>0. Mapped /\ Mapped'
  BY DEF Known
<1>1. /\ table' = table /\ sess' = sess /\ req' = req /\ ref' = ref /\ reply' = reply
      /\ \A w \in Workers : pc'[w] = pc[w]
  BY Shapes DEF ReapLock, ReapKeep, ReapEnd, Tick, vars, tableVars, locals, Goto
<1>2. OnlyMoves({}) /\ SameSessions
  BY <1>1 DEF OnlyMoves, SameSessions
<1>3. Convs' = Convs
  BY <1>0, <1>2, SameConvs
<1>. QED  BY <1>2, <1>3, StutterStep
-----------------------------------------------------------------------------
LEMMA InitImplements == Init => Service!Init
<1>. SUFFICES ASSUME Init PROVE Service!Init
  OBVIOUS
<1>1. \A w \in Workers : pc[w] = "idle" /\ reply[w] = "none" /\ req[w] = NoRequest
  BY DEF Init, Threads
<1>2. Convs = [i \in Ids |-> None]
  <2>1. \A i : Has(i) = {}
    BY DEF Init, Has
  <2>. QED  BY <2>1 DEF Convs, Conversation
<1>3. Staged
  BY StagesHold
<1>4. /\ Calls = [w \in Workers |-> NoRequest] /\ Phases = [w \in Workers |-> "idle"]
      /\ Answers = [w \in Workers |-> "none"]
  BY <1>1, <1>3, Domains DEF Staged
<1>. QED  BY <1>2, <1>4 DEF Service!Init, Convs, Calls, Phases, Answers, Answered

LEMMA NextImplements ==
  ASSUME Known, Known', [Next]_vars
  PROVE  Service!Next \/ UNCHANGED Service!vars
<1>1. ASSUME NEW v \in Workers, Serve(v)
      PROVE  Service!Next \/ UNCHANGED Service!vars
  <2>1. CASE Create(v)
    BY <2>1, QuietSteps, FailSteps, DropSteps, CreateStep, LastSteps DEF Create
  <2>2. CASE Find(v) \/ Edit(v)
    BY <2>2, NotFoundStep, QuietSteps, EditStep DEF Find
  <2>3. CASE Generate(v)
    BY <2>3, FailSteps, QuietSteps, StartStep, TurnStep, ReturnSteps, AppendStep DEF Generate
  <2>4. CASE Close(v)
    BY <2>4, CloseMissStep, QuietSteps, CloseStep DEF Close
  <2>5. CASE Load(v)
    BY <2>5, QuietSteps, DropSteps, ProbeSteps, LastSteps, FailSteps DEF Load
  <2>6. CASE Health(v) \/ Reply(v)
    BY <2>6, QuietSteps, ProbeSteps, ReturnSteps DEF Health
  <2>. QED  BY <1>1, <2>1, <2>2, <2>3, <2>4, <2>5, <2>6 DEF Serve
<1>2. ASSUME NEW v \in Workers, Receive(v) PROVE Service!Next
  BY <1>2, InvokeStep
<1>3. CASE Reap \/ Tick \/ UNCHANGED vars
  BY <1>3, IdleSteps, DropSteps DEF Reap
<1>. QED  BY <1>1, <1>2, <1>3 DEF Next

(* The engine daemon's session table, with its threads, mutexes and reaper,  *)
(* implements a service whose requests take effect atomically, on the       *)
(* conversation they name and on no other (handle_create_session,           *)
(* handle_generate, handle_append_turn, handle_replace_history,             *)
(* handle_reset_session, handle_close_session, reaper_thread).              *)
THEOREM Implements == Spec => ImplementsService
<1>1. Init => Service!Init
  BY InitImplements
<1>2. Known /\ Known' /\ [Next]_vars => [Service!Next]_(Service!vars)
  BY NextImplements
<1>. QED  BY <1>1, <1>2, KnownHolds, PTL DEF Spec, ImplementsService, Service!Spec
=============================================================================
