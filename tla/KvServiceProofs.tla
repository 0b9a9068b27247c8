-------------------------- MODULE KvServiceProofs --------------------------
(***************************************************************************)
(* Proofs about KvService: who owns the socket, whose the entries are (Inv),  *)
(* and, on top of that, that what is read, written, stored and found is the   *)
(* KV of the tokens it is taken for (Data).                                 *)
(***************************************************************************)
EXTENDS KvService, SequenceTheorems, FiniteSetTheorems, WellFoundedInduction, TLAPS

(* What is known of the shape of the state. *)
Shape ==
  /\ DOMAIN pc = Threads /\ DOMAIN call = Threads /\ DOMAIN reply = Threads
  /\ DOMAIN sock = {"connected", "broken", "reqs", "answers"}

(* wake_mutex is held exactly by the thread that waits for an answer, and     *)
(* what is on the socket is its request or the answer to it, unless the       *)
(* connection is broken.                                                    *)
SocketOwner ==
  /\ \A t \in Threads : pc[t] = "recv" <=> wake = t
  /\ wake = Nobody \/ sock.broken => sock.reqs = <<>> /\ sock.answers = <<>>
  /\ wake # Nobody /\ ~sock.broken =>
       \/ sock.reqs = <<call[wake]>> /\ sock.answers = <<>>
       \/ /\ sock.reqs = <<>> /\ sock.answers # <<>>
          /\ sock.answers = <<sock.answers[1]>> /\ sock.answers[1].to = call[wake]
WakeHasOwner == wake \in Threads \cup {Nobody}

Wire == Shape /\ WakeHasOwner /\ SocketOwner /\ AnswerIsOurs

(* What a generate works on stays open, and no session thread works on it. *)
SessionIsHeld ==
  /\ "id" \in DOMAIN gen
  /\ pc[Engine] # "idle" =>
       /\ gen.id \in open
       /\ \A c \in Clients : pc[c] # "idle" => call[c].arg # gen.id

(* service_close runs alone, but for the heartbeat thread. *)
ClosesAlone == closer # "none" => \A t \in Threads \ {Beat} : pc[t] = "idle"

EntriesAreRecords ==
  /\ DOMAIN entries = 1..NEntries
  /\ \A k \in 1..NEntries : DOMAIN entries[k] = {"valid", "id", "len", "blocks"}

Inv == Wire /\ SessionIsHeld /\ ClosesAlone /\ EntriesAreRecords /\ EntriesAreAccountedFor
-----------------------------------------------------------------------------
(* A thread that is not on the wire moves, and does not get onto it. *)
Steps(t) ==
  /\ UNCHANGED <<DOMAIN pc, DOMAIN call, DOMAIN reply>>
  /\ \A u \in Threads \ {t} : pc'[u] = pc[u] /\ call'[u] = call[u] /\ reply'[u] = reply[u]
  /\ \/ pc'[t] \notin {"recv", "got"}
     \/ pc'[t] = pc[t] /\ call'[t] = call[t] /\ reply'[t] = reply[t]

LEMMA LeavesSteps ==
  ASSUME Shape, NEW t \in Threads, NEW w, w \notin {"recv", "got"}, Leaves(t, w)
  PROVE  Steps(t) /\ pc'[t] = w /\ call'[t] = NoRequest
BY DEF Shape, Leaves, Goes, Steps

LEMMA CallsSteps ==
  ASSUME Shape, NEW t \in Threads, NEW m, NEW arg, Calls(t, m, arg)
  PROVE  Steps(t) /\ pc'[t] = "lock" /\ call'[t] = Request(t, m, arg)
BY DEF Shape, Calls, Steps

LEMMA GoesSteps ==
  ASSUME Shape, NEW t \in Threads, NEW w, w \notin {"recv", "got"}, Goes(t, w),
         UNCHANGED <<call, reply>>
  PROVE  Steps(t) /\ pc'[t] = w
BY DEF Shape, Goes, Steps

LEMMA StepsKeepWire ==
  ASSUME Wire, NEW t \in Threads, pc[t] # "recv", Steps(t), UNCHANGED <<wake, sock>>
  PROVE  Wire'
<1>1. \A u \in Threads : pc'[u] = "recv" <=> pc[u] = "recv"
  BY DEF Steps
<1>2. \A u \in Threads : pc[u] = "recv" => call'[u] = call[u]
  BY DEF Steps
<1>3. SocketOwner'
  BY <1>1, <1>2 DEF Wire, SocketOwner, WakeHasOwner
<1>4. AnswerIsOurs'
  BY DEF Wire, AnswerIsOurs, Steps
<1>5. Shape'
  BY DEF Wire, Shape, Steps
<1> QED
  BY <1>3, <1>4, <1>5 DEF Wire, WakeHasOwner
-----------------------------------------------------------------------------
(* Remote calls.                                                           *)
LEMMA TransmitOwns ==
  ASSUME Wire, NEW t \in Threads, NEW c, NEW s, Transmit(t, c, s),
         DOMAIN s = DOMAIN sock,
         s.reqs = <<>>, s.answers = <<>>, wake' = t,
         \A u \in Threads \ {t} : pc[u] # "recv",
         DOMAIN call' = DOMAIN call, call'[t] = c, UNCHANGED reply,
         \A u \in Threads \ {t} : call'[u] = call[u]
  PROVE  Wire'
<1>1. /\ DOMAIN pc' = DOMAIN pc /\ pc'[t] = "recv"
      /\ \A u \in Threads \ {t} : pc'[u] = pc[u]
  BY DEF Wire, Shape, Transmit, Goes
<1>2. /\ DOMAIN sock' = DOMAIN sock
      /\ sock'.broken = s.broken /\ sock'.answers = <<>>
      /\ s.broken => sock'.reqs = <<>>
      /\ ~s.broken => sock'.reqs = <<c>>
  <2>1. CASE s.broken
    BY <2>1 DEF Wire, Shape, Transmit
  <2>2. CASE ~s.broken
    <3>1. sock' = [s EXCEPT !.connected = TRUE, !.reqs = Append(@, c)]
      BY <2>2 DEF Transmit
    <3>2. Append(<<>>, c) = <<c>>
      OBVIOUS
    <3> QED
      BY <2>2, <3>1, <3>2 DEF Wire, Shape
  <2> QED
    BY <2>1, <2>2
<1>3. t # Nobody
  BY NamesAssumption
<1>4. Shape'
  BY <1>1, <1>2 DEF Wire, Shape
<1>5. SocketOwner'
  BY <1>1, <1>2, <1>3 DEF SocketOwner
<1>6. AnswerIsOurs'
  BY <1>1 DEF Wire, AnswerIsOurs
<1> QED
  BY <1>4, <1>5, <1>6 DEF Wire, WakeHasOwner

(* The call ends with r, and nothing of it stays on the socket. *)
LEMMA FinishGivesBack ==
  ASSUME Wire, NEW t \in Threads, NEW r, Finish(t, r), UNCHANGED call,
         \A u \in Threads \ {t} : pc[u] # "recv",
         DOMAIN sock' = DOMAIN sock, sock'.reqs = <<>>, sock'.answers = <<>>,
         r.rc => r.to = call[t]
  PROVE  Wire'
<1>1. /\ DOMAIN pc' = DOMAIN pc /\ pc'[t] = "got" /\ wake' = Nobody
      /\ \A u \in Threads \ {t} : pc'[u] = pc[u]
      /\ DOMAIN reply' = DOMAIN reply /\ reply'[t] = r
      /\ \A u \in Threads \ {t} : reply'[u] = reply[u]
  BY DEF Wire, Shape, Finish, Goes
<1>2. Shape'
  BY <1>1 DEF Wire, Shape
<1>3. SocketOwner'
  BY <1>1, NamesAssumption DEF SocketOwner
<1>4. AnswerIsOurs'
  BY <1>1 DEF Wire, AnswerIsOurs
<1> QED
  BY <1>1, <1>2, <1>3, <1>4 DEF Wire, WakeHasOwner

LEMMA OneAtATime ==
  ASSUME Wire, NEW t \in Threads, pc[t] = "recv"
  PROVE  /\ wake = t /\ wake # Nobody
         /\ \A u \in Threads \ {t} : pc[u] # "recv"
BY NamesAssumption DEF Wire, SocketOwner

LEMMA RpcKeepsWire ==
  ASSUME Wire, NEW t \in Threads, Rpc(t)
  PROVE  Wire'
<1>1. CASE Lock(t)
  <2>1. /\ wake = Nobody /\ pc[t] = "lock" /\ UNCHANGED call
        /\ sock.reqs = <<>> /\ sock.answers = <<>> /\ \A u \in Threads : pc[u] # "recv"
    BY <1>1, NamesAssumption DEF Lock, Wire, SocketOwner
  <2>2. CASE sock.connected \/ svc.up
    BY <1>1, <2>1, <2>2, TransmitOwns DEF Lock
  <2>3. CASE ~(sock.connected \/ svc.up)
    <3>1. Finish(t, Failed) /\ UNCHANGED sock
      BY <1>1, <2>3 DEF Lock
    <3> QED
      BY <2>1, <3>1, FinishGivesBack DEF Failed
  <2> QED
    BY <2>2, <2>3
<1>2. ASSUME pc[t] = "recv", ~sock.broken, sock.answers # <<>>,
             sock' = [sock EXCEPT !.answers = Tail(@)], UNCHANGED call,
             Finish(t, Head(sock.answers)) \/ Finish(t, Failed)
      PROVE  Wire'
  <2>1. /\ sock.reqs = <<>> /\ sock.answers = <<sock.answers[1]>>
        /\ sock.answers[1].to = call[t]
    BY <1>2, OneAtATime DEF Wire, SocketOwner
  <2>2. Head(sock.answers) = sock.answers[1] /\ Tail(sock.answers) = <<>>
    <3>1. \A a : Head(<<a>>) = a /\ Tail(<<a>>) = <<>>
      OBVIOUS
    <3> QED
      BY <2>1, <3>1, Zenon
  <2>3. DOMAIN sock' = DOMAIN sock /\ sock'.reqs = <<>> /\ sock'.answers = <<>>
    BY <1>2, <2>1, <2>2 DEF Wire, Shape
  <2>4. CASE Finish(t, Head(sock.answers))
    BY <1>2, <2>1, <2>2, <2>3, <2>4, OneAtATime, FinishGivesBack
  <2>5. CASE Finish(t, Failed)
    BY <1>2, <2>3, <2>5, OneAtATime, FinishGivesBack DEF Failed
  <2> QED
    BY <1>2, <2>4, <2>5
<1>3. CASE Receive(t)
  BY <1>2, <1>3 DEF Receive
<1>4. CASE ReceiveGarbled(t)
  BY <1>2, <1>4 DEF ReceiveGarbled
<1>5. CASE ReceiveFails(t)
  <2>1. pc[t] = "recv" /\ UNCHANGED call
    BY <1>5 DEF ReceiveFails
  <2>2. /\ DOMAIN NoSocket = DOMAIN sock /\ NoSocket.reqs = <<>> /\ NoSocket.answers = <<>>
    BY DEF NoSocket, Wire, Shape
  <2>3. CASE ~again /\ svc.up
    <3>1. Transmit(t, call[t], NoSocket) /\ UNCHANGED <<reply, wake>>
      BY <1>5, <2>3 DEF ReceiveFails
    <3> QED
      BY <2>1, <2>2, <3>1, OneAtATime, TransmitOwns
  <2>4. CASE ~(~again /\ svc.up)
    <3>1. Finish(t, Failed) /\ sock' = NoSocket
      BY <1>5, <2>4 DEF ReceiveFails
    <3> QED
      BY <2>1, <2>2, <3>1, OneAtATime, FinishGivesBack DEF Failed
  <2> QED
    BY <2>3, <2>4
<1> QED
  BY <1>1, <1>3, <1>4, <1>5 DEF Rpc
-----------------------------------------------------------------------------
(* The service.                                                            *)
LEMMA ServiceKeepsWire ==
  ASSUME Wire, Service
  PROVE  Wire'
<1>1. UNCHANGED <<pc, call, reply, wake>>
  BY DEF Service, Serve, Refuse, Drop, Stop, Restart, Evict
<1>2. ASSUME DOMAIN sock' = DOMAIN sock, SocketOwner'
      PROVE  Wire'
  BY <1>1, <1>2 DEF Wire, Shape, WakeHasOwner, AnswerIsOurs
<1>3. ASSUME ~sock.broken, sock.reqs # <<>>, NEW ok, NEW data,
             Replies(Answer(Head(sock.reqs), ok, data))
      PROVE  Wire'
  <2>1. wake # Nobody /\ sock.reqs = <<call[wake]>> /\ sock.answers = <<>>
    BY <1>3 DEF Wire, SocketOwner
  <2>2. /\ Tail(sock.reqs) = <<>> /\ Head(sock.reqs) = call[wake]
        /\ \A a : Append(sock.answers, a) = <<a>>
    BY <2>1
  <2> DEFINE a == Answer(Head(sock.reqs), ok, data)
  <2>3. /\ DOMAIN sock' = DOMAIN sock /\ sock'.broken = sock.broken
        /\ sock'.reqs = <<>> /\ sock'.answers = <<a>>
    BY <1>3, <2>2 DEF Replies, Wire, Shape
  <2>4. a.to = call[wake]
    BY <2>2 DEF Answer
  <2> HIDE DEF a
  <2>5. sock'.answers # <<>> /\ sock'.answers = <<sock'.answers[1]>> /\ sock'.answers[1] = a
    BY <2>3
  <2> QED
    BY <1>1, <1>2, <1>3, <2>1, <2>3, <2>4, <2>5 DEF Wire, SocketOwner
<1>4. CASE Serve
  <2>1. ~sock.broken /\ sock.reqs # <<>> /\ Execute(Head(sock.reqs))
    BY <1>4 DEF Serve
  <2>2. \E ok, data : Replies(Answer(Head(sock.reqs), ok, data))
    <3>1. CASE \E x \in LookupAnswers(Head(sock.reqs)) : Replies(x)
      BY <3>1 DEF LookupAnswers
    <3> QED
      BY <2>1, <3>1 DEF Execute
  <2> QED
    BY <1>3, <2>1, <2>2
<1>5. CASE Refuse
  BY <1>3, <1>5 DEF Refuse
<1>6. ASSUME Breaks
      PROVE  Wire'
  <2>1. CASE sock.connected
    <3>1. sock' = [NoSocket EXCEPT !.connected = TRUE, !.broken = TRUE]
      BY <1>6, <2>1 DEF Breaks
    <3>2. DOMAIN sock' = DOMAIN sock /\ sock'.broken /\ sock'.reqs = <<>> /\ sock'.answers = <<>>
      BY <3>1 DEF NoSocket, Wire, Shape
    <3> QED
      BY <1>1, <1>2, <3>2 DEF Wire, SocketOwner
  <2>2. CASE ~sock.connected
    BY <1>1, <1>2, <1>6, <2>2 DEF Breaks, Wire, SocketOwner
  <2> QED
    BY <2>1, <2>2
<1>7. CASE Drop \/ Stop
  BY <1>6, <1>7 DEF Drop, Stop
<1>8. CASE Restart \/ Evict
  BY <1>1, <1>2, <1>8 DEF Restart, Evict, Wire, SocketOwner
<1> QED
  BY <1>4, <1>5, <1>7, <1>8 DEF Service
-----------------------------------------------------------------------------
(* The table of entries.                                                   *)
LEMMA HasLeast ==
  ASSUME NEW S \in SUBSET Nat, S # {}
  PROVE  \E k \in S : \A j \in S : k <= j
<1> DEFINE R == {ss \in Nat \X Nat : ss[1] < ss[2]}
<1>1. IsWellFoundedOn(R, Nat)
  BY NatLessThanWellFounded DEF OpToRel
<1>2. \A x, y \in Nat : x < y => <<x, y>> \in R
  OBVIOUS
<1> HIDE DEF R
<1>3. PICK x \in S : \A y \in S : ~(<<y, x>> \in R)
  BY <1>1, WFMin
<1>4. \A y \in S : ~(y < x)
  BY <1>2, <1>3
<1> QED
  BY <1>4

LEMMA FindEntryFinds ==
  ASSUME NEW id
  PROVE  /\ FindEntry(id) = 0 => \A k \in 1..NEntries : ~(entries[k].valid /\ entries[k].id = id)
         /\ FindEntry(id) # 0 => /\ FindEntry(id) \in 1..NEntries
                                /\ entries[FindEntry(id)].valid
                                /\ entries[FindEntry(id)].id = id
<1> DEFINE S == {k \in 1..NEntries : entries[k].valid /\ entries[k].id = id}
<1>1. CASE S = {}
  BY <1>1 DEF FindEntry
<1>2. CASE S # {}
  <2>1. \E k \in S : \A j \in S : k <= j
    <3>1. S \in SUBSET Nat
      BY NumbersAssumption
    <3> HIDE DEF S
    <3> QED
      BY <1>2, <3>1, HasLeast
  <2>2. FindEntry(id) \in S
    BY <1>2, <2>1 DEF FindEntry
  <2> QED
    BY <2>2, NumbersAssumption
<1> QED
  BY <1>1, <1>2

LEMMA FreeEntryIsFree ==
  FreeEntry # 0 => FreeEntry \in 1..NEntries /\ ~entries[FreeEntry].valid
<1> DEFINE S == {k \in 1..NEntries : ~entries[k].valid}
<1>1. CASE S # {}
  <2>1. \E k \in S : \A j \in S : k <= j
    <3>1. S \in SUBSET Nat
      BY NumbersAssumption
    <3> HIDE DEF S
    <3> QED
      BY <1>1, <3>1, HasLeast
  <2>2. FreeEntry \in S
    BY <1>1, <2>1 DEF FreeEntry
  <2> QED
    BY <2>2
<1> QED
  BY <1>1 DEF FreeEntry

(* Every entry has the session it had, and no session is closed. *)
SameEntries(new) ==
  /\ DOMAIN new = DOMAIN entries
  /\ \A k \in 1..NEntries : /\ DOMAIN new[k] = DOMAIN entries[k]
                            /\ new[k].valid = entries[k].valid /\ new[k].id = entries[k].id

LEMMA EmptiedIsSame ==
  ASSUME EntriesAreRecords, NEW k
  PROVE  SameEntries(Emptied(k)) /\ SameEntries(entries)
BY DEF EntriesAreRecords, Emptied, SameEntries

LEMMA SameEntriesSuffice ==
  ASSUME EntriesAreRecords, EntriesAreAccountedFor, SameEntries(entries'), open \subseteq open'
  PROVE  EntriesAreRecords' /\ EntriesAreAccountedFor'
BY DEF EntriesAreRecords, EntriesAreAccountedFor, SameEntries
-----------------------------------------------------------------------------
(* One step for each kind of thread. *)
LEMMA ThreadMoves ==
  ASSUME Inv, NEW t \in Threads, Steps(t), pc[t] # "recv", closer = "none" \/ pc[t] # "idle",
         UNCHANGED <<wake, sock, closer>>
  PROVE  Wire' /\ ClosesAlone'
<1>1. Wire'
  BY StepsKeepWire DEF Inv
<1>2. ClosesAlone'
  BY DEF Inv, ClosesAlone, Steps
<1> QED
  BY <1>1, <1>2

(* The generating thread goes on with its session, or returns. *)
LEMMA EngineMoves ==
  ASSUME Inv, Steps(Engine), pc[Engine] # "recv", pc[Engine] # "idle",
         UNCHANGED <<wake, sock, closer, open>>,
         "id" \in DOMAIN gen', pc'[Engine] = "idle" \/ gen'.id = gen.id,
         SameEntries(entries')
  PROVE  Inv'
<1>1. Engine \in Threads /\ \A c \in Clients : c \in Threads \ {Engine}
  BY NamesAssumption DEF Threads
<1>2. Wire' /\ ClosesAlone'
  BY <1>1, ThreadMoves
<1>3. SessionIsHeld'
  BY <1>1 DEF Inv, SessionIsHeld, Steps
<1>4. EntriesAreRecords' /\ EntriesAreAccountedFor'
  BY SameEntriesSuffice DEF Inv
<1> QED
  BY <1>2, <1>3, <1>4 DEF Inv

(* A session thread goes on with its call: it does not close a session. *)
LEMMA ClientMoves ==
  ASSUME Inv, NEW c \in Clients, Steps(c), pc[c] # "recv", closer = "none" \/ pc[c] # "idle",
         UNCHANGED <<wake, sock, closer, gen>>, open \subseteq open',
         pc'[c] # "idle" => pc[Engine] = "idle" \/ call'[c].arg # gen.id,
         SameEntries(entries')
  PROVE  Inv'
<1>1. c \in Threads /\ Engine \in Threads \ {c} /\ \A d \in Clients : d \in Threads
  BY NamesAssumption DEF Threads
<1>2. Wire' /\ ClosesAlone'
  BY <1>1, ThreadMoves
<1>3. SessionIsHeld'
  BY <1>1 DEF Inv, SessionIsHeld, Steps
<1>4. EntriesAreRecords' /\ EntriesAreAccountedFor'
  BY SameEntriesSuffice DEF Inv
<1> QED
  BY <1>2, <1>3, <1>4 DEF Inv
-----------------------------------------------------------------------------
LEMMA RpcKeepsInv ==
  ASSUME Inv, NEW t \in Threads, Rpc(t)
  PROVE  Inv'
<1>1. Wire'
  BY RpcKeepsWire DEF Inv
<1>2. /\ UNCHANGED <<call, entries, closer, open, gen>>
      /\ pc[t] # "idle" /\ pc'[t] # "idle" /\ \A u \in Threads \ {t} : pc'[u] = pc[u]
  BY DEF Inv, Wire, Shape, Rpc, Lock, Receive, ReceiveGarbled, ReceiveFails, engineVars,
         Transmit, Finish, Goes
<1>3. \A u \in Threads : pc'[u] = "idle" <=> pc[u] = "idle"
  BY <1>2
<1>4. Engine \in Threads /\ Clients \subseteq Threads
  BY DEF Threads
<1>5. SessionIsHeld' /\ ClosesAlone'
  BY <1>2, <1>3, <1>4 DEF Inv, SessionIsHeld, ClosesAlone
<1>6. EntriesAreRecords' /\ EntriesAreAccountedFor'
  BY <1>2 DEF Inv, EntriesAreRecords, EntriesAreAccountedFor
<1> QED
  BY <1>1, <1>5, <1>6 DEF Inv

LEMMA ServiceKeepsInv ==
  ASSUME Inv, Service
  PROVE  Inv'
<1>1. Wire'
  BY ServiceKeepsWire DEF Inv
<1>2. UNCHANGED <<pc, call, entries, closer, open, gen>>
  BY DEF Service, Serve, Refuse, Drop, Stop, Restart, Evict, engineVars
<1> QED
  BY <1>1, <1>2 DEF Inv, SessionIsHeld, ClosesAlone, EntriesAreRecords, EntriesAreAccountedFor

LEMMA StartKeepsInv ==
  ASSUME Inv, NEW id \in Ids, NEW p \in Prompts, Start(id, p)
  PROVE  Inv'
<1>1. Engine \in Threads /\ \A c \in Clients : c \in Threads \ {Engine}
  BY NamesAssumption DEF Threads
<1>2. Steps(Engine)
  BY <1>1, LeavesSteps DEF Start, Inv, Wire
<1>3. Wire' /\ ClosesAlone'
  BY <1>1, <1>2, ThreadMoves DEF Start
<1>4. SessionIsHeld'
  <2>1. "id" \in DOMAIN gen' /\ gen'.id = id /\ id \in open /\ open' = open
    BY DEF Start, NoGen
  <2>2. \A c \in Clients : pc'[c] # "idle" => call'[c].arg # id
    BY <1>1, <1>2 DEF Start, Busy, Steps
  <2> QED
    BY <2>1, <2>2 DEF SessionIsHeld
<1>5. EntriesAreRecords' /\ EntriesAreAccountedFor'
  BY DEF Start, Inv, EntriesAreRecords, EntriesAreAccountedFor
<1> QED
  BY <1>3, <1>4, <1>5 DEF Inv

(* service_alloc_session_cache puts the session of the generate, which is    *)
(* open, into an entry that is free, if it has none.                       *)
LEMMA GetEntryKeepsInv ==
  ASSUME Inv, GetEntry
  PROVE  Inv'
<1> DEFINE k == IF FindEntry(gen.id) # 0 THEN FindEntry(gen.id) ELSE FreeEntry
<1>1. Engine \in Threads /\ \A c \in Clients : c \in Threads \ {Engine}
  BY NamesAssumption DEF Threads
<1>2. /\ pc[Engine] = "entry" /\ UNCHANGED <<wake, sock, closer, open>>
      /\ "id" \in DOMAIN gen' /\ gen'.id = gen.id
  BY DEF GetEntry, GenVars, Inv, SessionIsHeld
<1>3. Steps(Engine)
  BY <1>1, LeavesSteps, CallsSteps DEF GetEntry, Inv, Wire
<1>4. CASE k = 0 \/ FindEntry(gen.id) # 0
  <2>1. entries' = entries
    BY <1>4 DEF GetEntry
  <2> QED
    BY <1>1, <1>2, <1>3, <2>1, EmptiedIsSame, EngineMoves DEF Inv
<1>5. CASE k # 0 /\ FindEntry(gen.id) = 0
  <2>1. entries' = [entries EXCEPT ![k] = [NoEntry EXCEPT !.valid = TRUE, !.id = gen.id]]
    BY <1>5 DEF GetEntry
  <2>2. k \in 1..NEntries /\ ~entries[k].valid
    BY <1>5, FreeEntryIsFree
  <2>3. \A j \in 1..NEntries : ~(entries[j].valid /\ entries[j].id = gen.id)
    BY <1>5, FindEntryFinds
  <2> HIDE DEF k
  <2>4. /\ DOMAIN entries' = 1..NEntries /\ entries'[k].valid /\ entries'[k].id = gen.id
        /\ DOMAIN entries'[k] = {"valid", "id", "len", "blocks"}
        /\ \A j \in 1..NEntries : j # k => entries'[j] = entries[j]
    BY <2>1, <2>2 DEF Inv, EntriesAreRecords, NoEntry
  <2>5. EntriesAreRecords'
    BY <2>2, <2>4 DEF Inv, EntriesAreRecords
  <2>6. gen.id \in open /\ open' = open
    BY <1>2 DEF Inv, SessionIsHeld
  <2>7. EntriesAreAccountedFor'
    BY <2>2, <2>3, <2>4, <2>6 DEF Inv, EntriesAreAccountedFor
  <2>8. Wire' /\ ClosesAlone'
    BY <1>1, <1>2, <1>3, ThreadMoves
  <2>9. SessionIsHeld'
    BY <1>1, <1>2, <1>3 DEF Inv, SessionIsHeld, Steps
  <2> QED
    BY <2>5, <2>7, <2>8, <2>9 DEF Inv
<1> QED
  BY <1>4, <1>5

LEMMA GenerateKeepsInv ==
  ASSUME Inv, Generate
  PROVE  Inv'
<1>1. Engine \in Threads /\ Shape /\ EntriesAreRecords /\ "id" \in DOMAIN gen
  BY DEF Threads, Inv, Wire, SessionIsHeld
<1>2. ASSUME Steps(Engine), pc[Engine] \notin {"recv", "idle"}, GenVars' = GenVars,
             "id" \in DOMAIN gen', pc'[Engine] = "idle" \/ gen'.id = gen.id,
             SameEntries(entries')
      PROVE  Inv'
  BY <1>2, EngineMoves DEF GenVars
<1>3. SameEntries(entries) /\ \A j : SameEntries(Emptied(j))
  BY <1>1, EmptiedIsSame
<1>4. /\ "id" \in DOMAIN NoGen
      /\ \A w : w \notin {"recv", "got"} /\ Leaves(Engine, w) => Steps(Engine) /\ pc'[Engine] = w
      /\ \A m, arg : Calls(Engine, m, arg) => Steps(Engine)
  BY <1>1, LeavesSteps, CallsSteps DEF NoGen
<1>5. Return => Steps(Engine) /\ "id" \in DOMAIN gen' /\ pc'[Engine] = "idle"
  BY <1>4 DEF Return
<1>6. Ensured \notin {"recv", "got"}
  BY DEF Ensured
<1>7. CASE Ensure
  <2>1. Steps(Engine)
    BY <1>4, <1>6, <1>7 DEF Ensure
  <2> QED
    BY <1>1, <1>2, <1>3, <1>7, <2>1 DEF Ensure, engineVars
<1>8. CASE Configured
  <2>1. Steps(Engine)
    BY <1>4, <1>6, <1>8 DEF Configured
  <2> QED
    BY <1>1, <1>2, <1>3, <1>8, <2>1 DEF Configured, Got
<1>9. CASE NotConfigured
  <2>1. Steps(Engine) /\ "id" \in DOMAIN gen' /\ (pc'[Engine] = "idle" \/ gen'.id = gen.id)
    BY <1>1, <1>4, <1>5, <1>9 DEF NotConfigured, Unavailable
  <2> QED
    BY <1>2, <1>3, <1>9, <2>1 DEF NotConfigured, Got
<1>10. CASE GetEntry
  BY <1>10, GetEntryKeepsInv
<1>11. CASE Found
  <2>1. Steps(Engine)
    BY <1>4, <1>11 DEF Found
  <2>2. \E n, bs : entries' = [entries EXCEPT ![gen.entry].len = n, ![gen.entry].blocks = bs]
    BY <1>11 DEF Found
  <2>3. SameEntries(entries')
    BY <1>1, <2>2 DEF SameEntries, EntriesAreRecords
  <2>4. "id" \in DOMAIN gen' /\ gen'.id = gen.id
    BY <1>1, <1>11 DEF Found
  <2> QED
    BY <1>2, <1>11, <2>1, <2>3, <2>4 DEF Found, Got
<1>12. CASE NotFound
  <2>1. Steps(Engine)
    BY <1>4, <1>12 DEF NotFound
  <2> QED
    BY <1>1, <1>2, <1>3, <1>12, <2>1 DEF NotFound, Got
<1>13. CASE Read
  <2>1. Steps(Engine) /\ "id" \in DOMAIN gen' /\ gen'.id = gen.id
    BY <1>1, <1>4, <1>13 DEF Read
  <2> QED
    BY <1>2, <1>3, <1>13, <2>1 DEF Read
<1>14. CASE \E out \in Outputs : Compute(out)
  <2>1. Steps(Engine) /\ "id" \in DOMAIN gen' /\ gen'.id = gen.id
    BY <1>1, <1>4, <1>14 DEF Compute
  <2> QED
    BY <1>2, <1>3, <1>14, <2>1 DEF Compute
<1>15. CASE ComputeFails
  BY <1>2, <1>3, <1>5, <1>15 DEF ComputeFails
<1>16. CASE Prepare
  <2>1. /\ Steps(Engine) /\ "id" \in DOMAIN gen' /\ (pc'[Engine] = "idle" \/ gen'.id = gen.id)
    BY <1>1, <1>4, <1>5, <1>16 DEF Prepare
  <2> QED
    BY <1>2, <1>3, <1>16, <2>1 DEF Prepare
<1>17. CASE Allocated
  <2>1. /\ Steps(Engine) /\ "id" \in DOMAIN gen' /\ (pc'[Engine] = "idle" \/ gen'.id = gen.id)
    BY <1>1, <1>4, <1>5, <1>17 DEF Allocated
  <2> QED
    BY <1>2, <1>3, <1>17, <2>1 DEF Allocated, Got
<1>18. CASE CopyOut
  BY <1>1, <1>2, <1>3, <1>4, <1>18 DEF CopyOut
<1>19. CASE CopyAstray
  BY <1>1, <1>2, <1>3, <1>4, <1>19 DEF CopyAstray, engineVars
<1>20. CASE StoreDone
  <2>1. SameEntries(entries')
    BY <1>1, <1>3, <1>20 DEF StoreDone, SameEntries, EntriesAreRecords
  <2> QED
    BY <1>2, <1>5, <1>20, <2>1 DEF StoreDone, Got
<1> QED
  BY <1>7, <1>8, <1>9, <1>10, <1>11, <1>12, <1>13, <1>14, <1>15, <1>16, <1>17, <1>18, <1>19,
     <1>20 DEF Generate
-----------------------------------------------------------------------------
LEMMA AsksKeepsInv ==
  ASSUME Inv, NEW c \in Clients, NEW m, NEW id \in Ids, Asks(c, m, id)
  PROVE  Inv'
<1>1. c \in Threads /\ Shape /\ EntriesAreRecords
  BY DEF Threads, Inv, Wire
<1>2. Steps(c) /\ call'[c].arg = id
  <2>1. Steps(c) /\ call'[c] = Request(c, m, id)
    BY <1>1, CallsSteps DEF Asks
  <2>2. Request(c, m, id).arg = id
    BY DEF Request
  <2> QED
    BY <2>1, <2>2
<1>3. gen.id # id
  BY DEF Asks, Busy
<1>4. SameEntries(entries') /\ open \subseteq open'
  BY <1>1, EmptiedIsSame DEF Asks
<1> QED
  BY <1>2, <1>3, <1>4, ClientMoves DEF Asks, engineVars

(* A session that is closed loses its only entry, and is in no generate. *)
LEMMA ClosedKeepsInv ==
  ASSUME Inv, NEW c \in Clients, Closed(c)
  PROVE  Inv'
<1> DEFINE id == call[c].arg
           k == FindEntry(id)
<1>1. /\ c \in Threads /\ Engine \in Threads \ {c} /\ \A d \in Clients : d \in Threads
      /\ Shape /\ EntriesAreRecords
  BY NamesAssumption DEF Threads, Inv, Wire
<1>2. Steps(c) /\ pc'[c] = "idle" /\ pc[c] = "got"
  BY <1>1, LeavesSteps DEF Closed, Done, Got
<1>3. Wire' /\ ClosesAlone'
  BY <1>1, <1>2, ThreadMoves DEF Closed, SessionVars
<1>4. open' = open \ {id} /\ gen' = gen
  BY DEF Closed, SessionVars, engineVars
<1>5. SessionIsHeld'
  <2>1. pc[Engine] # "idle" => gen.id # id
    BY <1>2 DEF Inv, SessionIsHeld
  <2> QED
    BY <1>1, <1>2, <1>4, <2>1 DEF Inv, SessionIsHeld, Steps
<1>6. entries' = IF k = 0 THEN entries ELSE [entries EXCEPT ![k].valid = FALSE]
  BY DEF Closed
<1>7. /\ k = 0 => \A j \in 1..NEntries : ~(entries[j].valid /\ entries[j].id = id)
      /\ k # 0 => k \in 1..NEntries /\ entries[k].valid /\ entries[k].id = id
  BY FindEntryFinds
<1> HIDE DEF k, id
<1>8. CASE k = 0
  BY <1>3, <1>4, <1>5, <1>6, <1>7, <1>8 DEF Inv, EntriesAreRecords, EntriesAreAccountedFor
<1>9. CASE k # 0
  <2>1. /\ DOMAIN entries' = 1..NEntries /\ ~entries'[k].valid
        /\ DOMAIN entries'[k] = {"valid", "id", "len", "blocks"}
        /\ \A j \in 1..NEntries : j # k => entries'[j] = entries[j]
    BY <1>1, <1>6, <1>7, <1>9 DEF EntriesAreRecords
  <2>2. \A j \in 1..NEntries : entries[j].valid /\ entries[j].id = id => j = k
    BY <1>7, <1>9 DEF Inv, EntriesAreAccountedFor
  <2>3. EntriesAreRecords'
    BY <2>1 DEF Inv, EntriesAreRecords
  <2>4. EntriesAreAccountedFor'
    BY <1>4, <2>1, <2>2 DEF Inv, EntriesAreAccountedFor
  <2> QED
    BY <1>3, <1>5, <2>3, <2>4 DEF Inv
<1> QED
  BY <1>8, <1>9

LEMMA SessionsKeepInv ==
  ASSUME Inv, NEW c \in Clients, Sessions(c)
  PROVE  Inv'
<1>1. c \in Threads /\ Shape /\ EntriesAreRecords
  BY DEF Threads, Inv, Wire
<1>2. Done(c) => Steps(c) /\ pc'[c] = "idle"
  BY <1>1, LeavesSteps DEF Done
<1>3. SameEntries(entries) /\ \A j : SameEntries(Emptied(j))
  BY <1>1, EmptiedIsSame
<1>4. CASE Created(c)
  <2>1. SameEntries(entries') /\ open \subseteq open'
    BY <1>3, <1>4 DEF Created
  <2> QED
    BY <1>2, <1>4, <2>1, ClientMoves DEF Created, Got, SessionVars, engineVars
<1>5. CASE WasReset(c)
  <2>1. SameEntries(entries') /\ open \subseteq open'
    BY <1>3, <1>5 DEF WasReset
  <2> QED
    BY <1>2, <1>5, <2>1, ClientMoves DEF WasReset, Got, SessionVars, engineVars
<1> QED
  BY <1>4, <1>5, ClosedKeepsInv DEF Sessions
-----------------------------------------------------------------------------
(* The heartbeat thread touches neither sessions nor entries. *)
LEMMA BeatKeepsInv ==
  ASSUME Inv, Wire', \A t \in Threads \ {Beat} : pc'[t] = pc[t] /\ call'[t] = call[t],
         UNCHANGED <<gen, open, entries, closer>>
  PROVE  Inv'
<1>1. Engine \in Threads \ {Beat} /\ \A c \in Clients : c \in Threads \ {Beat}
  BY NamesAssumption DEF Threads, Engine, Beat
<1>2. SessionIsHeld' /\ ClosesAlone'
  BY <1>1 DEF Inv, SessionIsHeld, ClosesAlone
<1> QED
  BY <1>2 DEF Inv, EntriesAreRecords, EntriesAreAccountedFor

LEMMA HeartbeatKeepsInv ==
  ASSUME Inv, Heartbeat
  PROVE  Inv'
<1>1. Beat \in Threads /\ Shape /\ Wire
  BY DEF Threads, Inv, Wire
<1>2. ASSUME Steps(Beat), pc[Beat] # "recv", UNCHANGED <<wake, sock, gen, open, entries, closer>>
      PROVE  Inv'
  <2>1. Wire'
    BY <1>1, <1>2, StepsKeepWire
  <2> QED
    BY <1>2, <2>1, BeatKeepsInv DEF Steps
<1>3. CASE Enter \/ TimeOut \/ WakeUp
  <2>1. Steps(Beat) /\ pc[Beat] # "recv"
    BY <1>1, <1>3, GoesSteps DEF Enter, TimeOut, WakeUp
  <2> QED
    BY <1>2, <1>3, <2>1 DEF Enter, TimeOut, WakeUp, BeatVars, engineVars
<1>4. CASE Scan
  <2> DEFINE request == Request(Beat, "Heartbeat", Listed)
  <2>1. /\ pc[Beat] = "scan" /\ wake = Nobody /\ UNCHANGED <<gen, open, entries, closer>>
    BY <1>4 DEF Scan, engineVars
  <2>2. CASE sock.connected \/ svc.up
    <3>1. /\ Transmit(Beat, request, sock) /\ wake' = Beat
          /\ call' = [call EXCEPT ![Beat] = request] /\ UNCHANGED reply
      BY <1>4, <2>2 DEF Scan
    <3>2. /\ DOMAIN call' = DOMAIN call /\ call'[Beat] = request
          /\ \A u \in Threads \ {Beat} : call'[u] = call[u]
      BY <1>1, <3>1 DEF Shape
    <3>3. sock.reqs = <<>> /\ sock.answers = <<>> /\ \A u \in Threads : pc[u] # "recv"
      BY <1>1, <2>1, NamesAssumption DEF Wire, SocketOwner
    <3>4. \A u \in Threads \ {Beat} : pc'[u] = pc[u]
      BY <1>1, <3>1 DEF Transmit, Goes, Shape
    <3> HIDE DEF request
    <3>5. Wire'
      BY <1>1, <3>1, <3>2, <3>3, TransmitOwns
    <3> QED
      BY <2>1, <3>2, <3>4, <3>5, BeatKeepsInv
  <2>3. CASE ~(sock.connected \/ svc.up)
    <3>1. Leaves(Beat, "loop") /\ UNCHANGED <<sock, wake>>
      BY <1>4, <2>3 DEF Scan
    <3> QED
      BY <1>1, <1>2, <2>1, <3>1, LeavesSteps
  <2> QED
    BY <2>2, <2>3
<1>5. CASE BeatDone
  <2>1. Steps(Beat) /\ pc[Beat] # "recv"
    BY <1>1, <1>5, LeavesSteps DEF BeatDone, Got
  <2> QED
    BY <1>2, <1>5, <2>1 DEF BeatDone, BeatVars, engineVars
<1> QED
  BY <1>3, <1>4, <1>5 DEF Heartbeat

LEMMA CloseKeepsInv ==
  ASSUME Inv, Close \/ Join
  PROVE  Inv'
<1>1. Beat \in Threads /\ Engine \in Threads \ {Beat} /\ \A c \in Clients : c \in Threads \ {Beat}
  BY NamesAssumption DEF Threads, Engine, Beat
<1>2. ASSUME Wire', \A t \in Threads \ {Beat} : pc[t] = "idle" /\ pc'[t] = "idle",
             UNCHANGED <<gen, open, entries>>
      PROVE  Inv'
  <2>1. SessionIsHeld' /\ ClosesAlone'
    BY <1>1, <1>2 DEF Inv, SessionIsHeld, ClosesAlone
  <2> QED
    BY <1>2, <2>1 DEF Inv, EntriesAreRecords, EntriesAreAccountedFor
<1>3. CASE Close
  <2>1. /\ DOMAIN pc' = DOMAIN pc /\ \A t \in Threads \ {Beat} : pc'[t] = pc[t] /\ pc[t] = "idle"
        /\ pc'[Beat] = IF pc[Beat] = "wait" THEN "woken" ELSE pc[Beat]
        /\ wake = Nobody /\ UNCHANGED <<call, reply, wake, sock, gen, open, entries>>
    BY <1>1, <1>3 DEF Close, Inv, Wire, Shape, engineVars
  <2>2. Steps(Beat)
    BY <1>1, <2>1 DEF Steps
  <2>3. pc[Beat] # "recv"
    BY <1>1, <2>1, NamesAssumption DEF Inv, Wire, SocketOwner
  <2>4. Wire'
    BY <1>1, <2>1, <2>2, <2>3, StepsKeepWire DEF Inv
  <2> QED
    BY <1>2, <2>1, <2>4
<1>4. CASE Join
  <2>1. /\ closer # "none" /\ pc[Beat] = "done" /\ sock' = NoSocket
        /\ UNCHANGED <<pc, call, reply, wake, gen, open, entries>>
    BY <1>4 DEF Join
  <2>2. \A t \in Threads \ {Beat} : pc[t] = "idle"
    BY <2>1 DEF Inv, ClosesAlone
  <2>3. \A t \in Threads : pc[t] # "recv"
    BY <2>1, <2>2
  <2>4. wake = Nobody
    BY <2>3 DEF Inv, Wire, WakeHasOwner, SocketOwner
  <2>5. Shape' /\ WakeHasOwner' /\ AnswerIsOurs'
    BY <2>1 DEF Inv, Wire, Shape, WakeHasOwner, AnswerIsOurs, NoSocket
  <2>6. SocketOwner'
    BY <2>1, <2>3, <2>4, NamesAssumption DEF SocketOwner, NoSocket
  <2> QED
    BY <1>2, <2>1, <2>2, <2>5, <2>6 DEF Wire
<1> QED
  BY <1>3, <1>4
-----------------------------------------------------------------------------
(* Inv is inductive. *)
THEOREM Invariant == Spec => []Inv
<1>1. ASSUME Init PROVE Inv
  <2>1. Wire
    BY <1>1, NamesAssumption
    DEF Init, Wire, Shape, WakeHasOwner, SocketOwner, AnswerIsOurs, Threads, NoSocket
  <2>2. /\ Engine \in Threads /\ Engine # Beat
    BY DEF Threads, Engine, Beat
  <2>3. SessionIsHeld /\ ClosesAlone
    BY <1>1, <2>2 DEF Init, SessionIsHeld, ClosesAlone, NoGen
  <2>4. EntriesAreRecords /\ EntriesAreAccountedFor
    BY <1>1 DEF Init, EntriesAreRecords, EntriesAreAccountedFor, NoEntry
  <2> QED
    BY <2>1, <2>3, <2>4 DEF Inv
<1>2. ASSUME Inv, [Next]_vars PROVE Inv'
  <2>1. CASE UNCHANGED vars
    BY <1>2, <2>1 DEF vars, Inv, Wire, Shape, WakeHasOwner, SocketOwner, AnswerIsOurs,
       SessionIsHeld, ClosesAlone, EntriesAreRecords, EntriesAreAccountedFor
  <2>2. ASSUME NEW c \in Clients, NEW id \in Ids,
               CreateSession(c, id) \/ CloseSession(c, id) \/ ResetSession(c, id)
        PROVE  Inv'
    BY <1>2, <2>2, AsksKeepsInv DEF CreateSession, CloseSession, ResetSession
  <2> QED
    BY <1>2, <2>1, <2>2, ServiceKeepsInv, GenerateKeepsInv, HeartbeatKeepsInv, CloseKeepsInv,
       RpcKeepsInv, SessionsKeepInv, StartKeepsInv DEF Next
<1> QED
  BY <1>1, <1>2, PTL DEF Spec

(* Whatever breaks, restarts or is repeated, a caller of the one socket gets  *)
(* the answer to its own request: wake_mutex is held from the request to its  *)
(* answer, and a second attempt goes over a new connection.                *)
THEOREM AnswersReachTheirCallers == Spec => []AnswerIsOurs
  BY Invariant, PTL DEF Inv, Wire

(* A session has one entry, and none once it is closed: who puts one in, a    *)
(* generate, keeps the session open, and a close looks for it even if the     *)
(* service could not be told.                                              *)
THEOREM EntriesAreGivenBack == Spec => []EntriesAreAccountedFor
  BY Invariant, PTL DEF Inv
-----------------------------------------------------------------------------
(* The data: what is in the arena, in the index, in an answer to the thread   *)
(* that generates, and in its locals.                                      *)
Calling == pc[Engine] \in {"lock", "recv", "got"}
On(m) == Calling /\ call[Engine].m = m

EngineMethods == {"GetConfig", "Lookup", "Allocate", "Store"}
SessionMethods == {"CreateSession", "CloseSession", "ResetSession"}
CallsAreTyped ==
  /\ Calling => call[Engine].m \in EngineMethods
  /\ \A c \in Clients : pc[c] # "idle" => call[c].m \in SessionMethods /\ call[c].arg \in Ids
  /\ pc[Beat] \in {"lock", "recv"} => call[Beat].m = "Heartbeat"

(* A block is reserved, or it is of one entry of the index, or it is free. *)
IndexEntry == [toks : Seq(Tokens), n : Nat, b : Blocks, clean : BOOLEAN]
Distinct(ids) == \A j, k \in 1..Len(ids) : ids[j] = ids[k] => j = k
Unused(b) == \A e \in svc.index : e.b # b
BlocksAreApart ==
  /\ DOMAIN svc = {"up", "index", "reserved", "known"} /\ DOMAIN mem = Blocks
  /\ svc.index \subseteq IndexEntry /\ \A e \in svc.index : e.n <= Len(e.toks)
  /\ \A e, f \in svc.index : e.b = f.b => e = f
  /\ \A b \in svc.reserved : b \in Blocks /\ Unused(b)

(* The blocks of an answer to Lookup that are still in the index follow one    *)
(* another, have the sizes it says, and hold the tokens it vouches for.      *)
LookupFits(d, prompt) ==
  /\ d.blocks \in Seq([b : Blocks, n : Nat]) /\ d.len \in 0..Len(prompt)
  /\ \A e \in svc.index : \A k \in 1..Len(d.blocks) : e.b = d.blocks[k].b =>
       /\ e.n = d.blocks[k].n
       /\ k = 1 => Ends(e) = e.n
       /\ \A f \in svc.index : k > 1 /\ f.b = d.blocks[k - 1].b => Ends(e) - e.n = Ends(f)
       /\ \A i \in 1..Ends(e) : i <= Len(prompt) =>
            i <= d.len /\ Prefix(e.toks, i) = Prefix(d.hash, i)
Fresh(ids) == ids \in Seq(Blocks) /\ Distinct(ids) /\ \A k \in 1..Len(ids) : Unused(ids[k])
Fits(r, data) ==
  /\ r.m = "GetConfig" => data = ArenaName
  /\ r.m = "Lookup" => LookupFits(data, r.arg)
  /\ r.m = "Allocate" => Fresh(data)
AnswersFit ==
  /\ pc[Engine] = "got" /\ reply[Engine].ok => Fits(call[Engine], reply[Engine].data)
  /\ wake = Engine /\ sock.answers # <<>> /\ sock.answers[1].ok =>
       Fits(call[Engine], sock.answers[1].data)

(* The entry a lookup fills, and what is read by it. *)
EntryIsOurs ==
  pc[Engine] = "read" \/ On("Lookup") =>
    /\ gen.entry \in 1..NEntries
    /\ entries[gen.entry].valid /\ entries[gen.entry].id = gen.id
    /\ On("Lookup") => call[Engine].arg = gen.prompt
ReadIsReady ==
  pc[Engine] = "read" /\ ~gen.spoiled =>
    /\ gen.cached <= Len(gen.prompt)
    /\ \A i \in 1..gen.cached :
         Cell(entries[gen.entry].blocks, i) = Prefix(gen.prompt, i)

HostIsExact == ~gen.spoiled => Exact /\ Len(gen.host) \in 0..Len(gen.prompt)
GenIsTyped ==
  /\ DOMAIN gen = DOMAIN NoGen
  /\ gen.prompt \in Seq(Tokens) /\ gen.all \in Seq(Tokens) /\ gen.cached \in Nat
  /\ gen.entry \in 0..NEntries /\ gen.spoiled \in BOOLEAN
  /\ gen.phase = "write" => IsPrefix(gen.prompt, gen.all)
(* Where the thread is in a generate. *)
Writing == pc[Engine] \in {"prepare", "copy"} \/ On("Allocate") \/ On("Store")
Phases ==
  /\ pc[Engine] # "idle" => gen.phase \in {"lookup", "write"}
  /\ pc[Engine] \in {"entry", "read", "compute"} \/ On("Lookup") => gen.phase = "lookup"
  /\ Writing => gen.phase = "write"
  /\ gen.phase = "lookup" /\ pc[Engine] \notin {"idle", "compute"} => gen.host = <<>>
WriteIsReady ==
  /\ pc[Engine] = "copy" \/ On("Allocate") => gen.cached < Len(gen.all)
  /\ On("Allocate") => call[Engine].arg = NumBlocks(Len(gen.all) - gen.cached)
  /\ pc[Engine] = "copy" =>
       Fresh(gen.new) /\ Len(gen.new) = NumBlocks(Len(gen.all) - gen.cached)

(* What is to be stored is in its blocks. *)
Holds(st, k) ==
  mem[st.ids[k]] = [j \in 1..(Least(st.cached + k * BlockSize, Len(st.tokens)) -
                              (st.cached + (k - 1) * BlockSize)) |->
                      Prefix(st.tokens, st.cached + (k - 1) * BlockSize + j)]
StoreFits(st) ==
  /\ st.tokens \in Seq(Tokens) /\ st.cached \in Nat /\ st.clean \in BOOLEAN
  /\ st.ids \in Seq(Blocks) /\ Distinct(st.ids)
  /\ \A k \in 1..Len(st.ids) : st.cached + (k - 1) * BlockSize < Len(st.tokens)
  /\ st.clean => \A k \in 1..Len(st.ids) : Holds(st, k)
StoreIsReady == On("Store") => StoreFits(call[Engine].arg)

Rest ==
  /\ BlocksAreApart /\ IndexIsExact /\ AnswersFit /\ EntryIsOurs /\ ReadIsReady
  /\ GenIsTyped /\ HostIsExact /\ Phases /\ WriteIsReady /\ StoreIsReady
Data == TypeOK /\ CallsAreTyped /\ Rest

-----------------------------------------------------------------------------
(* Sequences and numbers.                                                  *)
LEMMA PrefixIs ==
  ASSUME NEW S, NEW s \in Seq(S), NEW n \in 0..Len(s)
  PROVE  /\ Prefix(s, n) \in Seq(S) /\ Len(Prefix(s, n)) = n
         /\ \A i \in 1..n : Prefix(s, n)[i] = s[i]
<1>1. \A i \in 1..n : s[i] \in S
  OBVIOUS
<1> QED
  BY <1>1, SubSeqProperties DEF Prefix

LEMMA SamePrefixes ==
  ASSUME NEW S, NEW s \in Seq(S), NEW t \in Seq(S), NEW n \in Nat, n <= Len(s), n <= Len(t),
         \A i \in 1..n : s[i] = t[i]
  PROVE  Prefix(s, n) = Prefix(t, n)
<1>0. n \in 0..Len(s) /\ n \in 0..Len(t)
  OBVIOUS
<1>1. /\ Prefix(s, n) \in Seq(S) /\ Len(Prefix(s, n)) = n
      /\ \A i \in 1..n : Prefix(s, n)[i] = s[i]
  BY <1>0, PrefixIs
<1>2. /\ Prefix(t, n) \in Seq(S) /\ Len(Prefix(t, n)) = n
      /\ \A i \in 1..n : Prefix(t, n)[i] = t[i]
  BY <1>0, PrefixIs
<1> QED
  BY <1>1, <1>2, SeqEqual

LEMMA PrefixOfPrefix ==
  ASSUME NEW S, NEW s \in Seq(S), NEW n \in 0..Len(s), NEW m \in 0..n
  PROVE  Prefix(Prefix(s, n), m) = Prefix(s, m)
<1>1. /\ Prefix(s, n) \in Seq(S) /\ Len(Prefix(s, n)) = n
      /\ \A i \in 1..n : Prefix(s, n)[i] = s[i]
  BY PrefixIs
<1>2. m \in Nat /\ m <= n /\ n <= Len(s) /\ \A i \in 1..m : i \in 1..n
  OBVIOUS
<1> QED
  BY <1>1, <1>2, SamePrefixes

LEMMA IsPrefixMeans ==
  ASSUME NEW S, NEW s \in Seq(S), NEW t \in Seq(S)
  PROVE  IsPrefix(s, t) <=> Len(s) <= Len(t) /\ \A i \in 1..Len(s) : s[i] = t[i]
<1>1. ASSUME Len(s) <= Len(t), SubSeq(s, 1, Len(s)) = SubSeq(t, 1, Len(s))
      PROVE  \A i \in 1..Len(s) : s[i] = t[i]
  BY <1>1, PrefixIs DEF Prefix
<1>2. ASSUME Len(s) <= Len(t), \A i \in 1..Len(s) : s[i] = t[i]
      PROVE  SubSeq(s, 1, Len(s)) = SubSeq(t, 1, Len(s))
  BY <1>2, SamePrefixes DEF Prefix
<1> QED
  BY <1>1, <1>2 DEF IsPrefix

LEMMA PrefixTransitive ==
  ASSUME NEW S, NEW s \in Seq(S), NEW t \in Seq(S), NEW u \in Seq(S), IsPrefix(s, t), IsPrefix(t, u)
  PROVE  IsPrefix(s, u)
<1>1. Len(s) <= Len(t) /\ \A i \in 1..Len(s) : s[i] = t[i]
  BY IsPrefixMeans
<1>2. Len(t) <= Len(u) /\ \A i \in 1..Len(t) : t[i] = u[i]
  BY IsPrefixMeans
<1>3. Len(s) \in Nat /\ Len(t) \in Nat /\ Len(u) \in Nat
  OBVIOUS
<1>4. Len(s) <= Len(u) /\ \A i \in 1..Len(s) : s[i] = u[i]
  BY <1>1, <1>2, <1>3
<1> QED
  BY <1>4, IsPrefixMeans

LEMMA SamePrefix ==
  ASSUME NEW S, NEW s \in Seq(S), NEW t \in Seq(S), IsPrefix(s, t), NEW n \in 0..Len(s)
  PROVE  Prefix(s, n) = Prefix(t, n)
BY IsPrefixMeans, SamePrefixes

(* The k-th of as many blocks as n tokens need has a token. *)
LEMMA BlocksAreNeeded ==
  ASSUME NEW n \in Nat, NEW k \in 1..NumBlocks(n)
  PROVE  (k - 1) * BlockSize < n
<1> DEFINE q == (n + BlockSize - 1) \div BlockSize
<1>1. BlockSize \in Nat /\ BlockSize > 0
  BY NumbersAssumption
<1>2. q \in Int /\ q * BlockSize <= n + BlockSize - 1 /\ k <= q /\ k \in Nat
  BY <1>1 DEF NumBlocks
<1>3. k * BlockSize <= q * BlockSize
  <2> HIDE DEF q
  <2>1. q - k \in Nat
    BY <1>2
  <2>2. (q - k) * BlockSize >= 0
    BY <1>1, <2>1
  <2> QED
    BY <1>1, <1>2, <2>2
<1> HIDE DEF q
<1>4. (k - 1) * BlockSize = k * BlockSize - BlockSize /\ k * BlockSize \in Nat /\ q * BlockSize \in Int
  BY <1>1, <1>2
<1> QED
  BY <1>1, <1>2, <1>3, <1>4

(* A chain's blocks hold prefixes of what it covers. *)
LEMMA ChainCovers ==
  ASSUME NEW s, s \in Seq(IndexEntry), Contiguous(s), NEW k \in 1..Len(s)
  PROVE  IsPrefix(s[k].toks, s[Len(s)].toks)
<1> DEFINE Bad == {d \in Nat : d < Len(s) /\ ~IsPrefix(s[Len(s) - d].toks, s[Len(s)].toks)}
<1>1. \A j \in 1..Len(s) : s[j].toks \in Seq(Tokens)
  <2>1. \A j \in 1..Len(s) : s[j] \in IndexEntry
    OBVIOUS
  <2> QED
    BY <2>1 DEF IndexEntry
<1>2. Bad = {}
  <2> SUFFICES ASSUME Bad # {} PROVE FALSE
    OBVIOUS
  <2>1. PICK d \in Bad : \A e \in Bad : d <= e
    <3>1. Bad \in SUBSET Nat
      OBVIOUS
    <3> HIDE DEF Bad
    <3> QED
      BY <3>1, HasLeast
  <2> DEFINE j == Len(s) - d
  <2>2. j \in 1..Len(s) /\ ~IsPrefix(s[j].toks, s[Len(s)].toks)
    BY <2>1
  <2>3. CASE d = 0
    <3>1. s[j] = s[Len(s)]
      BY <2>3
    <3> QED
      BY <1>1, <2>2, <3>1, IsPrefixMeans
  <2>4. CASE d # 0
    <3>1. d - 1 \in Nat /\ d - 1 \notin Bad /\ d - 1 < Len(s) /\ j + 1 = Len(s) - (d - 1)
      BY <2>1, <2>4
    <3> HIDE DEF j
    <3>2. IsPrefix(s[j + 1].toks, s[Len(s)].toks)
      BY <3>1
    <3>3. j + 1 \in 1..Len(s) /\ j + 1 > 1 /\ j + 1 - 1 = j
      BY <2>1, <2>2, <3>1
    <3>4. IsPrefix(s[j].toks, s[j + 1].toks)
      <4>1. \A m \in 1..Len(s) : m > 1 => IsPrefix(s[m - 1].toks, s[m].toks)
        BY DEF Contiguous
      <4>2. PICK m \in 1..Len(s) : m = j + 1
        BY <3>3
      <4>3. m > 1 /\ m - 1 = j
        BY <2>2, <4>2
      <4>4. IsPrefix(s[m - 1].toks, s[m].toks)
        BY <4>1, <4>3
      <4> QED
        BY <4>2, <4>3, <4>4
    <3>5. s[j].toks \in Seq(Tokens) /\ s[j + 1].toks \in Seq(Tokens) /\ s[Len(s)].toks \in Seq(Tokens)
      <4>1. Len(s) \in 1..Len(s)
        BY <2>2
      <4> QED
        BY <1>1, <2>2, <3>3, <4>1
    <3>6. IsPrefix(s[j].toks, s[Len(s)].toks)
      BY <3>2, <3>4, <3>5, PrefixTransitive
    <3> QED
      BY <2>2, <3>6
  <2> QED
    BY <2>3, <2>4
<1>3. Len(s) - k \in Nat /\ Len(s) - k < Len(s) /\ Len(s) - (Len(s) - k) = k
  OBVIOUS
<1> QED
  BY <1>2, <1>3

-----------------------------------------------------------------------------
(* Where the blocks of an answer begin. *)
LEMMA HasGreatest ==
  ASSUME NEW n \in Nat, NEW S \in SUBSET (0..n), S # {}
  PROVE  \E k \in S : \A j \in S : j <= k
<1> DEFINE T == {n - k : k \in S}
<1>1. T \in SUBSET Nat /\ T # {}
  OBVIOUS
<1>2. PICK t \in T : \A u \in T : t <= u
  <2> HIDE DEF T
  <2> QED
    BY <1>1, HasLeast
<1>3. PICK k \in S : t = n - k
  OBVIOUS
<1>4. \A j \in S : n - k <= n - j
  BY <1>2, <1>3
<1> QED
  BY <1>4

LEMMA SizesAreNumbers ==
  ASSUME NEW d, d.blocks \in Seq([b : Blocks, n : Nat]), d.len \in Nat
  PROVE  \A k \in 1..Len(d.blocks), at \in Nat :
           SizeOf(d, k, at) \in Int /\ at + SizeOf(d, k, at) \in Nat
<1>1. ASSUME NEW k \in 1..Len(d.blocks), NEW at \in Nat
      PROVE  SizeOf(d, k, at) \in Int /\ at + SizeOf(d, k, at) \in Nat
  <2>1. d.blocks[k] \in [b : Blocks, n : Nat]
    BY ElementOfSeq
  <2>2. d.blocks[k].n \in Nat
    BY <2>1
  <2> DEFINE s == SizeOf(d, k, at)
  <2>3. s = d.blocks[k].n \/ s = BlockSize \/ s = d.len - at
    BY DEF SizeOf, Least
  <2>4. BlockSize \in Nat
    BY NumbersAssumption
  <2>5. s \in Int /\ at + s \in Nat
    <3> DEFINE l == d.len
               n == d.blocks[k].n
    <3>1. l \in Nat /\ n \in Nat
      BY <2>2
    <3>2. s = n \/ s = BlockSize \/ s = l - at
      BY <2>3
    <3> HIDE DEF l, n, s
    <3> QED
      BY <2>4, <3>1, <3>2
  <2> QED
    BY <2>5
<1> QED
  BY <1>1

(* f has the beginnings of the first n blocks. *)
Begins(d, n, f) ==
  /\ f \in [1..n -> Nat]
  /\ \A k \in 1..n : f[k] = IF k = 1 THEN 0 ELSE f[k - 1] + SizeOf(d, k - 1, f[k - 1])

LEMMA BeginningsExist ==
  ASSUME NEW d, d.blocks \in Seq([b : Blocks, n : Nat]), d.len \in Nat
  PROVE  \E f : Begins(d, Len(d.blocks), f)
<1> DEFINE Bad == {n \in Nat : n <= Len(d.blocks) /\ ~\E f : Begins(d, n, f)}
<1>1. \A k \in 1..Len(d.blocks), at \in Nat : at + SizeOf(d, k, at) \in Nat
  BY SizesAreNumbers
<1>2. Bad = {}
  <2> SUFFICES ASSUME Bad # {} PROVE FALSE
    OBVIOUS
  <2>1. PICK n \in Bad : \A m \in Bad : n <= m
    <3>1. Bad \in SUBSET Nat
      OBVIOUS
    <3> HIDE DEF Bad
    <3> QED
      BY <3>1, HasLeast
  <2>2. n \in Nat /\ n <= Len(d.blocks) /\ ~\E f : Begins(d, n, f)
    OBVIOUS
  <2>3. CASE n = 0
    <3>1. Begins(d, n, [k \in 1..n |-> 0])
      BY <2>3 DEF Begins
    <3> QED
      BY <2>2, <3>1
  <2>4. CASE n # 0
    <3>1. n - 1 \in Nat /\ n - 1 \notin Bad /\ n - 1 <= Len(d.blocks)
      <4> HIDE DEF Bad
      <4>1. n - 1 \in Nat /\ n - 1 <= Len(d.blocks) /\ ~(n <= n - 1)
        BY <2>2, <2>4
      <4> QED
        BY <2>1, <4>1
    <3>2. PICK f : Begins(d, n - 1, f)
      BY <3>1
    <3> DEFINE last == IF n = 1 THEN 0 ELSE f[n - 1] + SizeOf(d, n - 1, f[n - 1])
               g == [k \in 1..n |-> IF k = n THEN last ELSE f[k]]
    <3> HIDE DEF Bad
    <3>3. last \in Nat
      <4>1. CASE n = 1
        BY <4>1
      <4>2. CASE n # 1
        <5>1. n - 1 \in 1..(n - 1) /\ n - 1 \in 1..Len(d.blocks)
          BY <2>2, <2>4, <4>2
        <5>2. f[n - 1] \in Nat
          BY <3>2, <5>1 DEF Begins
        <5>3. f[n - 1] + SizeOf(d, n - 1, f[n - 1]) \in Nat
          BY <1>1, <5>1, <5>2
        <5> QED
          BY <4>2, <5>2, <5>3
      <4> QED
        BY <4>1, <4>2
    <3>4. g \in [1..n -> Nat]
      <4> HIDE DEF last
      <4> QED
        BY <2>2, <3>2, <3>3 DEF Begins
    <3>5. ASSUME NEW k \in 1..n
          PROVE  g[k] = IF k = 1 THEN 0 ELSE g[k - 1] + SizeOf(d, k - 1, g[k - 1])
      <4>1. CASE k = n
        <5>1. k # 1 => k - 1 \in 1..n /\ k - 1 # n /\ g[k - 1] = f[k - 1]
          BY <2>2
        <5> QED
          BY <4>1, <5>1
      <4>2. CASE k # n
        <5>1. k \in 1..(n - 1) /\ g[k] = f[k]
          BY <2>2, <4>2
        <5>2. k # 1 => k - 1 \in 1..n /\ k - 1 # n /\ g[k - 1] = f[k - 1]
          BY <2>2, <4>2
        <5>3. f[k] = IF k = 1 THEN 0 ELSE f[k - 1] + SizeOf(d, k - 1, f[k - 1])
          BY <3>2, <5>1 DEF Begins
        <5> HIDE DEF g
        <5> QED
          BY <5>1, <5>2, <5>3
      <4> QED
        BY <4>1, <4>2
    <3> HIDE DEF g
    <3>6. Begins(d, n, g)
      BY <3>4, <3>5 DEF Begins
    <3> QED
      BY <2>2, <3>6
  <2> QED
    BY <2>3, <2>4
<1>3. Len(d.blocks) \in Nat /\ Len(d.blocks) <= Len(d.blocks)
  OBVIOUS
<1> QED
  BY <1>2, <1>3

LEMMA SizedIs ==
  ASSUME NEW d, d.blocks \in Seq([b : Blocks, n : Nat]), d.len \in Nat
  PROVE  \E f : /\ Begins(d, Len(d.blocks), f)
                /\ Sized(d) = [k \in 1..Len(d.blocks) |->
                     [b |-> d.blocks[k].b, start |-> f[k], n |-> SizeOf(d, k, f[k])]]
<1> DEFINE n == Len(d.blocks)
           Eq(f) == f = [k \in 1..n |->
                           IF k = 1 THEN 0 ELSE f[k - 1] + SizeOf(d, k - 1, f[k - 1])]
           Begin == CHOOSE f : Eq(f)
<1>1. \E f : Eq(f)
  <2>1. PICK f : Begins(d, n, f)
    BY BeginningsExist
  <2>2. f = [k \in 1..n |-> f[k]]
    BY <2>1 DEF Begins
  <2>3. Eq(f)
    BY <2>1, <2>2 DEF Begins
  <2> QED
    BY <2>3
<1>2. Eq(Begin)
  <2> HIDE DEF Eq
  <2> QED
    BY <1>1
<1>3. Sized(d) = [k \in 1..n |->
        [b |-> d.blocks[k].b, start |-> Begin[k], n |-> SizeOf(d, k, Begin[k])]]
  BY DEF Sized
<1> HIDE DEF Begin
<1>4. Begin = [k \in 1..n |->
                 IF k = 1 THEN 0 ELSE Begin[k - 1] + SizeOf(d, k - 1, Begin[k - 1])]
  BY <1>2
<1>5. \A k \in 1..n :
        Begin[k] = IF k = 1 THEN 0 ELSE Begin[k - 1] + SizeOf(d, k - 1, Begin[k - 1])
  BY <1>4
<1>6. \A k \in 1..n : Begin[k] \in Nat
  <2> DEFINE Bad == {k \in 1..n : Begin[k] \notin Nat}
  <2> SUFFICES ASSUME Bad # {} PROVE FALSE
    OBVIOUS
  <2>1. PICK k \in Bad : \A j \in Bad : k <= j
    <3>1. Bad \in SUBSET Nat
      OBVIOUS
    <3> HIDE DEF Bad
    <3> QED
      BY <3>1, HasLeast
  <2>2. k \in 1..n /\ Begin[k] \notin Nat
    OBVIOUS
  <2>3. CASE k = 1
    BY <1>5, <2>2, <2>3
  <2>4. CASE k # 1
    <3>1. k - 1 \in 1..n /\ ~(k <= k - 1)
      BY <2>2, <2>4
    <3>2. Begin[k - 1] \in Nat
      BY <2>1, <3>1
    <3>3. Begin[k - 1] + SizeOf(d, k - 1, Begin[k - 1]) \in Nat
      BY <3>1, <3>2, SizesAreNumbers
    <3>4. Begin[k] = Begin[k - 1] + SizeOf(d, k - 1, Begin[k - 1])
      BY <1>5, <2>2, <2>4
    <3> QED
      BY <2>2, <3>2, <3>3, <3>4
  <2> QED
    BY <2>3, <2>4
<1>7. Begin \in [1..n -> Nat]
  BY <1>4, <1>6
<1>8. Begins(d, n, Begin)
  BY <1>5, <1>7 DEF Begins
<1> QED
  BY <1>3, <1>8

(* bs are the first blocks of answer d, each where the one before it ends. *)
Follow(bs, d) ==
  \A k \in 1..Len(bs) :
    /\ bs[k].b = d.blocks[k].b
    /\ Valid(bs[k].b) => bs[k].n = d.blocks[k].n
    /\ bs[k].start = IF k = 1 THEN 0 ELSE bs[k - 1].start + bs[k - 1].n

(* service_lookup takes the blocks that fit into the prompt. *)
LEMMA FittingIs ==
  ASSUME NEW d, d.blocks \in Seq([b : Blocks, n : Nat]), d.len \in Nat, NEW N \in Nat,
         NEW bs, bs = Fitting(Sized(d), N)
  PROVE  /\ bs \in Seq([b : Blocks, start : Nat, n : Int]) /\ Len(bs) <= Len(d.blocks)
         /\ Total(bs) \in Nat /\ Total(bs) <= N /\ Follow(bs, d)
<1> DEFINE n == Len(d.blocks)
           sz == Sized(d)
           T == [b : Blocks, start : Nat, n : Int]
<1>1. PICK f : /\ Begins(d, n, f)
               /\ sz = [k \in 1..n |->
                          [b |-> d.blocks[k].b, start |-> f[k], n |-> SizeOf(d, k, f[k])]]
  BY SizedIs
<1>2. n \in Nat /\ \A k \in 1..n : d.blocks[k].b \in Blocks /\ d.blocks[k].n \in Nat
  <2>1. \A k \in 1..n : d.blocks[k] \in [b : Blocks, n : Nat]
    BY ElementOfSeq
  <2> QED
    BY <2>1
<1>3. \A k \in 1..n : /\ f[k] \in Nat /\ SizeOf(d, k, f[k]) \in Int
                      /\ f[k] + SizeOf(d, k, f[k]) \in Nat
  BY <1>1, SizesAreNumbers DEF Begins
<1> HIDE DEF n, sz
<1>4. \A k \in 1..n : /\ sz[k] = [b |-> d.blocks[k].b, start |-> f[k], n |-> SizeOf(d, k, f[k])]
                      /\ sz[k] \in T
  BY <1>1, <1>2, <1>3
<1>a. \A k \in 1..n : /\ sz[k].b = d.blocks[k].b /\ sz[k].start = f[k]
                      /\ sz[k].n = SizeOf(d, k, f[k])
  <2> TAKE k \in 1..n
  <2>1. sz[k] = [b |-> d.blocks[k].b, start |-> f[k], n |-> SizeOf(d, k, f[k])]
    BY <1>4
  <2> QED
    BY <2>1
<1>5. sz \in Seq(T) /\ Len(sz) = n
  <2>1. sz \in [1..n -> T]
    <3> HIDE DEF T
    <3> QED
      BY <1>1, <1>4
  <2> HIDE DEF T
  <2> QED
    BY <1>2, <2>1
<1> DEFINE fits(k) == \A j \in 1..k : sz[j].start + sz[j].n <= N
           K == {k \in 0..Len(sz) : fits(k)}
<1>6. PICK m \in K : bs = Prefix(sz, m)
  <2>1. 0 \in K /\ K \in SUBSET (0..n)
    BY <1>2, <1>5
  <2>2. bs = Prefix(sz, CHOOSE k \in K : \A j \in K : j <= k)
    BY DEF Fitting, sz
  <2> HIDE DEF K
  <2>3. \E k \in K : \A j \in K : j <= k
    BY <1>2, <2>1, HasGreatest
  <2> QED
    BY <2>2, <2>3
<1>7. m \in 0..n /\ \A j \in 1..m : j \in 1..n /\ sz[j].start + sz[j].n <= N
  BY <1>2, <1>5
<1> HIDE DEF K, T
<1>8. bs \in Seq(T) /\ Len(bs) = m /\ \A k \in 1..m : bs[k] = sz[k]
  BY <1>5, <1>6, <1>7, PrefixIs
<1>9. \A k \in 1..m : /\ bs[k].b = d.blocks[k].b /\ bs[k].start = f[k]
                      /\ bs[k].n = SizeOf(d, k, f[k])
  BY <1>a, <1>7, <1>8
<1>10. Total(bs) \in Nat /\ Total(bs) <= N
  <2>1. CASE m = 0
    <3>1. bs = <<>>
      BY <1>8, <2>1
    <3> QED
      BY <3>1 DEF Total
  <2>2. CASE m # 0
    <3>1. m \in 1..m
      BY <1>7, <2>2
    <3>2. bs # <<>> /\ Total(bs) = f[m] + SizeOf(d, m, f[m])
      BY <1>8, <1>9, <3>1 DEF Total
    <3>3. m \in 1..n /\ sz[m].start + sz[m].n <= N
      BY <1>7, <3>1
    <3>4. f[m] + SizeOf(d, m, f[m]) <= N /\ f[m] + SizeOf(d, m, f[m]) \in Nat
      BY <1>3, <1>a, <3>3
    <3> QED
      BY <3>2, <3>4
  <2> QED
    BY <2>1, <2>2
<1>11. ASSUME NEW k \in 1..m
       PROVE  /\ Valid(bs[k].b) => bs[k].n = d.blocks[k].n
              /\ bs[k].start = IF k = 1 THEN 0 ELSE bs[k - 1].start + bs[k - 1].n
  <2>1. Valid(bs[k].b) => bs[k].n = d.blocks[k].n
    BY <1>9 DEF SizeOf
  <2>2. f[k] = IF k = 1 THEN 0 ELSE f[k - 1] + SizeOf(d, k - 1, f[k - 1])
    BY <1>1, <1>7 DEF Begins
  <2>3. k # 1 => k - 1 \in 1..m
    BY <1>7
  <2> QED
    BY <1>9, <2>1, <2>2, <2>3
<1> QED
  BY <1>2, <1>7, <1>8, <1>9, <1>10, <1>11 DEF n, T, Follow

(* What is read by an answer whose blocks are all sound is what its hash says. *)
LEMMA CellIsExact ==
  ASSUME BlocksAreApart, IndexIsExact,
         NEW d, NEW p \in Seq(Tokens), LookupFits(d, p), d.len = 0 \/ d.hash = Prefix(p, d.len),
         NEW bs, bs = Fitting(Sized(d), Len(p)), \A k \in 1..Len(bs) : Sound(bs[k].b),
         NEW i \in 1..Total(bs)
  PROVE  Cell(bs, i) = Prefix(p, i)
<1> DEFINE K == Len(bs)
<1>1. /\ d.blocks \in Seq([b : Blocks, n : Nat]) /\ d.len \in 0..Len(p)
      /\ Len(p) \in Nat /\ d.len \in Nat /\ Len(d.blocks) \in Nat
  BY DEF LookupFits
<1>2. /\ bs \in Seq([b : Blocks, start : Nat, n : Int]) /\ K <= Len(d.blocks)
      /\ Total(bs) \in Nat /\ Total(bs) <= Len(p)
      /\ \A k \in 1..K :
           /\ bs[k].b = d.blocks[k].b
           /\ Valid(bs[k].b) => bs[k].n = d.blocks[k].n
           /\ bs[k].start = IF k = 1 THEN 0 ELSE bs[k - 1].start + bs[k - 1].n
  <2> DEFINE N == Len(p)
  <2>1. N \in Nat /\ bs = Fitting(Sized(d), N)
    BY <1>1
  <2> HIDE DEF N
  <2>2. Total(bs) <= N
    BY <1>1, <2>1, FittingIs
  <2>3. bs \in Seq([b : Blocks, start : Nat, n : Int]) /\ K <= Len(d.blocks) /\ Total(bs) \in Nat
    BY <1>1, <2>1, FittingIs
  <2>4. Follow(bs, d)
    BY <1>1, <2>1, FittingIs
  <2> QED
    BY <2>2, <2>3, <2>4 DEF N, Follow
<1>c. bs = Fitting(Sized(d), Len(p))
  OBVIOUS
<1>b. i \in Nat /\ i > 0 /\ i <= Total(bs) /\ i <= Len(p)
  BY <1>1, <1>2
<1>3. K \in Nat /\ \A k \in 1..K : bs[k].start \in Nat /\ bs[k].n \in Int
  <2>1. \A k \in 1..K : bs[k] \in [b : Blocks, start : Nat, n : Int]
    BY <1>2, ElementOfSeq
  <2> QED
    BY <1>2, <2>1
<1>4. \A e \in svc.index : /\ e.toks \in Seq(Tokens) /\ Ends(e) \in Nat /\ e.n \in Nat
                           /\ e.n <= Ends(e) /\ e.b \in Blocks
  BY DEF BlocksAreApart, IndexEntry, Ends
<1>5. \A k \in 1..K : \E e \in svc.index : e.b = bs[k].b /\ e.clean
  BY DEF Sound
<1>6. \A k \in 1..K : /\ k \in 1..Len(d.blocks) /\ Valid(bs[k].b)
                      /\ bs[k].b = d.blocks[k].b /\ bs[k].n = d.blocks[k].n
  <2>1. \A k \in 1..K : k \in 1..Len(d.blocks)
    BY <1>1, <1>2, <1>3
  <2>2. \A k \in 1..K : Valid(bs[k].b)
    BY <1>5 DEF Valid
  <2> QED
    BY <1>2, <2>1, <2>2
<1>7. \A e \in svc.index : \A k \in 1..K : e.b = bs[k].b =>
        /\ e.n = bs[k].n
        /\ k = 1 => Ends(e) = e.n
        /\ \A g \in svc.index : k > 1 /\ g.b = d.blocks[k - 1].b => Ends(e) - e.n = Ends(g)
        /\ \A j \in 1..Ends(e) : j <= Len(p) =>
             j <= d.len /\ Prefix(e.toks, j) = Prefix(d.hash, j)
  BY <1>6 DEF LookupFits
<1> HIDE DEF K
<1> DEFINE Right(k) == \A e \in svc.index : e.b = bs[k].b => Ends(e) = bs[k].start + bs[k].n
<1>8. \A k \in 1..K : Right(k)
  <2> DEFINE Bad == {k \in 1..K : ~Right(k)}
  <2> SUFFICES ASSUME Bad # {} PROVE FALSE
    OBVIOUS
  <2>1. PICK k \in Bad : \A j \in Bad : k <= j
    <3>1. Bad \in SUBSET Nat
      OBVIOUS
    <3> HIDE DEF Bad
    <3> QED
      BY <3>1, HasLeast
  <2>2. k \in 1..K /\ ~Right(k)
    OBVIOUS
  <2>3. PICK e \in svc.index : e.b = bs[k].b /\ Ends(e) # bs[k].start + bs[k].n
    BY <2>2
  <2>4. CASE k = 1
    <3>1. Ends(e) = e.n /\ e.n = bs[k].n
      BY <1>7, <2>2, <2>3, <2>4
    <3>2. bs[k].start = 0
      BY <1>2, <2>2, <2>4 DEF K
    <3> QED
      BY <1>3, <2>2, <2>3, <3>1, <3>2
  <2>5. CASE k # 1
    <3>1. k - 1 \in 1..K /\ ~(k <= k - 1) /\ k > 1
      BY <1>3, <2>2, <2>5
    <3>2. Right(k - 1)
      <4>1. k - 1 \notin Bad
        <5> HIDE DEF Bad
        <5> QED
          BY <2>1, <3>1
      <4> QED
        BY <3>1, <4>1
    <3>3. PICK g \in svc.index : g.b = bs[k - 1].b
      BY <1>5, <3>1
    <3>4. Ends(g) = bs[k - 1].start + bs[k - 1].n
      BY <3>2, <3>3
    <3>5. g.b = d.blocks[k - 1].b
      BY <1>6, <3>1, <3>3
    <3>6. Ends(e) - e.n = Ends(g) /\ e.n = bs[k].n
      BY <1>7, <2>2, <2>3, <3>1, <3>5
    <3>7. bs[k].start = bs[k - 1].start + bs[k - 1].n
      BY <1>2, <2>2, <2>5 DEF K
    <3> QED
      BY <1>3, <1>4, <2>2, <2>3, <3>4, <3>6, <3>7
  <2> QED
    BY <2>4, <2>5
<1> DEFINE covers(j) == bs[j].start < i /\ i <= bs[j].start + bs[j].n
<1>9. \E j \in 1..K : covers(j)
  <2> DEFINE S == {j \in 1..K : i <= bs[j].start + bs[j].n}
  <2>1. K \in S
    <3>1. bs # <<>>
      BY DEF Total
    <3>2. K \in 1..K
      BY <1>2, <1>3, <3>1 DEF K
    <3> QED
      BY <3>1, <3>2 DEF Total, K
  <2>2. PICK j \in S : \A m \in S : j <= m
    <3>1. S \in SUBSET Nat
      OBVIOUS
    <3> HIDE DEF S
    <3> QED
      BY <2>1, <3>1, HasLeast
  <2>3. j \in 1..K /\ i <= bs[j].start + bs[j].n
    OBVIOUS
  <2>4. bs[j].start < i
    <3>1. CASE j = 1
      BY <1>2, <2>3, <3>1 DEF K
    <3>2. CASE j # 1
      <4>1. j - 1 \in 1..K /\ ~(j <= j - 1)
        BY <1>3, <2>3, <3>2
      <4>2. j - 1 \notin S
        <5> HIDE DEF S
        <5> QED
          BY <2>2, <4>1
      <4>3. ~(i <= bs[j - 1].start + bs[j - 1].n)
        BY <4>1, <4>2
      <4>4. bs[j].start = bs[j - 1].start + bs[j - 1].n
        BY <1>2, <2>3, <3>2 DEF K
      <4> QED
        BY <1>b, <1>3, <4>1, <4>3, <4>4
    <3> QED
      BY <3>1, <3>2
  <2> QED
    BY <2>3, <2>4
<1> DEFINE k == CHOOSE j \in 1..K : covers(j)
<1>10. k \in 1..K /\ covers(k)
  <2> HIDE DEF covers
  <2> QED
    BY <1>9
<1>11. Cell(bs, i) = IF i - bs[k].start \in DOMAIN mem[bs[k].b]
                     THEN mem[bs[k].b][i - bs[k].start] ELSE <<>>
  BY DEF Cell, K
<1> HIDE DEF k
<1>12. PICK e \in svc.index : e.b = bs[k].b /\ e.clean
  BY <1>5, <1>10
<1>13. mem[e.b] = [j \in 1..e.n |-> Prefix(e.toks, Ends(e) - e.n + j)]
  BY <1>12 DEF IndexIsExact
<1>14. Ends(e) = bs[k].start + bs[k].n /\ e.n = bs[k].n
  BY <1>7, <1>8, <1>10, <1>12
<1>15. /\ i - bs[k].start \in 1..e.n /\ Ends(e) - e.n + (i - bs[k].start) = i
       /\ i \in 1..Ends(e) /\ i <= Len(p)
  <2>1. bs[k].start \in Nat /\ bs[k].n \in Int /\ e.n \in Nat /\ Ends(e) \in Nat
    BY <1>3, <1>4, <1>10
  <2> DEFINE at == bs[k].start
             m == bs[k].n
             en == e.n
             ends == Ends(e)
  <2>2. at \in Nat /\ m \in Int /\ en \in Nat /\ ends \in Nat
    BY <2>1
  <2>3. at < i /\ i <= at + m /\ ends = at + m /\ en = m
    BY <1>10, <1>14
  <2> HIDE DEF at, m, en, ends
  <2>4. i - at \in 1..en /\ ends - en + (i - at) = i /\ i \in 1..ends
    BY <1>b, <2>2, <2>3
  <2> QED
    BY <1>b, <2>4 DEF at, en, ends
<1>16. Cell(bs, i) = Prefix(e.toks, i)
  <2> DEFINE x == i - bs[k].start
             m == mem[bs[k].b]
  <2>1. m = [j \in 1..e.n |-> Prefix(e.toks, Ends(e) - e.n + j)]
    BY <1>12, <1>13
  <2>2. x \in 1..e.n /\ Ends(e) - e.n + x = i
    BY <1>15
  <2>3. Cell(bs, i) = IF x \in DOMAIN m THEN m[x] ELSE <<>>
    BY <1>11
  <2> HIDE DEF x, m
  <2>4. x \in DOMAIN m /\ m[x] = Prefix(e.toks, i)
    BY <2>1, <2>2
  <2> QED
    BY <2>3, <2>4
<1>17. i <= d.len /\ Prefix(e.toks, i) = Prefix(d.hash, i)
  BY <1>7, <1>10, <1>12, <1>15
<1>18. d.hash = Prefix(p, d.len) /\ i \in 0..d.len
  BY <1>1, <1>17
<1>19. Prefix(d.hash, i) = Prefix(p, i)
  BY <1>1, <1>18, PrefixOfPrefix
<1> QED
  BY <1>16, <1>17, <1>19

(* What the service answers to a lookup fits the prompt. *)
LEMMA LookupAnswerFits ==
  ASSUME BlocksAreApart, NEW p \in Seq(Tokens), NEW s \in Chains,
         NEW d, NEW len, len = Least(Len(Covered(s)), Len(p)),
         d = [blocks |-> [k \in 1..Len(s) |-> [b |-> s[k].b, n |-> s[k].n]],
              len |-> len, hash |-> Prefix(Covered(s), len)]
  PROVE  LookupFits(d, p)
<1> DEFINE n == Len(s)
           C == Covered(s)
<1>1. s \in Seq(svc.index) /\ s \in Seq(IndexEntry) /\ Contiguous(s)
  <2>1. PICK m \in 0..Cardinality(svc.index) : s \in [1..m -> svc.index]
    BY DEF Chains, SeqOf
  <2>2. m \in Nat
    BY <2>1
  <2>3. svc.index \subseteq IndexEntry
    BY DEF BlocksAreApart
  <2>4. s \in [1..m -> IndexEntry]
    BY <2>1, <2>3
  <2>5. s \in Seq(svc.index)
    BY <2>1, <2>2
  <2>6. s \in Seq(IndexEntry)
    BY <2>2, <2>4
  <2> QED
    BY <2>5, <2>6 DEF Chains
<1>2. n \in Nat /\ \A k \in 1..n : s[k] \in svc.index
  BY <1>1
<1>3. \A e \in svc.index : /\ e.toks \in Seq(Tokens) /\ e.n \in Nat /\ e.b \in Blocks
                           /\ Ends(e) \in Nat
  BY DEF BlocksAreApart, IndexEntry, Ends
<1>4. C \in Seq(Tokens) /\ (n # 0 => C = s[n].toks)
  <2>1. CASE n = 0
    BY <1>1, <2>1 DEF Covered
  <2>2. CASE n # 0
    <3>1. n \in 1..n /\ s # <<>>
      BY <1>2, <2>2
    <3> QED
      BY <1>2, <1>3, <3>1 DEF Covered
  <2> QED
    BY <2>1, <2>2
<1>5. \A k \in 1..n : IsPrefix(s[k].toks, C)
  <2> TAKE k \in 1..n
  <2>1. IsPrefix(s[k].toks, s[n].toks)
    BY <1>1, ChainCovers
  <2> QED
    BY <1>2, <1>4, <2>1
<1>6. len \in 0..Len(p) /\ len \in 0..Len(C) /\ (len = Len(p) \/ len = Len(C))
  BY <1>4 DEF Least
<1> HIDE DEF C
<1>7. /\ d.blocks = [k \in 1..n |-> [b |-> s[k].b, n |-> s[k].n]]
      /\ d.len = len /\ d.hash = Prefix(C, len)
  BY DEF C
<1> HIDE DEF n
<1>8. /\ d.blocks \in Seq([b : Blocks, n : Nat]) /\ Len(d.blocks) = n
      /\ \A k \in 1..n : d.blocks[k].b = s[k].b /\ d.blocks[k].n = s[k].n
  <2>1. \A k \in 1..n : [b |-> s[k].b, n |-> s[k].n] \in [b : Blocks, n : Nat]
    BY <1>2, <1>3
  <2>2. d.blocks \in [1..n -> [b : Blocks, n : Nat]]
    BY <1>7, <2>1
  <2>3. d.blocks \in Seq([b : Blocks, n : Nat]) /\ Len(d.blocks) = n
    BY <1>2, <2>2
  <2> QED
    BY <1>7, <2>3
<1>9. ASSUME NEW e \in svc.index, NEW k \in 1..n, e.b = d.blocks[k].b
      PROVE  /\ e.n = d.blocks[k].n
             /\ k = 1 => Ends(e) = e.n
             /\ \A f \in svc.index : k > 1 /\ f.b = d.blocks[k - 1].b => Ends(e) - e.n = Ends(f)
             /\ \A i \in 1..Ends(e) : i <= Len(p) =>
                  i <= d.len /\ Prefix(e.toks, i) = Prefix(d.hash, i)
  <2>1. e = s[k]
    BY <1>2, <1>8, <1>9 DEF BlocksAreApart
  <2>2. Ends(s[k]) - s[k].n = IF k = 1 THEN 0 ELSE Ends(s[k - 1])
    BY <1>1 DEF Contiguous, n
  <2>3. e.n = d.blocks[k].n
    BY <1>8, <2>1
  <2>4. k = 1 => Ends(e) = e.n
    BY <1>3, <2>1, <2>2
  <2>5. ASSUME NEW f \in svc.index, k > 1, f.b = d.blocks[k - 1].b
        PROVE  Ends(e) - e.n = Ends(f)
    <3>1. k - 1 \in 1..n
      BY <1>2, <2>5
    <3>2. f = s[k - 1]
      BY <1>2, <1>8, <2>5, <3>1 DEF BlocksAreApart
    <3> QED
      BY <2>1, <2>2, <2>5, <3>2
  <2>6. ASSUME NEW i \in 1..Ends(e), i <= Len(p)
        PROVE  i <= d.len /\ Prefix(e.toks, i) = Prefix(d.hash, i)
    <3>1. e.toks \in Seq(Tokens) /\ i \in 0..Len(e.toks) /\ IsPrefix(e.toks, C)
      BY <1>3, <1>5, <2>1 DEF Ends
    <3>2. Len(e.toks) <= Len(C)
      BY <3>1 DEF IsPrefix
    <3>3. i \in 0..len
      BY <1>4, <1>6, <2>6, <3>1, <3>2
    <3>4. Prefix(e.toks, i) = Prefix(C, i)
      BY <1>4, <3>1, SamePrefix, Zenon
    <3>5. Prefix(d.hash, i) = Prefix(C, i)
      <4>1. C \in Seq(Tokens) /\ len \in 0..Len(C) /\ i \in 0..len /\ d.hash = Prefix(C, len)
        BY <1>4, <1>6, <1>7, <3>3
      <4>2. Prefix(Prefix(C, len), i) = Prefix(C, i)
        BY <4>1, PrefixOfPrefix, Zenon
      <4> QED
        BY <4>1, <4>2, Zenon
    <3> QED
      BY <1>7, <3>3, <3>4, <3>5
  <2> QED
    BY <2>3, <2>4, <2>5, <2>6
<1> QED
  BY <1>6, <1>7, <1>8, <1>9 DEF LookupFits

(* Blocks that are allocated are of nobody. *)
LEMMA AllocatedAreFresh ==
  ASSUME NEW n \in Nat, NEW free, free = Blocks \ InUse, n <= Cardinality(free),
         NEW ids, ids = Prefix(SetToSeq(free), n)
  PROVE  Fresh(ids) /\ Len(ids) = n
<1> DEFINE q == SetToSeq(free)
           m == Cardinality(free)
<1>1. IsFiniteSet(free)
  BY NumbersAssumption, FS_Subset
<1>2. m \in Nat /\ n <= m /\ \E f \in [1..m -> free] : IsInjective(f)
  BY <1>1, FS_CardinalityType DEF ExistsBijection, Bijection, Injection
<1>3. q \in [1..m -> free] /\ IsInjective(q)
  BY <1>2 DEF SetToSeq
<1> HIDE DEF q, m
<1>4. q \in Seq(free) /\ Len(q) = m
  BY <1>2, <1>3
<1>5. ids \in Seq(free) /\ Len(ids) = n /\ \A i \in 1..n : ids[i] = q[i] /\ i \in 1..m
  <2>1. n \in 0..Len(q) /\ \A i \in 1..n : i \in 1..m
    BY <1>2, <1>4
  <2>2. /\ Prefix(q, n) \in Seq(free) /\ Len(Prefix(q, n)) = n
        /\ \A i \in 1..n : Prefix(q, n)[i] = q[i]
    BY <1>4, <2>1, PrefixIs, Zenon
  <2>3. ids = Prefix(q, n)
    BY DEF q
  <2> QED
    BY <2>1, <2>2, <2>3
<1>6. Distinct(ids)
  <2>1. \A a, b \in 1..m : q[a] = q[b] => a = b
    BY <1>3 DEF IsInjective
  <2>2. \A j, k \in 1..n : ids[j] = ids[k] => j = k
    BY <1>5, <2>1
  <2>3. Len(ids) = n
    BY <1>5
  <2> QED
    BY <2>2, <2>3, Zenon DEF Distinct
<1>7. \A k \in 1..n : Unused(ids[k])
  <2>1. \A k \in 1..n : ids[k] \in free
    BY <1>5
  <2> QED
    BY <2>1 DEF Unused, InUse
<1>8. ids \in Seq(Blocks)
  BY <1>5
<1> QED
  BY <1>5, <1>6, <1>7, <1>8 DEF Fresh

(* Storing keeps the index exact and the blocks apart. *)
LEMMA StoreKeepsIndex ==
  ASSUME BlocksAreApart, IndexIsExact, NEW st, StoreFits(st), Acceptable(st),
         svc' = [svc EXCEPT !.index = @ \cup Stored(st), !.reserved = @ \ ToSet(st.ids)],
         UNCHANGED mem
  PROVE  BlocksAreApart' /\ IndexIsExact'
<1> DEFINE ids == st.ids
           end(k) == Least(st.cached + k * BlockSize, Len(st.tokens))
           from(k) == st.cached + (k - 1) * BlockSize
           entry(k) == [toks |-> Prefix(st.tokens, end(k)), n |-> end(k) - from(k),
                        b |-> ids[k], clean |-> st.clean]
<1>1. /\ st.tokens \in Seq(Tokens) /\ st.cached \in Nat /\ st.clean \in BOOLEAN
      /\ ids \in Seq(Blocks) /\ Distinct(ids) /\ Len(ids) \in Nat
      /\ \A k \in 1..Len(ids) : from(k) < Len(st.tokens)
      /\ \A k \in 1..Len(ids) : ids[k] \in svc.reserved /\ ids[k] \in Blocks
  BY DEF StoreFits, Acceptable
<1>2. /\ svc'.index = svc.index \cup {entry(k) : k \in 1..Len(ids)}
      /\ svc'.reserved = svc.reserved \ {ids[k] : k \in 1..Len(ids)}
      /\ DOMAIN svc' = {"up", "index", "reserved", "known"}
  <2>1. Stored(st) = {entry(k) : k \in 1..Len(ids)}
    BY DEF Stored
  <2>2. ToSet(ids) = {ids[k] : k \in 1..Len(ids)}
    <3>1. DOMAIN ids = 1..Len(ids)
      BY <1>1
    <3> QED
      BY <3>1 DEF ToSet
  <2> HIDE DEF entry, ids
  <2> QED
    BY <2>1, <2>2 DEF BlocksAreApart, ids
<1>3. ASSUME NEW k \in 1..Len(ids)
      PROVE  /\ from(k) \in Nat /\ end(k) \in 0..Len(st.tokens) /\ from(k) < end(k)
             /\ entry(k).toks \in Seq(Tokens) /\ Ends(entry(k)) = end(k)
             /\ entry(k) \in IndexEntry /\ entry(k).n <= Len(entry(k).toks)
             /\ entry(k).b = ids[k] /\ entry(k).n = end(k) - from(k)
             /\ entry(k).clean = st.clean
  <2>1. k * BlockSize = (k - 1) * BlockSize + BlockSize /\ (k - 1) * BlockSize \in Nat
    <3>1. BlockSize \in Nat /\ k \in Nat /\ k - 1 \in Nat
      BY <1>1, NumbersAssumption
    <3> QED
      BY <3>1
  <2>2. from(k) \in Nat /\ end(k) \in 0..Len(st.tokens) /\ from(k) < end(k)
    <3> DEFINE x == (k - 1) * BlockSize
               y == k * BlockSize
    <3>1. x \in Nat /\ y = x + BlockSize /\ BlockSize \in Nat /\ BlockSize > 0
      BY <2>1, NumbersAssumption
    <3>2. st.cached + x < Len(st.tokens)
      BY <1>1
    <3> HIDE DEF x, y
    <3>3. st.cached + x \in Nat /\ Least(st.cached + y, Len(st.tokens)) \in 0..Len(st.tokens)
          /\ st.cached + x < Least(st.cached + y, Len(st.tokens))
      BY <1>1, <3>1, <3>2 DEF Least
    <3> QED
      BY <3>3 DEF x, y
  <2> HIDE DEF from, end
  <2>3. Prefix(st.tokens, end(k)) \in Seq(Tokens) /\ Len(Prefix(st.tokens, end(k))) = end(k)
    BY <1>1, <2>2, PrefixIs
  <2>4. end(k) - from(k) \in Nat /\ end(k) - from(k) <= end(k)
    BY <2>2
  <2> QED
    BY <1>1, <2>2, <2>3, <2>4 DEF IndexEntry, Ends
<1> HIDE DEF entry, ids
<1>4. ASSUME NEW e \in svc'.index, NEW f \in svc'.index, e.b = f.b PROVE e = f
  <2>1. \A k \in 1..Len(ids) : \A g \in svc.index : g.b # entry(k).b
    BY <1>1, <1>3 DEF BlocksAreApart, Unused
  <2>2. \A j, k \in 1..Len(ids) : entry(j).b = entry(k).b => j = k
    <3>1. \A j \in 1..Len(ids) : entry(j).b = ids[j]
      BY <1>3
    <3> QED
      BY <1>1, <3>1 DEF Distinct
  <2>3. CASE e \in svc.index
    BY <1>2, <1>4, <2>1, <2>3 DEF BlocksAreApart
  <2>4. CASE e \notin svc.index
    BY <1>2, <1>4, <2>1, <2>2, <2>4
  <2> QED
    BY <2>3, <2>4
<1>5. ASSUME NEW b \in svc'.reserved
      PROVE  b \in Blocks /\ \A e \in svc'.index : e.b # b
  <2>1. b \in svc.reserved /\ \A k \in 1..Len(ids) : entry(k).b # b
    BY <1>2, <1>3
  <2> QED
    BY <1>2, <2>1 DEF BlocksAreApart, Unused
<1>6. ASSUME NEW e \in svc'.index PROVE e \in IndexEntry /\ e.n <= Len(e.toks)
  BY <1>2, <1>3 DEF BlocksAreApart
<1>7. BlocksAreApart'
  BY <1>2, <1>4, <1>5, <1>6 DEF BlocksAreApart, Unused
<1>8. ASSUME NEW k \in 1..Len(ids), st.clean
      PROVE  mem[ids[k]] = [i \in 1..entry(k).n |->
                              Prefix(entry(k).toks, Ends(entry(k)) - entry(k).n + i)]
  <2>1. mem[ids[k]] = [j \in 1..(end(k) - from(k)) |-> Prefix(st.tokens, from(k) + j)]
    BY <1>8 DEF StoreFits, Holds, ids
  <2>2. /\ from(k) \in Nat /\ end(k) \in 0..Len(st.tokens) /\ Ends(entry(k)) = end(k)
        /\ entry(k).n = end(k) - from(k) /\ entry(k).toks = Prefix(st.tokens, end(k))
    BY <1>3 DEF entry
  <2> HIDE DEF end, from
  <2>3. \A i \in 1..(end(k) - from(k)) :
          Prefix(st.tokens, from(k) + i) = Prefix(entry(k).toks, Ends(entry(k)) - entry(k).n + i)
    <3> TAKE i \in 1..(end(k) - from(k))
    <3>1. from(k) + i \in 0..end(k) /\ end(k) - (end(k) - from(k)) + i = from(k) + i
      BY <2>2
    <3>2. Prefix(Prefix(st.tokens, end(k)), from(k) + i) = Prefix(st.tokens, from(k) + i)
      BY <1>1, <2>2, <3>1, PrefixOfPrefix
    <3> QED
      BY <2>2, <3>1, <3>2
  <2> QED
    BY <2>1, <2>2, <2>3
<1>9. IndexIsExact'
  <2>1. ASSUME NEW e \in svc'.index, e.clean
        PROVE  mem[e.b] = [i \in 1..e.n |-> Prefix(e.toks, Ends(e) - e.n + i)]
    <3>1. CASE e \in svc.index
      BY <2>1, <3>1 DEF IndexIsExact
    <3>2. CASE e \notin svc.index
      BY <1>2, <1>3, <1>8, <2>1, <3>2
    <3> QED
      BY <3>1, <3>2
  <2> QED
    BY <2>1 DEF IndexIsExact, Ends
<1> QED
  BY <1>7, <1>9

-----------------------------------------------------------------------------
(* What is written.                                                        *)
LEMMA UnitIsExact ==
  ASSUME GenIsTyped, HostIsExact, gen.phase = "write", ~gen.spoiled, NEW i \in 1..Len(gen.all)
  PROVE  Unit(i) = Prefix(gen.all, i)
<1>1. /\ gen.prompt \in Seq(Tokens) /\ gen.all \in Seq(Tokens) /\ IsPrefix(gen.prompt, gen.all)
      /\ Exact /\ Len(gen.host) \in 0..Len(gen.prompt)
  BY DEF GenIsTyped, HostIsExact
<1>2. CASE i <= Len(gen.host)
  <2>1. i \in 1..Len(gen.host) /\ i \in 0..Len(gen.prompt)
    BY <1>1, <1>2
  <2>2. gen.host[i] = Prefix(gen.prompt, i)
    BY <1>1, <2>1 DEF Exact
  <2>3. Prefix(gen.prompt, i) = Prefix(gen.all, i)
    BY <1>1, <2>1, SamePrefix
  <2> QED
    BY <1>2, <2>2, <2>3 DEF Unit
<1>3. CASE ~(i <= Len(gen.host))
  BY <1>1, <1>3 DEF Unit
<1> QED
  BY <1>2, <1>3

(* The first token of the k-th new block, and the one after its last. *)
LEMMA ChunkBounds ==
  ASSUME NEW n \in Nat, NEW c \in Nat, c < n, NEW k \in 1..NumBlocks(n - c)
  PROVE  /\ c + (k - 1) * BlockSize \in Nat /\ c + (k - 1) * BlockSize < n
         /\ Least(c + k * BlockSize, n) \in 0..n
<1>1. n - c \in Nat /\ k \in Nat /\ k - 1 \in Nat /\ BlockSize \in Nat
  <2>1. NumBlocks(n - c) \in Int
    BY NumbersAssumption DEF NumBlocks
  <2> QED
    BY <2>1, NumbersAssumption
<1>2. (k - 1) * BlockSize < n - c
  BY <1>1, BlocksAreNeeded
<1>3. (k - 1) * BlockSize \in Nat /\ k * BlockSize \in Nat
  BY <1>1
<1> QED
  BY <1>2, <1>3 DEF Least

LEMMA CopyIsReady ==
  ASSUME BlocksAreApart, GenIsTyped, HostIsExact, gen.phase = "write",
         gen.cached < Len(gen.all), Fresh(gen.new),
         Len(gen.new) = NumBlocks(Len(gen.all) - gen.cached),
         mem' = [b \in Blocks |->
                   IF \E k \in 1..Len(gen.new) : gen.new[k] = b
                   THEN Chunk(CHOOSE k \in 1..Len(gen.new) : gen.new[k] = b) ELSE mem[b]],
         NEW st, st = [tokens |-> gen.all, cached |-> gen.cached, ids |-> gen.new,
                       clean |-> ~gen.spoiled]
  PROVE  StoreFits(st)' /\ (\A e \in svc.index : mem'[e.b] = mem[e.b]) /\ DOMAIN mem' = Blocks
<1> DEFINE ids == gen.new
           n == Len(gen.all)
           c == gen.cached
<1>1. /\ st.tokens = gen.all /\ st.cached = c /\ st.ids = ids /\ st.clean = ~gen.spoiled
      /\ st.clean \in BOOLEAN
  OBVIOUS
<1>2. /\ gen.all \in Seq(Tokens) /\ n \in Nat /\ c \in Nat /\ c < n
      /\ ids \in Seq(Blocks) /\ Distinct(ids) /\ Len(ids) = NumBlocks(n - c)
  BY DEF GenIsTyped, Fresh
<1>3. \A k \in 1..Len(ids) : /\ c + (k - 1) * BlockSize \in Nat /\ c + (k - 1) * BlockSize < n
                             /\ Least(c + k * BlockSize, n) \in 0..n
  BY <1>2, ChunkBounds
<1>4. \A k \in 1..Len(ids) : mem'[ids[k]] = Chunk(k)
  <2> TAKE k \in 1..Len(ids)
  <2>1. ids[k] \in Blocks
    BY <1>2, ElementOfSeq
  <2>2. k = CHOOSE j \in 1..Len(ids) : ids[j] = ids[k]
    BY <1>2 DEF Distinct
  <2> QED
    BY <2>1, <2>2
<1>5. \A e \in svc.index : mem'[e.b] = mem[e.b]
  <2> TAKE e \in svc.index
  <2>1. e.b \in Blocks /\ \A k \in 1..Len(ids) : ids[k] # e.b
    BY DEF BlocksAreApart, IndexEntry, Fresh, Unused
  <2> QED
    BY <2>1
<1>6. DOMAIN mem' = Blocks
  OBVIOUS
<1> DEFINE from(k) == c + (k - 1) * BlockSize
           size(k) == Least(c + k * BlockSize, n) - from(k)
<1>7. ASSUME ~gen.spoiled, NEW k \in 1..Len(ids)
      PROVE  mem'[ids[k]] = [j \in 1..size(k) |-> Prefix(gen.all, from(k) + j)]
  <2>1. mem'[ids[k]] = [j \in 1..size(k) |-> Unit(from(k) + j)]
    BY <1>4 DEF Chunk
  <2>2. from(k) \in Nat /\ from(k) < n /\ from(k) + size(k) <= n /\ size(k) \in Int
    <3> DEFINE l == Least(c + k * BlockSize, n)
    <3>1. from(k) \in Nat /\ from(k) < n /\ l \in 0..n
      BY <1>3
    <3> HIDE DEF l, from
    <3>2. size(k) = l - from(k)
      BY DEF l
    <3> QED
      BY <1>2, <3>1, <3>2
  <2> HIDE DEF from, size
  <2>3. \A j \in 1..size(k) : Unit(from(k) + j) = Prefix(gen.all, from(k) + j)
    <3> TAKE j \in 1..size(k)
    <3>1. from(k) + j \in 1..n
      BY <1>2, <2>2
    <3> QED
      BY <1>7, <3>1, UnitIsExact
  <2> QED
    BY <2>1, <2>3
<1> HIDE DEF ids, n, c
<1>8. st.clean => \A k \in 1..Len(ids) : Holds(st, k)'
  <2> SUFFICES ASSUME st.clean, NEW k \in 1..Len(ids) PROVE Holds(st, k)'
    OBVIOUS
  <2>1. mem'[ids[k]] = [j \in 1..(Least(c + k * BlockSize, n) - (c + (k - 1) * BlockSize)) |->
                          Prefix(gen.all, c + (k - 1) * BlockSize + j)]
    BY <1>1, <1>7
  <2>2. st.tokens = gen.all /\ st.cached = c /\ st.ids = ids /\ Len(st.tokens) = n
    BY <1>1 DEF n
  <2>3. mem'[st.ids[k]] =
          [j \in 1..(Least(st.cached + k * BlockSize, Len(st.tokens)) -
                     (st.cached + (k - 1) * BlockSize)) |->
             Prefix(st.tokens, st.cached + (k - 1) * BlockSize + j)]
    BY <2>1, <2>2, Zenon
  <2> QED
    BY <2>3 DEF Holds
<1>9. StoreFits(st)'
  <2>1. \A k \in 1..Len(st.ids) : st.cached + (k - 1) * BlockSize < Len(st.tokens)
    BY <1>1, <1>3 DEF n
  <2> QED
    BY <1>1, <1>2, <1>8, <2>1 DEF StoreFits, n
<1> QED
  BY <1>5, <1>6, <1>9

-----------------------------------------------------------------------------
(* Steps that leave the data of a generate alone.                          *)
Looking == pc[Engine] = "read" \/ On("Lookup")

(* Another thread moves. *)
Stays ==
  /\ pc'[Engine] = pc[Engine] /\ call'[Engine] = call[Engine] /\ reply'[Engine] = reply[Engine]
  /\ UNCHANGED <<gen, mem, svc>>
  /\ Looking => entries'[gen.entry] = entries[gen.entry]
  /\ wake' = Engine => wake = Engine /\ sock'.answers = sock.answers

LEMMA OthersKeepRest ==
  ASSUME Rest, Stays
  PROVE  Rest'
<1>1. /\ Calling' <=> Calling
      /\ \A m : On(m)' <=> On(m)
      /\ Looking' <=> Looking
  BY DEF Stays, Calling, On, Looking
<1>2. BlocksAreApart' /\ IndexIsExact' /\ GenIsTyped' /\ HostIsExact'
  BY DEF Stays, Rest, BlocksAreApart, IndexIsExact, GenIsTyped, HostIsExact, Unused, Exact
<1>3. \A r, d : Fits(r, d) => Fits(r, d)'
  BY DEF Stays, Fits, LookupFits, Fresh, Unused
<1>4. AnswersFit'
  <2>1. pc'[Engine] = "got" /\ reply'[Engine].ok => Fits(call'[Engine], reply'[Engine].data)
    BY DEF Stays, Rest, AnswersFit
  <2>2. wake' = Engine /\ sock'.answers # <<>> /\ sock'.answers[1].ok =>
          Fits(call'[Engine], sock'.answers[1].data)
    BY DEF Stays, Rest, AnswersFit
  <2> QED
    BY <1>3, <2>1, <2>2 DEF AnswersFit
<1>5. EntryIsOurs' /\ ReadIsReady'
  BY <1>1 DEF Stays, Rest, EntryIsOurs, ReadIsReady, Looking, Cell
<1>6. Phases' /\ WriteIsReady'
  BY <1>1 DEF Stays, Rest, Phases, WriteIsReady, Writing, Fresh, Unused
<1>7. StoreIsReady'
  BY <1>1 DEF Stays, Rest, StoreIsReady, StoreFits, Holds
<1> QED
  BY <1>2, <1>4, <1>5, <1>6, <1>7 DEF Rest

(* The call of the generating thread goes on, or comes back. *)
LEMMA CallGoesOn ==
  ASSUME Rest, pc[Engine] \in {"lock", "recv"}, pc'[Engine] \in {"recv", "got"},
         call'[Engine] = call[Engine], UNCHANGED <<gen, mem, svc, entries>>, AnswersFit'
  PROVE  Rest'
<1>1. Calling /\ Calling' /\ \A m : On(m)' <=> On(m)
  BY DEF Calling, On
<1>2. BlocksAreApart' /\ IndexIsExact' /\ GenIsTyped' /\ HostIsExact'
  BY DEF Rest, BlocksAreApart, IndexIsExact, GenIsTyped, HostIsExact, Unused, Exact
<1>3. EntryIsOurs' /\ ReadIsReady'
  BY <1>1 DEF Rest, EntryIsOurs, ReadIsReady
<1>4. Phases' /\ WriteIsReady'
  BY <1>1 DEF Rest, Phases, WriteIsReady, Writing
<1>5. StoreIsReady'
  BY <1>1 DEF Rest, StoreIsReady, StoreFits, Holds
<1> QED
  BY <1>2, <1>3, <1>4, <1>5 DEF Rest

(* The service answers, and loses or reserves blocks: it gets no new entry. *)
LEMMA ServiceKeepsRest ==
  ASSUME Rest, UNCHANGED <<pc, call, reply, wake, gen, mem, entries>>,
         DOMAIN svc' = DOMAIN svc, svc'.index \subseteq svc.index,
         \A b \in svc'.reserved : b \in Blocks /\ Unused(b),
         wake = Engine /\ sock'.answers # <<>> /\ sock'.answers[1].ok =>
           Fits(call[Engine], sock'.answers[1].data)
  PROVE  Rest'
<1>1. \A m : On(m)' <=> On(m)
  BY DEF Calling, On
<1>2. BlocksAreApart' /\ IndexIsExact' /\ GenIsTyped' /\ HostIsExact'
  BY DEF Rest, BlocksAreApart, IndexIsExact, GenIsTyped, HostIsExact, Unused, Exact
<1>3. /\ \A ids : Fresh(ids) => Fresh(ids)'
      /\ \A r, d : Fits(r, d) => Fits(r, d)'
  <2>1. \A ids : Fresh(ids) => Fresh(ids)'
    BY DEF Fresh, Unused
  <2>2. \A d, p : LookupFits(d, p) => LookupFits(d, p)'
    <3> SUFFICES ASSUME NEW d, NEW p, LookupFits(d, p) PROVE LookupFits(d, p)'
      OBVIOUS
    <3>1. d.blocks \in Seq([b : Blocks, n : Nat]) /\ d.len \in 0..Len(p)
      BY DEF LookupFits
    <3>2. ASSUME NEW e \in svc'.index, NEW k \in 1..Len(d.blocks), e.b = d.blocks[k].b
          PROVE  /\ e.n = d.blocks[k].n
                 /\ k = 1 => Ends(e) = e.n
                 /\ \A f \in svc'.index : k > 1 /\ f.b = d.blocks[k - 1].b =>
                      Ends(e) - e.n = Ends(f)
                 /\ \A i \in 1..Ends(e) : i <= Len(p) =>
                      i <= d.len /\ Prefix(e.toks, i) = Prefix(d.hash, i)
      <4>1. e \in svc.index
        OBVIOUS
      <4>2. e.n = d.blocks[k].n /\ (k = 1 => Ends(e) = e.n)
        BY <3>2, <4>1 DEF LookupFits
      <4>3. \A f \in svc'.index : k > 1 /\ f.b = d.blocks[k - 1].b => Ends(e) - e.n = Ends(f)
        BY <3>2, <4>1 DEF LookupFits
      <4>4. \A i \in 1..Ends(e) : i <= Len(p) =>
              i <= d.len /\ Prefix(e.toks, i) = Prefix(d.hash, i)
        BY <3>2, <4>1 DEF LookupFits
      <4> QED
        BY <4>2, <4>3, <4>4
    <3> QED
      BY <3>1, <3>2 DEF LookupFits, Ends
  <2> QED
    BY <2>1, <2>2 DEF Fits
<1>4. AnswersFit'
  BY <1>3 DEF Rest, AnswersFit
<1>5. EntryIsOurs' /\ ReadIsReady'
  BY <1>1 DEF Rest, EntryIsOurs, ReadIsReady, Cell
<1>6. Phases' /\ WriteIsReady'
  BY <1>1, <1>3 DEF Rest, Phases, WriteIsReady, Writing
<1>7. StoreIsReady'
  BY <1>1 DEF Rest, StoreIsReady, StoreFits, Holds
<1> QED
  BY <1>2, <1>4, <1>5, <1>6, <1>7 DEF Rest

-----------------------------------------------------------------------------
(* The service.                                                            *)
LEMMA AnswerGoesOut ==
  ASSUME Wire, ~sock.broken, sock.reqs # <<>>, NEW a, Replies(a)
  PROVE  /\ wake \in Threads /\ pc[wake] = "recv" /\ Head(sock.reqs) = call[wake]
         /\ sock'.answers[1] = a
<1>1. wake # Nobody /\ sock.reqs = <<call[wake]>> /\ sock.answers = <<>>
  BY DEF Wire, SocketOwner
<1>2. wake \in Threads /\ pc[wake] = "recv"
  BY <1>1 DEF Wire, WakeHasOwner, SocketOwner
<1>3. Head(sock.reqs) = call[wake]
  BY <1>1
<1>4. \A b : Append(<<>>, b) = <<b>>
  OBVIOUS
<1>5. sock'.answers = Append(sock.answers, a)
  BY DEF Replies, Wire, Shape
<1>6. sock'.answers = <<a>>
  BY <1>1, <1>4, <1>5, Zenon
<1> QED
  BY <1>2, <1>3, <1>6

LEMMA ServeKeepsRest ==
  ASSUME Wire, CallsAreTyped, Rest, Serve
  PROVE  Rest'
<1> DEFINE r == call[wake]
<1>1. /\ ~sock.broken /\ sock.reqs # <<>> /\ Execute(Head(sock.reqs))
      /\ UNCHANGED <<pc, call, reply, wake, gen, mem, entries>>
  BY DEF Serve, engineVars
<1>2. wake \in Threads /\ pc[wake] = "recv" /\ Head(sock.reqs) = r
  <2>1. wake # Nobody /\ sock.reqs = <<r>>
    BY <1>1 DEF Wire, SocketOwner
  <2> QED
    BY <2>1 DEF Wire, WakeHasOwner, SocketOwner
<1>3. \A a : Replies(a) => sock'.answers[1] = a
  BY <1>1, AnswerGoesOut
<1> HIDE DEF r
<1>4. Execute(r)
  BY <1>1, <1>2
<1>5. r.m \in {"GetConfig", "Lookup", "Allocate", "Store"} => wake = Engine
  <2>1. CASE wake \in Clients
    BY <1>2, <2>1 DEF CallsAreTyped, SessionMethods, r
  <2>2. CASE wake = Beat
    BY <1>2, <2>2 DEF CallsAreTyped, r
  <2> QED
    BY <1>2, <2>1, <2>2 DEF Threads
<1>6. wake = Engine => r = call[Engine] /\ pc[Engine] = "recv" /\ On(r.m)
  BY <1>2 DEF On, Calling, r
<1>7. ASSUME UNCHANGED svc \/ svc' = [svc EXCEPT !.known = TRUE],
             NEW a, Replies(a), wake = Engine /\ a.ok => Fits(r, a.data)
      PROVE  Rest'
  <2>1. /\ DOMAIN svc' = DOMAIN svc /\ svc'.index = svc.index /\ svc'.reserved = svc.reserved
    BY <1>7 DEF Rest, BlocksAreApart
  <2>2. \A b \in svc'.reserved : b \in Blocks /\ Unused(b)
    BY <2>1 DEF Rest, BlocksAreApart
  <2> QED
    BY <1>1, <1>3, <1>6, <1>7, <2>1, <2>2, ServiceKeepsRest
<1>8. CASE /\ r.m \in {"CreateSession", "ResetSession", "CloseSession", "Heartbeat"}
           /\ Replies(Answer(r, TRUE, <<>>)) /\ UNCHANGED svc
  BY <1>7, <1>8 DEF Fits
<1>9. CASE /\ r.m = "GetConfig"
           /\ svc' = [svc EXCEPT !.known = TRUE]
           /\ Replies(Answer(r, TRUE, ArenaName))
  BY <1>7, <1>9 DEF Fits, Answer
<1>10. CASE r.m = "Lookup" /\ (\E a \in LookupAnswers(r) : Replies(a)) /\ UNCHANGED svc
  <2>1. PICK a \in LookupAnswers(r) : Replies(a)
    BY <1>10
  <2>2. r.arg = gen.prompt /\ gen.prompt \in Seq(Tokens)
    BY <1>5, <1>6, <1>10 DEF Rest, EntryIsOurs, GenIsTyped
  <2>3. PICK s \in Chains :
          LET len == Least(Len(Covered(s)), Len(r.arg))
          IN  a = Answer(r, TRUE, [blocks |-> [k \in 1..Len(s) |-> [b |-> s[k].b, n |-> s[k].n]],
                                   len |-> len, hash |-> Prefix(Covered(s), len)])
    BY <2>1 DEF LookupAnswers
  <2>4. LookupFits(a.data, r.arg)
    <3> DEFINE len == Least(Len(Covered(s)), Len(r.arg))
               d == [blocks |-> [k \in 1..Len(s) |-> [b |-> s[k].b, n |-> s[k].n]],
                     len |-> len, hash |-> Prefix(Covered(s), len)]
    <3>1. a = Answer(r, TRUE, d)
      BY <2>3
    <3>2. LookupFits(d, r.arg)
      BY <2>2, LookupAnswerFits DEF Rest
    <3> HIDE DEF d
    <3> QED
      BY <3>1, <3>2 DEF Answer
  <2>5. Fits(r, a.data)
    BY <1>10, <2>4 DEF Fits
  <2> QED
    BY <1>7, <1>10, <2>1, <2>5
<1>11. CASE /\ r.m = "Allocate"
            /\ LET free == Blocks \ InUse IN
               IF Cardinality(free) < r.arg THEN Replies(Answer(r, FALSE, <<>>)) /\ UNCHANGED svc
               ELSE LET ids == Prefix(SetToSeq(free), r.arg)
                    IN  /\ Replies(Answer(r, TRUE, ids))
                        /\ svc' = [svc EXCEPT !.reserved = @ \cup ToSet(ids)]
  <2> DEFINE free == Blocks \ InUse
             ids == Prefix(SetToSeq(free), r.arg)
  <2>1. CASE Cardinality(free) < r.arg
    <3>1. Replies(Answer(r, FALSE, <<>>)) /\ UNCHANGED svc
      BY <1>11, <2>1
    <3> QED
      BY <1>7, <3>1 DEF Answer
  <2>2. CASE ~(Cardinality(free) < r.arg)
    <3>1. /\ Replies(Answer(r, TRUE, ids))
          /\ svc' = [svc EXCEPT !.reserved = @ \cup ToSet(ids)]
      BY <1>11, <2>2
    <3>2. r.arg \in Nat
      <4>1. r.arg = NumBlocks(Len(gen.all) - gen.cached) /\ gen.cached < Len(gen.all)
            /\ gen.cached \in Nat /\ Len(gen.all) \in Nat
        BY <1>5, <1>6, <1>11 DEF Rest, WriteIsReady, GenIsTyped
      <4> DEFINE m == Len(gen.all) - gen.cached
      <4>2. m \in Nat /\ r.arg = NumBlocks(m)
        BY <4>1
      <4> HIDE DEF m
      <4> QED
        BY <4>2, NumbersAssumption DEF NumBlocks
    <3>3. r.arg <= Cardinality(free)
      <4>1. Cardinality(free) \in Nat
        BY NumbersAssumption, FS_Subset, FS_CardinalityType
      <4> HIDE DEF free
      <4> QED
        BY <2>2, <3>2, <4>1
    <3> HIDE DEF ids
    <3>4. Fresh(ids) /\ Len(ids) = r.arg
      BY <3>2, <3>3, AllocatedAreFresh DEF ids
    <3>5. \A b \in ToSet(ids) : b \in Blocks /\ Unused(b)
      BY <3>4 DEF Fresh, ToSet
    <3>6. /\ DOMAIN svc' = DOMAIN svc /\ svc'.index = svc.index
          /\ svc'.reserved = svc.reserved \cup ToSet(ids)
      BY <3>1 DEF Rest, BlocksAreApart
    <3>7. \A b \in svc'.reserved : b \in Blocks /\ Unused(b)
      BY <3>5, <3>6 DEF Rest, BlocksAreApart
    <3>8. sock'.answers[1].data = ids
      BY <1>3, <3>1 DEF Answer
    <3>9. Fits(r, ids)
      BY <1>11, <3>4 DEF Fits
    <3> QED
      BY <1>1, <1>6, <3>6, <3>7, <3>8, <3>9, ServiceKeepsRest
  <2> QED
    BY <2>1, <2>2
<1>12. CASE /\ r.m = "Store"
            /\ IF Acceptable(r.arg)
               THEN /\ Replies(Answer(r, TRUE, <<>>))
                    /\ svc' = [svc EXCEPT !.index = @ \cup Stored(r.arg),
                                          !.reserved = @ \ ToSet(r.arg.ids)]
               ELSE Replies(Answer(r, FALSE, <<>>)) /\ UNCHANGED svc
  <2>1. CASE Acceptable(r.arg)
    <3>1. wake = Engine /\ pc[Engine] = "recv" /\ call[Engine] = r /\ On("Store")
      BY <1>5, <1>6, <1>12
    <3>2. StoreFits(r.arg)
      BY <3>1 DEF Rest, StoreIsReady
    <3>3. BlocksAreApart' /\ IndexIsExact'
      BY <1>1, <1>12, <2>1, <3>2, StoreKeepsIndex DEF Rest
    <3>4. \A m : On(m)' <=> On(m)
      BY <1>1 DEF On, Calling
    <3>5. AnswersFit'
      BY <1>1, <1>12, <3>1 DEF AnswersFit, Fits
    <3>6. EntryIsOurs' /\ ReadIsReady'
      BY <1>1, <3>1, <3>4 DEF Rest, EntryIsOurs, ReadIsReady
    <3>7. GenIsTyped' /\ HostIsExact'
      BY <1>1 DEF Rest, GenIsTyped, HostIsExact, Exact
    <3>8. Phases' /\ WriteIsReady'
      BY <1>1, <3>1, <3>4 DEF Rest, Phases, WriteIsReady, Writing
    <3>9. StoreIsReady'
      BY <1>1, <3>4 DEF Rest, StoreIsReady, StoreFits, Holds
    <3> QED
      BY <3>3, <3>5, <3>6, <3>7, <3>8, <3>9 DEF Rest
  <2>2. CASE ~Acceptable(r.arg)
    <3>1. Replies(Answer(r, FALSE, <<>>)) /\ UNCHANGED svc
      BY <1>12, <2>2
    <3> QED
      BY <1>7, <3>1 DEF Answer
  <2> QED
    BY <2>1, <2>2
<1> QED
  BY <1>4, <1>8, <1>9, <1>10, <1>11, <1>12 DEF Execute

LEMMA ServiceStepKeepsRest ==
  ASSUME Wire, CallsAreTyped, Rest, Service
  PROVE  Rest'
<1>1. UNCHANGED <<pc, call, reply, wake, gen, mem, entries>>
  BY DEF Service, Serve, Refuse, Drop, Stop, Restart, Evict, engineVars
<1>2. \A b \in svc.reserved : b \in Blocks /\ Unused(b)
  BY DEF Rest, BlocksAreApart
<1>3. CASE Refuse
  <2> DEFINE r == Head(sock.reqs)
  <2>1. /\ ~sock.broken /\ sock.reqs # <<>> /\ UNCHANGED svc
        /\ (Replies(Answer(r, FALSE, <<>>)) \/ (r.m = "Allocate" /\ Replies(Answer(r, TRUE, <<>>))))
    BY <1>3 DEF Refuse
  <2>2. \/ sock'.answers[1] = Answer(r, FALSE, <<>>)
        \/ r.m = "Allocate" /\ sock'.answers[1] = Answer(r, TRUE, <<>>)
    BY <2>1, AnswerGoesOut
  <2>3. wake = Engine => r = call[Engine]
    BY <2>1, AnswerGoesOut
  <2>4. Fresh(<<>>)
    BY DEF Fresh, Distinct
  <2>5. wake = Engine /\ sock'.answers[1].ok => Fits(call[Engine], sock'.answers[1].data)
    BY <2>2, <2>3, <2>4 DEF Answer, Fits
  <2> QED
    BY <1>1, <1>2, <2>1, <2>5, ServiceKeepsRest
<1>4. Breaks => sock'.answers = sock.answers \/ sock'.answers = <<>>
  BY DEF Breaks, NoSocket
<1>5. wake = Engine /\ sock.answers # <<>> /\ sock.answers[1].ok =>
        Fits(call[Engine], sock.answers[1].data)
  BY DEF Rest, AnswersFit
<1>6. CASE Drop
  BY <1>1, <1>2, <1>4, <1>5, <1>6, ServiceKeepsRest DEF Drop
<1>7. CASE Stop
  <2>1. /\ DOMAIN svc' = DOMAIN svc /\ svc'.index \subseteq svc.index /\ svc'.reserved = {}
    BY <1>7 DEF Stop, Rest, BlocksAreApart
  <2> QED
    BY <1>1, <1>4, <1>5, <1>7, <2>1, ServiceKeepsRest DEF Stop
<1>8. CASE Restart \/ Evict
  <2>1. /\ DOMAIN svc' = DOMAIN svc /\ svc'.index \subseteq svc.index
        /\ svc'.reserved = svc.reserved /\ sock' = sock
    BY <1>8 DEF Restart, Evict, Rest, BlocksAreApart
  <2> QED
    BY <1>1, <1>2, <1>5, <2>1, ServiceKeepsRest
<1> QED
  BY <1>3, <1>6, <1>7, <1>8, ServeKeepsRest DEF Service

-----------------------------------------------------------------------------
(* The generating thread.                                                  *)
LEMMA EngineLeaves ==
  ASSUME Wire, NEW w, w \notin {"lock", "recv", "got"}, Leaves(Engine, w)
  PROVE  pc'[Engine] = w /\ ~Calling' /\ \A m : ~On(m)'
BY DEF Wire, Shape, Leaves, Goes, Calling, On, Threads

LEMMA EngineCalls ==
  ASSUME Wire, NEW m, NEW arg, Calls(Engine, m, arg)
  PROVE  /\ pc'[Engine] = "lock" /\ call'[Engine].m = m /\ call'[Engine].arg = arg
         /\ \A x : On(x)' <=> x = m
BY DEF Wire, Shape, Calls, Request, Calling, On, Threads

(* What a step of the thread itself leaves alone. *)
LEMMA EngineOffTheWire ==
  ASSUME Wire, Rest, pc[Engine] # "recv", pc'[Engine] \notin {"recv", "got"},
         UNCHANGED <<svc, mem, sock, wake>>
  PROVE  /\ BlocksAreApart' /\ IndexIsExact' /\ AnswersFit'
         /\ \A ids : Fresh(ids) => Fresh(ids)'
<1>1. wake # Engine
  BY DEF Wire, SocketOwner, Threads
<1>2. AnswersFit'
  BY <1>1 DEF AnswersFit
<1>3. BlocksAreApart' /\ IndexIsExact' /\ \A ids : Fresh(ids) => Fresh(ids)'
  BY DEF Rest, BlocksAreApart, IndexIsExact, Unused, Fresh
<1> QED
  BY <1>2, <1>3

(* It is neither about to read nor about to write. *)
LEMMA EngineAside ==
  ASSUME Wire, Rest, pc[Engine] # "recv", pc'[Engine] \notin {"recv", "got", "read"},
         UNCHANGED <<svc, mem, sock, wake>>, ~On("Lookup")', ~Writing',
         GenIsTyped', HostIsExact', Phases'
  PROVE  Rest'
<1>1. BlocksAreApart' /\ IndexIsExact' /\ AnswersFit'
  BY EngineOffTheWire
<1>2. EntryIsOurs' /\ ReadIsReady' /\ WriteIsReady' /\ StoreIsReady'
  BY DEF EntryIsOurs, ReadIsReady, WriteIsReady, StoreIsReady, Writing
<1> QED
  BY <1>1, <1>2 DEF Rest

LEMMA ReturnKeepsRest ==
  ASSUME Wire, Rest, pc[Engine] # "recv", UNCHANGED <<svc, mem, sock, wake>>, Return
  PROVE  Rest'
<1>1. gen' = NoGen /\ pc'[Engine] = "idle" /\ \A m : ~On(m)'
  BY EngineLeaves DEF Return
<1>2. GenIsTyped' /\ HostIsExact' /\ Phases' /\ ~Writing'
  BY <1>1, NumbersAssumption DEF NoGen, GenIsTyped, HostIsExact, Exact, Phases, Writing
<1> QED
  BY <1>1, <1>2, EngineAside

LEMMA StartKeepsRest ==
  ASSUME Wire, Rest, NEW id \in Ids, NEW p \in Prompts, Start(id, p)
  PROVE  Rest'
<1>1. /\ gen' = [NoGen EXCEPT !.id = id, !.phase = "lookup", !.prompt = p]
      /\ pc[Engine] = "idle" /\ UNCHANGED <<svc, mem, sock, wake>>
  BY DEF Start
<1>2. pc'[Engine] = "ensure" /\ \A m : ~On(m)'
  BY EngineLeaves DEF Start
<1>3. /\ DOMAIN gen' = DOMAIN NoGen /\ gen'.prompt = p /\ gen'.all = <<>> /\ gen'.cached = 0
      /\ gen'.entry = 0 /\ gen'.phase = "lookup" /\ gen'.host = <<>> /\ gen'.spoiled = FALSE
  BY <1>1 DEF NoGen
<1>4. p \in Seq(Tokens)
  BY TokensAssumption
<1>5. GenIsTyped'
  <2>1. <<>> \in Seq(Tokens)
    OBVIOUS
  <2>2. DOMAIN gen' = DOMAIN NoGen'
    BY <1>1 DEF NoGen
  <2>3. 0 \in 0..NEntries /\ "lookup" # "write"
    BY NumbersAssumption
  <2>4. gen'.prompt \in Seq(Tokens) /\ gen'.all \in Seq(Tokens)
    BY <1>3, <1>4, <2>1
  <2>5. gen'.cached \in Nat /\ gen'.entry \in 0..NEntries
    BY <1>3, <2>3
  <2>7. gen'.spoiled \in BOOLEAN
    BY <1>1 DEF NoGen
  <2>6. gen'.phase # "write"
    BY <1>3
  <2> QED
    BY <2>2, <2>4, <2>5, <2>6, <2>7 DEF GenIsTyped
<1>6. HostIsExact'
  <2>1. <<>> = [i \in 1..Len(<<>>) |-> Prefix(p, i)] /\ Len(<<>>) \in 0..Len(p)
    BY <1>4
  <2> QED
    BY <1>3, <2>1 DEF HostIsExact, Exact
<1>7. Phases' /\ ~Writing'
  BY <1>2, <1>3 DEF Phases, Writing
<1> QED
  BY <1>1, <1>2, <1>5, <1>6, <1>7, EngineAside

(* The thread goes on with the locals it has. *)
LEMMA SameGen ==
  ASSUME Rest, gen' = gen
  PROVE  GenIsTyped' /\ HostIsExact'
BY DEF Rest, GenIsTyped, HostIsExact, Exact

LEMMA EnsureKeepsRest ==
  ASSUME Wire, Rest, Ensure
  PROVE  Rest'
<1>1. pc[Engine] = "ensure" /\ UNCHANGED <<gen, svc, mem, sock, wake>>
  BY DEF Ensure, engineVars, GenVars
<1>2. gen.phase \in {"lookup", "write"} /\ (gen.phase = "lookup" => gen.host = <<>>)
  BY <1>1 DEF Rest, Phases
<1>3. GenIsTyped' /\ HostIsExact'
  BY <1>1, SameGen
<1>4. CASE own # 0 /\ gen.phase = "lookup"
  <2>1. pc'[Engine] = "entry" /\ \A m : ~On(m)'
    BY <1>4, EngineLeaves DEF Ensure, Ensured
  <2>2. Phases' /\ ~Writing'
    BY <1>1, <1>2, <1>4, <2>1 DEF Phases, Writing
  <2> QED
    BY <1>1, <1>3, <2>1, <2>2, EngineAside
<1>5. CASE own # 0 /\ gen.phase # "lookup"
  <2>1. pc'[Engine] = "prepare" /\ \A m : ~On(m)'
    BY <1>5, EngineLeaves DEF Ensure, Ensured
  <2>2. Phases' /\ WriteIsReady' /\ EntryIsOurs' /\ ReadIsReady' /\ StoreIsReady'
    BY <1>1, <1>2, <1>5, <2>1
    DEF Phases, Writing, WriteIsReady, EntryIsOurs, ReadIsReady, StoreIsReady
  <2> QED
    BY <1>1, <1>3, <2>1, <2>2, EngineOffTheWire DEF Rest
<1>6. CASE own = 0
  <2>1. pc'[Engine] = "lock" /\ \A x : On(x)' <=> x = "GetConfig"
    BY <1>6, EngineCalls DEF Ensure
  <2>2. Phases' /\ ~Writing'
    BY <1>1, <1>2, <2>1 DEF Phases, Writing
  <2> QED
    BY <1>1, <1>3, <2>1, <2>2, EngineAside
<1> QED
  BY <1>4, <1>5, <1>6

LEMMA ConfiguredKeepsRest ==
  ASSUME Wire, Rest, Configured \/ NotConfigured
  PROVE  Rest'
<1>1. pc[Engine] = "got" /\ UNCHANGED <<svc, mem, sock, wake>>
  BY DEF Configured, NotConfigured, Got, GenVars
<1>2. gen.phase \in {"lookup", "write"} /\ (gen.phase = "lookup" => gen.host = <<>>)
  BY <1>1 DEF Rest, Phases
<1>3. ASSUME gen' = gen, Leaves(Engine, "entry") \/ Leaves(Engine, "compute"),
             gen.phase = "lookup"
      PROVE  Rest'
  <2>1. pc'[Engine] \in {"entry", "compute"} /\ \A m : ~On(m)'
    BY <1>3, EngineLeaves
  <2>2. GenIsTyped' /\ HostIsExact'
    BY <1>3, SameGen
  <2>3. Phases' /\ ~Writing'
    BY <1>2, <1>3, <2>1 DEF Phases, Writing
  <2> QED
    BY <1>1, <2>1, <2>2, <2>3, EngineAside
<1>4. ASSUME gen' = gen, Leaves(Engine, "prepare"), gen.phase # "lookup"
      PROVE  Rest'
  <2>1. pc'[Engine] = "prepare" /\ \A m : ~On(m)'
    BY <1>4, EngineLeaves
  <2>2. GenIsTyped' /\ HostIsExact'
    BY <1>4, SameGen
  <2>3. Phases' /\ WriteIsReady' /\ EntryIsOurs' /\ ReadIsReady' /\ StoreIsReady'
    BY <1>2, <1>4, <2>1
    DEF Phases, Writing, WriteIsReady, EntryIsOurs, ReadIsReady, StoreIsReady
  <2> QED
    BY <1>1, <2>1, <2>2, <2>3, EngineOffTheWire DEF Rest
<1>5. CASE Configured
  BY <1>3, <1>4, <1>5 DEF Configured, Ensured
<1>6. CASE NotConfigured
  BY <1>1, <1>3, <1>6, ReturnKeepsRest DEF NotConfigured, Unavailable
<1> QED
  BY <1>5, <1>6

LEMMA NothingHeld ==
  ASSUME NEW p \in Seq(Tokens), gen'.prompt = p, gen'.host = <<>>
  PROVE  HostIsExact'
<1>1. <<>> = [i \in 1..Len(<<>>) |-> Prefix(p, i)] /\ Len(<<>>) \in 0..Len(p)
  OBVIOUS
<1> QED
  BY <1>1 DEF HostIsExact, Exact

LEMMA GetEntryKeepsRest ==
  ASSUME Inv, Rest, GetEntry
  PROVE  Rest'
<1> DEFINE k == IF FindEntry(gen.id) # 0 THEN FindEntry(gen.id) ELSE FreeEntry
<1>1. pc[Engine] = "entry" /\ UNCHANGED <<svc, mem, sock, wake>> /\ Wire
  BY DEF GetEntry, GenVars, Inv
<1>2. gen.phase = "lookup" /\ gen.host = <<>>
  BY <1>1 DEF Rest, Phases
<1>3. CASE k = 0
  <2>1. gen' = gen /\ pc'[Engine] = "compute" /\ \A m : ~On(m)'
    BY <1>1, <1>3, EngineLeaves DEF GetEntry
  <2>2. GenIsTyped' /\ HostIsExact'
    BY <2>1, SameGen
  <2>3. Phases' /\ ~Writing'
    BY <1>2, <2>1 DEF Phases, Writing
  <2> QED
    BY <1>1, <2>1, <2>2, <2>3, EngineAside
<1>4. CASE k # 0
  <2>1. /\ gen' = [gen EXCEPT !.entry = k] /\ Calls(Engine, "Lookup", gen.prompt)
        /\ entries' = IF FindEntry(gen.id) # 0 THEN entries
                      ELSE [entries EXCEPT ![k] = [NoEntry EXCEPT !.valid = TRUE,
                                                                  !.id = gen.id]]
    BY <1>4 DEF GetEntry
  <2>2. k \in 1..NEntries
    BY <1>4, FindEntryFinds, FreeEntryIsFree
  <2>3. entries'[k].valid /\ entries'[k].id = gen.id
    <3>1. CASE FindEntry(gen.id) # 0
      BY <2>1, <3>1, FindEntryFinds
    <3>2. CASE FindEntry(gen.id) = 0
      <4>1. entries'[k] = [NoEntry EXCEPT !.valid = TRUE, !.id = gen.id]
        BY <2>1, <2>2, <3>2 DEF Inv, EntriesAreRecords
      <4> QED
        BY <4>1 DEF NoEntry
    <3> QED
      BY <3>1, <3>2
  <2> HIDE DEF k
  <2>4. /\ pc'[Engine] = "lock" /\ call'[Engine].arg = gen.prompt
        /\ \A x : On(x)' <=> x = "Lookup"
    BY <1>1, <2>1, EngineCalls
  <2>5. gen.prompt \in Seq(Tokens) /\ DOMAIN gen = DOMAIN NoGen
    BY DEF Rest, GenIsTyped
  <2>6. /\ DOMAIN gen' = DOMAIN NoGen' /\ gen'.entry = k /\ gen'.id = gen.id
        /\ gen'.prompt = gen.prompt /\ gen'.all = gen.all /\ gen'.cached = gen.cached
        /\ gen'.phase = gen.phase /\ gen'.host = gen.host /\ gen'.spoiled = gen.spoiled
    BY <2>1, <2>5 DEF NoGen
  <2>7. GenIsTyped' /\ HostIsExact'
    BY <1>2, <2>2, <2>5, <2>6, NothingHeld DEF Rest, GenIsTyped
  <2>8. EntryIsOurs' /\ ReadIsReady' /\ StoreIsReady' /\ WriteIsReady' /\ Phases'
    BY <1>2, <2>2, <2>3, <2>4, <2>6
    DEF EntryIsOurs, ReadIsReady, StoreIsReady, WriteIsReady, Phases, Writing
  <2> QED
    BY <1>1, <2>4, <2>7, <2>8, EngineOffTheWire DEF Rest
<1> QED
  BY <1>3, <1>4

LEMMA FoundKeepsRest ==
  ASSUME Inv, Rest, Found
  PROVE  Rest'
<1> DEFINE d == reply[Engine].data
           bs == Fitting(Sized(d), Len(gen.prompt))
           N == Total(bs)
<1>1. /\ pc[Engine] = "got" /\ On("Lookup") /\ reply[Engine].ok
      /\ UNCHANGED <<svc, mem, sock, wake>> /\ Wire
      /\ d.len = 0 \/ d.hash = Prefix(gen.prompt, d.len)
  BY DEF Found, Got, Usable, Trusted, GenVars, Inv, On, Calling
<1>2. /\ entries' = [entries EXCEPT ![gen.entry].len = N, ![gen.entry].blocks = bs]
      /\ gen' = [gen EXCEPT !.cached = N, !.spoiled = \E k \in 1..Len(bs) : ~Sound(bs[k].b)]
      /\ Leaves(Engine, IF N > 0 THEN "read" ELSE "compute")
  BY DEF Found
<1>3. /\ gen.prompt \in Seq(Tokens) /\ DOMAIN gen = DOMAIN NoGen /\ gen.phase = "lookup"
      /\ gen.host = <<>>
      /\ gen.entry \in 1..NEntries /\ entries[gen.entry].valid
      /\ entries[gen.entry].id = gen.id /\ call[Engine].arg = gen.prompt
      /\ call[Engine].m = "Lookup"
  BY <1>1 DEF Rest, EntryIsOurs, GenIsTyped, Phases, On
<1>4. LookupFits(d, gen.prompt)
  BY <1>1, <1>3 DEF Rest, AnswersFit, Fits
<1>5. N \in Nat /\ N <= Len(gen.prompt)
  <2> DEFINE n == Len(gen.prompt)
  <2>1. d.blocks \in Seq([b : Blocks, n : Nat]) /\ d.len \in Nat /\ n \in Nat
    BY <1>3, <1>4 DEF LookupFits
  <2>2. bs = Fitting(Sized(d), n)
    OBVIOUS
  <2> HIDE DEF d, bs, n
  <2>3. Total(bs) \in Nat /\ Total(bs) <= n
    BY <2>1, <2>2, FittingIs
  <2> QED
    BY <2>3 DEF n
<1>6. (\A k \in 1..Len(bs) : Sound(bs[k].b)) =>
        \A i \in 1..N : Cell(bs, i) = Prefix(gen.prompt, i)
  BY <1>1, <1>3, <1>4, CellIsExact DEF Rest
<1> DEFINE sp == \E k \in 1..Len(bs) : ~Sound(bs[k].b)
<1>7. sp \/ \A i \in 1..N : Cell(bs, i) = Prefix(gen.prompt, i)
  BY <1>6
<1>8. gen' = [gen EXCEPT !.cached = N, !.spoiled = sp] /\ sp \in BOOLEAN
  BY <1>2
<1> HIDE DEF d, bs, N, sp
<1>9. /\ DOMAIN gen' = DOMAIN NoGen' /\ gen'.entry = gen.entry /\ gen'.id = gen.id
      /\ gen'.prompt = gen.prompt /\ gen'.all = gen.all /\ gen'.cached = N
      /\ gen'.phase = gen.phase /\ gen'.host = gen.host /\ (gen'.spoiled <=> sp)
      /\ gen'.spoiled \in BOOLEAN
  BY <1>3, <1>8 DEF NoGen
<1>10. /\ entries'[gen.entry].valid /\ entries'[gen.entry].id = gen.id
       /\ entries'[gen.entry].blocks = bs
  BY <1>2, <1>3 DEF Inv, EntriesAreRecords
<1>11. pc'[Engine] \in {"read", "compute"} /\ \A m : ~On(m)'
  BY <1>1, <1>2, EngineLeaves
<1>12. GenIsTyped' /\ HostIsExact'
  BY <1>3, <1>5, <1>9, NothingHeld DEF Rest, GenIsTyped
<1>13. EntryIsOurs'
  BY <1>3, <1>9, <1>10, <1>11 DEF EntryIsOurs
<1>14. ReadIsReady'
  BY <1>1, <1>5, <1>7, <1>9, <1>10 DEF ReadIsReady, Cell
<1>15. StoreIsReady' /\ WriteIsReady' /\ Phases'
  BY <1>3, <1>9, <1>11 DEF StoreIsReady, WriteIsReady, Phases, Writing
<1> QED
  BY <1>1, <1>11, <1>12, <1>13, <1>14, <1>15, EngineOffTheWire DEF Rest

LEMMA ComputeNextKeepsRest ==
  ASSUME Wire, Rest, NotFound
  PROVE  Rest'
<1>1. /\ pc[Engine] = "got" /\ On("Lookup") /\ UNCHANGED <<gen, svc, mem, sock, wake>>
      /\ Leaves(Engine, "compute")
  BY DEF NotFound, Got, GenVars, On, Calling
<1>2. pc'[Engine] = "compute" /\ \A m : ~On(m)'
  BY <1>1, EngineLeaves
<1>3. GenIsTyped' /\ HostIsExact'
  BY <1>1, SameGen
<1>4. Phases' /\ ~Writing'
  BY <1>1, <1>2 DEF Rest, Phases, Writing
<1> QED
  BY <1>1, <1>2, <1>3, <1>4, EngineAside

LEMMA ReadKeepsRest ==
  ASSUME Inv, Rest, Read
  PROVE  Rest'
<1> DEFINE k == FindEntry(gen.id)
<1>1. /\ pc[Engine] = "read" /\ UNCHANGED <<svc, mem, sock, wake, entries>> /\ Wire
      /\ Leaves(Engine, "compute")
  BY DEF Read, GenVars, Inv
<1>2. /\ gen.entry \in 1..NEntries /\ entries[gen.entry].valid
      /\ entries[gen.entry].id = gen.id /\ gen.phase = "lookup" /\ gen.host = <<>>
      /\ gen.prompt \in Seq(Tokens) /\ DOMAIN gen = DOMAIN NoGen /\ gen.cached \in Nat
      /\ gen.spoiled \in BOOLEAN
  BY <1>1 DEF Rest, EntryIsOurs, Phases, GenIsTyped
<1>3. k = gen.entry
  BY <1>2, FindEntryFinds DEF Inv, EntriesAreAccountedFor
<1>4. pc'[Engine] = "compute" /\ \A m : ~On(m)'
  BY <1>1, EngineLeaves
<1> DEFINE h == [i \in 1..gen.cached |-> Cell(entries[k].blocks, i)]
<1>5. gen' = [gen EXCEPT !.host = h] \/ gen' = [gen EXCEPT !.cached = 0]
  BY DEF Read
<1>6. Len(h) = gen.cached
  <2> DEFINE R == {h[i] : i \in 1..gen.cached}
  <2>1. h \in [1..gen.cached -> R]
    OBVIOUS
  <2> HIDE DEF h, R
  <2>2. h \in Seq(R)
    BY <1>2, <2>1
  <2> QED
    BY <1>2, <2>1, <2>2
<1>7. ~gen.spoiled => /\ gen.cached <= Len(gen.prompt)
                      /\ \A i \in 1..gen.cached : h[i] = Prefix(gen.prompt, i)
  BY <1>1, <1>3 DEF Rest, ReadIsReady
<1>8. ~gen.spoiled => /\ h = [i \in 1..Len(h) |-> Prefix(gen.prompt, i)]
                      /\ Len(h) \in 0..Len(gen.prompt)
  <2>1. Len(gen.prompt) \in Nat
    BY <1>2
  <2>2. h = [i \in 1..gen.cached |-> h[i]]
    OBVIOUS
  <2> DEFINE n == gen.cached
  <2> HIDE DEF h
  <2>3. ~gen.spoiled => h = [i \in 1..n |-> Prefix(gen.prompt, i)]
    BY <1>7, <2>2
  <2> QED
    BY <1>2, <1>6, <1>7, <2>1, <2>3
<1> HIDE DEF h, k
<1>9. /\ DOMAIN gen' = DOMAIN NoGen' /\ gen'.entry = gen.entry
      /\ gen'.prompt = gen.prompt /\ gen'.all = gen.all /\ gen'.cached \in Nat
      /\ gen'.phase = gen.phase /\ (gen'.spoiled <=> gen.spoiled) /\ gen'.spoiled \in BOOLEAN
      /\ gen'.host = h \/ gen'.host = <<>>
  BY <1>2, <1>5 DEF NoGen
<1>10. GenIsTyped'
  BY <1>2, <1>9 DEF Rest, GenIsTyped
<1>11. HostIsExact'
  <2>1. CASE gen'.host = h
    BY <1>8, <1>9, <2>1 DEF HostIsExact, Exact
  <2>2. CASE gen'.host = <<>>
    BY <1>2, <1>9, <2>2, NothingHeld
  <2> QED
    BY <1>9, <2>1, <2>2
<1>12. Phases' /\ ~Writing'
  BY <1>2, <1>4, <1>9 DEF Phases, Writing
<1> QED
  BY <1>1, <1>4, <1>10, <1>11, <1>12, EngineAside

LEMMA ComputeKeepsRest ==
  ASSUME Wire, Rest, NEW out \in Outputs, Compute(out)
  PROVE  Rest'
<1>1. /\ pc[Engine] = "compute" /\ UNCHANGED <<svc, mem, sock, wake>>
      /\ Leaves(Engine, "ensure")
      /\ gen' = [gen EXCEPT !.all = gen.prompt \o out, !.phase = "write"]
  BY DEF Compute, GenVars
<1>2. pc'[Engine] = "ensure" /\ \A m : ~On(m)'
  BY <1>1, EngineLeaves
<1>3. gen.prompt \in Seq(Tokens) /\ out \in Seq(Tokens) /\ DOMAIN gen = DOMAIN NoGen
  BY TokensAssumption DEF Rest, GenIsTyped
<1> DEFINE a == gen.prompt \o out
<1>4. a \in Seq(Tokens) /\ IsPrefix(gen.prompt, a)
  <2>1. /\ a \in Seq(Tokens) /\ Len(a) = Len(gen.prompt) + Len(out)
        /\ \A i \in 1..Len(gen.prompt) : a[i] = gen.prompt[i]
    BY <1>3
  <2> HIDE DEF a
  <2>2. Len(gen.prompt) \in Nat /\ Len(out) \in Nat
    BY <1>3
  <2> DEFINE n == Len(gen.prompt)
  <2>3. SubSeq(gen.prompt, 1, n) = gen.prompt
    BY <1>3
  <2>4. n \in 0..Len(a) /\ n \in 0..Len(gen.prompt)
    BY <2>1, <2>2
  <2>5. SubSeq(a, 1, n) = SubSeq(gen.prompt, 1, n)
    BY <1>3, <2>1, <2>2, <2>4
  <2> QED
    BY <2>1, <2>2, <2>5 DEF IsPrefix
<1> HIDE DEF a
<1>5. /\ DOMAIN gen' = DOMAIN NoGen' /\ gen'.entry = gen.entry /\ gen'.prompt = gen.prompt
      /\ gen'.all = a /\ gen'.cached = gen.cached /\ gen'.phase = "write"
      /\ gen'.host = gen.host /\ gen'.spoiled = gen.spoiled
  BY <1>1, <1>3 DEF NoGen, a
<1>6. GenIsTyped' /\ HostIsExact'
  BY <1>4, <1>5 DEF Rest, GenIsTyped, HostIsExact, Exact
<1>7. Phases' /\ ~Writing'
  BY <1>2, <1>5 DEF Phases, Writing
<1> QED
  BY <1>1, <1>2, <1>6, <1>7, EngineAside

LEMMA PrepareKeepsRest ==
  ASSUME Wire, Rest, \A j \in 1..NEntries : entries[j].len \in Nat, Prepare
  PROVE  Rest'
<1> DEFINE k == FindEntry(gen.id)
           c == IF k = 0 THEN 0 ELSE Least(entries[k].len, Len(gen.all))
           n == Len(gen.all)
<1>1. pc[Engine] = "prepare" /\ UNCHANGED <<svc, mem, sock, wake>>
  BY DEF Prepare, GenVars
<1>2. n \in Nat /\ k \in 0..NEntries /\ DOMAIN gen = DOMAIN NoGen /\ gen.phase = "write"
  BY <1>1, FindEntryFinds, NumbersAssumption DEF Rest, GenIsTyped, Phases, Writing
<1>3. c \in Nat /\ c <= n
  <2>1. k # 0 => entries[k].len \in Nat
    BY <1>2
  <2> HIDE DEF k, n
  <2> QED
    BY <1>2, <2>1 DEF Least, n
<1>4. CASE c = n
  BY <1>1, <1>4, ReturnKeepsRest DEF Prepare
<1>5. CASE c # n
  <2>1. /\ gen' = [gen EXCEPT !.entry = k, !.cached = c]
        /\ Calls(Engine, "Allocate", NumBlocks(n - c))
    BY <1>5 DEF Prepare
  <2> HIDE DEF k, c
  <2>2. /\ DOMAIN gen' = DOMAIN NoGen' /\ gen'.entry = k /\ gen'.prompt = gen.prompt
        /\ gen'.all = gen.all /\ gen'.cached = c /\ gen'.phase = gen.phase
        /\ gen'.host = gen.host /\ gen'.spoiled = gen.spoiled
    BY <1>2, <2>1 DEF NoGen
  <2>3. /\ pc'[Engine] = "lock" /\ call'[Engine].arg = NumBlocks(n - c)
        /\ \A x : On(x)' <=> x = "Allocate"
    BY <2>1, EngineCalls
  <2>4. GenIsTyped' /\ HostIsExact'
    BY <1>2, <1>3, <2>2 DEF Rest, GenIsTyped, HostIsExact, Exact
  <2>5. c < n
    BY <1>2, <1>3, <1>5
  <2>6. WriteIsReady'
    BY <2>2, <2>3, <2>5 DEF WriteIsReady, NumBlocks
  <2>7. EntryIsOurs' /\ ReadIsReady' /\ StoreIsReady' /\ Phases'
    BY <1>2, <2>2, <2>3 DEF EntryIsOurs, ReadIsReady, StoreIsReady, Phases, Writing
  <2> QED
    BY <1>1, <2>3, <2>4, <2>6, <2>7, EngineOffTheWire DEF Rest
<1> QED
  BY <1>4, <1>5

LEMMA AllocatedKeepsRest ==
  ASSUME Wire, Rest, Allocated
  PROVE  Rest'
<1>1. /\ pc[Engine] = "got" /\ call[Engine].m = "Allocate" /\ On("Allocate")
      /\ UNCHANGED <<svc, mem, sock, wake>>
  BY DEF Allocated, Got, GenVars, On, Calling
<1> DEFINE ids == reply[Engine].data
           enough == reply[Engine].ok /\ Len(ids) = NumBlocks(Len(gen.all) - gen.cached)
<1>2. CASE ~enough
  BY <1>1, <1>2, ReturnKeepsRest DEF Allocated
<1>3. CASE enough
  <2>1. gen' = [gen EXCEPT !.new = ids] /\ Leaves(Engine, "copy")
    BY <1>3 DEF Allocated
  <2>2. /\ Fresh(ids) /\ Len(ids) = NumBlocks(Len(gen.all) - gen.cached)
        /\ gen.cached < Len(gen.all)
    BY <1>1, <1>3 DEF Rest, AnswersFit, Fits, WriteIsReady
  <2>3. DOMAIN gen = DOMAIN NoGen /\ gen.phase = "write"
    BY <1>1 DEF Rest, GenIsTyped, Phases, Writing
  <2> HIDE DEF ids
  <2>4. /\ DOMAIN gen' = DOMAIN NoGen' /\ gen'.entry = gen.entry /\ gen'.prompt = gen.prompt
        /\ gen'.all = gen.all /\ gen'.cached = gen.cached /\ gen'.phase = gen.phase
        /\ gen'.host = gen.host /\ gen'.spoiled = gen.spoiled /\ gen'.new = ids
    BY <2>1, <2>3 DEF NoGen
  <2>5. pc'[Engine] = "copy" /\ \A m : ~On(m)'
    BY <2>1, EngineLeaves
  <2>6. GenIsTyped' /\ HostIsExact'
    BY <2>3, <2>4 DEF Rest, GenIsTyped, HostIsExact, Exact
  <2>7. WriteIsReady'
    BY <1>1, <2>2, <2>4, <2>5 DEF WriteIsReady, NumBlocks, Fresh, Unused, Distinct
  <2>8. EntryIsOurs' /\ ReadIsReady' /\ StoreIsReady' /\ Phases'
    BY <2>3, <2>4, <2>5 DEF EntryIsOurs, ReadIsReady, StoreIsReady, Phases, Writing
  <2> QED
    BY <1>1, <2>5, <2>6, <2>7, <2>8, EngineOffTheWire DEF Rest
<1> QED
  BY <1>2, <1>3

LEMMA CopyKeepsRest ==
  ASSUME Wire, Rest, CopyOut \/ CopyAstray
  PROVE  Rest'
<1>1. /\ pc[Engine] = "copy" /\ UNCHANGED <<gen, svc, sock, wake>>
      /\ gen.phase = "write"
  BY DEF CopyOut, CopyAstray, GenVars, engineVars, Rest, Phases, Writing
<1>2. GenIsTyped' /\ HostIsExact'
  BY <1>1, SameGen
<1>3. CASE CopyAstray
  <2>1. pc'[Engine] = "crashed" /\ \A m : ~On(m)' /\ mem' = mem
    BY <1>3, EngineLeaves DEF CopyAstray, engineVars
  <2>2. Phases' /\ ~Writing'
    BY <1>1, <2>1 DEF Phases, Writing
  <2> QED
    BY <1>1, <1>2, <2>1, <2>2, EngineAside
<1>4. CASE CopyOut
  <2>1. PICK st : st = [tokens |-> gen.all, cached |-> gen.cached, ids |-> gen.new,
                        clean |-> ~gen.spoiled]
    OBVIOUS
  <2>2. Calls(Engine, "Store", st)
    BY <1>4, <2>1 DEF CopyOut
  <2>3. /\ pc'[Engine] = "lock" /\ call'[Engine].arg = st
        /\ \A x : On(x)' <=> x = "Store"
    BY <2>2, EngineCalls
  <2>4. /\ gen.cached < Len(gen.all) /\ Fresh(gen.new)
        /\ Len(gen.new) = NumBlocks(Len(gen.all) - gen.cached)
    BY <1>1 DEF Rest, WriteIsReady
  <2>5. StoreFits(st)' /\ (\A e \in svc.index : mem'[e.b] = mem[e.b]) /\ DOMAIN mem' = Blocks
    BY <1>1, <1>4, <2>1, <2>4, CopyIsReady DEF CopyOut, Rest
  <2>6. BlocksAreApart' /\ IndexIsExact'
    BY <1>1, <2>5 DEF Rest, BlocksAreApart, IndexIsExact, Unused
  <2>7. wake # Engine
    BY <1>1 DEF Wire, SocketOwner, Threads
  <2>8. AnswersFit'
    BY <1>1, <2>3, <2>7 DEF AnswersFit
  <2>9. StoreIsReady'
    BY <2>3, <2>5 DEF StoreIsReady
  <2>10. EntryIsOurs' /\ ReadIsReady' /\ WriteIsReady' /\ Phases'
    BY <1>1, <2>3 DEF EntryIsOurs, ReadIsReady, WriteIsReady, Phases, Writing
  <2> QED
    BY <1>2, <2>6, <2>8, <2>9, <2>10 DEF Rest
<1> QED
  BY <1>3, <1>4

LEMMA GenerateKeepsRest ==
  ASSUME Inv, TypeOK, Rest, Generate
  PROVE  Rest'
<1>1. Wire
  BY DEF Inv
<1>2. CASE Ensure \/ Configured \/ NotConfigured
  BY <1>1, <1>2, EnsureKeepsRest, ConfiguredKeepsRest
<1>3. CASE GetEntry \/ Found \/ NotFound \/ Read
  BY <1>1, <1>3, GetEntryKeepsRest, FoundKeepsRest, ComputeNextKeepsRest, ReadKeepsRest
<1>4. CASE \E out \in Outputs : Compute(out)
  BY <1>1, <1>4, ComputeKeepsRest
<1>5. CASE ComputeFails \/ StoreDone
  <2>1. /\ pc[Engine] # "recv" /\ UNCHANGED <<svc, mem, sock, wake>> /\ Return
    BY <1>5 DEF ComputeFails, StoreDone, Got, GenVars
  <2> QED
    BY <1>1, <2>1, ReturnKeepsRest
<1>6. CASE Prepare
  BY <1>1, <1>6, PrepareKeepsRest DEF TypeOK
<1>7. CASE Allocated \/ CopyOut \/ CopyAstray
  BY <1>1, <1>7, AllocatedKeepsRest, CopyKeepsRest
<1> QED
  BY <1>2, <1>3, <1>4, <1>5, <1>6, <1>7 DEF Generate

-----------------------------------------------------------------------------
(* Every step.                                                             *)
LEMMA RpcSteps ==
  ASSUME Wire, NEW t \in Threads, Rpc(t)
  PROVE  /\ pc[t] \in {"lock", "recv"} /\ pc'[t] \in {"recv", "got"}
         /\ UNCHANGED <<call, entries, gen, mem, svc>>
         /\ \A u \in Threads \ {t} : pc'[u] = pc[u] /\ reply'[u] = reply[u]
         /\ \/ wake' = t /\ pc'[t] = "recv" /\ sock'.answers = <<>>
            \/ /\ wake' = Nobody /\ pc'[t] = "got"
               /\ \/ reply'[t] = Failed
                  \/ wake = t /\ sock.answers # <<>> /\ reply'[t] = sock.answers[1]
<1>1. ASSUME NEW r, Finish(t, r)
      PROVE  /\ wake' = Nobody /\ pc'[t] = "got" /\ reply'[t] = r
             /\ \A u \in Threads \ {t} : pc'[u] = pc[u] /\ reply'[u] = reply[u]
  BY <1>1 DEF Finish, Goes, Wire, Shape
<1>2. ASSUME NEW s, Transmit(t, call[t], s), s.answers = <<>>, DOMAIN s = DOMAIN sock,
             reply' = reply
      PROVE  /\ pc'[t] = "recv" /\ sock'.answers = <<>>
             /\ \A u \in Threads \ {t} : pc'[u] = pc[u] /\ reply'[u] = reply[u]
  BY <1>2 DEF Transmit, Goes, Wire, Shape
<1>3. CASE Lock(t)
  <2>1. sock.answers = <<>> /\ UNCHANGED <<call, entries, gen, mem, svc>> /\ pc[t] = "lock"
    BY <1>3 DEF Lock, engineVars, Wire, SocketOwner
  <2>2. CASE Transmit(t, call[t], sock) /\ wake' = t /\ UNCHANGED reply
    BY <1>2, <2>1, <2>2
  <2>3. CASE Finish(t, Failed)
    BY <1>1, <2>1, <2>3
  <2> QED
    BY <1>3, <2>2, <2>3 DEF Lock
<1>4. pc[t] = "recv" => wake = t
  BY DEF Wire, SocketOwner
<1>5. CASE Receive(t)
  <2>1. /\ sock.answers # <<>> /\ UNCHANGED <<call, entries, gen, mem, svc>>
        /\ pc[t] = "recv" /\ Finish(t, Head(sock.answers))
    BY <1>5 DEF Receive, engineVars
  <2>2. Head(sock.answers) = sock.answers[1]
    BY <1>4, <1>5, <2>1, NamesAssumption DEF Wire, SocketOwner, Receive
  <2> QED
    BY <1>1, <1>4, <2>1, <2>2
<1>6. CASE ReceiveGarbled(t)
  BY <1>1, <1>6 DEF ReceiveGarbled, engineVars
<1>7. CASE ReceiveFails(t)
  <2>1. /\ UNCHANGED <<call, entries, gen, mem, svc>> /\ pc[t] = "recv"
    BY <1>7 DEF ReceiveFails
  <2>2. CASE Transmit(t, call[t], NoSocket) /\ UNCHANGED <<reply, wake>>
    <3>1. NoSocket.answers = <<>> /\ DOMAIN NoSocket = DOMAIN sock
      BY DEF NoSocket, Wire, Shape
    <3> QED
      BY <1>2, <1>4, <2>1, <2>2, <3>1
  <2>3. CASE Finish(t, Failed)
    BY <1>1, <2>1, <2>3
  <2> QED
    BY <1>7, <2>2, <2>3 DEF ReceiveFails
<1> QED
  BY <1>3, <1>5, <1>6, <1>7 DEF Rpc

LEMMA RpcKeepsRest ==
  ASSUME Wire, Rest, NEW t \in Threads, Rpc(t)
  PROVE  Rest'
<1>1. /\ pc[t] \in {"lock", "recv"} /\ pc'[t] \in {"recv", "got"}
      /\ UNCHANGED <<call, entries, gen, mem, svc>>
      /\ \A u \in Threads \ {t} : pc'[u] = pc[u] /\ reply'[u] = reply[u]
      /\ \/ wake' = t /\ pc'[t] = "recv" /\ sock'.answers = <<>>
         \/ /\ wake' = Nobody /\ pc'[t] = "got"
            /\ \/ reply'[t] = Failed
               \/ wake = t /\ sock.answers # <<>> /\ reply'[t] = sock.answers[1]
  BY RpcSteps
<1>2. Nobody # Engine /\ Engine \in Threads
  BY NamesAssumption DEF Threads
<1>3. CASE t # Engine
  BY <1>1, <1>2, <1>3, OthersKeepRest DEF Stays
<1>4. CASE t = Engine
  <2>1. \A r, d : Fits(r, d) => Fits(r, d)'
    BY <1>1 DEF Fits, LookupFits, Fresh, Unused
  <2>2. pc'[Engine] = "got" /\ reply'[Engine].ok => Fits(call'[Engine], reply'[Engine].data)
    BY <1>1, <1>4 DEF Failed, Rest, AnswersFit
  <2>3. AnswersFit'
    BY <1>1, <1>2, <1>4, <2>1, <2>2 DEF AnswersFit
  <2> QED
    BY <1>1, <1>4, <2>3, CallGoesOn
<1> QED
  BY <1>3, <1>4

(* A session thread works on another session than the generate. *)
LEMMA ClientsKeepRest ==
  ASSUME Inv, Rest, NEW c \in Clients, Steps(c), pc[c] # "recv",
         UNCHANGED <<gen, mem, svc, wake, sock>>,
         \/ entries' = entries
         \/ /\ pc[c] # "idle"
            /\ \A k \in 1..NEntries :
                 ~(entries[k].valid /\ entries[k].id = call[c].arg) => entries'[k] = entries[k]
  PROVE  Rest'
<1>1. c # Engine /\ Engine \in Threads
  BY NamesAssumption DEF Threads
<1>2. ASSUME Looking
      PROVE  entries'[gen.entry] = entries[gen.entry]
  <2>1. gen.entry \in 1..NEntries /\ entries[gen.entry].id = gen.id
    BY <1>2 DEF Rest, EntryIsOurs, Looking
  <2>2. pc[Engine] # "idle"
    BY <1>2 DEF Looking, On, Calling
  <2>3. pc[c] # "idle" => call[c].arg # gen.id
    BY <2>2 DEF Inv, SessionIsHeld
  <2> QED
    BY <2>1, <2>3
<1>3. Stays
  BY <1>1, <1>2 DEF Stays, Steps
<1> QED
  BY <1>3, OthersKeepRest

LEMMA SessionStepsKeepRest ==
  ASSUME Inv, Rest, NEW c \in Clients, Sessions(c)
  PROVE  Rest'
<1>1. Shape /\ c \in Threads /\ DOMAIN entries = 1..NEntries
  BY DEF Inv, Wire, Threads, EntriesAreRecords
<1>2. /\ pc[c] = "got" /\ UNCHANGED <<gen, mem, svc, wake, sock>> /\ Leaves(c, "idle")
  BY DEF Sessions, Created, Closed, WasReset, Got, Done, SessionVars, engineVars
<1>3. Steps(c)
  BY <1>1, <1>2, LeavesSteps
<1> DEFINE f == FindEntry(call[c].arg)
<1>4. f # 0 => f \in 1..NEntries /\ entries[f].valid /\ entries[f].id = call[c].arg
  BY FindEntryFinds
<1> HIDE DEF f
<1>5. \/ entries' = entries \/ entries' = Emptied(f)
      \/ entries' = [entries EXCEPT ![f].valid = FALSE]
  BY DEF Sessions, Created, Closed, WasReset, f
<1>6. ASSUME NEW k \in 1..NEntries, ~(entries[k].valid /\ entries[k].id = call[c].arg)
      PROVE  entries'[k] = entries[k]
  <2>1. f # k
    BY <1>4, <1>6
  <2> QED
    BY <1>1, <1>5, <2>1 DEF Emptied
<1> QED
  BY <1>2, <1>3, <1>6, ClientsKeepRest

LEMMA AsksKeepsRest ==
  ASSUME Inv, Rest, NEW c \in Clients, NEW m, NEW id \in Ids, Asks(c, m, id)
  PROVE  Rest'
<1>1. Shape /\ c \in Threads
  BY DEF Inv, Wire, Threads
<1>2. Steps(c)
  BY <1>1, CallsSteps DEF Asks
<1> QED
  BY <1>2, ClientsKeepRest DEF Asks, engineVars

LEMMA HeartbeatKeepsRest ==
  ASSUME Inv, Rest, Heartbeat \/ Close \/ Join
  PROVE  Rest'
<1>1. Engine # Beat /\ Engine \in Threads /\ Beat \in Threads /\ Engine # Nobody /\ Shape
  BY NamesAssumption DEF Threads, Engine, Beat, Inv, Wire
<1>2. UNCHANGED <<gen, mem, svc, entries>>
  BY DEF Heartbeat, Close, Join, Enter, TimeOut, WakeUp, Scan, BeatDone, BeatVars, engineVars
<1>3. pc'[Engine] = pc[Engine] /\ call'[Engine] = call[Engine] /\ reply'[Engine] = reply[Engine]
  BY <1>1 DEF Heartbeat, Close, Join, Enter, TimeOut, WakeUp, Scan, BeatDone, BeatVars,
              Goes, Leaves, Transmit, Shape
<1>4. wake' = Engine => wake = Engine /\ sock'.answers = sock.answers
  <2>1. CASE Heartbeat \/ Close
    BY <1>1, <2>1 DEF Heartbeat, Close, Enter, TimeOut, WakeUp, Scan, BeatDone, BeatVars
  <2>2. CASE Join
    BY <1>1, <2>2 DEF Join, Inv, ClosesAlone, Wire, SocketOwner
  <2> QED
    BY <2>1, <2>2
<1> QED
  BY <1>2, <1>3, <1>4, OthersKeepRest DEF Stays

LEMMA StepKeepsRest ==
  ASSUME Inv, TypeOK, CallsAreTyped, Rest, Next
  PROVE  Rest'
<1>1. Wire
  BY DEF Inv
<1>2. CASE UNCHANGED vars
  <2>1. Stays
    BY <1>2 DEF vars, Stays
  <2> QED
    BY <2>1, OthersKeepRest
<1>3. CASE Service
  BY <1>1, <1>3, ServiceStepKeepsRest
<1>4. CASE Generate
  BY <1>4, GenerateKeepsRest
<1>5. CASE Heartbeat \/ Close \/ Join
  BY <1>5, HeartbeatKeepsRest
<1>6. CASE \E t \in Threads : Rpc(t)
  BY <1>1, <1>6, RpcKeepsRest
<1>7. CASE \E c \in Clients : Sessions(c)
  BY <1>7, SessionStepsKeepRest
<1>8. CASE \E c \in Clients, id \in Ids :
             CreateSession(c, id) \/ CloseSession(c, id) \/ ResetSession(c, id)
  BY <1>8, AsksKeepsRest DEF CreateSession, CloseSession, ResetSession
<1>9. CASE \E id \in Ids, p \in Prompts : Start(id, p)
  BY <1>1, <1>9, StartKeepsRest
<1> QED
  BY <1>2, <1>3, <1>4, <1>5, <1>6, <1>7, <1>8, <1>9 DEF Next

-----------------------------------------------------------------------------
(* Types.                                                                  *)
LEMMA StepKeepsCalls ==
  ASSUME Inv, CallsAreTyped, Next
  PROVE  CallsAreTyped'
<1>1. /\ Engine # Beat /\ Engine \notin Clients /\ Beat \notin Clients
      /\ Engine \in Threads /\ Beat \in Threads /\ Clients \subseteq Threads
      /\ DOMAIN pc = Threads /\ DOMAIN call = Threads
  BY NamesAssumption DEF Threads, Engine, Beat, Inv, Wire, Shape
<1>2. ASSUME UNCHANGED <<pc, call>>
      PROVE  CallsAreTyped'
  BY <1>2 DEF CallsAreTyped, Calling
<1>3. ASSUME \A u \in Threads \ {Engine} : pc'[u] = pc[u] /\ call'[u] = call[u],
             Calling' => call'[Engine].m \in EngineMethods
      PROVE  CallsAreTyped'
  BY <1>1, <1>3 DEF CallsAreTyped
<1>4. ASSUME NEW c \in Clients,
             \A u \in Threads \ {c} : pc'[u] = pc[u] /\ call'[u] = call[u],
             pc'[c] # "idle" => call'[c].m \in SessionMethods /\ call'[c].arg \in Ids
      PROVE  CallsAreTyped'
  BY <1>1, <1>4 DEF CallsAreTyped, Calling
<1>5. ASSUME \A u \in Threads \ {Beat} : pc'[u] = pc[u] /\ call'[u] = call[u],
             pc'[Beat] \in {"lock", "recv"} => call'[Beat].m = "Heartbeat"
      PROVE  CallsAreTyped'
  BY <1>1, <1>5 DEF CallsAreTyped, Calling
<1>6. ASSUME NEW t \in Threads, NEW w, Leaves(t, w), w \notin {"lock", "recv", "got"}
      PROVE  /\ pc'[t] = w /\ \A u \in Threads \ {t} : pc'[u] = pc[u] /\ call'[u] = call[u]
  BY <1>1, <1>6 DEF Leaves, Goes
<1>7. ASSUME NEW t \in Threads, NEW m, NEW arg, Calls(t, m, arg)
      PROVE  /\ call'[t].m = m /\ call'[t].arg = arg
             /\ \A u \in Threads \ {t} : pc'[u] = pc[u] /\ call'[u] = call[u]
  BY <1>1, <1>7 DEF Calls, Request
<1>8. CASE UNCHANGED vars \/ Service
  BY <1>2, <1>8 DEF vars, Service, Serve, Refuse, Drop, Stop, Restart, Evict
<1>9. CASE Generate
  <2>1. ASSUME NEW w, Leaves(Engine, w), w \notin {"lock", "recv", "got"}
        PROVE  CallsAreTyped'
    BY <1>1, <1>3, <1>6, <2>1 DEF Calling
  <2>2. ASSUME NEW m \in EngineMethods, NEW arg, Calls(Engine, m, arg)
        PROVE  CallsAreTyped'
    BY <1>1, <1>3, <1>7, <2>2
  <2>3. \/ \E w \in {"idle", "entry", "prepare", "read", "compute", "ensure", "copy", "crashed"} :
             Leaves(Engine, w)
        \/ \E m \in EngineMethods : \E arg : Calls(Engine, m, arg)
    <3>1. CASE Ensure \/ Configured \/ NotConfigured
      BY <1>9, <3>1 DEF Ensure, Configured, NotConfigured, Ensured, Unavailable, Return,
                        EngineMethods
    <3>2. CASE GetEntry \/ Found \/ NotFound \/ Read
      BY <1>9, <3>2 DEF GetEntry, Found, NotFound, Read, EngineMethods
    <3>3. CASE (\E out \in Outputs : Compute(out)) \/ ComputeFails \/ Prepare \/ Allocated
      BY <1>9, <3>3 DEF Compute, ComputeFails, Prepare, Allocated, Return, EngineMethods
    <3>4. CASE CopyOut \/ CopyAstray \/ StoreDone
      BY <1>9, <3>4 DEF CopyOut, CopyAstray, StoreDone, Return, EngineMethods
    <3> QED
      BY <1>9, <3>1, <3>2, <3>3, <3>4 DEF Generate
  <2> QED
    BY <2>1, <2>2, <2>3
<1>10. CASE Heartbeat \/ Close \/ Join
  <2>1. CASE Enter \/ TimeOut \/ WakeUp
    BY <1>1, <1>5, <2>1 DEF Enter, TimeOut, WakeUp, Goes, CallsAreTyped
  <2>2. CASE Scan
    BY <1>1, <1>5, <1>6, <2>2 DEF Scan, Transmit, Goes, Request
  <2>3. CASE BeatDone
    BY <1>1, <1>5, <1>6, <2>3 DEF BeatDone
  <2>4. CASE Close
    BY <1>1, <1>5, <2>4 DEF Close, CallsAreTyped
  <2>5. CASE Join
    BY <1>2, <2>5 DEF Join
  <2> QED
    BY <1>10, <2>1, <2>2, <2>3, <2>4, <2>5 DEF Heartbeat
<1>11. CASE \E t \in Threads : Rpc(t)
  <2>1. PICK t \in Threads : Rpc(t)
    BY <1>11
  <2>2. /\ pc[t] \in {"lock", "recv"} /\ pc'[t] \in {"recv", "got"} /\ call' = call
        /\ \A u \in Threads \ {t} : pc'[u] = pc[u]
    BY <2>1, RpcSteps DEF Inv
  <2> QED
    BY <1>1, <2>2 DEF CallsAreTyped, Calling
<1>12. CASE \E c \in Clients : Sessions(c)
  <2>1. PICK c \in Clients : Leaves(c, "idle")
    BY <1>12 DEF Sessions, Created, Closed, WasReset, Done
  <2> QED
    BY <1>1, <1>4, <1>6, <2>1
<1>13. CASE \E c \in Clients, id \in Ids :
              CreateSession(c, id) \/ CloseSession(c, id) \/ ResetSession(c, id)
  <2>1. PICK c \in Clients, m \in SessionMethods, id \in Ids : Calls(c, m, id)
    BY <1>13 DEF CreateSession, CloseSession, ResetSession, Asks, SessionMethods
  <2> QED
    BY <1>1, <1>4, <1>7, <2>1
<1>14. CASE \E id \in Ids, p \in Prompts : Start(id, p)
  <2>1. Leaves(Engine, "ensure")
    BY <1>14 DEF Start
  <2> QED
    BY <1>1, <1>3, <1>6, <2>1 DEF Calling
<1> QED
  BY <1>8, <1>9, <1>10, <1>11, <1>12, <1>13, <1>14 DEF Next

LEMMA StepKeepsPcs ==
  ASSUME TypeOK, Next
  PROVE  pc' \in [Threads -> PCs]
<1>1. /\ pc \in [Threads -> PCs] /\ Engine \in Threads /\ Beat \in Threads
      /\ Clients \subseteq Threads
  BY DEF TypeOK, Threads
<1>2. ASSUME NEW t \in Threads, NEW w \in PCs, Goes(t, w)
      PROVE  pc' \in [Threads -> PCs]
  BY <1>1, <1>2 DEF Goes
<1>3. ASSUME NEW t \in Threads, NEW w \in PCs, Leaves(t, w)
      PROVE  pc' \in [Threads -> PCs]
  BY <1>2, <1>3 DEF Leaves
<1>4. ASSUME NEW t \in Threads, NEW m, NEW arg, Calls(t, m, arg)
      PROVE  pc' \in [Threads -> PCs]
  BY <1>1, <1>4 DEF Calls, PCs
<1>5. CASE UNCHANGED vars \/ Service \/ Join
  BY <1>1, <1>5 DEF vars, Service, Serve, Refuse, Drop, Stop, Restart, Evict, Join
<1>6. CASE Generate
  <2>1. \/ \E w \in PCs : Leaves(Engine, w)
        \/ \E m, arg : Calls(Engine, m, arg)
    <3>1. CASE Ensure \/ Configured \/ NotConfigured
      BY <1>6, <3>1 DEF Ensure, Configured, NotConfigured, Ensured, Unavailable, Return, PCs
    <3>2. CASE GetEntry \/ Found \/ NotFound \/ Read
      BY <1>6, <3>2 DEF GetEntry, Found, NotFound, Read, PCs
    <3>3. CASE (\E out \in Outputs : Compute(out)) \/ ComputeFails \/ Prepare \/ Allocated
      BY <1>6, <3>3 DEF Compute, ComputeFails, Prepare, Allocated, Return, PCs
    <3>4. CASE CopyOut \/ CopyAstray \/ StoreDone
      BY <1>6, <3>4 DEF CopyOut, CopyAstray, StoreDone, Return, PCs
    <3> QED
      BY <1>6, <3>1, <3>2, <3>3, <3>4 DEF Generate
  <2> QED
    BY <1>1, <1>3, <1>4, <2>1
<1>7. CASE Heartbeat
  <2>1. \E w \in PCs : Goes(Beat, w)
    BY <1>7 DEF Heartbeat, Enter, TimeOut, WakeUp, Scan, BeatDone, Leaves, Transmit, PCs
  <2> QED
    BY <1>1, <1>2, <2>1
<1>8. CASE Close
  BY <1>1, <1>8 DEF Close, PCs
<1>9. CASE \E t \in Threads : Rpc(t)
  <2>1. \E t \in Threads, w \in PCs : Goes(t, w)
    BY <1>9 DEF Rpc, Lock, Receive, ReceiveGarbled, ReceiveFails, Transmit, Finish, PCs
  <2> QED
    BY <1>2, <2>1
<1>10. CASE (\E c \in Clients : Sessions(c)) \/ \E id \in Ids, p \in Prompts : Start(id, p)
  <2>1. \E t \in Threads, w \in PCs : Leaves(t, w)
    BY <1>1, <1>10 DEF Sessions, Created, Closed, WasReset, Done, Start, PCs
  <2> QED
    BY <1>3, <2>1
<1>11. CASE \E c \in Clients, id \in Ids :
              CreateSession(c, id) \/ CloseSession(c, id) \/ ResetSession(c, id)
  <2>1. \E t \in Threads : \E m, arg : Calls(t, m, arg)
    BY <1>1, <1>11 DEF CreateSession, CloseSession, ResetSession, Asks
  <2> QED
    BY <1>4, <2>1
<1> QED
  BY <1>5, <1>6, <1>7, <1>8, <1>9, <1>10, <1>11 DEF Next

SocketTyped == again \in BOOLEAN /\ sock.connected \in BOOLEAN /\ sock.broken \in BOOLEAN

LEMMA StepKeepsSocket ==
  ASSUME Wire, SocketTyped, Next
  PROVE  SocketTyped'
<1>1. DOMAIN sock = {"connected", "broken", "reqs", "answers"}
  BY DEF Wire, Shape
<1>2. NoSocket.connected \in BOOLEAN /\ NoSocket.broken \in BOOLEAN
      /\ DOMAIN NoSocket = {"connected", "broken", "reqs", "answers"}
  BY DEF NoSocket
<1>3. ASSUME NEW t, NEW r, NEW s, Transmit(t, r, s), DOMAIN s = DOMAIN sock,
             s.connected \in BOOLEAN, s.broken \in BOOLEAN
      PROVE  sock'.connected \in BOOLEAN /\ sock'.broken \in BOOLEAN
  <2>1. CASE s.broken
    BY <1>3, <2>1 DEF Transmit
  <2>2. CASE ~s.broken
    <3> DEFINE q == Append(s.reqs, r)
    <3>1. sock' = [s EXCEPT !.connected = TRUE, !.reqs = q]
      BY <1>3, <2>2 DEF Transmit
    <3> HIDE DEF q
    <3> QED
      BY <1>1, <1>3, <3>1
  <2> QED
    BY <2>1, <2>2
<1>4. CASE Generate \/ UNCHANGED vars \/ Close \/ (\E c \in Clients : Sessions(c))
           \/ \E id \in Ids, p \in Prompts : Start(id, p)
  <2>1. UNCHANGED <<again, sock>>
    BY <1>4 DEF Generate, vars, Close, Sessions, Created, Closed, WasReset, Start, SessionVars,
                GenVars, Ensure, Configured, NotConfigured, GetEntry, Found, NotFound, Read,
                Compute, ComputeFails, Prepare, Allocated, CopyOut, CopyAstray, StoreDone
  <2> QED
    BY <2>1 DEF SocketTyped
<1>5. CASE \E c \in Clients, id \in Ids :
             CreateSession(c, id) \/ CloseSession(c, id) \/ ResetSession(c, id)
  BY <1>5 DEF SocketTyped, CreateSession, CloseSession, ResetSession, Asks
<1>6. ASSUME NEW a, Replies(a), again' = again
      PROVE  SocketTyped'
  <2> DEFINE q == Tail(sock.reqs)
             n == Append(sock.answers, a)
  <2>1. sock' = [sock EXCEPT !.reqs = q, !.answers = n]
    BY <1>6 DEF Replies
  <2> HIDE DEF q, n
  <2> QED
    BY <1>1, <1>6, <2>1 DEF SocketTyped
<1>7. CASE Service
  <2>1. again' = again
    BY <1>7 DEF Service, Serve, Refuse, Drop, Stop, Restart, Evict
  <2>2. CASE Serve \/ Refuse
    <3>1. \E a : Replies(a)
      BY <2>2 DEF Serve, Refuse, Execute
    <3> QED
      BY <1>6, <2>1, <3>1
  <2>3. CASE Drop \/ Stop
    BY <2>1, <2>3 DEF Drop, Stop, Breaks, NoSocket, SocketTyped
  <2>4. CASE Restart \/ Evict
    BY <2>1, <2>4 DEF Restart, Evict, SocketTyped
  <2> QED
    BY <1>7, <2>2, <2>3, <2>4 DEF Service
<1>8. CASE Heartbeat \/ Join
  <2>1. CASE Enter \/ TimeOut \/ WakeUp \/ BeatDone
    BY <2>1 DEF Enter, TimeOut, WakeUp, BeatDone, BeatVars, SocketTyped
  <2>2. CASE Scan
    BY <1>3, <2>2 DEF Scan, SocketTyped
  <2>3. CASE Join
    BY <1>2, <2>3 DEF Join, SocketTyped
  <2> QED
    BY <1>8, <2>1, <2>2, <2>3 DEF Heartbeat
<1>9. CASE \E t \in Threads : Rpc(t)
  <2>1. PICK t \in Threads : Rpc(t)
    BY <1>9
  <2>2. CASE Lock(t)
    BY <1>3, <2>2 DEF Lock, SocketTyped
  <2>3. CASE Receive(t) \/ ReceiveGarbled(t)
    <3> DEFINE q == Tail(sock.answers)
    <3>1. sock' = [sock EXCEPT !.answers = q] /\ again' = again
      BY <2>3 DEF Receive, ReceiveGarbled
    <3> HIDE DEF q
    <3> QED
      BY <1>1, <3>1 DEF SocketTyped
  <2>4. CASE ReceiveFails(t)
    BY <1>1, <1>2, <1>3, <2>4 DEF ReceiveFails, SocketTyped
  <2> QED
    BY <2>1, <2>2, <2>3, <2>4 DEF Rpc
<1> QED
  BY <1>4, <1>5, <1>7, <1>8, <1>9 DEF Next

ArenasTyped == arenas \in SeqOf({ArenaName}, MaxArenas) /\ own \in 0..Len(arenas)

LEMMA StepKeepsArenas ==
  ASSUME Rest, ArenasTyped, Next
  PROVE  ArenasTyped'
<1>1. /\ arenas \in Seq({ArenaName}) /\ Len(arenas) \in 0..MaxArenas
  BY NumbersAssumption DEF ArenasTyped, SeqOf
<1>2. ASSUME arenas' \in Seq({ArenaName}), Len(arenas') \in 0..MaxArenas,
             own' \in 0..Len(arenas')
      PROVE  ArenasTyped'
  <2>1. arenas' \in [1..Len(arenas') -> {ArenaName}]
    BY <1>2
  <2> QED
    BY <1>2, <2>1 DEF ArenasTyped, SeqOf
<1>3. CASE UNCHANGED <<arenas, own>>
  BY <1>3 DEF ArenasTyped
<1>4. CASE Configured
  <2>1. reply[Engine].data = ArenaName
    BY <1>4 DEF Configured, Got, Rest, AnswersFit, Fits
  <2> DEFINE p == Position(ArenaName)
  <2>2. p \in 0..Len(arenas)
    <3> DEFINE S == {k \in 1..Len(arenas) : arenas[k] = ArenaName}
    <3>1. CASE ArenaName = "" \/ S = {}
      <4>1. p = 0
        BY <3>1 DEF Position
      <4> HIDE DEF p
      <4> QED
        BY <1>1, <4>1
    <3>2. CASE ArenaName # "" /\ S # {}
      <4>1. p = CHOOSE k \in S : \A j \in S : k <= j
        BY <3>2 DEF Position
      <4>2. S \in SUBSET Nat
        OBVIOUS
      <4>3. S \subseteq 1..Len(arenas)
        OBVIOUS
      <4> HIDE DEF S, p
      <4>4. p \in S
        BY <3>2, <4>1, <4>2, HasLeast
      <4> QED
        BY <1>1, <4>3, <4>4
    <3> QED
      BY <3>1, <3>2
  <2> HIDE DEF p
  <2>3. CASE p # 0
    <3>1. own' = p /\ arenas' = arenas
      BY <1>4, <2>1, <2>3 DEF Configured, p
    <3> QED
      BY <1>1, <1>2, <2>2, <3>1
  <2>4. CASE p = 0
    <3>1. Len(arenas) < MaxArenas /\ arenas' = Append(arenas, ArenaName) /\ own' = Len(arenas')
      BY <1>4, <2>1, <2>4 DEF Configured, p
    <3> DEFINE a == Append(arenas, ArenaName)
    <3>2. a \in Seq({ArenaName}) /\ Len(a) = Len(arenas) + 1
      BY <1>1
    <3>3. arenas' = a
      BY <3>1
    <3> HIDE DEF a
    <3>4. Len(arenas') \in 0..MaxArenas
      BY <1>1, <3>1, <3>2, <3>3, NumbersAssumption
    <3> QED
      BY <1>2, <3>1, <3>2, <3>3, <3>4
  <2> QED
    BY <2>3, <2>4
<1>5. CASE Join
  <2>1. <<>> \in Seq({ArenaName}) /\ Len(<<>>) = 0
    OBVIOUS
  <2>2. arenas' = <<>> /\ own' = 0
    BY <1>5 DEF Join
  <2> QED
    BY <1>2, <2>1, <2>2, NumbersAssumption
<1>6. CASE own' = 0 /\ arenas' = arenas
  BY <1>1, <1>2, <1>6
<1>7. CASE Generate /\ ~Configured
  BY <1>3, <1>7 DEF Generate, Ensure, NotConfigured, GetEntry, Found, NotFound, Read,
                    Compute, ComputeFails, Prepare, Allocated, CopyOut, CopyAstray, StoreDone,
                    engineVars
<1>8. CASE \E t \in Threads : Rpc(t)
  BY <1>3, <1>6, <1>8 DEF Rpc, Lock, Receive, ReceiveGarbled, ReceiveFails, engineVars
<1>9. CASE Service \/ Heartbeat \/ Close \/ UNCHANGED vars
  BY <1>3, <1>9 DEF Service, Serve, Refuse, Drop, Stop, Restart, Evict, Heartbeat, Enter, TimeOut,
                    WakeUp, Scan, BeatDone, Close, vars, engineVars, BeatVars
<1>10. CASE \/ \E c \in Clients : Sessions(c)
            \/ \E id \in Ids, p \in Prompts : Start(id, p)
            \/ \E c \in Clients, id \in Ids :
                 CreateSession(c, id) \/ CloseSession(c, id) \/ ResetSession(c, id)
  BY <1>3, <1>10 DEF Sessions, Created, Closed, WasReset, SessionVars, engineVars, Start,
                     CreateSession, CloseSession, ResetSession, Asks
<1> QED
  BY <1>4, <1>5, <1>7, <1>8, <1>9, <1>10 DEF Next

EntryTyped(e) == e.id \in Ids \cup {Nobody} /\ e.len \in Nat
EntriesTyped == \A k \in 1..NEntries : EntryTyped(entries[k])

LEMMA StepKeepsEntries ==
  ASSUME Inv, Rest, EntriesTyped, gen.id \in Ids \cup {Nobody}, Next
  PROVE  EntriesTyped'
<1>1. /\ DOMAIN entries = 1..NEntries
      /\ \A k \in 1..NEntries : DOMAIN entries[k] = {"valid", "id", "len", "blocks"}
  BY DEF Inv, EntriesAreRecords
<1>2. CASE UNCHANGED entries
  BY <1>2 DEF EntriesTyped, EntryTyped
<1>3. ASSUME NEW k, NEW n \in Nat, NEW bs,
             entries' = [entries EXCEPT ![k].len = n, ![k].blocks = bs]
      PROVE  EntriesTyped'
  BY <1>1, <1>3 DEF EntriesTyped, EntryTyped
<1>4. ASSUME NEW k, entries' = Emptied(k)
      PROVE  EntriesTyped'
  BY <1>2, <1>3, <1>4 DEF Emptied
<1>5. CASE GetEntry
  <2>1. CASE \E k : entries' = [entries EXCEPT ![k] = [NoEntry EXCEPT !.valid = TRUE,
                                                                      !.id = gen.id]]
    <3>1. PICK k : entries' = [entries EXCEPT ![k] = [NoEntry EXCEPT !.valid = TRUE,
                                                                     !.id = gen.id]]
      BY <2>1
    <3> DEFINE e == [NoEntry EXCEPT !.valid = TRUE, !.id = gen.id]
    <3>2. e.id = gen.id /\ e.len = 0
      BY DEF NoEntry
    <3>3. entries' = [entries EXCEPT ![k] = e]
      BY <3>1
    <3> HIDE DEF e
    <3> QED
      BY <1>1, <3>2, <3>3 DEF EntriesTyped, EntryTyped
  <2> QED
    BY <1>2, <1>5, <2>1 DEF GetEntry
<1>6. CASE Found
  <2> DEFINE bs == Fitting(Sized(reply[Engine].data), Len(gen.prompt))
  <2>1. entries' = [entries EXCEPT ![gen.entry].len = Total(bs), ![gen.entry].blocks = bs]
    BY <1>6 DEF Found
  <2>2. Total(bs) \in Nat
    <3> DEFINE d == reply[Engine].data
               n == Len(gen.prompt)
    <3>1. LookupFits(d, gen.prompt)
      BY <1>6 DEF Found, Usable, Got, Rest, AnswersFit, EntryIsOurs, On, Calling, Fits
    <3>2. d.blocks \in Seq([b : Blocks, n : Nat]) /\ d.len \in Nat /\ n \in Nat
      BY <3>1 DEF LookupFits, Rest, GenIsTyped
    <3>3. bs = Fitting(Sized(d), n)
      OBVIOUS
    <3> HIDE DEF bs, d, n
    <3> QED
      BY <3>2, <3>3, FittingIs
  <2> HIDE DEF bs
  <2> QED
    BY <1>3, <2>1, <2>2
<1>7. CASE NotFound
  BY <1>4, <1>7 DEF NotFound
<1>8. CASE StoreDone
  <2>1. Len(gen.all) \in Nat
    BY DEF Rest, GenIsTyped
  <2> DEFINE n == Len(gen.all)
  <2>2. \/ entries' = entries
        \/ entries' = [entries EXCEPT ![gen.entry].len = n, ![gen.entry].blocks = <<>>]
    BY <1>8 DEF StoreDone
  <2> HIDE DEF n
  <2> QED
    BY <1>2, <1>3, <2>1, <2>2 DEF n
<1>9. CASE \E c \in Clients : Sessions(c)
  <2>1. \/ entries' = entries
        \/ \E k : entries' = Emptied(k)
        \/ \E k : entries' = [entries EXCEPT ![k].valid = FALSE]
    BY <1>9 DEF Sessions, Created, Closed, WasReset
  <2>2. ASSUME NEW k, entries' = [entries EXCEPT ![k].valid = FALSE]
        PROVE  EntriesTyped'
    BY <1>1, <2>2 DEF EntriesTyped, EntryTyped
  <2> QED
    BY <1>2, <1>4, <2>1, <2>2
<1>10. CASE Generate /\ ~GetEntry /\ ~Found /\ ~NotFound /\ ~StoreDone
  BY <1>2, <1>10 DEF Generate, Ensure, Configured, NotConfigured, Read, Compute, ComputeFails,
                     Prepare, Allocated, CopyOut, CopyAstray
<1>11. CASE \E t \in Threads : Rpc(t)
  BY <1>2, <1>11 DEF Rpc, Lock, Receive, ReceiveGarbled, ReceiveFails
<1>12. CASE Service \/ Heartbeat \/ Close \/ Join \/ UNCHANGED vars
  BY <1>2, <1>12 DEF Service, Serve, Refuse, Drop, Stop, Restart, Evict, Heartbeat, Enter, TimeOut,
                     WakeUp, Scan, BeatDone, Close, Join, vars, BeatVars
<1>13. CASE \/ \E id \in Ids, p \in Prompts : Start(id, p)
            \/ \E c \in Clients, id \in Ids :
                 CreateSession(c, id) \/ CloseSession(c, id) \/ ResetSession(c, id)
  BY <1>2, <1>13 DEF Start, CreateSession, CloseSession, ResetSession, Asks
<1> QED
  BY <1>5, <1>6, <1>7, <1>8, <1>9, <1>10, <1>11, <1>12, <1>13 DEF Next

SessionsTyped == open \subseteq Ids /\ gen.id \in Ids \cup {Nobody}

LEMMA StepKeepsSessions ==
  ASSUME CallsAreTyped, Rest, SessionsTyped, Next
  PROVE  SessionsTyped'
<1>1. DOMAIN gen = DOMAIN NoGen
  BY DEF Rest, GenIsTyped
<1>2. CASE UNCHANGED <<open, gen>>
  BY <1>2 DEF SessionsTyped
<1>3. CASE Return /\ open' = open
  BY <1>3 DEF Return, NoGen, SessionsTyped
<1>4. CASE Generate
  <2>1. open' = open
    BY <1>4 DEF Generate, GenVars, Ensure, Configured, NotConfigured, GetEntry, Found, NotFound,
                Read, Compute, ComputeFails, Prepare, Allocated, CopyOut, CopyAstray, StoreDone
  <2>2. gen'.id = gen.id \/ Return
    <3>1. CASE Ensure \/ Configured \/ NotConfigured \/ NotFound
      BY <3>1 DEF Ensure, Configured, NotConfigured, Unavailable, NotFound, engineVars
    <3>2. CASE GetEntry
      BY <1>1, <3>2 DEF GetEntry, NoGen
    <3>3. CASE Found
      BY <1>1, <3>3 DEF Found, NoGen
    <3>4. CASE Read
      BY <1>1, <3>4 DEF Read, NoGen
    <3>5. CASE \E out \in Outputs : Compute(out)
      BY <1>1, <3>5 DEF Compute, NoGen
    <3>6. CASE ComputeFails \/ StoreDone
      BY <3>6 DEF ComputeFails, StoreDone
    <3>7. CASE Prepare \/ Allocated
      BY <1>1, <3>7 DEF Prepare, Allocated, NoGen
    <3>8. CASE CopyOut \/ CopyAstray
      BY <3>8 DEF CopyOut, CopyAstray, engineVars
    <3> QED
      BY <1>4, <3>1, <3>2, <3>3, <3>4, <3>5, <3>6, <3>7, <3>8 DEF Generate
  <2> QED
    BY <1>3, <2>1, <2>2 DEF SessionsTyped
<1>5. CASE \E id \in Ids, p \in Prompts : Start(id, p)
  BY <1>5 DEF Start, NoGen, SessionsTyped
<1>6. CASE \E c \in Clients : Sessions(c)
  <2>1. gen' = gen
    BY <1>6 DEF Sessions, Created, Closed, WasReset, SessionVars, engineVars
  <2>2. PICK c \in Clients : Sessions(c)
    BY <1>6
  <2>3. call[c].arg \in Ids
    BY <2>2 DEF Sessions, Created, Closed, WasReset, Got, CallsAreTyped
  <2> QED
    BY <2>1, <2>2, <2>3 DEF Sessions, Created, Closed, WasReset, SessionsTyped
<1>7. CASE \E t \in Threads : Rpc(t)
  BY <1>2, <1>7 DEF Rpc, Lock, Receive, ReceiveGarbled, ReceiveFails, engineVars
<1>8. CASE Service \/ Heartbeat \/ Close \/ Join \/ UNCHANGED vars
  BY <1>2, <1>8 DEF Service, Serve, Refuse, Drop, Stop, Restart, Evict, Heartbeat, Enter, TimeOut,
                    WakeUp, Scan, BeatDone, Close, Join, vars, BeatVars, engineVars
<1>9. CASE \E c \in Clients, id \in Ids :
             CreateSession(c, id) \/ CloseSession(c, id) \/ ResetSession(c, id)
  BY <1>2, <1>9 DEF CreateSession, CloseSession, ResetSession, Asks, engineVars
<1> QED
  BY <1>4, <1>5, <1>6, <1>7, <1>8, <1>9 DEF Next

LEMMA StepKeepsData ==
  ASSUME Inv, Inv', Data, Next
  PROVE  Data'
<1>1. CallsAreTyped' /\ Rest'
  BY StepKeepsCalls, StepKeepsRest DEF Data
<1>2. SocketTyped /\ ArenasTyped /\ EntriesTyped /\ SessionsTyped /\ Wire
  BY DEF Data, TypeOK, SocketTyped, ArenasTyped, EntriesTyped, EntryTyped, SessionsTyped, Inv
<1>3. pc' \in [Threads -> PCs]
  BY StepKeepsPcs DEF Data
<1>4. SocketTyped' /\ ArenasTyped' /\ EntriesTyped' /\ SessionsTyped'
  BY <1>2, StepKeepsSocket, StepKeepsArenas, StepKeepsEntries, StepKeepsSessions
  DEF Data, SessionsTyped
<1>5. WakeHasOwner'
  BY DEF Inv, Wire
<1>6. svc'.reserved \subseteq Blocks /\ \A e \in svc'.index : e.b \in Blocks
  BY <1>1 DEF Rest, BlocksAreApart, IndexEntry
<1>7. TypeOK'
  BY <1>3, <1>4, <1>5, <1>6
  DEF TypeOK, SocketTyped, ArenasTyped, EntriesTyped, EntryTyped, SessionsTyped, WakeHasOwner
<1> QED
  BY <1>1, <1>7 DEF Data

LEMMA StartsWithData ==
  ASSUME Init
  PROVE  Data
<1>1. /\ \A t \in Threads : pc[t] \in {"idle", "loop"}
      /\ Engine \in Threads /\ pc[Engine] = "idle" /\ pc[Beat] = "loop" /\ wake = Nobody
      /\ Beat \in Threads /\ Clients \subseteq Threads /\ Nobody # Engine
      /\ \A c \in Clients : pc[c] = "idle"
  BY NamesAssumption DEF Init, Threads, Engine, Beat
<1>2. TypeOK
  <2>1. pc \in [Threads -> PCs]
    BY DEF Init, PCs
  <2>2. arenas \in SeqOf({ArenaName}, MaxArenas) /\ own \in 0..Len(arenas)
    <3>1. <<>> \in [1..0 -> {ArenaName}] /\ 0 \in 0..MaxArenas /\ 0 \in 0..Len(<<>>)
      BY NumbersAssumption
    <3> QED
      BY <3>1 DEF Init, SeqOf
  <2>3. \A k \in 1..NEntries : entries[k].id \in Ids \cup {Nobody} /\ entries[k].len \in Nat
    BY DEF Init, NoEntry
  <2>4. /\ wake \in Threads \cup {Nobody} /\ again \in BOOLEAN
        /\ sock.connected \in BOOLEAN /\ sock.broken \in BOOLEAN
    BY DEF Init, NoSocket
  <2>5. /\ open \subseteq Ids /\ gen.id \in Ids \cup {Nobody}
        /\ svc.reserved \subseteq Blocks /\ \A e \in svc.index : e.b \in Blocks
    BY DEF Init, NoGen
  <2> QED
    BY <2>1, <2>2, <2>3, <2>4, <2>5 DEF TypeOK
<1>3. CallsAreTyped
  BY <1>1 DEF CallsAreTyped, Calling
<1>4. BlocksAreApart /\ IndexIsExact
  BY DEF Init, BlocksAreApart, IndexIsExact
<1>5. AnswersFit /\ EntryIsOurs /\ ReadIsReady /\ WriteIsReady /\ StoreIsReady
  BY <1>1 DEF AnswersFit, EntryIsOurs, ReadIsReady, WriteIsReady, StoreIsReady, On, Calling
<1>6. GenIsTyped /\ HostIsExact /\ Phases
  <2>1. gen = NoGen
    BY DEF Init
  <2>2. <<>> = [i \in 1..Len(<<>>) |-> Prefix(<<>>, i)] /\ Len(<<>>) \in 0..Len(<<>>)
    OBVIOUS
  <2>3. GenIsTyped
    BY <2>1, NumbersAssumption DEF NoGen, GenIsTyped
  <2>4. HostIsExact /\ Phases
    BY <1>1, <2>1, <2>2 DEF NoGen, HostIsExact, Exact, Phases, Writing, On, Calling
  <2> QED
    BY <2>3, <2>4
<1> QED
  BY <1>2, <1>3, <1>4, <1>5, <1>6 DEF Data, Rest

(* The inductive invariant of the data. *)
THEOREM DataInvariant == Spec => []Data
<1>1. Init => Data
  BY StartsWithData
<1>2. Inv /\ Inv' /\ Data /\ [Next]_vars => Data'
  <2> SUFFICES ASSUME Inv, Inv', Data, [Next]_vars PROVE Data'
    OBVIOUS
  <2>1. CASE Next
    BY <2>1, StepKeepsData
  <2>2. CASE UNCHANGED vars
    <3>1. Stays
      BY <2>2 DEF vars, Stays
    <3>2. Rest'
      BY <3>1, OthersKeepRest DEF Data
    <3> QED
      BY <2>2, <3>2 DEF vars, Data, TypeOK, CallsAreTyped, Calling
  <2> QED
    BY <2>1, <2>2
<1> QED
  BY <1>1, <1>2, Invariant, PTL DEF Spec

(* Every variable has its type: no step of the client, and nothing that the  *)
(* service does, makes an arena of another name, a length that is no number,  *)
(* a block that is not of the pool, or an index outside the arenas.          *)
THEOREM TypeCorrect == Spec => []TypeOK
<1>1. Data => TypeOK
  BY DEF Data
<1> QED
  BY <1>1, DataInvariant, PTL

(* What service_read takes for the KV of a prefix of the prompt is that,     *)
(* unless a block it read was lost or another one's meanwhile.              *)
THEOREM ReadsAreExact == Spec => []ReadIsExact
<1>1. Data => ReadIsExact
  BY DEF Data, Rest, HostIsExact, ReadIsExact
<1> QED
  BY <1>1, DataInvariant, PTL

(* A block the service finds by some tokens holds the KV of those.           *)
THEOREM IndexStaysExact == Spec => []IndexIsExact
<1>1. Data => IndexIsExact
  BY DEF Data, Rest
<1> QED
  BY <1>1, DataInvariant, PTL
=============================================================================
