----------------------------- MODULE KvService -----------------------------
(***************************************************************************)
(* The client of the KV-cache service (src/ds3_kv_cache.c): remote calls    *)
(* over one socket with one retry, a heartbeat thread, a table of session    *)
(* entries, the mapped arenas, and lookup, read and write of one generate   *)
(* at a time.  wake_mutex is held for the length of a call.  mmap_mutex is   *)
(* left out: only the thread that generates takes it.                      *)
(*                                                                         *)
(* The service is another program.  It is modelled by what the client       *)
(* expects of it: it executes a request, then answers; it may stop, start    *)
(* again with or without its index, evict, refuse, and return blocks of      *)
(* other tokens, with the hash of those.  Its arenas survive it.             *)
(*                                                                         *)
(* The KV of a token is modelled by the tokens it was computed from.        *)
(***************************************************************************)
EXTENDS Integers, Sequences, SequencesExt, FiniteSets, Functions

CONSTANTS
  Ids,         \* session ids, shorter than 64 characters
  Clients,     \* threads that create, close and reset sessions
  Nobody,      \* no thread, no session
  NEntries,    \* DS3_KVC_SERVICE_SESSIONS
  MaxArenas,   \* DS3_KVC_MAX_ARENAS
  ArenaName,   \* shm_name in tiered mode, "" in mmap mode
  Blocks,      \* blocks of the service's pool
  BlockSize,   \* tokens per block
  Tokens,      \* what a token may be
  Prompts,     \* what is generated from: sequences of tokens
  Outputs,     \* and what a generate may emit
  MaxGenerates, MaxOps, MaxBeats, MaxFaults  \* bounds: how often each happens

Engine == "engine"     \* the thread that holds engine_mutex
Beat == "heartbeat"    \* service_heartbeat_thread
Threads == Clients \cup {Engine, Beat}

ASSUME NamesAssumption ==
  /\ Clients \cap {Engine, Beat} = {} /\ Nobody \notin Threads \cup Ids
ASSUME NumbersAssumption ==
  /\ NEntries \in Nat \ {0} /\ MaxArenas \in Nat \ {0} /\ BlockSize \in Nat \ {0}
  /\ MaxGenerates \in Nat /\ MaxOps \in Nat /\ MaxBeats \in Nat
  /\ MaxFaults \in Nat /\ IsFiniteSet(Blocks)
ASSUME TokensAssumption ==
  Prompts \cup Outputs \subseteq Seq(Tokens) /\ <<>> \notin Prompts

VARIABLES
  pc,        \* where each thread is
  call,      \* the request of each thread's call
  reply,     \* what its last call came back with
  wake,      \* who holds wake_mutex
  again,     \* the call in progress is in its second attempt
  sock,      \* the socket: connected, broken, requests and answers on it
  arenas,    \* names of the mapped arenas
  own,       \* own_arena_idx, 0 for -1
  entries,   \* svc->sessions
  shutdown,  \* svc->shutdown
  closer,    \* how far service_close is
  open,      \* sessions the daemon has open
  gen,       \* the locals of a generate
  svc,       \* the service: up, its index, reserved blocks, registered clients
  mem,       \* what the arena holds in each block
  left       \* bounds: what may still happen

engineVars == <<arenas, own, gen, mem>>
vars == <<pc, call, reply, wake, again, sock, arenas, own, entries, shutdown, closer,
          open, gen, svc, mem, left>>
-----------------------------------------------------------------------------
Prefix(s, n) == SubSeq(s, 1, n)
Least(a, b) == IF a < b THEN a ELSE b

NoSocket == [connected |-> FALSE, broken |-> FALSE, reqs |-> <<>>, answers |-> <<>>]
Request(t, m, arg) == [from |-> t, m |-> m, arg |-> arg]
NoRequest == Request(Nobody, "none", <<>>)
Failed == [rc |-> FALSE, ok |-> FALSE, to |-> NoRequest, data |-> <<>>]
Answer(r, ok, data) == [rc |-> TRUE, ok |-> ok, to |-> r, data |-> data]

NoEntry == [valid |-> FALSE, id |-> Nobody, len |-> 0, blocks |-> <<>>]
NoGen == [id |-> Nobody, phase |-> "none", prompt |-> <<>>, all |-> <<>>, cached |-> 0,
          entry |-> 0, host |-> <<>>, new |-> <<>>, spoiled |-> FALSE]

(* service_find_session_cache; 0 for NULL. *)
FindEntry(id) ==
  LET S == {k \in 1..NEntries : entries[k].valid /\ entries[k].id = id}
  IN  IF S = {} THEN 0 ELSE CHOOSE k \in S : \A j \in S : k <= j
FreeEntry ==
  LET S == {k \in 1..NEntries : ~entries[k].valid}
  IN  IF S = {} THEN 0 ELSE CHOOSE k \in S : \A j \in S : k <= j
Emptied(k) == IF k = 0 THEN entries
              ELSE [entries EXCEPT ![k].len = 0, ![k].blocks = <<>>]

(* Whoever works on a session holds its mutex. *)
Busy(id) == gen.id = id \/ \E c \in Clients : pc[c] # "idle" /\ call[c].arg = id
Crashed == pc[Engine] = "crashed"
-----------------------------------------------------------------------------
Init ==
  /\ pc = [t \in Threads |-> IF t = Beat THEN "loop" ELSE "idle"]
  /\ call = [t \in Threads |-> NoRequest]
  /\ reply = [t \in Threads |-> Failed]
  /\ wake = Nobody /\ again = FALSE /\ sock = NoSocket
  /\ arenas = <<>> /\ own = 0
  /\ entries = [k \in 1..NEntries |-> NoEntry]
  /\ shutdown = FALSE /\ closer = "none" /\ open = {} /\ gen = NoGen
  /\ svc = [up |-> TRUE, index |-> {}, reserved |-> {}, known |-> FALSE]
  /\ mem = [b \in Blocks |-> <<>>]
  /\ left = [gens |-> MaxGenerates, ops |-> MaxOps, beats |-> MaxBeats,
             faults |-> MaxFaults]

Spend(what) == left[what] > 0 /\ left' = [left EXCEPT ![what] = @ - 1]

(* A thread starts a call; the other parts of its step are up to it. *)
Calls(t, m, arg) ==
  /\ call' = [call EXCEPT ![t] = Request(t, m, arg)]
  /\ reply' = [reply EXCEPT ![t] = Failed]
  /\ pc' = [pc EXCEPT ![t] = "lock"]
Goes(t, where) == pc' = [pc EXCEPT ![t] = where]
Leaves(t, where) ==  \* the locals of a call go
  /\ call' = [call EXCEPT ![t] = NoRequest]
  /\ reply' = [reply EXCEPT ![t] = Failed]
  /\ Goes(t, where)
Got(t, m) == pc[t] = "got" /\ call[t].m = m
-----------------------------------------------------------------------------
(* service_call, and service_call_inner for the heartbeat: a request is      *)
(* sent, over a new connection if there is none, and its answer awaited.    *)
(* A write that fails is as good as a read that does.                      *)
Finish(t, r) ==
  /\ reply' = [reply EXCEPT ![t] = r]
  /\ wake' = Nobody
  /\ Goes(t, "got")

Transmit(t, request, s) ==  \* over socket s
  /\ sock' = IF s.broken THEN s ELSE [s EXCEPT !.connected = TRUE, !.reqs = Append(@, request)]
  /\ Goes(t, "recv")
Lock(t) ==
  /\ pc[t] = "lock" /\ wake = Nobody
  /\ again' = FALSE
  /\ IF sock.connected \/ svc.up
     THEN Transmit(t, call[t], sock) /\ wake' = t /\ UNCHANGED reply
     ELSE Finish(t, Failed) /\ UNCHANGED sock
  /\ UNCHANGED <<engineVars, call, entries, shutdown, closer, open, svc, left>>

Receive(t) ==
  /\ pc[t] = "recv" /\ ~sock.broken /\ sock.answers # <<>>
  /\ sock' = [sock EXCEPT !.answers = Tail(@)]
  /\ Finish(t, Head(sock.answers))
  /\ UNCHANGED <<engineVars, call, again, entries, shutdown, closer, open, svc, left>>

(* The answer is read whole and does not decode: the connection is kept. *)
ReceiveGarbled(t) ==
  /\ pc[t] = "recv" /\ ~sock.broken /\ sock.answers # <<>>
  /\ Spend("faults")
  /\ sock' = [sock EXCEPT !.answers = Tail(@)]
  /\ Finish(t, Failed)
  /\ UNCHANGED <<engineVars, call, again, entries, shutdown, closer, open, svc>>

(* read returns 0 or -1, because the connection is broken or a signal came: *)
(* service_disconnect, and the second attempt or the end.                   *)
Interrupted == IF sock.broken THEN UNCHANGED left ELSE Spend("faults")

(* Mutant: the retry goes over the connection whose read failed. *)
ReceiveFails_KeepsSocket(t) ==
  /\ pc[t] = "recv" /\ Interrupted
  /\ own' = 0
  /\ IF ~again /\ svc.up
     THEN /\ again' = TRUE /\ Transmit(t, call[t], IF sock.broken THEN NoSocket ELSE sock)
          /\ UNCHANGED <<reply, wake>>
     ELSE Finish(t, Failed) /\ sock' = NoSocket /\ UNCHANGED again
  /\ UNCHANGED <<call, entries, shutdown, closer, open, svc, arenas, gen, mem>>
(* Mutant: a call is repeated until it is answered. *)
ReceiveFails_Forever(t) ==
  /\ pc[t] = "recv" /\ Interrupted
  /\ own' = 0
  /\ IF svc.up
     THEN again' = TRUE /\ Transmit(t, call[t], NoSocket) /\ UNCHANGED <<reply, wake>>
     ELSE UNCHANGED <<pc, sock, again, reply, wake>>
  /\ UNCHANGED <<call, entries, shutdown, closer, open, svc, arenas, gen, mem>>
ReceiveFails(t) ==
  /\ pc[t] = "recv" /\ Interrupted
  /\ own' = 0
  /\ IF ~again /\ svc.up
     THEN again' = TRUE /\ Transmit(t, call[t], NoSocket) /\ UNCHANGED <<reply, wake>>
     ELSE Finish(t, Failed) /\ sock' = NoSocket /\ UNCHANGED again
  /\ UNCHANGED <<call, entries, shutdown, closer, open, svc, arenas, gen, mem>>

Rpc(t) == Lock(t) \/ Receive(t) \/ ReceiveGarbled(t) \/ ReceiveFails(t)
-----------------------------------------------------------------------------
(* The service.                                                            *)
Ends(e) == Len(e.toks)
Contiguous(s) ==
  \A k \in 1..Len(s) :
    /\ Ends(s[k]) - s[k].n = IF k = 1 THEN 0 ELSE Ends(s[k - 1])
    /\ k > 1 => IsPrefix(s[k - 1].toks, s[k].toks)
Chains == {s \in SeqOf(svc.index, Cardinality(svc.index)) : Contiguous(s)}
Covered(s) == IF s = <<>> THEN <<>> ELSE s[Len(s)].toks

(* Blocks that cover a prefix of the prompt, and maybe more than the prompt; *)
(* len and hash say which tokens of the prompt the service takes them for. *)
LookupAnswers(r) ==
  {LET len == Least(Len(Covered(s)), Len(r.arg))
   IN  Answer(r, TRUE, [blocks |-> [k \in 1..Len(s) |-> [b |-> s[k].b, n |-> s[k].n]],
                        len |-> len, hash |-> Prefix(Covered(s), len)]) : s \in Chains}

(* A prefix the service does not have, or not up to a block's end, and      *)
(* blocks it did not reserve are refused.                                  *)
Acceptable(st) ==
  /\ \A k \in 1..Len(st.ids) : st.ids[k] \in svc.reserved
  /\ st.cached = 0 \/ \E s \in Chains : Covered(s) = Prefix(st.tokens, st.cached)
Stored(st) ==
  {LET end == Least(st.cached + k * BlockSize, Len(st.tokens))
   IN  [toks |-> Prefix(st.tokens, end), n |-> end - (st.cached + (k - 1) * BlockSize),
        b |-> st.ids[k], clean |-> st.clean] : k \in 1..Len(st.ids)}

InUse == svc.reserved \cup {e.b : e \in svc.index}

Replies(answer) ==
  sock' = [sock EXCEPT !.reqs = Tail(@), !.answers = Append(@, answer)]

Execute(r) ==
  \/ /\ r.m \in {"CreateSession", "ResetSession", "CloseSession", "Heartbeat"}
     /\ Replies(Answer(r, TRUE, <<>>)) /\ UNCHANGED svc
  \/ /\ r.m = "GetConfig"
     /\ svc' = [svc EXCEPT !.known = TRUE]
     /\ Replies(Answer(r, TRUE, ArenaName))
  \/ /\ r.m = "Lookup"
     /\ \E a \in LookupAnswers(r) : Replies(a)
     /\ UNCHANGED svc
  \/ /\ r.m = "Allocate"
     /\ LET free == Blocks \ InUse IN
        IF Cardinality(free) < r.arg THEN Replies(Answer(r, FALSE, <<>>)) /\ UNCHANGED svc
        ELSE LET ids == Prefix(SetToSeq(free), r.arg)  \* some that are free
             IN  /\ Replies(Answer(r, TRUE, ids))
                 /\ svc' = [svc EXCEPT !.reserved = @ \cup ToSet(ids)]
  \/ /\ r.m = "Store"
     /\ IF Acceptable(r.arg)
        THEN /\ Replies(Answer(r, TRUE, <<>>))
             /\ svc' = [svc EXCEPT !.index = @ \cup Stored(r.arg),
                                   !.reserved = @ \ ToSet(r.arg.ids)]
        ELSE Replies(Answer(r, FALSE, <<>>)) /\ UNCHANGED svc

Serve ==
  /\ svc.up /\ ~sock.broken /\ sock.reqs # <<>>
  /\ Execute(Head(sock.reqs))
  /\ UNCHANGED <<engineVars, pc, call, reply, wake, again, entries, shutdown, closer, open,
                 left>>

(* A refusal, or blocks that are promised and not named.                    *)
Refuse ==
  LET r == Head(sock.reqs) IN
  /\ svc.up /\ ~sock.broken /\ sock.reqs # <<>>
  /\ Spend("faults")
  /\ Replies(Answer(r, FALSE, <<>>)) \/ (r.m = "Allocate" /\ Replies(Answer(r, TRUE, <<>>)))
  /\ UNCHANGED <<engineVars, pc, call, reply, wake, again, entries, shutdown, closer, open,
                 svc>>

Breaks == sock' = IF sock.connected THEN [NoSocket EXCEPT !.connected = TRUE, !.broken = TRUE]
                  ELSE sock
Drop ==
  /\ sock.connected /\ ~sock.broken
  /\ Spend("faults")
  /\ Breaks
  /\ UNCHANGED <<engineVars, pc, call, reply, wake, again, entries, shutdown, closer, open,
                 svc>>
Stop ==
  /\ svc.up /\ Spend("faults")
  /\ Breaks
  /\ \E index \in {{}, svc.index} :
       svc' = [up |-> FALSE, index |-> index, reserved |-> {}, known |-> FALSE]
  /\ UNCHANGED <<engineVars, pc, call, reply, wake, again, entries, shutdown, closer, open>>
Restart ==
  /\ ~svc.up
  /\ svc' = [svc EXCEPT !.up = TRUE]
  /\ UNCHANGED <<engineVars, pc, call, reply, wake, again, sock, entries, shutdown, closer,
                 open, left>>
Evict ==
  /\ svc.up /\ Spend("faults")
  /\ \E e \in svc.index : svc' = [svc EXCEPT !.index = @ \ {e}]
  /\ UNCHANGED <<engineVars, pc, call, reply, wake, again, sock, entries, shutdown, closer,
                 open>>

Service == Serve \/ Refuse \/ Drop \/ Stop \/ Restart \/ Evict
-----------------------------------------------------------------------------
(* The generate.                                                           *)
Start(id, p) ==
  /\ pc[Engine] = "idle" /\ closer = "none" /\ id \in open /\ ~Busy(id)
  /\ Spend("gens")
  /\ gen' = [NoGen EXCEPT !.id = id, !.phase = "lookup", !.prompt = p]
  /\ Leaves(Engine, "ensure")
  /\ UNCHANGED <<wake, again, sock, arenas, own, entries, shutdown, closer, open, svc, mem>>

GenVars == <<wake, again, sock, shutdown, closer, open, svc, left>>

Return == gen' = NoGen /\ Leaves(Engine, "idle")

(* service_ensure_shm_arena. *)
Ensured == IF gen.phase = "lookup" THEN "entry" ELSE "prepare"
Unavailable ==  \* it returned -1
  IF gen.phase = "lookup" THEN Leaves(Engine, "compute") /\ UNCHANGED gen ELSE Return
Ensure ==
  /\ pc[Engine] = "ensure"
  /\ IF own # 0 THEN Leaves(Engine, Ensured)
     ELSE Calls(Engine, "GetConfig", <<>>)
  /\ UNCHANGED <<engineVars, entries, GenVars>>

(* An arena of a name is opened once; the file of mmap mode every time. *)
Position(name) ==
  LET S == {k \in 1..Len(arenas) : arenas[k] = name} IN
  IF name = "" \/ S = {} THEN 0 ELSE CHOOSE k \in S : \A j \in S : k <= j
Configured ==
  LET r == reply[Engine] IN
  /\ Got(Engine, "GetConfig")
  /\ r.ok /\ (Position(r.data) # 0 \/ Len(arenas) < MaxArenas)
  /\ IF Position(r.data) # 0 THEN own' = Position(r.data) /\ UNCHANGED arenas
     ELSE arenas' = Append(arenas, r.data) /\ own' = Len(arenas')
  /\ Leaves(Engine, Ensured)
  /\ UNCHANGED <<gen, mem, entries, GenVars>>
NotConfigured ==
  LET r == reply[Engine] IN
  /\ Got(Engine, "GetConfig")
  /\ ~r.ok \/ (Position(r.data) = 0 /\ Len(arenas) = MaxArenas)
  /\ Unavailable
  /\ UNCHANGED <<arenas, own, mem, entries, GenVars>>

(* service_alloc_session_cache. *)
GetEntry ==
  LET k == IF FindEntry(gen.id) # 0 THEN FindEntry(gen.id) ELSE FreeEntry IN
  /\ pc[Engine] = "entry" /\ wake = Nobody
  /\ IF k = 0
     THEN Leaves(Engine, "compute") /\ UNCHANGED <<gen, entries>>
     ELSE /\ entries' = IF FindEntry(gen.id) # 0 THEN entries
                        ELSE [entries EXCEPT ![k] = [NoEntry EXCEPT !.valid = TRUE,
                                                                    !.id = gen.id]]
          /\ gen' = [gen EXCEPT !.entry = k]
          /\ Calls(Engine, "Lookup", gen.prompt)
  /\ UNCHANGED <<arenas, own, mem, GenVars>>

(* Blocks follow one another.  The size of each comes from its header, or is *)
(* a guess if the block is no longer valid; after a guess that was too large  *)
(* the next one is below zero.                                             *)
Valid(b) == \E e \in svc.index : e.b = b
SizeOf(d, k, at) ==
  IF Valid(d.blocks[k].b) THEN d.blocks[k].n ELSE Least(BlockSize, d.len - at)
Sized(d) ==
  LET Begin[k \in 1..Len(d.blocks)] ==
        IF k = 1 THEN 0 ELSE Begin[k - 1] + SizeOf(d, k - 1, Begin[k - 1])
  IN  [k \in 1..Len(d.blocks) |->
         [b |-> d.blocks[k].b, start |-> Begin[k], n |-> SizeOf(d, k, Begin[k])]]
Total(bs) == IF bs = <<>> THEN 0 ELSE bs[Len(bs)].start + bs[Len(bs)].n

Fitting(bs, n) ==
  LET fits(k) == \A j \in 1..k : bs[j].start + bs[j].n <= n
      K == {k \in 0..Len(bs) : fits(k)}
  IN  Prefix(bs, CHOOSE k \in K : \A j \in K : j <= k)

(* History: the block is still what it was stored as, by a generate that     *)
(* could vouch for it.  One that reads another is spoiled.                  *)
Sound(b) == \E e \in svc.index : e.b = b /\ e.clean

(* Mutant: the hash of the prefix is not compared. *)
Trusted_Always(d) == TRUE
Trusted(d) == d.len = 0 \/ d.hash = Prefix(gen.prompt, d.len)

(* service_lookup after its call.  A block of the own arena cannot be found *)
(* if a heartbeat lost the connection since.                               *)
Usable(r) == r.rc /\ r.ok /\ Trusted(r.data) /\ (r.data.blocks = <<>> \/ own # 0)
Found ==
  LET d == reply[Engine].data
      bs == Fitting(Sized(d), Len(gen.prompt)) IN
  /\ Got(Engine, "Lookup") /\ Usable(reply[Engine])
  /\ entries' = [entries EXCEPT ![gen.entry].len = Total(bs), ![gen.entry].blocks = bs]
  /\ gen' = [gen EXCEPT !.cached = Total(bs),
                        !.spoiled = \E k \in 1..Len(bs) : ~Sound(bs[k].b)]
  /\ Leaves(Engine, IF Total(bs) > 0 THEN "read" ELSE "compute")
  /\ UNCHANGED <<arenas, own, mem, GenVars>>
NotFound ==
  /\ Got(Engine, "Lookup") /\ ~Usable(reply[Engine])
  /\ entries' = Emptied(gen.entry)
  /\ Leaves(Engine, "compute")
  /\ UNCHANGED <<arenas, own, mem, gen, GenVars>>

(* service_read: position i comes from the block that covers it. *)
Cell(bs, i) ==
  LET k == CHOOSE j \in 1..Len(bs) : bs[j].start < i /\ i <= bs[j].start + bs[j].n
      data == mem[bs[k].b]
  IN  IF i - bs[k].start \in DOMAIN data THEN data[i - bs[k].start] ELSE <<>>
Read ==
  LET k == FindEntry(gen.id) IN
  /\ pc[Engine] = "read" /\ wake = Nobody
  /\ IF k # 0 /\ entries[k].len >= gen.cached /\ own # 0
     THEN gen' = [gen EXCEPT !.host = [i \in 1..gen.cached |-> Cell(entries[k].blocks, i)]]
     ELSE gen' = [gen EXCEPT !.cached = 0]
  /\ Leaves(Engine, "compute")
  /\ UNCHANGED <<arenas, own, mem, entries, GenVars>>

(* The rest of ds3_engine_generate_ex: see EngineGenerate.  It may fail or  *)
(* emit tokens.                                                            *)
Exact == gen.host = [i \in 1..Len(gen.host) |-> Prefix(gen.prompt, i)]
Compute(out) ==
  /\ pc[Engine] = "compute"
  /\ gen' = [gen EXCEPT !.all = gen.prompt \o out, !.phase = "write"]
  /\ Leaves(Engine, "ensure")
  /\ UNCHANGED <<arenas, own, mem, entries, GenVars>>
ComputeFails ==
  /\ pc[Engine] = "compute"
  /\ Return
  /\ UNCHANGED <<arenas, own, mem, entries, GenVars>>
Unit(i) == IF i <= Len(gen.host) THEN gen.host[i]
           ELSE IF Exact THEN Prefix(gen.all, i) ELSE <<>>

(* service_write: what the entry says is cached is skipped. *)
NumBlocks(n) == (n + BlockSize - 1) \div BlockSize
Prepare ==
  LET k == FindEntry(gen.id)
      c == IF k = 0 THEN 0 ELSE Least(entries[k].len, Len(gen.all)) IN
  /\ pc[Engine] = "prepare" /\ wake = Nobody
  /\ IF c = Len(gen.all) THEN Return
     ELSE /\ gen' = [gen EXCEPT !.entry = k, !.cached = c]
          /\ Calls(Engine, "Allocate", NumBlocks(Len(gen.all) - c))
  /\ UNCHANGED <<arenas, own, mem, entries, GenVars>>
Allocated ==
  LET r == reply[Engine]
      enough == r.ok /\ Len(r.data) = NumBlocks(Len(gen.all) - gen.cached)
  IN
  /\ Got(Engine, "Allocate")
  /\ IF enough THEN gen' = [gen EXCEPT !.new = r.data] /\ Leaves(Engine, "copy") ELSE Return
  /\ UNCHANGED <<arenas, own, mem, entries, GenVars>>

(* Mutant: the first block starts with the first token. *)
Chunk_FromZero(k) ==
  [j \in 1..(Least(gen.cached + k * BlockSize, Len(gen.all)) -
             (gen.cached + (k - 1) * BlockSize)) |-> Unit((k - 1) * BlockSize + j)]
(* The tokens of the k-th new block. *)
Chunk(k) ==
  [j \in 1..(Least(gen.cached + k * BlockSize, Len(gen.all)) -
             (gen.cached + (k - 1) * BlockSize)) |-> Unit(gen.cached + (k - 1) * BlockSize + j)]
CopyOut ==
  /\ pc[Engine] = "copy" /\ own # 0
  /\ mem' = [b \in Blocks |->
               IF \E k \in 1..Len(gen.new) : gen.new[k] = b
               THEN Chunk(CHOOSE k \in 1..Len(gen.new) : gen.new[k] = b) ELSE mem[b]]
  /\ Calls(Engine, "Store", [tokens |-> gen.all, cached |-> gen.cached, ids |-> gen.new,
                               clean |-> ~gen.spoiled])
  /\ UNCHANGED <<arenas, own, gen, entries, GenVars>>

(* svc->arenas[-1]: what lies before the array is taken for an arena.  The   *)
(* program ends there.                                                     *)
CopyAstray ==
  /\ pc[Engine] = "copy" /\ own = 0
  /\ Leaves(Engine, "crashed")
  /\ UNCHANGED <<engineVars, entries, GenVars>>

StoreDone ==
  LET k == gen.entry IN
  /\ Got(Engine, "Store")
  /\ entries' = IF reply[Engine].ok /\ k # 0
                THEN [entries EXCEPT ![k].len = Len(gen.all), ![k].blocks = <<>>]
                ELSE entries
  /\ Return
  /\ UNCHANGED <<arenas, own, mem, GenVars>>

Generate ==
  \/ Ensure \/ Configured \/ NotConfigured \/ GetEntry \/ Found \/ NotFound \/ Read
  \/ (\E out \in Outputs : Compute(out)) \/ ComputeFails
  \/ Prepare \/ Allocated \/ CopyOut \/ CopyAstray \/ StoreDone
-----------------------------------------------------------------------------
(* Session threads.  The daemon ignores what the provider returns.         *)
Asks(c, m, id) ==
  /\ pc[c] = "idle" /\ closer = "none" /\ ~Busy(id)
  /\ Spend("ops")
  /\ Calls(c, m, id)
  /\ UNCHANGED <<engineVars, wake, again, sock, entries, shutdown, closer, open, svc>>
CreateSession(c, id) == id \notin open /\ Asks(c, "CreateSession", id)
CloseSession(c, id) == id \in open /\ Asks(c, "CloseSession", id)
ResetSession(c, id) == id \in open /\ Asks(c, "ResetSession", id)

SessionVars == <<engineVars, wake, again, sock, shutdown, closer, svc, left>>
Done(c) == Leaves(c, "idle")

Created(c) ==
  /\ Got(c, "CreateSession") /\ wake = Nobody
  /\ entries' = IF reply[c].rc THEN Emptied(FindEntry(call[c].arg)) ELSE entries
  /\ open' = open \cup {call[c].arg}
  /\ Done(c)
  /\ UNCHANGED SessionVars

(* Mutant: a call that fails ends the close. *)
Closed_IfAnswered(c) ==
  LET k == FindEntry(call[c].arg) IN
  /\ Got(c, "CloseSession") /\ wake = Nobody
  /\ entries' = IF k = 0 \/ ~reply[c].rc THEN entries
                ELSE [entries EXCEPT ![k].valid = FALSE]
  /\ open' = open \ {call[c].arg}
  /\ Done(c)
  /\ UNCHANGED SessionVars
Closed(c) ==
  LET k == FindEntry(call[c].arg) IN
  /\ Got(c, "CloseSession") /\ wake = Nobody
  /\ entries' = IF k = 0 THEN entries ELSE [entries EXCEPT ![k].valid = FALSE]
  /\ open' = open \ {call[c].arg}
  /\ Done(c)
  /\ UNCHANGED SessionVars
WasReset(c) ==
  /\ Got(c, "ResetSession") /\ wake = Nobody
  /\ entries' = IF reply[c].rc THEN Emptied(FindEntry(call[c].arg)) ELSE entries
  /\ Done(c)
  /\ UNCHANGED <<open, SessionVars>>

Sessions(c) == Created(c) \/ Closed(c) \/ WasReset(c)
-----------------------------------------------------------------------------
(* The heartbeat thread and service_close.                                 *)
BeatVars == <<engineVars, again, sock, entries, shutdown, closer, open, svc>>

(* wait_or_shutdown, entered under wake_mutex and left with it. *)
Enter ==
  /\ pc[Beat] = "loop" /\ wake = Nobody
  /\ Goes(Beat, IF shutdown THEN "done" ELSE "wait")
  /\ UNCHANGED <<BeatVars, call, reply, wake, left>>
(* The interval is over; that is told even if the flag was set meanwhile. *)
TimeOut ==
  /\ pc[Beat] \in {"wait", "woken"} /\ wake = Nobody
  /\ Spend("beats")
  /\ Goes(Beat, "scan")
  /\ UNCHANGED <<BeatVars, call, reply, wake>>
WakeUp ==
  /\ pc[Beat] = "woken" /\ wake = Nobody
  /\ Goes(Beat, "done")
  /\ UNCHANGED <<BeatVars, call, reply, wake, left>>

(* service_heartbeat: the scan, and the call, under wake_mutex.  What comes  *)
(* back is of no use.                                                      *)
Listed == {entries[k].id : k \in {j \in 1..NEntries : entries[j].valid}}
Scan ==
  LET request == Request(Beat, "Heartbeat", Listed) IN
  /\ pc[Beat] = "scan" /\ wake = Nobody
  /\ again' = FALSE
  /\ IF sock.connected \/ svc.up
     THEN /\ Transmit(Beat, request, sock) /\ wake' = Beat
          /\ call' = [call EXCEPT ![Beat] = request] /\ UNCHANGED reply
     ELSE Leaves(Beat, "loop") /\ UNCHANGED <<sock, wake>>
  /\ UNCHANGED <<engineVars, entries, shutdown, closer, open, svc, left>>
BeatDone ==
  /\ Got(Beat, "Heartbeat")
  /\ Leaves(Beat, "loop")
  /\ UNCHANGED <<BeatVars, wake, left>>

(* The daemon closes the provider when no request runs any more. *)
Close ==
  /\ closer = "none" /\ wake = Nobody
  /\ \A t \in Threads \ {Beat} : pc[t] = "idle"
  /\ closer' = "join" /\ shutdown' = TRUE
  /\ pc' = [pc EXCEPT ![Beat] = IF @ = "wait" THEN "woken" ELSE @]  \* the broadcast
  /\ UNCHANGED <<engineVars, call, reply, wake, again, sock, entries, open, svc, left>>

(* Mutant: the connection is not closed. *)
Join_KeepsConnection ==
  /\ closer = "join" /\ pc[Beat] = "done"
  /\ closer' = "closed"
  /\ arenas' = <<>> /\ UNCHANGED <<sock, own>>
  /\ UNCHANGED <<gen, mem, pc, call, reply, wake, again, entries, shutdown, open, svc, left>>
Join ==
  /\ closer = "join" /\ pc[Beat] = "done"
  /\ closer' = "closed"
  /\ sock' = NoSocket /\ own' = 0 /\ arenas' = <<>>
  /\ UNCHANGED <<gen, mem, pc, call, reply, wake, again, entries, shutdown, open, svc, left>>

Heartbeat == Enter \/ TimeOut \/ WakeUp \/ Scan \/ BeatDone

(* Once closed the service is nobody's concern. *)
Over == closer = "closed" \/ Crashed
-----------------------------------------------------------------------------
Next ==
  \/ /\ ~Over
     /\ \/ Service \/ Generate \/ Heartbeat \/ Close \/ Join
        \/ \E t \in Threads : Rpc(t)
        \/ \E c \in Clients : Sessions(c)
        \/ \E c \in Clients, id \in Ids :
             CreateSession(c, id) \/ CloseSession(c, id) \/ ResetSession(c, id)
        \/ \E id \in Ids, p \in Prompts : Start(id, p)
  \/ Over /\ UNCHANGED vars

Spec == Init /\ [][Next]_vars

(* A thread that can go on again and again does, so that it gets a mutex      *)
(* that is given back; the service answers what it is sent, unless the      *)
(* connection breaks.                                                      *)
Runs(t) ==
  /\ ~Over
  /\ \/ Lock(t) \/ Receive(t) \/ (sock.broken /\ ReceiveFails(t))
     \/ t = Engine /\ Generate
     \/ t = Beat /\ (Enter \/ WakeUp \/ Scan \/ BeatDone)
     \/ t \in Clients /\ Sessions(t)
Fairness ==
  /\ WF_vars(~Over /\ Serve) /\ WF_vars(~Over /\ Join)
  /\ \A t \in Threads : SF_vars(Runs(t))
FairSpec == Spec /\ Fairness
-----------------------------------------------------------------------------
PCs == {"idle", "lock", "recv", "got", "ensure", "entry", "read", "compute", "prepare",
        "copy", "crashed", "loop", "wait", "woken", "scan", "done"}
TypeOK ==
  /\ pc \in [Threads -> PCs]
  /\ wake \in Threads \cup {Nobody} /\ again \in BOOLEAN
  /\ sock.connected \in BOOLEAN /\ sock.broken \in BOOLEAN
  /\ arenas \in SeqOf({ArenaName}, MaxArenas) /\ own \in 0..Len(arenas)
  /\ \A k \in 1..NEntries : entries[k].id \in Ids \cup {Nobody} /\ entries[k].len \in Nat
  /\ open \subseteq Ids /\ gen.id \in Ids \cup {Nobody}
  /\ svc.reserved \subseteq Blocks /\ \A e \in svc.index : e.b \in Blocks

(* Each caller gets the answer to the request it sent: calls share one       *)
(* socket, and answers carry no number to tell them apart.                 *)
AnswerIsOurs ==
  \A t \in Threads : pc[t] = "got" /\ reply[t].rc => reply[t].to = call[t]

(* What service_read takes for the KV of the prompt's prefix is just that,   *)
(* although the service may return blocks of other tokens, blocks of any     *)
(* size, and blocks that reach beyond the prompt, and may lose them.         *)
ReadIsExact == ~gen.spoiled => Exact

(* A block that the service finds by some tokens holds the KV of those,      *)
(* whatever was sent twice, lost or answered by another process: unless it    *)
(* goes back to a block that was evicted between the answer to a lookup and  *)
(* the look at its header, whose size service_lookup guesses.               *)
IndexIsExact ==
  \A e \in svc.index : e.clean =>
    mem[e.b] = [i \in 1..e.n |-> Prefix(e.toks, Ends(e) - e.n + i)]

(* A session has one entry, and an entry is given back when its session is   *)
(* closed, whether or not the service could be told.                        *)
EntriesAreAccountedFor ==
  \A k \in 1..NEntries : entries[k].valid =>
    /\ entries[k].id \in open
    /\ \A j \in 1..NEntries : entries[j].valid /\ entries[j].id = entries[k].id => j = k

(* A call over a connection that comes and goes ends, and so does whoever    *)
(* waits for wake_mutex meanwhile; service_close waits neither for the next  *)
(* tick nor for a service that is away for good.                           *)
CallsReturn ==
  /\ \A t \in Threads \ {Beat} : pc[t] # "idle" ~> (pc[t] = "idle" \/ Over)
  /\ closer = "join" ~> closer = "closed"
=============================================================================
