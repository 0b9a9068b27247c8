------------------------------ MODULE KvLocal ------------------------------
(***************************************************************************)
(* The local KV-cache provider (src/ds3_kv_cache.c): a fixed array of      *)
(* slots, one per session, that stores the tokens of the session's last    *)
(* generate and the KV computed for them.  The provider takes no lock.  The *)
(* daemon calls create, close and reset holding the mutex of the session    *)
(* they name, and nothing keeps two creates apart.                         *)
(*                                                                         *)
(* A unit of KV is what one plane (K or V of a layer) holds for one token: *)
(* the plane, and the tokens it was computed from.  A host buffer for n    *)
(* tokens holds plane after plane, n units each.                           *)
(***************************************************************************)
EXTENDS Naturals, Sequences

CONSTANTS
  Ids,        \* session ids
  LongIds,    \* those of 64 characters or more; they agree on the first 63
  NoId,       \* no session
  NSlots,     \* DS3_KVC_LOCAL_SESSIONS
  LocalTokens,\* DS3_KVC_LOCAL_TOKENS
  NPlanes,    \* two per layer
  Tokens      \* the vocabulary

ASSUME IdsAssumption == LongIds \subseteq Ids /\ NoId \notin Ids /\ "cut" \notin Ids \cup {NoId}
ASSUME SizesAssumption ==
  NSlots \in Nat \ {0} /\ LocalTokens \in Nat \ {0} /\ NPlanes \in Nat \ {0}

VARIABLES
  slots,   \* st->sessions
  making,  \* creates in progress: the slot each one picked, 0 if none
  stage,   \* and how far it is
  open,    \* ids of the sessions the daemon keeps open in the provider
  contested  \* history variable: slots that two creates had picked at once

kvVars == <<slots, making, stage, open, contested>>
-----------------------------------------------------------------------------
Planes == 1..NPlanes
Unit(l, s) == [plane |-> l, prefix |-> s]
Junk == [plane |-> 0, prefix |-> <<>>]  \* computed from nothing: zeros, leftovers
Units == {Junk} \cup [plane : Planes, prefix : Seq(Tokens)]

At(n, l, i) == (l - 1) * n + i  \* where a buffer for n tokens has plane l of token i

(* n_tokens is the length of tokens.  kv is the part of kv_data that was    *)
(* written with them: no read goes beyond it.  clean is a history field:   *)
(* every unit was computed from the stored tokens.                         *)
Slot == [valid : BOOLEAN, id : Ids \cup {"cut", NoId}, cap : {0, LocalTokens},
         tokens : Seq(Tokens), kv : Seq(Units), clean : BOOLEAN]
Empty == [valid |-> FALSE, id |-> NoId, cap |-> 0, tokens |-> <<>>, kv |-> <<>>,
          clean |-> TRUE]

(* What strncpy leaves of an id in the 64 bytes of a slot, or of the engine. *)
Name(id) == IF id \in LongIds THEN "cut" ELSE id

First(S) == IF S = {} THEN 0 ELSE CHOOSE k \in S : \A j \in S : k <= j

(* Mutant: the search ends at the first slot that is not in use. *)
FindSlot_StopsAtHole(name) ==
  First({k \in 1..NSlots : /\ slots[k].valid /\ slots[k].id = name
                           /\ \A j \in 1..k : slots[j].valid})

(* local_find_session, local_alloc_session: 0 for NULL. *)
FindSlot(name) == First({k \in 1..NSlots : slots[k].valid /\ slots[k].id = name})
FreeSlot == First({k \in 1..NSlots : ~slots[k].valid})

(* local_lookup: how much of the stored tokens toks begins with. *)
Matches(s, t) ==
  {n \in 0..Len(s) : n <= Len(t) /\ \A i \in 1..n : s[i] = t[i]}
CachedPrefix(name, toks) ==
  LET k == FindSlot(name)
      M == Matches(slots[k].tokens, toks)
  IN  IF k = 0 THEN 0 ELSE CHOOSE n \in M : \A m \in M : m <= n

(* The memcpy of local_read: the first units of kv_data, however many       *)
(* tokens it was laid out for.                                             *)
Copied(k, n) ==
  [u \in 1..(n * NPlanes) |-> IF u \in DOMAIN slots[k].kv THEN slots[k].kv[u] ELSE Junk]

(* local_write, once the slot is found. *)
Writable(k, toks) == k # 0 /\ Len(toks) <= slots[k].cap
Store(k, toks, kv, clean) ==
  slots' = [slots EXCEPT ![k].tokens = toks, ![k].kv = kv, ![k].clean = clean]
-----------------------------------------------------------------------------
KvInit ==
  /\ slots = [k \in 1..NSlots |-> Empty]
  /\ making = [id \in Ids |-> 0]
  /\ stage = [id \in Ids |-> "none"]
  /\ open = {}
  /\ contested = {}

Opened(id) ==
  /\ open' = open \cup {id}
  /\ making' = [making EXCEPT ![id] = 0]
  /\ stage' = [stage EXCEPT ![id] = "none"]

(* local_create_session finds the session, or picks a slot to fill, or has  *)
(* none left; the daemon ignores the failure.                              *)
CreateFind(id) ==
  LET k == FindSlot(id) IN
  /\ id \notin open /\ stage[id] = "none"
  /\ IF k # 0 \/ FreeSlot = 0
     THEN /\ slots' = IF k = 0 THEN slots
                      ELSE [slots EXCEPT ![k].tokens = <<>>, ![k].kv = <<>>]
          /\ Opened(id)
          /\ UNCHANGED contested
     ELSE /\ making' = [making EXCEPT ![id] = FreeSlot]
          /\ stage' = [stage EXCEPT ![id] = "fill"]
          /\ contested' = contested \cup ({FreeSlot} \cap {making[j] : j \in Ids})
          /\ UNCHANGED <<slots, open>>

(* The id and fresh buffers; a reader that already has the slot sees them. *)
CreateFill(id) ==
  /\ stage[id] = "fill"
  /\ slots' = [slots EXCEPT ![making[id]] =
                 [Empty EXCEPT !.valid = slots[making[id]].valid, !.id = Name(id),
                               !.cap = LocalTokens]]
  /\ stage' = [stage EXCEPT ![id] = "publish"]
  /\ UNCHANGED <<making, open, contested>>

(* A calloc fails and local_release_session undoes the other one. *)
CreateFails(id) ==
  /\ stage[id] = "fill"
  /\ slots' = [slots EXCEPT ![making[id]] =
                 [Empty EXCEPT !.valid = slots[making[id]].valid, !.id = Name(id)]]
  /\ Opened(id)
  /\ UNCHANGED contested

CreatePublish(id) ==
  /\ stage[id] = "publish"
  /\ slots' = [slots EXCEPT ![making[id]].valid = TRUE, ![making[id]].tokens = <<>>,
                            ![making[id]].kv = <<>>]
  /\ Opened(id)
  /\ UNCHANGED contested

(* local_close_session: the id is compared in full, and stays in the slot. *)
CloseSession(id) ==
  LET k == FindSlot(id) IN
  /\ id \in open
  /\ slots' = IF k = 0 THEN slots ELSE [slots EXCEPT ![k] = [Empty EXCEPT !.id = id]]
  /\ open' = open \ {id}
  /\ UNCHANGED <<making, stage, contested>>

ResetSession(id) ==
  LET k == FindSlot(id) IN
  /\ id \in open
  /\ slots' = IF k = 0 THEN slots
              ELSE [slots EXCEPT ![k].tokens = <<>>, ![k].kv = <<>>]
  /\ UNCHANGED <<making, stage, open, contested>>
=============================================================================
