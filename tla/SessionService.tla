--------------------------- MODULE SessionService ---------------------------
(***************************************************************************)
(* What the engine daemon promises its clients about conversations, with   *)
(* no threads, locks or heap: a request takes effect in one step, between   *)
(* the moment it is received and the moment it is answered, and a          *)
(* conversation is a sequence of messages that only requests naming it     *)
(* change.  The daemon may drop a conversation (eviction, idle timeout,     *)
(* model switch); it may never alter one.  SessionTable implements this.    *)
(***************************************************************************)
EXTENDS Naturals, Sequences, FiniteSets

CONSTANTS
  Workers,      \* the clients being served, one per worker thread
  Ids,          \* session ids
  Requests,     \* the requests clients make: records with op, id and msgs
  NoCall,       \* the value of call[w] while w serves no request
  NoSession,    \* the value of an id that names no conversation
  MaxSessions   \* --max-sessions; 0 = unlimited

VARIABLES
  conv,     \* conv[i]: the messages of conversation i, or NoSession
  call,     \* call[w]: the request w serves, as received
  phase,    \* phase[w]: "idle", "called" (no effect yet) or "decided"
  answer    \* answer[w]: the decided outcome

vars == <<conv, call, phase, answer>>

Open == {i \in Ids : conv[i] # NoSession}

Init ==
  /\ conv = [i \in Ids |-> NoSession]
  /\ call = [w \in Workers |-> NoCall]
  /\ phase = [w \in Workers |-> "idle"]
  /\ answer = [w \in Workers |-> "none"]

Invoke(w) ==
  /\ phase[w] = "idle"
  /\ phase' = [phase EXCEPT ![w] = "called"]
  /\ \E r \in Requests : call' = [call EXCEPT ![w] = r]
  /\ UNCHANGED <<conv, answer>>

Decide(w, code) ==
  /\ phase[w] = "called"
  /\ phase' = [phase EXCEPT ![w] = "decided"]
  /\ answer' = [answer EXCEPT ![w] = code]
  /\ UNCHANGED call

(* create_session: the id now names an empty conversation, within the limit. *)
CreateEffect(w) ==
  /\ call[w].op = "create_session"
  /\ conv[call[w].id] = NoSession
  /\ MaxSessions > 0 => Cardinality(Open) < MaxSessions
  /\ conv' = [conv EXCEPT ![call[w].id] = <<>>]
  /\ Decide(w, "ok")

(* generate and append_turn: the whole turn is appended, or none of it. *)
TurnEffect(w) ==
  /\ call[w].op \in {"generate", "append_turn"}
  /\ conv[call[w].id] # NoSession
  /\ conv' = [conv EXCEPT ![call[w].id] = @ \o call[w].msgs]
  /\ Decide(w, "ok")

(* replace_history and reset_session (whose payload is the empty history). *)
RewriteEffect(w) ==
  /\ call[w].op \in {"replace_history", "reset_session"}
  /\ conv[call[w].id] # NoSession
  /\ conv' = [conv EXCEPT ![call[w].id] = call[w].msgs]
  /\ Decide(w, "ok")

CloseEffect(w) ==
  /\ call[w].op = "close_session"
  /\ conv' = [conv EXCEPT ![call[w].id] = NoSession]
  /\ Decide(w, "ok")

(* "not found" is only answered when the session indeed does not exist. *)
NotFound(w) ==
  /\ call[w].op \in {"generate", "append_turn", "replace_history", "reset_session"}
  /\ conv[call[w].id] = NoSession
  /\ Decide(w, "not_found")
  /\ UNCHANGED conv

(* Any request may fail, and then changes no conversation. *)
Fail(w) ==
  /\ Decide(w, "error")
  /\ UNCHANGED conv

(* load_model and health answer "ok" without touching a conversation; the
   conversations a model switch ends are dropped one at a time before. *)
Probe(w) ==
  /\ call[w].op \in {"load_model", "health"}
  /\ Decide(w, "ok")
  /\ UNCHANGED conv

(* Eviction, idle timeout, replacement by create_session, model switch. *)
Drop(i) ==
  /\ conv[i] # NoSession
  /\ conv' = [conv EXCEPT ![i] = NoSession]
  /\ UNCHANGED <<call, phase, answer>>

Return(w) ==
  /\ phase[w] = "decided"
  /\ phase' = [phase EXCEPT ![w] = "idle"]
  /\ call' = [call EXCEPT ![w] = NoCall]
  /\ answer' = [answer EXCEPT ![w] = "none"]
  /\ UNCHANGED conv

Next ==
  \/ \E w \in Workers :
       \/ Invoke(w) \/ CreateEffect(w) \/ TurnEffect(w) \/ RewriteEffect(w)
       \/ CloseEffect(w) \/ NotFound(w) \/ Fail(w) \/ Probe(w) \/ Return(w)
  \/ \E i \in Ids : Drop(i)

Spec == Init /\ [][Next]_vars
=============================================================================
