--------------------------- MODULE ConnectionQueue ---------------------------
(***************************************************************************)
(* What the daemon's accept loop and worker pool promise a client that      *)
(* connects: the connection is refused at once, or it waits in a bounded    *)
(* first-come-first-served queue, is served by one worker, and is closed    *)
(* once.  WorkQueue implements this with a linked list, a mutex and a       *)
(* condition variable.                                                     *)
(***************************************************************************)
EXTENDS Naturals, Sequences

CONSTANTS
  Conns,    \* connections
  Limit     \* how many may wait; 0 = any number

VARIABLES
  waiting,  \* the connections waiting to be served, first come first
  serving,  \* the connections being served
  closed    \* the connections closed, served or refused

vars == <<waiting, serving, closed>>

Init == waiting = <<>> /\ serving = {} /\ closed = {}

New(c) == c \notin closed \cup serving /\ \A i \in DOMAIN waiting : waiting[i] # c

Admit(c) ==
  /\ New(c)
  /\ Limit > 0 => Len(waiting) < Limit
  /\ waiting' = Append(waiting, c)
  /\ UNCHANGED <<serving, closed>>

Refuse(c) ==   \* the queue is full, or memory short
  /\ New(c)
  /\ closed' = closed \cup {c}
  /\ UNCHANGED <<waiting, serving>>

Start ==
  /\ waiting # <<>>
  /\ waiting' = Tail(waiting)
  /\ serving' = serving \cup {Head(waiting)}
  /\ UNCHANGED closed

Finish(c) ==
  /\ c \in serving
  /\ serving' = serving \ {c}
  /\ closed' = closed \cup {c}
  /\ UNCHANGED waiting

Next == Start \/ \E c \in Conns : Admit(c) \/ Refuse(c) \/ Finish(c)

Spec == Init /\ [][Next]_vars
=============================================================================
