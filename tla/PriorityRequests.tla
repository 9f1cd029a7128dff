-------------------------- MODULE PriorityRequests --------------------------
(***************************************************************************)
(* What RequestQueue promises when locks, sleeping threads and the heap    *)
(* are left out: a set of wanted requests, at most one per tile, of which  *)
(* a thread takes one of the highest priority.  It is refused one only     *)
(* after the shutdown, when none is wanted.                                *)
(*                                                                         *)
(* It does not promise that what was withdrawn is never seen again: such a *)
(* request is stale, and may be handed out for a later one of the same     *)
(* tile that is no more urgent.  The later one is then stale.  A stale     *)
(* request without a later one is never handed out, and all that are more  *)
(* urgent than what a thread takes are forgotten.                          *)
(***************************************************************************)
EXTENDS Naturals

CONSTANTS Tiles, Priorities, Workers, NoRequest

VARIABLES
  wanted,   \* the requests accepted and neither taken nor withdrawn
  stale,    \* those withdrawn or passed over that may still turn up
  taken,    \* taken[w]: the last request thread w was given
  closed    \* no thread will wait any more

vars == <<wanted, stale, taken, closed>>

Init ==
  /\ wanted = {}
  /\ stale = {}
  /\ closed = FALSE
  /\ taken = [w \in Workers |-> NoRequest]

Accept(r) ==
  /\ \A other \in wanted : other.id # r.id
  /\ wanted' = wanted \cup {r}
  /\ UNCHANGED <<stale, taken, closed>>

Withdraw(r) ==
  /\ wanted' = wanted \ {r}
  /\ stale' = stale \cup {r}
  /\ UNCHANGED <<taken, closed>>

\* What may be handed out for r.
StandsFor(s, r) == s = r \/ (s \in stale /\ s.id = r.id)

\* A thread is given s for the wanted request r of the same tile.
Take(w, r, s) ==
  /\ StandsFor(s, r)
  /\ \A other \in wanted : other.priority <= s.priority
  /\ wanted' = wanted \ {r}
  /\ stale' \subseteq stale \cup ({r} \ {s})
  /\ \A q \in stale' : q.priority <= s.priority
  /\ taken' = [taken EXCEPT ![w] = s]
  /\ UNCHANGED closed

\* A thread that finds nothing wanted has seen the last of what was withdrawn.
Forget ==
  /\ wanted = {}
  /\ stale' = {}
  /\ UNCHANGED <<wanted, taken, closed>>

Refuse(w) ==
  /\ closed
  /\ wanted = {}
  /\ stale' = {}
  /\ taken' = [taken EXCEPT ![w] = NoRequest]
  /\ UNCHANGED <<wanted, closed>>

Close ==
  /\ closed' = TRUE
  /\ UNCHANGED <<wanted, stale, taken>>

Next ==
  \/ \E id \in Tiles, p \in Priorities : Accept([id |-> id, priority |-> p])
  \/ \E r \in wanted : Withdraw(r)
  \/ \E w \in Workers, r \in wanted : \E s \in stale \cup {r} : Take(w, r, s)
  \/ \E w \in Workers : Refuse(w)
  \/ Forget
  \/ Close

Spec == Init /\ [][Next]_vars
=============================================================================
