------------------------------- MODULE EventsOnce -------------------------------
(***************************************************************************)
(* What the platform promises of the events a session's runner writes,     *)
(* without journals, registrations, positions, backends or their failures: *)
(* each takes effect once, in the order they were written, what follows    *)
(* from it is done in the same order, and its writer keeps it until then.  *)
(* (domain/agent/harness/driven/lifecycle.py:35-41, session_state.py:1-9)  *)
(***************************************************************************)
EXTENDS Naturals, Sequences

VARIABLES
  written,  \* how many events were written
  kept,     \* the events the writer has
  effects,  \* the events that took effect, in that order
  done      \* the events of which all that follows was done

Init == written = 0 /\ kept = {} /\ effects = <<>> /\ done = {}

Write ==
  /\ written' \in Nat /\ written' > written
  /\ kept' = kept \cup (written + 1 .. written')
  /\ UNCHANGED <<effects, done>>

TakeEffect ==
  /\ Len(effects) < written
  /\ effects' = Append(effects, Len(effects) + 1)
  /\ UNCHANGED <<written, kept, done>>

\* The writer may forget what was done with, and nothing else.
Forgets == kept' \subseteq kept /\ kept \ kept' \subseteq done'

FollowThrough ==
  /\ \E s \in 1 .. Len(effects) : /\ 1 .. s - 1 \subseteq done
                                  /\ done' = done \cup {s}
  /\ Forgets
  /\ UNCHANGED <<written, effects>>

Forget == Forgets /\ UNCHANGED <<written, effects, done>>

Next == Write \/ TakeEffect \/ FollowThrough \/ Forget

vars == <<written, kept, effects, done>>

Spec == Init /\ [][Next]_vars

===============================================================================
