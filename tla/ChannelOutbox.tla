----------------------------- MODULE ChannelOutbox -----------------------------
(***************************************************************************)
(* One external copy of a notification - an email, or a push to whatever   *)
(* browsers its recipient subscribed - between its durable intent (a       *)
(* ChannelDelivery row) and the workers that claim it under a lease, hand  *)
(* it to the providers with no transaction held, and acknowledge only the  *)
(* claim they made.                                                        *)
(*                                                                         *)
(* Source: domain/notification/outbox.py (drain_channel), its two senders  *)
(* (maintenance.send_email, push_delivery.send_push), push.py and          *)
(* models.py. The row comes from ledger.deliver or ledger.resend_unsent    *)
(* (ChannelIntentHandler) and goes with ledger.retract; an intent recorded *)
(* after that is another row.                                              *)
(*                                                                         *)
(* Simplifications. A claim token (uuid4) is the number of the claim. The  *)
(* lease and the backoff are what the guards compare of them: held or      *)
(* past, running or over. A sender contacts its targets one by one; here   *)
(* their answers come in one step, and a worker that dies in the middle    *)
(* has reached some of them. What it reads of them it reads as it claims.  *)
(***************************************************************************)
EXTENDS Naturals, FiniteSets

CONSTANTS
  Workers,     \* calls of drain_channel, in one backend process or several
  MaxAttempts, \* max_attempts
  Browsers,    \* endpoints the recipient's browsers may subscribe
  Mailbox      \* the recipient's address, when there is one

ASSUME MaxAttemptsAssumption == MaxAttempts \in Nat \ {0}

VARIABLES
  \* --- the row
  state,        \* "none" before it is recorded, "retracted" once deleted
  channel,      \* "email" or "push"
  attempts, claim_token, lease_until,
  backoff,      \* retry_at is in the future
  \* --- the recipient
  reachable,    \* the subscriptions kept of them, or their address
  \* --- a worker
  stage,        \* "idle", "contacting" the targets, or its sender returned
                \* ("answered") or raised ("failed")
  token,        \* the claim it made
  targets,      \* whom its sender is to contact
  \* --- observed
  taken,        \* targets whose provider took a copy
  twice,        \* one of them took a second
  unseen,       \* a copy was taken of which no worker could tell
  vacant,       \* a push found no subscription, or one that is gone
  lapsed        \* claims whose lease ran out

row      == <<state, channel, attempts, claim_token, lease_until, backoff>>
workers  == <<stage, token, targets>>
observed == <<taken, twice, unseen, vacant, lapsed>>
vars     == <<row, reachable, workers, observed>>

Unsent == {"pending", "sending"}
Final  == {"sent", "dead"}
Places == IF channel = "email" THEN {Mailbox} ELSE Browsers

TypeOK ==
  /\ state \in {"none", "retracted"} \cup Unsent \cup Final
  /\ channel \in {"email", "push"}
  /\ attempts \in 0 .. MaxAttempts
  /\ claim_token \in 0 .. MaxAttempts
  /\ lease_until \in {"null", "held", "past"}
  /\ backoff \in BOOLEAN
  /\ reachable \in SUBSET Places
  /\ stage \in [Workers -> {"idle", "contacting", "answered", "failed"}]
  /\ token \in [Workers -> 0 .. MaxAttempts]
  /\ targets \in [Workers -> SUBSET Places]
  /\ taken \in SUBSET Places
  /\ twice \in BOOLEAN /\ unseen \in BOOLEAN /\ vacant \in BOOLEAN
  /\ lapsed \in SUBSET (0 .. MaxAttempts)

Init ==
  /\ state = "none"
  /\ channel \in {"email", "push"}
  /\ attempts = 0
  /\ claim_token = 0
  /\ lease_until = "null"
  /\ backoff = FALSE
  /\ reachable \in SUBSET Places
  /\ stage = [w \in Workers |-> "idle"]
  /\ token = [w \in Workers |-> 0]
  /\ targets = [w \in Workers |-> {}]
  /\ taken = {}
  /\ twice = FALSE /\ unseen = FALSE /\ vacant = FALSE
  /\ lapsed = {}

-------------------------------------------------------------------------------
\* ChannelIntentHandler.send_batch: the intent is committed with its event.
Record ==
  /\ state = "none"
  /\ state' = "pending"
  /\ UNCHANGED <<channel, attempts, claim_token, lease_until, backoff, reachable,
                 workers, observed>>

\* ledger.retract: the row is deleted, whoever is sending it.
Retract ==
  /\ state \notin {"none", "retracted"}
  /\ state' = "retracted"
  /\ UNCHANGED <<channel, attempts, claim_token, lease_until, backoff, reachable,
                 workers, observed>>

\* A browser subscribes, again or anew, or an address is given (save); it
\* leaves, or goes to another account (drop, save). Only a claim reads it: what
\* changes once the row is settled is left out.
Subscribe(p) ==
  /\ state \in Unsent
  /\ p \notin reachable
  /\ reachable' = reachable \cup {p}
  /\ UNCHANGED <<row, workers, observed>>
Unsubscribe(p) ==
  /\ state \in Unsent
  /\ p \in reachable
  /\ reachable' = reachable \ {p}
  /\ UNCHANGED <<row, workers, observed>>

\* Mutant of Claimable: a claim nobody acknowledged is not recovered.
ClaimablePending == state = "pending" /\ ~backoff

\* drain_channel, the row its SELECT takes.
Claimable == state \in Unsent /\ lease_until # "held" /\ ~backoff

\* The limit was reached by an attempt nobody acknowledged.
GiveUp ==
  /\ Claimable
  /\ attempts >= MaxAttempts
  /\ state' = "dead"
  /\ UNCHANGED <<channel, attempts, claim_token, lease_until, backoff, reachable,
                 workers, observed>>

\* The row is claimed, and the sender reads whom to contact.
Claim(w) ==
  /\ stage[w] = "idle"
  /\ Claimable
  /\ attempts < MaxAttempts
  /\ state' = "sending"
  /\ attempts' = attempts + 1
  /\ claim_token' = attempts + 1
  /\ lease_until' = "held"
  /\ stage' = [stage EXCEPT ![w] = "contacting"]
  /\ token' = [token EXCEPT ![w] = attempts + 1]
  /\ targets' = [targets EXCEPT ![w] = reachable]
  /\ UNCHANGED <<channel, backoff, reachable, observed>>

\* The row is still what this worker claimed.
Mine(w) == state = "sending" /\ claim_token = token[w]

\* drain_channel's heartbeat: it renews even a lease that ran out meanwhile.
Renew(w) ==
  /\ stage[w] = "contacting"
  /\ Mine(w)
  /\ lease_until' = "held"
  /\ UNCHANGED <<state, channel, attempts, claim_token, backoff, reachable,
                 workers, observed>>

-------------------------------------------------------------------------------
(* What a sender does with its targets.                                    *)

\* Mutant of Raises: one browser that failed fails the push.
RaisesAny(w, failed) == failed # {} \/ (channel = "email" /\ targets[w] = {})

\* A mail fails for want of an address or when the server does not take it. A
\* push fails only when it failed at every browser there was: it succeeds when
\* there is none, and where some failed and the others are gone.
Raises(w, failed) ==
  /\ failed = targets[w]
  /\ failed # {} \/ channel = "email"

Take(places) ==
  /\ taken' = taken \cup places
  /\ twice' = (twice \/ places \cap taken # {})

\* The targets answer: each took its copy, is gone for good (404, 410: its
\* subscription is dropped), or failed - some of these having taken it.
Contact(w) ==
  \E took, gone, hidden \in SUBSET targets[w] :
    LET failed == targets[w] \ (took \cup gone) IN
    /\ stage[w] = "contacting"
    /\ took \cap gone = {} /\ hidden \subseteq failed
    /\ channel = "email" => gone = {}
    /\ Take(took \cup hidden)
    /\ unseen' = (unseen \/ hidden # {})
    /\ vacant' = (vacant \/ gone # {} \/ (channel = "push" /\ targets[w] = {}))
    /\ reachable' = reachable \ gone
    /\ stage' = [stage EXCEPT ![w] = IF Raises(w, failed) THEN "failed" ELSE "answered"]
    /\ targets' = [targets EXCEPT ![w] = {}]
    /\ UNCHANGED <<row, token, lapsed>>

\* A transaction of the sender fails: the one that reads, or the one that drops
\* the subscriptions that are gone after the others took their copy.
SenderBreaks(w) ==
  \E took \in SUBSET targets[w] :
    /\ stage[w] = "contacting"
    /\ took # {} => channel = "push" /\ took # targets[w]
    /\ Take(took)
    /\ unseen' = (unseen \/ took # {})
    /\ stage' = [stage EXCEPT ![w] = "failed"]
    /\ targets' = [targets EXCEPT ![w] = {}]
    /\ UNCHANGED <<row, reachable, token, vacant, lapsed>>

-------------------------------------------------------------------------------
\* The worker is done with this row, and what it knew of its claim with it.
Forget(w) ==
  /\ stage' = [stage EXCEPT ![w] = "idle"]
  /\ token' = [token EXCEPT ![w] = 0]

\* Mutants of Acknowledge: by a worker whose claim another recovered, of a row
\* already settled, and of the last failure as a success.
AcknowledgeAs(w, mine, last) ==
  /\ stage[w] \in {"answered", "failed"}
  /\ Forget(w)
  /\ IF mine
     THEN /\ lease_until' = "null"
          /\ state' = IF stage[w] = "answered" THEN "sent"
                      ELSE IF attempts >= MaxAttempts THEN last
                      ELSE "pending"
          /\ backoff' = (state' = "pending")
     ELSE UNCHANGED <<state, lease_until, backoff>>
  /\ UNCHANGED <<channel, attempts, claim_token, reachable, targets, observed>>
AcknowledgeAny(w)   == AcknowledgeAs(w, state = "sending", "dead")
AcknowledgeLast(w)  == AcknowledgeAs(w, Mine(w), "sent")
AcknowledgeEnded(w) == AcknowledgeAs(w, claim_token = token[w], "dead")

\* The outcome is recorded under the claim the worker made, or not at all.
Acknowledge(w) ==
  /\ stage[w] \in {"answered", "failed"}
  /\ Forget(w)
  /\ IF Mine(w)
     THEN /\ lease_until' = "null"
          /\ state' = IF stage[w] = "answered" THEN "sent"
                      ELSE IF attempts >= MaxAttempts THEN "dead"
                      ELSE "pending"
          /\ backoff' = (state' = "pending")
     ELSE UNCHANGED <<state, lease_until, backoff>>
  /\ UNCHANGED <<channel, attempts, claim_token, reachable, targets, observed>>

\* The process stops, or the job is cancelled, some of the targets reached:
\* nothing is acknowledged.
Die(w) ==
  \E took \in SUBSET targets[w] :
    /\ stage[w] # "idle"
    /\ took # {} => stage[w] = "contacting"
    /\ Take(took)
    /\ Forget(w)
    /\ targets' = [targets EXCEPT ![w] = {}]
    /\ UNCHANGED <<row, reachable, unseen, vacant, lapsed>>

LeasePasses ==
  /\ lease_until = "held"
  /\ lease_until' = "past"
  /\ lapsed' = lapsed \cup {claim_token}
  /\ UNCHANGED <<state, channel, attempts, claim_token, backoff, reachable,
                 workers, taken, twice, unseen, vacant>>

BackoffPasses ==
  /\ backoff
  /\ backoff' = FALSE
  /\ UNCHANGED <<state, channel, attempts, claim_token, lease_until, reachable,
                 workers, observed>>

-------------------------------------------------------------------------------
Next ==
  \/ Record \/ Retract \/ GiveUp \/ LeasePasses \/ BackoffPasses
  \/ \E p \in Places : Subscribe(p) \/ Unsubscribe(p)
  \/ \E w \in Workers : \/ Claim(w) \/ Renew(w) \/ Contact(w) \/ SenderBreaks(w)
                        \/ Acknowledge(w) \/ Die(w)

Spec == Init /\ [][Next]_vars

(* Fairness the deployment gives: the outbox jobs run on a timer, a call to *)
(* a provider has a timeout, and clocks move; a lease is sure to run out    *)
(* only once nobody renews it.                                              *)
Fairness ==
  /\ WF_vars(GiveUp \/ \E w \in Workers : Claim(w))
  /\ \A w \in Workers : WF_vars(Contact(w) \/ SenderBreaks(w) \/ Acknowledge(w))
  /\ WF_vars((\A w \in Workers : stage[w] = "idle") /\ LeasePasses)
  /\ WF_vars(BackoffPasses)

FairSpec == Spec /\ Fairness

-------------------------------------------------------------------------------
\* At most one worker contacts the provider under a claim whose lease never ran
\* out: a second copy is under way only where a lease lapsed ("A stale worker
\* cannot acknowledge a claim already recovered by another worker").
OneSenderPerLease ==
  \A v, w \in Workers :
    /\ stage[v] = "contacting" /\ token[v] \notin lapsed
    /\ stage[w] = "contacting" /\ token[w] \notin lapsed
    => v = w

\* No browser and no mailbox is sent a second copy because another target of the
\* same notification failed ("one failed subscription must not resend to
\* browsers that accepted the same notification", push_delivery.py:88-89): it
\* takes a lease that ran out, or a copy of which no worker could tell.
TwiceOnlyUnseen == twice => lapsed # {} \/ unseen

\* A row is marked sent, whichever worker's answer marks it and however many
\* were lost before, only if somebody took a copy, or, of a push, if there was
\* nobody left to: no browser subscribed, or one was told to be gone (a browser
\* that failed beside it is not tried again).
SentOrVacant == state = "sent" => taken # {} \/ (channel = "push" /\ vacant)

\* The inductive invariant behind the three: claims are numbered by the attempts,
\* of which there are no more than the limit, and a claim whose lease never ran
\* out still holds the row.
ClaimHolds ==
  \A w \in Workers :
    stage[w] # "idle" =>
      /\ token[w] \in 1 .. claim_token
      /\ stage[w] = "answered" => taken # {} \/ (channel = "push" /\ vacant)
      /\ stage[w] = "contacting" /\ token[w] \notin lapsed /\ state # "retracted"
           => Mine(w) /\ lease_until = "held"
TokensAreUnique ==
  \A v, w \in Workers :
    stage[v] # "idle" /\ stage[w] # "idle" /\ token[v] = token[w] => v = w
\* As long as no lease ran out and every copy was told of, whoever took one is
\* contacted no more: the row waits for its acknowledgement, or had it.
TakenIsTold ==
  lapsed = {} /\ ~unseen =>
    /\ ~twice
    /\ state = "sending" => lease_until = "held"
    /\ taken # {} =>
         /\ state \notin {"none", "pending"}
         /\ \A w \in Workers : /\ stage[w] # "contacting"
                               /\ Mine(w) => stage[w] # "failed"
Inductive ==
  /\ TypeOK
  /\ claim_token = attempts
  /\ state \in {"none", "pending"} => lease_until # "held"
  /\ state = "none" => attempts = 0
  /\ lease_until = "held" => attempts > 0
  /\ ClaimHolds /\ TokensAreUnique /\ TakenIsTold /\ SentOrVacant /\ OneSenderPerLease

\* What was sent or given up on stays so, until its event is retracted: no late
\* worker brings it back to be sent again.
OutcomesAreFinal ==
  [][(state \in Final) => state' \in {state, "retracted"}]_vars

\* A recorded copy does not wait for ever.
Resolved == state = "pending" ~> state \in Final \cup {"retracted"}

===============================================================================
