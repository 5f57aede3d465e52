----------------------------- MODULE AgentDelivery -----------------------------
(***************************************************************************)
(* Durable instructions for the session of one AI teammate: the rows of    *)
(* the delivery ledger addressed to one seat, the attempts that carry them *)
(* (`run_attempt` around a turn, one asyncio task of some backend          *)
(* process), the native input each attempt registers, and the session that *)
(* may or may not come to read it, over a link that may be cut in the      *)
(* middle of a call.                                                       *)
(*                                                                         *)
(* Source: domain/delivery/agent.py, domain/delivery/receipts.py,          *)
(* domain/delivery/timer.py, domain/agent/input_registration.py,           *)
(* room/sessions/speaking.py, session_host/speaking.py and                 *)
(* turn/intake/messages.py.                                                *)
(*                                                                         *)
(* Simplifications.                                                        *)
(*  - One database transaction is one action; every one of them locks the  *)
(*    delivery row (FOR UPDATE), so they are serial per row in the code.   *)
(*  - Clocks are abstracted to what the guards compare: a lease is held or *)
(*    past, a backoff is running or over, an instruction is young or old.  *)
(*  - An attempt's id is drawn from a pool that belongs to its delivery;   *)
(*    the pool's size bounds how often a delivery is tried.                *)
(*  - An attempt registers one input at a time (the one offered to the     *)
(*    running session, or the one its own work opens); `row` is the last.  *)
(*  - The room, the task and the agent are one variable, `target`: it      *)
(*    takes instructions, is closed (task closed, conversation gone) or is *)
(*    unseated (room archived, teammate off the roster or retired, a task  *)
(*    that went on instead of closing).                                    *)
(***************************************************************************)
EXTENDS Naturals, FiniteSets

CONSTANTS
  Deliveries,   \* rows of the ledger addressed to this seat
  Attempts,     \* attempt ids (uuid4)
  DeliveryOf,   \* the delivery an attempt id is drawn for
  NoAttempt,    \* attempt_id of a delivery never tried
  Subject,      \* payload[REPLACES] of a delivery, or NoSubject
  NoSubject,
  Targets       \* what can become of whom a delivery is addressed to

ASSUME DeliveryOfAssumption == DeliveryOf \in [Attempts -> Deliveries]
ASSUME NoAttemptAssumption  == NoAttempt \notin Attempts
ASSUME TargetsAssumption    ==
  "takes" \in Targets /\ Targets \subseteq {"takes", "unseated", "closed"}

VARIABLES
  \* --- the ledger row, in the database
  state,       \* Delivery.state, "unrecorded" before the row exists
  attempt_id,  \* Delivery.attempt_id
  lease_until, \* Delivery.lease_until against now: "held", or "over" (null or past)
  backoff,     \* Delivery.retry_at is in the future
  old,         \* recorded longer than GIVE_UP_AFTER ago
  target,      \* what it is addressed to: "takes", "unseated" or "closed"
  \* --- the native input an attempt registered, in the database
  row,         \* "none"; unread: "joined" a running session or "opened" a
               \* work; settled: "read", "dropped" or "terminated"
  released,    \* unread inputs that hold the seat no longer
  told,        \* the runner's report of its fate has been applied
  \* --- the attempt, a task of a backend process
  stage,       \* where `run_attempt` and the turn inside it are
  \* --- the session, outside the backend
  inside,      \* "out"; "waiting" in its queue, or on its way there; "read";
               \* or "gone" unread
  \* --- what happened, which no part of the program knows
  astray       \* attempts whose `send` had left when it was withdrawn and the
               \* delivery put back to be tried again

ledgerVars == <<state, attempt_id, lease_until, backoff, old>>
inputVars  == <<row, released, told>>
vars == <<ledgerVars, target, inputVars, stage, inside, astray>>

NeverSent == {"pending", "claimed"}             \* _NEVER_SENT
States    == {"unrecorded", "pending", "claimed", "sending",
              "uncertain", "received", "failed"}
Unread    == {"joined", "opened"}
Stages    == {"unused", "queued", "joining", "admitting", "admitted",
              "starting", "steered", "said", "settling", "over"}
Alive     == Stages \ {"unused", "settling", "over"}

TypeOK ==
  /\ state \in [Deliveries -> States]
  /\ attempt_id \in [Deliveries -> Attempts \cup {NoAttempt}]
  /\ lease_until \in [Deliveries -> {"held", "over"}]
  /\ backoff \in [Deliveries -> BOOLEAN]
  /\ old \in SUBSET Deliveries
  /\ target \in Targets
  /\ row \in [Attempts -> {"none", "joined", "opened",
                          "read", "dropped", "terminated"}]
  /\ released \in SUBSET Attempts
  /\ told \in SUBSET Attempts
  /\ stage \in [Attempts -> Stages]
  /\ inside \in [Attempts -> {"out", "waiting", "read", "gone"}]
  /\ astray \in SUBSET Attempts

Init ==
  /\ state = [d \in Deliveries |-> "unrecorded"]
  /\ attempt_id = [d \in Deliveries |-> NoAttempt]
  /\ lease_until = [d \in Deliveries |-> "over"]
  /\ backoff = [d \in Deliveries |-> FALSE]
  /\ old = {}
  /\ target = "takes"
  /\ row = [a \in Attempts |-> "none"]
  /\ released = {}
  /\ told = {}
  /\ stage = [a \in Attempts |-> "unused"]
  /\ inside = [a \in Attempts |-> "out"]
  /\ astray = {}

Tried(d)    == attempt_id[d] # NoAttempt        \* Delivery.attempts > 0
Unleased(d) == lease_until[d] # "held"          \* null or <= now
Owns(a)     == attempt_id[DeliveryOf[a]] = a
Leave(a, s) == stage' = [stage EXCEPT ![a] = s]

-------------------------------------------------------------------------------
(* The ledger: recording, dispatching, giving up.                          *)

\* Mutants of Replaced: replacing also what may have been sent, or whatever
\* has not failed yet.
ReplacedMaybeSent(d) ==
  {e \in Deliveries : /\ Subject[d] # NoSubject
                      /\ Subject[e] = Subject[d]
                      /\ state[e] \in NeverSent \cup {"sending"}
                      /\ Unleased(e)}
ReplacedWhatever(d) ==
  {e \in Deliveries : /\ Subject[d] # NoSubject
                      /\ Subject[e] = Subject[d]
                      /\ state[e] # "unrecorded"
                      /\ Unleased(e)}

\* record_task_instruction: the earlier instructions about the same thing that
\* no session was reached for and no attempt holds are replaced.
Replaced(d) ==
  {e \in Deliveries : /\ Subject[d] # NoSubject
                      /\ Subject[e] = Subject[d]
                      /\ state[e] \in NeverSent
                      /\ Unleased(e)}

Record(d) ==
  /\ state[d] = "unrecorded"
  /\ state' = [e \in Deliveries |->
                 IF e = d THEN "pending"
                 ELSE IF e \in Replaced(d) THEN "failed" ELSE state[e]]
  /\ lease_until' = [e \in Deliveries |->
                       IF e \in Replaced(d) THEN "over" ELSE lease_until[e]]
  /\ UNCHANGED <<attempt_id, backoff, old, target, inputVars, stage, inside, astray>>

\* dispatch_pending, the rows its SELECT takes.
Dispatchable(d) ==
  /\ state[d] \in {"pending", "claimed", "sending"}
  /\ Unleased(d)
  /\ ~backoff[d]

\* Mutant of DispatchUncertain: an expired send is tried again.
DispatchSendAgain(d) ==
  /\ Dispatchable(d)
  /\ state[d] = "sending"
  /\ state' = [state EXCEPT ![d] = "pending"]
  /\ UNCHANGED <<attempt_id, lease_until, backoff, old,
                 target, inputVars, stage, inside, astray>>

\* An attempt that may have reached the session is never tried again.
DispatchUncertain(d) ==
  /\ Dispatchable(d)
  /\ state[d] = "sending"
  /\ state' = [state EXCEPT ![d] = "uncertain"]
  /\ UNCHANGED <<attempt_id, lease_until, backoff, old,
                 target, inputVars, stage, inside, astray>>

DispatchFailed(d) ==
  /\ Dispatchable(d)
  /\ state[d] \in NeverSent
  /\ ~(Tried(d) /\ d \in old)
  /\ target # "takes"
  /\ state' = [state EXCEPT ![d] = "failed"]
  /\ UNCHANGED <<attempt_id, lease_until, backoff, old,
                 target, inputVars, stage, inside, astray>>

\* The next id of a delivery's pool: which one it is tells nothing (uuid4).
NewAttempt(d) == CHOOSE a \in Attempts : DeliveryOf[a] = d /\ stage[a] = "unused"

\* A fresh attempt: claimed in the transaction, then submitted to the runner.
DispatchClaim(a) ==
  LET d == DeliveryOf[a] IN
  /\ Dispatchable(d)
  /\ state[d] \in NeverSent
  /\ ~(Tried(d) /\ d \in old)
  /\ target = "takes"
  /\ stage[a] = "unused" /\ a = NewAttempt(d)
  /\ state' = [state EXCEPT ![d] = "claimed"]
  /\ attempt_id' = [attempt_id EXCEPT ![d] = a]
  /\ lease_until' = [lease_until EXCEPT ![d] = "held"]
  /\ Leave(a, "queued")
  /\ UNCHANGED <<backoff, old, target, inputVars, inside, astray>>

\* redispatch_undelivered: a person pressed retry, or the seat came free; its
\* dispatch_pending is the action above.
Redispatch(d) ==
  /\ state[d] \in NeverSent
  /\ Tried(d)
  /\ Unleased(d)
  /\ backoff' = [backoff EXCEPT ![d] = FALSE]
  /\ UNCHANGED <<state, attempt_id, lease_until, old,
                 target, inputVars, stage, inside, astray>>

\* Mutant of GiveUp: only what was never tried again is given up.
GiveUpPending(d) ==
  /\ state[d] = "pending"
  /\ Tried(d)
  /\ d \in old
  /\ Unleased(d)
  /\ state' = [state EXCEPT ![d] = "failed"]
  /\ UNCHANGED <<attempt_id, lease_until, backoff, old,
                 target, inputVars, stage, inside, astray>>

\* timer.give_up_stale.
GiveUp(d) ==
  /\ state[d] \in NeverSent
  /\ Tried(d)
  /\ d \in old
  /\ Unleased(d)
  /\ state' = [state EXCEPT ![d] = "failed"]
  /\ UNCHANGED <<attempt_id, lease_until, backoff, old,
                 target, inputVars, stage, inside, astray>>

-------------------------------------------------------------------------------
(* One attempt: run_attempt around RunnerIntake._run.                      *)

\* The seat is refused while an input written to it has no known fate.
SeatHeld(a) == \E b \in Attempts \ {a} : row[b] \in Unread /\ b \notin released

\* fence_send and register_input in one transaction: only the attempt that
\* owns the row, still claimed under a lease that runs, may begin to send.
Fenced(a) ==
  LET d == DeliveryOf[a] IN
  /\ Owns(a)
  /\ state[d] = "claimed"
  /\ lease_until[d] = "held"

RegisterInput(a, from, as, to) ==
  /\ stage[a] = from
  /\ Fenced(a)
  /\ target # "closed"
  /\ state' = [state EXCEPT ![DeliveryOf[a]] = "sending"]
  /\ row' = [row EXCEPT ![a] = as]
  /\ released' = released \ {a}
  /\ Leave(a, to)
  /\ UNCHANGED <<attempt_id, lease_until, backoff, old, target, told, inside, astray>>

\* DeliveryTargetChanged: the fence commits the failure and the turn returns.
TargetChanged(a) ==
  /\ stage[a] \in {"queued", "admitted"}
  /\ Fenced(a)
  /\ target = "closed"
  /\ state' = [state EXCEPT ![DeliveryOf[a]] = "failed"]
  /\ lease_until' = [lease_until EXCEPT ![DeliveryOf[a]] = "over"]
  /\ Leave(a, "settling")
  /\ UNCHANGED <<attempt_id, backoff, old, target, inputVars, inside, astray>>

\* "Delivery attempt no longer owns this input".
NotOwner(a) ==
  /\ ~Fenced(a)
  /\ \/ stage[a] = "queued" /\ Leave(a, "admitting")
     \/ stage[a] = "admitted" /\ Leave(a, "settling")
  /\ UNCHANGED <<ledgerVars, target, inputVars, inside, astray>>

\* join_running_session: the seat's session is at work and is handed it...
Join(a) == RegisterInput(a, "queued", "joined", "joining")

\* ...or is not working, and the attempt waits for work of its own.
NoJoin(a) ==
  /\ stage[a] = "queued"
  /\ Leave(a, "admitting")
  /\ UNCHANGED <<ledgerVars, target, inputVars, inside, astray>>

\* admitted_initial: credits, the project's slots, the seat.
Admit(a) ==
  /\ stage[a] = "admitting"
  /\ \/ ~SeatHeld(a) /\ Leave(a, "admitted")
     \/ Leave(a, "settling")
  /\ UNCHANGED <<ledgerVars, target, inputVars, inside, astray>>

StartWork(a) == RegisterInput(a, "admitted", "opened", "starting")

\* host.steer or host.send left for the runner, which keeps the input once.
Say(a) ==
  /\ stage[a] \in {"joining", "starting"}
  /\ inside' = [inside EXCEPT ![a] = "waiting"]
  /\ Leave(a, IF stage[a] = "joining" THEN "steered" ELSE "said")
  /\ UNCHANGED <<ledgerVars, target, inputVars, astray>>

\* InputUnconfirmed for a call that in fact took nothing there.
SayLost(a) ==
  /\ stage[a] \in {"joining", "starting"}
  /\ Leave(a, "settling")
  /\ UNCHANGED <<ledgerVars, target, inputVars, inside, astray>>

\* Mutant of NotSent: a steer is withdrawn like a send, whatever left.
NotSentSteered(a) == stage[a] \in {"joining", "starting", "steered", "said"}

\* What _submit takes for a send that never got that far: the session is not
\* this process's, or could not be started again. Of `send` the second is also
\* said when the call had left and the link was cut before the answer
\* (LinkInterrupted is a DeviceOffline), with the device still away as the
\* session is started again. `steer` starts nothing: such a call of it is
\* unconfirmed.
NotSent(a) == stage[a] \in {"joining", "starting", "said"}

\* withdraw_input: the registration goes, unless its fate was settled, and the
\* attempt owns a claimed row again.
Withdraw(a) ==
  LET d == DeliveryOf[a]
      back == Owns(a) /\ state[d] = "sending"
  IN
  /\ NotSent(a)
  /\ row' = [row EXCEPT ![a] = IF @ \in Unread THEN "none" ELSE @]
  /\ state' = [state EXCEPT ![d] = IF back THEN "claimed" ELSE @]
  /\ astray' = IF back /\ stage[a] = "said" THEN astray \cup {a} ELSE astray
  /\ Leave(a, IF stage[a] = "joining" THEN "admitting" ELSE "settling")
  /\ UNCHANGED <<attempt_id, lease_until, backoff, old,
                 target, released, told, inside>>

\* The call came back, confirmed or not; the turn hands over to the session.
Answered(a) ==
  /\ stage[a] \in {"steered", "said"}
  /\ Leave(a, "settling")
  /\ UNCHANGED <<ledgerVars, target, inputVars, inside, astray>>

\* The task is cancelled (orphan sweep, drain): only the finally clause runs.
Cancel(a) ==
  /\ stage[a] \in Alive
  /\ Leave(a, "settling")
  /\ UNCHANGED <<ledgerVars, target, inputVars, inside, astray>>

\* Mutants of Settle: what follows from the row's state is swapped, mistaken or
\* misspelt.
SettleAs(a, settled(_)) ==
  LET d == DeliveryOf[a] IN
  /\ stage[a] = "settling"
  /\ Leave(a, "over")
  /\ IF Owns(a)
     THEN /\ state' = [state EXCEPT ![d] = settled(@)]
          /\ backoff' = [backoff EXCEPT ![d] = @ \/ state[d] = "claimed"]
          /\ lease_until' = [lease_until EXCEPT ![d] = "over"]
     ELSE UNCHANGED <<state, backoff, lease_until>>
  /\ UNCHANGED <<attempt_id, old, target, inputVars, inside, astray>>
SettleByTransport(a) ==
  SettleAs(a, LAMBDA s : IF s = "claimed" THEN "pending"
                         ELSE IF s = "sending" THEN "received" ELSE s)
SettleMisspelt(a) ==
  SettleAs(a, LAMBDA s : IF s = "claimed" THEN "waiting"
                         ELSE IF s = "sending" THEN "uncertain" ELSE s)

\* run_attempt's finally: settle only the attempt that still owns the row.
Settle(a) ==
  LET d == DeliveryOf[a] IN
  /\ stage[a] = "settling"
  /\ Leave(a, "over")
  /\ IF Owns(a)
     THEN /\ state' = [state EXCEPT ![d] = IF @ = "claimed" THEN "pending"
                                           ELSE IF @ = "sending" THEN "uncertain"
                                           ELSE @]
          /\ backoff' = [backoff EXCEPT ![d] = @ \/ state[d] = "claimed"]
          /\ lease_until' = [lease_until EXCEPT ![d] = "over"]
     ELSE UNCHANGED <<state, backoff, lease_until>>
  /\ UNCHANGED <<attempt_id, old, target, inputVars, inside, astray>>

\* run_attempt's heartbeat: it renews even a lease that ran out meanwhile.
Renew(a) ==
  LET d == DeliveryOf[a] IN
  /\ stage[a] \in Alive
  /\ Owns(a)
  /\ state[d] \in {"claimed", "sending"}
  /\ lease_until' = [lease_until EXCEPT ![d] = "held"]
  /\ UNCHANGED <<state, attempt_id, backoff, old, target, inputVars, stage, inside, astray>>

\* The backend process stops: nothing of the attempt runs any more.
Crash(a) ==
  /\ stage[a] \in Alive \cup {"settling"}
  /\ Leave(a, "over")
  /\ UNCHANGED <<ledgerVars, target, inputVars, inside, astray>>

-------------------------------------------------------------------------------
(* The session, and what the platform records of it.                       *)

\* The agent takes the input in.
SessionReads(a) ==
  /\ inside[a] = "waiting"
  /\ inside' = [inside EXCEPT ![a] = "read"]
  /\ UNCHANGED <<ledgerVars, target, inputVars, stage, astray>>

\* The build settled it unread, or the process ended with it unread.
SessionDrops(a) ==
  /\ inside[a] = "waiting"
  /\ inside' = [inside EXCEPT ![a] = "gone"]
  /\ UNCHANGED <<ledgerVars, target, inputVars, stage, astray>>

\* record_receipt of a native echo.
RecordRead(a) ==
  LET d == DeliveryOf[a]
      settles == /\ row[a] \in Unread \cup {"terminated"}
                 /\ Owns(a)
                 /\ state[d] \in {"sending", "uncertain", "received"}
  IN
  /\ inside[a] = "read"
  /\ a \notin told
  /\ told' = told \cup {a}
  /\ row' = [row EXCEPT ![a] = IF settles THEN "read" ELSE @]
  /\ state' = [state EXCEPT ![d] = IF settles THEN "received" ELSE @]
  /\ lease_until' = [lease_until EXCEPT ![d] = IF settles THEN "over" ELSE @]
  /\ UNCHANGED <<attempt_id, backoff, old, target, released, stage, inside, astray>>

\* drop_input: only an attempt still "sending" goes back to be retried.
DropInput(a) ==
  LET d == DeliveryOf[a]
      unread == row[a] \in Unread
  IN
  /\ inside[a] = "gone"
  /\ a \notin told
  /\ told' = told \cup {a}
  /\ row' = [row EXCEPT ![a] = IF unread THEN "dropped" ELSE @]
  /\ state' = [state EXCEPT ![d] =
                 IF unread /\ Owns(a) /\ @ = "sending" THEN "claimed" ELSE @]
  /\ UNCHANGED <<attempt_id, lease_until, backoff, old,
                 target, released, stage, inside, astray>>

\* terminate_inputs_of_dead_works, terminate_unread_of_session: the orphan
\* sweep, a closing task, a destroyed machine. The delivery is left alone.
Terminate(a) ==
  /\ row[a] \in Unread
  /\ row' = [row EXCEPT ![a] = "terminated"]
  /\ UNCHANGED <<ledgerVars, target, released, told, stage, inside, astray>>

\* unread_input_with_over_work: the work opened to carry it was ended by the
\* platform, or the process it was handed to has exited. Its row stays unread.
Release(a) ==
  /\ row[a] \in Unread
  /\ a \notin released
  /\ \/ row[a] = "opened"
     \/ stage[a] \in {"settling", "over"} /\ inside[a] # "waiting"
  /\ released' = released \cup {a}
  /\ UNCHANGED <<ledgerVars, target, row, told, stage, inside, astray>>

-------------------------------------------------------------------------------
(* Time and the room.                                                      *)

LeasePasses(d) ==
  /\ lease_until[d] = "held"
  /\ lease_until' = [lease_until EXCEPT ![d] = "over"]
  /\ UNCHANGED <<state, attempt_id, backoff, old, target, inputVars, stage, inside, astray>>

BackoffPasses(d) ==
  /\ backoff[d]
  /\ backoff' = [backoff EXCEPT ![d] = FALSE]
  /\ UNCHANGED <<state, attempt_id, lease_until, old, target, inputVars, stage, inside, astray>>

\* Its age is only read of one that was tried and may be sent again; it passes then.
GrowsOld(d) ==
  /\ Tried(d) /\ state[d] \in NeverSent
  /\ d \notin old
  /\ old' = old \cup {d}
  /\ UNCHANGED <<state, attempt_id, lease_until, backoff,
                 target, inputVars, stage, inside, astray>>

\* The task closes (or reopens), the room is archived, the teammate unseated.
TargetMoves ==
  /\ target' \in Targets \ {target}
  /\ UNCHANGED <<ledgerVars, inputVars, stage, inside, astray>>

-------------------------------------------------------------------------------
Dispatch(d) == \/ DispatchUncertain(d)
               \/ DispatchFailed(d)
               \/ \E a \in Attempts : DeliveryOf[a] = d /\ DispatchClaim(a)

\* What an attempt does by itself when nobody cancels it and its process runs.
Proceed(a) == \/ Join(a) \/ NoJoin(a) \/ NotOwner(a) \/ TargetChanged(a)
              \/ Admit(a) \/ StartWork(a)
              \/ Say(a) \/ SayLost(a) \/ Withdraw(a) \/ Answered(a)
              \/ Settle(a)

Next ==
  \/ \E d \in Deliveries : \/ Record(d) \/ Dispatch(d) \/ Redispatch(d)
                           \/ GiveUp(d) \/ LeasePasses(d) \/ BackoffPasses(d)
                           \/ GrowsOld(d)
  \/ \E a \in Attempts : \/ Proceed(a) \/ Cancel(a) \/ Renew(a) \/ Crash(a)
                         \/ SessionReads(a) \/ SessionDrops(a)
                         \/ RecordRead(a) \/ DropInput(a) \/ Terminate(a)
                         \/ Release(a)
  \/ TargetMoves

Spec == Init /\ [][Next]_vars

-------------------------------------------------------------------------------
(* Fairness the deployment gives: the delivery sweep runs on a timer, a    *)
(* live task's next await returns, and clocks move. A lease is sure to run *)
(* out only once nobody renews it. Nothing is assumed of the session.      *)
Fairness ==
  /\ \A d \in Deliveries :
       /\ WF_vars(Dispatch(d))
       /\ WF_vars(GiveUp(d))
       /\ WF_vars(BackoffPasses(d))
       /\ WF_vars(GrowsOld(d))
       /\ WF_vars(/\ \A a \in Attempts : Owns(a) /\ DeliveryOf[a] = d
                                           => stage[a] = "over"
                  /\ LeasePasses(d))
  /\ \A a \in Attempts : WF_vars(Proceed(a))

FairSpec == Spec /\ Fairness

-------------------------------------------------------------------------------
(* What the delivery of an instruction promises.                           *)

\* The session may have this attempt's input, and the ledger has not been told
\* otherwise: it is being said, or left and is not known to be gone.
Committed(a) ==
  /\ a \notin astray
  /\ stage[a] \in {"joining", "starting"} \/ inside[a] \in {"waiting", "read"}

\* What the lease and the fence maintain: an attempt that may have reached the
\* session still owns its delivery, which no sweep may claim, fail or replace
\* any more, unless it went astray. The other parts say what an attempt has not
\* done before it is drawn, before it says anything, and that one astray is done.
AttemptIsOfDelivery ==
  \A d \in Deliveries : Tried(d) => DeliveryOf[attempt_id[d]] = d
UnusedIsFresh ==
  \A a \in Attempts :
    stage[a] = "unused" => ~Owns(a) /\ inside[a] = "out" /\ row[a] = "none"
SaidOnlyAfterCall ==
  \A a \in Attempts :
    inside[a] # "out" => stage[a] \in {"steered", "said", "settling", "over"}
AstrayIsDone ==
  \A a \in astray : stage[a] \in {"settling", "over"}
CommittedOwns ==
  \A a \in Attempts :
    Committed(a) => /\ Owns(a)
                    /\ state[DeliveryOf[a]] \in {"sending", "uncertain", "received"}

\* The session takes an instruction in at most once, whatever attempts were
\* made of it ("never permission to inject the instruction a second time",
\* agent.py:5-6). False of the code: see NotSent.
ReadAtMostOnce ==
  \A a, b \in Attempts :
    DeliveryOf[a] = DeliveryOf[b] /\ inside[a] = "read" /\ inside[b] = "read"
      => a = b

\* The one way to a second reading is a send that left, was withdrawn and was
\* tried again: of all other attempts, made by however many backend processes,
\* whichever of them lost their lease, were cancelled or died, at most one is
\* ever read.
ReadAgainOnlyAstray ==
  \A a, b \in Attempts \ astray :
    DeliveryOf[a] = DeliveryOf[b] /\ inside[a] = "read" /\ inside[b] = "read"
      => a = b

\* An instruction the platform told people failed - its task closed, a newer
\* one replaced it, or it was given up after half an hour - is neither in the
\* session's queue nor read there (the fence against REPLACED and GAVE_UP), but
\* for a send that went astray: that one may be, and people are told it failed.
FailedReachedOnlyAstray ==
  \A a \in Attempts \ astray :
    state[DeliveryOf[a]] = "failed" => inside[a] \notin {"waiting", "read"}

\* Only the session's own echo settles a delivery: one marked received is read,
\* by the attempt that owns it, and its input says so ("Only an echo for the
\* registered receiver may settle ... an agent delivery", receipts.py:3-4).
ReceivedWasRead ==
  \A d \in Deliveries :
    state[d] = "received" => /\ Tried(d)
                             /\ inside[attempt_id[d]] = "read"
                             /\ row[attempt_id[d]] = "read"

\* The inductive invariant behind the three above.
Inductive == /\ AttemptIsOfDelivery
             /\ UnusedIsFresh
             /\ SaidOnlyAfterCall
             /\ AstrayIsDone
             /\ CommittedOwns
             /\ ReceivedWasRead

\* What people were told of an instruction never changes under them: no late
\* attempt, report or sweep moves a delivery out of received or failed.
OutcomesAreFinal ==
  [][\A d \in Deliveries :
       state[d] \in {"received", "failed"} => state'[d] = state[d]]_vars

\* What the abstract specification sees of a delivery.
Fate(d) ==
  LET Mine == {a \in Attempts \ astray : DeliveryOf[a] = d} IN
  IF state[d] = "failed" THEN "closed"
  ELSE IF \E a \in Mine : \/ stage[a] \in {"joining", "starting"}
                          \/ inside[a] = "waiting"
       THEN "handed"
  ELSE IF \E a \in Mine : inside[a] = "read" THEN "read"
  ELSE "owed"

Once == INSTANCE InstructionOnce WITH
          fate   <- [d \in Deliveries |-> Fate(d)],
          strays <- {DeliveryOf[a] : a \in astray}

\* The ledger, its attempts and its sweeps together keep the promise of
\* InstructionOnce: an instruction is handed over again only after it came
\* back or went astray, and is closed only while the session does not have it.
HandedOverOnce == Once!Spec

\* A recorded instruction does not wait for ever: it is read, fails where
\* people see it, or is withheld as uncertain, whatever its attempts meet (of those
\* the instance has attempts for: one without any can wait for ever).
Resolved ==
  \A d \in {DeliveryOf[a] : a \in Attempts} :
    state[d] = "pending" ~> state[d] \in {"received", "failed", "uncertain"}

\* "What is about to happen to [an uncertain delivery] is the session's next
\* read, or its runner dropping it, which puts the row back to be tried again"
\* (opening.py:96-98; drop_input's docstring says the same of the attempt).
DroppedIsTriedAgain ==
  \A a \in Attempts :
    Owns(a) /\ row[a] = "dropped" => state[DeliveryOf[a]] # "uncertain"

===============================================================================
