-------------------------- MODULE AgentDeliveryProofs --------------------------
(***************************************************************************)
(* Proofs about AgentDelivery for every set of deliveries and attempts.    *)
(*                                                                         *)
(* The actions fall into those that change the ledger, the inputs or the   *)
(* session, named below, and those that only move clocks, the target or a  *)
(* stage that was never reached.                                           *)
(***************************************************************************)
EXTENDS AgentDelivery, TLAPS

\* Every column, stage and place keeps its values: no handler of the ledger,
\* the attempt or the session writes a state the others do not know.
THEOREM TypeCorrect == Spec => []TypeOK
<1>1. Init => TypeOK
  BY TargetsAssumption DEF Init, TypeOK, States, Stages
<1>2. TypeOK /\ [Next]_vars => TypeOK'
  <2> SUFFICES ASSUME TypeOK, [Next]_vars PROVE TypeOK'
    OBVIOUS
  <2> USE DeliveryOfAssumption, NoAttemptAssumption
      DEF TypeOK, States, Stages, Leave, vars, ledgerVars, inputVars
  <2>1. ASSUME NEW d \in Deliveries, Record(d) PROVE TypeOK'
    BY <2>1 DEF Record
  <2>2. ASSUME NEW d \in Deliveries,
               \/ DispatchUncertain(d) \/ DispatchFailed(d) \/ Redispatch(d)
               \/ GiveUp(d) \/ LeasePasses(d) \/ BackoffPasses(d) \/ GrowsOld(d)
        PROVE TypeOK'
    BY <2>2 DEF DispatchUncertain, DispatchFailed, Redispatch, GiveUp,
                LeasePasses, BackoffPasses, GrowsOld
  <2>3. ASSUME NEW a \in Attempts, DispatchClaim(a) PROVE TypeOK'
    BY <2>3 DEF DispatchClaim
  <2>4. ASSUME NEW a \in Attempts, Join(a) \/ StartWork(a) PROVE TypeOK'
    BY <2>4 DEF Join, StartWork, RegisterInput
  <2>5. ASSUME NEW a \in Attempts,
               \/ NoJoin(a) \/ NotOwner(a) \/ TargetChanged(a) \/ Admit(a)
               \/ SayLost(a) \/ Answered(a) \/ Cancel(a) \/ Crash(a) \/ Renew(a)
        PROVE TypeOK'
    BY <2>5 DEF NoJoin, NotOwner, TargetChanged, Admit, SayLost, Answered,
                Cancel, Crash, Renew
  <2>6. ASSUME NEW a \in Attempts,
               Say(a) \/ SessionReads(a) \/ SessionDrops(a) \/ Release(a)
               \/ Terminate(a)
        PROVE TypeOK'
    BY <2>6 DEF Say, SessionReads, SessionDrops, Release, Terminate
  <2>7. ASSUME NEW a \in Attempts, Withdraw(a) PROVE TypeOK'
    BY <2>7 DEF Withdraw, NotSent
  <2>8. ASSUME NEW a \in Attempts, Settle(a) PROVE TypeOK'
    <3> DEFINE d == DeliveryOf[a]
    <3>1. d \in Deliveries
      OBVIOUS
    <3>2. state' \in [Deliveries -> States]
      BY <2>8, <3>1 DEF Settle
    <3>3. lease_until' \in [Deliveries -> {"held", "over"}]
      BY <2>8, <3>1 DEF Settle
    <3>4. backoff' \in [Deliveries -> BOOLEAN]
      <4>1. (backoff[d] \/ state[d] = "claimed") \in BOOLEAN
        OBVIOUS
      <4>2. \/ backoff' = [backoff EXCEPT ![d] = @ \/ state[d] = "claimed"]
            \/ backoff' = backoff
        BY <2>8 DEF Settle
      <4> QED
        BY <3>1, <4>1, <4>2, Zenon
    <3>5. stage' \in [Attempts -> Stages]
      BY <2>8 DEF Settle
    <3> QED
      BY <2>8, <3>2, <3>3, <3>4, <3>5 DEF Settle
  <2>9. ASSUME NEW a \in Attempts, RecordRead(a) PROVE TypeOK'
    BY <2>9 DEF RecordRead
  <2>10. ASSUME NEW a \in Attempts, DropInput(a) PROVE TypeOK'
    BY <2>10 DEF DropInput
  <2>11. ASSUME TargetMoves PROVE TypeOK'
    BY <2>11 DEF TargetMoves
  <2>12. CASE UNCHANGED vars
    BY <2>12
  <2> QED
    BY <2>1, <2>2, <2>3, <2>4, <2>5, <2>6, <2>7, <2>8, <2>9, <2>10, <2>11, <2>12
       DEF Next, Dispatch, Proceed
<1>3. QED
  BY <1>1, <1>2, PTL DEF Spec

\* Steps that leave the attempt's owner, what it said and what was read alone,
\* and change the ledger only where no attempt can have reached the session.
LEMMA LedgerStepKeepsInductive ==
  ASSUME TypeOK, Inductive, NEW d \in Deliveries,
         \/ Record(d) \/ DispatchUncertain(d) \/ DispatchFailed(d)
         \/ Redispatch(d) \/ GiveUp(d) \/ LeasePasses(d) \/ BackoffPasses(d)
         \/ GrowsOld(d)
  PROVE  Inductive'
<1> USE DeliveryOfAssumption DEF ledgerVars, inputVars
<1>1. /\ UNCHANGED <<attempt_id, row, stage, inside, astray>>
      /\ \A e \in Deliveries :
           \/ state'[e] = state[e]
           \/ state[e] \in {"unrecorded", "pending", "claimed"} /\ state'[e] # "received"
           \/ state[e] = "sending" /\ state'[e] = "uncertain"
  BY DEF TypeOK, Record, Replaced, NeverSent, DispatchUncertain, DispatchFailed,
         Redispatch, GiveUp, LeasePasses, BackoffPasses, GrowsOld
<1>2. AttemptIsOfDelivery' /\ UnusedIsFresh' /\ SaidOnlyAfterCall' /\ AstrayIsDone'
  BY <1>1 DEF Inductive, AttemptIsOfDelivery, UnusedIsFresh, SaidOnlyAfterCall, AstrayIsDone,
              Tried, Owns
<1>3. CommittedOwns'
  BY <1>1 DEF Inductive, CommittedOwns, Committed, Owns
<1>4. ReceivedWasRead'
  BY <1>1 DEF Inductive, ReceivedWasRead, Tried
<1> QED
  BY <1>2, <1>3, <1>4 DEF Inductive

\* A fresh attempt takes over only a delivery no attempt may have reached.
LEMMA ClaimKeepsInductive ==
  ASSUME TypeOK, Inductive, NEW a \in Attempts, DispatchClaim(a)
  PROVE  Inductive'
<1> USE DeliveryOfAssumption, NoAttemptAssumption DEF inputVars
<1> DEFINE d == DeliveryOf[a]
<1>1. /\ d \in Deliveries
      /\ state[d] \in {"pending", "claimed"}
      /\ state' = [state EXCEPT ![d] = "claimed"]
      /\ attempt_id' = [attempt_id EXCEPT ![d] = a]
      /\ stage[a] = "unused"
      /\ stage' = [stage EXCEPT ![a] = "queued"]
      /\ UNCHANGED <<row, inside, astray>>
  BY DEF DispatchClaim, NeverSent, Leave
<1>2. AttemptIsOfDelivery'
  BY <1>1 DEF TypeOK, Inductive, AttemptIsOfDelivery, Tried
<1>3. UnusedIsFresh' /\ SaidOnlyAfterCall' /\ AstrayIsDone'
  BY <1>1 DEF TypeOK, Inductive, UnusedIsFresh, SaidOnlyAfterCall, AstrayIsDone, Owns
<1>4. CommittedOwns'
  BY <1>1 DEF TypeOK, Inductive, CommittedOwns, Committed, Owns, UnusedIsFresh
<1>5. ReceivedWasRead'
  BY <1>1 DEF TypeOK, Inductive, ReceivedWasRead, Tried
<1> QED
  BY <1>2, <1>3, <1>4, <1>5 DEF Inductive

\* The steps of one attempt's task.
LEMMA AttemptStepKeepsInductive ==
  ASSUME TypeOK, Inductive, NEW a \in Attempts,
         \/ Join(a) \/ StartWork(a) \/ NoJoin(a) \/ NotOwner(a)
         \/ TargetChanged(a) \/ Admit(a) \/ Say(a) \/ SayLost(a) \/ Withdraw(a)
         \/ Answered(a) \/ Cancel(a) \/ Settle(a) \/ Renew(a) \/ Crash(a)
  PROVE  Inductive'
<1> USE DeliveryOfAssumption DEF ledgerVars, inputVars, Leave
<1> DEFINE d == DeliveryOf[a]
<1>1. CASE Join(a) \/ StartWork(a)
  \* It was claimed, so nobody had it; now its owner is about to say it.
  <2>1. /\ d \in Deliveries
        /\ Owns(a)
        /\ state[d] = "claimed"
        /\ state' = [state EXCEPT ![d] = "sending"]
        /\ stage[a] \in {"queued", "admitted"}
        /\ stage'[a] \in {"joining", "starting"}
        /\ \A b \in Attempts \ {a} : stage'[b] = stage[b] /\ row'[b] = row[b]
        /\ UNCHANGED <<attempt_id, inside, astray>>
    BY <1>1 DEF TypeOK, Join, StartWork, RegisterInput, Fenced
  <2>2. inside[a] = "out"
    BY <2>1 DEF TypeOK, Inductive, SaidOnlyAfterCall
  <2>3. AttemptIsOfDelivery' /\ UnusedIsFresh' /\ SaidOnlyAfterCall' /\ AstrayIsDone'
    BY <2>1, <2>2 DEF TypeOK, Inductive, AttemptIsOfDelivery, UnusedIsFresh,
                      SaidOnlyAfterCall, AstrayIsDone, Tried, Owns
  <2>4. CommittedOwns'
    BY <2>1 DEF TypeOK, Inductive, CommittedOwns, Committed, Owns
  <2>5. ReceivedWasRead'
    BY <2>1, <2>2 DEF TypeOK, Inductive, ReceivedWasRead, Tried
  <2> QED
    BY <2>3, <2>4, <2>5 DEF Inductive
<1>2. CASE Say(a)
  <2>1. /\ stage[a] \in {"joining", "starting"}
        /\ \E to \in {"steered", "said"} : stage' = [stage EXCEPT ![a] = to]
        /\ inside[a] = "out"
        /\ inside' = [inside EXCEPT ![a] = "waiting"]
        /\ UNCHANGED <<state, attempt_id, row, astray>>
    BY <1>2 DEF Say, TypeOK, Inductive, SaidOnlyAfterCall
  <2>2. AttemptIsOfDelivery' /\ UnusedIsFresh' /\ SaidOnlyAfterCall' /\ AstrayIsDone'
    BY <2>1 DEF TypeOK, Inductive, AttemptIsOfDelivery, UnusedIsFresh,
                SaidOnlyAfterCall, AstrayIsDone, Tried, Owns
  <2>3. CommittedOwns'
    BY <2>1 DEF TypeOK, Inductive, CommittedOwns, Committed, Owns
  <2>4. ReceivedWasRead'
    BY <2>1 DEF TypeOK, Inductive, ReceivedWasRead, Tried
  <2> QED
    BY <2>2, <2>3, <2>4 DEF Inductive
<1>3. CASE Withdraw(a)
  \* Nothing had left, or what left is astray, or the ledger is left as it was.
  <2>1. /\ d \in Deliveries
        /\ stage[a] \in {"joining", "starting", "said"}
        /\ \E to \in {"admitting", "settling"} : stage' = [stage EXCEPT ![a] = to]
        /\ stage[a] = "said" => stage'[a] = "settling"
        /\ row' = [row EXCEPT ![a] = IF @ \in Unread THEN "none" ELSE @]
        /\ UNCHANGED <<attempt_id, inside>>
    BY <1>3 DEF TypeOK, Withdraw, NotSent
  <2>2. \/ /\ state' = state
           /\ astray' = astray
        \/ /\ Owns(a)
           /\ state[d] = "sending"
           /\ state' = [state EXCEPT ![d] = "claimed"]
           /\ astray' = IF stage[a] = "said" THEN astray \cup {a} ELSE astray
    BY <1>3 DEF TypeOK, Withdraw
  <2>3. stage[a] # "said" => inside[a] = "out"
    BY <2>1 DEF TypeOK, Inductive, SaidOnlyAfterCall
  <2>4. AttemptIsOfDelivery' /\ UnusedIsFresh' /\ SaidOnlyAfterCall' /\ AstrayIsDone'
    BY <2>1, <2>2, <2>3 DEF TypeOK, Inductive, AttemptIsOfDelivery, UnusedIsFresh,
                            SaidOnlyAfterCall, AstrayIsDone, Tried, Owns
  <2>5. Committed(a)' => state' = state /\ astray' = astray /\ Committed(a)
    BY <2>1, <2>2, <2>3 DEF TypeOK, Committed
  <2>6. CommittedOwns'
    BY <2>1, <2>2, <2>5 DEF TypeOK, Inductive, CommittedOwns, Committed, Owns
  <2>7. ReceivedWasRead'
    BY <2>1, <2>2 DEF TypeOK, Inductive, ReceivedWasRead, Tried, Unread
  <2> QED
    BY <2>4, <2>6, <2>7 DEF Inductive
<1>4. CASE TargetChanged(a)
  <2>1. /\ d \in Deliveries
        /\ state[d] = "claimed"
        /\ state' = [state EXCEPT ![d] = "failed"]
        /\ stage[a] \in {"queued", "admitted"}
        /\ stage' = [stage EXCEPT ![a] = "settling"]
        /\ UNCHANGED <<attempt_id, row, inside, astray>>
    BY <1>4 DEF TargetChanged, Fenced
  <2>2. AttemptIsOfDelivery' /\ UnusedIsFresh' /\ SaidOnlyAfterCall' /\ AstrayIsDone'
    BY <2>1 DEF TypeOK, Inductive, AttemptIsOfDelivery, UnusedIsFresh,
                SaidOnlyAfterCall, AstrayIsDone, Tried, Owns
  <2>3. CommittedOwns'
    BY <2>1 DEF TypeOK, Inductive, CommittedOwns, Committed, Owns
  <2>4. ReceivedWasRead'
    BY <2>1 DEF TypeOK, Inductive, ReceivedWasRead, Tried
  <2> QED
    BY <2>2, <2>3, <2>4 DEF Inductive
<1>5. CASE Settle(a)
  <2>1. /\ d \in Deliveries
        /\ stage[a] = "settling"
        /\ stage' = [stage EXCEPT ![a] = "over"]
        /\ \/ state' = state
           \/ state' = [state EXCEPT ![d] = IF @ = "claimed" THEN "pending"
                                            ELSE IF @ = "sending" THEN "uncertain"
                                            ELSE @]
        /\ UNCHANGED <<attempt_id, row, inside, astray>>
    BY <1>5 DEF Settle
  <2>2. AttemptIsOfDelivery' /\ UnusedIsFresh' /\ SaidOnlyAfterCall' /\ AstrayIsDone'
    BY <2>1 DEF TypeOK, Inductive, AttemptIsOfDelivery, UnusedIsFresh,
                SaidOnlyAfterCall, AstrayIsDone, Tried, Owns
  <2>3. CommittedOwns'
    BY <2>1 DEF TypeOK, Inductive, CommittedOwns, Committed, Owns
  <2>4. ReceivedWasRead'
    BY <2>1 DEF TypeOK, Inductive, ReceivedWasRead, Tried
  <2> QED
    BY <2>2, <2>3, <2>4 DEF Inductive
<1>6. CASE \/ NoJoin(a) \/ NotOwner(a) \/ Admit(a) \/ SayLost(a) \/ Answered(a)
           \/ Cancel(a) \/ Renew(a) \/ Crash(a)
  \* Only the stage moves, and to one from which nothing is said.
  <2>1. /\ stage[a] # "unused"
        /\ \/ stage' = stage
           \/ \E to \in {"admitting", "admitted"} :
                /\ stage[a] \in {"queued", "admitting"}
                /\ stage' = [stage EXCEPT ![a] = to]
           \/ \E to \in {"settling", "over"} : stage' = [stage EXCEPT ![a] = to]
        /\ UNCHANGED <<state, attempt_id, row, inside, astray>>
    BY <1>6 DEF NoJoin, NotOwner, Admit, SayLost, Answered, Cancel, Renew, Crash,
                Alive, Stages
  <2>2. AttemptIsOfDelivery' /\ UnusedIsFresh' /\ SaidOnlyAfterCall' /\ AstrayIsDone'
    BY <2>1 DEF TypeOK, Inductive, AttemptIsOfDelivery, UnusedIsFresh,
                SaidOnlyAfterCall, AstrayIsDone, Tried, Owns
  <2>3. CommittedOwns'
    BY <2>1 DEF TypeOK, Inductive, CommittedOwns, Committed, Owns
  <2>4. ReceivedWasRead'
    BY <2>1 DEF Inductive, ReceivedWasRead, Tried
  <2> QED
    BY <2>2, <2>3, <2>4 DEF Inductive
<1> QED
  BY <1>1, <1>2, <1>3, <1>4, <1>5, <1>6

\* What the session does, and what the platform records of it.
LEMMA SessionStepKeepsInductive ==
  ASSUME TypeOK, Inductive, NEW a \in Attempts,
         \/ SessionReads(a) \/ SessionDrops(a) \/ RecordRead(a) \/ DropInput(a)
         \/ Terminate(a) \/ Release(a)
  PROVE  Inductive'
<1> USE DeliveryOfAssumption DEF ledgerVars, inputVars
<1> DEFINE d == DeliveryOf[a]
<1>1. CASE SessionReads(a) \/ SessionDrops(a)
  <2>1. /\ inside[a] = "waiting"
        /\ \E to \in {"read", "gone"} : inside' = [inside EXCEPT ![a] = to]
        /\ UNCHANGED <<state, attempt_id, row, stage, astray>>
    BY <1>1 DEF SessionReads, SessionDrops
  <2>2. AttemptIsOfDelivery' /\ UnusedIsFresh' /\ SaidOnlyAfterCall' /\ AstrayIsDone'
    BY <2>1 DEF TypeOK, Inductive, AttemptIsOfDelivery, UnusedIsFresh,
                SaidOnlyAfterCall, AstrayIsDone, Tried, Owns
  <2>3. CommittedOwns'
    BY <2>1 DEF TypeOK, Inductive, CommittedOwns, Committed, Owns
  <2>4. ReceivedWasRead'
    BY <2>1 DEF TypeOK, Inductive, ReceivedWasRead, Tried
  <2> QED
    BY <2>2, <2>3, <2>4 DEF Inductive
<1>2. CASE RecordRead(a)
  <2>1. /\ d \in Deliveries
        /\ inside[a] = "read"
        /\ stage[a] # "unused"
        /\ \/ UNCHANGED <<row, state>>
           \/ /\ Owns(a)
              /\ row' = [row EXCEPT ![a] = "read"]
              /\ state' = [state EXCEPT ![d] = "received"]
        /\ UNCHANGED <<attempt_id, stage, inside, astray>>
    BY <1>2 DEF TypeOK, RecordRead, Inductive, UnusedIsFresh
  <2>2. AttemptIsOfDelivery' /\ UnusedIsFresh' /\ SaidOnlyAfterCall' /\ AstrayIsDone'
    BY <2>1 DEF TypeOK, Inductive, AttemptIsOfDelivery, UnusedIsFresh,
                SaidOnlyAfterCall, AstrayIsDone, Tried, Owns
  <2>3. CommittedOwns'
    BY <2>1 DEF TypeOK, Inductive, CommittedOwns, Committed, Owns
  <2>4. ReceivedWasRead'
    BY <2>1, NoAttemptAssumption DEF TypeOK, Inductive, ReceivedWasRead, Tried, Owns
  <2> QED
    BY <2>2, <2>3, <2>4 DEF Inductive
<1>3. CASE DropInput(a)
  \* What is gone was said, is not read, and is not committed any more.
  <2>1. /\ d \in Deliveries
        /\ inside[a] = "gone"
        /\ stage[a] \in {"steered", "said", "settling", "over"}
        /\ \A b \in Attempts \ {a} : row'[b] = row[b]
        /\ \/ state' = state
           \/ /\ Owns(a)
              /\ state[d] = "sending"
              /\ state' = [state EXCEPT ![d] = "claimed"]
        /\ UNCHANGED <<attempt_id, stage, inside, astray>>
    BY <1>3 DEF TypeOK, DropInput, Inductive, SaidOnlyAfterCall
  <2>2. AttemptIsOfDelivery' /\ UnusedIsFresh' /\ SaidOnlyAfterCall' /\ AstrayIsDone'
    BY <2>1 DEF TypeOK, Inductive, AttemptIsOfDelivery, UnusedIsFresh,
                SaidOnlyAfterCall, AstrayIsDone, Tried, Owns
  <2>3. CommittedOwns'
    BY <2>1 DEF TypeOK, Inductive, CommittedOwns, Committed, Owns
  <2>4. ReceivedWasRead'
    BY <2>1 DEF TypeOK, Inductive, ReceivedWasRead, Tried
  <2> QED
    BY <2>2, <2>3, <2>4 DEF Inductive
<1>4. CASE Terminate(a) \/ Release(a)
  <2>1. /\ row[a] \in Unread
        /\ \A b \in Attempts \ {a} : row'[b] = row[b]
        /\ UNCHANGED <<state, attempt_id, stage, inside, astray>>
    BY <1>4 DEF TypeOK, Terminate, Release
  <2>2. stage[a] # "unused"
    BY <2>1 DEF Inductive, UnusedIsFresh, Unread
  <2>3. AttemptIsOfDelivery' /\ UnusedIsFresh' /\ SaidOnlyAfterCall' /\ AstrayIsDone'
    BY <2>1, <2>2 DEF Inductive, AttemptIsOfDelivery, UnusedIsFresh,
                SaidOnlyAfterCall, AstrayIsDone, Tried, Owns
  <2>4. CommittedOwns'
    BY <2>1 DEF Inductive, CommittedOwns, Committed, Owns
  <2>5. ReceivedWasRead'
    BY <2>1 DEF TypeOK, Inductive, ReceivedWasRead, Tried, Unread
  <2> QED
    BY <2>3, <2>4, <2>5 DEF Inductive
<1> QED
  BY <1>1, <1>2, <1>3, <1>4

LEMMA InductiveInvariant == Spec => []Inductive
<1>1. Init => Inductive
  BY DeliveryOfAssumption, NoAttemptAssumption
     DEF Init, Inductive, AttemptIsOfDelivery, UnusedIsFresh, SaidOnlyAfterCall, AstrayIsDone,
         AstrayIsDone, CommittedOwns, Committed, ReceivedWasRead, Tried, Owns
<1>2. TypeOK /\ Inductive /\ [Next]_vars => Inductive'
  <2> SUFFICES ASSUME TypeOK, Inductive, [Next]_vars PROVE Inductive'
    OBVIOUS
  <2>1. CASE TargetMoves \/ UNCHANGED vars
    <3>1. UNCHANGED <<state, attempt_id, row, stage, inside, astray>>
      BY <2>1 DEF TargetMoves, vars, ledgerVars, inputVars
    <3> QED
      BY <3>1 DEF Inductive, AttemptIsOfDelivery, UnusedIsFresh, SaidOnlyAfterCall, AstrayIsDone,
                  AstrayIsDone, CommittedOwns, Committed, ReceivedWasRead, Tried, Owns
  <2>2. CASE Next /\ ~TargetMoves
    BY <2>2, LedgerStepKeepsInductive, ClaimKeepsInductive,
       AttemptStepKeepsInductive, SessionStepKeepsInductive
       DEF Next, Dispatch, Proceed
  <2> QED
    BY <2>1, <2>2
<1>3. QED
  BY <1>1, <1>2, TypeCorrect, PTL DEF Spec

\* However many attempts of however many processes race, lapse or die, at most
\* one of those that did not go astray gets its input read: an attempt that may
\* have reached the session owns its delivery, and a delivery has one owner.
THEOREM ReadOnce == Spec => []ReadAgainOnlyAstray
<1>1. Inductive => ReadAgainOnlyAstray
  BY DeliveryOfAssumption
     DEF Inductive, CommittedOwns, Committed, Owns, ReadAgainOnlyAstray
<1> QED
  BY <1>1, InductiveInvariant, PTL

\* No instruction people are told failed is in the session's queue or read, but
\* through a send that went astray.
THEOREM FailedStaysOut == Spec => []FailedReachedOnlyAstray
<1>1. Inductive => FailedReachedOnlyAstray
  BY DEF Inductive, CommittedOwns, Committed, FailedReachedOnlyAstray
<1> QED
  BY <1>1, InductiveInvariant, PTL

\* Every delivery marked received is backed by the echo of its own attempt.
THEOREM EchoBacksReceipt == Spec => []ReceivedWasRead
<1>1. Inductive => ReceivedWasRead
  BY DEF Inductive
<1> QED
  BY <1>1, InductiveInvariant, PTL

\* No step of anyone moves a delivery out of received or failed.
THEOREM OutcomesStay == Spec => OutcomesAreFinal
<1>1. TypeOK /\ [Next]_vars
        => [\A d \in Deliveries :
              state[d] \in {"received", "failed"} => state'[d] = state[d]]_vars
  <2> SUFFICES ASSUME TypeOK, Next, NEW d \in Deliveries,
                      state[d] \in {"received", "failed"}
               PROVE  state'[d] = state[d]
    BY DEF vars
  <2> USE DeliveryOfAssumption DEF TypeOK, ledgerVars, inputVars
  <2>1. ASSUME NEW e \in Deliveries,
               \/ Record(e) \/ DispatchUncertain(e) \/ DispatchFailed(e)
               \/ Redispatch(e) \/ GiveUp(e) \/ LeasePasses(e)
               \/ BackoffPasses(e) \/ GrowsOld(e) \/ TargetMoves
        PROVE  state'[d] = state[d]
    BY <2>1 DEF Record, Replaced, NeverSent, DispatchUncertain, DispatchFailed,
         Redispatch, GiveUp, LeasePasses, BackoffPasses, GrowsOld, TargetMoves
  <2>2. ASSUME NEW a \in Attempts,
               \/ DispatchClaim(a) \/ Join(a) \/ StartWork(a) \/ TargetChanged(a)
               \/ Withdraw(a) \/ Settle(a) \/ RecordRead(a) \/ DropInput(a)
        PROVE  state'[d] = state[d]
    BY <2>2 DEF DispatchClaim, NeverSent, Join, StartWork, RegisterInput, Fenced,
         TargetChanged, Withdraw, Settle, RecordRead, DropInput
  <2>3. ASSUME NEW a \in Attempts,
               \/ NoJoin(a) \/ NotOwner(a) \/ Admit(a) \/ Say(a) \/ SayLost(a)
               \/ Answered(a) \/ Cancel(a) \/ Renew(a) \/ Crash(a)
               \/ SessionReads(a) \/ SessionDrops(a) \/ Terminate(a) \/ Release(a)
        PROVE  state'[d] = state[d]
    BY <2>3 DEF NoJoin, NotOwner, Admit, Say, SayLost, Answered, Cancel, Renew,
         Crash, SessionReads, SessionDrops, Terminate, Release
  <2> QED
    BY <2>1, <2>2, <2>3 DEF Next, Dispatch, Proceed
<1> QED
  BY <1>1, TypeCorrect, PTL DEF Spec, OutcomesAreFinal

-------------------------------------------------------------------------------
(* The ledger implements InstructionOnce. By the invariant only the owner  *)
(* of a delivery can have reached the session, so its fate is its owner's, *)
(* and nobody's once its owner went astray.                                *)

OwnerFate(d) ==
  LET a == attempt_id[d] IN
  IF state[d] = "failed" THEN "closed"
  ELSE IF ~Tried(d) \/ a \in astray THEN "owed"
  ELSE IF stage[a] \in {"joining", "starting"} \/ inside[a] = "waiting" THEN "handed"
  ELSE IF inside[a] = "read" THEN "read"
  ELSE "owed"

fates == [d \in Deliveries |-> OwnerFate(d)]

LEMMA FateIsOwners ==
  ASSUME TypeOK, Inductive
  PROVE  [d \in Deliveries |-> Fate(d)] = fates
<1> SUFFICES ASSUME NEW d \in Deliveries PROVE Fate(d) = OwnerFate(d)
  BY DEF fates
<1>1. ASSUME NEW a \in Attempts, DeliveryOf[a] = d, Committed(a)
      PROVE  Tried(d) /\ attempt_id[d] = a
  BY <1>1, NoAttemptAssumption DEF Inductive, CommittedOwns, Owns, Tried
<1>2. Tried(d) => attempt_id[d] \in Attempts /\ DeliveryOf[attempt_id[d]] = d
  BY DEF TypeOK, Inductive, AttemptIsOfDelivery, Tried
<1> QED
  BY <1>1, <1>2 DEF Fate, OwnerFate, Committed

\* A delivery nobody was reached for, or whose owner has said nothing, is owed.
LEMMA OwedWhileUnsaid ==
  ASSUME TypeOK, Inductive, NEW d \in Deliveries,
         state[d] \in {"unrecorded", "pending", "claimed"}
  PROVE  OwnerFate(d) = "owed"
BY DEF TypeOK, Inductive, AttemptIsOfDelivery, CommittedOwns, Committed, Owns,
       Tried, OwnerFate

FateMoves(d, from, to) == OwnerFate(d) = from /\ fates' = [fates EXCEPT ![d] = to]

GoesAstray(a) ==
  /\ OwnerFate(DeliveryOf[a]) # "closed"
  /\ fates' = [fates EXCEPT ![DeliveryOf[a]] = "owed"]
  /\ astray' = astray \cup {a}

FateStep ==
  \/ /\ fates' = fates
     /\ UNCHANGED astray
  \/ \E d \in Deliveries : /\ \/ FateMoves(d, "owed", "handed")
                              \/ FateMoves(d, "handed", "owed")
                              \/ FateMoves(d, "handed", "read")
                           /\ UNCHANGED astray
  \/ \E closed \in SUBSET Deliveries :
       /\ \A d \in closed : OwnerFate(d) = "owed"
       /\ fates' = [d \in Deliveries |-> IF d \in closed THEN "closed" ELSE fates[d]]
       /\ UNCHANGED astray
  \/ \E a \in Attempts : GoesAstray(a)

\* Only the fate of an attempt's own delivery moves with it.
LEMMA FateMovesAlone ==
  ASSUME TypeOK, Inductive, NEW a \in Attempts,
         UNCHANGED attempt_id,
         \A d \in Deliveries \ {DeliveryOf[a]} : state'[d] = state[d],
         \A b \in Attempts \ {a} : /\ stage'[b] = stage[b] /\ inside'[b] = inside[b]
                                   /\ b \in astray' <=> b \in astray
  PROVE  \A d \in Deliveries \ {DeliveryOf[a]} : OwnerFate(d)' = OwnerFate(d)
<1> SUFFICES ASSUME NEW d \in Deliveries \ {DeliveryOf[a]}
             PROVE  OwnerFate(d)' = OwnerFate(d)
  OBVIOUS
<1>1. Tried(d) => attempt_id[d] \in Attempts /\ attempt_id[d] # a
  BY DEF TypeOK, Inductive, AttemptIsOfDelivery, Tried
<1> QED
  BY <1>1 DEF OwnerFate, Tried

LEMMA LedgerFates ==
  ASSUME TypeOK, Inductive, NEW d \in Deliveries,
         \/ Record(d) \/ DispatchUncertain(d) \/ DispatchFailed(d)
         \/ Redispatch(d) \/ GiveUp(d) \/ LeasePasses(d) \/ BackoffPasses(d)
         \/ GrowsOld(d)
  PROVE  FateStep
<1> DEFINE closed == {e \in Deliveries : state[e] # "failed" /\ state'[e] = "failed"}
<1>1. /\ UNCHANGED <<attempt_id, stage, inside, astray>>
      /\ \A e \in Deliveries : state[e] = "failed" => state'[e] = "failed"
      /\ \A e \in closed : state[e] \in {"unrecorded", "pending", "claimed"}
  BY DEF TypeOK, Record, Replaced, NeverSent, DispatchUncertain, DispatchFailed,
         Redispatch, GiveUp, LeasePasses, BackoffPasses, GrowsOld, inputVars
<1>2. \A e \in closed : OwnerFate(e) = "owed"
  BY <1>1, OwedWhileUnsaid
<1>3. \A e \in Deliveries :
        OwnerFate(e)' = IF e \in closed THEN "closed" ELSE OwnerFate(e)
  BY <1>1 DEF OwnerFate, Tried
<1>4. fates' = [e \in Deliveries |-> IF e \in closed THEN "closed" ELSE fates[e]]
  BY <1>3 DEF fates
<1> QED
  BY <1>1, <1>2, <1>4 DEF FateStep

\* A send that left is withdrawn and its delivery put back: nobody's any more.
LEMMA AstrayFates ==
  ASSUME TypeOK, Inductive, NEW a \in Attempts, Withdraw(a), astray' # astray
  PROVE  FateStep
<1> USE DeliveryOfAssumption
<1> DEFINE d == DeliveryOf[a]
<1>1. /\ d \in Deliveries
      /\ Owns(a) /\ state[d] = "sending"
      /\ state' = [state EXCEPT ![d] = "claimed"]
      /\ astray' = astray \cup {a}
      /\ UNCHANGED <<attempt_id, inside>>
      /\ \A b \in Attempts \ {a} : stage'[b] = stage[b]
  BY DEF TypeOK, Withdraw, Leave
<1>2. \A e \in Deliveries \ {d} : OwnerFate(e)' = OwnerFate(e)
  BY <1>1, FateMovesAlone DEF TypeOK
<1>3. OwnerFate(d) # "closed" /\ OwnerFate(d)' = "owed"
  BY <1>1 DEF TypeOK, OwnerFate, Owns
<1>4. fates' = [fates EXCEPT ![d] = "owed"]
  BY <1>1, <1>2, <1>3 DEF fates
<1> QED
  BY <1>1, <1>3, <1>4 DEF FateStep, GoesAstray

LEMMA AttemptFates ==
  ASSUME TypeOK, Inductive, NEW a \in Attempts,
         \/ Join(a) \/ StartWork(a) \/ NoJoin(a) \/ NotOwner(a)
         \/ TargetChanged(a) \/ Admit(a) \/ Say(a) \/ SayLost(a) \/ Withdraw(a)
         \/ Answered(a) \/ Cancel(a) \/ Settle(a) \/ Renew(a) \/ Crash(a)
         \/ SessionReads(a) \/ SessionDrops(a) \/ RecordRead(a) \/ DropInput(a)
         \/ Terminate(a) \/ Release(a),
         UNCHANGED astray
  PROVE  FateStep
<1> USE DeliveryOfAssumption DEF ledgerVars, inputVars, Leave
<1> DEFINE d == DeliveryOf[a]
<1>0. d \in Deliveries
  OBVIOUS
<1>1. /\ UNCHANGED attempt_id
      /\ \A e \in Deliveries \ {d} : state'[e] = state[e]
      /\ \A b \in Attempts \ {a} : stage'[b] = stage[b] /\ inside'[b] = inside[b]
  <2>1. CASE \/ Join(a) \/ StartWork(a) \/ TargetChanged(a) \/ Withdraw(a)
             \/ Settle(a) \/ RecordRead(a) \/ DropInput(a)
    BY <2>1 DEF TypeOK, Join, StartWork, RegisterInput, TargetChanged, Withdraw,
                Settle, RecordRead, DropInput
  <2>2. CASE \/ NoJoin(a) \/ NotOwner(a) \/ Admit(a) \/ Say(a) \/ SayLost(a)
             \/ Answered(a) \/ Cancel(a) \/ Renew(a) \/ Crash(a)
             \/ SessionReads(a) \/ SessionDrops(a) \/ Terminate(a) \/ Release(a)
    BY <2>2 DEF TypeOK, NoJoin, NotOwner, Admit, Say, SayLost, Answered, Cancel,
                Renew, Crash, SessionReads, SessionDrops, Terminate, Release
  <2> QED
    BY <2>1, <2>2
<1>2. \A e \in Deliveries \ {d} : OwnerFate(e)' = OwnerFate(e)
  BY <1>1, FateMovesAlone
<1>3. ASSUME OwnerFate(d)' = OwnerFate(d) PROVE FateStep
  BY <1>2, <1>3 DEF fates, FateStep
<1>4. ASSUME NEW from, NEW to, OwnerFate(d) = from, OwnerFate(d)' = to
      PROVE  FateMoves(d, from, to)
  BY <1>0, <1>2, <1>4 DEF fates, FateMoves
<1>5. CASE ~Owns(a)
  \* An attempt that lost its delivery changes nothing anybody relies on.
  <2>1. attempt_id[d] # a
    BY <1>5 DEF Owns
  <2>2. CASE \/ Join(a) \/ StartWork(a) \/ TargetChanged(a) \/ Withdraw(a)
             \/ Settle(a) \/ RecordRead(a) \/ DropInput(a)
    <3>1. state'[d] = state[d]
      BY <1>5, <2>2 DEF TypeOK, Join, StartWork, RegisterInput, TargetChanged,
                Fenced, Withdraw, Settle, RecordRead, DropInput
    <3> QED
      BY <1>0, <1>1, <1>3, <2>1, <3>1
         DEF OwnerFate, Tried, TypeOK, Inductive, AttemptIsOfDelivery
  <2>3. CASE \/ NoJoin(a) \/ NotOwner(a) \/ Admit(a) \/ Say(a) \/ SayLost(a)
             \/ Answered(a) \/ Cancel(a) \/ Renew(a) \/ Crash(a)
             \/ SessionReads(a) \/ SessionDrops(a) \/ Terminate(a) \/ Release(a)
    <3>1. state'[d] = state[d]
      BY <2>3 DEF NoJoin, NotOwner, Admit, Say, SayLost, Answered, Cancel, Renew,
                Crash, SessionReads, SessionDrops, Terminate, Release
    <3> QED
      BY <1>0, <1>1, <1>3, <2>1, <3>1
         DEF OwnerFate, Tried, TypeOK, Inductive, AttemptIsOfDelivery
  <2> QED
    BY <2>2, <2>3
<1>6. CASE Owns(a) /\ a \in astray
  \* One astray only settles and is reported of: nothing fails by it.
  <2>1. /\ attempt_id[d] = a /\ attempt_id'[d] = a /\ a \in astray'
        /\ stage[a] \in {"settling", "over"}
    BY <1>1, <1>6 DEF Owns, Inductive, AstrayIsDone
  <2>2. state[d] = "failed" <=> state'[d] = "failed"
    BY <1>0, <1>6, <2>1 DEF TypeOK, Alive, Join, StartWork, RegisterInput, NoJoin,
       NotOwner, TargetChanged, Admit, Say, SayLost, Withdraw, NotSent, Answered,
       Cancel, Settle, Renew, Crash, SessionReads, SessionDrops, RecordRead,
       DropInput, Terminate, Release
  <2> QED
    BY <1>3, <1>6, <2>1, <2>2 DEF OwnerFate
<1>7. CASE Owns(a) /\ a \notin astray
  <2>0. a \notin astray'
    BY <1>7
  <2>1. attempt_id[d] = a /\ Tried(d) /\ attempt_id'[d] = a /\ Tried(d)'
    BY <1>1, <1>7, NoAttemptAssumption DEF Owns, Tried
  <2>2. Committed(a) => state[d] \in {"sending", "uncertain", "received"}
    BY DEF Inductive, CommittedOwns
  <2>3. inside[a] # "out" => stage[a] \in {"steered", "said", "settling", "over"}
    BY DEF Inductive, SaidOnlyAfterCall
  <2>4. CASE Join(a) \/ StartWork(a)
    <3>1. /\ state[d] = "claimed" /\ stage[a] \in {"queued", "admitted"}
          /\ state'[d] = "sending" /\ stage'[a] \in {"joining", "starting"}
      BY <2>4, <1>0 DEF TypeOK, Join, StartWork, RegisterInput, Fenced
    <3>2. OwnerFate(d) = "owed" /\ OwnerFate(d)' = "handed"
      BY <1>0, <1>7, <2>0, <2>1, <3>1, OwedWhileUnsaid DEF OwnerFate
    <3> QED
      BY <1>0, <1>4, <3>2 DEF FateStep
  <2>5. CASE TargetChanged(a)
    <3>1. state[d] = "claimed" /\ state'[d] = "failed"
      BY <2>5, <1>0 DEF TypeOK, TargetChanged, Fenced
    <3>2. OwnerFate(d) = "owed" /\ OwnerFate(d)' = "closed"
      BY <1>0, <3>1, OwedWhileUnsaid DEF OwnerFate
    <3>3. fates' = [e \in Deliveries |-> IF e \in {d} THEN "closed" ELSE fates[e]]
      BY <1>2, <3>2 DEF fates
    <3>4. \A e \in {d} : OwnerFate(e) = "owed"
      BY <3>2
    <3> QED
      BY <1>0, <3>3, <3>4 DEF FateStep
  <2>6. CASE \/ Withdraw(a) \/ SayLost(a) \/ Cancel(a) \/ Crash(a)
    <3>1. CASE stage[a] \in {"joining", "starting"}
      <4>1. /\ inside[a] = "out" /\ inside' = inside
            /\ stage'[a] \notin {"joining", "starting"}
            /\ state[d] # "failed" /\ state'[d] # "failed"
        BY <1>0, <1>7, <2>2, <2>3, <2>6, <3>1
           DEF Committed, TypeOK, Withdraw, SayLost, Cancel, Crash
      <4>2. OwnerFate(d) = "handed" /\ OwnerFate(d)' = "owed"
        BY <1>7, <2>0, <2>1, <3>1, <4>1 DEF OwnerFate
      <4> QED
        BY <1>0, <1>4, <4>2 DEF FateStep
    <3>2. CASE stage[a] \notin {"joining", "starting"}
      <4>1. /\ inside' = inside /\ state'[d] = state[d]
            /\ stage'[a] \notin {"joining", "starting"}
        <5>1. CASE Withdraw(a)
          <6>1. stage[a] = "said"
            BY <3>2, <5>1 DEF Withdraw, NotSent
          <6>2. ~(Owns(a) /\ state[d] = "sending")
            BY <1>7, <5>1, <6>1 DEF Withdraw
          <6> QED
            BY <1>0, <5>1, <6>1, <6>2 DEF TypeOK, Withdraw
        <5>2. CASE SayLost(a) \/ Cancel(a) \/ Crash(a)
          BY <3>2, <5>2 DEF TypeOK, SayLost, Cancel, Crash
        <5> QED
          BY <2>6, <5>1, <5>2
      <4> QED
        BY <1>3, <1>7, <2>0, <2>1, <3>2, <4>1 DEF OwnerFate
    <3> QED
      BY <3>1, <3>2
  <2>7. CASE Say(a)
    <3>1. /\ stage[a] \in {"joining", "starting"} /\ inside'[a] = "waiting"
          /\ state' = state
      BY <2>7 DEF TypeOK, Say
    <3> QED
      BY <1>3, <1>7, <2>0, <2>1, <3>1 DEF OwnerFate
  <2>8. CASE SessionReads(a) \/ SessionDrops(a)
    <3>1. /\ inside[a] = "waiting" /\ inside'[a] \in {"read", "gone"}
          /\ state' = state /\ stage' = stage /\ state[d] # "failed"
          /\ stage[a] \notin {"joining", "starting"}
      BY <1>7, <2>2, <2>3, <2>8 DEF TypeOK, Committed, SessionReads, SessionDrops
    <3>2. OwnerFate(d) = "handed" /\ OwnerFate(d)' \in {"read", "owed"}
      BY <1>7, <2>0, <2>1, <3>1 DEF OwnerFate
    <3> QED
      BY <1>0, <1>4, <3>2 DEF FateStep
  <2>9. CASE Settle(a) \/ RecordRead(a) \/ DropInput(a)
    <3>1. /\ state[d] = "failed" <=> state'[d] = "failed"
          /\ inside' = inside
          /\ stage[a] \in {"joining", "starting"} <=> stage'[a] \in {"joining", "starting"}
      BY <1>0, <2>9 DEF TypeOK, Settle, RecordRead, DropInput
    <3> QED
      BY <1>3, <1>7, <2>0, <2>1, <3>1 DEF OwnerFate
  <2>10. CASE \/ NoJoin(a) \/ NotOwner(a) \/ Admit(a) \/ Answered(a) \/ Renew(a)
              \/ Terminate(a) \/ Release(a)
    <3>1. /\ state' = state /\ inside' = inside
          /\ stage[a] \in {"joining", "starting"} <=> stage'[a] \in {"joining", "starting"}
      BY <2>10 DEF TypeOK, NoJoin, NotOwner, Admit, Answered, Renew, Terminate, Release
    <3> QED
      BY <1>3, <1>7, <2>0, <2>1, <3>1 DEF OwnerFate
  <2> QED
    BY <2>4, <2>5, <2>6, <2>7, <2>8, <2>9, <2>10
<1> QED
  BY <1>5, <1>6, <1>7

LEMMA ClaimFates ==
  ASSUME TypeOK, Inductive, NEW a \in Attempts, DispatchClaim(a)
  PROVE  FateStep
<1> USE DeliveryOfAssumption, NoAttemptAssumption DEF inputVars
<1> DEFINE d == DeliveryOf[a]
<1>1. /\ d \in Deliveries
      /\ state[d] \in {"pending", "claimed"}
      /\ state' = [state EXCEPT ![d] = "claimed"]
      /\ attempt_id' = [attempt_id EXCEPT ![d] = a]
      /\ stage' = [stage EXCEPT ![a] = "queued"]
      /\ inside[a] = "out" /\ ~Owns(a)
      /\ UNCHANGED <<inside, astray>>
  BY DEF DispatchClaim, NeverSent, Leave, Inductive, UnusedIsFresh
<1>2. OwnerFate(d) = "owed" /\ OwnerFate(d)' = "owed"
  BY <1>1, OwedWhileUnsaid DEF TypeOK, OwnerFate
<1>3. ASSUME NEW e \in Deliveries \ {d} PROVE OwnerFate(e)' = OwnerFate(e)
  <2>1. attempt_id'[e] = attempt_id[e] /\ attempt_id[e] # a /\ state'[e] = state[e]
    BY <1>1 DEF TypeOK, Inductive, AttemptIsOfDelivery, Tried
  <2>2. attempt_id[e] \in Attempts => stage'[attempt_id[e]] = stage[attempt_id[e]]
    BY <1>1, <2>1 DEF TypeOK
  <2> QED
    BY <1>1, <2>1, <2>2 DEF TypeOK, OwnerFate, Tried
<1> QED
  BY <1>1, <1>2, <1>3 DEF fates, FateStep

\* The ledger with its attempts and sweeps implements InstructionOnce: nothing
\* is handed over again before it came back, and nothing is closed while the
\* session may have it.
THEOREM Implements == Spec => HandedOverOnce
<1>1. Init => Once!Init
  BY NoAttemptAssumption DEF Init, Once!Init, Fate
<1>2. TypeOK /\ Inductive /\ [Next]_vars => FateStep
  <2> SUFFICES ASSUME TypeOK, Inductive, [Next]_vars PROVE FateStep
    OBVIOUS
  <2>1. CASE TargetMoves \/ UNCHANGED vars
    <3>1. UNCHANGED <<state, attempt_id, stage, inside, astray>>
      BY <2>1 DEF TargetMoves, vars, ledgerVars, inputVars
    <3> QED
      BY <3>1 DEF FateStep, fates, OwnerFate, Tried
  <2>2. ASSUME NEW a \in Attempts,
               \/ Proceed(a) \/ Cancel(a) \/ Renew(a) \/ Crash(a)
               \/ SessionReads(a) \/ SessionDrops(a) \/ RecordRead(a)
               \/ DropInput(a) \/ Terminate(a) \/ Release(a)
        PROVE  FateStep
    <3>1. CASE UNCHANGED astray
      BY <2>2, <3>1, AttemptFates DEF Proceed
    <3>2. CASE astray' # astray
      <4>1. Withdraw(a)
        BY <2>2, <3>2 DEF Proceed, Join, StartWork, RegisterInput, NoJoin, NotOwner,
           TargetChanged, Admit, Say, SayLost, Answered, Cancel, Settle, Renew,
           Crash, SessionReads, SessionDrops, RecordRead, DropInput, Terminate,
           Release
      <4> QED
        BY <3>2, <4>1, AstrayFates
    <3> QED
      BY <3>1, <3>2
  <2>3. CASE Next /\ ~TargetMoves
    BY <2>2, <2>3, LedgerFates, ClaimFates DEF Next, Dispatch
  <2> QED
    BY <2>1, <2>3
<1> DEFINE f == [d \in Deliveries |-> Fate(d)]
<1> HIDE DEF f
<1>3. TypeOK /\ Inductive => f = fates
  BY FateIsOwners DEF f
<1>4. (TypeOK /\ Inductive => f = fates)'
  BY <1>3, PTL
<1> USE DEF f
<1>5. ASSUME TypeOK, Inductive, TypeOK', Inductive', FateStep
      PROVE  [Once!Next]_(Once!vars)
  <2>1. f = fates /\ f' = fates'
    BY <1>3, <1>4, <1>5
  <2>2. CASE fates' = fates /\ UNCHANGED astray
    BY <2>1, <2>2 DEF Once!vars
  <2>3. ASSUME NEW d \in Deliveries, UNCHANGED astray,
               \/ FateMoves(d, "owed", "handed")
               \/ FateMoves(d, "handed", "owed")
               \/ FateMoves(d, "handed", "read")
        PROVE  Once!Next
    BY <2>1, <2>3 DEF FateMoves, fates, Once!Next, Once!Hand, Once!TakeBack,
                      Once!Read, Once!Moves
  <2>4. ASSUME NEW closed \in SUBSET Deliveries, UNCHANGED astray,
               \A d \in closed : OwnerFate(d) = "owed",
               fates' = [d \in Deliveries |->
                           IF d \in closed THEN "closed" ELSE fates[d]]
        PROVE  Once!Next
    BY <2>1, <2>4 DEF fates, Once!Next, Once!Close
  <2>5. ASSUME NEW a \in Attempts, GoesAstray(a) PROVE Once!Next
    <3> DEFINE d == DeliveryOf[a]
    <3>1. d \in Deliveries
      BY DeliveryOfAssumption
    <3>2. {DeliveryOf[b] : b \in astray'} = {DeliveryOf[b] : b \in astray} \cup {d}
      BY <2>5 DEF GoesAstray
    <3>3. Once!GoAstray(d)
      BY <2>1, <2>5, <3>1, <3>2 DEF GoesAstray, fates, Once!GoAstray
    <3> QED
      BY <3>1, <3>3 DEF Once!Next
  <2> QED
    BY <1>5, <2>2, <2>3, <2>4, <2>5 DEF FateStep
<1> QED
  BY <1>1, <1>2, <1>5, TypeCorrect, InductiveInvariant, PTL
     DEF Spec, HandedOverOnce, Once!Spec

===============================================================================
