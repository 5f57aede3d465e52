--------------------------- MODULE ChannelOutboxProofs ---------------------------
(***************************************************************************)
(* What ChannelOutbox promises for any number of workers, attempts and     *)
(* browsers: one sender per running lease, no second copy but of one that  *)
(* went unseen, "sent" only of what was taken or of a push nobody was left *)
(* to take, and outcomes that stay.                                        *)
(***************************************************************************)
EXTENDS ChannelOutbox, TLAPS

\* The initial row, recipient and workers have their types.
LEMMA InitTyped == Init => TypeOK
<1> SUFFICES ASSUME Init PROVE TypeOK
  OBVIOUS
<1>1. 0 \in 0 .. MaxAttempts
  BY MaxAttemptsAssumption
<1>2. /\ state \in {"none", "retracted"} \cup Unsent \cup Final
      /\ channel \in {"email", "push"}
      /\ attempts \in 0 .. MaxAttempts
      /\ claim_token \in 0 .. MaxAttempts
      /\ lease_until \in {"null", "held", "past"}
      /\ backoff \in BOOLEAN
      /\ reachable \in SUBSET Places
      /\ twice \in BOOLEAN /\ unseen \in BOOLEAN /\ vacant \in BOOLEAN
      /\ taken \in SUBSET Places
      /\ lapsed \in SUBSET (0 .. MaxAttempts)
  BY <1>1 DEF Init
<1>3. /\ stage \in [Workers -> {"idle", "contacting", "answered", "failed"}]
      /\ targets \in [Workers -> SUBSET Places]
  BY DEF Init
<1>4. token \in [Workers -> 0 .. MaxAttempts]
  BY <1>1 DEF Init
<1> QED
  BY <1>2, <1>3, <1>4 DEF TypeOK

\* What a worker takes to its targets keeps the types.
LEMMA TakeTyped ==
  ASSUME TypeOK, NEW places \in SUBSET Places, Take(places)
  PROVE  taken' \in SUBSET Places /\ twice' \in BOOLEAN
BY DEF TypeOK, Take

\* Every step of a worker, of a clock, of the recipient or of the ledger keeps
\* the types.
LEMMA NextTyped == TypeOK /\ [Next]_vars => TypeOK'
<1> SUFFICES ASSUME TypeOK, [Next]_vars PROVE TypeOK'
  OBVIOUS
<1>0. channel' = channel => Places' = Places
  BY DEF Places
<1> USE MaxAttemptsAssumption DEF TypeOK, Unsent, Final, row, workers, observed
<1>1. CASE Record
  BY <1>0, <1>1 DEF Record
<1>2. CASE Retract
  BY <1>0, <1>2 DEF Retract
<1>3. CASE GiveUp
  BY <1>0, <1>3 DEF GiveUp
<1>4. CASE LeasePasses
  BY <1>0, <1>4 DEF LeasePasses
<1>5. CASE BackoffPasses
  BY <1>0, <1>5 DEF BackoffPasses
<1>6. ASSUME NEW p \in Places, Subscribe(p) \/ Unsubscribe(p) PROVE TypeOK'
  BY <1>0, <1>6 DEF Subscribe, Unsubscribe
<1>7. ASSUME NEW w \in Workers, Claim(w) PROVE TypeOK'
  BY <1>0, <1>7 DEF Claim
<1>8. ASSUME NEW w \in Workers, Renew(w) PROVE TypeOK'
  BY <1>0, <1>8 DEF Renew
<1>9. ASSUME NEW w \in Workers, Contact(w) PROVE TypeOK'
  <2>1. PICK took, gone, hidden \in SUBSET targets[w] :
          /\ Take(took \cup hidden)
          /\ unseen' = (unseen \/ hidden # {})
          /\ vacant' = (vacant \/ gone # {} \/ (channel = "push" /\ targets[w] = {}))
          /\ reachable' = reachable \ gone
          /\ \E s \in {"failed", "answered"} : stage' = [stage EXCEPT ![w] = s]
          /\ targets' = [targets EXCEPT ![w] = {}]
          /\ UNCHANGED <<row, token, lapsed>>
    BY <1>9 DEF Contact
  <2>2. taken' \in SUBSET Places /\ twice' \in BOOLEAN
    BY <2>1, TakeTyped
  <2>3. targets' \in [Workers -> SUBSET Places]
    BY <2>1
  <2>4. stage' \in [Workers -> {"idle", "contacting", "answered", "failed"}]
    BY <2>1
  <2>5. reachable' \in SUBSET Places /\ unseen' \in BOOLEAN /\ vacant' \in BOOLEAN
    BY <2>1
  <2> QED
    BY <1>0, <2>1, <2>2, <2>3, <2>4, <2>5
<1>10. ASSUME NEW w \in Workers, SenderBreaks(w) PROVE TypeOK'
  <2>1. PICK took \in SUBSET targets[w] :
          /\ Take(took)
          /\ unseen' = (unseen \/ took # {})
          /\ stage' = [stage EXCEPT ![w] = "failed"]
          /\ targets' = [targets EXCEPT ![w] = {}]
          /\ UNCHANGED <<row, reachable, token, vacant, lapsed>>
    BY <1>10 DEF SenderBreaks
  <2>2. taken' \in SUBSET Places /\ twice' \in BOOLEAN
    BY <2>1, TakeTyped
  <2>3. targets' \in [Workers -> SUBSET Places]
    BY <2>1
  <2>4. stage' \in [Workers -> {"idle", "contacting", "answered", "failed"}]
    BY <2>1
  <2> QED
    BY <1>0, <2>1, <2>2, <2>3, <2>4
<1>11. ASSUME NEW w \in Workers, Acknowledge(w) PROVE TypeOK'
  <2>1. 0 \in 0 .. MaxAttempts
    OBVIOUS
  <2>2. /\ stage' \in [Workers -> {"idle", "contacting", "answered", "failed"}]
        /\ token' \in [Workers -> 0 .. MaxAttempts]
    BY <1>11, <2>1 DEF Acknowledge, Forget
  <2>3. /\ state' \in {"none", "retracted"} \cup Unsent \cup Final
        /\ lease_until' \in {"null", "held", "past"}
        /\ backoff' \in BOOLEAN
    BY <1>11 DEF Acknowledge
  <2> QED
    BY <1>0, <1>11, <2>2, <2>3 DEF Acknowledge
<1>12. ASSUME NEW w \in Workers, Die(w) PROVE TypeOK'
  <2>1. PICK took \in SUBSET targets[w] :
          /\ Take(took)
          /\ Forget(w)
          /\ targets' = [targets EXCEPT ![w] = {}]
          /\ UNCHANGED <<row, reachable, unseen, vacant, lapsed>>
    BY <1>12 DEF Die
  <2>2. taken' \in SUBSET Places /\ twice' \in BOOLEAN
    BY <2>1, TakeTyped
  <2>3. targets' \in [Workers -> SUBSET Places]
    BY <2>1
  <2>4. /\ stage' \in [Workers -> {"idle", "contacting", "answered", "failed"}]
        /\ token' \in [Workers -> 0 .. MaxAttempts]
    <3> 0 \in 0 .. MaxAttempts
      OBVIOUS
    <3> QED
      BY <2>1 DEF Forget
  <2> QED
    BY <1>0, <2>1, <2>2, <2>3, <2>4
<1>13. CASE UNCHANGED vars
  BY <1>0, <1>13 DEF vars
<1> QED
  BY <1>1, <1>2, <1>3, <1>4, <1>5, <1>6, <1>7, <1>8, <1>9, <1>10, <1>11, <1>12, <1>13
     DEF Next

\* TypeOK holds at every step (the types of the row, the recipient and the workers).
THEOREM TypeCorrect == Spec => []TypeOK
BY InitTyped, NextTyped, PTL DEF Spec

-------------------------------------------------------------------------------
\* A step by which a worker leaves the providers, for good or with an answer it
\* is yet to record, keeps the claims apart and the invariant with them, if
\* copies are accounted for.
LEMMA LeavesKeeps ==
  ASSUME Inductive, TypeOK', NEW w \in Workers, NEW s \in {"idle", "answered", "failed"},
         UNCHANGED <<row, lapsed>>,
         stage[w] # "idle",
         stage' = [stage EXCEPT ![w] = s],
         token'[w] = token[w] \/ s = "idle",
         \A v \in Workers \ {w} : token'[v] = token[v],
         taken \subseteq taken', vacant => vacant',
         s = "answered" => taken' # {} \/ (channel = "push" /\ vacant'),
         TakenIsTold'
  PROVE  Inductive'
<1>1. \A v \in Workers : /\ stage'[v] = IF v = w THEN s ELSE stage[v]
                         /\ stage'[v] # "idle" => token'[v] = token[v] /\ stage[v] # "idle"
  BY DEF Inductive, TypeOK
<1> USE <1>1 DEF Inductive, row
<1>2. ClaimHolds'
  BY DEF ClaimHolds, Mine
<1>3. TokensAreUnique' /\ SentOrVacant' /\ OneSenderPerLease'
  BY DEF TokensAreUnique, SentOrVacant, OneSenderPerLease
<1> QED
  BY <1>2, <1>3

\* Claims are numbered by the attempts, a worker at the providers under a claim
\* whose lease never ran out still holds the row, no two workers share a claim,
\* and while all copies are told of, whoever took one is contacted no more.
THEOREM InductiveInvariant == Spec => []Inductive
<1>1. Init => Inductive
  BY InitTyped DEF Init, Inductive, ClaimHolds, TokensAreUnique, TakenIsTold, SentOrVacant,
                   OneSenderPerLease
<1>2. Inductive /\ [Next]_vars => Inductive'
  <2> SUFFICES ASSUME Inductive, [Next]_vars PROVE Inductive'
    OBVIOUS
  <2> TypeOK /\ TypeOK'
    BY NextTyped DEF Inductive
  <2> USE DEF Inductive, workers, observed
  \* No worker is at the providers under a running lease while the row is claimable.
  <2>1. Claimable => \A v \in Workers : ~(stage[v] = "contacting" /\ token[v] \notin lapsed)
    BY DEF Claimable, ClaimHolds, Unsent
  <2>2. CASE Record
    BY <2>2 DEF Record, ClaimHolds, TokensAreUnique, TakenIsTold, SentOrVacant,
                OneSenderPerLease, Mine
  <2>3. CASE Retract
    BY <2>3 DEF Retract, ClaimHolds, TokensAreUnique, TakenIsTold, SentOrVacant,
                OneSenderPerLease, Mine
  <2>4. CASE GiveUp
    BY <2>1, <2>4 DEF GiveUp, ClaimHolds, TokensAreUnique, TakenIsTold, SentOrVacant,
                      OneSenderPerLease, Mine
  <2>5. CASE LeasePasses
    <3>1. lapsed' # {}
      BY <2>5 DEF LeasePasses
    <3>2. TakenIsTold'
      BY <3>1 DEF TakenIsTold
    <3> QED
      BY <2>5, <3>2 DEF LeasePasses, ClaimHolds, TokensAreUnique, SentOrVacant,
                        OneSenderPerLease, Mine
  <2>6. CASE BackoffPasses
    BY <2>6 DEF BackoffPasses, ClaimHolds, TokensAreUnique, TakenIsTold, SentOrVacant,
                OneSenderPerLease, Mine
  <2>7. ASSUME NEW p \in Places, Subscribe(p) \/ Unsubscribe(p) PROVE Inductive'
    <3>1. UNCHANGED <<row, workers, observed>>
      BY <2>7 DEF Subscribe, Unsubscribe
    <3> QED
      BY <3>1 DEF row, ClaimHolds, TokensAreUnique, TakenIsTold, SentOrVacant,
                  OneSenderPerLease, Mine
  <2>8. ASSUME NEW w \in Workers, Claim(w) PROVE Inductive'
    <3>1. attempts \in Nat /\ attempts' = attempts + 1 /\ claim_token' = attempts'
      BY <2>8, MaxAttemptsAssumption DEF Claim, TypeOK
    <3>2. \A v \in Workers : /\ stage'[v] = IF v = w THEN "contacting" ELSE stage[v]
                             /\ token'[v] = IF v = w THEN attempts + 1 ELSE token[v]
      BY <2>8 DEF Claim, TypeOK
    <3>3. \A v \in Workers \ {w} : stage[v] # "idle" => token[v] \in 1 .. attempts
      BY DEF ClaimHolds
    <3>4. ClaimHolds'
      BY <2>1, <2>8, <3>1, <3>2, <3>3 DEF Claim, ClaimHolds, Mine
    <3>5. TokensAreUnique'
      BY <3>1, <3>2, <3>3 DEF TokensAreUnique
    <3>6. SentOrVacant'
      BY <2>8 DEF Claim, SentOrVacant
    <3>7. OneSenderPerLease'
      BY <2>1, <2>8, <3>2 DEF Claim, OneSenderPerLease
    \* A row whose lease never ran out is claimed from pending: nobody took a copy.
    <3>8. TakenIsTold'
      BY <2>8, <3>2 DEF Claim, Claimable, Unsent, TakenIsTold, Mine
    <3> QED
      BY <2>8, <3>1, <3>4, <3>5, <3>6, <3>7, <3>8 DEF Claim
  <2>9. ASSUME NEW w \in Workers, Renew(w) PROVE Inductive'
    <3>1. attempts > 0
      BY <2>9, MaxAttemptsAssumption DEF Renew, ClaimHolds, TypeOK
    <3> QED
      BY <2>9, <3>1 DEF Renew, ClaimHolds, TokensAreUnique, TakenIsTold, SentOrVacant,
                        OneSenderPerLease, Mine
  <2>10. ASSUME NEW w \in Workers, Contact(w) PROVE Inductive'
    <3>1. PICK took, gone, hidden \in SUBSET targets[w] :
            LET failed == targets[w] \ (took \cup gone) IN
            /\ stage[w] = "contacting"
            /\ took \cap gone = {} /\ hidden \subseteq failed
            /\ channel = "email" => gone = {}
            /\ Take(took \cup hidden)
            /\ unseen' = (unseen \/ hidden # {})
            /\ vacant' = (vacant \/ gone # {} \/ (channel = "push" /\ targets[w] = {}))
            /\ stage' = [stage EXCEPT ![w] = IF Raises(w, failed) THEN "failed"
                                                                  ELSE "answered"]
            /\ UNCHANGED <<row, token, lapsed>>
      BY <2>10 DEF Contact
    <3> DEFINE failed == targets[w] \ (took \cup gone)
               s == IF Raises(w, failed) THEN "failed" ELSE "answered"
    <3>2. taken' = taken \cup took \cup hidden
      BY <3>1 DEF Take
    <3>3. ~Raises(w, failed) => taken' # {} \/ (channel = "push" /\ vacant')
      BY <3>1, <3>2 DEF Raises, TypeOK
    <3>4. Raises(w, failed) => took = {}
      BY DEF Raises
    <3>5. stage'[w] = s /\ \A v \in Workers \ {w} : stage'[v] = stage[v]
      BY <3>1 DEF TypeOK
    <3>6. ASSUME lapsed = {}, ~unseen, hidden = {} PROVE TakenIsTold'
      <4>1. taken = {} /\ ~twice
        BY <3>1, <3>6 DEF TakenIsTold
      <4>2. ~twice' /\ taken' = took
        BY <3>1, <3>2, <3>6, <4>1 DEF Take
      <4>3. \A v \in Workers : stage[v] = "contacting" => v = w
        BY <3>1, <3>6 DEF OneSenderPerLease
      <4>4. state # "retracted" => Mine(w)
        BY <3>1, <3>6 DEF ClaimHolds
      <4>5. \A v \in Workers \ {w} : state # "retracted" /\ Mine(v) => stage[v] = "idle"
        BY <3>1, <4>4 DEF TokensAreUnique, Mine
      <4>6. took # {} => s = "answered"
        BY <3>4
      <4> QED
        BY <3>1, <3>5, <3>6, <4>2, <4>3, <4>4, <4>5, <4>6 DEF TakenIsTold, Mine, row
    <3>7. TakenIsTold'
      BY <3>1, <3>6 DEF TakenIsTold
    <3>8. /\ s \in {"idle", "answered", "failed"}
          /\ s = "answered" => taken' # {} \/ (channel = "push" /\ vacant')
          /\ stage' = [stage EXCEPT ![w] = s]
          /\ taken \subseteq taken' /\ (vacant => vacant')
          /\ UNCHANGED <<row, token, lapsed>> /\ stage[w] # "idle"
      BY <3>1, <3>2, <3>3
    <3> QED
      BY <3>7, <3>8, LeavesKeeps
  <2>11. ASSUME NEW w \in Workers, SenderBreaks(w) PROVE Inductive'
    <3>1. PICK took \in SUBSET targets[w] :
            /\ stage[w] = "contacting"
            /\ Take(took)
            /\ unseen' = (unseen \/ took # {})
            /\ stage' = [stage EXCEPT ![w] = "failed"]
            /\ UNCHANGED <<row, token, vacant, lapsed>>
      BY <2>11 DEF SenderBreaks
    <3>2. /\ stage'[w] = "failed" /\ \A v \in Workers \ {w} : stage'[v] = stage[v]
          /\ taken' = taken \cup took
      BY <3>1 DEF Take, TypeOK
    <3>3. TakenIsTold'
      <4> SUFFICES ASSUME lapsed = {}, ~unseen, took = {} PROVE TakenIsTold'
        BY <3>1 DEF TakenIsTold
      <4>1. taken = {} /\ ~twice
        BY <3>1 DEF TakenIsTold
      <4>2. taken' = {} /\ ~twice'
        BY <3>1, <4>1 DEF Take
      <4> QED
        BY <3>1, <4>2 DEF TakenIsTold, row
    <3> QED
      BY <3>1, <3>2, <3>3, LeavesKeeps
  <2>12. ASSUME NEW w \in Workers, Acknowledge(w) PROVE Inductive'
    <3>1. /\ UNCHANGED <<channel, attempts, claim_token, observed>>
          /\ stage'[w] = "idle"
          /\ stage[w] \in {"answered", "failed"}
          /\ \A v \in Workers : v # w => stage'[v] = stage[v] /\ token'[v] = token[v]
      BY <2>12 DEF Acknowledge, Forget, TypeOK
    <3>2. CASE Mine(w)
      <4>1. /\ lease_until' = "null"
            /\ state' \in {"sent", "dead", "pending"}
            /\ state' = "sent" <=> stage[w] = "answered"
        BY <2>12, <3>1, <3>2 DEF Acknowledge
      <4>2. \A v \in Workers : v # w => ~(stage[v] = "contacting" /\ token[v] \notin lapsed)
        BY <3>1, <3>2 DEF ClaimHolds, TokensAreUnique, Mine
      <4>3. TakenIsTold'
        BY <3>1, <3>2, <4>1 DEF TakenIsTold, Mine
      <4>4. ClaimHolds'
        BY <3>1, <4>2 DEF ClaimHolds
      <4>5. SentOrVacant'
        BY <3>1, <4>1 DEF SentOrVacant, ClaimHolds
      <4> QED
        BY <3>1, <4>1, <4>3, <4>4, <4>5 DEF TokensAreUnique, OneSenderPerLease
    <3>3. CASE ~Mine(w)
      <4>1. UNCHANGED <<state, lease_until, backoff>>
        BY <2>12, <3>3 DEF Acknowledge
      <4> QED
        BY <3>1, <4>1 DEF ClaimHolds, TokensAreUnique, TakenIsTold, SentOrVacant,
                          OneSenderPerLease, Mine
    <3> QED
      BY <3>2, <3>3
  <2>13. ASSUME NEW w \in Workers, Die(w) PROVE Inductive'
    <3>1. PICK took \in SUBSET targets[w] :
            /\ stage[w] # "idle"
            /\ took # {} => stage[w] = "contacting"
            /\ Take(took)
            /\ Forget(w)
            /\ UNCHANGED <<row, unseen, vacant, lapsed>>
      BY <2>13 DEF Die
    <3>2. /\ stage'[w] = "idle"
          /\ \A v \in Workers \ {w} : stage'[v] = stage[v] /\ token'[v] = token[v]
          /\ taken' = taken \cup took
      BY <3>1 DEF Take, Forget, TypeOK
    <3>3. TakenIsTold'
      <4> SUFFICES ASSUME lapsed = {}, ~unseen PROVE TakenIsTold'
        BY <3>1 DEF TakenIsTold
      <4>1. CASE took = {}
        <5>1. UNCHANGED <<taken, twice>>
          BY <3>1, <4>1 DEF Take, TypeOK
        <5> QED
          BY <3>1, <3>2, <5>1 DEF TakenIsTold, Mine, row
      <4>2. CASE took # {}
        <5>1. taken = {} /\ ~twice
          BY <3>1, <4>2 DEF TakenIsTold
        <5>2. ~twice'
          BY <3>1, <5>1 DEF Take
        <5>3. \A v \in Workers : stage[v] = "contacting" => v = w
          BY <3>1, <4>2 DEF OneSenderPerLease
        <5>4. state # "retracted" => Mine(w)
          BY <3>1, <4>2 DEF ClaimHolds
        <5>5. \A v \in Workers \ {w} : state # "retracted" /\ Mine(v) => stage[v] = "idle"
          BY <3>1, <5>4 DEF TokensAreUnique, Mine
        <5> QED
          BY <3>1, <3>2, <5>2, <5>3, <5>4, <5>5 DEF TakenIsTold, Mine, row
      <4> QED
        BY <4>1, <4>2
    <3>4. stage' = [stage EXCEPT ![w] = "idle"]
      BY <3>1 DEF Forget
    <3> QED
      BY <3>1, <3>2, <3>3, <3>4, LeavesKeeps
  <2>14. CASE UNCHANGED vars
    BY <2>14 DEF vars, row, ClaimHolds, TokensAreUnique, TakenIsTold, SentOrVacant,
                 OneSenderPerLease, Mine
  <2> QED
    BY <2>2, <2>3, <2>4, <2>5, <2>6, <2>7, <2>8, <2>9, <2>10, <2>11, <2>12, <2>13, <2>14
       DEF Next
<1> QED
  BY <1>1, <1>2, PTL DEF Spec

\* One worker at a time is at the providers, as long as no lease runs out
\* ("A stale worker cannot acknowledge a claim already recovered", outbox.py).
THEOREM OneSender == Spec => []OneSenderPerLease
<1>1. Inductive => OneSenderPerLease
  BY DEF Inductive
<1> QED
  BY <1>1, InductiveInvariant, PTL

\* A second copy takes a lapsed lease or a copy of which no worker could tell:
\* what fails at one browser is not sent again to another (push_delivery.py:88-89).
THEOREM NoneTwice == Spec => []TwiceOnlyUnseen
<1>1. Inductive => TwiceOnlyUnseen
  BY DEF Inductive, TakenIsTold, TwiceOnlyUnseen
<1> QED
  BY <1>1, InductiveInvariant, PTL

\* "sent" is only said of what somebody took, or of a push nobody was left to take.
THEOREM SentIsTaken == Spec => []SentOrVacant
<1>1. Inductive => SentOrVacant
  BY DEF Inductive
<1> QED
  BY <1>1, InductiveInvariant, PTL

\* A copy sent or given up on stays so until its event is retracted.
THEOREM OutcomesStay == Spec => OutcomesAreFinal
<1>1. [Next]_vars => [(state \in Final) => state' \in {state, "retracted"}]_vars
  <2> SUFFICES ASSUME Next, state \in Final PROVE state' \in {state, "retracted"}
    OBVIOUS
  <2>1. state \in {"sent", "dead"} /\ ~Claimable /\ \A w \in Workers : ~Mine(w)
    BY DEF Final, Unsent, Claimable, Mine
  <2>2. ASSUME NEW w \in Workers,
               Contact(w) \/ SenderBreaks(w) \/ Acknowledge(w) \/ Die(w)
        PROVE  state' = state
    BY <2>1, <2>2 DEF Contact, SenderBreaks, Acknowledge, Die, row
  <2>3. ASSUME NEW p \in Places, Subscribe(p) \/ Unsubscribe(p) PROVE state' = state
    BY <2>3 DEF Subscribe, Unsubscribe, row
  <2> QED
    BY <2>1, <2>2, <2>3 DEF Next, Record, Retract, GiveUp, LeasePasses, BackoffPasses,
                            Claim, Renew
<1> QED
  BY <1>1, PTL DEF Spec, OutcomesAreFinal
===============================================================================
