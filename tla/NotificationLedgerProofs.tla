------------------------ MODULE NotificationLedgerProofs ------------------------
(***************************************************************************)
(* What NotificationLedger promises for any number of people, channels and *)
(* attempts: "sent" means delivered, nobody is told twice, and what is     *)
(* said again is what holds now, unless the change overlapped a pass.      *)
(***************************************************************************)
EXTENDS NotificationLedger, TLAPS

IInv == TypeOK /\ Inductive

\* What sending writes, copy by copy: those the channel took and did not have.
LEMMA SendWrites ==
  ASSUME NEW to, NEW what, NEW took, Send(to, what, took)
  PROVE  \A r \in Recipients, c \in Channels :
           IF r \in to /\ c \in took[r] /\ copy[r][c] = "none"
           THEN copy'[r][c] = what[r] /\ written'[r][c] = written[r][c] + 1
           ELSE copy'[r][c] = copy[r][c] /\ written'[r][c] = written[r][c] + 0
BY DEF Send, Inserts

\* Sending keeps the types: a copy is written at most twice (a second time only
\* by a pass that outlives the retraction), and no attempt is counted past the
\* limit.
LEMMA SendTyped ==
  ASSUME TypeOK, NEW to \in SUBSET Recipients, NEW what,
         NEW took, Send(to, what, took),
         \A r \in to : what[r] \in Text,
         \A r \in to : ~Accepted(took, r) => attempts[r] < MaxAttempts,
         \A r \in to, c \in Channels : written[r][c] <= 1
  PROVE  /\ copy' \in [Recipients -> [Channels -> Text \cup {"none"}]]
         /\ written' \in [Recipients -> [Channels -> 0 .. 2]]
         /\ attempts' \in [Recipients -> 0 .. MaxAttempts]
<1>1. copy' \in [Recipients -> [Channels -> Text \cup {"none"}]]
  BY DEF Send, TypeOK
<1>2. written' \in [Recipients -> [Channels -> 0 .. 2]]
  <2>1. ASSUME NEW r \in Recipients, NEW c \in Channels
        PROVE  written[r][c] + (IF r \in to /\ Inserts(took, r, c) THEN 1 ELSE 0) \in 0 .. 2
    <3>1. written[r][c] \in 0 .. 2
      BY DEF TypeOK
    <3>2. r \in to => written[r][c] <= 1
      OBVIOUS
    <3> QED
      BY <3>1, <3>2
  <2> QED
    BY <2>1 DEF Send
<1>3. attempts' \in [Recipients -> 0 .. MaxAttempts]
  <2>1. ASSUME NEW r \in Recipients, r \in to, ~Accepted(took, r)
        PROVE  Attempt(r) \in 0 .. MaxAttempts
    BY <2>1, MaxAttemptsAssumption DEF Attempt, TypeOK
  <2> QED
    BY <2>1 DEF Send, TypeOK
<1> QED
  BY <1>1, <1>2, <1>3

\* The invariant holds of an event nobody was told of yet.
LEMMA InitHolds == Init => IInv
<1> SUFFICES ASSUME Init PROVE IInv
  OBVIOUS
<1>1. 0 \in 0 .. MaxAttempts /\ 0 < MaxAttempts /\ 0 \in 0 .. 2
  BY MaxAttemptsAssumption
<1>2. TypeOK
  BY <1>1 DEF Init, TypeOK, Text
<1>3. Inductive
  BY <1>1, ChannelsAssumption
     DEF Init, Inductive, RowsHold, CopiesCounted, SaidFollows, SentMeansDelivered,
         ToldOnce, SaysNowOtherwise
<1> QED
  BY <1>2, <1>3 DEF IInv

\* Telling those an event is addressed to, for the first time.
LEMMA DeliverKeeps ==
  ASSUME IInv, NEW addressed \in SUBSET Recipients, Deliver(addressed)
  PROVE  IInv'
<1> USE DEF IInv
<1> DEFINE new == {r \in addressed : row[r] = "none"}
<1>1. PICK took \in [new -> SUBSET Channels] :
        /\ Send(new, payload, took)
        /\ row' = [r \in Recipients |->
                     IF r \notin new THEN row[r]
                     ELSE IF Accepted(took, r) THEN "sent" ELSE "unsent"]
  BY DEF Deliver
<1>2. UNCHANGED <<payload, rows, said, overlapped>> /\ said = "first" /\ ~overlapped
  BY DEF Deliver, Inductive
<1>3. \A r \in new : /\ r \in Recipients /\ row[r] = "none" /\ rows[r] = "none"
                     /\ attempts[r] = 0 /\ payload[r] \in Text
                     /\ \A c \in Channels : written[r][c] = 0 /\ copy[r][c] = "none"
  BY DEF Inductive, RowsHold, CopiesCounted, TypeOK
<1>4. /\ copy' \in [Recipients -> [Channels -> Text \cup {"none"}]]
      /\ written' \in [Recipients -> [Channels -> 0 .. 2]]
      /\ attempts' \in [Recipients -> 0 .. MaxAttempts]
  <2>1. \A r \in new : attempts[r] < MaxAttempts
    BY <1>3, MaxAttemptsAssumption
  <2>2. \A r \in new, c \in Channels : written[r][c] <= 1
    BY <1>3
  <2>3. \A r \in new : payload[r] \in Text
    BY <1>3
  <2> HIDE DEF new
  <2>4. new \in SUBSET Recipients
    BY DEF new
  <2> QED
    BY <1>1, <2>1, <2>2, <2>3, <2>4, SendTyped
<1>5. TypeOK'
  BY <1>1, <1>2, <1>4 DEF TypeOK
<1>6. \A r \in Recipients, c \in Channels :
        IF r \in new /\ c \in took[r] /\ copy[r][c] = "none"
        THEN copy'[r][c] = payload[r] /\ written'[r][c] = written[r][c] + 1
        ELSE copy'[r][c] = copy[r][c] /\ written'[r][c] = written[r][c] + 0
  BY <1>1, SendWrites
<1>7. \A r \in Recipients : payload[r] = "first"
  BY <1>2 DEF Inductive, SaidFollows
<1>8. \A r \in Recipients :
        /\ r \in new => row'[r] = IF Accepted(took, r) THEN "sent" ELSE "unsent"
        /\ r \notin new => row'[r] = row[r] /\ attempts'[r] = attempts[r]
  BY <1>1 DEF Send
<1> HIDE DEF new
<1>9. \A r \in Recipients, c \in Channels : written[r][c] \in Nat
  BY DEF TypeOK
<1>10. RowsHold'
  BY <1>2, <1>3, <1>6, <1>8, <1>9 DEF Inductive, RowsHold
<1>11. CopiesCounted'
  BY <1>2, <1>3, <1>6, <1>7, <1>8, <1>9 DEF Inductive, CopiesCounted
<1>12. SaidFollows'
  BY <1>2, <1>7, <1>8 DEF Inductive, SaidFollows
<1>13. SentMeansDelivered'
  BY <1>3, <1>6, <1>7, <1>8 DEF Inductive, SentMeansDelivered, Accepted
<1>14. ToldOnce'
  BY <1>3, <1>6, <1>8, <1>9 DEF Inductive, ToldOnce
<1>15. SaysNowOtherwise'
  BY <1>2, <1>6, <1>7, ChannelsAssumption DEF Inductive, SaysNowOtherwise
<1> QED
  BY <1>2, <1>5, <1>10, <1>11, <1>12, <1>13, <1>14, <1>15 DEF Inductive

\* Sending again what a pass read, and committing.
LEMMA ResendKeeps ==
  ASSUME IInv, Resend
  PROVE  IInv'
<1> USE DEF IInv
<1>1. PICK took \in [Selected -> SUBSET Channels] :
        /\ \A r \in Selected : row[r] = "gone" => Accepted(took, r)
        /\ Send(Selected, rows, took)
        /\ row' = [r \in Recipients |->
                     IF r \in Selected /\ row[r] = "unsent" /\ Accepted(took, r)
                     THEN "sent" ELSE row[r]]
  BY DEF Resend
<1>2. UNCHANGED <<payload, said, overlapped>> /\ rows' = [r \in Recipients |-> "none"]
  BY DEF Resend
<1>3. \A r \in Selected : /\ r \in Recipients /\ rows[r] \in Text
                          /\ row[r] \in {"unsent", "gone"} /\ attempts[r] < MaxAttempts
  BY DEF Selected, Inductive, RowsHold, TypeOK
<1>4. \A r \in Selected, c \in Channels : written[r][c] <= 1
  BY <1>3 DEF Selected, Inductive, CopiesCounted, ToldOnce
<1>5. /\ copy' \in [Recipients -> [Channels -> Text \cup {"none"}]]
      /\ written' \in [Recipients -> [Channels -> 0 .. 2]]
      /\ attempts' \in [Recipients -> 0 .. MaxAttempts]
  <2>1. Selected \in SUBSET Recipients
    BY DEF Selected
  <2> QED
    BY <1>1, <1>3, <1>4, <2>1, SendTyped
<1>6. TypeOK'
  BY <1>1, <1>2, <1>5 DEF TypeOK
<1>7. \A r \in Recipients, c \in Channels :
        IF r \in Selected /\ c \in took[r] /\ copy[r][c] = "none"
        THEN copy'[r][c] = rows[r] /\ written'[r][c] = written[r][c] + 1
        ELSE copy'[r][c] = copy[r][c] /\ written'[r][c] = written[r][c] + 0
  BY <1>1, SendWrites
<1>8. \A r \in Recipients :
        /\ row'[r] = IF r \in Selected /\ row[r] = "unsent" /\ Accepted(took, r)
                     THEN "sent" ELSE row[r]
        /\ r \notin Selected => attempts'[r] = attempts[r]
        /\ rows'[r] = "none"
  BY <1>1, <1>2 DEF Send
<1>9. \A r \in Recipients, c \in Channels : written[r][c] \in Nat
  BY DEF TypeOK
<1>10. RowsHold'
  BY <1>3, <1>7, <1>8, <1>9 DEF Inductive, RowsHold
<1>11. CopiesCounted'
  BY <1>3, <1>7, <1>8, <1>9 DEF Inductive, CopiesCounted, Text
<1>12. SaidFollows'
  BY <1>2, <1>3, <1>8 DEF Inductive, SaidFollows
<1>13. SentMeansDelivered'
  BY <1>3, <1>7, <1>8 DEF Inductive, SentMeansDelivered, Accepted, Text
<1>14. ToldOnce'
  BY <1>3, <1>7, <1>8, <1>9 DEF Inductive, ToldOnce, CopiesCounted
<1>15. SaysNowOtherwise'
  <2> SUFFICES ASSUME ~overlapped, NEW r \in Recipients
               PROVE  /\ copy'[r]["inbox"] \in {"none", said}
                      /\ said = "none" => \A c \in Channels : copy'[r][c] = "none"
    BY <1>2 DEF SaysNowOtherwise
  <2>1. r \in Selected => said # "none" /\ rows[r] = said
    BY DEF Inductive, SaidFollows, Selected
  <2> QED
    BY <1>7, <2>1, ChannelsAssumption DEF Inductive, SaysNowOtherwise
<1> QED
  BY <1>2, <1>6, <1>10, <1>11, <1>12, <1>13, <1>14, <1>15 DEF Inductive

\* The event is amended, or settled.
LEMMA AmendKeeps ==
  ASSUME IInv, Amend
  PROVE  IInv'
<1> USE DEF IInv
<1>1. /\ said = "first" /\ said' = "now" /\ overlapped' = (Selected # {})
      /\ payload' = Amended
      /\ UNCHANGED <<row, attempts, rows, written>>
      /\ copy' = [r \in Recipients |-> [c \in Channels |->
                   IF c = "inbox" /\ copy[r][c] # "none" THEN "now" ELSE copy[r][c]]]
  BY DEF Amend, InboxSays
<1>2. TypeOK'
  BY <1>1 DEF TypeOK, Text, Amended
<1>3. \A r \in Recipients, c \in Channels :
        /\ copy'[r][c] = "none" <=> copy[r][c] = "none"
        /\ c = "inbox" => copy'[r][c] \in {"none", "now"}
  BY <1>1
<1>4. RowsHold' /\ CopiesCounted' /\ SentMeansDelivered' /\ ToldOnce'
  BY <1>1, <1>3 DEF Inductive, RowsHold, CopiesCounted, SentMeansDelivered, ToldOnce
<1>5. SaysNowOtherwise'
  BY <1>1, <1>3, ChannelsAssumption DEF SaysNowOtherwise
<1>6. SaidFollows'
  <2>1. \A r \in Recipients : row[r] # "gone"
    BY <1>1 DEF Inductive, SaidFollows
  <2>2. ~overlapped' => \A r \in Recipients : rows[r] = "none"
    BY <1>1 DEF Selected
  <2> QED
    BY <1>1, <2>1, <2>2 DEF SaidFollows, Amended, Recorded
<1> QED
  BY <1>1, <1>2, <1>4, <1>5, <1>6 DEF Inductive

\* The event is retracted.
LEMMA RetractKeeps ==
  ASSUME IInv, Retract
  PROVE  IInv'
<1> USE DEF IInv
<1>1. /\ said' = "none" /\ overlapped' = (overlapped \/ Selected # {})
      /\ UNCHANGED <<payload, attempts, rows, written>>
      /\ \A r \in Recipients : row'[r] = IF r \in Recorded THEN "gone" ELSE row[r]
      /\ \A r \in Recipients, c \in Channels :
           copy'[r][c] = IF r \in Recorded THEN "none" ELSE copy[r][c]
  BY DEF Retract, Retracted
<1>2. TypeOK'
  BY <1>1 DEF TypeOK, Retract, Retracted
<1>3. \A r \in Recipients : r \in Recorded <=> row[r] \in {"unsent", "sent"}
  BY DEF Recorded
<1>4. RowsHold' /\ SentMeansDelivered' /\ ToldOnce'
  BY <1>1, <1>3 DEF Inductive, RowsHold, SentMeansDelivered, ToldOnce
<1>5. CopiesCounted'
  BY <1>1, <1>3 DEF Inductive, CopiesCounted, ToldOnce
<1>6. \A r \in Recipients : row'[r] \in {"none", "gone"}
  BY <1>1, <1>3 DEF TypeOK
<1>7. SaidFollows'
  BY <1>1, <1>6 DEF SaidFollows, Selected
<1>8. SaysNowOtherwise'
  <2> SUFFICES ASSUME ~overlapped', NEW r \in Recipients, NEW c \in Channels
               PROVE  copy'[r][c] = "none"
    BY <1>1, ChannelsAssumption DEF SaysNowOtherwise
  <2>1. ~overlapped /\ said # "none"
    BY <1>1 DEF Retract
  <2>2. row[r] # "gone"
    BY <2>1 DEF Inductive, SaidFollows
  <2>3. CASE r \in Recorded
    BY <1>1, <2>3
  <2>4. CASE r \notin Recorded
    <3>1. row[r] = "none"
      BY <1>3, <2>2, <2>4 DEF TypeOK
    <3> QED
      BY <1>1, <2>4, <3>1 DEF Inductive, RowsHold, CopiesCounted
  <2> QED
    BY <2>3, <2>4
<1> QED
  BY <1>1, <1>2, <1>4, <1>5, <1>7, <1>8 DEF Inductive

\* The invariant is kept by every step.
LEMMA NextHolds == IInv /\ [Next]_vars => IInv'
<1> SUFFICES ASSUME IInv, [Next]_vars PROVE IInv'
  OBVIOUS
<1> USE DEF IInv
<1>1. ASSUME NEW addressed \in SUBSET Recipients, Deliver(addressed) PROVE IInv'
  BY <1>1, DeliverKeeps
<1>2. CASE Resend
  BY <1>2, ResendKeeps
<1>3. CASE Amend
  BY <1>3, AmendKeeps
<1>4. CASE Retract
  BY <1>4, RetractKeeps
<1>5. CASE Select \/ Abort
  <2>1. /\ UNCHANGED <<row, payload, attempts, copy, said, written, overlapped>>
        /\ rows' \in [Recipients -> Text \cup {"none"}]
        /\ \A r \in Recipients : rows'[r] # "none" => Unsent(r) /\ rows'[r] = payload[r]
        /\ \/ \A r \in Recipients : rows'[r] = "none"
           \/ \E r \in Recipients : Unsent(r)
    BY <1>5 DEF Select, Abort, TypeOK
  <2>2. TypeOK'
    BY <2>1 DEF TypeOK
  <2>3. RowsHold' /\ CopiesCounted' /\ SentMeansDelivered' /\ ToldOnce' /\ SaysNowOtherwise'
    BY <2>1 DEF Inductive, RowsHold, CopiesCounted, SentMeansDelivered, ToldOnce,
                SaysNowOtherwise, Unsent
  <2>4. SaidFollows'
    BY <2>1 DEF Inductive, SaidFollows, Unsent
  <2> QED
    BY <2>1, <2>2, <2>3, <2>4 DEF Inductive
<1>6. CASE UNCHANGED vars
  BY <1>6 DEF vars, TypeOK, Inductive, RowsHold, CopiesCounted, SaidFollows,
              SentMeansDelivered, ToldOnce, SaysNowOtherwise
<1> QED
  BY <1>1, <1>2, <1>3, <1>4, <1>5, <1>6 DEF Next

\* What a row's state says of its copies, what a pass holds of a row, and what is
\* said before and after a change (ledger.py: send, resend_unsent, amend, retract).
THEOREM InductiveInvariant == Spec => []Inductive
<1>1. IInv => Inductive
  BY DEF IInv
<1> QED
  BY <1>1, InitHolds, NextHolds, PTL DEF Spec

\* TypeOK holds at every step (the types of the rows and the copies).
THEOREM TypeCorrect == Spec => []TypeOK
<1>1. IInv => TypeOK
  BY DEF IInv
<1> QED
  BY <1>1, InitHolds, NextHolds, PTL DEF Spec

\* A row the ledger calls sent has every copy (dispatch).
THEOREM SentIsDelivered == Spec => []SentMeansDelivered
<1>1. Inductive => SentMeansDelivered
  BY DEF Inductive
<1> QED
  BY <1>1, InductiveInvariant, PTL

\* Nobody is told twice while the event stands (handlers.py: the delivery key).
THEOREM ToldAtMostOnce == Spec => []ToldOnce
<1>1. Inductive => ToldOnce
  BY DEF Inductive
<1> QED
  BY <1>1, InductiveInvariant, PTL

\* What people can open says what holds now, unless the change overlapped a pass
\* (ledger.py: amend, settle and retract against resend_unsent).
THEOREM SaysNow == Spec => []SaysNowOtherwise
<1>1. Inductive => SaysNowOtherwise
  BY DEF Inductive
<1> QED
  BY <1>1, InductiveInvariant, PTL
===============================================================================
