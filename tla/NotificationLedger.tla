--------------------------- MODULE NotificationLedger ---------------------------
(***************************************************************************)
(* The ledger of what people are told: one event (an announcement, a       *)
(* question, a card to review), a row per recipient committed with it, the *)
(* copies the channels took - the inbox row, the intent to mail or push -  *)
(* the pass that sends again what a channel refused, and the three ways an *)
(* event stops being true: amended, settled, retracted.                    *)
(*                                                                         *)
(* Source: domain/delivery/ledger.py, domain/notification/handlers.py.     *)
(* What becomes of an intent is ChannelOutbox's.                           *)
(*                                                                         *)
(* Simplifications.                                                        *)
(*  - A transaction is one action, except the resend pass, which reads the *)
(*    rows and later writes what it read; no lock is held between the two. *)
(*    (A change that overlaps its commit ends as one just before it.)      *)
(*  - What an event says is "first" or, once changed, "now".               *)
(*  - Every recipient wants every channel; the passes of one backend do    *)
(*    not overlap (PeriodicRunner, ownership lock).                        *)
(***************************************************************************)
EXTENDS Naturals, FiniteSets

CONSTANTS
  Recipients,   \* people the event is addressed to
  Channels,     \* "inbox" and what is recorded for mail and push
  Changes,      \* what may happen to the event: "amend", "settle", "retract"
  MaxAttempts   \* MAX_ATTEMPTS

ASSUME ChannelsAssumption == "inbox" \in Channels
ASSUME MaxAttemptsAssumption == MaxAttempts \in Nat \ {0}

VARIABLES
  \* --- Delivery, a row per recipient
  row,       \* "none", "unsent", "sent" (sent_at), or "gone" once retracted
  payload, attempts,
  \* --- Notification and ChannelDelivery, by recipient and channel
  copy,      \* what it says, "none" when there is no such row
  \* --- the resend pass
  rows,      \* what it read of the rows it selected, "none" of the others
  \* --- observed
  said,      \* what the event says: "first", "now", or "none" once retracted
  written,   \* times a copy was written
  overlapped \* the event changed while a pass was under way

vars == <<row, payload, attempts, copy, rows, said, written, overlapped>>

Text == {"first", "now"}

TypeOK ==
  /\ row \in [Recipients -> {"none", "unsent", "sent", "gone"}]
  /\ payload \in [Recipients -> Text]
  /\ attempts \in [Recipients -> 0 .. MaxAttempts]
  /\ copy \in [Recipients -> [Channels -> Text \cup {"none"}]]
  /\ rows \in [Recipients -> Text \cup {"none"}]
  /\ said \in Text \cup {"none"}
  /\ written \in [Recipients -> [Channels -> 0 .. 2]]
  /\ overlapped \in BOOLEAN

Init ==
  /\ row = [r \in Recipients |-> "none"]
  /\ payload = [r \in Recipients |-> "first"]
  /\ attempts = [r \in Recipients |-> 0]
  /\ copy = [r \in Recipients |-> [c \in Channels |-> "none"]]
  /\ rows = [r \in Recipients |-> "none"]
  /\ said = "first"
  /\ written = [r \in Recipients |-> [c \in Channels |-> 0]]
  /\ overlapped = FALSE

-------------------------------------------------------------------------------
\* Mutant of Inserts: without the unique key, a copy is written again.
InsertsAgain(took, r, c) == c \in took[r]

\* send_batch of a channel: what it took, unless it already had it
\* (on_conflict_do_nothing).
Inserts(took, r, c) == c \in took[r] /\ copy[r][c] = "none"

\* Mutant of Accepted: what any channel took counts as sent.
AcceptedByOne(took, r) == took[r] # {}

\* dispatch: accepted only when every channel took it.
Accepted(took, r) == took[r] = Channels

\* Mutant of Attempt: a refusal is not counted.
AttemptNone(r) == attempts[r]

\* _count_attempt.
Attempt(r) == attempts[r] + 1

\* Ledger.send of the recipients `to`, told what `what` says, when the channels
\* took `took`: each channel in a savepoint of its own.
Send(to, what, took) ==
  /\ copy' = [r \in Recipients |-> [c \in Channels |->
                IF r \in to /\ Inserts(took, r, c) THEN what[r] ELSE copy[r][c]]]
  /\ written' = [r \in Recipients |-> [c \in Channels |->
                   written[r][c] + IF r \in to /\ Inserts(took, r, c) THEN 1 ELSE 0]]
  /\ attempts' = [r \in Recipients |->
                    IF r \in to /\ ~Accepted(took, r) THEN Attempt(r) ELSE attempts[r]]

\* Ledger.deliver, in the transaction the event happened in: it is recorded for
\* those it was not recorded for before, and sent to them.
Deliver(addressed) ==
  LET new == {r \in addressed : row[r] = "none"} IN
  /\ said = "first"
  /\ new # {}
  /\ \E took \in [new -> SUBSET Channels] :
       /\ Send(new, payload, took)
       /\ row' = [r \in Recipients |->
                    IF r \notin new THEN row[r]
                    ELSE IF Accepted(took, r) THEN "sent" ELSE "unsent"]
  /\ UNCHANGED <<payload, rows, said, overlapped>>

\* Mutant of Unsent: a dead row is tried again.
UnsentDead(r) == row[r] = "unsent"

\* resend_unsent, what its SELECT returns.
Unsent(r) == row[r] = "unsent" /\ attempts[r] < MaxAttempts

Selected == {r \in Recipients : rows[r] # "none"}

Select ==
  /\ Selected = {}
  /\ \E r \in Recipients : Unsent(r)
  /\ rows' = [r \in Recipients |-> IF Unsent(r) THEN payload[r] ELSE "none"]
  /\ UNCHANGED <<row, payload, attempts, copy, said, written, overlapped>>

\* resend_unsent sends what it read, and commits. A row deleted meanwhile is
\* marked sent by no one; counting an attempt on it would fail the whole pass.
Resend ==
  /\ Selected # {}
  /\ \E took \in [Selected -> SUBSET Channels] :
       /\ \A r \in Selected : row[r] = "gone" => Accepted(took, r)
       /\ Send(Selected, rows, took)
       /\ row' = [r \in Recipients |->
                    IF r \in Selected /\ row[r] = "unsent" /\ Accepted(took, r)
                    THEN "sent" ELSE row[r]]
  /\ rows' = [r \in Recipients |-> "none"]
  /\ UNCHANGED <<payload, said, overlapped>>

\* The pass fails on such a row, or its process stops: nothing is committed.
Abort ==
  /\ Selected # {}
  /\ rows' = [r \in Recipients |-> "none"]
  /\ UNCHANGED <<row, payload, attempts, copy, said, written, overlapped>>

Recorded == {r \in Recipients : row[r] \in {"unsent", "sent"}}

\* The copies of the inbox that there are say the new thing; those mailed or
\* pushed stay as they were.
InboxSays(text) ==
  copy' = [r \in Recipients |-> [c \in Channels |->
             IF c = "inbox" /\ copy[r][c] # "none" THEN text ELSE copy[r][c]]]

\* Mutant of Amended: the ledger goes on saying the first thing.
AmendedInbox == payload

\* amend, _settle: the ledger's own payload follows, for what is still to send.
Amended == [r \in Recipients |-> IF r \in Recorded THEN "now" ELSE payload[r]]

\* amend, or settle: the same rows say what holds now (a settled inbox row is
\* also read and resolved).
Amend ==
  /\ {"amend", "settle"} \cap Changes # {}
  /\ said = "first" /\ Recorded # {}
  /\ InboxSays("now")
  /\ payload' = Amended
  /\ said' = "now"
  /\ overlapped' = (Selected # {})
  /\ UNCHANGED <<row, attempts, rows, written>>

\* Mutant of Retracted: what was not sent yet is left in the ledger.
RetractedSent(r) == row[r] = "sent"

\* retract: the row goes with its copies.
Retracted(r) == r \in Recorded

Retract ==
  /\ "retract" \in Changes
  /\ said # "none" /\ Recorded # {}
  /\ copy' = [r \in Recipients |-> [c \in Channels |->
                IF r \in Recorded THEN "none" ELSE copy[r][c]]]
  /\ row' = [r \in Recipients |-> IF Retracted(r) THEN "gone" ELSE row[r]]
  /\ said' = "none"
  /\ overlapped' = (overlapped \/ Selected # {})
  /\ UNCHANGED <<payload, attempts, rows, written>>

-------------------------------------------------------------------------------
Next ==
  \/ \E addressed \in SUBSET Recipients : Deliver(addressed)
  \/ Select \/ Resend \/ Abort \/ Amend \/ Retract

Spec == Init /\ [][Next]_vars

(* Fairness the scheduler gives: the pass runs on a timer and its process   *)
(* is not stopped in it every time (a row's channels may refuse it every    *)
(* time).                                                                   *)
FairSpec == Spec /\ WF_vars(Select) /\ SF_vars(Resend)

-------------------------------------------------------------------------------
\* A row the ledger calls sent has every copy the person was to get, whichever
\* attempts failed half-way (dispatch: a channel's failure is never reported as
\* a delivery).
SentMeansDelivered ==
  \A r \in Recipients : row[r] = "sent" => \A c \in Channels : copy[r][c] # "none"

\* Nobody is told twice: however a batch fails and is sent again, a copy is
\* written once while its event stands.
ToldOnce ==
  \A r \in Recipients, c \in Channels : row[r] # "gone" => written[r][c] <= 1

\* What people can open says what holds now, also when it was sent after the
\* change - unless the change came while a pass was under way.
SaysNowOtherwise ==
  ~overlapped =>
    \A r \in Recipients :
      /\ copy[r]["inbox"] \in {"none", said}
      /\ said = "none" => \A c \in Channels : copy[r][c] = "none"

\* The inductive invariant behind the three: what a row's state says of its
\* copies, what a pass holds of a row, and what is said before and after a change.
RowsHold ==
  \A r \in Recipients :
    /\ row[r] = "none" => attempts[r] = 0 /\ rows[r] = "none"
                          /\ \A c \in Channels : written[r][c] = 0
    /\ rows[r] # "none" => attempts[r] < MaxAttempts /\ row[r] \in {"unsent", "gone"}
CopiesCounted ==
  \A r \in Recipients, c \in Channels :
    /\ row[r] # "gone" => (copy[r][c] = "none" <=> written[r][c] = 0)
    /\ row[r] = "gone" /\ rows[r] # "none" => written[r][c] <= 1
SaidFollows ==
  ~overlapped =>
    /\ said # "none" => \A r \in Recipients :
         /\ rows[r] \in {"none", said}
         /\ row[r] \in {"unsent", "sent"} \/ said = "first" => payload[r] = said
         /\ row[r] # "gone"
    /\ said = "none" => \A r \in Recipients : rows[r] = "none" /\ row[r] \in {"none", "gone"}
Inductive ==
  /\ RowsHold /\ CopiesCounted /\ SaidFollows
  /\ said = "first" => ~overlapped
  /\ SentMeansDelivered /\ ToldOnce /\ SaysNowOtherwise

\* What a resend writes "is what holds now" (ledger.py: amend, settle), and no
\* resend writes the inbox row of a retracted event again (ledger.py: retract,
\* which deletes the ledger's rows so that none does).
ResentHolds ==
  \A r \in Recipients : copy[r]["inbox"] \in {"none", said}

\* An unsent row is sent, retracted, or tried MAX_ATTEMPTS times.
Resolved ==
  \A r \in Recipients :
    row[r] = "unsent" ~> row[r] \in {"sent", "gone"} \/ attempts[r] = MaxAttempts

===============================================================================
