------------------------------- MODULE AcceptCard -------------------------------
(***************************************************************************)
(* One delivery's accept card and the pull request it rides: people accept *)
(* it, arm it, return or void it; a poller mirrors what the forge says and *)
(* merges an armed card once its checks are green. Every one of them reads *)
(* the card, waits seconds for the forge, and then writes.                 *)
(*                                                                         *)
(* Source: domain/review/services/accept.py, merge_queue.py, decisions.py, *)
(* poll_claim.py, polling/advance.py, polling/card_poll.py,                *)
(* polling/seen_head.py; repositories.py; github_pr/httpx_client.py.       *)
(*                                                                         *)
(* Simplifications.                                                        *)
(*  - The card has its PR, rides no file, and its task stays open; reviews *)
(*    are of the PR lane. The project keeps the defaults, one approval,    *)
(*    which who accepts or arms gives with it, and dismissal of stale      *)
(*    accepts, and allows auto-merge. Everyone reviews the card.           *)
(*  - A project whose forge enforces its rules has them answered by Clean  *)
(*    all the same: the platform's gate and the forge's are one.           *)
(*  - A head moves in one way, whoever pushed it: the teammate, or the     *)
(*    platform when the branch is behind.                                  *)
(*  - A forge call and what follows it up to the next one are one step;    *)
(*    the load before the call and the merge call itself are of their own. *)
(*  - Of the note only what the code branches on is kept: whether it says  *)
(*    that the card waits in the merge queue. Notices, credit, who decided *)
(*    and the task's own landing are left out; titles and dependencies     *)
(*    refuse like a check that is not green.                               *)
(*  - A poll outlives its claim only by dying.                             *)
(***************************************************************************)
EXTENDS Integers, FiniteSets

CONSTANTS
  Person,     \* the reviewers
  NoOne,      \* not a person
  MaxHead,    \* bound: heads the branch has had
  MaxFault    \* bound: deaths, refusals and answers that do not come

ASSUME PersonAssumption == NoOne \notin Person
ASSUME BoundAssumption == /\ MaxHead \in Nat \ {0}
                          /\ MaxFault \in Nat

Head == 1 .. MaxHead
MergeCommit == MaxHead + 1

VARIABLES
  card,     \* the AcceptCard row
  claim,    \* poll_claim: some poll holds the card
  lock,     \* whose request holds the row, FOR UPDATE
  poll,     \* the poll that advances the card, and the card as it loaded it
  req,      \* each person's request, and the card as it loaded it
  saw,      \* the heads each person was shown
  pr,       \* the pull request, at the forge
  green,    \* heads whose checks passed
  faults

platformVars == <<card, claim, lock>>
forgeVars    == <<pr, green>>
vars == <<platformVars, poll, req, saw, forgeVars, faults>>

Card == [status : {"pending", "accepted", "rejected", "revoked"},
         head : 0 .. MergeCommit,          \* pr_head_sha, 0 before any was shown
         armed : Person \cup {NoOne},      \* auto_merge_armed_by
         waits : BOOLEAN,                  \* note_code is waiting_merge_queue
         merged : BOOLEAN]                 \* pr_merged_at

New == [status |-> "pending", head |-> 0, armed |-> NoOne, waits |-> FALSE,
        merged |-> FALSE]

\* A merge the forge was asked for: of which head, for whom, by an armed card.
Merge == [head : 0 .. MaxHead, by : Person \cup {NoOne}, armed : BOOLEAN]
PullRequest == [state : {"open", "merged", "closed"}, head : Head,
                queue : Merge,      \* what the merge queue was given
                merge : Merge]      \* what the platform had merged
NoMerge == [head |-> 0, by |-> NoOne, armed |-> FALSE]

\* Whoever waits for the forge, how far it is, and the card as it loaded it.
Poll == [pc : {"idle", "loaded", "judging", "merging", "merged", "queued", "refused"},
         card : Card]
Request == [kind : {"none", "accept", "override", "reject", "void", "push_fix"},
            pc : {"idle", "loaded", "judging", "merging", "merged", "queued"},
            card : Card]
NoPoll == [pc |-> "idle", card |-> New]
Idle   == [kind |-> "none", pc |-> "idle", card |-> New]

TypeOK ==
  /\ card \in Card
  /\ claim \in BOOLEAN
  /\ lock \in Person \cup {NoOne}
  /\ poll \in Poll
  /\ req \in [Person -> Request]
  /\ saw \in [Person -> SUBSET (0 .. MergeCommit)]
  /\ pr \in PullRequest
  /\ green \in SUBSET Head
  /\ faults \in 0 .. MaxFault

Init ==
  /\ card = New /\ claim = FALSE /\ lock = NoOne
  /\ poll = NoPoll /\ req = [p \in Person |-> Idle] /\ saw = [p \in Person |-> {}]
  /\ pr = [state |-> "open", head |-> 1, queue |-> NoMerge, merge |-> NoMerge]
  /\ green = {}
  /\ faults = 0

Fault == /\ faults < MaxFault
         /\ faults' = faults + 1

-------------------------------------------------------------------------------
(* The card in memory and the card in the database.                        *)

\* The unit of work writes the columns that differ from what was loaded, and
\* no others: what someone else wrote meanwhile stands beside them.
Flush(loaded, now) ==
  [f \in DOMAIN card |-> IF now[f] = loaded[f] THEN card[f] ELSE now[f]]

\* A write waits for whoever holds the row.
Writes(p) == lock \in {NoOne, p}

\* _dismiss_stale_accept, and the note that spoke of the old commit.
Dismissed(c) == [c EXCEPT !.armed = NoOne, !.waits = FALSE]

\* Mutants: of Finished, a status no card has; of InQueue, accepted at once; of
\* MergedElsewhere, without the answer to a returned card; of Mirrored, the head
\* taken only the first time.
FinishedMerged(c) == [c EXCEPT !.status = "merged", !.merged = TRUE]
InQueueAccepted(c) == [c EXCEPT !.armed = NoOne, !.status = "accepted"]
MergedElsewhereAny(c) ==
  [c EXCEPT !.status = "accepted", !.merged = TRUE, !.head = MergeCommit, !.waits = FALSE]
MirroredFirst(c) == [c EXCEPT !.head = IF @ = 0 THEN pr.head ELSE @]

\* _finish_pr_accept: the PR is merged, so the work is accepted.
Finished(c) == [c EXCEPT !.status = "accepted", !.merged = TRUE, !.head = MergeCommit,
                         !.waits = FALSE]

\* _conclude_pr_accept: of a click.
Concluded(c) == [Finished(c) EXCEPT !.armed = NoOne]

\* _record_queue_entry: accepted in the queue's time; the card stays pending.
InQueue(c) == [c EXCEPT !.armed = NoOne, !.waits = TRUE]

\* What a poll writes of a PR it finds merged: a returned card stays returned.
MergedElsewhere(c) == IF c.status = "rejected" THEN [c EXCEPT !.merged = TRUE] ELSE Finished(c)

\* And of one that is open: its head, and an end to what an older head earned.
Mirrored(c) ==
  [(IF c.head \notin {0, pr.head} THEN Dismissed(c) ELSE c) EXCEPT !.head = pr.head]

\* _refresh_stale_card: in a session of its own, after the request rolled back.
RefreshStale(p, live) ==
  /\ Writes(p)
  /\ card' = [Dismissed(card) EXCEPT !.head = live]

\* What stopped may be said on the card, in place of what stood there.
Noted(c) == {c, [c EXCEPT !.waits = FALSE]}

-------------------------------------------------------------------------------
(* The forge.                                                              *)

Push ==
  /\ pr.state = "open" /\ pr.head < MaxHead
  /\ pr' = [pr EXCEPT !.head = @ + 1, !.queue = NoMerge]
  /\ UNCHANGED <<platformVars, poll, req, saw, green, faults>>

ChecksPass ==
  /\ pr.head \notin green
  /\ green' = green \cup {pr.head}
  /\ UNCHANGED <<platformVars, poll, req, saw, pr, faults>>

\* A person merges or closes the PR on the forge itself.
HandledOutside ==
  /\ pr.state = "open"
  /\ \E s \in {"merged", "closed"} : pr' = [pr EXCEPT !.state = s, !.queue = NoMerge]
  /\ UNCHANGED <<platformVars, poll, req, saw, green, faults>>

\* The queue merges what it was given, or lets it go.
QueueEnds ==
  /\ pr.queue # NoMerge
  /\ \/ pr' = [pr EXCEPT !.state = "merged", !.merge = pr.queue, !.queue = NoMerge]
     \/ pr' = [pr EXCEPT !.queue = NoMerge]
  /\ UNCHANGED <<platformVars, poll, req, saw, green, faults>>

\* compute_merge_state answers clean or unstable.
Clean(h) == h \in green /\ pr.queue = NoMerge

\* merge_pull_request: what the forge does with m, and the answer it gives. The
\* PR merges only at the head the call carries. One that is merged already is
\* refused (GitHub) or reported as merged (Forgejo).
Asked(m, answer) ==
  \/ /\ pr.state = "open" /\ pr.head = m.head
     /\ \/ answer = "merged" /\ pr' = [pr EXCEPT !.state = "merged", !.merge = m, !.queue = NoMerge]
        \/ answer = "queued" /\ pr' = [pr EXCEPT !.queue = m]
  \/ /\ pr.state = "open" /\ pr.head # m.head
     /\ answer = "stale" /\ UNCHANGED pr
  \/ /\ pr.state # "open"
     /\ answer \in (IF pr.state = "merged" THEN {"merged", "refused"} ELSE {"refused"})
     /\ UNCHANGED pr

\* The same, where the forge refuses for reasons of its own, or its answer is lost
\* and it may have merged.
AskedBadly(m, answer) ==
  /\ Fault
  /\ answer = "refused"
  /\ UNCHANGED pr \/ \E a \in {"merged", "queued"} : Asked(m, a)

Answered(m, answer) == (Asked(m, answer) /\ UNCHANGED faults) \/ AskedBadly(m, answer)

-------------------------------------------------------------------------------
(* What a person does in one transaction.                                  *)

\* The page shows the card with its head.
Look(p) ==
  /\ card.status = "pending" /\ card.head # 0
  /\ card.head \notin saw[p]
  /\ saw' = [saw EXCEPT ![p] = @ \cup {card.head}]
  /\ UNCHANGED <<platformVars, poll, req, forgeVars, faults>>

\* _seen_head: the head on the person's screen is still the card's.
SeenHead(p) == card.head # 0 /\ card.head \in saw[p]

\* _refresh_never_shown_card: no head was shown, so there is nothing to accept,
\* let through or arm; the card shows one now.
RefreshNeverShown ==
  /\ card.status = "pending" /\ card.head = 0
  /\ RefreshStale(NoOne, pr.head)
  /\ UNCHANGED <<claim, lock, poll, req, saw, forgeVars, faults>>

\* arm_auto_merge: accepting in advance what one has seen; disarming needs no look.
Arm(p) ==
  /\ card.status = "pending" /\ SeenHead(p) /\ Writes(p)
  /\ card' = [card EXCEPT !.armed = p]
  /\ UNCHANGED <<claim, lock, poll, req, saw, forgeVars, faults>>

Disarm(p) ==
  /\ card.status = "pending" /\ card.armed # NoOne /\ Writes(p)
  /\ card' = [card EXCEPT !.armed = NoOne]
  /\ UNCHANGED <<claim, lock, poll, req, saw, forgeVars, faults>>

\* revoke: of the record, not of the merge.
Revoke(p) ==
  /\ card.status = "accepted" /\ Writes(p)
  /\ card' = [card EXCEPT !.status = "revoked"]
  /\ UNCHANGED <<claim, lock, poll, req, saw, forgeVars, faults>>

-------------------------------------------------------------------------------
(* What a person asks for and the forge is asked about.                    *)

Loads(p, kind, pc) ==
  /\ req[p] = Idle
  /\ card.status = "pending"
  /\ req' = [req EXCEPT ![p] = [kind |-> kind, pc |-> pc, card |-> card]]
  /\ UNCHANGED <<platformVars, poll, saw, forgeVars, faults>>

\* accept, up to its first question to the forge.
AcceptLoads(p) == SeenHead(p) /\ Loads(p, "accept", "loaded")

\* merge_despite_checks asks the forge to merge, whatever the checks say.
OverrideLoads(p) == SeenHead(p) /\ ~card.merged /\ Loads(p, "override", "merging")

ReturnLoads(p) == \E kind \in {"reject", "void"} : Loads(p, kind, "loaded")

\* push_fix: the teammate says it pushed.
PushFixLoads(p) == Loads(p, "push_fix", "loaded")

\* The request is over; whatever it did not commit is rolled back.
Ends(p) == /\ req' = [req EXCEPT ![p] = Idle]
           /\ lock' = IF lock = p THEN NoOne ELSE lock

Goes(p, pc) == req' = [req EXCEPT ![p].pc = pc]

Loaded(p) == req[p].card

\* _merge_pr_for_accept reads the PR.
AcceptReads(p) ==
  /\ req[p].kind = "accept" /\ req[p].pc = "loaded"
  /\ \/ /\ pr.state = "merged" /\ Writes(p)
        /\ card' = Flush(Loaded(p), Concluded(Loaded(p)))
        /\ Ends(p)
     \/ /\ pr.state = "closed" /\ Writes(p)
        /\ card' = [card EXCEPT !.waits = FALSE]
        /\ Ends(p)
     \/ /\ pr.state = "open" /\ pr.head # Loaded(p).head
        /\ RefreshStale(p, pr.head)
        /\ Ends(p)
     \/ /\ pr.state = "open" /\ pr.head = Loaded(p).head
        /\ Goes(p, "judging")
        /\ UNCHANGED <<card, lock>>
  /\ UNCHANGED <<claim, poll, saw, forgeVars, faults>>

\* Refused, or an outcome nobody knows (_stop_accept_*): rolled back,
\* and an accept may say so on the card.
NotMerged(p) ==
  /\ Ends(p)
  /\ card' \in (IF req[p].kind = "accept" THEN Noted(card) ELSE {card})

\* The verdict is mirrored under the row's lock, which the request keeps.
AcceptJudges(p) ==
  /\ req[p].kind = "accept" /\ req[p].pc = "judging"
  /\ Writes(p)
  /\ IF Clean(Loaded(p).head) THEN lock' = p /\ Goes(p, "merging") /\ UNCHANGED card
     ELSE NotMerged(p)
  /\ UNCHANGED <<claim, poll, saw, forgeVars, faults>>

\* Mutant of Clicked: of the head the branch has now.
ClickedLive(p) == [head |-> pr.head, by |-> p, armed |-> FALSE]

\* The merge a click asks for: of the head its person saw.
Clicked(p) == [head |-> Loaded(p).head, by |-> p, armed |-> FALSE]

\* The merge call, and what its answer leads to short of the books.
ClickMerges(p) ==
  /\ req[p].kind \in {"accept", "override"} /\ req[p].pc = "merging"
  /\ \E answer \in {"merged", "queued", "stale", "refused"} :
       /\ Answered(Clicked(p), answer)
       /\ \/ answer \in {"merged", "queued"} /\ Goes(p, answer) /\ UNCHANGED <<card, lock>>
          \/ /\ answer = "stale" /\ Ends(p)
             /\ RefreshStale(p, IF req[p].kind = "accept" THEN pr.head ELSE card.head)
          \/ answer = "refused" /\ NotMerged(p)
  /\ UNCHANGED <<claim, poll, saw, green>>

\* What the request commits. Letting through leaves the arming as it is.
Booked(p) ==
  IF req[p].pc = "queued" THEN InQueue(Loaded(p))
  ELSE IF req[p].kind = "accept" THEN Concluded(Loaded(p))
  ELSE Finished(Loaded(p))

ClickBooks(p) ==
  /\ req[p].pc \in {"merged", "queued"} /\ Writes(p)
  /\ card' = Flush(Loaded(p), Booked(p))
  /\ Ends(p)
  /\ UNCHANGED <<claim, poll, saw, forgeVars, faults>>

\* reject and void, as the card was loaded; one in the queue is taken out of it.
Returned(p) ==
  LET c == Loaded(p) IN
  IF req[p].kind = "reject"
  THEN [c EXCEPT !.status = "rejected", !.waits = FALSE]
  ELSE [c EXCEPT !.status = "revoked", !.waits = FALSE]

ReturnWrites(p) ==
  /\ req[p].kind \in {"reject", "void"} /\ Writes(p)
  /\ pr' = IF Loaded(p).waits THEN [pr EXCEPT !.queue = NoMerge] ELSE pr
  /\ card' = IF Loaded(p).waits /\ pr.state = "merged" THEN card
             ELSE Flush(Loaded(p), Returned(p))
  /\ Ends(p)
  /\ UNCHANGED <<claim, poll, saw, green, faults>>

PushFixReads(p) ==
  /\ req[p].kind = "push_fix" /\ Writes(p)
  /\ card' = IF pr.head = Loaded(p).head THEN card
             ELSE Flush(Loaded(p), [Dismissed(Loaded(p)) EXCEPT !.head = pr.head])
  /\ Ends(p)
  /\ UNCHANGED <<claim, poll, saw, forgeVars, faults>>

RequestDies(p) ==
  /\ req[p] # Idle /\ Fault
  /\ Ends(p)
  /\ UNCHANGED <<card, claim, poll, saw, forgeVars>>

-------------------------------------------------------------------------------
(* The poller.                                                             *)

\* Mutant of Polled: nobody looks at a returned card.
PolledPending == card.status = "pending"

\* The cards the poller lists.
Polled == card.status = "pending" \/ (card.status = "rejected" /\ ~card.merged)

\* advance_pr_card: the claim, and the card loaded under it.
PollLoads ==
  /\ ~claim /\ Polled
  /\ claim' = TRUE
  /\ poll' = [pc |-> "loaded", card |-> card]
  /\ UNCHANGED <<card, lock, req, saw, forgeVars, faults>>

Released == claim' = FALSE /\ poll' = NoPoll

\* _poll_pr_card up to the question about the checks. A card in the queue is not
\* looked at further, and one that left it is disarmed.
PollReads ==
  /\ poll.pc = "loaded" /\ Writes(NoOne)
  /\ LET c == poll.card
         settles(now) == card' = Flush(c, now) /\ Released
     IN \/ pr.state = "merged" /\ settles(MergedElsewhere(c))
        \/ pr.state # "merged" /\ c.status = "rejected" /\ settles(c)
        \/ pr.state = "closed" /\ c.status = "pending"
           /\ settles([c EXCEPT !.status = "revoked", !.waits = FALSE])
        \/ pr.state = "open" /\ c.status = "pending" /\ c.waits
           /\ settles(IF pr.queue # NoMerge THEN c
                      ELSE [c EXCEPT !.armed = NoOne, !.waits = FALSE])
        \/ /\ pr.state = "open" /\ c.status = "pending" /\ ~c.waits
           /\ card' = Flush(c, Mirrored(c))
           /\ poll' = [pc |-> "judging", card |-> Mirrored(c)]
           /\ UNCHANGED claim
  /\ UNCHANGED <<lock, req, saw, forgeVars, faults>>

\* The verdict of that head: an armed card is merged, with its armer's vote;
\* what is not green may leave a note.
PollJudges ==
  /\ poll.pc = "judging" /\ Writes(NoOne)
  /\ IF poll.card.armed # NoOne /\ Clean(poll.card.head)
     THEN poll' = [poll EXCEPT !.pc = "merging"] /\ UNCHANGED <<card, claim>>
     ELSE card' \in Noted(card) /\ Released
  /\ UNCHANGED <<lock, req, saw, forgeVars, faults>>

\* _merge_armed_card: the head on the card, for the one who armed it. What the
\* head moved away from is for the next poll.
Armed(c) == [head |-> c.head, by |-> c.armed, armed |-> TRUE]

PollMerges ==
  /\ poll.pc = "merging"
  /\ \E answer \in {"merged", "queued", "stale", "refused"} :
       /\ Answered(Armed(poll.card), answer)
       /\ IF answer = "stale" THEN Released
          ELSE poll' = [poll EXCEPT !.pc = answer] /\ UNCHANGED claim
  /\ UNCHANGED <<card, lock, req, saw, green>>

PollBooks ==
  /\ poll.pc \in {"merged", "queued"} /\ Writes(NoOne)
  /\ LET c == poll.card IN
       card' = Flush(c, IF poll.pc = "queued" THEN InQueue(c) ELSE Finished(c))
  /\ Released
  /\ UNCHANGED <<lock, req, saw, forgeVars, faults>>

\* Refused, or not known: the card says so, and the next poll looks again.
PollNotes ==
  /\ poll.pc = "refused" /\ Writes(NoOne)
  /\ card' \in Noted(card)
  /\ Released
  /\ UNCHANGED <<lock, req, saw, forgeVars, faults>>

PollDies ==
  /\ poll # NoPoll /\ Fault
  /\ poll' = NoPoll
  /\ UNCHANGED <<platformVars, req, saw, forgeVars>>

ClaimLapses ==
  /\ claim /\ poll = NoPoll
  /\ claim' = FALSE
  /\ UNCHANGED <<card, lock, poll, req, saw, forgeVars, faults>>

-------------------------------------------------------------------------------
Forge == Push \/ ChecksPass \/ HandledOutside \/ QueueEnds

Click(p) == Look(p) \/ Arm(p) \/ Disarm(p) \/ Revoke(p)

Asks(p) == AcceptLoads(p) \/ OverrideLoads(p) \/ ReturnLoads(p) \/ PushFixLoads(p)

GoesOn(p) == AcceptReads(p) \/ AcceptJudges(p) \/ ClickMerges(p) \/ ClickBooks(p)
             \/ ReturnWrites(p) \/ PushFixReads(p)

People == \E p \in Person : Click(p) \/ Asks(p) \/ GoesOn(p) \/ RequestDies(p)

PollGoesOn == PollReads \/ PollJudges \/ PollMerges \/ PollBooks \/ PollNotes

Poller == PollLoads \/ PollGoesOn \/ PollDies \/ ClaimLapses

Next == Forge \/ RefreshNeverShown \/ People \/ Poller

Spec == Init /\ [][Next]_vars

\* A request is answered or dies; the timer polls every card, a poll goes on, and
\* the claim of a dead one lapses. A write's wait for a row is in turn.
Fairness ==
  /\ \A p \in Person : WF_vars(GoesOn(p))
  /\ WF_vars(PollLoads) /\ SF_vars(PollGoesOn) /\ WF_vars(ClaimLapses)

FairSpec == Spec /\ Fairness

-------------------------------------------------------------------------------
(* Properties.                                                             *)

\* The card says that its PR is merged.
MergedAt(c) == c.status = "accepted" \/ c.merged

\* Nobody is told that the work is accepted, and nothing records a merge, unless
\* the forge merged the PR: not for an entry into the queue, nor for an answer
\* that did not come (_finish_pr_accept: "The PR is merged, so ...").
BookedIsTrue == MergedAt(card) => pr.state = "merged"

\* What a person's own click merges, in the queue's time or at once, is a head that
\* person was shown, whoever pushed between the look and the merge (_seen_head).
ClickMergesSeen ==
  \A m \in {pr.merge, pr.queue} :
    m.by # NoOne /\ ~m.armed => m.head \in saw[m.by]

\* What an armed card merges was seen by the one who armed it (arm_auto_merge: what
\* the machine merges is always what the armer looked at, or nothing).
ArmedMergesSeen ==
  \A m \in {pr.merge, pr.queue} : m.armed => m.head \in saw[m.by]

\* Whoever may yet write another head on the card, and the card as it loaded it: a
\* poll before its first look, a push_fix before it reads the PR.
Sights == {c \in {poll.card} : poll.pc = "loaded"}
            \cup {req[p].card : p \in {q \in Person : req[q].kind = "push_fix"}}

\* What that needs of an arming: nobody is about to look while a person arms.
ArmsAlone == card'.armed \notin {NoOne, card.armed} => Sights = {}

\* And how it is kept then: a card that waits armed, or a poll's copy of one, shows a
\* head its armer was shown, and whoever is about to look knows of the arming.
SeenByArmer(c) == c.status = "pending" /\ c.armed # NoOne => c.head \in saw[c.armed]
ArmedOnSeen ==
  /\ \A p \in Person : 0 \notin saw[p] /\ req[p].card.status = "pending"
  /\ SeenByArmer(card) /\ SeenByArmer(poll.card)
  /\ poll.pc = "merging" => poll.card.armed # NoOne
  /\ \A c \in Sights : card.armed \in {NoOne, c.armed}
  /\ \A m \in {pr.merge, pr.queue} : m.armed => m.by # NoOne
  /\ ArmedMergesSeen

\* What the requests and the poll hold on to while they wait, besides the two above:
\* a merge once known stays true; a click carries a head its person was shown; a
\* poll goes past its first look only with a card that waits.
MergeIsKnown ==
  /\ MergedAt(poll.card) \/ poll.pc = "merged" => pr.state = "merged"
  /\ \A p \in Person : MergedAt(req[p].card) \/ req[p].pc = "merged" => pr.state = "merged"
ClicksOnSeen ==
  \A p \in Person : req[p].kind \in {"accept", "override"} => req[p].card.head \in saw[p]
PollsUndecided ==
  /\ poll.card.status \in {"pending", "rejected"}
  /\ poll.pc \notin {"idle", "loaded"} => poll.card.status = "pending"

\* The three, with what they keep true: the invariant every step preserves.
Inductive == /\ BookedIsTrue /\ ClickMergesSeen
             /\ MergeIsKnown /\ ClicksOnSeen /\ PollsUndecided

\* Nobody is at work with the card as it was while it waited.
NoneLoadedPending ==
  /\ poll = NoPoll \/ poll.card.status # "pending"
  /\ \A p \in Person : req[p] = Idle

\* A card that was decided is decided: who looks at it afterwards neither merges it
\* nor decides it otherwise, though its PR be merged elsewhere (_poll_pr_card:
\* "must never re-arm, approve, update, or merge a returned delivery").
DecidedStands ==
  [][card.status # "pending" /\ NoneLoadedPending =>
       /\ card'.status # card.status => card.status = "accepted" /\ card'.status = "revoked"
       /\ pr'.merge # pr.merge => pr'.merge = pr.queue]_vars

\* A merge the platform does not know of, its answer lost or made elsewhere, is
\* booked in the end, unless the card was voided.
MergeIsBooked == pr.state = "merged" ~> card.merged \/ card.status = "revoked"

\* A card armed for a green head does not wait for ever: it is merged or queued,
\* or disarmed because what it was armed for is gone.
MayMerge == /\ card.status = "pending" /\ card.armed # NoOne
            /\ pr.state = "open" /\ Clean(pr.head)

ArmedIsAnswered == MayMerge ~> ~MayMerge
================================================================================
