---------------------------- MODULE AcceptCardProofs ----------------------------
(***************************************************************************)
(* What AcceptCard promises for any number of reviewers, heads and faults: *)
(* an accepted card's PR is merged, a click merges only a head its person  *)
(* was shown, and a decided card stands.                                   *)
(*                                                                         *)
(* The argument. A PR that is merged stays so, so a copy of the card that  *)
(* says it is merged, or a request that heard it, is right whenever it     *)
(* writes (MergeIsKnown). What a request loaded carries a head that its    *)
(* person was shown, and nobody is shown less later (ClicksOnSeen). A poll *)
(* that goes past its first look holds a card that waited (PollsUndecided).*)
(* The last section is about an armed card, which merges what its armer    *)
(* saw as long as no arming falls between another's load and its look.     *)
(* The edits of a card and the calls to the forge come first, then what    *)
(* each action keeps.                                                      *)
(***************************************************************************)
EXTENDS AcceptCard, TLAPS

-------------------------------------------------------------------------------
(* Edits of a card.                                                        *)

\* A flush takes each column from what was written or from what stands.
LEMMA FlushIsCard ==
  ASSUME card \in Card, NEW l \in Card, NEW c \in Card
  PROVE  /\ Flush(l, c) \in Card
         /\ Flush(l, c).status = IF c.status = l.status THEN card.status ELSE c.status
         /\ MergedAt(Flush(l, c)) => MergedAt(card) \/ MergedAt(c)
<1>1. Flush(l, c) = [status |-> IF c.status = l.status THEN card.status ELSE c.status,
                     head   |-> IF c.head = l.head THEN card.head ELSE c.head,
                     armed  |-> IF c.armed = l.armed THEN card.armed ELSE c.armed,
                     waits  |-> IF c.waits = l.waits THEN card.waits ELSE c.waits,
                     merged |-> IF c.merged = l.merged THEN card.merged ELSE c.merged]
  BY DEF Flush, Card
<1> QED BY <1>1 DEF Card, MergedAt

\* What the platform makes of a card is a card, and says that the PR is merged only
\* where the forge said so.
LEMMA EditsAreCards ==
  ASSUME NEW c \in Card, pr \in PullRequest
  PROVE  /\ Dismissed(c) \in Card /\ Dismissed(c).status = c.status
         /\ MergedAt(Dismissed(c)) <=> MergedAt(c)
         /\ Finished(c) \in Card /\ Concluded(c) \in Card
         /\ InQueue(c) \in Card /\ InQueue(c).status = c.status
         /\ MergedAt(InQueue(c)) <=> MergedAt(c)
         /\ Mirrored(c) \in Card /\ Mirrored(c).status = c.status
         /\ MergedAt(Mirrored(c)) <=> MergedAt(c)
         /\ MergedElsewhere(c) \in Card
         /\ MergedElsewhere(c).status = IF c.status = "rejected" THEN "rejected" ELSE "accepted"
<1>0. 0 \in 0 .. MergeCommit /\ MergeCommit \in 0 .. MergeCommit /\ pr.head \in 0 .. MergeCommit
  BY BoundAssumption DEF PullRequest, Head, MergeCommit
<1>1. Dismissed(c) \in Card /\ Dismissed(c).status = c.status /\ Dismissed(c).merged = c.merged
  BY DEF Card, Dismissed
<1>2. Finished(c) \in Card /\ Finished(c).status = "accepted"
  BY <1>0 DEF Card, Finished
<1>3. Concluded(c) \in Card
  BY <1>2 DEF Card, Concluded
<1>4. InQueue(c) \in Card /\ InQueue(c).status = c.status /\ InQueue(c).merged = c.merged
  BY DEF Card, InQueue
<1>5. /\ Mirrored(c) \in Card /\ Mirrored(c).status = c.status
      /\ Mirrored(c).merged = c.merged
  <2>1. PICK d \in Card : /\ d = IF c.head \notin {0, pr.head} THEN Dismissed(c) ELSE c
                          /\ d.status = c.status /\ d.merged = c.merged
    BY <1>1
  <2>2. Mirrored(c) = [d EXCEPT !.head = pr.head]
    BY <2>1 DEF Mirrored
  <2> QED BY <2>1, <2>2, <1>0 DEF Card
<1>6. MergedElsewhere(c) \in Card
      /\ MergedElsewhere(c).status = IF c.status = "rejected" THEN "rejected" ELSE "accepted"
  BY <1>2 DEF Card, MergedElsewhere
<1> QED BY <1>1, <1>2, <1>3, <1>4, <1>5, <1>6 DEF MergedAt

\* So does what stopped and is said on the card.
LEMMA NotedAreCards ==
  ASSUME NEW c \in Card, NEW n \in Noted(c)
  PROVE  n \in Card /\ n.status = c.status /\ (MergedAt(n) <=> MergedAt(c))
BY DEF Card, Noted, MergedAt

\* _refresh_stale_card writes over the card as it stands.
LEMMA RefreshedIsCard ==
  ASSUME card \in Card, pr \in PullRequest, NEW p, NEW live \in 0 .. MergeCommit,
         RefreshStale(p, live)
  PROVE  card' \in Card /\ card'.status = card.status /\ (MergedAt(card') <=> MergedAt(card))
<1>1. PICK d \in Card : d = Dismissed(card) /\ d.status = card.status /\ (MergedAt(d) <=> MergedAt(card))
  BY EditsAreCards
<1>2. card' = [d EXCEPT !.head = live]
  BY <1>1 DEF RefreshStale
<1> QED BY <1>1, <1>2 DEF Card, MergedAt

\* What a request commits, of a card it loaded.
LEMMA RequestsWriteCards ==
  ASSUME NEW p \in Person, req[p].card \in Card, pr \in PullRequest
  PROVE  /\ Booked(p) \in Card
         /\ MergedAt(Booked(p)) => MergedAt(req[p].card) \/ req[p].pc # "queued"
         /\ Returned(p) \in Card
         /\ MergedAt(Returned(p)) => MergedAt(req[p].card)
<1>1. /\ Booked(p) \in Card
      /\ MergedAt(Booked(p)) => MergedAt(req[p].card) \/ req[p].pc # "queued"
  BY EditsAreCards DEF Booked, Loaded
<1>2. Returned(p) \in Card /\ (MergedAt(Returned(p)) => MergedAt(req[p].card))
  BY DEF Returned, Loaded, Card, MergedAt
<1> QED BY <1>1, <1>2

-------------------------------------------------------------------------------
(* Calls to the forge.                                                     *)

\* A merge call leaves a PR that is merged as it is, and no answer says merged of
\* another; what it adds to the queue or the history is what was asked for.
LEMMA AnswersAreTrue ==
  ASSUME pr \in PullRequest, faults \in 0 .. MaxFault,
         NEW m, m.head \in 0 .. MergeCommit, m.by \in Person \cup {NoOne}, m.armed \in BOOLEAN,
         m = [head |-> m.head, by |-> m.by, armed |-> m.armed],
         NEW answer, Answered(m, answer)
  PROVE  /\ pr' \in PullRequest /\ faults' \in 0 .. MaxFault
         /\ pr.state = "merged" \/ answer = "merged" => pr'.state = "merged"
         /\ pr'.head = pr.head
         /\ pr'.merge \in {pr.merge, m} /\ pr'.queue \in {pr.queue, m, NoMerge}
<1>0. NoMerge \in Merge
  BY BoundAssumption DEF NoMerge, Merge
<1>1. ASSUME NEW a, Asked(m, a)
      PROVE  /\ pr' \in PullRequest /\ pr'.head = pr.head
             /\ pr.state = "merged" \/ a = "merged" => pr'.state = "merged"
             /\ pr'.merge \in {pr.merge, m} /\ pr'.queue \in {pr.queue, m, NoMerge}
  <2>1. CASE pr.state = "open" /\ pr.head = m.head
    <3>1. m \in Merge
      BY <2>1, BoundAssumption DEF PullRequest, Head, Merge
    <3> QED BY <1>0, <1>1, <2>1, <3>1 DEF Asked, PullRequest
  <2>2. CASE ~(pr.state = "open" /\ pr.head = m.head)
    BY <1>1, <2>2 DEF Asked
  <2> QED BY <2>1, <2>2
<1>2. CASE Asked(m, answer) /\ UNCHANGED faults
  BY <1>1, <1>2
<1>3. CASE AskedBadly(m, answer)
  <2>1. UNCHANGED pr \/ \E a \in {"merged", "queued"} : Asked(m, a)
    BY <1>3 DEF AskedBadly
  <2>2. faults' \in 0 .. MaxFault /\ answer # "merged"
    BY <1>3, BoundAssumption DEF AskedBadly, Fault
  <2> QED BY <2>1, <2>2, <1>1
<1> QED BY <1>2, <1>3 DEF Answered

-------------------------------------------------------------------------------
(* The types.                                                              *)

LEMMA BoundsOfHeads ==
  /\ Head \subseteq 1 .. MergeCommit /\ 0 \in 0 .. MergeCommit
  /\ New \in Card /\ NoMerge \in Merge /\ NoPoll \in Poll /\ Idle \in Request
BY BoundAssumption
   DEF Head, MergeCommit, New, Card, NoMerge, Merge, NoPoll, Poll, Idle, Request

\* What is true of any call is true of a click's and of the poll's.
LEMMA ClickIsAnswered ==
  ASSUME TypeOK, NEW p \in Person, NEW answer, Answered(Clicked(p), answer)
  PROVE  /\ pr' \in PullRequest /\ faults' \in 0 .. MaxFault
         /\ pr.state = "merged" \/ answer = "merged" => pr'.state = "merged"
         /\ pr'.merge \in {pr.merge, Clicked(p)} /\ pr'.queue \in {pr.queue, Clicked(p), NoMerge}
<1>1. PICK m : m = Clicked(p)
  OBVIOUS
<1>2. /\ m.head \in 0 .. MergeCommit /\ m.by \in Person \cup {NoOne} /\ m.armed \in BOOLEAN
      /\ m = [head |-> m.head, by |-> m.by, armed |-> m.armed]
  BY <1>1 DEF Clicked, Loaded, TypeOK, Request, Card
<1> QED BY <1>1, <1>2, AnswersAreTrue DEF TypeOK

LEMMA PollIsAnswered ==
  ASSUME TypeOK, NEW answer, Answered(Armed(poll.card), answer)
  PROVE  /\ pr' \in PullRequest /\ faults' \in 0 .. MaxFault
         /\ pr.state = "merged" \/ answer = "merged" => pr'.state = "merged"
         /\ pr'.merge \in {pr.merge, Armed(poll.card)}
         /\ pr'.queue \in {pr.queue, Armed(poll.card), NoMerge}
<1>1. PICK m : m = Armed(poll.card)
  OBVIOUS
<1>2. /\ m.head \in 0 .. MergeCommit /\ m.by \in Person \cup {NoOne} /\ m.armed \in BOOLEAN
      /\ m = [head |-> m.head, by |-> m.by, armed |-> m.armed]
  BY <1>1 DEF Armed, TypeOK, Poll, Card
<1> QED BY <1>1, <1>2, AnswersAreTrue DEF TypeOK

\* A request that ends, or goes on, is a request.
LEMMA EndsIsTyped ==
  ASSUME TypeOK, NEW p \in Person, Ends(p)
  PROVE  /\ req' \in [Person -> Request] /\ lock' \in Person \cup {NoOne}
BY BoundsOfHeads DEF Ends, TypeOK

LEMMA GoesIsTyped ==
  ASSUME TypeOK, NEW p \in Person,
         NEW pc \in {"idle", "loaded", "judging", "merging", "merged", "queued"}, Goes(p, pc)
  PROVE  req' \in [Person -> Request]
<1>1. PICK r \in Request : r = [req[p] EXCEPT !.pc = pc]
  BY DEF TypeOK, Request
<1>2. req' = [req EXCEPT ![p] = r]
  BY <1>1 DEF Goes, TypeOK
<1> QED BY <1>1, <1>2 DEF TypeOK

LEMMA LoadsIsTyped ==
  ASSUME TypeOK, NEW p \in Person,
         NEW kind \in {"accept", "override", "reject", "void", "push_fix"},
         NEW pc \in {"loaded", "merging"}, Loads(p, kind, pc)
  PROVE  TypeOK'
<1>1. [kind |-> kind, pc |-> pc, card |-> card] \in Request
  BY DEF TypeOK, Request
<1> QED BY <1>1 DEF Loads, platformVars, forgeVars, TypeOK

\* The same step, of the requests: one case for each kind of step.
LEMMA RequestsAreTyped ==
  ASSUME TypeOK, NEW p \in Person, Asks(p) \/ GoesOn(p) \/ RequestDies(p)
  PROVE  TypeOK'
<1>0. /\ card \in Card /\ req[p].card \in Card /\ Loaded(p) \in Card /\ pr \in PullRequest
      /\ Loaded(p) = req[p].card /\ req[p] \in Request /\ pr.head \in 0 .. MergeCommit
      /\ card.head \in 0 .. MergeCommit
  BY BoundsOfHeads DEF TypeOK, Request, Loaded, PullRequest, Head, MergeCommit, Card
<1>1. CASE Asks(p)
  BY <1>1, LoadsIsTyped DEF Asks, AcceptLoads, OverrideLoads, ReturnLoads, PushFixLoads
<1>2. CASE AcceptReads(p)
  <2>1. CASE card' = Flush(Loaded(p), Concluded(Loaded(p))) /\ Ends(p)
    <3>1. card' \in Card
      BY <1>0, <2>1, EditsAreCards, FlushIsCard
    <3> QED BY <1>2, <2>1, <3>1, EndsIsTyped DEF AcceptReads, forgeVars, TypeOK
  <2>2. CASE card' = [card EXCEPT !.waits = FALSE] /\ Ends(p)
    <3>1. card' \in Card
      BY <1>0, <2>2 DEF Card
    <3> QED BY <1>2, <2>2, <3>1, EndsIsTyped DEF AcceptReads, forgeVars, TypeOK
  <2>3. CASE RefreshStale(p, pr.head) /\ Ends(p)
    <3>1. card' \in Card
      BY <1>0, <2>3, RefreshedIsCard
    <3> QED BY <1>2, <2>3, <3>1, EndsIsTyped DEF AcceptReads, forgeVars, TypeOK
  <2>4. CASE Goes(p, "judging") /\ UNCHANGED <<card, lock>>
    BY <1>2, <2>4, GoesIsTyped DEF AcceptReads, forgeVars, TypeOK
  <2> QED BY <1>2, <2>1, <2>2, <2>3, <2>4 DEF AcceptReads
<1>3. CASE AcceptJudges(p)
  <2>1. CASE lock' = p /\ Goes(p, "merging") /\ UNCHANGED card
    BY <1>3, <2>1, GoesIsTyped DEF AcceptJudges, forgeVars, TypeOK
  <2>2. CASE NotMerged(p)
    <3>1. card' \in Card
      BY <1>0, <2>2, NotedAreCards DEF NotMerged
    <3> QED BY <1>3, <2>2, <3>1, EndsIsTyped DEF AcceptJudges, NotMerged, forgeVars, TypeOK
  <2> QED BY <1>3, <2>1, <2>2 DEF AcceptJudges
<1>4. CASE ClickMerges(p)
  <2>1. PICK answer \in {"merged", "queued", "stale", "refused"} :
          /\ Answered(Clicked(p), answer)
          /\ \/ answer \in {"merged", "queued"} /\ Goes(p, answer) /\ UNCHANGED <<card, lock>>
             \/ /\ answer = "stale" /\ Ends(p)
                /\ RefreshStale(p, IF req[p].kind = "accept" THEN pr.head ELSE card.head)
             \/ answer = "refused" /\ NotMerged(p)
    BY <1>4 DEF ClickMerges
  <2>2. pr' \in PullRequest /\ faults' \in 0 .. MaxFault
    BY <2>1, ClickIsAnswered
  <2>3. UNCHANGED <<claim, poll, saw, green>>
    BY <1>4 DEF ClickMerges
  <2>4. CASE answer \in {"merged", "queued"} /\ Goes(p, answer) /\ UNCHANGED <<card, lock>>
    BY <2>2, <2>3, <2>4, GoesIsTyped DEF TypeOK
  <2>5. CASE /\ answer = "stale" /\ Ends(p)
             /\ RefreshStale(p, IF req[p].kind = "accept" THEN pr.head ELSE card.head)
    <3>1. card' \in Card
      BY <1>0, <2>5, RefreshedIsCard
    <3> QED BY <2>2, <2>3, <2>5, <3>1, EndsIsTyped DEF TypeOK
  <2>6. CASE NotMerged(p)
    <3>1. card' \in Card
      BY <1>0, <2>6, NotedAreCards DEF NotMerged
    <3> QED BY <2>2, <2>3, <2>6, <3>1, EndsIsTyped DEF NotMerged, TypeOK
  <2> QED BY <2>1, <2>4, <2>5, <2>6
<1>5. CASE ClickBooks(p)
  <2>1. card' \in Card
    BY <1>0, <1>5, RequestsWriteCards, FlushIsCard DEF ClickBooks
  <2> QED BY <1>5, <2>1, EndsIsTyped DEF ClickBooks, forgeVars, TypeOK
<1>6. CASE ReturnWrites(p)
  <2>1. card' \in Card
    BY <1>0, <1>6, RequestsWriteCards, FlushIsCard DEF ReturnWrites
  <2>2. pr' \in PullRequest
    BY <1>0, <1>6, BoundsOfHeads DEF ReturnWrites, PullRequest
  <2> QED BY <1>6, <2>1, <2>2, EndsIsTyped DEF ReturnWrites, TypeOK
<1>7. CASE PushFixReads(p)
  <2>1. card' \in Card
    <3>1. PICK d \in Card : d = Dismissed(Loaded(p))
      BY <1>0, EditsAreCards
    <3>2. [d EXCEPT !.head = pr.head] \in Card
      BY <1>0, <3>1 DEF Card
    <3> QED BY <1>0, <1>7, <3>1, <3>2, FlushIsCard DEF PushFixReads
  <2> QED BY <1>7, <2>1, EndsIsTyped DEF PushFixReads, forgeVars, TypeOK
<1>8. CASE RequestDies(p)
  BY <1>8, EndsIsTyped, BoundAssumption DEF RequestDies, Fault, forgeVars, TypeOK
<1> QED BY <1>1, <1>2, <1>3, <1>4, <1>5, <1>6, <1>7, <1>8 DEF GoesOn

LEMMA PollIsTyped ==
  ASSUME TypeOK, Poller
  PROVE  TypeOK'
<1>0. /\ card \in Card /\ poll.card \in Card /\ pr \in PullRequest /\ poll \in Poll
      /\ NoPoll \in Poll
  BY BoundsOfHeads DEF TypeOK, Poll
<1>1. CASE PollLoads
  <2>1. [pc |-> "loaded", card |-> card] \in Poll
    BY <1>0 DEF Poll
  <2> QED BY <1>1, <2>1 DEF PollLoads, forgeVars, TypeOK
<1>2. CASE PollReads
  <2>1. ASSUME NEW c \in Card, card' = Flush(poll.card, c), Released PROVE TypeOK'
    <3>1. card' \in Card
      BY <1>0, <2>1, FlushIsCard
    <3> QED BY <1>0, <1>2, <2>1, <3>1 DEF PollReads, Released, forgeVars, TypeOK
  <2>2. [poll.card EXCEPT !.status = "revoked", !.waits = FALSE] \in Card
    BY <1>0 DEF Card
  <2>3. [poll.card EXCEPT !.armed = NoOne, !.waits = FALSE] \in Card
    BY <1>0 DEF Card
  <2>4. CASE /\ card' = Flush(poll.card, Mirrored(poll.card))
             /\ poll' = [pc |-> "judging", card |-> Mirrored(poll.card)]
             /\ UNCHANGED claim
    <3>1. Mirrored(poll.card) \in Card
      BY <1>0, EditsAreCards
    <3>2. card' \in Card /\ poll' \in Poll
      BY <1>0, <2>4, <3>1, FlushIsCard DEF Poll
    <3> QED BY <1>2, <2>4, <3>2 DEF PollReads, forgeVars, TypeOK
  <2> QED BY <1>0, <1>2, <2>1, <2>2, <2>3, <2>4, EditsAreCards DEF PollReads
<1>3. CASE PollJudges
  <2>1. CASE poll' = [poll EXCEPT !.pc = "merging"] /\ UNCHANGED <<card, claim>>
    <3>1. poll' \in Poll
      BY <1>0, <2>1 DEF Poll
    <3> QED BY <1>3, <2>1, <3>1 DEF PollJudges, forgeVars, TypeOK
  <2>2. CASE card' \in Noted(card) /\ Released
    <3>1. card' \in Card
      BY <1>0, <2>2, NotedAreCards
    <3> QED BY <1>0, <1>3, <2>2, <3>1 DEF PollJudges, Released, forgeVars, TypeOK
  <2> QED BY <1>3, <2>1, <2>2 DEF PollJudges
<1>4. CASE PollMerges
  <2>1. PICK answer \in {"merged", "queued", "stale", "refused"} :
          /\ Answered(Armed(poll.card), answer)
          /\ IF answer = "stale" THEN Released
             ELSE poll' = [poll EXCEPT !.pc = answer] /\ UNCHANGED claim
    BY <1>4 DEF PollMerges
  <2>2. pr' \in PullRequest /\ faults' \in 0 .. MaxFault
    BY <2>1, PollIsAnswered
  <2>3. poll' \in Poll /\ claim' \in BOOLEAN
    BY <1>0, <2>1 DEF Released, Poll, TypeOK
  <2> QED BY <1>4, <2>2, <2>3 DEF PollMerges, TypeOK
<1>5. CASE PollBooks
  <2>1. card' \in Card
    BY <1>0, <1>5, EditsAreCards, FlushIsCard DEF PollBooks
  <2> QED BY <1>0, <1>5, <2>1 DEF PollBooks, Released, forgeVars, TypeOK
<1>6. CASE PollNotes
  <2>1. card' \in Card
    BY <1>0, <1>6, NotedAreCards DEF PollNotes
  <2> QED BY <1>0, <1>6, <2>1 DEF PollNotes, Released, forgeVars, TypeOK
<1>7. CASE PollDies
  <2>1. faults' \in 0 .. MaxFault
    BY <1>7, BoundAssumption DEF PollDies, Fault, TypeOK
  <2> QED BY <1>0, <1>7, <2>1 DEF PollDies, platformVars, forgeVars, TypeOK
<1>8. CASE ClaimLapses
  BY <1>8 DEF ClaimLapses, forgeVars, TypeOK
<1> QED BY <1>1, <1>2, <1>3, <1>4, <1>5, <1>6, <1>7, <1>8 DEF Poller, PollGoesOn

LEMMA ClicksAreTyped ==
  ASSUME TypeOK, NEW p \in Person, Click(p)
  PROVE  TypeOK'
<1>1. CASE Look(p)
  <2>1. saw[p] \cup {card.head} \in SUBSET (0 .. MergeCommit)
    BY DEF TypeOK, Card
  <2> QED BY <1>1, <2>1 DEF Look, platformVars, forgeVars, TypeOK
<1>2. CASE Arm(p) \/ Disarm(p) \/ Revoke(p)
  <2>1. card' \in Card
    BY <1>2 DEF Arm, Disarm, Revoke, TypeOK, Card
  <2> QED BY <1>2, <2>1 DEF Arm, Disarm, Revoke, forgeVars, TypeOK
<1> QED BY <1>1, <1>2 DEF Click

LEMMA ForgeIsTyped ==
  ASSUME TypeOK, Forge \/ RefreshNeverShown
  PROVE  TypeOK'
<1>1. CASE RefreshNeverShown
  <2>1. pr.head \in 0 .. MergeCommit
    BY BoundAssumption DEF TypeOK, PullRequest, Head, MergeCommit
  <2>2. card' \in Card
    BY <1>1, <2>1, RefreshedIsCard DEF RefreshNeverShown, TypeOK
  <2> QED BY <1>1, <2>2 DEF RefreshNeverShown, forgeVars, TypeOK
<1>2. CASE ChecksPass
  BY <1>2 DEF ChecksPass, platformVars, TypeOK, PullRequest
<1>3. CASE Push \/ HandledOutside \/ QueueEnds
  <2>0. pr \in PullRequest /\ NoMerge \in Merge /\ pr.queue \in Merge
    BY BoundsOfHeads DEF TypeOK, PullRequest
  <2>1. pr' \in PullRequest
    <3>1. CASE Push
      <4>1. pr.head + 1 \in Head
        BY <2>0, <3>1, BoundAssumption DEF Push, PullRequest, Head
      <4>2. pr' = [pr EXCEPT !.head = pr.head + 1, !.queue = NoMerge]
        BY <3>1 DEF Push
      <4> QED BY <2>0, <4>1, <4>2 DEF PullRequest
    <3>2. CASE HandledOutside
      BY <2>0, <3>2 DEF HandledOutside, PullRequest
    <3>3. CASE QueueEnds
      BY <2>0, <3>3 DEF QueueEnds, PullRequest
    <3> QED BY <1>3, <3>1, <3>2, <3>3
  <2> QED BY <1>3, <2>1 DEF Push, HandledOutside, QueueEnds, platformVars, TypeOK
<1> QED BY <1>1, <1>2, <1>3 DEF Forge

LEMMA TypeStep == TypeOK /\ [Next]_vars => TypeOK'
<1> SUFFICES ASSUME TypeOK, [Next]_vars PROVE TypeOK'
  OBVIOUS
<1>1. CASE UNCHANGED vars
  BY <1>1 DEF vars, platformVars, forgeVars, TypeOK
<1>2. CASE Next
  BY <1>2, ForgeIsTyped, ClicksAreTyped, RequestsAreTyped, PollIsTyped DEF Next, People
<1> QED BY <1>1, <1>2

\* Every state has its type: in particular no request or poll holds anything but a
\* card as it once was, and nothing is merged but a head the branch has had.
THEOREM TypeCorrect == Spec => []TypeOK
<1>1. Init => TypeOK
  <2> SUFFICES ASSUME Init PROVE TypeOK
    OBVIOUS
  <2>1. pr \in PullRequest
    BY BoundsOfHeads, BoundAssumption DEF Init, PullRequest, Head
  <2>2. faults \in 0 .. MaxFault /\ green \in SUBSET Head
    BY BoundAssumption DEF Init
  <2> QED BY <2>1, <2>2, BoundsOfHeads DEF Init, TypeOK
<1> QED BY <1>1, TypeStep, PTL DEF Spec

-------------------------------------------------------------------------------
(* What a step does to requests, to the poll and to the pull request.      *)

\* A step of one person's request moves no other: it ends, goes on with the card it
\* loaded, or begins with the card as it stands, on a head the person was shown.
LEMMA RequestMoves ==
  ASSUME TypeOK, NEW p \in Person, Asks(p) \/ GoesOn(p) \/ RequestDies(p)
  PROVE  /\ UNCHANGED <<poll, saw>>
         /\ \E r \in Request :
              /\ req' = [req EXCEPT ![p] = r]
              /\ \/ r = Idle
                 \/ /\ r.card = req[p].card /\ r.kind = req[p].kind
                    /\ r.pc = "merged" => pr'.state = "merged"
                 \/ /\ r.card = card /\ card.status = "pending" /\ UNCHANGED card
                    /\ r.pc # "merged"
                    /\ r.kind \in {"accept", "override"} => card.head \in saw[p]
<1> DEFINE Moves == \E r \in Request :
              /\ req' = [req EXCEPT ![p] = r]
              /\ \/ r = Idle
                 \/ /\ r.card = req[p].card /\ r.kind = req[p].kind
                    /\ r.pc = "merged" => pr'.state = "merged"
                 \/ /\ r.card = card /\ card.status = "pending" /\ UNCHANGED card
                    /\ r.pc # "merged"
                    /\ r.kind \in {"accept", "override"} => card.head \in saw[p]
<1>1. Ends(p) => Moves
  BY BoundsOfHeads DEF Ends
<1>2. ASSUME NEW pc \in {"judging", "merging", "merged", "queued"}, Goes(p, pc),
             pc = "merged" => pr'.state = "merged"
      PROVE  Moves
  <2>0. req[p] \in Request
    BY DEF TypeOK
  <2>1. PICK r \in Request : r = [req[p] EXCEPT !.pc = pc]
    BY <2>0 DEF Request
  <2>2. req' = [req EXCEPT ![p] = r]
    BY <1>2, <2>1 DEF Goes, TypeOK
  <2>3. r.card = req[p].card /\ r.kind = req[p].kind /\ r.pc = pc
    BY <2>0, <2>1 DEF Request
  <2> QED BY <1>2, <2>2, <2>3
<1>3. ASSUME NEW kind \in {"accept", "override", "reject", "void", "push_fix"},
             NEW pc \in {"loaded", "merging"}, Loads(p, kind, pc),
             kind \in {"accept", "override"} => SeenHead(p)
      PROVE  Moves
  <2>1. PICK r \in Request : r = [kind |-> kind, pc |-> pc, card |-> card]
    BY DEF TypeOK, Request
  <2> QED BY <1>3, <2>1 DEF Loads, SeenHead, platformVars
<1>4. CASE Asks(p)
  BY <1>3, <1>4 DEF Asks, AcceptLoads, OverrideLoads, ReturnLoads, PushFixLoads, Loads
<1>5. CASE ClickMerges(p)
  <2>1. PICK answer \in {"merged", "queued", "stale", "refused"} :
          /\ Answered(Clicked(p), answer)
          /\ \/ answer \in {"merged", "queued"} /\ Goes(p, answer)
             \/ Ends(p)
    BY <1>5 DEF ClickMerges, NotMerged
  <2>2. answer = "merged" => pr'.state = "merged"
    BY <2>1, ClickIsAnswered
  <2>3. Moves
    BY <1>1, <1>2, <2>1, <2>2
  <2> QED BY <1>5, <2>3 DEF ClickMerges
<1>6. CASE AcceptReads(p) \/ AcceptJudges(p)
  <2>1. Ends(p) \/ Goes(p, "judging") \/ Goes(p, "merging")
    BY <1>6, Zenon DEF AcceptReads, AcceptJudges, NotMerged
  <2> QED BY <1>1, <1>2, <1>6, <2>1 DEF AcceptReads, AcceptJudges
<1>7. CASE ClickBooks(p) \/ ReturnWrites(p) \/ PushFixReads(p) \/ RequestDies(p)
  BY <1>1, <1>7 DEF ClickBooks, ReturnWrites, PushFixReads, RequestDies
<1> QED BY <1>4, <1>5, <1>6, <1>7 DEF GoesOn

\* The poll ends, begins with the card as it stands, goes past its first look with a
\* card that waits, or goes on.
LEMMA PollMoves ==
  ASSUME TypeOK, PollsUndecided, Poller
  PROVE  /\ UNCHANGED <<req, saw>>
         /\ \/ poll' = NoPoll
            \/ poll' = poll
            \/ /\ poll' = [pc |-> "loaded", card |-> card] /\ UNCHANGED card
               /\ card.status \in {"pending", "rejected"}
            \/ /\ poll' = [pc |-> "judging", card |-> Mirrored(poll.card)]
               /\ poll.pc = "loaded" /\ poll.card.status = "pending"
            \/ /\ poll'.card = poll.card /\ poll.card.status = "pending"
               /\ poll'.pc # "loaded"
               /\ poll'.pc = "merging" => poll.card.armed # NoOne
               /\ poll'.pc = "merged" => pr'.state = "merged"
<1>0. poll \in Poll
  BY DEF TypeOK
<1>1. CASE PollLoads
  BY <1>1 DEF PollLoads, Polled
<1>2. CASE PollReads
  BY <1>2, Zenon DEF PollReads, Released
<1>3. CASE PollJudges
  BY <1>0, <1>3 DEF PollJudges, Released, Poll, PollsUndecided
<1>4. CASE PollMerges
  <2>1. PICK answer \in {"merged", "queued", "stale", "refused"} :
          /\ Answered(Armed(poll.card), answer)
          /\ IF answer = "stale" THEN Released
             ELSE poll' = [poll EXCEPT !.pc = answer] /\ UNCHANGED claim
    BY <1>4 DEF PollMerges
  <2>2. answer = "merged" => pr'.state = "merged"
    BY <2>1, PollIsAnswered
  <2> QED BY <1>0, <1>4, <2>1, <2>2 DEF PollMerges, Released, Poll, PollsUndecided
<1>5. CASE PollBooks \/ PollNotes \/ PollDies \/ ClaimLapses
  BY <1>5 DEF PollBooks, PollNotes, PollDies, ClaimLapses, Released
<1> QED BY <1>1, <1>2, <1>3, <1>4, <1>5 DEF Poller, PollGoesOn

\* A PR that is merged stays so, and what is queued or merged is what was queued, or
\* what a click asked for, or the poll once it went on to merge.
LEMMA MergesMove ==
  ASSUME TypeOK, Next
  PROVE  /\ pr.state = "merged" => pr'.state = "merged"
         /\ {pr'.merge, pr'.queue} \subseteq
              {pr.merge, pr.queue, NoMerge, Armed(poll.card)}
                \cup {Clicked(p) : p \in {q \in Person : req[q].kind \in {"accept", "override"}}}
         /\ Armed(poll.card) \in {pr'.merge, pr'.queue} \ {pr.merge, pr.queue, NoMerge}
              => poll.pc = "merging"
<1>1. CASE UNCHANGED pr
  BY <1>1
<1>2. CASE Push \/ HandledOutside \/ QueueEnds
  BY <1>2 DEF Push, HandledOutside, QueueEnds, TypeOK, PullRequest
<1>3. ASSUME NEW p \in Person, ClickMerges(p)
      PROVE  /\ pr.state = "merged" => pr'.state = "merged"
             /\ req[p].kind \in {"accept", "override"}
             /\ {pr'.merge, pr'.queue} \subseteq {pr.merge, pr.queue, NoMerge, Clicked(p)}
             /\ Clicked(p) # Armed(poll.card)
  <2>1. Clicked(p) # Armed(poll.card)
    BY DEF Clicked, Armed
  <2> QED BY <1>3, <2>1, ClickIsAnswered DEF ClickMerges
<1>4. ASSUME NEW p \in Person, ReturnWrites(p)
      PROVE  /\ pr.state = "merged" => pr'.state = "merged"
             /\ {pr'.merge, pr'.queue} \subseteq {pr.merge, pr.queue, NoMerge}
  BY <1>4 DEF ReturnWrites, TypeOK, PullRequest
<1>5. CASE PollMerges
  BY <1>5, PollIsAnswered DEF PollMerges
<1>6. CASE People
  <2>1. PICK p \in Person : Click(p) \/ Asks(p) \/ GoesOn(p) \/ RequestDies(p)
    BY <1>6 DEF People
  <2>2. CASE ClickMerges(p)
    BY <1>3, <2>2
  <2>3. CASE ReturnWrites(p)
    BY <1>4, <2>3
  <2>4. ASSUME ~ClickMerges(p), ~ReturnWrites(p) PROVE UNCHANGED pr
    BY <2>1, <2>4 DEF Click, Look, Arm, Disarm, Revoke, Asks, AcceptLoads, OverrideLoads,
       ReturnLoads, PushFixLoads, Loads, GoesOn, AcceptReads, AcceptJudges, ClickBooks,
       PushFixReads, RequestDies, forgeVars
  <2> QED BY <1>1, <2>2, <2>3, <2>4
<1>7. CASE ChecksPass \/ RefreshNeverShown
  BY <1>1, <1>7 DEF ChecksPass, RefreshNeverShown, forgeVars
<1>8. ASSUME Poller, ~PollMerges PROVE UNCHANGED pr
  BY <1>8 DEF Poller, PollLoads, PollGoesOn, PollReads, PollJudges, PollBooks, PollNotes,
     PollDies, ClaimLapses, forgeVars
<1> QED BY <1>1, <1>2, <1>5, <1>6, <1>7, <1>8 DEF Next, Forge

-------------------------------------------------------------------------------
(* The invariant.                                                          *)

\* The card says that the PR is merged only where it did, or where the forge said so.
LEMMA RequestsBook ==
  ASSUME TypeOK, Inductive, NEW p \in Person, GoesOn(p)
  PROVE  MergedAt(card') => MergedAt(card) \/ pr.state = "merged"
<1>0. /\ card \in Card /\ req[p].card \in Card /\ Loaded(p) = req[p].card /\ pr \in PullRequest
      /\ pr.head \in 0 .. MergeCommit /\ card.head \in 0 .. MergeCommit
      /\ MergedAt(req[p].card) \/ req[p].pc = "merged" => pr.state = "merged"
  BY BoundsOfHeads DEF TypeOK, Request, Loaded, PullRequest, Card, Head, MergeCommit,
     Inductive, MergeIsKnown
<1>1. CASE AcceptReads(p)
  <2>1. CASE card' = [card EXCEPT !.waits = FALSE]
    BY <1>0, <2>1 DEF Card, MergedAt
  <2>2. CASE RefreshStale(p, pr.head)
    BY <1>0, <2>2, RefreshedIsCard
  <2> QED BY <1>1, <2>1, <2>2, Zenon DEF AcceptReads
<1>2. CASE ClickMerges(p)
  <2>1. CASE \E live \in 0 .. MergeCommit : RefreshStale(p, live)
    BY <1>0, <2>1, RefreshedIsCard
  <2>2. CASE NotMerged(p)
    BY <1>0, <2>2, NotedAreCards DEF NotMerged
  <2>3. card' = card \/ NotMerged(p)
        \/ RefreshStale(p, IF req[p].kind = "accept" THEN pr.head ELSE card.head)
    BY <1>2 DEF ClickMerges
  <2> QED BY <1>0, <2>1, <2>2, <2>3
<1>3. CASE ClickBooks(p)
  BY <1>0, <1>3, RequestsWriteCards, FlushIsCard DEF ClickBooks
<1>4. CASE ReturnWrites(p)
  BY <1>0, <1>4, RequestsWriteCards, FlushIsCard DEF ReturnWrites
<1>5. CASE PushFixReads(p)
  <2>1. PICK d \in Card : d = Dismissed(Loaded(p)) /\ (MergedAt(d) <=> MergedAt(req[p].card))
    BY <1>0, EditsAreCards
  <2>2. PICK e \in Card : e = [d EXCEPT !.head = pr.head]
    BY <1>0 DEF Card
  <2>3. MergedAt(e) <=> MergedAt(d)
    BY <2>2 DEF Card, MergedAt
  <2>4. card' = card \/ card' = Flush(req[p].card, e)
    BY <1>0, <1>5, <2>1, <2>2 DEF PushFixReads
  <2> QED BY <1>0, <2>1, <2>3, <2>4, FlushIsCard
<1>6. CASE AcceptJudges(p)
  <2>1. card' = card \/ NotMerged(p)
    BY <1>6 DEF AcceptJudges
  <2> QED BY <1>0, <2>1, NotedAreCards DEF NotMerged
<1> QED BY <1>1, <1>2, <1>3, <1>4, <1>5, <1>6 DEF GoesOn

LEMMA PollBooksMerged ==
  ASSUME TypeOK, Inductive, Poller
  PROVE  MergedAt(card') => MergedAt(card) \/ pr.state = "merged"
<1>0. /\ card \in Card /\ poll.card \in Card /\ pr \in PullRequest
      /\ MergedAt(poll.card) \/ poll.pc = "merged" => pr.state = "merged"
  BY DEF TypeOK, Poll, Inductive, MergeIsKnown
<1>1. CASE PollReads
  <2>1. ASSUME NEW c \in Card, card' = Flush(poll.card, c), MergedAt(c) => MergedAt(poll.card)
        PROVE  MergedAt(card') => MergedAt(card) \/ pr.state = "merged"
    BY <1>0, <2>1, FlushIsCard
  <2>2. PICK c \in Card : c = [poll.card EXCEPT !.status = "revoked", !.waits = FALSE]
    BY <1>0 DEF Card
  <2>3. PICK d \in Card : d = [poll.card EXCEPT !.armed = NoOne, !.waits = FALSE]
    BY <1>0 DEF Card
  <2>4. (MergedAt(c) => MergedAt(poll.card)) /\ (MergedAt(d) => MergedAt(poll.card))
    BY <1>0, <2>2, <2>3 DEF Card, MergedAt
  <2>5. \/ pr.state = "merged"
        \/ card' = Flush(poll.card, poll.card) \/ card' = Flush(poll.card, c)
        \/ card' = Flush(poll.card, d) \/ card' = Flush(poll.card, Mirrored(poll.card))
    BY <1>1, <2>2, <2>3 DEF PollReads
  <2> QED BY <1>0, <2>1, <2>4, <2>5, EditsAreCards
<1>2. CASE PollJudges \/ PollNotes
  BY <1>0, <1>2, NotedAreCards DEF PollJudges, PollNotes
<1>3. CASE PollBooks
  <2>1. CASE poll.pc = "queued"
    BY <1>0, <1>3, <2>1, EditsAreCards, FlushIsCard DEF PollBooks
  <2>2. CASE poll.pc = "merged"
    BY <1>0, <2>2
  <2> QED BY <1>3, <2>1, <2>2 DEF PollBooks
<1>4. CASE PollLoads \/ PollMerges \/ PollDies \/ ClaimLapses
  BY <1>4 DEF PollLoads, PollMerges, PollDies, ClaimLapses, platformVars
<1> QED BY <1>1, <1>2, <1>3, <1>4 DEF Poller, PollGoesOn

LEMMA BookedStep ==
  ASSUME TypeOK, Inductive, Next
  PROVE  BookedIsTrue'
<1>1. MergedAt(card') => MergedAt(card) \/ pr.state = "merged"
  <2>1. CASE RefreshNeverShown
    <3>1. pr.head \in 0 .. MergeCommit
      BY BoundAssumption DEF TypeOK, PullRequest, Head, MergeCommit
    <3> QED BY <2>1, <3>1, RefreshedIsCard DEF RefreshNeverShown, TypeOK
  <2>2. ASSUME NEW p \in Person, Click(p)
        PROVE  MergedAt(card') => MergedAt(card)
    BY <2>2 DEF Click, Look, Arm, Disarm, Revoke, platformVars, TypeOK, Card, MergedAt
  <2>3. ASSUME NEW p \in Person, Asks(p) \/ RequestDies(p)
        PROVE  card' = card
    BY <2>3 DEF Asks, AcceptLoads, OverrideLoads, ReturnLoads, PushFixLoads, Loads,
       RequestDies, platformVars
  <2>4. CASE Forge
    BY <2>4 DEF Forge, Push, ChecksPass, HandledOutside, QueueEnds, platformVars
  <2> QED BY <2>1, <2>2, <2>3, <2>4, RequestsBook, PollBooksMerged DEF Next, People
<1>2. MergedAt(card) => pr.state = "merged"
  BY DEF Inductive, BookedIsTrue
<1>3. pr.state = "merged" => pr'.state = "merged"
  BY MergesMove
<1> QED BY <1>1, <1>2, <1>3 DEF BookedIsTrue, MergedAt

\* Copies are of the card, and the head a click carries is one its person was shown.
LEMMA CopiesStep ==
  ASSUME TypeOK, Inductive, Next
  PROVE  MergeIsKnown' /\ ClicksOnSeen' /\ PollsUndecided'
<1>0. /\ pr.state = "merged" => pr'.state = "merged"
      /\ MergedAt(card) => pr.state = "merged"
      /\ ~MergedAt(New)
  BY MergesMove DEF MergedAt, New, Inductive, BookedIsTrue
<1>1. ASSUME NEW p \in Person, Asks(p) \/ GoesOn(p) \/ RequestDies(p)
      PROVE  MergeIsKnown' /\ ClicksOnSeen' /\ PollsUndecided'
  <2>1. PICK r \in Request :
          /\ req' = [req EXCEPT ![p] = r]
          /\ \/ r = Idle
             \/ /\ r.card = req[p].card /\ r.kind = req[p].kind
                /\ r.pc = "merged" => pr'.state = "merged"
             \/ /\ r.card = card /\ r.pc # "merged"
                /\ r.kind \in {"accept", "override"} => card.head \in saw[p]
    BY <1>1, RequestMoves
  <2>2. UNCHANGED <<poll, saw>>
    BY <1>1, RequestMoves
  <2>3. \A q \in Person : req'[q] = IF q = p THEN r ELSE req[q]
    BY <2>1 DEF TypeOK
  <2>4. /\ MergedAt(r.card) \/ r.pc = "merged" => pr'.state = "merged"
        /\ r.kind \in {"accept", "override"} => r.card.head \in saw[p]
    BY <1>0, <2>1 DEF Idle, New, Inductive, MergeIsKnown, ClicksOnSeen, MergedAt
  <2> QED BY <1>0, <2>2, <2>3, <2>4
          DEF Inductive, MergeIsKnown, ClicksOnSeen, PollsUndecided, MergedAt
<1>2. CASE Poller
  <2>0. poll \in Poll /\ poll.card \in Card /\ pr \in PullRequest
    BY DEF TypeOK, Poll
  <2>1. UNCHANGED <<req, saw>>
    BY <1>2, PollMoves DEF Inductive
  <2>2. /\ MergedAt(poll'.card) \/ poll'.pc = "merged" => pr'.state = "merged"
        /\ poll'.card.status \in {"pending", "rejected"}
        /\ poll'.pc \notin {"idle", "loaded"} => poll'.card.status = "pending"
    <3>1. CASE poll' = NoPoll
      <4>1. poll'.card = New /\ poll'.pc = "idle" /\ New.status = "pending"
        BY <3>1 DEF NoPoll, New
      <4> QED BY <1>0, <4>1
    <3>2. CASE poll' = poll
      BY <1>0, <3>2 DEF Inductive, MergeIsKnown, PollsUndecided
    <3>3. CASE poll' = [pc |-> "loaded", card |-> card] /\ card.status \in {"pending", "rejected"}
      BY <1>0, <3>3
    <3>4. CASE /\ poll' = [pc |-> "judging", card |-> Mirrored(poll.card)]
               /\ poll.card.status = "pending"
      BY <1>0, <2>0, <3>4, EditsAreCards DEF Inductive, MergeIsKnown
    <3>5. CASE /\ poll'.card = poll.card /\ poll.card.status = "pending"
               /\ poll'.pc = "merged" => pr'.state = "merged"
      BY <1>0, <3>5 DEF Inductive, MergeIsKnown
    <3> QED BY <1>2, <3>1, <3>2, <3>3, <3>4, <3>5, PollMoves DEF Inductive
  <2> QED BY <1>0, <2>1, <2>2 DEF Inductive, MergeIsKnown, ClicksOnSeen, PollsUndecided, MergedAt
<1>3. ASSUME UNCHANGED <<poll, req>>, \A p \in Person : saw[p] \subseteq saw'[p]
      PROVE  MergeIsKnown' /\ ClicksOnSeen' /\ PollsUndecided'
  BY <1>0, <1>3 DEF Inductive, MergeIsKnown, ClicksOnSeen, PollsUndecided, MergedAt
<1>4. CASE Forge \/ RefreshNeverShown
  BY <1>3, <1>4 DEF Forge, Push, ChecksPass, HandledOutside, QueueEnds, RefreshNeverShown
<1>5. ASSUME NEW p \in Person, Click(p)
      PROVE  MergeIsKnown' /\ ClicksOnSeen' /\ PollsUndecided'
  BY <1>3, <1>5 DEF Click, Look, Arm, Disarm, Revoke, TypeOK
<1> QED BY <1>1, <1>2, <1>4, <1>5 DEF Next, People

\* Nobody is shown less later.
LEMMA SawGrows ==
  ASSUME TypeOK, Inductive, Next
  PROVE  \A p \in Person : saw[p] \subseteq saw'[p]
<1>1. ASSUME NEW q \in Person, Look(q) PROVE \A p \in Person : saw[p] \subseteq saw'[p]
  BY <1>1 DEF Look, TypeOK
<1>2. ASSUME NEW q \in Person, Asks(q) \/ GoesOn(q) \/ RequestDies(q) PROVE saw' = saw
  BY <1>2, RequestMoves
<1>3. Poller => saw' = saw
  BY PollMoves DEF Inductive
<1>4. ASSUME NEW q \in Person, Arm(q) \/ Disarm(q) \/ Revoke(q) PROVE saw' = saw
  BY <1>4 DEF Arm, Disarm, Revoke
<1>5. Forge \/ RefreshNeverShown => saw' = saw
  BY DEF Forge, Push, ChecksPass, HandledOutside, QueueEnds, RefreshNeverShown
<1> QED BY <1>1, <1>2, <1>3, <1>4, <1>5 DEF Next, People, Click

LEMMA SeenStep ==
  ASSUME TypeOK, Inductive, Next
  PROVE  ClickMergesSeen'
<1>1. \A p \in Person : saw[p] \subseteq saw'[p]
  BY SawGrows
<1>2. SUFFICES ASSUME NEW m \in {pr'.merge, pr'.queue}, m.by # NoOne, ~m.armed
               PROVE  m.head \in saw'[m.by]
  BY DEF ClickMergesSeen
<1>3. m \in {pr.merge, pr.queue} \cup {Clicked(p) : p \in
              {q \in Person : req[q].kind \in {"accept", "override"}}}
  <2>1. m # NoMerge /\ m # Armed(poll.card)
    BY <1>2 DEF NoMerge, Armed
  <2> QED BY <1>2, <2>1, MergesMove
<1>4. CASE m \in {pr.merge, pr.queue}
  <2>1. m.by \in Person
    BY <1>2, <1>4 DEF TypeOK, PullRequest, Merge
  <2> QED BY <1>1, <1>2, <1>4, <2>1 DEF Inductive, ClickMergesSeen
<1>5. ASSUME NEW p \in Person, req[p].kind \in {"accept", "override"}, m = Clicked(p)
      PROVE  m.head \in saw'[m.by]
  BY <1>1, <1>5 DEF Clicked, Loaded, Inductive, ClicksOnSeen
<1> QED BY <1>3, <1>4, <1>5

LEMMA InductiveStep == TypeOK /\ Inductive /\ [Next]_vars => Inductive'
<1>1. CASE UNCHANGED vars
  BY <1>1 DEF vars, platformVars, forgeVars, Inductive, BookedIsTrue, ClickMergesSeen,
     MergeIsKnown, ClicksOnSeen, PollsUndecided, MergedAt
<1>2. ASSUME TypeOK, Inductive, Next PROVE Inductive'
  BY <1>2, BookedStep, CopiesStep, SeenStep DEF Inductive
<1> QED BY <1>1, <1>2

\* What the card says of the merge, and what every request and the poll hold on to
\* while they wait for the forge, agree with the pull request at every moment.
THEOREM InductiveHolds == Spec => []Inductive
<1>1. Init => Inductive
  BY DEF Init, Inductive, BookedIsTrue, ClickMergesSeen, MergeIsKnown, ClicksOnSeen,
     PollsUndecided, MergedAt, New, NoMerge, NoPoll, Idle
<1> QED BY <1>1, InductiveStep, TypeCorrect, PTL DEF Spec

-------------------------------------------------------------------------------
(* What follows.                                                           *)

\* An accepted card's PR is merged, at every moment and whatever the forge answered
\* or failed to (_finish_pr_accept, _record_queue_entry, _settle_external_merge).
THEOREM AcceptedIsMerged == Spec => []BookedIsTrue
<1>1. Inductive => BookedIsTrue
  BY DEF Inductive
<1> QED BY <1>1, InductiveHolds, PTL

\* What a click merges was shown to the person who clicked (_seen_head, and the sha
\* that merge_pull_request carries).
THEOREM ClickedWasSeen == Spec => []ClickMergesSeen
<1>1. Inductive => ClickMergesSeen
  BY DEF Inductive
<1> QED BY <1>1, InductiveHolds, PTL

\* Nobody who reads the card after it was decided decides it again, or has it merged
\* (the guards of every operation, and what a poll does with a returned card).
THEOREM DecidedStays == Spec => DecidedStands
<1> DEFINE Stands == /\ card'.status # card.status =>
                          card.status = "accepted" /\ card'.status = "revoked"
                     /\ pr'.merge # pr.merge => pr'.merge = pr.queue
<1>1. ASSUME TypeOK, Inductive, Next, card.status # "pending", NoneLoadedPending
      PROVE  Stands
  <2>1. CASE Forge
    BY <1>1, <2>1 DEF Forge, Push, ChecksPass, HandledOutside, QueueEnds, platformVars,
       TypeOK, PullRequest
  <2>2. CASE RefreshNeverShown
    BY <1>1, <2>2 DEF RefreshNeverShown
  <2>3. ASSUME NEW p \in Person, Click(p) PROVE Stands
    BY <1>1, <2>3 DEF Click, Look, Arm, Disarm, Revoke, platformVars, forgeVars, TypeOK, Card
  <2>4. ASSUME NEW p \in Person, Asks(p) \/ GoesOn(p) \/ RequestDies(p) PROVE FALSE
    <3>1. req[p] = Idle /\ req[p].kind = "none" /\ req[p].pc = "idle"
      BY <1>1 DEF NoneLoadedPending, Idle
    <3>2. ~Asks(p)
      BY <1>1 DEF Asks, AcceptLoads, OverrideLoads, ReturnLoads, PushFixLoads, Loads
    <3>3. ~RequestDies(p)
      BY <3>1 DEF RequestDies
    <3>4. ~GoesOn(p)
      BY <3>1 DEF GoesOn, AcceptReads, AcceptJudges, ClickMerges, ClickBooks, ReturnWrites,
         PushFixReads
    <3> QED BY <2>4, <3>2, <3>3, <3>4
  <2>5. CASE PollReads
    <3>1. /\ poll.card.status = "rejected" /\ card \in Card /\ poll.card \in Card
          /\ pr \in PullRequest
      BY <1>1, <2>5 DEF NoneLoadedPending, NoPoll, PollReads, Inductive, PollsUndecided, TypeOK, Poll
    <3>2. UNCHANGED pr
      BY <2>5 DEF PollReads, forgeVars
    <3>3. \/ card' = Flush(poll.card, MergedElsewhere(poll.card))
          \/ card' = Flush(poll.card, poll.card)
      BY <2>5, <3>1 DEF PollReads
    <3>4. card'.status = card.status
      BY <3>1, <3>3, EditsAreCards, FlushIsCard
    <3> QED BY <3>2, <3>4
  <2>6. ~(PollJudges \/ PollMerges \/ PollBooks \/ PollNotes)
    BY <1>1 DEF NoneLoadedPending, NoPoll, Inductive, PollsUndecided,
       PollJudges, PollMerges, PollBooks, PollNotes
  <2>7. CASE PollLoads \/ PollDies \/ ClaimLapses
    BY <2>7 DEF PollLoads, PollDies, ClaimLapses, platformVars, forgeVars
  <2> QED BY <1>1, <2>1, <2>2, <2>3, <2>4, <2>5, <2>6, <2>7 DEF Next, People, Poller, PollGoesOn
<1>2. TypeOK /\ Inductive /\ [Next]_vars
        => [card.status # "pending" /\ NoneLoadedPending => Stands]_vars
  BY <1>1
<1> QED BY <1>2, TypeCorrect, InductiveHolds, PTL DEF Spec, DecidedStands

-------------------------------------------------------------------------------
(* What arming while nobody looks would keep.                              *)

\* What a step other than an arming does to the card: it arms it for nobody else,
\* and one that waits armed afterwards waited with the same head before.
KeepsArming == /\ card'.armed \in {NoOne, card.armed}
               /\ card'.status = "pending" /\ card'.armed # NoOne
                    => card.status = "pending" /\ card'.head = card.head

\* A flush does, of an edit that leaves the head, or decides the card, or disarms
\* the card that it knows to be armed.
LEMMA FlushKeepsArming ==
  ASSUME card \in Card, NEW l \in Card, NEW c \in Card, c.armed \in {NoOne, l.armed},
         \/ c.status = l.status /\ c.head = l.head
         \/ c.status # "pending" /\ l.status = "pending"
         \/ c.status = l.status /\ c.armed = NoOne /\ card.armed \in {NoOne, l.armed},
         card' = Flush(l, c)
  PROVE  KeepsArming
<1>1. /\ card'.status = IF c.status = l.status THEN card.status ELSE c.status
      /\ card'.head = IF c.head = l.head THEN card.head ELSE c.head
      /\ card'.armed = IF c.armed = l.armed THEN card.armed ELSE c.armed
  BY DEF Flush, Card
<1> QED BY <1>1 DEF KeepsArming

\* The edits of a card leave the head, or decide, or disarm.
LEMMA EditsOfArming ==
  ASSUME NEW c \in Card, pr \in PullRequest
  PROVE  /\ Dismissed(c).armed = NoOne
         /\ Finished(c).armed = c.armed /\ Finished(c).status = "accepted"
         /\ Concluded(c).armed = NoOne /\ Concluded(c).status = "accepted"
         /\ InQueue(c).armed = NoOne /\ InQueue(c).head = c.head
         /\ Mirrored(c).head = pr.head
         /\ Mirrored(c).armed = IF c.head \notin {0, pr.head} THEN NoOne ELSE c.armed
<1>1. Dismissed(c) \in Card /\ Dismissed(c).armed = NoOne
  BY DEF Card, Dismissed
<1>2. Finished(c).armed = c.armed /\ Finished(c).status = "accepted"
  BY DEF Card, Finished
<1>3. Concluded(c).armed = NoOne /\ Concluded(c).status = "accepted"
  BY DEF Card, Finished, Concluded
<1>4. InQueue(c).armed = NoOne /\ InQueue(c).head = c.head
  BY DEF Card, InQueue
<1>5. /\ Mirrored(c).head = pr.head
      /\ Mirrored(c).armed = IF c.head \notin {0, pr.head} THEN NoOne ELSE c.armed
  <2>1. PICK d \in Card : /\ d = IF c.head \notin {0, pr.head} THEN Dismissed(c) ELSE c
                          /\ d.armed = IF c.head \notin {0, pr.head} THEN NoOne ELSE c.armed
    BY <1>1
  <2>2. Mirrored(c) = [d EXCEPT !.head = pr.head]
    BY <2>1 DEF Mirrored
  <2> QED BY <2>1, <2>2 DEF Card
<1> QED BY <1>1, <1>2, <1>3, <1>4, <1>5

\* Nor does what stopped and is said on the card, or a refresh, arm anything.
LEMMA NotedKeepsArming ==
  ASSUME card \in Card, card' \in Noted(card)
  PROVE  KeepsArming
BY DEF Noted, Card, KeepsArming

LEMMA RefreshKeepsArming ==
  ASSUME card \in Card, pr \in PullRequest, NEW p, NEW live, RefreshStale(p, live)
  PROVE  KeepsArming
<1>1. PICK d \in Card : d = Dismissed(card) /\ d.armed = NoOne
  BY EditsAreCards, EditsOfArming
<1>2. card' = [d EXCEPT !.head = live]
  BY <1>1 DEF RefreshStale
<1> QED BY <1>1, <1>2 DEF Card, KeepsArming

LEMMA RequestsKeepArming ==
  ASSUME TypeOK, ArmedOnSeen, NEW p \in Person, Asks(p) \/ GoesOn(p) \/ RequestDies(p)
  PROVE  KeepsArming
<1>0. /\ card \in Card /\ req[p].card \in Card /\ Loaded(p) = req[p].card /\ pr \in PullRequest
      /\ req[p].card.status = "pending"
  BY DEF TypeOK, Request, Loaded, ArmedOnSeen
<1>1. card' = card => KeepsArming
  BY DEF KeepsArming
<1>2. NotMerged(p) => KeepsArming
  BY <1>0, <1>1, NotedKeepsArming DEF NotMerged
<1>3. CASE AcceptReads(p)
  <2>1. CASE card' = Flush(Loaded(p), Concluded(Loaded(p)))
    BY <1>0, <2>1, EditsAreCards, EditsOfArming, FlushKeepsArming
  <2>2. CASE card' = [card EXCEPT !.waits = FALSE]
    BY <1>0, <2>2, NotedKeepsArming DEF Noted
  <2>3. CASE RefreshStale(p, pr.head)
    BY <1>0, <2>3, RefreshKeepsArming
  <2> QED BY <1>1, <1>3, <2>1, <2>2, <2>3, Zenon DEF AcceptReads
<1>4. CASE AcceptJudges(p) \/ RequestDies(p) \/ Asks(p)
  BY <1>1, <1>2, <1>4 DEF AcceptJudges, RequestDies, Asks, AcceptLoads, OverrideLoads,
     ReturnLoads, PushFixLoads, Loads, platformVars
<1>5. CASE ClickMerges(p)
  <2>1. card' = card \/ NotMerged(p)
        \/ RefreshStale(p, IF req[p].kind = "accept" THEN pr.head ELSE card.head)
    BY <1>5 DEF ClickMerges
  <2> QED BY <1>0, <1>1, <1>2, <2>1, RefreshKeepsArming
<1>6. CASE ClickBooks(p)
  <2>1. \/ card' = Flush(req[p].card, InQueue(req[p].card))
        \/ card' = Flush(req[p].card, Concluded(req[p].card))
        \/ card' = Flush(req[p].card, Finished(req[p].card))
    BY <1>0, <1>6 DEF ClickBooks, Booked
  <2> QED BY <1>0, <2>1, EditsAreCards, EditsOfArming, FlushKeepsArming
<1>7. CASE ReturnWrites(p)
  <2>1. Returned(p) \in Card /\ Returned(p).armed = req[p].card.armed
        /\ Returned(p).status # "pending"
    BY <1>0 DEF Returned, Card
  <2>2. card' = card \/ card' = Flush(req[p].card, Returned(p))
    BY <1>0, <1>7 DEF ReturnWrites
  <2> QED BY <1>0, <1>1, <2>1, <2>2, FlushKeepsArming
<1>8. CASE PushFixReads(p)
  <2>1. card.armed \in {NoOne, req[p].card.armed}
    BY <1>8 DEF PushFixReads, ArmedOnSeen, Sights
  <2>2. PICK d \in Card : /\ d = Dismissed(Loaded(p)) /\ d.armed = NoOne
                          /\ d.status = req[p].card.status
    BY <1>0, EditsAreCards, EditsOfArming
  <2>3. PICK e : e = [d EXCEPT !.head = pr.head]
    OBVIOUS
  <2>4. e \in Card /\ e.armed = NoOne /\ e.status = req[p].card.status
    <3>1. pr.head \in 0 .. MergeCommit
      BY <1>0, BoundAssumption DEF PullRequest, Head, MergeCommit
    <3> QED BY <2>2, <2>3, <3>1 DEF Card
  <2>5. card' = card \/ card' = Flush(req[p].card, e)
    BY <1>0, <1>8, <2>2, <2>3 DEF PushFixReads
  <2> QED BY <1>0, <1>1, <2>1, <2>4, <2>5, FlushKeepsArming
<1> QED BY <1>3, <1>4, <1>5, <1>6, <1>7, <1>8 DEF GoesOn

LEMMA PollKeepsArming ==
  ASSUME TypeOK, Inductive, ArmedOnSeen, Poller
  PROVE  KeepsArming
<1>0. card \in Card /\ poll.card \in Card /\ pr \in PullRequest /\ NoOne \notin Person
  BY PersonAssumption DEF TypeOK, Poll
<1>1. card' = card => KeepsArming
  BY DEF KeepsArming
<1>2. card' \in Noted(card) => KeepsArming
  BY <1>0, NotedKeepsArming
<1>3. CASE PollReads
  <2>1. CASE card' = Flush(poll.card, MergedElsewhere(poll.card))
    <3>1. CASE poll.card.status = "rejected"
      <4>1. PICK c : c = [poll.card EXCEPT !.merged = TRUE]
        OBVIOUS
      <4>2. /\ c \in Card /\ c.status = poll.card.status
            /\ c.head = poll.card.head /\ c.armed = poll.card.armed
        BY <1>0, <4>1 DEF Card
      <4>3. card' = Flush(poll.card, c)
        BY <2>1, <3>1, <4>1 DEF MergedElsewhere
      <4> QED BY <1>0, <4>2, <4>3, FlushKeepsArming
    <3>2. CASE poll.card.status = "pending"
      <4>1. MergedElsewhere(poll.card) = Finished(poll.card)
        BY <3>2 DEF MergedElsewhere
      <4> QED BY <1>0, <2>1, <3>2, <4>1, EditsAreCards, EditsOfArming, FlushKeepsArming
    <3> QED BY <3>1, <3>2 DEF Inductive, PollsUndecided
  <2>2. CASE card' = Flush(poll.card, poll.card)
    BY <1>0, <2>2, FlushKeepsArming
  <2>3. CASE /\ poll.card.status = "pending"
             /\ card' = Flush(poll.card, [poll.card EXCEPT !.status = "revoked", !.waits = FALSE])
    <3>1. PICK c : c = [poll.card EXCEPT !.status = "revoked", !.waits = FALSE]
      OBVIOUS
    <3>2. c \in Card /\ c.status # "pending" /\ c.armed = poll.card.armed
      BY <1>0, <3>1 DEF Card
    <3>3. card' = Flush(poll.card, c)
      BY <2>3, <3>1
    <3> QED BY <1>0, <2>3, <3>2, <3>3, FlushKeepsArming
  <2>4. CASE card' = Flush(poll.card, [poll.card EXCEPT !.armed = NoOne, !.waits = FALSE])
    <3>1. PICK c : c = [poll.card EXCEPT !.armed = NoOne, !.waits = FALSE]
      OBVIOUS
    <3>2. /\ c \in Card /\ c.armed = NoOne
          /\ c.status = poll.card.status /\ c.head = poll.card.head
      BY <1>0, <3>1 DEF Card
    <3>3. card' = Flush(poll.card, c)
      BY <2>4, <3>1
    <3> QED BY <1>0, <3>2, <3>3, FlushKeepsArming
  <2>5. CASE poll.card.status = "pending" /\ card' = Flush(poll.card, Mirrored(poll.card))
    <3>1. card.armed \in {NoOne, poll.card.armed}
      BY <1>3 DEF PollReads, ArmedOnSeen, Sights
    <3>2. poll.card.armed # NoOne => poll.card.head # 0
      BY <1>0, <2>5 DEF ArmedOnSeen, SeenByArmer, Card
    <3>3. /\ Mirrored(poll.card) \in Card /\ Mirrored(poll.card).status = poll.card.status
          /\ \/ Mirrored(poll.card).armed = NoOne
             \/ /\ Mirrored(poll.card).head = poll.card.head
                /\ Mirrored(poll.card).armed = poll.card.armed
      BY <1>0, <3>2, EditsAreCards, EditsOfArming
    <3> QED BY <1>0, <2>5, <3>1, <3>3, FlushKeepsArming
  <2> QED BY <1>3, <2>1, <2>2, <2>3, <2>4, <2>5 DEF PollReads
<1>4. CASE PollBooks
  <2>1. /\ poll.card.status = "pending"
        /\ \/ card' = Flush(poll.card, InQueue(poll.card))
           \/ card' = Flush(poll.card, Finished(poll.card))
    BY <1>4 DEF PollBooks, Inductive, PollsUndecided
  <2> QED BY <1>0, <2>1, EditsAreCards, EditsOfArming, FlushKeepsArming
<1>5. CASE PollJudges \/ PollNotes
  BY <1>1, <1>2, <1>5 DEF PollJudges, PollNotes
<1>6. CASE PollLoads \/ PollMerges \/ PollDies \/ ClaimLapses
  BY <1>1, <1>6 DEF PollLoads, PollMerges, PollDies, ClaimLapses, platformVars
<1> QED BY <1>3, <1>4, <1>5, <1>6 DEF Poller, PollGoesOn

LEMMA StepsKeepArming ==
  ASSUME TypeOK, Inductive, ArmedOnSeen, Next
  PROVE  KeepsArming \/ \E p \in Person : Arm(p)
<1>1. card' = card => KeepsArming
  BY DEF KeepsArming
<1>2. CASE Forge
  BY <1>1, <1>2 DEF Forge, Push, ChecksPass, HandledOutside, QueueEnds, platformVars
<1>3. CASE RefreshNeverShown
  BY <1>3, RefreshKeepsArming DEF RefreshNeverShown, TypeOK
<1>4. ASSUME NEW p \in Person, Look(p) \/ Disarm(p) \/ Revoke(p) PROVE KeepsArming
  BY <1>1, <1>4 DEF Look, Disarm, Revoke, platformVars, TypeOK, Card, KeepsArming
<1> QED BY <1>2, <1>3, <1>4, RequestsKeepArming, PollKeepsArming DEF Next, People, Click

\* Whoever is about to look was about to before, or has just loaded the card.
LEMMA SightsMove ==
  ASSUME TypeOK, Inductive, Next
  PROVE  /\ Sights' \subseteq Sights \cup {card}
         /\ Sights' \subseteq Sights \/ UNCHANGED card
<1>1. UNCHANGED <<poll, req>> => Sights' = Sights
  BY DEF Sights
<1>2. ASSUME NEW p \in Person, Asks(p) \/ GoesOn(p) \/ RequestDies(p)
      PROVE  \/ Sights' \subseteq Sights
             \/ Sights' \subseteq Sights \cup {card} /\ UNCHANGED card
  <2>1. PICK r \in Request :
          /\ req' = [req EXCEPT ![p] = r]
          /\ \/ r = Idle
             \/ r.card = req[p].card /\ r.kind = req[p].kind
             \/ r.card = card /\ UNCHANGED card
    BY <1>2, RequestMoves
  <2>2. poll' = poll /\ \A q \in Person : req'[q] = IF q = p THEN r ELSE req[q]
    BY <1>2, <2>1, RequestMoves DEF TypeOK
  <2> QED BY <2>1, <2>2 DEF Sights, Idle
<1>3. CASE Poller
  <2>1. /\ req' = req
        /\ \/ poll' = NoPoll
           \/ poll' = poll
           \/ poll' = [pc |-> "loaded", card |-> card] /\ UNCHANGED card
           \/ poll' = [pc |-> "judging", card |-> Mirrored(poll.card)]
           \/ poll'.pc # "loaded"
    BY <1>3, PollMoves DEF Inductive
  <2> QED BY <2>1 DEF Sights, NoPoll
<1>4. Forge \/ RefreshNeverShown => UNCHANGED <<poll, req>>
  BY DEF Forge, Push, ChecksPass, HandledOutside, QueueEnds, RefreshNeverShown
<1>5. ASSUME NEW p \in Person, Click(p) PROVE UNCHANGED <<poll, req>>
  BY <1>5 DEF Click, Look, Arm, Disarm, Revoke
<1> QED BY <1>1, <1>2, <1>3, <1>4, <1>5 DEF Next, People

\* No request loads a decided card, and nobody is shown a head that is not one.
LEMMA LoadsStep ==
  ASSUME TypeOK, Inductive, ArmedOnSeen, Next
  PROVE  \A p \in Person : 0 \notin saw'[p] /\ req'[p].card.status = "pending"
<1>1. ASSUME NEW p \in Person, Asks(p) \/ GoesOn(p) \/ RequestDies(p)
      PROVE  saw' = saw /\ \A q \in Person : req'[q].card.status = "pending"
  <2>1. PICK r \in Request :
          /\ req' = [req EXCEPT ![p] = r]
          /\ \/ r = Idle
             \/ r.card = req[p].card
             \/ r.card = card /\ card.status = "pending"
    BY <1>1, RequestMoves
  <2>2. r.card.status = "pending"
    BY <2>1 DEF Idle, New, ArmedOnSeen
  <2> QED BY <1>1, <2>1, <2>2, RequestMoves DEF TypeOK, ArmedOnSeen
<1>2. ASSUME NEW p \in Person, Click(p)
      PROVE  req' = req /\ \A q \in Person : 0 \notin saw'[q]
  BY <1>2 DEF Click, Look, Arm, Disarm, Revoke, TypeOK, ArmedOnSeen
<1>3. Poller => UNCHANGED <<req, saw>>
  BY PollMoves DEF Inductive
<1>4. Forge \/ RefreshNeverShown => UNCHANGED <<req, saw>>
  BY DEF Forge, Push, ChecksPass, HandledOutside, QueueEnds, RefreshNeverShown
<1> QED BY <1>1, <1>2, <1>3, <1>4 DEF Next, People, ArmedOnSeen

\* The card stays armed on what its armer was shown.
LEMMA CardStaysSeen ==
  ASSUME TypeOK, Inductive, ArmedOnSeen, Next
  PROVE  SeenByArmer(card)'
<1>1. \A p \in Person : saw[p] \subseteq saw'[p]
  BY SawGrows
<1>2. CASE KeepsArming
  <2>1. SUFFICES ASSUME card'.status = "pending", card'.armed # NoOne
                 PROVE  card'.head \in saw'[card'.armed]
    BY DEF SeenByArmer
  <2>2. card'.armed = card.armed /\ card.status = "pending" /\ card'.head = card.head
    BY <1>2, <2>1 DEF KeepsArming
  <2>3. card.armed \in Person
    BY <2>1, <2>2 DEF TypeOK, Card
  <2> QED BY <1>1, <2>1, <2>2, <2>3 DEF ArmedOnSeen, SeenByArmer
<1>3. ASSUME NEW p \in Person, Arm(p) PROVE SeenByArmer(card)'
  <2>1. card' = [card EXCEPT !.armed = p] /\ saw' = saw /\ card.head \in saw[p]
    BY <1>3 DEF Arm, SeenHead
  <2>2. card'.armed = p /\ card'.head = card.head
    BY <2>1 DEF TypeOK, Card
  <2> QED BY <2>1, <2>2 DEF SeenByArmer
<1> QED BY <1>2, <1>3, StepsKeepArming

\* So does the copy the poll works with, and it goes on to merge only an armed one.
LEMMA PollStaysSeen ==
  ASSUME TypeOK, Inductive, ArmedOnSeen, Next
  PROVE  SeenByArmer(poll.card)' /\ (poll'.pc = "merging" => poll'.card.armed # NoOne)
<1>0. /\ \A p \in Person : saw[p] \subseteq saw'[p]
      /\ card \in Card /\ poll.card \in Card /\ pr \in PullRequest
  BY SawGrows DEF TypeOK, Poll
<1>1. ASSUME NEW c \in Card, SeenByArmer(c), poll'.card = c
      PROVE  SeenByArmer(poll.card)'
  BY <1>0, <1>1 DEF SeenByArmer, Card
<1>2. CASE poll' = poll
  BY <1>0, <1>1, <1>2 DEF ArmedOnSeen
<1>3. CASE Poller
  <2>1. CASE poll' = NoPoll
    <3>1. poll'.card.armed = NoOne /\ poll'.pc = "idle"
      BY <2>1 DEF NoPoll, New
    <3> QED BY <3>1 DEF SeenByArmer
  <2>2. CASE poll' = [pc |-> "loaded", card |-> card]
    BY <1>0, <1>1, <2>2 DEF ArmedOnSeen
  <2>3. CASE poll' = [pc |-> "judging", card |-> Mirrored(poll.card)] /\ poll.card.status = "pending"
    <3>1. poll.card.armed # NoOne => poll.card.head # 0 /\ poll.card.head \in saw[poll.card.armed]
      BY <1>0, <2>3 DEF ArmedOnSeen, SeenByArmer, Card
    <3>2. /\ Mirrored(poll.card) \in Card /\ Mirrored(poll.card).head = pr.head
          /\ \/ Mirrored(poll.card).armed = NoOne
             \/ pr.head = poll.card.head /\ Mirrored(poll.card).armed = poll.card.armed
      BY <1>0, <3>1, EditsAreCards, EditsOfArming
    <3>3. SeenByArmer(Mirrored(poll.card))
      BY <3>1, <3>2 DEF SeenByArmer
    <3> QED BY <1>1, <2>3, <3>2, <3>3
  <2>4. CASE /\ poll'.card = poll.card
             /\ poll'.pc = "merging" => poll.card.armed # NoOne
    BY <1>0, <1>1, <2>4 DEF ArmedOnSeen
  <2> QED BY <1>2, <1>3, <2>1, <2>2, <2>3, <2>4, PollMoves DEF Inductive
<1>4. Forge \/ RefreshNeverShown => poll' = poll
  BY DEF Forge, Push, ChecksPass, HandledOutside, QueueEnds, RefreshNeverShown
<1>5. ASSUME NEW p \in Person, Asks(p) \/ GoesOn(p) \/ RequestDies(p) PROVE poll' = poll
  BY <1>5, RequestMoves
<1>6. ASSUME NEW p \in Person, Click(p) PROVE poll' = poll
  BY <1>6 DEF Click, Look, Arm, Disarm, Revoke
<1> QED BY <1>2, <1>3, <1>4, <1>5, <1>6 DEF Next, People

\* Who is about to look knows who armed the card: here alone an arming must wait.
LEMMA SightsKnow ==
  ASSUME TypeOK, Inductive, ArmedOnSeen, Next, ArmsAlone
  PROVE  \A c \in Sights' : card'.armed \in {NoOne, c.armed}
<1>1. CASE KeepsArming
  BY <1>1, SightsMove DEF KeepsArming, ArmedOnSeen
<1>2. ASSUME NEW p \in Person, Arm(p)
      PROVE  \A c \in Sights' : card'.armed \in {NoOne, c.armed}
  <2>1. Sights' = Sights
    BY <1>2 DEF Arm, Sights
  <2> QED BY <2>1 DEF ArmsAlone, ArmedOnSeen
<1> QED BY <1>1, <1>2, StepsKeepArming

\* What the poll has merged for an armer is the head of the copy it goes on with.
LEMMA ArmedMergesStep ==
  ASSUME TypeOK, Inductive, ArmedOnSeen, Next
  PROVE  ArmedMergesSeen' /\ \A m \in {pr'.merge, pr'.queue} : m.armed => m.by # NoOne
<1>1. SUFFICES ASSUME NEW m \in {pr'.merge, pr'.queue}, m.armed
               PROVE  m.head \in saw'[m.by] /\ m.by # NoOne
  BY DEF ArmedMergesSeen
<1>2. \A p \in Person : saw[p] \subseteq saw'[p]
  BY SawGrows
<1>3. CASE m \in {pr.merge, pr.queue}
  <2>1. m.head \in saw[m.by] /\ m.by \in Person /\ m.by # NoOne
    BY <1>1, <1>3 DEF ArmedOnSeen, ArmedMergesSeen, TypeOK, PullRequest, Merge
  <2> QED BY <1>2, <2>1
<1>4. CASE m \notin {pr.merge, pr.queue}
  <2>1. m # NoMerge /\ \A p \in Person : m # Clicked(p)
    BY <1>1 DEF NoMerge, Clicked
  <2>2. m = Armed(poll.card) /\ poll.pc = "merging"
    BY <1>1, <1>4, <2>1, MergesMove
  <2>3. poll.card.status = "pending" /\ poll.card.armed # NoOne
    BY <2>2 DEF Inductive, PollsUndecided, ArmedOnSeen
  <2>4. poll.card.head \in saw[poll.card.armed] /\ poll.card.armed \in Person
    BY <2>3 DEF ArmedOnSeen, SeenByArmer, TypeOK, Poll, Card
  <2> QED BY <1>2, <2>2, <2>3, <2>4 DEF Armed
<1> QED BY <1>3, <1>4

LEMMA ArmedOnSeenStep ==
  TypeOK /\ Inductive /\ ArmedOnSeen /\ [Next /\ ArmsAlone]_vars => ArmedOnSeen'
<1>1. CASE UNCHANGED vars
  BY <1>1 DEF vars, platformVars, forgeVars, ArmedOnSeen, SeenByArmer, Sights, ArmedMergesSeen
<1>2. ASSUME TypeOK, Inductive, ArmedOnSeen, Next, ArmsAlone PROVE ArmedOnSeen'
  BY <1>2, LoadsStep, CardStaysSeen, PollStaysSeen, SightsKnow, ArmedMergesStep DEF ArmedOnSeen
<1> QED BY <1>1, <1>2

\* What arm_auto_merge says of an armed card ("what the machine merges is always what
\* the armer looked at, or nothing") holds as long as nobody arms the card between
\* another's reading of it and what that one writes of its head: a poll between its
\* load and _poll_pr_card's look, or a push_fix. It is those two, and nothing else
\* the platform, the forge or another person does, that break it (MCAcceptCard_armed).
THEOREM ArmedAloneWasSeen == Spec /\ [][ArmsAlone]_vars => []ArmedMergesSeen
<1>1. Init => ArmedOnSeen
  BY DEF Init, ArmedOnSeen, SeenByArmer, Sights, ArmedMergesSeen, New, NoPoll, Idle, NoMerge
<1>2. [Next]_vars /\ [ArmsAlone]_vars => [Next /\ ArmsAlone]_vars
  OBVIOUS
<1>3. ArmedOnSeen => ArmedMergesSeen
  BY DEF ArmedOnSeen
<1> QED BY <1>1, <1>2, <1>3, ArmedOnSeenStep, TypeCorrect, InductiveHolds, PTL DEF Spec
================================================================================
