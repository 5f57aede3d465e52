# Cheese, in TLA+

Specifications of the parts of Cheese where a mistake is hard to see in a test: how an instruction reaches an AI teammate's session once, which messages an input keeps from every other prompt until its fate is known, how what the session did is heard of once, how people are told of what happens, by mail, push and inbox, and how the work that comes of it is accepted and its pull request merged. TLC checks the modules on small instances; TLAPS proves every safety property the passing runs check, and both refinements, for every value of the constants.

Paths below are relative to `src/backend/app/domain/` unless they start with `src/`.

## 1. The system

The backend is several FastAPI processes over one PostgreSQL database. Rows are locked with `FOR UPDATE`; nothing else is shared between processes. One process owns the timers. AI teammates run as agent processes (Claude Code, Codex, pi) on machines; beside each a *runner* keeps a journal on disk and answers calls from whichever backend reads it. A *seat* is one teammate in one conversation; its session takes *inputs*.

| Component | State | Operations | Interacts with | What is hard | What must hold |
|---|---|---|---|---|---|
| Agent delivery (`delivery/agent.py`, `timer.py`) | `Delivery` rows with a state, an attempt id, a lease, a backoff | record, replace, dispatch, fence, settle, redispatch, give up | calls the turn runtime, is settled by receipts | leases that lapse under a live attempt, crash between commit and call, cancellation | never read twice; what failed is not in the session |
| Native inputs (`delivery/receipts.py`, `input_holds.py`) | `NativeInput` rows, blocks they hold | register, withdraw, hand to a process, record an echo, drop, terminate | registered in the fence's transaction; settled by runner reports | reports that come late or after the row was given up | only an echo settles; a batch the session may still read is offered to nobody else |
| Prompt and cursor (`turn/intake/preparation`, `turn/store/completion.py`) | the seat's read cursor | assemble the window past the cursor, settle a work | blocks held by inputs; reports of works | the process that settles is not the one that assembled | no unread message is passed over |
| Speaking (`room/sessions/speaking.py`, `session_host/speaking.py`) | the seat's books: its work, its clocks | say a turn, say it again, steer into a working session, give up | registers inputs, calls the runner | calls cut off, processes replaced between two calls | an input is put in once |
| Turn admission (`agent/admission.py`, `turn/intake`) | project slots, seat locks, credits (process memory and rows) | admit, refuse, queue, release | before each attempt | many seats wait for a slot | a slot is freed; a seat is one turn's |
| Orphan sweep and resumption (`agent/runtime_orphans.py`, `turn_resume.py`) | turn intervals, liveness marks | sweep, cancel, resume | cancels attempts, terminates inputs | a turn that is alive in another process | resumed at most once |
| Runner and its journal (`agent/harness/driven`, `harness/claude_code`) | outbox of events, epoch, last input ids, live marks | start, open, finish, report exit, linger, register, read | answers the session host | killed at any step, and started again on the same state | no event lost or misattributed |
| Session host (`agent/session_host`, `room/sessions`) | in memory: the readings | start, adopt, attach, pass, supersede, stop | registers in the database, calls the runner | two backends read one seat; lost answers | one reader; nothing acknowledged before it is applied |
| Session state (`agent/session_state.py`, `runner_reports.py`) | `SessionState`, `SessionOffset` | register, take, declare, exited, projected | one transaction per event | check and effect around a registration | each event applied once, in order |
| Channel outbox (`notification/outbox.py`) | `ChannelDelivery` | record, claim, renew, acknowledge, give up | recorded by the ledger; mail and push providers | provider called with no transaction open | a late worker changes nothing |
| Notification ledger (`delivery/ledger.py`, `notification/handlers.py`) | `Delivery` for people, `Notification` | deliver, resend, amend, settle, retract | announcements, questions, review cards | one channel fails; the event changes under a pass | told once; what is told is true |
| Ownership and periodic jobs (`src/backend/app/core`) | advisory lock, `job_runs` | take, hand over, tick | runs every sweep above | handover between deployments | a tick is taken once |
| Watchdog (`driven/lifecycle.py:245-350`) | clocks of unread inputs, tools, silence | arm, take, fire | ends stuck work | order of clocks | a stuck session ends, a working one does not |
| Device hub (`agent/device_hub*`) | websocket, pending calls | call, answer, reconnect | runner calls go through it | answers after a reconnection | a call is answered once or fails |
| Machine lifecycle (`machine/`, `agent/resource_cleanup.py`) | machines, leases, warm pool | provision, claim, park, reap | sessions run there | reaping what is in use | a machine in use is not destroyed |
| Review and merge queue (`review/services`) | `AcceptCard` rows, a poll's claim; at the forge the PR and its queue | accept, arm, let through, return, void, revoke, poll | forge, tasks, deliveries | seconds between loading a card and writing it, during which others write it, the branch moves and the forge merges | accepted means merged; what is merged was seen; a decided card stays decided |
| Tasks, closing, lock order (`room_task`) | tasks | close, reopen, lock | targets of deliveries | lock cycles | a closed task takes no instruction |
| Routines and alarms (`routine`, `delivery/timer.py`) | timed deliveries | fire, claim | materialise deliveries | firing across a restart | fired once |
| Live updates (`agent/realtime`) | queue per subscriber | publish, drop, drain | browsers | slow subscriber | bounded; a gap is announced |
| Usage and credits (`usage`) | balances | charge, refund | admission | concurrent charges | no charge twice |

Not of this kind (see `components` of `PROJECT.json`, all `not_modelled`): Codex and pi adapters, tunnels, OAuth and passkeys, CRUD of spaces, teams, tasks and discussions, documents, memory, CI activity, feedback, the frontend, the command-line client, the desktop shell, deployment.

## 2. Modules

| Module | What it is | Extends / instances |
|---|---|---|
| `InstructionOnce` | abstract: an instruction is owed, handed, read or closed | |
| `AgentDelivery` | ledger rows × attempts × inputs × session | `InstructionOnce` by `fate <- Fate(d)` |
| `InputHolds` | messages × inputs × the turn and the steer × the runner's processes × reports | |
| `EventsOnce` | abstract: events are written, take effect, are followed through and forgotten, each once and in order | |
| `SessionReports` | runner × backends × the seat's rows | `EventsOnce` by `written <- seq`, `kept <- {x.seq : x \in journal}`, `done <- followed` |
| `ChannelOutbox` | one copy × workers | |
| `NotificationLedger` | one event's rows and copies × the resend pass | |
| `AcceptCard` | one card × its reviewers' requests × the poll × the forge | |
| `MC…` | instances for TLC: symmetry, finite sets | the module |
| `…Proofs` | theorems | the module and TLAPS |

The definitions keep the source's names where TLA+ allows; `map` in `PROJECT.json` gives each its lines. Definitions that come before an action and are named "mutant" in their comment are plausible mistakes in it; each property is violated by one of them.

### AgentDelivery

`state`, `attempt_id`, `lease_until`, `backoff` and `old` are columns of `Delivery`; the two clocks `retry_at` and `recorded_at + GIVE_UP_AFTER` are kept as the comparison each guard makes. `row`, `released` and `told` are the attempt's `NativeInput`. `stage` is where the attempt's task stands inside `run_attempt`; `inside` is what the session itself did with the input, which the database can only learn of by a report. `target` stands for task, room, roster and agent. `astray` is observed only: the attempts whose call had left for the runner when the platform took it for one that never did, and put the delivery back to be tried again (finding 6).

One action is one transaction or one call:

- `Record`, `DispatchUncertain`, `DispatchFailed`, `DispatchClaim`, `Redispatch`, `GiveUp` are the ledger's functions. `Record` includes the replacement of earlier instructions, in the same transaction.
- `Join`, `NoJoin`, `Admit`, `StartWork`, `NotOwner`, `TargetChanged` are the turn up to the fence. An attempt first tries to join a running session; if that is not taken it is admitted to a work of its own. The fence (`Fenced`) and the registration are one transaction (`RegisterInput`).
- `Say` and `SayLost` are the call; whether it reached the runner is not known to the backend. The stage tells a `steer` from a `send`, because they differ in what an error means: `NotSent` is what `_submit` takes for a send that never got that far. That is a session that is not this process's or cannot be started again, and of a `send` also a call that left and whose link was cut before the answer, with the device still away as the session is started again. `Withdraw` takes the registration back in each of these, and puts the attempt that owns it among the `astray` when the call had left. `Settle` is `run_attempt`'s `finally`; `Cancel` cuts straight to it, and `Crash` skips it.
- `SessionReads` and `SessionDrops` happen in the session, `RecordRead` and `DropInput` when the report of it is applied, at any later time and once (exactly-once application is what `SessionReports` shows).
- `Terminate` and `Release` are the sweeps that end an input, or its hold on the seat, without knowing.
- `LeasePasses` may happen to a lease whose holder is alive and well: a stalled event loop.

`InstructionOnce` is the promise with that one exception said aloud: an instruction comes back only while it is unread, and is closed only while the session does not have it, unless something handed over went astray (`GoAstray`), which counts as never handed over and is written down in `strays`.

### InputHolds

The messages of one conversation are numbered in the order of the timeline, so the read cursor is a number. `rows` are the `NativeInput`s; `held_blocks` and `seat_has_unfinished_input` are the two questions the code asks of them, and `OverWork`, `HoldsSeat` and `HoldsBatch` what decides each. `first` is observed only: the registration an input was first handed to.

- A turn: `Admit` under the seat's lease, `Assemble` (the window past the cursor, less what is held), `Ensure` (a process, registered), `Register` or its refusal, `Send`, and `StartAgain` or `StartRefused` when the first call failed. A message said into a working session takes the lease of nobody: `AskWorking`, `SteerRegister`, `SteerSay`, `SteerGivesUp`.
- A call is `hand_to` in a transaction and then `accept` at the runner, in one step: nothing that could happen between them reads what either writes but the other. It may fail before it reached the runner, after, or be taken by a runner that knows the id from its journal (`Begun`).
- The session: `Read`, `Settle` (the watchdog's drop), `Finish`, `Exit`, `Killed`. Each writes the reports it does, `start` those a dead runner left.
- The backend: `Apply` a report, in order; `CloseTurn` and `Died`, which give up a turn and what it held; `Crash`, after which another process takes the sessions up.

### SessionReports

The runner's journal is a set of events ordered by `seq`. `Start`, `Open`, `Finish`, `ReportExit`, `LingerEnds`, `Killed` are its life; `Start` also reports what the runner before it could not (`_report_left_exit`), and may die right after. `Register` issues an epoch in the database, and `HandOver` takes it to the runner; between the two another backend may do the same. `Drain` and `DrainLost` are one `read`, with and without its answer. `Apply` is `runner_reports.apply`'s transaction; `Follow` is what comes after it in the room and marks the event projected. `HandOn` says what `Reading.drain` does once an event is done with. `Refused`, `Crash`, `ApplyStale`, `Superseded` are the failures. `effects`, `followed`, `ended`, `holder` and `cut` (the runs killed with their runner, whose end nobody journaled) are observed only.

`EventsOnce` says what is left of all that for the people who read the session: a number of events written, the effects so far, what was followed through, and what the writer still has. `HeardOnce` is that `SessionReports` implements it: `Start`, `Open`, `Finish` and `ReportExit` write, `Apply` takes effect, `Follow` follows through, and the acknowledgements of `Drain` and of a reading's end forget; registering, restamping, taking over, refusing and dying are invisible.

### ChannelOutbox

One `ChannelDelivery` row, of mail or of push, the recipient's address or the subscriptions of their browsers (`reachable`), and the workers of `drain_channel`. `Claim` reads whom to contact. `Contact` is the sender: each target takes its copy, is gone for good (a browser's 404 or 410, which drops its subscription), or fails, and a failure may hide a copy that was taken. `Raises` is what the two senders make of the answers: a mail fails without an address, a push only when it failed at every browser there was. With no browser, with all of them gone, or with some gone and the others failed, `send_push` returns as it does for a success, and the row is marked sent. `SenderBreaks` is a transaction of the sender's own that fails, `Die` a worker that stops with some targets reached. `Acknowledge` is guarded by the claim (`Mine`). `taken`, `twice`, `unseen`, `vacant` and `lapsed` are observed only.

### NotificationLedger

One event, the `Delivery` row of each recipient, and the copies (`Notification`, intents) the channels took. `Deliver` is one transaction with the event. The resend pass is three actions: `Select` reads rows and payloads without a lock, `Resend` writes what was read and commits, `Abort` is a pass that fails or whose process stops. `Amend` is `amend` and `settle`; `Retract` deletes.

### AcceptCard

`card` is the row. Everyone who works on it loads it, waits for the forge, and writes: `req[p].card` and `poll.card` are the copies they loaded, and `Flush` is what the unit of work does with one (it writes the columns that differ from what was loaded and no others, so that two writers mix). `lock` is the row lock an accept keeps from its mirror to its commit; a poll holds no lock while it waits, only `claim`. `saw[p]` is the screen.

- People: `Look`, `Arm`, `Disarm`, `Revoke` are one transaction. `AcceptLoads`, `AcceptReads`, `AcceptJudges`, `ClickMerges`, `ClickBooks` are `accept`; `OverrideLoads` (`merge_despite_checks`) joins it at `ClickMerges`; `ReturnLoads` and `ReturnWrites` are `reject` and `void`, the removal from the queue included; `PushFixLoads` and `PushFixReads` are `push_fix`. `RequestDies` rolls back.
- The poll: `PollLoads` under the claim, `PollReads` (merged, closed, in the queue, moved on), `PollJudges`, and for an armed card `PollMerges`, `PollBooks`, `PollNotes`. `PollDies` and `ClaimLapses`.
- The forge: pushes, checks, a merge or a close by hand, a queue that merges or lets go; `Asked` is its answer to a merge call, which is bound to a head, and `AskedBadly` an answer that is lost or refuses.

`pr.merge` and `pr.queue` remember for whom, and of which head, the platform asked; the properties are about them.

## 3. What is checked

| Run | Bounds | Distinct states | Shows |
|---|---|---|---|
| `promise` | 1 instruction, 2 attempts, a newer instruction about the same thing, fair | 385,536 | `TypeOK`, `ReadAgainOnlyAstray`, `FailedReachedOnlyAstray`, `ReceivedWasRead`, `Inductive`, `OutcomesAreFinal`; `HandedOverOnce` (refinement of `InstructionOnce`), `Resolved` |
| `withdrawn` | 1 instruction, 2 attempts | violation | finding 6 |
| `dropped` | 1 instruction, 1 attempt | violation | finding 1 |
| `held` | 2 messages, 2 inputs, 2 registrations, 1 fault, fair | 533,911 | `TypeOK`, `Inductive`, `InSessionHolds`, `DroppedIsNeverRead`, `PutInOnce`, `SeatIsFreed` |
| `cursor` | 3 messages, 2 inputs, 1 registration, no fault | violation | finding 4 |
| `events` | 2 backends, page of 2, 3 epochs, 2 processes, 3 events, 2 faults | 1.3 million | `TypeOK`, `AppliedOnceInOrder`, `NothingLost`, `RunsAgree`, `ExitOfRegistered`, `Inductive`; `HeardOnce` (refinement of `EventsOnce`) |
| `exit` | as `events`, 2 epochs, 4 events, no fault | violation | finding 2 |
| `claims` | 2 workers, 2 browsers or a mailbox, 3 attempts, fair | 223,976 | `OneSenderPerLease`, `TwiceOnlyUnseen`, `SentOrVacant`, `Inductive` (types included), `OutcomesAreFinal`, `Resolved` |
| `resend` | 2 recipients, 2 channels, 3 attempts, all changes, fair | 4,353 | `TypeOK`, `SentMeansDelivered`, `ToldOnce`, `SaysNowOtherwise`, `Inductive`, `Resolved` |
| `resent` | 1 recipient, the same | violation | finding 3 |
| `decided` | 1 person, 2 heads, 1 fault, fair | 275,390 | `TypeOK`, `BookedIsTrue`, `ClickMergesSeen`, `Inductive`, `DecidedStands`, `MergeIsBooked`, `ArmedIsAnswered` |
| `armed` | 1 person, 2 heads, no fault | violation | finding 5 |

Why the bounds are enough.

- `AgentDelivery`. A hazard is between an attempt and the one that took its row over, so two; a delivery's attempt ids are a pool, and when it is used up the row merely stays dispatchable. Replacement is a relation between two instructions. `promise` has a target that takes instructions or is closed: one that is unseated fails a dispatch as a closed one does and passes the fence as one that takes does, so each of its steps is a step of one of the two (the other two runs have all three). `Resolved` is of instructions that have attempts: one with no attempt id at all is an artefact of the pool. The safety properties are proved for any number of both.
- `InputHolds`. Two inputs are a turn and a steer, or a turn and its successor; two messages let one be held and one wait; two registrations let one process's exit be reported after the next was handed its input; one fault (a kill, a cut call, a crash) falls between any two steps. With three inputs TLC finds that a message is held by two inputs when one of them was handed again: `HeldOnce`, part of `Inductive`, excepts those, and the hazards list it. The rest is proved for any bounds.
- `SessionReports`. A registration that supersedes another needs two, and one that supersedes it while it was being handed over, three; the second process is the one whose registration may take the first one's exit; three events are a work that was restamped or interrupted, the ending of its process and what the next process begins; a page of two and three events make a journal of more than one page; two faults (lost answers, refused events, crashes) fall between any two steps, and the processes of the runner die without counting as faults. The safety properties and the refinement are proved for any page and any bounds.
- `AcceptCard`. One person has one request at a time, beside the poll: two loaded copies of one card, which is what the hazards are made of. Two requests at once are more states than TLC gets through in minutes; the safety properties are proved for any number of people. Two heads are a look and a push after it.
- `ChannelOutbox`. Two workers are a claim and the one that recovered it; three attempts let a late worker be two claims behind. Two browsers are one that took its copy beside one that failed or is gone, which is where a push differs from a mail. Three workers with two browsers are more states than TLC gets through in minutes; the safety properties are proved for any number of both.
- `resend` is small enough that the numbers are of no account, and its safety is proved for all.

Deadlock. `AgentDelivery` is checked for deadlock in every run: `TargetMoves` always leaves it a step. That says little, so its liveness is checked as `Resolved`. The others end where their bounds or their work do (`CHECK_DEADLOCK FALSE`).

Symmetry is used for backends, in a run without liveness.

## 4. Fairness

- `AgentDelivery`. The sweeps (`dispatch_pending`, `give_up_stale`) run on a timer: WF of `Dispatch` and `GiveUp`. A live task's awaits return, by an answer or a timeout: WF of `Proceed`. Clocks move: WF of `BackoffPasses` and `GrowsOld`; of `LeasePasses` only when the owning attempt is over, since a live one renews. Nothing is assumed of the session, of the room or of people. The outcome `uncertain` counts: the code withholds the row then, and says so.
- `InputHolds`. A turn and a steer go on once begun (`TurnGoesOn`, `SteerGoesOn`: every await in them ends by an answer or a timeout); reports are read and applied; an input put into the session is read, or the watchdog settles it; a work finishes; the sweeps that close dead turns and notice a dead process run on their timers. Nothing is assumed of messages, of processes starting, or of killed ones being followed by others, which is why `SeatIsFreed` has `left # 0` as a way out.
- `AcceptCard`. A person's request is answered or dies, the timer polls, the claim of a dead poll lapses. SF of `PollGoesOn`: its writes wait for a row that requests lock again and again, and the database grants locks in turn. Nothing is assumed of people, pushes, checks, or the queue.
- `SessionReports`. None is stated, and no liveness checked. That what the agent did is heard of in the end needs a seat nobody reads to be taken up again, and nothing schedules that: a backend adopts the sessions it finds when it starts, a device's when it reconnects, and one seat's when somebody writes to it (`agent/session_host`). Until then the journal waits; `NothingLost` says that it is all still there.
- `ChannelOutbox`. The outbox job runs on a timer, calls to a provider time out, clocks move; a lease is only sure to lapse when no worker renews it. For push this is a deployment whose web push stays configured: without keys no push is recorded, but those recorded before wait (section 6).
- `NotificationLedger`. WF of `Select` (the timer) and SF of `Resend`: a pass may be aborted by a retraction or a restart, but not every time. The channels may refuse for ever; `MAX_ATTEMPTS` is what ends it.

## 5. What is proved

All theorems are for every value of the constants that satisfies the module's named assumptions (an attempt id belongs to one delivery and `NoAttempt` is none of them; `MaxAttempts` and `Page` are positive; the inbox is a channel; the bounds are numbers). No bound on attempts, inputs, workers, recipients, channels, reviewers, backends, registrations, processes or events enters.

**AgentDeliveryProofs.** `ReadAgainOnlyAstray` is not inductive: it says nothing of an attempt that is about to speak. The strengthening is `CommittedOwns`: an attempt that is saying its input, or whose input is in the session or was read, still *owns* the delivery (`attempt_id`), and the delivery is `sending`, `uncertain` or `received`. Those are the states that no claim, replacement or giving-up takes, so no second attempt can be drawn; the fence puts an attempt into that set only from `claimed`. A withdrawn send that had left is the one way out of it, so the invariant, and each theorem that follows, is of the attempts that did not go astray: `ReadAgainOnlyAstray` and `FailedReachedOnlyAstray` are what is true beside finding 6. `AstrayIsDone` says that an attempt that went astray says nothing more. `AttemptIsOfDelivery`, `UnusedIsFresh` and `SaidOnlyAfterCall` are what the steps of drawing and saying need. `IInv == TypeOK /\ Inductive` is shown initial, kept by each action in a lemma of its own, and used for `ReadOnce`, `FailedStaysOut`, `EchoBacksReceipt` and `OutcomesStay`. `Implements` maps every step to one of `InstructionOnce` or a stutter: `Hand` at the fence, `TakeBack` when an input that never left is withdrawn or the session loses one unread, `GoAstray` when a send that left is withdrawn, `Read`, and `Close` of a set (replacement).

**ChannelOutboxProofs.** Claims are numbered by the attempts (`claim_token = attempts`), a worker's token is unique among those at work, and one whose lease never ran out still holds the row under a held lease; a new claim needs a lease that is not held. `TakenIsTold` is what keeps a copy from being sent twice: as long as no lease ran out and every copy was told of, a row of which somebody took one is contacted by nobody, and its own worker's sender did not fail. `OneSender`, `NoneTwice`, `SentIsTaken` and `OutcomesStay` follow. The hypotheses of `NoneTwice` are as they must be: a lease that ran out lets a second worker in, and a copy whose acceptance nobody saw is sent again.

**NotificationLedgerProofs.** `RowsHold` and `CopiesCounted` tie a row's state to its copies and to what a pass has of it; `SaidFollows` says what payloads, readings and the event have in common as long as no change overlapped a pass. `SentIsDelivered`, `ToldAtMostOnce` and `SaysNow` follow. Copies are written twice only by a pass that overlapped a retraction; hence `row[r] # "gone"` in `ToldOnce`.

**InputHoldsProofs.** `InSessionHolds` is about what the session may read and what the records say of it, and the two meet only through reports that are on their way. `Inductive` therefore says what each of four places knows of the others. `RowsHold`: an input is handed to a process registered by now. `CallsAreOfRows`: a call in progress is of an input drawn, by the turn or the steer that registered it. `AnsweredOnce`: the session answers for an input once, by echo or drop, and a row is released only when its answer was applied. `ExitsAreOfTheGone`: an exit on its way, or noted in a row, is of a process that is gone. `UnreadIsNotFreed`: no exit frees an input the present process may read, because `hand_to` moved the row to it. `HeldOnce` rides on the batch's lock in `register_input`. From these `InSession` is a consequence; `DroppedStaysUnread` and `PutIn` are steps of `AnsweredOnce` and of the journal. `accept`, `start` and `Apply` are lemmas of their own; every other action changes one of the four places.

**AcceptCardProofs.** `BookedIsTrue` is not inductive, since a request that knows of a merge has not written it yet and a copy loaded before may be written after. `MergeIsKnown` says that what any copy or answer holds of a merge is true at the forge, where it stays true; `ClicksOnSeen` that a request past its guard carries a head its person saw; `PollsUndecided` that a poll goes past its first look only with a card that waits. `Flush` preserves all three, whatever it mixes. `AcceptedIsMerged`, `ClickedWasSeen` and `DecidedStays` follow.

`ArmedAloneWasSeen` is about the promise finding 5 refutes, and says what it lacks: `Spec /\ [][ArmsAlone]_vars => []ArmedMergesSeen`. `ArmsAlone` asks that nobody arms the card while a poll or a `push_fix` has loaded it and not yet looked at the branch (`Sights`); everything else stays as it was, other people's requests, pushes, the queue and faults included. The strengthening `ArmedOnSeen` says that a card that waits armed, and a poll's copy of one, shows a head its armer was shown, and that whoever is about to look knows of the arming: what they then write of a new head disarms. `KeepsArming` is the lemma per action: every other write leaves the head, decides the card, or disarms it. Either overlap alone is enough for a violation, so neither half of the hypothesis can go.

**SessionReportsProofs.** None of the four promises of `SessionReports` is inductive. An event is told apart by its stamp and its sequence, positions are kept per stamp, and stamps change: what was written before any registration takes the first one. `Written` says why that does no harm: a sequence names one event with one stamp wherever it is met, in the journal or in any backend's answer, because only an event nobody was ever handed, and whose effects nobody applied, is restamped. Hence `PositionsTell`: whatever is still met and took effect is at or below its stamp's position, however many registrations the journal spans. `DoneWith` is about what may be forgotten: what was followed through is a beginning of what took effect, each position and acknowledgement lies in it, and an answer goes on where it ends (`ReadsOn`), so the first event of an answer that is new is the next one. That an answer is a page of the *earliest* events (`PagePassesNone`) is what makes it so. `HoldersKnown` numbers the registrations: each is of one process, the runner's own while it is up, and none is handed over twice; `ExitsOfHolders` says that an exit bears its own process's registration, or that the process was never registered and never will be. `RunHeard` ties the run under way to the last event journaled, its stamp included, and to what the seat has heard of it. `RunsEnd` follows the ends: a `running` that the journal, an answer or the seat's row still has is of a run that goes on, ended by an event journaled after it, or was killed with its runner (`cut`), whose end no event says.

`Inductive` is the conjunction of these with `AppliedOnceInOrder` and `NothingLost`. `NextTyped`, `NextInOrder`, `NextHolders`, `NextExits`, `NextRun` and `NextEnds` show that every step keeps each of its parts; the types need the rest of it, as the page bound is a fact on sequences. `EffectsInOrder`, `NothingIsLost`, `RunsAgreeOn` and `ExitsOfRegistered` follow. `RunsAgreeOn` is in two halves, once all that was journaled took effect: if the runner names a run, the seat has the same and works exactly if the runner does; and whatever the runner is, up or down, named or new, a seat that says running says it of the run going on or of one that was killed. The second half is as strong as the code allows: after a kill the seat may say running over a successor that is idle (section 6). `Implements` takes a step of each kind to one of `EventsOnce`: that an event takes effect next, or is followed through next, is read off the invariant after the step, and that only what was done with is forgotten is `NothingLost`.

Only model-checked: the liveness properties (`Resolved` in three modules, `SeatIsFreed`, `MergeIsBooked`, `ArmedIsAnswered`), as liveness under fairness is out of the prover's reach. What is a violation is not a theorem either, but for the two that are proved outside their window (`SaysNow`, `ArmedAloneWasSeen`).

## 6. Disagreements between code and documentation

1. **A dropped input's delivery is not tried again** (`dropped`, `delivery/receipts.py:359`). `drop_input` puts back only a delivery that is still `sending`; the attempt's end has made it `uncertain` by then, so it stays so. `agent/opening.py:96-98` and `drop_input`'s docstring say it is tried again.
2. **A process's exit can end the session of the one after it** (`exit`, `agent/harness/driven/lifecycle.py:189`). A process that ends before it was registered reports its exit under epoch 0; the next runner's registration restamps it as its own. The class's docstring (lines 160-164) says an event about an earlier process is never restamped.
3. **A resend can undo what happened to the event meanwhile** (`resent`, `delivery/ledger.py:246`). The pass reads payloads without a lock and writes them later. A settlement (or amendment) between the two finds no inbox row to change, and the pass writes one that says the old thing; a retraction between the two is followed by the inbox row and the intents of an event that is gone. The docstrings of `amend`, `settle` and `retract` (lines 326, 345, 300-301) say that neither happens.

4. **The cursor passes a message nobody was given** (`cursor`, `agent/turn/store/completion.py:122`). A message said into a working session and read only after that work ended starts work of the session's own. Nobody assembled a window for it, so `settle_work` puts the cursor at the newest block it consumed, past an earlier message that waits for its own turn; the window then no longer has it (`turn/intake/preparation/assembly.py:486`), and its turn bails. No fault is needed.
5. **An armed card merges a head its armer never saw** (`armed`, `review/services/accept.py:452`). A poll loads the card unarmed and asks the forge; a reviewer arms the head on the card; the poll finds a newer head, disarms nobody because nobody is armed in its copy, and writes the new head beside the arming. The next poll merges it. `review/services/merge_queue.py:52-53` says that this does not happen.
6. **A send that left is withdrawn as one that never did** (`withdrawn`, `agent/session_host/speaking.py:136`). The hub fails the calls in flight of a link that drops with `LinkInterrupted`, a `DeviceOffline` (`agent/device_hub/link.py:149-184`, `src/backend/app/core/device_failures.py:36-43`); `_say` reads it as a host that was not there, `send` starts the session again (line 63), and with the device still away that is a plain `SessionError` (`session_host/starting.py:79-80`). `room/sessions/speaking.py:258-266` then withdraws an input the runner may have, and the delivery is tried again under an id the runner does not know: the session reads the instruction twice, or has it after people were told it failed. `delivery/agent.py:5-6` says an interrupted attempt is never permission to inject the instruction a second time. `InSessionHolds` of `InputHolds` excepts withdrawn inputs for the same reason.

1, 2, 3, 5 and 6 need a window; `SaysNowOtherwise` shows that outside its window 3 does not arise, `ExitOfRegistered` that 2 needs a process that was never registered, `ArmedAloneWasSeen` that 5 needs an arming between a poll's or a `push_fix`'s load of the card and its look, `ReadAgainOnlyAstray` and `FailedReachedOnlyAstray` that nothing but 6 has an instruction read twice or read after it failed.

Met while modelling, without a run of their own:

- A killed runner's exit is read under a registration newer than its own, so `session_state.exited` (203-217) changes nothing, and the seat goes on saying running, over an idle successor, until a run of that one begins. `RunsAgree` excepts it; `run_started`'s docstring knows of it.
- A push that is told one browser is gone and fails at the others counts as sent (`notification/push_delivery.py:88-92`): the browsers that failed are not tried again. One that finds no subscription counts as sent as well, and a browser subscribed a moment later never hears of it. Push rows recorded before a deployment's web push was switched off wait until it is on again: the drain returns at once (line 105).
- A block that was read may be offered again, since the cursor moves only when a work settles (`completion.py`), where `agent/turn/intake/preparation/prompt.py:102-109` says it is not.
- An input registered and never said (the backend dies before its call), or a steer a killed runner had begun, keeps its seat until the machine is destroyed: nothing else reports it.
- `hand_to` clears `receiver_exited_at` and takes the blocks back without asking who took them since; a turn prepared on what it read before another's registration is refused at its own, which is safe, but a terminated steer's blocks may stay held.
- A poll in flight is not stopped by a return, a void or a disarming: it merges the copy it loaded and writes `accepted` over the decision. `polling/card_poll.py:157-160` says that observing must never merge a returned delivery. `DecidedStands` is about those who load the card later. In the same way two accepts, or an accept and a poll, can both conclude a card, and a return that waited for the row can overwrite an acceptance, although `accept.py:118-119` says a card is accepted once.
- An approval is not tied to a head: it can count for one its voter never saw. Votes are not modelled.

## 7. What the models leave out

- Wording, payloads, mentions, languages. Preferences: every recipient wants every channel.
- The content of inputs and of records. In `AgentDelivery`, the blocks an input holds and the process it was handed to (`InputHolds` has them) and admission by slots and credits: `SeatHeld`, `released` and a free choice stand for them.
- In `InputHolds`: a machine that is destroyed (`terminate_unread_of_session`, `drop_unread_of_session`), a closed task (`fail_read_inputs`), a seat taken over by another teammate, interrupts and draining, and harnesses that read on acceptance.
- In `AcceptCard`: votes beyond the one who accepts, `decided_by`, files and links that are handed over instead of a branch, a card filed anew, titles and dependencies as such, nudges and notices, credit, the landing of the task. A project without dismissal of stale accepts promises less.
- `timer.deliver_due` and the mailbox-only resend of rows older than the outbox; `settle_for` and `settle_card`, which are the same update over other rows.
- The runner's records, live frames and controls; `Watchdog`; `result_landed`. A runner's state directory that is deleted and made anew.
- One process's two readings of one session at the same time (`starting.py:109-124` reuses an entry that an old reading may forget).

## 8. Plan

Order: what is closest to a person losing a message or a piece of work, first. Done: `InstructionOnce`, `AgentDelivery`, `InputHolds`, `EventsOnce`, `SessionReports`, `ChannelOutbox`, `NotificationLedger`, `AcceptCard`, and their proofs. To do:

1. **AgentDelivery × InputHolds × SessionReports**: input events in the journal, so that `RecordRead` and `DropInput` happen by `Apply`. It replaces the `told` of `AgentDelivery` and the ordered `out` of `InputHolds`.
2. **Abstract specifications of the others**: what `InputHolds` and `AcceptCard` promise (a message is in one prompt at a time; a card is decided once) as specifications of their own, with the exceptions section 6 names as actions, and the refinements proved.
3. **Ownership**: `core/ownership.py`, `background.py`, `job_runs`: a tick is taken once, and handover loses none. Abstract: a job's runs in sequence. Runs with two processes and a crash; theorem: no two runs of a job overlap while the lock is held.
4. **Admission**: slots and seats, and that a waiting turn is not forgotten (`turn/intake`).
5. **TaskClosing**, **MachineLifecycle**, **RoutineFiring**, **Watchdog**, **DeviceCalls**, **SubscriberQueue**: a module each; `resource_bound` for the last, `timeout_retry` for `DeviceCalls`.

## 9. Running it

    tlc -workers 2 -config MCAgentDelivery_promise.cfg MCAgentDelivery
    tlapm AgentDeliveryProofs.tla

`promise`, `held`, `decided`, `events` and `claims` take one to three minutes each with two workers, the rest seconds; of the proofs `InputHoldsProofs` and `SessionReportsProofs` take minutes, the others under a minute together.
