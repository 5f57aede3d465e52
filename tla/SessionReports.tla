----------------------------- MODULE SessionReports -----------------------------
(***************************************************************************)
(* How one seat's session is heard of: the runner that sits beside the     *)
(* agent process and journals what it did (the lifecycle protocol), the    *)
(* backend processes that register it and pull its events, and what the    *)
(* database keeps of them, each event's effects applied once.              *)
(*                                                                         *)
(* Source: domain/agent/harness/driven/lifecycle.py and reporting.py,      *)
(* harness/claude_code/runner.py, domain/agent/session_state.py,           *)
(* runner_reports.py, session_host/starting.py and host.py,                *)
(* room/sessions/reading.py.                                               *)
(*                                                                         *)
(* Simplifications.                                                        *)
(*  - Events are the session's: running, idle, exited. What an input event *)
(*    does to its delivery is AgentDelivery's.                             *)
(*  - The journal is a set of events; their sequence orders them.          *)
(*  - A call and its answer are one action, which may lose the answer;     *)
(*    an answer is never overtaken by another call of the same reading     *)
(*    (Reading.lock).                                                      *)
(*  - A backend process reads the session at most once at a time; a stale  *)
(*    answer it met while it was relaunching the runner itself is met as   *)
(*    any other.                                                           *)
(***************************************************************************)
EXTENDS Integers, Sequences, FiniteSets

CONSTANTS
  Backends,   \* backend processes that may read the seat
  Page,       \* Outbox.PAGE
  MaxEpoch,   \* bound: registrations issued
  MaxProc,    \* bound: agent processes started on this state directory
  MaxSeq,     \* bound: events journaled
  MaxFaults   \* bound: lost answers, refused events, backend crashes

ASSUME PageAssumption  == Page \in Nat \ {0}
ASSUME BoundAssumption == MaxEpoch \in Nat /\ MaxProc \in Nat /\ MaxSeq \in Nat
                          /\ MaxFaults \in Nat

VARIABLES
  \* --- the runner's journal, on the session host's disk
  journal,       \* the outbox: events not acknowledged
  seq,           \* the last sequence drawn (AUTOINCREMENT: never reused)
  live_launch,   \* LIVE_LAUNCH: the process whose exit is not reported; 0 none
  live_epoch,    \* LIVE_EPOCH: what it is registered under; 0 for ""
  \* --- the runner
  up,            \* "down", "alive", or "ending": lingering after its process
  process,       \* the agent process it runs, numbered
  epoch,         \* Outbox.epoch, 0 until registered
  working,       \* Runner.working
  run,           \* Runner.run, <<epoch, seq>>; <<0, 0>> for None
  \* --- the seat in the database: SessionState, SessionOffset
  worker_epoch, worker_status, session_run, applied_seq, projected_seq,
  \* --- a backend process
  registering,   \* the epoch it issued and is handing over, 0 for None
  launched,      \* launched.epoch of the session it reads, 0 when it reads none
  acked,         \* Reading.acked
  events,        \* what the last answer brought and is not done with
  following,     \* the registration its first event was applied under, 0 while
                 \* that is not applied
  \* --- observed
  effects,       \* the events whose effects were applied, in that order
  followed,      \* those followed through
  ended,         \* <<process, holder>>: exits that ended the session
  holder,        \* the process last registered under each epoch, 0 none
  cut,           \* the runs, by their first event, killed in the middle
  faults

runnerVars  == <<journal, seq, live_launch, live_epoch, up, process, epoch, working, run>>
seatVars    == <<worker_epoch, worker_status, session_run, applied_seq, projected_seq>>
readingVars == <<launched, acked, events, following>>
appliedVars == <<effects, followed, ended>>
vars == <<runnerVars, seatVars, registering, readingVars, appliedVars, holder, cut, faults>>

NEVER_REGISTERED == -1
Epochs == {NEVER_REGISTERED} \cup 0 .. MaxEpoch
NoRun  == <<0, 0>>

Event == [seq : 1 .. MaxSeq, epoch : Epochs, kind : {"running", "idle", "exited"},
          of : 1 .. MaxProc]

TypeOK ==
  /\ journal \in SUBSET Event
  /\ seq \in 0 .. MaxSeq
  /\ live_launch \in 0 .. MaxProc
  /\ live_epoch \in 0 .. MaxEpoch
  /\ up \in {"down", "alive", "ending"}
  /\ process \in 0 .. MaxProc
  /\ epoch \in 0 .. MaxEpoch
  /\ working \in BOOLEAN
  /\ run \in (0 .. MaxEpoch) \X (0 .. MaxSeq)
  /\ worker_epoch \in 0 .. MaxEpoch
  /\ worker_status \in {"idle", "running"}
  /\ session_run \in Epochs \X (0 .. MaxSeq)
  /\ applied_seq \in [Epochs -> 0 .. MaxSeq]
  /\ projected_seq \in [Epochs -> 0 .. MaxSeq]
  /\ registering \in [Backends -> 0 .. MaxEpoch]
  /\ launched \in [Backends -> 0 .. MaxEpoch]
  /\ acked \in [Backends -> 0 .. MaxSeq]
  /\ events \in [Backends -> SUBSET Event]
  /\ \A b \in Backends : Cardinality(events[b]) <= Page
  /\ following \in [Backends -> 0 .. MaxEpoch]
  /\ effects \in Seq(1 .. MaxSeq)
  /\ followed \in SUBSET (1 .. MaxSeq)
  /\ ended \in SUBSET ((1 .. MaxProc) \X (0 .. MaxProc))
  /\ holder \in [1 .. MaxEpoch -> 0 .. MaxProc]
  /\ cut \in SUBSET (1 .. MaxSeq)
  /\ faults \in 0 .. MaxFaults

Init ==
  /\ journal = {} /\ seq = 0 /\ live_launch = 0 /\ live_epoch = 0
  /\ up = "down" /\ process = 0 /\ epoch = 0 /\ working = FALSE /\ run = NoRun
  /\ worker_epoch = 0 /\ worker_status = "idle" /\ session_run = NoRun
  /\ applied_seq = [e \in Epochs |-> 0]
  /\ projected_seq = [e \in Epochs |-> 0]
  /\ registering = [b \in Backends |-> 0]
  /\ launched = [b \in Backends |-> 0]
  /\ acked = [b \in Backends |-> 0]
  /\ events = [b \in Backends |-> {}]
  /\ following = [b \in Backends |-> 0]
  /\ effects = <<>> /\ followed = {} /\ ended = {}
  /\ holder = [e \in 1 .. MaxEpoch |-> 0]
  /\ cut = {}
  /\ faults = 0

Fault == /\ faults < MaxFaults
         /\ faults' = faults + 1

-------------------------------------------------------------------------------
(* The runner.                                                             *)

\* Outbox.emit, of the event `n` places after the last.
Emitted(n, kind, of, under) ==
  [seq |-> seq + n, epoch |-> under, kind |-> kind, of |-> of]

\* Mutant of LeftUnder: the earlier process's ending reported as the runner's.
LeftUnderOwn == 0

\* _report_left_exit: what the ending of a process that died with its runner
\* is reported under.
LeftUnder == IF live_epoch = 0 THEN NEVER_REGISTERED ELSE live_epoch

\* start: the ending the runner before left unreported, then a process of its
\* own; or the runner dies between the two.
Start ==
  LET left == IF live_launch = 0 THEN {}
              ELSE {Emitted(1, "exited", live_launch, LeftUnder)}
      n    == Cardinality(left) IN
  /\ up = "down"
  /\ process < MaxProc
  /\ seq + n <= MaxSeq
  /\ journal' = journal \cup left
  /\ seq' = seq + n
  /\ \/ /\ up' = "alive"
        /\ process' = process + 1
        /\ live_launch' = process + 1
     \/ /\ live_launch' = 0
        /\ UNCHANGED <<up, process>>
     \/ UNCHANGED <<live_launch, up, process>>
  /\ live_epoch' = IF live_launch' = live_launch THEN live_epoch ELSE 0
  /\ epoch' = 0 /\ run' = NoRun
  /\ working' = FALSE
  /\ UNCHANGED <<seatVars, registering, readingVars, appliedVars, holder, faults, cut>>

\* _open: the session starts working, on an input or of its own accord.
Open ==
  /\ up = "alive" /\ ~working
  /\ seq < MaxSeq
  /\ journal' = journal \cup {Emitted(1, "running", process, epoch)}
  /\ seq' = seq + 1
  /\ working' = TRUE
  /\ run' = <<epoch, seq + 1>>
  /\ UNCHANGED <<live_launch, live_epoch, up, process, epoch, seatVars,
                 registering, readingVars, appliedVars, holder, faults, cut>>

\* _finish: the work ended.
Finish ==
  /\ up = "alive" /\ working
  /\ seq < MaxSeq
  /\ journal' = journal \cup {Emitted(1, "idle", process, epoch)}
  /\ seq' = seq + 1
  /\ working' = FALSE
  /\ UNCHANGED <<live_launch, live_epoch, up, process, epoch, run, seatVars,
                 registering, readingVars, appliedVars, holder, faults, cut>>

\* _report_exit, on the agent process's own ending or the runner's close: the
\* work it was in the middle of failed, and it exited. The runner lingers, or
\* is killed before it forgot that this exit was its to report.
ReportExit ==
  LET n == IF working THEN 2 ELSE 1 IN
  /\ up = "alive"
  /\ seq + n <= MaxSeq
  /\ journal' = journal \cup {Emitted(n, "exited", process, epoch)}
                        \cup {Emitted(1, "idle", process, epoch) : i \in 1 .. n - 1}
  /\ seq' = seq + n
  /\ working' = FALSE
  /\ \/ /\ up' = "ending"
        /\ live_launch' = 0 /\ live_epoch' = 0
        /\ UNCHANGED <<epoch, run>>
     \/ /\ up' = "down"
        /\ epoch' = 0 /\ run' = NoRun
        /\ UNCHANGED <<live_launch, live_epoch>>
  /\ UNCHANGED <<process, seatVars, registering, readingVars, appliedVars,
                 holder, faults, cut>>

\* linger is over: every event taken, nobody to wait for, or LINGER_S passed.
LingerEnds ==
  /\ up = "ending"
  /\ up' = "down"
  /\ epoch' = 0 /\ run' = NoRun
  /\ UNCHANGED <<journal, seq, live_launch, live_epoch, process, working,
                 seatVars, registering, readingVars, appliedVars, holder, faults, cut>>

\* The runner and its process are killed together.
Killed ==
  /\ up = "alive"
  /\ up' = "down"
  /\ epoch' = 0 /\ run' = NoRun
  /\ working' = FALSE
  /\ cut' = IF working THEN cut \cup {run[2]} ELSE cut
  /\ UNCHANGED <<journal, seq, live_launch, live_epoch, process, seatVars,
                 registering, readingVars, appliedVars, holder, faults>>

-------------------------------------------------------------------------------
(* Registration: the epoch is issued, then handed to the runner.           *)

\* session_state.register, by the backend that started the session or found it
\* running (start, attach).
Register(b) ==
  /\ registering[b] = 0
  /\ up = "alive"
  /\ worker_epoch < MaxEpoch
  /\ worker_epoch' = worker_epoch + 1
  /\ registering' = [registering EXCEPT ![b] = worker_epoch + 1]
  /\ UNCHANGED <<runnerVars, worker_status, session_run, applied_seq,
                 projected_seq, readingVars, appliedVars, holder, faults, cut>>

\* Mutant of Restamped: what was written before any registration stays so.
RestampedNone(e) == journal

\* Outbox.register: what was written before any registration takes this one.
Restamped(e) ==
  {[x EXCEPT !.epoch = IF @ = 0 THEN e ELSE @] : x \in journal}

\* Mutant of RunUnder: the run keeps the name it had before registration.
RunUnnamed(e) == run

\* dispatch "register": so does the run begun before any registration.
RunUnder(e) == IF run # NoRun /\ run[1] = 0 THEN <<e, run[2]>> ELSE run

\* Outbox.register: an older registration than the runner's is refused.
Refuses(e) == e < epoch

\* dispatch "register": the runner takes the epoch; the answer may be lost.
HandOver(b) ==
  LET e == registering[b] IN
  /\ e # 0
  /\ up # "down" /\ ~Refuses(e)
  /\ epoch' = e
  /\ journal' = Restamped(e)
  /\ run' = RunUnder(e)
  /\ live_epoch' = IF live_launch = process THEN e ELSE live_epoch
  /\ holder' = [holder EXCEPT ![e] = process]
  /\ registering' = [registering EXCEPT ![b] = 0]
  /\ \/ launched' = [launched EXCEPT ![b] = e] /\ UNCHANGED faults
     \/ Fault /\ UNCHANGED launched
  /\ UNCHANGED <<seq, live_launch, up, process, working, seatVars,
                 acked, events, following, appliedVars, cut>>

\* The runner refused, or was not there to be asked.
HandOverFails(b) ==
  /\ registering[b] # 0
  /\ up = "down" \/ Refuses(registering[b])
  /\ registering' = [registering EXCEPT ![b] = 0]
  /\ UNCHANGED <<runnerVars, seatVars, readingVars, appliedVars, holder, faults, cut>>

-------------------------------------------------------------------------------
(* Reading: a pass asks for the events past what was applied, and applies  *)
(* and follows each in order.                                              *)

\* Mutant of PageOf: one event more than a page.
PageLonger(j) ==
  {x \in j : Cardinality({y \in j : y.epoch # 0 /\ y.seq < x.seq}) <= Page
             /\ x.epoch # 0}

\* Outbox.pending: the earliest events some registration owns.
PageOf(j) ==
  {x \in j : Cardinality({y \in j : y.epoch # 0 /\ y.seq < x.seq}) < Page
             /\ x.epoch # 0}

\* Outbox.ack.
Unacked(through) == {x \in journal : x.seq > through}

\* The runner answers a call that carries its own epoch.
Answers(b) == up # "down" /\ epoch = launched[b]

\* Reading.drain, what it asks: the runner forgets what was acknowledged and
\* hands over what is left, from the start; the answer may be lost.
Drain(b) ==
  /\ launched[b] # 0 /\ events[b] = {} /\ Answers(b)
  /\ journal' = Unacked(acked[b])
  /\ events' = [events EXCEPT ![b] = PageOf(journal')]
  /\ events' # events \/ journal' # journal
  /\ UNCHANGED <<seq, live_launch, live_epoch, up, process, epoch, working, run,
                 seatVars, registering, launched, acked, following,
                 appliedVars, holder, faults, cut>>
DrainLost(b) ==
  /\ launched[b] # 0 /\ events[b] = {} /\ Answers(b)
  /\ Fault
  /\ journal' = Unacked(acked[b])
  /\ UNCHANGED <<seq, live_launch, live_epoch, up, process, epoch, working, run,
                 seatVars, registering, readingVars, appliedVars, holder, cut>>

\* _forget: this process reads the session no more.
Forget(b) ==
  /\ launched' = [launched EXCEPT ![b] = 0]
  /\ acked' = [acked EXCEPT ![b] = 0]
  /\ events' = [events EXCEPT ![b] = {}]
  /\ following' = [following EXCEPT ![b] = 0]

\* _ours: a refusal while it is registering anew itself is asked again.
Ours(b) == registering[b] # 0

\* The runner refuses the epoch this reading carries: superseded.
Superseded(b) ==
  /\ launched[b] # 0 /\ events[b] = {}
  /\ up # "down" /\ ~Answers(b) /\ ~Ours(b)
  /\ Forget(b)
  /\ UNCHANGED <<runnerVars, seatVars, registering, appliedVars, holder, faults, cut>>

First(b) == CHOOSE x \in events[b] : \A y \in events[b] : x.seq <= y.seq

\* Mutant of Claimed: the position itself counts as not applied.
ClaimedAgain(x) ==
  IF applied_seq[x.epoch] <= x.seq THEN "new"
  ELSE IF projected_seq[x.epoch] < x.seq THEN "unprojected" ELSE "done"

\* take, once the delivering epoch is the current one: what delivering the
\* event asks for.
Claimed(x) ==
  IF applied_seq[x.epoch] < x.seq THEN "new"
  ELSE IF projected_seq[x.epoch] < x.seq THEN "unprojected" ELSE "done"

\* exited: the exit of the seat's current registration.
Ends(x) == x.kind = "exited" /\ x.epoch = worker_epoch

\* The effects of an event, in the transaction that claimed it: declare,
\* run_started, exited.
Effects(x) ==
  /\ worker_status' = IF x.kind = "running" THEN "running"
                      ELSE IF x.kind = "idle" \/ Ends(x) THEN "idle"
                      ELSE worker_status
  /\ session_run' = IF x.kind = "running" THEN <<x.epoch, x.seq>> ELSE session_run
  /\ ended' = IF Ends(x) THEN ended \cup {<<x.of, holder[worker_epoch]>>} ELSE ended
  /\ effects' = Append(effects, x.seq)

\* Mutant of Through: the whole answer is acknowledged with its first event.
ThroughPage(b, x) == seq

\* Reading.drain, after an event was handed on: the next read acknowledges it.
Through(b, x) == x.seq

\* Hands on the event `x`, delivered under the registration `under`. The exit of
\* the process this reading registered ends it: what it applied is acknowledged
\* on the way out, if the runner still answers.
HandOn(b, x, under) ==
  IF x.kind = "exited" /\ x.epoch = under
  THEN /\ Forget(b)
       /\ journal' \in {journal} \cup (IF Answers(b) THEN {Unacked(x.seq)} ELSE {})
  ELSE /\ acked' = [acked EXCEPT ![b] = Through(b, x)]
       /\ events' = [events EXCEPT ![b] = @ \ {x}]
       /\ following' = [following EXCEPT ![b] = 0]
       /\ UNCHANGED <<launched, journal>>

\* runner_reports.apply: the event's transaction, under the seat's row. The
\* seat's registration is still the one that delivers it.
Apply(b) ==
  LET x == First(b) IN
  /\ events[b] # {} /\ following[b] = 0
  /\ launched[b] = worker_epoch
  /\ IF Claimed(x) = "new"
     THEN /\ Effects(x)
          /\ applied_seq' = [applied_seq EXCEPT ![x.epoch] = x.seq]
     ELSE UNCHANGED <<worker_status, session_run, ended, effects, applied_seq>>
  /\ IF Claimed(x) = "done"
     THEN HandOn(b, x, launched[b])
     ELSE /\ following' = [following EXCEPT ![b] = launched[b]]
          /\ UNCHANGED <<launched, acked, events, journal>>
  /\ UNCHANGED <<seq, live_launch, live_epoch, up, process, epoch, working, run,
                 worker_epoch, projected_seq, registering, followed, holder, faults, cut>>

\* take refuses the event: the seat is registered to another.
ApplyStale(b) ==
  /\ events[b] # {} /\ following[b] = 0
  /\ launched[b] # worker_epoch
  /\ IF Ours(b)
     THEN /\ events' = [events EXCEPT ![b] = {}]
          /\ UNCHANGED <<launched, acked, following>>
     ELSE Forget(b)
  /\ UNCHANGED <<runnerVars, seatVars, registering, appliedVars, holder, faults, cut>>

\* _report: the room's books are kept, then the event is marked followed
\* through (session_state.projected, which no registration guards).
Follow(b) ==
  LET x == First(b) IN
  /\ following[b] # 0
  /\ projected_seq' = [projected_seq EXCEPT ![x.epoch] = IF @ < x.seq THEN x.seq ELSE @]
  /\ followed' = followed \cup {x.seq}
  /\ HandOn(b, x, following[b])
  /\ UNCHANGED <<seq, live_launch, live_epoch, up, process, epoch, working, run,
                 worker_epoch, worker_status, session_run, applied_seq, registering,
                 effects, ended, holder, faults, cut>>

\* What the reader refused is not acknowledged, nor what came after it: both
\* are handed over again.
Refused(b) ==
  /\ events[b] # {}
  /\ Fault
  /\ events' = [events EXCEPT ![b] = {}]
  /\ following' = [following EXCEPT ![b] = 0]
  /\ UNCHANGED <<runnerVars, seatVars, registering, launched, acked, appliedVars,
                 holder, cut>>

\* The backend process dies, or hands its work to another (stop_listening).
Crash(b) ==
  /\ launched[b] # 0 \/ registering[b] # 0
  /\ Fault
  /\ registering' = [registering EXCEPT ![b] = 0]
  /\ Forget(b)
  /\ UNCHANGED <<runnerVars, seatVars, appliedVars, holder, cut>>

-------------------------------------------------------------------------------
Runner == Start \/ Open \/ Finish \/ ReportExit \/ LingerEnds \/ Killed

Next ==
  \/ Runner
  \/ \E b \in Backends : \/ Register(b) \/ HandOver(b) \/ HandOverFails(b)
                         \/ Drain(b) \/ DrainLost(b) \/ Superseded(b)
                         \/ Apply(b) \/ ApplyStale(b) \/ Follow(b)
                         \/ Refused(b) \/ Crash(b)

Spec == Init /\ [][Next]_vars

-------------------------------------------------------------------------------
(* What the protocol promises.                                             *)

\* Every event takes effect exactly once, in the order the runner wrote them
\* and with none passed over, however often it is delivered, by whichever
\* backend and under whichever registration (lifecycle.py:35-41, take).
AppliedOnceInOrder == \A i \in DOMAIN effects : effects[i] = i

\* An event leaves the runner's journal only once its effects are committed and
\* all that follows from it was done (Outbox.ack against drain and _report).
NothingLost ==
  \A s \in 1 .. seq : \/ \E x \in journal : x.seq = s
                      \/ s \in followed

\* Registrations, backends and their failures come to what EventsOnce says: an
\* event takes effect after all before it did, is followed through after it took
\* effect, in the same order, and leaves the journal after that (take, projected,
\* Outbox.ack).
Once == INSTANCE EventsOnce
          WITH written <- seq, kept <- {x.seq : x \in journal}, done <- followed
HeardOnce == Once!Spec

\* Once every event took effect, the platform and the runner agree on whether
\* the session works and in which run: the identity the runner names a platform
\* tool call's run by is the one recorded (run_started, dispatch "run"), across
\* registrations and the renaming of what was written before one. The seat says
\* running of no other run than the one going on, but for one that was killed with
\* its runner: the next runner reports its process's exit under the registration
\* it had, the seat has a newer one by then, and exited changes nothing, so the
\* seat says running of it until a new run begins, though nobody works.
RunsAgree ==
  Len(effects) = seq
    => /\ up = "alive" /\ run # NoRun
            => session_run = run /\ (working <=> worker_status = "running")
       /\ worker_status = "running"
            => (up = "alive" /\ working) \/ session_run[2] \in cut

\* The exit of a process that was registered ends the session of no other: one
\* that a newer registration replaced leaves that one's session alone
\* (session_state.exited).
ExitOfRegistered ==
  \A x \in ended : (\E e \in 1 .. MaxEpoch : holder[e] = x[1]) => x[1] = x[2]

\* "one about an earlier process (its ending, reported for it) carries that
\* process's epoch, or NEVER_REGISTERED, and is never restamped"
\* (lifecycle.py:160-164): no exit ends the session of another process.
ExitEndsItsOwnSession == \A x \in ended : x[1] = x[2]

-------------------------------------------------------------------------------
(* Why it holds: what the journal, the answers under way, the seat and the *)
(* registrations know of one another.                                      *)

\* The events somebody still has: the runner, or a backend in an answer.
Known == journal \cup UNION {events[b] : b \in Backends}

\* A sequence names one event, with one stamp, wherever it is met; and only an
\* event whose effects nobody applied has no registration yet.
Written ==
  /\ Len(effects) <= seq
  /\ \A x \in Known : x.seq <= seq
  /\ \A x, y \in Known : x.seq = y.seq => x = y
  /\ \A b \in Backends : \A x \in events[b] : x.epoch # 0
  /\ \A x \in journal : x.epoch = 0 => epoch = 0 /\ Len(effects) < x.seq

\* The seat's positions tell which of the events still met took effect.
PositionsTell ==
  /\ \A e \in Epochs : applied_seq[e] <= Len(effects)
  /\ \A x \in Known : x.seq <= Len(effects) => x.seq <= applied_seq[x.epoch]

\* What a backend has of the session goes on where what is done with ends, and
\* what it is at the following of took effect.
ReadsOn(b) ==
  /\ 1 .. acked[b] \subseteq followed
  /\ \A x \in events[b] : \A s \in 1 .. x.seq :
       s \in followed \/ \E y \in events[b] : y.seq = s
  /\ following[b] # 0 => events[b] # {} /\ First(b).seq <= Len(effects)

\* What is done with is a beginning of what took effect, and whoever has a
\* position past it, or reads on, passes over nothing.
DoneWith ==
  /\ \A s \in followed : s <= Len(effects) /\ 1 .. s \subseteq followed
  /\ \A e \in Epochs : 1 .. projected_seq[e] \subseteq followed
  /\ \A b \in Backends : ReadsOn(b)

\* A registration is of one process, and of the runner's own while it is up.
HoldersKnown ==
  /\ \A b, c \in Backends : registering[b] = registering[c] /\ b # c => registering[b] = 0
  /\ \A b \in Backends : /\ registering[b] <= worker_epoch
                         /\ registering[b] # 0 => holder[registering[b]] = 0
  /\ \A e \in 1 .. MaxEpoch : /\ holder[e] <= process
                              /\ worker_epoch < e => holder[e] = 0
                              /\ epoch = 0 /\ up # "down" => holder[e] # process
  /\ up = "down" => epoch = 0
  /\ up # "down" => process # 0
  /\ epoch # 0 => holder[epoch] = process
  /\ live_launch <= process
  /\ up = "alive" => live_launch = process
  /\ up = "ending" => live_launch = 0
  /\ live_epoch # 0 => live_launch # 0 /\ holder[live_epoch] = live_launch

\* A process that ended and was never registered; nor will it be.
Unheld(p) ==
  /\ p < process \/ (p = process /\ up = "down")
  /\ \A e \in 1 .. MaxEpoch : holder[e] # p

\* An exit is stamped with its own process's registration, or its process never
\* had one.
OfHolder(x) ==
  \/ Unheld(x.of)
  \/ x.epoch = NEVER_REGISTERED
  \/ x.epoch = 0 /\ x.of = process /\ up # "down"
  \/ x.epoch \in 1 .. MaxEpoch /\ x.of = holder[x.epoch]

ExitsOfHolders ==
  /\ \A x \in Known : x.kind = "exited" => OfHolder(x)
  /\ \A x \in ended : x[1] = x[2] \/ Unheld(x[1])

\* The run under way is the last thing journaled, or all but its end, and the
\* seat has heard as much of it as took effect.
RunHeard ==
  /\ run[2] # 0
  /\ working => seq = run[2]
  /\ ~working => seq = run[2] + 1
  /\ run[1] = 0 => (epoch = 0 /\ Len(effects) < run[2])
  /\ \A x \in Known : /\ x.seq = run[2] => (x.kind = "running" /\ x.epoch = run[1])
                      /\ x.seq > run[2] => x.kind = "idle"
  /\ run[2] <= Len(effects) =>
       /\ session_run = run
       /\ worker_status = IF Len(effects) = run[2] THEN "running" ELSE "idle"

RunNamed == up = "alive" /\ run # NoRun => RunHeard

\* The run begun with the event `r` goes on, or its end was written next to it.
Continues(r) ==
  \/ working /\ run[2] = r /\ seq = r
  \/ r < seq /\ \A x \in Known : x.seq = r + 1 => x.kind = "idle"

\* Only a run that was killed in the middle has no end the seat will hear of, and
\* of any other the seat says running only until the event after its first.
RunsEnd ==
  /\ working => up = "alive" /\ run # NoRun
  /\ \A x \in Known : x.kind = "running" => x.seq \in cut \/ Continues(x.seq)
  /\ worker_status = "running" =>
       \/ session_run[2] \in cut
       \/ Len(effects) = session_run[2] /\ Continues(session_run[2])

\* What every step keeps of it, on which the promises above rest
\* (SessionReportsProofs).
Inductive ==
  /\ AppliedOnceInOrder /\ NothingLost
  /\ Written /\ PositionsTell /\ DoneWith
  /\ HoldersKnown /\ ExitsOfHolders
  /\ RunNamed /\ RunsEnd

===============================================================================
