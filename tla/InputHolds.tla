------------------------------- MODULE InputHolds -------------------------------
(***************************************************************************)
(* The messages of one conversation and the inputs that carry them to one  *)
(* seat's session. An input is registered with the blocks it holds, handed *)
(* to the session's runner and, if all goes well, read. Until the platform *)
(* knows it was read, or knows it never will be, its blocks are offered to *)
(* nobody else: this module is about that knowledge.                       *)
(*                                                                         *)
(* Source: domain/delivery/receipts.py, input_holds.py, agent.py;          *)
(* domain/agent/initial_admission.py, turn/intake/preparation/assembly.py, *)
(* turn/store/completion.py, room/sessions/speaking.py,                    *)
(* session_host/speaking.py, runner_reports.py, turn_inputs.py,            *)
(* harness/driven/runner.py, harness/claude_code/runner.py.                *)
(*                                                                         *)
(* Simplifications.                                                        *)
(*  - One seat, every block addressed to it. Blocks are numbered in the    *)
(*    order of the timeline, so the read cursor is a number.               *)
(*  - Reports are applied once, in the order of the runner's journal:      *)
(*    SessionReports shows how. Starting a process and registering it is   *)
(*    one step here, as is a backend that dies and the one that takes its  *)
(*    sessions up again.                                                   *)
(*  - The instruction an input may carry is AgentDelivery's.               *)
(*  - `hand_to` and the call it precedes are one step, and so are the two  *)
(*    transactions of `_died`.                                             *)
(*  - A message put into a working session is the newest one. A machine is *)
(*    not destroyed and no seat moves to another.                          *)
(***************************************************************************)
EXTENDS Integers, Sequences, FiniteSetsExt, SequencesExt

CONSTANTS
  MaxBlock,   \* bound: messages posted
  MaxInput,   \* bound: inputs registered
  MaxEpoch,   \* bound: registrations of the seat's runner
  MaxFault    \* bound: kills, calls cut off, backend crashes

ASSUME BoundAssumption == /\ MaxBlock \in Nat /\ MaxInput \in Nat
                          /\ MaxEpoch \in Nat /\ MaxFault \in Nat

Block == 1 .. MaxBlock
Input == 1 .. MaxInput
Epoch == 0 .. MaxEpoch

VARIABLES
  \* --- the conversation
  posted,      \* the blocks are 1 .. posted
  cursor,      \* AgentRead.read_through: the seat has read up to here
  \* --- the platform's records
  drawn,       \* input ids drawn so far
  rows,        \* NativeInput, by input id
  turns,       \* agent_turns of the inputs that opened one
  worker_epoch,\* SessionState.worker_epoch of the seat
  \* --- the backend process
  seat,        \* RoomSessions.work and .clocks of the seat: the work it is
               \* in (0 for none), and whether it was heard to run
  assembled,   \* works whose read position this process keeps (read_through)
  sender,      \* the initial turn on its way, under the seat's lease
  steer,       \* a message on its way into the working session
  \* --- the session host
  live,        \* the agent process, registered under worker_epoch: whether
               \* it is up, and the work it is in (0 for none)
  left,        \* LIVE_EPOCH of a process whose ending is unreported; 0 none
  journal,     \* inputs the runner has begun
  unread,      \* UNREAD_INPUTS: put in and not known to be read
  out,         \* reports journaled and not yet applied
  faults

convVars     == <<posted, cursor>>
recordVars   == <<drawn, rows, turns, worker_epoch>>
callVars     == <<sender, steer>>
backendVars  == <<seat, assembled, callVars>>
runnerVars   == <<live, left, journal, unread, out>>
vars == <<convVars, recordVars, backendVars, runnerVars, faults>>

Row == [own : BOOLEAN, work : Input, batch : SUBSET Block, first : Epoch, handed : Epoch,
        accepted : BOOLEAN, echoed : BOOLEAN, inside : 0 .. MaxInput,
        terminated : BOOLEAN, released : BOOLEAN, receiver_exited : BOOLEAN]

NoWork == [work |-> 0, running |-> FALSE]

Idle == [pc |-> "idle", input |-> 0, batch |-> {}, epoch |-> 0]

Sending == [pc : {"idle", "checked", "assembled", "first", "failed", "again"},
            input : 0 .. MaxInput, batch : SUBSET Block, epoch : Epoch]

Report == [kind : {"written", "read", "dropped", "idle", "exited"},
           input : 0 .. MaxInput, inside : 0 .. MaxInput, epoch : Epoch]

TypeOK ==
  /\ posted \in 0 .. MaxBlock
  /\ cursor \in 0 .. posted
  /\ drawn \in 0 .. MaxInput
  /\ DOMAIN rows \subseteq 1 .. drawn
  /\ \A i \in DOMAIN rows : rows[i] \in Row
  /\ turns \in [Input -> {"none", "open", "stopped"}]
  /\ worker_epoch \in Epoch
  /\ seat \in [work : 0 .. MaxInput, running : BOOLEAN]
  /\ assembled \in SUBSET Input
  /\ sender \in Sending
  /\ steer \in Sending
  /\ live \in [up : BOOLEAN, work : 0 .. MaxInput]
  /\ left \in Epoch
  /\ journal \in SUBSET Input
  /\ unread \in SUBSET journal
  /\ out \in Seq(Report)
  /\ faults \in 0 .. MaxFault

Init ==
  /\ posted = 0 /\ cursor = 0
  /\ drawn = 0 /\ rows = <<>> /\ turns = [i \in Input |-> "none"]
  /\ worker_epoch = 0
  /\ seat = NoWork /\ assembled = {}
  /\ sender = Idle /\ steer = Idle
  /\ live = [up |-> FALSE, work |-> 0] /\ left = 0
  /\ journal = {} /\ unread = {} /\ out = <<>>
  /\ faults = 0

Fault == /\ faults < MaxFault
         /\ faults' = faults + 1

-------------------------------------------------------------------------------
(* What the records say.                                                   *)

Unread(r) == ~r.echoed /\ ~r.terminated

\* unread_input_with_over_work: nothing will report this input any more.
OverWork(r) == /\ ~r.echoed
               /\ \/ r.own /\ turns[r.work] = "stopped"
                  \/ r.receiver_exited

\* seats_with_unfinished_input: the input refuses its seat every later one.
HoldsSeat(r) == Unread(r) /\ ~OverWork(r)

HoldsBatch(r) == ~r.released /\ ~OverWork(r)

held_blocks == UNION {rows[i].batch : i \in {j \in DOMAIN rows : HoldsBatch(rows[j])}}

seat_has_unfinished_input == \E i \in DOMAIN rows : HoldsSeat(rows[i])

\* _read_window less what is held.
Pending == (cursor + 1 .. posted) \ held_blocks

\* Mutant of hand_to: the exit of the process before is not cleared.
hand_to_NotCleared(rs, i, e) ==
  IF i \in DOMAIN rs /\ Unread(rs[i]) /\ rs[i].handed < e
  THEN [rs EXCEPT ![i].handed = e] ELSE rs

\* hand_to: the input is with the process of this epoch now, and the exit of
\* one before says nothing of it.
hand_to(rs, i, e) ==
  IF i \in DOMAIN rs /\ Unread(rs[i]) /\ rs[i].handed < e
  THEN [rs EXCEPT ![i].handed = e, ![i].receiver_exited = FALSE] ELSE rs

\* Mutant of NewRow: registered for the process to come.
NewRow_NextEpoch(own, work, batch) ==
  [own |-> own, work |-> work, batch |-> batch,
   first |-> worker_epoch + 1, handed |-> worker_epoch + 1,
   accepted |-> FALSE, echoed |-> FALSE, inside |-> 0, terminated |-> FALSE,
   released |-> FALSE, receiver_exited |-> FALSE]

\* The row as it is registered, handed to the process that is there.
NewRow(own, work, batch) ==
  [own |-> own, work |-> work, batch |-> batch,
   first |-> worker_epoch, handed |-> worker_epoch,
   accepted |-> FALSE, echoed |-> FALSE, inside |-> 0, terminated |-> FALSE,
   released |-> FALSE, receiver_exited |-> FALSE]

\* register_input: nothing, or the row of a new input.
register_input(own, work, batch) ==
  /\ drawn < MaxInput
  /\ held_blocks \cap batch = {}
  /\ drawn' = drawn + 1
  /\ rows' = [i \in DOMAIN rows \cup {drawn + 1} |->
                IF i = drawn + 1 THEN NewRow(own, work, batch) ELSE rows[i]]

\* Mutant of drop_input: only what was not acknowledged is given back.
drop_input_Unaccepted(rs, i) ==
  IF i \in DOMAIN rs /\ Unread(rs[i]) /\ ~rs[i].accepted
  THEN [rs EXCEPT ![i].terminated = TRUE, ![i].released = TRUE] ELSE rs

\* drop_input, where the input has no outcome yet.
drop_input(rs, i) ==
  IF i \in DOMAIN rs /\ Unread(rs[i])
  THEN [rs EXCEPT ![i].terminated = TRUE, ![i].released = TRUE] ELSE rs

\* record_receipt with native_echo: read, consumed and released, whatever the
\* platform had given the input up for meanwhile.
record_echo(rs, i, w) ==
  IF i \in DOMAIN rs
  THEN [rs EXCEPT ![i].echoed = TRUE, ![i].released = TRUE, ![i].inside = w] ELSE rs

\* record_receipt with accepted: the session has the input, read or not.
record_accepted(rs, i) ==
  IF i \in DOMAIN rs THEN [rs EXCEPT ![i].accepted = TRUE] ELSE rs

\* The process of this epoch is gone: what it was last handed, it never reads.
receiver_exited(rs, e) ==
  [i \in DOMAIN rs |->
     [rs[i] EXCEPT !.receiver_exited = @ \/ (Unread(rs[i]) /\ rs[i].handed = e)]]

\* terminate_inputs_of_dead_works: given up, the hold left as it is.
terminate_inputs_of_dead_works(rs, w) ==
  [i \in DOMAIN rs |->
     [rs[i] EXCEPT !.terminated = @ \/ (Unread(rs[i]) /\ rs[i].work = w)]]

\* withdraw_input: only a row the session has not answered for goes.
withdraw_input(rs, i) ==
  IF i \in DOMAIN rs /\ Unread(rs[i]) /\ ~rs[i].accepted
  THEN [j \in DOMAIN rs \ {i} |-> rs[j]] ELSE rs

-------------------------------------------------------------------------------
(* The session host: runner and agent process.                             *)

Said(kind, i, w, e) == [kind |-> kind, input |-> i, inside |-> w, epoch |-> e]

Dropped(is, e) == [n \in 1 .. Cardinality(is) |-> Said("dropped", SetToSeq(is)[n], 0, e)]

\* _report_exit: what is unread, the work in hand, then the exit itself.
Ending(is, w, e) ==
  Dropped(is, e) \o (IF w = 0 THEN <<>> ELSE <<Said("idle", 0, w, e)>>)
                 \o <<Said("exited", 0, 0, e)>>

\* Mutant of accept: an input is known by what is still unread.
accept_Again(i) ==
  IF i \in unread
  THEN UNCHANGED <<journal, unread, out>>
  ELSE /\ journal' = journal \cup {i}
       /\ unread' = unread \cup {i}
       /\ out' = Append(out, Said("written", i, 0, worker_epoch))

\* Driven.accept of a call that carries the epoch of `live`.
accept(i) ==
  IF i \in journal
  THEN UNCHANGED <<journal, unread, out>>
  ELSE /\ journal' = journal \cup {i}
       /\ unread' = unread \cup {i}
       /\ out' = Append(out, Said("written", i, 0, worker_epoch))

\* The session takes an input: into the work in hand, or as work of its own.
Read(i) ==
  LET w == IF live.work # 0 THEN live.work ELSE i IN
  /\ live.up /\ i \in unread
  /\ unread' = unread \ {i}
  /\ live' = [live EXCEPT !.work = w]
  /\ out' = Append(out, Said("read", i, w, worker_epoch))
  /\ UNCHANGED <<convVars, recordVars, backendVars, left, journal, faults>>

\* Settled unread by the build, or by the watchdog: it will never be read.
Settle(i) ==
  /\ live.up /\ i \in unread
  /\ unread' = unread \ {i}
  /\ out' = Append(out, Said("dropped", i, 0, worker_epoch))
  /\ UNCHANGED <<convVars, recordVars, backendVars, live, left, journal, faults>>

Finish ==
  /\ live.up /\ live.work # 0
  /\ live' = [live EXCEPT !.work = 0]
  /\ out' = Append(out, Said("idle", 0, live.work, worker_epoch))
  /\ UNCHANGED <<convVars, recordVars, backendVars, left, journal, unread, faults>>

\* The agent process goes, let go idle or fallen over, and its runner reports it.
Exit ==
  /\ live.up
  /\ out' = out \o Ending(unread, live.work, worker_epoch)
  /\ unread' = {}
  /\ live' = [live EXCEPT !.up = FALSE, !.work = 0]
  /\ UNCHANGED <<convVars, recordVars, backendVars, left, journal, faults>>

\* Process and runner are killed: the next runner reports it.
Killed ==
  /\ Fault /\ live.up
  /\ left' = worker_epoch
  /\ live' = [live EXCEPT !.up = FALSE, !.work = 0]
  /\ UNCHANGED <<convVars, recordVars, backendVars, journal, unread, out>>

\* Mutant of start: the ending left behind is reported, and what was unread kept.
start_KeepsUnread ==
  /\ worker_epoch < MaxEpoch
  /\ worker_epoch' = worker_epoch + 1
  /\ live' = [live EXCEPT !.up = TRUE]
  /\ left' = 0
  /\ out' = IF left = 0 THEN out ELSE out \o Ending(unread, 0, left)
  /\ UNCHANGED unread

\* start: a process of its own registered under a new epoch, after the ending
\* of the one before (_report_left_exit); a runner that lives is registered anew.
start ==
  /\ worker_epoch < MaxEpoch
  /\ worker_epoch' = worker_epoch + 1
  /\ live' = [live EXCEPT !.up = TRUE]
  /\ left' = 0
  /\ IF left = 0 THEN UNCHANGED <<unread, out>>
     ELSE /\ out' = out \o Ending(unread, 0, left)
          /\ unread' = {}

-------------------------------------------------------------------------------
(* The backend: a call to the session.                                     *)

Reaches(s) == live.up /\ worker_epoch = s.epoch

\* A call of `_say` that some runner took.
Taken(s) ==
  /\ Reaches(s)
  /\ rows' = hand_to(rows, s.input, s.epoch)
  /\ accept(s.input)
  /\ UNCHANGED <<live, left>>

\* The runner began the input and was killed before it put it in.
Begun(s) ==
  /\ Fault
  /\ Reaches(s) /\ s.input \notin journal
  /\ rows' = hand_to(rows, s.input, s.epoch)
  /\ journal' = journal \cup {s.input}
  /\ left' = worker_epoch
  /\ live' = [live EXCEPT !.up = FALSE, !.work = 0]
  /\ UNCHANGED <<unread, out>>

\* No runner under this epoch, or the link is down.
NotTaken(s) ==
  /\ rows' = hand_to(rows, s.input, s.epoch)
  /\ UNCHANGED runnerVars

-------------------------------------------------------------------------------
(* The backend: an initial turn, from admission to its send.               *)

\* A participant says something.
Post ==
  /\ posted < MaxBlock
  /\ posted' = posted + 1
  /\ UNCHANGED <<cursor, recordVars, backendVars, runnerVars, faults>>

\* admitted_initial: under the seat's lease, and only when nothing is unread.
Admit ==
  /\ sender.pc = "idle"
  /\ Pending # {}
  /\ ~seat_has_unfinished_input
  /\ sender' = [Idle EXCEPT !.pc = "checked"]
  /\ UNCHANGED <<convVars, recordVars, seat, assembled, steer, runnerVars, faults>>

\* _assemble_turn: the prompt is what is pending now; with nothing, it bails.
Assemble ==
  /\ sender.pc = "checked"
  /\ sender' = IF Pending = {} THEN Idle
               ELSE [Idle EXCEPT !.pc = "assembled", !.batch = Pending]
  /\ UNCHANGED <<convVars, recordVars, seat, assembled, steer, runnerVars, faults>>

\* ensure: the session is started if it has to be, and the seat attached anew.
Ensure ==
  /\ sender.pc = "assembled" /\ ~live.up
  /\ start
  /\ seat' = NoWork
  /\ UNCHANGED <<convVars, drawn, rows, turns, assembled, callVars, journal, faults>>

\* The turn's interval opens and its input is registered, committed before it
\* is sent. The seat is in this work unless it runs another.
Register ==
  /\ sender.pc = "assembled" /\ live.up
  /\ register_input(TRUE, drawn + 1, sender.batch)
  /\ turns' = [turns EXCEPT ![drawn + 1] = "open"]
  /\ seat' = IF seat.running THEN seat ELSE [seat EXCEPT !.work = drawn + 1]
  /\ assembled' = assembled \cup {drawn + 1}
  /\ sender' = [sender EXCEPT !.pc = "first", !.input = drawn + 1, !.epoch = worker_epoch]
  /\ UNCHANGED <<convVars, worker_epoch, steer, runnerVars, faults>>

\* register_input refuses a batch that another input holds: no turn.
RegisterRefused ==
  /\ sender.pc = "assembled" /\ live.up
  /\ held_blocks \cap sender.batch # {}
  /\ sender' = Idle
  /\ UNCHANGED <<convVars, recordVars, seat, assembled, steer, runnerVars, faults>>

\* What the sender takes for "no runner took it" it tries once more.
Failed == IF sender.pc = "first" THEN [sender EXCEPT !.pc = "failed"] ELSE Idle

\* session_host.send: one call. An answer that does not come is an outcome
\* nobody knows; a link cut in the middle reads as a host that is not there.
Send ==
  /\ sender.pc \in {"first", "again"}
  /\ \/ /\ Taken(sender)
        /\ \/ sender' = Idle /\ UNCHANGED faults
           \/ Fault /\ sender' = Failed
     \/ Begun(sender) /\ sender' = Failed
     \/ /\ NotTaken(sender)
        /\ \/ ~Reaches(sender) /\ sender' = Failed /\ UNCHANGED faults
           \/ Fault /\ sender' \in {Failed, Idle}
  /\ UNCHANGED <<convVars, drawn, turns, worker_epoch, seat, assembled, steer>>

\* The session is started again for the second call...
StartAgain ==
  /\ sender.pc = "failed"
  /\ start
  /\ sender' = [sender EXCEPT !.pc = "again", !.epoch = worker_epoch + 1]
  /\ UNCHANGED <<convVars, drawn, rows, turns, seat, assembled, steer, journal, faults>>

\* ... or cannot be: the host is not connected, or the start is refused. The
\* send is taken never to have left (InputNotSent), and the turn is retired.
StartRefused ==
  /\ sender.pc = "failed"
  /\ rows' = withdraw_input(rows, sender.input)
  /\ turns' = [turns EXCEPT ![sender.input] = "stopped"]
  /\ assembled' = assembled \ {sender.input}
  /\ sender' = Idle
  /\ UNCHANGED <<convVars, drawn, worker_epoch, seat, steer, runnerVars, faults>>

-------------------------------------------------------------------------------
(* The backend: a message said into the working session. No lease.         *)

\* merge_into_running_session: a message is posted, and the session is asked
\* whether it works.
AskWorking ==
  /\ steer.pc = "idle"
  /\ posted < MaxBlock
  /\ seat.work # 0
  /\ live.up /\ live.work # 0
  /\ posted' = posted + 1
  /\ steer' = [Idle EXCEPT !.pc = "checked", !.batch = {posted + 1}, !.input = seat.work]
  /\ UNCHANGED <<cursor, recordVars, seat, assembled, sender, runnerVars, faults>>

\* Registered for the work it was asked about, if the seat is still in it.
SteerRegister ==
  /\ steer.pc = "checked"
  /\ seat.work = steer.input
  /\ register_input(FALSE, steer.input, steer.batch)
  /\ steer' = [steer EXCEPT !.pc = "first", !.input = drawn + 1, !.epoch = worker_epoch]
  /\ UNCHANGED <<convVars, turns, worker_epoch, seat, assembled, sender, runnerVars, faults>>

\* The seat is in other work, or the input is refused: the message waits for a
\* turn of its own.
SteerGivesUp ==
  /\ steer.pc = "checked"
  /\ seat.work # steer.input \/ held_blocks \cap steer.batch # {}
  /\ steer' = Idle
  /\ UNCHANGED <<convVars, recordVars, seat, assembled, sender, runnerVars, faults>>

\* session_host.steer: one call, and no second.
SteerSay ==
  /\ steer.pc = "first"
  /\ \/ Taken(steer) /\ UNCHANGED faults
     \/ Begun(steer)
     \/ NotTaken(steer) /\ (IF Reaches(steer) THEN Fault ELSE UNCHANGED faults)
  /\ steer' = Idle
  /\ UNCHANGED <<convVars, drawn, turns, worker_epoch, seat, assembled, sender>>

-------------------------------------------------------------------------------
(* The backend: what is heard of the session, and what is given up.        *)

\* _consumed_position: the newest block that was read into the work.
Consumed(w) ==
  UNION {rows[i].batch : i \in {j \in DOMAIN rows : rows[j].inside = w}}

\* Where settle_work puts the cursor: the end of the prompt as the process that
\* assembled it knows it, or what the work consumed, to one that does not.
Position(w) == IF w \in assembled \cap DOMAIN rows THEN Max(rows[w].batch)
               ELSE Max({0} \cup Consumed(w))

\* The works that end with work w: itself, and those read into it.
AnsweredInside(w) ==
  {w} \cup {i \in DOMAIN rows : rows[i].own /\ rows[i].inside = w}

Leaves(w) == IF seat.work = w THEN NoWork ELSE seat

\* apply of an idle report: the interval closes, then settle_work moves the
\* cursor to what the turn was given. No cursor moves for a work that ended
\* inside another.
ApplyIdle(w) ==
  /\ turns' = [i \in Input |-> IF i \in AnsweredInside(w) THEN "stopped" ELSE turns[i]]
  /\ cursor' = Max({cursor, Position(w)})
  /\ assembled' = assembled \ AnsweredInside(w)
  /\ seat' = Leaves(w)
  /\ UNCHANGED rows

\* runner_reports.apply, one report in one transaction.
Apply ==
  /\ out # <<>>
  /\ out' = Tail(out)
  /\ LET r == Head(out) IN
       \/ /\ r.kind = "written"
          /\ rows' = hand_to(record_accepted(rows, r.input), r.input, r.epoch)
          /\ UNCHANGED <<turns, cursor, assembled, seat>>
       \/ /\ r.kind = "read"
          /\ rows' = record_echo(rows, r.input, r.inside)
          /\ seat' = [work |-> r.inside, running |-> TRUE]
          /\ UNCHANGED <<turns, cursor, assembled>>
       \/ /\ r.kind = "dropped"
          /\ rows' = drop_input(rows, r.input)
          /\ UNCHANGED <<turns, cursor, assembled, seat>>
       \/ r.kind = "idle" /\ ApplyIdle(r.inside)
       \/ /\ r.kind = "exited"
          /\ rows' = receiver_exited(rows, r.epoch)
          /\ seat' = IF r.epoch = worker_epoch THEN NoWork ELSE seat
          /\ UNCHANGED <<turns, cursor, assembled>>
  /\ UNCHANGED <<posted, drawn, worker_epoch, callVars, live, left, journal, unread, faults>>

\* close_dead_turns, close_silent_turns: a turn whose session is gone, or works
\* on nothing, is closed, and what it held is given up in the same transaction.
CloseTurn(w) ==
  /\ turns[w] = "open"
  /\ live.work = 0
  /\ ~(sender.pc # "idle" /\ sender.input = w)
  /\ turns' = [turns EXCEPT ![w] = "stopped"]
  /\ rows' = terminate_inputs_of_dead_works(rows, w)
  /\ UNCHANGED <<convVars, drawn, worker_epoch, backendVars, runnerVars, faults>>

\* _died: the reading finds the process gone without a word, and ends the work
\* the seat is in and what it held (end_inputs_of_abandoned_work).
Died ==
  /\ seat.work # 0
  /\ ~live.up /\ left # 0
  /\ turns' = [turns EXCEPT ![seat.work] = IF @ = "open" THEN "stopped" ELSE @]
  /\ rows' = terminate_inputs_of_dead_works(rows, seat.work)
  /\ assembled' = assembled \ {seat.work}
  /\ seat' = NoWork
  /\ UNCHANGED <<convVars, drawn, worker_epoch, callVars, runnerVars, faults>>

\* The backend dies; the next one takes the session up again and registers its
\* runner anew.
Crash ==
  /\ Fault
  /\ sender' = Idle /\ steer' = Idle /\ assembled' = {}
  /\ IF live.up
     THEN /\ start
          /\ seat' = [work |-> live.work, running |-> live.work # 0]
     ELSE /\ seat' = NoWork
          /\ UNCHANGED <<worker_epoch, live, left, unread, out>>
  /\ UNCHANGED <<convVars, drawn, rows, turns, journal>>

-------------------------------------------------------------------------------
Session == (\E i \in Input : Read(i) \/ Settle(i)) \/ Finish \/ Exit \/ Killed

Turn == Post \/ Admit \/ Assemble \/ Ensure \/ Register \/ RegisterRefused
        \/ Send \/ StartAgain \/ StartRefused

Live == AskWorking \/ SteerRegister \/ SteerGivesUp \/ SteerSay

Platform == Apply \/ (\E w \in Input : CloseTurn(w)) \/ Died \/ Crash

Next == Session \/ Turn \/ Live \/ Platform

Spec == Init /\ [][Next]_vars

(* Fairness. The backend's tasks go on; reports are read and applied; the   *)
(* session takes or settles what was put in; the sweeps run.               *)
TurnGoesOn == Assemble \/ Register \/ RegisterRefused \/ Send \/ StartAgain \/ StartRefused

SteerGoesOn == SteerRegister \/ SteerGivesUp \/ SteerSay

Fairness ==
  /\ WF_vars(TurnGoesOn) /\ WF_vars(SteerGoesOn)
  /\ WF_vars(Apply) /\ WF_vars(Died) /\ WF_vars(Finish)
  /\ \A i \in Input : WF_vars(Read(i) \/ Settle(i)) /\ WF_vars(CloseTurn(i))

FairSpec == Spec /\ Fairness

-------------------------------------------------------------------------------
(* Properties.                                                             *)

\* An input that was handed to a second process. `hand_to` ends the over-work
\* that freed its batch, and does not ask whether another input took it since.
HandedAgain(r) == r.handed > r.first

\* No message is held by two inputs at once (register_input under _lock_blocks,
\* against a turn prepared under the lease and a message said without it).
HeldOnce ==
  \A i, j \in {k \in DOMAIN rows : HoldsBatch(rows[k]) /\ ~HandedAgain(rows[k])} :
    i # j => rows[i].batch \cap rows[j].batch = {}

\* Rows the platform took back, sure that the input was not sent.
Withdrawn == (1 .. drawn) \ DOMAIN rows

\* While a session may still read an input, its messages are kept from every
\* other prompt: through reports that come late, processes that are replaced
\* and works that end around it. A turn the platform itself ended is the
\* exception the code makes (unread_input_with_over_work), a withdrawn input
\* the one it does not mean to make (README, section 6).
InSessionHolds ==
  \A i \in unread : live.up =>
    \/ i \in Withdrawn
    \/ HoldsBatch(rows[i])
    \/ rows[i].own /\ turns[i] = "stopped"

\* What was given back unread is not read after all: no report of a drop
\* (_drop, _drop_unread) is followed by the echo of the same input.
DroppedIsNeverRead ==
  [][\A i \in DOMAIN rows \cap DOMAIN rows' :
       rows[i].released /\ ~rows[i].echoed => ~(rows'[i]).echoed]_vars

\* An input is put into the session once, however often it is said: by the
\* second call of `send`, to a runner that lives or to the next (accept).
PutInOnce ==
  [][\A i \in unread' \ unread : i \notin journal]_vars

\* The seat is refused to later messages by an input that some runner took.
Blocked == \E i \in DOMAIN rows \cap journal : HoldsSeat(rows[i])

\* Such an input does not hold its seat for ever, so that the next message gets
\* a turn: unless its runner was killed and none came after it.
SeatIsFreed == Blocked ~> ~Blocked \/ left # 0

\* The read cursor passes only what the seat was given: a message before it is
\* read, or held by an input that may still be (_read_window: "What this seat
\* has not read: every participant's messages, oldest first").
CursorPassesOnlyRead ==
  \A b \in 1 .. cursor :
    \E i \in DOMAIN rows :
      b \in rows[i].batch /\ (rows[i].echoed \/ HoldsBatch(rows[i]))
-------------------------------------------------------------------------------
(* The inductive invariant of the proofs: what a row, the call that carries *)
(* it, the journal and the reports on their way say of one another.         *)

InCall(s) == s.pc \in {"first", "failed", "again"}

\* An input has messages that were said, and is with a process registered by now.
RowsHold ==
  \A i \in DOMAIN rows :
    /\ rows[i].batch # {} /\ rows[i].batch \subseteq 1 .. posted
    /\ rows[i].first <= rows[i].handed /\ rows[i].handed <= worker_epoch
    /\ rows[i].own => rows[i].work = i /\ turns[i] # "none"
    /\ rows[i].own /\ rows[i].terminated => rows[i].released \/ turns[i] = "stopped"

\* A call is of an input drawn: the turn's own, or one said into its work.
CallsAreOfRows ==
  /\ \A s \in {sender, steer} :
       /\ s.pc \in {"assembled", "checked"} => s.batch \subseteq 1 .. posted
       /\ InCall(s) => s.input \in 1 .. drawn /\ s.epoch <= worker_epoch
  /\ sender.pc = "assembled" => sender.batch # {}
  /\ InCall(sender) /\ sender.input \in DOMAIN rows => rows[sender.input].own
  /\ steer.pc = "checked" => steer.batch # {} /\ steer.input \in Input
  /\ steer.pc = "first" /\ steer.input \in DOMAIN rows =>
       steer.epoch <= rows[steer.input].handed

\* The session answers for an input once: by its echo or by its drop.
Answers(r) == r.kind \in {"read", "dropped"}

AnsweredOnce ==
  /\ journal \subseteq 1 .. drawn
  /\ \A n \in DOMAIN out : Answers(out[n]) => out[n].input \in journal \ unread
  /\ \A m, n \in DOMAIN out :
       Answers(out[m]) /\ Answers(out[n]) /\ out[m].input = out[n].input => m = n
  /\ \A i \in DOMAIN rows :
       /\ rows[i].echoed => rows[i].released
       /\ rows[i].released => /\ i \in journal \ unread
                              /\ \A n \in DOMAIN out : Answers(out[n]) => out[n].input # i

\* The epoch of a process that is gone is behind that of the one that is there.
Gone(e) == e <= worker_epoch /\ (live.up => e < worker_epoch)

ExitsAreOfTheGone ==
  /\ live.up => worker_epoch > 0
  /\ left # 0 => ~live.up
  /\ left <= worker_epoch
  /\ unread # {} => live.up \/ left # 0
  /\ \A n \in DOMAIN out : out[n].epoch <= worker_epoch
  /\ \A n \in DOMAIN out : out[n].kind = "exited" => Gone(out[n].epoch)
  /\ \A i \in DOMAIN rows : rows[i].receiver_exited => Gone(rows[i].handed)

\* No exit of an earlier process frees what the process that is there may read.
UnreadIsNotFreed ==
  \A i \in unread \cap DOMAIN rows :
    /\ rows[i].receiver_exited => rows[i].own /\ turns[i] = "stopped"
    /\ rows[i].terminated \/ \A n \in DOMAIN out :
          out[n].kind = "exited" => out[n].epoch < rows[i].handed

\* What the proofs rest on: records, calls, journal and reports agree, whatever
\* process came or went between them (receipts.py, _report_exit, _say).
Inductive ==
  /\ RowsHold /\ CallsAreOfRows /\ AnsweredOnce
  /\ ExitsAreOfTheGone /\ UnreadIsNotFreed /\ HeldOnce
================================================================================
