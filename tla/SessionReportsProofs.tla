-------------------------- MODULE SessionReportsProofs --------------------------
(***************************************************************************)
(* What SessionReports promises for any number of backends, processes,     *)
(* registrations, events and faults: every event takes effect once and in  *)
(* order, none is forgotten before all that follows from it was done, the  *)
(* seat and the runner agree on the run under way, and the exit of a       *)
(* registered process ends the session of no other.                       *)
(*                                                                         *)
(* The argument. A sequence names one event with one stamp wherever it is  *)
(* met, because only an event nobody was ever handed is restamped          *)
(* (Written). The seat's position under an event's stamp therefore tells   *)
(* whether it took effect (PositionsTell), and an answer goes on where     *)
(* what is done with ends (DoneWith): the first event of an answer that is *)
(* new is the next one. The facts on journals and answers come first, then *)
(* what a step may change for each part to hold, then every step, and the  *)
(* theorems last.                                                          *)
(***************************************************************************)
EXTENDS SessionReports, FiniteSetTheorems, SequenceTheorems, WellFoundedInduction, TLAPS

IInv == TypeOK /\ Inductive

-------------------------------------------------------------------------------
(* Journals and answers.                                                   *)

\* The fields of an event are numbers that can be compared, and a name.
LEMMA EventFields ==
  ASSUME NEW x \in Event
  PROVE  /\ x.seq \in Nat /\ x.seq > 0 /\ x.seq <= MaxSeq
         /\ x.epoch \in Epochs /\ x.epoch \in Int
         /\ x.of \in Nat /\ x.of > 0 /\ x.of <= MaxProc
  BY BoundAssumption DEF Event, Epochs, NEVER_REGISTERED

\* Of some events, one was written first (First of an answer).
LEMMA Earliest ==
  ASSUME NEW S \in SUBSET Event, S # {}
  PROVE  \E x \in S : \A y \in S : x.seq <= y.seq
<1> DEFINE T == {x.seq : x \in S}
<1>1. T \subseteq Nat /\ T # {}
  BY EventFields
<1>2. PICK t \in T : \A u \in T : ~ (<<u, t>> \in OpToRel(<, Nat))
  BY <1>1, NatLessThanWellFounded, WFMin, Zenon
<1>3. PICK x \in S : t = x.seq
  OBVIOUS
<1>4. ASSUME NEW y \in S PROVE x.seq <= y.seq
  <2>1. SUFFICES ASSUME y.seq < x.seq PROVE FALSE
    BY EventFields
  <2>2. y.seq \in T /\ y.seq \in Nat /\ t \in Nat
    BY <1>1
  <2>3. <<y.seq, t>> \in OpToRel(<, Nat)
    BY <1>3, <2>1, <2>2 DEF OpToRel
  <2> QED BY <1>2, <2>2, <2>3
<1> QED BY <1>4

\* Of finitely many events, one was written last (Outbox.pending's page).
LEMMA Latest ==
  ASSUME NEW S \in SUBSET Event, S # {}
  PROVE  \E x \in S : \A y \in S : y.seq <= x.seq
<1> DEFINE T == {MaxSeq - x.seq : x \in S}
<1>1. \A x \in S : MaxSeq - x.seq \in Nat
  BY EventFields, BoundAssumption
<1>2. T \subseteq Nat /\ T # {}
  BY <1>1, Zenon
<1>3. PICK t \in T : \A u \in T : ~ (<<u, t>> \in OpToRel(<, Nat))
  BY <1>2, NatLessThanWellFounded, WFMin, Zenon
<1>4. PICK x \in S : t = MaxSeq - x.seq
  OBVIOUS
<1>5. ASSUME NEW y \in S PROVE y.seq <= x.seq
  <2>1. SUFFICES ASSUME x.seq < y.seq PROVE FALSE
    BY EventFields
  <2>2. MaxSeq - y.seq \in T /\ MaxSeq - y.seq \in Nat /\ t \in Nat
    BY <1>1, <1>2
  <2>3. MaxSeq - y.seq < t
    BY <1>4, <2>1, EventFields, BoundAssumption
  <2>4. <<MaxSeq - y.seq, t>> \in OpToRel(<, Nat)
    BY <2>2, <2>3 DEF OpToRel
  <2> QED BY <1>3, <2>2, <2>4
<1> QED BY <1>5

\* The first event of an answer is in it, and before all others.
LEMMA FirstIn ==
  ASSUME TypeOK, NEW b \in Backends, events[b] # {}
  PROVE  /\ First(b) \in events[b] /\ First(b) \in Event
         /\ \A y \in events[b] : First(b).seq <= y.seq
<1>1. events[b] \in SUBSET Event
  BY DEF TypeOK
<1>2. \E x \in events[b] : \A y \in events[b] : x.seq <= y.seq
  BY <1>1, Earliest
<1> QED BY <1>1, <1>2, Zenon DEF First

\* Events with a sequence each are finitely many.
LEMMA FinitelyMany ==
  ASSUME NEW S \in SUBSET Event, \A x, y \in S : x.seq = y.seq => x = y
  PROVE  IsFiniteSet(S)
<1> DEFINE f == [x \in S |-> x.seq]
<1>1. IsFiniteSet(1 .. MaxSeq)
  BY BoundAssumption, FS_Interval
<1>2. f \in [S -> 1 .. MaxSeq]
  BY DEF Event
<1>3. f \in Injection(S, 1 .. MaxSeq)
  BY <1>2 DEF Injection, IsInjective
<1> QED BY <1>1, <1>3, FS_Injection, Zenon DEF ExistsInjection

\* Outbox.pending hands over what some registration owns, a page of it at most.
LEMMA PageBounded ==
  ASSUME NEW j \in SUBSET Event, \A x, y \in j : x.seq = y.seq => x = y
  PROVE  /\ PageOf(j) \in SUBSET Event /\ PageOf(j) \subseteq j
         /\ \A x \in PageOf(j) : x.epoch # 0
         /\ Cardinality(PageOf(j)) <= Page
<1> DEFINE P == PageOf(j)
           Below(x) == {y \in j : y.epoch # 0 /\ y.seq < x.seq}
<1>1. P \subseteq j /\ \A x \in P : x.epoch # 0 /\ Cardinality(Below(x)) < Page
  BY DEF PageOf
<1>2. IsFiniteSet(j) /\ IsFiniteSet(P) /\ Cardinality(P) \in Nat
  BY <1>1, FinitelyMany, FS_Subset, FS_CardinalityType, Zenon
<1>3. Cardinality(P) <= Page
  <2>1. CASE P = {}
    BY <2>1, FS_EmptySet, PageAssumption
  <2>2. CASE P # {}
    <3>1. PICK x \in P : \A y \in P : y.seq <= x.seq
      BY <1>1, <2>2, Latest
    <3>2. P \ {x} \subseteq Below(x)
      <4> SUFFICES ASSUME NEW y \in P, y # x PROVE y \in Below(x)
        OBVIOUS
      <4>1. y \in j /\ x \in j /\ y.epoch # 0 /\ y.seq <= x.seq /\ y.seq # x.seq
        BY <1>1, <3>1
      <4>2. y.seq < x.seq
        BY <4>1, EventFields
      <4> QED BY <4>1, <4>2
    <3>3. IsFiniteSet(Below(x)) /\ Cardinality(Below(x)) \in Nat
      BY <1>2, FS_Subset, FS_CardinalityType, Zenon
    <3>4. Cardinality(P \ {x}) <= Cardinality(Below(x))
      BY <3>2, <3>3, FS_Subset, Zenon
    <3>5. Cardinality(P \ {x}) = Cardinality(P) - 1
      BY <1>2, FS_RemoveElement
    <3>6. Cardinality(Below(x)) < Page
      BY <1>1
    <3> QED BY <1>2, <3>3, <3>4, <3>5, <3>6, PageAssumption
  <2> QED BY <2>1, <2>2
<1> QED BY <1>1, <1>3

\* Outbox.pending passes over nothing a registration owns.
LEMMA PagePassesNone ==
  ASSUME NEW j \in SUBSET Event, \A x, y \in j : x.seq = y.seq => x = y,
         NEW x \in PageOf(j), NEW y \in j, y.epoch # 0, y.seq < x.seq
  PROVE  y \in PageOf(j)
<1> DEFINE Below(z) == {w \in j : w.epoch # 0 /\ w.seq < z.seq}
<1>1. x \in j /\ Cardinality(Below(x)) < Page
  BY DEF PageOf
<1>2. Below(y) \subseteq Below(x)
  <2> SUFFICES ASSUME NEW w \in Below(y) PROVE w.seq < x.seq
    OBVIOUS
  <2> QED BY <1>1, EventFields
<1>3. IsFiniteSet(j) /\ IsFiniteSet(Below(x)) /\ Cardinality(Below(x)) \in Nat
  BY FinitelyMany, FS_Subset, FS_CardinalityType, Zenon
<1>4. Cardinality(Below(y)) <= Cardinality(Below(x)) /\ Cardinality(Below(y)) \in Nat
  BY <1>2, <1>3, FS_Subset, FS_CardinalityType, Zenon
<1>5. Cardinality(Below(y)) < Page
  BY <1>1, <1>3, <1>4, PageAssumption
<1> QED BY <1>5 DEF PageOf

\* Outbox.register changes the stamp of what had none, and nothing else.
LEMMA Restamps ==
  ASSUME NEW j \in SUBSET Event, NEW e \in 1 .. MaxEpoch, journal = j,
         \A x, y \in j : x.seq = y.seq => x = y
  PROVE  /\ Restamped(e) \in SUBSET Event
         /\ \A y \in Restamped(e) : \E x \in j :
              /\ y.seq = x.seq /\ y.kind = x.kind /\ y.of = x.of
              /\ y.epoch = IF x.epoch = 0 THEN e ELSE x.epoch
              /\ x.epoch # 0 => y = x
         /\ \A x \in j : \E y \in Restamped(e) : y.seq = x.seq
         /\ \A y, z \in Restamped(e) : y.seq = z.seq => y = z
<1> DEFINE R(x) == [x EXCEPT !.epoch = IF @ = 0 THEN e ELSE @]
<1>1. ASSUME NEW x \in j
      PROVE  /\ R(x) \in Event
             /\ R(x).seq = x.seq /\ R(x).kind = x.kind /\ R(x).of = x.of
             /\ R(x).epoch = IF x.epoch = 0 THEN e ELSE x.epoch
             /\ x.epoch # 0 => R(x) = x
  BY BoundAssumption DEF Event, Epochs
<1>2. Restamped(e) = {R(x) : x \in j}
  BY DEF Restamped
<1> HIDE DEF R
<1> QED BY <1>1, <1>2

\* The parts of the invariant, and the types, at a glance.
LEMMA Parts ==
  IInv <=> /\ TypeOK /\ AppliedOnceInOrder /\ NothingLost /\ Written /\ PositionsTell
           /\ DoneWith /\ HoldersKnown /\ ExitsOfHolders /\ RunNamed /\ RunsEnd
  BY DEF IInv, Inductive

\* What is known is in the journal or in an answer, and is an event.
LEMMA KnownEvents ==
  ASSUME TypeOK
  PROVE  /\ Known \in SUBSET Event /\ journal \subseteq Known
         /\ \A b \in Backends : events[b] \subseteq Known
         /\ \A x \in Known : x \in journal \/ \E b \in Backends : x \in events[b]
  BY DEF TypeOK, Known

\* The number of events applied is a number.
LEMMA CountApplied ==
  ASSUME TypeOK
  PROVE  Len(effects) \in Nat /\ DOMAIN effects = 1 .. Len(effects)
  BY LenProperties DEF TypeOK

-------------------------------------------------------------------------------
(* Types.                                                                  *)

\* The runner, the seat and the backends start with their types.
LEMMA InitTyped == Init => TypeOK
<1> SUFFICES ASSUME Init PROVE TypeOK
  OBVIOUS
<1>1. 0 \in 0 .. MaxEpoch /\ 0 \in 0 .. MaxProc /\ 0 \in 0 .. MaxSeq /\ 0 \in 0 .. MaxFaults
      /\ 0 \in Epochs
  BY BoundAssumption DEF Epochs
<1>2. /\ run \in (0 .. MaxEpoch) \X (0 .. MaxSeq)
      /\ session_run \in Epochs \X (0 .. MaxSeq)
  BY <1>1 DEF Init, NoRun
<1>3. \A b \in Backends : Cardinality(events[b]) <= Page
  BY FS_EmptySet, PageAssumption DEF Init
<1>4. effects \in Seq(1 .. MaxSeq)
  BY EmptySeq DEF Init
<1> QED BY <1>1, <1>2, <1>3, <1>4 DEF Init, TypeOK

\* No answer is longer than a page if those of before are cut down.
LEMMA AnswersCut ==
  ASSUME TypeOK, Written,
         \A b \in Backends : events'[b] \subseteq events[b]
  PROVE  \A b \in Backends : Cardinality(events'[b]) <= Page
<1> SUFFICES ASSUME NEW b \in Backends PROVE Cardinality(events'[b]) <= Page
  OBVIOUS
<1>1. events[b] \in SUBSET Event /\ Cardinality(events[b]) <= Page
  BY DEF TypeOK
<1>2. \A x, y \in events[b] : x.seq = y.seq => x = y
  BY KnownEvents DEF Written
<1>3. IsFiniteSet(events[b])
  BY <1>1, <1>2, FinitelyMany
<1>4. Cardinality(events'[b]) <= Cardinality(events[b])
      /\ Cardinality(events'[b]) \in Nat /\ Cardinality(events[b]) \in Nat
  BY <1>3, FS_Subset, FS_CardinalityType, Zenon
<1> QED BY <1>1, <1>4, PageAssumption

\* An event the runner journals has the type of one.
LEMMA EmittedTyped ==
  ASSUME TypeOK, NEW n \in Nat \ {0}, seq + n <= MaxSeq,
         NEW kind \in {"running", "idle", "exited"}, NEW of \in 1 .. MaxProc,
         NEW under \in Epochs
  PROVE  Emitted(n, kind, of, under) \in Event
<1>1. seq + n \in 1 .. MaxSeq
  BY BoundAssumption DEF TypeOK
<1> QED BY <1>1 DEF Emitted, Event

\* The types of what the runner has.
RunnerOK ==
  /\ journal \in SUBSET Event
  /\ seq \in 0 .. MaxSeq
  /\ live_launch \in 0 .. MaxProc
  /\ live_epoch \in 0 .. MaxEpoch
  /\ up \in {"down", "alive", "ending"}
  /\ process \in 0 .. MaxProc
  /\ epoch \in 0 .. MaxEpoch
  /\ working \in BOOLEAN
  /\ run \in (0 .. MaxEpoch) \X (0 .. MaxSeq)

\* The types of what the seat keeps.
SeatOK ==
  /\ worker_epoch \in 0 .. MaxEpoch
  /\ worker_status \in {"idle", "running"}
  /\ session_run \in Epochs \X (0 .. MaxSeq)
  /\ applied_seq \in [Epochs -> 0 .. MaxSeq]
  /\ projected_seq \in [Epochs -> 0 .. MaxSeq]

\* The types of what the backends have of the session.
ReadingOK ==
  /\ launched \in [Backends -> 0 .. MaxEpoch]
  /\ acked \in [Backends -> 0 .. MaxSeq]
  /\ events \in [Backends -> SUBSET Event]
  /\ \A b \in Backends : Cardinality(events[b]) <= Page
  /\ following \in [Backends -> 0 .. MaxEpoch]

\* The types of what is observed, and of the registrations.
ObservedOK ==
  /\ registering \in [Backends -> 0 .. MaxEpoch]
  /\ effects \in Seq(1 .. MaxSeq)
  /\ followed \in SUBSET (1 .. MaxSeq)
  /\ ended \in SUBSET ((1 .. MaxProc) \X (0 .. MaxProc))
  /\ holder \in [1 .. MaxEpoch -> 0 .. MaxProc]
  /\ faults \in 0 .. MaxFaults

\* All of them; the runs that were cut short are apart.
RestOK == RunnerOK /\ SeatOK /\ ReadingOK /\ ObservedOK

\* Together they are the types of the module.
LEMMA TypesOf ==
  /\ TypeOK <=> /\ RunnerOK /\ SeatOK /\ ReadingOK /\ ObservedOK
                /\ cut \in SUBSET (1 .. MaxSeq)
  /\ TypeOK' <=> RestOK' /\ cut' \in SUBSET (1 .. MaxSeq)
  /\ RestOK' <=> RunnerOK' /\ SeatOK' /\ ReadingOK' /\ ObservedOK'
<1>1. TypeOK <=> /\ RunnerOK /\ SeatOK /\ ReadingOK /\ ObservedOK
                 /\ cut \in SUBSET (1 .. MaxSeq)
  BY Zenon DEF TypeOK, RunnerOK, SeatOK, ReadingOK, ObservedOK
<1>2. TypeOK' <=> /\ RunnerOK' /\ SeatOK' /\ ReadingOK' /\ ObservedOK'
                  /\ cut' \in SUBSET (1 .. MaxSeq)
  BY Zenon DEF TypeOK, RunnerOK, SeatOK, ReadingOK, ObservedOK
<1>3. RestOK' <=> RunnerOK' /\ SeatOK' /\ ReadingOK' /\ ObservedOK'
  BY Zenon DEF RestOK
<1> QED BY <1>1, <1>2, <1>3, Zenon

\* A step leaves the types of what it leaves alone.
LEMMA KeptTypes ==
  ASSUME TypeOK
  PROVE  /\ UNCHANGED runnerVars => RunnerOK'
         /\ UNCHANGED seatVars => SeatOK'
         /\ UNCHANGED readingVars => ReadingOK'
         /\ UNCHANGED <<registering, appliedVars, holder, faults>> => ObservedOK'
<1>1. UNCHANGED runnerVars => RunnerOK'
  BY DEF TypeOK, RunnerOK, runnerVars
<1>2. UNCHANGED seatVars => SeatOK'
  BY DEF TypeOK, SeatOK, seatVars
<1>3. UNCHANGED readingVars => ReadingOK'
  BY DEF TypeOK, ReadingOK, readingVars
<1>4. UNCHANGED <<registering, appliedVars, holder, faults>> => ObservedOK'
  BY DEF TypeOK, ObservedOK, appliedVars
<1> QED BY <1>1, <1>2, <1>3, <1>4

\* A step of the runner's own keeps the types if it keeps the runner's.
LEMMA OthersTyped ==
  ASSUME TypeOK, RunnerOK',
         UNCHANGED <<seatVars, registering, readingVars, appliedVars, holder, faults>>
  PROVE  RestOK'
<1>1. UNCHANGED seatVars /\ UNCHANGED readingVars
      /\ UNCHANGED <<registering, appliedVars, holder, faults>>
  OBVIOUS
<1> QED BY <1>1, KeptTypes, TypesOf

\* start journals at most the ending the runner before left, and runs one
\* process more.
LEMMA StartTyped ==
  ASSUME TypeOK, Start
  PROVE  RestOK'
<1> DEFINE left == IF live_launch = 0 THEN {}
                   ELSE {Emitted(1, "exited", live_launch, LeftUnder)}
           n    == Cardinality(left)
<1>1. RunnerOK
  BY TypesOf
<1>2. /\ n \in {0, 1} /\ seq + n <= MaxSeq
      /\ left \in SUBSET Event
  <2>1. CASE live_launch = 0
    BY <2>1, FS_EmptySet DEF Start
  <2>2. CASE live_launch # 0
    <3>1. n = 1 /\ seq + 1 <= MaxSeq
      BY <2>2, FS_Singleton DEF Start
    <3>2. LeftUnder \in Epochs /\ live_launch \in 1 .. MaxProc
      BY <1>1, <2>2, BoundAssumption DEF LeftUnder, Epochs, RunnerOK
    <3> QED BY <2>2, <3>1, <3>2, EmittedTyped
  <2> QED BY <2>1, <2>2
<1>3. journal' = journal \cup left /\ seq' = seq + n
  BY DEF Start
<1> HIDE DEF left, n
<1>4. journal' \in SUBSET Event /\ seq' \in 0 .. MaxSeq
  BY <1>1, <1>2, <1>3, BoundAssumption DEF RunnerOK
<1>5. /\ process < MaxProc /\ up = "down"
      /\ \/ live_launch' = process + 1 /\ process' = process + 1 /\ up' = "alive"
         \/ live_launch' \in {0, live_launch} /\ process' = process /\ up' = up
      /\ live_epoch' \in {live_epoch, 0} /\ epoch' = 0 /\ working' = FALSE
      /\ run' = <<0, 0>>
  BY DEF Start, NoRun
<1>6. working' \in BOOLEAN
  BY <1>5, Zenon
<1>7. /\ live_launch' \in 0 .. MaxProc /\ process' \in 0 .. MaxProc
      /\ up' \in {"down", "alive", "ending"} /\ live_epoch' \in 0 .. MaxEpoch
  BY <1>1, <1>5, BoundAssumption DEF RunnerOK
<1>8. epoch' \in 0 .. MaxEpoch /\ run' \in (0 .. MaxEpoch) \X (0 .. MaxSeq)
  BY <1>5, BoundAssumption
<1>9. RunnerOK'
  BY <1>4, <1>6, <1>7, <1>8, Zenon DEF RunnerOK
<1>10. UNCHANGED <<seatVars, registering, readingVars, appliedVars, holder, faults>>
  BY DEF Start
<1> QED BY <1>9, <1>10, OthersTyped

\* What an event of the session's own says is of its process and registration.
LEMMA OwnTyped ==
  ASSUME TypeOK, HoldersKnown, up = "alive", NEW n \in Nat \ {0}, seq + n <= MaxSeq,
         NEW kind \in {"running", "idle", "exited"}
  PROVE  Emitted(n, kind, process, epoch) \in Event
<1>1. process \in 1 .. MaxProc /\ epoch \in Epochs
  BY BoundAssumption DEF TypeOK, HoldersKnown, Epochs
<1> QED BY <1>1, EmittedTyped

\* _open journals that work began.
LEMMA OpenTyped ==
  ASSUME TypeOK, HoldersKnown, Open
  PROVE  RestOK'
<1>1. RunnerOK
  BY TypesOf
<1>2. /\ up = "alive" /\ seq < MaxSeq /\ seq' = seq + 1
      /\ journal' = journal \cup {Emitted(1, "running", process, epoch)}
      /\ working' = TRUE /\ run' = <<epoch, seq + 1>>
      /\ UNCHANGED <<live_launch, live_epoch, up, process, epoch>>
      /\ UNCHANGED <<seatVars, registering, readingVars, appliedVars, holder, faults>>
  BY DEF Open
<1>3. seq + 1 <= MaxSeq
  BY <1>1, <1>2, BoundAssumption DEF RunnerOK
<1>4. Emitted(1, "running", process, epoch) \in Event
  BY <1>2, <1>3, OwnTyped
<1>5. RunnerOK'
  BY <1>1, <1>2, <1>3, <1>4, BoundAssumption DEF RunnerOK
<1> QED BY <1>2, <1>5, OthersTyped

\* _finish journals that it ended.
LEMMA FinishTyped ==
  ASSUME TypeOK, HoldersKnown, Finish
  PROVE  RestOK'
<1>1. RunnerOK
  BY TypesOf
<1>2. /\ up = "alive" /\ seq < MaxSeq /\ seq' = seq + 1
      /\ journal' = journal \cup {Emitted(1, "idle", process, epoch)}
      /\ working' = FALSE
      /\ UNCHANGED <<live_launch, live_epoch, up, process, epoch, run>>
      /\ UNCHANGED <<seatVars, registering, readingVars, appliedVars, holder, faults>>
  BY DEF Finish
<1>3. seq + 1 <= MaxSeq
  BY <1>1, <1>2, BoundAssumption DEF RunnerOK
<1>4. Emitted(1, "idle", process, epoch) \in Event
  BY <1>2, <1>3, OwnTyped
<1>5. working' \in BOOLEAN
  BY <1>2, Zenon
<1>6. journal' \in SUBSET Event /\ seq' \in 0 .. MaxSeq
  BY <1>1, <1>2, <1>3, <1>4, BoundAssumption DEF RunnerOK
<1>7. RunnerOK'
  BY <1>1, <1>2, <1>5, <1>6, Zenon DEF RunnerOK
<1> QED BY <1>2, <1>7, OthersTyped

\* _report_exit journals the end of the work under way, then the exit.
LEMMA ExitJournaled ==
  ASSUME ReportExit, TypeOK
  PROVE  \E n \in {1, 2} :
           /\ n = IF working THEN 2 ELSE 1
           /\ seq + n <= MaxSeq /\ seq' = seq + n
           /\ journal' = journal \cup {Emitted(n, "exited", process, epoch)}
                           \cup (IF n = 2 THEN {Emitted(1, "idle", process, epoch)} ELSE {})
<1> DEFINE n == IF working THEN 2 ELSE 1
<1>1. /\ n \in {1, 2} /\ seq + n <= MaxSeq /\ seq' = seq + n
      /\ journal' = journal \cup {Emitted(n, "exited", process, epoch)}
                      \cup {Emitted(1, "idle", process, epoch) : i \in 1 .. n - 1}
  BY DEF ReportExit
<1>2. n = 1 => {Emitted(1, "idle", process, epoch) : i \in 1 .. n - 1} = {}
  OBVIOUS
<1>3. n = 2 => {Emitted(1, "idle", process, epoch) : i \in 1 .. n - 1}
                 = {Emitted(1, "idle", process, epoch)}
  OBVIOUS
<1> QED BY <1>1, <1>2, <1>3

\* The process's ending keeps the types.
LEMMA ReportExitTyped ==
  ASSUME TypeOK, HoldersKnown, ReportExit
  PROVE  RestOK'
<1>1. RunnerOK
  BY TypesOf
<1>2. PICK n \in {1, 2} :
        /\ n = IF working THEN 2 ELSE 1
        /\ seq + n <= MaxSeq /\ seq' = seq + n
        /\ journal' = journal \cup {Emitted(n, "exited", process, epoch)}
                        \cup (IF n = 2 THEN {Emitted(1, "idle", process, epoch)} ELSE {})
  BY ExitJournaled
<1>3. /\ up = "alive" /\ working' = FALSE /\ process' = process
      /\ \/ up' = "ending" /\ live_launch' = 0 /\ live_epoch' = 0 /\ UNCHANGED <<epoch, run>>
         \/ up' = "down" /\ epoch' = 0 /\ run' = <<0, 0>> /\ UNCHANGED <<live_launch, live_epoch>>
      /\ UNCHANGED <<seatVars, registering, readingVars, appliedVars, holder, faults>>
  BY DEF ReportExit, NoRun
<1>4. Emitted(n, "exited", process, epoch) \in Event
  BY <1>2, <1>3, OwnTyped
<1>5. n = 2 => Emitted(1, "idle", process, epoch) \in Event
  <2>1. n = 2 => seq + 1 <= MaxSeq
    BY <1>1, <1>2, BoundAssumption DEF RunnerOK
  <2> QED BY <1>3, <2>1, OwnTyped
<1>6. journal' \in SUBSET Event /\ seq' \in 0 .. MaxSeq
  BY <1>1, <1>2, <1>4, <1>5, BoundAssumption DEF RunnerOK
<1>7. working' \in BOOLEAN
  BY <1>3, Zenon
<1>8. /\ live_launch' \in 0 .. MaxProc /\ process' \in 0 .. MaxProc
      /\ up' \in {"down", "alive", "ending"} /\ live_epoch' \in 0 .. MaxEpoch
      /\ epoch' \in 0 .. MaxEpoch /\ run' \in (0 .. MaxEpoch) \X (0 .. MaxSeq)
  BY <1>1, <1>3, BoundAssumption DEF RunnerOK
<1>9. RunnerOK'
  BY <1>6, <1>7, <1>8, Zenon DEF RunnerOK
<1> QED BY <1>3, <1>9, OthersTyped

\* So does the runner's end, whether it lingered or was killed.
LEMMA EndTyped ==
  ASSUME TypeOK, LingerEnds \/ Killed
  PROVE  RestOK'
<1>1. RunnerOK
  BY TypesOf
<1>2. /\ up' = "down" /\ epoch' = 0 /\ run' = <<0, 0>> /\ working' \in {working, FALSE}
      /\ UNCHANGED <<journal, seq, live_launch, live_epoch, process>>
      /\ UNCHANGED <<seatVars, registering, readingVars, appliedVars, holder, faults>>
  BY DEF LingerEnds, Killed, NoRun
<1>3. working' \in BOOLEAN
  BY <1>1, <1>2, Zenon DEF RunnerOK
<1>4. /\ up' \in {"down", "alive", "ending"} /\ epoch' \in 0 .. MaxEpoch
      /\ run' \in (0 .. MaxEpoch) \X (0 .. MaxSeq)
  BY <1>2, BoundAssumption
<1>5. RunnerOK'
  BY <1>1, <1>2, <1>3, <1>4, Zenon DEF RunnerOK
<1> QED BY <1>2, <1>5, OthersTyped

\* _forget takes everything this backend has of the session, and nothing of
\* another's.
LEMMA ForgetMeans ==
  ASSUME TypeOK, Written, NEW b \in Backends, Forget(b)
  PROVE  /\ ReadingOK'
         /\ events'[b] = {} /\ acked'[b] = 0 /\ following'[b] = 0 /\ launched'[b] = 0
         /\ \A c \in Backends \ {b} :
              /\ events'[c] = events[c] /\ acked'[c] = acked[c]
              /\ following'[c] = following[c] /\ launched'[c] = launched[c]
<1>1. ReadingOK
  BY TypesOf
<1>2. /\ events'[b] = {} /\ acked'[b] = 0 /\ following'[b] = 0 /\ launched'[b] = 0
      /\ \A c \in Backends \ {b} :
           /\ events'[c] = events[c] /\ acked'[c] = acked[c]
           /\ following'[c] = following[c] /\ launched'[c] = launched[c]
  BY <1>1 DEF Forget, ReadingOK
<1>3. \A c \in Backends : events'[c] \subseteq events[c]
  BY <1>2
<1>4. \A c \in Backends : Cardinality(events'[c]) <= Page
  BY <1>3, AnswersCut
<1>5. /\ events' \in [Backends -> SUBSET Event]
      /\ launched' \in [Backends -> 0 .. MaxEpoch]
      /\ acked' \in [Backends -> 0 .. MaxSeq]
      /\ following' \in [Backends -> 0 .. MaxEpoch]
  BY <1>1, BoundAssumption DEF Forget, ReadingOK
<1> QED BY <1>2, <1>4, <1>5 DEF ReadingOK

\* What is handed on leaves the answer, acknowledged with the next read or, on
\* the way out of an exit, at once.
LEMMA HandOnMeans ==
  ASSUME TypeOK, Written, NEW b \in Backends, NEW x \in events[b], NEW under, HandOn(b, x, under)
  PROVE  /\ ReadingOK' /\ following'[b] = 0
         /\ journal' \in {journal, Unacked(x.seq)}
         /\ \/ events'[b] = {} /\ acked'[b] = 0
            \/ events'[b] = events[b] \ {x} /\ acked'[b] = x.seq
         /\ \A c \in Backends \ {b} :
              /\ events'[c] = events[c] /\ acked'[c] = acked[c]
              /\ following'[c] = following[c]
<1>1. CASE x.kind = "exited" /\ x.epoch = under
  <2>1. Forget(b) /\ journal' \in {journal, Unacked(x.seq)}
    BY <1>1 DEF HandOn
  <2> QED BY <2>1, ForgetMeans
<1>2. CASE ~ (x.kind = "exited" /\ x.epoch = under)
  <2>1. /\ acked' = [acked EXCEPT ![b] = x.seq]
        /\ events' = [events EXCEPT ![b] = @ \ {x}]
        /\ following' = [following EXCEPT ![b] = 0]
        /\ launched' = launched /\ journal' = journal
    BY <1>2 DEF HandOn, Through
  <2>2. ReadingOK /\ x \in Event
    BY TypesOf DEF ReadingOK
  <2>3. /\ events'[b] = events[b] \ {x} /\ acked'[b] = x.seq /\ following'[b] = 0
        /\ \A c \in Backends \ {b} :
             /\ events'[c] = events[c] /\ acked'[c] = acked[c]
             /\ following'[c] = following[c]
    BY <2>1, <2>2 DEF ReadingOK
  <2>4. \A c \in Backends : events'[c] \subseteq events[c]
    BY <2>3
  <2>5. \A c \in Backends : Cardinality(events'[c]) <= Page
    BY <2>4, AnswersCut
  <2>6. /\ events' \in [Backends -> SUBSET Event]
        /\ launched' \in [Backends -> 0 .. MaxEpoch]
        /\ acked' \in [Backends -> 0 .. MaxSeq]
        /\ following' \in [Backends -> 0 .. MaxEpoch]
    BY <2>1, <2>2, EventFields, BoundAssumption DEF ReadingOK
  <2> QED BY <2>1, <2>3, <2>5, <2>6 DEF ReadingOK
<1> QED BY <1>1, <1>2

\* What the journal keeps of itself keeps the runner's types.
LEMMA JournalTyped ==
  ASSUME TypeOK, journal' \subseteq journal,
         UNCHANGED <<seq, live_launch, live_epoch, up, process, epoch, working, run>>
  PROVE  RunnerOK'
<1>1. RunnerOK
  BY TypesOf
<1> QED BY <1>1 DEF RunnerOK

\* session_state.register issues the next epoch.
LEMMA RegisterTyped ==
  ASSUME TypeOK, NEW b \in Backends, Register(b)
  PROVE  RestOK'
<1>1. worker_epoch + 1 \in 0 .. MaxEpoch
  BY BoundAssumption DEF Register, TypeOK
<1>2. /\ worker_epoch' = worker_epoch + 1
      /\ registering' = [registering EXCEPT ![b] = worker_epoch + 1]
      /\ UNCHANGED <<worker_status, session_run, applied_seq, projected_seq>>
      /\ UNCHANGED <<appliedVars, holder, faults>>
      /\ UNCHANGED runnerVars /\ UNCHANGED readingVars
  BY DEF Register
<1>3. SeatOK'
  BY <1>1, <1>2, TypesOf DEF SeatOK
<1>4. ObservedOK'
  BY <1>1, <1>2, TypesOf DEF ObservedOK, appliedVars
<1> QED BY <1>2, <1>3, <1>4, KeptTypes, TypesOf

\* dispatch "register" stamps the journal, the run and the registration.
LEMMA HandOverTyped ==
  ASSUME TypeOK, Written, NEW b \in Backends, HandOver(b)
  PROVE  RestOK'
<1> DEFINE e == registering[b]
<1>1. e \in 1 .. MaxEpoch
  BY BoundAssumption DEF HandOver, TypeOK
<1> HIDE DEF e
<1>2. /\ epoch' = e /\ journal' = Restamped(e) /\ run' = RunUnder(e)
      /\ live_epoch' \in {e, live_epoch}
      /\ holder' = [holder EXCEPT ![e] = process]
      /\ registering' = [registering EXCEPT ![b] = 0]
      /\ \/ launched' = [launched EXCEPT ![b] = e] /\ faults' = faults
         \/ launched' = launched /\ faults < MaxFaults /\ faults' = faults + 1
      /\ UNCHANGED <<seq, live_launch, up, process, working>> /\ UNCHANGED seatVars
      /\ UNCHANGED <<acked, events, following>> /\ UNCHANGED appliedVars
  BY DEF HandOver, Fault, e
<1>3. RunnerOK'
  <2>1. RunnerOK
    BY TypesOf
  <2>2. journal' \in SUBSET Event
    <3>1. \A x, y \in journal : x.seq = y.seq => x = y
      BY KnownEvents DEF Written
    <3> QED BY <1>1, <1>2, <2>1, <3>1, Restamps DEF RunnerOK
  <2>3. run' \in (0 .. MaxEpoch) \X (0 .. MaxSeq)
    <3>1. run[2] \in 0 .. MaxSeq /\ e \in 0 .. MaxEpoch
      BY <1>1, <2>1, BoundAssumption DEF RunnerOK
    <3> QED BY <1>2, <2>1, <3>1 DEF RunUnder, RunnerOK
  <2>4. /\ epoch' \in 0 .. MaxEpoch /\ live_epoch' \in 0 .. MaxEpoch
    BY <1>1, <1>2, <2>1, BoundAssumption DEF RunnerOK
  <2> QED BY <1>2, <2>1, <2>2, <2>3, <2>4, Zenon DEF RunnerOK
<1>4. SeatOK'
  BY <1>2, KeptTypes
<1>5. ReadingOK'
  BY <1>1, <1>2, TypesOf DEF ReadingOK
<1>6. ObservedOK'
  <2>1. faults' \in 0 .. MaxFaults
    BY <1>2, BoundAssumption DEF TypeOK
  <2>2. ObservedOK /\ process \in 0 .. MaxProc
    BY TypesOf DEF RunnerOK
  <2>3. registering' \in [Backends -> 0 .. MaxEpoch]
    BY <1>2, <2>2, BoundAssumption DEF ObservedOK
  <2>4. holder' \in [1 .. MaxEpoch -> 0 .. MaxProc]
    BY <1>1, <1>2, <2>2 DEF ObservedOK
  <2> QED BY <1>2, <2>1, <2>2, <2>3, <2>4 DEF ObservedOK, appliedVars
<1> QED BY <1>3, <1>4, <1>5, <1>6, TypesOf

\* A registration that came to nothing leaves the types.
LEMMA HandOverFailsTyped ==
  ASSUME TypeOK, NEW b \in Backends, HandOverFails(b)
  PROVE  RestOK'
<1>1. /\ registering' = [registering EXCEPT ![b] = 0]
      /\ UNCHANGED runnerVars /\ UNCHANGED seatVars /\ UNCHANGED readingVars
      /\ UNCHANGED <<appliedVars, holder, faults>>
  BY DEF HandOverFails
<1>2. ObservedOK'
  BY <1>1, TypesOf, BoundAssumption DEF ObservedOK, appliedVars
<1> QED BY <1>1, <1>2, KeptTypes, TypesOf

\* One more fault is still within the bound.
LEMMA FaultTyped ==
  ASSUME TypeOK, Fault
  PROVE  faults' \in 0 .. MaxFaults
  BY BoundAssumption DEF TypeOK, Fault

\* A read brings a page of the journal, cut by what is acknowledged; or its
\* answer is lost.
LEMMA DrainTyped ==
  ASSUME TypeOK, Written, NEW b \in Backends, Drain(b) \/ DrainLost(b)
  PROVE  RestOK'
<1>1. /\ journal' = Unacked(acked[b])
      /\ UNCHANGED <<seq, live_launch, live_epoch, up, process, epoch, working, run>>
      /\ UNCHANGED seatVars
      /\ UNCHANGED <<registering, appliedVars, holder>>
      /\ UNCHANGED <<launched, acked, following>>
      /\ \/ events' = [events EXCEPT ![b] = PageOf(journal')] /\ UNCHANGED faults
         \/ UNCHANGED events /\ Fault
  BY DEF Drain, DrainLost, readingVars
<1>2. journal' \subseteq journal
  BY <1>1 DEF Unacked
<1>3. RunnerOK' /\ SeatOK'
  BY <1>1, <1>2, JournalTyped, KeptTypes
<1>4. ReadingOK'
  <2>1. CASE UNCHANGED events
    BY <1>1, <2>1, TypesOf DEF ReadingOK
  <2>2. CASE events' = [events EXCEPT ![b] = PageOf(journal')]
    <3>1. journal' \in SUBSET Event /\ \A x, y \in journal' : x.seq = y.seq => x = y
      BY <1>2, KnownEvents DEF Written, TypeOK
    <3>2. PageOf(journal') \in SUBSET Event /\ Cardinality(PageOf(journal')) <= Page
      BY <3>1, PageBounded
    <3>3. ReadingOK
      BY TypesOf
    <3>4. events' \in [Backends -> SUBSET Event]
      BY <2>2, <3>2, <3>3 DEF ReadingOK
    <3>5. \A c \in Backends : Cardinality(events'[c]) <= Page
      BY <2>2, <3>2, <3>3 DEF ReadingOK
    <3> QED BY <1>1, <3>3, <3>4, <3>5 DEF ReadingOK
  <2> QED BY <1>1, <2>1, <2>2
<1>5. ObservedOK'
  <2>1. faults' \in 0 .. MaxFaults
    BY <1>1, FaultTyped DEF TypeOK
  <2> QED BY <1>1, <2>1, TypesOf DEF ObservedOK, appliedVars
<1> QED BY <1>3, <1>4, <1>5, TypesOf

\* What a backend gives up of what it has, for whatever reason, is well typed.
LEMMA GivenUpTyped ==
  ASSUME TypeOK, Written, NEW b \in Backends,
         Superseded(b) \/ ApplyStale(b) \/ Refused(b) \/ Crash(b)
  PROVE  RestOK'
<1>1. /\ UNCHANGED runnerVars /\ UNCHANGED seatVars
      /\ UNCHANGED <<appliedVars, holder>>
      /\ registering' \in {registering, [registering EXCEPT ![b] = 0]}
      /\ UNCHANGED faults \/ Fault
      /\ \/ Forget(b)
         \/ /\ events' = [events EXCEPT ![b] = {}]
            /\ following' \in {following, [following EXCEPT ![b] = 0]}
            /\ UNCHANGED <<launched, acked>>
  BY DEF Superseded, ApplyStale, Refused, Crash
<1>2. ReadingOK'
  <2>1. CASE Forget(b)
    BY <2>1, ForgetMeans
  <2>2. CASE /\ events' = [events EXCEPT ![b] = {}]
             /\ following' \in {following, [following EXCEPT ![b] = 0]}
             /\ UNCHANGED <<launched, acked>>
    <3>1. ReadingOK
      BY TypesOf
    <3>2. \A c \in Backends : events'[c] \subseteq events[c]
      BY <2>2, <3>1 DEF ReadingOK
    <3>3. events' \in [Backends -> SUBSET Event] /\ following' \in [Backends -> 0 .. MaxEpoch]
      BY <2>2, <3>1, BoundAssumption DEF ReadingOK
    <3> QED BY <2>2, <3>1, <3>2, <3>3, AnswersCut DEF ReadingOK
  <2> QED BY <1>1, <2>1, <2>2
<1>3. ObservedOK'
  <2>1. faults' \in 0 .. MaxFaults
    BY <1>1, FaultTyped DEF TypeOK
  <2>2. registering' \in [Backends -> 0 .. MaxEpoch]
    BY <1>1, TypesOf, BoundAssumption DEF ObservedOK
  <2> QED BY <1>1, <2>1, <2>2, TypesOf DEF ObservedOK, appliedVars
<1> QED BY <1>1, <1>2, <1>3, KeptTypes, TypesOf

\* The event a backend is at: the first of its answer, registered and journaled.
LEMMA AtEvent ==
  ASSUME TypeOK, Written, NEW b \in Backends, events[b] # {}
  PROVE  /\ First(b) \in events[b] /\ First(b) \in Event /\ First(b) \in Known
         /\ First(b).seq \in 1 .. MaxSeq /\ First(b).seq <= seq
         /\ First(b).epoch # 0 /\ First(b).epoch \in Epochs
         /\ \A y \in events[b] : First(b).seq <= y.seq
<1>1. First(b) \in events[b] /\ First(b) \in Event /\ First(b) \in Known
      /\ \A y \in events[b] : First(b).seq <= y.seq
  BY FirstIn, KnownEvents
<1> HIDE DEF First
<1> QED BY <1>1, EventFields, BoundAssumption DEF Written

\* runner_reports.apply, case by case: the effects of an event that is new, and
\* what is left to do with it.
LEMMA ApplyMeans ==
  ASSUME NEW b \in Backends, Apply(b)
  PROVE  /\ events[b] # {} /\ following[b] = 0 /\ launched[b] = worker_epoch
         /\ \/ Claimed(First(b)) = "new" /\ Effects(First(b))
               /\ applied_seq' = [applied_seq EXCEPT ![First(b).epoch] = First(b).seq]
            \/ Claimed(First(b)) # "new"
               /\ UNCHANGED <<worker_status, session_run, ended, effects, applied_seq>>
         /\ \/ Claimed(First(b)) = "done" /\ HandOn(b, First(b), launched[b])
            \/ Claimed(First(b)) # "done"
               /\ following' = [following EXCEPT ![b] = launched[b]]
               /\ UNCHANGED <<launched, acked, events, journal>>
         /\ UNCHANGED <<seq, live_launch, live_epoch, up, process, epoch, working, run>>
         /\ UNCHANGED <<worker_epoch, projected_seq, registering, followed, holder, faults>>
<1> DEFINE x == First(b)
<1> HIDE DEF x
<1> QED BY Zenon DEF Apply, x

\* It keeps the types.
LEMMA ApplyTyped ==
  ASSUME TypeOK, Written, NEW b \in Backends, Apply(b)
  PROVE  RestOK'
<1> DEFINE x == First(b)
<1>1. /\ events[b] # {} /\ following[b] = 0 /\ launched[b] = worker_epoch
      /\ \/ Effects(x) /\ applied_seq' = [applied_seq EXCEPT ![x.epoch] = x.seq]
         \/ UNCHANGED <<worker_status, session_run, ended, effects, applied_seq>>
      /\ \/ HandOn(b, x, launched[b])
         \/ following' = [following EXCEPT ![b] = launched[b]]
            /\ UNCHANGED <<launched, acked, events, journal>>
      /\ UNCHANGED <<seq, live_launch, live_epoch, up, process, epoch, working, run>>
      /\ UNCHANGED <<worker_epoch, projected_seq, registering, followed, holder, faults>>
  BY ApplyMeans
<1>2. /\ x \in events[b] /\ x \in Event /\ x.seq \in 1 .. MaxSeq
      /\ x.epoch # 0 /\ x.epoch \in Epochs /\ x.of \in 1 .. MaxProc
  BY <1>1, AtEvent DEF Event
<1> HIDE DEF x
<1>3. journal' \subseteq journal /\ ReadingOK'
  <2>1. CASE HandOn(b, x, launched[b])
    BY <1>2, <2>1, HandOnMeans DEF Unacked
  <2>2. CASE following' = [following EXCEPT ![b] = launched[b]]
             /\ UNCHANGED <<launched, acked, events, journal>>
    BY <2>2, TypesOf DEF ReadingOK
  <2> QED BY <1>1, <2>1, <2>2
<1>4. RunnerOK'
  BY <1>1, <1>3, JournalTyped
<1>5. SeatOK' /\ ObservedOK'
  <2>1. CASE UNCHANGED <<worker_status, session_run, ended, effects, applied_seq>>
    BY <1>1, <2>1, TypesOf DEF SeatOK, ObservedOK
  <2>2. CASE Effects(x) /\ applied_seq' = [applied_seq EXCEPT ![x.epoch] = x.seq]
    <3>1. SeatOK /\ ObservedOK
      BY TypesOf
    <3>2. effects' \in Seq(1 .. MaxSeq)
      BY <1>2, <2>2, <3>1, AppendProperties DEF Effects, ObservedOK
    <3>3. ended' \in SUBSET ((1 .. MaxProc) \X (0 .. MaxProc))
      <4>1. Ends(x) => worker_epoch \in 1 .. MaxEpoch
        BY <1>2, <3>1, BoundAssumption DEF Ends, SeatOK
      <4>2. Ends(x) => <<x.of, holder[worker_epoch]>> \in (1 .. MaxProc) \X (0 .. MaxProc)
        BY <1>2, <3>1, <4>1 DEF ObservedOK
      <4> QED BY <2>2, <3>1, <4>2 DEF Effects, ObservedOK
    <3>4. /\ session_run' \in Epochs \X (0 .. MaxSeq)
          /\ worker_status' \in {"idle", "running"}
      BY <1>2, <2>2, <3>1, BoundAssumption DEF Effects, SeatOK
    <3>5. applied_seq' \in [Epochs -> 0 .. MaxSeq]
      BY <1>2, <2>2, <3>1 DEF SeatOK
    <3> QED BY <1>1, <3>1, <3>2, <3>3, <3>4, <3>5 DEF SeatOK, ObservedOK
  <2> QED BY <1>1, <2>1, <2>2
<1> QED BY <1>3, <1>4, <1>5, TypesOf

\* And so does following an event through.
LEMMA FollowTyped ==
  ASSUME TypeOK, Written, DoneWith, NEW b \in Backends, Follow(b)
  PROVE  RestOK'
<1> DEFINE x == First(b)
<1>1. /\ following[b] # 0
      /\ projected_seq' = [projected_seq EXCEPT ![x.epoch] = IF @ < x.seq THEN x.seq ELSE @]
      /\ followed' = followed \cup {x.seq}
      /\ HandOn(b, x, following[b])
      /\ UNCHANGED <<seq, live_launch, live_epoch, up, process, epoch, working, run>>
      /\ UNCHANGED <<worker_epoch, worker_status, session_run, applied_seq>>
      /\ UNCHANGED <<registering, effects, ended, holder, faults>>
  BY DEF Follow
<1>2. /\ x \in events[b] /\ x \in Event /\ x.seq \in 1 .. MaxSeq /\ x.epoch \in Epochs
  BY <1>1, AtEvent DEF DoneWith, ReadsOn
<1> HIDE DEF x
<1>3. journal' \subseteq journal /\ ReadingOK'
  BY <1>1, <1>2, HandOnMeans DEF Unacked
<1>4. RunnerOK'
  BY <1>1, <1>3, JournalTyped
<1>5. SeatOK'
  BY <1>1, <1>2, TypesOf DEF SeatOK
<1>6. ObservedOK'
  BY <1>1, <1>2, TypesOf DEF ObservedOK
<1> QED BY <1>3, <1>4, <1>5, <1>6, TypesOf

\* A run that was killed in the middle was begun with an event.
LEMMA CutTyped ==
  ASSUME TypeOK, RunNamed, RunsEnd, [Next]_vars
  PROVE  cut' \in SUBSET (1 .. MaxSeq)
<1>1. CASE Killed
  <2>1. ASSUME working PROVE run[2] \in 1 .. MaxSeq
    <3>1. run[2] \in 0 .. MaxSeq
      BY TypesOf DEF RunnerOK
    <3>2. up = "alive" /\ run # NoRun
      BY <2>1, Zenon DEF RunsEnd
    <3>3. run[2] # 0
      BY <3>2, Zenon DEF RunNamed, RunHeard
    <3> QED BY <3>1, <3>3, BoundAssumption
  <2>2. cut' = IF working THEN cut \cup {run[2]} ELSE cut
    BY <1>1 DEF Killed
  <2> QED BY <2>1, <2>2, TypesOf
<1>2. CASE ~Killed
  <2>1. UNCHANGED cut
    BY <1>2 DEF Next, Runner, Start, Open, Finish, ReportExit, LingerEnds, Register,
                HandOver, HandOverFails, Drain, DrainLost, Superseded, Apply, ApplyStale,
                Follow, Refused, Crash, vars
  <2> QED BY <2>1, TypesOf
<1> QED BY <1>1, <1>2

\* Every step keeps the types.
LEMMA NextTyped == IInv /\ [Next]_vars => TypeOK'
<1> SUFFICES ASSUME IInv, [Next]_vars PROVE RestOK'
  BY Parts, CutTyped, TypesOf
<1> TypeOK /\ Written /\ DoneWith /\ HoldersKnown
  BY Parts
<1>1. CASE Runner
  BY <1>1, StartTyped, OpenTyped, FinishTyped, ReportExitTyped, EndTyped DEF Runner
<1>2. ASSUME NEW b \in Backends, Register(b) \/ HandOver(b) \/ HandOverFails(b)
      PROVE  RestOK'
  BY <1>2, RegisterTyped, HandOverTyped, HandOverFailsTyped
<1>3. ASSUME NEW b \in Backends,
             Drain(b) \/ DrainLost(b) \/ Apply(b) \/ Follow(b)
      PROVE  RestOK'
  BY <1>3, DrainTyped, ApplyTyped, FollowTyped
<1>4. ASSUME NEW b \in Backends,
             Superseded(b) \/ ApplyStale(b) \/ Refused(b) \/ Crash(b)
      PROVE  RestOK'
  BY <1>4, GivenUpTyped
<1>5. CASE UNCHANGED vars
  BY <1>5, KeptTypes, TypesOf DEF vars
<1> QED BY <1>1, <1>2, <1>3, <1>4, <1>5, Zenon DEF Next

-------------------------------------------------------------------------------
(* What is journaled, and what is behind a position.                       *)

\* What is known after a step is in the journal or in an answer of then.
LEMMA KnownThen ==
  /\ journal' \subseteq Known'
  /\ \A b \in Backends : events'[b] \subseteq Known'
  /\ \A x \in Known' : x \in journal' \/ \E b \in Backends : x \in events'[b]
BY DEF Known

\* The runner's own events: each takes the next sequence, stamped with what the
\* runner is registered under, with nothing or with an earlier registration.
LEMMA Emits ==
  ASSUME TypeOK, HoldersKnown, Start \/ Open \/ Finish \/ ReportExit
  PROVE  \E new \in SUBSET Event :
           /\ journal' = journal \cup new
           /\ seq' \in Nat /\ seq <= seq'
           /\ \A x \in new : seq < x.seq /\ x.seq <= seq'
           /\ \A x, y \in new : x.seq = y.seq => x = y
           /\ \A s \in seq + 1 .. seq' : \E x \in new : x.seq = s
           /\ \A x \in new : x.epoch = 0 => epoch' = 0
<1>1. seq \in Nat
  BY BoundAssumption DEF TypeOK
<1>2. CASE Start
  <2> DEFINE new == IF live_launch = 0 THEN {}
                    ELSE {Emitted(1, "exited", live_launch, LeftUnder)}
  <2>1. journal' = journal \cup new /\ seq' = seq + Cardinality(new)
        /\ seq + Cardinality(new) <= MaxSeq
    BY <1>2 DEF Start
  <2>2. CASE live_launch = 0
    BY <1>1, <2>1, <2>2, FS_EmptySet
  <2>3. CASE live_launch # 0
    <3> DEFINE x == Emitted(1, "exited", live_launch, LeftUnder)
    <3>1. new = {x} /\ seq' = seq + 1 /\ seq + 1 <= MaxSeq
      BY <2>1, <2>3, FS_Singleton
    <3>2. LeftUnder \in Epochs /\ LeftUnder # 0 /\ live_launch \in 1 .. MaxProc
      BY <2>3, BoundAssumption DEF LeftUnder, Epochs, NEVER_REGISTERED, TypeOK
    <3>3. x \in Event /\ x.seq = seq + 1 /\ x.epoch # 0
      BY <3>1, <3>2, EmittedTyped DEF Emitted
    <3> HIDE DEF x
    <3>4. journal' = journal \cup {x}
      BY <2>1, <3>1
    <3> {x} \in SUBSET Event
      BY <3>3
    <3> WITNESS {x} \in SUBSET Event
    <3> QED BY <1>1, <3>1, <3>3, <3>4
  <2> QED BY <2>2, <2>3
<1>3. CASE Open \/ Finish
  <2>1. PICK kind \in {"running", "idle"} :
          /\ up = "alive" /\ seq < MaxSeq /\ seq' = seq + 1 /\ epoch' = epoch
          /\ journal' = journal \cup {Emitted(1, kind, process, epoch)}
    BY <1>3 DEF Open, Finish
  <2> DEFINE x == Emitted(1, kind, process, epoch)
  <2>2. seq + 1 <= MaxSeq
    BY <1>1, <2>1, BoundAssumption
  <2>3. x \in Event
    BY <2>1, <2>2, OwnTyped
  <2>4. x.seq = seq + 1 /\ x.epoch = epoch
    BY DEF Emitted
  <2>5. journal' = journal \cup {x}
    BY <2>1
  <2> HIDE DEF x
  <2> {x} \in SUBSET Event
    BY <2>3
  <2> WITNESS {x} \in SUBSET Event
  <2> QED BY <1>1, <2>1, <2>3, <2>4, <2>5
<1>4. CASE ReportExit
  <2>1. PICK n \in {1, 2} :
          /\ n = IF working THEN 2 ELSE 1
          /\ seq + n <= MaxSeq /\ seq' = seq + n
          /\ journal' = journal \cup {Emitted(n, "exited", process, epoch)}
                          \cup (IF n = 2 THEN {Emitted(1, "idle", process, epoch)} ELSE {})
    BY <1>4, ExitJournaled
  <2>2. up = "alive" /\ epoch' \in {epoch, 0}
    BY <1>4 DEF ReportExit
  <2> DEFINE x == Emitted(n, "exited", process, epoch)
             y == Emitted(1, "idle", process, epoch)
  <2>3. x \in Event
    BY <2>1, <2>2, OwnTyped
  <2>4. n = 2 => y \in Event
    <3>1. n = 2 => seq + 1 <= MaxSeq
      BY <1>1, <2>1, BoundAssumption
    <3> QED BY <2>2, <3>1, OwnTyped
  <2>5. /\ x.seq = seq + n /\ x.epoch = epoch
        /\ y.seq = seq + 1 /\ y.epoch = epoch
    BY DEF Emitted
  <2> HIDE DEF x, y
  <2>6. CASE n = 1
    <3>1. journal' = journal \cup {x}
      BY <2>1, <2>6 DEF x
    <3> {x} \in SUBSET Event
      BY <2>3
    <3> WITNESS {x} \in SUBSET Event
    <3> QED BY <1>1, <2>1, <2>2, <2>3, <2>5, <2>6, <3>1
  <2>7. CASE n = 2
    <3>1. journal' = journal \cup {x, y}
      BY <2>1, <2>7 DEF x, y
    <3> {x, y} \in SUBSET Event
      BY <2>3, <2>4, <2>7
    <3> WITNESS {x, y} \in SUBSET Event
    <3> QED BY <1>1, <2>1, <2>2, <2>3, <2>4, <2>5, <2>7, <3>1
  <2> QED BY <2>6, <2>7
<1> QED BY <1>2, <1>3, <1>4

\* What a step that journals leaves to hold of sequences and positions.
LEMMA Journals ==
  ASSUME IInv, Start \/ Open \/ Finish \/ ReportExit
  PROVE  /\ AppliedOnceInOrder' /\ NothingLost'
         /\ Written' /\ PositionsTell' /\ DoneWith'
<1> TypeOK /\ AppliedOnceInOrder /\ NothingLost /\ Written /\ PositionsTell /\ DoneWith
    /\ HoldersKnown
  BY Parts
<1>1. PICK new \in SUBSET Event :
        /\ journal' = journal \cup new
        /\ seq' \in Nat /\ seq <= seq'
        /\ \A x \in new : seq < x.seq /\ x.seq <= seq'
        /\ \A x, y \in new : x.seq = y.seq => x = y
        /\ \A s \in seq + 1 .. seq' : \E x \in new : x.seq = s
        /\ \A x \in new : x.epoch = 0 => epoch' = 0
  BY Emits
<1>2. /\ UNCHANGED <<seatVars, registering, readingVars, appliedVars, holder, faults>>
      /\ epoch' \in {epoch, 0}
  BY DEF Start, Open, Finish, ReportExit
<1>3. /\ UNCHANGED <<effects, followed, applied_seq, projected_seq>>
      /\ UNCHANGED <<events, acked, following>>
  BY <1>2 DEF seatVars, readingVars, appliedVars
<1>4. Known' = Known \cup new
  BY <1>1, <1>3 DEF Known
<1>5. seq \in Nat /\ Len(effects) \in Nat
  BY CountApplied, BoundAssumption DEF TypeOK
<1>6. Known \in SUBSET Event /\ \A x \in Known \cup new : x.seq \in Nat
  BY KnownEvents, EventFields
<1>7. Written'
  <2>1. Len(effects') <= seq'
    BY <1>1, <1>3, <1>5 DEF Written
  <2>2. \A x \in Known' : x.seq <= seq'
    BY <1>1, <1>4, <1>5, <1>6 DEF Written
  <2>3. \A x, y \in Known' : x.seq = y.seq => x = y
    BY <1>1, <1>4, <1>5, <1>6 DEF Written
  <2>4. \A b \in Backends : \A x \in events'[b] : x.epoch # 0
    BY <1>3 DEF Written
  <2>5. \A x \in journal' : x.epoch = 0 => epoch' = 0 /\ Len(effects') < x.seq
    BY <1>1, <1>2, <1>3, <1>5, <1>6 DEF Written
  <2> QED BY <2>1, <2>2, <2>3, <2>4, <2>5 DEF Written
<1>8. PositionsTell'
  BY <1>1, <1>3, <1>4, <1>5, <1>6 DEF PositionsTell, Written
<1>9. DoneWith'
  <2>1. \A b \in Backends : First(b)' = First(b)
    BY <1>3, Zenon DEF First
  <2> QED BY <1>3, <2>1 DEF DoneWith, ReadsOn
<1>10. NothingLost'
  BY <1>1, <1>3, <1>5 DEF NothingLost
<1>11. AppliedOnceInOrder'
  BY <1>3 DEF AppliedOnceInOrder
<1> QED BY <1>7, <1>8, <1>9, <1>10, <1>11

\* A backend that is left alone reads on, whatever took effect or was followed
\* through meanwhile.
LEMMA ReadsOnLeft ==
  ASSUME TypeOK, NEW b \in Backends, ReadsOn(b),
         events'[b] = events[b], acked'[b] = acked[b], following'[b] = following[b],
         Len(effects') \in Nat, Len(effects) <= Len(effects'), followed \subseteq followed'
  PROVE  ReadsOn(b)'
<1>1. First(b)' = First(b)
  BY Zenon DEF First
<1>2. following[b] # 0 => First(b).seq \in Nat
  BY FirstIn, EventFields DEF ReadsOn
<1> HIDE DEF First
<1>3. following'[b] # 0 => events'[b] # {} /\ First(b)'.seq <= Len(effects')
  BY <1>1, <1>2, CountApplied DEF ReadsOn
<1>4. \A x \in events'[b] : \A s \in 1 .. x.seq : s \in followed' \/ \E y \in events'[b] : y.seq = s
  BY DEF ReadsOn
<1>5. 1 .. acked'[b] \subseteq followed'
  BY DEF ReadsOn
<1> QED BY <1>3, <1>4, <1>5 DEF ReadsOn

\* So does one that starts its answer over.
LEMMA ReadsOnAnew ==
  ASSUME NEW b \in Backends, events'[b] = {}, following'[b] = 0,
         1 .. acked'[b] \subseteq followed'
  PROVE  ReadsOn(b)'
  BY DEF ReadsOn

\* And one that handed on what was done with.
LEMMA ReadsOnPast ==
  ASSUME TypeOK, NEW b \in Backends, ReadsOn(b), NEW x \in events[b],
         events'[b] = events[b] \ {x}, following'[b] = 0, acked'[b] = x.seq,
         followed \subseteq followed', 1 .. x.seq \subseteq followed'
  PROVE  ReadsOn(b)'
<1>1. x \in Event
  BY DEF TypeOK
<1>2. x.seq \in 1 .. x.seq
  BY <1>1, EventFields
<1>3. ASSUME NEW z \in events'[b], NEW s \in 1 .. z.seq, s \notin followed'
      PROVE  \E y \in events'[b] : y.seq = s
  <2>1. PICK y \in events[b] : y.seq = s
    BY <1>3 DEF ReadsOn
  <2>2. y # x
    BY <1>2, <1>3, <2>1
  <2> QED BY <2>1, <2>2
<1> QED BY <1>3 DEF ReadsOn

\* Whoever comes to an event, all before it was done with, and all or all but it
\* took effect.
LEMMA ComesNext ==
  ASSUME TypeOK, Written, DoneWith, NEW b \in Backends, events[b] # {}
  PROVE  /\ \A s \in 1 .. First(b).seq : s # First(b).seq => s \in followed
         /\ First(b).seq <= Len(effects) + 1
<1> DEFINE x == First(b)
<1>1. /\ x \in events[b] /\ x.seq \in 1 .. MaxSeq
      /\ \A y \in events[b] : x.seq <= y.seq /\ y.seq \in Nat
  BY AtEvent, EventFields DEF TypeOK
<1> HIDE DEF x
<1>2. ASSUME NEW s \in 1 .. x.seq, s # x.seq PROVE s \in followed
  <2>1. SUFFICES ASSUME NEW y \in events[b], y.seq = s PROVE FALSE
    BY <1>1 DEF DoneWith, ReadsOn
  <2> QED BY <1>1, <1>2, <2>1
<1>3. x.seq <= Len(effects) + 1
  <2>1. CASE x.seq = 1
    BY <2>1, CountApplied
  <2>2. CASE x.seq > 1
    <3>1. x.seq - 1 \in followed
      BY <1>1, <1>2, <2>2
    <3> QED BY <1>1, <3>1, CountApplied DEF DoneWith
  <2> QED BY <1>1, <2>1, <2>2
<1> QED BY <1>2, <1>3 DEF x

\* A step that journals nothing, and forgets or hands over what is there, leaves
\* what is known of sequences and positions.
LEMMA Forgetting ==
  ASSUME TypeOK, Written, PositionsTell,
         journal' \subseteq journal,
         \A b \in Backends : \A x \in events'[b] :
           x \in events[b] \/ (x \in journal /\ x.epoch # 0),
         seq' = seq, epoch' \in {epoch, 0}, UNCHANGED <<effects, applied_seq>>
  PROVE  Written' /\ PositionsTell' /\ Known' \subseteq Known
<1>1. Known' \subseteq Known
  BY KnownEvents, KnownThen
<1>2. Written'
  <2>1. \A x \in Known' : x.seq <= seq'
    BY <1>1 DEF Written
  <2>2. \A x, y \in Known' : x.seq = y.seq => x = y
    BY <1>1 DEF Written
  <2>3. \A b \in Backends : \A x \in events'[b] : x.epoch # 0
    BY DEF Written
  <2>4. \A x \in journal' : x.epoch = 0 => epoch' = 0 /\ Len(effects') < x.seq
    BY DEF Written
  <2>5. Len(effects') <= seq'
    BY DEF Written
  <2> QED BY <2>1, <2>2, <2>3, <2>4, <2>5 DEF Written
<1>3. PositionsTell'
  BY <1>1 DEF PositionsTell
<1> QED BY <1>1, <1>2, <1>3

\* What the journal loses by an acknowledgement was done with.
LEMMA LosesNothing ==
  ASSUME TypeOK, NothingLost, seq' = seq, followed \subseteq followed',
         NEW n \in Nat, 1 .. n \subseteq followed', journal' \in {journal, Unacked(n)}
  PROVE  NothingLost' /\ journal' \subseteq journal
<1>1. journal' \subseteq journal
  BY DEF Unacked
<1>2. ASSUME NEW s \in 1 .. seq, s \notin followed'
      PROVE  \E x \in journal' : x.seq = s
  <2>1. PICK x \in journal : x.seq = s
    BY <1>2 DEF NothingLost
  <2>2. s > n
    BY <1>2 DEF TypeOK
  <2> QED BY <2>1, <2>2 DEF Unacked
<1> QED BY <1>1, <1>2 DEF NothingLost

\* What the journal, the seat and the readings promise of the order of effects.
InOrder ==
  AppliedOnceInOrder /\ NothingLost /\ Written /\ PositionsTell /\ DoneWith

\* What a step leaves alone, or empties, keeps it.
LEMMA QuietInOrder ==
  ASSUME TypeOK, InOrder,
         UNCHANGED <<journal, seq, effects, followed, applied_seq, projected_seq>>,
         epoch' \in {epoch, 0},
         \A b \in Backends :
           \/ events'[b] = events[b] /\ acked'[b] = acked[b] /\ following'[b] = following[b]
           \/ events'[b] = {} /\ acked'[b] \in {acked[b], 0} /\ following'[b] = 0
  PROVE  InOrder'
<1>1. Written' /\ PositionsTell'
  BY Forgetting DEF InOrder
<1>2. ASSUME NEW b \in Backends PROVE ReadsOn(b)'
  <2>1. ReadsOn(b) /\ Len(effects) \in Nat
    BY CountApplied DEF InOrder, DoneWith
  <2>2. CASE events'[b] = events[b] /\ acked'[b] = acked[b] /\ following'[b] = following[b]
    BY <2>1, <2>2, ReadsOnLeft
  <2>3. CASE events'[b] = {} /\ acked'[b] \in {acked[b], 0} /\ following'[b] = 0
    <3>1. 1 .. acked'[b] \subseteq followed'
      BY <2>1, <2>3 DEF ReadsOn
    <3> QED BY <2>3, <3>1, ReadsOnAnew
  <2> QED BY <2>2, <2>3
<1>3. DoneWith'
  BY <1>2 DEF DoneWith, InOrder
<1>4. AppliedOnceInOrder' /\ NothingLost'
  BY DEF AppliedOnceInOrder, NothingLost, InOrder
<1> QED BY <1>1, <1>3, <1>4 DEF InOrder

\* The steps that touch neither journal nor positions, and those that give up
\* an answer.
LEMMA StopsInOrder ==
  ASSUME TypeOK, InOrder, NEW b \in Backends,
         \/ LingerEnds \/ Killed \/ Register(b) \/ HandOverFails(b)
         \/ Superseded(b) \/ ApplyStale(b) \/ Refused(b) \/ Crash(b)
         \/ UNCHANGED vars
  PROVE  InOrder'
<1>1. ReadingOK
  BY TypesOf
<1>2. CASE LingerEnds \/ Killed \/ Register(b) \/ HandOverFails(b) \/ UNCHANGED vars
  <2>1. /\ UNCHANGED <<journal, seq, effects, followed, applied_seq, projected_seq>>
        /\ epoch' \in {epoch, 0} /\ UNCHANGED <<events, acked, following>>
    BY <1>2 DEF LingerEnds, Killed, Register, HandOverFails, vars, runnerVars, seatVars,
                readingVars, appliedVars
  <2> QED BY <2>1, QuietInOrder
<1>3. CASE Superseded(b) \/ ApplyStale(b) \/ Refused(b) \/ Crash(b)
  <2>1. /\ UNCHANGED <<journal, seq, effects, followed, applied_seq, projected_seq>>
        /\ epoch' = epoch
        /\ \/ Forget(b)
           \/ /\ events' = [events EXCEPT ![b] = {}] /\ acked' = acked
              /\ \/ following' = following /\ following[b] = 0
                 \/ following' = [following EXCEPT ![b] = 0]
    BY <1>3 DEF Superseded, ApplyStale, Refused, Crash, runnerVars, seatVars, appliedVars
  <2>2. ASSUME NEW c \in Backends
        PROVE  \/ events'[c] = events[c] /\ acked'[c] = acked[c] /\ following'[c] = following[c]
               \/ events'[c] = {} /\ acked'[c] \in {acked[c], 0} /\ following'[c] = 0
    <3>1. CASE Forget(b)
      BY <3>1, ForgetMeans DEF InOrder
    <3>2. CASE ~ Forget(b)
      BY <1>1, <2>1, <3>2 DEF ReadingOK
    <3> QED BY <3>1, <3>2
  <2> QED BY <2>1, <2>2, QuietInOrder
<1> QED BY <1>2, <1>3

\* Registration restamps only what nobody was handed.
LEMMA HandOverInOrder ==
  ASSUME TypeOK, InOrder, NEW b \in Backends, HandOver(b)
  PROVE  InOrder'
<1> DEFINE e == registering[b]
<1>1. e \in 1 .. MaxEpoch
  BY BoundAssumption DEF HandOver, TypeOK
<1> HIDE DEF e
<1>2. /\ epoch' = e /\ journal' = Restamped(e)
      /\ UNCHANGED <<seq, effects, followed, applied_seq, projected_seq>>
      /\ UNCHANGED <<events, acked, following>>
  BY DEF HandOver, e, seatVars, appliedVars
<1>3. /\ journal \in SUBSET Event /\ \A x, y \in Known : x.seq = y.seq => x = y
      /\ journal \subseteq Known
  BY KnownEvents DEF TypeOK, InOrder, Written
<1>4. /\ \A y \in journal' : \E x \in journal :
           /\ y.seq = x.seq
           /\ y.epoch = IF x.epoch = 0 THEN e ELSE x.epoch
           /\ x.epoch # 0 => y = x
      /\ \A x \in journal : \E y \in journal' : y.seq = x.seq
      /\ \A y, z \in journal' : y.seq = z.seq => y = z
  BY <1>1, <1>2, <1>3, Restamps
<1>5. \A y \in Known' : y \in Known \/ (y \in journal' /\ y.epoch # 0)
  BY <1>1, <1>2, <1>4, KnownThen, KnownEvents
<1>6. Written'
  <2>1. \A y \in Known' : y.seq <= seq'
    BY <1>2, <1>3, <1>4, <1>5 DEF InOrder, Written
  <2>2. ASSUME NEW y \in Known', NEW z \in Known', y.seq = z.seq PROVE y = z
    <3>1. CASE y \in journal' /\ z \in journal'
      BY <1>4, <2>2, <3>1
    <3>2. ASSUME NEW v \in journal', NEW c \in Backends, NEW w \in events'[c], v.seq = w.seq
          PROVE  v = w
      <4>1. PICK x \in journal : v.seq = x.seq /\ (x.epoch # 0 => v = x)
        BY <1>4
      <4>2. w \in Known /\ w.epoch # 0
        BY <1>2, <3>2, KnownEvents DEF InOrder, Written
      <4> QED BY <1>3, <3>2, <4>1, <4>2
    <3>3. ASSUME NEW c \in Backends, NEW d \in Backends, y \in events'[c], z \in events'[d]
          PROVE  y = z
      BY <1>2, <1>3, <2>2, <3>3, KnownEvents
    <3> QED BY <2>2, <3>1, <3>2, <3>3, KnownThen
  <2>3. \A c \in Backends : \A x \in events'[c] : x.epoch # 0
    BY <1>2 DEF InOrder, Written
  <2>4. \A y \in journal' : y.epoch # 0
    BY <1>1, <1>4
  <2>5. Len(effects') <= seq'
    BY <1>2 DEF InOrder, Written
  <2> QED BY <2>1, <2>2, <2>3, <2>4, <2>5 DEF Written
<1>7. PositionsTell'
  <2>1. ASSUME NEW y \in Known', y.seq <= Len(effects) PROVE y \in Known
    <3>1. CASE y \in journal'
      <4>1. PICK x \in journal : y.seq = x.seq /\ (x.epoch # 0 => y = x)
        BY <1>4, <3>1
      <4>2. x.epoch # 0
        <5>1. x.seq \in Nat /\ Len(effects) \in Nat
          BY <1>3, EventFields, CountApplied
        <5> QED BY <2>1, <4>1, <5>1 DEF InOrder, Written
      <4> QED BY <1>3, <4>1, <4>2
    <3> QED BY <1>2, <2>1, <3>1, KnownThen, KnownEvents
  <2> QED BY <1>2, <2>1 DEF PositionsTell, InOrder
<1>8. DoneWith'
  <2>1. Len(effects) \in Nat
    BY CountApplied
  <2>2. \A c \in Backends : ReadsOn(c)'
    BY <1>2, <2>1, ReadsOnLeft DEF InOrder, DoneWith
  <2> QED BY <1>2, <2>2 DEF DoneWith, InOrder
<1>9. NothingLost'
  BY <1>2, <1>4 DEF NothingLost, InOrder
<1>10. AppliedOnceInOrder'
  BY <1>2 DEF AppliedOnceInOrder, InOrder
<1> QED BY <1>6, <1>7, <1>8, <1>9, <1>10 DEF InOrder

\* A read: what is acknowledged was done with, and the page it brings goes on
\* from there.
LEMMA DrainInOrder ==
  ASSUME TypeOK, InOrder, epoch \in Nat, NEW b \in Backends, Drain(b) \/ DrainLost(b)
  PROVE  InOrder'
<1>1. /\ launched[b] # 0 /\ events[b] = {} /\ epoch = launched[b]
      /\ journal' = Unacked(acked[b])
      /\ UNCHANGED <<seq, epoch, effects, followed, applied_seq, projected_seq>>
      /\ UNCHANGED <<acked, following>>
      /\ events' = [events EXCEPT ![b] = PageOf(journal')] \/ UNCHANGED events
  BY DEF Drain, DrainLost, Answers, seatVars, readingVars, appliedVars
<1>2. 1 .. acked[b] \subseteq followed /\ acked[b] \in Nat
  BY BoundAssumption DEF InOrder, DoneWith, ReadsOn, TypeOK
<1>3. NothingLost' /\ journal' \subseteq journal
  BY <1>1, <1>2, LosesNothing DEF InOrder
<1>4. \A x \in journal : x.epoch # 0
  BY <1>1 DEF InOrder, Written
<1>5. /\ journal' \in SUBSET Event /\ \A x, y \in journal' : x.seq = y.seq => x = y
      /\ \A x \in journal' : x.seq \in Nat /\ x.seq \in 1 .. seq
  <2>1. journal \in SUBSET Event /\ journal \subseteq Known /\ seq \in Nat
    BY KnownEvents, TypesOf, BoundAssumption DEF RunnerOK
  <2>2. \A x, y \in journal' : x.seq = y.seq => x = y
    BY <1>3, <2>1 DEF InOrder, Written
  <2>3. \A x \in journal' : x.seq \in Nat /\ x.seq > 0 /\ x.seq <= seq
    BY <1>3, <2>1, EventFields DEF InOrder, Written
  <2> QED BY <1>3, <2>1, <2>2, <2>3
<1>6. PageOf(journal') \subseteq journal'
  BY <1>5, PageBounded
<1>7. events \in [Backends -> SUBSET Event]
  BY DEF TypeOK
<1>8. \A c \in Backends : c # b => events'[c] = events[c]
  BY <1>1, <1>7
<1>9. events'[b] \in {PageOf(journal'), {}}
  BY <1>1, <1>7
<1>10. \A c \in Backends : \A x \in events'[c] : x \in events[c] \/ (x \in journal /\ x.epoch # 0)
  BY <1>3, <1>4, <1>6, <1>8, <1>9
<1>11. Written' /\ PositionsTell'
  BY <1>1, <1>3, <1>10, Forgetting DEF InOrder
<1>12. ASSUME NEW c \in Backends PROVE ReadsOn(c)'
  <2>1. Len(effects) \in Nat /\ ReadsOn(c)
    BY CountApplied DEF InOrder, DoneWith
  <2>2. CASE c # b
    BY <1>1, <1>8, <2>1, <2>2, ReadsOnLeft
  <2>3. CASE c = b
    <3>1. following'[b] = 0
      BY <1>1, <2>1, <2>3 DEF ReadsOn
    <3>2. 1 .. acked'[b] \subseteq followed'
      BY <1>1, <1>2
    <3>3. ASSUME NEW x \in events'[b], NEW s \in 1 .. x.seq, s \notin followed'
          PROVE  \E y \in events'[b] : y.seq = s
      <4>1. events'[b] = PageOf(journal') /\ x \in PageOf(journal') /\ x \in journal'
        BY <1>6, <1>9, <3>3
      <4>2. s \in 1 .. seq'
        <5>1. x.seq \in 1 .. seq /\ seq \in Nat
          BY <1>5, <4>1, TypesOf, BoundAssumption DEF RunnerOK
        <5> QED BY <1>1, <5>1
      <4>3. PICK y \in journal' : y.seq = s
        BY <1>3, <3>3, <4>2 DEF NothingLost
      <4>4. CASE y = x
        BY <4>1, <4>3, <4>4
      <4>5. CASE y # x
        <5>1. y.seq < x.seq /\ y.epoch # 0
          BY <1>3, <1>4, <1>5, <4>1, <4>3, <4>5
        <5>2. y \in PageOf(journal')
          BY <1>5, <4>1, <5>1, PagePassesNone
        <5> QED BY <4>1, <4>3, <5>2
      <4> QED BY <4>4, <4>5
    <3> QED BY <2>3, <3>1, <3>2, <3>3 DEF ReadsOn
  <2> QED BY <2>2, <2>3
<1>13. DoneWith'
  BY <1>1, <1>12 DEF DoneWith, InOrder
<1>14. AppliedOnceInOrder'
  BY <1>1 DEF AppliedOnceInOrder, InOrder
<1> QED BY <1>3, <1>11, <1>13, <1>14 DEF InOrder

\* What is handed on was done with by then, so the rest of the answer and the
\* journal go on from there.
LEMMA HandsOnInOrder ==
  ASSUME TypeOK, InOrder, NEW b \in Backends, NEW x \in events[b], NEW under,
         HandOn(b, x, under), followed \subseteq followed', 1 .. x.seq \subseteq followed',
         UNCHANGED <<seq, epoch, effects, applied_seq>>
  PROVE  /\ NothingLost' /\ Written' /\ PositionsTell'
         /\ \A c \in Backends : ReadsOn(c)'
<1>1. /\ following'[b] = 0 /\ journal' \in {journal, Unacked(x.seq)}
      /\ \/ events'[b] = {} /\ acked'[b] = 0
         \/ events'[b] = events[b] \ {x} /\ acked'[b] = x.seq
      /\ \A c \in Backends \ {b} :
           /\ events'[c] = events[c] /\ acked'[c] = acked[c]
           /\ following'[c] = following[c]
  BY HandOnMeans DEF InOrder
<1>2. x.seq \in Nat
  BY EventFields DEF TypeOK
<1>3. NothingLost' /\ journal' \subseteq journal
  BY <1>1, <1>2, LosesNothing DEF InOrder
<1>4. \A c \in Backends : events'[c] \subseteq events[c]
  BY <1>1
<1>5. Written' /\ PositionsTell'
  BY <1>3, <1>4, Forgetting DEF InOrder
<1>6. ASSUME NEW c \in Backends PROVE ReadsOn(c)'
  <2>1. Len(effects) \in Nat /\ ReadsOn(c) /\ ReadsOn(b)
    BY CountApplied DEF InOrder, DoneWith
  <2>2. CASE c # b
    BY <1>1, <2>1, <2>2, ReadsOnLeft
  <2>3. CASE c = b /\ events'[b] = {} /\ acked'[b] = 0
    BY <1>1, <2>3, ReadsOnAnew
  <2>4. CASE c = b /\ events'[b] = events[b] \ {x} /\ acked'[b] = x.seq
    BY <1>1, <2>1, <2>4, ReadsOnPast
  <2> QED BY <1>1, <2>2, <2>3, <2>4
<1> QED BY <1>3, <1>5, <1>6

\* The effects of an event are those of the next one, or nothing is added.
LEMMA ApplyInOrder ==
  ASSUME TypeOK, InOrder, NEW b \in Backends, Apply(b)
  PROVE  InOrder'
<1> DEFINE x == First(b)
<1> TypeOK /\ AppliedOnceInOrder /\ NothingLost /\ Written /\ PositionsTell /\ DoneWith
  BY DEF InOrder
<1>1. /\ events[b] # {} /\ following[b] = 0
      /\ \/ Claimed(x) = "new" /\ Effects(x)
            /\ applied_seq' = [applied_seq EXCEPT ![x.epoch] = x.seq]
         \/ Claimed(x) # "new" /\ UNCHANGED <<effects, applied_seq>>
      /\ \/ Claimed(x) = "done" /\ HandOn(b, x, launched[b])
         \/ Claimed(x) # "done"
            /\ following' = [following EXCEPT ![b] = launched[b]]
            /\ UNCHANGED <<acked, events, journal>>
      /\ UNCHANGED <<seq, epoch, projected_seq, followed>>
  BY ApplyMeans
<1>2. /\ x \in events[b] /\ x \in Known /\ x.seq \in 1 .. MaxSeq /\ x.seq <= seq
      /\ x.epoch # 0 /\ x.epoch \in Epochs
      /\ x.seq <= Len(effects) + 1
      /\ \A s \in 1 .. x.seq : s # x.seq => s \in followed
  BY <1>1, AtEvent, ComesNext
<1>3. /\ Len(effects) \in Nat /\ seq \in Nat /\ applied_seq[x.epoch] \in Nat
      /\ projected_seq[x.epoch] \in Nat /\ DOMAIN effects = 1 .. Len(effects)
      /\ applied_seq \in [Epochs -> 0 .. MaxSeq]
  <2>1. SeatOK /\ seq \in Nat
    BY TypesOf, BoundAssumption DEF RunnerOK
  <2> QED BY <1>2, <2>1, CountApplied, BoundAssumption DEF SeatOK
<1>4. /\ \A y \in Known : y.seq \in Nat
      /\ \A y \in Known : y.epoch \in Epochs
      /\ following \in [Backends -> 0 .. MaxEpoch]
  BY KnownEvents, EventFields DEF TypeOK
<1>5. First(b) = x
  OBVIOUS
<1> HIDE DEF x
<1>6. CASE Claimed(x) = "new"
  <2>1. x.seq = Len(effects) + 1
    <3>1. applied_seq[x.epoch] < x.seq
      BY <1>6 DEF Claimed
    <3> QED BY <1>2, <1>3, <3>1 DEF PositionsTell
  <2>2. effects' = Append(effects, x.seq)
    BY <1>1, <1>6 DEF Effects
  <2>3. /\ Len(effects') = Len(effects) + 1 /\ DOMAIN effects' = 1 .. Len(effects) + 1
        /\ \A i \in 1 .. Len(effects) + 1 : effects'[i] = IF i <= Len(effects) THEN effects[i] ELSE x.seq
    <3>1. effects \in Seq(1 .. MaxSeq)
      BY DEF TypeOK
    <3>2. /\ Len(Append(effects, x.seq)) = Len(effects) + 1
          /\ \A i \in 1 .. Len(effects) : Append(effects, x.seq)[i] = effects[i]
          /\ Append(effects, x.seq)[Len(effects) + 1] = x.seq
          /\ Append(effects, x.seq) \in Seq(1 .. MaxSeq)
      BY <1>2, <3>1, AppendProperties
    <3>3. DOMAIN Append(effects, x.seq) = 1 .. Len(effects) + 1
      BY <3>2, LenProperties
    <3> QED BY <1>3, <2>2, <3>2, <3>3
  <2>4. /\ UNCHANGED <<acked, events, journal>>
        /\ following' = [following EXCEPT ![b] = launched[b]]
        /\ applied_seq' = [applied_seq EXCEPT ![x.epoch] = x.seq]
    BY <1>1, <1>6
  <2>5. Known' = Known
    BY <2>4 DEF Known
  <2>6. AppliedOnceInOrder'
    BY <1>3, <2>1, <2>3 DEF AppliedOnceInOrder
  <2>7. Written'
    <3>1. \A z \in journal : z.epoch = 0 => epoch = 0 /\ Len(effects) + 1 < z.seq
      <4>1. SUFFICES ASSUME NEW z \in journal, z.epoch = 0 PROVE epoch = 0 /\ Len(effects) + 1 < z.seq
        OBVIOUS
      <4>2. z \in Known /\ epoch = 0 /\ Len(effects) < z.seq
        BY <4>1, KnownEvents DEF Written
      <4>3. z.seq # x.seq
        BY <1>2, <4>1, <4>2 DEF Written
      <4> QED BY <1>3, <1>4, <2>1, <4>2, <4>3
    <3> QED BY <1>1, <1>2, <1>3, <2>1, <2>3, <2>4, <2>5, <3>1 DEF Written
  <2>8. PositionsTell'
    <3>1. ASSUME NEW e \in Epochs PROVE applied_seq'[e] <= Len(effects')
      BY <1>2, <1>3, <2>1, <2>3, <2>4 DEF PositionsTell
    <3>2. ASSUME NEW y \in Known, y.seq <= Len(effects) + 1 PROVE y.seq <= applied_seq'[y.epoch]
      <4>1. CASE y = x
        BY <1>2, <1>3, <2>4, <4>1
      <4>2. CASE y # x
        <5>1. y.seq <= Len(effects)
          BY <1>2, <1>3, <1>4, <2>1, <3>2, <4>2 DEF Written
        <5>2. y.seq <= applied_seq[y.epoch]
          BY <5>1 DEF PositionsTell
        <5> QED BY <1>2, <1>3, <1>4, <2>1, <2>4, <5>1, <5>2
      <4> QED BY <4>1, <4>2
    <3> QED BY <2>3, <2>5, <3>1, <3>2 DEF PositionsTell
  <2>9. ASSUME NEW c \in Backends PROVE ReadsOn(c)'
    <3>1. ReadsOn(c)
      BY DEF DoneWith
    <3>2. CASE c # b
      BY <1>1, <1>3, <1>4, <2>3, <2>4, <3>1, <3>2, ReadsOnLeft
    <3>3. CASE c = b
      <4>1. First(b)' = x
        BY <1>5, <2>4, Zenon DEF First
      <4> QED BY <1>1, <1>2, <1>3, <2>1, <2>3, <2>4, <3>1, <3>3, <4>1 DEF ReadsOn
    <3> QED BY <3>2, <3>3
  <2>10. DoneWith'
    <3>1. \A s \in followed : s \in Nat
      BY DEF TypeOK
    <3> QED BY <1>1, <1>3, <2>3, <2>9, <3>1 DEF DoneWith
  <2>11. NothingLost'
    BY <1>1, <2>4 DEF NothingLost
  <2> QED BY <2>6, <2>7, <2>8, <2>10, <2>11 DEF InOrder
<1>7. CASE Claimed(x) = "unprojected"
  <2>1. /\ UNCHANGED <<effects, applied_seq, acked, events, journal>>
        /\ following' = [following EXCEPT ![b] = launched[b]]
    BY <1>1, <1>7
  <2>2. x.seq <= Len(effects)
    <3>1. x.seq <= applied_seq[x.epoch]
      BY <1>2, <1>3, <1>7 DEF Claimed
    <3> QED BY <1>2, <1>3, <3>1 DEF PositionsTell
  <2>3. Written' /\ PositionsTell'
    BY <1>1, <2>1, Forgetting
  <2>4. ASSUME NEW c \in Backends PROVE ReadsOn(c)'
    <3>1. ReadsOn(c)
      BY DEF DoneWith
    <3>2. CASE c # b
      BY <1>1, <1>3, <1>4, <2>1, <3>1, <3>2, ReadsOnLeft
    <3>3. CASE c = b
      <4>1. First(b)' = x
        BY <1>5, <2>1, Zenon DEF First
      <4> QED BY <1>1, <2>1, <2>2, <3>1, <3>3, <4>1 DEF ReadsOn
    <3> QED BY <3>2, <3>3
  <2>5. DoneWith' /\ NothingLost' /\ AppliedOnceInOrder'
    BY <1>1, <2>1, <2>4 DEF DoneWith, NothingLost, AppliedOnceInOrder
  <2> QED BY <2>3, <2>5 DEF InOrder
<1>8. CASE Claimed(x) = "done"
  <2>1. HandOn(b, x, launched[b]) /\ UNCHANGED <<effects, applied_seq>>
    BY <1>1, <1>8
  <2>2. 1 .. x.seq \subseteq followed
    <3>1. x.seq <= projected_seq[x.epoch]
      BY <1>2, <1>3, <1>8 DEF Claimed
    <3> QED BY <1>2, <1>3, <3>1 DEF DoneWith
  <2>3. NothingLost' /\ Written' /\ PositionsTell' /\ \A c \in Backends : ReadsOn(c)'
    BY <1>1, <1>2, <2>1, <2>2, HandsOnInOrder
  <2>4. DoneWith' /\ AppliedOnceInOrder'
    BY <1>1, <2>1, <2>3 DEF DoneWith, AppliedOnceInOrder
  <2> QED BY <2>3, <2>4 DEF InOrder
<1> QED BY <1>6, <1>7, <1>8 DEF Claimed

\* Following an event through extends what is done with by it at most.
LEMMA FollowInOrder ==
  ASSUME TypeOK, InOrder, NEW b \in Backends, Follow(b)
  PROVE  InOrder'
<1> DEFINE x == First(b)
<1>1. /\ following[b] # 0
      /\ projected_seq' = [projected_seq EXCEPT ![x.epoch] = IF @ < x.seq THEN x.seq ELSE @]
      /\ followed' = followed \cup {x.seq}
      /\ HandOn(b, x, following[b])
      /\ UNCHANGED <<seq, epoch, effects, applied_seq>>
  BY DEF Follow
<1>2. events[b] # {} /\ x.seq <= Len(effects)
  BY <1>1 DEF InOrder, DoneWith, ReadsOn
<1>3. /\ x \in events[b] /\ x.seq \in 1 .. MaxSeq /\ x.epoch \in Epochs
      /\ \A s \in 1 .. x.seq : s # x.seq => s \in followed
  BY <1>2, AtEvent, ComesNext DEF InOrder
<1> HIDE DEF x
<1>4. 1 .. x.seq \subseteq followed'
  BY <1>1, <1>3
<1>5. NothingLost' /\ Written' /\ PositionsTell' /\ \A c \in Backends : ReadsOn(c)'
  BY <1>1, <1>3, <1>4, HandsOnInOrder
<1>6. \A s \in followed' : s <= Len(effects') /\ 1 .. s \subseteq followed'
  BY <1>1, <1>2, <1>4 DEF InOrder, DoneWith
<1>7. \A e \in Epochs : 1 .. projected_seq'[e] \subseteq followed'
  <2>1. projected_seq \in [Epochs -> 0 .. MaxSeq]
    BY DEF TypeOK
  <2> QED BY <1>1, <1>3, <1>4, <2>1 DEF InOrder, DoneWith
<1>8. DoneWith'
  BY <1>5, <1>6, <1>7 DEF DoneWith
<1>9. AppliedOnceInOrder'
  BY <1>1 DEF AppliedOnceInOrder, InOrder
<1> QED BY <1>5, <1>8, <1>9 DEF InOrder

-------------------------------------------------------------------------------
(* Registrations and exits.                                                *)

\* Processes, registrations and who holds them are numbers.
LEMMA Numbers ==
  ASSUME TypeOK
  PROVE  /\ process \in Nat /\ process <= MaxProc /\ epoch \in 0 .. MaxEpoch
         /\ live_launch \in Nat /\ live_launch <= MaxProc /\ live_epoch \in 0 .. MaxEpoch
         /\ worker_epoch \in 0 .. MaxEpoch /\ up \in {"down", "alive", "ending"}
         /\ registering \in [Backends -> 0 .. MaxEpoch]
         /\ holder \in [1 .. MaxEpoch -> 0 .. MaxProc]
         /\ MaxEpoch \in Nat /\ MaxProc \in Nat
<1>1. RunnerOK /\ SeatOK /\ ObservedOK
  BY TypesOf
<1> QED BY <1>1, BoundAssumption DEF RunnerOK, SeatOK, ObservedOK

\* The steps of reading and of work know nothing of registrations; one that
\* gives a registration up hands nothing over.
LEMMA HoldersLeft ==
  ASSUME TypeOK, HoldersKnown,
         UNCHANGED <<worker_epoch, holder, process, epoch, up, live_launch, live_epoch>>,
         \A b \in Backends : registering'[b] \in {registering[b], 0}
  PROVE  HoldersKnown'
<1>1. \A b, c \in Backends : registering'[b] = registering'[c] /\ b # c => registering'[b] = 0
  BY DEF HoldersKnown
<1>2. \A b \in Backends : /\ registering'[b] <= worker_epoch'
                          /\ registering'[b] # 0 => holder'[registering'[b]] = 0
  BY Numbers DEF HoldersKnown
<1> QED BY <1>1, <1>2 DEF HoldersKnown

\* start: the process is a new one, and nobody holds a registration of it.
LEMMA StartHolders ==
  ASSUME TypeOK, HoldersKnown, Start
  PROVE  HoldersKnown'
<1>1. /\ up = "down" /\ process < MaxProc /\ epoch' = 0
      /\ \/ up' = "alive" /\ process' = process + 1 /\ live_launch' = process + 1
         \/ live_launch' = 0 /\ UNCHANGED <<up, process>>
         \/ UNCHANGED <<live_launch, up, process>>
      /\ live_epoch' = IF live_launch' = live_launch THEN live_epoch ELSE 0
      /\ UNCHANGED <<worker_epoch, registering, holder>>
  BY DEF Start, seatVars
<1>2. /\ \A b, c \in Backends : registering'[b] = registering'[c] /\ b # c => registering'[b] = 0
      /\ \A b \in Backends : /\ registering'[b] <= worker_epoch'
                             /\ registering'[b] # 0 => holder'[registering'[b]] = 0
  BY <1>1 DEF HoldersKnown
<1>3. /\ live_launch' <= process' /\ (up' = "alive" => live_launch' = process')
      /\ (up' = "ending" => live_launch' = 0) /\ (up' # "down" => process' # 0)
      /\ (up' = "down" => epoch' = 0)
  BY <1>1, Numbers DEF HoldersKnown
<1>4. live_epoch' # 0 => live_launch' # 0 /\ holder'[live_epoch'] = live_launch'
  BY <1>1, Numbers DEF HoldersKnown
<1>5. \A e \in 1 .. MaxEpoch : /\ holder'[e] <= process'
                               /\ worker_epoch' < e => holder'[e] = 0
                               /\ epoch' = 0 /\ up' # "down" => holder'[e] # process'
  BY <1>1, Numbers DEF HoldersKnown
<1> QED BY <1>1, <1>2, <1>3, <1>4, <1>5 DEF HoldersKnown

\* A runner that ends, with its process or after it, holds no registration.
LEMMA EndHolders ==
  ASSUME TypeOK, HoldersKnown, ReportExit \/ LingerEnds \/ Killed
  PROVE  HoldersKnown'
<1>1. /\ \/ up' = "ending" /\ live_launch' = 0 /\ live_epoch' = 0 /\ epoch' = epoch /\ up = "alive"
         \/ up' = "down" /\ epoch' = 0 /\ UNCHANGED <<live_launch, live_epoch>>
      /\ UNCHANGED <<process, worker_epoch, registering, holder>>
  BY DEF ReportExit, LingerEnds, Killed, seatVars
<1>2. /\ \A b, c \in Backends : registering'[b] = registering'[c] /\ b # c => registering'[b] = 0
      /\ \A b \in Backends : /\ registering'[b] <= worker_epoch'
                             /\ registering'[b] # 0 => holder'[registering'[b]] = 0
  BY <1>1 DEF HoldersKnown
<1>3. \A e \in 1 .. MaxEpoch : /\ holder'[e] <= process'
                               /\ worker_epoch' < e => holder'[e] = 0
                               /\ epoch' = 0 /\ up' # "down" => holder'[e] # process'
  BY <1>1 DEF HoldersKnown
<1> QED BY <1>1, <1>2, <1>3, Numbers DEF HoldersKnown

\* session_state.register issues what nobody holds.
LEMMA RegisterHolders ==
  ASSUME TypeOK, HoldersKnown, NEW b \in Backends, Register(b)
  PROVE  HoldersKnown'
<1>1. /\ worker_epoch < MaxEpoch /\ worker_epoch' = worker_epoch + 1
      /\ registering' = [registering EXCEPT ![b] = worker_epoch + 1]
      /\ UNCHANGED <<holder, process, epoch, up, live_launch, live_epoch>>
  BY DEF Register, runnerVars
<1>2. \A c \in Backends : registering'[c] = IF c = b THEN worker_epoch + 1 ELSE registering[c]
  BY <1>1, Numbers
<1>3. \A c \in Backends : registering[c] <= worker_epoch /\ registering[c] \in Nat
  BY Numbers DEF HoldersKnown
<1>4. \A c, d \in Backends : registering'[c] = registering'[d] /\ c # d => registering'[c] = 0
  BY <1>2, <1>3, Numbers DEF HoldersKnown
<1>5. \A c \in Backends : /\ registering'[c] <= worker_epoch'
                          /\ registering'[c] # 0 => holder'[registering'[c]] = 0
  BY <1>1, <1>2, <1>3, Numbers DEF HoldersKnown
<1>6. \A e \in 1 .. MaxEpoch : /\ holder'[e] <= process'
                               /\ worker_epoch' < e => holder'[e] = 0
                               /\ epoch' = 0 /\ up' # "down" => holder'[e] # process'
  BY <1>1, Numbers DEF HoldersKnown
<1> QED BY <1>1, <1>4, <1>5, <1>6 DEF HoldersKnown

\* Handing it over makes the process its holder, once.
LEMMA HandOverHolders ==
  ASSUME TypeOK, HoldersKnown, NEW b \in Backends, HandOver(b)
  PROVE  HoldersKnown'
<1> DEFINE e == registering[b]
<1>1. /\ e # 0 /\ up # "down" /\ epoch' = e
      /\ live_epoch' = IF live_launch = process THEN e ELSE live_epoch
      /\ holder' = [holder EXCEPT ![e] = process]
      /\ registering' = [registering EXCEPT ![b] = 0]
      /\ UNCHANGED <<live_launch, up, process, worker_epoch>>
  BY DEF HandOver, seatVars
<1>2. e \in 1 .. MaxEpoch /\ holder[e] = 0 /\ e <= worker_epoch
  BY <1>1, Numbers DEF HoldersKnown
<1>3. \A c \in Backends : registering'[c] = IF c = b THEN 0 ELSE registering[c]
  BY <1>1, Numbers
<1>4. \A f \in 1 .. MaxEpoch : holder'[f] = IF f = e THEN process ELSE holder[f]
  BY <1>1, <1>2, Numbers
<1>5. e = registering[b]
  OBVIOUS
<1> HIDE DEF e
<1>6. \A c, d \in Backends : registering'[c] = registering'[d] /\ c # d => registering'[c] = 0
  BY <1>3 DEF HoldersKnown
<1>7. ASSUME NEW c \in Backends
      PROVE  /\ registering'[c] <= worker_epoch'
             /\ registering'[c] # 0 => holder'[registering'[c]] = 0
  <2>1. CASE c = b
    BY <1>1, <1>3, <2>1, Numbers
  <2>2. CASE c # b
    <3>1. registering'[c] = registering[c] /\ (registering[c] = e => registering[c] = 0)
      BY <1>3, <1>5, <2>2 DEF HoldersKnown
    <3>2. registering[c] # 0 => registering[c] \in 1 .. MaxEpoch
      BY Numbers
    <3> QED BY <1>1, <1>2, <1>4, <3>1, <3>2 DEF HoldersKnown
  <2> QED BY <2>1, <2>2
<1>8. \A f \in 1 .. MaxEpoch : /\ holder'[f] <= process'
                               /\ worker_epoch' < f => holder'[f] = 0
                               /\ epoch' = 0 /\ up' # "down" => holder'[f] # process'
  BY <1>1, <1>2, <1>4, Numbers DEF HoldersKnown
<1>9. epoch' # 0 => holder'[epoch'] = process'
  BY <1>1, <1>2, <1>4
<1>10. live_epoch' # 0 => live_launch' # 0 /\ holder'[live_epoch'] = live_launch'
  <2>1. CASE live_launch = process
    BY <1>1, <1>2, <1>4, <2>1 DEF HoldersKnown
  <2>2. CASE live_launch # process /\ live_epoch # 0
    <3>1. /\ live_epoch \in 1 .. MaxEpoch /\ live_launch # 0
          /\ holder[live_epoch] = live_launch /\ live_epoch # e
      BY <1>2, <2>2, Numbers DEF HoldersKnown
    <3> QED BY <1>1, <1>4, <2>2, <3>1
  <2> QED BY <1>1, <2>1, <2>2
<1> QED BY <1>1, <1>6, <1>7, <1>8, <1>9, <1>10 DEF HoldersKnown

\* Every step keeps what is known of registrations.
LEMMA NextHolders ==
  ASSUME TypeOK, HoldersKnown, [Next]_vars
  PROVE  HoldersKnown'
<1>1. CASE Start
  BY <1>1, StartHolders
<1>2. CASE ReportExit \/ LingerEnds \/ Killed
  BY <1>2, EndHolders
<1>3. CASE Open \/ Finish \/ UNCHANGED vars
  <2>1. UNCHANGED <<worker_epoch, holder, process, epoch, up, live_launch, live_epoch, registering>>
    BY <1>3 DEF Open, Finish, vars, runnerVars, seatVars
  <2> QED BY <2>1, HoldersLeft
<1>4. ASSUME NEW b \in Backends, Register(b) PROVE HoldersKnown'
  BY <1>4, RegisterHolders
<1>5. ASSUME NEW b \in Backends, HandOver(b) PROVE HoldersKnown'
  BY <1>5, HandOverHolders
<1>6. ASSUME NEW b \in Backends,
             \/ Drain(b) \/ DrainLost(b) \/ Superseded(b) \/ Apply(b) \/ ApplyStale(b)
             \/ Follow(b) \/ Refused(b)
      PROVE  HoldersKnown'
  <2>1. CASE Drain(b) \/ DrainLost(b) \/ Superseded(b) \/ ApplyStale(b) \/ Follow(b) \/ Refused(b)
    <3>1. UNCHANGED <<worker_epoch, holder, process, epoch, up, live_launch, live_epoch, registering>>
      BY <2>1 DEF Drain, DrainLost, Superseded, ApplyStale, Follow, Refused, runnerVars, seatVars
    <3> QED BY <3>1, HoldersLeft
  <2>2. CASE Apply(b)
    <3>1. UNCHANGED <<worker_epoch, holder, process, epoch, up, live_launch, live_epoch, registering>>
      BY <2>2, ApplyMeans
    <3> QED BY <3>1, HoldersLeft
  <2> QED BY <1>6, <2>1, <2>2
<1>7. ASSUME NEW b \in Backends, HandOverFails(b) \/ Crash(b) PROVE HoldersKnown'
  <2>1. /\ UNCHANGED <<worker_epoch, holder, process, epoch, up, live_launch, live_epoch>>
        /\ registering' = [registering EXCEPT ![b] = 0]
    BY <1>7 DEF HandOverFails, Crash, runnerVars, seatVars
  <2>2. \A c \in Backends : registering'[c] \in {registering[c], 0}
    BY <2>1, Numbers
  <2> QED BY <2>1, <2>2, HoldersLeft
<1> QED BY <1>1, <1>2, <1>3, <1>4, <1>5, <1>6, <1>7, Zenon DEF Next, Runner

\* A process is followed by the next once it is gone, and only one that is there
\* is given a registration, which nobody held.
LEMMA ProcessSteps ==
  ASSUME TypeOK, HoldersKnown, [Next]_vars
  PROVE  /\ \/ process' = process + 1 /\ up = "down" /\ up' = "alive"
            \/ process' = process /\ (up = "down" => up' = "down")
         /\ \/ holder' = holder
            \/ \E e \in 1 .. MaxEpoch :
                 /\ holder[e] = 0 /\ holder' = [holder EXCEPT ![e] = process]
                 /\ up # "down" /\ process' = process /\ up' = up
<1>1. CASE Runner
  BY <1>1 DEF Runner, Start, Open, Finish, ReportExit, LingerEnds, Killed
<1>2. ASSUME NEW b \in Backends, HandOver(b)
      PROVE  \E e \in 1 .. MaxEpoch :
               /\ holder[e] = 0 /\ holder' = [holder EXCEPT ![e] = process]
               /\ up # "down" /\ process' = process /\ up' = up
  <2>1. registering[b] \in 1 .. MaxEpoch /\ holder[registering[b]] = 0
    BY <1>2, Numbers DEF HandOver, HoldersKnown
  <2>2. /\ holder' = [holder EXCEPT ![registering[b]] = process]
        /\ up # "down" /\ process' = process /\ up' = up
    BY <1>2 DEF HandOver
  <2> QED BY <2>1, <2>2
<1>3. ASSUME NEW b \in Backends,
             \/ Register(b) \/ HandOverFails(b) \/ Drain(b) \/ DrainLost(b) \/ Superseded(b)
             \/ ApplyStale(b) \/ Follow(b) \/ Refused(b) \/ Crash(b)
      PROVE  UNCHANGED <<process, up, holder>>
  BY <1>3 DEF Register, HandOverFails, Drain, DrainLost, Superseded, ApplyStale, Follow,
              Refused, Crash, runnerVars
<1>4. ASSUME NEW b \in Backends, Apply(b) PROVE UNCHANGED <<process, up, holder>>
  BY <1>4, ApplyMeans
<1>5. CASE UNCHANGED vars
  BY <1>5 DEF vars, runnerVars
<1> QED BY <1>1, <1>2, <1>3, <1>4, <1>5, Zenon DEF Next

\* A process that ended unregistered stays so.
LEMMA UnheldStays ==
  ASSUME TypeOK, HoldersKnown, [Next]_vars, NEW p \in Nat, Unheld(p)
  PROVE  Unheld(p)'
<1>1. /\ p < process \/ (p = process /\ up = "down")
      /\ \A e \in 1 .. MaxEpoch : holder[e] # p
  BY DEF Unheld
<1>2. p < process' \/ (p = process' /\ up' = "down")
  BY <1>1, ProcessSteps, Numbers
<1>3. \A e \in 1 .. MaxEpoch : holder'[e] # p
  BY <1>1, ProcessSteps, Numbers
<1> QED BY <1>2, <1>3 DEF Unheld

\* An exit that was journaled before the step stays what it is.
LEMMA ExitStays ==
  ASSUME TypeOK, Written, HoldersKnown, [Next]_vars,
         NEW x \in Known, OfHolder(x)
  PROVE  OfHolder(x)'
<1>1. x.of \in Nat /\ x.of # 0 /\ x.epoch \in Epochs
  BY KnownEvents, EventFields
<1>2. CASE Unheld(x.of)
  BY <1>1, <1>2, UnheldStays DEF OfHolder
<1>3. CASE x.epoch = NEVER_REGISTERED
  BY <1>3 DEF OfHolder
<1>4. CASE x.epoch = 0 /\ x.of = process /\ up # "down"
  <2>1. x \in journal /\ epoch = 0
    BY <1>4, KnownEvents DEF Written
  <2>2. \A e \in 1 .. MaxEpoch : holder[e] # process
    BY <1>4, <2>1 DEF HoldersKnown
  <2>3. process' = process
    BY <1>4, ProcessSteps
  <2>4. CASE up' # "down"
    BY <1>4, <2>3, <2>4 DEF OfHolder
  <2>5. CASE up' = "down"
    <3>1. holder' = holder
      BY <1>4, <2>5, ProcessSteps
    <3>2. Unheld(x.of)'
      BY <1>4, <2>2, <2>3, <2>5, <3>1 DEF Unheld
    <3> QED BY <3>2 DEF OfHolder
  <2> QED BY <2>4, <2>5
<1>5. CASE x.epoch \in 1 .. MaxEpoch /\ x.of = holder[x.epoch]
  <2>1. holder'[x.epoch] = holder[x.epoch]
    BY <1>1, <1>5, ProcessSteps, Numbers
  <2> QED BY <1>5, <2>1 DEF OfHolder
<1> QED BY <1>2, <1>3, <1>4, <1>5 DEF OfHolder

\* An exit the runner journals is of the process that holds what it is stamped
\* with.
LEMMA ExitEmitted ==
  ASSUME TypeOK, HoldersKnown, Start \/ Open \/ Finish \/ ReportExit,
         NEW x \in journal', x \notin journal, x.kind = "exited"
  PROVE  OfHolder(x)'
<1>1. CASE Start
  <2>1. /\ live_launch # 0 /\ x = Emitted(1, "exited", live_launch, LeftUnder)
        /\ holder' = holder
    BY <1>1 DEF Start
  <2>2. x.of = live_launch /\ x.epoch = LeftUnder
    BY <2>1 DEF Emitted
  <2>3. CASE live_epoch = 0
    BY <2>2, <2>3 DEF LeftUnder, OfHolder
  <2>4. CASE live_epoch # 0
    <3>1. x.epoch = live_epoch /\ live_epoch \in 1 .. MaxEpoch /\ holder[live_epoch] = live_launch
      BY <2>2, <2>4, Numbers DEF LeftUnder, HoldersKnown
    <3> QED BY <2>1, <2>2, <3>1 DEF OfHolder
  <2> QED BY <2>3, <2>4
<1>2. CASE Open \/ Finish
  BY <1>2 DEF Open, Finish, Emitted
<1>3. CASE ReportExit
  <2>1. x.of = process /\ x.epoch = epoch
    BY <1>3 DEF ReportExit, Emitted
  <2>2. /\ up = "alive" /\ UNCHANGED <<process, holder>> /\ up' \in {"ending", "down"}
    BY <1>3 DEF ReportExit
  <2>3. CASE epoch # 0
    <3>1. epoch \in 1 .. MaxEpoch /\ holder[epoch] = process
      BY <2>3, Numbers DEF HoldersKnown
    <3> QED BY <2>1, <2>2, <3>1 DEF OfHolder
  <2>4. CASE epoch = 0 /\ up' # "down"
    BY <2>1, <2>2, <2>4 DEF OfHolder
  <2>5. CASE epoch = 0 /\ up' = "down"
    <3>1. \A e \in 1 .. MaxEpoch : holder[e] # process
      BY <2>2, <2>5 DEF HoldersKnown
    <3>2. Unheld(x.of)'
      BY <2>1, <2>2, <2>5, <3>1 DEF Unheld
    <3> QED BY <3>2 DEF OfHolder
  <2> QED BY <2>3, <2>4, <2>5
<1> QED BY <1>1, <1>2, <1>3

\* Registration stamps exits of its own process, or of ones that were never
\* registered.
LEMMA ExitRestamped ==
  ASSUME TypeOK, Written, HoldersKnown, ExitsOfHolders, NEW b \in Backends, HandOver(b),
         NEW x \in journal', x.kind = "exited"
  PROVE  OfHolder(x)'
<1> DEFINE e == registering[b]
<1>1. e \in 1 .. MaxEpoch
  BY Numbers DEF HandOver
<1>2. /\ journal' = Restamped(e) /\ holder' = [holder EXCEPT ![e] = process]
      /\ [Next]_vars
  BY DEF HandOver, Next
<1> HIDE DEF e
<1>3. journal \in SUBSET Event /\ \A y, z \in journal : y.seq = z.seq => y = z
  BY KnownEvents DEF TypeOK, Written
<1>4. PICK y \in journal :
        /\ x.kind = y.kind /\ x.of = y.of
        /\ x.epoch = IF y.epoch = 0 THEN e ELSE y.epoch
        /\ y.epoch # 0 => x = y
  <2>1. x \in Restamped(e)
    BY <1>2
  <2> QED BY <1>1, <1>3, <2>1, Restamps
<1>5. y \in Known /\ OfHolder(y) /\ y.of \in Nat
  BY <1>4, KnownEvents, EventFields DEF ExitsOfHolders
<1>6. CASE y.epoch # 0
  BY <1>2, <1>4, <1>5, <1>6, ExitStays
<1>7. CASE y.epoch = 0
  <2>1. CASE Unheld(y.of)
    BY <1>2, <1>4, <1>5, <2>1, UnheldStays DEF OfHolder
  <2>2. CASE y.of = process
    BY <1>1, <1>2, <1>4, <1>7, <2>2, Numbers DEF OfHolder
  <2> QED BY <1>5, <1>7, <2>1, <2>2 DEF OfHolder, NEVER_REGISTERED
<1> QED BY <1>6, <1>7

\* What ended a session stays what it is; and what ends one is an exit of the
\* registration's holder, or of a process that never had one.
LEMMA EndedStays ==
  ASSUME TypeOK, Written, HoldersKnown, ExitsOfHolders, [Next]_vars,
         NEW y \in ended'
  PROVE  y[1] = y[2] \/ Unheld(y[1])'
<1>1. CASE y \in ended
  <2>1. y[1] \in Nat /\ (y[1] = y[2] \/ Unheld(y[1]))
    BY <1>1, TypesOf DEF ObservedOK, ExitsOfHolders
  <2> QED BY <2>1, UnheldStays
<1>2. CASE y \notin ended
  <2>1. PICK b \in Backends : Apply(b)
    <3>1. UNCHANGED ended => FALSE
      BY <1>2
    <3>2. Runner \/ UNCHANGED vars => UNCHANGED ended
      BY DEF Runner, Start, Open, Finish, ReportExit, LingerEnds, Killed, appliedVars, vars
    <3>3. \A b \in Backends :
            \/ Register(b) \/ HandOver(b) \/ HandOverFails(b) \/ Drain(b) \/ DrainLost(b)
            \/ Superseded(b) \/ ApplyStale(b) \/ Follow(b) \/ Refused(b) \/ Crash(b)
            => UNCHANGED ended
      BY DEF Register, HandOver, HandOverFails, Drain, DrainLost, Superseded, ApplyStale,
             Follow, Refused, Crash, appliedVars
    <3> QED BY <3>1, <3>2, <3>3, Zenon DEF Next
  <2> DEFINE x == First(b)
  <2>2. events[b] # {} /\ (Effects(x) \/ UNCHANGED ended)
    BY <2>1, ApplyMeans
  <2>3. x \in Known /\ x.epoch # 0 /\ x.of \in Nat
    BY <2>2, AtEvent, KnownEvents, EventFields
  <2> HIDE DEF x
  <2>4. x.kind = "exited" /\ x.epoch = worker_epoch /\ y = <<x.of, holder[worker_epoch]>>
    BY <1>2, <2>2 DEF Effects, Ends
  <2>5. OfHolder(x)
    BY <2>3, <2>4 DEF ExitsOfHolders
  <2>6. CASE Unheld(x.of)
    BY <2>3, <2>4, <2>6, UnheldStays
  <2>7. CASE x.of = holder[x.epoch]
    BY <2>4, <2>7
  <2> QED BY <2>3, <2>4, <2>5, <2>6, <2>7, Numbers DEF OfHolder, NEVER_REGISTERED
<1> QED BY <1>1, <1>2

\* A step that neither journals nor registers brings nothing that was not known.
LEMMA ForgottenOnly ==
  ASSUME TypeOK, InOrder, NEW b \in Backends,
         \/ LingerEnds \/ Killed \/ Register(b) \/ HandOverFails(b) \/ Drain(b) \/ DrainLost(b)
         \/ Superseded(b) \/ Apply(b) \/ ApplyStale(b) \/ Follow(b) \/ Refused(b) \/ Crash(b)
  PROVE  Known' \subseteq Known
<1> SUFFICES ASSUME NEW x \in Known' PROVE x \in Known
  OBVIOUS
<1>1. x \in journal' \/ \E c \in Backends : x \in events'[c]
  BY KnownThen
<1>2. journal \subseteq Known /\ \A c \in Backends : events[c] \subseteq Known
  BY KnownEvents
<1>3. events \in [Backends -> SUBSET Event]
  BY DEF TypeOK
<1>4. CASE LingerEnds \/ Killed \/ Register(b) \/ HandOverFails(b)
  <2>1. events' = events /\ journal' = journal
    BY <1>4 DEF LingerEnds, Killed, Register, HandOverFails, readingVars, runnerVars
  <2> QED BY <1>1, <1>2, <2>1
<1>5. CASE Superseded(b) \/ ApplyStale(b) \/ Refused(b) \/ Crash(b)
  <2>1. journal' = journal /\ (Forget(b) \/ events' = [events EXCEPT ![b] = {}])
    BY <1>5 DEF Superseded, ApplyStale, Refused, Crash, runnerVars
  <2>2. \A c \in Backends : events'[c] \subseteq events[c]
    BY <1>3, <2>1 DEF Forget
  <2> QED BY <1>1, <1>2, <2>1, <2>2
<1>6. CASE Drain(b) \/ DrainLost(b)
  <2>1. /\ journal' = Unacked(acked[b])
        /\ events' = events \/ events' = [events EXCEPT ![b] = PageOf(journal')]
    BY <1>6 DEF Drain, DrainLost, readingVars
  <2>2. journal' \subseteq journal /\ PageOf(journal') \subseteq journal'
    BY <2>1 DEF Unacked, PageOf
  <2>3. \A c \in Backends : events'[c] \subseteq events[c] \cup journal
    BY <1>3, <2>1, <2>2
  <2> QED BY <1>1, <1>2, <2>2, <2>3
<1>7. CASE Apply(b) \/ Follow(b)
  <2>1. events[b] # {}
    BY <1>7, ApplyMeans DEF Follow, InOrder, DoneWith, ReadsOn
  <2>2. First(b) \in events[b]
    BY <2>1, FirstIn
  <2>3. \/ \E under : HandOn(b, First(b), under)
        \/ UNCHANGED <<events, journal>>
    BY <1>7, ApplyMeans, Zenon DEF Follow
  <2>4. CASE \E under : HandOn(b, First(b), under)
    <3>1. /\ journal' \in {journal, Unacked(First(b).seq)}
          /\ \A c \in Backends : events'[c] \subseteq events[c]
      BY <2>2, <2>4, HandOnMeans DEF InOrder
    <3>2. journal' \subseteq journal
      BY <3>1 DEF Unacked
    <3> QED BY <1>1, <1>2, <3>1, <3>2
  <2>5. CASE UNCHANGED <<events, journal>>
    BY <1>1, <1>2, <2>5
  <2> QED BY <2>3, <2>4, <2>5
<1> QED BY <1>4, <1>5, <1>6, <1>7

\* What comes to be known was known, or is journaled or restamped by the step.
LEMMA ComesFrom ==
  ASSUME TypeOK, InOrder, [Next]_vars, NEW x \in Known'
  PROVE  \/ x \in Known
         \/ x \in journal' /\ x \notin journal /\ (Start \/ Open \/ Finish \/ ReportExit)
         \/ x \in journal' /\ \E b \in Backends : HandOver(b)
<1>1. x \in journal' \/ \E c \in Backends : x \in events'[c]
  BY KnownThen
<1>2. journal \subseteq Known /\ \A c \in Backends : events[c] \subseteq Known
  BY KnownEvents
<1>3. CASE Start \/ Open \/ Finish \/ ReportExit
  <2>1. events' = events
    BY <1>3 DEF Start, Open, Finish, ReportExit, readingVars
  <2> QED BY <1>1, <1>2, <1>3, <2>1
<1>4. CASE LingerEnds \/ Killed \/ UNCHANGED vars
  <2>1. events' = events /\ journal' = journal
    BY <1>4 DEF LingerEnds, Killed, vars, readingVars, runnerVars
  <2> QED BY <1>1, <1>2, <2>1
<1>5. ASSUME NEW b \in Backends, HandOver(b)
      PROVE  x \in Known \/ x \in journal'
  <2>1. events' = events
    BY <1>5 DEF HandOver
  <2> QED BY <1>1, <1>2, <2>1
<1>6. ASSUME NEW b \in Backends,
             \/ Register(b) \/ HandOverFails(b) \/ Drain(b) \/ DrainLost(b) \/ Superseded(b)
             \/ Apply(b) \/ ApplyStale(b) \/ Follow(b) \/ Refused(b) \/ Crash(b)
      PROVE  x \in Known
  BY <1>6, ForgottenOnly
<1> QED BY <1>3, <1>4, <1>5, <1>6, Zenon DEF Next, Runner

\* Every step keeps what exits are stamped with.
LEMMA NextExits ==
  ASSUME TypeOK, InOrder, HoldersKnown, ExitsOfHolders, [Next]_vars
  PROVE  ExitsOfHolders'
<1> Written
  BY DEF InOrder
<1>1. ASSUME NEW x \in Known', x.kind = "exited" PROVE OfHolder(x)'
  <2>1. CASE x \in Known
    BY <1>1, <2>1, ExitStays DEF ExitsOfHolders
  <2>2. CASE x \in journal' /\ x \notin journal /\ (Start \/ Open \/ Finish \/ ReportExit)
    BY <1>1, <2>2, ExitEmitted
  <2>3. CASE x \in journal' /\ \E b \in Backends : HandOver(b)
    BY <1>1, <2>3, ExitRestamped
  <2> QED BY <1>1, <2>1, <2>2, <2>3, ComesFrom
<1>2. \A y \in ended' : y[1] = y[2] \/ Unheld(y[1])'
  BY EndedStays
<1>3. \A x \in Known' : x.kind = "exited" => OfHolder(x)'
  BY <1>1
<1> QED BY <1>2, <1>3 DEF ExitsOfHolders

-------------------------------------------------------------------------------
(* The run under way.                                                      *)

\* Nothing is said of a run while no process works, or none was begun.
LEMMA NoRunNamed ==
  ASSUME up' # "alive" \/ run' = NoRun
  PROVE  RunNamed'
  BY DEF RunNamed

\* A step that adds no event, and neither takes nor gives effects, leaves what
\* is known of the run.
LEMMA RunLeft ==
  ASSUME RunNamed, Known' \subseteq Known,
         UNCHANGED <<up, run, seq, working, epoch, effects, session_run, worker_status>>
  PROVE  RunNamed'
  BY DEF RunNamed, RunHeard

\* The run's numbers.
LEMMA RunNumbers ==
  ASSUME TypeOK
  PROVE  /\ seq \in Nat /\ run[1] \in Nat /\ run[2] \in Nat /\ epoch \in Nat
         /\ run = <<run[1], run[2]>> /\ Len(effects) \in Nat
         /\ \A x \in Known : x \in Event /\ x.seq \in Nat /\ x.seq > 0
<1>1. RunnerOK
  BY TypesOf
<1>2. seq \in Nat /\ run[1] \in Nat /\ run[2] \in Nat /\ epoch \in Nat /\ run = <<run[1], run[2]>>
  BY <1>1, BoundAssumption DEF RunnerOK
<1> QED BY <1>2, CountApplied, KnownEvents, EventFields

\* _open names the run by the event that says so.
LEMMA OpenNames ==
  ASSUME TypeOK, Written, Open
  PROVE  RunNamed'
<1>1. /\ seq' = seq + 1 /\ working' = TRUE /\ run' = <<epoch, seq + 1>>
      /\ UNCHANGED <<epoch, effects, events>>
      /\ journal' = journal \cup {Emitted(1, "running", process, epoch)}
  BY DEF Open, readingVars, appliedVars
<1> DEFINE new == Emitted(1, "running", process, epoch)
<1>2. new.seq = seq + 1 /\ new.kind = "running" /\ new.epoch = epoch
  BY DEF Emitted
<1> HIDE DEF new
<1>3. \A x \in Known' : x \in Known \/ x = new
  BY <1>1 DEF Known, new
<1>4. \A x \in Known : x.seq <= seq /\ x.seq \in Nat
  BY RunNumbers DEF Written
<1>5. run'[1] = epoch /\ run'[2] = seq + 1
  BY <1>1
<1>6. \A x \in Known' : /\ x.seq = run'[2] => (x.kind = "running" /\ x.epoch = run'[1])
                        /\ x.seq > run'[2] => x.kind = "idle"
  BY <1>2, <1>3, <1>4, <1>5, RunNumbers
<1>7. Len(effects') < run'[2] /\ run'[2] # 0 /\ seq' = run'[2]
  BY <1>1, <1>5, RunNumbers DEF Written
<1> QED BY <1>1, <1>5, <1>6, <1>7, RunNumbers DEF RunNamed, RunHeard

\* _finish ends it with the next event.
LEMMA FinishNames ==
  ASSUME TypeOK, Written, RunNamed, Finish
  PROVE  RunNamed'
<1>1. /\ up = "alive" /\ working /\ seq' = seq + 1 /\ working' = FALSE
      /\ UNCHANGED <<up, run, epoch, effects, events, session_run, worker_status>>
      /\ journal' = journal \cup {Emitted(1, "idle", process, epoch)}
  BY DEF Finish, readingVars, appliedVars, seatVars
<1> DEFINE new == Emitted(1, "idle", process, epoch)
<1>2. new.seq = seq + 1 /\ new.kind = "idle"
  BY DEF Emitted
<1> HIDE DEF new
<1>3. \A x \in Known' : x \in Known \/ x = new
  BY <1>1 DEF Known, new
<1>4. SUFFICES ASSUME run # NoRun PROVE RunNamed'
  BY <1>1 DEF RunNamed
<1>5. RunHeard
  BY <1>1, <1>4, Zenon DEF RunNamed
<1>6. \A x \in Known' : /\ x.seq = run[2] => (x.kind = "running" /\ x.epoch = run[1])
                        /\ x.seq > run[2] => x.kind = "idle"
  BY <1>1, <1>2, <1>3, <1>5, RunNumbers DEF RunHeard
<1> QED BY <1>1, <1>5, <1>6 DEF RunNamed, RunHeard

\* dispatch "register" gives the run and its event the same name.
LEMMA HandOverNames ==
  ASSUME TypeOK, InOrder, RunNamed, NEW b \in Backends, HandOver(b)
  PROVE  RunNamed'
<1> DEFINE e == registering[b]
<1>1. e \in 1 .. MaxEpoch
  BY Numbers DEF HandOver
<1>2. /\ epoch' = e /\ journal' = Restamped(e) /\ run' = RunUnder(e)
      /\ UNCHANGED <<seq, effects, events, up, working, session_run, worker_status>>
  BY DEF HandOver, seatVars, appliedVars
<1> HIDE DEF e
<1>3. SUFFICES ASSUME up = "alive", run' # NoRun PROVE RunNamed'
  BY <1>2 DEF RunNamed
<1>4. run # NoRun
  BY <1>2, <1>3 DEF RunUnder
<1>5. RunHeard
  BY <1>3, <1>4, Zenon DEF RunNamed
<1>6. /\ run' = <<run'[1], run'[2]>> /\ run'[2] = run[2]
      /\ run'[1] = IF run[1] = 0 THEN e ELSE run[1]
      /\ run[1] # 0 => run' = run
  BY <1>2, <1>4, RunNumbers DEF RunUnder
<1>7. journal \in SUBSET Event /\ \A y, z \in journal : y.seq = z.seq => y = z
  BY KnownEvents DEF TypeOK, InOrder, Written
<1>8. ASSUME NEW x \in Known'
      PROVE  \E y \in Known :
               /\ x.seq = y.seq /\ x.kind = y.kind
               /\ x.epoch = IF y.epoch = 0 THEN e ELSE y.epoch
  <2>1. CASE x \in journal'
    <3>1. x \in Restamped(e)
      BY <1>2, <2>1
    <3>2. PICK y \in journal :
            /\ x.seq = y.seq /\ x.kind = y.kind
            /\ x.epoch = IF y.epoch = 0 THEN e ELSE y.epoch
      BY <1>1, <1>7, <3>1, Restamps
    <3> QED BY <3>2, KnownEvents
  <2>2. ASSUME NEW c \in Backends, x \in events'[c] PROVE x \in Known /\ x.epoch # 0
    BY <1>2, <2>2, KnownEvents DEF InOrder, Written
  <2> QED BY <2>1, <2>2, KnownThen
<1>9. \A x \in Known' : /\ x.seq = run'[2] => (x.kind = "running" /\ x.epoch = run'[1])
                        /\ x.seq > run'[2] => x.kind = "idle"
  BY <1>5, <1>6, <1>8 DEF RunHeard
<1>10. run'[1] # 0
  BY <1>1, <1>6
<1>11. run'[2] <= Len(effects) => session_run = run'
  BY <1>5, <1>6, RunNumbers DEF RunHeard
<1> QED BY <1>2, <1>5, <1>6, <1>9, <1>10, <1>11 DEF RunNamed, RunHeard

\* run_started and declare: the seat hears of the run as it takes effect.
LEMMA ApplyNames ==
  ASSUME TypeOK, InOrder, RunNamed, NEW b \in Backends, Apply(b)
  PROVE  RunNamed'
<1> DEFINE x == First(b)
<1>1. /\ events[b] # {}
      /\ \/ Claimed(x) = "new" /\ Effects(x)
         \/ Claimed(x) # "new" /\ UNCHANGED <<worker_status, session_run, effects>>
      /\ UNCHANGED <<seq, up, epoch, working, run>>
  BY ApplyMeans
<1>2. Known' \subseteq Known
  BY ForgottenOnly
<1>3. /\ x \in Known /\ x.seq \in Nat /\ x.epoch # 0 /\ x.seq <= Len(effects) + 1
      /\ x.seq \in 1 .. MaxSeq /\ x.epoch \in Epochs /\ x.seq <= seq
  BY <1>1, AtEvent, ComesNext, RunNumbers DEF InOrder
<1> HIDE DEF x
<1>4. CASE UNCHANGED <<worker_status, session_run, effects>>
  BY <1>1, <1>2, <1>4, RunLeft
<1>5. CASE Claimed(x) = "new" /\ Effects(x)
  <2>1. x.seq = Len(effects) + 1
    <3>1. applied_seq[x.epoch] < x.seq
      BY <1>5 DEF Claimed
    <3>2. applied_seq[x.epoch] \in Nat
      BY <1>3, TypesOf, BoundAssumption DEF SeatOK
    <3> QED BY <1>3, <3>1, <3>2, RunNumbers DEF InOrder, PositionsTell
  <2>2. Len(effects') = Len(effects) + 1
    <3>1. effects \in Seq(1 .. MaxSeq) /\ effects' = Append(effects, x.seq)
      BY <1>5 DEF TypeOK, Effects
    <3> QED BY <1>3, <3>1, AppendProperties
  <2>3. SUFFICES ASSUME up = "alive", run # NoRun PROVE RunNamed'
    BY <1>1 DEF RunNamed
  <2>4. RunHeard
    BY <2>3, Zenon DEF RunNamed
  <2>5. run[1] = 0 => Len(effects') < run[2]
    BY <1>3, <2>1, <2>2, <2>4, RunNumbers DEF RunHeard
  <2>6. \A y \in Known' : /\ y.seq = run[2] => (y.kind = "running" /\ y.epoch = run[1])
                          /\ y.seq > run[2] => y.kind = "idle"
    BY <1>2, <2>4 DEF RunHeard
  <2>7. ASSUME run[2] <= Len(effects')
        PROVE  /\ session_run' = run
               /\ worker_status' = IF Len(effects') = run[2] THEN "running" ELSE "idle"
    <3>1. CASE Len(effects') = run[2]
      <4>1. x.kind = "running" /\ x.epoch = run[1] /\ x.seq = run[2]
        BY <1>3, <2>1, <2>2, <2>4, <3>1 DEF RunHeard
      <4> QED BY <1>5, <3>1, <4>1, RunNumbers DEF Effects
    <3>2. CASE run[2] <= Len(effects)
      <4>1. x.kind = "idle" /\ session_run = run
        BY <1>3, <2>1, <2>4, <3>2, RunNumbers DEF RunHeard
      <4>2. Len(effects') # run[2]
        BY <2>2, <3>2, RunNumbers
      <4> QED BY <1>5, <4>1, <4>2 DEF Effects, Ends
    <3> QED BY <2>2, <2>7, <3>1, <3>2, RunNumbers
  <2> QED BY <1>1, <2>4, <2>5, <2>6, <2>7 DEF RunNamed, RunHeard
<1> QED BY <1>1, <1>4, <1>5

\* Every step keeps what is known of the run.
LEMMA NextRun ==
  ASSUME TypeOK, InOrder, RunNamed, [Next]_vars
  PROVE  RunNamed'
<1> Written
  BY DEF InOrder
<1>1. CASE Start \/ ReportExit \/ LingerEnds \/ Killed
  <2>1. up' # "alive" \/ run' = NoRun
    BY <1>1 DEF Start, ReportExit, LingerEnds, Killed
  <2> QED BY <2>1, NoRunNamed
<1>2. CASE Open
  BY <1>2, OpenNames
<1>3. CASE Finish
  BY <1>3, FinishNames
<1>4. ASSUME NEW b \in Backends, HandOver(b) PROVE RunNamed'
  BY <1>4, HandOverNames
<1>5. ASSUME NEW b \in Backends, Apply(b) PROVE RunNamed'
  BY <1>5, ApplyNames
<1>6. ASSUME NEW b \in Backends,
             \/ Register(b) \/ HandOverFails(b) \/ Drain(b) \/ DrainLost(b) \/ Superseded(b)
             \/ ApplyStale(b) \/ Follow(b) \/ Refused(b) \/ Crash(b)
      PROVE  RunNamed'
  <2>1. UNCHANGED <<up, run, seq, working, epoch, effects, session_run, worker_status>>
    BY <1>6 DEF Register, HandOverFails, Drain, DrainLost, Superseded, ApplyStale, Follow,
                Refused, Crash, runnerVars, seatVars, appliedVars
  <2>2. Known' \subseteq Known
    BY <1>6, ForgottenOnly
  <2> QED BY <2>1, <2>2, RunLeft
<1>7. CASE UNCHANGED vars
  BY <1>7, RunLeft DEF vars, runnerVars, seatVars, readingVars, appliedVars, Known
<1> QED BY <1>1, <1>2, <1>3, <1>4, <1>5, <1>6, <1>7, Zenon DEF Next, Runner

-------------------------------------------------------------------------------
(* How runs end.                                                           *)

\* A step that neither journals nor forgets what goes on leaves how runs go on.
LEMMA GoesOn ==
  ASSUME \A x \in Known' : \E y \in Known : x.seq = y.seq /\ x.kind = y.kind,
         UNCHANGED <<seq, working>>, working => run'[2] = run[2],
         NEW r, Continues(r)
  PROVE  Continues(r)'
BY DEF Continues

\* With what a run's effects are left, it has no more and no fewer ends.
LEMMA EndsLeft ==
  ASSUME RunsEnd, UNCHANGED <<worker_status, session_run, effects, seq, working, cut>>,
         \A x \in Known' : \E y \in Known : x.seq = y.seq /\ x.kind = y.kind,
         working => up' = "alive" /\ run' # NoRun /\ run'[2] = run[2]
  PROVE  RunsEnd'
<1>1. \A r : Continues(r) => Continues(r)'
  BY GoesOn, Zenon
<1>2. \A x \in Known' : x.kind = "running" => x.seq \in cut' \/ Continues(x.seq)'
  <2> SUFFICES ASSUME NEW x \in Known', x.kind = "running"
               PROVE  x.seq \in cut' \/ Continues(x.seq)'
    OBVIOUS
  <2>1. PICK y \in Known : x.seq = y.seq /\ x.kind = y.kind
    OBVIOUS
  <2>2. y.seq \in cut \/ Continues(y.seq)
    BY <2>1 DEF RunsEnd
  <2> QED BY <1>1, <2>1, <2>2
<1>3. worker_status' = "running" =>
        \/ session_run'[2] \in cut'
        \/ Len(effects') = session_run'[2] /\ Continues(session_run[2])'
  <2>1. PICK r : r = session_run[2]
    OBVIOUS
  <2>2. worker_status = "running" => r \in cut \/ (Len(effects) = r /\ Continues(r))
    BY <2>1 DEF RunsEnd
  <2>3. Continues(r)' => Continues(session_run[2])'
    BY <2>1 DEF Continues
  <2> QED BY <1>1, <2>1, <2>2, <2>3
<1> QED BY <1>2, <1>3 DEF RunsEnd

\* What the runner journals goes on a run only by ending it, and begins one only
\* by _open.
LEMMA WritesEnd ==
  ASSUME TypeOK, Written, RunsEnd, Start \/ Open \/ Finish \/ ReportExit
  PROVE  RunsEnd'
<1>1. UNCHANGED <<worker_status, session_run, effects, events, cut>>
  BY DEF Start, Open, Finish, ReportExit, seatVars, readingVars, appliedVars
<1>2. /\ \A x \in Known : x \in Event /\ x.seq \in Nat /\ x.seq <= seq
      /\ seq \in Nat /\ session_run[2] \in Nat /\ MaxSeq \in Nat
  <2>1. session_run[2] \in 0 .. MaxSeq
    BY TypesOf DEF SeatOK
  <2> QED BY <2>1, RunNumbers, BoundAssumption DEF Written
<1>3. \A x \in Known' : x \in Known \/ (x \in journal' /\ x \notin journal)
  BY <1>1, KnownThen DEF Known
\* What of it is new, and what it says.
<1>4. /\ seq' \in Nat /\ seq <= seq'
      /\ working => seq < seq'
      /\ \A x \in journal' : x \notin journal =>
           /\ x.seq \in Nat /\ seq < x.seq
           /\ working /\ x.seq = seq + 1 => x.kind = "idle"
           /\ x.kind = "running" => working' /\ x.seq = seq' /\ run'[2] = x.seq
      /\ working' => /\ ~working /\ up' = "alive" /\ run' # NoRun
  <2>1. CASE Start
    <3> DEFINE left == IF live_launch = 0 THEN {}
                       ELSE {Emitted(1, "exited", live_launch, LeftUnder)}
    <3>1. /\ journal' = journal \cup left /\ seq' = seq + Cardinality(left)
          /\ up = "down" /\ working' = FALSE
      BY <2>1 DEF Start
    <3>2. ~working
      BY <3>1 DEF RunsEnd
    <3>3. left = {} \/ left = {Emitted(1, "exited", live_launch, LeftUnder)}
      OBVIOUS
    <3> HIDE DEF left
    <3>4. Cardinality(left) \in {0, 1}
      BY <3>3, FS_EmptySet, FS_Singleton
    <3>5. \A x \in left : x.kind = "exited" /\ x.seq = seq + 1
      BY <3>3 DEF Emitted
    <3> QED BY <1>2, <3>1, <3>2, <3>4, <3>5
  <2>2. CASE Open
    <3>1. /\ journal' = journal \cup {Emitted(1, "running", process, epoch)}
          /\ seq' = seq + 1 /\ working' = TRUE /\ run' = <<epoch, seq + 1>>
          /\ ~working /\ up = "alive" /\ up' = up
      BY <2>2 DEF Open
    <3>2. run'[2] = seq + 1
      BY <3>1
    <3>3. run' # NoRun
      BY <1>2, <3>2 DEF NoRun
    <3>4. \A x \in journal' : x \notin journal => x.seq = seq + 1
      BY <3>1 DEF Emitted
    <3> QED BY <1>2, <3>1, <3>2, <3>3, <3>4
  <2>3. CASE Finish
    <3>1. /\ journal' = journal \cup {Emitted(1, "idle", process, epoch)}
          /\ seq' = seq + 1 /\ working' = FALSE
      BY <2>3 DEF Finish
    <3>2. \A x \in journal' : x \notin journal => x.seq = seq + 1 /\ x.kind = "idle"
      BY <3>1 DEF Emitted
    <3> QED BY <1>2, <3>1, <3>2
  <2>4. CASE ReportExit
    <3> DEFINE n == IF working THEN 2 ELSE 1
    <3>1. /\ journal' = journal \cup {Emitted(n, "exited", process, epoch)}
                          \cup {Emitted(1, "idle", process, epoch) : i \in 1 .. n - 1}
          /\ seq' = seq + n /\ working' = FALSE
      BY <2>4 DEF ReportExit
    <3>2. n \in {1, 2} /\ (working => n = 2)
      OBVIOUS
    <3> HIDE DEF n
    <3>3. \A x \in journal' : x \notin journal =>
            \/ x.seq = seq + n /\ x.kind = "exited"
            \/ x.seq = seq + 1 /\ x.kind = "idle"
      BY <3>1 DEF Emitted
    <3> QED BY <1>2, <3>1, <3>2, <3>3
  <2> QED BY <2>1, <2>2, <2>3, <2>4
<1>5. ASSUME NEW r \in Nat, Continues(r) PROVE Continues(r)'
  <2>1. CASE working /\ run[2] = r /\ seq = r
    <3>1. r < seq' /\ r \in Nat
      BY <1>4, <2>1
    <3>2. \A x \in Known' : x.seq = r + 1 => x.kind = "idle"
      BY <1>2, <1>3, <1>4, <2>1
    <3> QED BY <3>1, <3>2 DEF Continues
  <2>2. CASE r < seq /\ \A x \in Known : x.seq = r + 1 => x.kind = "idle"
    <3>1. r < seq'
      BY <1>2, <1>4, <2>2
    <3>2. \A x \in Known' : x.seq = r + 1 => x.kind = "idle"
      BY <1>2, <1>3, <1>4, <2>2
    <3> QED BY <3>1, <3>2 DEF Continues
  <2> QED BY <1>5, <2>1, <2>2 DEF Continues
<1>6. ASSUME NEW x \in Known', x.kind = "running"
      PROVE  x.seq \in cut' \/ Continues(x.seq)'
  <2>1. CASE x \in Known
    BY <1>1, <1>2, <1>5, <1>6, <2>1 DEF RunsEnd
  <2>2. CASE x \in journal' /\ x \notin journal
    BY <1>4, <1>6, <2>2 DEF Continues
  <2> QED BY <1>3, <2>1, <2>2
<1>7. ASSUME worker_status' = "running"
      PROVE  \/ session_run'[2] \in cut'
             \/ Len(effects') = session_run'[2] /\ Continues(session_run[2])'
  <2>1. PICK r \in Nat : r = session_run[2]
    BY <1>2
  <2>2. r \in cut \/ (Len(effects) = r /\ Continues(r))
    BY <1>1, <1>7, <2>1 DEF RunsEnd
  <2>3. Continues(r)' => Continues(session_run[2])'
    BY <1>1, <2>1 DEF Continues
  <2> QED BY <1>1, <1>5, <2>1, <2>2, <2>3
<1> QED BY <1>4, <1>6, <1>7 DEF RunsEnd

\* A runner killed at work cuts its run short.
LEMMA KilledEnds ==
  ASSUME RunsEnd, Killed
  PROVE  RunsEnd'
<1>1. /\ UNCHANGED <<worker_status, session_run, effects, seq, journal, events>>
      /\ working' = FALSE /\ cut' = IF working THEN cut \cup {run[2]} ELSE cut
  BY DEF Killed, seatVars, readingVars, appliedVars
<1>2. Known' = Known
  BY <1>1 DEF Known
<1>3. \A r : r \in cut \/ Continues(r) => r \in cut' \/ Continues(r)'
  BY <1>1, <1>2 DEF Continues
<1>4. worker_status' = "running" =>
        \/ session_run'[2] \in cut'
        \/ Len(effects') = session_run'[2] /\ Continues(session_run[2])'
  <2>1. PICK r : r = session_run[2]
    OBVIOUS
  <2>2. worker_status = "running" => r \in cut \/ (Len(effects) = r /\ Continues(r))
    BY <2>1 DEF RunsEnd
  <2>3. Continues(r)' => Continues(session_run[2])'
    BY <1>1, <2>1 DEF Continues
  <2> QED BY <1>1, <1>3, <2>1, <2>2, <2>3
<1> QED BY <1>1, <1>2, <1>3, <1>4 DEF RunsEnd

\* The seat hears that a run began before it hears that it ended, and of nothing
\* in between.
LEMMA ApplyEnds ==
  ASSUME TypeOK, InOrder, RunsEnd, NEW b \in Backends, Apply(b)
  PROVE  RunsEnd'
<1> PICK x : x = First(b)
  OBVIOUS
<1>1. /\ events[b] # {}
      /\ \/ Claimed(x) = "new" /\ Effects(x)
         \/ Claimed(x) # "new" /\ UNCHANGED <<worker_status, session_run, effects>>
      /\ UNCHANGED <<seq, up, working, run, cut>>
  BY ApplyMeans DEF Apply
<1>2. Known' \subseteq Known
  BY ForgottenOnly
<1>3. /\ x \in Known /\ x.seq \in Nat /\ x.seq <= Len(effects) + 1
      /\ x.seq \in 1 .. MaxSeq /\ x.epoch \in Epochs /\ x.seq <= seq
  BY <1>1, AtEvent, ComesNext, RunNumbers DEF InOrder
<1>4. working => up' = "alive" /\ run' # NoRun /\ run'[2] = run[2]
  BY <1>1 DEF RunsEnd
<1>5. \A y \in Known' : \E z \in Known : y.seq = z.seq /\ y.kind = z.kind
  BY <1>2
<1>6. CASE UNCHANGED <<worker_status, session_run, effects>>
  BY <1>1, <1>4, <1>5, <1>6, EndsLeft
<1>7. CASE Claimed(x) = "new" /\ Effects(x)
  <2>1. x.seq = Len(effects) + 1
    <3>1. applied_seq[x.epoch] < x.seq
      BY <1>7 DEF Claimed
    <3>2. applied_seq[x.epoch] \in Nat
      BY <1>3, TypesOf, BoundAssumption DEF SeatOK
    <3> QED BY <1>3, <3>1, <3>2, RunNumbers DEF InOrder, PositionsTell
  <2>2. Len(effects') = x.seq
    <3>1. effects \in Seq(1 .. MaxSeq) /\ effects' = Append(effects, x.seq)
      BY <1>7 DEF TypeOK, Effects
    <3> QED BY <1>3, <2>1, <3>1, AppendProperties
  <2>3. \A r : Continues(r) => Continues(r)'
    BY <1>1, <1>4, <1>5, GoesOn, Zenon
  <2>4. \A y \in Known' : y.kind = "running" => y.seq \in cut' \/ Continues(y.seq)'
    BY <1>1, <1>2, <2>3 DEF RunsEnd
  <2>5. ASSUME worker_status' = "running"
        PROVE  \/ session_run'[2] \in cut'
               \/ Len(effects') = session_run'[2] /\ Continues(session_run[2])'
    <3>1. CASE x.kind = "running"
      <4>1. session_run'[2] = x.seq
        BY <1>7, <3>1 DEF Effects
      <4>2. x.seq \in cut' \/ Continues(x.seq)'
        BY <1>1, <1>3, <2>3, <3>1 DEF RunsEnd
      <4>3. Continues(x.seq)' => Continues(session_run[2])'
        BY <4>1 DEF Continues
      <4> QED BY <2>2, <4>1, <4>2, <4>3
    <3>2. CASE x.kind # "running"
      <4>1. x.kind # "idle" /\ worker_status = "running" /\ session_run' = session_run
        BY <1>7, <2>5, <3>2 DEF Effects
      <4>2. CASE session_run[2] \in cut
        BY <1>1, <4>1, <4>2, Zenon
      <4>3. CASE Len(effects) = session_run[2] /\ Continues(session_run[2])
        <5>1. x.seq = session_run[2] + 1
          BY <2>1, <4>3
        <5>2. ~ (working /\ run[2] = session_run[2] /\ seq = session_run[2])
          BY <1>3, <4>3, <5>1, RunNumbers
        <5>3. x.kind = "idle"
          BY <1>3, <4>3, <5>1, <5>2 DEF Continues
        <5> QED BY <4>1, <5>3
      <4> QED BY <4>1, <4>2, <4>3 DEF RunsEnd
    <3> QED BY <3>1, <3>2
  <2> QED BY <1>1, <1>4, <2>4, <2>5 DEF RunsEnd
<1> QED BY <1>1, <1>6, <1>7

\* Every step keeps how runs end.
LEMMA NextEnds ==
  ASSUME TypeOK, InOrder, RunsEnd, [Next]_vars
  PROVE  RunsEnd'
<1> Written
  BY DEF InOrder
<1>1. CASE Start \/ Open \/ Finish \/ ReportExit
  BY <1>1, WritesEnd
<1>2. CASE Killed
  BY <1>2, KilledEnds
<1>3. ASSUME NEW b \in Backends, Apply(b) PROVE RunsEnd'
  BY <1>3, ApplyEnds
<1>4. ASSUME NEW b \in Backends, HandOver(b) PROVE RunsEnd'
  <2> DEFINE e == registering[b]
  <2>1. e \in 1 .. MaxEpoch
    BY <1>4, Numbers DEF HandOver
  <2>2. /\ journal' = Restamped(e) /\ run' = RunUnder(e)
        /\ UNCHANGED <<worker_status, session_run, effects, seq, working, cut, events, up>>
    BY <1>4 DEF HandOver, seatVars, appliedVars
  <2> HIDE DEF e
  <2>3. \A x \in Known' : \E y \in Known : x.seq = y.seq /\ x.kind = y.kind
    <3> SUFFICES ASSUME NEW x \in Known'
                 PROVE  \E y \in Known : x.seq = y.seq /\ x.kind = y.kind
      OBVIOUS
    <3>1. CASE x \in journal'
      <4>1. journal \in SUBSET Event /\ \A y, z \in journal : y.seq = z.seq => y = z
        BY KnownEvents DEF TypeOK, InOrder, Written
      <4>2. x \in Restamped(e)
        BY <2>2, <3>1
      <4>3. \E y \in journal : x.seq = y.seq /\ x.kind = y.kind
        BY <2>1, <4>1, <4>2, Restamps
      <4> QED BY <4>3, KnownEvents
    <3>2. ASSUME NEW c \in Backends, x \in events'[c] PROVE x \in Known
      BY <2>2, <3>2, KnownEvents
    <3> QED BY <3>1, <3>2, KnownThen
  <2>4. working => up' = "alive" /\ run' # NoRun /\ run'[2] = run[2]
    <3> SUFFICES ASSUME working PROVE up' = "alive" /\ run' # NoRun /\ run'[2] = run[2]
      OBVIOUS
    <3>1. up = "alive" /\ run # NoRun
      BY Zenon DEF RunsEnd
    <3>2. run' = run \/ run' = <<e, run[2]>>
      BY <2>2 DEF RunUnder
    <3> QED BY <2>1, <2>2, <3>1, <3>2 DEF NoRun
  <2> QED BY <2>2, <2>3, <2>4, EndsLeft
<1>5. ASSUME NEW b \in Backends,
             \/ Register(b) \/ HandOverFails(b) \/ Drain(b) \/ DrainLost(b) \/ Superseded(b)
             \/ ApplyStale(b) \/ Follow(b) \/ Refused(b) \/ Crash(b)
      PROVE  RunsEnd'
  <2>1. UNCHANGED <<up, run, seq, working, effects, session_run, worker_status, cut>>
    BY <1>5 DEF Register, HandOverFails, Drain, DrainLost, Superseded, ApplyStale, Follow,
                Refused, Crash, runnerVars, seatVars, appliedVars
  <2>2. Known' \subseteq Known
    BY <1>5, ForgottenOnly
  <2>3. working => up' = "alive" /\ run' # NoRun /\ run'[2] = run[2]
    BY <2>1 DEF RunsEnd
  <2> QED BY <2>1, <2>2, <2>3, EndsLeft
<1>6. CASE LingerEnds
  <2>1. /\ UNCHANGED <<worker_status, session_run, effects, seq, working, cut, journal, events>>
        /\ up = "ending"
    BY <1>6 DEF LingerEnds, seatVars, readingVars, appliedVars
  <2>2. ~working
    BY <2>1 DEF RunsEnd
  <2>3. Known' = Known
    BY <2>1 DEF Known
  <2> QED BY <2>1, <2>2, <2>3, EndsLeft
<1>7. CASE UNCHANGED vars
  <2>1. /\ UNCHANGED <<worker_status, session_run, effects, seq, working, cut, journal, events>>
        /\ UNCHANGED <<up, run>>
    BY <1>7 DEF vars, runnerVars, seatVars, readingVars, appliedVars
  <2>2. Known' = Known
    BY <2>1 DEF Known
  <2>3. working => up' = "alive" /\ run' # NoRun /\ run'[2] = run[2]
    BY <2>1 DEF RunsEnd
  <2> QED BY <2>1, <2>2, <2>3, EndsLeft
<1> QED BY <1>1, <1>2, <1>3, <1>4, <1>5, <1>6, <1>7, Zenon DEF Next, Runner

-------------------------------------------------------------------------------
(* The theorems.                                                           *)

\* Before anything was started, nothing is known of anyone.
LEMMA InitInductive == Init => Inductive
<1> SUFFICES ASSUME Init PROVE Inductive
  OBVIOUS
<1>1. /\ journal = {} /\ seq = 0 /\ effects = <<>> /\ followed = {} /\ ended = {}
      /\ up = "down" /\ process = 0 /\ epoch = 0 /\ run = NoRun
      /\ live_launch = 0 /\ live_epoch = 0 /\ worker_epoch = 0
  BY DEF Init
<1>2. /\ Known = {} /\ Len(effects) = 0 /\ DOMAIN effects = {}
      /\ \A b \in Backends : /\ events[b] = {} /\ acked[b] = 0 /\ following[b] = 0
                             /\ registering[b] = 0
      /\ \A e \in 1 .. MaxEpoch : holder[e] = 0
      /\ \A e \in Epochs : applied_seq[e] = 0 /\ projected_seq[e] = 0
  BY EmptySeq DEF Init, Known
<1>3. AppliedOnceInOrder /\ NothingLost
  BY <1>1, <1>2 DEF AppliedOnceInOrder, NothingLost
<1>4. Written /\ PositionsTell
  BY <1>1, <1>2 DEF Written, PositionsTell
<1>5. DoneWith
  BY <1>1, <1>2 DEF DoneWith, ReadsOn
<1>6. HoldersKnown
  BY <1>1, <1>2 DEF HoldersKnown
<1>7. ExitsOfHolders /\ RunNamed
  BY <1>1, <1>2 DEF ExitsOfHolders, RunNamed
<1>8. RunsEnd
  <2>1. working = FALSE /\ worker_status = "idle"
    BY DEF Init
  <2> QED BY <1>2, <2>1 DEF RunsEnd
<1> QED BY <1>3, <1>4, <1>5, <1>6, <1>7, <1>8 DEF Inductive

\* Every step keeps the order of effects.
LEMMA NextInOrder ==
  ASSUME IInv, [Next]_vars
  PROVE  InOrder'
<1> TypeOK /\ InOrder
  BY Parts DEF InOrder
<1>1. CASE Start \/ Open \/ Finish \/ ReportExit
  BY <1>1, Journals DEF InOrder
<1>2. CASE LingerEnds \/ Killed \/ UNCHANGED vars
  <2>1. /\ UNCHANGED <<journal, seq, effects, followed, applied_seq, projected_seq>>
        /\ epoch' \in {epoch, 0} /\ UNCHANGED <<events, acked, following>>
    BY <1>2 DEF LingerEnds, Killed, vars, runnerVars, seatVars, readingVars, appliedVars
  <2> QED BY <2>1, QuietInOrder
<1>3. ASSUME NEW b \in Backends,
             \/ Register(b) \/ HandOverFails(b) \/ Superseded(b)
             \/ ApplyStale(b) \/ Refused(b) \/ Crash(b)
      PROVE  InOrder'
  BY <1>3, StopsInOrder
<1>4. ASSUME NEW b \in Backends, HandOver(b) PROVE InOrder'
  BY <1>4, HandOverInOrder
<1>5. ASSUME NEW b \in Backends, Drain(b) \/ DrainLost(b) PROVE InOrder'
  BY <1>5, RunNumbers, DrainInOrder
<1>6. ASSUME NEW b \in Backends, Apply(b) \/ Follow(b) PROVE InOrder'
  BY <1>6, ApplyInOrder, FollowInOrder
<1> QED BY <1>1, <1>2, <1>3, <1>4, <1>5, <1>6, Zenon DEF Next, Runner

\* Every step keeps the invariant.
LEMMA NextInductive == IInv /\ [Next]_vars => IInv'
<1> SUFFICES ASSUME IInv, [Next]_vars PROVE IInv'
  OBVIOUS
<1>1. TypeOK /\ InOrder /\ HoldersKnown /\ ExitsOfHolders /\ RunNamed /\ RunsEnd
  BY Parts DEF InOrder
<1>2. TypeOK'
  BY NextTyped
<1>3. InOrder' /\ HoldersKnown' /\ ExitsOfHolders' /\ RunNamed' /\ RunsEnd'
  BY <1>1, NextInOrder, NextHolders, NextExits, NextRun, NextEnds
<1> QED BY <1>2, <1>3 DEF IInv, Inductive, InOrder

\* The types and the invariant hold of every state the system reaches.
LEMMA Invariant == Spec => []IInv
<1>1. Init => IInv
  BY InitTyped, InitInductive DEF IInv
<1> QED BY <1>1, NextInductive, PTL DEF Spec

\* Type correctness: among others, no answer is longer than a page, whatever
\* is registered or acknowledged meanwhile (Outbox.pending).
THEOREM TypeCorrect == Spec => []TypeOK
<1>1. IInv => TypeOK
  BY DEF IInv
<1> QED BY <1>1, Invariant, PTL

\* The journal, the answers under way, the seat's positions and the
\* registrations agree with one another in every reachable state.
THEOREM InductiveHolds == Spec => []Inductive
<1>1. IInv => Inductive
  BY DEF IInv
<1> QED BY <1>1, Invariant, PTL

\* Every event takes effect once and in the order it was written, however many
\* backends deliver it, how often, and under which registrations (take, claim).
THEOREM EffectsInOrder == Spec => []AppliedOnceInOrder
<1>1. Inductive => AppliedOnceInOrder
  BY DEF Inductive
<1> QED BY <1>1, InductiveHolds, PTL

\* The runner forgets an event only after all that follows from it was done
\* (Outbox.ack, drain, _report).
THEOREM NothingIsLost == Spec => []NothingLost
<1>1. Inductive => NothingLost
  BY DEF Inductive
<1> QED BY <1>1, InductiveHolds, PTL

\* Once all the runner journaled took effect, the seat has the run the runner
\* names, and works if and only if the runner does; and whatever is up, it says
\* running of no run but the one going on or one that was killed with its runner
\* (run_started, dispatch "run", exited).
THEOREM RunsAgreeOn == Spec => []RunsAgree
<1>1. ASSUME IInv, up = "alive", run # NoRun, Len(effects) = seq
      PROVE  session_run = run /\ (working <=> worker_status = "running")
  <2>1. TypeOK /\ RunHeard
    BY <1>1, Parts DEF RunNamed
  <2>2. run[2] \in Nat /\ seq \in Nat
    BY <2>1, RunNumbers
  <2>3. CASE working
    <3>1. seq = run[2]
      BY <2>1, <2>3 DEF RunHeard
    <3>2. session_run = run /\ worker_status = "running"
      BY <1>1, <2>1, <2>2, <3>1 DEF RunHeard
    <3> QED BY <2>3, <3>2, Zenon
  <2>4. CASE ~working
    <3>1. seq = run[2] + 1
      BY <2>1, <2>4 DEF RunHeard
    <3>2. session_run = run /\ worker_status = "idle"
      BY <1>1, <2>1, <2>2, <3>1 DEF RunHeard
    <3>3. worker_status # "running"
      BY <3>2
    <3> QED BY <2>4, <3>2, <3>3, Zenon
  <2> QED BY <2>3, <2>4
<1>2. ASSUME IInv, Len(effects) = seq, worker_status = "running"
      PROVE  (up = "alive" /\ working) \/ session_run[2] \in cut
  <2>1. TypeOK /\ RunsEnd
    BY <1>2, Parts
  <2>2. CASE session_run[2] \in cut
    BY <2>2
  <2>3. CASE Len(effects) = session_run[2] /\ Continues(session_run[2])
    <3>1. ~ (session_run[2] < seq)
      BY <1>2, <2>1, <2>3, RunNumbers
    <3>2. working
      BY <2>3, <3>1 DEF Continues
    <3>3. up = "alive"
      BY <2>1, <3>2 DEF RunsEnd
    <3> QED BY <3>2, <3>3, Zenon
  <2> QED BY <1>2, <2>1, <2>2, <2>3 DEF RunsEnd
<1>3. IInv => RunsAgree
  BY <1>1, <1>2, Zenon DEF RunsAgree
<1> QED BY <1>3, Invariant, PTL

\* The exit of a process that was ever registered ends its own session only,
\* never the one of a registration that replaced it (session_state.exited).
THEOREM ExitsOfRegistered == Spec => []ExitOfRegistered
<1>1. Inductive => ExitOfRegistered
  BY DEF Inductive, ExitsOfHolders, Unheld, ExitOfRegistered
<1> QED BY <1>1, InductiveHolds, PTL

-------------------------------------------------------------------------------
(* What it comes to: EventsOnce.                                           *)

\* The events the runner has, by their sequences.
Kept == {x.seq : x \in journal}

\* What the runner's own steps are of EventsOnce: events are written, or none.
LEMMA RunnerWrites ==
  ASSUME IInv, Start \/ Open \/ Finish \/ ReportExit
  PROVE  Once!Write \/ UNCHANGED <<seq, Kept, effects, followed>>
<1> TypeOK /\ HoldersKnown
  BY Parts
<1>1. UNCHANGED <<effects, followed>>
  BY DEF Start, Open, Finish, ReportExit, appliedVars
<1>2. PICK new \in SUBSET Event :
        /\ journal' = journal \cup new
        /\ seq' \in Nat /\ seq <= seq'
        /\ \A x \in new : seq < x.seq /\ x.seq <= seq'
        /\ \A s \in seq + 1 .. seq' : \E x \in new : x.seq = s
  BY Emits
<1>3. seq \in Nat /\ \A x \in new : x.seq \in Nat
  BY RunNumbers, EventFields
<1>4. {x.seq : x \in new} = seq + 1 .. seq'
  <2>1. ASSUME NEW x \in new PROVE x.seq \in seq + 1 .. seq'
    BY <1>2, <1>3
  <2>2. ASSUME NEW s \in seq + 1 .. seq' PROVE s \in {x.seq : x \in new}
    BY <1>2
  <2> QED BY <2>1, <2>2
<1>5. Kept' = Kept \cup (seq + 1 .. seq')
  BY <1>2, <1>4 DEF Kept
<1>6. CASE seq' = seq
  <2>1. seq + 1 .. seq' = {}
    BY <1>3, <1>6
  <2> QED BY <1>1, <1>5, <1>6, <2>1
<1>7. CASE seq' # seq
  <2>1. seq' \in Nat /\ seq' > seq
    BY <1>2, <1>3, <1>7
  <2> QED BY <1>1, <1>5, <2>1 DEF Once!Write, Kept
<1> QED BY <1>6, <1>7

\* No step but the runner's writes, and what is no longer kept was done with.
LEMMA KeepsTheRest ==
  ASSUME IInv, IInv', Next, ~ (Start \/ Open \/ Finish \/ ReportExit)
  PROVE  seq' = seq /\ Kept' \subseteq Kept /\ Kept \ Kept' \subseteq followed'
<1>1. TypeOK /\ InOrder /\ NothingLost' /\ Written
  BY Parts DEF InOrder, IInv, Inductive
<1>2. seq' = seq /\ (journal' \subseteq journal \/ \E b \in Backends : HandOver(b))
  <2>1. CASE LingerEnds \/ Killed
    BY <2>1 DEF LingerEnds, Killed
  <2>2. ASSUME NEW b \in Backends,
               \/ Register(b) \/ HandOverFails(b) \/ Superseded(b) \/ ApplyStale(b)
               \/ Refused(b) \/ Crash(b)
        PROVE  seq' = seq /\ journal' = journal
    BY <2>2 DEF Register, HandOverFails, Superseded, ApplyStale, Refused, Crash, runnerVars
  <2>3. ASSUME NEW b \in Backends, Drain(b) \/ DrainLost(b)
        PROVE  seq' = seq /\ journal' \subseteq journal
    BY <2>3 DEF Drain, DrainLost, Unacked
  <2>4. ASSUME NEW b \in Backends, Apply(b) \/ Follow(b)
        PROVE  seq' = seq /\ journal' \subseteq journal
    BY <2>4 DEF Apply, Follow, HandOn, Unacked
  <2>5. ASSUME NEW b \in Backends, HandOver(b) PROVE seq' = seq
    BY <2>5 DEF HandOver
  <2> QED BY <2>1, <2>2, <2>3, <2>4, <2>5 DEF Next, Runner
<1>3. Kept' \subseteq Kept
  <2>1. CASE journal' \subseteq journal
    BY <2>1 DEF Kept
  <2>2. ASSUME NEW b \in Backends, HandOver(b) PROVE Kept' \subseteq Kept
    <3>1. journal' = Restamped(registering[b])
      BY <2>2 DEF HandOver
    <3>2. journal \subseteq Event
      BY <1>1 DEF TypeOK
    <3>3. \A x \in journal' : \E y \in journal : x.seq = y.seq
      BY <3>1, <3>2 DEF Restamped, Event
    <3> QED BY <3>3 DEF Kept
  <2> QED BY <1>2, <2>1, <2>2
<1>4. ASSUME NEW s \in Kept PROVE s \in 1 .. seq
  <2>1. PICK x \in journal : x.seq = s
    BY DEF Kept
  <2>2. x \in Event /\ x.seq <= seq
    BY <1>1, KnownEvents DEF Written
  <2> QED BY <1>1, <2>1, <2>2, EventFields, RunNumbers
<1>5. ASSUME NEW s \in Kept, s \notin Kept' PROVE s \in followed'
  BY <1>1, <1>2, <1>4, <1>5 DEF NothingLost, Kept
<1> QED BY <1>2, <1>3, <1>5

\* The effects of an event are those of the next one, and nothing else changes
\* with them.
LEMMA ApplyTakesEffect ==
  ASSUME IInv, IInv', NEW b \in Backends, Apply(b)
  PROVE  /\ followed' = followed
         /\ effects' = effects \/ Once!TakeEffect
<1>1. TypeOK /\ AppliedOnceInOrder' /\ Written' /\ TypeOK'
  BY DEF IInv, Inductive
<1>2. followed' = followed /\ seq' = seq
  BY DEF Apply
<1>3. CASE Claimed(First(b)) # "new"
  BY <1>2, <1>3 DEF Apply
<1>4. CASE Claimed(First(b)) = "new"
  <2> DEFINE x == First(b)  n == Len(effects)
  <2>1. effects' = Append(effects, x.seq) /\ journal' = journal
    BY <1>4 DEF Apply, Effects
  <2>2. effects \in Seq(1 .. MaxSeq) /\ n \in Nat /\ x \in Event
    BY <1>1, CountApplied, FirstIn DEF TypeOK, Apply
  <2>3. x.seq \in 1 .. MaxSeq
    BY <2>2 DEF Event
  <2>4. Len(effects') = n + 1 /\ effects'[n + 1] = x.seq
    BY <2>1, <2>2, <2>3, AppendProperties
  <2>5. DOMAIN effects' = 1 .. n + 1
    BY <2>1, <2>2, <2>3, AppendProperties, LenProperties
  <2>6. x.seq = n + 1
    BY <1>1, <2>2, <2>4, <2>5 DEF AppliedOnceInOrder
  <2>7. n < seq
    BY <1>1, <1>2, <2>2, <2>4, RunNumbers DEF Written
  <2> HIDE DEF x, n
  <2> QED BY <1>2, <2>1, <2>6, <2>7 DEF Once!TakeEffect, n
<1> QED BY <1>2, <1>3, <1>4

\* Events are followed through one after another, those that took effect.
LEMMA FollowsOne ==
  ASSUME IInv, IInv', NEW b \in Backends, Follow(b)
  PROVE  /\ effects' = effects
         /\ \E s \in 1 .. Len(effects) : /\ 1 .. s - 1 \subseteq followed
                                         /\ followed' = followed \cup {s}
<1> DEFINE s == First(b).seq
<1>1. effects' = effects /\ followed' = followed \cup {s} /\ following[b] # 0
  BY DEF Follow
<1>2. TypeOK /\ DoneWith /\ DoneWith'
  BY DEF IInv, Inductive
<1>3. events[b] # {}
  BY <1>1, <1>2 DEF DoneWith, ReadsOn
<1>4. First(b) \in Event
  BY <1>2, <1>3, FirstIn
<1>5. s \in Nat /\ s > 0 /\ Len(effects) \in Nat
  BY <1>2, <1>4, EventFields, CountApplied
<1> HIDE DEF s
<1>6. s <= Len(effects') /\ 1 .. s \subseteq followed'
  BY <1>1, <1>2 DEF DoneWith
<1>7. 1 .. s - 1 \subseteq followed
  <2>1. ASSUME NEW r \in 1 .. s - 1 PROVE r \in 1 .. s /\ r # s
    BY <1>5
  <2> QED BY <1>1, <1>6, <2>1
<1> QED BY <1>1, <1>5, <1>6, <1>7

\* Every step is one of EventsOnce, or none of its.
LEMMA StepIsOnce ==
  ASSUME IInv, IInv', [Next]_vars
  PROVE  [Once!Next]_(<<seq, Kept, effects, followed>>)
<1>1. CASE Start \/ Open \/ Finish \/ ReportExit
  BY <1>1, RunnerWrites DEF Once!Next
<1>2. CASE UNCHANGED vars
  BY <1>2 DEF vars, runnerVars, appliedVars, Kept
<1>3. CASE Next /\ ~ (Start \/ Open \/ Finish \/ ReportExit)
  <2>1. seq' = seq /\ Kept' \subseteq Kept /\ Kept \ Kept' \subseteq followed'
    BY <1>3, KeepsTheRest
  <2>2. Once!Forgets
    BY <2>1 DEF Once!Forgets, Kept
  <2>3. CASE UNCHANGED <<effects, followed>>
    BY <2>1, <2>2, <2>3 DEF Once!Next, Once!Forget
  <2>4. ASSUME NEW b \in Backends, Apply(b)
        PROVE  [Once!Next]_(<<seq, Kept, effects, followed>>)
    BY <2>3, <2>4, ApplyTakesEffect DEF Once!Next
  <2>5. ASSUME NEW b \in Backends, Follow(b)
        PROVE  [Once!Next]_(<<seq, Kept, effects, followed>>)
    <3>1. Once!FollowThrough
      BY <2>1, <2>2, <2>5, FollowsOne DEF Once!FollowThrough
    <3> QED BY <3>1 DEF Once!Next
  <2>6. \/ UNCHANGED <<effects, followed>>
        \/ \E b \in Backends : Apply(b) \/ Follow(b)
    BY <1>3 DEF Next, Runner, LingerEnds, Killed, Register, HandOver, HandOverFails, Drain,
                DrainLost, Superseded, ApplyStale, Refused, Crash, appliedVars
  <2> QED BY <2>3, <2>4, <2>5, <2>6
<1> QED BY <1>1, <1>2, <1>3

\* The protocol implements EventsOnce: however registrations, backends and
\* processes come and go, an event takes effect after all before it, is followed
\* through after that and in the same order, and is forgotten last.
THEOREM Implements == Spec => HeardOnce
<1>1. Init => Once!Init
  BY DEF Init, Once!Init
<1>2. ASSUME IInv, IInv', [Next]_vars
      PROVE  [Once!Next]_(Once!vars)
  BY <1>2, StepIsOnce DEF Once!vars, Kept
<1> QED BY <1>1, <1>2, Invariant, PTL DEF Spec, HeardOnce, Once!Spec

===============================================================================
