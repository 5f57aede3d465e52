---------------------------- MODULE InputHoldsProofs ----------------------------
(***************************************************************************)
(* What InputHolds promises for any number of messages, inputs, processes  *)
(* and faults: a message that a session may still read is held from every  *)
(* other prompt, one given back unread is never heard to be read, and an   *)
(* input is put into the session once.                                     *)
(*                                                                         *)
(* The argument. An input is answered for once, by an echo or a drop,      *)
(* because a runner takes it from `unread` as it reports it (AnsweredOnce).*)
(* The other way to free its messages, the exit of its process, is told of *)
(* a process that is gone (ExitsAreOfTheGone), so it is behind whatever    *)
(* was handed to the one that is there (UnreadIsNotFreed). The operations  *)
(* on rows come first, then what a step may change for each part to hold,  *)
(* then every step, and the theorems last.                                 *)
(***************************************************************************)
EXTENDS InputHolds, FiniteSetTheorems, SequenceTheorems, WellFoundedInduction, TLAPS

-------------------------------------------------------------------------------
(* Sequences of reports.                                                   *)

\* The greatest of a set of numbers is one of them (Max of the cursor's positions).
LEMMA GreatestIn ==
  ASSUME NEW n \in Nat, NEW S \in SUBSET (0 .. n), S # {}
  PROVE  Max(S) \in S /\ \A y \in S : y <= Max(S)
<1> DEFINE T == {n - x : x \in S}
<1>1. PICK t \in T : \A y \in T : ~ (<<y, t>> \in OpToRel(<, Nat))
  <2>1. \A x \in S : x \in Int /\ 0 <= x /\ x <= n
    OBVIOUS
  <2>2. \A x \in S : n - x \in Nat
    BY <2>1
  <2>3. T \subseteq Nat /\ T # {}
    BY <2>2, Zenon
  <2> QED BY <2>3, NatLessThanWellFounded, WFMin, Zenon
<1>2. PICK x \in S : t = n - x
  OBVIOUS
<1>3. \A y \in S : y <= x
  <2>1. SUFFICES ASSUME NEW y \in S, ~(y <= x) PROVE FALSE
    OBVIOUS
  <2>2. n - y \in T /\ n - y \in Nat /\ t \in Nat /\ n - y < t
    BY <1>2, <2>1
  <2>3. <<n - y, t>> \in OpToRel(<, Nat)
    BY <2>2 DEF OpToRel
  <2> QED BY <1>1, <2>2, <2>3
<1>4. \E z \in S : \A y \in S : z >= y
  BY <1>3
<1>5. Max(S) \in S /\ \A y \in S : Max(S) >= y
  BY <1>4, Zenon DEF Max
<1> QED BY <1>5

\* A finite set, put in some order, is listed once each (SetToSeq of what is unread).
LEMMA Listed ==
  ASSUME NEW S, IsFiniteSet(S)
  PROVE  SetToSeq(S) \in [1 .. Cardinality(S) -> S] /\ IsInjective(SetToSeq(S))
<1>1. ExistsBijection(1 .. Cardinality(S), S)
  BY FS_CardinalityType
<1>2. \E b \in [1 .. Cardinality(S) -> S] : IsInjective(b)
  BY <1>1 DEF ExistsBijection, Bijection, Injection
<1> QED BY <1>2, Zenon DEF SetToSeq

\* _drop_unread: one report per unread input, each of its own input.
LEMMA DroppedReports ==
  ASSUME NEW is \in SUBSET Input, NEW e \in Epoch
  PROVE  /\ Dropped(is, e) \in Seq(Report)
         /\ \A n \in DOMAIN Dropped(is, e) :
              /\ Dropped(is, e)[n].kind = "dropped" /\ Dropped(is, e)[n].epoch = e
              /\ Dropped(is, e)[n].input \in is
         /\ \A m, n \in DOMAIN Dropped(is, e) :
              Dropped(is, e)[m].input = Dropped(is, e)[n].input => m = n
<1> DEFINE c == Cardinality(is)
           s == SetToSeq(is)
<1>1. IsFiniteSet(is) /\ c \in Nat
  <2>1. IsFiniteSet(Input)
    BY FS_Interval, BoundAssumption DEF Input
  <2> QED BY <2>1, FS_Subset, FS_CardinalityType
<1>2. s \in [1 .. c -> is] /\ \A m, n \in 1 .. c : s[m] = s[n] => m = n
  BY <1>1, Listed DEF IsInjective
<1> HIDE DEF c, s
<1> DEFINE d == [n \in 1 .. c |-> [kind |-> "dropped", input |-> s[n], inside |-> 0, epoch |-> e]]
<1>3. Dropped(is, e) = d
  BY Zenon DEF Dropped, Said, c, s
<1>4. \A n \in 1 .. c : d[n] \in Report
  <2> SUFFICES ASSUME NEW n \in 1 .. c PROVE d[n] \in Report
    OBVIOUS
  <2>1. s[n] \in Input
    BY <1>2
  <2>2. s[n] \in 0 .. MaxInput /\ 0 \in 0 .. MaxInput
    BY <2>1, BoundAssumption DEF Input
  <2> QED BY <2>2 DEF Report
<1>5. d \in Seq(Report)
  BY <1>1, <1>4, IsASeq
<1> QED BY <1>2, <1>3, <1>5

\* A report of a sequence appended to another is a report of one of the two.
LEMMA Joined ==
  ASSUME NEW s \in Seq(Report), NEW t \in Seq(Report)
  PROVE  /\ s \o t \in Seq(Report)
         /\ \A n \in DOMAIN (s \o t) :
              IF n <= Len(s) THEN n \in DOMAIN s /\ (s \o t)[n] = s[n]
                             ELSE n - Len(s) \in DOMAIN t /\ (s \o t)[n] = t[n - Len(s)]
<1>1. /\ s \o t \in Seq(Report) /\ Len(s \o t) = Len(s) + Len(t)
      /\ \A i \in 1 .. Len(s) + Len(t) :
           (s \o t)[i] = IF i <= Len(s) THEN s[i] ELSE t[i - Len(s)]
  BY ConcatProperties
<1>2. /\ DOMAIN s = 1 .. Len(s) /\ DOMAIN t = 1 .. Len(t)
      /\ DOMAIN (s \o t) = 1 .. Len(s) + Len(t)
      /\ Len(s) \in Nat /\ Len(t) \in Nat
  BY <1>1, LenProperties
<1> QED BY <1>1, <1>2

\* What is left of the reports when the first is taken.
LEMMA Rest ==
  ASSUME NEW s \in Seq(Report), s # <<>>
  PROVE  /\ Tail(s) \in Seq(Report)
         /\ Head(s) = s[1] /\ 1 \in DOMAIN s /\ s[1] \in Report
         /\ \A n \in DOMAIN Tail(s) :
              n + 1 \in DOMAIN s /\ n \in Nat /\ n > 0 /\ Tail(s)[n] = s[n + 1]
<1>1. /\ Tail(s) \in Seq(Report) /\ Len(Tail(s)) = Len(s) - 1
      /\ \A i \in 1 .. Len(Tail(s)) : Tail(s)[i] = s[i + 1]
  BY HeadTailProperties
<1>2. DOMAIN s = 1 .. Len(s) /\ DOMAIN Tail(s) = 1 .. Len(Tail(s)) /\ Len(s) \in Nat
  BY <1>1, LenProperties
<1>3. Len(s) > 0
  BY EmptySeq, <1>2
<1> QED BY <1>1, <1>2, <1>3, ElementOfSeq

\* One more report is a sequence of one appended.
LEMMA Added ==
  ASSUME NEW s \in Seq(Report), NEW r \in Report
  PROVE  <<r>> \in Seq(Report) /\ Append(s, r) = s \o <<r>>
  BY AppendProperties

\* What the reports of an ending answer for, and under which epoch.
LEMMA EndingReports ==
  ASSUME NEW is \in SUBSET Input, NEW w \in 0 .. MaxInput, NEW e \in Epoch
  PROVE  /\ Ending(is, w, e) \in Seq(Report)
         /\ \A n \in DOMAIN Ending(is, w, e) :
              /\ Ending(is, w, e)[n].epoch = e
              /\ Answers(Ending(is, w, e)[n]) => Ending(is, w, e)[n].input \in is
         /\ \A m, n \in DOMAIN Ending(is, w, e) :
              /\ Answers(Ending(is, w, e)[m]) /\ Answers(Ending(is, w, e)[n])
              /\ Ending(is, w, e)[m].input = Ending(is, w, e)[n].input
              => m = n
<1> DEFINE d == Dropped(is, e)
           a == IF w = 0 THEN <<>> ELSE <<Said("idle", 0, w, e)>>
           x == <<Said("exited", 0, 0, e)>>
<1>1. /\ d \in Seq(Report)
      /\ \A n \in DOMAIN d : d[n].epoch = e /\ d[n].input \in is
      /\ \A m, n \in DOMAIN d : d[m].input = d[n].input => m = n
  BY DroppedReports
<1>2. Said("idle", 0, w, e) \in Report /\ Said("exited", 0, 0, e) \in Report
  BY BoundAssumption DEF Said, Report
<1>3. /\ a \in Seq(Report)
      /\ \A n \in DOMAIN a : a[n].epoch = e /\ ~Answers(a[n])
  BY <1>2 DEF Said, Answers
<1>4. /\ x \in Seq(Report)
      /\ \A n \in DOMAIN x : x[n].epoch = e /\ ~Answers(x[n])
  BY <1>2 DEF Said, Answers
<1>5. Ending(is, w, e) = (d \o a) \o x
  BY DEF Ending
<1> HIDE DEF d, a, x
<1>6. /\ d \o a \in Seq(Report)
      /\ \A n \in DOMAIN (d \o a) :
           /\ (d \o a)[n].epoch = e
           /\ Answers((d \o a)[n]) => n \in DOMAIN d /\ (d \o a)[n] = d[n]
  BY <1>1, <1>3, Joined
<1>7. /\ (d \o a) \o x \in Seq(Report)
      /\ \A n \in DOMAIN ((d \o a) \o x) :
           /\ ((d \o a) \o x)[n].epoch = e
           /\ Answers(((d \o a) \o x)[n]) => n \in DOMAIN d /\ ((d \o a) \o x)[n] = d[n]
  <2> DEFINE b == d \o a
  <2>1. /\ b \in Seq(Report)
        /\ \A n \in DOMAIN b :
             b[n].epoch = e /\ (Answers(b[n]) => n \in DOMAIN d /\ b[n] = d[n])
    BY <1>6
  <2> HIDE DEF b
  <2>2. /\ b \o x \in Seq(Report)
        /\ \A n \in DOMAIN (b \o x) :
             /\ (b \o x)[n].epoch = e
             /\ Answers((b \o x)[n]) => n \in DOMAIN d /\ (b \o x)[n] = d[n]
    BY <2>1, <1>4, Joined
  <2> QED BY <2>2 DEF b
<1> DEFINE z == Ending(is, w, e)
<1>8. /\ z \in Seq(Report)
      /\ \A n \in DOMAIN z :
           z[n].epoch = e /\ (Answers(z[n]) => n \in DOMAIN d /\ z[n] = d[n])
  BY <1>5, <1>7
<1> HIDE DEF z
<1>9. /\ z \in Seq(Report)
      /\ \A n \in DOMAIN z : z[n].epoch = e /\ (Answers(z[n]) => z[n].input \in is)
      /\ \A m, n \in DOMAIN z :
           Answers(z[m]) /\ Answers(z[n]) /\ z[m].input = z[n].input => m = n
  BY <1>1, <1>8
<1> QED BY <1>9 DEF z

-------------------------------------------------------------------------------
(* The operations on rows.                                                 *)

\* No operation but `hand_to` takes back that the receiver exited, and no other
\* than the echo is read without being released before.
Kept(rs, qs) ==
  /\ DOMAIN qs \subseteq DOMAIN rs
  /\ \A j \in DOMAIN qs :
       /\ qs[j] \in Row
       /\ qs[j].own = rs[j].own /\ qs[j].work = rs[j].work
       /\ qs[j].batch = rs[j].batch /\ qs[j].first = rs[j].first
       /\ rs[j].handed <= qs[j].handed
       /\ rs[j].released => qs[j].released
       /\ qs[j].echoed => rs[j].echoed \/ qs[j].released
       /\ rs[j].receiver_exited => qs[j].receiver_exited \/ rs[j].handed < qs[j].handed

\* What the operations but the exit leave of a row's outcome.
Quiet(rs, qs) ==
  \A j \in DOMAIN qs : qs[j].echoed = rs[j].echoed /\ qs[j].released = rs[j].released

\* Leaving the rows alone keeps what Kept and Quiet ask for.
LEMMA NoChange ==
  ASSUME NEW rs, \A j \in DOMAIN rs : rs[j] \in Row
  PROVE  Kept(rs, rs) /\ Quiet(rs, rs)
  BY DEF Kept, Quiet, Row, Epoch

\* hand_to moves one row to the epoch of the call, and clears an older exit only.
LEMMA HandTo ==
  ASSUME NEW rs, \A j \in DOMAIN rs : rs[j] \in Row, NEW i, NEW e \in Epoch
  PROVE  LET qs == hand_to(rs, i, e) IN
           /\ Kept(rs, qs) /\ Quiet(rs, qs) /\ DOMAIN qs = DOMAIN rs
           /\ \A j \in DOMAIN rs :
                /\ qs[j].terminated = rs[j].terminated
                /\ \/ /\ qs[j].handed = rs[j].handed
                      /\ qs[j].receiver_exited = rs[j].receiver_exited
                   \/ qs[j].handed = e /\ ~qs[j].receiver_exited
           /\ i \in DOMAIN rs /\ Unread(rs[i]) => e <= qs[i].handed
<1> DEFINE qs == hand_to(rs, i, e)
<1>1. e \in Int /\ \A j \in DOMAIN rs : rs[j].handed \in Int
  BY BoundAssumption DEF Row, Epoch
<1>2. ASSUME NEW j \in DOMAIN rs
      PROVE  /\ qs[j] \in Row
             /\ qs[j].own = rs[j].own /\ qs[j].work = rs[j].work
             /\ qs[j].batch = rs[j].batch /\ qs[j].first = rs[j].first
             /\ qs[j].echoed = rs[j].echoed /\ qs[j].released = rs[j].released
             /\ qs[j].terminated = rs[j].terminated
             /\ \/ /\ qs[j].handed = rs[j].handed
                   /\ qs[j].receiver_exited = rs[j].receiver_exited
                \/ rs[j].handed < e /\ qs[j].handed = e /\ ~qs[j].receiver_exited
             /\ j = i /\ Unread(rs[i]) => e <= qs[i].handed
  <2>1. CASE j = i /\ Unread(rs[i]) /\ rs[i].handed < e
    <3>1. qs[j] = [rs[j] EXCEPT !.handed = e, !.receiver_exited = FALSE]
      BY <2>1 DEF hand_to
    <3> HIDE DEF qs
    <3>2. qs[j] \in Row
      BY <3>1 DEF Row
    <3>3. /\ qs[j].own = rs[j].own /\ qs[j].work = rs[j].work
          /\ qs[j].batch = rs[j].batch /\ qs[j].first = rs[j].first
          /\ qs[j].echoed = rs[j].echoed /\ qs[j].released = rs[j].released
          /\ qs[j].terminated = rs[j].terminated
          /\ qs[j].handed = e /\ qs[j].receiver_exited = FALSE
      BY <3>1 DEF Row
    <3> QED BY <1>1, <2>1, <3>2, <3>3
  <2>2. CASE ~(j = i /\ Unread(rs[i]) /\ rs[i].handed < e)
    <3>1. qs[j] = rs[j]
      BY <2>2 DEF hand_to
    <3> QED BY <1>1, <2>2, <3>1
  <2> QED BY <2>1, <2>2
<1>3. DOMAIN qs = DOMAIN rs
  BY DEF hand_to
<1> HIDE DEF qs
<1>4. Kept(rs, qs) /\ Quiet(rs, qs)
  BY <1>1, <1>2, <1>3 DEF Kept, Quiet
<1> QED BY <1>2, <1>3, <1>4 DEF qs

\* An acknowledgement leaves everything but `accepted`.
LEMMA Accepted ==
  ASSUME NEW rs, \A j \in DOMAIN rs : rs[j] \in Row, NEW i
  PROVE  LET qs == record_accepted(rs, i) IN
           /\ DOMAIN qs = DOMAIN rs
           /\ \A j \in DOMAIN rs :
                /\ qs[j] \in Row
                /\ qs[j].own = rs[j].own /\ qs[j].work = rs[j].work
                /\ qs[j].batch = rs[j].batch /\ qs[j].first = rs[j].first
                /\ qs[j].handed = rs[j].handed /\ qs[j].released = rs[j].released
                /\ qs[j].echoed = rs[j].echoed /\ qs[j].terminated = rs[j].terminated
                /\ qs[j].receiver_exited = rs[j].receiver_exited
<1> SUFFICES ASSUME NEW j \in DOMAIN rs, i \in DOMAIN rs
             PROVE  LET qs == [rs EXCEPT ![i].accepted = TRUE] IN
                /\ qs[j] \in Row
                /\ qs[j].own = rs[j].own /\ qs[j].work = rs[j].work
                /\ qs[j].batch = rs[j].batch /\ qs[j].first = rs[j].first
                /\ qs[j].handed = rs[j].handed /\ qs[j].released = rs[j].released
                /\ qs[j].echoed = rs[j].echoed /\ qs[j].terminated = rs[j].terminated
                /\ qs[j].receiver_exited = rs[j].receiver_exited
  BY DEF record_accepted
<1> QED BY DEF Row

\* An echo releases its own row and touches no other.
LEMMA Echo ==
  ASSUME NEW rs, \A j \in DOMAIN rs : rs[j] \in Row, NEW i, NEW w \in 0 .. MaxInput
  PROVE  LET qs == record_echo(rs, i, w) IN
           /\ Kept(rs, qs) /\ DOMAIN qs = DOMAIN rs
           /\ \A j \in DOMAIN rs :
                /\ qs[j].terminated = rs[j].terminated
                /\ qs[j].handed = rs[j].handed
                /\ qs[j].receiver_exited = rs[j].receiver_exited
                /\ j # i => qs[j] = rs[j]
                /\ j = i => qs[j].echoed /\ qs[j].released
<1> DEFINE qs == record_echo(rs, i, w)
<1>1. \A j \in DOMAIN rs : rs[j].handed \in Int
  BY BoundAssumption DEF Row, Epoch
<1>2. ASSUME NEW j \in DOMAIN rs
      PROVE  /\ qs[j] \in Row
             /\ qs[j].own = rs[j].own /\ qs[j].work = rs[j].work
             /\ qs[j].batch = rs[j].batch /\ qs[j].first = rs[j].first
             /\ qs[j].handed = rs[j].handed /\ qs[j].terminated = rs[j].terminated
             /\ qs[j].receiver_exited = rs[j].receiver_exited
             /\ j # i => qs[j] = rs[j]
             /\ j = i => qs[j].echoed /\ qs[j].released
  <2>1. CASE j = i
    <3>1. qs[j] = [rs[j] EXCEPT !.echoed = TRUE, !.released = TRUE, !.inside = w]
      BY <2>1 DEF record_echo
    <3> QED BY <2>1, <3>1 DEF Row
  <2>2. CASE j # i
    BY <2>2 DEF record_echo
  <2> QED BY <2>1, <2>2
<1>3. DOMAIN qs = DOMAIN rs
  BY DEF record_echo
<1> HIDE DEF qs
<1>4. Kept(rs, qs)
  BY <1>1, <1>2, <1>3 DEF Kept
<1> QED BY <1>2, <1>3, <1>4 DEF qs

\* A drop releases and gives up its own row, where it had no outcome, and no other.
LEMMA Drop ==
  ASSUME NEW rs, \A j \in DOMAIN rs : rs[j] \in Row, NEW i
  PROVE  LET qs == drop_input(rs, i) IN
           /\ Kept(rs, qs) /\ DOMAIN qs = DOMAIN rs
           /\ \A j \in DOMAIN rs :
                /\ qs[j].handed = rs[j].handed
                /\ qs[j].receiver_exited = rs[j].receiver_exited
                /\ qs[j].echoed = rs[j].echoed
                /\ j # i => qs[j] = rs[j]
                /\ qs[j] = rs[j] \/ (qs[j].terminated /\ qs[j].released)
<1> DEFINE qs == drop_input(rs, i)
<1>1. \A j \in DOMAIN rs : rs[j].handed \in Int
  BY BoundAssumption DEF Row, Epoch
<1>2. ASSUME NEW j \in DOMAIN rs
      PROVE  /\ qs[j] \in Row
             /\ qs[j].own = rs[j].own /\ qs[j].work = rs[j].work
             /\ qs[j].batch = rs[j].batch /\ qs[j].first = rs[j].first
             /\ qs[j].handed = rs[j].handed /\ qs[j].echoed = rs[j].echoed
             /\ qs[j].receiver_exited = rs[j].receiver_exited
             /\ rs[j].released => qs[j].released
             /\ j # i => qs[j] = rs[j]
             /\ qs[j] = rs[j] \/ (qs[j].terminated /\ qs[j].released)
  <2>1. CASE j = i /\ Unread(rs[i])
    <3>1. qs[j] = [rs[j] EXCEPT !.terminated = TRUE, !.released = TRUE]
      BY <2>1 DEF drop_input
    <3> QED BY <2>1, <3>1 DEF Row
  <2>2. CASE ~(j = i /\ Unread(rs[i]))
    BY <2>2 DEF drop_input
  <2> QED BY <2>1, <2>2
<1>3. DOMAIN qs = DOMAIN rs
  BY DEF drop_input
<1> HIDE DEF qs
<1>4. Kept(rs, qs)
  BY <1>1, <1>2, <1>3 DEF Kept
<1> QED BY <1>2, <1>3, <1>4 DEF qs

\* An exit marks exactly the unread rows last handed to that process.
LEMMA ReceiverExited ==
  ASSUME NEW rs, \A j \in DOMAIN rs : rs[j] \in Row, NEW e
  PROVE  LET qs == receiver_exited(rs, e) IN
           /\ Kept(rs, qs) /\ Quiet(rs, qs) /\ DOMAIN qs = DOMAIN rs
           /\ \A j \in DOMAIN rs :
                /\ qs[j].handed = rs[j].handed
                /\ qs[j].terminated = rs[j].terminated
                /\ qs[j].receiver_exited <=>
                     rs[j].receiver_exited \/ (Unread(rs[j]) /\ rs[j].handed = e)
<1> DEFINE qs == receiver_exited(rs, e)
<1>1. \A j \in DOMAIN rs : rs[j].handed \in Int
  BY BoundAssumption DEF Row, Epoch
<1>2. ASSUME NEW j \in DOMAIN rs
      PROVE  /\ qs[j] \in Row
             /\ qs[j].own = rs[j].own /\ qs[j].work = rs[j].work
             /\ qs[j].batch = rs[j].batch /\ qs[j].first = rs[j].first
             /\ qs[j].handed = rs[j].handed /\ qs[j].terminated = rs[j].terminated
             /\ qs[j].echoed = rs[j].echoed /\ qs[j].released = rs[j].released
             /\ qs[j].receiver_exited <=>
                  rs[j].receiver_exited \/ (Unread(rs[j]) /\ rs[j].handed = e)
  BY DEF receiver_exited, Row, Unread
<1>3. DOMAIN qs = DOMAIN rs
  BY DEF receiver_exited
<1> HIDE DEF qs
<1>4. Kept(rs, qs) /\ Quiet(rs, qs)
  BY <1>1, <1>2, <1>3 DEF Kept, Quiet
<1> QED BY <1>2, <1>3, <1>4 DEF qs

\* What a dead work held is given up, and nothing is released by it.
LEMMA Terminated ==
  ASSUME NEW rs, \A j \in DOMAIN rs : rs[j] \in Row, NEW w
  PROVE  LET qs == terminate_inputs_of_dead_works(rs, w) IN
           /\ Kept(rs, qs) /\ Quiet(rs, qs) /\ DOMAIN qs = DOMAIN rs
           /\ \A j \in DOMAIN rs :
                /\ qs[j].handed = rs[j].handed
                /\ qs[j].receiver_exited = rs[j].receiver_exited
                /\ rs[j].terminated => qs[j].terminated
                /\ qs[j].terminated => rs[j].terminated \/ rs[j].work = w
<1> DEFINE qs == terminate_inputs_of_dead_works(rs, w)
<1>1. \A j \in DOMAIN rs : rs[j].handed \in Int
  BY BoundAssumption DEF Row, Epoch
<1>2. ASSUME NEW j \in DOMAIN rs
      PROVE  /\ qs[j] \in Row
             /\ qs[j].own = rs[j].own /\ qs[j].work = rs[j].work
             /\ qs[j].batch = rs[j].batch /\ qs[j].first = rs[j].first
             /\ qs[j].handed = rs[j].handed
             /\ qs[j].receiver_exited = rs[j].receiver_exited
             /\ qs[j].echoed = rs[j].echoed /\ qs[j].released = rs[j].released
             /\ rs[j].terminated => qs[j].terminated
             /\ qs[j].terminated => rs[j].terminated \/ rs[j].work = w
  BY DEF terminate_inputs_of_dead_works, Row, Unread
<1>3. DOMAIN qs = DOMAIN rs
  BY DEF terminate_inputs_of_dead_works
<1> HIDE DEF qs
<1>4. Kept(rs, qs) /\ Quiet(rs, qs)
  BY <1>1, <1>2, <1>3 DEF Kept, Quiet
<1> QED BY <1>2, <1>3, <1>4 DEF qs

\* Withdrawing takes a row away whole.
LEMMA Withdraw ==
  ASSUME NEW rs, \A j \in DOMAIN rs : rs[j] \in Row, NEW i
  PROVE  LET qs == withdraw_input(rs, i) IN
           Kept(rs, qs) /\ Quiet(rs, qs) /\ \A j \in DOMAIN qs : qs[j] = rs[j]
<1>1. \A j \in DOMAIN rs : rs[j].handed \in Int
  BY BoundAssumption DEF Row, Epoch
<1>2. LET qs == withdraw_input(rs, i) IN
        DOMAIN qs \subseteq DOMAIN rs /\ \A j \in DOMAIN qs : qs[j] = rs[j]
  BY DEF withdraw_input
<1> QED BY <1>1, <1>2 DEF Kept, Quiet

-------------------------------------------------------------------------------
(* What a step adds: a row, or reports.                                    *)

\* The reports a step adds answer for inputs of U, once each.
Tells(t, U) ==
  /\ t \in Seq(Report)
  /\ \A n \in DOMAIN t :
       t[n].epoch <= worker_epoch /\ (Answers(t[n]) => t[n].input \in U)
  /\ \A m, n \in DOMAIN t :
       Answers(t[m]) /\ Answers(t[n]) /\ t[m].input = t[n].input => m = n

\* A step that reports nothing.
LEMMA TellsNothing ==
  ASSUME TypeOK, NEW U
  PROVE  Tells(<<>>, U) /\ out = out \o <<>>
  BY ConcatEmptySeq DEF Tells, TypeOK

\* A step that reports one thing.
LEMMA TellsOne ==
  ASSUME TypeOK, NEW U, NEW r \in Report, r.epoch <= worker_epoch, Answers(r) => r.input \in U
  PROVE  Tells(<<r>>, U) /\ Append(out, r) = out \o <<r>>
  BY Added DEF Tells, TypeOK

\* A process that ends answers for everything that was unread.
LEMMA TellsEnding ==
  ASSUME TypeOK, NEW w \in 0 .. MaxInput, NEW e \in Epoch, e <= worker_epoch
  PROVE  Tells(Ending(unread, w, e), unread)
<1>1. unread \in SUBSET Input
  BY DEF TypeOK
<1> QED BY <1>1, EndingReports DEF Tells

\* start: a new epoch, and either nothing told or everything unread told of.
LEMMA Started ==
  ASSUME TypeOK, ExitsAreOfTheGone, start
  PROVE  /\ worker_epoch' = worker_epoch + 1 /\ worker_epoch' \in Epoch
         /\ live' \in [up : BOOLEAN, work : 0 .. MaxInput] /\ live'.work = live.work
         /\ left' = 0
         /\ unread' \subseteq unread
         /\ \E t : /\ Tells(t, unread \ unread') /\ out' = out \o t
                   /\ t # <<>> => unread' = {}
<1>1. /\ worker_epoch' = worker_epoch + 1 /\ worker_epoch' \in Epoch /\ left' = 0
      /\ live' \in [up : BOOLEAN, work : 0 .. MaxInput] /\ live'.work = live.work
  <2>1. worker_epoch' = worker_epoch + 1 /\ worker_epoch' \in Epoch /\ left' = 0
    BY BoundAssumption DEF start, TypeOK, Epoch
  <2>2. live \in [up : BOOLEAN, work : 0 .. MaxInput] /\ live' = [live EXCEPT !.up = TRUE]
    BY DEF start, TypeOK
  <2> QED BY <2>1, <2>2
<1>2. CASE left = 0
  BY <1>1, <1>2, TellsNothing DEF start
<1>3. CASE left # 0
  <2>1. left \in Epoch /\ left <= worker_epoch /\ 0 \in 0 .. MaxInput
    BY BoundAssumption DEF TypeOK, ExitsAreOfTheGone
  <2>2. unread' = {} /\ out' = out \o Ending(unread, 0, left)
    BY <1>3 DEF start
  <2>3. Tells(Ending(unread, 0, left), unread)
    BY <2>1, TellsEnding
  <2> QED BY <1>1, <2>2, <2>3
<1> QED BY <1>2, <1>3

\* What start leaves has its type.
LEMMA StartedTyped ==
  ASSUME TypeOK, ExitsAreOfTheGone, start
  PROVE  /\ worker_epoch' \in Epoch /\ left' \in Epoch
         /\ live' \in [up : BOOLEAN, work : 0 .. MaxInput]
         /\ unread' \in SUBSET journal /\ out' \in Seq(Report)
<1>1. PICK t : /\ Tells(t, unread \ unread') /\ out' = out \o t
               /\ t # <<>> => unread' = {}
  BY Started, Zenon
<1>2. out' \in Seq(Report)
  BY <1>1, ConcatProperties DEF Tells, TypeOK
<1>3. unread \in SUBSET journal /\ 0 \in Epoch
  BY BoundAssumption DEF TypeOK, Epoch
<1> QED BY <1>2, <1>3, Started

\* register_input adds one row, under a number not drawn before.
LEMMA Registered ==
  ASSUME TypeOK, NEW own \in BOOLEAN, NEW work \in Input,
         NEW batch \in SUBSET (1 .. posted), register_input(own, work, batch)
  PROVE  /\ drawn + 1 \in Input /\ drawn' = drawn + 1 /\ drawn' \in 0 .. MaxInput
         /\ drawn + 1 \notin DOMAIN rows
         /\ DOMAIN rows' = DOMAIN rows \cup {drawn + 1}
         /\ \A i \in DOMAIN rows : rows'[i] = rows[i]
         /\ rows'[drawn + 1] = NewRow(own, work, batch)
         /\ NewRow(own, work, batch) \in Row
         /\ held_blocks \cap batch = {}
<1>1. /\ drawn + 1 \in Input /\ drawn' = drawn + 1 /\ drawn' \in 0 .. MaxInput
      /\ drawn + 1 \notin DOMAIN rows
  BY BoundAssumption DEF register_input, TypeOK, Input
<1>2. batch \in SUBSET Block
  BY BoundAssumption DEF TypeOK, Block
<1>3. NewRow(own, work, batch) \in Row
  BY <1>2, BoundAssumption DEF NewRow, Row, TypeOK
<1> QED BY <1>1, <1>3 DEF register_input

\* A call: the row is handed over, and the runner has begun the input, or put
\* it in, or knows nothing of it.
Spoken(s) ==
  /\ rows' = hand_to(rows, s.input, s.epoch)
  /\ journal \subseteq journal' /\ journal' \subseteq journal \cup {s.input}
  /\ unread \subseteq unread' /\ unread' \subseteq journal'
  /\ unread' \subseteq unread \cup ({s.input} \ journal)
  /\ \E t : /\ Tells(t, {}) /\ out' = out \o t
            /\ \A n \in DOMAIN t : t[n].kind # "exited"
  /\ live' \in [up : BOOLEAN, work : 0 .. MaxInput] /\ left' \in Epoch
  /\ \/ UNCHANGED <<live, left>>
     \/ live.up /\ ~live'.up /\ left' = worker_epoch /\ unread' = unread
  /\ unread' # unread => Reaches(s)

\* Every outcome of a call is one that Spoken describes.
LEMMA CallSpoken ==
  ASSUME TypeOK
  PROVE  \A s \in {sender, steer} :
           s.input \in Input /\ (Taken(s) \/ Begun(s) \/ NotTaken(s)) => Spoken(s)
<1> SUFFICES ASSUME NEW s \in {sender, steer}, s.input \in Input,
                    Taken(s) \/ Begun(s) \/ NotTaken(s)
             PROVE  Spoken(s)
  OBVIOUS
<1>1. /\ live \in [up : BOOLEAN, work : 0 .. MaxInput] /\ left \in Epoch
      /\ unread \subseteq journal /\ worker_epoch \in Epoch
      /\ 0 \in 0 .. MaxInput /\ s.input \in 0 .. MaxInput
  BY BoundAssumption DEF TypeOK, Input
<1>2. ASSUME out' = out
      PROVE  \E t : /\ Tells(t, {}) /\ out' = out \o t
                    /\ \A n \in DOMAIN t : t[n].kind # "exited"
  <2>1. Tells(<<>>, {}) /\ out' = out \o <<>>
    BY <1>2, TellsNothing
  <2>2. \A n \in DOMAIN <<>> : <<>>[n].kind # "exited"
    OBVIOUS
  <2> QED BY <2>1, <2>2
<1>3. CASE Taken(s)
  <2>1. CASE s.input \in journal
    <3>1. /\ rows' = hand_to(rows, s.input, s.epoch)
          /\ UNCHANGED <<live, left, journal, unread, out>>
      BY <1>3, <2>1 DEF Taken, accept
    <3> QED BY <1>1, <1>2, <3>1 DEF Spoken
  <2>2. CASE s.input \notin journal
    <3> DEFINE r == Said("written", s.input, 0, worker_epoch)
    <3>1. /\ r \in Report /\ r.epoch <= worker_epoch /\ ~Answers(r)
          /\ r.kind # "exited"
      BY <1>1, BoundAssumption DEF Said, Report, Answers, Epoch
    <3>2. out' = Append(out, r)
      BY <1>3, <2>2 DEF Taken, accept
    <3> HIDE DEF r
    <3>3. \E t : /\ Tells(t, {}) /\ out' = out \o t
                 /\ \A n \in DOMAIN t : t[n].kind # "exited"
      <4>1. Tells(<<r>>, {}) /\ out' = out \o <<r>>
        BY <3>1, <3>2, TellsOne
      <4>2. \A n \in DOMAIN <<r>> : <<r>>[n].kind # "exited"
        BY <3>1
      <4> QED BY <4>1, <4>2
    <3>4. /\ rows' = hand_to(rows, s.input, s.epoch) /\ Reaches(s)
          /\ journal' = journal \cup {s.input} /\ unread' = unread \cup {s.input}
          /\ UNCHANGED <<live, left>>
      BY <1>3, <2>2 DEF Taken, accept
    <3> QED BY <1>1, <2>2, <3>3, <3>4 DEF Spoken
  <2> QED BY <2>1, <2>2
<1>4. CASE Begun(s)
  <2>1. /\ live' = [live EXCEPT !.up = FALSE, !.work = 0] /\ left' = worker_epoch
        /\ live.up /\ journal' = journal \cup {s.input} /\ UNCHANGED <<unread, out>>
        /\ rows' = hand_to(rows, s.input, s.epoch)
    BY <1>4 DEF Begun, Reaches
  <2>2. live' \in [up : BOOLEAN, work : 0 .. MaxInput] /\ ~live'.up
    BY <1>1, <2>1
  <2> QED BY <1>1, <1>2, <2>1, <2>2 DEF Spoken
<1>5. CASE NotTaken(s)
  <2>1. /\ rows' = hand_to(rows, s.input, s.epoch)
        /\ UNCHANGED <<live, left, journal, unread, out>>
    BY <1>5 DEF NotTaken, runnerVars
  <2> QED BY <1>1, <1>2, <2>1 DEF Spoken
<1> QED BY <1>3, <1>4, <1>5

-------------------------------------------------------------------------------
(* Type correctness.                                                       *)

\* The inductive invariant: the types and what InputHolds calls Inductive.
IInv == TypeOK /\ Inductive

\* The numbers of a state, and the ranges they fall in.
LEMMA Numbers ==
  ASSUME TypeOK
  PROVE  /\ posted \in Nat /\ cursor \in Nat /\ drawn \in Nat /\ worker_epoch \in Nat
         /\ left \in Nat /\ 0 \in 0 .. MaxInput /\ 0 \in Epoch
         /\ Idle \in Sending /\ NoWork \in [work : 0 .. MaxInput, running : BOOLEAN]
         /\ 1 .. drawn \subseteq Input /\ Input \subseteq 0 .. MaxInput
         /\ 1 .. posted \subseteq Block
<1>1. /\ posted \in Nat /\ cursor \in Nat /\ drawn \in Nat /\ worker_epoch \in Nat
      /\ left \in Nat /\ 0 \in 0 .. MaxInput /\ 0 \in Epoch
  BY BoundAssumption DEF TypeOK, Epoch
<1>2. Idle \in Sending /\ NoWork \in [work : 0 .. MaxInput, running : BOOLEAN]
  BY <1>1 DEF Idle, Sending, NoWork
<1>3. /\ 1 .. drawn \subseteq Input /\ Input \subseteq 0 .. MaxInput
      /\ 1 .. posted \subseteq Block
  BY BoundAssumption DEF TypeOK, Input, Block
<1> QED BY <1>1, <1>2, <1>3

\* The session's steps keep the types.
LEMMA TypeOfSession ==
  ASSUME TypeOK, Session PROVE TypeOK'
<1> USE Numbers DEF TypeOK
<1>1. ASSUME NEW i \in Input, Read(i) PROVE TypeOK'
  <2> DEFINE w == IF live.work # 0 THEN live.work ELSE i
  <2>1. w \in 0 .. MaxInput
    BY DEF w
  <2>2. /\ live' = [live EXCEPT !.work = w] /\ unread' = unread \ {i}
        /\ out' = Append(out, Said("read", i, w, worker_epoch))
        /\ UNCHANGED <<convVars, recordVars, backendVars, left, journal, faults>>
    BY <1>1 DEF Read
  <2> HIDE DEF w
  <2>3. Said("read", i, w, worker_epoch) \in Report
    BY <2>1 DEF Said, Report
  <2>4. out' \in Seq(Report)
    BY <2>2, <2>3
  <2>5. live' \in [up : BOOLEAN, work : 0 .. MaxInput]
    BY <2>1, <2>2
  <2> QED BY <2>2, <2>4, <2>5 DEF convVars, recordVars, backendVars, callVars
<1>2. ASSUME NEW i \in Input, Settle(i) PROVE TypeOK'
  <2>1. Said("dropped", i, 0, worker_epoch) \in Report
    BY DEF Said, Report
  <2>2. out' \in Seq(Report)
    BY <1>2, <2>1 DEF Settle
  <2> QED BY <1>2, <2>2 DEF Settle, convVars, recordVars, backendVars, callVars
<1>3. ASSUME Finish PROVE TypeOK'
  <2>1. Said("idle", 0, live.work, worker_epoch) \in Report
    BY DEF Said, Report
  <2>2. out' \in Seq(Report)
    BY <1>3, <2>1 DEF Finish
  <2>3. live' \in [up : BOOLEAN, work : 0 .. MaxInput]
    BY <1>3 DEF Finish
  <2> QED BY <1>3, <2>2, <2>3 DEF Finish, convVars, recordVars, backendVars, callVars
<1>4. ASSUME Exit PROVE TypeOK'
  <2>1. Ending(unread, live.work, worker_epoch) \in Seq(Report)
    <3>1. unread \in SUBSET Input /\ live.work \in 0 .. MaxInput /\ worker_epoch \in Epoch
      OBVIOUS
    <3> QED BY <3>1, EndingReports
  <2>2. out' \in Seq(Report)
    BY <1>4, <2>1, ConcatProperties DEF Exit
  <2>3. live' \in [up : BOOLEAN, work : 0 .. MaxInput]
    BY <1>4 DEF Exit
  <2> QED BY <1>4, <2>2, <2>3 DEF Exit, convVars, recordVars, backendVars, callVars
<1>5. ASSUME Killed PROVE TypeOK'
  <2>1. faults' \in 0 .. MaxFault
    BY <1>5, BoundAssumption DEF Killed, Fault
  <2>2. live' \in [up : BOOLEAN, work : 0 .. MaxInput]
    BY <1>5 DEF Killed
  <2> QED BY <1>5, <2>1, <2>2 DEF Killed, convVars, recordVars, backendVars, callVars
<1> QED BY <1>1, <1>2, <1>3, <1>4, <1>5 DEF Session

\* The rows keep their type when one is added.
LEMMA NewRowTyped ==
  ASSUME TypeOK, NEW own \in BOOLEAN, NEW work \in Input,
         NEW batch \in SUBSET (1 .. posted), register_input(own, work, batch)
  PROVE  /\ drawn' \in 0 .. MaxInput /\ DOMAIN rows' \subseteq 1 .. drawn'
         /\ \A i \in DOMAIN rows' : rows'[i] \in Row
<1>1. /\ drawn + 1 \in Input /\ drawn' = drawn + 1 /\ drawn' \in 0 .. MaxInput
      /\ DOMAIN rows' = DOMAIN rows \cup {drawn + 1}
      /\ \A i \in DOMAIN rows : rows'[i] = rows[i]
      /\ rows'[drawn + 1] = NewRow(own, work, batch)
      /\ NewRow(own, work, batch) \in Row
  BY Registered
<1>2. DOMAIN rows \subseteq 1 .. drawn /\ drawn \in Nat /\ \A i \in DOMAIN rows : rows[i] \in Row
  BY Numbers DEF TypeOK
<1> QED BY <1>1, <1>2

\* Faults stay within their bound.
LEMMA FaultTyped ==
  ASSUME TypeOK, Fault PROVE faults' \in 0 .. MaxFault
  BY BoundAssumption DEF TypeOK, Fault

\* A turn's steps keep the types.
LEMMA TypeOfTurn ==
  ASSUME TypeOK, RowsHold, CallsAreOfRows, ExitsAreOfTheGone, Turn PROVE TypeOK'
<1> USE Numbers DEF TypeOK
<1> USE DEF convVars, recordVars, backendVars, callVars, runnerVars
<1>1. ASSUME Post PROVE TypeOK'
  <2>1. posted' \in 0 .. MaxBlock /\ cursor' \in 0 .. posted'
    BY <1>1, BoundAssumption DEF Post
  <2> QED BY <1>1, <2>1 DEF Post
<1>2. ASSUME Admit \/ Assemble \/ RegisterRefused PROVE TypeOK'
  <2>1. Pending \in SUBSET Block
    BY BoundAssumption DEF Pending, Block
  <2>2. /\ [Idle EXCEPT !.pc = "checked"] \in Sending
        /\ [Idle EXCEPT !.pc = "assembled", !.batch = Pending] \in Sending
    BY <2>1 DEF Sending
  <2>3. sender' \in Sending
    BY <1>2, <2>2 DEF Admit, Assemble, RegisterRefused
  <2> QED BY <1>2, <2>3 DEF Admit, Assemble, RegisterRefused
<1>3. ASSUME Ensure PROVE TypeOK'
  <2>1. start
    BY <1>3 DEF Ensure
  <2> QED BY <1>3, <2>1, StartedTyped DEF Ensure
<1>4. ASSUME Register PROVE TypeOK'
  <2>1. sender.batch \in SUBSET (1 .. posted)
    BY <1>4 DEF Register, CallsAreOfRows
  <2>r. register_input(TRUE, drawn + 1, sender.batch) /\ drawn < MaxInput
    BY <1>4 DEF Register, register_input
  <2>2. drawn + 1 \in Input
    BY <2>r, BoundAssumption DEF Input
  <2>3. /\ drawn' \in 0 .. MaxInput /\ DOMAIN rows' \subseteq 1 .. drawn'
        /\ \A i \in DOMAIN rows' : rows'[i] \in Row
    BY <2>r, <2>1, <2>2, NewRowTyped
  <2>4. turns' \in [Input -> {"none", "open", "stopped"}]
    BY <1>4 DEF Register
  <2>5. seat' \in [work : 0 .. MaxInput, running : BOOLEAN]
    BY <1>4, <2>2 DEF Register
  <2>6. sender' \in Sending
    BY <1>4, <2>2 DEF Register, Sending
  <2> QED BY <1>4, <2>2, <2>3, <2>4, <2>5, <2>6 DEF Register
<1>5. ASSUME Send PROVE TypeOK'
  <2>1. sender.input \in Input
    BY <1>5 DEF Send, CallsAreOfRows, InCall
  <2>2. Spoken(sender)
    BY <1>5, <2>1, CallSpoken DEF Send
  <2>3. \A t : Tells(t, {}) => out \o t \in Seq(Report)
    BY ConcatProperties DEF Tells
  <2>4. /\ DOMAIN rows' = DOMAIN rows /\ \A i \in DOMAIN rows' : rows'[i] \in Row
    BY <2>2, HandTo DEF Spoken, Sending, Kept
  <2>5. sender' \in Sending
    <3>1. Failed \in Sending
      BY DEF Failed, Sending
    <3> QED BY <1>5, <3>1 DEF Send
  <2>6. faults' \in 0 .. MaxFault
    BY <1>5, FaultTyped DEF Send, Begun
  <2>7. /\ out' \in Seq(Report) /\ journal' \in SUBSET Input /\ unread' \in SUBSET journal'
        /\ live' \in [up : BOOLEAN, work : 0 .. MaxInput] /\ left' \in Epoch
    BY <2>1, <2>2, <2>3 DEF Spoken
  <2> QED BY <1>5, <2>4, <2>5, <2>6, <2>7 DEF Send
<1>6. ASSUME StartAgain PROVE TypeOK'
  <2>1. start /\ UNCHANGED <<convVars, drawn, rows, turns, seat, assembled, steer, journal, faults>>
    BY <1>6 DEF StartAgain
  <2>2. worker_epoch' = worker_epoch + 1 /\ worker_epoch' \in Epoch
    BY <2>1, Started
  <2>3. sender' \in Sending
    BY <1>6, <2>2 DEF StartAgain, Sending
  <2> QED BY <2>1, <2>2, <2>3, StartedTyped
<1>7. ASSUME StartRefused PROVE TypeOK'
  <2>1. DOMAIN rows' \subseteq DOMAIN rows /\ \A i \in DOMAIN rows' : rows'[i] \in Row
    BY <1>7, Withdraw DEF StartRefused, Kept
  <2>2. turns' \in [Input -> {"none", "open", "stopped"}]
    BY <1>7 DEF StartRefused
  <2> QED BY <1>7, <2>1, <2>2 DEF StartRefused
<1> QED BY <1>1, <1>2, <1>3, <1>4, <1>5, <1>6, <1>7 DEF Turn

\* The steps of a message said into the work keep the types.
LEMMA TypeOfLive ==
  ASSUME TypeOK, RowsHold, CallsAreOfRows, ExitsAreOfTheGone, Live PROVE TypeOK'
<1> USE Numbers DEF TypeOK
<1> USE DEF convVars, recordVars, backendVars, callVars, runnerVars
<1>1. ASSUME AskWorking PROVE TypeOK'
  <2>1. posted' \in 0 .. MaxBlock /\ cursor' \in 0 .. posted' /\ posted + 1 \in Block
    BY <1>1, BoundAssumption DEF AskWorking, Block
  <2>2. steer' = [Idle EXCEPT !.pc = "checked", !.batch = {posted + 1}, !.input = seat.work]
    BY <1>1 DEF AskWorking
  <2>3. steer' \in Sending
    BY <2>1, <2>2 DEF Sending
  <2> QED BY <1>1, <2>1, <2>3 DEF AskWorking
<1>2. ASSUME SteerRegister PROVE TypeOK'
  <2>1. steer.batch \in SUBSET (1 .. posted) /\ steer.input \in Input
    BY <1>2 DEF SteerRegister, CallsAreOfRows
  <2>2. register_input(FALSE, steer.input, steer.batch) /\ drawn < MaxInput
    BY <1>2 DEF SteerRegister, register_input
  <2>3. drawn + 1 \in Input
    BY <2>2, BoundAssumption DEF Input
  <2>4. /\ drawn' \in 0 .. MaxInput /\ DOMAIN rows' \subseteq 1 .. drawn'
        /\ \A i \in DOMAIN rows' : rows'[i] \in Row
    BY <2>1, <2>2, NewRowTyped
  <2>5. steer' \in Sending
    BY <1>2, <2>3 DEF SteerRegister, Sending
  <2> QED BY <1>2, <2>4, <2>5 DEF SteerRegister
<1>3. ASSUME SteerGivesUp PROVE TypeOK'
  BY <1>3 DEF SteerGivesUp
<1>4. ASSUME SteerSay PROVE TypeOK'
  <2>1. steer.input \in Input
    BY <1>4 DEF SteerSay, CallsAreOfRows, InCall
  <2>2. Spoken(steer)
    BY <1>4, <2>1, CallSpoken DEF SteerSay
  <2>3. \A t : Tells(t, {}) => out \o t \in Seq(Report)
    BY ConcatProperties DEF Tells
  <2>4. /\ DOMAIN rows' = DOMAIN rows /\ \A i \in DOMAIN rows' : rows'[i] \in Row
    BY <2>2, HandTo DEF Spoken, Sending, Kept
  <2>5. steer' \in Sending
    BY <1>4 DEF SteerSay
  <2>6. faults' \in 0 .. MaxFault
    BY <1>4, FaultTyped DEF SteerSay, Begun
  <2>7. /\ out' \in Seq(Report) /\ journal' \in SUBSET Input /\ unread' \in SUBSET journal'
        /\ live' \in [up : BOOLEAN, work : 0 .. MaxInput] /\ left' \in Epoch
    BY <2>1, <2>2, <2>3 DEF Spoken
  <2> QED BY <1>4, <2>4, <2>5, <2>6, <2>7 DEF SteerSay
<1> QED BY <1>1, <1>2, <1>3, <1>4 DEF Live

\* The cursor moves to a message that was said.
LEMMA CursorTyped ==
  ASSUME TypeOK, RowsHold, NEW w \in 0 .. MaxInput
  PROVE  Max({cursor, Position(w)}) \in 0 .. posted
<1>1. posted \in Nat /\ cursor \in 0 .. posted
  BY Numbers DEF TypeOK
<1>2. Position(w) \in 0 .. posted
  <2>1. CASE w \in assembled \cap DOMAIN rows
    <3>1. rows[w].batch # {} /\ rows[w].batch \subseteq 1 .. posted
      BY <2>1 DEF RowsHold
    <3>2. rows[w].batch \in SUBSET (0 .. posted)
      BY <1>1, <3>1
    <3>3. Max(rows[w].batch) \in 0 .. posted
      BY <1>1, <3>1, <3>2, GreatestIn
    <3> QED BY <2>1, <3>3 DEF Position
  <2>2. CASE w \notin assembled \cap DOMAIN rows
    <3>1. \A i \in DOMAIN rows : rows[i].batch \subseteq 1 .. posted
      BY DEF RowsHold
    <3>2. {0} \cup Consumed(w) \in SUBSET (0 .. posted)
      BY <1>1, <3>1 DEF Consumed
    <3>3. {0} \cup Consumed(w) # {}
      OBVIOUS
    <3>4. Max({0} \cup Consumed(w)) \in 0 .. posted
      BY <1>1, <3>2, <3>3, GreatestIn
    <3> QED BY <2>2, <3>4 DEF Position
  <2> QED BY <2>1, <2>2
<1>3. {cursor, Position(w)} \in SUBSET (0 .. posted) /\ {cursor, Position(w)} # {}
  BY <1>1, <1>2
<1> QED BY <1>1, <1>3, GreatestIn

\* What Apply does to the rows, by the kind of the report.
LEMMA AppliedRows ==
  ASSUME TypeOK, Apply
  PROVE  /\ out # <<>> /\ out[1] \in Report /\ out' = Tail(out)
         /\ Kept(rows, rows') /\ DOMAIN rows' = DOMAIN rows
<1>1. out \in Seq(Report) /\ out # <<>> /\ out' = Tail(out)
  BY DEF TypeOK, Apply
<1>2. Head(out) = out[1] /\ out[1] \in Report
  BY <1>1, Rest
<1>3. \A j \in DOMAIN rows : rows[j] \in Row
  BY DEF TypeOK
<1>4. out[1].epoch \in Epoch /\ out[1].inside \in 0 .. MaxInput
  BY <1>2 DEF Report
<1>5. Kept(rows, rows') /\ DOMAIN rows' = DOMAIN rows
  <2>1. CASE rows' = hand_to(record_accepted(rows, out[1].input), out[1].input, out[1].epoch)
    <3> DEFINE a == record_accepted(rows, out[1].input)
    <3>1. /\ DOMAIN a = DOMAIN rows
          /\ \A j \in DOMAIN rows :
               /\ a[j] \in Row
               /\ a[j].own = rows[j].own /\ a[j].work = rows[j].work
               /\ a[j].batch = rows[j].batch /\ a[j].first = rows[j].first
               /\ a[j].handed = rows[j].handed /\ a[j].released = rows[j].released
               /\ a[j].echoed = rows[j].echoed
               /\ a[j].receiver_exited = rows[j].receiver_exited
      BY <1>3, Accepted
    <3>2. Kept(a, rows') /\ DOMAIN rows' = DOMAIN a
      BY <1>4, <2>1, <3>1, HandTo
    <3> HIDE DEF a
    <3> QED BY <3>1, <3>2 DEF Kept
  <2>2. CASE rows' = record_echo(rows, out[1].input, out[1].inside)
    BY <1>3, <1>4, <2>2, Echo
  <2>3. CASE rows' = drop_input(rows, out[1].input)
    BY <1>3, <2>3, Drop
  <2>4. CASE rows' = rows
    BY <1>3, <2>4, NoChange
  <2>5. CASE rows' = receiver_exited(rows, out[1].epoch)
    BY <1>3, <2>5, ReceiverExited
  <2> QED BY <1>2, <2>1, <2>2, <2>3, <2>4, <2>5 DEF Apply, ApplyIdle
<1> QED BY <1>1, <1>2, <1>5

\* A seat in a work is a seat.
LEMMA SeatTyped ==
  ASSUME NEW w \in 0 .. MaxInput, NEW b \in BOOLEAN
  PROVE  [work |-> w, running |-> b] \in [work : 0 .. MaxInput, running : BOOLEAN]
  OBVIOUS

\* The platform's steps keep the types.
LEMMA TypeOfPlatform ==
  ASSUME TypeOK, RowsHold, CallsAreOfRows, ExitsAreOfTheGone, Platform PROVE TypeOK'
<1> USE Numbers DEF TypeOK
<1> USE DEF convVars, recordVars, backendVars, callVars, runnerVars
<1>1. ASSUME Apply PROVE TypeOK'
  <2>1. /\ out # <<>> /\ out[1] \in Report /\ out' = Tail(out)
        /\ Kept(rows, rows') /\ DOMAIN rows' = DOMAIN rows
    BY <1>1, AppliedRows
  <2>2. out' \in Seq(Report) /\ Head(out) = out[1]
    BY <2>1, Rest
  <2>3. out[1].inside \in 0 .. MaxInput
    BY <2>1 DEF Report
  <2>4. /\ turns' = turns \/ turns' = [i \in Input |->
             IF i \in AnsweredInside(out[1].inside) THEN "stopped" ELSE turns[i]]
        /\ cursor' = cursor \/ cursor' = Max({cursor, Position(out[1].inside)})
        /\ assembled' \subseteq assembled
        /\ \/ seat' = seat
           \/ seat' = NoWork
           \/ seat' = [work |-> out[1].inside, running |-> TRUE]
    BY <1>1, <2>2 DEF Apply, ApplyIdle, Leaves
  <2>6. turns' \in [Input -> {"none", "open", "stopped"}]
    BY <2>4
  <2>7. cursor' \in 0 .. posted
    <3>1. Max({cursor, Position(out[1].inside)}) \in 0 .. posted
      BY <2>3, CursorTyped
    <3> QED BY <2>4, <3>1
  <2>8. seat' \in [work : 0 .. MaxInput, running : BOOLEAN]
    <3>1. [work |-> out[1].inside, running |-> TRUE] \in [work : 0 .. MaxInput, running : BOOLEAN]
      BY <2>3, SeatTyped
    <3> QED BY <2>4, <3>1
  <2>5. UNCHANGED <<posted, drawn, worker_epoch, callVars, live, left, journal, unread, faults>>
    BY <1>1 DEF Apply
  <2> QED BY <2>1, <2>2, <2>4, <2>5, <2>6, <2>7, <2>8 DEF Kept
<1>2. ASSUME NEW w \in Input, CloseTurn(w) PROVE TypeOK'
  <2>1. DOMAIN rows' = DOMAIN rows /\ \A i \in DOMAIN rows' : rows'[i] \in Row
    BY <1>2, Terminated DEF CloseTurn, Kept
  <2>2. turns' \in [Input -> {"none", "open", "stopped"}]
    BY <1>2 DEF CloseTurn
  <2> QED BY <1>2, <2>1, <2>2 DEF CloseTurn
<1>3. ASSUME Died PROVE TypeOK'
  <2>1. DOMAIN rows' = DOMAIN rows /\ \A i \in DOMAIN rows' : rows'[i] \in Row
    BY <1>3, Terminated DEF Died, Kept
  <2>2. turns' \in [Input -> {"none", "open", "stopped"}]
    BY <1>3 DEF Died
  <2> QED BY <1>3, <2>1, <2>2 DEF Died
<1>4. ASSUME Crash PROVE TypeOK'
  <2>1. faults' \in 0 .. MaxFault
    BY <1>4, FaultTyped DEF Crash
  <2>2. /\ worker_epoch' \in Epoch /\ left' \in Epoch
        /\ live' \in [up : BOOLEAN, work : 0 .. MaxInput]
        /\ unread' \in SUBSET journal /\ out' \in Seq(Report)
    BY <1>4, StartedTyped DEF Crash
  <2>3. seat' \in [work : 0 .. MaxInput, running : BOOLEAN]
    <3>1. (live.work # 0) \in BOOLEAN /\ live.work \in 0 .. MaxInput
      OBVIOUS
    <3>2. seat' = NoWork \/ seat' = [work |-> live.work, running |-> (live.work # 0)]
      BY <1>4 DEF Crash
    <3>3. [work |-> live.work, running |-> (live.work # 0)] \in [work : 0 .. MaxInput, running : BOOLEAN]
      BY <3>1, SeatTyped
    <3> QED BY <3>2, <3>3
  <2> QED BY <1>4, <2>1, <2>2, <2>3 DEF Crash
<1> QED BY <1>1, <1>2, <1>3, <1>4 DEF Platform

-------------------------------------------------------------------------------
(* What a step must leave alone for each part of the invariant.            *)

\* Counters grow, and a turn that is over stays over.
Advances ==
  /\ posted <= posted' /\ drawn <= drawn' /\ worker_epoch <= worker_epoch'
  /\ \A i \in 1 .. drawn : turns'[i] \in {turns[i], "stopped"}

\* The epochs of a row are numbers, and its input was drawn.
LEMMA HandedNumbers ==
  ASSUME TypeOK
  PROVE  \A i \in DOMAIN rows :
           /\ i \in 1 .. drawn /\ rows[i].first \in Int /\ rows[i].handed \in Int
           /\ rows[i] \in Row
  BY BoundAssumption DEF TypeOK, Row, Epoch

\* RowsHold outlives a step that hands rows to processes registered by then.
LEMMA RowsHoldKept ==
  ASSUME TypeOK, TypeOK', RowsHold, Advances, Kept(rows, rows'),
         \A i \in DOMAIN rows' :
           /\ rows'[i].handed = rows[i].handed \/ rows'[i].handed <= worker_epoch'
           /\ rows'[i].own /\ rows'[i].terminated =>
                rows[i].terminated \/ rows'[i].released \/ turns'[i] = "stopped"
  PROVE  RowsHold'
<1> SUFFICES ASSUME NEW i \in DOMAIN rows'
             PROVE  /\ rows'[i].batch # {} /\ rows'[i].batch \subseteq 1 .. posted'
                    /\ rows'[i].first <= rows'[i].handed /\ rows'[i].handed <= worker_epoch'
                    /\ rows'[i].own => rows'[i].work = i /\ turns'[i] # "none"
                    /\ rows'[i].own /\ rows'[i].terminated =>
                         rows'[i].released \/ turns'[i] = "stopped"
  BY DEF RowsHold
<1>1. /\ i \in DOMAIN rows /\ i \in 1 .. drawn
      /\ rows[i].first \in Int /\ rows[i].handed \in Int /\ rows'[i].handed \in Int
      /\ worker_epoch \in Int /\ posted \in Int
  BY HandedNumbers, Numbers, BoundAssumption DEF Kept, Row, Epoch
<1>2. /\ rows'[i].own = rows[i].own /\ rows'[i].work = rows[i].work
      /\ rows'[i].batch = rows[i].batch /\ rows'[i].first = rows[i].first
      /\ rows[i].handed <= rows'[i].handed
      /\ rows[i].released => rows'[i].released
  BY DEF Kept
<1>3. turns'[i] \in {turns[i], "stopped"} /\ worker_epoch <= worker_epoch' /\ posted <= posted'
  BY <1>1 DEF Advances
<1>4. /\ rows[i].batch # {} /\ rows[i].batch \subseteq 1 .. posted
      /\ rows[i].first <= rows[i].handed /\ rows[i].handed <= worker_epoch
      /\ rows[i].own => rows[i].work = i /\ turns[i] # "none"
      /\ rows[i].own /\ rows[i].terminated => rows[i].released \/ turns[i] = "stopped"
  BY <1>1 DEF RowsHold
<1>5. worker_epoch' \in Int /\ posted' \in Int
  BY BoundAssumption DEF TypeOK, Epoch
<1> QED BY <1>1, <1>2, <1>3, <1>4, <1>5

\* What CallsAreOfRows says of each of the two.
SenderFits ==
  /\ sender.pc \in {"assembled", "checked"} => sender.batch \subseteq 1 .. posted
  /\ InCall(sender) => sender.input \in 1 .. drawn /\ sender.epoch <= worker_epoch
  /\ sender.pc = "assembled" => sender.batch # {}
  /\ InCall(sender) /\ sender.input \in DOMAIN rows => rows[sender.input].own

\* The same of the message on its way into the work.
SteerFits ==
  /\ steer.pc \in {"assembled", "checked"} => steer.batch \subseteq 1 .. posted
  /\ InCall(steer) => steer.input \in 1 .. drawn /\ steer.epoch <= worker_epoch
  /\ steer.pc = "checked" => steer.batch # {} /\ steer.input \in Input
  /\ steer.pc = "first" /\ steer.input \in DOMAIN rows =>
       steer.epoch <= rows[steer.input].handed

\* CallsAreOfRows is those two, before and after a step.
LEMMA CallsFit ==
  /\ CallsAreOfRows <=> SenderFits /\ SteerFits
  /\ CallsAreOfRows' <=> SenderFits' /\ SteerFits'
<1>1. CallsAreOfRows <=> SenderFits /\ SteerFits
  BY DEF CallsAreOfRows, SenderFits, SteerFits
<1>2. CallsAreOfRows' <=> SenderFits' /\ SteerFits'
  BY DEF CallsAreOfRows, SenderFits, SteerFits, InCall
<1> QED BY <1>1, <1>2

\* The rows of the inputs drawn before: none is new, none is handed back.
Onward ==
  \A i \in DOMAIN rows' : i \in 1 .. drawn =>
     /\ i \in DOMAIN rows /\ rows'[i].own = rows[i].own
     /\ rows[i].handed <= rows'[i].handed

\* The numbers a call is compared with.
LEMMA CallNumbers ==
  ASSUME TypeOK, TypeOK', Advances
  PROVE  /\ posted \in Int /\ posted' \in Int /\ drawn \in Int /\ drawn' \in Int
         /\ worker_epoch \in Int /\ worker_epoch' \in Int
         /\ sender.epoch \in Int /\ steer.epoch \in Int
         /\ posted <= posted' /\ drawn <= drawn' /\ worker_epoch <= worker_epoch'
         /\ Idle.pc = "idle"
  BY BoundAssumption DEF TypeOK, Epoch, Sending, Advances, Idle

\* A turn's call left alone, or over, still fits the rows.
LEMMA SenderKept ==
  ASSUME TypeOK, TypeOK', CallsAreOfRows, Advances, Onward, sender' \in {sender, Idle}
  PROVE  SenderFits'
<1>1. CASE sender' = Idle
  BY <1>1, CallNumbers DEF SenderFits, InCall
<1>2. CASE sender' = sender
  <2>1. SenderFits
    BY CallsFit
  <2>2. InCall(sender)' <=> InCall(sender)
    BY <1>2 DEF InCall
  <2> QED BY <1>2, <2>1, <2>2, CallNumbers DEF SenderFits, Onward
<1> QED BY <1>1, <1>2

\* So does that of a message said into the work.
LEMMA SteerKept ==
  ASSUME TypeOK, TypeOK', CallsAreOfRows, Advances, Onward, steer' \in {steer, Idle}
  PROVE  SteerFits'
<1>1. CASE steer' = Idle
  BY <1>1, CallNumbers DEF SteerFits, InCall
<1>2. CASE steer' = steer
  <2>1. SteerFits
    BY CallsFit
  <2>2. InCall(steer)' <=> InCall(steer)
    BY <1>2 DEF InCall
  <2>3. steer'.pc = "first" /\ steer'.input \in DOMAIN rows' =>
          steer'.epoch <= rows'[steer'.input].handed
    <3> SUFFICES ASSUME steer.pc = "first", steer.input \in DOMAIN rows'
                 PROVE  steer.epoch <= rows'[steer.input].handed
      BY <1>2
    <3>1. steer.input \in 1 .. drawn
      BY <2>1 DEF SteerFits, InCall
    <3>2. /\ steer.input \in DOMAIN rows
          /\ rows[steer.input].handed <= rows'[steer.input].handed
      BY <3>1 DEF Onward
    <3>3. steer.epoch <= rows[steer.input].handed
      BY <2>1, <3>2 DEF SteerFits
    <3>4. rows[steer.input].handed \in Int
      BY <3>2, HandedNumbers
    <3>5. rows'[steer.input].handed \in Int
      <4>1. rows'[steer.input] \in Row
        BY DEF TypeOK
      <4> QED BY <4>1, BoundAssumption DEF Row, Epoch
    <3> QED BY <3>2, <3>3, <3>4, <3>5, CallNumbers
  <2> QED BY <1>2, <2>1, <2>2, <2>3, CallNumbers DEF SteerFits
<1> QED BY <1>1, <1>2

\* Both calls left alone, or over.
LEMMA CallsKept ==
  ASSUME TypeOK, TypeOK', CallsAreOfRows, Advances, Onward,
         sender' \in {sender, Idle}, steer' \in {steer, Idle}
  PROVE  CallsAreOfRows'
  BY SenderKept, SteerKept, CallsFit

\* A row that still holds its messages held them before.
LEMMA HeldOnceKept ==
  ASSUME TypeOK, RowsHold, HeldOnce, Advances, Kept(rows, rows')
  PROVE  HeldOnce'
<1>1. ASSUME NEW i \in DOMAIN rows', HoldsBatch(rows[i])', ~HandedAgain(rows[i])'
      PROVE  /\ i \in DOMAIN rows /\ rows'[i].batch = rows[i].batch
             /\ HoldsBatch(rows[i]) /\ ~HandedAgain(rows[i])
  <2>1. /\ i \in DOMAIN rows /\ rows'[i].batch = rows[i].batch
        /\ rows'[i].own = rows[i].own /\ rows'[i].work = rows[i].work
        /\ rows'[i].first = rows[i].first /\ rows[i].handed <= rows'[i].handed
        /\ rows[i].released => rows'[i].released
        /\ rows'[i].echoed => rows[i].echoed \/ rows'[i].released
        /\ rows[i].receiver_exited =>
             rows'[i].receiver_exited \/ rows[i].handed < rows'[i].handed
        /\ rows'[i].handed \in Int
    BY BoundAssumption DEF Kept, Row, Epoch
  <2>2. /\ i \in 1 .. drawn /\ rows[i].first \in Int /\ rows[i].handed \in Int
        /\ rows[i].first <= rows[i].handed /\ (rows[i].own => rows[i].work = i)
    BY <2>1, HandedNumbers DEF RowsHold
  <2>3. ~(rows'[i].handed > rows'[i].first)
    BY <1>1 DEF HandedAgain
  <2>4. /\ ~rows'[i].released
        /\ ~(~rows'[i].echoed /\ (\/ rows'[i].own /\ turns'[rows'[i].work] = "stopped"
                                 \/ rows'[i].receiver_exited))
    BY <1>1 DEF HoldsBatch, OverWork
  <2>5. turns[i] = "stopped" => turns'[i] = "stopped"
    BY <2>2 DEF Advances
  <2>6. rows[i].handed = rows'[i].handed /\ ~(rows[i].handed > rows[i].first)
    BY <2>1, <2>2, <2>3
  <2>7. ~rows[i].released /\ ~OverWork(rows[i])
    BY <2>1, <2>2, <2>4, <2>5, <2>6 DEF OverWork
  <2> QED BY <2>1, <2>6, <2>7 DEF HoldsBatch, HandedAgain
<1> QED BY <1>1 DEF HeldOnce

\* The reports on their way, and those a step adds to them.
LEMMA ReportsAfter ==
  ASSUME TypeOK, NEW U, NEW t, Tells(t, U), out' = out \o t
  PROVE  /\ Len(out) \in Nat
         /\ \A n \in DOMAIN out' :
              /\ n \in Nat
              /\ IF n <= Len(out) THEN n \in DOMAIN out /\ out'[n] = out[n]
                                 ELSE n - Len(out) \in DOMAIN t /\ out'[n] = t[n - Len(out)]
<1>1. out \in Seq(Report) /\ t \in Seq(Report)
  BY DEF TypeOK, Tells
<1>2. /\ out' \in Seq(Report)
      /\ \A n \in DOMAIN out' :
           IF n <= Len(out) THEN n \in DOMAIN out /\ out'[n] = out[n]
                            ELSE n - Len(out) \in DOMAIN t /\ out'[n] = t[n - Len(out)]
  BY <1>1, Joined
<1>3. Len(out) \in Nat /\ DOMAIN out' = 1 .. Len(out') /\ Len(out') \in Nat
  BY <1>1, <1>2, LenProperties
<1> QED BY <1>2, <1>3

\* AnsweredOnce outlives a step that answers for what it takes out of the unread.
LEMMA AnsweredOnceKept ==
  ASSUME TypeOK, AnsweredOnce,
         NEW t, Tells(t, unread \ unread'), out' = out \o t,
         journal \subseteq journal', journal' \subseteq 1 .. drawn',
         unread' \cap (journal \ unread) = {},
         \A i \in DOMAIN rows' :
           \/ ~rows'[i].echoed /\ ~rows'[i].released
           \/ /\ i \in DOMAIN rows
              /\ rows'[i].echoed = rows[i].echoed /\ rows'[i].released = rows[i].released
  PROVE  AnsweredOnce'
<1>1. /\ Len(out) \in Nat
      /\ \A n \in DOMAIN out' :
           /\ n \in Nat
           /\ IF n <= Len(out) THEN n \in DOMAIN out /\ out'[n] = out[n]
                              ELSE n - Len(out) \in DOMAIN t /\ out'[n] = t[n - Len(out)]
  BY ReportsAfter
<1>2. /\ \A n \in DOMAIN t : Answers(t[n]) => t[n].input \in unread \ unread'
      /\ \A m, n \in DOMAIN t :
           Answers(t[m]) /\ Answers(t[n]) /\ t[m].input = t[n].input => m = n
  BY DEF Tells
<1>3. /\ \A n \in DOMAIN out : Answers(out[n]) => out[n].input \in journal \ unread
      /\ \A m, n \in DOMAIN out :
           Answers(out[m]) /\ Answers(out[n]) /\ out[m].input = out[n].input => m = n
  BY DEF AnsweredOnce
<1>4. unread \subseteq journal
  BY DEF TypeOK
<1>5. \A n \in DOMAIN out' : Answers(out'[n]) => out'[n].input \in journal' \ unread'
  BY <1>1, <1>2, <1>3, <1>4
<1>6. ASSUME NEW m \in DOMAIN out', NEW n \in DOMAIN out',
             Answers(out'[m]), Answers(out'[n]), out'[m].input = out'[n].input
      PROVE  m = n
  <2>1. CASE m <= Len(out) /\ n <= Len(out)
    BY <1>1, <1>3, <1>6, <2>1
  <2>2. CASE m > Len(out) /\ n > Len(out)
    <3>1. /\ m - Len(out) \in DOMAIN t /\ out'[m] = t[m - Len(out)]
          /\ n - Len(out) \in DOMAIN t /\ out'[n] = t[n - Len(out)]
      BY <1>1, <2>2
    <3>2. m - Len(out) = n - Len(out)
      BY <1>2, <1>6, <3>1
    <3> QED BY <1>1, <3>2
  <2>3. CASE ~(m <= Len(out) <=> n <= Len(out))
    BY <1>1, <1>2, <1>3, <1>6, <2>3
  <2> QED BY <1>1, <2>1, <2>2, <2>3
<1>7. ASSUME NEW i \in DOMAIN rows'
      PROVE  /\ rows'[i].echoed => rows'[i].released
             /\ rows'[i].released =>
                  /\ i \in journal' \ unread'
                  /\ \A n \in DOMAIN out' : Answers(out'[n]) => out'[n].input # i
  <2>1. CASE ~rows'[i].echoed /\ ~rows'[i].released
    BY <2>1
  <2>2. CASE /\ i \in DOMAIN rows
             /\ rows'[i].echoed = rows[i].echoed /\ rows'[i].released = rows[i].released
    <3>1. /\ rows[i].echoed => rows[i].released
          /\ rows[i].released => /\ i \in journal \ unread
                                 /\ \A n \in DOMAIN out : Answers(out[n]) => out[n].input # i
      BY <2>2 DEF AnsweredOnce
    <3>2. CASE ~rows[i].released
      BY <2>2, <3>1, <3>2
    <3>3. CASE rows[i].released
      <4>1. i \in journal \ unread /\ \A n \in DOMAIN out : Answers(out[n]) => out[n].input # i
        BY <3>1, <3>3
      <4>2. i \in journal' \ unread'
        BY <4>1
      <4>3. ASSUME NEW n \in DOMAIN out', Answers(out'[n]) PROVE out'[n].input # i
        <5>1. CASE n <= Len(out)
          BY <1>1, <4>1, <4>3, <5>1
        <5>2. CASE ~(n <= Len(out))
          BY <1>1, <1>2, <4>1, <4>3, <5>2
        <5> QED BY <5>1, <5>2
      <4>4. rows'[i].released
        BY <2>2, <3>3
      <4> QED BY <4>2, <4>3, <4>4
    <3> QED BY <3>2, <3>3
  <2> QED BY <2>1, <2>2
<1> QED BY <1>5, <1>6, <1>7 DEF AnsweredOnce

\* A process that is gone stays so: the one that comes is of a later epoch.
LEMMA ExitsKept ==
  ASSUME TypeOK, TypeOK', ExitsAreOfTheGone, worker_epoch <= worker_epoch',
         live'.up => live.up \/ worker_epoch < worker_epoch',
         left' # 0 => ~live'.up, left' <= worker_epoch',
         unread' # {} => live'.up \/ left' # 0,
         NEW U, NEW t, Tells(t, U), out' = out \o t,
         \A n \in DOMAIN t : t[n].kind = "exited" /\ live'.up => t[n].epoch < worker_epoch',
         \A i \in DOMAIN rows' : rows'[i].receiver_exited =>
            /\ i \in DOMAIN rows /\ rows[i].receiver_exited
            /\ rows'[i].handed = rows[i].handed
  PROVE  ExitsAreOfTheGone'
<1>1. worker_epoch \in Int /\ worker_epoch' \in Int
  BY BoundAssumption DEF TypeOK, Epoch
<1>2. \A n \in DOMAIN out' :
        (\E m \in DOMAIN out : out'[n] = out[m]) \/ (\E m \in DOMAIN t : out'[n] = t[m])
  BY ReportsAfter
<1>3. /\ \A n \in DOMAIN out : out[n] \in Report /\ out[n].epoch \in Int
      /\ \A n \in DOMAIN t : t[n] \in Report /\ t[n].epoch \in Int
  <2>1. out \in Seq(Report) /\ t \in Seq(Report)
    BY DEF TypeOK, Tells
  <2>2. \A r \in Report : r.epoch \in Int
    BY BoundAssumption DEF Report, Epoch
  <2> QED BY <2>1, <2>2, ElementOfSeq, LenProperties
<1>4. \A n \in DOMAIN out : out[n].epoch <= worker_epoch'
  BY <1>1, <1>3 DEF ExitsAreOfTheGone
<1>5. \A n \in DOMAIN t : t[n].epoch <= worker_epoch'
  BY <1>1, <1>3 DEF Tells
<1>6. \A n \in DOMAIN out : out[n].kind = "exited" /\ live'.up => out[n].epoch < worker_epoch'
  BY <1>1, <1>3 DEF ExitsAreOfTheGone, Gone
<1>7. ASSUME NEW n \in DOMAIN out'
      PROVE  /\ out'[n].epoch <= worker_epoch'
             /\ out'[n].kind = "exited" => (live'.up => out'[n].epoch < worker_epoch')
  BY <1>2, <1>4, <1>5, <1>6
<1>8. ASSUME NEW i \in DOMAIN rows', rows'[i].receiver_exited
      PROVE  /\ rows'[i].handed <= worker_epoch'
             /\ live'.up => rows'[i].handed < worker_epoch'
  <2>1. i \in DOMAIN rows /\ rows[i].receiver_exited /\ rows'[i].handed = rows[i].handed
    BY <1>8
  <2>2. rows[i].handed \in Int
    BY <2>1, HandedNumbers
  <2>3. Gone(rows[i].handed)
    BY <2>1 DEF ExitsAreOfTheGone
  <2> QED BY <1>1, <2>1, <2>2, <2>3 DEF Gone
<1>9. live'.up => worker_epoch' > 0
  BY <1>1, Numbers DEF ExitsAreOfTheGone
<1> QED BY <1>7, <1>8, <1>9 DEF ExitsAreOfTheGone, Gone

\* UnreadIsNotFreed outlives a step that puts nothing in and reports no exit
\* while anything is unread.
LEMMA UnreadKept ==
  ASSUME TypeOK, TypeOK', UnreadIsNotFreed, unread' \subseteq unread, Kept(rows, rows'), Advances,
         NEW U, NEW t, Tells(t, U), out' = out \o t,
         unread' # {} => \A n \in DOMAIN t : t[n].kind # "exited",
         \A i \in DOMAIN rows' :
           /\ rows[i].terminated => rows'[i].terminated
           /\ rows'[i].receiver_exited => rows[i].receiver_exited
  PROVE  UnreadIsNotFreed'
<1>1. \A n \in DOMAIN out' :
        (\E m \in DOMAIN out : out'[n] = out[m]) \/ (\E m \in DOMAIN t : out'[n] = t[m])
  BY ReportsAfter
<1>2. \A n \in DOMAIN out : out[n].epoch \in Int
  <2>1. out \in Seq(Report)
    BY DEF TypeOK
  <2>2. \A r \in Report : r.epoch \in Int
    BY BoundAssumption DEF Report, Epoch
  <2> QED BY <2>1, <2>2, ElementOfSeq, LenProperties
<1>3. ASSUME NEW i \in unread' \cap DOMAIN rows'
      PROVE  /\ rows'[i].receiver_exited => rows'[i].own /\ turns'[i] = "stopped"
             /\ \/ rows'[i].terminated
                \/ \A n \in DOMAIN out' :
                     out'[n].kind = "exited" => out'[n].epoch < rows'[i].handed
  <2>1. /\ i \in unread \cap DOMAIN rows /\ i \in 1 .. drawn
        /\ rows'[i].own = rows[i].own /\ rows[i].handed <= rows'[i].handed
        /\ rows[i].handed \in Int /\ rows'[i].handed \in Int
        /\ turns'[i] \in {turns[i], "stopped"}
    BY HandedNumbers, BoundAssumption DEF Kept, Row, Epoch, Advances
  <2>2. /\ rows[i].receiver_exited => rows[i].own /\ turns[i] = "stopped"
        /\ \/ rows[i].terminated
           \/ \A n \in DOMAIN out : out[n].kind = "exited" => out[n].epoch < rows[i].handed
    BY <2>1 DEF UnreadIsNotFreed
  <2>3. CASE rows[i].terminated
    BY <2>1, <2>2, <2>3
  <2>4. CASE \A n \in DOMAIN out : out[n].kind = "exited" => out[n].epoch < rows[i].handed
    BY <1>1, <1>2, <2>1, <2>2, <2>4
  <2> QED BY <2>2, <2>3, <2>4
<1> QED BY <1>3 DEF UnreadIsNotFreed

-------------------------------------------------------------------------------
(* The steps of the session.                                               *)

\* Three parts speak of the platform's records only.
LEMMA RecordsAlone ==
  ASSUME RowsHold, CallsAreOfRows, HeldOnce,
         UNCHANGED <<posted, drawn, rows, turns, worker_epoch, sender, steer>>
  PROVE  RowsHold' /\ CallsAreOfRows' /\ HeldOnce'
<1>1. RowsHold'
  BY DEF RowsHold
<1>2. CallsAreOfRows'
  BY DEF CallsAreOfRows, InCall
<1>3. HeldOnce'
  BY DEF HeldOnce, HoldsBatch, OverWork, HandedAgain
<1> QED BY <1>1, <1>2, <1>3

\* A step of the session tells of the inputs it takes out of the unread.
LEMMA SessionTells ==
  ASSUME IInv, TypeOK',
         UNCHANGED <<posted, drawn, rows, turns, worker_epoch, sender, steer, journal>>,
         unread' \subseteq unread,
         live'.up => live.up,
         left' # 0 => ~live'.up, left' \in {left, worker_epoch},
         unread' # {} => live'.up \/ left' # 0,
         NEW t, Tells(t, unread \ unread'), out' = out \o t,
         live'.up \/ unread' # {} => \A n \in DOMAIN t : t[n].kind # "exited"
  PROVE  Inductive'
<1>1. RowsHold' /\ CallsAreOfRows' /\ HeldOnce'
  BY RecordsAlone DEF IInv, Inductive
<1>2. \A j \in DOMAIN rows : rows[j] \in Row
  BY DEF IInv, TypeOK
<1>3. Kept(rows, rows') /\ Advances
  <2>1. Kept(rows, rows)
    BY <1>2, NoChange
  <2>2. posted \in Nat /\ drawn \in Nat /\ worker_epoch \in Nat
    BY Numbers DEF IInv
  <2> QED BY <2>1, <2>2 DEF Advances
<1>4. AnsweredOnce'
  <2>1. journal \subseteq 1 .. drawn /\ unread \subseteq journal
    BY DEF IInv, Inductive, AnsweredOnce, TypeOK
  <2>2. unread' \cap (journal \ unread) = {}
    OBVIOUS
  <2> QED BY <2>1, <2>2, AnsweredOnceKept DEF IInv, Inductive
<1>5. ExitsAreOfTheGone'
  <2>1. left' <= worker_epoch' /\ worker_epoch <= worker_epoch'
    BY Numbers DEF IInv, Inductive, ExitsAreOfTheGone
  <2> QED BY <2>1, ExitsKept DEF IInv, Inductive
<1>6. UnreadIsNotFreed'
  BY <1>3, UnreadKept DEF IInv, Inductive
<1> QED BY <1>1, <1>4, <1>5, <1>6 DEF Inductive

\* Every step of the session keeps the invariant.
LEMMA SessionKeeps ==
  ASSUME IInv, TypeOK', Session PROVE Inductive'
<1> USE DEF convVars, recordVars, backendVars, callVars
<1>0. /\ TypeOK /\ worker_epoch \in Nat /\ left \in Nat /\ 0 \in 0 .. MaxInput
      /\ live \in [up : BOOLEAN, work : 0 .. MaxInput] /\ worker_epoch \in Epoch
      /\ Input \subseteq 0 .. MaxInput /\ worker_epoch <= worker_epoch
  <2>1. TypeOK
    BY DEF IInv
  <2>2. live \in [up : BOOLEAN, work : 0 .. MaxInput] /\ worker_epoch \in Epoch
    BY <2>1 DEF TypeOK
  <2> QED BY <2>1, <2>2, Numbers
<1>00. /\ live.up => worker_epoch > 0 /\ left = 0
       /\ unread # {} => live.up \/ left # 0
  BY DEF IInv, Inductive, ExitsAreOfTheGone
<1>1. ASSUME NEW i \in Input, Read(i) PROVE Inductive'
  <2> DEFINE w == IF live.work # 0 THEN live.work ELSE i
             r == Said("read", i, w, worker_epoch)
  <2>1. /\ live.up /\ i \in unread /\ unread' = unread \ {i}
        /\ live' = [live EXCEPT !.work = w] /\ out' = Append(out, r)
        /\ UNCHANGED <<posted, drawn, rows, turns, worker_epoch, sender, steer, journal, left>>
    BY <1>1 DEF Read
  <2>2. w \in 0 .. MaxInput
    BY <1>0
  <2>3. /\ r \in Report /\ r.epoch <= worker_epoch /\ r.kind # "exited" /\ r.input = i
    BY <1>0, <2>2 DEF Said, Report
  <2>4. i \in unread \ unread' /\ live'.up = live.up
    BY <1>0, <2>1
  <2> HIDE DEF r, w
  <2>5. Tells(<<r>>, unread \ unread') /\ out' = out \o <<r>>
    BY <1>0, <2>1, <2>3, <2>4, TellsOne
  <2>6. \A n \in DOMAIN <<r>> : <<r>>[n].kind # "exited"
    BY <2>3
  <2> QED BY <1>00, <2>1, <2>4, <2>5, <2>6, SessionTells
<1>2. ASSUME NEW i \in Input, Settle(i) PROVE Inductive'
  <2> DEFINE r == Said("dropped", i, 0, worker_epoch)
  <2>1. /\ live.up /\ i \in unread /\ unread' = unread \ {i} /\ out' = Append(out, r)
        /\ UNCHANGED <<posted, drawn, rows, turns, worker_epoch, sender, steer, journal, live, left>>
    BY <1>2 DEF Settle
  <2>3. /\ r \in Report /\ r.epoch <= worker_epoch /\ r.kind # "exited" /\ r.input = i
    BY <1>0 DEF Said, Report
  <2>4. i \in unread \ unread'
    BY <2>1
  <2> HIDE DEF r
  <2>5. Tells(<<r>>, unread \ unread') /\ out' = out \o <<r>>
    BY <1>0, <2>1, <2>3, <2>4, TellsOne
  <2>6. \A n \in DOMAIN <<r>> : <<r>>[n].kind # "exited"
    BY <2>3
  <2> QED BY <1>00, <2>1, <2>4, <2>5, <2>6, SessionTells
<1>3. ASSUME Finish PROVE Inductive'
  <2> DEFINE r == Said("idle", 0, live.work, worker_epoch)
  <2>1. /\ live.up /\ live' = [live EXCEPT !.work = 0] /\ out' = Append(out, r)
        /\ UNCHANGED <<posted, drawn, rows, turns, worker_epoch, sender, steer,
                       journal, unread, left>>
    BY <1>3 DEF Finish
  <2>3. r \in Report /\ r.epoch <= worker_epoch /\ r.kind # "exited" /\ ~Answers(r)
    BY <1>0 DEF Said, Report, Answers
  <2>4. live'.up = live.up
    BY <1>0, <2>1
  <2> HIDE DEF r
  <2>5. Tells(<<r>>, unread \ unread') /\ out' = out \o <<r>>
    BY <1>0, <2>1, <2>3, TellsOne
  <2>6. \A n \in DOMAIN <<r>> : <<r>>[n].kind # "exited"
    BY <2>3
  <2> QED BY <1>00, <2>1, <2>4, <2>5, <2>6, SessionTells
<1>4. ASSUME Exit PROVE Inductive'
  <2>1. /\ unread' = {} /\ live' = [live EXCEPT !.up = FALSE, !.work = 0]
        /\ live.up /\ out' = out \o Ending(unread, live.work, worker_epoch)
        /\ UNCHANGED <<posted, drawn, rows, turns, worker_epoch, sender, steer, journal, left>>
    BY <1>4 DEF Exit
  <2>2. Tells(Ending(unread, live.work, worker_epoch), unread)
    BY <1>0, TellsEnding
  <2>3. ~live'.up /\ unread \ unread' = unread
    BY <1>0, <2>1
  <2> QED BY <1>00, <2>1, <2>2, <2>3, SessionTells
<1>5. ASSUME Killed PROVE Inductive'
  <2>1. /\ live.up /\ left' = worker_epoch /\ live' = [live EXCEPT !.up = FALSE, !.work = 0]
        /\ UNCHANGED <<posted, drawn, rows, turns, worker_epoch, sender, steer,
                       journal, unread, out>>
    BY <1>5 DEF Killed
  <2>2. ~live'.up /\ left' # 0
    BY <1>0, <1>00, <2>1
  <2>3. Tells(<<>>, unread \ unread') /\ out' = out \o <<>>
    BY <1>0, <2>1, TellsNothing
  <2>4. \A n \in DOMAIN <<>> : <<>>[n].kind # "exited"
    OBVIOUS
  <2> QED BY <2>1, <2>2, <2>3, <2>4, SessionTells
<1> QED BY <1>1, <1>2, <1>3, <1>4, <1>5 DEF Session

-------------------------------------------------------------------------------
(* The steps of a turn and of a message said into the work.                *)

\* A step that leaves the runner alone: the rows may lose one, or be given up.
LEMMA RunnerAlone ==
  ASSUME IInv, TypeOK', UNCHANGED <<live, left, journal, unread, out, worker_epoch>>,
         Advances, Kept(rows, rows'), Quiet(rows, rows'), CallsAreOfRows',
         \A i \in DOMAIN rows' :
           /\ rows'[i].handed = rows[i].handed
           /\ rows'[i].receiver_exited => rows[i].receiver_exited
           /\ rows[i].terminated => rows'[i].terminated
           /\ rows'[i].own /\ rows'[i].terminated =>
                rows[i].terminated \/ turns'[i] = "stopped"
  PROVE  Inductive'
<1>1. /\ TypeOK /\ RowsHold /\ HeldOnce /\ AnsweredOnce /\ ExitsAreOfTheGone
      /\ UnreadIsNotFreed
  BY DEF IInv, Inductive
<1>2. RowsHold'
  BY <1>1, RowsHoldKept
<1>3. Tells(<<>>, unread \ unread') /\ out' = out \o <<>>
  BY <1>1, TellsNothing
<1>4. AnsweredOnce'
  <2>1. /\ journal \subseteq 1 .. drawn /\ drawn \in Nat /\ drawn' \in Nat /\ drawn <= drawn'
    BY <1>1, BoundAssumption DEF AnsweredOnce, TypeOK, Advances
  <2>2. journal' \subseteq 1 .. drawn'
    BY <2>1
  <2>3. unread' \cap (journal \ unread) = {}
    OBVIOUS
  <2> QED BY <1>1, <1>3, <2>2, <2>3, AnsweredOnceKept DEF Quiet, Kept
<1>5. ExitsAreOfTheGone'
  <2>1. /\ left' # 0 => ~live'.up
        /\ left' <= worker_epoch'
        /\ unread' # {} => live'.up \/ left' # 0
    BY <1>1 DEF ExitsAreOfTheGone
  <2>2. worker_epoch <= worker_epoch'
    BY <1>1, Numbers
  <2>3. \A n \in DOMAIN <<>> : <<>>[n].kind = "exited" => (live'.up => <<>>[n].epoch < worker_epoch')
    OBVIOUS
  <2>4. \A i \in DOMAIN rows' : i \in DOMAIN rows
    BY DEF Kept
  <2> QED BY <1>1, <1>3, <2>1, <2>2, <2>3, <2>4, ExitsKept
<1>6. UnreadIsNotFreed'
  <2>1. \A n \in DOMAIN <<>> : <<>>[n].kind # "exited"
    OBVIOUS
  <2> QED BY <1>1, <1>3, <2>1, UnreadKept
<1>7. HeldOnce'
  BY <1>1, HeldOnceKept
<1> QED BY <1>2, <1>4, <1>5, <1>6, <1>7 DEF Inductive

\* A step that leaves rows and runner alone.
LEMMA RowsAlone ==
  ASSUME IInv, TypeOK', UNCHANGED <<live, left, journal, unread, out, worker_epoch, rows>>,
         Advances, CallsAreOfRows'
  PROVE  Inductive'
<1>1. \A j \in DOMAIN rows : rows[j] \in Row
  BY DEF IInv, TypeOK
<1>2. Kept(rows, rows') /\ Quiet(rows, rows')
  BY <1>1, NoChange
<1> QED BY <1>2, RunnerAlone

\* A process started, or registered anew, after the ending of the one before.
LEMMA StartKeeps ==
  ASSUME IInv, TypeOK', start, UNCHANGED <<posted, drawn, rows, turns, journal>>, CallsAreOfRows'
  PROVE  Inductive'
<1>1. /\ TypeOK /\ RowsHold /\ HeldOnce /\ AnsweredOnce /\ ExitsAreOfTheGone
      /\ UnreadIsNotFreed
  BY DEF IInv, Inductive
<1>2. /\ worker_epoch' = worker_epoch + 1 /\ worker_epoch \in Nat /\ worker_epoch' \in Nat
      /\ posted \in Nat /\ drawn \in Nat
      /\ left' = 0 /\ unread' \subseteq unread
  BY <1>1, Started, Numbers
<1>3. live'.up
  <2>1. live' = [live EXCEPT !.up = TRUE] /\ live \in [up : BOOLEAN, work : 0 .. MaxInput]
    BY <1>1 DEF start, TypeOK
  <2> QED BY <2>1
<1>4. PICK t : /\ Tells(t, unread \ unread') /\ out' = out \o t
               /\ t # <<>> => unread' = {}
  BY <1>1, Started, Zenon
<1>5. \A j \in DOMAIN rows : rows[j] \in Row
  BY <1>1 DEF TypeOK
<1>6. Kept(rows, rows') /\ Advances
  BY <1>2, <1>5, NoChange DEF Advances
<1>7. RowsHold'
  BY <1>1, <1>6, RowsHoldKept
<1>8. HeldOnce'
  BY <1>1, <1>6, HeldOnceKept
<1>9. AnsweredOnce'
  <2>1. journal \subseteq 1 .. drawn
    BY <1>1 DEF AnsweredOnce
  <2>2. unread' \cap (journal \ unread) = {}
    BY <1>2
  <2> QED BY <1>1, <1>4, <2>1, <2>2, AnsweredOnceKept
<1>10. ExitsAreOfTheGone'
  <2>1. \A n \in DOMAIN t : t[n].kind = "exited" /\ live'.up => t[n].epoch < worker_epoch'
    <3>1. t \in Seq(Report) /\ \A n \in DOMAIN t : t[n].epoch <= worker_epoch
      BY <1>4 DEF Tells
    <3>2. \A r \in Report : r.epoch \in Int
      BY BoundAssumption DEF Report, Epoch
    <3>3. \A n \in DOMAIN t : t[n].epoch \in Int
      BY <3>1, <3>2, ElementOfSeq, LenProperties
    <3> QED BY <1>2, <3>1, <3>3
  <2>2. worker_epoch <= worker_epoch' /\ worker_epoch < worker_epoch' /\ left' <= worker_epoch'
    BY <1>2
  <2> QED BY <1>1, <1>2, <1>3, <1>4, <2>1, <2>2, ExitsKept
<1>11. UnreadIsNotFreed'
  <2>1. unread' # {} => \A n \in DOMAIN t : t[n].kind # "exited"
    BY <1>4
  <2> QED BY <1>1, <1>2, <1>4, <1>6, <2>1, UnreadKept
<1> QED BY <1>7, <1>8, <1>9, <1>10, <1>11 DEF Inductive

\* A new input: its messages are held by no other, and nobody has it yet.
LEMMA RegisterKeeps ==
  ASSUME IInv, TypeOK', NEW own \in BOOLEAN, NEW work \in Input,
         NEW batch \in SUBSET (1 .. posted), batch # {}, register_input(own, work, batch),
         own => work = drawn + 1 /\ turns'[drawn + 1] # "none",
         \A i \in 1 .. drawn : turns'[i] = turns[i],
         UNCHANGED <<posted, worker_epoch, live, left, journal, unread, out>>,
         CallsAreOfRows'
  PROVE  Inductive'
<1> DEFINE d == drawn + 1
<1>1. /\ TypeOK /\ RowsHold /\ HeldOnce /\ AnsweredOnce /\ ExitsAreOfTheGone
      /\ UnreadIsNotFreed
  BY DEF IInv, Inductive
<1>2. /\ d \in Input /\ drawn' = d /\ d \notin DOMAIN rows
      /\ DOMAIN rows' = DOMAIN rows \cup {d}
      /\ \A i \in DOMAIN rows : rows'[i] = rows[i]
      /\ rows'[d] = NewRow(own, work, batch) /\ NewRow(own, work, batch) \in Row
      /\ held_blocks \cap batch = {}
  BY <1>1, Registered
<1>3. /\ rows'[d].own = own /\ rows'[d].work = work /\ rows'[d].batch = batch
      /\ rows'[d].first = worker_epoch /\ rows'[d].handed = worker_epoch
      /\ ~rows'[d].echoed /\ ~rows'[d].terminated /\ ~rows'[d].released
      /\ ~rows'[d].receiver_exited
  BY <1>2 DEF NewRow
<1>4. /\ drawn \in Nat /\ posted \in Nat /\ worker_epoch \in Nat
      /\ DOMAIN rows \subseteq 1 .. drawn
  BY <1>1, Numbers DEF TypeOK
<1>5. RowsHold'
  <2> SUFFICES ASSUME NEW i \in DOMAIN rows'
               PROVE  /\ rows'[i].batch # {} /\ rows'[i].batch \subseteq 1 .. posted'
                      /\ rows'[i].first <= rows'[i].handed /\ rows'[i].handed <= worker_epoch'
                      /\ rows'[i].own => rows'[i].work = i /\ turns'[i] # "none"
                      /\ rows'[i].own /\ rows'[i].terminated =>
                           rows'[i].released \/ turns'[i] = "stopped"
    BY DEF RowsHold
  <2>1. CASE i = d
    <3>1. rows'[i].batch # {} /\ rows'[i].batch \subseteq 1 .. posted'
      BY <1>3, <2>1
    <3>2. rows'[i].first <= rows'[i].handed /\ rows'[i].handed <= worker_epoch'
      BY <1>3, <1>4, <2>1
    <3>3. rows'[i].own => rows'[i].work = i /\ turns'[i] # "none"
      BY <1>3, <2>1, Zenon DEF d
    <3>4. ~rows'[i].terminated
      BY <1>3, <2>1, Zenon
    <3> QED BY <3>1, <3>2, <3>3, <3>4
  <2>2. CASE i \in DOMAIN rows
    BY <1>1, <1>2, <1>4, <2>2 DEF RowsHold
  <2> QED BY <1>2, <2>1, <2>2
<1>6. Tells(<<>>, unread \ unread') /\ out' = out \o <<>>
  BY <1>1, TellsNothing
<1>7. AnsweredOnce'
  <2>1. journal' \subseteq 1 .. drawn'
    BY <1>1, <1>2, <1>4 DEF AnsweredOnce
  <2>2. unread' \cap (journal \ unread) = {}
    OBVIOUS
  <2>3. \A i \in DOMAIN rows' :
           \/ ~rows'[i].echoed /\ ~rows'[i].released
           \/ /\ i \in DOMAIN rows
              /\ rows'[i].echoed = rows[i].echoed /\ rows'[i].released = rows[i].released
    BY <1>2, <1>3
  <2> QED BY <1>1, <1>6, <2>1, <2>2, <2>3, AnsweredOnceKept
<1>8. ExitsAreOfTheGone'
  <2>1. /\ left' # 0 => ~live'.up
        /\ left' <= worker_epoch'
        /\ unread' # {} => live'.up \/ left' # 0
    BY <1>1 DEF ExitsAreOfTheGone
  <2>2. worker_epoch <= worker_epoch'
    BY <1>4
  <2>3. \A n \in DOMAIN <<>> : <<>>[n].kind = "exited" => (live'.up => <<>>[n].epoch < worker_epoch')
    OBVIOUS
  <2>4. \A i \in DOMAIN rows' : rows'[i].receiver_exited =>
            /\ i \in DOMAIN rows /\ rows[i].receiver_exited
            /\ rows'[i].handed = rows[i].handed
    BY <1>2, <1>3
  <2> QED BY <1>1, <1>6, <2>1, <2>2, <2>3, <2>4, ExitsKept
<1>9. UnreadIsNotFreed'
  <2>1. unread \subseteq 1 .. drawn /\ d \notin 1 .. drawn
    BY <1>1, <1>4 DEF AnsweredOnce, TypeOK
  <2>2. ASSUME NEW i \in unread' \cap DOMAIN rows'
        PROVE  /\ i \in unread \cap DOMAIN rows /\ rows'[i] = rows[i]
               /\ turns'[i] = turns[i]
    BY <1>2, <2>1
  <2>3. ASSUME NEW i \in unread' \cap DOMAIN rows'
        PROVE  /\ rows'[i].receiver_exited => rows'[i].own /\ turns'[i] = "stopped"
               /\ \/ rows'[i].terminated
                  \/ \A n \in DOMAIN out' :
                       out'[n].kind = "exited" => out'[n].epoch < rows'[i].handed
    BY <1>1, <2>2 DEF UnreadIsNotFreed
  <2> QED BY <2>3 DEF UnreadIsNotFreed
<1>10. HeldOnce'
  <2>1. ASSUME NEW i \in DOMAIN rows, HoldsBatch(rows[i])'
        PROVE  HoldsBatch(rows[i]) /\ rows'[i] = rows[i] /\ i # d
    <3>1. rows'[i] = rows[i] /\ i # d /\ i \in 1 .. drawn
      BY <1>2, <1>4
    <3>2. rows[i].own => turns'[rows[i].work] = turns[rows[i].work]
      BY <1>1, <3>1 DEF RowsHold
    <3> QED BY <2>1, <3>1, <3>2 DEF HoldsBatch, OverWork
  <2>2. ASSUME NEW i \in DOMAIN rows, HoldsBatch(rows[i])
        PROVE  rows[i].batch \cap batch = {}
    BY <1>2, <2>2 DEF held_blocks
  <2>3. ASSUME NEW i \in DOMAIN rows', NEW j \in DOMAIN rows', i # j,
               HoldsBatch(rows[i])', HoldsBatch(rows[j])',
               ~HandedAgain(rows[i])', ~HandedAgain(rows[j])'
        PROVE  rows'[i].batch \cap rows'[j].batch = {}
    <3>1. CASE i = d
      BY <1>2, <1>3, <2>1, <2>2, <2>3, <3>1
    <3>2. CASE j = d
      BY <1>2, <1>3, <2>1, <2>2, <2>3, <3>2
    <3>3. CASE i \in DOMAIN rows /\ j \in DOMAIN rows
      <4>1. /\ HoldsBatch(rows[i]) /\ rows'[i] = rows[i]
            /\ HoldsBatch(rows[j]) /\ rows'[j] = rows[j]
        BY <2>1, <2>3, <3>3
      <4>2. ~HandedAgain(rows[i]) /\ ~HandedAgain(rows[j])
        BY <2>3, <4>1 DEF HandedAgain
      <4>3. rows[i].batch \cap rows[j].batch = {}
        BY <1>1, <2>3, <3>3, <4>1, <4>2 DEF HeldOnce
      <4> QED BY <4>1, <4>3
    <3> QED BY <1>2, <3>1, <3>2, <3>3
  <2> QED BY <2>3 DEF HeldOnce
<1> QED BY <1>5, <1>7, <1>8, <1>9, <1>10 DEF Inductive

\* A call: what it puts in unread is with the process that is there.
LEMMA SpokenKeeps ==
  ASSUME IInv, TypeOK', NEW s \in {sender, steer}, InCall(s), Spoken(s),
         s = sender \/ (s = steer /\ steer.pc = "first"),
         UNCHANGED <<posted, drawn, turns, worker_epoch>>, CallsAreOfRows'
  PROVE  Inductive'
<1>1. /\ TypeOK /\ RowsHold /\ HeldOnce /\ AnsweredOnce /\ ExitsAreOfTheGone
      /\ UnreadIsNotFreed /\ CallsAreOfRows
  BY DEF IInv, Inductive
<1>2. /\ drawn \in Nat /\ posted \in Nat /\ worker_epoch \in Nat /\ left \in Nat
      /\ \A j \in DOMAIN rows : rows[j] \in Row
      /\ unread \subseteq journal /\ journal \subseteq 1 .. drawn
      /\ \A i \in DOMAIN rows : rows[i].handed \in Int /\ i \in 1 .. drawn
  BY <1>1, Numbers, HandedNumbers DEF TypeOK, AnsweredOnce
<1>3. s.epoch \in Epoch /\ s.epoch \in Nat /\ s.input \in 1 .. drawn /\ s.epoch <= worker_epoch
  <2>1. s \in Sending
    BY <1>1 DEF TypeOK
  <2>2. s.epoch \in Epoch /\ s.epoch \in Nat
    BY <2>1, BoundAssumption DEF Sending, Epoch
  <2>3. s.input \in 1 .. drawn /\ s.epoch <= worker_epoch
    BY <1>1 DEF CallsAreOfRows
  <2> QED BY <2>2, <2>3
<1>4. /\ Kept(rows, rows') /\ Quiet(rows, rows') /\ DOMAIN rows' = DOMAIN rows
      /\ \A j \in DOMAIN rows :
           /\ rows'[j].terminated = rows[j].terminated
           /\ \/ /\ rows'[j].handed = rows[j].handed
                 /\ rows'[j].receiver_exited = rows[j].receiver_exited
              \/ rows'[j].handed = s.epoch /\ ~rows'[j].receiver_exited
      /\ s.input \in DOMAIN rows /\ Unread(rows[s.input]) => s.epoch <= rows'[s.input].handed
  BY <1>2, <1>3, HandTo DEF Spoken
<1>5. Advances
  BY <1>2 DEF Advances
<1>6. PICK t : /\ Tells(t, {}) /\ out' = out \o t
               /\ \A n \in DOMAIN t : t[n].kind # "exited"
  BY Zenon DEF Spoken
<1>7. unread \subseteq unread' /\ unread \ unread' = {}
  BY DEF Spoken
<1>8. RowsHold'
  <2>1. \A i \in DOMAIN rows' :
          /\ rows'[i].handed = rows[i].handed \/ rows'[i].handed <= worker_epoch'
          /\ rows'[i].own /\ rows'[i].terminated =>
               rows[i].terminated \/ rows'[i].released \/ turns'[i] = "stopped"
    BY <1>3, <1>4
  <2> QED BY <1>1, <1>4, <1>5, <2>1, RowsHoldKept
<1>9. HeldOnce'
  BY <1>1, <1>4, <1>5, HeldOnceKept
<1>10. AnsweredOnce'
  <2>1. journal \subseteq journal' /\ journal' \subseteq 1 .. drawn'
    BY <1>2, <1>3 DEF Spoken
  <2>2. unread' \cap (journal \ unread) = {}
    BY DEF Spoken
  <2>3. Tells(t, unread \ unread')
    BY <1>6, <1>7
  <2>4. \A i \in DOMAIN rows' :
              /\ i \in DOMAIN rows
              /\ rows'[i].echoed = rows[i].echoed /\ rows'[i].released = rows[i].released
    BY <1>4 DEF Quiet
  <2> QED BY <1>1, <1>6, <2>1, <2>2, <2>3, <2>4, AnsweredOnceKept
<1>11. ExitsAreOfTheGone'
  <2>1. /\ left # 0 => ~live.up
        /\ live.up => worker_epoch > 0
        /\ left <= worker_epoch
        /\ unread # {} => live.up \/ left # 0
    BY <1>1 DEF ExitsAreOfTheGone
  <2>2. \/ UNCHANGED <<live, left>>
        \/ live.up /\ ~live'.up /\ left' = worker_epoch /\ unread' = unread
    BY DEF Spoken
  <2>3. unread' # unread => live.up
    BY DEF Spoken, Reaches
  <2>4. /\ live'.up => live.up
        /\ left' # 0 => ~live'.up
        /\ left' <= worker_epoch'
        /\ unread' # {} => live'.up \/ left' # 0
    BY <1>2, <2>1, <2>2, <2>3
  <2>5. \A n \in DOMAIN t : t[n].kind = "exited" /\ live'.up => t[n].epoch < worker_epoch'
    BY <1>6
  <2>6. \A i \in DOMAIN rows' : rows'[i].receiver_exited =>
            /\ i \in DOMAIN rows /\ rows[i].receiver_exited
            /\ rows'[i].handed = rows[i].handed
    BY <1>4
  <2>7. worker_epoch <= worker_epoch'
    BY <1>2
  <2> QED BY <1>1, <1>6, <2>4, <2>5, <2>6, <2>7, ExitsKept
<1>12. UnreadIsNotFreed'
  <2>1. \A n \in DOMAIN out' :
          out'[n].kind = "exited" => \E m \in DOMAIN out : out'[n] = out[m]
    BY <1>1, <1>6, ReportsAfter
  <2>2. \A n \in DOMAIN out : out[n].epoch \in Int
    <3>1. \A r \in Report : r.epoch \in Int
      BY BoundAssumption DEF Report, Epoch
    <3>2. out \in Seq(Report)
      BY <1>1 DEF TypeOK
    <3> QED BY <3>1, <3>2, ElementOfSeq, LenProperties
  <2>3. ASSUME NEW i \in unread' \cap DOMAIN rows'
        PROVE  /\ rows'[i].receiver_exited => rows'[i].own /\ turns'[i] = "stopped"
               /\ \/ rows'[i].terminated
                  \/ \A n \in DOMAIN out' :
                       out'[n].kind = "exited" => out'[n].epoch < rows'[i].handed
    <3>1. /\ i \in DOMAIN rows /\ rows'[i].own = rows[i].own
          /\ rows[i].handed \in Int /\ rows'[i].handed \in Int
          /\ rows[i].handed <= rows'[i].handed
      BY <1>2, <1>4, BoundAssumption DEF Kept, Row, Epoch
    <3>2. CASE i \in unread
      <4>1. /\ rows[i].receiver_exited => rows[i].own /\ turns[i] = "stopped"
            /\ \/ rows[i].terminated
               \/ \A n \in DOMAIN out :
                    out[n].kind = "exited" => out[n].epoch < rows[i].handed
        BY <1>1, <3>1, <3>2 DEF UnreadIsNotFreed
      <4>2. rows'[i].receiver_exited => rows'[i].own /\ turns'[i] = "stopped"
        BY <1>4, <3>1, <4>1
      <4>3. CASE rows[i].terminated
        BY <1>4, <3>1, <4>2, <4>3
      <4>4. CASE \A n \in DOMAIN out :
                    out[n].kind = "exited" => out[n].epoch < rows[i].handed
        <5>1. ASSUME NEW n \in DOMAIN out', out'[n].kind = "exited"
              PROVE  out'[n].epoch < rows'[i].handed
          BY <2>1, <2>2, <3>1, <4>4, <5>1
        <5> QED BY <4>2, <5>1
      <4> QED BY <4>1, <4>3, <4>4
    <3>3. CASE i \notin unread
      <4>1. /\ i = s.input /\ i \notin journal
            /\ live.up /\ worker_epoch = s.epoch
        BY <3>3 DEF Spoken, Reaches
      <4>2. ~rows[i].released /\ ~rows[i].echoed
        BY <1>1, <3>1, <4>1 DEF AnsweredOnce
      <4>3. rows[i].terminated \/ s.epoch <= rows'[i].handed
        BY <1>4, <3>1, <4>1, <4>2 DEF Unread
      <4>4. ASSUME rows'[i].receiver_exited
            PROVE  rows'[i].own /\ turns'[i] = "stopped"
        <5>1. rows[i].receiver_exited /\ rows'[i].handed = rows[i].handed
          BY <1>4, <3>1, <4>4
        <5>2. rows[i].handed < s.epoch
          BY <1>1, <3>1, <4>1, <5>1 DEF ExitsAreOfTheGone, Gone
        <5>3. rows[i].terminated
          BY <1>3, <3>1, <4>3, <5>1, <5>2
        <5>4. s = sender
          <6>1. steer.pc = "first" /\ steer.input \in DOMAIN rows =>
                  steer.epoch <= rows[steer.input].handed
            BY <1>1 DEF CallsAreOfRows
          <6> QED BY <1>3, <3>1, <4>1, <5>2, <6>1
        <5>5. rows[i].own
          BY <1>1, <3>1, <4>1, <5>4 DEF CallsAreOfRows
        <5> QED BY <1>1, <3>1, <4>2, <5>3, <5>5 DEF RowsHold
      <4>5. \A n \in DOMAIN out : out[n].kind = "exited" => out[n].epoch < s.epoch
        BY <1>1, <4>1 DEF ExitsAreOfTheGone, Gone
      <4>6. ASSUME s.epoch <= rows'[i].handed, NEW n \in DOMAIN out', out'[n].kind = "exited"
            PROVE  out'[n].epoch < rows'[i].handed
        BY <1>3, <2>1, <2>2, <3>1, <4>5, <4>6
      <4> QED BY <1>4, <3>1, <4>3, <4>4, <4>6
    <3> QED BY <3>2, <3>3
  <2> QED BY <2>3 DEF UnreadIsNotFreed
<1> QED BY <1>8, <1>9, <1>10, <1>11, <1>12 DEF Inductive

\* A step that leaves rows and epochs alone moves only onward.
LEMMA Still ==
  ASSUME IInv, UNCHANGED <<drawn, worker_epoch, rows>>, posted' \in {posted, posted + 1},
         \A i \in 1 .. drawn : turns'[i] \in {turns[i], "stopped"}
  PROVE  Advances /\ Onward /\ TypeOK /\ CallsAreOfRows
<1>1. TypeOK /\ CallsAreOfRows
  BY DEF IInv, Inductive
<1>2. posted \in Nat /\ drawn \in Nat /\ worker_epoch \in Nat
  BY <1>1, Numbers
<1>3. Onward
  BY <1>1, HandedNumbers DEF Onward
<1> QED BY <1>1, <1>2, <1>3 DEF Advances

\* Every step of a turn keeps the invariant.
LEMMA TurnKeeps ==
  ASSUME IInv, TypeOK', Turn PROVE Inductive'
<1> USE DEF convVars, recordVars, backendVars, callVars, runnerVars
<1>0. /\ TypeOK /\ RowsHold /\ CallsAreOfRows /\ ExitsAreOfTheGone
      /\ SenderFits /\ SteerFits
      /\ posted \in Nat /\ drawn \in Nat /\ worker_epoch \in Nat
      /\ sender.epoch \in Epoch /\ \A j \in DOMAIN rows : rows[j] \in Row
  <2>1. TypeOK /\ RowsHold /\ CallsAreOfRows /\ ExitsAreOfTheGone
    BY DEF IInv, Inductive
  <2>2. sender.epoch \in Epoch
    BY <2>1 DEF TypeOK, Sending
  <2>3. \A j \in DOMAIN rows : rows[j] \in Row
    BY <2>1 DEF TypeOK
  <2> QED BY <2>1, <2>2, <2>3, CallsFit, Numbers
<1>1. ASSUME Post PROVE Inductive'
  <2>1. /\ posted' = posted + 1
        /\ UNCHANGED <<drawn, worker_epoch, rows, turns, sender, steer, live, left,
                       journal, unread, out>>
    BY <1>1 DEF Post
  <2>2. Advances /\ Onward
    BY <2>1, Still
  <2>3. CallsAreOfRows'
    BY <1>0, <2>1, <2>2, CallsKept
  <2> QED BY <2>1, <2>2, <2>3, RowsAlone
<1>2. ASSUME Admit \/ Assemble \/ RegisterRefused PROVE Inductive'
  <2>1. UNCHANGED <<posted, drawn, worker_epoch, rows, turns, steer, live, left,
                    journal, unread, out>>
    BY <1>2 DEF Admit, Assemble, RegisterRefused
  <2>2. Advances /\ Onward
    BY <2>1, Still
  <2>3. SteerFits'
    BY <1>0, <2>1, <2>2, SteerKept
  <2>4. \/ sender' = Idle
        \/ sender' = [Idle EXCEPT !.pc = "checked"]
        \/ Pending # {} /\ sender' = [Idle EXCEPT !.pc = "assembled", !.batch = Pending]
    BY <1>2 DEF Admit, Assemble, RegisterRefused
  <2>5. Pending \subseteq 1 .. posted
    BY <1>0, Numbers DEF Pending
  <2>6. /\ sender'.pc \in {"idle", "checked", "assembled"}
        /\ sender'.batch \subseteq 1 .. posted
        /\ sender'.pc = "assembled" => sender'.batch # {}
    <3>1. CASE sender' = Idle
      BY <3>1 DEF Idle
    <3>2. CASE sender' = [Idle EXCEPT !.pc = "checked"]
      BY <3>2 DEF Idle
    <3>3. CASE Pending # {} /\ sender' = [Idle EXCEPT !.pc = "assembled", !.batch = Pending]
      BY <2>5, <3>3 DEF Idle
    <3> QED BY <2>4, <3>1, <3>2, <3>3
  <2>7. SenderFits'
    BY <2>1, <2>6 DEF SenderFits, InCall
  <2> QED BY <2>1, <2>2, <2>3, <2>7, CallsFit, RowsAlone
<1>3. ASSUME Ensure PROVE Inductive'
  <2>1. /\ start
        /\ UNCHANGED <<posted, drawn, rows, turns, sender, steer, journal>>
    BY <1>3 DEF Ensure
  <2>2. worker_epoch' = worker_epoch + 1
    BY <2>1 DEF start
  <2>3. Advances /\ Onward
    BY <1>0, <2>1, <2>2, HandedNumbers DEF Advances, Onward
  <2>4. CallsAreOfRows'
    BY <1>0, <2>1, <2>3, CallsKept
  <2> QED BY <2>1, <2>4, StartKeeps
<1>4. ASSUME Register PROVE Inductive'
  <2>1. /\ register_input(TRUE, drawn + 1, sender.batch)
        /\ sender.batch # {} /\ sender.batch \in SUBSET (1 .. posted)
        /\ turns' = [turns EXCEPT ![drawn + 1] = "open"]
        /\ sender' = [sender EXCEPT !.pc = "first", !.input = drawn + 1,
                                    !.epoch = worker_epoch]
        /\ UNCHANGED <<posted, worker_epoch, steer, live, left, journal, unread, out>>
    BY <1>0, <1>4 DEF Register, SenderFits
  <2>2. drawn + 1 \in Input
    BY <1>0, <2>1, BoundAssumption DEF register_input, Input
  <2>3. /\ drawn' = drawn + 1 /\ drawn + 1 \notin DOMAIN rows
        /\ DOMAIN rows' = DOMAIN rows \cup {drawn + 1}
        /\ \A i \in DOMAIN rows : rows'[i] = rows[i]
        /\ rows'[drawn + 1].own
    <3>1. NewRow(TRUE, drawn + 1, sender.batch).own = TRUE
      BY DEF NewRow
    <3> QED BY <1>0, <2>1, <2>2, <3>1, Registered
  <2>4. turns'[drawn + 1] = "open" /\ \A i \in 1 .. drawn : turns'[i] = turns[i]
    BY <1>0, <2>1, <2>2 DEF TypeOK
  <2>5. Advances /\ Onward
    BY <1>0, <2>1, <2>3, <2>4, HandedNumbers DEF Advances, Onward
  <2>6. SteerFits'
    BY <1>0, <2>1, <2>5, SteerKept
  <2>7. /\ sender'.pc = "first" /\ sender'.input = drawn + 1
        /\ sender'.epoch = worker_epoch
    BY <1>0, <2>1 DEF TypeOK, Sending
  <2>8. SenderFits'
    BY <1>0, <2>1, <2>3, <2>7 DEF SenderFits, InCall
  <2> QED BY <2>1, <2>2, <2>4, <2>6, <2>8, CallsFit, RegisterKeeps
<1>5. ASSUME Send PROVE Inductive'
  <2>1. InCall(sender) /\ UNCHANGED <<posted, drawn, turns, worker_epoch, steer>>
    BY <1>5 DEF Send, InCall
  <2>2. sender.input \in Input
    BY <1>0, <2>1, Numbers DEF SenderFits
  <2>3. Spoken(sender)
    BY <1>0, <1>5, <2>2, CallSpoken DEF Send
  <2>4. Kept(rows, rows') /\ DOMAIN rows' = DOMAIN rows
    <3>1. rows' = hand_to(rows, sender.input, sender.epoch)
      BY <2>3 DEF Spoken
    <3> QED BY <1>0, <3>1, HandTo
  <2>5. Advances /\ Onward
    BY <1>0, <2>1, <2>4 DEF Advances, Onward, Kept
  <2>6. SteerFits'
    BY <1>0, <2>1, <2>5, SteerKept
  <2>7. sender' \in {Idle, [sender EXCEPT !.pc = "failed"]}
    BY <1>5 DEF Send, Failed
  <2>8. SenderFits'
    <3>1. CASE sender' = Idle
      BY <3>1 DEF SenderFits, InCall, Idle
    <3>2. CASE sender' = [sender EXCEPT !.pc = "failed"]
      <4>1. /\ sender'.pc = "failed" /\ sender'.input = sender.input
            /\ sender'.epoch = sender.epoch
        BY <1>0, <3>2 DEF TypeOK, Sending
      <4> QED BY <1>0, <2>1, <2>4, <4>1 DEF SenderFits, InCall, Kept
    <3> QED BY <2>7, <3>1, <3>2
  <2> QED BY <2>1, <2>3, <2>6, <2>8, CallsFit, SpokenKeeps
<1>6. ASSUME StartAgain PROVE Inductive'
  <2>1. /\ start /\ InCall(sender)
        /\ sender' = [sender EXCEPT !.pc = "again", !.epoch = worker_epoch + 1]
        /\ UNCHANGED <<posted, drawn, rows, turns, steer, journal>>
    BY <1>6 DEF StartAgain, InCall
  <2>2. worker_epoch' = worker_epoch + 1
    BY <2>1 DEF start
  <2>3. Advances /\ Onward
    BY <1>0, <2>1, <2>2, HandedNumbers DEF Advances, Onward
  <2>4. SteerFits'
    BY <1>0, <2>1, <2>3, SteerKept
  <2>5. /\ sender'.pc = "again" /\ sender'.input = sender.input
        /\ sender'.epoch = worker_epoch + 1
    BY <1>0, <2>1 DEF TypeOK, Sending
  <2>6. SenderFits'
    BY <1>0, <2>1, <2>2, <2>5 DEF SenderFits, InCall
  <2> QED BY <2>1, <2>4, <2>6, CallsFit, StartKeeps
<1>7. ASSUME StartRefused PROVE Inductive'
  <2>1. /\ rows' = withdraw_input(rows, sender.input)
        /\ turns' = [turns EXCEPT ![sender.input] = "stopped"]
        /\ sender' = Idle
        /\ UNCHANGED <<posted, drawn, worker_epoch, steer, live, left, journal, unread, out>>
    BY <1>7 DEF StartRefused
  <2>2. /\ Kept(rows, rows') /\ Quiet(rows, rows')
        /\ \A j \in DOMAIN rows' : rows'[j] = rows[j]
    BY <1>0, <2>1, Withdraw
  <2>3. \A i \in 1 .. drawn : turns'[i] \in {turns[i], "stopped"}
    BY <1>0, <2>1, Numbers DEF TypeOK
  <2>4. Advances /\ Onward
    BY <1>0, <2>1, <2>2, <2>3 DEF Advances, Onward, Kept
  <2>5. CallsAreOfRows'
    BY <1>0, <2>1, <2>4, CallsKept
  <2> QED BY <2>1, <2>2, <2>4, <2>5, RunnerAlone
<1> QED BY <1>1, <1>2, <1>3, <1>4, <1>5, <1>6, <1>7 DEF Turn

\* Every step of a message said into the work keeps the invariant.
LEMMA LiveKeeps ==
  ASSUME IInv, TypeOK', Live PROVE Inductive'
<1> USE DEF convVars, recordVars, backendVars, callVars, runnerVars
<1>0. /\ TypeOK /\ RowsHold /\ CallsAreOfRows
      /\ SenderFits /\ SteerFits
      /\ posted \in Nat /\ drawn \in Nat /\ worker_epoch \in Nat
      /\ steer.epoch \in Epoch /\ \A j \in DOMAIN rows : rows[j] \in Row
  <2>1. TypeOK /\ RowsHold /\ CallsAreOfRows
    BY DEF IInv, Inductive
  <2>2. steer.epoch \in Epoch
    BY <2>1 DEF TypeOK, Sending
  <2>3. \A j \in DOMAIN rows : rows[j] \in Row
    BY <2>1 DEF TypeOK
  <2> QED BY <2>1, <2>2, <2>3, CallsFit, Numbers
<1>1. ASSUME AskWorking PROVE Inductive'
  <2>1. /\ posted' = posted + 1
        /\ steer' = [Idle EXCEPT !.pc = "checked", !.batch = {posted + 1}, !.input = seat.work]
        /\ UNCHANGED <<drawn, worker_epoch, rows, turns, sender, live, left,
                       journal, unread, out>>
    BY <1>1 DEF AskWorking
  <2>2. Advances /\ Onward
    BY <2>1, Still
  <2>3. SenderFits'
    BY <1>0, <2>1, <2>2, SenderKept
  <2>4. /\ steer'.pc = "checked" /\ steer'.batch = {posted + 1} /\ steer'.input = seat.work
    BY <2>1 DEF Idle
  <2>5. seat.work \in Input
    <3>1. seat.work # 0 /\ seat.work \in 0 .. MaxInput
      BY <1>0, <1>1 DEF AskWorking, TypeOK
    <3> QED BY <3>1, BoundAssumption DEF Input
  <2>6. SteerFits'
    BY <1>0, <2>1, <2>4, <2>5 DEF SteerFits, InCall
  <2> QED BY <2>1, <2>2, <2>3, <2>6, CallsFit, RowsAlone
<1>2. ASSUME SteerRegister PROVE Inductive'
  <2>1. /\ register_input(FALSE, steer.input, steer.batch)
        /\ steer.batch # {} /\ steer.batch \in SUBSET (1 .. posted) /\ steer.input \in Input
        /\ steer' = [steer EXCEPT !.pc = "first", !.input = drawn + 1,
                                  !.epoch = worker_epoch]
        /\ UNCHANGED <<posted, turns, worker_epoch, sender, live, left, journal, unread, out>>
    BY <1>0, <1>2 DEF SteerRegister, SteerFits
  <2>2. /\ drawn' = drawn + 1 /\ drawn + 1 \notin DOMAIN rows
        /\ DOMAIN rows' = DOMAIN rows \cup {drawn + 1}
        /\ \A i \in DOMAIN rows : rows'[i] = rows[i]
        /\ rows'[drawn + 1].handed = worker_epoch
    <3>1. NewRow(FALSE, steer.input, steer.batch).handed = worker_epoch
      BY DEF NewRow
    <3> QED BY <1>0, <2>1, <3>1, Registered
  <2>3. Advances /\ Onward
    BY <1>0, <2>1, <2>2, HandedNumbers DEF Advances, Onward
  <2>4. SenderFits'
    BY <1>0, <2>1, <2>3, SenderKept
  <2>5. /\ steer'.pc = "first" /\ steer'.input = drawn + 1
        /\ steer'.epoch = worker_epoch
    BY <1>0, <2>1 DEF TypeOK, Sending
  <2>6. SteerFits'
    BY <1>0, <2>1, <2>2, <2>5 DEF SteerFits, InCall
  <2> QED BY <2>1, <2>4, <2>6, CallsFit, RegisterKeeps
<1>3. ASSUME SteerGivesUp PROVE Inductive'
  <2>1. /\ steer' = Idle
        /\ UNCHANGED <<posted, drawn, worker_epoch, rows, turns, sender, live, left,
                       journal, unread, out>>
    BY <1>3 DEF SteerGivesUp
  <2>2. Advances /\ Onward
    BY <2>1, Still
  <2>3. CallsAreOfRows'
    BY <1>0, <2>1, <2>2, CallsKept
  <2> QED BY <2>1, <2>2, <2>3, RowsAlone
<1>4. ASSUME SteerSay PROVE Inductive'
  <2>1. /\ steer.pc = "first" /\ steer' = Idle
        /\ UNCHANGED <<posted, drawn, turns, worker_epoch, sender>>
    BY <1>4 DEF SteerSay
  <2>2. InCall(steer) /\ steer.input \in Input
    BY <1>0, <2>1, Numbers DEF SteerFits, InCall
  <2>3. Spoken(steer)
    BY <1>0, <1>4, <2>2, CallSpoken DEF SteerSay
  <2>4. Kept(rows, rows') /\ DOMAIN rows' = DOMAIN rows
    <3>1. rows' = hand_to(rows, steer.input, steer.epoch)
      BY <2>3 DEF Spoken
    <3> QED BY <1>0, <3>1, HandTo
  <2>5. Advances /\ Onward
    BY <1>0, <2>1, <2>4 DEF Advances, Onward, Kept
  <2>6. CallsAreOfRows'
    BY <1>0, <2>1, <2>5, CallsKept
  <2> QED BY <2>1, <2>2, <2>3, <2>6, SpokenKeeps
<1> QED BY <1>1, <1>2, <1>3, <1>4 DEF Live

-------------------------------------------------------------------------------
(* The steps of the platform.                                              *)

\* What is left of the reports once the first of them is applied.
LEMMA ReportsLeft ==
  ASSUME TypeOK, out # <<>>, out' = Tail(out)
  PROVE  /\ Head(out) = out[1] /\ 1 \in DOMAIN out /\ out[1] \in Report
         /\ \A n \in DOMAIN out' : /\ n \in Nat /\ n > 0 /\ n + 1 \in DOMAIN out
                                   /\ out'[n] = out[n + 1]
         /\ \A n \in DOMAIN out : out[n].epoch \in Int
<1>1. out \in Seq(Report)
  BY DEF TypeOK
<1>2. \A r \in Report : r.epoch \in Int
  BY BoundAssumption DEF Report, Epoch
<1>3. \A n \in DOMAIN out : out[n].epoch \in Int
  BY <1>1, <1>2, ElementOfSeq, LenProperties
<1> QED BY <1>1, <1>3, Rest

\* A report that is no answer leaves what was released as it is; an answer
\* releases its input, and is the only one there is.
LEMMA AppliedAnswers ==
  ASSUME TypeOK, AnsweredOnce, out # <<>>, out' = Tail(out),
         UNCHANGED <<drawn, journal, unread>>,
         DOMAIN rows' = DOMAIN rows, Kept(rows, rows'),
         \A i \in DOMAIN rows :
           \/ rows'[i].echoed = rows[i].echoed /\ rows'[i].released = rows[i].released
           \/ Answers(out[1]) /\ out[1].input = i /\ rows'[i].released
  PROVE  AnsweredOnce'
<1>1. /\ 1 \in DOMAIN out
      /\ \A n \in DOMAIN out' : /\ n \in Nat /\ n > 0 /\ n + 1 \in DOMAIN out
                                /\ out'[n] = out[n + 1]
  BY ReportsLeft
<1>2. /\ journal \subseteq 1 .. drawn
      /\ \A n \in DOMAIN out : Answers(out[n]) => out[n].input \in journal \ unread
      /\ \A m, n \in DOMAIN out :
           Answers(out[m]) /\ Answers(out[n]) /\ out[m].input = out[n].input => m = n
      /\ \A i \in DOMAIN rows :
           /\ rows[i].echoed => rows[i].released
           /\ rows[i].released => /\ i \in journal \ unread
                                  /\ \A n \in DOMAIN out : Answers(out[n]) => out[n].input # i
  BY DEF AnsweredOnce
<1>3. \A n \in DOMAIN out' : Answers(out'[n]) => out'[n].input \in journal' \ unread'
  BY <1>1, <1>2
<1>4. ASSUME NEW m \in DOMAIN out', NEW n \in DOMAIN out',
             Answers(out'[m]), Answers(out'[n]), out'[m].input = out'[n].input
      PROVE  m = n
  <2>1. m + 1 = n + 1
    BY <1>1, <1>2, <1>4
  <2> QED BY <1>1, <2>1
<1>5. ASSUME NEW i \in DOMAIN rows'
      PROVE  /\ rows'[i].echoed => rows'[i].released
             /\ rows'[i].released =>
                  /\ i \in journal' \ unread'
                  /\ \A n \in DOMAIN out' : Answers(out'[n]) => out'[n].input # i
  <2>1. CASE rows'[i].echoed = rows[i].echoed /\ rows'[i].released = rows[i].released
    <3>1. rows'[i].echoed => rows'[i].released
      BY <1>2, <2>1
    <3>2. CASE rows[i].released
      BY <1>1, <1>2, <2>1, <3>1, <3>2
    <3>3. CASE ~rows[i].released
      BY <2>1, <3>1, <3>3
    <3> QED BY <3>2, <3>3
  <2>2. CASE Answers(out[1]) /\ out[1].input = i /\ rows'[i].released
    <3>1. i \in journal' \ unread'
      BY <1>1, <1>2, <2>2
    <3>2. ASSUME NEW n \in DOMAIN out', Answers(out'[n]), out'[n].input = i
          PROVE  FALSE
      <4>1. n + 1 = 1
        BY <1>1, <1>2, <2>2, <3>2
      <4> QED BY <1>1, <4>1
    <3> QED BY <2>2, <3>1, <3>2
  <2> QED BY <2>1, <2>2
<1> QED BY <1>2, <1>3, <1>4, <1>5 DEF AnsweredOnce

\* What one report does to a row.
Effect(i) ==
  /\ rows'[i].handed = rows[i].handed \/ rows'[i].handed = out[1].epoch
  /\ rows[i].terminated => rows'[i].terminated
  /\ rows'[i].terminated => rows[i].terminated \/ rows'[i].released
  /\ \/ rows'[i].echoed = rows[i].echoed /\ rows'[i].released = rows[i].released
     \/ Answers(out[1]) /\ out[1].input = i /\ rows'[i].released
  /\ rows'[i].receiver_exited =>
       /\ rows'[i].handed = rows[i].handed
       /\ \/ rows[i].receiver_exited
          \/ out[1].kind = "exited" /\ rows[i].handed = out[1].epoch /\ Unread(rows[i])

\* Each kind of report has that effect, and no more.
LEMMA AppliedEffect ==
  ASSUME TypeOK, Apply, NEW i \in DOMAIN rows PROVE Effect(i)
<1>1. out # <<>> /\ Head(out) = out[1] /\ out[1].epoch \in Epoch /\ out[1].inside \in 0 .. MaxInput
  <2>1. out # <<>> /\ out[1] \in Report
    BY AppliedRows
  <2>2. out' = Tail(out)
    BY AppliedRows
  <2> QED BY <2>1, <2>2, ReportsLeft DEF Report
<1>2. \A j \in DOMAIN rows : rows[j] \in Row
  BY DEF TypeOK
<1>3. CASE rows' = hand_to(record_accepted(rows, out[1].input), out[1].input, out[1].epoch)
  <2> DEFINE a == record_accepted(rows, out[1].input)
  <2>1. /\ DOMAIN a = DOMAIN rows
        /\ \A j \in DOMAIN rows :
             /\ a[j] \in Row /\ a[j].handed = rows[j].handed
             /\ a[j].released = rows[j].released /\ a[j].echoed = rows[j].echoed
             /\ a[j].terminated = rows[j].terminated
             /\ a[j].receiver_exited = rows[j].receiver_exited
    BY <1>2, Accepted
  <2>2. /\ Quiet(a, rows') /\ DOMAIN rows' = DOMAIN a
        /\ \A j \in DOMAIN a :
             /\ rows'[j].terminated = a[j].terminated
             /\ \/ /\ rows'[j].handed = a[j].handed
                   /\ rows'[j].receiver_exited = a[j].receiver_exited
                \/ rows'[j].handed = out[1].epoch /\ ~rows'[j].receiver_exited
    BY <1>1, <1>3, <2>1, HandTo
  <2> HIDE DEF a
  <2> QED BY <2>1, <2>2 DEF Effect, Quiet
<1>4. CASE /\ out[1].kind = "read"
           /\ rows' = record_echo(rows, out[1].input, out[1].inside)
  <2>1. /\ rows'[i].terminated = rows[i].terminated
        /\ rows'[i].handed = rows[i].handed
        /\ rows'[i].receiver_exited = rows[i].receiver_exited
        /\ i # out[1].input => rows'[i] = rows[i]
        /\ i = out[1].input => rows'[i].released
    BY <1>1, <1>2, <1>4, Echo
  <2>2. Answers(out[1])
    BY <1>4 DEF Answers
  <2> QED BY <2>1, <2>2 DEF Effect
<1>5. CASE out[1].kind = "dropped" /\ rows' = drop_input(rows, out[1].input)
  <2>1. /\ rows'[i].handed = rows[i].handed
        /\ rows'[i].receiver_exited = rows[i].receiver_exited
        /\ rows'[i].echoed = rows[i].echoed
        /\ i # out[1].input => rows'[i] = rows[i]
        /\ rows'[i] = rows[i] \/ (rows'[i].terminated /\ rows'[i].released)
    BY <1>2, <1>5, Drop
  <2>2. Answers(out[1])
    BY <1>5 DEF Answers
  <2> QED BY <2>1, <2>2 DEF Effect
<1>6. CASE rows' = rows
  BY <1>6 DEF Effect
<1>7. CASE out[1].kind = "exited" /\ rows' = receiver_exited(rows, out[1].epoch)
  <2>1. /\ Quiet(rows, rows') /\ DOMAIN rows' = DOMAIN rows
        /\ rows'[i].handed = rows[i].handed
        /\ rows'[i].terminated = rows[i].terminated
        /\ rows'[i].receiver_exited <=>
             rows[i].receiver_exited \/ (Unread(rows[i]) /\ rows[i].handed = out[1].epoch)
    BY <1>2, <1>7, ReceiverExited
  <2> QED BY <1>7, <2>1 DEF Effect, Quiet
<1> QED BY <1>1, <1>3, <1>4, <1>5, <1>6, <1>7 DEF Apply, ApplyIdle

\* Applying a report keeps the invariant.
LEMMA ApplyKeeps ==
  ASSUME IInv, TypeOK', Apply PROVE Inductive'
<1>1. /\ TypeOK /\ RowsHold /\ CallsAreOfRows /\ HeldOnce /\ AnsweredOnce
      /\ ExitsAreOfTheGone /\ UnreadIsNotFreed
  BY DEF IInv, Inductive
<1>2. /\ out # <<>> /\ out' = Tail(out) /\ Kept(rows, rows') /\ DOMAIN rows' = DOMAIN rows
      /\ \A i \in DOMAIN rows : Effect(i)
  BY <1>1, AppliedRows, AppliedEffect
<1>3. /\ 1 \in DOMAIN out
      /\ \A n \in DOMAIN out' : /\ n \in Nat /\ n > 0 /\ n + 1 \in DOMAIN out
                                /\ out'[n] = out[n + 1]
      /\ \A n \in DOMAIN out : out[n].epoch \in Int
  BY <1>1, <1>2, ReportsLeft
<1>4. UNCHANGED <<posted, drawn, worker_epoch, sender, steer, live, left, journal, unread>>
  BY DEF Apply, callVars
<1>5. /\ posted \in Nat /\ drawn \in Nat /\ worker_epoch \in Nat
      /\ out[1].epoch <= worker_epoch
  BY <1>1, <1>3, Numbers DEF ExitsAreOfTheGone
<1>6. Advances
  <2>1. turns' = turns \/ \E w : turns' =
          [i \in Input |-> IF i \in AnsweredInside(w) THEN "stopped" ELSE turns[i]]
    BY DEF Apply, ApplyIdle
  <2>2. \A i \in 1 .. drawn : turns'[i] \in {turns[i], "stopped"}
    BY <1>1, <2>1, Numbers
  <2> QED BY <1>4, <1>5, <2>2 DEF Advances
<1>7. \A i \in DOMAIN rows :
        /\ i \in 1 .. drawn /\ rows[i].handed \in Int /\ rows'[i].handed \in Int
        /\ rows[i].handed <= rows'[i].handed /\ rows'[i].own = rows[i].own
  BY <1>1, <1>2, HandedNumbers, BoundAssumption DEF Kept, Row, Epoch
<1>8. RowsHold'
  <2>1. \A i \in DOMAIN rows' :
          /\ rows'[i].handed = rows[i].handed \/ rows'[i].handed <= worker_epoch'
          /\ rows'[i].own /\ rows'[i].terminated =>
               rows[i].terminated \/ rows'[i].released \/ turns'[i] = "stopped"
    BY <1>2, <1>4, <1>5 DEF Effect
  <2> QED BY <1>1, <1>2, <1>6, <2>1, RowsHoldKept
<1>9. CallsAreOfRows'
  <2>1. Onward
    BY <1>2, <1>7 DEF Onward
  <2> QED BY <1>1, <1>4, <1>6, <2>1, CallsKept
<1>10. HeldOnce'
  BY <1>1, <1>2, <1>6, HeldOnceKept
<1>11. AnsweredOnce'
  <2>1. \A i \in DOMAIN rows :
           \/ rows'[i].echoed = rows[i].echoed /\ rows'[i].released = rows[i].released
           \/ Answers(out[1]) /\ out[1].input = i /\ rows'[i].released
    BY <1>2 DEF Effect
  <2> QED BY <1>1, <1>2, <1>4, <2>1, AppliedAnswers
<1>12. ExitsAreOfTheGone'
  <2>1. /\ live.up => worker_epoch > 0
        /\ left # 0 => ~live.up
        /\ left <= worker_epoch
        /\ unread # {} => live.up \/ left # 0
        /\ \A n \in DOMAIN out : out[n].epoch <= worker_epoch
        /\ \A n \in DOMAIN out : out[n].kind = "exited" => Gone(out[n].epoch)
        /\ \A i \in DOMAIN rows : rows[i].receiver_exited => Gone(rows[i].handed)
    BY <1>1 DEF ExitsAreOfTheGone
  <2>2. \A e \in Int : Gone(e) => e <= worker_epoch' /\ (live'.up => e < worker_epoch')
    BY <1>4 DEF Gone
  <2>3. ASSUME NEW n \in DOMAIN out'
        PROVE  /\ out'[n].epoch <= worker_epoch'
               /\ out'[n].kind = "exited" =>
                    out'[n].epoch <= worker_epoch' /\ (live'.up => out'[n].epoch < worker_epoch')
    BY <1>3, <1>4, <2>1, <2>2
  <2>4. ASSUME NEW i \in DOMAIN rows', rows'[i].receiver_exited
        PROVE  rows'[i].handed <= worker_epoch' /\ (live'.up => rows'[i].handed < worker_epoch')
    <3>1. /\ rows'[i].handed = rows[i].handed
          /\ \/ rows[i].receiver_exited
             \/ out[1].kind = "exited" /\ rows[i].handed = out[1].epoch
      BY <1>2, <2>4 DEF Effect
    <3>2. Gone(rows[i].handed)
      BY <1>2, <1>3, <2>1, <3>1
    <3> QED BY <1>2, <1>7, <2>2, <3>1, <3>2
  <2> QED BY <1>4, <2>1, <2>3, <2>4 DEF ExitsAreOfTheGone, Gone
<1>13. UnreadIsNotFreed'
  <2>1. ASSUME NEW i \in unread' \cap DOMAIN rows'
        PROVE  /\ rows'[i].receiver_exited => rows'[i].own /\ turns'[i] = "stopped"
               /\ \/ rows'[i].terminated
                  \/ \A n \in DOMAIN out' :
                       out'[n].kind = "exited" => out'[n].epoch < rows'[i].handed
    <3>1. /\ i \in unread \cap DOMAIN rows /\ Effect(i)
          /\ rows[i].handed \in Int /\ rows'[i].handed \in Int
          /\ rows[i].handed <= rows'[i].handed /\ rows'[i].own = rows[i].own
          /\ turns'[i] \in {turns[i], "stopped"}
      BY <1>2, <1>4, <1>6, <1>7 DEF Advances
    <3>2. /\ rows[i].receiver_exited => rows[i].own /\ turns[i] = "stopped"
          /\ \/ rows[i].terminated
             \/ \A n \in DOMAIN out :
                  out[n].kind = "exited" => out[n].epoch < rows[i].handed
      BY <1>1, <3>1 DEF UnreadIsNotFreed
    <3>3. ASSUME rows'[i].receiver_exited PROVE rows'[i].own /\ turns'[i] = "stopped"
      <4>1. CASE rows[i].receiver_exited
        BY <3>1, <3>2, <4>1
      <4>2. CASE out[1].kind = "exited" /\ rows[i].handed = out[1].epoch /\ Unread(rows[i])
        <5>1. ~rows[i].terminated
          BY <4>2 DEF Unread
        <5>2. out[1].epoch < rows[i].handed
          BY <1>3, <3>2, <4>2, <5>1
        <5> QED BY <3>1, <4>2, <5>2
      <4> QED BY <3>1, <3>3, <4>1, <4>2 DEF Effect
    <3>4. CASE rows[i].terminated
      BY <3>1, <3>3, <3>4 DEF Effect
    <3>5. CASE \A n \in DOMAIN out : out[n].kind = "exited" => out[n].epoch < rows[i].handed
      <4>1. ASSUME NEW n \in DOMAIN out', out'[n].kind = "exited"
            PROVE  out'[n].epoch < rows'[i].handed
        <5>1. /\ out[n + 1].kind = "exited" /\ out'[n] = out[n + 1]
              /\ n + 1 \in DOMAIN out /\ out[n + 1].epoch \in Int
          BY <1>3, <4>1
        <5>2. out[n + 1].epoch < rows[i].handed
          BY <3>5, <5>1
        <5> QED BY <3>1, <5>1, <5>2
      <4> QED BY <3>3, <4>1
    <3> QED BY <3>2, <3>4, <3>5
  <2> QED BY <2>1 DEF UnreadIsNotFreed
<1> QED BY <1>8, <1>9, <1>10, <1>11, <1>12, <1>13 DEF Inductive

\* Every step of the platform keeps the invariant.
LEMMA PlatformKeeps ==
  ASSUME IInv, TypeOK', Platform PROVE Inductive'
<1> USE DEF convVars, recordVars, backendVars, callVars, runnerVars
<1>0. /\ TypeOK /\ RowsHold /\ CallsAreOfRows
      /\ posted \in Nat /\ drawn \in Nat /\ worker_epoch \in Nat
      /\ \A j \in DOMAIN rows : rows[j] \in Row
      /\ turns \in [Input -> {"none", "open", "stopped"}]
      /\ 1 .. drawn \subseteq Input /\ DOMAIN rows \subseteq 1 .. drawn
  <2>1. TypeOK /\ RowsHold /\ CallsAreOfRows
    BY DEF IInv, Inductive
  <2>2. /\ \A j \in DOMAIN rows : rows[j] \in Row
        /\ turns \in [Input -> {"none", "open", "stopped"}]
        /\ DOMAIN rows \subseteq 1 .. drawn
    BY <2>1 DEF TypeOK
  <2> QED BY <2>1, <2>2, Numbers
<1>1. CASE Apply
  BY <1>1, ApplyKeeps
<1>2. ASSUME NEW w \in Input,
             rows' = terminate_inputs_of_dead_works(rows, w),
             turns' = [turns EXCEPT ![w] = IF @ = "open" THEN "stopped" ELSE @],
             UNCHANGED <<posted, drawn, worker_epoch, sender, steer, live, left,
                         journal, unread, out>>
      PROVE  Inductive'
  <2>1. /\ Kept(rows, rows') /\ Quiet(rows, rows') /\ DOMAIN rows' = DOMAIN rows
        /\ \A j \in DOMAIN rows :
             /\ rows'[j].handed = rows[j].handed
             /\ rows'[j].receiver_exited = rows[j].receiver_exited
             /\ rows[j].terminated => rows'[j].terminated
             /\ rows'[j].terminated => rows[j].terminated \/ rows[j].work = w
    BY <1>0, <1>2, Terminated
  <2>2. \A i \in 1 .. drawn : turns'[i] \in {turns[i], "stopped"}
    BY <1>0, <1>2
  <2>3. Advances /\ Onward
    BY <1>0, <1>2, <2>1, <2>2 DEF Advances, Onward, Kept
  <2>4. CallsAreOfRows'
    BY <1>0, <1>2, <2>3, CallsKept
  <2>5. ASSUME NEW i \in DOMAIN rows', rows'[i].own, rows'[i].terminated, ~rows[i].terminated
        PROVE  turns'[i] = "stopped"
    <3>1. i \in DOMAIN rows /\ rows[i].own /\ rows[i].work = w /\ i \in Input
      BY <1>0, <2>1, <2>5 DEF Kept
    <3>2. i = w /\ turns[i] # "none"
      BY <1>0, <3>1 DEF RowsHold
    <3>3. turns[i] \in {"open", "stopped"}
      BY <1>0, <3>1, <3>2
    <3> QED BY <1>0, <1>2, <3>1, <3>2, <3>3
  <2> QED BY <1>2, <2>1, <2>3, <2>4, <2>5, RunnerAlone
<1>3. ASSUME NEW w \in Input, CloseTurn(w) PROVE Inductive'
  <2>1. turns' = [turns EXCEPT ![w] = IF @ = "open" THEN "stopped" ELSE @]
    BY <1>0, <1>3 DEF CloseTurn
  <2> QED BY <1>2, <1>3, <2>1 DEF CloseTurn
<1>4. CASE Died
  <2>1. seat.work \in Input
    <3>1. seat.work # 0 /\ seat.work \in 0 .. MaxInput
      BY <1>0, <1>4 DEF Died, TypeOK
    <3> QED BY <3>1, BoundAssumption DEF Input
  <2> QED BY <1>2, <1>4, <2>1 DEF Died
<1>5. CASE Crash
  <2>1. /\ sender' = Idle /\ steer' = Idle
        /\ UNCHANGED <<posted, drawn, rows, turns, journal>>
    BY <1>5 DEF Crash
  <2>2. CASE live.up
    <3>1. start
      BY <1>5, <2>2 DEF Crash
    <3>2. worker_epoch' = worker_epoch + 1
      BY <3>1 DEF start
    <3>3. Advances /\ Onward
      BY <1>0, <2>1, <3>2, HandedNumbers DEF Advances, Onward
    <3>4. CallsAreOfRows'
      BY <1>0, <2>1, <3>3, CallsKept
    <3> QED BY <2>1, <3>1, <3>4, StartKeeps
  <2>3. CASE ~live.up
    <3>1. UNCHANGED <<worker_epoch, live, left, unread, out>>
      BY <1>5, <2>3 DEF Crash
    <3>2. Advances /\ Onward
      BY <2>1, <3>1, Still
    <3>3. CallsAreOfRows'
      BY <1>0, <2>1, <3>2, CallsKept
    <3> QED BY <2>1, <3>1, <3>2, <3>3, RowsAlone
  <2> QED BY <2>2, <2>3
<1> QED BY <1>1, <1>3, <1>4, <1>5 DEF Platform

-------------------------------------------------------------------------------
(* The theorems.                                                           *)

\* The invariant holds where nothing was said yet.
LEMMA InitHolds == Init => IInv
<1> SUFFICES ASSUME Init PROVE IInv
  OBVIOUS
<1>1. TypeOK
  <2>1. Idle \in Sending
    BY BoundAssumption DEF Idle, Sending, Epoch
  <2>2. NoWork \in [work : 0 .. MaxInput, running : BOOLEAN]
    BY BoundAssumption DEF NoWork
  <2>3. DOMAIN rows = {}
    BY DEF Init
  <2> QED BY <2>1, <2>2, <2>3, BoundAssumption DEF Init, TypeOK, Epoch
<1>2. DOMAIN rows = {} /\ DOMAIN out = {} /\ Idle.pc = "idle"
  BY DEF Init, Idle
<1>3. RowsHold /\ HeldOnce
  BY <1>2 DEF RowsHold, HeldOnce
<1>4. CallsAreOfRows
  BY <1>2 DEF Init, CallsAreOfRows, InCall
<1>5. AnsweredOnce
  BY <1>2 DEF Init, AnsweredOnce
<1>6. ExitsAreOfTheGone
  BY <1>2 DEF Init, ExitsAreOfTheGone
<1>7. UnreadIsNotFreed
  BY <1>2 DEF UnreadIsNotFreed
<1> QED BY <1>1, <1>3, <1>4, <1>5, <1>6, <1>7 DEF IInv, Inductive

\* Every step keeps it.
LEMMA StepHolds == IInv /\ [Next]_vars => IInv'
<1> SUFFICES ASSUME IInv, [Next]_vars PROVE IInv'
  OBVIOUS
<1>1. TypeOK /\ RowsHold /\ CallsAreOfRows /\ ExitsAreOfTheGone
  BY DEF IInv, Inductive
<1>2. CASE Session
  BY <1>1, <1>2, TypeOfSession, SessionKeeps DEF IInv
<1>3. CASE Turn
  BY <1>1, <1>3, TypeOfTurn, TurnKeeps DEF IInv
<1>4. CASE Live
  BY <1>1, <1>4, TypeOfLive, LiveKeeps DEF IInv
<1>5. CASE Platform
  BY <1>1, <1>5, TypeOfPlatform, PlatformKeeps DEF IInv
<1>6. CASE UNCHANGED vars
  <2>1. UNCHANGED <<posted, cursor, drawn, rows, turns, worker_epoch, seat, assembled,
                    sender, steer, live, left, journal, unread, out, faults>>
    BY <1>6 DEF vars, convVars, recordVars, backendVars, callVars, runnerVars
  <2>2. TypeOK'
    BY <1>1, <2>1 DEF TypeOK
  <2>3. Advances /\ Onward
    BY <2>1, Still
  <2>4. CallsAreOfRows'
    BY <1>1, <2>1, <2>2, <2>3, CallsKept
  <2>5. Inductive'
    BY <2>1, <2>2, <2>3, <2>4, RowsAlone
  <2> QED BY <2>2, <2>5 DEF IInv
<1> QED BY <1>2, <1>3, <1>4, <1>5, <1>6 DEF Next

\* So it holds throughout.
LEMMA IInvHolds == Spec => []IInv
<1> QED BY InitHolds, StepHolds, PTL DEF Spec

\* The types of the records, the calls, the process and its reports
\* (receipts.py, harness/driven/runner.py).
THEOREM TypeCorrect == Spec => []TypeOK
<1>1. IInv => TypeOK
  BY DEF IInv
<1> QED BY <1>1, IInvHolds, PTL

\* What a row says, the call that carries it, the journal of the runner and the
\* reports on their way agree, for any number of messages, inputs, processes and
\* faults.
THEOREM RecordsAgree == Spec => []Inductive
<1>1. IInv => Inductive
  BY DEF IInv
<1> QED BY <1>1, IInvHolds, PTL

\* No message is in two inputs that hold it (register_input under _lock_blocks),
\* but for an input handed to a second process.
THEOREM HeldByOne == Spec => []HeldOnce
<1>1. IInv => HeldOnce
  BY DEF IInv, Inductive
<1> QED BY <1>1, IInvHolds, PTL

\* What a session may still read is offered to nobody else (held_blocks,
\* unread_input_with_over_work), whatever dies or comes late.
THEOREM InSession == Spec => []InSessionHolds
<1>1. IInv => InSessionHolds
  <2> SUFFICES ASSUME IInv, NEW i \in unread, live.up, i \notin Withdrawn
               PROVE  HoldsBatch(rows[i]) \/ (rows[i].own /\ turns[i] = "stopped")
    BY DEF InSessionHolds
  <2>1. TypeOK /\ RowsHold /\ AnsweredOnce /\ UnreadIsNotFreed
    BY DEF IInv, Inductive
  <2>2. i \in DOMAIN rows
    BY <2>1 DEF TypeOK, AnsweredOnce, Withdrawn
  <2>3. ~rows[i].released
    BY <2>1, <2>2 DEF AnsweredOnce
  <2>4. rows[i].own => rows[i].work = i
    BY <2>1, <2>2 DEF RowsHold
  <2>5. rows[i].receiver_exited => rows[i].own /\ turns[i] = "stopped"
    BY <2>1, <2>2 DEF UnreadIsNotFreed
  <2> QED BY <2>3, <2>4, <2>5 DEF HoldsBatch, OverWork
<1> QED BY <1>1, IInvHolds, PTL

\* What was given back as unread is not heard to be read afterwards (_drop,
\* _drop_unread, record_receipt).
THEOREM DroppedStaysUnread == Spec => DroppedIsNeverRead
<1> DEFINE Stays == \A i \in DOMAIN rows \cap DOMAIN rows' :
                      rows[i].released /\ ~rows[i].echoed => ~(rows'[i]).echoed
<1>1. IInv /\ [Next]_vars => Stays
  <2> SUFFICES ASSUME IInv, [Next]_vars, NEW i \in DOMAIN rows, i \in DOMAIN rows',
                      rows[i].released, ~rows[i].echoed
               PROVE  ~(rows'[i]).echoed
    OBVIOUS
  <2>0. /\ TypeOK /\ AnsweredOnce /\ CallsAreOfRows /\ RowsHold
        /\ \A j \in DOMAIN rows : rows[j] \in Row
    BY DEF IInv, Inductive, TypeOK
  <2>1. CASE Apply
    <3>1. out # <<>> /\ out' = Tail(out) /\ Effect(i)
      BY <2>0, <2>1, AppliedRows, AppliedEffect
    <3>2. 1 \in DOMAIN out
      BY <2>0, <3>1, ReportsLeft
    <3>3. ~(Answers(out[1]) /\ out[1].input = i)
      BY <2>0, <3>2 DEF AnsweredOnce
    <3>4. rows'[i].echoed = rows[i].echoed
      BY <3>1, <3>3 DEF Effect
    <3> QED BY <3>4
  <2>2. CASE Send \/ SteerSay
    <3>1. PICK s \in {sender, steer} : rows' = hand_to(rows, s.input, s.epoch)
      BY <2>2 DEF Send, SteerSay, Taken, Begun, NotTaken
    <3>2. s.epoch \in Epoch
      BY <2>0 DEF TypeOK, Sending
    <3>3. Quiet(rows, rows')
      BY <2>0, <3>1, <3>2, HandTo
    <3> QED BY <3>3 DEF Quiet
  <2>3. CASE StartRefused
    <3>1. rows' = withdraw_input(rows, sender.input)
      BY <2>3 DEF StartRefused
    <3>2. Quiet(rows, rows')
      BY <2>0, <3>1, Withdraw
    <3> QED BY <3>2 DEF Quiet
  <2>4. CASE Died \/ \E w \in Input : CloseTurn(w)
    <3>1. PICK w : rows' = terminate_inputs_of_dead_works(rows, w)
      BY <2>4 DEF Died, CloseTurn
    <3>2. Quiet(rows, rows')
      BY <2>0, <3>1, Terminated
    <3> QED BY <3>2 DEF Quiet
  <2>5. CASE Register \/ SteerRegister
    <3>1. rows'[i] = rows[i]
      <4>1. i # drawn + 1
        BY <2>0, Numbers DEF TypeOK
      <4> QED BY <2>5, <4>1 DEF Register, SteerRegister, register_input
    <3> QED BY <3>1
  <2>6. CASE UNCHANGED rows
    BY <2>6
  <2>7. \/ Apply \/ Send \/ SteerSay \/ StartRefused \/ Died \/ Register \/ SteerRegister
        \/ \E w \in Input : CloseTurn(w)
        \/ UNCHANGED rows
    <3> USE DEF convVars, recordVars, backendVars, callVars, runnerVars
    <3>1. CASE Session
      BY <3>1 DEF Session, Read, Settle, Finish, Exit, Killed
    <3>2. CASE Turn
      BY <3>2 DEF Turn, Post, Admit, Assemble, Ensure, RegisterRefused, StartAgain
    <3>3. CASE Live
      BY <3>3 DEF Live, AskWorking, SteerGivesUp
    <3>4. CASE Platform
      BY <3>4 DEF Platform, Crash
    <3>5. CASE UNCHANGED vars
      BY <3>5 DEF vars
    <3> QED BY <3>1, <3>2, <3>3, <3>4, <3>5 DEF Next
  <2> QED BY <2>1, <2>2, <2>3, <2>4, <2>5, <2>6, <2>7
<1> QED BY <1>1, IInvHolds, PTL DEF DroppedIsNeverRead, Spec

\* No second call, of this process or the next, puts an input in again (accept).
THEOREM PutIn == Spec => PutInOnce
<1>1. [Next]_vars => \A i \in unread' \ unread : i \notin journal
  <2> SUFFICES ASSUME [Next]_vars PROVE \A i \in unread' \ unread : i \notin journal
    OBVIOUS
  <2> USE DEF convVars, recordVars, backendVars, callVars, runnerVars
  <2>1. CASE Session
    BY <2>1 DEF Session, Read, Settle, Finish, Exit, Killed
  <2>2. CASE Turn
    BY <2>2 DEF Turn, Post, Admit, Assemble, Ensure, Register, RegisterRefused, Send,
                Taken, Begun, NotTaken, accept, StartAgain, StartRefused, start
  <2>3. CASE Live
    BY <2>3 DEF Live, AskWorking, SteerRegister, SteerGivesUp, SteerSay,
                Taken, Begun, NotTaken, accept
  <2>4. CASE Platform
    BY <2>4 DEF Platform, Apply, CloseTurn, Died, Crash, start
  <2>5. CASE UNCHANGED vars
    BY <2>5 DEF vars
  <2> QED BY <2>1, <2>2, <2>3, <2>4, <2>5 DEF Next
<1> QED BY <1>1, PTL DEF PutInOnce, Spec
================================================================================
