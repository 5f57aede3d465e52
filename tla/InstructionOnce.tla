---------------------------- MODULE InstructionOnce ----------------------------
(***************************************************************************)
(* What the delivery ledger promises whoever gives an AI teammate an       *)
(* instruction, without attempts, leases, inputs or processes: it reaches  *)
(* the session at most once at a time, can be taken back only while it is  *)
(* unread, is closed only while the session does not have it, and once     *)
(* read or closed stays so. (domain/delivery/agent.py:1-6, receipts.py:1-6)*)
(* One step breaks that, and is recorded: a send that left counts as never *)
(* made, and the instruction is owed again whatever became of it.          *)
(***************************************************************************)
CONSTANT Deliveries

VARIABLES
  fate,   \* of an instruction: "owed", "handed", "read" or "closed"
  strays  \* instructions of which something handed over went astray

vars == <<fate, strays>>

Init == /\ fate = [d \in Deliveries |-> "owed"]
        /\ strays = {}

Moves(d, from, to) ==
  /\ fate[d] = from
  /\ fate' = [fate EXCEPT ![d] = to]

\* An attempt begins to send it: from here the session may have it.
Hand(d) == Moves(d, "owed", "handed") /\ UNCHANGED strays

\* It did not reach the session, or the session lost it unread.
TakeBack(d) == Moves(d, "handed", "owed") /\ UNCHANGED strays

Read(d) == Moves(d, "handed", "read") /\ UNCHANGED strays

\* It is in the session's queue, lost or read, and counts as never handed over.
GoAstray(d) ==
  /\ fate[d] # "closed"
  /\ fate' = [fate EXCEPT ![d] = "owed"]
  /\ strays' = strays \cup {d}

\* Several are closed at once when a newer instruction replaces them.
Close(closed) ==
  /\ \A d \in closed : fate[d] = "owed"
  /\ fate' = [d \in Deliveries |-> IF d \in closed THEN "closed" ELSE fate[d]]
  /\ UNCHANGED strays

Next == \/ \E d \in Deliveries : Hand(d) \/ TakeBack(d) \/ Read(d) \/ GoAstray(d)
        \/ \E closed \in SUBSET Deliveries : Close(closed)

Spec == Init /\ [][Next]_vars

===============================================================================
