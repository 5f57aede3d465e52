---------------------------- MODULE MCAgentDelivery ----------------------------
(***************************************************************************)
(* Instances of AgentDelivery for TLC: one instruction with its attempts,  *)
(* and in `Newer` one about the same thing that may replace it and has     *)
(* none of its own.                                                        *)
(***************************************************************************)
EXTENDS AgentDelivery

CONSTANTS d1, Newer

MCDeliveries == {d1} \cup Newer
MCDeliveryOf == [a \in Attempts |-> d1]
MCSubject    == [d \in MCDeliveries |-> "checks"]
===============================================================================
