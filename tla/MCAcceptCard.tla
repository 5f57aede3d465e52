------------------------------ MODULE MCAcceptCard ------------------------------
(***************************************************************************)
(* AcceptCard for TLC.                                                     *)
(***************************************************************************)
EXTENDS AcceptCard
================================================================================
