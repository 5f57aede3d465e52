---------------------------- MODULE MCChannelOutbox ----------------------------
(***************************************************************************)
(* An instance of ChannelOutbox for TLC: a claim, the one that recovers it *)
(* and the one that recovers that, of a mail or of a push to two browsers. *)
(***************************************************************************)
EXTENDS ChannelOutbox

CONSTANTS w1, w2, b1, b2

MCWorkers  == {w1, w2}
MCBrowsers == {b1, b2}
===============================================================================
