-------------------------- MODULE MCNotificationLedger --------------------------
(***************************************************************************)
(* Instances of NotificationLedger for TLC. The intents to mail and to     *)
(* push are recorded by one handler, in one savepoint: one channel.        *)
(***************************************************************************)
EXTENDS NotificationLedger

MCChannels == {"inbox", "external"}
MCChanges  == {"amend", "settle", "retract"}
===============================================================================
