---------------------------- MODULE MCSQSConsumer ----------------------------
(***************************************************************************)
(* Instances of the SQS consumer for TLC.                                  *)
(***************************************************************************)
EXTENDS SQSConsumer

\* Two messages of one player; the second may be malformed.
OneGroup == [m \in Message |-> "player"]
=============================================================================
