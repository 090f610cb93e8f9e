---------------------------- MODULE MCAnswerLog -----------------------------
(* An instance of AnswerLog for TLC.                                       *)
EXTENDS AnswerLog

CONSTANTS u1, u2
=============================================================================
