---------------------------- MODULE MCAnswerStream ----------------------------
(* AnswerStream for TLC.                                                     *)
EXTENDS AnswerStream

=============================================================================
