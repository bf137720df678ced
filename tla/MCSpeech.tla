------------------------------ MODULE MCSpeech ------------------------------
(* Speech with one playable turn.                                            *)
EXTENDS Speech

CONSTANTS t1

OneTurn == {t1}
=============================================================================
