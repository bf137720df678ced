---------------------------- MODULE MCCompletion ----------------------------
(* A source language, one localized output, and a few edits.               *)
EXTENDS Completion

CONSTANTS en, fr

OneLanguage == {fr}

=============================================================================
