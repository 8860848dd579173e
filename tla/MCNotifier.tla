------------------------------ MODULE MCNotifier ------------------------------
(***************************************************************************)
(* Notifier for TLC.  The configurations give every constant its value:    *)
(* two providers of which the first may fail, so that a failure comes      *)
(* before a delivery, a threshold of two, and a counter that saturates     *)
(* above the threshold so that "reached" and "passed" differ.              *)
(***************************************************************************)
EXTENDS Notifier

\* The first provider of the list is the one that may fail.
FirstOnly == {1}
Everyone == 1..NumProviders
=============================================================================
