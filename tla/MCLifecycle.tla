----------------------------- MODULE MCLifecycle -----------------------------
(***************************************************************************)
(* A small instance of Lifecycle for TLC: two directories, and a root file *)
(* that starts to include the other file, loads no more or does not        *)
(* validate, from one edit to the next.                                    *)
(***************************************************************************)
EXTENDS LifecycleProperties, TLC

CONSTANTS d1, d2

Edits == [root |-> 2, include |-> 2]
=============================================================================
