------------------------------ MODULE NodeClock ------------------------------
(***************************************************************************)
(* The clock of one node's process, as Date.now() gives it, in units of    *)
(* the model.  It never runs backwards and stops at the bound MaxClock.    *)
(***************************************************************************)
EXTENDS Naturals

CONSTANT MaxClock

VARIABLE clock

ClockInit == clock = 1

Advance == clock < MaxClock /\ clock' = clock + 1
=============================================================================
