---------------------------- MODULE MCSchedules ----------------------------
\* One schedule, two checks that may overlap, one call at a time.
EXTENDS Schedules, TLC

\* With a gate and a task for every run, and with neither.
MCDef == {[gated |-> b, mints |-> b] : b \in BOOLEAN}
=============================================================================
