-------------------------- MODULE MCScheduleRunner --------------------------
(***************************************************************************)
(* Instances of ScheduleRunner for TLC: a day of a few minutes, a week of  *)
(* two days.                                                               *)
(***************************************************************************)
EXTENDS ScheduleRunner, TLC

\* Every day, one weekday, and switched off.
MCBodies == [on : {TRUE}, at : Minutes, days : {{}, {1}}]
            \cup [on : {FALSE}, at : {0}, days : {{}}]

\* Every day, no choice.
DailyBodies == [on : {TRUE}, at : Minutes, days : {{}}]

Symmetry == Permutations(Schedules)

=============================================================================
