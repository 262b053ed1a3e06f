---------------------------- MODULE MCReminders ----------------------------
EXTENDS Reminders, TLC
\* A task's slots have notifications of their own; a project's share one.
Clocks == [task |-> 1, project |-> 2]
ReminderSymmetry == Permutations(Scanners) \cup Permutations(Workers)
=============================================================================
