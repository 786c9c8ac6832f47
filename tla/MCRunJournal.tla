---------------------------- MODULE MCRunJournal ----------------------------
(* RunJournal with a target's facts, a failed and retried barrier and both   *)
(* terminal events.                                                          *)
EXTENDS RunJournal

SomeEvents == { TargetPublished(1), PhaseCompleted(Dist, "failed"),
                PhaseCompleted(AdvanceBranch, "ok"), RunAbandoned }

Machine(line, power) == [line |-> line, powerFails |-> power]
WritesApart == {Machine("apart", FALSE)}
TearsLines == {Machine("torn", FALSE)}
LosesPower == {Machine("whole", TRUE)}
BothMachines == TearsLines \cup LosesPower
=============================================================================
