----------------------------- MODULE MCCommands -----------------------------
(* What the commands leave on the operator's disk, side by side: the journal *)
(* of a run, the store of plans, the installed skill.  A behaviour is about  *)
(* one of them; the others rest.                                             *)
EXTENDS MCRunJournal, PlanStore, MCSkillInstall, TLC

VARIABLE about

commandsVars == <<journalVars, storeVars, skillVars, about>>

CommandsInit ==
  /\ about \in {"journal", "store", "skill"}
  /\ JournalInit /\ StoreInit /\ SkillInit
  /\ about # "journal" => machine \in LosesPower

CommandsNext ==
  /\ about' = about
  /\ \/ about = "journal" /\ JournalNext /\ UNCHANGED <<storeVars, skillVars>>
     \/ about = "store" /\ StoreNext /\ UNCHANGED <<journalVars, skillVars>>
     \/ about = "skill" /\ SkillNext /\ UNCHANGED <<journalVars, storeVars>>

\* Invocations of one command are alike.
CommandsSymmetry ==
  Permutations(Cuts) \cup Permutations(Installers)

CommandsSpec == CommandsInit /\ [][CommandsNext]_commandsVars
=============================================================================
