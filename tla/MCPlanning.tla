----------------------------- MODULE MCPlanning -----------------------------
(* What is decided before a release runs, side by side: a contract is read,  *)
(* a plan derived, approved and cut, facts gathered, a bump sealed and       *)
(* applied.  A behaviour is about one of them; the others rest.              *)
EXTENDS MCContract, MCReleasePlan, MCBump

VARIABLE about

planningVars == <<contractVars, planVars, factsVars, bumpVars, about>>

PlanningInit ==
  /\ about \in {"contract", "plan", "facts", "bump"}
  /\ ContractInit /\ PlanInit /\ FactsInit /\ BumpInit

PlanningNext ==
  /\ about' = about
  /\ \/ about = "contract" /\ ContractNext /\ UNCHANGED <<planVars, factsVars, bumpVars>>
     \/ about = "plan" /\ PlanNext /\ UNCHANGED <<contractVars, factsVars, bumpVars>>
     \/ about = "facts" /\ FactsNext /\ UNCHANGED <<contractVars, planVars, bumpVars>>
     \/ about = "bump" /\ BumpNext /\ UNCHANGED <<contractVars, planVars, factsVars>>

PlanningSpec == PlanningInit /\ [][PlanningNext]_planningVars
=============================================================================
