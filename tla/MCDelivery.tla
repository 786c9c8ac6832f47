----------------------------- MODULE MCDelivery -----------------------------
(* What a release delivers, side by side: a run whose targets the engine     *)
(* publishes, and the barrier that verifies what CI publishes.  A behaviour  *)
(* is about one of them; the other rests, and fairness is asked only of the  *)
(* one it is about.                                                          *)
EXTENDS MCReleaseCut, MCDelegatedVerify

VARIABLE about

deliveryVars == <<vars, verifyVars, about>>

DeliveryInit ==
  /\ about \in {"run", "barrier"}
  /\ Init /\ VerifyInit
  /\ about # "barrier" => (world.runs["cargo-dist"] = "none" /\ world.files = OneOwner)
  /\ about # "run" => remoteTag = NoCommit

DeliveryNext ==
  /\ about' = about
  /\ \/ about = "run" /\ Next /\ UNCHANGED verifyVars
     \/ about = "barrier" /\ VerifyNext /\ UNCHANGED vars

DeliverySpec ==
  /\ DeliveryInit /\ [][DeliveryNext]_deliveryVars
  /\ WF_verifyVars(about = "barrier" /\ BarrierStep)
=============================================================================
