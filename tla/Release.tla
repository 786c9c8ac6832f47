------------------------------ MODULE Release -------------------------------
(***************************************************************************)
(* What a release promises its consumers, without journal, processes or    *)
(* crashes: everything the engine publishes itself is out before the tag   *)
(* is, everything that is derived from the tag comes after it, and a       *)
(* completed release has all of it.  ReleaseCut implements this.           *)
(***************************************************************************)
CONSTANTS Engine,     \* targets published before the tag exists
          FromTag     \* targets derived from the pushed tag

VARIABLES status, out, tagged, advanced

vars == <<status, out, tagged, advanced>>

Init == /\ status = "in_progress"
        /\ out = {}
        /\ tagged = FALSE
        /\ advanced = FALSE

\* Engine-published content goes out only before the tag.
Land(t) == /\ status = "in_progress" /\ ~tagged
           /\ t \in Engine \ out
           /\ out' = out \cup {t}
           /\ UNCHANGED <<status, tagged, advanced>>

\* The tag is the point after which nothing engine-published is missing.
PushTag == /\ status = "in_progress" /\ ~tagged
           /\ Engine \subseteq out
           /\ tagged' = TRUE
           /\ UNCHANGED <<status, out, advanced>>

\* The coordinator or CI publishes from the tag; CI does not care whether the
\* run was abandoned meanwhile.
LandFromTag(t) == /\ tagged
                  /\ t \in FromTag \ out
                  /\ out' = out \cup {t}
                  /\ UNCHANGED <<status, tagged, advanced>>

\* The default branch follows only a release that is out everywhere.
AdvanceBranch == /\ status = "in_progress" /\ tagged
                 /\ Engine \cup FromTag \subseteq out
                 /\ advanced' = TRUE
                 /\ UNCHANGED <<status, out, tagged>>

Complete == /\ status = "in_progress" /\ tagged
            /\ Engine \cup FromTag \subseteq out
            /\ status' = "completed"
            /\ UNCHANGED <<out, tagged, advanced>>

Abandon == /\ status = "in_progress"
           /\ status' = "abandoned"
           /\ UNCHANGED <<out, tagged, advanced>>

Next == \/ \E t \in Engine : Land(t)
        \/ \E t \in FromTag : LandFromTag(t)
        \/ PushTag \/ AdvanceBranch \/ Complete \/ Abandon

Spec == Init /\ [][Next]_vars
=============================================================================
