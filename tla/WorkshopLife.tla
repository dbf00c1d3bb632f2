----------------------------- MODULE WorkshopLife -----------------------------
(***************************************************************************)
(* What the lab framework takes for granted of a workshop: a set-up, begun  *)
(* on a clean cluster, makes all of it; a teardown, begun on anything,      *)
(* makes the cluster clean again; and nothing but a call that is lost cuts  *)
(* either of them short.  What it should not take for granted: a teardown   *)
(* that swallowed a refusal may end like any other and leave the cluster    *)
(* soiled, and no set-up goes through on such a cluster.                    *)
(***************************************************************************)

VARIABLES
  state,  \* "clean", "building", "ready", "removing", "partial", "soiled" or "doomed"
  lost    \* a call of the set-up or the teardown under way was lost

vars == <<state, lost>>

Init == state = "building" /\ lost = FALSE

SetUp ==
  /\ \/ state = "clean" /\ state' = "building"
     \/ state = "soiled" /\ state' = "doomed"
  /\ lost' = FALSE

TearDown == state \in {"ready", "partial"} /\ state' = "removing" /\ lost' = FALSE

Finish ==
  /\ \/ state = "building" /\ state' = "ready"
     \/ state = "removing" /\ state' = "clean"
     \/ state = "removing" /\ lost /\ state' = "soiled"
  /\ UNCHANGED lost

\* A lost call ends the set-up or the teardown; the teardown may go on for a
\* while, and end later because of it.
CutShort ==
  state \in {"building", "doomed", "removing"} /\ state' = "partial" /\ lost' = TRUE

\* The set-up meets what the teardown left.
Refuse == state = "doomed" /\ state' = "partial" /\ UNCHANGED lost

Swallow == state = "removing" /\ state' = "removing" /\ lost' = TRUE

Next == SetUp \/ TearDown \/ Finish \/ CutShort \/ Refuse \/ Swallow

Spec == Init /\ [][Next]_vars
=============================================================================
