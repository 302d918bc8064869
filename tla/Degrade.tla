------------------------------ MODULE Degrade ------------------------------
(***************************************************************************)
(* The ladder of degradations the workflows share (workflows/degrade.ts):  *)
(* what a workflow does about the quota posture a fetch came back with,    *)
(* and which of several actions prevails.                                  *)
(***************************************************************************)
EXTENDS Naturals

Postures == {"normal", "soft_cap_reached", "hard_cap_reached"}
Actions == {"continue", "skip-non-essential", "cached-only", "circuit-open", "abort"}

(* handleQuotaPosture; cachedOnlyMode is set in every posture but normal,  *)
(* and a PROVIDER_OUTAGE fallback comes with such a snapshot only.         *)
QuotaAction(posture) ==
    CASE posture = "hard_cap_reached" -> "abort"
      [] posture = "soft_cap_reached" -> "cached-only"
      [] OTHER -> "continue"

Severity(action) ==
    CASE action = "abort" -> 4
      [] action = "circuit-open" -> 3
      [] action = "cached-only" -> 2
      [] action = "skip-non-essential" -> 1
      [] OTHER -> 0

(* mostRestrictive *)
MostRestrictive(actions) ==
    CHOOSE a \in actions : \A b \in actions : Severity(a) >= Severity(b)
=============================================================================
