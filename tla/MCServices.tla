----------------------------- MODULE MCServices -----------------------------
(* Out-of-stock alerts, retention and repricing of the API, and the scenarios  *)
(* of a browser and the FBA calculator, in one run. They share no state, so    *)
(* each takes its steps while the others are at their start.                   *)
EXTENDS Alerts, Retention, Repricing, Scenarios, FbaFees, TLC

Init == AlertInit /\ RetentionInit /\ RepricingInit /\ ScenarioInit /\ FormInit

AlertPart ==
    /\ RetentionInit /\ RepricingInit /\ ScenarioInit /\ FormInit
    /\ AlertNext /\ UNCHANGED <<retentionVars, repricingVars, scenarioVars, form>>
RetentionPart ==
    /\ AlertInit /\ RepricingInit /\ ScenarioInit /\ FormInit
    /\ RetentionNext /\ UNCHANGED <<alertVars, repricingVars, scenarioVars, form>>
RepricingPart ==
    /\ AlertInit /\ RetentionInit /\ ScenarioInit /\ FormInit
    /\ RepricingNext /\ UNCHANGED <<alertVars, retentionVars, scenarioVars, form>>
ScenarioPart ==
    /\ AlertInit /\ RetentionInit /\ RepricingInit /\ FormInit
    /\ ScenarioNext /\ UNCHANGED <<alertVars, retentionVars, repricingVars, form>>
FormPart ==
    /\ AlertInit /\ RetentionInit /\ RepricingInit /\ ScenarioInit
    /\ FormNext /\ UNCHANGED <<alertVars, retentionVars, repricingVars, scenarioVars>>

Next == AlertPart \/ RetentionPart \/ RepricingPart \/ ScenarioPart \/ FormPart

Spec == Init /\ [][Next]_<<alertVars, retentionVars, repricingVars, scenarioVars, form>>

(* Trackings, merchants and tools are the same model values, and so are ingests, *)
(* snapshots and tabs: no part tells its own apart.                              *)
Symmetry == Permutations(Trackings) \cup Permutations(Ingests)

(* Every variable of the five has its type. *)
ServicesTypeOK ==
    AlertTypeOK /\ RetentionTypeOK /\ RepricingTypeOK /\ ScenarioTypeOK /\ FormTypeOK
=============================================================================
