------------------------------- MODULE MCFlap -------------------------------
(* One competitor URL whose rows all belong to one scrape cycle. *)
EXTENDS Alerts

VARIABLE sent   \* history: the alerts of each tracking that have been committed

Init == AlertInit /\ sent = [t \in Trackings |-> 0]

Next ==
    /\ AlertNext
    /\ sent' = [t \in Trackings |-> sent[t] + Cardinality({a \in active' \ active : a[1] = t})]

Spec == Init /\ [][Next]_<<alertVars, sent>>

\* signals/oos_detector.py:8-11: a new alert needs that no un-resolved one exists,
\* and this "handles the flap case (true->false->true->false within one scrape cycle:
\* only 1 alert sent)".
FlapAlertedOnce == \A t \in Trackings : sent[t] <= 1
=============================================================================
