------------------------------ MODULE MCServices -----------------------------
(* The single-process services, small: the detection node, the monitors     *)
(* with the dashboard, and the alert service of .draft/.  They share        *)
(* nothing: each behaviour is one of one of them, the others stay in their  *)
(* initial state.                                                           *)
EXTENDS DetectionNode, Telemetry, DraftAlert

VARIABLE part

MCHosts == {"one", "two", "three"}
MCHostName == [h \in MCHosts |-> CASE h = "one" -> <<"a", "-", "b">>
                                   [] h = "two" -> <<"a", "_", "b">>
                                   [] h = "three" -> <<"1", "a">>]
MCClockError == [h \in MCHosts |-> IF h = "two" THEN -1 ELSE 0]
MCLegalChars == {"a", "b", "1", "_"}
MCDigits == {"1"}
MCTexts == {"0", "2", "high"}
MCFloatOf == [t \in MCTexts |-> CASE t = "0" -> 0 [] t = "2" -> 2 [] t = "high" -> -1]
MCCertainties == {0, 1}
MCMonitors == {"ros", "draft", "csv"}
MCClockSteps == {-2, -1, 1}

MCVerdicts == {{}, {"person"}}
MCChannels == {"webhook"}

MCInit ==
    /\ part \in {"detection", "telemetry", "alert"}
    /\ DetectionInit /\ TelemetryInit /\ AlertInit
    /\ part # "detection" => env = Unset /\ \A s \in Services : place[s] = "one"
    /\ part # "telemetry" => monitor = "ros" /\ counted

MCNext ==
    /\ UNCHANGED part
    /\ \/ part = "detection" /\ DetectionNext /\ UNCHANGED <<telemetryVars, alertVars>>
       \/ part = "telemetry" /\ TelemetryNext /\ UNCHANGED <<detectionVars, alertVars>>
       \/ part = "alert" /\ AlertNext /\ UNCHANGED <<detectionVars, telemetryVars>>

MCSpec ==
    /\ MCInit /\ [][MCNext]_<<part, detectionVars, telemetryVars, alertVars>>
    /\ WF_telemetryVars(part = "telemetry" /\ Collect)
    /\ WF_telemetryVars(part = "telemetry" /\ Dashboard)
    /\ WF_alertVars(part = "alert" /\ SubscriberRound)
    /\ WF_alertVars(part = "alert" /\ Sending)

\* Type correctness of the three services.
ServicesTypeOK == DetectionTypeOK /\ TelemetryTypeOK /\ AlertTypeOK
=============================================================================
