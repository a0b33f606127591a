------------------------------ MODULE MCPipeline -----------------------------
(* The motion node beside the services of MCServices, with which it shares  *)
(* nothing: in a behaviour of one of them the others stay in their initial  *)
(* state.                                                                   *)
EXTENDS MCServices, MCMotionDetector

\* The services stay in one initial state while the motion node runs.
ServicesRest ==
    /\ DetectionInit /\ TelemetryInit /\ AlertInit
    /\ env = Unset /\ \A s \in Services : place[s] = "one"
    /\ monitor = "ros" /\ counted

PipelineInit ==
    /\ Init
    /\ \/ MCInit /\ streaming
       \/ part = "motion" /\ ServicesRest

PipelineNext ==
    \/ MCNext /\ UNCHANGED vars
    \/ /\ part = "motion" /\ Next
       /\ UNCHANGED <<part, detectionVars, telemetryVars, alertVars>>

PipelineSpec ==
    /\ PipelineInit
    /\ [][PipelineNext]_<<part, detectionVars, telemetryVars, alertVars, vars>>
    /\ WF_telemetryVars(part = "telemetry" /\ Collect)
    /\ WF_telemetryVars(part = "telemetry" /\ Dashboard)
    /\ WF_alertVars(part = "alert" /\ SubscriberRound)
    /\ WF_alertVars(part = "alert" /\ Sending)
=============================================================================
