---------------------------- MODULE MCAlertNode -----------------------------
(* Small instances of AlertNode for TLC.                                   *)
EXTENDS AlertNode

MCOneNode == {"cam"}
MCTwoNodes == {"cam", "door"}

MCLabels == {"fire", "person"}
MCClasses == {"fire", "person"}
MCLower == [l \in MCLabels |-> l]

\* The COCO model finds nothing or a person, the fire model nothing or a fire.
MCCocoResults == {{}, {"person"}}
MCFireResults == {{}, {"fire"}}
MCFireOnly == {{"fire"}}
MCNothing == {{}}
MCPerson == {{"person"}}
MCResults == MCCocoResults \cup MCFireResults

MCTelegram == {"telegram"}
MCNoChannel == {}
=============================================================================
