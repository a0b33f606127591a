--------------------------- MODULE MCAlertManager ---------------------------
(* Small instances of AlertManager for TLC.                                *)
EXTENDS AlertManager

MCNodes == {"cam"}

\* Two labels that differ in case only, as two YOLO models may print them.
MCLabels == {"Fire", "fire", "person"}
MCClasses == {"fire", "person"}
MCLower == [l \in MCLabels |-> IF l = "person" THEN "person" ELSE "fire"]
\* Nothing, the same class under two labels, and a set that contains it.
MCResults == {{}, {"Fire"}, {"fire"}, {"fire", "person"}}

MCBothChannels == {"telegram", "webhook"}
MCNoChannel == {}
=============================================================================
