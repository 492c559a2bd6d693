---------------------------- MODULE MCCopilotTokens ----------------------------
(* Instances of CopilotTokens for TLC.                                      *)
EXTENDS CopilotTokens

CONSTANTS k1, k2, f1

TwoCallers == {k1, k2}
OneCaller  == {k1}
OneFlow    == {f1}
NoFaults   == {}
CrashOnly  == {"crash"}

================================================================================
