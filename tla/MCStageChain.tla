---------------------------- MODULE MCStageChain ----------------------------
(***************************************************************************)
(* Instances of StageChain for TLC.                                        *)
(***************************************************************************)
EXTENDS StageChain

FullChain == <<"AUDIT", "DISCOVERY", "READ_CHECK">>
ShortChain == <<"DISCOVERY", "READ_CHECK">>
FewFindings == {{}, {"SITE_UNAVAILABLE", "SAFETY_VIOLATION"}}
=============================================================================
