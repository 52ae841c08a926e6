----------------------------- MODULE MCLeadFanout ----------------------------
(* Two requests and two configurations; a lead has no mapping, one, or   *)
(* both in either order.                                                   *)
EXTENDS LeadFanout

CONSTANTS c1, c2

MCConfigs  == {c1, c2}
MCMappings == {<<>>, <<c1>>, <<c1, c2>>, <<c2, c1>>}
=============================================================================
