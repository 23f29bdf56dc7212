------------------------------ MODULE MCAlarms ------------------------------
(* An Ethernet UNI with a performance ME, and the ONU-G, whose administrative
   lock silences all three. *)
EXTENDS AlarmNotify

CONSTANTS uni, pm, onu

MCPMOrder == <<pm>>
MCArcOwner == pm :> uni
MCCodes == uni :> {0} @@ pm :> {0, 1} @@ onu :> {0}
MCOneCode == [k \in {uni, pm, onu} |-> {0}]
MCLocksOver == [k \in {uni, pm, onu} |-> {onu}]
=============================================================================
