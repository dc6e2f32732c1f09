----------------------------- MODULE MCIptables -----------------------------
(***************************************************************************)
(* All combinations of no ports, all ports, and lists, among them one with *)
(* an empty item and one of nothing else, and exclusions.                  *)
(***************************************************************************)
EXTENDS Iptables

Included == {<< >>, <<"*">>, <<"80">>, <<"22", "", "8080">>, <<"", "">>}
Excluded == {<< >>, <<"8080", "80">>, <<"", "8080">>}

MCFlags ==
  [inbound : Included, inboundExclude : Excluded,
   outbound : Included, outboundExclude : Excluded]

MCPorts == {"22", "80", "8080", "443"}
=============================================================================
