--------------------------- MODULE MCTunnelGateway ---------------------------
EXTENDS TunnelGateway

CONSTANTS web, cam, other

\* No rules at all; rules for others only; one service, next to a rule for another endpoint;
\* rules that add up.
MCRuleSets ==
  LET rule(e, s) == [endpoint |-> e, service |-> s]
  IN  {{}, {rule(other, All)}, {rule(Me, cam), rule(other, web)},
       {rule(Me, cam), rule(Me, All)}}
=============================================================================
