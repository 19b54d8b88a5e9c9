----------------------------- MODULE MCChallenge -----------------------------
(* Bounds for Challenge: two verifications of two challenges, one attempt or  *)
(* two, one solve per window, behaviours on both ends of the trust levels,    *)
(* an agent with a colon and an address that takes a piece of it for its own. *)
EXTENDS Challenge

MCIPs == {<<"a">>}
MCVisitors == {<<"a">>, <<"b">>, <<"a", "x">>}
MCAgents == {<<"y">>, <<"x", "y">>}
MCMovements == {{}, {"few", "speed"}}
MCBehaviours == {{}, {"early"}}
=============================================================================
