--------------------------- MODULE MCPolicyProbe ---------------------------
(* Two requests for one key, which open it up to four times each. *)
EXTENDS PolicyProbe
=============================================================================
