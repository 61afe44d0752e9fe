--------------------------- MODULE MCKeycloakProbe ---------------------------
(***************************************************************************)
(* One run takes any of the flows, the other one ends the session of both, *)
(* by a logout or by a revocation.                                         *)
(***************************************************************************)
EXTENDS KeycloakProbe

CONSTANTS l1, l2

MCFlowChoices == {f \in [{l1, l2} -> Flows] : f[l2] \in {"logout", "revoke"}}
=============================================================================
