------------------------------ MODULE MCRouter ------------------------------
(***************************************************************************)
(* LLMRouter over a local primary route and three kinds of cloud route: a  *)
(* metered one, one whose provider has its own budget gate, and a          *)
(* free-tier one.                                                          *)
(***************************************************************************)
EXTENDS Router

CONSTANTS local, metered, gated, free

MCPoliciesOf == [r \in Routes |->
                   IF r = local THEN {"local_only"} ELSE {"cloud_ok"}]

AllRequests == [kind: {"chat", "stream"}, cloudAllowed: BOOLEAN,
                policy: {"local_only", "cloud_ok", "unset"},
                eligible: BOOLEAN, force: BOOLEAN, tools: BOOLEAN]

\* The turns that may use every route.
PlainRequests == {q \in AllRequests : /\ q.cloudAllowed /\ q.eligible
                                      /\ q.policy = "cloud_ok"
                                      /\ ~q.force /\ ~q.tools}
=============================================================================
