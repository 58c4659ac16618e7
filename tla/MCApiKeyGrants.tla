---------------------------- MODULE MCApiKeyGrants ----------------------------
(* Instances of ApiKeyGrants.  The self-service grant is query-api, which  *)
(* is provisioned bare; llm-proxy ships at deny-all and implies llm-models. *)
EXTENDS ApiKeyGrants

CONSTANTS query, proxy, models

TwoRoutes == {query, proxy}
AllRoutes == {query, proxy, models}
MCImplied == [r \in Routes |-> IF r = proxy THEN {models} \cap Routes ELSE {}]
MCSelfGrants == {query}
NoneOrProxy == {{}, {proxy}}
JustAll == {{Master}}
AllOps == Ops
===============================================================================
