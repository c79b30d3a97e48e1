---------------------------- MODULE MCTenantNetwork ----------------------------
(* Two tenants, a flat network that they share, and three networks of one tenant   *)
(* that overlap each other.                                                        *)
EXTENDS TenantNetwork

MCLoadbalancers == {"a", "b", "c"}
MCNetworks == {"p", "q", "r", "s", "v"}
MCTenantOf == [lb \in MCLoadbalancers |-> IF lb = "c" THEN "u" ELSE "t"]
MCNetworksOf == [lb \in MCLoadbalancers |->
    CASE lb = "a" -> {{"p", "s"}}
      [] lb = "b" -> {{"p"}, {"q", "r"}}
      [] lb = "c" -> {{"s", "v"}}]
MCOwner == [n \in MCNetworks |-> CASE n = "s" -> "common" [] n = "v" -> "u" [] OTHER -> "t"]
MCOverlapping == {{"p", "q"}, {"p", "r"}, {"q", "r"}}
=============================================================================
