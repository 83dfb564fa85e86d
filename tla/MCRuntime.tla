----------------------------- MODULE MCRuntime -----------------------------
(* Instances of Runtime for TLC. *)
EXTENDS Runtime

CONSTANTS evm, local, other, none, u1, u2, f1, r1, r2, r3, res, a1, a2, a3

\* Two anchor updates of one chain and resource, and the refresh of key 1.
MCChainOf == [p \in {u1, u2} |-> evm]
MCResourceOf == [p \in {u1, u2} |-> res]
MCRefresh == [k \in {1} |-> f1]
MCHandlerChainOf == [p \in {u1, u2, f1} |-> IF p = f1 THEN none ELSE evm]
MCLink == [p \in {u1, u2} |-> IF p = u1 THEN <<r1, r2>> ELSE <<r2, r3>>]
\* Votes without signatures; the whole way with one voter; root's submissions,
\* which fill a batch and let it expire.
MCCourses ==
  {[voters |-> {a1, a2, a3}, voted |-> {u1}, admin |-> TRUE, signing |-> FALSE,
    sets |-> ProposerSets, forced |-> {}],
   [voters |-> {a1}, voted |-> {u1, u2}, admin |-> FALSE, signing |-> TRUE,
    sets |-> {{a1}}, forced |-> {}],
   [voters |-> {a1}, voted |-> {u2}, admin |-> FALSE, signing |-> TRUE,
    sets |-> {{a1}}, forced |-> {u1}]}
MCAuthorities == <<1>>
=============================================================================
