------------------------------ MODULE MCState ------------------------------
(***************************************************************************)
(* State.tla on small instances.  Times are in clock ticks.                *)
(***************************************************************************)
EXTENDS State

CONSTANTS a1, a2, d1, e1, e2

Req(id, data, eps, ttl) == [id |-> id, data |-> data, endpoints |-> eps, ttl |-> ttl]

OneAffiliate == {Req(a1, d1, <<>>, 1)}

OneEndpoint == {Req(a1, d1, <<e1>>, 1)}
=============================================================================
