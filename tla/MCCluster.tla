----------------------------- MODULE MCCluster -----------------------------
(***************************************************************************)
(* Cluster.tla on small instances.  Times are in clock ticks.              *)
(***************************************************************************)
EXTENDS ClusterFeed, TLC

CONSTANTS a1, a2, d1, e1, e2

Req(id, data, eps, ttl) == [id |-> id, data |-> data, endpoints |-> eps, ttl |-> ttl]

\* Two affiliates, each with endpoints, where a cluster has room for one
\* affiliate and that for one endpoint: an affiliate whose endpoint expires
\* before its data, and one whose request overruns the limit half way.
Crowded == {Req(a1, d1, <<>>, 2), Req(a1, NoData, <<e1>>, 1), Req(a2, NoData, <<e1, e1, e2>>, 1)}

\* A request that fails half way, with a TTL that passes, and one that succeeds,
\* with a TTL that is over when it is set: it shortens the affiliate's life.
Shortening == {Req(a1, d1, <<e1, e2>>, 1), Req(a1, d1, <<e1>>, 0 - 1)}

\* One affiliate, its data only.
DataOnly == {Req(a1, d1, <<>>, 1)}

HandlerSymmetry == Permutations(Handlers)
=============================================================================
