----------------------------- MODULE Affiliate -----------------------------
(***************************************************************************)
(* The affiliate table of one cluster: what a Go map[string]*Affiliate     *)
(* holds and what the functions that run under affiliatesMu do to it.      *)
(* There is no state here; Cluster.tla (and every other module that owns   *)
(* such a table) applies these operators atomically, because the code      *)
(* calls them with the mutex held.                                         *)
(*                                                                         *)
(* Data kept: identities of affiliates, data blobs and endpoints, and all  *)
(* expiry times.  Data left out: the bytes, and the order of an            *)
(* affiliate's endpoints (Endpoints is a slice, but nothing depends on its *)
(* order and MergeEndpoints keeps its elements distinct).                  *)
(***************************************************************************)
EXTENDS Integers, Sequences, FiniteSets

CONSTANTS
  AffiliateIDs,           \* affiliate identities
  Data,                   \* non-empty data blobs
  NoData,                 \* the empty blob: len(data) = 0
  Endpoints,              \* endpoint blobs
  TTLMax,                 \* longest TTL validateTTL lets through
  AffiliatesMax,          \* limit on the affiliates of a cluster
  AffiliateEndpointsMax   \* limit on the endpoints of an affiliate

ASSUME AffiliateAssumption ==
  /\ NoData \notin Data
  /\ TTLMax \in Nat
  /\ AffiliatesMax \in Nat
  /\ AffiliateEndpointsMax \in Nat

-----------------------------------------------------------------------------
\* Times are integers.  The zero time.Time of a fresh Affiliate lies before
\* every clock reading of the models (their clocks start at 1).
ZeroTime == 0

PartialFunctions(S, T) == UNION {[D -> T] : D \in SUBSET S}

EmptyMap == [x \in {} |-> x]

\* A map with one entry stored, and a map with one entry deleted.
Put(f, k, v) == [x \in DOMAIN f \cup {k} |-> IF x = k THEN v ELSE f[x]]
Without(f, S) == [x \in DOMAIN f \ S |-> f[x]]

Later(s, t) == IF s < t THEN t ELSE s

IsAffiliate(a) ==
  /\ a \in [data : Data \cup {NoData}, expiry : Int, endpoints : {a.endpoints}]
  /\ DOMAIN a.endpoints \subseteq Endpoints
  /\ a.endpoints \in [DOMAIN a.endpoints -> Int]

IsAffiliateTable(affs) ==
  /\ DOMAIN affs \subseteq AffiliateIDs
  /\ affs = [id \in DOMAIN affs |-> affs[id]]
  /\ \A id \in DOMAIN affs : IsAffiliate(affs[id])

\* TTLs may be negative: validateTTL only refuses those above TTLMax.
UpdateRequest ==
  [id : AffiliateIDs, data : Data \cup {NoData}, endpoints : Seq(Endpoints),
   ttl : {d \in Int : d <= TTLMax}]

\* What watchers and List see of an affiliate: no expiries.
AffiliateInfo == [data : Data \cup {NoData}, endpoints : SUBSET Endpoints]

ToInfo(a) == [data |-> a.data, endpoints |-> DOMAIN a.endpoints]

listAffiliatesLocked(affs) == [id \in DOMAIN affs |-> ToInfo(affs[id])]

-----------------------------------------------------------------------------
(***************************************************************************)
(* MergeEndpoints walks the requested endpoints in order and gives up at   *)
(* the first new one that no longer fits, keeping what it merged so far.   *)
(* Fits(i): the walk gets past the i-th requested endpoint, because the    *)
(* first i of them add nothing new or leave the slice within the limit.    *)
(***************************************************************************)
Requested(eps, n) == {eps[i] : i \in 1..n}

\* Mutant: the limit is tested with > instead of >=.
FitsOneTooMany(a, eps, n) ==
  \/ Requested(eps, n) \subseteq DOMAIN a.endpoints
  \/ Cardinality(DOMAIN a.endpoints \cup Requested(eps, n)) <= AffiliateEndpointsMax + 1

Fits(a, eps, n) ==
  \/ Requested(eps, n) \subseteq DOMAIN a.endpoints
  \/ Cardinality(DOMAIN a.endpoints \cup Requested(eps, n)) <= AffiliateEndpointsMax

\* The requested endpoints the walk gets past.
Walked(a, eps) == {eps[i] : i \in {n \in 1..Len(eps) : Fits(a, eps, n)}}

MergeEndpoints(a, eps, expiry) ==
  LET walked == Walked(a, eps)
      full   == \E n \in 1..Len(eps) : ~Fits(a, eps, n)
  IN [affiliate |->
        [a EXCEPT
           !.expiry    = IF full THEN @ ELSE Later(@, expiry),
           !.endpoints = [e \in DOMAIN a.endpoints \cup walked |->
                            IF e \notin DOMAIN a.endpoints THEN expiry
                            ELSE IF e \in walked THEN Later(a.endpoints[e], expiry)
                            ELSE a.endpoints[e]]],
      changed |-> ~full /\ ~(walked \subseteq DOMAIN a.endpoints),
      full    |-> full]

(***************************************************************************)
(* updateAffiliateLocked: the new table, whether watchers are told, and    *)
(* the error.  A request that fails on its endpoints has already created   *)
(* the affiliate, replaced its data and added the endpoints that fitted.   *)
(***************************************************************************)
NewAffiliate == [data |-> NoData, expiry |-> ZeroTime, endpoints |-> EmptyMap]

withData(a, req, expiry) ==
  IF req.data = NoData THEN a ELSE [a EXCEPT !.expiry = expiry, !.data = req.data]

updateAffiliateLocked(affs, req, now) ==
  LET exists == req.id \in DOMAIN affs
      expiry == now + req.ttl
      merge  == MergeEndpoints(withData(IF exists THEN affs[req.id] ELSE NewAffiliate,
                                        req, expiry),
                               req.endpoints, expiry)
  IN IF ~exists /\ Cardinality(DOMAIN affs) >= AffiliatesMax
     THEN [affiliates |-> affs, event |-> FALSE, error |-> "ErrTooManyAffiliates"]
     ELSE [affiliates |-> Put(affs, req.id, merge.affiliate),
           event |-> ~merge.full /\ (req.data # NoData \/ merge.changed),
           error |-> IF merge.full THEN "ErrTooManyEndpoints" ELSE "nil"]

deleteAffiliateLocked(affs, id) == Without(affs, {id})

-----------------------------------------------------------------------------
(***************************************************************************)
(* pruneAffiliates, judged by a clock reading now taken before the lock.   *)
(***************************************************************************)
\* Mutants: an affiliate goes a tick early; one that expires now is kept.
ExpiredEarly(affs, now) == {id \in DOMAIN affs : ~(affs[id].expiry > now + 1)}
ExpiredLate(affs, now)  == {id \in DOMAIN affs : affs[id].expiry < now}

Expired(affs, now) == {id \in DOMAIN affs : ~(affs[id].expiry > now)}

liveEndpoints(a, now) == Without(a.endpoints, {e \in DOMAIN a.endpoints : ~(a.endpoints[e] > now)})

pruneAffiliates(affs, now) ==
  [id \in DOMAIN affs \ Expired(affs, now) |->
     [affs[id] EXCEPT !.endpoints = liveEndpoints(affs[id], now)]]

\* Mutant: lost endpoints are not announced.
ShrunkUnnoticed(affs, now) == {}

\* Affiliates that stay but lost an endpoint: they are announced as upserts.
Shrunk(affs, now) ==
  {id \in DOMAIN affs \ Expired(affs, now) :
     \E e \in DOMAIN affs[id].endpoints : ~(affs[id].endpoints[e] > now)}
=============================================================================
