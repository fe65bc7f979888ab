-------------------------- MODULE AffiliateProofs --------------------------
(***************************************************************************)
(* What the operators of Affiliate.tla return, for every table, request    *)
(* and clock reading: the facts that the proofs about Cluster.tla and      *)
(* State.tla rest on.                                                      *)
(***************************************************************************)
EXTENDS Affiliate, PositionProofs, FiniteSetTheorems, TLAPS

-----------------------------------------------------------------------------
(***************************************************************************)
(* The operators of Affiliate.tla return what they should.                 *)
(***************************************************************************)
\* Merging endpoints into an affiliate gives an affiliate.
LEMMA MergeTyped ==
  ASSUME NEW a, IsAffiliate(a), NEW eps \in Seq(Endpoints), NEW x \in Int
  PROVE  /\ IsAffiliate(MergeEndpoints(a, eps, x).affiliate)
         /\ MergeEndpoints(a, eps, x).full \in BOOLEAN
         /\ MergeEndpoints(a, eps, x).changed \in BOOLEAN
<1> DEFINE m == MergeEndpoints(a, eps, x)
           keys == DOMAIN a.endpoints \cup Walked(a, eps)
<1>1. Walked(a, eps) \subseteq Endpoints
  BY DEF Walked
<1>2. keys \subseteq Endpoints
  BY <1>1 DEF IsAffiliate
<1>3. m.affiliate.endpoints = [e \in keys |->
                            IF e \notin DOMAIN a.endpoints THEN x
                            ELSE IF e \in Walked(a, eps) THEN Later(a.endpoints[e], x)
                            ELSE a.endpoints[e]]
  BY DEF MergeEndpoints, IsAffiliate
<1>4. /\ DOMAIN m.affiliate.endpoints = keys
      /\ m.affiliate.endpoints \in [keys -> Int]
  BY <1>2, <1>3 DEF IsAffiliate, Later
<1>5. m.affiliate \in [data : Data \cup {NoData}, expiry : Int, endpoints : {m.affiliate.endpoints}]
  BY DEF MergeEndpoints, IsAffiliate, Later
<1>6. m.full \in BOOLEAN /\ m.changed \in BOOLEAN
  BY DEF MergeEndpoints
<1> QED
  BY <1>2, <1>4, <1>5, <1>6 DEF IsAffiliate

\* An update gives a table, and announces only affiliates that are in it.
LEMMA UpdateTyped ==
  ASSUME NEW affs, IsAffiliateTable(affs), NEW req \in UpdateRequest, NEW n \in Nat
  PROVE  LET res == updateAffiliateLocked(affs, req, n)
         IN /\ IsAffiliateTable(res.affiliates)
            /\ res.event \in BOOLEAN
            /\ res.event => req.id \in DOMAIN res.affiliates
            /\ res.error \in {"nil", "ErrTooManyAffiliates", "ErrTooManyEndpoints"}
<1> DEFINE res == updateAffiliateLocked(affs, req, n)
           x == n + req.ttl
           old == IF req.id \in DOMAIN affs THEN affs[req.id] ELSE NewAffiliate
           m == MergeEndpoints(withData(old, req, x), req.endpoints, x)
<1>1. x \in Int /\ req.endpoints \in Seq(Endpoints) /\ req.id \in AffiliateIDs
  BY DEF UpdateRequest
<1>2. IsAffiliate(NewAffiliate)
  BY DEF IsAffiliate, NewAffiliate, ZeroTime, EmptyMap
<1>3. IsAffiliate(old)
  BY <1>2 DEF IsAffiliateTable
<1>4. IsAffiliate(withData(old, req, x))
  <2> HIDE DEF old, x
  <2> QED BY <1>1, <1>3 DEF IsAffiliate, withData, UpdateRequest
<1>5. IsAffiliate(m.affiliate) /\ m.full \in BOOLEAN /\ m.changed \in BOOLEAN
  BY <1>1, <1>4, MergeTyped
<1> HIDE DEF m
<1>6. IsAffiliateTable(Put(affs, req.id, m.affiliate)) /\ req.id \in DOMAIN Put(affs, req.id, m.affiliate)
  BY <1>1, <1>5 DEF IsAffiliateTable, Put
<1>7. res = IF req.id \notin DOMAIN affs /\ Cardinality(DOMAIN affs) >= AffiliatesMax
            THEN [affiliates |-> affs, event |-> FALSE, error |-> "ErrTooManyAffiliates"]
            ELSE [affiliates |-> Put(affs, req.id, m.affiliate),
                  event |-> ~m.full /\ (req.data # NoData \/ m.changed),
                  error |-> IF m.full THEN "ErrTooManyEndpoints" ELSE "nil"]
  BY DEF updateAffiliateLocked, m
<1> HIDE DEF res
<1>8. CASE req.id \notin DOMAIN affs /\ Cardinality(DOMAIN affs) >= AffiliatesMax
  <2>1. res.affiliates = affs /\ res.event = FALSE /\ res.error = "ErrTooManyAffiliates"
    BY <1>7, <1>8
  <2> QED BY <2>1 DEF res
<1>9. CASE ~(req.id \notin DOMAIN affs /\ Cardinality(DOMAIN affs) >= AffiliatesMax)
  <2>1. /\ res.affiliates = Put(affs, req.id, m.affiliate)
        /\ res.event = (~m.full /\ (req.data # NoData \/ m.changed))
        /\ res.error = IF m.full THEN "ErrTooManyEndpoints" ELSE "nil"
    BY <1>7, <1>9
  <2>2. res.event \in BOOLEAN
    BY <2>1
  <2>3. res.error \in {"nil", "ErrTooManyAffiliates", "ErrTooManyEndpoints"}
    BY <2>1
  <2> QED BY <1>6, <2>1, <2>2, <2>3 DEF res
<1> QED
  BY <1>8, <1>9

\* Deleting and pruning give tables; pruning announces what is in the table.
LEMMA DeleteTyped ==
  ASSUME NEW affs, IsAffiliateTable(affs), NEW id
  PROVE  IsAffiliateTable(deleteAffiliateLocked(affs, id))
BY DEF IsAffiliateTable, deleteAffiliateLocked, Without

\* What pruneAffiliates leaves is a table, and what it reports as shrunk is in it.
LEMMA PruneTyped ==
  ASSUME NEW affs, IsAffiliateTable(affs), NEW n \in Nat
  PROVE  /\ IsAffiliateTable(pruneAffiliates(affs, n))
         /\ Expired(affs, n) \subseteq AffiliateIDs
         /\ Shrunk(affs, n) \subseteq DOMAIN pruneAffiliates(affs, n)
<1> DEFINE kept == pruneAffiliates(affs, n)
<1>1. /\ DOMAIN kept = DOMAIN affs \ Expired(affs, n)
      /\ DOMAIN kept \subseteq AffiliateIDs
      /\ Expired(affs, n) \subseteq AffiliateIDs
      /\ Shrunk(affs, n) \subseteq DOMAIN kept
  BY DEF pruneAffiliates, IsAffiliateTable, Expired, Shrunk
<1>2. ASSUME NEW id \in DOMAIN kept PROVE IsAffiliate(kept[id])
  <2>1. IsAffiliate(affs[id])
    BY <1>1 DEF IsAffiliateTable
  <2>2. kept[id] = [affs[id] EXCEPT !.endpoints = liveEndpoints(affs[id], n)]
    BY <1>1 DEF pruneAffiliates
  <2>3. /\ DOMAIN liveEndpoints(affs[id], n) \subseteq Endpoints
        /\ liveEndpoints(affs[id], n) \in [DOMAIN liveEndpoints(affs[id], n) -> Int]
    BY <2>1 DEF liveEndpoints, Without, IsAffiliate
  <2> QED BY <2>1, <2>2, <2>3 DEF IsAffiliate
<1>3. kept = [id \in DOMAIN kept |-> kept[id]]
  BY DEF pruneAffiliates
<1> QED BY <1>1, <1>2, <1>3 DEF IsAffiliateTable

-----------------------------------------------------------------------------
(***************************************************************************)
(* The limits.                                                             *)
(***************************************************************************)
\* A prefix of a request names finitely many endpoints.
LEMMA RequestedFinite ==
  ASSUME NEW eps \in Seq(Endpoints), NEW n \in 1..Len(eps)
  PROVE  IsFiniteSet(Requested(eps, n))
<1> DEFINE f == [i \in 1..n |-> eps[i]]
<1>1. f \in Surjection(1..n, Requested(eps, n))
  BY DEF Surjection, Requested
<1>2. IsFiniteSet(1..n)
  BY FS_Interval
<1> QED BY <1>1, <1>2, FS_Surjection

AtMost(S, max) == IsFiniteSet(S) /\ Cardinality(S) <= max

\* Removing entries cannot exceed a limit.
LEMMA SubsetAtMost ==
  ASSUME NEW S, NEW max \in Nat, AtMost(S, max), NEW T \in SUBSET S
  PROVE  AtMost(T, max)
<1>1. IsFiniteSet(T) /\ Cardinality(T) <= Cardinality(S)
  BY FS_Subset DEF AtMost
<1>2. Cardinality(T) \in Nat /\ Cardinality(S) \in Nat
  BY <1>1, FS_CardinalityType DEF AtMost
<1> QED BY <1>1, <1>2 DEF AtMost

\* MergeEndpoints stops at the first endpoint too many: what it walked past is
\* within a prefix that fits.
LEMMA MergeWithin ==
  ASSUME NEW a, IsAffiliate(a), NEW eps \in Seq(Endpoints), NEW x \in Int,
         AtMost(DOMAIN a.endpoints, AffiliateEndpointsMax)
  PROVE  AtMost(DOMAIN MergeEndpoints(a, eps, x).affiliate.endpoints, AffiliateEndpointsMax)
<1> DEFINE D == DOMAIN a.endpoints
           F == {n \in 1..Len(eps) : Fits(a, eps, n)}
           keys == D \cup Walked(a, eps)
<1>1. DOMAIN MergeEndpoints(a, eps, x).affiliate.endpoints = keys
  BY DEF MergeEndpoints, IsAffiliate
<1>2. AffiliateEndpointsMax \in Nat
  BY AffiliateAssumption
<1>3. CASE F = {}
  <2>1. keys = D
    BY <1>3 DEF Walked
  <2> QED BY <1>1, <2>1
<1>4. CASE F # {}
  <2>1. PICK m \in F : \A n \in F : n <= m
    <3>1. Len(eps) \in Nat /\ F \in SUBSET (1..Len(eps))
      OBVIOUS
    <3> HIDE DEF F
    <3> QED BY <1>4, <3>1, LastPosition
  <2>2. Walked(a, eps) \subseteq Requested(eps, m)
    BY <2>1 DEF Walked, Requested
  <2>3. CASE Requested(eps, m) \subseteq D
    <3>1. keys = D
      BY <2>2, <2>3
    <3> QED BY <1>1, <3>1
  <2>4. CASE ~(Requested(eps, m) \subseteq D)
    <3>1. Cardinality(D \cup Requested(eps, m)) <= AffiliateEndpointsMax
      BY <2>1, <2>4 DEF Fits
    <3>2. IsFiniteSet(D) /\ IsFiniteSet(Requested(eps, m))
      BY <2>1, RequestedFinite DEF AtMost
    <3>3. AtMost(D \cup Requested(eps, m), AffiliateEndpointsMax)
      BY <3>1, <3>2, FS_Union DEF AtMost
    <3>4. keys \in SUBSET (D \cup Requested(eps, m))
      BY <2>2
    <3> QED BY <1>1, <1>2, <3>3, <3>4, SubsetAtMost
  <2> QED BY <2>3, <2>4
<1> QED BY <1>3, <1>4

\* A table within both limits.
TableWithin(affs) ==
  /\ AtMost(DOMAIN affs, AffiliatesMax)
  /\ \A id \in DOMAIN affs : AtMost(DOMAIN affs[id].endpoints, AffiliateEndpointsMax)

\* An update leaves it within them, also when it fails half way.
LEMMA UpdateWithin ==
  ASSUME NEW affs, IsAffiliateTable(affs), TableWithin(affs), NEW req \in UpdateRequest, NEW n \in Nat
  PROVE  TableWithin(updateAffiliateLocked(affs, req, n).affiliates)
<1> DEFINE res == updateAffiliateLocked(affs, req, n)
           x == n + req.ttl
           old == IF req.id \in DOMAIN affs THEN affs[req.id] ELSE NewAffiliate
           b == withData(old, req, x)
           m == MergeEndpoints(b, req.endpoints, x)
<1>1. x \in Int /\ req.endpoints \in Seq(Endpoints) /\ req.id \in AffiliateIDs
  BY DEF UpdateRequest
<1>2. IsAffiliate(old) /\ AtMost(DOMAIN old.endpoints, AffiliateEndpointsMax)
  <2>1. IsAffiliate(NewAffiliate)
    BY DEF IsAffiliate, NewAffiliate, ZeroTime, EmptyMap
  <2>2. DOMAIN NewAffiliate.endpoints = {}
    BY DEF NewAffiliate, EmptyMap
  <2>3. AtMost({}, AffiliateEndpointsMax)
    BY FS_EmptySet, AffiliateAssumption DEF AtMost
  <2> QED BY <2>1, <2>2, <2>3 DEF IsAffiliateTable, TableWithin
<1>3. IsAffiliate(b) /\ b.endpoints = old.endpoints
  <2> HIDE DEF old, x
  <2> QED BY <1>1, <1>2 DEF IsAffiliate, withData, UpdateRequest
<1>4. AtMost(DOMAIN m.affiliate.endpoints, AffiliateEndpointsMax)
  <2> HIDE DEF b, x
  <2> QED BY <1>1, <1>2, <1>3, MergeWithin
<1> HIDE DEF m
<1>5. CASE req.id \notin DOMAIN affs /\ Cardinality(DOMAIN affs) >= AffiliatesMax
  BY <1>5 DEF updateAffiliateLocked
<1>6. CASE ~(req.id \notin DOMAIN affs /\ Cardinality(DOMAIN affs) >= AffiliatesMax)
  <2>1. res.affiliates = Put(affs, req.id, m.affiliate)
    BY <1>6 DEF updateAffiliateLocked, m
  <2>2. DOMAIN res.affiliates = DOMAIN affs \cup {req.id}
    BY <2>1 DEF Put
  <2>3. AtMost(DOMAIN affs \cup {req.id}, AffiliatesMax)
    <3>1. IsFiniteSet(DOMAIN affs) /\ Cardinality(DOMAIN affs) \in Nat /\ Cardinality(DOMAIN affs) <= AffiliatesMax
      BY FS_CardinalityType DEF TableWithin, AtMost
    <3>2. /\ IsFiniteSet(DOMAIN affs \cup {req.id})
          /\ Cardinality(DOMAIN affs \cup {req.id}) =
               IF req.id \in DOMAIN affs THEN Cardinality(DOMAIN affs) ELSE Cardinality(DOMAIN affs) + 1
      BY <3>1, FS_AddElement
    <3>3. AffiliatesMax \in Nat
      BY AffiliateAssumption
    <3> QED BY <1>6, <3>1, <3>2, <3>3 DEF AtMost
  <2>4. \A id \in DOMAIN affs \cup {req.id} : AtMost(DOMAIN res.affiliates[id].endpoints, AffiliateEndpointsMax)
    BY <1>4, <2>1 DEF TableWithin, Put
  <2> QED BY <2>2, <2>3, <2>4 DEF TableWithin
<1> QED BY <1>5, <1>6

\* Deleting and pruning only take away.
LEMMA DeleteWithin ==
  ASSUME NEW affs, TableWithin(affs), NEW id
  PROVE  TableWithin(deleteAffiliateLocked(affs, id))
<1>1. /\ DOMAIN deleteAffiliateLocked(affs, id) \in SUBSET DOMAIN affs
      /\ \A i \in DOMAIN deleteAffiliateLocked(affs, id) : deleteAffiliateLocked(affs, id)[i] = affs[i]
  BY DEF deleteAffiliateLocked, Without
<1>2. AtMost(DOMAIN deleteAffiliateLocked(affs, id), AffiliatesMax)
  BY <1>1, SubsetAtMost, AffiliateAssumption DEF TableWithin
<1> QED BY <1>1, <1>2 DEF TableWithin

\* pruneAffiliates only removes, so both limits survive it.
LEMMA PruneWithin ==
  ASSUME NEW affs, IsAffiliateTable(affs), TableWithin(affs), NEW n \in Nat
  PROVE  TableWithin(pruneAffiliates(affs, n))
<1> DEFINE kept == pruneAffiliates(affs, n)
<1>1. DOMAIN kept \in SUBSET DOMAIN affs
  BY DEF pruneAffiliates
<1>2. AtMost(DOMAIN kept, AffiliatesMax)
  BY <1>1, SubsetAtMost, AffiliateAssumption DEF TableWithin
<1>3. ASSUME NEW id \in DOMAIN kept PROVE AtMost(DOMAIN kept[id].endpoints, AffiliateEndpointsMax)
  <2>1. IsAffiliate(affs[id]) /\ AtMost(DOMAIN affs[id].endpoints, AffiliateEndpointsMax)
    BY <1>1 DEF IsAffiliateTable, TableWithin
  <2>2. kept[id].endpoints = liveEndpoints(affs[id], n)
    BY <2>1 DEF pruneAffiliates, IsAffiliate
  <2>3. DOMAIN kept[id].endpoints \in SUBSET DOMAIN affs[id].endpoints
    BY <2>2 DEF liveEndpoints, Without
  <2> QED BY <2>1, <2>3, SubsetAtMost, AffiliateAssumption
<1> QED BY <1>2, <1>3 DEF TableWithin

=============================================================================
