------------------------------- MODULE State -------------------------------
(***************************************************************************)
(* The registry of clusters (internal/state/state.go), the RPCs that go    *)
(* through it, the Cleanup sweep that drops unused clusters, snapshots     *)
(* (snapshot.go) and restarts.                                             *)
(*                                                                         *)
(* An RPC first gets a pointer to a Cluster object from the registry and   *)
(* works on that object later; Cleanup checks an object and deletes its    *)
(* registry entry in separate steps.  So objects have identities here: the *)
(* numbers 1..MaxObjects, handed out in order by NewCluster.  What happens *)
(* inside an object is Cluster.tla; here an update, delete or prune is its *)
(* section under affiliatesMu, and fan-out is left out.                    *)
(***************************************************************************)
EXTENDS Affiliate

CONSTANTS
  ClusterIDs,      \* cluster identities
  Nil,             \* nothing
  Handlers,        \* RPC goroutines; each serves one RPC
  UpdateRequests,  \* the update requests clients send
  DeleteRequests,  \* the affiliates clients delete
  WatchRequests,   \* the clusters clients watch
  ClusterTTL,      \* how long an unused cluster is kept
  MaxNow,          \* bound on the clock
  MaxObjects,      \* bound on the Cluster objects of one process
  MaxRestarts      \* bound on the restarts of the process

ASSUME StateAssumption ==
  /\ UpdateRequests \subseteq UpdateRequest
  /\ DeleteRequests \subseteq AffiliateIDs
  /\ WatchRequests \subseteq ClusterIDs
  /\ ClusterTTL \in Nat
  /\ MaxNow \in Nat
  /\ MaxObjects \in Nat
  /\ MaxRestarts \in Nat

Objects == 1..MaxObjects
NoObject == 0

VARIABLES
  now,       \* the clock
  clusters,  \* State.clusters: cluster id -> object
  created,   \* number of objects created by this process
  table,     \* per object: its affiliates
  expiry,    \* per object: its expiry
  subs,      \* per object: the streams subscribed to it
  pc,        \* where each handler is
  obj,       \* per handler: the object it got from the registry
  call,      \* per handler: the update request, or the affiliate to delete
  cpc,       \* where Cleanup is
  ctodo,     \* clusters Cleanup has still to visit
  ccur,      \* the cluster it is visiting
  spc,       \* where SaveSnapshot is
  stodo,     \* clusters SaveSnapshot has still to visit
  sobj,      \* the object it is about to copy, and the cluster it is for
  snap,      \* what it has copied so far
  file,      \* the snapshot file
  restarts,  \* number of restarts
  late,      \* history: objects used after Cleanup, visiting them last, had judged them
  steady,    \* history: affiliates unchanged since SaveSnapshot began
  saved      \* history: those of the last file written, unchanged ever since

memory  == <<clusters, created, table, expiry, subs>>
rpcs    == <<pc, obj, call>>
cleanup == <<cpc, ctodo, ccur>>
saver   == <<spc, stodo, sobj, snap>>
history == <<steady, saved>>
vars == <<now, memory, rpcs, cleanup, saver, file, restarts, late, history>>

-----------------------------------------------------------------------------
\* Affiliates on record: the cluster and the affiliate, and what is stored.
OnRecord == {p \in ClusterIDs \X AffiliateIDs :
               p[1] \in DOMAIN clusters /\ p[2] \in DOMAIN table[clusters[p[1]]]}

Stored(p) == table[clusters[p[1]]][p[2]]

\* History: a change of the table takes what it changes out of both sets.
Untouched(S) == {p \in S : p \in OnRecord' /\ Stored(p)' = Stored(p)}
KeepSteady == steady' = Untouched(steady) /\ saved' = Untouched(saved)

\* The object Cleanup is visiting, and its objects in the registry.
Visited == IF ccur \in DOMAIN clusters THEN clusters[ccur] ELSE NoObject
Registered == {clusters[c] : c \in DOMAIN clusters}
Orphans == (1..created) \ Registered

MemoryTyped ==
  /\ now \in Nat
  /\ DOMAIN clusters \subseteq ClusterIDs
  /\ clusters \in [DOMAIN clusters -> 1..created]
  /\ created \in 0..MaxObjects
  /\ DOMAIN table = Objects
  /\ \A o \in Objects : IsAffiliateTable(table[o])
  /\ expiry \in [Objects -> Nat]
  /\ subs \in [Objects -> SUBSET Handlers]

RpcsTyped ==
  /\ pc \in [Handlers -> {"idle", "update", "delete", "prolong", "subscribe", "watching",
                          "unsubscribed", "done"}]
  /\ obj \in [Handlers -> 0..created]
  /\ DOMAIN call = Handlers

CleanupTyped ==
  /\ cpc \in {"idle", "visit", "expired", "affiliates", "subscribers", "delete"}
  /\ ctodo \subseteq ClusterIDs
  /\ cpc \notin {"idle", "visit"} => ccur \in DOMAIN clusters

SaverTyped ==
  /\ spc \in {"idle", "visit", "copy", "write"}
  /\ stodo \subseteq ClusterIDs
  /\ spc = "copy" => sobj[1] \in ClusterIDs /\ sobj[2] \in 1..created
  /\ DOMAIN snap \subseteq ClusterIDs
  /\ \A c \in DOMAIN snap : IsAffiliateTable(snap[c])
  /\ DOMAIN file \subseteq ClusterIDs
  /\ \A c \in DOMAIN file : IsAffiliateTable(file[c])
  /\ restarts \in 0..MaxRestarts

HistoryTyped ==
  /\ late \subseteq 1..created
  /\ steady \subseteq ClusterIDs \X AffiliateIDs
  /\ saved \subseteq ClusterIDs \X AffiliateIDs

TypeOK == MemoryTyped /\ RpcsTyped /\ CleanupTyped /\ SaverTyped /\ HistoryTyped

Init ==
  /\ now = ZeroTime + 1
  /\ clusters = EmptyMap
  /\ created = 0
  /\ table = [o \in Objects |-> EmptyMap]
  /\ expiry = [o \in Objects |-> 0]
  /\ subs = [o \in Objects |-> {}]
  /\ pc = [h \in Handlers |-> "idle"]
  /\ obj = [h \in Handlers |-> NoObject]
  /\ call = [h \in Handlers |-> Nil]
  /\ cpc = "idle" /\ ctodo = {} /\ ccur = Nil
  /\ spc = "idle" /\ stodo = {} /\ sobj = Nil /\ snap = EmptyMap
  /\ file = EmptyMap
  /\ restarts = 0
  /\ late = {} /\ steady = {} /\ saved = {}

-----------------------------------------------------------------------------
(***************************************************************************)
(* RPCs: first the registry, then the object.                              *)
(***************************************************************************)
\* Mutant: the id is stored before there is an object for it.
ClusterForTooEarly(h, c) ==
  \/ /\ c \in DOMAIN clusters
     /\ obj' = [obj EXCEPT ![h] = clusters[c]]
     /\ UNCHANGED <<clusters, created, expiry>>
  \/ /\ c \notin DOMAIN clusters
     /\ created < MaxObjects
     /\ clusters' = Put(clusters, c, created + 1)
     /\ obj' = [obj EXCEPT ![h] = created + 1]
     /\ UNCHANGED <<created, expiry>>

\* State.ClusterFor: load the cluster, or store a new one, in one atomic step.
ClusterFor(h, c) ==
  \/ /\ c \in DOMAIN clusters
     /\ obj' = [obj EXCEPT ![h] = clusters[c]]
     /\ UNCHANGED <<clusters, created, expiry>>
  \/ /\ c \notin DOMAIN clusters
     /\ created < MaxObjects
     /\ created' = created + 1
     /\ clusters' = Put(clusters, c, created')
     /\ expiry' = [expiry EXCEPT ![created'] = now + ClusterTTL]
     /\ obj' = [obj EXCEPT ![h] = created']

\* clusterServer.AffiliateUpdate, up to the pointer.
UpdateLoad(h, c, req) ==
  /\ pc[h] = "idle"
  /\ ClusterFor(h, c)
  /\ call' = [call EXCEPT ![h] = req]
  /\ pc' = [pc EXCEPT ![h] = "update"]
  /\ UNCHANGED <<now, table, subs, cleanup, saver, file, restarts, late>>
  /\ KeepSteady

\* An object is used too late once Cleanup has looked at that part of it.
UsedLate(o, checked) ==
  late' = IF o \in Orphans \/ (o = Visited /\ cpc \in checked) THEN late \cup {o} ELSE late

UpdateCommit(h) ==
  LET o == obj[h]
  IN /\ pc[h] = "update"
     /\ table' = [table EXCEPT ![o] = updateAffiliateLocked(@, call[h], now).affiliates]
     /\ pc' = [pc EXCEPT ![h] = "done"]
     /\ UsedLate(o, {"subscribers", "delete"})
     /\ UNCHANGED <<now, clusters, created, expiry, subs, obj, call, cleanup, saver, file, restarts>>
     /\ KeepSteady

\* clusterServer.AffiliateDelete; an unknown cluster is no error.
DeleteLoad(h, c, id) ==
  /\ pc[h] = "idle"
  /\ \/ /\ c \in DOMAIN clusters
        /\ obj' = [obj EXCEPT ![h] = clusters[c]]
        /\ call' = [call EXCEPT ![h] = id]
        /\ pc' = [pc EXCEPT ![h] = "delete"]
     \/ /\ c \notin DOMAIN clusters
        /\ pc' = [pc EXCEPT ![h] = "done"]
        /\ UNCHANGED <<obj, call>>
  /\ UNCHANGED <<now, memory, cleanup, saver, file, restarts, late, history>>

DeleteCommit(h) ==
  LET o == obj[h]
  IN /\ pc[h] = "delete"
     /\ table' = [table EXCEPT ![o] = deleteAffiliateLocked(@, call[h])]
     /\ pc' = [pc EXCEPT ![h] = IF call[h] \in DOMAIN table[o] THEN "prolong" ELSE "done"]
     /\ UNCHANGED <<now, clusters, created, expiry, subs, obj, call, cleanup, saver, file, restarts, late>>
     /\ KeepSteady

\* prolongExpiry, after a delete and after a subscription was closed.
Prolong(h) ==
  /\ pc[h] \in {"prolong", "unsubscribed"}
  /\ expiry' = [expiry EXCEPT ![obj[h]] = now + ClusterTTL]
  /\ pc' = [pc EXCEPT ![h] = "done"]
  /\ UNCHANGED <<now, clusters, created, table, subs, obj, call, cleanup, saver, file, restarts, late, history>>

\* clusterServer.Watch: pointer, subscription, and its end.
WatchLoad(h, c) ==
  /\ pc[h] = "idle"
  /\ ClusterFor(h, c)
  /\ pc' = [pc EXCEPT ![h] = "subscribe"]
  /\ UNCHANGED <<now, table, subs, call, cleanup, saver, file, restarts, late>>
  /\ KeepSteady

Subscribe(h) ==
  LET o == obj[h]
  IN /\ pc[h] = "subscribe"
     /\ subs' = [subs EXCEPT ![o] = @ \cup {h}]
     /\ pc' = [pc EXCEPT ![h] = "watching"]
     /\ UsedLate(o, {"delete"})
     /\ UNCHANGED <<now, clusters, created, table, expiry, obj, call, cleanup, saver, file, restarts, history>>

Unsubscribe(h) ==
  LET o == obj[h]
  IN /\ pc[h] = "watching"
     /\ subs' = [subs EXCEPT ![o] = @ \ {h}]
     /\ pc' = [pc EXCEPT ![h] = "unsubscribed"]
     /\ UNCHANGED <<now, clusters, created, table, expiry, obj, call, cleanup, saver, file, restarts, late, history>>

-----------------------------------------------------------------------------
(***************************************************************************)
(* State.Cleanup: for every entry Prune, IsExpired, IsEmpty (which looks   *)
(* at the affiliates and at the subscribers under two different locks),    *)
(* and then the deletion of the entry, with nothing held in between.       *)
(* Range may miss entries stored after it began; they wait for the next    *)
(* sweep here.  SaveSnapshot's Range may come to them.                     *)
(***************************************************************************)
CleanupBegin ==
  /\ cpc = "idle"
  /\ ctodo' = DOMAIN clusters
  /\ cpc' = "visit"
  /\ UNCHANGED <<now, memory, rpcs, ccur, saver, file, restarts, late, history>>

\* What was used too late for an earlier visit counts anew in this one.
CleanupPrune(c) ==
  /\ cpc = "visit"
  /\ c \in ctodo
  /\ ctodo' = ctodo \ {c}
  /\ ccur' = c
  /\ table' = [table EXCEPT ![clusters[c]] = pruneAffiliates(@, now)]
  /\ cpc' = "expired"
  /\ late' = late \ {clusters[c]}
  /\ UNCHANGED <<now, clusters, created, expiry, subs, rpcs, saver, file, restarts>>
  /\ KeepSteady

IsExpired(o) == now > expiry[o]

CleanupCheck(from, unused, to) ==
  /\ cpc = from
  /\ cpc' = IF unused THEN to ELSE "visit"
  /\ UNCHANGED <<now, memory, rpcs, ctodo, ccur, saver, file, restarts, late, history>>

CheckExpired     == CleanupCheck("expired", IsExpired(Visited), "affiliates")
CheckAffiliates  == CleanupCheck("affiliates", DOMAIN table[Visited] = {}, "subscribers")

\* Mutant: IsEmpty forgets the subscribers.
CheckNoSubscribers == CleanupCheck("subscribers", TRUE, "delete")

CheckSubscribers == CleanupCheck("subscribers", subs[Visited] = {}, "delete")

\* Mutant: the entry is not deleted.
CleanupKeeps ==
  /\ cpc = "delete"
  /\ cpc' = "visit"
  /\ UNCHANGED <<now, memory, rpcs, ctodo, ccur, saver, file, restarts, late, history>>

CleanupDelete ==
  /\ cpc = "delete"
  /\ clusters' = Without(clusters, {ccur})
  /\ cpc' = "visit"
  /\ UNCHANGED <<now, created, table, expiry, subs, rpcs, ctodo, ccur, saver, file, restarts, late>>
  /\ KeepSteady

CleanupEnd ==
  /\ cpc = "visit"
  /\ ctodo = {}
  /\ cpc' = "idle"
  /\ UNCHANGED <<now, memory, rpcs, ctodo, ccur, saver, file, restarts, late, history>>

-----------------------------------------------------------------------------
(***************************************************************************)
(* SaveSnapshot copies one cluster after another, each under its own lock, *)
(* then replaces the file in one rename; the write may fail before that.   *)
(***************************************************************************)
SaveBegin ==
  /\ spc = "idle"
  /\ stodo' = DOMAIN clusters
  /\ snap' = EmptyMap
  /\ steady' = OnRecord
  /\ spc' = "visit"
  /\ UNCHANGED <<now, memory, rpcs, cleanup, sobj, file, restarts, late, saved>>

\* Range comes to an entry, which Cleanup may have deleted meanwhile, or to one
\* stored since it began; it visits no cluster twice.
SaveVisit(c) ==
  /\ spc = "visit"
  /\ c \in stodo \cup DOMAIN clusters
  /\ c \notin DOMAIN snap
  /\ stodo' = stodo \ {c}
  /\ \/ /\ c \in DOMAIN clusters
        /\ sobj' = <<c, clusters[c]>>
        /\ spc' = "copy"
     \/ /\ c \notin DOMAIN clusters
        /\ UNCHANGED <<sobj, spc>>
  /\ UNCHANGED <<now, memory, rpcs, cleanup, snap, file, restarts, late, history>>

SaveCopy ==
  /\ spc = "copy"
  /\ snap' = Put(snap, sobj[1], table[sobj[2]])
  /\ spc' = "visit"
  /\ UNCHANGED <<now, memory, rpcs, cleanup, stodo, sobj, file, restarts, late, history>>

SaveNothingLeft ==
  /\ spc = "visit"
  /\ stodo = {}
  /\ spc' = "write"
  /\ UNCHANGED <<now, memory, rpcs, cleanup, stodo, sobj, snap, file, restarts, late, history>>

atomicWriteFile ==
  /\ spc = "write"
  /\ spc' = "idle"
  /\ \/ file' = snap /\ saved' = steady
     \/ UNCHANGED <<file, saved>>
  /\ UNCHANGED <<now, memory, rpcs, cleanup, stodo, sobj, snap, restarts, late, steady>>

(***************************************************************************)
(* The process ends, at any moment, and another one loads the file.  Every *)
(* loaded cluster starts a new ClusterTTL; affiliates keep their expiries. *)
(***************************************************************************)
\* Mutant: the expiries of the affiliates are not read back.
LoadWithoutExpiry(ids, n) ==
  /\ clusters' = ids
  /\ created' = n
  /\ table' = [o \in Objects |->
                 IF \E c \in DOMAIN ids : ids[c] = o
                 THEN LET affs == file[CHOOSE c \in DOMAIN ids : ids[c] = o]
                      IN [id \in DOMAIN affs |-> [affs[id] EXCEPT !.expiry = ZeroTime]]
                 ELSE EmptyMap]
  /\ expiry' = [o \in Objects |-> now + ClusterTTL]
  /\ subs' = [o \in Objects |-> {}]

LoadSnapshot(ids, n) ==
  /\ clusters' = ids
  /\ created' = n
  /\ table' = [o \in Objects |->
                 IF \E c \in DOMAIN ids : ids[c] = o
                 THEN file[CHOOSE c \in DOMAIN ids : ids[c] = o]
                 ELSE EmptyMap]
  /\ expiry' = [o \in Objects |-> now + ClusterTTL]
  /\ subs' = [o \in Objects |-> {}]

Restart ==
  /\ restarts < MaxRestarts
  /\ restarts' = restarts + 1
  /\ \E n \in 0..MaxObjects : \E ids \in [DOMAIN file -> 1..n] :
       /\ \A c, d \in DOMAIN file : ids[c] = ids[d] => c = d
       /\ \A o \in 1..n : \E c \in DOMAIN file : ids[c] = o
       /\ LoadSnapshot(ids, n)
  /\ pc' = [h \in Handlers |-> IF pc[h] = "idle" THEN "idle" ELSE "done"]
  /\ obj' = [h \in Handlers |-> NoObject]
  /\ cpc' = "idle" /\ ctodo' = {} /\ spc' = "idle" /\ stodo' = {}
  /\ late' = {} /\ steady' = {}
  /\ UNCHANGED <<now, call, ccur, sobj, snap, file, saved>>

Tick ==
  /\ now < MaxNow
  /\ now' = now + 1
  /\ UNCHANGED <<memory, rpcs, cleanup, saver, file, restarts, late, history>>

-----------------------------------------------------------------------------
RpcStep(h) == UpdateCommit(h) \/ DeleteCommit(h) \/ Prolong(h) \/ Subscribe(h)

CleanupStep ==
  \/ \E c \in ctodo : CleanupPrune(c)
  \/ CheckExpired
  \/ CheckAffiliates
  \/ CheckSubscribers
  \/ CleanupDelete
  \/ CleanupEnd

SaveStep == (\E c \in ClusterIDs : SaveVisit(c)) \/ SaveCopy \/ SaveNothingLeft \/ atomicWriteFile

Next ==
  \/ \E h \in Handlers, c \in ClusterIDs, req \in UpdateRequests : UpdateLoad(h, c, req)
  \/ \E h \in Handlers, c \in ClusterIDs, id \in DeleteRequests : DeleteLoad(h, c, id)
  \/ \E h \in Handlers, c \in WatchRequests : WatchLoad(h, c)
  \/ \E h \in Handlers : Unsubscribe(h)
  \/ \E h \in Handlers : RpcStep(h)
  \/ CleanupBegin
  \/ CleanupStep
  \/ SaveBegin
  \/ SaveStep
  \/ Restart
  \/ Tick

\* Goroutines run and the cleanup ticker fires; clients and time may rest.
Fairness ==
  /\ \A h \in Handlers : WF_vars(RpcStep(h))
  /\ WF_vars(CleanupBegin)
  /\ WF_vars(CleanupStep)

Spec == Init /\ [][Next]_vars /\ Fairness

-----------------------------------------------------------------------------
\* A cluster that Cleanup dropped takes nothing with it: it holds affiliates
\* or subscribers only if an RPC that already had the pointer used it after
\* Cleanup had looked, on the very visit that dropped it.  About the unlocked
\* IsExpired, IsEmpty, Delete in State.Cleanup: this is the only way its race
\* can lose anything.
LossNeedsRace ==
  \A o \in Orphans \ late : DOMAIN table[o] = {} /\ subs[o] = {}

\* An affiliate on record when SaveSnapshot began, and left alone since, is in
\* the file that run wrote and, restarts or not, in the registry as it was.
\* About Range running next to updates, prunes and the deletion of clusters,
\* and about LoadSnapshot putting back what SaveSnapshot took.
SavedSurvives ==
  \A p \in saved :
    /\ p \in OnRecord
    /\ p[1] \in DOMAIN file /\ p[2] \in DOMAIN file[p[1]]
    /\ file[p[1]][p[2]] = Stored(p)

\* A cluster does not stay registered for ever while it is expired and unused.
\* About Cleanup, which visits each entry again and again.
Unused(c) == /\ c \in DOMAIN clusters
             /\ IsExpired(clusters[c])
             /\ DOMAIN table[clusters[c]] = {}
             /\ subs[clusters[c]] = {}

UnusedIsDropped == \A c \in ClusterIDs : []<>~Unused(c)

\* "AffiliateUpdate updates (or creates) affiliate in the cluster" (proto):
\* what an update stored in an object is in the cluster that List shows.
UpdateIsInCluster ==
  \A h \in Handlers :
    /\ pc[h] = "done" /\ obj[h] # NoObject
    /\ call[h] \in UpdateRequests /\ call[h].id \in DOMAIN table[obj[h]]
    => obj[h] \in Registered
=============================================================================
