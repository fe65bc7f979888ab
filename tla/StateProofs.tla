---------------------------- MODULE StateProofs ----------------------------
(***************************************************************************)
(* Theorems about State.tla for every set of clusters, affiliates, RPCs    *)
(* and requests and any number of objects, ticks and restarts.             *)
(***************************************************************************)
EXTENDS State, AffiliateProofs, TLAPS

-----------------------------------------------------------------------------
(***************************************************************************)
(* Types.  They need to know what a handler and Cleanup hold between two   *)
(* steps: the pointer a handler got stays that of an object, and Cleanup,  *)
(* alone in deleting entries, finds the ones it has yet to visit.          *)
(***************************************************************************)
Working == {"update", "delete", "prolong", "subscribe", "watching", "unsubscribed"}

HandlersInv ==
  \A h \in Handlers : /\ pc[h] \in Working => obj[h] \in 1..created
                      /\ pc[h] = "update" => call[h] \in UpdateRequests

SweepInv ==
  /\ ctodo \subseteq DOMAIN clusters
  /\ cpc \notin {"idle", "visit"} => ccur \notin ctodo

IInv == TypeOK /\ HandlersInv /\ SweepInv

\* An empty registry, with nobody at work.
LEMMA InitIInv == Init => IInv
<1> SUFFICES ASSUME Init PROVE IInv
  OBVIOUS
<1>1. MemoryTyped
  BY StateAssumption DEF Init, MemoryTyped, ZeroTime, EmptyMap, IsAffiliateTable
<1>2. RpcsTyped
  BY StateAssumption DEF Init, RpcsTyped, NoObject
<1>3. CleanupTyped /\ SaverTyped /\ HistoryTyped
  BY StateAssumption DEF Init, CleanupTyped, SaverTyped, HistoryTyped, EmptyMap
<1>4. HandlersInv /\ SweepInv
  BY DEF Init, HandlersInv, SweepInv, Working
<1> QED BY <1>1, <1>2, <1>3, <1>4 DEF IInv, TypeOK

\* The registry gives a pointer to an object, and only ever adds one.
LEMMA ClusterForFacts ==
  ASSUME IInv, NEW h \in Handlers, NEW c \in ClusterIDs, ClusterFor(h, c)
  PROVE  /\ created' \in 0..MaxObjects /\ created <= created'
         /\ DOMAIN clusters' \subseteq ClusterIDs
         /\ clusters' \in [DOMAIN clusters' -> 1..created']
         /\ DOMAIN clusters \subseteq DOMAIN clusters'
         /\ \A d \in DOMAIN clusters : clusters'[d] = clusters[d]
         /\ \A o \in (created + 1)..created' : \E d \in DOMAIN clusters' : clusters'[d] = o
         /\ expiry' \in [Objects -> Nat]
         /\ \E o \in 1..created' : obj' = [obj EXCEPT ![h] = o]
<1> USE DEF IInv, TypeOK, MemoryTyped
<1>1. CASE c \in DOMAIN clusters
  <2>1. UNCHANGED <<clusters, created, expiry>> /\ obj' = [obj EXCEPT ![h] = clusters[c]]
    BY <1>1 DEF ClusterFor
  <2>2. \E o \in 1..created' : obj' = [obj EXCEPT ![h] = o]
    BY <1>1, <2>1
  <2>3. created \in Nat /\ \A o \in (created + 1)..created : FALSE
    BY StateAssumption
  <2>4. /\ created' \in 0..MaxObjects /\ created <= created'
        /\ DOMAIN clusters' \subseteq ClusterIDs
        /\ clusters' \in [DOMAIN clusters' -> 1..created']
        /\ DOMAIN clusters \subseteq DOMAIN clusters'
        /\ \A d \in DOMAIN clusters : clusters'[d] = clusters[d]
    BY <2>1, <2>3
  <2> QED BY <2>1, <2>2, <2>3, <2>4
<1>2. CASE c \notin DOMAIN clusters
  <2>1. /\ created' = created + 1 /\ created < MaxObjects
        /\ clusters' = Put(clusters, c, created')
        /\ expiry' = [expiry EXCEPT ![created'] = now + ClusterTTL]
        /\ obj' = [obj EXCEPT ![h] = created']
    BY <1>2 DEF ClusterFor
  <2>2. created' \in 1..MaxObjects /\ created <= created' /\ created' \in 1..created'
    BY <2>1, StateAssumption
  <2>3. DOMAIN clusters' = DOMAIN clusters \cup {c}
    BY <2>1 DEF Put
  <2>4. \A d \in DOMAIN clusters' : clusters'[d] = IF d = c THEN created' ELSE clusters[d]
    BY <2>1 DEF Put
  <2>5. \A d \in DOMAIN clusters : clusters[d] \in 1..created'
    BY <2>1
  <2>6. clusters' = [d \in DOMAIN clusters' |-> clusters'[d]]
    BY <2>1 DEF Put
  <2>7. clusters' \in [DOMAIN clusters' -> 1..created']
    BY <2>2, <2>3, <2>4, <2>5, <2>6
  <2>8. expiry' \in [Objects -> Nat]
    BY <2>1, <2>2, StateAssumption DEF Objects
  <2>9. \A o \in (created + 1)..created' : o = created'
    BY <2>1
  <2>10. \A o \in (created + 1)..created' : \E d \in DOMAIN clusters' : clusters'[d] = o
    BY <2>3, <2>4, <2>9
  <2>11. \A d \in DOMAIN clusters : clusters'[d] = clusters[d]
    BY <1>2, <2>3, <2>4
  <2>12. \E o \in 1..created' : obj' = [obj EXCEPT ![h] = o]
    BY <2>1, <2>2
  <2>13. created' \in 0..MaxObjects /\ created <= created'
    BY <2>2
  <2> QED BY <2>3, <2>7, <2>8, <2>10, <2>11, <2>12, <2>13
<1> QED BY <1>1, <1>2

\* The two histories of a save only lose members between its own steps.
LEMMA KeepSteadyFacts ==
  ASSUME KeepSteady
  PROVE  steady' \subseteq steady /\ saved' \subseteq saved
BY DEF KeepSteady, Untouched

\* What a step leaves alone stays as it should be, also when the registry grew.
LEMMA Kept ==
  ASSUME IInv, created' \in Nat, created <= created', DOMAIN clusters \subseteq DOMAIN clusters'
  PROVE  /\ UNCHANGED <<now, memory>> => MemoryTyped'
         /\ UNCHANGED rpcs => RpcsTyped' /\ HandlersInv'
         /\ UNCHANGED cleanup => CleanupTyped' /\ SweepInv'
         /\ UNCHANGED <<saver, file, restarts>> => SaverTyped'
         /\ late' \subseteq late /\ steady' \subseteq steady /\ saved' \subseteq saved => HistoryTyped'
<1> USE DEF IInv, TypeOK
<1>1. UNCHANGED <<now, memory>> => MemoryTyped'
  BY DEF MemoryTyped, memory
<1>2. created \in Nat /\ \A i \in 0..created : i \in 0..created'
  BY StateAssumption DEF MemoryTyped
<1>3. UNCHANGED rpcs => RpcsTyped' /\ HandlersInv'
  BY <1>2 DEF RpcsTyped, HandlersInv, rpcs
<1>4. UNCHANGED cleanup => CleanupTyped' /\ SweepInv'
  BY DEF CleanupTyped, SweepInv, cleanup
<1>5. UNCHANGED <<saver, file, restarts>> => SaverTyped'
  BY <1>2 DEF SaverTyped, saver
<1>6. late' \subseteq late /\ steady' \subseteq steady /\ saved' \subseteq saved => HistoryTyped'
  BY <1>2 DEF HistoryTyped
<1> QED BY <1>1, <1>3, <1>4, <1>5, <1>6

\* The same for a step that leaves the registry alone.
LEMMA KeptHere ==
  ASSUME IInv, UNCHANGED <<clusters, created>>
  PROVE  /\ UNCHANGED <<now, memory>> => MemoryTyped'
         /\ UNCHANGED rpcs => RpcsTyped' /\ HandlersInv'
         /\ UNCHANGED cleanup => CleanupTyped' /\ SweepInv'
         /\ UNCHANGED <<saver, file, restarts>> => SaverTyped'
         /\ late' \subseteq late /\ steady' \subseteq steady /\ saved' \subseteq saved => HistoryTyped'
<1>1. created' \in Nat /\ created <= created' /\ DOMAIN clusters \subseteq DOMAIN clusters'
  BY StateAssumption DEF IInv, TypeOK, MemoryTyped
<1> QED BY <1>1, Kept

\* Late uses are uses of objects.
LEMMA LateTyped ==
  ASSUME IInv, UNCHANGED created, NEW o \in 1..created, NEW S, UsedLate(o, S)
  PROVE  late' \subseteq 1..created'
BY DEF IInv, TypeOK, HistoryTyped, UsedLate

\* Types are kept by the RPCs, which load or create an object and then use it,
LEMMA RpcTypes ==
  ASSUME IInv, NEW h \in Handlers,
         \/ \E c \in ClusterIDs, req \in UpdateRequests : UpdateLoad(h, c, req)
         \/ \E c \in ClusterIDs, id \in DeleteRequests : DeleteLoad(h, c, id)
         \/ \E c \in WatchRequests : WatchLoad(h, c)
         \/ Unsubscribe(h)
         \/ RpcStep(h)
  PROVE  IInv'
<1> USE DEF IInv, TypeOK
<1>1. ASSUME NEW c \in ClusterIDs, NEW req \in UpdateRequests, UpdateLoad(h, c, req) PROVE IInv'
  <2>1. ClusterFor(h, c) /\ KeepSteady
    BY <1>1 DEF UpdateLoad
  <2>2. created' \in Nat /\ created <= created' /\ DOMAIN clusters \subseteq DOMAIN clusters'
    BY <2>1, ClusterForFacts, StateAssumption
  <2>3. MemoryTyped'
    BY <1>1, <2>1, ClusterForFacts DEF UpdateLoad, MemoryTyped
  <2>4. RpcsTyped' /\ HandlersInv'
    <3>1. PICK o \in 1..created' : obj' = [obj EXCEPT ![h] = o]
      BY <2>1, ClusterForFacts
    <3>2. call' = [call EXCEPT ![h] = req] /\ pc' = [pc EXCEPT ![h] = "update"]
      BY <1>1 DEF UpdateLoad
    <3>3. \A i \in 0..created : i \in 0..created'
      BY <2>2, StateAssumption DEF MemoryTyped
    <3>4. RpcsTyped'
      BY <2>2, <3>1, <3>2, <3>3 DEF RpcsTyped
    <3>5. HandlersInv'
      BY <2>2, <3>1, <3>2, <3>3 DEF RpcsTyped, HandlersInv, Working
    <3> QED BY <3>4, <3>5
  <2> QED BY <1>1, <2>1, <2>2, <2>3, <2>4, Kept, KeepSteadyFacts DEF UpdateLoad
<1>2. ASSUME NEW c \in WatchRequests, WatchLoad(h, c) PROVE IInv'
  <2>0. c \in ClusterIDs
    BY StateAssumption
  <2>1. ClusterFor(h, c) /\ KeepSteady
    BY <1>2 DEF WatchLoad
  <2>2. created' \in Nat /\ created <= created' /\ DOMAIN clusters \subseteq DOMAIN clusters'
    BY <2>0, <2>1, ClusterForFacts, StateAssumption
  <2>3. MemoryTyped'
    BY <1>2, <2>0, <2>1, ClusterForFacts DEF WatchLoad, MemoryTyped
  <2>4. RpcsTyped' /\ HandlersInv'
    <3>1. PICK o \in 1..created' : obj' = [obj EXCEPT ![h] = o]
      BY <2>0, <2>1, ClusterForFacts
    <3>2. call' = call /\ pc' = [pc EXCEPT ![h] = "subscribe"]
      BY <1>2 DEF WatchLoad
    <3>3. \A i \in 0..created : i \in 0..created'
      BY <2>2, StateAssumption DEF MemoryTyped
    <3>4. RpcsTyped'
      BY <2>2, <3>1, <3>2, <3>3 DEF RpcsTyped
    <3>5. HandlersInv'
      BY <2>2, <3>1, <3>2, <3>3 DEF RpcsTyped, HandlersInv, Working
    <3> QED BY <3>4, <3>5
  <2> QED BY <1>2, <2>1, <2>2, <2>3, <2>4, Kept, KeepSteadyFacts DEF WatchLoad
<1>3. ASSUME NEW c \in ClusterIDs, NEW id \in DeleteRequests, DeleteLoad(h, c, id) PROVE IInv'
  <2>1. RpcsTyped' /\ HandlersInv'
    <3>1. CASE c \in DOMAIN clusters
      <4>1. /\ obj' = [obj EXCEPT ![h] = clusters[c]] /\ call' = [call EXCEPT ![h] = id]
            /\ pc' = [pc EXCEPT ![h] = "delete"] /\ UNCHANGED created
            /\ clusters[c] \in 1..created
        BY <1>3, <3>1 DEF DeleteLoad, memory, MemoryTyped
      <4>2. RpcsTyped'
        BY <4>1 DEF RpcsTyped
      <4>3. HandlersInv'
        BY <4>1 DEF RpcsTyped, HandlersInv, Working
      <4> QED BY <4>2, <4>3
    <3>2. CASE c \notin DOMAIN clusters
      BY <1>3, <3>2 DEF DeleteLoad, RpcsTyped, HandlersInv, Working, memory
    <3> QED BY <3>1, <3>2
  <2> QED BY <1>3, <2>1, KeptHere DEF DeleteLoad, memory, history
<1>4. CASE UpdateCommit(h)
  <2>1. obj[h] \in 1..created /\ call[h] \in UpdateRequest /\ obj[h] \in Objects
    BY <1>4, StateAssumption DEF UpdateCommit, HandlersInv, Working, MemoryTyped, Objects
  <2>2. IsAffiliateTable(updateAffiliateLocked(table[obj[h]], call[h], now).affiliates)
    BY <2>1, UpdateTyped DEF MemoryTyped
  <2>3. MemoryTyped'
    BY <1>4, <2>1, <2>2 DEF UpdateCommit, MemoryTyped
  <2>4. RpcsTyped' /\ HandlersInv'
    BY <1>4 DEF UpdateCommit, RpcsTyped, HandlersInv, Working
  <2>5. HistoryTyped'
    BY <1>4, <2>1, LateTyped, KeepSteadyFacts DEF UpdateCommit, HistoryTyped
  <2> QED BY <1>4, <2>3, <2>4, <2>5, KeptHere DEF UpdateCommit
<1>5. CASE DeleteCommit(h)
  <2>1. obj[h] \in 1..created /\ obj[h] \in Objects
    BY <1>5, StateAssumption DEF DeleteCommit, HandlersInv, Working, MemoryTyped, Objects
  <2>2. IsAffiliateTable(deleteAffiliateLocked(table[obj[h]], call[h]))
    BY <2>1, DeleteTyped DEF MemoryTyped
  <2>3. MemoryTyped'
    BY <1>5, <2>1, <2>2 DEF DeleteCommit, MemoryTyped
  <2>4. RpcsTyped' /\ HandlersInv'
    BY <1>5, <2>1 DEF DeleteCommit, RpcsTyped, HandlersInv, Working
  <2> QED BY <1>5, <2>3, <2>4, KeptHere, KeepSteadyFacts DEF DeleteCommit
<1>6. CASE Prolong(h)
  <2>0. now + ClusterTTL \in Nat
    BY StateAssumption DEF MemoryTyped
  <2>1. MemoryTyped'
    BY <1>6, <2>0 DEF Prolong, MemoryTyped
  <2>2. RpcsTyped' /\ HandlersInv'
    BY <1>6 DEF Prolong, RpcsTyped, HandlersInv, Working
  <2> QED BY <1>6, <2>1, <2>2, KeptHere DEF Prolong, history
<1>7. CASE Subscribe(h)
  <2>1. obj[h] \in 1..created
    BY <1>7 DEF Subscribe, HandlersInv, Working
  <2>2. MemoryTyped'
    BY <1>7 DEF Subscribe, MemoryTyped
  <2>3. RpcsTyped' /\ HandlersInv'
    BY <1>7, <2>1 DEF Subscribe, RpcsTyped, HandlersInv, Working
  <2>4. HistoryTyped'
    BY <1>7, <2>1, LateTyped DEF Subscribe, HistoryTyped, history
  <2> QED BY <1>7, <2>2, <2>3, <2>4, KeptHere DEF Subscribe
<1>8. CASE Unsubscribe(h)
  <2>1. MemoryTyped'
    BY <1>8 DEF Unsubscribe, MemoryTyped
  <2>2. RpcsTyped' /\ HandlersInv'
    BY <1>8 DEF Unsubscribe, RpcsTyped, HandlersInv, Working
  <2> QED BY <1>8, <2>1, <2>2, KeptHere DEF Unsubscribe, history
<1> QED BY <1>1, <1>2, <1>3, <1>4, <1>5, <1>6, <1>7, <1>8 DEF RpcStep

\* by Cleanup, which walks the registry entry by entry,
LEMMA CleanupTypes ==
  ASSUME IInv, CleanupBegin \/ CleanupStep
  PROVE  IInv'
<1> USE DEF IInv, TypeOK
<1>1. CASE CleanupBegin
  <2>1. CleanupTyped' /\ SweepInv'
    BY <1>1 DEF CleanupBegin, CleanupTyped, SweepInv, MemoryTyped, memory
  <2> QED BY <1>1, <2>1, KeptHere DEF CleanupBegin, memory, history
<1>2. ASSUME NEW c \in ctodo, CleanupPrune(c) PROVE IInv'
  <2>1. c \in DOMAIN clusters /\ clusters[c] \in Objects
    BY StateAssumption DEF SweepInv, MemoryTyped, Objects
  <2>2. IsAffiliateTable(pruneAffiliates(table[clusters[c]], now))
    BY <2>1, PruneTyped DEF MemoryTyped
  <2>3. MemoryTyped'
    BY <1>2, <2>1, <2>2 DEF CleanupPrune, MemoryTyped
  <2>4. CleanupTyped' /\ SweepInv'
    BY <1>2, <2>1 DEF CleanupPrune, CleanupTyped, SweepInv
  <2> QED BY <1>2, <2>3, <2>4, KeptHere, KeepSteadyFacts DEF CleanupPrune
<1>3. CASE CheckExpired \/ CheckAffiliates \/ CheckSubscribers
  <2>1. CleanupTyped' /\ SweepInv'
    BY <1>3 DEF CheckExpired, CheckAffiliates, CheckSubscribers, CleanupCheck, CleanupTyped, SweepInv, memory
  <2> QED BY <1>3, <2>1, KeptHere DEF CheckExpired, CheckAffiliates, CheckSubscribers, CleanupCheck, memory, history
<1>4. CASE CleanupDelete
  <2>1. /\ DOMAIN clusters' = DOMAIN clusters \ {ccur}
        /\ clusters' = [d \in DOMAIN clusters \ {ccur} |-> clusters[d]]
        /\ UNCHANGED created
    BY <1>4 DEF CleanupDelete, Without
  <2>2. MemoryTyped'
    BY <1>4, <2>1 DEF CleanupDelete, MemoryTyped
  <2>3. RpcsTyped' /\ HandlersInv'
    BY <1>4, <2>1 DEF CleanupDelete, RpcsTyped, HandlersInv, rpcs
  <2>4. CleanupTyped' /\ SweepInv'
    BY <1>4, <2>1 DEF CleanupDelete, CleanupTyped, SweepInv
  <2>5. SaverTyped'
    BY <1>4, <2>1 DEF CleanupDelete, SaverTyped, saver
  <2>6. HistoryTyped'
    BY <1>4, <2>1, KeepSteadyFacts DEF CleanupDelete, HistoryTyped
  <2> QED BY <2>2, <2>3, <2>4, <2>5, <2>6
<1>5. CASE CleanupEnd
  <2>1. CleanupTyped' /\ SweepInv'
    BY <1>5 DEF CleanupEnd, CleanupTyped, SweepInv, memory
  <2> QED BY <1>5, <2>1, KeptHere DEF CleanupEnd, memory, history
<1> QED BY <1>1, <1>2, <1>3, <1>4, <1>5 DEF CleanupStep

\* by SaveSnapshot, which copies the registry object by object,
LEMMA SaveTypes ==
  ASSUME IInv, SaveBegin \/ SaveStep
  PROVE  IInv'
<1> USE DEF IInv, TypeOK
<1>1. CASE SaveBegin
  <2>1. SaverTyped'
    BY <1>1 DEF SaveBegin, SaverTyped, MemoryTyped, EmptyMap, memory
  <2>2. HistoryTyped'
    BY <1>1 DEF SaveBegin, HistoryTyped, OnRecord, memory
  <2> QED BY <1>1, <2>1, <2>2, KeptHere DEF SaveBegin, memory
<1>2. ASSUME NEW c \in ClusterIDs, SaveVisit(c) PROVE IInv'
  <2>1. SaverTyped'
    <3>1. CASE c \in DOMAIN clusters
      <4>1. sobj' = <<c, clusters[c]>> /\ spc' = "copy" /\ clusters[c] \in 1..created
        BY <1>2, <3>1 DEF SaveVisit, MemoryTyped
      <4> QED BY <1>2, <4>1 DEF SaveVisit, SaverTyped, memory
    <3>2. CASE c \notin DOMAIN clusters
      BY <1>2, <3>2 DEF SaveVisit, SaverTyped, memory
    <3> QED BY <3>1, <3>2
  <2> QED BY <1>2, <2>1, KeptHere DEF SaveVisit, memory, history
<1>3. CASE SaveCopy
  <2>1. sobj[1] \in ClusterIDs /\ IsAffiliateTable(table[sobj[2]])
    BY <1>3, StateAssumption DEF SaveCopy, SaverTyped, MemoryTyped, Objects
  <2>2. SaverTyped'
    BY <1>3, <2>1 DEF SaveCopy, SaverTyped, Put, memory
  <2> QED BY <1>3, <2>2, KeptHere DEF SaveCopy, memory, history
<1>4. CASE SaveNothingLeft
  <2>1. SaverTyped'
    BY <1>4 DEF SaveNothingLeft, SaverTyped, memory
  <2> QED BY <1>4, <2>1, KeptHere DEF SaveNothingLeft, memory, history
<1>5. CASE atomicWriteFile
  <2>1. SaverTyped'
    BY <1>5 DEF atomicWriteFile, SaverTyped, memory
  <2>2. HistoryTyped'
    BY <1>5 DEF atomicWriteFile, HistoryTyped, memory
  <2> QED BY <1>5, <2>1, <2>2, KeptHere DEF atomicWriteFile, memory
<1> QED BY <1>1, <1>2, <1>3, <1>4, <1>5 DEF SaveStep

\* Every loaded cluster is given an object, with the affiliates of the file.
LEMMA RestartFacts ==
  ASSUME IInv, Restart
  PROVE  /\ created' \in 0..MaxObjects
         /\ DOMAIN clusters' = DOMAIN file
         /\ clusters' \in [DOMAIN file -> 1..created']
         /\ \A o \in 1..created' : \E c \in DOMAIN file : clusters'[c] = o
         /\ DOMAIN table' = Objects
         /\ \A c \in DOMAIN file : table'[clusters'[c]] = file[c]
         /\ \A o \in Objects : table'[o] = EmptyMap \/ \E c \in DOMAIN file : table'[o] = file[c]
         /\ expiry' \in [Objects -> Nat]
         /\ subs' = [o \in Objects |-> {}]
<1>1. PICK n \in 0..MaxObjects : \E ids \in [DOMAIN file -> 1..n] :
        /\ \A c, d \in DOMAIN file : ids[c] = ids[d] => c = d
        /\ \A o \in 1..n : \E c \in DOMAIN file : ids[c] = o
        /\ LoadSnapshot(ids, n)
  BY DEF Restart
<1>2. PICK ids \in [DOMAIN file -> 1..n] :
        /\ \A c, d \in DOMAIN file : ids[c] = ids[d] => c = d
        /\ \A o \in 1..n : \E c \in DOMAIN file : ids[c] = o
        /\ LoadSnapshot(ids, n)
  BY <1>1
<1>3. /\ clusters' = ids /\ created' = n
      /\ subs' = [o \in Objects |-> {}]
      /\ expiry' = [o \in Objects |-> now + ClusterTTL]
      /\ table' = [o \in Objects |->
                     IF \E c \in DOMAIN ids : ids[c] = o
                     THEN file[CHOOSE c \in DOMAIN ids : ids[c] = o]
                     ELSE EmptyMap]
  BY <1>2 DEF LoadSnapshot
<1>4. DOMAIN ids = DOMAIN file
  OBVIOUS
<1>5. ASSUME NEW c \in DOMAIN file PROVE table'[ids[c]] = file[c]
  <2>1. ids[c] \in Objects
    BY StateAssumption DEF Objects
  <2>2. table'[ids[c]] = file[CHOOSE d \in DOMAIN ids : ids[d] = ids[c]]
    BY <1>3, <1>4, <2>1
  <2>3. (CHOOSE d \in DOMAIN ids : ids[d] = ids[c]) = c
    BY <1>2, <1>4
  <2> QED BY <2>2, <2>3
<1>6. \A o \in Objects : table'[o] = EmptyMap \/ \E c \in DOMAIN file : table'[o] = file[c]
  <2> TAKE o \in Objects
  <2>1. CASE \E c \in DOMAIN ids : ids[c] = o
    BY <1>3, <1>4, <1>5, <2>1
  <2>2. CASE ~\E c \in DOMAIN ids : ids[c] = o
    BY <1>3, <2>2
  <2> QED BY <2>1, <2>2
<1>7. now + ClusterTTL \in Nat
  BY StateAssumption DEF IInv, TypeOK, MemoryTyped
<1>8. expiry' \in [Objects -> Nat]
  BY <1>3, <1>7
<1> QED BY <1>2, <1>3, <1>4, <1>5, <1>6, <1>8

\* and by a restart, which makes new objects of what is in the file.
LEMMA RestartTypes ==
  ASSUME IInv, Restart
  PROVE  IInv'
<1> USE DEF IInv, TypeOK
<1>1. MemoryTyped'
  <2>1. IsAffiliateTable(EmptyMap)
    BY DEF IsAffiliateTable, EmptyMap
  <2>2. \A o \in Objects : IsAffiliateTable(table'[o])
    BY <2>1, RestartFacts DEF SaverTyped
  <2>3. now' \in Nat /\ DOMAIN file \subseteq ClusterIDs
    BY DEF Restart, MemoryTyped, SaverTyped
  <2>4. subs' \in [Objects -> SUBSET Handlers]
    BY RestartFacts
  <2> QED BY <2>2, <2>3, <2>4, RestartFacts DEF MemoryTyped
<1>2. RpcsTyped' /\ HandlersInv'
  <2>1. created' \in Nat
    BY RestartFacts, StateAssumption
  <2>2. 0 \in 0..created'
    BY <2>1
  <2> QED BY <2>2 DEF Restart, RpcsTyped, HandlersInv, Working, NoObject
<1>3. CleanupTyped' /\ SweepInv'
  BY DEF Restart, CleanupTyped, SweepInv
<1>4. SaverTyped'
  BY StateAssumption DEF Restart, SaverTyped
<1>5. HistoryTyped'
  BY DEF Restart, HistoryTyped
<1> QED BY <1>1, <1>2, <1>3, <1>4, <1>5

\* So every step keeps them.
LEMMA IInvStep == IInv /\ [Next]_vars => IInv'
<1> SUFFICES ASSUME IInv, [Next]_vars PROVE IInv'
  OBVIOUS
<1>1. CASE Tick
  <2>1. MemoryTyped'
    BY <1>1 DEF Tick, IInv, TypeOK, MemoryTyped, memory
  <2> QED BY <1>1, <2>1, KeptHere DEF Tick, memory, history, IInv, TypeOK
<1>2. CASE UNCHANGED vars
  BY <1>2, KeptHere DEF vars, memory, history, IInv, TypeOK
<1> QED BY <1>1, <1>2, RpcTypes, CleanupTypes, SaveTypes, RestartTypes DEF Next

\* They hold throughout.
LEMMA IInvAlways == Spec => []IInv
BY InitIInv, IInvStep, PTL DEF Spec

\* Every variable of the registry, the RPCs, Cleanup and SaveSnapshot keeps its
\* type: pointers that RPCs and SaveSnapshot hold stay those of objects, and
\* Cleanup never visits an entry that is not there.
THEOREM TypeCorrect == Spec => []TypeOK
<1>1. IInv => TypeOK
  BY DEF IInv
<1> QED BY <1>1, IInvAlways, PTL

-----------------------------------------------------------------------------
(***************************************************************************)
(* What Cleanup has established about the object it is visiting, unless an *)
(* RPC that already had the pointer came in between.                       *)
(***************************************************************************)
CheckedInv ==
  /\ cpc = "subscribers" => Visited \in late \/ DOMAIN table[Visited] = {}
  /\ cpc = "delete" => Visited \in late \/ (DOMAIN table[Visited] = {} /\ subs[Visited] = {})

LossInv == CheckedInv /\ LossNeedsRace

\* A step that leaves the registry and Cleanup alone and only takes things out
\* of objects, or notes in "late" the object it put something into.
LEMMA ObjectStep ==
  ASSUME LossInv, UNCHANGED <<clusters, created, cpc, ccur>>, late \subseteq late',
         \A o \in 1..created :
           \/ DOMAIN table'[o] \subseteq DOMAIN table[o] /\ subs'[o] \subseteq subs[o]
           \/ /\ o \in Orphans => o \in late'
              /\ o = Visited /\ cpc = "delete" => o \in late'
              /\ \/ DOMAIN table'[o] \subseteq DOMAIN table[o]
                 \/ o = Visited /\ cpc = "subscribers" => o \in late',
         cpc \in {"subscribers", "delete"} => Visited \in 1..created
  PROVE  LossInv'
<1>1. Visited' = Visited /\ Orphans' = Orphans /\ Orphans \subseteq 1..created
  BY DEF Visited, Orphans, Registered
<1>2. LossNeedsRace'
  BY <1>1 DEF LossInv, LossNeedsRace
<1>3. CheckedInv'
  BY <1>1 DEF LossInv, CheckedInv
<1> QED BY <1>2, <1>3 DEF LossInv

\* While Cleanup is checking, its object is in the registry.
LEMMA VisitedIsObject ==
  ASSUME IInv, cpc \notin {"idle", "visit"}
  PROVE  ccur \in DOMAIN clusters /\ Visited = clusters[ccur] /\ Visited \in 1..created
BY DEF IInv, TypeOK, CleanupTyped, MemoryTyped, Visited

\* An RPC that puts something into an object Cleanup has checked, or removed, is
\* noted as late.
LEMMA LossByRpcs ==
  ASSUME IInv, LossInv, NEW h \in Handlers, RpcStep(h) \/ Unsubscribe(h)
  PROVE  LossInv'
<1> USE DEF IInv, TypeOK
<1>0. \A o \in 1..created : o \in Objects
  BY StateAssumption DEF Objects, MemoryTyped
<1>1. CASE UpdateCommit(h)
  <2>1. /\ UNCHANGED <<clusters, created, cpc, ccur, subs>>
        /\ UsedLate(obj[h], {"subscribers", "delete"})
    BY <1>1 DEF UpdateCommit, cleanup
  <2>2. \A o \in 1..created : o # obj[h] => table'[o] = table[o]
    BY <1>0, <1>1 DEF UpdateCommit, MemoryTyped
  <2>3. late \subseteq late' /\ (obj[h] \in Orphans => obj[h] \in late')
        /\ (obj[h] = Visited /\ cpc \in {"subscribers", "delete"} => obj[h] \in late')
    BY <2>1 DEF UsedLate
  <2> QED BY <2>1, <2>2, <2>3, ObjectStep, VisitedIsObject
<1>2. CASE DeleteCommit(h)
  <2>1. UNCHANGED <<clusters, created, cpc, ccur, subs, late>>
    BY <1>2 DEF DeleteCommit, cleanup
  <2>2. \A o \in 1..created : DOMAIN table'[o] \subseteq DOMAIN table[o]
    BY <1>0, <1>2 DEF DeleteCommit, MemoryTyped, deleteAffiliateLocked, Without
  <2> QED BY <2>1, <2>2, ObjectStep, VisitedIsObject
<1>3. CASE Prolong(h)
  <2>1. UNCHANGED <<clusters, created, cpc, ccur, subs, late, table>>
    BY <1>3 DEF Prolong, cleanup
  <2> QED BY <2>1, ObjectStep, VisitedIsObject
<1>4. CASE Subscribe(h)
  <2>1. /\ UNCHANGED <<clusters, created, cpc, ccur, table>>
        /\ UsedLate(obj[h], {"delete"})
    BY <1>4 DEF Subscribe, cleanup
  <2>2. \A o \in 1..created : o # obj[h] => subs'[o] = subs[o]
    BY <1>0, <1>4 DEF Subscribe, MemoryTyped
  <2>3. late \subseteq late' /\ (obj[h] \in Orphans => obj[h] \in late')
        /\ (obj[h] = Visited /\ cpc = "delete" => obj[h] \in late')
    BY <2>1 DEF UsedLate
  <2> QED BY <2>1, <2>2, <2>3, ObjectStep, VisitedIsObject
<1>5. CASE Unsubscribe(h)
  <2>1. UNCHANGED <<clusters, created, cpc, ccur, table, late>>
    BY <1>5 DEF Unsubscribe, cleanup
  <2>2. \A o \in 1..created : subs'[o] \subseteq subs[o]
    BY <1>0, <1>5 DEF Unsubscribe, MemoryTyped
  <2> QED BY <2>1, <2>2, ObjectStep, VisitedIsObject
<1> QED BY <1>1, <1>2, <1>3, <1>4, <1>5 DEF RpcStep

\* A pointer from the registry: nothing becomes an orphan.
LEMMA LossByLoads ==
  ASSUME IInv, LossInv, NEW h \in Handlers, NEW c \in ClusterIDs, ClusterFor(h, c),
         UNCHANGED <<table, subs, cleanup, late>>
  PROVE  LossInv'
<1>1. Orphans' \subseteq Orphans
  <2> SUFFICES ASSUME NEW o \in Orphans' PROVE o \in Orphans
    OBVIOUS
  <2>1. o \in 1..created' /\ \A d \in DOMAIN clusters' : clusters'[d] # o
    BY DEF Orphans, Registered
  <2>2. o \notin (created + 1)..created'
    BY <2>1, ClusterForFacts
  <2>3. created \in Nat /\ created' \in Nat
    BY ClusterForFacts, StateAssumption DEF IInv, TypeOK, MemoryTyped
  <2>4. o \in 1..created
    BY <2>1, <2>2, <2>3
  <2>5. \A d \in DOMAIN clusters : clusters[d] # o
    BY <2>1, ClusterForFacts
  <2> QED BY <2>4, <2>5 DEF Orphans, Registered
<1>2. cpc \notin {"idle", "visit"} => Visited' = Visited
  BY ClusterForFacts, VisitedIsObject DEF Visited, cleanup
<1>3. LossNeedsRace'
  BY <1>1 DEF LossInv, LossNeedsRace
<1>4. CheckedInv'
  BY <1>2 DEF LossInv, CheckedInv, cleanup
<1> QED BY <1>3, <1>4 DEF LossInv

\* Cleanup removes an entry only after it found its object empty.
LEMMA LossByCleanup ==
  ASSUME IInv, LossInv, CleanupBegin \/ CleanupStep
  PROVE  LossInv'
<1> USE DEF IInv, TypeOK
<1>0. ASSUME UNCHANGED <<clusters, created>> PROVE Orphans' = Orphans
  BY <1>0 DEF Orphans, Registered
<1>1. CASE CleanupBegin \/ CleanupEnd
  <2>1. cpc' \in {"idle", "visit"} /\ UNCHANGED <<clusters, created, table, subs, late>>
    BY <1>1 DEF CleanupBegin, CleanupEnd, memory
  <2> QED BY <1>0, <2>1 DEF LossInv, LossNeedsRace, CheckedInv
<1>2. ASSUME NEW c \in ctodo, CleanupPrune(c) PROVE LossInv'
  <2>1. cpc' = "expired" /\ UNCHANGED <<clusters, created, subs>> /\ late' = late \ {clusters[c]}
    BY <1>2 DEF CleanupPrune
  <2>2. clusters[c] \notin Orphans
    BY DEF Orphans, Registered, SweepInv
  <2>3. \A o \in Orphans : o \in Objects
    BY StateAssumption DEF Orphans, Objects, MemoryTyped
  <2>4. \A o \in Orphans : table'[o] = table[o]
    BY <1>2, <2>2, <2>3 DEF CleanupPrune, MemoryTyped
  <2> QED BY <1>0, <2>1, <2>2, <2>4 DEF LossInv, LossNeedsRace, CheckedInv
<1>3. CASE CheckExpired \/ CheckAffiliates \/ CheckSubscribers
  <2>1. UNCHANGED <<clusters, created, table, subs, late, ccur>>
    BY <1>3 DEF CheckExpired, CheckAffiliates, CheckSubscribers, CleanupCheck, memory
  <2>2. Visited' = Visited
    BY <2>1 DEF Visited
  <2>3. CheckedInv'
    BY <1>3, <2>1, <2>2 DEF CheckExpired, CheckAffiliates, CheckSubscribers, CleanupCheck, LossInv, CheckedInv
  <2> QED BY <1>0, <2>1, <2>3 DEF LossInv, LossNeedsRace
<1>4. CASE CleanupDelete
  <2>1. /\ clusters' = Without(clusters, {ccur}) /\ cpc = "delete" /\ cpc' = "visit"
        /\ UNCHANGED <<created, table, subs, late>>
    BY <1>4 DEF CleanupDelete
  <2>2. Visited = clusters[ccur]
    BY <2>1, VisitedIsObject
  <2>3. Orphans' \subseteq Orphans \cup {Visited}
    BY <2>1, <2>2 DEF Orphans, Registered, Without
  <2>4. LossNeedsRace'
    BY <2>1, <2>3 DEF LossInv, LossNeedsRace, CheckedInv
  <2> QED BY <2>1, <2>4 DEF LossInv, CheckedInv
<1> QED BY <1>1, <1>2, <1>3, <1>4 DEF CleanupStep

\* Steps that do not concern objects.
LEMMA LossElsewhere ==
  ASSUME LossInv, UNCHANGED <<memory, cleanup, late>>
  PROVE  LossInv'
BY DEF LossInv, LossNeedsRace, CheckedInv, Visited, Orphans, Registered, memory, cleanup

\* Whatever State.Cleanup drops is empty, unless an RPC that held the pointer
\* used it after Cleanup had looked: the unlocked checks can lose nothing else.
THEOREM CleanupLosesNothingElse == Spec => []LossNeedsRace
<1>1. Init => LossInv
  BY DEF Init, LossInv, LossNeedsRace, CheckedInv, Orphans
<1>2. IInv /\ LossInv /\ [Next]_vars => LossInv'
  <2> SUFFICES ASSUME IInv, LossInv, [Next]_vars PROVE LossInv'
    OBVIOUS
  <2>1. ASSUME NEW h \in Handlers, NEW c \in ClusterIDs, NEW req \in UpdateRequests, UpdateLoad(h, c, req)
        PROVE  LossInv'
    BY <2>1, LossByLoads DEF UpdateLoad
  <2>2. ASSUME NEW h \in Handlers, NEW c \in WatchRequests, WatchLoad(h, c) PROVE LossInv'
    <3>1. c \in ClusterIDs
      BY StateAssumption
    <3> QED BY <2>2, <3>1, LossByLoads DEF WatchLoad
  <2>3. ASSUME NEW h \in Handlers, NEW c \in ClusterIDs, NEW id \in DeleteRequests, DeleteLoad(h, c, id)
        PROVE  LossInv'
    BY <2>3, LossElsewhere DEF DeleteLoad
  <2>4. CASE SaveBegin \/ SaveStep \/ Tick \/ UNCHANGED vars
    <3>1. UNCHANGED <<memory, cleanup, late>>
      BY <2>4 DEF SaveBegin, SaveStep, SaveVisit, SaveCopy, SaveNothingLeft, atomicWriteFile, Tick, vars
    <3> QED BY <3>1, LossElsewhere
  <2>5. CASE Restart
    <3>1. Orphans' = {}
      BY <2>5, RestartFacts DEF Orphans, Registered
    <3>2. cpc' = "idle"
      BY <2>5 DEF Restart
    <3> QED BY <3>1, <3>2 DEF LossInv, LossNeedsRace, CheckedInv
  <2> QED BY <2>1, <2>2, <2>3, <2>4, <2>5, LossByRpcs, LossByCleanup DEF Next
<1>3. LossInv => LossNeedsRace
  BY DEF LossInv
<1> QED BY <1>1, <1>2, <1>3, IInvAlways, PTL DEF Spec

-----------------------------------------------------------------------------
(***************************************************************************)
(* What SaveSnapshot has taken so far, of the affiliates left alone since  *)
(* it began.                                                               *)
(***************************************************************************)
SteadyInv ==
  spc # "idle" =>
    \A p \in steady :
      /\ p \in OnRecord
      /\ p[1] \in DOMAIN snap => p[2] \in DOMAIN snap[p[1]] /\ snap[p[1]][p[2]] = Stored(p)
      /\ p[1] \notin DOMAIN snap => p[1] \in stodo \/ (spc = "copy" /\ sobj[1] = p[1])
      /\ spc = "copy" /\ sobj[1] = p[1] => sobj[2] = clusters[p[1]]

WriteInv == spc = "write" => stodo = {}

SaveInv == SteadyInv /\ WriteInv /\ SavedSurvives

\* A step that changes tables or the registry takes what it changes out of the
\* two sets; an entry that stays keeps its object.
LEMMA SaveByChange ==
  ASSUME SaveInv, KeepSteady, UNCHANGED <<saver, file>>,
         \A c \in DOMAIN clusters \cap DOMAIN clusters' : clusters'[c] = clusters[c]
  PROVE  SaveInv'
<1>1. ASSUME NEW p \in steady' \cup saved'
      PROVE  p \in OnRecord' /\ Stored(p)' = Stored(p) /\ p[1] \in DOMAIN clusters'
  BY DEF KeepSteady, Untouched, OnRecord
<1>2. steady' \subseteq steady /\ saved' \subseteq saved
  BY KeepSteadyFacts
<1>3. SavedSurvives'
  <2> SUFFICES ASSUME NEW p \in saved'
               PROVE  /\ p \in OnRecord'
                      /\ p[1] \in DOMAIN file' /\ p[2] \in DOMAIN file'[p[1]]
                      /\ file'[p[1]][p[2]] = Stored(p)'
    BY DEF SavedSurvives
  <2> QED BY <1>1, <1>2 DEF SaveInv, SavedSurvives
<1>4. SteadyInv'
  <2> SUFFICES ASSUME spc' # "idle", NEW p \in steady'
               PROVE  /\ p \in OnRecord'
                      /\ p[1] \in DOMAIN snap' => p[2] \in DOMAIN snap'[p[1]] /\ snap'[p[1]][p[2]] = Stored(p)'
                      /\ p[1] \notin DOMAIN snap' => p[1] \in stodo' \/ (spc' = "copy" /\ sobj'[1] = p[1])
                      /\ spc' = "copy" /\ sobj'[1] = p[1] => sobj'[2] = clusters'[p[1]]
    BY DEF SteadyInv
  <2>1. /\ p \in OnRecord
        /\ p[1] \in DOMAIN snap => p[2] \in DOMAIN snap[p[1]] /\ snap[p[1]][p[2]] = Stored(p)
        /\ p[1] \notin DOMAIN snap => p[1] \in stodo \/ (spc = "copy" /\ sobj[1] = p[1])
        /\ spc = "copy" /\ sobj[1] = p[1] => sobj[2] = clusters[p[1]]
    BY <1>2 DEF SaveInv, SteadyInv, saver
  <2>2. clusters'[p[1]] = clusters[p[1]]
    BY <1>1, <2>1 DEF OnRecord
  <2> QED BY <1>1, <2>1, <2>2 DEF saver
<1>5. WriteInv'
  BY DEF SaveInv, WriteInv, saver
<1> QED BY <1>3, <1>4, <1>5 DEF SaveInv

\* Steps that touch neither the tables nor the saver.
LEMMA SaveElsewhere ==
  ASSUME SaveInv, UNCHANGED <<clusters, table, saver, file, history>>
  PROVE  SaveInv'
BY DEF SaveInv, SteadyInv, WriteInv, SavedSurvives, OnRecord, Stored, saver, history

\* SaveSnapshot takes each affiliate left alone from the object that is
\* registered, and writes when it has been through all of them.
LEMMA SaveBySaver ==
  ASSUME IInv, SaveInv, SaveBegin \/ SaveStep
  PROVE  SaveInv'
<1>0. UNCHANGED <<clusters, table>>
  BY DEF SaveBegin, SaveStep, SaveVisit, SaveCopy, SaveNothingLeft, atomicWriteFile, memory
<1>1. OnRecord' = OnRecord /\ \A p : Stored(p)' = Stored(p)
  BY <1>0 DEF OnRecord, Stored
<1>2. ASSUME UNCHANGED <<file, saved>> PROVE SavedSurvives'
  BY <1>0, <1>1, <1>2 DEF SaveInv, SavedSurvives, Stored
<1>3. CASE SaveBegin
  <2>1. /\ spc' = "visit" /\ steady' = OnRecord /\ stodo' = DOMAIN clusters /\ DOMAIN snap' = {}
        /\ UNCHANGED <<file, saved>>
    BY <1>3 DEF SaveBegin, EmptyMap
  <2>2. SteadyInv'
    BY <1>0, <1>1, <2>1 DEF SteadyInv, OnRecord
  <2> QED BY <1>2, <2>1, <2>2 DEF SaveInv, WriteInv
<1>4. ASSUME NEW c \in ClusterIDs, SaveVisit(c) PROVE SaveInv'
  <2>1. spc = "visit" /\ stodo' = stodo \ {c} /\ UNCHANGED <<snap, file, steady, saved>>
    BY <1>4 DEF SaveVisit, history
  <2>2. CASE c \in DOMAIN clusters
    <3>1. sobj' = <<c, clusters[c]>> /\ spc' = "copy"
      BY <1>4, <2>2 DEF SaveVisit
    <3>2. SteadyInv'
      BY <1>0, <1>1, <2>1, <3>1 DEF SaveInv, SteadyInv, Stored
    <3> QED BY <1>2, <2>1, <3>1, <3>2 DEF SaveInv, WriteInv
  <2>3. CASE c \notin DOMAIN clusters
    <3>1. UNCHANGED <<sobj, spc>>
      BY <1>4, <2>3 DEF SaveVisit
    <3>2. \A p \in steady : p[1] # c
      BY <2>1, <2>3 DEF SaveInv, SteadyInv, OnRecord
    <3>3. SteadyInv'
      BY <1>0, <1>1, <2>1, <3>1, <3>2 DEF SaveInv, SteadyInv, Stored
    <3> QED BY <1>2, <2>1, <3>1, <3>3 DEF SaveInv, WriteInv
  <2> QED BY <2>2, <2>3
<1>5. CASE SaveCopy
  <2>1. /\ spc = "copy" /\ spc' = "visit"
        /\ snap' = Put(snap, sobj[1], table[sobj[2]])
        /\ UNCHANGED <<stodo, sobj, file, steady, saved>>
    BY <1>5 DEF SaveCopy, history
  <2>2. /\ DOMAIN snap' = DOMAIN snap \cup {sobj[1]}
        /\ snap'[sobj[1]] = table[sobj[2]]
        /\ \A c \in DOMAIN snap \ {sobj[1]} : snap'[c] = snap[c]
    BY <2>1 DEF Put
  <2>3. ASSUME NEW p \in steady
        PROVE  /\ p \in OnRecord
               /\ p[1] \in DOMAIN snap' => p[2] \in DOMAIN snap'[p[1]] /\ snap'[p[1]][p[2]] = Stored(p)
               /\ p[1] \notin DOMAIN snap' => p[1] \in stodo
    <3>1. /\ p \in OnRecord
          /\ p[1] \in DOMAIN snap => p[2] \in DOMAIN snap[p[1]] /\ snap[p[1]][p[2]] = Stored(p)
          /\ p[1] \notin DOMAIN snap => p[1] \in stodo \/ sobj[1] = p[1]
          /\ sobj[1] = p[1] => sobj[2] = clusters[p[1]]
      BY <2>1 DEF SaveInv, SteadyInv
    <3>2. CASE p[1] = sobj[1]
      BY <2>2, <3>1, <3>2 DEF OnRecord, Stored
    <3>3. CASE p[1] # sobj[1]
      BY <2>2, <3>1, <3>3
    <3> QED BY <3>2, <3>3
  <2>4. SteadyInv'
    BY <1>0, <1>1, <2>1, <2>3 DEF SteadyInv, Stored
  <2> QED BY <1>2, <2>1, <2>4 DEF SaveInv, WriteInv
<1>6. CASE SaveNothingLeft
  <2>1. spc = "visit" /\ spc' = "write" /\ stodo = {} /\ UNCHANGED <<stodo, sobj, snap, file, steady, saved>>
    BY <1>6 DEF SaveNothingLeft, history
  <2>2. SteadyInv'
    BY <1>0, <1>1, <2>1 DEF SaveInv, SteadyInv, Stored
  <2> QED BY <1>2, <2>1, <2>2 DEF SaveInv, WriteInv
<1>7. CASE atomicWriteFile
  <2>1. spc = "write" /\ spc' = "idle"
    BY <1>7 DEF atomicWriteFile
  <2>2. SteadyInv' /\ WriteInv'
    BY <2>1 DEF SteadyInv, WriteInv
  <2>3. CASE file' = snap /\ saved' = steady
    <3>1. \A p \in steady : /\ p \in OnRecord /\ p[1] \in DOMAIN snap
                            /\ p[2] \in DOMAIN snap[p[1]] /\ snap[p[1]][p[2]] = Stored(p)
      BY <2>1 DEF SaveInv, SteadyInv, WriteInv
    <3>2. SavedSurvives'
      BY <1>0, <1>1, <2>3, <3>1 DEF SavedSurvives, Stored
    <3> QED BY <2>2, <3>2 DEF SaveInv
  <2>4. CASE UNCHANGED <<file, saved>>
    BY <1>2, <2>2, <2>4 DEF SaveInv
  <2> QED BY <1>7, <2>3, <2>4 DEF atomicWriteFile
<1> QED BY <1>3, <1>4, <1>5, <1>6, <1>7 DEF SaveStep

\* A new process finds in the registry what the file holds.
LEMMA SaveByRestart ==
  ASSUME IInv, SaveInv, Restart
  PROVE  SaveInv'
<1>1. spc' = "idle" /\ UNCHANGED <<file, saved>>
  BY DEF Restart
<1>2. SavedSurvives'
  <2> SUFFICES ASSUME NEW p \in saved
               PROVE  /\ p \in OnRecord'
                      /\ p[1] \in DOMAIN file /\ p[2] \in DOMAIN file[p[1]]
                      /\ file[p[1]][p[2]] = Stored(p)'
    BY <1>1 DEF SavedSurvives
  <2>1. p[1] \in DOMAIN file /\ p[2] \in DOMAIN file[p[1]] /\ p \in ClusterIDs \X AffiliateIDs
    BY DEF SaveInv, SavedSurvives, OnRecord
  <2>2. table'[clusters'[p[1]]] = file[p[1]] /\ p[1] \in DOMAIN clusters'
    BY <2>1, RestartFacts
  <2> QED BY <2>1, <2>2 DEF OnRecord, Stored
<1> QED BY <1>1, <1>2 DEF SaveInv, SteadyInv, WriteInv

\* An affiliate on record when SaveSnapshot began and left alone since is in
\* the file that run wrote and, restarts or not, in the registry as it was.
THEOREM SnapshotKeeps == Spec => []SavedSurvives
<1>1. Init => SaveInv
  BY DEF Init, SaveInv, SteadyInv, WriteInv, SavedSurvives
<1>2. IInv /\ SaveInv /\ [Next]_vars => SaveInv'
  <2> SUFFICES ASSUME IInv, SaveInv, [Next]_vars PROVE SaveInv'
    OBVIOUS
  <2>1. ASSUME NEW h \in Handlers, NEW c \in ClusterIDs, NEW req \in UpdateRequests, UpdateLoad(h, c, req)
        PROVE  SaveInv'
    <3>1. ClusterFor(h, c) /\ KeepSteady /\ UNCHANGED <<saver, file>>
      BY <2>1 DEF UpdateLoad
    <3> QED BY <3>1, ClusterForFacts, SaveByChange
  <2>2. ASSUME NEW h \in Handlers, NEW c \in WatchRequests, WatchLoad(h, c) PROVE SaveInv'
    <3>1. c \in ClusterIDs /\ ClusterFor(h, c) /\ KeepSteady /\ UNCHANGED <<saver, file>>
      BY <2>2, StateAssumption DEF WatchLoad
    <3> QED BY <3>1, ClusterForFacts, SaveByChange
  <2>3. ASSUME NEW h \in Handlers, UpdateCommit(h) \/ DeleteCommit(h) PROVE SaveInv'
    <3>1. KeepSteady /\ UNCHANGED <<saver, file, clusters>>
      BY <2>3 DEF UpdateCommit, DeleteCommit
    <3> QED BY <3>1, SaveByChange
  <2>4. ASSUME NEW c \in ctodo, CleanupPrune(c) PROVE SaveInv'
    <3>1. KeepSteady /\ UNCHANGED <<saver, file, clusters>>
      BY <2>4 DEF CleanupPrune
    <3> QED BY <3>1, SaveByChange
  <2>5. CASE CleanupDelete
    <3>1. KeepSteady /\ UNCHANGED <<saver, file>> /\ clusters' = Without(clusters, {ccur})
      BY <2>5 DEF CleanupDelete
    <3>2. \A c \in DOMAIN clusters \cap DOMAIN clusters' : clusters'[c] = clusters[c]
      BY <3>1 DEF Without
    <3> QED BY <3>1, <3>2, SaveByChange
  <2>6. ASSUME NEW h \in Handlers,
               \/ \E c \in ClusterIDs, id \in DeleteRequests : DeleteLoad(h, c, id)
               \/ Prolong(h) \/ Subscribe(h) \/ Unsubscribe(h)
        PROVE  SaveInv'
    <3>1. UNCHANGED <<clusters, table, saver, file, history>>
      BY <2>6 DEF DeleteLoad, Prolong, Subscribe, Unsubscribe, memory
    <3> QED BY <3>1, SaveElsewhere
  <2>7. CASE CleanupBegin \/ CheckExpired \/ CheckAffiliates \/ CheckSubscribers \/ CleanupEnd \/ Tick \/ UNCHANGED vars
    <3>1. UNCHANGED <<clusters, table, saver, file, history>>
      BY <2>7 DEF CleanupBegin, CheckExpired, CheckAffiliates, CheckSubscribers, CleanupCheck, CleanupEnd, Tick,
         vars, memory
    <3> QED BY <3>1, SaveElsewhere
  <2> QED BY <2>1, <2>2, <2>3, <2>4, <2>5, <2>6, <2>7, SaveBySaver, SaveByRestart DEF Next, RpcStep, CleanupStep
<1>3. SaveInv => SavedSurvives
  BY DEF SaveInv
<1> QED BY <1>1, <1>2, <1>3, IInvAlways, PTL DEF Spec
=============================================================================
