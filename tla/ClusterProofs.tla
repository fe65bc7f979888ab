--------------------------- MODULE ClusterProofs ---------------------------
(***************************************************************************)
(* Theorems about Cluster.tla for every number of handlers, streams and    *)
(* affiliates, every buffer size, every limit and every TTL.               *)
(***************************************************************************)
EXTENDS Cluster, AffiliateProofs, TLAPS

-----------------------------------------------------------------------------
(***************************************************************************)
(* What streams carry.                                                     *)
(***************************************************************************)
Infos == PartialFunctions(AffiliateIDs, AffiliateInfo)

\* Membership in a set of partial functions.
LEMMA InfosIs ==
  ASSUME NEW f
  PROVE  f \in Infos <=> DOMAIN f \subseteq AffiliateIDs /\ f \in [DOMAIN f -> AffiliateInfo]
BY DEF Infos, PartialFunctions

\* A client starts with an empty picture.
LEMMA EmptyInfos == EmptyMap \in Infos
BY InfosIs DEF EmptyMap

\* The empty affiliate that a tombstone carries is an affiliate.
LEMMA NoInfoTyped == NoInfo \in AffiliateInfo
BY DEF NoInfo, AffiliateInfo

\* What the server tells of a stored affiliate.
LEMMA ToInfoTyped ==
  ASSUME NEW a, IsAffiliate(a)
  PROVE  ToInfo(a) \in AffiliateInfo
BY DEF ToInfo, AffiliateInfo, IsAffiliate

\* The snapshot that listAffiliatesLocked takes is a map of affiliates.
LEMMA ListTyped ==
  ASSUME NEW affs, IsAffiliateTable(affs)
  PROVE  listAffiliatesLocked(affs) \in Infos
<1> DEFINE l == listAffiliatesLocked(affs)
<1>1. DOMAIN l = DOMAIN affs /\ l = [id \in DOMAIN affs |-> ToInfo(affs[id])]
  BY DEF listAffiliatesLocked
<1>2. \A id \in DOMAIN affs : ToInfo(affs[id]) \in AffiliateInfo
  BY ToInfoTyped DEF IsAffiliateTable
<1> QED BY <1>1, <1>2, InfosIs DEF IsAffiliateTable

\* The response that clusterServer.Watch makes of an event.
LEMMA ResponseTyped ==
  ASSUME NEW e \in AffiliateEvent
  PROVE  toResponse(e) \in WatchResponse
<1>1. [id \in {e.id} |-> e.info] \in Infos
  BY InfosIs DEF AffiliateEvent
<1> QED BY <1>1 DEF toResponse, WatchResponse, Infos

\* A client that follows a response has a map of affiliates again.
LEMMA ApplyTyped ==
  ASSUME NEW v \in Infos, NEW r \in WatchResponse
  PROVE  Apply(v, r) \in Infos
<1>1. r.affiliates \in Infos
  BY DEF WatchResponse, Infos
<1>2. /\ DOMAIN v \subseteq AffiliateIDs /\ v \in [DOMAIN v -> AffiliateInfo]
      /\ DOMAIN r.affiliates \subseteq AffiliateIDs
      /\ r.affiliates \in [DOMAIN r.affiliates -> AffiliateInfo]
  BY <1>1, InfosIs
<1>3. CASE r.deleted
  BY <1>2, <1>3, InfosIs DEF Apply, Without
<1>4. CASE ~r.deleted
  <2> DEFINE f == [id \in DOMAIN v \cup DOMAIN r.affiliates |->
                    IF id \in DOMAIN r.affiliates THEN r.affiliates[id] ELSE v[id]]
  <2>1. DOMAIN f \subseteq AffiliateIDs /\ f \in [DOMAIN f -> AffiliateInfo]
    BY <1>2
  <2>2. f \in Infos
    BY <2>1, InfosIs
  <2> QED BY <1>4, <2>2 DEF Apply
<1> QED BY <1>3, <1>4

\* The events that the handlers and Prune commit.
LEMMA EventsTyped ==
  ASSUME NEW affs, IsAffiliateTable(affs), NEW id \in AffiliateIDs
  PROVE  /\ Tombstone(id) \in PendingEvent
         /\ id \in DOMAIN affs => Upsert(id, affs) \in PendingEvent
<1>1. Listening \subseteq Watches
  BY DEF Listening
<1>2. Tombstone(id) \in PendingEvent
  BY <1>1, NoInfoTyped DEF Tombstone, PendingEvent
<1>3. ASSUME id \in DOMAIN affs PROVE Upsert(id, affs) \in PendingEvent
  <2>1. ToInfo(affs[id]) \in AffiliateInfo
    BY <1>3, ToInfoTyped DEF IsAffiliateTable
  <2> QED BY <1>1, <2>1 DEF Upsert, PendingEvent
<1> QED BY <1>2, <1>3

-----------------------------------------------------------------------------
(***************************************************************************)
(* Type correctness.  It needs CarriesEvent: TrySend updates the event its *)
(* thread carries and the channel of the subscription it is notifying.     *)
(***************************************************************************)
LEMMA TypeInit == Init => TypeOK
<1> SUFFICES ASSUME Init PROVE TypeOK
  OBVIOUS
<1>1. TableTyped
  BY ClusterAssumption DEF Init, TableTyped, EmptyMap, IsAffiliateTable, ZeroTime
<1>2. ThreadsTyped /\ SubscriptionsTyped
  BY DEF Init, ThreadsTyped, SubscriptionsTyped, ZeroTime
<1>3. NoResponse \in WatchResponse /\ EmptyMap \in PartialFunctions(AffiliateIDs, AffiliateInfo)
  BY EmptyInfos DEF NoResponse, WatchResponse, Infos
<1>4. WatchesTyped
  BY <1>3 DEF Init, WatchesTyped
<1> QED
  BY <1>1, <1>2, <1>4 DEF TypeOK

\* Only affiliates are ever unsettled.
LEMMA SettleTyped ==
  ASSUME TableTyped, NEW A \in SUBSET AffiliateIDs, NEW B \in SUBSET AffiliateIDs, Settle(A, B)
  PROVE  unsettled' \subseteq AffiliateIDs
BY DEF Settle, TableTyped

\* So is what a panic keeps from open streams.
LEMMA PanicTyped ==
  ASSUME TypeOK, NEW t \in Threads, Panics(t)
  PROVE  unsettled' \subseteq AffiliateIDs
<1>1. \A e \in Unsent(t) : e.id \in AffiliateIDs
  BY DEF Unsent, TypeOK, ThreadsTyped, PendingEvent
<1> QED BY <1>1 DEF Panics, TypeOK, TableTyped

\* What a step leaves alone stays typed.
LEMMA UnchangedTyped ==
  ASSUME TypeOK
  PROVE  /\ UNCHANGED <<now, tableVars, subscribers, unsettled>> => TableTyped'
         /\ UNCHANGED threadVars => ThreadsTyped'
         /\ UNCHANGED subVars => SubscriptionsTyped'
         /\ UNCHANGED watchVars => WatchesTyped'
<1>1. UNCHANGED <<now, tableVars, subscribers, unsettled>> => TableTyped'
  BY DEF TypeOK, TableTyped, tableVars
<1>2. UNCHANGED threadVars => ThreadsTyped'
  BY DEF TypeOK, ThreadsTyped, threadVars
<1>3. UNCHANGED subVars => SubscriptionsTyped'
  BY DEF TypeOK, SubscriptionsTyped, subVars
<1>4. UNCHANGED watchVars => WatchesTyped'
  BY DEF TypeOK, WatchesTyped, watchVars
<1> QED BY <1>1, <1>2, <1>3, <1>4

\* Every step keeps the types.  That a thread in a fan-out carries an event is
\* needed for Subscription.notify, which reads it.
LEMMA TypeStep == TypeOK /\ CarriesEvent /\ [Next]_vars => TypeOK'
<1> SUFFICES ASSUME TypeOK, CarriesEvent, [Next]_vars
             PROVE  /\ TableTyped'
                    /\ ThreadsTyped'
                    /\ SubscriptionsTyped'
                    /\ WatchesTyped'
  BY DEF TypeOK
<1>0. TableTyped /\ ThreadsTyped /\ SubscriptionsTyped /\ WatchesTyped
  BY DEF TypeOK
<1>1. ASSUME NEW h \in Handlers, NEW req \in UpdateRequests, UpdateAffiliate(h, req)
      PROVE  TypeOK'
  <2> DEFINE res == updateAffiliateLocked(affiliates, req, now)
             events == IF res.event THEN {Upsert(req.id, res.affiliates)} ELSE {}
             silent == ~res.event /\ listAffiliatesLocked(res.affiliates) # listAffiliatesLocked(affiliates)
  <2>1. req \in UpdateRequest /\ req.id \in AffiliateIDs /\ h \in Threads
    BY ClusterAssumption DEF UpdateRequest, Threads
  <2>2. /\ IsAffiliateTable(res.affiliates)
        /\ res.event \in BOOLEAN
        /\ res.event => req.id \in DOMAIN res.affiliates
        /\ res.error \in {"nil", "ErrTooManyAffiliates", "ErrTooManyEndpoints"}
    BY <1>0, <2>1, UpdateTyped DEF TableTyped
  <2>3. events \in SUBSET PendingEvent
    BY <2>1, <2>2, EventsTyped
  <2>4. {e.id : e \in events} \subseteq AffiliateIDs
    BY <2>3 DEF PendingEvent
  <2> HIDE DEF res
  <2>5. unsettled' \subseteq AffiliateIDs
    BY <1>0, <1>1, <2>1, <2>4, SettleTyped DEF UpdateAffiliate, res
  <2>6. TableTyped'
    BY <1>0, <1>1, <2>2, <2>5 DEF UpdateAffiliate, TableTyped, res
  <2>7. backlog' \in [Threads -> SUBSET PendingEvent]
    BY <1>0, <1>1, <2>1, <2>3 DEF UpdateAffiliate, ThreadsTyped, res
  <2>8. /\ pc' = [pc EXCEPT ![h] = "copy"] \/ pc' = [pc EXCEPT ![h] = "done"]
        /\ result' = result \/ result' = [result EXCEPT ![h] = res.error]
        /\ UNCHANGED <<pruneNow, ev, targets, cur>>
    BY <1>1 DEF UpdateAffiliate, Return, res
  <2>9. ThreadsTyped'
    BY <1>0, <2>1, <2>2, <2>7, <2>8 DEF ThreadsTyped
  <2> QED
    BY <1>1, <2>6, <2>9, UnchangedTyped DEF UpdateAffiliate, TypeOK
<1>2. ASSUME NEW h \in Handlers, NEW id \in DeleteRequests, DeleteAffiliate(h, id)
      PROVE  TypeOK'
  <2>1. id \in AffiliateIDs /\ h \in Threads
    BY ClusterAssumption DEF Threads
  <2>2. IsAffiliateTable(affiliates')
    BY <1>0, <1>2, DeleteTyped DEF DeleteAffiliate, TableTyped
  <2>3. Tombstone(id) \in PendingEvent
    BY <1>0, <2>1, EventsTyped DEF TableTyped
  <2>4. unsettled' \subseteq AffiliateIDs
    BY <1>0, <1>2, <2>1, SettleTyped DEF DeleteAffiliate, TableTyped
  <2>5. TableTyped'
    BY <1>0, <1>2, <2>2, <2>4 DEF DeleteAffiliate, TableTyped
  <2>6. /\ backlog' = backlog \/ backlog' = [backlog EXCEPT ![h] = {Tombstone(id)}]
        /\ pc' = [pc EXCEPT ![h] = "prolong"] \/ pc' = [pc EXCEPT ![h] = "done"]
        /\ result' = result \/ result' = [result EXCEPT ![h] = "nil"]
        /\ UNCHANGED <<pruneNow, ev, targets, cur>>
    BY <1>2 DEF DeleteAffiliate, Return
  <2>7. ThreadsTyped'
    BY <1>0, <2>1, <2>3, <2>6 DEF ThreadsTyped
  <2> QED
    BY <1>2, <2>5, <2>7, UnchangedTyped DEF DeleteAffiliate, TypeOK
<1>3. CASE PruneReadClock
  <2>1. ThreadsTyped'
    BY <1>0, <1>3 DEF PruneReadClock, ThreadsTyped, TableTyped, Threads
  <2> QED
    BY <1>3, <2>1, UnchangedTyped DEF PruneReadClock, TypeOK
<1>4. CASE Prune
  <2> DEFINE kept == pruneAffiliates(affiliates, pruneNow)
             expired == Expired(affiliates, pruneNow)
             shrunk == Shrunk(affiliates, pruneNow)
             events == {Tombstone(id) : id \in expired} \cup {Upsert(id, kept) : id \in shrunk}
  <2>1. /\ IsAffiliateTable(kept)
        /\ expired \subseteq AffiliateIDs
        /\ shrunk \subseteq DOMAIN kept
        /\ shrunk \subseteq AffiliateIDs
    BY <1>0, PruneTyped DEF TableTyped, ThreadsTyped, IsAffiliateTable
  <2> HIDE DEF kept, expired, shrunk
  <2>2. events \in SUBSET PendingEvent
    BY <2>1, EventsTyped
  <2>3. unsettled' \subseteq AffiliateIDs
    BY <1>0, <1>4, <2>1, SettleTyped DEF Prune, expired, shrunk
  <2>4. affiliates' = kept /\ backlog' = [backlog EXCEPT ![Cleanup] = events]
    BY <1>4 DEF Prune, kept, expired, shrunk
  <2>5. /\ pc' = [pc EXCEPT ![Cleanup] = "idle"] \/ pc' = [pc EXCEPT ![Cleanup] = "copy"]
        /\ UNCHANGED <<now, expiry, subscribers, pruneNow, ev, targets, cur, result, subVars, watchVars>>
    BY <1>4 DEF Prune
  <2>6. TableTyped'
    BY <1>0, <2>1, <2>3, <2>4, <2>5 DEF TableTyped
  <2>7. ThreadsTyped'
    BY <1>0, <2>2, <2>4, <2>5 DEF ThreadsTyped, Threads
  <2> QED
    BY <2>5, <2>6, <2>7, UnchangedTyped DEF TypeOK
<1>5. ASSUME NEW t \in Threads, ThreadStep(t)
      PROVE  TypeOK'
  <2>1. CASE ProlongAfterDelete(t)
    <3>1. TableTyped' /\ ThreadsTyped'
      BY <1>0, <2>1, ClusterAssumption DEF ProlongAfterDelete, prolongExpiry, TableTyped, ThreadsTyped
    <3> QED BY <2>1, <3>1, UnchangedTyped DEF ProlongAfterDelete, TypeOK
  <2>2. ASSUME NEW e \in backlog[t], CopySubscribers(t, e)
        PROVE  TypeOK'
    <3>1. ThreadsTyped'
      BY <1>0, <2>2 DEF CopySubscribers, ThreadsTyped, TableTyped
    <3> QED BY <2>2, <3>1, UnchangedTyped DEF CopySubscribers, TypeOK
  <2>3. ASSUME NEW w \in Watches, LoadClosed(t, w)
        PROVE  TypeOK'
    <3>1. ThreadsTyped'
      BY <1>0, <2>3 DEF LoadClosed, ThreadsTyped
    <3> QED BY <2>3, <3>1, UnchangedTyped DEF LoadClosed, TypeOK
  <2>4. CASE TrySend(t)
    <3> DEFINE w == cur[t]
    <3>1. w \in Watches /\ ev[t] \in PendingEvent
      BY <2>4 DEF TrySend, CarriesEvent, Notifying
    <3>2. CASE Panics(t) \/ BufferFull(t, w)
      <4>1. ThreadsTyped' /\ SubscriptionsTyped'
        BY <1>0, <2>4, <3>2 DEF TrySend, Panics, BufferFull, ThreadsTyped, SubscriptionsTyped
      <4>2. unsettled' \subseteq AffiliateIDs
        BY <1>0, <3>2, PanicTyped DEF BufferFull, TableTyped
      <4>3. TableTyped'
        BY <1>0, <2>4, <4>2 DEF TrySend, TableTyped, tableVars
      <4> QED BY <2>4, <4>1, <4>3, UnchangedTyped DEF TrySend, TypeOK
    <3>3. CASE Enqueue(t, w)
      <4>1. Announced(ev[t]) \in AffiliateEvent
        BY <3>1 DEF Announced, PendingEvent, AffiliateEvent
      <4>2. SubscriptionsTyped'
        BY <1>0, <2>4, <3>1, <3>3, <4>1 DEF TrySend, Enqueue, SubscriptionsTyped
      <4>3. [ev[t] EXCEPT !.owed = @ \ {w}] \in PendingEvent
        BY <3>1 DEF PendingEvent
      <4>4. ev' = [ev EXCEPT ![t] = [ev[t] EXCEPT !.owed = @ \ {w}]]
        BY <3>3 DEF Enqueue
      <4>5. ThreadsTyped'
        BY <1>0, <2>4, <3>3, <4>3, <4>4 DEF TrySend, Enqueue, ThreadsTyped
      <4> QED BY <2>4, <3>3, <4>2, <4>5, UnchangedTyped DEF TrySend, Enqueue, TypeOK
    <3> QED BY <2>4, <3>2, <3>3 DEF TrySend
  <2>5. CASE ReportLost(t)
    <3>1. ThreadsTyped' /\ SubscriptionsTyped'
      BY <1>0, <2>5 DEF ReportLost, Panics, ThreadsTyped, SubscriptionsTyped
    <3>2. unsettled' \subseteq AffiliateIDs
      BY <1>0, <2>5, PanicTyped DEF ReportLost, TableTyped
    <3>3. TableTyped'
      BY <1>0, <2>5, <3>2 DEF ReportLost, TableTyped, tableVars
    <3> QED BY <2>5, <3>1, <3>3, UnchangedTyped DEF ReportLost, TypeOK
  <2>6. CASE Evict(t)
    <3> DEFINE w == cur[t]
    <3>1. /\ stage' = stage \/ stage' = [stage EXCEPT ![w] = "flagged"]
          /\ pc' = pc \/ pc' = [pc EXCEPT ![t] = "fanout"]
          /\ cur' = cur \/ cur' = [cur EXCEPT ![t] = Nil]
          /\ UNCHANGED <<now, tableVars, subscribers, pruneNow, backlog, ev, targets, result, ch,
                         lost, watchVars, unsettled>>
      BY <2>6 DEF Evict
    <3>2. ThreadsTyped'
      BY <1>0, <3>1 DEF ThreadsTyped
    <3>3. SubscriptionsTyped'
      BY <1>0, <3>1 DEF SubscriptionsTyped
    <3> QED BY <3>1, <3>2, <3>3, UnchangedTyped DEF TypeOK
  <2>7. CASE FinishFanout(t)
    <3>1. ThreadsTyped'
      BY <1>0, <2>7 DEF FinishFanout, Return, ThreadsTyped
    <3> QED BY <2>7, <3>1, UnchangedTyped DEF FinishFanout, TypeOK
  <2> QED BY <1>5, <2>1, <2>2, <2>3, <2>4, <2>5, <2>6, <2>7 DEF ThreadStep
<1>6. ASSUME NEW w \in Watches, SubscribeWithSnapshot(w)
      PROVE  TypeOK'
  <2> DEFINE first == [deleted |-> FALSE, affiliates |-> listAffiliatesLocked(affiliates)]
  <2>1. first \in WatchResponse
    BY <1>0, ListTyped DEF WatchResponse, Infos, TableTyped
  <2>2. /\ outbox' = outbox \/ outbox' = [outbox EXCEPT ![w] = first]
        /\ wpc' = [wpc EXCEPT ![w] = "send"] \/ wpc' = [wpc EXCEPT ![w] = "select"]
        /\ subscribers' = subscribers \cup {w}
        /\ UNCHANGED <<now, tableVars, threadVars, subVars, ctxDone, wresult, view, unsettled>>
    BY <1>6 DEF SubscribeWithSnapshot
  <2>3. WatchesTyped'
    BY <1>0, <2>1, <2>2 DEF WatchesTyped
  <2>4. TableTyped'
    BY <1>0, <2>2 DEF TableTyped, tableVars
  <2> QED BY <2>2, <2>3, <2>4, UnchangedTyped DEF TypeOK
<1>7. ASSUME NEW w \in Watches, WatchStep(w)
      PROVE  TypeOK'
  <2>1. CASE SendFails(w)
    <3>1. NoResponse \in WatchResponse
      BY EmptyInfos DEF NoResponse, WatchResponse, Infos
    <3>2. WatchesTyped'
      BY <1>0, <2>1, <3>1 DEF SendFails, Returns, WatchesTyped
    <3> QED BY <2>1, <3>2, UnchangedTyped DEF SendFails, TypeOK
  <2>2. CASE SelectCtxDone(w)
    <3>1. WatchesTyped'
      BY <1>0, <2>2 DEF SelectCtxDone, Returns, WatchesTyped
    <3> QED BY <2>2, <3>1, UnchangedTyped DEF SelectCtxDone, TypeOK
  <2>3. CASE SelectErrors(w)
    <3>1. \E r \in {"lostUpdate", "Aborted"} : Returns(w, r)
      BY <2>3 DEF SelectErrors
    <3>2. WatchesTyped'
      BY <1>0, <2>3, <3>1 DEF SelectErrors, Returns, WatchesTyped
    <3>3. SubscriptionsTyped'
      BY <1>0, <2>3 DEF SelectErrors, SubscriptionsTyped
    <3> QED BY <2>3, <3>2, <3>3, UnchangedTyped DEF SelectErrors, TypeOK
  <2>4. CASE SelectEvents(w)
    <3>1. CASE ch[w] # <<>>
      <4>1. Head(ch[w]) \in AffiliateEvent /\ Tail(ch[w]) \in Seq(AffiliateEvent)
        BY <1>0, <3>1 DEF SubscriptionsTyped
      <4>2. toResponse(Head(ch[w])) \in WatchResponse
        BY <4>1, ResponseTyped
      <4>3. /\ outbox' = [outbox EXCEPT ![w] = toResponse(Head(ch[w]))]
            /\ ch' = [ch EXCEPT ![w] = Tail(ch[w])]
            /\ wpc' = [wpc EXCEPT ![w] = "send"]
            /\ UNCHANGED <<now, tableVars, subscribers, threadVars, lost, stage, ctxDone, wresult,
                           view, unsettled>>
        BY <2>4, <3>1 DEF SelectEvents
      <4>4. WatchesTyped'
        BY <1>0, <4>2, <4>3 DEF WatchesTyped
      <4>5. SubscriptionsTyped'
        BY <1>0, <4>1, <4>3 DEF SubscriptionsTyped
      <4> QED BY <4>3, <4>4, <4>5, UnchangedTyped DEF TypeOK
    <3>2. CASE ch[w] = <<>>
      <4>1. Returns(w, "nil") /\ UNCHANGED <<outbox, ch, now, tableVars, subscribers, threadVars,
                                             lost, stage, ctxDone, view, unsettled>>
        BY <2>4, <3>2 DEF SelectEvents
      <4>2. WatchesTyped'
        BY <1>0, <4>1 DEF Returns, WatchesTyped
      <4> QED BY <4>1, <4>2, UnchangedTyped DEF TypeOK, subVars
    <3> QED BY <3>1, <3>2
  <2>5. CASE DeferClose(w)
    <3>1. /\ stage' = stage \/ stage' = [stage EXCEPT ![w] = "flagged"]
          /\ wpc' = wpc \/ wpc' = [wpc EXCEPT ![w] = "done"]
          /\ ctxDone' = ctxDone \/ ctxDone' = [ctxDone EXCEPT ![w] = TRUE]
          /\ UNCHANGED <<now, tableVars, subscribers, threadVars, ch, lost, outbox, wresult, view,
                         unsettled>>
      BY <2>5 DEF DeferClose
    <3>2. WatchesTyped' /\ SubscriptionsTyped'
      BY <1>0, <3>1 DEF WatchesTyped, SubscriptionsTyped
    <3> QED BY <3>1, <3>2, UnchangedTyped DEF TypeOK
  <2>6. CASE CtxGoroutine(w)
    <3>1. SubscriptionsTyped'
      BY <1>0, <2>6 DEF CtxGoroutine, SubscriptionsTyped
    <3> QED BY <2>6, <3>1, UnchangedTyped DEF CtxGoroutine, TypeOK
  <2> QED BY <1>7, <2>1, <2>2, <2>3, <2>4, <2>5, <2>6 DEF WatchStep
<1>8. ASSUME NEW w \in Watches, Send(w)
      PROVE  TypeOK'
  <2>1. NoResponse \in WatchResponse
    BY EmptyInfos DEF NoResponse, WatchResponse, Infos
  <2>2. Apply(view[w], outbox[w]) \in PartialFunctions(AffiliateIDs, AffiliateInfo)
    BY <1>0, ApplyTyped DEF WatchesTyped, Infos
  <2>3. WatchesTyped'
    BY <1>0, <1>8, <2>1, <2>2 DEF Send, WatchesTyped
  <2> QED BY <1>8, <2>3, UnchangedTyped DEF Send, TypeOK
<1>9. ASSUME NEW w \in Watches, ClientCancel(w)
      PROVE  TypeOK'
  <2>1. WatchesTyped'
    BY <1>0, <1>9 DEF ClientCancel, WatchesTyped
  <2> QED BY <1>9, <2>1, UnchangedTyped DEF ClientCancel, TypeOK
<1>10. ASSUME NEW w \in Watches, CloseStep(w)
       PROVE  TypeOK'
  <2>0. /\ \E s \in {"removed", "chClosed", "errClosed", "closed"} :
             stage' = [stage EXCEPT ![w] = s]
        /\ UNCHANGED <<now, affiliates, threadVars, ch, lost, watchVars, unsettled>>
    BY <1>10 DEF CloseStep, Unregister, CloseChannels, ProlongAfterClose, tableVars
  <2>1. SubscriptionsTyped'
    BY <1>0, <2>0 DEF SubscriptionsTyped
  <2>2. /\ subscribers' = subscribers \/ subscribers' = subscribers \ {w}
        /\ expiry' = expiry \/ expiry' = now + ClusterTTL
    BY <1>10 DEF CloseStep, Unregister, CloseChannels, ProlongAfterClose, prolongExpiry, tableVars
  <2>3. TableTyped'
    BY <1>0, <2>0, <2>2, ClusterAssumption DEF TableTyped
  <2> QED BY <2>0, <2>1, <2>3, UnchangedTyped DEF TypeOK
<1>11. CASE Tick
  <2>1. TableTyped'
    BY <1>0, <1>11 DEF Tick, TableTyped, tableVars
  <2> QED BY <1>11, <2>1, UnchangedTyped DEF Tick, TypeOK
<1>12. CASE UNCHANGED vars
  BY <1>12, UnchangedTyped DEF vars, TypeOK
<1> QED
  BY <1>1, <1>2, <1>3, <1>4, <1>5, <1>6, <1>7, <1>8, <1>9, <1>10, <1>11, <1>12 DEF Next, TypeOK

-----------------------------------------------------------------------------
(***************************************************************************)
(* The fan-out invariant.  Steps of streams never make a stream that is    *)
(* owed an event reappear behind a fan-out; steps of threads move what is  *)
(* owed from the backlog to the targets, to the subscription in hand, and  *)
(* into its channel.                                                       *)
(***************************************************************************)
\* FanoutInv, one thread at a time.
ThreadInv(t) ==
  /\ BetweenStreams(t) \/ Notifying(t) => ev[t] \in PendingEvent
  /\ Notifying(t) => cur[t] \in Watches
  /\ \A e \in backlog[t] : \A w \in e.owed : wpc[w] # "idle"
  /\ BetweenStreams(t) \/ Notifying(t) => \A w \in ev[t].owed : wpc[w] # "idle"
  /\ BetweenStreams(t) => ev[t].owed \cap Listening \subseteq targets[t]
  /\ Notifying(t) => ev[t].owed \cap Listening \subseteq targets[t] \cup {cur[t]}

\* The fan-out invariant, thread by thread.
LEMMA FanoutByThread ==
  /\ FanoutInv <=> ListeningIsRegistered /\ \A t \in Threads : ThreadInv(t)
  /\ FanoutInv' <=> ListeningIsRegistered' /\ \A t \in Threads : ThreadInv(t)'
BY DEF FanoutInv, CarriesEvent, ListeningIsRegistered, OwedHaveBegun, OwedIsAhead, ThreadInv

\* A thread whose own state does not change keeps its invariant, whatever
\* streams do, as long as none that is owed something starts to listen again.
LEMMA ThreadInvKept ==
  ASSUME NEW t \in Threads, TypeOK, ThreadInv(t),
         pc'[t] = pc[t], ev'[t] = ev[t], cur'[t] = cur[t], targets'[t] = targets[t],
         backlog'[t] = backlog[t],
         \A w \in Watches : wpc[w] # "idle" => wpc'[w] # "idle",
         \A w \in Listening' \ Listening : wpc[w] = "idle"
  PROVE  ThreadInv(t)'
<1>1. \A e \in backlog[t] \cup {ev[t]} : e \in PendingEvent => e.owed \subseteq Watches
  BY DEF PendingEvent
<1>2. backlog[t] \subseteq PendingEvent
  BY DEF TypeOK, ThreadsTyped
<1>3. (Notifying(t)' <=> Notifying(t)) /\ (BetweenStreams(t)' <=> BetweenStreams(t))
  BY DEF BetweenStreams, Notifying
<1>4. \A e \in backlog'[t] : \A w \in e.owed : wpc'[w] # "idle"
  BY <1>1, <1>2 DEF ThreadInv
<1>5. BetweenStreams(t) \/ Notifying(t) => \A w \in ev'[t].owed : wpc'[w] # "idle"
  BY <1>1 DEF ThreadInv
<1>6. BetweenStreams(t) \/ Notifying(t) => ev[t].owed \cap Listening' \subseteq ev[t].owed \cap Listening
  BY DEF ThreadInv
<1> QED
  BY <1>3, <1>4, <1>5, <1>6 DEF ThreadInv

\* Steps that touch no thread, and after which no new stream listens.
LEMMA StreamStepKeepsFanout ==
  ASSUME TypeOK, FanoutInv, UNCHANGED threadVars,
         \A w \in Watches : wpc[w] # "idle" => wpc'[w] # "idle",
         \A w \in Listening' : w \in Listening /\ w \in subscribers'
  PROVE  FanoutInv'
<1>1. ListeningIsRegistered'
  BY DEF ListeningIsRegistered
<1>2. ASSUME NEW t \in Threads PROVE ThreadInv(t)'
  BY ThreadInvKept, FanoutByThread DEF threadVars
<1> QED
  BY <1>1, <1>2, FanoutByThread

\* Steps of one thread that leave the streams alone.
LEMMA ThreadStepKeepsFanout ==
  ASSUME TypeOK, FanoutInv, NEW t \in Threads, UNCHANGED <<subscribers, stage, wpc>>,
         \A u \in Threads \ {t} : /\ pc'[u] = pc[u] /\ ev'[u] = ev[u] /\ cur'[u] = cur[u]
                                  /\ targets'[u] = targets[u] /\ backlog'[u] = backlog[u],
         ThreadInv(t)'
  PROVE  FanoutInv'
<1>1. Listening' = Listening
  BY DEF Listening
<1>2. ListeningIsRegistered'
  BY <1>1 DEF FanoutInv, ListeningIsRegistered
<1>3. ASSUME NEW u \in Threads PROVE ThreadInv(u)'
  <2>1. CASE u = t
    BY <2>1
  <2>2. CASE u # t
    BY <1>1, <2>2, ThreadInvKept, FanoutByThread
  <2> QED BY <2>1, <2>2
<1> QED
  BY <1>2, <1>3, FanoutByThread

\* At the start nothing is being fanned out.
LEMMA FanoutInit == Init => FanoutInv
BY DEF Init, FanoutInv, CarriesEvent, BetweenStreams, Notifying, ListeningIsRegistered, Listening, OwedHaveBegun,
       OwedIsAhead

\* Every step keeps the fan-out invariant: a commit owes its events to the
\* listening, who are registered; the copy is taken of the registered; and a
\* subscription leaves the copy only with the event, or closed.
LEMMA FanoutStep == TypeOK /\ FanoutInv /\ [Next]_vars => FanoutInv'
<1> SUFFICES ASSUME TypeOK, FanoutInv, [Next]_vars
             PROVE  FanoutInv'
  OBVIOUS
<1>0. /\ ThreadsTyped /\ SubscriptionsTyped /\ WatchesTyped
      /\ \A t \in Threads : ThreadInv(t)
      /\ \A w \in Listening : w \in Watches /\ wpc[w] # "idle"
  BY FanoutByThread DEF TypeOK, Listening
<1>1. ASSUME NEW h \in Handlers, NEW req \in UpdateRequests, UpdateAffiliate(h, req)
      PROVE  FanoutInv'
  <2> DEFINE res == updateAffiliateLocked(affiliates, req, now)
             events == IF res.event THEN {Upsert(req.id, res.affiliates)} ELSE {}
  <2>1. h \in Threads
    BY DEF Threads
  <2>2. /\ pc' = [pc EXCEPT ![h] = "copy"] \/ pc' = [pc EXCEPT ![h] = "done"]
        /\ backlog' = [backlog EXCEPT ![h] = events]
        /\ UNCHANGED <<subscribers, pruneNow, ev, targets, cur, stage, wpc>>
    BY <1>1 DEF UpdateAffiliate, Return, subVars, watchVars
  <2>3. \A e \in events : e.owed = Listening
    BY DEF Upsert
  <2> HIDE DEF events
  <2>4. ThreadInv(h)'
    BY <1>0, <2>1, <2>2, <2>3 DEF ThreadInv, ThreadsTyped, BetweenStreams, Notifying
  <2> QED
    BY <1>0, <2>1, <2>2, <2>4, ThreadStepKeepsFanout DEF ThreadsTyped
<1>2. ASSUME NEW h \in Handlers, NEW id \in DeleteRequests, DeleteAffiliate(h, id)
      PROVE  FanoutInv'
  <2>1. h \in Threads
    BY DEF Threads
  <2>2. /\ pc' = [pc EXCEPT ![h] = "prolong"] \/ pc' = [pc EXCEPT ![h] = "done"]
        /\ \/ backlog' = backlog
           \/ /\ backlog' = [backlog EXCEPT ![h] = {Tombstone(id)}]
              /\ Tombstone(id).owed = Listening
        /\ UNCHANGED <<subscribers, pruneNow, ev, targets, cur, stage, wpc>>
    BY <1>2 DEF DeleteAffiliate, Return, Tombstone, subVars, watchVars
  <2>3. ThreadInv(h)'
    BY <1>0, <2>1, <2>2 DEF ThreadInv, ThreadsTyped, BetweenStreams, Notifying
  <2> QED
    BY <1>0, <2>1, <2>2, <2>3, ThreadStepKeepsFanout DEF ThreadsTyped
<1>3. CASE PruneReadClock
  <2>1. /\ Cleanup \in Threads
        /\ pc' = [pc EXCEPT ![Cleanup] = "prune"]
        /\ UNCHANGED <<subscribers, backlog, ev, targets, cur, stage, wpc>>
    BY <1>3 DEF PruneReadClock, Threads, subVars, watchVars
  <2>2. ThreadInv(Cleanup)'
    BY <1>0, <2>1 DEF ThreadInv, ThreadsTyped, BetweenStreams, Notifying
  <2> QED
    BY <1>0, <2>1, <2>2, ThreadStepKeepsFanout DEF ThreadsTyped
<1>4. CASE Prune
  <2> DEFINE events == {Tombstone(id) : id \in Expired(affiliates, pruneNow)}
                        \cup {Upsert(id, pruneAffiliates(affiliates, pruneNow)) :
                               id \in Shrunk(affiliates, pruneNow)}
  <2>1. /\ Cleanup \in Threads
        /\ pc' = [pc EXCEPT ![Cleanup] = "idle"] \/ pc' = [pc EXCEPT ![Cleanup] = "copy"]
        /\ UNCHANGED <<subscribers, ev, targets, cur, stage, wpc>>
    BY <1>4 DEF Prune, Threads, subVars, watchVars
  <2>2. backlog' = [backlog EXCEPT ![Cleanup] = events]
    BY <1>4 DEF Prune
  <2>3. \A e \in events : e.owed = Listening
    BY DEF Tombstone, Upsert
  <2> HIDE DEF events
  <2>4. ThreadInv(Cleanup)'
    BY <1>0, <2>1, <2>2, <2>3 DEF ThreadInv, ThreadsTyped, BetweenStreams, Notifying
  <2> QED
    BY <1>0, <2>1, <2>2, <2>4, ThreadStepKeepsFanout DEF ThreadsTyped
<1>5. ASSUME NEW t \in Threads, ThreadStep(t)
      PROVE  FanoutInv'
  <2>1. CASE ProlongAfterDelete(t)
    <3>1. /\ pc' = [pc EXCEPT ![t] = "copy"]
          /\ UNCHANGED <<subscribers, backlog, ev, targets, cur, stage, wpc>>
      BY <2>1 DEF ProlongAfterDelete, subVars, watchVars
    <3>2. ThreadInv(t)'
      BY <1>0, <3>1 DEF ThreadInv, ThreadsTyped, BetweenStreams, Notifying
    <3> QED
      BY <1>0, <3>1, <3>2, ThreadStepKeepsFanout DEF ThreadsTyped
  <2>2. ASSUME NEW e \in backlog[t], CopySubscribers(t, e)
        PROVE  FanoutInv'
    <3>1. /\ pc' = [pc EXCEPT ![t] = "fanout"]
          /\ backlog' = [backlog EXCEPT ![t] = backlog[t] \ {e}]
          /\ ev' = [ev EXCEPT ![t] = e]
          /\ targets' = [targets EXCEPT ![t] = subscribers]
          /\ UNCHANGED <<subscribers, cur, stage, wpc>>
      BY <2>2 DEF CopySubscribers, subVars, watchVars
    <3>2. e \in PendingEvent /\ Listening \subseteq subscribers /\ Listening' = Listening
      BY <1>0, <3>1 DEF ThreadsTyped, FanoutInv, ListeningIsRegistered, Listening
    <3>3. ThreadInv(t)'
      BY <1>0, <3>1, <3>2 DEF ThreadInv, ThreadsTyped, BetweenStreams, Notifying
    <3> QED
      BY <1>0, <3>1, <3>3, ThreadStepKeepsFanout DEF ThreadsTyped
  <2>3. ASSUME NEW w \in Watches, LoadClosed(t, w)
        PROVE  FanoutInv'
    <3>1. /\ targets' = [targets EXCEPT ![t] = targets[t] \ {w}]
          /\ pc[t] = "fanout"
          /\ UNCHANGED <<subscribers, backlog, ev, stage, wpc>>
      BY <2>3 DEF LoadClosed, subVars, watchVars
    <3>2. Listening' = Listening
      BY <3>1 DEF Listening
    <3>3. CASE stage[w] = "open"
      <4>1. cur' = [cur EXCEPT ![t] = w] /\ pc' = [pc EXCEPT ![t] = "send"]
        BY <2>3, <3>3 DEF LoadClosed
      <4>2. ThreadInv(t)'
        BY <1>0, <3>1, <3>2, <4>1 DEF ThreadInv, ThreadsTyped, BetweenStreams, Notifying
      <4> QED
        BY <1>0, <3>1, <4>1, <4>2, ThreadStepKeepsFanout DEF ThreadsTyped
    <3>4. CASE stage[w] # "open"
      <4>1. UNCHANGED <<cur, pc>> /\ w \notin Listening
        BY <2>3, <3>4 DEF LoadClosed, Listening
      <4>2. ThreadInv(t)'
        BY <1>0, <3>1, <3>2, <4>1 DEF ThreadInv, ThreadsTyped, BetweenStreams, Notifying
      <4> QED
        BY <1>0, <3>1, <4>1, <4>2, ThreadStepKeepsFanout DEF ThreadsTyped
    <3> QED BY <3>3, <3>4
  <2>4. CASE TrySend(t)
    <3>1. /\ pc[t] = "send"
          /\ UNCHANGED <<subscribers, backlog, targets, stage, wpc>>
      BY <2>4 DEF TrySend, watchVars
    <3>2. Listening' = Listening
      BY <3>1 DEF Listening
    <3>3. CASE (ChClosed(cur[t]) /\ Panics(t)) \/ BufferFull(t, cur[t])
      <4>1. /\ \/ pc' = [pc EXCEPT ![t] = "panicked"] /\ cur[t] \notin Listening
               \/ pc' = [pc EXCEPT ![t] = "lost"]
            /\ UNCHANGED <<ev, cur>>
        BY <3>3 DEF Panics, BufferFull, ChClosed, Listening
      <4>2. ThreadInv(t)'
        BY <1>0, <3>1, <3>2, <4>1 DEF ThreadInv, ThreadsTyped, BetweenStreams, Notifying
      <4> QED
        BY <1>0, <3>1, <4>1, <4>2, ThreadStepKeepsFanout DEF ThreadsTyped
    <3>4. CASE Enqueue(t, cur[t])
      <4>1. /\ ev' = [ev EXCEPT ![t] = [ev[t] EXCEPT !.owed = @ \ {cur[t]}]]
            /\ cur' = [cur EXCEPT ![t] = Nil]
            /\ pc' = [pc EXCEPT ![t] = "fanout"]
        BY <3>4 DEF Enqueue
      <4>2. ev[t] \in PendingEvent
        BY <1>0, <3>1 DEF ThreadInv, Notifying
      <4>3. ev'[t] \in PendingEvent /\ ev'[t].owed = ev[t].owed \ {cur[t]}
        BY <1>0, <4>1, <4>2 DEF PendingEvent, ThreadsTyped
      <4>4. ThreadInv(t)'
        BY <1>0, <3>1, <3>2, <4>1, <4>2, <4>3 DEF ThreadInv, ThreadsTyped, BetweenStreams, Notifying
      <4> QED
        BY <1>0, <3>1, <4>1, <4>4, ThreadStepKeepsFanout DEF ThreadsTyped
    <3> QED BY <2>4, <3>3, <3>4 DEF TrySend
  <2>5. CASE ReportLost(t)
    <3>1. /\ pc[t] = "lost"
          /\ \/ pc' = [pc EXCEPT ![t] = "panicked"] /\ cur[t] \notin Listening
             \/ pc' = [pc EXCEPT ![t] = "evict"]
          /\ UNCHANGED <<subscribers, backlog, ev, targets, cur, stage, wpc>>
      BY <2>5 DEF ReportLost, Panics, ErrClosed, Listening, watchVars
    <3>2. Listening' = Listening
      BY <3>1 DEF Listening
    <3>3. ThreadInv(t)'
      BY <1>0, <3>1, <3>2 DEF ThreadInv, ThreadsTyped, BetweenStreams, Notifying
    <3> QED
      BY <1>0, <3>1, <3>3, ThreadStepKeepsFanout DEF ThreadsTyped
  <2>6. CASE Evict(t)
    <3> DEFINE w == cur[t]
    <3>1. /\ pc[t] = "evict"
          /\ UNCHANGED <<subscribers, backlog, ev, targets, wpc>>
      BY <2>6 DEF Evict, watchVars
    <3>2. CASE stage[w] = "open"
      <4>1. UNCHANGED threadVars /\ stage' = [stage EXCEPT ![w] = "flagged"]
        BY <2>6, <3>2 DEF Evict, threadVars
      <4>2. \A x \in Listening' : x \in Listening /\ x \in subscribers'
        BY <1>0, <3>1, <4>1 DEF Listening, SubscriptionsTyped, FanoutInv, ListeningIsRegistered
      <4> QED BY <3>1, <4>1, <4>2, StreamStepKeepsFanout
    <3>3. CASE stage[w] = "closed"
      <4>1. /\ pc' = [pc EXCEPT ![t] = "fanout"] /\ cur' = [cur EXCEPT ![t] = Nil]
            /\ UNCHANGED stage /\ w \notin Listening
        BY <2>6, <3>3 DEF Evict, Listening
      <4>2. Listening' = Listening
        BY <3>1, <4>1 DEF Listening
      <4>3. ThreadInv(t)'
        BY <1>0, <3>1, <4>1, <4>2 DEF ThreadInv, ThreadsTyped, BetweenStreams, Notifying
      <4> QED
        BY <1>0, <3>1, <4>1, <4>3, ThreadStepKeepsFanout DEF ThreadsTyped
    <3> QED BY <2>6, <3>2, <3>3 DEF Evict
  <2>7. CASE FinishFanout(t)
    <3>1. /\ \E s \in {"copy", "idle", "done"} : pc' = [pc EXCEPT ![t] = s]
          /\ ev' = [ev EXCEPT ![t] = Nil]
          /\ UNCHANGED <<subscribers, backlog, targets, cur, stage, wpc>>
      BY <2>7 DEF FinishFanout, Return, subVars, watchVars
    <3>2. ThreadInv(t)'
      BY <1>0, <3>1 DEF ThreadInv, ThreadsTyped, BetweenStreams, Notifying
    <3> QED
      BY <1>0, <3>1, <3>2, ThreadStepKeepsFanout DEF ThreadsTyped
  <2> QED BY <1>5, <2>1, <2>2, <2>3, <2>4, <2>5, <2>6, <2>7 DEF ThreadStep
<1>6. ASSUME NEW w \in Watches, SubscribeWithSnapshot(w)
      PROVE  FanoutInv'
  <2>1. /\ wpc[w] = "idle"
        /\ \E s \in {"send", "select"} : wpc' = [wpc EXCEPT ![w] = s]
        /\ subscribers' = subscribers \cup {w}
        /\ UNCHANGED <<pc, ev, cur, targets, backlog, stage>>
    BY <1>6 DEF SubscribeWithSnapshot, threadVars, subVars
  <2>2. \A x \in Listening' : x = w \/ x \in Listening
    BY <1>0, <2>1 DEF Listening, WatchesTyped
  <2>3. \A x \in Watches : wpc[x] # "idle" => wpc'[x] # "idle"
    BY <1>0, <2>1 DEF WatchesTyped
  <2>4. ListeningIsRegistered'
    BY <2>1, <2>2 DEF FanoutInv, ListeningIsRegistered
  <2>5. \A t \in Threads : ThreadInv(t)'
    BY <1>0, <2>1, <2>2, <2>3, ThreadInvKept
  <2> QED BY <2>4, <2>5, FanoutByThread
<1>7. ASSUME NEW w \in Watches, WatchStep(w) \/ Send(w) \/ ClientCancel(w) \/ CloseStep(w)
      PROVE  FanoutInv'
  <2>1. /\ UNCHANGED threadVars
        /\ \/ wpc' = wpc
           \/ wpc[w] # "idle" /\ \E s \in {"send", "select", "return", "done"} : wpc' = [wpc EXCEPT ![w] = s]
        /\ \/ stage' = stage
           \/ \E s \in {"flagged", "removed", "chClosed", "errClosed", "closed"} :
                 stage' = [stage EXCEPT ![w] = s]
    BY <1>7 DEF WatchStep, Send, ClientCancel, CloseStep, SendFails, SelectCtxDone, SelectErrors,
               SelectEvents, DeferClose, CtxGoroutine, Unregister, CloseChannels, ProlongAfterClose,
               Returns, subVars, watchVars
  <2>2. subscribers' = subscribers \/ (stage[w] = "flagged" /\ subscribers' = subscribers \ {w})
    BY <1>7 DEF WatchStep, Send, ClientCancel, CloseStep, SendFails, SelectCtxDone, SelectErrors,
               SelectEvents, DeferClose, CtxGoroutine, Unregister, CloseChannels, ProlongAfterClose
  <2>3. \A x \in Watches : wpc[x] # "idle" <=> wpc'[x] # "idle"
    BY <1>0, <2>1 DEF WatchesTyped
  <2>4. \A x \in Listening' : x \in Listening
    BY <1>0, <2>1, <2>3 DEF Listening, SubscriptionsTyped
  <2>5. \A x \in Listening' : x \in subscribers'
    BY <2>2, <2>4 DEF Listening, FanoutInv, ListeningIsRegistered
  <2> QED BY <2>1, <2>3, <2>4, <2>5, StreamStepKeepsFanout
<1>8. CASE Tick \/ UNCHANGED vars
  <2>1. UNCHANGED <<threadVars, wpc, stage, subscribers>>
    BY <1>8 DEF Tick, vars, subVars, watchVars
  <2>2. Listening' = Listening
    BY <2>1 DEF Listening
  <2> QED
    BY <2>1, <2>2, StreamStepKeepsFanout DEF FanoutInv, ListeningIsRegistered
<1> QED
  BY <1>1, <1>2, <1>3, <1>4, <1>5, <1>6, <1>7, <1>8 DEF Next

-----------------------------------------------------------------------------
\* Every reachable state of the cluster is well typed.
THEOREM TypeCorrect == Spec => []TypeOK
<1>1. TypeOK /\ FanoutInv /\ [Next]_vars => TypeOK' /\ FanoutInv'
  BY TypeStep, FanoutStep DEF FanoutInv
<1> QED BY <1>1, TypeInit, FanoutInit, PTL DEF Spec

\* The fan-out invariant holds throughout, for any number of writers, streams
\* and concurrent closes.
THEOREM FanoutInvariant == Spec => []FanoutInv
<1>1. TypeOK /\ FanoutInv /\ [Next]_vars => TypeOK' /\ FanoutInv'
  BY TypeStep, FanoutStep DEF FanoutInv
<1> QED BY <1>1, TypeInit, FanoutInit, PTL DEF Spec

\* A stream that stays open misses a change committed while it listened in one
\* way only: a panic threw the sender out of the loop of Cluster.notify before
\* its turn came.  Otherwise it is given the event or has been closed.
THEOREM ListenersMissNothing == Spec => []NoMissedUpdate
<1>1. FanoutInv => NoMissedUpdate
  <2> SUFFICES ASSUME FanoutInv, NEW t \in Threads, BetweenStreams(t), NEW w \in ev[t].owed
               PROVE  stage[w] # "open" \/ w \in targets[t]
    BY DEF NoMissedUpdate, BetweenStreams
  <2>1. ev[t] \in PendingEvent /\ w \in Watches /\ wpc[w] # "idle"
    BY DEF FanoutInv, CarriesEvent, OwedHaveBegun, PendingEvent
  <2>2. w \in Listening => w \in targets[t]
    BY DEF FanoutInv, OwedIsAhead
  <2> QED BY <2>1, <2>2 DEF Listening
<1> QED BY <1>1, FanoutInvariant, PTL

-----------------------------------------------------------------------------
(***************************************************************************)
(* Pruning.  Prune judges by a clock reading that may be old when it gets  *)
(* the lock; an old reading only makes it keep more.                       *)
(***************************************************************************)
ClockInv == pruneNow <= now

\* Prune judges by a clock it read before, never by one ahead.
LEMMA ClockStep == TypeOK /\ ClockInv /\ [Next]_vars => ClockInv'
<1> SUFFICES ASSUME TypeOK, ClockInv, [Next]_vars PROVE ClockInv'
  OBVIOUS
<1>1. now \in Nat /\ pruneNow \in Nat
  BY DEF TypeOK, TableTyped, ThreadsTyped
<1>2. CASE Tick
  BY <1>1, <1>2 DEF Tick, ClockInv, threadVars
<1>3. CASE PruneReadClock
  BY <1>1, <1>3 DEF PruneReadClock, ClockInv
<1>4. CASE ~Tick /\ ~PruneReadClock
  <2>1. UNCHANGED <<now, pruneNow>>
    BY <1>4 DEF Next, vars, threadVars, UpdateAffiliate, DeleteAffiliate, Prune, ThreadStep,
       ProlongAfterDelete, CopySubscribers, LoadClosed, TrySend, ReportLost, Evict, FinishFanout,
       SubscribeWithSnapshot, WatchStep, SendFails, SelectCtxDone, SelectErrors, SelectEvents,
       DeferClose, CtxGoroutine, Send, ClientCancel, CloseStep, Unregister, CloseChannels,
       ProlongAfterClose
  <2> QED BY <2>1 DEF ClockInv
<1> QED BY <1>2, <1>3, <1>4

\* The table changes in the three sections under affiliatesMu and nowhere else.
LEMMA TableWriters ==
  ASSUME [Next]_vars
  PROVE  \/ affiliates' = affiliates
         \/ Prune
         \/ \E h \in Handlers, req \in UpdateRequests : UpdateAffiliate(h, req)
         \/ \E h \in Handlers, x \in DeleteRequests : DeleteAffiliate(h, x)
BY DEF vars, Next, tableVars, PruneReadClock, ThreadStep, ProlongAfterDelete, CopySubscribers,
   LoadClosed, TrySend, ReportLost, Evict, FinishFanout, SubscribeWithSnapshot, WatchStep,
   SendFails, SelectCtxDone, SelectErrors, SelectEvents, DeferClose, CtxGoroutine, Send,
   ClientCancel, CloseStep, Unregister, CloseChannels, ProlongAfterClose, Tick

\* Merging keeps every endpoint an affiliate has.
LEMMA UpdateKeeps ==
  ASSUME NEW affs, IsAffiliateTable(affs), NEW req \in UpdateRequest, NEW n \in Nat,
         NEW id \in DOMAIN affs
  PROVE  LET res == updateAffiliateLocked(affs, req, n)
         IN /\ id \in DOMAIN res.affiliates
            /\ DOMAIN affs[id].endpoints \subseteq DOMAIN res.affiliates[id].endpoints
<1> DEFINE res == updateAffiliateLocked(affs, req, n)
           x == n + req.ttl
           old == IF req.id \in DOMAIN affs THEN affs[req.id] ELSE NewAffiliate
           m == MergeEndpoints(withData(old, req, x), req.endpoints, x)
<1>1. res.affiliates = affs \/ res.affiliates = Put(affs, req.id, m.affiliate)
  BY DEF updateAffiliateLocked
<1>2. ASSUME req.id \in DOMAIN affs
      PROVE  DOMAIN affs[req.id].endpoints \subseteq DOMAIN m.affiliate.endpoints
  <2>1. IsAffiliate(affs[req.id]) /\ old = affs[req.id]
    BY <1>2 DEF IsAffiliateTable
  <2>2. IsAffiliate(withData(old, req, x)) /\ withData(old, req, x).endpoints = old.endpoints
    <3>1. x \in Int
      BY DEF UpdateRequest
    <3> HIDE DEF old, x
    <3> QED BY <2>1, <3>1 DEF withData, IsAffiliate, UpdateRequest
  <2> DEFINE a == withData(old, req, x)
  <2> HIDE DEF a, x, old
  <2>3. DOMAIN a.endpoints \subseteq DOMAIN MergeEndpoints(a, req.endpoints, x).affiliate.endpoints
    BY <2>2 DEF MergeEndpoints, IsAffiliate, a
  <2> QED BY <2>1, <2>2, <2>3 DEF a
<1> HIDE DEF m
<1>3. CASE res.affiliates = affs
  BY <1>3
<1>4. CASE res.affiliates = Put(affs, req.id, m.affiliate)
  <2> HIDE DEF res
  <2>1. CASE id = req.id
    BY <1>2, <1>4, <2>1 DEF Put, res
  <2>2. CASE id # req.id
    BY <1>4, <2>2 DEF Put, res
  <2> QED BY <2>1, <2>2
<1> QED BY <1>1, <1>3, <1>4

\* pruneAffiliates, judging by an earlier clock, takes nothing whose expiry is
\* still ahead.
LEMMA PruneKeeps ==
  ASSUME NEW affs, IsAffiliateTable(affs), NEW n \in Nat, NEW m \in Nat, n <= m,
         NEW id \in DOMAIN affs
  PROVE  /\ affs[id].expiry > m => id \in DOMAIN pruneAffiliates(affs, n)
         /\ id \in DOMAIN pruneAffiliates(affs, n) =>
              \A e \in DOMAIN affs[id].endpoints :
                affs[id].endpoints[e] > m => e \in DOMAIN pruneAffiliates(affs, n)[id].endpoints
<1>1. IsAffiliate(affs[id])
  BY DEF IsAffiliateTable
<1>2. affs[id].expiry > m => id \in DOMAIN pruneAffiliates(affs, n)
  BY <1>1 DEF pruneAffiliates, Expired, IsAffiliate
<1>3. ASSUME id \in DOMAIN pruneAffiliates(affs, n)
      PROVE  pruneAffiliates(affs, n)[id].endpoints = liveEndpoints(affs[id], n)
  BY <1>1, <1>3 DEF pruneAffiliates, IsAffiliate
<1>4. \A e \in DOMAIN affs[id].endpoints :
        affs[id].endpoints[e] > m => e \in DOMAIN liveEndpoints(affs[id], n)
  BY <1>1 DEF liveEndpoints, Without, IsAffiliate
<1> QED BY <1>2, <1>3, <1>4

\* Nothing but a client's delete removes an affiliate or endpoint before its
\* time, however stale Prune's clock reading is.
THEOREM UnexpiredIsKept == Spec => OnlyExpiredIsPruned
<1> DEFINE Kept == \A id \in DOMAIN affiliates :
                     KeepsUnexpired(id) \/ \E h \in Handlers : DeleteAffiliate(h, id)
<1>1. Init => ClockInv
  BY DEF Init, ClockInv, ZeroTime
<1>2. TypeOK /\ ClockInv /\ [Next]_vars => [Kept]_vars
  <2> SUFFICES ASSUME TypeOK, ClockInv, Next, NEW id \in DOMAIN affiliates
               PROVE  KeepsUnexpired(id) \/ \E h \in Handlers : DeleteAffiliate(h, id)
    OBVIOUS
  <2>0. IsAffiliateTable(affiliates) /\ now \in Nat /\ pruneNow \in Nat
    BY DEF TypeOK, TableTyped, ThreadsTyped
  <2>1. ASSUME NEW h \in Handlers, NEW req \in UpdateRequests, UpdateAffiliate(h, req)
        PROVE  KeepsUnexpired(id)
    <3>1. affiliates' = updateAffiliateLocked(affiliates, req, now).affiliates /\ req \in UpdateRequest
      BY <2>1, ClusterAssumption DEF UpdateAffiliate
    <3>2. /\ id \in DOMAIN affiliates'
          /\ DOMAIN affiliates[id].endpoints \subseteq DOMAIN affiliates'[id].endpoints
      BY <2>0, <3>1, UpdateKeeps
    <3> QED BY <3>2 DEF KeepsUnexpired
  <2>2. ASSUME NEW h \in Handlers, NEW x \in DeleteRequests, DeleteAffiliate(h, x)
        PROVE  KeepsUnexpired(id) \/ DeleteAffiliate(h, id)
    <3>1. CASE x # id
      BY <2>2, <3>1 DEF DeleteAffiliate, deleteAffiliateLocked, Without, KeepsUnexpired
    <3> QED BY <2>2, <3>1
  <2>3. CASE Prune
    BY <2>0, <2>3, PruneKeeps DEF Prune, ClockInv, KeepsUnexpired
  <2>4. CASE affiliates' = affiliates
    BY <2>4 DEF KeepsUnexpired
  <2>5. affiliates' = affiliates \/ Prune
        \/ (\E h \in Handlers, req \in UpdateRequests : UpdateAffiliate(h, req))
        \/ (\E h \in Handlers, x \in DeleteRequests : DeleteAffiliate(h, x))
    BY TableWriters
  <2> QED BY <2>1, <2>2, <2>3, <2>4, <2>5
<1> QED
  BY <1>1, <1>2, ClockStep, TypeCorrect, PTL DEF Spec, OnlyExpiredIsPruned

-----------------------------------------------------------------------------
(***************************************************************************)
(* Limits.  A cardinality is a number only if the set is finite: that is   *)
(* the strengthening (TableWithin).                                        *)
(***************************************************************************)
\* Neither AffiliatesMax nor AffiliateEndpointsMax is ever exceeded, whatever
\* mixture of creations, merges that fail half way and prunes led there.
THEOREM LimitsHold == Spec => []WithinLimits
<1>1. Init => TableWithin(affiliates)
  <2> SUFFICES ASSUME Init PROVE TableWithin(affiliates)
    OBVIOUS
  <2>1. DOMAIN affiliates = {}
    BY DEF Init, EmptyMap
  <2>2. AtMost({}, AffiliatesMax)
    BY FS_EmptySet, AffiliateAssumption DEF AtMost
  <2> QED BY <2>1, <2>2 DEF TableWithin
<1>2. TypeOK /\ TableWithin(affiliates) /\ [Next]_vars => TableWithin(affiliates)'
  <2> SUFFICES ASSUME TypeOK, TableWithin(affiliates), [Next]_vars PROVE TableWithin(affiliates')
    BY DEF TableWithin
  <2>0. IsAffiliateTable(affiliates) /\ now \in Nat /\ pruneNow \in Nat
    BY DEF TypeOK, TableTyped, ThreadsTyped
  <2>1. CASE affiliates' = affiliates
    BY <2>1
  <2>2. CASE Prune
    BY <2>0, <2>2, PruneWithin DEF Prune
  <2>3. ASSUME NEW h \in Handlers, NEW req \in UpdateRequests, UpdateAffiliate(h, req)
        PROVE  TableWithin(affiliates')
    <3>1. affiliates' = updateAffiliateLocked(affiliates, req, now).affiliates /\ req \in UpdateRequest
      BY <2>3, ClusterAssumption DEF UpdateAffiliate
    <3> QED BY <2>0, <3>1, UpdateWithin
  <2>4. ASSUME NEW h \in Handlers, NEW x \in DeleteRequests, DeleteAffiliate(h, x)
        PROVE  TableWithin(affiliates')
    BY <2>4, DeleteWithin DEF DeleteAffiliate
  <2> QED BY <2>1, <2>2, <2>3, <2>4, TableWriters
<1>3. TableWithin(affiliates) => WithinLimits
  BY DEF TableWithin, AtMost, WithinLimits
<1> QED BY <1>1, <1>2, <1>3, TypeCorrect, PTL DEF Spec
=============================================================================
