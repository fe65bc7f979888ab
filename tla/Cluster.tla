------------------------------ MODULE Cluster ------------------------------
(***************************************************************************)
(* One Cluster object (internal/state/cluster.go, cluster_subscribe.go)    *)
(* and the goroutines that work on it:                                     *)
(*                                                                         *)
(*   - one goroutine per AffiliateUpdate or AffiliateDelete RPC (Handlers; *)
(*     a handler serves one RPC and is not reused),                        *)
(*   - the cleanup goroutine, which calls Prune again and again,           *)
(*   - per Watch stream (Watches; each used for one stream) the goroutine  *)
(*     in clusterServer.Watch, the goroutine that waits for ctx.Done(),    *)
(*     and whichever goroutine runs the body of closeOnce.                 *)
(*                                                                         *)
(* A step is what the code does between two points where another           *)
(* goroutine can get in: a section under affiliatesMu or subsMu, an atomic *)
(* load or store, a channel operation.  In particular an event is computed *)
(* under affiliatesMu but sent to the subscribers after the unlock.        *)
(***************************************************************************)
EXTENDS Affiliate

CONSTANTS
  Handlers,            \* goroutines of unary RPCs
  Cleanup,             \* the cleanup goroutine
  Watches,             \* Watch streams
  Nil,                 \* no event, no subscription
  UpdateRequests,      \* the update requests clients send
  DeleteRequests,      \* the affiliates clients delete
  Quitters,            \* the streams whose client may hang up
  affiliateSubBuffer,  \* capacity of a subscription's event channel
  ClusterTTL,          \* how long an unused cluster is kept
  MaxNow,              \* bound on the clock
  CleanupEnabled       \* whether the cleanup interval is positive

Threads == Handlers \cup {Cleanup}

ASSUME ClusterAssumption ==
  /\ Cleanup \notin Handlers
  /\ Nil \notin Watches
  /\ UpdateRequests \subseteq UpdateRequest
  /\ DeleteRequests \subseteq AffiliateIDs
  /\ Quitters \subseteq Watches
  /\ affiliateSubBuffer \in Nat \ {0}
  /\ ClusterTTL \in Nat
  /\ MaxNow \in Nat
  /\ CleanupEnabled \in BOOLEAN

VARIABLES
  now,          \* the clock
  affiliates,   \* Cluster.affiliates
  expiry,       \* Cluster.expiry
  subscribers,  \* Cluster.subscribers
  pc,           \* where each thread is
  pruneNow,     \* the clock reading pruneAffiliates judges by
  backlog,      \* per thread: committed events it has not begun to fan out
  ev,           \* per thread: the event it is fanning out
  targets,      \* per thread: its copy of the subscribers still to be notified
  cur,          \* per thread: the subscription it is notifying
  result,       \* per thread: what its RPC returned
  wpc,          \* where each clusterServer.Watch call is
  outbox,       \* per watch: the response handed to server.Send
  ch,           \* per watch: Subscription.ch
  lost,         \* per watch: Subscription.errCh holds "lost update"
  stage,        \* per watch: how far Subscription.Close has got
  ctxDone,      \* per watch: the stream's context is done
  wresult,      \* per watch: what clusterServer.Watch returns
  view,         \* per watch: the client's picture of the cluster
  unsettled     \* history: affiliates the event stream may describe wrongly

tableVars  == <<affiliates, expiry>>
threadVars == <<pc, pruneNow, backlog, ev, targets, cur, result>>
subVars    == <<ch, lost, stage>>
watchVars  == <<wpc, outbox, ctxDone, wresult, view>>
vars == <<now, tableVars, subscribers, threadVars, subVars, watchVars, unsettled>>

-----------------------------------------------------------------------------
(***************************************************************************)
(* Events and responses.  "owed" is history, not part of the code's event: *)
(* the streams that were listening when the event was committed and have   *)
(* not been given it yet.                                                  *)
(***************************************************************************)
\* Mutant: a tombstone carries a nil payload instead of an empty affiliate.
NilInfo == NoData

NoInfo == [data |-> NoData, endpoints |-> {}]

AffiliateEvent ==
  [type : {"upsert", "delete"}, id : AffiliateIDs, info : AffiliateInfo]

PendingEvent ==
  [type : {"upsert", "delete"}, id : AffiliateIDs, info : AffiliateInfo,
   owed : SUBSET Watches]

\* nil is not an event.
ASSUME NilAssumption == Nil \notin PendingEvent

Announced(e) == [type |-> e.type, id |-> e.id, info |-> e.info]

WatchResponse ==
  [deleted : BOOLEAN, affiliates : PartialFunctions(AffiliateIDs, AffiliateInfo)]

toResponse(e) ==
  [deleted |-> e.type = "delete", affiliates |-> [id \in {e.id} |-> e.info]]

NoResponse == [deleted |-> FALSE, affiliates |-> EmptyMap]

\* What a client does with a response: forget or overwrite the affiliates named.
Apply(v, r) ==
  IF r.deleted
  THEN Without(v, DOMAIN r.affiliates)
  ELSE [id \in DOMAIN v \cup DOMAIN r.affiliates |->
          IF id \in DOMAIN r.affiliates THEN r.affiliates[id] ELSE v[id]]

\* Streams that will learn of a change only through its event.
Listening == {w \in Watches : wpc[w] # "idle" /\ stage[w] = "open"}

Upsert(id, affs) ==
  [type |-> "upsert", id |-> id, info |-> ToInfo(affs[id]), owed |-> Listening]

Tombstone(id) ==
  [type |-> "delete", id |-> id, info |-> NoInfo, owed |-> Listening]

\* The events that a thread has committed and is still to send; one that has
\* panicked sends nothing more.
Unsent(t) ==
  IF pc[t] = "panicked" THEN {} ELSE {e \in backlog[t] \cup {ev[t]} : e # Nil}

\* An event about the affiliate that some thread has still to send.
InFlight(id) == \E t \in Threads : \E e \in Unsent(t) : e.id = id

(***************************************************************************)
(* History: a change that nobody announces, one announced while an earlier *)
(* event about the same affiliate is still on its way, and an event that a *)
(* panic keeps from an open stream unsettle the affiliate; a change        *)
(* announced on its own settles it again.                                  *)
(***************************************************************************)
Settle(announced, silent) ==
  unsettled' = (unsettled \ announced) \cup silent \cup {id \in announced : InFlight(id)}

-----------------------------------------------------------------------------
TableTyped ==
  /\ now \in Nat
  /\ IsAffiliateTable(affiliates)
  /\ expiry \in Nat
  /\ subscribers \subseteq Watches
  /\ unsettled \subseteq AffiliateIDs

ThreadsTyped ==
  /\ pc \in [Threads -> {"idle", "prune", "prolong", "copy", "fanout", "send",
                         "lost", "evict", "done", "panicked"}]
  /\ pruneNow \in Nat
  /\ backlog \in [Threads -> SUBSET PendingEvent]
  /\ ev \in [Threads -> PendingEvent \cup {Nil}]
  /\ targets \in [Threads -> SUBSET Watches]
  /\ cur \in [Threads -> Watches \cup {Nil}]
  /\ result \in [Threads -> {"none", "nil", "ErrTooManyAffiliates", "ErrTooManyEndpoints"}]

SubscriptionsTyped ==
  /\ ch \in [Watches -> Seq(AffiliateEvent)]
  /\ lost \in [Watches -> BOOLEAN]
  /\ stage \in [Watches -> {"open", "flagged", "removed", "chClosed", "errClosed", "closed"}]

WatchesTyped ==
  /\ wpc \in [Watches -> {"idle", "send", "select", "return", "done"}]
  /\ outbox \in [Watches -> WatchResponse]
  /\ ctxDone \in [Watches -> BOOLEAN]
  /\ wresult \in [Watches -> {"none", "nil", "ctxErr", "sendErr", "lostUpdate", "Aborted"}]
  /\ view \in [Watches -> PartialFunctions(AffiliateIDs, AffiliateInfo)]

TypeOK == TableTyped /\ ThreadsTyped /\ SubscriptionsTyped /\ WatchesTyped

Init ==
  /\ now = ZeroTime + 1
  /\ affiliates = EmptyMap
  /\ expiry = now + ClusterTTL
  /\ subscribers = {}
  /\ pc = [t \in Threads |-> "idle"]
  /\ pruneNow = ZeroTime
  /\ backlog = [t \in Threads |-> {}]
  /\ ev = [t \in Threads |-> Nil]
  /\ targets = [t \in Threads |-> {}]
  /\ cur = [t \in Threads |-> Nil]
  /\ result = [t \in Threads |-> "none"]
  /\ wpc = [w \in Watches |-> "idle"]
  /\ outbox = [w \in Watches |-> NoResponse]
  /\ ch = [w \in Watches |-> <<>>]
  /\ lost = [w \in Watches |-> FALSE]
  /\ stage = [w \in Watches |-> "open"]
  /\ ctxDone = [w \in Watches |-> FALSE]
  /\ wresult = [w \in Watches |-> "none"]
  /\ view = [w \in Watches |-> EmptyMap]
  /\ unsettled = {}

-----------------------------------------------------------------------------
\* A panic in an RPC handler is recovered by the gRPC interceptor and ends
\* that RPC only; nothing recovers one in the cleanup goroutine, so it ends the
\* process.  Every step is guarded by ~Crashed.
Crashed == pc[Cleanup] = "panicked"

(***************************************************************************)
(* Unary RPCs: the section under affiliatesMu, and what follows it.        *)
(***************************************************************************)
Return(t, r) ==
  /\ pc' = [pc EXCEPT ![t] = "done"]
  /\ result' = [result EXCEPT ![t] = r]

\* Cluster.UpdateAffiliate, up to the unlock; without an event it returns.
UpdateAffiliate(h, req) ==
  LET res    == updateAffiliateLocked(affiliates, req, now)
      events == IF res.event THEN {Upsert(req.id, res.affiliates)} ELSE {}
      silent == ~res.event /\ listAffiliatesLocked(res.affiliates) # listAffiliatesLocked(affiliates)
  IN /\ ~Crashed
     /\ pc[h] = "idle"
     /\ affiliates' = res.affiliates
     /\ backlog' = [backlog EXCEPT ![h] = events]
     /\ Settle({e.id : e \in events}, IF silent THEN {req.id} ELSE {})
     /\ \/ res.event /\ pc' = [pc EXCEPT ![h] = "copy"] /\ UNCHANGED result
        \/ ~res.event /\ Return(h, res.error)
     /\ UNCHANGED <<now, expiry, subscribers, pruneNow, ev, targets, cur, subVars, watchVars>>

\* Cluster.DeleteAffiliate, up to the unlock; an unknown affiliate is no error.
DeleteAffiliate(h, id) ==
  /\ ~Crashed
  /\ pc[h] = "idle"
  /\ affiliates' = deleteAffiliateLocked(affiliates, id)
  /\ \/ /\ id \in DOMAIN affiliates
        /\ backlog' = [backlog EXCEPT ![h] = {Tombstone(id)}]
        /\ Settle({id}, {})
        /\ pc' = [pc EXCEPT ![h] = "prolong"]
        /\ UNCHANGED result
     \/ /\ id \notin DOMAIN affiliates
        /\ Return(h, "nil")
        /\ UNCHANGED <<backlog, unsettled>>
  /\ UNCHANGED <<now, expiry, subscribers, pruneNow, ev, targets, cur, subVars, watchVars>>

prolongExpiry == expiry' = now + ClusterTTL

ProlongAfterDelete(h) ==
  /\ ~Crashed
  /\ pc[h] = "prolong"
  /\ prolongExpiry
  /\ pc' = [pc EXCEPT ![h] = "copy"]
  /\ UNCHANGED <<now, affiliates, subscribers, pruneNow, backlog, ev, targets, cur, result,
                 subVars, watchVars, unsettled>>

(***************************************************************************)
(* Cluster.Prune: the clock is read before affiliatesMu is taken.  The     *)
(* events of one sweep are a set because Go's map order is arbitrary.      *)
(***************************************************************************)
PruneReadClock ==
  /\ ~Crashed
  /\ CleanupEnabled
  /\ pc[Cleanup] = "idle"
  /\ pruneNow' = now
  /\ pc' = [pc EXCEPT ![Cleanup] = "prune"]
  /\ UNCHANGED <<now, tableVars, subscribers, backlog, ev, targets, cur, result, subVars,
                 watchVars, unsettled>>

Prune ==
  LET kept    == pruneAffiliates(affiliates, pruneNow)
      expired == Expired(affiliates, pruneNow)
      shrunk  == Shrunk(affiliates, pruneNow)
      events  == {Tombstone(id) : id \in expired} \cup {Upsert(id, kept) : id \in shrunk}
  IN /\ ~Crashed
     /\ pc[Cleanup] = "prune"
     /\ affiliates' = kept
     /\ backlog' = [backlog EXCEPT ![Cleanup] = events]
     /\ Settle(expired \cup shrunk, {})
     /\ pc' = [pc EXCEPT ![Cleanup] = IF events = {} THEN "idle" ELSE "copy"]
     /\ UNCHANGED <<now, expiry, subscribers, pruneNow, ev, targets, cur, result, subVars, watchVars>>

-----------------------------------------------------------------------------
(***************************************************************************)
(* Cluster.notify and Subscription.notify, run by the thread that made the *)
(* change.  The subscribers are copied under subsMu and notified one by    *)
(* one without it.                                                         *)
(***************************************************************************)
CopySubscribers(t, e) ==
  /\ ~Crashed
  /\ pc[t] = "copy"
  /\ e \in backlog[t]
  /\ backlog' = [backlog EXCEPT ![t] = @ \ {e}]
  /\ ev' = [ev EXCEPT ![t] = e]
  /\ targets' = [targets EXCEPT ![t] = subscribers]
  /\ pc' = [pc EXCEPT ![t] = "fanout"]
  /\ UNCHANGED <<now, tableVars, subscribers, pruneNow, cur, result, subVars, watchVars, unsettled>>

\* sub.closed.Load() of the next subscription.
LoadClosed(t, w) ==
  /\ ~Crashed
  /\ pc[t] = "fanout"
  /\ w \in targets[t]
  /\ targets' = [targets EXCEPT ![t] = @ \ {w}]
  /\ \/ /\ stage[w] = "open"
        /\ cur' = [cur EXCEPT ![t] = w]
        /\ pc' = [pc EXCEPT ![t] = "send"]
     \/ /\ stage[w] # "open"
        /\ UNCHANGED <<cur, pc>>
  /\ UNCHANGED <<now, tableVars, subscribers, pruneNow, backlog, ev, result, subVars, watchVars,
                 unsettled>>

ChClosed(w)  == stage[w] \in {"chClosed", "errClosed", "closed"}
ErrClosed(w) == stage[w] \in {"errClosed", "closed"}

\* Sending on a closed channel panics.  The panic unwinds the whole loop of
\* Cluster.notify: the subscriptions it has not come to are not notified and
\* stay open.  ev and targets keep, as history, what the thread left undone.
Panics(t) ==
  /\ pc' = [pc EXCEPT ![t] = "panicked"]
  /\ unsettled' = unsettled \cup {e.id : e \in {f \in Unsent(t) : f.owed \cap Listening # {}}}
  /\ UNCHANGED <<ev, cur, ch, lost>>

Enqueue(t, w) ==
  /\ Len(ch[w]) < affiliateSubBuffer
  /\ ch' = [ch EXCEPT ![w] = Append(@, Announced(ev[t]))]
  /\ ev' = [ev EXCEPT ![t].owed = @ \ {w}]
  /\ cur' = [cur EXCEPT ![t] = Nil]
  /\ pc' = [pc EXCEPT ![t] = "fanout"]
  /\ UNCHANGED <<lost, unsettled>>

BufferFull(t, w) ==
  /\ Len(ch[w]) >= affiliateSubBuffer
  /\ pc' = [pc EXCEPT ![t] = "lost"]
  /\ UNCHANGED <<ev, cur, ch, lost, unsettled>>

\* Mutant: a plain send, which waits for room in the channel.
TrySendBlocks(t) ==
  /\ ~Crashed
  /\ pc[t] = "send"
  /\ \/ ChClosed(cur[t]) /\ Panics(t)
     \/ ~ChClosed(cur[t]) /\ Enqueue(t, cur[t])
  /\ UNCHANGED <<now, tableVars, subscribers, pruneNow, backlog, targets, result, stage, watchVars>>

\* select { case sub.ch <- ev: return; default: }
TrySend(t) ==
  /\ ~Crashed
  /\ pc[t] = "send"
  /\ \/ ChClosed(cur[t]) /\ Panics(t)
     \/ ~ChClosed(cur[t]) /\ (Enqueue(t, cur[t]) \/ BufferFull(t, cur[t]))
  /\ UNCHANGED <<now, tableVars, subscribers, pruneNow, backlog, targets, result, stage, watchVars>>

\* select { case sub.errCh <- errors.New("lost update"): default: }
ReportLost(t) ==
  LET w == cur[t]
  IN /\ ~Crashed
     /\ pc[t] = "lost"
     /\ \/ ErrClosed(w) /\ Panics(t)
        \/ /\ ~ErrClosed(w)
           /\ lost' = [lost EXCEPT ![w] = TRUE]
           /\ pc' = [pc EXCEPT ![t] = "evict"]
           /\ UNCHANGED <<ev, cur, ch, unsettled>>
     /\ UNCHANGED <<now, tableVars, subscribers, pruneNow, backlog, targets, result, stage,
                    watchVars>>

\* Mutant: a slow subscription is told, but not closed.
EvictForgetsClose(t) ==
  /\ ~Crashed
  /\ pc[t] = "evict"
  /\ pc' = [pc EXCEPT ![t] = "fanout"]
  /\ cur' = [cur EXCEPT ![t] = Nil]
  /\ UNCHANGED <<now, tableVars, subscribers, pruneNow, backlog, ev, targets, result, subVars,
                 watchVars, unsettled>>

\* Mutant: the fan-out ends with the first subscription that is evicted.
EvictStopsFanout(t) ==
  LET w == cur[t]
  IN /\ ~Crashed
     /\ pc[t] = "evict"
     /\ \/ /\ stage[w] = "open"
           /\ stage' = [stage EXCEPT ![w] = "flagged"]
           /\ UNCHANGED <<pc, cur, targets>>
        \/ /\ stage[w] = "closed"
           /\ pc' = [pc EXCEPT ![t] = "fanout"]
           /\ cur' = [cur EXCEPT ![t] = Nil]
           /\ targets' = [targets EXCEPT ![t] = {}]
           /\ UNCHANGED stage
     /\ UNCHANGED <<now, tableVars, subscribers, pruneNow, backlog, ev, result, ch, lost,
                    watchVars, unsettled>>

\* sub.Close(): start it unless another goroutine has, and wait for its end.
Evict(t) ==
  LET w == cur[t]
  IN /\ ~Crashed
     /\ pc[t] = "evict"
     /\ \/ /\ stage[w] = "open"
           /\ stage' = [stage EXCEPT ![w] = "flagged"]
           /\ UNCHANGED <<pc, cur>>
        \/ /\ stage[w] = "closed"
           /\ pc' = [pc EXCEPT ![t] = "fanout"]
           /\ cur' = [cur EXCEPT ![t] = Nil]
           /\ UNCHANGED stage
     /\ UNCHANGED <<now, tableVars, subscribers, pruneNow, backlog, ev, targets, result, ch, lost,
                    watchVars, unsettled>>

\* The event is out: on to the next of a sweep, or the call returns.
FinishFanout(t) ==
  /\ ~Crashed
  /\ pc[t] = "fanout"
  /\ targets[t] = {}
  /\ ev' = [ev EXCEPT ![t] = Nil]
  /\ \/ backlog[t] # {} /\ pc' = [pc EXCEPT ![t] = "copy"] /\ UNCHANGED result
     \/ backlog[t] = {} /\ t = Cleanup /\ pc' = [pc EXCEPT ![t] = "idle"] /\ UNCHANGED result
     \/ backlog[t] = {} /\ t # Cleanup /\ Return(t, "nil")
  /\ UNCHANGED <<now, tableVars, subscribers, pruneNow, backlog, targets, cur, subVars, watchVars,
                 unsettled>>

-----------------------------------------------------------------------------
(***************************************************************************)
(* clusterServer.Watch.                                                    *)
(***************************************************************************)
\* Mutant: a stream on an empty cluster is not registered.
SubscribeIfNotEmpty(w) ==
  LET snapshot == listAffiliatesLocked(affiliates)
  IN /\ ~Crashed
     /\ wpc[w] = "idle"
     /\ \/ /\ DOMAIN snapshot # {}
           /\ subscribers' = subscribers \cup {w}
           /\ outbox' = [outbox EXCEPT ![w] = [deleted |-> FALSE, affiliates |-> snapshot]]
           /\ wpc' = [wpc EXCEPT ![w] = "send"]
        \/ /\ DOMAIN snapshot = {}
           /\ wpc' = [wpc EXCEPT ![w] = "select"]
           /\ UNCHANGED <<subscribers, outbox>>
     /\ UNCHANGED <<now, tableVars, threadVars, subVars, ctxDone, wresult, view, unsettled>>

\* Snapshot and registration happen in one section under affiliatesMu.  The
\* snapshot is sent only if it is not empty.
SubscribeWithSnapshot(w) ==
  LET snapshot == listAffiliatesLocked(affiliates)
  IN /\ ~Crashed
     /\ wpc[w] = "idle"
     /\ subscribers' = subscribers \cup {w}
     /\ \/ /\ DOMAIN snapshot # {}
           /\ outbox' = [outbox EXCEPT ![w] = [deleted |-> FALSE, affiliates |-> snapshot]]
           /\ wpc' = [wpc EXCEPT ![w] = "send"]
        \/ /\ DOMAIN snapshot = {}
           /\ wpc' = [wpc EXCEPT ![w] = "select"]
           /\ UNCHANGED outbox
     /\ UNCHANGED <<now, tableVars, threadVars, subVars, ctxDone, wresult, view, unsettled>>

\* server.Send succeeds when the client takes the response, which may be never.
Send(w) ==
  /\ ~Crashed
  /\ wpc[w] = "send"
  /\ view' = [view EXCEPT ![w] = Apply(@, outbox[w])]
  /\ outbox' = [outbox EXCEPT ![w] = NoResponse]
  /\ wpc' = [wpc EXCEPT ![w] = "select"]
  /\ UNCHANGED <<now, tableVars, subscribers, threadVars, subVars, ctxDone, wresult, unsettled>>

Returns(w, r) ==
  /\ wpc' = [wpc EXCEPT ![w] = "return"]
  /\ wresult' = [wresult EXCEPT ![w] = r]

\* server.Send fails once the stream's context is done; Canceled becomes nil.
SendFails(w) ==
  /\ ~Crashed
  /\ wpc[w] = "send"
  /\ ctxDone[w]
  /\ \E r \in {"nil", "sendErr"} : Returns(w, r)
  /\ outbox' = [outbox EXCEPT ![w] = NoResponse]
  /\ UNCHANGED <<now, tableVars, subscribers, threadVars, subVars, ctxDone, view, unsettled>>

\* The three cases of the select; Go picks any that is ready.
SelectCtxDone(w) ==
  /\ ~Crashed
  /\ wpc[w] = "select"
  /\ ctxDone[w]
  /\ Returns(w, "ctxErr")
  /\ UNCHANGED <<now, tableVars, subscribers, threadVars, subVars, outbox, ctxDone, view, unsettled>>

SelectErrors(w) ==
  /\ ~Crashed
  /\ wpc[w] = "select"
  /\ \/ lost[w] /\ Returns(w, "lostUpdate")
     \/ ~lost[w] /\ ErrClosed(w) /\ Returns(w, "Aborted")
  /\ lost' = [lost EXCEPT ![w] = FALSE]
  /\ UNCHANGED <<now, tableVars, subscribers, threadVars, ch, stage, outbox, ctxDone, view, unsettled>>

SelectEvents(w) ==
  /\ ~Crashed
  /\ wpc[w] = "select"
  /\ \/ /\ ch[w] # <<>>
        /\ outbox' = [outbox EXCEPT ![w] = toResponse(Head(ch[w]))]
        /\ ch' = [ch EXCEPT ![w] = Tail(@)]
        /\ wpc' = [wpc EXCEPT ![w] = "send"]
        /\ UNCHANGED wresult
     \/ /\ ch[w] = <<>>
        /\ ChClosed(w)
        /\ Returns(w, "nil")
        /\ UNCHANGED <<outbox, ch>>
  /\ UNCHANGED <<now, tableVars, subscribers, threadVars, lost, stage, ctxDone, view, unsettled>>

\* defer sub.Close(), then gRPC cancels the context of the finished stream.
DeferClose(w) ==
  /\ ~Crashed
  /\ wpc[w] = "return"
  /\ \/ /\ stage[w] = "open"
        /\ stage' = [stage EXCEPT ![w] = "flagged"]
        /\ UNCHANGED <<wpc, ctxDone>>
     \/ /\ stage[w] = "closed"
        /\ wpc' = [wpc EXCEPT ![w] = "done"]
        /\ ctxDone' = [ctxDone EXCEPT ![w] = TRUE]
        /\ UNCHANGED stage
  /\ UNCHANGED <<now, tableVars, subscribers, threadVars, ch, lost, outbox, wresult, view, unsettled>>

\* The client hangs up, its deadline passes or its connection breaks.
ClientCancel(w) ==
  /\ ~Crashed
  /\ w \in Quitters
  /\ wpc[w] \notin {"idle", "done"}
  /\ ~ctxDone[w]
  /\ ctxDone' = [ctxDone EXCEPT ![w] = TRUE]
  /\ UNCHANGED <<now, tableVars, subscribers, threadVars, subVars, wpc, outbox, wresult, view, unsettled>>

\* The goroutine that waits for ctx.Done() and then calls sub.Close().
CtxGoroutine(w) ==
  /\ ~Crashed
  /\ ctxDone[w]
  /\ stage[w] = "open"
  /\ stage' = [stage EXCEPT ![w] = "flagged"]
  /\ UNCHANGED <<now, tableVars, subscribers, threadVars, ch, lost, watchVars, unsettled>>

-----------------------------------------------------------------------------
(***************************************************************************)
(* The body of closeOnce after closed.Store(true), by whichever goroutine  *)
(* got there first: unregister, close both channels, prolong the cluster.  *)
(***************************************************************************)
\* Mutant: closeFn leaves the subscription registered.
UnregisterForgotten(w) ==
  /\ ~Crashed
  /\ stage[w] = "flagged"
  /\ stage' = [stage EXCEPT ![w] = "removed"]
  /\ UNCHANGED <<now, tableVars, subscribers, threadVars, ch, lost, watchVars, unsettled>>

Unregister(w) ==
  /\ ~Crashed
  /\ stage[w] = "flagged"
  /\ subscribers' = subscribers \ {w}
  /\ stage' = [stage EXCEPT ![w] = "removed"]
  /\ UNCHANGED <<now, tableVars, threadVars, ch, lost, watchVars, unsettled>>

CloseChannels(w) ==
  /\ ~Crashed
  /\ \/ stage[w] = "removed"  /\ stage' = [stage EXCEPT ![w] = "chClosed"]
     \/ stage[w] = "chClosed" /\ stage' = [stage EXCEPT ![w] = "errClosed"]
  /\ UNCHANGED <<now, tableVars, subscribers, threadVars, ch, lost, watchVars, unsettled>>

ProlongAfterClose(w) ==
  /\ ~Crashed
  /\ stage[w] = "errClosed"
  /\ prolongExpiry
  /\ stage' = [stage EXCEPT ![w] = "closed"]
  /\ UNCHANGED <<now, affiliates, subscribers, threadVars, ch, lost, watchVars, unsettled>>

-----------------------------------------------------------------------------
Tick ==
  /\ ~Crashed
  /\ now < MaxNow
  /\ now' = now + 1
  /\ UNCHANGED <<tableVars, subscribers, threadVars, subVars, watchVars, unsettled>>

\* The steps a thread takes on its own once its call has begun.
ThreadStep(t) ==
  \/ ProlongAfterDelete(t)
  \/ \E e \in backlog[t] : CopySubscribers(t, e)
  \/ \E w \in Watches : LoadClosed(t, w)
  \/ TrySend(t)
  \/ ReportLost(t)
  \/ Evict(t)
  \/ FinishFanout(t)

\* The steps of a stream's goroutines that need nothing from the client.
WatchStep(w) ==
  \/ SendFails(w)
  \/ SelectCtxDone(w)
  \/ SelectErrors(w)
  \/ SelectEvents(w)
  \/ DeferClose(w)
  \/ CtxGoroutine(w)

CloseStep(w) == Unregister(w) \/ CloseChannels(w) \/ ProlongAfterClose(w)

Next ==
  \/ \E h \in Handlers, req \in UpdateRequests : UpdateAffiliate(h, req)
  \/ \E h \in Handlers, id \in DeleteRequests : DeleteAffiliate(h, id)
  \/ PruneReadClock
  \/ Prune
  \/ \E t \in Threads : ThreadStep(t)
  \/ \E w \in Watches : SubscribeWithSnapshot(w)
  \/ \E w \in Watches : WatchStep(w)
  \/ \E w \in Watches : Send(w)
  \/ \E w \in Watches : ClientCancel(w)
  \/ \E w \in Watches : CloseStep(w)
  \/ Tick

(***************************************************************************)
(* Runnable goroutines are scheduled, and the cleanup ticker keeps firing. *)
(* Nothing is assumed of clients: they need not call, cancel, or read what *)
(* they are sent (no fairness on Send), and the clock may stand still.     *)
(***************************************************************************)
Fairness ==
  /\ \A t \in Threads : WF_vars(ThreadStep(t))
  /\ WF_vars(PruneReadClock \/ Prune)
  /\ \A w \in Watches :
       /\ WF_vars(SendFails(w))
       /\ WF_vars(SelectCtxDone(w) \/ SelectErrors(w) \/ SelectEvents(w))
       /\ WF_vars(DeferClose(w))
       /\ WF_vars(CtxGoroutine(w))
       /\ WF_vars(CloseStep(w))

Spec == Init /\ [][Next]_vars /\ Fairness

-----------------------------------------------------------------------------
(***************************************************************************)
(* Safety.                                                                 *)
(***************************************************************************)
\* A committed change reaches every stream that was listening when it was
\* committed: when a fan-out is over, a stream it still owes has been closed
\* (its client must list again).  The exception is a fan-out that a panic ended
\* (see NoSendOnClosedChannel): it leaves open streams without the event, but
\* only ones it had not come to.  About SubscribeWithSnapshot registering under
\* affiliatesMu, and notify evicting rather than dropping.
NoMissedUpdate ==
  \A t \in Threads :
    /\ pc[t] = "fanout" /\ targets[t] = {} => \A w \in ev[t].owed : stage[w] # "open"
    /\ pc[t] = "panicked" => \A w \in ev[t].owed : stage[w] # "open" \/ w \in targets[t]

\* Why nothing else is missed.  A thread in the middle of a fan-out, or one
\* that panicked there, carries an event and, while it is notifying, a
\* subscription; listening streams are registered; only streams that have
\* begun are owed anything; and an open stream that is owed the event of a
\* fan-out is still ahead of it.
Notifying(t) == pc[t] \in {"send", "lost", "evict"}

\* Between two subscriptions of its copy, or thrown out of the loop.
BetweenStreams(t) == pc[t] \in {"fanout", "panicked"}

CarriesEvent ==
  \A t \in Threads : /\ BetweenStreams(t) \/ Notifying(t) => ev[t] \in PendingEvent
                     /\ Notifying(t) => cur[t] \in Watches

ListeningIsRegistered == Listening \subseteq subscribers

OwedHaveBegun ==
  \A t \in Threads : /\ \A e \in backlog[t] : \A w \in e.owed : wpc[w] # "idle"
                     /\ BetweenStreams(t) \/ Notifying(t) => \A w \in ev[t].owed : wpc[w] # "idle"

OwedIsAhead ==
  \A t \in Threads :
    /\ BetweenStreams(t) => ev[t].owed \cap Listening \subseteq targets[t]
    /\ Notifying(t) => ev[t].owed \cap Listening \subseteq targets[t] \cup {cur[t]}

FanoutInv == CarriesEvent /\ ListeningIsRegistered /\ OwedHaveBegun /\ OwedIsAhead

\* A stream that has drained its channel agrees with the table about every
\* affiliate that is settled and has no event in flight.  About snapshot and
\* events together: whatever a client missed before its snapshot, overlapped
\* with it or got after it, its picture comes out right.  Not settled are
\* affiliates after a silent change, events that overtook each other, or an
\* event that a panic kept from an open stream.
ViewAgrees(w, id) ==
  /\ id \in DOMAIN view[w] <=> id \in DOMAIN affiliates
  /\ id \in DOMAIN affiliates => view[w][id] = ToInfo(affiliates[id])

Drained(w) == w \in Listening /\ wpc[w] = "select" /\ ch[w] = <<>>

ViewsConverge ==
  \A w \in Watches, id \in AffiliateIDs :
    Drained(w) /\ ~InFlight(id) /\ id \notin unsettled => ViewAgrees(w, id)

\* Neither limit is ever exceeded, whatever mixture of creations, merges,
\* failed merges and prunes led there (AffiliatesMax, AffiliateEndpointsMax).
WithinLimits ==
  /\ Cardinality(DOMAIN affiliates) <= AffiliatesMax
  /\ \A id \in DOMAIN affiliates :
       Cardinality(DOMAIN affiliates[id].endpoints) <= AffiliateEndpointsMax

\* No step takes away an affiliate or an endpoint whose expiry lies ahead of
\* the clock, except a client's delete of that affiliate.  About
\* pruneAffiliates judging by a clock it read before it got the lock.
KeepsUnexpired(id) ==
  /\ affiliates[id].expiry > now => id \in DOMAIN affiliates'
  /\ id \in DOMAIN affiliates' =>
       \A e \in DOMAIN affiliates[id].endpoints :
         affiliates[id].endpoints[e] > now => e \in DOMAIN affiliates'[id].endpoints

OnlyExpiredIsPruned ==
  [][\A id \in DOMAIN affiliates :
       KeepsUnexpired(id) \/ \E h \in Handlers : DeleteAffiliate(h, id)]_vars

(***************************************************************************)
(* Liveness.                                                               *)
(***************************************************************************)
\* Every RPC returns, by itself or through the recovered panic: fan-out never
\* waits for a client that does not read.  About the non-blocking sends and
\* the waits on closeOnce in Subscription.notify.
RpcsReturn ==
  \A h \in Handlers : pc[h] # "idle" ~> pc[h] \in {"done", "panicked"} \/ Crashed

\* An affiliate past its expiry is forgotten, unless it is refreshed: no
\* client can stall the cleanup goroutine.  About Prune's own fan-out.
ExpiredIsForgotten ==
  \A id \in AffiliateIDs :
    id \in DOMAIN affiliates /\ affiliates[id].expiry <= now
      ~> Crashed \/ (id \in DOMAIN affiliates => affiliates[id].expiry > now)

\* A stream whose context is done ends: its handler returns, its subscription
\* leaves the cluster and its channels are closed, although evictor, handler
\* and context goroutine may all be in Close at once.
CancelledWatchIsReleased ==
  \A w \in Watches :
    ctxDone[w] ~> Crashed \/ (wpc[w] = "done" /\ w \notin subscribers /\ ChClosed(w) /\ ErrClosed(w))

-----------------------------------------------------------------------------
(***************************************************************************)
(* What the repository's documentation, comments and tests say, and the    *)
(* code does not keep.  README.md and PROJECT.json quote the lines.        *)
(***************************************************************************)
\* Notifying a subscription that is being closed does not panic
\* (cluster_subscribe_test.go, notify after Close).
NoSendOnClosedChannel == \A t \in Threads : pc[t] # "panicked"

\* Watch: snapshot, then responses "as the affiliates get changed" (proto): a
\* stream that has drained its channel shows the table, once nothing about
\* the affiliate is in flight.
WatchShowsTable ==
  \A w \in Watches, id \in AffiliateIDs : Drained(w) /\ ~InFlight(id) => ViewAgrees(w, id)

\* A stream the server ends for a client that did not hang up ends with an
\* error, from which the client knows it must list again
\* (cluster_server.go, the comment on "lost update").
EvictedStreamEndsWithError ==
  \A w \in Watches : wpc[w] = "return" /\ ~ctxDone[w] => wresult[w] # "nil"
=============================================================================
