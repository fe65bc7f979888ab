---------------------------- MODULE InspectPage ----------------------------
(***************************************************************************)
(* The inspect page of the web UI (internal/web/assets/inspect.html) and   *)
(* what feeds it: List over HTTP, and the events of a Watch stream that    *)
(* the manager and its hub pass on (WatchManager.tla has them in detail).  *)
(*                                                                         *)
(* The page keeps one table for whatever cluster it looks at.  A click on  *)
(* List asks for the affiliates and replaces the table when the answer     *)
(* comes; a watch merges events into it; a deleted row stays, marked, until *)
(* a timer of three seconds removes it.  Clicks, answers, events and       *)
(* timers come in any order.                                               *)
(*                                                                         *)
(* What an affiliate stores is an opaque value: base64 and JSON keep it    *)
(* apart from every other one.  Of a cluster (Cluster.tla has it in detail) *)
(* there is its table and what its threads have still to announce: some    *)
(* changes come without an event, events are sent after the change and     *)
(* overtake each other, and some reach no stream.  Left out: the filter,   *)
(* paging, the log and the modal, which only render the table.             *)
(***************************************************************************)
EXTENDS Integers, Sequences, FiniteSets, FiniteSetsExt

CONSTANTS
  Clusters,               \* cluster ids that users type
  TooLong,                \* those of them that validateClusterID refuses
  AffiliateIDs,           \* affiliates
  Values,                 \* what an affiliate stores
  NoRow,                  \* no such affiliate
  Deleted,                \* a row marked _deleted
  None,                   \* nothing, no cluster
  Updaters,               \* threads of the server that change a cluster
  Fetches,                \* requests for the list that may be under way at once
  subscriberChannelSize,  \* events that may be under way to the page
  MaxChanges,             \* bound on the changes of the clusters
  MaxClicks,              \* bound on the clicks
  MaxBreaks               \* bound on the connections that break

ASSUME InspectPageAssumption ==
  /\ TooLong \subseteq Clusters
  /\ {NoRow, Deleted} \cap Values = {}
  /\ None \notin Clusters
  /\ subscriberChannelSize \in Nat \ {0}
  /\ {MaxChanges, MaxClicks, MaxBreaks} \subseteq Nat

VARIABLES
  table,        \* per cluster: its affiliates, as List shows them
  notice,       \* per thread of the server: the event it has still to send
  affiliates,   \* the page's table
  statCluster,  \* the cluster named at its top
  eventSource,  \* the cluster it watches
  joined,       \* its request is connected and in the hub
  streaming,    \* the manager's Watch stream is up, its snapshot sent
  feed,         \* events on their way to the page
  dropped,      \* the hub has dropped an event
  timers,       \* per affiliate: delayed deletions that are due
  fetch,        \* per request for a list: its cluster, state and response
  sure,         \* history: affiliates whose row, once the feed is empty, is right
  changes, clicks, breaks

pageVars   == <<affiliates, statCluster, timers>>
streamVars == <<eventSource, joined, streaming, feed, dropped>>
bounds     == <<changes, clicks, breaks>>
vars == <<table, notice, pageVars, streamVars, fetch, sure, bounds>>

NoNotice == [cluster |-> None]
NoFetch  == [cluster |-> None]
NoRows  == [id \in AffiliateIDs |-> NoRow]
Rows    == [AffiliateIDs -> Values \cup {NoRow}]

\* Events: what a response names, and whether it is deleted.
Events == [affiliates : UNION {[ids -> Values \cup {NoRow}] : ids \in SUBSET AffiliateIDs},
           deleted : BOOLEAN]

\* Events to be sent; "fresh" is history: nothing has changed the affiliate since.
Notices == [cluster : Clusters, id : AffiliateIDs, value : Values \cup {NoRow}, fresh : BOOLEAN]

\* Requests for the list that wait for the server, and those it has answered.
Asked    == [cluster : Clusters, state : {"sent"}]
Answered == [cluster : Clusters, state : {"answered"}, status : Nat,
             affiliates : Rows, fresh : SUBSET AffiliateIDs]

PageTypeOK ==
  /\ table \in [Clusters -> Rows]
  /\ notice \in [Updaters -> {NoNotice} \cup Notices]
  /\ affiliates \in [AffiliateIDs -> Values \cup {NoRow, Deleted}]
  /\ statCluster \in Clusters \cup {None}
  /\ timers \in [AffiliateIDs -> Nat]
  /\ fetch \in [Fetches -> {NoFetch} \cup Asked \cup Answered]
  /\ sure \subseteq AffiliateIDs
  /\ changes \in 0..MaxChanges /\ clicks \in 0..MaxClicks /\ breaks \in 0..MaxBreaks

StreamTypeOK ==
  /\ eventSource \in {None, statCluster}
  /\ joined \in BOOLEAN /\ streaming \in BOOLEAN /\ dropped \in BOOLEAN
  /\ streaming => joined
  /\ joined => eventSource # None
  /\ feed \in Seq(Events)
  /\ Len(feed) <= subscriberChannelSize

TypeOK == PageTypeOK /\ StreamTypeOK

Init ==
  /\ table = [c \in Clusters |-> NoRows]
  /\ notice = [u \in Updaters |-> NoNotice]
  /\ affiliates = NoRows
  /\ statCluster = None
  /\ eventSource = None /\ joined = FALSE /\ streaming = FALSE
  /\ feed = <<>> /\ dropped = FALSE
  /\ timers = [id \in AffiliateIDs |-> 0]
  /\ fetch = [f \in Fetches |-> NoFetch]
  /\ sure = {}
  /\ changes = 0 /\ clicks = 0 /\ breaks = 0

-----------------------------------------------------------------------------
(***************************************************************************)
(* The server's answers.                                                   *)
(***************************************************************************)
\* affiliatesToJSON: the ids a response names, and whether they are deleted.
affiliatesToJSON(rows, deleted) == [affiliates |-> rows, deleted |-> deleted]

Restricted(rows, ids) == [id \in ids |-> rows[id]]
Present(c) == {id \in AffiliateIDs : table[c][id] # NoRow}

\* Affiliates that an event among es names.
Named(es) == UNION {DOMAIN es[i].affiliates : i \in 1..Len(es)}

\* Mutant: the hub's channels have no bound.
BroadcastUnbounded(event) == feed' = Append(feed, event) /\ UNCHANGED dropped

\* Hub.Broadcast, for the page.
Broadcast(event) ==
  \/ Len(feed) < subscriberChannelSize /\ feed' = Append(feed, event) /\ UNCHANGED dropped
  \/ Len(feed) >= subscriberChannelSize /\ dropped' = TRUE /\ UNCHANGED feed

\* clusterServer.List.
List(c) == IF c \in TooLong THEN {[code |-> "OutOfRange", affiliates |-> NoRows]}
           ELSE {[code |-> "OK", affiliates |-> table[c]]}

\* What gRPC adds when the server cannot be reached, or takes five seconds.
Unreached == [code : {"Unavailable", "DeadlineExceeded", "Canceled"}, affiliates : {NoRows}]

\* Mutant: an unreachable server is no error.
StatusUnavailableIsOK(code) == IF code \in {"OK", "Unavailable"} THEN 200 ELSE 500

grpcErrorToHTTPStatus(code) ==
  CASE code = "OK" -> 200
    [] code \in {"InvalidArgument", "FailedPrecondition", "OutOfRange"} -> 400
    [] code = "Unauthenticated" -> 401
    [] code = "PermissionDenied" -> 403
    [] code = "NotFound" -> 404
    [] code \in {"AlreadyExists", "Aborted"} -> 409
    [] code = "ResourceExhausted" -> 429
    [] code \in {"Canceled", "DeadlineExceeded"} -> 504
    [] code = "Unimplemented" -> 501
    [] code = "Unavailable" -> 503
    [] OTHER -> 500

\* listAffiliatesHandler; an error has no "affiliates".
listAffiliatesHandler(f) ==
  /\ fetch[f].cluster # None
  /\ fetch[f].state = "sent"
  /\ \E r \in List(fetch[f].cluster) \cup Unreached :
       fetch' = [fetch EXCEPT ![f] = [cluster |-> @.cluster, state |-> "answered",
                                      status |-> grpcErrorToHTTPStatus(r.code),
                                      affiliates |-> r.affiliates, fresh |-> AffiliateIDs]]
  /\ UNCHANGED <<table, notice, pageVars, streamVars, sure, bounds>>

-----------------------------------------------------------------------------
(***************************************************************************)
(* The clusters change, and their streams tell of it.                      *)
(***************************************************************************)
\* History: answers under way, and events not yet sent, no longer tell the
\* truth about id.
OutdateAnswers(c, id) ==
  fetch' = [f \in Fetches |->
              IF fetch[f].cluster = c /\ fetch[f].state = "answered"
              THEN [fetch[f] EXCEPT !.fresh = @ \ {id}] ELSE fetch[f]]

Outdated(c, id) ==
  [u \in Updaters |-> IF notice[u].cluster = c /\ notice[u].id = id
                      THEN [notice[u] EXCEPT !.fresh = FALSE] ELSE notice[u]]

\* The table changes, and whatever the page shows of it is no longer sure.
Change(c, id, v) ==
  /\ changes < MaxChanges
  /\ changes' = changes + 1
  /\ c \notin TooLong
  /\ table[c][id] # v
  /\ table' = [table EXCEPT ![c][id] = v]
  /\ OutdateAnswers(c, id)
  /\ sure' = IF c = statCluster THEN sure \ {id} ELSE sure
  /\ UNCHANGED <<pageVars, streamVars, clicks, breaks>>

\* UpdateAffiliate, DeleteAffiliate or Prune, up to the unlock: the event is
\* made with the change, and sent later.
ChangeWithEvent(u, c, id, v) ==
  /\ notice[u] = NoNotice
  /\ Change(c, id, v)
  /\ notice' = [Outdated(c, id) EXCEPT
                  ![u] = [cluster |-> c, id |-> id, value |-> v, fresh |-> TRUE]]

\* A creation without data or endpoints, or a merge of endpoints that fails
\* half way: List shows it, no event tells of it.
SilentChange(c, id, v) ==
  /\ v # NoRow
  /\ Change(c, id, v)
  /\ notice' = Outdated(c, id)

\* notify, after the unlock and in any order: the event goes to the stream
\* that is up.  Or it does not: there is none, this one came after the copy of
\* the subscribers, or a panic at another stream ended the fan-out.
notify(u) ==
  LET n == notice[u]
  IN /\ n.cluster # None
     /\ notice' = [notice EXCEPT ![u] = NoNotice]
     /\ \/ /\ eventSource = n.cluster /\ streaming
           /\ Broadcast(affiliatesToJSON([id \in {n.id} |-> n.value], n.value = NoRow))
           /\ sure' = IF feed' = feed THEN sure
                      ELSE IF n.fresh THEN sure \cup {n.id} ELSE sure \ {n.id}
        \/ UNCHANGED <<feed, dropped, sure>>
     /\ UNCHANGED <<table, pageVars, eventSource, joined, streaming, fetch, bounds>>

\* watchAffiliatesHandler joins the hub: the Watch stream may be up already,
\* for another browser or just before this one, its snapshot broadcast.
JoinHub ==
  /\ eventSource # None
  /\ ~joined
  /\ joined' = TRUE
  /\ streaming' \in {FALSE, eventSource \notin TooLong}
  /\ UNCHANGED <<table, notice, pageVars, eventSource, feed, dropped, fetch, sure, bounds>>

\* Mutant: a stream that is set up again brings no snapshot.
WatchWithoutSnapshot ==
  /\ joined /\ ~streaming
  /\ eventSource \notin TooLong
  /\ streaming' = TRUE
  /\ UNCHANGED <<table, notice, pageVars, eventSource, joined, feed, dropped, fetch, sure, bounds>>

\* watchDiscovery gets its Watch stream: the snapshot comes first, as upserts,
\* and not at all if the cluster is empty.
WatchSnapshot ==
  /\ joined /\ ~streaming
  /\ eventSource \notin TooLong
  /\ streaming' = TRUE
  /\ LET ids == Present(eventSource)
     IN \/ /\ ids # {}
           /\ Broadcast(affiliatesToJSON(Restricted(table[eventSource], ids), FALSE))
           /\ sure' = IF feed' # feed THEN sure \cup ids ELSE sure
        \/ /\ ids = {}
           /\ UNCHANGED <<feed, dropped, sure>>
  /\ UNCHANGED <<table, notice, pageVars, eventSource, joined, fetch, bounds>>

\* The stream between the servers, or the page's own connection, breaks: any
\* number of the latest events is lost.  The manager and the browser retry.
Breaks ==
  /\ breaks < MaxBreaks
  /\ breaks' = breaks + 1
  /\ joined
  /\ \/ streaming /\ UNCHANGED joined
     \/ joined' = FALSE
  /\ streaming' = FALSE
  /\ \E n \in 0..Len(feed) :
       /\ feed' = SubSeq(feed, 1, n)
       /\ sure' = sure \ Named(SubSeq(feed, n + 1, Len(feed)))
  /\ UNCHANGED <<table, notice, pageVars, eventSource, dropped, fetch, changes, clicks>>

-----------------------------------------------------------------------------
(***************************************************************************)
(* The page.                                                               *)
(***************************************************************************)
\* Mutant: a deletion of a row the page does not have is left to itself.
ApplyWithoutTimer(event) ==
  LET ids == DOMAIN event.affiliates
  IN /\ affiliates' = [id \in AffiliateIDs |->
                         IF id \notin ids THEN affiliates[id]
                         ELSE IF event.deleted THEN Deleted ELSE event.affiliates[id]]
     /\ timers' = [id \in AffiliateIDs |->
                     IF event.deleted /\ id \in ids /\ affiliates[id] # NoRow
                     THEN timers[id] + 1 ELSE timers[id]]

applyUpdate(event) ==
  LET ids == DOMAIN event.affiliates
  IN /\ affiliates' = [id \in AffiliateIDs |->
                         IF id \notin ids THEN affiliates[id]
                         ELSE IF event.deleted THEN Deleted ELSE event.affiliates[id]]
     /\ timers' = [id \in AffiliateIDs |->
                     IF event.deleted /\ id \in ids THEN timers[id] + 1 ELSE timers[id]]

TakeEvent ==
  /\ feed # <<>>
  /\ feed' = Tail(feed)
  /\ applyUpdate(Head(feed))
  /\ UNCHANGED <<table, notice, statCluster, eventSource, joined, streaming, dropped, fetch, sure, bounds>>

\* The timer deletes the row, even one that came back in the meantime.
TimerFires(id) ==
  /\ timers[id] > 0
  /\ timers' = [timers EXCEPT ![id] = @ - 1]
  /\ affiliates' = [affiliates EXCEPT ![id] = NoRow]
  /\ sure' = IF affiliates[id] \in Values /\ id \notin Named(feed) THEN sure \ {id} ELSE sure
  /\ UNCHANGED <<table, notice, statCluster, streamVars, fetch, bounds>>

Click == clicks < MaxClicks /\ clicks' = clicks + 1 /\ UNCHANGED <<changes, breaks>>

Close == eventSource' = None /\ joined' = FALSE /\ streaming' = FALSE /\ feed' = <<>>

stopWatch ==
  /\ Click
  /\ eventSource # None
  /\ Close
  /\ sure' = sure \ Named(feed)
  /\ UNCHANGED <<table, notice, pageVars, dropped, fetch>>

\* startWatch keeps the rows, of whatever cluster they are.
startWatch(c) ==
  /\ Click
  /\ eventSource = None
  /\ eventSource' = c
  /\ statCluster' = c
  /\ sure' = IF c = statCluster THEN sure ELSE {}
  /\ UNCHANGED <<table, notice, affiliates, timers, joined, streaming, feed, dropped, fetch>>

\* Mutant: the watch goes on.
ListWhileWatching(c, f) ==
  /\ Click
  /\ fetch[f] = NoFetch
  /\ statCluster' = c
  /\ fetch' = [fetch EXCEPT ![f] = [cluster |-> c, state |-> "sent"]]
  /\ sure' = IF c = statCluster THEN sure \ Named(feed) ELSE {}
  /\ UNCHANGED <<table, notice, affiliates, timers, streamVars>>

\* listAffiliates, up to the await: the watch ends, the label changes, ...
listAffiliates(c, f) ==
  /\ Click
  /\ fetch[f] = NoFetch
  /\ Close
  /\ statCluster' = c
  /\ fetch' = [fetch EXCEPT ![f] = [cluster |-> c, state |-> "sent"]]
  /\ sure' = IF c = statCluster THEN sure \ Named(feed) ELSE {}
  /\ UNCHANGED <<table, notice, affiliates, timers, dropped>>

\* ... and after it: a good answer replaces the table, whatever the page looks
\* at by then, a bad one leaves it.
ListAnswered(f) ==
  LET answer == fetch[f]
  IN /\ answer.cluster # None
     /\ answer.state = "answered"
     /\ fetch' = [fetch EXCEPT ![f] = NoFetch]
     /\ \/ /\ answer.status \in 200..299
           /\ affiliates' = answer.affiliates
           /\ sure' = (sure \cap Named(feed))
                      \cup IF answer.cluster = statCluster THEN answer.fresh \ Named(feed) ELSE {}
        \/ /\ answer.status \notin 200..299
           /\ UNCHANGED <<affiliates, sure>>
     /\ UNCHANGED <<table, notice, statCluster, streamVars, timers, bounds>>

\* fetch or json() throws.
FetchFails(f) ==
  /\ fetch[f].cluster # None
  /\ breaks < MaxBreaks
  /\ breaks' = breaks + 1
  /\ fetch' = [fetch EXCEPT ![f] = NoFetch]
  /\ UNCHANGED <<table, notice, pageVars, streamVars, sure, changes, clicks>>

-----------------------------------------------------------------------------
Next ==
  \/ \E c \in Clusters, id \in AffiliateIDs, v \in Values \cup {NoRow} :
       SilentChange(c, id, v) \/ \E u \in Updaters : ChangeWithEvent(u, c, id, v)
  \/ \E u \in Updaters : notify(u)
  \/ JoinHub
  \/ WatchSnapshot
  \/ Breaks
  \/ TakeEvent
  \/ \E id \in AffiliateIDs : TimerFires(id)
  \/ stopWatch
  \/ \E c \in Clusters : startWatch(c)
  \/ \E c \in Clusters, f \in Fetches : listAffiliates(c, f)
  \/ \E f \in Fetches : listAffiliatesHandler(f) \/ ListAnswered(f) \/ FetchFails(f)

(***************************************************************************)
(* Timers fire, the page takes its events, and the manager gets a stream   *)
(* in the end: watchDiscovery retries until it does.                       *)
(***************************************************************************)
Fairness ==
  /\ \A id \in AffiliateIDs : WF_vars(TimerFires(id))
  /\ WF_vars(TakeEvent)
  /\ WF_vars(WatchSnapshot)

Spec == Init /\ [][Next]_vars /\ Fairness

-----------------------------------------------------------------------------
\* What rows show of id once the events es have been applied to them and the
\* timers have run out.
Shown(rows, es, id) ==
  LET naming == {i \in 1..Len(es) : id \in DOMAIN es[i].affiliates}
      last   == es[Max(naming)]
  IN IF naming = {} THEN IF rows[id] = Deleted THEN NoRow ELSE rows[id]
     ELSE IF last.deleted THEN NoRow ELSE last.affiliates[id]

Coming(id) == Shown(affiliates, feed, id)

\* A row that was listed, or named by an event, for the cluster at the top of
\* the page is what the server has, unless one of these has befallen it since:
\* a change of which the page was not told, because it made no event, no stream
\* was given the event, the hub dropped it or a break lost it; an event that
\* came after that of a later change; a later list answer that was outdated or
\* of another cluster; or a delayed deletion that hit the row after it had come
\* back.
\* About applyUpdate, listAffiliates and stopWatch, in any order, and errors
\* that must not pass for an empty list.
PageAgrees == \A id \in sure : Coming(id) = table[statCluster][id]

\* A row marked as deleted does not stay: it goes, or comes back to life.
\* About the timers, next to list answers, other events and other clusters.
DeletedRowGoes ==
  \A id \in AffiliateIDs : affiliates[id] = Deleted ~> affiliates[id] # Deleted

\* After the stream between the servers broke, a page that stays connected
\* gets to show every affiliate that the cluster has, unless it changes again
\* or the hub drops events.  About the snapshot on every reconnect.
ReconnectShowsAll ==
  \A c \in Clusters, id \in AffiliateIDs, v \in Values :
    eventSource = c /\ joined /\ ~streaming /\ table[c][id] = v
      ~> \/ eventSource # c \/ ~joined \/ dropped
         \/ table[c][id] # v
         \/ affiliates[id] = v
=============================================================================
