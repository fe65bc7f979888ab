------------------------- MODULE InspectPageProofs -------------------------
(***************************************************************************)
(* Theorems about InspectPage.tla, for every number of clusters, rows,     *)
(* requests and events.                                                    *)
(***************************************************************************)
EXTENDS InspectPage, PositionProofs, TLAPS

-----------------------------------------------------------------------------
(***************************************************************************)
(* Types.                                                                  *)
(***************************************************************************)
\* What the server answers with is a row per affiliate and a status.
LEMMA ResponseTyped ==
  ASSUME TypeOK, NEW c \in Clusters, NEW r \in List(c) \cup Unreached
  PROVE  /\ r.affiliates \in Rows
         /\ grpcErrorToHTTPStatus(r.code) \in Nat
         /\ grpcErrorToHTTPStatus(r.code) \in 200..299 =>
              c \notin TooLong /\ r.affiliates = table[c]
<1>1. NoRows \in Rows /\ table[c] \in Rows
  BY DEF NoRows, Rows, TypeOK, PageTypeOK
<1>2. CASE r \in Unreached
  <2>1. r.code \in {"Unavailable", "DeadlineExceeded", "Canceled"} /\ r.affiliates = NoRows
    BY <1>2 DEF Unreached
  <2>2. grpcErrorToHTTPStatus(r.code) \in {503, 504}
    BY <2>1 DEF grpcErrorToHTTPStatus
  <2> QED BY <1>1, <2>1, <2>2
<1>3. CASE r \in List(c) /\ c \in TooLong
  <2>1. r.code = "OutOfRange" /\ r.affiliates = NoRows
    BY <1>3 DEF List
  <2>2. grpcErrorToHTTPStatus(r.code) = 400
    BY <2>1 DEF grpcErrorToHTTPStatus
  <2> QED BY <1>1, <2>1, <2>2
<1>4. CASE r \in List(c) /\ c \notin TooLong
  <2>1. r.code = "OK" /\ r.affiliates = table[c]
    BY <1>4 DEF List
  <2>2. grpcErrorToHTTPStatus(r.code) = 200
    BY <2>1 DEF grpcErrorToHTTPStatus
  <2> QED BY <1>1, <1>4, <2>1, <2>2
<1> QED BY <1>2, <1>3, <1>4

\* An event is a response about some of the affiliates.
LEMMA EventTyped ==
  ASSUME NEW rows \in Rows, NEW ids \in SUBSET AffiliateIDs, NEW d \in BOOLEAN
  PROVE  affiliatesToJSON(Restricted(rows, ids), d) \in Events
<1>1. Restricted(rows, ids) \in [ids -> Values \cup {NoRow}]
  BY DEF Restricted, Rows
<1> QED BY <1>1 DEF affiliatesToJSON, Events

\* So is one that a thread of the server has still to send.
LEMMA NoticeTyped ==
  ASSUME NEW n \in Notices
  PROVE  affiliatesToJSON([id \in {n.id} |-> n.value], n.value = NoRow) \in Events
<1>1. n.id \in AffiliateIDs /\ n.value \in Values \cup {NoRow}
  BY DEF Notices
<1>2. {n.id} \in SUBSET AffiliateIDs /\ [id \in {n.id} |-> n.value] \in [{n.id} -> Values \cup {NoRow}]
  BY <1>1
<1> QED BY <1>2 DEF affiliatesToJSON, Events

\* An event that is outdated is still an event to be sent.
LEMMA OutdatedTyped ==
  ASSUME TypeOK, NEW c \in Clusters, NEW id
  PROVE  Outdated(c, id) \in [Updaters -> {NoNotice} \cup Notices]
<1>1. ASSUME NEW u \in Updaters, NEW n, n = notice[u]
      PROVE  (IF n.cluster = c /\ n.id = id THEN [n EXCEPT !.fresh = FALSE] ELSE n) \in {NoNotice} \cup Notices
  <2>1. n \in {NoNotice} \cup Notices
    BY <1>1 DEF TypeOK, PageTypeOK
  <2>2. CASE n = NoNotice
    <3>1. n.cluster # c
      BY <2>2, InspectPageAssumption DEF NoNotice
    <3> QED BY <2>1, <3>1
  <2>3. CASE n \in Notices
    BY <2>3 DEF Notices
  <2> QED BY <2>1, <2>2, <2>3
<1> QED BY <1>1 DEF Outdated

\* The hub's channel to the page holds events and never more than it may.
LEMMA BroadcastTyped ==
  ASSUME StreamTypeOK, NEW e \in Events, Broadcast(e)
  PROVE  /\ feed' \in Seq(Events) /\ Len(feed') <= subscriberChannelSize
         /\ dropped' \in BOOLEAN
         /\ feed' = feed \/ feed' = Append(feed, e)
<1>1. CASE Len(feed) < subscriberChannelSize /\ feed' = Append(feed, e) /\ UNCHANGED dropped
  BY <1>1, InspectPageAssumption DEF StreamTypeOK
<1>2. CASE Len(feed) >= subscriberChannelSize /\ dropped' = TRUE /\ UNCHANGED feed
  BY <1>2 DEF StreamTypeOK
<1> QED BY <1>1, <1>2 DEF Broadcast

\* Events that name affiliates name known ones.
LEMMA NamedTyped ==
  ASSUME NEW es \in Seq(Events)
  PROVE  Named(es) \subseteq AffiliateIDs
<1>1. ASSUME NEW i \in 1..Len(es) PROVE DOMAIN es[i].affiliates \subseteq AffiliateIDs
  <2>1. es[i] \in Events
    OBVIOUS
  <2> QED BY <2>1 DEF Events
<1> QED BY <1>1 DEF Named

\* An event source that is closed leaves nothing on its way.
LEMMA NoFeed == <<>> \in Seq(Events) /\ Len(<<>>) <= subscriberChannelSize
BY InspectPageAssumption

\* Init has the right types.
LEMMA TypeInit == Init => TypeOK
<1> SUFFICES ASSUME Init PROVE TypeOK
  OBVIOUS
<1>1. NoRows \in Rows
  BY DEF NoRows, Rows
<1>2. PageTypeOK
  BY <1>1, InspectPageAssumption DEF Init, PageTypeOK, NoRows, NoFetch, NoNotice
<1>3. StreamTypeOK
  BY NoFeed DEF Init, StreamTypeOK
<1> QED BY <1>2, <1>3 DEF TypeOK

\* Every step of the clusters, their streams, the list requests and the page
\* keeps the types.
LEMMA TypeStep == TypeOK /\ [Next]_vars => TypeOK'
<1> SUFFICES ASSUME TypeOK, [Next]_vars PROVE TypeOK'
  OBVIOUS
<1> USE InspectPageAssumption
<1>1. ASSUME NEW c \in Clusters, NEW id \in AffiliateIDs, NEW v \in Values \cup {NoRow}, Change(c, id, v),
             notice' \in [Updaters -> {NoNotice} \cup Notices]
      PROVE  TypeOK'
  <2>1. table' \in [Clusters -> Rows]
    BY <1>1 DEF Change, TypeOK, PageTypeOK, Rows
  <2>2. fetch' \in [Fetches -> {NoFetch} \cup Asked \cup Answered]
    <3>1. ASSUME NEW f \in Fetches PROVE fetch'[f] \in {NoFetch} \cup Asked \cup Answered
      BY <1>1, <3>1 DEF Change, OutdateAnswers, TypeOK, PageTypeOK, Answered, Asked, NoFetch
    <3> QED BY <1>1, <3>1 DEF Change, OutdateAnswers
  <2>3. sure' \subseteq AffiliateIDs
    BY <1>1 DEF Change, TypeOK, PageTypeOK
  <2>4. changes' \in 0..MaxChanges
    BY <1>1 DEF Change, TypeOK, PageTypeOK
  <2>5. PageTypeOK'
    BY <1>1, <2>1, <2>2, <2>3, <2>4 DEF Change, TypeOK, PageTypeOK, pageVars
  <2>6. StreamTypeOK'
    BY <1>1 DEF Change, TypeOK, StreamTypeOK, pageVars, streamVars
  <2> QED BY <2>5, <2>6 DEF TypeOK
<1>2. ASSUME NEW c \in Clusters, NEW id \in AffiliateIDs, NEW v \in Values \cup {NoRow}, SilentChange(c, id, v)
       PROVE  TypeOK'
  BY <1>1, <1>2, OutdatedTyped DEF SilentChange
<1>3. ASSUME NEW c \in Clusters, NEW id \in AffiliateIDs, NEW v \in Values \cup {NoRow}, NEW u \in Updaters,
              ChangeWithEvent(u, c, id, v)
       PROVE  TypeOK'
  <2>1. [cluster |-> c, id |-> id, value |-> v, fresh |-> TRUE] \in Notices
    BY DEF Notices
  <2>2. notice' \in [Updaters -> {NoNotice} \cup Notices]
    BY <1>3, <2>1, OutdatedTyped DEF ChangeWithEvent
  <2> QED BY <1>1, <1>3, <2>2 DEF ChangeWithEvent
<1>4. ASSUME NEW u \in Updaters, notify(u) PROVE TypeOK'
  <2> DEFINE n == notice[u]
             e == affiliatesToJSON([id \in {n.id} |-> n.value], n.value = NoRow)
  <2>1. n \in Notices
    BY <1>4 DEF notify, TypeOK, PageTypeOK, NoNotice
  <2>2. n.id \in AffiliateIDs /\ e \in Events
    BY <2>1, NoticeTyped DEF Notices
  <2> HIDE DEF e
  <2>3. feed' \in Seq(Events) /\ Len(feed') <= subscriberChannelSize /\ dropped' \in BOOLEAN
    <3>1. CASE Broadcast(e)
      BY <2>2, <3>1, BroadcastTyped DEF TypeOK
    <3>2. CASE UNCHANGED <<feed, dropped>>
      BY <3>2 DEF TypeOK, StreamTypeOK
    <3> QED BY <1>4, <3>1, <3>2 DEF notify, e
  <2>4. sure' \subseteq AffiliateIDs /\ notice' \in [Updaters -> {NoNotice} \cup Notices]
    BY <1>4, <2>2 DEF notify, TypeOK, PageTypeOK
  <2>5. PageTypeOK'
    BY <1>4, <2>4 DEF notify, TypeOK, PageTypeOK, pageVars, bounds
  <2>6. StreamTypeOK'
    BY <1>4, <2>3 DEF notify, TypeOK, StreamTypeOK, pageVars
  <2> QED BY <2>5, <2>6 DEF TypeOK
<1>5. CASE JoinHub
  <2>1. PageTypeOK'
    BY <1>5 DEF JoinHub, TypeOK, PageTypeOK, pageVars, bounds
  <2>2. StreamTypeOK'
    BY <1>5 DEF JoinHub, TypeOK, StreamTypeOK, pageVars
  <2> QED BY <2>1, <2>2 DEF TypeOK
<1>6. CASE WatchSnapshot
  <2> DEFINE ids == Present(eventSource)
  <2>0. eventSource \in Clusters /\ table[eventSource] \in Rows /\ ids \subseteq AffiliateIDs
    BY <1>6 DEF WatchSnapshot, TypeOK, PageTypeOK, StreamTypeOK, Present
  <2>1. PageTypeOK'
    BY <1>6, <2>0 DEF WatchSnapshot, TypeOK, PageTypeOK, pageVars, bounds
  <2>2. feed' \in Seq(Events) /\ Len(feed') <= subscriberChannelSize /\ dropped' \in BOOLEAN
    <3>1. CASE Broadcast(affiliatesToJSON(Restricted(table[eventSource], ids), FALSE))
      <4>1. affiliatesToJSON(Restricted(table[eventSource], ids), FALSE) \in Events
        BY <2>0, EventTyped
      <4> QED BY <3>1, <4>1, BroadcastTyped DEF TypeOK
    <3>2. CASE UNCHANGED <<feed, dropped>>
      BY <3>2 DEF TypeOK, StreamTypeOK
    <3> QED BY <1>6, <3>1, <3>2 DEF WatchSnapshot
  <2>3. StreamTypeOK'
    BY <1>6, <2>2 DEF WatchSnapshot, TypeOK, StreamTypeOK, pageVars
  <2> QED BY <2>1, <2>3 DEF TypeOK
<1>7. CASE Breaks
  <2>1. PICK n \in 0..Len(feed) : /\ feed' = SubSeq(feed, 1, n)
                                  /\ sure' = sure \ Named(SubSeq(feed, n + 1, Len(feed)))
    BY <1>7 DEF Breaks
  <2>2. feed' \in Seq(Events) /\ Len(feed') = n
    BY <2>1 DEF TypeOK, StreamTypeOK
  <2>3. breaks' \in 0..MaxBreaks
    BY <1>7 DEF Breaks, TypeOK, PageTypeOK
  <2>4. PageTypeOK'
    BY <1>7, <2>1, <2>3 DEF Breaks, TypeOK, PageTypeOK, pageVars
  <2>5. Len(feed') <= subscriberChannelSize
    BY <2>1, <2>2 DEF TypeOK, StreamTypeOK
  <2>6. StreamTypeOK'
    BY <1>7, <2>2, <2>5 DEF Breaks, TypeOK, StreamTypeOK, pageVars
  <2> QED BY <2>4, <2>6 DEF TypeOK
<1>8. CASE TakeEvent
  <2>1. Head(feed) \in Events /\ feed' \in Seq(Events) /\ Len(feed') = Len(feed) - 1
    BY <1>8 DEF TakeEvent, TypeOK, StreamTypeOK
  <2>2. timers' \in [AffiliateIDs -> Nat]
    BY <1>8 DEF TakeEvent, applyUpdate, TypeOK, PageTypeOK
  <2>3. affiliates' \in [AffiliateIDs -> Values \cup {NoRow, Deleted}]
    BY <1>8, <2>1 DEF TakeEvent, applyUpdate, TypeOK, PageTypeOK, Events
  <2>4. PageTypeOK'
    BY <1>8, <2>2, <2>3 DEF TakeEvent, TypeOK, PageTypeOK, bounds
  <2>5. Len(feed') <= subscriberChannelSize
    BY <2>1 DEF TypeOK, StreamTypeOK
  <2>6. StreamTypeOK'
    BY <1>8, <2>1, <2>5 DEF TakeEvent, TypeOK, StreamTypeOK
  <2> QED BY <2>4, <2>6 DEF TypeOK
<1>9. ASSUME NEW id \in AffiliateIDs, TimerFires(id) PROVE TypeOK'
  <2>1. timers' \in [AffiliateIDs -> Nat]
    BY <1>9 DEF TimerFires, TypeOK, PageTypeOK
  <2>2. affiliates' \in [AffiliateIDs -> Values \cup {NoRow, Deleted}]
    BY <1>9 DEF TimerFires, TypeOK, PageTypeOK
  <2>3. PageTypeOK'
    BY <1>9, <2>1, <2>2 DEF TimerFires, TypeOK, PageTypeOK, bounds
  <2>4. StreamTypeOK'
    BY <1>9 DEF TimerFires, TypeOK, StreamTypeOK, streamVars
  <2> QED BY <2>3, <2>4 DEF TypeOK
<1>10. CASE stopWatch
  <2>1. clicks' \in 0..MaxClicks
    BY <1>10 DEF stopWatch, Click, TypeOK, PageTypeOK
  <2>2. PageTypeOK'
    BY <1>10, <2>1 DEF stopWatch, Click, TypeOK, PageTypeOK, pageVars
  <2>3. StreamTypeOK'
    BY <1>10, NoFeed DEF stopWatch, Close, TypeOK, StreamTypeOK, pageVars
  <2> QED BY <2>2, <2>3 DEF TypeOK
<1>11. ASSUME NEW c \in Clusters, startWatch(c) PROVE TypeOK'
  <2>1. clicks' \in 0..MaxClicks
    BY <1>11 DEF startWatch, Click, TypeOK, PageTypeOK
  <2>2. PageTypeOK'
    BY <1>11, <2>1 DEF startWatch, Click, TypeOK, PageTypeOK
  <2>3. StreamTypeOK'
    BY <1>11 DEF startWatch, TypeOK, StreamTypeOK
  <2> QED BY <2>2, <2>3 DEF TypeOK
<1>12. ASSUME NEW c \in Clusters, NEW f \in Fetches, listAffiliates(c, f) PROVE TypeOK'
  <2>1. clicks' \in 0..MaxClicks
    BY <1>12 DEF listAffiliates, Click, TypeOK, PageTypeOK
  <2>2. fetch' \in [Fetches -> {NoFetch} \cup Asked \cup Answered]
    BY <1>12 DEF listAffiliates, TypeOK, PageTypeOK, Asked
  <2>3. PageTypeOK'
    BY <1>12, <2>1, <2>2 DEF listAffiliates, Click, TypeOK, PageTypeOK
  <2>4. StreamTypeOK'
    BY <1>12, NoFeed DEF listAffiliates, Close, TypeOK, StreamTypeOK
  <2> QED BY <2>3, <2>4 DEF TypeOK
<1>13. ASSUME NEW f \in Fetches, listAffiliatesHandler(f) PROVE TypeOK'
  <2>1. fetch[f].cluster \in Clusters
    BY <1>13 DEF listAffiliatesHandler, TypeOK, PageTypeOK, NoFetch, Asked, Answered
  <2>2. fetch' \in [Fetches -> {NoFetch} \cup Asked \cup Answered]
    <3>1. PICK r \in List(fetch[f].cluster) \cup Unreached :
            fetch' = [fetch EXCEPT ![f] = [cluster |-> @.cluster, state |-> "answered",
                        status |-> grpcErrorToHTTPStatus(r.code),
                        affiliates |-> r.affiliates, fresh |-> AffiliateIDs]]
      BY <1>13 DEF listAffiliatesHandler
    <3>2. r.affiliates \in Rows /\ grpcErrorToHTTPStatus(r.code) \in Nat
      BY <2>1, ResponseTyped
    <3>3. fetch'[f] \in Answered
      BY <2>1, <3>1, <3>2 DEF Answered, TypeOK, PageTypeOK
    <3> QED BY <3>1, <3>3 DEF TypeOK, PageTypeOK
  <2>3. PageTypeOK'
    BY <1>13, <2>2 DEF listAffiliatesHandler, TypeOK, PageTypeOK, pageVars, bounds
  <2>4. StreamTypeOK'
    BY <1>13 DEF listAffiliatesHandler, TypeOK, StreamTypeOK, pageVars, streamVars
  <2> QED BY <2>3, <2>4 DEF TypeOK
<1>14. ASSUME NEW f \in Fetches, ListAnswered(f) PROVE TypeOK'
  <2>1. fetch[f] \in Answered
    BY <1>14 DEF ListAnswered, TypeOK, PageTypeOK, NoFetch, Asked, Answered
  <2>2. affiliates' \in [AffiliateIDs -> Values \cup {NoRow, Deleted}] /\ sure' \subseteq AffiliateIDs
    BY <1>14, <2>1 DEF ListAnswered, TypeOK, PageTypeOK, Answered, Rows
  <2>3. PageTypeOK'
    BY <1>14, <2>2 DEF ListAnswered, TypeOK, PageTypeOK, bounds
  <2>4. StreamTypeOK'
    BY <1>14 DEF ListAnswered, TypeOK, StreamTypeOK, streamVars
  <2> QED BY <2>3, <2>4 DEF TypeOK
<1>15. ASSUME NEW f \in Fetches, FetchFails(f) PROVE TypeOK'
  <2>1. breaks' \in 0..MaxBreaks
    BY <1>15 DEF FetchFails, TypeOK, PageTypeOK
  <2>2. PageTypeOK'
    BY <1>15, <2>1 DEF FetchFails, TypeOK, PageTypeOK, pageVars
  <2>3. StreamTypeOK'
    BY <1>15 DEF FetchFails, TypeOK, StreamTypeOK, pageVars, streamVars
  <2> QED BY <2>2, <2>3 DEF TypeOK
<1>16. CASE UNCHANGED vars
  <2>1. PageTypeOK'
    BY <1>16 DEF TypeOK, PageTypeOK, vars, pageVars, bounds
  <2>2. StreamTypeOK'
    BY <1>16 DEF TypeOK, StreamTypeOK, vars, pageVars, streamVars
  <2> QED BY <2>1, <2>2 DEF TypeOK
<1> QED
  BY <1>2, <1>3, <1>4, <1>5, <1>6, <1>7, <1>8, <1>9, <1>10, <1>11, <1>12, <1>13, <1>14, <1>15, <1>16
  DEF Next

\* Whatever the order of clicks, answers, events and timers, the page's state
\* keeps its types: in particular the channel of Hub.Broadcast stays within
\* its capacity, and the page watches no cluster but the one it names.
THEOREM TypeCorrect == Spec => []TypeOK
BY TypeInit, TypeStep, PTL DEF Spec

-----------------------------------------------------------------------------
(***************************************************************************)
(* What the page shows.                                                    *)
(***************************************************************************)
\* Max is the last of the positions it is given.
LEMMA MaxIsLast ==
  ASSUME NEW m \in Nat, NEW S \in SUBSET (1..m), NEW k \in S, \A i \in S : i <= k
  PROVE  Max(S) = k
<1>1. k >= k /\ \A y \in S : k >= y
  OBVIOUS
<1>2. Max(S) \in S /\ \A y \in S : Max(S) >= y
  BY <1>1 DEF Max
<1> DEFINE x == Max(S)
<1>3. x \in S /\ \A y \in S : x >= y
  BY <1>2
<1> HIDE DEF x
<1>4. x \in Nat /\ k \in Nat
  BY <1>3
<1>5. x <= k /\ x >= k
  BY <1>3
<1>6. x = k
  BY <1>4, <1>5
<1> QED BY <1>6 DEF x

\* Positions of the events that name an affiliate.
Naming(es, id) == {i \in 1..Len(es) : id \in DOMAIN es[i].affiliates}

\* Without an event about it, a row shows what it is, ...
LEMMA ShownAlone ==
  ASSUME NEW rows, NEW es, NEW id, id \notin Named(es)
  PROVE  Shown(rows, es, id) = IF rows[id] = Deleted THEN NoRow ELSE rows[id]
<1>1. Naming(es, id) = {}
  BY DEF Named, Naming
<1> QED BY <1>1 DEF Shown, Naming

\* ... with one, what the last of them says, whatever the row was before.
LEMMA ShownByLast ==
  ASSUME NEW rows, NEW es, NEW id, Len(es) \in Nat,
         NEW k \in Naming(es, id), \A i \in Naming(es, id) : i <= k
  PROVE  Shown(rows, es, id) = IF es[k].deleted THEN NoRow ELSE es[k].affiliates[id]
<1>1. Naming(es, id) \in SUBSET (1..Len(es))
  BY DEF Naming
<1>2. Max(Naming(es, id)) = k
  BY <1>1, MaxIsLast
<1> QED BY <1>2 DEF Shown, Naming

\* An affiliate that an event names has a last event.
LEMMA LastEvent ==
  ASSUME NEW es, Len(es) \in Nat, NEW id \in Named(es)
  PROVE  \E k \in Naming(es, id) : \A i \in Naming(es, id) : i <= k
<1>1. Naming(es, id) \in SUBSET (1..Len(es)) /\ Naming(es, id) # {}
  BY DEF Naming, Named
<1> QED BY <1>1, LastPosition

\* Rows that an event will overwrite do not matter.
LEMMA ShownWhateverRows ==
  ASSUME NEW rows, NEW others, NEW es, Len(es) \in Nat, NEW id \in Named(es)
  PROVE  Shown(rows, es, id) = Shown(others, es, id)
<1>1. PICK k \in Naming(es, id) : \A i \in Naming(es, id) : i <= k
  BY LastEvent
<1> QED BY <1>1, ShownByLast

\* An event that is added decides what it names, and nothing else.
LEMMA ShownAppended ==
  ASSUME NEW rows, NEW es \in Seq(Events), NEW e \in Events, NEW id
  PROVE  Shown(rows, Append(es, e), id) =
           IF id \in DOMAIN e.affiliates
           THEN IF e.deleted THEN NoRow ELSE e.affiliates[id]
           ELSE Shown(rows, es, id)
<1> DEFINE fs == Append(es, e)
           n  == Len(es) + 1
<1>1. /\ Len(es) \in Nat /\ Len(fs) = n /\ n \in Nat /\ fs[n] = e
      /\ \A i \in 1..Len(es) : fs[i] = es[i]
  OBVIOUS
<1> HIDE DEF fs, n
<1>2. CASE id \in DOMAIN e.affiliates
  <2>1. n \in Naming(fs, id) /\ \A i \in Naming(fs, id) : i <= n
    BY <1>1, <1>2 DEF Naming, n
  <2>2. Shown(rows, fs, id) = IF fs[n].deleted THEN NoRow ELSE fs[n].affiliates[id]
    BY <1>1, <2>1, ShownByLast
  <2> QED BY <1>1, <1>2, <2>2 DEF fs
<1>3. CASE id \notin DOMAIN e.affiliates
  <2>1. Naming(fs, id) = Naming(es, id)
    BY <1>1, <1>3 DEF Naming, n
  <2>2. CASE id \in Named(es)
    <3>1. PICK k \in Naming(es, id) : \A i \in Naming(es, id) : i <= k
      BY <1>1, <2>2, LastEvent
    <3>2. fs[k] = es[k]
      BY <1>1, <3>1 DEF Naming
    <3>3. Shown(rows, fs, id) = IF fs[k].deleted THEN NoRow ELSE fs[k].affiliates[id]
      BY <1>1, <2>1, <3>1, ShownByLast
    <3>4. Shown(rows, es, id) = IF es[k].deleted THEN NoRow ELSE es[k].affiliates[id]
      BY <1>1, <3>1, ShownByLast
    <3> QED BY <1>3, <3>2, <3>3, <3>4 DEF fs
  <2>3. CASE id \notin Named(es)
    <3>1. id \notin Named(fs)
      BY <2>1, <2>3 DEF Naming, Named
    <3> QED BY <1>3, <2>3, <3>1, ShownAlone DEF fs
  <2> QED BY <2>2, <2>3
<1> QED BY <1>2, <1>3

\* Losing the latest events does not matter to what they do not name.
LEMMA ShownTruncated ==
  ASSUME NEW rows, NEW es \in Seq(Events), NEW n \in 0..Len(es), NEW id,
         id \notin Named(SubSeq(es, n + 1, Len(es)))
  PROVE  Shown(rows, SubSeq(es, 1, n), id) = Shown(rows, es, id)
<1> DEFINE fs   == SubSeq(es, 1, n)
           rest == SubSeq(es, n + 1, Len(es))
<1>1. Len(es) \in Nat /\ Len(fs) = n /\ n \in Nat /\ \A i \in 1..n : fs[i] = es[i]
  OBVIOUS
<1>2. Len(rest) = Len(es) - n /\ \A i \in 1..Len(rest) : rest[i] = es[n + i]
  OBVIOUS
<1>3. id \notin Named(rest)
  OBVIOUS
<1> HIDE DEF fs, rest
<1>4. ASSUME NEW i \in (n + 1)..Len(es) PROVE id \notin DOMAIN es[i].affiliates
  <2>1. i - n \in 1..Len(rest) /\ n + (i - n) = i
    BY <1>1, <1>2
  <2>2. rest[i - n] = es[i]
    BY <1>2, <2>1
  <2> QED BY <1>3, <2>1, <2>2 DEF Named
<1>5. Naming(fs, id) = Naming(es, id)
  BY <1>1, <1>4 DEF Naming
<1>6. CASE id \in Named(es)
  <2>1. PICK k \in Naming(es, id) : \A i \in Naming(es, id) : i <= k
    BY <1>1, <1>6, LastEvent
  <2>2. fs[k] = es[k]
    BY <1>1, <1>5, <2>1 DEF Naming
  <2>3. Shown(rows, fs, id) = IF fs[k].deleted THEN NoRow ELSE fs[k].affiliates[id]
    BY <1>1, <1>5, <2>1, ShownByLast
  <2>4. Shown(rows, es, id) = IF es[k].deleted THEN NoRow ELSE es[k].affiliates[id]
    BY <1>1, <2>1, ShownByLast
  <2>5. Shown(rows, fs, id) = Shown(rows, es, id)
    BY <2>2, <2>3, <2>4
  <2> QED BY <2>5 DEF fs
<1>7. CASE id \notin Named(es)
  <2>1. id \notin Named(fs)
    BY <1>5, <1>7 DEF Naming, Named
  <2> QED BY <1>7, <2>1, ShownAlone DEF fs
<1> QED BY <1>6, <1>7

\* What a row shows once an event is applied to it.
Applied(rows, e, id) ==
  IF id \notin DOMAIN e.affiliates THEN rows[id]
  ELSE IF e.deleted THEN Deleted ELSE e.affiliates[id]

\* Applying the first event on its way changes nothing about what is coming.
LEMMA ShownTaken ==
  ASSUME NEW rows, NEW others, NEW es \in Seq(Events), es # <<>>, NEW id,
         others[id] = Applied(rows, Head(es), id)
  PROVE  Shown(others, Tail(es), id) = Shown(rows, es, id)
<1> DEFINE fs == Tail(es)
<1>1. /\ Len(es) \in Nat /\ Len(es) # 0 /\ Len(fs) = Len(es) - 1 /\ Len(fs) \in Nat
      /\ Head(es) = es[1] /\ es[1] \in Events
      /\ \A i \in 1..Len(fs) : fs[i] = es[i + 1]
  OBVIOUS
<1> HIDE DEF fs
<1>2. \A i \in 1..Len(fs) : i + 1 \in 1..Len(es)
  BY <1>1
<1>3. \A i \in 2..Len(es) : i - 1 \in 1..Len(fs) /\ (i - 1) + 1 = i /\ fs[i - 1] = es[i]
  BY <1>1
<1>4. CASE id \in Named(fs)
  <2>1. PICK k \in Naming(fs, id) : \A i \in Naming(fs, id) : i <= k
    BY <1>1, <1>4, LastEvent
  <2>2. k \in 1..Len(fs) /\ fs[k] = es[k + 1]
    BY <1>1, <2>1 DEF Naming
  <2>3. k + 1 \in Naming(es, id)
    BY <1>2, <2>1, <2>2 DEF Naming
  <2>4. ASSUME NEW i \in Naming(es, id) PROVE i <= k + 1
    <3>1. i \in 1..Len(es) /\ id \in DOMAIN es[i].affiliates
      BY DEF Naming
    <3>2. CASE i = 1
      BY <2>2, <3>2
    <3>3. CASE i # 1
      <4>1. i \in 2..Len(es)
        BY <1>1, <3>1, <3>3
      <4>2. i - 1 \in Naming(fs, id)
        BY <1>3, <3>1, <4>1 DEF Naming
      <4>3. i - 1 <= k
        BY <2>1, <4>2
      <4> QED BY <2>2, <4>1, <4>3
    <3> QED BY <3>2, <3>3
  <2>5. Shown(others, fs, id) = IF fs[k].deleted THEN NoRow ELSE fs[k].affiliates[id]
    BY <1>1, <2>1, ShownByLast
  <2>6. Shown(rows, es, id) = IF es[k + 1].deleted THEN NoRow ELSE es[k + 1].affiliates[id]
    BY <1>1, <2>3, <2>4, ShownByLast
  <2> QED BY <2>2, <2>5, <2>6 DEF fs
<1>5. CASE id \notin Named(fs)
  <2>1. Shown(others, fs, id) = IF others[id] = Deleted THEN NoRow ELSE others[id]
    BY <1>5, ShownAlone
  <2>2. \A i \in 2..Len(es) : id \notin DOMAIN es[i].affiliates
    BY <1>3, <1>5 DEF Named
  <2>3. \A i \in Naming(es, id) : i = 1
    BY <1>1, <2>2 DEF Naming
  <2>4. CASE id \in DOMAIN es[1].affiliates
    <3>1. 1 \in Naming(es, id) /\ \A i \in Naming(es, id) : i <= 1
      BY <1>1, <2>3, <2>4 DEF Naming
    <3>2. Shown(rows, es, id) = IF es[1].deleted THEN NoRow ELSE es[1].affiliates[id]
      BY <1>1, <3>1, ShownByLast
    <3>3. others[id] = IF es[1].deleted THEN Deleted ELSE es[1].affiliates[id]
      BY <1>1, <2>4 DEF Applied
    <3>4. es[1].affiliates[id] \in Values \cup {NoRow}
      BY <1>1, <2>4 DEF Events
    <3>5. es[1].affiliates[id] = Deleted => es[1].affiliates[id] = NoRow
      BY <3>4, InspectPageAssumption
    <3> QED BY <2>1, <3>2, <3>3, <3>5 DEF fs
  <2>5. CASE id \notin DOMAIN es[1].affiliates
    <3>1. id \notin Named(es)
      BY <2>3, <2>5 DEF Naming, Named
    <3>2. others[id] = rows[id]
      BY <1>1, <2>5 DEF Applied
    <3> QED BY <2>1, <3>1, <3>2, ShownAlone DEF fs
  <2> QED BY <2>4, <2>5
<1> QED BY <1>4, <1>5

-----------------------------------------------------------------------------
(***************************************************************************)
(* The page agrees with the server.                                        *)
(***************************************************************************)
\* A good answer that is still under way tells the truth about the affiliates
\* that have not changed since the server gave it.
AnswersInv ==
  \A f \in Fetches :
    fetch[f] \in Answered /\ fetch[f].status \in 200..299 =>
      \A id \in fetch[f].fresh : fetch[f].affiliates[id] = table[fetch[f].cluster][id]

\* An event that is still to be sent tells the truth, unless the affiliate has
\* changed since.
NoticesInv ==
  \A u \in Updaters :
    notice[u] \in Notices /\ notice[u].fresh =>
      notice[u].value = table[notice[u].cluster][notice[u].id]

\* Before the first click nothing is promised.
NothingSureYet == statCluster = None => sure = {}

PageInv == AnswersInv /\ NoticesInv /\ NothingSureYet /\ PageAgrees

\* The empty page promises nothing.
LEMMA PageInit == Init => PageInv
BY InspectPageAssumption
DEF Init, PageInv, AnswersInv, NoticesInv, NothingSureYet, PageAgrees, NoFetch, Answered, NoNotice, Notices

\* A change outdates the answers under way, and only those about its cluster.
LEMMA AnswersByChange ==
  ASSUME TypeOK, AnswersInv, NEW c \in Clusters, NEW id \in AffiliateIDs,
         NEW v \in Values \cup {NoRow}, Change(c, id, v)
  PROVE  AnswersInv'
<1> SUFFICES ASSUME NEW f \in Fetches, fetch'[f] \in Answered, fetch'[f].status \in 200..299,
                    NEW a \in fetch'[f].fresh
             PROVE  fetch'[f].affiliates[a] = table'[fetch'[f].cluster][a]
  BY DEF AnswersInv
<1>1. fetch'[f] = IF fetch[f].cluster = c /\ fetch[f].state = "answered"
                  THEN [fetch[f] EXCEPT !.fresh = @ \ {id}] ELSE fetch[f]
  BY DEF Change, OutdateAnswers
<1>2. table' = [table EXCEPT ![c][id] = v] /\ table \in [Clusters -> Rows]
  BY DEF Change, TypeOK, PageTypeOK
<1>3. fetch[f] \in {NoFetch} \cup Asked \cup Answered
  BY DEF TypeOK, PageTypeOK
<1>4. fetch[f] \in Answered
  BY <1>1, <1>3 DEF Answered, Asked, NoFetch
<1>5. CASE fetch[f].cluster = c
  <2>1. /\ fetch'[f].affiliates = fetch[f].affiliates /\ fetch'[f].cluster = c
        /\ fetch'[f].fresh = fetch[f].fresh \ {id} /\ fetch'[f].status = fetch[f].status
    BY <1>1, <1>4, <1>5 DEF Answered
  <2>2. table'[c][a] = table[c][a]
    BY <1>2, <2>1 DEF Rows
  <2> QED BY <1>4, <1>5, <2>1, <2>2 DEF AnswersInv
<1>6. CASE fetch[f].cluster # c
  <2>1. fetch'[f] = fetch[f] /\ fetch[f].cluster \in Clusters
    BY <1>1, <1>4, <1>6 DEF Answered
  <2>2. table'[fetch[f].cluster] = table[fetch[f].cluster]
    BY <1>2, <1>6, <2>1
  <2> QED BY <1>4, <2>1, <2>2 DEF AnswersInv
<1> QED BY <1>5, <1>6

\* No step makes an answer under way say what is not so.
LEMMA AnswersStep ==
  ASSUME TypeOK, AnswersInv, [Next]_vars
  PROVE  AnswersInv'
<1>1. ASSUME fetch' = fetch, table' = table PROVE AnswersInv'
  BY <1>1 DEF AnswersInv
<1>2. ASSUME NEW f \in Fetches, NEW x \in {NoFetch} \cup Asked,
             fetch' = [fetch EXCEPT ![f] = x], table' = table
      PROVE  AnswersInv'
  <2>1. x \notin Answered
    BY <1>2 DEF NoFetch, Asked, Answered
  <2> QED BY <1>2, <2>1 DEF AnswersInv, TypeOK, PageTypeOK
<1>3. ASSUME NEW f \in Fetches, listAffiliatesHandler(f) PROVE AnswersInv'
  <2>1. fetch[f].cluster \in Clusters
    BY <1>3 DEF listAffiliatesHandler, TypeOK, PageTypeOK, NoFetch, Asked, Answered
  <2>2. PICK r \in List(fetch[f].cluster) \cup Unreached :
          fetch' = [fetch EXCEPT ![f] = [cluster |-> @.cluster, state |-> "answered",
                      status |-> grpcErrorToHTTPStatus(r.code),
                      affiliates |-> r.affiliates, fresh |-> AffiliateIDs]]
    BY <1>3 DEF listAffiliatesHandler
  <2>3. grpcErrorToHTTPStatus(r.code) \in 200..299 => r.affiliates = table[fetch[f].cluster]
    BY <2>1, ResponseTyped
  <2>4. /\ fetch'[f].cluster = fetch[f].cluster /\ fetch'[f].affiliates = r.affiliates
        /\ fetch'[f].status = grpcErrorToHTTPStatus(r.code)
    BY <2>2 DEF TypeOK, PageTypeOK
  <2>5. \A g \in Fetches \ {f} : fetch'[g] = fetch[g]
    BY <2>2 DEF TypeOK, PageTypeOK
  <2>6. table' = table
    BY <1>3 DEF listAffiliatesHandler
  <2> QED BY <2>3, <2>4, <2>5, <2>6 DEF AnswersInv
<1>4. ASSUME NEW c \in Clusters, NEW id \in AffiliateIDs, NEW v \in Values \cup {NoRow},
             SilentChange(c, id, v) \/ \E u \in Updaters : ChangeWithEvent(u, c, id, v)
      PROVE  AnswersInv'
  BY <1>4, AnswersByChange DEF SilentChange, ChangeWithEvent
<1>5. ASSUME NEW c \in Clusters, NEW f \in Fetches, listAffiliates(c, f) PROVE AnswersInv'
  <2>1. [cluster |-> c, state |-> "sent"] \in Asked
    BY DEF Asked
  <2> QED BY <1>2, <1>5, <2>1 DEF listAffiliates
<1>6. ASSUME NEW f \in Fetches, ListAnswered(f) \/ FetchFails(f) PROVE AnswersInv'
  BY <1>2, <1>6 DEF ListAnswered, FetchFails
<1>7. CASE JoinHub \/ WatchSnapshot \/ Breaks \/ TakeEvent \/ stopWatch
  BY <1>1, <1>7 DEF JoinHub, WatchSnapshot, Breaks, TakeEvent, stopWatch
<1>8. ASSUME NEW id \in AffiliateIDs, TimerFires(id) PROVE AnswersInv'
  BY <1>1, <1>8 DEF TimerFires
<1>9. ASSUME NEW c \in Clusters, startWatch(c) PROVE AnswersInv'
  BY <1>1, <1>9 DEF startWatch
<1>10. CASE UNCHANGED vars
  BY <1>1, <1>10 DEF vars
<1>11. ASSUME NEW u \in Updaters, notify(u) PROVE AnswersInv'
  BY <1>1, <1>11 DEF notify
<1> QED BY <1>3, <1>4, <1>5, <1>6, <1>7, <1>8, <1>9, <1>10, <1>11 DEF Next

\* A change outdates the events about its affiliate that are still to be sent,
\* and makes at most one that is true.
LEMMA NoticesByChange ==
  ASSUME TypeOK, NoticesInv, NEW c \in Clusters, NEW id \in AffiliateIDs,
         NEW v \in Values \cup {NoRow}, Change(c, id, v), NEW u \in Updaters,
         notice'[u] \in Notices, notice'[u].fresh,
         \/ notice'[u] = Outdated(c, id)[u]
         \/ notice'[u] = [cluster |-> c, id |-> id, value |-> v, fresh |-> TRUE]
  PROVE  notice'[u].value = table'[notice'[u].cluster][notice'[u].id]
<1>1. table' = [table EXCEPT ![c][id] = v] /\ table \in [Clusters -> Rows]
  BY DEF Change, TypeOK, PageTypeOK
<1>2. CASE notice'[u] = [cluster |-> c, id |-> id, value |-> v, fresh |-> TRUE]
  BY <1>1, <1>2 DEF Rows
<1>3. CASE notice'[u] = Outdated(c, id)[u]
  <2>1. PICK n : n = notice[u]
    OBVIOUS
  <2>2. n \in {NoNotice} \cup Notices
    BY <2>1 DEF TypeOK, PageTypeOK
  <2>3. notice'[u] = IF n.cluster = c /\ n.id = id THEN [n EXCEPT !.fresh = FALSE] ELSE n
    BY <1>3, <2>1 DEF Outdated
  <2>4. n \in Notices
    BY <2>2, <2>3 DEF Notices, NoNotice
  <2>5. ~(n.cluster = c /\ n.id = id) /\ notice'[u] = n
    BY <2>3, <2>4 DEF Notices
  <2>6. n.cluster \in Clusters /\ n.id \in AffiliateIDs /\ n.value = table[n.cluster][n.id]
    BY <2>1, <2>4, <2>5 DEF NoticesInv, Notices
  <2>7. table'[n.cluster][n.id] = table[n.cluster][n.id]
    BY <1>1, <2>5, <2>6 DEF Rows
  <2> QED BY <2>5, <2>6, <2>7
<1> QED BY <1>2, <1>3

\* No step makes an event that is still to be sent, and not outdated, untrue.
LEMMA NoticesStep ==
  ASSUME TypeOK, NoticesInv, [Next]_vars
  PROVE  NoticesInv'
<1>1. ASSUME notice' = notice, table' = table PROVE NoticesInv'
  BY <1>1 DEF NoticesInv
<1>2. ASSUME NEW c \in Clusters, NEW id \in AffiliateIDs, NEW v \in Values \cup {NoRow}, SilentChange(c, id, v)
      PROVE  NoticesInv'
  BY <1>2, NoticesByChange DEF SilentChange, NoticesInv
<1>3. ASSUME NEW c \in Clusters, NEW id \in AffiliateIDs, NEW v \in Values \cup {NoRow}, NEW u \in Updaters,
             ChangeWithEvent(u, c, id, v)
      PROVE  NoticesInv'
  <2>1. \A t \in Updaters : notice'[t] = IF t = u THEN [cluster |-> c, id |-> id, value |-> v, fresh |-> TRUE]
                                        ELSE Outdated(c, id)[t]
    BY <1>3, OutdatedTyped DEF ChangeWithEvent
  <2>2. Change(c, id, v)
    BY <1>3 DEF ChangeWithEvent
  <2> QED BY <2>1, <2>2, NoticesByChange DEF NoticesInv
<1>4. ASSUME NEW u \in Updaters, notify(u) PROVE NoticesInv'
  <2>1. notice' = [notice EXCEPT ![u] = NoNotice] /\ table' = table /\ NoNotice \notin Notices
    BY <1>4, InspectPageAssumption DEF notify, NoNotice, Notices
  <2> QED BY <2>1 DEF NoticesInv, TypeOK, PageTypeOK
<1>5. CASE JoinHub \/ WatchSnapshot \/ Breaks \/ TakeEvent \/ stopWatch
  BY <1>1, <1>5 DEF JoinHub, WatchSnapshot, Breaks, TakeEvent, stopWatch
<1>6. ASSUME NEW id \in AffiliateIDs, TimerFires(id) PROVE NoticesInv'
  BY <1>1, <1>6 DEF TimerFires
<1>7. ASSUME NEW c \in Clusters, startWatch(c) \/ \E f \in Fetches : listAffiliates(c, f)
      PROVE  NoticesInv'
  BY <1>1, <1>7 DEF startWatch, listAffiliates
<1>8. ASSUME NEW f \in Fetches, listAffiliatesHandler(f) \/ ListAnswered(f) \/ FetchFails(f)
      PROVE  NoticesInv'
  BY <1>1, <1>8 DEF listAffiliatesHandler, ListAnswered, FetchFails
<1>9. CASE UNCHANGED vars
  BY <1>1, <1>9 DEF vars
<1> QED BY <1>2, <1>3, <1>4, <1>5, <1>6, <1>7, <1>8, <1>9 DEF Next

\* A click on List or Watch names a cluster, and nothing is promised before.
LEMMA SureStep ==
  ASSUME TypeOK, NothingSureYet, [Next]_vars
  PROVE  NothingSureYet'
<1> USE InspectPageAssumption
<1>1. ASSUME NEW c \in Clusters, NEW id \in AffiliateIDs, NEW v \in Values \cup {NoRow},
             SilentChange(c, id, v) \/ \E u \in Updaters : ChangeWithEvent(u, c, id, v)
      PROVE  NothingSureYet'
  BY <1>1 DEF SilentChange, ChangeWithEvent, Change, NothingSureYet, pageVars
<1>2. CASE JoinHub \/ WatchSnapshot \/ Breaks \/ TakeEvent \/ stopWatch
  BY <1>2 DEF JoinHub, WatchSnapshot, Breaks, TakeEvent, stopWatch, pageVars, NothingSureYet,
              TypeOK, StreamTypeOK
<1>3. ASSUME NEW id \in AffiliateIDs, TimerFires(id) PROVE NothingSureYet'
  BY <1>3 DEF TimerFires, NothingSureYet
<1>4. ASSUME NEW c \in Clusters, startWatch(c) PROVE NothingSureYet'
  BY <1>4 DEF startWatch, NothingSureYet
<1>5. ASSUME NEW c \in Clusters, NEW f \in Fetches, listAffiliates(c, f) PROVE NothingSureYet'
  BY <1>5 DEF listAffiliates, NothingSureYet
<1>6. ASSUME NEW f \in Fetches, listAffiliatesHandler(f) \/ FetchFails(f) PROVE NothingSureYet'
  BY <1>6 DEF listAffiliatesHandler, FetchFails, NothingSureYet, pageVars
<1>7. ASSUME NEW f \in Fetches, ListAnswered(f) PROVE NothingSureYet'
  BY <1>7 DEF ListAnswered, NothingSureYet
<1>8. CASE UNCHANGED vars
  BY <1>8 DEF vars, pageVars, NothingSureYet
<1>9. ASSUME NEW u \in Updaters, notify(u) PROVE NothingSureYet'
  <2>1. eventSource = notice[u].cluster /\ notice[u].cluster # None => statCluster # None
    BY DEF TypeOK, StreamTypeOK
  <2> QED BY <1>9, <2>1 DEF notify, NothingSureYet, pageVars
<1> QED BY <1>1, <1>2, <1>3, <1>4, <1>5, <1>6, <1>7, <1>8, <1>9 DEF Next

\* A change takes its affiliate off the list of the sure ones.
LEMMA AgreesByChange ==
  ASSUME TypeOK, PageInv, NEW c \in Clusters, NEW id \in AffiliateIDs,
         NEW v \in Values \cup {NoRow}, Change(c, id, v)
  PROVE  PageAgrees'
<1> SUFFICES ASSUME NEW a \in sure' PROVE Shown(affiliates, feed, a) = table'[statCluster][a]
  BY DEF PageAgrees, Coming, Change, pageVars, streamVars
<1>1. table' = [table EXCEPT ![c][id] = v] /\ table \in [Clusters -> Rows]
  BY DEF Change, TypeOK, PageTypeOK
<1>2. a \in sure /\ (c = statCluster => a # id)
  BY DEF Change
<1>3. /\ a \in AffiliateIDs /\ statCluster \in Clusters
      /\ Shown(affiliates, feed, a) = table[statCluster][a]
  BY <1>2 DEF PageInv, PageAgrees, Coming, NothingSureYet, TypeOK, PageTypeOK
<1>4. table'[statCluster][a] = table[statCluster][a]
  BY <1>1, <1>2, <1>3 DEF Rows
<1> QED BY <1>3, <1>4

\* An event that the hub takes settles what it names if it is not outdated, and
\* otherwise takes it off the list of the sure ones.
LEMMA AgreesByEvent ==
  ASSUME TypeOK, PageInv, NEW u \in Updaters, notify(u)
  PROVE  PageAgrees'
<1> DEFINE n == notice[u]
           e == affiliatesToJSON([id \in {n.id} |-> n.value], n.value = NoRow)
<1> SUFFICES ASSUME NEW a \in sure' PROVE Shown(affiliates, feed', a) = table[statCluster][a]
  BY DEF PageAgrees, Coming, notify, pageVars
<1>1. \A b \in sure : Shown(affiliates, feed, b) = table[statCluster][b]
  BY DEF PageInv, PageAgrees, Coming
<1>2. CASE UNCHANGED <<feed, dropped, sure>>
  BY <1>1, <1>2
<1>3. CASE /\ eventSource = n.cluster /\ streaming
           /\ Broadcast(e)
           /\ sure' = IF feed' = feed THEN sure
                      ELSE IF n.fresh THEN sure \cup {n.id} ELSE sure \ {n.id}
  <2>1. n \in Notices
    BY DEF notify, TypeOK, PageTypeOK, NoNotice
  <2>2. n.cluster = statCluster
    BY <1>3, <2>1, InspectPageAssumption DEF Notices, TypeOK, StreamTypeOK
  <2>3. n.fresh => n.value = table[statCluster][n.id]
    BY <2>1, <2>2 DEF PageInv, NoticesInv
  <2>4. /\ e \in Events /\ DOMAIN e.affiliates = {n.id} /\ e.affiliates[n.id] = n.value
        /\ e.deleted = (n.value = NoRow)
    BY <2>1, NoticeTyped DEF affiliatesToJSON
  <2> HIDE DEF e, n
  <2>5. feed' = feed \/ feed' = Append(feed, e)
    BY <1>3, <2>4, BroadcastTyped DEF TypeOK
  <2>6. CASE feed' = feed
    BY <1>1, <1>3, <2>6
  <2>7. CASE feed' # feed
    <3>1. feed \in Seq(Events) /\ feed' = Append(feed, e)
      BY <2>5, <2>7 DEF TypeOK, StreamTypeOK
    <3>2. Shown(affiliates, feed', a) =
            IF a = n.id THEN IF e.deleted THEN NoRow ELSE n.value ELSE Shown(affiliates, feed, a)
      BY <2>4, <3>1, ShownAppended
    <3>3. CASE a = n.id
      <4>1. n.fresh
        BY <1>3, <2>7, <3>3
      <4> QED BY <2>3, <2>4, <3>2, <3>3, <4>1
    <3>4. CASE a # n.id
      <4>1. a \in sure
        BY <1>3, <3>4
      <4> QED BY <1>1, <3>2, <3>4, <4>1
    <3> QED BY <3>3, <3>4
  <2> QED BY <2>6, <2>7
<1> QED BY <1>2, <1>3 DEF notify

\* The snapshot of a stream that is up again settles what it names.
LEMMA AgreesBySnapshot ==
  ASSUME TypeOK, PageInv, WatchSnapshot
  PROVE  PageAgrees'
<1> DEFINE ids == Present(eventSource)
           e   == affiliatesToJSON(Restricted(table[eventSource], ids), FALSE)
<1> SUFFICES ASSUME NEW a \in sure' PROVE Shown(affiliates, feed', a) = table[statCluster][a]
  BY DEF PageAgrees, Coming, WatchSnapshot, pageVars
<1>1. \A b \in sure : Shown(affiliates, feed, b) = table[statCluster][b]
  BY DEF PageInv, PageAgrees, Coming
<1>2. CASE UNCHANGED <<feed, dropped, sure>>
  BY <1>1, <1>2
<1>3. CASE Broadcast(e) /\ sure' = IF feed' # feed THEN sure \cup ids ELSE sure
  <2>1. /\ eventSource = statCluster /\ table[eventSource] \in Rows
        /\ ids \subseteq AffiliateIDs /\ eventSource \in Clusters
    BY InspectPageAssumption DEF WatchSnapshot, TypeOK, PageTypeOK, StreamTypeOK, Present
  <2>2. e \in Events /\ DOMAIN e.affiliates = ids /\ ~e.deleted
        /\ \A b \in ids : e.affiliates[b] = table[statCluster][b]
    <3>1. e \in Events
      BY <2>1, EventTyped
    <3> QED BY <2>1, <3>1 DEF affiliatesToJSON, Restricted
  <2> HIDE DEF e, ids
  <2>3. feed' = feed \/ feed' = Append(feed, e)
    BY <1>3, <2>2, BroadcastTyped DEF TypeOK
  <2>4. CASE feed' = feed
    BY <1>1, <1>3, <2>4
  <2>5. CASE feed' # feed
    <3>1. feed \in Seq(Events) /\ feed' = Append(feed, e)
      BY <2>3, <2>5 DEF TypeOK, StreamTypeOK
    <3>2. Shown(affiliates, feed', a) =
            IF a \in ids THEN e.affiliates[a] ELSE Shown(affiliates, feed, a)
      BY <2>2, <3>1, ShownAppended
    <3> QED BY <1>1, <1>3, <2>2, <2>5, <3>2
  <2> QED BY <2>4, <2>5
<1> QED BY <1>2, <1>3 DEF WatchSnapshot

\* Events lost to a break, taken, or thrown away by a click, and timers: the
\* rows that stay sure keep what they will show.
LEMMA AgreesByPage ==
  ASSUME TypeOK, PageInv,
         \/ Breaks \/ TakeEvent \/ stopWatch
         \/ \E id \in AffiliateIDs : TimerFires(id)
         \/ \E c \in Clusters, f \in Fetches : listAffiliates(c, f)
  PROVE  PageAgrees'
<1>1. \A b \in sure : Shown(affiliates, feed, b) = table[statCluster][b] /\ b \in AffiliateIDs
  BY DEF PageInv, PageAgrees, Coming, TypeOK, PageTypeOK
<1>2. feed \in Seq(Events) /\ Len(feed) \in Nat
  BY DEF TypeOK, StreamTypeOK
<1>3. ASSUME NEW b \in sure, b \notin Named(feed)
      PROVE  Shown(affiliates, <<>>, b) = Shown(affiliates, feed, b)
  <2>1. b \notin Named(<<>>)
    BY DEF Named
  <2> QED BY <1>3, <2>1, ShownAlone
<1>4. CASE Breaks
  <2>1. PICK n \in 0..Len(feed) : /\ feed' = SubSeq(feed, 1, n)
                                  /\ sure' = sure \ Named(SubSeq(feed, n + 1, Len(feed)))
    BY <1>4 DEF Breaks
  <2>2. ASSUME NEW b \in sure' PROVE Shown(affiliates, feed', b) = table[statCluster][b]
    <3>1. b \in sure /\ b \notin Named(SubSeq(feed, n + 1, Len(feed)))
      BY <2>1
    <3>2. Shown(affiliates, feed', b) = Shown(affiliates, feed, b)
      BY <1>2, <2>1, <3>1, ShownTruncated
    <3> QED BY <1>1, <3>1, <3>2
  <2>3. table' = table /\ affiliates' = affiliates /\ statCluster' = statCluster
    BY <1>4 DEF Breaks, pageVars
  <2> QED BY <2>2, <2>3 DEF PageAgrees, Coming
<1>5. CASE TakeEvent
  <2>1. feed # <<>> /\ feed' = Tail(feed) /\ sure' = sure /\ table' = table /\ statCluster' = statCluster
    BY <1>5 DEF TakeEvent
  <2>2. ASSUME NEW b \in sure PROVE Shown(affiliates', feed', b) = table[statCluster][b]
    <3>1. affiliates'[b] = Applied(affiliates, Head(feed), b)
      BY <1>1, <1>5 DEF TakeEvent, applyUpdate, Applied
    <3>2. Shown(affiliates', feed', b) = Shown(affiliates, feed, b)
      BY <1>2, <2>1, <3>1, ShownTaken
    <3> QED BY <1>1, <3>2
  <2> QED BY <2>1, <2>2 DEF PageAgrees, Coming
<1>6. CASE stopWatch
  <2>1. /\ feed' = <<>> /\ sure' = sure \ Named(feed) /\ table' = table
        /\ affiliates' = affiliates /\ statCluster' = statCluster
    BY <1>6 DEF stopWatch, Close, pageVars
  <2> QED BY <1>1, <1>3, <2>1 DEF PageAgrees, Coming
<1>7. ASSUME NEW id \in AffiliateIDs, TimerFires(id) PROVE PageAgrees'
  <2>1. /\ feed' = feed /\ table' = table /\ statCluster' = statCluster
        /\ affiliates' = [affiliates EXCEPT ![id] = NoRow]
        /\ sure' = IF affiliates[id] \in Values /\ id \notin Named(feed) THEN sure \ {id} ELSE sure
    BY <1>7 DEF TimerFires, streamVars
  <2>2. affiliates \in [AffiliateIDs -> Values \cup {NoRow, Deleted}]
    BY DEF TypeOK, PageTypeOK
  <2>3. ASSUME NEW b \in sure' PROVE Shown(affiliates', feed, b) = table[statCluster][b]
    <3>1. b \in sure /\ b \in AffiliateIDs
      BY <1>1, <2>1
    <3>2. CASE b \in Named(feed)
      <4>1. Shown(affiliates', feed, b) = Shown(affiliates, feed, b)
        BY <1>2, <3>2, ShownWhateverRows
      <4> QED BY <1>1, <3>1, <4>1
    <3>3. CASE b \notin Named(feed)
      <4>1. Shown(affiliates', feed, b) = IF affiliates'[b] = Deleted THEN NoRow ELSE affiliates'[b]
        BY <3>3, ShownAlone
      <4>2. Shown(affiliates, feed, b) = IF affiliates[b] = Deleted THEN NoRow ELSE affiliates[b]
        BY <3>3, ShownAlone
      <4>3. b = id => affiliates[b] \in {NoRow, Deleted}
        BY <2>1, <2>2, <3>3
      <4>4. affiliates'[b] = IF b = id THEN NoRow ELSE affiliates[b]
        BY <2>1, <2>2, <3>1
      <4> QED BY <1>1, <3>1, <4>1, <4>2, <4>3, <4>4
    <3> QED BY <3>2, <3>3
  <2> QED BY <2>1, <2>3 DEF PageAgrees, Coming
<1>8. ASSUME NEW c \in Clusters, NEW f \in Fetches, listAffiliates(c, f) PROVE PageAgrees'
  <2>1. /\ feed' = <<>> /\ table' = table /\ affiliates' = affiliates /\ statCluster' = c
        /\ sure' = IF c = statCluster THEN sure \ Named(feed) ELSE {}
    BY <1>8 DEF listAffiliates, Close
  <2> QED BY <1>1, <1>3, <2>1 DEF PageAgrees, Coming
<1> QED BY <1>4, <1>5, <1>6, <1>7, <1>8

\* A good answer replaces the rows, and is believed where it is still true.
LEMMA AgreesByAnswer ==
  ASSUME TypeOK, PageInv, NEW f \in Fetches, ListAnswered(f)
  PROVE  PageAgrees'
<1>1. \A b \in sure : Shown(affiliates, feed, b) = table[statCluster][b]
  BY DEF PageInv, PageAgrees, Coming
<1>2. fetch[f] \in Answered
  BY DEF ListAnswered, TypeOK, PageTypeOK, NoFetch, Asked, Answered
<1>3. feed' = feed /\ table' = table /\ statCluster' = statCluster /\ Len(feed) \in Nat
  BY DEF ListAnswered, streamVars, TypeOK, StreamTypeOK
<1>4. CASE fetch[f].status \in 200..299
  <2>1. /\ affiliates' = fetch[f].affiliates
        /\ sure' = (sure \cap Named(feed))
                   \cup IF fetch[f].cluster = statCluster THEN fetch[f].fresh \ Named(feed) ELSE {}
    BY <1>4 DEF ListAnswered
  <2>2. ASSUME NEW b \in sure' PROVE Shown(affiliates', feed, b) = table[statCluster][b]
    <3>1. CASE b \in Named(feed)
      <4>1. b \in sure
        BY <2>1, <3>1
      <4>2. Shown(affiliates', feed, b) = Shown(affiliates, feed, b)
        BY <1>3, <3>1, ShownWhateverRows
      <4> QED BY <1>1, <4>1, <4>2
    <3>2. CASE b \notin Named(feed)
      <4>1. fetch[f].cluster = statCluster /\ b \in fetch[f].fresh
        BY <2>1, <3>2
      <4>2. affiliates'[b] = table[statCluster][b]
        BY <1>2, <1>4, <2>1, <4>1 DEF PageInv, AnswersInv
      <4>3. affiliates'[b] \in Values \cup {NoRow}
        BY <1>2, <2>1, <4>1 DEF Answered, Rows
      <4>4. Shown(affiliates', feed, b) = IF affiliates'[b] = Deleted THEN NoRow ELSE affiliates'[b]
        BY <3>2, ShownAlone
      <4> QED BY <4>2, <4>3, <4>4, InspectPageAssumption
    <3> QED BY <3>1, <3>2
  <2> QED BY <1>3, <2>2 DEF PageAgrees, Coming
<1>5. CASE fetch[f].status \notin 200..299
  <2>1. affiliates' = affiliates /\ sure' = sure
    BY <1>5 DEF ListAnswered
  <2> QED BY <1>1, <1>3, <2>1 DEF PageAgrees, Coming
<1> QED BY <1>4, <1>5

\* Every step keeps the page's promise.
LEMMA PageStep == TypeOK /\ PageInv /\ [Next]_vars => PageInv'
<1> SUFFICES ASSUME TypeOK, PageInv, [Next]_vars PROVE PageInv'
  OBVIOUS
<1>1. AnswersInv' /\ NoticesInv' /\ NothingSureYet'
  BY AnswersStep, NoticesStep, SureStep DEF PageInv
<1>2. ASSUME NEW c \in Clusters, startWatch(c) PROVE PageAgrees'
  BY <1>2 DEF startWatch, PageInv, PageAgrees, Coming
<1>3. ASSUME NEW f \in Fetches, listAffiliatesHandler(f) \/ FetchFails(f) PROVE PageAgrees'
  BY <1>3 DEF listAffiliatesHandler, FetchFails, pageVars, streamVars, PageInv, PageAgrees, Coming
<1>4. ASSUME JoinHub \/ UNCHANGED vars PROVE PageAgrees'
  BY <1>4 DEF JoinHub, vars, pageVars, streamVars, PageInv, PageAgrees, Coming
<1>5. ASSUME NEW c \in Clusters, NEW id \in AffiliateIDs, NEW v \in Values \cup {NoRow},
             SilentChange(c, id, v) \/ \E u \in Updaters : ChangeWithEvent(u, c, id, v)
      PROVE  PageAgrees'
  BY <1>5, AgreesByChange DEF SilentChange, ChangeWithEvent
<1>6. ASSUME NEW f \in Fetches, ListAnswered(f) PROVE PageAgrees'
  BY <1>6, AgreesByAnswer
<1>7. PageAgrees'
  BY <1>2, <1>3, <1>4, <1>5, <1>6, AgreesByEvent, AgreesBySnapshot, AgreesByPage DEF Next
<1> QED BY <1>1, <1>7 DEF PageInv

\* For every number of clusters, rows, requests, events and clicks: a row that
\* was listed, or named by an event, for the cluster the page names is what
\* the server has, unless it was hit by one of the mishaps that PageAgrees
\* lists.  About listAffiliates with its late answers, applyUpdate, stopWatch
\* and grpcErrorToHTTPStatus together.
THEOREM PageIsRight == Spec => []PageAgrees
<1>1. TypeOK /\ PageInv /\ [Next]_vars => TypeOK' /\ PageInv'
  BY TypeStep, PageStep
<1>2. Init => TypeOK /\ PageInv
  BY TypeInit, PageInit
<1>3. PageInv => PageAgrees
  BY DEF PageInv
<1> QED BY <1>1, <1>2, <1>3, PTL DEF Spec
=============================================================================
