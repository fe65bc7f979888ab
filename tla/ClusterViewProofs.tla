------------------------- MODULE ClusterViewProofs -------------------------
(***************************************************************************)
(* What a Watch stream shows its client, for every number of writers,      *)
(* streams, affiliates and endpoints: theorems about Cluster.tla and       *)
(* ClusterFeed.tla that rest on the fan-out invariant of ClusterProofs.    *)
(***************************************************************************)
EXTENDS ClusterFeed, ClusterProofs

-----------------------------------------------------------------------------
(***************************************************************************)
(* What the operators of Affiliate.tla do to what others see of an         *)
(* affiliate.                                                              *)
(***************************************************************************)
\* What a table shows of an affiliate: its info, or nothing.
Listed(affs, id) == IF id \in DOMAIN affs THEN {ToInfo(affs[id])} ELSE {}

\* An update concerns the affiliate it names only.
LEMMA UpdateOthers ==
  ASSUME NEW affs, NEW req, NEW n, NEW id, id # req.id
  PROVE  Listed(updateAffiliateLocked(affs, req, n).affiliates, id) = Listed(affs, id)
<1> DEFINE res == updateAffiliateLocked(affs, req, n)
<1>1. \/ res.affiliates = affs
      \/ \E a : res.affiliates = Put(affs, req.id, a)
  BY DEF updateAffiliateLocked
<1>2. ASSUME NEW a, res.affiliates = Put(affs, req.id, a)
      PROVE  Listed(res.affiliates, id) = Listed(affs, id)
  <2>1. /\ id \in DOMAIN Put(affs, req.id, a) <=> id \in DOMAIN affs
        /\ id \in DOMAIN affs => Put(affs, req.id, a)[id] = affs[id]
    BY DEF Put
  <2> QED BY <1>2, <2>1 DEF Listed
<1> QED BY <1>1, <1>2

\* So does a delete.
LEMMA DeleteListed ==
  ASSUME NEW affs, NEW x, NEW id
  PROVE  Listed(deleteAffiliateLocked(affs, x), id) = IF id = x THEN {} ELSE Listed(affs, id)
<1> DEFINE del == deleteAffiliateLocked(affs, x)
<1>1. /\ id \in DOMAIN del <=> id \in DOMAIN affs /\ id # x
      /\ id \in DOMAIN del => del[id] = affs[id]
  BY DEF deleteAffiliateLocked, Without
<1> QED BY <1>1 DEF Listed

\* A sweep changes what others see of the affiliates it drops or shrinks only:
\* an expiry nobody sees, and an endpoint it removes is announced.
LEMMA PruneListed ==
  ASSUME NEW affs, IsAffiliateTable(affs), NEW n \in Nat, NEW id
  PROVE  Listed(pruneAffiliates(affs, n), id) =
           IF id \in Expired(affs, n) THEN {}
           ELSE IF id \in Shrunk(affs, n) THEN {ToInfo(pruneAffiliates(affs, n)[id])}
           ELSE Listed(affs, id)
<1> DEFINE kept == pruneAffiliates(affs, n)
<1>1. id \in DOMAIN kept <=> id \in DOMAIN affs /\ id \notin Expired(affs, n)
  BY DEF pruneAffiliates
<1>2. CASE id \in Expired(affs, n)
  BY <1>1, <1>2 DEF Listed
<1>3. CASE id \notin Expired(affs, n) /\ id \in Shrunk(affs, n)
  BY <1>1, <1>3 DEF Listed, Shrunk
<1>4. CASE id \notin Expired(affs, n) /\ id \notin Shrunk(affs, n)
  <2>1. ASSUME id \in DOMAIN affs PROVE ToInfo(kept[id]) = ToInfo(affs[id])
    <3>1. IsAffiliate(affs[id]) /\ kept[id] = [affs[id] EXCEPT !.endpoints = liveEndpoints(affs[id], n)]
      BY <1>4, <2>1 DEF IsAffiliateTable, pruneAffiliates
    <3>2. DOMAIN liveEndpoints(affs[id], n) = DOMAIN affs[id].endpoints
      BY <1>4, <2>1 DEF Shrunk, liveEndpoints, Without
    <3>3. kept[id].data = affs[id].data /\ kept[id].endpoints = liveEndpoints(affs[id], n)
      BY <3>1 DEF IsAffiliate
    <3> QED BY <3>2, <3>3 DEF ToInfo
  <2> QED BY <1>1, <1>4, <2>1 DEF Listed
<1> QED BY <1>2, <1>3, <1>4

\* Tables that list the same show the same.
LEMMA ListedByList ==
  ASSUME NEW affs, NEW bffs, listAffiliatesLocked(affs) = listAffiliatesLocked(bffs), NEW id
  PROVE  Listed(affs, id) = Listed(bffs, id)
<1>1. /\ DOMAIN listAffiliatesLocked(affs) = DOMAIN affs
      /\ DOMAIN listAffiliatesLocked(bffs) = DOMAIN bffs
      /\ id \in DOMAIN affs => listAffiliatesLocked(affs)[id] = ToInfo(affs[id])
      /\ id \in DOMAIN bffs => listAffiliatesLocked(bffs)[id] = ToInfo(bffs[id])
  BY DEF listAffiliatesLocked
<1> QED BY <1>1 DEF Listed

-----------------------------------------------------------------------------
(***************************************************************************)
(* What a client's picture comes to.                                       *)
(***************************************************************************)
\* What a picture holds of an affiliate, and what an event makes of it.
Entry(f, id) == IF id \in DOMAIN f THEN {f[id]} ELSE {}
Said(e) == IF e.type = "delete" THEN {} ELSE {e.info}

About(es, id) == {i \in 1..Len(es) : es[i].id = id}

\* Once the events es have been applied, the picture v holds x of id.
WillHold(v, es, id, x) ==
  \/ About(es, id) = {} /\ Entry(v, id) = x
  \/ \E k \in About(es, id) : (\A i \in About(es, id) : i <= k) /\ Said(es[k]) = x

\* Nothing on its way: what the picture holds is what it will hold.
LEMMA HeldNow ==
  ASSUME NEW v, NEW id, NEW x
  PROVE  WillHold(v, <<>>, id, x) <=> Entry(v, id) = x
<1>1. About(<<>>, id) = {}
  BY DEF About
<1> QED BY <1>1 DEF WillHold

\* An event that is queued decides about the affiliate it names, ...
LEMMA HeldByNew ==
  ASSUME NEW v, NEW es, NEW S, es \in Seq(S), NEW e \in S
  PROVE  WillHold(v, Append(es, e), e.id, Said(e))
<1> DEFINE fs == Append(es, e)
           n  == Len(es) + 1
<1>1. Len(es) \in Nat /\ Len(fs) = n /\ fs[n] = e /\ n \in 1..n
  OBVIOUS
<1> HIDE DEF fs, n
<1>2. n \in About(fs, e.id) /\ \A i \in About(fs, e.id) : i <= n
  BY <1>1 DEF About, n
<1>3. WillHold(v, fs, e.id, Said(e))
  BY <1>1, <1>2 DEF WillHold
<1> QED BY <1>3 DEF fs

\* ... and about no other.
LEMMA HeldBeside ==
  ASSUME NEW v, NEW es, NEW S, es \in Seq(S), NEW e \in S, NEW id, id # e.id, NEW x,
         WillHold(v, es, id, x)
  PROVE  WillHold(v, Append(es, e), id, x)
<1> DEFINE fs == Append(es, e)
           n  == Len(es) + 1
<1>1. Len(es) \in Nat /\ Len(fs) = n /\ fs[n] = e /\ \A i \in 1..Len(es) : fs[i] = es[i]
  OBVIOUS
<1> HIDE DEF fs, n
<1>2. About(fs, id) = About(es, id)
  BY <1>1 DEF About, n
<1>3. \A i \in About(es, id) : fs[i] = es[i]
  BY <1>1 DEF About
<1>4. WillHold(v, fs, id, x)
  BY <1>2, <1>3 DEF WillHold
<1> QED BY <1>4 DEF fs

\* Taking the first event off the queue and applying it changes nothing about
\* what the picture comes to.
LEMMA HeldWhenTaken ==
  ASSUME NEW v, NEW u, NEW es, NEW S, es \in Seq(S), es # <<>>, NEW id, NEW x,
         Entry(u, id) = IF Head(es).id = id THEN Said(Head(es)) ELSE Entry(v, id),
         WillHold(v, es, id, x)
  PROVE  WillHold(u, Tail(es), id, x)
<1> DEFINE fs == Tail(es)
<1>1. /\ Len(es) \in Nat /\ Len(es) # 0 /\ Len(fs) = Len(es) - 1 /\ Len(fs) \in Nat
      /\ Head(es) = es[1] /\ \A i \in 1..Len(fs) : fs[i] = es[i + 1]
  OBVIOUS
<1> HIDE DEF fs
<1>2. \A i \in 1..Len(fs) : i + 1 \in 1..Len(es)
  BY <1>1
<1>3. \A i \in 2..Len(es) : i - 1 \in 1..Len(fs) /\ (i - 1) + 1 = i /\ fs[i - 1] = es[i]
  BY <1>1
<1>4. \A i \in About(fs, id) : i + 1 \in About(es, id) /\ i + 1 \in 2..Len(es)
  BY <1>1, <1>2 DEF About
<1>5. CASE About(es, id) = {} /\ Entry(v, id) = x
  <2>1. About(fs, id) = {} /\ Head(es).id # id
    BY <1>1, <1>4, <1>5 DEF About
  <2>2. WillHold(u, fs, id, x)
    BY <1>5, <2>1 DEF WillHold
  <2> QED BY <2>2 DEF fs
<1>6. ASSUME NEW k \in About(es, id), \A i \in About(es, id) : i <= k, Said(es[k]) = x
      PROVE  WillHold(u, fs, id, x)
  <2>1. k \in 1..Len(es) /\ es[k].id = id
    BY DEF About
  <2>2. CASE k = 1
    <3>1. About(fs, id) = {}
      <4>1. ASSUME NEW i \in About(fs, id) PROVE FALSE
        <5>1. i + 1 <= 1 /\ i + 1 \in 2..Len(es)
          BY <1>4, <1>6, <2>2
        <5> QED BY <1>1, <5>1
      <4> QED BY <4>1
    <3>2. Entry(u, id) = x
      BY <1>1, <1>6, <2>1, <2>2
    <3> QED BY <3>1, <3>2 DEF WillHold
  <2>3. CASE k # 1
    <3>1. k \in 2..Len(es)
      BY <1>1, <2>1, <2>3
    <3>2. k - 1 \in About(fs, id) /\ fs[k - 1] = es[k]
      BY <1>3, <2>1, <3>1 DEF About
    <3>3. ASSUME NEW i \in About(fs, id) PROVE i <= k - 1
      <4>1. i + 1 <= k /\ i \in 1..Len(fs)
        BY <1>4, <1>6 DEF About
      <4> QED BY <1>1, <3>1, <4>1
    <3> QED BY <1>6, <3>2, <3>3 DEF WillHold
  <2> QED BY <2>2, <2>3
<1>7. WillHold(u, fs, id, x)
  BY <1>5, <1>6 DEF WillHold, fs
<1> QED BY <1>7 DEF fs

\* What a client holds after a response that tells of an event.
LEMMA AppliedEntry ==
  ASSUME NEW v, NEW e \in AffiliateEvent, NEW id
  PROVE  Entry(Apply(v, toResponse(e)), id) = IF e.id = id THEN Said(e) ELSE Entry(v, id)
<1> DEFINE r == toResponse(e)
           a == Apply(v, r)
<1>1. r.deleted = (e.type = "delete") /\ DOMAIN r.affiliates = {e.id} /\ r.affiliates[e.id] = e.info
  BY DEF toResponse
<1>2. CASE e.type = "delete"
  <2>1. a = Without(v, {e.id})
    BY <1>1, <1>2 DEF Apply
  <2>2. /\ id \in DOMAIN a <=> id \in DOMAIN v /\ id # e.id
        /\ id \in DOMAIN a => a[id] = v[id]
    BY <2>1 DEF Without
  <2> QED BY <1>2, <2>2 DEF Entry, Said
<1>3. CASE e.type # "delete"
  <2>1. /\ id \in DOMAIN a <=> id \in DOMAIN v \/ id = e.id
        /\ id \in DOMAIN a => a[id] = IF id = e.id THEN e.info ELSE v[id]
    BY <1>1, <1>3 DEF Apply
  <2> QED BY <1>3, <2>1 DEF Entry, Said
<1> QED BY <1>2, <1>3

\* A snapshot that a new client takes is its picture.
LEMMA SnapshotEntry ==
  ASSUME NEW affs, NEW id
  PROVE  /\ Entry(Apply(EmptyMap, [deleted |-> FALSE, affiliates |-> listAffiliatesLocked(affs)]), id)
              = Listed(affs, id)
         /\ DOMAIN listAffiliatesLocked(affs) = {} => Entry(EmptyMap, id) = Listed(affs, id)
<1> DEFINE l == listAffiliatesLocked(affs)
           a == Apply(EmptyMap, [deleted |-> FALSE, affiliates |-> l])
<1>1. DOMAIN l = DOMAIN affs /\ (id \in DOMAIN affs => l[id] = ToInfo(affs[id]))
  BY DEF listAffiliatesLocked
<1>2. DOMAIN EmptyMap = {}
  BY DEF EmptyMap
<1> HIDE DEF l
<1>3. DOMAIN a = DOMAIN l /\ (id \in DOMAIN l => a[id] = l[id])
  BY <1>2 DEF Apply
<1> HIDE DEF a
<1>4. Entry(a, id) = Listed(affs, id)
  BY <1>1, <1>3 DEF Entry, Listed
<1>5. DOMAIN l = {} => Entry(EmptyMap, id) = Listed(affs, id)
  BY <1>1, <1>2 DEF Entry, Listed
<1> QED BY <1>4, <1>5 DEF a, l

-----------------------------------------------------------------------------
(***************************************************************************)
(* The invariant.                                                          *)
(***************************************************************************)
\* Streams whose handler is still sending responses.
Reading == {w \in Listening : wpc[w] \in {"send", "select"}}

\* A client's picture with the response that is being sent to it.
Sent(w) == IF wpc[w] = "send" THEN Apply(view[w], outbox[w]) ELSE view[w]

\* An event about id is under way that w is still to get.
Due(w, id) == \E t \in Threads : \E e \in Unsent(t) : e.id = id /\ w \in e.owed

Tabled(id) == Listed(affiliates, id)

\* What is under way about a settled affiliate is what the table has.
TruthInv ==
  \A t \in Threads : \A e \in Unsent(t) : e.id \notin unsettled => Said(e) = Tabled(e.id)

\* A stream's picture of a settled affiliate comes to what the table has, from
\* what is queued for it already or from an event that it is still to get.
PictureInv ==
  \A w \in Reading : \A id \in AffiliateIDs \ unsettled :
    WillHold(Sent(w), ch[w], id, Tabled(id)) \/ Due(w, id)

\* A thread commits only when it has nothing more to send, and begins a fan-out
\* only when it has finished the last one.
QuietInv ==
  \A t \in Threads : /\ pc[t] \in {"idle", "prune"} => backlog[t] = {}
                     /\ pc[t] \in {"idle", "prune", "prolong", "copy"} => ev[t] = Nil

\* A stream that has not begun has been sent nothing, by nobody.
NewInv ==
  \A w \in Watches :
    wpc[w] = "idle" => /\ ch[w] = <<>> /\ view[w] = EmptyMap /\ w \notin subscribers
                       /\ \A t \in Threads : w \notin targets[t] /\ cur[t] # w

ViewInv == TruthInv /\ PictureInv /\ QuietInv /\ NewInv

\* A step that neither panics nor is a panicked thread's panics nobody.
LEMMA FailedSame ==
  ASSUME TypeOK, NEW t \in Threads, pc[t] # "panicked", NEW s, s # "panicked", pc' = [pc EXCEPT ![t] = s]
  PROVE  feedFailed' = feedFailed
BY DEF feedFailed, TypeOK, ThreadsTyped

\* What a thread has to send changes with its events, or when it panics.
LEMMA UnsentSame ==
  ASSUME feedFailed' = feedFailed, NEW t \in Threads, backlog'[t] = backlog[t], ev'[t] = ev[t]
  PROVE  Unsent(t)' = Unsent(t)
<1>1. pc'[t] = "panicked" <=> pc[t] = "panicked"
  BY DEF feedFailed
<1> QED BY <1>1 DEF Unsent

\* At the start nobody reads and nothing is under way.
LEMMA ViewInit == Init => ViewInv
<1> SUFFICES ASSUME Init PROVE ViewInv
  OBVIOUS
<1>1. \A t \in Threads : Unsent(t) = {}
  BY DEF Init, Unsent
<1>2. Reading = {}
  BY DEF Init, Reading, Listening
<1>3. QuietInv
  BY DEF Init, QuietInv
<1>4. NewInv
  BY ClusterAssumption DEF Init, NewInv
<1> QED BY <1>1, <1>2, <1>3, <1>4 DEF ViewInv, TruthInv, PictureInv

\* A thread that is about to commit has nothing under way.
LEMMA QuietCommit ==
  ASSUME QuietInv, NEW t \in Threads, pc[t] = "idle" \/ pc[t] = "prune"
  PROVE  backlog[t] = {} /\ ev[t] = Nil
<1>1. /\ pc[t] \in {"idle", "prune"} => backlog[t] = {}
      /\ pc[t] \in {"idle", "prune", "prolong", "copy"} => ev[t] = Nil
  BY DEF QuietInv
<1> QED BY <1>1

\* Only a thread's own steps change what it has to send.
LEMMA QuietStep == TypeOK /\ QuietInv /\ [Next]_vars => QuietInv'
<1> SUFFICES ASSUME TypeOK, QuietInv, [Next]_vars PROVE QuietInv'
  OBVIOUS
<1>0. /\ DOMAIN pc = Threads /\ DOMAIN backlog = Threads /\ DOMAIN ev = Threads
      /\ Cleanup \in Threads /\ \A h \in Handlers : h \in Threads
  BY DEF TypeOK, ThreadsTyped, Threads
<1>1. ASSUME NEW h \in Handlers, NEW req \in UpdateRequests, UpdateAffiliate(h, req) PROVE QuietInv'
  BY <1>0, <1>1 DEF UpdateAffiliate, Return, QuietInv
<1>2. ASSUME NEW h \in Handlers, NEW id \in DeleteRequests, DeleteAffiliate(h, id) PROVE QuietInv'
  BY <1>0, <1>2 DEF DeleteAffiliate, Return, QuietInv
<1>3. CASE PruneReadClock
  BY <1>0, <1>3 DEF PruneReadClock, QuietInv
<1>4. CASE Prune
  <2>1. PICK events : /\ backlog' = [backlog EXCEPT ![Cleanup] = events]
                      /\ pc' = [pc EXCEPT ![Cleanup] = IF events = {} THEN "idle" ELSE "copy"]
    BY <1>4 DEF Prune
  <2>2. ev' = ev /\ ev[Cleanup] = Nil
    BY <1>0, <1>4, QuietCommit DEF Prune
  <2> QED BY <1>0, <2>1, <2>2 DEF QuietInv
<1>5. ASSUME NEW t \in Threads, ThreadStep(t) PROVE QuietInv'
  <2>1. CASE ProlongAfterDelete(t)
    BY <1>0, <2>1 DEF ProlongAfterDelete, QuietInv
  <2>2. ASSUME NEW e \in backlog[t], CopySubscribers(t, e) PROVE QuietInv'
    BY <1>0, <2>2 DEF CopySubscribers, QuietInv
  <2>3. ASSUME NEW w \in Watches, LoadClosed(t, w) PROVE QuietInv'
    BY <1>0, <2>3 DEF LoadClosed, QuietInv
  <2>4. CASE TrySend(t)
    BY <1>0, <2>4 DEF TrySend, Panics, Enqueue, BufferFull, QuietInv
  <2>5. CASE ReportLost(t) \/ Evict(t)
    BY <1>0, <2>5 DEF ReportLost, Panics, Evict, QuietInv
  <2>6. CASE FinishFanout(t)
    BY <1>0, <2>6 DEF FinishFanout, Return, QuietInv
  <2> QED BY <1>5, <2>1, <2>2, <2>3, <2>4, <2>5, <2>6 DEF ThreadStep
<1>6. CASE UNCHANGED threadVars
  BY <1>6 DEF threadVars, QuietInv
<1> QED
  BY <1>1, <1>2, <1>3, <1>4, <1>5, <1>6 DEF Next, vars, SubscribeWithSnapshot, WatchStep, SendFails,
     SelectCtxDone, SelectErrors, SelectEvents, DeferClose, CtxGoroutine, Send, ClientCancel,
     CloseStep, Unregister, CloseChannels, ProlongAfterClose, Tick

\* Nobody notifies a stream before it has subscribed.
LEMMA NewStep == TypeOK /\ NewInv /\ [Next]_vars => NewInv'
<1> SUFFICES ASSUME TypeOK, NewInv, [Next]_vars PROVE NewInv'
  OBVIOUS
<1>0. /\ DOMAIN ch = Watches /\ DOMAIN view = Watches /\ DOMAIN wpc = Watches
      /\ DOMAIN targets = Threads /\ DOMAIN cur = Threads /\ Nil \notin Watches
  BY ClusterAssumption DEF TypeOK, ThreadsTyped, WatchesTyped, SubscriptionsTyped
<1>1. ASSUME NEW t \in Threads, ThreadStep(t) PROVE NewInv'
  <2>1. CASE ProlongAfterDelete(t)
    BY <2>1 DEF ProlongAfterDelete, subVars, watchVars, NewInv
  <2>2. ASSUME NEW e \in backlog[t], CopySubscribers(t, e) PROVE NewInv'
    BY <1>0, <2>2 DEF CopySubscribers, subVars, watchVars, NewInv
  <2>3. ASSUME NEW w \in Watches, LoadClosed(t, w) PROVE NewInv'
    BY <1>0, <2>3 DEF LoadClosed, subVars, watchVars, NewInv
  <2>4. CASE TrySend(t)
    BY <1>0, <2>4 DEF TrySend, Panics, Enqueue, BufferFull, watchVars, NewInv
  <2>5. CASE ReportLost(t)
    BY <1>0, <2>5 DEF ReportLost, Panics, watchVars, NewInv
  <2>6. CASE Evict(t)
    BY <1>0, <2>6 DEF Evict, watchVars, NewInv
  <2>7. CASE FinishFanout(t)
    BY <2>7 DEF FinishFanout, subVars, watchVars, NewInv
  <2> QED BY <1>1, <2>1, <2>2, <2>3, <2>4, <2>5, <2>6, <2>7 DEF ThreadStep
<1>2. ASSUME NEW w \in Watches, SubscribeWithSnapshot(w) PROVE NewInv'
  BY <1>0, <1>2 DEF SubscribeWithSnapshot, subVars, threadVars, NewInv
<1>3. ASSUME NEW w \in Watches, WatchStep(w) \/ Send(w) PROVE NewInv'
  BY <1>0, <1>3 DEF WatchStep, Send, SendFails, SelectCtxDone, SelectErrors, SelectEvents, DeferClose,
     CtxGoroutine, Returns, subVars, threadVars, watchVars, NewInv
<1>4. ASSUME NEW w \in Watches, CloseStep(w) PROVE NewInv'
  BY <1>0, <1>4 DEF CloseStep, Unregister, CloseChannels, ProlongAfterClose, threadVars, watchVars, NewInv
<1>5. CASE UNCHANGED <<ch, view, wpc, subscribers, targets, cur>>
  BY <1>5 DEF NewInv
<1> QED
  BY <1>1, <1>2, <1>3, <1>4, <1>5 DEF Next, vars, UpdateAffiliate, DeleteAffiliate, PruneReadClock,
     Prune, ClientCancel, Tick, subVars, watchVars, threadVars

-----------------------------------------------------------------------------
(***************************************************************************)
(* What the steps do to pictures and to events under way.                  *)
(***************************************************************************)
\* Steps that change neither the table nor what is under way, and no picture
\* or queue of a stream that goes on.
LEMMA PictureKept ==
  ASSUME TruthInv, PictureInv, affiliates' = affiliates, unsettled' = unsettled,
         \A t \in Threads : Unsent(t)' = Unsent(t),
         \A w \in Reading' : w \in Reading /\ Sent(w)' = Sent(w) /\ ch'[w] = ch[w]
  PROVE  TruthInv' /\ PictureInv'
<1>1. \A id : Tabled(id)' = Tabled(id)
  BY DEF Tabled
<1>2. \A w, id : Due(w, id)' = Due(w, id)
  BY DEF Due
<1>3. TruthInv'
  BY <1>1 DEF TruthInv
<1>4. PictureInv'
  BY <1>1, <1>2 DEF PictureInv
<1> QED BY <1>3, <1>4

\* A commit: the events are what the new table has, every listening stream is
\* owed them, and what they do not name and is not silent is as before.
LEMMA PictureByCommit ==
  ASSUME TypeOK, TruthInv, PictureInv, NEW t \in Threads, NEW events \in SUBSET PendingEvent,
         NEW silent, backlog[t] = {}, backlog' = [backlog EXCEPT ![t] = events],
         Settle({e.id : e \in events}, silent),
         UNCHANGED <<ev, ch, stage, watchVars>>, pc[t] # "panicked", feedFailed' = feedFailed,
         \A e \in events : e.owed = Listening /\ Said(e) = Tabled(e.id)',
         \A id : id \notin silent /\ (\A e \in events : e.id # id) => Tabled(id)' = Tabled(id)
  PROVE  TruthInv' /\ PictureInv'
<1> DEFINE announced == {e.id : e \in events}
<1>1. \A u \in Threads \ {t} : Unsent(u)' = Unsent(u)
  BY UnsentSame DEF TypeOK, ThreadsTyped
<1>2. Unsent(t)' = Unsent(t) \cup events
  <2>1. pc'[t] # "panicked" /\ backlog'[t] = events
    BY DEF feedFailed, TypeOK, ThreadsTyped
  <2> QED BY <2>1, NilAssumption DEF Unsent
<1>3. \A id \in announced : InFlight(id) => id \in unsettled'
  BY DEF Settle
<1>4. \A id : id \notin unsettled' => id \notin silent /\ (id \in unsettled => id \in announced)
  BY DEF Settle
<1>5. \A u \in Threads : \A e \in Unsent(u) : InFlight(e.id)
  BY DEF InFlight
<1>6. TruthInv'
  <2> SUFFICES ASSUME NEW u \in Threads, NEW e \in Unsent(u)', e.id \notin unsettled'
               PROVE  Said(e) = Tabled(e.id)'
    BY DEF TruthInv
  <2>1. CASE e \in Unsent(u)
    <3>1. e.id \notin announced
      BY <1>3, <1>5, <2>1
    <3>2. e.id \notin unsettled /\ Tabled(e.id)' = Tabled(e.id)
      BY <1>4, <3>1
    <3> QED BY <2>1, <3>2 DEF TruthInv
  <2>2. CASE e \notin Unsent(u)
    <3>1. e \in events
      BY <1>1, <1>2, <2>2
    <3> QED BY <3>1
  <2> QED BY <2>1, <2>2
<1>7. PictureInv'
  <2> SUFFICES ASSUME NEW w \in Reading', NEW id \in AffiliateIDs, id \notin unsettled'
               PROVE  WillHold(Sent(w)', ch'[w], id, Tabled(id)') \/ Due(w, id)'
    BY DEF PictureInv
  <2>1. w \in Reading /\ w \in Listening /\ Sent(w)' = Sent(w) /\ ch'[w] = ch[w]
    BY DEF Reading, Listening, Sent, watchVars
  <2>2. CASE id \in announced
    <3>1. PICK e \in events : e.id = id
      BY <2>2
    <3>2. e \in Unsent(t)' /\ w \in e.owed
      BY <1>2, <2>1, <3>1
    <3> QED BY <3>1, <3>2 DEF Due
  <2>3. CASE id \notin announced
    <3>1. id \notin unsettled /\ Tabled(id)' = Tabled(id)
      BY <1>4, <2>3
    <3>2. WillHold(Sent(w), ch[w], id, Tabled(id)) \/ Due(w, id)
      BY <2>1, <3>1 DEF PictureInv
    <3>3. Due(w, id) => Due(w, id)'
      BY <1>1, <1>2 DEF Due
    <3> QED BY <2>1, <3>1, <3>2, <3>3
  <2> QED BY <2>2, <2>3
<1> QED BY <1>6, <1>7

\* An update announces what it made of the affiliate it names, or is silent.
LEMMA PictureByUpdate ==
  ASSUME TypeOK, ViewInv, NEW h \in Handlers, NEW req \in UpdateRequests, UpdateAffiliate(h, req)
  PROVE  TruthInv' /\ PictureInv'
<1> DEFINE res    == updateAffiliateLocked(affiliates, req, now)
           events == IF res.event THEN {Upsert(req.id, res.affiliates)} ELSE {}
           silent == ~res.event /\ listAffiliatesLocked(res.affiliates) # listAffiliatesLocked(affiliates)
           quiet  == IF silent THEN {req.id} ELSE {}
<1>1. req \in UpdateRequest /\ req.id \in AffiliateIDs /\ h \in Threads
  BY ClusterAssumption DEF UpdateRequest, Threads
<1>2. IsAffiliateTable(res.affiliates) /\ (res.event => req.id \in DOMAIN res.affiliates)
  BY <1>1, UpdateTyped DEF TypeOK, TableTyped
<1>3. /\ affiliates' = res.affiliates /\ backlog' = [backlog EXCEPT ![h] = events]
      /\ Settle({e.id : e \in events}, quiet) /\ UNCHANGED <<ev, ch, stage, watchVars>>
      /\ pc[h] = "idle" /\ \E s \in {"copy", "done"} : pc' = [pc EXCEPT ![h] = s]
  BY DEF UpdateAffiliate, Return, subVars
<1>8. backlog[h] = {}
  BY <1>1, <1>3, QuietCommit DEF ViewInv
<1>9. feedFailed' = feedFailed
  BY <1>1, <1>3, FailedSame
<1>4. events \in SUBSET PendingEvent
  BY <1>1, <1>2, EventsTyped
<1>5. \A e \in events : /\ e.id = req.id /\ e.owed = Listening
                        /\ Said(e) = {ToInfo(res.affiliates[req.id])}
  BY DEF Upsert, Said
<1>6. ASSUME NEW e \in events PROVE Said(e) = Tabled(e.id)'
  BY <1>2, <1>3, <1>5 DEF Tabled, Listed
<1>7. ASSUME NEW id, id \notin quiet, \A e \in events : e.id # id PROVE Tabled(id)' = Tabled(id)
  <2>1. CASE id # req.id
    BY <1>3, <2>1, UpdateOthers DEF Tabled
  <2>2. CASE id = req.id
    <3>1. ~res.event
      <4>1. res.event => Upsert(req.id, res.affiliates) \in events
        OBVIOUS
      <4> QED BY <1>5, <1>7, <2>2, <4>1
    <3>2. listAffiliatesLocked(res.affiliates) = listAffiliatesLocked(affiliates)
      BY <1>7, <2>2, <3>1
    <3> QED BY <1>3, <3>2, ListedByList DEF Tabled
  <2> QED BY <2>1, <2>2
<1> HIDE DEF events, quiet, res
<1> QED BY <1>1, <1>3, <1>4, <1>5, <1>6, <1>7, <1>8, <1>9, PictureByCommit DEF ViewInv

\* A delete announces a tombstone, unless there is nothing to delete.
LEMMA PictureByDelete ==
  ASSUME TypeOK, ViewInv, NEW h \in Handlers, NEW x \in DeleteRequests, DeleteAffiliate(h, x)
  PROVE  TruthInv' /\ PictureInv'
<1>1. x \in AffiliateIDs /\ h \in Threads /\ IsAffiliateTable(affiliates)
  BY ClusterAssumption DEF Threads, TypeOK, TableTyped
<1>2. \A id : Tabled(id)' = IF id = x THEN {} ELSE Tabled(id)
  BY DeleteListed DEF DeleteAffiliate, Tabled
<1>3. /\ UNCHANGED <<ev, ch, stage, watchVars>> /\ pc[h] = "idle"
      /\ \E s \in {"prolong", "done"} : pc' = [pc EXCEPT ![h] = s]
  BY DEF DeleteAffiliate, Return, subVars
<1>7. feedFailed' = feedFailed
  BY <1>1, <1>3, FailedSame
<1>6. backlog[h] = {}
  BY <1>1, <1>3, QuietCommit DEF ViewInv
<1>4. CASE x \in DOMAIN affiliates
  <2> DEFINE events == {Tombstone(x)}
  <2>1. backlog' = [backlog EXCEPT ![h] = events] /\ Settle({x}, {})
    BY <1>4 DEF DeleteAffiliate
  <2>2. events \in SUBSET PendingEvent
    BY <1>1, EventsTyped
  <2>3. \A e \in events : e.id = x /\ e.owed = Listening /\ Said(e) = {}
    BY DEF Tombstone, Said
  <2>4. {e.id : e \in events} = {x}
    BY <2>3
  <2>5. x \in {e.id : e \in events}
    BY <2>4
  <2> HIDE DEF events
  <2>6. \A e \in events : e.owed = Listening /\ Said(e) = Tabled(e.id)'
    BY <1>2, <2>3
  <2>7. \A id : id \notin {} /\ (\A e \in events : e.id # id) => Tabled(id)' = Tabled(id)
    BY <1>2, <2>5
  <2>8. Settle({e.id : e \in events}, {})
    BY <2>1, <2>4
  <2> QED BY <1>1, <1>3, <1>6, <1>7, <2>1, <2>2, <2>6, <2>7, <2>8, PictureByCommit DEF ViewInv
<1>5. CASE x \notin DOMAIN affiliates
  <2>1. UNCHANGED <<backlog, unsettled>>
    BY <1>5 DEF DeleteAffiliate
  <2>2. \A id : Tabled(id)' = Tabled(id)
    BY <1>2, <1>5 DEF Tabled, Listed
  <2>3. /\ \A t \in Threads : Unsent(t)' = Unsent(t)
        /\ Reading' = Reading /\ \A w : Sent(w)' = Sent(w)
    BY <1>3, <1>7, <2>1, UnsentSame DEF Reading, Listening, Sent, watchVars
  <2>4. \A w, id : Due(w, id)' = Due(w, id)
    BY <2>3 DEF Due
  <2>5. TruthInv'
    BY <2>1, <2>2, <2>3 DEF ViewInv, TruthInv
  <2>6. PictureInv'
    BY <1>3, <2>1, <2>2, <2>3, <2>4 DEF ViewInv, PictureInv
  <2> QED BY <2>5, <2>6
<1> QED BY <1>4, <1>5

\* A sweep announces what it drops and what it shrinks.
LEMMA PictureByPrune ==
  ASSUME TypeOK, ViewInv, Prune
  PROVE  TruthInv' /\ PictureInv'
<1> DEFINE kept    == pruneAffiliates(affiliates, pruneNow)
           expired == Expired(affiliates, pruneNow)
           shrunk  == Shrunk(affiliates, pruneNow)
           events  == {Tombstone(id) : id \in expired} \cup {Upsert(id, kept) : id \in shrunk}
<1>1. IsAffiliateTable(affiliates) /\ pruneNow \in Nat /\ Cleanup \in Threads
  BY DEF TypeOK, TableTyped, ThreadsTyped, Threads
<1>2. /\ affiliates' = kept /\ backlog' = [backlog EXCEPT ![Cleanup] = events]
      /\ Settle(expired \cup shrunk, {}) /\ UNCHANGED <<ev, ch, stage, watchVars>>
      /\ pc[Cleanup] = "prune" /\ \E s \in {"idle", "copy"} : pc' = [pc EXCEPT ![Cleanup] = s]
  BY DEF Prune, subVars
<1>12. feedFailed' = feedFailed
  BY <1>1, <1>2, FailedSame
<1>11. backlog[Cleanup] = {}
  BY <1>1, <1>2, QuietCommit DEF ViewInv
<1>3. /\ IsAffiliateTable(kept) /\ expired \subseteq AffiliateIDs
      /\ shrunk \subseteq DOMAIN kept /\ shrunk \cap expired = {}
  BY <1>1, PruneTyped DEF Shrunk
<1>4. \A id : Tabled(id)' = IF id \in expired THEN {}
                           ELSE IF id \in shrunk THEN {ToInfo(kept[id])} ELSE Tabled(id)
  BY <1>1, <1>2, PruneListed DEF Tabled
<1>5. \A id \in expired : /\ Tombstone(id) \in PendingEvent /\ Tombstone(id).id = id
                          /\ Tombstone(id).owed = Listening /\ Said(Tombstone(id)) = {}
  BY <1>3, EventsTyped DEF Tombstone, Said
<1>6. \A id \in shrunk : /\ Upsert(id, kept) \in PendingEvent /\ Upsert(id, kept).id = id
                         /\ Upsert(id, kept).owed = Listening
                         /\ Said(Upsert(id, kept)) = {ToInfo(kept[id])}
  <2>1. shrunk \subseteq AffiliateIDs
    BY <1>3 DEF IsAffiliateTable
  <2> HIDE DEF kept, shrunk
  <2> QED BY <1>3, <2>1, EventsTyped DEF Upsert, Said
<1> HIDE DEF kept, expired, shrunk
<1>7. events \in SUBSET PendingEvent
  BY <1>5, <1>6
<1>8. {e.id : e \in events} = expired \cup shrunk
  BY <1>5, <1>6
<1>9. \A e \in events : e.owed = Listening /\ Said(e) = Tabled(e.id)'
  <2>1. ASSUME NEW id \in expired
        PROVE  /\ Tombstone(id).owed = Listening /\ Tombstone(id).id = id
               /\ Said(Tombstone(id)) = Tabled(id)'
    BY <1>4, <1>5
  <2>2. ASSUME NEW id \in shrunk
        PROVE  /\ Upsert(id, kept).owed = Listening /\ Upsert(id, kept).id = id
               /\ Said(Upsert(id, kept)) = Tabled(id)'
    BY <1>3, <1>4, <1>6
  <2>3. ASSUME NEW e \in events PROVE e.owed = Listening /\ Said(e) = Tabled(e.id)'
    <3>1. CASE \E id \in expired : e = Tombstone(id)
      BY <2>1, <3>1
    <3>2. CASE \E id \in shrunk : e = Upsert(id, kept)
      BY <2>2, <3>2
    <3> QED BY <3>1, <3>2
  <2> QED BY <2>3
<1>10. \A id : id \notin {} /\ (\A e \in events : e.id # id) => Tabled(id)' = Tabled(id)
  BY <1>4, <1>5, <1>6
<1> HIDE DEF events
<1> QED BY <1>1, <1>2, <1>7, <1>8, <1>9, <1>10, <1>11, <1>12, PictureByCommit DEF ViewInv

\* An event that begins its fan-out stays under way.
LEMMA PictureByCopy ==
  ASSUME TypeOK, ViewInv, NEW t \in Threads, NEW e \in backlog[t], CopySubscribers(t, e)
  PROVE  TruthInv' /\ PictureInv'
<1>1. /\ backlog' = [backlog EXCEPT ![t] = @ \ {e}] /\ ev' = [ev EXCEPT ![t] = e] /\ pc[t] = "copy"
      /\ UNCHANGED <<affiliates, unsettled, ch, stage, watchVars>> /\ pc' = [pc EXCEPT ![t] = "fanout"]
  BY DEF CopySubscribers, tableVars, subVars
<1>2. ev[t] = Nil
  BY <1>1 DEF ViewInv, QuietInv
<1>3. e # Nil
  BY NilAssumption DEF TypeOK, ThreadsTyped
<1>4. backlog'[t] = backlog[t] \ {e} /\ ev'[t] = e /\ pc'[t] = "fanout"
  BY <1>1 DEF TypeOK, ThreadsTyped
<1>5. Unsent(t)' = Unsent(t)
  BY <1>1, <1>2, <1>3, <1>4 DEF Unsent
<1>6. \A u \in Threads \ {t} : Unsent(u)' = Unsent(u)
  BY <1>1, FailedSame, UnsentSame DEF TypeOK, ThreadsTyped
<1>7. Reading' = Reading /\ \A w : Sent(w)' = Sent(w)
  BY <1>1 DEF Reading, Listening, Sent, watchVars
<1> QED BY <1>1, <1>5, <1>6, <1>7, PictureKept DEF ViewInv

\* An event that a stream is given settles its picture of the affiliate; the
\* others are still due what they were due.
LEMMA PictureByEnqueue ==
  ASSUME TypeOK, CarriesEvent, ViewInv, NEW t \in Threads, pc[t] = "send", Enqueue(t, cur[t]),
         UNCHANGED <<affiliates, unsettled, backlog, stage, watchVars>>
  PROVE  TruthInv' /\ PictureInv'
<1> DEFINE e == ev[t]
           c == cur[t]
           a == Announced(e)
<1>1. /\ c \in Watches /\ e \in PendingEvent /\ e # Nil
      /\ ch \in [Watches -> Seq(AffiliateEvent)] /\ ev \in [Threads -> PendingEvent \cup {Nil}]
  BY NilAssumption DEF CarriesEvent, Notifying, TypeOK, SubscriptionsTyped, ThreadsTyped
<1>2. a \in AffiliateEvent /\ a.id = e.id /\ Said(a) = Said(e)
  BY <1>1 DEF Announced, AffiliateEvent, PendingEvent, Said
<1>3. /\ ch' = [ch EXCEPT ![c] = Append(@, a)] /\ ev' = [ev EXCEPT ![t].owed = @ \ {c}]
      /\ pc' = [pc EXCEPT ![t] = "fanout"] /\ pc'[t] = "fanout"
  BY DEF Enqueue, TypeOK, ThreadsTyped
<1>4. /\ ev'[t] \in PendingEvent /\ ev'[t] # Nil /\ ev'[t].id = e.id /\ Said(ev'[t]) = Said(e)
      /\ ev'[t].owed = e.owed \ {c}
  <2>1. ev'[t] = [e EXCEPT !.owed = @ \ {c}]
    BY <1>1, <1>3
  <2>2. ev'[t] \in PendingEvent /\ ev'[t].id = e.id /\ Said(ev'[t]) = Said(e) /\ ev'[t].owed = e.owed \ {c}
    BY <1>1, <2>1 DEF PendingEvent, Said
  <2> QED BY <2>2, NilAssumption
<1>5. \A u \in Threads \ {t} : Unsent(u)' = Unsent(u)
  BY <1>1, <1>3, FailedSame, UnsentSame
<1>6. e \in Unsent(t) /\ ev'[t] \in Unsent(t)'
  BY <1>1, <1>3, <1>4 DEF Unsent
<1>7. \A f \in Unsent(t)' : f = ev'[t] \/ f \in Unsent(t)
  BY <1>3 DEF Unsent
<1>8. \A f \in Unsent(t) : f = e \/ f \in Unsent(t)'
  BY <1>3 DEF Unsent
<1>9. \A id : Tabled(id)' = Tabled(id)
  BY DEF Tabled
<1> HIDE DEF e, c, a
<1>10. TruthInv'
  <2> SUFFICES ASSUME NEW u \in Threads, NEW f \in Unsent(u)', f.id \notin unsettled'
               PROVE  Said(f) = Tabled(f.id)'
    BY DEF TruthInv
  <2>1. CASE f \in Unsent(u)
    BY <1>9, <2>1 DEF ViewInv, TruthInv
  <2>2. CASE f \notin Unsent(u)
    <3>1. u = t /\ f = ev'[t]
      BY <1>5, <1>7, <2>2
    <3> QED BY <1>4, <1>6, <1>9, <3>1 DEF ViewInv, TruthInv
  <2> QED BY <2>1, <2>2
<1>11. PictureInv'
  <2> SUFFICES ASSUME NEW w \in Reading', NEW id \in AffiliateIDs, id \notin unsettled'
               PROVE  WillHold(Sent(w)', ch'[w], id, Tabled(id)') \/ Due(w, id)'
    BY DEF PictureInv
  <2>1. w \in Reading /\ Sent(w)' = Sent(w) /\ w \in Watches
    BY DEF Reading, Listening, Sent, watchVars
  <2>2. WillHold(Sent(w), ch[w], id, Tabled(id)) \/ Due(w, id)
    BY <2>1 DEF ViewInv, PictureInv
  <2>3. CASE w = c /\ id = e.id
    <3>1. ch'[w] = Append(ch[w], a) /\ ch[w] \in Seq(AffiliateEvent)
      BY <1>1, <1>3, <2>1, <2>3
    <3>2. WillHold(Sent(w)', ch'[w], id, Said(a))
      BY <1>2, <2>3, <3>1, HeldByNew
    <3>3. Said(a) = Tabled(id)
      BY <1>2, <1>6, <2>3 DEF ViewInv, TruthInv
    <3> QED BY <1>9, <3>2, <3>3
  <2>4. CASE w # c \/ id # e.id
    <3>1. CASE Due(w, id)
      <4>0. PICK u \in Threads : \E f \in Unsent(u) : f.id = id /\ w \in f.owed
        BY <3>1 DEF Due
      <4>1. PICK f \in Unsent(u) : f.id = id /\ w \in f.owed
        BY <4>0
      <4>2. CASE f \in Unsent(u)'
        BY <4>1, <4>2 DEF Due
      <4>3. CASE f \notin Unsent(u)'
        <5>1. u = t /\ f = e
          BY <1>5, <1>8, <4>3
        <5>2. ev'[t].id = id /\ w \in ev'[t].owed
          BY <1>4, <2>4, <4>1, <5>1
        <5> QED BY <1>6, <5>2 DEF Due
      <4> QED BY <4>2, <4>3
    <3>2. CASE WillHold(Sent(w), ch[w], id, Tabled(id)) /\ w # c
      <4>1. ch'[w] = ch[w]
        BY <1>1, <1>3, <2>1, <3>2
      <4> QED BY <1>9, <2>1, <3>2, <4>1
    <3>3. CASE WillHold(Sent(w), ch[w], id, Tabled(id)) /\ w = c /\ id # a.id
      <4>1. ch'[w] = Append(ch[w], a) /\ ch[w] \in Seq(AffiliateEvent)
        BY <1>1, <1>3, <2>1, <3>3
      <4>2. WillHold(Sent(w), ch'[w], id, Tabled(id))
        BY <1>2, <3>3, <4>1, HeldBeside
      <4> QED BY <1>9, <2>1, <4>2
    <3> QED BY <1>2, <2>2, <2>4, <3>1, <3>2, <3>3
  <2> QED BY <2>3, <2>4
<1> QED BY <1>10, <1>11

\* A fan-out that ends owes nothing to a stream that is still listening.
LEMMA PictureByFinish ==
  ASSUME TypeOK, FanoutInv, ViewInv, NEW t \in Threads, FinishFanout(t)
  PROVE  TruthInv' /\ PictureInv'
<1>1. /\ pc[t] = "fanout" /\ targets[t] = {} /\ ev' = [ev EXCEPT ![t] = Nil]
      /\ \E s \in {"copy", "idle", "done"} : pc' = [pc EXCEPT ![t] = s]
      /\ UNCHANGED <<affiliates, unsettled, backlog, ch, stage, watchVars>>
  BY DEF FinishFanout, Return, tableVars, subVars
<1>2. ev[t].owed \cap Listening = {}
  BY <1>1 DEF FanoutInv, OwedIsAhead, BetweenStreams
<1>3. \A u \in Threads \ {t} : Unsent(u)' = Unsent(u)
  BY <1>1, FailedSame, UnsentSame DEF TypeOK, ThreadsTyped
<1>4. ev'[t] = Nil /\ backlog'[t] = backlog[t] /\ pc'[t] # "panicked"
  BY <1>1 DEF TypeOK, ThreadsTyped
<1>5. /\ \A f \in Unsent(t)' : f \in Unsent(t)
      /\ \A f \in Unsent(t) : f = ev[t] \/ f \in Unsent(t)'
  BY <1>1, <1>4 DEF Unsent
<1>6. \A id : Tabled(id)' = Tabled(id)
  BY <1>1 DEF Tabled
<1>7. TruthInv'
  BY <1>1, <1>3, <1>5, <1>6 DEF ViewInv, TruthInv
<1>8. PictureInv'
  <2> SUFFICES ASSUME NEW w \in Reading', NEW id \in AffiliateIDs, id \notin unsettled'
               PROVE  WillHold(Sent(w)', ch'[w], id, Tabled(id)') \/ Due(w, id)'
    BY DEF PictureInv
  <2>1. w \in Reading /\ w \in Listening /\ Sent(w)' = Sent(w) /\ ch' = ch /\ id \notin unsettled
    BY <1>1 DEF Reading, Listening, Sent, watchVars
  <2>2. WillHold(Sent(w), ch[w], id, Tabled(id)) \/ Due(w, id)
    BY <2>1 DEF ViewInv, PictureInv
  <2>3. ASSUME Due(w, id) PROVE Due(w, id)'
    <3>0. PICK u \in Threads : \E f \in Unsent(u) : f.id = id /\ w \in f.owed
      BY <2>3 DEF Due
    <3>1. PICK f \in Unsent(u) : f.id = id /\ w \in f.owed
      BY <3>0
    <3>2. f \in Unsent(u)'
      BY <1>2, <1>3, <1>5, <2>1, <3>1
    <3> QED BY <3>1, <3>2 DEF Due
  <2> QED BY <1>6, <2>1, <2>2, <2>3
<1> QED BY <1>7, <1>8

\* A panic settles nothing: what it keeps from an open stream is unsettled, and
\* what it does not was due to nobody who still listens.
LEMMA PictureByPanic ==
  ASSUME TypeOK, ViewInv, NEW t \in Threads, Panics(t),
         UNCHANGED <<affiliates, backlog, stage, watchVars>>
  PROVE  TruthInv' /\ PictureInv'
<1>1. /\ pc' = [pc EXCEPT ![t] = "panicked"] /\ UNCHANGED <<ev, ch>>
      /\ \A id : id \notin unsettled' => id \notin unsettled
      /\ \A e \in Unsent(t) : e.id \notin unsettled' => e.owed \cap Listening = {}
  BY DEF Panics
<1>2. /\ Unsent(t)' = {}
      /\ \A u \in Threads \ {t} : Unsent(u)' = Unsent(u)
  BY <1>1 DEF Unsent, TypeOK, ThreadsTyped
<1>3. \A id : Tabled(id)' = Tabled(id)
  BY DEF Tabled
<1>4. TruthInv'
  BY <1>1, <1>2, <1>3 DEF ViewInv, TruthInv
<1>5. PictureInv'
  <2> SUFFICES ASSUME NEW w \in Reading', NEW id \in AffiliateIDs, id \notin unsettled'
               PROVE  WillHold(Sent(w)', ch'[w], id, Tabled(id)') \/ Due(w, id)'
    BY DEF PictureInv
  <2>1. w \in Reading /\ w \in Listening /\ Sent(w)' = Sent(w) /\ ch' = ch /\ id \notin unsettled
    BY <1>1 DEF Reading, Listening, Sent, watchVars
  <2>2. WillHold(Sent(w), ch[w], id, Tabled(id)) \/ Due(w, id)
    BY <2>1 DEF ViewInv, PictureInv
  <2>3. ASSUME Due(w, id) PROVE Due(w, id)'
    <3>0. PICK u \in Threads : \E f \in Unsent(u) : f.id = id /\ w \in f.owed
      BY <2>3 DEF Due
    <3>1. PICK f \in Unsent(u) : f.id = id /\ w \in f.owed
      BY <3>0
    <3>2. u # t
      BY <1>1, <2>1, <3>1
    <3>3. f \in Unsent(u)'
      BY <1>2, <3>1, <3>2
    <3> QED BY <3>1, <3>3 DEF Due
  <2> QED BY <1>3, <2>1, <2>2, <2>3
<1> QED BY <1>4, <1>5

\* A new stream's snapshot is the table, read in the section that registers it.
LEMMA PictureBySubscribe ==
  ASSUME TypeOK, ViewInv, NEW c \in Watches, SubscribeWithSnapshot(c)
  PROVE  TruthInv' /\ PictureInv'
<1> DEFINE l == listAffiliatesLocked(affiliates)
<1>1. /\ wpc[c] = "idle" /\ UNCHANGED <<affiliates, unsettled, pc, backlog, ev, ch, stage, view>>
      /\ \/ /\ wpc' = [wpc EXCEPT ![c] = "send"]
            /\ outbox' = [outbox EXCEPT ![c] = [deleted |-> FALSE, affiliates |-> l]]
         \/ /\ wpc' = [wpc EXCEPT ![c] = "select"] /\ UNCHANGED outbox /\ DOMAIN l = {}
  BY DEF SubscribeWithSnapshot, tableVars, threadVars, subVars
<1>2. ch[c] = <<>> /\ view[c] = EmptyMap
  BY <1>1 DEF ViewInv, NewInv
<1>3. wpc \in [Watches -> {"idle", "send", "select", "return", "done"}] /\ DOMAIN outbox = Watches
  BY DEF TypeOK, WatchesTyped
<1>4. \A t \in Threads : Unsent(t)' = Unsent(t)
  BY <1>1 DEF Unsent
<1>5. \A id : Tabled(id)' = Tabled(id)
  BY <1>1 DEF Tabled
<1>6. \A id : Entry(Sent(c)', id) = Tabled(id)
  <2> SUFFICES ASSUME NEW id PROVE Entry(Sent(c)', id) = Tabled(id)
    OBVIOUS
  <2>1. CASE wpc' = [wpc EXCEPT ![c] = "send"]
    <3>1. wpc'[c] = "send" /\ outbox'[c] = [deleted |-> FALSE, affiliates |-> l] /\ view'[c] = EmptyMap
      BY <1>1, <1>2, <1>3, <2>1
    <3>2. Sent(c)' = Apply(EmptyMap, [deleted |-> FALSE, affiliates |-> l])
      BY <3>1 DEF Sent
    <3> QED BY <3>2, SnapshotEntry DEF Tabled
  <2>2. CASE wpc' = [wpc EXCEPT ![c] = "select"] /\ DOMAIN l = {}
    <3>1. wpc'[c] = "select" /\ view'[c] = EmptyMap
      BY <1>1, <1>2, <1>3, <2>2
    <3>2. Sent(c)' = EmptyMap
      BY <3>1 DEF Sent
    <3> QED BY <2>2, <3>2, SnapshotEntry DEF Tabled
  <2> QED BY <1>1, <2>1, <2>2
<1>7. TruthInv'
  BY <1>1, <1>4, <1>5 DEF ViewInv, TruthInv
<1>8. PictureInv'
  <2> SUFFICES ASSUME NEW w \in Reading', NEW id \in AffiliateIDs, id \notin unsettled'
               PROVE  WillHold(Sent(w)', ch'[w], id, Tabled(id)') \/ Due(w, id)'
    BY DEF PictureInv
  <2>1. CASE w = c
    BY <1>1, <1>2, <1>5, <1>6, <2>1, HeldNow
  <2>2. CASE w # c
    <3>1. w \in Watches /\ wpc'[w] = wpc[w] /\ outbox'[w] = outbox[w]
      BY <1>1, <1>3, <2>2 DEF Reading, Listening
    <3>2. w \in Reading /\ Sent(w)' = Sent(w)
      BY <1>1, <3>1 DEF Reading, Listening, Sent
    <3>3. Due(w, id) => Due(w, id)'
      BY <1>4 DEF Due
    <3> QED BY <1>1, <1>5, <3>2, <3>3 DEF ViewInv, PictureInv
  <2> QED BY <2>1, <2>2
<1> QED BY <1>7, <1>8

\* The response that the handler makes of the next event carries on where the
\* queue left off.
LEMMA PictureBySelect ==
  ASSUME TypeOK, ViewInv, NEW c \in Watches, SelectEvents(c)
  PROVE  TruthInv' /\ PictureInv'
<1>1. /\ wpc[c] = "select" /\ UNCHANGED <<affiliates, unsettled, pc, backlog, ev, stage, view>>
      /\ ch \in [Watches -> Seq(AffiliateEvent)] /\ DOMAIN outbox = Watches
      /\ wpc \in [Watches -> {"idle", "send", "select", "return", "done"}]
  BY DEF SelectEvents, tableVars, threadVars, TypeOK, SubscriptionsTyped, WatchesTyped
<1>2. \A t \in Threads : Unsent(t)' = Unsent(t)
  BY <1>1 DEF Unsent
<1>3. CASE ch[c] = <<>>
  <2>1. wpc' = [wpc EXCEPT ![c] = "return"] /\ UNCHANGED <<outbox, ch>>
    BY <1>3 DEF SelectEvents, Returns
  <2>2. ASSUME NEW w \in Reading' PROVE w \in Reading /\ Sent(w)' = Sent(w) /\ ch'[w] = ch[w]
    <3>1. w \in Watches /\ wpc'[w] \in {"send", "select"}
      BY DEF Reading, Listening
    <3>2. wpc'[w] = wpc[w]
      BY <1>1, <2>1, <3>1
    <3> QED BY <1>1, <2>1, <3>2 DEF Reading, Listening, Sent
  <2> QED BY <1>1, <1>2, <2>2, PictureKept DEF ViewInv
<1>4. CASE ch[c] # <<>>
  <2> DEFINE e == Head(ch[c])
  <2>1. /\ outbox' = [outbox EXCEPT ![c] = toResponse(e)] /\ ch' = [ch EXCEPT ![c] = Tail(@)]
        /\ wpc' = [wpc EXCEPT ![c] = "send"]
    BY <1>4 DEF SelectEvents
  <2>2. e \in AffiliateEvent /\ ch[c] \in Seq(AffiliateEvent) /\ ch'[c] = Tail(ch[c])
    BY <1>1, <1>4, <2>1
  <2>3. Sent(c) = view[c] /\ Sent(c)' = Apply(view[c], toResponse(e))
    BY <1>1, <2>1 DEF Sent
  <2>4. \A id : Tabled(id)' = Tabled(id)
    BY <1>1 DEF Tabled
  <2>5. \A w, id : Due(w, id)' = Due(w, id)
    BY <1>2 DEF Due
  <2>6. TruthInv'
    BY <1>1, <1>2, <2>4 DEF ViewInv, TruthInv
  <2>7. PictureInv'
    <3> SUFFICES ASSUME NEW w \in Reading', NEW id \in AffiliateIDs, id \notin unsettled'
                 PROVE  WillHold(Sent(w)', ch'[w], id, Tabled(id)') \/ Due(w, id)'
      BY DEF PictureInv
    <3>1. w \in Watches
      BY DEF Reading, Listening
    <3>2. w \in Reading
      BY <1>1, <2>1, <3>1 DEF Reading, Listening
    <3>3. WillHold(Sent(w), ch[w], id, Tabled(id)) \/ Due(w, id)
      BY <1>1, <3>2 DEF ViewInv, PictureInv
    <3>4. CASE w = c /\ WillHold(Sent(w), ch[w], id, Tabled(id))
      <4>1. Entry(Sent(c)', id) = IF e.id = id THEN Said(e) ELSE Entry(Sent(c), id)
        BY <2>2, <2>3, AppliedEntry
      <4>2. WillHold(Sent(c)', Tail(ch[c]), id, Tabled(id))
        BY <1>4, <2>2, <3>4, <4>1, HeldWhenTaken
      <4> QED BY <2>2, <2>4, <3>4, <4>2
    <3>5. CASE w # c /\ WillHold(Sent(w), ch[w], id, Tabled(id))
      <4>1. wpc'[w] = wpc[w] /\ outbox'[w] = outbox[w] /\ ch'[w] = ch[w]
        BY <1>1, <2>1, <3>1, <3>5
      <4>2. Sent(w)' = Sent(w)
        BY <1>1, <4>1 DEF Sent
      <4> QED BY <2>4, <3>5, <4>1, <4>2
    <3> QED BY <2>5, <3>3, <3>4, <3>5
  <2> QED BY <2>6, <2>7
<1> QED BY <1>3, <1>4

\* Steps that leave the table and what is under way alone.
LEMMA PictureElsewhere ==
  ASSUME ViewInv, UNCHANGED <<affiliates, unsettled, backlog, ev, ch>>, feedFailed' = feedFailed,
         \A w \in Reading' : w \in Reading /\ Sent(w)' = Sent(w)
  PROVE  TruthInv' /\ PictureInv'
<1>1. \A t \in Threads : Unsent(t)' = Unsent(t)
  BY UnsentSame
<1> QED BY <1>1, PictureKept DEF ViewInv

\* A thread's step, of an RPC or of the cleanup.
LEMMA PictureByThread ==
  ASSUME TypeOK, FanoutInv, ViewInv, NEW t \in Threads, ThreadStep(t)
  PROVE  TruthInv' /\ PictureInv'
<1>1. ASSUME UNCHANGED <<affiliates, unsettled, backlog, ev, ch, stage, watchVars>>,
             feedFailed' = feedFailed
      PROVE  TruthInv' /\ PictureInv'
  <2>1. Reading' = Reading /\ \A w : Sent(w)' = Sent(w)
    BY <1>1 DEF Reading, Listening, Sent, watchVars
  <2> QED BY <1>1, <2>1, PictureElsewhere
<1>2. CASE ProlongAfterDelete(t)
  <2>1. pc[t] = "prolong" /\ pc' = [pc EXCEPT ![t] = "copy"]
    BY <1>2 DEF ProlongAfterDelete
  <2> QED BY <1>1, <1>2, <2>1, FailedSame DEF ProlongAfterDelete, tableVars, subVars
<1>3. ASSUME NEW e \in backlog[t], CopySubscribers(t, e) PROVE TruthInv' /\ PictureInv'
  BY <1>3, PictureByCopy
<1>4. ASSUME NEW w \in Watches, LoadClosed(t, w) PROVE TruthInv' /\ PictureInv'
  <2>1. pc[t] = "fanout" /\ (pc' = pc \/ pc' = [pc EXCEPT ![t] = "send"])
    BY <1>4 DEF LoadClosed
  <2>2. feedFailed' = feedFailed
    BY <2>1, FailedSame DEF feedFailed
  <2> QED BY <1>1, <1>4, <2>2 DEF LoadClosed, tableVars, subVars
<1>5. CASE TrySend(t)
  <2>1. pc[t] = "send" /\ UNCHANGED <<affiliates, backlog, stage, watchVars>>
    BY <1>5 DEF TrySend, tableVars
  <2>2. CASE Enqueue(t, cur[t])
    BY <2>1, <2>2, PictureByEnqueue DEF FanoutInv, Enqueue
  <2>3. CASE Panics(t)
    BY <2>1, <2>3, PictureByPanic
  <2>4. CASE BufferFull(t, cur[t])
    BY <1>1, <2>1, <2>4, FailedSame DEF BufferFull
  <2> QED BY <1>5, <2>2, <2>3, <2>4 DEF TrySend
<1>6. CASE ReportLost(t)
  <2>1. pc[t] = "lost" /\ UNCHANGED <<affiliates, backlog, stage, watchVars>>
    BY <1>6 DEF ReportLost, tableVars
  <2>2. CASE Panics(t)
    BY <2>1, <2>2, PictureByPanic
  <2>3. CASE pc' = [pc EXCEPT ![t] = "evict"] /\ UNCHANGED <<ev, ch, unsettled>>
    BY <1>1, <2>1, <2>3, FailedSame
  <2> QED BY <1>6, <2>2, <2>3 DEF ReportLost
<1>7. CASE Evict(t)
  <2>1. /\ UNCHANGED <<affiliates, unsettled, backlog, ev, ch, watchVars>>
        /\ stage' = stage \/ stage' = [stage EXCEPT ![cur[t]] = "flagged"]
        /\ pc[t] = "evict" /\ (pc' = pc \/ pc' = [pc EXCEPT ![t] = "fanout"])
    BY <1>7 DEF Evict, tableVars
  <2>4. feedFailed' = feedFailed
    BY <2>1, FailedSame DEF feedFailed
  <2>2. \A w \in Watches : stage'[w] = "open" => stage[w] = "open"
    BY <2>1 DEF TypeOK, SubscriptionsTyped
  <2>3. \A w \in Reading' : w \in Reading /\ Sent(w)' = Sent(w)
    BY <2>1, <2>2 DEF Reading, Listening, Sent, watchVars
  <2> QED BY <2>1, <2>3, <2>4, PictureElsewhere
<1>8. CASE FinishFanout(t)
  BY <1>8, PictureByFinish
<1> QED BY <1>2, <1>3, <1>4, <1>5, <1>6, <1>7, <1>8 DEF ThreadStep

\* A step of a stream's handler, its client or one of the goroutines that
\* close it.
LEMMA PictureByStream ==
  ASSUME TypeOK, ViewInv, NEW c \in Watches, WatchStep(c) \/ Send(c) \/ ClientCancel(c) \/ CloseStep(c)
  PROVE  TruthInv' /\ PictureInv'
<1>0. /\ wpc \in [Watches -> {"idle", "send", "select", "return", "done"}] /\ DOMAIN view = Watches
      /\ DOMAIN outbox = Watches /\ DOMAIN stage = Watches
  BY DEF TypeOK, WatchesTyped, SubscriptionsTyped
<1>7. feedFailed' = feedFailed
  <2>1. pc' = pc
    BY DEF WatchStep, SendFails, SelectCtxDone, SelectErrors, SelectEvents, DeferClose, CtxGoroutine, Send,
       ClientCancel, CloseStep, Unregister, CloseChannels, ProlongAfterClose, threadVars
  <2> QED BY <2>1 DEF feedFailed
<1>1. CASE SelectEvents(c)
  BY <1>1, PictureBySelect
<1>2. CASE Send(c)
  <2>1. /\ wpc[c] = "send" /\ view' = [view EXCEPT ![c] = Apply(@, outbox[c])]
        /\ wpc' = [wpc EXCEPT ![c] = "select"] /\ outbox' = [outbox EXCEPT ![c] = NoResponse]
        /\ UNCHANGED <<affiliates, unsettled, backlog, ev, ch, stage>>
    BY <1>2 DEF Send, tableVars, threadVars, subVars
  <2>2. ASSUME NEW w \in Reading' PROVE w \in Reading /\ Sent(w)' = Sent(w)
    <3>1. w \in Watches
      BY DEF Reading, Listening
    <3>2. w \in Reading
      BY <1>0, <2>1, <3>1 DEF Reading, Listening
    <3>3. Sent(w)' = Sent(w)
      BY <1>0, <2>1, <3>1 DEF Sent
    <3> QED BY <3>2, <3>3
  <2> QED BY <1>7, <2>1, <2>2, PictureElsewhere
<1>3. CASE SendFails(c) \/ SelectCtxDone(c) \/ SelectErrors(c)
  <2>1. /\ wpc' = [wpc EXCEPT ![c] = "return"]
        /\ \A w \in Watches \ {c} : outbox'[w] = outbox[w]
        /\ UNCHANGED <<affiliates, unsettled, backlog, ev, ch, stage, view>>
    <3>1. CASE SendFails(c)
      BY <1>0, <3>1 DEF SendFails, Returns, tableVars, threadVars, subVars
    <3>2. CASE SelectCtxDone(c)
      BY <3>2 DEF SelectCtxDone, Returns, tableVars, threadVars, subVars
    <3>3. CASE SelectErrors(c)
      BY <3>3 DEF SelectErrors, Returns, tableVars, threadVars
    <3> QED BY <1>3, <3>1, <3>2, <3>3
  <2>2. ASSUME NEW w \in Reading' PROVE w \in Reading /\ Sent(w)' = Sent(w)
    <3>1. w \in Watches /\ w # c
      BY <1>0, <2>1 DEF Reading, Listening
    <3>2. wpc'[w] = wpc[w] /\ outbox'[w] = outbox[w]
      BY <1>0, <2>1, <3>1
    <3> QED BY <2>1, <3>2 DEF Reading, Listening, Sent
  <2> QED BY <1>7, <2>1, <2>2, PictureElsewhere
<1>4. CASE DeferClose(c)
  <2>1. /\ wpc' = wpc \/ wpc' = [wpc EXCEPT ![c] = "done"]
        /\ stage' = stage \/ stage' = [stage EXCEPT ![c] = "flagged"]
        /\ UNCHANGED <<affiliates, unsettled, backlog, ev, ch, outbox, view>>
    BY <1>4 DEF DeferClose, tableVars, threadVars
  <2>2. ASSUME NEW w \in Reading' PROVE w \in Reading /\ Sent(w)' = Sent(w)
    <3>1. w \in Watches /\ wpc'[w] \in {"send", "select"} /\ stage'[w] = "open"
      BY DEF Reading, Listening
    <3>2. wpc'[w] = wpc[w] /\ stage[w] = "open"
      BY <1>0, <2>1, <3>1
    <3> QED BY <2>1, <3>1, <3>2 DEF Reading, Listening, Sent
  <2> QED BY <1>7, <2>1, <2>2, PictureElsewhere
<1>5. CASE ClientCancel(c)
  <2>1. UNCHANGED <<affiliates, unsettled, backlog, ev, ch, stage, wpc, outbox, view>>
    BY <1>5 DEF ClientCancel, tableVars, threadVars, subVars
  <2>2. Reading' = Reading /\ \A w : Sent(w)' = Sent(w)
    BY <2>1 DEF Reading, Listening, Sent
  <2> QED BY <1>7, <2>1, <2>2, PictureElsewhere
<1>6. CASE CtxGoroutine(c) \/ CloseStep(c)
  <2>1. /\ UNCHANGED <<affiliates, unsettled, backlog, ev, ch, wpc, outbox, view>>
        /\ \A w \in Watches : stage'[w] = "open" => stage[w] = "open"
    BY <1>0, <1>6 DEF CtxGoroutine, CloseStep, Unregister, CloseChannels, ProlongAfterClose, tableVars,
                      threadVars, watchVars
  <2>2. \A w \in Reading' : w \in Reading /\ Sent(w)' = Sent(w)
    BY <2>1 DEF Reading, Listening, Sent
  <2> QED BY <1>7, <2>1, <2>2, PictureElsewhere
<1> QED BY <1>1, <1>2, <1>3, <1>4, <1>5, <1>6 DEF WatchStep

\* Every step keeps the pictures right.
LEMMA ViewStep == TypeOK /\ FanoutInv /\ ViewInv /\ [Next]_vars => ViewInv'
<1> SUFFICES ASSUME TypeOK, FanoutInv, ViewInv, [Next]_vars PROVE ViewInv'
  OBVIOUS
<1>1. QuietInv' /\ NewInv'
  BY QuietStep, NewStep DEF ViewInv
<1>2. ASSUME NEW h \in Handlers, NEW req \in UpdateRequests, UpdateAffiliate(h, req)
      PROVE  TruthInv' /\ PictureInv'
  BY <1>2, PictureByUpdate
<1>3. ASSUME NEW h \in Handlers, NEW id \in DeleteRequests, DeleteAffiliate(h, id)
      PROVE  TruthInv' /\ PictureInv'
  BY <1>3, PictureByDelete
<1>4. ASSUME NEW t \in Threads, ThreadStep(t) PROVE TruthInv' /\ PictureInv'
  BY <1>4, PictureByThread
<1>5. ASSUME NEW w \in Watches, SubscribeWithSnapshot(w) PROVE TruthInv' /\ PictureInv'
  BY <1>5, PictureBySubscribe
<1>6. ASSUME NEW w \in Watches, WatchStep(w) \/ Send(w) \/ ClientCancel(w) \/ CloseStep(w)
      PROVE  TruthInv' /\ PictureInv'
  BY <1>6, PictureByStream
<1>7. ASSUME PruneReadClock \/ Tick \/ UNCHANGED vars PROVE TruthInv' /\ PictureInv'
  <2>1. UNCHANGED <<affiliates, unsettled, backlog, ev, ch, stage, watchVars>>
    BY <1>7 DEF PruneReadClock, Tick, vars, tableVars, threadVars, subVars
  <2>2. Reading' = Reading /\ \A w : Sent(w)' = Sent(w)
    BY <2>1 DEF Reading, Listening, Sent, watchVars
  <2>3. pc' = pc \/ (pc[Cleanup] = "idle" /\ pc' = [pc EXCEPT ![Cleanup] = "prune"])
    BY <1>7 DEF PruneReadClock, Tick, vars, threadVars
  <2>4. feedFailed' = feedFailed
    BY <2>3, FailedSame DEF feedFailed, Threads
  <2> QED BY <2>1, <2>2, <2>4, PictureElsewhere
<1>8. ASSUME Prune PROVE TruthInv' /\ PictureInv'
  BY <1>8, PictureByPrune
<1>9. TruthInv' /\ PictureInv'
  BY <1>2, <1>3, <1>4, <1>5, <1>6, <1>7, <1>8 DEF Next
<1> QED BY <1>1, <1>9 DEF ViewInv

\* For every number of writers, streams and affiliates, every buffer size and
\* every clock: a stream that has drained its channel shows what the table has
\* of each settled affiliate that no event is in flight about.  Snapshot and
\* registration in one section, events computed under affiliatesMu and sent
\* after it, the sweep's own events, slow streams and streams that join in the
\* middle of a fan-out come out right together.
THEOREM PicturesComeRight == Spec => []ViewsConverge
<1>1. Init => TypeOK /\ FanoutInv /\ ViewInv
  BY TypeInit, FanoutInit, ViewInit
<1>2. TypeOK /\ FanoutInv /\ ViewInv /\ [Next]_vars => (TypeOK /\ FanoutInv /\ ViewInv)'
  BY TypeStep, FanoutStep, ViewStep DEF FanoutInv
<1>3. ViewInv => ViewsConverge
  <2> SUFFICES ASSUME ViewInv, NEW w \in Watches, NEW id \in AffiliateIDs,
                      Drained(w), ~InFlight(id), id \notin unsettled
               PROVE  ViewAgrees(w, id)
    BY DEF ViewsConverge
  <2>1. w \in Reading /\ ch[w] = <<>> /\ Sent(w) = view[w]
    BY DEF Drained, Reading, Sent
  <2>2. ~Due(w, id)
    BY DEF Due, InFlight
  <2>3. Entry(view[w], id) = Tabled(id)
    BY <2>1, <2>2, HeldNow DEF ViewInv, PictureInv
  <2> QED BY <2>3 DEF Entry, Tabled, Listed, ViewAgrees
<1> QED BY <1>1, <1>2, <1>3, PTL DEF Spec

-----------------------------------------------------------------------------
(***************************************************************************)
(* The fan-out is a feed: Cluster.tla implements WatchFeed.tla.            *)
(***************************************************************************)
\* The events of a thread are about different affiliates.
DistinctInv ==
  \A t \in Threads :
    /\ \A e, f \in backlog[t] : e.id = f.id => e = f
    /\ ev[t] # Nil => \A e \in backlog[t] : e.id # ev[t].id

\* A thread notifies each subscription once.
OnceInv == \A t \in Threads : Notifying(t) => cur[t] \notin targets[t]

\* Nobody closes or cancels a stream that has not begun.
BeginInv == \A w \in Watches : wpc[w] = "idle" => stage[w] = "open" /\ ~ctxDone[w]

FeedInv == DistinctInv /\ OnceInv /\ BeginInv

\* A commit, by whichever thread: the events are about different affiliates,
\* and it touches neither streams nor the fan-out of others.
Commits(t, events) ==
  /\ pc[t] = "idle" \/ pc[t] = "prune"
  /\ backlog' = [backlog EXCEPT ![t] = events]
  /\ \A e, f \in events : e.id = f.id => e = f
  /\ \A u \in Threads \ {t} : pc'[u] = pc[u]
  /\ pc'[t] \in {"idle", "prolong", "copy", "done"}
  /\ UNCHANGED <<ev, targets, cur, subscribers, subVars, watchVars>>

\* Updates, deletes and sweeps are commits.
LEMMA CommitIs ==
  ASSUME TypeOK, QuietInv,
         \/ \E h \in Handlers, req \in UpdateRequests : UpdateAffiliate(h, req)
         \/ \E h \in Handlers, id \in DeleteRequests : DeleteAffiliate(h, id)
         \/ Prune
  PROVE  \E t \in Threads : \E events \in SUBSET PendingEvent : Commits(t, events)
<1>0. /\ DOMAIN pc = Threads /\ backlog \in [Threads -> SUBSET PendingEvent]
      /\ Cleanup \in Threads /\ \A h \in Handlers : h \in Threads
      /\ IsAffiliateTable(affiliates) /\ now \in Nat /\ pruneNow \in Nat
  BY DEF TypeOK, TableTyped, ThreadsTyped, Threads
<1>1. ASSUME NEW h \in Handlers, NEW req \in UpdateRequests, UpdateAffiliate(h, req)
      PROVE  \E t \in Threads : \E events \in SUBSET PendingEvent : Commits(t, events)
  <2> DEFINE res    == updateAffiliateLocked(affiliates, req, now)
             events == IF res.event THEN {Upsert(req.id, res.affiliates)} ELSE {}
  <2>1. req \in UpdateRequest /\ req.id \in AffiliateIDs
    BY ClusterAssumption DEF UpdateRequest
  <2>2. IsAffiliateTable(res.affiliates) /\ (res.event => req.id \in DOMAIN res.affiliates)
    BY <1>0, <2>1, UpdateTyped
  <2>3. events \in SUBSET PendingEvent
    BY <2>1, <2>2, EventsTyped
  <2>4. \A e, f \in events : e.id = f.id => e = f
    OBVIOUS
  <2>5. /\ backlog' = [backlog EXCEPT ![h] = events] /\ pc[h] = "idle"
        /\ UNCHANGED <<ev, targets, cur, subscribers, subVars, watchVars>>
    BY <1>1 DEF UpdateAffiliate
  <2>6. pc' = [pc EXCEPT ![h] = "copy"] \/ pc' = [pc EXCEPT ![h] = "done"]
    BY <1>1 DEF UpdateAffiliate, Return
  <2> HIDE DEF events
  <2>7. /\ \A u \in Threads \ {h} : pc'[u] = pc[u]
        /\ pc'[h] \in {"idle", "prolong", "copy", "done"}
    BY <1>0, <2>6
  <2>8. Commits(h, events)
    BY <2>4, <2>5, <2>7 DEF Commits
  <2> QED BY <1>0, <2>3, <2>8
<1>2. ASSUME NEW h \in Handlers, NEW id \in DeleteRequests, DeleteAffiliate(h, id)
      PROVE  \E t \in Threads : \E events \in SUBSET PendingEvent : Commits(t, events)
  <2>0. id \in AffiliateIDs /\ h \in Threads
    BY <1>0, ClusterAssumption
  <2>1. /\ pc[h] = "idle" /\ UNCHANGED <<ev, targets, cur, subscribers, subVars, watchVars>>
    BY <1>2 DEF DeleteAffiliate
  <2>2. pc' = [pc EXCEPT ![h] = "prolong"] \/ pc' = [pc EXCEPT ![h] = "done"]
    BY <1>2 DEF DeleteAffiliate, Return
  <2>3. /\ \A u \in Threads \ {h} : pc'[u] = pc[u]
        /\ pc'[h] \in {"idle", "prolong", "copy", "done"}
    BY <1>0, <2>0, <2>2
  <2>4. CASE backlog' = [backlog EXCEPT ![h] = {Tombstone(id)}]
    <3>1. {Tombstone(id)} \in SUBSET PendingEvent
      BY <1>0, <2>0, EventsTyped
    <3>2. Commits(h, {Tombstone(id)})
      BY <2>1, <2>3, <2>4 DEF Commits
    <3> QED BY <2>0, <3>1, <3>2
  <2>5. CASE UNCHANGED backlog
    <3>1. backlog[h] = {}
      BY <2>0, <2>1, QuietCommit
    <3>2. backlog' = [backlog EXCEPT ![h] = {}]
      BY <1>0, <2>0, <2>5, <3>1
    <3>3. Commits(h, {})
      BY <2>1, <2>3, <3>2 DEF Commits
    <3>4. {} \in SUBSET PendingEvent
      OBVIOUS
    <3> QED BY <2>0, <3>3, <3>4
  <2> QED BY <1>2, <2>4, <2>5 DEF DeleteAffiliate
<1>3. ASSUME Prune
      PROVE  \E t \in Threads : \E events \in SUBSET PendingEvent : Commits(t, events)
  <2> DEFINE kept    == pruneAffiliates(affiliates, pruneNow)
             expired == Expired(affiliates, pruneNow)
             shrunk  == Shrunk(affiliates, pruneNow)
             events  == {Tombstone(id) : id \in expired} \cup {Upsert(id, kept) : id \in shrunk}
  <2>1. /\ IsAffiliateTable(kept) /\ expired \subseteq AffiliateIDs
        /\ shrunk \subseteq DOMAIN kept /\ shrunk \cap expired = {}
    BY <1>0, PruneTyped DEF Shrunk
  <2>2. shrunk \subseteq AffiliateIDs
    BY <2>1 DEF IsAffiliateTable
  <2>3. /\ backlog' = [backlog EXCEPT ![Cleanup] = events] /\ pc[Cleanup] = "prune"
        /\ pc' = [pc EXCEPT ![Cleanup] = IF events = {} THEN "idle" ELSE "copy"]
        /\ UNCHANGED <<ev, targets, cur, subscribers, subVars, watchVars>>
    BY <1>3 DEF Prune
  <2> HIDE DEF kept, expired, shrunk
  <2>4. /\ \A id \in expired : Tombstone(id) \in PendingEvent /\ Tombstone(id).id = id
        /\ \A id \in shrunk : Upsert(id, kept) \in PendingEvent /\ Upsert(id, kept).id = id
    BY <2>1, <2>2, EventsTyped DEF Tombstone, Upsert
  <2>5. events \in SUBSET PendingEvent
    BY <2>4
  <2>6. ASSUME NEW e \in events, NEW f \in events, e.id = f.id PROVE e = f
    <3>1. \/ e.id \in expired /\ e = Tombstone(e.id)
          \/ e.id \in shrunk /\ e = Upsert(e.id, kept)
      BY <2>4
    <3>2. \/ f.id \in expired /\ f = Tombstone(f.id)
          \/ f.id \in shrunk /\ f = Upsert(f.id, kept)
      BY <2>4
    <3> QED BY <2>1, <2>6, <3>1, <3>2
  <2> HIDE DEF events
  <2>7. /\ \A u \in Threads \ {Cleanup} : pc'[u] = pc[u]
        /\ pc'[Cleanup] \in {"idle", "prolong", "copy", "done"}
    BY <1>0, <2>3
  <2>8. Commits(Cleanup, events)
    BY <2>3, <2>6, <2>7 DEF Commits
  <2> QED BY <1>0, <2>5, <2>8
<1> QED BY <1>1, <1>2, <1>3

\* The streams' own steps leave the threads alone.
LEMMA StreamSteps ==
  ASSUME [Next]_vars
  PROVE  \/ \E h \in Handlers, req \in UpdateRequests : UpdateAffiliate(h, req)
         \/ \E h \in Handlers, id \in DeleteRequests : DeleteAffiliate(h, id)
         \/ Prune \/ PruneReadClock
         \/ \E t \in Threads : ThreadStep(t)
         \/ UNCHANGED threadVars
BY DEF Next, vars, SubscribeWithSnapshot, WatchStep, SendFails, SelectCtxDone, SelectErrors, SelectEvents,
   DeferClose, CtxGoroutine, Send, ClientCancel, CloseStep, Unregister, CloseChannels,
   ProlongAfterClose, Tick

\* At the start nothing has been committed and no stream has begun.
LEMMA FeedInit == Init => FeedInv
BY DEF Init, FeedInv, DistinctInv, OnceInv, BeginInv, Notifying

\* Commits bring events about different affiliates, and a fan-out takes them
\* up one by one.
LEMMA DistinctStep == TypeOK /\ CarriesEvent /\ QuietInv /\ DistinctInv /\ [Next]_vars => DistinctInv'
<1> SUFFICES ASSUME TypeOK, CarriesEvent, QuietInv, DistinctInv, [Next]_vars PROVE DistinctInv'
  OBVIOUS
<1>0. backlog \in [Threads -> SUBSET PendingEvent] /\ ev \in [Threads -> PendingEvent \cup {Nil}]
  BY DEF TypeOK, ThreadsTyped
<1>1. ASSUME NEW t \in Threads, NEW events \in SUBSET PendingEvent, Commits(t, events) PROVE DistinctInv'
  <2>1. ev[t] = Nil
    BY <1>1, QuietCommit DEF Commits
  <2>2. backlog'[t] = events /\ ev' = ev /\ \A u \in Threads \ {t} : backlog'[u] = backlog[u]
    BY <1>0, <1>1 DEF Commits
  <2> QED BY <1>1, <2>1, <2>2 DEF DistinctInv, Commits
<1>2. ASSUME UNCHANGED <<backlog, ev>> PROVE DistinctInv'
  BY <1>2 DEF DistinctInv
<1>3. ASSUME NEW t \in Threads, ThreadStep(t) PROVE DistinctInv'
  <2>1. ASSUME NEW e \in backlog[t], CopySubscribers(t, e) PROVE DistinctInv'
    <3>1. backlog' = [backlog EXCEPT ![t] = @ \ {e}] /\ ev' = [ev EXCEPT ![t] = e]
      BY <2>1 DEF CopySubscribers
    <3>2. /\ backlog'[t] = backlog[t] \ {e} /\ ev'[t] = e
          /\ \A u \in Threads \ {t} : backlog'[u] = backlog[u] /\ ev'[u] = ev[u]
      BY <1>0, <3>1
    <3> QED BY <3>2 DEF DistinctInv
  <2>2. CASE TrySend(t)
    <3>1. CASE Enqueue(t, cur[t])
      <4>1. pc[t] = "send" /\ backlog' = backlog /\ ev' = [ev EXCEPT ![t].owed = @ \ {cur[t]}]
        BY <2>2, <3>1 DEF TrySend, Enqueue
      <4>2. ev[t] \in PendingEvent /\ ev[t] # Nil
        BY <4>1, NilAssumption DEF CarriesEvent, Notifying
      <4>3. ev'[t].id = ev[t].id /\ \A u \in Threads \ {t} : ev'[u] = ev[u]
        BY <1>0, <4>1, <4>2 DEF PendingEvent
      <4> QED BY <4>1, <4>2, <4>3 DEF DistinctInv
    <3>2. CASE Panics(t) \/ BufferFull(t, cur[t])
      BY <1>2, <2>2, <3>2 DEF TrySend, Panics, BufferFull
    <3> QED BY <2>2, <3>1, <3>2 DEF TrySend
  <2>3. CASE FinishFanout(t)
    <3>1. backlog' = backlog /\ ev'[t] = Nil /\ \A u \in Threads \ {t} : ev'[u] = ev[u]
      BY <1>0, <2>3 DEF FinishFanout
    <3> QED BY <3>1 DEF DistinctInv
  <2>4. ASSUME NEW w \in Watches, LoadClosed(t, w) PROVE DistinctInv'
    BY <1>2, <2>4 DEF LoadClosed
  <2>5. CASE ProlongAfterDelete(t) \/ ReportLost(t) \/ Evict(t)
    BY <1>2, <2>5 DEF ProlongAfterDelete, ReportLost, Panics, Evict
  <2> QED BY <1>3, <2>1, <2>2, <2>3, <2>4, <2>5 DEF ThreadStep
<1>4. CASE PruneReadClock \/ UNCHANGED threadVars
  BY <1>2, <1>4 DEF PruneReadClock, threadVars
<1> QED BY <1>1, <1>3, <1>4, CommitIs, StreamSteps

\* A subscription leaves the copy before it is notified.
LEMMA OnceStep == TypeOK /\ QuietInv /\ OnceInv /\ [Next]_vars => OnceInv'
<1> SUFFICES ASSUME TypeOK, QuietInv, OnceInv, [Next]_vars PROVE OnceInv'
  OBVIOUS
<1>0. /\ DOMAIN pc = Threads /\ DOMAIN cur = Threads /\ DOMAIN targets = Threads
      /\ Cleanup \in Threads
  BY DEF TypeOK, ThreadsTyped, Threads
<1>1. ASSUME NEW t \in Threads, NEW events \in SUBSET PendingEvent, Commits(t, events) PROVE OnceInv'
  BY <1>1 DEF Commits, OnceInv, Notifying
<1>2. ASSUME NEW t \in Threads, ThreadStep(t) PROVE OnceInv'
  <2>1. ASSUME NEW e \in backlog[t], CopySubscribers(t, e) PROVE OnceInv'
    BY <1>0, <2>1 DEF CopySubscribers, OnceInv, Notifying
  <2>2. ASSUME NEW w \in Watches, LoadClosed(t, w) PROVE OnceInv'
    BY <1>0, <2>2 DEF LoadClosed, OnceInv, Notifying
  <2>3. CASE TrySend(t)
    BY <1>0, <2>3 DEF TrySend, Panics, Enqueue, BufferFull, OnceInv, Notifying
  <2>4. CASE ReportLost(t) \/ Evict(t)
    BY <1>0, <2>4 DEF ReportLost, Panics, Evict, OnceInv, Notifying
  <2>5. CASE ProlongAfterDelete(t)
    BY <1>0, <2>5 DEF ProlongAfterDelete, OnceInv, Notifying
  <2>6. CASE FinishFanout(t)
    BY <1>0, <2>6 DEF FinishFanout, Return, OnceInv, Notifying
  <2> QED BY <1>2, <2>1, <2>2, <2>3, <2>4, <2>5, <2>6 DEF ThreadStep
<1>3. CASE PruneReadClock
  BY <1>0, <1>3 DEF PruneReadClock, OnceInv, Notifying
<1>4. CASE UNCHANGED threadVars
  BY <1>4 DEF threadVars, OnceInv, Notifying
<1> QED BY <1>1, <1>2, <1>3, <1>4, CommitIs, StreamSteps

\* Close and cancel come from a stream's own goroutines, or from a thread that
\* found it among the subscribers.
LEMMA BeginStep == TypeOK /\ NewInv /\ BeginInv /\ [Next]_vars => BeginInv'
<1> SUFFICES ASSUME TypeOK, NewInv, BeginInv, [Next]_vars PROVE BeginInv'
  OBVIOUS
<1>0. DOMAIN wpc = Watches /\ DOMAIN stage = Watches /\ DOMAIN ctxDone = Watches
  BY DEF TypeOK, WatchesTyped, SubscriptionsTyped
<1>1. ASSUME NEW t \in Threads, Evict(t) PROVE BeginInv'
  <2>1. /\ UNCHANGED <<wpc, ctxDone>>
        /\ stage' = stage \/ stage' = [stage EXCEPT ![cur[t]] = "flagged"]
    BY <1>1 DEF Evict, watchVars
  <2>2. \A w \in Watches : wpc[w] = "idle" => w # cur[t]
    BY DEF NewInv
  <2> QED BY <1>0, <2>1, <2>2 DEF BeginInv
<1>2. ASSUME NEW w \in Watches, SubscribeWithSnapshot(w) PROVE BeginInv'
  BY <1>0, <1>2 DEF SubscribeWithSnapshot, subVars, BeginInv
<1>3. ASSUME NEW w \in Watches, SendFails(w) \/ SelectCtxDone(w) \/ SelectErrors(w) \/ SelectEvents(w) \/ Send(w)
      PROVE BeginInv'
  <2>1. /\ UNCHANGED <<stage, ctxDone>>
        /\ \A x \in Watches : wpc'[x] = "idle" => wpc[x] = "idle"
    BY <1>0, <1>3 DEF SendFails, SelectCtxDone, SelectErrors, SelectEvents, Send, Returns, subVars
  <2> QED BY <2>1 DEF BeginInv
<1>4. ASSUME NEW w \in Watches, DeferClose(w) \/ CtxGoroutine(w) \/ ClientCancel(w) PROVE BeginInv'
  BY <1>0, <1>4 DEF DeferClose, CtxGoroutine, ClientCancel, subVars, watchVars, BeginInv
<1>5. ASSUME NEW w \in Watches, CloseStep(w) PROVE BeginInv'
  BY <1>0, <1>5 DEF CloseStep, Unregister, CloseChannels, ProlongAfterClose, watchVars, BeginInv
<1>6. ASSUME UNCHANGED <<wpc, stage, ctxDone>> PROVE BeginInv'
  BY <1>6 DEF BeginInv
<1>7. ASSUME NEW t \in Threads, ThreadStep(t) PROVE BeginInv'
  BY <1>1, <1>6, <1>7 DEF ThreadStep, ProlongAfterDelete, CopySubscribers, LoadClosed, TrySend,
     ReportLost, FinishFanout, subVars, watchVars
<1> QED
  BY <1>2, <1>3, <1>4, <1>5, <1>6, <1>7 DEF Next, WatchStep, vars, UpdateAffiliate, DeleteAffiliate, PruneReadClock,
     Prune, Tick, subVars, watchVars

-----------------------------------------------------------------------------
\* A step of the feed, or none.
FeedStep == [Feed!Next]_(Feed!vars)

\* What is in flight and what a stream has still to get, spelled out.
LEMMA InflightIs ==
  /\ \A p : p \in feedInflight <=> \E t \in Threads : \E e \in Unsent(t) : p = <<t, Announced(e)>>
  /\ \A p : p \in feedInflight' <=> \E t \in Threads : \E e \in Unsent(t)' : p = <<t, Announced(e)>>
BY DEF feedInflight, Announced

\* The same for what each stream has still to get.
LEMMA PendingIs ==
  ASSUME NEW w \in Watches
  PROVE  /\ \A p : p \in feedPending[w] <=>
               \E t \in Threads : \E e \in Unsent(t) : Offered(t, e, w) /\ p = <<t, Announced(e)>>
         /\ \A p : p \in feedPending'[w] <=>
               \E t \in Threads : \E e \in Unsent(t)' : Offered(t, e, w)' /\ p = <<t, Announced(e)>>
BY DEF feedPending, Announced

\* Nothing about events or their readers changes.
LEMMA FeedSame ==
  ASSUME \A t \in Threads : Unsent(t)' = Unsent(t),
         \A t \in Threads : \A e \in Unsent(t) : \A w \in Watches : Offered(t, e, w)' <=> Offered(t, e, w)
  PROVE  feedInflight' = feedInflight /\ feedPending' = feedPending
<1>1. feedInflight' = feedInflight
  BY InflightIs
<1>2. ASSUME NEW w \in Watches PROVE feedPending'[w] = feedPending[w]
  BY PendingIs
<1>3. feedPending' = feedPending
  BY <1>2 DEF feedPending
<1> QED BY <1>1, <1>3

\* Streams neither begin nor end.
LEMMA StatusSame ==
  ASSUME \A w \in Watches : /\ wpc'[w] = "idle" <=> wpc[w] = "idle"
                            /\ stage'[w] = "open" <=> stage[w] = "open"
  PROVE  feedStatus' = feedStatus
BY DEF feedStatus

\* A fan-out that passes over a stream which has ended.
LEMMA ForgetIs ==
  ASSUME feedStatus' = feedStatus, feedFailed' = feedFailed, feedInflight' = feedInflight, ch' = ch,
         \A w \in Watches : /\ feedPending'[w] \subseteq feedPending[w]
                            /\ feedStatus[w] # "ended" => feedPending'[w] = feedPending[w]
  PROVE  FeedStep
<1>1. DOMAIN feedPending' = Watches
  BY DEF feedPending
<1>2. Feed!KeepsPending(feedPending)
  BY <1>1 DEF Feed!KeepsPending
<1>3. Feed!Forget
  BY <1>2 DEF Feed!Forget
<1> QED BY <1>3 DEF Feed!Next, FeedStep

\* A commit is the feed's: every stream that has begun and not ended is to get
\* the events, and none that has not begun.
LEMMA CommitIsFeed ==
  ASSUME TypeOK, FanoutInv, QuietInv, NewInv, NEW t \in Threads, NEW events \in SUBSET PendingEvent,
         Commits(t, events)
  PROVE  FeedStep
<1> DEFINE new == {<<t, Announced(e)>> : e \in events}
<1>0. backlog \in [Threads -> SUBSET PendingEvent]
  BY DEF TypeOK, ThreadsTyped
<1>1. backlog[t] = {} /\ ev[t] = Nil
  BY QuietCommit DEF Commits
<1>2. /\ backlog'[t] = events /\ ev' = ev /\ subscribers' = subscribers /\ targets' = targets
      /\ cur' = cur /\ \A u \in Threads \ {t} : backlog'[u] = backlog[u] /\ pc'[u] = pc[u]
      /\ pc[t] # "panicked" /\ pc'[t] # "panicked"
  BY <1>0 DEF Commits
<1>17. feedFailed' = feedFailed /\ t \notin feedFailed
  BY <1>2 DEF feedFailed
<1>3. Unsent(t) = {} /\ Unsent(t)' = events
  BY <1>1, <1>2, NilAssumption DEF Unsent
<1>4. \A u \in Threads \ {t} : /\ Unsent(u)' = Unsent(u)
                               /\ \A e, w : Offered(u, e, w)' <=> Offered(u, e, w)
  BY <1>2 DEF Unsent, Offered, Notifying
<1>5. \A e \in events, w \in Watches : Offered(t, e, w)' <=> w \in subscribers
  BY <1>2 DEF Offered
<1>6. feedStatus' = feedStatus /\ ch' = ch
  BY DEF Commits, subVars, watchVars, feedStatus
<1>7. feedInflight' = feedInflight \cup new /\ feedInflight \cap new = {}
  <2>1. \A p : p \in feedInflight' <=> p \in feedInflight \/ p \in new
    BY <1>3, <1>4, InflightIs
  <2>2. \A p \in feedInflight : p \notin new
    BY <1>3, InflightIs
  <2> QED BY <2>1, <2>2
<1>8. ASSUME NEW w \in Watches
      PROVE  feedPending'[w] = feedPending[w] \cup (IF w \in subscribers THEN new ELSE {})
  <2>1. \A p : p \in feedPending'[w] <=> p \in feedPending[w] \/ (w \in subscribers /\ p \in new)
    BY <1>3, <1>4, <1>5, PendingIs
  <2> QED BY <2>1
<1>9. ASSUME NEW w \in Watches, feedStatus[w] = "new" PROVE feedPending'[w] = {}
  <2>1. w \notin subscribers /\ \A u \in Threads : w \notin targets[u] /\ cur[u] # w
    BY <1>9 DEF feedStatus, NewInv
  <2>2. \A u \in Threads : \A e \in Unsent(u) : ~Offered(u, e, w)
    BY <2>1 DEF Offered
  <2>3. feedPending[w] = {}
    BY <2>2, PendingIs
  <2> QED BY <1>8, <2>1, <2>3
<1>10. ASSUME NEW w \in Watches, feedStatus[w] = "open" PROVE w \in subscribers
  BY <1>10 DEF feedStatus, FanoutInv, ListeningIsRegistered, Listening
<1>11. new \subseteq (Threads \ feedFailed) \X AffiliateEvent
  <2>1. \A e \in PendingEvent : Announced(e) \in AffiliateEvent
    BY DEF Announced, PendingEvent, AffiliateEvent
  <2> QED BY <1>17, <2>1
<1> DEFINE S == [w \in Watches |-> IF feedStatus[w] = "new" THEN {}
                                   ELSE feedPending[w] \cup (feedInflight' \ feedInflight)]
<1>12. feedInflight' \ feedInflight = new
  BY <1>7
<1> HIDE DEF new
<1>13. DOMAIN feedPending' = Watches
  BY DEF feedPending
<1>14. ASSUME NEW w \in Watches
       PROVE  IF feedStatus[w] = "ended" THEN feedPending'[w] \subseteq S[w] ELSE feedPending'[w] = S[w]
  <2>1. feedStatus[w] \in {"new", "open", "ended"}
    BY DEF feedStatus
  <2>2. CASE feedStatus[w] = "new"
    BY <1>9, <2>2
  <2>3. CASE feedStatus[w] = "open"
    BY <1>8, <1>10, <1>12, <2>3
  <2>4. CASE feedStatus[w] = "ended"
    BY <1>8, <1>12, <2>4
  <2> QED BY <2>1, <2>2, <2>3, <2>4
<1>15. Feed!KeepsPending(S)
  BY <1>13, <1>14 DEF Feed!KeepsPending
<1>16. Feed!Commit
  BY <1>6, <1>7, <1>11, <1>12, <1>15, <1>17 DEF Feed!Commit
<1> QED BY <1>16 DEF Feed!Next, FeedStep

\* A step of one thread concerns its own fan-out only.
LEMMA OtherThreads ==
  ASSUME NEW t \in Threads, subscribers' = subscribers,
         \A u \in Threads \ {t} : /\ pc'[u] = pc[u] /\ backlog'[u] = backlog[u] /\ ev'[u] = ev[u]
                                  /\ targets'[u] = targets[u] /\ cur'[u] = cur[u]
  PROVE  \A u \in Threads \ {t} : /\ Unsent(u)' = Unsent(u)
                                  /\ \A e, w : Offered(u, e, w)' <=> Offered(u, e, w)
BY DEF Unsent, Offered, Notifying

\* The event that a thread is fanning out is not in its backlog.
LEMMA CarriedIs ==
  ASSUME TypeOK, CarriesEvent, DistinctInv, NEW t \in Threads, pc[t] = "fanout" \/ Notifying(t)
  PROVE  /\ ev[t] \in PendingEvent /\ ev[t] # Nil /\ ev[t] \notin backlog[t]
         /\ ev[t] \in Unsent(t)
         /\ \A e \in Unsent(t) : e = ev[t] \/ (e \in backlog[t] /\ e.id # ev[t].id)
<1>1. ev[t] \in PendingEvent /\ ev[t] # Nil /\ pc[t] # "panicked"
  BY NilAssumption DEF CarriesEvent, BetweenStreams, Notifying
<1>2. \A e \in backlog[t] : e.id # ev[t].id
  BY <1>1 DEF DistinctInv
<1> QED BY <1>1, <1>2 DEF Unsent

\* The copy of the subscribers is who was to be offered the event before.
LEMMA CopyIsFeed ==
  ASSUME TypeOK, QuietInv, NEW t \in Threads, NEW e \in backlog[t], CopySubscribers(t, e)
  PROVE  FeedStep
<1>1. /\ backlog' = [backlog EXCEPT ![t] = @ \ {e}] /\ ev' = [ev EXCEPT ![t] = e]
      /\ targets' = [targets EXCEPT ![t] = subscribers] /\ pc' = [pc EXCEPT ![t] = "fanout"]
      /\ pc[t] = "copy" /\ UNCHANGED <<subscribers, cur, ch, stage, wpc>>
  BY DEF CopySubscribers, subVars, watchVars
<1>2. ev[t] = Nil
  BY <1>1 DEF QuietInv
<1>3. e \in PendingEvent /\ e # Nil
  BY NilAssumption DEF TypeOK, ThreadsTyped
<1>4. /\ backlog'[t] = backlog[t] \ {e} /\ ev'[t] = e /\ targets'[t] = subscribers /\ pc'[t] = "fanout"
      /\ \A u \in Threads \ {t} : /\ pc'[u] = pc[u] /\ backlog'[u] = backlog[u] /\ ev'[u] = ev[u]
                                  /\ targets'[u] = targets[u] /\ cur'[u] = cur[u]
  BY <1>1 DEF TypeOK, ThreadsTyped
<1>5. Unsent(t)' = Unsent(t) /\ Unsent(t) = backlog[t]
  <2>1. Nil \notin backlog[t]
    BY NilAssumption DEF TypeOK, ThreadsTyped
  <2> QED BY <1>1, <1>2, <1>3, <1>4, <2>1 DEF Unsent
<1>6. \A f \in backlog[t] : \A w \in Watches : Offered(t, f, w)' <=> Offered(t, f, w)
  BY <1>1, <1>4 DEF Offered, Notifying
<1>7. feedInflight' = feedInflight /\ feedPending' = feedPending
  BY <1>1, <1>4, <1>5, <1>6, OtherThreads, FeedSame
<1>8. feedStatus' = feedStatus /\ feedFailed' = feedFailed
  BY <1>1, StatusSame, FailedSame
<1> QED BY <1>1, <1>7, <1>8 DEF FeedStep, Feed!vars

\* A thread turns to the next subscription, or passes over one that is closed.
LEMMA LoadIsFeed ==
  ASSUME TypeOK, CarriesEvent, NewInv, DistinctInv, NEW t \in Threads, NEW c \in Watches, LoadClosed(t, c)
  PROVE  FeedStep
<1>1. /\ pc[t] = "fanout" /\ c \in targets[t] /\ targets' = [targets EXCEPT ![t] = @ \ {c}]
      /\ UNCHANGED <<subscribers, backlog, ev, ch, stage, wpc>>
  BY DEF LoadClosed, subVars, watchVars
<1>2. feedStatus' = feedStatus
  BY <1>1, StatusSame
<1>3. /\ targets'[t] = targets[t] \ {c} /\ \A u \in Threads \ {t} : targets'[u] = targets[u]
  BY <1>1 DEF TypeOK, ThreadsTyped
<1>7. feedFailed' = feedFailed
  <2>1. pc' = pc \/ pc' = [pc EXCEPT ![t] = "send"]
    BY DEF LoadClosed
  <2> QED BY <1>1, <2>1, FailedSame DEF feedFailed
<1>4. \A u \in Threads : Unsent(u)' = Unsent(u)
  BY <1>1, <1>7, UnsentSame
<1>5. CASE stage[c] = "open"
  <2>1. cur' = [cur EXCEPT ![t] = c] /\ pc' = [pc EXCEPT ![t] = "send"]
    BY <1>5 DEF LoadClosed
  <2>2. /\ cur'[t] = c /\ pc'[t] = "send"
        /\ \A u \in Threads \ {t} : pc'[u] = pc[u] /\ cur'[u] = cur[u]
    BY <2>1 DEF TypeOK, ThreadsTyped
  <2>3. \A f \in Unsent(t) : \A w \in Watches : Offered(t, f, w)' <=> Offered(t, f, w)
    BY <1>1, <1>3, <2>2 DEF Offered, Notifying
  <2>4. \A u \in Threads \ {t} : \A e, w : Offered(u, e, w)' <=> Offered(u, e, w)
    BY <1>1, <1>3, <2>2, OtherThreads
  <2>5. feedInflight' = feedInflight /\ feedPending' = feedPending
    BY <1>4, <2>3, <2>4, FeedSame
  <2> QED BY <1>1, <1>2, <1>7, <2>5 DEF FeedStep, Feed!vars
<1>6. CASE stage[c] # "open"
  <2>1. UNCHANGED <<cur, pc>>
    BY <1>6 DEF LoadClosed
  <2>2. \A u \in Threads \ {t} : \A e, w : Offered(u, e, w)' <=> Offered(u, e, w)
    BY <1>1, <1>3, <2>1, OtherThreads
  <2>3. \A f, w : Offered(t, f, w)' => Offered(t, f, w)
    BY <1>1, <1>3, <2>1 DEF Offered, Notifying
  <2>4. \A f, w : w # c /\ Offered(t, f, w) => Offered(t, f, w)'
    BY <1>1, <1>3, <2>1 DEF Offered, Notifying
  <2>5. feedInflight' = feedInflight
    BY <1>4, InflightIs
  <2>6. ASSUME NEW w \in Watches
        PROVE  feedPending'[w] \subseteq feedPending[w] /\ (w # c => feedPending'[w] = feedPending[w])
    <3>1. \A p \in feedPending'[w] : p \in feedPending[w]
      BY <1>4, <2>2, <2>3, PendingIs
    <3>2. w # c => \A p \in feedPending[w] : p \in feedPending'[w]
      BY <1>4, <2>2, <2>4, PendingIs
    <3> QED BY <3>1, <3>2
  <2>7. wpc[c] # "idle"
    BY <1>1 DEF NewInv
  <2>8. feedStatus[c] = "ended"
    BY <1>6, <2>7 DEF feedStatus
  <2> QED BY <1>1, <1>2, <1>7, <2>5, <2>6, <2>8, ForgetIs
<1> QED BY <1>5, <1>6

\* A send that succeeds is the feed's delivery: the event was pending for the
\* stream, and is so no longer.
LEMMA EnqueueIsFeed ==
  ASSUME TypeOK, CarriesEvent, DistinctInv, OnceInv, NEW t \in Threads, pc[t] = "send",
         Enqueue(t, cur[t]), UNCHANGED <<subscribers, backlog, targets, stage, wpc>>
  PROVE  FeedStep
<1> DEFINE c == cur[t]
           p == <<t, Announced(ev[t])>>
<1>0. Notifying(t) /\ c \in Watches /\ c \notin targets[t]
  BY DEF Notifying, CarriesEvent, OnceInv
<1>1. /\ ev[t] \in PendingEvent /\ ev[t] # Nil /\ ev[t] \notin backlog[t] /\ ev[t] \in Unsent(t)
      /\ \A e \in Unsent(t) : e = ev[t] \/ (e \in backlog[t] /\ e.id # ev[t].id)
  BY <1>0, CarriedIs
<1>2. /\ ch' = [ch EXCEPT ![c] = Append(@, Announced(ev[t]))] /\ pc'[t] = "fanout" /\ cur'[t] = Nil
      /\ ev'[t] = [ev[t] EXCEPT !.owed = @ \ {c}]
      /\ \A u \in Threads \ {t} : pc'[u] = pc[u] /\ cur'[u] = cur[u] /\ ev'[u] = ev[u]
  BY <1>1 DEF Enqueue, TypeOK, ThreadsTyped
<1>3. /\ ev'[t] \in PendingEvent /\ ev'[t] # Nil /\ ev'[t].id = ev[t].id
      /\ Announced(ev'[t]) = Announced(ev[t])
  <2>1. ev'[t] \in PendingEvent /\ ev'[t].id = ev[t].id /\ Announced(ev'[t]) = Announced(ev[t])
    BY <1>1, <1>2 DEF PendingEvent, Announced
  <2> QED BY <2>1, NilAssumption
<1>4. \A e \in backlog[t] : e.id # ev[t].id
  BY <1>1 DEF DistinctInv
<1>sent. PICK g : g = ev'[t]
  OBVIOUS
<1>17. Nil \notin backlog[t]
  BY NilAssumption DEF TypeOK, ThreadsTyped
<1>5. /\ g \notin backlog[t] /\ Unsent(t)' = backlog[t] \cup {g}
      /\ Unsent(t) = backlog[t] \cup {ev[t]} /\ Announced(g) = Announced(ev[t])
  BY <1>1, <1>2, <1>3, <1>4, <1>17, <1>sent DEF Unsent
<1>6. \A u \in Threads \ {t} : /\ Unsent(u)' = Unsent(u)
                               /\ \A e, w : Offered(u, e, w)' <=> Offered(u, e, w)
  BY <1>2, OtherThreads
<1>7. \A e \in backlog[t] : \A w \in Watches : Offered(t, e, w)' <=> Offered(t, e, w)
  BY DEF Offered
<1>8. \A w \in Watches : /\ Offered(t, ev[t], w) <=> w \in targets[t] \/ w = c
                         /\ Offered(t, g, w)' <=> w \in targets[t]
  BY <1>0, <1>1, <1>2, <1>5 DEF Offered, Notifying
<1>9. \A e \in backlog[t] : Announced(e) # Announced(ev[t])
  BY <1>4 DEF Announced
<1> HIDE DEF c, p
<1>10. feedInflight' = feedInflight
  <2>1. \A q : q \in feedInflight' <=> q \in feedInflight
    BY <1>5, <1>6, InflightIs
  <2> QED BY <2>1
<1>11. p \in feedPending[c]
  BY <1>0, <1>1, <1>8, PendingIs DEF p
<1>12. ASSUME NEW w \in Watches PROVE feedPending'[w] = IF w = c THEN feedPending[w] \ {p} ELSE feedPending[w]
  <2>1. ASSUME NEW q \in feedPending'[w] PROVE q \in feedPending[w] /\ (w = c => q # p)
    <3>0. PICK u \in Threads : \E e \in Unsent(u)' : Offered(u, e, w)' /\ q = <<u, Announced(e)>>
      BY PendingIs
    <3>1. CASE u # t
      BY <1>6, <3>0, <3>1, PendingIs DEF p
    <3>2. CASE u = t
      <4>1. PICK e \in Unsent(t)' : Offered(t, e, w)' /\ q = <<t, Announced(e)>>
        BY <3>0, <3>2
      <4>2. CASE e \in backlog[t]
        <5>1. e \in Unsent(t) /\ Offered(t, e, w)
          BY <1>5, <1>7, <4>1, <4>2
        <5>2. q # p
          BY <1>9, <4>1, <4>2 DEF p
        <5> QED BY <4>1, <5>1, <5>2, PendingIs
      <4>3. CASE e = g
        <5>1. w \in targets[t] /\ Offered(t, ev[t], w)
          BY <1>8, <4>1, <4>3
        <5>2. q = <<t, Announced(ev[t])>> /\ w # c
          BY <1>0, <1>5, <4>1, <4>3, <5>1
        <5> QED BY <1>1, <5>1, <5>2, PendingIs
      <4> QED BY <1>5, <4>1, <4>2, <4>3
    <3> QED BY <3>1, <3>2
  <2>2. ASSUME NEW q \in feedPending[w], w = c => q # p PROVE q \in feedPending'[w]
    <3>0. PICK u \in Threads : \E e \in Unsent(u) : Offered(u, e, w) /\ q = <<u, Announced(e)>>
      BY PendingIs
    <3>1. CASE u # t
      BY <1>6, <3>0, <3>1, PendingIs
    <3>2. CASE u = t
      <4>1. PICK e \in Unsent(t) : Offered(t, e, w) /\ q = <<t, Announced(e)>>
        BY <3>0, <3>2
      <4>2. CASE e \in backlog[t]
        <5>1. e \in Unsent(t)' /\ Offered(t, e, w)'
          BY <1>5, <1>7, <4>1, <4>2
        <5> QED BY <4>1, <5>1, PendingIs
      <4>3. CASE e = ev[t]
        <5>1. w # c
          BY <2>2, <4>1, <4>3 DEF p
        <5>2. Offered(t, g, w)' /\ g \in Unsent(t)' /\ q = <<t, Announced(g)>>
          BY <1>5, <1>8, <4>1, <4>3, <5>1
        <5> QED BY <5>2, PendingIs
      <4> QED BY <1>5, <4>1, <4>2, <4>3
    <3> QED BY <3>1, <3>2
  <2> QED BY <2>1, <2>2
<1>13. feedPending' = [feedPending EXCEPT ![c] = @ \ {p}]
  BY <1>0, <1>12 DEF feedPending
<1>14. feedStatus' = feedStatus /\ feedFailed' = feedFailed
  BY StatusSame, FailedSame DEF Enqueue
<1>15. ch' = [ch EXCEPT ![c] = Append(@, p[2])]
  BY <1>2 DEF p, c
<1>16. Feed!Deliver(c)
  BY <1>10, <1>11, <1>13, <1>14, <1>15 DEF Feed!Deliver
<1> QED BY <1>0, <1>16 DEF FeedStep, Feed!Next

\* A thread is done with a stream that has ended.
LEMMA PassOverIsFeed ==
  ASSUME TypeOK, CarriesEvent, NewInv, NEW t \in Threads, Notifying(t), stage[cur[t]] # "open",
         ~Notifying(t)', feedFailed' = feedFailed, \A u \in Threads \ {t} : pc'[u] = pc[u] /\ cur'[u] = cur[u],
         UNCHANGED <<subscribers, backlog, ev, targets, ch, stage, wpc>>
  PROVE  FeedStep
<1> DEFINE c == cur[t]
<1>1. c \in Watches /\ wpc[c] # "idle"
  BY DEF CarriesEvent, NewInv
<1>2. feedStatus[c] = "ended"
  BY <1>1 DEF feedStatus
<1>3. feedStatus' = feedStatus
  BY StatusSame
<1>4. \A u \in Threads : Unsent(u)' = Unsent(u)
  BY UnsentSame
<1>5. \A u \in Threads \ {t} : \A e, w : Offered(u, e, w)' <=> Offered(u, e, w)
  BY DEF Offered, Notifying
<1>6. \A e, w : /\ Offered(t, e, w)' => Offered(t, e, w)
                /\ w # c /\ Offered(t, e, w) => Offered(t, e, w)'
  BY DEF Offered
<1> HIDE DEF c
<1>7. feedInflight' = feedInflight
  <2>1. \A p : p \in feedInflight' <=> p \in feedInflight
    BY <1>4, InflightIs
  <2> QED BY <2>1
<1>8. ASSUME NEW w \in Watches
      PROVE  feedPending'[w] \subseteq feedPending[w] /\ (w # c => feedPending'[w] = feedPending[w])
  <2>1. \A p \in feedPending'[w] : p \in feedPending[w]
    BY <1>4, <1>5, <1>6, PendingIs
  <2>2. w # c => \A p \in feedPending[w] : p \in feedPending'[w]
    BY <1>4, <1>5, <1>6, PendingIs
  <2> QED BY <2>1, <2>2
<1> QED BY <1>2, <1>3, <1>7, <1>8, ForgetIs

\* A panic on the channel of a stream that has ended is the feed's failure of
\* its sender: nobody is to get anything from it any more.
LEMMA PanicIsFeed ==
  ASSUME TypeOK, CarriesEvent, NewInv, DistinctInv, NEW t \in Threads, Panics(t), Notifying(t),
         stage[cur[t]] # "open", UNCHANGED <<subscribers, backlog, targets, stage, wpc>>
  PROVE  FeedStep
<1> DEFINE c == cur[t]
           p == <<t, Announced(ev[t])>>
<1>1. /\ pc'[t] = "panicked" /\ pc[t] # "panicked" /\ UNCHANGED <<ev, cur, ch>>
      /\ \A u \in Threads \ {t} : pc'[u] = pc[u]
  BY DEF Panics, Notifying, TypeOK, ThreadsTyped
<1>2. t \notin feedFailed /\ feedFailed' = feedFailed \cup {t}
  BY <1>1 DEF feedFailed
<1>3. feedStatus' = feedStatus
  BY StatusSame
<1>4. c \in Watches /\ feedStatus[c] = "ended"
  BY DEF CarriesEvent, NewInv, feedStatus
<1>5. p \in feedPending[c]
  <2>1. ev[t] \in Unsent(t) /\ ev[t] \notin backlog[t]
    BY CarriedIs
  <2>2. Offered(t, ev[t], c)
    BY <2>1 DEF Offered
  <2> QED BY <1>4, <2>1, <2>2, PendingIs
<1>6. p[1] = t
  OBVIOUS
<1>7. Unsent(t)' = {}
  BY <1>1 DEF Unsent
<1>8. \A u \in Threads \ {t} : /\ Unsent(u)' = Unsent(u)
                               /\ \A e, w : Offered(u, e, w)' <=> Offered(u, e, w)
  BY <1>1, OtherThreads
<1> HIDE DEF c, p
<1>9. feedInflight' = Feed!FromOthers(feedInflight, t)
  <2>1. \A q : q \in feedInflight' <=> q \in feedInflight /\ q[1] # t
    BY <1>7, <1>8, InflightIs
  <2> QED BY <2>1 DEF Feed!FromOthers
<1>10. ASSUME NEW w \in Watches PROVE feedPending'[w] = Feed!FromOthers(feedPending[w], t)
  <2>1. \A q : q \in feedPending'[w] <=> q \in feedPending[w] /\ q[1] # t
    BY <1>7, <1>8, PendingIs
  <2> QED BY <2>1 DEF Feed!FromOthers
<1>11. feedPending' = [w \in Watches |-> Feed!FromOthers(feedPending[w], t)]
  <2>1. feedPending' = [w \in Watches |-> feedPending'[w]]
    BY DEF feedPending
  <2> QED BY <1>10, <2>1
<1>12. Feed!Fail(t)
  BY <1>1, <1>2, <1>3, <1>4, <1>5, <1>6, <1>9, <1>11 DEF Feed!Fail
<1> QED BY <1>12 DEF Feed!Next, FeedStep

\* When the copy is used up nobody is waiting for the event any more.
LEMMA FinishIsFeed ==
  ASSUME TypeOK, CarriesEvent, DistinctInv, NEW t \in Threads, FinishFanout(t)
  PROVE  FeedStep
<1>1. /\ pc[t] = "fanout" /\ targets[t] = {} /\ ev' = [ev EXCEPT ![t] = Nil]
      /\ pc' = [pc EXCEPT ![t] = "copy"] \/ pc' = [pc EXCEPT ![t] = "idle"] \/ pc' = [pc EXCEPT ![t] = "done"]
      /\ UNCHANGED <<subscribers, backlog, targets, cur, ch, stage, wpc>>
  BY DEF FinishFanout, Return, subVars, watchVars
<1>2. /\ ev'[t] = Nil /\ pc'[t] \in {"copy", "idle", "done"}
      /\ \A u \in Threads \ {t} : pc'[u] = pc[u] /\ ev'[u] = ev[u]
  BY <1>1 DEF TypeOK, ThreadsTyped
<1>3. /\ ev[t] # Nil /\ ev[t] \notin backlog[t]
      /\ \A e \in Unsent(t) : e = ev[t] \/ e \in backlog[t]
  BY <1>1, CarriedIs
<1>4. Unsent(t)' = backlog[t] /\ Unsent(t) = backlog[t] \cup {ev[t]}
  <2>1. Nil \notin backlog[t]
    BY NilAssumption DEF TypeOK, ThreadsTyped
  <2> QED BY <1>1, <1>2, <1>3, <2>1 DEF Unsent
<1>5. \A w : ~Offered(t, ev[t], w)
  BY <1>1, <1>3 DEF Offered, Notifying
<1>6. \A e \in backlog[t] : \A w : Offered(t, e, w)' <=> Offered(t, e, w)
  BY <1>1 DEF Offered
<1>7. \A u \in Threads \ {t} : /\ Unsent(u)' = Unsent(u)
                               /\ \A e, w : Offered(u, e, w)' <=> Offered(u, e, w)
  BY <1>1, <1>2, OtherThreads
<1>8. feedInflight' \subseteq feedInflight
  <2>1. \A p \in feedInflight' : p \in feedInflight
    BY <1>4, <1>7, InflightIs
  <2> QED BY <2>1
<1>9. ASSUME NEW w \in Watches PROVE feedPending'[w] = feedPending[w] /\ feedPending[w] \subseteq feedInflight'
  <2>1. \A p \in feedPending'[w] : p \in feedPending[w]
    BY <1>4, <1>6, <1>7, PendingIs
  <2>2. \A p \in feedPending[w] : p \in feedPending'[w]
    BY <1>4, <1>5, <1>6, <1>7, PendingIs
  <2>3. \A p \in feedPending'[w] : p \in feedInflight'
    BY InflightIs, PendingIs
  <2> QED BY <2>1, <2>2, <2>3
<1>10. feedPending' = feedPending
  BY <1>9 DEF feedPending
<1>11. feedStatus' = feedStatus /\ feedFailed' = feedFailed
  BY <1>1, StatusSame, FailedSame
<1>12. Feed!Finish
  BY <1>1, <1>8, <1>9, <1>10, <1>11 DEF Feed!Finish
<1> QED BY <1>12 DEF Feed!Next, FeedStep

\* Steps that concern neither a fan-out nor who is subscribed.
LEMMA AsideFromFeed ==
  ASSUME UNCHANGED <<subscribers, backlog, ev, targets, cur>>, feedFailed' = feedFailed,
         \A t \in Threads : Notifying(t)' <=> Notifying(t)
  PROVE  feedInflight' = feedInflight /\ feedPending' = feedPending
<1>1. \A t \in Threads : Unsent(t)' = Unsent(t)
  BY UnsentSame
<1>2. \A t \in Threads : \A e, w : Offered(t, e, w)' <=> Offered(t, e, w)
  BY DEF Offered
<1> QED BY <1>1, <1>2, FeedSame

\* closed.Store(true), by whichever goroutine got there first, ends the stream.
LEMMA EndIsFeed ==
  ASSUME TypeOK, NEW w \in Watches, wpc[w] # "idle", stage[w] = "open",
         stage' = [stage EXCEPT ![w] = "flagged"],
         UNCHANGED <<subscribers, threadVars, ch, wpc>>
  PROVE  FeedStep
<1>5. feedFailed' = feedFailed
  BY DEF threadVars, feedFailed
<1>1. feedInflight' = feedInflight /\ feedPending' = feedPending
  BY <1>5, AsideFromFeed DEF threadVars, Notifying
<1>2. stage'[w] = "flagged" /\ \A x \in Watches \ {w} : stage'[x] = stage[x]
  BY DEF TypeOK, SubscriptionsTyped
<1>3. feedStatus[w] = "open" /\ feedStatus' = [feedStatus EXCEPT ![w] = "ended"]
  BY <1>2 DEF feedStatus
<1>4. Feed!End(w)
  BY <1>1, <1>3, <1>5 DEF Feed!End
<1> QED BY <1>4 DEF Feed!Next, FeedStep

\* Registration joins the feed, with some of what is in flight to come.
LEMMA JoinIsFeed ==
  ASSUME TypeOK, BeginInv, NEW c \in Watches, SubscribeWithSnapshot(c)
  PROVE  FeedStep
<1>1. /\ wpc[c] = "idle" /\ subscribers' = subscribers \cup {c} /\ UNCHANGED <<threadVars, ch, stage>>
      /\ wpc' = [wpc EXCEPT ![c] = "send"] \/ wpc' = [wpc EXCEPT ![c] = "select"]
  BY DEF SubscribeWithSnapshot, subVars
<1>2. wpc'[c] \in {"send", "select"} /\ \A x \in Watches \ {c} : wpc'[x] = wpc[x]
  BY <1>1 DEF TypeOK, WatchesTyped
<1>3. stage[c] = "open"
  BY <1>1 DEF BeginInv
<1>4. feedStatus[c] = "new" /\ feedStatus' = [feedStatus EXCEPT ![c] = "open"]
  BY <1>1, <1>2, <1>3 DEF feedStatus
<1>5. \A t \in Threads : Unsent(t)' = Unsent(t)
  BY <1>1 DEF threadVars, Unsent
<1>6. \A t \in Threads : \A e, w : w # c => (Offered(t, e, w)' <=> Offered(t, e, w))
  BY <1>1 DEF threadVars, Offered, Notifying
<1>7. feedInflight' = feedInflight
  BY <1>5, InflightIs
<1>8. ASSUME NEW w \in Watches, w # c PROVE feedPending'[w] = feedPending[w]
  <2>1. \A p : p \in feedPending'[w] <=> p \in feedPending[w]
    BY <1>5, <1>6, <1>8, PendingIs
  <2> QED BY <2>1
<1>9. feedPending'[c] \in SUBSET feedInflight
  <2>1. \A p \in feedPending'[c] : p \in feedInflight
    BY <1>5, PendingIs, InflightIs
  <2> QED BY <2>1
<1>10. feedPending' = [feedPending EXCEPT ![c] = feedPending'[c]]
  <2>1. /\ feedPending = [w \in Watches |-> feedPending[w]]
        /\ feedPending' = [w \in Watches |-> feedPending'[w]]
    BY DEF feedPending
  <2> QED BY <1>8, <2>1
<1>12. feedFailed' = feedFailed
  BY <1>1 DEF threadVars, feedFailed
<1>11. Feed!Join(c)
  BY <1>1, <1>4, <1>7, <1>9, <1>10, <1>12 DEF Feed!Join
<1> QED BY <1>11 DEF Feed!Next, FeedStep

\* closeFn takes a stream that has ended off the subscribers.
LEMMA UnregisterIsFeed ==
  ASSUME TypeOK, BeginInv, NEW c \in Watches, Unregister(c)
  PROVE  FeedStep
<1>1. /\ stage[c] = "flagged" /\ subscribers' = subscribers \ {c} /\ stage' = [stage EXCEPT ![c] = "removed"]
      /\ UNCHANGED <<threadVars, ch, wpc>>
  BY DEF Unregister, watchVars
<1>2. stage'[c] = "removed" /\ \A x \in Watches \ {c} : stage'[x] = stage[x]
  BY <1>1 DEF TypeOK, SubscriptionsTyped
<1>3. feedStatus' = feedStatus
  BY <1>1, <1>2, StatusSame
<1>4. feedStatus[c] = "ended"
  BY <1>1 DEF feedStatus, BeginInv
<1>5. \A t \in Threads : Unsent(t)' = Unsent(t)
  BY <1>1 DEF threadVars, Unsent
<1>6. \A t \in Threads : \A e, w : /\ w # c => (Offered(t, e, w)' <=> Offered(t, e, w))
                                   /\ Offered(t, e, w)' => Offered(t, e, w)
  BY <1>1 DEF threadVars, Offered, Notifying
<1>7. feedInflight' = feedInflight
  BY <1>5, InflightIs
<1>8. ASSUME NEW w \in Watches
      PROVE  feedPending'[w] \subseteq feedPending[w] /\ (w # c => feedPending'[w] = feedPending[w])
  <2>1. \A p \in feedPending'[w] : p \in feedPending[w]
    BY <1>5, <1>6, PendingIs
  <2>2. w # c => \A p \in feedPending[w] : p \in feedPending'[w]
    BY <1>5, <1>6, PendingIs
  <2> QED BY <2>1, <2>2
<1>9. feedFailed' = feedFailed
  BY <1>1 DEF threadVars, feedFailed
<1> QED BY <1>1, <1>3, <1>4, <1>7, <1>8, <1>9, ForgetIs

\* Every step of a thread is one of the feed's, or none of its business.
LEMMA ThreadIsFeed ==
  ASSUME TypeOK, FanoutInv, ViewInv, FeedInv, NEW t \in Threads, ThreadStep(t)
  PROVE  FeedStep
<1> USE DEF FanoutInv, ViewInv, FeedInv
<1>0. DOMAIN pc = Threads /\ DOMAIN cur = Threads
  BY DEF TypeOK, ThreadsTyped
<1>1. CASE ProlongAfterDelete(t)
  <2>1. /\ UNCHANGED <<subscribers, backlog, ev, targets, cur, ch, stage, wpc>>
        /\ pc[t] = "prolong" /\ pc' = [pc EXCEPT ![t] = "copy"]
    BY <1>1 DEF ProlongAfterDelete, subVars, watchVars
  <2>2. \A u \in Threads : Notifying(u)' <=> Notifying(u)
    BY <1>0, <2>1 DEF Notifying
  <2>3. feedStatus' = feedStatus /\ feedFailed' = feedFailed
    BY <2>1, StatusSame, FailedSame
  <2> QED BY <2>1, <2>2, <2>3, AsideFromFeed DEF FeedStep, Feed!vars
<1>2. ASSUME NEW e \in backlog[t], CopySubscribers(t, e) PROVE FeedStep
  BY <1>2, CopyIsFeed
<1>3. ASSUME NEW w \in Watches, LoadClosed(t, w) PROVE FeedStep
  BY <1>3, LoadIsFeed
<1>5. ASSUME UNCHANGED <<subscribers, backlog, ev, targets, cur, ch, stage, wpc>>,
             pc[t] \in {"send", "lost"}, pc' = [pc EXCEPT ![t] = "lost"] \/ pc' = [pc EXCEPT ![t] = "evict"]
      PROVE  FeedStep
  <2>1. \A u \in Threads : Notifying(u)' <=> Notifying(u)
    BY <1>0, <1>5 DEF Notifying
  <2>2. feedStatus' = feedStatus /\ feedFailed' = feedFailed
    BY <1>5, StatusSame, FailedSame
  <2> QED BY <1>5, <2>1, <2>2, AsideFromFeed DEF FeedStep, Feed!vars
<1>6. CASE TrySend(t)
  <2>1. pc[t] = "send" /\ UNCHANGED <<subscribers, backlog, targets, stage, wpc>>
    BY <1>6 DEF TrySend, watchVars
  <2>2. CASE ChClosed(cur[t]) /\ Panics(t)
    BY <2>1, <2>2, PanicIsFeed DEF ChClosed, Notifying
  <2>3. CASE Enqueue(t, cur[t])
    BY <2>1, <2>3, EnqueueIsFeed
  <2>4. CASE BufferFull(t, cur[t])
    BY <1>5, <2>1, <2>4 DEF BufferFull
  <2> QED BY <1>6, <2>2, <2>3, <2>4 DEF TrySend
<1>7. CASE ReportLost(t)
  <2>1. pc[t] = "lost" /\ UNCHANGED <<subscribers, backlog, targets, stage, wpc>>
    BY <1>7 DEF ReportLost, watchVars
  <2>2. CASE ErrClosed(cur[t]) /\ Panics(t)
    BY <2>1, <2>2, PanicIsFeed DEF ErrClosed, Notifying
  <2>3. CASE pc' = [pc EXCEPT ![t] = "evict"] /\ UNCHANGED <<ev, cur, ch>>
    BY <1>5, <2>1, <2>3
  <2> QED BY <1>7, <2>2, <2>3 DEF ReportLost
<1>8. CASE Evict(t)
  <2>1. /\ pc[t] = "evict" /\ Notifying(t)
        /\ UNCHANGED <<subscribers, pruneNow, backlog, ev, targets, result, ch, wpc>>
    BY <1>8 DEF Evict, watchVars, Notifying
  <2>2. cur[t] \in Watches /\ wpc[cur[t]] # "idle"
    BY <2>1 DEF CarriesEvent, NewInv
  <2>3. CASE stage[cur[t]] = "open"
    <3>1. stage' = [stage EXCEPT ![cur[t]] = "flagged"] /\ UNCHANGED <<pc, cur>>
      BY <1>8, <2>3 DEF Evict
    <3> QED BY <2>1, <2>2, <2>3, <3>1, EndIsFeed DEF threadVars
  <2>4. CASE stage[cur[t]] # "open"
    <3>1. /\ pc' = [pc EXCEPT ![t] = "fanout"] /\ cur' = [cur EXCEPT ![t] = Nil] /\ UNCHANGED stage
      BY <1>8, <2>4 DEF Evict
    <3>2. /\ ~Notifying(t)' /\ \A u \in Threads \ {t} : pc'[u] = pc[u] /\ cur'[u] = cur[u]
      BY <1>0, <3>1 DEF Notifying
    <3>3. feedFailed' = feedFailed
      BY <2>1, <3>1, FailedSame
    <3> QED BY <2>1, <2>4, <3>1, <3>2, <3>3, PassOverIsFeed
  <2> QED BY <2>3, <2>4
<1>9. CASE FinishFanout(t)
  BY <1>9, FinishIsFeed
<1> QED BY <1>1, <1>2, <1>3, <1>6, <1>7, <1>8, <1>9 DEF ThreadStep

\* So is every step of a stream's goroutines.
LEMMA StreamIsFeed ==
  ASSUME TypeOK, BeginInv, NEW w \in Watches,
         WatchStep(w) \/ Send(w) \/ ClientCancel(w) \/ CloseStep(w)
  PROVE  FeedStep
<1>0. DOMAIN wpc = Watches /\ DOMAIN stage = Watches
  BY DEF TypeOK, WatchesTyped, SubscriptionsTyped
<1>1. UNCHANGED threadVars
  BY DEF WatchStep, SendFails, SelectCtxDone, SelectErrors, SelectEvents, DeferClose, CtxGoroutine, Send,
     ClientCancel, CloseStep, Unregister, CloseChannels, ProlongAfterClose
<1>11. feedFailed' = feedFailed
  BY <1>1 DEF threadVars, feedFailed
<1>2. ASSUME UNCHANGED subscribers PROVE feedInflight' = feedInflight /\ feedPending' = feedPending
  BY <1>1, <1>2, <1>11, AsideFromFeed DEF threadVars, Notifying
<1>3. ASSUME UNCHANGED <<subscribers, ch>>,
             \A x \in Watches : /\ wpc'[x] = "idle" <=> wpc[x] = "idle"
                                /\ stage'[x] = "open" <=> stage[x] = "open"
      PROVE  FeedStep
  BY <1>2, <1>3, <1>11, StatusSame DEF FeedStep, Feed!vars
<1>4. ASSUME stage[w] = "open", wpc[w] # "idle", stage' = [stage EXCEPT ![w] = "flagged"],
             UNCHANGED <<subscribers, ch, wpc>>
      PROVE  FeedStep
  BY <1>1, <1>4, EndIsFeed
<1>5. CASE SendFails(w) \/ SelectCtxDone(w) \/ SelectErrors(w) \/ Send(w) \/ ClientCancel(w)
  <2>1. /\ UNCHANGED <<subscribers, ch, stage>>
        /\ \/ wpc' = wpc
           \/ wpc[w] # "idle" /\ (wpc' = [wpc EXCEPT ![w] = "return"] \/ wpc' = [wpc EXCEPT ![w] = "select"])
    BY <1>5 DEF SendFails, SelectCtxDone, SelectErrors, Send, ClientCancel, Returns, subVars
  <2>2. \A x \in Watches : wpc'[x] = "idle" <=> wpc[x] = "idle"
    BY <1>0, <2>1
  <2> QED BY <1>3, <2>1, <2>2
<1>6. CASE SelectEvents(w)
  <2>1. /\ UNCHANGED <<subscribers, stage>> /\ wpc[w] = "select"
        /\ wpc' = [wpc EXCEPT ![w] = "send"] \/ wpc' = [wpc EXCEPT ![w] = "return"]
        /\ ch' = ch \/ (ch[w] # <<>> /\ ch' = [ch EXCEPT ![w] = Tail(@)])
    BY <1>6 DEF SelectEvents, Returns
  <2>2. \A x \in Watches : wpc'[x] = "idle" <=> wpc[x] = "idle"
    BY <1>0, <2>1
  <2>3. CASE ch' = ch
    BY <1>3, <2>1, <2>2, <2>3
  <2>4. CASE ch[w] # <<>> /\ ch' = [ch EXCEPT ![w] = Tail(@)]
    <3>1. feedStatus' = feedStatus
      BY <2>1, <2>2, StatusSame
    <3>2. Feed!Take(w)
      BY <1>2, <1>11, <2>1, <2>4, <3>1 DEF Feed!Take
    <3> QED BY <3>2 DEF Feed!Next, FeedStep
  <2> QED BY <2>1, <2>3, <2>4
<1>7. CASE DeferClose(w)
  <2>1. wpc[w] = "return" /\ UNCHANGED <<subscribers, ch>>
    BY <1>7 DEF DeferClose
  <2>2. CASE stage[w] = "open"
    BY <1>4, <1>7, <2>1, <2>2 DEF DeferClose
  <2>3. CASE stage[w] # "open"
    <3>1. wpc' = [wpc EXCEPT ![w] = "done"] /\ UNCHANGED stage
      BY <1>7, <2>3 DEF DeferClose
    <3>2. \A x \in Watches : wpc'[x] = "idle" <=> wpc[x] = "idle"
      BY <1>0, <2>1, <3>1
    <3> QED BY <1>3, <2>1, <3>1, <3>2
  <2> QED BY <2>2, <2>3
<1>8. CASE CtxGoroutine(w)
  <2>1. wpc[w] # "idle"
    BY <1>8 DEF CtxGoroutine, BeginInv
  <2> QED BY <1>4, <1>8, <2>1 DEF CtxGoroutine, watchVars
<1>9. CASE Unregister(w)
  BY <1>9, UnregisterIsFeed
<1>10. CASE CloseChannels(w) \/ ProlongAfterClose(w)
  <2>1. UNCHANGED <<subscribers, ch, wpc>> /\ \A x \in Watches : stage'[x] = "open" <=> stage[x] = "open"
    BY <1>0, <1>10 DEF CloseChannels, ProlongAfterClose, watchVars
  <2> QED BY <1>3, <2>1
<1> QED BY <1>5, <1>6, <1>7, <1>8, <1>9, <1>10 DEF WatchStep, CloseStep

\* Everything the goroutines do, seen from the streams, is the feed.
LEMMA NextIsFeed == TypeOK /\ FanoutInv /\ ViewInv /\ FeedInv /\ [Next]_vars => FeedStep
<1> SUFFICES ASSUME TypeOK, FanoutInv, ViewInv, FeedInv, [Next]_vars PROVE FeedStep
  OBVIOUS
<1>1. ASSUME UNCHANGED <<subscribers, backlog, ev, targets, cur, ch, stage, wpc>>,
             \A t \in Threads : Notifying(t)' <=> Notifying(t), feedFailed' = feedFailed
      PROVE  FeedStep
  BY <1>1, AsideFromFeed, StatusSame DEF FeedStep, Feed!vars
<1>2. CASE \/ \E h \in Handlers, req \in UpdateRequests : UpdateAffiliate(h, req)
           \/ \E h \in Handlers, id \in DeleteRequests : DeleteAffiliate(h, id)
           \/ Prune
  <2>1. PICK t \in Threads : \E events \in SUBSET PendingEvent : Commits(t, events)
    BY <1>2, CommitIs DEF ViewInv
  <2> QED BY <2>1, CommitIsFeed DEF ViewInv
<1>3. CASE PruneReadClock
  <2>1. /\ UNCHANGED <<subscribers, backlog, ev, targets, cur, ch, stage, wpc>>
        /\ pc[Cleanup] = "idle" /\ pc' = [pc EXCEPT ![Cleanup] = "prune"]
    BY <1>3 DEF PruneReadClock, subVars, watchVars
  <2>2. \A t \in Threads : Notifying(t)' <=> Notifying(t)
    BY <2>1 DEF Notifying, TypeOK, ThreadsTyped
  <2>3. feedFailed' = feedFailed
    BY <2>1, FailedSame DEF Threads
  <2> QED BY <1>1, <2>1, <2>2, <2>3
<1>4. CASE Tick \/ UNCHANGED vars
  BY <1>1, <1>4 DEF Tick, vars, threadVars, subVars, watchVars, Notifying, feedFailed
<1>5. ASSUME NEW t \in Threads, ThreadStep(t) PROVE FeedStep
  BY <1>5, ThreadIsFeed
<1>6. ASSUME NEW w \in Watches, SubscribeWithSnapshot(w) PROVE FeedStep
  BY <1>6, JoinIsFeed DEF FeedInv
<1>7. ASSUME NEW w \in Watches, WatchStep(w) \/ Send(w) \/ ClientCancel(w) \/ CloseStep(w) PROVE FeedStep
  BY <1>7, StreamIsFeed DEF FeedInv
<1> QED BY <1>2, <1>3, <1>4, <1>5, <1>6, <1>7 DEF Next

\* At the start nothing is on its way and no stream has begun.
LEMMA FeedBegins == Init => Feed!Init
<1> SUFFICES ASSUME Init PROVE Feed!Init
  OBVIOUS
<1>1. feedStatus = [w \in Watches |-> "new"]
  BY DEF Init, feedStatus
<1>2. (\A t \in Threads : Unsent(t) = {}) /\ feedFailed = {}
  BY DEF Init, Unsent, feedFailed
<1>3. feedInflight = {}
  BY <1>2, InflightIs
<1>4. \A w \in Watches : feedPending[w] = {}
  BY <1>2, PendingIs
<1>5. feedPending = [w \in Watches |-> {}]
  BY <1>4 DEF feedPending
<1> QED BY <1>1, <1>2, <1>3, <1>5 DEF Init, Feed!Init

\* The notification machinery of one cluster, with any number of writers,
\* streams and concurrent closes, is a feed: Cluster.notify, Subscription.notify,
\* SubscribeWithSnapshot and Subscription.Close together give a stream each
\* event committed while it is open at most once, let an open stream do without
\* one only when a panic on an ended stream's channel took the sender away, and
\* give it nothing else but, at most once, an event its snapshot already had.
THEOREM FeedImplemented == Spec => ImplementsFeed
<1>1. Init => TypeOK /\ FanoutInv /\ ViewInv /\ FeedInv
  BY TypeInit, FanoutInit, ViewInit, FeedInit
<1>2. TypeOK /\ FanoutInv /\ ViewInv /\ FeedInv /\ [Next]_vars => (TypeOK /\ FanoutInv /\ ViewInv /\ FeedInv)'
  BY TypeStep, FanoutStep, ViewStep, DistinctStep, OnceStep, BeginStep DEF FanoutInv, ViewInv, FeedInv
<1>3. TypeOK /\ FanoutInv /\ ViewInv /\ FeedInv /\ [Next]_vars => [Feed!Next]_(Feed!vars)
  BY NextIsFeed DEF FeedStep
<1>4. Init => Feed!Init
  BY FeedBegins
<1> QED BY <1>1, <1>2, <1>3, <1>4, PTL DEF Spec, ImplementsFeed, Feed!Spec
=============================================================================
