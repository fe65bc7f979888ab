---------------------------- MODULE ClusterFeed ----------------------------
(***************************************************************************)
(* Cluster.tla implements WatchFeed.tla.                                   *)
(***************************************************************************)
EXTENDS Cluster

\* A stream will be offered e by t: its turn in the fan-out is to come, or now.
Offered(t, e, w) ==
  IF e \in backlog[t] THEN w \in subscribers
  ELSE w \in targets[t] \/ (Notifying(t) /\ w = cur[t])

feedStatus ==
  [w \in Watches |-> IF wpc[w] = "idle" THEN "new" ELSE IF stage[w] = "open" THEN "open" ELSE "ended"]

feedFailed == {t \in Threads : pc[t] = "panicked"}

feedInflight ==
  UNION {{<<t, Announced(e)>> : e \in Unsent(t)} : t \in Threads}

feedPending ==
  [w \in Watches |->
     UNION {{<<t, Announced(e)>> : e \in {f \in Unsent(t) : Offered(t, f, w)}} : t \in Threads}]

Feed == INSTANCE WatchFeed WITH Streams <- Watches, Sources <- Threads, Events <- AffiliateEvent,
          status <- feedStatus, failed <- feedFailed, inflight <- feedInflight,
          pending <- feedPending, queue <- ch

\* Fan-out after the unlock, to a copy of the subscribers, with eviction of
\* slow streams and Close from three goroutines, is still a feed: an event
\* comes at most once to a stream, nothing else comes, and what is due to an
\* open stream stays due until it is given, unless a panic on the channel of
\* another, ended stream takes the sender away.  About Cluster.notify,
\* Subscription.notify, SubscribeWithSnapshot and Subscription.Close together.
ImplementsFeed == Feed!Spec

\* What is due to a stream does not stay due: the sender gives it, or passes
\* over a stream that has ended, or panics.  With ImplementsFeed: an open
\* stream is given every event whose sender does not panic.  About the loop of
\* Cluster.notify, which no client that does not read may stop.
PendingGoesOut ==
  \A t \in Threads, w \in Watches :
    t \in {p[1] : p \in feedPending[w]} ~> Crashed \/ t \notin {p[1] : p \in feedPending[w]}
=============================================================================
