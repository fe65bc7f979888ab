---------------------------- MODULE WatchManager ----------------------------
(***************************************************************************)
(* The web UI's fan-out for one cluster: DiscoveryWatchManager shares one  *)
(* Watch stream among the browsers that look at the cluster, counts them,  *)
(* and stops the stream with the last one; Hub gives each browser a        *)
(* bounded channel and drops what does not fit.                            *)
(*                                                                         *)
(* Processes: per browser the HTTP handler watchAffiliatesHandler (used    *)
(* for one request), and per entry of the manager the goroutine            *)
(* watchDiscovery.  An entry is named after the browser that created it.   *)
(* Entries of other clusters share nothing with it but the mutex mu.       *)
(*                                                                         *)
(* Left out: pings, the gauges, the length of the backoff (only that a     *)
(* retry waits), and the contents of responses: a response is its number   *)
(* in the entry's life.                                                    *)
(***************************************************************************)
EXTENDS Integers, Sequences, FiniteSets

CONSTANTS
  Browsers,               \* requests to watch the cluster
  None,                   \* no entry, nobody
  subscriberChannelSize,  \* capacity of a browser's channel
  MaxResponses            \* bound on the responses an entry receives

ASSUME WatchManagerAssumption ==
  /\ None \notin Browsers
  /\ IsFiniteSet(Browsers)
  /\ subscriberChannelSize \in Nat \ {0}
  /\ MaxResponses \in Nat

VARIABLES
  mu,         \* who holds DiscoveryWatchManager.mu
  entry,      \* entries[clusterID]
  refs,       \* per entry: watchEntry.refs
  cancelled,  \* per entry: its cancel has been called
  clients,    \* per entry: Hub.clients
  wpc,        \* per entry: where its watchDiscovery is
  received,   \* per entry: the number of its latest response
  targets,    \* per entry: Broadcast's copy of the clients still to be sent to
  dropped,    \* broadcastDroppedEvents
  bpc,        \* per browser: where its handler is
  ch,         \* per browser: its channel
  seen,       \* per browser: the latest response it was shown
  gone,       \* per browser: its request's context is done
  rootDone    \* rootCtx is done: the process is to stop

entryVars   == <<mu, entry, refs, cancelled>>
watcherVars == <<wpc, received, targets>>
vars == <<entryVars, clients, watcherVars, dropped, bpc, ch, seen, gone, rootDone>>

ManagerTypeOK ==
  /\ mu \in Browsers \cup {None}
  /\ entry \in Browsers \cup {None}
  /\ refs \in [Browsers -> Nat]
  /\ cancelled \in [Browsers -> BOOLEAN]
  /\ clients \in [Browsers -> SUBSET Browsers]

WatcherTypeOK ==
  /\ wpc \in [Browsers -> {"none", "loop", "dial", "recv", "copy", "send", "wait", "done"}]
  /\ received \in [Browsers -> Nat]
  /\ targets \in [Browsers -> SUBSET Browsers]
  /\ dropped \in Nat

BrowserTypeOK ==
  /\ bpc \in [Browsers -> {"idle", "join", "streaming", "leave", "release", "done"}]
  /\ ch \in [Browsers -> Seq(Nat)]
  /\ seen \in [Browsers -> Nat]
  /\ gone \in [Browsers -> BOOLEAN]
  /\ rootDone \in BOOLEAN

TypeOK == ManagerTypeOK /\ WatcherTypeOK /\ BrowserTypeOK

Init ==
  /\ mu = None
  /\ entry = None
  /\ refs = [b \in Browsers |-> 0]
  /\ cancelled = [b \in Browsers |-> FALSE]
  /\ clients = [b \in Browsers |-> {}]
  /\ wpc = [b \in Browsers |-> "none"]
  /\ received = [b \in Browsers |-> 0]
  /\ targets = [b \in Browsers |-> {}]
  /\ dropped = 0
  /\ bpc = [b \in Browsers |-> "idle"]
  /\ ch = [b \in Browsers |-> <<>>]
  /\ seen = [b \in Browsers |-> 0]
  /\ gone = [b \in Browsers |-> FALSE]
  /\ rootDone = FALSE

-----------------------------------------------------------------------------
(***************************************************************************)
(* The HTTP handler of a browser.                                          *)
(***************************************************************************)
\* DiscoveryWatchManager.Subscribe up to hub.Subscribe: a new entry starts its
\* goroutine before the browser is in the hub.
Subscribe(b) ==
  /\ bpc[b] = "idle"
  /\ mu = None
  /\ mu' = b
  /\ \/ /\ entry # None
        /\ refs' = [refs EXCEPT ![entry] = @ + 1]
        /\ UNCHANGED <<entry, wpc>>
     \/ /\ entry = None
        /\ entry' = b
        /\ refs' = [refs EXCEPT ![b] = 1]
        /\ wpc' = [wpc EXCEPT ![b] = "loop"]
  /\ bpc' = [bpc EXCEPT ![b] = "join"]
  /\ UNCHANGED <<cancelled, clients, received, targets, dropped, ch, seen, gone, rootDone>>

\* Hub.Subscribe, and the end of the manager's Subscribe.
JoinHub(b) ==
  /\ bpc[b] = "join"
  /\ clients' = [clients EXCEPT ![entry] = @ \cup {b}]
  /\ mu' = None
  /\ bpc' = [bpc EXCEPT ![b] = "streaming"]
  /\ UNCHANGED <<entry, refs, cancelled, watcherVars, dropped, ch, seen, gone, rootDone>>

\* The two cases of the handler's select that do something.
ShowEvent(b) ==
  /\ bpc[b] = "streaming"
  /\ ch[b] # <<>>
  /\ seen' = [seen EXCEPT ![b] = Head(ch[b])]
  /\ ch' = [ch EXCEPT ![b] = Tail(@)]
  /\ UNCHANGED <<entryVars, clients, watcherVars, dropped, bpc, gone, rootDone>>

Leave(b) ==
  /\ bpc[b] = "streaming"
  /\ gone[b]
  /\ bpc' = [bpc EXCEPT ![b] = "leave"]
  /\ UNCHANGED <<entryVars, clients, watcherVars, dropped, ch, seen, gone, rootDone>>

\* The deferred Unsubscribe: Hub.Unsubscribe on the entry of the cluster ...
LeaveHub(b) ==
  /\ bpc[b] = "leave"
  /\ mu = None
  /\ entry # None
  /\ mu' = b
  /\ clients' = [clients EXCEPT ![entry] = @ \ {b}]
  /\ bpc' = [bpc EXCEPT ![b] = "release"]
  /\ UNCHANGED <<entry, refs, cancelled, watcherVars, dropped, ch, seen, gone, rootDone>>

\* Mutant: a browser is counted out twice.
ReleaseTwice(b) ==
  /\ bpc[b] = "release"
  /\ refs' = [refs EXCEPT ![entry] = @ - 2]
  /\ \/ refs'[entry] > 0 /\ UNCHANGED <<entry, cancelled>>
     \/ /\ refs'[entry] <= 0
        /\ cancelled' = [cancelled EXCEPT ![entry] = TRUE]
        /\ entry' = None
  /\ mu' = None
  /\ bpc' = [bpc EXCEPT ![b] = "done"]
  /\ UNCHANGED <<clients, watcherVars, dropped, ch, seen, gone, rootDone>>

\* Mutant: the entry goes one browser too early.
ReleaseEarly(b) ==
  /\ bpc[b] = "release"
  /\ refs' = [refs EXCEPT ![entry] = @ - 1]
  /\ \/ refs'[entry] > 1 /\ UNCHANGED <<entry, cancelled>>
     \/ /\ refs'[entry] <= 1
        /\ cancelled' = [cancelled EXCEPT ![entry] = TRUE]
        /\ entry' = None
  /\ mu' = None
  /\ bpc' = [bpc EXCEPT ![b] = "done"]
  /\ UNCHANGED <<clients, watcherVars, dropped, ch, seen, gone, rootDone>>

\* Mutant: the early return of Unsubscribe forgets to unlock.
ReleaseKeepsMutex(b) ==
  /\ bpc[b] = "release"
  /\ refs' = [refs EXCEPT ![entry] = @ - 1]
  /\ \/ refs'[entry] > 0 /\ UNCHANGED <<mu, entry, cancelled>>
     \/ /\ refs'[entry] <= 0
        /\ cancelled' = [cancelled EXCEPT ![entry] = TRUE]
        /\ entry' = None
        /\ mu' = None
  /\ bpc' = [bpc EXCEPT ![b] = "done"]
  /\ UNCHANGED <<clients, watcherVars, dropped, ch, seen, gone, rootDone>>

\* ... and its end: the last browser cancels the watcher and drops the entry.
Release(b) ==
  /\ bpc[b] = "release"
  /\ refs' = [refs EXCEPT ![entry] = @ - 1]
  /\ \/ refs'[entry] > 0 /\ UNCHANGED <<entry, cancelled>>
     \/ /\ refs'[entry] <= 0
        /\ cancelled' = [cancelled EXCEPT ![entry] = TRUE]
        /\ entry' = None
  /\ mu' = None
  /\ bpc' = [bpc EXCEPT ![b] = "done"]
  /\ UNCHANGED <<clients, watcherVars, dropped, ch, seen, gone, rootDone>>

\* The browser closes the page or its connection breaks.
BrowserCancel(b) ==
  /\ bpc[b] \notin {"idle", "done"}
  /\ ~gone[b]
  /\ gone' = [gone EXCEPT ![b] = TRUE]
  /\ UNCHANGED <<entryVars, clients, watcherVars, dropped, bpc, ch, seen, rootDone>>

-----------------------------------------------------------------------------
(***************************************************************************)
(* watchDiscovery, the goroutine of entry k.                               *)
(***************************************************************************)
CtxDone(k) == cancelled[k] \/ rootDone

Goto(k, l) == wpc' = [wpc EXCEPT ![k] = l]

CheckDone(k) ==
  /\ wpc[k] = "loop"
  /\ Goto(k, IF CtxDone(k) THEN "done" ELSE "dial")
  /\ UNCHANGED <<entryVars, clients, received, targets, dropped, bpc, ch, seen, gone, rootDone>>

\* client.Watch gives a stream or an error.
Watch(k) ==
  /\ wpc[k] = "dial"
  /\ Goto(k, "recv") \/ Goto(k, "wait")
  /\ UNCHANGED <<entryVars, clients, received, targets, dropped, bpc, ch, seen, gone, rootDone>>

Recv(k) ==
  /\ wpc[k] = "recv"
  /\ received[k] < MaxResponses
  /\ received' = [received EXCEPT ![k] = @ + 1]
  /\ Goto(k, "copy")
  /\ UNCHANGED <<entryVars, clients, targets, dropped, bpc, ch, seen, gone, rootDone>>

\* EOF, an error or a response that cannot be encoded ends the stream.
RecvEnds(k) ==
  /\ wpc[k] = "recv"
  /\ Goto(k, "wait")
  /\ UNCHANGED <<entryVars, clients, received, targets, dropped, bpc, ch, seen, gone, rootDone>>

\* waitWithContext, before every retry.
Wait(k) ==
  /\ wpc[k] = "wait"
  /\ Goto(k, "loop") \/ (CtxDone(k) /\ Goto(k, "done"))
  /\ UNCHANGED <<entryVars, clients, received, targets, dropped, bpc, ch, seen, gone, rootDone>>

\* Hub.Broadcast: a copy of the clients under Hub.mu, then one send each.
BroadcastCopy(k) ==
  /\ wpc[k] = "copy"
  /\ targets' = [targets EXCEPT ![k] = clients[k]]
  /\ Goto(k, "send")
  /\ UNCHANGED <<entryVars, clients, received, dropped, bpc, ch, seen, gone, rootDone>>

\* Mutant: an event that does not fit is not counted.
BroadcastUncounted(k, b) ==
  /\ wpc[k] = "send"
  /\ b \in targets[k]
  /\ targets' = [targets EXCEPT ![k] = @ \ {b}]
  /\ ch' = IF Len(ch[b]) < subscriberChannelSize
           THEN [ch EXCEPT ![b] = Append(@, received[k])] ELSE ch
  /\ UNCHANGED <<entryVars, clients, wpc, received, dropped, bpc, seen, gone, rootDone>>

\* Mutant: the send waits for room in the channel.
BroadcastBlocks(k, b) ==
  /\ wpc[k] = "send"
  /\ b \in targets[k]
  /\ Len(ch[b]) < subscriberChannelSize
  /\ ch' = [ch EXCEPT ![b] = Append(@, received[k])]
  /\ targets' = [targets EXCEPT ![k] = @ \ {b}]
  /\ UNCHANGED <<entryVars, clients, wpc, received, dropped, bpc, seen, gone, rootDone>>

BroadcastSend(k, b) ==
  /\ wpc[k] = "send"
  /\ b \in targets[k]
  /\ targets' = [targets EXCEPT ![k] = @ \ {b}]
  /\ \/ /\ Len(ch[b]) < subscriberChannelSize
        /\ ch' = [ch EXCEPT ![b] = Append(@, received[k])]
        /\ UNCHANGED dropped
     \/ /\ Len(ch[b]) >= subscriberChannelSize
        /\ dropped' = dropped + 1
        /\ UNCHANGED ch
  /\ UNCHANGED <<entryVars, clients, wpc, received, bpc, seen, gone, rootDone>>

BroadcastEnd(k) ==
  /\ wpc[k] = "send"
  /\ targets[k] = {}
  /\ Goto(k, "recv")
  /\ UNCHANGED <<entryVars, clients, received, targets, dropped, bpc, ch, seen, gone, rootDone>>

\* The process is told to stop.
RootCancel ==
  /\ ~rootDone
  /\ rootDone' = TRUE
  /\ UNCHANGED <<entryVars, clients, watcherVars, dropped, bpc, ch, seen, gone>>

-----------------------------------------------------------------------------
HandlerStep(b) == JoinHub(b) \/ Leave(b) \/ LeaveHub(b) \/ Release(b)

WatcherStep(k) ==
  \/ CheckDone(k)
  \/ Watch(k)
  \/ Wait(k)
  \/ BroadcastCopy(k)
  \/ \E b \in Browsers : BroadcastSend(k, b)
  \/ BroadcastEnd(k)

Next ==
  \/ \E b \in Browsers : Subscribe(b) \/ ShowEvent(b) \/ BrowserCancel(b)
  \/ \E b \in Browsers : HandlerStep(b)
  \/ \E k \in Browsers : WatcherStep(k) \/ Recv(k) \/ RecvEnds(k)
  \/ RootCancel

(***************************************************************************)
(* Goroutines run, dialling and waiting end, and Recv returns once its     *)
(* context is done.  Servers need not answer, browsers need not read.      *)
(***************************************************************************)
Fairness ==
  \A b \in Browsers :
    /\ WF_vars(HandlerStep(b))
    /\ WF_vars(WatcherStep(b))
    /\ WF_vars(CtxDone(b) /\ RecvEnds(b))

Spec == Init /\ [][Next]_vars /\ Fairness

-----------------------------------------------------------------------------
\* The manager's books are right: there is an entry exactly while some browser
\* is attached; it counts them, its hub holds those that are streaming, and its
\* watcher has not been cancelled; every other watcher has been, and its hub is
\* empty.  About Subscribe and Unsubscribe updating entry, count and hub one
\* after the other, and Unsubscribe finding its entry by the cluster's id only.
Attached == {b \in Browsers : bpc[b] \notin {"idle", "done"}}
InHub    == {b \in Browsers : bpc[b] \in {"streaming", "leave"}}

EntryMatchesBrowsers ==
  /\ entry = None <=> Attached = {}
  /\ entry # None =>
       /\ refs[entry] = Cardinality(Attached)
       /\ clients[entry] = InHub
       /\ wpc[entry] # "none" /\ ~cancelled[entry]
  /\ \A k \in Browsers \ {entry} :
       /\ clients[k] = {}
       /\ wpc[k] # "none" => cancelled[k]

\* While broadcastDroppedEvents is zero, every browser in the hub has, shown or
\* waiting in its channel, an unbroken run of responses up to the latest one
\* broadcast.  About Broadcast sending outside the lock, to a copy.
Behind(b) == IF \/ wpc[entry] = "copy"
                \/ wpc[entry] = "send" /\ b \in targets[entry] THEN 1 ELSE 0

Unbroken(b) ==
  LET run == (IF seen[b] = 0 THEN <<>> ELSE <<seen[b]>>) \o ch[b]
  IN /\ \A i \in 2..Len(run) : run[i] = run[i - 1] + 1
     /\ run # <<>> => run[Len(run)] = received[entry] - Behind(b)

NoSilentGap == dropped = 0 => \A b \in InHub : Unbroken(b)

\* A watcher whose last browser has left ends, so does each of them when the
\* process stops: nobody's full channel, no backoff and no silent server keeps
\* it.  About cancel, Recv, waitWithContext and the non-blocking sends.
LeftWatcherEnds ==
  \A k \in Browsers : wpc[k] # "none" /\ (k # entry \/ rootDone) ~> wpc[k] = "done"

\* A browser that is gone is forgotten, whoever else comes and goes.
\* About the two mutexes.
GoneBrowserIsReleased == \A b \in Browsers : gone[b] ~> bpc[b] = "done"
=============================================================================
