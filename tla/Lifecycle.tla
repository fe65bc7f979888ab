------------------------------ MODULE Lifecycle ------------------------------
(***************************************************************************)
(* The process: what StartDiscoveryServer and StartDiscoveryWeb put into a *)
(* run group, and how it starts, stops, dies and is started again          *)
(* (internal/server/server.go, internal/runutil, internal/web/server.go,   *)
(* web_server.go).                                                         *)
(*                                                                         *)
(* An actor of the group is one of                                         *)
(*   "discovery"  the gRPC listener        "bufconn"   the in-memory one   *)
(*   "web"        the HTTP listener        "graceful"  the HTTP shutdown   *)
(*   "cleanup"    the cleanup ticker       "snapshot"  the snapshot ticker *)
(*   "ctx"        waits for the context and, interrupted, cancels it.      *)
(* The group (external) starts them all, takes the first result, calls the *)
(* interrupt functions in order, waits for the rest, and returns the first *)
(* result.                                                                 *)
(*                                                                         *)
(* State is what updates the process has acknowledged: mem.  A save copies *)
(* it in one step here; State.tla has that in detail, and what Cleanup     *)
(* does.  Updates are only added, which is the case where a loss shows.    *)
(***************************************************************************)
EXTENDS SnapshotFile, Sequences, FiniteSets

CONSTANTS
  Updates,    \* updates that clients send
  Requests,   \* HTTP requests that browsers send
  Configs,    \* the command lines the process may be started with
  MaxStarts   \* bound on the starts of the process

ASSUME LifecycleAssumption ==
  /\ Values = SUBSET Updates
  /\ Configs \subseteq [command : {"service", "web"}, WebEnable : BOOLEAN, InMemory : BOOLEAN,
                          Cleanup : BOOLEAN, Snapshot : BOOLEAN]
  /\ MaxStarts \in Nat \ {0}

VARIABLES
  up,           \* the process: "down", "running", "exited" or "killed"
  starts,       \* how often it was started
  deaths,       \* how often it was killed
  cfg,          \* the command line, the same at every start
  apc,          \* per actor: where it is
  ln,           \* per listening actor: its listener
  first,        \* the first result an actor returned
  interrupted,  \* how many actors have been interrupted
  ctxDone,      \* the context is done
  stopped,      \* stop() was called: signals are no longer caught
  signalled,    \* history: a signal has reached this process
  connected,    \* clients have a connection to the gRPC server
  mem,          \* the updates acknowledged by, or loaded into, this process
  due,          \* history: mem when the context was done
  inflight,     \* HTTP requests being served
  clientOpen,   \* the web server's gRPC client is open
  timedOut      \* httpServer.Shutdown gave up waiting

actorVars == <<apc, ln, first, interrupted>>
ctxVars   == <<ctxDone, stopped, signalled>>
webVars   == <<inflight, clientOpen, timedOut>>
procVars  == <<up, starts, deaths, cfg>>
vars == <<procVars, actorVars, ctxVars, connected, mem, due, webVars, fileVars>>

Listeners == {"discovery", "bufconn", "web"}
Actors == Listeners \cup {"graceful", "cleanup", "snapshot", "ctx"}

If(b, s) == IF b THEN s ELSE <<>>

\* The actors of StartDiscoveryServer, of its embedded web server, and of
\* StartDiscoveryWeb.
ServiceActors ==
  <<"discovery">>
  \o If(cfg.WebEnable, If(cfg.InMemory, <<"bufconn">>) \o <<"web", "graceful">>)
  \o If(cfg.Cleanup, <<"cleanup">>)
  \o If(cfg.Snapshot, <<"snapshot">>)
  \o <<"ctx">>

WebActors == <<"ctx", "web", "graceful">>

group == IF cfg.command = "service" THEN ServiceActors ELSE WebActors

ProcTypeOK ==
  /\ up \in {"down", "running", "exited", "killed"}
  /\ starts \in 0..MaxStarts
  /\ deaths \in 0..MaxStarts
  /\ cfg \in Configs

ActorsTypeOK ==
  /\ apc \in [Actors -> {"start", "serve", "shutdown", "save", "lastSave", "done"}]
  /\ ln \in [Listeners -> {"nil", "open", "closed"}]
  /\ first \in {"none", "nil", "err"}
  /\ interrupted \in 0..Len(group)

ServedTypeOK ==
  /\ ctxDone \in BOOLEAN /\ stopped \in BOOLEAN /\ signalled \in BOOLEAN
  /\ connected \in BOOLEAN
  /\ mem \in Values /\ due \in Values
  /\ inflight \subseteq Requests
  /\ clientOpen \in BOOLEAN /\ timedOut \in BOOLEAN

TypeOK == FileTypeOK /\ ProcTypeOK /\ ActorsTypeOK /\ ServedTypeOK

-----------------------------------------------------------------------------
(***************************************************************************)
(* Starting.                                                               *)
(***************************************************************************)
Runs(a) == \E i \in 1..Len(group) : group[i] = a

\* Mutant: the snapshot is not loaded.
LoadedNothing == {}

\* LoadSnapshot: no file is an empty state.
Loaded == IF content = Absent THEN {} ELSE content

\* What a process has before it has done anything.
Fresh ==
  /\ apc' = [a \in Actors |-> "start"]
  /\ ln' = [a \in Listeners |-> IF a = "bufconn" THEN "open" ELSE "nil"]
  /\ first' = "none"
  /\ interrupted' = 0
  /\ ctxDone' = FALSE /\ stopped' = FALSE /\ signalled' = FALSE
  /\ connected' = FALSE
  /\ due' = {}
  /\ inflight' = {} /\ clientOpen' = TRUE /\ timedOut' = FALSE

\* Up to group.Run(): a snapshot that cannot be read, as a torn one never can,
\* or a web server that cannot be built, ends the process before it has done
\* anything.  Without snapshots a second start is the first again, and left out.
Start ==
  /\ up # "running"
  /\ starts < IF cfg.Snapshot THEN MaxStarts ELSE 1
  /\ starts' = starts + 1
  /\ Fresh
  /\ mem' = IF cfg.Snapshot THEN Loaded ELSE {}
  /\ \/ up' = "running" /\ ~(cfg.Snapshot /\ content = Torn)
     \/ up' = "down" /\ (cfg.WebEnable \/ cfg.Snapshot)
  /\ UNCHANGED <<deaths, cfg, fileVars>>

Init ==
  /\ FileInit
  /\ up = "down" /\ starts = 0 /\ deaths = 0
  /\ cfg \in Configs
  /\ apc = [a \in Actors |-> "start"]
  /\ ln = [a \in Listeners |-> "nil"]
  /\ first = "none" /\ interrupted = 0
  /\ ctxDone = FALSE /\ stopped = FALSE /\ signalled = FALSE
  /\ connected = FALSE
  /\ mem = {} /\ due = {}
  /\ inflight = {} /\ clientOpen = TRUE /\ timedOut = FALSE

-----------------------------------------------------------------------------
(***************************************************************************)
(* Actors.                                                                 *)
(***************************************************************************)
Active(a) == up = "running" /\ Runs(a)

Goto(a, l) == apc' = [apc EXCEPT ![a] = l] /\ UNCHANGED first

Return(a, r) ==
  /\ apc' = [apc EXCEPT ![a] = "done"]
  /\ first' = IF first = "none" THEN r ELSE first

\* Mutant: an address in use is not an error.
ListenQuietly(a) ==
  /\ Active(a)
  /\ a # "bufconn"
  /\ apc[a] = "start"
  /\ \/ Goto(a, "serve") /\ ln' = [ln EXCEPT ![a] = "open"]
     \/ Return(a, "nil") /\ UNCHANGED ln
  /\ UNCHANGED <<procVars, interrupted, ctxVars, connected, mem, due, webVars, fileVars>>

\* AddListenerServer: the listener is built and assigned to ln, and served.
Listen(a) ==
  /\ Active(a)
  /\ a # "bufconn"
  /\ apc[a] = "start"
  /\ \/ Goto(a, "serve") /\ ln' = [ln EXCEPT ![a] = "open"]
     \/ Return(a, "err") /\ UNCHANGED ln
  /\ UNCHANGED <<procVars, interrupted, ctxVars, connected, mem, due, webVars, fileVars>>

\* addBufconnDiscoveryListener: its listener exists before the group runs.
ServeBufconn ==
  /\ Active("bufconn")
  /\ apc["bufconn"] = "start"
  /\ Goto("bufconn", "serve")
  /\ UNCHANGED <<procVars, ln, interrupted, ctxVars, connected, mem, due, webVars, fileVars>>

\* http.Server is in Shutdown, or past it.
ShutdownBegun == apc["graceful"] \in {"shutdown", "done"}

\* Serve returns when its listener is closed, or when the HTTP server is shut
\* down, which is no error; a gRPC server has to be closed from outside.
ServeReturns(a) ==
  /\ Active(a)
  /\ apc[a] = "serve"
  /\ \/ a = "web" /\ ShutdownBegun /\ Return(a, "nil")
     \/ ln[a] = "closed" /\ ~(a = "web" /\ ShutdownBegun) /\ Return(a, "err")
  /\ ln' = [ln EXCEPT ![a] = "closed"]
  /\ UNCHANGED <<procVars, interrupted, ctxVars, connected, mem, due, webVars, fileVars>>

\* Accept fails by itself.
AcceptFails(a) ==
  /\ Active(a)
  /\ a # "bufconn"
  /\ apc[a] = "serve"
  /\ ln[a] = "open"
  /\ ln' = [ln EXCEPT ![a] = "closed"]
  /\ UNCHANGED <<procVars, apc, first, interrupted, ctxVars, connected, mem, due, webVars, fileVars>>

\* AddGracefulShutdownActor and WebServer.Shutdown: wait for the requests, for
\* two seconds at most, and only then close the gRPC client they use.
ShutdownBegins ==
  /\ Active("graceful")
  /\ apc["graceful"] = "start"
  /\ ctxDone
  /\ Goto("graceful", "shutdown")
  /\ UNCHANGED <<procVars, ln, interrupted, ctxVars, connected, mem, due, webVars, fileVars>>

\* Mutant: the client is closed without waiting for the requests.
ShutdownClosesFirst ==
  /\ Active("graceful")
  /\ apc["graceful"] = "shutdown"
  /\ Return("graceful", "nil")
  /\ clientOpen' = FALSE
  /\ UNCHANGED <<procVars, ln, interrupted, ctxVars, connected, mem, due, inflight, timedOut, fileVars>>

ShutdownEnds ==
  /\ Active("graceful")
  /\ apc["graceful"] = "shutdown"
  /\ \/ inflight = {} /\ Return("graceful", "nil") /\ UNCHANGED timedOut
     \/ inflight # {} /\ Return("graceful", "err") /\ timedOut' = TRUE
  /\ clientOpen' = FALSE
  /\ UNCHANGED <<procVars, ln, interrupted, ctxVars, connected, mem, due, inflight, fileVars>>

\* The actors that only wait for the context.
ReturnsWhenDone(a) ==
  /\ Active(a)
  /\ a \in {"cleanup", "ctx"}
  /\ apc[a] = "start"
  /\ ctxDone
  /\ Return(a, "nil")
  /\ UNCHANGED <<procVars, ln, interrupted, ctxVars, connected, mem, due, webVars, fileVars>>

\* addSnapshotActor: a save per tick, ...
SnapshotTick ==
  /\ Active("snapshot")
  /\ apc["snapshot"] = "start"
  /\ Goto("snapshot", "save")
  /\ BeginWrite(mem)
  /\ UNCHANGED <<procVars, ln, interrupted, ctxVars, connected, mem, due, webVars>>

\* Mutant: no save when the process stops.
StopWithoutSave ==
  /\ Active("snapshot")
  /\ apc["snapshot"] = "start"
  /\ ctxDone
  /\ Return("snapshot", "nil")
  /\ UNCHANGED <<procVars, ln, interrupted, ctxVars, connected, mem, due, webVars, fileVars>>

\* ... and a last one when the context is done.
SnapshotStops ==
  /\ Active("snapshot")
  /\ apc["snapshot"] = "start"
  /\ ctxDone
  /\ Goto("snapshot", "lastSave")
  /\ BeginWrite(mem)
  /\ UNCHANGED <<procVars, ln, interrupted, ctxVars, connected, mem, due, webVars>>

Saving == up = "running" /\ apc["snapshot"] \in {"save", "lastSave"}

SaveStep ==
  /\ Saving
  /\ WriteStep
  /\ UNCHANGED <<procVars, actorVars, ctxVars, connected, mem, due, webVars>>

\* SaveSnapshot has returned; its error is only logged.
SaveReturns ==
  /\ Saving
  /\ step = "idle"
  /\ \/ apc["snapshot"] = "save" /\ Goto("snapshot", "start")
     \/ apc["snapshot"] = "lastSave" /\ Return("snapshot", "nil")
  /\ UNCHANGED <<procVars, ln, interrupted, ctxVars, connected, mem, due, webVars, fileVars>>

-----------------------------------------------------------------------------
(***************************************************************************)
(* The group's Run, after the first result.                                *)
(***************************************************************************)
Cancel ==
  /\ ctxDone' = TRUE
  /\ due' = IF ctxDone THEN due ELSE mem

\* Mutant: the interrupt function of "ctx" does nothing.
InterruptWithoutStop ==
  /\ up = "running"
  /\ first # "none"
  /\ interrupted < Len(group)
  /\ interrupted' = interrupted + 1
  /\ LET a == group[interrupted + 1]
     IN ln' = [l \in Listeners |-> IF l = a /\ ln[l] = "open" THEN "closed" ELSE ln[l]]
  /\ UNCHANGED <<procVars, apc, first, ctxVars, connected, mem, due, webVars, fileVars>>

\* The next interrupt function: of a listener, which closes ln unless it is
\* nil; of "ctx", which calls stop(); of the others, which is empty.
Interrupt ==
  /\ up = "running"
  /\ first # "none"
  /\ interrupted < Len(group)
  /\ interrupted' = interrupted + 1
  /\ LET a == group[interrupted + 1]
     IN /\ ln' = [l \in Listeners |-> IF l = a /\ ln[l] = "open" THEN "closed" ELSE ln[l]]
        /\ \/ a = "ctx" /\ Cancel /\ stopped' = TRUE
           \/ a # "ctx" /\ UNCHANGED <<ctxDone, due, stopped>>
  /\ UNCHANGED <<procVars, apc, first, signalled, connected, mem, webVars, fileVars>>

\* Run returns the first result, and main ends the process with it.
Exit ==
  /\ up = "running"
  /\ interrupted = Len(group)
  /\ first # "none"
  /\ \A a \in Actors : Runs(a) => apc[a] = "done"
  /\ up' = "exited"
  /\ UNCHANGED <<starts, deaths, cfg, actorVars, ctxVars, connected, mem, due, webVars, fileVars>>

-----------------------------------------------------------------------------
(***************************************************************************)
(* The environment: signals, clients, browsers, and failures.              *)
(***************************************************************************)
Dies ==
  /\ up' = "killed"
  /\ deaths' = deaths + 1
  /\ Fresh
  /\ mem' = {}
  /\ UNCHANGED <<starts, cfg>>

\* Interrupt or SIGTERM: caught, until stop() gives the default back.
Signal ==
  /\ up = "running"
  /\ \/ ~stopped /\ ~signalled /\ Cancel
        /\ signalled' = TRUE
        /\ UNCHANGED <<procVars, actorVars, stopped, connected, mem, webVars, fileVars>>
     \/ stopped /\ Dies /\ WriterDies

Kill ==
  /\ up = "running"
  /\ Dies /\ WriterDies

\* The machine loses power, whether the process runs or not.
PowerFailure ==
  /\ PowerFails
  /\ \/ up = "running" /\ Dies
     \/ up # "running" /\ UNCHANGED <<procVars, actorVars, ctxVars, connected, mem, due, webVars>>

\* A connection is accepted while the listener is served, and outlives it.
Connect ==
  /\ Active("discovery")
  /\ apc["discovery"] = "serve"
  /\ ln["discovery"] = "open"
  /\ ~connected
  /\ connected' = TRUE
  /\ UNCHANGED <<procVars, actorVars, ctxVars, mem, due, webVars, fileVars>>

\* An update is acknowledged: until the process ends, nothing stops RPCs.
AffiliateUpdate(u) ==
  /\ up = "running"
  /\ connected
  /\ u \notin mem
  /\ mem' = mem \cup {u}
  /\ UNCHANGED <<procVars, actorVars, ctxVars, connected, due, webVars, fileVars>>

\* A request comes over a connection of its own.
RequestBegins(r) ==
  /\ Active("web")
  /\ apc["web"] = "serve"
  /\ ln["web"] = "open"
  /\ ~ShutdownBegun
  /\ r \notin inflight
  /\ inflight' = inflight \cup {r}
  /\ UNCHANGED <<procVars, actorVars, ctxVars, connected, mem, due, clientOpen, timedOut, fileVars>>

RequestEnds(r) ==
  /\ up = "running"
  /\ r \in inflight
  /\ inflight' = inflight \ {r}
  /\ UNCHANGED <<procVars, actorVars, ctxVars, connected, mem, due, clientOpen, timedOut, fileVars>>

-----------------------------------------------------------------------------
ActorStep ==
  \/ \E a \in Listeners : Listen(a)
  \/ ServeBufconn
  \/ \E a \in Listeners : ServeReturns(a)
  \/ ShutdownBegins
  \/ ShutdownEnds
  \/ \E a \in {"cleanup", "ctx"} : ReturnsWhenDone(a)

SnapshotStep == SnapshotStops \/ SaveStep \/ SaveReturns

GroupStep == Interrupt \/ Exit

Environment ==
  \/ \E a \in Listeners : AcceptFails(a)
  \/ Signal
  \/ Kill
  \/ PowerFailure
  \/ Connect
  \/ \E u \in Updates : AffiliateUpdate(u)
  \/ \E r \in Requests : RequestBegins(r) \/ RequestEnds(r)

Next ==
  \/ Start
  \/ ActorStep
  \/ SnapshotTick
  \/ SnapshotStep
  \/ GroupStep
  \/ Environment

(***************************************************************************)
(* Goroutines run and system calls return; every actor but "snapshot" has  *)
(* finitely many steps, so one condition serves them all.  When both cases *)
(* of the snapshot actor's select stay ready, it does not take the tick    *)
(* for ever.                                                               *)
(***************************************************************************)
Fairness ==
  /\ WF_vars(ActorStep \/ GroupStep)
  /\ WF_vars(SaveStep \/ SaveReturns)
  /\ SF_vars(SnapshotStops)

Spec == Init /\ [][Next]_vars /\ Fairness

-----------------------------------------------------------------------------
\* The file a process leaves when it exits holds every update it had
\* acknowledged when it was told, or forced, to stop, unless that last save
\* failed.  About the run group waiting for the snapshot actor, whose last save
\* begins after the context is done.
AckedBeforeStopIsSaved ==
  [][up = "running" /\ up' = "exited" /\ Runs("snapshot") /\ ~saveErr
       => due \subseteq Loaded]_vars

\* What a save wrote whose directory was synced is never lost again, not by a
\* kill or a power failure in the middle of a later save, nor by a restart,
\* which could save less than it should have loaded.  About atomicWriteFile,
\* and NewState loading before anything is served or saved.
ConfirmedIsKept == confirmed # Absent => content # Absent /\ confirmed \subseteq content

\* Every temporary file in the directory belongs to the save in progress or to
\* a process that was killed.  About the deferred removal on every error path.
LitterIsFromDeaths == litter <= deaths

\* The process does not exit with status 0 unless it was told to stop: a
\* listener that cannot be opened, or fails, is reported.  About the first
\* result of the group being that of the actor that failed, although its
\* interrupt functions make all the others return nil.
QuietExitNeedsSignal == up = "exited" /\ first = "nil" => signalled

\* The gRPC client of the web server is not closed under a request that is
\* being served, unless two seconds have passed.  About WebServer.Shutdown.
RequestsKeepTheirClient == ~clientOpen /\ inflight # {} => timedOut

\* Once an actor has returned the process ends, unless the interrupt function
\* of the gRPC listener came before the listener.  About interrupt functions,
\* stop() and the waits for the context: one missing, and all would wait.
Missed == interrupted > 0 /\ Runs("discovery") /\ ln["discovery"] = "open"

StopsUnlessMissed == first # "none" ~> up # "running" \/ Missed

\* The file that the process works on is an atomic file, whatever call of a
\* save fails and wherever the process is killed.
FileIsAtomic == Atomic!Spec
=============================================================================
