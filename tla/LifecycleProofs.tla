-------------------------- MODULE LifecycleProofs --------------------------
(***************************************************************************)
(* Theorems about Lifecycle.tla and SnapshotFile.tla for every set of      *)
(* updates, requests and command lines and any number of restarts.         *)
(***************************************************************************)
EXTENDS Lifecycle, TLAPS

-----------------------------------------------------------------------------
(***************************************************************************)
(* The run group is a sequence of actors, fixed by the command line.       *)
(***************************************************************************)
\* The group holds nothing but the actors of Lifecycle, and the snapshot actor
\* only if there is a snapshot path (StartDiscoveryServer, addSnapshotActor).
LEMMA GroupOf ==
  ASSUME cfg \in Configs, NEW S,
         {"discovery", "bufconn", "web", "graceful", "cleanup", "ctx"} \subseteq S,
         cfg.Snapshot => "snapshot" \in S
  PROVE  group \in Seq(S)
<1>1. \A s \in Seq(S), b \in BOOLEAN : If(b, s) \in Seq(S)
  BY DEF If
<1>2. \A s, t \in Seq(S) : s \o t \in Seq(S)
  OBVIOUS
<1>3. \A a \in S : <<a>> \in Seq(S)
  OBVIOUS
<1>4. <<"web", "graceful">> \in Seq(S) /\ WebActors \in Seq(S)
  BY DEF WebActors
<1>5. cfg.WebEnable \in BOOLEAN /\ cfg.InMemory \in BOOLEAN /\ cfg.Cleanup \in BOOLEAN /\ cfg.Snapshot \in BOOLEAN
  BY LifecycleAssumption
<1>6. If(cfg.InMemory, <<"bufconn">>) \o <<"web", "graceful">> \in Seq(S)
  BY <1>1, <1>2, <1>3, <1>4, <1>5
<1>7. If(cfg.Snapshot, <<"snapshot">>) \in Seq(S)
  BY <1>3, <1>5 DEF If
<1>8. /\ If(cfg.WebEnable, If(cfg.InMemory, <<"bufconn">>) \o <<"web", "graceful">>) \in Seq(S)
      /\ If(cfg.Cleanup, <<"cleanup">>) \in Seq(S)
      /\ <<"discovery">> \in Seq(S) /\ <<"ctx">> \in Seq(S)
  BY <1>1, <1>3, <1>5, <1>6
<1>9. ServiceActors \in Seq(S)
  BY <1>2, <1>7, <1>8 DEF ServiceActors
<1> QED BY <1>4, <1>9 DEF group

\* The actors that main adds to the run group are finitely many.
LEMMA GroupLength ==
  ASSUME cfg \in Configs
  PROVE  Len(group) \in Nat
<1>1. group \in Seq(Actors)
  BY GroupOf DEF Actors, Listeners
<1> QED BY <1>1

\* The snapshot actor is added only when a snapshot is configured.
LEMMA SnapshotNeedsPath ==
  ASSUME cfg \in Configs, Runs("snapshot")
  PROVE  cfg.Snapshot
<1> SUFFICES ASSUME ~cfg.Snapshot PROVE FALSE
  OBVIOUS
<1>1. group \in Seq(Actors \ {"snapshot"})
  BY GroupOf DEF Actors, Listeners
<1> QED BY <1>1 DEF Runs

-----------------------------------------------------------------------------
(***************************************************************************)
(* Types, and what is known of a save in progress: who writes, and what is *)
(* in the temporary file at each of its steps.                             *)
(***************************************************************************)
SaveInv ==
  /\ step # "idle" => /\ up = "running" /\ Runs("snapshot")
                      /\ apc["snapshot"] \in {"save", "lastSave"}
                      /\ data \in Values
  /\ step \in {"idle", "create", "syncDir"} => temp = Absent
  /\ step \in {"sync", "rename"} => temp = data
  /\ step = "rename" => synced

\* Every death ends a start.
DeathsInv == deaths + (IF up = "running" THEN 1 ELSE 0) <= starts

IInv == TypeOK /\ SaveInv /\ DeathsInv

\* Before the first start nothing is being saved.
LEMMA InitIInv == Init => IInv
<1> SUFFICES ASSUME Init PROVE IInv
  OBVIOUS
<1>1. Len(group) \in Nat
  BY GroupLength DEF Init
<1>2. {} \in Values
  BY LifecycleAssumption
<1>3. FileTypeOK
  BY DEF Init, FileInit, FileTypeOK
<1>4. ProcTypeOK
  BY LifecycleAssumption DEF Init, ProcTypeOK
<1>5. ActorsTypeOK
  BY <1>1 DEF Init, ActorsTypeOK
<1>6. ServedTypeOK
  BY <1>2 DEF Init, ServedTypeOK
<1>7. SaveInv
  BY DEF Init, FileInit, SaveInv
<1>8. DeathsInv
  BY DEF Init, DeathsInv
<1> QED BY <1>3, <1>4, <1>5, <1>6, <1>7, <1>8 DEF IInv, TypeOK

\* cfg, and with it the group, never changes.
LEMMA CfgFixed == [Next]_vars => cfg' = cfg
BY DEF Next, vars, procVars, Start, ActorStep, Listen, ServeBufconn, ServeReturns, ShutdownBegins,
   ShutdownEnds, ReturnsWhenDone, SnapshotTick, SnapshotStep, SnapshotStops, SaveStep, SaveReturns,
   GroupStep, Interrupt, Exit, Environment, AcceptFails, Signal, Dies, Kill, PowerFailure, Connect,
   AffiliateUpdate, RequestBegins, RequestEnds

\* A step of an actor or of the environment that neither saves nor ends the
\* process keeps what is known of the save in progress.
LEMMA NotSaving ==
  ASSUME IInv, UNCHANGED <<procVars, fileVars>>,
         apc'["snapshot"] = apc["snapshot"] \/ step = "idle"
  PROVE  FileTypeOK' /\ ProcTypeOK' /\ SaveInv' /\ DeathsInv'
<1>1. FileTypeOK' /\ ProcTypeOK'
  BY DEF IInv, TypeOK, FileTypeOK, ProcTypeOK, procVars, fileVars, disk, call
<1>2. Runs("snapshot")' <=> Runs("snapshot")
  BY DEF Runs, group, ServiceActors, WebActors, procVars
<1>3. SaveInv'
  BY <1>2 DEF IInv, SaveInv, procVars, fileVars, disk, call
<1>4. DeathsInv'
  BY DEF IInv, DeathsInv, procVars
<1> QED BY <1>1, <1>3, <1>4

\* One step per action; those of a save are split into its system calls.
LEMMA IInvStep == IInv /\ [Next]_vars => IInv'
<1> SUFFICES ASSUME IInv, [Next]_vars PROVE IInv'
  OBVIOUS
<1> USE DEF IInv, TypeOK
<1>c. cfg' = cfg
  BY CfgFixed
<1>g. Len(group) \in Nat /\ group' = group
  BY <1>c, GroupLength DEF ProcTypeOK, group, ServiceActors
<1>v. {} \in Values /\ Absent \notin Values /\ Torn \notin Values
  BY LifecycleAssumption, SnapshotFileAssumption
<1>r. Runs("snapshot")' <=> Runs("snapshot")
  BY <1>g DEF Runs
<1>1. CASE Start
  <2>1. FileTypeOK'
    BY <1>1 DEF Start, FileTypeOK, fileVars, disk, call
  <2>2. ActorsTypeOK'
    BY <1>1, <1>g DEF Start, Fresh, ActorsTypeOK
  <2>3. ServedTypeOK'
    BY <1>1, <1>v DEF Start, Fresh, Loaded, FileTypeOK, ServedTypeOK
  <2>4. ProcTypeOK'
    BY <1>1, <1>c, LifecycleAssumption DEF Start, ProcTypeOK
  <2>5. SaveInv'
    BY <1>1 DEF Start, SaveInv, fileVars, disk, call
  <2>6. DeathsInv'
    BY <1>1 DEF DeathsInv, Start, ProcTypeOK
  <2> QED BY <2>1, <2>2, <2>3, <2>4, <2>5, <2>6
<1>2. CASE UNCHANGED vars
  <2>1. ActorsTypeOK' /\ ServedTypeOK'
    BY <1>2, <1>g DEF vars, ActorsTypeOK, ServedTypeOK, actorVars, ctxVars, webVars
  <2>2. UNCHANGED <<procVars, fileVars>> /\ apc' = apc
    BY <1>2 DEF vars, actorVars
  <2> QED BY <2>1, <2>2, NotSaving
<1>3. ASSUME NEW a \in Listeners, Listen(a) PROVE IInv'
  <2>1. ActorsTypeOK'
    BY <1>3, <1>g DEF Listen, Goto, Return, ActorsTypeOK
  <2>2. ServedTypeOK'
    BY <1>3 DEF Listen, ServedTypeOK, ctxVars, webVars
  <2>3. UNCHANGED <<procVars, fileVars>> /\ apc'["snapshot"] = apc["snapshot"]
    BY <1>3 DEF Listen, Goto, Return, ActorsTypeOK, Actors, Listeners
  <2> QED BY <2>1, <2>2, <2>3, NotSaving
<1>4. CASE ServeBufconn
  <2>1. ActorsTypeOK'
    BY <1>4, <1>g DEF ServeBufconn, Goto, ActorsTypeOK
  <2>2. ServedTypeOK'
    BY <1>4 DEF ServeBufconn, ServedTypeOK, ctxVars, webVars
  <2>3. UNCHANGED <<procVars, fileVars>> /\ apc'["snapshot"] = apc["snapshot"]
    BY <1>4 DEF ServeBufconn, Goto, ActorsTypeOK, Actors, Listeners
  <2> QED BY <2>1, <2>2, <2>3, NotSaving
<1>5. ASSUME NEW a \in Listeners, ServeReturns(a) PROVE IInv'
  <2>1. ActorsTypeOK'
    BY <1>5, <1>g DEF ServeReturns, Return, ActorsTypeOK
  <2>2. ServedTypeOK'
    BY <1>5 DEF ServeReturns, ServedTypeOK, ctxVars, webVars
  <2>3. UNCHANGED <<procVars, fileVars>> /\ apc'["snapshot"] = apc["snapshot"]
    BY <1>5 DEF ServeReturns, Return, ActorsTypeOK, Actors, Listeners
  <2> QED BY <2>1, <2>2, <2>3, NotSaving
<1>6. ASSUME NEW a \in Listeners, AcceptFails(a) PROVE IInv'
  <2>1. ActorsTypeOK'
    BY <1>6, <1>g DEF AcceptFails, ActorsTypeOK
  <2>2. ServedTypeOK'
    BY <1>6 DEF AcceptFails, ServedTypeOK, ctxVars, webVars
  <2> QED BY <1>6, <2>1, <2>2, NotSaving DEF AcceptFails
<1>7. CASE ShutdownBegins \/ ShutdownEnds
  <2>1. ActorsTypeOK'
    BY <1>7, <1>g DEF ShutdownBegins, ShutdownEnds, Goto, Return, ActorsTypeOK
  <2>2. ServedTypeOK'
    BY <1>7 DEF ShutdownBegins, ShutdownEnds, ServedTypeOK, ctxVars, webVars
  <2>3. UNCHANGED <<procVars, fileVars>> /\ apc'["snapshot"] = apc["snapshot"]
    BY <1>7 DEF ShutdownBegins, ShutdownEnds, Goto, Return, ActorsTypeOK, Actors, Listeners
  <2> QED BY <2>1, <2>2, <2>3, NotSaving
<1>8. ASSUME NEW a \in {"cleanup", "ctx"}, ReturnsWhenDone(a) PROVE IInv'
  <2>1. ActorsTypeOK'
    BY <1>8, <1>g DEF ReturnsWhenDone, Return, ActorsTypeOK
  <2>2. ServedTypeOK'
    BY <1>8 DEF ReturnsWhenDone, ServedTypeOK, ctxVars, webVars
  <2>3. UNCHANGED <<procVars, fileVars>> /\ apc'["snapshot"] = apc["snapshot"]
    BY <1>8 DEF ReturnsWhenDone, Return, ActorsTypeOK, Actors, Listeners
  <2> QED BY <2>1, <2>2, <2>3, NotSaving
<1>9. CASE SnapshotTick \/ SnapshotStops
  <2>1. ActorsTypeOK'
    BY <1>9, <1>g DEF SnapshotTick, SnapshotStops, Goto, ActorsTypeOK
  <2>2. ServedTypeOK'
    BY <1>9 DEF SnapshotTick, SnapshotStops, ServedTypeOK, ctxVars, webVars
  <2>3. ProcTypeOK' /\ DeathsInv'
    BY <1>9 DEF SnapshotTick, SnapshotStops, ProcTypeOK, DeathsInv, procVars
  <2>4. FileTypeOK'
    BY <1>9 DEF SnapshotTick, SnapshotStops, BeginWrite, FileTypeOK, ServedTypeOK, disk
  <2>5. SaveInv'
    BY <1>9, <1>r DEF SnapshotTick, SnapshotStops, Active, BeginWrite, Goto, SaveInv, ServedTypeOK,
       ActorsTypeOK, Actors, procVars
  <2> QED BY <2>1, <2>2, <2>3, <2>4, <2>5
<1>10. CASE SaveStep
  <2>1. ActorsTypeOK' /\ ServedTypeOK'
    BY <1>10, <1>g DEF SaveStep, ActorsTypeOK, ServedTypeOK, actorVars, ctxVars, webVars
  <2>2. ProcTypeOK' /\ DeathsInv'
    BY <1>10 DEF SaveStep, ProcTypeOK, DeathsInv, procVars
  <2>3. FileTypeOK' /\ SaveInv'
    <3>0. up' = up /\ apc' = apc
      BY <1>10 DEF SaveStep, procVars, actorVars
    <3>1. CASE CreateTemp
      BY <3>0, <3>1, <1>r, <1>v DEF CreateTemp, FileTypeOK, SaveInv, disk
    <3>2. CASE Write
      BY <3>0, <3>2, <1>r, <1>v DEF Write, Fails, FileTypeOK, SaveInv, disk
    <3>3. CASE Sync
      BY <3>0, <3>3, <1>r, <1>v DEF Sync, Fails, FileTypeOK, SaveInv, disk
    <3>4. CASE Rename
      BY <3>0, <3>4, <1>r, <1>v DEF Rename, Fails, FileTypeOK, SaveInv, disk
    <3>5. CASE SyncDir
      BY <3>0, <3>5, <1>r, <1>v DEF SyncDir, FileTypeOK, SaveInv
    <3>6. CASE Remove
      BY <3>0, <3>6, <1>r, <1>v DEF Remove, FileTypeOK, SaveInv, disk
    <3> QED BY <1>10, <3>1, <3>2, <3>3, <3>4, <3>5, <3>6 DEF SaveStep, WriteStep
  <2> QED BY <2>1, <2>2, <2>3
<1>11. CASE SaveReturns
  <2>1. ActorsTypeOK'
    BY <1>11, <1>g DEF SaveReturns, Goto, Return, ActorsTypeOK
  <2>2. ServedTypeOK'
    BY <1>11 DEF SaveReturns, ServedTypeOK, ctxVars, webVars
  <2> QED BY <1>11, <2>1, <2>2, NotSaving DEF SaveReturns
<1>12. CASE Interrupt
  <2>1. ActorsTypeOK'
    BY <1>12, <1>g DEF Interrupt, ActorsTypeOK
  <2>2. ServedTypeOK'
    BY <1>12 DEF Interrupt, Cancel, ServedTypeOK, webVars
  <2> QED BY <1>12, <2>1, <2>2, NotSaving DEF Interrupt
<1>13. CASE Exit
  <2>1. ActorsTypeOK' /\ ServedTypeOK'
    BY <1>13, <1>g DEF Exit, ActorsTypeOK, ServedTypeOK, actorVars, ctxVars, webVars
  <2>2. ProcTypeOK' /\ DeathsInv'
    BY <1>13, <1>c DEF Exit, ProcTypeOK, DeathsInv
  <2>3. step = "idle"
    BY <1>13 DEF Exit, SaveInv, Actors
  <2>4. FileTypeOK' /\ SaveInv'
    BY <1>13, <2>3 DEF Exit, FileTypeOK, SaveInv, fileVars, disk, call
  <2> QED BY <2>1, <2>2, <2>4
<1>14. ASSUME up = "running" /\ Dies /\ (WriterDies \/ PowerFails) PROVE IInv'
  <2>1. ActorsTypeOK'
    BY <1>14, <1>g DEF Dies, Fresh, ActorsTypeOK
  <2>2. ServedTypeOK'
    BY <1>14, <1>v DEF Dies, Fresh, ServedTypeOK
  <2>3. ProcTypeOK' /\ DeathsInv'
    BY <1>14, <1>c, LifecycleAssumption DEF Dies, ProcTypeOK, DeathsInv
  <2>4. FileTypeOK'
    <3>1. Abandon
      BY <1>14 DEF WriterDies, PowerFails
    <3>2. /\ content' \in Values \cup {Absent} /\ content' \in survivors'
          /\ survivors' \subseteq Values \cup {Absent}
      BY <1>14 DEF WriterDies, PowerFails, FileTypeOK
    <3>3. litter' \in Nat
      BY <3>1 DEF Abandon, FileTypeOK
    <3>4. synced' = FALSE /\ saveErr' = FALSE
      BY <3>1 DEF Abandon
    <3>5. synced' \in BOOLEAN /\ saveErr' \in BOOLEAN
      BY <3>4
    <3> QED BY <3>1, <3>2, <3>3, <3>5 DEF Abandon, FileTypeOK
  <2>5. SaveInv'
    BY <1>14 DEF WriterDies, PowerFails, Abandon, SaveInv
  <2> QED BY <2>1, <2>2, <2>3, <2>4, <2>5
<1>15. CASE Signal
  <2>1. CASE Dies /\ WriterDies
    BY <1>14, <1>15, <2>1 DEF Signal
  <2>2. CASE ~(Dies /\ WriterDies)
    <3>1. ActorsTypeOK' /\ ServedTypeOK'
      BY <1>15, <2>2, <1>g DEF Signal, Cancel, ActorsTypeOK, ServedTypeOK, actorVars, webVars
    <3>2. UNCHANGED <<procVars, fileVars>> /\ apc' = apc
      BY <1>15, <2>2 DEF Signal, actorVars
    <3> QED BY <3>1, <3>2, NotSaving
  <2> QED BY <2>1, <2>2
<1>16. CASE Kill
  BY <1>14, <1>16 DEF Kill
<1>17. CASE PowerFailure
  <2>1. CASE up = "running"
    BY <1>14, <1>17, <2>1 DEF PowerFailure
  <2>2. CASE up # "running"
    <3>1. ActorsTypeOK' /\ ServedTypeOK' /\ ProcTypeOK' /\ DeathsInv'
      BY <1>17, <2>2, <1>g DEF PowerFailure, ActorsTypeOK, ServedTypeOK, ProcTypeOK, DeathsInv,
         procVars, actorVars, ctxVars, webVars
    <3>2. FileTypeOK' /\ SaveInv'
      BY <1>17, <2>2 DEF PowerFailure, PowerFails, Abandon, FileTypeOK, SaveInv
    <3> QED BY <3>1, <3>2
  <2> QED BY <2>1, <2>2
<1>18. ASSUME Connect \/ (\E u \in Updates : AffiliateUpdate(u))
              \/ (\E r \in Requests : RequestBegins(r) \/ RequestEnds(r))
       PROVE  IInv'
  <2>1. ActorsTypeOK'
    BY <1>18, <1>g DEF Connect, AffiliateUpdate, RequestBegins, RequestEnds, ActorsTypeOK, actorVars
  <2>2. ServedTypeOK'
    BY <1>18, LifecycleAssumption
       DEF Connect, AffiliateUpdate, RequestBegins, RequestEnds, ServedTypeOK, ctxVars, webVars
  <2>3. UNCHANGED <<procVars, fileVars>> /\ apc' = apc
    BY <1>18 DEF Connect, AffiliateUpdate, RequestBegins, RequestEnds, actorVars
  <2> QED BY <2>1, <2>2, <2>3, NotSaving
<1> QED
  BY <1>1, <1>2, <1>3, <1>4, <1>5, <1>6, <1>7, <1>8, <1>9, <1>10, <1>11, <1>12, <1>13, <1>15,
     <1>16, <1>17, <1>18
  DEF Next, ActorStep, SnapshotStep, GroupStep, Environment

\* It holds throughout.
LEMMA IInvAlways == Spec => []IInv
BY InitIInv, IInvStep, PTL DEF Spec

\* Every variable keeps its type; the file in particular is never torn.
THEOREM TypeCorrect == Spec => []TypeOK
<1>1. IInv => TypeOK
  BY DEF IInv
<1> QED BY <1>1, IInvAlways, PTL

-----------------------------------------------------------------------------
(***************************************************************************)
(* The end of the process.                                                 *)
(***************************************************************************)
\* As long as no actor has returned, only a signal can have ended the context;
\* the shutdown of the web server and the last save wait for it; the client is
\* closed at the very end of the shutdown.
StopInv ==
  /\ first = "none" /\ ctxDone => signalled
  /\ first = "nil" => signalled
  /\ ShutdownBegun => ctxDone
  /\ apc["snapshot"] \in {"lastSave", "done"} => ctxDone
  /\ ~clientOpen => apc["graceful"] = "done"
  /\ RequestsKeepTheirClient

\* Before the first start nothing is being stopped.
LEMMA InitStop == Init => StopInv
BY DEF Init, StopInv, ShutdownBegun, RequestsKeepTheirClient, Actors

\* Every step of the actors, the run group and the clients keeps it.
LEMMA StopStep == IInv /\ StopInv /\ [Next]_vars => StopInv'
<1> SUFFICES ASSUME IInv, StopInv, [Next]_vars PROVE StopInv'
  OBVIOUS
<1>t. /\ apc \in [Actors -> {"start", "serve", "shutdown", "save", "lastSave", "done"}]
      /\ first \in {"none", "nil", "err"}
  BY DEF IInv, TypeOK, ActorsTypeOK
<1> USE DEF StopInv, ShutdownBegun, RequestsKeepTheirClient
<1>1. CASE UNCHANGED <<first, ctxDone, signalled, apc, clientOpen, inflight, timedOut>>
  BY <1>1
<1>2. ASSUME NEW a \in Listeners, Listen(a) PROVE StopInv'
  BY <1>2, <1>t DEF Listen, Goto, Return, ctxVars, webVars, Actors, Listeners
<1>3. CASE ServeBufconn
  BY <1>3, <1>t DEF ServeBufconn, Goto, ctxVars, webVars, Actors, Listeners
<1>4. ASSUME NEW a \in Listeners, ServeReturns(a) PROVE StopInv'
  BY <1>4, <1>t DEF ServeReturns, Return, ctxVars, webVars, Actors, Listeners
<1>5. CASE ShutdownBegins
  BY <1>5, <1>t DEF ShutdownBegins, Goto, ctxVars, webVars, Actors, Listeners
<1>6. CASE ShutdownEnds
  BY <1>6, <1>t DEF ShutdownEnds, Return, ctxVars, Actors, Listeners
<1>7. ASSUME NEW a \in {"cleanup", "ctx"}, ReturnsWhenDone(a) PROVE StopInv'
  BY <1>7, <1>t DEF ReturnsWhenDone, Return, ctxVars, webVars, Actors, Listeners
<1>8. CASE SnapshotTick \/ SnapshotStops
  BY <1>8, <1>t DEF SnapshotTick, SnapshotStops, Goto, ctxVars, webVars, Actors, Listeners
<1>9. CASE SaveReturns
  BY <1>9, <1>t DEF SaveReturns, Goto, Return, ctxVars, webVars, Actors, Listeners
<1>10. CASE Interrupt
  BY <1>10 DEF Interrupt, Cancel, webVars
<1>11. CASE Signal
  BY <1>11 DEF Signal, Cancel, Dies, Fresh, actorVars, webVars, Actors, Listeners
<1>12. CASE Fresh
  BY <1>12 DEF Fresh, Actors
<1>13. ASSUME NEW r \in Requests, RequestBegins(r) \/ RequestEnds(r) PROVE StopInv'
  BY <1>13 DEF RequestBegins, RequestEnds, actorVars, ctxVars
<1>14. ASSUME SaveStep \/ Exit \/ (\E a \in Listeners : AcceptFails(a)) \/ Connect
              \/ (\E u \in Updates : AffiliateUpdate(u)) \/ UNCHANGED vars
       PROVE  StopInv'
  BY <1>1, <1>14 DEF SaveStep, Exit, AcceptFails, Connect, AffiliateUpdate, vars, actorVars, ctxVars, webVars
<1>15. ASSUME Start \/ Kill \/ PowerFailure PROVE StopInv'
  BY <1>1, <1>12, <1>15 DEF Start, Kill, PowerFailure, Dies, actorVars, ctxVars, webVars
<1> QED
  BY <1>2, <1>3, <1>4, <1>5, <1>6, <1>7, <1>8, <1>9, <1>10, <1>11, <1>13, <1>14, <1>15
  DEF Next, ActorStep, SnapshotStep, GroupStep, Environment

\* It holds throughout.
LEMMA StopAlways == Spec => []StopInv
BY InitStop, StopStep, IInvAlways, PTL DEF Spec

\* The process exits with status 0 only after a signal (run.Group: the first
\* result, and the interrupt functions that follow it).
THEOREM QuietExitIsAsked == Spec => []QuietExitNeedsSignal
<1>1. StopInv => QuietExitNeedsSignal
  BY DEF StopInv, QuietExitNeedsSignal
<1> QED BY <1>1, StopAlways, PTL

\* WebServer.Shutdown closes the gRPC client under no request, unless it has
\* timed out.
THEOREM ClientOutlivesRequests == Spec => []RequestsKeepTheirClient
<1>1. StopInv => RequestsKeepTheirClient
  BY DEF StopInv
<1> QED BY <1>1, StopAlways, PTL

-----------------------------------------------------------------------------
(***************************************************************************)
(* The snapshot file.                                                      *)
(***************************************************************************)
\* Temporary files are left by processes that die in a save, and only by them.
LEMMA LitterStep == IInv /\ LitterIsFromDeaths /\ [Next]_vars => LitterIsFromDeaths'
<1> SUFFICES ASSUME IInv, LitterIsFromDeaths, [Next]_vars PROVE LitterIsFromDeaths'
  OBVIOUS
<1>t. litter \in Nat /\ deaths \in Nat
  BY LifecycleAssumption DEF IInv, TypeOK, FileTypeOK, ProcTypeOK
<1> USE DEF LitterIsFromDeaths
<1>1. CASE UNCHANGED <<litter, deaths>>
  BY <1>1
<1>2. ASSUME Dies /\ Abandon PROVE LitterIsFromDeaths'
  BY <1>2, <1>t DEF Dies, Abandon
<1>3. CASE Signal \/ Kill
  BY <1>1, <1>2, <1>3 DEF Signal, Kill, WriterDies, procVars, fileVars, disk
<1>4. CASE PowerFailure
  <2>1. CASE up = "running"
    BY <1>2, <1>4, <2>1 DEF PowerFailure, PowerFails
  <2>2. CASE up # "running"
    BY <1>1, <1>4, <2>2 DEF PowerFailure, PowerFails, Abandon, IInv, SaveInv, procVars
  <2> QED BY <2>1, <2>2
<1>5. CASE SaveStep
  BY <1>1, <1>5 DEF SaveStep, WriteStep, CreateTemp, Write, Sync, Rename, SyncDir, Remove, Fails, disk, procVars
<1>6. CASE SnapshotTick \/ SnapshotStops
  BY <1>1, <1>6 DEF SnapshotTick, SnapshotStops, BeginWrite, disk, procVars
<1>7. CASE ~(Signal \/ Kill \/ PowerFailure \/ SaveStep \/ SnapshotTick \/ SnapshotStops)
  BY <1>1, <1>7 DEF Next, vars, procVars, fileVars, disk, Start, ActorStep, Listen, ServeBufconn,
     ServeReturns, ShutdownBegins, ShutdownEnds, ReturnsWhenDone, SnapshotStep, SaveReturns,
     GroupStep, Interrupt, Exit, Environment, AcceptFails, Connect, AffiliateUpdate, RequestBegins,
     RequestEnds
<1> QED BY <1>3, <1>4, <1>5, <1>6, <1>7

\* The directory of the snapshot never holds more temporary files than processes
\* were killed: every other end of a save, failed or not, removes its own file.
THEOREM LitterIsBounded == Spec => []LitterIsFromDeaths
<1>1. Init => LitterIsFromDeaths
  BY DEF Init, FileInit, LitterIsFromDeaths
<1> QED BY <1>1, LitterStep, IInvAlways, PTL DEF Spec

\* Every step of a save, failure or crash is a step of an atomic file or leaves
\* it alone: before the rename the temporary file is synced and holds the data.
THEOREM SnapshotIsAtomic == Spec => FileIsAtomic
<1>1. Init => Atomic!Init
  BY DEF Init, FileInit, Atomic!Init
<1>2. IInv /\ [Next]_vars => [Atomic!Next]_<<content, survivors>>
  <2> SUFFICES ASSUME IInv, [Next]_vars, ~UNCHANGED <<content, survivors>>
               PROVE  Atomic!Next
    OBVIOUS
  <2>1. CASE SaveStep
    <3>1. CASE Rename
      <4>1. content' = temp /\ temp = data /\ data \in Values /\ survivors' = survivors \cup {temp}
        BY <3>1 DEF Rename, Fails, disk, IInv, SaveInv
      <4> QED BY <4>1 DEF Atomic!Next, Atomic!Replace
    <3>2. CASE SyncDir
      BY <3>2 DEF SyncDir, Atomic!Next, Atomic!Confirm
    <3>3. CASE CreateTemp \/ Write \/ Sync \/ Remove
      BY <3>3 DEF CreateTemp, Write, Sync, Remove, Fails, disk
    <3> QED BY <2>1, <3>1, <3>2, <3>3 DEF SaveStep, WriteStep
  <2>2. CASE PowerFailure
    BY <2>2 DEF PowerFailure, PowerFails, Atomic!Next, Atomic!PowerFailure
  <2>3. CASE ~SaveStep /\ ~PowerFailure
    BY <2>3 DEF Next, vars, fileVars, disk, Start, ActorStep, Listen, ServeBufconn, ServeReturns,
       ShutdownBegins, ShutdownEnds, ReturnsWhenDone, SnapshotTick, SnapshotStep, SnapshotStops,
       BeginWrite, SaveReturns, GroupStep, Interrupt, Exit, Environment, AcceptFails, Signal, Kill,
       WriterDies, Connect, AffiliateUpdate, RequestBegins, RequestEnds
  <2> QED BY <2>1, <2>2, <2>3
<1> QED BY <1>1, <1>2, IInvAlways, PTL DEF Spec, FileIsAtomic, Atomic!Spec

\* What has been confirmed is in every file a power failure can bring back, in
\* the memory of a process that saves, and so in what it is saving.
DurableInv ==
  /\ confirmed # Absent => \A v \in survivors : v # Absent /\ confirmed \subseteq v
  /\ confirmed # Absent /\ up = "running" /\ cfg.Snapshot => confirmed \subseteq mem
  /\ step # "idle" => data \subseteq mem /\ (confirmed # Absent => confirmed \subseteq data)
  /\ step = "syncDir" => content = data

\* Every step keeps it: a save is of the memory at its beginning, and a restart
\* loads the file that is there.
LEMMA DurableStep == IInv /\ DurableInv /\ [Next]_vars => DurableInv'
<1> SUFFICES ASSUME IInv, DurableInv, [Next]_vars PROVE DurableInv'
  OBVIOUS
<1>c. cfg' = cfg
  BY CfgFixed
<1>t. FileTypeOK /\ mem \in Values /\ SaveInv /\ cfg \in Configs
  BY DEF IInv, TypeOK, ServedTypeOK, ProcTypeOK
<1>v. Absent \notin Values
  BY SnapshotFileAssumption
<1> USE DEF DurableInv
<1>1. ASSUME UNCHANGED <<fileVars, up, mem>> PROVE DurableInv'
  BY <1>c, <1>1 DEF fileVars, disk, call
<1>2. CASE Start
  <2>1. step = "idle" /\ step' = "idle"
    BY <1>2, <1>t DEF Start, SaveInv, fileVars, call
  <2>2. confirmed # Absent => content # Absent /\ confirmed \subseteq content
    BY <1>t DEF FileTypeOK
  <2>3. confirmed' # Absent /\ cfg'.Snapshot => confirmed' \subseteq mem'
    BY <1>2, <1>c, <2>2 DEF Start, Loaded, fileVars, disk
  <2> QED BY <1>2, <2>1, <2>3 DEF Start, fileVars, disk
<1>3. CASE SnapshotTick \/ SnapshotStops
  <2>1. cfg.Snapshot /\ up = "running"
    BY <1>3, <1>t, SnapshotNeedsPath DEF SnapshotTick, SnapshotStops, Active
  <2>2. step' = "create" /\ data' = mem /\ UNCHANGED <<disk, up, mem>>
    BY <1>3 DEF SnapshotTick, SnapshotStops, BeginWrite, procVars
  <2> QED BY <1>c, <2>1, <2>2 DEF disk
<1>4. CASE SaveStep
  <2>u. UNCHANGED <<up, mem>>
    BY <1>4 DEF SaveStep, procVars
  <2>1. CASE CreateTemp
    BY <1>c, <2>1, <2>u DEF CreateTemp, disk
  <2>2. CASE Write
    BY <1>c, <2>2, <2>u DEF Write, Fails, disk
  <2>3. CASE Sync
    BY <1>c, <2>3, <2>u DEF Sync, Fails, disk
  <2>4. CASE Rename
    <3>1. CASE Fails("rename")
      BY <1>c, <2>u, <3>1 DEF Fails, disk
    <3>2. CASE ~Fails("rename")
      <4>1. /\ step = "rename" /\ step' = "syncDir" /\ content' = data /\ data \in Values
            /\ survivors' = survivors \cup {data} /\ data' = data /\ confirmed' = confirmed
        BY <1>t, <2>4, <3>2 DEF Rename, SaveInv
      <4> QED BY <1>c, <1>v, <2>u, <4>1
    <3> QED BY <3>1, <3>2
  <2>5. CASE SyncDir
    <3>1. /\ step = "syncDir" /\ step' = "remove" /\ content = data /\ data \in Values
          /\ up = "running" /\ data' = data
      BY <1>t, <2>5 DEF SyncDir, SaveInv
    <3> QED BY <1>c, <1>v, <2>5, <2>u, <3>1 DEF SyncDir
  <2>6. CASE Remove
    BY <1>c, <2>6, <2>u DEF Remove, disk
  <2> QED BY <1>4, <2>1, <2>2, <2>3, <2>4, <2>5, <2>6 DEF SaveStep, WriteStep
<1>5. CASE Exit
  BY <1>c, <1>5, <1>t DEF Exit, SaveInv, fileVars, disk, call, Actors
<1>6. ASSUME WriterDies /\ up' # "running" PROVE DurableInv'
  BY <1>6 DEF WriterDies, Abandon
<1>7. CASE Signal \/ Kill
  BY <1>1, <1>6, <1>7 DEF Signal, Kill, Dies, procVars
<1>8. CASE PowerFailure
  <2>1. up' # "running" /\ step' = "idle" /\ confirmed' = confirmed
    BY <1>8 DEF PowerFailure, PowerFails, Abandon, Dies, procVars
  <2>2. \A v \in survivors' : v \in survivors
    BY <1>8 DEF PowerFailure, PowerFails
  <2> QED BY <2>1, <2>2
<1>9. ASSUME NEW u \in Updates, AffiliateUpdate(u) PROVE DurableInv'
  <2>1. mem \subseteq mem' /\ UNCHANGED <<fileVars, up>>
    BY <1>9 DEF AffiliateUpdate, procVars
  <2> QED BY <1>c, <2>1 DEF fileVars, disk, call
<1>10. CASE ~(Start \/ SnapshotTick \/ SnapshotStops \/ SaveStep \/ Exit \/ Signal \/ Kill \/ PowerFailure
              \/ \E u \in Updates : AffiliateUpdate(u))
  BY <1>1, <1>10 DEF Next, vars, procVars, ActorStep, Listen, ServeBufconn, ServeReturns,
     ShutdownBegins, ShutdownEnds, ReturnsWhenDone, SnapshotStep, SaveReturns, GroupStep, Interrupt,
     Environment, AcceptFails, Connect, RequestBegins, RequestEnds
<1> QED BY <1>2, <1>3, <1>4, <1>5, <1>7, <1>8, <1>9, <1>10

\* It holds throughout.
LEMMA DurableAlways == Spec => []DurableInv
<1>1. Init => DurableInv
  BY DEF Init, FileInit, DurableInv
<1> QED BY <1>1, DurableStep, IInvAlways, PTL DEF Spec

\* What a confirmed save wrote stays, through kills, power failures and restarts.
THEOREM ConfirmedStays == Spec => []ConfirmedIsKept
<1>1. IInv /\ DurableInv => ConfirmedIsKept
  BY DEF IInv, TypeOK, FileTypeOK, DurableInv, ConfirmedIsKept
<1> QED BY <1>1, IInvAlways, DurableAlways, PTL

\* The last save begins after the context is done, so it is of no less than was
\* acknowledged by then; once it is over, the file holds that or it has failed.
LastSaveDone == apc["snapshot"] = "done" \/ (apc["snapshot"] = "lastSave" /\ step = "idle")

AckedInv ==
  /\ ctxDone => due \subseteq mem
  /\ step = "remove" => saveErr \/ content = data
  /\ up = "running" /\ apc["snapshot"] = "lastSave" /\ step # "idle" => due \subseteq data
  /\ up = "running" /\ LastSaveDone => saveErr \/ (content # Absent /\ due \subseteq content)

\* Every step keeps it: the snapshot actor reads the memory for its last save
\* after it has seen the context done.
LEMMA AckedStep == IInv /\ StopInv /\ DurableInv /\ AckedInv /\ [Next]_vars => AckedInv'
<1> SUFFICES ASSUME IInv, StopInv, DurableInv, AckedInv, [Next]_vars PROVE AckedInv'
  OBVIOUS
<1>t. /\ apc \in [Actors -> {"start", "serve", "shutdown", "save", "lastSave", "done"}]
      /\ SaveInv /\ "snapshot" \in Actors
  BY DEF IInv, TypeOK, ActorsTypeOK, Actors
<1>v. Absent \notin Values
  BY SnapshotFileAssumption
<1>s. /\ apc["snapshot"] \in {"lastSave", "done"} => ctxDone
      /\ step # "idle" => apc["snapshot"] \in {"save", "lastSave"}
  BY <1>t DEF StopInv, SaveInv
<1> USE DEF AckedInv, LastSaveDone
<1>1. ASSUME UNCHANGED <<up, fileVars, mem, due, ctxDone>>, apc'["snapshot"] = apc["snapshot"]
      PROVE  AckedInv'
  BY <1>1 DEF fileVars, disk, call
<1>2. ASSUME Fresh, up' # "running" \/ step' = "idle", step' # "remove" PROVE AckedInv'
  BY <1>2, <1>t DEF Fresh
<1>3. CASE Start
  <2>1. step' = "idle"
    BY <1>3, <1>t DEF Start, SaveInv, fileVars, call
  <2> QED BY <1>2, <1>3, <2>1 DEF Start
<1>4. CASE SnapshotTick \/ SnapshotStops
  <2>1. /\ step' = "create" /\ data' = mem /\ UNCHANGED <<disk, up, mem, due, ctxDone>>
        /\ apc'["snapshot"] \in {"save", "lastSave"}
    BY <1>4, <1>t DEF SnapshotTick, SnapshotStops, BeginWrite, Goto, procVars, ctxVars
  <2>2. apc'["snapshot"] = "lastSave" => ctxDone
    BY <1>4, <1>t DEF SnapshotTick, SnapshotStops, Goto
  <2> QED BY <2>1, <2>2 DEF disk
<1>5. CASE SaveStep
  <2>u. UNCHANGED <<up, apc, mem, due, ctxDone>> /\ apc["snapshot"] \in {"save", "lastSave"}
    BY <1>5 DEF SaveStep, Saving, procVars, actorVars, ctxVars
  <2>1. CASE CreateTemp
    BY <2>1, <2>u DEF CreateTemp, disk
  <2>2. CASE Write
    BY <2>2, <2>u DEF Write, Fails, disk
  <2>3. CASE Sync
    BY <2>3, <2>u DEF Sync, Fails, disk
  <2>4. CASE Rename
    BY <2>4, <2>u DEF Rename, Fails, disk
  <2>5. CASE SyncDir
    BY <2>5, <2>u DEF SyncDir, DurableInv
  <2>6. CASE Remove
    <3>1. data \in Values /\ step = "remove"
      BY <1>t, <2>6 DEF Remove, SaveInv
    <3> QED BY <1>v, <2>6, <2>u, <3>1 DEF Remove, disk
  <2> QED BY <1>5, <2>1, <2>2, <2>3, <2>4, <2>5, <2>6 DEF SaveStep, WriteStep
<1>6. CASE SaveReturns
  <2>1. UNCHANGED <<up, fileVars, mem, due, ctxDone>> /\ step = "idle"
    BY <1>6 DEF SaveReturns, procVars, ctxVars
  <2>2. \/ apc["snapshot"] = "save" /\ apc'["snapshot"] = "start"
        \/ apc["snapshot"] = "lastSave" /\ apc'["snapshot"] = "done"
    BY <1>6, <1>t DEF SaveReturns, Goto, Return
  <2> QED BY <2>1, <2>2 DEF fileVars, disk, call
<1>7. ASSUME Cancel, UNCHANGED <<up, apc, mem, fileVars>> PROVE AckedInv'
  BY <1>7, <1>s DEF Cancel, fileVars, disk, call
<1>8. CASE Interrupt
  BY <1>1, <1>7, <1>8 DEF Interrupt, procVars
<1>9. CASE Signal
  <2>1. CASE Dies /\ WriterDies
    BY <1>2, <2>1 DEF Dies, WriterDies, Abandon
  <2>2. CASE ~(Dies /\ WriterDies)
    BY <1>7, <1>9, <2>2 DEF Signal, procVars, actorVars
  <2> QED BY <2>1, <2>2
<1>10. CASE Kill
  BY <1>2, <1>10 DEF Kill, Dies, WriterDies, Abandon
<1>11. CASE PowerFailure
  <2>1. CASE Dies
    BY <1>2, <1>11, <2>1 DEF PowerFailure, PowerFails, Dies, Abandon
  <2>2. CASE ~Dies
    BY <1>11, <2>2 DEF PowerFailure, PowerFails, Abandon, procVars, ctxVars
  <2> QED BY <2>1, <2>2
<1>12. CASE Exit
  BY <1>12 DEF Exit, fileVars, disk, call, ctxVars
<1>13. ASSUME NEW u \in Updates, AffiliateUpdate(u) PROVE AckedInv'
  <2>1. mem \subseteq mem' /\ UNCHANGED <<fileVars, up, apc, due, ctxDone>>
    BY <1>13 DEF AffiliateUpdate, procVars, actorVars, ctxVars
  <2> QED BY <2>1 DEF fileVars, disk, call
<1>14. ASSUME (\E a \in Listeners : Listen(a) \/ ServeReturns(a) \/ AcceptFails(a)) \/ ServeBufconn
              \/ ShutdownBegins \/ ShutdownEnds \/ (\E a \in {"cleanup", "ctx"} : ReturnsWhenDone(a))
       PROVE  AckedInv'
  <2>1. UNCHANGED <<up, fileVars, mem, due, ctxDone>>
    BY <1>14 DEF Listen, ServeReturns, AcceptFails, ServeBufconn, ShutdownBegins, ShutdownEnds,
       ReturnsWhenDone, procVars, ctxVars
  <2>2. apc'["snapshot"] = apc["snapshot"]
    BY <1>14, <1>t DEF Listen, ServeReturns, AcceptFails, ServeBufconn, ShutdownBegins, ShutdownEnds,
       ReturnsWhenDone, Goto, Return, Listeners
  <2> QED BY <1>1, <2>1, <2>2
<1>15. ASSUME Connect \/ (\E r \in Requests : RequestBegins(r) \/ RequestEnds(r)) \/ UNCHANGED vars
       PROVE  AckedInv'
  BY <1>1, <1>15 DEF Connect, RequestBegins, RequestEnds, vars, procVars, actorVars, ctxVars
<1> QED
  BY <1>3, <1>4, <1>5, <1>6, <1>8, <1>9, <1>10, <1>11, <1>12, <1>13, <1>14, <1>15
  DEF Next, ActorStep, SnapshotStep, GroupStep, Environment

\* The file that a process leaves when it exits holds all it had acknowledged
\* when it was told to stop, unless that save failed: the run group waits for
\* the snapshot actor, and that for its last save.
THEOREM StopSavesAcked == Spec => AckedBeforeStopIsSaved
<1> DEFINE Saved == up = "running" /\ up' = "exited" /\ Runs("snapshot") /\ ~saveErr
                      => due \subseteq Loaded
<1>1. Init => AckedInv
  BY DEF Init, FileInit, AckedInv, LastSaveDone, Actors
<1>2. IInv /\ AckedInv /\ [Next]_vars => [Saved]_vars
  <2> SUFFICES ASSUME AckedInv, Next, up = "running", up' = "exited", Runs("snapshot"), ~saveErr
               PROVE  due \subseteq Loaded
    OBVIOUS
  <2>1. Exit
    BY DEF Next, procVars, Start, ActorStep, Listen, ServeBufconn, ServeReturns, ShutdownBegins,
       ShutdownEnds, ReturnsWhenDone, SnapshotTick, SnapshotStep, SnapshotStops, SaveStep,
       SaveReturns, GroupStep, Interrupt, Environment, AcceptFails, Signal, Dies, Kill,
       PowerFailure, Connect, AffiliateUpdate, RequestBegins, RequestEnds
  <2>2. apc["snapshot"] = "done"
    BY <2>1 DEF Exit, Actors
  <2> QED BY <2>2 DEF AckedInv, LastSaveDone, Loaded
<1> QED
  BY <1>1, <1>2, AckedStep, IInvAlways, StopAlways, DurableAlways, PTL DEF Spec, AckedBeforeStopIsSaved
=============================================================================
