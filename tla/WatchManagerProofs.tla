------------------------- MODULE WatchManagerProofs -------------------------
(***************************************************************************)
(* Theorems about WatchManager.tla for any finite set of browsers, any     *)
(* channel size and any number of responses.                               *)
(***************************************************************************)
EXTENDS WatchManager, FiniteSetTheorems, TLAPS

-----------------------------------------------------------------------------
(***************************************************************************)
(* The manager's books.  Between the two steps of Subscribe and of         *)
(* Unsubscribe the books are half written; the mutex keeps everyone else   *)
(* away, so who is between them is who holds it.                           *)
(***************************************************************************)
MutexInv == \A b \in Browsers : bpc[b] \in {"join", "release"} <=> mu = b

\* A browser that has not subscribed yet has not given an entry its name.
FreshInv == \A b \in Browsers : bpc[b] = "idle" => wpc[b] = "none" /\ ~cancelled[b]

BooksInv == TypeOK /\ MutexInv /\ FreshInv /\ EntryMatchesBrowsers

\* What a step of the goroutines leaves alone.
BooksUntouched ==
  /\ UNCHANGED <<mu, entry, refs, cancelled, clients, bpc>>
  /\ wpc' \in [Browsers -> {"none", "loop", "dial", "recv", "copy", "send", "wait", "done"}]
  /\ \A k \in Browsers : wpc'[k] = "none" <=> wpc[k] = "none"

\* A finite number of browsers is attached.
LEMMA AttachedFinite ==
  /\ IsFiniteSet(Attached)
  /\ Cardinality(Attached) \in Nat
<1>1. Attached \in SUBSET Browsers
  BY DEF Attached
<1>2. IsFiniteSet(Browsers)
  BY WatchManagerAssumption
<1>3. IsFiniteSet(Attached)
  BY <1>1, <1>2, FS_Subset
<1> QED BY <1>3, FS_CardinalityType

\* No browser, no entry.
LEMMA InitBooks == Init => BooksInv
<1> SUFFICES ASSUME Init PROVE BooksInv
  OBVIOUS
<1>1. ManagerTypeOK /\ WatcherTypeOK
  BY DEF Init, ManagerTypeOK, WatcherTypeOK
<1>2. BrowserTypeOK
  <2>1. <<>> \in Seq(Nat)
    OBVIOUS
  <2> QED BY <2>1 DEF Init, BrowserTypeOK
<1>3. MutexInv /\ FreshInv
  BY WatchManagerAssumption DEF Init, MutexInv, FreshInv
<1>4. Attached = {}
  BY DEF Init, Attached
<1>5. EntryMatchesBrowsers
  BY <1>4, WatchManagerAssumption DEF Init, EntryMatchesBrowsers
<1> QED BY <1>1, <1>2, <1>3, <1>5 DEF BooksInv, TypeOK

\* The steps that do not write the books: those of the goroutines, of the
\* handler's loop and of the surroundings.
LEMMA QuietStep ==
  ASSUME TypeOK,
         \/ \E k \in Browsers : WatcherStep(k) \/ Recv(k) \/ RecvEnds(k)
         \/ \E b \in Browsers : ShowEvent(b) \/ BrowserCancel(b)
         \/ RootCancel
         \/ UNCHANGED vars
  PROVE  BooksUntouched
<1> USE DEF TypeOK, WatcherTypeOK, BooksUntouched, entryVars, watcherVars
<1>1. ASSUME NEW k \in Browsers, CheckDone(k) \/ Watch(k) \/ Wait(k) \/ BroadcastCopy(k) \/ BroadcastEnd(k)
      PROVE  BooksUntouched
  BY <1>1 DEF CheckDone, Watch, Wait, BroadcastCopy, BroadcastEnd, Goto
<1>2. ASSUME NEW k \in Browsers, Recv(k) \/ RecvEnds(k) PROVE BooksUntouched
  BY <1>2 DEF Recv, RecvEnds, Goto
<1>3. ASSUME NEW k \in Browsers, NEW b \in Browsers, BroadcastSend(k, b) PROVE BooksUntouched
  BY <1>3 DEF BroadcastSend
<1>4. ASSUME NEW b \in Browsers, ShowEvent(b) \/ BrowserCancel(b) PROVE BooksUntouched
  BY <1>4 DEF ShowEvent, BrowserCancel
<1>5. CASE RootCancel \/ UNCHANGED vars
  BY <1>5 DEF RootCancel, vars
<1> QED BY <1>1, <1>2, <1>3, <1>4, <1>5 DEF WatcherStep

\* Types: the one step that needs more than types is Release, whose count must
\* not go below zero.
LEMMA TypeStep ==
  ASSUME BooksInv, [Next]_vars
  PROVE  TypeOK'
<1> USE DEF BooksInv, TypeOK, entryVars, watcherVars
<1>1. ManagerTypeOK'
  <2> USE DEF ManagerTypeOK
  <2>1. ASSUME NEW b \in Browsers, Subscribe(b) PROVE ManagerTypeOK'
    BY <2>1 DEF Subscribe
  <2>2. ASSUME NEW b \in Browsers, JoinHub(b) \/ Leave(b) \/ LeaveHub(b) PROVE ManagerTypeOK'
    BY <2>2 DEF JoinHub, Leave, LeaveHub
  <2>3. ASSUME NEW b \in Browsers, Release(b) PROVE ManagerTypeOK'
    <3>1. b \in Attached
      BY <2>3 DEF Release, Attached
    <3>2. entry \in Browsers /\ refs[entry] = Cardinality(Attached)
      BY <3>1 DEF EntryMatchesBrowsers
    <3>3. Cardinality(Attached) # 0
      BY <3>1, AttachedFinite, FS_EmptySet
    <3>4. refs[entry] - 1 \in Nat
      BY <3>2, <3>3, AttachedFinite
    <3> QED BY <2>3, <3>2, <3>4 DEF Release
  <2>4. ASSUME BooksUntouched PROVE ManagerTypeOK'
    BY <2>4 DEF BooksUntouched
  <2> QED BY <2>1, <2>2, <2>3, <2>4, QuietStep DEF Next, HandlerStep
<1>2. WatcherTypeOK'
  <2> USE DEF WatcherTypeOK
  <2>1. ASSUME NEW b \in Browsers, Subscribe(b) \/ ShowEvent(b) \/ BrowserCancel(b) \/ HandlerStep(b)
        PROVE  WatcherTypeOK'
    BY <2>1 DEF Subscribe, ShowEvent, BrowserCancel, HandlerStep, JoinHub, Leave, LeaveHub, Release
  <2>2. ASSUME NEW k \in Browsers, CheckDone(k) \/ Watch(k) \/ Wait(k) \/ RecvEnds(k) \/ BroadcastEnd(k)
        PROVE  WatcherTypeOK'
    BY <2>2 DEF CheckDone, Watch, Wait, RecvEnds, BroadcastEnd, Goto
  <2>3. ASSUME NEW k \in Browsers, Recv(k) PROVE WatcherTypeOK'
    BY <2>3 DEF Recv, Goto
  <2>4. ASSUME NEW k \in Browsers, BroadcastCopy(k) PROVE WatcherTypeOK'
    BY <2>4 DEF BroadcastCopy, Goto, ManagerTypeOK
  <2>5. ASSUME NEW k \in Browsers, NEW b \in Browsers, BroadcastSend(k, b) PROVE WatcherTypeOK'
    BY <2>5 DEF BroadcastSend
  <2>6. CASE RootCancel \/ UNCHANGED vars
    BY <2>6 DEF RootCancel, vars
  <2> QED BY <2>1, <2>2, <2>3, <2>4, <2>5, <2>6 DEF Next, WatcherStep
<1>3. BrowserTypeOK'
  <2> USE DEF BrowserTypeOK
  <2>1. ASSUME NEW b \in Browsers, Subscribe(b) \/ HandlerStep(b) PROVE BrowserTypeOK'
    BY <2>1 DEF Subscribe, HandlerStep, JoinHub, Leave, LeaveHub, Release
  <2>2. ASSUME NEW b \in Browsers, ShowEvent(b) PROVE BrowserTypeOK'
    <3>1. Head(ch[b]) \in Nat /\ Tail(ch[b]) \in Seq(Nat)
      BY <2>2 DEF ShowEvent
    <3> QED BY <2>2, <3>1 DEF ShowEvent
  <2>3. ASSUME NEW b \in Browsers, BrowserCancel(b) PROVE BrowserTypeOK'
    BY <2>3 DEF BrowserCancel
  <2>4. ASSUME NEW k \in Browsers, NEW b \in Browsers, BroadcastSend(k, b) PROVE BrowserTypeOK'
    <3>1. Append(ch[b], received[k]) \in Seq(Nat)
      BY DEF WatcherTypeOK
    <3> QED BY <2>4, <3>1 DEF BroadcastSend
  <2>5. ASSUME NEW k \in Browsers, CheckDone(k) \/ Watch(k) \/ Wait(k) \/ RecvEnds(k) \/ BroadcastEnd(k)
        PROVE  BrowserTypeOK'
    BY <2>5 DEF CheckDone, Watch, Wait, RecvEnds, BroadcastEnd
  <2>6. ASSUME NEW k \in Browsers, Recv(k) \/ BroadcastCopy(k) PROVE BrowserTypeOK'
    BY <2>6 DEF Recv, BroadcastCopy
  <2>7. CASE RootCancel \/ UNCHANGED vars
    BY <2>7 DEF RootCancel, vars
  <2> QED BY <2>1, <2>2, <2>3, <2>4, <2>5, <2>6, <2>7 DEF Next, WatcherStep
<1> QED BY <1>1, <1>2, <1>3

\* The mutex: whoever writes the books holds it, and only one does.
LEMMA MutexStep ==
  ASSUME BooksInv, [Next]_vars
  PROVE  MutexInv' /\ FreshInv'
<1> USE DEF BooksInv, TypeOK, ManagerTypeOK, WatcherTypeOK, BrowserTypeOK, MutexInv, FreshInv
<1>1. ASSUME NEW b \in Browsers, Subscribe(b) PROVE MutexInv' /\ FreshInv'
  BY <1>1, WatchManagerAssumption DEF Subscribe
<1>2. ASSUME NEW b \in Browsers, JoinHub(b) \/ Leave(b) \/ LeaveHub(b) PROVE MutexInv' /\ FreshInv'
  BY <1>2, WatchManagerAssumption DEF JoinHub, Leave, LeaveHub, entryVars, watcherVars
<1>3. ASSUME NEW b \in Browsers, Release(b) PROVE MutexInv' /\ FreshInv'
  <2>1. entry \in Browsers /\ wpc[entry] # "none"
    BY <1>3 DEF Release, EntryMatchesBrowsers, Attached
  <2> QED BY <1>3, <2>1, WatchManagerAssumption DEF Release, watcherVars
<1>4. ASSUME BooksUntouched PROVE MutexInv' /\ FreshInv'
  BY <1>4 DEF BooksUntouched
<1> QED BY <1>1, <1>2, <1>3, <1>4, QuietStep DEF Next, HandlerStep

\* The books themselves.
LEMMA EntryStep ==
  ASSUME BooksInv, [Next]_vars
  PROVE  EntryMatchesBrowsers'
<1> USE DEF BooksInv, TypeOK, ManagerTypeOK, WatcherTypeOK, BrowserTypeOK
<1>1. ASSUME NEW b \in Browsers, Subscribe(b), entry # None PROVE EntryMatchesBrowsers'
  <2>1. Attached' = Attached \cup {b} /\ b \notin Attached /\ InHub' = InHub
    BY <1>1 DEF Subscribe, Attached, InHub
  <2>2. Cardinality(Attached') = Cardinality(Attached) + 1
    BY <2>1, AttachedFinite, FS_AddElement
  <2>3. /\ UNCHANGED <<entry, wpc, cancelled, clients>>
        /\ refs'[entry] = refs[entry] + 1
    BY <1>1, WatchManagerAssumption DEF Subscribe
  <2> QED BY <1>1, <2>1, <2>2, <2>3 DEF EntryMatchesBrowsers
<1>2. ASSUME NEW b \in Browsers, Subscribe(b), entry = None PROVE EntryMatchesBrowsers'
  <2>1. Attached = {}
    BY <1>2 DEF EntryMatchesBrowsers
  <2>2. Attached' = {b} /\ InHub' = {}
    <3>1. bpc' = [bpc EXCEPT ![b] = "join"]
      BY <1>2 DEF Subscribe
    <3>2. \A d \in Browsers : bpc[d] \in {"idle", "done"}
      BY <2>1 DEF Attached
    <3>3. \A d \in Browsers : d # b => bpc'[d] \in {"idle", "done"}
      BY <3>1, <3>2
    <3>4. bpc'[b] = "join"
      BY <3>1
    <3> QED BY <3>3, <3>4 DEF Attached, InHub
  <2>3. Cardinality(Attached') = 1
    BY <2>2, FS_Singleton
  <2>4. /\ entry' = b
        /\ refs'[b] = 1
        /\ wpc'[b] = "loop"
        /\ \A k \in Browsers \ {b} : wpc'[k] = wpc[k]
        /\ UNCHANGED <<cancelled, clients>>
    BY <1>2 DEF Subscribe
  <2>5. ~cancelled[b]
    BY <1>2 DEF Subscribe, FreshInv
  <2>6. \A k \in Browsers : clients[k] = {} /\ (wpc[k] # "none" => cancelled[k])
    BY <1>2, WatchManagerAssumption DEF EntryMatchesBrowsers
  <2> QED BY <2>2, <2>3, <2>4, <2>5, <2>6, WatchManagerAssumption DEF EntryMatchesBrowsers
<1>3. ASSUME NEW b \in Browsers, JoinHub(b) PROVE EntryMatchesBrowsers'
  <2>1. Attached' = Attached /\ b \in Attached /\ InHub' = InHub \cup {b}
    BY <1>3 DEF JoinHub, Attached, InHub
  <2>2. entry \in Browsers
    BY <2>1 DEF EntryMatchesBrowsers
  <2> QED BY <1>3, <2>1, <2>2 DEF JoinHub, watcherVars, EntryMatchesBrowsers
<1>4. ASSUME NEW b \in Browsers, Leave(b) PROVE EntryMatchesBrowsers'
  <2>1. Attached' = Attached /\ InHub' = InHub
    BY <1>4 DEF Leave, Attached, InHub
  <2> QED BY <1>4, <2>1 DEF Leave, entryVars, watcherVars, EntryMatchesBrowsers
<1>5. ASSUME NEW b \in Browsers, LeaveHub(b) PROVE EntryMatchesBrowsers'
  <2>1. Attached' = Attached /\ InHub' = InHub \ {b} /\ entry \in Browsers
    BY <1>5 DEF LeaveHub, Attached, InHub
  <2> QED BY <1>5, <2>1 DEF LeaveHub, watcherVars, EntryMatchesBrowsers
<1>6. ASSUME NEW b \in Browsers, Release(b) PROVE EntryMatchesBrowsers'
  <2>1. /\ Attached' = Attached \ {b} /\ b \in Attached
        /\ InHub' = InHub /\ b \notin InHub
        /\ InHub' \subseteq Attached'
    BY <1>6 DEF Release, Attached, InHub
  <2>2. entry \in Browsers /\ refs[entry] = Cardinality(Attached)
    BY <2>1 DEF EntryMatchesBrowsers
  <2>3. Cardinality(Attached') = refs'[entry] /\ IsFiniteSet(Attached')
    BY <1>6, <2>1, <2>2, AttachedFinite, FS_RemoveElement DEF Release
  <2>4. Cardinality(Attached') \in Nat /\ (Cardinality(Attached') = 0 <=> Attached' = {})
    BY <2>3, FS_EmptySet, FS_CardinalityType
  <2>5. CASE refs'[entry] > 0
    <3>1. UNCHANGED <<entry, cancelled, clients, wpc>>
      BY <1>6, <2>3, <2>4, <2>5 DEF Release, watcherVars
    <3> QED BY <2>1, <2>2, <2>3, <2>4, <2>5, <3>1 DEF EntryMatchesBrowsers
  <2>6. CASE ~(refs'[entry] > 0)
    <3>1. /\ entry' = None
          /\ cancelled' = [cancelled EXCEPT ![entry] = TRUE]
          /\ UNCHANGED <<clients, wpc>>
      BY <1>6, <2>6 DEF Release, watcherVars
    <3>2. Attached' = {} /\ InHub = {}
      BY <2>1, <2>3, <2>4, <2>6
    <3> QED BY <2>2, <3>1, <3>2 DEF EntryMatchesBrowsers
  <2> QED BY <2>5, <2>6
<1>7. ASSUME BooksUntouched PROVE EntryMatchesBrowsers'
  <2>1. Attached' = Attached /\ InHub' = InHub
    BY <1>7 DEF BooksUntouched, Attached, InHub
  <2> QED BY <1>7, <2>1 DEF BooksUntouched, EntryMatchesBrowsers
<1> QED BY <1>1, <1>2, <1>3, <1>4, <1>5, <1>6, <1>7, QuietStep DEF Next, HandlerStep

\* The books are right throughout.
LEMMA BooksAlways == Spec => []BooksInv
<1>1. BooksInv /\ [Next]_vars => BooksInv'
  BY TypeStep, MutexStep, EntryStep DEF BooksInv
<1> QED BY <1>1, InitBooks, PTL DEF Spec

\* Every variable of the manager, the watchers and the browsers keeps its type;
\* in particular watchEntry.refs never goes below zero.
THEOREM TypeCorrect == Spec => []TypeOK
<1>1. BooksInv => TypeOK
  BY DEF BooksInv
<1> QED BY <1>1, BooksAlways, PTL

\* The manager's books are right at every step of Subscribe and Unsubscribe,
\* whatever the number of browsers that come and go.
THEOREM BooksAreRight == Spec => []EntryMatchesBrowsers
<1>1. BooksInv => EntryMatchesBrowsers
  BY DEF BooksInv
<1> QED BY <1>1, BooksAlways, PTL

-----------------------------------------------------------------------------
(***************************************************************************)
(* What a browser has been sent.  A copy of the clients that a watcher is  *)
(* still working through may name browsers that have left meanwhile, but   *)
(* none that has yet to come: a handler serves one request.                *)
(***************************************************************************)
FeedTypeInv ==
  /\ ch \in [Browsers -> Seq(Nat \ {0})]
  /\ \A b \in Browsers : bpc[b] \in {"idle", "join"} => seen[b] = 0 /\ ch[b] = <<>>
  /\ \A k \in Browsers : wpc[k] \in {"copy", "send"} => received[k] > 0

TargetsInv ==
  \A k \in Browsers :
    /\ wpc[k] # "send" => targets[k] = {}
    /\ \A b \in targets[k] : /\ bpc[b] \notin {"idle", "join"}
                             /\ k # entry => bpc[b] = "done"

FeedInv == FeedTypeInv /\ TargetsInv /\ NoSilentGap

\* An unbroken run, said without joining sequences: v was shown, s waits, and
\* the last of them is l.
Linked(v, s, l) ==
  /\ \A i \in 2..Len(s) : s[i] = s[i - 1] + 1
  /\ Len(s) # 0 => s[Len(s)] = l /\ (v # 0 => s[1] = v + 1)
  /\ Len(s) = 0 /\ v # 0 => v = l

\* Linked is what it says.
LEMMA LinkedRun ==
  ASSUME NEW v \in Nat, NEW s \in Seq(Nat), NEW l \in Int
  PROVE  LET run == (IF v = 0 THEN <<>> ELSE <<v>>) \o s
         IN /\ \A i \in 2..Len(run) : run[i] = run[i - 1] + 1
            /\ run # <<>> => run[Len(run)] = l
         <=> Linked(v, s, l)
<1>1. CASE v = 0
  BY <1>1 DEF Linked
<1>2. CASE v # 0
  <2> DEFINE run == <<v>> \o s
  <2>1. /\ Len(run) = Len(s) + 1
        /\ run[1] = v
        /\ \A i \in 1..Len(s) : run[i + 1] = s[i]
        /\ run # <<>>
    OBVIOUS
  <2> HIDE DEF run
  <2>2. (\A i \in 2..Len(run) : run[i] = run[i - 1] + 1)
        <=> /\ \A i \in 2..Len(s) : s[i] = s[i - 1] + 1
            /\ s # <<>> => s[1] = v + 1
    <3>1. ASSUME \A i \in 2..Len(run) : run[i] = run[i - 1] + 1
          PROVE  /\ \A i \in 2..Len(s) : s[i] = s[i - 1] + 1
                 /\ s # <<>> => s[1] = v + 1
      <4>1. ASSUME NEW i \in 2..Len(s) PROVE s[i] = s[i - 1] + 1
        <5>1. i \in 1..Len(s) /\ i - 1 \in 1..Len(s) /\ i + 1 \in 2..Len(run)
          BY <2>1
        <5>2. (i - 1) + 1 = i /\ (i + 1) - 1 = i
          OBVIOUS
        <5>3. run[i + 1] = s[i] /\ run[i] = s[i - 1]
          BY <2>1, <5>1, <5>2
        <5>4. run[i + 1] = run[i] + 1
          BY <3>1, <5>1, <5>2
        <5> QED BY <5>3, <5>4
      <4>2. ASSUME s # <<>> PROVE s[1] = v + 1
        <5>1. 2 \in 2..Len(run) /\ run[1 + 1] = s[1]
          BY <2>1, <4>2
        <5> QED BY <2>1, <3>1, <5>1
      <4> QED BY <4>1, <4>2
    <3>2. ASSUME \A i \in 2..Len(s) : s[i] = s[i - 1] + 1,
                 s # <<>> => s[1] = v + 1,
                 NEW i \in 2..Len(run)
          PROVE  run[i] = run[i - 1] + 1
      <4>1. i - 1 \in 1..Len(s) /\ run[(i - 1) + 1] = s[i - 1]
        BY <2>1
      <4>2. CASE i = 2
        BY <2>1, <3>2, <4>1, <4>2
      <4>3. CASE i # 2
        <5>1. i - 2 \in 1..Len(s) /\ i - 1 \in 2..Len(s)
          BY <2>1, <4>3
        <5>2. (i - 2) + 1 = i - 1 /\ (i - 1) - 1 = i - 2 /\ (i - 1) + 1 = i
          OBVIOUS
        <5>3. run[i - 1] = s[i - 2]
          BY <2>1, <5>1, <5>2
        <5>4. s[i - 1] = s[i - 2] + 1
          BY <3>2, <5>1, <5>2
        <5> QED BY <4>1, <5>2, <5>3, <5>4
      <4> QED BY <4>2, <4>3
    <3> QED BY <3>1, <3>2
  <2>3. run[Len(run)] = IF Len(s) = 0 THEN v ELSE s[Len(s)]
    BY <2>1
  <2>4. s # <<>> <=> Len(s) # 0
    OBVIOUS
  <2> QED BY <1>2, <2>1, <2>2, <2>3, <2>4 DEF Linked, run
<1> QED BY <1>1, <1>2

\* The handler shows the first event of the channel.
LEMMA LinkedShow ==
  ASSUME NEW v \in Nat, NEW s \in Seq(Nat \ {0}), NEW l \in Int, s # <<>>, Linked(v, s, l)
  PROVE  Linked(Head(s), Tail(s), l)
<1> DEFINE t == Tail(s)
<1>1. /\ Head(s) = s[1] /\ Len(t) = Len(s) - 1
      /\ \A i \in 1..Len(t) : t[i] = s[i + 1]
      /\ Len(s) \in Nat \ {0}
  OBVIOUS
<1> HIDE DEF t
<1>2. ASSUME NEW i \in 2..Len(t) PROVE t[i] = t[i - 1] + 1
  <2>1. i \in 1..Len(t) /\ i - 1 \in 1..Len(t) /\ i + 1 \in 2..Len(s)
    BY <1>1
  <2>2. (i - 1) + 1 = i /\ (i + 1) - 1 = i
    OBVIOUS
  <2>3. t[i] = s[i + 1] /\ t[i - 1] = s[i]
    BY <1>1, <2>1, <2>2
  <2> QED BY <2>1, <2>2, <2>3 DEF Linked
<1>3. ASSUME Len(t) # 0 PROVE t[Len(t)] = l /\ t[1] = s[1] + 1
  <2>1. Len(t) \in 1..Len(t) /\ 2 \in 2..Len(s)
    BY <1>1, <1>3
  <2>2. t[Len(t)] = s[Len(s)] /\ t[1] = s[2]
    BY <1>1, <2>1
  <2> QED BY <2>1, <2>2 DEF Linked
<1>4. ASSUME Len(t) = 0 PROVE s[1] = l
  <2>1. Len(s) = 1
    BY <1>1, <1>4
  <2> QED BY <2>1 DEF Linked
<1> QED BY <1>1, <1>2, <1>3, <1>4 DEF Linked, t

\* Broadcast appends the next response.
LEMMA LinkedAppend ==
  ASSUME NEW v \in Nat, NEW s \in Seq(Nat), NEW l \in Int, Linked(v, s, l), l + 1 \in Nat
  PROVE  Linked(v, Append(s, l + 1), l + 1)
<1> DEFINE t == Append(s, l + 1)
<1>1. /\ Len(t) = Len(s) + 1 /\ t[Len(t)] = l + 1 /\ t # <<>>
      /\ \A i \in 1..Len(s) : t[i] = s[i]
      /\ Len(s) \in Nat
  OBVIOUS
<1> HIDE DEF t
<1>2. ASSUME NEW i \in 2..Len(t) PROVE t[i] = t[i - 1] + 1
  <2>1. CASE i <= Len(s)
    BY <1>1, <2>1 DEF Linked
  <2>2. CASE i > Len(s)
    <3>1. i = Len(t) /\ i - 1 = Len(s) /\ s # <<>> /\ i - 1 \in 1..Len(s)
      BY <1>1, <2>2
    <3> QED BY <1>1, <3>1 DEF Linked
  <2> QED BY <2>1, <2>2
<1>3. ASSUME v # 0 PROVE t[1] = v + 1
  <2>1. CASE s = <<>>
    BY <1>1, <1>3, <2>1 DEF Linked
  <2>2. CASE s # <<>>
    BY <1>1, <1>3, <2>2 DEF Linked
  <2> QED BY <2>1, <2>2
<1> QED BY <1>1, <1>2, <1>3 DEF Linked, t

\* What NoSilentGap says of one browser, in these terms.
LEMMA UnbrokenIsLinked ==
  ASSUME TypeOK, NEW b \in Browsers, entry \in Browsers
  PROVE  /\ Behind(b) \in {0, 1}
         /\ Unbroken(b) <=> Linked(seen[b], ch[b], received[entry] - Behind(b))
<1>1. Behind(b) \in {0, 1}
  BY DEF Behind
<1>2. seen[b] \in Nat /\ ch[b] \in Seq(Nat) /\ received[entry] - Behind(b) \in Int
  BY <1>1 DEF TypeOK, WatcherTypeOK, BrowserTypeOK
<1> QED BY <1>1, <1>2, LinkedRun DEF Unbroken

\* Whoever is in the hub is in the hub of the entry.
LEMMA HubHasEntry ==
  ASSUME BooksInv, InHub # {}
  PROVE  entry \in Browsers /\ clients[entry] = InHub
<1>1. Attached # {}
  BY DEF InHub, Attached
<1> QED BY <1>1 DEF BooksInv, EntryMatchesBrowsers, TypeOK, ManagerTypeOK

\* Nothing has been received or broadcast.
LEMMA InitFeed == Init => FeedInv
<1> SUFFICES ASSUME Init PROVE FeedInv
  OBVIOUS
<1>1. FeedTypeInv
  <2>1. <<>> \in Seq(Nat \ {0})
    OBVIOUS
  <2> QED BY <2>1 DEF Init, FeedTypeInv
<1>2. TargetsInv
  BY DEF Init, TargetsInv
<1>3. InHub = {}
  BY DEF Init, InHub
<1> QED BY <1>1, <1>2, <1>3 DEF FeedInv, NoSilentGap

\* A browser that has not joined the hub has been given nothing.
LEMMA FeedTypeStep ==
  ASSUME BooksInv, FeedInv, [Next]_vars
  PROVE  FeedTypeInv'
<1> USE DEF BooksInv, TypeOK, WatcherTypeOK, BrowserTypeOK, FeedInv, FeedTypeInv, entryVars, watcherVars
<1>1. ASSUME NEW b \in Browsers, Subscribe(b) \/ HandlerStep(b) PROVE FeedTypeInv'
  BY <1>1 DEF Subscribe, HandlerStep, JoinHub, Leave, LeaveHub, Release
<1>2. ASSUME NEW b \in Browsers, ShowEvent(b) PROVE FeedTypeInv'
  <2>1. Tail(ch[b]) \in Seq(Nat \ {0})
    BY <1>2 DEF ShowEvent
  <2> QED BY <1>2, <2>1 DEF ShowEvent
<1>3. ASSUME NEW b \in Browsers, BrowserCancel(b) PROVE FeedTypeInv'
  BY <1>3 DEF BrowserCancel
<1>4. ASSUME NEW k \in Browsers, NEW b \in Browsers, BroadcastSend(k, b) PROVE FeedTypeInv'
  <2>1. received[k] \in Nat \ {0} /\ bpc[b] \notin {"idle", "join"}
    BY <1>4 DEF BroadcastSend, TargetsInv
  <2>2. Append(ch[b], received[k]) \in Seq(Nat \ {0})
    BY <2>1
  <2> QED BY <1>4, <2>1, <2>2 DEF BroadcastSend
<1>5. ASSUME NEW k \in Browsers, CheckDone(k) \/ Watch(k) \/ Wait(k) \/ RecvEnds(k) \/ BroadcastEnd(k)
      PROVE  FeedTypeInv'
  BY <1>5 DEF CheckDone, Watch, Wait, RecvEnds, BroadcastEnd, Goto
<1>6. ASSUME NEW k \in Browsers, Recv(k) \/ BroadcastCopy(k) PROVE FeedTypeInv'
  <2>1. CASE Recv(k)
    <3>1. \A j \in Browsers \ {k} : received'[j] = received[j] /\ wpc'[j] = wpc[j]
      BY <2>1 DEF Recv, Goto
    <3>2. received'[k] > 0
      BY <2>1 DEF Recv
    <3>3. \A j \in Browsers : wpc'[j] \in {"copy", "send"} => received'[j] > 0
      <4> TAKE j \in Browsers
      <4>1. CASE j = k
        BY <3>2, <4>1
      <4>2. CASE j # k
        BY <3>1, <4>2
      <4> QED BY <4>1, <4>2
    <3> QED BY <2>1, <3>3 DEF Recv
  <2>2. CASE BroadcastCopy(k)
    BY <2>2 DEF BroadcastCopy, Goto
  <2> QED BY <1>6, <2>1, <2>2
<1>7. CASE RootCancel \/ UNCHANGED vars
  BY <1>7 DEF RootCancel, vars
<1> QED BY <1>1, <1>2, <1>3, <1>4, <1>5, <1>6, <1>7 DEF Next, WatcherStep

\* Whom a broadcast has still to reach has joined the hub, and one that is not
\* of the current entry reaches only browsers that have left.
LEMMA TargetsStep ==
  ASSUME BooksInv, FeedInv, [Next]_vars
  PROVE  TargetsInv'
<1> USE DEF BooksInv, TypeOK, ManagerTypeOK, WatcherTypeOK, BrowserTypeOK, FeedInv, TargetsInv, entryVars, watcherVars
<1>1. ASSUME NEW b \in Browsers, Subscribe(b) PROVE TargetsInv'
  <2>1. targets[b] = {}
    BY <1>1 DEF Subscribe, FreshInv
  <2> QED BY <1>1, <2>1, WatchManagerAssumption DEF Subscribe
<1>2. ASSUME NEW b \in Browsers, JoinHub(b) \/ Leave(b) \/ LeaveHub(b) PROVE TargetsInv'
  BY <1>2 DEF JoinHub, Leave, LeaveHub
<1>3. ASSUME NEW b \in Browsers, Release(b) PROVE TargetsInv'
  <2>1. EntryMatchesBrowsers'
    BY EntryStep
  <2>2. CASE entry' = entry
    BY <1>3, <2>2 DEF Release
  <2>3. CASE entry' = None
    <3>1. \A d \in Browsers : bpc'[d] \in {"idle", "done"}
      BY <2>1, <2>3 DEF EntryMatchesBrowsers, Attached
    <3> QED BY <1>3, <3>1 DEF Release
  <2> QED BY <1>3, <2>2, <2>3 DEF Release
<1>4. ASSUME NEW k \in Browsers, BroadcastCopy(k) PROVE TargetsInv'
  <2>1. \A b \in clients[k] : k = entry /\ bpc[b] \in {"streaming", "leave"}
    <3>1. CASE k = entry
      BY <3>1, WatchManagerAssumption DEF EntryMatchesBrowsers, InHub
    <3>2. CASE k # entry
      BY <3>2 DEF EntryMatchesBrowsers
    <3> QED BY <3>1, <3>2
  <2> QED BY <1>4, <2>1 DEF BroadcastCopy, Goto
<1>5. ASSUME NEW k \in Browsers, NEW b \in Browsers, BroadcastSend(k, b) PROVE TargetsInv'
  BY <1>5 DEF BroadcastSend
<1>6. ASSUME NEW k \in Browsers, CheckDone(k) \/ Watch(k) \/ Wait(k) \/ RecvEnds(k) \/ Recv(k) \/ BroadcastEnd(k)
      PROVE  TargetsInv'
  BY <1>6 DEF CheckDone, Watch, Wait, RecvEnds, Recv, BroadcastEnd, Goto
<1>7. ASSUME NEW b \in Browsers, ShowEvent(b) \/ BrowserCancel(b) PROVE TargetsInv'
  BY <1>7 DEF ShowEvent, BrowserCancel
<1>8. CASE RootCancel \/ UNCHANGED vars
  BY <1>8 DEF RootCancel, vars
<1> QED BY <1>1, <1>2, <1>3, <1>4, <1>5, <1>6, <1>7, <1>8 DEF Next, HandlerStep, WatcherStep

\* Every step keeps the runs unbroken: a broadcast is queued for everyone in the
\* hub, one after the other, and an update dropped at a full channel is counted.
LEMMA GapStep ==
  ASSUME BooksInv, FeedInv, [Next]_vars
  PROVE  NoSilentGap'
<1> SUFFICES ASSUME dropped' = 0, NEW d \in InHub' PROVE Unbroken(d)'
  BY DEF NoSilentGap
<1> DEFINE end == received[entry] - Behind(d)
<1>1. TypeOK' /\ BooksInv' /\ TypeOK /\ d \in Browsers
  BY TypeStep, MutexStep, EntryStep DEF BooksInv, InHub
<1>2. entry' \in Browsers /\ clients'[entry'] = InHub'
  <2>1. Attached' # {} /\ EntryMatchesBrowsers' /\ ManagerTypeOK'
    BY <1>1 DEF BooksInv, TypeOK, InHub, Attached
  <2> QED BY <2>1 DEF EntryMatchesBrowsers, ManagerTypeOK
<1>3. /\ Behind(d)' \in {0, 1}
      /\ Unbroken(d)' <=> Linked(seen'[d], ch'[d], received'[entry'] - Behind(d)')
  <2> DEFINE endp == received'[entry'] - Behind(d)'
  <2>1. Behind(d)' \in {0, 1}
    BY DEF Behind
  <2>2. seen'[d] \in Nat /\ ch'[d] \in Seq(Nat) /\ endp \in Int
    BY <1>1, <1>2, <2>1 DEF TypeOK, WatcherTypeOK, BrowserTypeOK
  <2> QED BY <2>1, <2>2, LinkedRun DEF Unbroken
<1> SUFFICES Linked(seen'[d], ch'[d], received'[entry'] - Behind(d)')
  BY <1>3
<1>4. dropped = 0
  BY <1>1 DEF TypeOK, WatcherTypeOK, Next, vars, entryVars, watcherVars, Subscribe, ShowEvent, BrowserCancel,
     HandlerStep, JoinHub, Leave, LeaveHub, Release, WatcherStep, CheckDone, Watch, Wait,
     BroadcastCopy, BroadcastSend, BroadcastEnd, Recv, RecvEnds, RootCancel
<1>5. ASSUME d \in InHub
      PROVE  /\ entry \in Browsers /\ clients[entry] = InHub
             /\ Behind(d) \in {0, 1} /\ end \in Int
             /\ Linked(seen[d], ch[d], end)
  <2>1. entry \in Browsers /\ clients[entry] = InHub
    BY <1>5, HubHasEntry
  <2>2. Unbroken(d)
    BY <1>4, <1>5 DEF FeedInv, NoSilentGap
  <2>3. Behind(d) \in {0, 1} /\ Linked(seen[d], ch[d], end)
    BY <1>1, <2>1, <2>2, UnbrokenIsLinked
  <2>4. received[entry] \in Nat
    BY <1>1, <2>1 DEF TypeOK, WatcherTypeOK
  <2> QED BY <2>1, <2>3, <2>4
<1>6. ASSUME d \in InHub, UNCHANGED <<entry, watcherVars, seen, ch>>
      PROVE  Linked(seen'[d], ch'[d], received'[entry'] - Behind(d)')
  <2>1. Behind(d)' = Behind(d)
    BY <1>6 DEF Behind, watcherVars
  <2> QED BY <1>5, <1>6, <2>1 DEF watcherVars
<1>7. ASSUME d \in InHub, UNCHANGED <<entry, seen, ch>>,
             NEW k \in Browsers, k # entry,
             \A j \in Browsers \ {k} : wpc'[j] = wpc[j] /\ received'[j] = received[j] /\ targets'[j] = targets[j]
      PROVE  Linked(seen'[d], ch'[d], received'[entry'] - Behind(d)')
  <2>1. Behind(d)' = Behind(d) /\ received'[entry] = received[entry]
    BY <1>5, <1>7 DEF Behind
  <2> QED BY <1>5, <1>7, <2>1
<1> HIDE DEF end
<1> USE <1>1 DEF TypeOK, ManagerTypeOK, WatcherTypeOK, BrowserTypeOK
<1>8. ASSUME NEW b \in Browsers, Subscribe(b) PROVE Linked(seen'[d], ch'[d], received'[entry'] - Behind(d)')
  <2>1. d \in InHub
    BY <1>8 DEF Subscribe, InHub
  <2>2. entry \in Browsers
    BY <2>1, <1>5
  <2> QED BY <1>6, <1>8, <2>1, <2>2, WatchManagerAssumption DEF Subscribe, watcherVars
<1>9. ASSUME NEW b \in Browsers, JoinHub(b) PROVE Linked(seen'[d], ch'[d], received'[entry'] - Behind(d)')
  <2>1. CASE d = b
    <3>1. seen'[d] = 0 /\ ch'[d] = <<>>
      BY <1>9, <2>1 DEF JoinHub, FeedInv, FeedTypeInv
    <3> QED BY <3>1 DEF Linked
  <2>2. CASE d # b
    <3>1. d \in InHub
      BY <1>9, <2>2 DEF JoinHub, InHub
    <3> QED BY <1>6, <1>9, <3>1 DEF JoinHub
  <2> QED BY <2>1, <2>2
<1>10. ASSUME NEW b \in Browsers, Leave(b) \/ LeaveHub(b) \/ Release(b) \/ BrowserCancel(b)
       PROVE  Linked(seen'[d], ch'[d], received'[entry'] - Behind(d)')
  <2>1. d \in InHub
    BY <1>10 DEF Leave, LeaveHub, Release, BrowserCancel, InHub
  <2>2. entry' = entry
    BY <1>2, <1>10, WatchManagerAssumption DEF Leave, LeaveHub, Release, BrowserCancel, entryVars
  <2> QED BY <1>6, <1>10, <2>1, <2>2 DEF Leave, LeaveHub, Release, BrowserCancel
<1>11. ASSUME NEW b \in Browsers, ShowEvent(b) PROVE Linked(seen'[d], ch'[d], received'[entry'] - Behind(d)')
  <2>1. d \in InHub
    BY <1>11 DEF ShowEvent, InHub
  <2>2. Behind(d)' = Behind(d) /\ UNCHANGED <<entry, received>>
    BY <1>11 DEF ShowEvent, Behind, watcherVars, entryVars
  <2>3. CASE d = b
    <3>1. ch[d] \in Seq(Nat \ {0}) /\ ch[d] # <<>> /\ seen[d] \in Nat
      BY <1>11, <2>3 DEF ShowEvent, FeedInv, FeedTypeInv
    <3>2. Linked(Head(ch[d]), Tail(ch[d]), end)
      BY <1>5, <2>1, <3>1, LinkedShow
    <3> QED BY <1>11, <2>2, <2>3, <3>2 DEF ShowEvent, end
  <2>4. CASE d # b
    BY <1>5, <1>11, <2>1, <2>2, <2>4 DEF ShowEvent, end
  <2> QED BY <2>3, <2>4
<1>12. ASSUME NEW k \in Browsers, CheckDone(k) \/ Watch(k) \/ Wait(k) \/ RecvEnds(k) \/ BroadcastEnd(k)
       PROVE  Linked(seen'[d], ch'[d], received'[entry'] - Behind(d)')
  <2>1. d \in InHub /\ UNCHANGED <<entry, received, targets, seen, ch>>
    BY <1>12 DEF CheckDone, Watch, Wait, RecvEnds, BroadcastEnd, InHub, entryVars
  <2>2. Behind(d)' = Behind(d)
    BY <1>5, <1>12, <2>1 DEF CheckDone, Watch, Wait, RecvEnds, BroadcastEnd, Goto, Behind
  <2> QED BY <1>5, <2>1, <2>2 DEF end
<1>13. ASSUME NEW k \in Browsers, Recv(k) PROVE Linked(seen'[d], ch'[d], received'[entry'] - Behind(d)')
  <2>1. d \in InHub /\ UNCHANGED <<entry, seen, ch>>
    BY <1>13 DEF Recv, InHub, entryVars
  <2>2. CASE k = entry
    <3>1. Behind(d) = 0 /\ Behind(d)' = 1 /\ received'[entry] = received[entry] + 1
      BY <1>13, <2>1, <2>2 DEF Recv, Goto, Behind
    <3>2. received'[entry] - Behind(d)' = end
      BY <2>2, <3>1 DEF end
    <3> QED BY <1>5, <2>1, <3>2
  <2>3. CASE k # entry
    BY <1>7, <1>13, <2>1, <2>3 DEF Recv, Goto
  <2> QED BY <2>2, <2>3
<1>14. ASSUME NEW k \in Browsers, BroadcastCopy(k) PROVE Linked(seen'[d], ch'[d], received'[entry'] - Behind(d)')
  <2>1. d \in InHub /\ UNCHANGED <<entry, received, seen, ch>>
    BY <1>14 DEF BroadcastCopy, InHub, entryVars
  <2>2. CASE k = entry
    <3>1. Behind(d) = 1 /\ Behind(d)' = 1
      BY <1>5, <1>14, <2>1, <2>2 DEF BroadcastCopy, Goto, Behind
    <3> QED BY <1>5, <2>1, <3>1 DEF end
  <2>3. CASE k # entry
    BY <1>7, <1>14, <2>1, <2>3 DEF BroadcastCopy, Goto
  <2> QED BY <2>2, <2>3
<1>15. ASSUME NEW k \in Browsers, NEW b \in Browsers, BroadcastSend(k, b)
       PROVE  Linked(seen'[d], ch'[d], received'[entry'] - Behind(d)')
  <2>1. d \in InHub /\ UNCHANGED <<entry, received, wpc, seen>>
    BY <1>15 DEF BroadcastSend, InHub, entryVars
  <2>2. ch' = [ch EXCEPT ![b] = Append(ch[b], received[k])]
    <3>1. dropped' # dropped + 1
      BY <1>4
    <3> QED BY <1>15, <3>1 DEF BroadcastSend
  <2>3. CASE k = entry /\ b = d
    <3>1. Behind(d) = 1 /\ Behind(d)' = 0
      BY <1>15, <2>1, <2>3 DEF BroadcastSend, Behind
    <3>2. received[entry] = end + 1 /\ received'[entry'] - Behind(d)' = end + 1 /\ received[entry] \in Nat
      <4>1. received[entry] \in Nat /\ received'[entry'] = received[entry]
        BY <2>1, <2>3
      <4>2. end = received[entry] - 1
        BY <3>1 DEF end
      <4>3. received'[entry'] - Behind(d)' = received[entry] - 0
        BY <3>1, <4>1
      <4>4. \A n \in Nat : n = (n - 1) + 1 /\ n - 0 = n
        OBVIOUS
      <4>5. received[entry] = end + 1
        BY <4>1, <4>2, <4>4
      <4>6. received'[entry'] - Behind(d)' = received[entry]
        BY <4>1, <4>3, <4>4
      <4> QED BY <4>1, <4>5, <4>6
    <3>3. Linked(seen[d], Append(ch[d], end + 1), end + 1)
      BY <1>5, <2>1, <3>2, LinkedAppend
    <3> QED BY <2>1, <2>2, <2>3, <3>2, <3>3
  <2>4. CASE k = entry /\ b # d
    <3>1. Behind(d)' = Behind(d) /\ ch'[d] = ch[d]
      BY <1>15, <2>1, <2>2, <2>4 DEF BroadcastSend, Behind
    <3> QED BY <1>5, <2>1, <3>1 DEF end
  <2>5. CASE k # entry
    <3>1. bpc[b] = "done"
      BY <1>15, <2>5 DEF BroadcastSend, FeedInv, TargetsInv
    <3>2. ch'[d] = ch[d]
      BY <2>1, <2>2, <3>1 DEF InHub
    <3>3. Behind(d)' = Behind(d)
      BY <1>5, <1>15, <2>1, <2>5 DEF BroadcastSend, Behind
    <3> QED BY <1>5, <2>1, <3>2, <3>3 DEF end
  <2> QED BY <2>3, <2>4, <2>5
<1>16. CASE RootCancel \/ UNCHANGED vars
  BY <1>6, <1>16 DEF RootCancel, vars, InHub, entryVars
<1> QED BY <1>8, <1>9, <1>10, <1>11, <1>12, <1>13, <1>14, <1>15, <1>16 DEF Next, HandlerStep, WatcherStep

\* While nothing was dropped, every browser in the hub has an unbroken run of
\* responses up to the latest one broadcast: Hub.Broadcast sends outside its
\* lock, to a copy of the clients, and yet neither skips nor repeats one.
THEOREM NoGapWithoutDrop == Spec => []NoSilentGap
<1>1. Init => BooksInv /\ FeedInv
  BY InitBooks, InitFeed
<1>2. BooksInv /\ FeedInv /\ [Next]_vars => (BooksInv /\ FeedInv)'
  BY TypeStep, MutexStep, EntryStep, FeedTypeStep, TargetsStep, GapStep DEF BooksInv, FeedInv
<1>3. FeedInv => NoSilentGap
  BY DEF FeedInv
<1> QED BY <1>1, <1>2, <1>3, PTL DEF Spec

=============================================================================
