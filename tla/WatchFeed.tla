----------------------------- MODULE WatchFeed -----------------------------
(***************************************************************************)
(* What Watch promises of its events, whoever fans them out and however    *)
(* slowly its clients read.  An event committed while a stream is open is  *)
(* put into that stream's queue at most once, in whatever order, and stays *)
(* due to it until that has happened, the stream is ended, or its source   *)
(* fails.  One that was on its way when the stream joined, and so is in    *)
(* its snapshot, may come once more.  Nothing else comes.                  *)
(*                                                                         *)
(* A source fails only while it gives an event to a stream that has ended, *)
(* and then gives nothing more to any stream, open or not: a panic on a    *)
(* closed channel ends the fan-out for all.                                *)
(*                                                                         *)
(* This is a safety specification.  That what is due to a stream is given  *)
(* to it in the end is PendingGoesOut of ClusterFeed.tla, which also shows *)
(* that Cluster.tla implements this.                                       *)
(***************************************************************************)
EXTENDS Sequences

CONSTANTS
  Streams,  \* Watch streams
  Sources,  \* who commits changes
  Events    \* what is told of a change

VARIABLES
  status,    \* per stream: "new", "open" or "ended"
  failed,    \* sources that have failed
  inflight,  \* committed events, each with its source, still being sent
  pending,   \* per stream: those of them it has still to get
  queue      \* per stream: events it was given and has not taken

vars == <<status, failed, inflight, pending, queue>>

Init ==
  /\ status = [w \in Streams |-> "new"]
  /\ failed = {}
  /\ inflight = {}
  /\ pending = [w \in Streams |-> {}]
  /\ queue = [w \in Streams |-> <<>>]

\* Open streams keep what is pending; ended ones may forget it.
KeepsPending(S) ==
  /\ DOMAIN pending' = Streams
  /\ \A w \in Streams : IF status[w] = "ended" THEN pending'[w] \subseteq S[w] ELSE pending'[w] = S[w]

Join(w) ==
  /\ status[w] = "new"
  /\ status' = [status EXCEPT ![w] = "open"]
  /\ \E S \in SUBSET inflight : pending' = [pending EXCEPT ![w] = S]
  /\ UNCHANGED <<failed, inflight, queue>>

Commit ==
  /\ inflight \subseteq inflight'
  /\ inflight' \ inflight \subseteq (Sources \ failed) \X Events
  /\ KeepsPending([w \in Streams |-> IF status[w] = "new" THEN {}
                                     ELSE pending[w] \cup (inflight' \ inflight)])
  /\ UNCHANGED <<status, failed, queue>>

Deliver(w) ==
  /\ \E p \in pending[w] :
       /\ pending' = [pending EXCEPT ![w] = @ \ {p}]
       /\ queue' = [queue EXCEPT ![w] = Append(@, p[2])]
  /\ UNCHANGED <<status, failed, inflight>>

Take(w) ==
  /\ queue[w] # <<>>
  /\ queue' = [queue EXCEPT ![w] = Tail(@)]
  /\ UNCHANGED <<status, failed, inflight, pending>>

End(w) ==
  /\ status[w] = "open"
  /\ status' = [status EXCEPT ![w] = "ended"]
  /\ UNCHANGED <<failed, inflight, pending, queue>>

\* An event is out when no stream is waiting for it.
Finish ==
  /\ inflight' \subseteq inflight
  /\ \A w \in Streams : pending[w] \subseteq inflight'
  /\ UNCHANGED <<status, failed, pending, queue>>

Forget ==
  /\ KeepsPending(pending)
  /\ UNCHANGED <<status, failed, inflight, queue>>

FromOthers(S, s) == {p \in S : p[1] # s}

Fail(s) ==
  /\ s \notin failed
  /\ \E w \in Streams : status[w] = "ended" /\ \E p \in pending[w] : p[1] = s
  /\ failed' = failed \cup {s}
  /\ inflight' = FromOthers(inflight, s)
  /\ pending' = [w \in Streams |-> FromOthers(pending[w], s)]
  /\ UNCHANGED <<status, queue>>

Next ==
  \/ \E w \in Streams : Join(w) \/ Deliver(w) \/ Take(w) \/ End(w)
  \/ Commit
  \/ Finish
  \/ Forget
  \/ \E s \in Sources : Fail(s)

Spec == Init /\ [][Next]_vars
=============================================================================
