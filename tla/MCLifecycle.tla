---------------------------- MODULE MCLifecycle ----------------------------
(***************************************************************************)
(* Lifecycle.tla with the actors of both commands.                         *)
(***************************************************************************)
EXTENDS Lifecycle

CONSTANT u1

\* SUBSET {u1}, spelt out so that TLC can compare its members with Absent.
AllSaves == {{}, {u1}}

\* The service without the web server, with it, and the web server alone.
Service == [command |-> "service", WebEnable |-> FALSE, InMemory |-> FALSE,
            Cleanup |-> FALSE, Snapshot |-> TRUE]

Embedding == [command |-> "service", WebEnable |-> TRUE, InMemory |-> TRUE,
              Cleanup |-> TRUE, Snapshot |-> FALSE]

Web == [command |-> "web", WebEnable |-> TRUE, InMemory |-> FALSE,
        Cleanup |-> FALSE, Snapshot |-> FALSE]

AllCommands == {Service, Embedding, Web}
=============================================================================
