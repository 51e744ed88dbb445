---------------------------- MODULE ServerProcess ----------------------------
(***************************************************************************)
(* The pes-server process: main.rs starts the WAL pipeline and the gateway *)
(* and shuts down on SIGTERM; GatewayServer::run accepts connections and    *)
(* spawns a task for each; the tasks and main share connection_count and    *)
(* the CancellationToken.                                                   *)
(***************************************************************************)
EXTENDS Integers, FiniteSets

CONSTANTS
  Conns,           \* TCP connections clients attempt, each once
  MaxConnections   \* GatewayConfig.max_connections

ASSUME ProcessAssumption ==
  /\ IsFiniteSet(Conns)
  /\ MaxConnections \in Nat

VARIABLES
  main,        \* "starting", "running", "draining", "leaving" or "exited"
  verdict,     \* what main reports on exit: "clean" or "forced"; "none" before
  pipeline,    \* CDC consumer and router tasks
  ready,       \* HealthState.wal_replication_active
  accepting,   \* GatewayServer::run is in its loop
  cancelled,   \* the CancellationToken
  phase,       \* the task of each connection
  count        \* connection_count

mainVars == <<main, verdict, pipeline, ready, cancelled>>
vars == <<mainVars, accepting, phase, count>>

\* Phases of a connection's task, in order: spawned but not scheduled yet;
\* in accept_async(); waiting for Subscribe; in deliver_snapshots(); in
\* serve(); ConnectionHandler::run() has returned; counted out.
Counted == {"upgrading", "handshake", "snapshot", "serve", "ended"}
Open == {"handshake", "snapshot", "serve"}
Phases == Counted \cup {"new", "rejected", "spawned", "closed"}

InPhase(P) == {c \in Conns : phase[c] \in P}

TypeOK ==
  /\ main \in {"starting", "running", "draining", "leaving", "exited"}
  /\ verdict \in {"none", "clean", "forced"}
  /\ pipeline \in {"connecting", "streaming", "stopped"}
  /\ ready \in BOOLEAN
  /\ accepting \in BOOLEAN
  /\ cancelled \in BOOLEAN
  /\ phase \in [Conns -> Phases]
  /\ count \in Nat

Init ==
  /\ main = "starting" /\ verdict = "none"
  /\ pipeline = "connecting" /\ ready = FALSE
  /\ accepting = FALSE /\ cancelled = FALSE
  /\ phase = [c \in Conns |-> "new"]
  /\ count = 0

-----------------------------------------------------------------------------
(* Faulty variants of definitions below, named Bad...: each one is what an *)
(* easy mistake in the code would make of it, and breaks a property.       *)

\* The early return after a failed upgrade forgets the fetch_sub.
BadUpgradeFails(c) ==
  /\ phase[c] = "upgrading"
  /\ phase' = [phase EXCEPT ![c] = "closed"]
  /\ UNCHANGED <<mainVars, accepting, count>>

\* The task is counted out when it starts to serve.
BadSnapshotDone(c) ==
  /\ phase[c] = "snapshot"
  /\ phase' = [phase EXCEPT ![c] = "serve"]
  /\ count' = count - 1
  /\ UNCHANGED <<mainVars, accepting>>

\* serve() without its cancellation branch.
BadNotify(c) == FALSE /\ UNCHANGED vars

\* The drain loop without its deadline.
BadDeadline == FALSE /\ UNCHANGED vars

-----------------------------------------------------------------------------
(* main.rs and the pipeline's tasks, whose handles nobody watches.         *)

\* Half a second after the pipeline was spawned, readiness is declared and the
\* gateway starts.
StartGateway ==
  /\ main = "starting"
  /\ main' = "running"
  /\ ready' = TRUE
  /\ accepting' = TRUE
  /\ UNCHANGED <<verdict, pipeline, cancelled, phase, count>>

PipelineStarts ==
  /\ main # "exited" /\ pipeline = "connecting"
  /\ pipeline' = "streaming"
  /\ UNCHANGED <<main, verdict, ready, cancelled, accepting, phase, count>>

PipelineStops ==
  /\ main # "exited" /\ pipeline # "stopped"
  /\ pipeline' = "stopped"
  /\ UNCHANGED <<main, verdict, ready, cancelled, accepting, phase, count>>

Sigterm ==
  /\ main = "running"
  /\ main' = "draining"
  /\ cancelled' = TRUE
  /\ UNCHANGED <<verdict, pipeline, ready, accepting, phase, count>>

\* The drain loop ends: nothing is counted any more ...
Drained ==
  /\ main = "draining" /\ count = 0
  /\ main' = "leaving"
  /\ UNCHANGED <<verdict, pipeline, ready, cancelled, accepting, phase, count>>

\* ... or SHUTDOWN_DRAIN_TIMEOUT has passed.
Deadline ==
  /\ main = "draining"
  /\ main' = "leaving"
  /\ UNCHANGED <<verdict, pipeline, ready, cancelled, accepting, phase, count>>

\* The count is read once more, reported on, and the process ends.
Exit ==
  /\ main = "leaving"
  /\ main' = "exited"
  /\ verdict' = IF count = 0 THEN "clean" ELSE "forced"
  /\ UNCHANGED <<pipeline, ready, cancelled, accepting, phase, count>>

-----------------------------------------------------------------------------
(* GatewayServer::run.                                                     *)

\* accept() wins the select!, also after a cancellation.  The limit is checked
\* here; the count is raised by the task.
Accept(c) ==
  /\ main # "exited" /\ accepting /\ phase[c] = "new"
  /\ phase' = [phase EXCEPT ![c] = IF count >= MaxConnections THEN "rejected" ELSE "spawned"]
  /\ UNCHANGED <<mainVars, accepting, count>>

\* The cancellation wins it, or accept() fails: the loop is left for good.
StopAccepting ==
  /\ main # "exited" /\ accepting /\ cancelled
  /\ accepting' = FALSE
  /\ UNCHANGED <<mainVars, phase, count>>

AcceptFails ==
  /\ main # "exited" /\ accepting
  /\ accepting' = FALSE
  /\ UNCHANGED <<mainVars, phase, count>>

-----------------------------------------------------------------------------
(* The task of a connection.                                               *)

Move(c, from, to) ==
  /\ main # "exited" /\ phase[c] = from
  /\ phase' = [phase EXCEPT ![c] = to]
  /\ UNCHANGED <<mainVars, accepting>>

Count(c) == Move(c, "spawned", "upgrading") /\ count' = count + 1
Upgrade(c) == Move(c, "upgrading", "handshake") /\ UNCHANGED count
UpgradeFails(c) == Move(c, "upgrading", "closed") /\ count' = count - 1
Subscribe(c) == Move(c, "handshake", "snapshot") /\ UNCHANGED count
SnapshotDone(c) == Move(c, "snapshot", "serve") /\ UNCHANGED count

\* The client leaves, or run() returns an error: anywhere in it.
End(c) == (\E p \in Open : Move(c, p, "ended")) /\ UNCHANGED count

\* Only the select! of serve() watches the token: it sends
\* SHUTDOWN_ERROR_CODE and returns.
Notify(c) == cancelled /\ Move(c, "serve", "ended") /\ UNCHANGED count

Uncount(c) == Move(c, "ended", "closed") /\ count' = count - 1

-----------------------------------------------------------------------------
Next ==
  \/ StartGateway \/ PipelineStarts \/ PipelineStops
  \/ Sigterm \/ Drained \/ Deadline \/ Exit \/ StopAccepting \/ AcceptFails
  \/ \E c \in Conns : Accept(c)
  \/ \E c \in Conns : Count(c)
  \/ \E c \in Conns : Upgrade(c)
  \/ \E c \in Conns : UpgradeFails(c)
  \/ \E c \in Conns : Subscribe(c)
  \/ \E c \in Conns : SnapshotDone(c)
  \/ \E c \in Conns : End(c)
  \/ \E c \in Conns : Notify(c)
  \/ \E c \in Conns : Uncount(c)

Spec == Init /\ [][Next]_vars

(***************************************************************************)
(* main and the spawned tasks are scheduled, and Postgres answers the      *)
(* snapshot queries.  Nothing is assumed of the clients: one may connect   *)
(* and never upgrade, never subscribe or never leave.  That the deadline   *)
(* passes is assumed only where it is needed, in ShutdownEnds.             *)
(***************************************************************************)
Fairness ==
  /\ WF_vars(Drained) /\ WF_vars(Exit)
  /\ WF_vars(StopAccepting)
  /\ \A c \in Conns : /\ WF_vars(Count(c)) /\ WF_vars(SnapshotDone(c))
                      /\ WF_vars(Notify(c)) /\ WF_vars(Uncount(c))

FairSpec == Spec /\ Fairness

-----------------------------------------------------------------------------
(* Properties.                                                             *)

\* connection_count is the number of tasks between their fetch_add and their
\* fetch_sub, on every path through the task.
CountIsExact == count = Cardinality(InPhase(Counted))

\* When main reports "all connections drained", no connection it cut off was
\* past its first step: none was subscribing, loading or being served.
CleanExit == verdict = "clean" => InPhase(Counted) = {}

\* A client being served when the shutdown begins is told of it, has left by
\* itself, or the shutdown is reported as forced.
ServedAreNotified ==
  \A c \in Conns : (cancelled /\ phase[c] = "serve") ~> (phase[c] # "serve" \/ verdict = "forced")

\* The process exits after SIGTERM, whatever its clients do, once the deadline
\* has passed.
ShutdownEnds == WF_vars(Deadline) => (cancelled ~> (main = "exited"))

-----------------------------------------------------------------------------
(* Statements of docs and comments that the code does not meet: TLC        *)
(* refutes each of them on the instance README.md gives for it.            *)

\* server.rs:80 says to poll connection_count "to know when every connection
\* has drained": no connection at all is left on a clean exit.
CleanExitDrained == verdict = "clean" => InPhase(Counted \cup {"spawned"}) = {}

\* server.rs:20 calls max_connections the "Maximum number of simultaneously
\* open connections".
WithinLimit == Cardinality(InPhase(Open)) <= MaxConnections

\* server.rs:90 says that on cancellation "every open connection sends
\* SHUTDOWN_ERROR_CODE to its client and closes"; taken here as what happens
\* if the deadline does not pass first.
ShutdownReachesAll ==
  \A c \in Conns :
    (cancelled /\ phase[c] \in Open)
      ~> (phase[c] \in {"ended", "closed"} \/ main \in {"leaving", "exited"})

\* health.rs:23 says the flag is set "once the WAL replication pipeline (CDC
\* consumer + router) has started successfully".
ReadyMeansStarted == [][ready' /\ ~ready => pipeline = "streaming"]_vars
=============================================================================
