--------------------------- MODULE EngineSupervisor ---------------------------
(***************************************************************************)
(* The engine process: main of                                             *)
(* crates/protocol-simulation-engine/src/main.rs, the endpoint tasks that  *)
(* it supervises and the clients of the endpoints.                         *)
(*                                                                         *)
(* main binds the endpoints of its launch configuration one after the      *)
(* other and spawns a task for each at once; then it waits for the first   *)
(* task to end or for a signal.  A task that ends ends the engine.  After  *)
(* a signal main tells the tasks to stop and waits for them, at most five  *)
(* seconds.  What is still open when main returns is cut.                  *)
(*                                                                         *)
(* An endpoint is one of three kinds: "http" waits for its connections     *)
(* when it is told to stop (axum); "stream" accepts connections, serves    *)
(* them in tasks nobody waits for and stops at once; "datagram" (DNS over  *)
(* UDP, SNMP) answers in its own loop.                                     *)
(***************************************************************************)
EXTENDS Naturals, Sequences

CONSTANTS
  Launches,  \* the endpoint lists an engine is started with
  Clients    \* bound: one connection or datagram each

Kinds == {"http", "stream", "datagram"}

ASSUME LaunchesAssumption == Launches \subseteq Seq(Kinds)

VARIABLES
  launch,   \* the kinds of the configured endpoints, in their order
  main,     \* where main is
  bound,    \* how many endpoints are bound
  task,     \* the state of each endpoint's task
  told,     \* signal_simulations was called
  joined,   \* tasks whose result drain_simulations has taken
  asked,    \* the handler has seen SIGTERM or ctrl-c
  refused,  \* history: the configuration was refused or a bind failed
  late,     \* history: the drain took more than five seconds
  code,     \* how the process ended
  client,   \* the state of each client
  to        \* the endpoint a client turns to

mainVars   == <<main, bound, told, joined, asked, refused, late, code>>
clientVars == <<client, to>>
vars       == <<launch, mainVars, task, clientVars>>

Endpoints == DOMAIN launch
Running   == main # "exited"

\* Endpoints whose task has ended, and those that failed.
Ended(e)  == task[e] \in {"done", "failed"}
Failed(e) == task[e] = "failed"

Init ==
  /\ launch \in Launches
  /\ main = "config" /\ bound = 0
  /\ task = [e \in Endpoints |-> "none"]
  /\ told = FALSE /\ joined = {} /\ asked = FALSE
  /\ refused = FALSE /\ late = FALSE /\ code = "none"
  /\ client = [c \in Clients |-> "away"]
  /\ to \in [Clients -> Endpoints]

-----------------------------------------------------------------------------
(* main                                                                    *)

Exit(result) == main' = "exited" /\ code' = result

\* launch_config_from_env, the schema version, validated_endpoints: the
\* endpoints are accepted, or main returns an error.
Configure ==
  /\ main = "config"
  /\ \/ launch # <<>> /\ main' = "bind" /\ UNCHANGED <<code, refused>>
     \/ Exit("error") /\ refused' = TRUE
  /\ UNCHANGED <<launch, bound, task, told, joined, asked, late, clientVars>>

\* Mutant: one endpoint more than there are.
BindOneMore ==
  /\ main = "bind" /\ bound <= Len(launch)
  /\ bound' = bound + 1
  /\ task' = [e \in Endpoints |-> IF e = bound + 1 THEN "starting" ELSE task[e]]
  /\ UNCHANGED <<launch, main, told, joined, asked, refused, late, code, clientVars>>

\* The next endpoint is bound and its task spawned, while the tasks before
\* it serve already; or the bind fails and the engine ends with them.
Bind ==
  /\ main = "bind" /\ bound < Len(launch)
  /\ \/ /\ bound' = bound + 1
        /\ task' = [task EXCEPT ![bound + 1] = "starting"]
        /\ UNCHANGED <<main, code, refused>>
     \/ /\ Exit("error") /\ refused' = TRUE
        /\ UNCHANGED <<bound, task>>
  /\ UNCHANGED <<launch, told, joined, asked, late, clientVars>>

\* The select! is reached, which installs the signal handler.
Serve ==
  /\ main = "bind" /\ bound = Len(launch)
  /\ main' = "serve"
  /\ UNCHANGED <<launch, bound, task, told, joined, asked, refused, late, code, clientVars>>

\* The first task has ended: the others are told and its result is returned,
\* without waiting for them.
FirstEnds(e) ==
  /\ main = "serve" /\ Ended(e)
  /\ told' = TRUE
  /\ Exit(IF Failed(e) THEN "error" ELSE "ok")
  /\ UNCHANGED <<launch, bound, task, joined, asked, refused, late, clientVars>>

\* The signal was received: the tasks are told, and main waits for them.
StartDrain ==
  /\ main = "serve" /\ asked
  /\ told' = TRUE /\ main' = "drain"
  /\ UNCHANGED <<launch, bound, task, joined, asked, refused, late, code, clientVars>>

\* drain_simulations takes the result of one more task; an error ends it.
DrainJoin(e) ==
  /\ main = "drain" /\ Ended(e) /\ e \notin joined
  /\ joined' = joined \cup {e}
  /\ IF Failed(e) THEN Exit("error") ELSE UNCHANGED <<main, code>>
  /\ UNCHANGED <<launch, bound, task, told, asked, refused, late, clientVars>>

DrainDone ==
  /\ main = "drain" /\ joined = Endpoints
  /\ Exit("ok")
  /\ UNCHANGED <<launch, bound, task, told, joined, asked, refused, late, clientVars>>

\* Mutant: the time limit does not cut connections.
DrainPatiently ==
  /\ main = "drain" /\ joined # Endpoints
  /\ \A c \in Clients : client[c] \notin {"open", "busy"}
  /\ late' = TRUE /\ Exit("ok")
  /\ UNCHANGED <<launch, bound, task, told, joined, asked, refused, clientVars>>

\* Five seconds have passed.  timeout polls the drain first, so that a task
\* that has ended by then is taken before.
DrainTimeout ==
  /\ main = "drain" /\ joined # Endpoints
  /\ \A e \in Endpoints : Ended(e) => e \in joined
  /\ late' = TRUE /\ Exit("ok")
  /\ UNCHANGED <<launch, bound, task, told, joined, asked, refused, clientVars>>

MainNext ==
  \/ Configure \/ Bind \/ Serve \/ StartDrain \/ DrainDone \/ DrainTimeout
  \/ \E e \in Endpoints : FirstEnds(e) \/ DrainJoin(e)

\* SIGTERM or ctrl-c once the handler is installed.
Signal ==
  /\ main = "serve" /\ ~asked
  /\ asked' = TRUE
  /\ UNCHANGED <<launch, main, bound, task, told, joined, refused, late, code, clientVars>>

\* Before that the signal ends the process where it stands (or, for the init
\* process of a container, nothing notices it).
SignalTooEarly ==
  /\ main \in {"config", "bind"}
  /\ Exit("killed")
  /\ UNCHANGED <<launch, bound, task, told, joined, asked, refused, late, clientVars>>

-----------------------------------------------------------------------------
(* The endpoint tasks                                                      *)

TaskStep(e, s) ==
  /\ Running
  /\ task' = [task EXCEPT ![e] = s]
  /\ UNCHANGED <<launch, mainVars, to>>

\* run_tcp_simulation and run_udp_simulation: the behaviour is parsed and,
\* for DNS, SNMP and VNC, examined; then the loop of the protocol begins.
Start(e) ==
  /\ task[e] = "starting"
  /\ \E s \in {"serving", "failed"} : TaskStep(e, s)
  /\ UNCHANGED client

\* Mutant: HTTP is served without graceful shutdown.
StopAtOnce(e) ==
  /\ told /\ task[e] = "serving"
  /\ TaskStep(e, "done")
  /\ UNCHANGED client

\* The loop sees that it is to stop.  Only axum waits for its connections.
Stop(e) ==
  /\ told /\ task[e] = "serving"
  /\ TaskStep(e, IF launch[e] = "http" THEN "closing" ELSE "done")
  /\ UNCHANGED client

ConnectionsOf(e) == {c \in Clients : to[c] = e /\ client[c] \in {"open", "busy"}}

HttpClosed(e) ==
  /\ launch[e] = "http" /\ task[e] = "closing" /\ ConnectionsOf(e) = {}
  /\ TaskStep(e, "done")
  /\ UNCHANGED client

\* Mutant: the loop is left with break instead of an error.
LoopBreaks(e) ==
  /\ launch[e] # "http" /\ task[e] = "serving"
  /\ \E c \in Clients : to[c] = e /\ client[c] = "waiting"
  /\ TaskStep(e, "done")
  /\ UNCHANGED client

\* accept, recv_from, send_to or an SNMP answer fails: `?' ends the loop.
\* axum retries on its own instead.
LoopFails(e) ==
  /\ launch[e] # "http" /\ task[e] = "serving"
  /\ \E c \in Clients : to[c] = e /\ client[c] = "waiting"
  /\ TaskStep(e, "failed")
  /\ UNCHANGED client

ClientStep(c, s) ==
  /\ Running
  /\ client' = [client EXCEPT ![c] = s]
  /\ UNCHANGED <<launch, mainVars, task, to>>

\* A connection is accepted and gets a task, whether or not told is set:
\* select! picks any branch that is ready.
Accept(c) ==
  /\ client[c] = "waiting" /\ task[to[c]] = "serving" /\ launch[to[c]] # "datagram"
  /\ ClientStep(c, "open")

\* A datagram is received and answered.
Receive(c) ==
  /\ client[c] = "waiting" /\ task[to[c]] = "serving" /\ launch[to[c]] = "datagram"
  /\ ClientStep(c, "gone")

\* The tasks of connections: an answer, after which HTTP closes when the
\* server is closing; and the end of connections that are idle then.
Answer(c) ==
  /\ client[c] = "busy"
  /\ ClientStep(c, IF task[to[c]] = "closing" THEN "gone" ELSE "open")

CloseIdle(c) ==
  /\ client[c] = "open" /\ task[to[c]] = "closing"
  /\ ClientStep(c, "gone")

TaskNext(e) == Start(e) \/ Stop(e) \/ HttpClosed(e)

-----------------------------------------------------------------------------
(* The clients, which do what they like.                                   *)

\* The kernel takes connections and datagrams as soon as the port is bound.
Connect(c) ==
  /\ client[c] = "away" /\ to[c] <= bound /\ ~Ended(to[c])
  /\ ClientStep(c, "waiting")

Request(c) ==
  /\ client[c] = "open"
  /\ ClientStep(c, "busy")

GoAway(c) ==
  /\ client[c] \in {"waiting", "open", "busy"}
  /\ ClientStep(c, "gone")

ClientNext(c) ==
  Accept(c) \/ Receive(c) \/ Answer(c) \/ CloseIdle(c) \/ Connect(c) \/ Request(c) \/ GoAway(c)

Next ==
  \/ MainNext \/ Signal \/ SignalTooEarly
  \/ \E e \in Endpoints : TaskNext(e) \/ LoopFails(e)
  \/ \E c \in Clients : ClientNext(c)

Spec == Init /\ [][Next]_vars

\* main is polled when it can go on, and its timer comes due.  Nothing is
\* assumed of clients, of endpoint tasks or of connections.
FairSpec == Spec /\ WF_vars(MainNext)

-----------------------------------------------------------------------------
(* Properties                                                              *)

TypeOK ==
  /\ launch \in Launches
  /\ main \in {"config", "bind", "serve", "drain", "exited"}
  /\ bound \in 0..Len(launch)
  /\ task \in [Endpoints -> {"none", "starting", "serving", "closing", "done", "failed"}]
  /\ told \in BOOLEAN /\ asked \in BOOLEAN /\ refused \in BOOLEAN /\ late \in BOOLEAN
  /\ joined \in SUBSET Endpoints
  /\ code \in {"none", "ok", "error", "killed"}
  /\ client \in [Clients -> {"away", "waiting", "open", "busy", "gone"}]
  /\ to \in [Clients -> Endpoints]

\* An engine that ends well and in time has ended every endpoint, and has cut
\* no HTTP connection that it had accepted: requests in progress were answered
\* or given up by their clients.
GracefulExit ==
  code = "ok" /\ ~late =>
    /\ \A e \in Endpoints : task[e] = "done"
    /\ \A c \in Clients : launch[to[c]] = "http" => client[c] \notin {"open", "busy"}

\* The variables of FailFastGroup.
Live == {e \in Endpoints : task[e] \in {"starting", "serving", "closing"}}

Group == INSTANCE FailFastGroup
  WITH live <- Live, asked <- asked, result <- code,
       fault <- refused \/ (\E e \in Endpoints : Failed(e))

\* The endpoints of an engine run and end together: a signal or the failure of
\* one of them ends it, with a code that says which it was (main, and that no
\* loop ends without an error unless it was told to).
ImplementsGroup == Group!Spec

\* A signal or a failed endpoint ends the engine, whatever its clients and its
\* other endpoints do: no HTTP client can keep it up (the drain's timeout).
EngineEnds == Group!Ends
=============================================================================
