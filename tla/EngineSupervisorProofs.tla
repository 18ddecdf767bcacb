------------------------ MODULE EngineSupervisorProofs ------------------------
(***************************************************************************)
(* Theorems about EngineSupervisor, for any set of clients and any lists   *)
(* of endpoints.                                                           *)
(*                                                                         *)
(* The inductive invariant is TypeOK with Supervised.  Its parts tie where *)
(* main is to what the tasks may have done: no task ends without an error  *)
(* before it is told to, none is told before a signal unless main returns  *)
(* in the same step, and what drain_simulations has taken was no error.    *)
(***************************************************************************)
EXTENDS EngineSupervisor, TLAPS

\* Where main is, and what it has done by then.
MainInv ==
  /\ (code = "none") <=> Running
  /\ asked => main \in {"serve", "drain", "exited"}
  /\ main = "drain" => asked /\ told
  /\ told => main \in {"drain", "exited"}
  /\ refused => main = "exited"
  /\ Running => \A e \in joined : task[e] = "done"

\* An endpoint that is not bound has no task; without an error a task ends
\* only when it was told to.
TaskInv ==
  \A e \in Endpoints :
    /\ e > bound => task[e] = "none"
    /\ task[e] \in {"closing", "done"} => told

\* An HTTP endpoint that is done has no connections.
HttpInv ==
  \A c \in Clients :
    launch[to[c]] = "http" /\ task[to[c]] = "done" => client[c] \notin {"open", "busy"}

\* What a good exit code says.
CodeInv ==
  code = "ok" =>
    /\ asked
    /\ \A e \in Endpoints : ~Failed(e) /\ (~late => task[e] = "done")

Supervised == MainInv /\ TaskInv /\ HttpInv /\ CodeInv

-----------------------------------------------------------------------------
(* Type correctness                                                        *)

LEMMA TypeInit == Init => TypeOK
<1>. SUFFICES ASSUME Init PROVE TypeOK
  OBVIOUS
<1>1. 0 \in 0..Len(launch)
  BY LaunchesAssumption DEF Init
<1>2. task \in [Endpoints -> {"none", "starting", "serving", "closing", "done", "failed"}]
  BY DEF Init
<1>3. client \in [Clients -> {"away", "waiting", "open", "busy", "gone"}]
  BY DEF Init
<1>. QED  BY <1>1, <1>2, <1>3 DEF Init, TypeOK

LEMMA TypeStep == TypeOK /\ [Next]_vars => TypeOK'
<1>. SUFFICES ASSUME TypeOK, [Next]_vars PROVE TypeOK'
  OBVIOUS
<1>. USE DEF TypeOK, Endpoints
<1>0. launch \in Seq(Kinds) /\ Len(launch) \in Nat /\ DOMAIN launch = 1..Len(launch)
  BY LaunchesAssumption
<1>1. CASE Configure
  BY <1>1 DEF Configure, Exit, clientVars
<1>2. CASE Bind
  <2>1. bound + 1 \in 0..Len(launch)
    BY <1>0, <1>2 DEF Bind
  <2>2. UNCHANGED <<launch, told, joined, asked, late, client, to>>
    BY <1>2 DEF Bind, clientVars
  <2>3. CASE bound' = bound + 1
    <3>1. task' = [task EXCEPT ![bound + 1] = "starting"] /\ UNCHANGED <<main, code, refused>>
      BY <1>0, <1>2, <2>3 DEF Bind
    <3>. QED  BY <2>1, <2>2, <2>3, <3>1
  <2>4. CASE bound' = bound
    <3>1. UNCHANGED task /\ main' = "exited" /\ code' = "error" /\ refused' = TRUE
      BY <1>0, <1>2, <2>4 DEF Bind, Exit
    <3>. QED  BY <2>2, <2>4, <3>1
  <2>. QED  BY <1>2, <2>3, <2>4 DEF Bind
<1>3. CASE Serve \/ StartDrain \/ DrainDone \/ DrainTimeout
  BY <1>3 DEF Serve, StartDrain, DrainDone, DrainTimeout, Exit, clientVars
<1>4. CASE \E e \in Endpoints : FirstEnds(e) \/ DrainJoin(e)
  BY <1>4 DEF FirstEnds, DrainJoin, Exit, clientVars
<1>5. CASE Signal \/ SignalTooEarly
  BY <1>5 DEF Signal, SignalTooEarly, Exit, clientVars
<1>6. CASE \E e \in Endpoints : TaskNext(e) \/ LoopFails(e)
  BY <1>6 DEF TaskNext, LoopFails, Start, Stop, HttpClosed, TaskStep, mainVars
<1>7. CASE \E c \in Clients : ClientNext(c)
  BY <1>7 DEF ClientNext, Accept, Receive, Answer, CloseIdle, Connect, Request, GoAway,
              ClientStep, mainVars
<1>8. CASE UNCHANGED vars
  BY <1>8 DEF vars, mainVars, clientVars
<1>. QED  BY <1>1, <1>2, <1>3, <1>4, <1>5, <1>6, <1>7, <1>8 DEF Next, MainNext

\* The type invariant, for any clients and any launch configuration.
THEOREM TypeCorrect == Spec => []TypeOK
BY TypeInit, TypeStep, PTL DEF Spec

-----------------------------------------------------------------------------
(* The inductive invariant                                                 *)

LEMMA SupervisedInit == Init => Supervised
BY LaunchesAssumption
   DEF Init, Supervised, MainInv, TaskInv, HttpInv, CodeInv, Endpoints, Running, Failed

\* A step of main.
LEMMA SupervisedMain ==
  ASSUME TypeOK, Supervised, MainNext
  PROVE  Supervised'
<1>. USE DEF TypeOK, Supervised, MainInv, TaskInv, HttpInv, CodeInv, Endpoints, Running,
             Exit, Failed, Ended, clientVars
<1>0. launch \in Seq(Kinds) /\ Len(launch) \in Nat /\ DOMAIN launch = 1..Len(launch)
  BY LaunchesAssumption
<1>1. CASE Configure
  BY <1>1 DEF Configure
<1>2. CASE Bind
  <2>1. CASE bound' = bound
    BY <1>2, <2>1 DEF Bind
  <2>2. CASE bound' # bound
    <3>1. \A e \in Endpoints : e # bound + 1 => task'[e] = task[e]
      BY <1>2, <2>2 DEF Bind
    <3>2. bound + 1 \in Endpoints /\ task'[bound + 1] = "starting" /\ bound' = bound + 1
      BY <1>0, <1>2, <2>2 DEF Bind
    <3>3. UNCHANGED <<launch, main, told, joined, asked, refused, late, code, client, to>>
      BY <1>2, <2>2 DEF Bind
    <3>4. main = "bind"
      BY <1>2 DEF Bind
    <3>. HIDE <1>2
    <3>5. TaskInv'
      BY <1>0, <3>1, <3>2, <3>3
    <3>6. HttpInv'
      BY <3>1, <3>2, <3>3
    <3>. QED  BY <3>3, <3>4, <3>5, <3>6
  <2>. QED  BY <2>1, <2>2
<1>3. CASE Serve
  BY <1>3 DEF Serve
<1>4. CASE StartDrain
  BY <1>4 DEF StartDrain
<1>5. CASE DrainDone
  BY <1>5 DEF DrainDone
<1>6. CASE DrainTimeout
  BY <1>6 DEF DrainTimeout
<1>7. CASE \E e \in Endpoints : FirstEnds(e)
  BY <1>7 DEF FirstEnds
<1>8. CASE \E e \in Endpoints : DrainJoin(e)
  BY <1>8 DEF DrainJoin
<1>. QED  BY <1>1, <1>2, <1>3, <1>4, <1>5, <1>6, <1>7, <1>8 DEF MainNext

\* A step of an endpoint's task.
LEMMA SupervisedTask ==
  ASSUME TypeOK, Supervised, NEW e \in Endpoints, TaskNext(e) \/ LoopFails(e)
  PROVE  Supervised'
<1>. USE DEF TypeOK, Supervised, Running, Failed, Endpoints
<1>1. PICK s \in {"serving", "closing", "done", "failed"} : TaskStep(e, s)
  BY DEF TaskNext, Start, Stop, HttpClosed, LoopFails
<1>2. /\ task' = [task EXCEPT ![e] = s] /\ UNCHANGED client
      /\ task[e] \in {"starting", "serving", "closing"}
      /\ s \in {"closing", "done"} => told
      /\ s = "done" /\ launch[e] = "http" => ConnectionsOf(e) = {}
  BY <1>1 DEF TaskNext, Start, Stop, HttpClosed, LoopFails, TaskStep, TaskInv
<1>3. Running /\ UNCHANGED <<launch, main, bound, told, joined, asked, refused, late, code, to>>
  BY <1>1 DEF TaskStep, mainVars
<1>4. MainInv'
  BY <1>2, <1>3 DEF MainInv
<1>5. TaskInv'
  BY <1>2, <1>3 DEF TaskInv
<1>6. HttpInv'
  BY <1>2, <1>3 DEF HttpInv, ConnectionsOf
<1>7. CodeInv'
  BY <1>3 DEF CodeInv, MainInv
<1>. QED  BY <1>4, <1>5, <1>6, <1>7

\* A step of a client or of the connection it has.
LEMMA SupervisedClient ==
  ASSUME TypeOK, Supervised, NEW c \in Clients, ClientNext(c)
  PROVE  Supervised'
<1>. USE DEF TypeOK, Supervised, Running, Failed, Endpoints
<1>1. PICK s \in {"waiting", "open", "busy", "gone"} : ClientStep(c, s)
  BY DEF ClientNext, Accept, Receive, Answer, CloseIdle, Connect, Request, GoAway
<1>2. /\ client' = [client EXCEPT ![c] = s]
      /\ UNCHANGED <<launch, main, bound, told, joined, asked, refused, late, code, to, task>>
  BY <1>1 DEF ClientStep, mainVars
<1>3. s \in {"open", "busy"} => client[c] \in {"open", "busy"} \/ task[to[c]] = "serving"
  BY <1>2 DEF ClientNext, ClientStep, Accept, Receive, Answer, CloseIdle, Connect, Request, GoAway
<1>4. HttpInv'
  BY <1>2, <1>3 DEF HttpInv
<1>. QED  BY <1>2, <1>4 DEF MainInv, TaskInv, CodeInv

LEMMA SupervisedStep == TypeOK /\ Supervised /\ [Next]_vars => Supervised'
<1>. SUFFICES ASSUME TypeOK, Supervised, [Next]_vars PROVE Supervised'
  OBVIOUS
<1>. USE DEF TypeOK, Supervised, MainInv, TaskInv, HttpInv, CodeInv, Endpoints, Running, Failed
<1>1. CASE Signal
  BY <1>1 DEF Signal, clientVars
<1>2. CASE SignalTooEarly
  BY <1>2 DEF SignalTooEarly, Exit, clientVars
<1>3. CASE UNCHANGED vars
  BY <1>3 DEF vars, mainVars, clientVars
<1>. HIDE DEF TypeOK, Supervised
<1>. QED  BY <1>1, <1>2, <1>3, SupervisedMain, SupervisedTask, SupervisedClient DEF Next

LEMMA SupervisedInvariant == Spec => [](TypeOK /\ Supervised)
BY TypeInit, TypeStep, SupervisedInit, SupervisedStep, PTL DEF Spec

\* An engine that ends well and in time leaves no endpoint and no accepted
\* HTTP connection behind.
THEOREM GracefulExits == Spec => []GracefulExit
<1>1. TypeOK /\ Supervised => GracefulExit
  BY DEF TypeOK, Supervised, HttpInv, CodeInv, GracefulExit, Endpoints
<1>. QED  BY <1>1, SupervisedInvariant, PTL

-----------------------------------------------------------------------------
(* The refinement                                                          *)

\* The fault of the group, as the mapping has it.
Fault == refused \/ (\E e \in Endpoints : Failed(e))

GroupVars == <<Live, asked, Fault, code>>

\* Steps that change no variable of the group.
LEMMA Stutters ==
  ASSUME UNCHANGED <<launch, task, asked, refused, code>>
  PROVE  UNCHANGED GroupVars
BY DEF GroupVars, Live, Fault, Failed, Endpoints

LEMMA GroupMain ==
  ASSUME TypeOK, Supervised, MainNext
  PROVE  [Group!Next]_GroupVars
<1>. USE DEF TypeOK, Supervised, MainInv, TaskInv, Endpoints, Running, Exit, Failed, Ended,
             clientVars, Fault
<1>0. launch \in Seq(Kinds) /\ Len(launch) \in Nat /\ DOMAIN launch = 1..Len(launch)
  BY LaunchesAssumption
<1>1. CASE Configure
  <2>1. CASE refused'
    BY <1>1, <2>1 DEF Configure, Group!Next, Group!EndBadly, Live
  <2>2. CASE ~refused'
    BY <1>1, <2>2, Stutters DEF Configure
  <2>. QED  BY <2>1, <2>2
<1>2. CASE Bind
  <2>1. CASE bound' = bound
    <3>1. Exit("error") /\ refused' = TRUE /\ UNCHANGED <<launch, task, asked>> /\ main = "bind"
      BY <1>2, <2>1 DEF Bind
    <3>. QED  BY <3>1 DEF Group!Next, Group!EndBadly, Live
  <2>2. CASE bound' # bound
    <3>1. \A e \in Endpoints : e # bound + 1 => task'[e] = task[e]
      BY <1>2, <2>2 DEF Bind
    <3>2. /\ bound + 1 \in Endpoints /\ task[bound + 1] = "none"
          /\ task'[bound + 1] = "starting"
      BY <1>0, <1>2, <2>2 DEF Bind
    <3>3. UNCHANGED <<launch, asked, refused, code>> /\ main = "bind"
      BY <1>2, <2>2 DEF Bind
    <3>4. Live \subseteq Live' /\ Live # Live'
      BY <3>1, <3>2, <3>3 DEF Live
    <3>5. UNCHANGED Fault
      BY <3>1, <3>2, <3>3
    <3>6. code = "none" /\ ~asked
      BY <3>3
    <3>. HIDE DEF Fault, Live
    <3>. QED  BY <3>3, <3>4, <3>5, <3>6 DEF Group!Next, Group!Join, Live, Fault
  <2>. QED  BY <2>1, <2>2
<1>3. CASE Serve \/ StartDrain
  BY <1>3, Stutters DEF Serve, StartDrain
<1>4. CASE DrainDone \/ DrainTimeout
  <2>1. UNCHANGED <<launch, task, asked, refused>> /\ main = "drain" /\ code' = "ok"
    BY <1>4 DEF DrainDone, DrainTimeout
  <2>2. \A e \in Endpoints : ~Failed(e)
    BY <1>4 DEF DrainDone, DrainTimeout
  <2>. QED  BY <2>1, <2>2 DEF Group!Next, Group!EndWell, Live
<1>5. CASE \E e \in Endpoints : FirstEnds(e)
  <2>1. PICK e \in Endpoints : FirstEnds(e)
    BY <1>5
  <2>2. Failed(e) /\ code' = "error" /\ UNCHANGED <<launch, task, asked, refused>> /\ code = "none"
    BY <2>1 DEF FirstEnds
  <2>. QED  BY <2>2 DEF Group!Next, Group!EndBadly, Live
<1>6. CASE \E e \in Endpoints : DrainJoin(e)
  <2>1. PICK e \in Endpoints : DrainJoin(e)
    BY <1>6
  <2>2. UNCHANGED <<launch, task, asked, refused>> /\ code = "none"
    BY <2>1 DEF DrainJoin
  <2>3. CASE Failed(e)
    <3>1. code' = "error"
      BY <2>1, <2>3 DEF DrainJoin
    <3>. QED  BY <2>2, <2>3, <3>1 DEF Group!Next, Group!EndBadly, Live
  <2>4. CASE ~Failed(e)
    BY <2>1, <2>2, <2>4, Stutters DEF DrainJoin
  <2>. QED  BY <2>3, <2>4
<1>. QED  BY <1>1, <1>2, <1>3, <1>4, <1>5, <1>6 DEF MainNext

LEMMA GroupTask ==
  ASSUME TypeOK, Supervised, NEW e \in Endpoints, TaskNext(e) \/ LoopFails(e)
  PROVE  [Group!Next]_GroupVars
<1>. USE DEF TypeOK, Supervised, MainInv, TaskInv, Endpoints, Running, Failed
<1>1. PICK s \in {"serving", "closing", "done", "failed"} : TaskStep(e, s)
  BY DEF TaskNext, Start, Stop, HttpClosed, LoopFails
<1>2. /\ task' = [task EXCEPT ![e] = s]
      /\ task[e] \in {"starting", "serving", "closing"}
      /\ s = "done" => told
  BY <1>1 DEF TaskNext, Start, Stop, HttpClosed, LoopFails, TaskStep
<1>3. code = "none" /\ UNCHANGED <<launch, asked, told, main, refused, code>>
  BY <1>1 DEF TaskStep, mainVars
<1>4. CASE s = "failed"
  <2>1. Live' \subseteq Live /\ Live # Live' /\ Failed(e)'
    BY <1>2, <1>3, <1>4 DEF Live
  <2>. QED  BY <1>3, <2>1 DEF Group!Next, Group!Lose
<1>5. CASE s = "done"
  <2>1. Live' \subseteq Live /\ Live # Live'
    BY <1>2, <1>3, <1>5 DEF Live
  <2>2. UNCHANGED Fault
    BY <1>2, <1>3, <1>5 DEF Fault
  <2>3. asked
    BY <1>2, <1>3, <1>5
  <2>. QED  BY <1>3, <2>1, <2>2, <2>3 DEF Group!Next, Group!Leave, Fault
<1>6. CASE s \in {"serving", "closing"}
  <2>1. UNCHANGED Live
    BY <1>2, <1>3, <1>6 DEF Live
  <2>2. UNCHANGED Fault
    BY <1>2, <1>3, <1>6 DEF Fault
  <2>. QED  BY <1>3, <2>1, <2>2 DEF GroupVars
<1>. QED  BY <1>4, <1>5, <1>6

\* Every step of the engine is a step of the group or a stutter.
LEMMA GroupStep == TypeOK /\ Supervised /\ [Next]_vars => [Group!Next]_GroupVars
<1>. SUFFICES ASSUME TypeOK, Supervised, [Next]_vars PROVE [Group!Next]_GroupVars
  OBVIOUS
<1>1. CASE Signal
  BY <1>1 DEF Signal, Group!Next, Group!Ask, Live, Failed, Endpoints, clientVars, Supervised,
              MainInv, Running
<1>2. CASE SignalTooEarly
  BY <1>2 DEF SignalTooEarly, Exit, Group!Next, Group!Killed, Live, Failed, Endpoints, clientVars,
              Supervised, MainInv, Running
<1>3. CASE \E c \in Clients : ClientNext(c)
  <2>1. UNCHANGED <<launch, task, asked, refused, code>>
    BY <1>3 DEF ClientNext, Accept, Receive, Answer, CloseIdle, Connect, Request, GoAway,
                ClientStep, mainVars
  <2>. QED  BY <2>1, Stutters
<1>4. CASE UNCHANGED vars
  BY <1>4, Stutters DEF vars, mainVars
<1>. QED  BY <1>1, <1>2, <1>3, <1>4, GroupMain, GroupTask DEF Next

\* The engine implements the group that ends together.
THEOREM EngineImplementsGroup == Spec => ImplementsGroup
<1>1. Init => Group!Init
  BY DEF Init, Group!Init, Live, Failed
<1>2. TypeOK /\ Supervised /\ [Next]_vars => [Group!Next]_<<Live, asked, refused \/ (\E e \in Endpoints : Failed(e)), code>>
  BY GroupStep DEF GroupVars, Fault
<1>. QED  BY <1>1, <1>2, SupervisedInvariant, PTL
          DEF Spec, ImplementsGroup, Group!Spec, Group!groupVars
=============================================================================
