------------------------ MODULE InstanceLifecycleProofs ------------------------
(***************************************************************************)
(* Machine-checked proofs about InstanceLifecycle, for every value of its  *)
(* constants.                                                              *)
(***************************************************************************)
EXTENDS InstanceLifecycle, TLAPS

\* A handler that waits for or holds a lifecycle lock, and a timer, has an instance.
Busy == \A a \in Actors :
    pc[a] \in {"sleep"} \cup Waiting \cup Critical => inst[a] \in Instances

-------------------------------------------------------------------------------
(* Type correctness. *)

\* The names of the steps, and the sets they belong to.
LEMMA StepNames ==
    /\ {"idle", "list_due", "list_rows", "list_agent", "list_mark"}
          \subseteq Steps \ ({"sleep"} \cup Waiting \cup Critical)
    /\ "sleep" \in Steps \ (Waiting \cup Critical)
    /\ Waiting = {"undeploy", "start_pcap", "finalize", "delete_pcap"}
    /\ Critical = {"stop_workload", "unlink", "delete_row", "mark_error", "agent_start",
                   "record_capture", "arm_timer", "agent_finish", "write_file",
                   "record_ready", "record_idle", "abort_capture", "unlink_capture",
                   "record_clear"}
    /\ Waiting \subseteq Steps /\ Critical \subseteq Steps /\ Waiting \cap Critical = {}
  BY DEF Steps, Waiting, Critical, Listing

\* The three writes of the instances table keep its columns in their types.
LEMMA StatusType ==
    ASSUME TableOK, NEW i \in Instances, NEW h \in BOOLEAN,
           NEW s \in {"absent", "deploying", "running", "error", "inactive"},
           SetStatus(i, s, h)
    PROVE  TableOK'
  BY DEF TableOK, SetStatus, Commit, Present

LEMMA PcapType ==
    ASSUME TableOK, NEW i \in Instances, NEW h \in BOOLEAN,
           NEW c \in Captures \cup {Nil}, NEW s \in {"idle", "capturing", "ready"},
           SetPcap(i, s, c, h)
    PROVE  TableOK'
  BY DEF TableOK, SetPcap, Commit, Present

LEMMA DropType ==
    ASSUME TableOK, NEW gone \in SUBSET Instances, DropRows(gone),
           NEW changed \in BOOLEAN, Commit(changed)
    PROVE  TableOK'
  BY DEF TableOK, DropRows, Commit

\* A handler goes on to another step, having read or kept what its row says.
LEMMA GotoControl ==
    ASSUME ControlOK, Busy, NEW a \in Actors, NEW s \in Steps, Goto(a, s),
           pc[a] \in Waiting \cup Critical,
           saw' \in [Actors -> SUBSET {"workload", "file"}],
           held' \in [Actors -> Captures \cup {Nil}],
           lock' \in [Instances -> Actors \cup {Nil}],
           UNCHANGED <<inst, expect, due, rows>>
    PROVE  ControlOK' /\ Busy'
  BY DEF ControlOK, Busy, Goto

\* A handler ends, with or without having held the lock.
LEMMA LeaveControl ==
    ASSUME ControlOK, Busy, NEW a \in Actors, Leave(a),
           Return(a) \/ UNCHANGED lock, UNCHANGED <<due, rows>>
    PROVE  ControlOK' /\ Busy'
<1>1. lock' \in [Instances -> Actors \cup {Nil}]
  BY DEF ControlOK, Return
<1>2. /\ pc' \in [Actors -> Steps]
      /\ pc'[a] \notin {"sleep"} \cup Waiting \cup Critical
  BY StepNames DEF Leave, Goto, ControlOK
<1>. QED  BY <1>1, <1>2 DEF ControlOK, Busy, Leave, Goto

\* Every step keeps the rows' types.
LEMMA TableStep ==
    ASSUME TypeOK, Busy, [Next]_vars
    PROVE  TableOK'
<1>. USE DEF TypeOK
<1>1. CASE UNCHANGED <<table, fresh>>
  BY <1>1 DEF TableOK, table
<1>2. ASSUME NEW i \in Instances, DeployCheck(i)
      PROVE  TableOK'
  BY <1>2 DEF DeployCheck, TableOK, PortTaken, table
<1>3. ASSUME NEW i \in Instances, DeployInsert(i)
      PROVE  TableOK'
  BY <1>3 DEF DeployInsert, TableOK, Commit
<1>4. ASSUME NEW i \in Instances, DeployRecord(i)
      PROVE  TableOK'
  BY <1>4, StatusType, DropType DEF DeployRecord, Present
<1>5. ASSUME NEW i \in Instances, CancelDeploy(i)
      PROVE  TableOK'
  BY <1>5 DEF CancelDeploy, TableOK, table
<1>6. ASSUME NEW t \in Tasks, ListMark(t)
      PROVE  TableOK'
  BY <1>6, StatusType DEF ListMark, TableOK, ControlOK, table
<1>7. ASSUME NEW a \in Actors, UndeployDelete(a)
      PROVE  TableOK'
  BY <1>7, DropType, StepNames DEF UndeployDelete, Busy, Present
<1>8. ASSUME NEW a \in Actors, UndeployFail(a)
      PROVE  TableOK'
  BY <1>8, StatusType, StepNames, ("workload" \in saw[a]) \in BOOLEAN DEF
       UndeployFail, Busy
<1>9. ASSUME NEW a \in Actors, StartRecord(a)
      PROVE  TableOK'
  BY <1>9, PcapType, StepNames DEF StartRecord, Busy, ControlOK
<1>10. ASSUME NEW a \in Actors, FinalizeRecord(a)
      PROVE  TableOK'
  BY <1>10, PcapType, StepNames DEF FinalizeRecord, Busy, ControlOK
<1>11. ASSUME NEW a \in Actors, DeleteRecord(a)
      PROVE  TableOK'
  BY <1>11, PcapType, StepNames DEF DeleteRecord, Busy, ControlOK
<1>12. ASSUME NEW r \in Rules, DeleteRule(r)
      PROVE  TableOK'
  BY <1>12, DropType DEF DeleteRule
<1>13. ASSUME NEW package \in SUBSET Packaged, ImportRulePackage(package)
      PROVE  TableOK'
  BY <1>13 DEF ImportRulePackage, TableOK, Commit, table
<1>14. ASSUME Restart
      PROVE  TableOK'
  BY <1>14 DEF Restart, TableOK, table
<1>. QED  BY <1>1, <1>2, <1>3, <1>4, <1>5, <1>6, <1>7, <1>8, <1>9, <1>10, <1>11,
          <1>12, <1>13, <1>14 DEF Next, DeployStep, UndeployStep, CaptureStep,
          ListStep, vars, table, request, agent, locals, listing, bounds,
          DeployRequest, DeployStart, WorkloadExits, Request, StopRequest,
          ListRequest, ListDue, ListRows, ListAgent, Cancel, UndeployRead,
          UndeployStop, UndeployUnlink, StartRead, StartAgent, StartTimer,
          FinalizeRead, FinalizeAgent, FinalizeWrite, DeleteRead, DeleteAgent,
          DeleteUnlink, TimerFires, Expire, Goto

\* Every step keeps the types of the rules, the requests, the files and the Agent.
LEMMA WorldStep ==
    ASSUME TypeOK, Busy, [Next]_vars
    PROVE  WorldOK'
<1>. USE DEF TypeOK
<1>1. CASE UNCHANGED <<rules, rule, ports, dpc, disk, live, unnamed, active, issued, expired,
                       restarts, cancels>>
  BY <1>1 DEF WorldOK
<1>2. ASSUME NEW i \in Instances, DeployRequest(i)
      PROVE  WorldOK'
  BY <1>2 DEF DeployRequest, WorldOK, agent, bounds, Starting
<1>3. ASSUME NEW i \in Instances, DeployCheck(i)
      PROVE  WorldOK'
  BY <1>3 DEF DeployCheck, WorldOK, request, agent, bounds, Starting
<1>4. ASSUME NEW i \in Instances, DeployInsert(i)
      PROVE  WorldOK'
  BY <1>4 DEF DeployInsert, WorldOK, request, agent, bounds, Starting
<1>5. ASSUME NEW i \in Instances, DeployStart(i)
      PROVE  WorldOK'
  BY <1>5 DEF DeployStart, WorldOK, request, bounds, Starting
<1>6. ASSUME NEW i \in Instances, DeployRecord(i)
      PROVE  WorldOK'
  BY <1>6 DEF DeployRecord, WorldOK, request, agent, bounds, Starting
<1>7. ASSUME NEW i \in Instances, WorkloadExits(i)
      PROVE  WorldOK'
  BY <1>7 DEF WorkloadExits, WorldOK, request, bounds
<1>8. ASSUME NEW i \in Instances, CancelDeploy(i)
      PROVE  WorldOK'
  BY <1>8, ConstantsAssumption DEF CancelDeploy, WorldOK, request, agent, Starting
<1>9. ASSUME NEW t \in Tasks, Cancel(t)
      PROVE  WorldOK'
  BY <1>9, ConstantsAssumption DEF Cancel, WorldOK, request, agent
<1>10. ASSUME NEW a \in Actors, UndeployStop(a)
      PROVE  WorldOK'
  BY <1>10 DEF UndeployStop, WorldOK, request, bounds
<1>11. ASSUME NEW a \in Actors, UndeployUnlink(a)
      PROVE  WorldOK'
  BY <1>11 DEF UndeployUnlink, WorldOK, request, agent, bounds
<1>12. ASSUME NEW a \in Actors, StartAgent(a)
      PROVE  WorldOK'
  BY <1>12 DEF StartAgent, WorldOK, request, bounds
<1>13. ASSUME NEW a \in Actors, FinalizeAgent(a)
      PROVE  WorldOK'
  BY <1>13 DEF FinalizeAgent, WorldOK, request, bounds, AgentFinishes, AgentRefuses
<1>14. ASSUME NEW a \in Actors, FinalizeWrite(a)
      PROVE  WorldOK'
  BY <1>14 DEF FinalizeWrite, WorldOK, ControlOK, request, agent, bounds
<1>15. ASSUME NEW a \in Actors, DeleteAgent(a)
      PROVE  WorldOK'
  BY <1>15 DEF DeleteAgent, WorldOK, request, bounds, AgentFinishes, AgentRefuses
<1>16. ASSUME NEW a \in Actors, DeleteUnlink(a)
      PROVE  WorldOK'
  BY <1>16 DEF DeleteUnlink, WorldOK, request, agent, bounds
<1>17. ASSUME NEW c \in Captures, Expire(c)
      PROVE  WorldOK'
  BY <1>17 DEF Expire, WorldOK, request, agent, bounds
<1>18. ASSUME NEW r \in Rules, DeleteRule(r)
      PROVE  WorldOK'
  BY <1>18 DEF DeleteRule, WorldOK, request, agent, bounds
<1>19. ASSUME NEW package \in SUBSET Packaged, ImportRulePackage(package)
      PROVE  WorldOK'
  BY <1>19, ConstantsAssumption DEF ImportRulePackage, WorldOK, request, agent, bounds
<1>20. ASSUME Restart
      PROVE  WorldOK'
  BY <1>20, ConstantsAssumption DEF Restart, WorldOK, request, agent, Starting
<1>. QED  BY <1>1, <1>2, <1>3, <1>4, <1>5, <1>6, <1>7, <1>8, <1>9, <1>10, <1>11, <1>12,
          <1>13, <1>14, <1>15, <1>16, <1>17, <1>18, <1>19, <1>20, ZenonT(60) DEF Next,
          DeployStep, UndeployStep, CaptureStep, ListStep, vars, table, request, agent,
          locals, listing, bounds, Request, StopRequest, ListRequest, ListDue, ListRows,
          ListAgent, ListMark, UndeployRead, UndeployDelete, UndeployFail, StartRead,
          StartRecord, StartTimer, FinalizeRead, FinalizeRecord, DeleteRead,
          DeleteRecord, TimerFires, Goto

\* Every step keeps the types of the handlers and timers.
LEMMA ControlStep ==
    ASSUME TypeOK, Busy, [Next]_vars
    PROVE  ControlOK' /\ Busy'
<1>. USE DEF TypeOK
<1>1. CASE UNCHANGED <<pc, inst, expect, held, saw, due, rows, lock>>
  BY <1>1 DEF ControlOK, Busy
<1>2. ASSUME NEW t \in Tasks,
             NEW op \in {"undeploy", "start_pcap", "delete_pcap"}, Request(t, op)
      PROVE  ControlOK' /\ Busy'
  BY <1>2, StepNames DEF Request, ControlOK, Busy, listing, Goto, Actors, TableOK
<1>3. ASSUME NEW t \in Tasks, StopRequest(t)
      PROVE  ControlOK' /\ Busy'
  BY <1>3, StepNames DEF StopRequest, ControlOK, Busy, listing, Goto, Actors, TableOK
<1>4. ASSUME NEW t \in Tasks, ListRequest(t)
      PROVE  ControlOK' /\ Busy'
  BY <1>4, StepNames DEF ListRequest, ControlOK, Busy, locals, Goto, Actors, Overdue
<1>5. ASSUME NEW t \in Tasks, ListDue(t)
      PROVE  ControlOK' /\ Busy'
  BY <1>5, StepNames DEF ListDue, ControlOK, Busy, Goto, Actors
<1>6. ASSUME NEW t \in Tasks, ListRows(t)
      PROVE  ControlOK' /\ Busy'
  BY <1>6, StepNames DEF ListRows, ControlOK, Busy, locals, Goto, Actors, Candidates
<1>7. ASSUME NEW t \in Tasks, ListAgent(t)
      PROVE  ControlOK' /\ Busy'
  BY <1>7, StepNames DEF ListAgent, ControlOK, Busy, locals, Goto, Actors
<1>8. ASSUME NEW t \in Tasks, ListMark(t)
      PROVE  ControlOK' /\ Busy'
  BY <1>8, StepNames DEF ListMark, ControlOK, Busy, locals, Goto, Actors, SetStatus,
       table
<1>9. ASSUME NEW t \in Tasks, Cancel(t)
      PROVE  ControlOK' /\ Busy'
  BY <1>9, StepNames DEF Cancel, ControlOK, Busy, Goto, Actors
<1>10. ASSUME NEW a \in Actors, UndeployRead(a)
      PROVE  ControlOK' /\ Busy'
  BY <1>10, GotoControl, LeaveControl, StepNames DEF UndeployRead, ControlOK, Busy,
       listing, Return, ReturnAtOnce, Acquire, Recorded
<1>11. ASSUME NEW a \in Actors, UndeployStop(a)
      PROVE  ControlOK' /\ Busy'
  BY <1>11, GotoControl, LeaveControl, StepNames DEF UndeployStop, ControlOK, Busy,
       locals, listing, Return, ReturnAtOnce
<1>12. ASSUME NEW a \in Actors, UndeployUnlink(a)
      PROVE  ControlOK' /\ Busy'
  BY <1>12, GotoControl, LeaveControl, StepNames DEF UndeployUnlink, ControlOK, Busy,
       locals, listing, Return, ReturnAtOnce
<1>13. ASSUME NEW a \in Actors, UndeployDelete(a)
      PROVE  ControlOK' /\ Busy'
  BY <1>13, GotoControl, LeaveControl, StepNames DEF UndeployDelete, ControlOK, Busy,
       listing, Return, ReturnAtOnce
<1>14. ASSUME NEW a \in Actors, UndeployFail(a)
      PROVE  ControlOK' /\ Busy'
  BY <1>14, GotoControl, LeaveControl, StepNames DEF UndeployFail, ControlOK, Busy,
       listing, Return, ReturnAtOnce
<1>15. ASSUME NEW a \in Actors, StartRead(a)
      PROVE  ControlOK' /\ Busy'
  BY <1>15, GotoControl, LeaveControl, StepNames DEF StartRead, ControlOK, Busy, locals,
       listing, Return, ReturnAtOnce, Acquire
<1>16. ASSUME NEW a \in Actors, StartAgent(a)
      PROVE  ControlOK' /\ Busy'
  BY <1>16, GotoControl, LeaveControl, StepNames DEF StartAgent, ControlOK, Busy,
       listing, Return, ReturnAtOnce
<1>17. ASSUME NEW a \in Actors, StartRecord(a)
      PROVE  ControlOK' /\ Busy'
  BY <1>17, GotoControl, LeaveControl, StepNames DEF StartRecord, ControlOK, Busy,
       locals, listing, Return, ReturnAtOnce
<1>18. ASSUME NEW a \in Actors, StartTimer(a)
      PROVE  ControlOK' /\ Busy'
  BY <1>18, StepNames DEF StartTimer, ControlOK, Busy, listing, Actors
<1>19. ASSUME NEW a \in Actors, FinalizeRead(a)
      PROVE  ControlOK' /\ Busy'
  <2>1. ASSUME ReturnAtOnce(a)
       PROVE  ControlOK' /\ Busy'
    BY <2>1, <1>19, LeaveControl, StepNames DEF FinalizeRead, ReturnAtOnce, listing
  <2>2. ASSUME ~ReturnAtOnce(a)
       PROVE  ControlOK' /\ Busy'
    <3>1. /\ pc[a] = "finalize" /\ Goto(a, "agent_finish")
          /\ lock' = [lock EXCEPT ![inst[a]] = a]
          /\ held' = [held EXCEPT ![a] = capture[inst[a]]]
          /\ UNCHANGED <<inst, expect, saw, due, rows>>
      BY <2>2, <1>19 DEF FinalizeRead, Acquire, listing
    <3>2. inst[a] \in Instances
      BY <3>1, StepNames DEF Busy
    <3>3. /\ held' \in [Actors -> Captures \cup {Nil}]
          /\ lock' \in [Instances -> Actors \cup {Nil}]
      BY <3>1, <3>2 DEF ControlOK, TableOK
    <3>4. saw' \in [Actors -> SUBSET {"workload", "file"}]
      BY <3>1 DEF ControlOK
    <3>. QED  BY <3>1, <3>3, <3>4, GotoControl, StepNames
  <2>. QED  BY <2>1, <2>2, <1>19
<1>20. ASSUME NEW a \in Actors, FinalizeAgent(a)
      PROVE  ControlOK' /\ Busy'
  BY <1>20, GotoControl, LeaveControl, StepNames DEF FinalizeAgent, ControlOK, Busy,
       locals, listing, Return, ReturnAtOnce
<1>21. ASSUME NEW a \in Actors, FinalizeWrite(a)
      PROVE  ControlOK' /\ Busy'
  BY <1>21, GotoControl, LeaveControl, StepNames DEF FinalizeWrite, ControlOK, Busy,
       locals, listing, Return, ReturnAtOnce
<1>22. ASSUME NEW a \in Actors, FinalizeRecord(a)
      PROVE  ControlOK' /\ Busy'
  BY <1>22, GotoControl, LeaveControl, StepNames DEF FinalizeRecord, ControlOK, Busy,
       listing, Return, ReturnAtOnce
<1>23. ASSUME NEW a \in Actors, DeleteRead(a)
      PROVE  ControlOK' /\ Busy'
  <2>1. ASSUME ReturnAtOnce(a)
       PROVE  ControlOK' /\ Busy'
    BY <2>1, <1>23, LeaveControl, StepNames DEF DeleteRead, ReturnAtOnce, listing
  <2>2. ASSUME ~ReturnAtOnce(a)
       PROVE  ControlOK' /\ Busy'
    <3>1. /\ pc[a] = "delete_pcap"
          /\ \E s \in {"abort_capture", "unlink_capture"} : Goto(a, s)
          /\ lock' = [lock EXCEPT ![inst[a]] = a]
          /\ saw' = [saw EXCEPT ![a] = Recorded(inst[a])]
          /\ held' = [held EXCEPT ![a] = capture[inst[a]]]
          /\ UNCHANGED <<inst, expect, due, rows>>
      BY <2>2, <1>23 DEF DeleteRead, Acquire, listing
    <3>2. inst[a] \in Instances
      BY <3>1, StepNames DEF Busy
    <3>3. /\ saw' \in [Actors -> SUBSET {"workload", "file"}]
          /\ held' \in [Actors -> Captures \cup {Nil}]
          /\ lock' \in [Instances -> Actors \cup {Nil}]
      BY <3>1, <3>2 DEF ControlOK, TableOK, Recorded
    <3>. QED  BY <3>1, <3>3, GotoControl, StepNames
  <2>. QED  BY <2>1, <2>2, <1>23
<1>24. ASSUME NEW a \in Actors, DeleteAgent(a)
      PROVE  ControlOK' /\ Busy'
  BY <1>24, GotoControl, LeaveControl, StepNames DEF DeleteAgent, ControlOK, Busy,
       locals, listing, Return, ReturnAtOnce
<1>25. ASSUME NEW a \in Actors, DeleteUnlink(a)
      PROVE  ControlOK' /\ Busy'
  BY <1>25, GotoControl, LeaveControl, StepNames DEF DeleteUnlink, ControlOK, Busy,
       locals, listing, Return, ReturnAtOnce
<1>26. ASSUME NEW a \in Actors, DeleteRecord(a)
      PROVE  ControlOK' /\ Busy'
  BY <1>26, GotoControl, LeaveControl, StepNames DEF DeleteRecord, ControlOK, Busy,
       listing, Return, ReturnAtOnce
<1>27. ASSUME NEW c \in Captures, TimerFires(c)
      PROVE  ControlOK' /\ Busy'
  BY <1>27, StepNames DEF TimerFires, ControlOK, Busy, locals, listing, Goto, Actors
<1>28. ASSUME Restart
      PROVE  ControlOK' /\ Busy'
  BY <1>28, StepNames DEF Restart, ControlOK, Busy
<1>. QED  BY <1>1, <1>2, <1>3, <1>4, <1>5, <1>6, <1>7, <1>8, <1>9, <1>10, <1>11,
          <1>12, <1>13, <1>14, <1>15, <1>16, <1>17, <1>18, <1>19, <1>20, <1>21, <1>22,
          <1>23, <1>24, <1>25, <1>26, <1>27, <1>28 DEF Next, DeployStep, UndeployStep,
          CaptureStep, ListStep, vars, table, request, agent, locals, listing, bounds,
          DeployRequest, DeployCheck, DeployInsert, DeployStart, DeployRecord,
          WorkloadExits, CancelDeploy, Expire, DeleteRule, ImportRulePackage

LEMMA TypeStep == TypeOK /\ Busy /\ [Next]_vars => TypeOK' /\ Busy'
  BY TableStep, WorldStep, ControlStep DEF TypeOK

LEMMA TypeInit == Init => TypeOK /\ Busy
  BY ConstantsAssumption, StepNames DEF Init, TypeOK, TableOK, WorldOK, ControlOK, Busy,
       Actors

\* TypeOK is an invariant of the server, whatever the failures and restarts.
THEOREM TypeCorrect == Spec => []TypeOK
<1>1. Spec => [](TypeOK /\ Busy)
  BY TypeInit, TypeStep, PTL DEF Spec
<1>. QED  BY <1>1, PTL

-------------------------------------------------------------------------------
(* Deployments, undeployments and reconciliation. *)

\* The handler acts on an instance whose deployment is over: its row had a
\* workload id when the handler read it.
Settled == {"stop_workload", "mark_error", "agent_start", "record_capture", "agent_finish",
            "write_file", "record_ready"}

\* What the row says as its deployment goes on; only a deployment starts a workload.
RowsInv == \A i \in Instances :
    /\ dpc[i] \in {"new", "reserve", "insert"} => status[i] = "absent"
    /\ dpc[i] \in Starting => status[i] \in {"absent", "deploying"}
    /\ wid[i] \/ path[i] => dpc[i] = "done"
    /\ status[i] = "inactive" => dpc[i] = "done" /\ (~live[i] \/ i \in unnamed)

\* The handlers whose next write depends on what they read before.
HandlersInv == \A a \in Actors :
    /\ pc[a] \in Settled => dpc[inst[a]] = "done"
    /\ pc[a] \in {"unlink", "delete_row"} /\ saw[a] # {} => dpc[inst[a]] = "done"

\* The rows a list took for its comparison are over with their deployment, and
\* once the Agent has answered they have no workload that it knows by their id.
ListsInv == \A t \in Tasks : \A i \in rows[t] :
    dpc[i] = "done" /\ (pc[t] = "list_mark" => ~live[i] \/ i \in unnamed)

DeployInv == RowsInv /\ HandlersInv /\ ListsInv

\* A deployment that is over stays over.
LEMMA DoneStays ==
    ASSUME TypeOK, [Next]_vars, NEW i \in Instances, dpc[i] = "done"
    PROVE  dpc'[i] = "done"
  BY ZenonT(60) DEF TypeOK, WorldOK, Next, vars, DeployStep, UndeployStep, CaptureStep,
       ListStep, DeployRequest, DeployCheck, DeployInsert, DeployStart, DeployRecord,
       WorkloadExits, CancelDeploy, Request, StopRequest, ListRequest, ListDue,
       ListRows, ListAgent, ListMark, Cancel, UndeployRead, UndeployStop,
       UndeployUnlink, UndeployDelete, UndeployFail, StartRead, StartAgent, StartRecord,
       StartTimer, FinalizeRead, FinalizeAgent, FinalizeWrite, FinalizeRecord,
       DeleteRead, DeleteAgent, DeleteUnlink, DeleteRecord, TimerFires, Expire,
       DeleteRule, ImportRulePackage, Restart, Starting

\* Every step keeps the rows as their deployments left them.
LEMMA RowsStep ==
    ASSUME TypeOK, Busy, DeployInv, [Next]_vars
    PROVE  RowsInv'
<1>. USE DEF TypeOK, DeployInv
<1>1. CASE UNCHANGED <<table, dpc, live, unnamed>>
  BY <1>1 DEF RowsInv, table
<1>2. ASSUME NEW i \in Instances, DeployRequest(i)
      PROVE  RowsInv'
  BY <1>2 DEF DeployRequest, RowsInv, TableOK, WorldOK, table, agent, Starting
<1>3. ASSUME NEW i \in Instances, DeployCheck(i)
      PROVE  RowsInv'
  BY <1>3 DEF DeployCheck, RowsInv, TableOK, WorldOK, table, agent, Starting, PortTaken
<1>4. ASSUME NEW i \in Instances, DeployInsert(i)
      PROVE  RowsInv'
  <2>1. /\ dpc[i] = "insert"
        /\ \E w \in {"start", "done"} : dpc' = [dpc EXCEPT ![i] = w]
        /\ \/ status' = [status EXCEPT ![i] = "deploying"] /\ dpc'[i] = "start"
           \/ status' = status
        /\ UNCHANGED <<wid, path, live, unnamed>>
    BY <1>4 DEF DeployInsert, WorldOK, agent
  <2>. QED  BY <2>1 DEF RowsInv, TableOK, WorldOK, Starting
<1>5. ASSUME NEW i \in Instances, DeployStart(i)
      PROVE  RowsInv'
  BY <1>5 DEF DeployStart, RowsInv, TableOK, WorldOK, table, Starting
<1>6. ASSUME NEW i \in Instances, DeployRecord(i)
      PROVE  RowsInv'
  <2>1. ASSUME dpc[i] = "record_running", SetStatus(i, "running", TRUE)
       PROVE  RowsInv'
    BY <2>1, <1>6 DEF DeployRecord, RowsInv, TableOK, WorldOK, agent, Starting, Present,
         SetStatus
  <2>2. ASSUME dpc[i] = "record_port", DropRows({i})
       PROVE  RowsInv'
    BY <2>2, <1>6 DEF DeployRecord, RowsInv, TableOK, WorldOK, agent, Starting, Present,
         DropRows
  <2>3. ASSUME dpc[i] = "record_error", SetStatus(i, "error", FALSE)
       PROVE  RowsInv'
    BY <2>3, <1>6 DEF DeployRecord, RowsInv, TableOK, WorldOK, agent, Starting, Present,
         SetStatus
  <2>. QED  BY <2>1, <2>2, <2>3, <1>6 DEF DeployRecord
<1>7. ASSUME NEW i \in Instances, WorkloadExits(i)
      PROVE  RowsInv'
  BY <1>7 DEF WorkloadExits, RowsInv, TableOK, WorldOK, table
<1>8. ASSUME NEW i \in Instances, CancelDeploy(i)
      PROVE  RowsInv'
  BY <1>8 DEF CancelDeploy, RowsInv, TableOK, WorldOK, table, agent, Starting
<1>9. ASSUME NEW t \in Tasks, ListMark(t)
      PROVE  RowsInv'
  BY <1>9 DEF ListMark, RowsInv, TableOK, WorldOK, table, agent, ListsInv, Starting,
       SetStatus, Present, ControlOK
<1>10. ASSUME NEW a \in Actors, UndeployStop(a)
      PROVE  RowsInv'
  BY <1>10 DEF UndeployStop, RowsInv, TableOK, WorldOK, table
<1>11. ASSUME NEW a \in Actors, UndeployDelete(a)
      PROVE  RowsInv'
  BY <1>11, StepNames DEF UndeployDelete, RowsInv, HandlersInv, Settled, Starting,
       TableOK, WorldOK, ControlOK, Busy, table, agent, DropRows, Present
<1>12. ASSUME NEW a \in Actors, UndeployFail(a)
      PROVE  RowsInv'
  BY <1>12, StepNames DEF UndeployFail, RowsInv, HandlersInv, Settled, Starting,
       TableOK, WorldOK, ControlOK, Busy, table, agent, SetStatus, Present
<1>13. ASSUME NEW a \in Actors, StartRecord(a)
      PROVE  RowsInv'
  BY <1>13, StepNames DEF StartRecord, RowsInv, HandlersInv, Settled, Starting, TableOK,
       WorldOK, ControlOK, Busy, table, agent, SetPcap, Present
<1>14. ASSUME NEW a \in Actors, FinalizeRecord(a)
      PROVE  RowsInv'
  BY <1>14, StepNames DEF FinalizeRecord, RowsInv, HandlersInv, Settled, Starting,
       TableOK, WorldOK, ControlOK, Busy, table, agent, SetPcap, Present
<1>15. ASSUME NEW a \in Actors, DeleteRecord(a)
      PROVE  RowsInv'
  BY <1>15, StepNames DEF DeleteRecord, RowsInv, HandlersInv, Settled, Starting,
       TableOK, WorldOK, ControlOK, Busy, table, agent, SetPcap, Present
<1>16. ASSUME NEW r \in Rules, DeleteRule(r)
      PROVE  RowsInv'
  BY <1>16 DEF DeleteRule, RowsInv, TableOK, WorldOK, table, agent, DropRows, Present
<1>17. ASSUME Restart
      PROVE  RowsInv'
  BY <1>17 DEF Restart, RowsInv, TableOK, WorldOK, table, agent, Starting
<1>. QED  BY <1>1, <1>2, <1>3, <1>4, <1>5, <1>6, <1>7, <1>8, <1>9, <1>10, <1>11, <1>12,
          <1>13, <1>14, <1>15, <1>16, <1>17, ZenonT(60) DEF Next, DeployStep,
          UndeployStep, CaptureStep, ListStep, vars, table, request, agent, locals,
          listing, bounds, Request, StopRequest, ListRequest, ListDue, ListRows,
          ListAgent, Cancel, UndeployRead, UndeployUnlink, StartRead, StartAgent,
          StartTimer, FinalizeRead, FinalizeAgent, FinalizeWrite, DeleteRead,
          DeleteAgent, DeleteUnlink, TimerFires, Expire, ImportRulePackage, Goto

\* Every step keeps what the handlers have read true.
LEMMA HandlersStep ==
    ASSUME TypeOK, Busy, DeployInv, [Next]_vars
    PROVE  HandlersInv'
<1>. USE DEF TypeOK, DeployInv
<1>1. CASE UNCHANGED <<pc, inst, saw>>
  BY <1>1, DoneStays, StepNames DEF HandlersInv, Busy, Settled
<1>2. ASSUME NEW t \in Tasks,
             NEW op \in {"undeploy", "start_pcap", "delete_pcap"}, Request(t, op)
      PROVE  HandlersInv'
  BY <1>2, DoneStays, StepNames, ConstantsAssumption DEF Request, HandlersInv, Settled,
       ControlOK, Goto, Actors
<1>3. ASSUME NEW t \in Tasks, StopRequest(t)
      PROVE  HandlersInv'
  BY <1>3, DoneStays, StepNames, ConstantsAssumption DEF StopRequest, HandlersInv,
       Settled, ControlOK, Goto, Actors
<1>4. ASSUME NEW t \in Tasks, ListRequest(t)
      PROVE  HandlersInv'
  BY <1>4, DoneStays, StepNames, ConstantsAssumption DEF ListRequest, HandlersInv,
       Settled, ControlOK, Goto, Actors, locals
<1>5. ASSUME NEW t \in Tasks, ListDue(t)
      PROVE  HandlersInv'
  BY <1>5, DoneStays, StepNames, ConstantsAssumption DEF ListDue, HandlersInv, Settled,
       ControlOK, Goto, Actors
<1>6. ASSUME NEW t \in Tasks, ListRows(t)
      PROVE  HandlersInv'
  BY <1>6, DoneStays, StepNames, ConstantsAssumption DEF ListRows, HandlersInv, Settled,
       ControlOK, Goto, Actors, locals
<1>7. ASSUME NEW t \in Tasks, ListAgent(t)
      PROVE  HandlersInv'
  BY <1>7, DoneStays, StepNames, ConstantsAssumption DEF ListAgent, HandlersInv,
       Settled, ControlOK, Goto, Actors, locals
<1>8. ASSUME NEW t \in Tasks, ListMark(t)
      PROVE  HandlersInv'
  BY <1>8, DoneStays, StepNames, ConstantsAssumption,
       ZenonT(60) DEF ListMark, HandlersInv, Settled,
       ControlOK, Goto, Actors, locals
<1>9. ASSUME NEW t \in Tasks, Cancel(t)
      PROVE  HandlersInv'
  BY <1>9, DoneStays, StepNames, ConstantsAssumption DEF Cancel, HandlersInv, Settled,
       ControlOK, Actors
<1>10. ASSUME NEW a \in Actors, UndeployRead(a)
      PROVE  HandlersInv'
  BY <1>10, DoneStays, StepNames DEF UndeployRead, HandlersInv, RowsInv, Settled,
       Recorded, Present, ControlOK, Busy, Goto, Leave, ReturnAtOnce, Acquire
<1>11. ASSUME NEW a \in Actors, UndeployStop(a)
      PROVE  HandlersInv'
  BY <1>11, DoneStays, StepNames DEF UndeployStop, HandlersInv, RowsInv, Settled,
       ControlOK, Busy, Goto, locals
<1>12. ASSUME NEW a \in Actors, UndeployUnlink(a)
      PROVE  HandlersInv'
  BY <1>12, DoneStays, StepNames DEF UndeployUnlink, HandlersInv, RowsInv, Settled,
       ControlOK, Busy, Goto, locals
<1>13. ASSUME NEW a \in Actors, UndeployDelete(a)
      PROVE  HandlersInv'
  BY <1>13, DoneStays, StepNames DEF UndeployDelete, HandlersInv, RowsInv, Settled,
       Present, ControlOK, Busy, Goto, Leave, Return
<1>14. ASSUME NEW a \in Actors, UndeployFail(a)
      PROVE  HandlersInv'
  BY <1>14, DoneStays, StepNames DEF UndeployFail, HandlersInv, RowsInv, Settled,
       ControlOK, Busy, Goto, Leave, Return
<1>15. ASSUME NEW a \in Actors, StartRead(a)
      PROVE  HandlersInv'
  BY <1>15, DoneStays, StepNames DEF StartRead, HandlersInv, RowsInv, Settled,
       ControlOK, Busy, Goto, Leave, ReturnAtOnce, Acquire, locals
<1>16. ASSUME NEW a \in Actors, StartAgent(a)
      PROVE  HandlersInv'
  BY <1>16, DoneStays, StepNames DEF StartAgent, HandlersInv, RowsInv, Settled,
       ControlOK, Busy, Goto, Leave, Return
<1>17. ASSUME NEW a \in Actors, StartRecord(a)
      PROVE  HandlersInv'
  BY <1>17, DoneStays, StepNames DEF StartRecord, HandlersInv, RowsInv, Settled,
       ControlOK, Busy, Goto, locals
<1>18. ASSUME NEW a \in Actors, StartTimer(a)
      PROVE  HandlersInv'
  BY <1>18, DoneStays, StepNames DEF StartTimer, HandlersInv, Settled, ControlOK, Busy,
       Actors
<1>19. ASSUME NEW a \in Actors, FinalizeRead(a)
      PROVE  HandlersInv'
  BY <1>19, DoneStays, StepNames DEF FinalizeRead, HandlersInv, RowsInv, Settled,
       ControlOK, Busy, Goto, Leave, ReturnAtOnce, Acquire, NothingToFinalize
<1>20. ASSUME NEW a \in Actors, FinalizeAgent(a)
      PROVE  HandlersInv'
  BY <1>20, DoneStays, StepNames DEF FinalizeAgent, HandlersInv, RowsInv, Settled,
       ControlOK, Busy, Goto, Leave, Return, locals
<1>21. ASSUME NEW a \in Actors, FinalizeWrite(a)
      PROVE  HandlersInv'
  BY <1>21, DoneStays, StepNames DEF FinalizeWrite, HandlersInv, RowsInv, Settled,
       ControlOK, Busy, Goto, Leave, Return, locals
<1>22. ASSUME NEW a \in Actors, FinalizeRecord(a)
      PROVE  HandlersInv'
  BY <1>22, DoneStays, StepNames DEF FinalizeRecord, HandlersInv, RowsInv, Settled,
       ControlOK, Busy, Goto, Leave, Return
<1>23. ASSUME NEW a \in Actors, DeleteRead(a)
      PROVE  HandlersInv'
  BY <1>23, DoneStays, StepNames DEF DeleteRead, HandlersInv, RowsInv, Settled,
       Recorded, Present, ControlOK, Busy, Goto, Leave, ReturnAtOnce, Acquire
<1>24. ASSUME NEW a \in Actors, DeleteAgent(a)
      PROVE  HandlersInv'
  BY <1>24, DoneStays, StepNames DEF DeleteAgent, HandlersInv, RowsInv, Settled,
       ControlOK, Busy, Goto, Leave, Return, locals
<1>25. ASSUME NEW a \in Actors, DeleteUnlink(a)
      PROVE  HandlersInv'
  BY <1>25, DoneStays, StepNames DEF DeleteUnlink, HandlersInv, RowsInv, Settled,
       ControlOK, Busy, Goto, Leave, Return, locals
<1>26. ASSUME NEW a \in Actors, DeleteRecord(a)
      PROVE  HandlersInv'
  BY <1>26, DoneStays, StepNames DEF DeleteRecord, HandlersInv, RowsInv, Settled,
       ControlOK, Busy, Goto, Leave, Return
<1>27. ASSUME NEW c \in Captures, TimerFires(c)
      PROVE  HandlersInv'
  BY <1>27, DoneStays, StepNames, ConstantsAssumption DEF TimerFires, HandlersInv,
       Settled, ControlOK, Goto, Actors, locals
<1>28. ASSUME Restart
      PROVE  HandlersInv'
  BY <1>28, DoneStays, StepNames, ConstantsAssumption DEF Restart, HandlersInv, Settled,
       ControlOK, Actors
<1>. QED  BY <1>1, <1>2, <1>3, <1>4, <1>5, <1>6, <1>7, <1>8, <1>9, <1>10, <1>11,
          <1>12, <1>13, <1>14, <1>15, <1>16, <1>17, <1>18, <1>19, <1>20, <1>21, <1>22,
          <1>23, <1>24, <1>25, <1>26, <1>27, <1>28 DEF Next, DeployStep, UndeployStep,
          CaptureStep, ListStep, vars, table, request, agent, locals, listing, bounds,
          DeployRequest, DeployCheck, DeployInsert, DeployStart, DeployRecord,
          WorkloadExits, CancelDeploy, Expire, DeleteRule, ImportRulePackage

\* Every step keeps what the lists have read true.
LEMMA ListsStep ==
    ASSUME TypeOK, Busy, DeployInv, [Next]_vars
    PROVE  ListsInv'
<1>. USE DEF TypeOK, DeployInv
<1>1. CASE UNCHANGED <<pc, rows, live, unnamed>>
  BY <1>1, DoneStays DEF ListsInv, ControlOK
<1>2. ASSUME NEW i \in Instances, DeployStart(i)
      PROVE  ListsInv'
  BY <1>2, DoneStays DEF DeployStart, ListsInv, WorldOK, ControlOK, listing, Starting
<1>3. ASSUME NEW i \in Instances, WorkloadExits(i)
      PROVE  ListsInv'
  BY <1>3, DoneStays DEF WorkloadExits, ListsInv, WorldOK, ControlOK, listing
<1>4. ASSUME NEW t \in Tasks,
             NEW op \in {"undeploy", "start_pcap", "delete_pcap"}, Request(t, op)
      PROVE  ListsInv'
  BY <1>4, DoneStays, StepNames, ConstantsAssumption DEF Request, ListsInv, RowsInv,
       WorldOK, ControlOK, TableOK, Goto, Actors, agent, listing
<1>5. ASSUME NEW t \in Tasks, StopRequest(t)
      PROVE  ListsInv'
  BY <1>5, DoneStays, StepNames, ConstantsAssumption DEF StopRequest, ListsInv, RowsInv,
       WorldOK, ControlOK, TableOK, Goto, Actors, agent, listing
<1>6. ASSUME NEW t \in Tasks, ListRequest(t)
      PROVE  ListsInv'
  BY <1>6, DoneStays, StepNames, ConstantsAssumption DEF ListRequest, ListsInv, RowsInv,
       WorldOK, ControlOK, TableOK, Goto, Actors, agent
<1>7. ASSUME NEW t \in Tasks, ListDue(t)
      PROVE  ListsInv'
  BY <1>7, DoneStays, StepNames, ConstantsAssumption DEF ListDue, ListsInv, RowsInv,
       WorldOK, ControlOK, TableOK, Goto, Actors, agent
<1>8. ASSUME NEW t \in Tasks, ListRows(t)
      PROVE  ListsInv'
  BY <1>8, DoneStays, StepNames, ConstantsAssumption DEF ListRows, ListsInv, RowsInv,
       Candidates, WorldOK, ControlOK, TableOK, Goto, Actors, agent
<1>9. ASSUME NEW t \in Tasks, ListAgent(t)
      PROVE  ListsInv'
  <2>1. UNCHANGED <<dpc, live, unnamed>> /\ rows[t] \in SUBSET Instances
    BY <1>9 DEF ListAgent, agent, ControlOK
  <2>2. /\ \A u \in Tasks : u # t => rows'[u] = rows[u] /\ pc'[u] = pc[u]
        /\ \A i \in rows'[t] : i \in rows[t] /\ (~live[i] \/ i \in unnamed)
    <3>1. /\ pc' \in {[pc EXCEPT ![t] = "list_mark"], [pc EXCEPT ![t] = "idle"]}
          /\ rows' \in {[rows EXCEPT ![t] = {i \in rows[t] : ~Listed(i)}], [rows EXCEPT ![t] = {}]}
      BY <1>9 DEF ListAgent, Goto
    <3>. QED  BY <3>1 DEF ControlOK, Actors, Listed
  <2>. QED  BY <2>1, <2>2 DEF ListsInv
<1>10. ASSUME NEW t \in Tasks, ListMark(t)
      PROVE  ListsInv'
  <2>1. ASSUME NEW i \in rows[t], rows' = [rows EXCEPT ![t] = @ \ {i}], UNCHANGED pc
       PROVE  ListsInv'
    BY <2>1, <1>10, DoneStays, StepNames DEF ListMark, ListsInv, WorldOK, ControlOK,
         Goto, Actors, agent, table
  <2>2. ASSUME rows[t] = {}, Goto(t, "idle"), UNCHANGED rows
       PROVE  ListsInv'
    BY <2>2, <1>10, DoneStays, StepNames DEF ListMark, ListsInv, WorldOK, ControlOK,
         Goto, Actors, agent, table
  <2>. QED  BY <2>1, <2>2, <1>10 DEF ListMark
<1>11. ASSUME NEW t \in Tasks, Cancel(t)
      PROVE  ListsInv'
  BY <1>11, DoneStays, StepNames, ConstantsAssumption DEF Cancel, ListsInv, RowsInv,
       WorldOK, ControlOK, TableOK, Goto, Actors, agent
<1>12. ASSUME NEW a \in Actors, UndeployRead(a)
      PROVE  ListsInv'
  BY <1>12, DoneStays DEF UndeployRead, ListsInv, WorldOK, ControlOK, agent, listing,
       Goto, Leave, ReturnAtOnce, Actors
<1>13. ASSUME NEW a \in Actors, UndeployStop(a)
      PROVE  ListsInv'
  BY <1>13, DoneStays DEF UndeployStop, ListsInv, WorldOK, ControlOK, listing, Goto,
       Actors
<1>14. ASSUME NEW a \in Actors, UndeployUnlink(a)
      PROVE  ListsInv'
  BY <1>14, DoneStays DEF UndeployUnlink, ListsInv, WorldOK, ControlOK, agent, listing,
       Goto, Actors
<1>15. ASSUME NEW a \in Actors, UndeployDelete(a)
      PROVE  ListsInv'
  BY <1>15, DoneStays DEF UndeployDelete, ListsInv, WorldOK, ControlOK, agent, listing,
       Goto, Leave, Return, Actors
<1>16. ASSUME NEW a \in Actors, UndeployFail(a)
      PROVE  ListsInv'
  BY <1>16, DoneStays DEF UndeployFail, ListsInv, WorldOK, ControlOK, agent, listing,
       Goto, Leave, Return, Actors
<1>17. ASSUME NEW a \in Actors, StartRead(a)
      PROVE  ListsInv'
  BY <1>17, DoneStays DEF StartRead, ListsInv, WorldOK, ControlOK, agent, listing, Goto,
       Leave, ReturnAtOnce, Actors
<1>18. ASSUME NEW a \in Actors, StartAgent(a)
      PROVE  ListsInv'
  BY <1>18, DoneStays DEF StartAgent, ListsInv, WorldOK, ControlOK, listing, Goto,
       Leave, Return, Actors
<1>19. ASSUME NEW a \in Actors, StartRecord(a)
      PROVE  ListsInv'
  BY <1>19, DoneStays DEF StartRecord, ListsInv, WorldOK, ControlOK, agent, listing,
       Goto, Actors
<1>20. ASSUME NEW a \in Actors, StartTimer(a)
      PROVE  ListsInv'
  BY <1>20, DoneStays, StepNames, ConstantsAssumption DEF StartTimer, ListsInv, RowsInv,
       WorldOK, ControlOK, TableOK, Goto, Actors, agent, listing
<1>21. ASSUME NEW a \in Actors, FinalizeRead(a)
      PROVE  ListsInv'
  BY <1>21, DoneStays DEF FinalizeRead, ListsInv, WorldOK, ControlOK, agent, listing,
       Goto, Leave, ReturnAtOnce, Actors
<1>22. ASSUME NEW a \in Actors, FinalizeAgent(a)
      PROVE  ListsInv'
  BY <1>22, DoneStays DEF FinalizeAgent, ListsInv, WorldOK, ControlOK, listing, Goto,
       Leave, Return, Actors
<1>23. ASSUME NEW a \in Actors, FinalizeWrite(a)
      PROVE  ListsInv'
  BY <1>23, DoneStays DEF FinalizeWrite, ListsInv, WorldOK, ControlOK, agent, listing,
       Goto, Leave, Return, Actors
<1>24. ASSUME NEW a \in Actors, FinalizeRecord(a)
      PROVE  ListsInv'
  BY <1>24, DoneStays DEF FinalizeRecord, ListsInv, WorldOK, ControlOK, agent, listing,
       Goto, Leave, Return, Actors
<1>25. ASSUME NEW a \in Actors, DeleteRead(a)
      PROVE  ListsInv'
  BY <1>25, DoneStays DEF DeleteRead, ListsInv, WorldOK, ControlOK, agent, listing,
       Goto, Leave, ReturnAtOnce, Actors
<1>26. ASSUME NEW a \in Actors, DeleteAgent(a)
      PROVE  ListsInv'
  BY <1>26, DoneStays DEF DeleteAgent, ListsInv, WorldOK, ControlOK, listing, Goto,
       Leave, Return, Actors
<1>27. ASSUME NEW a \in Actors, DeleteUnlink(a)
      PROVE  ListsInv'
  BY <1>27, DoneStays DEF DeleteUnlink, ListsInv, WorldOK, ControlOK, agent, listing,
       Goto, Leave, Return, Actors
<1>28. ASSUME NEW a \in Actors, DeleteRecord(a)
      PROVE  ListsInv'
  BY <1>28, DoneStays DEF DeleteRecord, ListsInv, WorldOK, ControlOK, agent, listing,
       Goto, Leave, Return, Actors
<1>29. ASSUME NEW c \in Captures, TimerFires(c)
      PROVE  ListsInv'
  BY <1>29, DoneStays, StepNames, ConstantsAssumption DEF TimerFires, ListsInv, RowsInv,
       WorldOK, ControlOK, TableOK, Goto, Actors, agent, listing
<1>30. ASSUME Restart
      PROVE  ListsInv'
  BY <1>30, DoneStays, StepNames, ConstantsAssumption DEF Restart, ListsInv, RowsInv,
       WorldOK, ControlOK, TableOK, Goto, Actors, agent
<1>. QED  BY <1>1, <1>2, <1>3, <1>4, <1>5, <1>6, <1>7, <1>8, <1>9, <1>10, <1>11,
          <1>12, <1>13, <1>14, <1>15, <1>16, <1>17, <1>18, <1>19, <1>20, <1>21, <1>22,
          <1>23, <1>24, <1>25, <1>26, <1>27, <1>28, <1>29, <1>30 DEF Next, DeployStep,
          UndeployStep, CaptureStep, ListStep, vars, table, request, agent, locals,
          listing, bounds, DeployRequest, DeployCheck, DeployInsert, DeployRecord,
          CancelDeploy, Expire, DeleteRule, ImportRulePackage

LEMMA DeployInvInit == Init => DeployInv
  BY StepNames, ConstantsAssumption DEF Init, DeployInv, RowsInv, HandlersInv, ListsInv,
       Settled, Starting, Actors

LEMMA DeployInvStep == TypeOK /\ Busy /\ DeployInv /\ [Next]_vars => DeployInv'
  BY RowsStep, HandlersStep, ListsStep DEF DeployInv

LEMMA DeployInvCorrect == Spec => [](TypeOK /\ Busy /\ DeployInv)
  BY TypeInit, TypeStep, DeployInvInit, DeployInvStep, PTL DEF Spec

\* Reconciliation never marks an instance inactive while its workload lives,
\* whatever deployments, undeployments and lists run beside it, unless the answer to
\* its deployment had no workload id and the row has the made-up one.
THEOREM InactiveGone == Spec => []InactiveIsGone
<1>1. DeployInv => InactiveIsGone
  BY DEF DeployInv, RowsInv, InactiveIsGone
<1>. QED  BY <1>1, DeployInvCorrect, PTL

\* What NoResurrection says of one step.
StaysDown == \A i \in Instances :
    status[i] \in {"error", "inactive"} => status'[i] \notin ActiveStatus

\* No step makes an instance in error, or an inactive one, active again.
LEMMA DownStep ==
    ASSUME TypeOK, Busy, DeployInv, [Next]_vars
    PROVE  StaysDown
<1>. USE DEF TypeOK, DeployInv
<1>1. CASE UNCHANGED <<status>>
  BY <1>1 DEF StaysDown, ActiveStatus
<1>2. ASSUME NEW i \in Instances, DeployInsert(i)
      PROVE  StaysDown
  <2>1. ASSUME fresh[i], rule[i] \in rules, status' = [status EXCEPT ![i] = "deploying"],
              dpc' = [dpc EXCEPT ![i] = "start"], Commit(TRUE)
       PROVE  StaysDown
    BY <2>1, <1>2 DEF DeployInsert, StaysDown, ActiveStatus, RowsInv, TableOK
  <2>2. ASSUME UNCHANGED status, dpc' = [dpc EXCEPT ![i] = "done"],
              fresh' = [fresh EXCEPT ![i] = FALSE]
       PROVE  StaysDown
    BY <2>2, <1>2 DEF DeployInsert, StaysDown, ActiveStatus, RowsInv, TableOK
  <2>. QED  BY <2>1, <2>2, <1>2 DEF DeployInsert
<1>3. ASSUME NEW i \in Instances, DeployRecord(i)
      PROVE  StaysDown
  <2>1. ASSUME dpc[i] = "record_running", SetStatus(i, "running", TRUE)
       PROVE  StaysDown
    BY <2>1, <1>3 DEF RowsInv, StaysDown, ActiveStatus, Starting, TableOK, SetStatus,
         Present
  <2>2. ASSUME DropRows({i})
       PROVE  StaysDown
    BY <2>2, <1>3 DEF StaysDown, ActiveStatus, TableOK, DropRows
  <2>3. ASSUME SetStatus(i, "error", FALSE)
       PROVE  StaysDown
    BY <2>3, <1>3 DEF StaysDown, ActiveStatus, TableOK, SetStatus
  <2>. QED  BY <2>1, <2>2, <2>3, <1>3 DEF DeployRecord
<1>4. ASSUME NEW t \in Tasks, ListMark(t)
      PROVE  StaysDown
  BY <1>4, StepNames DEF ListMark, StaysDown, ActiveStatus, RowsInv, TableOK, ControlOK,
       SetStatus, DropRows, table
<1>5. ASSUME NEW a \in Actors, UndeployDelete(a)
      PROVE  StaysDown
  BY <1>5, StepNames DEF UndeployDelete, StaysDown, ActiveStatus, RowsInv, TableOK,
       ControlOK, SetStatus, DropRows
<1>6. ASSUME NEW a \in Actors, UndeployFail(a)
      PROVE  StaysDown
  BY <1>6, StepNames DEF UndeployFail, StaysDown, ActiveStatus, RowsInv, TableOK,
       ControlOK, SetStatus, DropRows
<1>7. ASSUME NEW r \in Rules, DeleteRule(r)
      PROVE  StaysDown
  BY <1>7, StepNames DEF DeleteRule, StaysDown, ActiveStatus, RowsInv, TableOK,
       ControlOK, SetStatus, DropRows
<1>. QED  BY <1>1, <1>2, <1>3, <1>4, <1>5, <1>6, <1>7, ZenonT(60) DEF Next, DeployStep,
          UndeployStep, CaptureStep, ListStep, vars, table, request, agent, locals,
          listing, bounds, DeployRequest, DeployCheck, DeployStart, WorkloadExits,
          CancelDeploy, Request, StopRequest, ListRequest, ListDue, ListRows, ListAgent,
          Cancel, UndeployRead, UndeployStop, UndeployUnlink, StartRead, StartAgent,
          StartRecord, StartTimer, FinalizeRead, FinalizeAgent, FinalizeWrite,
          FinalizeRecord, DeleteRead, DeleteAgent, DeleteUnlink, DeleteRecord,
          TimerFires, Expire, ImportRulePackage, Restart, Goto, SetPcap

\* An instance that has given up its ports never holds them again.
THEOREM NeverResurrected == Spec => NoResurrection
<1>1. TypeOK /\ Busy /\ DeployInv /\ [Next]_vars => [StaysDown]_vars
  BY DownStep
<1>2. Spec => [][StaysDown]_vars
  BY <1>1, DeployInvCorrect, PTL DEF Spec
<1>. QED  BY <1>2 DEF NoResurrection, StaysDown

-------------------------------------------------------------------------------
(* Host ports. *)

\* A deployment that may still insert its row has ports that no row has taken
\* since it looked.
FreshInv == \A i \in Instances : fresh[i] => dpc[i] = "insert" /\ ~PortTaken(i)

PortInv == PortExclusive /\ FreshInv

\* A step that activates no row and gives no other ports keeps the ports apart.
LEMMA PortsApart ==
    ASSUME TypeOK, PortExclusive, UNCHANGED ports,
           \A i \in Instances : status'[i] \in ActiveStatus => status[i] \in ActiveStatus
    PROVE  PortExclusive'
  BY DEF PortExclusive

\* A committed write that changes a row leaves no read snapshot current.
LEMMA CommitFresh ==
    ASSUME TypeOK, FreshInv, NEW changed \in BOOLEAN, Commit(changed),
           changed \/ UNCHANGED <<status, ports>>, UNCHANGED dpc
    PROVE  FreshInv'
  BY DEF Commit, FreshInv, PortTaken

\* Every step keeps the ports apart.
LEMMA ApartStep ==
    ASSUME TypeOK, Busy, DeployInv, PortInv, [Next]_vars
    PROVE  PortExclusive'
<1>. USE DEF TypeOK, DeployInv, PortInv
<1>1. CASE UNCHANGED <<status, ports>>
  BY <1>1 DEF PortExclusive
<1>2. ASSUME NEW i \in Instances, DeployRequest(i)
      PROVE  PortExclusive'
  BY <1>2 DEF DeployRequest, PortExclusive, RowsInv, WorldOK, ActiveStatus, table
<1>3. ASSUME NEW i \in Instances, DeployInsert(i)
      PROVE  PortExclusive'
  <2>1. ASSUME fresh[i], status' = [status EXCEPT ![i] = "deploying"]
       PROVE  PortExclusive'
    BY <2>1, <1>3 DEF DeployInsert, PortExclusive, FreshInv, PortTaken, ActiveStatus,
         TableOK, request
  <2>2. ASSUME UNCHANGED status
       PROVE  PortExclusive'
    BY <2>2, <1>3 DEF DeployInsert, PortExclusive, request
  <2>. QED  BY <2>1, <2>2, <1>3 DEF DeployInsert
<1>4. ASSUME NEW i \in Instances, DeployRecord(i)
      PROVE  PortExclusive'
  <2>1. ASSUME dpc[i] = "record_running", SetStatus(i, "running", TRUE)
       PROVE  PortExclusive'
    BY <2>1, <1>4, PortsApart DEF DeployRecord, RowsInv, ActiveStatus, Starting,
         TableOK, SetStatus, Present, request
  <2>2. ASSUME DropRows({i})
       PROVE  PortExclusive'
    BY <2>2, <1>4, PortsApart DEF DeployRecord, ActiveStatus, TableOK, DropRows, request
  <2>3. ASSUME SetStatus(i, "error", FALSE)
       PROVE  PortExclusive'
    BY <2>3, <1>4, PortsApart DEF DeployRecord, ActiveStatus, TableOK, SetStatus,
         request
  <2>. QED  BY <2>1, <2>2, <2>3, <1>4 DEF DeployRecord
<1>5. ASSUME NEW t \in Tasks, ListMark(t)
      PROVE  PortExclusive'
  BY <1>5, PortsApart DEF ListMark, ActiveStatus, TableOK, ControlOK, SetStatus, table,
       request
<1>6. ASSUME NEW a \in Actors, UndeployDelete(a)
      PROVE  PortExclusive'
  BY <1>6, PortsApart DEF UndeployDelete, ActiveStatus, TableOK, SetStatus, DropRows,
       request
<1>7. ASSUME NEW a \in Actors, UndeployFail(a)
      PROVE  PortExclusive'
  BY <1>7, PortsApart DEF UndeployFail, ActiveStatus, TableOK, SetStatus, DropRows,
       request
<1>8. ASSUME NEW r \in Rules, DeleteRule(r)
      PROVE  PortExclusive'
  BY <1>8, PortsApart DEF DeleteRule, ActiveStatus, TableOK, SetStatus, DropRows,
       request
<1>. QED  BY <1>1, <1>2, <1>3, <1>4, <1>5, <1>6, <1>7, <1>8, ZenonT(60) DEF Next,
          DeployStep, UndeployStep, CaptureStep, ListStep, vars, table, request, agent,
          locals, listing, bounds, DeployCheck, DeployStart, WorkloadExits,
          CancelDeploy, Request, StopRequest, ListRequest, ListDue, ListRows, ListAgent,
          Cancel, UndeployRead, UndeployStop, UndeployUnlink, StartRead, StartAgent,
          StartRecord, StartTimer, FinalizeRead, FinalizeAgent, FinalizeWrite,
          FinalizeRecord, DeleteRead, DeleteAgent, DeleteUnlink, DeleteRecord,
          TimerFires, Expire, ImportRulePackage, Restart, Goto, SetPcap

\* Every step keeps the snapshots that are current correct.
LEMMA FreshStep ==
    ASSUME TypeOK, Busy, DeployInv, PortInv, [Next]_vars
    PROVE  FreshInv'
<1>. USE DEF TypeOK, DeployInv, PortInv
<1>1. CASE UNCHANGED <<status, ports, fresh, dpc>>
  BY <1>1 DEF FreshInv, PortTaken
<1>2. ASSUME NEW i \in Instances, DeployRequest(i)
      PROVE  FreshInv'
  BY <1>2 DEF DeployRequest, FreshInv, PortTaken, WorldOK, TableOK, table, RowsInv,
       ActiveStatus
<1>3. ASSUME NEW i \in Instances, DeployCheck(i)
      PROVE  FreshInv'
  BY <1>3 DEF DeployCheck, FreshInv, PortTaken, WorldOK, TableOK, table, request,
       Starting
<1>4. ASSUME NEW i \in Instances, DeployInsert(i)
      PROVE  FreshInv'
  <2>1. ASSUME fresh[i], rule[i] \in rules, status' = [status EXCEPT ![i] = "deploying"],
              dpc' = [dpc EXCEPT ![i] = "start"], Commit(TRUE)
       PROVE  FreshInv'
    BY <2>1, <1>4 DEF DeployInsert, Commit, FreshInv, PortTaken, TableOK, WorldOK,
         request
  <2>2. ASSUME UNCHANGED status, dpc' = [dpc EXCEPT ![i] = "done"],
              fresh' = [fresh EXCEPT ![i] = FALSE]
       PROVE  FreshInv'
    BY <2>2, <1>4 DEF DeployInsert, Commit, FreshInv, PortTaken, TableOK, WorldOK,
         request
  <2>. QED  BY <2>1, <2>2, <1>4 DEF DeployInsert
<1>5. ASSUME NEW i \in Instances, DeployStart(i)
      PROVE  FreshInv'
  BY <1>5 DEF DeployStart, FreshInv, PortTaken, WorldOK, TableOK, table, request,
       Starting
<1>6. ASSUME NEW i \in Instances, DeployRecord(i)
      PROVE  FreshInv'
  <2>1. ASSUME NEW s \in {"running", "error"}, NEW h \in BOOLEAN, SetStatus(i, s, h)
       PROVE  FreshInv'
    BY <2>1, <1>6 DEF DeployRecord, SetStatus, Commit, FreshInv, PortTaken, Starting,
         TableOK, WorldOK, request
  <2>2. ASSUME DropRows({i}), Commit(Present(i))
       PROVE  FreshInv'
    BY <2>2, <1>6 DEF DeployRecord, DropRows, Commit, Present, FreshInv, PortTaken,
         Starting, TableOK, WorldOK, request
  <2>. QED  BY <2>1, <2>2, <1>6 DEF DeployRecord
<1>7. ASSUME NEW i \in Instances, CancelDeploy(i)
      PROVE  FreshInv'
  BY <1>7 DEF CancelDeploy, FreshInv, PortTaken, WorldOK, TableOK, table, request,
       Starting
<1>8. ASSUME NEW t \in Tasks, ListMark(t)
      PROVE  FreshInv'
  BY <1>8, CommitFresh DEF ListMark, SetStatus, Present, FreshInv, PortTaken, table,
       request
<1>9. ASSUME NEW a \in Actors, UndeployDelete(a)
      PROVE  FreshInv'
  BY <1>9, CommitFresh DEF UndeployDelete, SetStatus, DropRows, Present, TableOK,
       request
<1>10. ASSUME NEW a \in Actors, UndeployFail(a)
      PROVE  FreshInv'
  BY <1>10, CommitFresh DEF UndeployFail, SetStatus, DropRows, Present, TableOK, request
<1>11. ASSUME NEW a \in Actors, StartRecord(a)
      PROVE  FreshInv'
  BY <1>11, CommitFresh DEF StartRecord, SetStatus, SetPcap, DropRows, Present, TableOK,
       request
<1>12. ASSUME NEW a \in Actors, FinalizeRecord(a)
      PROVE  FreshInv'
  BY <1>12, CommitFresh DEF FinalizeRecord, SetStatus, SetPcap, DropRows, Present,
       TableOK, request
<1>13. ASSUME NEW a \in Actors, DeleteRecord(a)
      PROVE  FreshInv'
  BY <1>13, CommitFresh DEF DeleteRecord, SetStatus, SetPcap, DropRows, Present,
       TableOK, request
<1>14. ASSUME NEW r \in Rules, DeleteRule(r)
      PROVE  FreshInv'
  BY <1>14, CommitFresh DEF DeleteRule, SetStatus, DropRows, Present, TableOK, request
<1>15. ASSUME NEW package \in SUBSET Packaged, ImportRulePackage(package)
      PROVE  FreshInv'
  BY <1>15, CommitFresh DEF ImportRulePackage
<1>16. ASSUME Restart
      PROVE  FreshInv'
  BY <1>16 DEF Restart, FreshInv, PortTaken, WorldOK, TableOK, table, request, Starting
<1>. QED  BY <1>1, <1>2, <1>3, <1>4, <1>5, <1>6, <1>7, <1>8, <1>9, <1>10, <1>11,
          <1>12, <1>13, <1>14, <1>15, <1>16, SMTT(30) DEF Next, DeployStep, UndeployStep,
          CaptureStep, ListStep, vars, table, request, agent, locals, listing, bounds,
          WorkloadExits, Request, StopRequest, ListRequest, ListDue, ListRows,
          ListAgent, Cancel, UndeployRead, UndeployStop, UndeployUnlink, StartRead,
          StartAgent, StartTimer, FinalizeRead, FinalizeAgent, FinalizeWrite,
          DeleteRead, DeleteAgent, DeleteUnlink, TimerFires, Expire, Goto

\* Two active instances never share a host port, however deployments interleave.
THEOREM PortsExclusive == Spec => []PortExclusive
<1>1. Init => PortInv
  BY DEF Init, PortInv, PortExclusive, FreshInv, ActiveStatus
<1>2. TypeOK /\ Busy /\ DeployInv /\ PortInv /\ [Next]_vars => PortInv'
  BY ApartStep, FreshStep DEF PortInv
<1>3. Spec => []PortInv
  BY <1>1, <1>2, DeployInvCorrect, PTL DEF Spec
<1>. QED  BY <1>3, PTL DEF PortInv

-------------------------------------------------------------------------------
(* The lifecycle locks, and what an undeployment reclaims. *)

\* A handler inside a critical section owns the lock of its instance: no two
\* handlers are ever inside the critical sections of one instance.
Locked == \A a \in Actors : pc[a] \in Critical => lock[inst[a]] = a

\* Every step keeps the critical sections exclusive.
LEMMA LockedStep ==
    ASSUME TypeOK, Busy, Locked, [Next]_vars
    PROVE  Locked'
<1>. USE DEF TypeOK
<1>1. CASE UNCHANGED <<pc, inst, lock>>
  BY <1>1 DEF Locked
<1>2. ASSUME NEW t \in Tasks,
             NEW op \in {"undeploy", "start_pcap", "delete_pcap"}, Request(t, op)
      PROVE  Locked'
  BY <1>2, StepNames, ConstantsAssumption DEF Request, Locked, ControlOK, Goto, Actors
<1>3. ASSUME NEW t \in Tasks, StopRequest(t)
      PROVE  Locked'
  BY <1>3, StepNames, ConstantsAssumption DEF StopRequest, Locked, ControlOK, Goto,
       Actors
<1>4. ASSUME NEW t \in Tasks, ListRequest(t)
      PROVE  Locked'
  BY <1>4, StepNames, ConstantsAssumption DEF ListRequest, Locked, ControlOK, Goto,
       Actors, locals
<1>5. ASSUME NEW t \in Tasks, ListDue(t)
      PROVE  Locked'
  BY <1>5, StepNames, ConstantsAssumption DEF ListDue, Locked, ControlOK, Goto, Actors
<1>6. ASSUME NEW t \in Tasks, ListRows(t)
      PROVE  Locked'
  BY <1>6, StepNames, ConstantsAssumption DEF ListRows, Locked, ControlOK, Goto, Actors,
       locals
<1>7. ASSUME NEW t \in Tasks, ListAgent(t)
      PROVE  Locked'
  BY <1>7, StepNames, ConstantsAssumption DEF ListAgent, Locked, ControlOK, Goto,
       Actors, locals
<1>8. ASSUME NEW t \in Tasks, ListMark(t)
      PROVE  Locked'
  BY <1>8, StepNames, ConstantsAssumption DEF ListMark, Locked, ControlOK, Goto, Actors,
       locals
<1>9. ASSUME NEW t \in Tasks, Cancel(t)
      PROVE  Locked'
  BY <1>9, StepNames, ConstantsAssumption DEF Cancel, Locked, ControlOK, Busy, Actors
<1>10. ASSUME NEW a \in Actors, UndeployRead(a)
      PROVE  Locked'
  BY <1>10, StepNames, ConstantsAssumption DEF UndeployRead, Locked, ControlOK, Busy,
       Goto, Leave, ReturnAtOnce, Acquire, Actors
<1>11. ASSUME NEW a \in Actors, UndeployStop(a)
      PROVE  Locked'
  BY <1>11, StepNames, ConstantsAssumption DEF UndeployStop, Locked, ControlOK, Busy,
       Goto, Actors, locals
<1>12. ASSUME NEW a \in Actors, UndeployUnlink(a)
      PROVE  Locked'
  BY <1>12, StepNames, ConstantsAssumption DEF UndeployUnlink, Locked, ControlOK, Busy,
       Goto, Actors, locals
<1>13. ASSUME NEW a \in Actors, UndeployDelete(a)
      PROVE  Locked'
  BY <1>13, StepNames, ConstantsAssumption DEF UndeployDelete, Locked, ControlOK, Busy,
       Goto, Leave, Return, Actors
<1>14. ASSUME NEW a \in Actors, UndeployFail(a)
      PROVE  Locked'
  BY <1>14, StepNames, ConstantsAssumption DEF UndeployFail, Locked, ControlOK, Busy,
       Goto, Leave, Return, Actors
<1>15. ASSUME NEW a \in Actors, StartRead(a)
      PROVE  Locked'
  BY <1>15, StepNames, ConstantsAssumption DEF StartRead, Locked, ControlOK, Busy, Goto,
       Leave, ReturnAtOnce, Acquire, Actors, locals
<1>16. ASSUME NEW a \in Actors, StartAgent(a)
      PROVE  Locked'
  BY <1>16, StepNames, ConstantsAssumption DEF StartAgent, Locked, ControlOK, Busy,
       Goto, Leave, Return, Actors
<1>17. ASSUME NEW a \in Actors, StartRecord(a)
      PROVE  Locked'
  BY <1>17, StepNames, ConstantsAssumption DEF StartRecord, Locked, ControlOK, Busy,
       Goto, Actors, locals
<1>18. ASSUME NEW a \in Actors, StartTimer(a)
      PROVE  Locked'
  BY <1>18, StepNames, ConstantsAssumption DEF StartTimer, Locked, ControlOK, Busy,
       Actors
<1>19. ASSUME NEW a \in Actors, FinalizeRead(a)
      PROVE  Locked'
  BY <1>19, StepNames, ConstantsAssumption DEF FinalizeRead, Locked, ControlOK, Busy,
       Goto, Leave, ReturnAtOnce, Acquire, Actors
<1>20. ASSUME NEW a \in Actors, FinalizeAgent(a)
      PROVE  Locked'
  BY <1>20, StepNames, ConstantsAssumption DEF FinalizeAgent, Locked, ControlOK, Busy,
       Goto, Leave, Return, Actors, locals
<1>21. ASSUME NEW a \in Actors, FinalizeWrite(a)
      PROVE  Locked'
  BY <1>21, StepNames, ConstantsAssumption DEF FinalizeWrite, Locked, ControlOK, Busy,
       Goto, Leave, Return, Actors, locals
<1>22. ASSUME NEW a \in Actors, FinalizeRecord(a)
      PROVE  Locked'
  BY <1>22, StepNames, ConstantsAssumption DEF FinalizeRecord, Locked, ControlOK, Busy,
       Goto, Leave, Return, Actors
<1>23. ASSUME NEW a \in Actors, DeleteRead(a)
      PROVE  Locked'
  BY <1>23, StepNames, ConstantsAssumption DEF DeleteRead, Locked, ControlOK, Busy,
       Goto, Leave, ReturnAtOnce, Acquire, Actors
<1>24. ASSUME NEW a \in Actors, DeleteAgent(a)
      PROVE  Locked'
  BY <1>24, StepNames, ConstantsAssumption DEF DeleteAgent, Locked, ControlOK, Busy,
       Goto, Leave, Return, Actors, locals
<1>25. ASSUME NEW a \in Actors, DeleteUnlink(a)
      PROVE  Locked'
  BY <1>25, StepNames, ConstantsAssumption DEF DeleteUnlink, Locked, ControlOK, Busy,
       Goto, Leave, Return, Actors, locals
<1>26. ASSUME NEW a \in Actors, DeleteRecord(a)
      PROVE  Locked'
  BY <1>26, StepNames, ConstantsAssumption DEF DeleteRecord, Locked, ControlOK, Busy,
       Goto, Leave, Return, Actors
<1>27. ASSUME NEW c \in Captures, TimerFires(c)
      PROVE  Locked'
  BY <1>27, StepNames, ConstantsAssumption DEF TimerFires, Locked, ControlOK, Goto,
       Actors, locals
<1>28. ASSUME Restart
      PROVE  Locked'
  BY <1>28, StepNames, ConstantsAssumption DEF Restart, Locked, ControlOK, Actors
<1>. QED  BY <1>1, <1>2, <1>3, <1>4, <1>5, <1>6, <1>7, <1>8, <1>9, <1>10, <1>11,
          <1>12, <1>13, <1>14, <1>15, <1>16, <1>17, <1>18, <1>19, <1>20, <1>21, <1>22,
          <1>23, <1>24, <1>25, <1>26, <1>27, <1>28 DEF Next, DeployStep, UndeployStep,
          CaptureStep, ListStep, vars, table, request, agent, locals, listing, bounds,
          DeployRequest, DeployCheck, DeployInsert, DeployStart, DeployRecord,
          WorkloadExits, CancelDeploy, Expire, DeleteRule, ImportRulePackage

LEMMA LockedCorrect == Spec => [](TypeOK /\ Busy /\ DeployInv /\ Locked)
<1>1. Init => Locked
  BY StepNames DEF Init, Locked
<1>2. TypeOK /\ Busy /\ Locked /\ [Next]_vars => Locked'
  BY LockedStep
<1>. QED  BY <1>1, <1>2, DeployInvCorrect, PTL DEF Spec

\* Past the Agent's answer the workload is gone if it is recorded under the Agent's id,
\* past the removal the recorded file is: no deployment starts it again (DeployInv) and
\* no capture is written by another handler (Locked).
ReclaimInv == \A a \in Actors :
    /\ pc[a] \in {"unlink", "delete_row"} /\ "workload" \in saw[a] =>
          ~live[inst[a]] \/ inst[a] \in unnamed
    /\ pc[a] = "delete_row" /\ "file" \in saw[a] => disk[inst[a]] = Nil

\* Every step keeps what an undeployment has reclaimed.
LEMMA ReclaimStep ==
    ASSUME TypeOK, Busy, DeployInv, Locked, ReclaimInv, [Next]_vars
    PROVE  ReclaimInv'
<1>. USE DEF TypeOK, DeployInv
<1>1. CASE UNCHANGED <<pc, inst, saw, live, unnamed, disk>>
  BY <1>1 DEF ReclaimInv
<1>2. ASSUME NEW i \in Instances, DeployStart(i)
      PROVE  ReclaimInv'
  BY <1>2, StepNames DEF DeployStart, ReclaimInv, HandlersInv, Starting, WorldOK,
       ControlOK, Busy, locals
<1>3. ASSUME NEW i \in Instances, WorkloadExits(i)
      PROVE  ReclaimInv'
  BY <1>3, StepNames DEF WorkloadExits, ReclaimInv, WorldOK, ControlOK, Busy, locals
<1>4. ASSUME NEW t \in Tasks,
             NEW op \in {"undeploy", "start_pcap", "delete_pcap"}, Request(t, op)
      PROVE  ReclaimInv'
  BY <1>4, StepNames, ConstantsAssumption DEF Request, ReclaimInv, ControlOK, Goto,
       Actors, agent
<1>5. ASSUME NEW t \in Tasks, StopRequest(t)
      PROVE  ReclaimInv'
  BY <1>5, StepNames, ConstantsAssumption DEF StopRequest, ReclaimInv, ControlOK, Goto,
       Actors, agent
<1>6. ASSUME NEW t \in Tasks, ListRequest(t)
      PROVE  ReclaimInv'
  BY <1>6, StepNames, ConstantsAssumption DEF ListRequest, ReclaimInv, ControlOK, Goto,
       Actors, locals, agent
<1>7. ASSUME NEW t \in Tasks, ListDue(t)
      PROVE  ReclaimInv'
  BY <1>7, StepNames, ConstantsAssumption DEF ListDue, ReclaimInv, ControlOK, Goto,
       Actors, agent
<1>8. ASSUME NEW t \in Tasks, ListRows(t)
      PROVE  ReclaimInv'
  BY <1>8, StepNames, ConstantsAssumption DEF ListRows, ReclaimInv, ControlOK, Goto,
       Actors, locals, agent
<1>9. ASSUME NEW t \in Tasks, ListAgent(t)
      PROVE  ReclaimInv'
  BY <1>9, StepNames, ConstantsAssumption DEF ListAgent, ReclaimInv, ControlOK, Goto,
       Actors, locals, agent
<1>10. ASSUME NEW t \in Tasks, ListMark(t)
      PROVE  ReclaimInv'
  BY <1>10, StepNames, ConstantsAssumption DEF ListMark, ReclaimInv, ControlOK, Goto,
       Actors, locals, agent
<1>11. ASSUME NEW t \in Tasks, Cancel(t)
      PROVE  ReclaimInv'
  BY <1>11, StepNames, ConstantsAssumption DEF Cancel, ReclaimInv, ControlOK, Actors,
       agent
<1>12. ASSUME NEW a \in Actors, UndeployRead(a)
      PROVE  ReclaimInv'
  BY <1>12, StepNames, ConstantsAssumption DEF UndeployRead, ReclaimInv, ControlOK,
       Busy, Goto, Leave, ReturnAtOnce, Acquire, Actors, Recorded, agent
<1>13. ASSUME NEW a \in Actors, UndeployStop(a)
      PROVE  ReclaimInv'
  BY <1>13, StepNames, ConstantsAssumption DEF UndeployStop, ReclaimInv, ControlOK,
       WorldOK, Locked, Busy, Goto, Actors, locals
<1>14. ASSUME NEW a \in Actors, UndeployUnlink(a)
      PROVE  ReclaimInv'
  BY <1>14, StepNames, ConstantsAssumption DEF UndeployUnlink, ReclaimInv, ControlOK,
       WorldOK, Locked, Busy, Goto, Actors, locals, agent
<1>15. ASSUME NEW a \in Actors, UndeployDelete(a)
      PROVE  ReclaimInv'
  BY <1>15, StepNames, ConstantsAssumption DEF UndeployDelete, ReclaimInv, ControlOK,
       Busy, Goto, Leave, Return, Actors, agent
<1>16. ASSUME NEW a \in Actors, UndeployFail(a)
      PROVE  ReclaimInv'
  BY <1>16, StepNames, ConstantsAssumption DEF UndeployFail, ReclaimInv, ControlOK,
       Busy, Goto, Leave, Return, Actors, agent
<1>17. ASSUME NEW a \in Actors, StartRead(a)
      PROVE  ReclaimInv'
  BY <1>17, StepNames, ConstantsAssumption DEF StartRead, ReclaimInv, ControlOK, Busy,
       Goto, Leave, ReturnAtOnce, Acquire, Actors, locals, agent
<1>18. ASSUME NEW a \in Actors, StartAgent(a)
      PROVE  ReclaimInv'
  BY <1>18, StepNames, ConstantsAssumption DEF StartAgent, ReclaimInv, ControlOK, Busy,
       Goto, Leave, Return, Actors
<1>19. ASSUME NEW a \in Actors, StartRecord(a)
      PROVE  ReclaimInv'
  BY <1>19, StepNames, ConstantsAssumption DEF StartRecord, ReclaimInv, ControlOK, Busy,
       Goto, Actors, locals, agent
<1>20. ASSUME NEW a \in Actors, StartTimer(a)
      PROVE  ReclaimInv'
  BY <1>20, StepNames, ConstantsAssumption DEF StartTimer, ReclaimInv, ControlOK, Busy,
       Actors, agent
<1>21. ASSUME NEW a \in Actors, FinalizeRead(a)
      PROVE  ReclaimInv'
  BY <1>21, StepNames, ConstantsAssumption DEF FinalizeRead, ReclaimInv, ControlOK,
       Busy, Goto, Leave, ReturnAtOnce, Acquire, Actors, agent
<1>22. ASSUME NEW a \in Actors, FinalizeAgent(a)
      PROVE  ReclaimInv'
  BY <1>22, StepNames, ConstantsAssumption DEF FinalizeAgent, ReclaimInv, ControlOK,
       Busy, Goto, Leave, Return, Actors, locals
<1>23. ASSUME NEW a \in Actors, FinalizeWrite(a)
      PROVE  ReclaimInv'
  BY <1>23, StepNames, ConstantsAssumption DEF FinalizeWrite, ReclaimInv, ControlOK,
       WorldOK, Locked, Busy, Goto, Leave, Return, Actors, locals, agent
<1>24. ASSUME NEW a \in Actors, FinalizeRecord(a)
      PROVE  ReclaimInv'
  BY <1>24, StepNames, ConstantsAssumption DEF FinalizeRecord, ReclaimInv, ControlOK,
       Busy, Goto, Leave, Return, Actors, agent
<1>25. ASSUME NEW a \in Actors, DeleteRead(a)
      PROVE  ReclaimInv'
  BY <1>25, StepNames, ConstantsAssumption DEF DeleteRead, ReclaimInv, ControlOK, Busy,
       Goto, Leave, ReturnAtOnce, Acquire, Actors, Recorded, agent
<1>26. ASSUME NEW a \in Actors, DeleteAgent(a)
      PROVE  ReclaimInv'
  BY <1>26, StepNames, ConstantsAssumption DEF DeleteAgent, ReclaimInv, ControlOK, Busy,
       Goto, Leave, Return, Actors, locals
<1>27. ASSUME NEW a \in Actors, DeleteUnlink(a)
      PROVE  ReclaimInv'
  BY <1>27, StepNames, ConstantsAssumption, SMTT(30) DEF DeleteUnlink, ReclaimInv,
       ControlOK, WorldOK, Locked, Busy, Goto, Leave, Return, Actors, locals, agent
<1>28. ASSUME NEW a \in Actors, DeleteRecord(a)
      PROVE  ReclaimInv'
  BY <1>28, StepNames, ConstantsAssumption DEF DeleteRecord, ReclaimInv, ControlOK,
       Busy, Goto, Leave, Return, Actors, agent
<1>29. ASSUME NEW c \in Captures, TimerFires(c)
      PROVE  ReclaimInv'
  BY <1>29, StepNames, ConstantsAssumption DEF TimerFires, ReclaimInv, ControlOK, Goto,
       Actors, locals, agent
<1>30. ASSUME Restart
      PROVE  ReclaimInv'
  BY <1>30, StepNames, ConstantsAssumption DEF Restart, ReclaimInv, ControlOK, Actors,
       agent
<1>. QED  BY <1>1, <1>2, <1>3, <1>4, <1>5, <1>6, <1>7, <1>8, <1>9, <1>10, <1>11,
          <1>12, <1>13, <1>14, <1>15, <1>16, <1>17, <1>18, <1>19, <1>20, <1>21, <1>22,
          <1>23, <1>24, <1>25, <1>26, <1>27, <1>28, <1>29, <1>30 DEF Next, DeployStep,
          UndeployStep, CaptureStep, ListStep, vars, table, request, agent, locals,
          listing, bounds, DeployRequest, DeployCheck, DeployInsert, DeployRecord,
          CancelDeploy, Expire, DeleteRule, ImportRulePackage

\* An undeployment deletes the row only once the file it had recorded is gone, and
\* the workload too if it was recorded under the id the Agent gave it.
THEOREM UndeployReclaimsAll == Spec => []UndeployReclaims
<1>1. Init => ReclaimInv
  BY DEF Init, ReclaimInv
<1>2. TypeOK /\ Busy /\ DeployInv /\ Locked /\ ReclaimInv /\ [Next]_vars => ReclaimInv'
  BY ReclaimStep
<1>3. ReclaimInv => UndeployReclaims
  BY DEF ReclaimInv, UndeployReclaims, Actors
<1>. QED  BY <1>1, <1>2, <1>3, LockedCorrect, PTL DEF Spec

-------------------------------------------------------------------------------
(* Automatic ends of captures. *)

\* Where finalize_pcap_capture is after it has found a capture to end.
Ending == {"agent_finish", "write_file", "record_ready", "record_idle"}

\* A handler or a timer expects a capture only while it is to end it; a timer
\* that sleeps is its capture's; the capture that is being ended is the expected
\* one, and its five minutes are over.
ExpectInv == \A a \in Actors :
    /\ pc[a] = "sleep" => expect[a] = a
    /\ expect[a] # Nil => pc[a] \in {"sleep", "finalize"} \cup Ending
    /\ expect[a] # Nil /\ pc[a] \in {"finalize"} \cup Ending => expect[a] \in expired
    /\ expect[a] # Nil /\ pc[a] \in Ending => held[a] = expect[a]

\* The captures a list has still to end are overdue.
DueInv == \A t \in Tasks : \A d \in due[t] : d[2] \in expired

\* Every step keeps the expectations of timers and lists.
LEMMA ExpectStep ==
    ASSUME TypeOK, ExpectInv, DueInv, [Next]_vars
    PROVE  ExpectInv'
<1>. USE DEF TypeOK
<1>1. CASE UNCHANGED <<pc, expect, held, expired>>
  BY <1>1 DEF ExpectInv
<1>2. ASSUME NEW t \in Tasks,
             NEW op \in {"undeploy", "start_pcap", "delete_pcap"}, Request(t, op)
      PROVE  ExpectInv'
  BY <1>2, StepNames, ConstantsAssumption DEF Request, ExpectInv, Ending, DueInv,
       ControlOK, Goto, Actors
<1>3. ASSUME NEW t \in Tasks, StopRequest(t)
      PROVE  ExpectInv'
  BY <1>3, StepNames, ConstantsAssumption DEF StopRequest, ExpectInv, Ending, DueInv,
       ControlOK, Goto, Actors
<1>4. ASSUME NEW t \in Tasks, ListRequest(t)
      PROVE  ExpectInv'
  BY <1>4, StepNames, ConstantsAssumption DEF ListRequest, ExpectInv, Ending, DueInv,
       ControlOK, Goto, Actors, locals
<1>5. ASSUME NEW t \in Tasks, ListDue(t)
      PROVE  ExpectInv'
  BY <1>5, StepNames, ConstantsAssumption DEF ListDue, ExpectInv, Ending, DueInv,
       ControlOK, Goto, Actors
<1>6. ASSUME NEW t \in Tasks, ListRows(t)
      PROVE  ExpectInv'
  BY <1>6, StepNames, ConstantsAssumption DEF ListRows, ExpectInv, Ending, DueInv,
       ControlOK, Goto, Actors, locals
<1>7. ASSUME NEW t \in Tasks, ListAgent(t)
      PROVE  ExpectInv'
  BY <1>7, StepNames, ConstantsAssumption DEF ListAgent, ExpectInv, Ending, DueInv,
       ControlOK, Goto, Actors, locals
<1>8. ASSUME NEW t \in Tasks, ListMark(t)
      PROVE  ExpectInv'
  BY <1>8, StepNames, ConstantsAssumption, ZenonT(60) DEF ListMark, ExpectInv, Ending,
       DueInv, ControlOK, Goto, Actors, locals
<1>9. ASSUME NEW t \in Tasks, Cancel(t)
      PROVE  ExpectInv'
  BY <1>9, StepNames, ConstantsAssumption DEF Cancel, ExpectInv, Ending, DueInv,
       ControlOK, Actors
<1>10. ASSUME NEW a \in Actors, UndeployRead(a)
      PROVE  ExpectInv'
  BY <1>10, StepNames, ConstantsAssumption DEF UndeployRead, ExpectInv, Ending,
       ControlOK, Goto, Leave, ReturnAtOnce, Actors
<1>11. ASSUME NEW a \in Actors, UndeployStop(a)
      PROVE  ExpectInv'
  BY <1>11, StepNames, ConstantsAssumption DEF UndeployStop, ExpectInv, Ending,
       ControlOK, Goto, Actors, locals
<1>12. ASSUME NEW a \in Actors, UndeployUnlink(a)
      PROVE  ExpectInv'
  BY <1>12, StepNames, ConstantsAssumption DEF UndeployUnlink, ExpectInv, Ending,
       ControlOK, Goto, Actors, locals
<1>13. ASSUME NEW a \in Actors, UndeployDelete(a)
      PROVE  ExpectInv'
  BY <1>13, StepNames, ConstantsAssumption DEF UndeployDelete, ExpectInv, Ending,
       ControlOK, Goto, Leave, Return, Actors
<1>14. ASSUME NEW a \in Actors, UndeployFail(a)
      PROVE  ExpectInv'
  BY <1>14, StepNames, ConstantsAssumption DEF UndeployFail, ExpectInv, Ending,
       ControlOK, Goto, Leave, Return, Actors
<1>15. ASSUME NEW a \in Actors, StartRead(a)
      PROVE  ExpectInv'
  BY <1>15, StepNames, ConstantsAssumption DEF StartRead, ExpectInv, Ending, ControlOK,
       Goto, Leave, ReturnAtOnce, Actors, locals
<1>16. ASSUME NEW a \in Actors, StartAgent(a)
      PROVE  ExpectInv'
  BY <1>16, StepNames, ConstantsAssumption DEF StartAgent, ExpectInv, Ending, ControlOK,
       Goto, Leave, Return, Actors
<1>17. ASSUME NEW a \in Actors, StartRecord(a)
      PROVE  ExpectInv'
  BY <1>17, StepNames, ConstantsAssumption DEF StartRecord, ExpectInv, Ending,
       ControlOK, Goto, Actors, locals
<1>18. ASSUME NEW a \in Actors, StartTimer(a)
      PROVE  ExpectInv'
  BY <1>18, StepNames, ConstantsAssumption DEF StartTimer, ExpectInv, Ending, ControlOK,
       Actors
<1>19. ASSUME NEW a \in Actors, FinalizeRead(a)
      PROVE  ExpectInv'
  BY <1>19, StepNames, ConstantsAssumption DEF FinalizeRead, ExpectInv, Ending,
       ControlOK, NothingToFinalize, Goto, Leave, ReturnAtOnce, Actors
<1>20. ASSUME NEW a \in Actors, FinalizeAgent(a)
      PROVE  ExpectInv'
  BY <1>20, StepNames, ConstantsAssumption DEF FinalizeAgent, ExpectInv, Ending,
       ControlOK, Goto, Leave, Return, Actors, locals
<1>21. ASSUME NEW a \in Actors, FinalizeWrite(a)
      PROVE  ExpectInv'
  BY <1>21, StepNames, ConstantsAssumption DEF FinalizeWrite, ExpectInv, Ending,
       ControlOK, Goto, Leave, Return, Actors, locals
<1>22. ASSUME NEW a \in Actors, FinalizeRecord(a)
      PROVE  ExpectInv'
  BY <1>22, StepNames, ConstantsAssumption DEF FinalizeRecord, ExpectInv, Ending,
       ControlOK, Goto, Leave, Return, Actors
<1>23. ASSUME NEW a \in Actors, DeleteRead(a)
      PROVE  ExpectInv'
  BY <1>23, StepNames, ConstantsAssumption DEF DeleteRead, ExpectInv, Ending, ControlOK,
       Goto, Leave, ReturnAtOnce, Actors
<1>24. ASSUME NEW a \in Actors, DeleteAgent(a)
      PROVE  ExpectInv'
  BY <1>24, StepNames, ConstantsAssumption DEF DeleteAgent, ExpectInv, Ending,
       ControlOK, Goto, Leave, Return, Actors, locals
<1>25. ASSUME NEW a \in Actors, DeleteUnlink(a)
      PROVE  ExpectInv'
  BY <1>25, StepNames, ConstantsAssumption DEF DeleteUnlink, ExpectInv, Ending,
       ControlOK, Goto, Leave, Return, Actors, locals
<1>26. ASSUME NEW a \in Actors, DeleteRecord(a)
      PROVE  ExpectInv'
  BY <1>26, StepNames, ConstantsAssumption DEF DeleteRecord, ExpectInv, Ending,
       ControlOK, Goto, Leave, Return, Actors
<1>27. ASSUME NEW c \in Captures, TimerFires(c)
      PROVE  ExpectInv'
  BY <1>27, StepNames, ConstantsAssumption DEF TimerFires, ExpectInv, Ending, DueInv,
       ControlOK, Goto, Actors, locals
<1>28. ASSUME NEW c \in Captures, Expire(c)
      PROVE  ExpectInv'
  BY <1>28 DEF Expire, ExpectInv, locals
<1>29. ASSUME Restart
      PROVE  ExpectInv'
  BY <1>29, StepNames, ConstantsAssumption DEF Restart, ExpectInv, Ending, DueInv,
       ControlOK, Actors
<1>. QED  BY <1>1, <1>2, <1>3, <1>4, <1>5, <1>6, <1>7, <1>8, <1>9, <1>10, <1>11,
          <1>12, <1>13, <1>14, <1>15, <1>16, <1>17, <1>18, <1>19, <1>20, <1>21, <1>22,
          <1>23, <1>24, <1>25, <1>26, <1>27, <1>28, <1>29 DEF Next, DeployStep,
          UndeployStep, CaptureStep, ListStep, vars, table, request, agent, locals,
          listing, bounds, DeployRequest, DeployCheck, DeployInsert, DeployStart,
          DeployRecord, WorkloadExits, CancelDeploy, DeleteRule, ImportRulePackage

\* Every step keeps the captures of the lists overdue.
LEMMA DueStep ==
    ASSUME TypeOK, DueInv, [Next]_vars
    PROVE  DueInv'
<1>. USE DEF TypeOK
<1>1. CASE UNCHANGED <<due, expired>>
  BY <1>1 DEF DueInv
<1>2. ASSUME NEW t \in Tasks, ListRequest(t)
      PROVE  DueInv'
  BY <1>2 DEF ListRequest, DueInv, ControlOK, Overdue
<1>3. ASSUME NEW t \in Tasks, ListDue(t)
      PROVE  DueInv'
  BY <1>3 DEF ListDue, DueInv, ControlOK
<1>4. ASSUME NEW t \in Tasks, Cancel(t)
      PROVE  DueInv'
  BY <1>4 DEF Cancel, DueInv, ControlOK
<1>5. ASSUME NEW c \in Captures, Expire(c)
      PROVE  DueInv'
  BY <1>5 DEF Expire, DueInv, ControlOK, listing
<1>6. ASSUME Restart
      PROVE  DueInv'
  BY <1>6 DEF Restart, DueInv, ControlOK
<1>. QED  BY <1>1, <1>2, <1>3, <1>4, <1>5, <1>6, ZenonT(60) DEF Next, DeployStep,
          UndeployStep, CaptureStep, ListStep, vars, table, request, agent, locals,
          listing, bounds, DeployRequest, DeployCheck, DeployInsert, DeployStart,
          DeployRecord, WorkloadExits, CancelDeploy, Request, StopRequest, ListRows,
          ListAgent, ListMark, UndeployRead, UndeployStop, UndeployUnlink,
          UndeployDelete, UndeployFail, StartRead, StartAgent, StartRecord, StartTimer,
          FinalizeRead, FinalizeAgent, FinalizeWrite, FinalizeRecord, DeleteRead,
          DeleteAgent, DeleteUnlink, DeleteRecord, TimerFires, DeleteRule,
          ImportRulePackage, Goto

\* No capture is ended automatically before its five minutes.
THEOREM AutoStopOverdue == Spec => []AutoStopOnlyOverdue
<1>1. Init => ExpectInv /\ DueInv
  BY DEF Init, ExpectInv, DueInv
<1>2. TypeOK /\ ExpectInv /\ DueInv /\ [Next]_vars => ExpectInv' /\ DueInv'
  BY ExpectStep, DueStep
<1>3. ExpectInv => AutoStopOnlyOverdue
  BY DEF ExpectInv, Ending, AutoStopOnlyOverdue
<1>. QED  BY <1>1, <1>2, <1>3, TypeCorrect, PTL DEF Spec

-------------------------------------------------------------------------------
(* Capture files. *)

\* A timer does nothing but end its capture.
TimersInv == \A c \in Captures : pc[c] \in {"idle", "sleep", "finalize"} \cup Ending

\* A capture is written with the bytes of the Agent's answer, and its file is there
\* when the row is made ready.
WriteInv == \A a \in Actors :
    /\ pc[a] = "write_file" => held[a] # Nil
    /\ pc[a] = "record_ready" => disk[inst[a]] # Nil

\* A row names a file that is gone only while the handler that removed it still
\* holds the lock and is about to clear or delete the row.
FileInv == restarts = 0 /\ cancels = 0 => \A i \in Instances :
    path[i] /\ disk[i] = Nil =>
        /\ lock[i] \in Actors /\ inst[lock[i]] = i
        /\ pc[lock[i]] \in {"delete_row", "record_clear"}

\* Only a row that is there names a file.
PathInv == \A i \in Instances : path[i] => Present(i)

ReadyInv == PathInv /\ TimersInv /\ WriteInv /\ FileInv

\* Every step keeps the timers to their task.
LEMMA TimersStep ==
    ASSUME TypeOK, TimersInv, [Next]_vars
    PROVE  TimersInv'
<1>. USE DEF TypeOK
<1>1. CASE UNCHANGED <<pc>>
  BY <1>1 DEF TimersInv
<1>2. ASSUME NEW t \in Tasks,
             NEW op \in {"undeploy", "start_pcap", "delete_pcap"}, Request(t, op)
      PROVE  TimersInv'
  BY <1>2, StepNames, ConstantsAssumption DEF Request, TimersInv, Ending, ControlOK,
       Goto, Actors
<1>3. ASSUME NEW t \in Tasks, StopRequest(t)
      PROVE  TimersInv'
  BY <1>3, StepNames, ConstantsAssumption DEF StopRequest, TimersInv, Ending, ControlOK,
       Goto, Actors
<1>4. ASSUME NEW t \in Tasks, ListRequest(t)
      PROVE  TimersInv'
  BY <1>4, StepNames, ConstantsAssumption DEF ListRequest, TimersInv, Ending, ControlOK,
       Goto, Actors
<1>5. ASSUME NEW t \in Tasks, ListDue(t)
      PROVE  TimersInv'
  BY <1>5, StepNames, ConstantsAssumption DEF ListDue, TimersInv, Ending, ControlOK,
       Goto, Actors
<1>6. ASSUME NEW t \in Tasks, ListRows(t)
      PROVE  TimersInv'
  BY <1>6, StepNames, ConstantsAssumption DEF ListRows, TimersInv, Ending, ControlOK,
       Goto, Actors
<1>7. ASSUME NEW t \in Tasks, ListAgent(t)
      PROVE  TimersInv'
  BY <1>7, StepNames, ConstantsAssumption DEF ListAgent, TimersInv, Ending, ControlOK,
       Goto, Actors
<1>8. ASSUME NEW t \in Tasks, ListMark(t)
      PROVE  TimersInv'
  BY <1>8, StepNames, ConstantsAssumption DEF ListMark, TimersInv, Ending, ControlOK,
       Goto, Actors
<1>9. ASSUME NEW t \in Tasks, Cancel(t)
      PROVE  TimersInv'
  BY <1>9, StepNames, ConstantsAssumption DEF Cancel, TimersInv, Ending, ControlOK,
       Actors
<1>10. ASSUME NEW a \in Actors, UndeployRead(a)
      PROVE  TimersInv'
  BY <1>10, StepNames, ConstantsAssumption DEF UndeployRead, TimersInv, Ending,
       ControlOK, Goto, Leave, ReturnAtOnce, Actors
<1>11. ASSUME NEW a \in Actors, UndeployStop(a)
      PROVE  TimersInv'
  BY <1>11, StepNames, ConstantsAssumption DEF UndeployStop, TimersInv, Ending,
       ControlOK, Goto, Actors
<1>12. ASSUME NEW a \in Actors, UndeployUnlink(a)
      PROVE  TimersInv'
  BY <1>12, StepNames, ConstantsAssumption DEF UndeployUnlink, TimersInv, Ending,
       ControlOK, Goto, Actors
<1>13. ASSUME NEW a \in Actors, UndeployDelete(a)
      PROVE  TimersInv'
  BY <1>13, StepNames, ConstantsAssumption DEF UndeployDelete, TimersInv, Ending,
       ControlOK, Goto, Leave, Return, Actors
<1>14. ASSUME NEW a \in Actors, UndeployFail(a)
      PROVE  TimersInv'
  BY <1>14, StepNames, ConstantsAssumption DEF UndeployFail, TimersInv, Ending,
       ControlOK, Goto, Leave, Return, Actors
<1>15. ASSUME NEW a \in Actors, StartRead(a)
      PROVE  TimersInv'
  BY <1>15, StepNames, ConstantsAssumption DEF StartRead, TimersInv, Ending, ControlOK,
       Goto, Leave, ReturnAtOnce, Actors
<1>16. ASSUME NEW a \in Actors, StartAgent(a)
      PROVE  TimersInv'
  BY <1>16, StepNames, ConstantsAssumption DEF StartAgent, TimersInv, Ending, ControlOK,
       Goto, Leave, Return, Actors
<1>17. ASSUME NEW a \in Actors, StartRecord(a)
      PROVE  TimersInv'
  BY <1>17, StepNames, ConstantsAssumption DEF StartRecord, TimersInv, Ending,
       ControlOK, Goto, Actors
<1>18. ASSUME NEW a \in Actors, StartTimer(a)
      PROVE  TimersInv'
  BY <1>18, StepNames, ConstantsAssumption DEF StartTimer, TimersInv, ControlOK, Actors
<1>19. ASSUME NEW a \in Actors, FinalizeRead(a)
      PROVE  TimersInv'
  BY <1>19, StepNames, ConstantsAssumption DEF FinalizeRead, TimersInv, Ending,
       ControlOK, Goto, Leave, ReturnAtOnce, Actors
<1>20. ASSUME NEW a \in Actors, FinalizeAgent(a)
      PROVE  TimersInv'
  BY <1>20, StepNames, ConstantsAssumption DEF FinalizeAgent, TimersInv, Ending,
       ControlOK, Goto, Leave, Return, Actors
<1>21. ASSUME NEW a \in Actors, FinalizeWrite(a)
      PROVE  TimersInv'
  BY <1>21, StepNames, ConstantsAssumption DEF FinalizeWrite, TimersInv, Ending,
       ControlOK, Goto, Leave, Return, Actors
<1>22. ASSUME NEW a \in Actors, FinalizeRecord(a)
      PROVE  TimersInv'
  BY <1>22, StepNames, ConstantsAssumption DEF FinalizeRecord, TimersInv, Ending,
       ControlOK, Goto, Leave, Return, Actors
<1>23. ASSUME NEW a \in Actors, DeleteRead(a)
      PROVE  TimersInv'
  BY <1>23, StepNames, ConstantsAssumption DEF DeleteRead, TimersInv, Ending, ControlOK,
       Goto, Leave, ReturnAtOnce, Actors
<1>24. ASSUME NEW a \in Actors, DeleteAgent(a)
      PROVE  TimersInv'
  BY <1>24, StepNames, ConstantsAssumption DEF DeleteAgent, TimersInv, Ending,
       ControlOK, Goto, Leave, Return, Actors
<1>25. ASSUME NEW a \in Actors, DeleteUnlink(a)
      PROVE  TimersInv'
  BY <1>25, StepNames, ConstantsAssumption DEF DeleteUnlink, TimersInv, Ending,
       ControlOK, Goto, Leave, Return, Actors
<1>26. ASSUME NEW a \in Actors, DeleteRecord(a)
      PROVE  TimersInv'
  BY <1>26, StepNames, ConstantsAssumption DEF DeleteRecord, TimersInv, Ending,
       ControlOK, Goto, Leave, Return, Actors
<1>27. ASSUME NEW c \in Captures, TimerFires(c)
      PROVE  TimersInv'
  BY <1>27, StepNames, ConstantsAssumption DEF TimerFires, TimersInv, Ending, ControlOK,
       Goto, Actors
<1>28. ASSUME Restart
      PROVE  TimersInv'
  BY <1>28, StepNames, ConstantsAssumption DEF Restart, TimersInv, Ending, ControlOK,
       Actors
<1>. QED  BY <1>1, <1>2, <1>3, <1>4, <1>5, <1>6, <1>7, <1>8, <1>9, <1>10, <1>11,
          <1>12, <1>13, <1>14, <1>15, <1>16, <1>17, <1>18, <1>19, <1>20, <1>21, <1>22,
          <1>23, <1>24, <1>25, <1>26, <1>27, <1>28 DEF Next, DeployStep, UndeployStep,
          CaptureStep, ListStep, vars, table, request, agent, locals, listing, bounds,
          DeployRequest, DeployCheck, DeployInsert, DeployStart, DeployRecord,
          WorkloadExits, CancelDeploy, Expire, DeleteRule, ImportRulePackage

\* Every step keeps the writing of captures in order.
LEMMA WriteStep ==
    ASSUME TypeOK, Busy, Locked, WriteInv, [Next]_vars
    PROVE  WriteInv'
<1>. USE DEF TypeOK
<1>1. CASE UNCHANGED <<pc, inst, held, disk>>
  BY <1>1 DEF WriteInv
<1>2. ASSUME NEW t \in Tasks,
             NEW op \in {"undeploy", "start_pcap", "delete_pcap"}, Request(t, op)
      PROVE  WriteInv'
  BY <1>2, StepNames, ConstantsAssumption DEF Request, WriteInv, ControlOK, Goto, Actors
<1>3. ASSUME NEW t \in Tasks, StopRequest(t)
      PROVE  WriteInv'
  BY <1>3, StepNames, ConstantsAssumption DEF StopRequest, WriteInv, ControlOK, Goto,
       Actors
<1>4. ASSUME NEW t \in Tasks, ListRequest(t)
      PROVE  WriteInv'
  BY <1>4, StepNames, ConstantsAssumption DEF ListRequest, WriteInv, ControlOK, Goto,
       Actors, locals
<1>5. ASSUME NEW t \in Tasks, ListDue(t)
      PROVE  WriteInv'
  BY <1>5, StepNames, ConstantsAssumption DEF ListDue, WriteInv, ControlOK, Goto, Actors
<1>6. ASSUME NEW t \in Tasks, ListRows(t)
      PROVE  WriteInv'
  BY <1>6, StepNames, ConstantsAssumption DEF ListRows, WriteInv, ControlOK, Goto,
       Actors, locals
<1>7. ASSUME NEW t \in Tasks, ListAgent(t)
      PROVE  WriteInv'
  BY <1>7, StepNames, ConstantsAssumption DEF ListAgent, WriteInv, ControlOK, Goto,
       Actors, locals
<1>8. ASSUME NEW t \in Tasks, ListMark(t)
      PROVE  WriteInv'
  BY <1>8, StepNames, ConstantsAssumption DEF ListMark, WriteInv, ControlOK, Goto,
       Actors, locals
<1>9. ASSUME NEW t \in Tasks, Cancel(t)
      PROVE  WriteInv'
  BY <1>9, StepNames, ConstantsAssumption DEF Cancel, WriteInv, ControlOK, Actors
<1>10. ASSUME NEW a \in Actors, UndeployRead(a)
      PROVE  WriteInv'
  BY <1>10, StepNames, ConstantsAssumption DEF UndeployRead, WriteInv, Locked, WorldOK,
       ControlOK, Busy, Goto, Leave, ReturnAtOnce, Actors
<1>11. ASSUME NEW a \in Actors, UndeployStop(a)
      PROVE  WriteInv'
  BY <1>11, StepNames, ConstantsAssumption DEF UndeployStop, WriteInv, Locked, WorldOK,
       ControlOK, Busy, Goto, Actors, locals
<1>12. ASSUME NEW a \in Actors, UndeployUnlink(a)
      PROVE  WriteInv'
  BY <1>12, StepNames, ConstantsAssumption DEF UndeployUnlink, WriteInv, Locked,
       WorldOK, ControlOK, Busy, Goto, Actors, locals
<1>13. ASSUME NEW a \in Actors, UndeployDelete(a)
      PROVE  WriteInv'
  BY <1>13, StepNames, ConstantsAssumption DEF UndeployDelete, WriteInv, Locked,
       WorldOK, ControlOK, Busy, Goto, Leave, Return, Actors
<1>14. ASSUME NEW a \in Actors, UndeployFail(a)
      PROVE  WriteInv'
  BY <1>14, StepNames, ConstantsAssumption DEF UndeployFail, WriteInv, Locked, WorldOK,
       ControlOK, Busy, Goto, Leave, Return, Actors
<1>15. ASSUME NEW a \in Actors, StartRead(a)
      PROVE  WriteInv'
  BY <1>15, StepNames, ConstantsAssumption DEF StartRead, WriteInv, Locked, WorldOK,
       ControlOK, Busy, Goto, Leave, ReturnAtOnce, Actors, locals
<1>16. ASSUME NEW a \in Actors, StartAgent(a)
      PROVE  WriteInv'
  BY <1>16, StepNames, ConstantsAssumption DEF StartAgent, WriteInv, Locked, WorldOK,
       ControlOK, Busy, Goto, Leave, Return, Actors
<1>17. ASSUME NEW a \in Actors, StartRecord(a)
      PROVE  WriteInv'
  BY <1>17, StepNames, ConstantsAssumption DEF StartRecord, WriteInv, Locked, WorldOK,
       ControlOK, Busy, Goto, Actors, locals
<1>18. ASSUME NEW a \in Actors, StartTimer(a)
      PROVE  WriteInv'
  BY <1>18, StepNames, ConstantsAssumption DEF StartTimer, WriteInv, ControlOK, Actors
<1>19. ASSUME NEW a \in Actors, FinalizeRead(a)
      PROVE  WriteInv'
  BY <1>19, StepNames, ConstantsAssumption DEF FinalizeRead, WriteInv, Locked, WorldOK,
       ControlOK, Busy, Goto, Leave, ReturnAtOnce, Actors
<1>20. ASSUME NEW a \in Actors, FinalizeAgent(a)
      PROVE  WriteInv'
  BY <1>20, StepNames, ConstantsAssumption DEF FinalizeAgent, WriteInv, Locked, WorldOK,
       ControlOK, Busy, Goto, Leave, Return, Actors, locals, AgentFinishes
<1>21. ASSUME NEW a \in Actors, FinalizeWrite(a)
      PROVE  WriteInv'
  BY <1>21, StepNames, ConstantsAssumption DEF FinalizeWrite, WriteInv, Locked, WorldOK,
       ControlOK, Busy, Goto, Leave, Return, Actors, locals
<1>22. ASSUME NEW a \in Actors, FinalizeRecord(a)
      PROVE  WriteInv'
  BY <1>22, StepNames, ConstantsAssumption DEF FinalizeRecord, WriteInv, Locked,
       WorldOK, ControlOK, Busy, Goto, Leave, Return, Actors
<1>23. ASSUME NEW a \in Actors, DeleteRead(a)
      PROVE  WriteInv'
  BY <1>23, StepNames, ConstantsAssumption DEF DeleteRead, WriteInv, Locked, WorldOK,
       ControlOK, Busy, Goto, Leave, ReturnAtOnce, Actors
<1>24. ASSUME NEW a \in Actors, DeleteAgent(a)
      PROVE  WriteInv'
  BY <1>24, StepNames, ConstantsAssumption DEF DeleteAgent, WriteInv, Locked, WorldOK,
       ControlOK, Busy, Goto, Leave, Return, Actors, locals
<1>25. ASSUME NEW a \in Actors, DeleteUnlink(a)
      PROVE  WriteInv'
  BY <1>25, StepNames, ConstantsAssumption DEF DeleteUnlink, WriteInv, Locked, WorldOK,
       ControlOK, Busy, Goto, Leave, Return, Actors, locals
<1>26. ASSUME NEW a \in Actors, DeleteRecord(a)
      PROVE  WriteInv'
  BY <1>26, StepNames, ConstantsAssumption DEF DeleteRecord, WriteInv, Locked, WorldOK,
       ControlOK, Busy, Goto, Leave, Return, Actors
<1>27. ASSUME NEW c \in Captures, TimerFires(c)
      PROVE  WriteInv'
  BY <1>27, StepNames, ConstantsAssumption DEF TimerFires, WriteInv, ControlOK, Goto,
       Actors, locals
<1>28. ASSUME Restart
      PROVE  WriteInv'
  BY <1>28, StepNames, ConstantsAssumption DEF Restart, WriteInv, ControlOK, Actors
<1>. QED  BY <1>1, <1>2, <1>3, <1>4, <1>5, <1>6, <1>7, <1>8, <1>9, <1>10, <1>11,
          <1>12, <1>13, <1>14, <1>15, <1>16, <1>17, <1>18, <1>19, <1>20, <1>21, <1>22,
          <1>23, <1>24, <1>25, <1>26, <1>27, <1>28 DEF Next, DeployStep, UndeployStep,
          CaptureStep, ListStep, vars, table, request, agent, locals, listing, bounds,
          DeployRequest, DeployCheck, DeployInsert, DeployStart, DeployRecord,
          WorkloadExits, CancelDeploy, Expire, DeleteRule, ImportRulePackage

\* Every step keeps file names in rows that are there.
LEMMA PathStep ==
    ASSUME TypeOK, Busy, PathInv, [Next]_vars
    PROVE  PathInv'
<1>. USE DEF TypeOK
<1>1. CASE UNCHANGED <<status, path>>
  BY <1>1 DEF PathInv, Present
<1>2. ASSUME NEW i \in Instances, DeployInsert(i)
      PROVE  PathInv'
  <2>1. ASSUME fresh[i], rule[i] \in rules, status' = [status EXCEPT ![i] = "deploying"],
              dpc' = [dpc EXCEPT ![i] = "start"], Commit(TRUE)
       PROVE  PathInv'
    BY <2>1, <1>2 DEF DeployInsert, PathInv, Present, TableOK
  <2>2. ASSUME UNCHANGED status, dpc' = [dpc EXCEPT ![i] = "done"],
              fresh' = [fresh EXCEPT ![i] = FALSE]
       PROVE  PathInv'
    BY <2>2, <1>2 DEF DeployInsert, PathInv, Present, TableOK
  <2>. QED  BY <2>1, <2>2, <1>2 DEF DeployInsert
<1>3. ASSUME NEW i \in Instances, DeployRecord(i)
      PROVE  PathInv'
  <2>1. ASSUME DropRows({i})
       PROVE  PathInv'
    BY <2>1, <1>3 DEF PathInv, Present, TableOK, DropRows
  <2>2. ASSUME NEW s \in {"running", "error"}, NEW h \in BOOLEAN, SetStatus(i, s, h)
       PROVE  PathInv'
    BY <2>2, <1>3 DEF PathInv, Present, TableOK, SetStatus
  <2>. QED  BY <2>1, <2>2, <1>3 DEF DeployRecord
<1>4. ASSUME NEW t \in Tasks, ListMark(t)
      PROVE  PathInv'
  BY <1>4, StepNames DEF ListMark, PathInv, Present, TableOK, ControlOK, Busy,
       SetStatus, DropRows, table
<1>5. ASSUME NEW a \in Actors, UndeployDelete(a)
      PROVE  PathInv'
  BY <1>5, StepNames DEF UndeployDelete, PathInv, Present, TableOK, ControlOK, Busy,
       SetStatus, DropRows
<1>6. ASSUME NEW a \in Actors, UndeployFail(a)
      PROVE  PathInv'
  BY <1>6, StepNames DEF UndeployFail, PathInv, Present, TableOK, ControlOK, Busy,
       SetStatus, DropRows
<1>7. ASSUME NEW a \in Actors, StartRecord(a)
      PROVE  PathInv'
  BY <1>7, StepNames DEF StartRecord, PathInv, Present, TableOK, ControlOK, Busy,
       SetStatus, SetPcap, DropRows
<1>8. ASSUME NEW a \in Actors, FinalizeRecord(a)
      PROVE  PathInv'
  BY <1>8, StepNames DEF FinalizeRecord, PathInv, Present, TableOK, ControlOK, Busy,
       SetStatus, SetPcap, DropRows
<1>9. ASSUME NEW a \in Actors, DeleteRecord(a)
      PROVE  PathInv'
  BY <1>9, StepNames DEF DeleteRecord, PathInv, Present, TableOK, ControlOK, Busy,
       SetStatus, SetPcap, DropRows
<1>10. ASSUME NEW r \in Rules, DeleteRule(r)
      PROVE  PathInv'
  BY <1>10, StepNames DEF DeleteRule, PathInv, Present, TableOK, ControlOK, Busy,
       SetStatus, DropRows
<1>. QED  BY <1>1, <1>2, <1>3, <1>4, <1>5, <1>6, <1>7, <1>8, <1>9, <1>10, ZenonT(60) DEF
          Next, DeployStep, UndeployStep, CaptureStep, ListStep, vars, table, request,
          agent, locals, listing, bounds, DeployRequest, DeployCheck, DeployStart,
          WorkloadExits, CancelDeploy, Request, StopRequest, ListRequest, ListDue,
          ListRows, ListAgent, Cancel, UndeployRead, UndeployStop, UndeployUnlink,
          StartRead, StartAgent, StartTimer, FinalizeRead, FinalizeAgent, FinalizeWrite,
          DeleteRead, DeleteAgent, DeleteUnlink, TimerFires, Expire, ImportRulePackage,
          Restart, Goto

\* What a handler in a critical step does to the files and paths of its own instance
\* leaves those of the others to the owners of their locks.
LEMMA FileFrame ==
    ASSUME FileInv, NEW a \in Actors, UNCHANGED <<restarts, cancels>>,
           \A b \in Actors \ {a} : pc'[b] = pc[b] /\ inst'[b] = inst[b],
           \A i \in Instances : lock'[i] = lock[i] \/ lock[i] = a,
           pc[a] \in {"delete_row", "record_clear"} => ~path'[inst[a]],
           \A i \in Instances : path'[i] /\ disk'[i] = Nil =>
              \/ path[i] /\ disk[i] = Nil
              \/ lock'[i] = a /\ inst'[a] = i /\ pc'[a] \in {"delete_row", "record_clear"}
    PROVE  FileInv'
<1>. SUFFICES ASSUME restarts = 0, cancels = 0, NEW i \in Instances, path'[i], disk'[i] = Nil
              PROVE  /\ lock'[i] \in Actors /\ inst'[lock'[i]] = i
                     /\ pc'[lock'[i]] \in {"delete_row", "record_clear"}
  BY DEF FileInv
<1>1. CASE lock'[i] = a /\ inst'[a] = i /\ pc'[a] \in {"delete_row", "record_clear"}
  BY <1>1
<1>2. CASE path[i] /\ disk[i] = Nil
  <2>1. /\ lock[i] \in Actors /\ inst[lock[i]] = i
        /\ pc[lock[i]] \in {"delete_row", "record_clear"}
    BY <1>2 DEF FileInv
  <2>2. lock[i] # a
    BY <2>1
  <2>. QED  BY <2>1, <2>2
<1>. QED  BY <1>1, <1>2

\* Every step keeps ready captures and their files together.
LEMMA FileStep ==
    ASSUME TypeOK, Busy, Locked, ReadyInv, [Next]_vars
    PROVE  FileInv'
<1>. USE DEF TypeOK, ReadyInv
<1>1. CASE UNCHANGED <<path, disk, lock, inst, pc, restarts, cancels>>
  BY <1>1 DEF FileInv
<1>2. ASSUME NEW i \in Instances, DeployRecord(i)
      PROVE  FileInv'
  <2>1. ASSUME DropRows({i})
       PROVE  FileInv'
    BY <2>1, <1>2 DEF FileInv, TableOK, SetStatus, DropRows, locals, bounds,
         DeployRecord
  <2>2. ASSUME NEW s \in {"running", "error"}, NEW h \in BOOLEAN, SetStatus(i, s, h)
       PROVE  FileInv'
    BY <2>2, <1>2 DEF FileInv, TableOK, SetStatus, DropRows, locals, bounds,
         DeployRecord
  <2>. QED  BY <2>1, <2>2, <1>2 DEF DeployRecord
<1>3. ASSUME NEW i \in Instances, CancelDeploy(i)
      PROVE  FileInv'
  BY <1>3, ConstantsAssumption DEF CancelDeploy, FileInv, WorldOK
<1>4. ASSUME NEW t \in Tasks,
             NEW op \in {"undeploy", "start_pcap", "delete_pcap"}, Request(t, op)
      PROVE  FileInv'
  BY <1>4, StepNames, ConstantsAssumption DEF Request, FileInv, ControlOK, WorldOK,
       Goto, Actors, table, bounds
<1>5. ASSUME NEW t \in Tasks, StopRequest(t)
      PROVE  FileInv'
  BY <1>5, StepNames, ConstantsAssumption DEF StopRequest, FileInv, ControlOK, WorldOK,
       Goto, Actors, table, bounds
<1>6. ASSUME NEW t \in Tasks, ListRequest(t)
      PROVE  FileInv'
  BY <1>6, StepNames, ConstantsAssumption DEF ListRequest, FileInv, ControlOK, WorldOK,
       Goto, Actors, table, locals, bounds
<1>7. ASSUME NEW t \in Tasks, ListDue(t)
      PROVE  FileInv'
  BY <1>7, StepNames, ConstantsAssumption DEF ListDue, FileInv, ControlOK, WorldOK,
       Goto, Actors, table, bounds
<1>8. ASSUME NEW t \in Tasks, ListRows(t)
      PROVE  FileInv'
  BY <1>8, StepNames, ConstantsAssumption DEF ListRows, FileInv, ControlOK, WorldOK,
       Goto, Actors, table, locals, bounds
<1>9. ASSUME NEW t \in Tasks, ListAgent(t)
      PROVE  FileInv'
  BY <1>9, StepNames, ConstantsAssumption DEF ListAgent, FileInv, ControlOK, WorldOK,
       Goto, Actors, table, locals, bounds
<1>10. ASSUME NEW t \in Tasks, ListMark(t)
      PROVE  FileInv'
  BY <1>10, StepNames, ConstantsAssumption DEF ListMark, FileInv, ControlOK, SetStatus,
       Goto, Actors, table, locals, bounds
<1>11. ASSUME NEW t \in Tasks, Cancel(t)
      PROVE  FileInv'
  BY <1>11, ConstantsAssumption DEF Cancel, FileInv, WorldOK
<1>12. ASSUME NEW a \in Actors, UndeployRead(a)
      PROVE  FileInv'
  <2>1. ASSUME ReturnAtOnce(a)
       PROVE  FileInv'
    BY <2>1, <1>12, StepNames, ConstantsAssumption DEF UndeployRead, FileInv, ControlOK,
         Goto, Leave, ReturnAtOnce, Actors, table, bounds
  <2>2. ASSUME ~ReturnAtOnce(a)
       PROVE  FileInv'
    BY <2>2, <1>12, StepNames, ConstantsAssumption DEF UndeployRead, FileInv, ControlOK,
         Busy, Goto, Acquire, Actors, table, bounds
  <2>. QED  BY <2>1, <2>2, <1>12 DEF UndeployRead
<1>13. ASSUME NEW a \in Actors, UndeployStop(a)
      PROVE  FileInv'
  <2>1. /\ \A b \in Actors \ {a} : pc'[b] = pc[b] /\ inst'[b] = inst[b]
        /\ UNCHANGED <<restarts, cancels>>
    BY <1>13 DEF UndeployStop, ControlOK, Goto, locals, bounds
  <2>2. \A i \in Instances : lock'[i] = lock[i] \/ lock[i] = a
    BY <1>13 DEF UndeployStop, Locked, ControlOK, Busy, Critical
  <2>3. /\ pc[a] \in {"delete_row", "record_clear"} => ~path'[inst[a]]
        /\ \A i \in Instances : path'[i] /\ disk'[i] = Nil =>
              \/ path[i] /\ disk[i] = Nil
              \/ lock'[i] = a /\ inst'[a] = i /\ pc'[a] \in {"delete_row", "record_clear"}
    BY <1>13 DEF UndeployStop, Locked, TableOK, WorldOK, ControlOK, Busy, Goto,
         Critical, table, locals, bounds
  <2>. QED  BY <2>1, <2>2, <2>3, FileFrame
<1>14. ASSUME NEW a \in Actors, UndeployUnlink(a)
      PROVE  FileInv'
  <2>1. /\ \A b \in Actors \ {a} : pc'[b] = pc[b] /\ inst'[b] = inst[b]
        /\ UNCHANGED <<restarts, cancels>>
    BY <1>14 DEF UndeployUnlink, ControlOK, Goto, locals, bounds
  <2>2. \A i \in Instances : lock'[i] = lock[i] \/ lock[i] = a
    BY <1>14 DEF UndeployUnlink, Locked, ControlOK, Busy, Critical
  <2>3. /\ pc[a] \in {"delete_row", "record_clear"} => ~path'[inst[a]]
        /\ \A i \in Instances : path'[i] /\ disk'[i] = Nil =>
              \/ path[i] /\ disk[i] = Nil
              \/ lock'[i] = a /\ inst'[a] = i /\ pc'[a] \in {"delete_row", "record_clear"}
    BY <1>14 DEF UndeployUnlink, Locked, TableOK, WorldOK, ControlOK, Busy, Goto,
         Critical, table, locals, bounds
  <2>. QED  BY <2>1, <2>2, <2>3, FileFrame
<1>15. ASSUME NEW a \in Actors, UndeployDelete(a)
      PROVE  FileInv'
  <2>1. /\ \A b \in Actors \ {a} : pc'[b] = pc[b] /\ inst'[b] = inst[b]
        /\ UNCHANGED <<restarts, cancels>>
    BY <1>15 DEF UndeployDelete, Return, Leave, ControlOK, Goto, bounds
  <2>2. \A i \in Instances : lock'[i] = lock[i] \/ lock[i] = a
    BY <1>15 DEF UndeployDelete, Return, Locked, ControlOK, Busy, Critical
  <2>3. /\ pc[a] \in {"delete_row", "record_clear"} => ~path'[inst[a]]
        /\ \A i \in Instances : path'[i] /\ disk'[i] = Nil =>
              \/ path[i] /\ disk[i] = Nil
              \/ lock'[i] = a /\ inst'[a] = i /\ pc'[a] \in {"delete_row", "record_clear"}
    BY <1>15 DEF UndeployDelete, DropRows, Return, Leave, Locked, TableOK, WorldOK,
         ControlOK, Busy, Goto, Critical, bounds
  <2>. QED  BY <2>1, <2>2, <2>3, FileFrame
<1>16. ASSUME NEW a \in Actors, UndeployFail(a)
      PROVE  FileInv'
  <2>1. /\ \A b \in Actors \ {a} : pc'[b] = pc[b] /\ inst'[b] = inst[b]
        /\ UNCHANGED <<restarts, cancels>>
    BY <1>16 DEF UndeployFail, Return, Leave, ControlOK, Goto, bounds
  <2>2. \A i \in Instances : lock'[i] = lock[i] \/ lock[i] = a
    BY <1>16 DEF UndeployFail, Return, Locked, ControlOK, Busy, Critical
  <2>3. /\ pc[a] \in {"delete_row", "record_clear"} => ~path'[inst[a]]
        /\ \A i \in Instances : path'[i] /\ disk'[i] = Nil =>
              \/ path[i] /\ disk[i] = Nil
              \/ lock'[i] = a /\ inst'[a] = i /\ pc'[a] \in {"delete_row", "record_clear"}
    BY <1>16 DEF UndeployFail, SetStatus, Return, Leave, Locked, TableOK, WorldOK,
         ControlOK, Busy, Goto, Critical, bounds
  <2>. QED  BY <2>1, <2>2, <2>3, FileFrame
<1>17. ASSUME NEW a \in Actors, StartRead(a)
      PROVE  FileInv'
  <2>1. ASSUME ReturnAtOnce(a)
       PROVE  FileInv'
    BY <2>1, <1>17, StepNames, ConstantsAssumption DEF StartRead, FileInv, ControlOK,
         Goto, Leave, ReturnAtOnce, Actors, table, bounds
  <2>2. ASSUME ~ReturnAtOnce(a)
       PROVE  FileInv'
    BY <2>2, <1>17, StepNames, ConstantsAssumption DEF StartRead, FileInv, ControlOK,
         Busy, Goto, Acquire, Actors, table, locals, bounds
  <2>. QED  BY <2>1, <2>2, <1>17 DEF StartRead
<1>18. ASSUME NEW a \in Actors, StartAgent(a)
      PROVE  FileInv'
  <2>1. /\ \A b \in Actors \ {a} : pc'[b] = pc[b] /\ inst'[b] = inst[b]
        /\ UNCHANGED <<restarts, cancels>>
    BY <1>18 DEF StartAgent, Return, Leave, ControlOK, Goto, bounds
  <2>2. \A i \in Instances : lock'[i] = lock[i] \/ lock[i] = a
    BY <1>18 DEF StartAgent, Return, Locked, ControlOK, Busy, Critical
  <2>3. /\ pc[a] \in {"delete_row", "record_clear"} => ~path'[inst[a]]
        /\ \A i \in Instances : path'[i] /\ disk'[i] = Nil =>
              \/ path[i] /\ disk[i] = Nil
              \/ lock'[i] = a /\ inst'[a] = i /\ pc'[a] \in {"delete_row", "record_clear"}
    BY <1>18 DEF StartAgent, Return, Leave, Locked, TableOK, WorldOK, ControlOK, Busy,
         Goto, Critical, table, bounds
  <2>. QED  BY <2>1, <2>2, <2>3, FileFrame
<1>19. ASSUME NEW a \in Actors, StartRecord(a)
      PROVE  FileInv'
  <2>1. /\ \A b \in Actors \ {a} : pc'[b] = pc[b] /\ inst'[b] = inst[b]
        /\ UNCHANGED <<restarts, cancels>>
    BY <1>19 DEF StartRecord, ControlOK, Goto, locals, bounds
  <2>2. \A i \in Instances : lock'[i] = lock[i] \/ lock[i] = a
    BY <1>19 DEF StartRecord, Locked, ControlOK, Busy, Critical
  <2>3. /\ pc[a] \in {"delete_row", "record_clear"} => ~path'[inst[a]]
        /\ \A i \in Instances : path'[i] /\ disk'[i] = Nil =>
              \/ path[i] /\ disk[i] = Nil
              \/ lock'[i] = a /\ inst'[a] = i /\ pc'[a] \in {"delete_row", "record_clear"}
    BY <1>19 DEF StartRecord, SetPcap, Locked, TableOK, WorldOK, ControlOK, Busy, Goto,
         Critical, locals, bounds
  <2>. QED  BY <2>1, <2>2, <2>3, FileFrame
<1>20. ASSUME NEW a \in Actors, StartTimer(a)
      PROVE  FileInv'
  BY <1>20, StepNames, ConstantsAssumption DEF StartTimer, FileInv, TimersInv, Ending,
       Locked, ControlOK, Busy, Actors, table, bounds
<1>21. ASSUME NEW a \in Actors, FinalizeRead(a)
      PROVE  FileInv'
  <2>1. ASSUME ReturnAtOnce(a)
       PROVE  FileInv'
    BY <2>1, <1>21, StepNames, ConstantsAssumption DEF FinalizeRead, FileInv, ControlOK,
         Goto, Leave, ReturnAtOnce, Actors, table, bounds
  <2>2. ASSUME ~ReturnAtOnce(a)
       PROVE  FileInv'
    BY <2>2, <1>21, StepNames, ConstantsAssumption DEF FinalizeRead, FileInv, ControlOK,
         Busy, Goto, Acquire, Actors, table, bounds
  <2>. QED  BY <2>1, <2>2, <1>21 DEF FinalizeRead
<1>22. ASSUME NEW a \in Actors, FinalizeAgent(a)
      PROVE  FileInv'
  <2>1. /\ \A b \in Actors \ {a} : pc'[b] = pc[b] /\ inst'[b] = inst[b]
        /\ UNCHANGED <<restarts, cancels>>
    BY <1>22 DEF FinalizeAgent, Return, Leave, ControlOK, Goto, locals, bounds
  <2>2. \A i \in Instances : lock'[i] = lock[i] \/ lock[i] = a
    BY <1>22 DEF FinalizeAgent, Return, Locked, ControlOK, Busy, Critical
  <2>3. /\ pc[a] \in {"delete_row", "record_clear"} => ~path'[inst[a]]
        /\ \A i \in Instances : path'[i] /\ disk'[i] = Nil =>
              \/ path[i] /\ disk[i] = Nil
              \/ lock'[i] = a /\ inst'[a] = i /\ pc'[a] \in {"delete_row", "record_clear"}
    BY <1>22 DEF FinalizeAgent, Return, Leave, Locked, TableOK, WorldOK, ControlOK,
         Busy, Goto, Critical, table, locals, bounds
  <2>. QED  BY <2>1, <2>2, <2>3, FileFrame
<1>23. ASSUME NEW a \in Actors, FinalizeWrite(a)
      PROVE  FileInv'
  <2>1. /\ \A b \in Actors \ {a} : pc'[b] = pc[b] /\ inst'[b] = inst[b]
        /\ UNCHANGED <<restarts, cancels>>
    BY <1>23 DEF FinalizeWrite, Return, Leave, ControlOK, Goto, locals, bounds
  <2>2. \A i \in Instances : lock'[i] = lock[i] \/ lock[i] = a
    BY <1>23 DEF FinalizeWrite, Return, Locked, ControlOK, Busy, Critical
  <2>3. /\ pc[a] \in {"delete_row", "record_clear"} => ~path'[inst[a]]
        /\ \A i \in Instances : path'[i] /\ disk'[i] = Nil =>
              \/ path[i] /\ disk[i] = Nil
              \/ lock'[i] = a /\ inst'[a] = i /\ pc'[a] \in {"delete_row", "record_clear"}
    BY <1>23 DEF FinalizeWrite, WriteInv, Return, Leave, Locked, TableOK, WorldOK,
         ControlOK, Busy, Goto, Critical, table, locals, bounds
  <2>. QED  BY <2>1, <2>2, <2>3, FileFrame
<1>24. ASSUME NEW a \in Actors, FinalizeRecord(a)
      PROVE  FileInv'
  <2>1. /\ \A b \in Actors \ {a} : pc'[b] = pc[b] /\ inst'[b] = inst[b]
        /\ UNCHANGED <<restarts, cancels>>
    BY <1>24 DEF FinalizeRecord, Return, Leave, ControlOK, Goto, bounds
  <2>2. \A i \in Instances : lock'[i] = lock[i] \/ lock[i] = a
    BY <1>24 DEF FinalizeRecord, Return, Locked, ControlOK, Busy, Critical
  <2>3. /\ pc[a] \in {"delete_row", "record_clear"} => ~path'[inst[a]]
        /\ \A i \in Instances : path'[i] /\ disk'[i] = Nil =>
              \/ path[i] /\ disk[i] = Nil
              \/ lock'[i] = a /\ inst'[a] = i /\ pc'[a] \in {"delete_row", "record_clear"}
    BY <1>24 DEF FinalizeRecord, WriteInv, SetPcap, Return, Leave, Locked, TableOK,
         WorldOK, ControlOK, Busy, Goto, Critical, bounds
  <2>. QED  BY <2>1, <2>2, <2>3, FileFrame
<1>25. ASSUME NEW a \in Actors, DeleteRead(a)
      PROVE  FileInv'
  <2>1. ASSUME ReturnAtOnce(a)
       PROVE  FileInv'
    BY <2>1, <1>25, StepNames, ConstantsAssumption DEF DeleteRead, FileInv, ControlOK,
         Goto, Leave, ReturnAtOnce, Actors, table, bounds
  <2>2. ASSUME ~ReturnAtOnce(a)
       PROVE  FileInv'
    BY <2>2, <1>25, StepNames, ConstantsAssumption DEF DeleteRead, FileInv, ControlOK,
         Busy, Goto, Acquire, Actors, table, bounds
  <2>. QED  BY <2>1, <2>2, <1>25 DEF DeleteRead
<1>26. ASSUME NEW a \in Actors, DeleteAgent(a)
      PROVE  FileInv'
  <2>1. /\ \A b \in Actors \ {a} : pc'[b] = pc[b] /\ inst'[b] = inst[b]
        /\ UNCHANGED <<restarts, cancels>>
    BY <1>26 DEF DeleteAgent, Return, Leave, ControlOK, Goto, locals, bounds
  <2>2. \A i \in Instances : lock'[i] = lock[i] \/ lock[i] = a
    BY <1>26 DEF DeleteAgent, Return, Locked, ControlOK, Busy, Critical
  <2>3. /\ pc[a] \in {"delete_row", "record_clear"} => ~path'[inst[a]]
        /\ \A i \in Instances : path'[i] /\ disk'[i] = Nil =>
              \/ path[i] /\ disk[i] = Nil
              \/ lock'[i] = a /\ inst'[a] = i /\ pc'[a] \in {"delete_row", "record_clear"}
    BY <1>26 DEF DeleteAgent, Return, Leave, Locked, TableOK, WorldOK, ControlOK, Busy,
         Goto, Critical, table, locals, bounds
  <2>. QED  BY <2>1, <2>2, <2>3, FileFrame
<1>27. ASSUME NEW a \in Actors, DeleteUnlink(a)
      PROVE  FileInv'
  <2>1. /\ \A b \in Actors \ {a} : pc'[b] = pc[b] /\ inst'[b] = inst[b]
        /\ UNCHANGED <<restarts, cancels>>
    BY <1>27 DEF DeleteUnlink, Return, Leave, ControlOK, Goto, locals, bounds
  <2>2. \A i \in Instances : lock'[i] = lock[i] \/ lock[i] = a
    BY <1>27 DEF DeleteUnlink, Return, Locked, ControlOK, Busy, Critical
  <2>3. /\ pc[a] \in {"delete_row", "record_clear"} => ~path'[inst[a]]
        /\ \A i \in Instances : path'[i] /\ disk'[i] = Nil =>
              \/ path[i] /\ disk[i] = Nil
              \/ lock'[i] = a /\ inst'[a] = i /\ pc'[a] \in {"delete_row", "record_clear"}
    BY <1>27 DEF DeleteUnlink, Return, Leave, Locked, TableOK, WorldOK, ControlOK, Busy,
         Goto, Critical, table, locals, bounds
  <2>. QED  BY <2>1, <2>2, <2>3, FileFrame
<1>28. ASSUME NEW a \in Actors, DeleteRecord(a)
      PROVE  FileInv'
  <2>1. /\ \A b \in Actors \ {a} : pc'[b] = pc[b] /\ inst'[b] = inst[b]
        /\ UNCHANGED <<restarts, cancels>>
    BY <1>28 DEF DeleteRecord, Return, Leave, ControlOK, Goto, bounds
  <2>2. \A i \in Instances : lock'[i] = lock[i] \/ lock[i] = a
    BY <1>28 DEF DeleteRecord, Return, Locked, ControlOK, Busy, Critical
  <2>3. /\ pc[a] \in {"delete_row", "record_clear"} => ~path'[inst[a]]
        /\ \A i \in Instances : path'[i] /\ disk'[i] = Nil =>
              \/ path[i] /\ disk[i] = Nil
              \/ lock'[i] = a /\ inst'[a] = i /\ pc'[a] \in {"delete_row", "record_clear"}
    BY <1>28 DEF DeleteRecord, SetPcap, PathInv, Return, Leave, Locked, TableOK,
         WorldOK, ControlOK, Busy, Goto, Critical, bounds
  <2>. QED  BY <2>1, <2>2, <2>3, FileFrame
<1>29. ASSUME NEW c \in Captures, TimerFires(c)
      PROVE  FileInv'
  BY <1>29, StepNames, ConstantsAssumption DEF TimerFires, FileInv, ControlOK, WorldOK,
       Goto, Actors, table, locals, bounds
<1>30. ASSUME NEW r \in Rules, DeleteRule(r)
      PROVE  FileInv'
  BY <1>30 DEF DeleteRule, FileInv, TableOK, DropRows, locals, bounds
<1>31. ASSUME Restart
      PROVE  FileInv'
  BY <1>31, ConstantsAssumption DEF Restart, FileInv, WorldOK
<1>. QED  BY <1>1, <1>2, <1>3, <1>4, <1>5, <1>6, <1>7, <1>8, <1>9, <1>10, <1>11,
          <1>12, <1>13, <1>14, <1>15, <1>16, <1>17, <1>18, <1>19, <1>20, <1>21, <1>22,
          <1>23, <1>24, <1>25, <1>26, <1>27, <1>28, <1>29, <1>30, <1>31 DEF Next,
          DeployStep, UndeployStep, CaptureStep, ListStep, vars, table, request,
          agent, locals, listing, bounds, DeployRequest, DeployCheck, DeployInsert,
          DeployStart, WorkloadExits, Expire, ImportRulePackage

\* Until a crash or a disconnection, an instance with a ready capture has its file.
THEOREM ReadyWithFile == Spec => []ReadyHasFile
<1>1. Init => ReadyInv
  BY DEF Init, ReadyInv, PathInv, TimersInv, WriteInv, FileInv, Actors
<1>2. TypeOK /\ Busy /\ Locked /\ ReadyInv /\ [Next]_vars => ReadyInv'
  BY TimersStep, WriteStep, PathStep, FileStep DEF ReadyInv
<1>3. ReadyInv => ReadyHasFile
  BY ConstantsAssumption DEF ReadyInv, FileInv, ReadyHasFile, Actors
<1>. QED  BY <1>1, <1>2, <1>3, LockedCorrect, PTL DEF Spec
===============================================================================
