----------------------------- MODULE CaptureProofs -----------------------------
(***************************************************************************)
(* Machine-checked proofs about the captures of InstanceLifecycle: what    *)
(* the rows, the Agent, the handlers and the timers know of a capture      *)
(* agrees, for every value of the constants.                               *)
(***************************************************************************)
EXTENDS InstanceLifecycleProofs

-------------------------------------------------------------------------------
(* A row lets go of a capture only when the Agent has ended it. *)

\* The Agent does not run the capture that the row of i names.
Ended(i) == pcap[i] = "capturing" => capture[i] \notin active[i]

\* A row names a capture exactly while it says capturing, and only an instance with
\* a workload captures.
RowCapture == \A i \in Instances :
    /\ pcap[i] = "capturing" => wid[i] /\ capture[i] \in issued
    /\ pcap[i] # "capturing" => capture[i] = Nil

\* The steps that are taken when the Agent has ended the capture of the row.
Past == {"write_file", "record_ready", "record_idle", "unlink_capture", "record_clear",
         "unlink", "delete_row"}

\* What a handler that holds the lock knows of the capture of its instance.
Knows(a) ==
    /\ pc[a] \in {"agent_start", "record_capture"} =>
          pcap[inst[a]] # "capturing" /\ (wid[inst[a]] \/ ~Present(inst[a]))
    /\ pc[a] \in {"record_capture", "arm_timer"} => held[a] \in issued
    /\ pc[a] \in {"agent_finish", "abort_capture"} /\ pcap[inst[a]] = "capturing" =>
          held[a] = capture[inst[a]]
    /\ pc[a] \in Past => Ended(inst[a])

CaptureInv == RowCapture /\ \A a \in Actors : Knows(a)

\* Every step keeps the two columns together.
LEMMA RowCaptureStep ==
    ASSUME TypeOK, Busy, CaptureInv, [Next]_vars
    PROVE  RowCapture'
<1>. USE DEF TypeOK, CaptureInv
<1>1. CASE UNCHANGED <<pcap, capture, wid, issued>>
  BY <1>1 DEF RowCapture
<1>2. ASSUME NEW i \in Instances, DeployRecord(i)
      PROVE  RowCapture'
  <2>1. ASSUME DropRows({i})
        PROVE  RowCapture'
    BY <2>1, <1>2, StepNames DEF DeployRecord, DropRows, Present, RowCapture, TableOK,
         agent
  <2>2. ASSUME NEW s \in {"running", "error"}, NEW w \in BOOLEAN, SetStatus(i, s, w)
        PROVE  RowCapture'
    BY <2>2, <1>2, StepNames DEF DeployRecord, SetStatus, Present, RowCapture, TableOK,
         agent
  <2>. QED  BY <2>1, <2>2, <1>2 DEF DeployRecord
<1>3. ASSUME NEW t \in Tasks, ListMark(t)
      PROVE  RowCapture'
  BY <1>3, StepNames, ConstantsAssumption DEF ListMark, Goto, Actors, SetStatus,
       RowCapture, Knows, TableOK, WorldOK, ControlOK, Busy, Present, agent, table
<1>4. ASSUME NEW a \in Actors, UndeployDelete(a)
      PROVE  RowCapture'
  BY <1>4, StepNames, ConstantsAssumption DEF UndeployDelete, Goto, Leave, Return,
       Actors, DropRows, RowCapture, Knows, TableOK, WorldOK, ControlOK, Busy, Present,
       agent, table
<1>5. ASSUME NEW a \in Actors, UndeployFail(a)
      PROVE  RowCapture'
  BY <1>5, StepNames, ConstantsAssumption DEF UndeployFail, Goto, Leave, Return, Actors,
       SetStatus, RowCapture, Knows, TableOK, WorldOK, ControlOK, Busy, Present, agent,
       table
<1>6. ASSUME NEW a \in Actors, StartAgent(a)
      PROVE  RowCapture'
  BY <1>6, StepNames, ConstantsAssumption DEF StartAgent, Listed, Goto, Leave, Return, Actors,
       RowCapture, Knows, TableOK, WorldOK, ControlOK, Busy, Present, agent, table
<1>7. ASSUME NEW a \in Actors, StartRecord(a)
      PROVE  RowCapture'
  BY <1>7, StepNames, ConstantsAssumption DEF StartRecord, Goto, Actors, SetPcap,
       RowCapture, Knows, TableOK, WorldOK, ControlOK, Busy, Present, agent, table
<1>8. ASSUME NEW a \in Actors, FinalizeRecord(a)
      PROVE  RowCapture'
  BY <1>8, StepNames, ConstantsAssumption DEF FinalizeRecord, Goto, Leave, Return,
       Actors, SetPcap, RowCapture, Knows, TableOK, WorldOK, ControlOK, Busy, Present,
       agent, table
<1>9. ASSUME NEW a \in Actors, DeleteRecord(a)
      PROVE  RowCapture'
  BY <1>9, StepNames, ConstantsAssumption DEF DeleteRecord, Goto, Leave, Return, Actors,
       SetPcap, RowCapture, Knows, TableOK, WorldOK, ControlOK, Busy, Present, agent,
       table
<1>10. ASSUME NEW r \in Rules, DeleteRule(r)
      PROVE  RowCapture'
  BY <1>10, StepNames, ConstantsAssumption DEF DeleteRule, DropRows, RowCapture, Knows,
       TableOK, WorldOK, ControlOK, Busy, Present, agent, table
<1>11. ASSUME NEW i \in Instances,
             DeployRequest(i) \/ DeployCheck(i) \/ DeployInsert(i) \/ DeployStart(i) \/
                WorkloadExits(i) \/ CancelDeploy(i)
      PROVE  UNCHANGED <<pcap, capture, wid, issued>>
  BY <1>11 DEF DeployRequest, DeployCheck, DeployInsert, DeployStart, WorkloadExits,
       CancelDeploy, table, agent, locals
<1>12. ASSUME NEW t \in Tasks, NEW op \in {"undeploy", "start_pcap", "delete_pcap"},
             Request(t, op)
      PROVE  UNCHANGED <<pcap, capture, wid, issued>>
  BY <1>12 DEF Request, Goto, table, agent, locals
<1>13. ASSUME NEW t \in Tasks,
             StopRequest(t) \/ ListRequest(t) \/ ListDue(t) \/ ListRows(t) \/
                ListAgent(t) \/ Cancel(t)
      PROVE  UNCHANGED <<pcap, capture, wid, issued>>
  BY <1>13 DEF StopRequest, ListRequest, ListDue, ListRows, ListAgent, Cancel, Goto,
       table, agent, locals
<1>14. ASSUME NEW a \in Actors,
             UndeployRead(a) \/ UndeployStop(a) \/ UndeployUnlink(a) \/ StartRead(a) \/
                StartTimer(a) \/ FinalizeRead(a) \/ FinalizeAgent(a) \/ FinalizeWrite(a)
                \/ DeleteRead(a) \/ DeleteAgent(a) \/ DeleteUnlink(a)
      PROVE  UNCHANGED <<pcap, capture, wid, issued>>
  BY <1>14 DEF UndeployRead, UndeployStop, UndeployUnlink, StartRead, StartTimer,
       FinalizeRead, FinalizeAgent, FinalizeWrite, DeleteRead, DeleteAgent,
       DeleteUnlink, Goto, table, agent, locals
<1>15. ASSUME NEW c \in Captures,
             TimerFires(c) \/ Expire(c)
      PROVE  UNCHANGED <<pcap, capture, wid, issued>>
  BY <1>15 DEF TimerFires, Expire, Goto, table, agent, locals
<1>16. ASSUME NEW package \in SUBSET Packaged,
             ImportRulePackage(package)
      PROVE  UNCHANGED <<pcap, capture, wid, issued>>
  BY <1>16 DEF ImportRulePackage, table, agent, locals
<1>17. ASSUME
             Restart
      PROVE  UNCHANGED <<pcap, capture, wid, issued>>
  BY <1>17 DEF Restart, table, agent, locals
<1>. QED  BY <1>1, <1>2, <1>3, <1>4, <1>5, <1>6, <1>7, <1>8, <1>9, <1>10, <1>11, <1>12,
          <1>13, <1>14, <1>15, <1>16, <1>17 DEF Next, DeployStep, UndeployStep,
          CaptureStep, ListStep, vars, table, request, agent, locals, listing, bounds

\* Two handlers inside critical sections have different instances.
LEMMA ApartInside ==
    ASSUME Locked, NEW a \in Actors, NEW b \in Actors, a # b,
           pc[a] \in Critical, pc[b] \in Critical
    PROVE  inst[a] # inst[b]
  BY DEF Locked

\* The Agent captures for no instance before its deployment is over, and for none whose
\* id the row has made up.
NamelessInv == \A i \in Instances : dpc[i] # "done" \/ i \in unnamed => active[i] = {}

LEMMA NamelessStep ==
    ASSUME TypeOK, Busy, DeployInv, NamelessInv, [Next]_vars
    PROVE  NamelessInv'
<1>0. \A i \in Instances : dpc'[i] # "done" => dpc[i] # "done"
  BY DoneStays
<1>1. CASE \A i \in Instances : active'[i] \in SUBSET active[i] /\ (i \in unnamed' => i \in unnamed)
  BY <1>0, <1>1 DEF NamelessInv
<1>2. ASSUME NEW i \in Instances, DeployStart(i)
      PROVE  NamelessInv'
  <2>1. active' = active /\ dpc[i] # "done" /\ \A j \in unnamed' : j = i \/ j \in unnamed
    BY <1>2 DEF DeployStart
  <2>. QED  BY <1>0, <2>1 DEF NamelessInv
<1>3. ASSUME NEW a \in Actors, UndeployStop(a)
      PROVE  NamelessInv'
  <2>1. unnamed' = unnamed /\ \A i \in Instances : active'[i] = active[i] \/ active'[i] = {}
    BY <1>3 DEF UndeployStop, TypeOK, WorldOK
  <2>. QED  BY <1>0, <2>1 DEF NamelessInv
<1>4. ASSUME NEW a \in Actors, StartAgent(a)
      PROVE  NamelessInv'
  <2>1. unnamed' = unnamed /\ dpc[inst[a]] = "done" /\ dpc' = dpc
    BY <1>4 DEF StartAgent, DeployInv, HandlersInv, Settled
  <2>2. \A i \in Instances : active'[i] = active[i] \/ (i = inst[a] /\ Listed(i))
    BY <1>4 DEF StartAgent, TypeOK, WorldOK
  <2>. QED  BY <2>1, <2>2 DEF NamelessInv, Listed
<1>5. ASSUME NEW a \in Actors, FinalizeAgent(a) \/ DeleteAgent(a)
      PROVE  NamelessInv'
  <2>1. /\ unnamed' = unnamed
        /\ active' = active \/ active' = [active EXCEPT ![inst[a]] = @ \ {held[a]}]
    BY <1>5 DEF FinalizeAgent, DeleteAgent, AgentFinishes, AgentRefuses
  <2>2. \A i \in Instances : active'[i] \in SUBSET active[i]
    BY <2>1 DEF TypeOK, WorldOK
  <2>. QED  BY <1>1, <2>1, <2>2
<1>6. ASSUME NEW i \in Instances,
             DeployRequest(i) \/ DeployCheck(i) \/ DeployInsert(i) \/ DeployRecord(i) \/
                WorkloadExits(i) \/ CancelDeploy(i)
      PROVE  UNCHANGED <<active, unnamed>>
  BY <1>6 DEF DeployRequest, DeployCheck, DeployInsert, DeployRecord, WorkloadExits,
       CancelDeploy, agent
<1>7. ASSUME NEW t \in Tasks, NEW op \in {"undeploy", "start_pcap", "delete_pcap"},
             Request(t, op)
      PROVE  UNCHANGED <<active, unnamed>>
  BY <1>7 DEF Request, agent
<1>8. ASSUME NEW t \in Tasks,
             StopRequest(t) \/ ListRequest(t) \/ ListStep(t) \/ Cancel(t)
      PROVE  UNCHANGED <<active, unnamed>>
  BY <1>8 DEF StopRequest, ListRequest, ListStep, ListDue, ListRows, ListAgent, ListMark,
       Cancel, agent
<1>9. ASSUME NEW a \in Actors,
             UndeployRead(a) \/ UndeployUnlink(a) \/ UndeployDelete(a) \/ UndeployFail(a) \/
                StartRead(a) \/ StartRecord(a) \/ StartTimer(a) \/ FinalizeRead(a) \/
                FinalizeWrite(a) \/ FinalizeRecord(a) \/ DeleteRead(a) \/
                DeleteUnlink(a) \/ DeleteRecord(a)
      PROVE  UNCHANGED <<active, unnamed>>
  BY <1>9 DEF UndeployRead, UndeployUnlink, UndeployDelete, UndeployFail, StartRead,
       StartRecord, StartTimer, FinalizeRead, FinalizeWrite, FinalizeRecord, DeleteRead,
       DeleteUnlink, DeleteRecord, agent
<1>10. ASSUME NEW c \in Captures, TimerFires(c) \/ Expire(c)
       PROVE  UNCHANGED <<active, unnamed>>
  BY <1>10 DEF TimerFires, Expire, agent
<1>11. ASSUME NEW r \in Rules, DeleteRule(r)
       PROVE  UNCHANGED <<active, unnamed>>
  BY <1>11 DEF DeleteRule, agent
<1>12. ASSUME NEW package \in SUBSET Packaged, ImportRulePackage(package)
       PROVE  UNCHANGED <<active, unnamed>>
  BY <1>12 DEF ImportRulePackage, agent
<1>13. CASE Restart \/ UNCHANGED vars
  BY <1>1, <1>13 DEF Restart, vars, agent
<1>14. UNCHANGED <<active, unnamed>> => NamelessInv'
  BY <1>1
<1>. QED  BY <1>2, <1>3, <1>4, <1>5, <1>6, <1>7, <1>8, <1>9, <1>10, <1>11, <1>12, <1>13,
          <1>14 DEF Next, DeployStep, UndeployStep, CaptureStep

\* A handler that does nothing, while the rows and the Agent's captures stay.
LEMMA StillKnows ==
    ASSUME NEW h \in Actors, Knows(h), UNCHANGED <<status, wid, pcap, capture, active, issued>>,
           pc'[h] = pc[h], inst'[h] = inst[h], held'[h] = held[h]
    PROVE  Knows(h)'
  BY DEF Knows, Ended, Present

\* Every step keeps what the handlers know: the lock keeps the others away.
LEMMA KnowsStep ==
    ASSUME TypeOK, Busy, DeployInv, Locked, NamelessInv, CaptureInv, [Next]_vars,
           NEW h \in Actors
    PROVE  Knows(h)'
<1>. USE DEF TypeOK, CaptureInv
<1>1. CASE UNCHANGED <<pc, inst, held, pcap, capture, wid, status, active, issued>>
  BY <1>1 DEF Knows, Ended, Present
<1>2. ASSUME NEW i \in Instances, DeployInsert(i)
      PROVE  Knows(h)'
  <2>1. pc[h] \in {"agent_start", "record_capture"} => dpc[inst[h]] = "done"
    BY DEF DeployInv, HandlersInv, Settled
  <2>2. /\ UNCHANGED <<pc, inst, held, pcap, capture, wid, active, issued>>
        /\ \A j \in Instances : dpc[j] = "done" => status'[j] = status[j]
    BY <1>2 DEF DeployInsert, TableOK, locals, agent
  <2>. QED  BY <2>1, <2>2, StepNames DEF Knows, Ended, Present, Busy
<1>3. ASSUME NEW i \in Instances, DeployRecord(i)
      PROVE  Knows(h)'
  <2>1. ASSUME DropRows({i})
        PROVE  Knows(h)'
    BY <2>1, <1>3, StepNames DEF DeployRecord, DropRows, Present, Knows, Ended, Past,
         TableOK, WorldOK, ControlOK, Busy, agent, locals
  <2>2. ASSUME NEW s \in {"running", "error"}, NEW w \in BOOLEAN, SetStatus(i, s, w)
        PROVE  Knows(h)'
    BY <2>2, <1>3, StepNames DEF DeployRecord, SetStatus, Present, Knows, Ended, Past,
         TableOK, WorldOK, ControlOK, Busy, agent, locals
  <2>. QED  BY <2>1, <2>2, <1>3 DEF DeployRecord
<1>4. ASSUME NEW t \in Tasks,
             NEW op \in {"undeploy", "start_pcap", "delete_pcap"}, Request(t, op)
      PROVE  Knows(h)'
  BY <1>4, StepNames, ConstantsAssumption DEF Request, Goto, Actors, Knows, Ended, Past,
       RowCapture, TableOK, WorldOK, ControlOK, Busy, Locked, Present, agent, table,
       locals
<1>5. ASSUME NEW t \in Tasks, StopRequest(t)
      PROVE  Knows(h)'
  BY <1>5, StepNames, ConstantsAssumption DEF StopRequest, Goto, Actors, Knows, Ended,
       Past, RowCapture, TableOK, WorldOK, ControlOK, Busy, Locked, Present, agent,
       table, locals
<1>6. ASSUME NEW t \in Tasks, ListRequest(t)
      PROVE  Knows(h)'
  BY <1>6, StepNames, ConstantsAssumption DEF ListRequest, Goto, Actors, Knows, Ended,
       Past, RowCapture, TableOK, WorldOK, ControlOK, Busy, Locked, Present, agent,
       table, locals
<1>7. ASSUME NEW t \in Tasks, ListDue(t)
      PROVE  Knows(h)'
  BY <1>7, StepNames, ConstantsAssumption DEF ListDue, Goto, Actors, Knows, Ended, Past,
       RowCapture, TableOK, WorldOK, ControlOK, Busy, Locked, Present, agent, table,
       locals
<1>8. ASSUME NEW t \in Tasks, ListRows(t)
      PROVE  Knows(h)'
  BY <1>8, StepNames, ConstantsAssumption DEF ListRows, Goto, Actors, Knows, Ended,
       Past, RowCapture, TableOK, WorldOK, ControlOK, Busy, Locked, Present, agent,
       table, locals
<1>9. ASSUME NEW t \in Tasks, ListAgent(t)
      PROVE  Knows(h)'
  BY <1>9, StepNames, ConstantsAssumption DEF ListAgent, Goto, Actors, Knows, Ended,
       Past, RowCapture, TableOK, WorldOK, ControlOK, Busy, Locked, Present, agent,
       table, locals
<1>10. ASSUME NEW t \in Tasks, ListMark(t)
      PROVE  Knows(h)'
  BY <1>10, StepNames, ConstantsAssumption DEF ListMark, Goto, Actors, SetStatus, Knows,
       Ended, Past, RowCapture, TableOK, WorldOK, ControlOK, Busy, Locked, Present,
       agent, table, locals
<1>11. ASSUME NEW t \in Tasks, Cancel(t)
      PROVE  Knows(h)'
  BY <1>11, StepNames, ConstantsAssumption DEF Cancel, Actors, Knows, Ended, Past,
       RowCapture, TableOK, WorldOK, ControlOK, Busy, Locked, Present, agent, table,
       locals
<1>12. ASSUME NEW a \in Actors, UndeployRead(a)
      PROVE  Knows(h)'
  <2>1. UNCHANGED <<status, wid, pcap, capture, active, issued>> /\ inst[a] \in Instances
    BY <1>12, StepNames DEF UndeployRead, table, agent, Busy
  <2>2. CASE h = a
    <3>1. \/ pc'[a] \in {"idle", "list_due", "stop_workload"}
          \/ pc'[a] = "unlink" /\ inst'[a] = inst[a] /\ ~wid[inst[a]]
      BY <1>12 DEF UndeployRead, ControlOK, Goto, Leave, ReturnAtOnce
    <3>. QED  BY <2>1, <2>2, <3>1 DEF Knows, Ended, Past, RowCapture
  <2>3. CASE h # a
    <3>1. pc'[h] = pc[h] /\ inst'[h] = inst[h] /\ held'[h] = held[h]
      BY <2>3, <1>12 DEF UndeployRead, ControlOK, Goto, Leave, ReturnAtOnce, locals
    <3>. QED  BY <2>1, <3>1, StillKnows
  <2>. QED  BY <2>2, <2>3
<1>13. ASSUME NEW a \in Actors, UndeployStop(a)
      PROVE  Knows(h)'
  <2>1. /\ UNCHANGED <<status, wid, pcap, capture, issued, inst, held>> /\ inst[a] \in Instances
        /\ pc'[a] \in {"unlink", "mark_error"} /\ \A b \in Actors : b # a => pc'[b] = pc[b]
    BY <1>13, StepNames DEF UndeployStop, Goto, table, locals, Busy, ControlOK
  <2>2. \A i \in Instances : active'[i] \in SUBSET active[i]
    BY <1>13 DEF UndeployStop, WorldOK
  <2>3. CASE h = a
    <3>1. pc'[a] = "unlink" => active'[inst[a]] = {}
      BY <1>13, <2>1 DEF UndeployStop, Goto, WorldOK, ControlOK, NamelessInv
    <3>. QED  BY <2>1, <2>3, <3>1 DEF Knows, Ended, Past
  <2>4. CASE h # a
    <3>1. pc[h] \in Past => inst[h] \in Instances
      BY StepNames DEF Busy, Past
    <3>. QED  BY <2>1, <2>2, <2>4, <3>1 DEF Knows, Ended, Present
  <2>. QED  BY <2>3, <2>4
<1>14. ASSUME NEW a \in Actors, UndeployUnlink(a)
      PROVE  Knows(h)'
  BY <1>14, StepNames, ConstantsAssumption DEF UndeployUnlink, Goto, Actors, Knows,
       Ended, Past, RowCapture, TableOK, WorldOK, ControlOK, Busy, Locked, Present,
       agent, table, locals
<1>15. ASSUME NEW a \in Actors, UndeployDelete(a)
      PROVE  Knows(h)'
  BY <1>15, StepNames, ConstantsAssumption DEF UndeployDelete, Goto, Leave, Return,
       Actors, DropRows, Knows, Ended, Past, RowCapture, TableOK, WorldOK, ControlOK,
       Busy, Locked, Present, agent, table, locals
<1>16. ASSUME NEW a \in Actors, UndeployFail(a)
      PROVE  Knows(h)'
  BY <1>16, StepNames, ConstantsAssumption DEF UndeployFail, Goto, Leave, Return,
       Actors, SetStatus, Knows, Ended, Past, RowCapture, TableOK, WorldOK, ControlOK,
       Busy, Locked, Present, agent, table, locals
<1>17. ASSUME NEW a \in Actors, StartRead(a)
      PROVE  Knows(h)'
  <2>1. UNCHANGED <<status, wid, pcap, capture, active, issued>> /\ inst[a] \in Instances
    BY <1>17, StepNames DEF StartRead, table, agent, Busy
  <2>2. CASE h = a
    <3>1. \/ pc'[a] \in {"idle", "list_due"}
          \/ /\ pc'[a] = "agent_start" /\ inst'[a] = inst[a]
             /\ pcap[inst[a]] # "capturing" /\ wid[inst[a]]
      BY <1>17 DEF StartRead, ControlOK, Goto, Leave, ReturnAtOnce, locals
    <3>. QED  BY <2>1, <2>2, <3>1 DEF Knows, Past
  <2>3. CASE h # a
    <3>1. pc'[h] = pc[h] /\ inst'[h] = inst[h] /\ held'[h] = held[h]
      BY <2>3, <1>17 DEF StartRead, ControlOK, Goto, Leave, ReturnAtOnce, locals
    <3>. QED  BY <2>1, <3>1, StillKnows
  <2>. QED  BY <2>2, <2>3
<1>18. ASSUME NEW a \in Actors, StartAgent(a)
      PROVE  Knows(h)'
  <2>1. CASE h = a
    BY <2>1, <1>18, StepNames, ConstantsAssumption DEF StartAgent, Listed, Goto, Leave, Return,
         Actors, Knows, Ended, Past, RowCapture, TableOK, WorldOK, ControlOK, Busy,
         Present, agent, table, locals
  <2>2. CASE h # a
    BY <2>2, <1>18, ApartInside, StepNames, ConstantsAssumption DEF StartAgent, Listed, Goto,
         Leave, Return, Actors, Knows, Ended, Past, RowCapture, TableOK, WorldOK,
         ControlOK, Busy, Present, agent, table, locals
  <2>. QED  BY <2>1, <2>2
<1>19. ASSUME NEW a \in Actors, StartRecord(a)
      PROVE  Knows(h)'
  BY <1>19, StepNames, ConstantsAssumption DEF StartRecord, Goto, Actors, SetPcap,
       Knows, Ended, Past, RowCapture, TableOK, WorldOK, ControlOK, Busy, Locked,
       Present, agent, table, locals
<1>20. ASSUME NEW a \in Actors, StartTimer(a)
      PROVE  Knows(h)'
  BY <1>20, StepNames, ConstantsAssumption DEF StartTimer, Actors, Knows, Ended, Past,
       RowCapture, TableOK, WorldOK, ControlOK, Busy, Locked, Present, agent, table,
       locals
<1>21. ASSUME NEW a \in Actors, FinalizeRead(a)
      PROVE  Knows(h)'
  <2>1. UNCHANGED <<status, wid, pcap, capture, active, issued>>
    BY <1>21 DEF FinalizeRead, table, agent
  <2>2. CASE h = a
    <3>1. \/ pc'[a] \in {"idle", "list_due"}
          \/ /\ pc'[a] = "agent_finish" /\ inst'[a] = inst[a]
             /\ held'[a] = capture[inst[a]]
      BY <1>21 DEF FinalizeRead, ControlOK, Goto, Leave, ReturnAtOnce
    <3>. QED  BY <2>1, <2>2, <3>1 DEF Knows, Past
  <2>3. CASE h # a
    <3>1. pc'[h] = pc[h] /\ inst'[h] = inst[h] /\ held'[h] = held[h]
      BY <2>3, <1>21 DEF FinalizeRead, ControlOK, Goto, Leave, ReturnAtOnce, locals
    <3>. QED  BY <2>1, <3>1, StillKnows
  <2>. QED  BY <2>2, <2>3
<1>22. ASSUME NEW a \in Actors, FinalizeAgent(a)
      PROVE  Knows(h)'
  <2>1. CASE h = a
    BY <2>1, <1>22, StepNames, ConstantsAssumption DEF FinalizeAgent, Goto, Leave,
         Return, Actors, AgentFinishes, AgentRefuses, Knows, Ended, Past, RowCapture,
         TableOK, WorldOK, ControlOK, Busy, Present, agent, table, locals
  <2>2. CASE h # a
    BY <2>2, <1>22, ApartInside, StepNames, ConstantsAssumption DEF FinalizeAgent, Goto,
         Leave, Return, Actors, AgentFinishes, AgentRefuses, Knows, Ended, Past,
         RowCapture, TableOK, WorldOK, ControlOK, Busy, Present, agent, table, locals
  <2>. QED  BY <2>1, <2>2
<1>23. ASSUME NEW a \in Actors, FinalizeWrite(a)
      PROVE  Knows(h)'
  <2>1. CASE h = a
    BY <2>1, <1>23, StepNames, ConstantsAssumption DEF FinalizeWrite, Goto, Leave,
         Return, Actors, Knows, Ended, Past, RowCapture, TableOK, WorldOK, ControlOK,
         Busy, Present, agent, table, locals
  <2>2. CASE h # a
    BY <2>2, <1>23, ApartInside, StepNames, ConstantsAssumption DEF FinalizeWrite, Goto,
         Leave, Return, Actors, Knows, Ended, Past, RowCapture, TableOK, WorldOK,
         ControlOK, Busy, Present, agent, table, locals
  <2>. QED  BY <2>1, <2>2
<1>24. ASSUME NEW a \in Actors, FinalizeRecord(a)
      PROVE  Knows(h)'
  BY <1>24, StepNames, ConstantsAssumption DEF FinalizeRecord, Goto, Leave, Return,
       Actors, SetPcap, Knows, Ended, Past, RowCapture, TableOK, WorldOK, ControlOK,
       Busy, Locked, Present, agent, table, locals
<1>25. ASSUME NEW a \in Actors, DeleteRead(a)
      PROVE  Knows(h)'
  <2>1. CASE h = a
    BY <2>1, <1>25, StepNames, ConstantsAssumption DEF DeleteRead, Goto, Leave,
         ReturnAtOnce, Acquire, Actors, Recorded, Knows, Ended, Past, RowCapture,
         TableOK, WorldOK, ControlOK, Busy, Present, agent, table, locals
  <2>2. CASE h # a
    BY <2>2, <1>25, ApartInside, StepNames, ConstantsAssumption DEF DeleteRead, Goto,
         Leave, ReturnAtOnce, Acquire, Actors, Recorded, Knows, Ended, Past, RowCapture,
         TableOK, WorldOK, ControlOK, Busy, Present, agent, table, locals
  <2>. QED  BY <2>1, <2>2
<1>26. ASSUME NEW a \in Actors, DeleteAgent(a)
      PROVE  Knows(h)'
  <2>1. /\ UNCHANGED <<status, wid, pcap, capture, issued>> /\ inst[a] \in Instances
        /\ \A b \in Actors : b # a =>
              pc'[b] = pc[b] /\ inst'[b] = inst[b] /\ held'[b] = held[b]
        /\ \A i \in Instances : active'[i] \in SUBSET active[i]
    BY <1>26, StepNames DEF DeleteAgent, AgentFinishes, AgentRefuses, Goto, Leave, Return,
         table, locals, Busy, ControlOK, WorldOK
  <2>2. CASE h = a
    <3>1. \/ pc'[a] \in {"idle", "list_due"}
          \/ /\ pc'[a] = "unlink_capture" /\ inst'[a] = inst[a] /\ pc[a] = "abort_capture"
             /\ held[a] \notin active'[inst[a]]
      BY <1>26, <2>1 DEF DeleteAgent, AgentFinishes, AgentRefuses, Goto, Leave, Return, locals,
           ControlOK, WorldOK
    <3>. QED  BY <2>1, <2>2, <3>1 DEF Knows, Ended, Past
  <2>3. CASE h # a
    <3>1. pc[h] \in Past => inst[h] \in Instances
      BY StepNames DEF Busy, Past
    <3>. QED  BY <2>1, <2>3, <3>1 DEF Knows, Ended, Present
  <2>. QED  BY <2>2, <2>3
<1>27. ASSUME NEW a \in Actors, DeleteUnlink(a)
      PROVE  Knows(h)'
  BY <1>27, StepNames, ConstantsAssumption DEF DeleteUnlink, Goto, Leave, Return,
       Actors, Knows, Ended, Past, RowCapture, TableOK, WorldOK, ControlOK, Busy,
       Locked, Present, agent, table, locals
<1>28. ASSUME NEW a \in Actors, DeleteRecord(a)
      PROVE  Knows(h)'
  BY <1>28, StepNames, ConstantsAssumption DEF DeleteRecord, Goto, Leave, Return,
       Actors, SetPcap, Knows, Ended, Past, RowCapture, TableOK, WorldOK, ControlOK,
       Busy, Locked, Present, agent, table, locals
<1>29. ASSUME NEW c \in Captures, TimerFires(c)
      PROVE  Knows(h)'
  BY <1>29, StepNames, ConstantsAssumption DEF TimerFires, Goto, Actors, Knows, Ended,
       Past, RowCapture, TableOK, WorldOK, ControlOK, Busy, Locked, Present, agent,
       table, locals
<1>30. ASSUME NEW r \in Rules, DeleteRule(r)
      PROVE  Knows(h)'
  BY <1>30, StepNames, ConstantsAssumption DEF DeleteRule, DropRows, Knows, Ended, Past,
       RowCapture, TableOK, WorldOK, ControlOK, Busy, Locked, Present, agent, table,
       locals
<1>31. ASSUME Restart
      PROVE  Knows(h)'
  BY <1>31, StepNames, ConstantsAssumption DEF Restart, Actors, Knows, Ended, Past,
       RowCapture, TableOK, WorldOK, ControlOK, Busy, Locked, Present, agent, table,
       locals
<1>. QED  BY <1>1, <1>2, <1>3, <1>4, <1>5, <1>6, <1>7, <1>8, <1>9, <1>10, <1>11, <1>12,
          <1>13, <1>14, <1>15, <1>16, <1>17, <1>18, <1>19, <1>20, <1>21, <1>22, <1>23,
          <1>24, <1>25, <1>26, <1>27, <1>28, <1>29, <1>30, <1>31 DEF Next, DeployStep,
          UndeployStep, CaptureStep, ListStep, vars, table, request, agent, locals,
          listing, bounds, DeployRequest, DeployCheck, DeployStart, WorkloadExits,
          CancelDeploy, Expire, ImportRulePackage


\* Only the holder of the lock, past the Agent's answer, writes other values.
LEMMA LetGoStep ==
    ASSUME TypeOK, Busy, DeployInv, CaptureInv, [Next]_vars, NEW k \in Instances,
           pcap[k] = "capturing", capture[k] \in active[k], rule[k] \in rules'
    PROVE  pcap'[k] = "capturing" /\ capture'[k] = capture[k]
<1>. USE DEF TypeOK, CaptureInv
<1>1. CASE UNCHANGED <<pcap, capture>>
  BY <1>1 DEF Knows
<1>2. ASSUME NEW i \in Instances, DeployRecord(i)
      PROVE  pcap'[k] = "capturing" /\ capture'[k] = capture[k]
  <2>1. ASSUME DropRows({i})
        PROVE  pcap'[k] = "capturing" /\ capture'[k] = capture[k]
    BY <2>1, <1>2, StepNames DEF DeployRecord, DropRows, Present, RowCapture, Knows,
         DeployInv, RowsInv, Starting, TableOK
  <2>2. ASSUME NEW s \in {"running", "error"}, NEW w \in BOOLEAN, SetStatus(i, s, w)
        PROVE  pcap'[k] = "capturing" /\ capture'[k] = capture[k]
    BY <2>2, <1>2, StepNames DEF DeployRecord, SetStatus, Present, RowCapture, Knows,
         DeployInv, RowsInv, Starting, TableOK
  <2>. QED  BY <2>1, <2>2, <1>2 DEF DeployRecord
<1>3. ASSUME NEW t \in Tasks, ListMark(t)
      PROVE  pcap'[k] = "capturing" /\ capture'[k] = capture[k]
  BY <1>3, StepNames, ConstantsAssumption DEF ListMark, Goto, Actors, SetStatus, Knows,
       Ended, Past, RowCapture, TableOK, WorldOK, ControlOK, Busy, Present, agent,
       table, locals
<1>4. ASSUME NEW a \in Actors, UndeployDelete(a)
      PROVE  pcap'[k] = "capturing" /\ capture'[k] = capture[k]
  <2>1. CASE k = inst[a]
    BY <2>1, <1>4 DEF UndeployDelete, Knows, Past, Ended
  <2>2. CASE k # inst[a]
    BY <2>2, <1>4 DEF UndeployDelete, DropRows, TableOK
  <2>. QED  BY <2>1, <2>2
<1>5. ASSUME NEW a \in Actors, UndeployFail(a)
      PROVE  pcap'[k] = "capturing" /\ capture'[k] = capture[k]
  BY <1>5, StepNames, ConstantsAssumption DEF UndeployFail, Goto, Leave, Return, Actors,
       SetStatus, Knows, Ended, Past, RowCapture, TableOK, WorldOK, ControlOK, Busy,
       Present, agent, table, locals
<1>6. ASSUME NEW a \in Actors, StartRecord(a)
      PROVE  pcap'[k] = "capturing" /\ capture'[k] = capture[k]
  BY <1>6, StepNames, ConstantsAssumption DEF StartRecord, Goto, Actors, SetPcap, Knows,
       Ended, Past, RowCapture, TableOK, WorldOK, ControlOK, Busy, Present, agent,
       table, locals
<1>7. ASSUME NEW a \in Actors, FinalizeRecord(a)
      PROVE  pcap'[k] = "capturing" /\ capture'[k] = capture[k]
  <2>1. CASE k = inst[a]
    BY <2>1, <1>7 DEF FinalizeRecord, Knows, Past, Ended
  <2>2. CASE k # inst[a]
    BY <2>2, <1>7 DEF FinalizeRecord, SetPcap, TableOK
  <2>. QED  BY <2>1, <2>2
<1>8. ASSUME NEW a \in Actors, DeleteRecord(a)
      PROVE  pcap'[k] = "capturing" /\ capture'[k] = capture[k]
  <2>1. CASE k = inst[a]
    BY <2>1, <1>8 DEF DeleteRecord, Knows, Past, Ended
  <2>2. CASE k # inst[a]
    BY <2>2, <1>8 DEF DeleteRecord, SetPcap, TableOK
  <2>. QED  BY <2>1, <2>2
<1>9. ASSUME NEW r \in Rules, DeleteRule(r)
      PROVE  pcap'[k] = "capturing" /\ capture'[k] = capture[k]
  BY <1>9, StepNames, ConstantsAssumption DEF DeleteRule, DropRows, Knows, Ended, Past,
       RowCapture, TableOK, WorldOK, ControlOK, Busy, Present, agent, table, locals
<1>10. ASSUME NEW i \in Instances,
             DeployRequest(i) \/ DeployCheck(i) \/ DeployInsert(i) \/ DeployStart(i) \/
                WorkloadExits(i) \/ CancelDeploy(i)
      PROVE  UNCHANGED <<pcap, capture>>
  BY <1>10 DEF DeployRequest, DeployCheck, DeployInsert, DeployStart, WorkloadExits,
       CancelDeploy, table, agent, locals
<1>11. ASSUME NEW t \in Tasks, NEW op \in {"undeploy", "start_pcap", "delete_pcap"},
             Request(t, op)
      PROVE  UNCHANGED <<pcap, capture>>
  BY <1>11 DEF Request, Goto, table, agent, locals
<1>12. ASSUME NEW t \in Tasks,
             StopRequest(t) \/ ListRequest(t) \/ ListDue(t) \/ ListRows(t) \/
                ListAgent(t) \/ Cancel(t)
      PROVE  UNCHANGED <<pcap, capture>>
  BY <1>12 DEF StopRequest, ListRequest, ListDue, ListRows, ListAgent, Cancel, Goto,
       table, agent, locals
<1>13. ASSUME NEW a \in Actors,
             UndeployRead(a) \/ UndeployStop(a) \/ UndeployUnlink(a) \/ StartRead(a) \/
                StartAgent(a) \/ StartTimer(a) \/ FinalizeRead(a) \/ FinalizeAgent(a) \/
                FinalizeWrite(a) \/ DeleteRead(a) \/ DeleteAgent(a) \/ DeleteUnlink(a)
      PROVE  UNCHANGED <<pcap, capture>>
  BY <1>13 DEF UndeployRead, UndeployStop, UndeployUnlink, StartRead, StartAgent,
       StartTimer, FinalizeRead, FinalizeAgent, FinalizeWrite, DeleteRead, DeleteAgent,
       DeleteUnlink, Goto, table, agent, locals
<1>14. ASSUME NEW c \in Captures,
             TimerFires(c) \/ Expire(c)
      PROVE  UNCHANGED <<pcap, capture>>
  BY <1>14 DEF TimerFires, Expire, Goto, table, agent, locals
<1>15. ASSUME NEW package \in SUBSET Packaged,
             ImportRulePackage(package)
      PROVE  UNCHANGED <<pcap, capture>>
  BY <1>15 DEF ImportRulePackage, table, agent, locals
<1>16. ASSUME
             Restart
      PROVE  UNCHANGED <<pcap, capture>>
  BY <1>16 DEF Restart, table, agent, locals
<1>. QED  BY <1>1, <1>2, <1>3, <1>4, <1>5, <1>6, <1>7, <1>8, <1>9, <1>10, <1>11, <1>12,
          <1>13, <1>14, <1>15, <1>16 DEF Next, DeployStep, UndeployStep, CaptureStep,
          ListStep, vars, table, request, agent, locals, listing, bounds

\* A row lets go of a capture only when the Agent has ended it, or with its rule.
THEOREM CapturesNotForgotten == Spec => CaptureNotForgotten
<1>1. Init => NamelessInv /\ CaptureInv
  BY ConstantsAssumption DEF Init, NamelessInv, CaptureInv, RowCapture, Knows, Past
<1>2. TypeOK /\ Busy /\ DeployInv /\ Locked /\ NamelessInv /\ CaptureInv /\ [Next]_vars
        => NamelessInv' /\ CaptureInv'
  BY NamelessStep, RowCaptureStep, KnowsStep DEF CaptureInv
<1>3. TypeOK /\ Busy /\ DeployInv /\ CaptureInv /\ [Next]_vars =>
        [\A i \in Instances :
            pcap[i] = "capturing" /\ capture[i] \in active[i] /\ rule[i] \in rules'
                => pcap'[i] = "capturing" /\ capture'[i] = capture[i]]_vars
  BY LetGoStep
<1>. QED  BY <1>1, <1>2, <1>3, LockedCorrect, PTL DEF Spec, CaptureNotForgotten

-------------------------------------------------------------------------------
(* A capture in progress has its timer. *)

\* The steps from the Agent's new capture to its timer.
Arming == {"record_capture", "arm_timer"}

\* A capture belongs to one row, or to the one handler that has just started it.
OwnInv ==
    /\ \A i, j \in Instances : capture[i] = capture[j] /\ capture[i] # Nil => i = j
    /\ \A a \in Actors, j \in Instances : pc[a] \in Arming /\ capture[j] = held[a] =>
          pc[a] = "arm_timer" /\ j = inst[a]
    /\ \A a, b \in Actors :
          pc[a] \in Arming /\ pc[b] \in Arming /\ held[a] = held[b] => a = b

\* The timer of the capture sleeps for instance i, or is about to be started.
Armed(i) ==
    \/ pc[capture[i]] = "sleep" /\ inst[capture[i]] = i
    \/ /\ lock[i] \in Actors /\ inst[lock[i]] = i
       /\ pc[lock[i]] = "arm_timer" /\ held[lock[i]] = capture[i]

TimedInv == restarts = 0 /\ cancels = 0 =>
    \A i \in Instances : pcap[i] = "capturing" /\ capture[i] \notin expired => Armed(i)

\* What almost every step leaves alone: captures of rows are at most dropped, and who
\* has started one and is still to set its timer keeps it.
CapturesKept ==
    /\ \A i \in Instances : capture'[i] \in {capture[i], Nil}
    /\ \A b \in Actors : pc'[b] \in Arming =>
          pc'[b] = pc[b] /\ inst'[b] = inst[b] /\ held'[b] = held[b]

\* Only the Agent's answer and its recording bring a capture in.
LEMMA CapturesStep ==
    ASSUME TypeOK, Busy, [Next]_vars
    PROVE  CapturesKept \/ \E a \in Actors : StartAgent(a) \/ StartRecord(a)
<1>. USE DEF TypeOK
<1>1. CASE UNCHANGED <<pc, inst, held, capture>>
  BY <1>1 DEF CapturesKept, TableOK, Arming
<1>2. ASSUME NEW i \in Instances, DeployRecord(i)
      PROVE  CapturesKept
  <2>1. ASSUME DropRows({i})
        PROVE  CapturesKept
    BY <2>1, <1>2, StepNames DEF DeployRecord, DropRows, Present, CapturesKept, Arming,
         TableOK, locals
  <2>2. ASSUME NEW s \in {"running", "error"}, NEW w \in BOOLEAN, SetStatus(i, s, w)
        PROVE  CapturesKept
    BY <2>2, <1>2, StepNames DEF DeployRecord, SetStatus, Present, CapturesKept, Arming,
         TableOK, locals
  <2>. QED  BY <2>1, <2>2, <1>2 DEF DeployRecord
<1>3. ASSUME NEW t \in Tasks,
             NEW op \in {"undeploy", "start_pcap", "delete_pcap"}, Request(t, op)
      PROVE  CapturesKept
  BY <1>3, StepNames, ConstantsAssumption DEF Request, Goto, Actors, CapturesKept,
       Arming, TableOK, ControlOK, Busy, table, locals
<1>4. ASSUME NEW t \in Tasks, StopRequest(t)
      PROVE  CapturesKept
  BY <1>4, StepNames, ConstantsAssumption DEF StopRequest, Goto, Actors, CapturesKept,
       Arming, TableOK, ControlOK, Busy, table, locals
<1>5. ASSUME NEW t \in Tasks, ListRequest(t)
      PROVE  CapturesKept
  BY <1>5, StepNames, ConstantsAssumption DEF ListRequest, Goto, Actors, CapturesKept,
       Arming, TableOK, ControlOK, Busy, table, locals
<1>6. ASSUME NEW t \in Tasks, ListDue(t)
      PROVE  CapturesKept
  BY <1>6, StepNames, ConstantsAssumption DEF ListDue, Goto, Actors, CapturesKept,
       Arming, TableOK, ControlOK, Busy, table, locals
<1>7. ASSUME NEW t \in Tasks, ListRows(t)
      PROVE  CapturesKept
  BY <1>7, StepNames, ConstantsAssumption DEF ListRows, Goto, Actors, CapturesKept,
       Arming, TableOK, ControlOK, Busy, table, locals
<1>8. ASSUME NEW t \in Tasks, ListAgent(t)
      PROVE  CapturesKept
  BY <1>8, StepNames, ConstantsAssumption DEF ListAgent, Goto, Actors, CapturesKept,
       Arming, TableOK, ControlOK, Busy, table, locals
<1>9. ASSUME NEW t \in Tasks, ListMark(t)
      PROVE  CapturesKept
  BY <1>9, StepNames, ConstantsAssumption DEF ListMark, Goto, Actors, SetStatus,
       CapturesKept, Arming, TableOK, ControlOK, Busy, table, locals
<1>10. ASSUME NEW t \in Tasks, Cancel(t)
      PROVE  CapturesKept
  BY <1>10, StepNames, ConstantsAssumption DEF Cancel, Actors, CapturesKept, Arming,
       TableOK, ControlOK, Busy, table, locals
<1>11. ASSUME NEW a \in Actors, UndeployRead(a)
      PROVE  CapturesKept
  BY <1>11, StepNames, ConstantsAssumption DEF UndeployRead, Goto, Leave, ReturnAtOnce,
       Acquire, Actors, Recorded, CapturesKept, Arming, TableOK, ControlOK, Busy, table,
       locals
<1>12. ASSUME NEW a \in Actors, UndeployStop(a)
      PROVE  CapturesKept
  BY <1>12, StepNames, ConstantsAssumption DEF UndeployStop, Goto, Actors, CapturesKept,
       Arming, TableOK, ControlOK, Busy, table, locals
<1>13. ASSUME NEW a \in Actors, UndeployUnlink(a)
      PROVE  CapturesKept
  BY <1>13, StepNames, ConstantsAssumption DEF UndeployUnlink, Goto, Actors,
       CapturesKept, Arming, TableOK, ControlOK, Busy, table, locals
<1>14. ASSUME NEW a \in Actors, UndeployDelete(a)
      PROVE  CapturesKept
  BY <1>14, StepNames, ConstantsAssumption DEF UndeployDelete, Goto, Leave, Return,
       Actors, DropRows, CapturesKept, Arming, TableOK, ControlOK, Busy, table, locals
<1>15. ASSUME NEW a \in Actors, UndeployFail(a)
      PROVE  CapturesKept
  BY <1>15, StepNames, ConstantsAssumption DEF UndeployFail, Goto, Leave, Return,
       Actors, SetStatus, CapturesKept, Arming, TableOK, ControlOK, Busy, table, locals
<1>16. ASSUME NEW a \in Actors, StartRead(a)
      PROVE  CapturesKept
  BY <1>16, StepNames, ConstantsAssumption DEF StartRead, Goto, Leave, ReturnAtOnce,
       Acquire, Actors, CapturesKept, Arming, TableOK, ControlOK, Busy, table, locals
<1>17. ASSUME NEW a \in Actors, StartTimer(a)
      PROVE  CapturesKept
  BY <1>17, StepNames, ConstantsAssumption DEF StartTimer, Actors, CapturesKept, Arming,
       TableOK, ControlOK, Busy, table, locals
<1>18. ASSUME NEW a \in Actors, FinalizeRead(a)
      PROVE  CapturesKept
  BY <1>18, StepNames, ConstantsAssumption DEF FinalizeRead, Goto, Leave, ReturnAtOnce,
       Acquire, Actors, NothingToFinalize, CapturesKept, Arming, TableOK, ControlOK,
       Busy, table, locals
<1>19. ASSUME NEW a \in Actors, FinalizeAgent(a)
      PROVE  CapturesKept
  BY <1>19, StepNames, ConstantsAssumption DEF FinalizeAgent, Goto, Leave, Return,
       Actors, AgentFinishes, AgentRefuses, CapturesKept, Arming, TableOK, ControlOK,
       Busy, table, locals
<1>20. ASSUME NEW a \in Actors, FinalizeWrite(a)
      PROVE  CapturesKept
  BY <1>20, StepNames, ConstantsAssumption DEF FinalizeWrite, Goto, Leave, Return,
       Actors, CapturesKept, Arming, TableOK, ControlOK, Busy, table, locals
<1>21. ASSUME NEW a \in Actors, FinalizeRecord(a)
      PROVE  CapturesKept
  BY <1>21, StepNames, ConstantsAssumption DEF FinalizeRecord, Goto, Leave, Return,
       Actors, SetPcap, CapturesKept, Arming, TableOK, ControlOK, Busy, table, locals
<1>22. ASSUME NEW a \in Actors, DeleteRead(a)
      PROVE  CapturesKept
  BY <1>22, StepNames, ConstantsAssumption DEF DeleteRead, Goto, Leave, ReturnAtOnce,
       Acquire, Actors, Recorded, CapturesKept, Arming, TableOK, ControlOK, Busy, table,
       locals
<1>23. ASSUME NEW a \in Actors, DeleteAgent(a)
      PROVE  CapturesKept
  BY <1>23, StepNames, ConstantsAssumption DEF DeleteAgent, Goto, Leave, Return, Actors,
       AgentFinishes, AgentRefuses, CapturesKept, Arming, TableOK, ControlOK, Busy,
       table, locals
<1>24. ASSUME NEW a \in Actors, DeleteUnlink(a)
      PROVE  CapturesKept
  BY <1>24, StepNames, ConstantsAssumption DEF DeleteUnlink, Goto, Leave, Return,
       Actors, CapturesKept, Arming, TableOK, ControlOK, Busy, table, locals
<1>25. ASSUME NEW a \in Actors, DeleteRecord(a)
      PROVE  CapturesKept
  BY <1>25, StepNames, ConstantsAssumption DEF DeleteRecord, Goto, Leave, Return,
       Actors, SetPcap, CapturesKept, Arming, TableOK, ControlOK, Busy, table, locals
<1>26. ASSUME NEW c \in Captures, TimerFires(c)
      PROVE  CapturesKept
  BY <1>26, StepNames, ConstantsAssumption DEF TimerFires, Goto, Actors, CapturesKept,
       Arming, TableOK, ControlOK, Busy, table, locals
<1>27. ASSUME NEW r \in Rules, DeleteRule(r)
      PROVE  CapturesKept
  BY <1>27, StepNames, ConstantsAssumption DEF DeleteRule, DropRows, CapturesKept,
       Arming, TableOK, ControlOK, Busy, table, locals
<1>28. ASSUME Restart
      PROVE  CapturesKept
  BY <1>28, StepNames, ConstantsAssumption DEF Restart, Actors, CapturesKept, Arming,
       TableOK, ControlOK, Busy, table, locals
<1>. QED  BY <1>1, <1>2, <1>3, <1>4, <1>5, <1>6, <1>7, <1>8, <1>9, <1>10, <1>11, <1>12,
          <1>13, <1>14, <1>15, <1>16, <1>17, <1>18, <1>19, <1>20, <1>21, <1>22, <1>23,
          <1>24, <1>25, <1>26, <1>27, <1>28 DEF Next, DeployStep, UndeployStep,
          CaptureStep, ListStep, vars, table, request, agent, locals, listing, bounds,
          DeployRequest, DeployCheck, DeployInsert, DeployStart, WorkloadExits,
          CancelDeploy, Expire, ImportRulePackage

\* Every step keeps captures apart: the Agent gives out each id once.
LEMMA OwnStep ==
    ASSUME TypeOK, Busy, CaptureInv, OwnInv, [Next]_vars
    PROVE  OwnInv'
<1>. USE DEF TypeOK, CaptureInv
<1>1. CASE CapturesKept
  <2>1. \A b \in Actors : pc[b] \in Arming => held[b] # Nil
    BY ConstantsAssumption DEF Arming, Knows, WorldOK
  <2>. QED  BY <1>1, <2>1 DEF CapturesKept, OwnInv, Arming
<1>2. ASSUME NEW a \in Actors, StartAgent(a)
      PROVE  OwnInv'
  <2>1. ASSUME Return(a), UNCHANGED pcap, UNCHANGED capture
        PROVE  OwnInv'
    BY <2>1, StepNames DEF Return, Leave, Goto, ControlOK, OwnInv, Arming
  <2>2. ASSUME NEW c \in Captures \ issued, UNCHANGED <<capture, inst>>,
               Goto(a, "record_capture"), held' = [held EXCEPT ![a] = c]
        PROVE  OwnInv'
    <3>1. \A b \in Actors : pc[b] \in Arming => held[b] # c
      BY <2>2 DEF Arming, Knows
    <3>2. \A i \in Instances : capture[i] # c
      BY <2>2, ConstantsAssumption DEF RowCapture
    <3>3. /\ held'[a] = c /\ pc'[a] = "record_capture"
          /\ \A b \in Actors \ {a} : pc'[b] = pc[b] /\ held'[b] = held[b]
      BY <2>2 DEF Goto, ControlOK
    <3>. QED  BY <2>2, <3>1, <3>2, <3>3 DEF OwnInv, Arming
  <2>. QED  BY <2>1, <2>2, <1>2 DEF StartAgent, table
<1>3. ASSUME NEW a \in Actors, StartRecord(a)
      PROVE  OwnInv'
  <2>1. /\ pc[a] = "record_capture" /\ pc'[a] = "arm_timer" /\ UNCHANGED <<inst, held>>
        /\ \A b \in Actors \ {a} : pc'[b] = pc[b]
        /\ inst[a] \in Instances
    BY <1>3, StepNames DEF StartRecord, Goto, ControlOK, Busy, locals
  <2>2. \A i \in Instances :
           capture'[i] = IF i = inst[a] /\ Present(i) THEN held[a] ELSE capture[i]
    BY <1>3, <2>1 DEF StartRecord, SetPcap, TableOK
  <2>. QED  BY <2>1, <2>2 DEF OwnInv, Arming
<1>. QED  BY <1>1, <1>2, <1>3, CapturesStep

\* What almost every step leaves alone: rows at most end their captures, timers sleep
\* on, and who is to set one still holds the lock.
TimersKept ==
    /\ expired \subseteq expired'
    /\ \A i \in Instances : pcap'[i] = "capturing" =>
          pcap[i] = "capturing" /\ capture'[i] = capture[i]
    /\ \A b \in Actors : pc[b] = "sleep" => pc'[b] = "sleep" /\ inst'[b] = inst[b]
    /\ \A b \in Actors : pc[b] = "arm_timer" =>
          pc'[b] = "arm_timer" /\ inst'[b] = inst[b] /\ held'[b] = held[b]
    /\ \A i \in Instances : lock[i] \in Actors /\ pc[lock[i]] = "arm_timer" =>
          lock'[i] = lock[i]

\* Disconnections and restarts apart, only setting and firing a timer are different.
LEMMA TimersKeptStep ==
    ASSUME TypeOK, Busy, Locked, [Next]_vars
    PROVE  \/ TimersKept /\ UNCHANGED <<restarts, cancels>>
           \/ restarts' # 0 \/ cancels' # 0
           \/ \E a \in Actors : StartRecord(a) \/ StartTimer(a)
           \/ \E c \in Captures : TimerFires(c)
<1>. USE DEF TypeOK
<1>1. CASE UNCHANGED <<pc, inst, held, capture, pcap, lock, expired, restarts, cancels>>
  BY <1>1 DEF TimersKept
<1>2. ASSUME NEW i \in Instances, DeployRecord(i)
      PROVE  TimersKept /\ UNCHANGED <<restarts, cancels>>
  <2>1. ASSUME DropRows({i})
        PROVE  TimersKept /\ UNCHANGED <<restarts, cancels>>
    BY <2>1, <1>2, StepNames DEF DeployRecord, DropRows, Present, TimersKept, TableOK,
         locals, bounds
  <2>2. ASSUME NEW s \in {"running", "error"}, NEW w \in BOOLEAN, SetStatus(i, s, w)
        PROVE  TimersKept /\ UNCHANGED <<restarts, cancels>>
    BY <2>2, <1>2, StepNames DEF DeployRecord, SetStatus, Present, TimersKept, TableOK,
         locals, bounds
  <2>. QED  BY <2>1, <2>2, <1>2 DEF DeployRecord
<1>3. ASSUME NEW t \in Tasks,
             NEW op \in {"undeploy", "start_pcap", "delete_pcap"}, Request(t, op)
      PROVE  TimersKept /\ UNCHANGED <<restarts, cancels>>
  BY <1>3, StepNames, ConstantsAssumption DEF Request, Goto, Actors, TimersKept,
       TableOK, ControlOK, Busy, Locked, table, locals, bounds
<1>4. ASSUME NEW t \in Tasks, StopRequest(t)
      PROVE  TimersKept /\ UNCHANGED <<restarts, cancels>>
  BY <1>4, StepNames, ConstantsAssumption DEF StopRequest, Goto, Actors, TimersKept,
       TableOK, ControlOK, Busy, Locked, table, locals, bounds
<1>5. ASSUME NEW t \in Tasks, ListRequest(t)
      PROVE  TimersKept /\ UNCHANGED <<restarts, cancels>>
  BY <1>5, StepNames, ConstantsAssumption DEF ListRequest, Goto, Actors, TimersKept,
       TableOK, ControlOK, Busy, Locked, table, locals, bounds
<1>6. ASSUME NEW t \in Tasks, ListDue(t)
      PROVE  TimersKept /\ UNCHANGED <<restarts, cancels>>
  BY <1>6, StepNames, ConstantsAssumption DEF ListDue, Goto, Actors, TimersKept,
       TableOK, ControlOK, Busy, Locked, table, locals, bounds
<1>7. ASSUME NEW t \in Tasks, ListRows(t)
      PROVE  TimersKept /\ UNCHANGED <<restarts, cancels>>
  BY <1>7, StepNames, ConstantsAssumption DEF ListRows, Goto, Actors, TimersKept,
       TableOK, ControlOK, Busy, Locked, table, locals, bounds
<1>8. ASSUME NEW t \in Tasks, ListAgent(t)
      PROVE  TimersKept /\ UNCHANGED <<restarts, cancels>>
  BY <1>8, StepNames, ConstantsAssumption DEF ListAgent, Goto, Actors, TimersKept,
       TableOK, ControlOK, Busy, Locked, table, locals, bounds
<1>9. ASSUME NEW t \in Tasks, ListMark(t)
      PROVE  TimersKept /\ UNCHANGED <<restarts, cancels>>
  BY <1>9, StepNames, ConstantsAssumption DEF ListMark, Goto, Actors, SetStatus,
       TimersKept, TableOK, ControlOK, Busy, Locked, table, locals, bounds
<1>10. ASSUME NEW a \in Actors, UndeployRead(a)
      PROVE  TimersKept /\ UNCHANGED <<restarts, cancels>>
  BY <1>10, StepNames, ConstantsAssumption DEF UndeployRead, Goto, Leave, ReturnAtOnce,
       Acquire, Actors, Recorded, TimersKept, TableOK, ControlOK, Busy, Locked, table,
       locals, bounds
<1>11. ASSUME NEW a \in Actors, UndeployStop(a)
      PROVE  TimersKept /\ UNCHANGED <<restarts, cancels>>
  BY <1>11, StepNames, ConstantsAssumption DEF UndeployStop, Goto, Actors, TimersKept,
       TableOK, ControlOK, Busy, Locked, table, locals, bounds
<1>12. ASSUME NEW a \in Actors, UndeployUnlink(a)
      PROVE  TimersKept /\ UNCHANGED <<restarts, cancels>>
  BY <1>12, StepNames, ConstantsAssumption DEF UndeployUnlink, Goto, Actors, TimersKept,
       TableOK, ControlOK, Busy, Locked, table, locals, bounds
<1>13. ASSUME NEW a \in Actors, UndeployDelete(a)
      PROVE  TimersKept /\ UNCHANGED <<restarts, cancels>>
  BY <1>13, StepNames, ConstantsAssumption DEF UndeployDelete, Goto, Leave, Return,
       Actors, DropRows, TimersKept, TableOK, ControlOK, Busy, Locked, table, locals,
       bounds
<1>14. ASSUME NEW a \in Actors, UndeployFail(a)
      PROVE  TimersKept /\ UNCHANGED <<restarts, cancels>>
  BY <1>14, StepNames, ConstantsAssumption DEF UndeployFail, Goto, Leave, Return,
       Actors, SetStatus, TimersKept, TableOK, ControlOK, Busy, Locked, table, locals,
       bounds
<1>15. ASSUME NEW a \in Actors, StartRead(a)
      PROVE  TimersKept /\ UNCHANGED <<restarts, cancels>>
  BY <1>15, StepNames, ConstantsAssumption DEF StartRead, Goto, Leave, ReturnAtOnce,
       Acquire, Actors, TimersKept, TableOK, ControlOK, Busy, Locked, table, locals,
       bounds
<1>16. ASSUME NEW a \in Actors, StartAgent(a)
      PROVE  TimersKept /\ UNCHANGED <<restarts, cancels>>
  BY <1>16, StepNames, ConstantsAssumption DEF StartAgent, Listed, Goto, Leave, Return, Actors,
       TimersKept, TableOK, ControlOK, Busy, Locked, table, locals, bounds
<1>17. ASSUME NEW a \in Actors, FinalizeRead(a)
      PROVE  TimersKept /\ UNCHANGED <<restarts, cancels>>
  BY <1>17, StepNames, ConstantsAssumption DEF FinalizeRead, Goto, Leave, ReturnAtOnce,
       Acquire, Actors, NothingToFinalize, TimersKept, TableOK, ControlOK, Busy, Locked,
       table, locals, bounds
<1>18. ASSUME NEW a \in Actors, FinalizeAgent(a)
      PROVE  TimersKept /\ UNCHANGED <<restarts, cancels>>
  BY <1>18, StepNames, ConstantsAssumption DEF FinalizeAgent, Goto, Leave, Return,
       Actors, AgentFinishes, AgentRefuses, TimersKept, TableOK, ControlOK, Busy,
       Locked, table, locals, bounds
<1>19. ASSUME NEW a \in Actors, FinalizeWrite(a)
      PROVE  TimersKept /\ UNCHANGED <<restarts, cancels>>
  BY <1>19, StepNames, ConstantsAssumption DEF FinalizeWrite, Goto, Leave, Return,
       Actors, TimersKept, TableOK, ControlOK, Busy, Locked, table, locals, bounds
<1>20. ASSUME NEW a \in Actors, FinalizeRecord(a)
      PROVE  TimersKept /\ UNCHANGED <<restarts, cancels>>
  BY <1>20, StepNames, ConstantsAssumption DEF FinalizeRecord, Goto, Leave, Return,
       Actors, SetPcap, TimersKept, TableOK, ControlOK, Busy, Locked, table, locals,
       bounds
<1>21. ASSUME NEW a \in Actors, DeleteRead(a)
      PROVE  TimersKept /\ UNCHANGED <<restarts, cancels>>
  BY <1>21, StepNames, ConstantsAssumption DEF DeleteRead, Goto, Leave, ReturnAtOnce,
       Acquire, Actors, Recorded, TimersKept, TableOK, ControlOK, Busy, Locked, table,
       locals, bounds
<1>22. ASSUME NEW a \in Actors, DeleteAgent(a)
      PROVE  TimersKept /\ UNCHANGED <<restarts, cancels>>
  BY <1>22, StepNames, ConstantsAssumption DEF DeleteAgent, Goto, Leave, Return, Actors,
       AgentFinishes, AgentRefuses, TimersKept, TableOK, ControlOK, Busy, Locked, table,
       locals, bounds
<1>23. ASSUME NEW a \in Actors, DeleteUnlink(a)
      PROVE  TimersKept /\ UNCHANGED <<restarts, cancels>>
  BY <1>23, StepNames, ConstantsAssumption DEF DeleteUnlink, Goto, Leave, Return,
       Actors, TimersKept, TableOK, ControlOK, Busy, Locked, table, locals, bounds
<1>24. ASSUME NEW a \in Actors, DeleteRecord(a)
      PROVE  TimersKept /\ UNCHANGED <<restarts, cancels>>
  BY <1>24, StepNames, ConstantsAssumption DEF DeleteRecord, Goto, Leave, Return,
       Actors, SetPcap, TimersKept, TableOK, ControlOK, Busy, Locked, table, locals,
       bounds
<1>25. ASSUME NEW c \in Captures, Expire(c)
      PROVE  TimersKept /\ UNCHANGED <<restarts, cancels>>
  BY <1>25, StepNames, ConstantsAssumption DEF Expire, TimersKept, TableOK, ControlOK,
       Busy, Locked, table, locals, bounds
<1>26. ASSUME NEW r \in Rules, DeleteRule(r)
      PROVE  TimersKept /\ UNCHANGED <<restarts, cancels>>
  BY <1>26, StepNames, ConstantsAssumption DEF DeleteRule, DropRows, TimersKept,
       TableOK, ControlOK, Busy, Locked, table, locals, bounds
<1>27. ASSUME NEW t \in Tasks, Cancel(t)
      PROVE  cancels' # 0
  BY <1>27, ConstantsAssumption DEF Cancel, WorldOK
<1>28. ASSUME NEW i \in Instances, CancelDeploy(i)
      PROVE  cancels' # 0
  BY <1>28, ConstantsAssumption DEF CancelDeploy, WorldOK
<1>29. ASSUME Restart
      PROVE  restarts' # 0
  BY <1>29, ConstantsAssumption DEF Restart, WorldOK
<1>. QED  BY <1>27, <1>28, <1>29, <1>1, <1>2, <1>3, <1>4, <1>5, <1>6, <1>7, <1>8, <1>9,
          <1>10, <1>11, <1>12, <1>13, <1>14, <1>15, <1>16, <1>17, <1>18, <1>19, <1>20,
          <1>21, <1>22, <1>23, <1>24, <1>25, <1>26 DEF Next, DeployStep, UndeployStep,
          CaptureStep, ListStep, vars, table, request, agent, locals, listing, bounds,
          DeployRequest, DeployCheck, DeployInsert, DeployStart, WorkloadExits,
          ImportRulePackage

\* Every step keeps the timers of the captures in progress.
LEMMA TimedStep ==
    ASSUME TypeOK, Busy, Locked, TimersInv, CaptureInv, OwnInv, TimedInv, [Next]_vars
    PROVE  TimedInv'
<1>. USE DEF TypeOK, CaptureInv
<1>0. \A i \in Instances : pcap[i] = "capturing" => capture[i] \in Captures
  BY DEF RowCapture, WorldOK
<1>1. CASE TimersKept /\ UNCHANGED <<restarts, cancels>>
  BY <1>0, <1>1 DEF TimersKept, TimedInv, Armed, Actors
<1>2. CASE restarts' # 0 \/ cancels' # 0
  BY <1>2 DEF TimedInv
<1>3. ASSUME NEW a \in Actors, StartRecord(a)
      PROVE  TimedInv'
  <2>1. /\ pc[a] = "record_capture" /\ pc'[a] = "arm_timer"
        /\ UNCHANGED <<inst, held, lock, expired, restarts, cancels>>
        /\ \A b \in Actors \ {a} : pc'[b] = pc[b]
        /\ inst[a] \in Instances /\ lock[inst[a]] = a
    BY <1>3, StepNames DEF StartRecord, Goto, ControlOK, Busy, Locked, locals, bounds
  <2>2. \A i \in Instances \ {inst[a]} : pcap'[i] = pcap[i] /\ capture'[i] = capture[i]
    BY <1>3 DEF StartRecord, SetPcap, TableOK
  <2>3. pcap'[inst[a]] = "capturing" => capture'[inst[a]] = held[a]
    BY <1>3, <2>1 DEF StartRecord, SetPcap, TableOK, Knows
  <2>. QED  BY <1>0, <2>1, <2>2, <2>3 DEF TimedInv, Armed, Actors
<1>4. ASSUME NEW a \in Actors, StartTimer(a)
      PROVE  TimedInv'
  <2>. DEFINE c == held[a]
  <2>1. /\ pc[a] = "arm_timer" /\ inst[a] \in Instances /\ lock[inst[a]] = a
        /\ a \in Tasks /\ c \in Captures /\ a # c
    BY <1>4, StepNames, ConstantsAssumption DEF StartTimer, Busy, Locked, TimersInv,
         Ending, Actors, Knows, WorldOK
  <2>2. /\ UNCHANGED <<pcap, capture, expired, restarts, cancels>>
        /\ pc'[c] = "sleep" /\ inst'[c] = inst[a]
        /\ \A b \in Actors \ {a, c} :
              pc'[b] = pc[b] /\ inst'[b] = inst[b] /\ held'[b] = held[b]
        /\ \A i \in Instances \ {inst[a]} : lock'[i] = lock[i]
    BY <1>4, <2>1 DEF StartTimer, ControlOK, Actors, table, bounds
  <2>3. \A i \in Instances : capture[i] = c => i = inst[a]
    BY <2>1 DEF OwnInv, Arming
  <2>4. ASSUME NEW i \in Instances, pcap[i] = "capturing", Armed(i)
        PROVE  Armed(i)'
    <3>1. CASE capture[i] = c
      BY <3>1, <2>2, <2>3 DEF Armed
    <3>2. CASE capture[i] # c /\ pc[capture[i]] = "sleep" /\ inst[capture[i]] = i
      BY <3>2, <2>4, <1>0, <2>1, <2>2, ConstantsAssumption DEF Armed, Actors
    <3>3. CASE /\ lock[i] \in Actors /\ inst[lock[i]] = i /\ pc[lock[i]] = "arm_timer"
               /\ capture[i] # c /\ held[lock[i]] = capture[i]
      <4>1. lock[i] # a /\ i # inst[a]
        BY <3>3, <2>1
      <4>2. lock[i] # c
        BY <3>3, <2>1 DEF TimersInv, Ending
      <4>. QED  BY <3>3, <4>1, <4>2, <2>2 DEF Armed
    <3>. QED  BY <3>1, <3>2, <3>3, <2>4 DEF Armed
  <2>. QED  BY <2>2, <2>4 DEF TimedInv
<1>5. ASSUME NEW c \in Captures, TimerFires(c)
      PROVE  TimedInv'
  <2>1. /\ c \in expired /\ pc' = [pc EXCEPT ![c] = "finalize"] /\ pc[c] = "sleep"
        /\ UNCHANGED <<pcap, capture, expired, inst, held, lock, restarts, cancels>>
    BY <1>5 DEF TimerFires, Goto, table, locals, bounds
  <2>. QED  BY <1>0, <2>1 DEF TimedInv, Armed, ControlOK, Actors
<1>. QED  BY <1>1, <1>2, <1>3, <1>4, <1>5, TimersKeptStep

\* Until a crash or a disconnection, every capture in progress that is not overdue has
\* a sleeping timer for its own instance.
THEOREM CapturesHaveTimers == Spec => []CaptureHasTimer
<1>1. Init => TimersInv /\ NamelessInv /\ CaptureInv /\ OwnInv /\ TimedInv
  BY ConstantsAssumption DEF Init, TimersInv, NamelessInv, CaptureInv, RowCapture, Knows, Past,
       OwnInv, Arming, TimedInv, Actors
<1>2. TypeOK /\ Busy /\ DeployInv /\ Locked /\ TimersInv /\ NamelessInv /\ CaptureInv
          /\ OwnInv /\ TimedInv /\ [Next]_vars
        => TimersInv' /\ NamelessInv' /\ CaptureInv' /\ OwnInv' /\ TimedInv'
  BY TimersStep, NamelessStep, RowCaptureStep, KnowsStep, OwnStep, TimedStep DEF CaptureInv
<1>3. TypeOK /\ TimedInv => CaptureHasTimer
  BY ConstantsAssumption DEF TimedInv, Armed, CaptureHasTimer, Actors
<1>. QED  BY <1>1, <1>2, <1>3, LockedCorrect, PTL DEF Spec
===============================================================================
