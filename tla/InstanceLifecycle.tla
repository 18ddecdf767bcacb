--------------------------- MODULE InstanceLifecycle ---------------------------
(***************************************************************************)
(* The suite API server: deployment, undeployment, packet capture and      *)
(* reconciliation of simulation instances (protocol-simulation/src/        *)
(* routes.rs, db.rs, pcap.rs, lib.rs), the SQLite rows and the capture     *)
(* files they keep, and the node Agent that owns the workloads.            *)
(*                                                                         *)
(* One step is the code between two awaits whose order matters: a database *)
(* statement or transaction, an Agent request, a file operation.           *)
(***************************************************************************)
EXTENDS Naturals

CONSTANTS
    Instances,   \* one per deploy request: the id is a fresh UUID
    Rules,       \* rule ids
    Packaged,    \* the rules whose id starts with sim-rule-
    Ports,       \* (transport, host port) pairs
    Captures,    \* capture ids the Agent may hand out; each has one timer
    Tasks,       \* HTTP handlers in flight at a time
    Nil,         \* no capture, no instance, no lock owner
    Ops,         \* the requests clients send in this model
    Faults,      \* the failures that may happen in this model
    MaxRestarts, \* bound: restarts of the server
    MaxCancels   \* bound: handlers dropped because the client went away

ASSUME ConstantsAssumption ==
    /\ Nil \notin Instances \cup Captures \cup Tasks
    /\ Captures \cap Tasks = {}
    /\ Packaged \subseteq Rules
    /\ MaxRestarts \in Nat /\ MaxCancels \in Nat

\* A handler is a task; the timer of capture c is the actor c.
Actors == Tasks \cup Captures

VARIABLES
    rules,                        \* table rules
    status, wid,                  \* table instances: status, workload_id set?
    pcap, capture, path,          \*   pcap_status, pcap_capture_id, pcap_file_path set?
    rule, ports,                  \*   rule_id, the endpoints (fixed by the request)
    disk,                         \* capture whose bytes are in pcap_<id>.pcap
    live, active, issued,         \* Agent: workloads, unfinished captures, ids given out
    unnamed,                      \*   workloads started without an answer that has their id
    expired,                      \* captures started 300 s ago or more
    dpc, fresh,                   \* deploy handler, its read snapshot is current
    pc, inst, expect, held, saw,  \* other handlers and timers
    due, rows,                    \* list handlers: captures to end, rows to compare
    lock,                         \* owner of the instance's lifecycle lock
    restarts, cancels

table   == <<status, wid, pcap, capture, path>>
request == <<rule, ports>>
agent   == <<live, active, issued, unnamed>>
locals  == <<inst, expect, held, saw>>
listing == <<due, rows>>
bounds  == <<restarts, cancels>>
vars == <<rules, table, request, disk, agent, expired, dpc, fresh, pc, locals,
          listing, lock, bounds>>

ActiveStatus == {"deploying", "running"}
Waiting  == {"undeploy", "start_pcap", "finalize", "delete_pcap"}
Critical == {"stop_workload", "unlink", "delete_row", "mark_error",
             "agent_start", "record_capture", "arm_timer",
             "agent_finish", "write_file", "record_ready", "record_idle",
             "abort_capture", "unlink_capture", "record_clear"}
Listing  == {"list_due", "list_rows", "list_agent", "list_mark"}
Starting == {"start", "record_running", "record_port", "record_error"}

Steps    == {"idle", "sleep"} \cup Waiting \cup Critical \cup Listing

TableOK ==
    /\ status \in [Instances -> {"absent", "deploying", "running", "error", "inactive"}]
    /\ wid \in [Instances -> BOOLEAN]
    /\ pcap \in [Instances -> {"idle", "capturing", "ready"}]
    /\ capture \in [Instances -> Captures \cup {Nil}]
    /\ path \in [Instances -> BOOLEAN]
    /\ fresh \in [Instances -> BOOLEAN]

WorldOK ==
    /\ rules \subseteq Rules
    /\ rule \in [Instances -> Rules \cup {Nil}]
    /\ ports \in [Instances -> SUBSET Ports]
    /\ dpc \in [Instances -> {"new", "reserve", "insert", "done"} \cup Starting]
    /\ disk \in [Instances -> Captures \cup {Nil}]
    /\ live \in [Instances -> BOOLEAN]
    /\ active \in [Instances -> SUBSET Captures]
    /\ issued \subseteq Captures
    /\ unnamed \subseteq Instances
    /\ expired \subseteq Captures
    /\ restarts \in 0..MaxRestarts
    /\ cancels \in 0..MaxCancels

ControlOK ==
    /\ pc \in [Actors -> Steps]
    /\ inst \in [Actors -> Instances \cup {Nil}]
    /\ expect \in [Actors -> Captures \cup {Nil}]
    /\ held \in [Actors -> Captures \cup {Nil}]
    /\ saw \in [Actors -> SUBSET {"workload", "file"}]
    /\ due \in [Tasks -> SUBSET (Instances \X Captures)]
    /\ rows \in [Tasks -> SUBSET Instances]
    /\ lock \in [Instances -> Actors \cup {Nil}]

TypeOK == TableOK /\ WorldOK /\ ControlOK

Init ==
    /\ rules = Rules
    /\ status = [i \in Instances |-> "absent"]
    /\ wid = [i \in Instances |-> FALSE]
    /\ pcap = [i \in Instances |-> "idle"]
    /\ capture = [i \in Instances |-> Nil]
    /\ path = [i \in Instances |-> FALSE]
    /\ rule = [i \in Instances |-> Nil]
    /\ ports = [i \in Instances |-> {}]
    /\ disk = [i \in Instances |-> Nil]
    /\ live = [i \in Instances |-> FALSE]
    /\ active = [i \in Instances |-> {}]
    /\ issued = {}
    /\ unnamed = {}
    /\ expired = {}
    /\ dpc = [i \in Instances |-> "new"]
    /\ fresh = [i \in Instances |-> FALSE]
    /\ pc = [a \in Actors |-> "idle"]
    /\ inst = [a \in Actors |-> Nil]
    /\ expect = [a \in Actors |-> Nil]
    /\ held = [a \in Actors |-> Nil]
    /\ saw = [a \in Actors |-> {}]
    /\ due = [t \in Tasks |-> {}]
    /\ rows = [t \in Tasks |-> {}]
    /\ lock = [i \in Instances |-> Nil]
    /\ restarts = 0
    /\ cancels = 0

-------------------------------------------------------------------------------
(* Database. *)

Present(i) == status[i] # "absent"

\* A write that changes something makes the read snapshot of every open transaction
\* stale: SQLite (WAL) refuses to let such a transaction write.
Commit(changed) == fresh' = [i \in Instances |-> fresh[i] /\ ~changed]

\* DELETE FROM instances; the endpoints go with the row.
DropRows(gone) ==
    /\ status'  = [i \in Instances |-> IF i \in gone THEN "absent" ELSE status[i]]
    /\ wid'     = [i \in Instances |-> IF i \in gone THEN FALSE ELSE wid[i]]
    /\ pcap'    = [i \in Instances |-> IF i \in gone THEN "idle" ELSE pcap[i]]
    /\ capture' = [i \in Instances |-> IF i \in gone THEN Nil ELSE capture[i]]
    /\ path'    = [i \in Instances |-> IF i \in gone THEN FALSE ELSE path[i]]

\* update_instance_status: COALESCE keeps a recorded workload id; a row that is
\* gone is not updated.
SetStatus(i, s, hasWorkload) ==
    /\ IF Present(i)
       THEN /\ status' = [status EXCEPT ![i] = s]
            /\ wid' = [wid EXCEPT ![i] = wid[i] \/ hasWorkload]
       ELSE UNCHANGED <<status, wid>>
    /\ UNCHANGED <<pcap, capture, path>>
    /\ Commit(Present(i))

\* update_pcap_state: all the capture columns are written.
SetPcap(i, s, c, hasFile) ==
    /\ IF Present(i)
       THEN /\ pcap' = [pcap EXCEPT ![i] = s]
            /\ capture' = [capture EXCEPT ![i] = c]
            /\ path' = [path EXCEPT ![i] = hasFile]
       ELSE UNCHANGED <<pcap, capture, path>>
    /\ UNCHANGED <<status, wid>>
    /\ Commit(Present(i))

PortTaken(i) ==
    \E j \in Instances : status[j] \in ActiveStatus /\ ports[j] \cap ports[i] # {}

-------------------------------------------------------------------------------
(* Control of handlers and timers. *)

Goto(a, step) == pc' = [pc EXCEPT ![a] = step]

\* The handler ends. finalize_pcap_capture called by a list returns to the list.
Leave(a) ==
    /\ Goto(a, IF a \in Tasks /\ expect[a] # Nil THEN "list_due" ELSE "idle")
    /\ inst' = [inst EXCEPT ![a] = Nil]
    /\ expect' = [expect EXCEPT ![a] = Nil]
    /\ held' = [held EXCEPT ![a] = Nil]
    /\ saw' = [saw EXCEPT ![a] = {}]

\* The guard of the lifecycle lock is dropped when the handler returns.
Return(a) == Leave(a) /\ lock' = [lock EXCEPT ![inst[a]] = Nil]

\* lock(&id).await; the lock is free, and taken by a handler that goes on.
Acquire(a) == lock[inst[a]] = Nil /\ lock' = [lock EXCEPT ![inst[a]] = a]

\* The lock is taken, the row says there is nothing to do, the lock is dropped.
ReturnAtOnce(a) == lock[inst[a]] = Nil /\ Leave(a) /\ UNCHANGED lock

Fault(f) == f \in Faults

-------------------------------------------------------------------------------
(* deploy_instance: takes no lifecycle lock. *)

\* The rule is read and the bindings are validated.
DeployRequest(i) ==
    /\ "deploy" \in Ops
    /\ dpc[i] = "new"
    /\ \E r \in rules, ps \in SUBSET Ports \ {{}} :
          /\ rule' = [rule EXCEPT ![i] = r]
          /\ ports' = [ports EXCEPT ![i] = ps]
    /\ dpc' = [dpc EXCEPT ![i] = "reserve"]
    /\ UNCHANGED <<rules, table, disk, agent, expired, fresh, pc, locals, listing,
                   lock, bounds>>

\* The SELECTs of insert_instance_if_port_available open the read snapshot.
DeployCheck(i) ==
    /\ dpc[i] = "reserve"
    /\ dpc' = [dpc EXCEPT ![i] = IF PortTaken(i) THEN "done" ELSE "insert"]
    /\ fresh' = [fresh EXCEPT ![i] = ~PortTaken(i)]
    /\ UNCHANGED <<rules, table, request, disk, agent, expired, pc, locals, listing,
                   lock, bounds>>

\* Mutant: the check is not part of the transaction that inserts.
DeployInsertOnStaleCheck(i) ==
    /\ dpc[i] = "insert"
    /\ dpc' = [dpc EXCEPT ![i] = IF rule[i] \in rules THEN "start" ELSE "done"]
    /\ status' = [status EXCEPT ![i] = IF rule[i] \in rules THEN "deploying" ELSE @]
    /\ UNCHANGED <<rules, wid, pcap, capture, path, request, disk, agent, expired, fresh,
                   pc, locals, listing, lock, bounds>>

\* The INSERTs and the commit: they fail on a stale snapshot, on a rule that is
\* gone (foreign key), and when the audit log was written meanwhile.
DeployInsert(i) ==
    /\ dpc[i] = "insert"
    /\ \/ /\ fresh[i] /\ rule[i] \in rules
          /\ status' = [status EXCEPT ![i] = "deploying"]
          /\ dpc' = [dpc EXCEPT ![i] = "start"]
          /\ Commit(TRUE)
       \/ /\ dpc' = [dpc EXCEPT ![i] = "done"]
          /\ fresh' = [fresh EXCEPT ![i] = FALSE]
          /\ UNCHANGED status
    /\ UNCHANGED <<rules, wid, pcap, capture, path, request, disk, agent, expired, pc,
                   locals, listing, lock, bounds>>

\* agent.start_workload. The Agent never binds a host port twice; an error may
\* hide a workload that did start, and a success may come without its id.
DeployStart(i) ==
    /\ dpc[i] = "start"
    /\ LET portsFree == \A j \in Instances : live[j] => ports[j] \cap ports[i] = {}
       IN  \/ /\ portsFree
              /\ live' = [live EXCEPT ![i] = TRUE]
              /\ \/ UNCHANGED unnamed
                 \/ Fault("unnamed") /\ unnamed' = unnamed \cup {i}
              /\ dpc' = [dpc EXCEPT ![i] = "record_running"]
           \/ /\ ~portsFree \/ Fault("port_unavailable")
              /\ dpc' = [dpc EXCEPT ![i] = "record_port"]
              /\ UNCHANGED <<live, unnamed>>
           \/ /\ Fault("reject")
              /\ dpc' = [dpc EXCEPT ![i] = "record_error"]
              /\ UNCHANGED <<live, unnamed>>
           \/ /\ Fault("lost") /\ portsFree
              /\ live' = [live EXCEPT ![i] = TRUE]
              /\ dpc' = [dpc EXCEPT ![i] = "record_error"]
              /\ UNCHANGED unnamed
    /\ UNCHANGED <<rules, table, request, disk, active, issued, expired, fresh, pc,
                   locals, listing, lock, bounds>>

\* The row gets the workload id of the answer or, without one, the made-up
\* workload-<id>, which the Agent does not know.
DeployRecord(i) ==
    /\ \/ dpc[i] = "record_running" /\ SetStatus(i, "running", TRUE)
       \/ dpc[i] = "record_port" /\ DropRows({i}) /\ Commit(Present(i))
       \/ dpc[i] = "record_error" /\ SetStatus(i, "error", FALSE)
    /\ dpc' = [dpc EXCEPT ![i] = "done"]
    /\ UNCHANGED <<rules, request, disk, agent, expired, pc, locals, listing, lock, bounds>>

\* The Agent knows the workload by the id that a row of instance i has.
Listed(i) == live[i] /\ i \notin unnamed

DeployStep(i) == DeployCheck(i) \/ DeployInsert(i) \/ DeployStart(i) \/ DeployRecord(i)

-------------------------------------------------------------------------------
(* undeploy_instance *)

\* A request for one instance arrives and goes to wait for the lifecycle lock.
Request(t, op) ==
    /\ t \in Tasks /\ pc[t] = "idle" /\ op \in Ops
    /\ \E i \in Instances : Present(i) /\ inst' = [inst EXCEPT ![t] = i]
    /\ Goto(t, op)
    /\ UNCHANGED <<rules, table, request, disk, agent, expired, dpc, fresh, expect,
                   held, saw, listing, lock, bounds>>

\* What the row read under the lock has recorded.
Recorded(i) == (IF wid[i] THEN {"workload"} ELSE {}) \cup (IF path[i] THEN {"file"} ELSE {})

UndeployRead(a) ==
    /\ pc[a] = "undeploy"
    /\ LET i == inst[a] IN
       \/ ~Present(i) /\ ReturnAtOnce(a)
       \/ /\ Present(i) /\ Acquire(a)
          /\ saw' = [saw EXCEPT ![a] = Recorded(i)]
          /\ Goto(a, IF wid[i] THEN "stop_workload" ELSE "unlink")
          /\ UNCHANGED <<inst, expect, held>>
    /\ UNCHANGED <<rules, table, request, disk, agent, expired, dpc, fresh, listing, bounds>>

\* Mutant: a failed stop is logged and the undeployment goes on.
UndeployStopIgnoringErrors(a) ==
    /\ pc[a] = "stop_workload"
    /\ Goto(a, "unlink")
    /\ \/ /\ live' = [live EXCEPT ![inst[a]] = FALSE]
          /\ active' = [active EXCEPT ![inst[a]] = {}]
       \/ Fault("reject") /\ UNCHANGED <<live, active>>
    /\ UNCHANGED <<rules, table, request, disk, issued, unnamed, expired, dpc, fresh,
                   locals, listing, lock, bounds>>

\* agent.stop_workload ends the workload and its captures; a made-up id reaches none,
\* whatever the Agent answers.
UndeployStop(a) ==
    /\ pc[a] = "stop_workload"
    /\ \/ /\ inst[a] \notin unnamed
          /\ \/ Goto(a, "unlink")
             \/ Fault("lost") /\ Goto(a, "mark_error")
          /\ live' = [live EXCEPT ![inst[a]] = FALSE]
          /\ active' = [active EXCEPT ![inst[a]] = {}]
       \/ /\ inst[a] \in unnamed /\ (Goto(a, "unlink") \/ Goto(a, "mark_error"))
          /\ UNCHANGED <<live, active>>
       \/ /\ Fault("reject") /\ Goto(a, "mark_error")
          /\ UNCHANGED <<live, active>>
    /\ UNCHANGED <<rules, table, request, disk, issued, unnamed, expired, dpc, fresh,
                   locals, listing, lock, bounds>>

\* pcap::remove_capture_file: no recorded path, nothing to remove; a file that is
\* not there is not an error.
UndeployUnlink(a) ==
    /\ pc[a] = "unlink"
    /\ \/ "file" \notin saw[a] /\ Goto(a, "delete_row") /\ UNCHANGED disk
       \/ /\ "file" \in saw[a] /\ Goto(a, "delete_row")
          /\ disk' = [disk EXCEPT ![inst[a]] = Nil]
       \/ /\ "file" \in saw[a] /\ Fault("disk") /\ Goto(a, "mark_error")
          /\ UNCHANGED disk
    /\ UNCHANGED <<rules, table, request, agent, expired, dpc, fresh, locals, listing,
                   lock, bounds>>

UndeployDelete(a) ==
    /\ pc[a] = "delete_row"
    /\ DropRows({inst[a]}) /\ Commit(Present(inst[a]))
    /\ Return(a)
    /\ UNCHANGED <<rules, request, disk, agent, expired, dpc, listing, bounds>>

\* Mutant: a status the rest of the code does not know.
UndeployFailUnknownStatus(a) ==
    /\ pc[a] = "mark_error"
    /\ SetStatus(inst[a], "undeploy_failed", "workload" \in saw[a])
    /\ Return(a)
    /\ UNCHANGED <<rules, request, disk, agent, expired, dpc, listing, bounds>>

\* The row stays, in error, so that the undeployment can be tried again.
UndeployFail(a) ==
    /\ pc[a] = "mark_error"
    /\ SetStatus(inst[a], "error", "workload" \in saw[a])
    /\ Return(a)
    /\ UNCHANGED <<rules, request, disk, agent, expired, dpc, listing, bounds>>

-------------------------------------------------------------------------------
(* start_pcap *)

StartRead(a) ==
    /\ pc[a] = "start_pcap"
    /\ LET i == inst[a] IN
       \/ /\ status[i] # "running" \/ pcap[i] = "capturing" \/ ~wid[i]
          /\ ReturnAtOnce(a)
       \/ /\ status[i] = "running" /\ pcap[i] # "capturing" /\ wid[i]
          /\ Acquire(a) /\ Goto(a, "agent_start")
          /\ UNCHANGED locals
    /\ UNCHANGED <<rules, table, request, disk, agent, expired, dpc, fresh, listing, bounds>>

\* agent.start_pcap: the Agent gives out a new capture id for a workload it knows.
StartAgent(a) ==
    /\ pc[a] = "agent_start"
    /\ \/ /\ Listed(inst[a])
          /\ \E c \in Captures \ issued :
                /\ issued' = issued \cup {c}
                /\ active' = [active EXCEPT ![inst[a]] = @ \cup {c}]
                /\ \/ /\ Goto(a, "record_capture")
                      /\ held' = [held EXCEPT ![a] = c]
                      /\ UNCHANGED <<inst, expect, saw, lock>>
                   \/ Fault("lost") /\ Return(a)
       \/ /\ ~Listed(inst[a]) \/ Captures \subseteq issued \/ Fault("reject")
          /\ Return(a)
          /\ UNCHANGED <<issued, active>>
    /\ UNCHANGED <<rules, table, request, disk, live, unnamed, expired, dpc, fresh, listing,
                   bounds>>

StartRecord(a) ==
    /\ pc[a] = "record_capture"
    /\ SetPcap(inst[a], "capturing", held[a], FALSE)
    /\ Goto(a, "arm_timer")
    /\ UNCHANGED <<rules, request, disk, agent, expired, dpc, locals, listing, lock, bounds>>

\* schedule_pcap_auto_stop spawns the timer of the capture; the handler returns.
StartTimer(a) ==
    /\ pc[a] = "arm_timer"
    /\ LET c == held[a] IN
       /\ pc'     = [pc EXCEPT ![a] = "idle", ![c] = "sleep"]
       /\ inst'   = [inst EXCEPT ![a] = Nil, ![c] = inst[a]]
       /\ expect' = [expect EXCEPT ![c] = c]
       /\ held'   = [held EXCEPT ![a] = Nil]
    /\ lock' = [lock EXCEPT ![inst[a]] = Nil]
    /\ UNCHANGED <<rules, table, request, disk, agent, expired, dpc, fresh, saw, listing,
                   bounds>>

-------------------------------------------------------------------------------
(* stop_pcap, auto_stop_pcap and finalize_pcap_capture *)

\* stop_pcap reads the row without the lock and finalizes whatever capture the
\* row has once the lock is taken.
StopRequest(t) ==
    /\ "stop_pcap" \in Ops /\ pc[t] = "idle"
    /\ \E i \in Instances : pcap[i] = "capturing" /\ inst' = [inst EXCEPT ![t] = i]
    /\ Goto(t, "finalize")
    /\ UNCHANGED <<rules, table, request, disk, agent, expired, dpc, fresh, expect,
                   held, saw, listing, lock, bounds>>

\* Mutant: the timer does not wait for the deadline.
TimerFiresEarly(c) ==
    /\ pc[c] = "sleep"
    /\ Goto(c, "finalize")
    /\ UNCHANGED <<rules, table, request, disk, agent, expired, dpc, fresh, locals,
                   listing, lock, bounds>>

\* The timer of capture c reaches its deadline.
TimerFires(c) ==
    /\ pc[c] = "sleep" /\ c \in expired
    /\ Goto(c, "finalize")
    /\ UNCHANGED <<rules, table, request, disk, agent, expired, dpc, fresh, locals,
                   listing, lock, bounds>>

\* Mutant: the expected capture id is not compared.
NothingToFinalizeAnyCapture(a) == pcap[inst[a]] # "capturing" \/ ~wid[inst[a]]

\* Nothing to end: no capture in progress, or not the expected one.
NothingToFinalize(a) ==
    LET i == inst[a] IN
    \/ pcap[i] # "capturing"
    \/ expect[a] # Nil /\ capture[i] # expect[a]
    \/ ~wid[i]

\* Mutant: the lock is not released when there is nothing to end.
FinalizeReadKeepingLock(a) ==
    /\ pc[a] = "finalize"
    /\ lock[inst[a]] = Nil /\ lock' = [lock EXCEPT ![inst[a]] = a]
    /\ IF NothingToFinalize(a)
       THEN Leave(a)
       ELSE /\ Goto(a, "agent_finish")
            /\ held' = [held EXCEPT ![a] = capture[inst[a]]]
            /\ UNCHANGED <<inst, expect, saw>>
    /\ UNCHANGED <<rules, table, request, disk, agent, expired, dpc, fresh, listing, bounds>>

FinalizeRead(a) ==
    /\ pc[a] = "finalize"
    /\ \/ NothingToFinalize(a) /\ ReturnAtOnce(a)
       \/ /\ ~NothingToFinalize(a)
          /\ Acquire(a) /\ Goto(a, "agent_finish")
          /\ held' = [held EXCEPT ![a] = capture[inst[a]]]
          /\ UNCHANGED <<inst, expect, saw>>
    /\ UNCHANGED <<rules, table, request, disk, agent, expired, dpc, fresh, listing, bounds>>

\* agent.stop_pcap ends a capture and hands its bytes over, at most once.
AgentFinishes(a) ==
    /\ held[a] \in active[inst[a]]
    /\ active' = [active EXCEPT ![inst[a]] = @ \ {held[a]}]

AgentRefuses(a) ==
    /\ held[a] \notin active[inst[a]] \/ Fault("reject")
    /\ UNCHANGED active

FinalizeAgent(a) ==
    /\ pc[a] = "agent_finish"
    /\ \/ /\ AgentFinishes(a)
          /\ \E empty \in BOOLEAN : Goto(a, IF empty THEN "record_idle" ELSE "write_file")
          /\ UNCHANGED <<locals, lock>>
       \/ /\ \/ AgentRefuses(a)
             \/ Fault("lost") /\ AgentFinishes(a)
          /\ Return(a)
    /\ UNCHANGED <<rules, table, request, disk, live, issued, unnamed, expired, dpc,
                   fresh, listing, bounds>>

\* Mutant: an error of the write is ignored.
FinalizeWriteIgnoringErrors(a) ==
    /\ pc[a] = "write_file"
    /\ \/ disk' = [disk EXCEPT ![inst[a]] = held[a]]
       \/ Fault("disk") /\ UNCHANGED disk
    /\ Goto(a, "record_ready")
    /\ UNCHANGED <<rules, table, request, agent, expired, dpc, fresh, locals, lock, listing,
                   bounds>>

\* tokio::fs::write replaces the instance's file; a failure may come after.
FinalizeWrite(a) ==
    /\ pc[a] = "write_file"
    /\ \/ /\ disk' = [disk EXCEPT ![inst[a]] = held[a]]
          /\ \/ Goto(a, "record_ready") /\ UNCHANGED <<locals, lock>>
             \/ Fault("disk") /\ Return(a)
       \/ Fault("disk") /\ Return(a) /\ UNCHANGED disk
    /\ UNCHANGED <<rules, table, request, agent, expired, dpc, fresh, listing, bounds>>

FinalizeRecord(a) ==
    /\ \/ pc[a] = "record_ready" /\ SetPcap(inst[a], "ready", Nil, TRUE)
       \/ pc[a] = "record_idle" /\ SetPcap(inst[a], "idle", Nil, FALSE)
    /\ Return(a)
    /\ UNCHANGED <<rules, request, disk, agent, expired, dpc, listing, bounds>>

-------------------------------------------------------------------------------
(* delete_pcap *)

\* Mutant: a capture in progress is not ended before the row forgets it.
DeleteReadWithoutAbort(a) ==
    /\ pc[a] = "delete_pcap"
    /\ \/ ~Present(inst[a]) /\ ReturnAtOnce(a)
       \/ /\ Present(inst[a]) /\ Acquire(a)
          /\ saw' = [saw EXCEPT ![a] = Recorded(inst[a])]
          /\ Goto(a, "unlink_capture")
          /\ UNCHANGED <<inst, expect, held>>
    /\ UNCHANGED <<rules, table, request, disk, agent, expired, dpc, fresh, listing, bounds>>

DeleteRead(a) ==
    /\ pc[a] = "delete_pcap"
    /\ LET i == inst[a]
           capturing == pcap[i] = "capturing" /\ wid[i] /\ capture[i] # Nil
       IN  \/ ~Present(i) /\ ReturnAtOnce(a)
           \/ /\ Present(i) /\ Acquire(a)
              /\ saw' = [saw EXCEPT ![a] = Recorded(i)]
              /\ held' = [held EXCEPT ![a] = capture[i]]
              /\ Goto(a, IF capturing THEN "abort_capture" ELSE "unlink_capture")
              /\ UNCHANGED <<inst, expect>>
    /\ UNCHANGED <<rules, table, request, disk, agent, expired, dpc, fresh, listing, bounds>>

DeleteAgent(a) ==
    /\ pc[a] = "abort_capture"
    /\ \/ AgentFinishes(a) /\ Goto(a, "unlink_capture") /\ UNCHANGED <<locals, lock>>
       \/ /\ \/ AgentRefuses(a)
             \/ Fault("lost") /\ AgentFinishes(a)
          /\ Return(a)
    /\ UNCHANGED <<rules, table, request, disk, live, issued, unnamed, expired, dpc,
                   fresh, listing, bounds>>

DeleteUnlink(a) ==
    /\ pc[a] = "unlink_capture"
    /\ \/ /\ disk' = [disk EXCEPT ![inst[a]] = IF "file" \in saw[a] THEN Nil ELSE @]
          /\ Goto(a, "record_clear")
          /\ UNCHANGED <<locals, lock>>
       \/ /\ "file" \in saw[a] /\ Fault("disk") /\ Return(a)
          /\ UNCHANGED disk
    /\ UNCHANGED <<rules, table, request, agent, expired, dpc, fresh, listing, bounds>>

DeleteRecord(a) ==
    /\ pc[a] = "record_clear"
    /\ SetPcap(inst[a], "idle", Nil, FALSE)
    /\ Return(a)
    /\ UNCHANGED <<rules, request, disk, agent, expired, dpc, listing, bounds>>

-------------------------------------------------------------------------------
(* list_instances: finalize_expired_pcap_captures, then                    *)
(* reconcile_instances_with_agent.                                         *)

\* Mutant: the list does not look for overdue captures.
NoOverdue == {}

\* The captures that the rows say are past their deadline.
Overdue == {d \in Instances \X Captures :
               pcap[d[1]] = "capturing" /\ capture[d[1]] = d[2] /\ d[2] \in expired}

ListRequest(t) ==
    /\ "list" \in Ops /\ pc[t] = "idle"
    /\ due' = [due EXCEPT ![t] = Overdue]
    /\ Goto(t, "list_due")
    /\ UNCHANGED <<rules, table, request, disk, agent, expired, dpc, fresh, locals, rows,
                   lock, bounds>>

\* The overdue captures are ended one after the other, then the list goes on.
ListDue(t) ==
    /\ t \in Tasks /\ pc[t] = "list_due"
    /\ \/ \E d \in due[t] :
             /\ due' = [due EXCEPT ![t] = @ \ {d}]
             /\ inst' = [inst EXCEPT ![t] = d[1]]
             /\ expect' = [expect EXCEPT ![t] = d[2]]
             /\ Goto(t, "finalize")
       \/ due[t] = {} /\ Goto(t, "list_rows") /\ UNCHANGED <<due, inst, expect>>
    /\ UNCHANGED <<rules, table, request, disk, agent, expired, dpc, fresh, held, saw,
                   rows, lock, bounds>>

\* Mutant: a row without a workload id counts as one whose workload is missing.
CandidatesWithoutWorkload == {i \in Instances : status[i] \in ActiveStatus}

\* The rows a missing workload could make inactive.
Candidates == {i \in Instances : status[i] \in ActiveStatus /\ wid[i]}

ListRows(t) ==
    /\ t \in Tasks /\ pc[t] = "list_rows"
    /\ rows' = [rows EXCEPT ![t] = Candidates]
    /\ Goto(t, "list_agent")
    /\ UNCHANGED <<rules, table, request, disk, agent, expired, dpc, fresh, locals, due,
                   lock, bounds>>

\* agent.list_workloads; without an answer the rows are left as they are.
ListAgent(t) ==
    /\ t \in Tasks /\ pc[t] = "list_agent"
    /\ \/ /\ rows' = [rows EXCEPT ![t] = {i \in @ : ~Listed(i)}]
          /\ Goto(t, "list_mark")
       \/ /\ Fault("reject")
          /\ rows' = [rows EXCEPT ![t] = {}]
          /\ Goto(t, "idle")
    /\ UNCHANGED <<rules, table, request, disk, agent, expired, dpc, fresh, locals, due,
                   lock, bounds>>

\* The rows of lost workloads become inactive, one UPDATE each, without the lock.
ListMark(t) ==
    /\ t \in Tasks /\ pc[t] = "list_mark"
    /\ \/ \E i \in rows[t] :
             /\ SetStatus(i, "inactive", FALSE)
             /\ rows' = [rows EXCEPT ![t] = @ \ {i}]
             /\ UNCHANGED pc
       \/ rows[t] = {} /\ Goto(t, "idle") /\ UNCHANGED <<table, fresh, rows>>
    /\ UNCHANGED <<rules, request, disk, agent, expired, dpc, locals, due, lock, bounds>>

-------------------------------------------------------------------------------
(* Rules: delete_rule and import_rule_package, one transaction each. *)

\* ON DELETE CASCADE takes the instances of the rule with it.
DeleteRule(r) ==
    /\ "delete_rule" \in Ops /\ r \in rules
    /\ rules' = rules \ {r}
    /\ DropRows({i \in Instances : Present(i) /\ rule[i] = r})
    /\ Commit(TRUE)
    /\ UNCHANGED <<request, disk, agent, expired, dpc, pc, locals, listing, lock, bounds>>

\* The package's rules are upserted; a packaged rule that is no longer in it goes
\* unless an instance still has it.
ImportRulePackage(package) ==
    /\ "import" \in Ops
    /\ rules' = package \cup (rules \ Packaged)
                  \cup {r \in rules : \E i \in Instances : Present(i) /\ rule[i] = r}
    /\ Commit(TRUE)
    /\ UNCHANGED <<table, request, disk, agent, expired, dpc, pc, locals, listing, lock,
                   bounds>>

-------------------------------------------------------------------------------
(* The environment: time, the node, clients that leave, restarts. *)

\* Five minutes have passed since the capture started.
Expire(c) ==
    /\ c \in issued \ expired
    /\ expired' = expired \cup {c}
    /\ UNCHANGED <<rules, table, request, disk, agent, dpc, fresh, pc, locals, listing,
                   lock, bounds>>

\* A container ends by itself.
WorkloadExits(i) ==
    /\ Fault("exit") /\ live[i]
    /\ live' = [live EXCEPT ![i] = FALSE]
    /\ UNCHANGED <<rules, table, request, disk, active, issued, unnamed, expired, dpc,
                   fresh, pc, locals, listing, lock, bounds>>

\* The client disconnects: the handler's future is dropped where it waits, and
\* with it the guard of the lock. A spawned timer is not a handler.
Cancel(t) ==
    /\ cancels < MaxCancels /\ pc[t] # "idle"
    /\ cancels' = cancels + 1
    /\ pc' = [pc EXCEPT ![t] = "idle"]
    /\ inst' = [inst EXCEPT ![t] = Nil]
    /\ expect' = [expect EXCEPT ![t] = Nil]
    /\ held' = [held EXCEPT ![t] = Nil]
    /\ saw' = [saw EXCEPT ![t] = {}]
    /\ due' = [due EXCEPT ![t] = {}]
    /\ rows' = [rows EXCEPT ![t] = {}]
    /\ lock' = [i \in Instances |-> IF lock[i] = t THEN Nil ELSE lock[i]]
    /\ UNCHANGED <<rules, table, request, disk, agent, expired, dpc, fresh, restarts>>

CancelDeploy(i) ==
    /\ cancels < MaxCancels /\ dpc[i] \notin {"new", "done"}
    /\ cancels' = cancels + 1
    /\ dpc' = [dpc EXCEPT ![i] = "done"]
    /\ fresh' = [fresh EXCEPT ![i] = FALSE]
    /\ UNCHANGED <<rules, table, request, disk, agent, expired, pc, locals, listing, lock,
                   restarts>>

\* The server process dies and AppState::initialize runs: handlers, timers and
\* locks are gone, rows and files stay, files no row refers to are removed.
Restart ==
    /\ restarts < MaxRestarts
    /\ restarts' = restarts + 1
    /\ dpc' = [i \in Instances |-> IF dpc[i] = "new" THEN "new" ELSE "done"]
    /\ fresh' = [i \in Instances |-> FALSE]
    /\ pc' = [a \in Actors |-> "idle"]
    /\ inst' = [a \in Actors |-> Nil]
    /\ expect' = [a \in Actors |-> Nil]
    /\ held' = [a \in Actors |-> Nil]
    /\ saw' = [a \in Actors |-> {}]
    /\ due' = [t \in Tasks |-> {}]
    /\ rows' = [t \in Tasks |-> {}]
    /\ lock' = [i \in Instances |-> Nil]
    /\ \E kept \in SUBSET Instances :
          /\ kept = {} \/ Fault("disk")
          /\ disk' = [i \in Instances |-> IF path[i] \/ i \in kept THEN disk[i] ELSE Nil]
    /\ UNCHANGED <<rules, table, request, agent, expired, cancels>>

-------------------------------------------------------------------------------

UndeployStep(a) == UndeployRead(a) \/ UndeployStop(a) \/ UndeployUnlink(a)
                     \/ UndeployDelete(a) \/ UndeployFail(a)
CaptureStep(a) ==
    \/ StartRead(a) \/ StartAgent(a) \/ StartRecord(a) \/ StartTimer(a)
    \/ FinalizeRead(a) \/ FinalizeAgent(a) \/ FinalizeWrite(a) \/ FinalizeRecord(a)
    \/ DeleteRead(a) \/ DeleteAgent(a) \/ DeleteUnlink(a) \/ DeleteRecord(a)

\* Mutant: the Agent is asked first and the rows are read after it answered.
ListStepAgentFirst(t) ==
    \/ ListDue(t) \/ ListMark(t)
    \/ /\ \/ /\ pc[t] = "list_rows" /\ Goto(t, "list_agent")
             /\ rows' = [rows EXCEPT ![t] = {i \in Instances : ~Listed(i)}]
          \/ /\ pc[t] = "list_agent" /\ Goto(t, "list_mark")
             /\ rows' = [rows EXCEPT ![t] = @ \cap Candidates]
       /\ UNCHANGED <<rules, table, request, disk, agent, expired, dpc, fresh, locals, due,
                      lock, bounds>>

ListStep(t) == ListDue(t) \/ ListRows(t) \/ ListAgent(t) \/ ListMark(t)

Next ==
    \/ \E i \in Instances :
          DeployRequest(i) \/ DeployStep(i) \/ WorkloadExits(i) \/ CancelDeploy(i)
    \/ \E t \in Tasks :
          \/ \E op \in {"undeploy", "start_pcap", "delete_pcap"} : Request(t, op)
          \/ StopRequest(t) \/ ListRequest(t) \/ ListStep(t) \/ Cancel(t)
    \/ \E a \in Actors : UndeployStep(a) \/ CaptureStep(a)
    \/ \E c \in Captures : TimerFires(c) \/ Expire(c)
    \/ \E r \in Rules : DeleteRule(r)
    \/ \E package \in SUBSET Packaged : ImportRulePackage(package)
    \/ Restart

Spec == Init /\ [][Next]_vars

-------------------------------------------------------------------------------
(* Fairness: the runtime polls every task that can go on, the Agent answers    *)
(* every request or fails it, tokio's Mutex queues its waiters first in first  *)
(* out, time passes.  Clients owe nothing: only Polling says that the page     *)
(* with the deployments stays open.                                            *)

Fairness ==
    /\ \A i \in Instances : WF_vars(DeployStep(i))
    /\ \A a \in Actors : SF_vars(UndeployStep(a) \/ CaptureStep(a))
    /\ \A t \in Tasks : WF_vars(ListStep(t))
    /\ \A c \in Captures : WF_vars(Expire(c)) /\ WF_vars(TimerFires(c))

Polling == SF_vars(\E t \in Tasks : ListRequest(t))

FairSpec == Spec /\ Fairness
PolledSpec == FairSpec /\ Polling

-------------------------------------------------------------------------------
(* Properties.                                                             *)

\* Two deploying or running instances never share a transport and host port,
\* whatever deployments race: the check and the insert are one transaction, and
\* no row becomes active again once its ports may have been given away.
PortExclusive ==
    \A i, j \in Instances :
        i # j /\ status[i] \in ActiveStatus /\ status[j] \in ActiveStatus
            => ports[i] \cap ports[j] = {}

\* Reconciliation marks an instance inactive only when its workload is gone, or when
\* the Agent's answer to its deployment had no workload id: it compares rows read before
\* the Agent's list, without any lock, while deployments finish and other lists run.
\* A made-up id is in no list, so the first one gives up a workload that runs.
InactiveIsGone ==
    \A i \in Instances : status[i] = "inactive" => ~live[i] \/ i \in unnamed

\* An instance in error or inactive no longer holds its ports, so no late answer
\* of a deployment and no reconciliation makes it deploying or running again.
NoResurrection ==
    [][\A i \in Instances :
          status[i] \in {"error", "inactive"} => status'[i] \notin ActiveStatus]_vars

\* When an undeployment is about to delete the row, the workload that the row had
\* recorded under the id the Agent gave it and the recorded capture file are gone: a
\* failed or unanswered stop keeps the row, and no capture of the instance is written
\* meanwhile. A workload recorded under a made-up id is out of an undeployment's reach.
UndeployReclaims ==
    \A t \in Tasks : pc[t] = "delete_row" =>
        /\ "workload" \in saw[t] => ~live[inst[t]] \/ inst[t] \in unnamed
        /\ "file" \in saw[t] => disk[inst[t]] = Nil

\* A timer, or a list that found an overdue capture, never ends a capture before
\* its five minutes: the one it was meant for may be over and another one running.
AutoStopOnlyOverdue ==
    \A a \in Actors :
        expect[a] # Nil /\ pc[a] \in {"agent_finish", "write_file", "record_ready", "record_idle"}
            => held[a] \in expired

\* As long as the server is not killed and no client disconnects, an instance with a
\* ready capture has its file, whatever downloads, deletions and timers overlap.
ReadyHasFile ==
    restarts = 0 /\ cancels = 0 =>
        \A i \in Instances : path[i] /\ lock[i] = Nil => disk[i] # Nil

\* A row lets go of a capture only when the Agent has ended it: as long as the Agent
\* captures for an instance, its row goes on saying so, through failed stops and
\* deletions, crashes and disconnects. Only deleting the rule takes such a row away.
CaptureNotForgotten ==
    [][\A i \in Instances :
          pcap[i] = "capturing" /\ capture[i] \in active[i] /\ rule[i] \in rules'
              => pcap'[i] = "capturing" /\ capture'[i] = capture[i]]_vars

\* As long as the server is not killed and no client disconnects, a capture that is in
\* progress according to its row and not yet overdue has its timer, set for the
\* same instance: whatever starts, stops and failed attempts overlap with it.
CaptureHasTimer ==
    restarts = 0 /\ cancels = 0 =>
        \A i \in Instances :
            pcap[i] = "capturing" /\ capture[i] \notin expired /\ lock[i] = Nil
                => pc[capture[i]] = "sleep" /\ inst[capture[i]] = i

\* Every handler ends: none waits forever for a lifecycle lock.
HandlersEnd == \A t \in Tasks : pc[t] # "idle" ~> pc[t] = "idle"

\* The Agent does not go on capturing for an instance whose row says that the
\* capture is past its five minutes.
OverdueCaptureEnds ==
    \A i \in Instances, c \in Captures :
        (pcap[i] = "capturing" /\ capture[i] = c /\ c \in expired /\ c \in active[i])
            ~> c \notin active[i]

\* Once the deployment of an instance is over and its row is gone, its workload
\* is gone too.
UndeployedIsStopped ==
    \A i \in Instances : dpc[i] = "done" /\ ~Present(i) => ~live[i]

\* Once an instance is gone its capture file is gone too.
UndeployedHasNoFile ==
    \A i \in Instances : ~Present(i) /\ lock[i] = Nil => disk[i] = Nil
===============================================================================
