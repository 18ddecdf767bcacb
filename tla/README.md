# Protocol simulation suite: TLA+ models and proofs

The protocol simulation suite deploys simulated network services. Its API server
(`crates/protocol-simulation`) keeps rules and instances in SQLite, asks the Agent of the
node to start one engine container per instance (`crates/protocol-simulation-engine`),
captures the traffic of instances and records what happens to them. This directory holds
TLA+ specifications of the server, of the engine and of what both have to agree on, the TLC runs that check them on small
instances, and TLAPS proofs for every value of the constants. Paths without a directory
are those of `src/crates/protocol-simulation/src/`.

## 1. Inventory

| Part | State it keeps | Operations | Why it is hard |
| --- | --- | --- | --- |
| Instance lifecycle (`routes.rs`, `db.rs`) | rows of `instances` and `instance_endpoints` | deploy, undeploy, list (with reconciliation), delete a rule, import a package | handlers interleave at every `await`; deploying takes no lock; the Agent is a second source of truth; handlers may be dropped, the process may die |
| Packet capture (`routes.rs`, `pcap.rs`) | the `pcap_*` columns, `pcap_<id>.pcap`, one timer task per capture | start, stop, delete, auto-stop, recovery from lists, clean-up at start | timers that outlive their capture, three places that must agree (Agent, row, file) |
| Lifecycle locks (`lib.rs` 44-66) | a map of weak references to mutexes | `lock(id)` | pruning and upgrading while the last owner goes |
| Audit log (`db.rs` 64-190 and 708-820, `routes.rs` 1179-1220, engine `simulation/common.rs`) | report queue and tasks of an engine, write queue, batch, counts in memory, table `audit_logs` | report, retry, record, batch, prune | full queues, repeated reports, a count that must follow the table, instances that go |
| Rules and packages (`db.rs` 320-480, `rule_package.rs`, `routes.rs` 90-230) | tables `rules`, `rule_packages` | create, delete, parse and import a package | a dozen checks of an archive; an import removes and replaces rules that deployments have just read |
| Endpoint validation (`routes.rs` 309-362, common `lib.rs`, engine `main.rs` 101-136) | none | accept bindings, behaviours and packaged endpoints; accept a launch configuration | four validators that must agree |
| Engine supervisor (engine `main.rs`, `simulation/mod.rs`) | listeners, connection tasks, shutdown channels | bind, serve, drain, stop | endpoints serve while others are still bound; the first one that ends ends all; draining has a timeout |
| Protocol sessions (engine `simulation/*.rs`, 19 protocols) | per connection: login, envelope, pending bytes, the walk's place, counters | one handler per command | logins and resets in any order, failed reads and writes at every point, answers and audit events in either order, limits |
| Web interface (`frontend`) | selected and busy instances, polling | batch undeployment, polling | partial failure, lists that reload meanwhile |
| Agent (external) | workloads, captures | start and stop workloads and captures, list | answers late, not at all, or an error after it did the work |

How they interact: the browser calls the API server over HTTP. Every handler is a task of
its own that shares the database, the capture directory and the map of locks with the
others, and awaits the Agent. An engine posts its events back to the API server, where
they pass through one queue to one writer. Capture timers are tasks of the server. SQLite
runs in WAL mode with foreign keys: a transaction that has read an old snapshot cannot
write, and deleting a rule deletes its instances and their logs.

What makes each part correct:

* lifecycle: ports of active instances are exclusive, only instances whose workload is gone, or whose
  workload id the server had to make up, become inactive, an instance that is over stays over,
  undeployment reclaims what the row had recorded under an id of the Agent, handlers end;
* capture: a timer ends only the capture it was set for and only when it is due, a capture in
  progress has its timer, no row forgets a capture that still runs, a ready row has its file,
  overdue captures end;
* locks: they are a mutual exclusion per instance that starves nobody;
* audit: the count in memory is the number of rows, a log is the newest of all rows ever inserted,
  acknowledged events are kept until that many rows came after them, logs end with their instance,
  reports end;
* rules and endpoints: what one validator accepts the other does not refuse;
* engine and sessions: shutdown ends, nothing happens before authentication that needs it, nothing is
  shown or decided without an event, and of the requests a handler reports at most the last one is
  missing from the trail;
* batch undeployment: each selected instance is asked for once and reported once.

`PROJECT.json` lists the hazards of the code at their lines, with the properties that would
catch each one, or the reason why none does yet.

## 2. Modules

| Module | Models | Proofs |
| --- | --- | --- |
| `InstanceLifecycle` | the API server's handlers and timers, rows, capture files, the Agent | `InstanceLifecycleProofs`, `CaptureProofs` |
| `InstanceMutex` | what the handlers count on: mutual exclusion per instance (abstract) | |
| `LifecycleLocks` | `InstanceLifecycleLocks::lock`, statement by statement; implements `InstanceMutex` | `LifecycleLocksProofs` |
| `AuditLog` | report queue and retries of an engine, `record_event`, the batch writer | `AuditLogProofs` |
| `RuleSchema`, `RulePackage` | the protocol descriptors and every check of endpoints, behaviours and packages, as operators | |
| `RuleCatalog` | the way of a rule from a user or a package through a deployment to an engine | `RuleCatalogProofs` |
| `FailFastGroup` | what an engine owes to the Agent: endpoints run and end together (abstract) | |
| `EngineSupervisor` | `main` of the engine, its endpoint tasks, their clients; implements `FailFastGroup` | `EngineSupervisorProofs` |
| `AccessGate` | what a simulated service owes to its rule: nothing before the login it asks for (abstract) | |
| `Connection` | the outline all handlers share: read, answer, report, fail, end | |
| `MailSessions`, `LoginSessions`, `ProbeSessions` | the handlers, one action per command | |
| `MemcachedSession`, `SnmpSession` | the two services whose answers depend on data: a stream that is cut into commands, a walk over ordered OIDs | `FramedProofs` |
| `Sessions` | their composition; implements `AccessGate` | `SessionsProofs` |
| `MC...` | instances for TLC: sets of requests, faults, packages and values; symmetry | |

### InstanceLifecycle

One step is the code between two awaits whose order can matter: one SQL statement or
transaction, one Agent request with its effect, one file operation. `pc[t]` is where handler
`t` is, `dpc[i]` where the deployment of `i` is (an instance id is a fresh UUID, so an
instance has at most one deployment), and the actor `c` is the timer of capture `c`.

| Variables | Code |
| --- | --- |
| `status`, `wid`, `pcap`, `capture`, `path`, `rule`, `ports` | columns `status`, `workload_id IS NOT NULL`, `pcap_status`, `pcap_capture_id`, `pcap_file_path IS NOT NULL`, `rule_id`, endpoints |
| `rules` | ids in table `rules` |
| `disk` | the capture whose bytes are in `pcap_<id>.pcap` |
| `fresh` | the read snapshot of a deployment's transaction is current |
| `live`, `active`, `issued` | the Agent's workloads and unfinished captures, the capture ids it gave out |
| `unnamed` | the instances whose workload was started by an answer without a workload id (`workload_id: Option<String>`, `agent.rs` 51) |
| `expired` | captures that started 300 s ago or more (`PCAP_MAX_DURATION_SECS`) |
| `inst`, `expect`, `held`, `saw` | locals: the instance, `expected_capture_id`, the capture being handled, what the row read under the lock has recorded |
| `due`, `rows` | the loops of `finalize_expired_pcap_captures` and `reconcile_instances_with_agent` |
| `lock` | owner of the instance's lifecycle lock |

| Actions | Code |
| --- | --- |
| `DeployRequest`, `DeployCheck`, `DeployInsert`, `DeployStart`, `DeployRecord` | `deploy_instance`; the check and the insert are the read and the write half of one transaction |
| `UndeployRead` .. `UndeployFail` | `undeploy_instance` under the lock; both error exits |
| `StartRead`, `StartAgent`, `StartRecord`, `StartTimer` | `start_pcap` |
| `StopRequest`, `TimerFires`, `FinalizeRead` .. `FinalizeRecord` | `stop_pcap`, the timer, `finalize_pcap_capture` |
| `DeleteRead` .. `DeleteRecord` | `delete_pcap` |
| `ListRequest`, `ListDue`, `ListRows`, `ListAgent`, `ListMark` | `list_instances`: end overdue captures one by one, read the rows, ask the Agent, update |
| `DeleteRule`, `ImportRulePackage` | one transaction each |
| `Expire`, `WorkloadExits`, `Cancel`, `CancelDeploy`, `Restart` | time, the node, a client that disconnects (its handler's future is dropped at an await), a crash followed by `AppState::initialize` |

The Agent is external and modelled from how `agent.rs` and `routes.rs` use it: it never binds
a host port twice, gives out a new id per capture, ends captures with their workload, hands
the bytes of a capture over at most once, and may do what it was asked and still fail to
answer (`"lost"`), or start a workload and answer without its id (`"unnamed"`). Then `routes.rs`
457-459 records an id that it makes up, `workload-<instance>`: `Listed` says that no list of the Agent
contains it, and no stop of it reaches the workload. So the first list that reconciles the row marks the
instance inactive while its workload runs, and an undeployment may delete the row and leave the workload;
`InactiveIsGone` and `UndeployReclaims` except these instances by name, since the code does not keep either
promise for them. SQLite statements fail only for the reasons the
code provokes: a stale snapshot, a missing rule, another writer. Requests name instances
that have a row when they arrive, which may be gone when the lock is taken.

### InstanceMutex and LifecycleLocks

`LifecycleLocks` follows `lib.rs` 50-65: take the mutex of the map and prune it
(`Retain`), upgrade the reference or insert a new lock (`Get`), then wait for the lock
outside the map (`Join`, `Enter`), and at the end drop the guard (`Unlock`, then
`DropArc`: the permit goes before the reference count). tokio's mutex is external; `PassOn`
hands a permit to the waiter that came first, and a waiter that is dropped passes on a
permit it was given. `InstanceMutex` knows only who waits, who is in and for which
instance. The refinement mapping is `phaseOf`. `InstanceLifecycle` uses the abstract view: its
`lock[i]` is the handler that is in.

### AuditLog

A report goes `new -> queued -> send -> await -> ... -> stored | rejected | given_up |
dropped | lost`; `request[<<e, n>>]` is the suite's side of the n-th attempt, which lives on
when the engine has stopped waiting for it. `Collect` takes what is in the write queue, up to
the size of a batch, `Write(i)` is the transaction for one instance of the batch with the
updated count and the answers. The callback token, the endpoint and the shape of an event are assumed to
be valid: the engine builds them from its launch configuration. A transaction is one step
because the writer is alone and SQLite isolates it; its failures (a stale snapshot, a busy
database) leave table and count alone. Ids are positions in `logs[i]`. The parts of a batch
(`Group`, `Others`) and what of it is new (`NewTo`) are picked from a sequence by a set of positions,
in their order: `Picked`, stated with the one enumeration that ascends, so that the module
can be proved about.

`inserted[i]` is history: every row a transaction inserted for the instance, in order. Against it
`LogsAreNewest` says that the table holds the newest rows and as many as the limit allows, and `StoredIsKept`
that an acknowledged event was inserted and is there until `MaxLogs` rows came after it. Rows are not events:
`INSERT OR IGNORE` knows only the ids in the table, so the repetition of an event that was pruned
in between is a new row and displaces another one. "The newest 10,000 logs" (`CHANGELOG.md:18`) is true of
rows in the order they were inserted, and that is what the properties say.

### RuleSchema, RulePackage and RuleCatalog

Four places decide what a rule may be: `create_rule`, `parse_slrp`, `deploy_instance` and the engine. Their
checks are operators: `Fits` and `AcceptsBindings` of the API server, `Accepts` with its parts
`ArchiveOk`, `ManifestOk` and `RulesOk` for packages, `EngineAccepts`, `EngineServes` and `EngineCanUse` of
the engine. A behaviour is one of four kinds of JSON value, told apart by what these checks can see: it
misfits the protocol's struct, is empty, is sound, or fits and has a value of type text that the
engine cannot use. `parse_slrp` validates the whole document of a packaged rule where `create_rule`
looks under `"behavior"` first; of a wrapped document the struct sees no field that it knows, and since
unknown fields are dropped, what is stored is the empty behaviour (`Whole`). Container ports are named by
their protocols. Decompression, the signature scheme and protobuf are facts about a package
(`signed`, `entries`, what was decoded).

`RuleCatalog` has one action per transaction: `CreateRule`, `DeleteRule` (which cascades to rows), `Import`
(replace, drop what is stale, spare what is in use), and the deployment in the three steps between which
rules change: `DeployRead`, `DeployInsert` (the foreign key), `DeployStart` (the launch configuration, from the
copy read first), then `EngineStart`. How a deployment fails for other reasons is
`DeployGivesUp`; ports, statuses and the Agent are in `InstanceLifecycle`. Names, categories and texts of
rules are left out, and with them the checks that they are not empty (`named` stands for them).

### FailFastGroup and EngineSupervisor

`main` binds the endpoints one by one and spawns each task at once (`Bind`, `Start`), reaches the
`select!` (`Serve`), and returns with the result of the first task that ends (`FirstEnds`) or, after a
signal, tells all tasks to stop and drains them for at most five seconds (`StartDrain`, `DrainJoin`, `DrainDone`,
`DrainTimeout`). `tokio::time::timeout` polls the drain first: a task that has ended by the deadline is taken. An
endpoint is `http` (axum waits for its connections), `stream` (connection tasks that nobody joins) or
`datagram`. When `main` returns the runtime goes, and with it every task. The signal handler is installed
when the `select!` is reached; before, a signal kills the process, or is ignored when it is the init process
of its container, which is a stutter. axum, hyper and the kernel's accept queue are modelled from how
the engine uses them. `FailFastGroup` knows members, a request to stop, faults and a
result; the mapping takes the tasks that run for members and errors for faults.

### Connection, the session modules, Sessions and AccessGate

`at` is the await where a handler waits for its client, `session` its locals, `said` what it wrote last. A step
takes one request, changes the session, writes the answer and queues the audit event, in the order of
the code: `Answers(next, s, r, report)` says whether the event is queued first, after the answer, later in
the dialogue or not at all, and lets the write fail, whose `?` ends the task (`untold` counts the events
lost by that). `taken` counts the requests a handler is to report and `unreported` those it answers or passes over
without an event (`PassesOver`): bad lines to IMAP, protocol errors to Redis, pings, unknown commands and empty
packets to MySQL, extended queries to PostgreSQL, malformed datagrams, the dialogue of VNC before its end. The audit trail is
therefore two properties. `TrailLosesOnlyTheLast`: of the requests that are to be reported at most one is
missing, the last one of a task that ended. `ShownIsReported`, which binds what may go unreported: a step that shows
content or decides on a login queues an event or loses one as its task ends; VNC, which reports a dialogue
only once, is excepted by name. `ReadFails`, `TimeLimit`,
`IdleLimit`, `EndOfFile` and `ClientEnds` hold for all protocols that have them. Requests, credentials and
answers are names for what a handler tells apart, so "the credentials match" is a choice
wherever the code compares, constrained by what the session knows of the user. History variables: `login`
and `proved` for credential checks, `latest` for the last FTP user, `sent` for a Memcached stream.

`MemcachedSession` has the framing in full: pieces of any length of a stream of three characters (of
a command, blank, line end) in whatever way they are cut, the size limit and the limit of commands. `SnmpSession`
has GET, GETNEXT and GETBULK over the rule's ordered OIDs, with the encoder's restrictions; the manager that
walks is external: it asks on from the last OID it got. GETBULK (`BulkValues`) is a function over the turns of the
code's loop: `Cursor` is the OID a turn asks on from, `Further` what the answers so far and the next turn give, and a
turn that has nothing more to say ends it. OID components are small, and no sum reaches
2^32 - 80, below which the encoder's arithmetic is exact. TLS, DNS labels, BER and the binary
layouts of the database protocols are answers and requests by name.

`AccessGate` has a gate, open from the start when the rule asks for no login, opened by a
successful credential check and by nothing else, and answers that need it open. `Content` names those
answers; `GateOpen` says per protocol what the gate is: `authed` of a session, for SMTP also a sender that was
accepted while it was logged in, for Telnet and the databases the point of the dialogue.

## 3. Runs

| Run | Shows | Bounds |
| --- | --- | --- |
| `lifecycle_deploy` | `PortExclusive`, `InactiveIsGone`, `NoResurrection` | 2 instances, 2 ports, 2 handlers besides the deployments, one packaged rule, all faults (refusals, lost answers, answers without a workload id), 1 restart, 1 disconnect |
| `lifecycle_capture` | `TypeOK`, `UndeployReclaims`, `AutoStopOnlyOverdue`, `ReadyHasFile`, `CaptureHasTimer`, `CaptureNotForgotten` | 1 instance, 2 captures with their timers, 2 handlers, all faults, 1 restart, 1 disconnect |
| `lifecycle_live` | `HandlersEnd`, `OverdueCaptureEnds` | 1 instance, 1 capture, 2 handlers, no faults, 1 restart |
| `locks` | `OneLockPerInstance`, `ImplementsMutex`, `EveryWaiterEnters` | 3 handlers, 2 instances, 5 locks (as many as can be referred to at once, an assumption of the MC module) |
| `audit` | `TypeOK`, `CachedCountExact`, `LogsAreNewest`, `StoredIsKept`, `LogsEndWithInstance` | 2 instances, 3 events, 2 attempts, 1 broken connection or transaction, 1 restart; a report queue of 1, a write queue and batches of 2, a limit of 1 |
| `audit_live` | `ReportsEnd` | 1 instance, 2 events, queues and pools of 1, batches of 2, 1 broken connection or transaction, 1 restart |
| `sessions` | `TypeOK`, `TrailLosesOnlyTheLast`, `ShownIsReported`, `SmtpEnvelope`, `FtpIdentity`, `MemcachedFraming`, `SnmpWalk`, `ImplementsGate`, `ConnectionsEnd` | any rule, one connection, 5 requests; mailbox of 2, probe limit 2, Memcached lines of 3 in pieces of 2 with 2 commands, 3 sets of SNMP values with at most 2 varbinds per answer |
| `engine` | `TypeOK`, `GracefulExit`, `ImplementsGroup`, `EngineEnds` | the endpoint lists of the protocol descriptors, 2 clients |
| `catalog` | `TypeOK`, `RowsHaveRules`, `RefusedForValuesOnly`, `EngineMatchesRow`, `CatalogIsCurrent`, `ImportSparesInstances` | 1 user rule, 2 packaged rules, 1 instance; 3 good packages, 16 that fail one check each; 7 lists of bindings |
| `lifecycle_race` | violates `UndeployedIsStopped` | 1 instance, 1 handler, no faults |
| `lifecycle_file` | violates `UndeployedHasNoFile` | 1 instance, 2 captures, 1 handler, no faults |
| `lifecycle_limit` | violates `OverdueCaptureEnds` without polling | 1 instance, 1 restart, no faults |

Why the bounds are enough for what they show. Ports, snapshots and reconciliation need two
instances and one list besides their deployments; the second handler undeploys or lists at the same
time. A timer that meets a foreign capture needs two captures of one instance; instances
meet only in the database, so one is enough for captures. A queue, a batch or a limit of one
or two is full at once. Connections of an engine share nothing but the rule, so one is enough; five requests
are what it takes to log in, name a sender and a recipient, lose the login and send the mail, the
case in which an SMTP answer is the last one that its gate lets through. Every protocol is served by
some rule, and every limit of the code, scaled down, is reached within these requests. An import
meets a deployment of the same rule, of another one, and none; two clients let one
connection be busy while another one is idle or waits. For the safety properties proved in section 4 the
bounds do not matter in the end.
Deadlock is checked in `locks`; elsewhere the systems may stop, since captures, events,
restarts, disconnects and requests are bounded and an engine ends.

**Fairness.** Handlers and timers are tokio tasks, which are polled when they can go on: weak
fairness for steps that wait for nothing else. The steps that take a lifecycle lock have
strong fairness, because tokio's mutex serves its waiters in order; the `locks` run checks
exactly that (`EveryWaiterEnters`) with weak fairness alone behind the map's own mutex, which
is a tokio mutex as well. The Agent client sets no time limit: the models assume that every
Agent request ends one way or the other, which is what the transport promises and the code
relies on while it holds a lock. `HandlersEnd` does not show more than that: an Agent that never answers
keeps the lock, and with it every other handler of the instance, for ever. A sender that waits for room in the write queue gets it in
turn (`SF` on `Enqueue`). Time passes (`Expire`). Clients owe nothing: only `PolledSpec`, in the run
`lifecycle_live`, assumes that the page with the deployments stays open, since it
lists again as soon as a capture is past its limit (`SimulationView.vue` 842-862);
`lifecycle_limit` shows that the property needs it. In `engine`, only `main` is fair (it is polled when it can
go on, and its timer comes due): endpoint tasks, connections and clients may stop for ever, and
`EngineEnds` holds all the same. In `sessions`, the task's own steps and the timers of the handlers that have
one are fair; the client owes nothing, and `ConnectionsEnd` speaks of clients that have ended their side and of
handlers under a time limit.

### What the violation runs show

* `lifecycle_race`: `undeploy_instance` says that it reclaims the Agent workload, the PCAP file and
  the row in turn (`routes.rs:543`). A deployment takes no lifecycle lock; when an undeployment
  overtakes `start_workload`, the row has no workload id yet, nothing is stopped, the row goes, and the
  workload starts with nothing that refers to it.
* `lifecycle_file`: the changelog says that undeploying cleans up persisted PCAPs
  (`CHANGELOG.md:34`). `start_pcap` overwrites `pcap_file_path` with NULL while the file of
  the capture before is on disk; undeploying then removes nothing. The file stays until the next
  start of the server.
* `lifecycle_limit`: the changelog says that the server ends captures at five minutes by itself
  (`CHANGELOG.md:34`). Timers do not survive a restart and only a list request looks for
  overdue captures.

## 4. Proofs

Everything below is checked by `tlapm` for arbitrary constants that satisfy the
assumptions of their modules: disjointness of the kinds of actors and of `Nil`, naturals as bounds, shapes
of packages as protobuf decodes them, sets of SNMP values that are finite (a `BTreeMap`) and questions that are
OIDs the decoder can return. There is no assumption on how many instances, handlers, captures, ports,
events, packages, endpoints or requests there are.

`InstanceLifecycleProofs`, each theorem `Spec => []P` (`NeverResurrected` proves an action property):

| Theorem | Argument |
| --- | --- |
| `TypeCorrect` | `TypeOK` with `Busy`: who is in a critical step has an instance and a capture of the right kind |
| `PortsExclusive` | with `FreshInv`: a deployment whose snapshot is current still sees its ports free. Any commit makes every other snapshot stale, so of two deployments only one inserts |
| `InactiveGone` | `DeployInv`: a workload lives only after its deployment reached the Agent (`RowsInv`), handlers see an id only when it was recorded (`HandlersInv`), and what a list holds after the Agent's answer has no workload, unless its id was made up (`ListsInv`); an instance that is `unnamed` stays so |
| `NeverResurrected` | from `DeployInv`: a deployment that is still to record its result has a row that is `deploying` or gone |
| `UndeployReclaimsAll` | with `Locked`: a handler in a critical step owns the lock of its instance, so two never overlap; then `ReclaimInv`, what an undeployment has removed stays removed |
| `AutoStopOverdue` | with `ExpectInv` and `DueInv`: what a timer or a list expects to end was past its deadline when it was noted, and the capture being ended is the expected one |
| `ReadyWithFile` | with `ReadyInv`: while nothing was killed or cancelled, path and file differ only inside a critical step of the lock's owner |

`CaptureProofs` goes on with captures, where a row, the Agent, a handler and a timer each know a part:

| Theorem | Argument |
| --- | --- |
| `CapturesNotForgotten` | with `CaptureInv`: a row names a capture exactly while it says capturing, a handler that ends one holds the id of the row, and from the Agent's answer to the write of the row (`Past`) the named capture is no longer active. Only the deletion of the rule goes around the lock, and the property says so |
| `CapturesHaveTimers` | with `OwnInv`: the Agent gives out an id once, so a capture belongs to one row or to the one handler that has just started it, and starting its timer disturbs no other one; and `TimedInv`: a capture in progress has a sleeping timer, or the lock's owner is about to set it. This is the safety part of `OverdueCaptureEnds`: what ends a capture in time is there, until a crash or a disconnection takes it |

None of these invariants is inductive as it stands. `PortExclusive`, for instance, says nothing
of a deployment between its check and its insert: the strengthening states what such a deployment may
rely on. Each invariant is a conjunction of named parts; there is one lemma per part, its first
step disposes of the steps that leave the variables of the part alone, and one named step per action that
can disturb it follows.

`LifecycleLocksProofs`: `OneLock` proves that the locks that handlers own and the live entries of the map
agree per instance, although dangling references stay in the map until they are pruned.
`LocksImplementMutex` proves the refinement with it: initial states map to initial states,
`Ask`, entering by `Join` or `Enter`, and leaving by `Unlock` or `Cancel` map to the three abstract
actions, all other steps to stutters. `GuardsExclusive` draws the conclusion the handlers need.

`AuditLogProofs`: `TypeCorrect`, `CachedCountsExact`, `LogsNewest`, `StoredKept` and `LogsEnd` from `TypeOK` with `Audited`:
entries of queues and batches are attempts that wait for the writer (`QueueInv`, `AttemptInv`), an attempt is
queued once, and an event that was acknowledged has been written (`ToldInv`). The lemmas before
say what inserting, pruning and regrouping do to a sequence: which entries are there, how many, each
once. They rest on the fact that every finite set of naturals has one ascending enumeration, which is
proved by least counterexample from the well-foundedness of the naturals.

`RuleCatalogProofs`: `TypeOK` with `Traced`. Every stored rule fits its protocol, whoever stored it (`StoredFit`:
the wrapped document of a package included); what a deployment holds fits and has accepted bindings
(`CopyInv`); a row and an engine have the endpoints of that copy (`RowInv`, `EngineInv`). With `AcceptedIsServed`, what
`deploy_instance` accepts `validated_endpoints` accepts, `EnginesStart` follows. `RulesOutliveRows`, `EnginesMatchRows`
and `CatalogCurrent` have inductive steps of their own, `ImportsSpareInstances` is an action property.

`EngineSupervisorProofs`: `GracefulExits` and the refinement `EngineImplementsGroup` from `Supervised`: where
`main` is decides what may have happened (`MainInv`), no task ends without an error unless it was told to
(`TaskInv`), an HTTP endpoint is done only without connections (`HttpInv`), and a good exit code has
its cause (`CodeInv`).

`SessionsProofs`: `TypeCorrect`, `TrailComplete`, `ReportsShown`, `EnvelopeSound`, `IdentitySound`, `FramingSound`, `WalkSound` and the
refinement `GateImplemented`. Every step
of every handler is first shown to have one of a few shapes (`Works`: it loses an event only when it
ends the task, and shows nothing without one (`Discreet`), which is `ReportsShown`; `Accounts`: the events queued
and lost and the request in progress grow by the requests taken and the connection, which for `TrailComplete` adds up to the
whole trail; `Passes`: what the gate asks of a step), so the theorems need no case per command. Memcached
takes pieces of a stream, so its account is in commands, by a lemma of its own. The
invariant `SoundSession` says what the gate relies on: an SMTP sender was accepted under a
login, a Redis session that is not logged in has a rule that asks for it, an FTP login belongs to the user
named last and a pending user is that user or none. The refinement holds although AUTH, LOGIN and PASS may be repeated at any
time and may take a login away again; SMTP keeps the envelope through that, whence the second way
for its gate to be open.

The same invariant has `SoundRest` for the Telnet, database, Memcached and SNMP sessions, where the
place in the dialogue decides what a session may hold. For type correctness the steps of all handlers
have one more shape in common (`Regular`: the place, the answer and what was taken that a step may leave), which
keeps the variables outside the session in their sets (`Typed`).

`FramedProofs` proves what depends on data. Neither proof uses induction over sequences or sets: a least counterexample is
taken from the naturals, or from a finite set of OIDs.

* Memcached, `MemcachedStep` with `MemcachedInv`: however the stream is cut into pieces, the bytes
  that are pending are exactly the stream from `Taken` on, the number of characters the lines cut off so far
  took; as many commands were executed as command lines end before it (`Ended`); and no complete line
  is pending while the handler waits for more. The lemmas say what appending a piece and cutting off a
  line do to a stream (`Joined`, `Cut`), and that a connection that is closed for its size stands inside a line
  that is too long. `FramingSound` concludes for the composition.
* SNMP, `BulkAnswersWalk`: `BulkValues`, computed turn by turn, has the successors of the question in order, with
  no OID left out or twice, and is empty only where nothing follows. `SnmpStep` carries `SnmpInv`
  along a walk of requests: what the manager has walked has no gap and was encodable, it is told that the walk is
  over only where nothing follows, and an endpoint that failed to encode an answer has a value ahead that cannot be
  encoded (`Doomed`). `WalkSound` concludes for the composition.

Only model-checked: liveness (`HandlersEnd`, `OverdueCaptureEnds`, `EveryWaiterEnters`,
`ReportsEnd`, `EngineEnds`, `ConnectionsEnd`), which needs fairness and `ENABLED`, and the three violations. Every safety
invariant, action property and refinement of a run that passes has its theorem.

## 5. Not modelled

* Formatting, localisation, operation events (their delivery changes no state, though
  handlers await it while they hold a lock: it counts as part of the step it follows), downloads
  (they only read), configuration parsing.
* The web interface's batch undeployment (`SimulationView.vue` 366-390 and 1819-1920): four requests at a time, reloads
  of the list meanwhile, one report per instance. It is the next module of the plan.
* Views, dialogs and texts of the web interface and generated files: nothing to check.
* Memory. `redis.rs:44` reserves room for as many words as a client says its array has, before it
  parses them; a reservation that cannot be had ends more than the connection. The models have no allocator.
* Byte layouts of the protocols, TLS, the contents of mailboxes, tables and pages: answers by name.
* What becomes of reports that are queued when an engine exits: `AuditLog` has the loss (`dropped`, `lost`), not the
  order of the runtime's shutdown; `ReportsEnd` counts a lost report as ended.
* A second try of a timer whose Agent or disk failed: the code makes none, and `OverdueCaptureEnds` is checked
  without such faults.

## 6. Plan

Done, in the order of importance: `InstanceLifecycle`, `LifecycleLocks` and their proofs; `AuditLog` and its proofs;
`EngineSupervisor` against `FailFastGroup` with proofs; `RuleSchema`, `RulePackage`, `RuleCatalog` with
proofs; the sessions of all nineteen services against `AccessGate`, with the proofs of the gate, the types, the audit
trail, the SMTP envelope, the FTP identity, the Memcached framing and the SNMP walk; the proofs about captures and
their timers.

Left:

1. `BatchUndeploy`: `mapWithConcurrency` and its callers' bookkeeping with concurrent reloads; each
   instance is requested once, at most four at a time, reported once, and no busy mark stays.
2. The end of an engine together with its reporter: which queued reports a drain still delivers.
3. The queue of a lifecycle lock as an order, from which a free lock without waiters follows for any number of
   handlers: the safety part of `EveryWaiterEnters`.
