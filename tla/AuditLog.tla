------------------------------- MODULE AuditLog -------------------------------
(***************************************************************************)
(* The audit events of a simulation: the bounded report queue of an engine *)
(* (protocol-simulation-engine/src/simulation/common.rs), the retries of   *)
(* its HTTP reports, the event handler of the suite API (routes.rs), its   *)
(* bounded write queue and its only writer, which inserts in batches,      *)
(* counts from memory and prunes the oldest logs (db.rs).                  *)
(***************************************************************************)
EXTENDS Naturals, Sequences, Functions, FiniteSets

CONSTANTS
    Instances,
    Events,         \* interactions with simulated services; the event ids
    Origin,         \* the instance of each event
    ReportCapacity, \* REPORT_QUEUE_CAPACITY
    Concurrency,    \* REPORT_CONCURRENCY
    Attempts,       \* REPORT_ATTEMPTS
    WriteCapacity,  \* AUDIT_LOG_QUEUE_CAPACITY
    BatchSize,      \* AUDIT_LOG_BATCH_SIZE
    MaxLogs,        \* audit_max_per_instance
    Unknown,        \* no count in memory
    MaxRestarts,    \* bound: restarts of the suite API
    MaxBreaks       \* bound: connections that break, transactions that fail

ASSUME AuditAssumption ==
    /\ Origin \in [Events -> Instances]
    /\ {ReportCapacity, Concurrency, Attempts, WriteCapacity, BatchSize, MaxLogs}
          \subseteq Nat \ {0}
    /\ Unknown \notin Nat
    /\ MaxRestarts \in Nat /\ MaxBreaks \in Nat

Requests == Events \X (1..Attempts)

VARIABLES
    running, queue,  \* engines and their report queues
    phase, attempt,  \* where a report is, and its attempts
    request,         \* the suite's side of each attempt
    inbox, batch,    \* the write queue; the requests the writer has taken
    present, logs,   \* tables instances and audit_logs, in the order of ids
    inserted,        \* history: every row inserted for an instance, in its order
    cached,          \* instance_counts of the writer
    restarts, breaks

engine == <<running, queue, phase, attempt>>
tables == <<present, logs, inserted>>
writer == <<inbox, batch, cached>>
vars == <<engine, request, writer, tables, restarts, breaks>>

InFlight == {"send", "await", "backoff"}
Over     == {"stored", "rejected", "given_up", "dropped", "lost"}

TypeOK ==
    /\ running \in [Instances -> BOOLEAN]
    /\ \A i \in Instances : queue[i] \in Seq(Events) /\ Len(queue[i]) <= ReportCapacity
    /\ phase \in [Events -> {"new", "queued"} \cup InFlight \cup Over]
    /\ attempt \in [Events -> 0..Attempts]
    /\ request \in [Requests -> {"none", "check", "enqueue", "pending", "ok", "not_found",
                                 "failed", "lost"}]
    /\ inbox \in Seq(Requests) /\ Len(inbox) <= WriteCapacity
    /\ batch \in Seq(Requests) /\ Len(batch) <= BatchSize
    /\ present \in [Instances -> BOOLEAN]
    /\ \A i \in Instances : logs[i] \in Seq(Events) /\ Len(logs[i]) <= MaxLogs
    /\ \A i \in Instances : inserted[i] \in Seq(Events)
    /\ cached \in [Instances -> Nat \cup {Unknown}]

Init ==
    /\ running = [i \in Instances |-> TRUE]
    /\ queue = [i \in Instances |-> <<>>]
    /\ phase = [e \in Events |-> "new"]
    /\ attempt = [e \in Events |-> 0]
    /\ request = [r \in Requests |-> "none"]
    /\ inbox = <<>> /\ batch = <<>>
    /\ present = [i \in Instances |-> TRUE]
    /\ logs = [i \in Instances |-> <<>>]
    /\ inserted = [i \in Instances |-> <<>>]
    /\ cached = [i \in Instances |-> Unknown]
    /\ restarts = 0 /\ breaks = 0

-------------------------------------------------------------------------------
(* The engine: queue_sim_log and run_reporter. *)

\* try_send: an event that finds the queue full is dropped.
Report(e) ==
    LET i == Origin[e] IN
    /\ phase[e] = "new" /\ running[i]
    /\ IF Len(queue[i]) < ReportCapacity
       THEN /\ queue' = [queue EXCEPT ![i] = Append(@, e)]
            /\ phase' = [phase EXCEPT ![e] = "queued"]
       ELSE phase' = [phase EXCEPT ![e] = "dropped"] /\ UNCHANGED queue
    /\ UNCHANGED <<running, attempt, request, writer, tables, restarts, breaks>>

\* Mutant: report tasks that have ended are never joined.
TakeNeverJoined(i) ==
    /\ running[i] /\ queue[i] # <<>>
    /\ Cardinality({e \in Events : Origin[e] = i /\ phase[e] \in InFlight \cup Over}) < Concurrency
    /\ queue' = [queue EXCEPT ![i] = Tail(@)]
    /\ phase' = [phase EXCEPT ![Head(queue[i])] = "send"]
    /\ UNCHANGED <<running, attempt, request, writer, tables, restarts, breaks>>

\* A report task for the next event, while fewer than REPORT_CONCURRENCY run.
Take(i) ==
    /\ running[i] /\ queue[i] # <<>>
    /\ Cardinality({e \in Events : Origin[e] = i /\ phase[e] \in InFlight}) < Concurrency
    /\ queue' = [queue EXCEPT ![i] = Tail(@)]
    /\ phase' = [phase EXCEPT ![Head(queue[i])] = "send"]
    /\ UNCHANGED <<running, attempt, request, writer, tables, restarts, breaks>>

Send(e) ==
    /\ phase[e] = "send"
    /\ phase' = [phase EXCEPT ![e] = "await"]
    /\ attempt' = [attempt EXCEPT ![e] = @ + 1]
    /\ request' = [request EXCEPT ![<<e, attempt[e] + 1>>] = "check"]
    /\ UNCHANGED <<running, queue, writer, tables, restarts, breaks>>

\* No answer, or a server error: the next attempt after a pause, if there is one.
Retry(e) == phase' = [phase EXCEPT ![e] = IF attempt[e] = Attempts THEN "given_up" ELSE "backoff"]

Answered(e) ==
    LET answer == request[<<e, attempt[e]>>] IN
    /\ phase[e] = "await"
    /\ \/ answer = "ok" /\ phase' = [phase EXCEPT ![e] = "stored"]
       \/ answer = "not_found" /\ phase' = [phase EXCEPT ![e] = "rejected"]
       \/ answer \in {"failed", "lost"} /\ Retry(e)
    /\ UNCHANGED <<running, queue, attempt, request, writer, tables, restarts, breaks>>

\* The connection breaks; a handler that has not queued its event yet may be dropped
\* with it, an event that is queued is written all the same.
Break(e) ==
    LET r == <<e, attempt[e]>> IN
    /\ breaks < MaxBreaks /\ phase[e] = "await"
    /\ breaks' = breaks + 1
    /\ Retry(e)
    /\ \/ UNCHANGED request
       \/ request[r] \in {"check", "enqueue"} /\ request' = [request EXCEPT ![r] = "lost"]
    /\ UNCHANGED <<running, queue, attempt, writer, tables, restarts>>

Backoff(e) ==
    /\ phase[e] = "backoff"
    /\ phase' = [phase EXCEPT ![e] = "send"]
    /\ UNCHANGED <<running, queue, attempt, request, writer, tables, restarts, breaks>>

\* The workload is stopped: what it had not reported is lost.
StopEngine(i) ==
    /\ running[i]
    /\ running' = [running EXCEPT ![i] = FALSE]
    /\ queue' = [queue EXCEPT ![i] = <<>>]
    /\ phase' = [e \in Events |-> IF Origin[e] = i /\ phase[e] \in {"queued"} \cup InFlight
                                  THEN "lost" ELSE phase[e]]
    /\ UNCHANGED <<attempt, request, writer, tables, restarts, breaks>>

-------------------------------------------------------------------------------
(* The suite API: record_event and AuditLogWriter. *)

\* get_instance; the callback token and the endpoint are those of the instance.
RecordEvent(r) ==
    /\ request[r] = "check"
    /\ request' = [request EXCEPT ![r] = IF present[Origin[r[1]]] THEN "enqueue" ELSE "not_found"]
    /\ UNCHANGED <<engine, writer, tables, restarts, breaks>>

\* AuditLogWriter::write waits for room in the write queue, then for the result.
Enqueue(r) ==
    /\ request[r] = "enqueue" /\ Len(inbox) < WriteCapacity
    /\ inbox' = Append(inbox, r)
    /\ request' = [request EXCEPT ![r] = "pending"]
    /\ UNCHANGED <<engine, batch, cached, tables, restarts, breaks>>

\* recv, then try_recv as long as the batch has room.
Collect ==
    /\ batch = <<>> /\ inbox # <<>>
    /\ LET n == IF Len(inbox) < BatchSize THEN Len(inbox) ELSE BatchSize
       IN  /\ batch' = SubSeq(inbox, 1, n)
           /\ inbox' = SubSeq(inbox, n + 1, Len(inbox))
    /\ UNCHANGED <<engine, request, cached, tables, restarts, breaks>>

\* The entries of s at some of its positions, in their order.
Enumerates(f, positions) ==
    /\ \A m, n \in DOMAIN f : m < n => f[m] < f[n]
    /\ Range(f) = positions

Picked(s, positions) ==
    LET f == CHOOSE g \in [1..Cardinality(positions) -> positions] : Enumerates(g, positions)
    IN  [n \in 1..Cardinality(positions) |-> s[f[n]]]

\* INSERT OR IGNORE, one event after the other: an event id that is in the table is
\* not inserted again.
NewTo(table, events) ==
    Picked(events, {n \in DOMAIN events : /\ events[n] \notin Range(table)
                                          /\ \A m \in 1..(n - 1) : events[m] # events[n]})

InsertOrIgnore(table, events) == table \o NewTo(table, events)

\* Mutant: the newest logs go.
PruneNewest(rows, count) == SubSeq(rows, 1, IF count <= MaxLogs THEN Len(rows) ELSE MaxLogs)

\* Mutant: one log more than the limit stays.
PruneOneShort(rows, count) ==
    IF count <= MaxLogs + 1 THEN rows
    ELSE SubSeq(rows, count - MaxLogs, Len(rows))

\* The oldest logs go: as many as the count exceeds the limit by.
Prune(rows, count) ==
    IF count <= MaxLogs THEN rows
    ELSE SubSeq(rows, count - MaxLogs + 1, Len(rows))

AtMost(count, limit) == IF count < limit THEN count ELSE limit

\* The requests of the batch that are for instance i, the others, and their events.
Group(i)  == Picked(batch, {n \in DOMAIN batch : Origin[batch[n][1]] = i})
Others(i) == Picked(batch, {n \in DOMAIN batch : Origin[batch[n][1]] # i})
EventsOf(requests) == [n \in 1..Len(requests) |-> requests[n][1]]

\* The handlers of the group are answered; one that is gone is not.
Reply(i, answer) ==
    request' = [r \in Requests |->
                   IF r \in Range(Group(i)) /\ request[r] = "pending" THEN answer ELSE request[r]]

\* The rows of a transaction that commits join the history.
Remember(i) == inserted' = [inserted EXCEPT ![i] = @ \o NewTo(logs[i], EventsOf(Group(i)))]

\* Mutant: every event of the batch is counted, the ignored ones too.
WriteCountingIgnored(i) ==
    /\ Group(i) # <<>>
    /\ LET count == IF cached[i] = Unknown THEN Len(logs[i]) ELSE cached[i]
           rows  == InsertOrIgnore(logs[i], EventsOf(Group(i)))
           total == count + Len(Group(i))
       IN  /\ present[i]
           /\ logs' = [logs EXCEPT ![i] = Prune(rows, AtMost(total, Len(rows) + MaxLogs))]
           /\ cached' = [cached EXCEPT ![i] = AtMost(total, MaxLogs)]
           /\ Remember(i)
           /\ Reply(i, "ok")
    /\ batch' = Others(i)
    /\ UNCHANGED <<engine, inbox, present, restarts, breaks>>

\* Mutant: the count of the new total is kept, not the count after pruning.
WriteKeepingTotal(i) ==
    /\ Group(i) # <<>>
    /\ LET count == IF cached[i] = Unknown THEN Len(logs[i]) ELSE cached[i]
           rows  == InsertOrIgnore(logs[i], EventsOf(Group(i)))
           total == count + Len(rows) - Len(logs[i])
       IN  /\ present[i]
           /\ logs' = [logs EXCEPT ![i] = Prune(rows, total)]
           /\ cached' = [cached EXCEPT ![i] = total]
           /\ Remember(i)
           /\ Reply(i, "ok")
    /\ batch' = Others(i)
    /\ UNCHANGED <<engine, inbox, present, restarts, breaks>>

\* Mutant: the instance is only looked up before the event is queued.
WriteUnchecked(i) ==
    /\ Group(i) # <<>>
    /\ LET rows == InsertOrIgnore(logs[i], EventsOf(Group(i)))
       IN  /\ logs' = [logs EXCEPT ![i] = Prune(rows, Len(rows))]
           /\ cached' = [cached EXCEPT ![i] = AtMost(Len(rows), MaxLogs)]
           /\ Remember(i)
           /\ Reply(i, "ok")
    /\ batch' = Others(i)
    /\ UNCHANGED <<engine, inbox, present, restarts, breaks>>

\* insert_instance_log_batch for one instance of the batch: one transaction, which
\* inserts all or nothing, and the count that is kept for the next one.
Write(i) ==
    /\ Group(i) # <<>>
    /\ LET count == IF cached[i] = Unknown THEN Len(logs[i]) ELSE cached[i]
           rows  == InsertOrIgnore(logs[i], EventsOf(Group(i)))
           total == count + Len(rows) - Len(logs[i])
       IN  \/ /\ present[i]
              /\ logs' = [logs EXCEPT ![i] = Prune(rows, total)]
              /\ cached' = [cached EXCEPT ![i] = AtMost(total, MaxLogs)]
              /\ Remember(i)
              /\ Reply(i, "ok")
              /\ UNCHANGED breaks
           \/ /\ ~present[i]
              /\ cached' = [cached EXCEPT ![i] = Unknown]
              /\ Reply(i, "not_found")
              /\ UNCHANGED <<logs, inserted, breaks>>
           \/ /\ breaks < MaxBreaks /\ breaks' = breaks + 1
              /\ Reply(i, "failed")
              /\ UNCHANGED <<logs, inserted, cached>>
    /\ batch' = Others(i)
    /\ UNCHANGED <<engine, inbox, present, restarts>>

\* The instance is deleted, its logs with it (ON DELETE CASCADE).
Delete(i) ==
    /\ present[i]
    /\ present' = [present EXCEPT ![i] = FALSE]
    /\ logs' = [logs EXCEPT ![i] = <<>>]
    /\ inserted' = [inserted EXCEPT ![i] = <<>>]
    /\ UNCHANGED <<engine, request, writer, restarts, breaks>>

\* The suite API restarts: handlers, queues and counts are gone.
Restart ==
    /\ restarts < MaxRestarts
    /\ restarts' = restarts + 1
    /\ request' = [r \in Requests |->
                      IF request[r] \in {"check", "enqueue", "pending"} THEN "lost" ELSE request[r]]
    /\ inbox' = <<>> /\ batch' = <<>>
    /\ cached' = [i \in Instances |-> Unknown]
    /\ UNCHANGED <<engine, tables, breaks>>

-------------------------------------------------------------------------------

EngineStep(e) == Send(e) \/ Answered(e) \/ Backoff(e)

Next ==
    \/ \E e \in Events : Report(e) \/ EngineStep(e) \/ Break(e)
    \/ \E i \in Instances : Take(i) \/ StopEngine(i) \/ Write(i) \/ Delete(i)
    \/ \E r \in Requests : RecordEvent(r) \/ Enqueue(r)
    \/ Collect \/ Restart

\* The runtimes poll their tasks; a waiting sender gets the room of the write queue
\* in turn; every request is answered or broken.
Fairness ==
    /\ \A e \in Events : WF_vars(EngineStep(e))
    /\ \A i \in Instances : WF_vars(Take(i)) /\ WF_vars(Write(i))
    /\ \A r \in Requests : WF_vars(RecordEvent(r)) /\ SF_vars(Enqueue(r))
    /\ WF_vars(Collect)

Spec == Init /\ [][Next]_vars
FairSpec == Spec /\ Fairness

-------------------------------------------------------------------------------

\* The writer's count in memory is the number of logs of the instance, through
\* ignored repetitions, pruning, failed transactions and restarts: it never prunes
\* too little or too much.
CachedCountExact ==
    \A i \in Instances : present[i] /\ cached[i] # Unknown => cached[i] = Len(logs[i])

\* The audit log of an instance is the newest part of what was ever inserted for it,
\* in its order, and as long as the limit allows: pruning takes the oldest rows, and no
\* more than it must, whatever was repeated, failed or counted from memory before.
LogsAreNewest ==
    \A i \in Instances :
        LET rows == inserted[i] IN
        /\ Len(logs[i]) = AtMost(Len(rows), MaxLogs)
        /\ \A n \in 1..Len(logs[i]) : logs[i][n] = rows[Len(rows) - Len(logs[i]) + n]

\* An event the engine believes stored has been inserted, and while its instance is
\* there it is in the audit log, unless at least MaxLogs rows were inserted after it.
\* Such a row may be the repetition of an event that was pruned in between: the table
\* no longer knows its id and takes it for a new one.
StoredIsKept ==
    \A e \in Events :
        LET rows == inserted[Origin[e]] IN
        phase[e] = "stored" /\ present[Origin[e]] =>
            /\ e \in Range(rows)
            /\ \A n \in DOMAIN rows : rows[n] = e =>
                  e \in Range(logs[Origin[e]]) \/ n + MaxLogs <= Len(rows)

\* An instance that is gone has no audit logs, whatever reports were on their way.
LogsEndWithInstance == \A i \in Instances : ~present[i] => logs[i] = <<>>

\* Every event that enters the report queue is answered, given up or lost with its
\* engine: none waits for ever behind full queues, retries and restarts.
ReportsEnd == \A e \in Events : phase[e] = "queued" ~> phase[e] \in Over
===============================================================================
