------------------------------ MODULE RuleCatalog ------------------------------
(***************************************************************************)
(* The way of a rule through the suite: created by a user or imported with *)
(* a package, read by a deployment, passed on to an engine, and examined   *)
(* there once more (routes.rs and db.rs of the API server, main.rs of the  *)
(* engine).                                                                *)
(*                                                                         *)
(* Between reading the rule and starting the engine a deployment awaits    *)
(* the database twice and the Agent once; rules are deleted and packages   *)
(* imported meanwhile.  Ports, statuses and failures of the Agent are in   *)
(* InstanceLifecycle.                                                      *)
(***************************************************************************)
EXTENDS RulePackage

CONSTANTS
  CustomRules,      \* bound: ids that new rules of users get
  OfficialRules,    \* bound: numbers of the packages' rules
  Instances,        \* bound: ids that deployments get
  BindingLists,     \* the bindings that deployments ask for
  Offered,          \* bound: the protocol names that requests use
  PlatformVersion,  \* what the Agent says of the platform
  Nil               \* no rule, no row, no engine

RuleIds == CustomRules \cup OfficialRules

StoredRules == [protocol : Protocols, behavior : Behaviors, default : PortNumbers,
                from : {"user"} \cup {package.version : package \in Packages}]

ASSUME CatalogAssumption ==
  /\ CustomRules \cap OfficialRules = {}
  /\ \A package \in Packages : Accepts(package) => NumbersOf(package) \subseteq OfficialRules
  /\ Nil \notin Packages \cup StoredRules

VARIABLES
  rules,    \* table rules: the rule with each id
  current,  \* table rule_packages: the package imported last
  row,      \* tables instances and instance_endpoints
  at,       \* where the deployment of each instance is
  read,     \* its local copy of the rule, with the rule's id
  asked,    \* the bindings it was asked for
  engine,   \* the engine of each instance
  spared    \* history: stale rules the last import left for their instances

vars == <<rules, current, row, at, read, asked, engine, spared>>

Init ==
  /\ rules = [r \in RuleIds |-> Nil]
  /\ current = Nil
  /\ row = [i \in Instances |-> Nil]
  /\ at = [i \in Instances |-> "new"]
  /\ read = [i \in Instances |-> Nil]
  /\ asked = [i \in Instances |-> <<>>]
  /\ engine = [i \in Instances |-> Nil]
  /\ spared = {}

Stored == {r \in RuleIds : rules[r] # Nil}
Rows   == {i \in Instances : row[i] # Nil}

\* Rules that some instance refers to.
InUse == {row[i].rule : i \in Rows}

-----------------------------------------------------------------------------
(* Rules                                                                   *)

\* create_rule: the behaviour is what the document has under "behavior", or
\* else the document itself.  The id is new.
CreateRule(r, p, named, behavior, port) ==
  /\ rules[r] = Nil
  /\ Known(p) /\ named /\ Fits(p, behavior)
  /\ rules' = [rules EXCEPT ![r] = [protocol |-> p, behavior |-> behavior,
                                    default |-> port, from |-> "user"]]
  /\ UNCHANGED <<current, row, at, read, asked, engine, spared>>

\* Deleting a rule deletes its instances (ON DELETE CASCADE).
WithoutRules(gone) == [i \in Instances |-> IF i \in Rows /\ row[i].rule \in gone THEN Nil ELSE row[i]]

DeleteRule(r) ==
  /\ rules[r] # Nil
  /\ rules' = [rules EXCEPT ![r] = Nil]
  /\ row' = WithoutRules({r})
  /\ UNCHANGED <<current, at, read, asked, engine, spared>>

\* Mutant: a rule that is there already is left as it is.
ImportNew(package) ==
  /\ Accepts(package) /\ package.min <= PlatformVersion
  /\ LET stale == (Stored \cap OfficialRules) \ NumbersOf(package)
         gone  == stale \ InUse
     IN /\ rules' = [r \in RuleIds |->
                       IF r \in NumbersOf(package) \ Stored THEN ImportedRule(package, r)
                       ELSE IF r \in gone THEN Nil ELSE rules[r]]
        /\ row' = WithoutRules(gone)
        /\ spared' = stale \ gone
  /\ current' = package
  /\ UNCHANGED <<at, read, asked, engine>>

\* Mutant: stale rules are dropped without a look at the instances.
ImportDropping(package) ==
  /\ Accepts(package) /\ package.min <= PlatformVersion
  /\ LET gone == (Stored \cap OfficialRules) \ NumbersOf(package)
     IN /\ rules' = [r \in RuleIds |->
                       IF r \in NumbersOf(package) THEN ImportedRule(package, r)
                       ELSE IF r \in gone THEN Nil ELSE rules[r]]
        /\ row' = WithoutRules(gone)
        /\ spared' = {}
  /\ current' = package
  /\ UNCHANGED <<at, read, asked, engine>>

\* import_rule_package, one transaction: the rules of the package replace
\* those with their numbers, and other packaged rules go unless an instance
\* refers to them.
Import(package) ==
  /\ Accepts(package) /\ package.min <= PlatformVersion
  /\ LET stale == (Stored \cap OfficialRules) \ NumbersOf(package)
         gone  == stale \ InUse
     IN /\ rules' = [r \in RuleIds |->
                       IF r \in NumbersOf(package) THEN ImportedRule(package, r)
                       ELSE IF r \in gone THEN Nil ELSE rules[r]]
        /\ row' = WithoutRules(gone)
        /\ spared' = stale \ gone
  /\ current' = package
  /\ UNCHANGED <<at, read, asked, engine>>

-----------------------------------------------------------------------------
(* Deployment                                                              *)

\* deploy_instance reads the rule and examines the bindings.
DeployRead(i, r, bindings) ==
  /\ at[i] = "new" /\ rules[r] # Nil
  /\ AcceptsBindings(rules[r].protocol, bindings)
  /\ at' = [at EXCEPT ![i] = "read"]
  /\ read' = [read EXCEPT ![i] = [id |-> r, rule |-> rules[r]]]
  /\ asked' = [asked EXCEPT ![i] = bindings]
  /\ UNCHANGED <<rules, current, row, engine, spared>>

\* Mutant: foreign keys are not enforced.
InsertAnyway(i) ==
  /\ at[i] = "read"
  /\ at' = [at EXCEPT ![i] = "inserted"]
  /\ row' = [row EXCEPT ![i] =
       [rule |-> read[i].id, protocol |-> read[i].rule.protocol,
        endpoints |-> BoundEndpoints(read[i].rule.protocol, asked[i])]]
  /\ UNCHANGED <<rules, current, read, asked, engine, spared>>

\* insert_instance_if_port_available: without the rule the foreign key fails.
DeployInsert(i) ==
  /\ at[i] = "read"
  /\ IF rules[read[i].id] = Nil
     THEN at' = [at EXCEPT ![i] = "over"] /\ UNCHANGED row
     ELSE /\ at' = [at EXCEPT ![i] = "inserted"]
          /\ row' = [row EXCEPT ![i] =
               [rule |-> read[i].id, protocol |-> read[i].rule.protocol,
                endpoints |-> BoundEndpoints(read[i].rule.protocol, asked[i])]]
  /\ UNCHANGED <<rules, current, read, asked, engine, spared>>

\* Mutant: the rule is read again for the launch configuration.
StartRereading(i) ==
  /\ at[i] = "inserted" /\ rules[read[i].id] # Nil
  /\ at' = [at EXCEPT ![i] = "over"]
  /\ LET rule == rules[read[i].id] IN
     engine' = [engine EXCEPT ![i] =
       [protocol |-> rule.protocol, behavior |-> rule.behavior,
        endpoints |-> BoundEndpoints(rule.protocol, asked[i]), state |-> "starting"]]
  /\ UNCHANGED <<rules, current, row, read, asked, spared>>

\* The launch configuration is built from the copy of the rule, and the Agent
\* starts an engine with it.
DeployStart(i) ==
  /\ at[i] = "inserted"
  /\ at' = [at EXCEPT ![i] = "over"]
  /\ engine' = [engine EXCEPT ![i] =
       [protocol |-> read[i].rule.protocol, behavior |-> read[i].rule.behavior,
        endpoints |-> BoundEndpoints(read[i].rule.protocol, asked[i]), state |-> "starting"]]
  /\ UNCHANGED <<rules, current, row, read, asked, spared>>

\* The handler ends before: occupied ports, a failing Agent, a client that
\* goes.  The row goes with it or stays.
DeployGivesUp(i) ==
  /\ at[i] \in {"read", "inserted"}
  /\ at' = [at EXCEPT ![i] = "over"]
  /\ \/ UNCHANGED row
     \/ row' = [row EXCEPT ![i] = Nil]
  /\ UNCHANGED <<rules, current, read, asked, engine, spared>>

\* undeploy_instance that succeeds.  It leaves an engine alone whose workload
\* id is not recorded yet.
Undeploy(i) ==
  /\ row[i] # Nil
  /\ row' = [row EXCEPT ![i] = Nil]
  /\ engine' \in {engine, [engine EXCEPT ![i] = Nil]}
  /\ UNCHANGED <<rules, current, at, read, asked, spared>>

\* The engine examines its endpoints and its behaviour, and serves or ends.
EngineStart(i) ==
  /\ engine[i] # Nil /\ engine[i].state = "starting"
  /\ LET e == engine[i]
         ok == /\ EngineAccepts(e.protocol, e.endpoints)
               /\ \A endpoint \in e.endpoints : EngineServes(e.protocol, endpoint)
               /\ EngineCanUse(e.protocol, e.behavior)
     IN engine' = [engine EXCEPT ![i].state = IF ok THEN "serving" ELSE "refused"]
  /\ UNCHANGED <<rules, current, row, at, read, asked, spared>>

Next ==
  \/ \E r \in CustomRules, p \in Offered, named \in BOOLEAN, behavior \in Behaviors :
       CreateRule(r, p, named, behavior, 80)
  \/ \E r \in RuleIds : DeleteRule(r)
  \/ \E package \in Packages : Import(package)
  \/ \E i \in Instances :
       \/ \E r \in RuleIds, bindings \in BindingLists : DeployRead(i, r, bindings)
       \/ DeployInsert(i) \/ DeployStart(i) \/ DeployGivesUp(i) \/ Undeploy(i) \/ EngineStart(i)

Spec == Init /\ [][Next]_vars

-----------------------------------------------------------------------------
(* Properties                                                              *)

TypeOK ==
  /\ \A r \in RuleIds : rules[r] = Nil \/ rules[r] \in StoredRules
  /\ current \in Packages \cup {Nil}
  /\ at \in [Instances -> {"new", "read", "inserted", "over"}]
  /\ \A i \in Instances :
       /\ at[i] # "new" => read[i].id \in RuleIds /\ read[i].rule \in StoredRules
       /\ row[i] # Nil => row[i].rule \in RuleIds /\ row[i].protocol \in Protocols
       /\ engine[i] # Nil => engine[i].state \in {"starting", "serving", "refused"}
  /\ spared \subseteq OfficialRules

\* An instance always has its rule, whatever is deleted or imported between
\* the steps of its deployment (foreign key, cascade, NOT EXISTS of the import).
RowsHaveRules == InUse \subseteq Stored

\* What users, packages and deployments get past the API is refused by an
\* engine only for values of the behaviour that the API takes for text
\* (validate_behavior, validate_rule_endpoints and deploy_instance against
\* validated_endpoints, run_tcp_simulation, run_udp_simulation, parse_rule_config).
RefusedForValuesOnly ==
  \A i \in Instances : engine[i] # Nil /\ engine[i].state = "refused" =>
    engine[i].behavior = "unusable" /\ engine[i].protocol \in Examining

\* An engine plays the protocol and has the endpoints that its instance's row
\* shows, though the rule may have become another one since it was read.
EngineMatchesRow ==
  \A i \in Instances : row[i] # Nil /\ engine[i] # Nil =>
    /\ engine[i].protocol = row[i].protocol
    /\ engine[i].endpoints = row[i].endpoints

\* The packaged rules are those of the package that the API shows as current,
\* with its contents, and the stale ones that instances used at its import.
CatalogIsCurrent ==
  \A n \in Stored \cap OfficialRules :
    IF current # Nil /\ n \in NumbersOf(current)
    THEN rules[n] = ImportedRule(current, n)
    ELSE n \in spared

\* An import removes no instance, though it removes rules and removing rules
\* removes instances; and it leaves the users' rules alone.
ImportSparesInstances ==
  [][(\E package \in Packages : Import(package)) =>
       row' = row /\ \A r \in CustomRules : rules'[r] = rules[r]]_vars
=============================================================================
