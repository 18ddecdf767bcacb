--------------------------- MODULE RuleCatalogProofs ---------------------------
(***************************************************************************)
(* Theorems about RuleCatalog, for any packages, rules, bindings and       *)
(* instances.                                                              *)
(*                                                                         *)
(* The inductive invariant is TypeOK with Traced: a rule that is stored    *)
(* fits its protocol, the copy that a deployment holds and the engine that *)
(* it starts come from such a rule with bindings that were accepted, and   *)
(* the row has the protocol and the endpoints of that copy.                *)
(***************************************************************************)
EXTENDS RuleCatalog, TLAPS, FiniteSetTheorems

\* Variables that are functions.
Shapes ==
  /\ rules = [r \in RuleIds |-> rules[r]]
  /\ row = [i \in Instances |-> row[i]]
  /\ read = [i \in Instances |-> read[i]]
  /\ asked = [i \in Instances |-> asked[i]]
  /\ engine = [i \in Instances |-> engine[i]]

StoredFit ==
  \A r \in RuleIds : rules[r] # Nil => Fits(rules[r].protocol, rules[r].behavior)

\* What a deployment has in its hands once it has read the rule.
CopyInv ==
  \A i \in Instances : at[i] # "new" =>
    /\ Fits(read[i].rule.protocol, read[i].rule.behavior)
    /\ AcceptsBindings(read[i].rule.protocol, asked[i])

RowInv ==
  \A i \in Instances :
    /\ at[i] \in {"new", "read"} => row[i] = Nil
    /\ at[i] = "inserted" /\ row[i] # Nil =>
         /\ row[i].protocol = read[i].rule.protocol
         /\ row[i].endpoints = BoundEndpoints(read[i].rule.protocol, asked[i])

\* The engine has what some accepted deployment of a fitting rule gave it.
EngineInv ==
  \A i \in Instances :
    /\ at[i] # "over" => engine[i] = Nil
    /\ engine[i] # Nil =>
         /\ engine[i] = [protocol |-> engine[i].protocol, behavior |-> engine[i].behavior,
                         endpoints |-> engine[i].endpoints, state |-> engine[i].state]
         /\ engine[i].protocol \in Protocols
         /\ engine[i].behavior \in Behaviors
         /\ Fits(engine[i].protocol, engine[i].behavior)
         /\ EngineAccepts(engine[i].protocol, engine[i].endpoints)
         /\ \A endpoint \in engine[i].endpoints : EngineServes(engine[i].protocol, endpoint)

Traced == Shapes /\ StoredFit /\ CopyInv /\ RowInv /\ EngineInv

-----------------------------------------------------------------------------
(* Descriptors and bindings                                                *)

LEMMA OneOrTwoEndpoints ==
  ASSUME NEW p
  PROVE  /\ IsFiniteSet(Descriptor(p))
         /\ p # "dns" => \E d : Descriptor(p) = {d} /\ Cardinality(Descriptor(p)) = 1
         /\ p = "dns" => Cardinality(Descriptor(p)) = 2
<1>1. CASE p = "dns"
  <2>. DEFINE tcp == EndpointSpec("dns-tcp", "tcp", p)
              udp == EndpointSpec("dns-udp", "udp", p)
  <2>1. tcp # udp
    BY DEF EndpointSpec
  <2>2. Descriptor(p) = {tcp} \cup {udp}
    BY <1>1 DEF Descriptor
  <2>3. IsFiniteSet({tcp}) /\ Cardinality({tcp}) = 1
    BY FS_Singleton
  <2>4. udp \notin {tcp}
    BY <2>1
  <2>5. /\ IsFiniteSet({tcp} \cup {udp})
        /\ Cardinality({tcp} \cup {udp}) = Cardinality({tcp}) + 1
    BY <2>3, <2>4, FS_AddElement
  <2>. QED  BY <1>1, <2>2, <2>3, <2>5
<1>2. CASE p # "dns"
  <2>1. PICK d : Descriptor(p) = {d}
    BY <1>2 DEF Descriptor
  <2>2. IsFiniteSet({d}) /\ Cardinality({d}) = 1
    BY FS_Singleton
  <2>. QED  BY <1>2, <2>1, <2>2
<1>. QED  BY <1>1, <1>2

LEMMA DescriptorById ==
  ASSUME NEW p, NEW d \in Descriptor(p), NEW e \in Descriptor(p)
  PROVE  /\ d.id = e.id => d = e
         /\ d.required
         /\ EngineServes(p, d)
<1>1. CASE p = "dns"
  <2>1. d \in {EndpointSpec("dns-tcp", "tcp", p), EndpointSpec("dns-udp", "udp", p)}
    BY <1>1 DEF Descriptor
  <2>2. e \in {EndpointSpec("dns-tcp", "tcp", p), EndpointSpec("dns-udp", "udp", p)}
    BY <1>1 DEF Descriptor
  <2>3. d.id = e.id => d = e
    <3>1. /\ EndpointSpec("dns-tcp", "tcp", p).id = "dns-tcp"
          /\ EndpointSpec("dns-udp", "udp", p).id = "dns-udp"
      BY DEF EndpointSpec
    <3>. QED  BY <2>1, <2>2, <3>1
  <2>4. d.required
    BY <2>1 DEF EndpointSpec
  <2>5. EngineServes(p, d)
    BY <1>1 DEF EngineServes
  <2>. QED  BY <2>3, <2>4, <2>5
<1>2. CASE p = "snmp"
  <2>1. d = EndpointSpec("main", "udp", p) /\ e = d
    BY <1>2 DEF Descriptor
  <2>. QED  BY <1>2, <2>1 DEF EndpointSpec, EngineServes
<1>3. CASE p # "dns" /\ p # "snmp"
  <2>1. d = EndpointSpec("main", "tcp", p) /\ e = d
    BY <1>3 DEF Descriptor
  <2>. QED  BY <1>3, <2>1 DEF EndpointSpec, EngineServes
<1>. QED  BY <1>1, <1>2, <1>3

LEMMA DescriptorNotEmpty ==
  ASSUME NEW p
  PROVE  \E d : d \in Descriptor(p)
  BY DEF Descriptor

\* The engine agrees with the API about bindings.
LEMMA AcceptedIsServed ==
  ASSUME NEW p, NEW bindings, AcceptsBindings(p, bindings)
  PROVE  /\ EngineAccepts(p, BoundEndpoints(p, bindings))
         /\ \A e \in BoundEndpoints(p, bindings) : EngineServes(p, e)
<1>. DEFINE Bound(d) == [id |-> d.id, transport |-> d.transport, port |-> d.port,
                         host |-> HostOf(bindings, d.id)]
<1>1. \A d \in Descriptor(p) : d.id \in Requested(bindings)
  BY DescriptorById DEF AcceptsBindings
<1>2. BoundEndpoints(p, bindings) = {Bound(d) : d \in Descriptor(p)}
  BY <1>1 DEF BoundEndpoints
<1>. HIDE DEF Bound
<1>3. \A d : Bound(d).id = d.id /\ Bound(d).transport = d.transport /\ Bound(d).port = d.port
  BY DEF Bound
<1>4. BoundEndpoints(p, bindings) # {}
  BY <1>2, DescriptorNotEmpty
<1>5. \A e, f \in BoundEndpoints(p, bindings) : e.id = f.id => e = f
  BY <1>2, <1>3, DescriptorById
<1>6. \A e \in BoundEndpoints(p, bindings) :
        \E d \in Descriptor(p) : d.id = e.id /\ d.transport = e.transport /\ d.port = e.port
  BY <1>2, <1>3
<1>7. \A d \in Descriptor(p) : d.required => \E e \in BoundEndpoints(p, bindings) : e.id = d.id
  BY <1>2, <1>3
<1>8. \A e \in BoundEndpoints(p, bindings) : EngineServes(p, e)
  BY <1>2, <1>3, DescriptorById DEF EngineServes
<1>. QED  BY <1>4, <1>5, <1>6, <1>7, <1>8 DEF EngineAccepts

-----------------------------------------------------------------------------
(* Packages                                                                *)

\* The endpoint whose port is the default is one of the descriptor's.
LEMMA DefaultIsPort ==
  ASSUME NEW r \in PackagedRules, RuleEndpointsOk(r)
  PROVE  DefaultHostPort(r) \in PortNumbers
<1>. DEFINE main == {k \in DOMAIN r.endpoints : r.endpoints[k].id = "main"}
            primary == IF main # {} THEN CHOOSE k \in main : \A l \in main : k <= l ELSE 1
<1>0. r.endpoints \in Seq(PackagedEndpoints) /\ DOMAIN r.endpoints = 1..Len(r.endpoints)
  BY DEF PackagedRules
<1>1. \A d \in Descriptor(r.protocol) : \E k \in DOMAIN r.endpoints :
        r.endpoints[k].id = d.id /\ r.endpoints[k].default \in PortNumbers
  BY DEF RuleEndpointsOk
<1>2. CASE r.protocol # "dns"
  <2>1. DOMAIN r.endpoints = {1}
    BY <1>0, <1>2, OneOrTwoEndpoints DEF RuleEndpointsOk
  <2>2. r.endpoints[1].default \in PortNumbers
    BY <1>1, <2>1, DescriptorNotEmpty
  <2>3. main # {} => main = {1}
    BY <2>1
  <2>4. primary = 1
    <3>1. CASE main = {1}
      <4>1. \E k \in main : \A l \in main : k <= l
        BY <3>1
      <4>. QED  BY <3>1, <4>1
    <3>. QED  BY <2>3, <3>1
  <2>. QED  BY <2>2, <2>4 DEF DefaultHostPort
<1>3. CASE r.protocol = "dns"
  <2>1. DOMAIN r.endpoints = 1..2
    BY <1>0, <1>3, OneOrTwoEndpoints DEF RuleEndpointsOk
  <2>2. PICK k \in 1..2 : r.endpoints[k].id = "dns-tcp" /\ r.endpoints[k].default \in PortNumbers
    BY <1>1, <1>3, <2>1 DEF Descriptor, EndpointSpec
  <2>3. PICK l \in 1..2 : r.endpoints[l].id = "dns-udp" /\ r.endpoints[l].default \in PortNumbers
    BY <1>1, <1>3, <2>1 DEF Descriptor, EndpointSpec
  <2>4. {k, l} = 1..2
    BY <2>2, <2>3
  <2>5. main = {}
    BY <2>1, <2>2, <2>3, <2>4
  <2>6. r.endpoints[1].default \in PortNumbers
    BY <2>2, <2>3, <2>4
  <2>. QED  BY <2>5, <2>6 DEF DefaultHostPort
<1>. QED  BY <1>2, <1>3

\* What an accepted package stores is a rule that fits its protocol.
LEMMA ImportedIsStored ==
  ASSUME NEW package \in Packages, Accepts(package), NEW n \in NumbersOf(package)
  PROVE  /\ ImportedRule(package, n) \in StoredRules
         /\ ImportedRule(package, n) # Nil
         /\ Fits(ImportedRule(package, n).protocol, ImportedRule(package, n).behavior)
<1>. DEFINE k == CHOOSE l \in DOMAIN package.rules : package.rules[l].number = n
            r == package.rules[k]
<1>1. k \in DOMAIN package.rules
  BY DEF NumbersOf
<1>. HIDE DEF k
<1>2. r \in PackagedRules
  <2>1. package.rules \in Seq(PackagedRules)
    BY PackagesAssumption
  <2>. QED  BY <1>1, <2>1
<1>3. Known(r.protocol) /\ RuleEndpointsOk(r) /\ Fits(r.protocol, Whole(r.config))
  BY <1>1 DEF Accepts, RulesOk
<1>4. ImportedRule(package, n) =
        [protocol |-> r.protocol, behavior |-> Whole(r.config),
         default |-> DefaultHostPort(r), from |-> package.version]
  BY DEF ImportedRule, k
<1>. HIDE DEF r
<1>5. DefaultHostPort(r) \in PortNumbers
  BY <1>2, <1>3, DefaultIsPort
<1>6. Whole(r.config) \in Behaviors
  BY <1>2 DEF PackagedRules, Documents, Whole, Behaviors
<1>7. ImportedRule(package, n) \in StoredRules
  BY <1>3, <1>4, <1>5, <1>6 DEF StoredRules, Known
<1>. QED  BY <1>3, <1>4, <1>7, CatalogAssumption

-----------------------------------------------------------------------------
(* Type correctness                                                        *)

LEMMA TypeInit == Init => TypeOK
  BY DEF Init, TypeOK

LEMMA TypeStep == TypeOK /\ Shapes /\ [Next]_vars => TypeOK'
<1>. SUFFICES ASSUME TypeOK, Shapes, [Next]_vars PROVE TypeOK'
  OBVIOUS
<1>. USE DEF TypeOK, Shapes
<1>1. ASSUME NEW r \in CustomRules, NEW p \in Offered, NEW named \in BOOLEAN,
             NEW behavior \in Behaviors, CreateRule(r, p, named, behavior, 80)
      PROVE  TypeOK'
  <2>1. [protocol |-> p, behavior |-> behavior, default |-> 80, from |-> "user"] \in StoredRules
    <3>1. p \in Protocols
      BY <1>1 DEF CreateRule, Known
    <3>2. 80 \in PortNumbers
      BY DEF PortNumbers
    <3>. QED  BY ONLY <3>1, <3>2, behavior \in Behaviors DEF StoredRules
  <2>. QED  BY <1>1, <2>1 DEF CreateRule
<1>2. ASSUME NEW r \in RuleIds, DeleteRule(r)
      PROVE  TypeOK'
  BY <1>2 DEF DeleteRule, WithoutRules
<1>3. ASSUME NEW package \in Packages, Import(package)
      PROVE  TypeOK'
  <2>1. \A r \in RuleIds : rules'[r] = Nil \/ rules'[r] \in StoredRules
    BY <1>3, ImportedIsStored DEF Import
  <2>2. \A i \in Instances : row'[i] # Nil => row'[i] = row[i]
    BY <1>3 DEF Import, WithoutRules
  <2>3. spared' \subseteq OfficialRules
    BY <1>3 DEF Import
  <2>. QED  BY <1>3, <2>1, <2>2, <2>3 DEF Import
<1>4. ASSUME NEW i \in Instances, NEW r \in RuleIds, NEW bindings \in BindingLists,
             DeployRead(i, r, bindings)
      PROVE  TypeOK'
  BY <1>4 DEF DeployRead
<1>5. ASSUME NEW i \in Instances, DeployInsert(i)
      PROVE  TypeOK'
  BY <1>5 DEF DeployInsert, StoredRules
<1>6. ASSUME NEW i \in Instances, DeployStart(i)
      PROVE  TypeOK'
  BY <1>6 DEF DeployStart
<1>7. ASSUME NEW i \in Instances, DeployGivesUp(i)
      PROVE  TypeOK'
  BY <1>7 DEF DeployGivesUp
<1>8. ASSUME NEW i \in Instances, Undeploy(i)
      PROVE  TypeOK'
  BY <1>8 DEF Undeploy
<1>9. ASSUME NEW i \in Instances, EngineStart(i)
      PROVE  TypeOK'
  BY <1>9 DEF EngineStart
<1>10. CASE UNCHANGED vars
  BY <1>10 DEF vars
<1>. HIDE DEF TypeOK, Shapes
<1>. QED  BY <1>1, <1>2, <1>3, <1>4, <1>5, <1>6, <1>7, <1>8, <1>9, <1>10 DEF Next

-----------------------------------------------------------------------------
(* The inductive invariant                                                 *)

LEMMA TracedInit == Init => Traced
  BY DEF Init, Traced, Shapes, StoredFit, CopyInv, RowInv, EngineInv

LEMMA ShapesStep == Shapes /\ [Next]_vars => Shapes'
<1>. SUFFICES ASSUME Shapes, [Next]_vars PROVE Shapes'
  OBVIOUS
<1>. USE DEF Shapes
<1>1. ASSUME NEW r \in CustomRules, NEW p \in Offered, NEW named \in BOOLEAN,
             NEW behavior \in Behaviors, CreateRule(r, p, named, behavior, 80)
      PROVE  Shapes'
  BY <1>1 DEF CreateRule
<1>2. ASSUME NEW r \in RuleIds, DeleteRule(r)
      PROVE  Shapes'
  BY <1>2 DEF DeleteRule, WithoutRules
<1>3. ASSUME NEW package \in Packages, Import(package)
      PROVE  Shapes'
  BY <1>3 DEF Import, WithoutRules
<1>4. ASSUME NEW i \in Instances, NEW r \in RuleIds, NEW bindings \in BindingLists,
             DeployRead(i, r, bindings)
      PROVE  Shapes'
  BY <1>4 DEF DeployRead
<1>5. ASSUME NEW i \in Instances, DeployInsert(i)
      PROVE  Shapes'
  BY <1>5 DEF DeployInsert
<1>6. ASSUME NEW i \in Instances, DeployStart(i)
      PROVE  Shapes'
  BY <1>6 DEF DeployStart
<1>7. ASSUME NEW i \in Instances, DeployGivesUp(i)
      PROVE  Shapes'
  BY <1>7 DEF DeployGivesUp
<1>8. ASSUME NEW i \in Instances, Undeploy(i)
      PROVE  Shapes'
  BY <1>8 DEF Undeploy
<1>9. ASSUME NEW i \in Instances, EngineStart(i)
      PROVE  Shapes'
  BY <1>9 DEF EngineStart
<1>10. CASE UNCHANGED vars
  BY <1>10 DEF vars
<1>. HIDE DEF Shapes
<1>. QED  BY <1>1, <1>2, <1>3, <1>4, <1>5, <1>6, <1>7, <1>8, <1>9, <1>10 DEF Next

LEMMA TracedStep == TypeOK /\ Traced /\ [Next]_vars => Traced'
<1>. SUFFICES ASSUME TypeOK, Traced, [Next]_vars PROVE Traced'
  OBVIOUS
<1>0. Shapes /\ StoredFit /\ CopyInv /\ RowInv /\ EngineInv /\ Shapes'
  BY ShapesStep DEF Traced
<1>. SUFFICES StoredFit' /\ CopyInv' /\ RowInv' /\ EngineInv'
  BY <1>0 DEF Traced
<1>1. ASSUME NEW r \in CustomRules, NEW p \in Offered, NEW named \in BOOLEAN,
             NEW behavior \in Behaviors, CreateRule(r, p, named, behavior, 80)
      PROVE  StoredFit' /\ CopyInv' /\ RowInv' /\ EngineInv'
  <2>1. StoredFit'
    BY <1>0, <1>1 DEF CreateRule, StoredFit, Shapes
  <2>2. CopyInv' /\ RowInv' /\ EngineInv'
    BY <1>0, <1>1 DEF CreateRule, CopyInv, RowInv, EngineInv
  <2>. QED  BY <2>1, <2>2
<1>2. ASSUME NEW r \in RuleIds, DeleteRule(r)
      PROVE  StoredFit' /\ CopyInv' /\ RowInv' /\ EngineInv'
  <2>1. StoredFit'
    BY <1>0, <1>2 DEF DeleteRule, StoredFit, Shapes
  <2>2. CopyInv' /\ EngineInv'
    BY <1>0, <1>2 DEF DeleteRule, CopyInv, EngineInv
  <2>3. RowInv'
    BY <1>0, <1>2 DEF DeleteRule, WithoutRules, RowInv
  <2>. QED  BY <2>1, <2>2, <2>3
<1>3. ASSUME NEW package \in Packages, Import(package)
      PROVE  StoredFit' /\ CopyInv' /\ RowInv' /\ EngineInv'
  <2>1. StoredFit'
    BY <1>0, <1>3, ImportedIsStored DEF Import, StoredFit
  <2>2. CopyInv' /\ EngineInv'
    BY <1>0, <1>3 DEF Import, CopyInv, EngineInv
  <2>3. RowInv'
    BY <1>0, <1>3 DEF Import, WithoutRules, RowInv
  <2>. QED  BY <2>1, <2>2, <2>3
<1>4. ASSUME NEW i \in Instances, NEW r \in RuleIds, NEW bindings \in BindingLists,
             DeployRead(i, r, bindings)
      PROVE  StoredFit' /\ CopyInv' /\ RowInv' /\ EngineInv'
  <2>1. StoredFit'
    BY <1>0, <1>4 DEF DeployRead, StoredFit
  <2>2. CopyInv'
    BY <1>0, <1>4 DEF DeployRead, CopyInv, StoredFit, Shapes, TypeOK
  <2>3. RowInv' /\ EngineInv'
    BY <1>0, <1>4 DEF DeployRead, RowInv, EngineInv, TypeOK, Shapes
  <2>. QED  BY <2>1, <2>2, <2>3
<1>5. ASSUME NEW i \in Instances, DeployInsert(i)
      PROVE  StoredFit' /\ CopyInv' /\ RowInv' /\ EngineInv'
  <2>1. StoredFit'
    BY <1>0, <1>5 DEF DeployInsert, StoredFit
  <2>2. CopyInv'
    BY <1>0, <1>5 DEF DeployInsert, CopyInv, TypeOK
  <2>3. RowInv'
    BY <1>0, <1>5 DEF DeployInsert, RowInv, TypeOK, Shapes
  <2>4. EngineInv'
    BY <1>0, <1>5 DEF DeployInsert, EngineInv, TypeOK
  <2>. QED  BY <2>1, <2>2, <2>3, <2>4
<1>6. ASSUME NEW i \in Instances, DeployStart(i)
      PROVE  StoredFit' /\ CopyInv' /\ RowInv' /\ EngineInv'
  <2>1. StoredFit' /\ CopyInv' /\ RowInv'
    BY <1>0, <1>6 DEF DeployStart, StoredFit, CopyInv, RowInv, TypeOK
  <2>. DEFINE p == read[i].rule.protocol
              b == read[i].rule.behavior
  <2>2. p \in Protocols /\ b \in Behaviors /\ Fits(p, b) /\ AcceptsBindings(p, asked[i])
    BY <1>0, <1>6 DEF DeployStart, CopyInv, TypeOK, StoredRules
  <2>3. /\ EngineAccepts(p, BoundEndpoints(p, asked[i]))
        /\ \A endpoint \in BoundEndpoints(p, asked[i]) : EngineServes(p, endpoint)
    BY <2>2, AcceptedIsServed
  <2>4. engine'[i] = [protocol |-> p, behavior |-> b,
                      endpoints |-> BoundEndpoints(p, asked[i]), state |-> "starting"]
    BY <1>0, <1>6 DEF DeployStart, Shapes
  <2>5. \A j \in Instances : j # i => engine'[j] = engine[j] /\ at'[j] = at[j]
    BY <1>0, <1>6 DEF DeployStart, Shapes, TypeOK
  <2>6. at'[i] = "over"
    BY <1>6 DEF DeployStart, TypeOK
  <2>. HIDE DEF p, b
  <2>7. EngineInv'
    BY <1>0, <2>2, <2>3, <2>4, <2>5, <2>6 DEF EngineInv
  <2>. QED  BY <2>1, <2>7
<1>7. ASSUME NEW i \in Instances, DeployGivesUp(i)
      PROVE  StoredFit' /\ CopyInv' /\ RowInv' /\ EngineInv'
  <2>1. StoredFit' /\ CopyInv'
    BY <1>0, <1>7 DEF DeployGivesUp, StoredFit, CopyInv, TypeOK
  <2>2. RowInv' /\ EngineInv'
    BY <1>0, <1>7 DEF DeployGivesUp, RowInv, EngineInv, TypeOK, Shapes
  <2>. QED  BY <2>1, <2>2
<1>8. ASSUME NEW i \in Instances, Undeploy(i)
      PROVE  StoredFit' /\ CopyInv' /\ RowInv' /\ EngineInv'
  <2>1. StoredFit' /\ CopyInv'
    BY <1>0, <1>8 DEF Undeploy, StoredFit, CopyInv
  <2>2. RowInv'
    BY <1>0, <1>8 DEF Undeploy, RowInv, Shapes
  <2>3. EngineInv'
    BY <1>0, <1>8 DEF Undeploy, EngineInv, Shapes
  <2>. QED  BY <2>1, <2>2, <2>3
<1>9. ASSUME NEW i \in Instances, EngineStart(i)
      PROVE  StoredFit' /\ CopyInv' /\ RowInv' /\ EngineInv'
  <2>1. StoredFit' /\ CopyInv' /\ RowInv'
    BY <1>0, <1>9 DEF EngineStart, StoredFit, CopyInv, RowInv
  <2>2. PICK s : engine' = [engine EXCEPT ![i].state = s]
    BY <1>9 DEF EngineStart
  <2>3. EngineInv'
    BY <1>0, <1>9, <2>2 DEF EngineStart, EngineInv, Shapes
  <2>. QED  BY <2>1, <2>3
<1>10. CASE UNCHANGED vars
  BY <1>0, <1>10 DEF vars, StoredFit, CopyInv, RowInv, EngineInv
<1>. QED  BY <1>1, <1>2, <1>3, <1>4, <1>5, <1>6, <1>7, <1>8, <1>9, <1>10 DEF Next

-----------------------------------------------------------------------------
(* Theorems                                                                *)

LEMMA Invariant == Spec => [](TypeOK /\ Traced)
<1>1. Init => TypeOK /\ Traced
  BY TypeInit, TracedInit
<1>2. TypeOK /\ Traced /\ [Next]_vars => (TypeOK /\ Traced)'
  <2>1. Traced => Shapes
    BY DEF Traced
  <2>. QED  BY <2>1, TypeStep, TracedStep
<1>. QED  BY <1>1, <1>2, PTL DEF Spec

\* Every rule that is stored, read, shown and run has its type, above all a
\* port that is one (parse_slrp, create_rule, deploy_instance).
THEOREM TypeCorrect == Spec => []TypeOK
  BY Invariant, PTL

LEMMA ReferenceStep ==
  TypeOK /\ Shapes /\ RowsHaveRules /\ [Next]_vars => RowsHaveRules'
<1>. SUFFICES ASSUME TypeOK, Shapes, RowsHaveRules, [Next]_vars PROVE RowsHaveRules'
  OBVIOUS
<1>0. \A i \in Instances : row[i] # Nil => rules[row[i].rule] # Nil
  BY DEF RowsHaveRules, InUse, Rows, Stored
<1>. SUFFICES ASSUME NEW j \in Instances, row'[j] # Nil
              PROVE  row'[j].rule \in RuleIds /\ rules'[row'[j].rule] # Nil
  BY DEF RowsHaveRules, InUse, Rows, Stored
<1>1. ASSUME NEW r \in CustomRules, NEW p \in Offered, NEW named \in BOOLEAN,
             NEW behavior \in Behaviors, CreateRule(r, p, named, behavior, 80)
      PROVE  row'[j].rule \in RuleIds /\ rules'[row'[j].rule] # Nil
  BY <1>0, <1>1 DEF CreateRule, TypeOK, Shapes
<1>2. ASSUME NEW r \in RuleIds, DeleteRule(r)
      PROVE  row'[j].rule \in RuleIds /\ rules'[row'[j].rule] # Nil
  BY <1>0, <1>2 DEF DeleteRule, WithoutRules, Rows, TypeOK, Shapes
<1>3. ASSUME NEW package \in Packages, Import(package)
      PROVE  row'[j].rule \in RuleIds /\ rules'[row'[j].rule] # Nil
  <2>1. row'[j] = row[j]
    BY <1>3 DEF Import, WithoutRules
  <2>2. row[j].rule \in RuleIds /\ rules[row[j].rule] # Nil
    BY <1>0, <2>1 DEF TypeOK
  <2>3. row[j].rule \in InUse
    BY <2>1 DEF InUse, Rows
  <2>4. rules'[row[j].rule] # Nil
    BY <1>3, <2>2, <2>3, ImportedIsStored DEF Import
  <2>. QED  BY <2>1, <2>2, <2>4
<1>4. ASSUME NEW i \in Instances, NEW r \in RuleIds, NEW bindings \in BindingLists,
             DeployRead(i, r, bindings)
      PROVE  row'[j].rule \in RuleIds /\ rules'[row'[j].rule] # Nil
  BY <1>0, <1>4 DEF DeployRead, TypeOK
<1>5. ASSUME NEW i \in Instances, DeployInsert(i)
      PROVE  row'[j].rule \in RuleIds /\ rules'[row'[j].rule] # Nil
  BY <1>0, <1>5 DEF DeployInsert, TypeOK, Shapes
<1>6. ASSUME NEW i \in Instances, DeployStart(i)
      PROVE  row'[j].rule \in RuleIds /\ rules'[row'[j].rule] # Nil
  BY <1>0, <1>6 DEF DeployStart, TypeOK
<1>7. ASSUME NEW i \in Instances, DeployGivesUp(i)
      PROVE  row'[j].rule \in RuleIds /\ rules'[row'[j].rule] # Nil
  BY <1>0, <1>7 DEF DeployGivesUp, TypeOK, Shapes
<1>8. ASSUME NEW i \in Instances, Undeploy(i)
      PROVE  row'[j].rule \in RuleIds /\ rules'[row'[j].rule] # Nil
  BY <1>0, <1>8 DEF Undeploy, TypeOK, Shapes
<1>9. ASSUME NEW i \in Instances, EngineStart(i)
      PROVE  row'[j].rule \in RuleIds /\ rules'[row'[j].rule] # Nil
  BY <1>0, <1>9 DEF EngineStart, TypeOK
<1>10. CASE UNCHANGED vars
  BY <1>0, <1>10 DEF vars, TypeOK
<1>. QED  BY <1>1, <1>2, <1>3, <1>4, <1>5, <1>6, <1>7, <1>8, <1>9, <1>10 DEF Next

\* No deletion and no import, at whatever moment of a deployment, leaves an
\* instance whose rule is gone (the foreign key of db.rs, import_rule_package).
THEOREM RulesOutliveRows == Spec => []RowsHaveRules
<1>1. Init => RowsHaveRules
  BY DEF Init, RowsHaveRules, InUse, Rows
<1>2. Traced => Shapes
  BY DEF Traced
<1>3. TypeOK /\ Traced /\ RowsHaveRules /\ [Next]_vars => RowsHaveRules'
  BY <1>2, ReferenceStep
<1>. QED  BY <1>1, <1>3, Invariant, PTL DEF Spec

\* An engine ends by itself at its start only for a value of its behaviour
\* (validated_endpoints and parse_rule_config against what the API accepts).
THEOREM EnginesStart == Spec => []RefusedForValuesOnly
<1>1. Init => RefusedForValuesOnly
  BY DEF Init, RefusedForValuesOnly
<1>2. TypeOK /\ Traced /\ RefusedForValuesOnly /\ [Next]_vars => RefusedForValuesOnly'
  <2>. SUFFICES ASSUME TypeOK, Traced, RefusedForValuesOnly, [Next]_vars,
                       NEW j \in Instances, engine'[j] # Nil, engine'[j].state = "refused"
                PROVE  engine'[j].behavior = "unusable" /\ engine'[j].protocol \in Examining
    BY DEF RefusedForValuesOnly
  <2>0. Shapes /\ EngineInv
    BY DEF Traced
  <2>1. CASE engine'[j] = engine[j]
    BY <2>1 DEF RefusedForValuesOnly
  <2>2. ASSUME NEW i \in Instances, EngineStart(i), engine'[j] # engine[j]
        PROVE  engine'[j].behavior = "unusable" /\ engine'[j].protocol \in Examining
    <3>1. i = j /\ engine[i] # Nil
      BY <2>0, <2>2 DEF EngineStart, Shapes
    <3>2. PICK s : engine' = [engine EXCEPT ![i].state = s]
      BY <2>2 DEF EngineStart
    <3>3. /\ engine'[i].behavior = engine[i].behavior
          /\ engine'[i].protocol = engine[i].protocol
      BY <2>0, <3>1, <3>2 DEF EngineInv, Shapes
    <3>4. ~EngineCanUse(engine[i].protocol, engine[i].behavior)
      BY <2>0, <2>2, <3>1 DEF EngineStart, EngineInv, Shapes
    <3>. QED  BY <2>0, <3>1, <3>3, <3>4 DEF EngineInv, EngineCanUse
  <2>3. ASSUME NEW i \in Instances, DeployStart(i), engine'[j] # engine[j]
        PROVE  FALSE
    BY <2>0, <2>3 DEF DeployStart, Shapes
  <2>4. ASSUME NEW i \in Instances, Undeploy(i)
        PROVE  engine'[j] \in {engine[j], Nil}
    BY <2>0, <2>4 DEF Undeploy, Shapes
  <2>5. \/ engine' = engine
        \/ \E i \in Instances : EngineStart(i) \/ DeployStart(i) \/ Undeploy(i)
    BY DEF Next, vars, CreateRule, DeleteRule, Import, DeployRead, DeployInsert, DeployGivesUp
  <2>. QED  BY <2>1, <2>2, <2>3, <2>4, <2>5
<1>. QED  BY <1>1, <1>2, Invariant, PTL DEF Spec

LEMMA MatchStep ==
  TypeOK /\ Traced /\ EngineMatchesRow /\ [Next]_vars => EngineMatchesRow'
<1>. SUFFICES ASSUME TypeOK, Traced, EngineMatchesRow, [Next]_vars,
                     NEW j \in Instances, row'[j] # Nil, engine'[j] # Nil
              PROVE  /\ engine'[j].protocol = row'[j].protocol
                     /\ engine'[j].endpoints = row'[j].endpoints
  BY DEF EngineMatchesRow
<1>0. Shapes /\ RowInv /\ EngineInv
  BY DEF Traced
<1>1. CASE row'[j] = row[j] /\ engine'[j] = engine[j]
  BY <1>1 DEF EngineMatchesRow
<1>2. ASSUME NEW i \in Instances, DeployInsert(i)
      PROVE  row'[j] = row[j] /\ engine'[j] = engine[j]
  BY <1>0, <1>2 DEF DeployInsert, EngineInv, Shapes
<1>3. ASSUME NEW i \in Instances, DeployStart(i), i = j
      PROVE  /\ engine'[j].protocol = row'[j].protocol
             /\ engine'[j].endpoints = row'[j].endpoints
  BY <1>0, <1>3 DEF DeployStart, RowInv, Shapes
<1>4. ASSUME NEW i \in Instances, DeployStart(i), i # j
      PROVE  row'[j] = row[j] /\ engine'[j] = engine[j]
  BY <1>0, <1>4 DEF DeployStart, Shapes
<1>5. ASSUME NEW i \in Instances, EngineStart(i)
      PROVE  /\ row'[j] = row[j] /\ engine[j] # Nil
             /\ engine'[j].protocol = engine[j].protocol
             /\ engine'[j].endpoints = engine[j].endpoints
  <2>1. PICK s : engine' = [engine EXCEPT ![i].state = s]
    BY <1>5 DEF EngineStart
  <2>. QED  BY <1>0, <1>5, <2>1 DEF EngineStart, EngineInv, Shapes
<1>6. ASSUME NEW i \in Instances, DeployGivesUp(i) \/ Undeploy(i)
      PROVE  row'[j] = row[j] /\ engine'[j] = engine[j]
  BY <1>0, <1>6 DEF DeployGivesUp, Undeploy, Shapes
<1>7. ASSUME NEW r \in RuleIds, DeleteRule(r)
      PROVE  row'[j] = row[j] /\ engine'[j] = engine[j]
  BY <1>7 DEF DeleteRule, WithoutRules
<1>8. ASSUME NEW package \in Packages, Import(package)
      PROVE  row'[j] = row[j] /\ engine'[j] = engine[j]
  BY <1>8 DEF Import, WithoutRules
<1>9. \/ row' = row /\ engine' = engine
      \/ \E r \in RuleIds : DeleteRule(r)
      \/ \E package \in Packages : Import(package)
      \/ \E i \in Instances : \/ DeployInsert(i) \/ DeployStart(i) \/ DeployGivesUp(i)
                              \/ Undeploy(i) \/ EngineStart(i)
  BY DEF Next, vars, CreateRule, DeployRead
<1>. QED  BY <1>1, <1>2, <1>3, <1>4, <1>5, <1>6, <1>7, <1>8, <1>9 DEF EngineMatchesRow

\* Whatever happens to the rule while an instance is deployed, its engine is
\* what its row shows (deploy_instance keeps the copy it has read).
THEOREM EnginesMatchRows == Spec => []EngineMatchesRow
<1>1. Init => EngineMatchesRow
  BY DEF Init, EngineMatchesRow
<1>. QED  BY <1>1, MatchStep, Invariant, PTL DEF Spec

LEMMA CurrentStep ==
  TypeOK /\ Shapes /\ CatalogIsCurrent /\ [Next]_vars => CatalogIsCurrent'
<1>. SUFFICES ASSUME TypeOK, Shapes, CatalogIsCurrent, [Next]_vars,
                     NEW n \in OfficialRules, rules'[n] # Nil
              PROVE  IF current' # Nil /\ n \in NumbersOf(current')
                     THEN rules'[n] = ImportedRule(current', n)
                     ELSE n \in spared'
  BY DEF CatalogIsCurrent, Stored
<1>0. n \in RuleIds /\ (rules[n] # Nil => n \in Stored \cap OfficialRules)
  BY DEF RuleIds, Stored
<1>1. CASE rules'[n] = rules[n] /\ current' = current /\ spared' = spared
  BY <1>0, <1>1 DEF CatalogIsCurrent
<1>2. ASSUME NEW package \in Packages, Import(package)
      PROVE  IF current' # Nil /\ n \in NumbersOf(current')
             THEN rules'[n] = ImportedRule(current', n)
             ELSE n \in spared'
  <2>1. current' = package /\ package # Nil
    BY <1>2, CatalogAssumption DEF Import
  <2>2. CASE n \in NumbersOf(package)
    BY <1>0, <1>2, <2>1, <2>2 DEF Import
  <2>3. CASE n \notin NumbersOf(package)
    <3>1. rules[n] # Nil
      BY <1>0, <1>2, <2>3 DEF Import
    <3>. QED  BY <1>0, <1>2, <2>1, <2>3, <3>1 DEF Import
  <2>. QED  BY <2>2, <2>3
<1>3. ASSUME NEW r \in CustomRules, NEW p \in Offered, NEW named \in BOOLEAN,
             NEW behavior \in Behaviors, CreateRule(r, p, named, behavior, 80)
      PROVE  rules'[n] = rules[n] /\ current' = current /\ spared' = spared
  <2>1. r # n
    BY CatalogAssumption
  <2>. QED  BY <1>3, <2>1 DEF CreateRule, Shapes
<1>4. ASSUME NEW r \in RuleIds, DeleteRule(r)
      PROVE  rules'[n] = rules[n] /\ current' = current /\ spared' = spared
  BY <1>0, <1>4 DEF DeleteRule, Shapes
<1>5. \/ rules' = rules /\ current' = current /\ spared' = spared
      \/ \E package \in Packages : Import(package)
      \/ \E r \in CustomRules, p \in Offered, named \in BOOLEAN, behavior \in Behaviors :
           CreateRule(r, p, named, behavior, 80)
      \/ \E r \in RuleIds : DeleteRule(r)
  BY DEF Next, vars, DeployRead, DeployInsert, DeployStart, DeployGivesUp, Undeploy, EngineStart
<1>. QED  BY <1>1, <1>2, <1>3, <1>4, <1>5

\* The packaged rules are the current package's, but for those that instances
\* kept from going at its import (import_rule_package).
THEOREM CatalogCurrent == Spec => []CatalogIsCurrent
<1>1. Init => CatalogIsCurrent
  BY DEF Init, CatalogIsCurrent, Stored
<1>2. Traced => Shapes
  BY DEF Traced
<1>3. TypeOK /\ Traced /\ CatalogIsCurrent /\ [Next]_vars => CatalogIsCurrent'
  BY <1>2, CurrentStep
<1>. QED  BY <1>1, <1>3, Invariant, PTL DEF Spec

\* The cascade from rules to instances never starts at an import, and a
\* user's rule never becomes another one by it (import_rule_package).
THEOREM ImportsSpareInstances == Spec => ImportSparesInstances
<1>1. TypeOK /\ Traced /\ [Next]_vars =>
        [(\E package \in Packages : Import(package)) =>
           row' = row /\ \A r \in CustomRules : rules'[r] = rules[r]]_vars
  <2>. SUFFICES ASSUME Traced, NEW package \in Packages, Import(package)
                PROVE  row' = row /\ \A r \in CustomRules : rules'[r] = rules[r]
    OBVIOUS
  <2>0. Shapes
    BY DEF Traced
  <2>1. \A i \in Instances : row'[i] = row[i]
    BY DEF Import, WithoutRules, InUse
  <2>2. row' = [i \in Instances |-> row'[i]]
    BY DEF Import, WithoutRules
  <2>3. row' = row
    BY <2>0, <2>1, <2>2 DEF Shapes
  <2>4. NumbersOf(package) \subseteq OfficialRules
    BY CatalogAssumption DEF Import
  <2>5. \A r \in CustomRules : rules'[r] = rules[r]
    BY <2>4, CatalogAssumption DEF Import, RuleIds
  <2>. QED  BY <2>3, <2>5
<1>. QED  BY <1>1, Invariant, PTL DEF Spec, ImportSparesInstances
=============================================================================
