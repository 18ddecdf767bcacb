------------------------------ MODULE RulePackage ------------------------------
(***************************************************************************)
(* Rule packages: parse_slrp of                                            *)
(* crates/protocol-simulation/src/rule_package.rs.                         *)
(*                                                                         *)
(* A package is what an uploaded archive holds: the names of its entries,  *)
(* whether the signature belongs to the payload, the manifest, the rules.  *)
(* Name and texts of a rule are told apart by the version they come with.  *)
(***************************************************************************)
EXTENDS RuleSchema, FiniteSets

CONSTANTS
  MaxRules,  \* MAX_RULE_COUNT
  Packages   \* the archives that are uploaded

\* What prost decodes from a payload: SimRuleProto, RuleEndpointProto.
PackagedEndpoints ==
  [id : STRING, transport : STRING, port : STRING, required : BOOLEAN, default : Int]

PackagedRules ==
  [number : Int, protocol : STRING, endpoints : Seq(PackagedEndpoints), default : Int,
   config : Documents]

ASSUME PackagesAssumption ==
  \A package \in Packages :
    /\ package.rules \in Seq(PackagedRules)
    /\ package.version \in STRING \ {"user"}

\* What u16::try_from takes.
PortNumbers == 0..65535

\* The official part of the rule numbers.
OfficialNumbers == 1..999999

\* The archive holds the payload and its signature, each once, nothing else.
ArchiveOk(package) ==
  /\ \A k, l \in DOMAIN package.entries : package.entries[k] = package.entries[l] => k = l
  /\ {package.entries[k] : k \in DOMAIN package.entries} = {"rules.bin", "rules.bin.sig"}

ManifestOk(package) ==
  /\ package.schema = 1 /\ package.format = 1
  /\ package.count = Len(package.rules)
  /\ package.count \in 1..MaxRules
  /\ package.id = "seclab-sim-rules"
  /\ package.versions_ok

\* validate_rule_endpoints: the endpoints of the descriptor and no others.
RuleEndpointsOk(r) ==
  /\ Len(r.endpoints) = Cardinality(Descriptor(r.protocol))
  /\ \A d \in Descriptor(r.protocol) :
       \E k \in DOMAIN r.endpoints :
         LET e == r.endpoints[k] IN
         /\ e.id = d.id /\ e.transport = d.transport /\ e.port = d.port
         /\ e.required = d.required /\ e.default \in PortNumbers

\* Mutant: the port is taken as it comes.
DefaultAsGiven(r) == IF r.default > 0 THEN r.default ELSE r.endpoints[1].default

\* default_rule_host_port: the rule's own port if it is one, else that of the
\* main endpoint, or of the first if there is no main one.
DefaultHostPort(r) ==
  LET main == {k \in DOMAIN r.endpoints : r.endpoints[k].id = "main"}
      primary == IF main # {} THEN CHOOSE k \in main : \A l \in main : k <= l ELSE 1
  IN IF r.default \in PortNumbers THEN r.default ELSE r.endpoints[primary].default

RulesOk(package) ==
  /\ \A k \in DOMAIN package.rules :
       LET r == package.rules[k] IN
       /\ r.number \in OfficialNumbers
       /\ Known(r.protocol)
       /\ RuleEndpointsOk(r)
       /\ Fits(r.protocol, Whole(r.config))
  /\ \A k, l \in DOMAIN package.rules :
       package.rules[k].number = package.rules[l].number => k = l

\* parse_slrp accepts the package.
Accepts(package) ==
  ArchiveOk(package) /\ package.signed /\ ManifestOk(package) /\ RulesOk(package)

NumbersOf(package) == {package.rules[k].number : k \in DOMAIN package.rules}

\* The rule that is stored for number n.
ImportedRule(package, n) ==
  LET r == package.rules[CHOOSE k \in DOMAIN package.rules : package.rules[k].number = n]
  IN [protocol |-> r.protocol, behavior |-> Whole(r.config),
      default |-> DefaultHostPort(r), from |-> package.version]
=============================================================================
