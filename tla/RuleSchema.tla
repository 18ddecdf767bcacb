------------------------------ MODULE RuleSchema ------------------------------
(***************************************************************************)
(* What the API server, rule packages and the engine have to agree on:     *)
(* the endpoints of a protocol (crates/protocol-simulation-common) and the *)
(* shape of its behaviour, with the checks that each side makes of them.   *)
(*                                                                         *)
(* A container port is named by the protocol it belongs to.  A behaviour   *)
(* is one of four kinds of JSON value: "misfit" does not fit the           *)
(* protocol's struct, "empty" is the object without fields, "sound" fits   *)
(* and can be simulated, and "unusable" fits but has a value which the     *)
(* engine cannot use (an address, a name or an OID given as text).         *)
(***************************************************************************)
EXTENDS Integers, Sequences

Protocols ==
  {"http", "redis", "smtp", "pop3", "imap", "ssh", "ftp", "rdp", "telnet", "mysql", "postgresql",
   "smb", "ldap", "dns", "mongodb", "memcached", "snmp", "mqtt", "vnc"}

\* ProtocolId::from_str, for package rules and for the API.
Known(protocol) == protocol \in Protocols

EndpointSpec(id, transport, p) ==
  [id |-> id, transport |-> transport, port |-> p, required |-> TRUE]

\* The endpoints of protocol_descriptor.
Descriptor(p) ==
  CASE p = "dns" -> {EndpointSpec("dns-tcp", "tcp", p), EndpointSpec("dns-udp", "udp", p)}
    [] p = "snmp" -> {EndpointSpec("main", "udp", p)}
    [] OTHER -> {EndpointSpec("main", "tcp", p)}

-----------------------------------------------------------------------------
(* Behaviour                                                               *)

Behaviors == {"misfit", "empty", "sound", "unusable"}

\* Protocols whose struct has a field that is no Option.
WithRequiredField == {"dns", "ldap"}

\* validate_behavior: what the struct of p takes; unknown fields are ignored
\* and dropped.
Fits(p, behavior) ==
  behavior # "misfit" /\ (behavior = "empty" => p \notin WithRequiredField)

\* Protocols whose start examines the values: validate_config of DNS,
\* normalize_config of VNC, build_values of SNMP.
Examining == {"dns", "vnc", "snmp"}

\* parse_rule_config and those checks.
EngineCanUse(p, behavior) ==
  Fits(p, behavior) /\ (behavior = "unusable" => p \notin Examining)

\* A document of a packaged rule is a behaviour, bare or under "behavior".
Documents == [wrapped : BOOLEAN, behavior : Behaviors]

\* What a struct sees when it is given the whole document: of a wrapped one,
\* an object without any field it knows.
Whole(document) == IF document.wrapped THEN "empty" ELSE document.behavior

-----------------------------------------------------------------------------
(* Bindings of a deployment, and what becomes of them                      *)

\* Requested bindings name endpoints and host ports; zero is no port.
Requested(bindings) == {bindings[k].id : k \in DOMAIN bindings}

\* Mutant: required endpoints may be left out.
AcceptsSomeBindings(p, bindings) ==
  /\ bindings # <<>>
  /\ \A k \in DOMAIN bindings : bindings[k].host # 0
  /\ \A k, l \in DOMAIN bindings : bindings[k].id = bindings[l].id => k = l
  /\ \A id \in Requested(bindings) : \E e \in Descriptor(p) : e.id = id

\* deploy_instance accepts the bindings for protocol p.
AcceptsBindings(p, bindings) ==
  /\ \A k \in DOMAIN bindings : bindings[k].host # 0
  /\ \A k, l \in DOMAIN bindings : bindings[k].id = bindings[l].id => k = l
  /\ \A id \in Requested(bindings) : \E e \in Descriptor(p) : e.id = id
  /\ \A e \in Descriptor(p) : e.required => e.id \in Requested(bindings)

\* The endpoints of the new instance and of its launch configuration.
HostOf(bindings, id) == bindings[CHOOSE k \in DOMAIN bindings : bindings[k].id = id].host

BoundEndpoints(p, bindings) ==
  {[id |-> e.id, transport |-> e.transport, port |-> e.port, host |-> HostOf(bindings, e.id)] :
     e \in {e \in Descriptor(p) : e.id \in Requested(bindings)}}

\* validated_endpoints of the engine.
EngineAccepts(p, endpoints) ==
  /\ endpoints # {}
  /\ \A e, f \in endpoints : e.id = f.id => e = f
  /\ \A e \in endpoints :
       \E d \in Descriptor(p) : d.id = e.id /\ d.transport = e.transport /\ d.port = e.port
  /\ \A d \in Descriptor(p) : d.required => \E e \in endpoints : e.id = d.id

\* run_tcp_simulation and run_udp_simulation have a simulation for it.
EngineServes(p, endpoint) ==
  IF endpoint.transport = "tcp" THEN p # "snmp" ELSE p \in {"dns", "snmp"}
=============================================================================
