----------------------------- MODULE MCRuleCatalog -----------------------------
(***************************************************************************)
(* An instance of RuleCatalog for TLC: good packages that share a rule     *)
(* number, and a package for each check that a package can fail.           *)
(***************************************************************************)
EXTENDS RuleCatalog

PackagedEndpoint(id, transport, port) ==
  [id |-> id, transport |-> transport, port |-> port, required |-> TRUE, default |-> 1053]

Main(p)      == <<PackagedEndpoint("main", "tcp", p)>>
DnsEndpoints == <<PackagedEndpoint("dns-tcp", "tcp", "dns"), PackagedEndpoint("dns-udp", "udp", "dns")>>

Bare(behavior) == [wrapped |-> FALSE, behavior |-> behavior]

PackagedRule(n, p, endpoints, default, config) ==
  [number |-> n, protocol |-> p, endpoints |-> endpoints, default |-> default, config |-> config]

Http  == PackagedRule(1, "http", Main("http"), 8080, [wrapped |-> TRUE, behavior |-> "sound"])
Ldap  == PackagedRule(1, "ldap", Main("ldap"), 70000, Bare("sound"))
Dns   == PackagedRule(2, "dns", DnsEndpoints, -1, Bare("unusable"))

Snmp  == PackagedRule(2, "snmp", <<PackagedEndpoint("main", "udp", "snmp")>>, 161, Bare("sound"))

Package(version, packaged) ==
  [entries |-> <<"rules.bin", "rules.bin.sig">>, signed |-> TRUE, schema |-> 1, format |-> 1,
   count |-> Len(packaged), id |-> "seclab-sim-rules", versions_ok |-> TRUE, min |-> 1,
   version |-> version, rules |-> packaged]

Good == Package("1.0.0", <<Http>>)

Bad == {
  [Good EXCEPT !.entries = <<"rules.bin">>],
  [Good EXCEPT !.entries = <<"rules.bin", "rules.bin.sig", "rules.bin">>],
  [Good EXCEPT !.entries = <<"rules.bin", "rules.bin.sig", "readme">>],
  [Good EXCEPT !.signed = FALSE], [Good EXCEPT !.schema = 2], [Good EXCEPT !.format = 2],
  [Good EXCEPT !.count = 2], [Good EXCEPT !.id = "others"], [Good EXCEPT !.versions_ok = FALSE],
  [Good EXCEPT !.min = 9],
  Package("9.0.0", <<>>), Package("9.0.1", <<Http, Ldap>>),
  Package("9.0.2", <<[Ldap EXCEPT !.config = [wrapped |-> TRUE, behavior |-> "sound"]]>>),
  Package("9.0.3", <<[Dns EXCEPT !.endpoints = Main("dns")]>>),
  Package("9.0.4", <<[Http EXCEPT !.endpoints = Main("ldap")]>>),
  Package("9.0.5", <<[Http EXCEPT !.protocol = "gopher"]>>)}

MCPackages == Bad \cup {Good, Package("1.1.0", <<Ldap, Dns>>), Package("1.2.0", <<Snmp>>)}

Binding(id, host) == [id |-> id, host |-> host]

MCBindingLists == {
  <<>>, <<Binding("main", 80)>>, <<Binding("main", 0)>>, <<Binding("main", 80), Binding("main", 81)>>,
  <<Binding("dns-tcp", 53), Binding("dns-udp", 53)>>, <<Binding("dns-tcp", 53)>>,
  <<Binding("main", 80), Binding("dns-tcp", 53)>>}
=============================================================================
