------------------------------ MODULE SnmpSession -----------------------------
(***************************************************************************)
(* The endpoints without connections: DNS over UDP and SNMP                *)
(* (simulation/dns.rs and snmp.rs of the engine).  The task of the         *)
(* endpoint itself answers, one datagram after the other, so that its      *)
(* point "closed" is the end of the endpoint.                              *)
(*                                                                         *)
(* The client of SNMP is a manager that walks the agent: it asks for what  *)
(* follows the last object identifier (OID) it was given.  Other clients,  *)
(* and questions out of the walk, come in between.                         *)
(***************************************************************************)
EXTENDS Connection, FiniteSets

CONSTANTS
  Values,      \* the sets of OIDs a rule gives values to, the four built in included
  Questions,   \* OIDs that are asked for
  MaxVarbinds  \* most OIDs of one request or answer (32)

ASSUME SnmpAssumption ==
  /\ \A v \in Values : v \subseteq Seq(Nat) /\ IsFiniteSet(v)
  /\ MaxVarbinds \in Nat \ {0}

SnmpRules == [protocol : {"snmp"}, values : Values]

\* History of the walk: what it began after, the OIDs it got, and whether it
\* was told that there are no more.
SnmpSession == [start : Questions, seen : Seq(Seq(Nat)), over : BOOLEAN]

-----------------------------------------------------------------------------
(* Object identifiers                                                      *)

\* The order of Vec<u32>, by which the BTreeMap of values is sorted.
Before(a, b) ==
  \E i \in 1..Len(b) :
    /\ \A j \in 1..(i - 1) : j <= Len(a) /\ a[j] = b[j]
    /\ i = Len(a) + 1 \/ (i <= Len(a) /\ a[i] < b[i])

Following(values, oid) == {v \in values : Before(oid, v)}

\* next_value, where there is one
NextValue(values, oid) ==
  CHOOSE v \in Following(values, oid) : \A u \in Following(values, oid) : u = v \/ Before(v, u)

\* What encode_oid takes.  parse_oid_text asks less of the OIDs of a rule.
Encodable(oid) ==
  /\ Len(oid) >= 2
  /\ \/ oid[1] < 2 /\ oid[2] < 40
     \/ oid[1] = 2 /\ 80 + oid[2] < 256

\* Every OID that decode_oid returns could be encoded again.
ASSUME QuestionsAssumption ==
  \A oid \in Questions : oid \in Seq(Nat) /\ Encodable(oid)

\* Where a walk from oid that got these OIDs goes on.
Cursor(oid, got) == IF got = <<>> THEN oid ELSE got[Len(got)]

\* How often the loop of a GETBULK answer is run: as often as asked, but at
\* least once and at most MaxVarbinds times.
Turns(repetitions) ==
  IF repetitions < 1 THEN 1 ELSE IF repetitions > MaxVarbinds THEN MaxVarbinds ELSE repetitions

\* Mutant: the cursor stays where the request has put it.
BulkValuesStanding(values, oid, repetitions) ==
  IF Following(values, oid) = {} THEN <<>>
  ELSE [i \in 1..Turns(repetitions) |-> NextValue(values, oid)]

\* One turn: the next value is added, and the cursor moves to it.
Further(values, oid, got) ==
  IF Following(values, Cursor(oid, got)) = {} THEN got
  ELSE Append(got, NextValue(values, Cursor(oid, got)))

\* The varbinds of a GETBULK answer.
BulkValues(values, oid, repetitions) ==
  LET walk[i \in 0..Turns(repetitions)] ==
        IF i = 0 THEN <<>> ELSE Further(values, oid, walk[i - 1])
  IN walk[Turns(repetitions)]

-----------------------------------------------------------------------------
\* The walk's place: the last OID it was given.
Place == Cursor(session.start, session.seen)

\* An answer that names these OIDs is encoded and sent.  An OID that cannot be
\* encoded is an error of the endpoint's task, before it has reported the
\* request; so is a send that fails.
Sends(oids, s) ==
  \/ /\ \A i \in DOMAIN oids : Encodable(oids[i])
     /\ Answers("request", s, Say("values"), "after")
  \/ /\ \E i \in DOMAIN oids : ~Encodable(oids[i])
     /\ at' = "closed" /\ said' = Say("unencodable") /\ untold' = untold + 1
     /\ UNCHANGED <<rule, eof, session, told>>

\* GET: the OIDs of the request are named again, with or without a value.
SnmpGet ==
  /\ Takes("snmp", "request")
  /\ \E oid \in Questions : Sends(<<oid>>, session)
  /\ Unchecked

\* GETNEXT of the manager.  Past the last value its own OID is named again.
SnmpGetNext ==
  /\ Takes("snmp", "request") /\ ~session.over
  /\ IF Following(rule.values, Place) # {}
     THEN LET next == NextValue(rule.values, Place)
          IN Sends(<<next>>, [session EXCEPT !.seen = Append(@, next)])
     ELSE Sends(<<Place>>, [session EXCEPT !.over = TRUE])
  /\ Unchecked

\* GETBULK of the manager; only its first OID counts.
SnmpGetBulk ==
  /\ Takes("snmp", "request") /\ ~session.over
  /\ \E repetitions \in 0..(MaxVarbinds + 1) :
       LET got == BulkValues(rule.values, Place, repetitions)
       IN Sends(got, [session EXCEPT !.seen = @ \o got, !.over = (got = <<>>)])
  /\ Unchecked

\* Another community is reported and not answered; a malformed request is
\* neither.
SnmpUnanswered ==
  /\ \/ Takes("snmp", "request") /\ Silent("request", session, "told")
     \/ PassesOver("snmp", "request") /\ Silent("request", session, "none")
  /\ Unchecked

\* DNS over UDP answers like DNS over TCP, and goes on after what is malformed.
DnsUdpQuery ==
  /\ \/ /\ Takes("dns_udp", "request")
        /\ \E r \in {"address", "no data", "no such name"} :
             Answers("request", session, Say(r), "after")
     \/ PassesOver("dns_udp", "request") /\ Silent("request", session, "none")
  /\ Unchecked

SnmpNext == SnmpGet \/ SnmpGetNext \/ SnmpGetBulk \/ SnmpUnanswered \/ DnsUdpQuery
=============================================================================
