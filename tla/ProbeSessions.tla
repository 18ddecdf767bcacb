----------------------------- MODULE ProbeSessions ----------------------------
(***************************************************************************)
(* The handlers that let a scanner recognise a service and grant nothing:  *)
(* MQTT, MongoDB, VNC, RDP, SSH, LDAP, SMB, HTTP and DNS over TCP          *)
(* (simulation/mqtt.rs, mongodb.rs, vnc.rs, rdp.rs, ssh.rs, ldap.rs,       *)
(* smb.rs, http.rs, dns.rs of the engine).                                 *)
(***************************************************************************)
EXTENDS Connection

CONSTANT ProbeLimit  \* requests after which a probe handler ends (16 and 32)

ASSUME ProbeLimitAssumption == ProbeLimit \in Nat \ {0}

\* The VNC version and security types (1: none, 2: password) of a rule.
VncRules == [protocol : {"vnc"}, version : {"3.3", "3.7", "3.8"},
             security_types : {<<1>>, <<2>>, <<1, 2>>, <<2, 1>>}]

Offers(type) == \E i \in DOMAIN rule.security_types : rule.security_types[i] = type

ProbeSession == [answered : 0..ProbeLimit]
ProbeNew     == [answered |-> 0]

-----------------------------------------------------------------------------
(* MQTT                                                                    *)

\* CONNECT: levels 4 and 5, with credentials of any kind unless the rule lets
\* anonymous clients in.  A refused client is left after the report.
MqttConnect ==
  /\ Takes("mqtt", "request")
  /\ \E known_level, has_credentials \in BOOLEAN :
       LET accepted == known_level /\ (~rule.require_auth \/ has_credentials) IN
       Answers(IF accepted THEN "request" ELSE "closed", session,
               Say(IF accepted THEN "connected" ELSE "denied"), "after")
  /\ Unchecked

MqttPing ==
  /\ Takes("mqtt", "request")
  /\ Answers("request", session, Say("pong"), "after")
  /\ Unchecked

\* DISCONNECT ends the dialogue; every other packet is only reported.
MqttOther ==
  /\ Takes("mqtt", "request")
  /\ \/ Silent("closed", session, "told")
     \/ Silent("request", session, "told")
  /\ Unchecked

-----------------------------------------------------------------------------
(* MongoDB                                                                 *)

\* Mutant: the limit is tested before the request is counted.
MongodbRequestOneMore ==
  /\ Takes("mongodb", "request")
  /\ LET n == session.answered + 1 IN
     Answers(IF session.answered = ProbeLimit THEN "closed" ELSE "request", [answered |-> n],
             Say("result document"), "after")
  /\ Unchecked

\* The known commands and the error for the others look alike from here.
MongodbRequest ==
  /\ Takes("mongodb", "request")
  /\ LET n == session.answered + 1 IN
     Answers(IF n = ProbeLimit THEN "closed" ELSE "request", [answered |-> n],
             Say("result document"), "after")
  /\ Unchecked

-----------------------------------------------------------------------------
(* VNC: the start of the dialogue is all that is reported.                 *)

\* What the selected security type leads to.
VncSecures(type) ==
  \/ type = 1 /\ rule.version = "3.3" /\ Silent("closed", session, "none")
  \/ type = 1 /\ rule.version # "3.3" /\ Answers("closed", session, Say("granted"), "none")
  \/ type = 2 /\ Answers("response", session, Say("challenge"), "none")

\* The client's version.  In 3.3 the server selects, its first type.
VncVersion ==
  /\ PassesOver("vnc", "version")
  /\ \/ rule.version = "3.3" /\ VncSecures(rule.security_types[1])
     \/ rule.version # "3.3" /\ Answers("security", session, Say("types"), "none")
  /\ Unchecked

\* The client selects; a type that was not offered is an error.
VncSecurity ==
  /\ Continues("vnc", "security")
  /\ \E type \in 0..3 :
       \/ Offers(type) /\ VncSecures(type)
       \/ ~Offers(type) /\ Silent("closed", session, "none")
  /\ Unchecked

\* No response is the right one.
VncResponse ==
  /\ Continues("vnc", "response")
  /\ Answers("closed", session, Say("denied"), "none")
  /\ Unchecked

-----------------------------------------------------------------------------
(* RDP and SSH: one exchange, then all that arrives is only reported.      *)

\* The connection is reported and the client begins.
RdpBegin ==
  /\ rule.protocol = "rdp" /\ at = "greet"
  /\ Silent("negotiation", session, "told")
  /\ TakesNothing /\ Unchecked

RdpNegotiation ==
  /\ Takes("rdp", "negotiation")
  /\ Answers("request", session, Say("confirm"), "first")
  /\ Unchecked

SshVersion ==
  /\ Takes("ssh", "version")
  /\ Silent("request", session, "told")
  /\ Unchecked

\* The reads after that.
Recorded(p) ==
  /\ Takes(p, "request")
  /\ Silent("request", session, "told")
  /\ Unchecked

-----------------------------------------------------------------------------
(* LDAP, SMB and HTTP                                                      *)

\* Every read is answered with success, whatever it asks for.
LdapRequest ==
  /\ Takes("ldap", "request")
  /\ \E r \in {"bound", "search done"} : Answers("request", session, Say(r), "first")
  /\ Unchecked

\* The only read, its end of file included, is reported; a short one is not answered.
SmbNegotiate ==
  /\ \/ TakesEof("smb", "request") /\ Silent("closed", session, "told")
     \/ /\ Takes("smb", "request")
        /\ \/ Silent("closed", session, "told")
           \/ Answers("closed", session, Say("negotiated"), "first")
  /\ Unchecked

\* simulation_handler: the first entry of exploit_paths that has the path, and
\* the method if it names one, or else the page of the rule.
HttpRequest ==
  /\ Takes("http", "request")
  /\ \E exploit \in BOOLEAN :
       Answers("request", session, Say(IF exploit THEN "exploit" ELSE "page"), "first")
  /\ Unchecked

-----------------------------------------------------------------------------
(* DNS over TCP                                                            *)

\* A name that a record or the default answers, of class and type A or of
\* another one, or that nothing answers.
DnsAnswers == {"address", "no data", "no such name"}

\* A message of a bad length or shape is a failed read: it ends the task.
DnsTcpQuery ==
  /\ Takes("dns_tcp", "request")
  /\ \E r \in DnsAnswers : Answers("request", session, Say(r), "after")
  /\ Unchecked

-----------------------------------------------------------------------------
ProbeNext ==
  \/ MqttConnect \/ MqttPing \/ MqttOther \/ MongodbRequest
  \/ Greets("vnc", "version", "after") /\ Unchecked
  \/ VncVersion \/ VncSecurity \/ VncResponse
  \/ RdpBegin \/ RdpNegotiation \/ Recorded("rdp")
  \/ Greets("ssh", "version", "first") /\ Unchecked
  \/ SshVersion \/ Recorded("ssh")
  \/ LdapRequest \/ SmbNegotiate \/ HttpRequest \/ DnsTcpQuery
=============================================================================
