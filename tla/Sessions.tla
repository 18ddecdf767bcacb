------------------------------- MODULE Sessions -------------------------------
(***************************************************************************)
(* A connection (or, for datagrams, an endpoint) of any of the nineteen    *)
(* services that an engine simulates: the composition of the handlers,     *)
(* what they have in common, and what they promise.                        *)
(***************************************************************************)
EXTENDS MailSessions, LoginSessions, ProbeSessions, MemcachedSession, SnmpSession

\* The rules, with what the handlers tell apart of their behaviour.
LoginRules == [protocol : {"smtp", "pop3", "imap", "redis", "mqtt"}, require_auth : BOOLEAN]
FtpRules   == [protocol : {"ftp"}, require_auth : BOOLEAN, nameless : {"", "none"}]
PlainRules == [protocol : {"telnet", "mysql", "postgresql", "mongodb", "rdp", "ssh", "ldap",
                           "smb", "http", "dns_tcp", "dns_udp", "memcached"}]
Rules == LoginRules \cup FtpRules \cup PlainRules \cup VncRules \cup SnmpRules

\* Where the task of a connection first waits.
FirstPoint(p) ==
  IF p \in {"smtp", "pop3", "imap", "ftp", "telnet", "redis", "mysql", "postgresql", "vnc", "rdp", "ssh"}
  THEN "greet" ELSE "request"

\* The sessions of protocol p, and the new ones.
SessionsOf(p) ==
  CASE p = "smtp" -> SmtpSession
    [] p = "pop3" -> Pop3Session
    [] p = "imap" -> ImapSession
    [] p = "ftp" -> FtpSession
    [] p = "telnet" -> TelnetSession
    [] p = "redis" -> RedisSession
    [] p \in {"mysql", "postgresql"} -> DatabaseSession
    [] p = "memcached" -> MemcachedSession
    [] p = "snmp" -> SnmpSession
    [] OTHER -> ProbeSession

NewSessions ==
  LET p == rule.protocol IN
  CASE p = "smtp" -> {SmtpNew}
    [] p = "pop3" -> {Pop3New}
    [] p = "imap" -> {ImapNew}
    [] p = "ftp" -> {FtpNew}
    [] p = "telnet" -> {TelnetNew}
    [] p = "redis" -> {RedisNew}
    [] p \in {"mysql", "postgresql"} -> {DatabaseNew}
    [] p = "memcached" -> {MemcachedNew}
    [] p = "snmp" -> [start : Questions, seen : {<<>>}, over : {FALSE}]
    [] OTHER -> {ProbeNew}

Init ==
  /\ rule \in Rules
  /\ at = FirstPoint(rule.protocol)
  /\ session \in NewSessions
  /\ said = Say("nothing")
  /\ eof = FALSE
  /\ taken = 0 /\ unreported = 0 /\ told = 0 /\ untold = 0
  /\ login = "none" /\ proved = FALSE

\* The steps of the task.
Serves == MailNext \/ LoginNext \/ ProbeNext \/ MemcachedNext \/ SnmpNext \/ EndOfFile

Next == Serves \/ ReadFails \/ TimeLimit \/ IdleLimit \/ ClientEnds

Spec == Init /\ [][Next]_vars

\* The runtime polls a task that can go on, and its timer when it is due.
FairSpec == Spec /\ WF_vars(Serves) /\ WF_vars(TimeLimit)

-----------------------------------------------------------------------------
(* Properties                                                              *)

Points == {"greet", "request", "closed", "auth_plain", "auth_user", "auth_pass", "data",
           "login", "handshake", "startup", "password", "version", "security", "response",
           "negotiation", "lines"}

TypeOK ==
  /\ rule \in Rules
  /\ at \in Points
  /\ session \in SessionsOf(rule.protocol)
  /\ said.what \in Nat
  /\ eof \in BOOLEAN
  /\ taken \in Nat /\ unreported \in Nat /\ taken + unreported <= MaxRequests
  /\ told \in Nat /\ untold \in Nat
  /\ login \in {"none", "valid", "invalid"}
  /\ proved \in BOOLEAN

\* What an audit trail should hold: the connection, where the handler reports
\* it, and every request taken that is to be reported.  Memcached takes pieces
\* of a stream: there it is every command answered, and the one whose answer
\* failed.
Owed ==
  (IF FirstPoint(rule.protocol) = "greet" /\ at # "greet" THEN 1 ELSE 0)
  + (IF rule.protocol = "memcached" THEN session.commands + untold ELSE taken)

\* Of the requests that a handler reports (a bad IMAP line, a MySQL ping and
\* the others counted in `unreported' are not among them), the audit trail holds
\* an event each, also through AUTH and DATA dialogues, end of file and
\* failed writes.  It lacks at most one: the one in progress, or the last one
\* of a task that ended before it got to the report.
TrailLosesOnlyTheLast ==
  /\ told + untold + (IF at \in Midway THEN 1 ELSE 0) = Owed
  /\ untold <= 1
  /\ untold = 1 => at = "closed"

\* SMTP: recipients belong to a sender and mail data to recipients, also after
\* a login that failed in the middle of the transaction (handle_rcpt,
\* handle_data, reset_transaction); and with require_auth there was a login.
SmtpEnvelope ==
  rule.protocol = "smtp" =>
    /\ session.rcpt_to => session.mail_from
    /\ at = "data" => session.rcpt_to
    /\ session.mail_from /\ rule.require_auth => proved

\* FTP: who is logged in is the user named last, as long as no credential of
\* the rule has an empty name (USER resets the login, PASS takes the pending
\* user, a second PASS has none to take).
FtpIdentity ==
  rule.protocol = "ftp" /\ session.authed =>
    session.username = session.latest \/ (rule.nameless = "" /\ session.username = "")

\* Memcached: whatever the pieces its stream arrives in, each command of it
\* is answered once, up to the limit; blank lines count for nothing; and a
\* connection ends for its size only within a line that is too long.
MemcachedFraming ==
  rule.protocol = "memcached" =>
    /\ at = "request" =>
         session.commands = Cardinality(CommandEnds(session.sent)) /\ ~HasLine(session.pending)
    /\ session.commands <= Cardinality(CommandEnds(session.sent))
    /\ session.commands = MaxCommands => at = "closed"
    /\ Len(session.pending) > MaxRequestSize =>
         /\ at = "closed"
         /\ \A i \in 1..(MaxRequestSize + 1 - ChunkSize) : session.pending[i] # "n"

\* SNMP: a walk sees the values after its start in order, leaves none out and
\* sees none twice, with GETNEXT and GETBULK in any mixture; it is over when
\* all were seen; and an answer ends the endpoint only when the rule has an
\* OID that cannot be encoded.
SnmpWalk ==
  rule.protocol = "snmp" =>
    LET all == Following(rule.values, session.start)
        got == {session.seen[i] : i \in DOMAIN session.seen}
    IN /\ \A i \in 2..Len(session.seen) : Before(session.seen[i - 1], session.seen[i])
       /\ got \subseteq all
       /\ \A v \in all \ got : \A u \in got : Before(u, v)
       /\ session.over => got = all
       /\ said.kind = "unencodable" => \E v \in all \ got : ~Encodable(v)

\* What is shown only to a client that is logged in.
Content == {"sender", "recipient", "accepted", "listing", "message", "files", "shell", "data",
            "result", "empty", "granted"}

\* The answers to a login.
Verdicts == {"authenticated", "denied"}

\* Nothing is shown behind the back of the audit trail: a step that shows
\* content or decides on a login queues one event, or loses one as a failed
\* write ends the task.  VNC reports the start of the dialogue only.
ShownIsReported ==
  [][ eof' = eof /\ rule.protocol # "vnc"
      /\ (said'.kind \in Content \cup Verdicts \/ login' # login)
      => told' + untold' = told + untold + 1 ]_vars

\* The variables of AccessGate.
LoginRequired ==
  \/ rule.protocol \in {"telnet", "mysql", "postgresql", "ftp"}
  \/ rule.protocol \in {"smtp", "pop3", "imap", "redis"} /\ rule.require_auth
  \/ rule.protocol = "vnc" /\ ~Offers(1)

GateOpen ==
  CASE rule.protocol = "smtp" -> ~rule.require_auth \/ session.authed \/ session.mail_from
    [] rule.protocol \in {"pop3", "imap", "redis", "ftp"} -> session.authed
    [] rule.protocol \in {"telnet", "mysql", "postgresql"} -> at = "request"
    [] OTHER -> ~LoginRequired

Gate == INSTANCE AccessGate
  WITH required <- LoginRequired, open <- GateOpen, checked <- login,
       shown <- said.kind \in Content

\* Every handler keeps what AccessGate promises: content is shown only while
\* the gate is open, and a credential check that succeeds is all that opens it.
ImplementsGate == Gate!Spec

\* A task does not outlive its client: after the end of the client's side it
\* comes to its end through all that is still to be answered, and handlers
\* with a time limit end without the client's help.
ConnectionsEnd == (eof \/ rule.protocol \in TimeLimited) ~> at = "closed"
=============================================================================
