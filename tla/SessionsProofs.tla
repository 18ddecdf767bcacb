---------------------------- MODULE SessionsProofs ---------------------------
(***************************************************************************)
(* Theorems about Sessions, for any number of requests, any mailbox, any   *)
(* limits and any SNMP values.                                             *)
(*                                                                         *)
(* The audit trail follows from what every step of a task has in common    *)
(* (Works).  For the gate, the steps of each handler are shown to be of a  *)
(* shape that AccessGate allows (Passes), from an invariant that says what *)
(* its session owes to the rule (SoundSession): of SMTP, that a sender was *)
(* accepted under a login; of Redis, that only a rule with a login has     *)
(* sessions without one; of FTP, whom a login belongs to.                  *)
(***************************************************************************)
EXTENDS Sessions, FramedProofs

-------------------------------------------------------------------------------
(* What all steps of a task have in common                                 *)

\* What a client sees of a login, and of the data behind it.
Shown == Content \cup Verdicts

\* What is due to the audit trail while the task waits at w: a request in
\* progress; and the connection, once it is begun.
Pend(w) == IF w \in Midway THEN 1 ELSE 0
Greeting(w) == IF w = "greet" THEN 1 ELSE 0

\* Nothing is shown or decided without an event, but by VNC.
Discreet ==
    \/ rule.protocol = "vnc"
    \/ told' + untold' = told + untold + 1
    \/ said'.kind \notin Shown /\ login' = login

\* A step of the task, which loses an event only when it ends the task ...
Moves ==
    /\ at' # "greet" /\ rule' = rule /\ eof' = eof /\ told' \in Nat
    /\ \/ untold' = untold
       \/ untold' = untold + 1 /\ at' = "closed"
    /\ Discreet

\* ... and answers for n requests.
Counts(n) == Moves /\ told' + untold' + Pend(at') = told + untold + n

Works == at # "closed" /\ taken' \in Nat /\ Moves

\* The step keeps account of the requests it takes, of the one in progress and
\* of the connection.
Accounts == told' + untold' + Pend(at') + taken = told + untold + Pend(at) + Greeting(at) + taken'

Numbered == told \in Nat /\ untold \in Nat /\ taken \in Nat

\* Where a task waits for its next request, and where it goes from there.
Idle == {"request", "login", "handshake", "startup", "password", "version", "security",
         "response", "negotiation"}

After == Idle \cup {"closed", "lines"}

LEMMA Places ==
    /\ \A w \in After : w # "greet" /\ w \notin Midway
    /\ \A w \in Idle : w # "closed" /\ w \in After
    /\ "closed" \in After /\ "lines" \in After
    /\ "request" \in Idle /\ "login" \in Idle /\ "handshake" \in Idle /\ "startup" \in Idle
    /\ "password" \in Idle /\ "version" \in Idle /\ "security" \in Idle
    /\ "response" \in Idle /\ "negotiation" \in Idle
    /\ \A w \in Midway : w # "greet" /\ w # "closed"
    /\ {"auth_plain", "auth_user", "auth_pass", "data"} = Midway
BY DEF After, Idle, Midway

\* What is answered without an event.
LEMMA Quiet ==
    \A k \in {"nothing", "prompt", "bad line", "protocol error", "ok", "unsupported", "no TLS",
              "unsupported version", "password expected"} : Say(k).kind \notin Shown
BY DEF Say, Shown, Content, Verdicts

\* A request that is answered and reported ...
LEMMA Answered ==
    ASSUME Numbered, NEW next \in After, NEW s, NEW r, NEW report \in {"first", "after"},
           Answers(next, s, r, report)
    PROVE  Counts(1)
<1>1. at' \in After /\ rule' = rule /\ eof' = eof
  BY Places DEF Answers
<1>2. \/ told' = told + 1 /\ untold' = untold
      \/ told' = told /\ untold' = untold + 1 /\ at' = "closed"
  BY DEF Answers, Numbered
<1>. QED  BY <1>1, <1>2, Places DEF Counts, Moves, Discreet, Pend, Numbered

\* ... or of which the dialogue goes on ...
LEMMA Prompted ==
    ASSUME Numbered, NEW next \in Midway, NEW s, NEW r, r.kind \notin Shown, Unchecked,
           Answers(next, s, r, "later")
    PROVE  Counts(1)
<1>1. /\ rule' = rule /\ eof' = eof /\ told' = told /\ login' = login
      /\ \/ at' \in Midway /\ untold' = untold /\ said' = r
         \/ at' = "closed" /\ untold' = untold + 1 /\ said' = Say("nothing")
  BY DEF Answers, Numbered, Unchecked
<1>2. Discreet
  BY <1>1, Quiet DEF Discreet
<1>3. at' # "greet" /\ (at' = "closed" => at' \notin Midway)
  BY <1>1, Places
<1>. QED  BY <1>1, <1>2, <1>3 DEF Counts, Moves, Pend, Numbered

\* ... or that is never reported.
LEMMA Unreported ==
    ASSUME Numbered, NEW next \in After, NEW s, NEW r, r.kind \notin Shown \/ rule.protocol = "vnc",
           Unchecked, Answers(next, s, r, "none")
    PROVE  Counts(0)
<1>1. /\ rule' = rule /\ eof' = eof /\ told' = told /\ untold' = untold /\ login' = login
      /\ at' \in After /\ (said' = r \/ said' = Say("nothing"))
  BY Places DEF Answers, Numbered, Unchecked
<1>. QED  BY <1>1, Places, Quiet DEF Counts, Moves, Discreet, Pend, Numbered

LEMMA SilentlyTold ==
    ASSUME Numbered, NEW next \in After, NEW s, Silent(next, s, "told")
    PROVE  Counts(1)
<1>1. /\ rule' = rule /\ eof' = eof /\ told' = told + 1 /\ untold' = untold /\ at' \in After
  BY DEF Silent, Numbered
<1>. QED  BY <1>1, Places DEF Counts, Moves, Discreet, Pend, Numbered

LEMMA SilentlyLost ==
    ASSUME Numbered, NEW s, Silent("closed", s, "lost")
    PROVE  Counts(1)
<1>1. /\ rule' = rule /\ eof' = eof /\ told' = told /\ untold' = untold + 1 /\ at' = "closed"
  BY DEF Silent, Numbered
<1>. QED  BY <1>1, Places DEF Counts, Moves, Discreet, Pend, Numbered

LEMMA SilentlyNone ==
    ASSUME Numbered, NEW next \in After, NEW s, Unchecked, Silent(next, s, "none")
    PROVE  Counts(0)
<1>1. /\ rule' = rule /\ eof' = eof /\ told' = told /\ untold' = untold /\ at' \in After
      /\ said' = Say("nothing") /\ login' = login
  BY DEF Silent, Numbered, Unchecked
<1>. QED  BY <1>1, Places, Quiet DEF Counts, Moves, Discreet, Pend, Numbered

\* The request that a step answers for is one it takes ...
LEMMA TakenWorks ==
    ASSUME Numbered, NEW p, NEW w \in Idle, Takes(p, w) \/ TakesEof(p, w), Counts(1)
    PROVE  Works /\ Accounts /\ rule.protocol = p
<1>1. at = w /\ rule.protocol = p /\ taken' = taken + 1
  BY DEF Takes, TakesEof, Reads
<1>. QED  BY <1>1, Places DEF Works, Accounts, Counts, Moves, Pend, Greeting, Numbered

\* ... or the one in progress, ...
LEMMA ContinuedWorks ==
    ASSUME Numbered, NEW p, at \in Midway, Continues(p, at) \/ ReadsEof(p, at), Counts(1)
    PROVE  Works /\ Accounts /\ rule.protocol = p
<1>1. rule.protocol = p /\ taken' = taken
  BY DEF Continues, ReadsEof, Reads, TakesNothing
<1>. QED  BY <1>1, Places DEF Works, Accounts, Counts, Moves, Pend, Greeting, Numbered

\* ... or there is none to answer for.
LEMMA PassedWorks ==
    ASSUME Numbered, NEW p, NEW w \in Idle, PassesOver(p, w) \/ Continues(p, w), Counts(0)
    PROVE  Works /\ Accounts /\ rule.protocol = p
<1>1. at = w /\ rule.protocol = p /\ taken' = taken
  BY DEF PassesOver, Continues, Reads, TakesNothing
<1>. QED  BY <1>1, Places DEF Works, Accounts, Counts, Moves, Pend, Greeting, Numbered

LEMMA GreetsWorks ==
    ASSUME Numbered, NEW p, NEW next \in Idle, NEW report \in {"first", "after"}, Greets(p, next, report)
    PROVE  Works /\ Accounts /\ rule.protocol = p
<1>1. Counts(1) /\ at = "greet" /\ rule.protocol = p /\ taken' = taken
  BY Places, Answered DEF Greets, TakesNothing
<1>2. Pend(at) = 0 /\ Greeting(at) = 1 /\ at # "closed"
  BY <1>1, Places DEF Pend, Greeting
<1>. QED  BY <1>1, <1>2 DEF Works, Accounts, Counts, Moves, Pend, Numbered

LEMMA BeginsWorks ==
    ASSUME Numbered, at = "greet", NEW next \in Idle, Silent(next, session, "told"), TakesNothing
    PROVE  Works /\ Accounts
<1>1. Counts(1) /\ taken' = taken
  BY Places, SilentlyTold DEF TakesNothing
<1>2. Pend(at) = 0 /\ Greeting(at) = 1 /\ at # "closed"
  BY Places DEF Pend, Greeting
<1>. QED  BY <1>1, <1>2 DEF Works, Accounts, Counts, Moves, Pend, Numbered

LEMMA SmtpWorks ==
    ASSUME Numbered, SmtpNext
    PROVE  Works /\ Accounts /\ rule.protocol = "smtp"
<1>. USE Places, Quiet
<1>1. CASE Greets("smtp", "request", "after")
  BY <1>1, GreetsWorks
<1>2. CASE SmtpPlain \/ SmtpMail \/ SmtpRcpt \/ SmtpRset \/ Quits("smtp")
  <2>1. Takes("smtp", "request")
    BY <1>2 DEF SmtpPlain, SmtpMail, SmtpRcpt, SmtpRset, Quits
  <2>2. Counts(1)
    BY <1>2, Answered DEF SmtpPlain, SmtpMail, SmtpRcpt, SmtpRset, Quits
  <2>. QED  BY <2>1, <2>2, TakenWorks
<1>3. ASSUME NEW ok, SmtpVerdict(ok) PROVE Counts(1)
  BY <1>3, Answered DEF SmtpVerdict
<1>4. CASE SmtpAuth
  BY <1>3, <1>4, TakenWorks DEF SmtpAuth
<1>5. CASE SmtpAuthPrompt
  <2>1. Counts(1)
    BY <1>5, Prompted DEF SmtpAuthPrompt
  <2>. QED  BY <1>5, <2>1, TakenWorks DEF SmtpAuthPrompt
<1>6. CASE SmtpAuthUser
  <2>1. at \in Midway /\ Continues("smtp", at) /\ Counts(1)
    BY <1>6, Prompted DEF SmtpAuthUser, Continues, Reads
  <2>. QED  BY <2>1, ContinuedWorks
<1>7. CASE SmtpAuthEnd \/ SmtpAuthEof
  <2>1. at \in Midway /\ (Continues("smtp", at) \/ ReadsEof("smtp", at)) /\ Counts(1)
    BY <1>3, <1>7 DEF SmtpAuthEnd, SmtpAuthEof
  <2>. QED  BY <2>1, ContinuedWorks
<1>8. CASE SmtpData
  <2>1. Counts(1)
    BY <1>8, Answered, Prompted DEF SmtpData
  <2>. QED  BY <1>8, <2>1, TakenWorks DEF SmtpData
<1>9. CASE SmtpDataEnd
  <2>1. at \in Midway /\ (Continues("smtp", at) \/ ReadsEof("smtp", at))
    BY <1>9 DEF SmtpDataEnd, Continues, Reads, ReadsEof
  <2>2. Counts(1)
    BY <1>9, Answered DEF SmtpDataEnd
  <2>. QED  BY <2>1, <2>2, ContinuedWorks
<1>. QED  BY <1>1, <1>2, <1>4, <1>5, <1>6, <1>7, <1>8, <1>9 DEF SmtpNext

LEMMA EnsureCounts ==
    ASSUME Numbered, NEW s, NEW r, EnsureAuth(s, r)
    PROVE  Counts(1)
BY Places, Answered DEF EnsureAuth

LEMMA Pop3Works ==
    ASSUME Numbered, Pop3Next
    PROVE  Works /\ Accounts /\ rule.protocol = "pop3"
<1>. USE Places, Quiet
<1>1. CASE Greets("pop3", "request", "after")
  BY <1>1, GreetsWorks
<1>2. CASE Pop3Plain \/ Pop3User \/ Pop3Pass \/ Pop3Rset \/ Quits("pop3")
  <2>1. Takes("pop3", "request")
    BY <1>2 DEF Pop3Plain, Pop3User, Pop3Pass, Pop3Rset, Quits
  <2>2. Counts(1)
    BY <1>2, Answered DEF Pop3Plain, Pop3User, Pop3Pass, Pop3Rset, Quits
  <2>. QED  BY <2>1, <2>2, TakenWorks
<1>3. Pop3Verdict => Counts(1)
  BY Answered DEF Pop3Verdict
<1>4. CASE Pop3Auth
  BY <1>3, <1>4, TakenWorks DEF Pop3Auth
<1>5. CASE Pop3AuthPrompt
  <2>1. Counts(1)
    BY <1>5, Prompted DEF Pop3AuthPrompt
  <2>. QED  BY <1>5, <2>1, TakenWorks DEF Pop3AuthPrompt
<1>6. CASE Pop3AuthEnd
  <2>1. at \in Midway /\ (Continues("pop3", at) \/ ReadsEof("pop3", at))
    BY <1>6 DEF Pop3AuthEnd, Continues, Reads, ReadsEof
  <2>2. Counts(1)
    BY <1>3, <1>6, Answered DEF Pop3AuthEnd
  <2>. QED  BY <2>1, <2>2, ContinuedWorks
<1>7. CASE Pop3List \/ Pop3NoNumber
  BY <1>7, EnsureCounts, TakenWorks DEF Pop3List, Pop3NoNumber
<1>8. ASSUME NEW n \in Numbers, Pop3Message(n) \/ Pop3Dele(n)
      PROVE  Works /\ Accounts /\ rule.protocol = "pop3"
  BY <1>8, EnsureCounts, TakenWorks DEF Pop3Message, Pop3Dele
<1>. QED  BY <1>1, <1>2, <1>4, <1>5, <1>6, <1>7, <1>8 DEF Pop3Next

LEMMA ImapWorks ==
    ASSUME Numbered, ImapNext
    PROVE  Works /\ Accounts /\ rule.protocol = "imap"
<1>. USE Places, Quiet
<1>1. CASE Greets("imap", "request", "after")
  BY <1>1, GreetsWorks
<1>2. CASE ImapPlain \/ ImapLogin \/ ImapAuthOther \/ Quits("imap")
  <2>1. Takes("imap", "request")
    BY <1>2 DEF ImapPlain, ImapLogin, ImapAuthOther, Quits
  <2>2. Counts(1)
    BY <1>2, Answered DEF ImapPlain, ImapLogin, ImapAuthOther, Quits
  <2>. QED  BY <2>1, <2>2, TakenWorks
<1>3. CASE ImapBadLine
  <2>1. Counts(0)
    BY <1>3, Unreported DEF ImapBadLine
  <2>. QED  BY <1>3, <2>1, PassedWorks DEF ImapBadLine
<1>4. CASE ImapAuthPrompt
  <2>1. Counts(1)
    BY <1>4, Prompted DEF ImapAuthPrompt
  <2>. QED  BY <1>4, <2>1, TakenWorks DEF ImapAuthPrompt
<1>5. CASE ImapAuthEnd
  <2>1. at \in Midway /\ (Continues("imap", at) \/ ReadsEof("imap", at))
    BY <1>5 DEF ImapAuthEnd, Continues, Reads, ReadsEof
  <2>2. Counts(1)
    BY <1>5, Answered DEF ImapAuthEnd
  <2>. QED  BY <2>1, <2>2, ContinuedWorks
<1>6. CASE ImapList \/ ImapSelect \/ ImapUidOther
  BY <1>6, EnsureCounts, TakenWorks DEF ImapList, ImapSelect, ImapUidOther
<1>7. ASSUME NEW n \in Numbers, ImapFetch(n)
      PROVE  Works /\ Accounts /\ rule.protocol = "imap"
  BY <1>7, EnsureCounts, TakenWorks DEF ImapFetch
<1>. QED  BY <1>1, <1>2, <1>3, <1>4, <1>5, <1>6, <1>7 DEF ImapNext

LEMMA MailWorks ==
    ASSUME Numbered, MailNext
    PROVE  /\ Works /\ Accounts /\ rule.protocol # "memcached"
           /\ (SmtpNext /\ rule.protocol = "smtp") \/ (Pop3Next /\ rule.protocol = "pop3")
                \/ (ImapNext /\ rule.protocol = "imap")
BY SmtpWorks, Pop3Works, ImapWorks DEF MailNext

LEMMA FtpWorks ==
    ASSUME Numbered, FtpNext
    PROVE  Works /\ Accounts /\ rule.protocol = "ftp"
<1>. USE Places, Quiet
<1>1. CASE Greets("ftp", "request", "after")
  BY <1>1, GreetsWorks
<1>2. CASE FtpPlain \/ FtpUser \/ FtpPass \/ FtpFiles \/ FtpQuit
  <2>1. Takes("ftp", "request")
    BY <1>2 DEF FtpPlain, FtpUser, FtpPass, FtpFiles, FtpQuit
  <2>2. Counts(1)
    BY <1>2, Answered DEF FtpPlain, FtpUser, FtpPass, FtpFiles, FtpQuit
  <2>. QED  BY <2>1, <2>2, TakenWorks
<1>. QED  BY <1>1, <1>2 DEF FtpNext

LEMMA TelnetWorks ==
    ASSUME Numbered, TelnetNext
    PROVE  Works /\ Accounts /\ rule.protocol = "telnet"
<1>. USE Places, Quiet
<1>1. CASE Greets("telnet", "login", "first")
  BY <1>1, GreetsWorks
<1>2. CASE TelnetUser
  <2>1. Counts(1)
    BY <1>2, Prompted DEF TelnetUser
  <2>. QED  BY <1>2, <2>1, TakenWorks DEF TelnetUser
<1>3. CASE TelnetPass
  <2>1. at \in Midway /\ (Continues("telnet", at) \/ ReadsEof("telnet", at))
    BY <1>3 DEF TelnetPass, Continues, Reads, ReadsEof
  <2>2. Counts(1)
    BY <1>3, Answered DEF TelnetPass
  <2>. QED  BY <2>1, <2>2, ContinuedWorks
<1>4. CASE TelnetCommand
  <2>1. Counts(1)
    BY <1>4, Answered DEF TelnetCommand
  <2>. QED  BY <1>4, <2>1, TakenWorks DEF TelnetCommand
<1>. QED  BY <1>1, <1>2, <1>3, <1>4 DEF TelnetNext

LEMMA RedisWorks ==
    ASSUME Numbered, RedisNext
    PROVE  Works /\ Accounts /\ rule.protocol = "redis"
<1>. USE Places, Quiet
<1>1. CASE Greets("redis", "request", "after")
  BY <1>1, GreetsWorks
<1>2. CASE RedisCustom \/ RedisPing \/ RedisAuth \/ RedisCommand
  <2>1. Takes("redis", "request")
    BY <1>2 DEF RedisCustom, RedisPing, RedisAuth, RedisCommand
  <2>2. Counts(1)
    BY <1>2, Answered DEF RedisCustom, RedisPing, RedisAuth, RedisCommand
  <2>. QED  BY <2>1, <2>2, TakenWorks
<1>3. CASE RedisProtocolError
  <2>1. Counts(0)
    BY <1>3, Unreported DEF RedisProtocolError
  <2>. QED  BY <1>3, <2>1, PassedWorks DEF RedisProtocolError
<1>. QED  BY <1>1, <1>2, <1>3 DEF RedisNext

LEMMA MysqlWorks ==
    ASSUME Numbered, MysqlNext
    PROVE  Works /\ Accounts /\ rule.protocol = "mysql"
<1>. USE Places, Quiet
<1>1. CASE Greets("mysql", "handshake", "first")
  BY <1>1, GreetsWorks
<1>2. CASE MysqlLogin
  <2>1. Counts(1)
    BY <1>2, Answered, SilentlyTold DEF MysqlLogin
  <2>. QED  BY <1>2, <2>1, TakenWorks DEF MysqlLogin
<1>3. CASE MysqlQuery
  <2>1. Counts(1)
    BY <1>3, Answered DEF MysqlQuery
  <2>. QED  BY <1>3, <2>1, TakenWorks DEF MysqlQuery
<1>4. CASE MysqlOther \/ MysqlQuit
  <2>1. Counts(0)
    BY <1>4, Unreported, SilentlyNone DEF MysqlOther, MysqlQuit
  <2>. QED  BY <1>4, <2>1, PassedWorks DEF MysqlOther, MysqlQuit
<1>. QED  BY <1>1, <1>2, <1>3, <1>4 DEF MysqlNext

LEMMA PostgresqlWorks ==
    ASSUME Numbered, PostgresqlNext
    PROVE  Works /\ Accounts /\ rule.protocol = "postgresql"
<1>. USE Places, Quiet
<1>1. CASE PostgresqlBegin
  BY <1>1, BeginsWorks DEF PostgresqlBegin
<1>2. CASE PostgresqlSsl \/ PostgresqlOther \/ PostgresqlTerminate
  <2>1. Counts(0)
    BY <1>2, Unreported, SilentlyNone DEF PostgresqlSsl, PostgresqlOther, PostgresqlTerminate
  <2>. QED  BY <1>2, <2>1, PassedWorks DEF PostgresqlSsl, PostgresqlOther, PostgresqlTerminate
<1>3. CASE PostgresqlStartup
  <2>1. CASE /\ PassesOver("postgresql", "startup")
             /\ Answers("closed", session, Say("unsupported version"), "none")
    <3>1. Counts(0)
      BY <1>3, <2>1, Unreported DEF PostgresqlStartup
    <3>. QED  BY <2>1, <3>1, PassedWorks
  <2>2. CASE /\ Takes("postgresql", "startup")
             /\ Answers("password", session, Say("prompt"), "first")
    <3>1. Counts(1)
      BY <2>2, Answered
    <3>. QED  BY <2>2, <3>1, TakenWorks
  <2>. QED  BY <1>3, <2>1, <2>2 DEF PostgresqlStartup
<1>4. CASE PostgresqlPassword
  <2>1. CASE /\ PassesOver("postgresql", "password")
             /\ Answers("closed", session, Say("password expected"), "none") /\ Unchecked
    <3>1. Counts(0)
      BY <2>1, Unreported
    <3>. QED  BY <2>1, <3>1, PassedWorks
  <2>2. CASE /\ Takes("postgresql", "password")
             /\ \/ Silent("closed", session, "told") /\ Unchecked
                \/ Checked(FALSE) /\ Answers("closed", session, Say("denied"), "first")
                \/ Checked(TRUE) /\ Answers("closed", session, Say("unknown database"), "first")
                \/ Checked(TRUE) /\ Answers("request", session, Say("authenticated"), "first")
    <3>1. Counts(1)
      BY <2>2, Answered, SilentlyTold
    <3>. QED  BY <2>2, <3>1, TakenWorks
  <2>. QED  BY <1>4, <2>1, <2>2 DEF PostgresqlPassword
<1>5. CASE PostgresqlQuery
  <2>1. Counts(1)
    BY <1>5, Answered DEF PostgresqlQuery
  <2>. QED  BY <1>5, <2>1, TakenWorks DEF PostgresqlQuery
<1>. QED  BY <1>1, <1>2, <1>3, <1>4, <1>5 DEF PostgresqlNext

LEMMA LoginWorks ==
    ASSUME Numbered, LoginNext
    PROVE  /\ Works /\ Accounts /\ rule.protocol # "memcached"
           /\ \/ FtpNext /\ rule.protocol = "ftp"
              \/ TelnetNext /\ rule.protocol = "telnet"
              \/ RedisNext /\ rule.protocol = "redis"
              \/ MysqlNext /\ rule.protocol = "mysql"
              \/ PostgresqlNext /\ rule.protocol = "postgresql"
BY FtpWorks, TelnetWorks, RedisWorks, MysqlWorks, PostgresqlWorks DEF LoginNext

Probes == {"mqtt", "mongodb", "vnc", "rdp", "ssh", "ldap", "smb", "http", "dns_tcp"}

LEMMA VncWorks ==
    ASSUME Numbered, VncVersion \/ VncSecurity \/ VncResponse
    PROVE  Works /\ Accounts /\ rule.protocol = "vnc"
<1>. USE Places
<1>1. PICK w \in Idle : PassesOver("vnc", w) \/ Continues("vnc", w)
  BY DEF VncVersion, VncSecurity, VncResponse
<1>2. rule.protocol = "vnc" /\ Unchecked
  BY <1>1 DEF PassesOver, Continues, Reads, VncVersion, VncSecurity, VncResponse
<1>3. ASSUME NEW type, VncSecures(type) PROVE Counts(0)
  BY <1>2, <1>3, Unreported, SilentlyNone DEF VncSecures
<1>4. Counts(0)
  BY <1>2, <1>3, Unreported, SilentlyNone DEF VncVersion, VncSecurity, VncResponse
<1>. QED  BY <1>1, <1>4, PassedWorks

LEMMA ProbeWorks ==
    ASSUME Numbered, ProbeNext
    PROVE  Works /\ Accounts /\ rule.protocol \in Probes
<1>. USE Places
<1>1. CASE MqttConnect \/ MqttPing \/ MqttOther \/ MongodbRequest
  <2>1. \E p \in Probes : Takes(p, "request")
    BY <1>1 DEF Probes, MqttConnect, MqttPing, MqttOther, MongodbRequest
  <2>2. Counts(1)
    BY <1>1, Answered, SilentlyTold DEF MqttConnect, MqttPing, MqttOther, MongodbRequest
  <2>. QED  BY <2>1, <2>2, TakenWorks
<1>2. CASE VncVersion \/ VncSecurity \/ VncResponse
  BY <1>2, VncWorks DEF Probes
<1>3. CASE RdpBegin
  BY <1>3, BeginsWorks DEF Probes, RdpBegin
<1>4. CASE RdpNegotiation \/ Recorded("rdp") \/ SshVersion \/ Recorded("ssh")
  <2>1. \E p \in Probes : \E w \in Idle : Takes(p, w)
    BY <1>4 DEF Probes, RdpNegotiation, Recorded, SshVersion
  <2>2. Counts(1)
    BY <1>4, Answered, SilentlyTold DEF RdpNegotiation, Recorded, SshVersion
  <2>. QED  BY <2>1, <2>2, TakenWorks
<1>5. CASE LdapRequest \/ SmbNegotiate \/ HttpRequest \/ DnsTcpQuery
  <2>1. \E p \in Probes : Takes(p, "request") \/ TakesEof(p, "request")
    BY <1>5 DEF Probes, LdapRequest, SmbNegotiate, HttpRequest, DnsTcpQuery
  <2>2. Counts(1)
    BY <1>5, Answered, SilentlyTold DEF LdapRequest, SmbNegotiate, HttpRequest, DnsTcpQuery
  <2>. QED  BY <2>1, <2>2, TakenWorks
<1>6. CASE Greets("vnc", "version", "after") \/ Greets("ssh", "version", "first")
  BY <1>6, GreetsWorks DEF Probes
<1>. QED  BY <1>1, <1>2, <1>3, <1>4, <1>5, <1>6 DEF ProbeNext

LEMMA SendsCount ==
    ASSUME Numbered, NEW oids, NEW s, Sends(oids, s)
    PROVE  Counts(1)
<1>1. CASE Answers("request", s, Say("values"), "after")
  BY <1>1, Places, Answered
<1>2. CASE /\ at' = "closed" /\ untold' = untold + 1
           /\ UNCHANGED <<rule, eof, session, told>>
  BY <1>2, Places DEF Counts, Moves, Discreet, Pend, Numbered
<1>. QED  BY <1>1, <1>2 DEF Sends

Framed == {"memcached", "snmp", "dns_udp"}

LEMMA SnmpWorks ==
    ASSUME Numbered, SnmpNext
    PROVE  Works /\ Accounts /\ rule.protocol \in {"snmp", "dns_udp"}
<1>. USE Places
<1>1. CASE SnmpGet \/ SnmpGetNext \/ SnmpGetBulk
  <2>1. Takes("snmp", "request")
    BY <1>1 DEF SnmpGet, SnmpGetNext, SnmpGetBulk
  <2>2. \E oids, s : Sends(oids, s)
    BY <1>1 DEF SnmpGet, SnmpGetNext, SnmpGetBulk
  <2>. QED  BY <2>1, <2>2, SendsCount, TakenWorks
<1>2. CASE SnmpUnanswered
  <2>1. CASE Takes("snmp", "request") /\ Silent("request", session, "told")
    BY <2>1, SilentlyTold, TakenWorks
  <2>2. CASE PassesOver("snmp", "request") /\ Silent("request", session, "none")
    BY <1>2, <2>2, SilentlyNone, PassedWorks DEF SnmpUnanswered
  <2>. QED  BY <1>2, <2>1, <2>2 DEF SnmpUnanswered
<1>3. CASE DnsUdpQuery
  <2>1. CASE PassesOver("dns_udp", "request") /\ Silent("request", session, "none")
    BY <1>3, <2>1, SilentlyNone, PassedWorks DEF DnsUdpQuery
  <2>2. ASSUME Takes("dns_udp", "request"), NEW r, Answers("request", session, Say(r), "after")
        PROVE  Works /\ Accounts /\ rule.protocol = "dns_udp"
    BY <2>2, Answered, TakenWorks
  <2>. QED  BY <1>3, <2>1, <2>2 DEF DnsUdpQuery
<1>. QED  BY <1>1, <1>2, <1>3 DEF SnmpNext

LEMMA MemcachedWorks ==
    ASSUME Numbered, MemcachedNext
    PROVE  Works /\ rule.protocol = "memcached" /\ at # "greet" /\ at' \in After
<1>. USE Places
<1>1. CASE MemcachedRead
  <2>1. PICK w \in After : \E s : Silent(w, s, "none")
    BY <1>1 DEF MemcachedRead
  <2>2. Takes("memcached", "request") /\ Unchecked
    BY <1>1 DEF MemcachedRead
  <2>3. Counts(0) /\ at' = w
    BY <2>1, <2>2, SilentlyNone DEF Silent
  <2>4. at = "request" /\ rule.protocol = "memcached" /\ taken' \in Nat
    BY <2>2 DEF Takes, Reads, Numbered
  <2>. QED  BY <2>3, <2>4 DEF Works, Counts
<1>2. CASE MemcachedLine \/ MemcachedDone
  <2>1. at = "lines" /\ rule.protocol = "memcached" /\ taken' \in Nat /\ Unchecked
    BY <1>2 DEF MemcachedLine, MemcachedDone, AtLines, TakesNothing, Numbered
  <2>2. \E w \in After : \E s : \/ Silent(w, s, "none")
                             \/ Answers(w, s, Say("reply"), "after")
    BY <1>2 DEF MemcachedLine, MemcachedDone
  <2>3. (Counts(0) \/ Counts(1)) /\ at' \in After
    BY <2>1, <2>2, Answered, SilentlyNone DEF Silent, Answers
  <2>. QED  BY <2>1, <2>3 DEF Works, Counts
<1>. QED  BY <1>1, <1>2 DEF MemcachedNext

\* Memcached counts the commands that it has answered and reported.
LEMMA MemcachedCounts ==
    ASSUME Numbered, MemcachedNext, session \in MemcachedSession
    PROVE  told' + session.commands = told + session'.commands
<1>1. session.commands \in Nat
  BY MemcachedAssumption DEF MemcachedSession
<1>2. ASSUME NEW w, NEW s, s.commands = session.commands, Silent(w, s, "none")
      PROVE  told' + session.commands = told + session'.commands
  BY <1>1, <1>2 DEF Silent, Numbered
<1>3. ASSUME NEW w, NEW s, s.commands = session.commands + 1, Answers(w, s, Say("reply"), "after")
      PROVE  told' + session.commands = told + session'.commands
  <2>1. \/ session' = s /\ told' = told + 1
        \/ session' = session /\ told' = told
    BY <1>3 DEF Answers, Numbered
  <2>. QED  BY <1>1, <1>3, <2>1 DEF Numbered
<1>4. CASE MemcachedRead
  <2>1. PICK chunk : LET s == [session EXCEPT !.pending = @ \o chunk, !.sent = @ \o chunk] IN
                     \E w : Silent(w, s, "none")
    BY <1>4 DEF MemcachedRead
  <2>. DEFINE s == [session EXCEPT !.pending = @ \o chunk, !.sent = @ \o chunk]
  <2>2. s.commands = session.commands
    BY DEF MemcachedSession
  <2>. HIDE DEF s
  <2>. QED  BY <1>2, <2>1, <2>2 DEF s
<1>5. CASE MemcachedLine
  <2>. DEFINE end  == LineEnd(session.pending)
              line == SubSeq(session.pending, 1, end)
              rest == [session EXCEPT !.pending = SubSeq(@, end + 1, Len(@))]
              n    == session.commands + 1
              w    == IF n >= MaxCommands THEN "closed" ELSE "lines"
              s    == [rest EXCEPT !.commands = n]
  <2>1. Silent("lines", rest, "none") \/ Answers(w, s, Say("reply"), "after")
    BY <1>5 DEF MemcachedLine
  <2>2. rest.commands = session.commands /\ s.commands = session.commands + 1
    BY DEF MemcachedSession
  <2>. HIDE DEF rest, w, s
  <2>. QED  BY <1>2, <1>3, <2>1, <2>2
<1>6. CASE MemcachedDone
  BY <1>2, <1>6 DEF MemcachedDone
<1>. QED  BY <1>4, <1>5, <1>6 DEF MemcachedNext

LEMMA MemcachedCommands ==
    ASSUME session \in MemcachedSession, MemcachedNext
    PROVE  session.commands \in Nat /\ session'.commands \in Nat
<1>1. session.commands \in Nat
  BY MemcachedAssumption DEF MemcachedSession
<1>2. ASSUME NEW s, s.commands \in Nat, session' = s \/ session' = session
      PROVE  session'.commands \in Nat
  BY <1>1, <1>2
<1>3. CASE MemcachedRead
  <2>1. PICK chunk : session' = [session EXCEPT !.pending = @ \o chunk, !.sent = @ \o chunk]
    BY <1>3 DEF MemcachedRead, Silent
  <2>2. session'.commands = session.commands
    BY <2>1 DEF MemcachedSession
  <2>. QED  BY <1>1, <2>2
<1>4. CASE MemcachedLine
  <2>. DEFINE rest == [session EXCEPT !.pending = SubSeq(@, LineEnd(session.pending) + 1, Len(@))]
              s    == [rest EXCEPT !.commands = session.commands + 1]
  <2>1. session' \in {session, rest, s}
    BY <1>4 DEF MemcachedLine, Silent, Answers
  <2>2. rest.commands = session.commands /\ s.commands = session.commands + 1
    BY DEF MemcachedSession
  <2>. HIDE DEF rest, s
  <2>. QED  BY <1>1, <2>1, <2>2
<1>5. CASE MemcachedDone
  BY <1>1, <1>5 DEF MemcachedDone, Silent
<1>. QED  BY <1>1, <1>3, <1>4, <1>5 DEF MemcachedNext

LEMMA FramedWorks ==
    ASSUME Numbered, MemcachedNext \/ SnmpNext
    PROVE  Works /\ rule.protocol \in Framed
BY MemcachedWorks, SnmpWorks DEF Framed

LEMMA EndingWorks ==
    ASSUME Numbered, EndOfFile \/ ReadFails \/ TimeLimit \/ IdleLimit
    PROVE  /\ Works /\ Accounts /\ session' = session
           /\ told' = told /\ taken' = taken /\ at' = "closed" /\ at # "greet"
<1>1. TakesNothing /\ Unchecked /\ at \notin Busy
  BY DEF EndOfFile, ReadFails, TimeLimit, IdleLimit, Leaves
<1>2. taken' = taken /\ at # "greet" /\ at # "closed"
  BY <1>1 DEF TakesNothing, Busy
<1>3. Silent("closed", session, "lost") \/ Silent("closed", session, "none")
  BY DEF EndOfFile, ReadFails, TimeLimit, IdleLimit, Leaves
<1>4. at \in Midway => Silent("closed", session, "lost")
  BY DEF EndOfFile, ReadFails, TimeLimit, IdleLimit, Leaves
<1>5. at \notin Midway => Silent("closed", session, "none")
  BY DEF EndOfFile, ReadFails, TimeLimit, IdleLimit, Leaves
<1>6. session' = session /\ told' = told /\ at' = "closed"
  BY <1>3 DEF Silent, Numbered
<1>7. CASE at \in Midway
  <2>1. Counts(1)
    BY <1>4, <1>7, SilentlyLost
  <2>. QED  BY <1>2, <1>6, <1>7, <2>1, Places DEF Works, Accounts, Counts, Moves, Pend, Greeting, Numbered
<1>8. CASE at \notin Midway
  <2>1. Counts(0)
    BY <1>1, <1>5, <1>8, Places, SilentlyNone
  <2>. QED  BY <1>2, <1>6, <1>8, <2>1, Places DEF Works, Accounts, Counts, Moves, Pend, Greeting, Numbered
<1>. QED  BY <1>7, <1>8

-------------------------------------------------------------------------------
(* The audit trail                                                         *)

Trail ==
    /\ Numbered /\ TrailLosesOnlyTheLast
    /\ at = "greet" => FirstPoint(rule.protocol) = "greet"
    /\ rule.protocol = "memcached" => at \notin Midway

LEMMA TrailStep ==
    ASSUME Trail, [Next]_vars, rule.protocol = "memcached" => session \in MemcachedSession
    PROVE  Trail'
<1>1. Numbered /\ (at # "closed" => untold = 0)
  BY DEF Trail, TrailLosesOnlyTheLast, Numbered
<1>. DEFINE Connected == IF FirstPoint(rule.protocol) = "greet" /\ at # "greet" THEN 1 ELSE 0
<1>2. ASSUME Works PROVE /\ Numbered' /\ untold' <= 1 /\ (untold' = 1 => at' = "closed")
                         /\ rule' = rule /\ at' # "greet" /\ untold' \in Nat
  BY <1>1, <1>2 DEF Works, Moves, Numbered
<1>3. ASSUME Works, Accounts, rule.protocol # "memcached" PROVE Trail'
  <2>1. told + untold + Pend(at) = Connected + taken
    BY <1>3 DEF Trail, TrailLosesOnlyTheLast, Owed, Pend
  <2>2. Connected' = Connected + Greeting(at) /\ Connected \in Nat
    BY <1>2, <1>3 DEF Trail, Greeting
  <2>3. /\ Pend(at) \in Nat /\ Pend(at') \in Nat /\ Greeting(at) \in Nat
        /\ told \in Nat /\ untold \in Nat /\ taken \in Nat
        /\ told' \in Nat /\ untold' \in Nat /\ taken' \in Nat
    BY <1>1, <1>2, <1>3 DEF Pend, Greeting, Numbered
  <2>. HIDE DEF Connected
  <2>4. told' + untold' + Pend(at') = Connected' + taken'
    BY <1>3, <2>1, <2>2, <2>3 DEF Accounts
  <2>5. TrailLosesOnlyTheLast'
    BY <1>2, <1>3, <2>4 DEF TrailLosesOnlyTheLast, Owed, Pend, Connected
  <2>. QED  BY <1>2, <1>3, <2>5 DEF Trail
<1>4. ASSUME Works, rule.protocol = "memcached", at' \notin Midway, session.commands \in Nat,
             session'.commands \in Nat, told' + session.commands = told + session'.commands
      PROVE  Trail'
  <2>1. told + untold = session.commands + untold
    BY <1>4 DEF Trail, TrailLosesOnlyTheLast, Owed, FirstPoint, Numbered
  <2>2. told' + untold' = session'.commands + untold'
    BY <1>1, <1>2, <1>4, <2>1 DEF Numbered
  <2>3. TrailLosesOnlyTheLast'
    BY <1>2, <1>4, <2>2 DEF TrailLosesOnlyTheLast, Owed, FirstPoint, Numbered
  <2>. QED  BY <1>2, <1>4, <2>3 DEF Trail
<1>5. CASE MailNext \/ LoginNext \/ ProbeNext \/ SnmpNext
  BY <1>1, <1>3, <1>5, MailWorks, LoginWorks, ProbeWorks, SnmpWorks DEF Probes
<1>6. CASE MemcachedNext
  <2>1. rule.protocol = "memcached" /\ session \in MemcachedSession
    BY <1>1, <1>6, MemcachedWorks
  <2>2. Works /\ at' \notin Midway /\ told' + session.commands = told + session'.commands
    BY <1>1, <1>6, <2>1, MemcachedWorks, MemcachedCounts, Places
  <2>3. session.commands \in Nat /\ session'.commands \in Nat
    BY <1>6, <2>1, MemcachedCommands
  <2>. QED  BY <1>4, <2>1, <2>2, <2>3
<1>7. CASE EndOfFile \/ ReadFails \/ TimeLimit \/ IdleLimit
  <2>1. CASE rule.protocol # "memcached"
    BY <1>1, <1>3, <1>7, <2>1, EndingWorks
  <2>2. CASE rule.protocol = "memcached"
    <3>1. session.commands \in Nat
      BY <2>2, MemcachedAssumption DEF MemcachedSession
    <3>2. Works /\ session' = session /\ told' = told /\ at' = "closed"
      BY <1>1, <1>7, EndingWorks
    <3>. QED  BY <1>1, <1>4, <2>2, <3>1, <3>2, Places DEF Numbered
  <2>. QED  BY <2>1, <2>2
<1>8. CASE ClientEnds \/ UNCHANGED vars
  <2>1. UNCHANGED <<rule, at, session, taken, told, untold>>
    BY <1>8 DEF ClientEnds, vars
  <2>. QED  BY <2>1 DEF Trail, TrailLosesOnlyTheLast, Owed, Numbered
<1>. QED  BY <1>5, <1>6, <1>7, <1>8 DEF Next, Serves

-------------------------------------------------------------------------------
(* The sessions and the gate                                               *)

\* What the gate asks of a step: content only through an open gate, which nothing but a
\* successful check opens.
Passes ==
    /\ GateOpen' \in BOOLEAN
    /\ \/ Unchecked /\ (said'.kind \in Content => GateOpen) /\ (GateOpen' => GateOpen)
       \/ \E ok \in BOOLEAN :
            Checked(ok) /\ said'.kind \notin Content /\ (GateOpen' => ok \/ GateOpen)

\* Answers that give nothing away.
Plain == {"nothing", "banner", "ok", "unrecognized", "custom", "prompt", "bye", "syntax",
          "auth required", "need MAIL", "need RCPT", "user unknown", "authenticated", "denied",
          "no such message", "number required", "bad line"}

LEMMA Kinds ==
    /\ \A k : Say(k).kind = k
    /\ \A k, n : Show(k, n).kind = k
    /\ \A k \in Plain : k \notin Content
    /\ "nothing" \notin Content
BY DEF Say, Show, Content, Plain

\* An answer reaches the client, or the task ends.
LEMMA AnswerOutcome ==
    ASSUME NEW next, NEW s, NEW r, NEW report, Answers(next, s, r, report)
    PROVE  \/ at' = next /\ session' = s /\ said' = r
           \/ at' = "closed" /\ session' = session /\ said'.kind = "nothing"
BY Kinds DEF Answers

\* SMTP: recipients have a sender, and a login or a sender had a successful check.
SmtpSound(s) ==
    /\ s \in SmtpSession
    /\ s.rcpt_to => s.mail_from
    /\ rule.require_auth /\ (s.authed \/ s.mail_from) => proved

SmtpOpen(s) == ~rule.require_auth \/ s.authed \/ s.mail_from

SmtpInv ==
    /\ rule.require_auth \in BOOLEAN /\ proved \in BOOLEAN
    /\ SmtpSound(session)
    /\ at = "data" => session.rcpt_to

LEMMA SmtpGate ==
    ASSUME rule.protocol = "smtp", rule' = rule
    PROVE  /\ GateOpen <=> SmtpOpen(session)
           /\ GateOpen' <=> SmtpOpen(session)'
           /\ GateOpen' \in BOOLEAN
BY DEF GateOpen, SmtpOpen

\* What a request without a check may lead to and be answered with.
SmtpAllowed(next, s, r) ==
    /\ SmtpSound(s) /\ (next = "data" => s.rcpt_to)
    /\ r.kind \in Content => SmtpOpen(session)
    /\ SmtpOpen(s) => SmtpOpen(session)

LEMMA SmtpAnswers ==
    ASSUME SmtpInv, rule.protocol = "smtp", rule' = rule, Unchecked,
           NEW next, NEW s, NEW r, NEW report, Answers(next, s, r, report),
           SmtpAllowed(next, s, r)
    PROVE  SmtpInv' /\ Passes
<1>1. \/ at' = next /\ session' = s /\ said' = r
      \/ at' = "closed" /\ session' = session /\ said'.kind = "nothing"
  BY AnswerOutcome
<1>2. SmtpInv'
  BY <1>1 DEF SmtpInv, SmtpAllowed, SmtpSound, Unchecked
<1>3. Passes
  BY <1>1, SmtpGate, Kinds DEF SmtpAllowed, SmtpOpen, Passes
<1>. QED  BY <1>2, <1>3

LEMMA SmtpVerdicts ==
    ASSUME SmtpInv, rule.protocol = "smtp", rule' = rule, NEW ok \in BOOLEAN, SmtpVerdict(ok)
    PROVE  SmtpInv' /\ Passes
<1>. DEFINE s == [session EXCEPT !.authed = ok]
            r == Say(IF ok THEN "authenticated" ELSE "denied")
<1>1. Checked(ok) /\ Answers("request", s, r, "after")
  BY DEF SmtpVerdict
<1>2. /\ s \in SmtpSession /\ s.authed = ok /\ s.mail_from = session.mail_from
      /\ s.rcpt_to = session.rcpt_to /\ r.kind \notin Content
  BY Kinds DEF SmtpInv, SmtpSound, SmtpSession, Content
<1>. HIDE DEF s, r
<1>3. \/ at' = "request" /\ session' = s /\ said' = r
      \/ at' = "closed" /\ session' = session /\ said'.kind = "nothing"
  BY <1>1, AnswerOutcome
<1>4. SmtpInv'
  BY <1>1, <1>2, <1>3 DEF SmtpInv, SmtpSound, Checked
<1>5. Passes
  BY <1>1, <1>2, <1>3, SmtpGate, Kinds DEF SmtpOpen, Passes
<1>. QED  BY <1>4, <1>5

LEMMA SmtpStep ==
    ASSUME SmtpInv, rule.protocol = "smtp", rule' = rule, SmtpNext
    PROVE  SmtpInv' /\ Passes
<1>. DEFINE sender == [session EXCEPT !.mail_from = TRUE]
            recipient == [session EXCEPT !.rcpt_to = TRUE]
<1>1. /\ SmtpSound(session) /\ SmtpSound(ResetTransaction)
      /\ SmtpOpen(ResetTransaction) => SmtpOpen(session)
  BY DEF SmtpInv, SmtpSound, SmtpSession, SmtpOpen, ResetTransaction
<1>2. \A w, k : w # "data" /\ k \in Plain =>
         /\ SmtpAllowed(w, session, Say(k))
         /\ SmtpAllowed(w, ResetTransaction, Say(k))
  BY <1>1, Kinds DEF SmtpAllowed
<1>3. session.rcpt_to => SmtpAllowed("data", session, Say("prompt"))
  BY <1>1, Kinds DEF SmtpAllowed, Plain
<1>4. ~(rule.require_auth /\ ~session.authed) => SmtpAllowed("request", sender, Say("sender"))
  BY DEF SmtpInv, SmtpSound, SmtpSession, SmtpOpen, SmtpAllowed
<1>5. session.mail_from => SmtpAllowed("request", recipient, Say("recipient"))
  BY DEF SmtpInv, SmtpSound, SmtpSession, SmtpOpen, SmtpAllowed
<1>6. at = "data" => SmtpAllowed("request", ResetTransaction, Say("accepted"))
  BY <1>1 DEF SmtpInv, SmtpSound, SmtpOpen, SmtpAllowed
<1>. HIDE DEF sender, recipient
<1>7. CASE SmtpPlain \/ SmtpAuthPrompt \/ SmtpAuthUser \/ Quits("smtp")
           \/ (Greets("smtp", "request", "after") /\ Unchecked)
  BY <1>2, <1>7, SmtpAnswers DEF SmtpPlain, SmtpAuthPrompt, SmtpAuthUser, Quits, Greets, Plain
<1>8. CASE SmtpAuth \/ SmtpAuthEnd \/ SmtpAuthEof
  BY <1>8, SmtpVerdicts DEF SmtpAuth, SmtpAuthEnd, SmtpAuthEof
<1>9. CASE SmtpMail
  BY <1>2, <1>4, <1>9, SmtpAnswers DEF SmtpMail, Plain, sender
<1>10. CASE SmtpRcpt
  BY <1>2, <1>5, <1>10, SmtpAnswers DEF SmtpRcpt, Plain, recipient
<1>11. CASE SmtpData
  BY <1>2, <1>3, <1>11, SmtpAnswers DEF SmtpData, Plain
<1>12. CASE SmtpDataEnd
  BY <1>6, <1>12, SmtpAnswers DEF SmtpDataEnd, Continues, Reads, ReadsEof
<1>13. CASE SmtpRset
  BY <1>2, <1>13, SmtpAnswers DEF SmtpRset, Plain
<1>. QED  BY <1>7, <1>8, <1>9, <1>10, <1>11, <1>12, <1>13 DEF SmtpNext

-------------------------------------------------------------------------------
(* The handlers whose gate is the login of the session                     *)

Authed == {"pop3", "imap", "redis", "ftp"}

\* A session s and an answer r that may come of a request without a check ...
Free(s, r) ==
    /\ s.authed \in BOOLEAN
    /\ r.kind \in Content => session.authed
    /\ s.authed => session.authed

\* ... and of a check with the outcome ok.
Judged(s, r, ok) ==
    /\ s.authed \in BOOLEAN
    /\ r.kind \notin Content
    /\ s.authed => ok \/ session.authed

LEMMA AuthedGate ==
    ASSUME rule.protocol \in Authed, rule' = rule
    PROVE  GateOpen = session.authed /\ GateOpen' = session'.authed
BY DEF GateOpen, Authed

LEMMA FreeAnswers ==
    ASSUME rule.protocol \in Authed, rule' = rule, session.authed \in BOOLEAN, Unchecked,
           NEW next, NEW s, NEW r, NEW report, Answers(next, s, r, report), Free(s, r)
    PROVE  Passes
<1>1. \/ at' = next /\ session' = s /\ said' = r
      \/ at' = "closed" /\ session' = session /\ said'.kind = "nothing"
  BY AnswerOutcome
<1>. QED  BY <1>1, AuthedGate, Kinds DEF Free, Passes

LEMMA JudgedAnswers ==
    ASSUME rule.protocol \in Authed, rule' = rule, session.authed \in BOOLEAN,
           NEW ok \in BOOLEAN, Checked(ok),
           NEW next, NEW s, NEW r, NEW report, Answers(next, s, r, report), Judged(s, r, ok)
    PROVE  Passes
<1>1. \/ at' = next /\ session' = s /\ said' = r
      \/ at' = "closed" /\ session' = session /\ said'.kind = "nothing"
  BY AnswerOutcome
<1>. QED  BY <1>1, AuthedGate, Kinds DEF Judged, Passes

Pop3Free(s, r) == s \in Pop3Session /\ Free(s, r)
Pop3Judged(s, r, ok) == s \in Pop3Session /\ Judged(s, r, ok)

LEMMA Pop3Answers ==
    ASSUME session \in Pop3Session, rule.protocol = "pop3", rule' = rule, Unchecked,
           NEW next, NEW s, NEW r, NEW report, Answers(next, s, r, report), Pop3Free(s, r)
    PROVE  session' \in Pop3Session /\ Passes
<1>1. rule.protocol \in Authed /\ session.authed \in BOOLEAN
  BY DEF Authed, Pop3Session
<1>. QED  BY <1>1, AnswerOutcome, FreeAnswers DEF Pop3Free

LEMMA Pop3Verdicts ==
    ASSUME session \in Pop3Session, rule.protocol = "pop3", rule' = rule,
           NEW ok \in BOOLEAN, Checked(ok),
           NEW next, NEW s, NEW r, NEW report, Answers(next, s, r, report), Pop3Judged(s, r, ok)
    PROVE  session' \in Pop3Session /\ Passes
<1>1. rule.protocol \in Authed /\ session.authed \in BOOLEAN
  BY DEF Authed, Pop3Session
<1>. QED  BY <1>1, AnswerOutcome, JudgedAnswers DEF Pop3Judged

LEMMA Pop3Step ==
    ASSUME session \in Pop3Session, rule.protocol = "pop3", rule' = rule, Pop3Next
    PROVE  session' \in Pop3Session /\ Passes
<1>2. /\ \A u \in {"known", "other"} : [session EXCEPT !.username = u] \in Pop3Session
      /\ \A u \in {"known", "other"} : [session EXCEPT !.username = u].authed = session.authed
      /\ \A ok \in BOOLEAN : [session EXCEPT !.authed = ok] \in Pop3Session
      /\ \A ok \in BOOLEAN : [session EXCEPT !.authed = ok].authed = ok
      /\ \A D \in SUBSET (1..Messages) : [session EXCEPT !.deleted = D] \in Pop3Session
      /\ \A D \in SUBSET (1..Messages) : [session EXCEPT !.deleted = D].authed = session.authed
      /\ session \in Pop3Session /\ session.authed \in BOOLEAN
  BY DEF Pop3Session
<1>4. \A k \in Plain :
         /\ Pop3Free(session, Say(k))
         /\ \A u \in {"known", "other"} : Pop3Free([session EXCEPT !.username = u], Say(k))
         /\ \A D \in SUBSET (1..Messages) : Pop3Free([session EXCEPT !.deleted = D], Say(k))
  BY <1>2, Kinds DEF Pop3Free, Free
<1>5. \A k \in Plain, ok \in BOOLEAN : Pop3Judged([session EXCEPT !.authed = ok], Say(k), ok)
  BY <1>2, Kinds DEF Pop3Judged, Judged
<1>6. ASSUME NEW s, NEW r, Unchecked, EnsureAuth(s, r), s \in Pop3Session, s.authed = session.authed
      PROVE  session' \in Pop3Session /\ Passes
  <2>1. session.authed => Pop3Free(s, r)
    BY <1>2, <1>6 DEF Pop3Free, Free
  <2>. QED  BY <1>4, <1>6, <2>1, Pop3Answers DEF EnsureAuth, Plain
<1>7. \A t : AuthAnswer(t) = Say("authenticated") \/ AuthAnswer(t) = Say("denied")
  BY DEF AuthAnswer
<1>8. Pop3Verdict => session' \in Pop3Session /\ Passes
  <2>1. \A t : Pop3Free(session, AuthAnswer(t))
    BY <1>4, <1>7 DEF Plain
  <2>2. \A ok \in BOOLEAN : \A t : Pop3Judged([session EXCEPT !.authed = ok], AuthAnswer(t), ok)
    BY <1>5, <1>7 DEF Plain
  <2>. QED  BY <2>1, <2>2, Pop3Answers, Pop3Verdicts DEF Pop3Verdict
<1>9. CASE Pop3Plain \/ Pop3AuthPrompt \/ Quits("pop3")
           \/ (Greets("pop3", "request", "after") /\ Unchecked)
  BY <1>4, <1>9, Pop3Answers DEF Pop3Plain, Pop3AuthPrompt, Quits, Greets, Plain
<1>10. CASE Pop3User \/ Pop3Rset
  BY <1>4, <1>10, Pop3Answers DEF Pop3User, Pop3Rset, Plain
<1>11. CASE Pop3Pass
  BY <1>5, <1>11, Pop3Verdicts DEF Pop3Pass, Plain
<1>12. CASE Pop3Auth \/ Pop3AuthEnd
  <2>1. Pop3Free(session, AuthAnswer(session))
    BY <1>4, <1>7 DEF Plain
  <2>. QED  BY <2>1, <1>8, <1>12, Pop3Answers DEF Pop3Auth, Pop3AuthEnd
<1>13. CASE Pop3List \/ Pop3NoNumber
  BY <1>2, <1>6, <1>13 DEF Pop3List, Pop3NoNumber
<1>14. ASSUME NEW n \in Numbers, Pop3Message(n) \/ Pop3Dele(n)
       PROVE  session' \in Pop3Session /\ Passes
  <2>1. session.deleted \cup ({n} \cap 1..Messages) \in SUBSET (1..Messages)
    BY DEF Pop3Session
  <2>. QED  BY <1>2, <1>6, <1>14, <2>1 DEF Pop3Message, Pop3Dele
<1>. QED  BY <1>9, <1>10, <1>11, <1>12, <1>13, <1>14 DEF Pop3Next


ImapFree(s, r) == s \in ImapSession /\ Free(s, r)
ImapJudged(s, r, ok) == s \in ImapSession /\ Judged(s, r, ok)

LEMMA ImapAnswers ==
    ASSUME session \in ImapSession, rule.protocol = "imap", rule' = rule, Unchecked,
           NEW next, NEW s, NEW r, NEW report, Answers(next, s, r, report), ImapFree(s, r)
    PROVE  session' \in ImapSession /\ Passes
<1>1. rule.protocol \in Authed /\ session.authed \in BOOLEAN
  BY DEF Authed, ImapSession
<1>. QED  BY <1>1, AnswerOutcome, FreeAnswers DEF ImapFree

LEMMA ImapVerdicts ==
    ASSUME session \in ImapSession, rule.protocol = "imap", rule' = rule,
           NEW ok \in BOOLEAN, Checked(ok),
           NEW next, NEW s, NEW r, NEW report, Answers(next, s, r, report), ImapJudged(s, r, ok)
    PROVE  session' \in ImapSession /\ Passes
<1>1. rule.protocol \in Authed /\ session.authed \in BOOLEAN
  BY DEF Authed, ImapSession
<1>. QED  BY <1>1, AnswerOutcome, JudgedAnswers DEF ImapJudged

LEMMA ImapStep ==
    ASSUME session \in ImapSession, rule.protocol = "imap", rule' = rule, ImapNext
    PROVE  session' \in ImapSession /\ Passes
<1>. DEFINE selected == [session EXCEPT !.selected_mailbox = TRUE]
<1>1. /\ session \in ImapSession /\ session.authed \in BOOLEAN
      /\ selected \in ImapSession /\ selected.authed = session.authed
      /\ \A ok \in BOOLEAN : [session EXCEPT !.authed = ok] \in ImapSession
      /\ \A ok \in BOOLEAN : [session EXCEPT !.authed = ok].authed = ok
  BY DEF ImapSession
<1>. HIDE DEF selected
<1>2. \A k \in Plain : ImapFree(session, Say(k))
  BY <1>1, Kinds DEF ImapFree, Free
<1>3. \A k \in Plain, ok \in BOOLEAN : ImapJudged([session EXCEPT !.authed = ok], Say(k), ok)
  BY <1>1, Kinds DEF ImapJudged, Judged
<1>4. ASSUME NEW s, NEW r, Unchecked, EnsureAuth(s, r), s \in ImapSession, s.authed = session.authed
      PROVE  session' \in ImapSession /\ Passes
  <2>1. session.authed => ImapFree(s, r)
    BY <1>1, <1>4 DEF ImapFree, Free
  <2>. QED  BY <1>2, <1>4, <2>1, ImapAnswers DEF EnsureAuth, Plain
<1>5. \A t : AuthAnswer(t) = Say("authenticated") \/ AuthAnswer(t) = Say("denied")
  BY DEF AuthAnswer
<1>6. \A t : ImapFree(session, AuthAnswer(t))
  BY <1>2, <1>5 DEF Plain
<1>7. \A ok \in BOOLEAN : \A t : ImapJudged([session EXCEPT !.authed = ok], AuthAnswer(t), ok)
  BY <1>3, <1>5 DEF Plain
<1>8. CASE ImapPlain \/ ImapBadLine \/ ImapAuthPrompt \/ Quits("imap")
           \/ (Greets("imap", "request", "after") /\ Unchecked)
  BY <1>2, <1>8, ImapAnswers DEF ImapPlain, ImapBadLine, ImapAuthPrompt, Quits, Greets, Plain
<1>9. CASE ImapLogin
  BY <1>7, <1>9, ImapVerdicts DEF ImapLogin
<1>10. CASE ImapAuthOther
  BY <1>6, <1>10, ImapAnswers DEF ImapAuthOther
<1>11. CASE ImapAuthEnd
  BY <1>6, <1>7, <1>11, ImapAnswers, ImapVerdicts DEF ImapAuthEnd
<1>12. CASE ImapList \/ ImapUidOther
  BY <1>1, <1>4, <1>12 DEF ImapList, ImapUidOther
<1>13. CASE ImapSelect
  BY <1>1, <1>4, <1>13 DEF ImapSelect, selected
<1>14. ASSUME NEW n \in Numbers, ImapFetch(n)
       PROVE  session' \in ImapSession /\ Passes
  BY <1>1, <1>4, <1>14 DEF ImapFetch
<1>. QED  BY <1>8, <1>9, <1>10, <1>11, <1>12, <1>13, <1>14 DEF ImapNext

\* Redis checks rule.require_auth beside the session: a session that is not
\* logged in belongs to a rule that asks for a login.
RedisSound(s) ==
    /\ s \in RedisSession
    /\ ~s.authed => rule.require_auth

RedisFree(s, r) == RedisSound(s) /\ Free(s, r)
RedisJudged(s, r, ok) == RedisSound(s) /\ Judged(s, r, ok)

LEMMA RedisAnswers ==
    ASSUME RedisSound(session), rule.protocol = "redis", rule' = rule, Unchecked,
           NEW next, NEW s, NEW r, NEW report, Answers(next, s, r, report), RedisFree(s, r)
    PROVE  RedisSound(session)' /\ Passes
<1>1. rule.protocol \in Authed /\ session.authed \in BOOLEAN
  BY DEF Authed, RedisSound, RedisSession
<1>. QED  BY <1>1, AnswerOutcome, FreeAnswers DEF RedisFree, RedisSound

LEMMA RedisVerdicts ==
    ASSUME RedisSound(session), rule.protocol = "redis", rule' = rule,
           NEW ok \in BOOLEAN, Checked(ok),
           NEW next, NEW s, NEW r, NEW report, Answers(next, s, r, report), RedisJudged(s, r, ok)
    PROVE  RedisSound(session)' /\ Passes
<1>1. rule.protocol \in Authed /\ session.authed \in BOOLEAN
  BY DEF Authed, RedisSound, RedisSession
<1>. QED  BY <1>1, AnswerOutcome, JudgedAnswers DEF RedisJudged, RedisSound

LEMMA RedisStep ==
    ASSUME RedisSound(session), rule.require_auth \in BOOLEAN,
           rule.protocol = "redis", rule' = rule, RedisNext
    PROVE  RedisSound(session)' /\ Passes
<1>1. session.authed \in BOOLEAN
  BY DEF RedisSound, RedisSession
<1>2. \A k \in Plain \cup {"pong", "protocol error", "refused"} : RedisFree(session, Say(k))
  BY <1>1, Kinds DEF RedisFree, Free, Plain, Content
<1>3. session.authed => RedisFree(session, Say("data"))
  BY <1>1, Kinds DEF RedisFree, Free
<1>4. \A k \in Plain, ok \in BOOLEAN :
         (rule.require_auth \/ ok) =>
            RedisJudged([authed |-> session.authed \/ ok], Say(k), ok)
  BY <1>1, Kinds DEF RedisJudged, RedisSound, RedisSession, Judged
<1>5. CASE RedisCustom \/ RedisProtocolError \/ RedisPing
           \/ (Greets("redis", "request", "after") /\ Unchecked)
  BY <1>2, <1>5, RedisAnswers DEF RedisCustom, RedisProtocolError, RedisPing, Greets, Plain
<1>6. CASE RedisAuth
  <2>1. PICK right \in BOOLEAN :
          LET ok == right \/ ~rule.require_auth IN
          /\ Checked(ok)
          /\ Answers("request", [authed |-> session.authed \/ ok],
                     Say(IF ok THEN "authenticated" ELSE "denied"), "first")
    BY <1>6 DEF RedisAuth
  <2>. DEFINE ok == right \/ ~rule.require_auth
  <2>2. ok \in BOOLEAN /\ (rule.require_auth \/ ok)
    OBVIOUS
  <2>3. Checked(ok) /\ Answers("request", [authed |-> session.authed \/ ok],
                               Say(IF ok THEN "authenticated" ELSE "denied"), "first")
    BY <2>1
  <2>. HIDE DEF ok
  <2>4. RedisJudged([authed |-> session.authed \/ ok],
                    Say(IF ok THEN "authenticated" ELSE "denied"), ok)
    BY <1>4, <2>2 DEF Plain
  <2>. QED  BY <2>2, <2>3, <2>4, RedisVerdicts
<1>7. CASE RedisCommand
  <2>1. PICK r \in {"data", "refused"} :
          /\ Unchecked
          /\ Answers("request", session,
                     Say(IF rule.require_auth /\ ~session.authed THEN "auth required" ELSE r), "first")
    BY <1>7 DEF RedisCommand
  <2>2. RedisFree(session, Say(IF rule.require_auth /\ ~session.authed THEN "auth required" ELSE r))
    BY <1>1, <1>2, <1>3 DEF Plain, RedisSound
  <2>. QED  BY <2>1, <2>2, RedisAnswers
<1>. QED  BY <1>5, <1>6, <1>7 DEF RedisNext

\* FTP: what a login and a pending user have to do with the last USER.
FtpSound(s) ==
    /\ s \in FtpSession
    /\ s.pending_user = "" \/ s.pending_user = s.latest
    /\ s.authed => s.username = s.latest \/ (rule.nameless = "" /\ s.username = "")

FtpFree(s, r) == FtpSound(s) /\ Free(s, r)
FtpJudged(s, r, ok) == FtpSound(s) /\ Judged(s, r, ok)

LEMMA FtpAnswers ==
    ASSUME FtpSound(session), rule.protocol = "ftp", rule' = rule, Unchecked,
           NEW next, NEW s, NEW r, NEW report, Answers(next, s, r, report), FtpFree(s, r)
    PROVE  FtpSound(session)' /\ Passes
<1>1. rule.protocol \in Authed /\ session.authed \in BOOLEAN
  BY DEF Authed, FtpSound, FtpSession
<1>2. session' = s \/ session' = session
  BY AnswerOutcome
<1>3. FtpSound(session)'
  BY <1>2 DEF FtpFree, FtpSound
<1>. QED  BY <1>1, <1>3, FreeAnswers DEF FtpFree

LEMMA FtpVerdicts ==
    ASSUME FtpSound(session), rule.protocol = "ftp", rule' = rule,
           NEW ok \in BOOLEAN, Checked(ok),
           NEW next, NEW s, NEW r, NEW report, Answers(next, s, r, report), FtpJudged(s, r, ok)
    PROVE  FtpSound(session)' /\ Passes
<1>1. rule.protocol \in Authed /\ session.authed \in BOOLEAN
  BY DEF Authed, FtpSound, FtpSession
<1>2. session' = s \/ session' = session
  BY AnswerOutcome
<1>3. FtpSound(session)'
  BY <1>2 DEF FtpJudged, FtpSound
<1>. QED  BY <1>1, <1>3, JudgedAnswers DEF FtpJudged

LEMMA FtpStep ==
    ASSUME FtpSound(session), rule.require_auth \in BOOLEAN, rule.nameless \in {"", "none"},
           rule.protocol = "ftp", rule' = rule, FtpNext
    PROVE  FtpSound(session)' /\ Passes
<1>1. session.authed \in BOOLEAN /\ session \in FtpSession
  BY DEF FtpSound, FtpSession
<1>2. /\ Say("prompt").kind \notin Content /\ Say("authenticated").kind \notin Content
      /\ Say("denied").kind \notin Content
  BY DEF Say, Content
<1>3. \A k \in Plain : FtpFree(session, Say(k))
  <2>1. ASSUME NEW k \in Plain PROVE Say(k).kind \notin Content
    BY Kinds
  <2>. QED  BY <1>1, <2>1 DEF FtpFree, Free
<1>4. session.authed => FtpFree(session, Say("files"))
  BY <1>1 DEF FtpFree, Free
<1>5. CASE FtpPlain \/ FtpQuit \/ (Greets("ftp", "request", "after") /\ Unchecked)
  BY <1>3, <1>5, FtpAnswers DEF FtpPlain, FtpQuit, Greets, Plain
<1>6. CASE FtpFiles
  <2>1. FtpFree(session, Say(IF session.authed THEN "files" ELSE "auth required"))
    BY <1>3, <1>4 DEF Plain
  <2>. QED  BY <1>6, <2>1, FtpAnswers DEF FtpFiles
<1>7. CASE FtpUser
  <2>1. PICK u \in Users :
          Answers("request",
                  [session EXCEPT !.pending_user = u, !.latest = u, !.authed = FALSE],
                  Say("prompt"), "after")
    BY <1>7 DEF FtpUser
  <2>. DEFINE s == [session EXCEPT !.pending_user = u, !.latest = u, !.authed = FALSE]
  <2>2. s \in FtpSession /\ s.authed = FALSE /\ s.pending_user = u /\ s.latest = u
    BY <1>1 DEF FtpSession
  <2>3. Answers("request", s, Say("prompt"), "after")
    BY <2>1
  <2>. HIDE DEF s
  <2>4. FtpSound(s)
    BY <2>2 DEF FtpSound
  <2>5. Free(s, Say("prompt"))
    BY <1>2, <2>2 DEF Free
  <2>6. FtpFree(s, Say("prompt")) /\ Unchecked
    BY <1>7, <2>4, <2>5 DEF FtpUser, FtpFree
  <2>. QED  BY <2>3, <2>6, FtpAnswers
<1>8. CASE FtpPass
  <2>. DEFINE user == session.pending_user
              rest == [session EXCEPT !.pending_user = ""]
              in   == [rest EXCEPT !.authed = TRUE, !.username = user]
  <2>1. PICK right \in BOOLEAN :
          LET ok == FtpMatch(user, right) IN
          /\ Checked(ok)
          /\ Answers("request", IF ok THEN in ELSE rest,
                     Say(IF ok THEN "authenticated" ELSE "denied"), "after")
    BY <1>8 DEF FtpPass
  <2>. DEFINE ok == FtpMatch(user, right)
  <2>2. /\ ok \in BOOLEAN
        /\ ok => user = session.latest \/ (rule.nameless = "" /\ user = "")
    BY <1>1 DEF FtpMatch, FtpSound
  <2>3. Checked(ok) /\ Answers("request", IF ok THEN in ELSE rest,
                               Say(IF ok THEN "authenticated" ELSE "denied"), "after")
    BY <2>1
  <2>4. /\ rest \in FtpSession /\ rest.pending_user = "" /\ rest.latest = session.latest
        /\ rest.authed = session.authed /\ rest.username = session.username
        /\ in \in FtpSession /\ in.pending_user = "" /\ in.latest = session.latest
        /\ in.authed /\ in.authed \in BOOLEAN /\ in.username = user
    BY <1>1 DEF FtpSession, Users
  <2>. HIDE DEF ok, rest, in
  <2>5. FtpJudged(IF ok THEN in ELSE rest, Say(IF ok THEN "authenticated" ELSE "denied"), ok)
    <3>1. ok => FtpSound(in) /\ Judged(in, Say("authenticated"), TRUE)
      BY <1>2, <2>2, <2>4 DEF FtpSound, Judged
    <3>2. FtpSound(rest) /\ Judged(rest, Say("denied"), FALSE)
      BY <1>1, <1>2, <2>4 DEF FtpSound, Judged
    <3>. QED  BY <2>2, <3>1, <3>2 DEF FtpJudged
  <2>. QED  BY <2>2, <2>3, <2>5, FtpVerdicts
<1>. QED  BY <1>5, <1>6, <1>7, <1>8 DEF FtpNext

-------------------------------------------------------------------------------
(* The handlers whose gate is where they wait: Telnet and the databases    *)

Placed == {"telnet", "mysql", "postgresql"}

LEMMA PlacedGate ==
    ASSUME rule.protocol \in Placed, rule' = rule
    PROVE  (GateOpen <=> at = "request") /\ (GateOpen' <=> at' = "request") /\ GateOpen' \in BOOLEAN
BY DEF GateOpen, Placed

\* Where a step may lead and what it may answer without a check ...
Stays(next, r) == (r.kind \in Content \/ next = "request") => at = "request"

LEMMA PlacedAnswers ==
    ASSUME rule.protocol \in Placed, rule' = rule, Unchecked,
           NEW next, NEW s, NEW r, NEW report, Answers(next, s, r, report), Stays(next, r)
    PROVE  Passes
<1>1. \/ at' = next /\ session' = s /\ said' = r
      \/ at' = "closed" /\ session' = session /\ said'.kind = "nothing"
  BY AnswerOutcome
<1>. QED  BY <1>1, PlacedGate, Kinds DEF Stays, Passes

LEMMA PlacedSilent ==
    ASSUME rule.protocol \in Placed, rule' = rule, Unchecked,
           NEW next, NEW s, NEW report, Silent(next, s, report), next = "request" => at = "request"
    PROVE  Passes
<1>1. at' = next /\ said'.kind = "nothing"
  BY Kinds DEF Silent
<1>. QED  BY <1>1, PlacedGate, Kinds DEF Passes

\* ... and with one of the outcome ok.
LEMMA PlacedVerdicts ==
    ASSUME rule.protocol \in Placed, rule' = rule, NEW ok \in BOOLEAN, Checked(ok),
           NEW next, NEW s, NEW r, NEW report, Answers(next, s, r, report),
           r.kind \notin Content, next = "request" => ok
    PROVE  Passes
<1>1. \/ at' = next /\ session' = s /\ said' = r
      \/ at' = "closed" /\ session' = session /\ said'.kind = "nothing"
  BY AnswerOutcome
<1>. QED  BY <1>1, PlacedGate, Kinds DEF Passes

LEMMA PlacedRefusals ==
    ASSUME rule.protocol \in Placed, rule' = rule, NEW ok \in BOOLEAN, Checked(ok),
           NEW s, NEW r, NEW report, Answers("closed", s, r, report), r.kind \notin Content
    PROVE  Passes
<1>. DEFINE next == "closed"
<1>1. Answers(next, s, r, report) /\ ~(next = "request")
  OBVIOUS
<1>. HIDE DEF next
<1>. QED  BY <1>1, PlacedVerdicts

LEMMA PlacedKinds ==
    \A k \in Plain \cup {"no TLS", "unsupported version", "password expected", "unknown database"} :
       /\ Say(k).kind \notin Content
       /\ \A w : w # "request" => Stays(w, Say(k))
BY Kinds DEF Plain, Content, Stays

LEMMA TelnetStep ==
    ASSUME rule.protocol = "telnet", rule' = rule, TelnetNext
    PROVE  Passes
<1>1. rule.protocol \in Placed
  BY DEF Placed
<1>2. CASE Greets("telnet", "login", "first") /\ Unchecked
  BY <1>1, <1>2, PlacedKinds, PlacedAnswers DEF Greets, Plain
<1>3. CASE TelnetUser
  BY <1>1, <1>3, PlacedKinds, PlacedAnswers DEF TelnetUser, Plain
<1>4. CASE TelnetPass
  <2>1. PICK right \in BOOLEAN :
          LET ok == right /\ session.known IN
          /\ Checked(ok)
          /\ IF ok THEN Answers("request", session, Say("authenticated"), "first")
                   ELSE Answers("closed", session, Say("denied"), "first")
    BY <1>4 DEF TelnetPass
  <2>. DEFINE ok == right /\ session.known
  <2>2. CASE ok
    <3>1. Checked(TRUE) /\ Answers("request", session, Say("authenticated"), "first")
      BY <2>1, <2>2 DEF Checked
    <3>. QED  BY <1>1, <3>1, PlacedKinds, PlacedVerdicts DEF Plain
  <2>3. CASE ~ok
    <3>1. Checked(FALSE) /\ Answers("closed", session, Say("denied"), "first")
      BY <2>1, <2>3 DEF Checked
    <3>2. Say("denied").kind \notin Content
      BY PlacedKinds DEF Plain
    <3>. QED  BY <1>1, <3>1, <3>2, PlacedRefusals
  <2>. QED  BY <2>2, <2>3
<1>5. CASE TelnetCommand
  <2>1. at = "request"
    BY <1>5 DEF TelnetCommand, Takes, Reads
  <2>2. \A w, r : Stays(w, r)
    BY <2>1 DEF Stays
  <2>. QED  BY <1>1, <1>5, <2>2, PlacedAnswers DEF TelnetCommand
<1>. QED  BY <1>2, <1>3, <1>4, <1>5 DEF TelnetNext

LEMMA MysqlStep ==
    ASSUME rule.protocol = "mysql", rule' = rule, MysqlNext
    PROVE  Passes
<1>1. rule.protocol \in Placed
  BY DEF Placed
<1>2. CASE Greets("mysql", "handshake", "first") /\ Unchecked
  BY <1>1, <1>2, PlacedKinds, PlacedAnswers DEF Greets, Plain
<1>3. CASE MysqlLogin
  <2>1. CASE Silent("closed", session, "told") /\ Unchecked
    BY <1>1, <2>1, PlacedSilent
  <2>2. ASSUME NEW ok \in BOOLEAN, Checked(ok), NEW k \in {"denied", "unknown database"},
               Answers("closed", session, Say(k), "first")
        PROVE  Passes
    <3>1. Say(k).kind \notin Content
      BY PlacedKinds DEF Plain
    <3>. QED  BY <1>1, <2>2, <3>1, PlacedRefusals
  <2>3. CASE Checked(TRUE) /\ Answers("request", session, Say("authenticated"), "first")
    <3>1. Say("authenticated").kind \notin Content
      BY PlacedKinds DEF Plain
    <3>. QED  BY <1>1, <2>3, <3>1, PlacedVerdicts
  <2>. QED  BY <1>3, <2>1, <2>2, <2>3 DEF MysqlLogin
<1>4. CASE MysqlQuery \/ MysqlOther \/ MysqlQuit
  <2>1. at = "request" /\ Unchecked
    BY <1>4 DEF MysqlQuery, MysqlOther, MysqlQuit, Takes, PassesOver, Reads
  <2>2. \A w, r : Stays(w, r)
    BY <2>1 DEF Stays
  <2>. QED  BY <1>1, <1>4, <2>1, <2>2, PlacedAnswers, PlacedSilent DEF MysqlQuery, MysqlOther, MysqlQuit
<1>. QED  BY <1>2, <1>3, <1>4 DEF MysqlNext

LEMMA PostgresqlStep ==
    ASSUME rule.protocol = "postgresql", rule' = rule, PostgresqlNext
    PROVE  Passes
<1>1. rule.protocol \in Placed
  BY DEF Placed
<1>2. CASE PostgresqlBegin
  BY <1>1, <1>2, PlacedSilent DEF PostgresqlBegin
<1>3. CASE PostgresqlSsl \/ PostgresqlStartup
  BY <1>1, <1>3, PlacedKinds, PlacedAnswers DEF PostgresqlSsl, PostgresqlStartup, Plain
<1>4. CASE PostgresqlPassword
  BY <1>1, <1>4, PlacedKinds, PlacedAnswers, PlacedSilent, PlacedVerdicts DEF PostgresqlPassword, Plain
<1>5. CASE PostgresqlQuery \/ PostgresqlOther \/ PostgresqlTerminate
  <2>1. at = "request" /\ Unchecked
    BY <1>5 DEF PostgresqlQuery, PostgresqlOther, PostgresqlTerminate, Takes, PassesOver, Reads
  <2>2. \A w, r : Stays(w, r)
    BY <2>1 DEF Stays
  <2>. QED  BY <1>1, <1>5, <2>1, <2>2, PlacedAnswers, PlacedSilent
            DEF PostgresqlQuery, PostgresqlOther, PostgresqlTerminate
<1>. QED  BY <1>2, <1>3, <1>4, <1>5 DEF PostgresqlNext

-------------------------------------------------------------------------------
(* The handlers that check no credentials                                  *)

LEMMA ProbeUnchecked == ProbeNext => Unchecked
BY DEF ProbeNext, MqttConnect, MqttPing, MqttOther, MongodbRequest, VncVersion, VncSecurity,
       VncResponse, RdpBegin, RdpNegotiation, Recorded, SshVersion, LdapRequest, SmbNegotiate,
       HttpRequest, DnsTcpQuery

LEMMA FramedUnchecked == MemcachedNext \/ SnmpNext => Unchecked
<1>1. MemcachedNext => Unchecked
  BY DEF MemcachedNext, MemcachedRead, MemcachedLine, MemcachedDone
<1>2. SnmpNext => Unchecked
  BY DEF SnmpNext, SnmpGet, SnmpGetNext, SnmpGetBulk, SnmpUnanswered, DnsUdpQuery
<1>. QED  BY <1>1, <1>2

LEMMA VncStep ==
    ASSUME rule.protocol = "vnc", ProbeNext, said'.kind \in Content
    PROVE  Offers(1)
<1>1. VncVersion \/ VncSecurity \/ VncResponse \/ Greets("vnc", "version", "after")
  BY DEF ProbeNext, MqttConnect, MqttPing, MqttOther, MongodbRequest, RdpBegin, RdpNegotiation,
         Recorded, SshVersion, LdapRequest, SmbNegotiate, HttpRequest, DnsTcpQuery, Greets, Takes,
         TakesEof, Reads
<1>2. ASSUME NEW w, NEW s, NEW k \in {"banner", "challenge", "types", "denied"}, NEW report,
             Answers(w, s, Say(k), report)
      PROVE  FALSE
  <2>1. said'.kind \in {k, "nothing"}
    BY <1>2, AnswerOutcome, Kinds
  <2>. QED  BY <2>1 DEF Content
<1>3. ASSUME NEW w, NEW s, NEW report, Silent(w, s, report) PROVE FALSE
  BY <1>3, Kinds DEF Silent
<1>4. ASSUME NEW type, VncSecures(type) PROVE type = 1 /\ rule.version # "3.3"
  BY <1>2, <1>3, <1>4 DEF VncSecures
<1>5. VncSecurity
  BY <1>1, <1>2, <1>3, <1>4 DEF VncVersion, VncResponse, Greets
<1>6. PICK type \in 0..3 : \/ Offers(type) /\ VncSecures(type)
                           \/ ~Offers(type) /\ Silent("closed", session, "none")
  BY <1>5 DEF VncSecurity
<1>7. Offers(type) /\ type = 1
  BY <1>3, <1>4, <1>6
<1>. QED  BY <1>7

LEMMA OpenStep ==
    ASSUME rule.protocol \in Probes \cup Framed, rule' = rule,
           ProbeNext \/ MemcachedNext \/ SnmpNext, rule.protocol = "vnc" => ProbeNext
    PROVE  Passes
<1>1. Unchecked
  BY ProbeUnchecked, FramedUnchecked
<1>2. rule.protocol \notin {"smtp", "pop3", "imap", "redis", "ftp", "telnet", "mysql", "postgresql"}
  BY DEF Probes, Framed
<1>3. (GateOpen = ~LoginRequired) /\ (GateOpen' = ~LoginRequired')
  BY <1>2 DEF GateOpen
<1>4. LoginRequired <=> rule.protocol = "vnc" /\ ~Offers(1)
  BY <1>2 DEF LoginRequired
<1>5. LoginRequired' <=> rule.protocol = "vnc" /\ ~Offers(1)
  BY <1>2 DEF LoginRequired, Offers
<1>6. (GateOpen' <=> GateOpen) /\ GateOpen' \in BOOLEAN
  BY <1>3, <1>4, <1>5
<1>7. said'.kind \in Content => GateOpen
  BY <1>3, <1>4, VncStep
<1>. QED  BY <1>1, <1>6, <1>7 DEF Passes

-------------------------------------------------------------------------------
(* The sessions that the gate does not ask for                             *)

\* A handler with a limit that goes on has not reached it.
ProbeSound(s, w) ==
    /\ s \in ProbeSession
    /\ rule.protocol = "mongodb" /\ w # "closed" => s.answered < ProbeLimit

SoundRest ==
    /\ rule.protocol = "telnet" => session \in TelnetSession
    /\ rule.protocol \in {"mysql", "postgresql"} => session \in DatabaseSession
    /\ rule.protocol \in Probes \cup {"dns_udp"} => ProbeSound(session, at)
    /\ rule.protocol = "memcached" => MemcachedInv
    /\ rule.protocol = "snmp" => SnmpInv

LEMMA TelnetTyped ==
    ASSUME session \in TelnetSession, TelnetNext
    PROVE  session' \in TelnetSession
BY DEF TelnetSession, TelnetNext, Greets, TelnetUser, TelnetPass, TelnetCommand, Answers

LEMMA DatabaseTyped ==
    ASSUME session \in DatabaseSession, MysqlNext \/ PostgresqlNext
    PROVE  session' \in DatabaseSession
<1>1. CASE MysqlNext
  BY <1>1 DEF MysqlNext, Greets, MysqlLogin, MysqlQuery, MysqlOther, MysqlQuit, Answers, Silent
<1>2. CASE PostgresqlSsl
  <2>1. session' = [ssl |-> TRUE] \/ session' = session
    BY <1>2 DEF PostgresqlSsl, Answers
  <2>2. [ssl |-> TRUE] \in DatabaseSession
    BY DEF DatabaseSession
  <2>. QED  BY <2>1, <2>2
<1>3. CASE PostgresqlBegin \/ PostgresqlStartup \/ PostgresqlPassword
  BY <1>3 DEF PostgresqlBegin, PostgresqlStartup, PostgresqlPassword, Answers, Silent
<1>4. CASE PostgresqlQuery \/ PostgresqlOther \/ PostgresqlTerminate
  BY <1>4 DEF PostgresqlQuery, PostgresqlOther, PostgresqlTerminate, Answers, Silent
<1>. QED  BY <1>1, <1>2, <1>3, <1>4 DEF PostgresqlNext

LEMMA ProbeStep ==
    ASSUME ProbeSound(session, at), ProbeNext, rule' = rule, at # "closed"
    PROVE  ProbeSound(session, at)'
<1>1. CASE MongodbRequest
  <2>. DEFINE n == session.answered + 1
              w == IF n = ProbeLimit THEN "closed" ELSE "request"
              s == [answered |-> n]
  <2>1. Answers(w, s, Say("result document"), "after") /\ rule.protocol = "mongodb"
    BY <1>1 DEF MongodbRequest, Takes, Reads
  <2>2. session.answered \in Nat /\ session.answered < ProbeLimit /\ ProbeLimit \in Nat
    <3>1. session \in ProbeSession /\ session.answered < ProbeLimit
      BY <2>1 DEF ProbeSound
    <3>. QED  BY <3>1, ProbeLimitAssumption DEF ProbeSession
  <2>3. s \in ProbeSession /\ (w # "closed" => s.answered < ProbeLimit)
    BY <2>2 DEF ProbeSession
  <2>. HIDE DEF w, s
  <2>. QED  BY <2>1, <2>3 DEF ProbeSound, Answers
<1>2. CASE session' = session /\ rule.protocol # "mongodb"
  BY <1>2 DEF ProbeSound
<1>3. CASE MqttConnect \/ MqttPing \/ MqttOther
  BY <1>2, <1>3 DEF MqttConnect, MqttPing, MqttOther, Takes, Reads, Answers, Silent
<1>4. CASE (Greets("vnc", "version", "after") /\ Unchecked) \/ VncVersion \/ VncSecurity \/ VncResponse
  BY <1>2, <1>4 DEF Greets, VncVersion, VncSecurity, VncResponse, VncSecures, PassesOver, Continues,
                    Reads, Answers, Silent
<1>5. CASE RdpBegin \/ RdpNegotiation \/ Recorded("rdp")
           \/ (Greets("ssh", "version", "first") /\ Unchecked) \/ SshVersion \/ Recorded("ssh")
  BY <1>2, <1>5 DEF Greets, RdpBegin, RdpNegotiation, Recorded, SshVersion, Takes, Reads, Answers, Silent
<1>6. CASE LdapRequest \/ SmbNegotiate \/ HttpRequest \/ DnsTcpQuery
  BY <1>2, <1>6 DEF LdapRequest, SmbNegotiate, HttpRequest, DnsTcpQuery, Takes, TakesEof, Reads,
                    Answers, Silent
<1>. QED  BY <1>1, <1>3, <1>4, <1>5, <1>6 DEF ProbeNext

LEMMA RestServed ==
    ASSUME SoundRest, rule' = rule, Numbered,
           MailNext \/ LoginNext \/ ProbeNext \/ MemcachedNext \/ SnmpNext
    PROVE  SoundRest'
<1>1. CASE MailNext
  <2>1. rule.protocol \in {"smtp", "pop3", "imap"}
    BY <1>1, MailWorks
  <2>. QED  BY <2>1 DEF SoundRest, Probes
<1>2. CASE LoginNext
  <2>1. CASE rule.protocol \in {"ftp", "redis"}
    BY <2>1 DEF SoundRest, Probes
  <2>2. CASE TelnetNext /\ rule.protocol = "telnet"
    BY <2>2, TelnetTyped DEF SoundRest, Probes
  <2>3. CASE (MysqlNext \/ PostgresqlNext) /\ rule.protocol \in {"mysql", "postgresql"}
    BY <2>3, DatabaseTyped DEF SoundRest, Probes
  <2>. QED  BY <1>2, <2>1, <2>2, <2>3, LoginWorks
<1>3. CASE ProbeNext
  <2>1. rule.protocol \in Probes /\ at # "closed"
    BY <1>3, ProbeWorks DEF Works
  <2>2. ProbeSound(session, at)'
    BY <1>3, <2>1, ProbeStep DEF SoundRest
  <2>. QED  BY <2>1, <2>2 DEF SoundRest, Probes
<1>4. CASE MemcachedNext
  <2>1. rule.protocol = "memcached"
    BY <1>4 DEF MemcachedNext, MemcachedRead, MemcachedLine, MemcachedDone, AtLines, Takes, Reads
  <2>2. MemcachedInv'
    BY <1>4, <2>1, MemcachedStep DEF SoundRest
  <2>. QED  BY <2>1, <2>2 DEF SoundRest, Probes
<1>5. CASE SnmpNext
  <2>1. CASE rule.protocol = "snmp"
    <3>1. SnmpInv'
      BY <1>5, <2>1, SnmpStep DEF SoundRest
    <3>. QED  BY <2>1, <3>1 DEF SoundRest, Probes
  <2>2. CASE DnsUdpQuery
    <3>1. rule.protocol = "dns_udp" /\ session' = session
      BY <2>2 DEF DnsUdpQuery, Takes, PassesOver, Reads, Answers, Silent
    <3>2. ProbeSound(session, at)'
      BY <3>1 DEF SoundRest, ProbeSound
    <3>. QED  BY <3>1, <3>2 DEF SoundRest, Probes
  <2>. QED  BY <1>5, <2>1, <2>2 DEF SnmpNext, SnmpGet, SnmpGetNext, SnmpGetBulk, SnmpUnanswered,
                                    Takes, PassesOver, Reads
<1>. QED  BY <1>1, <1>2, <1>3, <1>4, <1>5

\* The end of the task, or the client's end, leaves the session alone.
LEMMA RestLeft ==
    ASSUME SoundRest, rule' = rule, session' = session, at' = "closed" \/ at' = at,
           said'.kind = "nothing" \/ said' = said
    PROVE  SoundRest'
<1>1. rule.protocol = "memcached" => MemcachedInv'
  BY MemcachedEnds DEF SoundRest, MemcachedInv
<1>2. rule.protocol = "snmp" => SnmpInv'
  BY DEF SoundRest, SnmpInv, SnmpSound, Doomed, Place
<1>3. rule.protocol \in Probes \cup {"dns_udp"} => ProbeSound(session, at)'
  BY DEF SoundRest, ProbeSound
<1>. QED  BY <1>1, <1>2, <1>3 DEF SoundRest

LEMMA RestInitial == Init => SoundRest
<1>. SUFFICES ASSUME Init PROVE SoundRest
  OBVIOUS
<1>1. session \in NewSessions /\ rule \in Rules /\ said = Say("nothing")
      /\ at = FirstPoint(rule.protocol)
  BY DEF Init
<1>2. CASE rule.protocol = "telnet"
  <2>1. session = TelnetNew
    BY <1>1, <1>2 DEF NewSessions
  <2>2. session \in TelnetSession
    BY <2>1 DEF TelnetNew, TelnetSession
  <2>. QED  BY <1>2, <2>2 DEF SoundRest, Probes
<1>3. CASE rule.protocol \in {"mysql", "postgresql"}
  <2>1. session = DatabaseNew
    BY <1>1, <1>3 DEF NewSessions
  <2>2. session \in DatabaseSession
    BY <2>1 DEF DatabaseNew, DatabaseSession
  <2>. QED  BY <1>3, <2>2 DEF SoundRest, Probes
<1>4. CASE rule.protocol \in Probes \cup {"dns_udp"}
  <2>1. session = ProbeNew
    BY <1>1, <1>4 DEF NewSessions, Probes
  <2>2. ProbeSound(session, at)
    BY <2>1, ProbeLimitAssumption DEF ProbeSound, ProbeNew, ProbeSession
  <2>. QED  BY <1>4, <2>2 DEF SoundRest, Probes
<1>5. CASE rule.protocol = "memcached"
  <2>1. session = MemcachedNew /\ at = "request"
    BY <1>1, <1>5 DEF NewSessions, FirstPoint
  <2>. QED  BY <1>5, <2>1, MemcachedInitial DEF SoundRest, MemcachedInv, Probes
<1>6. CASE rule.protocol = "snmp"
  <2>1. session \in [start : Questions, seen : {<<>>}, over : {FALSE}]
    BY <1>1, <1>6 DEF NewSessions
  <2>2. rule.values \in Values
    BY <1>1, <1>6 DEF Rules, LoginRules, FtpRules, PlainRules, VncRules, SnmpRules
  <2>. QED  BY <1>1, <1>6, <2>1, <2>2, SnmpInitial DEF SoundRest, Probes
<1>. QED  BY <1>2, <1>3, <1>4, <1>5, <1>6 DEF SoundRest

-------------------------------------------------------------------------------
(* What remains of the types                                               *)

\* A step takes at most one request, ...
TakesOne ==
    /\ MayTake
    /\ \/ taken' = taken + 1 /\ UNCHANGED unreported
       \/ unreported' = unreported + 1 /\ UNCHANGED taken

\* ... goes to a point of the dialogue, and leaves the outcome of a check or that
\* of the last one.
Regular ==
    /\ at' \in Points /\ said'.what \in Nat
    /\ TakesNothing \/ TakesOne
    /\ Unchecked \/ \E ok \in BOOLEAN : Checked(ok)

LEMMA PointNames ==
    /\ "greet" \in Points /\ "request" \in Points /\ "closed" \in Points /\ "data" \in Points
    /\ "auth_plain" \in Points /\ "auth_user" \in Points /\ "auth_pass" \in Points
    /\ "login" \in Points /\ "handshake" \in Points /\ "startup" \in Points /\ "lines" \in Points
    /\ "password" \in Points /\ "version" \in Points /\ "security" \in Points
    /\ "response" \in Points /\ "negotiation" \in Points
BY DEF Points

LEMMA SaidNumbers ==
    /\ \A k : Say(k).what \in Nat
    /\ \A k : \A n \in Nat : Show(k, n).what \in Nat
BY DEF Say, Show

LEMMA Takings ==
    ASSUME NEW p, NEW w
    PROVE  /\ Takes(p, w) \/ TakesEof(p, w) \/ PassesOver(p, w) => TakesOne
           /\ Continues(p, w) \/ ReadsEof(p, w) => TakesNothing
BY DEF Takes, TakesEof, PassesOver, Continues, ReadsEof, TakesOne

LEMMA AnswersRegular ==
    ASSUME NEW next \in Points, NEW s, NEW r, r.what \in Nat, NEW report, Answers(next, s, r, report)
    PROVE  at' \in Points /\ said'.what \in Nat
BY SaidNumbers, PointNames DEF Answers

LEMMA SilentRegular ==
    ASSUME NEW next \in Points, NEW s, NEW report, Silent(next, s, report)
    PROVE  at' \in Points /\ said'.what \in Nat
BY SaidNumbers, PointNames DEF Silent

LEMMA MailRegular == MailNext => Regular
<1>. USE PointNames, SaidNumbers, Takings, AnswersRegular
<1>1. ASSUME SmtpNext PROVE Regular
  <2>1. CASE SmtpPlain \/ SmtpAuth \/ SmtpAuthPrompt
    BY <2>1 DEF Regular, SmtpPlain, SmtpAuth, SmtpAuthPrompt, SmtpVerdict
  <2>2. CASE SmtpAuthUser \/ SmtpAuthEnd \/ SmtpAuthEof
    BY <2>2 DEF Regular, SmtpAuthUser, SmtpAuthEnd, SmtpAuthEof, SmtpVerdict
  <2>3. CASE SmtpMail \/ SmtpRcpt \/ SmtpData
    BY <2>3 DEF Regular, SmtpMail, SmtpRcpt, SmtpData
  <2>4. CASE SmtpDataEnd \/ SmtpRset \/ Quits("smtp") \/ (Greets("smtp", "request", "after") /\ Unchecked)
    BY <2>4 DEF Regular, SmtpDataEnd, SmtpRset, Quits, Greets
  <2>. QED  BY <1>1, <2>1, <2>2, <2>3, <2>4 DEF SmtpNext
<1>2. ASSUME NEW s PROVE AuthAnswer(s).what \in Nat
  BY DEF AuthAnswer
<1>3. ASSUME NEW s, NEW r, r.what \in Nat, EnsureAuth(s, r) PROVE at' \in Points /\ said'.what \in Nat
  BY <1>3 DEF EnsureAuth
<1>4. \A n \in Numbers : n \in Nat
  BY MessagesAssumption DEF Numbers
<1>5. ASSUME Pop3Next PROVE Regular
  <2>1. CASE Pop3Plain \/ Pop3User \/ Pop3Pass \/ Pop3Auth
    BY <1>2, <2>1 DEF Regular, Pop3Plain, Pop3User, Pop3Pass, Pop3Auth, Pop3Verdict
  <2>2. CASE Pop3AuthPrompt \/ Pop3AuthEnd
    BY <1>2, <2>2 DEF Regular, Pop3AuthPrompt, Pop3AuthEnd, Pop3Verdict
  <2>3. CASE Pop3List \/ Pop3NoNumber \/ Pop3Rset
    BY <1>3, <2>3 DEF Regular, Pop3List, Pop3NoNumber, Pop3Rset
  <2>4. CASE \E n \in Numbers : Pop3Message(n) \/ Pop3Dele(n)
    BY <1>3, <1>4, <2>4 DEF Regular, Pop3Message, Pop3Dele
  <2>5. CASE Quits("pop3") \/ (Greets("pop3", "request", "after") /\ Unchecked)
    BY <2>5 DEF Regular, Quits, Greets
  <2>. QED  BY <1>5, <2>1, <2>2, <2>3, <2>4, <2>5 DEF Pop3Next
<1>6. ASSUME ImapNext PROVE Regular
  <2>1. CASE ImapPlain \/ ImapBadLine \/ ImapLogin
    BY <1>2, <2>1 DEF Regular, ImapPlain, ImapBadLine, ImapLogin
  <2>2. CASE ImapAuthOther \/ ImapAuthPrompt \/ ImapAuthEnd
    BY <1>2, <2>2 DEF Regular, ImapAuthOther, ImapAuthPrompt, ImapAuthEnd
  <2>3. CASE ImapList \/ ImapSelect \/ ImapUidOther
    BY <1>3, <2>3 DEF Regular, ImapList, ImapSelect, ImapUidOther
  <2>4. CASE \E n \in Numbers : ImapFetch(n)
    BY <1>3, <1>4, <2>4 DEF Regular, ImapFetch
  <2>5. CASE Quits("imap") \/ (Greets("imap", "request", "after") /\ Unchecked)
    BY <2>5 DEF Regular, Quits, Greets
  <2>. QED  BY <1>6, <2>1, <2>2, <2>3, <2>4, <2>5 DEF ImapNext
<1>. QED  BY <1>1, <1>5, <1>6 DEF MailNext

LEMMA LoginRegular == LoginNext => Regular
<1>. USE PointNames, SaidNumbers, Takings, AnswersRegular, SilentRegular DEF Regular
<1>1. CASE FtpNext
  <2>1. CASE FtpPass
    <3>1. PICK ok \in BOOLEAN : Checked(ok)
      BY <2>1 DEF FtpPass, FtpMatch
    <3>2. at' \in Points /\ said'.what \in Nat
      BY <2>1 DEF FtpPass
    <3>. QED  BY <2>1, <3>1, <3>2 DEF FtpPass
  <2>. QED  BY <1>1, <2>1 DEF Greets, FtpNext, FtpPlain, FtpUser, FtpFiles, FtpQuit
<1>2. CASE TelnetNext
  BY <1>2 DEF Greets, TelnetNext, TelnetUser, TelnetPass, TelnetCommand
<1>3. CASE RedisNext
  BY <1>3 DEF Greets, RedisNext, RedisCustom, RedisProtocolError, RedisPing, RedisAuth,
              RedisCommand
<1>4. CASE MysqlNext
  BY <1>4 DEF Greets, MysqlNext, MysqlLogin, MysqlQuery, MysqlOther, MysqlQuit
<1>5. CASE PostgresqlBegin \/ PostgresqlSsl \/ PostgresqlStartup \/ PostgresqlPassword
  BY <1>5 DEF PostgresqlBegin, PostgresqlSsl, PostgresqlStartup, PostgresqlPassword
<1>6. CASE PostgresqlQuery \/ PostgresqlOther \/ PostgresqlTerminate
  BY <1>6 DEF PostgresqlQuery, PostgresqlOther, PostgresqlTerminate
<1>. QED  BY <1>1, <1>2, <1>3, <1>4, <1>5, <1>6 DEF LoginNext, PostgresqlNext

LEMMA ProbeRegular == ProbeNext => Regular
<1>. USE PointNames, SaidNumbers, Takings, AnswersRegular, SilentRegular DEF Regular
<1>1. CASE MqttConnect \/ MqttPing \/ MqttOther \/ MongodbRequest
  BY <1>1 DEF MqttConnect, MqttPing, MqttOther, MongodbRequest
<1>2. CASE (Greets("vnc", "version", "after") /\ Unchecked) \/ VncVersion \/ VncSecurity \/ VncResponse
  BY <1>2 DEF Greets, VncVersion, VncSecurity, VncResponse, VncSecures
<1>3. CASE RdpBegin \/ RdpNegotiation \/ Recorded("rdp")
  BY <1>3 DEF RdpBegin, RdpNegotiation, Recorded
<1>4. CASE (Greets("ssh", "version", "first") /\ Unchecked) \/ SshVersion \/ Recorded("ssh")
  BY <1>4 DEF Greets, SshVersion, Recorded
<1>5. CASE LdapRequest \/ SmbNegotiate \/ HttpRequest \/ DnsTcpQuery
  BY <1>5 DEF LdapRequest, SmbNegotiate, HttpRequest, DnsTcpQuery
<1>. QED  BY <1>1, <1>2, <1>3, <1>4, <1>5 DEF ProbeNext

LEMMA FramedRegular == MemcachedNext \/ SnmpNext => Regular
<1>. USE PointNames, SaidNumbers, Takings, AnswersRegular, SilentRegular
<1>1. CASE MemcachedRead
  <2>1. \E w \in {"closed", "lines"} : \E s : Silent(w, s, "none")
    BY <1>1 DEF MemcachedRead
  <2>. QED  BY <1>1, <2>1 DEF Regular, MemcachedRead
<1>2. CASE MemcachedLine \/ MemcachedDone
  BY <1>2 DEF Regular, AtLines, MemcachedLine, MemcachedDone
<1>3. ASSUME NEW oids, NEW s, Sends(oids, s) PROVE at' \in Points /\ said'.what \in Nat
  BY <1>3 DEF Sends
<1>4. CASE SnmpGet
  BY <1>3, <1>4 DEF Regular, SnmpGet
<1>5. CASE SnmpGetNext
  BY <1>3, <1>5 DEF Regular, SnmpGetNext
<1>6. CASE SnmpGetBulk
  BY <1>3, <1>6 DEF Regular, SnmpGetBulk
<1>7. CASE SnmpUnanswered \/ DnsUdpQuery
  BY <1>7 DEF Regular, SnmpUnanswered, DnsUdpQuery
<1>. QED  BY <1>1, <1>2, <1>4, <1>5, <1>6, <1>7 DEF MemcachedNext, SnmpNext

LEMMA EndingRegular == EndOfFile \/ ReadFails \/ TimeLimit \/ IdleLimit => Regular
BY PointNames, SilentRegular DEF Regular, EndOfFile, ReadFails, TimeLimit, IdleLimit, Leaves

Typed ==
    /\ at \in Points /\ said.what \in Nat /\ eof \in BOOLEAN
    /\ unreported \in Nat /\ taken \in Nat /\ taken + unreported <= MaxRequests
    /\ login \in {"none", "valid", "invalid"} /\ proved \in BOOLEAN

LEMMA RegularTyped ==
    ASSUME Typed, Regular, eof' \in BOOLEAN
    PROVE  Typed'
<1>1. /\ unreported' \in Nat /\ taken' \in Nat /\ taken' + unreported' <= MaxRequests
  BY MaxRequestsAssumption DEF Typed, Regular, TakesOne, TakesNothing, MayTake
<1>2. login' \in {"none", "valid", "invalid"} /\ proved' \in BOOLEAN
  BY DEF Typed, Regular, Unchecked, Checked
<1>. QED  BY <1>1, <1>2 DEF Typed, Regular

-------------------------------------------------------------------------------
(* The steps together                                                      *)

SoundSession ==
    /\ rule.protocol = "smtp" => SmtpInv
    /\ rule.protocol = "pop3" => session \in Pop3Session
    /\ rule.protocol = "imap" => session \in ImapSession
    /\ rule.protocol = "redis" => RedisSound(session)
    /\ rule.protocol = "ftp" => FtpSound(session)

\* The inductive invariant.
Inv == rule \in Rules /\ Trail /\ SoundSession /\ SoundRest

LEMMA RuleFields ==
    ASSUME rule \in Rules
    PROVE  /\ rule.protocol \in {"smtp", "pop3", "imap", "redis", "ftp"} => rule.require_auth \in BOOLEAN
           /\ rule.protocol = "ftp" => rule.nameless \in {"", "none"}
BY DEF Rules, LoginRules, FtpRules, PlainRules, VncRules, SnmpRules

LEMMA NewSession ==
    ASSUME Init
    PROVE  /\ rule.protocol = "smtp" => session = SmtpNew
           /\ rule.protocol = "pop3" => session = Pop3New
           /\ rule.protocol = "imap" => session = ImapNew
           /\ rule.protocol = "redis" => session = RedisNew
           /\ rule.protocol = "ftp" => session = FtpNew
<1>1. session \in NewSessions
  BY DEF Init
<1>2. CASE rule.protocol = "smtp"
  BY <1>1, <1>2 DEF NewSessions
<1>3. CASE rule.protocol = "pop3"
  BY <1>1, <1>3 DEF NewSessions
<1>4. CASE rule.protocol = "imap"
  BY <1>1, <1>4 DEF NewSessions
<1>5. CASE rule.protocol = "redis"
  BY <1>1, <1>5 DEF NewSessions
<1>6. CASE rule.protocol = "ftp"
  BY <1>1, <1>6 DEF NewSessions
<1>. QED  BY <1>2, <1>3, <1>4, <1>5, <1>6

LEMMA InitInv == Init => Inv
<1>. SUFFICES ASSUME Init PROVE Inv
  OBVIOUS
<1>1. rule \in Rules /\ Trail /\ SoundRest
  <2>1. at \notin Midway /\ (at = "greet" <=> FirstPoint(rule.protocol) = "greet")
    BY DEF Init, FirstPoint, Midway
  <2>2. rule.protocol = "memcached" => session.commands = 0 /\ FirstPoint(rule.protocol) # "greet"
    BY DEF Init, NewSessions, MemcachedNew, FirstPoint
  <2>3. Trail
    BY <2>1, <2>2 DEF Init, Trail, TrailLosesOnlyTheLast, Owed, Numbered
  <2>. QED  BY <2>3, RestInitial DEF Init
<1>2. CASE rule.protocol = "smtp"
  <2>1. session = SmtpNew /\ at # "data" /\ proved = FALSE
    BY <1>2, NewSession DEF Init, FirstPoint
  <2>2. rule.require_auth \in BOOLEAN
    BY <1>1, <1>2, RuleFields
  <2>3. SmtpInv
    BY <2>1, <2>2 DEF SmtpNew, SmtpInv, SmtpSound, SmtpSession
  <2>. QED  BY <1>1, <1>2, <2>3 DEF Inv, SoundSession
<1>3. CASE rule.protocol \in {"pop3", "imap", "redis"}
  <2>1. rule.require_auth \in BOOLEAN
    BY <1>1, <1>3, RuleFields
  <2>2. Pop3New \in Pop3Session /\ ImapNew \in ImapSession /\ RedisSound(RedisNew)
    BY <2>1 DEF Pop3New, Pop3Session, ImapNew, ImapSession, RedisNew, RedisSound, RedisSession
  <2>. QED  BY <1>1, <1>3, <2>2, NewSession DEF Inv, SoundSession
<1>4. CASE rule.protocol = "ftp"
  <2>1. FtpSound(FtpNew)
    BY DEF FtpNew, FtpSound, FtpSession, Users
  <2>. QED  BY <1>1, <1>4, <2>1, NewSession DEF Inv, SoundSession
<1>5. CASE rule.protocol \notin {"smtp", "pop3", "imap", "redis", "ftp"}
  BY <1>1, <1>5 DEF Inv, SoundSession
<1>. QED  BY <1>2, <1>3, <1>4, <1>5

\* A step that the client has no say in: the end of the task or of the client.
LEMMA EndingStep ==
    ASSUME SoundSession, EndOfFile \/ ReadFails \/ TimeLimit \/ IdleLimit
    PROVE  SoundSession' /\ Unchecked /\ at' = "closed" /\ session' = session
           /\ said'.kind = "nothing" /\ rule' = rule
<1>1. Unchecked /\ at' = "closed" /\ session' = session /\ said'.kind = "nothing" /\ rule' = rule
  BY Kinds DEF EndOfFile, ReadFails, TimeLimit, IdleLimit, Leaves, Silent, Unchecked
<1>. QED  BY <1>1 DEF SoundSession, SmtpInv, SmtpSound, RedisSound, FtpSound, Unchecked

LEMMA EndingPasses ==
    ASSUME Unchecked, at' = "closed", session' = session, said'.kind = "nothing", rule' = rule,
           rule \in Rules, SoundSession
    PROVE  Passes
<1>1. GateOpen' \in BOOLEAN /\ (GateOpen' => GateOpen)
  <2>1. CASE rule.protocol = "smtp"
    BY <2>1, SmtpGate DEF SmtpOpen
  <2>2. CASE rule.protocol \in Authed
    BY <2>2, AuthedGate
       DEF SoundSession, Authed, Pop3Session, ImapSession, RedisSound, RedisSession, FtpSound, FtpSession
  <2>3. CASE rule.protocol \in Placed
    BY <2>3, PlacedGate
  <2>4. CASE rule.protocol \notin {"smtp"} \cup Authed \cup Placed
    <3>1. (GateOpen = ~LoginRequired) /\ (GateOpen' = ~LoginRequired')
      BY <2>4 DEF GateOpen, Authed, Placed
    <3>2. LoginRequired <=> rule.protocol = "vnc" /\ ~Offers(1)
      BY <2>4 DEF LoginRequired, Authed, Placed
    <3>3. LoginRequired' <=> rule.protocol = "vnc" /\ ~Offers(1)
      BY <2>4 DEF LoginRequired, Offers, Authed, Placed
    <3>. QED  BY <3>1, <3>2, <3>3
  <2>. QED  BY <2>1, <2>2, <2>3, <2>4
<1>. QED  BY <1>1, Kinds DEF Passes

\* A request that is served keeps the session sound and passes the gate.
LEMMA ServedStep ==
    ASSUME rule \in Rules, SoundSession, Numbered, rule' = rule,
           MailNext \/ LoginNext \/ ProbeNext \/ MemcachedNext \/ SnmpNext
    PROVE  SoundSession' /\ Passes
<1>1. CASE MailNext
  <2>1. CASE SmtpNext /\ rule.protocol = "smtp"
    BY <2>1, SmtpStep DEF SoundSession
  <2>2. CASE Pop3Next /\ rule.protocol = "pop3"
    BY <2>2, Pop3Step DEF SoundSession
  <2>3. CASE ImapNext /\ rule.protocol = "imap"
    BY <2>3, ImapStep DEF SoundSession
  <2>. QED  BY <1>1, <2>1, <2>2, <2>3, MailWorks
<1>2. CASE LoginNext
  <2>1. CASE FtpNext /\ rule.protocol = "ftp"
    BY <2>1, FtpStep, RuleFields DEF SoundSession
  <2>2. CASE RedisNext /\ rule.protocol = "redis"
    BY <2>2, RedisStep, RuleFields DEF SoundSession
  <2>3. CASE TelnetNext /\ rule.protocol = "telnet"
    BY <2>3, TelnetStep DEF SoundSession
  <2>4. CASE MysqlNext /\ rule.protocol = "mysql"
    BY <2>4, MysqlStep DEF SoundSession
  <2>5. CASE PostgresqlNext /\ rule.protocol = "postgresql"
    BY <2>5, PostgresqlStep DEF SoundSession
  <2>. QED  BY <1>2, <2>1, <2>2, <2>3, <2>4, <2>5, LoginWorks
<1>3. CASE ProbeNext
  <2>1. rule.protocol \in Probes
    BY <1>3, ProbeWorks
  <2>. QED  BY <1>3, <2>1, OpenStep DEF SoundSession, Probes
<1>4. CASE MemcachedNext \/ SnmpNext
  <2>1. rule.protocol \in Framed
    BY <1>4, FramedWorks
  <2>. QED  BY <1>4, <2>1, OpenStep DEF SoundSession, Framed
<1>. QED  BY <1>1, <1>2, <1>3, <1>4

LEMMA InvStep == Inv /\ [Next]_vars => Inv'
<1>. SUFFICES ASSUME Inv, [Next]_vars PROVE Inv'
  OBVIOUS
<1>1. Trail'
  BY TrailStep DEF Inv, SoundRest, MemcachedInv, MemcachedSound
<1>2. Numbered
  BY DEF Inv, Trail
<1>3. CASE MailNext \/ LoginNext \/ ProbeNext \/ MemcachedNext \/ SnmpNext
  <2>1. rule' = rule
    BY <1>2, <1>3, MailWorks, LoginWorks, ProbeWorks, FramedWorks DEF Works, Moves
  <2>. QED  BY <1>1, <1>2, <1>3, <2>1, ServedStep, RestServed DEF Inv
<1>4. CASE EndOfFile \/ ReadFails \/ TimeLimit \/ IdleLimit
  BY <1>1, <1>4, EndingStep, RestLeft DEF Inv
<1>5. CASE ClientEnds \/ UNCHANGED vars
  <2>1. UNCHANGED <<rule, at, session, said, proved>>
    BY <1>5 DEF ClientEnds, vars
  <2>2. (SmtpInv <=> SmtpInv') /\ (RedisSound(session) <=> RedisSound(session)')
        /\ (FtpSound(session) <=> FtpSound(session)')
    BY <2>1 DEF SmtpInv, SmtpSound, RedisSound, FtpSound
  <2>3. SoundRest'
    BY <2>1, RestLeft DEF Inv
  <2>. QED  BY <1>1, <2>1, <2>2, <2>3 DEF Inv, SoundSession
<1>. QED  BY <1>3, <1>4, <1>5 DEF Next, Serves

LEMMA InvAlways == Spec => []Inv
BY InitInv, InvStep, PTL DEF Spec

LEMMA TypedStep == Inv /\ Typed /\ [Next]_vars => Typed'
<1>. SUFFICES ASSUME Inv, Typed, [Next]_vars PROVE Typed'
  OBVIOUS
<1>1. CASE Serves \/ ReadFails \/ TimeLimit \/ IdleLimit
  <2>1. Works
    BY <1>1, MailWorks, LoginWorks, ProbeWorks, FramedWorks, EndingWorks DEF Inv, Trail, Serves
  <2>2. Regular
    BY <1>1, MailRegular, LoginRegular, ProbeRegular, FramedRegular, EndingRegular DEF Serves
  <2>. QED  BY <2>1, <2>2, RegularTyped DEF Works, Moves, Typed
<1>2. CASE ClientEnds \/ UNCHANGED vars
  BY <1>2 DEF ClientEnds, vars, Typed
<1>. QED  BY <1>1, <1>2 DEF Next

\* The session of a sound state is one of its protocol.
LEMMA SessionTyped ==
    ASSUME Inv
    PROVE  session \in SessionsOf(rule.protocol)
<1>. DEFINE p == rule.protocol
<1>1. \/ p \in {"smtp", "pop3", "imap", "ftp", "telnet", "redis", "mysql", "postgresql"}
      \/ p \in {"memcached", "snmp"} \/ p \in Probes \cup {"dns_udp"}
  BY DEF Inv, Rules, LoginRules, FtpRules, PlainRules, VncRules, SnmpRules, Probes
<1>2. CASE p \in {"smtp", "pop3", "imap", "ftp", "redis"}
  <2>1. /\ p = "smtp" => session \in SmtpSession
        /\ p = "pop3" => session \in Pop3Session
        /\ p = "imap" => session \in ImapSession
        /\ p = "ftp" => session \in FtpSession
        /\ p = "redis" => session \in RedisSession
    BY DEF Inv, SoundSession, SmtpInv, SmtpSound, FtpSound, RedisSound
  <2>. HIDE DEF p
  <2>2. session \in SessionsOf(p)
    BY <1>2, <2>1 DEF SessionsOf
  <2>. QED  BY <2>2 DEF p
<1>3. CASE p \in {"telnet", "mysql", "postgresql", "memcached", "snmp"}
  <2>1. /\ p = "telnet" => session \in TelnetSession
        /\ p \in {"mysql", "postgresql"} => session \in DatabaseSession
        /\ p = "memcached" => session \in MemcachedSession
        /\ p = "snmp" => session \in SnmpSession
    BY DEF Inv, SoundRest, MemcachedInv, MemcachedSound, SnmpInv, SnmpSound
  <2>. HIDE DEF p
  <2>2. session \in SessionsOf(p)
    BY <1>3, <2>1 DEF SessionsOf
  <2>. QED  BY <2>2 DEF p
<1>4. CASE p \in Probes \cup {"dns_udp"}
  <2>1. session \in ProbeSession
    BY <1>4 DEF Inv, SoundRest, ProbeSound
  <2>. HIDE DEF p
  <2>2. session \in SessionsOf(p)
    BY <1>4, <2>1 DEF SessionsOf, Probes
  <2>. QED  BY <2>2 DEF p
<1>. QED  BY <1>1, <1>2, <1>3, <1>4

\* Every variable of a connection, and of the session of its protocol, keeps its
\* type; so MongoDB answers no more requests than its limit, and no connection
\* takes more than it was sent.
THEOREM TypeCorrect == Spec => []TypeOK
<1>1. Init => Typed
  <2>. SUFFICES ASSUME Init PROVE Typed
    OBVIOUS
  <2>1. at \in Points
    BY PointNames DEF Init, FirstPoint
  <2>2. said.what \in Nat /\ eof \in BOOLEAN
    BY SaidNumbers DEF Init
  <2>3. unreported \in Nat /\ taken \in Nat /\ taken + unreported <= MaxRequests
    BY MaxRequestsAssumption DEF Init
  <2>. QED  BY <2>1, <2>2, <2>3 DEF Init, Typed
<1>2. Inv /\ Typed => TypeOK
  BY SessionTyped DEF Inv, Typed, TypeOK, Trail, Numbered
<1>3. Spec => [](Inv /\ Typed)
  BY <1>1, InitInv, InvStep, TypedStep, PTL DEF Spec
<1>. QED  BY <1>2, <1>3, PTL

\* In an SMTP dialogue, recipients belong to a sender, mail data to recipients
\* (SmtpSession::reset_transaction and its callers) and a sender to a login, if
\* the rule asks for one.
THEOREM EnvelopeSound == Spec => []SmtpEnvelope
<1>1. Inv => SmtpEnvelope
  BY DEF Inv, SoundSession, SmtpInv, SmtpSound, SmtpEnvelope
<1>. QED  BY <1>1, InvAlways, PTL

\* In an FTP dialogue, who is logged in is who was named last (handle_user and
\* handle_pass of ftp.rs), but for credentials without a name.
THEOREM IdentitySound == Spec => []FtpIdentity
<1>1. Inv => FtpIdentity
  BY DEF Inv, SoundSession, FtpSound, FtpIdentity
<1>. QED  BY <1>1, InvAlways, PTL

\* Whatever the pieces a Memcached stream comes in, each command of it is
\* answered once, up to the limit, and only a line that is too long ends the
\* connection for its size (the buffer loop of memcached.rs).
THEOREM FramingSound == Spec => []MemcachedFraming
<1>1. Inv => MemcachedFraming
  BY MemcachedFrames DEF Inv, SoundRest, MemcachedFraming
<1>. QED  BY <1>1, InvAlways, PTL

\* A walk over SNMP sees the values after its start in order, each once and none
\* left out, with GETNEXT and GETBULK in any mixture (next_value and its callers
\* in snmp.rs), and only a rule with an OID that cannot be encoded ends the endpoint.
THEOREM WalkSound == Spec => []SnmpWalk
<1>1. Inv => SnmpWalk
  BY SnmpWalks DEF Inv, SoundRest, SnmpWalk
<1>. QED  BY <1>1, InvAlways, PTL

\* Whatever the protocol, an event is queued for each request that its handler
\* reports, but for the one in progress or the last one of a task that ended (the
\* order of answers, `?' and event_sender.send in each handler).
THEOREM TrailComplete == Spec => []TrailLosesOnlyTheLast
<1>1. Inv => TrailLosesOnlyTheLast
  BY DEF Inv, Trail
<1>. QED  BY <1>1, InvAlways, PTL

\* But for VNC, no handler shows content or decides on a login without queueing an
\* event in the same step, or losing it as a failed write ends the task.
THEOREM ReportsShown == Spec => ShownIsReported
<1>. DEFINE Reported == told' + untold' = told + untold + 1
            Telling  == eof' = eof /\ rule.protocol # "vnc"
                          /\ (said'.kind \in Content \cup Verdicts \/ login' # login) => Reported
<1>1. Inv /\ [Next]_vars => Telling \/ UNCHANGED vars
  <2>. SUFFICES ASSUME Inv, Next PROVE Telling
    BY DEF Inv
  <2>1. CASE Serves \/ ReadFails \/ TimeLimit \/ IdleLimit
    <3>1. Works
      BY <2>1, MailWorks, LoginWorks, ProbeWorks, FramedWorks, EndingWorks DEF Inv, Trail, Serves
    <3>. QED  BY <3>1 DEF Works, Moves, Discreet, Shown
  <2>2. CASE ClientEnds
    BY <2>2 DEF ClientEnds
  <2>. QED  BY <2>1, <2>2 DEF Next
<1>. QED  BY <1>1, InvAlways, PTL DEF Spec, ShownIsReported

LEMMA GateInit == Init => Gate!Init
<1>. SUFFICES ASSUME Init PROVE Gate!Init
  OBVIOUS
<1>1. login = "none" /\ ~(said.kind \in Content)
  BY Kinds DEF Init
<1>2. LoginRequired \in BOOLEAN
  BY DEF LoginRequired
<1>3. GateOpen = ~LoginRequired
  <2>1. CASE rule.protocol = "smtp"
    <3>1. session = SmtpNew /\ rule.require_auth \in BOOLEAN
      BY <2>1, RuleFields, NewSession DEF Init
    <3>2. session.authed = ~rule.require_auth /\ session.mail_from = FALSE
      BY <3>1 DEF SmtpNew
    <3>3. GateOpen <=> ~rule.require_auth
      BY <2>1, <3>1, <3>2 DEF GateOpen
    <3>4. LoginRequired <=> rule.require_auth
      BY <2>1, <3>1 DEF LoginRequired
    <3>5. GateOpen \in BOOLEAN
      BY <2>1 DEF GateOpen
    <3>. QED  BY <3>3, <3>4, <3>5
  <2>2. CASE rule.protocol \in {"pop3", "imap", "redis"}
    <3>1. /\ session = Pop3New \/ session = ImapNew \/ session = RedisNew
          /\ rule.require_auth \in BOOLEAN
      BY <2>2, RuleFields, NewSession DEF Init
    <3>2. session.authed = ~rule.require_auth
      BY <3>1 DEF Pop3New, ImapNew, RedisNew
    <3>3. GateOpen = session.authed
      BY <2>2 DEF GateOpen
    <3>4. LoginRequired <=> rule.require_auth
      BY <2>2, <3>1 DEF LoginRequired
    <3>. QED  BY <3>1, <3>2, <3>3, <3>4
  <2>3. CASE rule.protocol = "ftp"
    <3>1. session = FtpNew /\ FtpNew.authed = FALSE
      BY <2>3, NewSession DEF FtpNew
    <3>2. GateOpen = session.authed
      BY <2>3 DEF GateOpen
    <3>3. LoginRequired = TRUE
      BY <2>3 DEF LoginRequired
    <3>. QED  BY <3>1, <3>2, <3>3
  <2>4. CASE rule.protocol \in Placed
    BY <2>4 DEF Init, FirstPoint, GateOpen, LoginRequired, Placed
  <2>5. CASE rule.protocol \notin {"smtp"} \cup Authed \cup Placed
    BY <2>5 DEF GateOpen, Authed, Placed
  <2>. QED  BY <2>1, <2>2, <2>3, <2>4, <2>5 DEF Authed
<1>. QED  BY <1>1, <1>2, <1>3 DEF Gate!Init

LEMMA PassesGate ==
    ASSUME rule' = rule, Passes
    PROVE  Gate!Next
<1>1. UNCHANGED LoginRequired
  BY DEF LoginRequired, Offers
<1>2. CASE Unchecked /\ (said'.kind \in Content => GateOpen) /\ (GateOpen' => GateOpen)
  <2>1. CASE said'.kind \in Content
    <3>1. (said.kind \in Content)' = TRUE /\ GateOpen /\ GateOpen' \in BOOLEAN /\ login' = login
      BY <1>2, <2>1 DEF Passes, Unchecked
    <3>. QED  BY <1>1, <3>1 DEF Gate!Next, Gate!Show
  <2>2. CASE said'.kind \notin Content
    <3>1. (said.kind \in Content)' = FALSE /\ GateOpen' \in BOOLEAN /\ login' = login
      BY <1>2, <2>2 DEF Passes, Unchecked
    <3>. QED  BY <1>1, <1>2, <3>1 DEF Gate!Next, Gate!Other
  <2>. QED  BY <2>1, <2>2
<1>3. ASSUME NEW ok \in BOOLEAN, Checked(ok), said'.kind \notin Content, GateOpen' => ok \/ GateOpen
      PROVE  Gate!Check(ok)
  BY <1>1, <1>3 DEF Passes, Checked, Gate!Check
<1>. QED  BY <1>2, <1>3 DEF Passes, Gate!Next

LEMMA GateStep == Inv /\ [Next]_vars => [Gate!Next]_Gate!gateVars
<1>. SUFFICES ASSUME Inv, [Next]_vars PROVE [Gate!Next]_Gate!gateVars
  OBVIOUS
<1>2. Numbered
  BY DEF Inv, Trail
<1>3. CASE MailNext \/ LoginNext \/ ProbeNext \/ MemcachedNext \/ SnmpNext
  <2>1. rule' = rule
    BY <1>2, <1>3, MailWorks, LoginWorks, ProbeWorks, FramedWorks DEF Works, Moves
  <2>. QED  BY <1>2, <1>3, <2>1, ServedStep, PassesGate DEF Inv
<1>4. CASE EndOfFile \/ ReadFails \/ TimeLimit \/ IdleLimit
  BY <1>4, EndingStep, EndingPasses, PassesGate DEF Inv
<1>5. CASE ClientEnds \/ UNCHANGED vars
  <2>1. UNCHANGED <<rule, at, session, said, login>>
    BY <1>5 DEF ClientEnds, vars
  <2>2. UNCHANGED LoginRequired /\ UNCHANGED GateOpen
    BY <2>1 DEF LoginRequired, GateOpen, Offers
  <2>. QED  BY <2>1, <2>2 DEF Gate!gateVars
<1>. QED  BY <1>3, <1>4, <1>5 DEF Next, Serves

\* Every handler implements AccessGate, for any rule: content is shown only
\* while the gate is open, and nothing but a successful credential check opens it.
THEOREM GateImplemented == Spec => ImplementsGate
BY GateInit, InvAlways, GateStep, PTL DEF Spec, ImplementsGate, Gate!Spec

===============================================================================
