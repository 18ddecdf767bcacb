----------------------------- MODULE LoginSessions ----------------------------
(***************************************************************************)
(* The handlers of FTP, Telnet, Redis, MySQL and PostgreSQL                *)
(* (simulation/ftp.rs, telnet.rs, redis.rs, database/mysql.rs,             *)
(* database/postgresql.rs of the engine).  FTP answers first and reports   *)
(* then; the others report first, and the databases report the login and   *)
(* the queries only.                                                       *)
(***************************************************************************)
EXTENDS Connection

\* User names: anonymous ones, one of a credential, and none at all.
Users == {"", "anonymous", "known", "other"}

FtpSession    == [pending_user : Users, authed : BOOLEAN, username : Users, latest : Users]
TelnetSession == [known : BOOLEAN]
RedisSession  == [authed : BOOLEAN]
DatabaseSession == [ssl : BOOLEAN]

\* FtpSession::new; `latest' is history: the argument of the last USER.
FtpNew      == [pending_user |-> "", authed |-> FALSE, username |-> "", latest |-> ""]
TelnetNew   == [known |-> FALSE]
RedisNew    == [authed |-> ~rule.require_auth]
DatabaseNew == [ssl |-> FALSE]

-----------------------------------------------------------------------------
(* FTP                                                                     *)

\* SYST, FEAT, TYPE, NOOP and unknown commands
FtpPlain ==
  /\ Takes("ftp", "request")
  /\ Answers("request", session, Say("ok"), "after")
  /\ Unchecked

\* Mutant: USER leaves an earlier login alone.
FtpUserKeepingLogin ==
  /\ Takes("ftp", "request")
  /\ \E u \in Users :
       Answers("request", [session EXCEPT !.pending_user = u, !.latest = u], Say("prompt"), "after")
  /\ Unchecked

FtpUser ==
  /\ Takes("ftp", "request")
  /\ \E u \in Users :
       Answers("request",
               [session EXCEPT !.pending_user = u, !.latest = u, !.authed = FALSE],
               Say("prompt"), "after")
  /\ Unchecked

\* credentials_match: anonymous access, or a credential of the rule.
FtpMatch(user, right) ==
  \/ ~rule.require_auth /\ user = "anonymous"
  \/ right /\ user \in {"known", rule.nameless}

\* PASS takes the pending user.  A failure leaves an earlier login alone.
FtpPass ==
  /\ Takes("ftp", "request")
  /\ \E right \in BOOLEAN :
       LET user == session.pending_user
           ok   == FtpMatch(user, right)
           rest == [session EXCEPT !.pending_user = ""]
       IN /\ Checked(ok)
          /\ Answers("request",
                     IF ok THEN [rest EXCEPT !.authed = TRUE, !.username = user] ELSE rest,
                     Say(IF ok THEN "authenticated" ELSE "denied"), "after")

\* PWD, CWD, LIST, PASV, SIZE, RETR, STOR, DELE, MKD, RMD and their kin
FtpFiles ==
  /\ Takes("ftp", "request")
  /\ Answers("request", session, Say(IF session.authed THEN "files" ELSE "auth required"), "after")
  /\ Unchecked

FtpQuit ==
  /\ Takes("ftp", "request")
  /\ Answers("closed", session, Say("bye"), "after")
  /\ Unchecked

FtpNext ==
  \/ Greets("ftp", "request", "after") /\ Unchecked
  \/ FtpPlain \/ FtpUser \/ FtpPass \/ FtpFiles \/ FtpQuit

-----------------------------------------------------------------------------
(* Telnet                                                                  *)

\* The user name.  End of file stands for an empty line, here and below, and
\* a credential of the rule may well be empty.
TelnetUser ==
  /\ Takes("telnet", "login") \/ TakesEof("telnet", "login")
  /\ \E k \in BOOLEAN : Answers("auth_pass", [known |-> k], Say("prompt"), "later")
  /\ Unchecked

\* Mutant: a wrong password is refused before it is reported.
TelnetPassUnreported ==
  /\ Continues("telnet", "auth_pass") \/ ReadsEof("telnet", "auth_pass")
  /\ \E right \in BOOLEAN :
       LET ok == right /\ session.known IN
       /\ Checked(ok)
       /\ IF ok THEN Answers("request", session, Say("authenticated"), "first")
                ELSE Answers("closed", session, Say("denied"), "none")

\* The password decides once and for all.  The attempt is reported before
\* the answer.
TelnetPass ==
  /\ Continues("telnet", "auth_pass") \/ ReadsEof("telnet", "auth_pass")
  /\ \E right \in BOOLEAN :
       LET ok == right /\ session.known IN
       /\ Checked(ok)
       /\ IF ok THEN Answers("request", session, Say("authenticated"), "first")
                ELSE Answers("closed", session, Say("denied"), "first")

TelnetCommand ==
  /\ Takes("telnet", "request")
  /\ \/ Answers("request", session, Say("shell"), "first")
     \/ Answers("closed", session, Say("bye"), "first")  \* exit, logout
  /\ Unchecked

TelnetNext ==
  \/ Greets("telnet", "login", "first") /\ Unchecked
  \/ TelnetUser \/ TelnetPass \/ TelnetCommand

-----------------------------------------------------------------------------
(* Redis: what one read of the socket returns is taken for one command.    *)

\* A custom response needs no login.
RedisCustom ==
  /\ Takes("redis", "request")
  /\ Answers("request", session, Say("custom"), "first")
  /\ Unchecked

\* No command can be made of the bytes read, as when a command arrives in
\* two segments: an error, never reported.
RedisProtocolError ==
  /\ PassesOver("redis", "request")
  /\ Answers("request", session, Say("protocol error"), "none")
  /\ Unchecked

\* PING needs no login either.
RedisPing ==
  /\ Takes("redis", "request")
  /\ Answers("request", session, Say("pong"), "first")
  /\ Unchecked

\* AUTH: the last word read is the password.  A failure leaves an earlier
\* login alone; a rule that asks for no login accepts any password.
RedisAuth ==
  /\ Takes("redis", "request")
  /\ \E right \in BOOLEAN :
       LET ok == right \/ ~rule.require_auth IN
       /\ Checked(ok)
       /\ Answers("request", [authed |-> session.authed \/ ok],
                  Say(IF ok THEN "authenticated" ELSE "denied"), "first")

\* INFO, KEYS, GET, SET and the others, which the simulation refuses
RedisCommand ==
  /\ Takes("redis", "request")
  /\ \E r \in {"data", "refused"} :
       Answers("request", session,
               Say(IF rule.require_auth /\ ~session.authed THEN "auth required" ELSE r), "first")
  /\ Unchecked

RedisNext ==
  \/ Greets("redis", "request", "after") /\ Unchecked
  \/ RedisCustom \/ RedisProtocolError \/ RedisPing \/ RedisAuth \/ RedisCommand

-----------------------------------------------------------------------------
(* MySQL                                                                   *)

\* The handshake response: parsed, compared, and the database looked up.
\* One that cannot be parsed ends the task, though it has been reported.
MysqlLogin ==
  /\ Takes("mysql", "handshake")
  /\ \/ Silent("closed", session, "told") /\ Unchecked
     \/ Checked(FALSE) /\ Answers("closed", session, Say("denied"), "first")
     \/ Checked(TRUE) /\ Answers("closed", session, Say("unknown database"), "first")
     \/ Checked(TRUE) /\ Answers("request", session, Say("authenticated"), "first")

\* COM_QUERY; a query that is no UTF-8 is a failed read.
MysqlQuery ==
  /\ Takes("mysql", "request")
  /\ \E r \in {"result", "unsupported"} : Answers("request", session, Say(r), "first")
  /\ Unchecked

\* COM_PING and unknown commands are answered, an empty packet is not;
\* none of them is reported.
MysqlOther ==
  /\ PassesOver("mysql", "request")
  /\ \/ \E r \in {"ok", "unsupported"} : Answers("request", session, Say(r), "none")
     \/ Silent("request", session, "none")
  /\ Unchecked

MysqlQuit == PassesOver("mysql", "request") /\ Silent("closed", session, "none") /\ Unchecked

MysqlNext ==
  \/ Greets("mysql", "handshake", "first") /\ Unchecked
  \/ MysqlLogin \/ MysqlQuery \/ MysqlOther \/ MysqlQuit

-----------------------------------------------------------------------------
(* PostgreSQL                                                              *)

\* No banner: the connection is reported and the client begins.
PostgresqlBegin ==
  /\ rule.protocol = "postgresql" /\ at = "greet"
  /\ Silent("startup", session, "told")
  /\ TakesNothing /\ Unchecked

\* A first packet may ask for TLS; a second request for it is a bad version.
PostgresqlSsl ==
  /\ PassesOver("postgresql", "startup") /\ ~session.ssl
  /\ Answers("startup", [ssl |-> TRUE], Say("no TLS"), "none")
  /\ Unchecked

\* A packet of another version is refused and not reported.
PostgresqlStartup ==
  /\ \/ /\ PassesOver("postgresql", "startup")
        /\ Answers("closed", session, Say("unsupported version"), "none")
     \/ /\ Takes("postgresql", "startup")
        /\ Answers("password", session, Say("prompt"), "first")
  /\ Unchecked

\* Another message than a password is refused and not reported; a password that
\* cannot be read is reported, and ends the task.
PostgresqlPassword ==
  \/ /\ PassesOver("postgresql", "password")
     /\ Answers("closed", session, Say("password expected"), "none") /\ Unchecked
  \/ /\ Takes("postgresql", "password")
     /\ \/ Silent("closed", session, "told") /\ Unchecked
        \/ Checked(FALSE) /\ Answers("closed", session, Say("denied"), "first")
        \/ Checked(TRUE) /\ Answers("closed", session, Say("unknown database"), "first")
        \/ Checked(TRUE) /\ Answers("request", session, Say("authenticated"), "first")

PostgresqlQuery ==
  /\ Takes("postgresql", "request")
  /\ \E r \in {"result", "empty", "unsupported"} : Answers("request", session, Say(r), "first")
  /\ Unchecked

\* The extended query protocol is answered with an error, never reported.
PostgresqlOther ==
  /\ PassesOver("postgresql", "request")
  /\ Answers("request", session, Say("unsupported"), "none")
  /\ Unchecked

PostgresqlTerminate ==
  PassesOver("postgresql", "request") /\ Silent("closed", session, "none") /\ Unchecked

PostgresqlNext ==
  \/ PostgresqlBegin \/ PostgresqlSsl \/ PostgresqlStartup \/ PostgresqlPassword
  \/ PostgresqlQuery \/ PostgresqlOther \/ PostgresqlTerminate

-----------------------------------------------------------------------------
LoginNext == FtpNext \/ TelnetNext \/ RedisNext \/ MysqlNext \/ PostgresqlNext
=============================================================================
