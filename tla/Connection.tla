------------------------------ MODULE Connection ------------------------------
(***************************************************************************)
(* One client of a simulated endpoint, and the task that serves it.        *)
(*                                                                         *)
(* Every handler of crates/protocol-simulation-engine/src/simulation has   *)
(* the same outline: wait for the client at some point of the dialogue,    *)
(* change the session, write an answer, queue an audit event.  The event   *)
(* of a request comes after the answer (the mail handlers, FTP, MQTT,      *)
(* MongoDB, DNS), before it (Telnet, Redis, LDAP, the databases), or not   *)
(* at all: most handlers know requests that they answer or pass over       *)
(* without an event.  Every write and read is followed by `?': an error    *)
(* ends the task at that point.  This module holds that outline; the       *)
(* modules that extend it hold one action per request of each protocol.    *)
(*                                                                         *)
(* Requests, credentials and answers are names for what the handler tells  *)
(* apart.  Blank lines, which the mail, FTP and Memcached handlers skip,   *)
(* are stuttering; to Telnet a blank line is a command.                    *)
(***************************************************************************)
EXTENDS Naturals, Sequences

CONSTANT MaxRequests  \* bound: requests a client sends on one connection

ASSUME MaxRequestsAssumption == MaxRequests \in Nat \ {0}

VARIABLES
  rule,     \* the rule's protocol and behaviour; never changes
  at,       \* where the task waits for the client, or "closed"
  session,  \* the handler's local variables
  said,     \* what the handler wrote last
  eof,      \* the client has shut down its side of the connection
  taken,    \* requests taken off the connection that the handler reports
  unreported, \* requests taken off it that the handler reports to nobody
  told,     \* requests, the connection included, whose audit event was queued
  untold,   \* those whose event was lost because the task ended before it
  login,    \* history: outcome of the last credential check
  proved    \* history: some credential check of this connection succeeded

vars == <<rule, at, session, said, eof, taken, unreported, told, untold, login, proved>>

Say(kind)     == [kind |-> kind, what |-> 0]
Show(kind, n) == [kind |-> kind, what |-> n]

-----------------------------------------------------------------------------
(* What the actions of every handler are made of.                          *)

\* The task of protocol p waits at point w and the client's bytes arrive.
Reads(p, w) == rule.protocol = p /\ at = w /\ ~eof

MayTake == taken + unreported < MaxRequests

\* A new request is read at point w, one that the handler reports ...
Takes(p, w) == Reads(p, w) /\ MayTake /\ taken' = taken + 1 /\ UNCHANGED unreported

\* ... or one that it does not.
PassesOver(p, w) == Reads(p, w) /\ MayTake /\ unreported' = unreported + 1 /\ UNCHANGED taken

\* End of file is read at point w and taken for a request.
TakesEof(p, w) ==
  /\ rule.protocol = p /\ at = w /\ eof
  /\ MayTake /\ taken' = taken + 1 /\ UNCHANGED unreported

TakesNothing == UNCHANGED <<taken, unreported>>

\* More of the request in progress is read.
Continues(p, w) == Reads(p, w) /\ TakesNothing

\* The read at point w, inside a request, returns end of file.
ReadsEof(p, w) == rule.protocol = p /\ at = w /\ eof /\ TakesNothing

\* The answer r is written, or the write fails and the task ends.  The event
\* of the request is queued "first", "after" the answer, or "later" in the
\* dialogue; with the last two, it is lost when the write fails.  "none": there
\* is no event.
Answers(next, s, r, report) ==
  /\ \/ /\ at' = next /\ session' = s /\ said' = r
        /\ told' = told + (IF report \in {"first", "after"} THEN 1 ELSE 0)
        /\ UNCHANGED untold
     \/ /\ at' = "closed" /\ said' = Say("nothing") /\ UNCHANGED session
        /\ told' = told + (IF report = "first" THEN 1 ELSE 0)
        /\ untold' = untold + (IF report \in {"after", "later"} THEN 1 ELSE 0)
  /\ UNCHANGED <<rule, eof>>

\* The task starts: the banner is written and the connection is reported.
Greets(p, next, report) ==
  /\ rule.protocol = p /\ at = "greet"
  /\ Answers(next, session, Say("banner"), report)
  /\ TakesNothing

\* The task goes on or ends without writing: an event is queued ("told"),
\* what was still to be reported is "lost", or there is nothing to report.
Silent(next, s, report) ==
  /\ at' = next /\ session' = s /\ said' = Say("nothing")
  /\ told' = told + (IF report = "told" THEN 1 ELSE 0)
  /\ untold' = untold + (IF report = "lost" THEN 1 ELSE 0)
  /\ UNCHANGED <<rule, eof>>

\* The presented credentials are compared with those of the rule.
Checked(ok) ==
  /\ login' = IF ok THEN "valid" ELSE "invalid"
  /\ proved' = (proved \/ ok)

Unchecked == UNCHANGED <<login, proved>>

\* Points where the task does not wait for the client.
Busy == {"greet", "lines", "closed"}

\* Points inside a request that has still to be reported.
Midway == {"auth_plain", "auth_user", "auth_pass", "data"}

\* A read fails: the connection is reset, or what arrives is no line, no
\* packet or no UTF-8 (a truncated MQTT CONNECT, a MySQL query in Latin-1): no
\* request is taken.  The error ends the task, and what it had still to report
\* of an earlier read is lost.
ReadFails ==
  /\ at \notin Busy
  /\ Silent("closed", session, IF at \in Midway THEN "lost" ELSE "none")
  /\ TakesNothing /\ Unchecked

\* The task ends while it waits for the client: end of file, or a time limit.
Leaves ==
  /\ at \notin Midway \cup Busy
  /\ Silent("closed", session, "none")
  /\ TakesNothing /\ Unchecked

\* End of file where a handler waits for the next request: it returns.
\* Telnet reads on for a login, and SMB reports the empty read.
EndOfFile ==
  /\ eof /\ rule.protocol # "smb" /\ at # "login"
  /\ Leaves

\* Some handlers run under tokio::time::timeout as a whole ...
TimeLimited == {"mqtt", "memcached", "mongodb", "vnc"}

TimeLimit == rule.protocol \in TimeLimited /\ Leaves

\* ... and some limit every read, SSH all but the first.
IdleLimit ==
  /\ rule.protocol = "rdp" \/ (rule.protocol = "ssh" /\ at = "request")
  /\ Leaves

-----------------------------------------------------------------------------
(* The client's side.                                                      *)

Datagrams == {"dns_udp", "snmp"}

\* The client shuts down its side; what it sent before has been read.
ClientEnds ==
  /\ rule.protocol \notin Datagrams
  /\ at # "closed" /\ ~eof /\ eof' = TRUE
  /\ UNCHANGED <<rule, at, session, said, taken, unreported, told, untold, login, proved>>
=============================================================================
