----------------------------- MODULE MailSessions -----------------------------
(***************************************************************************)
(* The SMTP, POP3 and IMAP handlers (simulation/smtp.rs, pop3.rs, imap.rs  *)
(* and mail_common.rs of the engine).  They answer first and report then.  *)
(* A custom response of the rule is looked up before the command is        *)
(* interpreted: it leaves the session alone, whatever the command is.      *)
(***************************************************************************)
EXTENDS Connection

CONSTANT Messages  \* bound: messages in the rule's mailbox

ASSUME MessagesAssumption == Messages \in Nat \ {0}

Numbers == 1..(Messages + 1)  \* what a client asks for; the last one is unknown

SmtpSession == [authed : BOOLEAN, mail_from : BOOLEAN, rcpt_to : BOOLEAN]
Pop3Session == [username : {"none", "known", "other"}, authed : BOOLEAN,
                deleted : SUBSET (1..Messages)]
ImapSession == [authed : BOOLEAN, selected_mailbox : BOOLEAN]

\* SmtpSession::new, Pop3Session::new and the literal in handle_imap_connection.
SmtpNew == [authed |-> ~rule.require_auth, mail_from |-> FALSE, rcpt_to |-> FALSE]
Pop3New == [username |-> "none", authed |-> ~rule.require_auth, deleted |-> {}]
ImapNew == [authed |-> ~rule.require_auth, selected_mailbox |-> FALSE]

-----------------------------------------------------------------------------
(* SMTP                                                                    *)

\* Commands that leave the session as it is: EHLO, HELO, VRFY, EXPN, NOOP,
\* unknown ones, and any command for which the rule has a custom response.
SmtpPlain ==
  /\ Takes("smtp", "request")
  /\ \E r \in {"ok", "unrecognized", "custom"} : Answers("request", session, Say(r), "after")
  /\ Unchecked

\* The end of AUTH: the outcome replaces the earlier one, the envelope stays.
SmtpVerdict(ok) ==
  /\ Checked(ok)
  /\ Answers("request", [session EXCEPT !.authed = ok],
             Say(IF ok THEN "authenticated" ELSE "denied"), "after")

\* AUTH with all it needs in one line, or with an unknown mechanism.
SmtpAuth ==
  /\ Takes("smtp", "request")
  /\ \E ok \in BOOLEAN : SmtpVerdict(ok)

\* AUTH PLAIN without an initial response, AUTH LOGIN with or without one.
SmtpAuthPrompt ==
  /\ Takes("smtp", "request")
  /\ \E w \in {"auth_plain", "auth_user", "auth_pass"} :
       Answers(w, session, Say("prompt"), "later")
  /\ Unchecked

SmtpAuthUser ==
  /\ Continues("smtp", "auth_user")
  /\ Answers("auth_pass", session, Say("prompt"), "later")
  /\ Unchecked

SmtpAuthEnd ==
  /\ Continues("smtp", at) /\ at \in {"auth_plain", "auth_pass"}
  /\ \E ok \in BOOLEAN : SmtpVerdict(ok)

\* Mutant: the end of the client goes unreported.
SmtpAuthEofUnreported ==
  /\ ReadsEof("smtp", at) /\ at \in {"auth_plain", "auth_user", "auth_pass"}
  /\ Silent("request", session, "none") /\ Unchecked

\* The client ends in the middle of AUTH: that is a failed attempt.
SmtpAuthEof ==
  /\ ReadsEof("smtp", at) /\ at \in {"auth_plain", "auth_user", "auth_pass"}
  /\ SmtpVerdict(FALSE)

\* Mutant: a sender is accepted without the login that the rule asks for.
SmtpMailUnchecked ==
  /\ Takes("smtp", "request")
  /\ \/ Answers("request", [session EXCEPT !.mail_from = TRUE], Say("sender"), "after")
     \/ Answers("request", session, Say("syntax"), "after")
  /\ Unchecked

SmtpMail ==
  /\ Takes("smtp", "request")
  /\ \/ /\ rule.require_auth /\ ~session.authed
        /\ Answers("request", session, Say("auth required"), "after")
     \/ /\ ~(rule.require_auth /\ ~session.authed)
        /\ \/ Answers("request", [session EXCEPT !.mail_from = TRUE], Say("sender"), "after")
           \/ Answers("request", session, Say("syntax"), "after")
  /\ Unchecked

\* Any recipient may be refused by accepted_recipients.
SmtpRcpt ==
  /\ Takes("smtp", "request")
  /\ \/ /\ ~session.mail_from
        /\ Answers("request", session, Say("need MAIL"), "after")
     \/ /\ session.mail_from
        /\ \/ Answers("request", [session EXCEPT !.rcpt_to = TRUE], Say("recipient"), "after")
           \/ Answers("request", session, Say("user unknown"), "after")
  /\ Unchecked

SmtpData ==
  /\ Takes("smtp", "request")
  /\ \/ session.rcpt_to /\ Answers("data", session, Say("prompt"), "later")
     \/ ~session.rcpt_to /\ Answers("request", session, Say("need RCPT"), "after")
  /\ Unchecked

\* Mutant: the recipients of a transaction are not cleared with it.
ResetSender == [session EXCEPT !.mail_from = FALSE]

\* SmtpSession::reset_transaction
ResetTransaction == [session EXCEPT !.mail_from = FALSE, !.rcpt_to = FALSE]

\* Mutant: only the dot ends the data.
SmtpDataDot ==
  /\ Continues("smtp", "data")
  /\ Answers("request", ResetTransaction, Say("accepted"), "after")
  /\ Unchecked

\* The line with a single dot, or the end of the client: both accept the mail.
SmtpDataEnd ==
  /\ Continues("smtp", "data") \/ ReadsEof("smtp", "data")
  /\ Answers("request", ResetTransaction, Say("accepted"), "after")
  /\ Unchecked

SmtpRset ==
  /\ Takes("smtp", "request")
  /\ Answers("request", ResetTransaction, Say("ok"), "after")
  /\ Unchecked

\* QUIT, unless the rule answers it: reported before the loop is left.
Quits(p) ==
  /\ Takes(p, "request")
  /\ Answers("closed", session, Say("bye"), "after")
  /\ Unchecked

SmtpNext ==
  \/ Greets("smtp", "request", "after") /\ Unchecked
  \/ SmtpPlain \/ SmtpAuth \/ SmtpAuthPrompt \/ SmtpAuthUser \/ SmtpAuthEnd \/ SmtpAuthEof
  \/ SmtpMail \/ SmtpRcpt \/ SmtpData \/ SmtpDataEnd \/ SmtpRset \/ Quits("smtp")

-----------------------------------------------------------------------------
(* POP3                                                                    *)

Pop3Plain ==
  /\ Takes("pop3", "request")
  /\ \E r \in {"ok", "unrecognized", "custom"} : Answers("request", session, Say(r), "after")
  /\ Unchecked

Pop3User ==
  /\ Takes("pop3", "request")
  /\ \E u \in {"known", "other"} :
       Answers("request", [session EXCEPT !.username = u], Say("ok"), "after")
  /\ Unchecked

\* A wrong password ends an earlier login, and the access of a rule that
\* asks for none.  No user stands for an empty one, which a credential may have.
Pop3Pass ==
  /\ Takes("pop3", "request")
  /\ \E right \in BOOLEAN :
       LET ok == right /\ session.username # "other" IN
       /\ Checked(ok)
       /\ Answers("request", [session EXCEPT !.authed = ok],
                  Say(IF ok THEN "authenticated" ELSE "denied"), "after")

\* What AUTH answers, and AUTHENTICATE of IMAP: the state of the session,
\* which an attempt that cannot be decoded has not changed.
AuthAnswer(s) == Say(IF s.authed THEN "authenticated" ELSE "denied")

\* AUTH that is decoded and compared, or that is not.
Pop3Verdict ==
  \/ \E ok \in BOOLEAN :
       LET s == [session EXCEPT !.authed = ok] IN
       Checked(ok) /\ Answers("request", s, AuthAnswer(s), "after")
  \/ Answers("request", session, AuthAnswer(session), "after") /\ Unchecked

Pop3Auth == Takes("pop3", "request") /\ Pop3Verdict

Pop3AuthPrompt ==
  /\ Takes("pop3", "request")
  /\ Answers("auth_plain", session, Say("prompt"), "later")
  /\ Unchecked

Pop3AuthEnd ==
  \/ Continues("pop3", "auth_plain") /\ Pop3Verdict
  \/ /\ ReadsEof("pop3", "auth_plain")
     /\ Answers("request", session, AuthAnswer(session), "after") /\ Unchecked

\* ensure_auth: the reply s of a command that needs a login.
EnsureAuth(s, r) ==
  \/ session.authed /\ Answers("request", s, r, "after")
  \/ ~session.authed /\ Answers("request", session, Say("auth required"), "after")

\* STAT, LIST and UIDL of the whole mailbox
Pop3List ==
  /\ Takes("pop3", "request")
  /\ EnsureAuth(session, Say("listing"))
  /\ Unchecked

\* LIST n, UIDL n, RETR n, TOP n
Pop3Message(n) ==
  /\ Takes("pop3", "request")
  /\ EnsureAuth(session, IF n \in (1..Messages) \ session.deleted
                         THEN Show("message", n) ELSE Say("no such message"))
  /\ Unchecked

\* RETR, TOP and DELE without a message number
Pop3NoNumber ==
  /\ Takes("pop3", "request")
  /\ EnsureAuth(session, Say("number required"))
  /\ Unchecked

\* DELE, which a message that is deleted already takes too
Pop3Dele(n) ==
  /\ Takes("pop3", "request")
  /\ EnsureAuth([session EXCEPT !.deleted = @ \cup ({n} \cap 1..Messages)],
                Say(IF n <= Messages THEN "ok" ELSE "no such message"))
  /\ Unchecked

\* RSET asks for no login.
Pop3Rset ==
  /\ Takes("pop3", "request")
  /\ Answers("request", [session EXCEPT !.deleted = {}], Say("ok"), "after")
  /\ Unchecked

Pop3Next ==
  \/ Greets("pop3", "request", "after") /\ Unchecked
  \/ Pop3Plain \/ Pop3User \/ Pop3Pass \/ Pop3Auth \/ Pop3AuthPrompt \/ Pop3AuthEnd
  \/ Pop3List \/ Pop3NoNumber \/ (\E n \in Numbers : Pop3Message(n) \/ Pop3Dele(n))
  \/ Pop3Rset \/ Quits("pop3")

-----------------------------------------------------------------------------
(* IMAP                                                                    *)

\* CAPABILITY, NOOP, unknown commands, custom responses
ImapPlain ==
  /\ Takes("imap", "request")
  /\ \E r \in {"ok", "unrecognized", "custom"} : Answers("request", session, Say(r), "after")
  /\ Unchecked

\* A line without a command is answered and never reported.
ImapBadLine ==
  /\ PassesOver("imap", "request")
  /\ Answers("request", session, Say("bad line"), "none")
  /\ Unchecked

ImapLogin ==
  /\ Takes("imap", "request")
  /\ \E ok \in BOOLEAN :
       LET s == [session EXCEPT !.authed = ok] IN
       Checked(ok) /\ Answers("request", s, AuthAnswer(s), "after")

\* AUTHENTICATE with a mechanism other than PLAIN
ImapAuthOther ==
  /\ Takes("imap", "request")
  /\ Answers("request", session, AuthAnswer(session), "after")
  /\ Unchecked

ImapAuthPrompt ==
  /\ Takes("imap", "request")
  /\ Answers("auth_plain", session, Say("prompt"), "later")
  /\ Unchecked

ImapAuthEnd ==
  \/ /\ Continues("imap", "auth_plain")
     /\ \/ \E ok \in BOOLEAN :
             LET s == [session EXCEPT !.authed = ok] IN
             Checked(ok) /\ Answers("request", s, AuthAnswer(s), "after")
        \/ Answers("request", session, AuthAnswer(session), "after") /\ Unchecked
  \/ /\ ReadsEof("imap", "auth_plain")
     /\ Answers("request", session, AuthAnswer(session), "after") /\ Unchecked

\* LIST, LSUB, STATUS, SEARCH, and STORE, which stores nothing
ImapList ==
  /\ Takes("imap", "request")
  /\ EnsureAuth(session, Say("listing"))
  /\ Unchecked

\* SELECT and EXAMINE note the name of the mailbox, which nothing reads.
ImapSelect ==
  /\ Takes("imap", "request")
  /\ EnsureAuth([session EXCEPT !.selected_mailbox = TRUE], Say("listing"))
  /\ Unchecked

\* FETCH n: 0 and what is no number stand for the first message.
\* UID FETCH: an unknown uid stands for the first message, too.
ImapFetch(n) ==
  /\ Takes("imap", "request")
  /\ EnsureAuth(session, IF n <= Messages THEN Show("message", n) ELSE Say("no such message"))
  /\ Unchecked

\* UID with another command than FETCH
ImapUidOther ==
  /\ Takes("imap", "request")
  /\ EnsureAuth(session, Say("unrecognized"))
  /\ Unchecked

ImapNext ==
  \/ Greets("imap", "request", "after") /\ Unchecked
  \/ ImapPlain \/ ImapBadLine \/ ImapLogin \/ ImapAuthOther \/ ImapAuthPrompt \/ ImapAuthEnd
  \/ ImapList \/ ImapSelect \/ ImapUidOther \/ (\E n \in Numbers : ImapFetch(n)) \/ Quits("imap")

-----------------------------------------------------------------------------
MailNext == SmtpNext \/ Pop3Next \/ ImapNext
=============================================================================
