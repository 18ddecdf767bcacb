---------------------------- MODULE FailFastGroup ----------------------------
(***************************************************************************)
(* What an engine owes to the Agent that runs it: its endpoints run and    *)
(* end together, and the exit code says why.                               *)
(*                                                                         *)
(* Members join while the group forms.  They leave of their own accord     *)
(* only after the group was asked to stop; a member that is lost without   *)
(* that is a fault.  A group that was asked or has a fault comes to its    *)
(* end: well when it was asked and nothing failed, badly only for a fault. *)
(***************************************************************************)
VARIABLES
  live,    \* the members that run
  asked,   \* the group was asked to stop
  fault,   \* it could not form, or a member failed
  result   \* "none" while it runs, then ok, error, or killed

groupVars == <<live, asked, fault, result>>

Init ==
  /\ live = {}
  /\ asked = FALSE /\ fault = FALSE
  /\ result = "none"

Join ==
  /\ result = "none" /\ ~asked
  /\ live \subseteq live' /\ live # live'
  /\ UNCHANGED <<asked, fault, result>>

Ask ==
  /\ result = "none" /\ ~asked
  /\ asked' = TRUE
  /\ UNCHANGED <<live, fault, result>>

\* A member is lost.
Lose ==
  /\ result = "none"
  /\ live' \subseteq live /\ live # live'
  /\ fault' = TRUE
  /\ UNCHANGED <<asked, result>>

\* A member leaves as it was asked to.
Leave ==
  /\ result = "none" /\ asked
  /\ live' \subseteq live /\ live # live'
  /\ UNCHANGED <<asked, fault, result>>

EndWell ==
  /\ result = "none" /\ asked /\ ~fault
  /\ result' = "ok"
  /\ UNCHANGED <<live, asked, fault>>

\* It ends for a fault, of a member or in forming, known before or only now.
EndBadly ==
  /\ result = "none"
  /\ result' = "error" /\ fault' = TRUE
  /\ fault \/ ~asked
  /\ UNCHANGED <<live, asked>>

Killed ==
  /\ result = "none" /\ ~asked
  /\ result' = "killed"
  /\ UNCHANGED <<live, asked, fault>>

Next == Join \/ Ask \/ Lose \/ Leave \/ EndWell \/ EndBadly \/ Killed

Spec == Init /\ [][Next]_groupVars

\* Asked or broken, the group ends.
Ends == (asked \/ fault) ~> result # "none"
=============================================================================
