------------------------------ MODULE AccessGate ------------------------------
(***************************************************************************)
(* What a simulated service owes to the rule it plays, whatever its        *)
(* protocol: nothing that needs a login is shown before one.               *)
(*                                                                         *)
(* The gate of a connection is open from the start when the rule asks for  *)
(* no login.  Otherwise it opens with a credential check that succeeds and *)
(* by nothing else.  It may be shut again at any time.                     *)
(***************************************************************************)
VARIABLES
  required,  \* the rule asks for a login
  open,      \* the client may be shown what needs a login
  checked,   \* outcome of the last credential check: none, invalid, valid
  shown      \* the last answer is one that needs a login

gateVars == <<required, open, checked, shown>>

Init ==
  /\ required \in BOOLEAN
  /\ open = ~required
  /\ checked = "none"
  /\ shown = FALSE

\* Credentials are compared; only the right ones open the gate.
Check(ok) ==
  /\ checked' = IF ok THEN "valid" ELSE "invalid"
  /\ open' \in BOOLEAN /\ (open' => ok \/ open)
  /\ shown' = FALSE
  /\ UNCHANGED required

\* An answer that needs the gate to be open, and that may be the last one: the
\* mail of a sender whose login was lost meanwhile.
Show ==
  /\ open /\ open' \in BOOLEAN /\ shown' = TRUE
  /\ UNCHANGED <<required, checked>>

\* Any other step, which may shut the gate.
Other ==
  /\ shown' = FALSE
  /\ open' \in BOOLEAN /\ (open' => open)
  /\ UNCHANGED <<required, checked>>

Next == (\E ok \in BOOLEAN : Check(ok)) \/ Show \/ Other

Spec == Init /\ [][Next]_gateVars
=============================================================================
