------------------------------- MODULE Orders -------------------------------
(***************************************************************************)
(* The orders of the account ledger: what an operation of the auth API has *)
(* been granted and has not carried out yet.  An order names the rows it   *)
(* was granted for, so that nobody can carry out more than was granted.    *)
(***************************************************************************)

ToMail(e, purpose) == [op |-> "mail", email |-> e, purpose |-> purpose]
ToOpen(e)          == [op |-> "open", email |-> e]
ToRotate(s)        == [op |-> "rotate", session |-> s]
ToRetire(s)        == [op |-> "retire", session |-> s]
ToVerify(l)        == [op |-> "verify", link |-> l]

(* A reset names the sessions there were when it was asked for; it is       *)
(* Presented before its link has been looked at.                            *)
Presented(l, p, known) == [op |-> "present", link |-> l, password |-> p, known |-> known]
ToReset(l, p, known)   == [op |-> "reset", link |-> l, password |-> p, known |-> known]
=============================================================================
