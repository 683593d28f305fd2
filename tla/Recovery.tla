------------------------------ MODULE Recovery ------------------------------
(***************************************************************************)
(* An unverified account whose mails may be lost, and its user who asks    *)
(* for another link until one arrives: POST /verify-email/request behind   *)
(* its rate limit (EMAIL_REQUEST_RATE_LIMIT), the background mail, the     *)
(* links that expire, and POST /verify-email.                              *)
(*                                                                         *)
(* Requests are whole here (AuthLedger shows that they may be), so that    *)
(* tokens can be used again once they are spent and the user can go on     *)
(* for ever.                                                               *)
(***************************************************************************)
EXTENDS RateLimit

CONSTANT Tokens

VARIABLES
  token,     \* what has become of each token and of its mail
  verified,  \* the account's is_email_verified
  asked      \* whether the user has asked since the last tick

vars == <<limitVars, token, verified, asked>>

Spent == "spent"    \* used or expired: may stand for a new token
Queued == "queued"  \* committed, its mail is the background task's
Mailed == "mailed"  \* the user has the link
Lost == "lost"      \* _safe_send_email gave up
Outstanding == {Queued, Mailed, Lost}

(* resend_verification: the limiter first, then a token if there is an      *)
(* unverified account.  A bound of the model: when all of Tokens are        *)
(* outstanding, one more is not followed; it could only help the user.      *)
WantsMail == ~verified
(* Mutant: the token is committed and no mail is queued for it.           *)
NewTokenUnmailed ==
  \/ token' = token
  \/ \E k \in Tokens : token[k] = Spent /\ token' = [token EXCEPT ![k] = Lost]
NewToken ==
  LET free == {k \in Tokens : token[k] = Spent} IN
  IF free = {} THEN UNCHANGED token
  ELSE \E k \in free : token' = [token EXCEPT ![k] = Queued]
resend_verification(s) ==
  /\ Serve(s)
  /\ IF WantsMail THEN NewToken ELSE UNCHANGED token
  /\ UNCHANGED verified

Ask ==
  /\ \/ \E s \in Stores : resend_verification(s)
     \/ (\E s \in Stores : Refuse(s)) /\ UNCHANGED <<token, verified>>
  /\ asked' = TRUE

(* _safe_send_email, after the response.                                    *)
DeliverMail(k) ==
  /\ token[k] = Queued
  /\ token' = [token EXCEPT ![k] = Mailed]
  /\ UNCHANGED <<limitVars, verified, asked>>
LoseMail(k) ==
  /\ token[k] = Queued
  /\ token' = [token EXCEPT ![k] = Lost]
  /\ UNCHANGED <<limitVars, verified, asked>>

verify_email(k) ==
  /\ token[k] = Mailed
  /\ token' = [token EXCEPT ![k] = Spent]
  /\ verified' = TRUE
  /\ UNCHANGED <<limitVars, asked>>

ExpireToken(k) ==
  /\ token[k] \in Outstanding
  /\ token' = [token EXCEPT ![k] = Spent]
  /\ UNCHANGED <<limitVars, verified, asked>>

(* The user gives up only when the account is verified.                     *)
Persevering ==
  /\ asked \/ verified
  /\ Tick
  /\ asked' = FALSE
  /\ UNCHANGED <<token, verified>>

(* A restart drops the worker's counters and the mails still queued in it.  *)
RestartWorker(s) ==
  /\ Restart(s)
  /\ \E gone \in SUBSET {k \in Tokens : token[k] = Queued} :
       token' = [k \in Tokens |-> IF k \in gone THEN Lost ELSE token[k]]
  /\ UNCHANGED <<verified, asked>>

Init ==
  /\ LimitInit
  /\ token = [k \in Tokens |-> Spent]
  /\ verified = FALSE
  /\ asked = FALSE

Next ==
  \/ Ask
  \/ Persevering
  \/ \E s \in Stores : RestartWorker(s)
  \/ \E k \in Tokens :
       DeliverMail(k) \/ LoseMail(k) \/ verify_email(k) \/ ExpireToken(k)

(* Time goes on and tokens expire; the user asks at least once a tick; not  *)
(* every mail is lost, nor every link left until it expires.                *)
Fairness ==
  /\ WF_vars(Persevering)
  /\ WF_vars(Ask)
  /\ \A k \in Tokens : WF_vars(ExpireToken(k))
  /\ SF_vars(\E k \in Tokens : DeliverMail(k))
  /\ SF_vars(\E k \in Tokens : verify_email(k))

Spec == Init /\ [][Next]_vars /\ Fairness

(* "A failed delivery is recoverable via /verify-email/request": however    *)
(* many mails are lost or too late, and however often the limiter refuses,  *)
(* a user who goes on asking is verified in the end.                        *)
VerifiedInTheEnd == <>verified
=============================================================================
