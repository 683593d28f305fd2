--------------------------- MODULE AccountLedger ---------------------------
(***************************************************************************)
(* What the auth API promises of its tables, without statements and locks: *)
(* accounts, sessions and mailed tokens change by one whole operation at a *)
(* time.  The docstrings of src/auth/service.py, one per operation, are    *)
(* what this module states; Auth, statement by statement, implements it.   *)
(*                                                                         *)
(* A clerk, who works for one client at a time, takes an order only after  *)
(* the check the docstring names, and carries it out whole and once, or    *)
(* drops it.  There is no other way to a session, to the revoking of one,  *)
(* to a consumed link or to a new password.  Between check and write       *)
(* another clerk may have used up the same session or link: the order is   *)
(* carried out all the same, as the code does, which looks once.           *)
(***************************************************************************)
EXTENDS Orders

CONSTANTS
  Clerks,
  Emails,     \* normalized addresses
  Identities, \* Google subjects
  Secrets,    \* passwords
  SessionIds,
  LinkIds,    \* mailed tokens
  None

VARIABLES
  account,  \* Emails -> [password, verified] or None
  google,   \* set of <<subject, email>>: Google logins that are linked
  session,  \* SessionIds -> [email, revoked, expired] or None
  link,     \* LinkIds -> [email, purpose, used, expired] or None
  order     \* Clerks -> the order taken and not carried out yet, or None

vars == <<account, google, session, link, order>>

Take(c, o)   == order' = [order EXCEPT ![c] = o]
Carry(c, op) == order[c].op = op /\ order' = [order EXCEPT ![c] = None]

Known   == {s \in SessionIds : session[s] # None}
Good(s) == s \in Known /\ ~session[s].revoked /\ ~session[s].expired
Unspent(l, purpose) ==
  link[l] # None /\ link[l].purpose = purpose /\ ~link[l].used /\ ~link[l].expired

NewSession(e) == [email |-> e, revoked |-> FALSE, expired |-> FALSE]
Revoked(s)    == [session[s] EXCEPT !.revoked = TRUE]
Used(l)       == [link[l] EXCEPT !.used = TRUE]

-----------------------------------------------------------------------------
(* Accounts *)

(* create_user: a new address gets an account, not verified, and its        *)
(* verification link is on order.                                           *)
SignUp(c, e, p) ==
  /\ account[e] = None
  /\ Take(c, ToMail(e, "email_verify"))
  /\ account' = [account EXCEPT ![e] = [password |-> p, verified |-> FALSE]]
  /\ UNCHANGED <<google, session, link>>

(* authenticate: the password of a verified account. *)
LogIn(c, e, p) ==
  /\ account[e] # None
  /\ account[e].password = p
  /\ account[e].verified
  /\ Take(c, ToOpen(e))
  /\ UNCHANGED <<account, google, session, link>>

(* link_or_create_google_user, path 1: the subject is linked. *)
GoogleLogIn(c, e, s) ==
  /\ <<s, e>> \in google
  /\ Take(c, ToOpen(e))
  /\ UNCHANGED <<account, google, session, link>>

Linkable(s, e) == \A g \in google : g[1] # s /\ g[2] # e

(* Path 3: a verified account without password. *)
GoogleSignUp(c, e, s) ==
  /\ account[e] = None
  /\ Linkable(s, e)
  /\ Take(c, ToOpen(e))
  /\ account' = [account EXCEPT ![e] = [password |-> None, verified |-> TRUE]]
  /\ google' = google \cup {<<s, e>>}
  /\ UNCHANGED <<session, link>>

(* Path 2: a known account is linked and verified; its password stays.      *)
GoogleLink(c, e, s) ==
  /\ account[e] # None
  /\ Linkable(s, e)
  /\ Take(c, ToOpen(e))
  /\ account' = [account EXCEPT ![e].verified = TRUE]
  /\ google' = google \cup {<<s, e>>}
  /\ UNCHANGED <<session, link>>

-----------------------------------------------------------------------------
(* Sessions *)

(* issue_refresh_token *)
Open(c, s) ==
  LET e == order[c].email IN
  /\ Carry(c, "open")
  /\ account[e] # None
  /\ account[e].verified
  /\ session[s] = None
  /\ session' = [session EXCEPT ![s] = NewSession(e)]
  /\ UNCHANGED <<account, google, link>>

(* verify_refresh_token: "missing, revoked, or expired" is refused. *)
Present(c, s) ==
  /\ Good(s)
  /\ Take(c, ToRotate(s))
  /\ UNCHANGED <<account, google, session, link>>

(* rotate_refresh_token: "the revoke and the new insert commit together".   *)
Rotate(c, s) ==
  LET old == order[c].session IN
  /\ Carry(c, "rotate")
  /\ session[s] = None
  /\ session' = [session EXCEPT
       ![old] = Revoked(old), ![s] = NewSession(session[old].email)]
  /\ UNCHANGED <<account, google, link>>

(* POST /logout: silent about a session that has ended already. *)
AskLogout(c, s) ==
  /\ s \in Known
  /\ Take(c, ToRetire(s))
  /\ UNCHANGED <<account, google, session, link>>

(* revoke_refresh_token *)
Retire(c) ==
  LET s == order[c].session IN
  /\ Carry(c, "retire")
  /\ session' = [session EXCEPT ![s] = Revoked(s)]
  /\ UNCHANGED <<account, google, link>>

(* expires_at of a session goes by: it is not revoked by that. *)
Expire(s) ==
  /\ s \in Known
  /\ session' = [session EXCEPT ![s].expired = TRUE]
  /\ UNCHANGED <<account, google, link, order>>

-----------------------------------------------------------------------------
(* Mailed links *)

(* request_email_verification, for an account that is not verified yet, and *)
(* request_password_reset, for any.                                         *)
Ask(c, e, purpose) ==
  /\ account[e] # None
  /\ purpose = "email_verify" => ~account[e].verified
  /\ Take(c, ToMail(e, purpose))
  /\ UNCHANGED <<account, google, session, link>>

Mail(c, l) ==
  /\ Carry(c, "mail")
  /\ link[l] = None
  /\ link' = [link EXCEPT ![l] = [email |-> order[c].email, purpose |-> order[c].purpose,
                                  used |-> FALSE, expired |-> FALSE]]
  /\ UNCHANGED <<account, google, session>>

(* _consume_token in verify_email: "missing, expired, or used" is refused.  *)
Redeem(c, l) ==
  /\ Unspent(l, "email_verify")
  /\ Take(c, ToVerify(l))
  /\ UNCHANGED <<account, google, session, link>>

(* verify_email: the link's account is verified and the link is used, at    *)
(* once, and nothing else of the account changes.                           *)
Verify(c) ==
  LET l == order[c].link IN
  /\ Carry(c, "verify")
  /\ account' = [account EXCEPT ![link[l].email].verified = TRUE]
  /\ link' = [link EXCEPT ![l] = Used(l)]
  /\ UNCHANGED <<google, session>>

(* POST /reset-password arrives, and _consume_token accepts its link. *)
AskReset(c, l, p) ==
  /\ Take(c, Presented(l, p, Known))
  /\ UNCHANGED <<account, google, session, link>>
Accept(c) ==
  LET o == order[c] IN
  /\ o.op = "present"
  /\ Unspent(o.link, "password_reset")
  /\ order' = [order EXCEPT ![c] = ToReset(o.link, o.password, o.known)]
  /\ UNCHANGED <<account, google, session, link>>

(* reset_password, "revoke all sessions": the password changes, the link is *)
(* used and the sessions of the account are revoked, all at once.  Sessions *)
(* that were opened since the reset was asked for may be left out, and no   *)
(* others.                                                                  *)
Reset(c, ended) ==
  LET l == order[c].link
      mine == {s \in Known : session[s].email = link[l].email}
  IN
  /\ Carry(c, "reset")
  /\ mine \cap order[c].known \subseteq ended
  /\ ended \subseteq mine
  /\ account' = [account EXCEPT ![link[l].email].password = order[c].password]
  /\ link' = [link EXCEPT ![l] = Used(l)]
  /\ session' = [s \in SessionIds |-> IF s \in ended THEN Revoked(s) ELSE session[s]]
  /\ UNCHANGED google

(* expires_at of a mailed token goes by: it is not used by that. *)
Lapse(l) ==
  /\ link[l] # None
  /\ link' = [link EXCEPT ![l].expired = TRUE]
  /\ UNCHANGED <<account, google, session, order>>

-----------------------------------------------------------------------------

(* The request is refused or dies: nothing of its order has happened. *)
Drop(c) ==
  /\ order' = [order EXCEPT ![c] = None]
  /\ UNCHANGED <<account, google, session, link>>

Init ==
  /\ account \in [Emails -> {None} \cup [password : Secrets, verified : {TRUE}]]
  /\ google = {}
  /\ session = [s \in SessionIds |-> None]
  /\ link = [l \in LinkIds |-> None]
  /\ order = [c \in Clerks |-> None]

(* Nothing that the ledger shows. *)
Rest == UNCHANGED vars

(* A clerk without an order takes one; a clerk that has one carries it out  *)
(* or drops it.                                                             *)
Taking(c) ==
  /\ order[c] = None
  /\ order'[c] # None
  /\ \/ \E e \in Emails :
          \/ \E p \in Secrets : SignUp(c, e, p) \/ LogIn(c, e, p)
          \/ \E s \in Identities :
               GoogleLogIn(c, e, s) \/ GoogleSignUp(c, e, s) \/ GoogleLink(c, e, s)
          \/ \E purpose \in {"email_verify", "password_reset"} : Ask(c, e, purpose)
     \/ \E s \in SessionIds : Present(c, s) \/ AskLogout(c, s)
     \/ \E l \in LinkIds : Redeem(c, l) \/ \E p \in Secrets : AskReset(c, l, p)
Carrying(c) ==
  /\ order[c] # None
  /\ \/ Drop(c)
     \/ \E s \in SessionIds : Open(c, s) \/ Rotate(c, s)
     \/ Retire(c)
     \/ \E l \in LinkIds : Mail(c, l)
     \/ Verify(c)
     \/ Accept(c)
     \/ \E ended \in SUBSET SessionIds : Reset(c, ended)

Next ==
  \/ Rest
  \/ \E c \in Clerks : Taking(c) \/ Carrying(c)
  \/ \E s \in SessionIds : Expire(s)
  \/ \E l \in LinkIds : Lapse(l)

Spec == Init /\ [][Next]_vars
=============================================================================
