---------------------------- MODULE LedgerProofs ----------------------------
(***************************************************************************)
(* Proofs that Provenance is invariant and that Auth implements the        *)
(* account ledger, for every number of requests, accounts and tokens.      *)
(*                                                                         *)
(* IInv and Rely come from AuthProofs; every lemma here takes one step     *)
(* that keeps them and shows what it does to the ledger.                   *)
(***************************************************************************)
EXTENDS AuthLedger, AuthProofs

(* What one step does to the passwords: the formula of                      *)
(* PasswordNeedsResetToken.                                                 *)
PasswordStep ==
  \A a \in Addresses :
    users[a] # None /\ users'[a].password_hash # users[a].password_hash =>
      \E t \in inbox : LET v == verification_tokens[t] IN
        /\ v.user_id = a
        /\ v.purpose = "password_reset"
        /\ verification_tokens'[t].uses = v.uses + 1

LedgerStep == [Ledger!Next]_(Ledger!vars)

(* What a request may count on beyond Rely: mail and links stay, a password *)
(* is still the one of the reset that set it, or a later one's, and an      *)
(* account that has a password keeps having one.                            *)
RelyMore ==
  /\ inbox \subseteq inbox'
  /\ auth_providers \subseteq auth_providers'
  /\ \A a \in Addresses : users[a] # None =>
       /\ users'[a].resets >= users[a].resets
       /\ users'[a].resets = users[a].resets =>
            users'[a].password_hash = users[a].password_hash
       /\ users[a].password_hash # None => users'[a].password_hash # None

(* The part of Provenance that is about rows alone. *)
RowProof ==
  OneAccountPerMailbox /\ ProvidersUnique /\ VerifiedByToken /\ VerifiedNeedsProof

USE DEF RefreshIds, TokenIds

-----------------------------------------------------------------------------
(* What survives the steps of others *)

LEMMA ProofStable ==
  ASSUME IInv, IInv', Rely, RelyMore,
         NEW q \in Requests, RequestProof(q),
         pc'[q] = pc[q], call'[q] = call[q], loc'[q] = loc[q], locks'[q] = locks[q]
  PROVE  RequestProof(q)'
<1>0. /\ TypeOK /\ RequestOK(q)
      /\ \A e, s : Answered(q, e, s)' <=> Answered(q, e, s)
  BY DEF IInv, Answered
<1>1. TokenProof(q)'
  <2>1. TokenProof(q) BY DEF RequestProof
  <2>2. pc[q] \in Consuming =>
          /\ call[q].cred \in TokenRows
          /\ loc[q].user \in Addresses
          /\ users[loc[q].user] # None
    BY <1>0 DEF RequestOK, CallOK, LocalsOK, KnowsUser, Consuming, EndpointsAt
  <2>. QED BY <2>1, <2>2 DEF TokenProof, Rely, RelyMore, TokenRows, Consuming
<1>2. LockProof(q)'
  <2>1. LockProof(q) BY DEF RequestProof
  <2>2. \A u : SessionsOf(u) \subseteq SessionsOf(u)'
    BY DEF SessionsOf, Sessions, Rely
  <2>. QED BY <2>1, <2>2 DEF LockProof
<1>3. GoogleProof(q)'
  <2>1. GoogleProof(q) BY DEF RequestProof
  <2>. QED BY <2>1, <1>0 DEF GoogleProof, RelyMore
<1>4. PasswordProof(q)'
  <2>1. PasswordProof(q) BY DEF RequestProof
  <2>2. CASE ~Answered(q, "reset", "ok")
    BY <2>2, <1>0 DEF PasswordProof
  <2>3. CASE Answered(q, "reset", "ok")
    <3> DEFINE u == loc[q].user
    <3>1. /\ u \in Addresses /\ users[u] # None
          /\ users[u].resets >= loc[q].era
          /\ users[u].resets = loc[q].era => users[u].password_hash = call[q].password
      BY <2>1, <2>3 DEF PasswordProof
    <3>2. /\ users'[u] # None
          /\ users'[u].resets >= users[u].resets
          /\ users'[u].resets = users[u].resets =>
               users'[u].password_hash = users[u].password_hash
      BY <3>1 DEF Rely, RelyMore
    <3>3. users[u] \in User /\ users'[u] \in User /\ loc[q] \in Locals
      BY <3>1, <3>2 DEF IInv, TypeOK
    <3>4. users[u].resets \in Nat /\ users'[u].resets \in Nat /\ loc[q].era \in Nat
      BY <3>3 DEF User, Locals
    <3>. QED BY <3>1, <3>2, <3>4 DEF PasswordProof
  <2>. QED BY <2>2, <2>3
<1>. QED BY <1>1, <1>2, <1>3, <1>4 DEF RequestProof

LEMMA OthersProof ==
  ASSUME IInv, IInv', Rely, RelyMore, Provenance, RowProof',
         NEW r \in Requests, Alone(r), RequestProof(r)'
  PROVE  Provenance'
<1>1. \A q \in Requests \ {r} : RequestProof(q)'
  BY ProofStable DEF Alone, Provenance
<1>. QED BY <1>1 DEF Provenance, RowProof

(* A step that keeps the passwords of the accounts there are. *)
LEMMA SamePasswords ==
  ASSUME IInv, IInv', Rely, inbox \subseteq inbox', auth_providers \subseteq auth_providers',
         \A a \in Addresses : users[a] # None =>
           /\ users'[a].password_hash = users[a].password_hash
           /\ users'[a].resets = users[a].resets
  PROVE  RelyMore /\ PasswordStep
<1>1. \A a \in Addresses : users[a] # None => users[a].resets \in Nat
  BY DEF IInv, TypeOK, User
<1>. QED BY <1>1 DEF RelyMore, PasswordStep

(* A verified account keeps what proved it. *)
LEMMA ProofKept ==
  ASSUME IInv, Rely, VerifiedNeedsProof,
         inbox \subseteq inbox', auth_providers \subseteq auth_providers',
         NEW a \in Addresses \ Registered, users[a] # None, users[a].is_email_verified
  PROVE  \/ \E t \in inbox' : LET v == verification_tokens'[t] IN
              v.user_id = a /\ v.purpose = "email_verify" /\ v.used
         \/ \E p \in auth_providers' : p.user_id = a /\ p.provider = "google"
<1>1. inbox \subseteq TokenRows BY DEF IInv, References
<1>2. CASE \E t \in inbox : LET v == verification_tokens[t] IN
             v.user_id = a /\ v.purpose = "email_verify" /\ v.used
  BY <1>1, <1>2 DEF Rely
<1>3. CASE \E p \in auth_providers : p.user_id = a /\ p.provider = "google"
  BY <1>3
<1>. QED BY <1>2, <1>3 DEF VerifiedNeedsProof

(* A step that consumes no verification token keeps its accounts verified.  *)
LEMMA TokensKept ==
  ASSUME IInv, Rely, VerifiedByToken,
         \A t \in TokenRows' :
           verification_tokens'[t].purpose = "email_verify" /\ verification_tokens'[t].used
             => t \in TokenRows /\ verification_tokens[t].used
  PROVE  VerifiedByToken'
<1>1. \A t \in TokenRows :
        /\ verification_tokens[t].user_id \in Addresses
        /\ users[verification_tokens[t].user_id] # None
  BY DEF IInv, TypeOK, References, VerificationToken, TokenRows
<1>. QED BY <1>1 DEF VerifiedByToken, Rely

(* A step that makes no account, verifies none, links none and consumes no  *)
(* verification token.                                                      *)
LEMMA RowsKept ==
  ASSUME IInv, Rely, Provenance, inbox \subseteq inbox', UNCHANGED auth_providers,
         \A a \in Addresses : users'[a] # None =>
           /\ users[a] # None
           /\ users'[a].is_email_verified = users[a].is_email_verified,
         \A t \in TokenRows' :
           verification_tokens'[t].purpose = "email_verify" /\ verification_tokens'[t].used
             => t \in TokenRows /\ verification_tokens[t].used
  PROVE  RowProof'
<1>1. OneAccountPerMailbox' BY DEF Provenance, OneAccountPerMailbox
<1>2. ProvidersUnique' BY DEF Provenance, ProvidersUnique
<1>3. VerifiedByToken' BY TokensKept DEF Provenance
<1>4. VerifiedNeedsProof' BY ProofKept DEF Provenance, VerifiedNeedsProof
<1>. QED BY <1>1, <1>2, <1>3, <1>4 DEF RowProof

-----------------------------------------------------------------------------
(* What a write of one row shows in the ledger *)

AccountMap == [a \in Addresses |-> AccountOf(a)]
SessionMap == [k \in RefreshIds |-> SessionOf(k)]
LinkMap == [t \in TokenIds |-> LinkOf(t)]
OrderMap == [r \in Requests |-> OrderOf(r)]

TablesStay == UNCHANGED <<AccountMap, LinksOf, SessionMap, LinkMap>>

LEMMA AccountsShown ==
  /\ UNCHANGED users => UNCHANGED AccountMap
  /\ \A a \in Addresses :
       (\A b \in Addresses \ {a} : users'[b] = users[b]) =>
          AccountMap' = [AccountMap EXCEPT ![a] = AccountOf(a)']
BY DEF AccountMap, AccountOf

LEMMA SessionsShown ==
  /\ UNCHANGED refresh_tokens => UNCHANGED SessionMap
  /\ \A k \in RefreshIds :
       (\A j \in RefreshIds \ {k} : refresh_tokens'[j] = refresh_tokens[j]) =>
          SessionMap' = [SessionMap EXCEPT ![k] = SessionOf(k)']
BY ZenonT(40) DEF SessionMap, SessionOf

LEMMA LinksShown ==
  /\ UNCHANGED verification_tokens => UNCHANGED LinkMap
  /\ \A t \in TokenIds :
       (\A j \in TokenIds \ {t} : verification_tokens'[j] = verification_tokens[j]) =>
          LinkMap' = [LinkMap EXCEPT ![t] = LinkOf(t)']
BY DEF LinkMap, LinkOf

LEMMA GoogleShown ==
  /\ UNCHANGED auth_providers => UNCHANGED LinksOf
  /\ \A a : auth_providers' = auth_providers \cup {PasswordProvider(a)} => UNCHANGED LinksOf
  /\ \A a, s : auth_providers' = auth_providers \cup {GoogleProvider(a, s)} =>
                 LinksOf' = LinksOf \cup {<<s, a>>}
<1> DEFINE Google(ps) == {q \in ps : q.provider = "google"}
           Shown(ps)  == {<<p.provider_user_id, p.user_id>> : p \in Google(ps)}
<1>1. LinksOf = Shown(auth_providers) /\ LinksOf' = Shown(auth_providers')
  BY DEF LinksOf
<1>2. ASSUME NEW a, auth_providers' = auth_providers \cup {PasswordProvider(a)}
      PROVE  UNCHANGED LinksOf
  <2>1. PasswordProvider(a).provider = "password" BY DEF PasswordProvider
  <2>2. Google(auth_providers') = Google(auth_providers) BY <1>2, <2>1
  <2>. QED BY <1>1, <2>2
<1>3. ASSUME NEW a, NEW s, auth_providers' = auth_providers \cup {GoogleProvider(a, s)}
      PROVE  LinksOf' = LinksOf \cup {<<s, a>>}
  <2> DEFINE g == GoogleProvider(a, s)
  <2>1. g.provider = "google" /\ <<g.provider_user_id, g.user_id>> = <<s, a>>
    BY DEF GoogleProvider
  <2>2. Google(auth_providers') = Google(auth_providers) \cup {g} BY <1>3, <2>1
  <2>3. Shown(auth_providers') = Shown(auth_providers) \cup {<<s, a>>}
    <3> HIDE DEF g, Google
    <3>. QED BY <2>1, <2>2
  <2>. QED BY <1>1, <2>3
<1>. QED BY <1>1, <1>2, <1>3

(* A row shows in the ledger exactly where there is one in the tables. *)
LEMMA RowsShown ==
  ASSUME TypeOK
  PROVE  /\ \A a \in Addresses : users[a] # None =>
              /\ AccountOf(a) # None
              /\ AccountOf(a).verified = users[a].is_email_verified
              /\ AccountOf(a).password = users[a].password_hash
         /\ \A k \in RefreshIds : refresh_tokens[k] # None =>
              /\ SessionOf(k) # None
              /\ SessionOf(k).email = refresh_tokens[k].user_id
              /\ SessionOf(k).revoked = refresh_tokens[k].is_revoked
              /\ SessionOf(k).expired = refresh_tokens[k].expired
         /\ \A t \in TokenIds : verification_tokens[t] # None =>
              /\ LinkOf(t) # None
              /\ LinkOf(t).email = verification_tokens[t].user_id
              /\ LinkOf(t).purpose = verification_tokens[t].purpose
              /\ LinkOf(t).used = verification_tokens[t].used
              /\ LinkOf(t).expired = verification_tokens[t].expired
<1>1. \A a \in Addresses : users[a] # None =>
        AccountOf(a) \in [password : Passwords \cup {None}, verified : BOOLEAN]
  BY DEF AccountOf, TypeOK, User
<1>2. \A k \in RefreshIds : refresh_tokens[k] # None =>
        SessionOf(k) \in [email : Addresses, revoked : BOOLEAN, expired : BOOLEAN]
  BY DEF SessionOf, TypeOK, RefreshToken
<1>3. \A t \in TokenIds : verification_tokens[t] # None =>
        LinkOf(t) \in [email : Addresses, purpose : {"email_verify", "password_reset"},
                       used : BOOLEAN, expired : BOOLEAN]
  BY DEF LinkOf, TypeOK, VerificationToken
<1>. QED BY <1>1, <1>2, <1>3, LedgerNone DEF AccountOf, SessionOf, LinkOf

LEMMA KnownShown == TypeOK => Ledger!Known = Sessions
BY RowsShown DEF Ledger!Known, Sessions, SessionOf

-----------------------------------------------------------------------------
(* What a step of one request does to the orders *)

OrderMoves(r) == OrderMap' = [OrderMap EXCEPT ![r] = OrderOf(r)']

LEMMA Moving == ASSUME NEW r \in Requests, Alone(r) PROVE OrderMoves(r)
BY DEF Alone, OrderMoves, OrderMap, OrderOf

(* The order a request has by the statement it runs next. *)
LEMMA OrderNames ==
  \A c, l :
    /\ \A s \in {"idle", "respond", "insert_user", "select_user", "select_user_mail",
                  "select_provider", "select_email", "link", "create_google",
                  "select_refresh"} : OrderAt(s, c, l) = None
    /\ OrderAt("insert_token", c, l) = ToMail(l.user, PurposeOf(c.endpoint))
    /\ OrderAt("issue", c, l) = ToOpen(l.user)
    /\ OrderAt("revoke_old", c, l) = ToRotate(c.cred)
    /\ OrderAt("commit_rotation", c, l) = ToRotate(c.cred)
    /\ c.cred = None => OrderAt("revoke", c, l) = None
    /\ c.cred # None => OrderAt("revoke", c, l) = ToRetire(c.cred)
    /\ c.endpoint = "verify_email" =>
         /\ OrderAt("select_token", c, l) = None
         /\ OrderAt("select_owner", c, l) = ToVerify(c.cred)
         /\ OrderAt("commit_verify", c, l) = ToVerify(c.cred)
    /\ c.endpoint = "reset" =>
         /\ OrderAt("select_token", c, l) = Presented(c.cred, c.password, c.seen)
         /\ \A s \in InReset : OrderAt(s, c, l) = ToReset(c.cred, c.password, c.seen)
BY DEF OrderAt, InReset

LEMMA OrdersStay == UNCHANGED <<pc, call, loc>> => UNCHANGED OrderMap
BY DEF OrderMap, OrderOf

(* What one step of request r has to show of the ledger. *)
LedgerDone(r) == OrderMoves(r) => LedgerStep

(* The tables stay and the request keeps its order, or drops it. *)
LEMMA Keeping ==
  ASSUME NEW r \in Requests, TablesStay, OrderOf(r)' = OrderOf(r)
  PROVE  LedgerDone(r)
<1> SUFFICES ASSUME OrderMoves(r) PROVE LedgerStep
  BY DEF LedgerDone
<1>1. UNCHANGED OrderMap BY DEF OrderMoves, OrderMap
<1>. QED
  BY <1>1 DEF LedgerStep, Ledger!vars, TablesStay, AccountMap, SessionMap, LinkMap, OrderMap

LEMMA Dropping ==
  ASSUME NEW r \in Requests, TablesStay, OrderOf(r)' = None
  PROVE  LedgerDone(r)
<1>1. CASE OrderOf(r) = None BY <1>1, Keeping
<1>2. CASE OrderOf(r) # None
  <2> SUFFICES ASSUME OrderMoves(r) PROVE LedgerStep
    BY DEF LedgerDone
  <2>1. Ledger!Drop(r)
    BY DEF Ledger!Drop, OrderMoves, TablesStay, AccountMap, SessionMap, LinkMap, OrderMap
  <2>2. OrderMap[r] # None BY <1>2 DEF OrderMap
  <2>. QED BY <2>1, <2>2 DEF LedgerStep, Ledger!Next, Ledger!Carrying, OrderMap
<1>. QED BY <1>1, <1>2

(* The request takes order o, or carries its order out. *)
LEMMA TakingOrder ==
  ASSUME NEW r \in Requests, OrderMoves(r), NEW o, o # None,
         OrderOf(r) = None, OrderOf(r)' = o
  PROVE  Ledger!Take(r, o) /\ OrderMap[r] = None /\ OrderMap'[r] # None
BY DEF OrderMoves, Ledger!Take, OrderMap

LEMMA CarryingOrder ==
  ASSUME NEW r \in Requests, OrderMoves(r), NEW o, o # None,
         OrderOf(r) = o, OrderOf(r)' = None
  PROVE  Ledger!Carry(r, o.op) /\ OrderMap[r] = o /\ OrderMap[r] # None
BY DEF OrderMoves, Ledger!Carry, OrderMap

-----------------------------------------------------------------------------
(* Statements that write nothing *)

(* A step that leaves the tables and the mail that arrived alone. *)
LEMMA Unwritten ==
  ASSUME IInv, IInv', Rely, Provenance, UNCHANGED <<db, inbox>>
  PROVE  RelyMore /\ RowProof' /\ PasswordStep /\ TablesStay
<1>1. UNCHANGED <<users, auth_providers, refresh_tokens, verification_tokens, inbox>>
  BY DEF db
<1>2. RowProof'
  BY <1>1, RowsKept DEF TokenRows
<1>3. TablesStay
  BY <1>1, AccountsShown, SessionsShown, LinksShown, GoogleShown DEF TablesStay
<1>. QED BY <1>1, <1>2, <1>3, SamePasswords

(* A request past its proofs: it consumes, locks and links nothing, and has *)
(* not answered a reset or a Google login.                                  *)
LEMMA Plain ==
  ASSUME NEW r \in Requests,
         pc'[r] \notin Consuming \cup {"commit_rotation", "create_google"},
         \A k \in RefreshIds : SessionRow(k) \notin locks'[r],
         call'[r].endpoint \in {"verify_email", "reset"} => call'[r].cred \in inbox',
         pc'[r] = "issue" => call'[r].endpoint # "google",
         pc'[r] = "respond" /\ call'[r].endpoint \in {"google", "reset"}
           => loc'[r].status # "ok"
  PROVE  RequestProof(r)'
<1>1. TokenProof(r)' BY DEF TokenProof, Consuming
<1>2. LockProof(r)' BY DEF LockProof, Consuming
<1>3. GoogleProof(r)' BY DEF GoogleProof, Answered
<1>4. PasswordProof(r)' BY DEF PasswordProof, Answered
<1>. QED BY <1>1, <1>2, <1>3, <1>4 DEF RequestProof

(* What one step of request r has to show here. *)
StepProof(r) == RelyMore /\ RowProof' /\ PasswordStep /\ LedgerDone(r) /\ RequestProof(r)'

LEMMA CallProof ==
  ASSUME IInv, IInv', Rely, Provenance, NEW r \in Requests, ClientCall(r)
  PROVE  StepProof(r)
<1> DEFINE Arrived ==
      /\ pc[r] = "idle" /\ pc'[r] \in Firsts
      /\ call'[r].endpoint \in {"verify_email", "reset"} => call'[r].cred \in inbox
      /\ pc'[r] = "revoke" => call'[r].cred \in Sessions \cup {None}
      /\ pc'[r] = "select_token" =>
           \/ call'[r].endpoint = "verify_email"
           \/ /\ call'[r].endpoint = "reset" /\ call'[r].password \in Passwords
              /\ call'[r].seen = Sessions
      /\ UNCHANGED <<db, locks, inbox>>
<1>1. Arrived
  <2> USE DEF Begin, NoCall, Firsts, mail
  <2>0. /\ pc \in [Requests -> Statements]
        /\ call \in [Requests -> Call]
        /\ \A b \in Browsers : cookie[b] \in Sessions \cup {None}
    BY DEF IInv, TypeOK, References
  <2>1. CASE \E a \in Addresses, p \in Passwords : SignupCall(r, a, p)
    BY <2>0, <2>1 DEF SignupCall
  <2>2. CASE \E b \in Browsers, a \in Addresses, p \in Passwords : LoginCall(r, b, a, p)
    BY <2>0, <2>2 DEF LoginCall
  <2>3. CASE \E b \in Browsers : RefreshCall(r, b)
    BY <2>0, <2>3 DEF RefreshCall
  <2>4. CASE \E b \in Browsers : LogoutCall(r, b)
    BY <2>0, <2>4 DEF LogoutCall
  <2>5. CASE \E b \in Browsers, s \in Subs, a \in Addresses : GoogleCall(r, b, s, a)
    BY <2>0, <2>5 DEF GoogleCall
  <2>6. CASE \E a \in Addresses : ResendCall(r, a)
    BY <2>0, <2>6 DEF ResendCall
  <2>9. CASE \E a \in Addresses : ForgotCall(r, a)
    BY <2>0, <2>9 DEF ForgotCall
  <2>7. CASE \E t \in inbox : VerifyCall(r, t)
    BY <2>0, <2>7 DEF VerifyCall
  <2>8. CASE \E t \in inbox, p \in Passwords : ResetCall(r, t, p)
    BY <2>0, <2>8 DEF ResetCall
  <2>. QED
    BY <2>1, <2>2, <2>3, <2>4, <2>5, <2>6, <2>7, <2>8, <2>9 DEF ClientCall
<1>2. \A k \in RefreshIds : SessionRow(k) \notin locks'[r]
  BY <1>1 DEF Provenance, RequestProof, LockProof
<1>3. RequestProof(r)'
  BY <1>1, <1>2, Plain DEF Firsts, Consuming
<1>4. RelyMore /\ RowProof' /\ PasswordStep /\ TablesStay
  BY <1>1, Unwritten
<1>5. LedgerDone(r)
  <2> SUFFICES ASSUME OrderMoves(r) PROVE LedgerStep
    BY DEF LedgerDone
  <2>1. OrderOf(r) = None BY <1>1, OrderNames DEF OrderOf
  <2>2. CASE pc'[r] = "revoke" /\ call'[r].cred # None
    <3>1. PICK k \in Sessions : k = call'[r].cred BY <1>1, <2>2
    <3>2. OrderOf(r)' = ToRetire(k) /\ ToRetire(k) # None /\ k \in RefreshIds
      BY <2>2, <3>1, OrderNames, LedgerNone DEF OrderOf, Sessions
    <3>3. Ledger!AskLogout(r, k)
      BY <1>4, <2>1, <3>2, TakingOrder, KnownShown
      DEF Ledger!AskLogout, Ledger!ToRetire, ToRetire, TablesStay, AccountMap, SessionMap,
          LinkMap, IInv
    <3>. QED
      BY <2>1, <3>2, <3>3, TakingOrder DEF LedgerStep, Ledger!Next, Ledger!Taking, OrderMap
  <2>3. CASE pc'[r] = "select_token" /\ call'[r].endpoint = "reset"
    <3>1. PICK t \in TokenIds, p \in Passwords :
            t = call'[r].cred /\ p = call'[r].password
      <4>1. call'[r].cred \in TokenRows' BY <2>3 DEF IInv, RequestOK, CallOK
      <4>2. call'[r].password \in Passwords BY <1>1, <2>3
      <4>. QED BY <4>1, <4>2 DEF TokenRows
    <3> DEFINE o == Presented(t, p, Sessions)
    <3>2. OrderOf(r)' = o /\ o # None
      <4>1. call'[r].seen = Sessions /\ Sessions \in SUBSET RefreshIds
        BY <1>1, <2>3 DEF Sessions
      <4>. QED BY <1>1, <2>3, <3>1, <4>1, OrderNames, LedgerNone DEF OrderOf
    <3>3. Ledger!AskReset(r, t, p)
      BY <1>4, <2>1, <3>2, TakingOrder, KnownShown
      DEF Ledger!AskReset, Ledger!Presented, Presented, TablesStay, AccountMap, SessionMap,
          LinkMap, IInv
    <3>. QED
      BY <2>1, <3>2, <3>3, TakingOrder DEF LedgerStep, Ledger!Next, Ledger!Taking, OrderMap
  <2>4. CASE \/ pc'[r] \notin {"revoke", "select_token"}
             \/ pc'[r] = "revoke" /\ call'[r].cred = None
             \/ pc'[r] = "select_token" /\ call'[r].endpoint = "verify_email"
    <3>1. OrderOf(r)' = None BY <1>1, <2>4, OrderNames DEF OrderOf, Firsts
    <3>. QED BY <1>4, <3>1, Dropping DEF LedgerDone
  <2>. QED BY <1>1, <2>2, <2>3, <2>4
<1>. QED BY <1>3, <1>4, <1>5 DEF StepProof

LEMMA EndProof ==
  ASSUME IInv, IInv', Rely, Provenance, NEW r \in Requests,
         Respond(r) \/ LoseResponse(r) \/ Crash(r)
  PROVE  StepProof(r)
<1>1. pc'[r] = "idle" /\ call'[r] = NoCall /\ UNCHANGED <<db, inbox>>
  BY DEF Respond, LoseResponse, Crash, End, IInv, TypeOK
<1>2. \A k \in RefreshIds : SessionRow(k) \notin locks'[r]
  BY DEF Respond, LoseResponse, Crash, Release, Provenance, RequestProof, LockProof,
         IInv, TypeOK
<1>3. RequestProof(r)'
  BY <1>1, <1>2, Plain, NoneAssumption DEF NoCall, Consuming, EndpointNames
<1>4. RelyMore /\ RowProof' /\ PasswordStep /\ TablesStay
  BY <1>1, Unwritten
<1>5. OrderOf(r)' = None BY <1>1, OrderNames DEF OrderOf
<1>. QED BY <1>3, <1>4, <1>5, Dropping DEF StepProof

(* A statement that writes nothing, up to the proofs of its own request. *)
LEMMA ReadProof ==
  ASSUME IInv, IInv', Rely, Provenance, NEW r \in Requests,
         NEW s \in Statements, NEW l \in Locals, Goto(r, s, l), UNCHANGED db
  PROVE  /\ RelyMore /\ RowProof' /\ PasswordStep /\ TablesStay
         /\ pc'[r] = s /\ loc'[r] = l
         /\ UNCHANGED <<call, inbox, users, auth_providers, refresh_tokens, verification_tokens>>
         /\ RequestProof(r) /\ RequestOK(r)
         /\ loc[r] \in Locals /\ call[r] \in Call
<1>1. UNCHANGED inbox BY Going DEF IInv
<1>. QED BY <1>1, Going, Unwritten DEF IInv, TypeOK, Provenance, db

(* A statement that refuses its request, or goes on where nothing is at     *)
(* stake.                                                                   *)
LEMMA ReadPlain ==
  ASSUME IInv, IInv', Rely, Provenance, NEW r \in Requests,
         NEW s \in Statements, NEW l \in Locals, Goto(r, s, l), UNCHANGED <<db, locks>>,
         pc[r] \notin {"commit_rotation", "revoke_sessions"},
         s \notin Consuming \cup {"commit_rotation", "create_google"},
         s = "issue" => call[r].endpoint # "google",
         s = "respond" /\ call[r].endpoint \in {"google", "reset"} => l.status # "ok",
         TablesStay => LedgerDone(r)
  PROVE  StepProof(r)
<1>1. \A k \in RefreshIds : SessionRow(k) \notin locks'[r]
  BY ReadProof DEF RequestProof, LockProof
<1>2. call[r].endpoint \in {"verify_email", "reset"} => call[r].cred \in inbox'
  BY ReadProof DEF RequestProof, TokenProof
<1>3. RequestProof(r)'
  BY <1>1, <1>2, ReadProof, Plain
<1>. QED BY <1>3, ReadProof DEF StepProof

LEMMA RejectProof ==
  ASSUME IInv, IInv', Rely, Provenance, NEW r \in Requests,
         Reject(r), UNCHANGED <<db, locks>>,
         pc[r] \notin {"commit_rotation", "revoke_sessions"}
  PROVE  StepProof(r)
<1> DEFINE l == [loc[r] EXCEPT !.status = "rejected"]
<1>1. l \in Locals /\ l.status = "rejected"
  BY ZenonT(40) DEF IInv, TypeOK, Locals
<1>2. Goto(r, "respond", l) BY DEF Reject, Reply
<1>3. TablesStay => LedgerDone(r)
  <2>1. OrderOf(r)' = None
    BY <1>1, <1>2, Going, OrderNames DEF OrderOf, Statements, IInv
  <2>. QED BY <2>1, Dropping
<1>. QED BY <1>1, <1>2, <1>3, ReadPlain DEF Statements, Consuming

LEMMA SelectRefreshProof ==
  ASSUME IInv, IInv', Rely, Provenance, NEW r \in Requests, SelectRefresh(r)
  PROVE  StepProof(r)
<1> DEFINE c == call[r].cred
           l == [loc[r] EXCEPT !.user = refresh_tokens[c].user_id]
<1>1. pc[r] = "select_refresh" /\ UNCHANGED <<db, locks>> BY DEF SelectRefresh
<1>2. CASE verify_refresh_token(c) /\ Goto(r, "revoke_old", l)
  <2>1. c \in Sessions
    BY <1>1, <1>2 DEF verify_refresh_token, IInv, RequestOK, EndpointsAt, CallOK
  <2>2. refresh_tokens[c].user_id \in Addresses
    BY <2>1 DEF Sessions, IInv, TypeOK, RefreshToken
  <2>3. loc[r] \in Locals BY DEF IInv, TypeOK
  <2>4. l \in Locals BY <2>2, <2>3 DEF Locals
  <2>5. /\ OrderOf(r) = None
        /\ OrderOf(r)' = ToRotate(c) /\ ToRotate(c) # None /\ c \in RefreshIds
    BY <1>1, <1>2, <2>1, <2>4, Going, OrderNames, LedgerNone
    DEF OrderOf, Statements, Sessions, IInv
  <2>6. Ledger!Good(c)
    BY <1>2, <2>1, <2>5, KnownShown, RowsShown
    DEF Ledger!Good, verify_refresh_token, Sessions, IInv
  <2>7. TablesStay => LedgerDone(r)
    <3> SUFFICES ASSUME TablesStay, OrderMoves(r) PROVE LedgerStep
      BY DEF LedgerDone
    <3>1. Ledger!Present(r, c)
      BY <2>5, <2>6, TakingOrder
      DEF Ledger!Present, Ledger!ToRotate, ToRotate, TablesStay, AccountMap, SessionMap, LinkMap
    <3>. QED
      BY <2>5, <3>1, TakingOrder DEF LedgerStep, Ledger!Next, Ledger!Taking, OrderMap
  <2>. QED BY <1>1, <1>2, <2>4, <2>7, ReadPlain DEF Statements, Consuming
<1>3. CASE Reject(r) BY <1>1, <1>3, RejectProof
<1>. QED BY <1>1, <1>2, <1>3 DEF SelectRefresh

LEMMA RevokeOldProof ==
  ASSUME IInv, IInv', Rely, Provenance, NEW r \in Requests, RevokeOld(r)
  PROVE  StepProof(r)
<1>1. /\ pc[r] = "revoke_old" /\ UNCHANGED db
      /\ Goto(r, "commit_rotation", loc[r]) /\ loc[r] \in Locals
  BY DEF RevokeOld, IInv, TypeOK
<1>2. /\ RelyMore /\ RowProof' /\ PasswordStep /\ TablesStay
      /\ pc'[r] = "commit_rotation" /\ call' = call /\ RequestOK(r)
  BY <1>1, ReadProof DEF Statements
<1>3. call[r].endpoint = "refresh" BY <1>1, <1>2 DEF RequestOK, EndpointsAt
<1>4. RequestProof(r)'
  BY <1>2, <1>3 DEF RequestProof, TokenProof, LockProof, GoogleProof, PasswordProof,
     Answered, Consuming
<1>5. OrderOf(r)' = OrderOf(r) BY <1>1, <1>2, OrderNames DEF OrderOf
<1>. QED BY <1>2, <1>4, <1>5, Keeping DEF StepProof

LEMMA SelectUserMailProof ==
  ASSUME IInv, IInv', Rely, Provenance, NEW r \in Requests, SelectUserMail(r)
  PROVE  StepProof(r)
<1> DEFINE a == normalize_email(call[r].email)
<1>1. pc[r] = "select_user_mail" /\ UNCHANGED <<db, locks>> /\ loc[r] \in Locals
  BY DEF SelectUserMail, IInv, TypeOK
<1>2. call[r].endpoint \in {"resend", "forgot"} /\ a \in Addresses
  BY <1>1, NormAssumption
  DEF IInv, RequestOK, EndpointsAt, CallOK, normalize_email
<1>3. CASE /\ WantsMail(call[r].endpoint, a)
           /\ Goto(r, "insert_token", [loc[r] EXCEPT !.user = a])
  <2> DEFINE l == [loc[r] EXCEPT !.user = a]
  <2>1. l \in Locals /\ l.user = a BY <1>1, <1>2 DEF Locals
  <2>2. PICK purpose \in {"email_verify", "password_reset"} :
          purpose = PurposeOf(call[r].endpoint)
    BY DEF PurposeOf
  <2>3. /\ OrderOf(r) = None
        /\ OrderOf(r)' = ToMail(a, purpose) /\ ToMail(a, purpose) # None
    <3>1. pc'[r] = "insert_token" /\ loc'[r].user = a /\ UNCHANGED call
      <4> HIDE DEF l
      <4>. QED BY ZenonT(40), <1>3, <2>1, Going DEF l, Statements, IInv
    <3>. QED BY <1>1, <1>2, <2>2, <3>1, OrderNames, LedgerNone DEF OrderOf
  <2>4. AccountMap[a] # None /\ (purpose = "email_verify" => ~AccountMap[a].verified)
    BY <1>2, <1>3, <2>2, RowsShown DEF AccountMap, WantsMail, PurposeOf, IInv
  <2>5. TablesStay => LedgerDone(r)
    <3> SUFFICES ASSUME TablesStay, OrderMoves(r) PROVE LedgerStep
      BY DEF LedgerDone
    <3>1. Ledger!Ask(r, a, purpose)
      BY <2>3, <2>4, TakingOrder
      DEF Ledger!Ask, Ledger!ToMail, ToMail, TablesStay, AccountMap, SessionMap, LinkMap
    <3>. QED
      BY <1>2, <2>3, <3>1, TakingOrder DEF LedgerStep, Ledger!Next, Ledger!Taking, OrderMap
  <2>. QED BY <1>1, <1>3, <2>1, <2>5, ReadPlain DEF Statements, Consuming
<1>4. CASE Reply(r, [loc[r] EXCEPT !.status = "ok"])
  <2>1. [loc[r] EXCEPT !.status = "ok"] \in Locals BY <1>1 DEF Locals
  <2>2. OrderOf(r)' = None
    BY <1>4, <2>1, Going, OrderNames DEF OrderOf, Reply, Statements, IInv
  <2>. QED BY <1>1, <1>2, <1>4, <2>1, <2>2, Dropping, ReadPlain DEF Reply, Statements, Consuming
<1>. QED BY <1>3, <1>4 DEF SelectUserMail

LEMMA AuthenticateProof ==
  ASSUME IInv, IInv', Rely, Provenance, NEW r \in Requests, Authenticate(r)
  PROVE  StepProof(r)
<1> DEFINE a == normalize_email(call[r].email)
<1>1. pc[r] = "select_user" /\ UNCHANGED <<db, locks>> /\ loc[r] \in Locals
  BY DEF Authenticate, IInv, TypeOK
<1>2. call[r].endpoint = "login" /\ a \in Addresses
  BY <1>1, NormAssumption
  DEF IInv, RequestOK, EndpointsAt, CallOK, normalize_email
<1>3. CASE /\ Accepted(a, call[r].password)
           /\ Goto(r, "issue", [loc[r] EXCEPT !.user = a, !.loaded = users[a]])
  <2> DEFINE l == [loc[r] EXCEPT !.user = a, !.loaded = users[a]]
  <2>1. users[a] \in User \cup {None} BY <1>2 DEF IInv, TypeOK
  <2>2. l \in Locals /\ l.user = a
    BY <1>1, <1>2, <2>1 DEF Locals
  <2>3. PICK p \in Passwords : p = call[r].password
    BY <1>1, <1>2 DEF IInv, RequestOK, CallOK
  <2>4. OrderOf(r) = None /\ OrderOf(r)' = ToOpen(a) /\ ToOpen(a) # None
    <3>1. pc'[r] = "issue" /\ loc'[r].user = a
      <4> HIDE DEF l
      <4>. QED BY <1>3, <2>2, Going DEF l, Statements, IInv
    <3>. QED BY <1>1, <1>2, <3>1, OrderNames, LedgerNone DEF OrderOf
  <2>5. AccountMap[a] # None /\ AccountMap[a].password = p /\ AccountMap[a].verified
    BY <1>2, <1>3, <2>3, RowsShown DEF AccountMap, Accepted, IInv
  <2>6. TablesStay => LedgerDone(r)
    <3> SUFFICES ASSUME TablesStay, OrderMoves(r) PROVE LedgerStep
      BY DEF LedgerDone
    <3>1. Ledger!LogIn(r, a, p)
      BY <2>4, <2>5, TakingOrder
      DEF Ledger!LogIn, Ledger!ToOpen, ToOpen, TablesStay, AccountMap, SessionMap, LinkMap
    <3>. QED
      BY <1>2, <2>4, <3>1, TakingOrder DEF LedgerStep, Ledger!Next, Ledger!Taking, OrderMap
  <2>. QED BY <1>1, <1>2, <1>3, <2>2, <2>6, ReadPlain DEF Statements, Consuming
<1>4. CASE Reject(r) BY <1>1, <1>4, RejectProof
<1>. QED BY <1>3, <1>4 DEF Authenticate

(* A statement that reads while its request holds proofs: the proofs about  *)
(* sessions it locks, links and answers do not concern it.                  *)
LEMMA SelectTokenProof ==
  ASSUME IInv, IInv', Rely, Provenance, NEW r \in Requests, SelectToken(r)
  PROVE  StepProof(r)
<1> DEFINE t == call[r].cred
           l == [loc[r] EXCEPT !.user = verification_tokens[t].user_id]
<1>1. /\ pc[r] = "select_token" /\ UNCHANGED <<db, locks>>
      /\ loc[r] \in Locals /\ RequestOK(r) /\ TokenProof(r) /\ LockProof(r)
  BY DEF SelectToken, IInv, TypeOK, Provenance, RequestProof
<1>2. CASE TokenConsumable(t, PurposeOf(call[r].endpoint)) /\ Goto(r, "select_owner", l)
  <2>1. call[r].endpoint \in {"verify_email", "reset"} /\ t \in TokenRows
    BY <1>1 DEF RequestOK, EndpointsAt, CallOK
  <2>2. verification_tokens[t].user_id \in Addresses
    BY <2>1 DEF TokenRows, IInv, TypeOK, VerificationToken
  <2>3. l \in Locals /\ l.user = verification_tokens[t].user_id
    BY <1>1, <2>2 DEF Locals
  <2>4. /\ RelyMore /\ RowProof' /\ PasswordStep /\ TablesStay
        /\ pc'[r] = "select_owner" /\ loc'[r] = l
        /\ UNCHANGED <<call, inbox, verification_tokens>>
    BY <1>1, <1>2, <2>3, ReadProof DEF Statements
  <2>5. TokenProof(r)'
    BY <1>1, <1>2, <2>1, <2>3, <2>4 DEF TokenProof, TokenConsumable
  <2>6. LockProof(r)'
    BY <1>1, <2>4 DEF LockProof
  <2>7. GoogleProof(r)' /\ PasswordProof(r)'
    BY <2>1, <2>4 DEF GoogleProof, PasswordProof, Answered
  <2>8. t \in TokenIds /\ Ledger!Unspent(t, PurposeOf(call[r].endpoint))
    BY <1>2, <2>1, RowsShown
    DEF Ledger!Unspent, TokenConsumable, TokenRows, LinkMap, IInv
  <2>9. CASE call[r].endpoint = "verify_email"
    <3>1. /\ OrderOf(r) = None
          /\ OrderOf(r)' = ToVerify(t) /\ ToVerify(t) # None
      BY <1>1, <2>4, <2>8, <2>9, OrderNames, LedgerNone DEF OrderOf
    <3>2. ASSUME OrderMoves(r) PROVE LedgerStep
      <4>1. Ledger!Redeem(r, t)
        BY <2>4, <2>8, <2>9, <3>1, <3>2, TakingOrder
        DEF Ledger!Redeem, Ledger!ToVerify, ToVerify, TablesStay, AccountMap, SessionMap,
            LinkMap, PurposeOf
      <4>. QED
        BY <2>8, <3>1, <3>2, <4>1, TakingOrder
        DEF LedgerStep, Ledger!Next, Ledger!Taking, OrderMap
    <3>. QED BY <2>4, <2>5, <2>6, <2>7, <3>2 DEF StepProof, RequestProof, LedgerDone
  <2>10. CASE call[r].endpoint = "reset"
    <3>1. PICK p \in Passwords, known \in SUBSET RefreshIds :
            p = call[r].password /\ known = call[r].seen
      BY <1>1, <2>10 DEF RequestOK, CallOK, Sessions
    <3>2. /\ OrderOf(r) = Presented(t, p, known) /\ Presented(t, p, known) # None
          /\ OrderOf(r)' = ToReset(t, p, known)
      BY <1>1, <2>4, <2>8, <2>10, <3>1, OrderNames, LedgerNone DEF OrderOf, InReset
    <3>3. ASSUME OrderMoves(r) PROVE LedgerStep
      <4>1. /\ OrderMap[r] = Presented(t, p, known)
            /\ OrderMap' = [OrderMap EXCEPT ![r] = ToReset(t, p, known)]
        BY <3>2, <3>3 DEF OrderMoves, OrderMap
      <4>2. /\ OrderMap[r].op = "present" /\ OrderMap[r].link = t
            /\ OrderMap[r].password = p /\ OrderMap[r].known = known
        BY <4>1 DEF Presented
      <4>3. Ledger!Unspent(t, "password_reset")
        BY <2>8, <2>10 DEF PurposeOf
      <4>4. Ledger!Accept(r)
        <5> HIDE DEF t, l
        <5>. QED
          BY <2>4, <4>1, <4>2, <4>3
          DEF Ledger!Accept, Ledger!ToReset, ToReset, TablesStay, AccountMap,
              SessionMap, LinkMap, OrderMap
      <4>. QED
        BY <3>2, <4>1, <4>4 DEF LedgerStep, Ledger!Next, Ledger!Carrying, OrderMap
    <3>. QED BY <2>4, <2>5, <2>6, <2>7, <3>3 DEF StepProof, RequestProof, LedgerDone
  <2>. QED BY <2>1, <2>9, <2>10
<1>3. CASE Reject(r) BY <1>1, <1>3, RejectProof
<1>. QED BY <1>2, <1>3 DEF SelectToken

LEMMA SelectOwnerProof ==
  ASSUME IInv, IInv', Rely, Provenance, NEW r \in Requests, SelectOwner(r)
  PROVE  StepProof(r)
<1> DEFINE s == IF call[r].endpoint = "verify_email" THEN "commit_verify" ELSE "flush_reset"
           l == [loc[r] EXCEPT !.loaded = users[loc[r].user]]
<1>1. /\ pc[r] = "select_owner" /\ UNCHANGED <<db, locks>> /\ Goto(r, s, l)
      /\ loc[r] \in Locals /\ RequestOK(r) /\ TokenProof(r) /\ LockProof(r)
  BY DEF SelectOwner, IInv, TypeOK, Provenance, RequestProof
<1>2. call[r].endpoint \in {"verify_email", "reset"} /\ loc[r].user \in Addresses
  BY <1>1 DEF RequestOK, EndpointsAt, LocalsOK, KnowsUser
<1>3. /\ l \in Locals /\ l.user = loc[r].user /\ l.loaded = users[loc[r].user]
      /\ s \in Statements
  <2>1. users[loc[r].user] \in User \cup {None} BY <1>2 DEF IInv, TypeOK
  <2>. QED BY <1>1, <2>1 DEF Locals, Statements
<1>4. /\ RelyMore /\ RowProof' /\ PasswordStep /\ TablesStay
      /\ pc'[r] = s /\ loc'[r] = l
      /\ UNCHANGED <<call, inbox, users, verification_tokens>>
  BY <1>1, <1>3, ReadProof
<1>5. TokenProof(r)'
  BY <1>1, <1>2, <1>3, <1>4 DEF TokenProof, Consuming
<1>6. LockProof(r)'
  BY <1>1, <1>4 DEF LockProof
<1>7. GoogleProof(r)' /\ PasswordProof(r)'
  BY <1>2, <1>4 DEF GoogleProof, PasswordProof, Answered
<1>8. OrderOf(r)' = OrderOf(r)
  BY <1>1, <1>2, <1>4, OrderNames DEF OrderOf, InReset
<1>. QED BY <1>4, <1>5, <1>6, <1>7, <1>8, Keeping DEF StepProof, RequestProof

LEMMA FlushResetProof ==
  ASSUME IInv, IInv', Rely, Provenance, NEW r \in Requests, FlushReset(r)
  PROVE  StepProof(r)
<1>1. /\ pc[r] = "flush_reset" /\ UNCHANGED db /\ Goto(r, "snapshot_sessions", loc[r])
      /\ locks'[r] = locks[r] \cup FlushedRows(loc[r].user, call[r].cred)
      /\ loc[r] \in Locals /\ RequestOK(r) /\ TokenProof(r) /\ LockProof(r)
  BY DEF FlushReset, IInv, TypeOK, Provenance, RequestProof, Lock
<1>2. call[r].endpoint = "reset"
  BY <1>1 DEF RequestOK, EndpointsAt
<1>3. /\ RelyMore /\ RowProof' /\ PasswordStep /\ TablesStay
      /\ pc'[r] = "snapshot_sessions" /\ loc'[r] = loc[r]
      /\ UNCHANGED <<call, inbox, users, verification_tokens>>
  BY <1>1, ReadProof DEF Statements
<1>4. TokenProof(r)'
  BY <1>1, <1>3 DEF TokenProof, Consuming
<1>5. LockProof(r)'
  BY <1>1, <1>3 DEF LockProof, FlushedRows, SessionRow, UserRow, TokenRow
<1>6. GoogleProof(r)' /\ PasswordProof(r)'
  BY <1>2, <1>3 DEF GoogleProof, PasswordProof, Answered
<1>7. OrderOf(r)' = OrderOf(r)
  BY <1>1, <1>2, <1>3, OrderNames DEF OrderOf, InReset
<1>. QED BY <1>3, <1>4, <1>5, <1>6, <1>7, Keeping DEF StepProof, RequestProof

LEMMA SnapshotProof ==
  ASSUME IInv, IInv', Rely, Provenance, NEW r \in Requests, SnapshotSessions(r)
  PROVE  StepProof(r)
<1> DEFINE l == [loc[r] EXCEPT !.todo = SessionsOf(loc[r].user)]
<1>1. /\ pc[r] = "snapshot_sessions" /\ UNCHANGED <<db, locks>>
      /\ Goto(r, "revoke_sessions", l)
      /\ loc[r] \in Locals /\ RequestOK(r) /\ TokenProof(r) /\ LockProof(r)
  BY DEF SnapshotSessions, IInv, TypeOK, Provenance, RequestProof
<1>2. call[r].endpoint = "reset"
  BY <1>1 DEF RequestOK, EndpointsAt
<1>3. l \in Locals /\ l.todo = SessionsOf(loc[r].user) /\ l.user = loc[r].user
  BY <1>1 DEF Locals, SessionsOf, Sessions
<1>4. /\ RelyMore /\ RowProof' /\ PasswordStep /\ TablesStay
      /\ pc'[r] = "revoke_sessions" /\ loc'[r] = l
      /\ UNCHANGED <<call, inbox, users, refresh_tokens, verification_tokens>>
  BY <1>1, <1>3, ReadProof DEF Statements
<1>5. TokenProof(r)'
  BY <1>1, <1>3, <1>4 DEF TokenProof, Consuming
<1>6. LockProof(r)'
  <2>1. SessionsOf(loc[r].user)' = SessionsOf(loc[r].user)
    BY <1>3, <1>4 DEF SessionsOf, Sessions
  <2>. QED BY <1>1, <1>3, <1>4, <2>1 DEF LockProof
<1>7. GoogleProof(r)' /\ PasswordProof(r)'
  BY <1>2, <1>4 DEF GoogleProof, PasswordProof, Answered
<1>8. OrderOf(r)' = OrderOf(r)
  BY <1>1, <1>2, <1>4, OrderNames DEF OrderOf, InReset
<1>. QED BY <1>4, <1>5, <1>6, <1>7, <1>8, Keeping DEF StepProof, RequestProof

LEMMA RevokeSessionProof ==
  ASSUME IInv, IInv', Rely, Provenance, NEW r \in Requests, NEW k \in RefreshIds,
         RevokeSession(r, k)
  PROVE  StepProof(r)
<1> DEFINE l == [loc[r] EXCEPT !.todo = @ \ {k}]
<1>1. /\ pc[r] = "revoke_sessions" /\ k \in loc[r].todo /\ UNCHANGED db
      /\ Goto(r, "revoke_sessions", l)
      /\ locks'[r] = locks[r] \cup {SessionRow(k)}
      /\ loc[r] \in Locals /\ RequestOK(r) /\ TokenProof(r) /\ LockProof(r)
  BY DEF RevokeSession, IInv, TypeOK, Provenance, RequestProof, Lock
<1>2. call[r].endpoint = "reset"
  BY <1>1 DEF RequestOK, EndpointsAt
<1>3. l \in Locals /\ l.todo = loc[r].todo \ {k} /\ l.user = loc[r].user
  BY <1>1 DEF Locals
<1>4. /\ RelyMore /\ RowProof' /\ PasswordStep /\ TablesStay
      /\ pc'[r] = "revoke_sessions" /\ loc'[r] = l
      /\ UNCHANGED <<call, inbox, users, refresh_tokens, verification_tokens>>
  BY <1>1, <1>3, ReadProof DEF Statements
<1>5. TokenProof(r)'
  BY <1>1, <1>3, <1>4 DEF TokenProof, Consuming
<1>6. LockProof(r)'
  <2>1. SessionsOf(loc[r].user)' = SessionsOf(loc[r].user)
    BY <1>3, <1>4 DEF SessionsOf, Sessions
  <2>2. \A j \in RefreshIds : SessionRow(j) = SessionRow(k) => j = k
    BY DEF SessionRow
  <2>. QED BY <1>1, <1>3, <1>4, <2>1, <2>2 DEF LockProof
<1>7. GoogleProof(r)' /\ PasswordProof(r)'
  BY <1>2, <1>4 DEF GoogleProof, PasswordProof, Answered
<1>8. OrderOf(r)' = OrderOf(r)
  BY <1>1, <1>2, <1>4, OrderNames DEF OrderOf, InReset
<1>. QED BY <1>4, <1>5, <1>6, <1>7, <1>8, Keeping DEF StepProof, RequestProof

LEMMA SelectProviderProof ==
  ASSUME IInv, IInv', Rely, Provenance, NEW r \in Requests, SelectProvider(r)
  PROVE  StepProof(r)
<1> DEFINE linked == {p \in auth_providers : /\ p.provider = "google"
                                             /\ p.provider_user_id = call[r].cred}
<1>1. /\ pc[r] = "select_provider" /\ UNCHANGED <<db, locks>>
      /\ loc[r] \in Locals /\ RequestOK(r) /\ LockProof(r)
  BY DEF SelectProvider, IInv, TypeOK, Provenance, RequestProof
<1>2. call[r].endpoint = "google"
  BY <1>1 DEF RequestOK, EndpointsAt
<1>3. ASSUME NEW p \in linked, Goto(r, "issue", [loc[r] EXCEPT !.user = p.user_id])
      PROVE  StepProof(r)
  <2> DEFINE l == [loc[r] EXCEPT !.user = p.user_id]
  <2>1. p \in AuthProvider BY DEF IInv, TypeOK
  <2>2. l \in Locals /\ l.user = p.user_id /\ l.user \in Addresses
    BY <1>1, <2>1 DEF Locals, AuthProvider
  <2>3. GoogleProvider(l.user, call[r].cred) = p
    BY <2>1, <2>2 DEF GoogleProvider, AuthProvider
  <2>4. /\ RelyMore /\ RowProof' /\ PasswordStep /\ TablesStay
        /\ pc'[r] = "issue" /\ loc'[r] = l
        /\ UNCHANGED <<call, inbox, auth_providers, refresh_tokens>>
    BY <1>1, <1>3, <2>2, ReadProof DEF Statements
  <2>5. GoogleProof(r)'
    BY <2>2, <2>3, <2>4 DEF GoogleProof
  <2>6. TokenProof(r)' /\ LockProof(r)' /\ PasswordProof(r)'
    BY <1>1, <1>2, <2>4 DEF TokenProof, LockProof, PasswordProof, Answered, Consuming
  <2>7. /\ OrderOf(r) = None
        /\ OrderOf(r)' = ToOpen(l.user) /\ ToOpen(l.user) # None
    <3> HIDE DEF l
    <3>. QED BY <1>1, <2>2, <2>4, OrderNames, LedgerNone DEF OrderOf
  <2>8. PICK s \in Subs : s = call[r].cred
    BY <1>1, <1>2 DEF RequestOK, CallOK
  <2>9. <<s, l.user>> \in LinksOf
    BY <2>2, <2>8 DEF LinksOf
  <2>10. ASSUME OrderMoves(r) PROVE LedgerStep
    <3>1. Ledger!GoogleLogIn(r, l.user, s)
      BY <2>4, <2>7, <2>9, <2>10, TakingOrder
      DEF Ledger!GoogleLogIn, Ledger!ToOpen, ToOpen, TablesStay, AccountMap, SessionMap, LinkMap
    <3>. QED
      BY <2>2, <2>7, <2>10, <3>1, TakingOrder
      DEF LedgerStep, Ledger!Next, Ledger!Taking, OrderMap
  <2>. QED BY <2>4, <2>5, <2>6, <2>10 DEF StepProof, RequestProof, LedgerDone
<1>4. CASE Goto(r, "select_email", loc[r])
  <2>1. OrderOf(r)' = None
    BY <1>1, <1>4, Going, OrderNames DEF OrderOf, Statements, IInv
  <2>. QED BY <1>1, <1>4, <2>1, Dropping, ReadPlain DEF Statements, Consuming
<1>. QED BY <1>3, <1>4 DEF SelectProvider

LEMMA SelectByEmailProof ==
  ASSUME IInv, IInv', Rely, Provenance, NEW r \in Requests, SelectByEmail(r)
  PROVE  StepProof(r)
<1> DEFINE a == normalize_email(call[r].email)
<1>1. /\ pc[r] = "select_email" /\ UNCHANGED <<db, locks>>
      /\ loc[r] \in Locals /\ RequestOK(r) /\ LockProof(r)
  BY DEF SelectByEmail, IInv, TypeOK, Provenance, RequestProof
<1>2. call[r].endpoint = "google" /\ a \in Addresses /\ normalize_email(a) = a
  BY <1>1, NormAssumption DEF RequestOK, EndpointsAt, CallOK, normalize_email
<1>3. CASE users[a] # None /\ Goto(r, "link", [loc[r] EXCEPT !.user = a, !.loaded = users[a]])
  <2>1. users[a] \in User BY <1>2, <1>3 DEF IInv, TypeOK
  <2>2. [loc[r] EXCEPT !.user = a, !.loaded = users[a]] \in Locals
    BY <1>1, <1>2, <2>1 DEF Locals
  <2>3. OrderOf(r)' = None
    BY <1>3, <2>2, Going, OrderNames DEF OrderOf, Statements, IInv
  <2>. QED BY <1>1, <1>3, <2>2, <2>3, Dropping, ReadPlain DEF Statements, Consuming
<1>4. CASE Goto(r, "create_google", [loc[r] EXCEPT !.user = a])
  <2> DEFINE l == [loc[r] EXCEPT !.user = a]
  <2>1. l \in Locals /\ l.user = a BY <1>1, <1>2 DEF Locals
  <2>2. /\ RelyMore /\ RowProof' /\ PasswordStep /\ TablesStay
        /\ pc'[r] = "create_google" /\ loc'[r] = l /\ call' = call
    BY <1>1, <1>4, <2>1, ReadProof DEF Statements
  <2>3. GoogleProof(r)' BY <1>2, <2>1, <2>2 DEF GoogleProof, Answered
  <2>4. TokenProof(r)' /\ LockProof(r)' /\ PasswordProof(r)'
    BY <1>1, <1>2, <2>2 DEF TokenProof, LockProof, PasswordProof, Answered, Consuming
  <2>5. OrderOf(r)' = None BY <2>2, OrderNames DEF OrderOf
  <2>. QED BY <2>2, <2>3, <2>4, <2>5, Dropping DEF StepProof, RequestProof
<1>. QED BY <1>3, <1>4 DEF SelectByEmail

-----------------------------------------------------------------------------
(* Commits *)

LEMMA OnlySessions ==
  ASSUME IInv, IInv', Rely, Provenance,
         UNCHANGED <<users, auth_providers, verification_tokens, inbox>>
  PROVE  /\ RelyMore /\ RowProof' /\ PasswordStep
         /\ UNCHANGED <<AccountMap, LinksOf, LinkMap>>
<1>1. RowProof' BY RowsKept DEF TokenRows
<1>2. RelyMore /\ PasswordStep BY SamePasswords
<1>. QED BY <1>1, <1>2, AccountsShown, LinksShown, GoogleShown

LEMMA OnlyTokens ==
  ASSUME IInv, IInv', Rely, Provenance,
         UNCHANGED <<users, auth_providers, refresh_tokens>>, inbox \subseteq inbox',
         \A t \in TokenRows' : verification_tokens'[t].used
           => t \in TokenRows /\ verification_tokens[t].used
  PROVE  /\ RelyMore /\ RowProof' /\ PasswordStep
         /\ UNCHANGED <<AccountMap, LinksOf, SessionMap>>
<1>1. RowProof' BY RowsKept
<1>2. RelyMore /\ PasswordStep BY SamePasswords
<1>. QED BY <1>1, <1>2, AccountsShown, SessionsShown, GoogleShown

(* A new session row shows as a new session. *)
LEMMA SessionOpened ==
  ASSUME TypeOK, NEW k \in RefreshIds, NEW u \in Addresses, NEW q,
         refresh_tokens'[k] = NewSession(u, q),
         refresh_tokens'[k] # None
  PROVE  SessionOf(k)' = Ledger!NewSession(u)
<1>1. SessionOf(k)' = [email |-> refresh_tokens'[k].user_id,
                       revoked |-> refresh_tokens'[k].is_revoked,
                       expired |-> refresh_tokens'[k].expired]
  BY DEF SessionOf
<1>2. /\ refresh_tokens'[k].user_id = u
      /\ refresh_tokens'[k].is_revoked = FALSE /\ refresh_tokens'[k].expired = FALSE
  BY DEF NewSession
<1>. QED BY <1>1, <1>2 DEF Ledger!NewSession

(* A row that is revoked, or expires, shows as that session with the mark.  *)
LEMMA SessionMarked ==
  ASSUME TypeOK, TypeOK', NEW k \in Sessions
  PROVE  /\ refresh_tokens'[k] = [refresh_tokens[k] EXCEPT !.is_revoked = TRUE]
              => SessionOf(k)' = [SessionOf(k) EXCEPT !.revoked = TRUE]
         /\ refresh_tokens'[k] = [refresh_tokens[k] EXCEPT !.expired = TRUE]
              => SessionOf(k)' = [SessionOf(k) EXCEPT !.expired = TRUE]
<1> DEFINE Row(e, b, d) == [email |-> e, revoked |-> b, expired |-> d]
           row == refresh_tokens[k]
<1>1. row \in RefreshToken /\ row # None BY DEF Sessions, TypeOK
<1>2. SessionOf(k) = Row(row.user_id, row.is_revoked, row.expired)
  BY <1>1 DEF SessionOf
<1>3. ASSUME NEW new \in RefreshToken, refresh_tokens'[k] = new
      PROVE  SessionOf(k)' = Row(new.user_id, new.is_revoked, new.expired)
  <2>1. new # None BY NoneAssumption
  <2>. QED BY <1>3, <2>1 DEF SessionOf
<1>4. ASSUME refresh_tokens'[k] = [row EXCEPT !.is_revoked = TRUE]
      PROVE  SessionOf(k)' = [SessionOf(k) EXCEPT !.revoked = TRUE]
  <2> DEFINE new == [row EXCEPT !.is_revoked = TRUE]
  <2>1. new \in RefreshToken BY <1>1 DEF RefreshToken
  <2>2. new.user_id = row.user_id /\ new.is_revoked = TRUE /\ new.expired = row.expired
    BY <1>1 DEF RefreshToken
  <2>3. SessionOf(k)' = Row(row.user_id, TRUE, row.expired)
    <3> HIDE DEF new, Row
    <3>. QED BY <1>3, <1>4, <2>1, <2>2 DEF new
  <2>4. PICK e, b, d : SessionOf(k) = Row(e, b, d) /\ SessionOf(k)' = Row(e, TRUE, d)
    <3> HIDE DEF Row
    <3>. QED BY <1>2, <2>3, Zenon
  <2>5. \A x : [SessionOf(k) EXCEPT !.revoked = x] = Row(e, x, d) BY <2>4
  <2>6. [SessionOf(k) EXCEPT !.revoked = TRUE] = Row(e, TRUE, d) BY <2>5, Zenon
  <2>. QED BY <2>4, <2>6
<1>5. ASSUME refresh_tokens'[k] = [row EXCEPT !.expired = TRUE]
      PROVE  SessionOf(k)' = [SessionOf(k) EXCEPT !.expired = TRUE]
  <2> DEFINE new == [row EXCEPT !.expired = TRUE]
  <2>1. new \in RefreshToken BY <1>1 DEF RefreshToken
  <2>2. new.user_id = row.user_id /\ new.is_revoked = row.is_revoked /\ new.expired = TRUE
    BY <1>1 DEF RefreshToken
  <2>3. SessionOf(k)' = Row(row.user_id, row.is_revoked, TRUE)
    <3> HIDE DEF new, Row
    <3>. QED BY <1>3, <1>5, <2>1, <2>2 DEF new
  <2>4. PICK e, b, d : SessionOf(k) = Row(e, b, d) /\ SessionOf(k)' = Row(e, b, TRUE)
    <3> HIDE DEF Row
    <3>. QED BY <1>2, <2>3, Zenon
  <2>5. \A x : [SessionOf(k) EXCEPT !.expired = x] = Row(e, b, x) BY <2>4
  <2>6. [SessionOf(k) EXCEPT !.expired = TRUE] = Row(e, b, TRUE) BY <2>5, Zenon
  <2>. QED BY <2>4, <2>6
<1>. QED BY <1>4, <1>5

(* A token that is consumed, or expires, shows as that link with the mark.  *)
LEMMA LinkMarked ==
  ASSUME TypeOK, TypeOK', NEW t \in TokenRows
  PROVE  /\ verification_tokens'[t] = ConsumedRow(verification_tokens[t])
              => LinkOf(t)' = [LinkOf(t) EXCEPT !.used = TRUE]
         /\ verification_tokens'[t] = [verification_tokens[t] EXCEPT !.expired = TRUE]
              => LinkOf(t)' = [LinkOf(t) EXCEPT !.expired = TRUE]
<1> DEFINE Row(e, p, b, d) == [email |-> e, purpose |-> p, used |-> b, expired |-> d]
           row == verification_tokens[t]
<1>1. row \in VerificationToken /\ row # None BY DEF TokenRows, TypeOK
<1>2. LinkOf(t) = Row(row.user_id, row.purpose, row.used, row.expired)
  BY <1>1 DEF LinkOf
<1>3. ASSUME NEW new \in VerificationToken, verification_tokens'[t] = new
      PROVE  LinkOf(t)' = Row(new.user_id, new.purpose, new.used, new.expired)
  <2>1. new # None BY NoneAssumption
  <2>. QED BY <1>3, <2>1 DEF LinkOf
<1>4. ASSUME verification_tokens'[t] = ConsumedRow(row)
      PROVE  LinkOf(t)' = [LinkOf(t) EXCEPT !.used = TRUE]
  <2> DEFINE new == ConsumedRow(row)
  <2>1. new \in VerificationToken BY <1>1, ConsumedRowType
  <2>2. /\ new.user_id = row.user_id /\ new.purpose = row.purpose
        /\ new.used = TRUE /\ new.expired = row.expired
    BY <1>1 DEF ConsumedRow, VerificationToken
  <2>3. LinkOf(t)' = Row(row.user_id, row.purpose, TRUE, row.expired)
    <3> HIDE DEF new, Row
    <3>. QED BY <1>3, <1>4, <2>1, <2>2 DEF new
  <2>4. PICK e, p, b, d : LinkOf(t) = Row(e, p, b, d) /\ LinkOf(t)' = Row(e, p, TRUE, d)
    <3> HIDE DEF Row
    <3>. QED BY <1>2, <2>3, Zenon
  <2>5. \A x : [LinkOf(t) EXCEPT !.used = x] = Row(e, p, x, d) BY <2>4
  <2>6. [LinkOf(t) EXCEPT !.used = TRUE] = Row(e, p, TRUE, d) BY <2>5, Zenon
  <2>. QED BY <2>4, <2>6
<1>5. ASSUME verification_tokens'[t] = [row EXCEPT !.expired = TRUE]
      PROVE  LinkOf(t)' = [LinkOf(t) EXCEPT !.expired = TRUE]
  <2> DEFINE new == [row EXCEPT !.expired = TRUE]
  <2>1. new \in VerificationToken BY <1>1 DEF VerificationToken
  <2>2. /\ new.user_id = row.user_id /\ new.purpose = row.purpose
        /\ new.used = row.used /\ new.expired = TRUE
    BY <1>1 DEF VerificationToken
  <2>3. LinkOf(t)' = Row(row.user_id, row.purpose, row.used, TRUE)
    <3> HIDE DEF new, Row
    <3>. QED BY <1>3, <1>5, <2>1, <2>2 DEF new
  <2>4. PICK e, p, b, d : LinkOf(t) = Row(e, p, b, d) /\ LinkOf(t)' = Row(e, p, b, TRUE)
    <3> HIDE DEF Row
    <3>. QED BY <1>2, <2>3, Zenon
  <2>5. \A x : [LinkOf(t) EXCEPT !.expired = x] = Row(e, p, b, x) BY <2>4
  <2>6. [LinkOf(t) EXCEPT !.expired = TRUE] = Row(e, p, b, TRUE) BY <2>5, Zenon
  <2>. QED BY <2>4, <2>6
<1>. QED BY <1>4, <1>5

LEMMA IssueProof ==
  ASSUME IInv, IInv', Rely, Provenance, NEW r \in Requests, issue_refresh_token(r)
  PROVE  StepProof(r)
<1> DEFINE u == loc[r].user
<1>1. /\ pc[r] = "issue" /\ loc[r] \in Locals /\ RequestOK(r) /\ RequestProof(r)
      /\ TypeOK /\ TypeOK'
      /\ UNCHANGED <<users, auth_providers, verification_tokens, locks>>
  BY DEF issue_refresh_token, IInv, TypeOK, Provenance
<1>2. PICK k \in RefreshIds :
        /\ NextRefresh(k)
        /\ refresh_tokens' = [refresh_tokens EXCEPT ![k] = NewSession(u, None)]
        /\ Goto(r, "respond", [loc[r] EXCEPT !.out = k, !.status = "ok"])
  BY DEF issue_refresh_token, Reply
<1> DEFINE l == [loc[r] EXCEPT !.out = k, !.status = "ok"]
<1>3. /\ call[r].endpoint \in {"login", "google"}
      /\ u \in Addresses /\ users[u] # None /\ users[u].is_email_verified
  BY <1>1 DEF RequestOK, EndpointsAt, LocalsOK, KnowsUser
<1>4. l \in Locals /\ l.user = u BY <1>1 DEF Locals
<1>5. pc'[r] = "respond" /\ loc'[r] = l /\ UNCHANGED <<call, inbox>>
  BY <1>1, <1>2, <1>4, Going DEF Statements
<1>6. /\ RelyMore /\ RowProof' /\ PasswordStep
      /\ UNCHANGED <<AccountMap, LinksOf, LinkMap>>
  BY <1>1, <1>5, OnlySessions
<1>7. LedgerDone(r)
  <2> SUFFICES ASSUME OrderMoves(r) PROVE LedgerStep
    BY DEF LedgerDone
  <2>1. refresh_tokens'[k] = NewSession(u, None) /\ refresh_tokens'[k] # None
    BY <1>1, <1>2, <1>3, NewSessionType DEF TypeOK
  <2>2. SessionOf(k)' = Ledger!NewSession(u)
    BY <1>1, <1>3, <2>1, SessionOpened
  <2>3. SessionMap' = [SessionMap EXCEPT ![k] = SessionOf(k)']
    BY <1>1, <1>2, SessionsShown DEF TypeOK
  <2>4. SessionOf(k) = None BY <1>2 DEF NextRefresh, SessionOf
  <2>5. AccountOf(u) # None /\ AccountOf(u).verified
    BY <1>1, <1>3, RowsShown
  <2>6. OrderOf(r) = ToOpen(u) /\ OrderOf(r)' = None /\ ToOpen(u) # None
    BY <1>1, <1>3, <1>5, OrderNames, LedgerNone DEF OrderOf
  <2>7. /\ Ledger!Carry(r, "open") /\ OrderMap[r].email = u /\ OrderMap[r] # None
    BY <2>6, CarryingOrder DEF ToOpen
  <2>8. Ledger!Open(r, k)
    BY <1>3, <1>6, <2>2, <2>3, <2>4, <2>5, <2>7
    DEF Ledger!Open, AccountMap, SessionMap, LinkMap, OrderMap
  <2>. QED BY <2>7, <2>8 DEF LedgerStep, Ledger!Next, Ledger!Carrying, OrderMap
<1>8. RequestProof(r)'
  <2>1. GoogleProof(r)'
    BY <1>1, <1>3, <1>4, <1>5 DEF GoogleProof, RequestProof
  <2>2. \A j \in RefreshIds : SessionRow(j) \notin locks'[r]
    BY <1>1 DEF RequestProof, LockProof
  <2>3. TokenProof(r)' /\ LockProof(r)' /\ PasswordProof(r)'
    BY <1>3, <1>5, <2>2 DEF TokenProof, LockProof, PasswordProof, Answered, Consuming
  <2>. QED BY <2>1, <2>3 DEF RequestProof
<1>. QED BY <1>6, <1>7, <1>8 DEF StepProof

LEMMA CommitRotationProof ==
  ASSUME IInv, IInv', Rely, Provenance, NEW r \in Requests, CommitRotation(r)
  PROVE  StepProof(r)
<1>1. /\ pc[r] = "commit_rotation" /\ loc[r] \in Locals /\ RequestOK(r)
      /\ TypeOK /\ TypeOK' /\ locks'[r] = {}
      /\ UNCHANGED <<users, auth_providers, verification_tokens>>
  BY DEF CommitRotation, Release, IInv, TypeOK
<1>2. PICK k \in RefreshIds :
        /\ NextRefresh(k)
        /\ refresh_tokens' = RotationWrites(call[r].cred, k)
        /\ Goto(r, "respond", [loc[r] EXCEPT !.out = k, !.status = "ok"])
  BY DEF CommitRotation, Reply
<1> DEFINE l == [loc[r] EXCEPT !.out = k, !.status = "ok"]
<1>3. call[r].endpoint = "refresh" /\ call[r].cred \in Sessions
  BY <1>1 DEF RequestOK, EndpointsAt, LocalsOK, CallOK
<1>11. PICK old \in Sessions : old = call[r].cred BY <1>3
<1> DEFINE u == refresh_tokens[old].user_id
<1>4. l \in Locals BY <1>1 DEF Locals
<1>5. pc'[r] = "respond" /\ UNCHANGED <<call, inbox>>
  BY <1>1, <1>2, <1>4, Going DEF Statements
<1>6. /\ RelyMore /\ RowProof' /\ PasswordStep
      /\ UNCHANGED <<AccountMap, LinksOf, LinkMap>>
  BY <1>1, <1>5, OnlySessions
<1>7. LedgerDone(r)
  <2> SUFFICES ASSUME OrderMoves(r) PROVE LedgerStep
    BY DEF LedgerDone
  <2>1. /\ old \in RefreshIds /\ old # k /\ u \in Addresses
        /\ refresh_tokens[old] # None
        /\ refresh_tokens[k] = None
    BY <1>1, <1>2 DEF NextRefresh, Sessions, TypeOK, RefreshToken
  <2>2. /\ refresh_tokens'[k] = NewSession(u, old)
        /\ refresh_tokens'[old] = [refresh_tokens[old] EXCEPT !.is_revoked = TRUE]
        /\ \A j \in RefreshIds \ {old, k} : refresh_tokens'[j] = refresh_tokens[j]
    BY <1>1, <1>2, <1>11, <2>1 DEF RotationWrites, TypeOK
  <2>3. refresh_tokens'[k] # None
    BY <2>1, <2>2, NewSessionType
  <2>4. SessionOf(k)' = Ledger!NewSession(u)
    BY <1>1, <2>1, <2>2, <2>3, SessionOpened
  <2>5. SessionOf(old)' = [SessionOf(old) EXCEPT !.revoked = TRUE]
    BY <1>1, <2>2, SessionMarked
  <2>6. \A j \in RefreshIds \ {old, k} : SessionOf(j)' = SessionOf(j)
    BY <2>2 DEF SessionOf
  <2>7. SessionOf(k) = None /\ SessionOf(old) # None /\ SessionOf(old).email = u
    BY <1>1, <2>1, RowsShown DEF SessionOf
  <2>8. SessionMap' = [SessionMap EXCEPT
          ![old] = [SessionMap[old] EXCEPT !.revoked = TRUE],
          ![k] = Ledger!NewSession(SessionMap[old].email)]
    <3>1. /\ SessionMap' = [j \in RefreshIds |-> SessionOf(j)']
          /\ SessionMap = [j \in RefreshIds |-> SessionOf(j)]
      BY DEF SessionMap
    <3>2. SessionMap[old] = SessionOf(old) BY <2>1, <3>1
    <3>3. \A j \in RefreshIds : SessionOf(j)' =
            IF j = k THEN Ledger!NewSession(SessionMap[old].email)
            ELSE IF j = old THEN [SessionMap[old] EXCEPT !.revoked = TRUE]
            ELSE SessionMap[j]
      BY <2>4, <2>5, <2>6, <2>7, <3>1, <3>2
    <3>. QED BY <2>1, <3>1, <3>3
  <2>9. OrderOf(r) = ToRotate(old) /\ OrderOf(r)' = None /\ ToRotate(old) # None
    BY <1>1, <1>5, <1>11, <2>1, OrderNames, LedgerNone DEF OrderOf
  <2>10. /\ Ledger!Carry(r, "rotate") /\ OrderMap[r].session = old /\ OrderMap[r] # None
    BY <2>9, CarryingOrder DEF ToRotate
  <2>11. Ledger!Rotate(r, k)
    BY <1>6, <2>1, <2>7, <2>8, <2>10
    DEF Ledger!Rotate, Ledger!Revoked, AccountMap, SessionMap, LinkMap, OrderMap
  <2>. QED BY <2>10, <2>11 DEF LedgerStep, Ledger!Next, Ledger!Carrying, OrderMap
<1>8. RequestProof(r)'
  BY <1>1, <1>3, <1>5, Plain DEF Consuming
<1>. QED BY <1>6, <1>7, <1>8 DEF StepProof

LEMMA RevokeProof ==
  ASSUME IInv, IInv', Rely, Provenance, NEW r \in Requests, revoke_refresh_token(r)
  PROVE  StepProof(r)
<1> DEFINE k == call[r].cred
           l == [loc[r] EXCEPT !.status = "ok"]
<1>1. /\ pc[r] = "revoke" /\ loc[r] \in Locals /\ RequestOK(r) /\ RequestProof(r)
      /\ TypeOK /\ TypeOK'
      /\ UNCHANGED <<users, auth_providers, verification_tokens, locks>>
      /\ Goto(r, "respond", l)
  BY DEF revoke_refresh_token, Reply, IInv, TypeOK, Provenance
<1>2. call[r].endpoint = "logout" /\ k \in Sessions \cup {None}
  BY <1>1 DEF RequestOK, EndpointsAt, CallOK
<1>3. l \in Locals BY <1>1 DEF Locals
<1>4. pc'[r] = "respond" /\ UNCHANGED <<call, inbox>>
  BY <1>1, <1>3, Going DEF Statements
<1>5. RequestProof(r)'
  <2>1. \A j \in RefreshIds : SessionRow(j) \notin locks'[r]
    BY <1>1 DEF RequestProof, LockProof
  <2>. QED BY <1>2, <1>4, <2>1, Plain DEF Consuming
<1>6. CASE k = None /\ UNCHANGED refresh_tokens
  <2>1. OrderOf(r)' = None BY <1>4, OrderNames DEF OrderOf
  <2>. QED BY <1>1, <1>4, <1>5, <1>6, <2>1, Unwritten, Dropping DEF StepProof, db
<1>7. CASE k # None /\ refresh_tokens' = [refresh_tokens EXCEPT ![k].is_revoked = TRUE]
  <2>1. PICK s \in Sessions : s = k BY <1>2, <1>7
  <2>2. /\ refresh_tokens'[s] = [refresh_tokens[s] EXCEPT !.is_revoked = TRUE]
        /\ \A j \in RefreshIds \ {s} : refresh_tokens'[j] = refresh_tokens[j]
        /\ s \in RefreshIds
    BY <1>1, <1>7, <2>1 DEF TypeOK, Sessions
  <2>3. /\ RelyMore /\ RowProof' /\ PasswordStep
        /\ UNCHANGED <<AccountMap, LinksOf, LinkMap>>
    BY <1>1, <1>4, OnlySessions
  <2>4. LedgerDone(r)
    <3> SUFFICES ASSUME OrderMoves(r) PROVE LedgerStep
      BY DEF LedgerDone
    <3>1. OrderOf(r) = ToRetire(s) /\ OrderOf(r)' = None /\ ToRetire(s) # None
      BY <1>1, <1>4, <1>7, <2>1, <2>2, OrderNames, LedgerNone DEF OrderOf
    <3>2. /\ Ledger!Carry(r, "retire") /\ OrderMap[r].session = s /\ OrderMap[r] # None
      BY <3>1, CarryingOrder DEF ToRetire
    <3>3. SessionOf(s)' = [SessionOf(s) EXCEPT !.revoked = TRUE]
      BY <1>1, <2>2, SessionMarked
    <3>4. SessionMap' = [SessionMap EXCEPT ![s] = SessionOf(s)']
      BY <2>2, SessionsShown
    <3>5. Ledger!Retire(r)
      BY <2>2, <2>3, <3>2, <3>3, <3>4
      DEF Ledger!Retire, Ledger!Revoked, AccountMap, SessionMap, LinkMap, OrderMap
    <3>. QED BY <3>2, <3>5 DEF LedgerStep, Ledger!Next, Ledger!Carrying, OrderMap
  <2>. QED BY <1>5, <2>3, <2>4 DEF StepProof
<1>. QED BY <1>1, <1>6, <1>7 DEF revoke_refresh_token

(* An account whose flag is set shows verified, with the password it had.   *)
LEMMA AccountVerified ==
  ASSUME TypeOK, TypeOK', NEW a \in Addresses, users[a] # None, users'[a] # None,
         users'[a].password_hash = users[a].password_hash,
         users'[a].is_email_verified
  PROVE  AccountOf(a)' = [AccountOf(a) EXCEPT !.verified = TRUE]
<1>1. users'[a].is_email_verified = TRUE
  BY DEF TypeOK, User
<1>2. AccountOf(a)' = [password |-> users'[a].password_hash,
                       verified |-> users'[a].is_email_verified]
  BY DEF AccountOf
<1>3. PICK b : AccountOf(a) = [password |-> users[a].password_hash, verified |-> b]
  BY DEF AccountOf
<1>4. \A x : [AccountOf(a) EXCEPT !.verified = x]
                = [password |-> users[a].password_hash, verified |-> x]
  BY <1>3
<1>5. [AccountOf(a) EXCEPT !.verified = TRUE]
        = [password |-> users[a].password_hash, verified |-> TRUE]
  BY <1>4, Zenon
<1>. QED BY <1>1, <1>2, <1>5

LEMMA InsertTokenProof ==
  ASSUME IInv, IInv', Rely, Provenance, NEW r \in Requests, InsertToken(r)
  PROVE  StepProof(r)
<1>1. /\ pc[r] = "insert_token" /\ loc[r] \in Locals /\ RequestOK(r) /\ RequestProof(r)
      /\ TypeOK /\ TypeOK'
      /\ verification_tokens \in [TokenIds -> VerificationToken \cup {None}]
      /\ UNCHANGED <<users, auth_providers, refresh_tokens, locks>>
  BY DEF InsertToken, IInv, TypeOK, Provenance
<1>2. /\ call[r].endpoint \in {"signup", "resend", "forgot"}
      /\ loc[r].user \in Addresses /\ users[loc[r].user] # None
  BY <1>1 DEF RequestOK, EndpointsAt, LocalsOK, KnowsUser
<1>3. PICK u \in Addresses, purpose \in {"email_verify", "password_reset"} :
        u = loc[r].user /\ purpose = PurposeOf(call[r].endpoint)
  BY <1>2 DEF PurposeOf
<1> DEFINE row == [user_id |-> u, purpose |-> purpose,
                   used |-> FALSE, expired |-> FALSE, uses |-> 0]
<1>4. PICK t \in TokenIds :
        /\ verification_tokens[t] = None
        /\ verification_tokens' = [verification_tokens EXCEPT ![t] = row]
        /\ Goto(r, "respond", [loc[r] EXCEPT !.out = t, !.status = "ok"])
  BY <1>3 DEF InsertToken, NextToken, Reply
<1>5. [loc[r] EXCEPT !.out = t, !.status = "ok"] \in Locals BY <1>1 DEF Locals
<1>6. pc'[r] = "respond" /\ UNCHANGED <<call, inbox>>
  BY <1>1, <1>4, <1>5, Going DEF Statements
<1>7. /\ verification_tokens'[t] = row /\ row # None
      /\ \A j \in TokenIds \ {t} : verification_tokens'[j] = verification_tokens[j]
  <2>1. row \in VerificationToken BY DEF VerificationToken
  <2>. QED BY <1>1, <1>4, <2>1, NoneAssumption
<1>8. /\ RelyMore /\ RowProof' /\ PasswordStep
      /\ UNCHANGED <<AccountMap, LinksOf, SessionMap>>
  <2>1. ASSUME NEW j \in TokenRows', verification_tokens'[j].used
        PROVE  j \in TokenRows /\ verification_tokens[j].used
    BY <1>7, <2>1 DEF TokenRows
  <2>. QED BY <1>1, <1>6, <2>1, OnlyTokens
<1>9. LedgerDone(r)
  <2> SUFFICES ASSUME OrderMoves(r) PROVE LedgerStep
    BY DEF LedgerDone
  <2>1. LinkOf(t)' = [email |-> u, purpose |-> purpose, used |-> FALSE, expired |-> FALSE]
    BY <1>7 DEF LinkOf
  <2>2. LinkMap' = [LinkMap EXCEPT ![t] = LinkOf(t)']
    BY <1>7, LinksShown
  <2>3. LinkOf(t) = None BY <1>4 DEF LinkOf
  <2>4. /\ OrderOf(r) = ToMail(u, purpose) /\ OrderOf(r)' = None
        /\ ToMail(u, purpose) # None
    BY <1>1, <1>3, <1>6, OrderNames, LedgerNone DEF OrderOf
  <2>5. /\ Ledger!Carry(r, "mail") /\ OrderMap[r] # None
        /\ OrderMap[r].email = u /\ OrderMap[r].purpose = purpose
    BY <2>4, CarryingOrder DEF ToMail
  <2>6. Ledger!Mail(r, t)
    BY <1>8, <2>1, <2>2, <2>3, <2>5
    DEF Ledger!Mail, AccountMap, SessionMap, LinkMap, OrderMap
  <2>. QED BY <2>5, <2>6 DEF LedgerStep, Ledger!Next, Ledger!Carrying, OrderMap
<1>10. RequestProof(r)'
  <2>1. \A j \in RefreshIds : SessionRow(j) \notin locks'[r]
    BY <1>1 DEF RequestProof, LockProof
  <2>. QED BY <1>2, <1>6, <2>1, Plain DEF Consuming
<1>. QED BY <1>8, <1>9, <1>10 DEF StepProof

LEMMA CommitVerifyProof ==
  ASSUME IInv, IInv', Rely, Provenance, NEW r \in Requests, CommitVerify(r)
  PROVE  StepProof(r)
<1> DEFINE l == [loc[r] EXCEPT !.status = "ok"]
<1>1. /\ pc[r] = "commit_verify" /\ loc[r] \in Locals /\ RequestOK(r) /\ RequestProof(r)
      /\ TypeOK /\ TypeOK'
      /\ users \in [Addresses -> User \cup {None}]
      /\ verification_tokens \in [TokenIds -> VerificationToken \cup {None}]
      /\ UNCHANGED <<auth_providers, refresh_tokens, locks>>
      /\ Goto(r, "respond", l)
  BY DEF CommitVerify, Reply, IInv, TypeOK, Provenance
<1>2. /\ call[r].endpoint = "verify_email" /\ call[r].cred \in TokenRows
      /\ loc[r].user \in Addresses /\ users[loc[r].user] # None
      /\ TokenProof(r)
  BY <1>1 DEF RequestOK, RequestProof, EndpointsAt, LocalsOK, CallOK, KnowsUser
<1>3. PICK u \in Addresses, t \in TokenRows : u = loc[r].user /\ t = call[r].cred
  BY <1>2
<1>4. /\ t \in TokenIds /\ t \in inbox /\ users[u] # None
      /\ verification_tokens[t] # None
      /\ verification_tokens[t].purpose = "email_verify"
      /\ verification_tokens[t].user_id = u
      /\ loc[r].loaded.is_email_verified => users[u].is_email_verified
  BY <1>1, <1>2, <1>3 DEF TokenProof, Consuming, PurposeOf, TokenRows
<1>5. /\ verification_tokens'[t] = ConsumedRow(verification_tokens[t])
      /\ \A j \in TokenIds \ {t} : verification_tokens'[j] = verification_tokens[j]
  BY <1>1, <1>3, <1>4 DEF CommitVerify
<1>6. /\ verification_tokens'[t] # None /\ verification_tokens'[t].used
      /\ verification_tokens'[t].user_id = u
      /\ verification_tokens'[t].purpose = "email_verify"
  <2>1. verification_tokens[t] \in VerificationToken BY <1>1, <1>4
  <2>. QED BY <1>4, <1>5, <2>1, ConsumedRowType
<1>7. /\ users'[u] # None /\ users'[u].is_email_verified
      /\ users'[u].password_hash = users[u].password_hash
      /\ users'[u].resets = users[u].resets
      /\ \A a \in Addresses \ {u} : users'[a] = users[a]
  <2>1. users[u] \in User BY <1>1, <1>4
  <2>2. CASE users' = [users EXCEPT ![u] = VerifiedRow(users[u], loc[r].loaded)]
    <3>1. users'[u] = [users[u] EXCEPT !.is_email_verified = TRUE]
      BY <1>1, <2>2 DEF VerifiedRow
    <3>2. users'[u] \in User BY <2>1, <3>1 DEF User
    <3>. QED BY <1>1, <2>1, <2>2, <3>1, <3>2, NoneAssumption DEF User
  <2>3. CASE loc[r].loaded.is_email_verified /\ UNCHANGED users
    BY <1>4, <2>3
  <2>. QED BY <1>3, <2>2, <2>3 DEF CommitVerify
<1>8. pc'[r] = "respond" /\ UNCHANGED <<call, inbox>>
  <2>1. l \in Locals BY <1>1 DEF Locals
  <2>. QED BY <1>1, <2>1, Going DEF Statements
<1>9. RelyMore /\ PasswordStep
  BY <1>1, <1>7, <1>8, SamePasswords
<1>10. RowProof'
  <2>1. OneAccountPerMailbox'
    BY <1>4, <1>7 DEF Provenance, OneAccountPerMailbox
  <2>2. ProvidersUnique' BY <1>1 DEF Provenance, ProvidersUnique
  <2>3. VerifiedByToken'
    <3>1. ASSUME NEW j \in TokenRows', j # t,
                 verification_tokens'[j].purpose = "email_verify",
                 verification_tokens'[j].used
          PROVE  users'[verification_tokens'[j].user_id].is_email_verified
      <4>1. j \in TokenRows /\ verification_tokens'[j] = verification_tokens[j]
        BY <1>5, <3>1 DEF TokenRows
      <4>2. users[verification_tokens[j].user_id].is_email_verified
        BY <3>1, <4>1 DEF Provenance, VerifiedByToken
      <4>3. /\ verification_tokens[j].user_id \in Addresses
            /\ users[verification_tokens[j].user_id] # None
        BY <4>1 DEF IInv, TypeOK, References, VerificationToken, TokenRows
      <4>. QED BY <4>1, <4>2, <4>3 DEF Rely
    <3>. QED BY <1>6, <1>7, <3>1 DEF VerifiedByToken
  <2>4. VerifiedNeedsProof'
    <3>1. ASSUME NEW a \in Addresses \ Registered, a # u,
                 users'[a] # None, users'[a].is_email_verified
          PROVE  \/ \E j \in inbox' : LET v == verification_tokens'[j] IN
                      v.user_id = a /\ v.purpose = "email_verify" /\ v.used
                 \/ \E p \in auth_providers' : p.user_id = a /\ p.provider = "google"
      BY <1>1, <1>7, <1>8, <3>1, ProofKept DEF Provenance
    <3>. QED BY <1>4, <1>6, <1>8, <3>1 DEF VerifiedNeedsProof
  <2>. QED BY <2>1, <2>2, <2>3, <2>4 DEF RowProof
<1>11. LedgerDone(r)
  <2> SUFFICES ASSUME OrderMoves(r) PROVE LedgerStep
    BY DEF LedgerDone
  <2>1. LinkOf(t)' = [LinkOf(t) EXCEPT !.used = TRUE]
    BY <1>1, <1>5, LinkMarked
  <2>2. LinkMap' = [LinkMap EXCEPT ![t] = LinkOf(t)']
    BY <1>4, <1>5, LinksShown
  <2>3. AccountOf(u)' = [AccountOf(u) EXCEPT !.verified = TRUE]
    BY <1>1, <1>4, <1>7, AccountVerified
  <2>4. AccountMap' = [AccountMap EXCEPT ![u] = AccountOf(u)']
    BY <1>7, AccountsShown
  <2>5. LinkOf(t).email = u
    BY <1>1, <1>4, RowsShown
  <2>6. UNCHANGED <<LinksOf, SessionMap>>
    BY <1>1, GoogleShown, SessionsShown
  <2>7. OrderOf(r) = ToVerify(t) /\ OrderOf(r)' = None /\ ToVerify(t) # None
    BY <1>1, <1>2, <1>3, <1>4, <1>8, OrderNames, LedgerNone DEF OrderOf
  <2>8. /\ Ledger!Carry(r, "verify") /\ OrderMap[r].link = t /\ OrderMap[r] # None
    BY <2>7, CarryingOrder DEF ToVerify
  <2>9. Ledger!Verify(r)
    BY <1>4, <2>1, <2>2, <2>3, <2>4, <2>5, <2>6, <2>8
    DEF Ledger!Verify, Ledger!Used, AccountMap, SessionMap, LinkMap, OrderMap
  <2>. QED BY <2>8, <2>9 DEF LedgerStep, Ledger!Next, Ledger!Carrying, OrderMap
<1>12. RequestProof(r)'
  <2>1. \A j \in RefreshIds : SessionRow(j) \notin locks'[r]
    BY <1>1 DEF RequestProof, LockProof
  <2>. QED BY <1>2, <1>3, <1>4, <1>8, <2>1, Plain DEF Consuming
<1>. QED BY <1>9, <1>10, <1>11, <1>12 DEF StepProof

LEMMA CommitResetProof ==
  ASSUME IInv, IInv', Rely, Provenance, NEW r \in Requests, CommitReset(r)
  PROVE  StepProof(r)
<1> DEFINE l == [loc[r] EXCEPT !.status = "ok", !.era = users[loc[r].user].resets + 1]
<1>1. /\ pc[r] = "revoke_sessions" /\ loc[r] \in Locals /\ call[r] \in Call
      /\ RequestOK(r) /\ RequestProof(r) /\ TypeOK /\ TypeOK'
      /\ users \in [Addresses -> User \cup {None}]
      /\ verification_tokens \in [TokenIds -> VerificationToken \cup {None}]
      /\ UNCHANGED auth_providers /\ locks'[r] = {}
      /\ Goto(r, "respond", l)
  BY DEF CommitReset, Reply, Release, IInv, TypeOK, Provenance
<1>2. /\ call[r].endpoint = "reset" /\ call[r].cred \in TokenRows
      /\ call[r].password \in Passwords
      /\ loc[r].user \in Addresses /\ users[loc[r].user] # None
      /\ TokenProof(r) /\ LockProof(r)
  BY <1>1 DEF RequestOK, RequestProof, EndpointsAt, LocalsOK, CallOK, KnowsUser
<1>3. PICK u \in Addresses, t \in TokenRows, p \in Passwords, ended \in SUBSET RefreshIds :
        /\ u = loc[r].user /\ t = call[r].cred /\ p = call[r].password
        /\ ended = LockedSessions(r)
  BY <1>2 DEF LockedSessions, Sessions
<1>4. /\ t \in TokenIds /\ t \in inbox /\ users[u] # None
      /\ verification_tokens[t] # None
      /\ verification_tokens[t].purpose = "password_reset"
      /\ verification_tokens[t].user_id = u
  BY <1>1, <1>2, <1>3 DEF TokenProof, Consuming, PurposeOf, TokenRows
<1>5. \A k \in ended : refresh_tokens[k] # None /\ refresh_tokens[k].user_id = u
  BY <1>1, <1>2, <1>3 DEF LockProof, LockedSessions, Sessions, SessionsOf
<1>6. /\ verification_tokens'[t] = ConsumedRow(verification_tokens[t])
      /\ \A j \in TokenIds \ {t} : verification_tokens'[j] = verification_tokens[j]
      /\ users'[u] = ResetRow(users[u], p)
      /\ \A a \in Addresses \ {u} : users'[a] = users[a]
      /\ \A k \in RefreshIds : refresh_tokens'[k] =
           IF k \in ended THEN [refresh_tokens[k] EXCEPT !.is_revoked = TRUE]
                          ELSE refresh_tokens[k]
  BY <1>1, <1>3, <1>4 DEF CommitReset
<1>7. /\ verification_tokens'[t] # None /\ verification_tokens'[t].used
      /\ verification_tokens'[t].purpose = "password_reset"
      /\ verification_tokens'[t].uses = verification_tokens[t].uses + 1
  <2>1. verification_tokens[t] \in VerificationToken BY <1>1, <1>4
  <2>2. ConsumedRow(verification_tokens[t]).uses = verification_tokens[t].uses + 1
    BY <2>1 DEF ConsumedRow, VerificationToken
  <2>. QED BY <1>4, <1>6, <2>1, <2>2, ConsumedRowType
<1>8. /\ users'[u] # None /\ users'[u].is_email_verified = users[u].is_email_verified
      /\ users'[u].password_hash = p
      /\ users'[u].resets = users[u].resets + 1
      /\ users[u].resets \in Nat
  <2>1. users[u] \in User BY <1>1, <1>4
  <2>2. /\ ResetRow(users[u], p).password_hash = p
        /\ ResetRow(users[u], p).resets = users[u].resets + 1
    BY <2>1 DEF ResetRow, User
  <2>3. users[u].resets \in Nat BY <2>1 DEF User
  <2>. QED BY <1>6, <2>1, <2>2, <2>3, ResetRowType
<1>9. /\ pc'[r] = "respond" /\ loc'[r] = l /\ UNCHANGED <<call, inbox>>
      /\ l.era = users[u].resets + 1 /\ l.user = u
  <2>1. users[u].resets + 1 \in Nat BY <1>8
  <2>2. l \in Locals /\ l.era = users[u].resets + 1 /\ l.user = u
    BY <1>1, <1>3, <2>1 DEF Locals
  <2>. QED BY <1>1, <2>2, Going DEF Statements
<1>10. RelyMore
  <2>1. \A a \in Addresses : users[a] # None => users[a].resets \in Nat
    BY <1>1 DEF User
  <2>2. p # None BY NoneAssumption
  <2>. QED BY <1>1, <1>6, <1>8, <1>9, <2>1, <2>2 DEF RelyMore
<1>11. PasswordStep
  BY <1>4, <1>6, <1>7 DEF PasswordStep
<1>12. RowProof'
  <2>1. \A a \in Addresses : users'[a] # None =>
          /\ users[a] # None
          /\ users'[a].is_email_verified = users[a].is_email_verified
    BY <1>4, <1>6, <1>8
  <2>2. ASSUME NEW j \in TokenRows', verification_tokens'[j].purpose = "email_verify",
               verification_tokens'[j].used
        PROVE  j \in TokenRows /\ verification_tokens[j].used
    BY <1>6, <1>7, <2>2 DEF TokenRows
  <2>. QED BY <1>1, <1>9, <2>1, <2>2, RowsKept
<1>13. PICK known \in SUBSET RefreshIds :
         known = call[r].seen /\ \A k \in known : k \in Sessions /\
           (refresh_tokens[k].user_id = u => k \in ended)
  <2>1. call[r].seen \subseteq Sessions BY <1>1 DEF RequestOK, CallOK
  <2>2. \A k \in call[r].seen : refresh_tokens[k].user_id = u => SessionRow(k) \in locks[r]
    BY <1>1, <1>3 DEF RequestOK, ResetOK, CommitReset
  <2>. QED BY <1>3, <2>1, <2>2 DEF LockedSessions, Sessions
<1>14. LedgerDone(r)
  <2> SUFFICES ASSUME OrderMoves(r) PROVE LedgerStep
    BY DEF LedgerDone
  <2>1. LinkOf(t)' = [LinkOf(t) EXCEPT !.used = TRUE]
    BY <1>1, <1>6, LinkMarked
  <2>2. LinkMap' = [LinkMap EXCEPT ![t] = LinkOf(t)']
    BY <1>4, <1>6, LinksShown
  <2>3. AccountOf(u)' = [AccountOf(u) EXCEPT !.password = p]
    <3>1. AccountOf(u)' = [password |-> p, verified |-> users[u].is_email_verified]
      BY <1>8 DEF AccountOf
    <3>2. AccountOf(u) = [password |-> users[u].password_hash,
                          verified |-> users[u].is_email_verified]
      BY <1>4 DEF AccountOf
    <3>. QED BY <3>1, <3>2
  <2>4. AccountMap' = [AccountMap EXCEPT ![u] = AccountOf(u)']
    BY <1>6, AccountsShown
  <2>5. LinkOf(t).email = u
    BY <1>1, <1>4, RowsShown
  <2>6. \A k \in ended : /\ SessionOf(k) # None /\ SessionOf(k).email = u
                         /\ SessionOf(k)' = [SessionOf(k) EXCEPT !.revoked = TRUE]
    <3> SUFFICES ASSUME NEW k \in ended
                 PROVE  /\ SessionOf(k) # None /\ SessionOf(k).email = u
                        /\ SessionOf(k)' = [SessionOf(k) EXCEPT !.revoked = TRUE]
      OBVIOUS
    <3>1. k \in Sessions /\ k \in RefreshIds
      BY <1>5 DEF Sessions
    <3>2. SessionOf(k)' = [SessionOf(k) EXCEPT !.revoked = TRUE]
      BY <1>1, <1>6, <3>1, SessionMarked
    <3>. QED BY <1>1, <1>5, <3>1, <3>2, RowsShown
  <2>7. SessionMap' = [k \in RefreshIds |->
          IF k \in ended THEN [SessionMap[k] EXCEPT !.revoked = TRUE] ELSE SessionMap[k]]
    <3>1. /\ SessionMap' = [j \in RefreshIds |-> SessionOf(j)']
          /\ \A k \in RefreshIds : SessionMap[k] = SessionOf(k)
      BY DEF SessionMap
    <3>2. \A k \in RefreshIds \ ended : SessionOf(k)' = SessionOf(k)
      BY <1>6 DEF SessionOf
    <3>. QED BY <2>6, <3>1, <3>2
  <2>8. UNCHANGED LinksOf BY <1>1, GoogleShown
  <2> DEFINE o == ToReset(t, p, known)
             mine == {k \in Ledger!Known : SessionMap[k].email = u}
  <2>9. OrderOf(r) = o /\ OrderOf(r)' = None /\ o # None
    BY <1>1, <1>2, <1>3, <1>4, <1>9, <1>13, OrderNames, LedgerNone DEF OrderOf, InReset
  <2>10. o.op = "reset" /\ o.link = t /\ o.password = p /\ o.known = known
    BY DEF ToReset
  <2>11. Ledger!Carry(r, "reset") /\ OrderMap[r] = o /\ OrderMap[r] # None
    <3> HIDE DEF o
    <3>. QED BY <2>9, <2>10, CarryingOrder
  <2>12. mine \cap known \subseteq ended /\ ended \subseteq mine
    <3>1. Ledger!Known = Sessions BY <1>1, KnownShown
    <3>2. \A k \in Sessions : k \in RefreshIds /\ SessionMap[k].email = refresh_tokens[k].user_id
      BY <1>1, RowsShown DEF SessionMap, Sessions
    <3>. QED BY <1>5, <1>13, <3>1, <3>2 DEF Sessions
  <2>13. Ledger!Reset(r, ended)
    <3> HIDE DEF o
    <3>. QED
      BY <1>4, <2>1, <2>2, <2>3, <2>4, <2>5, <2>7, <2>8, <2>10, <2>11, <2>12
      DEF Ledger!Reset, Ledger!Used, Ledger!Revoked, AccountMap, SessionMap, LinkMap, OrderMap
  <2>. QED BY <2>11, <2>13 DEF LedgerStep, Ledger!Next, Ledger!Carrying, OrderMap
<1>15. RequestProof(r)'
  <2>1. TokenProof(r)'
    BY <1>3, <1>4, <1>9 DEF TokenProof, Consuming
  <2>2. LockProof(r)' BY <1>1, <1>9 DEF LockProof
  <2>3. GoogleProof(r)' BY <1>2, <1>9 DEF GoogleProof, Answered
  <2>4. PasswordProof(r)'
    BY <1>3, <1>8, <1>9 DEF PasswordProof
  <2>. QED BY <2>1, <2>2, <2>3, <2>4 DEF RequestProof
<1>. QED BY <1>10, <1>11, <1>12, <1>14, <1>15 DEF StepProof

(* A new account or a new link, with its provider row. *)
LEMMA Linking ==
  ASSUME IInv, IInv', Rely, Provenance, NEW a \in Addresses, NEW q \in AuthProvider,
         UNCHANGED <<refresh_tokens, verification_tokens, inbox>>,
         auth_providers' = auth_providers \cup {q}, q.user_id = a,
         q.provider = "google" <=> q.provider_user_id # None,
         ~ProviderTaken(q),
         normalize_email(a) = a, users'[a] # None,
         \A b \in Addresses \ {a} : users'[b] = users[b],
         users[a] # None =>
           /\ users'[a].password_hash = users[a].password_hash
           /\ users'[a].resets = users[a].resets,
         q.provider = "google" \/ ~users'[a].is_email_verified
  PROVE  /\ RelyMore /\ RowProof' /\ PasswordStep
         /\ UNCHANGED <<SessionMap, LinkMap>>
         /\ AccountMap' = [AccountMap EXCEPT ![a] = AccountOf(a)']
<1>1. RelyMore /\ PasswordStep BY SamePasswords
<1>2. OneAccountPerMailbox'
  BY DEF Provenance, OneAccountPerMailbox
<1>3. ProvidersUnique'
  BY DEF Provenance, ProvidersUnique, ProviderTaken
<1>4. VerifiedByToken'
  BY TokensKept DEF Provenance, TokenRows
<1>5. VerifiedNeedsProof'
  <2>1. ASSUME NEW b \in Addresses \ Registered, b # a,
               users'[b] # None, users'[b].is_email_verified
        PROVE  \/ \E t \in inbox' : LET v == verification_tokens'[t] IN
                    v.user_id = b /\ v.purpose = "email_verify" /\ v.used
               \/ \E x \in auth_providers' : x.user_id = b /\ x.provider = "google"
    BY <2>1, ProofKept DEF Provenance
  <2>. QED BY <2>1 DEF VerifiedNeedsProof
<1>. QED
  BY <1>1, <1>2, <1>3, <1>4, <1>5, AccountsShown, SessionsShown, LinksShown DEF RowProof

(* A new row shows as a new account. *)
LEMMA AccountMade ==
  ASSUME NEW a \in Addresses, NEW p \in Passwords \cup {None}, NEW v \in BOOLEAN,
         users'[a] = NewUser(p, v)
  PROVE  /\ users'[a] # None
         /\ AccountOf(a)' = [password |-> p, verified |-> v]
BY NewUserType DEF AccountOf, NewUser

LEMMA CreateUserProof ==
  ASSUME IInv, IInv', Rely, Provenance, NEW r \in Requests, CreateUser(r)
  PROVE  StepProof(r)
<1>1. /\ pc[r] = "insert_user" /\ loc[r] \in Locals /\ RequestOK(r) /\ RequestProof(r)
      /\ TypeOK /\ TypeOK'
      /\ UNCHANGED <<refresh_tokens, verification_tokens, locks>>
  BY DEF CreateUser, IInv, TypeOK, Provenance
<1>2. call[r].endpoint = "signup" /\ call[r].email \in Addresses /\ call[r].password \in Passwords
  BY <1>1 DEF RequestOK, EndpointsAt, CallOK
<1>3. PICK a \in Addresses, p \in Passwords :
        /\ a = StoredEmail(call[r].email) /\ p = call[r].password
        /\ normalize_email(a) = a
  BY <1>2, NormAssumption DEF StoredEmail, normalize_email
<1>4. CASE /\ users[a] = None
           /\ users' = [users EXCEPT ![a] = NewUser(p, FALSE)]
           /\ auth_providers' = auth_providers \cup {PasswordProvider(a)}
           /\ Goto(r, "insert_token", [loc[r] EXCEPT !.user = a])
  <2>1. pc'[r] = "insert_token" /\ loc'[r].user = a /\ UNCHANGED <<call, inbox>>
    <3>1. [loc[r] EXCEPT !.user = a] \in Locals /\ [loc[r] EXCEPT !.user = a].user = a
      BY <1>1 DEF Locals
    <3>. QED BY ZenonT(40), <1>1, <1>4, <3>1, Going DEF Statements
  <2>2. /\ users'[a] = NewUser(p, FALSE)
        /\ \A b \in Addresses \ {a} : users'[b] = users[b]
    BY <1>1, <1>4 DEF TypeOK
  <2>3. /\ PasswordProvider(a) \in AuthProvider
        /\ PasswordProvider(a).user_id = a
        /\ PasswordProvider(a).provider = "password"
        /\ PasswordProvider(a).provider_user_id = None
    BY DEF PasswordProvider, AuthProvider
  <2>4. ~ProviderTaken(PasswordProvider(a))
    BY <1>4, <2>3 DEF ProviderTaken, IInv, References
  <2>5. /\ users'[a] # None /\ ~users'[a].is_email_verified
        /\ AccountOf(a)' = [password |-> p, verified |-> FALSE]
    <3>1. /\ users'[a] # None
          /\ AccountOf(a)' = [password |-> p, verified |-> FALSE]
      BY <2>2, AccountMade
    <3>2. ~users'[a].is_email_verified BY <2>2 DEF NewUser
    <3>. QED BY <3>1, <3>2
  <2>6. /\ RelyMore /\ RowProof' /\ PasswordStep
        /\ UNCHANGED <<SessionMap, LinkMap>>
        /\ AccountMap' = [AccountMap EXCEPT ![a] = AccountOf(a)']
    BY <1>1, <1>3, <1>4, <2>1, <2>2, <2>3, <2>4, <2>5, Linking
  <2>7. LedgerDone(r)
    <3> SUFFICES ASSUME OrderMoves(r) PROVE LedgerStep
      BY DEF LedgerDone
    <3>1. AccountOf(a) = None BY <1>4 DEF AccountOf
    <3>2. UNCHANGED LinksOf BY <1>4, GoogleShown
    <3>3. /\ OrderOf(r) = None /\ OrderOf(r)' = ToMail(a, "email_verify")
          /\ ToMail(a, "email_verify") # None
      BY <1>1, <1>2, <2>1, OrderNames, LedgerNone DEF OrderOf, PurposeOf
    <3>4. Ledger!SignUp(r, a, p)
      BY <2>5, <2>6, <3>1, <3>2, <3>3, TakingOrder
      DEF Ledger!SignUp, Ledger!ToMail, ToMail, AccountMap, SessionMap, LinkMap
    <3>. QED BY <3>3, <3>4, TakingOrder DEF LedgerStep, Ledger!Next, Ledger!Taking, OrderMap
  <2>8. RequestProof(r)'
    <3>1. \A j \in RefreshIds : SessionRow(j) \notin locks'[r]
      BY <1>1 DEF RequestProof, LockProof
    <3>. QED BY <1>2, <2>1, <3>1, Plain DEF Consuming
  <2>. QED BY <2>6, <2>7, <2>8 DEF StepProof
<1>5. CASE Reject(r) /\ UNCHANGED <<users, auth_providers>>
  BY <1>1, <1>5, RejectProof DEF db
<1>. QED BY <1>3, <1>4, <1>5 DEF CreateUser

(* What the two paths of a Google login that write share. *)
LEMMA GoogleWritten ==
  ASSUME IInv, IInv', Rely, Provenance, NEW r \in Requests,
         NEW u \in Addresses, NEW s \in Subs,
         u = loc[r].user, s = call[r].cred, call[r].endpoint = "google",
         pc[r] \in {"link", "create_google"}, locks' = locks,
         auth_providers' = auth_providers \cup {GoogleProvider(u, s)},
         ~ProviderTaken(GoogleProvider(u, s)),
         Goto(r, "issue", loc[r])
  PROVE  /\ GoogleProvider(u, s) \in AuthProvider
         /\ GoogleProvider(u, s).user_id = u
         /\ GoogleProvider(u, s).provider = "google"
         /\ GoogleProvider(u, s).provider_user_id # None
         /\ Ledger!Linkable(s, u)
         /\ LinksOf' = LinksOf \cup {<<s, u>>}
         /\ UNCHANGED <<call, inbox>>
         /\ RequestProof(r)'
         /\ OrderOf(r) = None /\ OrderOf(r)' = ToOpen(u) /\ ToOpen(u) # None
<1>1. /\ GoogleProvider(u, s) \in AuthProvider
      /\ GoogleProvider(u, s).user_id = u
      /\ GoogleProvider(u, s).provider = "google"
      /\ GoogleProvider(u, s).provider_user_id = s
      /\ s # None
  BY NoneAssumption DEF GoogleProvider, AuthProvider
<1>2. Ledger!Linkable(s, u)
  <2>1. \A q \in auth_providers : q.provider = "google" =>
          q.user_id # u /\ q.provider_user_id # s
    BY <1>1 DEF ProviderTaken
  <2>. QED BY <2>1 DEF Ledger!Linkable, LinksOf
<1>3. LinksOf' = LinksOf \cup {<<s, u>>}
  BY GoogleShown
<1>4. pc'[r] = "issue" /\ loc'[r] = loc[r] /\ UNCHANGED <<call, inbox>>
  BY Going DEF Statements, IInv, TypeOK
<1>5. RequestProof(r)'
  <2>1. TokenProof(r)' BY <1>4 DEF TokenProof, Consuming
  <2>2. LockProof(r)' BY <1>4 DEF LockProof, Provenance, RequestProof
  <2>3. GoogleProof(r)' BY <1>4 DEF GoogleProof
  <2>4. PasswordProof(r)' BY <1>4 DEF PasswordProof, Answered
  <2>. QED BY <2>1, <2>2, <2>3, <2>4 DEF RequestProof
<1>6. OrderOf(r) = None /\ OrderOf(r)' = ToOpen(u) /\ ToOpen(u) # None
  BY <1>4, OrderNames, LedgerNone DEF OrderOf
<1>. QED BY <1>1, <1>2, <1>3, <1>4, <1>5, <1>6

LEMMA CreateGoogleUserProof ==
  ASSUME IInv, IInv', Rely, Provenance, NEW r \in Requests, CreateGoogleUser(r)
  PROVE  StepProof(r)
<1>1. /\ pc[r] = "create_google" /\ loc[r] \in Locals /\ RequestOK(r) /\ GoogleProof(r)
      /\ TypeOK /\ TypeOK'
      /\ UNCHANGED <<refresh_tokens, verification_tokens, locks>>
  BY DEF CreateGoogleUser, IInv, TypeOK, Provenance, RequestProof
<1>2. PICK u \in Addresses, s \in Subs :
        /\ u = loc[r].user /\ s = call[r].cred
        /\ call[r].endpoint = "google" /\ normalize_email(u) = u
  BY <1>1 DEF RequestOK, EndpointsAt, CallOK, LocalsOK, GoogleProof
<1> DEFINE q == GoogleProvider(u, s)
<1>3. CASE /\ users[u] = None /\ ~ProviderTaken(q)
           /\ users' = [users EXCEPT ![u] = NewUser(None, TRUE)]
           /\ auth_providers' = auth_providers \cup {q}
           /\ Goto(r, "issue", loc[r])
  <2>1. /\ q \in AuthProvider /\ q.user_id = u /\ q.provider = "google"
        /\ q.provider_user_id # None
        /\ Ledger!Linkable(s, u) /\ LinksOf' = LinksOf \cup {<<s, u>>}
        /\ UNCHANGED <<call, inbox>> /\ RequestProof(r)'
        /\ OrderOf(r) = None /\ OrderOf(r)' = ToOpen(u) /\ ToOpen(u) # None
    BY <1>1, <1>2, <1>3, GoogleWritten
  <2>2. /\ users'[u] = NewUser(None, TRUE)
        /\ \A b \in Addresses \ {u} : users'[b] = users[b]
    BY <1>1, <1>3 DEF TypeOK
  <2>3. users'[u] # None /\ AccountOf(u)' = [password |-> None, verified |-> TRUE]
    BY <2>2, AccountMade
  <2>4. /\ RelyMore /\ RowProof' /\ PasswordStep
        /\ UNCHANGED <<SessionMap, LinkMap>>
        /\ AccountMap' = [AccountMap EXCEPT ![u] = AccountOf(u)']
    <3> HIDE DEF q
    <3>. QED BY <1>1, <1>2, <1>3, <2>1, <2>2, <2>3, Linking
  <2>5. ASSUME OrderMoves(r) PROVE LedgerStep
    <3>1. AccountOf(u) = None BY <1>3 DEF AccountOf
    <3>2. Ledger!GoogleSignUp(r, u, s)
      BY <2>1, <2>3, <2>4, <2>5, <3>1, TakingOrder
      DEF Ledger!GoogleSignUp, Ledger!ToOpen, ToOpen, AccountMap, SessionMap, LinkMap
    <3>. QED
      BY <2>1, <2>5, <3>2, TakingOrder DEF LedgerStep, Ledger!Next, Ledger!Taking, OrderMap
  <2>. QED BY <2>1, <2>4, <2>5 DEF StepProof, LedgerDone
<1>4. CASE Reject(r) /\ UNCHANGED <<users, auth_providers>>
  BY <1>1, <1>4, RejectProof DEF db
<1>. QED BY <1>2, <1>3, <1>4 DEF CreateGoogleUser

LEMMA LinkGoogleProof ==
  ASSUME IInv, IInv', Rely, Provenance, NEW r \in Requests, LinkGoogle(r)
  PROVE  StepProof(r)
<1>1. /\ pc[r] = "link" /\ loc[r] \in Locals /\ RequestOK(r)
      /\ TypeOK /\ TypeOK'
      /\ users \in [Addresses -> User \cup {None}]
      /\ UNCHANGED <<refresh_tokens, verification_tokens, locks>>
  BY DEF LinkGoogle, IInv, TypeOK
<1>2. PICK u \in Addresses, s \in Subs :
        /\ u = loc[r].user /\ s = call[r].cred
        /\ call[r].endpoint = "google" /\ users[u] # None
  BY <1>1 DEF RequestOK, EndpointsAt, CallOK, LocalsOK, KnowsUser
<1>3. normalize_email(u) = u
  BY <1>2 DEF Provenance, OneAccountPerMailbox
<1> DEFINE q == GoogleProvider(u, s)
<1>4. CASE /\ ~ProviderTaken(q)
           /\ auth_providers' = auth_providers \cup {q}
           /\ users' = [users EXCEPT ![u].is_email_verified = TRUE]
           /\ Goto(r, "issue", loc[r])
  <2>1. /\ q \in AuthProvider /\ q.user_id = u /\ q.provider = "google"
        /\ q.provider_user_id # None
        /\ Ledger!Linkable(s, u) /\ LinksOf' = LinksOf \cup {<<s, u>>}
        /\ UNCHANGED <<call, inbox>> /\ RequestProof(r)'
        /\ OrderOf(r) = None /\ OrderOf(r)' = ToOpen(u) /\ ToOpen(u) # None
    BY <1>1, <1>2, <1>4, GoogleWritten
  <2>2. /\ users'[u] = [users[u] EXCEPT !.is_email_verified = TRUE]
        /\ users[u] \in User
        /\ \A b \in Addresses \ {u} : users'[b] = users[b]
    BY <1>1, <1>2, <1>4
  <2>3. /\ users'[u] # None /\ users'[u].is_email_verified
        /\ users'[u].password_hash = users[u].password_hash
        /\ users'[u].resets = users[u].resets
    <3>1. users'[u] \in User BY <2>2 DEF User
    <3>. QED BY <2>2, <3>1, NoneAssumption DEF User
  <2>4. /\ RelyMore /\ RowProof' /\ PasswordStep
        /\ UNCHANGED <<SessionMap, LinkMap>>
        /\ AccountMap' = [AccountMap EXCEPT ![u] = AccountOf(u)']
    <3> HIDE DEF q
    <3>. QED BY <1>1, <1>2, <1>3, <1>4, <2>1, <2>2, <2>3, Linking
  <2>5. ASSUME OrderMoves(r) PROVE LedgerStep
    <3>1. AccountOf(u) # None BY <1>1, <1>2, RowsShown
    <3>2. AccountOf(u)' = [AccountOf(u) EXCEPT !.verified = TRUE]
      BY <1>1, <1>2, <2>3, AccountVerified
    <3>3. Ledger!GoogleLink(r, u, s)
      BY <2>1, <2>4, <2>5, <3>1, <3>2, TakingOrder
      DEF Ledger!GoogleLink, Ledger!ToOpen, ToOpen, AccountMap, SessionMap, LinkMap
    <3>. QED
      BY <2>1, <2>5, <3>3, TakingOrder DEF LedgerStep, Ledger!Next, Ledger!Taking, OrderMap
  <2>. QED BY <2>1, <2>4, <2>5 DEF StepProof, LedgerDone
<1>5. CASE Reply(r, [loc[r] EXCEPT !.status = "error"]) /\ UNCHANGED <<users, auth_providers>>
  <2> DEFINE l == [loc[r] EXCEPT !.status = "error"]
  <2>1. l \in Locals /\ l.status = "error" BY <1>1 DEF Locals
  <2>2. OrderOf(r)' = None
    BY <1>1, <1>5, <2>1, Going, OrderNames DEF OrderOf, Reply, Statements
  <2>. QED BY <1>1, <1>5, <2>1, <2>2, Dropping, ReadPlain DEF Reply, Statements, Consuming, db
<1>. QED BY <1>2, <1>4, <1>5 DEF LinkGoogle

-----------------------------------------------------------------------------
(* Mail and time *)

LEMMA AmbientProof ==
  ASSUME IInv, IInv', Rely, Provenance, RelyMore, RowProof',
         UNCHANGED <<locks, pc, call, loc>>
  PROVE  Provenance'
<1>1. \A q \in Requests : RequestProof(q)'
  BY ProofStable DEF Provenance
<1>. QED BY <1>1 DEF Provenance, RowProof

LEMMA MailProof ==
  ASSUME IInv, IInv', Rely, Provenance, NEW t \in TokenIds, DeliverMail(t) \/ LoseMail(t)
  PROVE  Provenance' /\ RelyMore /\ PasswordStep /\ LedgerStep
<1>1. /\ UNCHANGED <<users, auth_providers, refresh_tokens, verification_tokens,
                     locks, pc, call, loc>>
      /\ inbox \subseteq inbox'
  BY DEF DeliverMail, LoseMail, db
<1>2. /\ RelyMore /\ RowProof' /\ PasswordStep
      /\ UNCHANGED <<AccountMap, LinksOf, SessionMap>>
  BY <1>1, OnlyTokens DEF TokenRows
<1>3. UNCHANGED Ledger!vars
  BY <1>1, <1>2, LinksShown, OrdersStay DEF Ledger!vars, AccountMap, SessionMap, LinkMap, OrderMap
<1>. QED BY <1>1, <1>2, <1>3, AmbientProof DEF LedgerStep

LEMMA ExpireSessionProof ==
  ASSUME IInv, IInv', Rely, Provenance, NEW k \in RefreshIds, ExpireSession(k)
  PROVE  Provenance' /\ RelyMore /\ PasswordStep /\ LedgerStep
<1>1. /\ k \in Sessions
      /\ refresh_tokens[k] \in RefreshToken
      /\ refresh_tokens' = [refresh_tokens EXCEPT ![k].expired = TRUE]
      /\ refresh_tokens \in [RefreshIds -> RefreshToken \cup {None}]
      /\ UNCHANGED <<users, auth_providers, verification_tokens, inbox,
                     locks, pc, call, loc>>
  BY DEF ExpireSession, IInv, TypeOK, Sessions, mail
<1>2. /\ refresh_tokens'[k] = [refresh_tokens[k] EXCEPT !.expired = TRUE]
      /\ \A j \in RefreshIds \ {k} : refresh_tokens'[j] = refresh_tokens[j]
      /\ TypeOK /\ TypeOK' /\ k \in RefreshIds
  BY <1>1 DEF IInv, Sessions
<1>3. /\ RelyMore /\ RowProof' /\ PasswordStep
      /\ UNCHANGED <<AccountMap, LinksOf, LinkMap>>
  BY <1>1, OnlySessions
<1>4. SessionOf(k)' = [SessionOf(k) EXCEPT !.expired = TRUE] /\ SessionOf(k) # None
  BY <1>1, <1>2, SessionMarked, RowsShown DEF Sessions
<1>5. SessionMap' = [SessionMap EXCEPT ![k] = SessionOf(k)']
  BY <1>2, SessionsShown
<1>6. Ledger!Expire(k)
  BY <1>1, <1>2, <1>3, <1>4, <1>5, OrdersStay
  DEF Ledger!Expire, Ledger!Known, AccountMap, SessionMap, LinkMap, OrderMap
<1>7. LedgerStep BY <1>2, <1>6 DEF LedgerStep, Ledger!Next
<1>. QED BY <1>1, <1>3, <1>7, AmbientProof

LEMMA ExpireTokenProof ==
  ASSUME IInv, IInv', Rely, Provenance, NEW t \in TokenIds, ExpireToken(t)
  PROVE  Provenance' /\ RelyMore /\ PasswordStep /\ LedgerStep
<1>1. /\ t \in TokenRows
      /\ verification_tokens[t] \in VerificationToken
      /\ verification_tokens' = [verification_tokens EXCEPT ![t].expired = TRUE]
      /\ verification_tokens \in [TokenIds -> VerificationToken \cup {None}]
      /\ TypeOK /\ TypeOK'
      /\ UNCHANGED <<users, auth_providers, refresh_tokens, inbox, locks, pc, call, loc>>
  BY DEF ExpireToken, IInv, TypeOK, TokenRows, mail
<1>2. /\ verification_tokens'[t] = [verification_tokens[t] EXCEPT !.expired = TRUE]
      /\ verification_tokens'[t].used = verification_tokens[t].used
      /\ \A j \in TokenIds \ {t} : verification_tokens'[j] = verification_tokens[j]
  BY <1>1 DEF VerificationToken
<1>3. /\ RelyMore /\ RowProof' /\ PasswordStep
      /\ UNCHANGED <<AccountMap, LinksOf, SessionMap>>
  BY <1>1, <1>2, OnlyTokens DEF TokenRows
<1>4. Ledger!Lapse(t)
  <2>1. LinkOf(t)' = [LinkOf(t) EXCEPT !.expired = TRUE]
    BY <1>1, <1>2, LinkMarked
  <2>2. LinkMap' = [LinkMap EXCEPT ![t] = LinkOf(t)'] BY <1>1, <1>2, LinksShown DEF TokenRows
  <2>3. LinkOf(t) # None BY <1>1, RowsShown DEF TokenRows
  <2>. QED
    BY <1>1, <1>3, <2>1, <2>2, <2>3, OrdersStay
    DEF Ledger!Lapse, AccountMap, SessionMap, LinkMap, OrderMap, TokenRows
<1>5. LedgerStep BY <1>1, <1>4 DEF LedgerStep, Ledger!Next, TokenRows
<1>. QED BY <1>1, <1>3, <1>5, AmbientProof

-----------------------------------------------------------------------------
(* The theorems *)

(* A step of one request keeps where the writes of all come from. *)
LEMMA Together ==
  ASSUME IInv, IInv', Rely, Provenance, NEW r \in Requests, StepOK(r), StepProof(r)
  PROVE  Provenance' /\ RelyMore /\ PasswordStep /\ LedgerStep
BY OthersProof, Moving DEF StepOK, StepProof, LedgerDone

LEMMA RequestProves ==
  ASSUME IInv, IInv', Rely, Provenance, NEW r \in Requests,
         ClientCall(r) \/ LoseResponse(r) \/ Crash(r) \/ ServerStep(r)
  PROVE  Provenance' /\ RelyMore /\ PasswordStep /\ LedgerStep
<1>1. CASE ClientCall(r) BY <1>1, ClientCallOK, CallProof, Together
<1>2. CASE LoseResponse(r) BY <1>2, LoseResponseOK, EndProof, Together
<1>3. CASE Crash(r) BY <1>3, CrashOK, EndProof, Together
<1>4. CASE SessionStep(r)
  <2>1. CASE issue_refresh_token(r) BY <2>1, IssueOK, IssueProof, Together
  <2>2. CASE SelectRefresh(r) BY <2>2, SelectRefreshOK, SelectRefreshProof, Together
  <2>3. CASE RevokeOld(r) BY <2>3, RevokeOldOK, RevokeOldProof, Together
  <2>4. CASE CommitRotation(r) BY <2>4, CommitRotationOK, CommitRotationProof, Together
  <2>5. CASE revoke_refresh_token(r) BY <2>5, RevokeOK, RevokeProof, Together
  <2>. QED BY <1>4, <2>1, <2>2, <2>3, <2>4, <2>5 DEF SessionStep
<1>5. CASE TokenStep(r)
  <2>1. CASE SelectUserMail(r) BY <2>1, SelectUserMailOK, SelectUserMailProof, Together
  <2>2. CASE InsertToken(r) BY <2>2, InsertTokenOK, InsertTokenProof, Together
  <2>3. CASE SelectToken(r) BY <2>3, SelectTokenOK, SelectTokenProof, Together
  <2>4. CASE SelectOwner(r) BY <2>4, SelectOwnerOK, SelectOwnerProof, Together
  <2>5. CASE CommitVerify(r) BY <2>5, CommitVerifyOK, CommitVerifyProof, Together
  <2>6. CASE FlushReset(r) BY <2>6, FlushResetOK, FlushResetProof, Together
  <2>7. CASE SnapshotSessions(r) BY <2>7, SnapshotSessionsOK, SnapshotProof, Together
  <2>8. CASE \E k \in RefreshIds : RevokeSession(r, k)
    BY <2>8, RevokeSessionOK, RevokeSessionProof, Together
  <2>9. CASE CommitReset(r) BY <2>9, CommitResetOK, CommitResetProof, Together
  <2>. QED
    BY <1>5, <2>1, <2>2, <2>3, <2>4, <2>5, <2>6, <2>7, <2>8, <2>9 DEF TokenStep
<1>6. CASE AccountStep(r)
  <2>1. CASE CreateUser(r) BY <2>1, CreateUserOK, CreateUserProof, Together
  <2>2. CASE Authenticate(r) BY <2>2, AuthenticateOK, AuthenticateProof, Together
  <2>3. CASE SelectProvider(r) BY <2>3, SelectProviderOK, SelectProviderProof, Together
  <2>4. CASE SelectByEmail(r) BY <2>4, SelectByEmailOK, SelectByEmailProof, Together
  <2>5. CASE LinkGoogle(r) BY <2>5, LinkGoogleOK, LinkGoogleProof, Together
  <2>6. CASE CreateGoogleUser(r) BY <2>6, CreateGoogleUserOK, CreateGoogleUserProof, Together
  <2>. QED BY <1>6, <2>1, <2>2, <2>3, <2>4, <2>5, <2>6 DEF AccountStep
<1>7. CASE Respond(r) BY <1>7, RespondOK, EndProof, Together
<1>. QED BY <1>1, <1>2, <1>3, <1>4, <1>5, <1>6, <1>7 DEF ServerStep

LEMMA NextProves ==
  ASSUME IInv, Provenance, [Next]_vars
  PROVE  Provenance' /\ RelyMore /\ [PasswordStep]_vars /\ LedgerStep
<1>1. IInv' /\ Rely BY NextKeeps
<1>2. CASE Environment
  BY <1>1, <1>2, RequestProves, MailProof, ExpireSessionProof, ExpireTokenProof
  DEF Environment
<1>3. CASE \E r \in Requests : ServerStep(r)
  BY <1>1, <1>3, RequestProves
<1>4. CASE UNCHANGED vars
  <2>1. UNCHANGED <<db, inbox, locks, pc, call, loc>> BY <1>4 DEF vars, mail
  <2>2. RelyMore /\ RowProof' /\ TablesStay BY <1>1, <2>1, Unwritten
  <2>3. UNCHANGED Ledger!vars
    BY <2>1, <2>2, OrdersStay
    DEF Ledger!vars, TablesStay, AccountMap, SessionMap, LinkMap, OrderMap
  <2>. QED BY <1>1, <1>4, <2>1, <2>2, <2>3, AmbientProof DEF LedgerStep
<1>. QED BY <1>2, <1>3, <1>4 DEF Next

LEMMA InitiallyProved == Init => Provenance /\ Ledger!Init
<1> SUFFICES ASSUME Init PROVE Provenance /\ Ledger!Init
  OBVIOUS
<1>1. PICK hash \in [Registered -> Passwords] :
        users = [a \in Addresses |-> IF a \in Registered
                                       THEN NewUser(hash[a], TRUE) ELSE None]
  BY DEF Init
<1>2. /\ auth_providers = {PasswordProvider(a) : a \in Registered}
      /\ \A k \in RefreshIds : refresh_tokens[k] = None
      /\ \A t \in TokenIds : verification_tokens[t] = None
      /\ TokenRows = {}
      /\ Registered \subseteq Addresses
  BY RegisteredAssumption DEF Init, TokenRows
<1>3. OneAccountPerMailbox
  BY <1>1, RegisteredAssumption DEF OneAccountPerMailbox, normalize_email
<1>4. ProvidersUnique
  BY <1>2 DEF ProvidersUnique, PasswordProvider
<1>5. VerifiedByToken BY <1>2 DEF VerifiedByToken
<1>6. VerifiedNeedsProof BY <1>1 DEF VerifiedNeedsProof
<1>7. ASSUME NEW r \in Requests PROVE RequestProof(r)
  <2>1. /\ pc[r] = "idle" /\ locks[r] = {}
        /\ call[r].endpoint = None
    BY <1>7 DEF Init, NoCall
  <2>. QED
    BY <2>1, NoneAssumption DEF RequestProof, TokenProof, LockProof, GoogleProof,
       PasswordProof, Answered, Consuming, EndpointNames
<1>8. Ledger!Init
  <2>1. AccountMap \in [Addresses -> {None} \cup [password : Passwords, verified : {TRUE}]]
    BY <1>1, NewUserType DEF AccountMap, AccountOf, NewUser
  <2>2. SessionMap = [k \in RefreshIds |-> None]
    BY <1>2 DEF SessionMap, SessionOf
  <2>3. LinkMap = [t \in TokenIds |-> None]
    BY <1>2 DEF LinkMap, LinkOf
  <2>4. LinksOf = {} BY <1>2 DEF LinksOf, PasswordProvider
  <2>5. OrderMap = [r \in Requests |-> None]
    BY OrderNames DEF Init, OrderMap, OrderOf
  <2>. QED
    BY <2>1, <2>2, <2>3, <2>4, <2>5 DEF Ledger!Init, AccountMap, SessionMap, LinkMap, OrderMap
<1>. QED BY <1>3, <1>4, <1>5, <1>6, <1>7, <1>8 DEF Provenance

(* Whatever the endpoints of src/auth/service.py interleave, a token that   *)
(* is consumed was mailed to the account it changes, a session row that is  *)
(* locked is the request's to revoke, a Google login enters the account its *)
(* subject is linked to, and the rows keep their unique indexes.            *)
THEOREM WritesHaveCauses == Spec => []Provenance
<1>1. IInv /\ Provenance /\ [Next]_vars => Provenance' BY NextProves
<1>. QED BY <1>1, InitiallyProved, Inductive, PTL DEF Spec

(* The endpoints implement the ledger: every COMMIT of a handler is one     *)
(* whole operation (create_user, link_or_create_google_user,                *)
(* issue_refresh_token, rotate_refresh_token, verify_email, reset_password) *)
(* that the request was granted by its SELECT before, and no other step of  *)
(* a request changes an account, a session or a link.                       *)
THEOREM Refinement == Spec => ImplementsLedger
<1>1. IInv /\ Provenance /\ [Next]_vars => [Ledger!Next]_(Ledger!vars)
  BY NextProves DEF LedgerStep
<1>2. Init => Ledger!Init BY InitiallyProved
<1>. QED
  BY <1>1, <1>2, WritesHaveCauses, Inductive, PTL DEF Spec, ImplementsLedger, Ledger!Spec

(* reset_password alone changes a password, and only when it consumes a     *)
(* password-reset token that was mailed to that very account.               *)
THEOREM OnlyResetsChangePasswords == Spec => PasswordNeedsResetToken
<1>1. IInv /\ Provenance /\ [Next]_vars => [PasswordStep]_vars BY NextProves
<1>. QED
  BY <1>1, WritesHaveCauses, Inductive, PTL
  DEF Spec, PasswordNeedsResetToken, PasswordStep

(* Whoever is verified consumed a mailed token of its own (verify_email) or *)
(* came through Google (link_or_create_google_user).                        *)
THEOREM VerificationNeedsProof == Spec => []VerifiedNeedsProof
<1>1. Provenance => VerifiedNeedsProof BY DEF Provenance
<1>. QED BY <1>1, WritesHaveCauses, PTL

(* normalize_email maps every spelling of an address to the one account     *)
(* that create_user and path 3 of the Google login can make for it.         *)
THEOREM MailboxHasOneAccount == Spec => []OneAccountPerMailbox
<1>1. Provenance => OneAccountPerMailbox BY DEF Provenance
<1>. QED BY <1>1, WritesHaveCauses, PTL

(* reset_password and verify_email lose no update to each other or to a     *)
(* Google login that writes the same users row.                             *)
THEOREM WritesStick == Spec => []CommittedWritesStick
<1>1. Provenance => CommittedWritesStick
  BY DEF Provenance, RequestProof, PasswordProof, VerifiedByToken, CommittedWritesStick
<1>. QED BY <1>1, WritesHaveCauses, PTL

(* link_or_create_google_user enters the one account the subject is linked  *)
(* to, and that account is verified.                                        *)
THEOREM GoogleEntersLinkedAccount == Spec => []GoogleLoginsLinked
<1>1. IInv /\ Provenance => GoogleLoginsLinked
  <2> SUFFICES ASSUME IInv, Provenance, NEW r \in Requests, Answered(r, "google", "ok")
               PROVE  /\ {p \in auth_providers : p.provider_user_id = call[r].cred}
                            = {GoogleProvider(loc[r].user, call[r].cred)}
                      /\ users[loc[r].user].is_email_verified
    BY DEF GoogleLoginsLinked
  <2> DEFINE q == GoogleProvider(loc[r].user, call[r].cred)
  <2>1. q \in auth_providers /\ call[r].endpoint = "google"
    BY DEF Provenance, RequestProof, GoogleProof, Answered
  <2>2. call[r].cred # None
    BY <2>1, NoneAssumption DEF IInv, RequestOK, CallOK
  <2>3. /\ q.provider = "google" /\ q.provider_user_id = call[r].cred
        /\ q.user_id = loc[r].user
    BY DEF GoogleProvider
  <2>4. \A p \in auth_providers : p.provider_user_id = call[r].cred => p = q
    BY <2>1, <2>2, <2>3 DEF Provenance, ProvidersUnique
  <2>5. users[loc[r].user].is_email_verified
    BY <2>1, <2>3 DEF IInv, GoogleVerified
  <2>. QED BY <2>1, <2>3, <2>4, <2>5
<1>. QED BY <1>1, WritesHaveCauses, Inductive, PTL
=============================================================================
