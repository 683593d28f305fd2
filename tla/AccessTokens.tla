---------------------------- MODULE AccessTokens ----------------------------
(***************************************************************************)
(* JWT access tokens: src/auth/tokens.py, src/auth/dependencies.py and the *)
(* endpoints that hand one out, with the clocks of several workers.        *)
(*                                                                         *)
(* A token is checked without looking at the session it came with, so it   *)
(* outlives a logout or a reset until it expires.  Tokens count in whole   *)
(* seconds, time passes in ticks, and a worker's clock is off by up to     *)
(* Skew ticks and may be set back.  All workers have one secret_key.       *)
(***************************************************************************)
EXTENDS Integers

CONSTANTS
  Users, Workers,
  Sessions,  \* rows of refresh_tokens
  Second,    \* ticks of a second
  Ttl,       \* access_token_ttl_minutes, in seconds
  Skew,      \* ticks a clock may be off
  Horizon,   \* a bound of the model: the last tick
  None

ASSUME ClockAssumption ==
  /\ Second \in Nat \ {0} /\ Ttl \in Nat \ {0}
  /\ Skew \in Nat /\ Horizon \in Nat
ASSUME NoneAssumption == None \notin Users /\ None \notin Int
ASSUME NoTokenAssumption == None \notin [sub : Users, iat : Int, exp : Int]

VARIABLES
  now,       \* history: true time
  offset,    \* how far each worker's clock is off
  users,     \* ids in the users table
  owner,     \* the user of each session
  ended,     \* sessions that are revoked or have expired
  rotating,  \* sessions that refreshes in flight, one or more, found valid
  minting,   \* sessions a request in flight has opened
  access,    \* the access token handed out with each session
  minted,    \* history: when it was
  out        \* history: since when a user has no session and no request in
             \* flight that opens one, if not logged in since

vars == <<now, offset, users, owner, ended, rotating, minting, access, minted, out>>

Offsets == -Skew..Skew
Clock(w) == now + offset[w]
(* int(_.timestamp()), and what PyJWT compares with: exp and iat are whole, *)
(* so the fraction of the clock tells nothing.                              *)
Seconds(w) == Clock(w) \div Second

(* Mutant: the expiry is rounded up.                                      *)
EncodeRoundedUp(w, user) ==
  [sub |-> user, iat |-> Seconds(w), exp |-> Seconds(w) + Ttl + 1]
encode_access_token(w, user) ==
  [sub |-> user, iat |-> Seconds(w), exp |-> Seconds(w) + Ttl]

(* What jwt.decode makes of a token this code has signed.                   *)
Immature(w, token) == token.iat > Seconds(w)
Expired(w, token) == token.exp <= Seconds(w)

(* Mutant: nbf-like margin, a token counts from the second after its iat. *)
DecodesLate(w, token) == token.iat < Seconds(w) /\ ~Expired(w, token)
decode_access_token(w, token) == ~Immature(w, token) /\ ~Expired(w, token)

(* The user a worker takes the bearer of a token for, if any.               *)
get_current_user(w, token) ==
  IF token # None /\ decode_access_token(w, token) /\ token.sub \in users
  THEN token.sub ELSE None

-----------------------------------------------------------------------------
SessionsOf(u) == {s \in Sessions : owner[s] = u}
Busy(u) == \E s \in SessionsOf(u) : s \notin ended \/ s \in rotating \cup minting
Outs == [u \in Users |-> IF out[u] = None /\ ~Busy(u)' THEN now ELSE out[u]]
Clocks == <<now, offset>>
Handed == <<access, minted>>

(* issue_refresh_token, for a login of either kind.                         *)
issue_refresh_token(s, u) ==
  /\ u \in users
  /\ owner[s] = None
  /\ owner' = [owner EXCEPT ![s] = u]
  /\ minting' = minting \cup {s}
  /\ out' = [out EXCEPT ![u] = None]
  /\ UNCHANGED <<Clocks, users, ended, rotating, Handed>>

(* rotate_refresh_token: the session is validated, and replaced some awaits *)
(* later, without looking again.  Several refreshes may have validated one  *)
(* session: the next of them may still come when one has replaced it.       *)
(* Mutants: a session that has ended is rotated as well; a row that is not  *)
(* there is.                                                                *)
ValidateAny(s) ==
  /\ owner[s] # None
  /\ rotating' = rotating \cup {s}
  /\ UNCHANGED <<Clocks, users, owner, ended, minting, Handed, out>>
ValidateUnknown(s) ==
  /\ s \notin ended
  /\ rotating' = rotating \cup {s}
  /\ UNCHANGED <<Clocks, users, owner, ended, minting, Handed, out>>
verify_refresh_token(s) ==
  /\ owner[s] # None
  /\ s \notin ended
  /\ rotating' = rotating \cup {s}
  /\ UNCHANGED <<Clocks, users, owner, ended, minting, Handed, out>>
rotate_refresh_token(s, next) ==
  /\ s \in rotating
  /\ owner[next] = None
  /\ owner' = [owner EXCEPT ![next] = owner[s]]
  /\ ended' = ended \cup {s}
  /\ rotating' \in {rotating, rotating \ {s}}
  /\ minting' = minting \cup {next}
  /\ UNCHANGED <<Clocks, users, Handed, out>>

(* The access token is signed after the COMMIT.                             *)
HandOut(w, s) ==
  /\ s \in minting
  /\ access' = [access EXCEPT ![s] = encode_access_token(w, owner[s])]
  /\ minted' = [minted EXCEPT ![s] = now]
  /\ minting' = minting \ {s}
  /\ UNCHANGED <<Clocks, users, owner, ended, rotating>>
  /\ out' = Outs

(* A request dies, or is a Google login: its token comes with a refresh.    *)
Abandon(s) ==
  /\ s \in rotating \cup minting
  /\ rotating' = rotating \ {s}
  /\ minting' = minting \ {s}
  /\ UNCHANGED <<Clocks, users, owner, ended, Handed>>
  /\ out' = Outs

(* logout, reset_password, or the session's own expiry.                     *)
EndSession(s) ==
  /\ owner[s] # None
  /\ s \notin ended
  /\ ended' = ended \cup {s}
  /\ UNCHANGED <<Clocks, users, owner, rotating, minting, Handed>>
  /\ out' = Outs

(* A user row goes, and its sessions with it: nothing in src does it, but   *)
(* get_current_user is ready for it.                                        *)
RemoveUser(u) ==
  /\ u \in users
  /\ users' = users \ {u}
  /\ ended' = ended \cup SessionsOf(u)
  /\ rotating' = rotating \ SessionsOf(u)
  /\ UNCHANGED <<Clocks, owner, minting, Handed, out>>

Tick ==
  /\ now < Horizon
  /\ now' = now + 1
  /\ UNCHANGED <<offset, users, owner, ended, rotating, minting, Handed, out>>

SetClock(w, o) ==
  /\ offset' = [offset EXCEPT ![w] = o]
  /\ UNCHANGED <<now, users, owner, ended, rotating, minting, Handed, out>>

Init ==
  /\ now = Skew
  /\ offset \in [Workers -> Offsets]
  /\ users = Users
  /\ owner = [s \in Sessions |-> None]
  /\ ended = {} /\ rotating = {} /\ minting = {}
  /\ access = [s \in Sessions |-> None]
  /\ minted = [s \in Sessions |-> None]
  /\ out = [u \in Users |-> now]

Next ==
  \/ Tick
  \/ \E w \in Workers : \E o \in Offsets : SetClock(w, o)
  \/ \E s \in Sessions, u \in Users : issue_refresh_token(s, u)
  \/ \E s \in Sessions :
       \/ verify_refresh_token(s) \/ Abandon(s) \/ EndSession(s)
       \/ \E next \in Sessions : rotate_refresh_token(s, next)
       \/ \E w \in Workers : HandOut(w, s)
  \/ \E u \in Users : RemoveUser(u)

Spec == Init /\ [][Next]_vars

-----------------------------------------------------------------------------
(* Properties *)

Token == [sub : Users, iat : Nat, exp : Nat]
TypeOK ==
  /\ now \in Nat /\ now >= Skew
  /\ offset \in [Workers -> Offsets]
  /\ users \in SUBSET Users
  /\ owner \in [Sessions -> {None} \cup Users]
  /\ ended \in SUBSET Sessions /\ rotating \in SUBSET Sessions
  /\ minting \in SUBSET Sessions
  /\ access \in [Sessions -> {None} \cup Token]
  /\ minted \in [Sessions -> {None} \cup Nat]
  /\ out \in [Users -> {None} \cup Nat]
  /\ \A s \in Sessions : access[s] = None <=> minted[s] = None
  /\ \A s \in rotating \cup minting : owner[s] # None

Age(s) == now - minted[s]

(* A token is no good after the time to live, whatever second it was        *)
(* handed out in and whichever worker's clock it meets.                     *)
OldTokensRefused ==
  \A s \in Sessions, w \in Workers :
    access[s] # None /\ Age(s) >= Ttl * Second + 2 * Skew =>
      get_current_user(w, access[s]) = None

(* And good until the last second of it, at every worker: only for twice    *)
(* the skew may another worker refuse it as not valid yet.                  *)
GoodTokensAccepted ==
  \A s \in Sessions, w \in Workers :
    /\ access[s] # None
    /\ access[s].sub \in users
    /\ Age(s) \in 2 * Skew .. (Ttl - 1) * Second - 2 * Skew
    => get_current_user(w, access[s]) = access[s].sub

(* Once all sessions of a user have ended (a reset, logouts) and no request *)
(* is about to open one, nobody is taken for the user any more after the    *)
(* time to live, until the next login.                                      *)
LogoutsTakeEffect ==
  \A u \in Users :
    out[u] # None /\ now - out[u] >= Ttl * Second + 2 * Skew =>
      \A s \in Sessions, w \in Workers : get_current_user(w, access[s]) # u

(* What the proofs need: a token tells the second some worker's clock read  *)
(* when it was handed out, and a user who is out has no way to a new one.   *)
AInv ==
  /\ TypeOK
  /\ \A s \in Sessions : access[s] # None =>
       /\ minted[s] \in Skew..now
       /\ \E o \in Offsets : access[s].iat = (minted[s] + o) \div Second
       /\ access[s].exp = access[s].iat + Ttl
       /\ access[s].sub = owner[s]
  /\ \A u \in Users : out[u] # None =>
       /\ out[u] <= now
       /\ \A s \in SessionsOf(u) :
            /\ s \in ended /\ s \notin rotating \cup minting
            /\ access[s] # None => minted[s] <= out[u]
=============================================================================
