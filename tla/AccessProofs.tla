---------------------------- MODULE AccessProofs ----------------------------
(***************************************************************************)
(* Proofs about AccessTokens, for every time to live, length of a second   *)
(* and skew of the clocks.                                                 *)
(***************************************************************************)
EXTENDS AccessTokens, TLAPS

-----------------------------------------------------------------------------
(* Whole seconds *)

(* Integer division rounds down. *)
LEMMA Division ==
  ASSUME NEW a \in Nat, NEW k \in Nat \ {0}
  PROVE  /\ a \div k \in Nat
         /\ k * (a \div k) <= a
         /\ a < k * (a \div k) + k
  BY SMTT(30)

(* A number is positive if its product with a positive number is greater    *)
(* than minus that number.                                                  *)
LEMMA Factor ==
  ASSUME NEW k \in Nat \ {0}, NEW d \in Int, k * d > -k
  PROVE  d >= 0
  <1> SUFFICES ASSUME d <= -1 PROVE k * d <= -k
    OBVIOUS
  <1> QED BY SMTT(30)

(* Times m seconds apart or less read at most m seconds apart. *)
LEMMA AtMost ==
  ASSUME NEW x \in Nat, NEW y \in Nat, NEW m \in Int, NEW k \in Nat \ {0},
         x <= y + m * k
  PROVE  x \div k <= y \div k + m
  <1> DEFINE p == x \div k
             q == y \div k
  <1>1. p \in Nat /\ q \in Nat /\ k * p <= x /\ y < k * q + k
    BY Division
  <1>2. k * p < k * q + k + m * k
    BY <1>1
  <1>3. k * (q + m - p) = k * q + m * k - k * p
    BY <1>1
  <1>4. k * (q + m - p) > -k
    BY <1>1, <1>2, <1>3
  <1>5. q + m - p >= 0
    BY <1>1, <1>4, Factor
  <1> QED BY <1>1, <1>5

-----------------------------------------------------------------------------
(* The invariant *)

Handed1(s) ==
  access[s] # None =>
    /\ minted[s] \in Skew..now
    /\ \E o \in Offsets : access[s].iat = (minted[s] + o) \div Second
    /\ access[s].exp = access[s].iat + Ttl
    /\ access[s].sub = owner[s]
Out1(u) ==
  out[u] # None =>
    /\ out[u] <= now
    /\ \A s \in SessionsOf(u) :
         /\ s \in ended /\ s \notin rotating \cup minting
         /\ access[s] # None => minted[s] <= out[u]

(* AInv, part by part. *)
LEMMA Parts ==
  AInv <=> TypeOK /\ (\A s \in Sessions : Handed1(s)) /\ (\A u \in Users : Out1(u))
  BY DEF AInv, Handed1, Out1

(* Every clock reads a natural number. *)
LEMMA ClocksRead ==
  ASSUME TypeOK
  PROVE  /\ \A w \in Workers : Clock(w) \in Nat /\ Seconds(w) \in Nat
         /\ \A w \in Workers : offset[w] \in Offsets /\ Clock(w) = now + offset[w]
  <1>1. \A w \in Workers : offset[w] \in Offsets /\ now + offset[w] \in Nat
    BY ClockAssumption DEF TypeOK, Offsets
  <1> QED BY <1>1, Division, ClockAssumption DEF Clock, Seconds

(* Init implies the invariant. *)
LEMMA AtInit ==
  ASSUME Init
  PROVE  AInv
  BY ClockAssumption, NoneAssumption DEF Init, AInv, TypeOK, SessionsOf, Offsets

(* A token handed out says the second of the clock. *)
LEMMA Encoded ==
  ASSUME TypeOK, NEW w \in Workers, NEW u \in Users
  PROVE  LET token == encode_access_token(w, u) IN
         /\ token \in Token /\ token # None
         /\ \E o \in Offsets : token.iat = (now + o) \div Second
         /\ token.exp = token.iat + Ttl
         /\ token.sub = u
  <1>1. Seconds(w) \in Nat /\ Seconds(w) = (now + offset[w]) \div Second /\ offset[w] \in Offsets
    BY ClocksRead DEF Seconds, Clock
  <1>2. Seconds(w) + Ttl \in Nat
    BY <1>1, ClockAssumption
  <1>3. encode_access_token(w, u) \in Token
    BY <1>1, <1>2 DEF encode_access_token, Token
  <1>4. encode_access_token(w, u) # None
    BY <1>1, <1>2, NoTokenAssumption DEF encode_access_token
  <1> QED BY <1>1, <1>3, <1>4 DEF encode_access_token

(* Every step keeps the invariant. *)
LEMMA AtStep ==
  ASSUME AInv, [Next]_vars
  PROVE  AInv'
  <1> USE ClockAssumption, NoneAssumption
  <1>p. TypeOK /\ (\A s \in Sessions : Handed1(s)) /\ (\A u \in Users : Out1(u))
    BY Parts
  <1>q. SUFFICES TypeOK' /\ (\A s \in Sessions : Handed1(s)') /\ (\A u \in Users : Out1(u)')
    BY DEF AInv, Handed1, Out1
  <1>1. CASE Tick
    <2>1. TypeOK'
      BY <1>1, <1>p DEF Tick, TypeOK, Handed, Clocks
    <2>2. \A s \in Sessions : Handed1(s)'
      BY <1>1, <1>p DEF Tick, TypeOK, Handed1, Handed
    <2>3. \A u \in Users : Out1(u)'
      BY <1>1, <1>p DEF Tick, TypeOK, Out1, SessionsOf, Handed
    <2> QED BY <2>1, <2>2, <2>3
  <1>2. CASE \E w \in Workers : \E o \in Offsets : SetClock(w, o)
    <2> PICK w \in Workers, o \in Offsets : SetClock(w, o)
      BY <1>2
    <2>1. TypeOK'
      BY <1>p DEF SetClock, TypeOK, Handed
    <2>2. \A s \in Sessions : Handed1(s)'
      BY <1>p DEF SetClock, Handed1, Handed
    <2>3. \A u \in Users : Out1(u)'
      BY <1>p DEF SetClock, Out1, SessionsOf, Handed
    <2> QED BY <2>1, <2>2, <2>3
  <1>3. CASE \E s \in Sessions, u \in Users : issue_refresh_token(s, u)
    <2> PICK s \in Sessions, u \in Users : issue_refresh_token(s, u)
      BY <1>3
    <2>1. TypeOK'
      BY <1>p DEF issue_refresh_token, TypeOK, Handed, Clocks
    <2>2. \A x \in Sessions : Handed1(x)'
      BY <1>p DEF issue_refresh_token, TypeOK, Handed1, Handed, Clocks, Token
    <2>3. \A v \in Users : Out1(v)'
      BY <1>p DEF issue_refresh_token, TypeOK, Out1, SessionsOf, Handed, Clocks
    <2> QED BY <2>1, <2>2, <2>3
  <1>4. CASE \E s \in Sessions : verify_refresh_token(s)
    <2> PICK s \in Sessions : verify_refresh_token(s)
      BY <1>4
    <2>1. TypeOK'
      BY <1>p DEF verify_refresh_token, TypeOK, Handed, Clocks
    <2>2. \A x \in Sessions : Handed1(x)'
      BY <1>p DEF verify_refresh_token, Handed1, Handed, Clocks
    <2>3. \A v \in Users : Out1(v)'
      BY <1>p DEF verify_refresh_token, TypeOK, Out1, SessionsOf, Handed, Clocks
    <2> QED BY <2>1, <2>2, <2>3
  <1>5. CASE \E s \in Sessions : Abandon(s)
    <2> PICK s \in Sessions : Abandon(s)
      BY <1>5
    <2>1. TypeOK'
      BY <1>p DEF Abandon, Outs, TypeOK, Handed, Clocks
    <2>2. \A x \in Sessions : Handed1(x)'
      BY <1>p DEF Abandon, Handed1, Handed, Clocks
    <2>3. \A v \in Users : Out1(v)'
      BY <1>p DEF Abandon, Outs, Busy, TypeOK, Handed1, Out1, SessionsOf, Handed, Clocks
    <2> QED BY <2>1, <2>2, <2>3
  <1>6. CASE \E s \in Sessions : EndSession(s)
    <2> PICK s \in Sessions : EndSession(s)
      BY <1>6
    <2>1. TypeOK'
      BY <1>p DEF EndSession, Outs, TypeOK, Handed, Clocks
    <2>2. \A x \in Sessions : Handed1(x)'
      BY <1>p DEF EndSession, Handed1, Handed, Clocks
    <2>3. \A v \in Users : Out1(v)'
      BY <1>p DEF EndSession, Outs, Busy, TypeOK, Handed1, Out1, SessionsOf, Handed, Clocks
    <2> QED BY <2>1, <2>2, <2>3
  <1>7. CASE \E s, next \in Sessions : rotate_refresh_token(s, next)
    <2> PICK s \in Sessions, next \in Sessions : rotate_refresh_token(s, next)
      BY <1>7
    <2>1. TypeOK'
      BY <1>p DEF rotate_refresh_token, TypeOK, Handed, Clocks
    <2>2. \A x \in Sessions : Handed1(x)'
      BY <1>p DEF rotate_refresh_token, TypeOK, Handed1, Handed, Clocks, Token
    <2>3. \A v \in Users : Out1(v)'
      BY <1>p DEF rotate_refresh_token, TypeOK, Out1, SessionsOf, Handed, Clocks
    <2> QED BY <2>1, <2>2, <2>3
  <1>8. CASE \E w \in Workers, s \in Sessions : HandOut(w, s)
    <2> PICK w \in Workers, s \in Sessions : HandOut(w, s)
      BY <1>8
    <2>0. owner[s] \in Users
      BY <1>p DEF HandOut, TypeOK
    <2> DEFINE token == encode_access_token(w, owner[s])
    <2>t. /\ token \in Token /\ token # None
          /\ \E o \in Offsets : token.iat = (now + o) \div Second
          /\ token.exp = token.iat + Ttl
          /\ token.sub = owner[s]
      BY <2>0, <1>p, Encoded
    <2>e. /\ access' = [access EXCEPT ![s] = token]
          /\ minted' = [minted EXCEPT ![s] = now]
          /\ minting' = minting \ {s} /\ s \in minting
          /\ UNCHANGED <<now, offset, users, owner, ended, rotating>>
          /\ out' = Outs
      BY DEF HandOut, Clocks
    <2> HIDE DEF token
    <2>1. TypeOK'
      BY <1>p, <2>t, <2>e DEF Outs, TypeOK
    <2>2. \A x \in Sessions : Handed1(x)'
      <3> TAKE x \in Sessions
      <3>1. CASE x = s
        BY <3>1, <1>p, <2>t, <2>e DEF TypeOK, Handed1
      <3>2. CASE x # s
        BY <3>2, <1>p, <2>e DEF TypeOK, Handed1
      <3> QED BY <3>1, <3>2
    <2>3. \A v \in Users : Out1(v)'
      BY <1>p, <2>t, <2>e DEF Outs, Busy, TypeOK, Handed1, Out1, SessionsOf
    <2> QED BY <2>1, <2>2, <2>3
  <1>9. CASE \E u \in Users : RemoveUser(u)
    <2> PICK u \in Users : RemoveUser(u)
      BY <1>9
    <2>1. TypeOK'
      BY <1>p DEF RemoveUser, TypeOK, Handed, Clocks, SessionsOf
    <2>2. \A x \in Sessions : Handed1(x)'
      BY <1>p DEF RemoveUser, Handed1, Handed, Clocks
    <2>3. \A v \in Users : Out1(v)'
      BY <1>p DEF RemoveUser, TypeOK, Out1, SessionsOf, Handed, Clocks
    <2> QED BY <2>1, <2>2, <2>3
  <1>10. CASE UNCHANGED vars
    <2>1. TypeOK'
      BY <1>10, <1>p DEF vars, TypeOK
    <2>2. \A x \in Sessions : Handed1(x)'
      BY <1>10, <1>p DEF vars, Handed1
    <2>3. \A v \in Users : Out1(v)'
      BY <1>10, <1>p DEF vars, Out1, SessionsOf
    <2> QED BY <2>1, <2>2, <2>3
  <1> QED
    BY <1>1, <1>2, <1>3, <1>4, <1>5, <1>6, <1>7, <1>8, <1>9, <1>10 DEF Next

-----------------------------------------------------------------------------
(* The theorems *)

(* What each token tells, and that a user who is out has no way to another. *)
THEOREM AccessInductive == Spec => []AInv
  BY AtInit, AtStep, PTL DEF Spec

(* A token of age Ttl (and twice the skew) has expired on every clock. *)
LEMMA TooOld ==
  ASSUME AInv, NEW s \in Sessions, NEW w \in Workers, access[s] # None,
         Age(s) >= Ttl * Second + 2 * Skew
  PROVE  get_current_user(w, access[s]) = None
  <1> USE ClockAssumption
  <1>1. TypeOK /\ Handed1(s)
    BY Parts
  <1>2. PICK o \in Offsets : access[s].iat = (minted[s] + o) \div Second
    BY <1>1 DEF Handed1
  <1>3. /\ minted[s] \in Nat /\ minted[s] + o \in Nat /\ access[s].exp = access[s].iat + Ttl
        /\ access[s].iat \in Nat
    BY <1>1, <1>2, Division DEF Handed1, Offsets, TypeOK
  <1>4. Clock(w) \in Nat /\ offset[w] \in Offsets /\ Clock(w) = now + offset[w]
    BY <1>1, ClocksRead
  <1>5. now \in Nat /\ Ttl * Second \in Nat /\ (-Ttl) * Second = -(Ttl * Second)
    BY <1>1 DEF TypeOK
  <1>6. minted[s] + o <= Clock(w) + (-Ttl) * Second
    BY <1>3, <1>4, <1>5 DEF Age, Offsets
  <1>7. (minted[s] + o) \div Second <= Clock(w) \div Second + (-Ttl)
    BY <1>3, <1>4, <1>6, AtMost
  <1>8. access[s].exp <= Seconds(w)
    BY <1>2, <1>3, <1>7, <1>4, Division DEF Seconds
  <1> QED BY <1>8 DEF get_current_user, decode_access_token, Expired

(* No token works longer than the time to live, on any worker. *)
THEOREM ExpiredRefused == Spec => []OldTokensRefused
  <1>1. AInv => OldTokensRefused
    BY TooOld DEF OldTokensRefused
  <1> QED BY <1>1, AccessInductive, PTL

(* A token works until the last second of its time to live, on every worker *)
(* whose clock is not behind the one that signed it. *)
THEOREM FreshAccepted == Spec => []GoodTokensAccepted
  <1>1. ASSUME AInv, NEW s \in Sessions, NEW w \in Workers, access[s] # None,
               access[s].sub \in users,
               Age(s) \in 2 * Skew .. (Ttl - 1) * Second - 2 * Skew
        PROVE  get_current_user(w, access[s]) = access[s].sub
    <2> USE ClockAssumption
    <2>1. TypeOK /\ Handed1(s)
      BY <1>1, Parts
    <2>2. PICK o \in Offsets : access[s].iat = (minted[s] + o) \div Second
      BY <1>1, <2>1 DEF Handed1
    <2>3. /\ minted[s] \in Nat /\ minted[s] + o \in Nat
          /\ access[s].exp = access[s].iat + Ttl
      BY <1>1, <2>1 DEF Handed1, Offsets, TypeOK
    <2>4. Clock(w) \in Nat /\ offset[w] \in Offsets /\ Clock(w) = now + offset[w]
      BY <2>1, ClocksRead
    <2>5. now \in Nat /\ (Ttl - 1) * Second \in Int
      BY <2>1 DEF TypeOK
    <2>6. minted[s] + o <= Clock(w) + 0 * Second
      BY <1>1, <2>3, <2>4, <2>5 DEF Age, Offsets
    <2>7. Clock(w) <= (minted[s] + o) + (Ttl - 1) * Second
      BY <1>1, <2>3, <2>4, <2>5 DEF Age, Offsets
    <2>8. /\ (minted[s] + o) \div Second <= Clock(w) \div Second + 0
          /\ Clock(w) \div Second <= (minted[s] + o) \div Second + (Ttl - 1)
      BY <2>3, <2>4, <2>6, <2>7, AtMost
    <2>9. /\ (minted[s] + o) \div Second \in Nat
          /\ Clock(w) \div Second \in Nat
      BY <2>3, <2>4, Division
    <2>10. access[s].iat <= Seconds(w) /\ Seconds(w) < access[s].exp
      BY <2>2, <2>3, <2>8, <2>9 DEF Seconds
    <2>11. access[s].iat \in Nat /\ access[s].exp \in Nat /\ Seconds(w) \in Nat
      BY <2>2, <2>3, <2>9 DEF Seconds
    <2> QED BY <1>1, <2>10, <2>11 DEF get_current_user, decode_access_token, Expired, Immature
  <1>2. AInv => GoodTokensAccepted
    BY <1>1 DEF GoodTokensAccepted
  <1> QED BY <1>2, AccessInductive, PTL

(* Logging out everywhere takes effect after the time to live at the latest. *)
THEOREM OutMeansOut == Spec => []LogoutsTakeEffect
  <1>1. ASSUME AInv, NEW u \in Users, out[u] # None,
               now - out[u] >= Ttl * Second + 2 * Skew,
               NEW s \in Sessions, NEW w \in Workers
        PROVE  get_current_user(w, access[s]) # u
    <2> USE ClockAssumption, NoneAssumption
    <2>1. TypeOK /\ Handed1(s) /\ Out1(u)
      BY <1>1, Parts
    <2>2. CASE access[s] = None
      BY <2>2 DEF get_current_user
    <2>3. CASE access[s] # None /\ access[s].sub # u
      BY <2>3 DEF get_current_user
    <2>4. CASE access[s] # None /\ access[s].sub = u
      <3>1. s \in SessionsOf(u)
        BY <2>1, <2>4 DEF Handed1, SessionsOf
      <3>2. minted[s] <= out[u]
        BY <1>1, <2>1, <2>4, <3>1 DEF Out1
      <3>3. minted[s] \in Nat /\ out[u] \in Nat /\ now \in Nat /\ Ttl * Second + 2 * Skew \in Nat
        BY <1>1, <2>1, <2>4 DEF TypeOK, Handed1
      <3>4. Age(s) >= Ttl * Second + 2 * Skew
        BY <1>1, <3>2, <3>3 DEF Age
      <3> QED BY <1>1, <2>4, <3>4, TooOld
    <2> QED BY <2>2, <2>3, <2>4
  <1>2. AInv => LogoutsTakeEffect
    BY <1>1 DEF LogoutsTakeEffect
  <1> QED BY <1>2, AccessInductive, PTL
=============================================================================
