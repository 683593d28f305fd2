----------------------------- MODULE RateLimit -----------------------------
(***************************************************************************)
(* Rate limiting as slowapi does it for src/core/rate_limit.py: one client *)
(* address on one route, whose limits ("5/minute;30/hour") are tried in    *)
(* order.                                                                  *)
(*                                                                         *)
(* Each limit counts in a fixed window that opens with its first hit.      *)
(* Counters live in a store: one per worker process with "memory://", one  *)
(* for all workers with a redis:// URL.  Any worker may get the next       *)
(* request.  Time is what is left of each window, so it has no bound.      *)
(***************************************************************************)
EXTENDS Naturals, FiniteSets, FiniteSetsExt

CONSTANTS
  Stores,    \* counter stores
  Volatile,  \* whether a store forgets when its worker restarts
  Limits,    \* 1..n, the limits of the route in the order they are tried
  Amount, Period, \* of each limit: hits, and ticks its window is open
  Longest    \* how many ticks back history goes: no period is longer

ASSUME LimitsAssumption ==
  /\ Limits # {} /\ IsFiniteSet(Limits) /\ Limits = 1..Cardinality(Limits)
  /\ Amount \in [Limits -> Nat \ {0}]
  /\ Longest \in Nat
  /\ Period \in [Limits -> 1..Longest]
ASSUME VolatileAssumption == Volatile \in BOOLEAN

VARIABLES
  window,   \* window[s][i]: hits counted, and ticks until it closes
  reply,    \* how the last attempt was answered
  recent,   \* history: recent[s][n], attempts let through in the last n ticks
  calm      \* history: ticks since the store last forgot

limitVars == <<window, reply, recent, calm>>

Spans == 0..Longest
Last == Max(Limits)

(* No counter is read beyond its limit: hits are counted up to one more     *)
(* than the amount, and that is enough to refuse.                           *)
Closed == [hits |-> 0, left |-> 0]
Count(n, i) == IF n > Amount[i] THEN n ELSE n + 1

(* Mutant: elastic expiry, every hit opens the window anew.               *)
HitProlongs(w, i) == [hits |-> Count(w.hits, i), left |-> Period[i]]
Hit(w, i) ==
  IF w.left = 0 THEN [hits |-> 1, left |-> Period[i]]
  ELSE [w EXCEPT !.hits = Count(w.hits, i)]

(* Mutant: `<=` on the count before the hit.                              *)
PassesOneMore(s, i) == window[s][i].hits <= Amount[i]
Passes(s, i) == Hit(window[s][i], i).hits <= Amount[i]

(* The limits an attempt hits: one that fails is counted and ends the       *)
(* check.                                                                   *)
(* Mutant: "30/hour;5/minute", the longer limit is tried first.           *)
CheckedLongestFirst(s) == {i \in Limits : \A j \in Limits : j > i => Passes(s, j)}
Checked(s) == {i \in Limits : \A j \in Limits : j < i => Passes(s, j)}

(* slowapi adds Retry-After only when the Limiter is told to.               *)
headers_enabled == FALSE
Answer(status) == [status |-> status, retry_after |-> 0]
rate_limit_exceeded_handler(s) ==
  [Answer(429) EXCEPT !.retry_after =
     IF headers_enabled THEN Max({window[s][i].left : i \in Checked(s)}) ELSE 0]

Attempt(s) ==
  /\ window' = [window EXCEPT ![s] = [i \in Limits |->
       IF i \in Checked(s) THEN Hit(window[s][i], i) ELSE window[s][i]]]
  /\ UNCHANGED calm

Open(s) == \A i \in Limits : Passes(s, i)

Serve(s) ==
  /\ Open(s)
  /\ Attempt(s)
  /\ reply' = Answer(200)
  /\ recent' = [recent EXCEPT ![s] =
       [n \in Spans |-> IF n = 0 THEN 0 ELSE recent[s][n] + 1]]

Refuse(s) ==
  /\ ~Open(s)
  /\ Attempt(s)
  /\ reply' = rate_limit_exceeded_handler(s)
  /\ UNCHANGED recent

(* Mutant: the count of a window that has closed is kept.                 *)
AgedKeeping(w) == [w EXCEPT !.left = IF @ = 0 THEN 0 ELSE @ - 1]
Aged(w) == IF w.left <= 1 THEN Closed ELSE [w EXCEPT !.left = @ - 1]

(* A tick: every open window has one less to go, and history gets older.    *)
Tick ==
  /\ window' = [s \in Stores |-> [i \in Limits |-> Aged(window[s][i])]]
  /\ recent' = [s \in Stores |->
       [n \in Spans |-> IF n = 0 THEN 0 ELSE recent[s][n - 1]]]
  /\ calm' = [s \in Stores |-> IF calm[s] = Longest THEN Longest ELSE calm[s] + 1]
  /\ UNCHANGED reply

(* The worker is restarted and its memory is gone.  A bound of the model:   *)
(* once in a tick.                                                          *)
Restart(s) ==
  /\ Volatile
  /\ calm[s] > 0
  /\ window' = [window EXCEPT ![s] = [i \in Limits |-> Closed]]
  /\ calm' = [calm EXCEPT ![s] = 0]
  /\ UNCHANGED <<reply, recent>>

LimitInit ==
  /\ window = [s \in Stores |-> [i \in Limits |-> Closed]]
  /\ reply = Answer(0)
  /\ recent = [s \in Stores |-> [n \in Spans |-> 0]]
  /\ calm = [s \in Stores |-> Longest]

LimitNext ==
  \/ Tick
  \/ \E s \in Stores : Serve(s) \/ Refuse(s) \/ Restart(s)

LimitSpec == LimitInit /\ [][LimitNext]_limitVars

-----------------------------------------------------------------------------
(* Properties *)

LimitTypeOK ==
  /\ window \in [Stores -> [Limits -> [hits : Nat, left : Nat]]]
  /\ \A s \in Stores, i \in Limits :
       /\ window[s][i].hits \in 0..(Amount[i] + 1)
       /\ window[s][i].left \in 0..Period[i]
       /\ window[s][i].left = 0 <=> window[s][i].hits = 0
  /\ reply \in [status : {0, 200, 429}, retry_after : 0..Longest]
  /\ recent \in [Stores -> [Spans -> Nat]]
  /\ calm \in [Stores -> 0..Longest]

(* "n per period" is a promise about fixed windows: within the length of    *)
(* any period, wherever it begins, up to 2n - 1 attempts get through, and   *)
(* as many for each worker that counts in its own memory.                   *)
BurstBound ==
  \A s \in Stores, i \in Limits :
    calm[s] >= Period[i] => recent[s][Period[i]] <= 2 * Amount[i] - 1

(* A client is locked out by the last limit ("30/hour") only after so many  *)
(* attempts got through: what the earlier limit ("5/minute") refuses does   *)
(* not count on it.                                                         *)
LongLimitCountsServed ==
  [][\A s \in Stores :
       Refuse(s) /\ Last \in Checked(s) => recent[s][Period[Last]] >= Amount[Last]
    ]_limitVars

(* Refused attempts do not prolong a window: a client that never stops      *)
(* trying is let in again and again.                                        *)
LetInAgain == \A s \in Stores : []<>Open(s)

(* "Return a 429 in the API's standard shape, with Retry-After."            *)
RefusalsSayWhen == reply.status = 429 => reply.retry_after > 0
=============================================================================
