--------------------------- MODULE RecoveryProofs ---------------------------
(***************************************************************************)
(* What RateLimit promises of the limiter for every number of stores,      *)
(* limits, amounts and periods, and that Recovery, the limiter together    *)
(* with the user it guards, only ever moves it as RateLimit says.          *)
(*                                                                         *)
(* The invariant relates a window to the history of the attempts let       *)
(* through.  A window that opened Age ticks ago has counted every attempt  *)
(* let through since; what came before it was let through by the window    *)
(* that had closed by then, and at least one of that window's attempts is  *)
(* too old to fall into the same period.                                   *)
(***************************************************************************)
EXTENDS Recovery, FiniteSetTheorems, TLAPS

Least(a, b) == IF a <= b THEN a ELSE b

Age(s, i) == Period[i] - window[s][i].left
Counted(s, i) == Least(window[s][i].hits, Amount[i])
(* A period back, or to when the store last forgot.                         *)
Reach(s, i) == Least(calm[s], Period[i])

HistoryGrows(s) ==
  /\ recent[s][0] = 0
  /\ \A m, n \in Spans : m <= n => recent[s][m] <= recent[s][n]

ClosedWindow(s, i) ==
  window[s][i].left = 0 =>
    /\ recent[s][Reach(s, i)] <= Amount[i] - 1
    /\ calm[s] >= 1 => recent[s][1] = 0

OpenWindow(s, i) ==
  window[s][i].left > 0 =>
    /\ Age(s, i) <= calm[s]
    /\ recent[s][Age(s, i)] <= Counted(s, i) - 1
    /\ Age(s, i) < calm[s] =>
         /\ recent[s][Age(s, i) + 1] <= Counted(s, i)
         /\ recent[s][Reach(s, i)] <= recent[s][Age(s, i) + 1] + Amount[i] - 1

(* The last limit counts nothing that was not let through.                  *)
LastWindow(s) ==
  window[s][Last].left > 0 => Counted(s, Last) <= recent[s][Age(s, Last) + 1]

LimitInv ==
  /\ LimitTypeOK
  /\ \A s \in Stores :
       /\ HistoryGrows(s)
       /\ LastWindow(s)
       /\ \A i \in Limits : ClosedWindow(s, i) /\ OpenWindow(s, i)

-----------------------------------------------------------------------------
(* Lemmas about the operators *)

(* The last of the limits 1..n is n, and every limit is tried before it.    *)
LEMMA LastIsLast ==
  Last \in Limits /\ Limits \subseteq Nat /\ \A i \in Limits : i <= Last
<1>1. Cardinality(Limits) \in Nat
  BY LimitsAssumption, FS_CardinalityType
<1>2. /\ Cardinality(Limits) \in Limits
      /\ \A i \in Limits : i \in Nat /\ Cardinality(Limits) >= i
  BY <1>1, LimitsAssumption
<1>3. Last \in Limits /\ \A i \in Limits : Last >= i
  BY <1>2 DEF Last, Max
<1> QED
  BY <1>2, <1>3

(* What a hit makes of a window.                                            *)
LEMMA HitCounts ==
  ASSUME NEW i \in Limits, NEW w, w \in [hits : Nat, left : Nat],
         w.hits \in 0..(Amount[i] + 1), w.left \in 0..Period[i],
         w.left = 0 <=> w.hits = 0
  PROVE  /\ Hit(w, i) \in [hits : Nat, left : Nat]
         /\ Hit(w, i).hits \in 1..(Amount[i] + 1)
         /\ Hit(w, i).left \in 1..Period[i]
         /\ w.left = 0 => Hit(w, i).hits = 1 /\ Hit(w, i).left = Period[i]
         /\ w.left > 0 =>
              /\ Hit(w, i).left = w.left
              /\ w.hits <= Amount[i] => Hit(w, i).hits = w.hits + 1
              /\ w.hits > Amount[i] => Hit(w, i).hits = w.hits
<1>1. /\ Amount[i] \in Nat \ {0}
      /\ Period[i] \in 1..Longest
      /\ Longest \in Nat
  BY LimitsAssumption
<1>2. CASE w.left = 0
  <2>1. Hit(w, i) = [hits |-> 1, left |-> Period[i]]
    BY <1>2 DEF Hit
  <2> QED
    BY <1>1, <1>2, <2>1
<1>3. CASE w.left # 0
  <2>1. Hit(w, i) = [hits |-> Count(w.hits, i), left |-> w.left]
    BY <1>3 DEF Hit
  <2>2. Count(w.hits, i) = IF w.hits > Amount[i] THEN w.hits ELSE w.hits + 1
    BY DEF Count
  <2> QED
    BY <1>1, <1>3, <2>1, <2>2
<1> QED
  BY <1>2, <1>3

(* What a tick makes of a window.                                           *)
LEMMA AgedWindow ==
  ASSUME NEW w, w \in [hits : Nat, left : Nat]
  PROVE  /\ Aged(w) \in [hits : Nat, left : Nat]
         /\ w.left <= 1 => Aged(w).hits = 0 /\ Aged(w).left = 0
         /\ w.left > 1 => Aged(w).hits = w.hits /\ Aged(w).left = w.left - 1
<1>1. CASE w.left <= 1
  <2>1. Aged(w) = [hits |-> 0, left |-> 0]
    BY <1>1 DEF Aged, Closed
  <2> QED
    BY <1>1, <2>1
<1>2. CASE ~(w.left <= 1)
  <2>1. Aged(w) = [hits |-> w.hits, left |-> w.left - 1]
    BY <1>2 DEF Aged
  <2> QED
    BY <1>2, <2>1
<1> QED
  BY <1>1, <1>2

(* When the attempt is let through, every limit has been tried and passes.  *)
LEMMA OpenChecksAll ==
  ASSUME NEW s \in Stores, Open(s)
  PROVE  Checked(s) = Limits
BY DEF Open, Checked

(* What the type invariant says of one limit in one store.                  *)
LEMMA OneWindow ==
  ASSUME LimitTypeOK, NEW s \in Stores, NEW i \in Limits
  PROVE  /\ Amount[i] \in Nat \ {0}
         /\ Longest \in Nat
         /\ Period[i] \in 1..Longest
         /\ window[s][i] \in [hits : Nat, left : Nat]
         /\ window[s][i].hits \in 0..(Amount[i] + 1)
         /\ window[s][i].left \in 0..Period[i]
         /\ window[s][i].left = 0 <=> window[s][i].hits = 0
         /\ calm[s] \in 0..Longest
         /\ recent[s] \in [0..Longest -> Nat]
<1>1. Amount[i] \in Nat \ {0} /\ Longest \in Nat /\ Period[i] \in 1..Longest
  BY LimitsAssumption
<1>2. window[s][i] \in [hits : Nat, left : Nat]
  BY DEF LimitTypeOK
<1>3. /\ window[s][i].hits \in 0..(Amount[i] + 1)
      /\ window[s][i].left \in 0..Period[i]
      /\ window[s][i].left = 0 <=> window[s][i].hits = 0
  BY DEF LimitTypeOK
<1>4. calm[s] \in 0..Longest /\ recent[s] \in [0..Longest -> Nat]
  BY DEF LimitTypeOK, Spans
<1>. QED BY <1>1, <1>2, <1>3, <1>4

(* The spans of history the invariant looks at are there to be read.       *)
LEMMA SpansInRange ==
  ASSUME LimitTypeOK, NEW s \in Stores, NEW i \in Limits
  PROVE  /\ Age(s, i) \in 0..Period[i]
         /\ window[s][i].left > 0 => Age(s, i) + 1 \in 1..Period[i]
         /\ Counted(s, i) \in 0..Amount[i]
         /\ Reach(s, i) \in 0..Period[i] /\ Reach(s, i) <= calm[s]
         /\ 1..Period[i] \subseteq 1..Longest /\ 0..Period[i] \subseteq 0..Longest
         /\ Amount[i] \in Nat \ {0} /\ Period[i] \in Nat \ {0}
<1>1. /\ Amount[i] \in Nat \ {0}
      /\ Longest \in Nat
      /\ Period[i] \in 1..Longest
      /\ window[s][i].hits \in 0..(Amount[i] + 1)
      /\ window[s][i].left \in 0..Period[i]
      /\ calm[s] \in 0..Longest
  BY OneWindow
<1> QED
  BY <1>1 DEF Age, Counted, Reach, Least

-----------------------------------------------------------------------------
(* The type invariant *)

LEMMA TypeInit ==
  LimitInit => LimitTypeOK
<1> SUFFICES ASSUME LimitInit PROVE LimitTypeOK
  OBVIOUS
<1>1. \A i \in Limits : Amount[i] \in Nat \ {0} /\ Period[i] \in 1..Longest /\ Longest \in Nat
  BY LimitsAssumption
<1>2. \A s \in Stores, i \in Limits : window[s][i] = [hits |-> 0, left |-> 0]
  BY DEF LimitInit, Closed
<1>3. window \in [Stores -> [Limits -> [hits : Nat, left : Nat]]]
  BY DEF LimitInit, Closed
<1>4. reply \in [status : {0, 200, 429}, retry_after : 0..Longest]
  BY LimitsAssumption DEF LimitInit, Answer
<1>5. recent \in [Stores -> [Spans -> Nat]] /\ calm \in [Stores -> 0..Longest]
  BY LimitsAssumption DEF LimitInit
<1> QED
  BY <1>1, <1>2, <1>3, <1>4, <1>5 DEF LimitTypeOK

(* An attempt hits the limits it tries and leaves every other window.       *)
LEMMA AttemptMoves ==
  ASSUME LimitTypeOK, NEW s \in Stores, Attempt(s)
  PROVE  /\ window' \in [Stores -> [Limits -> [hits : Nat, left : Nat]]]
         /\ \A i \in Limits : window'[s][i] =
              IF i \in Checked(s) THEN Hit(window[s][i], i) ELSE window[s][i]
         /\ \A r \in Stores \ {s} : window'[r] = window[r]
<1>1. \A i \in Limits : Hit(window[s][i], i) \in [hits : Nat, left : Nat]
  BY OneWindow, HitCounts
<1>2. [i \in Limits |-> IF i \in Checked(s) THEN Hit(window[s][i], i) ELSE window[s][i]]
        \in [Limits -> [hits : Nat, left : Nat]]
  BY <1>1, OneWindow
<1>3. window \in [Stores -> [Limits -> [hits : Nat, left : Nat]]]
  BY DEF LimitTypeOK
<1> QED
  BY <1>2, <1>3 DEF Attempt

LEMMA TypeAttempt ==
  ASSUME LimitTypeOK, NEW s \in Stores, Attempt(s)
  PROVE  \A r \in Stores, i \in Limits :
           /\ window'[r][i].hits \in 0..(Amount[i] + 1)
           /\ window'[r][i].left \in 0..Period[i]
           /\ window'[r][i].left = 0 <=> window'[r][i].hits = 0
<1> SUFFICES ASSUME NEW r \in Stores, NEW i \in Limits
             PROVE  /\ window'[r][i].hits \in 0..(Amount[i] + 1)
                    /\ window'[r][i].left \in 0..Period[i]
                    /\ window'[r][i].left = 0 <=> window'[r][i].hits = 0
  OBVIOUS
<1>1. CASE r = s /\ i \in Checked(s)
  <2>1. window'[r][i] = Hit(window[r][i], i)
    BY <1>1, AttemptMoves
  <2> QED
    BY <2>1, OneWindow, HitCounts
<1>2. CASE ~(r = s /\ i \in Checked(s))
  <2>1. window'[r][i] = window[r][i]
    BY <1>2, AttemptMoves
  <2> QED
    BY <2>1, OneWindow
<1> QED
  BY <1>1, <1>2

LEMMA TypeStep ==
  LimitTypeOK /\ [LimitNext]_limitVars => LimitTypeOK'
<1> SUFFICES ASSUME LimitTypeOK, [LimitNext]_limitVars PROVE LimitTypeOK'
  OBVIOUS
<1> USE DEF LimitTypeOK
<1>1. ASSUME NEW s \in Stores, Serve(s) PROVE LimitTypeOK'
  <2>1. Attempt(s) /\ calm' = calm /\ reply' = Answer(200)
    BY <1>1 DEF Serve, Attempt
  <2>2. reply' \in [status : {0, 200, 429}, retry_after : 0..Longest]
    BY <2>1, LimitsAssumption DEF Answer
  <2>3. recent' \in [Stores -> [Spans -> Nat]]
    BY <1>1 DEF Serve
  <2> QED
    BY <2>1, <2>2, <2>3, AttemptMoves, TypeAttempt
<1>2. ASSUME NEW s \in Stores, Refuse(s) PROVE LimitTypeOK'
  <2>1. Attempt(s) /\ calm' = calm /\ recent' = recent
    BY <1>2 DEF Refuse, Attempt
  <2>2. reply' \in [status : {0, 200, 429}, retry_after : 0..Longest]
    BY <1>2, LimitsAssumption DEF Refuse, rate_limit_exceeded_handler, headers_enabled, Answer
  <2> QED
    BY <2>1, <2>2, AttemptMoves, TypeAttempt
<1>3. CASE Tick
  <2>1. window' \in [Stores -> [Limits -> [hits : Nat, left : Nat]]]
    BY <1>3, AgedWindow DEF Tick
  <2>2. ASSUME NEW s \in Stores, NEW i \in Limits
        PROVE  /\ window'[s][i].hits \in 0..(Amount[i] + 1)
               /\ window'[s][i].left \in 0..Period[i]
               /\ window'[s][i].left = 0 <=> window'[s][i].hits = 0
    <3>1. window'[s][i] = Aged(window[s][i])
      BY <1>3 DEF Tick
    <3>2. window[s][i] \in [hits : Nat, left : Nat]
      BY OneWindow
    <3>3. CASE window[s][i].left <= 1
      <4>1. window'[s][i].hits = 0 /\ window'[s][i].left = 0
        BY <3>1, <3>2, <3>3, AgedWindow
      <4> QED
        BY <4>1, OneWindow
    <3>4. CASE window[s][i].left > 1
      <4>1. /\ window'[s][i].hits = window[s][i].hits
            /\ window'[s][i].left = window[s][i].left - 1
        BY <3>1, <3>2, <3>4, AgedWindow
      <4> QED
        BY <3>2, <3>4, <4>1, OneWindow
    <3> QED
      BY <3>2, <3>3, <3>4
  <2>3. recent' \in [Stores -> [Spans -> Nat]]
    <3>1. ASSUME NEW s \in Stores, NEW n \in Spans
          PROVE  (IF n = 0 THEN 0 ELSE recent[s][n - 1]) \in Nat
      BY LimitsAssumption DEF Spans
    <3> QED
      BY <1>3, <3>1 DEF Tick
  <2>4. calm' \in [Stores -> 0..Longest]
    BY <1>3, LimitsAssumption DEF Tick
  <2>5. reply' = reply
    BY <1>3 DEF Tick
  <2> QED
    BY <2>1, <2>2, <2>3, <2>4, <2>5
<1>4. ASSUME NEW s \in Stores, Restart(s) PROVE LimitTypeOK'
  <2>1. /\ window' = [window EXCEPT ![s] = [i \in Limits |-> [hits |-> 0, left |-> 0]]]
        /\ calm' = [calm EXCEPT ![s] = 0]
        /\ reply' = reply /\ recent' = recent
    BY <1>4 DEF Restart, Closed
  <2>2. window' \in [Stores -> [Limits -> [hits : Nat, left : Nat]]]
    BY <2>1
  <2>3. ASSUME NEW r \in Stores, NEW i \in Limits
        PROVE  /\ window'[r][i].hits \in 0..(Amount[i] + 1)
               /\ window'[r][i].left \in 0..Period[i]
               /\ window'[r][i].left = 0 <=> window'[r][i].hits = 0
    <3>1. CASE r = s
      BY <2>1, <3>1, OneWindow
    <3>2. CASE r # s
      BY <2>1, <3>2, OneWindow
    <3> QED
      BY <3>1, <3>2
  <2>4. calm' \in [Stores -> 0..Longest]
    BY <2>1, LimitsAssumption
  <2> QED
    BY <2>1, <2>2, <2>3, <2>4
<1>5. CASE UNCHANGED limitVars
  BY <1>5 DEF limitVars
<1> QED
  BY <1>1, <1>2, <1>3, <1>4, <1>5 DEF LimitNext

-----------------------------------------------------------------------------
(* The windows and the history *)

LEMMA WindowsInit ==
  LimitInit => LimitInv
<1> SUFFICES ASSUME LimitInit PROVE LimitInv
  OBVIOUS
<1>1. LimitTypeOK
  BY TypeInit
<1>2. ASSUME NEW s \in Stores, NEW i \in Limits
      PROVE  window[s][i].left = 0
  BY <1>2 DEF LimitInit, Closed
<1>3. ASSUME NEW s \in Stores, NEW i \in Limits
      PROVE  ClosedWindow(s, i) /\ OpenWindow(s, i)
  <2>1. \A n \in 0..Longest : recent[s][n] = 0
    BY DEF LimitInit, Spans
  <2>2. Reach(s, i) \in 0..Longest /\ (calm[s] >= 1 => 1 \in 0..Longest)
    BY <1>1, OneWindow DEF Reach, Least
  <2>3. 0 <= Amount[i] - 1
    BY LimitsAssumption
  <2> QED
    BY <1>2, <2>1, <2>2, <2>3 DEF ClosedWindow, OpenWindow
<1>4. ASSUME NEW s \in Stores
      PROVE  HistoryGrows(s) /\ LastWindow(s)
  <2>1. LastWindow(s)
    BY <1>2, LastIsLast DEF LastWindow
  <2>2. \A n \in Spans : recent[s][n] = 0
    BY DEF LimitInit
  <2>3. 0 \in Spans
    BY LimitsAssumption DEF Spans
  <2> QED
    BY <2>1, <2>2, <2>3 DEF HistoryGrows
<1> QED
  BY <1>1, <1>3, <1>4 DEF LimitInv

(* Where nothing a store knows of a limit changes, nothing can go wrong.    *)
LEMMA SameStore ==
  ASSUME LimitInv, NEW s \in Stores,
         window'[s] = window[s], recent'[s] = recent[s], calm'[s] = calm[s]
  PROVE  /\ HistoryGrows(s)' /\ LastWindow(s)'
         /\ \A i \in Limits : ClosedWindow(s, i)' /\ OpenWindow(s, i)'
<1>1. /\ HistoryGrows(s) /\ LastWindow(s)
      /\ \A i \in Limits : ClosedWindow(s, i) /\ OpenWindow(s, i)
  BY DEF LimitInv
<1>2. HistoryGrows(s)'
  BY <1>1 DEF HistoryGrows
<1>3. LastWindow(s)'
  BY <1>1 DEF LastWindow, Counted, Age
<1>4. \A i \in Limits : ClosedWindow(s, i)' /\ OpenWindow(s, i)'
  BY <1>1 DEF ClosedWindow, OpenWindow, Counted, Age, Reach
<1> QED
  BY <1>2, <1>3, <1>4

(* An attempt let through: it is counted where it is remembered.            *)
LEMMA ServeWindows ==
  ASSUME LimitInv, NEW s \in Stores, Serve(s)
  PROVE  /\ HistoryGrows(s)' /\ LastWindow(s)'
         /\ \A i \in Limits : ClosedWindow(s, i)' /\ OpenWindow(s, i)'
<1>1. LimitTypeOK /\ HistoryGrows(s) /\ LastWindow(s)
  BY DEF LimitInv
<1>2. /\ recent'[s][0] = 0
      /\ \A n \in 1..Longest :
           recent[s][n] \in Nat /\ recent'[s][n] = recent[s][n] + 1
      /\ calm'[s] = calm[s]
      /\ recent'[s] \in [0..Longest -> Nat]
      /\ recent[s][0] = 0
  <2>1. recent'[s] = [n \in Spans |-> IF n = 0 THEN 0 ELSE recent[s][n] + 1]
    BY <1>1 DEF Serve, LimitTypeOK
  <2>2. calm'[s] = calm[s] /\ recent[s][0] = 0
    BY <1>1 DEF Serve, Attempt, HistoryGrows
  <2>3. recent[s] \in [0..Longest -> Nat] /\ Longest \in Nat
    BY <1>1, LimitsAssumption DEF LimitTypeOK, Spans
  <2>4. recent'[s] \in [0..Longest -> Nat]
    BY <2>1, <2>3 DEF Spans
  <2>5. ASSUME NEW n \in 1..Longest
        PROVE  recent[s][n] \in Nat /\ recent'[s][n] = recent[s][n] + 1
    BY <2>1, <2>3 DEF Spans
  <2> QED
    BY <2>1, <2>2, <2>3, <2>4, <2>5 DEF Spans
<1>3. HistoryGrows(s)'
  <2>1. ASSUME NEW m \in 0..Longest, NEW n \in 0..Longest, m <= n
        PROVE  recent'[s][m] <= recent'[s][n]
    <3>1. recent[s][m] <= recent[s][n] /\ recent[s] \in [0..Longest -> Nat]
      BY <1>1, <2>1 DEF HistoryGrows, Spans, LimitTypeOK
    <3>2. CASE m = 0
      <4>1. n = 0 \/ n \in 1..Longest
        BY LimitsAssumption
      <4> QED
        BY <1>2, <3>2, <4>1
    <3>3. CASE m # 0
      <4>1. m \in 1..Longest /\ n \in 1..Longest
        BY <2>1, <3>3, LimitsAssumption
      <4> QED
        BY <1>2, <3>1, <4>1
    <3> QED
      BY <3>2, <3>3
  <2> QED
    BY <1>2, <2>1 DEF HistoryGrows, Spans
<1>4. ASSUME NEW i \in Limits
      PROVE  /\ window'[s][i] \in [hits : Nat, left : Nat]
             /\ window'[s][i].hits \in 1..Amount[i]
             /\ window'[s][i].left \in 1..Period[i]
             /\ window[s][i].left = 0 =>
                  window'[s][i].hits = 1 /\ window'[s][i].left = Period[i]
             /\ window[s][i].left > 0 =>
                  /\ window'[s][i].left = window[s][i].left
                  /\ window'[s][i].hits = window[s][i].hits + 1
  <2>1. window'[s][i] = Hit(window[s][i], i)
    BY <1>1, AttemptMoves, OpenChecksAll DEF Serve
  <2>2. Hit(window[s][i], i).hits <= Amount[i]
    BY DEF Serve, Open, Passes
  <2> HIDE DEF LimitInv
  <2>3. ~(window[s][i].hits > Amount[i])
    BY <1>1, <2>2, OneWindow, HitCounts
  <2> QED
    BY <1>1, <2>1, <2>2, <2>3, OneWindow, HitCounts
<1>5. ASSUME NEW i \in Limits
      PROVE  ClosedWindow(s, i)' /\ OpenWindow(s, i)'
  <2>1. ClosedWindow(s, i)'
    BY <1>1, <1>4, OneWindow DEF ClosedWindow
  <2>2. ClosedWindow(s, i) /\ OpenWindow(s, i)
    BY DEF LimitInv
  <2>3. Reach(s, i)' = Reach(s, i)
    BY <1>2 DEF Reach
  <2> DEFINE m == Reach(s, i)
             a == Age(s, i)
             k == Counted(s, i)
  <2>4. /\ m \in 0..Longest /\ m <= calm[s] /\ a \in 0..Longest
        /\ Amount[i] \in Nat \ {0} /\ Period[i] \in 1..Longest
        /\ Longest \in Nat /\ calm[s] \in 0..Longest
        /\ recent[s] \in [0..Longest -> Nat]
        /\ calm[s] > 0 => m > 0
    BY <1>1, OneWindow, SpansInRange DEF Reach, Least
  <2>7. /\ recent[s][m] \in Nat /\ recent[s][a] \in Nat
        /\ calm[s] > 0 => m \in 1..Longest /\ 1 \in 1..Longest
        /\ a < calm[s] => a + 1 \in 1..Longest /\ recent[s][a + 1] \in Nat
    <3> HIDE DEF m, a
    <3>1. recent[s][m] \in Nat /\ recent[s][a] \in Nat
      BY <2>4
    <3>2. calm[s] > 0 => m \in 1..Longest /\ 1 \in 1..Longest
      BY <2>4
    <3>3. a < calm[s] => a + 1 \in 1..Longest
      BY <2>4
    <3> QED
      BY <1>2, <3>1, <3>2, <3>3
  <2>5. CASE window[s][i].left = 0
    <3>1. Age(s, i)' = 0 /\ Counted(s, i)' = 1
      BY <1>4, <2>4, <2>5 DEF Age, Counted, Least
    <3>2. recent[s][m] <= Amount[i] - 1 /\ (calm[s] >= 1 => recent[s][1] = 0)
      BY <2>2, <2>5 DEF ClosedWindow
    <3>3. 0 < calm[s] =>
            /\ recent'[s][1] = recent[s][1] + 1
            /\ recent'[s][m] = recent[s][m] + 1
      BY <1>2, <2>7
    <3> HIDE DEF m
    <3>4. ASSUME 0 < calm[s]
          PROVE  recent'[s][1] <= 1 /\ recent'[s][m] <= recent'[s][1] + Amount[i] - 1
      <4>1. recent[s][m] <= Amount[i] - 1 /\ recent[s][1] = 0
        BY <2>4, <3>2, <3>4
      <4>2. recent'[s][1] = 1 /\ recent'[s][m] = recent[s][m] + 1
        BY <3>3, <3>4, <4>1
      <4> QED
        BY <2>4, <2>7, <4>1, <4>2
    <3>5. /\ 0 <= calm[s]
          /\ recent'[s][0] <= 1 - 1
          /\ 0 < calm[s] =>
               /\ recent'[s][0 + 1] <= 1
               /\ recent'[s][m] <= recent'[s][0 + 1] + Amount[i] - 1
      BY <1>2, <2>4, <3>4
    <3> QED
      BY <1>2, <2>1, <2>3, <3>1, <3>5 DEF OpenWindow, m
  <2>6. CASE window[s][i].left > 0
    <3>1. Age(s, i)' = a /\ Counted(s, i)' = k + 1 /\ k \in Nat
      BY <1>1, <1>4, <2>4, <2>6, OneWindow, SMTT(40) DEF Age, Counted, Least
    <3>2. /\ a <= calm[s]
          /\ recent[s][a] <= k - 1
          /\ a < calm[s] =>
               /\ recent[s][a + 1] <= k
               /\ recent[s][m] <= recent[s][a + 1] + Amount[i] - 1
      BY <2>2, <2>6 DEF OpenWindow
    <3>3. /\ recent'[s][a] <= recent[s][a] + 1
          /\ a < calm[s] =>
               /\ recent'[s][a + 1] = recent[s][a + 1] + 1
               /\ recent'[s][m] = recent[s][m] + 1
               /\ a + 1 \in 0..Longest
      <4>1. a < calm[s] => a + 1 \in 1..Longest /\ m \in 1..Longest
        BY <2>4, SMTT(40)
      <4>2. a = 0 \/ a \in 1..Longest
        BY <2>4
      <4> HIDE DEF a, m
      <4> QED
        BY <1>2, <2>4, <4>1, <4>2
    <3>4. /\ recent'[s][a] <= (k + 1) - 1
          /\ a < calm[s] =>
               /\ recent'[s][a + 1] <= k + 1
               /\ recent'[s][m] <= recent'[s][a + 1] + Amount[i] - 1
      <4> HIDE DEF a, m, k
      <4>1. recent'[s][a] \in Nat
        BY <1>2, <2>4
      <4>2. recent'[s][a] <= (k + 1) - 1
        BY <2>7, <3>1, <3>2, <3>3, <4>1
      <4>3. ASSUME a < calm[s]
            PROVE  /\ recent'[s][a + 1] <= k + 1
                   /\ recent'[s][m] <= recent'[s][a + 1] + Amount[i] - 1
        <5>1. /\ recent[s][a + 1] <= k
              /\ recent[s][m] <= recent[s][a + 1] + Amount[i] - 1
              /\ recent[s][a + 1] \in Nat
          BY <2>7, <3>2, <4>3
        <5>2. /\ recent'[s][a + 1] = recent[s][a + 1] + 1
              /\ recent'[s][m] = recent[s][m] + 1
          BY <3>3, <4>3
        <5>3. \A x, y, z \in Nat : x <= y + z - 1 => x + 1 <= (y + 1) + z - 1
          OBVIOUS
        <5>4. recent[s][m] + 1 <= (recent[s][a + 1] + 1) + Amount[i] - 1
          BY <2>4, <2>7, <5>1, <5>3
        <5>5. recent[s][a + 1] + 1 <= k + 1
          BY <3>1, <5>1
        <5> QED
          BY <5>2, <5>4, <5>5
      <4> QED
        BY <4>2, <4>3
    <3> QED
      <4> HIDE DEF a, m, k
      <4> QED
        BY <1>2, <2>1, <2>3, <3>1, <3>2, <3>4 DEF OpenWindow, m
  <2> QED
    BY <1>1, <2>1, <2>5, <2>6, OneWindow
<1>6. LastWindow(s)'
  <2> DEFINE a == Age(s, Last)
  <2>1. /\ Last \in Limits
        /\ Amount[Last] \in Nat \ {0} /\ Period[Last] \in 1..Longest
        /\ Longest \in Nat /\ recent[s] \in [0..Longest -> Nat]
        /\ window[s][Last].left \in 0..Period[Last]
        /\ window[s][Last].hits \in Nat
    BY <1>1, LastIsLast, OneWindow
  <2>2. CASE window[s][Last].left = 0
    <3>1. Age(s, Last)' = 0 /\ Counted(s, Last)' = 1
      BY <1>4, <2>1, <2>2 DEF Age, Counted, Least
    <3>2. recent'[s][1] >= 1
      BY <1>2, <2>1
    <3> QED
      BY <1>2, <2>1, <3>1, <3>2 DEF LastWindow
  <2>3. CASE window[s][Last].left > 0
    <3>1. Age(s, Last)' = a /\ Counted(s, Last)' = Counted(s, Last) + 1
      BY <1>4, <2>1, <2>3 DEF Age, Counted, Least
    <3>2. a + 1 \in 1..Longest /\ Counted(s, Last) \in Nat
      BY <2>1, <2>3 DEF Age, Counted, Least
    <3>3. Counted(s, Last) <= recent[s][a + 1]
      BY <1>1, <2>3 DEF LastWindow
    <3>4. recent'[s][a + 1] = recent[s][a + 1] + 1
      BY <1>2, <3>2
    <3>5. Counted(s, Last) + 1 <= recent'[s][a + 1]
      <4> HIDE DEF a
      <4> QED
        BY <2>1, <3>2, <3>3, <3>4
    <3> QED
      BY <3>1, <3>5 DEF LastWindow
  <2> QED
    BY <2>1, <2>2, <2>3
<1> QED
  BY <1>3, <1>5, <1>6

(* An attempt refused: it may open a window, and counts where it did not    *)
(* get through, but on the last limit it counts only past the amount.       *)
LEMMA RefuseWindows ==
  ASSUME LimitInv, NEW s \in Stores, Refuse(s)
  PROVE  /\ HistoryGrows(s)' /\ LastWindow(s)'
         /\ \A i \in Limits : ClosedWindow(s, i)' /\ OpenWindow(s, i)'
<1>1. LimitTypeOK /\ HistoryGrows(s) /\ LastWindow(s)
  BY DEF LimitInv
<1>2. recent'[s] = recent[s] /\ calm'[s] = calm[s]
  BY DEF Refuse, Attempt
<1>3. HistoryGrows(s)'
  BY <1>1, <1>2 DEF HistoryGrows
<1>4. ASSUME NEW i \in Limits, i \in Checked(s)
      PROVE  /\ window'[s][i] \in [hits : Nat, left : Nat]
             /\ window'[s][i].hits \in 1..(Amount[i] + 1)
             /\ window'[s][i].left \in 1..Period[i]
             /\ window[s][i].left = 0 =>
                  window'[s][i].hits = 1 /\ window'[s][i].left = Period[i]
             /\ window[s][i].left > 0 =>
                  /\ window'[s][i].left = window[s][i].left
                  /\ window'[s][i].hits >= window[s][i].hits
  <2>1. window'[s][i] = Hit(window[s][i], i)
    BY <1>1, <1>4, AttemptMoves DEF Refuse
  <2> QED
    BY <1>1, <2>1, OneWindow, HitCounts
<1>5. ASSUME NEW i \in Limits, i \notin Checked(s)
      PROVE  window'[s][i] = window[s][i]
  BY <1>1, <1>5, AttemptMoves DEF Refuse
<1>6. ASSUME NEW i \in Limits
      PROVE  ClosedWindow(s, i)' /\ OpenWindow(s, i)'
  <2>1. ClosedWindow(s, i) /\ OpenWindow(s, i)
    BY DEF LimitInv
  <2>2. CASE i \notin Checked(s)
    BY <1>2, <1>5, <2>1, <2>2
    DEF ClosedWindow, OpenWindow, Age, Counted, Reach
  <2>3. CASE i \in Checked(s) /\ window[s][i].left = 0
    <3>1. calm[s] >= 1 => recent[s][Reach(s, i)] <= Amount[i] - 1 /\ recent[s][1] = 0
      BY <2>1, <2>3 DEF ClosedWindow
    <3>2. /\ Amount[i] \in Nat \ {0} /\ Period[i] \in 1..Longest
          /\ Longest \in Nat /\ calm[s] \in 0..Longest
          /\ recent[s] \in [0..Longest -> Nat] /\ recent[s][0] = 0
      BY <1>1, OneWindow DEF HistoryGrows
    <3>3. Age(s, i)' = 0 /\ Counted(s, i)' = 1 /\ Reach(s, i)' = Reach(s, i)
      BY <1>2, <1>4, <2>3, <3>2, SMTT(40) DEF Age, Counted, Reach, Least
    <3>4. window'[s][i].left # 0
      BY <1>4, <2>3, <3>2
    <3>5. ClosedWindow(s, i)'
      BY <3>4 DEF ClosedWindow
    <3>6. OpenWindow(s, i)'
      <4> DEFINE m == Reach(s, i)
      <4>1. 0 < calm[s] => recent[s][1] <= 1 /\ recent[s][m] <= recent[s][1] + Amount[i] - 1
        BY <3>1, <3>2
      <4> HIDE DEF m
      <4> QED
        BY <1>2, <3>2, <3>3, <4>1 DEF OpenWindow, m
    <3> QED
      BY <3>5, <3>6
  <2>4. CASE i \in Checked(s) /\ window[s][i].left > 0
    <3>1. /\ Amount[i] \in Nat \ {0} /\ Period[i] \in 1..Longest
          /\ Longest \in Nat /\ calm[s] \in 0..Longest
          /\ recent[s] \in [0..Longest -> Nat]
          /\ window[s][i] \in [hits : Nat, left : Nat]
          /\ Age(s, i) \in 0..Longest
          /\ window[s][i].left \in 1..Period[i]
      BY <1>1, <2>4, OneWindow, SpansInRange
    <3>2. /\ Age(s, i)' = Age(s, i) /\ Reach(s, i)' = Reach(s, i)
          /\ Counted(s, i)' >= Counted(s, i)
          /\ Counted(s, i)' \in Nat /\ Counted(s, i) \in Nat
      <4>1. /\ window'[s][i].left = window[s][i].left
            /\ window'[s][i].hits >= window[s][i].hits
            /\ window'[s][i].hits \in Nat /\ window[s][i].hits \in Nat
        BY <1>4, <2>4, <3>1
      <4> QED
        BY <1>2, <3>1, <4>1, SMTT(40) DEF Age, Counted, Reach, Least
    <3>3. window'[s][i].left # 0
      BY <1>4, <2>4, <3>1
    <3>4. ClosedWindow(s, i)'
      BY <3>3 DEF ClosedWindow
    <3>5. OpenWindow(s, i)'
      <4> DEFINE a == Age(s, i)
                 m == Reach(s, i)
                 k == Counted(s, i)
                 j == Counted(s, i)'
      <4>1. /\ a <= calm[s]
            /\ recent[s][a] <= k - 1
            /\ a < calm[s] =>
                 /\ recent[s][a + 1] <= k
                 /\ recent[s][m] <= recent[s][a + 1] + Amount[i] - 1
        BY <2>1, <2>4 DEF OpenWindow
      <4>2. /\ recent[s][a] <= j - 1
            /\ a < calm[s] => recent[s][a + 1] <= j
        <5>1. k \in Nat /\ j \in Nat /\ k <= j /\ a \in 0..Longest
          BY <3>1, <3>2
        <5> HIDE DEF a, m, k, j
        <5>2. recent[s][a] \in Nat
          BY <3>1, <5>1
        <5>3. a < calm[s] => recent[s][a + 1] \in Nat
          BY <3>1, <5>1
        <5> QED
          BY <4>1, <5>1, <5>2, <5>3
      <4> QED
        BY <1>2, <3>2, <4>1, <4>2 DEF OpenWindow
    <3> QED
      BY <3>4, <3>5
  <2> QED
    BY <1>1, <2>2, <2>3, <2>4, OneWindow
<1>7. LastWindow(s)'
  <2>1. CASE Last \notin Checked(s)
    BY <1>1, <1>2, <1>5, <2>1, LastIsLast DEF LastWindow, Age, Counted
  <2>2. CASE Last \in Checked(s)
    <3>1. ~Passes(s, Last)
      <4>1. PICK j \in Limits : ~Passes(s, j)
        BY DEF Refuse, Open
      <4> QED
        BY <2>2, <4>1, LastIsLast DEF Checked
    <3>2. Hit(window[s][Last], Last).hits > Amount[Last]
      BY <1>1, <3>1, LastIsLast, OneWindow, HitCounts DEF Passes
    <3>3. window[s][Last].left > 0 /\ window[s][Last].hits >= Amount[Last]
      BY <1>1, <3>2, LastIsLast, OneWindow, HitCounts, SMTT(40)
    <3>4. /\ window'[s][Last].left = window[s][Last].left
          /\ window'[s][Last].hits >= Amount[Last]
          /\ window'[s][Last].hits \in Nat /\ window[s][Last].hits \in Nat
          /\ Amount[Last] \in Nat
      BY <1>1, <1>4, <2>2, <3>3, LastIsLast, OneWindow
    <3>5. Counted(s, Last)' = Counted(s, Last) /\ Age(s, Last)' = Age(s, Last)
      BY <3>3, <3>4 DEF Counted, Age, Least
    <3> QED
      BY <1>1, <1>2, <3>3, <3>5 DEF LastWindow
  <2> QED
    BY <2>1, <2>2
<1> QED
  BY <1>3, <1>6, <1>7

(* A tick: history moves on by one, and so does the age of every window.    *)
LEMMA TickWindows ==
  ASSUME LimitInv, NEW s \in Stores, Tick
  PROVE  /\ HistoryGrows(s)' /\ LastWindow(s)'
         /\ \A i \in Limits : ClosedWindow(s, i)' /\ OpenWindow(s, i)'
<1>1. LimitTypeOK /\ HistoryGrows(s) /\ LastWindow(s)
  BY DEF LimitInv
<1>2. /\ recent'[s][0] = 0
      /\ recent[s][0] = 0
      /\ \A n \in 0..(Longest - 1) :
           recent[s][n] \in Nat /\ recent'[s][n + 1] = recent[s][n]
      /\ \A n \in 1..Longest :
           recent[s][n - 1] \in Nat /\ recent'[s][n] = recent[s][n - 1]
      /\ calm'[s] = IF calm[s] = Longest THEN Longest ELSE calm[s] + 1
      /\ Longest \in Nat /\ calm[s] \in 0..Longest
      /\ recent[s] \in [0..Longest -> Nat]
  <2>1. recent'[s] = [n \in Spans |-> IF n = 0 THEN 0 ELSE recent[s][n - 1]]
    BY <1>1 DEF Tick
  <2>2. calm'[s] = IF calm[s] = Longest THEN Longest ELSE calm[s] + 1
    BY DEF Tick
  <2>3. Longest \in Nat /\ calm[s] \in 0..Longest /\ recent[s] \in [0..Longest -> Nat]
    BY <1>1, LimitsAssumption DEF LimitTypeOK, Spans
  <2>4. recent[s][0] = 0 /\ recent'[s][0] = 0
    BY <1>1, <2>1, <2>3 DEF HistoryGrows, Spans
  <2>5. ASSUME NEW n \in 0..(Longest - 1)
        PROVE  recent[s][n] \in Nat /\ recent'[s][n + 1] = recent[s][n]
    <3>1. n \in 0..Longest /\ n + 1 \in 0..Longest /\ n + 1 # 0 /\ (n + 1) - 1 = n
      BY <2>3
    <3> QED
      BY <2>1, <2>3, <3>1 DEF Spans
  <2>6. ASSUME NEW n \in 1..Longest
        PROVE  recent[s][n - 1] \in Nat /\ recent'[s][n] = recent[s][n - 1]
    <3>1. n \in 0..Longest /\ n - 1 \in 0..Longest /\ n # 0
      BY <2>3
    <3> QED
      BY <2>1, <2>3, <3>1 DEF Spans
  <2> QED
    BY <2>2, <2>3, <2>4, <2>5, <2>6
<1>3. \A m, n \in 0..Longest : m <= n => recent[s][m] <= recent[s][n]
  BY <1>1 DEF HistoryGrows, Spans
<1>4. HistoryGrows(s)'
  <2>1. ASSUME NEW m \in 0..Longest, NEW n \in 0..Longest, m <= n
        PROVE  recent'[s][m] <= recent'[s][n]
    <3>1. CASE n = 0
      BY <1>2, <2>1, <3>1
    <3>2. CASE n # 0 /\ m = 0
      <4>1. n \in 1..Longest
        BY <3>2
      <4>2. recent[s][n - 1] \in Nat /\ recent'[s][n] = recent[s][n - 1]
        BY <1>2, <4>1
      <4>3. recent'[s][m] = 0
        BY <1>2, <3>2
      <4> QED
        BY <4>2, <4>3
    <3>3. CASE n # 0 /\ m # 0
      <4>1. /\ n \in 1..Longest /\ m \in 1..Longest
            /\ n - 1 \in 0..Longest /\ m - 1 \in 0..Longest /\ m - 1 <= n - 1
        BY <1>2, <2>1, <3>3
      <4>2. recent[s][m - 1] <= recent[s][n - 1]
        BY <1>3, <4>1
      <4> QED
        BY <1>2, <4>1, <4>2
    <3> QED
      BY <3>1, <3>2, <3>3
  <2> QED
    BY <1>2, <2>1 DEF HistoryGrows, Spans
<1>5. ASSUME NEW i \in Limits
      PROVE  /\ window[s][i].left <= 1 =>
                  window'[s][i].hits = 0 /\ window'[s][i].left = 0
             /\ window[s][i].left > 1 =>
                  /\ window'[s][i].hits = window[s][i].hits
                  /\ window'[s][i].left = window[s][i].left - 1
  <2>1. window'[s][i] = Aged(window[s][i])
    BY DEF Tick
  <2> QED
    BY <1>1, <2>1, OneWindow, AgedWindow
<1>6. ASSUME NEW i \in Limits
      PROVE  ClosedWindow(s, i)' /\ OpenWindow(s, i)'
  <2> DEFINE m == Reach(s, i)
             mm == Reach(s, i)'
             a == Age(s, i)
             k == Counted(s, i)
             P == Period[i]
             l == window[s][i].left
  <2>1. ClosedWindow(s, i) /\ OpenWindow(s, i)
    BY DEF LimitInv
  <2>2. /\ P \in 1..Longest /\ l \in 0..P /\ Amount[i] \in Nat \ {0}
        /\ window[s][i].hits \in Nat
        /\ m = Least(calm[s], P) /\ mm = Least(calm'[s], P) /\ a = P - l
    BY <1>1, OneWindow DEF Reach, Age
  <2>3. /\ mm \in 1..Longest /\ m \in 0..Longest
        /\ mm - 1 \in 0..Longest /\ mm - 1 <= m
        /\ calm'[s] \in 1..Longest /\ calm[s] <= calm'[s]
    <3> HIDE DEF m, mm, P, l
    <3> QED
      BY <1>2, <2>2, SMTT(40) DEF Least
  <2>4. recent'[s][mm] <= recent[s][m] /\ recent'[s][mm] = recent[s][mm - 1]
    <3> HIDE DEF m, mm
    <3> QED
      BY <1>2, <1>3, <2>3
  <2>5. recent'[s][1] = 0
    <3>1. 0 \in 0..(Longest - 1) /\ 0 + 1 = 1
      BY <1>2, <2>3
    <3>2. recent'[s][0 + 1] = recent[s][0]
      BY <1>2, <3>1
    <3> QED
      BY <1>2, <3>1, <3>2
  <2>6. recent[s][m] \in Nat /\ recent'[s][mm] \in Nat
    <3> HIDE DEF m, mm
    <3> QED
      BY <1>2, <2>3, <2>4
  <2>7. CASE l = 0
    <3>1. window'[s][i].left = 0
      BY <1>5, <2>2, <2>7
    <3>2. recent[s][m] <= Amount[i] - 1
      BY <2>1, <2>7 DEF ClosedWindow
    <3>3. recent'[s][mm] <= Amount[i] - 1
      <4> HIDE DEF m, mm
      <4> QED
        BY <2>2, <2>4, <2>6, <3>2
    <3> QED
      BY <2>5, <3>1, <3>3 DEF ClosedWindow, OpenWindow
  <2>8. CASE l = 1
    <3>1. window'[s][i].left = 0
      BY <1>5, <2>2, <2>8
    <3>2. recent[s][a] <= k - 1 /\ k \in 0..Amount[i]
      BY <1>1, <2>1, <2>8, SpansInRange DEF OpenWindow
    <3>3. mm - 1 <= a /\ a \in 0..Longest
      <4>1. mm <= P
        BY <1>2, <2>2, <2>3 DEF Least
      <4>2. a = P - 1
        BY <2>2, <2>8
      <4> HIDE DEF a, mm, P, l
      <4> QED
        BY <1>2, <2>2, <2>3, <4>1, <4>2, SMTT(40)
    <3>4. recent'[s][mm] <= Amount[i] - 1
      <4> HIDE DEF a, k, mm, P, l
      <4>1. recent[s][mm - 1] <= recent[s][a] /\ recent[s][a] \in Nat
        BY <1>2, <1>3, <2>3, <3>3
      <4> QED
        BY <2>2, <2>4, <2>6, <3>2, <4>1
    <3> QED
      BY <2>5, <3>1, <3>4 DEF ClosedWindow, OpenWindow
  <2>9. CASE l > 1
    <3>1. /\ window'[s][i].left = l - 1 /\ window'[s][i].left > 0
          /\ window'[s][i].hits = window[s][i].hits
      BY <1>5, <2>2, <2>9
    <3>2. Age(s, i)' = a + 1 /\ Counted(s, i)' = k
      BY <2>2, <3>1 DEF Age, Counted
    <3>3. /\ a <= calm[s]
          /\ recent[s][a] <= k - 1
          /\ a < calm[s] =>
               /\ recent[s][a + 1] <= k
               /\ recent[s][m] <= recent[s][a + 1] + Amount[i] - 1
      BY <2>1, <2>2, <2>9 DEF OpenWindow
    <3>4. a \in 0..(Longest - 1) /\ a + 1 \in 0..(Longest - 1)
      <4> HIDE DEF a, P, l
      <4> QED
        BY <1>2, <2>2, <2>9
    <3>5. a + 1 <= calm'[s]
      <4> HIDE DEF a
      <4> QED
        BY <1>2, <3>3, <3>4
    <3>6. recent'[s][a + 1] <= k - 1
      <4> HIDE DEF a, k
      <4> QED
        BY <1>2, <3>3, <3>4
    <3>7. ASSUME a + 1 < calm'[s]
          PROVE  /\ recent'[s][(a + 1) + 1] <= k
                 /\ recent'[s][mm] <= recent'[s][(a + 1) + 1] + Amount[i] - 1
      <4> HIDE DEF a, k, m, mm, P, l
      <4>1. a < calm[s]
        BY <1>2, <3>4, <3>7
      <4>2. recent'[s][(a + 1) + 1] = recent[s][a + 1] /\ recent[s][a + 1] \in Nat
        BY <1>2, <3>4
      <4>3. \A x, y, z, w \in Nat : x <= y /\ y <= z + w - 1 => x <= z + w - 1
        OBVIOUS
      <4>4. recent'[s][mm] <= recent[s][a + 1] + Amount[i] - 1
        BY <2>2, <2>4, <2>6, <3>3, <4>1, <4>2, <4>3
      <4> QED
        BY <3>3, <4>1, <4>2, <4>4
    <3>8. ClosedWindow(s, i)'
      BY <2>2, <3>1 DEF ClosedWindow
    <3>9. OpenWindow(s, i)'
      <4> HIDE DEF a, k, mm
      <4> QED
        BY <3>2, <3>5, <3>6, <3>7 DEF OpenWindow, mm
    <3> QED
      BY <3>8, <3>9
  <2> QED
    BY <2>2, <2>7, <2>8, <2>9
<1>7. LastWindow(s)'
  <2> DEFINE a == Age(s, Last)
             P == Period[Last]
             l == window[s][Last].left
  <2>1. /\ P \in 1..Longest /\ l \in 0..P /\ a = P - l
    BY <1>1, OneWindow, LastIsLast DEF Age
  <2>2. CASE l <= 1
    <3>1. window'[s][Last].left = 0
      BY <1>5, <2>2, LastIsLast
    <3> QED
      BY <3>1 DEF LastWindow
  <2>3. CASE l > 1
    <3>1. /\ window'[s][Last].left = l - 1
          /\ window'[s][Last].hits = window[s][Last].hits
      BY <1>5, <2>3, LastIsLast
    <3>2. Age(s, Last)' = a + 1 /\ Counted(s, Last)' = Counted(s, Last)
      BY <2>1, <3>1 DEF Age, Counted
    <3>3. Counted(s, Last) <= recent[s][a + 1]
      BY <1>1, <2>1, <2>3 DEF LastWindow
    <3>4. recent'[s][(a + 1) + 1] = recent[s][a + 1]
      <4> HIDE DEF a, P, l
      <4>1. a + 1 \in 0..(Longest - 1)
        BY <1>2, <2>1, <2>3
      <4> QED
        BY <1>2, <4>1
    <3> QED
      BY <3>2, <3>3, <3>4 DEF LastWindow
  <2> QED
    BY <2>1, <2>2, <2>3
<1> QED
  BY <1>4, <1>6, <1>7

(* A restart: history is kept, but from here on none of it is looked at.    *)
LEMMA RestartWindows ==
  ASSUME LimitInv, NEW s \in Stores, Restart(s)
  PROVE  /\ HistoryGrows(s)' /\ LastWindow(s)'
         /\ \A i \in Limits : ClosedWindow(s, i)' /\ OpenWindow(s, i)'
<1>1. LimitTypeOK /\ HistoryGrows(s)
  BY DEF LimitInv
<1>2. recent'[s] = recent[s] /\ calm'[s] = 0
  BY <1>1 DEF Restart, LimitTypeOK
<1>3. \A i \in Limits : window'[s][i].left = 0
  BY <1>1 DEF Restart, Closed, LimitTypeOK
<1>4. HistoryGrows(s)'
  BY <1>1, <1>2 DEF HistoryGrows
<1>5. LastWindow(s)'
  BY <1>3, LastIsLast DEF LastWindow
<1>6. ASSUME NEW i \in Limits
      PROVE  ClosedWindow(s, i)' /\ OpenWindow(s, i)'
  <2>1. Reach(s, i)' = 0
    BY <1>1, <1>2, OneWindow DEF Reach, Least
  <2>2. recent[s][0] = 0 /\ 0 <= Amount[i] - 1
    BY <1>1, OneWindow DEF HistoryGrows
  <2> QED
    BY <1>2, <1>3, <2>1, <2>2 DEF ClosedWindow, OpenWindow
<1> QED
  BY <1>4, <1>5, <1>6

LEMMA LimitInvStep ==
  LimitInv /\ [LimitNext]_limitVars => LimitInv'
<1> SUFFICES ASSUME LimitInv, [LimitNext]_limitVars PROVE LimitInv'
  OBVIOUS
<1>1. LimitTypeOK /\ LimitTypeOK'
  BY TypeStep DEF LimitInv
<1>2. ASSUME NEW s \in Stores
      PROVE  /\ HistoryGrows(s)' /\ LastWindow(s)'
             /\ \A i \in Limits : ClosedWindow(s, i)' /\ OpenWindow(s, i)'
  <2>1. CASE Tick
    BY <2>1, TickWindows
  <2>2. ASSUME NEW r \in Stores, Serve(r) \/ Refuse(r) \/ Restart(r)
        PROVE  /\ HistoryGrows(s)' /\ LastWindow(s)'
               /\ \A i \in Limits : ClosedWindow(s, i)' /\ OpenWindow(s, i)'
    <3>1. CASE r = s
      BY <2>2, <3>1, ServeWindows, RefuseWindows, RestartWindows
    <3>2. CASE r # s
      <4>1. window'[s] = window[s] /\ recent'[s] = recent[s] /\ calm'[s] = calm[s]
        BY <1>1, <2>2, <3>2 DEF Serve, Refuse, Restart, Attempt, LimitTypeOK
      <4> QED
        BY <4>1, SameStore
    <3> QED
      BY <3>1, <3>2
  <2>3. CASE UNCHANGED limitVars
    BY <2>3, SameStore DEF limitVars
  <2> QED
    BY <2>1, <2>2, <2>3 DEF LimitNext
<1> QED
  BY <1>1, <1>2 DEF LimitInv

-----------------------------------------------------------------------------
(* What the limiter promises *)

(* The counters of every store keep in step with the attempts it let        *)
(* through.                                                                 *)
THEOREM LimitInvariant == LimitSpec => []LimitInv
BY WindowsInit, LimitInvStep, PTL DEF LimitSpec

LEMMA BurstFromWindows == LimitInv => BurstBound
<1> SUFFICES ASSUME LimitInv, NEW s \in Stores, NEW i \in Limits,
                    calm[s] >= Period[i]
             PROVE  recent[s][Period[i]] <= 2 * Amount[i] - 1
  BY DEF BurstBound
<1>1. LimitTypeOK /\ HistoryGrows(s) /\ ClosedWindow(s, i) /\ OpenWindow(s, i)
  BY DEF LimitInv
<1> DEFINE a == Age(s, i)
           P == Period[i]
<1>2. /\ P \in 1..Longest /\ Amount[i] \in Nat \ {0}
      /\ window[s][i].left \in 0..P /\ Longest \in Nat /\ calm[s] \in 0..Longest
      /\ recent[s] \in [0..Longest -> Nat]
  BY <1>1, OneWindow
<1>3. Reach(s, i) = P /\ recent[s][P] \in Nat
  BY <1>2 DEF Reach, Least
<1>4. CASE window[s][i].left = 0
  <2>1. recent[s][P] <= Amount[i] - 1
    BY <1>1, <1>3, <1>4 DEF ClosedWindow
  <2> HIDE DEF P
  <2> QED
    BY <1>2, <1>3, <2>1, SMTT(40) DEF P
<1>5. CASE window[s][i].left > 0
  <2>1. a < calm[s] /\ a + 1 \in 0..Longest
    BY <1>2, <1>5, SMTT(40) DEF Age
  <2>2. /\ recent[s][a + 1] <= Counted(s, i)
        /\ recent[s][P] <= recent[s][a + 1] + Amount[i] - 1
    BY <1>1, <1>3, <1>5, <2>1 DEF OpenWindow
  <2>3. Counted(s, i) \in 0..Amount[i]
    BY <1>1, SpansInRange
  <2>4. recent[s][a + 1] \in Nat
    <3> HIDE DEF a
    <3> QED
      BY <1>2, <2>1
  <2>6. recent[s][P] <= 2 * Amount[i] - 1
    <3>1. recent[s][a + 1] <= Amount[i]
      <4> HIDE DEF a
      <4> QED
        BY <1>2, <2>2, <2>3, <2>4
    <3>2. /\ recent[s][a + 1] \in Nat /\ recent[s][P] \in Nat /\ Amount[i] \in Nat
          /\ recent[s][P] <= recent[s][a + 1] + Amount[i] - 1
      BY <1>2, <1>3, <2>2, <2>4
    <3>3. ASSUME NEW x \in Nat, NEW z \in Nat, NEW w \in Nat, x <= w, z <= x + w - 1
          PROVE  z <= 2 * w - 1
      BY <3>3
    <3> HIDE DEF a, P
    <3> QED
      BY <3>1, <3>2, <3>3
  <2> QED
    BY <2>6
<1> QED
  BY <1>2, <1>4, <1>5, SMTT(40)

(* However many limits, stores and restarts there are, no store lets more   *)
(* than 2n - 1 attempts through in any stretch as long as the period.       *)
THEOREM LimiterBursts == LimitSpec => []BurstBound
BY LimitInvariant, BurstFromWindows, PTL

LEMMA LockedOutStep ==
  LimitInv =>
    [\A s \in Stores :
       Refuse(s) /\ Last \in Checked(s) => recent[s][Period[Last]] >= Amount[Last]
      ]_limitVars
<1> SUFFICES ASSUME LimitInv, NEW s \in Stores, Refuse(s), Last \in Checked(s)
             PROVE  recent[s][Period[Last]] >= Amount[Last]
  OBVIOUS
<1> DEFINE a == Age(s, Last)
           P == Period[Last]
<1>1. LimitTypeOK /\ HistoryGrows(s) /\ LastWindow(s)
  BY DEF LimitInv
<1>2. ~Passes(s, Last)
  <2>1. PICK j \in Limits : ~Passes(s, j)
    BY DEF Refuse, Open
  <2> QED
    BY <2>1, LastIsLast DEF Checked
<1>3. Hit(window[s][Last], Last).hits > Amount[Last]
  BY <1>1, <1>2, LastIsLast, OneWindow, HitCounts DEF Passes
<1>4. window[s][Last].left > 0 /\ window[s][Last].hits >= Amount[Last]
  BY <1>1, <1>3, LastIsLast, OneWindow, HitCounts
<1>5. /\ P \in 1..Longest /\ Longest \in Nat /\ Amount[Last] \in Nat
      /\ window[s][Last].left \in 0..P /\ window[s][Last].hits \in Nat
      /\ recent[s] \in [0..Longest -> Nat]
  BY <1>1, LastIsLast, OneWindow
<1>6. Counted(s, Last) = Amount[Last]
  BY <1>4, <1>5 DEF Counted, Least
<1>7. Amount[Last] <= recent[s][a + 1]
  BY <1>1, <1>4, <1>6 DEF LastWindow
<1>8. a + 1 \in 0..Longest /\ P \in 0..Longest /\ a + 1 <= P
  BY <1>4, <1>5, SMTT(40) DEF Age
<1>9. recent[s][a + 1] <= recent[s][P] /\ recent[s][a + 1] \in Nat /\ recent[s][P] \in Nat
  <2> HIDE DEF a, P
  <2> QED
    BY <1>1, <1>5, <1>8 DEF HistoryGrows, Spans
<1>10. Amount[Last] <= recent[s][P]
  <2> HIDE DEF a, P
  <2> QED
    BY <1>5, <1>7, <1>9
<1> QED
  BY <1>10

(* An attempt the earlier limits refuse is never counted on the last one:   *)
(* who is locked out by it has had its whole amount of attempts answered.   *)
THEOREM LongLimitIsServed == LimitSpec => LongLimitCountsServed
<1>1. LimitSpec => []LimitInv
  BY LimitInvariant
<1> QED
  BY <1>1, LockedOutStep, PTL DEF LongLimitCountsServed

-----------------------------------------------------------------------------
(* The limiter inside Recovery *)

LEMMA RecoveryMovesLimiter ==
  [Next]_vars => [LimitNext]_limitVars
<1> SUFFICES ASSUME [Next]_vars PROVE [LimitNext]_limitVars
  OBVIOUS
<1>1. CASE Ask
  BY <1>1 DEF Ask, resend_verification, LimitNext
<1>2. CASE Persevering
  BY <1>2 DEF Persevering, LimitNext
<1>3. CASE \E s \in Stores : RestartWorker(s)
  BY <1>3 DEF RestartWorker, LimitNext
<1>4. CASE \E k \in Tokens :
             DeliverMail(k) \/ LoseMail(k) \/ verify_email(k) \/ ExpireToken(k)
  BY <1>4 DEF DeliverMail, LoseMail, verify_email, ExpireToken
<1>5. CASE UNCHANGED vars
  BY <1>5 DEF vars
<1> QED
  BY <1>1, <1>2, <1>3, <1>4, <1>5 DEF Next

(* The user, the mails and the tokens drive the limiter only through its    *)
(* own steps: all that is proved of the limiter holds in Recovery.          *)
THEOREM RecoveryUsesLimiter == Spec => LimitSpec
<1>1. Init => LimitInit
  BY DEF Init
<1> QED
  BY <1>1, RecoveryMovesLimiter, PTL DEF Spec, LimitSpec

(* The counters stay within their ranges, and a window is open just when    *)
(* it has counted a hit.                                                    *)
THEOREM RecoveryTypes == Spec => []LimitTypeOK
<1>1. LimitInv => LimitTypeOK
  BY DEF LimitInv
<1> QED
  BY <1>1, RecoveryUsesLimiter, LimitInvariant, PTL

(* The limiter's promises, where the user who asks for another link meets   *)
(* them.                                                                    *)
THEOREM RecoveryBursts == Spec => []BurstBound
BY RecoveryUsesLimiter, LimiterBursts, PTL

(* Neither do the attempts that the shorter limit refuses lock the user who *)
(* asks for another link out of the longest one.                            *)
THEOREM RecoveryLongLimit == Spec => LongLimitCountsServed
BY RecoveryUsesLimiter, LongLimitIsServed, PTL
=============================================================================
