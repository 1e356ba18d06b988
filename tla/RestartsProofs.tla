--------------------------- MODULE RestartsProofs ---------------------------
(***************************************************************************)
(* Theorems about Restarts, for every policy and every width: the restart   *)
(* limit counts the restarts of a streak, and the delays double as          *)
(* documented as long as the cap is in reach of the factor.                 *)
(***************************************************************************)
EXTENDS Restarts, WellFoundedInduction, TLAPS

\* LimitIsPerStreak is about the streak, the code decides by its counter: the
\* invariant ties the one to the other.
StreakInv ==
    /\ phase \in {"init", "up", "delayed", "stopped"}
    /\ restarts \in Nat /\ upFor \in Nat /\ streak \in Nat
    /\ restarts <= MaxRestarts
    /\ CounterIsStreak
    /\ LimitIsPerStreak

\* A failure either makes the next restart of the streak or ends it at the limit.
LEMMA FailureCounts ==
    ASSUME StreakInv, NEW longEnough, NextRestart(longEnough),
           Counted(longEnough) = streak, upFor' = upFor
    PROVE  StreakInv'
  <1> USE RestartsAssumption DEF StreakInv, CounterIsStreak, LimitIsPerStreak
  <1> DEFINE count == Counted(longEnough)
  <1>1. count = streak
    OBVIOUS
  <1>2. CASE LimitExceeded(count)
    <2>1. phase' = "stopped" /\ restarts' = count /\ streak' = streak
      BY <1>2, Zenon DEF NextRestart
    <2>2. streak = MaxRestarts
      BY <1>1, <1>2 DEF LimitExceeded
    <2> QED BY <1>1, <2>1, <2>2
  <1>3. CASE ~LimitExceeded(count)
    <2>1. phase' = "delayed" /\ restarts' = count + 1 /\ streak' = streak + 1
      BY <1>3, Zenon DEF NextRestart
    <2>2. streak < MaxRestarts
      BY <1>1, <1>3 DEF LimitExceeded
    <2> QED BY <1>1, <2>1, <2>2
  <1> QED BY <1>2, <1>3

\* The counter of the run loop is the streak, except between the moment an actor
\* has run long enough and the failure that finds out (actor_context.rs:338-346).
THEOREM CounterCountsStreaks == Spec => []StreakInv
<1> USE RestartsAssumption
<1>1. Init => StreakInv
  BY DEF Init, StreakInv, CounterIsStreak, LimitIsPerStreak
<1>2. StreakInv /\ [Next]_vars => StreakInv'
  <2> SUFFICES ASSUME StreakInv, [Next]_vars PROVE StreakInv'
    OBVIOUS
  <2>1. CASE InitSucceeds
    <3>1. /\ phase = "init" /\ phase' = "up" /\ upFor' = 0 /\ restarts' = restarts
          /\ streak' = IF ResetAfter = 0 THEN 0 ELSE streak
      BY <2>1 DEF InitSucceeds
    <3>2. CASE ResetAfter = 0
      BY <3>1, <3>2 DEF StreakInv, CounterIsStreak, LimitIsPerStreak
    <3>3. CASE ResetAfter > 0
      BY <3>1, <3>3 DEF StreakInv, CounterIsStreak, LimitIsPerStreak
    <3> QED BY <3>2, <3>3
  <2>2. CASE InitFails
    <3>1. Counted(FALSE) = streak
      BY <2>2 DEF InitFails, Counted, StreakInv, CounterIsStreak
    <3> QED BY <2>2, <3>1, FailureCounts, Zenon DEF InitFails
  <2>3. CASE Run
    BY <2>3 DEF Run, StreakInv, CounterIsStreak, LimitIsPerStreak
  <2>4. CASE ReceiveFails
    <3>1. Counted(upFor >= ResetAfter) = streak
      BY <2>4 DEF ReceiveFails, Counted, StreakInv, CounterIsStreak
    <3> QED BY <2>4, <3>1, FailureCounts, Zenon DEF ReceiveFails
  <2>5. CASE DelayElapses
    BY <2>5 DEF DelayElapses, StreakInv, CounterIsStreak, LimitIsPerStreak
  <2>6. CASE UNCHANGED vars
    BY <2>6 DEF vars, StreakInv, CounterIsStreak, LimitIsPerStreak
  <2> QED BY <2>1, <2>2, <2>3, <2>4, <2>5, <2>6 DEF Next
<1> QED BY <1>1, <1>2, PTL DEF Spec

\* An actor is given up exactly at max_restarts restarts in a streak
\* (actor_config.rs:88-91, 102-103).
THEOREM LimitHolds == Spec => []LimitIsPerStreak
<1>1. StreakInv => LimitIsPerStreak
  BY DEF StreakInv
<1> QED BY <1>1, CounterCountsStreaks, PTL
-----------------------------------------------------------------------------
(***************************************************************************)
(* Powers of two.  The provers know nothing of exponentiation and cannot      *)
(* instantiate the library's induction rule; the least number outside a set  *)
(* does the work of an induction.                                           *)
(***************************************************************************)

\* A set of numbers has a least one.
LEMMA Least ==
    ASSUME NEW S, S \subseteq Nat, S # {}
    PROVE  \E m \in S : \A n \in S : m <= n
<1> DEFINE R == OpToRel(<, Nat)
<1>1. R = {pair \in Nat \X Nat : pair[1] < pair[2]}
  BY Zenon DEF OpToRel
<1>2. IsWellFoundedOn(R, Nat)
  BY NatLessThanWellFounded, Zenon
<1> HIDE DEF R
<1>3. PICK m \in S : \A n \in S : <<n, m>> \notin R
  BY <1>2, WFMin
<1>4. ASSUME NEW n \in S PROVE m <= n
  <2>1. <<n, m>> \in Nat \X Nat /\ <<n, m>>[1] = n /\ <<n, m>>[2] = m
    OBVIOUS
  <2>2. ~(n < m)
    BY <1>1, <1>3, <2>1
  <2> QED
    BY <2>2
<1> QED
  BY <1>4

\* What holds of 0, and of n + 1 whenever of n, holds of every number.
LEMMA Inductive ==
    ASSUME NEW S, 0 \in S, \A n \in Nat : n \in S => n + 1 \in S
    PROVE  Nat \subseteq S
<1> SUFFICES ASSUME Nat \ S # {} PROVE FALSE
  OBVIOUS
<1>1. PICK m \in Nat \ S : \A n \in Nat \ S : m <= n
  <2>1. Nat \ S \subseteq Nat
    OBVIOUS
  <2> QED
    BY <2>1, Least
<1>2. m # 0
  BY <1>1
<1>3. m - 1 \in Nat /\ ~(m <= m - 1) /\ (m - 1) + 1 = m
  BY <1>1, <1>2
<1> QED
  BY <1>1, <1>3

\* f has the powers of two up to n.
Powers(f, n) ==
    /\ f \in [0 .. n -> Nat]
    /\ f[0] = 1
    /\ \A k \in 1 .. n : f[k] = 2 * f[k - 1]

\* For every n, some function has them.
LEMMA PowersExist == \A n \in Nat : \E f : Powers(f, n)
<1> DEFINE S == {n \in Nat : \E f : Powers(f, n)}
<1>1. 0 \in S
  <2>1. Powers([k \in 0 .. 0 |-> 1], 0)
    BY DEF Powers
  <2> QED
    BY <2>1
<1>2. ASSUME NEW n \in Nat, n \in S PROVE n + 1 \in S
  <2>1. PICK f : Powers(f, n)
    BY <1>2
  <2> DEFINE g == [k \in 0 .. n + 1 |-> IF k = n + 1 THEN 2 * f[n] ELSE f[k]]
  <2>2. /\ \A k \in 0 .. n + 1 : k = n + 1 \/ k \in 0 .. n
        /\ \A k \in 0 .. n : k \in 0 .. n + 1 /\ k # n + 1
        /\ \A k \in 1 .. n : k \in 0 .. n /\ k - 1 \in 0 .. n
        /\ \A k \in 1 .. n + 1 : k = n + 1 \/ k \in 1 .. n
        /\ n + 1 \in 0 .. n + 1 /\ 0 \in 0 .. n /\ n \in 0 .. n /\ (n + 1) - 1 = n
    OBVIOUS
  <2>3. /\ g[n + 1] = 2 * f[n]
        /\ \A k \in 0 .. n : g[k] = f[k] /\ f[k] \in Nat
    BY <2>1, <2>2 DEF Powers
  <2>4. g \in [0 .. n + 1 -> Nat]
    <3>1. 2 * f[n] \in Nat
      <4>1. f[n] \in Nat
        BY <2>1, <2>2 DEF Powers
      <4> QED
        BY <4>1
    <3>2. \A k \in 0 .. n + 1 : g[k] \in Nat
      <4> HIDE DEF g
      <4> QED
        BY <2>2, <2>3, <3>1
    <3> QED
      BY <3>2
  <2> HIDE DEF g
  <2>5. ASSUME NEW k \in 1 .. n + 1 PROVE g[k] = 2 * g[k - 1]
    <3>1. CASE k = n + 1
      BY <2>2, <2>3, <3>1
    <3>2. CASE k \in 1 .. n
      <4>1. f[k] = 2 * f[k - 1]
        BY <2>1, <3>2 DEF Powers
      <4> QED
        BY <2>2, <2>3, <3>2, <4>1
    <3> QED
      BY <2>2, <3>1, <3>2
  <2>6. Powers(g, n + 1)
    BY <2>1, <2>2, <2>3, <2>4, <2>5 DEF Powers
  <2> QED
    BY <2>6
<1> HIDE DEF S
<1>3. Nat \subseteq S
  BY <1>1, <1>2, Inductive
<1> QED
  BY <1>3 DEF S

\* Two such functions agree wherever both are defined.
LEMMA PowersAgree ==
    ASSUME NEW n \in Nat, NEW f, Powers(f, n), NEW m \in Nat, NEW g, Powers(g, m),
           NEW k \in 0 .. n, k \in 0 .. m
    PROVE  f[k] = g[k]
<1> DEFINE S == {l \in Nat : l \in 0 .. n /\ l \in 0 .. m => f[l] = g[l]}
<1>1. 0 \in S
  BY DEF Powers
<1>2. ASSUME NEW l \in Nat, l \in S PROVE l + 1 \in S
  <2> SUFFICES ASSUME l + 1 \in 0 .. n, l + 1 \in 0 .. m PROVE f[l + 1] = g[l + 1]
    OBVIOUS
  <2>1. /\ l + 1 \in 1 .. n /\ l + 1 \in 1 .. m /\ (l + 1) - 1 = l
        /\ l \in 0 .. n /\ l \in 0 .. m
    OBVIOUS
  <2>2. f[l] = g[l]
    BY <1>2, <2>1
  <2>3. f[l + 1] = 2 * f[l] /\ g[l + 1] = 2 * g[l]
    BY <2>1 DEF Powers
  <2> QED
    BY <2>2, <2>3
<1> HIDE DEF S
<1>3. Nat \subseteq S
  BY <1>1, <1>2, Inductive
<1> QED
  BY <1>3 DEF S

\* The recursive definition of powers defines a function.
LEMMA Doubling ==
    /\ PowerOfTwo[0] = 1
    /\ \A n \in Nat : PowerOfTwo[n] \in Nat /\ PowerOfTwo[n + 1] = 2 * PowerOfTwo[n]
<1> DEFINE F(n) == CHOOSE f : Powers(f, n)
           p == [n \in Nat |-> F(n)[n]]
<1>1. \A n \in Nat : Powers(F(n), n)
  BY PowersExist
<1> HIDE DEF F
<1>2. \A n \in Nat : p[n] = F(n)[n] /\ p[n] \in Nat
  BY <1>1 DEF Powers
<1>3. p[0] = 1
  BY <1>1, <1>2 DEF Powers
<1>4. ASSUME NEW n \in Nat PROVE p[n + 1] = 2 * p[n]
  <2>1. /\ n + 1 \in Nat /\ n + 1 \in 1 .. n + 1 /\ (n + 1) - 1 = n
        /\ n \in 0 .. n /\ n \in 0 .. n + 1
    OBVIOUS
  <2>2. F(n + 1)[n + 1] = 2 * F(n + 1)[n]
    BY <1>1, <2>1 DEF Powers
  <2>3. F(n + 1)[n] = F(n)[n]
    BY <1>1, <2>1, PowersAgree
  <2> QED
    BY <1>2, <2>1, <2>2, <2>3
<1>5. \A n \in Nat : p[n] = IF n = 0 THEN 1 ELSE 2 * p[n - 1]
  <2> SUFFICES ASSUME NEW n \in Nat, n # 0 PROVE p[n] = 2 * p[n - 1]
    BY <1>3
  <2>1. n - 1 \in Nat /\ (n - 1) + 1 = n
    OBVIOUS
  <2> HIDE DEF p
  <2> QED
    BY <1>4, <2>1
<1>6. p = [n \in Nat |-> IF n = 0 THEN 1 ELSE 2 * p[n - 1]]
  <2>1. p = [n \in Nat |-> p[n]]
    OBVIOUS
  <2> HIDE DEF p
  <2> QED
    BY <1>5, <2>1
<1> HIDE DEF p
<1>7. PowerOfTwo = [n \in Nat |-> IF n = 0 THEN 1 ELSE 2 * PowerOfTwo[n - 1]]
  BY <1>6 DEF PowerOfTwo
<1>8. PowerOfTwo[0] = 1
  BY <1>7
<1>9. \A n \in Nat : PowerOfTwo[n + 1] = 2 * PowerOfTwo[n]
  <2> SUFFICES ASSUME NEW n \in Nat PROVE PowerOfTwo[n + 1] = 2 * PowerOfTwo[n]
    OBVIOUS
  <2>1. n + 1 \in Nat /\ n + 1 # 0 /\ (n + 1) - 1 = n
    OBVIOUS
  <2> QED
    BY <1>7, <2>1
<1>10. \A n \in Nat : PowerOfTwo[n] \in Nat
  <2> DEFINE S == {n \in Nat : PowerOfTwo[n] \in Nat}
  <2>1. 0 \in S
    BY <1>8
  <2>2. \A n \in Nat : n \in S => n + 1 \in S
    BY <1>9
  <2> HIDE DEF S
  <2>3. Nat \subseteq S
    BY <2>1, <2>2, Inductive
  <2> QED
    BY <2>3 DEF S
<1> QED
  BY <1>8, <1>9, <1>10

\* A later power is no smaller.
LEMMA PowersGrow ==
    ASSUME NEW m \in Nat, NEW n \in Nat, m <= n
    PROVE  PowerOfTwo[m] <= PowerOfTwo[n]
<1> DEFINE S == {k \in Nat : m <= k => PowerOfTwo[m] <= PowerOfTwo[k]}
<1>1. 0 \in S
  BY Doubling
<1>2. ASSUME NEW k \in Nat, k \in S PROVE k + 1 \in S
  <2>1. /\ PowerOfTwo[m] \in Nat /\ PowerOfTwo[k] \in Nat
        /\ PowerOfTwo[k + 1] = 2 * PowerOfTwo[k]
    BY Doubling
  <2>2. CASE m <= k
    BY <1>2, <2>1, <2>2
  <2>3. CASE ~(m <= k)
    <3>1. m <= k + 1 => m = k + 1
      BY <2>3
    <3> QED
      BY <2>1, <3>1
  <2> QED
    BY <2>2, <2>3
<1> HIDE DEF S
<1>3. Nat \subseteq S
  BY <1>1, <1>2, Inductive
<1> QED
  BY <1>3 DEF S

-----------------------------------------------------------------------------
(***************************************************************************)
(* The delays.                                                              *)
(***************************************************************************)

\* The factor stops at 2^Width - 1 (backoff.rs:49, u32::MAX): the documented
\* delays are cut off at Max only if that many times Min reaches Max.
CapInReach == Max <= Min * Factor(Width)

\* The delay that the documentation states for a step of a streak.
Documented(step) ==
    LET documented == Min * PowerOfTwo[step] IN
    IF documented < Max THEN documented ELSE Max

\* With the cap in reach, the saturated factor makes no difference.
LEMMA DelayIsDocumented ==
    ASSUME CapInReach, NEW step \in Nat
    PROVE  Delay(step) = Documented(step)
<1>1. CASE step < Width
  BY <1>1 DEF Delay, Documented, Factor
<1>2. CASE ~(step < Width)
  <2>1. Width \in Nat /\ Min \in Nat /\ Max \in Nat /\ Width <= step
    BY <1>2, RestartsAssumption
  <2>2. Factor(Width) = PowerOfTwo[Width] - 1 /\ Factor(step) = PowerOfTwo[Width] - 1
    BY <1>2, <2>1 DEF Factor
  <2>3. PowerOfTwo[Width] \in Nat /\ PowerOfTwo[step] \in Nat
    BY <2>1, Doubling
  <2>4. PowerOfTwo[Width] <= PowerOfTwo[step]
    BY <2>1, PowersGrow
  <2>5. Max <= Min * (PowerOfTwo[Width] - 1)
    BY <2>2 DEF CapInReach
  <2>6. \A a, b, c \in Int : 0 <= a /\ b <= c => a * b <= a * c
    OBVIOUS
  <2>7. Min * (PowerOfTwo[Width] - 1) <= Min * PowerOfTwo[step]
    <3> DEFINE b == PowerOfTwo[Width] - 1
               c == PowerOfTwo[step]
    <3>1. b \in Int /\ c \in Int /\ b <= c
      BY <2>3, <2>4
    <3>2. Min \in Int /\ 0 <= Min
      BY <2>1
    <3> HIDE DEF b, c
    <3>3. Min * b <= Min * c
      BY <2>6, <3>1, <3>2
    <3> QED
      BY <3>3 DEF b, c
  <2>8. Min * PowerOfTwo[step] \in Int /\ Min * (PowerOfTwo[Width] - 1) \in Int
    BY <2>1, <2>3
  <2>9. Delay(step) = Max
    BY <2>1, <2>2, <2>5, <2>8 DEF Delay
  <2>10. Documented(step) = Max
    BY <2>1, <2>5, <2>7, <2>8 DEF Documented
  <2> QED
    BY <2>9, <2>10
<1> QED
  BY <1>1, <1>2

\* While an actor waits, its delay is the one of the streak's last restart.
DelayInv ==
    /\ StreakInv
    /\ phase = "delayed" => streak >= 1 /\ delay = Delay(streak - 1)

\* A failure counts from the streak, so it asks for the delay of the streak's next
\* restart.
LEMMA FailureDelays ==
    ASSUME StreakInv, NEW longEnough, NextRestart(longEnough),
           Counted(longEnough) = streak
    PROVE  phase' = "delayed" => streak' >= 1 /\ delay' = Delay(streak' - 1)
<1>1. CASE LimitExceeded(streak)
  BY <1>1, Zenon DEF NextRestart
<1>2. CASE ~LimitExceeded(streak)
  <2>1. delay' = Delay(streak) /\ streak' = streak + 1
    BY <1>2, Zenon DEF NextRestart
  <2>2. streak \in Nat
    BY DEF StreakInv
  <2>3. streak' >= 1 /\ streak' - 1 = streak
    BY <2>1, <2>2
  <2> QED
    BY <2>1, <2>3
<1> QED
  BY <1>1, <1>2

\* The delay of a waiting actor is the one that Backoff::duration gives for the
\* position of the restart in its streak (actor_context.rs:334-366).
THEOREM DelaysCountStreaks == Spec => []DelayInv
<1>1. Init /\ StreakInv => DelayInv
  BY DEF Init, DelayInv
<1>2. DelayInv /\ [Next]_vars /\ StreakInv' => DelayInv'
  <2> SUFFICES ASSUME DelayInv, [Next]_vars, StreakInv' PROVE DelayInv'
    OBVIOUS
  <2>0. StreakInv
    BY DEF DelayInv
  <2> DEFINE Waits == phase = "delayed" => streak >= 1 /\ delay = Delay(streak - 1)
  <2> SUFFICES Waits'
    BY DEF DelayInv
  <2>1. CASE InitSucceeds
    BY <2>1 DEF InitSucceeds
  <2>2. CASE InitFails
    <3>1. Counted(FALSE) = streak
      BY <2>0, <2>2 DEF InitFails, Counted, StreakInv, CounterIsStreak
    <3> QED
      BY <2>0, <2>2, <3>1, FailureDelays, Zenon DEF InitFails
  <2>3. CASE Run
    BY <2>3 DEF Run
  <2>4. CASE ReceiveFails
    <3>1. Counted(upFor >= ResetAfter) = streak
      BY <2>0, <2>4 DEF ReceiveFails, Counted, StreakInv, CounterIsStreak
    <3> QED
      BY <2>0, <2>4, <3>1, FailureDelays, Zenon DEF ReceiveFails
  <2>5. CASE DelayElapses
    BY <2>5 DEF DelayElapses
  <2>6. CASE UNCHANGED vars
    <3>1. phase' = phase /\ delay' = delay /\ streak' = streak
      BY <2>6 DEF vars
    <3> QED
      BY <3>1 DEF DelayInv
  <2> QED
    BY <2>1, <2>2, <2>3, <2>4, <2>5, <2>6 DEF Next
<1> QED
  BY <1>1, <1>2, CounterCountsStreaks, PTL DEF Spec

\* With the cap in reach, the n-th restart of a streak is delayed as documented
\* (actor_config.rs:88-89, docs/actors.md:254-255, backoff.rs:95-96).
THEOREM DelaysDocumented ==
    ASSUME CapInReach
    PROVE  Spec => []DelayAsDocumented
<1>1. DelayInv => DelayAsDocumented
  <2> SUFFICES ASSUME DelayInv, phase = "delayed"
               PROVE  delay = Documented(streak - 1)
    BY DEF DelayAsDocumented, Documented
  <2>1. streak - 1 \in Nat /\ delay = Delay(streak - 1)
    BY DEF DelayInv, StreakInv
  <2> QED
    BY <2>1, DelayIsDocumented
<1> QED
  BY <1>1, DelaysCountStreaks, PTL
=============================================================================
