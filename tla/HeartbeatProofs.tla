--------------------------- MODULE HeartbeatProofs ---------------------------
(***************************************************************************)
(* Theorems about Heartbeat, for every cap, lead, spread and resolution    *)
(* that HeartbeatAssumption admits and at any time.                        *)
(***************************************************************************)
EXTENDS Heartbeat, TLAPS

\* Multiplying by a natural number keeps the order.
LEMMA TimesMonotone ==
    ASSUME NEW a \in Nat, NEW b \in Nat, NEW c \in Nat, a <= b
    PROVE  a * c <= b * c
BY SMT

\* Bounds on a product bound the quotient.
LEMMA QuotientBounds ==
    ASSUME NEW lo \in Nat, NEW hi \in Nat, NEW x \in Nat, NEW d \in Nat \ {0},
           lo * d <= x, x <= hi * d
    PROVE  x \div d \in Nat /\ lo <= x \div d /\ x \div d <= hi
BY SMT

\* The random draw adds less than the spread (noopFor: "target + 5 * rand").
LEMMA DrawBounds ==
    ASSUME NEW j \in Draws
    PROVE  (Spread * j) \div Resolution \in 0 .. Spread
<1>1. j \in Nat /\ j <= Resolution /\ Spread \in Nat /\ Resolution \in Nat \ {0}
  BY HeartbeatAssumption DEF Draws
<1>2. j * Spread <= Resolution * Spread
  BY <1>1, TimesMonotone
<1>3. Spread * j \in Nat /\ Spread * j <= Spread * Resolution /\ 0 * Resolution <= Spread * j
  BY <1>1, <1>2
<1> QED
  BY <1>1, <1>3, QuotientBounds

\* Past the cap the answer is between 30 % and 100 % of the cap.
LEMMA FallbackBounds ==
    ASSUME NEW j \in Draws
    PROVE  Fallback(j) \in Nat /\ Watching <= Fallback(j) /\ Fallback(j) <= Cap
<1> DEFINE d == 10 * Resolution
           n == 10 * Resolution - 7 * j
<1>1. /\ j \in Nat /\ j < Resolution /\ Resolution \in Nat \ {0}
      /\ Cap \in Nat /\ Watching \in Nat /\ 10 * Watching <= 3 * Cap
  BY HeartbeatAssumption DEF Draws
<1>2. d \in Nat \ {0} /\ n \in Nat /\ 3 * Resolution <= n /\ n <= d
  BY <1>1
<1>3. n * Cap <= d * Cap /\ (3 * Resolution) * Cap <= n * Cap
  BY <1>1, <1>2, TimesMonotone
<1>4. (10 * Watching) * Resolution <= (3 * Cap) * Resolution
  BY <1>1, TimesMonotone
<1>5. Cap * n \in Nat /\ Cap * n <= Cap * d /\ Watching * d <= Cap * n
  BY <1>1, <1>2, <1>3, <1>4
<1>6. Fallback(j) = (Cap * n) \div d
  BY DEF Fallback
<1> HIDE DEF d, n
<1> QED
  BY <1>1, <1>2, <1>5, <1>6, QuotientBounds

\* The goal of the scheduled branch lies at least the lead ahead of the present.
LEMMA GoalAhead ==
    ASSUME TypeOK, NEW j \in Draws
    PROVE  Goal(j) \in Nat /\ now + Lead <= Goal(j)
BY DrawBounds, HeartbeatAssumption DEF Goal, Max2, TypeOK

\* What noopFor answers, and the target it keeps.
LEMMA NoopForBounded ==
    ASSUME TypeOK, target < now + Cap, NoopFor
    PROVE  /\ target' \in Nat /\ target' < now + Cap
           /\ told' \in Nat /\ told' \in Watching .. Cap
<1>1. ASSUME NEW interval \in {Ubios, Watching}, Fixed(interval)
      PROVE  /\ target' \in Nat /\ target' < now + Cap
             /\ told' \in Nat /\ told' \in Watching .. Cap
  BY <1>1, HeartbeatAssumption DEF Fixed, TypeOK
<1>2. ASSUME NEW j \in Draws, Scheduled(j)
      PROVE  /\ target' \in Nat /\ target' < now + Cap
             /\ told' \in Nat /\ told' \in Watching .. Cap
  <2>1. CASE Goal(j) - now < Cap
    BY <1>2, <2>1, GoalAhead, HeartbeatAssumption DEF Scheduled, TypeOK
  <2>2. CASE ~(Goal(j) - now < Cap)
    BY <1>2, <2>2, FallbackBounds, HeartbeatAssumption DEF Scheduled, TypeOK
  <2> QED
    BY <2>1, <2>2
<1> QED
  BY <1>1, <1>2 DEF NoopFor

-----------------------------------------------------------------------------
\* The target bound and the types are inductive together: the bound on the
\* answer needs the bound on the target before it.
IInv == TypeOK /\ ScheduleBounded

\* Every step keeps the schedule bounded.
LEMMA ScheduleStep == IInv /\ [Next]_vars => IInv'
<1> SUFFICES ASSUME IInv, [Next]_vars PROVE IInv'
  OBVIOUS
<1>1. CASE InformNoop
  <2>1. target < now + Cap
    BY DEF IInv, ScheduleBounded
  <2>2. /\ target' \in Nat /\ target' < now + Cap
        /\ told' \in Nat /\ told' \in Watching .. Cap
    BY <1>1, <2>1, NoopForBounded DEF InformNoop, IInv
  <2> QED
    BY <1>1, <2>2 DEF InformNoop, IInv, TypeOK, ScheduleBounded, States
<1>2. CASE InformPush
  BY <1>2 DEF InformPush, IInv, TypeOK, ScheduleBounded, States
<1>3. CASE Sweep
  BY <1>3 DEF Sweep, IInv, TypeOK, ScheduleBounded, States
<1>4. CASE Restart
  BY <1>4, HeartbeatAssumption DEF Restart, IInv, TypeOK, ScheduleBounded
<1>5. CASE Tick
  BY <1>5, HeartbeatAssumption DEF Tick, IInv, TypeOK, ScheduleBounded
<1>6. CASE UNCHANGED vars
  BY <1>6 DEF vars, IInv, TypeOK, ScheduleBounded
<1> QED
  BY <1>1, <1>2, <1>3, <1>4, <1>5, <1>6 DEF Next

\* The schedule stays bounded for ever.
LEMMA ScheduleInvariant == Spec => []IInv
<1>1. Init => IInv
  BY HeartbeatAssumption DEF Init, IInv, TypeOK, ScheduleBounded, States
<1> QED
  BY <1>1, ScheduleStep, PTL DEF Spec

\* The noop schedule keeps its types.
THEOREM TypeCorrect == Spec => []TypeOK
<1>1. IInv => TypeOK
  BY DEF IInv
<1> QED
  BY <1>1, ScheduleInvariant, PTL

\* ScheduleBounded for every time, draw and order of informs: the target that
\* noopFor keeps never runs ahead of the cap, and no answer exceeds it.
THEOREM ScheduleBoundedHolds == Spec => []ScheduleBounded
<1>1. IInv => ScheduleBounded
  BY DEF IInv
<1> QED
  BY <1>1, ScheduleInvariant, PTL
=============================================================================
