------------------------------ MODULE Heartbeat ------------------------------
(***************************************************************************)
(* The noop schedule of one device: the interval each inform is answered   *)
(* with (noopFor), the target the server keeps between answers, and the    *)
(* age at which the lost sweep gives the device up. The sweep is one step  *)
(* here; module Poller has its snapshot, its cycle and its counters.       *)
(* Time is in seconds.                                                     *)
(***************************************************************************)
EXTENDS Integers

CONSTANTS
    LostAfter,          \* lostAfterSeconds, 75 in the code
    Cap, Lead, Spread,  \* noopFor: capSeconds 90, and 10 and 5
    Watching, Ubios,    \* the fixed intervals, 5 and 10
    Resolution,         \* the random draw is j / Resolution
    MaxClock            \* bound on the time

ASSUME HeartbeatAssumption ==
    /\ LostAfter \in Nat /\ Cap \in Nat /\ Lead \in Nat /\ Spread \in Nat
    /\ Watching \in Nat /\ Ubios \in Nat
    /\ Spread <= Watching /\ Watching <= Lead /\ Lead + Spread <= Cap
    /\ Watching <= Ubios /\ Ubios <= Cap
    /\ 10 * Watching <= 3 * Cap
    /\ Resolution \in Nat \ {0}
    /\ MaxClock \in Nat

VARIABLES
    now,
    state,   \* the record: adopting, adopted or lost
    seen,    \* its last_seen
    target,  \* Server.noopTarget of the MAC, 0 if none is tracked
    told     \* the interval of the last answer

vars == <<now, state, seen, target, told>>

States == {"adopting", "adopted", "lost"}

\* The device's first inform has just been answered with its configuration.
Init ==
    /\ now = 1
    /\ state = "adopting"
    /\ seen = 1
    /\ target = 0
    /\ told = 0

Max2(a, b) == IF a > b THEN a ELSE b

Draws == 0 .. Resolution - 1

\* max(previous + 5, now + 10) plus floor(5 r); nothing tracked counts from now.
Goal(j) ==
    Max2((IF target = 0 THEN now ELSE target) + Spread, now + Lead)
        + (Spread * j) \div Resolution

\* floor(90 * (1 - 0.7 r)).
Fallback(j) == (Cap * (10 * Resolution - 7 * j)) \div (10 * Resolution)

\* Mutant: the fallback branch persists its target too.
ScheduledPersists(j) ==
    /\ told' = IF Goal(j) - now < Cap THEN Goal(j) - now ELSE Fallback(j)
    /\ target' = Goal(j)

\* The scheduled branch of noopFor: a device that keeps asking is put off by
\* Spread more each time; past the cap the answer is random, the target stays.
Scheduled(j) ==
    IF Goal(j) - now < Cap
    THEN told' = Goal(j) - now /\ target' = Goal(j)
    ELSE told' = Fallback(j) /\ UNCHANGED target

Fixed(interval) == told' = interval /\ UNCHANGED target

\* noopFor: the model and the watching flag choose the branch.
NoopFor ==
    \/ Fixed(Ubios)
    \/ Fixed(Watching)
    \/ \E j \in Draws : Scheduled(j)

\* An inform answered noop: the heartbeat is stamped, the state is kept (a
\* gentle type, a watchdog's answer) or becomes adopted (the connected path).
InformNoop ==
    /\ seen' = now
    /\ state' \in {state, "adopted"}
    /\ NoopFor
    /\ UNCHANGED now

\* An inform answered with a configuration: the record is adopting, no
\* interval is told and the device informs again at once.
InformPush ==
    /\ seen' = now
    /\ state' = "adopting"
    /\ told' = 0
    /\ UNCHANGED <<now, target>>

\* sweepLost.
Sweep ==
    /\ state = "adopted"
    /\ seen > 0
    /\ now - seen > LostAfter
    /\ state' = "lost"
    /\ UNCHANGED <<now, seen, target, told>>

\* Mutant: no target is written as -1.
RestartSentinel ==
    /\ target' = 0 - 1
    /\ UNCHANGED <<now, state, seen, told>>

\* The targets are the process's own and die with it.
Restart ==
    /\ target' = 0
    /\ UNCHANGED <<now, state, seen, told>>

Tick ==
    /\ now < MaxClock
    /\ now' = now + 1
    /\ UNCHANGED <<state, seen, target, told>>

Next == InformNoop \/ InformPush \/ Sweep \/ Restart \/ Tick

Spec == Init /\ [][Next]_vars

-----------------------------------------------------------------------------
\* The type invariant of the schedule.
TypeOK ==
    /\ now \in Nat \ {0}
    /\ state \in States
    /\ seen \in Nat \ {0}
    /\ target \in Nat
    /\ told \in Nat

\* ScheduleBounded: however often and whenever the device informs, the target
\* kept for it stays within the cap of the present, so an answer puts it off by
\* no more than the cap and by no less than the watching interval (noopFor: "the
\* cap-fallback branch never persists").
ScheduleBounded ==
    /\ target < now + Cap
    /\ told = 0 \/ told \in Watching .. Cap
=============================================================================
