------------------------------- MODULE Poller -------------------------------
(***************************************************************************)
(* The poller goroutine that marks silent devices lost and feeds the       *)
(* metrics (PollOnce, sweepLost), and the informs and verbs that change    *)
(* the records and the metric series under it.                             *)
(*                                                                         *)
(* The poller works on snapshots; between any two of its store accesses    *)
(* informs and verbs run. What the engine decides is reduced to what the   *)
(* poller sees of it: the state the record is left in.                     *)
(***************************************************************************)
EXTENDS Integers, FiniteSets

CONSTANTS
    Macs, NoRec, NoList,
    LostAfter,               \* lostAfterSeconds
    MaxClock, MaxInforms, MaxOps  \* bounds: time, informs, verbs + faults

ASSUME PollerBoundAssumption ==
    /\ LostAfter \in Nat
    /\ MaxClock \in Nat /\ MaxInforms \in Nat /\ MaxOps \in Nat

States == {"pending", "adopting", "adopted", "lost"}
Records == [state : States, seen : Nat]

ASSUME NoRecAssumption == NoRec \notin Records

Lists == [Macs -> Records \cup {NoRec}]

VARIABLES
    now,
    rec,      \* the device records, NoRec if there is none
    poll,     \* the poller goroutine: phase, clock and snapshot, MACs left
    prev,     \* App.prevStates, "none" if there is no entry
    series,   \* MACs with per-device metric series
    events,   \* MACs of committed informs whose session events are not counted yet
    forget,   \* MACs of deleted records whose series are not removed yet
    count,    \* adoptTotal, adoptFailTotal
    truth,    \* history: how often a record entered and left StateAdopted
    spent     \* what the bounds count

vars == <<now, rec, poll, prev, series, events, forget, count, truth, spent>>

IdlePoll == [pc |-> "idle", at |-> 0, list |-> NoList, todo |-> {}]

Init ==
    /\ now = 1
    /\ rec = [m \in Macs |-> NoRec]
    /\ poll = IdlePoll
    /\ prev = [m \in Macs |-> "none"]
    /\ series = {}
    /\ events = {}
    /\ forget = {}
    /\ count = [adopts |-> 0, fails |-> 0]
    /\ truth = [adopts |-> 0, fails |-> 0]
    /\ spent = [informs |-> 0, ops |-> 0]

Is(r, state) == r # NoRec /\ r.state = state

Bump(c, field, cond) == IF cond THEN [c EXCEPT ![field] = @ + 1] ELSE c

\* The record of m becomes r.
Stores(m, r) ==
    /\ rec' = [rec EXCEPT ![m] = r]
    /\ truth' = Bump(Bump(truth, "adopts", ~Is(rec[m], "adopted") /\ Is(r, "adopted")),
                     "fails", Is(rec[m], "adopted") /\ ~Is(r, "adopted"))

Spend(field, bound) ==
    /\ spent[field] < bound
    /\ spent' = [spent EXCEPT ![field] = @ + 1]

-----------------------------------------------------------------------------
(* Informs                                                                  *)

\* An inform of a known device that is answered noop: the heartbeat is stamped
\* and the state is kept (a gentle type, a watchdog's answer) or becomes
\* adopted (the connected path). Some informs carry session transitions.
InformNoop(m, state) ==
    /\ rec[m] # NoRec
    /\ state \in {rec[m].state} \cup (IF rec[m].state = "pending" THEN {} ELSE {"adopted"})
    /\ Spend("informs", MaxInforms)
    /\ Stores(m, [state |-> state, seen |-> now])
    /\ events' \in {events, events \cup {m}}
    /\ UNCHANGED <<now, poll, prev, series, forget, count>>

\* An inform that is answered with a configuration (the record is adopting) or
\* with the factory reset (pending): the device informs again at once.
InformPush(m, state) ==
    /\ rec[m] # NoRec
    /\ \/ state = "adopting"
       \/ state = "pending" /\ rec[m].state # "pending"
    /\ Spend("informs", MaxInforms)
    /\ Stores(m, [state |-> state, seen |-> now])
    /\ UNCHANGED <<now, poll, prev, series, events, forget, count>>

\* countSessionEvents, after the cycle has committed: the counter has the
\* device's MAC for a label.
CountSessionEvents(m) ==
    /\ m \in events
    /\ events' = events \ {m}
    /\ series' = series \cup {m}
    /\ UNCHANGED <<now, rec, poll, prev, forget, count, truth, spent>>

-----------------------------------------------------------------------------
(* Verbs                                                                    *)

\* Mutant: the seeded record keeps the state the upsert gave it.
CreateUnseeded(m) ==
    /\ rec[m] = NoRec
    /\ Spend("ops", MaxOps)
    /\ Stores(m, [state |-> "none", seen |-> 0])
    /\ UNCHANGED <<now, poll, prev, series, events, forget, count>>

\* CreateDevice on a MAC without a record; on a known one it leaves alone what
\* the poller reads.
CreateDevice(m) ==
    /\ rec[m] = NoRec
    /\ Spend("ops", MaxOps)
    /\ Stores(m, [state |-> "pending", seen |-> 0])
    /\ UNCHANGED <<now, poll, prev, series, events, forget, count>>

\* DeleteDevice removes the record first and the series afterwards.
DeleteDevice(m) ==
    /\ rec[m] # NoRec
    /\ Spend("ops", MaxOps)
    /\ Stores(m, NoRec)
    /\ forget' = forget \cup {m}
    /\ UNCHANGED <<now, poll, prev, series, events, count>>

ForgetDevice(m) ==
    /\ m \in forget
    /\ forget' = forget \ {m}
    /\ series' = series \ {m}
    /\ UNCHANGED <<now, rec, poll, prev, events, count, truth, spent>>

-----------------------------------------------------------------------------
(* The poller                                                               *)

SweepList ==
    /\ poll.pc = "idle"
    /\ poll' = [pc |-> "sweep", at |-> now, list |-> rec, todo |-> {m \in Macs : rec[m] # NoRec}]
    /\ UNCHANGED <<now, rec, prev, series, events, forget, count, truth, spent>>

Done(m) == poll' = [poll EXCEPT !.todo = @ \ {m}]

\* Adopted and not heard of for too long, by the sweep's clock.
Silent(r) == Is(r, "adopted") /\ r.seen > 0 /\ poll.at - r.seen > LostAfter

\* Mutant: a fresh heartbeat ends the sweep.
SkipEnds(m) ==
    /\ poll.pc = "sweep" /\ m \in poll.todo
    /\ ~Silent(poll.list[m])
    /\ poll' = [poll EXCEPT !.todo = {}]
    /\ UNCHANGED <<now, rec, prev, series, events, forget, count, truth, spent>>

SweepSkip(m) ==
    /\ poll.pc = "sweep" /\ m \in poll.todo
    /\ ~Silent(poll.list[m])
    /\ Done(m)
    /\ UNCHANGED <<now, rec, prev, series, events, forget, count, truth, spent>>

Pinned(m) == prev' = [prev EXCEPT ![m] = "lost"]

\* Mutant: the cycle trusts the snapshot.
SweepTrusts(m) ==
    /\ poll.pc = "sweep" /\ m \in poll.todo
    /\ Silent(poll.list[m])
    /\ Done(m)
    /\ Stores(m, [state |-> "lost", seen |-> poll.list[m].seen])
    /\ count' = Bump(count, "fails", TRUE)
    /\ Pinned(m)
    /\ UNCHANGED <<now, series, events, forget, spent>>

\* Mutant: prevStates is left to the second phase.
SweepUnpinned(m) ==
    /\ poll.pc = "sweep" /\ m \in poll.todo
    /\ Silent(poll.list[m])
    /\ Done(m)
    /\ IF Silent(rec[m])
       THEN /\ Stores(m, [rec[m] EXCEPT !.state = "lost"])
            /\ count' = Bump(count, "fails", TRUE)
       ELSE UNCHANGED <<rec, truth, count>>
    /\ UNCHANGED <<now, prev, series, events, forget, spent>>

\* The cycle on a device the snapshot has silent: the conditions are checked
\* again on the stored record, by the clock of the snapshot; a deleted record
\* is seeded empty and aborts too.
SweepLost(m) ==
    /\ poll.pc = "sweep" /\ m \in poll.todo
    /\ Silent(poll.list[m])
    /\ Done(m)
    /\ IF Silent(rec[m])
       THEN /\ Stores(m, [rec[m] EXCEPT !.state = "lost"])
            /\ count' = Bump(count, "fails", TRUE)
            /\ Pinned(m)
       ELSE UNCHANGED <<rec, truth, count, prev>>
    /\ UNCHANGED <<now, series, events, forget, spent>>

\* The same cycle with a failed save: the memory has the new state, the sweep
\* counts nothing and pins nothing.
SweepSaveFails(m) ==
    /\ poll.pc = "sweep" /\ m \in poll.todo
    /\ Silent(poll.list[m]) /\ Silent(rec[m])
    /\ Spend("ops", MaxOps)
    /\ Done(m)
    /\ Stores(m, [rec[m] EXCEPT !.state = "lost"])
    /\ UNCHANGED <<now, prev, series, events, forget, count>>

ReportList ==
    /\ poll.pc = "sweep" /\ poll.todo = {}
    /\ poll' = [pc |-> "report", at |-> 0, list |-> rec, todo |-> {m \in Macs : rec[m] # NoRec}]
    /\ UNCHANGED <<now, rec, prev, series, events, forget, count, truth, spent>>

\* Mutant: the series are updated when the state has changed.
ReportChanged(m) ==
    /\ poll.pc = "report" /\ m \in poll.todo
    /\ Done(m)
    /\ LET s == poll.list[m].state
           moved == prev[m] # "none" /\ prev[m] # s
       IN  /\ series' = IF prev[m] = s THEN series ELSE series \cup {m}
           /\ count' = Bump(Bump(count, "adopts", moved /\ s = "adopted"),
                            "fails", moved /\ s # "adopted" /\ prev[m] = "adopted")
           /\ prev' = [prev EXCEPT ![m] = s]
    /\ UNCHANGED <<now, rec, events, forget, truth, spent>>

\* UpdateFromDevice, then the transition against the last observation.
Report(m) ==
    /\ poll.pc = "report" /\ m \in poll.todo
    /\ Done(m)
    /\ series' = series \cup {m}
    /\ LET s == poll.list[m].state
           moved == prev[m] # "none" /\ prev[m] # s
       IN  /\ count' = Bump(Bump(count, "adopts", moved /\ s = "adopted"),
                            "fails", moved /\ s # "adopted" /\ prev[m] = "adopted")
           /\ prev' = [prev EXCEPT ![m] = s]
    /\ UNCHANGED <<now, rec, events, forget, truth, spent>>

PruneStates ==
    /\ poll.pc = "report" /\ poll.todo = {}
    /\ prev' = [m \in Macs |-> IF poll.list[m] = NoRec THEN "none" ELSE prev[m]]
    /\ poll' = IdlePoll
    /\ UNCHANGED <<now, rec, series, events, forget, count, truth, spent>>

-----------------------------------------------------------------------------
\* The process restarts: the records stay, everything else is the process's.
Restart ==
    /\ Spend("ops", MaxOps)
    /\ poll' = IdlePoll
    /\ prev' = [m \in Macs |-> "none"]
    /\ series' = {}
    /\ events' = {}
    /\ forget' = {}
    /\ count' = [adopts |-> 0, fails |-> 0]
    /\ truth' = [adopts |-> 0, fails |-> 0]
    /\ UNCHANGED <<now, rec>>

Tick ==
    /\ now < MaxClock
    /\ now' = now + 1
    /\ UNCHANGED <<rec, poll, prev, series, events, forget, count, truth, spent>>

Poll ==
    \/ SweepList \/ ReportList \/ PruneStates
    \/ \E m \in Macs : SweepSkip(m) \/ SweepLost(m) \/ Report(m)

Next ==
    \/ \E m \in Macs, s \in States : InformNoop(m, s) \/ InformPush(m, s)
    \/ \E m \in Macs : CreateDevice(m) \/ DeleteDevice(m) \/ SweepSaveFails(m)
    \/ \E m \in Macs : CountSessionEvents(m) \/ ForgetDevice(m)
    \/ Poll \/ Restart \/ Tick

Spec == Init /\ [][Next]_vars

\* The ticker of RunPoller fires and its goroutine is scheduled.
FairSpec == Spec /\ WF_vars(Poll)

-----------------------------------------------------------------------------
\* The type invariant of the poller and the records it works on.
TypeOK ==
    /\ now \in Nat \ {0}
    /\ rec \in [Macs -> Records \cup {NoRec}]
    /\ poll \in [pc : {"idle", "sweep", "report"}, at : Nat, list : Lists \cup {NoList},
                 todo : SUBSET Macs]
    /\ prev \in [Macs -> States \cup {"none"}]
    /\ series \in SUBSET Macs
    /\ events \in SUBSET Macs
    /\ forget \in SUBSET Macs
    /\ count \in [adopts : Nat, fails : Nat]
    /\ truth \in [adopts : Nat, fails : Nat]
    /\ spent \in [informs : Nat, ops : Nat]

\* CountsTrue: the counters never run ahead of the transitions the records really
\* made, although a transition is seen by the sweep and by the poll after it,
\* records are deleted and created again between polls, and saves fail (PollOnce:
\* "pinned to the new state so the phase-2 loop cannot double count").
CountsTrue == count.adopts <= truth.adopts /\ count.fails <= truth.fails

\* SweepSound: only a record that is adopted and silent at the moment of the write
\* is marked lost, and the sweep never brings back a deleted record (sweepLost:
\* "re-verified INSIDE the store RMW closure so a concurrent inform aborts the
\* transition instead of racing it").
SweepSound ==
    [][\A m \in Macs : Is(rec'[m], "lost") /\ ~Is(rec[m], "lost")
          => Is(rec[m], "adopted") /\ now - rec[m].seen > LostAfter]_vars

Stale(m) == Is(rec[m], "adopted") /\ rec[m].seen > 0 /\ now - rec[m].seen > LostAfter

\* SilentLost: an adopted device that stays silent is marked lost in the end,
\* however many other devices are fresh and whatever saves fail.
SilentLost == \A m \in Macs : Stale(m) ~> ~Stale(m)

\* SeriesReturn: a device with a record gets its metric series in the end, also
\* when the late ForgetDevice of a deletion before it was created again takes
\* away what a poll had reported (DeleteDevice, PollOnce).
SeriesReturn ==
    \A m \in Macs : rec[m] # NoRec /\ m \notin series ~> rec[m] = NoRec \/ m \in series
=============================================================================
