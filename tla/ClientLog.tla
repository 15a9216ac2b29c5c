------------------------------ MODULE ClientLog ------------------------------
(***************************************************************************)
(* Where the controller says each wireless client is: the session rows     *)
(* that an inform's station table refreshes (internal/store/sessions.go,   *)
(* internal/server/sessions.go), the tracker that turns the row changes of *)
(* all access points into client events (internal/clientevents/tracker.go) *)
(* and the event file with the assignment history folded from it           *)
(* (filesink.go).                                                          *)
(*                                                                         *)
(* A handler commits its cycle, saves, and only then hands its transitions *)
(* to the tracker, so transitions of several access points reach it in any *)
(* order. Times are the inform's clock in seconds and may be equal.        *)
(*                                                                         *)
(* Data abstraction: client and AP MACs are numbers, ordered as the code   *)
(* orders MACs; radio and channel are one value; host names, addresses and *)
(* byte counts are left out. An inform without a station table changes     *)
(* nothing here and is no action. Compaction drops what retention has      *)
(* outlived; the cap on the number of events is left out.                  *)
(***************************************************************************)
EXTENDS Integers, Sequences, FiniteSets, SequencesExt

CONSTANTS
    Aps, Clients,
    Places,        \* <<ap, radio>> a client can be on
    Unknown,       \* a radio the station table does not name
    NoRow, NoHold, Nowhere,
    MaxRows,       \* sessionRowCap, 2048 in the code
    Slots, Owner,  \* inform handlers, and the AP whose informs each of them runs
    MaxMoves,      \* bounds: client moves, of these unnoticed ones,
    MaxFast,       \* informs sent over an unanswered one,
    MaxLosses,     \* failed saves, restarts, aborted cycles and compactions, time
    MaxFaults,
    MaxClock

ASSUME MacAssumption == Aps \subseteq Nat /\ Clients \subseteq Nat /\ Aps # {}
ASSUME OwnerAssumption == Owner \in [Slots -> Aps]
ASSUME PlaceAssumption == \A p \in Places : p[1] \in Aps
ASSUME NoneAssumption ==
    /\ Nowhere \notin Aps
    /\ NoHold \notin [ap : Aps, at : Nat]
    /\ \A radio \in {p[2] : p \in Places} \cup {Unknown} :
          NoRow \notin [connected : BOOLEAN, seen : Nat, radio : {radio}]
ASSUME LogBoundAssumption ==
    /\ MaxRows \in Nat \ {0}
    /\ MaxMoves \in Nat /\ MaxFast \in Nat /\ MaxLosses \in Nat
    /\ MaxFaults \in Nat /\ MaxClock \in Nat

VARIABLES
    at,      \* where each client really is
    rows,    \* the session rows of each access point's record
    saved,   \* the same in the store's file
    slot,    \* the informs in the handlers
    track,   \* the tracker's maps and the events emitted, per client
    now,
    torn,    \* history: clients whose assignment no event told since the last restart
    spent    \* what the bounds count

vars == <<at, rows, saved, slot, track, now, torn, spent>>

-----------------------------------------------------------------------------
(* Types                                                                    *)

Radios == {p[2] : p \in Places} \cup {Unknown}
Away == <<Nowhere, Unknown>>

\* sessionRow, without context.
Rows == [connected : BOOLEAN, seen : Nat, radio : Radios]
Tables == UNION {[S -> Radios] : S \in SUBSET Clients}
TransitionKinds == {"none", "connect", "disconnect", "radio_change"}
Nothing == [c \in Clients |-> "none"]

\* clientevents.Event: from is the AP a roam leaves.
Events == [key : {"connected", "disconnected", "roam", "roam_radio"},
           ap : Aps, from : Aps \cup {Nowhere}, time : Nat]

\* presence, pendingDisconnect and the sink's events of one client.
Tracks == [cur  : Aps \cup {Nowhere},
           held : [ap : Aps, at : Nat] \cup {NoHold},
           log  : Seq(Events)]

SlotStates == [phase : {"idle", "sent", "saving", "observing"},
               table : Tables, ts : [Clients -> TransitionKinds], at : Nat]

IdleSlot == [phase |-> "idle", table |-> << >>, ts |-> Nothing, at |-> 0]

\* The clients of an access point. It serves no more than its record has rows.
On(place, ap) == {c \in Clients : place[c][1] = ap}

\* Clients may be associated when the controller first starts.
Init ==
    /\ at \in [Clients -> Places \cup {Away}]
    /\ \A a \in Aps : Cardinality(On(at, a)) <= MaxRows
    /\ rows = [a \in Aps |-> [c \in Clients |-> NoRow]]
    /\ saved = rows
    /\ slot = [h \in Slots |-> IdleSlot]
    /\ track = [c \in Clients |-> [cur |-> Nowhere, held |-> NoHold, log |-> << >>]]
    /\ now = 0
    /\ torn = {}
    /\ spent = [moves |-> 0, fast |-> 0, losses |-> 0, faults |-> 0]

-----------------------------------------------------------------------------
(* Session rows                                                             *)

Online(r, c) == r[c] # NoRow /\ r[c].connected

\* RefreshSessionStations: the rows after one station table...
Refreshed(r, table) ==
    [c \in Clients |->
        IF c \in DOMAIN table
        THEN [connected |-> TRUE, seen |-> now,
              radio |-> IF table[c] = Unknown /\ Online(r, c) THEN r[c].radio
                        ELSE table[c]]
        ELSE IF r[c] = NoRow THEN NoRow ELSE [r[c] EXCEPT !.connected = FALSE]]

\* ... and the transition of each client.
Transitions(r, table) ==
    [c \in Clients |->
        CASE c \in DOMAIN table /\ ~Online(r, c) -> "connect"
          [] c \in DOMAIN table /\ Online(r, c)
             /\ Unknown \notin {table[c], r[c].radio}
             /\ table[c] # r[c].radio -> "radio_change"
          [] c \notin DOMAIN table /\ Online(r, c) -> "disconnect"
          [] OTHER -> "none"]

\* enforceSessionRowCap: the oldest rows beyond the cap go, by MAC on a tie.
Capped(r) ==
    LET known == {c \in Clients : r[c] # NoRow}
        After(c) == {d \in known : \/ r[d].seen > r[c].seen
                                   \/ r[d].seen = r[c].seen /\ d > c}
    IN  [c \in Clients |-> IF c \in known /\ Cardinality(After(c)) >= MaxRows
                           THEN NoRow ELSE r[c]]

-----------------------------------------------------------------------------
(* The event file                                                           *)

\* FileSink.Emit keeps the events ordered by time.
Emit(log, e) ==
    LET k == Cardinality({i \in DOMAIN log : log[i].time <= e.time})
    IN  SubSeq(log, 1, k) \o <<e>> \o SubSeq(log, k + 1, Len(log))

\* FoldHistory: the open interval closes at every event but a radio change.
FoldHistory(log) ==
    LET Closed(out, time) ==
            IF out = << >> THEN out
            ELSE [out EXCEPT ![Len(out)].to = IF @ = -1 THEN time ELSE @]
        Step(out, e) ==
            CASE e.key \in {"connected", "roam"} ->
                    Append(Closed(out, e.time), [ap |-> e.ap, from |-> e.time, to |-> -1])
              [] e.key = "disconnected" -> Closed(out, e.time)
              [] OTHER -> out
    IN  FoldLeft(Step, << >>, log)

\* The AP of the ongoing interval.
Assigned(log) ==
    LET out == FoldHistory(log)
    IN  IF out = << >> THEN Nowhere
        ELSE IF out[Len(out)].to = -1 THEN out[Len(out)].ap ELSE Nowhere

-----------------------------------------------------------------------------
(* The tracker, on one client's entries                                     *)

Event(key, ap, from, time) == [key |-> key, ap |-> ap, from |-> from, time |-> time]
Gone(held) == Event("disconnected", held.ap, Nowhere, held.at)
Came(ap, time) == Event("connected", ap, Nowhere, time)
Roam(from, ap, time) == Event("roam", ap, from, time)

\* Mutant: the presence is looked up before the held disconnect.
ConnectCurrentFirst(t, ap, time) ==
    CASE t.cur = ap -> t
      [] t.cur = Nowhere -> [t EXCEPT !.cur = ap, !.log = Emit(@, Came(ap, time))]
      [] OTHER -> [cur |-> ap, held |-> NoHold, log |-> Emit(t.log, Roam(t.cur, ap, time))]

\* Tracker.connect.
Connect(t, ap, time) ==
    CASE t.held # NoHold /\ t.held.ap = ap ->
            [cur |-> ap, held |-> NoHold,
             log |-> Emit(Emit(t.log, Gone(t.held)), Came(ap, time))]
      [] t.held # NoHold /\ t.held.ap # ap ->
            [cur |-> ap, held |-> NoHold, log |-> Emit(t.log, Roam(t.held.ap, ap, time))]
      [] t.held = NoHold /\ t.cur = ap -> t
      [] t.held = NoHold /\ t.cur = Nowhere ->
            [t EXCEPT !.cur = ap, !.log = Emit(@, Came(ap, time))]
      [] OTHER ->
            [t EXCEPT !.cur = ap, !.log = Emit(@, Roam(t.cur, ap, time))]

\* Mutant: a disconnect is held wherever the client is believed to be.
DisconnectAnywhere(t, ap, time) ==
    IF t.cur = Nowhere \/ t.held # NoHold THEN t
    ELSE [t EXCEPT !.held = [ap |-> ap, at |-> time]]

\* Tracker.disconnect: a report from an AP the client has left is stale.
Disconnect(t, ap, time) ==
    IF t.cur # ap \/ t.held # NoHold THEN t
    ELSE [t EXCEPT !.held = [ap |-> ap, at |-> time]]

\* Tracker.radioChange.
RadioChange(t, ap, time) ==
    IF t.cur # ap \/ t.held # NoHold THEN t
    ELSE [t EXCEPT !.log = Emit(@, Event("roam_radio", ap, Nowhere, time))]

\* Mutant: the client stays recorded on the AP.
FlushedKeepsCurrent(t) == [t EXCEPT !.held = NoHold, !.log = Emit(@, Gone(t.held))]

\* Mutant: the event is built from the presence that has just been deleted.
FlushedFromPresence(t) ==
    LET cur == IF t.cur = t.held.ap THEN Nowhere ELSE t.cur
    IN  [cur |-> cur, held |-> NoHold,
         log |-> Emit(t.log, Event("disconnected", cur, Nowhere, t.held.at))]

\* One held disconnect of Tracker.Flush.
Flushed(t) ==
    [cur |-> IF t.cur = t.held.ap THEN Nowhere ELSE t.cur,
     held |-> NoHold, log |-> Emit(t.log, Gone(t.held))]

Observed(t, kind, ap, time) ==
    CASE kind = "connect" -> Connect(t, ap, time)
      [] kind = "disconnect" -> Disconnect(t, ap, time)
      [] kind = "radio_change" -> RadioChange(t, ap, time)
      [] OTHER -> t

\* Tracker.Seed: the freshest connected row, the first AP on a tie.
Seeded(store, c) ==
    LET on == {a \in Aps : Online(store[a], c)}
        first == {a \in on : \A b \in on :
                     \/ store[b][c].seen < store[a][c].seen
                     \/ store[b][c].seen = store[a][c].seen /\ a <= b}
    IN  IF on = {} THEN Nowhere ELSE CHOOSE a \in first : TRUE

-----------------------------------------------------------------------------
(* Clients and access points (external)                                     *)

\* Every access point knows where c is and nothing about c is on its way.
Noticed(c) ==
    /\ \A a \in Aps : Online(rows[a], c) <=> at[c][1] = a
    /\ \A h \in Slots :
          /\ slot[h].phase = "sent" => (c \in DOMAIN slot[h].table <=> at[c][1] = Owner[h])
          /\ slot[h].ts[c] = "none"

\* A client associates, roams, changes its radio or leaves.
Move(c, place) ==
    /\ spent.moves < MaxMoves
    /\ place # at[c]
    /\ place[1] \in {at[c][1], Nowhere} \/ Cardinality(On(at, place[1])) < MaxRows
    /\ Noticed(c) \/ spent.fast < MaxFast
    /\ at' = [at EXCEPT ![c] = place]
    /\ spent' = [spent EXCEPT !.moves = @ + 1,
                              !.fast = IF Noticed(c) THEN @ ELSE @ + 1]
    /\ UNCHANGED <<rows, saved, slot, track, now, torn>>

InFlight(ap) == \E h \in Slots : slot[h].phase # "idle" /\ Owner[h] = ap

\* An access point reports its stations; it normally waits for the answer to the
\* inform before.
Report(h) ==
    /\ slot[h].phase = "idle"
    /\ InFlight(Owner[h]) => spent.losses < MaxLosses
    /\ slot' = [slot EXCEPT ![h] =
                   [IdleSlot EXCEPT !.phase = "sent",
                                    !.table = [c \in On(at, Owner[h]) |-> at[c][2]]]]
    /\ spent' = [spent EXCEPT !.losses = IF InFlight(Owner[h]) THEN @ + 1 ELSE @]
    /\ UNCHANGED <<at, rows, saved, track, now, torn>>

Tick ==
    /\ now < MaxClock
    /\ now' = now + 1
    /\ UNCHANGED <<at, rows, saved, slot, track, torn, spent>>

-----------------------------------------------------------------------------
(* The inform cycle                                                         *)

\* refreshClientSessions inside the cycle. A cycle that also emits an armed
\* setdefault sweeps the rows it has just written.
Commit(h, sweeps) ==
    LET ap == Owner[h]
    IN  /\ slot[h].phase = "sent"
        /\ rows' = [rows EXCEPT ![ap] =
                       IF sweeps THEN [c \in Clients |-> NoRow]
                       ELSE Capped(Refreshed(@, slot[h].table))]
        /\ slot' = [slot EXCEPT ![h] =
                       [IdleSlot EXCEPT !.phase = "saving", !.at = now,
                           !.ts = Transitions(rows[ap], slot[h].table)]]
        /\ sweeps => spent.faults < MaxFaults
        /\ spent' = [spent EXCEPT !.faults = IF sweeps THEN @ + 1 ELSE @]
        /\ UNCHANGED <<at, saved, track, now, torn>>

\* The cycle returned an error: nothing is recorded.
CycleFails(h) ==
    /\ slot[h].phase = "sent"
    /\ spent.faults < MaxFaults
    /\ slot' = [slot EXCEPT ![h] = IdleSlot]
    /\ spent' = [spent EXCEPT !.faults = @ + 1]
    /\ UNCHANGED <<at, rows, saved, track, now, torn>>

Save(h) ==
    /\ slot[h].phase = "saving"
    /\ saved' = rows
    /\ slot' = [slot EXCEPT ![h].phase = "observing"]
    /\ UNCHANGED <<at, rows, track, now, torn, spent>>

\* The rows keep the change, the transitions are dropped.
SaveFails(h) ==
    /\ slot[h].phase = "saving"
    /\ spent.faults < MaxFaults
    /\ slot' = [slot EXCEPT ![h] = IdleSlot]
    /\ spent' = [spent EXCEPT !.faults = @ + 1]
    /\ UNCHANGED <<at, rows, saved, track, now, torn>>

\* Tracker.Observe after the commit.
Observe(h) ==
    /\ slot[h].phase = "observing"
    /\ track' = [c \in Clients |->
                    Observed(track[c], slot[h].ts[c], Owner[h], slot[h].at)]
    /\ torn' = {c \in torn : \/ track'[c].log = track[c].log
                             \/ slot[h].ts[c] = "radio_change"}
    /\ slot' = [slot EXCEPT ![h] = IdleSlot]
    /\ UNCHANGED <<at, rows, saved, now, spent>>

\* A handler that committed before the disconnect was seen is done long before
\* its grace window ends.
Lapsed(c) ==
    /\ track[c].held # NoHold
    /\ \A h \in Slots : slot[h].ts[c] # "none" => slot[h].at > track[c].held.at

\* Tracker.Flush.
Flush(due) ==
    /\ due # {}
    /\ \A c \in due : Lapsed(c)
    /\ track' = [c \in Clients |-> IF c \in due THEN Flushed(track[c]) ELSE track[c]]
    /\ torn' = torn \ due
    /\ UNCHANGED <<at, rows, saved, slot, now, spent>>

\* The process dies and comes back: NewJSONStore, Tracker.Seed; the event file
\* was appended to at every emission.
Restart ==
    /\ spent.faults < MaxFaults
    /\ rows' = saved
    /\ slot' = [h \in Slots |-> IdleSlot]
    /\ track' = [c \in Clients |-> [cur |-> Seeded(saved, c), held |-> NoHold,
                                    log |-> track[c].log]]
    /\ torn' = Clients
    /\ spent' = [spent EXCEPT !.faults = @ + 1]
    /\ UNCHANGED <<at, saved, now>>

\* FileSink.Compact: the prefix of events older than the retention goes; what is
\* still on its way is younger than that. A client that stayed where it was all that time is
\* left without an assignment event.
Compact(cutoff) ==
    LET Kept(log) ==
            LET old == Cardinality({i \in DOMAIN log : log[i].time < cutoff})
            IN  SubSeq(log, old + 1, Len(log))
        Told(log) == \E i \in DOMAIN log : log[i].key # "roam_radio"
    IN  /\ spent.faults < MaxFaults
        /\ \A h \in Slots : slot[h].phase \in {"saving", "observing"} => slot[h].at >= cutoff
        /\ \A c \in Clients : track[c].held # NoHold => track[c].held.at >= cutoff
        /\ track' = [c \in Clients |-> [track[c] EXCEPT !.log = Kept(@)]]
        /\ torn' = torn \cup {c \in Clients : /\ Told(track[c].log)
                                              /\ ~Told(Kept(track[c].log))}
        /\ spent' = [spent EXCEPT !.faults = @ + 1]
        /\ UNCHANGED <<at, rows, saved, slot, now>>

-----------------------------------------------------------------------------
Handle(h) == Commit(h, FALSE) \/ Save(h) \/ Observe(h)

Next ==
    \/ \E c \in Clients, place \in Places \cup {Away} : Move(c, place)
    \/ \E h \in Slots : Report(h) \/ Handle(h) \/ Commit(h, TRUE) \/ CycleFails(h) \/ SaveFails(h)
    \/ \E due \in SUBSET Clients : Flush(due)
    \/ \E cutoff \in 1 .. now : Compact(cutoff)
    \/ Tick \/ Restart

Spec == Init /\ [][Next]_vars

\* Access points keep reporting, handlers run to their end, the flush timer ticks.
Fairness ==
    /\ \A ap \in Aps : WF_vars(\E h \in Slots : Owner[h] = ap /\ Report(h))
    /\ \A h \in Slots : WF_vars(Handle(h))
    /\ \A c \in Clients : WF_vars(\E due \in SUBSET Clients : c \in due /\ Flush(due))

FairSpec == Spec /\ Fairness

-----------------------------------------------------------------------------
\* The type invariant of rows, handlers and tracker.
TypeOK ==
    /\ at \in [Clients -> Places \cup {Away}]
    /\ rows \in [Aps -> [Clients -> Rows \cup {NoRow}]]
    /\ saved \in [Aps -> [Clients -> Rows \cup {NoRow}]]
    /\ slot \in [Slots -> SlotStates]
    /\ track \in [Clients -> Tracks]
    /\ now \in Nat
    /\ torn \in SUBSET Clients
    /\ spent \in [moves : Nat, fast : Nat, losses : Nat, faults : Nat]

\* HeldWhereCurrent: a held disconnect is about the access point the client is
\* recorded on, whatever order transitions arrive in, so Flush never reports a
\* client gone from an access point it is not on and never leaves it recorded
\* on the one it has left.
HeldWhereCurrent ==
    \A c \in Clients : track[c].held # NoHold => track[c].cur = track[c].held.ap

\* HistoryAgrees: while clients are noticed and access points wait for their
\* answers, the ongoing interval of a client's assignment history, folded from
\* events ordered by their own times and not by emission, is the access point
\* the tracker has it on; after a restart, or a compaction that dropped what told
\* the assignment, again from the client's next event
\* (Emit, FoldHistory: "connect opens an interval, roam closes the open one").
HistoryAgrees ==
    spent.fast = 0 /\ spent.losses = 0
    => \A c \in Clients \ torn : Assigned(track[c].log) = track[c].cur

\* HistoryTrue: if no transition was dropped and every stay was noticed, the
\* history ends where the client is, whichever of the two access points of a
\* roam reports first and whether or not the grace window passes in between
\* (Tracker: "in either order").
HistoryTrue ==
    <>[](spent.fast = 0 /\ spent.losses = 0 /\ spent.faults = 0
         => \A c \in Clients : Assigned(track[c].log) = at[c][1])
=============================================================================
