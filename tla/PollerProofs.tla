---------------------------- MODULE PollerProofs ----------------------------
(***************************************************************************)
(* Theorems about Poller, for any set of MACs, any lostAfterSeconds and    *)
(* without regard to the bounds.                                           *)
(*                                                                         *)
(* CountsTrue is not inductive: a snapshot of the report phase may show a  *)
(* transition that is counted long after the record has moved on. The      *)
(* invariant follows every MAC along what the poller saw last, what its    *)
(* snapshot shows and what the record is, and says that the counters stay  *)
(* behind the truth by the transitions along that chain.                   *)
(***************************************************************************)
EXTENDS Poller, FiniteSetTheorems, TLAPS

Counters == [adopts : Nat, fails : Nat]
Kinds == {"adopts", "fails"}

\* What the poller works on: a list it has taken, no later than now, and the
\* devices of that list it has not come to.
Listing ==
    poll.pc # "idle" =>
        /\ poll.list \in Lists /\ poll.at <= now
        /\ \A m \in poll.todo : poll.list[m] # NoRec

TInv == TypeOK /\ Listing

\* The state of m that the next report of m compares with, and the state m has.
Observed(m) ==
    IF poll.pc = "report" /\ m \in poll.todo THEN poll.list[m].state ELSE prev[m]

Current(m) == IF rec[m] = NoRec THEN "none" ELSE rec[m].state

\* What a change from a to b is counted as.
Counts(kind, a, b) ==
    IF kind = "adopts" THEN a \notin {"none", "adopted"} /\ b = "adopted"
    ELSE a = "adopted" /\ b # "adopted"

\* The transitions the snapshot shows and those the records have made since.
Snapped(kind) == {m \in Macs : Counts(kind, prev[m], Observed(m))}
Ahead(kind) == {m \in Macs : Counts(kind, Observed(m), Current(m))}

Balanced(kind) ==
    /\ IsFiniteSet(Snapped(kind)) /\ IsFiniteSet(Ahead(kind))
    /\ count[kind] + Cardinality(Snapped(kind)) + Cardinality(Ahead(kind)) <= truth[kind]

IInv == TInv /\ \A kind \in Kinds : Balanced(kind)

-----------------------------------------------------------------------------
(* The counters                                                             *)

\* Bump counts one where the condition holds and leaves the rest alone.
LEMMA BumpValue ==
    ASSUME NEW c \in Counters, NEW f \in Kinds, NEW cond \in BOOLEAN
    PROVE  /\ Bump(c, f, cond) \in Counters
           /\ \A k \in Kinds : Bump(c, f, cond)[k] = IF k = f /\ cond THEN c[k] + 1 ELSE c[k]
  <1>1. CASE cond
    BY <1>1 DEF Bump, Counters, Kinds
  <1>2. CASE ~cond
    BY <1>2 DEF Bump, Counters, Kinds
  <1> QED BY <1>1, <1>2

\* Both conditions of a step are counted, each in its own counter.
LEMMA BumpsValue ==
    ASSUME NEW c \in Counters, NEW a \in BOOLEAN, NEW b \in BOOLEAN
    PROVE  LET d == Bump(Bump(c, "adopts", a), "fails", b)
           IN  /\ d \in Counters
               /\ d["adopts"] = IF a THEN c["adopts"] + 1 ELSE c["adopts"]
               /\ d["fails"] = IF b THEN c["fails"] + 1 ELSE c["fails"]
  <1> DEFINE e == Bump(c, "adopts", a)
  <1>1. e \in Counters /\ \A k \in Kinds : e[k] = IF k = "adopts" /\ a THEN c[k] + 1 ELSE c[k]
    BY BumpValue DEF Kinds
  <1> HIDE DEF e
  <1>2. Bump(e, "fails", b) \in Counters
        /\ \A k \in Kinds : Bump(e, "fails", b)[k] = IF k = "fails" /\ b THEN e[k] + 1 ELSE e[k]
    BY <1>1, BumpValue DEF Kinds
  <1>3. /\ Bump(e, "fails", b)["adopts"] = IF a THEN c["adopts"] + 1 ELSE c["adopts"]
        /\ Bump(e, "fails", b)["fails"] = IF b THEN c["fails"] + 1 ELSE c["fails"]
    BY <1>1, <1>2 DEF Kinds
  <1> QED BY <1>2, <1>3 DEF e

\* A store of r under m, and the truth it leaves.
LEMMA StoresTruth ==
    ASSUME TypeOK, NEW m \in Macs, NEW r \in Records \cup {NoRec}, Stores(m, r)
    PROVE  /\ rec' \in [Macs -> Records \cup {NoRec}] /\ truth' \in Counters
           /\ rec'[m] = r /\ \A n \in Macs \ {m} : rec'[n] = rec[n]
           /\ truth'["adopts"] = IF ~Is(rec[m], "adopted") /\ Is(r, "adopted")
                                 THEN truth["adopts"] + 1 ELSE truth["adopts"]
           /\ truth'["fails"] = IF Is(rec[m], "adopted") /\ ~Is(r, "adopted")
                                THEN truth["fails"] + 1 ELSE truth["fails"]
  <1>1. truth \in Counters /\ rec \in [Macs -> Records \cup {NoRec}]
    BY DEF TypeOK, Counters
  <1>2. rec' = [rec EXCEPT ![m] = r]
    BY DEF Stores
  <1> DEFINE a == ~Is(rec[m], "adopted") /\ Is(r, "adopted")
             b == Is(rec[m], "adopted") /\ ~Is(r, "adopted")
  <1>3. truth' = Bump(Bump(truth, "adopts", a), "fails", b) /\ a \in BOOLEAN /\ b \in BOOLEAN
    BY DEF Stores, Is
  <1>4. /\ truth' \in Counters
        /\ truth'["adopts"] = IF a THEN truth["adopts"] + 1 ELSE truth["adopts"]
        /\ truth'["fails"] = IF b THEN truth["fails"] + 1 ELSE truth["fails"]
    <2> HIDE DEF a, b
    <2> QED BY <1>1, <1>3, BumpsValue
  <1> QED BY <1>1, <1>2, <1>4

\* A change is not one from a state to itself.
LEMMA NoCount == \A kind \in Kinds : \A a : ~Counts(kind, a, a)
  BY DEF Kinds, Counts

-----------------------------------------------------------------------------
(* Types                                                                    *)

\* Every step keeps the types and the list the poller works on.
LEMMA NextTInv == TInv /\ [Next]_vars => TInv'
  <1> SUFFICES ASSUME TInv, [Next]_vars PROVE TInv'
    OBVIOUS
  <1>0. TypeOK /\ Listing
    BY DEF TInv
  <1>1. ASSUME NEW m \in Macs, NEW s \in States, InformNoop(m, s) \/ InformPush(m, s)
        PROVE  TInv'
    <2>1. [state |-> s, seen |-> now] \in Records
      BY <1>0 DEF TypeOK, Records
    <2>2. rec' \in [Macs -> Records \cup {NoRec}] /\ truth' \in Counters
      BY <1>0, <1>1, <2>1, StoresTruth DEF InformNoop, InformPush
    <2>3. spent' \in [informs : Nat, ops : Nat] /\ events' \in SUBSET Macs
      BY <1>0, <1>1 DEF InformNoop, InformPush, Spend, TypeOK
    <2> QED BY <1>0, <1>1, <2>2, <2>3 DEF InformNoop, InformPush, TInv, TypeOK, Listing, Counters
  <1>2. ASSUME NEW m \in Macs, CreateDevice(m) \/ DeleteDevice(m)
        PROVE  TInv'
    <2>1. [state |-> "pending", seen |-> 0] \in Records
      BY DEF Records, States
    <2>2. rec' \in [Macs -> Records \cup {NoRec}] /\ truth' \in Counters
      BY <1>0, <1>2, <2>1, StoresTruth DEF CreateDevice, DeleteDevice
    <2>3. spent' \in [informs : Nat, ops : Nat] /\ forget' \in SUBSET Macs
      BY <1>0, <1>2 DEF CreateDevice, DeleteDevice, Spend, TypeOK
    <2> QED BY <1>0, <1>2, <2>2, <2>3 DEF CreateDevice, DeleteDevice, TInv, TypeOK, Listing, Counters
  <1>3. ASSUME NEW m \in Macs, SweepSaveFails(m) \/ SweepLost(m)
        PROVE  TInv'
    <2>1. /\ poll' \in [pc : {"idle", "sweep", "report"}, at : Nat,
                        list : Lists \cup {NoList}, todo : SUBSET Macs]
          /\ poll'.pc = poll.pc /\ poll'.list = poll.list /\ poll'.at = poll.at
          /\ poll'.todo \subseteq poll.todo
      <3>1. poll' = [poll EXCEPT !.todo = @ \ {m}]
        BY <1>3 DEF SweepSaveFails, SweepLost, Done
      <3> QED BY <1>0, <3>1 DEF TypeOK
    <2>2. Listing'
      <3>1. now' = now
        BY <1>3 DEF SweepSaveFails, SweepLost
      <3> QED BY <1>0, <2>1, <3>1 DEF Listing
    <2>3. rec' \in [Macs -> Records \cup {NoRec}] /\ truth' \in Counters
      <3>1. CASE Silent(rec[m])
        <4>1. [rec[m] EXCEPT !.state = "lost"] \in Records
          BY <1>0, <3>1 DEF TypeOK, Silent, Is, Records, States
        <4>2. Stores(m, [rec[m] EXCEPT !.state = "lost"])
          BY <1>3, <3>1 DEF SweepSaveFails, SweepLost
        <4> QED BY <1>0, <4>1, <4>2, StoresTruth
      <3>2. CASE ~Silent(rec[m])
        BY <1>0, <1>3, <3>2 DEF SweepSaveFails, SweepLost, TypeOK, Counters
      <3> QED BY <3>1, <3>2
    <2>4. count' \in Counters
      <3>1. count \in Counters
        BY <1>0 DEF TypeOK, Counters
      <3> QED BY <1>3, <3>1, BumpValue DEF SweepSaveFails, SweepLost, Kinds
    <2>5. prev' \in [Macs -> States \cup {"none"}]
      BY <1>0, <1>3 DEF SweepSaveFails, SweepLost, Pinned, TypeOK, States
    <2>6. spent' \in [informs : Nat, ops : Nat]
      <3>1. spent' = spent \/ spent' = [spent EXCEPT !["ops"] = @ + 1]
        BY <1>3 DEF SweepSaveFails, SweepLost, Spend
      <3> QED BY <1>0, <3>1 DEF TypeOK
    <2> QED BY <1>0, <1>3, <2>1, <2>2, <2>3, <2>4, <2>5, <2>6
            DEF SweepSaveFails, SweepLost, TInv, TypeOK, Counters
  <1>4. ASSUME NEW m \in Macs, CountSessionEvents(m) \/ ForgetDevice(m)
        PROVE  TInv'
    BY <1>0, <1>4 DEF CountSessionEvents, ForgetDevice, TInv, TypeOK, Listing
  <1>5. CASE SweepList \/ ReportList
    <2>1. /\ poll' \in [pc : {"idle", "sweep", "report"}, at : Nat,
                        list : Lists \cup {NoList}, todo : SUBSET Macs]
          /\ poll'.list = rec /\ poll'.at <= now
          /\ poll'.todo = {m \in Macs : rec[m] # NoRec}
      BY <1>0, <1>5 DEF SweepList, ReportList, TypeOK, Lists
    <2>2. UNCHANGED <<now, rec, prev, series, events, forget, count, truth, spent>>
      BY <1>5 DEF SweepList, ReportList
    <2>3. rec \in Lists
      BY <1>0 DEF TypeOK, Lists
    <2> QED BY <1>0, <2>1, <2>2, <2>3 DEF TInv, TypeOK, Listing
  <1>6. ASSUME NEW m \in Macs, SweepSkip(m)
        PROVE  TInv'
    BY <1>0, <1>6 DEF SweepSkip, Done, TInv, TypeOK, Listing
  <1>7. ASSUME NEW m \in Macs, Report(m)
        PROVE  TInv'
    <2> DEFINE s == poll.list[m].state
               moved == prev[m] # "none" /\ prev[m] # s
               a == moved /\ s = "adopted"
               b == moved /\ s # "adopted" /\ prev[m] = "adopted"
    <2>1. s \in States
      BY <1>0, <1>7 DEF Report, Listing, Lists, Records, TypeOK
    <2>2. count' = Bump(Bump(count, "adopts", a), "fails", b) /\ a \in BOOLEAN /\ b \in BOOLEAN
      BY <1>7 DEF Report
    <2>3. prev' = [prev EXCEPT ![m] = s]
      BY <1>7 DEF Report
    <2>4. count' \in Counters
      <3> HIDE DEF a, b
      <3>1. count \in Counters
        BY <1>0 DEF TypeOK, Counters
      <3> QED BY <2>2, <3>1, BumpsValue
    <2>5. prev' \in [Macs -> States \cup {"none"}]
      BY <1>0, <2>1, <2>3 DEF TypeOK
    <2>6. /\ poll' \in [pc : {"idle", "sweep", "report"}, at : Nat,
                        list : Lists \cup {NoList}, todo : SUBSET Macs]
          /\ poll'.pc = poll.pc /\ poll'.list = poll.list /\ poll'.at = poll.at
          /\ poll'.todo \subseteq poll.todo
      BY <1>0, <1>7 DEF Report, Done, TypeOK
    <2>7. /\ UNCHANGED <<now, rec, events, forget, truth, spent>>
          /\ series' \in SUBSET Macs
      BY <1>0, <1>7 DEF Report, TypeOK
    <2>8. Listing'
      BY <1>0, <2>6, <2>7 DEF Listing
    <2> QED BY <1>0, <2>4, <2>5, <2>6, <2>7, <2>8 DEF TInv, TypeOK, Counters
  <1>8. CASE PruneStates \/ Restart
    <2>1. poll' = IdlePoll /\ now' = now /\ rec' = rec
      BY <1>8 DEF PruneStates, Restart
    <2>2. IdlePoll \in [pc : {"idle", "sweep", "report"}, at : Nat,
                        list : Lists \cup {NoList}, todo : SUBSET Macs]
      BY DEF IdlePoll
    <2>3. Listing'
      BY <2>1 DEF Listing, IdlePoll
    <2>4. prev' \in [Macs -> States \cup {"none"}]
      BY <1>0, <1>8 DEF PruneStates, Restart, TypeOK
    <2>5. spent' \in [informs : Nat, ops : Nat]
      BY <1>0, <1>8 DEF PruneStates, Restart, Spend, TypeOK
    <2> QED BY <1>0, <1>8, <2>1, <2>2, <2>3, <2>4, <2>5 DEF PruneStates, Restart, TInv, TypeOK
  <1>9. CASE Tick
    BY <1>0, <1>9 DEF Tick, TInv, TypeOK, Listing
  <1>10. CASE UNCHANGED vars
    BY <1>0, <1>10 DEF vars, TInv, TypeOK, Listing
  <1> QED BY <1>1, <1>2, <1>3, <1>4, <1>5, <1>6, <1>7, <1>8, <1>9, <1>10 DEF Next, Poll

\* The factory state has the types; the poller waits.
LEMMA InitTInv == Init => TInv
  BY DEF Init, TInv, TypeOK, Listing, IdlePoll
-----------------------------------------------------------------------------
(* The balance                                                              *)

\* Fewer transitions to account for, and no more counted than happened.
LEMMA BalanceKept ==
    ASSUME NEW kind \in Kinds, TypeOK, TypeOK', Balanced(kind),
           Snapped(kind)' \subseteq Snapped(kind), Ahead(kind)' \subseteq Ahead(kind),
           \/ count'[kind] = count[kind] /\ truth'[kind] >= truth[kind]
           \/ count'[kind] = count[kind] + 1 /\ truth'[kind] = truth[kind] + 1
    PROVE  Balanced(kind)'
  <1> DEFINE S == Snapped(kind)
             A == Ahead(kind)
  <1>1. /\ IsFiniteSet(S) /\ IsFiniteSet(A)
        /\ count[kind] + Cardinality(S) + Cardinality(A) <= truth[kind]
    BY DEF Balanced
  <1>2. /\ IsFiniteSet(S') /\ Cardinality(S') <= Cardinality(S)
        /\ IsFiniteSet(A') /\ Cardinality(A') <= Cardinality(A)
    <2> HIDE DEF S, A
    <2>1. S' \subseteq S /\ A' \subseteq A
      BY DEF S, A
    <2> QED BY <1>1, <2>1, FS_Subset
  <1>3. /\ Cardinality(S) \in Nat /\ Cardinality(A) \in Nat
        /\ Cardinality(S') \in Nat /\ Cardinality(A') \in Nat
    BY <1>1, <1>2, FS_CardinalityType
  <1>4. count[kind] \in Nat /\ truth[kind] \in Nat /\ count'[kind] \in Nat /\ truth'[kind] \in Nat
    BY DEF TypeOK, Kinds
  <1>5. count'[kind] + Cardinality(S') + Cardinality(A') <= truth'[kind]
    <2> HIDE DEF S, A
    <2> QED BY <1>1, <1>2, <1>3, <1>4
  <1> QED BY <1>2, <1>5 DEF Balanced

\* A record that moves adds one transition to account for and one that happened.
LEMMA BalanceMoves ==
    ASSUME NEW kind \in Kinds, TypeOK, TypeOK', Balanced(kind), NEW m \in Macs,
           Snapped(kind)' \subseteq Snapped(kind), Ahead(kind)' \subseteq Ahead(kind) \cup {m},
           count'[kind] = count[kind], truth'[kind] = truth[kind] + 1
    PROVE  Balanced(kind)'
  <1> DEFINE S == Snapped(kind)
             A == Ahead(kind)
  <1>1. /\ IsFiniteSet(S) /\ IsFiniteSet(A)
        /\ count[kind] + Cardinality(S) + Cardinality(A) <= truth[kind]
    BY DEF Balanced
  <1>2. /\ IsFiniteSet(S') /\ Cardinality(S') <= Cardinality(S)
        /\ IsFiniteSet(A') /\ Cardinality(A') <= Cardinality(A) + 1
    <2> HIDE DEF S, A
    <2>1. S' \subseteq S /\ A' \subseteq A \cup {m}
      BY DEF S, A
    <2>2. IsFiniteSet(A \cup {m}) /\ Cardinality(A \cup {m}) <= Cardinality(A) + 1
      <3>1. /\ IsFiniteSet(A \cup {m})
            /\ Cardinality(A \cup {m}) = IF m \in A THEN Cardinality(A) ELSE Cardinality(A) + 1
        BY <1>1, FS_AddElement
      <3>2. Cardinality(A) \in Nat
        BY <1>1, FS_CardinalityType
      <3> QED BY <3>1, <3>2
    <2>3. IsFiniteSet(A') /\ Cardinality(A') <= Cardinality(A \cup {m})
      BY <2>1, <2>2, FS_Subset
    <2>4. Cardinality(A') \in Nat /\ Cardinality(A \cup {m}) \in Nat /\ Cardinality(A) \in Nat
      BY <1>1, <2>2, <2>3, FS_CardinalityType
    <2>5. IsFiniteSet(S') /\ Cardinality(S') <= Cardinality(S)
      BY <1>1, <2>1, FS_Subset
    <2> QED BY <2>2, <2>3, <2>4, <2>5
  <1>3. /\ Cardinality(S) \in Nat /\ Cardinality(A) \in Nat
        /\ Cardinality(S') \in Nat /\ Cardinality(A') \in Nat
    BY <1>1, <1>2, FS_CardinalityType
  <1>4. count[kind] \in Nat /\ truth[kind] \in Nat
    BY DEF TypeOK, Kinds
  <1>5. count'[kind] + Cardinality(S') + Cardinality(A') <= truth'[kind]
    <2> HIDE DEF S, A
    <2> QED BY <1>1, <1>2, <1>3, <1>4
  <1> QED BY <1>2, <1>5 DEF Balanced

\* A report counts one transition of its snapshot.
LEMMA BalanceCounts ==
    ASSUME NEW kind \in Kinds, TypeOK, Balanced(kind), NEW m \in Snapped(kind),
           Snapped(kind)' \subseteq Snapped(kind) \ {m}, Ahead(kind)' \subseteq Ahead(kind),
           count'[kind] = count[kind] + 1, truth'[kind] = truth[kind]
    PROVE  Balanced(kind)'
  <1> DEFINE S == Snapped(kind)
             A == Ahead(kind)
  <1>1. /\ IsFiniteSet(S) /\ IsFiniteSet(A) /\ m \in S
        /\ count[kind] + Cardinality(S) + Cardinality(A) <= truth[kind]
    BY DEF Balanced
  <1>2. /\ IsFiniteSet(S') /\ Cardinality(S') <= Cardinality(S) - 1
        /\ IsFiniteSet(A') /\ Cardinality(A') <= Cardinality(A)
    <2> HIDE DEF S, A
    <2>1. S' \subseteq S \ {m} /\ A' \subseteq A
      BY DEF S, A
    <2>2. IsFiniteSet(S \ {m}) /\ Cardinality(S \ {m}) = Cardinality(S) - 1
      BY <1>1, FS_RemoveElement
    <2>3. IsFiniteSet(S') /\ Cardinality(S') <= Cardinality(S \ {m})
      BY <2>1, <2>2, FS_Subset
    <2>4. IsFiniteSet(A') /\ Cardinality(A') <= Cardinality(A)
      BY <1>1, <2>1, FS_Subset
    <2> QED BY <2>2, <2>3, <2>4
  <1>3. /\ Cardinality(S) \in Nat /\ Cardinality(A) \in Nat
        /\ Cardinality(S') \in Nat /\ Cardinality(A') \in Nat
    BY <1>1, <1>2, FS_CardinalityType
  <1>4. count[kind] \in Nat /\ truth[kind] \in Nat
    BY DEF TypeOK, Kinds
  <1>5. count'[kind] + Cardinality(S') + Cardinality(A') <= truth'[kind]
    <2> HIDE DEF S, A
    <2> QED BY <1>1, <1>2, <1>3, <1>4
  <1> QED BY <1>2, <1>5 DEF Balanced

\* A new snapshot turns what was ahead of the poller into what it shows.
LEMMA BalanceShifts ==
    ASSUME NEW kind \in Kinds, TypeOK, Balanced(kind),
           Snapped(kind)' \subseteq Ahead(kind), Ahead(kind)' \subseteq Ahead(kind),
           Snapped(kind)' \cap Ahead(kind)' = {},
           count'[kind] = count[kind], truth'[kind] = truth[kind]
    PROVE  Balanced(kind)'
  <1> DEFINE S == Snapped(kind)
             A == Ahead(kind)
  <1>1. /\ IsFiniteSet(S) /\ IsFiniteSet(A)
        /\ count[kind] + Cardinality(S) + Cardinality(A) <= truth[kind]
    BY DEF Balanced
  <1>2. IsFiniteSet(S') /\ IsFiniteSet(A') /\ Cardinality(S') + Cardinality(A') <= Cardinality(A)
    <2> HIDE DEF S, A
    <2>1. S' \subseteq A /\ A' \subseteq A /\ S' \cap A' = {}
      BY DEF S, A
    <2>2. IsFiniteSet(S') /\ IsFiniteSet(A')
      BY <1>1, <2>1, FS_Subset
    <2>3. Cardinality(S' \cup A') = Cardinality(S') + Cardinality(A') - Cardinality(S' \cap A')
      BY <2>2, FS_Union
    <2>4. S' \cup A' \subseteq A
      BY <2>1
    <2>5. Cardinality(S' \cup A') <= Cardinality(A)
      BY <1>1, <2>4, FS_Subset
    <2>6. Cardinality(S' \cap A') = 0
      BY <2>1, FS_EmptySet
    <2>7. Cardinality(S') \in Nat /\ Cardinality(A') \in Nat
      BY <2>2, FS_CardinalityType
    <2> QED BY <2>2, <2>3, <2>5, <2>6, <2>7
  <1>3. /\ Cardinality(S) \in Nat /\ Cardinality(A) \in Nat
        /\ Cardinality(S') \in Nat /\ Cardinality(A') \in Nat
    BY <1>1, <1>2, FS_CardinalityType
  <1>4. count[kind] \in Nat /\ truth[kind] \in Nat
    BY DEF TypeOK, Kinds
  <1>5. count'[kind] + Cardinality(S') + Cardinality(A') <= truth'[kind]
    <2> HIDE DEF S, A
    <2> QED BY <1>1, <1>2, <1>3, <1>4
  <1> QED BY <1>2, <1>5 DEF Balanced

\* A record is stored while the poller's view stays as it is.
LEMMA StoresBalance ==
    ASSUME NEW kind \in Kinds, TypeOK, TypeOK', Balanced(kind),
           NEW m \in Macs, NEW r \in Records \cup {NoRec}, Stores(m, r),
           \A n \in Macs : prev'[n] = prev[n] /\ Observed(n)' = Observed(n),
           count' = count
    PROVE  Balanced(kind)'
  <1>1. /\ rec'[m] = r /\ \A n \in Macs \ {m} : rec'[n] = rec[n]
        /\ truth'["adopts"] = IF ~Is(rec[m], "adopted") /\ Is(r, "adopted")
                              THEN truth["adopts"] + 1 ELSE truth["adopts"]
        /\ truth'["fails"] = IF Is(rec[m], "adopted") /\ ~Is(r, "adopted")
                             THEN truth["fails"] + 1 ELSE truth["fails"]
    BY StoresTruth
  <1>2. Snapped(kind)' \subseteq Snapped(kind)
    BY DEF Snapped, Counts
  <1>3. \A n \in Macs \ {m} : Current(n)' = Current(n)
    BY <1>1 DEF Current
  <1>4. Ahead(kind)' \subseteq Ahead(kind) \cup {m}
    BY <1>3 DEF Ahead, Counts
  <1>5. truth["adopts"] \in Nat /\ truth["fails"] \in Nat
    BY DEF TypeOK
  <1>6. truth'[kind] = truth[kind] \/ truth'[kind] = truth[kind] + 1
    BY <1>1 DEF Kinds
  <1>7. CASE truth'[kind] = truth[kind]
    <2>1. m \in Ahead(kind)' => m \in Ahead(kind)
      <3>1. CASE kind = "adopts"
        BY <1>1, <1>5, <1>7, <3>1 DEF Ahead, Counts, Current, Is
      <3>2. CASE kind = "fails"
        BY <1>1, <1>5, <1>7, <3>2 DEF Ahead, Counts, Current, Is
      <3> QED BY <3>1, <3>2 DEF Kinds
    <2>2. Ahead(kind)' \subseteq Ahead(kind)
      BY <1>4, <2>1
    <2>3. truth'[kind] >= truth[kind]
      BY <1>5, <1>7 DEF Kinds
    <2> QED BY <1>2, <2>2, <2>3, BalanceKept
  <1>8. CASE truth'[kind] = truth[kind] + 1
    BY <1>2, <1>4, <1>8, BalanceMoves
  <1> QED BY <1>6, <1>7, <1>8
\* Every step keeps both counters behind the truth.
LEMMA NextBalanced ==
    ASSUME IInv, [Next]_vars, NEW kind \in Kinds
    PROVE  Balanced(kind)'
  <1>0. TypeOK /\ TypeOK' /\ Listing /\ Balanced(kind)
    BY NextTInv DEF IInv, TInv
  <1>1. count[kind] \in Nat /\ truth[kind] \in Nat
    BY <1>0 DEF TypeOK, Kinds
  <1>2. ASSUME UNCHANGED <<rec, prev, count, truth>>, \A n \in Macs : Observed(n)' = Observed(n)
        PROVE  Balanced(kind)'
    <2>1. Snapped(kind)' \subseteq Snapped(kind) /\ Ahead(kind)' \subseteq Ahead(kind)
      BY <1>2 DEF Snapped, Ahead, Current, Counts
    <2> QED BY <1>0, <1>1, <1>2, <2>1, BalanceKept
  <1>3. ASSUME NEW m \in Macs, poll.pc = "sweep", Done(m)
        PROVE  poll'.pc = "sweep"
    BY <1>0, <1>3 DEF Done, TypeOK
  <1>4. ASSUME NEW m \in Macs, NEW s \in States, InformNoop(m, s) \/ InformPush(m, s)
        PROVE  Balanced(kind)'
    <2>1. [state |-> s, seen |-> now] \in Records
      BY <1>0 DEF TypeOK, Records
    <2>2. Stores(m, [state |-> s, seen |-> now]) /\ UNCHANGED <<poll, prev, count>>
      BY <1>4 DEF InformNoop, InformPush
    <2>3. \A n \in Macs : prev'[n] = prev[n] /\ Observed(n)' = Observed(n)
      BY <2>2 DEF Observed
    <2> QED BY <1>0, <2>1, <2>2, <2>3, StoresBalance
  <1>5. ASSUME NEW m \in Macs, CreateDevice(m) \/ DeleteDevice(m)
        PROVE  Balanced(kind)'
    <2>1. PICK r \in Records \cup {NoRec} : Stores(m, r)
      <3>1. [state |-> "pending", seen |-> 0] \in Records
        BY DEF Records, States
      <3> QED BY <1>5, <3>1 DEF CreateDevice, DeleteDevice
    <2>2. UNCHANGED <<poll, prev, count>>
      BY <1>5 DEF CreateDevice, DeleteDevice
    <2>3. \A n \in Macs : prev'[n] = prev[n] /\ Observed(n)' = Observed(n)
      BY <2>2 DEF Observed
    <2> QED BY <1>0, <2>1, <2>2, <2>3, StoresBalance
  <1>6. ASSUME NEW m \in Macs, SweepSaveFails(m)
        PROVE  Balanced(kind)'
    <2>1. [rec[m] EXCEPT !.state = "lost"] \in Records
      BY <1>0, <1>6 DEF SweepSaveFails, TypeOK, Silent, Is, Records, States
    <2>2. /\ poll.pc = "sweep" /\ poll'.pc = "sweep" /\ UNCHANGED <<prev, count>>
          /\ Stores(m, [rec[m] EXCEPT !.state = "lost"])
      BY <1>3, <1>6 DEF SweepSaveFails
    <2>3. \A n \in Macs : prev'[n] = prev[n] /\ Observed(n)' = Observed(n)
      BY <2>2 DEF Observed
    <2> QED BY <1>0, <2>1, <2>2, <2>3, StoresBalance
  <1>7. ASSUME NEW m \in Macs, SweepLost(m)
        PROVE  Balanced(kind)'
    <2>1. poll.pc = "sweep" /\ poll'.pc = "sweep"
      BY <1>3, <1>7 DEF SweepLost
    <2>2. CASE ~Silent(rec[m])
      <3>1. UNCHANGED <<rec, truth, count, prev>>
        BY <1>7, <2>2 DEF SweepLost
      <3> QED BY <1>2, <2>1, <3>1 DEF Observed
    <2>3. CASE Silent(rec[m])
      <3>1. [rec[m] EXCEPT !.state = "lost"] \in Records
            /\ [rec[m] EXCEPT !.state = "lost"].state = "lost"
        BY <1>0, <2>3 DEF TypeOK, Silent, Is, Records, States
      <3> DEFINE r == [rec[m] EXCEPT !.state = "lost"]
      <3>2. /\ Stores(m, r) /\ count' = Bump(count, "fails", TRUE) /\ Pinned(m)
            /\ Is(rec[m], "adopted") /\ r # NoRec /\ r \in Records /\ r.state = "lost"
        BY <1>7, <2>3, <3>1, NoRecAssumption DEF SweepLost, Silent
      <3> HIDE DEF r
      <3>3. /\ rec'[m] = r /\ \A n \in Macs \ {m} : rec'[n] = rec[n]
            /\ truth'["adopts"] = truth["adopts"]
            /\ truth'["fails"] = truth["fails"] + 1
        <4>1. Is(rec[m], "adopted") /\ ~Is(r, "adopted")
          BY <3>2 DEF Is
        <4> QED BY <1>0, <3>2, <4>1, StoresTruth
      <3>4. count'["adopts"] = count["adopts"] /\ count'["fails"] = count["fails"] + 1
        <4>1. count \in Counters
          BY <1>0 DEF TypeOK, Counters
        <4> QED BY <3>2, <4>1, BumpValue DEF Kinds
      <3>5. prev'[m] = "lost" /\ \A n \in Macs \ {m} : prev'[n] = prev[n]
        BY <1>0, <3>2 DEF Pinned, TypeOK
      <3>6. \A n \in Macs : Observed(n) = prev[n] /\ Observed(n)' = prev'[n]
        BY <2>1 DEF Observed
      <3>7. /\ Current(m)' = "lost" /\ Observed(m)' = "lost"
            /\ \A n \in Macs \ {m} : Current(n)' = Current(n) /\ Observed(n)' = Observed(n)
        BY <3>2, <3>3, <3>5, <3>6 DEF Current
      <3>8. Snapped(kind)' = {} /\ m \notin Ahead(kind)'
        BY <3>5, <3>6, <3>7, NoCount DEF Snapped, Ahead
      <3>9. Ahead(kind)' \subseteq Ahead(kind)
        BY <3>7, <3>8 DEF Ahead, Counts
      <3> QED BY <1>0, <1>1, <3>3, <3>4, <3>8, <3>9, BalanceKept DEF Kinds
    <2> QED BY <2>2, <2>3
  <1>8. CASE ReportList
    <2>1. /\ poll.pc = "sweep" /\ UNCHANGED <<rec, prev, count, truth>>
          /\ poll' = [pc |-> "report", at |-> 0, list |-> rec,
                      todo |-> {m \in Macs : rec[m] # NoRec}]
      BY <1>8 DEF ReportList
    <2>2. \A n \in Macs : Observed(n) = prev[n]
      BY <2>1 DEF Observed
    <2>3. \A n \in Macs : /\ Current(n)' = Current(n)
                          /\ rec[n] # NoRec => Observed(n)' = Current(n)
                          /\ rec[n] = NoRec => Observed(n)' = prev[n] /\ Current(n) = "none"
      BY <2>1 DEF Observed, Current
    <2>4. \A n \in Snapped(kind)' : rec[n] # NoRec /\ n \in Ahead(kind)
      BY <2>1, <2>2, <2>3, NoCount DEF Snapped, Ahead
    <2>5. \A n \in Ahead(kind)' : rec[n] = NoRec /\ n \in Ahead(kind)
      BY <2>1, <2>2, <2>3, NoCount DEF Ahead
    <2> QED BY <1>0, <2>1, <2>4, <2>5, BalanceShifts
  <1>9. ASSUME NEW m \in Macs, Report(m)
        PROVE  Balanced(kind)'
    <2> DEFINE s == poll.list[m].state
               moved == prev[m] # "none" /\ prev[m] # s
               a == moved /\ s = "adopted"
               b == moved /\ s # "adopted" /\ prev[m] = "adopted"
    <2>1. count' = Bump(Bump(count, "adopts", a), "fails", b) /\ a \in BOOLEAN /\ b \in BOOLEAN
      BY <1>9 DEF Report
    <2>2. /\ count'["adopts"] = IF a THEN count["adopts"] + 1 ELSE count["adopts"]
          /\ count'["fails"] = IF b THEN count["fails"] + 1 ELSE count["fails"]
      <3> HIDE DEF a, b
      <3>1. count \in Counters
        BY <1>0 DEF TypeOK, Counters
      <3> QED BY <2>1, <3>1, BumpsValue
    <2>3. count'[kind] = IF Counts(kind, prev[m], s) THEN count[kind] + 1 ELSE count[kind]
      BY <2>2 DEF Counts, Kinds
    <2>4. /\ poll.pc = "report" /\ m \in poll.todo
          /\ poll' = [poll EXCEPT !.todo = @ \ {m}]
          /\ prev' = [prev EXCEPT ![m] = s]
          /\ UNCHANGED <<rec, truth>>
      BY <1>9 DEF Report, Done
    <2>5. /\ poll'.pc = poll.pc /\ poll'.list = poll.list /\ poll'.todo = poll.todo \ {m}
          /\ prev'[m] = s /\ \A n \in Macs \ {m} : prev'[n] = prev[n]
      BY <1>0, <2>4 DEF TypeOK
    <2>6. Observed(m) = s /\ Observed(m)' = s
      BY <2>4, <2>5 DEF Observed
    <2> HIDE DEF s, moved, a, b
    <2>7. \A n \in Macs \ {m} : Observed(n)' = Observed(n)
      BY <2>5 DEF Observed
    <2>8. \A n \in Macs : Current(n)' = Current(n)
      BY <2>4 DEF Current
    <2>9. m \notin Snapped(kind)'
      BY <2>5, <2>6, NoCount DEF Snapped
    <2>10. Snapped(kind)' \subseteq Snapped(kind) \ {m}
      BY <2>5, <2>7, <2>9 DEF Snapped, Counts
    <2>11. Ahead(kind)' \subseteq Ahead(kind)
      BY <2>6, <2>7, <2>8 DEF Ahead, Counts
    <2>12. m \in Snapped(kind) <=> Counts(kind, prev[m], s)
      BY <2>6 DEF Snapped
    <2>13. truth'[kind] = truth[kind]
      BY <2>4
    <2>14. CASE Counts(kind, prev[m], s)
      BY <1>0, <2>3, <2>10, <2>11, <2>12, <2>13, <2>14, BalanceCounts
    <2>15. CASE ~Counts(kind, prev[m], s)
      <3>1. count'[kind] = count[kind] /\ truth'[kind] >= truth[kind]
        BY <1>1, <2>3, <2>13, <2>15
      <3> QED BY <1>0, <2>10, <2>11, <3>1, BalanceKept
    <2> QED BY <2>14, <2>15
  <1>10. CASE PruneStates
    <2>1. /\ poll.todo = {} /\ poll'.todo = {} /\ UNCHANGED <<rec, count, truth>>
          /\ \A n \in Macs : prev'[n] = prev[n] \/ prev'[n] = "none"
      BY <1>10 DEF PruneStates, IdlePoll
    <2>2. \A n \in Macs : Observed(n) = prev[n] /\ Observed(n)' = prev'[n]
      BY <2>1 DEF Observed
    <2>3. \A n \in Macs : Current(n)' = Current(n)
      BY <2>1 DEF Current
    <2>4. Snapped(kind)' = {}
      BY <2>2, NoCount DEF Snapped
    <2>5. Ahead(kind)' \subseteq Ahead(kind)
      BY <2>1, <2>2, <2>3 DEF Ahead, Counts
    <2> QED BY <1>0, <1>1, <2>1, <2>4, <2>5, BalanceKept
  <1>11. CASE Restart
    <2>1. /\ poll'.todo = {} /\ count'[kind] = 0 /\ truth'[kind] = 0
          /\ \A n \in Macs : prev'[n] = "none"
      BY <1>11 DEF Restart, IdlePoll, Kinds
    <2>2. Snapped(kind)' = {} /\ Ahead(kind)' = {}
      BY <2>1 DEF Snapped, Ahead, Observed, Counts
    <2> QED BY <2>1, <2>2, FS_EmptySet DEF Balanced
  <1>12. CASE SweepList \/ \E m \in Macs : SweepSkip(m)
    <2>1. UNCHANGED <<rec, prev, count, truth>> /\ poll.pc # "report" /\ poll'.pc # "report"
      <3>1. CASE SweepList
        BY <3>1 DEF SweepList
      <3>2. CASE \E m \in Macs : SweepSkip(m)
        BY <1>3, <3>2 DEF SweepSkip
      <3> QED BY <1>12, <3>1, <3>2
    <2> QED BY <1>2, <2>1 DEF Observed
  <1>13. CASE \/ \E m \in Macs : CountSessionEvents(m) \/ ForgetDevice(m)
              \/ Tick \/ UNCHANGED vars
    <2>1. UNCHANGED <<rec, prev, count, truth, poll>>
      BY <1>13 DEF CountSessionEvents, ForgetDevice, Tick, vars
    <2> QED BY <1>2, <2>1 DEF Observed
  <1> QED BY <1>4, <1>5, <1>6, <1>7, <1>8, <1>9, <1>10, <1>11, <1>12, <1>13 DEF Next, Poll

\* The invariant holds for ever.
LEMMA PollerInvariant == Spec => []IInv
  <1>1. Init => IInv
    <2> SUFFICES ASSUME Init PROVE IInv
      OBVIOUS
    <2>1. /\ \A n \in Macs : prev[n] = "none"
          /\ poll.todo = {} /\ \A kind \in Kinds : count[kind] = 0 /\ truth[kind] = 0
      BY DEF Init, IdlePoll, Kinds
    <2>2. \A kind \in Kinds : Snapped(kind) = {} /\ Ahead(kind) = {}
      BY <2>1 DEF Snapped, Ahead, Observed, Counts
    <2>3. \A kind \in Kinds : Balanced(kind)
      BY <2>1, <2>2, FS_EmptySet DEF Balanced
    <2> QED BY <2>3, InitTInv DEF IInv
  <1>2. IInv /\ [Next]_vars => IInv'
    <2> SUFFICES ASSUME IInv, [Next]_vars PROVE IInv'
      OBVIOUS
    <2>1. TInv'
      BY NextTInv DEF IInv
    <2>2. \A kind \in Kinds : Balanced(kind)'
      BY NextBalanced
    <2> QED BY <2>1, <2>2 DEF IInv
  <1> QED BY <1>1, <1>2, PTL DEF Spec

-----------------------------------------------------------------------------
(* The theorems                                                             *)

\* The poller, its snapshots and the records keep their types.
THEOREM TypeCorrect == Spec => []TypeOK
  <1>1. IInv => TypeOK
    BY DEF IInv, TInv
  <1> QED BY <1>1, PollerInvariant, PTL

\* PollOnce and sweepLost never count a transition twice or one that did not
\* happen, for any number of devices: what they counted and what they have still
\* to count are transitions the records made.
THEOREM CountsTrueHolds == Spec => []CountsTrue
  <1>1. IInv => CountsTrue
    <2> SUFFICES ASSUME IInv PROVE CountsTrue
      OBVIOUS
    <2>1. \A kind \in Kinds : count[kind] <= truth[kind]
      <3> SUFFICES ASSUME NEW kind \in Kinds PROVE count[kind] <= truth[kind]
        OBVIOUS
      <3>1. Cardinality(Snapped(kind)) \in Nat /\ Cardinality(Ahead(kind)) \in Nat
        BY FS_CardinalityType DEF IInv, Balanced
      <3>2. count[kind] \in Nat /\ truth[kind] \in Nat
        BY DEF IInv, TInv, TypeOK, Kinds
      <3> QED BY <3>1, <3>2 DEF IInv, Balanced
    <2> QED BY <2>1 DEF CountsTrue, Kinds
  <1> QED BY <1>1, PollerInvariant, PTL

\* A record becomes lost only when it is adopted and silent at that moment: the
\* sweep checks the stored record again, by a clock that is not ahead (sweepLost).
THEOREM SweepSoundHolds == Spec => SweepSound
  <1> DEFINE Sound == \A m \in Macs : Is(rec'[m], "lost") /\ ~Is(rec[m], "lost")
                          => Is(rec[m], "adopted") /\ now - rec[m].seen > LostAfter
  <1>1. IInv /\ [Next]_vars => [Sound]_vars
    <2> SUFFICES ASSUME IInv, Next, NEW n \in Macs, Is(rec'[n], "lost"), ~Is(rec[n], "lost")
                 PROVE  Is(rec[n], "adopted") /\ now - rec[n].seen > LostAfter
      BY DEF Sound
    <2>0. TypeOK /\ Listing
      BY DEF IInv, TInv
    <2>1. rec' # rec
      OBVIOUS
    <2>2. ASSUME NEW m \in Macs, NEW s \in States, InformNoop(m, s) \/ InformPush(m, s)
          PROVE  FALSE
      <3>1. rec' = [rec EXCEPT ![m] = [state |-> s, seen |-> now]]
        BY <2>2 DEF InformNoop, InformPush, Stores
      <3>2. rec[m] # NoRec /\ (s = rec[m].state \/ s # "lost")
        BY <2>2 DEF InformNoop, InformPush
      <3>3. n = m /\ s = "lost"
        BY <2>0, <3>1 DEF TypeOK, Is
      <3> QED BY <3>2, <3>3 DEF Is
    <2>3. ASSUME NEW m \in Macs, CreateDevice(m) \/ DeleteDevice(m)
          PROVE  FALSE
      BY <2>0, <2>3 DEF CreateDevice, DeleteDevice, Stores, TypeOK, Is
    <2>4. ASSUME NEW m \in Macs, SweepSaveFails(m) \/ SweepLost(m)
          PROVE  Is(rec[n], "adopted") /\ now - rec[n].seen > LostAfter
      <3>1. /\ poll.pc = "sweep" /\ Silent(rec[m])
            /\ rec' = [rec EXCEPT ![m] = [rec[m] EXCEPT !.state = "lost"]]
        BY <2>1, <2>4 DEF SweepSaveFails, SweepLost, Stores
      <3>2. n = m
        BY <2>0, <3>1 DEF TypeOK
      <3>3. poll.at <= now /\ poll.at \in Nat /\ now \in Nat /\ LostAfter \in Nat
        BY <2>0, <3>1, PollerBoundAssumption DEF Listing, TypeOK
      <3>4. rec[m].seen \in Nat
        BY <2>0, <3>1 DEF TypeOK, Records, Silent, Is
      <3> QED BY <3>1, <3>2, <3>3, <3>4 DEF Silent
    <2>5. CASE \/ \E m \in Macs : CountSessionEvents(m) \/ ForgetDevice(m)
               \/ \E m \in Macs : SweepSkip(m) \/ Report(m)
               \/ SweepList \/ ReportList \/ PruneStates \/ Restart \/ Tick
      BY <2>1, <2>5 DEF CountSessionEvents, ForgetDevice, SweepSkip, Report, SweepList,
         ReportList, PruneStates, Restart, Tick
    <2> QED BY <2>2, <2>3, <2>4, <2>5 DEF Next, Poll
  <1>2. Spec => [][Sound]_vars
    <2> HIDE DEF Sound
    <2> QED BY <1>1, PollerInvariant, PTL DEF Spec
  <1> QED BY <1>2 DEF SweepSound
=============================================================================
