--------------------------- MODULE ClientLogProofs ---------------------------
(***************************************************************************)
(* Theorems about ClientLog, for any number of access points, clients,     *)
(* handlers and events, any row cap and any order of reports, saves,       *)
(* restarts, flushes and compactions: types, that a held disconnect is     *)
(* about where the client is recorded, that the events of a client are     *)
(* ordered by time, and that the assignment history folded from them       *)
(* agrees with the tracker.                                                *)
(*                                                                         *)
(* The first three and the rows' dates are inductive together (IInv). For  *)
(* the last, what a log tells is the last event that is not a change of    *)
(* radio (Stands). While clients are noticed and access points wait for    *)
(* their answers, every transition under way and every held disconnect is  *)
(* younger than what it will be added to (Calm), so that the tracker's     *)
(* last word is the log's; and the fold of a log ends in what that log     *)
(* tells (HistorySays, by induction over its positions).                   *)
(***************************************************************************)
EXTENDS ClientLog, SequenceTheorems, FiniteSetTheorems, WellFoundedInduction, TLAPS

\* The events of one client are in the order of their times, which is what the
\* binary search of pruneLocked and the fold of FoldHistory rest on.
Ordered(log) == \A i, j \in DOMAIN log : i <= j => log[i].time <= log[j].time

\* No row is from the future.
Dated(store) == \A a \in Aps, c \in Clients : store[a][c] # NoRow => store[a][c].seen <= now

IInv ==
    /\ TypeOK
    /\ \A c \in Clients : Ordered(track[c].log)
    /\ Dated(rows) /\ Dated(saved)
    /\ HeldWhereCurrent

-----------------------------------------------------------------------------
(* The event file                                                           *)

\* A set of positions with every position below its members is an initial
\* segment, as long as it has members.
LEMMA InitialSegment ==
    ASSUME NEW n \in Nat, NEW S \in SUBSET (1 .. n),
           \A i \in S, j \in 1 .. n : j <= i => j \in S
    PROVE  Cardinality(S) \in 0 .. n /\ S = 1 .. Cardinality(S)
  <1>1. IsFiniteSet(1 .. n) /\ Cardinality(1 .. n) = n
    BY FS_Interval
  <1>2. IsFiniteSet(S) /\ Cardinality(S) <= n
    BY <1>1, FS_Subset
  <1>3. Cardinality(S) \in Nat
    BY <1>2, FS_CardinalityType
  <1> DEFINE k == Cardinality(S)
  <1>4. IsFiniteSet(1 .. k) /\ Cardinality(1 .. k) = k
    BY <1>3, FS_Interval
  <1>5. ASSUME NEW x \in S PROVE x <= k
    <2>1. x \in Nat /\ 1 .. x \subseteq S
      OBVIOUS
    <2>2. Cardinality(1 .. x) = x
      BY <2>1, FS_Interval
    <2> QED BY <1>2, <2>1, <2>2, FS_Subset
  <1>6. S \subseteq 1 .. k
    BY <1>3, <1>5
  <1>7. S = 1 .. k
    BY <1>4, <1>6, FS_Subset
  <1> QED BY <1>2, <1>3, <1>7

\* Events have times.
LEMMA EventTimes ==
    ASSUME NEW log \in Seq(Events)
    PROVE  /\ Len(log) \in Nat /\ DOMAIN log = 1 .. Len(log)
           /\ \A i \in 1 .. Len(log) : log[i] \in Events /\ log[i].time \in Nat
  <1>1. \A e \in Events : e.time \in Nat
    BY DEF Events
  <1>2. Len(log) \in Nat /\ DOMAIN log = 1 .. Len(log)
    OBVIOUS
  <1>3. \A i \in 1 .. Len(log) : log[i] \in Events
    OBVIOUS
  <1> QED BY <1>1, <1>2, <1>3

\* The events up to a time are a prefix of an ordered log.
LEMMA OrderedPrefix ==
    ASSUME NEW log \in Seq(Events), Ordered(log), NEW t \in Nat
    PROVE  LET S == {i \in DOMAIN log : log[i].time <= t}
           IN  Cardinality(S) \in 0 .. Len(log) /\ S = 1 .. Cardinality(S)
  <1> DEFINE S == {i \in DOMAIN log : log[i].time <= t}
  <1>1. DOMAIN log = 1 .. Len(log) /\ Len(log) \in Nat
    OBVIOUS
  <1>2. \A i \in DOMAIN log : log[i].time \in Nat
    BY EventTimes
  <1>3. \A i \in S, j \in 1 .. Len(log) : j <= i => j \in S
    BY <1>1, <1>2 DEF Ordered
  <1>4. S \in SUBSET (1 .. Len(log))
    BY <1>1
  <1> HIDE DEF S
  <1>5. Cardinality(S) \in 0 .. Len(log) /\ S = 1 .. Cardinality(S)
    BY <1>1, <1>3, <1>4, InitialSegment
  <1> QED BY <1>5 DEF S

\* out is the log with e behind its first k events, which are those up to e's time.
Inserted(log, e, out, k) ==
    /\ out \in Seq(Events) /\ Len(out) = Len(log) + 1
    /\ \A i \in 1 .. Len(log) + 1 :
          out[i] = IF i <= k THEN log[i] ELSE IF i = k + 1 THEN e ELSE log[i - 1]
    /\ \A i \in 1 .. Len(log) : log[i].time <= e.time <=> i <= k

\* FileSink.Emit inserts an event behind those up to its time.
LEMMA EmitParts ==
    ASSUME NEW log \in Seq(Events), Ordered(log), NEW e \in Events
    PROVE  \E k \in 0 .. Len(log) : Inserted(log, e, Emit(log, e), k)
  <1> DEFINE S == {i \in DOMAIN log : log[i].time <= e.time}
             k == Cardinality(S)
             n == Len(log)
             a == SubSeq(log, 1, k)
             b == SubSeq(log, k + 1, n)
  <1>0. e.time \in Nat
    BY DEF Events
  <1>1. /\ e.time \in Nat /\ n \in Nat /\ DOMAIN log = 1 .. n
        /\ \A i \in 1 .. n : log[i] \in Events /\ log[i].time \in Nat
    BY <1>0, EventTimes
  <1>2. k \in 0 .. n /\ S = 1 .. k
    BY <1>1, OrderedPrefix
  <1>3. \A i \in 1 .. n : log[i].time \in Nat /\ (log[i].time <= e.time <=> i <= k)
    BY <1>1, <1>2
  <1>4. Emit(log, e) = a \o <<e>> \o b
    BY DEF Emit
  <1> HIDE DEF S, k
  <1>5. a \in Seq(Events) /\ Len(a) = k /\ \A i \in 1 .. k : a[i] = log[i]
    BY <1>1, <1>2, SubSeqProperties
  <1>6. b \in Seq(Events) /\ Len(b) = n - k /\ \A i \in 1 .. n - k : b[i] = log[k + i]
    <2> HIDE DEF n
    <2>1. k + 1 \in Int /\ n \in Int /\ \A i \in (k + 1) .. n : log[i] \in Events
      BY <1>1, <1>2
    <2>2. /\ b \in Seq(Events) /\ Len(b) = IF k + 1 <= n THEN n - (k + 1) + 1 ELSE 0
          /\ \A i \in 1 .. n - (k + 1) + 1 : b[i] = log[(k + 1) + i - 1]
      BY <2>1, SubSeqProperties
    <2> HIDE DEF b
    <2> QED BY <1>1, <1>2, <2>2
  <1> HIDE DEF a, b, n
  <1>7. <<e>> \in Seq(Events) /\ Len(<<e>>) = 1 /\ <<e>>[1] = e
    OBVIOUS
  <1>8. /\ a \o <<e>> \in Seq(Events) /\ Len(a \o <<e>>) = k + 1
        /\ \A i \in 1 .. k + 1 : (a \o <<e>>)[i] = IF i <= k THEN a[i] ELSE <<e>>[i - k]
    BY <1>5, <1>7, ConcatProperties
  <1> DEFINE ae == a \o <<e>>
             out == ae \o b
  <1> HIDE DEF ae
  <1>9. /\ ae \in Seq(Events) /\ Len(ae) = k + 1
        /\ \A i \in 1 .. k : ae[i] = log[i]
        /\ ae[k + 1] = e
    BY <1>2, <1>5, <1>7, <1>8 DEF ae
  <1>10. /\ out \in Seq(Events) /\ Len(out) = n + 1
         /\ \A i \in 1 .. n + 1 : out[i] = IF i <= k + 1 THEN ae[i] ELSE b[i - (k + 1)]
    <2>1. /\ out \in Seq(Events) /\ Len(out) = Len(ae) + Len(b)
          /\ \A i \in 1 .. Len(ae) + Len(b) : out[i] = IF i <= Len(ae) THEN ae[i] ELSE b[i - Len(ae)]
      BY <1>6, <1>9, ConcatProperties
    <2>2. Len(ae) + Len(b) = n + 1
      BY <1>1, <1>2, <1>6, <1>9
    <2> HIDE DEF out
    <2> QED BY <1>9, <2>1, <2>2
  <1> HIDE DEF out
  <1>11. \A i \in 1 .. n + 1 : out[i] = IF i <= k THEN log[i] ELSE IF i = k + 1 THEN e ELSE log[i - 1]
    BY <1>1, <1>2, <1>6, <1>9, <1>10
  <1>12. Emit(log, e) = out
    BY <1>4 DEF out, ae
  <1>13. Inserted(log, e, out, k)
    BY <1>3, <1>10, <1>11 DEF n, Inserted
  <1> QED BY <1>2, <1>12, <1>13 DEF n

\* FileSink.Emit keeps a log ordered.
LEMMA EmitOrdered ==
    ASSUME NEW log \in Seq(Events), Ordered(log), NEW e \in Events
    PROVE  Emit(log, e) \in Seq(Events) /\ Ordered(Emit(log, e))
  <1> DEFINE n == Len(log)
             out == Emit(log, e)
  <1>1. /\ n \in Nat /\ DOMAIN log = 1 .. n /\ e.time \in Nat
        /\ \A i \in 1 .. n : log[i].time \in Nat
    BY EventTimes DEF Events
  <1>2. PICK k \in 0 .. n : Inserted(log, e, out, k)
    BY EmitParts
  <1> HIDE DEF n, out
  <1>3. /\ out \in Seq(Events) /\ DOMAIN out = 1 .. n + 1
        /\ \A i \in 1 .. n + 1 : out[i] = IF i <= k THEN log[i] ELSE IF i = k + 1 THEN e ELSE log[i - 1]
        /\ \A i \in 1 .. n : log[i].time <= e.time <=> i <= k
    BY <1>2 DEF Inserted, n
  <1>4. Ordered(out)
    <2> SUFFICES ASSUME NEW i \in 1 .. n + 1, NEW j \in 1 .. n + 1, i <= j
                 PROVE  out[i].time <= out[j].time
      BY <1>3 DEF Ordered
    <2>1. \A x, y \in 1 .. n : x <= y => log[x].time <= log[y].time
      BY <1>1 DEF Ordered
    <2>2. CASE i = k + 1 /\ j = k + 1
      BY <1>1, <1>3, <2>2
    <2>3. CASE i <= k /\ j = k + 1
      BY <1>1, <1>3, <2>3
    <2>4. CASE i <= k /\ j <= k
      BY <1>1, <1>3, <2>1, <2>4
    <2>5. CASE i <= k /\ j > k + 1
      <3>1. i \in 1 .. n /\ j - 1 \in 1 .. n /\ i <= j - 1
        BY <1>1, <2>5
      <3>2. out[i] = log[i] /\ out[j] = log[j - 1]
        BY <1>1, <1>3, <2>5
      <3> QED BY <2>1, <3>1, <3>2
    <2>6. CASE i = k + 1 /\ j > k + 1
      BY <1>1, <1>3, <2>6
    <2>7. CASE i > k + 1 /\ j > k + 1
      BY <1>1, <1>3, <2>1, <2>7
    <2> QED BY <1>1, <1>3, <2>2, <2>3, <2>4, <2>5, <2>6, <2>7
  <1> QED BY <1>3, <1>4 DEF out

\* FileSink.Compact cuts a prefix off, and what is left is ordered.
LEMMA SuffixOrdered ==
    ASSUME NEW log \in Seq(Events), Ordered(log), NEW k \in Nat
    PROVE  /\ SubSeq(log, k + 1, Len(log)) \in Seq(Events)
           /\ Ordered(SubSeq(log, k + 1, Len(log)))
  <1> DEFINE n == Len(log)
             b == SubSeq(log, k + 1, n)
  <1>1. n \in Nat /\ DOMAIN log = 1 .. n /\ \A i \in 1 .. n : log[i] \in Events
    BY EventTimes
  <1> HIDE DEF n
  <1>2. \A i \in (k + 1) .. n : log[i] \in Events
    BY <1>1
  <1>3. /\ b \in Seq(Events) /\ Len(b) = IF k + 1 <= n THEN n - (k + 1) + 1 ELSE 0
        /\ \A i \in 1 .. n - (k + 1) + 1 : b[i] = log[(k + 1) + i - 1]
    BY <1>1, <1>2, SubSeqProperties
  <1> HIDE DEF b
  <1>4. DOMAIN b = 1 .. Len(b)
    BY <1>3
  <1>5. \A i \in DOMAIN b : i \in Nat /\ k + i \in DOMAIN log /\ b[i] = log[k + i]
    BY <1>1, <1>3, <1>4
  <1>6. Ordered(b)
    BY <1>5 DEF Ordered
  <1> QED BY <1>3, <1>6 DEF b, n

-----------------------------------------------------------------------------
(* The tracker                                                              *)

\* The entries of one client: typed, ordered, and a held disconnect is about the
\* access point the client is recorded on.
TrackOK(t) ==
    /\ t \in Tracks
    /\ Ordered(t.log)
    /\ t.held # NoHold => t.cur = t.held.ap

\* The parts of a client's entries.
LEMMA TrackParts ==
    ASSUME NEW t, TrackOK(t)
    PROVE  /\ t.cur \in Aps \cup {Nowhere} /\ t.log \in Seq(Events) /\ Ordered(t.log)
           /\ t.held # NoHold => t.held.ap \in Aps /\ t.held.at \in Nat /\ t.cur = t.held.ap
  BY DEF TrackOK, Tracks

\* Entries put together from parts.
LEMMA TrackMade ==
    ASSUME NEW cur \in Aps \cup {Nowhere}, NEW log \in Seq(Events), Ordered(log)
    PROVE  TrackOK([cur |-> cur, held |-> NoHold, log |-> log])
  BY DEF TrackOK, Tracks

\* Entries with a longer log, and the event it got.
LEMMA TrackEmits ==
    ASSUME NEW t, TrackOK(t), NEW e \in Events
    PROVE  TrackOK([t EXCEPT !.log = Emit(@, e)])
  <1>1. t.log \in Seq(Events) /\ Ordered(t.log)
    BY TrackParts
  <1>2. Emit(t.log, e) \in Seq(Events) /\ Ordered(Emit(t.log, e))
    BY <1>1, EmitOrdered
  <1> DEFINE l == Emit(t.log, e)
  <1>3. [t EXCEPT !.log = Emit(@, e)] = [t EXCEPT !.log = l]
    OBVIOUS
  <1> HIDE DEF l
  <1>4. l \in Seq(Events) /\ Ordered(l)
    BY <1>2 DEF l
  <1>5. TrackOK([t EXCEPT !.log = l])
    BY <1>4 DEF TrackOK, Tracks
  <1> QED BY <1>3, <1>5

\* Tracker.connect keeps the entries in order, whatever came before it.
LEMMA ConnectOK ==
    ASSUME NEW t, TrackOK(t), NEW ap \in Aps, NEW time \in Nat
    PROVE  TrackOK(Connect(t, ap, time))
  <1>1. /\ t.cur \in Aps \cup {Nowhere} /\ t.log \in Seq(Events) /\ Ordered(t.log)
        /\ t.held # NoHold => t.held.ap \in Aps /\ t.held.at \in Nat /\ t.cur = t.held.ap
    BY TrackParts
  <1>2. Came(ap, time) \in Events
    BY DEF Came, Event, Events
  <1>3. \A from \in Aps : Roam(from, ap, time) \in Events
    BY DEF Roam, Event, Events
  <1>4. t.held # NoHold => Gone(t.held) \in Events
    BY <1>1 DEF Gone, Event, Events
  <1>5. CASE t.held # NoHold /\ t.held.ap = ap
    <2> DEFINE g == Emit(t.log, Gone(t.held))
               l == Emit(g, Came(ap, time))
    <2>1. g \in Seq(Events) /\ Ordered(g)
      BY <1>1, <1>4, <1>5, EmitOrdered
    <2>2. Connect(t, ap, time) = [cur |-> ap, held |-> NoHold, log |-> l]
      BY <1>5 DEF Connect
    <2> HIDE DEF g
    <2>3. l \in Seq(Events) /\ Ordered(l)
      BY <1>2, <2>1, EmitOrdered
    <2> HIDE DEF l
    <2> QED BY <2>2, <2>3, TrackMade
  <1>6. CASE t.held # NoHold /\ t.held.ap # ap
    <2> DEFINE l == Emit(t.log, Roam(t.held.ap, ap, time))
    <2>1. l \in Seq(Events) /\ Ordered(l)
      BY <1>1, <1>3, <1>6, EmitOrdered
    <2>2. Connect(t, ap, time) = [cur |-> ap, held |-> NoHold, log |-> l]
      BY <1>6 DEF Connect
    <2> HIDE DEF l
    <2> QED BY <2>1, <2>2, TrackMade
  <1>7. CASE t.held = NoHold /\ t.cur = ap
    <2>1. ap # Nowhere
      BY NoneAssumption
    <2>2. Connect(t, ap, time) = t
      BY <1>7, <2>1 DEF Connect
    <2> QED BY <2>2
  <1>8. CASE t.held = NoHold /\ t.cur # ap
    <2>1. PICK e \in Events : Connect(t, ap, time) = [t EXCEPT !.cur = ap, !.log = Emit(t.log, e)]
      <3>1. CASE t.cur = Nowhere
        <4>1. Connect(t, ap, time) = [t EXCEPT !.cur = ap, !.log = Emit(t.log, Came(ap, time))]
          BY <1>8, <3>1 DEF Connect
        <4> QED BY <1>2, <4>1
      <3>2. CASE t.cur # Nowhere
        <4>1. Connect(t, ap, time) = [t EXCEPT !.cur = ap, !.log = Emit(t.log, Roam(t.cur, ap, time))]
          BY <1>8, <3>2 DEF Connect
        <4>2. t.cur \in Aps
          BY <1>1, <3>2
        <4> QED BY <1>3, <4>1, <4>2
      <3> QED BY <3>1, <3>2
    <2> DEFINE l == Emit(t.log, e)
    <2>2. l \in Seq(Events) /\ Ordered(l)
      BY <1>1, EmitOrdered
    <2>3. Connect(t, ap, time) = [t EXCEPT !.cur = ap, !.log = l]
      BY <2>1
    <2> HIDE DEF l
    <2>4. TrackOK([t EXCEPT !.cur = ap, !.log = l])
      BY <1>8, <2>2 DEF TrackOK, Tracks
    <2> QED BY <2>3, <2>4
  <1> QED BY <1>5, <1>6, <1>7, <1>8

\* Every transition keeps the entries in order, whichever access point it is from.
LEMMA ObservedOK ==
    ASSUME NEW t, TrackOK(t), NEW kind \in TransitionKinds, NEW ap \in Aps, NEW time \in Nat
    PROVE  TrackOK(Observed(t, kind, ap, time))
  <1>1. TrackOK(Disconnect(t, ap, time))
    <2>1. CASE t.cur # ap \/ t.held # NoHold
      BY <2>1 DEF Disconnect
    <2>2. CASE t.cur = ap /\ t.held = NoHold
      <3>1. Disconnect(t, ap, time) = [t EXCEPT !.held = [ap |-> ap, at |-> time]]
        BY <2>2 DEF Disconnect
      <3>2. [ap |-> ap, at |-> time] \in [ap : Aps, at : Nat]
        OBVIOUS
      <3>3. TrackOK([t EXCEPT !.held = [ap |-> ap, at |-> time]])
        BY <2>2, <3>2 DEF TrackOK, Tracks
      <3> QED BY <3>1, <3>3
    <2> QED BY <2>1, <2>2
  <1>2. TrackOK(RadioChange(t, ap, time))
    <2>1. Event("roam_radio", ap, Nowhere, time) \in Events
      BY DEF Event, Events
    <2>2. CASE t.cur # ap \/ t.held # NoHold
      BY <2>2 DEF RadioChange
    <2>3. CASE t.cur = ap /\ t.held = NoHold
      BY <2>1, <2>3, TrackEmits DEF RadioChange
    <2> QED BY <2>2, <2>3
  <1>3. TrackOK(Connect(t, ap, time))
    BY ConnectOK
  <1>4. Observed(t, kind, ap, time) \in
            {Connect(t, ap, time), Disconnect(t, ap, time), RadioChange(t, ap, time), t}
    BY DEF Observed, TransitionKinds
  <1> QED BY <1>1, <1>2, <1>3, <1>4

\* Tracker.Flush on a held disconnect.
LEMMA FlushedOK ==
    ASSUME NEW t, TrackOK(t), t.held # NoHold
    PROVE  TrackOK(Flushed(t))
  <1>1. /\ t.log \in Seq(Events) /\ Ordered(t.log)
        /\ t.held.ap \in Aps /\ t.held.at \in Nat /\ t.cur = t.held.ap
    BY TrackParts
  <1>2. Gone(t.held) \in Events
    BY <1>1 DEF Gone, Event, Events
  <1> DEFINE l == Emit(t.log, Gone(t.held))
  <1>3. l \in Seq(Events) /\ Ordered(l)
    BY <1>1, <1>2, EmitOrdered
  <1>4. Flushed(t) = [cur |-> Nowhere, held |-> NoHold, log |-> l]
    BY <1>1 DEF Flushed
  <1> HIDE DEF l
  <1> QED BY <1>3, <1>4, TrackMade

\* A nonempty set of naturals has a least member.
LEMMA LeastOf ==
    ASSUME NEW T \in SUBSET Nat, T # {}
    PROVE  \E x \in T : \A y \in T : x <= y
  <1>1. \E x \in T : \A y \in T : ~(<<y, x>> \in OpToRel(<, Nat))
    BY NatLessThanWellFounded, WFMin
  <1>2. PICK x \in T : \A y \in T : ~(<<y, x>> \in OpToRel(<, Nat))
    BY <1>1
  <1>3. \A y \in T : ~(y < x)
    BY <1>2 DEF OpToRel
  <1>4. \A y \in T : x <= y
    BY <1>3
  <1> QED BY <1>4

\* Tracker.Seed finds an access point wherever a row is connected: the freshest
\* one exists because no row is from the future.
LEMMA SeededType ==
    ASSUME NEW store \in [Aps -> [Clients -> Rows \cup {NoRow}]], Dated(store), now \in Nat,
           NEW c \in Clients
    PROVE  Seeded(store, c) \in Aps \cup {Nowhere}
  <1> DEFINE on == {a \in Aps : Online(store[a], c)}
             first == {a \in on : \A b \in on :
                          \/ store[b][c].seen < store[a][c].seen
                          \/ store[b][c].seen = store[a][c].seen /\ a <= b}
             ages == {now - store[a][c].seen : a \in on}
  <1>1. CASE on = {}
    BY <1>1 DEF Seeded
  <1>2. CASE on # {}
    <2>1. \A a \in on : store[a][c].seen \in Nat /\ store[a][c].seen <= now
      BY DEF Online, Dated, Rows
    <2>2. ages \in SUBSET Nat /\ ages # {}
      BY <1>2, <2>1
    <2>3. PICK x \in ages : \A y \in ages : x <= y
      BY <2>2, LeastOf
    <2>4. PICK p \in on : x = now - store[p][c].seen
      BY <2>3
    <2>5. \A a \in on : store[a][c].seen <= store[p][c].seen
      <3>1. \A a \in on : now - store[a][c].seen \in ages
        OBVIOUS
      <3>2. \A a \in on : now - store[p][c].seen <= now - store[a][c].seen
        BY <2>3, <2>4, <3>1
      <3> QED BY <2>1, <3>2
    <2> DEFINE tied == {a \in on : store[a][c].seen = store[p][c].seen}
    <2>6. tied \in SUBSET Nat /\ tied # {}
      BY <2>4, MacAssumption
    <2>7. PICK q \in tied : \A a \in tied : q <= a
      BY <2>6, LeastOf
    <2>8. q \in first
      BY <2>1, <2>5, <2>7
    <2>9. (CHOOSE a \in first : TRUE) \in first
      BY <2>8
    <2>10. Seeded(store, c) = CHOOSE a \in first : TRUE
      BY <1>2 DEF Seeded
    <2> QED BY <2>9, <2>10
  <1> QED BY <1>1, <1>2

-----------------------------------------------------------------------------
(* The session rows                                                         *)

\* A station table names clients and radios.
LEMMA TableParts ==
    ASSUME NEW table \in Tables
    PROVE  \A c \in DOMAIN table : c \in Clients /\ table[c] \in Radios
  <1>1. PICK S \in SUBSET Clients : table \in [S -> Radios]
    BY DEF Tables
  <1> QED BY <1>1

\* The empty table.
LEMMA IdleTyped == IdleSlot \in SlotStates
  <1>1. << >> \in [{} -> Radios]
    OBVIOUS
  <1>2. << >> \in Tables
    BY <1>1 DEF Tables
  <1>3. Nothing \in [Clients -> TransitionKinds]
    BY DEF Nothing, TransitionKinds
  <1> QED BY <1>2, <1>3 DEF IdleSlot, SlotStates

\* RefreshSessionStations and the row cap keep rows typed and dated.
LEMMA RowsRefreshed ==
    ASSUME NEW r \in [Clients -> Rows \cup {NoRow}], NEW table \in Tables, now \in Nat,
           \A c \in Clients : r[c] # NoRow => r[c].seen <= now
    PROVE  /\ Capped(Refreshed(r, table)) \in [Clients -> Rows \cup {NoRow}]
           /\ \A c \in Clients : Capped(Refreshed(r, table))[c] # NoRow
                 => Capped(Refreshed(r, table))[c].seen <= now
  <1> DEFINE f == Refreshed(r, table)
  <1>1. \A c \in Clients : f[c] \in Rows \cup {NoRow} /\ (f[c] # NoRow => f[c].seen <= now)
    <2> SUFFICES ASSUME NEW c \in Clients
                 PROVE  f[c] \in Rows \cup {NoRow} /\ (f[c] # NoRow => f[c].seen <= now)
      OBVIOUS
    <2>1. CASE c \in DOMAIN table
      <3> DEFINE radio == IF table[c] = Unknown /\ Online(r, c) THEN r[c].radio ELSE table[c]
      <3>1. radio \in Radios
        BY <2>1, TableParts DEF Online, Rows
      <3>2. f[c] = [connected |-> TRUE, seen |-> now, radio |-> radio]
        BY <2>1 DEF Refreshed
      <3> HIDE DEF radio, f
      <3> QED BY <3>1, <3>2 DEF Rows
    <2>2. CASE c \notin DOMAIN table /\ r[c] = NoRow
      <3>1. f[c] = NoRow
        BY <2>2 DEF Refreshed
      <3> QED BY <3>1
    <2>3. CASE c \notin DOMAIN table /\ r[c] # NoRow
      <3>1. f[c] = [r[c] EXCEPT !.connected = FALSE]
        BY <2>3 DEF Refreshed
      <3>2. r[c] \in Rows /\ r[c].seen <= now
        BY <2>3
      <3> HIDE DEF f
      <3> QED BY <3>1, <3>2 DEF Rows
    <2> QED BY <2>1, <2>2, <2>3
  <1> HIDE DEF f
  <1>2. /\ Capped(f) \in [Clients -> Rows \cup {NoRow}]
        /\ \A c \in Clients : Capped(f)[c] = f[c] \/ Capped(f)[c] = NoRow
    BY <1>1 DEF Capped
  <1> QED BY <1>1, <1>2 DEF f

-----------------------------------------------------------------------------
(* Every step                                                               *)

\* A step that leaves rows, tracker and clock alone.
LEMMA QuietStep ==
    ASSUME IInv, UNCHANGED <<rows, saved, track, now>>, TypeOK'
    PROVE  IInv'
  BY DEF IInv, Dated, HeldWhereCurrent, Ordered

\* Every step keeps the invariant.
LEMMA NextIInv == IInv /\ [Next]_vars => IInv'
  <1> SUFFICES ASSUME IInv, [Next]_vars PROVE IInv'
    OBVIOUS
  <1>0. /\ TypeOK /\ Dated(rows) /\ Dated(saved) /\ now \in Nat
        /\ \A c \in Clients : TrackOK(track[c])
    BY DEF IInv, TypeOK, TrackOK, HeldWhereCurrent
  <1>1. ASSUME NEW h \in Slots
        PROVE  /\ slot[h] \in SlotStates /\ Owner[h] \in Aps /\ slot[h].table \in Tables
               /\ slot[h].at \in Nat /\ slot[h].ts \in [Clients -> TransitionKinds]
    BY <1>0, OwnerAssumption DEF TypeOK, SlotStates
  <1>2. ASSUME NEW c \in Clients, NEW place \in Places \cup {Away}, Move(c, place)
        PROVE  IInv'
    <2>1. /\ at' = [at EXCEPT ![c] = place]
          /\ UNCHANGED <<rows, saved, slot, track, now, torn>>
      BY <1>2 DEF Move
    <2>2. spent' \in [moves : Nat, fast : Nat, losses : Nat, faults : Nat]
      <3> DEFINE fast == IF Noticed(c) THEN spent.fast ELSE spent.fast + 1
      <3>1. spent' = [spent EXCEPT !.moves = @ + 1, !.fast = fast]
        BY <1>2 DEF Move
      <3>2. spent.fast \in Nat /\ spent.fast + 1 \in Nat
        BY <1>0 DEF TypeOK
      <3>3. fast \in {spent.fast, spent.fast + 1}
        BY Zenon
      <3> HIDE DEF fast
      <3>4. fast \in Nat
        BY <3>2, <3>3
      <3>5. spent \in [moves : Nat, fast : Nat, losses : Nat, faults : Nat]
        BY <1>0 DEF TypeOK
      <3>6. spent.moves + 1 \in Nat
        BY <3>5
      <3> QED BY <3>1, <3>4, <3>5, <3>6, Zenon
    <2>3. TypeOK'
      BY <1>0, <2>1, <2>2 DEF TypeOK
    <2> QED BY <2>1, <2>3, QuietStep
  <1>3. ASSUME NEW h \in Slots, Report(h)
        PROVE  IInv'
    <2> DEFINE table == [c \in On(at, Owner[h]) |-> at[c][2]]
    <2>1. /\ slot' = [slot EXCEPT ![h] = [IdleSlot EXCEPT !.phase = "sent", !.table = table]]
          /\ UNCHANGED <<at, rows, saved, track, now, torn>>
      BY <1>3 DEF Report
    <2>2. \A c \in Clients : at[c][2] \in Radios
      <3> SUFFICES ASSUME NEW c \in Clients PROVE at[c][2] \in Radios
        OBVIOUS
      <3>1. CASE at[c] \in Places
        BY <3>1 DEF Radios
      <3>2. CASE at[c] = Away
        BY <3>2 DEF Away, Radios
      <3> QED BY <1>0, <3>1, <3>2 DEF TypeOK
    <2>3. On(at, Owner[h]) \in SUBSET Clients
      BY DEF On
    <2>4. table \in [On(at, Owner[h]) -> Radios]
      BY <2>2, <2>3
    <2> HIDE DEF table
    <2>5. table \in Tables
      BY <2>3, <2>4 DEF Tables
    <2>6. [IdleSlot EXCEPT !.phase = "sent", !.table = table] \in SlotStates
      BY <2>5, IdleTyped DEF SlotStates
    <2>7. spent' \in [moves : Nat, fast : Nat, losses : Nat, faults : Nat]
      BY <1>0, <1>3 DEF Report, TypeOK
    <2>8. TypeOK'
      BY <1>0, <2>1, <2>6, <2>7 DEF TypeOK
    <2> QED BY <2>1, <2>8, QuietStep
  <1>4. ASSUME NEW h \in Slots, NEW sweeps \in BOOLEAN, Commit(h, sweeps)
        PROVE  IInv'
    <2> DEFINE ap == Owner[h]
               r == IF sweeps THEN [c \in Clients |-> NoRow]
                    ELSE Capped(Refreshed(rows[ap], slot[h].table))
               ts == Transitions(rows[ap], slot[h].table)
    <2>1. /\ rows' = [rows EXCEPT ![ap] = r]
          /\ slot' = [slot EXCEPT ![h] = [IdleSlot EXCEPT !.phase = "saving", !.at = now, !.ts = ts]]
          /\ UNCHANGED <<at, saved, track, now, torn>>
      BY <1>4 DEF Commit
    <2>2. /\ r \in [Clients -> Rows \cup {NoRow}]
          /\ \A c \in Clients : r[c] # NoRow => r[c].seen <= now
      <3>1. CASE sweeps
        BY <3>1
      <3>2. CASE ~sweeps
        <4>1. /\ rows[ap] \in [Clients -> Rows \cup {NoRow}]
              /\ \A c \in Clients : rows[ap][c] # NoRow => rows[ap][c].seen <= now
          BY <1>0, <1>1 DEF TypeOK, Dated
        <4>2. slot[h].table \in Tables
          BY <1>1
        <4>3. r = Capped(Refreshed(rows[ap], slot[h].table))
          BY <3>2
        <4> HIDE DEF r
        <4> QED BY <1>0, <4>1, <4>2, <4>3, RowsRefreshed
      <3> QED BY <3>1, <3>2
    <2>3. ts \in [Clients -> TransitionKinds]
      BY DEF Transitions, TransitionKinds
    <2> HIDE DEF r, ts
    <2>4. [IdleSlot EXCEPT !.phase = "saving", !.at = now, !.ts = ts] \in SlotStates
      BY <1>0, <2>3, IdleTyped DEF SlotStates
    <2>5. spent' \in [moves : Nat, fast : Nat, losses : Nat, faults : Nat]
      BY <1>0, <1>4 DEF Commit, TypeOK
    <2>6. rows' \in [Aps -> [Clients -> Rows \cup {NoRow}]]
      BY <1>0, <2>1, <2>2 DEF TypeOK
    <2>7. TypeOK'
      BY <1>0, <2>1, <2>4, <2>5, <2>6 DEF TypeOK
    <2>8. \A a \in Aps : rows'[a] = rows[a] \/ rows'[a] = r
      BY <1>0, <2>1 DEF TypeOK
    <2>9. Dated(rows)' /\ Dated(saved)'
      BY <1>0, <2>1, <2>2, <2>8 DEF Dated
    <2> QED BY <2>1, <2>7, <2>9 DEF IInv, HeldWhereCurrent, Ordered
  <1>5. ASSUME NEW h \in Slots, CycleFails(h) \/ SaveFails(h)
        PROVE  IInv'
    <2>1. /\ slot' = [slot EXCEPT ![h] = IdleSlot]
          /\ UNCHANGED <<at, rows, saved, track, now, torn>>
      BY <1>5 DEF CycleFails, SaveFails
    <2>2. spent' \in [moves : Nat, fast : Nat, losses : Nat, faults : Nat]
      BY <1>0, <1>5 DEF CycleFails, SaveFails, TypeOK
    <2>3. TypeOK'
      BY <1>0, <2>1, <2>2, IdleTyped DEF TypeOK
    <2> QED BY <2>1, <2>3, QuietStep
  <1>6. ASSUME NEW h \in Slots, Save(h)
        PROVE  IInv'
    <2>1. /\ saved' = rows /\ slot' = [slot EXCEPT ![h].phase = "observing"]
          /\ UNCHANGED <<at, rows, track, now, torn, spent>>
      BY <1>6 DEF Save
    <2>2. slot' \in [Slots -> SlotStates]
      BY <1>0, <2>1 DEF TypeOK, SlotStates
    <2>3. TypeOK'
      BY <1>0, <2>1, <2>2 DEF TypeOK
    <2> QED BY <1>0, <2>1, <2>3 DEF IInv, Dated, HeldWhereCurrent, Ordered
  <1>7. ASSUME track' = [c \in Clients |-> track'[c]], \A c \in Clients : TrackOK(track'[c]),
               UNCHANGED <<at, saved, now>>, rows' \in {rows, saved},
               slot' \in [Slots -> SlotStates], torn' \in SUBSET Clients,
               spent' \in [moves : Nat, fast : Nat, losses : Nat, faults : Nat]
        PROVE  IInv'
    <2>1. track' \in [Clients -> Tracks]
      BY <1>7 DEF TrackOK
    <2>2. TypeOK'
      BY <1>0, <1>7, <2>1 DEF TypeOK
    <2>3. Dated(rows)' /\ Dated(saved)'
      BY <1>0, <1>7 DEF Dated
    <2>4. HeldWhereCurrent' /\ \A c \in Clients : Ordered(track'[c].log)
      BY <1>7 DEF HeldWhereCurrent, TrackOK
    <2> QED BY <2>2, <2>3, <2>4 DEF IInv, Ordered
  <1>8. ASSUME NEW h \in Slots, Observe(h)
        PROVE  IInv'
    <2>1. /\ track' = [c \in Clients |-> Observed(track[c], slot[h].ts[c], Owner[h], slot[h].at)]
          /\ slot' = [slot EXCEPT ![h] = IdleSlot] /\ torn' \subseteq torn
          /\ UNCHANGED <<at, rows, saved, now, spent>>
      BY <1>8 DEF Observe
    <2>2. \A c \in Clients : TrackOK(Observed(track[c], slot[h].ts[c], Owner[h], slot[h].at))
      BY <1>0, <1>1, ObservedOK
    <2>3. \A c \in Clients : TrackOK(track'[c])
      BY <2>1, <2>2
    <2>4. slot' \in [Slots -> SlotStates] /\ torn' \in SUBSET Clients
          /\ spent' \in [moves : Nat, fast : Nat, losses : Nat, faults : Nat]
      BY <1>0, <2>1, IdleTyped DEF TypeOK
    <2>5. track' = [c \in Clients |-> track'[c]]
      BY <2>1
    <2> QED BY <1>7, <2>1, <2>3, <2>4, <2>5
  <1>9. ASSUME NEW due \in SUBSET Clients, Flush(due)
        PROVE  IInv'
    <2>1. /\ track' = [c \in Clients |-> IF c \in due THEN Flushed(track[c]) ELSE track[c]]
          /\ torn' = torn \ due /\ UNCHANGED <<at, rows, saved, slot, now, spent>>
          /\ \A c \in due : track[c].held # NoHold
      BY <1>9 DEF Flush, Lapsed
    <2>2. \A c \in due : TrackOK(Flushed(track[c]))
      BY <1>0, <2>1, FlushedOK
    <2>3. \A c \in Clients : TrackOK(track'[c])
      BY <1>0, <2>1, <2>2
    <2>4. slot' \in [Slots -> SlotStates] /\ torn' \in SUBSET Clients
          /\ spent' \in [moves : Nat, fast : Nat, losses : Nat, faults : Nat]
      BY <1>0, <2>1 DEF TypeOK
    <2>5. track' = [c \in Clients |-> track'[c]]
      BY <2>1
    <2> QED BY <1>7, <2>1, <2>3, <2>4, <2>5
  <1>10. CASE Restart
    <2>1. /\ rows' = saved /\ slot' = [h \in Slots |-> IdleSlot] /\ torn' = Clients
          /\ track' = [c \in Clients |-> [cur |-> Seeded(saved, c), held |-> NoHold,
                                          log |-> track[c].log]]
          /\ UNCHANGED <<at, saved, now>>
      BY <1>10 DEF Restart
    <2>2. \A c \in Clients : TrackOK([cur |-> Seeded(saved, c), held |-> NoHold,
                                      log |-> track[c].log])
      <3> SUFFICES ASSUME NEW c \in Clients
                   PROVE  TrackOK([cur |-> Seeded(saved, c), held |-> NoHold,
                                   log |-> track[c].log])
        OBVIOUS
      <3>1. Seeded(saved, c) \in Aps \cup {Nowhere}
        BY <1>0, SeededType DEF TypeOK
      <3>2. track[c].log \in Seq(Events) /\ Ordered(track[c].log)
        BY <1>0, TrackParts
      <3> QED BY <3>1, <3>2, TrackMade
    <2>3. \A c \in Clients : TrackOK(track'[c])
      BY <2>1, <2>2
    <2>4. slot' \in [Slots -> SlotStates] /\ torn' \in SUBSET Clients
      BY <2>1, IdleTyped
    <2>5. spent' \in [moves : Nat, fast : Nat, losses : Nat, faults : Nat]
      <3>1. spent' = [spent EXCEPT !.faults = @ + 1]
        BY <1>10 DEF Restart
      <3> QED BY <1>0, <3>1 DEF TypeOK
    <2>6. track' = [c \in Clients |-> track'[c]]
      BY <2>1
    <2> QED BY <1>7, <2>1, <2>3, <2>4, <2>5, <2>6
  <1>11. ASSUME NEW cutoff \in 1 .. now, Compact(cutoff)
         PROVE  IInv'
    <2> DEFINE old(log) == Cardinality({i \in DOMAIN log : log[i].time < cutoff})
    <2>1. /\ track' = [c \in Clients |-> [track[c] EXCEPT !.log =
                          SubSeq(@, old(@) + 1, Len(@))]]
          /\ torn' \in SUBSET (torn \cup Clients)
          /\ UNCHANGED <<at, rows, saved, slot, now>>
      BY <1>11 DEF Compact
    <2>2. \A c \in Clients : TrackOK([track[c] EXCEPT !.log = SubSeq(@, old(@) + 1, Len(@))])
      <3> SUFFICES ASSUME NEW c \in Clients
                   PROVE  TrackOK([track[c] EXCEPT !.log = SubSeq(@, old(@) + 1, Len(@))])
        OBVIOUS
      <3> DEFINE log == track[c].log
                 l == SubSeq(log, old(log) + 1, Len(log))
      <3>1. TrackOK(track[c]) /\ log \in Seq(Events) /\ Ordered(log)
        BY <1>0, TrackParts
      <3>2. old(log) \in Nat
        <4>1. IsFiniteSet(1 .. Len(log)) /\ DOMAIN log = 1 .. Len(log)
          <5> HIDE DEF log
          <5>1. Len(log) \in Nat /\ DOMAIN log = 1 .. Len(log)
            BY <3>1, EventTimes
          <5>2. IsFiniteSet(1 .. Len(log))
            BY <5>1, FS_Interval
          <5> QED BY <5>1, <5>2
        <4>2. {i \in DOMAIN log : log[i].time < cutoff} \in SUBSET (1 .. Len(log))
          BY <4>1
        <4>3. IsFiniteSet({i \in DOMAIN log : log[i].time < cutoff})
          BY <4>1, <4>2, FS_Subset
        <4> QED BY <4>3, FS_CardinalityType
      <3>3. l \in Seq(Events) /\ Ordered(l)
        <4> HIDE DEF log, old
        <4> QED BY <3>1, <3>2, SuffixOrdered
      <3>4. [track[c] EXCEPT !.log = SubSeq(@, old(@) + 1, Len(@))] = [track[c] EXCEPT !.log = l]
        OBVIOUS
      <3> HIDE DEF l, log
      <3>5. TrackOK([track[c] EXCEPT !.log = l])
        BY <3>1, <3>3 DEF TrackOK, Tracks
      <3> QED BY <3>4, <3>5
    <2> HIDE DEF old
    <2>3. \A c \in Clients : TrackOK(track'[c])
      BY <2>1, <2>2
    <2>4. slot' \in [Slots -> SlotStates] /\ torn' \in SUBSET Clients
      BY <1>0, <2>1 DEF TypeOK
    <2>5. spent' \in [moves : Nat, fast : Nat, losses : Nat, faults : Nat]
      BY <1>0, <1>11 DEF Compact, TypeOK
    <2>6. track' = [c \in Clients |-> track'[c]]
      BY <2>1
    <2> QED BY <1>7, <2>1, <2>3, <2>4, <2>5, <2>6
  <1>12. CASE Tick
    <2>1. now' = now + 1 /\ UNCHANGED <<at, rows, saved, slot, track, torn, spent>>
      BY <1>12 DEF Tick
    <2>2. TypeOK'
      BY <1>0, <2>1 DEF TypeOK
    <2>3. \A store \in [Aps -> [Clients -> Rows \cup {NoRow}]] : \A a \in Aps, c \in Clients :
             store[a][c] # NoRow => store[a][c].seen \in Nat
      BY DEF Rows
    <2>4. Dated(rows)' /\ Dated(saved)'
      BY <1>0, <2>1, <2>3 DEF Dated, TypeOK
    <2> QED BY <2>1, <2>2, <2>4 DEF IInv, HeldWhereCurrent, Ordered
  <1>13. CASE UNCHANGED vars
    <2>1. TypeOK'
      BY <1>0, <1>13 DEF vars, TypeOK
    <2> QED BY <1>13, <2>1, QuietStep DEF vars
  <1> QED BY <1>2, <1>3, <1>4, <1>5, <1>6, <1>8, <1>9, <1>10, <1>11, <1>12, <1>13
          DEF Next, Handle

\* The invariant holds for ever: before the first inform there is nothing.
LEMMA LogInvariant == Spec => []IInv
  <1>1. Init => IInv
    <2> SUFFICES ASSUME Init PROVE IInv
      OBVIOUS
    <2>1. << >> \in Seq(Events) /\ Ordered(<< >>)
      BY DEF Ordered
    <2>2. TrackOK([cur |-> Nowhere, held |-> NoHold, log |-> << >>])
      BY <2>1, TrackMade
    <2>3. \A c \in Clients : TrackOK(track[c])
      BY <2>2 DEF Init
    <2>4. track \in [Clients -> Tracks]
      BY <2>2 DEF Init, TrackOK
    <2>5. TypeOK
      BY <2>4, IdleTyped DEF Init, TypeOK
    <2>6. Dated(rows) /\ Dated(saved)
      BY DEF Init, Dated
    <2> QED BY <2>3, <2>5, <2>6 DEF IInv, TrackOK, HeldWhereCurrent
  <1> QED BY <1>1, NextIInv, PTL DEF Spec

-----------------------------------------------------------------------------
(* What the events of a client tell                                         *)

\* The events that tell where a client is.
Tells(log) == {i \in DOMAIN log : log[i].key # "roam_radio"}
ToldBy(log, time) == \A i \in Tells(log) : log[i].time <= time

\* The last of them says that the client is on ap.
Shows(e, ap) == IF e.key = "disconnected" THEN ap = Nowhere ELSE ap = e.ap
Stands(log, ap) ==
    /\ Tells(log) = {} => ap = Nowhere
    /\ \A i \in Tells(log) : (\A j \in Tells(log) : j <= i) => Shows(log[i], ap)

\* No event is younger than m.
Before(log, m) == \A i \in DOMAIN log : log[i].time <= m

\* The positions of a log with one more event.
LEMMA InsertedAt ==
    ASSUME NEW log \in Seq(Events), Ordered(log), NEW e \in Events
    PROVE  LET out == Emit(log, e)
               n == Len(log)
           IN  /\ n \in Nat /\ DOMAIN log = 1 .. n /\ DOMAIN out = 1 .. n + 1
               /\ \A i \in 1 .. n : log[i].time \in Nat
               /\ e.time \in Nat
               /\ \E k \in 0 .. n :
                     /\ \A i \in 1 .. k : out[i] = log[i] /\ log[i].time <= e.time
                     /\ out[k + 1] = e
                     /\ \A i \in k + 1 .. n : out[i + 1] = log[i] /\ log[i].time > e.time
  <1> DEFINE n == Len(log)
             out == Emit(log, e)
  <1>1. /\ n \in Nat /\ DOMAIN log = 1 .. n /\ e.time \in Nat
        /\ \A i \in 1 .. n : log[i].time \in Nat
    BY EventTimes DEF Events
  <1>2. PICK k \in 0 .. n : Inserted(log, e, out, k)
    BY EmitParts
  <1> HIDE DEF n, out
  <1>3. /\ out \in Seq(Events) /\ DOMAIN out = 1 .. n + 1
        /\ \A i \in 1 .. n + 1 : out[i] = IF i <= k THEN log[i] ELSE IF i = k + 1 THEN e ELSE log[i - 1]
        /\ \A i \in 1 .. n : log[i].time <= e.time <=> i <= k
    BY <1>2 DEF Inserted, n
  <1>4. \A i \in 1 .. k : out[i] = log[i] /\ log[i].time <= e.time
    <2> SUFFICES ASSUME NEW i \in 1 .. k PROVE out[i] = log[i] /\ log[i].time <= e.time
      OBVIOUS
    <2>1. i \in 1 .. n /\ i \in 1 .. n + 1 /\ i <= k
      BY <1>1
    <2> QED BY <1>3, <2>1
  <1>5. out[k + 1] = e
    <2>1. k + 1 \in 1 .. n + 1 /\ ~(k + 1 <= k)
      BY <1>1
    <2> QED BY <1>3, <2>1
  <1>6. \A i \in k + 1 .. n : out[i + 1] = log[i] /\ log[i].time > e.time
    <2> SUFFICES ASSUME NEW i \in k + 1 .. n PROVE out[i + 1] = log[i] /\ log[i].time > e.time
      OBVIOUS
    <2>1. /\ i \in 1 .. n /\ i + 1 \in 1 .. n + 1 /\ ~(i <= k) /\ ~(i + 1 <= k)
          /\ i + 1 # k + 1 /\ (i + 1) - 1 = i
      BY <1>1
    <2>2. out[i + 1] = log[i]
      BY <1>3, <2>1
    <2>3. ~(log[i].time <= e.time)
      BY <1>3, <2>1
    <2> QED BY <1>1, <2>1, <2>2, <2>3
  <1> QED BY <1>1, <1>3, <1>4, <1>5, <1>6 DEF n, out

\* Where the events of a log with one more event are from.
LEMMA InsertedFrom ==
    ASSUME NEW n \in Nat, NEW k \in 0 .. n, NEW i \in 1 .. n + 1
    PROVE  i \in 1 .. k \/ i = k + 1 \/ (i - 1 \in k + 1 .. n /\ (i - 1) + 1 = i)
  OBVIOUS

\* A telling event goes into a log, and nothing told there is younger: the client
\* is where it says.
LEMMA EmitTells ==
    ASSUME NEW log \in Seq(Events), Ordered(log), NEW e \in Events, e.key # "roam_radio",
           ToldBy(log, e.time), NEW ap, Shows(e, ap)
    PROVE  Stands(Emit(log, e), ap)
  <1> DEFINE n == Len(log)
             out == Emit(log, e)
  <1>1. /\ n \in Nat /\ DOMAIN log = 1 .. n /\ DOMAIN out = 1 .. n + 1
        /\ \A i \in 1 .. n : log[i].time \in Nat
        /\ e.time \in Nat
    BY InsertedAt
  <1>2. PICK k \in 0 .. n :
            /\ \A i \in 1 .. k : out[i] = log[i] /\ log[i].time <= e.time
            /\ out[k + 1] = e
            /\ \A i \in k + 1 .. n : out[i + 1] = log[i] /\ log[i].time > e.time
    BY InsertedAt
  <1> HIDE DEF n, out
  <1>3. k + 1 \in Tells(out)
    <2>1. k + 1 \in 1 .. n + 1
      BY <1>1
    <2> QED BY <1>1, <1>2, <2>1 DEF Tells
  <1>4. ASSUME NEW i \in Tells(out) PROVE i <= k + 1
    <2>1. i \in 1 .. n + 1 /\ out[i].key # "roam_radio"
      BY <1>1 DEF Tells
    <2>2. CASE i - 1 \in k + 1 .. n /\ (i - 1) + 1 = i
      <3>1. out[i] = log[i - 1] /\ log[i - 1].time > e.time
        BY <1>2, <2>2
      <3>2. i - 1 \in 1 .. n
        BY <1>1, <2>2
      <3>3. i - 1 \in Tells(log)
        BY <1>1, <2>1, <3>1, <3>2 DEF Tells
      <3>4. log[i - 1].time <= e.time
        BY <3>3 DEF ToldBy
      <3> QED BY <1>1, <3>1, <3>2, <3>4
    <2> QED BY <1>1, <2>1, <2>2, InsertedFrom
  <1>5. ASSUME NEW i \in Tells(out), \A j \in Tells(out) : j <= i
        PROVE  Shows(out[i], ap)
    <2>1. i \in 1 .. n + 1 /\ i <= k + 1 /\ k + 1 <= i
      BY <1>1, <1>3, <1>4, <1>5 DEF Tells
    <2>2. i = k + 1
      BY <1>1, <2>1
    <2> QED BY <1>2, <2>2
  <1> QED BY <1>3, <1>5 DEF Stands, out

\* A change of radio tells nothing.
LEMMA EmitRadio ==
    ASSUME NEW log \in Seq(Events), Ordered(log), NEW e \in Events, e.key = "roam_radio",
           NEW ap, Stands(log, ap)
    PROVE  Stands(Emit(log, e), ap)
  <1> DEFINE n == Len(log)
             out == Emit(log, e)
  <1>1. /\ n \in Nat /\ DOMAIN log = 1 .. n /\ DOMAIN out = 1 .. n + 1
    BY InsertedAt
  <1>2. PICK k \in 0 .. n :
            /\ \A i \in 1 .. k : out[i] = log[i] /\ log[i].time <= e.time
            /\ out[k + 1] = e
            /\ \A i \in k + 1 .. n : out[i + 1] = log[i] /\ log[i].time > e.time
    BY InsertedAt
  <1> HIDE DEF n, out
  <1>3. ASSUME NEW i \in Tells(out)
        PROVE  \E p \in Tells(log) : out[i] = log[p] /\ ((i = p /\ p <= k) \/ (i = p + 1 /\ p > k))
    <2>1. i \in 1 .. n + 1 /\ out[i].key # "roam_radio"
      BY <1>1 DEF Tells
    <2>2. CASE i \in 1 .. k
      <3>1. out[i] = log[i] /\ i \in 1 .. n /\ i <= k
        BY <1>1, <1>2, <2>2
      <3>2. i \in Tells(log)
        BY <1>1, <2>1, <3>1 DEF Tells
      <3> QED BY <3>1, <3>2
    <2>3. CASE i - 1 \in k + 1 .. n /\ (i - 1) + 1 = i
      <3>1. out[i] = log[i - 1]
        BY <1>2, <2>3
      <3>2. i - 1 \in 1 .. n /\ i - 1 > k
        BY <1>1, <2>3
      <3>3. i - 1 \in Tells(log)
        BY <1>1, <2>1, <3>1, <3>2 DEF Tells
      <3> QED BY <2>3, <3>1, <3>2, <3>3
    <2>4. i # k + 1
      BY <1>2, <2>1
    <2> QED BY <1>1, <2>1, <2>2, <2>3, <2>4, InsertedFrom
  <1>4. ASSUME NEW q \in Tells(log)
        PROVE  q \in 1 .. n /\ IF q <= k THEN q \in Tells(out) ELSE q + 1 \in Tells(out)
    <2>1. q \in 1 .. n /\ log[q].key # "roam_radio"
      BY <1>1 DEF Tells
    <2>2. CASE q <= k
      <3>1. q \in 1 .. k /\ q \in 1 .. n + 1
        BY <1>1, <2>1, <2>2
      <3>2. out[q] = log[q]
        BY <1>2, <3>1
      <3> QED BY <1>1, <2>1, <2>2, <3>1, <3>2 DEF Tells
    <2>3. CASE ~(q <= k)
      <3>1. q \in k + 1 .. n /\ q + 1 \in 1 .. n + 1
        BY <1>1, <2>1, <2>3
      <3>2. out[q + 1] = log[q]
        BY <1>2, <3>1
      <3> QED BY <1>1, <2>1, <2>3, <3>1, <3>2 DEF Tells
    <2> QED BY <2>2, <2>3
  <1>5. ASSUME NEW i \in Tells(out), \A j \in Tells(out) : j <= i
        PROVE  Shows(out[i], ap)
    <2>1. PICK p \in Tells(log) : out[i] = log[p] /\ ((i = p /\ p <= k) \/ (i = p + 1 /\ p > k))
      BY <1>3
    <2>2. p \in 1 .. n
      BY <1>4
    <2>3. ASSUME NEW q \in Tells(log) PROVE q <= p
      <3>1. q \in 1 .. n
        BY <1>4
      <3>2. CASE q <= k
        <4>1. q <= i
          BY <1>4, <1>5, <3>2
        <4> QED BY <1>1, <2>1, <2>2, <3>1, <3>2, <4>1
      <3>3. CASE ~(q <= k)
        <4>1. q + 1 <= i
          BY <1>4, <1>5, <3>3
        <4> QED BY <1>1, <2>1, <2>2, <3>1, <3>3, <4>1
      <3> QED BY <3>2, <3>3
    <2>4. Shows(log[p], ap)
      BY <2>3 DEF Stands
    <2> QED BY <2>1, <2>4
  <1>6. Tells(out) = {} => ap = Nowhere
    <2> SUFFICES ASSUME Tells(out) = {} PROVE ap = Nowhere
      OBVIOUS
    <2>1. Tells(log) = {}
      BY <1>4
    <2> QED BY <2>1 DEF Stands
  <1> QED BY <1>5, <1>6 DEF Stands, out

\* What bounds the times of a log and of an event bounds those of both.
LEMMA EmitWithin ==
    ASSUME NEW log \in Seq(Events), Ordered(log), NEW e \in Events, NEW m \in Nat
    PROVE  /\ Before(log, m) /\ e.time <= m => Before(Emit(log, e), m)
           /\ ToldBy(log, m) /\ (e.key = "roam_radio" \/ e.time <= m) => ToldBy(Emit(log, e), m)
           /\ Emit(log, e) # log
  <1> DEFINE n == Len(log)
             out == Emit(log, e)
  <1>1. /\ n \in Nat /\ DOMAIN log = 1 .. n /\ DOMAIN out = 1 .. n + 1
    BY InsertedAt
  <1>2. PICK k \in 0 .. n :
            /\ \A i \in 1 .. k : out[i] = log[i] /\ log[i].time <= e.time
            /\ out[k + 1] = e
            /\ \A i \in k + 1 .. n : out[i + 1] = log[i] /\ log[i].time > e.time
    BY InsertedAt
  <1> HIDE DEF n, out
  <1>3. ASSUME NEW i \in DOMAIN out
        PROVE  out[i] = e \/ \E p \in DOMAIN log : out[i] = log[p]
    <2>1. i \in 1 .. n + 1
      BY <1>1
    <2>2. CASE i \in 1 .. k
      <3>1. i \in 1 .. n
        BY <1>1, <2>2
      <3> QED BY <1>1, <1>2, <2>2, <3>1
    <2>3. CASE i - 1 \in k + 1 .. n /\ (i - 1) + 1 = i
      <3>1. i - 1 \in 1 .. n
        BY <1>1, <2>3
      <3> QED BY <1>1, <1>2, <2>3, <3>1
    <2> QED BY <1>1, <1>2, <2>1, <2>2, <2>3, InsertedFrom
  <1>4. Before(log, m) /\ e.time <= m => Before(out, m)
    BY <1>3 DEF Before
  <1>5. ToldBy(log, m) /\ (e.key = "roam_radio" \/ e.time <= m) => ToldBy(out, m)
    BY <1>3 DEF ToldBy, Tells
  <1>6. out # log
    <2>1. n + 1 \in 1 .. n + 1 /\ n + 1 \notin 1 .. n
      BY <1>1
    <2> QED BY <1>1, <2>1
  <1> QED BY <1>4, <1>5, <1>6 DEF out

\* A log that lost a prefix: what bounds its times bounds those of the rest, and
\* the rest tells the same unless it tells nothing.
LEMMA SuffixTells ==
    ASSUME NEW log \in Seq(Events), NEW k \in Nat
    PROVE  LET b == SubSeq(log, k + 1, Len(log))
           IN  /\ \A m \in Nat : Before(log, m) => Before(b, m)
               /\ \A m \in Nat : ToldBy(log, m) => ToldBy(b, m)
               /\ \A ap : Stands(log, ap) /\ (Tells(b) = {} => Tells(log) = {}) => Stands(b, ap)
  <1> DEFINE n == Len(log)
             b == SubSeq(log, k + 1, n)
  <1>1. n \in Nat /\ DOMAIN log = 1 .. n /\ \A i \in 1 .. n : log[i] \in Events
    BY EventTimes
  <1> HIDE DEF n
  <1>2. \A i \in (k + 1) .. n : log[i] \in Events
    BY <1>1
  <1>3. /\ b \in Seq(Events) /\ Len(b) = IF k + 1 <= n THEN n - (k + 1) + 1 ELSE 0
        /\ \A i \in 1 .. n - (k + 1) + 1 : b[i] = log[(k + 1) + i - 1]
    BY <1>1, <1>2, SubSeqProperties
  <1> HIDE DEF b
  <1>4. DOMAIN b = 1 .. Len(b)
    BY <1>3
  <1>5. \A i \in DOMAIN b : i \in Nat /\ k + i \in DOMAIN log /\ b[i] = log[k + i]
    BY <1>1, <1>3, <1>4
  <1>6. \A q \in DOMAIN log : q > k => q - k \in DOMAIN b
    <2> SUFFICES ASSUME NEW q \in 1 .. n, q > k PROVE q - k \in 1 .. Len(b)
      BY <1>1, <1>4
    <2> QED BY <1>1, <1>3
  <1>7. ASSUME NEW m \in Nat, Before(log, m) PROVE Before(b, m)
    BY <1>5, <1>7 DEF Before
  <1>8. ASSUME NEW i \in Tells(b) PROVE i \in Nat /\ k + i \in Tells(log) /\ b[i] = log[k + i]
    BY <1>5 DEF Tells
  <1>9. ASSUME NEW m \in Nat, ToldBy(log, m) PROVE ToldBy(b, m)
    BY <1>8, <1>9 DEF ToldBy
  <1>10. ASSUME NEW ap, Stands(log, ap), Tells(b) = {} => Tells(log) = {} PROVE Stands(b, ap)
    <2>1. ASSUME NEW i \in Tells(b), \A j \in Tells(b) : j <= i
          PROVE  Shows(b[i], ap)
      <3>1. i \in Nat /\ k + i \in Tells(log) /\ b[i] = log[k + i]
        BY <1>8
      <3>2. ASSUME NEW q \in Tells(log) PROVE q <= k + i
        <4>1. q \in Nat /\ q \in DOMAIN log /\ log[q].key # "roam_radio"
          BY <1>1 DEF Tells
        <4>2. CASE q > k
          <5>1. q - k \in DOMAIN b
            BY <1>6, <4>1, <4>2
          <5>2. k + (q - k) = q
            BY <4>1
          <5>3. b[q - k] = log[q]
            BY <1>5, <5>1, <5>2
          <5>4. q - k \in Tells(b)
            BY <4>1, <5>1, <5>3 DEF Tells
          <5>5. q - k <= i
            BY <2>1, <5>4
          <5> QED BY <3>1, <4>1, <5>5
        <4> QED BY <3>1, <4>1, <4>2
      <3> QED BY <1>10, <3>1, <3>2 DEF Stands
    <2> QED BY <1>10, <2>1 DEF Stands
  <1> QED BY <1>7, <1>9, <1>10 DEF b, n

-----------------------------------------------------------------------------
(* What a transition and a flush make of the entries of a client            *)

\* Events of the tracker.
LEMMA EventParts ==
    ASSUME NEW ap \in Aps, NEW from \in Aps \cup {Nowhere}, NEW time \in Nat
    PROVE  /\ Came(ap, time) \in Events /\ Came(ap, time).time = time
           /\ Came(ap, time).key # "roam_radio" /\ Shows(Came(ap, time), ap)
           /\ Roam(from, ap, time) \in Events /\ Roam(from, ap, time).time = time
           /\ Roam(from, ap, time).key # "roam_radio" /\ Shows(Roam(from, ap, time), ap)
           /\ Event("roam_radio", ap, Nowhere, time) \in Events
           /\ Event("roam_radio", ap, Nowhere, time).time = time
           /\ Event("roam_radio", ap, Nowhere, time).key = "roam_radio"
  BY DEF Came, Roam, Event, Events, Shows

LEMMA GoneParts ==
    ASSUME NEW t, TrackOK(t), t.held # NoHold
    PROVE  /\ t.held.ap \in Aps /\ t.held.at \in Nat /\ t.cur = t.held.ap
           /\ Gone(t.held) \in Events /\ Gone(t.held).time = t.held.at
           /\ Gone(t.held).key # "roam_radio" /\ Shows(Gone(t.held), Nowhere)
  <1>1. t.held.ap \in Aps /\ t.held.at \in Nat /\ t.cur = t.held.ap
    BY TrackParts
  <1> QED BY <1>1 DEF Gone, Event, Events, Shows

\* What a transition does to the entries t of a client, as far as their history
\* goes: u tells where the client is if t did or if u has a new telling event; only
\* a connect tells anything or moves the client, and only a disconnect is held.
Follows(t, u, kind, ap, time) ==
    /\ \A m \in Nat : Before(t.log, m) /\ time <= m /\ (t.held # NoHold => t.held.at <= m)
          => Before(u.log, m)
    /\ Stands(t.log, t.cur) => Stands(u.log, u.cur)
    /\ u.log # t.log /\ kind # "radio_change" => Stands(u.log, u.cur)
    /\ kind # "connect" => \A m \in Nat : ToldBy(t.log, m) => ToldBy(u.log, m)
    /\ kind = "connect" => u.cur = ap /\ u.held = NoHold
    /\ kind # "connect" => u.cur = t.cur
    /\ u.held # NoHold => u.held = t.held \/ (u.held = [ap |-> ap, at |-> time] /\ t.cur = ap)
    /\ u.held # NoHold => kind # "none" \/ u.held = t.held

\* The same entries follow, but for a connect.
LEMMA SameFollows ==
    ASSUME NEW t, TrackOK(t), NEW kind, NEW ap, NEW time,
           kind = "connect" => t.cur = ap /\ t.held = NoHold
    PROVE  Follows(t, t, kind, ap, time)
  BY DEF Follows

\* Entries that got a telling event behind everything told follow a connect.
LEMMA TellsFollows ==
    ASSUME NEW t, NEW u, NEW ap, NEW time \in Nat,
           NEW log \in Seq(Events), Ordered(log), NEW e \in Events, e.time = time,
           e.key # "roam_radio", Shows(e, ap), ToldBy(log, time),
           \A m \in Nat : Before(t.log, m) /\ time <= m /\ (t.held # NoHold => t.held.at <= m)
                        => Before(log, m),
           u.cur = ap, u.held = NoHold, u.log = Emit(log, e)
    PROVE  Follows(t, u, "connect", ap, time)
  <1>1. Stands(u.log, u.cur)
    BY EmitTells
  <1>2. \A m \in Nat : Before(log, m) /\ time <= m => Before(u.log, m)
    BY EmitWithin
  <1> QED BY <1>1, <1>2 DEF Follows

\* A client that connects.
LEMMA ConnectFollows ==
    ASSUME NEW t, TrackOK(t), NEW ap \in Aps, NEW time \in Nat,
           ToldBy(t.log, time),
           t.held # NoHold => ToldBy(t.log, t.held.at),
           t.held # NoHold /\ ap = t.held.ap => t.held.at <= time
    PROVE  Follows(t, Connect(t, ap, time), "connect", ap, time)
  <1> DEFINE u == Connect(t, ap, time)
  <1>1. /\ t.cur \in Aps \cup {Nowhere} /\ t.log \in Seq(Events) /\ Ordered(t.log)
    BY TrackParts
  <1>2. /\ Came(ap, time) \in Events /\ Came(ap, time).time = time
        /\ Came(ap, time).key # "roam_radio" /\ Shows(Came(ap, time), ap)
    BY EventParts
  <1>3. CASE t.held # NoHold /\ t.held.ap = ap
    <2> DEFINE log == Emit(t.log, Gone(t.held))
    <2>1. /\ t.held.at \in Nat /\ Gone(t.held) \in Events /\ Gone(t.held).time = t.held.at
      BY <1>3, GoneParts
    <2>2. log \in Seq(Events) /\ Ordered(log)
      BY <1>1, <2>1, EmitOrdered
    <2>3. ToldBy(log, time)
      BY <1>1, <1>3, <2>1, EmitWithin
    <2>4. \A m \in Nat : Before(t.log, m) /\ t.held.at <= m => Before(log, m)
      BY <1>1, <2>1, EmitWithin
    <2>5. u = [cur |-> ap, held |-> NoHold, log |-> Emit(log, Came(ap, time))]
      BY <1>3 DEF Connect
    <2> HIDE DEF log
    <2> DEFINE e == Came(ap, time)
    <2>6. /\ e \in Events /\ e.time = time /\ e.key # "roam_radio" /\ Shows(e, ap)
          /\ u.cur = ap /\ u.held = NoHold /\ u.log = Emit(log, e)
      BY <1>2, <2>5
    <2>7. \A m \in Nat : Before(t.log, m) /\ time <= m /\ (t.held # NoHold => t.held.at <= m)
                        => Before(log, m)
      BY <1>3, <2>4
    <2> HIDE DEF u, e
    <2>9. Follows(t, u, "connect", ap, time)
      BY <2>2, <2>3, <2>6, <2>7, TellsFollows
    <2> QED BY <2>9 DEF u
  <1>4. CASE t.held # NoHold /\ t.held.ap # ap
    <2>1. t.held.ap \in Aps \cup {Nowhere}
      BY <1>4, GoneParts
    <2>2. /\ Roam(t.held.ap, ap, time) \in Events /\ Roam(t.held.ap, ap, time).time = time
          /\ Roam(t.held.ap, ap, time).key # "roam_radio" /\ Shows(Roam(t.held.ap, ap, time), ap)
      BY <2>1, EventParts
    <2>3. u = [cur |-> ap, held |-> NoHold, log |-> Emit(t.log, Roam(t.held.ap, ap, time))]
      BY <1>4 DEF Connect
    <2>4. u.cur = ap /\ u.held = NoHold /\ u.log = Emit(t.log, Roam(t.held.ap, ap, time))
      BY <2>3
    <2> DEFINE e == Roam(t.held.ap, ap, time)
    <2>5. /\ e \in Events /\ e.time = time /\ e.key # "roam_radio" /\ Shows(e, ap)
          /\ u.cur = ap /\ u.held = NoHold /\ u.log = Emit(t.log, e)
      BY <2>2, <2>4
    <2>6. \A m \in Nat : Before(t.log, m) /\ time <= m /\ (t.held # NoHold => t.held.at <= m)
                        => Before(t.log, m)
      OBVIOUS
    <2> HIDE DEF u, e
    <2>9. Follows(t, u, "connect", ap, time)
      BY <1>1, <2>5, <2>6, TellsFollows
    <2> QED BY <2>9 DEF u
  <1>5. CASE t.held = NoHold /\ t.cur = ap
    <2>1. ap # Nowhere
      BY NoneAssumption
    <2>2. u = t
      BY <1>5, <2>1 DEF Connect
    <2> QED BY <1>5, <2>2, SameFollows
  <1>6. CASE t.held = NoHold /\ t.cur # ap
    <2>1. PICK e \in Events : /\ e.time = time /\ e.key # "roam_radio" /\ Shows(e, ap)
                              /\ u = [t EXCEPT !.cur = ap, !.log = Emit(t.log, e)]
      <3>1. CASE t.cur = Nowhere
        <4>1. u = [t EXCEPT !.cur = ap, !.log = Emit(t.log, Came(ap, time))]
          BY <1>6, <3>1 DEF Connect
        <4> QED BY <1>2, <4>1
      <3>2. CASE t.cur # Nowhere
        <4>1. u = [t EXCEPT !.cur = ap, !.log = Emit(t.log, Roam(t.cur, ap, time))]
          BY <1>6, <3>2 DEF Connect
        <4>2. /\ Roam(t.cur, ap, time) \in Events /\ Roam(t.cur, ap, time).time = time
              /\ Roam(t.cur, ap, time).key # "roam_radio" /\ Shows(Roam(t.cur, ap, time), ap)
          BY <1>1, EventParts
        <4> QED BY <4>1, <4>2
      <3> QED BY <3>1, <3>2
    <2> HIDE DEF u
    <2>2. u.cur = ap /\ u.held = NoHold /\ u.log = Emit(t.log, e)
      <3>1. t \in Tracks
        BY DEF TrackOK
      <3> QED BY <1>6, <2>1, <3>1 DEF Tracks
    <2>3. \A m \in Nat : Before(t.log, m) /\ time <= m /\ (t.held # NoHold => t.held.at <= m)
                        => Before(t.log, m)
      OBVIOUS
    <2>9. Follows(t, u, "connect", ap, time)
      BY <1>1, <2>1, <2>2, <2>3, TellsFollows
    <2> QED BY <2>9 DEF u
  <1> QED BY <1>3, <1>4, <1>5, <1>6

\* Any transition.
LEMMA ObservedFollows ==
    ASSUME NEW t, TrackOK(t), NEW kind \in TransitionKinds, NEW ap \in Aps, NEW time \in Nat,
           kind = "connect" => ToldBy(t.log, time),
           t.held # NoHold => ToldBy(t.log, t.held.at),
           kind # "none" /\ t.held # NoHold /\ ap = t.held.ap => t.held.at <= time
    PROVE  Follows(t, Observed(t, kind, ap, time), kind, ap, time)
  <1> DEFINE u == Observed(t, kind, ap, time)
  <1>0. /\ t \in Tracks /\ t.log \in Seq(Events) /\ Ordered(t.log)
    BY TrackParts DEF TrackOK
  <1>1. CASE kind = "connect"
    <2>1. u = Connect(t, ap, time)
      BY <1>1 DEF Observed
    <2> QED BY <1>1, <2>1, ConnectFollows
  <1>2. CASE kind # "connect" /\ u = t
    BY <1>2, SameFollows
  <1>3. CASE kind = "disconnect" /\ u # t
    <2>1. t.cur = ap /\ u = [t EXCEPT !.held = [ap |-> ap, at |-> time]]
      BY <1>3 DEF Observed, Disconnect
    <2> HIDE DEF u
    <2>2. u.cur = t.cur /\ u.log = t.log /\ u.held = [ap |-> ap, at |-> time]
      BY <1>0, <2>1 DEF Tracks
    <2>9. Follows(t, u, kind, ap, time)
      BY <1>3, <2>1, <2>2 DEF Follows
    <2> QED BY <2>9 DEF u
  <1>4. CASE kind = "radio_change" /\ u # t
    <2> DEFINE e == Event("roam_radio", ap, Nowhere, time)
    <2>1. u = [t EXCEPT !.log = Emit(t.log, e)]
      BY <1>4 DEF Observed, RadioChange
    <2>2. e \in Events /\ e.time = time /\ e.key = "roam_radio"
      BY EventParts
    <2> HIDE DEF e, u
    <2>3. u.cur = t.cur /\ u.log = Emit(t.log, e) /\ u.held = t.held
      BY <1>0, <2>1 DEF Tracks
    <2>4. Stands(t.log, t.cur) => Stands(u.log, u.cur)
      BY <1>0, <2>2, <2>3, EmitRadio
    <2>5. \A m \in Nat : Before(t.log, m) /\ time <= m => Before(u.log, m)
      BY <1>0, <2>2, <2>3, EmitWithin
    <2>6. \A m \in Nat : ToldBy(t.log, m) => ToldBy(u.log, m)
      BY <1>0, <2>2, <2>3, EmitWithin
    <2>9. Follows(t, u, kind, ap, time)
      BY <1>4, <2>3, <2>4, <2>5, <2>6 DEF Follows
    <2> QED BY <2>9 DEF u
  <1>5. kind = "none" => u = t
    BY DEF Observed
  <1> QED BY <1>1, <1>2, <1>3, <1>4, <1>5 DEF TransitionKinds

\* A held disconnect that is told.
LEMMA FlushedFollows ==
    ASSUME NEW t, TrackOK(t), t.held # NoHold, ToldBy(t.log, t.held.at)
    PROVE  LET u == Flushed(t)
           IN  /\ u.cur = Nowhere /\ u.held = NoHold
               /\ Stands(u.log, Nowhere)
               /\ \A m \in Nat : Before(t.log, m) /\ t.held.at <= m => Before(u.log, m)
               /\ \A m \in Nat : ToldBy(t.log, m) /\ t.held.at <= m => ToldBy(u.log, m)
  <1> DEFINE u == Flushed(t)
  <1>1. /\ t.cur \in Aps \cup {Nowhere} /\ t.log \in Seq(Events) /\ Ordered(t.log)
    BY TrackParts
  <1>2. /\ t.held.ap \in Aps /\ t.held.at \in Nat /\ t.cur = t.held.ap
        /\ Gone(t.held) \in Events /\ Gone(t.held).time = t.held.at
        /\ Gone(t.held).key # "roam_radio" /\ Shows(Gone(t.held), Nowhere)
    BY GoneParts
  <1>3. u.cur = Nowhere /\ u.held = NoHold /\ u.log = Emit(t.log, Gone(t.held))
    BY <1>2 DEF Flushed
  <1> HIDE DEF u
  <1>4. Stands(u.log, Nowhere)
    BY <1>1, <1>2, <1>3, EmitTells
  <1>5. \A m \in Nat : Before(t.log, m) /\ t.held.at <= m => Before(u.log, m)
    BY <1>1, <1>2, <1>3, EmitWithin
  <1>6. \A m \in Nat : ToldBy(t.log, m) /\ t.held.at <= m => ToldBy(u.log, m)
    BY <1>1, <1>2, <1>3, EmitWithin
  <1> QED BY <1>3, <1>4, <1>5, <1>6 DEF u

-----------------------------------------------------------------------------
(* Order of the history                                                     *)

\* Clients are noticed and access points wait for their answers.
Quiet == spent.fast = 0 /\ spent.losses = 0

\* Nothing is from the future.
Past ==
    /\ \A h \in Slots : slot[h].at <= now
    /\ \A c \in Clients : track[c].held # NoHold => track[c].held.at <= now
    /\ \A c \in Clients : Before(track[c].log, now)

\* Transitions come from a committed cycle.
Committed ==
    \A h \in Slots, c \in Clients :
        slot[h].ts[c] # "none" => slot[h].phase \in {"saving", "observing"}

\* An access point has one inform under way.
OneEach ==
    \A g, h \in Slots :
        slot[g].phase # "idle" /\ slot[h].phase # "idle" /\ Owner[g] = Owner[h] => g = h

\* A connect that is or will be on its way to the tracker is from where the
\* client is.
Arrivals ==
    \A h \in Slots, c \in Clients :
        /\ slot[h].ts[c] = "connect" => at[c][1] = Owner[h]
        /\ slot[h].phase = "sent" /\ c \in DOMAIN slot[h].table /\ ~Online(rows[Owner[h]], c)
              => at[c][1] = Owner[h]

\* A transition under way is younger than what it adds to: a connect than all
\* that was told, any transition than what the same access point did before it.
Fresh(t, s, c, ap) ==
    /\ s.ts[c] = "connect" => ToldBy(t.log, s.at)
    /\ s.ts[c] # "none" /\ ap = t.cur => ToldBy(t.log, s.at)
    /\ s.ts[c] # "none" /\ t.held # NoHold /\ ap = t.held.ap => t.held.at <= s.at

InOrder == \A h \in Slots, c \in Clients : Fresh(track[c], slot[h], c, Owner[h])

\* A held disconnect is younger than all that was told, and what was told last is
\* what the tracker has.
Agreed ==
    \A c \in Clients :
        /\ track[c].held # NoHold => ToldBy(track[c].log, track[c].held.at)
        /\ c \notin torn => Stands(track[c].log, track[c].cur)

Calm == Past /\ Committed /\ OneEach /\ Arrivals /\ InOrder /\ Agreed

\* A handler without an inform.
LEMMA IdleParts ==
    /\ IdleSlot.phase = "idle" /\ IdleSlot.at = 0
    /\ \A c \in Clients : IdleSlot.ts[c] = "none"
  BY DEF IdleSlot, Nothing

\* Handlers that only finish take nothing from the order of informs.
LEMMA IdleSteps ==
    ASSUME \A h \in Slots : (slot'[h] = slot[h] /\ rows' = rows) \/ slot'[h] = IdleSlot,
           at' = at, OneEach, Arrivals
    PROVE  OneEach' /\ Arrivals'
  <1>1. \A h \in Slots : slot'[h].phase # "idle" => slot'[h] = slot[h]
    BY IdleParts
  <1>2. OneEach'
    BY <1>1 DEF OneEach
  <1>3. ASSUME NEW h \in Slots, NEW c \in Clients
        PROVE  /\ slot'[h].ts[c] = "connect" => at'[c][1] = Owner[h]
               /\ slot'[h].phase = "sent" /\ c \in DOMAIN slot'[h].table /\ ~Online(rows'[Owner[h]], c)
                     => at'[c][1] = Owner[h]
    <2>1. CASE slot'[h] = slot[h] /\ rows' = rows
      BY <2>1 DEF Arrivals
    <2>2. CASE slot'[h] = IdleSlot
      BY <2>2, IdleParts
    <2> QED BY <2>1, <2>2
  <1> QED BY <1>2, <1>3 DEF Arrivals

\* An inform that starts, commits, saves or is dropped: the tracker has not moved.
LEMMA UntoldStep ==
    ASSUME IInv, Past, InOrder, Agreed, UNCHANGED <<track, now, torn>>,
           \A h \in Slots : \/ slot'[h].at = slot[h].at /\ slot'[h].ts = slot[h].ts
                            \/ slot'[h].at = 0 /\ \A c \in Clients : slot'[h].ts[c] = "none"
                            \/ slot'[h].at = now
    PROVE  Past' /\ InOrder' /\ Agreed'
  <1>1. now \in Nat /\ \A h \in Slots : slot[h].at \in Nat
    BY DEF IInv, TypeOK, SlotStates
  <1>2. Past'
    BY <1>1 DEF Past
  <1>3. ASSUME NEW h \in Slots, NEW c \in Clients
        PROVE  Fresh(track[c], slot'[h], c, Owner[h])
    <2>1. CASE slot'[h].at = slot[h].at /\ slot'[h].ts = slot[h].ts
      BY <2>1 DEF InOrder, Fresh
    <2>2. CASE slot'[h].at = 0 /\ slot'[h].ts[c] = "none"
      BY <2>2 DEF Fresh
    <2>3. CASE slot'[h].at = now
      <3>1. ToldBy(track[c].log, now)
        BY DEF Past, Before, ToldBy, Tells
      <3>2. track[c].held # NoHold => track[c].held.at <= now
        BY DEF Past
      <3> QED BY <2>3, <3>1, <3>2 DEF Fresh
    <2> QED BY <2>1, <2>2, <2>3
  <1>4. InOrder'
    BY <1>3 DEF InOrder
  <1> QED BY <1>2, <1>4 DEF Agreed

\* Handlers keep their transitions, get none, or get those of a commit.
LEMMA CommittedStep ==
    ASSUME Committed,
           \A h \in Slots : \/ slot'[h] = slot[h]
                            \/ \A c \in Clients : slot'[h].ts[c] = "none"
                            \/ slot'[h].phase \in {"saving", "observing"}
    PROVE  Committed'
  BY DEF Committed

\* A client that is noticed moves: nothing about it is on its way.
LEMMA MoveCalm ==
    ASSUME IInv, Calm, NEW c \in Clients, NEW place \in Places \cup {Away}, Move(c, place),
           Noticed(c)
    PROVE  Calm'
  <1>1. /\ at' = [at EXCEPT ![c] = place] /\ UNCHANGED <<rows, saved, slot, track, now, torn>>
        /\ at \in [Clients -> Places \cup {Away}]
    BY DEF Move, IInv, TypeOK
  <1>2. Past' /\ InOrder' /\ Agreed'
    BY <1>1, UntoldStep DEF Calm
  <1>3. Committed'
    BY <1>1, CommittedStep DEF Calm
  <1>4. OneEach'
    BY <1>1 DEF Calm, OneEach
  <1>5. ASSUME NEW h \in Slots, NEW d \in Clients
        PROVE  /\ slot[h].ts[d] = "connect" => at'[d][1] = Owner[h]
               /\ slot[h].phase = "sent" /\ d \in DOMAIN slot[h].table /\ ~Online(rows[Owner[h]], d)
                     => at'[d][1] = Owner[h]
    <2>1. CASE d # c
      <3>1. at'[d] = at[d]
        BY <1>1, <2>1
      <3> QED BY <3>1 DEF Calm, Arrivals
    <2>2. CASE d = c
      <3>1. slot[h].ts[c] = "none"
        BY DEF Noticed
      <3>2. slot[h].phase = "sent" /\ c \in DOMAIN slot[h].table => Online(rows[Owner[h]], c)
        BY OwnerAssumption DEF Noticed
      <3> QED BY <2>2, <3>1, <3>2
    <2> QED BY <2>1, <2>2
  <1>6. Arrivals'
    BY <1>1, <1>5 DEF Arrivals
  <1> QED BY <1>2, <1>3, <1>4, <1>6 DEF Calm

\* An access point reports that has no other report under way.
LEMMA ReportCalm ==
    ASSUME IInv, Calm, NEW h \in Slots, Report(h), ~InFlight(Owner[h])
    PROVE  Calm'
  <1> DEFINE s == [IdleSlot EXCEPT !.phase = "sent", !.table = [c \in On(at, Owner[h]) |-> at[c][2]]]
  <1>1. /\ slot' = [slot EXCEPT ![h] = s] /\ UNCHANGED <<at, rows, saved, track, now, torn>>
        /\ slot \in [Slots -> SlotStates]
    BY DEF Report, IInv, TypeOK
  <1>2. s.at = 0 /\ s.ts = Nothing /\ s.phase = "sent" /\ s.table = [c \in On(at, Owner[h]) |-> at[c][2]]
    BY DEF IdleSlot
  <1>3. DOMAIN s.table = On(at, Owner[h])
    BY <1>2
  <1>4. \A c \in Clients : s.ts[c] = "none"
    BY <1>2 DEF Nothing
  <1> HIDE DEF s
  <1>5. slot'[h] = s /\ \A g \in Slots : g # h => slot'[g] = slot[g]
    BY <1>1
  <1>6. Past' /\ InOrder' /\ Agreed'
    <2>1. ASSUME NEW g \in Slots
          PROVE  \/ slot'[g].at = slot[g].at /\ slot'[g].ts = slot[g].ts
                 \/ slot'[g].at = 0 /\ \A c \in Clients : slot'[g].ts[c] = "none"
      BY <1>2, <1>4, <1>5
    <2> QED BY <1>1, <2>1, UntoldStep DEF Calm
  <1>7. Committed'
    BY <1>4, <1>5, CommittedStep DEF Calm
  <1>8. OneEach'
    BY <1>5 DEF Calm, OneEach, InFlight
  <1>9. ASSUME NEW g \in Slots, NEW d \in Clients
        PROVE  /\ slot'[g].ts[d] = "connect" => at[d][1] = Owner[g]
               /\ slot'[g].phase = "sent" /\ d \in DOMAIN slot'[g].table /\ ~Online(rows[Owner[g]], d)
                     => at[d][1] = Owner[g]
    <2>1. CASE g # h
      BY <1>5, <2>1 DEF Calm, Arrivals
    <2>2. CASE g = h
      BY <1>3, <1>4, <1>5, <2>2 DEF On
    <2> QED BY <2>1, <2>2
  <1>10. Arrivals'
    BY <1>1, <1>9 DEF Arrivals
  <1> QED BY <1>6, <1>7, <1>8, <1>10 DEF Calm

\* A cycle commits.
LEMMA CommitCalm ==
    ASSUME IInv, Calm, NEW h \in Slots, NEW sweeps \in BOOLEAN, Commit(h, sweeps)
    PROVE  Calm'
  <1> DEFINE ap == Owner[h]
             ts == Transitions(rows[ap], slot[h].table)
             s == [IdleSlot EXCEPT !.phase = "saving", !.at = now, !.ts = ts]
             r == IF sweeps THEN [c \in Clients |-> NoRow]
                  ELSE Capped(Refreshed(rows[ap], slot[h].table))
  <1>1. /\ slot' = [slot EXCEPT ![h] = s] /\ UNCHANGED <<at, saved, track, now, torn>>
        /\ rows' = [rows EXCEPT ![ap] = r]
        /\ slot[h].phase = "sent"
        /\ slot \in [Slots -> SlotStates]
        /\ rows \in [Aps -> [Clients -> Rows \cup {NoRow}]]
    BY DEF Commit, IInv, TypeOK
  <1>2. s.at = now /\ s.phase = "saving" /\ s.ts = ts
    BY DEF IdleSlot
  <1>3. \A c \in Clients : ts[c] = "connect" => c \in DOMAIN slot[h].table /\ ~Online(rows[ap], c)
    BY DEF Transitions
  <1> HIDE DEF s, ts, r
  <1>4. slot'[h] = s /\ \A g \in Slots : g # h => slot'[g] = slot[g]
    BY <1>1
  <1>5. \A a \in Aps : a # ap => rows'[a] = rows[a]
    BY <1>1
  <1>6. Past' /\ InOrder' /\ Agreed'
    <2>1. ASSUME NEW g \in Slots
          PROVE  (slot'[g].at = slot[g].at /\ slot'[g].ts = slot[g].ts) \/ slot'[g].at = now
      BY <1>2, <1>4
    <2> QED BY <1>1, <2>1, UntoldStep DEF Calm
  <1>7. Committed'
    BY <1>2, <1>4, CommittedStep DEF Calm
  <1>8. OneEach'
    BY <1>1, <1>4 DEF Calm, OneEach
  <1>9. ASSUME NEW g \in Slots, NEW d \in Clients
        PROVE  /\ slot'[g].ts[d] = "connect" => at[d][1] = Owner[g]
               /\ slot'[g].phase = "sent" /\ d \in DOMAIN slot'[g].table /\ ~Online(rows'[Owner[g]], d)
                     => at[d][1] = Owner[g]
    <2>1. CASE g # h
      <3>1. slot'[g] = slot[g]
        BY <1>4, <2>1
      <3>2. CASE slot[g].phase = "sent"
        <4>1. Owner[g] # ap /\ Owner[g] \in Aps
          BY <1>1, <2>1, <3>2, OwnerAssumption DEF Calm, OneEach
        <4>2. rows'[Owner[g]] = rows[Owner[g]]
          BY <1>5, <4>1
        <4> QED BY <3>1, <4>2 DEF Calm, Arrivals
      <3> QED BY <3>1, <3>2 DEF Calm, Arrivals
    <2>2. CASE g = h
      BY <1>1, <1>2, <1>3, <1>4, <2>2 DEF Calm, Arrivals
    <2> QED BY <2>1, <2>2
  <1>10. Arrivals'
    BY <1>1, <1>9 DEF Arrivals
  <1> QED BY <1>6, <1>7, <1>8, <1>10 DEF Calm

\* A cycle or its save fails: the handler is done.
LEMMA FailureCalm ==
    ASSUME IInv, Calm, NEW h \in Slots, CycleFails(h) \/ SaveFails(h)
    PROVE  Calm'
  <1>1. /\ slot' = [slot EXCEPT ![h] = IdleSlot] /\ UNCHANGED <<at, rows, saved, track, now, torn>>
        /\ slot \in [Slots -> SlotStates]
    BY DEF CycleFails, SaveFails, IInv, TypeOK
  <1>2. \A g \in Slots : slot'[g] = slot[g] \/ slot'[g] = IdleSlot
    BY <1>1
  <1>3. Past' /\ InOrder' /\ Agreed'
    BY <1>1, <1>2, IdleParts, UntoldStep DEF Calm
  <1>4. Committed'
    BY <1>2, IdleParts, CommittedStep DEF Calm
  <1>5. OneEach' /\ Arrivals'
    BY <1>1, <1>2, IdleSteps DEF Calm
  <1> QED BY <1>3, <1>4, <1>5 DEF Calm

\* The store saves.
LEMMA SaveCalm ==
    ASSUME IInv, Calm, NEW h \in Slots, Save(h)
    PROVE  Calm'
  <1>1. /\ slot' = [slot EXCEPT ![h].phase = "observing"] /\ slot[h].phase = "saving"
        /\ UNCHANGED <<at, rows, track, now, torn>>
        /\ slot \in [Slots -> SlotStates]
    BY DEF Save, IInv, TypeOK
  <1>2. slot[h] \in SlotStates
    BY <1>1
  <1>3. /\ slot'[h].phase = "observing" /\ slot'[h].ts = slot[h].ts /\ slot'[h].at = slot[h].at
        /\ \A g \in Slots : g # h => slot'[g] = slot[g]
    BY <1>1, <1>2 DEF SlotStates
  <1>4. Past' /\ InOrder' /\ Agreed'
    <2>1. \A g \in Slots : slot'[g].at = slot[g].at /\ slot'[g].ts = slot[g].ts
      BY <1>3
    <2> QED BY <1>1, <2>1, UntoldStep DEF Calm
  <1>5. Committed'
    BY <1>3, CommittedStep DEF Calm
  <1>6. OneEach'
    BY <1>1, <1>3 DEF Calm, OneEach
  <1>7. Arrivals'
    BY <1>1, <1>3 DEF Calm, Arrivals
  <1> QED BY <1>4, <1>5, <1>6, <1>7 DEF Calm

\* A handler tells the tracker its transitions.
LEMMA ObserveCalm ==
    ASSUME IInv, Calm, NEW h \in Slots, Observe(h)
    PROVE  Calm'
  <1> DEFINE u(c) == Observed(track[c], slot[h].ts[c], Owner[h], slot[h].at)
  <1>1. /\ slot[h].phase = "observing"
        /\ track' = [c \in Clients |-> u(c)]
        /\ torn' = {c \in torn : track'[c].log = track[c].log \/ slot[h].ts[c] = "radio_change"}
        /\ slot' = [slot EXCEPT ![h] = IdleSlot]
        /\ UNCHANGED <<at, rows, saved, now>>
    BY DEF Observe
  <1>2. /\ slot \in [Slots -> SlotStates] /\ now \in Nat
        /\ \A c \in Clients : TrackOK(track[c])
    BY DEF IInv, TypeOK, TrackOK, HeldWhereCurrent
  <1>3. /\ Owner[h] \in Aps /\ slot[h].ts \in [Clients -> TransitionKinds]
        /\ \A g \in Slots : slot[g].at \in Nat
    BY <1>2, OwnerAssumption DEF SlotStates
  <1>4. slot'[h] = IdleSlot /\ \A g \in Slots : g # h => slot'[g] = slot[g]
    BY <1>1, <1>2
  <1>5. ASSUME NEW c \in Clients
        PROVE  /\ Fresh(track[c], slot[h], c, Owner[h])
               /\ track[c].held # NoHold => ToldBy(track[c].log, track[c].held.at)
               /\ track[c].held # NoHold => track[c].held.at \in Nat
               /\ track[c].held # NoHold => track[c].held.at <= now
               /\ Before(track[c].log, now) /\ slot[h].at <= now
    BY <1>2, TrackParts DEF Calm, InOrder, Agreed, Past
  <1>6. ASSUME NEW c \in Clients
        PROVE  Follows(track[c], track'[c], slot[h].ts[c], Owner[h], slot[h].at)
    <2>1. track'[c] = u(c)
      BY <1>1
    <2>2. slot[h].ts[c] \in TransitionKinds
      BY <1>3
    <2>3. Follows(track[c], u(c), slot[h].ts[c], Owner[h], slot[h].at)
      BY <1>2, <1>3, <1>5, <2>2, ObservedFollows DEF Fresh
    <2> QED BY <2>1, <2>3
  <1> HIDE DEF u
  <1>7. Past'
    <2>1. \A g \in Slots : slot'[g].at <= now
      BY <1>2, <1>4, IdleParts DEF Calm, Past
    <2>2. ASSUME NEW c \in Clients
          PROVE  (track'[c].held # NoHold => track'[c].held.at <= now) /\ Before(track'[c].log, now)
      BY <1>2, <1>5, <1>6 DEF Follows
    <2> QED BY <1>1, <2>1, <2>2 DEF Past
  <1>8. Committed'
    BY <1>4, IdleParts, CommittedStep DEF Calm
  <1>9. OneEach' /\ Arrivals'
    BY <1>1, <1>4, IdleSteps DEF Calm
  <1>10. ASSUME NEW g \in Slots, NEW c \in Clients
         PROVE  Fresh(track'[c], slot'[g], c, Owner[g])
    <2>1. CASE g = h
      BY <1>4, <2>1, IdleParts DEF Fresh
    <2>2. CASE g # h /\ slot[g].ts[c] = "none"
      BY <1>4, <2>2 DEF Fresh
    <2>3. CASE g # h /\ slot[g].ts[c] # "none"
      <3>1. slot'[g] = slot[g]
        BY <1>4, <2>3
      <3>2. Owner[g] # Owner[h]
        BY <1>1, <2>3 DEF Calm, Committed, OneEach
      <3>3. Fresh(track[c], slot[g], c, Owner[g])
        BY DEF Calm, InOrder
      <3>4. CASE slot[h].ts[c] = "connect"
        <4>1. slot[g].ts[c] # "connect"
          BY <3>2, <3>4 DEF Calm, Arrivals
        <4>2. track'[c].cur = Owner[h] /\ track'[c].held = NoHold
          BY <1>6, <3>4 DEF Follows
        <4> QED BY <3>1, <3>2, <4>1, <4>2 DEF Fresh
      <3>5. CASE slot[h].ts[c] # "connect"
        <4>1. ToldBy(track[c].log, slot[g].at) => ToldBy(track'[c].log, slot[g].at)
          BY <1>3, <1>6, <3>5 DEF Follows
        <4>2. track'[c].cur = track[c].cur
          BY <1>6, <3>5 DEF Follows
        <4>3. track'[c].held # NoHold /\ Owner[g] = track'[c].held.ap => track'[c].held = track[c].held
          BY <1>6, <3>2 DEF Follows
        <4> QED BY <3>1, <3>3, <4>1, <4>2, <4>3 DEF Fresh
      <3> QED BY <3>4, <3>5
    <2> QED BY <2>1, <2>2, <2>3
  <1>11. ASSUME NEW c \in Clients
         PROVE  /\ track'[c].held # NoHold => ToldBy(track'[c].log, track'[c].held.at)
                /\ c \notin torn' => Stands(track'[c].log, track'[c].cur)
    <2>1. ASSUME track'[c].held # NoHold PROVE ToldBy(track'[c].log, track'[c].held.at)
      <3>1. slot[h].ts[c] # "connect"
        BY <1>6, <2>1 DEF Follows
      <3>2. \A m \in Nat : ToldBy(track[c].log, m) => ToldBy(track'[c].log, m)
        BY <1>6, <3>1 DEF Follows
      <3>3. CASE track'[c].held = track[c].held
        BY <1>5, <2>1, <3>2, <3>3
      <3>4. CASE track'[c].held # track[c].held
        <4>1. /\ slot[h].ts[c] # "none" /\ track[c].cur = Owner[h]
              /\ track'[c].held = [ap |-> Owner[h], at |-> slot[h].at]
          BY <1>6, <2>1, <3>4 DEF Follows
        <4>2. ToldBy(track[c].log, slot[h].at)
          BY <1>5, <4>1 DEF Fresh
        <4>3. track'[c].held.at = slot[h].at
          BY <4>1
        <4> QED BY <1>3, <3>2, <4>2, <4>3
      <3> QED BY <3>3, <3>4
    <2>2. ASSUME c \notin torn' PROVE Stands(track'[c].log, track'[c].cur)
      <3>1. CASE c \notin torn
        <4>1. Stands(track[c].log, track[c].cur)
          BY <3>1 DEF Calm, Agreed
        <4> QED BY <1>6, <4>1 DEF Follows
      <3>2. CASE c \in torn
        <4>1. track'[c].log # track[c].log /\ slot[h].ts[c] # "radio_change"
          BY <1>1, <2>2, <3>2
        <4> QED BY <1>6, <4>1 DEF Follows
      <3> QED BY <3>1, <3>2
    <2> QED BY <2>1, <2>2
  <1>12. InOrder' /\ Agreed'
    BY <1>10, <1>11 DEF InOrder, Agreed
  <1> QED BY <1>7, <1>8, <1>9, <1>12 DEF Calm

\* The flush tells the held disconnects whose grace is over.
LEMMA FlushCalm ==
    ASSUME IInv, Calm, NEW due \in SUBSET Clients, Flush(due)
    PROVE  Calm'
  <1>1. /\ track' = [c \in Clients |-> IF c \in due THEN Flushed(track[c]) ELSE track[c]]
        /\ torn' = torn \ due /\ UNCHANGED <<at, rows, saved, slot, now>>
        /\ \A c \in due : Lapsed(c)
    BY DEF Flush
  <1>2. /\ slot \in [Slots -> SlotStates] /\ now \in Nat
        /\ \A c \in Clients : TrackOK(track[c])
    BY DEF IInv, TypeOK, TrackOK, HeldWhereCurrent
  <1>3. \A g \in Slots : slot[g].at \in Nat /\ Owner[g] # Nowhere
    BY <1>2, OwnerAssumption, NoneAssumption DEF SlotStates
  <1>4. ASSUME NEW c \in due
        PROVE  /\ track'[c].cur = Nowhere /\ track'[c].held = NoHold
               /\ Stands(track'[c].log, Nowhere)
               /\ track[c].held.at \in Nat
               /\ Before(track'[c].log, now)
               /\ \A m \in Nat : ToldBy(track[c].log, m) /\ track[c].held.at <= m
                                    => ToldBy(track'[c].log, m)
    <2>1. track'[c] = Flushed(track[c]) /\ track[c].held # NoHold
      BY <1>1 DEF Lapsed
    <2>2. ToldBy(track[c].log, track[c].held.at) /\ TrackOK(track[c])
      BY <1>2, <2>1 DEF Calm, Agreed
    <2>3. track[c].held.at \in Nat
      BY <2>1, <2>2, GoneParts
    <2>4. track[c].held.at <= now /\ Before(track[c].log, now)
      BY <2>1 DEF Calm, Past
    <2> QED BY <1>2, <2>1, <2>2, <2>3, <2>4, FlushedFollows
  <1>5. \A c \in Clients : c \notin due => track'[c] = track[c]
    BY <1>1
  <1>6. Past'
    <2>1. ASSUME NEW c \in Clients
          PROVE  (track'[c].held # NoHold => track'[c].held.at <= now) /\ Before(track'[c].log, now)
      <3>1. CASE c \in due
        BY <1>4, <3>1
      <3>2. CASE c \notin due
        BY <1>5, <3>2 DEF Calm, Past
      <3> QED BY <3>1, <3>2
    <2> QED BY <1>1, <2>1 DEF Calm, Past
  <1>7. Committed'
    BY <1>1 DEF Calm, Committed
  <1>8. OneEach' /\ Arrivals'
    BY <1>1 DEF Calm, OneEach, Arrivals
  <1>9. ASSUME NEW g \in Slots, NEW c \in Clients
        PROVE  Fresh(track'[c], slot[g], c, Owner[g])
    <2>1. Fresh(track[c], slot[g], c, Owner[g])
      BY DEF Calm, InOrder
    <2>2. CASE c \notin due
      BY <1>5, <2>1, <2>2
    <2>3. CASE c \in due
      <3>1. slot[g].ts[c] # "none" => slot[g].at > track[c].held.at
        BY <1>1, <2>3 DEF Lapsed
      <3>2. slot[g].ts[c] # "none" => track[c].held.at <= slot[g].at
        BY <1>3, <1>4, <2>3, <3>1
      <3>3. slot[g].ts[c] = "connect" => ToldBy(track'[c].log, slot[g].at)
        BY <1>3, <1>4, <2>1, <2>3, <3>2 DEF Fresh
      <3> QED BY <1>3, <1>4, <2>3, <3>3 DEF Fresh
    <2> QED BY <2>2, <2>3
  <1>10. InOrder'
    BY <1>1, <1>9 DEF InOrder
  <1>11. ASSUME NEW c \in Clients
         PROVE  /\ track'[c].held # NoHold => ToldBy(track'[c].log, track'[c].held.at)
                /\ c \notin torn' => Stands(track'[c].log, track'[c].cur)
    <2>1. CASE c \in due
      BY <1>4, <2>1
    <2>2. CASE c \notin due
      BY <1>1, <1>5, <2>2 DEF Calm, Agreed
    <2> QED BY <2>1, <2>2
  <1>12. Agreed'
    BY <1>11 DEF Agreed
  <1> QED BY <1>6, <1>7, <1>8, <1>10, <1>12 DEF Calm

\* Old events go.
LEMMA CompactCalm ==
    ASSUME IInv, Calm, NEW cutoff \in 1 .. now, Compact(cutoff)
    PROVE  Calm'
  <1> DEFINE old(log) == Cardinality({i \in DOMAIN log : log[i].time < cutoff})
             Kept(log) == SubSeq(log, old(log) + 1, Len(log))
  <1>1. /\ track' = [c \in Clients |-> [track[c] EXCEPT !.log = Kept(@)]]
        /\ torn' = torn \cup {c \in Clients :
                        /\ \E i \in DOMAIN track[c].log : track[c].log[i].key # "roam_radio"
                        /\ ~ \E i \in DOMAIN Kept(track[c].log) :
                                Kept(track[c].log)[i].key # "roam_radio"}
        /\ UNCHANGED <<at, rows, saved, slot, now>>
    BY DEF Compact
  <1>2. /\ slot \in [Slots -> SlotStates] /\ now \in Nat
        /\ \A c \in Clients : TrackOK(track[c])
    BY DEF IInv, TypeOK, TrackOK, HeldWhereCurrent
  <1>3. \A g \in Slots : slot[g].at \in Nat
    BY <1>2 DEF SlotStates
  <1>4. ASSUME NEW c \in Clients
        PROVE  /\ track'[c].cur = track[c].cur /\ track'[c].held = track[c].held
               /\ track[c].held # NoHold => track[c].held.at \in Nat
               /\ Before(track[c].log, now) => Before(track'[c].log, now)
               /\ \A m \in Nat : ToldBy(track[c].log, m) => ToldBy(track'[c].log, m)
               /\ c \notin torn' /\ Stands(track[c].log, track[c].cur)
                     => Stands(track'[c].log, track[c].cur)
    <2> DEFINE log == track[c].log
               l == Kept(log)
    <2>1. track[c] \in Tracks /\ log \in Seq(Events) /\ TrackOK(track[c])
      BY <1>2, TrackParts DEF TrackOK
    <2>2. track[c].held # NoHold => track[c].held.at \in Nat
      BY <2>1, GoneParts
    <2>3. old(log) \in Nat
      <3> HIDE DEF log
      <3>1. Len(log) \in Nat /\ DOMAIN log = 1 .. Len(log)
        BY <2>1, EventTimes
      <3>2. IsFiniteSet(1 .. Len(log))
        BY <3>1, FS_Interval
      <3>3. {i \in DOMAIN log : log[i].time < cutoff} \in SUBSET (1 .. Len(log))
        BY <3>1
      <3>4. IsFiniteSet({i \in DOMAIN log : log[i].time < cutoff})
        BY <3>2, <3>3, FS_Subset
      <3> QED BY <3>4, FS_CardinalityType
    <2>4. /\ \A m \in Nat : Before(log, m) => Before(l, m)
          /\ \A m \in Nat : ToldBy(log, m) => ToldBy(l, m)
          /\ \A ap : Stands(log, ap) /\ (Tells(l) = {} => Tells(log) = {}) => Stands(l, ap)
      <3> HIDE DEF log, old
      <3> QED BY <2>1, <2>3, SuffixTells
    <2>5. c \notin torn' => (Tells(l) = {} => Tells(log) = {})
      BY <1>1 DEF Tells
    <2>6. track'[c] = [track[c] EXCEPT !.log = l]
      BY <1>1
    <2> HIDE DEF l
    <2>7. track'[c].cur = track[c].cur /\ track'[c].held = track[c].held /\ track'[c].log = l
      BY <2>1, <2>6 DEF Tracks
    <2> QED BY <1>2, <2>2, <2>4, <2>5, <2>7
  <1> HIDE DEF old, Kept
  <1>5. Past'
    BY <1>1, <1>4 DEF Calm, Past
  <1>6. Committed' /\ OneEach' /\ Arrivals'
    BY <1>1 DEF Calm, Committed, OneEach, Arrivals
  <1>7. ASSUME NEW g \in Slots, NEW c \in Clients
        PROVE  Fresh(track'[c], slot[g], c, Owner[g])
    <2>1. Fresh(track[c], slot[g], c, Owner[g])
      BY DEF Calm, InOrder
    <2> QED BY <1>3, <1>4, <2>1 DEF Fresh
  <1>8. InOrder'
    BY <1>1, <1>7 DEF InOrder
  <1>9. ASSUME NEW c \in Clients
        PROVE  /\ track'[c].held # NoHold => ToldBy(track'[c].log, track'[c].held.at)
               /\ c \notin torn' => Stands(track'[c].log, track'[c].cur)
    <2>1. /\ track[c].held # NoHold => ToldBy(track[c].log, track[c].held.at)
          /\ c \notin torn => Stands(track[c].log, track[c].cur)
      BY DEF Calm, Agreed
    <2>2. c \notin torn' => c \notin torn
      BY <1>1
    <2> QED BY <1>4, <2>1, <2>2
  <1>10. Agreed'
    BY <1>9 DEF Agreed
  <1> QED BY <1>5, <1>6, <1>8, <1>10 DEF Calm

\* The process dies and comes back: no event tells of any assignment.
LEMMA RestartCalm ==
    ASSUME IInv, Calm, Restart
    PROVE  Calm'
  <1>1. /\ slot' = [h \in Slots |-> IdleSlot] /\ torn' = Clients
        /\ track' = [c \in Clients |-> [cur |-> Seeded(saved, c), held |-> NoHold,
                                        log |-> track[c].log]]
        /\ UNCHANGED <<at, now>>
    BY DEF Restart
  <1>2. \A h \in Slots : slot'[h] = IdleSlot
    BY <1>1
  <1>3. \A c \in Clients : track'[c].held = NoHold /\ track'[c].log = track[c].log
    BY <1>1
  <1>4. now \in Nat
    BY DEF IInv, TypeOK
  <1>5. Past'
    BY <1>1, <1>2, <1>3, <1>4, IdleParts DEF Calm, Past
  <1>6. Committed'
    BY <1>2, IdleParts DEF Committed
  <1>7. OneEach' /\ Arrivals'
    BY <1>1, <1>2, IdleSteps DEF Calm
  <1>8. InOrder'
    BY <1>2, IdleParts DEF InOrder, Fresh
  <1>9. Agreed'
    BY <1>1, <1>3 DEF Agreed
  <1> QED BY <1>5, <1>6, <1>7, <1>8, <1>9 DEF Calm

\* Time passes.
LEMMA TickCalm ==
    ASSUME IInv, Calm, Tick
    PROVE  Calm'
  <1>1. now' = now + 1 /\ UNCHANGED <<at, rows, saved, slot, track, torn>>
    BY DEF Tick
  <1>2. /\ slot \in [Slots -> SlotStates] /\ now \in Nat
        /\ \A c \in Clients : TrackOK(track[c])
    BY DEF IInv, TypeOK, TrackOK, HeldWhereCurrent
  <1>3. \A h \in Slots : slot[h].at \in Nat
    BY <1>2 DEF SlotStates
  <1>4. \A h \in Slots : slot[h].at <= now + 1
    BY <1>2, <1>3 DEF Calm, Past
  <1>5. ASSUME NEW c \in Clients
        PROVE  (track[c].held # NoHold => track[c].held.at <= now + 1) /\ Before(track[c].log, now + 1)
    <2>1. /\ track[c].held # NoHold => track[c].held.at <= now /\ track[c].held.at \in Nat
          /\ \A i \in DOMAIN track[c].log : track[c].log[i].time <= now
          /\ track[c].log \in Seq(Events)
      BY <1>2, GoneParts, TrackParts DEF Calm, Past, Before
    <2>2. \A i \in DOMAIN track[c].log : track[c].log[i].time \in Nat
      BY <2>1, EventTimes
    <2> QED BY <1>2, <2>1, <2>2 DEF Before
  <1>6. Past'
    BY <1>1, <1>4, <1>5 DEF Past
  <1>7. Committed' /\ OneEach' /\ Arrivals' /\ InOrder' /\ Agreed'
    BY <1>1 DEF Calm, Committed, OneEach, Arrivals, InOrder, Agreed
  <1> QED BY <1>6, <1>7 DEF Calm

\* Quiet times were always quiet.
LEMMA QuietBefore ==
    ASSUME IInv, [Next]_vars, Quiet'
    PROVE  /\ Quiet
           /\ \A c \in Clients, place \in Places \cup {Away} : Move(c, place) => Noticed(c)
           /\ \A h \in Slots : Report(h) => ~InFlight(Owner[h])
  <1>1. spent \in [moves : Nat, fast : Nat, losses : Nat, faults : Nat]
    BY DEF IInv, TypeOK
  <1>2. ASSUME NEW c \in Clients, NEW place \in Places \cup {Away}, Move(c, place)
        PROVE  Noticed(c) /\ Quiet
    <2>1. spent' = [spent EXCEPT !.moves = @ + 1, !.fast = IF Noticed(c) THEN @ ELSE @ + 1]
      BY <1>2 DEF Move
    <2>2. CASE Noticed(c)
      <3>1. spent' = [spent EXCEPT !.moves = spent.moves + 1, !.fast = spent.fast]
        BY <2>1, <2>2
      <3>2. spent'.fast = spent.fast /\ spent'.losses = spent.losses
        BY <1>1, <3>1
      <3> QED BY <2>2, <3>2 DEF Quiet
    <2>3. CASE ~Noticed(c)
      <3>1. spent' = [spent EXCEPT !.moves = spent.moves + 1, !.fast = spent.fast + 1]
        BY <2>1, <2>3
      <3>2. spent'.fast = spent.fast + 1 /\ spent.fast \in Nat
        BY <1>1, <3>1
      <3> QED BY <3>2 DEF Quiet
    <2> QED BY <2>2, <2>3
  <1>3. ASSUME NEW h \in Slots, Report(h)
        PROVE  ~InFlight(Owner[h]) /\ Quiet
    <2>1. CASE InFlight(Owner[h])
      <3>1. spent' = [spent EXCEPT !.losses = spent.losses + 1]
        BY <1>3, <2>1 DEF Report
      <3>2. spent'.losses = spent.losses + 1 /\ spent.losses \in Nat
        BY <1>1, <3>1
      <3> QED BY <3>2 DEF Quiet
    <2>2. CASE ~InFlight(Owner[h])
      <3>1. spent' = [spent EXCEPT !.losses = spent.losses]
        BY <1>3, <2>2 DEF Report
      <3>2. spent' = spent
        BY <1>1, <3>1
      <3> QED BY <2>2, <3>2 DEF Quiet
    <2> QED BY <2>1, <2>2
  <1>4. ASSUME spent'.fast = spent.fast, spent'.losses = spent.losses
        PROVE  Quiet
    BY <1>4 DEF Quiet
  <1>5. ASSUME NEW h \in Slots, NEW sweeps \in BOOLEAN, Commit(h, sweeps)
        PROVE  Quiet
    <2>1. spent' = [spent EXCEPT !.faults = IF sweeps THEN @ + 1 ELSE @]
      BY <1>5 DEF Commit
    <2>2. spent'.fast = spent.fast /\ spent'.losses = spent.losses
      BY <1>1, <2>1
    <2> QED BY <1>4, <2>2
  <1>6. ASSUME NEW h \in Slots, CycleFails(h) \/ SaveFails(h) \/ Save(h) \/ Observe(h)
        PROVE  Quiet
    <2>1. spent' = spent \/ spent' = [spent EXCEPT !.faults = @ + 1]
      BY <1>6 DEF CycleFails, SaveFails, Save, Observe
    <2>2. spent'.fast = spent.fast /\ spent'.losses = spent.losses
      BY <1>1, <2>1
    <2> QED BY <1>4, <2>2
  <1>7. ASSUME (\E due \in SUBSET Clients : Flush(due)) \/ (\E cutoff \in 1 .. now : Compact(cutoff))
               \/ Tick \/ Restart
        PROVE  Quiet
    <2>1. spent' = spent \/ spent' = [spent EXCEPT !.faults = @ + 1]
      BY <1>7 DEF Flush, Compact, Tick, Restart
    <2>2. spent'.fast = spent.fast /\ spent'.losses = spent.losses
      BY <1>1, <2>1
    <2> QED BY <1>4, <2>2
  <1>8. ASSUME UNCHANGED vars PROVE Quiet
    BY <1>8 DEF vars, Quiet
  <1>9. Quiet
    BY <1>2, <1>3, <1>5, <1>6, <1>7, <1>8 DEF Next, Handle
  <1> QED BY <1>2, <1>3, <1>9

\* Every step of quiet times keeps the order.
LEMMA NextCalm ==
    ASSUME IInv, Quiet => Calm, [Next]_vars
    PROVE  (Quiet => Calm)'
  <1> SUFFICES ASSUME Quiet' PROVE Calm'
    OBVIOUS
  <1>1. /\ Calm
        /\ \A c \in Clients, place \in Places \cup {Away} : Move(c, place) => Noticed(c)
        /\ \A h \in Slots : Report(h) => ~InFlight(Owner[h])
    BY QuietBefore
  <1>2. ASSUME NEW c \in Clients, NEW place \in Places \cup {Away}, Move(c, place) PROVE Calm'
    BY <1>1, <1>2, MoveCalm
  <1>3. ASSUME NEW h \in Slots, Report(h) PROVE Calm'
    BY <1>1, <1>3, ReportCalm
  <1>4. ASSUME NEW h \in Slots, NEW sweeps \in BOOLEAN, Commit(h, sweeps) PROVE Calm'
    BY <1>1, <1>4, CommitCalm
  <1>5. ASSUME NEW h \in Slots, CycleFails(h) \/ SaveFails(h) PROVE Calm'
    BY <1>1, <1>5, FailureCalm
  <1>6. ASSUME NEW h \in Slots, Save(h) PROVE Calm'
    BY <1>1, <1>6, SaveCalm
  <1>7. ASSUME NEW h \in Slots, Observe(h) PROVE Calm'
    BY <1>1, <1>7, ObserveCalm
  <1>8. ASSUME NEW due \in SUBSET Clients, Flush(due) PROVE Calm'
    BY <1>1, <1>8, FlushCalm
  <1>9. ASSUME NEW cutoff \in 1 .. now, Compact(cutoff) PROVE Calm'
    BY <1>1, <1>9, CompactCalm
  <1>10. CASE Tick
    BY <1>1, <1>10, TickCalm
  <1>11. CASE Restart
    BY <1>1, <1>11, RestartCalm
  <1>12. CASE UNCHANGED vars
    BY <1>1, <1>12 DEF vars, Calm, Past, Committed, OneEach, Arrivals, InOrder, Agreed
  <1> QED BY <1>2, <1>3, <1>4, <1>5, <1>6, <1>7, <1>8, <1>9, <1>10, <1>11, <1>12
          DEF Next, Handle

\* At the start nothing is on its way and nothing is told.
LEMMA InitCalm == Init => Calm
  <1> SUFFICES ASSUME Init PROVE Calm
    OBVIOUS
  <1>1. /\ \A h \in Slots : slot[h] = IdleSlot
        /\ \A c \in Clients : /\ track[c].cur = Nowhere /\ track[c].held = NoHold
                              /\ track[c].log = << >>
        /\ now = 0
    BY DEF Init
  <1>2. Past /\ Committed /\ OneEach /\ Arrivals /\ InOrder
    BY <1>1, IdleParts DEF Past, Before, Committed, OneEach, Arrivals, InOrder, Fresh
  <1>3. Stands(<< >>, Nowhere)
    BY DEF Stands, Tells
  <1>4. Agreed
    BY <1>1, <1>3 DEF Agreed
  <1> QED BY <1>2, <1>4 DEF Calm

-----------------------------------------------------------------------------
(* The assignment history                                                   *)

\* The interval under way closes; a step of FoldHistory.
CloseLast(out, time) ==
    IF out = << >> THEN out
    ELSE [out EXCEPT ![Len(out)].to = IF @ = -1 THEN time ELSE @]

FoldStep(out, e) ==
    CASE e.key \in {"connected", "roam"} ->
            Append(CloseLast(out, e.time), [ap |-> e.ap, from |-> e.time, to |-> -1])
      [] e.key = "disconnected" -> CloseLast(out, e.time)
      [] OTHER -> out

Intervals == [ap : Aps, from : Nat, to : Nat \cup {-1}]

\* The access point of the interval under way.
Open(out) ==
    IF out = << >> THEN Nowhere
    ELSE IF out[Len(out)].to = -1 THEN out[Len(out)].ap ELSE Nowhere

\* After closing no interval is under way.
LEMMA ClosedOpen ==
    ASSUME NEW out \in Seq(Intervals), NEW time \in Nat
    PROVE  CloseLast(out, time) \in Seq(Intervals) /\ Open(CloseLast(out, time)) = Nowhere
  <1>1. CASE out = << >>
    BY <1>1 DEF CloseLast, Open
  <1>2. CASE out # << >>
    <2> DEFINE n == Len(out)
               last == out[n]
               to == IF last.to = -1 THEN time ELSE last.to
               r == [ap |-> last.ap, from |-> last.from, to |-> to]
    <2>1. n \in Nat /\ n \in 1 .. n /\ DOMAIN out = 1 .. n /\ last \in Intervals
      BY <1>2
    <2>2. to \in Nat /\ r \in Intervals
      BY <2>1 DEF Intervals
    <2>3. [last EXCEPT !.to = to] = r
      BY <2>1 DEF Intervals
    <2>4. CloseLast(out, time) = [out EXCEPT ![n] = [last EXCEPT !.to = to]]
      BY <1>2 DEF CloseLast
    <2>5. r.to = to
      OBVIOUS
    <2> HIDE DEF n, last, to, r
    <2>6. CloseLast(out, time) = [out EXCEPT ![n] = r]
      BY <2>3, <2>4
    <2> DEFINE c == [out EXCEPT ![n] = r]
    <2>7. c \in Seq(Intervals) /\ Len(c) = n /\ c[n] = r
      BY <2>1, <2>2 DEF n
    <2> HIDE DEF c
    <2>8. c # << >>
      BY <2>1, <2>7
    <2>9. Open(c) = Nowhere
      BY <2>2, <2>5, <2>7, <2>8 DEF Open
    <2> QED BY <2>6, <2>7, <2>9 DEF c
  <1> QED BY <1>1, <1>2

\* An event that tells where the client is opens or closes an interval accordingly.
LEMMA FoldStepOpen ==
    ASSUME NEW out \in Seq(Intervals), NEW e \in Events
    PROVE  /\ FoldStep(out, e) \in Seq(Intervals)
           /\ e.key = "roam_radio" => FoldStep(out, e) = out
           /\ e.key # "roam_radio" => Shows(e, Open(FoldStep(out, e)))
  <1> DEFINE c == CloseLast(out, e.time)
             r == [ap |-> e.ap, from |-> e.time, to |-> -1]
  <1>1. /\ e.time \in Nat /\ e.ap \in Aps
        /\ e.key \in {"connected", "disconnected", "roam", "roam_radio"}
    BY DEF Events
  <1>2. c \in Seq(Intervals) /\ Open(c) = Nowhere
    BY <1>1, ClosedOpen
  <1>3. r \in Intervals /\ r.to = -1 /\ r.ap = e.ap
    BY <1>1 DEF Intervals
  <1>4. CASE e.key \in {"connected", "roam"}
    <2>1. FoldStep(out, e) = Append(c, r)
      BY <1>4 DEF FoldStep
    <2> HIDE DEF c, r
    <2> DEFINE a == Append(c, r)
    <2>2. a \in Seq(Intervals) /\ Len(a) = Len(c) + 1 /\ a[Len(c) + 1] = r /\ Len(c) \in Nat
      BY <1>2, <1>3
    <2> HIDE DEF a
    <2>3. a # << >>
      BY <2>2
    <2>4. Open(a) = e.ap
      BY <1>3, <2>2, <2>3 DEF Open
    <2>5. Shows(e, Open(a))
      BY <1>4, <2>4 DEF Shows
    <2> QED BY <1>4, <2>1, <2>2, <2>5 DEF a
  <1>5. CASE e.key = "disconnected"
    <2>1. FoldStep(out, e) = c
      BY <1>5 DEF FoldStep
    <2> HIDE DEF c
    <2> QED BY <1>2, <1>5, <2>1 DEF Shows
  <1>6. CASE e.key = "roam_radio"
    BY <1>6 DEF FoldStep
  <1> QED BY <1>1, <1>4, <1>5, <1>6

\* Positions have a greatest one.
LEMMA MaxOf ==
    ASSUME NEW n \in Nat, NEW s \in SUBSET (1 .. n), s # {}
    PROVE  Max(s) \in s /\ \A y \in s : y <= Max(s)
  <1> DEFINE T == {n - x : x \in s}
  <1>1. T \in SUBSET Nat /\ T # {}
    OBVIOUS
  <1>2. PICK m \in T : \A y \in T : m <= y
    BY <1>1, LeastOf
  <1>3. PICK x \in s : m = n - x
    BY <1>2
  <1>4. \A y \in s : n - x <= n - y
    BY <1>2, <1>3
  <1>5. \A y \in s : x >= y
    BY <1>4
  <1>6. \E z \in s : \A y \in s : z >= y
    BY <1>5
  <1> HIDE DEF T
  <1>7. Max(s) \in s /\ \A y \in s : Max(s) >= y
    BY <1>6 DEF Max
  <1> QED BY <1>7

\* What FoldLeft computes over the positions in s, from those over fewer positions.
Folded(log, f, s) ==
    IF s = {} THEN << >> ELSE FoldStep(f[s \ {Max(s)}], log[Max(s)])

FoldsUnto(log, f, n) == f = [s \in SUBSET (1 .. n) |-> Folded(log, f, s)]

\* FoldHistory is the fold over all positions.
LEMMA HistoryFolds ==
    ASSUME NEW log \in Seq(Events)
    PROVE  FoldHistory(log) = (CHOOSE f : FoldsUnto(log, f, Len(log)))[1 .. Len(log)]
  <1>1. FoldHistory(log) = (CHOOSE f : f = [s \in SUBSET DOMAIN log |->
              IF s = {} THEN << >> ELSE FoldStep(f[s \ {Max(s)}], log[Max(s)])])[DOMAIN log]
    BY DEF FoldHistory, FoldLeft, MapThenFoldSet, FoldStep, CloseLast
  <1>2. DOMAIN log = 1 .. Len(log)
    OBVIOUS
  <1> QED BY <1>1, <1>2 DEF FoldsUnto, Folded

\* There is such a fold.
LEMMA FoldExists ==
    ASSUME NEW log, NEW n \in Nat
    PROVE  \E f : FoldsUnto(log, f, n)
  <1> DEFINE T == {m \in Nat : ~ \E f : FoldsUnto(log, f, m)}
  <1>1. SUFFICES ASSUME T # {} PROVE FALSE
    OBVIOUS
  <1>2. PICK m \in T : \A y \in T : m <= y
    BY <1>1, LeastOf
  <1>3. m # 0
    <2> DEFINE f == [s \in SUBSET (1 .. 0) |-> << >>]
    <2>1. SUBSET (1 .. 0) = {{}}
      OBVIOUS
    <2>2. \A s \in SUBSET (1 .. 0) : << >> = Folded(log, f, s)
      BY <2>1 DEF Folded
    <2>3. f = [s \in SUBSET (1 .. 0) |-> Folded(log, f, s)]
      BY <2>2
    <2>4. FoldsUnto(log, f, 0)
      BY <2>3 DEF FoldsUnto
    <2> QED BY <1>2, <2>4
  <1>4. m \in Nat /\ m - 1 \in Nat /\ m - 1 \notin T
    BY <1>2, <1>3
  <1>5. PICK f : FoldsUnto(log, f, m - 1)
    BY <1>4
  <1> DEFINE g == [s \in SUBSET (1 .. m) |-> Folded(log, f, s)]
  <1> HIDE DEF T
  <1>6. ASSUME NEW t \in SUBSET (1 .. m - 1) PROVE g[t] = f[t]
    <2>1. f[t] = Folded(log, f, t)
      BY <1>5 DEF FoldsUnto
    <2>2. t \in SUBSET (1 .. m)
      BY <1>4
    <2> QED BY <2>1, <2>2
  <1>7. ASSUME NEW s \in SUBSET (1 .. m) PROVE Folded(log, f, s) = Folded(log, g, s)
    <2>1. CASE s = {}
      BY <2>1 DEF Folded
    <2>2. CASE s # {}
      <3>1. Max(s) \in s /\ \A y \in s : y <= Max(s)
        BY <1>4, <2>2, MaxOf
      <3>2. s \ {Max(s)} \in SUBSET (1 .. m - 1)
        <4>1. ASSUME NEW y \in s, y # Max(s) PROVE y \in 1 .. m - 1
          <5>1. y \in 1 .. m /\ Max(s) \in 1 .. m /\ y <= Max(s)
            BY <3>1
          <5> QED BY <1>4, <4>1, <5>1
        <4> QED BY <4>1
      <3>3. g[s \ {Max(s)}] = f[s \ {Max(s)}]
        BY <1>6, <3>2
      <3> HIDE DEF g
      <3> QED BY <3>3 DEF Folded
    <2> QED BY <2>1, <2>2
  <1>8. g = [s \in SUBSET (1 .. m) |-> Folded(log, g, s)]
    <2>1. g = [s \in SUBSET (1 .. m) |-> Folded(log, f, s)]
      OBVIOUS
    <2> HIDE DEF g
    <2> QED BY <1>7, <2>1
  <1>9. FoldsUnto(log, g, m)
    <2> HIDE DEF g
    <2> QED BY <1>8 DEF FoldsUnto
  <1>10. m \notin T
    BY <1>4, <1>9 DEF T
  <1> QED BY <1>2, <1>10

\* What the first k events of a log say: the interval under way in out is that of
\* the last of them that tells anything.
Says(log, k, out) ==
    /\ out \in Seq(Intervals)
    /\ \/ /\ \A i \in Tells(log) : i > k
          /\ Open(out) = Nowhere
       \/ \E i \in Tells(log) :
             /\ i <= k /\ Shows(log[i], Open(out))
             /\ \A j \in Tells(log) : j <= k => j <= i

\* The history of a log says where the client is.
LEMMA HistorySays ==
    ASSUME NEW log \in Seq(Events)
    PROVE  Says(log, Len(log), FoldHistory(log))
  <1> DEFINE n == Len(log)
             f == CHOOSE g : FoldsUnto(log, g, n)
             T == {k \in Nat : k <= n /\ ~Says(log, k, f[1 .. k])}
  <1>1. n \in Nat /\ DOMAIN log = 1 .. n /\ \A i \in 1 .. n : log[i] \in Events
    BY EventTimes
  <1>2. FoldsUnto(log, f, n)
    BY <1>1, FoldExists
  <1>3. FoldHistory(log) = f[1 .. n]
    BY HistoryFolds
  <1> HIDE DEF f, n
  <1>4. ASSUME NEW k \in 0 .. n PROVE f[1 .. k] = Folded(log, f, 1 .. k)
    <2>1. (1 .. k) \in SUBSET (1 .. n)
      BY <1>1
    <2> QED BY <1>2, <2>1 DEF FoldsUnto
  <1>5. Says(log, 0, f[1 .. 0])
    <2>1. f[1 .. 0] = << >>
      <3>1. 0 \in 0 .. n /\ 1 .. 0 = {}
        BY <1>1
      <3>2. f[1 .. 0] = Folded(log, f, 1 .. 0)
        BY <1>4, <3>1
      <3> QED BY <3>1, <3>2 DEF Folded
    <2>2. << >> \in Seq(Intervals) /\ Open(<< >>) = Nowhere
      BY DEF Open
    <2>3. \A i \in Tells(log) : i > 0
      BY <1>1 DEF Tells
    <2> QED BY <2>1, <2>2, <2>3 DEF Says
  <1>6. ASSUME NEW k \in Nat, k + 1 <= n, Says(log, k, f[1 .. k])
        PROVE  Says(log, k + 1, f[1 .. k + 1])
    <2> DEFINE out == f[1 .. k]
               e == log[k + 1]
               s == 1 .. k + 1
    <2>1. k + 1 \in 1 .. n /\ k + 1 \in 0 .. n /\ e \in Events
      BY <1>1, <1>6
    <2>2. Max(s) = k + 1
      <3>1. k + 1 \in Nat /\ s \in SUBSET (1 .. k + 1) /\ k + 1 \in s
        OBVIOUS
      <3>2. Max(s) \in s /\ \A y \in s : y <= Max(s)
        BY <3>1, MaxOf
      <3>3. k + 1 <= Max(s) /\ Max(s) \in 1 .. k + 1
        BY <3>1, <3>2
      <3> HIDE DEF s
      <3> QED BY <3>3
    <2>3. s \ {k + 1} = 1 .. k /\ s # {}
      <3>1. \A x : x \in s \ {k + 1} <=> x \in 1 .. k
        OBVIOUS
      <3>2. k + 1 \in s
        OBVIOUS
      <3> QED BY <3>1, <3>2
    <2>4. f[s] = Folded(log, f, s)
      BY <1>4, <2>1
    <2> HIDE DEF s
    <2>5. f[s] = FoldStep(f[1 .. k], e)
      BY <2>2, <2>3, <2>4 DEF Folded
    <2>6. f[s] = FoldStep(out, e)
      BY <2>5
    <2>7. /\ out \in Seq(Intervals)
          /\ \/ (\A i \in Tells(log) : i > k) /\ Open(out) = Nowhere
             \/ \E i \in Tells(log) :
                   /\ i <= k /\ Shows(log[i], Open(out))
                   /\ \A j \in Tells(log) : j <= k => j <= i
      BY <1>6 DEF Says
    <2> DEFINE res == FoldStep(out, e)
    <2>8. /\ res \in Seq(Intervals)
          /\ e.key = "roam_radio" => res = out
          /\ e.key # "roam_radio" => Shows(e, Open(res))
      BY <2>1, <2>7, FoldStepOpen
    <2>9. \A j \in Tells(log) : j \in Nat /\ (j <= k + 1 <=> j <= k \/ j = k + 1)
      BY <1>1 DEF Tells
    <2>10. k + 1 \in Tells(log) <=> e.key # "roam_radio"
      BY <1>1, <2>1 DEF Tells
    <2> HIDE DEF out, e, res
    <2>11. CASE e.key = "roam_radio"
      <3>1. \A j \in Tells(log) : (j <= k + 1 <=> j <= k) /\ (j > k => j > k + 1)
        BY <2>9, <2>10, <2>11
      <3> QED BY <2>6, <2>7, <2>8, <2>9, <2>11, <3>1 DEF Says, s, res
    <2>12. CASE e.key # "roam_radio"
      <3>1. k + 1 \in Tells(log) /\ k + 1 <= k + 1 /\ Shows(log[k + 1], Open(res))
        BY <2>8, <2>10, <2>12 DEF e
      <3>2. Says(log, k + 1, res)
        BY <2>8, <3>1 DEF Says
      <3> QED BY <2>6, <3>2 DEF s, res
    <2> QED BY <2>11, <2>12
  <1>7. T = {}
    <2> SUFFICES ASSUME T # {} PROVE FALSE
      OBVIOUS
    <2>1. T \in SUBSET Nat
      OBVIOUS
    <2>2. PICK m \in T : \A y \in T : m <= y
      BY <2>1, LeastOf
    <2>3. m \in Nat /\ m <= n /\ ~Says(log, m, f[1 .. m])
      BY <2>2
    <2>4. m # 0
      BY <1>5, <2>3
    <2> DEFINE k == m - 1
    <2>5. k \in Nat /\ k + 1 = m /\ k <= n /\ ~(m <= k)
      BY <1>1, <2>3, <2>4
    <2>6. k \notin T
      BY <2>2, <2>5
    <2> HIDE DEF k
    <2>7. Says(log, k, f[1 .. k])
      BY <2>5, <2>6
    <2> HIDE DEF T
    <2>8. Says(log, k + 1, f[1 .. k + 1])
      BY <1>6, <2>3, <2>5, <2>7
    <2> QED BY <2>3, <2>5, <2>8
  <1>8. n <= n
    BY <1>1
  <1>9. Says(log, n, f[1 .. n])
    BY <1>1, <1>7, <1>8
  <1> QED BY <1>3, <1>9 DEF n

\* A client is assigned where its last telling event says that it is.
LEMMA AssignedStands ==
    ASSUME NEW log \in Seq(Events), NEW ap, Stands(log, ap)
    PROVE  Assigned(log) = ap
  <1> DEFINE out == FoldHistory(log)
  <1>1. Assigned(log) = Open(out)
    BY DEF Assigned, Open
  <1>2. Says(log, Len(log), out)
    BY HistorySays
  <1> HIDE DEF out
  <1>3. \A i \in Tells(log) : i \in Nat /\ i <= Len(log) /\ ~(i > Len(log))
    BY EventTimes DEF Tells
  <1>4. CASE Tells(log) = {}
    BY <1>1, <1>2, <1>4 DEF Says, Stands
  <1>5. CASE Tells(log) # {}
    <2>1. PICK i \in Tells(log) : /\ Shows(log[i], Open(out))
                                 /\ \A j \in Tells(log) : j <= i
      BY <1>2, <1>3, <1>5 DEF Says
    <2>2. Shows(log[i], ap)
      BY <2>1 DEF Stands
    <2> QED BY <1>1, <2>1, <2>2 DEF Shows
  <1> QED BY <1>4, <1>5

-----------------------------------------------------------------------------
(* The theorems                                                             *)

\* Rows, handlers and tracker keep their types.
THEOREM TypeCorrect == Spec => []TypeOK
  <1>1. IInv => TypeOK
    BY DEF IInv
  <1> QED BY <1>1, LogInvariant, PTL

\* A held disconnect is about the access point the client is recorded on, for
\* any number of access points and in whatever order their transitions reach the
\* tracker (Tracker.connect, disconnect, Flush).
THEOREM HeldWhereCurrentHolds == Spec => []HeldWhereCurrent
  <1>1. IInv => HeldWhereCurrent
    BY DEF IInv
  <1> QED BY <1>1, LogInvariant, PTL

\* The events of a client stay ordered by time although a flushed disconnect is
\* emitted with the time it was seen, so that the binary searches of Emit and
\* pruneLocked find what they look for.
THEOREM EventsOrdered == Spec => [](\A c \in Clients : Ordered(track[c].log))
  <1>1. IInv => \A c \in Clients : Ordered(track[c].log)
    BY DEF IInv
  <1> QED BY <1>1, LogInvariant, PTL

\* While clients are noticed and access points wait for their answers, the ongoing
\* interval of the assignment history is the access point the tracker has, although
\* transitions of several access points reach it in any order, a held disconnect is
\* told late and at its own time, handlers fail, the process restarts and the file
\* is compacted (Tracker.Observe, Flush, FileSink.Emit, FoldHistory, Compact).
THEOREM HistoryAgreesHolds == Spec => []HistoryAgrees
  <1>1. Init => (Quiet => Calm)
    BY InitCalm
  <1>2. Spec => [](Quiet => Calm)
    <2>1. IInv /\ (Quiet => Calm) /\ [Next]_vars => (Quiet => Calm)'
      BY NextCalm
    <2> QED BY <1>1, <2>1, LogInvariant, PTL DEF Spec
  <1>3. IInv /\ (Quiet => Calm) => HistoryAgrees
    <2> SUFFICES ASSUME IInv, Quiet, Calm, NEW c \in Clients \ torn
                 PROVE  Assigned(track[c].log) = track[c].cur
      BY DEF HistoryAgrees, Quiet
    <2>1. track[c].log \in Seq(Events)
      BY DEF IInv, TypeOK, Tracks
    <2>2. Stands(track[c].log, track[c].cur)
      BY DEF Calm, Agreed
    <2> QED BY <2>1, <2>2, AssignedStands
  <1> QED BY <1>2, <1>3, LogInvariant, PTL
=============================================================================
