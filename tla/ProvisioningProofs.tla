------------------------- MODULE ProvisioningProofs -------------------------
(***************************************************************************)
(* Theorems about Provisioning and the rendered configuration.             *)
(***************************************************************************)
EXTENDS Provisioning, SequenceTheorems, FiniteSetTheorems, TLAPS

\* below is a strict total order on S.
StrictTotal(S, below) ==
    /\ \A x \in S : <<x, x>> \notin below
    /\ \A x, y, z \in S : <<x, y>> \in below /\ <<y, z>> \in below => <<x, z>> \in below
    /\ \A x, y \in S : x # y => <<x, y>> \in below \/ <<y, x>> \in below

Below(S, below, x) == {y \in S : <<y, x>> \in below}

\* Fewer members are below a lower one.
LEMMA RanksRise ==
    ASSUME NEW S, IsFiniteSet(S), NEW below, StrictTotal(S, below),
           NEW x \in S, NEW y \in S, <<x, y>> \in below
    PROVE  Cardinality(Below(S, below, x)) < Cardinality(Below(S, below, y))
  <1> DEFINE a == Below(S, below, x)
             b == Below(S, below, y)
  <1>1. a \in SUBSET S /\ b \in SUBSET S /\ x \notin a /\ a \cup {x} \in SUBSET b
    BY DEF Below, StrictTotal
  <1> HIDE DEF a, b
  <1>2. IsFiniteSet(a) /\ IsFiniteSet(b)
    BY <1>1, FS_Subset
  <1>3. Cardinality(a \cup {x}) = Cardinality(a) + 1
    BY <1>1, <1>2, FS_AddElement
  <1>4. Cardinality(a \cup {x}) <= Cardinality(b)
    BY <1>1, <1>2, FS_Subset
  <1>5. Cardinality(a) \in Nat /\ Cardinality(b) \in Nat
    BY <1>2, FS_CardinalityType
  <1>6. Cardinality(a) < Cardinality(b)
    BY <1>3, <1>4, <1>5
  <1> QED BY <1>6 DEF a, b

\* The order lists every member once.
LEMMA InOrderListsAll ==
    ASSUME NEW S, IsFiniteSet(S), NEW below, StrictTotal(S, below)
    PROVE  /\ Cardinality(S) \in Nat
           /\ InOrder(S, below) \in [1 .. Cardinality(S) -> S]
           /\ \A i, j \in 1 .. Cardinality(S) :
                 InOrder(S, below)[i] = InOrder(S, below)[j] => i = j
  <1> DEFINE n == Cardinality(S)
             rank == [x \in S |-> Cardinality(Below(S, below, x))]
  <1>1. n \in Nat
    BY FS_CardinalityType
  <1>2. IsFiniteSet(0 .. n - 1) /\ Cardinality(0 .. n - 1) = n
    BY <1>1, FS_Interval
  <1>3. ASSUME NEW x \in S PROVE Cardinality(Below(S, below, x)) \in 0 .. n - 1
    <2>1. Below(S, below, x) \in SUBSET (S \ {x})
      BY DEF Below, StrictTotal
    <2>2. IsFiniteSet(S \ {x}) /\ Cardinality(S \ {x}) = n - 1
      BY FS_RemoveElement
    <2>3. IsFiniteSet(Below(S, below, x)) /\ Cardinality(Below(S, below, x)) <= n - 1
      BY <2>1, <2>2, FS_Subset
    <2>4. Cardinality(Below(S, below, x)) \in Nat
      BY <2>3, FS_CardinalityType
    <2> HIDE DEF n
    <2> QED BY <1>1, <2>3, <2>4
  <1>4. rank \in [S -> 0 .. n - 1]
    BY <1>3
  <1>5. ASSUME NEW x \in S, NEW y \in S, rank[x] = rank[y] PROVE x = y
    <2>1. SUFFICES ASSUME x # y PROVE FALSE
      OBVIOUS
    <2>2. /\ Cardinality(Below(S, below, x)) \in Nat
          /\ Cardinality(Below(S, below, y)) \in Nat
          /\ Cardinality(Below(S, below, x)) = Cardinality(Below(S, below, y))
      BY <1>1, <1>3, <1>5
    <2>3. <<x, y>> \in below \/ <<y, x>> \in below
      BY <2>1 DEF StrictTotal
    <2>4. CASE <<x, y>> \in below
      BY <2>2, <2>4, RanksRise
    <2>5. CASE <<y, x>> \in below
      BY <2>2, <2>5, RanksRise
    <2> QED BY <2>3, <2>4, <2>5
  <1>6. rank \in Injection(S, 0 .. n - 1)
    BY <1>4, <1>5 DEF Injection, IsInjective
  <1>7. rank \in Surjection(S, 0 .. n - 1)
    BY <1>2, <1>6, FS_Injection
  <1>8. ASSUME NEW k \in 1 .. n
        PROVE  /\ InOrder(S, below)[k] \in S
               /\ Cardinality(Below(S, below, InOrder(S, below)[k])) = k - 1
    <2>1. k - 1 \in 0 .. n - 1
      BY <1>1
    <2>2. PICK x \in S : rank[x] = k - 1
      BY <1>7, <2>1 DEF Surjection
    <2>3. InOrder(S, below)[k] = CHOOSE z \in S : Cardinality(Below(S, below, z)) = k - 1
      BY DEF InOrder, Below
    <2>4. \E z \in S : Cardinality(Below(S, below, z)) = k - 1
      BY <2>2
    <2> DEFINE R(z) == Cardinality(Below(S, below, z)) = k - 1
               c == CHOOSE z \in S : R(z)
    <2>5. \E z \in S : R(z)
      BY <2>4
    <2>6. InOrder(S, below)[k] = c
      BY <2>3
    <2>7. c \in S /\ R(c)
      <3> HIDE DEF R
      <3> QED BY <2>5
    <2> HIDE DEF c
    <2>8. c \in S /\ Cardinality(Below(S, below, c)) = k - 1
      BY <2>7
    <2> HIDE DEF n, rank, R
    <2> QED BY <2>6, <2>8, Zenon
  <1>9. InOrder(S, below) \in [1 .. n -> S]
    <2> DEFINE g(k) == CHOOSE x \in S : Cardinality({y \in S : <<y, x>> \in below}) = k - 1
    <2>1. InOrder(S, below) = [k \in 1 .. n |-> g(k)]
      BY DEF InOrder
    <2> HIDE DEF g, n
    <2> QED BY <1>8, <2>1
  <1>10. ASSUME NEW i \in 1 .. n, NEW j \in 1 .. n, InOrder(S, below)[i] = InOrder(S, below)[j]
         PROVE  i = j
    <2>1. i - 1 = j - 1
      BY <1>8, <1>10
    <2> QED BY <1>1, <2>1
  <1> QED BY <1>1, <1>9, <1>10

-----------------------------------------------------------------------------
(* Types                                                                    *)

Knobs == {"name", "site", "led", "brightness", "color", "password", "country", "keys"}

\* WLAN lists that passed the validators.
Lists == {wls \in Seq(Wlans) : ValidWlans(wls)}

KnobsOK(knobs) ==
    /\ DOMAIN knobs = Knobs
    /\ knobs.led \in {"", "on", "off"}
    /\ knobs.brightness = Unset \/ knobs.brightness \in 0 .. 99
    /\ knobs.country \in 0 .. 999

ReportOK(report) == DOMAIN report = ReportFields /\ Report(report)

RecOK(r) ==
    /\ r = [knobs |-> r.knobs, intents |-> r.intents, wlans |-> r.wlans,
            report |-> r.report, cache |-> r.cache, version |-> r.version,
            applied |-> r.applied, pending |-> r.pending]
    /\ KnobsOK(r.knobs)
    /\ \A n \in DOMAIN r.intents : r.intents[n] # NoIntent
    /\ r.wlans \in Lists
    /\ ReportOK(r.report)
    /\ r.version \in Nat

\* What a device was provisioned with.
ConfigOK(c) == c.wlans \in Lists /\ ReportOK(c.report)

\* The versions and the counters.
Bounds ==
    /\ dev.version \in Nat /\ 1 <= dev.version /\ dev.version <= rec.version
    /\ beat \in {0, 1} /\ unheard \in BOOLEAN
    /\ salts \in Nat /\ ops \in 0 .. MaxOps /\ faults \in 0 .. MaxFaults

TInv ==
    /\ RecOK(rec)
    /\ dev.config # NoConfig => ConfigOK(dev.config)
    /\ Bounds

\* A list whose ids are filled in has the type of a list.
LEMMA NormalizedType ==
    ASSUME NEW wls \in Seq(Wlans)
    PROVE  Normalized(wls) \in Seq(Wlans)
  <1>1. \A w \in Wlans : [w EXCEPT !.id = NewWlanID(w)] \in Wlans
    <2> SUFFICES ASSUME NEW w \in Wlans PROVE [w EXCEPT !.id = NewWlanID(w)] \in Wlans
      OBVIOUS
    <2>1. NewWlanID(w) \in {NoId} \cup (STRING \X STRING)
      <3>1. w.id \in {NoId} \cup (STRING \X STRING) /\ <<w.name, w.ssid>> \in STRING \X STRING
        BY DEF Wlans
      <3> QED BY <3>1 DEF NewWlanID
    <2> HIDE DEF NewWlanID
    <2> QED BY <2>1 DEF Wlans
  <1>2. \A i \in DOMAIN wls : wls[i] \in Wlans
    OBVIOUS
  <1>3. Len(wls) \in Nat /\ DOMAIN wls = 1 .. Len(wls)
    OBVIOUS
  <1>4. Normalized(wls) \in [1 .. Len(wls) -> Wlans]
    BY <1>1, <1>2, <1>3 DEF Normalized
  <1> QED BY <1>3, <1>4

\* The sequences the edits of one WLAN persist.
LEMMA EditedType ==
    ASSUME NEW wls \in Seq(Wlans), NEW w \in Wlans, NEW i \in DOMAIN wls
    PROVE  /\ Append(wls, w) \in Seq(Wlans)
           /\ [wls EXCEPT ![i] = [w EXCEPT !.id = wls[i].id]] \in Seq(Wlans)
           /\ RemoveAt(wls, i) \in Seq(Wlans)
  <1>1. Append(wls, w) \in Seq(Wlans)
    OBVIOUS
  <1>2. [w EXCEPT !.id = wls[i].id] \in Wlans
    <2>1. wls[i] \in Wlans
      OBVIOUS
    <2>2. wls[i].id \in {NoId} \cup (STRING \X STRING)
      BY <2>1 DEF Wlans
    <2> QED BY <2>2 DEF Wlans
  <1>3. [wls EXCEPT ![i] = [w EXCEPT !.id = wls[i].id]] \in Seq(Wlans)
    BY <1>2, ExceptSeq
  <1>4. RemoveAt(wls, i) \in Seq(Wlans)
    <2>1. Len(wls) \in Nat /\ i \in 1 .. Len(wls) /\ \A j \in 1 .. Len(wls) : wls[j] \in Wlans
      OBVIOUS
    <2>2. SubSeq(wls, 1, i - 1) \in Seq(Wlans) /\ SubSeq(wls, i + 1, Len(wls)) \in Seq(Wlans)
      BY <2>1, SubSeqProperties
    <2> QED BY <2>2 DEF RemoveAt
  <1> QED BY <1>1, <1>3, <1>4

\* What an inform reports completes what was known.
LEMMA AbsorbType ==
    ASSUME NEW report, ReportOK(report), NEW in \in Informs
    PROVE  ReportOK(Absorb(report, in))
BY ReportAssumption DEF ReportOK, Report, Absorb, ReportFields

\* A patch leaves canonical knobs.
LEMMA PatchType ==
    ASSUME NEW knobs, KnobsOK(knobs), NEW p \in Patches, ValidPatch(p)
    PROVE  KnobsOK([k \in DOMAIN knobs |->
                       IF k \in DOMAIN p THEN Stored(k, p[k]) ELSE knobs[k]])
  <1> DEFINE new == [k \in DOMAIN knobs |->
                       IF k \in DOMAIN p THEN Stored(k, p[k]) ELSE knobs[k]]
  <1>1. DOMAIN knobs = Knobs
    BY DEF KnobsOK
  <1>2. DOMAIN new = Knobs
    BY <1>1
  <1>3. /\ "led" \in DOMAIN p => p["led"] \in {"default", "on", "off"}
        /\ "brightness" \in DOMAIN p => p["brightness"] \in 0 .. 100
        /\ "country" \in DOMAIN p => p["country"] \in 0 .. 999
    BY DEF ValidPatch
  <1>4. /\ new["led"] = IF "led" \in DOMAIN p THEN Stored("led", p["led"]) ELSE knobs["led"]
        /\ new["brightness"] = IF "brightness" \in DOMAIN p
                               THEN Stored("brightness", p["brightness"]) ELSE knobs["brightness"]
        /\ new["country"] = IF "country" \in DOMAIN p
                            THEN Stored("country", p["country"]) ELSE knobs["country"]
    BY <1>1 DEF Knobs
  <1> HIDE DEF new
  <1>5. new["led"] \in {"", "on", "off"}
    <2>1. \A v \in {"default", "on", "off"} : Stored("led", v) \in {"", "on", "off"}
      BY DEF Stored
    <2>2. knobs["led"] \in {"", "on", "off"}
      BY DEF KnobsOK
    <2>3. CASE "led" \in DOMAIN p
      <3>1. new["led"] = Stored("led", p["led"])
        BY <1>4, <2>3
      <3> QED BY <1>3, <2>1, <2>3, <3>1
    <2>4. CASE "led" \notin DOMAIN p
      BY <1>4, <2>2, <2>4
    <2> QED BY <2>3, <2>4
  <1>6. new["brightness"] = Unset \/ new["brightness"] \in 0 .. 99
    <2>1. \A v \in 0 .. 100 : Stored("brightness", v) = Unset \/ Stored("brightness", v) \in 0 .. 99
      BY DEF Stored
    <2>2. knobs["brightness"] = Unset \/ knobs["brightness"] \in 0 .. 99
      BY DEF KnobsOK
    <2>3. CASE "brightness" \in DOMAIN p
      <3>1. new["brightness"] = Stored("brightness", p["brightness"])
        BY <1>4, <2>3
      <3> QED BY <1>3, <2>1, <2>3, <3>1
    <2>4. CASE "brightness" \notin DOMAIN p
      BY <1>4, <2>2, <2>4
    <2> QED BY <2>3, <2>4
  <1>7. new["country"] \in 0 .. 999
    <2>1. \A v : Stored("country", v) = v
      BY DEF Stored
    <2>2. knobs["country"] \in 0 .. 999
      BY DEF KnobsOK
    <2>3. CASE "country" \in DOMAIN p
      <3>1. new["country"] = p["country"]
        BY <1>4, <2>1, <2>3
      <3> QED BY <1>3, <2>3, <3>1
    <2>4. CASE "country" \notin DOMAIN p
      BY <1>4, <2>2, <2>4
    <2> QED BY <2>3, <2>4
  <1>8. KnobsOK(new)
    BY <1>2, <1>5, <1>6, <1>7 DEF KnobsOK
  <1> QED BY <1>8 DEF new

\* The edits keep a record's type.
LEMMA IntentsType ==
    ASSUME NEW intents, \A n \in DOMAIN intents : intents[n] # NoIntent, NEW name, NEW up
    PROVE  LET next == SetRadioIntent(intents, name, up)
           IN  \A n \in DOMAIN next : next[n] # NoIntent
BY DEF SetRadioIntent

-----------------------------------------------------------------------------
(* Type correctness                                                         *)

LEMMA InitType ==
    Init => TInv
  <1> SUFFICES ASSUME Init PROVE TInv
    OBVIOUS
  <1> USE DEF Init
  <1>1. KnobsOK(NoKnobs)
    <2>1. DOMAIN NoKnobs = Knobs
      BY DEF NoKnobs, Knobs
    <2>2. NoKnobs.led \in {"", "on", "off"} /\ NoKnobs.brightness = Unset
      BY DEF NoKnobs
    <2>3. NoKnobs.country = 0 /\ 0 \in 0 .. 999
      <3>1. 0 \in 0 .. 999
        OBVIOUS
      <3> QED BY <3>1, Zenon DEF NoKnobs
    <2> QED BY <2>1, <2>2, <2>3, Zenon DEF KnobsOK
  <1>2. << >> \in Lists
    BY DEF Lists, ValidWlans
  <1>3. ReportOK(FirstReport)
    BY ReportAssumption DEF ReportOK
  <1>4. RecOK(rec)
    BY <1>1, <1>2, <1>3 DEF RecOK
  <1>5. unheard \in BOOLEAN
    OBVIOUS
  <1>6. Bounds
    <2>1. /\ dev.version \in Nat /\ 1 <= dev.version /\ dev.version <= rec.version
          /\ beat \in {0, 1}
          /\ salts \in Nat /\ ops \in 0 .. MaxOps /\ faults \in 0 .. MaxFaults
      BY ProvisioningBoundAssumption
    <2> HIDE DEF Init
    <2> QED BY <1>5, <2>1 DEF Bounds
  <1> QED BY <1>4, <1>6 DEF TInv

\* What saveIntent may persist.
LEMMA SaveType ==
    ASSUME TInv, NEW r, RecOK(r), r.version = rec.version,
           NEW effective \in BOOLEAN, Save(r, effective)
    PROVE  TInv'
  <1>1. RecOK([r EXCEPT !.version = @ + 1]) /\ [r EXCEPT !.version = @ + 1].version = r.version + 1
    BY DEF RecOK
  <1>2. RecOK(rec') /\ rec'.version \in {rec.version, rec.version + 1}
    BY <1>1 DEF Save
  <1>3. dev' = dev /\ salts' = salts /\ beat' = beat /\ unheard' = unheard /\ faults' = faults
    BY DEF Save
  <1>4. ops' \in 0 .. MaxOps
    BY ProvisioningBoundAssumption DEF Save, TInv, Bounds
  <1>5. rec.version \in Nat
    BY DEF TInv, RecOK
  <1>6. Bounds'
    BY <1>2, <1>3, <1>4, <1>5 DEF TInv, Bounds
  <1> QED BY <1>2, <1>3, <1>6 DEF TInv

LEMMA PatchDeviceType ==
    ASSUME TInv, NEW p \in Patches, PatchDevice(p)
    PROVE  TInv'
  <1> DEFINE knobs == [k \in DOMAIN rec.knobs |->
                         IF k \in DOMAIN p THEN Stored(k, p[k]) ELSE rec.knobs[k]]
             effective == \E k \in Provisioned : knobs[k] # rec.knobs[k]
  <1>1. RecOK(rec) /\ ValidPatch(p) /\ Save([rec EXCEPT !.knobs = knobs], effective)
    BY DEF TInv, PatchDevice
  <1>2. KnobsOK(knobs)
    BY <1>1, PatchType DEF RecOK
  <1>3. effective \in BOOLEAN
    OBVIOUS
  <1> HIDE DEF knobs, effective
  <1>4. RecOK([rec EXCEPT !.knobs = knobs]) /\ [rec EXCEPT !.knobs = knobs].version = rec.version
    BY <1>1, <1>2 DEF RecOK
  <1> QED BY <1>1, <1>3, <1>4, SaveType

LEMMA PutRadioIntentType ==
    ASSUME TInv, NEW name, NEW up, PutRadioIntent(name, up)
    PROVE  TInv'
  <1> DEFINE next == SetRadioIntent(rec.intents, name, up)
             effective == next # rec.intents
  <1>1. RecOK(rec) /\ Save([rec EXCEPT !.intents = next], effective)
    BY DEF TInv, PutRadioIntent
  <1>2. \A n \in DOMAIN next : next[n] # NoIntent
    BY <1>1, IntentsType DEF RecOK
  <1>3. effective \in BOOLEAN
    OBVIOUS
  <1> HIDE DEF next, effective
  <1>4. RecOK([rec EXCEPT !.intents = next]) /\ [rec EXCEPT !.intents = next].version = rec.version
    BY <1>1, <1>2 DEF RecOK
  <1> QED BY <1>1, <1>3, <1>4, SaveType

LEMMA PersistType ==
    ASSUME TInv, NEW wls \in Seq(Wlans), PersistDeviceWlans(wls)
    PROVE  TInv'
  <1> DEFINE normal == Normalized(wls)
  <1>1. RecOK(rec) /\ ValidWlans(normal) /\ Save([rec EXCEPT !.wlans = normal], FALSE)
    BY DEF TInv, PersistDeviceWlans
  <1>2. normal \in Lists
    BY <1>1, NormalizedType DEF Lists
  <1> HIDE DEF normal
  <1>3. RecOK([rec EXCEPT !.wlans = normal]) /\ [rec EXCEPT !.wlans = normal].version = rec.version
    BY <1>1, <1>2 DEF RecOK
  <1> QED BY <1>1, <1>3, SaveType

\* A verb is one of three: a patch, a radio's intent, a WLAN list with the type of one.
LEMMA OperatorCases ==
    ASSUME TInv, Operator
    PROVE  \/ \E p \in Patches : PatchDevice(p)
           \/ \E name, up : PutRadioIntent(name, up)
           \/ \E wls \in Seq(Wlans) : PersistDeviceWlans(wls)
  <1> DEFINE Goal == \/ \E p \in Patches : PatchDevice(p)
                     \/ \E name, up : PutRadioIntent(name, up)
                     \/ \E wls \in Seq(Wlans) : PersistDeviceWlans(wls)
  <1>1. rec.wlans \in Seq(Wlans)
    BY DEF TInv, RecOK, Lists
  <1>2. ASSUME NEW p \in Patches, PatchDevice(p) PROVE Goal
    BY <1>2
  <1>3. ASSUME NEW r \in rec.report.radios, NEW up \in Upserts, PutRadioIntent(r.name, up)
        PROVE  Goal
    BY <1>3
  <1>4. ASSUME NEW r \in rec.report.radios, DeleteRadioIntent(r.name) PROVE Goal
    BY <1>4 DEF DeleteRadioIntent
  <1>5. ASSUME NEW env \in Envelopes, PutDeviceWireless(env) PROVE Goal
    <2>1. env \in Seq(Wlans) /\ PersistDeviceWlans(env)
      BY <1>5, BodyAssumption DEF PutDeviceWireless
    <2> QED BY <2>1
  <1>6. ASSUME NEW w \in Drafts, CreateDeviceWlan(w) PROVE Goal
    <2>1. w \in Wlans /\ PersistDeviceWlans(Append(rec.wlans, w))
      BY <1>6, BodyAssumption DEF CreateDeviceWlan
    <2>2. Append(rec.wlans, w) \in Seq(Wlans)
      BY <1>1, <2>1
    <2> QED BY <2>1, <2>2
  <1>7. ASSUME NEW w \in Drafts, NEW i \in DOMAIN rec.wlans, UpdateDeviceWlan(i, w) PROVE Goal
    <2>1. w \in Wlans /\ PersistDeviceWlans([rec.wlans EXCEPT ![i] = [w EXCEPT !.id = rec.wlans[i].id]])
      BY <1>7, BodyAssumption DEF UpdateDeviceWlan
    <2>2. [rec.wlans EXCEPT ![i] = [w EXCEPT !.id = rec.wlans[i].id]] \in Seq(Wlans)
      BY <1>1, <2>1, EditedType
    <2> QED BY <2>1, <2>2
  <1>8. ASSUME NEW i \in DOMAIN rec.wlans, DeleteDeviceWlan(i) PROVE Goal
    <2>1. RemoveAt(rec.wlans, i) \in Seq(Wlans)
      <3>1. Len(rec.wlans) \in Nat /\ i \in 1 .. Len(rec.wlans)
        BY <1>1
      <3>2. SubSeq(rec.wlans, 1, i - 1) \in Seq(Wlans) /\ SubSeq(rec.wlans, i + 1, Len(rec.wlans)) \in Seq(Wlans)
        <4>1. \A j \in 1 .. Len(rec.wlans) : rec.wlans[j] \in Wlans
          BY <1>1
        <4> QED BY <1>1, <3>1, <4>1, SubSeqProperties
      <3> QED BY <3>2 DEF RemoveAt
    <2> QED BY <1>8, <2>1 DEF DeleteDeviceWlan
  <1> HIDE DEF Goal
  <1>9. Goal
    BY <1>2, <1>3, <1>4, <1>5, <1>6, <1>7, <1>8 DEF Operator
  <1> QED BY <1>9 DEF Goal

LEMMA OperatorType ==
    ASSUME TInv, Operator
    PROVE  TInv'
BY OperatorCases, PatchDeviceType, PutRadioIntentType, PersistType

\* The record on the way through an inform.
LEMMA WorkedType ==
    ASSUME TInv, NEW in \in Informs, NEW table \in BOOLEAN
    PROVE  /\ RecOK(Worked(in, table))
           /\ Worked(in, table).version \in {rec.version, rec.version + 1}
  <1> DEFINE a == [rec EXCEPT !.report = Absorb(@, in)]
             b == Settle(a, table)
  <1>1. RecOK(rec) /\ ReportOK(Absorb(rec.report, in))
    BY AbsorbType DEF TInv, RecOK
  <1>2. RecOK(a) /\ a.version = rec.version
    BY <1>1 DEF RecOK
  <1> HIDE DEF a
  <1>3. RecOK(b) /\ b.version = a.version
    BY <1>2 DEF RecOK, Settle
  <1> HIDE DEF b
  <1>4. RecOK(MintForDrift(b)) /\ MintForDrift(b).version \in {b.version, b.version + 1}
    BY <1>3 DEF RecOK, MintForDrift
  <1>5. Worked(in, table) = MintForDrift(b)
    BY DEF Worked, a, b
  <1> QED BY <1>2, <1>3, <1>4, <1>5

LEMMA OfferedType ==
    ASSUME NEW r, RecOK(r)
    PROVE  RecOK(Offered(r)) /\ Offered(r).version = r.version
  <1> DEFINE c == Cached(r.knobs, r.report, r.cache, salts)
             p == [wlans |-> r.wlans, placements |-> Placements(Plan(r)), offered |-> r.version]
  <1>1. Offered(r) = [r EXCEPT !.cache = c, !.pending = p]
    BY DEF Offered
  <1> HIDE DEF c, p
  <1> QED BY <1>1 DEF RecOK

LEMMA InformType ==
    ASSUME TInv, NEW in \in Informs, NEW table \in BOOLEAN, NEW due \in BOOLEAN,
           Inform(in, table, due)
    PROVE  TInv'
  <1> DEFINE w == Worked(in, table)
  <1>1. RecOK(w) /\ w.version \in {rec.version, rec.version + 1}
    BY WorkedType
  <1>2. RecOK(rec) /\ rec.version \in Nat /\ Bounds
    BY DEF TInv, RecOK
  <1>3. (1 - beat) \in {0, 1}
    BY <1>2 DEF Bounds
  <1>4. CASE InformPushed(in, table, due)
    <2>1. /\ rec' = Offered(w) /\ ops' = ops /\ unheard' = FALSE
          /\ dev' = [version |-> w.version, config |-> Config(w, w.report)]
          /\ DrawSalt(w) /\ SparseFault(table) /\ Beats(table /\ due)
      BY <1>4 DEF InformPushed
    <2> HIDE DEF w
    <2>2. RecOK(rec') /\ rec'.version = w.version
      BY <1>1, <2>1, OfferedType
    <2>3. ConfigOK(dev'.config) /\ dev'.version = w.version
      BY <1>1, <2>1 DEF ConfigOK, Config, RecOK
    <2>4. salts' \in Nat /\ beat' \in {0, 1}
      BY <1>2, <1>3, <2>1 DEF DrawSalt, Beats, Bounds
    <2>5. faults' \in 0 .. MaxFaults
      BY <1>2, <2>1, ProvisioningBoundAssumption DEF Inform, SparseFault, Bounds
    <2>6. unheard' \in BOOLEAN
      BY <2>1
    <2>7. /\ dev'.version \in Nat /\ 1 <= dev'.version /\ dev'.version <= rec'.version
          /\ ops' \in 0 .. MaxOps
      BY <1>1, <1>2, <2>1, <2>2, <2>3 DEF Bounds
    <2>8. Bounds'
      BY <2>4, <2>5, <2>6, <2>7 DEF Bounds
    <2> QED BY <1>1, <1>2, <2>2, <2>3, <2>8 DEF TInv
  <1>5. CASE InformLost(in, table, due)
    <2>1. /\ rec' = Offered(w) /\ ops' = ops /\ dev' = dev /\ beat' = beat
          /\ DrawSalt(w) /\ unheard' \in BOOLEAN
          /\ faults < MaxFaults /\ faults' = faults + 1
      BY <1>5 DEF InformLost
    <2> HIDE DEF w
    <2>2. RecOK(rec') /\ rec'.version = w.version
      BY <1>1, <2>1, OfferedType
    <2>4. salts' \in Nat
      BY <1>2, <2>1 DEF DrawSalt, Bounds
    <2>5. faults' \in 0 .. MaxFaults
      BY <1>2, <2>1, ProvisioningBoundAssumption DEF Bounds
    <2>6. Bounds'
      BY <1>1, <1>2, <2>1, <2>2, <2>4, <2>5 DEF Bounds
    <2> QED BY <2>1, <2>2, <2>6 DEF TInv
  <1>6. CASE InformNoop(in, table, due)
    <2>1. /\ rec' \in {w, [w EXCEPT !.version = @ + 1]} /\ ops' = ops /\ dev' = dev
          /\ salts' = salts /\ unheard' = unheard /\ SparseFault(table) /\ Beats(table /\ due)
      BY <1>6 DEF InformNoop
    <2> HIDE DEF w
    <2>2. RecOK(rec') /\ rec'.version \in {w.version, w.version + 1}
      BY <1>1, <2>1 DEF RecOK
    <2>4. beat' \in {0, 1}
      BY <1>2, <1>3, <2>1 DEF Beats, Bounds
    <2>5. faults' \in 0 .. MaxFaults
      BY <1>2, <2>1, ProvisioningBoundAssumption DEF Inform, SparseFault, Bounds
    <2>6. Bounds'
      BY <1>1, <1>2, <2>1, <2>2, <2>4, <2>5 DEF Bounds
    <2> QED BY <2>1, <2>2, <2>6 DEF TInv
  <1> QED BY <1>4, <1>5, <1>6 DEF Inform

LEMMA TypeStep ==
    TInv /\ [Next]_vars => TInv'
  <1> SUFFICES ASSUME TInv, [Next]_vars PROVE TInv'
    OBVIOUS
  <1>1. CASE Operator
    BY <1>1, OperatorType
  <1>2. ASSUME NEW in \in Informs, NEW table \in BOOLEAN, NEW due \in BOOLEAN,
               Inform(in, table, due)
        PROVE  TInv'
    BY <1>2, InformType
  <1>3. CASE UNCHANGED vars
    BY <1>3 DEF vars, TInv, Bounds
  <1> QED BY <1>1, <1>2, <1>3 DEF Next

\* Stored knobs stay canonical, every stored WLAN list satisfies its validators and
\* the device's version never passes the record's, whatever sequence of verbs
\* (intent.go) and informs (engine.go) led there.
THEOREM TypeCorrect == Spec => []TypeOK
  <1>1. TInv => TypeOK
    <2> SUFFICES ASSUME TInv PROVE TypeOK
      OBVIOUS
    <2>1. KnobsOK(rec.knobs) /\ ValidWlans(rec.wlans) /\ Bounds
          /\ \A n \in DOMAIN rec.intents : rec.intents[n] # NoIntent
      BY DEF TInv, RecOK, Lists
    <2>2. /\ rec.knobs.led \in {"", "on", "off"}
          /\ rec.knobs.brightness = Unset \/ rec.knobs.brightness \in 0 .. 99
          /\ rec.knobs.country \in 0 .. 999
      BY <2>1 DEF KnobsOK
    <2> HIDE DEF TInv
    <2> QED BY <2>1, <2>2, Zenon DEF TypeOK, Bounds
  <1> QED BY <1>1, InitType, TypeStep, PTL DEF Spec

-----------------------------------------------------------------------------
(* The provisioning plan                                                    *)

\* The radios that get VAPs have names of their own.
LEMMA StoredRadiosNamed ==
    ASSUME NEW report, ReportOK(report)
    PROVE  LET radios == StoredRadios(report.radios)
           IN  /\ \E n \in Nat : DOMAIN radios = 1 .. n
               /\ \A i \in DOMAIN radios : radios[i] \in report.radios /\ radios[i].name \in Nat
               /\ \A i, j \in DOMAIN radios : radios[i].name = radios[j].name => i = j
  <1> DEFINE named == {r \in report.radios : r.name # Unset}
             lower == {p \in named \X named : p[1].name < p[2].name}
  <1>1. /\ IsFiniteSet(report.radios)
        /\ \A r \in report.radios : r.name \in Nat \cup {Unset}
        /\ \A r, s \in report.radios : r.name = s.name => r = s \/ r.name = Unset
    BY DEF ReportOK, Report, ReportFields
  <1>2. IsFiniteSet(named)
    BY <1>1, FS_Subset
  <1>3. /\ \A r \in named : r \in report.radios /\ r.name \in Nat
        /\ \A r, s \in named : r.name = s.name => r = s
    BY <1>1
  <1>4. \A r, s \in named : <<r, s>> \in lower <=> r.name < s.name
    OBVIOUS
  <1> HIDE DEF named, lower
  <1>5. StrictTotal(named, lower)
    BY <1>3, <1>4 DEF StrictTotal
  <1> DEFINE radios == InOrder(named, lower)
             n == Cardinality(named)
  <1>6. n \in Nat /\ radios \in [1 .. n -> named] /\ \A i, j \in 1 .. n : radios[i] = radios[j] => i = j
    BY <1>2, <1>5, InOrderListsAll
  <1>7. StoredRadios(report.radios) = radios
    BY DEF StoredRadios, named, lower
  <1> HIDE DEF radios, n
  <1>8. \A i \in 1 .. n : radios[i] \in named
    BY <1>6
  <1>9. DOMAIN radios = 1 .. n
    BY <1>6
  <1>10. \A i, j \in DOMAIN radios : radios[i].name = radios[j].name => i = j
    BY <1>3, <1>6, <1>8, <1>9
  <1> QED BY <1>3, <1>6, <1>7, <1>8, <1>9, <1>10

\* The places of the plan: a radio and a WLAN that gets a VAP on it, in order.
SlotSet(radios, wls) ==
    {s \in (DOMAIN radios) \X (DOMAIN wls) : Placed(radios[s[1]], wls[s[2]])}

SlotsBefore(slots) ==
    {p \in slots \X slots :
        \/ p[1][1] < p[2][1]
        \/ p[1][1] = p[2][1] /\ p[1][2] < p[2][2]}

VapsAt(radios, wls, m, order) ==
    [k \in 1 .. m |->
        [wlan |-> wls[order[k][2]], radio |-> order[k][1],
         phy |-> radios[order[k][1]].name, ath |-> k - 1,
         vid |-> WrapVID(wls[order[k][2]].vlan)]]

VapOrder(radios, wls) == InOrder(SlotSet(radios, wls), SlotsBefore(SlotSet(radios, wls)))

\* The plan has one VAP for each place.
LEMMA PlanVapsPlaces ==
    ASSUME NEW radios, NEW n \in Nat, DOMAIN radios = 1 .. n,
           NEW wls, NEW len \in Nat, DOMAIN wls = 1 .. len
    PROVE  LET m == Cardinality(SlotSet(radios, wls))
               order == VapOrder(radios, wls)
           IN  /\ m \in Nat
               /\ order \in [1 .. m -> SlotSet(radios, wls)]
               /\ \A k, l \in 1 .. m : order[k] = order[l] => k = l
               /\ PlanVaps(radios, wls) = VapsAt(radios, wls, m, order)
  <1> DEFINE slots == SlotSet(radios, wls)
             before == SlotsBefore(slots)
  <1>1. IsFiniteSet(slots)
    <2>1. IsFiniteSet(1 .. n) /\ IsFiniteSet(1 .. len)
      BY FS_Interval
    <2>2. IsFiniteSet((1 .. n) \X (1 .. len))
      BY <2>1, FS_Product
    <2>3. slots \subseteq (1 .. n) \X (1 .. len)
      BY DEF SlotSet
    <2> QED BY <2>2, <2>3, FS_Subset
  <1>2. \A s \in slots : s[1] \in 1 .. n /\ s[2] \in 1 .. len /\ s = <<s[1], s[2]>>
    BY DEF SlotSet
  <1>3. \A s, t \in slots :
           <<s, t>> \in before <=> s[1] < t[1] \/ (s[1] = t[1] /\ s[2] < t[2])
    BY DEF SlotsBefore
  <1>4. StrictTotal(slots, before)
    <2> HIDE DEF slots, before
    <2>1. \A s \in slots : <<s, s>> \notin before
      BY <1>2, <1>3
    <2>2. \A s, t, u \in slots : <<s, t>> \in before /\ <<t, u>> \in before => <<s, u>> \in before
      BY <1>2, <1>3
    <2>3. \A s, t \in slots : s # t => <<s, t>> \in before \/ <<t, s>> \in before
      <3> SUFFICES ASSUME NEW s \in slots, NEW t \in slots, s # t
                   PROVE  <<s, t>> \in before \/ <<t, s>> \in before
        OBVIOUS
      <3>1. s[1] # t[1] \/ s[2] # t[2]
        BY <1>2
      <3>2. s[1] \in Nat /\ t[1] \in Nat /\ s[2] \in Nat /\ t[2] \in Nat
        BY <1>2
      <3>3. \/ s[1] < t[1]
            \/ s[1] = t[1] /\ s[2] < t[2]
            \/ t[1] < s[1]
            \/ t[1] = s[1] /\ t[2] < s[2]
        BY <3>1, <3>2
      <3> QED BY <1>3, <3>3
    <2> QED BY <2>1, <2>2, <2>3 DEF StrictTotal
  <1> DEFINE order == InOrder(slots, before)
             m == Cardinality(slots)
  <1>5. m \in Nat /\ order \in [1 .. m -> slots] /\ \A k, l \in 1 .. m : order[k] = order[l] => k = l
    <2> HIDE DEF slots, before
    <2> QED BY <1>1, <1>4, InOrderListsAll
  <1>6. DOMAIN order = 1 .. m
    BY <1>5
  <1>7. PlanVaps(radios, wls) =
           [k \in DOMAIN order |->
               [wlan |-> wls[order[k][2]], radio |-> order[k][1],
                phy |-> radios[order[k][1]].name, ath |-> k - 1,
                vid |-> WrapVID(wls[order[k][2]].vlan)]]
    BY Zenon DEF PlanVaps, SlotSet, SlotsBefore
  <1>8. PlanVaps(radios, wls) =
           VapsAt(radios, wls, m, order)
    <2> HIDE DEF order, m
    <2> QED BY <1>6, <1>7 DEF VapsAt
  <1>9. m \in Nat /\ order \in [1 .. m -> SlotSet(radios, wls)]
    BY <1>5
  <1> HIDE DEF order, m
  <1>10. order = VapOrder(radios, wls) /\ m = Cardinality(SlotSet(radios, wls))
    BY DEF VapOrder, order, m
  <1> QED BY <1>5, <1>8, <1>9, <1>10

\* A VAP of the plan: its numbers, and where its content comes from.
PlanOK(radios, wls, vaps) ==
    /\ \E m \in Nat : DOMAIN vaps = 1 .. m
    /\ \A k \in DOMAIN vaps :
          /\ vaps[k].ath = k - 1
          /\ vaps[k].vid = WrapVID(vaps[k].wlan.vlan)
          /\ \E i \in DOMAIN wls : vaps[k].wlan = wls[i]
          /\ vaps[k].radio \in DOMAIN radios
    /\ \A k, l \in DOMAIN vaps :
          vaps[k].phy = vaps[l].phy /\ vaps[k].wlan.ssid = vaps[l].wlan.ssid => k = l

LEMMA PlanVapsContent ==
    ASSUME NEW report, ReportOK(report), NEW wls \in Lists
    PROVE  LET radios == StoredRadios(report.radios)
           IN  PlanOK(radios, wls, PlanVaps(radios, wls))
  <1> DEFINE radios == StoredRadios(report.radios)
             vaps == PlanVaps(radios, wls)
  <1>1. PICK n \in Nat : DOMAIN radios = 1 .. n
    BY StoredRadiosNamed
  <1>2. \A i, j \in DOMAIN radios : radios[i].name = radios[j].name => i = j
    BY StoredRadiosNamed
  <1>3. wls \in Seq(Wlans) /\ ValidWlans(wls)
    BY DEF Lists
  <1>4. PICK len \in Nat : DOMAIN wls = 1 .. len
    BY <1>3
  <1>5. \A i, j \in DOMAIN wls : wls[i].ssid = wls[j].ssid => i = j
    BY <1>3 DEF ValidWlans
  <1> HIDE DEF radios
  <1> DEFINE m == Cardinality(SlotSet(radios, wls))
             order == VapOrder(radios, wls)
  <1>6. /\ m \in Nat
        /\ order \in [1 .. m -> SlotSet(radios, wls)]
        /\ \A k, l \in 1 .. m : order[k] = order[l] => k = l
        /\ vaps = VapsAt(radios, wls, m, order)
    BY <1>1, <1>4, PlanVapsPlaces
  <1> HIDE DEF m, order
  <1> HIDE DEF vaps
  <1>7. DOMAIN vaps = 1 .. m
    BY <1>6 DEF VapsAt
  <1>8. ASSUME NEW k \in 1 .. m
        PROVE  /\ order[k][1] \in DOMAIN radios /\ order[k][2] \in DOMAIN wls
               /\ order[k] = <<order[k][1], order[k][2]>>
               /\ vaps[k].ath = k - 1 /\ vaps[k].radio = order[k][1]
               /\ vaps[k].wlan = wls[order[k][2]]
               /\ vaps[k].phy = radios[order[k][1]].name
               /\ vaps[k].vid = WrapVID(wls[order[k][2]].vlan)
    <2>1. order[k] \in SlotSet(radios, wls)
      BY <1>6
    <2>2. order[k] \in (DOMAIN radios) \X (DOMAIN wls)
      BY <2>1 DEF SlotSet
    <2>3. vaps[k] = [wlan |-> wls[order[k][2]], radio |-> order[k][1],
                     phy |-> radios[order[k][1]].name, ath |-> k - 1,
                     vid |-> WrapVID(wls[order[k][2]].vlan)]
      BY <1>6 DEF VapsAt
    <2> QED BY <2>2, <2>3
  <1>9. ASSUME NEW k \in 1 .. m, NEW l \in 1 .. m,
               vaps[k].phy = vaps[l].phy, vaps[k].wlan.ssid = vaps[l].wlan.ssid
        PROVE  k = l
    <2>1. order[k][1] = order[l][1]
      BY <1>2, <1>8, <1>9
    <2>2. order[k][2] = order[l][2]
      BY <1>5, <1>8, <1>9
    <2>3. order[k] = order[l]
      BY <1>8, <2>1, <2>2
    <2> QED BY <1>6, <2>3
  <1>10. ASSUME NEW k \in 1 .. m
         PROVE  /\ vaps[k].ath = k - 1
                /\ vaps[k].vid = WrapVID(vaps[k].wlan.vlan)
                /\ \E i \in DOMAIN wls : vaps[k].wlan = wls[i]
                /\ vaps[k].radio \in DOMAIN radios
    BY <1>8
  <1>11. PlanOK(radios, wls, vaps)
    BY <1>6, <1>7, <1>9, <1>10 DEF PlanOK
  <1> QED BY <1>11 DEF vaps, radios

\* The same of the plan that a configuration was rendered from.
LEMMA PlanContent ==
    ASSUME NEW c, ConfigOK(c)
    PROVE  PlanOK(StoredRadios(c.report.radios), c.wlans, Plan(c))
BY PlanVapsContent DEF ConfigOK, Plan

-----------------------------------------------------------------------------
(* Sections of the rendered rows                                            *)

AaaKeys ==
    {"aaa.pmf.mode", "aaa.br.devname", "aaa.devname", "aaa.ssid", "aaa.id", "aaa.status",
     "aaa.wpa", "aaa.wpa.key.mgmt", "aaa.wpa.psk", "aaa.wpa3.transition", "aaa.sae.psk",
     "aaa.radius.auth", "aaa.dynamic_vlan", "aaa.radius.acct", "aaa.interim_update",
     "aaa.das.port", "aaa.dad.clients", "aaa.das.client", "aaa.dad.port"}

WirelessKeys ==
    {"wireless.devname", "wireless.id", "wireless.authmode", "wireless.ssid",
     "wireless.parent", "wireless.bga_filter"}

VlanKeys == {"vlan", "bridge", "netconf.devname"}

OtherKeys ==
    {"unifi.siteid", "users.password", "connectivity.uplink_eth", "connectivity.uplink_wds",
     "sshd.auth.keys", "ledbar.status", "ledbar.brightness", "ledbar.color", "radio.status",
     "radio.phyname", "radio.countrycode", "radio.channel", "radio.ieee_mode",
     "radio.txpower", "radio.devnames", "netconf.devname"}

LEMMA WpaRowsKeys ==
    ASSUME NEW n, NEW w, NEW row \in WpaRows(n, w)
    PROVE  /\ row[1] \in {"aaa.wpa", "aaa.wpa.key.mgmt", "aaa.wpa.psk",
                          "aaa.wpa3.transition", "aaa.sae.psk"}
           /\ row[2] = n
           /\ row = <<"aaa.wpa.key.mgmt", n, "WPA-EAP">> => w.security = "wpa-eap"
  <1> DEFINE psk == Dash(w.psk = "", "fallback", w.psk)
             mode == Dash(Wpa3(w), 2, 3)
             mgmt == Dash(Wpa3(w), "SAE", Dash(w.security = "wpa-eap", "WPA-EAP", "WPA-PSK"))
             trans == (w.security = "wpa2-wpa3")
  <1>1. \/ row = <<"aaa.wpa", n, mode>>
        \/ row = <<"aaa.wpa.key.mgmt", n, mgmt>>
        \/ row = <<"aaa.wpa.psk", n, psk>>
        \/ row = <<"aaa.wpa3.transition", n, trans>>
        \/ row = <<"aaa.sae.psk", n, psk>>
    BY DEF WpaRows, When
  <1>2. mgmt = "WPA-EAP" => w.security = "wpa-eap"
    BY DEF Dash
  <1> HIDE DEF psk, mode, mgmt, trans
  <1> QED BY <1>1, <1>2

LEMMA EapRowsKeys ==
    ASSUME NEW n, NEW vaps, NEW report, NEW row \in EapRows(n, vaps, report)
    PROVE  /\ row[1] \in {"aaa.radius.auth", "aaa.dynamic_vlan", "aaa.radius.acct",
                          "aaa.interim_update", "aaa.das.port", "aaa.dad.clients",
                          "aaa.das.client", "aaa.dad.port"}
           /\ row[2] = n
           /\ row[1] = "aaa.radius.auth" =>
                 row = <<"aaa.radius.auth", n, Slots(vaps[n].wlan.servers, AuthPort, vaps[n].wlan.secret)>>
           /\ row[1] = "aaa.das.port" => row = <<"aaa.das.port", n, 3800 + n>>
           /\ row[1] = "aaa.dad.port" =>
                 /\ row = <<"aaa.dad.port", n, 3799>>
                 /\ DasGate(vaps[n], report)
                 /\ \A k \in 1 .. n - 1 :
                       vaps[k].wlan.security = "wpa-eap" => ~DasGate(vaps[k], report)
  <1> DEFINE w == vaps[n].wlan
             acct == Slots(w.acctServers, AcctPort, w.secret)
             first == \A k \in 1 .. n - 1 :
                         vaps[k].wlan.security = "wpa-eap" => ~DasGate(vaps[k], report)
             auth == Slots(w.servers, AuthPort, w.secret)
             clients == {<<s[1], s[2], s[4]>> : s \in acct}
             client == {<<s[2], s[4]>> : s \in {s \in acct : \A t \in acct : s[1] <= t[1]}}
             dyn == DynamicVlanOf(w.vlanMode)
  <1>1. \/ row = <<"aaa.radius.auth", n, auth>>
        \/ row = <<"aaa.dynamic_vlan", n, dyn>>
        \/ row = <<"aaa.radius.acct", n, acct>>
        \/ row = <<"aaa.interim_update", n, 3600>>
        \/ row = <<"aaa.das.port", n, 3800 + n>>
        \/ row = <<"aaa.dad.clients", n, clients>>
        \/ row = <<"aaa.das.client", n, client>>
        \/ row = <<"aaa.dad.port", n, 3799>> /\ DasGate(vaps[n], report) /\ first
    BY DEF EapRows, When
  <1> HIDE DEF acct, auth, clients, client, dyn, first
  <1>2. \/ row = <<"aaa.radius.auth", n, auth>>
        \/ row = <<"aaa.das.port", n, 3800 + n>>
        \/ row = <<"aaa.dad.port", n, 3799>> /\ DasGate(vaps[n], report) /\ first
        \/ /\ row[1] \in {"aaa.dynamic_vlan", "aaa.radius.acct", "aaa.interim_update",
                          "aaa.dad.clients", "aaa.das.client"}
           /\ row[2] = n
    BY <1>1
  <1> QED BY <1>2 DEF auth, first

LEMMA AuthRow ==
    ASSUME NEW n, NEW vaps, NEW report
    PROVE  <<"aaa.radius.auth", n, Slots(vaps[n].wlan.servers, AuthPort, vaps[n].wlan.secret)>>
              \in EapRows(n, vaps, report)
  <1> DEFINE w == vaps[n].wlan
             acct == Slots(w.acctServers, AcctPort, w.secret)
             first == \A k \in 1 .. n - 1 :
                         vaps[k].wlan.security = "wpa-eap" => ~DasGate(vaps[k], report)
             auth == Slots(w.servers, AuthPort, w.secret)
             dyn == DynamicVlanOf(w.vlanMode)
             A == When(w.acct, {<<"aaa.radius.acct", n, acct>>})
             I == When(w.acct /\ w.interim, {<<"aaa.interim_update", n, 3600>>})
             D == When(DasGate(vaps[n], report),
                 {<<"aaa.das.port", n, 3800 + n>>,
                  <<"aaa.dad.clients", n, {<<s[1], s[2], s[4]>> : s \in acct}>>,
                  <<"aaa.das.client", n, {<<s[2], s[4]>> : s \in
                       {s \in acct : \A t \in acct : s[1] <= t[1]}}>>}
                 \cup When(first, {<<"aaa.dad.port", n, 3799>>}))
  <1>1. EapRows(n, vaps, report) =
           {<<"aaa.radius.auth", n, auth>>, <<"aaa.dynamic_vlan", n, dyn>>} \cup A \cup I \cup D
    BY Zenon DEF EapRows
  <1> HIDE DEF auth, dyn, A, I, D
  <1>2. <<"aaa.radius.auth", n, auth>> \in EapRows(n, vaps, report)
    BY <1>1
  <1> QED BY <1>2 DEF auth

LEMMA AaaRowsKeys ==
    ASSUME NEW n, NEW vaps, NEW report, NEW row \in AaaRows(n, vaps, report)
    PROVE  /\ row[1] \in AaaKeys
           /\ row[2] = n
           /\ row[1] = "aaa.ssid" => row = <<"aaa.ssid", n, vaps[n].wlan.ssid>>
           /\ row[1] = "aaa.devname" => row = <<"aaa.devname", n, vaps[n].ath>>
           /\ row[1] = "aaa.br.devname" => row = <<"aaa.br.devname", n, vaps[n].vid>>
           /\ row[1] = "aaa.radius.auth" =>
                 row = <<"aaa.radius.auth", n, Slots(vaps[n].wlan.servers, AuthPort, vaps[n].wlan.secret)>>
           /\ row = <<"aaa.wpa.key.mgmt", n, "WPA-EAP">> => vaps[n].wlan.security = "wpa-eap"
           /\ row[1] = "aaa.das.port" => row = <<"aaa.das.port", n, 3800 + n>>
           /\ row[1] = "aaa.dad.port" =>
                 /\ row = <<"aaa.dad.port", n, 3799>>
                 /\ vaps[n].wlan.security = "wpa-eap"
                 /\ DasGate(vaps[n], report)
                 /\ \A k \in 1 .. n - 1 :
                       vaps[k].wlan.security = "wpa-eap" => ~DasGate(vaps[k], report)
  <1> DEFINE w == vaps[n].wlan
             pmf == Dash(Wpa3(w), Dash(w.security = "wpa3-p", 2, 1), 0)
             status == (w.security # "open" \/ "openHostapd" \in report.wifiCaps)
  <1>1. \/ row = <<"aaa.pmf.mode", n, pmf>>
        \/ row = <<"aaa.br.devname", n, vaps[n].vid>>
        \/ row = <<"aaa.devname", n, vaps[n].ath>>
        \/ row = <<"aaa.ssid", n, w.ssid>>
        \/ row = <<"aaa.id", n, w.id>>
        \/ row = <<"aaa.status", n, status>>
        \/ row \in WpaRows(n, w)
        \/ w.security = "wpa-eap" /\ row \in EapRows(n, vaps, report)
    BY DEF AaaRows, When, AaaBridge
  <1> HIDE DEF pmf, status
  <1>2. CASE row \in WpaRows(n, w)
    <2>1. /\ row[1] \in {"aaa.wpa", "aaa.wpa.key.mgmt", "aaa.wpa.psk",
                          "aaa.wpa3.transition", "aaa.sae.psk"}
          /\ row[2] = n
          /\ row = <<"aaa.wpa.key.mgmt", n, "WPA-EAP">> => w.security = "wpa-eap"
      BY <1>2, WpaRowsKeys
    <2> QED BY <2>1 DEF AaaKeys
  <1>3. CASE w.security = "wpa-eap" /\ row \in EapRows(n, vaps, report)
    BY <1>3, EapRowsKeys DEF AaaKeys
  <1>4. CASE /\ row \notin WpaRows(n, w)
             /\ ~(w.security = "wpa-eap" /\ row \in EapRows(n, vaps, report))
    BY <1>1, <1>4 DEF AaaKeys
  <1> QED BY <1>2, <1>3, <1>4

LEMMA WirelessRowsKeys ==
    ASSUME NEW n, NEW v, NEW report, NEW row \in WirelessRows(n, v, report)
    PROVE  /\ row[1] \in WirelessKeys
           /\ row[2] = n
           /\ row[1] = "wireless.ssid" => row = <<"wireless.ssid", n, v.wlan.ssid>>
           /\ row[1] = "wireless.parent" => row = <<"wireless.parent", n, v.phy>>
  <1> DEFINE mode == Dash(v.wlan.security = "open", 0, 1)
             on == TRUE
  <1>1. \/ row = <<"wireless.devname", n, v.ath>>
        \/ row = <<"wireless.id", n, v.wlan.id>>
        \/ row = <<"wireless.authmode", n, mode>>
        \/ row = <<"wireless.ssid", n, v.wlan.ssid>>
        \/ row = <<"wireless.parent", n, v.phy>>
        \/ row = <<"wireless.bga_filter", n, on>>
    BY DEF WirelessRows, When
  <1> HIDE DEF mode, on
  <1> QED BY <1>1 DEF WirelessKeys

LEMMA RadioRowsKeys ==
    ASSUME NEW n, NEW radios, NEW vaps, NEW intents, NEW country,
           NEW row \in RadioRows(n, radios, vaps, intents, country)
    PROVE  row[1] \in OtherKeys
  <1> DEFINE r == radios[n]
             own == {vaps[k].ath : k \in {j \in DOMAIN vaps : vaps[j].radio = n}}
             i == IF r.name \in DOMAIN intents THEN intents[r.name]
                  ELSE [channel |-> Unset, txpower |-> Unset]
             ch == IntentOr(i.channel, r.channel)
             tx == IntentOr(i.txpower, r.txpower)
             mode == Dash(r.band = "na", "11naht40", "11nght20")
             names == InOrder(own, Smaller(own))
  <1>1. row \in {<<"radio.phyname", n, r.name>>, <<"radio.countrycode", n, country>>,
                 <<"radio.channel", n, ch>>, <<"radio.ieee_mode", n, mode>>,
                 <<"radio.txpower", n, tx>>, <<"radio.devnames", n, names>>}
    BY DEF RadioRows
  <1> HIDE DEF ch, tx, mode, names
  <1> QED BY <1>1 DEF OtherKeys

LEMMA NetconfRowsKeys ==
    ASSUME NEW report, NEW vids, NEW row \in NetconfRows(report, vids)
    PROVE  row[1] = "netconf.devname"
BY DEF NetconfRows

LEMMA VlanRowsKeys ==
    ASSUME NEW report, NEW vaps, NEW row \in VlanRows(report, vaps)
    PROVE  /\ row[1] \in VlanKeys
           /\ row[1] = "bridge" =>
                 \E vid \in Vids(vaps) \cup {0} :
                    row = <<"bridge", vid, BridgePorts(vid, vaps, EthPorts(report))>>
  <1> DEFINE eth == EthPorts(report)
             P(vid) == BridgePorts(vid, vaps, eth)
             E == {eth[k] : k \in DOMAIN eth}
  <1>1. \/ \E vid \in Vids(vaps) : row = <<"vlan", vid, E>>
        \/ \E vid \in Vids(vaps) \cup {0} : row = <<"bridge", vid, P(vid)>>
        \/ row \in NetconfRows(report, Vids(vaps))
    BY DEF VlanRows
  <1> HIDE DEF P, E
  <1>2. CASE row \in NetconfRows(report, Vids(vaps))
    BY <1>2, NetconfRowsKeys DEF VlanKeys
  <1>3. CASE \E vid \in Vids(vaps) : row = <<"vlan", vid, E>>
    BY <1>3 DEF VlanKeys
  <1>4. CASE \E vid \in Vids(vaps) \cup {0} : row = <<"bridge", vid, P(vid)>>
    <2>1. PICK vid \in Vids(vaps) \cup {0} : row = <<"bridge", vid, P(vid)>>
      BY <1>4
    <2>2. row[1] = "bridge"
      BY <2>1
    <2> QED BY <2>1, <2>2 DEF P, VlanKeys
  <1> QED BY <1>1, <1>2, <1>3, <1>4

\* Where a row of the configuration comes from.
LEMMA RowOrigin ==
    ASSUME NEW c, NEW row \in RowsOf(c)
    PROVE  \/ \E n \in DOMAIN Plan(c) : row \in AaaRows(n, Plan(c), c.report)
           \/ \E n \in DOMAIN Plan(c) : row \in WirelessRows(n, Plan(c)[n], c.report)
           \/ row \in VlanRows(c.report, Plan(c))
           \/ row[1] \in OtherKeys
  <1> DEFINE country == Country(c.knobs)
             radios == StoredRadios(c.report.radios)
             site == SiteRef(c.knobs)
             hash == UsersPasswordHash(c.knobs, c.report, c.cache, c.salt)
             uplink == EthPorts(c.report)[1]
             wds == Len(radios) - 1
  <1>1. \/ row \in {<<"unifi.siteid", 0, site>>, <<"users.password", 0, hash>>,
                    <<"connectivity.uplink_eth", 0, uplink>>, <<"connectivity.uplink_wds", 0, wds>>,
                    <<"sshd.auth.keys", 0, c.knobs.keys>>}
        \/ row \in LedRows(c.knobs, c.report)
        \/ row \in EmitWirelessCfg(c.report, c.wlans, c.intents, country)
    BY DEF RowsOf, RenderWithPlan
  <1> HIDE DEF country, site, hash, uplink, wds
  <1>2. CASE row \in {<<"unifi.siteid", 0, site>>, <<"users.password", 0, hash>>,
                    <<"connectivity.uplink_eth", 0, uplink>>, <<"connectivity.uplink_wds", 0, wds>>,
                    <<"sshd.auth.keys", 0, c.knobs.keys>>}
    BY <1>2 DEF OtherKeys
  <1>3. CASE row \in LedRows(c.knobs, c.report)
    <2> DEFINE on == c.knobs.led # "off"
               b == (255 * (IF c.knobs.brightness = Unset THEN 100 ELSE c.knobs.brightness)) \div 100
               color == DecodeLedColor(c.knobs.color)
    <2>1. row \in {<<"ledbar.status", 0, on>>, <<"ledbar.brightness", 0, b>>, <<"ledbar.color", 0, color>>}
      BY <1>3 DEF LedRows
    <2> HIDE DEF on, b, color
    <2> QED BY <2>1 DEF OtherKeys
  <1>4. CASE row \in EmitWirelessCfg(c.report, c.wlans, c.intents, country)
    <2> DEFINE no == FALSE
               yes == TRUE
               vaps == PlanVaps(radios, c.wlans)
    <2> HIDE DEF radios
    <2>1. \/ row \in {<<"radio.status", 0, no>>, <<"radio.status", 0, yes>>}
          \/ row \in NetconfRows(c.report, {})
          \/ \E n \in DOMAIN radios : row \in RadioRows(n, radios, vaps, c.intents, country)
          \/ \E n \in DOMAIN vaps : row \in AaaRows(n, vaps, c.report) \cup WirelessRows(n, vaps[n], c.report)
          \/ row \in VlanRows(c.report, vaps)
      <3> DEFINE R(n) == RadioRows(n, radios, vaps, c.intents, country)
                 V(n) == AaaRows(n, vaps, c.report) \cup WirelessRows(n, vaps[n], c.report)
                 W == VlanRows(c.report, vaps)
                 N == NetconfRows(c.report, {})
      <3>1. row \in IF radios = << >> THEN {<<"radio.status", 0, no>>} \cup N
                    ELSE {<<"radio.status", 0, yes>>}
                         \cup (UNION {R(n) : n \in DOMAIN radios})
                         \cup (UNION {V(n) : n \in DOMAIN vaps}) \cup W
        BY <1>4, Zenon DEF EmitWirelessCfg, radios
      <3> HIDE DEF R, V, W, N, vaps, no, yes
      <3>2. \/ row \in {<<"radio.status", 0, no>>, <<"radio.status", 0, yes>>}
            \/ row \in N
            \/ \E n \in DOMAIN radios : row \in R(n)
            \/ \E n \in DOMAIN vaps : row \in V(n)
            \/ row \in W
        <4>1. row \in UNION {R(n) : n \in DOMAIN radios} => \E n \in DOMAIN radios : row \in R(n)
          BY Zenon
        <4>2. row \in UNION {V(n) : n \in DOMAIN vaps} => \E n \in DOMAIN vaps : row \in V(n)
          BY Zenon
        <4>3. \/ row \in {<<"radio.status", 0, no>>, <<"radio.status", 0, yes>>}
              \/ row \in N
              \/ row \in UNION {R(n) : n \in DOMAIN radios}
              \/ row \in UNION {V(n) : n \in DOMAIN vaps}
              \/ row \in W
          <5> DEFINE RS == UNION {R(n) : n \in DOMAIN radios}
                     VS == UNION {V(n) : n \in DOMAIN vaps}
          <5>1. row \in IF radios = << >> THEN {<<"radio.status", 0, no>>} \cup N
                    ELSE {<<"radio.status", 0, yes>>} \cup RS \cup VS \cup W
            BY <3>1, Zenon
          <5> HIDE DEF RS, VS
          <5>2. \/ row \in {<<"radio.status", 0, no>>, <<"radio.status", 0, yes>>}
                \/ row \in N \/ row \in RS \/ row \in VS \/ row \in W
            BY <5>1
          <5> QED BY <5>2 DEF RS, VS
        <4> QED BY <4>1, <4>2, <4>3
      <3> QED BY <3>2, Zenon DEF R, V, W, N
    <2>2. vaps = Plan(c)
      BY DEF Plan, radios
    <2> HIDE DEF no, yes, vaps
    <2>3. CASE row \in {<<"radio.status", 0, no>>, <<"radio.status", 0, yes>>}
      BY <2>3 DEF OtherKeys
    <2>4. CASE row \in NetconfRows(c.report, {})
      BY <2>4, NetconfRowsKeys DEF OtherKeys
    <2>5. CASE \E n \in DOMAIN radios : row \in RadioRows(n, radios, vaps, c.intents, country)
      BY <2>5, RadioRowsKeys
    <2>6. CASE \E n \in DOMAIN vaps : row \in AaaRows(n, vaps, c.report) \cup WirelessRows(n, vaps[n], c.report)
      BY <2>2, <2>6
    <2>7. CASE row \in VlanRows(c.report, vaps)
      BY <2>2, <2>7
    <2> QED BY <2>1, <2>3, <2>4, <2>5, <2>6, <2>7
  <1> QED BY <1>1, <1>2, <1>3, <1>4

\* The rows of a VAP are part of the configuration.
LEMMA VapRowsRendered ==
    ASSUME NEW c, ConfigOK(c), NEW n \in DOMAIN Plan(c)
    PROVE  /\ AaaRows(n, Plan(c), c.report) \subseteq RowsOf(c)
           /\ WirelessRows(n, Plan(c)[n], c.report) \subseteq RowsOf(c)
           /\ VlanRows(c.report, Plan(c)) \subseteq RowsOf(c)
  <1> DEFINE radios == StoredRadios(c.report.radios)
             vaps == PlanVaps(radios, c.wlans)
  <1>1. vaps = Plan(c)
    BY DEF Plan
  <1>2. vaps[n].radio \in DOMAIN radios
    BY <1>1, PlanContent DEF PlanOK
  <1>3. radios # << >>
    BY <1>2
  <1> HIDE DEF vaps
  <1>4. /\ AaaRows(n, vaps, c.report) \subseteq EmitWirelessCfg(c.report, c.wlans, c.intents, Country(c.knobs))
        /\ WirelessRows(n, vaps[n], c.report) \subseteq EmitWirelessCfg(c.report, c.wlans, c.intents, Country(c.knobs))
        /\ VlanRows(c.report, vaps) \subseteq EmitWirelessCfg(c.report, c.wlans, c.intents, Country(c.knobs))
    <2> DEFINE R(k) == RadioRows(k, radios, vaps, c.intents, Country(c.knobs))
               V(k) == AaaRows(k, vaps, c.report) \cup WirelessRows(k, vaps[k], c.report)
               yes == {<<"radio.status", 0, TRUE>>}
               W == VlanRows(c.report, vaps)
    <2> HIDE DEF radios
    <2>1. EmitWirelessCfg(c.report, c.wlans, c.intents, Country(c.knobs)) =
             yes \cup (UNION {R(k) : k \in DOMAIN radios}) \cup (UNION {V(k) : k \in DOMAIN vaps}) \cup W
      BY <1>3, Zenon DEF EmitWirelessCfg, vaps, radios
    <2> HIDE DEF R, V, yes, W
    <2>2. /\ V(n) \subseteq EmitWirelessCfg(c.report, c.wlans, c.intents, Country(c.knobs))
          /\ W \subseteq EmitWirelessCfg(c.report, c.wlans, c.intents, Country(c.knobs))
      <3>1. n \in DOMAIN vaps
        BY <1>1
      <3>2. V(n) \subseteq UNION {V(k) : k \in DOMAIN vaps}
        BY <3>1, Zenon
      <3> DEFINE RS == UNION {R(k) : k \in DOMAIN radios}
                 VS == UNION {V(k) : k \in DOMAIN vaps}
      <3>3. V(n) \subseteq VS
        BY <3>2, Zenon
      <3>4. EmitWirelessCfg(c.report, c.wlans, c.intents, Country(c.knobs)) = yes \cup RS \cup VS \cup W
        BY <2>1, Zenon
      <3> HIDE DEF RS, VS
      <3> QED BY <3>3, <3>4
    <2> QED BY <2>2 DEF V, W
  <1>5. EmitWirelessCfg(c.report, c.wlans, c.intents, Country(c.knobs)) \subseteq RowsOf(c)
    BY DEF RowsOf, RenderWithPlan
  <1> QED BY <1>1, <1>4, <1>5

\* The rows of a key that each VAP has one of.
LEMMA VapRow ==
    ASSUME NEW c, NEW row \in RowsOf(c), row[1] \in AaaKeys \cup WirelessKeys
    PROVE  \E n \in DOMAIN Plan(c) :
              /\ row[2] = n
              /\ \/ row \in AaaRows(n, Plan(c), c.report)
                 \/ row \in WirelessRows(n, Plan(c)[n], c.report)
  <1>1. row[1] \notin OtherKeys \cup VlanKeys
    BY DEF AaaKeys, WirelessKeys, OtherKeys, VlanKeys
  <1>2. row \notin VlanRows(c.report, Plan(c))
    BY <1>1, VlanRowsKeys
  <1>3. \/ \E n \in DOMAIN Plan(c) : row \in AaaRows(n, Plan(c), c.report)
        \/ \E n \in DOMAIN Plan(c) : row \in WirelessRows(n, Plan(c)[n], c.report)
    BY <1>1, <1>2, RowOrigin
  <1>4. CASE \E n \in DOMAIN Plan(c) : row \in AaaRows(n, Plan(c), c.report)
    BY <1>4, AaaRowsKeys
  <1>5. CASE \E n \in DOMAIN Plan(c) : row \in WirelessRows(n, Plan(c)[n], c.report)
    BY <1>5, WirelessRowsKeys
  <1> QED BY <1>3, <1>4, <1>5

\* The aaa rows and the wireless rows of one VAP.
LEMMA AaaRow ==
    ASSUME NEW c, NEW row \in RowsOf(c), row[1] \in AaaKeys
    PROVE  row[2] \in DOMAIN Plan(c) /\ row \in AaaRows(row[2], Plan(c), c.report)
  <1>1. PICK n \in DOMAIN Plan(c) :
              /\ row[2] = n
              /\ \/ row \in AaaRows(n, Plan(c), c.report)
                 \/ row \in WirelessRows(n, Plan(c)[n], c.report)
    BY VapRow
  <1>2. row[1] \notin WirelessKeys
    BY DEF AaaKeys, WirelessKeys
  <1> QED BY <1>1, <1>2, WirelessRowsKeys

LEMMA WirelessRow ==
    ASSUME NEW c, NEW row \in RowsOf(c), row[1] \in WirelessKeys
    PROVE  row[2] \in DOMAIN Plan(c) /\ row \in WirelessRows(row[2], Plan(c)[row[2]], c.report)
  <1>1. PICK n \in DOMAIN Plan(c) :
              /\ row[2] = n
              /\ \/ row \in AaaRows(n, Plan(c), c.report)
                 \/ row \in WirelessRows(n, Plan(c)[n], c.report)
    BY VapRow
  <1>2. row[1] \notin AaaKeys
    BY DEF AaaKeys, WirelessKeys
  <1> QED BY <1>1, <1>2, AaaRowsKeys

\* A key with one row of an index has the value of that row.
LEMMA ValueOfOnlyRow ==
    ASSUME NEW rows, NEW key, NEW n, NEW v, <<key, n, v>> \in rows,
           \A row \in rows : row[1] = key /\ row[2] = n => row = <<key, n, v>>
    PROVE  Value(rows, key, n) = v
  <1> DEFINE R(row) == row[2] = n
             x == CHOOSE row \in Section(rows, key) : R(row)
  <1>1. <<key, n, v>> \in Section(rows, key) /\ R(<<key, n, v>>)
    BY DEF Section
  <1>2. x \in Section(rows, key) /\ R(x)
    <2> HIDE DEF R
    <2> QED BY <1>1
  <1> HIDE DEF x
  <1>3. x = <<key, n, v>>
    BY <1>2 DEF Section
  <1>4. Value(rows, key, n) = x[3]
    BY DEF Value, x
  <1> QED BY <1>3, <1>4

\* What the rows say of a VAP is what the plan has.
LEMMA VapValues ==
    ASSUME NEW c, ConfigOK(c), NEW n \in DOMAIN Plan(c)
    PROVE  /\ Value(RowsOf(c), "aaa.devname", n) = Plan(c)[n].ath
           /\ Value(RowsOf(c), "aaa.br.devname", n) = Plan(c)[n].vid
           /\ Value(RowsOf(c), "wireless.ssid", n) = Plan(c)[n].wlan.ssid
           /\ Value(RowsOf(c), "wireless.parent", n) = Plan(c)[n].phy
           /\ Plan(c)[n].wlan.security = "wpa-eap" =>
                 Value(RowsOf(c), "aaa.radius.auth", n) =
                    Slots(Plan(c)[n].wlan.servers, AuthPort, Plan(c)[n].wlan.secret)
  <1> DEFINE rows == RowsOf(c)
             vaps == Plan(c)
             auth == Slots(vaps[n].wlan.servers, AuthPort, vaps[n].wlan.secret)
  <1>1. /\ <<"aaa.devname", n, vaps[n].ath>> \in AaaRows(n, vaps, c.report)
        /\ <<"aaa.br.devname", n, vaps[n].vid>> \in AaaRows(n, vaps, c.report)
        /\ <<"wireless.ssid", n, vaps[n].wlan.ssid>> \in WirelessRows(n, vaps[n], c.report)
        /\ <<"wireless.parent", n, vaps[n].phy>> \in WirelessRows(n, vaps[n], c.report)
    BY Zenon DEF AaaRows, AaaBridge, WirelessRows
  <1>2. vaps[n].wlan.security = "wpa-eap" =>
           <<"aaa.radius.auth", n, auth>> \in AaaRows(n, vaps, c.report)
    <2> SUFFICES ASSUME vaps[n].wlan.security = "wpa-eap"
                 PROVE  <<"aaa.radius.auth", n, auth>> \in AaaRows(n, vaps, c.report)
      OBVIOUS
    <2>1. <<"aaa.radius.auth", n, auth>> \in EapRows(n, vaps, c.report)
      BY AuthRow
    <2> HIDE DEF auth, vaps
    <2>2. EapRows(n, vaps, c.report) \subseteq AaaRows(n, vaps, c.report)
      BY Zenon DEF AaaRows, When
    <2> QED BY <2>1, <2>2
  <1>3. AaaRows(n, vaps, c.report) \subseteq rows /\ WirelessRows(n, vaps[n], c.report) \subseteq rows
    BY VapRowsRendered
  <1>4. ASSUME NEW row \in rows, row[2] = n
        PROVE  /\ row[1] = "aaa.devname" => row = <<"aaa.devname", n, vaps[n].ath>>
               /\ row[1] = "aaa.br.devname" => row = <<"aaa.br.devname", n, vaps[n].vid>>
               /\ row[1] = "aaa.radius.auth" => row = <<"aaa.radius.auth", n, auth>>
    <2>1. SUFFICES ASSUME row[1] \in {"aaa.devname", "aaa.br.devname", "aaa.radius.auth"}
                   PROVE  row \in AaaRows(n, vaps, c.report)
      BY AaaRowsKeys
    <2>2. row[1] \in AaaKeys
      BY <2>1 DEF AaaKeys
    <2> QED BY <1>4, <2>2, AaaRow
  <1>5. ASSUME NEW row \in rows, row[2] = n
        PROVE  /\ row[1] = "wireless.ssid" => row = <<"wireless.ssid", n, vaps[n].wlan.ssid>>
               /\ row[1] = "wireless.parent" => row = <<"wireless.parent", n, vaps[n].phy>>
    <2>1. SUFFICES ASSUME row[1] \in {"wireless.ssid", "wireless.parent"}
                   PROVE  row \in WirelessRows(n, vaps[n], c.report)
      BY WirelessRowsKeys
    <2>2. row[1] \in WirelessKeys
      BY <2>1 DEF WirelessKeys
    <2> QED BY <1>5, <2>2, WirelessRow
  <1> HIDE DEF rows, vaps, auth
  <1>6. Value(rows, "aaa.devname", n) = vaps[n].ath
    BY <1>1, <1>3, <1>4, ValueOfOnlyRow
  <1>7. Value(rows, "aaa.br.devname", n) = vaps[n].vid
    BY <1>1, <1>3, <1>4, ValueOfOnlyRow
  <1>8. Value(rows, "wireless.ssid", n) = vaps[n].wlan.ssid
    BY <1>1, <1>3, <1>5, ValueOfOnlyRow
  <1>9. Value(rows, "wireless.parent", n) = vaps[n].phy
    BY <1>1, <1>3, <1>5, ValueOfOnlyRow
  <1>10. vaps[n].wlan.security = "wpa-eap" => Value(rows, "aaa.radius.auth", n) = auth
    BY <1>2, <1>3, <1>4, ValueOfOnlyRow
  <1> QED BY <1>6, <1>7, <1>8, <1>9, <1>10 DEF rows, vaps, auth

\* The slots of the rows are the VAPs of the plan.
LEMMA VapSlotsOfPlan ==
    ASSUME NEW c, ConfigOK(c)
    PROVE  VapSlots(RowsOf(c)) = DOMAIN Plan(c)
  <1>1. ASSUME NEW n \in VapSlots(RowsOf(c)) PROVE n \in DOMAIN Plan(c)
    <2>1. PICK row \in RowsOf(c) : row[1] = "aaa.ssid" /\ row[2] = n
      BY DEF VapSlots, Section
    <2>2. row[1] \in AaaKeys
      BY <2>1 DEF AaaKeys
    <2> QED BY <2>1, <2>2, AaaRow
  <1>2. ASSUME NEW n \in DOMAIN Plan(c) PROVE n \in VapSlots(RowsOf(c))
    <2> DEFINE row == <<"aaa.ssid", n, Plan(c)[n].wlan.ssid>>
    <2>1. row \in AaaRows(n, Plan(c), c.report)
      BY Zenon DEF AaaRows
    <2>2. row \in RowsOf(c)
      BY <2>1, VapRowsRendered
    <2>3. row[1] = "aaa.ssid" /\ row[2] = n
      OBVIOUS
    <2> HIDE DEF row
    <2> QED BY <2>2, <2>3 DEF VapSlots, Section
  <1> QED BY <1>1, <1>2

-----------------------------------------------------------------------------
(* What the device runs                                                     *)

LEMMA DevRowsCases ==
    ASSUME TInv
    PROVE  \/ DevRows = {}
           \/ ConfigOK(dev.config) /\ DevRows = RowsOf(dev.config)
BY DEF TInv, DevRows

\* The slots of a server list carry its secret, and the first server has one.
LEMMA SlotsShape ==
    ASSUME NEW servers, NEW secret
    PROVE  /\ \A e : secret # e => \A s \in Slots(servers, AuthPort, secret) : s[4] # e
           /\ 1 \in DOMAIN servers /\ servers[1].ip # "" => Slots(servers, AuthPort, secret) # {}
  <1> DEFINE used == {j \in DOMAIN servers : j <= 4 /\ servers[j].ip # ""}
             slot(k) == <<k, servers[k].ip, Ports(servers, AuthPort)[k].port, secret>>
             slots == Slots(servers, AuthPort, secret)
  <1>1. slots = {slot(k) : k \in used}
    BY Zenon DEF Slots
  <1>2. \A k \in used : slot(k)[4] = secret
    OBVIOUS
  <1>3. 1 <= 4
    OBVIOUS
  <1>4. 1 \in DOMAIN servers /\ servers[1].ip # "" => 1 \in used
    BY <1>3, Zenon
  <1> HIDE DEF used, slot, slots
  <1>5. /\ \A e : secret # e => \A s \in slots : s[4] # e
        /\ 1 \in used => slots # {}
    BY <1>1, <1>2
  <1> QED BY <1>4, <1>5, Zenon DEF slots

\* A server list with addresses and a secret fills its slots.
LEMMA SlotsFilled ==
    ASSUME NEW servers, NEW secret, 1 \in DOMAIN servers, secret # "",
           \A k \in DOMAIN servers : servers[k].ip # ""
    PROVE  LET auth == Slots(servers, AuthPort, secret)
           IN  auth # {} /\ \A s \in auth : s[4] # ""
  <1> DEFINE auth == Slots(servers, AuthPort, secret)
  <1>1. /\ \A e : secret # e => \A s \in auth : s[4] # e
        /\ 1 \in DOMAIN servers /\ servers[1].ip # "" => auth # {}
    BY SlotsShape, Zenon
  <1> HIDE DEF auth
  <1>2. auth # {} /\ \A s \in auth : s[4] # ""
    BY <1>1, Zenon
  <1> QED BY <1>2 DEF auth

\* A WPA-EAP WLAN that the validators accepted has a server and a secret.
LEMMA EapServed ==
    ASSUME NEW wls \in Lists, NEW i \in DOMAIN wls, wls[i].security = "wpa-eap"
    PROVE  LET auth == Slots(wls[i].servers, AuthPort, wls[i].secret)
           IN  auth # {} /\ \A s \in auth : s[4] # ""
  <1>1. wls \in Seq(Wlans) /\ ValidWlans(wls)
    BY DEF Lists
  <1>2. wls[i] \in Wlans /\ ValidWlan(wls[i])
    <2>1. wls[i] \in Wlans
      BY <1>1
    <2>2. ValidWlan(wls[i])
      BY <1>1, Zenon DEF ValidWlans
    <2> QED BY <2>1, <2>2
  <1> DEFINE w == wls[i]
  <1>3. w \in Wlans /\ ValidWlan(w) /\ w.security = "wpa-eap"
    BY <1>2
  <1> HIDE DEF w
  <1>4. ValidEap(w)
    <2>1. ValidForSecurity(w)
      BY <1>3, Zenon DEF ValidWlan
    <2> QED BY <1>3, <2>1, Zenon DEF ValidForSecurity
  <1>5. w.servers \in Seq([ip : STRING, port : Nat])
    BY <1>3 DEF Wlans, ServerLists
  <1>6. w.servers # << >> /\ w.secret # "" /\ \A k \in DOMAIN w.servers : w.servers[k].ip # ""
    <2>1. w.servers # << >> /\ w.secret \notin {"", "bad"}
      BY <1>4, Zenon DEF ValidEap
    <2>2. ValidServers(w.servers)
      BY <1>4, Zenon DEF ValidEap
    <2>3. \A k \in DOMAIN w.servers : w.servers[k].ip \notin {"", "bad"}
      BY <2>2, Zenon DEF ValidServers
    <2> QED BY <2>1, <2>3
  <1> DEFINE servers == w.servers
             Server == [ip : STRING, port : Nat]
  <1>7. servers \in Seq(Server) /\ servers # << >>
    BY <1>5, <1>6
  <1> HIDE DEF servers, Server
  <1>8. 1 \in DOMAIN servers
    BY <1>7
  <1>9. LET auth == Slots(w.servers, AuthPort, w.secret)
        IN  auth # {} /\ \A s \in auth : s[4] # ""
    <2>1. 1 \in DOMAIN w.servers
      BY <1>8 DEF servers
    <2> QED BY <1>6, <2>1, SlotsFilled, Zenon
  <1> QED BY <1>9 DEF w

\* A WPA-EAP VAP never reaches a device without an auth server and its secret
\* (validateWlanEap, intent.go; the alert of emitAaaRows, wireless.go), whatever
\* sequence of verbs built the list and whatever the device reported.
THEOREM NoDeadVapsHolds == Spec => []NoDeadVaps
  <1>1. TInv => NoDeadVaps
    <2> SUFFICES ASSUME TInv PROVE NoDeadVaps
      OBVIOUS
    <2>1. CASE DevRows = {}
      BY <2>1, Zenon DEF NoDeadVaps, VapSlots, Section
    <2>2. CASE ConfigOK(dev.config) /\ DevRows = RowsOf(dev.config)
      <3> DEFINE c == dev.config
                 rows == RowsOf(c)
                 vaps == Plan(c)
      <3>1. SUFFICES ASSUME NEW n \in VapSlots(rows), <<"aaa.wpa.key.mgmt", n, "WPA-EAP">> \in rows
                     PROVE  LET auth == Value(rows, "aaa.radius.auth", n)
                            IN  auth # {} /\ \A s \in auth : s[4] # ""
        BY <2>2, Zenon DEF NoDeadVaps
      <3>2. n \in DOMAIN vaps
        BY <2>2, VapSlotsOfPlan
      <3>3. vaps[n].wlan.security = "wpa-eap"
        <4> DEFINE row == <<"aaa.wpa.key.mgmt", n, "WPA-EAP">>
        <4>1. row[1] \in AaaKeys /\ row[2] = n
          BY DEF AaaKeys
        <4>2. row \in rows /\ row = <<"aaa.wpa.key.mgmt", n, "WPA-EAP">>
          BY <3>1
        <4> HIDE DEF row
        <4>3. row \in AaaRows(n, vaps, c.report)
          BY <4>1, <4>2, AaaRow
        <4> QED BY <4>2, <4>3, AaaRowsKeys
      <3>4. PICK i \in DOMAIN c.wlans : vaps[n].wlan = c.wlans[i]
        <4>1. \A k \in DOMAIN vaps : \E i \in DOMAIN c.wlans : vaps[k].wlan = c.wlans[i]
          BY <2>2, PlanContent DEF PlanOK
        <4> QED BY <3>2, <4>1
      <3>5. Value(rows, "aaa.radius.auth", n) = Slots(c.wlans[i].servers, AuthPort, c.wlans[i].secret)
        BY <2>2, <3>2, <3>3, <3>4, VapValues
      <3>6. LET auth == Slots(c.wlans[i].servers, AuthPort, c.wlans[i].secret)
            IN  auth # {} /\ \A s \in auth : s[4] # ""
        <4>1. c.wlans \in Lists /\ c.wlans[i].security = "wpa-eap"
          BY <2>2, <3>3, <3>4 DEF ConfigOK
        <4> HIDE DEF c
        <4> QED BY <4>1, EapServed, Zenon
      <3> HIDE DEF c, rows
      <3> QED BY <3>5, <3>6
    <2> QED BY <2>1, <2>2, DevRowsCases
  <1> QED BY <1>1, InitType, TypeStep, PTL DEF Spec

-----------------------------------------------------------------------------
(* Bridges, tags and ports                                                  *)

\* There is a wired port.
LEMMA EthPortListed ==
    ASSUME NEW report, ReportOK(report)
    PROVE  1 \in DOMAIN EthPorts(report)
  <1>1. report.ethTable \in Seq(Nat) /\ IsFiniteSet(report.ifTable)
    BY DEF ReportOK, Report, ReportFields
  <1> DEFINE table == report.ethTable
             count(e) == IF e = 0 THEN 1 ELSE IF e > 8 THEN 8 ELSE e
             counted == {p \in (DOMAIN table) \X (1 .. 8) : p[2] <= count(table[p[1]])}
             total == Cardinality(counted)
             all == InOrder(report.ifTable, Smaller(report.ifTable))
             one == IF report.uplink = Unset THEN 0 ELSE report.uplink
  <1>2. EthPorts(report) =
           IF table # << >> THEN [k \in 1 .. (IF total > 64 THEN 64 ELSE total) |-> k - 1]
           ELSE IF report.ifTable # {} THEN all ELSE <<one>>
    BY DEF EthPorts
  <1>3. CASE table # << >>
    <2>1. Len(table) \in Nat /\ DOMAIN table = 1 .. Len(table) /\ 1 \in DOMAIN table /\ table[1] \in Nat
      BY <1>1, <1>3
    <2>2. IsFiniteSet(counted)
      <3>1. IsFiniteSet(1 .. Len(table)) /\ IsFiniteSet(1 .. 8)
        <4>1. \A m \in Nat : IsFiniteSet(1 .. m)
          BY FS_Interval
        <4> HIDE DEF table
        <4> QED BY <2>1, <4>1
      <3>2. IsFiniteSet((DOMAIN table) \X (1 .. 8))
        BY <2>1, <3>1, FS_Product
      <3> QED BY <3>2, FS_Subset
    <2>3. <<1, 1>> \in counted
      <3>1. 1 <= count(table[1])
        BY <2>1
      <3> HIDE DEF count
      <3> QED BY <2>1, <3>1
    <2> HIDE DEF counted
    <2>4. total \in Nat /\ total # 0
      BY <2>2, <2>3, FS_CardinalityType, FS_EmptySet
    <2> HIDE DEF total, all, one, table
    <2>5. 1 \in 1 .. (IF total > 64 THEN 64 ELSE total)
      BY <2>4
    <2> QED BY <1>2, <1>3, <2>5
  <1>4. CASE table = << >> /\ report.ifTable # {}
    <2>1. Cardinality(report.ifTable) \in Nat /\ Cardinality(report.ifTable) # 0
      BY <1>1, <1>4, FS_CardinalityType, FS_EmptySet
    <2>2. DOMAIN all = 1 .. Cardinality(report.ifTable)
      BY DEF InOrder
    <2> HIDE DEF all, one, table, total
    <2> QED BY <1>2, <1>4, <2>1, <2>2
  <1>5. CASE table = << >> /\ report.ifTable = {}
    <2> HIDE DEF all, one, table, total
    <2> QED BY <1>2, <1>5
  <1> QED BY <1>3, <1>4, <1>5

\* The bridge rows of a configuration, and its tagged sub-interfaces.
LEMMA BridgeRows ==
    ASSUME NEW c, ConfigOK(c)
    PROVE  LET vaps == Plan(c)
               eth == EthPorts(c.report)
           IN  /\ \A row \in RowsOf(c) : row[1] = "bridge" =>
                     \E vid \in Vids(vaps) \cup {0} :
                        row = <<"bridge", vid, BridgePorts(vid, vaps, eth)>>
               /\ \A n \in DOMAIN vaps : \A vid \in Vids(vaps) \cup {0} :
                     <<"bridge", vid, BridgePorts(vid, vaps, eth)>> \in RowsOf(c)
               /\ \A vid \in Vids(vaps) :
                     <<"vlan", vid, {eth[k] : k \in DOMAIN eth}>> \in RowsOf(c)
  <1> DEFINE vaps == Plan(c)
             eth == EthPorts(c.report)
             ports(vid) == BridgePorts(vid, vaps, eth)
             wired == {eth[k] : k \in DOMAIN eth}
  <1>1. ASSUME NEW row \in RowsOf(c), row[1] = "bridge"
        PROVE  \E vid \in Vids(vaps) \cup {0} : row = <<"bridge", vid, ports(vid)>>
    <2>1. row[1] \notin AaaKeys \cup WirelessKeys \cup OtherKeys
      BY <1>1 DEF AaaKeys, WirelessKeys, OtherKeys
    <2>2. row \in VlanRows(c.report, vaps)
      BY <2>1, RowOrigin, AaaRowsKeys, WirelessRowsKeys
    <2> QED BY <1>1, <2>2, VlanRowsKeys
  <1>2. /\ \A vid \in Vids(vaps) \cup {0} : <<"bridge", vid, ports(vid)>> \in VlanRows(c.report, vaps)
        /\ \A vid \in Vids(vaps) : <<"vlan", vid, wired>> \in VlanRows(c.report, vaps)
    <2> DEFINE V == {<<"vlan", vid, wired>> : vid \in Vids(vaps)}
               B == {<<"bridge", vid, ports(vid)>> : vid \in Vids(vaps) \cup {0}}
               N == NetconfRows(c.report, Vids(vaps))
    <2>1. VlanRows(c.report, vaps) = V \cup B \cup N
      BY Zenon DEF VlanRows
    <2>2. /\ \A vid \in Vids(vaps) \cup {0} : <<"bridge", vid, ports(vid)>> \in B
          /\ \A vid \in Vids(vaps) : <<"vlan", vid, wired>> \in V
      <3> HIDE DEF ports, wired
      <3> QED OBVIOUS
    <2> HIDE DEF V, B, N, ports, wired
    <2> QED BY <2>1, <2>2
  <1>3. \A n \in DOMAIN vaps : VlanRows(c.report, vaps) \subseteq RowsOf(c)
    BY VapRowsRendered
  <1>4. \A vid \in Vids(vaps) : \E n \in DOMAIN vaps : TRUE
    BY DEF Vids
  <1> HIDE DEF ports, wired, vaps, eth
  <1>5. \A n \in DOMAIN vaps : \A vid \in Vids(vaps) \cup {0} :
           <<"bridge", vid, ports(vid)>> \in RowsOf(c)
    BY <1>2, <1>3
  <1>6. \A vid \in Vids(vaps) : <<"vlan", vid, wired>> \in RowsOf(c)
    BY <1>2, <1>3, <1>4
  <1> QED BY <1>1, <1>5, <1>6, Zenon DEF ports, wired, vaps, eth

\* Only the bridge of its own tag has a VAP's device.
LEMMA OwnBridgeOnly ==
    ASSUME NEW c, ConfigOK(c), NEW n \in DOMAIN Plan(c), NEW vid, NEW eth
    PROVE  <<"ath", Plan(c)[n].ath, 0>> \in BridgePorts(vid, Plan(c), eth) <=> vid = Plan(c)[n].vid
  <1> DEFINE vaps == Plan(c)
             wired == {<<"eth", eth[k], vid>> : k \in DOMAIN eth}
             own == {<<"ath", vaps[k].ath, 0>> : k \in {j \in DOMAIN vaps : vaps[j].vid = vid}}
             port == <<"ath", vaps[n].ath, 0>>
  <1>1. \A k, l \in DOMAIN vaps : vaps[k].ath = vaps[l].ath => k = l
    <2>1. PICK m \in Nat : DOMAIN vaps = 1 .. m
      BY PlanContent DEF PlanOK
    <2>2. \A k \in DOMAIN vaps : vaps[k].ath = k - 1
      BY PlanContent DEF PlanOK
    <2> HIDE DEF vaps
    <2> QED BY <2>1, <2>2
  <1>2. BridgePorts(vid, vaps, eth) = wired \cup own
    BY DEF BridgePorts
  <1>3. port \notin wired
    BY DEF wired
  <1> HIDE DEF vaps
  <1>4. port \in own <=> vid = vaps[n].vid
    BY <1>1 DEF vaps
  <1> HIDE DEF wired, own, port
  <1> QED BY <1>2, <1>3, <1>4 DEF port, vaps

-----------------------------------------------------------------------------
(* The wiring                                                               *)

\* A VAP is in exactly one bridge, the one its aaa row names.
LEMMA OneBridge ==
    ASSUME NEW c, ConfigOK(c), NEW n \in VapSlots(RowsOf(c))
    PROVE  LET rows == RowsOf(c)
               port == <<"ath", Value(rows, "aaa.devname", n), 0>>
           IN  {b[2] : b \in {x \in Section(rows, "bridge") : port \in x[3]}}
                  = {Value(rows, "aaa.br.devname", n)}
  <1> DEFINE rows == RowsOf(c)
             vaps == Plan(c)
             eth == EthPorts(c.report)
             port == <<"ath", vaps[n].ath, 0>>
             bridges == Section(rows, "bridge")
             row(vid) == <<"bridge", vid, BridgePorts(vid, vaps, eth)>>
  <1>1. n \in DOMAIN vaps
    BY VapSlotsOfPlan
  <1>2. Value(rows, "aaa.devname", n) = vaps[n].ath /\ Value(rows, "aaa.br.devname", n) = vaps[n].vid
    BY <1>1, VapValues
  <1>3. \A b \in bridges : \E vid \in Vids(vaps) \cup {0} : b = row(vid)
    BY BridgeRows DEF Section
  <1>4. row(vaps[n].vid) \in bridges
    <2>1. vaps[n].vid \in Vids(vaps) \cup {0}
      BY <1>1 DEF Vids
    <2>2. row(vaps[n].vid) \in rows
      BY <1>1, <2>1, BridgeRows
    <2>3. row(vaps[n].vid)[1] = "bridge"
      OBVIOUS
    <2> HIDE DEF row, rows, vaps
    <2> QED BY <2>2, <2>3 DEF Section
  <1>5. \A vid : /\ row(vid)[2] = vid
                 /\ port \in row(vid)[3] <=> vid = vaps[n].vid
    BY <1>1, OwnBridgeOnly
  <1> HIDE DEF rows, vaps, eth, port, bridges, row
  <1>6. {b[2] : b \in {x \in bridges : port \in x[3]}} = {vaps[n].vid}
    <2>1. ASSUME NEW b \in bridges, port \in b[3] PROVE b[2] = vaps[n].vid
      BY <1>3, <1>5, <2>1
    <2>2. /\ port \in row(vaps[n].vid)[3]
          /\ row(vaps[n].vid)[2] = vaps[n].vid
      BY <1>5
    <2> QED BY <1>4, <2>1, <2>2
  <1>7. port = <<"ath", Value(rows, "aaa.devname", n), 0>>
    BY <1>2 DEF port
  <1> QED BY <1>2, <1>6, <1>7 DEF rows, bridges

\* A tagged bridge has a tagged sub-interface of every wired port.
LEMMA TaggedBridge ==
    ASSUME NEW c, ConfigOK(c), NEW b \in Section(RowsOf(c), "bridge"), b[2] # 0
    PROVE  LET ports == {p[2] : p \in {x \in b[3] : x[1] = "eth"}}
           IN  ports # {} /\ <<"vlan", b[2], ports>> \in RowsOf(c)
  <1> DEFINE vaps == Plan(c)
             eth == EthPorts(c.report)
             wired == {eth[k] : k \in DOMAIN eth}
  <1>1. PICK vid \in Vids(vaps) \cup {0} : b = <<"bridge", vid, BridgePorts(vid, vaps, eth)>>
    BY BridgeRows DEF Section
  <1>2. b[2] = vid /\ b[3] = BridgePorts(vid, vaps, eth) /\ vid \in Vids(vaps)
    BY <1>1
  <1>3. <<"vlan", vid, wired>> \in RowsOf(c)
    BY <1>2, BridgeRows
  <1>4. {p[2] : p \in {x \in BridgePorts(vid, vaps, eth) : x[1] = "eth"}} = wired
    <2> DEFINE E == {<<"eth", eth[k], vid>> : k \in DOMAIN eth}
               A == {<<"ath", vaps[k].ath, 0>> : k \in {j \in DOMAIN vaps : vaps[j].vid = vid}}
    <2>1. BridgePorts(vid, vaps, eth) = E \cup A
      BY DEF BridgePorts
    <2> HIDE DEF eth, vaps
    <2>2. \A x \in A : x[1] # "eth"
      OBVIOUS
    <2>3. \A x \in E : x[1] = "eth"
      OBVIOUS
    <2>4. {p[2] : p \in E} = wired
      <3>1. \A k \in DOMAIN eth : <<"eth", eth[k], vid>> \in E /\ <<"eth", eth[k], vid>>[2] = eth[k]
        OBVIOUS
      <3>2. \A p \in E : \E k \in DOMAIN eth : p[2] = eth[k]
        OBVIOUS
      <3>3. \A v \in wired : \E k \in DOMAIN eth : v = eth[k]
        OBVIOUS
      <3>4. \A k \in DOMAIN eth : eth[k] \in wired
        OBVIOUS
      <3> HIDE DEF E, wired
      <3>5. \A v \in wired : \E p \in E : p[2] = v
        BY <3>1, <3>3
      <3>6. \A p \in E : p[2] \in wired
        BY <3>2, <3>4
      <3> QED BY <3>5, <3>6
    <2> HIDE DEF E, A, wired
    <2>5. {x \in BridgePorts(vid, vaps, eth) : x[1] = "eth"} = E
      BY <2>1, <2>2, <2>3
    <2> QED BY <2>4, <2>5
  <1>5. wired # {}
    <2>1. 1 \in DOMAIN eth
      BY EthPortListed DEF ConfigOK
    <2> HIDE DEF eth
    <2> QED BY <2>1
  <1> HIDE DEF vaps, eth, wired
  <1> QED BY <1>2, <1>3, <1>4, <1>5

\* No two VAPs share a device or a dynamic authorization port.
LEMMA DeviceUnique ==
    ASSUME NEW c, ConfigOK(c),
           NEW x \in Section(RowsOf(c), "aaa.devname"), NEW y \in Section(RowsOf(c), "aaa.devname"),
           x[3] = y[3]
    PROVE  x = y
  <1> DEFINE vaps == Plan(c)
  <1>1. ASSUME NEW r \in Section(RowsOf(c), "aaa.devname")
        PROVE  \E n \in DOMAIN vaps : r = <<"aaa.devname", n, n - 1>>
    <2>1. r \in RowsOf(c) /\ r[1] = "aaa.devname" /\ r[1] \in AaaKeys
      BY DEF Section, AaaKeys
    <2>2. r[2] \in DOMAIN vaps /\ r \in AaaRows(r[2], vaps, c.report)
      BY <2>1, AaaRow
    <2>3. r = <<"aaa.devname", r[2], vaps[r[2]].ath>>
      BY <2>1, <2>2, AaaRowsKeys
    <2>4. vaps[r[2]].ath = r[2] - 1
      BY <2>2, PlanContent DEF PlanOK
    <2> HIDE DEF vaps
    <2> QED BY <2>2, <2>3, <2>4
  <1>2. PICK m \in Nat : DOMAIN vaps = 1 .. m
    BY PlanContent DEF PlanOK
  <1>3. PICK k \in DOMAIN vaps : x = <<"aaa.devname", k, k - 1>>
    BY <1>1
  <1>4. PICK l \in DOMAIN vaps : y = <<"aaa.devname", l, l - 1>>
    BY <1>1
  <1> HIDE DEF vaps
  <1>5. k - 1 = l - 1
    BY <1>3, <1>4
  <1>6. k = l
    BY <1>2, <1>5
  <1> QED BY <1>3, <1>4, <1>6

LEMMA DasPortUnique ==
    ASSUME NEW c, ConfigOK(c),
           NEW x \in Section(RowsOf(c), "aaa.das.port"), NEW y \in Section(RowsOf(c), "aaa.das.port"),
           x[3] = y[3]
    PROVE  x = y
  <1> DEFINE vaps == Plan(c)
  <1>1. ASSUME NEW r \in Section(RowsOf(c), "aaa.das.port")
        PROVE  \E n \in DOMAIN vaps : r = <<"aaa.das.port", n, 3800 + n>>
    <2>1. r \in RowsOf(c) /\ r[1] = "aaa.das.port" /\ r[1] \in AaaKeys
      BY DEF Section, AaaKeys
    <2>2. r[2] \in DOMAIN vaps /\ r \in AaaRows(r[2], vaps, c.report)
      BY <2>1, AaaRow
    <2>3. r = <<"aaa.das.port", r[2], 3800 + r[2]>>
      BY <2>1, <2>2, AaaRowsKeys
    <2> HIDE DEF vaps
    <2> QED BY <2>2, <2>3
  <1>2. PICK m \in Nat : DOMAIN vaps = 1 .. m
    BY PlanContent DEF PlanOK
  <1>3. PICK k \in DOMAIN vaps : x = <<"aaa.das.port", k, 3800 + k>>
    BY <1>1
  <1>4. PICK l \in DOMAIN vaps : y = <<"aaa.das.port", l, 3800 + l>>
    BY <1>1
  <1> HIDE DEF vaps
  <1>5. 3800 + k = 3800 + l
    BY <1>3, <1>4
  <1>6. k = l
    BY <1>2, <1>5
  <1> QED BY <1>3, <1>4, <1>6

\* The dynamic authorization daemon has one port.
LEMMA DadPortOnce ==
    ASSUME NEW c, ConfigOK(c)
    PROVE  Cardinality(Section(RowsOf(c), "aaa.dad.port")) <= 1
  <1> DEFINE vaps == Plan(c)
             S == Section(RowsOf(c), "aaa.dad.port")
             gated(k) == vaps[k].wlan.security = "wpa-eap" /\ DasGate(vaps[k], c.report)
  <1>1. PICK m \in Nat : DOMAIN vaps = 1 .. m
    BY PlanContent DEF PlanOK
  <1>2. ASSUME NEW r \in S
        PROVE  /\ r[2] \in DOMAIN vaps /\ r = <<"aaa.dad.port", r[2], 3799>>
               /\ gated(r[2]) /\ \A k \in 1 .. r[2] - 1 : ~gated(k)
    <2>1. r \in RowsOf(c) /\ r[1] = "aaa.dad.port" /\ r[1] \in AaaKeys
      BY DEF Section, AaaKeys
    <2>2. r[2] \in DOMAIN vaps /\ r \in AaaRows(r[2], vaps, c.report)
      BY <2>1, AaaRow
    <2> QED BY <2>1, <2>2, AaaRowsKeys
  <1> HIDE DEF vaps, S, gated
  <1>3. ASSUME NEW x \in S, NEW y \in S PROVE x = y
    <2>1. x[2] \in 1 .. m /\ y[2] \in 1 .. m
      BY <1>1, <1>2
    <2>2. ~(x[2] < y[2])
      <3>1. x[2] < y[2] => x[2] \in 1 .. y[2] - 1
        BY <2>1
      <3> QED BY <1>2, <3>1
    <2>3. ~(y[2] < x[2])
      <3>1. y[2] < x[2] => y[2] \in 1 .. x[2] - 1
        BY <2>1
      <3> QED BY <1>2, <3>1
    <2>4. x[2] = y[2]
      BY <2>1, <2>2, <2>3
    <2> QED BY <1>2, <2>4
  <1>4. CASE S = {}
    <2>1. Cardinality(S) = 0
      BY <1>4, FS_EmptySet
    <2> QED BY <2>1 DEF S
  <1>5. CASE S # {}
    <2>1. PICK x \in S : TRUE
      BY <1>5
    <2>2. S = {x}
      BY <1>3, <2>1
    <2>3. Cardinality({x}) = 1
      BY FS_Singleton
    <2>4. Cardinality(S) = 1
      BY <2>2, <2>3
    <2> QED BY <2>4 DEF S
  <1> QED BY <1>4, <1>5

\* The sections of the pushed configuration agree (aaaBridge, emitVlanBlocks,
\* emitAaaRows): one bridge for each VAP, tagged sub-interfaces for each tagged
\* bridge, no device, authorization port or SSID of a radio used twice. It rests on
\* the validators (unique SSIDs) and on PlanVaps (one VAP for each radio and WLAN).
THEOREM WiringSoundHolds == Spec => []WiringSound
  <1>1. TInv => WiringSound
    <2> SUFFICES ASSUME TInv PROVE WiringSound
      OBVIOUS
    <2>1. CASE DevRows = {}
      <3>1. \A key : Section(DevRows, key) = {}
        BY <2>1 DEF Section
      <3>2. VapSlots(DevRows) = {}
        BY <3>1 DEF VapSlots
      <3>3. Cardinality({}) <= 1
        BY FS_EmptySet
      <3> QED BY <3>1, <3>2, <3>3, Zenon DEF WiringSound
    <2>2. CASE ConfigOK(dev.config) /\ DevRows = RowsOf(dev.config)
      <3> DEFINE c == dev.config
                 rows == RowsOf(c)
      <3>1. ConfigOK(c) /\ DevRows = rows
        BY <2>2
      <3> HIDE DEF c
      <3>2. \A n \in VapSlots(rows) :
               {b[2] : b \in {x \in Section(rows, "bridge") :
                                 <<"ath", Value(rows, "aaa.devname", n), 0>> \in x[3]}}
                  = {Value(rows, "aaa.br.devname", n)}
        BY <3>1, OneBridge
      <3>3. \A b \in Section(rows, "bridge") : b[2] # 0 =>
               /\ {p[2] : p \in {x \in b[3] : x[1] = "eth"}} # {}
               /\ <<"vlan", b[2], {p[2] : p \in {x \in b[3] : x[1] = "eth"}}>> \in rows
        BY <3>1, TaggedBridge
      <3>4. /\ \A x, y \in Section(rows, "aaa.devname") : x # y => x[3] # y[3]
            /\ \A x, y \in Section(rows, "aaa.das.port") : x # y => x[3] # y[3]
        BY <3>1, DeviceUnique, DasPortUnique
      <3>5. Cardinality(Section(rows, "aaa.dad.port")) <= 1
        BY <3>1, DadPortOnce
      <3>6. ASSUME NEW m \in VapSlots(rows), NEW n \in VapSlots(rows), m # n
            PROVE  <<Value(rows, "wireless.ssid", m), Value(rows, "wireless.parent", m)>>
                     # <<Value(rows, "wireless.ssid", n), Value(rows, "wireless.parent", n)>>
        <4>1. m \in DOMAIN Plan(c) /\ n \in DOMAIN Plan(c)
          BY <3>1, VapSlotsOfPlan
        <4>2. Plan(c)[m].phy # Plan(c)[n].phy \/ Plan(c)[m].wlan.ssid # Plan(c)[n].wlan.ssid
          BY <3>1, <3>6, <4>1, PlanContent DEF PlanOK
        <4>3. /\ Value(rows, "wireless.ssid", m) = Plan(c)[m].wlan.ssid
              /\ Value(rows, "wireless.parent", m) = Plan(c)[m].phy
              /\ Value(rows, "wireless.ssid", n) = Plan(c)[n].wlan.ssid
              /\ Value(rows, "wireless.parent", n) = Plan(c)[n].phy
          BY <3>1, <4>1, VapValues
        <4> HIDE DEF rows
        <4> QED BY <4>2, <4>3
      <3> HIDE DEF rows
      <3> QED BY <3>1, <3>2, <3>3, <3>4, <3>5, <3>6, Zenon DEF WiringSound
    <2> QED BY <2>1, <2>2, DevRowsCases
  <1> QED BY <1>1, InitType, TypeStep, PTL DEF Spec

-----------------------------------------------------------------------------
(* The drift hash covers the rows                                           *)

\* Two WLANs that render alike.
Alike(w, x) ==
    /\ w.ssid = x.ssid /\ w.security = x.security /\ w.psk = x.psk /\ w.vlan = x.vlan
    /\ w.enabled = x.enabled /\ w.id = x.id /\ BandOf(w) = BandOf(x)
    /\ w.security = "wpa-eap" =>
          /\ Slots(w.servers, AuthPort, w.secret) = Slots(x.servers, AuthPort, x.secret)
          /\ DynamicVlanOf(w.vlanMode) = DynamicVlanOf(x.vlanMode)
          /\ w.acct = x.acct
          /\ w.acct => /\ Slots(w.acctServers, AcctPort, w.secret) = Slots(x.acctServers, AcctPort, x.secret)
                       /\ w.interim = x.interim /\ w.das = x.das

\* The slots of a list are those of its effective ports.
LEMMA SlotsOfPorts ==
    ASSUME NEW s \in ServerLists, NEW t \in ServerLists, NEW default \in Nat, NEW secret,
           Ports(s, default) = Ports(t, default)
    PROVE  Slots(s, default, secret) = Slots(t, default, secret)
  <1>1. \A u \in ServerLists : DOMAIN Ports(u, default) = DOMAIN u
    BY DEF Ports
  <1>2. DOMAIN s = DOMAIN t
    BY <1>1
  <1>3. \A u \in ServerLists : \A i \in DOMAIN u : Ports(u, default)[i].ip = u[i].ip
    <2> SUFFICES ASSUME NEW u \in ServerLists, NEW i \in DOMAIN u
                 PROVE  Ports(u, default)[i].ip = u[i].ip
      OBVIOUS
    <2>1. u[i] \in [ip : STRING, port : Nat]
      <3> DEFINE Server == [ip : STRING, port : Nat]
      <3>1. u \in Seq(Server)
        BY DEF ServerLists
      <3> HIDE DEF Server
      <3>2. u[i] \in Server
        BY <3>1
      <3> QED BY <3>2 DEF Server
    <2>2. Ports(u, default)[i] = [u[i] EXCEPT !.port = IF @ = 0 THEN default ELSE @]
      BY DEF Ports
    <2> QED BY <2>1, <2>2
  <1>4. \A i \in DOMAIN s : s[i].ip = t[i].ip /\ Ports(s, default)[i] = Ports(t, default)[i]
    BY <1>2, <1>3
  <1> DEFINE slot(u, i) == <<i, u[i].ip, Ports(u, default)[i].port, secret>>
             used(u) == {j \in DOMAIN u : j <= 4 /\ u[j].ip # ""}
  <1>5. \A i \in DOMAIN s : slot(s, i) = slot(t, i)
    BY <1>4
  <1>6. used(s) = used(t)
    BY <1>2, <1>4, Zenon
  <1>7. Slots(s, default, secret) = {slot(s, i) : i \in used(s)}
        /\ Slots(t, default, secret) = {slot(t, i) : i \in used(t)}
    BY Zenon DEF Slots
  <1>8. used(s) \subseteq DOMAIN s
    BY Zenon
  <1> HIDE DEF slot, used
  <1> QED BY <1>5, <1>6, <1>7, <1>8

\* Valid WLANs with the same contribution to the hash render alike.
LEMMA HashedAlike ==
    ASSUME NEW w \in Wlans, NEW x \in Wlans, ValidWlan(w), ValidWlan(x), Hashed(w) = Hashed(x)
    PROVE  Alike(w, x)
  <1> DEFINE own(v) == <<v.name, v.ssid, v.security, v.psk, v.vlan, v.enabled, v.id, BandOf(v)>>
             mode(v) == IF v.vlanMode = "" THEN "disabled" ELSE v.vlanMode
             radius(v) == IF ~HasRadiusFields(v) THEN << >>
                          ELSE <<v.secret, mode(v), Ports(v.servers, AuthPort)>>
             acct(v) == IF ~v.acct THEN << >>
                        ELSE <<Ports(v.acctServers, AcctPort), v.interim, v.das>>
  <1>1. \A v : Hashed(v) = [own |-> own(v), radius |-> radius(v), acct |-> acct(v)]
    BY Zenon DEF Hashed
  <1> HIDE DEF own, radius, acct
  <1>2. own(w) = own(x) /\ radius(w) = radius(x) /\ acct(w) = acct(x)
    BY <1>1
  <1>3. /\ w.ssid = x.ssid /\ w.security = x.security /\ w.psk = x.psk /\ w.vlan = x.vlan
        /\ w.enabled = x.enabled /\ w.id = x.id /\ BandOf(w) = BandOf(x)
    BY <1>2 DEF own
  <1>4. ASSUME w.security = "wpa-eap"
        PROVE  /\ Slots(w.servers, AuthPort, w.secret) = Slots(x.servers, AuthPort, x.secret)
               /\ DynamicVlanOf(w.vlanMode) = DynamicVlanOf(x.vlanMode)
               /\ w.acct = x.acct
               /\ w.acct => /\ Slots(w.acctServers, AcctPort, w.secret) = Slots(x.acctServers, AcctPort, x.secret)
                            /\ w.interim = x.interim /\ w.das = x.das
    <2>1. HasRadiusFields(w) /\ HasRadiusFields(x)
      <3>1. ASSUME NEW v, ValidWlan(v), v.security = "wpa-eap" PROVE HasRadiusFields(v)
        <4>1. ValidForSecurity(v)
          BY <3>1, Zenon DEF ValidWlan
        <4>2. ValidEap(v)
          BY <3>1, <4>1, Zenon DEF ValidForSecurity
        <4> QED BY <4>2, Zenon DEF ValidEap, HasRadiusFields
      <3> QED BY <1>3, <1>4, <3>1
    <2>2. w.secret = x.secret /\ mode(w) = mode(x)
          /\ Ports(w.servers, AuthPort) = Ports(x.servers, AuthPort)
      <3>1. radius(w) = <<w.secret, mode(w), Ports(w.servers, AuthPort)>>
            /\ radius(x) = <<x.secret, mode(x), Ports(x.servers, AuthPort)>>
        BY <2>1, Zenon DEF radius
      <3> HIDE DEF mode
      <3>2. <<w.secret, mode(w), Ports(w.servers, AuthPort)>> = <<x.secret, mode(x), Ports(x.servers, AuthPort)>>
        BY <1>2, <3>1, Zenon
      <3> QED BY <3>2
    <2>3. w.servers \in ServerLists /\ x.servers \in ServerLists
          /\ w.acctServers \in ServerLists /\ x.acctServers \in ServerLists
          /\ w.acct \in BOOLEAN /\ x.acct \in BOOLEAN
      BY DEF Wlans
    <2>4. AuthPort \in Nat /\ AcctPort \in Nat
      BY DEF AuthPort, AcctPort
    <2>5. Slots(w.servers, AuthPort, w.secret) = Slots(x.servers, AuthPort, x.secret)
      <3>1. Slots(w.servers, AuthPort, w.secret) = Slots(x.servers, AuthPort, w.secret)
        <4>1. Ports(w.servers, AuthPort) = Ports(x.servers, AuthPort)
          BY <2>2
        <4> HIDE DEF mode
        <4> QED BY <2>3, <2>4, <4>1, SlotsOfPorts
      <3> QED BY <2>2, <3>1
    <2>6. DynamicVlanOf(w.vlanMode) = DynamicVlanOf(x.vlanMode)
      <3>1. \A v : DynamicVlanOf(v.vlanMode) = DynamicVlanOf(mode(v))
        BY DEF DynamicVlanOf
      <3> HIDE DEF mode
      <3> QED BY <2>2, <3>1
    <2> HIDE DEF mode
    <2>7. CASE w.acct /\ x.acct
      <3>1. acct(w) = <<Ports(w.acctServers, AcctPort), w.interim, w.das>>
            /\ acct(x) = <<Ports(x.acctServers, AcctPort), x.interim, x.das>>
        BY <2>7 DEF acct
      <3>2. Ports(w.acctServers, AcctPort) = Ports(x.acctServers, AcctPort)
            /\ w.interim = x.interim /\ w.das = x.das
        <4>1. <<Ports(w.acctServers, AcctPort), w.interim, w.das>> = <<Ports(x.acctServers, AcctPort), x.interim, x.das>>
          BY <1>2, <3>1, Zenon
        <4>2. w.interim \in BOOLEAN /\ x.interim \in BOOLEAN /\ w.das \in BOOLEAN /\ x.das \in BOOLEAN
          BY DEF Wlans
        <4> QED BY <4>1, <4>2
      <3>3. Slots(w.acctServers, AcctPort, w.secret) = Slots(x.acctServers, AcctPort, w.secret)
        BY <2>3, <2>4, <3>2, SlotsOfPorts
      <3> QED BY <2>2, <2>5, <2>6, <2>7, <3>2, <3>3
    <2>8. CASE ~w.acct /\ ~x.acct
      BY <2>3, <2>5, <2>6, <2>8
    <2>9. CASE w.acct # x.acct
      <3>1. (acct(w) = << >>) # (acct(x) = << >>)
        BY <2>3, <2>9 DEF acct
      <3> QED BY <1>2, <3>1
    <2> QED BY <2>3, <2>7, <2>8, <2>9
  <1> QED BY <1>3, <1>4, Zenon DEF Alike

\* Lists with the same hash have WLANs that render alike, one by one.
AlikeLists(wls, other) ==
    /\ DOMAIN wls = DOMAIN other
    /\ \A i \in DOMAIN wls : Alike(wls[i], other[i])

LEMMA HashedAlikeLists ==
    ASSUME NEW wls \in Lists, NEW other \in Lists, WlanListHash(wls) = WlanListHash(other)
    PROVE  AlikeLists(wls, other)
  <1>1. /\ wls \in Seq(Wlans) /\ ValidWlans(wls)
        /\ other \in Seq(Wlans) /\ ValidWlans(other)
    BY DEF Lists
  <1>2. /\ \A i \in DOMAIN wls : wls[i] \in Wlans
        /\ \A i \in DOMAIN other : other[i] \in Wlans
    BY <1>1
  <1>3. /\ \A i \in DOMAIN wls : ValidWlan(wls[i])
        /\ \A i \in DOMAIN other : ValidWlan(other[i])
    BY <1>1, Zenon DEF ValidWlans
  <1>4. DOMAIN wls = DOMAIN other
    <2>1. DOMAIN WlanListHash(wls) = DOMAIN wls /\ DOMAIN WlanListHash(other) = DOMAIN other
      BY DEF WlanListHash
    <2> QED BY <2>1
  <1>5. \A i \in DOMAIN wls : Hashed(wls[i]) = Hashed(other[i])
    <2>1. \A i \in DOMAIN wls : WlanListHash(wls)[i] = Hashed(wls[i])
      BY DEF WlanListHash
    <2>2. \A i \in DOMAIN other : WlanListHash(other)[i] = Hashed(other[i])
      BY DEF WlanListHash
    <2> QED BY <1>4, <2>1, <2>2
  <1> QED BY <1>2, <1>3, <1>4, <1>5, HashedAlike DEF AlikeLists

\* The plans of such lists differ in nothing that is rendered.
PlansAlike(vaps, twins) ==
    /\ DOMAIN vaps = DOMAIN twins
    /\ \A k \in DOMAIN vaps :
          /\ vaps[k].ath = twins[k].ath /\ vaps[k].vid = twins[k].vid
          /\ vaps[k].radio = twins[k].radio /\ vaps[k].phy = twins[k].phy
          /\ Alike(vaps[k].wlan, twins[k].wlan)

LEMMA AlikePlans ==
    ASSUME NEW report, ReportOK(report), NEW wls \in Lists, NEW other \in Lists,
           AlikeLists(wls, other)
    PROVE  LET radios == StoredRadios(report.radios)
           IN  PlansAlike(PlanVaps(radios, wls), PlanVaps(radios, other))
  <1> DEFINE radios == StoredRadios(report.radios)
             slots == SlotSet(radios, wls)
             m == Cardinality(slots)
             order == VapOrder(radios, wls)
  <1>1. PICK n \in Nat : DOMAIN radios = 1 .. n
    BY StoredRadiosNamed
  <1>2. PICK len \in Nat : DOMAIN wls = 1 .. len /\ DOMAIN other = 1 .. len
    BY DEF Lists, AlikeLists
  <1> HIDE DEF radios
  <1>3. SlotSet(radios, other) = slots
    <2>1. \A i \in DOMAIN wls : \A r : Placed(r, wls[i]) <=> Placed(r, other[i])
      <3>1. \A w, x : w.enabled = x.enabled /\ BandOf(w) = BandOf(x) =>
                         \A r : Placed(r, w) <=> Placed(r, x)
        BY Zenon DEF Placed
      <3> QED BY <3>1 DEF AlikeLists, Alike
    <2>2. DOMAIN wls = DOMAIN other
      BY DEF AlikeLists
    <2> QED BY <2>1, <2>2 DEF SlotSet
  <1>4. VapOrder(radios, other) = order
    BY <1>3 DEF VapOrder
  <1>5. /\ order \in [1 .. m -> slots]
        /\ PlanVaps(radios, wls) = VapsAt(radios, wls, m, order)
    BY <1>1, <1>2, PlanVapsPlaces
  <1>6. PlanVaps(radios, other) = VapsAt(radios, other, m, order)
    <2>1. PlanVaps(radios, other) =
             VapsAt(radios, other, Cardinality(SlotSet(radios, other)), VapOrder(radios, other))
      BY <1>1, <1>2, PlanVapsPlaces
    <2> QED BY <2>1, <1>3, <1>4
  <1> HIDE DEF slots, m, order
  <1>7. \A k \in 1 .. m : order[k][2] \in DOMAIN wls
    <2>1. \A s \in slots : s[2] \in DOMAIN wls
      BY DEF slots, SlotSet
    <2> QED BY <1>5, <2>1
  <1>8. \A k \in 1 .. m : Alike(wls[order[k][2]], other[order[k][2]])
    BY <1>7 DEF AlikeLists
  <1>9. PlansAlike(VapsAt(radios, wls, m, order), VapsAt(radios, other, m, order))
    <2>1. \A k \in 1 .. m : WrapVID(wls[order[k][2]].vlan) = WrapVID(other[order[k][2]].vlan)
      BY <1>8 DEF Alike
    <2> QED BY <1>8, <2>1 DEF PlansAlike, VapsAt
  <1> QED BY <1>5, <1>6, <1>9 DEF radios

LEMMA AlikeWpaRows ==
    ASSUME NEW n, NEW w, NEW x, w.security = x.security, w.psk = x.psk
    PROVE  WpaRows(n, w) = WpaRows(n, x)
BY DEF WpaRows, Wpa3

LEMMA AlikeWirelessRows ==
    ASSUME NEW n, NEW v, NEW t, NEW report,
           v.ath = t.ath, v.phy = t.phy, Alike(v.wlan, t.wlan)
    PROVE  WirelessRows(n, v, report) = WirelessRows(n, t, report)
BY DEF WirelessRows, Alike

LEMMA AlikeDasGate ==
    ASSUME NEW v, NEW t, NEW report, Alike(v.wlan, t.wlan), v.wlan.security = "wpa-eap"
    PROVE  DasGate(v, report) <=> DasGate(t, report)
BY Zenon DEF Alike, DasGate

LEMMA AlikeEapRows ==
    ASSUME NEW m \in Nat, NEW vaps, NEW twins, NEW report, PlansAlike(vaps, twins),
           DOMAIN vaps = 1 .. m, NEW n \in 1 .. m, vaps[n].wlan.security = "wpa-eap"
    PROVE  EapRows(n, vaps, report) = EapRows(n, twins, report)
  <1> DEFINE w == vaps[n].wlan
             x == twins[n].wlan
             first(ps) == \A k \in 1 .. n - 1 :
                             ps[k].wlan.security = "wpa-eap" => ~DasGate(ps[k], report)
             accts(u) == Slots(u.acctServers, AcctPort, u.secret)
             auths(u) == Slots(u.servers, AuthPort, u.secret)
             das(s) == {<<"aaa.das.port", n, 3800 + n>>,
                        <<"aaa.dad.clients", n, {<<a[1], a[2], a[4]>> : a \in s}>>,
                        <<"aaa.das.client", n, {<<a[2], a[4]>> : a \in
                              {a \in s : \A b \in s : a[1] <= b[1]}}>>}
             dad == {<<"aaa.dad.port", n, 3799>>}
             update == {<<"aaa.interim_update", n, 3600>>}
  <1>1. \A k \in 1 .. m : Alike(vaps[k].wlan, twins[k].wlan)
    BY DEF PlansAlike
  <1>2. first(vaps) <=> first(twins)
    <2>1. \A k \in 1 .. n - 1 : k \in 1 .. m
      OBVIOUS
    <2>2. \A k \in 1 .. m : vaps[k].wlan.security = twins[k].wlan.security
      BY <1>1, Zenon DEF Alike
    <2>3. \A k \in 1 .. m : vaps[k].wlan.security = "wpa-eap" =>
                               (DasGate(vaps[k], report) <=> DasGate(twins[k], report))
      BY <1>1, AlikeDasGate, Zenon
    <2> QED BY <2>1, <2>2, <2>3, Zenon
  <1>3. DasGate(vaps[n], report) <=> DasGate(twins[n], report)
    BY <1>1, AlikeDasGate, Zenon
  <1>4. /\ auths(w) = auths(x)
        /\ DynamicVlanOf(w.vlanMode) = DynamicVlanOf(x.vlanMode)
        /\ w.acct = x.acct
        /\ w.acct => accts(w) = accts(x) /\ w.interim = x.interim
    BY <1>1, Zenon DEF Alike
  <1>5. DasGate(vaps[n], report) => w.acct
    BY Zenon DEF DasGate
  <1>6. \A ps : EapRows(n, ps, report) =
           {<<"aaa.radius.auth", n, auths(ps[n].wlan)>>,
            <<"aaa.dynamic_vlan", n, DynamicVlanOf(ps[n].wlan.vlanMode)>>}
           \cup When(ps[n].wlan.acct, {<<"aaa.radius.acct", n, accts(ps[n].wlan)>>})
           \cup When(ps[n].wlan.acct /\ ps[n].wlan.interim, update)
           \cup When(DasGate(ps[n], report),
                     das(accts(ps[n].wlan)) \cup When(first(ps), dad))
    BY Zenon DEF EapRows
  <1> HIDE DEF first, accts, auths, das, dad, update
  <1>7. When(w.acct, {<<"aaa.radius.acct", n, accts(w)>>})
          = When(x.acct, {<<"aaa.radius.acct", n, accts(x)>>})
    BY <1>4, Zenon DEF When
  <1>8. When(w.acct /\ w.interim, update) = When(x.acct /\ x.interim, update)
    BY <1>4, Zenon DEF When
  <1>9. When(first(vaps), dad) = When(first(twins), dad)
    BY <1>2, Zenon DEF When
  <1>10. When(DasGate(vaps[n], report), das(accts(w)) \cup When(first(vaps), dad))
           = When(DasGate(twins[n], report), das(accts(x)) \cup When(first(twins), dad))
    BY <1>3, <1>4, <1>5, <1>9, Zenon DEF When
  <1> QED BY <1>4, <1>6, <1>7, <1>8, <1>10, Zenon

LEMMA AlikeAaaRows ==
    ASSUME NEW m \in Nat, NEW vaps, NEW twins, NEW report, PlansAlike(vaps, twins),
           DOMAIN vaps = 1 .. m, NEW n \in 1 .. m
    PROVE  AaaRows(n, vaps, report) = AaaRows(n, twins, report)
  <1> DEFINE base(v) ==
                {<<"aaa.pmf.mode", n, Dash(Wpa3(v.wlan), Dash(v.wlan.security = "wpa3-p", 2, 1), 0)>>,
                 <<"aaa.br.devname", n, AaaBridge(v)>>,
                 <<"aaa.devname", n, v.ath>>,
                 <<"aaa.ssid", n, v.wlan.ssid>>,
                 <<"aaa.id", n, v.wlan.id>>,
                 <<"aaa.status", n, v.wlan.security # "open" \/ "openHostapd" \in report.wifiCaps>>}
  <1>1. /\ vaps[n].ath = twins[n].ath /\ vaps[n].vid = twins[n].vid
        /\ Alike(vaps[n].wlan, twins[n].wlan)
    BY DEF PlansAlike
  <1>2. /\ vaps[n].wlan.security = twins[n].wlan.security
        /\ vaps[n].wlan.psk = twins[n].wlan.psk
        /\ vaps[n].wlan.ssid = twins[n].wlan.ssid
        /\ vaps[n].wlan.id = twins[n].wlan.id
    BY <1>1, Zenon DEF Alike
  <1>3. base(vaps[n]) = base(twins[n])
    BY <1>1, <1>2, Zenon DEF AaaBridge, Wpa3
  <1>4. \A ps : AaaRows(n, ps, report) =
           base(ps[n]) \cup When(ps[n].wlan.security # "open", WpaRows(n, ps[n].wlan))
                       \cup When(ps[n].wlan.security = "wpa-eap", EapRows(n, ps, report))
    BY Zenon DEF AaaRows
  <1> HIDE DEF base
  <1>5. WpaRows(n, vaps[n].wlan) = WpaRows(n, twins[n].wlan)
    BY <1>2, AlikeWpaRows
  <1>6. When(vaps[n].wlan.security = "wpa-eap", EapRows(n, vaps, report))
          = When(twins[n].wlan.security = "wpa-eap", EapRows(n, twins, report))
    <2>1. CASE vaps[n].wlan.security = "wpa-eap"
      BY <1>2, <2>1, AlikeEapRows
    <2>2. CASE vaps[n].wlan.security # "wpa-eap"
      BY <1>2, <2>2, Zenon DEF When
    <2> QED BY <2>1, <2>2
  <1>7. When(vaps[n].wlan.security # "open", WpaRows(n, vaps[n].wlan))
          = When(twins[n].wlan.security # "open", WpaRows(n, twins[n].wlan))
    BY <1>2, <1>5, Zenon
  <1> DEFINE wpa(ps) == When(ps[n].wlan.security # "open", WpaRows(n, ps[n].wlan))
             eap(ps) == When(ps[n].wlan.security = "wpa-eap", EapRows(n, ps, report))
  <1>8. \A ps : AaaRows(n, ps, report) = base(ps[n]) \cup wpa(ps) \cup eap(ps)
    BY <1>4, Zenon
  <1>9. wpa(vaps) = wpa(twins) /\ eap(vaps) = eap(twins)
    BY <1>6, <1>7
  <1> HIDE DEF wpa, eap
  <1>10. /\ AaaRows(n, vaps, report) = base(vaps[n]) \cup wpa(vaps) \cup eap(vaps)
         /\ AaaRows(n, twins, report) = base(twins[n]) \cup wpa(twins) \cup eap(twins)
    BY <1>8, Zenon
  <1> QED BY <1>3, <1>9, <1>10

LEMMA AlikeRadioRows ==
    ASSUME NEW vaps, NEW twins, PlansAlike(vaps, twins),
           NEW n, NEW radios, NEW intents, NEW country
    PROVE  RadioRows(n, radios, vaps, intents, country)
             = RadioRows(n, radios, twins, intents, country)
  <1> DEFINE own(ps) == {ps[k].ath : k \in {j \in DOMAIN ps : ps[j].radio = n}}
  <1>1. own(vaps) = own(twins)
    BY DEF PlansAlike
  <1>2. ASSUME NEW ps, NEW qs, own(ps) = own(qs)
        PROVE  RadioRows(n, radios, ps, intents, country) = RadioRows(n, radios, qs, intents, country)
    BY <1>2, Zenon DEF RadioRows
  <1> HIDE DEF own
  <1> QED BY <1>1, <1>2

LEMMA AlikeVlanRows ==
    ASSUME NEW vaps, NEW twins, PlansAlike(vaps, twins), NEW report
    PROVE  VlanRows(report, vaps) = VlanRows(report, twins)
  <1>1. Vids(vaps) = Vids(twins)
    BY DEF PlansAlike, Vids
  <1>2. ASSUME NEW vid, NEW eth
        PROVE  BridgePorts(vid, vaps, eth) = BridgePorts(vid, twins, eth)
    <2> DEFINE tagged(ps) == {<<"ath", ps[k].ath, 0>> : k \in {j \in DOMAIN ps : ps[j].vid = vid}}
    <2>1. tagged(vaps) = tagged(twins)
      BY DEF PlansAlike
    <2> QED BY <2>1, Zenon DEF BridgePorts
  <1> QED BY <1>1, <1>2, Zenon DEF VlanRows

\* The drift hash forgets no field that is rendered (WlanListHash against
\* emitWirelessCfg): whatever the report, two lists that passed the validators and
\* hash alike give the same wireless, VLAN and bridge rows. So a noop that is
\* answered because the confirmed list has not drifted never holds an edit back.
THEOREM HashCoversRows ==
    ASSUME NEW report, ReportOK(report), NEW intents, NEW country,
           NEW wls \in Lists, NEW other \in Lists, WlanListHash(wls) = WlanListHash(other)
    PROVE  EmitWirelessCfg(report, wls, intents, country)
             = EmitWirelessCfg(report, other, intents, country)
  <1> DEFINE radios == StoredRadios(report.radios)
             vaps == PlanVaps(radios, wls)
             twins == PlanVaps(radios, other)
  <1>1. PlansAlike(vaps, twins)
    BY HashedAlikeLists, AlikePlans
  <1>2. PlanOK(radios, wls, vaps)
    BY PlanVapsContent
  <1> HIDE DEF vaps, twins, radios
  <1>3. PICK m \in Nat : DOMAIN vaps = 1 .. m
    BY <1>2 DEF PlanOK
  <1>4. DOMAIN twins = DOMAIN vaps
    BY <1>1 DEF PlansAlike
  <1>5. \A n \in DOMAIN radios :
           RadioRows(n, radios, vaps, intents, country) = RadioRows(n, radios, twins, intents, country)
    BY <1>1, AlikeRadioRows
  <1>6. ASSUME NEW n \in DOMAIN vaps
        PROVE  AaaRows(n, vaps, report) \cup WirelessRows(n, vaps[n], report)
                 = AaaRows(n, twins, report) \cup WirelessRows(n, twins[n], report)
    <2>1. AaaRows(n, vaps, report) = AaaRows(n, twins, report)
      BY <1>1, <1>3, AlikeAaaRows
    <2>2. WirelessRows(n, vaps[n], report) = WirelessRows(n, twins[n], report)
      BY <1>1, AlikeWirelessRows DEF PlansAlike
    <2> QED BY <2>1, <2>2
  <1>7. VlanRows(report, vaps) = VlanRows(report, twins)
    BY <1>1, AlikeVlanRows
  <1> DEFINE radioRows(ps) == UNION {RadioRows(n, radios, ps, intents, country) : n \in DOMAIN radios}
             vapRows(ps) == UNION {AaaRows(n, ps, report) \cup WirelessRows(n, ps[n], report) :
                                      n \in DOMAIN ps}
  <1>8. radioRows(vaps) = radioRows(twins)
    BY <1>5, Zenon
  <1>9. vapRows(vaps) = vapRows(twins)
    BY <1>4, <1>6, Zenon
  <1>10. \A ls : EmitWirelessCfg(report, ls, intents, country) =
            IF radios = << >> THEN {<<"radio.status", 0, FALSE>>} \cup NetconfRows(report, {})
            ELSE {<<"radio.status", 0, TRUE>>}
                 \cup radioRows(PlanVaps(radios, ls)) \cup vapRows(PlanVaps(radios, ls))
                 \cup VlanRows(report, PlanVaps(radios, ls))
    BY Zenon DEF EmitWirelessCfg, radios
  <1> HIDE DEF radioRows, vapRows
  <1> QED BY <1>7, <1>8, <1>9, <1>10, Zenon DEF vaps, twins

-----------------------------------------------------------------------------
(* The device runs what the record stands for                               *)

Families == {"sha512", "md5"}

HashOf(c) == UsersPasswordHash(c.knobs, c.report, c.cache, c.salt)

\* The record has the intent that c was rendered from.
SameIntent(r, c) ==
    /\ \A k \in Provisioned : r.knobs[k] = c.knobs[k]
    /\ r.intents = c.intents

\* The password hash of c is in the cache.
HashKept(r, c) == r.cache[Family(c.report)] = HashOf(c)

\* The WLAN list of c is the one under delivery, or the confirmed one.
ListKept(r, c) ==
    IF r.pending = NoOffer THEN r.applied = c.wlans ELSE r.pending.wlans = c.wlans

\* What holds of record and device while the device runs the record's version.
InStep(r, c, lost) ==
    IF c = NoConfig THEN r.pending = NoOffer /\ r.applied = NoList
    ELSE SameIntent(r, c) /\ HashKept(r, c) /\ (~lost => ListKept(r, c))

EchoInv ==
    /\ DOMAIN rec.cache = Families
    /\ dev.version = rec.version => InStep(rec, dev.config, unheard)

\* A hash is not empty, and a password that is set is the one hashed.
LEMMA HashFits ==
    ASSUME NEW c
    PROVE  /\ HashOf(c) # NoHash
           /\ c.knobs.password # "" => HashOf(c).password = c.knobs.password
  <1>1. \A password : /\ Crypt(password, c.report, c.salt) # NoHash
                      /\ Crypt(password, c.report, c.salt).password = password
    <2> SUFFICES ASSUME NEW password
                 PROVE  /\ Crypt(password, c.report, c.salt) # NoHash
                        /\ Crypt(password, c.report, c.salt).password = password
      OBVIOUS
    <2>1. Crypt(password, c.report, c.salt).family \in Families
      BY DEF Crypt, Family, Families
    <2>2. NoHash.family \notin Families
      BY DEF NoHash, Families
    <2>3. Crypt(password, c.report, c.salt).password = password
      BY DEF Crypt
    <2> QED BY <2>1, <2>2, <2>3
  <1> QED BY <1>1, Zenon DEF HashOf, UsersPasswordHash

\* With the same password a kept hash is rendered again.
LEMMA HashStable ==
    ASSUME NEW knobs, NEW c, NEW cache, NEW salt,
           knobs.password = c.knobs.password, cache[Family(c.report)] = HashOf(c)
    PROVE  UsersPasswordHash(knobs, c.report, cache, salt) = HashOf(c)
BY HashFits, Zenon DEF UsersPasswordHash

LEMMA InitEcho ==
    Init => EchoInv
  <1> SUFFICES ASSUME Init PROVE EchoInv
    OBVIOUS
  <1>1. DOMAIN rec.cache = Families
    BY DEF Init, Families
  <1>2. dev.config = NoConfig /\ rec.pending = NoOffer /\ rec.applied = NoList
    BY DEF Init
  <1> QED BY <1>1, <1>2 DEF EchoInv, InStep

\* A verb that changes what is rendered mints, and any other leaves it alone.
LEMMA SaveEcho ==
    ASSUME TInv, EchoInv, NEW r, RecOK(r), NEW effective \in BOOLEAN, Save(r, effective),
           r.cache = rec.cache, r.pending = rec.pending, r.applied = rec.applied,
           r.version = rec.version,
           ~effective => \A k \in Provisioned : r.knobs[k] = rec.knobs[k],
           ~effective => r.intents = rec.intents
    PROVE  EchoInv'
  <1>1. dev' = dev /\ unheard' = unheard /\ dev.version <= rec.version
        /\ dev.version \in Nat /\ rec.version \in Nat
    BY DEF Save, TInv, Bounds, RecOK
  <1>2. CASE effective
    <2>1. rec'.version = rec.version + 1 /\ rec'.cache = rec.cache
      BY <1>2 DEF Save, RecOK
    <2> QED BY <1>1, <2>1 DEF EchoInv
  <1>3. CASE ~effective
    <2>1. rec' = r
      BY <1>3 DEF Save
    <2>2. \A c : SameIntent(rec, c) => SameIntent(r, c)
      BY <1>3 DEF SameIntent
    <2>3. \A c, lost : InStep(rec, c, lost) => InStep(r, c, lost)
      BY <2>2, Zenon DEF InStep, HashKept, ListKept
    <2> QED BY <1>1, <2>1, <2>3 DEF EchoInv
  <1> QED BY <1>2, <1>3

LEMMA OperatorEcho ==
    ASSUME TInv, EchoInv, Operator
    PROVE  EchoInv'
  <1>1. RecOK(rec)
    BY DEF TInv
  <1>2. ASSUME NEW p \in Patches, PatchDevice(p) PROVE EchoInv'
    <2> DEFINE knobs == [k \in DOMAIN rec.knobs |->
                           IF k \in DOMAIN p THEN Stored(k, p[k]) ELSE rec.knobs[k]]
               effective == \E k \in Provisioned : knobs[k] # rec.knobs[k]
    <2>1. ValidPatch(p) /\ Save([rec EXCEPT !.knobs = knobs], effective)
      BY <1>2 DEF PatchDevice
    <2>2. KnobsOK(knobs)
      BY <1>1, <2>1, PatchType DEF RecOK
    <2>3. effective \in BOOLEAN /\ (~effective => \A k \in Provisioned : knobs[k] = rec.knobs[k])
      OBVIOUS
    <2> HIDE DEF knobs, effective
    <2> DEFINE r == [rec EXCEPT !.knobs = knobs]
    <2>4. /\ RecOK(r) /\ r.version = rec.version /\ r.knobs = knobs /\ r.intents = rec.intents
          /\ r.cache = rec.cache /\ r.pending = rec.pending /\ r.applied = rec.applied
      BY <1>1, <2>2 DEF RecOK
    <2> HIDE DEF r
    <2>5. Save(r, effective)
      BY <2>1 DEF r
    <2> QED BY <2>3, <2>4, <2>5, SaveEcho
  <1>3. ASSUME NEW name, NEW up, PutRadioIntent(name, up) PROVE EchoInv'
    <2> DEFINE next == SetRadioIntent(rec.intents, name, up)
               effective == next # rec.intents
    <2>1. Save([rec EXCEPT !.intents = next], effective)
      BY <1>3 DEF PutRadioIntent
    <2>2. \A n \in DOMAIN next : next[n] # NoIntent
      BY <1>1, IntentsType DEF RecOK
    <2>3. effective \in BOOLEAN /\ (~effective => next = rec.intents)
      OBVIOUS
    <2> HIDE DEF next, effective
    <2> DEFINE r == [rec EXCEPT !.intents = next]
    <2>4. /\ RecOK(r) /\ r.version = rec.version /\ r.knobs = rec.knobs /\ r.intents = next
          /\ r.cache = rec.cache /\ r.pending = rec.pending /\ r.applied = rec.applied
      BY <1>1, <2>2 DEF RecOK
    <2> HIDE DEF r
    <2>5. Save(r, effective)
      BY <2>1 DEF r
    <2> QED BY <2>3, <2>4, <2>5, SaveEcho
  <1>4. ASSUME NEW wls \in Seq(Wlans), PersistDeviceWlans(wls) PROVE EchoInv'
    <2> DEFINE normal == Normalized(wls)
    <2>1. ValidWlans(normal) /\ Save([rec EXCEPT !.wlans = normal], FALSE)
      BY <1>4 DEF PersistDeviceWlans
    <2>2. normal \in Lists
      BY <2>1, NormalizedType DEF Lists
    <2> HIDE DEF normal
    <2> DEFINE r == [rec EXCEPT !.wlans = normal]
    <2>4. /\ RecOK(r) /\ r.version = rec.version /\ r.knobs = rec.knobs
          /\ r.intents = rec.intents
          /\ r.cache = rec.cache /\ r.pending = rec.pending /\ r.applied = rec.applied
      BY <1>1, <2>2 DEF RecOK
    <2> HIDE DEF r
    <2>5. Save(r, FALSE)
      BY <2>1 DEF r
    <2> QED BY <2>4, <2>5, SaveEcho
  <1> QED BY <1>2, <1>3, <1>4, OperatorCases

\* Nothing but a settle stands between the record and the choice of an answer.
LEMMA WorkedEcho ==
    ASSUME TInv, NEW in, NEW table \in BOOLEAN, NEW c, NEW lost,
           InStep(rec, c, lost)
    PROVE  InStep(Worked(in, table), c, lost)
  <1> DEFINE a == [rec EXCEPT !.report = Absorb(@, in)]
             b == Settle(a, table)
  <1>1. /\ a.knobs = rec.knobs /\ a.intents = rec.intents /\ a.cache = rec.cache
        /\ a.pending = rec.pending /\ a.applied = rec.applied
        /\ a = [knobs |-> a.knobs, intents |-> a.intents, wlans |-> a.wlans,
                report |-> a.report, cache |-> a.cache, version |-> a.version,
                applied |-> a.applied, pending |-> a.pending]
    BY DEF TInv, RecOK
  <1> HIDE DEF a
  <1>2. InStep(a, c, lost)
    BY <1>1, Zenon DEF InStep, SameIntent, HashKept, ListKept
  <1>3. b \in {a, [a EXCEPT !.applied = a.pending.wlans, !.pending = NoOffer]}
        /\ (a.pending = NoOffer => b = a)
    BY Zenon DEF Settle
  <1> HIDE DEF b
  <1>4. InStep(b, c, lost)
    <2>1. CASE b = a
      BY <1>2, <2>1
    <2>2. CASE b # a
      <3>1. /\ a.pending # NoOffer
            /\ b.knobs = a.knobs /\ b.intents = a.intents /\ b.cache = a.cache
            /\ b.applied = a.pending.wlans /\ b.pending = NoOffer
        BY <1>1, <1>3, <2>2
      <3> QED BY <1>2, <3>1, Zenon DEF InStep, SameIntent, HashKept, ListKept
    <2> QED BY <2>1, <2>2
  <1>5. b = [knobs |-> b.knobs, intents |-> b.intents, wlans |-> b.wlans,
             report |-> b.report, cache |-> b.cache, version |-> b.version,
             applied |-> b.applied, pending |-> b.pending]
    BY <1>1, <1>3
  <1>6. Worked(in, table) = MintForDrift(b)
    BY DEF Worked, a, b
  <1>7. Worked(in, table) \in {b, [b EXCEPT !.version = @ + 1]}
    BY <1>6, Zenon DEF MintForDrift
  <1>8. LET w == Worked(in, table)
        IN  /\ w.knobs = b.knobs /\ w.intents = b.intents /\ w.cache = b.cache
            /\ w.applied = b.applied /\ w.pending = b.pending
    BY <1>5, <1>7
  <1> QED BY <1>4, <1>8, Zenon DEF InStep, SameIntent, HashKept, ListKept

LEMMA WorkedCache ==
    ASSUME TInv, NEW in, NEW table \in BOOLEAN
    PROVE  Worked(in, table).cache = rec.cache
  <1> DEFINE a == [rec EXCEPT !.report = Absorb(@, in)]
             b == Settle(a, table)
  <1>1. /\ a.cache = rec.cache
        /\ a = [knobs |-> a.knobs, intents |-> a.intents, wlans |-> a.wlans,
                report |-> a.report, cache |-> a.cache, version |-> a.version,
                applied |-> a.applied, pending |-> a.pending]
    BY DEF TInv, RecOK
  <1>2. Worked(in, table) = MintForDrift(b)
    BY DEF Worked, a, b
  <1> HIDE DEF a
  <1>3. b \in {a, [a EXCEPT !.applied = a.pending.wlans, !.pending = NoOffer]}
    BY Zenon DEF Settle
  <1> HIDE DEF b
  <1>4. /\ b.cache = a.cache
        /\ b = [knobs |-> b.knobs, intents |-> b.intents, wlans |-> b.wlans,
                report |-> b.report, cache |-> b.cache, version |-> b.version,
                applied |-> b.applied, pending |-> b.pending]
    BY <1>1, <1>3
  <1>5. Worked(in, table) \in {b, [b EXCEPT !.version = @ + 1]}
    BY <1>2, Zenon DEF MintForDrift
  <1> QED BY <1>1, <1>4, <1>5

LEMMA OfferedParts ==
    ASSUME NEW r, RecOK(r), DOMAIN r.cache = Families
    PROVE  /\ Offered(r).knobs = r.knobs /\ Offered(r).intents = r.intents
           /\ Offered(r).pending # NoOffer /\ Offered(r).pending.wlans = r.wlans
           /\ DOMAIN Offered(r).cache = Families
           /\ Offered(r).cache[Family(r.report)] =
                 UsersPasswordHash(r.knobs, r.report, r.cache, salts)
           /\ \A f \in Families : f # Family(r.report) => Offered(r).cache[f] = r.cache[f]
  <1> DEFINE hash == UsersPasswordHash(r.knobs, r.report, r.cache, salts)
             p == [wlans |-> r.wlans, placements |-> Placements(Plan(r)), offered |-> r.version]
             c == Cached(r.knobs, r.report, r.cache, salts)
  <1>1. Offered(r) = [r EXCEPT !.cache = c, !.pending = p]
    BY DEF Offered
  <1>2. c = [r.cache EXCEPT ![Family(r.report)] = hash]
    BY DEF Cached
  <1>3. Family(r.report) \in Families
    BY DEF Family, Families
  <1>4. p.wlans = r.wlans /\ NoOffer.wlans = NoList
    BY DEF NoOffer
  <1>5. r.wlans # NoList
    BY ListAssumption DEF RecOK, Lists
  <1> HIDE DEF c, p, hash
  <1>6. /\ DOMAIN c = Families /\ c[Family(r.report)] = hash
        /\ \A f \in Families : f # Family(r.report) => c[f] = r.cache[f]
    BY <1>2, <1>3
  <1>7. /\ Offered(r).knobs = r.knobs /\ Offered(r).intents = r.intents
        /\ Offered(r).pending = p /\ Offered(r).cache = c
    BY <1>1 DEF RecOK
  <1>8. p # NoOffer
    BY <1>4, <1>5
  <1> QED BY <1>4, <1>6, <1>7, <1>8 DEF hash

\* A push that arrives puts the device in step.
LEMMA PushedEcho ==
    ASSUME TInv, NEW r, RecOK(r), DOMAIN r.cache = Families, NEW lost
    PROVE  InStep(Offered(r), Config(r, r.report), lost)
  <1> DEFINE c == Config(r, r.report)
  <1>1. /\ c.knobs = r.knobs /\ c.intents = r.intents /\ c.wlans = r.wlans
        /\ c.report = r.report
        /\ HashOf(c) = UsersPasswordHash(r.knobs, r.report, r.cache, salts)
    BY DEF Config, HashOf
  <1>2. c # NoConfig
    <2>1. r.wlans # NoList /\ NoConfig.wlans = NoList
      BY ListAssumption DEF RecOK, Lists, NoConfig
    <2> QED BY <1>1, <2>1
  <1> HIDE DEF c
  <1>3. SameIntent(Offered(r), c)
    BY <1>1, OfferedParts DEF SameIntent
  <1>4. HashKept(Offered(r), c)
    BY <1>1, OfferedParts DEF HashKept
  <1>5. ListKept(Offered(r), c)
    BY <1>1, OfferedParts DEF ListKept
  <1> QED BY <1>2, <1>3, <1>4, <1>5 DEF InStep, c

\* A push that is lost under the version the device runs leaves it in step, or
\* unheard.
LEMMA LostEcho ==
    ASSUME TInv, NEW r, RecOK(r), DOMAIN r.cache = Families, NEW c, NEW due,
           NEW lost, InStep(r, c, lost), dev.version = r.version, Pushes(r, due)
    PROVE  InStep(Offered(r), c, r.wlans # c.wlans)
  <1>1. c # NoConfig
    BY DEF InStep, Pushes, WlanDrift
  <1>2. SameIntent(r, c) /\ HashKept(r, c)
    BY <1>1 DEF InStep
  <1>3. SameIntent(Offered(r), c)
    BY <1>2, OfferedParts DEF SameIntent
  <1>4. HashKept(Offered(r), c)
    <2>1. CASE Family(r.report) = Family(c.report)
      <3>1. r.knobs.password = c.knobs.password
        BY <1>2 DEF SameIntent, Provisioned
      <3>2. UsersPasswordHash(r.knobs, c.report, r.cache, salts) = HashOf(c)
        BY <1>2, <3>1, HashStable DEF HashKept
      <3>3. UsersPasswordHash(r.knobs, r.report, r.cache, salts)
              = UsersPasswordHash(r.knobs, c.report, r.cache, salts)
        BY <2>1, Zenon DEF UsersPasswordHash, Crypt
      <3>4. Offered(r).cache[Family(r.report)] = HashOf(c)
        BY <3>2, <3>3, OfferedParts
      <3> QED BY <2>1, <3>4 DEF HashKept
    <2>2. CASE Family(r.report) # Family(c.report)
      <3>1. Family(c.report) \in Families
        BY DEF Family, Families
      <3>2. Offered(r).cache[Family(c.report)] = r.cache[Family(c.report)]
        BY <2>2, <3>1, OfferedParts
      <3> QED BY <1>2, <3>2 DEF HashKept
    <2> QED BY <2>1, <2>2
  <1>5. ~(r.wlans # c.wlans) => ListKept(Offered(r), c)
    BY OfferedParts DEF ListKept
  <1> QED BY <1>1, <1>3, <1>4, <1>5 DEF InStep

LEMMA InformEcho ==
    ASSUME TInv, EchoInv, NEW in \in Informs, NEW table \in BOOLEAN, NEW due \in BOOLEAN,
           Inform(in, table, due)
    PROVE  EchoInv'
  <1> DEFINE w == Worked(in, table)
  <1>1. RecOK(w) /\ w.version \in {rec.version, rec.version + 1}
    BY WorkedType
  <1>2. w.cache = rec.cache /\ DOMAIN w.cache = Families
    BY WorkedCache DEF EchoInv
  <1>3. /\ rec.version \in Nat /\ w.version \in Nat /\ dev.version \in Nat
        /\ dev.version <= rec.version
    BY <1>1 DEF TInv, RecOK, Bounds
  <1>4. dev.version = w.version => InStep(w, dev.config, unheard)
    <2>1. dev.version = w.version => dev.version = rec.version
      BY <1>1, <1>3
    <2> QED BY <2>1, WorkedEcho DEF EchoInv
  <1>5. CASE InformPushed(in, table, due)
    <2>1. rec' = Offered(w) /\ dev' = [version |-> w.version, config |-> Config(w, w.report)]
      BY <1>5 DEF InformPushed
    <2> HIDE DEF w
    <2>2. DOMAIN rec'.cache = Families
      BY <1>1, <1>2, <2>1, OfferedParts
    <2>3. InStep(rec', dev'.config, unheard')
      <3>1. dev'.config = Config(w, w.report)
        BY <2>1
      <3> QED BY <1>1, <1>2, <2>1, <3>1, PushedEcho
    <2> QED BY <2>2, <2>3 DEF EchoInv
  <1>6. CASE InformLost(in, table, due)
    <2>1. /\ rec' = Offered(w) /\ dev' = dev /\ Pushes(w, due)
          /\ unheard' = (w.version = dev.version /\ w.wlans # dev.config.wlans)
      BY <1>6 DEF InformLost
    <2> HIDE DEF w
    <2>2. DOMAIN rec'.cache = Families /\ rec'.version = w.version
      BY <1>1, <1>2, <2>1, OfferedParts, OfferedType
    <2>3. CASE dev.version = w.version
      <3>1. unheard' = (w.wlans # dev.config.wlans)
        BY <2>1, <2>3
      <3>2. InStep(Offered(w), dev.config, w.wlans # dev.config.wlans)
        BY <1>1, <1>2, <1>4, <2>1, <2>3, LostEcho
      <3>3. InStep(rec', dev'.config, unheard')
        BY <2>1, <3>1, <3>2
      <3> QED BY <2>2, <3>3 DEF EchoInv
    <2>4. CASE dev.version # w.version
      BY <2>1, <2>2, <2>4 DEF EchoInv
    <2> QED BY <2>3, <2>4
  <1>7. CASE InformNoop(in, table, due)
    <2>1. /\ rec' \in {w, [w EXCEPT !.version = @ + 1]}
          /\ dev' = dev /\ unheard' = unheard
      BY <1>7 DEF InformNoop
    <2> HIDE DEF w
    <2>2. CASE rec' = w
      <3>1. EchoInv'
        BY <1>2, <1>4, <2>1, <2>2 DEF EchoInv
      <3> QED BY <3>1
    <2>3. CASE rec' = [w EXCEPT !.version = @ + 1]
      <3>1. rec'.version = w.version + 1 /\ rec'.cache = w.cache
        BY <1>1, <2>3 DEF RecOK
      <3>2. dev'.version # rec'.version
        BY <1>1, <1>3, <2>1, <3>1
      <3> QED BY <1>2, <3>1, <3>2 DEF EchoInv
    <2> QED BY <2>1, <2>2, <2>3
  <1> QED BY <1>5, <1>6, <1>7 DEF Inform

LEMMA EchoStep ==
    TInv /\ EchoInv /\ [Next]_vars => EchoInv'
  <1> SUFFICES ASSUME TInv, EchoInv, [Next]_vars PROVE EchoInv'
    OBVIOUS
  <1>1. CASE Operator
    BY <1>1, OperatorEcho
  <1>2. ASSUME NEW in \in Informs, NEW table \in BOOLEAN, NEW due \in BOOLEAN,
               Inform(in, table, due)
        PROVE  EchoInv'
    BY <1>2, InformEcho
  <1>3. CASE UNCHANGED vars
    BY <1>3 DEF vars, EchoInv
  <1> QED BY <1>1, <1>2, <1>3 DEF Next

\* The rows other than the site id, from a hash.
OtherRows(knobs, intents, wls, report, hash) ==
    {<<"users.password", 0, hash>>,
     <<"connectivity.uplink_eth", 0, EthPorts(report)[1]>>,
     <<"connectivity.uplink_wds", 0, Len(StoredRadios(report.radios)) - 1>>,
     <<"sshd.auth.keys", 0, knobs.keys>>}
    \cup LedRows(knobs, report)
    \cup EmitWirelessCfg(report, wls, intents, Country(knobs))

LEMMA SiteRowApart ==
    ASSUME NEW knobs, NEW intents, NEW wls, NEW report, NEW cache, NEW salt
    PROVE  Delivered(RenderWithPlan(knobs, intents, wls, report, cache, salt))
             = Delivered(OtherRows(knobs, intents, wls, report,
                                   UsersPasswordHash(knobs, report, cache, salt)))
  <1> DEFINE hash == UsersPasswordHash(knobs, report, cache, salt)
             site == <<"unifi.siteid", 0, SiteRef(knobs)>>
             a == <<"users.password", 0, hash>>
             b == <<"connectivity.uplink_eth", 0, EthPorts(report)[1]>>
             c == <<"connectivity.uplink_wds", 0, Len(StoredRadios(report.radios)) - 1>>
             d == <<"sshd.auth.keys", 0, knobs.keys>>
             led == LedRows(knobs, report)
             wireless == EmitWirelessCfg(report, wls, intents, Country(knobs))
  <1>1. RenderWithPlan(knobs, intents, wls, report, cache, salt)
          = {site, a, b, c, d} \cup led \cup wireless
    BY Zenon DEF RenderWithPlan
  <1>2. OtherRows(knobs, intents, wls, report, hash) = {a, b, c, d} \cup led \cup wireless
    BY Zenon DEF OtherRows
  <1>3. site[1] = "unifi.siteid"
    OBVIOUS
  <1> HIDE DEF site, a, b, c, d, led, wireless, hash
  <1>4. Delivered(RenderWithPlan(knobs, intents, wls, report, cache, salt))
          = Delivered(OtherRows(knobs, intents, wls, report, hash))
    BY <1>1, <1>2, <1>3 DEF Delivered
  <1> QED BY <1>4 DEF hash

\* The led section and the country read effective knobs only.
LEMMA SameKnobs ==
    ASSUME NEW knobs, NEW other, \A k \in Provisioned : knobs[k] = other[k], NEW report
    PROVE  /\ LedRows(knobs, report) = LedRows(other, report)
           /\ Country(knobs) = Country(other)
           /\ knobs.keys = other.keys
  <1>1. /\ knobs.led = other.led /\ knobs.brightness = other.brightness
        /\ knobs.color = other.color /\ knobs.country = other.country
        /\ knobs.keys = other.keys
    BY DEF Provisioned
  <1>2. LedRows(knobs, report) = LedRows(other, report)
    <2> DEFINE rows(led, brightness, color) ==
                 LedRows([led |-> led, brightness |-> brightness, color |-> color], report)
    <2>1. \A k : LedRows(k, report) = rows(k.led, k.brightness, k.color)
      BY DEF LedRows
    <2> HIDE DEF rows
    <2> QED BY <1>1, <2>1
  <1>3. Country(knobs) = Country(other)
    BY <1>1 DEF Country
  <1> QED BY <1>1, <1>2, <1>3

\* While the controller answers with noops the device runs what the record stands
\* for (Decide, WlanListHash, usersPasswordHash and the effective knobs of
\* PatchDevice): for every report, any number of verbs and of lost answers, unless
\* the last push brought another list under the version the device runs and was
\* lost. The inductive invariant says which of the record's lists the device's
\* rows came from, HashCoversRows that a list without drift renders the same.
THEOREM EchoedRowsHolds == Spec => []EchoedRows
  <1>1. TInv /\ EchoInv => EchoedRows
    <2> SUFFICES ASSUME TInv, EchoInv, UpToDate, ~unheard PROVE InPlace
      BY DEF EchoedRows
    <2> DEFINE c == dev.config
               r == Config(rec, c.report)
    <2>1. InStep(rec, c, unheard) /\ rec.pending = NoOffer /\ rec.applied # NoList
          /\ ~WlanDrift(rec)
      BY DEF EchoInv, UpToDate
    <2>2. c # NoConfig /\ SameIntent(rec, c) /\ HashKept(rec, c) /\ rec.applied = c.wlans
      BY <2>1 DEF InStep, ListKept
    <2>3. ConfigOK(c) /\ rec.wlans \in Lists
      BY <2>2 DEF TInv, RecOK
    <2>4. WlanListHash(c.wlans) = WlanListHash(rec.wlans)
      BY <2>1, <2>2 DEF WlanDrift
    <2>5. \A k \in Provisioned : c.knobs[k] = rec.knobs[k]
      BY <2>2 DEF SameIntent
    <2>6. /\ r.knobs = rec.knobs /\ r.intents = rec.intents /\ r.wlans = rec.wlans
          /\ r.report = c.report /\ r.cache = rec.cache /\ r.salt = salts
      BY DEF Config
    <2>7. InPlace <=> Delivered(RowsOf(c)) = Delivered(RowsOf(r))
      <3>1. DevRows = RowsOf(c)
        BY <2>2 DEF DevRows
      <3> QED BY <2>2, <3>1, Zenon DEF InPlace
    <2> HIDE DEF c, r
    <2>8. UsersPasswordHash(rec.knobs, c.report, rec.cache, salts) = HashOf(c)
      BY <2>2, <2>5, HashStable DEF HashKept, Provisioned
    <2>9. EmitWirelessCfg(c.report, c.wlans, c.intents, Country(c.knobs))
            = EmitWirelessCfg(c.report, rec.wlans, rec.intents, Country(rec.knobs))
      <3>1. Country(c.knobs) = Country(rec.knobs)
        BY <2>5, SameKnobs
      <3>2. c.intents = rec.intents
        BY <2>2 DEF SameIntent
      <3>3. EmitWirelessCfg(c.report, c.wlans, rec.intents, Country(rec.knobs))
              = EmitWirelessCfg(c.report, rec.wlans, rec.intents, Country(rec.knobs))
        BY <2>3, <2>4, HashCoversRows DEF ConfigOK
      <3> QED BY <3>1, <3>2, <3>3
    <2>10. LedRows(c.knobs, c.report) = LedRows(rec.knobs, c.report)
           /\ c.knobs.keys = rec.knobs.keys
      BY <2>5, SameKnobs
    <2>11. OtherRows(c.knobs, c.intents, c.wlans, c.report, HashOf(c))
             = OtherRows(rec.knobs, rec.intents, rec.wlans, c.report, HashOf(c))
      BY <2>9, <2>10, Zenon DEF OtherRows
    <2>12. Delivered(RowsOf(c))
             = Delivered(OtherRows(c.knobs, c.intents, c.wlans, c.report, HashOf(c)))
      BY SiteRowApart, Zenon DEF RowsOf, HashOf
    <2>13. Delivered(RowsOf(r))
             = Delivered(OtherRows(rec.knobs, rec.intents, rec.wlans, c.report, HashOf(c)))
      <3>1. RowsOf(r) = RenderWithPlan(rec.knobs, rec.intents, rec.wlans, c.report, rec.cache, salts)
        BY <2>6, Zenon DEF RowsOf
      <3>2. Delivered(RowsOf(r))
              = Delivered(OtherRows(rec.knobs, rec.intents, rec.wlans, c.report,
                                    UsersPasswordHash(rec.knobs, c.report, rec.cache, salts)))
        BY <3>1, SiteRowApart
      <3> QED BY <2>8, <3>2
    <2> QED BY <2>7, <2>11, <2>12, <2>13
  <1> QED BY <1>1, InitType, TypeStep, InitEcho, EchoStep, PTL DEF Spec
=============================================================================
