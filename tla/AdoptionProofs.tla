--------------------------- MODULE AdoptionProofs ---------------------------
(***************************************************************************)
(* Type correctness and the key discipline of Adoption, that it implements *)
(* Lifecycle, what its history variables account for, and what the device  *)
(* has of the record, for every number of handler goroutines, envelopes,   *)
(* clients, verbs and bounds.                                              *)
(*                                                                         *)
(* The inductive invariant is TypeOK together with KeyDiscipline. Each     *)
(* operator of the engine has a lemma on what it does to a well-formed     *)
(* record; the step proof has one case per action.                         *)
(*                                                                         *)
(* For the refinement every commit of an inform cycle is Assign, Serve,    *)
(* Demote or a stutter on the life of the record, every verb is Enrol,     *)
(* Forget, Lose or a stutter, every save is Save and a restart is Crash.   *)
(* The invariant is strengthened by one fact: no record holds a key that   *)
(* is still to be drawn, so a rotation really changes the assignment.      *)
(*                                                                         *)
(* For the history the armings not yet executed are balanced against all   *)
(* that may still execute one: the flag in memory and the answers under    *)
(* way, and, for the restart, the flag on disk and the answers that were   *)
(* saved.                                                                  *)
(*                                                                         *)
(* For what the device has every step is one of a few kinds, named for     *)
(* what they may do to keys, cfgversions and content (Step), and these     *)
(* invariants are kept by those kinds: a used key identifies the           *)
(* assignment (KInv), cfgversions are drawn in order (VersionsDrawn), a    *)
(* cfgversion identifies the content (CInv), one of the record's two keys  *)
(* is the device's (KeysKept), and the device broadcasts the settled       *)
(* baseline (AInv).                                                        *)
(***************************************************************************)
EXTENDS AdoptionRefines, AdoptionHistory, FiniteSetTheorems, TLAPS

\* A record of the right type whose keys have the shape the gate relies on.
Good(d) == d \in Devices /\ KeyShape(d)

-----------------------------------------------------------------------------
(* Types of the engine's operators                                          *)

\* The seed of a record is well formed and has no keys.
LEMMA SeededGood ==
    ASSUME NEW epoch \in Nat
    PROVE  Good(SeededDevice(epoch))
  <1>1. NoDelivery \in DeliveryStates
    BY DEF NoDelivery, DeliveryStates, NoVersion
  <1>2. SeededDevice(epoch) \in Devices
    BY <1>1, EnvelopeAssumption DEF SeededDevice, Devices, States, NoVersion, Keys
  <1>3. KeyShape(SeededDevice(epoch))
    BY DEF KeyShape, SeededDevice, Delivering, NoDelivery
  <1> QED BY <1>2, <1>3 DEF Good

\* Absorption keeps the controller-owned rows.
LEMMA AbsorbGood ==
    ASSUME NEW d, Good(d), NEW body \in Bodies
    PROVE  /\ Good(Absorb(d, body))
           /\ Absorb(d, body).xAuthkey = d.xAuthkey
           /\ Absorb(d, body).authkeys = d.authkeys
           /\ Absorb(d, body).keyConfirmed = d.keyConfirmed
           /\ Absorb(d, body).state = d.state
           /\ Absorb(d, body).epoch = d.epoch
  <1>1. Absorb(d, body) \in Devices
    BY DEF Good, Absorb, Devices, Bodies
  <1> QED BY <1>1 DEF Good, Absorb, Devices, KeyShape, Delivering

\* Settling promotes a pending delivery; it never creates one.
LEMMA SettleType ==
    ASSUME NEW s \in DeliveryStates, NEW table, NEW version \in Nat
    PROVE  /\ Settle(s, table, version) \in DeliveryStates
           /\ s.pending = NoEnvelope => Settle(s, table, version) = s
  <1>1. CASE Proven(s, table)
    BY <1>1 DEF Settle, Proven, DeliveryStates, NoVersion
  <1>2. CASE ~Proven(s, table)
    BY <1>2 DEF Settle
  <1> QED BY <1>1, <1>2

\* The head of decideEncrypted touches only the delivery and the cfgversion.
LEMMA PreparedGood ==
    ASSUME NEW d, Good(d), NEW table, NEW version \in Nat
    PROVE  /\ Good(Prepared(d, table, version))
           /\ Prepared(d, table, version).xAuthkey = d.xAuthkey
           /\ Prepared(d, table, version).authkeys = d.authkeys
           /\ Prepared(d, table, version).keyConfirmed = d.keyConfirmed
           /\ Prepared(d, table, version).state = d.state
           /\ Prepared(d, table, version).epoch = d.epoch
  <1> DEFINE t == Settle(d.delivery, table, d.cfgVersion)
             s == [d EXCEPT !.delivery = t]
  <1>1. d.delivery \in DeliveryStates /\ d.cfgVersion \in Nat
    BY DEF Good, Devices
  <1>2. t \in DeliveryStates /\ (d.delivery.pending = NoEnvelope => t = d.delivery)
    BY <1>1, SettleType
  <1>3. s \in Devices
    BY <1>2 DEF Good, Devices
  <1>4. KeyShape(s)
    BY <1>2 DEF Good, Devices, KeyShape, Delivering
  <1>5. Prepared(d, table, version) = s \/ Prepared(d, table, version) = [s EXCEPT !.cfgVersion = version]
    BY DEF Prepared
  <1> HIDE DEF t
  <1> QED BY <1>3, <1>4, <1>5 DEF Good, Devices, KeyShape, Delivering

-----------------------------------------------------------------------------
(* Keys                                                                     *)

\* Appending to at most two keys and cutting to the newest two ends in the key.
LEMMA AddKeyType ==
    ASSUME NEW keys \in Seq(Keys), Len(keys) <= 2, NEW key \in Keys
    PROVE  /\ AddKey(keys, key) \in Seq(Keys)
           /\ Len(AddKey(keys, key)) \in {1, 2}
           /\ AddKey(keys, key)[Len(AddKey(keys, key))] = key
  <1> DEFINE all == Append(keys, key)
  <1>1. all \in Seq(Keys) /\ Len(all) = Len(keys) + 1 /\ all[Len(all)] = key
    OBVIOUS
  <1>2. Len(keys) \in Nat
    OBVIOUS
  <1>3. CASE Len(all) > 2
    <2>1. AddKey(keys, key) = SubSeq(all, Len(all) - 1, Len(all))
      BY <1>3 DEF AddKey
    <2>2. Len(all) = 3
      BY <1>1, <1>2, <1>3
    <2>3. \A i \in 1..3 : all[i] \in Keys
      BY <1>1, <2>2
    <2> HIDE DEF all
    <2>4. SubSeq(all, 2, 3) = [i \in 1..2 |-> all[i + 1]]
      BY <1>1, <2>2
    <2> DEFINE cut == [i \in 1..2 |-> all[i + 1]]
    <2>5. cut \in Seq(Keys) /\ Len(cut) = 2 /\ cut[2] = all[3]
      BY <2>3
    <2>6. AddKey(keys, key) = cut
      BY <2>1, <2>2, <2>4
    <2> HIDE DEF cut
    <2> QED BY <1>1, <2>2, <2>5, <2>6
  <1>4. CASE ~(Len(all) > 2)
    <2>1. AddKey(keys, key) = all
      BY <1>4 DEF AddKey
    <2> QED BY <1>1, <1>2, <1>4, <2>1
  <1> QED BY <1>3, <1>4

\* The confirmation write keeps a well-formed record well formed.
LEMMA ConfirmGood ==
    ASSUME NEW d, Good(d), NEW key
    PROVE  /\ Good(Confirm(d, key))
           /\ Confirm(d, key).xAuthkey = d.xAuthkey
           /\ Confirm(d, key).epoch = d.epoch
           /\ d.keyConfirmed => Confirm(d, key).keyConfirmed
  <1> DEFINE b == d.keyConfirmed \/ key \in KeysOf(d)
  <1>1. Confirm(d, key) = [d EXCEPT !.keyConfirmed = b]
    BY DEF Confirm
  <1>2. b \in BOOLEAN
    BY DEF Good, Devices
  <1>3. b => d.authkeys # << >>
    BY DEF KeysOf, Good, KeyShape
  <1> HIDE DEF b
  <1>4. Confirm(d, key) \in Devices
    BY <1>1, <1>2 DEF Good, Devices
  <1>5. d.keyConfirmed => b
    BY DEF b
  <1>6. Confirm(d, key).keyConfirmed = b
    BY <1>1, <1>2 DEF Good, Devices
  <1> QED BY <1>1, <1>3, <1>4, <1>5, <1>6 DEF Good, Devices, KeyShape, Delivering

\* What an action on the assigned key may leave to the confirmation write.
Assigned(d, key) ==
    /\ d \in Devices
    /\ Len(d.authkeys) <= 2
    /\ d.authkeys # << >>
    /\ d.xAuthkey = d.authkeys[Len(d.authkeys)]
    /\ d.xAuthkey = key
    /\ d.state # "pending"

\* An inform on the assigned key confirms it.
LEMMA ConfirmAssigned ==
    ASSUME NEW d, NEW key, Assigned(d, key)
    PROVE  /\ Good(Confirm(d, key))
           /\ Confirm(d, key).xAuthkey = d.xAuthkey
           /\ Confirm(d, key).epoch = d.epoch
           /\ Confirm(d, key).keyConfirmed
  <1> DEFINE b == d.keyConfirmed \/ key \in KeysOf(d)
  <1>1. d.authkeys \in Seq(Keys) /\ Len(d.authkeys) \in DOMAIN d.authkeys
    BY DEF Assigned, Devices
  <1>2. key \in KeysOf(d)
    BY <1>1 DEF KeysOf, Assigned
  <1>3. Confirm(d, key) = [d EXCEPT !.keyConfirmed = b]
    BY DEF Confirm
  <1>4. b = TRUE
    BY <1>2
  <1>5. Confirm(d, key) = [d EXCEPT !.keyConfirmed = TRUE]
    BY <1>3, <1>4
  <1> QED BY <1>5 DEF Assigned, Good, Devices, KeyShape

\* A well-formed record used with its assignment.
LEMMA OnAssignedKeys ==
    ASSUME NEW d, Good(d), NEW key, OnAssigned(d, key)
    PROVE  /\ d.authkeys # << >>
           /\ d.xAuthkey = key
           /\ d.state # "pending"
           /\ Assigned(d, key)
  BY DEF OnAssigned, Good, KeyShape, Assigned

\* The gate admits the factory key only while no key is confirmed; rotating
\* then leaves a well-formed record.
LEMMA RotateGood ==
    ASSUME NEW d, Good(d), ~DefaultKeyRejected(d, DefaultKey),
           NEW key \in Keys, NEW version \in Nat
    PROVE  /\ Good(RotateKeys(d, key, version))
           /\ ~d.keyConfirmed
           /\ RotateKeys(d, key, version).epoch = d.epoch
           /\ RotateKeys(d, key, version).xAuthkey = key
  <1> DEFINE ks == AddKey(d.authkeys, key)
             r == RotateKeys(d, key, version)
  <1>1. d.authkeys \in Seq(Keys) /\ Len(d.authkeys) <= 2
    BY DEF Good, Devices, KeyShape
  <1>2. ks \in Seq(Keys) /\ Len(ks) \in {1, 2} /\ ks[Len(ks)] = key
    BY <1>1, AddKeyType
  <1>3. ~d.keyConfirmed
    BY DEF DefaultKeyRejected, Good, KeyShape
  <1>4. r = [d EXCEPT !.xAuthkey = key, !.cfgVersion = version,
                      !.authkeys = ks, !.state = "adopting"]
    BY DEF RotateKeys
  <1> HIDE DEF ks, r
  <1>5. r \in Devices
    BY <1>2, <1>4 DEF Good, Devices, States
  <1>6. ks # << >>
    BY <1>2
  <1>7. KeyShape(r)
    BY <1>2, <1>3, <1>4, <1>6 DEF Good, Devices, KeyShape, Delivering
  <1> QED BY <1>3, <1>4, <1>5, <1>7 DEF Good, Devices, r

-----------------------------------------------------------------------------
(* The branches of the engine                                               *)

\* e has the keys and the incarnation of d.
SameKeys(d, e) ==
    /\ e.xAuthkey = d.xAuthkey
    /\ e.authkeys = d.authkeys
    /\ e.keyConfirmed = d.keyConfirmed
    /\ e.epoch = d.epoch

\* An offer is a well-typed delivery state.
LEMMA OfferType ==
    ASSUME NEW s \in DeliveryStates, NEW cur \in Envelopes, NEW version \in Nat
    PROVE  Offer(s, cur, version) \in DeliveryStates
  <1> DEFINE n == IF s.attemptSha = cur THEN s.attempts + 1 ELSE 1
  <1>1. n \in Nat
    BY DEF DeliveryStates
  <1>2. Offer(s, cur, version) =
          [s EXCEPT !.pending = cur, !.offered = version, !.attempts = n,
                    !.attemptSha = cur, !.status = "pending"]
    BY DEF Offer
  <1> HIDE DEF n
  <1> QED BY <1>1, <1>2 DEF DeliveryStates

\* Full provisioning keeps the assignment.
LEMMA ProvisionedAssigned ==
    ASSUME NEW d, NEW key, Assigned(d, key), NEW version \in Nat
    PROVE  /\ Assigned(Provisioned(d, version), key)
           /\ SameKeys(d, Provisioned(d, version))
           /\ ReplyOK(FullProvision(Provisioned(d, version)))
  <1> DEFINE cfg == IF d.cfgVersion = NoVersion THEN version ELSE d.cfgVersion
             o == Offer(d.delivery, d.wlans, cfg)
             p == Provisioned(d, version)
  <1>1. cfg \in Nat /\ d.delivery \in DeliveryStates /\ d.wlans \in Envelopes
    BY DEF Assigned, Devices
  <1>2. o \in DeliveryStates
    BY <1>1, OfferType
  <1>3. p = [d EXCEPT !.cfgVersion = cfg, !.state = "adopting", !.delivery = o,
                      !.blockedSent = d.blocked, !.disconnected = FALSE]
    BY DEF Provisioned
  <1> HIDE DEF cfg, o, p
  <1>4. p \in Devices
    BY <1>1, <1>2, <1>3 DEF Assigned, Devices, States
  <1>5. SameKeys(d, p) /\ p.state = "adopting"
    BY <1>3 DEF Assigned, Devices, SameKeys
  <1>6. Assigned(p, key)
    BY <1>4, <1>5 DEF Assigned, SameKeys
  <1>7. ReplyOK(FullProvision(p))
    BY <1>4 DEF Devices, ReplyOK, FullProvision, Bare, Replies, Kinds, NoVersion
  <1> QED BY <1>5, <1>6, <1>7 DEF p

\* The watchdog counters stay well typed.
LEMMA WatchedType ==
    ASSUME NEW d \in Devices, NEW table
    PROVE  Watched(d, table) \in DeliveryStates
  <1> DEFINE s == d.delivery
             ev == NotRunningEvidence(s, table)
             gap == VapGap(d, table)
             m == CASE ev = "miss" -> s.misses + 1 [] ev = "run" -> 0 [] OTHER -> s.misses
             v == IF gap THEN s.vapMisses + 1 ELSE IF ev = "run" THEN 0 ELSE s.vapMisses
             k == IF ev = "run" /\ MissingVaps(d.wlans, table) = {} THEN NoVersion
                  ELSE s.marker
  <1>1. s \in DeliveryStates
    BY DEF Devices
  <1>2. m \in Nat /\ k \in Nat
    BY <1>1 DEF DeliveryStates, NoVersion
  <1>3. v \in Nat
    BY <1>1 DEF DeliveryStates
  <1>4. Watched(d, table) = [s EXCEPT !.misses = m, !.vapMisses = v, !.marker = k]
    BY DEF Watched
  <1> HIDE DEF s, m, v, k
  <1> QED BY <1>1, <1>2, <1>3, <1>4 DEF DeliveryStates

\* The connected noop keeps the assignment.
LEMMA ConnectedAssigned ==
    ASSUME NEW d, NEW key, Assigned(d, key), NEW table
    PROVE  /\ Assigned(Connected(d, table), key)
           /\ SameKeys(d, Connected(d, table))
  <1> DEFINE w == Watched(d, table)
             c == Connected(d, table)
  <1>1. w \in DeliveryStates
    BY WatchedType DEF Assigned
  <1>2. c = [d EXCEPT !.state = "adopted", !.disconnected = FALSE, !.delivery = w]
    BY DEF Connected
  <1> HIDE DEF w, c
  <1>3. c \in Devices
    BY <1>1, <1>2 DEF Assigned, Devices, States
  <1>4. SameKeys(d, c) /\ c.state = "adopted"
    BY <1>2 DEF Assigned, Devices, SameKeys
  <1> QED BY <1>3, <1>4 DEF Assigned, SameKeys, c

\* Clearing the counters, or arming the watchdog's reboot, keeps the rows of the
\* delivery that KeyShape looks at.
LEMMA CountersType ==
    ASSUME NEW s \in DeliveryStates, NEW n \in Nat
    PROVE  /\ [s EXCEPT !.misses = 0] \in DeliveryStates
           /\ [s EXCEPT !.misses = 0, !.vapMisses = 0] \in DeliveryStates
           /\ [s EXCEPT !.misses = 0, !.vapMisses = 0, !.marker = n] \in DeliveryStates
           /\ Spent(s) \in DeliveryStates
           /\ [s EXCEPT !.misses = 0, !.vapMisses = 0].pending = s.pending
           /\ [s EXCEPT !.misses = 0, !.vapMisses = 0].baseline = s.baseline
           /\ Spent(s).pending = s.pending
           /\ Spent(s).baseline = s.baseline
  BY DEF DeliveryStates, Spent

\* The armed setdefault ends the incarnation and leaves a pending candidate.
LEMMA DemotedGood ==
    ASSUME NEW d, Good(d), NEW epoch \in Nat
    PROVE  Good(Demoted(d, epoch)) /\ Demoted(d, epoch).epoch = epoch
  <1>1. NoDelivery \in DeliveryStates
    BY DEF NoDelivery, DeliveryStates, NoVersion
  <1>2. NoDelivery.pending = NoEnvelope /\ NoDelivery.baseline = NoEnvelope
    BY DEF NoDelivery
  <1>3. << >> \in Seq(Keys) /\ Len(<< >>) = 0
    OBVIOUS
  <1>4. Demoted(d, epoch) \in Devices
    BY <1>1, <1>3 DEF Good, Demoted, Devices, States, NoVersion
  <1>5. /\ Demoted(d, epoch).authkeys = << >>
        /\ Demoted(d, epoch).xAuthkey = NoKey
        /\ Demoted(d, epoch).keyConfirmed = FALSE
        /\ Demoted(d, epoch).state = "pending"
        /\ Demoted(d, epoch).delivery = NoDelivery
        /\ Demoted(d, epoch).epoch = epoch
    BY DEF Good, Demoted, Devices
  <1> QED BY <1>2, <1>3, <1>4, <1>5 DEF Good, KeyShape, Delivering

\* Reboot and cmd answers consume their rows only.
LEMMA CommandGood ==
    ASSUME NEW d, Good(d)
    PROVE  /\ Good(Rebooted(d)) /\ SameKeys(d, Rebooted(d))
           /\ Good(CmdConsumed(d)) /\ SameKeys(d, CmdConsumed(d))
  <1> DEFINE t == [d.delivery EXCEPT !.misses = 0, !.vapMisses = 0]
             r == Rebooted(d)
  <1>1. d.delivery \in DeliveryStates
    BY DEF Good, Devices
  <1>2. t \in DeliveryStates /\ t.pending = d.delivery.pending
          /\ t.baseline = d.delivery.baseline
    BY <1>1, CountersType
  <1>3. r = [d EXCEPT !.reboot = FALSE, !.delivery = t]
    BY DEF Rebooted, Good, Devices
  <1> HIDE DEF t, r
  <1>4. r \in Devices
    BY <1>2, <1>3 DEF Good, Devices
  <1>5. KeyShape(r) /\ SameKeys(d, r)
    BY <1>2, <1>3 DEF Good, Devices, KeyShape, Delivering, SameKeys
  <1>6. CmdConsumed(d) \in Devices
    BY DEF CmdConsumed, Good, Devices
  <1>7. KeyShape(CmdConsumed(d)) /\ SameKeys(d, CmdConsumed(d))
    BY DEF CmdConsumed, Good, Devices, KeyShape, Delivering, SameKeys
  <1> QED BY <1>4, <1>5, <1>6, <1>7 DEF Good, r

-----------------------------------------------------------------------------
(* The inductive invariant                                                  *)

\* Every incarnation in use is older than the next one.
EpochsUsed == \A d \in Records : d.epoch < next.epoch

IInv == TypeOK /\ KeyDiscipline /\ EpochsUsed

\* The step formula of ConfirmedKeyStands.
Stands ==
    (/\ rec # NoRecord
     /\ rec' # NoRecord
     /\ rec.keyConfirmed
     /\ rec'.epoch = rec.epoch
     /\ spent'.faults = spent.faults)
    => rec'.xAuthkey = rec.xAuthkey /\ rec'.keyConfirmed

\* KeyDiscipline and EpochsUsed, record by record.
LEMMA RecordsGood ==
    ASSUME TypeOK
    PROVE  (KeyDiscipline /\ EpochsUsed) <=>
              /\ rec # NoRecord => Good(rec) /\ rec.epoch < next.epoch
              /\ disk.rec # NoRecord => Good(disk.rec) /\ disk.rec.epoch < next.epoch
  BY DEF TypeOK, KeyDiscipline, EpochsUsed, Records, Good

\* The same in the next state.
LEMMA RecordsGoodNext ==
    ASSUME TypeOK'
    PROVE  (KeyDiscipline /\ EpochsUsed)' <=>
              /\ rec' # NoRecord => Good(rec') /\ rec'.epoch < next'.epoch
              /\ disk'.rec # NoRecord => Good(disk'.rec) /\ disk'.rec.epoch < next'.epoch
  BY DEF TypeOK, KeyDiscipline, EpochsUsed, Records, Good

\* A slot holds a well-typed request and a well-typed answer.
LEMMA SlotType ==
    ASSUME TypeOK, NEW h \in Slots
    PROVE  /\ slot[h] \in SlotStates
           /\ slot[h].body \in Bodies
           /\ Used(h) \in Keys \cup {DefaultKey}
           /\ ReplyOK(slot[h].reply)
  BY DEF TypeOK, SlotStates, Bodies, Used

\* Statuses, noops and commands are answers without content.
LEMMA BareOK ==
    ASSUME NEW kind \in {"status", "noop", "reboot", "setdefault", "cmd"}
    PROVE  ReplyOK(Bare(kind))
  BY DEF ReplyOK, Bare, Replies, Kinds, NoVersion

\* The adoption push of a well-typed record is a well-typed answer.
LEMMA PushOK ==
    ASSUME NEW d \in Devices, NEW key
    PROVE  ReplyOK(AdoptionPush(d, key))
  BY DEF ReplyOK, AdoptionPush, Bare, Replies, Kinds, NoVersion, Devices

\* An idle slot holds a well-typed request.
LEMMA NoBodyType == NoBody \in Bodies
  BY DEF NoBody, Bodies, VapTables, NoVersion

\* Answering a request leaves a well-typed slot, and an idle one is well typed.
LEMMA AnsweredType ==
    ASSUME NEW reply, ReplyOK(reply), NEW phase \in {"saving", "reply", "idle"}
    PROVE  /\ Answered(phase, reply) \in SlotStates
           /\ Answered(phase, reply).reply = reply
           /\ IdleSlot \in SlotStates
           /\ ReplyOK(IdleSlot.reply)
  <1>1. ReplyOK(Bare("status"))
    BY BareOK
  <1> QED BY <1>1, NoBodyType DEF Answered, IdleSlot, SlotStates, ReplyOK

\* Putting a well-typed value into one slot keeps the slots well typed.
LEMMA SlotsType ==
    ASSUME TypeOK, NEW h \in Slots, NEW v \in SlotStates, ReplyOK(v.reply),
           slot' = [slot EXCEPT ![h] = v]
    PROVE  slot' \in [Slots -> SlotStates] /\ \A g \in Slots : ReplyOK(slot'[g].reply)
  BY DEF TypeOK

\* The tail of every cycle preserves the invariant if the record it commits is
\* well formed.
LEMMA CommitStep ==
    ASSUME IInv, NEW h \in Slots, rec # NoRecord,
           NEW d \in Devices, NEW reply, ReplyOK(reply),
           CommitCycle(h, d, reply),
           Good(Confirm(d, Used(h))),
           Confirm(d, Used(h)).epoch = d.epoch,
           d.epoch <= next.epoch,
           rec.keyConfirmed /\ d.epoch = rec.epoch
              => /\ Confirm(d, Used(h)).xAuthkey = rec.xAuthkey
                 /\ Confirm(d, Used(h)).keyConfirmed
    PROVE  IInv' /\ Stands
  <1>1. TypeOK
    BY DEF IInv
  <1>2. rec' = Confirm(d, Used(h)) /\ Good(rec')
    BY DEF CommitCycle
  <1>3. slot' \in [Slots -> SlotStates] /\ \A g \in Slots : ReplyOK(slot'[g].reply)
    <2> DEFINE v == Answered("saving", reply)
    <2>1. v \in SlotStates /\ v.reply = reply
      BY AnsweredType
    <2>2. slot' = [slot EXCEPT ![h] = v]
      BY DEF CommitCycle
    <2> HIDE DEF v
    <2> QED BY <1>1, <2>1, <2>2, SlotsType
  <1>4. /\ next' \in [key : Nat \ {0}, version : Nat \ {0}, epoch : Nat \ {0}]
        /\ next.epoch <= next'.epoch
        /\ d.epoch < next'.epoch
        /\ next.epoch \in Nat /\ next'.epoch \in Nat
    <2> DEFINE k == IF d.xAuthkey = next.key THEN next.key + 1 ELSE next.key
               w == IF d.cfgVersion = next.version THEN next.version + 1 ELSE next.version
               e == IF d.epoch = next.epoch THEN next.epoch + 1 ELSE next.epoch
    <2>1. next' = [next EXCEPT !.key = k, !.version = w, !.epoch = e]
      BY DEF CommitCycle
    <2>2. next \in [key : Nat \ {0}, version : Nat \ {0}, epoch : Nat \ {0}]
      BY <1>1 DEF TypeOK
    <2>3. d.epoch \in Nat
      BY DEF Devices
    <2>4. /\ k \in Nat \ {0} /\ w \in Nat \ {0} /\ e \in Nat \ {0}
          /\ next.epoch <= e /\ d.epoch < e
      BY <2>2, <2>3
    <2> HIDE DEF k, w, e
    <2> QED BY <2>1, <2>2, <2>4
  <1>5. UNCHANGED <<noted, disk, unsaved, dev, spent>>
    BY DEF CommitCycle
  <1>6. TypeOK'
    BY <1>1, <1>2, <1>3, <1>4, <1>5 DEF TypeOK, Good
  <1>7. rec'.epoch < next'.epoch
    BY <1>2, <1>4
  <1>8. disk'.rec # NoRecord => Good(disk'.rec) /\ disk'.rec.epoch < next'.epoch
    <2>1. disk.rec # NoRecord => Good(disk.rec) /\ disk.rec.epoch < next.epoch
      BY <1>1, RecordsGood DEF IInv
    <2>2. disk.rec # NoRecord => disk.rec.epoch \in Nat
      BY <2>1 DEF Good, Devices
    <2> QED BY <1>4, <1>5, <2>1, <2>2
  <1>9. IInv'
    BY <1>2, <1>6, <1>7, <1>8, RecordsGoodNext DEF IInv
  <1> QED BY <1>2, <1>9 DEF Stands

\* The record in memory, from the invariant.
LEMMA RecGood ==
    ASSUME IInv, rec # NoRecord
    PROVE  /\ Good(rec)
           /\ rec.epoch <= next.epoch
           /\ rec.epoch # next.epoch
           /\ next.epoch \in Nat /\ next.version \in Nat /\ next.key \in Keys
  <1>1. TypeOK /\ Good(rec) /\ rec.epoch < next.epoch
    BY RecordsGood DEF IInv
  <1>2. rec.epoch \in Nat
    BY <1>1 DEF Good, Devices
  <1>3. next.epoch \in Nat /\ next.version \in Nat /\ next.key \in Nat \ {0}
    BY <1>1 DEF TypeOK
  <1> QED BY <1>1, <1>2, <1>3 DEF Keys, DefaultKey

\* A cycle that commits a well-formed record with the same keys.
LEMMA GoodCommit ==
    ASSUME IInv, NEW h \in Slots, rec # NoRecord,
           NEW d, Good(d), SameKeys(rec, d),
           NEW reply, ReplyOK(reply),
           CommitCycle(h, d, reply)
    PROVE  IInv' /\ Stands
  <1>1. /\ Good(Confirm(d, Used(h)))
        /\ Confirm(d, Used(h)).xAuthkey = d.xAuthkey
        /\ Confirm(d, Used(h)).epoch = d.epoch
        /\ d.keyConfirmed => Confirm(d, Used(h)).keyConfirmed
    BY ConfirmGood
  <1>2. d \in Devices
    BY DEF Good
  <1>3. d.epoch <= next.epoch
    BY RecGood DEF SameKeys
  <1> QED BY <1>1, <1>2, <1>3, CommitStep DEF SameKeys

\* A cycle on the assigned key.
LEMMA AssignedCommit ==
    ASSUME IInv, NEW h \in Slots, rec # NoRecord,
           NEW d, Assigned(d, Used(h)), SameKeys(rec, d),
           NEW reply, ReplyOK(reply),
           CommitCycle(h, d, reply)
    PROVE  IInv' /\ Stands
  <1>1. /\ Good(Confirm(d, Used(h)))
        /\ Confirm(d, Used(h)).xAuthkey = d.xAuthkey
        /\ Confirm(d, Used(h)).epoch = d.epoch
        /\ Confirm(d, Used(h)).keyConfirmed
    BY ConfirmAssigned
  <1>2. d \in Devices
    BY DEF Assigned
  <1>3. d.epoch <= next.epoch
    BY RecGood DEF SameKeys
  <1> QED BY <1>1, <1>2, <1>3, CommitStep DEF SameKeys

\* The absorbed record, and the one the engine's switch works on.
LEMMA WorkGood ==
    ASSUME IInv, NEW h \in Slots, rec # NoRecord
    PROVE  /\ Good(Fresh(h)) /\ SameKeys(rec, Fresh(h)) /\ Fresh(h).state = rec.state
           /\ Good(Work(h)) /\ SameKeys(rec, Work(h)) /\ Work(h).state = rec.state
  <1>1. Good(rec) /\ next.version \in Nat
    BY RecGood
  <1>2. slot[h].body \in Bodies
    BY SlotType DEF IInv
  <1>3. Good(Fresh(h)) /\ SameKeys(rec, Fresh(h)) /\ Fresh(h).state = rec.state
    BY <1>1, <1>2, AbsorbGood DEF Fresh, SameKeys
  <1>4. Good(Work(h)) /\ SameKeys(Fresh(h), Work(h)) /\ Work(h).state = Fresh(h).state
    BY <1>1, <1>3, PreparedGood DEF Work, SameKeys
  <1> QED BY <1>3, <1>4 DEF SameKeys

\* Updates of the branch records that leave keys and incarnation alone.
LEMMA BranchRecords ==
    ASSUME NEW d, NEW key, Assigned(d, key), NEW version \in Nat
    PROVE  /\ LET e == [d EXCEPT !.cfgVersion = version]
              IN  Assigned(e, key) /\ SameKeys(d, e)
           /\ LET e == [d EXCEPT !.state = "adopted", !.disconnected = FALSE]
              IN  Assigned(e, key) /\ SameKeys(d, e)
           /\ LET e == [d EXCEPT !.disconnected = FALSE, !.delivery.misses = 0,
                                 !.cfgVersion = version]
              IN  Assigned(e, key) /\ SameKeys(d, e)
           /\ LET e == [MaterializationArmed(d) EXCEPT !.disconnected = FALSE]
              IN  Assigned(e, key) /\ SameKeys(d, e)
  <1>1. d \in Devices /\ d.delivery \in DeliveryStates /\ d.cfgVersion \in Nat
    BY DEF Assigned, Devices
  <1>2. ASSUME NEW e, e \in Devices, SameKeys(d, e), e.state # "pending"
        PROVE  Assigned(e, key)
    BY <1>2 DEF Assigned, SameKeys
  <1>3. LET e == [d EXCEPT !.cfgVersion = version]
        IN  Assigned(e, key) /\ SameKeys(d, e)
    <2> DEFINE e == [d EXCEPT !.cfgVersion = version]
    <2>1. e \in Devices /\ SameKeys(d, e) /\ e.state = d.state
      BY <1>1 DEF Devices, SameKeys
    <2>2. d.state # "pending"
      BY DEF Assigned
    <2> HIDE DEF e
    <2>3. Assigned(e, key)
      BY <1>2, <2>1, <2>2
    <2> QED BY <2>1, <2>3 DEF e
  <1>4. LET e == [d EXCEPT !.state = "adopted", !.disconnected = FALSE]
        IN  Assigned(e, key) /\ SameKeys(d, e)
    <2> DEFINE e == [d EXCEPT !.state = "adopted", !.disconnected = FALSE]
    <2>1. e \in Devices /\ SameKeys(d, e) /\ e.state = "adopted"
      BY <1>1 DEF Devices, SameKeys, States
    <2> HIDE DEF e
    <2>2. Assigned(e, key)
      BY <1>2, <2>1
    <2> QED BY <2>1, <2>2 DEF e
  <1>5. LET e == [d EXCEPT !.disconnected = FALSE, !.delivery.misses = 0,
                           !.cfgVersion = version]
        IN  Assigned(e, key) /\ SameKeys(d, e)
    <2> DEFINE t == [d.delivery EXCEPT !.misses = 0]
               e == [d EXCEPT !.disconnected = FALSE, !.delivery = t,
                              !.cfgVersion = version]
    <2>1. t \in DeliveryStates
      BY <1>1, CountersType
    <2>2. e = [d EXCEPT !.disconnected = FALSE, !.delivery.misses = 0,
                        !.cfgVersion = version]
      BY <1>1 DEF Devices
    <2>3. e \in Devices /\ SameKeys(d, e) /\ e.state = d.state
      <3> HIDE DEF t
      <3> QED BY <1>1, <2>1 DEF Devices, SameKeys
    <2>4. d.state # "pending"
      BY DEF Assigned
    <2> HIDE DEF e
    <2>5. Assigned(e, key)
      BY <1>2, <2>3, <2>4
    <2> QED BY <2>2, <2>3, <2>5
  <1>6. LET e == [MaterializationArmed(d) EXCEPT !.disconnected = FALSE]
        IN  Assigned(e, key) /\ SameKeys(d, e)
    <2> DEFINE t == [d.delivery EXCEPT !.misses = 0, !.vapMisses = 0,
                                       !.marker = d.cfgVersion]
               e == [d EXCEPT !.reboot = TRUE, !.delivery = t, !.disconnected = FALSE]
    <2>1. t \in DeliveryStates
      BY <1>1, CountersType
    <2>2. e = [MaterializationArmed(d) EXCEPT !.disconnected = FALSE]
      BY <1>1 DEF Devices, MaterializationArmed
    <2>3. e \in Devices /\ SameKeys(d, e) /\ e.state = d.state
      <3> HIDE DEF t
      <3> QED BY <1>1, <2>1 DEF Devices, SameKeys
    <2>4. d.state # "pending"
      BY DEF Assigned
    <2> HIDE DEF e
    <2>5. Assigned(e, key)
      BY <1>2, <2>3, <2>4
    <2> QED BY <2>2, <2>3, <2>5
  <1> QED BY <1>3, <1>4, <1>5, <1>6

-----------------------------------------------------------------------------
(* One lemma per group of actions                                           *)

\* The cycles before the engine's switch: gentle noop, armed commands, and the
\* whole plaintext lane.
LEMMA LaneSteps ==
    ASSUME IInv, NEW h \in Slots,
           \/ GentleNoop(h) \/ EmitSetdefault(h) \/ EmitReboot(h) \/ EmitCmd(h)
           \/ PlainUnassigned(h) \/ PlainResend(h) \/ PlainProvision(h)
    PROVE  IInv' /\ Stands
  <1>1. rec # NoRecord
    BY DEF GentleNoop, EmitSetdefault, EmitReboot, EmitCmd, PlainUnassigned,
           PlainResend, PlainProvision, CommandTurn, PlainDeciding, Admitted,
           Encrypted, Plain, Running
  <1>2. Good(Fresh(h)) /\ SameKeys(rec, Fresh(h))
    BY <1>1, WorkGood
  <1>3. /\ Good(rec) /\ rec.epoch # next.epoch
        /\ next.epoch \in Nat /\ next.version \in Nat
    BY <1>1, RecGood
  <1>4. CASE GentleNoop(h)
    BY <1>1, <1>2, <1>4, BareOK, GoodCommit DEF GentleNoop
  <1>5. CASE EmitSetdefault(h)
    <2> DEFINE d == Demoted(Fresh(h), next.epoch)
    <2>1. Good(d) /\ d.epoch = next.epoch
      BY <1>2, <1>3, DemotedGood
    <2>2. CommitCycle(h, d, Bare("setdefault")) /\ ReplyOK(Bare("setdefault"))
      BY <1>5, BareOK DEF EmitSetdefault
    <2> HIDE DEF d
    <2>3. Good(Confirm(d, Used(h))) /\ Confirm(d, Used(h)).epoch = d.epoch
      BY <2>1, ConfirmGood
    <2>4. d \in Devices /\ d.epoch <= next.epoch /\ d.epoch # rec.epoch
      BY <1>3, <2>1 DEF Good
    <2> QED BY <1>1, <2>2, <2>3, <2>4, CommitStep
  <1>6. CASE EmitReboot(h)
    <2>1. Good(Rebooted(Fresh(h))) /\ SameKeys(rec, Rebooted(Fresh(h)))
      BY <1>2, CommandGood DEF SameKeys
    <2> QED BY <1>1, <1>6, <2>1, BareOK, GoodCommit DEF EmitReboot
  <1>7. CASE EmitCmd(h)
    <2>1. Good(CmdConsumed(Fresh(h))) /\ SameKeys(rec, CmdConsumed(Fresh(h)))
      BY <1>2, CommandGood DEF SameKeys
    <2> QED BY <1>1, <1>7, <2>1, BareOK, GoodCommit DEF EmitCmd
  <1>8. CASE PlainUnassigned(h)
    BY <1>1, <1>2, <1>8, BareOK, GoodCommit DEF PlainUnassigned
  <1>9. CASE PlainResend(h)
    <2>1. ReplyOK(AdoptionPush(Fresh(h), rec.xAuthkey))
      BY <1>2, PushOK DEF Good
    <2> QED BY <1>1, <1>2, <1>9, <2>1, GoodCommit DEF PlainResend
  <1>10. CASE PlainProvision(h)
    <2> DEFINE d == Provisioned(Fresh(h), next.version)
    <2>1. OnAssigned(Fresh(h), Used(h))
      BY <1>2, <1>10 DEF PlainProvision, OnAssigned, SameKeys
    <2>2. Assigned(Fresh(h), Used(h))
      BY <1>2, <2>1, OnAssignedKeys
    <2>3. Assigned(d, Used(h)) /\ SameKeys(Fresh(h), d) /\ ReplyOK(FullProvision(d))
      BY <1>3, <2>2, ProvisionedAssigned
    <2>4. CommitCycle(h, d, FullProvision(d))
      BY <1>10 DEF PlainProvision
    <2> HIDE DEF d
    <2>5. SameKeys(rec, d)
      BY <1>2, <2>3 DEF SameKeys
    <2> QED BY <1>1, <2>3, <2>4, <2>5, AssignedCommit
  <1> QED BY <1>4, <1>5, <1>6, <1>7, <1>8, <1>9, <1>10

\* The engine's switch on the encrypted lane.
LEMMA SwitchSteps ==
    ASSUME IInv, NEW h \in Slots, NEW due \in BOOLEAN, Cycle(h, due)
    PROVE  IInv' /\ Stands
  <1> DEFINE w == Work(h)
  <1>1. rec # NoRecord /\ ~DefaultKeyRejected(rec, Used(h))
    BY DEF Cycle, HoldPending, Rotate, RePush, Provision, SelfHeal, ReconnectPush,
           ReprovisionMiss, ArmMaterialization, ConnectedNoop, Baselined, Settled,
           OnKey, Released, Deciding, Admitted, Encrypted, Running
  <1>2. Good(w) /\ SameKeys(rec, w) /\ w.state = rec.state
    BY <1>1, WorkGood
  <1>3. /\ next.version \in Nat /\ next.key \in Keys
        /\ rec.epoch <= next.epoch
    BY <1>1, RecGood
  <1>4. ASSUME OnAssigned(rec, Used(h))
        PROVE  Assigned(w, Used(h))
    <2>1. OnAssigned(w, Used(h))
      BY <1>2, <1>4 DEF OnAssigned, SameKeys
    <2> QED BY <1>2, <2>1, OnAssignedKeys
  <1>5. CASE HoldPending(h, due)
    <2> DEFINE t == Spent(w.delivery)
               d == [w EXCEPT !.delivery = t]
    <2>1. w.delivery \in DeliveryStates
      BY <1>2 DEF Good, Devices
    <2>2. t \in DeliveryStates /\ t.pending = w.delivery.pending
            /\ t.baseline = w.delivery.baseline
      BY <2>1, CountersType
    <2>3. CommitCycle(h, d, Bare("noop"))
      BY <1>5 DEF HoldPending
    <2> HIDE DEF t
    <2>4. d \in Devices
      BY <1>2, <2>2 DEF Good, Devices
    <2>5. KeyShape(d) /\ SameKeys(w, d)
      BY <1>2, <2>2 DEF Good, Devices, KeyShape, Delivering, SameKeys
    <2> HIDE DEF d, w
    <2>6. SameKeys(rec, d) /\ Good(d)
      BY <1>2, <2>4, <2>5 DEF SameKeys, Good
    <2> QED BY <1>1, <2>3, <2>6, BareOK, GoodCommit
  <1>6. CASE Rotate(h, due)
    <2> DEFINE d == RotateKeys(w, next.key, next.version)
    <2>1. Used(h) = DefaultKey /\ CommitCycle(h, d, AdoptionPush(d, Used(h)))
      BY <1>6 DEF Rotate
    <2>2. ~DefaultKeyRejected(w, DefaultKey)
      BY <1>1, <1>2, <2>1 DEF DefaultKeyRejected, SameKeys
    <2>3. /\ Good(d) /\ ~w.keyConfirmed /\ d.epoch = w.epoch
      BY <1>2, <1>3, <2>2, RotateGood
    <2> HIDE DEF d, w
    <2>4. Good(Confirm(d, Used(h))) /\ Confirm(d, Used(h)).epoch = d.epoch
      BY <2>3, ConfirmGood
    <2>5. d \in Devices /\ d.epoch <= next.epoch /\ ~rec.keyConfirmed
      BY <1>2, <1>3, <2>3 DEF Good, SameKeys
    <2>6. ReplyOK(AdoptionPush(d, Used(h)))
      BY <2>5, PushOK
    <2> QED BY <1>1, <2>1, <2>4, <2>5, <2>6, CommitStep
  <1>7. CASE RePush(h, due)
    <2>1. ReplyOK(AdoptionPush(w, Used(h)))
      BY <1>2, PushOK DEF Good
    <2>2. CommitCycle(h, w, AdoptionPush(w, Used(h)))
      BY <1>7 DEF RePush
    <2> HIDE DEF w
    <2> QED BY <1>1, <1>2, <2>1, <2>2, GoodCommit
  <1>8. CASE Provision(h, due)
    <2> DEFINE d == Provisioned(w, next.version)
    <2>1. Assigned(w, Used(h)) /\ CommitCycle(h, d, FullProvision(d))
      BY <1>4, <1>8 DEF Provision, OnKey
    <2> HIDE DEF w
    <2>2. Assigned(d, Used(h)) /\ SameKeys(w, d) /\ ReplyOK(FullProvision(d))
      BY <1>3, <2>1, ProvisionedAssigned
    <2> HIDE DEF d
    <2>3. SameKeys(rec, d)
      BY <1>2, <2>2 DEF SameKeys
    <2> QED BY <1>1, <2>1, <2>2, <2>3, AssignedCommit
  <1>9. CASE SelfHeal(h, due)
    <2> DEFINE d == [w EXCEPT !.cfgVersion = next.version]
    <2>1. Assigned(w, Used(h)) /\ CommitCycle(h, d, Bare("noop"))
      BY <1>4, <1>9 DEF SelfHeal, Settled, OnKey
    <2> HIDE DEF w
    <2>2. Assigned(d, Used(h)) /\ SameKeys(w, d)
      BY <1>3, <2>1, BranchRecords
    <2> HIDE DEF d
    <2>3. SameKeys(rec, d)
      BY <1>2, <2>2 DEF SameKeys
    <2> QED BY <1>1, <2>1, <2>2, <2>3, BareOK, AssignedCommit
  <1>10. CASE ReconnectPush(h, due)
    <2> DEFINE d == [w EXCEPT !.state = "adopted", !.disconnected = FALSE]
    <2>1. Assigned(w, Used(h)) /\ CommitCycle(h, d, BlockedStaReconnect(w))
      BY <1>4, <1>10 DEF ReconnectPush, Baselined, Settled, OnKey
    <2> HIDE DEF w
    <2>2. Assigned(d, Used(h)) /\ SameKeys(w, d)
      BY <1>3, <2>1, BranchRecords
    <2>3. ReplyOK(BlockedStaReconnect(w))
      BY <1>2 DEF Good, Devices, ReplyOK, BlockedStaReconnect, Bare, Replies,
                  Kinds, NoVersion
    <2> HIDE DEF d
    <2>4. SameKeys(rec, d)
      BY <1>2, <2>2 DEF SameKeys
    <2> QED BY <1>1, <2>1, <2>2, <2>3, <2>4, AssignedCommit
  <1>11. CASE ReprovisionMiss(h, due)
    <2> DEFINE d == [w EXCEPT !.disconnected = FALSE, !.delivery.misses = 0,
                              !.cfgVersion = next.version]
    <2>1. Assigned(w, Used(h)) /\ CommitCycle(h, d, Bare("noop"))
      BY <1>4, <1>11 DEF ReprovisionMiss, Baselined, Settled, OnKey
    <2> HIDE DEF w
    <2>2. Assigned(d, Used(h)) /\ SameKeys(w, d)
      BY <1>3, <2>1, BranchRecords
    <2> HIDE DEF d
    <2>3. SameKeys(rec, d)
      BY <1>2, <2>2 DEF SameKeys
    <2> QED BY <1>1, <2>1, <2>2, <2>3, BareOK, AssignedCommit
  <1>12. CASE ArmMaterialization(h, due)
    <2> DEFINE d == [MaterializationArmed(w) EXCEPT !.disconnected = FALSE]
    <2>1. Assigned(w, Used(h)) /\ CommitCycle(h, d, Bare("noop"))
      BY <1>4, <1>12 DEF ArmMaterialization, Baselined, Settled, OnKey
    <2> HIDE DEF w
    <2>2. Assigned(d, Used(h)) /\ SameKeys(w, d)
      BY <1>3, <2>1, BranchRecords
    <2> HIDE DEF d
    <2>3. SameKeys(rec, d)
      BY <1>2, <2>2 DEF SameKeys
    <2> QED BY <1>1, <2>1, <2>2, <2>3, BareOK, AssignedCommit
  <1>13. CASE ConnectedNoop(h, due)
    <2> DEFINE d == Connected(w, Table(h))
    <2>1. Assigned(w, Used(h)) /\ CommitCycle(h, d, Bare("noop"))
      BY <1>4, <1>13 DEF ConnectedNoop, Baselined, Settled, OnKey
    <2> HIDE DEF w
    <2>2. Assigned(d, Used(h)) /\ SameKeys(w, d)
      BY <2>1, ConnectedAssigned
    <2> HIDE DEF d
    <2>3. SameKeys(rec, d)
      BY <1>2, <2>2 DEF SameKeys
    <2> QED BY <1>1, <2>1, <2>2, <2>3, BareOK, AssignedCommit
  <1> QED BY <1>5, <1>6, <1>7, <1>8, <1>9, <1>10, <1>11, <1>12, <1>13 DEF Cycle

\* A step that leaves the records and the fresh names alone.
LEMMA QuietStep ==
    ASSUME IInv, TypeOK', UNCHANGED <<rec, disk, next>>
    PROVE  IInv' /\ Stands
  BY DEF IInv, KeyDiscipline, EpochsUsed, Records, Stands

\* An inform out of the ordinary is a request like any other.
LEMMA OddSends ==
    ASSUME NEW h, NEW lane, OddInform(h, lane)
    PROVE  (\E body : Send(h, lane, body)) /\ UNCHANGED <<rec, disk, next>>
  <1>1. PICK body : Send(h, lane, body)
    BY DEF OddInform
  <1> QED BY <1>1 DEF Send

\* A request of the right type keeps the types.
LEMMA SendType ==
    ASSUME TypeOK, NEW h \in Slots, NEW lane \in {"encrypted", "plain"},
           NEW body \in Bodies, Send(h, lane, body),
           spent' \in [ops : Nat, losses : Nat, faults : Nat, reports : Nat]
    PROVE  TypeOK'
  <1> DEFINE v == [IdleSlot EXCEPT !.phase = "sent", !.lane = lane, !.body = body]
  <1>1. ReplyOK(Bare("status"))
    BY BareOK
  <1>2. IdleSlot \in SlotStates /\ IdleSlot.reply = Bare("status")
    BY <1>1, AnsweredType DEF IdleSlot
  <1>3. v \in SlotStates /\ v.reply = Bare("status")
    BY <1>2 DEF SlotStates
  <1>4. slot' = [slot EXCEPT ![h] = v]
    BY DEF Send
  <1> HIDE DEF v
  <1>5. slot' \in [Slots -> SlotStates] /\ \A g \in Slots : ReplyOK(slot'[g].reply)
    BY <1>1, <1>3, <1>4, SlotsType
  <1>6. dev' \in DeviceStates
    BY DEF Send, TypeOK, DeviceStates
  <1> QED BY <1>5, <1>6 DEF Send, TypeOK

\* What the device reports of itself is a well-typed table.
LEMMA TrueTableType ==
    ASSUME TypeOK
    PROVE  TrueTable \in VapTables
  <1>1. dev.env \in [ssids : SUBSET Ssids, vaps : SUBSET (Ssids \X Radios), secrets : Nat]
    BY EnvelopeAssumption DEF TypeOK, DeviceStates
  <1> QED BY <1>1 DEF TrueTable, VapTables

\* Applying a well-typed answer leaves a well-typed device.
LEMMA AppliedType ==
    ASSUME TypeOK, NEW r, ReplyOK(r)
    PROVE  Applied(r) \in DeviceStates /\ FactoryDevice \in DeviceStates
  <1>1. dev \in DeviceStates /\ r \in Replies
    BY DEF TypeOK, ReplyOK
  <1>2. FactoryDevice \in DeviceStates
    BY EnvelopeAssumption DEF FactoryDevice, DeviceStates, NoVersion
  <1>3. CASE r.kind = "push"
    <2> DEFINE k == IF r.key # NoKey THEN r.key ELSE dev.key
               e == IF r.key # NoKey THEN r.epoch ELSE dev.epoch
    <2>1. k \in Keys \cup {DefaultKey} /\ e \in Nat
      BY <1>1 DEF DeviceStates, Replies
    <2>2. Applied(r) = [dev EXCEPT !.conn = NoConn, !.cfg = r.cfg, !.key = k, !.epoch = e]
      BY <1>3 DEF Applied
    <2> HIDE DEF k, e
    <2> QED BY <1>1, <1>2, <2>1, <2>2 DEF DeviceStates, Replies
  <1>4. CASE r.kind = "provision"
    <2>1. Applied(r) = [dev EXCEPT !.conn = NoConn, !.cfg = r.cfg, !.env = r.env,
                                   !.blocked = r.blocked, !.intent = r.intent]
      BY <1>4 DEF Applied
    <2>2. r.env \in Envelopes /\ r.blocked \in SUBSET Clients
      BY <1>4 DEF ReplyOK
    <2> QED BY <1>1, <1>2, <2>1, <2>2 DEF DeviceStates, Replies
  <1>5. CASE r.kind = "reconnect"
    <2>1. Applied(r) = [dev EXCEPT !.conn = NoConn, !.blocked = r.blocked]
      BY <1>5 DEF Applied
    <2>2. r.blocked \in SUBSET Clients
      BY <1>5 DEF ReplyOK
    <2> QED BY <1>1, <1>2, <2>1, <2>2 DEF DeviceStates, Replies
  <1>6. CASE r.kind = "setdefault"
    BY <1>2, <1>6 DEF Applied
  <1>7. CASE r.kind \notin {"push", "provision", "reconnect", "setdefault"}
    <2>1. Applied(r) = [dev EXCEPT !.conn = NoConn]
      BY <1>7 DEF Applied
    <2> QED BY <1>1, <1>2, <2>1 DEF DeviceStates
  <1> QED BY <1>3, <1>4, <1>5, <1>6, <1>7

\* The access point's steps on one request: informing, losing it, applying the
\* answer.
LEMMA DeviceSteps ==
    ASSUME IInv, NEW h \in Slots,
           \/ \E lane \in Lanes : OddInform(h, lane)
           \/ Inform(h) \/ RequestLost(h) \/ Deliver(h)
    PROVE  IInv' /\ Stands
  <1>1. TypeOK
    BY DEF IInv
  <1>2. /\ dev \in DeviceStates
        /\ spent \in [ops : Nat, losses : Nat, faults : Nat, reports : Nat]
    BY <1>1 DEF TypeOK
  <1>3. IdleSlot \in SlotStates /\ ReplyOK(IdleSlot.reply)
    BY BareOK, AnsweredType
  <1>4. CASE Inform(h)
    <2> DEFINE b == [type |-> "status", key |-> dev.key, cfg |-> dev.cfg,
                     table |-> TrueTable, drop |-> FALSE]
    <2>1. b \in Bodies
      BY <1>1, <1>2, TrueTableType DEF Bodies, DeviceStates
    <2>2. Send(h, "encrypted", b) /\ spent' = spent
      BY <1>4 DEF Inform
    <2> HIDE DEF b
    <2>3. TypeOK'
      BY <1>1, <1>2, <2>1, <2>2, SendType
    <2> QED BY <2>2, <2>3, QuietStep DEF Send
  <1>5. CASE \E lane \in Lanes : OddInform(h, lane)
    <2>0. PICK lane \in Lanes : OddInform(h, lane)
      BY <1>5
    <2>1. PICK type \in {"status", "gentle"}, table \in Reportable,
               drop \in {FALSE, "Drop" \in Ops},
               cfg \in {dev.cfg, IF "Sparse" \in Ops THEN NoVersion ELSE dev.cfg} :
               Send(h, lane, [type |-> type, key |-> dev.key, cfg |-> cfg,
                              table |-> table, drop |-> drop])
      BY <2>0 DEF OddInform
    <2> DEFINE b == [type |-> type, key |-> dev.key, cfg |-> cfg,
                     table |-> table, drop |-> drop]
    <2>2. table \in VapTables
      BY <1>1, TrueTableType, TableAssumption DEF Reportable
    <2>3. drop \in BOOLEAN
      <3>1. drop = FALSE \/ drop = ("Drop" \in Ops)
        OBVIOUS
      <3>2. CASE "Drop" \in Ops
        <4>1. ("Drop" \in Ops) = TRUE
          BY <3>2
        <4> QED BY <3>1, <4>1
      <3>3. CASE "Drop" \notin Ops
        <4>1. ("Drop" \in Ops) = FALSE
          BY <3>3
        <4> QED BY <3>1, <4>1
      <3> QED BY <3>2, <3>3
    <2>4. cfg \in Nat
      BY <1>2 DEF DeviceStates, NoVersion
    <2>5. b \in Bodies
      BY <1>2, <2>2, <2>3, <2>4 DEF Bodies, DeviceStates
    <2>6. Send(h, lane, b)
      BY <2>1
    <2>7. spent' \in [ops : Nat, losses : Nat, faults : Nat, reports : Nat]
      BY <1>2, <2>0 DEF OddInform
    <2> HIDE DEF b
    <2>8. TypeOK'
      BY <1>1, <2>5, <2>6, <2>7, SendType, LaneAssumption
    <2> QED BY <2>6, <2>8, QuietStep DEF Send
  <1>6. CASE RequestLost(h)
    <2>1. slot' \in [Slots -> SlotStates] /\ \A g \in Slots : ReplyOK(slot'[g].reply)
      BY <1>1, <1>3, <1>6, SlotsType DEF RequestLost
    <2>2. TypeOK'
      BY <1>1, <1>6, <2>1 DEF RequestLost, TypeOK
    <2> QED BY <1>6, <2>2, QuietStep DEF RequestLost
  <1>7. CASE Deliver(h)
    <2>1. slot' \in [Slots -> SlotStates] /\ \A g \in Slots : ReplyOK(slot'[g].reply)
      BY <1>1, <1>3, <1>7, SlotsType DEF Deliver
    <2>2. dev' \in DeviceStates
      <3>1. ReplyOK(slot[h].reply)
        BY <1>1, SlotType
      <3>2. Applied(slot[h].reply) \in DeviceStates
        BY <1>1, <3>1, AppliedType
      <3> QED BY <1>2, <1>7, <3>2 DEF Deliver
    <2>3. TypeOK'
      BY <1>1, <1>7, <2>1, <2>2 DEF Deliver, TypeOK
    <2> QED BY <1>7, <2>3, QuietStep DEF Deliver
  <1> QED BY <1>4, <1>5, <1>6, <1>7

\* The access point stops waiting, or somebody holds its reset button.
LEMMA ResetSteps ==
    ASSUME IInv, GiveUp \/ PhysicalReset
    PROVE  IInv' /\ Stands
  <1>1. TypeOK
    BY DEF IInv
  <1>2. /\ dev \in DeviceStates
        /\ spent \in [ops : Nat, losses : Nat, faults : Nat, reports : Nat]
    BY <1>1 DEF TypeOK
  <1>3. ReplyOK(Bare("status"))
    BY BareOK
  <1>4. CASE GiveUp
    <2>1. /\ dev' \in DeviceStates
          /\ spent' \in [ops : Nat, losses : Nat, faults : Nat, reports : Nat]
      BY <1>2, <1>4 DEF GiveUp, DeviceStates
    <2>2. TypeOK'
      BY <1>1, <1>4, <2>1 DEF GiveUp, TypeOK
    <2> QED BY <1>4, <2>2, QuietStep DEF GiveUp
  <1>5. CASE PhysicalReset
    <2>1. dev' \in DeviceStates
      BY <1>1, <1>3, <1>5, AppliedType DEF PhysicalReset
    <2>2. spent' \in [ops : Nat, losses : Nat, faults : Nat, reports : Nat]
      BY <1>2, <1>5 DEF PhysicalReset
    <2>3. TypeOK'
      BY <1>1, <1>5, <2>1, <2>2 DEF PhysicalReset, TypeOK
    <2> QED BY <1>5, <2>3, QuietStep DEF PhysicalReset
  <1> QED BY <1>4, <1>5

\* The handler's steps that do not commit a cycle.
LEMMA HandlerSteps ==
    ASSUME IInv, NEW h \in Slots,
           \/ DecodeRegistered(h) \/ DecodeFails(h) \/ DecodeUnknown(h)
           \/ Vanished(h) \/ RejectDefaultKey(h)
    PROVE  IInv' /\ Stands
  <1>1. TypeOK
    BY DEF IInv
  <1>2. slot[h] \in SlotStates /\ ReplyOK(slot[h].reply)
    BY <1>1, SlotType
  <1>3. ReplyOK(Bare("status"))
    BY BareOK
  <1>4. ASSUME NEW v \in SlotStates, ReplyOK(v.reply), slot' = [slot EXCEPT ![h] = v],
               noted' \in BOOLEAN, UNCHANGED <<rec, disk, unsaved, dev, next, spent>>
        PROVE  IInv' /\ Stands
    <2>1. slot' \in [Slots -> SlotStates] /\ \A g \in Slots : ReplyOK(slot'[g].reply)
      BY <1>1, <1>4, SlotsType
    <2>2. TypeOK'
      BY <1>1, <1>4, <2>1 DEF TypeOK
    <2> QED BY <1>4, <2>2, QuietStep
  <1>5. CASE DecodeRegistered(h)
    <2> DEFINE v == [slot[h] EXCEPT !.phase = "decoded"]
    <2>1. v \in SlotStates /\ v.reply = slot[h].reply
      BY <1>2 DEF SlotStates
    <2>2. slot' = [slot EXCEPT ![h] = v] /\ noted' = noted
      BY <1>5 DEF DecodeRegistered
    <2>3. noted' \in BOOLEAN
      BY <1>1, <2>2 DEF TypeOK
    <2>4. UNCHANGED <<rec, disk, unsaved, dev, next, spent>>
      BY <1>5 DEF DecodeRegistered
    <2> HIDE DEF v
    <2> QED BY <1>2, <1>4, <2>1, <2>2, <2>3, <2>4
  <1>6. CASE DecodeFails(h) \/ Vanished(h) \/ RejectDefaultKey(h)
    <2>1. AnswerNow(h, Bare("status"))
      BY <1>6 DEF DecodeFails, Vanished, RejectDefaultKey
    <2> DEFINE v == Answered("reply", Bare("status"))
    <2>2. v \in SlotStates /\ v.reply = Bare("status")
      BY <1>3, AnsweredType
    <2>3. slot' = [slot EXCEPT ![h] = v] /\ noted' = noted
      BY <2>1 DEF AnswerNow
    <2>4. noted' \in BOOLEAN
      BY <1>1, <2>3 DEF TypeOK
    <2>5. UNCHANGED <<rec, disk, unsaved, dev, next, spent>>
      BY <2>1 DEF AnswerNow
    <2> HIDE DEF v
    <2> QED BY <1>3, <1>4, <2>2, <2>3, <2>4, <2>5
  <1>7. CASE DecodeUnknown(h)
    <2> DEFINE v == Answered(IF noted THEN "reply" ELSE "saving", Bare("status"))
    <2>1. v \in SlotStates /\ v.reply = Bare("status")
      BY <1>3, AnsweredType
    <2>2. slot' = [slot EXCEPT ![h] = v] /\ noted' = TRUE
      BY <1>7 DEF DecodeUnknown
    <2>3. UNCHANGED <<rec, disk, unsaved, dev, next, spent>>
      BY <1>7 DEF DecodeUnknown
    <2> HIDE DEF v
    <2> QED BY <1>3, <1>4, <2>1, <2>2, <2>3
  <1> QED BY <1>5, <1>6, <1>7

\* A decision that fails leaves the record alone.
LEMMA FailSteps ==
    ASSUME IInv, NEW h \in Slots, NEW due, EngineFails(h, due)
    PROVE  IInv' /\ Stands
  <1> DEFINE v == Answered("reply", Bare("noop"))
  <1>1. TypeOK
    BY DEF IInv
  <1>2. ReplyOK(Bare("noop"))
    BY BareOK
  <1>3. v \in SlotStates /\ v.reply = Bare("noop")
    BY <1>2, AnsweredType
  <1>4. slot' = [slot EXCEPT ![h] = v]
    BY DEF EngineFails
  <1> HIDE DEF v
  <1>5. slot' \in [Slots -> SlotStates] /\ \A g \in Slots : ReplyOK(slot'[g].reply)
    BY <1>1, <1>2, <1>3, <1>4, SlotsType
  <1>6. spent' \in [ops : Nat, losses : Nat, faults : Nat, reports : Nat]
    BY <1>1 DEF EngineFails, TypeOK
  <1>7. TypeOK'
    BY <1>1, <1>5, <1>6 DEF EngineFails, TypeOK
  <1> QED BY <1>7, QuietStep DEF EngineFails

\* Saves, failed saves and the restart: the record in memory reaches the disk or
\* the one on disk reaches memory; both are well formed.
LEMMA SaveSteps ==
    ASSUME IInv,
           \/ \E h \in Slots : SaveInform(h) \/ SaveInformFails(h)
           \/ \E who \in {"operator", "poller"} : SaveOther(who) \/ SaveOtherFails(who)
           \/ Restart
    PROVE  IInv' /\ Stands
  <1>1. TypeOK
    BY DEF IInv
  <1>2. /\ rec # NoRecord => Good(rec) /\ rec.epoch < next.epoch
        /\ disk.rec # NoRecord => Good(disk.rec) /\ disk.rec.epoch < next.epoch
    BY <1>1, RecordsGood DEF IInv
  <1>3. \A h \in Slots : slot[h] \in SlotStates /\ ReplyOK(slot[h].reply)
    BY <1>1, SlotType
  <1>4. /\ spent \in [ops : Nat, losses : Nat, faults : Nat, reports : Nat]
        /\ disk \in [rec : Devices \cup {NoRecord}, noted : BOOLEAN]
    BY <1>1 DEF TypeOK
  <1>5. ASSUME TypeOK', disk' = Snapshot, UNCHANGED <<rec, next>>
        PROVE  IInv' /\ Stands
    <2>1. disk'.rec = rec
      BY <1>5 DEF Snapshot
    <2>2. (KeyDiscipline /\ EpochsUsed)'
      BY <1>2, <1>5, <2>1, RecordsGoodNext
    <2> QED BY <1>5, <2>2 DEF IInv, Stands
  <1>6. ASSUME NEW h \in Slots, SaveInform(h)
        PROVE  IInv' /\ Stands
    <2> DEFINE v == [slot[h] EXCEPT !.phase = "reply"]
    <2>1. v \in SlotStates /\ v.reply = slot[h].reply
      BY <1>3 DEF SlotStates
    <2>2. slot' = [slot EXCEPT ![h] = v]
      BY <1>6 DEF SaveInform
    <2> HIDE DEF v
    <2>3. slot' \in [Slots -> SlotStates] /\ \A g \in Slots : ReplyOK(slot'[g].reply)
      BY <1>1, <1>3, <2>1, <2>2, SlotsType
    <2>4. disk' \in [rec : Devices \cup {NoRecord}, noted : BOOLEAN]
      BY <1>1, <1>6 DEF SaveInform, Snapshot, TypeOK
    <2>5. TypeOK'
      BY <1>1, <1>6, <2>3, <2>4 DEF SaveInform, TypeOK
    <2> QED BY <1>5, <1>6, <2>5 DEF SaveInform
  <1>7. ASSUME NEW h \in Slots, SaveInformFails(h)
        PROVE  IInv' /\ Stands
    <2> DEFINE b == Bare(IF slot[h].reply.kind = "status" THEN "status" ELSE "noop")
               v == [slot[h] EXCEPT !.phase = "reply", !.reply = b]
    <2>1. ReplyOK(b)
      BY BareOK
    <2>2. slot' = [slot EXCEPT ![h] = v]
      BY <1>7 DEF SaveInformFails
    <2> HIDE DEF b
    <2>3. v \in SlotStates /\ v.reply = b
      BY <1>3, <2>1 DEF SlotStates, ReplyOK
    <2> HIDE DEF v
    <2>4. slot' \in [Slots -> SlotStates] /\ \A g \in Slots : ReplyOK(slot'[g].reply)
      BY <1>1, <2>1, <2>2, <2>3, SlotsType
    <2>5. spent' \in [ops : Nat, losses : Nat, faults : Nat, reports : Nat]
      BY <1>4, <1>7 DEF SaveInformFails
    <2>6. TypeOK'
      BY <1>1, <1>7, <2>4, <2>5 DEF SaveInformFails, TypeOK
    <2> QED BY <1>7, <2>6, QuietStep DEF SaveInformFails
  <1>8. ASSUME NEW who \in {"operator", "poller"}, SaveOther(who)
        PROVE  IInv' /\ Stands
    <2>1. disk' \in [rec : Devices \cup {NoRecord}, noted : BOOLEAN]
      BY <1>1, <1>8 DEF SaveOther, Snapshot, TypeOK
    <2>2. TypeOK'
      BY <1>1, <1>8, <2>1 DEF SaveOther, TypeOK
    <2> QED BY <1>5, <1>8, <2>2 DEF SaveOther
  <1>9. ASSUME NEW who \in {"operator", "poller"}, SaveOtherFails(who)
        PROVE  IInv' /\ Stands
    <2>1. spent' \in [ops : Nat, losses : Nat, faults : Nat, reports : Nat]
      BY <1>4, <1>9 DEF SaveOtherFails
    <2>2. TypeOK'
      BY <1>1, <1>9, <2>1 DEF SaveOtherFails, TypeOK
    <2> QED BY <1>9, <2>2, QuietStep DEF SaveOtherFails
  <1>10. CASE Restart
    <2>1. IdleSlot \in SlotStates /\ ReplyOK(IdleSlot.reply)
      BY BareOK, AnsweredType
    <2>2. slot' \in [Slots -> SlotStates] /\ \A g \in Slots : ReplyOK(slot'[g].reply)
      BY <1>10, <2>1 DEF Restart
    <2>3. /\ spent' \in [ops : Nat, losses : Nat, faults : Nat, reports : Nat]
          /\ spent'.faults # spent.faults
      BY <1>4, <1>10 DEF Restart
    <2>4. dev' \in DeviceStates
      BY <1>1, <1>10 DEF Restart, TypeOK, DeviceStates
    <2>5. TypeOK'
      BY <1>1, <1>4, <1>10, <2>2, <2>3, <2>4 DEF Restart, TypeOK
    <2>6. (KeyDiscipline /\ EpochsUsed)'
      BY <1>2, <1>10, <2>5, RecordsGoodNext DEF Restart
    <2> QED BY <2>3, <2>5, <2>6 DEF IInv, Stands
  <1> QED BY <1>6, <1>7, <1>8, <1>9, <1>10

\* A cycle of the operator or the poller that installs a well-formed record with
\* the same keys, seeds a record where there was none, or deletes it.
LEMMA EditStep ==
    ASSUME IInv, NEW who \in {"operator", "poller"}, NEW op, NEW d, Edit(who, op, d),
           d # NoRecord => Good(d) /\ d.epoch <= next.epoch,
           rec # NoRecord /\ d # NoRecord => SameKeys(rec, d)
    PROVE  IInv' /\ Stands
  <1>1. TypeOK
    BY DEF IInv
  <1>2. disk.rec # NoRecord => Good(disk.rec) /\ disk.rec.epoch < next.epoch
    BY <1>1, RecordsGood DEF IInv
  <1>3. rec' = d /\ UNCHANGED <<noted, disk, slot, dev>>
    BY DEF Edit
  <1>4. /\ spent' \in [ops : Nat, losses : Nat, faults : Nat, reports : Nat]
        /\ unsaved' \in SUBSET {"operator", "poller"}
    BY <1>1 DEF Edit, TypeOK
  <1>5. /\ next' \in [key : Nat \ {0}, version : Nat \ {0}, epoch : Nat \ {0}]
        /\ next.epoch <= next'.epoch
        /\ d # NoRecord => d.epoch < next'.epoch
        /\ next.epoch \in Nat /\ next'.epoch \in Nat
    <2> DEFINE w == IF d # NoRecord /\ d.cfgVersion = next.version
                    THEN next.version + 1 ELSE next.version
               e == IF d # NoRecord /\ d.epoch = next.epoch
                    THEN next.epoch + 1 ELSE next.epoch
    <2>1. next' = [next EXCEPT !.version = w, !.epoch = e]
      BY DEF Edit
    <2>2. next \in [key : Nat \ {0}, version : Nat \ {0}, epoch : Nat \ {0}]
      BY <1>1 DEF TypeOK
    <2>3. d # NoRecord => d.epoch \in Nat
      BY DEF Good, Devices
    <2>4. /\ w \in Nat \ {0} /\ e \in Nat \ {0}
          /\ next.epoch <= e /\ (d # NoRecord => d.epoch < e)
      BY <2>2, <2>3
    <2> HIDE DEF w, e
    <2> QED BY <2>1, <2>2, <2>4
  <1>6. d \in Devices \cup {NoRecord}
    BY DEF Good
  <1>7. TypeOK'
    BY <1>1, <1>3, <1>4, <1>5, <1>6 DEF TypeOK
  <1>8. disk'.rec # NoRecord => Good(disk'.rec) /\ disk'.rec.epoch < next'.epoch
    <2>1. disk.rec # NoRecord => disk.rec.epoch \in Nat
      BY <1>2 DEF Good, Devices
    <2> QED BY <1>2, <1>3, <1>5, <2>1
  <1>9. (KeyDiscipline /\ EpochsUsed)'
    BY <1>3, <1>5, <1>7, <1>8, RecordsGoodNext
  <1> QED BY <1>3, <1>7, <1>9 DEF IInv, Stands, SameKeys

\* The verbs on an existing record keep it well formed and leave its keys alone.
LEMMA VerbGood ==
    ASSUME NEW d, Good(d), NEW version \in Nat, NEW env \in Envelopes,
           NEW blocked \in SUBSET Clients
    PROVE  /\ LET e == [d EXCEPT !.intent = @ + 1, !.cfgVersion = version]
              IN  Good(e) /\ SameKeys(d, e)
           /\ LET e == [d EXCEPT !.wlans = env] IN Good(e) /\ SameKeys(d, e)
           /\ LET e == [d EXCEPT !.blocked = blocked] IN Good(e) /\ SameKeys(d, e)
           /\ LET e == [d EXCEPT !.reboot = TRUE] IN Good(e) /\ SameKeys(d, e)
           /\ LET e == [d EXCEPT !.setdefault = TRUE] IN Good(e) /\ SameKeys(d, e)
           /\ LET e == [d EXCEPT !.cmd = TRUE] IN Good(e) /\ SameKeys(d, e)
           /\ d.state = "adopted" =>
                 LET e == [d EXCEPT !.state = "lost"] IN Good(e) /\ SameKeys(d, e)
  <1>1. d \in Devices /\ KeyShape(d)
    BY DEF Good
  <1>2. ASSUME NEW e \in Devices, SameKeys(d, e), e.delivery = d.delivery,
               \/ e.state = d.state
               \/ d.state = "adopted" /\ e.state = "lost"
        PROVE  Good(e)
    BY <1>1, <1>2 DEF Good, KeyShape, Delivering, SameKeys
  <1>3. LET e == [d EXCEPT !.intent = @ + 1, !.cfgVersion = version]
        IN  Good(e) /\ SameKeys(d, e)
    <2> DEFINE n == d.intent + 1
               e == [d EXCEPT !.intent = n, !.cfgVersion = version]
    <2>0. n \in Nat
      BY <1>1 DEF Devices
    <2> HIDE DEF n
    <2>1. e \in Devices /\ SameKeys(d, e) /\ e.delivery = d.delivery /\ e.state = d.state
      BY <1>1, <2>0 DEF Devices, SameKeys
    <2> HIDE DEF e
    <2>2. Good(e)
      BY <1>2, <2>1
    <2> QED BY <2>1, <2>2 DEF e, n
  <1>4. LET e == [d EXCEPT !.wlans = env] IN Good(e) /\ SameKeys(d, e)
    <2> DEFINE e == [d EXCEPT !.wlans = env]
    <2>1. e \in Devices /\ SameKeys(d, e) /\ e.delivery = d.delivery /\ e.state = d.state
      BY <1>1 DEF Devices, SameKeys
    <2> HIDE DEF e
    <2>2. Good(e)
      BY <1>2, <2>1
    <2> QED BY <2>1, <2>2 DEF e
  <1>5. LET e == [d EXCEPT !.blocked = blocked] IN Good(e) /\ SameKeys(d, e)
    <2> DEFINE e == [d EXCEPT !.blocked = blocked]
    <2>1. e \in Devices /\ SameKeys(d, e) /\ e.delivery = d.delivery /\ e.state = d.state
      BY <1>1 DEF Devices, SameKeys
    <2> HIDE DEF e
    <2>2. Good(e)
      BY <1>2, <2>1
    <2> QED BY <2>1, <2>2 DEF e
  <1>6. LET e == [d EXCEPT !.reboot = TRUE] IN Good(e) /\ SameKeys(d, e)
    <2> DEFINE e == [d EXCEPT !.reboot = TRUE]
    <2>1. e \in Devices /\ SameKeys(d, e) /\ e.delivery = d.delivery /\ e.state = d.state
      BY <1>1 DEF Devices, SameKeys
    <2> HIDE DEF e
    <2>2. Good(e)
      BY <1>2, <2>1
    <2> QED BY <2>1, <2>2 DEF e
  <1>7. LET e == [d EXCEPT !.setdefault = TRUE] IN Good(e) /\ SameKeys(d, e)
    <2> DEFINE e == [d EXCEPT !.setdefault = TRUE]
    <2>1. e \in Devices /\ SameKeys(d, e) /\ e.delivery = d.delivery /\ e.state = d.state
      BY <1>1 DEF Devices, SameKeys
    <2> HIDE DEF e
    <2>2. Good(e)
      BY <1>2, <2>1
    <2> QED BY <2>1, <2>2 DEF e
  <1>8. LET e == [d EXCEPT !.cmd = TRUE] IN Good(e) /\ SameKeys(d, e)
    <2> DEFINE e == [d EXCEPT !.cmd = TRUE]
    <2>1. e \in Devices /\ SameKeys(d, e) /\ e.delivery = d.delivery /\ e.state = d.state
      BY <1>1 DEF Devices, SameKeys
    <2> HIDE DEF e
    <2>2. Good(e)
      BY <1>2, <2>1
    <2> QED BY <2>1, <2>2 DEF e
  <1>9. d.state = "adopted" =>
           LET e == [d EXCEPT !.state = "lost"] IN Good(e) /\ SameKeys(d, e)
    <2> DEFINE e == [d EXCEPT !.state = "lost"]
    <2>1. e \in Devices /\ SameKeys(d, e) /\ e.delivery = d.delivery /\ e.state = "lost"
      BY <1>1 DEF Devices, SameKeys, States
    <2> HIDE DEF e
    <2>2. d.state = "adopted" => Good(e)
      BY <1>2, <2>1
    <2> QED BY <2>1, <2>2 DEF e
  <1> QED BY <1>3, <1>4, <1>5, <1>6, <1>7, <1>8, <1>9

\* The operator's verbs and the lost sweep.
LEMMA OperatorSteps ==
    ASSUME IInv, Operator
    PROVE  IInv' /\ Stands
  <1>1. TypeOK
    BY DEF IInv
  <1>2. next.epoch \in Nat /\ next.version \in Nat
    BY <1>1 DEF TypeOK
  <1>3. rec # NoRecord => Good(rec) /\ rec.epoch <= next.epoch
    BY RecGood
  <1>4. ASSUME NEW who \in {"operator", "poller"}, NEW op, NEW e, Edit(who, op, e),
               rec # NoRecord, Good(e), SameKeys(rec, e)
        PROVE  IInv' /\ Stands
    <2>1. e.epoch <= next.epoch
      BY <1>3, <1>4 DEF SameKeys
    <2> QED BY <1>4, <2>1, EditStep
  <1>5. CASE CreateDevice \/ AdoptPending
    <2> DEFINE d == SeededDevice(next.epoch)
    <2>1. Good(d) /\ d.epoch = next.epoch
      BY <1>2, SeededGood DEF SeededDevice
    <2>2. PICK op \in {"Create", "Adopt"} : Edit("operator", op, d)
      BY <1>5 DEF CreateDevice, AdoptPending
    <2>3. rec = NoRecord
      BY <1>5 DEF CreateDevice, AdoptPending
    <2> HIDE DEF d
    <2> QED BY <1>2, <2>1, <2>2, <2>3, EditStep
  <1>6. CASE NoteExpires
    <2>1. spent' \in [ops : Nat, losses : Nat, faults : Nat, reports : Nat]
      BY <1>1, <1>6 DEF NoteExpires, TypeOK
    <2>2. TypeOK'
      BY <1>1, <1>6, <2>1 DEF NoteExpires, TypeOK
    <2> QED BY <1>6, <2>2, QuietStep DEF NoteExpires
  <1>7. CASE DeleteDevice
    BY <1>7, EditStep DEF DeleteDevice
  <1>8. CASE PatchDevice
    BY <1>2, <1>3, <1>4, <1>8, VerbGood, EnvelopeAssumption DEF PatchDevice
  <1>9. CASE \E env \in Envelopes : PutDeviceWireless(env)
    <2>1. PICK env \in Envelopes : PutDeviceWireless(env)
      BY <1>9
    <2> QED BY <1>2, <1>3, <1>4, <2>1, VerbGood DEF PutDeviceWireless
  <1>10. CASE \E c \in Clients : BlockClient(c) \/ UnblockClient(c)
    <2>1. PICK c \in Clients : BlockClient(c) \/ UnblockClient(c)
      BY <1>10
    <2>2. rec # NoRecord
      BY <2>1 DEF BlockClient, UnblockClient, AddBlockedClient, RemoveBlockedClient
    <2>3. PICK b \in SUBSET Clients, op \in {"Block", "Unblock"} :
             Edit("operator", op, [rec EXCEPT !.blocked = b])
      <3>1. rec.blocked \in SUBSET Clients
        BY <1>3, <2>2 DEF Good, Devices
      <3>2. rec.blocked \cup {c} \in SUBSET Clients /\ rec.blocked \ {c} \in SUBSET Clients
        BY <3>1
      <3> QED BY <2>1, <3>2 DEF BlockClient, UnblockClient, AddBlockedClient, RemoveBlockedClient
    <2>4. Good([rec EXCEPT !.blocked = b]) /\ SameKeys(rec, [rec EXCEPT !.blocked = b])
      BY <1>2, <1>3, <2>2, VerbGood, EnvelopeAssumption
    <2> QED BY <1>4, <2>2, <2>3, <2>4
  <1>11. CASE RebootDevice
    BY <1>2, <1>3, <1>4, <1>11, VerbGood, EnvelopeAssumption DEF RebootDevice
  <1>12. CASE FactoryResetDevice
    BY <1>2, <1>3, <1>4, <1>12, VerbGood, EnvelopeAssumption DEF FactoryResetDevice
  <1>13. CASE EnqueueDeviceCmd
    BY <1>2, <1>3, <1>4, <1>13, VerbGood, EnvelopeAssumption DEF EnqueueDeviceCmd, ArmCmdTask
  <1>14. CASE SweepLost
    BY <1>2, <1>3, <1>4, <1>14, VerbGood, EnvelopeAssumption DEF SweepLost
  <1> QED BY <1>5, <1>6, <1>7, <1>8, <1>9, <1>10, <1>11, <1>12, <1>13, <1>14
          DEF Operator

-----------------------------------------------------------------------------
(* The theorems                                                             *)

\* The factory state satisfies the invariant: there is no record yet.
LEMMA InitIInv == Init => IInv
  <1> SUFFICES ASSUME Init PROVE IInv
    OBVIOUS
  <1>1. IdleSlot \in SlotStates /\ ReplyOK(IdleSlot.reply)
    BY BareOK, AnsweredType
  <1>2. FactoryDevice \in DeviceStates
    BY EnvelopeAssumption DEF FactoryDevice, DeviceStates, NoVersion
  <1>3. slot \in [Slots -> SlotStates] /\ \A h \in Slots : ReplyOK(slot[h].reply)
    BY <1>1 DEF Init
  <1>4. /\ rec \in Devices \cup {NoRecord} /\ noted \in BOOLEAN
        /\ disk \in [rec : Devices \cup {NoRecord}, noted : BOOLEAN]
    BY DEF Init, Snapshot
  <1>5. /\ next \in [key : Nat \ {0}, version : Nat \ {0}, epoch : Nat \ {0}]
        /\ spent \in [ops : Nat, losses : Nat, faults : Nat, reports : Nat]
        /\ unsaved \in SUBSET {"operator", "poller"} /\ dev \in DeviceStates
    BY <1>2 DEF Init
  <1>6. TypeOK
    BY <1>3, <1>4, <1>5 DEF TypeOK
  <1>7. Records = {}
    BY DEF Init, Records, Snapshot
  <1> QED BY <1>7, <1>6 DEF IInv, KeyDiscipline, EpochsUsed

\* Every step of the system preserves the invariant and keeps a confirmed
\* assignment.
LEMMA NextIInv == IInv /\ [Next]_vars => IInv' /\ Stands
  <1> SUFFICES ASSUME IInv, [Next]_vars PROVE IInv' /\ Stands
    OBVIOUS
  <1>1. CASE \E h \in Slots, lane \in Lanes : OddInform(h, lane)
    BY <1>1, DeviceSteps
  <1>2. CASE \E h \in Slots : Inform(h) \/ RequestLost(h) \/ Deliver(h) \/ Handle(h)
    <2>1. PICK h \in Slots : Inform(h) \/ RequestLost(h) \/ Deliver(h) \/ Handle(h)
      BY <1>2
    <2>2. CASE Inform(h) \/ RequestLost(h) \/ Deliver(h)
      BY <2>2, DeviceSteps
    <2>3. CASE \/ DecodeRegistered(h) \/ DecodeFails(h) \/ DecodeUnknown(h)
               \/ Vanished(h) \/ RejectDefaultKey(h)
      BY <2>3, HandlerSteps
    <2>4. CASE \/ GentleNoop(h) \/ EmitSetdefault(h) \/ EmitReboot(h) \/ EmitCmd(h)
               \/ PlainUnassigned(h) \/ PlainResend(h) \/ PlainProvision(h)
      BY <2>4, LaneSteps
    <2> QED BY <2>1, <2>2, <2>3, <2>4 DEF Handle
  <1>3. CASE \E h \in Slots, due \in BOOLEAN : Cycle(h, due) \/ EngineFails(h, due)
    BY <1>3, SwitchSteps, FailSteps
  <1>4. CASE \E h \in Slots : SaveInform(h) \/ SaveInformFails(h)
    BY <1>4, SaveSteps
  <1>5. CASE \E who \in {"operator", "poller"} : SaveOther(who) \/ SaveOtherFails(who)
    BY <1>5, SaveSteps
  <1>6. CASE GiveUp \/ PhysicalReset \/ Restart
    BY <1>6, ResetSteps, SaveSteps
  <1>7. CASE Operator
    BY <1>7, OperatorSteps
  <1>8. CASE UNCHANGED vars
    <2>1. TypeOK'
      BY <1>8 DEF vars, IInv, TypeOK
    <2> QED BY <1>8, <2>1, QuietStep DEF vars
  <1> QED BY <1>1, <1>2, <1>3, <1>4, <1>5, <1>6, <1>7, <1>8 DEF Next

\* The strengthened invariant holds in every reachable state.
THEOREM InvariantHolds == Spec => []IInv
  <1>1. Init => IInv
    BY InitIInv
  <1>2. IInv /\ [Next]_vars => IInv'
    BY NextIInv
  <1> QED BY <1>1, <1>2, PTL DEF Spec

\* Type correctness: no interleaving of handlers, verbs, failed saves and
\* restarts makes the controller, its disk or the device ill typed.
THEOREM TypeCorrect == Spec => []TypeOK
  <1>1. IInv => TypeOK
    BY DEF IInv
  <1> QED BY <1>1, InvariantHolds, PTL

\* The key discipline holds in memory and on disk: at most two keys ending in the
\* assignment, and a record that is adopted, lost or under delivery has a
\* confirmed key, so the gate of decideEncrypted never lets the factory key
\* rotate it.
THEOREM KeyDisciplineHolds == Spec => []KeyDiscipline
  <1>1. IInv => KeyDiscipline
    BY DEF IInv
  <1> QED BY <1>1, InvariantHolds, PTL

\* Between restarts a confirmed assignment stands until the incarnation ends:
\* rotateKeys cannot run on a confirmed record, whatever informs are queued.
THEOREM ConfirmedKeyStandsHolds == Spec => ConfirmedKeyStands
  <1>1. IInv /\ [Next]_vars => [Stands]_vars
    BY NextIInv
  <1>2. [][Stands]_vars <=> ConfirmedKeyStands
    BY DEF Stands, ConfirmedKeyStands
  <1> QED BY <1>1, <1>2, InvariantHolds, PTL DEF Spec
-----------------------------------------------------------------------------
(* Adoption implements Lifecycle                                            *)

\* The assignments in memory and on disk are older than the next key.
KeysUsed == \A d \in Records : d.xAuthkey < next.key

RInv == IInv /\ KeysUsed

\* A step of Lifecycle on the mapped record, or a stutter.
Moves == LC!Next \/ UNCHANGED LC!vars

-----------------------------------------------------------------------------
(* The life of a record                                                     *)

\* The life of a well-typed record is a value of Lifecycle.
LEMMA LifeOf ==
    ASSUME NEW d \in Devices
    PROVE  /\ Life(d) \in LC!Lives
           /\ Life(d).inc = d.epoch
           /\ Life(d).state = d.state
           /\ Life(d).key = d.xAuthkey
           /\ Life(d).confirmed = d.keyConfirmed
           /\ Life(d) # NoRecord
  <1>1. d # NoRecord
    BY RecordAssumption
  <1>2. Life(d) = [inc |-> d.epoch, state |-> d.state, key |-> d.xAuthkey,
                   confirmed |-> d.keyConfirmed]
    BY <1>1 DEF Life
  <1>3. Life(d) \in LC!Lives
    BY <1>2 DEF Devices, LC!Lives, States, LC!States, Keys
  <1> QED BY <1>2, <1>3, LifeAssumption

\* A cycle that leaves key, incarnation, confirmation and state alone is invisible.
LEMMA StutterMove ==
    ASSUME rec \in Devices, rec' \in Devices, UNCHANGED disk,
           SameKeys(rec, rec'), rec'.state = rec.state
    PROVE  Moves
  <1> DEFINE l == Life(rec)
             m == Life(rec')
  <1>1. l \in LC!Lives /\ m \in LC!Lives
    BY LifeOf
  <1>2. m.inc = l.inc /\ m.state = l.state /\ m.key = l.key /\ m.confirmed = l.confirmed
    BY LifeOf DEF SameKeys
  <1> HIDE DEF l, m
  <1>3. m = l
    BY <1>1, <1>2 DEF LC!Lives
  <1> QED BY <1>3 DEF Moves, LC!vars, Life, l, m

\* A cycle on a key of the record confirms it.
LEMMA ServeMove ==
    ASSUME rec \in Devices, rec' \in Devices, UNCHANGED disk,
           rec'.xAuthkey = rec.xAuthkey, rec'.epoch = rec.epoch,
           rec.xAuthkey # NoKey, rec'.keyConfirmed,
           rec'.state \in {rec.state, "adopting", "adopted"}
    PROVE  Moves
  <1> DEFINE l == Life(rec)
             m == Life(rec')
  <1>1. l \in LC!Lives /\ m \in LC!Lives /\ l # NoRecord
    BY LifeOf
  <1>2. rec'.keyConfirmed = TRUE
    BY DEF Devices
  <1>3. /\ m.inc = l.inc /\ m.key = l.key /\ m.confirmed = TRUE
        /\ l.key # NoKey /\ m.state \in {l.state, "adopting", "adopted"}
    BY <1>2, LifeOf
  <1> HIDE DEF l, m
  <1>4. m = [l EXCEPT !.state = m.state, !.confirmed = TRUE]
    BY <1>1, <1>3 DEF LC!Lives
  <1>5. Life(rec)' = m /\ Life(rec) = l /\ Life(disk.rec)' = Life(disk.rec)
    BY DEF Life, l, m
  <1> QED BY <1>1, <1>3, <1>4, <1>5 DEF Moves, LC!Next, LC!Serve

\* A rotation assigns another key to an unconfirmed record.
LEMMA AssignMove ==
    ASSUME rec \in Devices, rec' \in Devices, UNCHANGED disk,
           ~rec.keyConfirmed, rec.state \in {"pending", "adopting"},
           rec'.xAuthkey \notin {NoKey, rec.xAuthkey},
           rec'.epoch = rec.epoch, rec'.keyConfirmed = rec.keyConfirmed,
           rec'.state = "adopting"
    PROVE  Moves
  <1> DEFINE l == Life(rec)
             m == Life(rec')
  <1>1. l \in LC!Lives /\ m \in LC!Lives /\ l # NoRecord
    BY LifeOf
  <1>2. /\ ~l.confirmed /\ l.state \in {"pending", "adopting"}
        /\ m.key \notin {NoKey, l.key} /\ m.inc = l.inc
        /\ m.confirmed = l.confirmed /\ m.state = "adopting"
    BY LifeOf
  <1> HIDE DEF l, m
  <1>3. m = [l EXCEPT !.state = "adopting", !.key = m.key]
    BY <1>1, <1>2 DEF LC!Lives
  <1>4. Life(rec)' = m /\ Life(rec) = l /\ Life(disk.rec)' = Life(disk.rec)
    BY DEF Life, l, m
  <1> QED BY <1>1, <1>2, <1>3, <1>4 DEF Moves, LC!Next, LC!Assign

\* The seed of a record, or the armed setdefault, begins an incarnation.
LEMMA BegunMove ==
    ASSUME rec' \in Devices, UNCHANGED disk,
           rec'.state = "pending", rec'.xAuthkey = NoKey, rec'.keyConfirmed = FALSE,
           rec = NoRecord \/ (rec \in Devices /\ rec'.epoch # rec.epoch)
    PROVE  Moves
  <1> DEFINE l == Life(rec)
             m == Life(rec')
  <1>1. /\ m \in LC!Lives /\ m.state = "pending" /\ m.key = NoKey
        /\ m.confirmed = FALSE
    BY LifeOf
  <1>2. l = NoRecord \/ (l # NoRecord /\ m.inc # l.inc)
    <2>1. CASE rec = NoRecord
      BY <2>1 DEF Life
    <2>2. CASE rec \in Devices /\ rec'.epoch # rec.epoch
      BY <2>2, LifeOf
    <2> QED BY <2>1, <2>2
  <1> HIDE DEF l, m
  <1>3. m = LC!Begun(m.inc)
    BY <1>1 DEF LC!Lives, LC!Begun
  <1>4. Life(rec)' = m /\ Life(rec) = l /\ Life(disk.rec)' = Life(disk.rec)
    BY DEF Life, l, m
  <1> QED BY <1>1, <1>2, <1>3, <1>4 DEF Moves, LC!Next, LC!Enrol, LC!Demote

\* The lost sweep gives up an adopted record.
LEMMA LoseMove ==
    ASSUME rec \in Devices, rec' \in Devices, UNCHANGED disk,
           SameKeys(rec, rec'), rec.state = "adopted", rec'.state = "lost"
    PROVE  Moves
  <1> DEFINE l == Life(rec)
             m == Life(rec')
  <1>1. l \in LC!Lives /\ m \in LC!Lives /\ l # NoRecord
    BY LifeOf
  <1>2. /\ m.inc = l.inc /\ m.key = l.key /\ m.confirmed = l.confirmed
        /\ l.state = "adopted" /\ m.state = "lost"
    BY LifeOf DEF SameKeys
  <1> HIDE DEF l, m
  <1>3. m = [l EXCEPT !.state = "lost"]
    BY <1>1, <1>2 DEF LC!Lives
  <1>4. Life(rec)' = m /\ Life(rec) = l /\ Life(disk.rec)' = Life(disk.rec)
    BY DEF Life, l, m
  <1> QED BY <1>1, <1>2, <1>3, <1>4 DEF Moves, LC!Next, LC!Lose

\* Deletion forgets the record.
LEMMA ForgetMove ==
    ASSUME rec \in Devices, rec' = NoRecord, UNCHANGED disk
    PROVE  Moves
  <1>1. Life(rec) # NoRecord
    BY LifeOf
  <1>2. Life(rec)' = NoRecord /\ Life(disk.rec)' = Life(disk.rec)
    BY DEF Life
  <1> QED BY <1>1, <1>2 DEF Moves, LC!Next, LC!Forget

\* A save brings the record in memory to disk.
LEMMA SaveMove ==
    ASSUME rec' = rec, disk'.rec = rec
    PROVE  Moves
  <1>1. Life(rec)' = Life(rec) /\ Life(disk.rec)' = Life(rec)
    BY DEF Life
  <1> QED BY <1>1 DEF Moves, LC!Next, LC!Save

\* A restart brings the record on disk to memory.
LEMMA CrashMove ==
    ASSUME rec' = disk.rec, UNCHANGED disk
    PROVE  Moves
  <1>1. Life(rec)' = Life(disk.rec) /\ Life(disk.rec)' = Life(disk.rec)
    BY DEF Life
  <1> QED BY <1>1 DEF Moves, LC!Next, LC!Crash

\* A step that leaves both records alone is invisible.
LEMMA QuietMove ==
    ASSUME UNCHANGED <<rec, disk>>
    PROVE  Moves
  BY DEF Moves, LC!vars, Life

-----------------------------------------------------------------------------
(* The keys still to be drawn                                               *)

\* KeysUsed, record by record, in this state and the next.
LEMMA KeysUsedParts ==
    ASSUME TypeOK
    PROVE  KeysUsed <=>
              /\ rec # NoRecord => rec.xAuthkey < next.key
              /\ disk.rec # NoRecord => disk.rec.xAuthkey < next.key
  BY DEF KeysUsed, Records

\* The same in the next state.
LEMMA KeysUsedPartsNext ==
    ASSUME TypeOK'
    PROVE  KeysUsed' <=>
              /\ rec' # NoRecord => rec'.xAuthkey < next'.key
              /\ disk'.rec # NoRecord => disk'.rec.xAuthkey < next'.key
  BY DEF KeysUsed, Records

\* A commit that keeps the assignment, drops it, or draws the next key.
LEMMA CommitKeys ==
    ASSUME RInv, NEW h \in Slots, rec # NoRecord, TypeOK',
           NEW d \in Devices, NEW reply, CommitCycle(h, d, reply),
           Confirm(d, Used(h)).xAuthkey = d.xAuthkey,
           d.xAuthkey \in {rec.xAuthkey, NoKey, next.key}
    PROVE  KeysUsed'
  <1> DEFINE k == IF d.xAuthkey = next.key THEN next.key + 1 ELSE next.key
  <1>1. TypeOK /\ KeysUsed
    BY DEF RInv, IInv
  <1>2. /\ next \in [key : Nat \ {0}, version : Nat \ {0}, epoch : Nat \ {0}]
        /\ next' \in [key : Nat \ {0}, version : Nat \ {0}, epoch : Nat \ {0}]
    BY <1>1 DEF TypeOK
  <1>3. next'.key = k
    BY <1>2 DEF CommitCycle
  <1>4. rec' = Confirm(d, Used(h)) /\ disk' = disk
    BY DEF CommitCycle
  <1>5. /\ rec.xAuthkey < next.key
        /\ disk.rec # NoRecord => disk.rec.xAuthkey < next.key
    BY <1>1, KeysUsedParts
  <1>6. /\ next.key \in Nat /\ d.xAuthkey \in Int /\ rec.xAuthkey \in Int
        /\ disk.rec # NoRecord => disk.rec.xAuthkey \in Int
    <2>1. \A e \in Devices : e.xAuthkey \in Int
      BY DEF Devices, Keys, NoKey
    <2>2. rec \in Devices /\ disk.rec \in Devices \cup {NoRecord}
      BY <1>1 DEF TypeOK
    <2> QED BY <1>2, <2>1, <2>2
  <1>7. /\ d.xAuthkey < k
        /\ disk.rec # NoRecord => disk.rec.xAuthkey < k
    BY <1>5, <1>6 DEF NoKey
  <1> HIDE DEF k
  <1> QED BY <1>3, <1>4, <1>7, KeysUsedPartsNext

\* Confirmation touches the confirmation only.
LEMMA ConfirmKeeps ==
    ASSUME NEW d \in Devices, NEW key
    PROVE  /\ Confirm(d, key).xAuthkey = d.xAuthkey
           /\ Confirm(d, key).authkeys = d.authkeys
           /\ Confirm(d, key).state = d.state
           /\ Confirm(d, key).epoch = d.epoch
           /\ Confirm(d, key).keyConfirmed = (d.keyConfirmed \/ key \in KeysOf(d))
  <1> DEFINE b == d.keyConfirmed \/ key \in KeysOf(d)
  <1>1. Confirm(d, key) = [d EXCEPT !.keyConfirmed = b]
    BY DEF Confirm
  <1> HIDE DEF b
  <1>2. /\ Confirm(d, key).xAuthkey = d.xAuthkey
        /\ Confirm(d, key).authkeys = d.authkeys
        /\ Confirm(d, key).state = d.state
        /\ Confirm(d, key).epoch = d.epoch
        /\ Confirm(d, key).keyConfirmed = b
    BY <1>1 DEF Devices
  <1> QED BY <1>2 DEF b

\* A well-formed confirmed record has an assignment.
LEMMA ConfirmedKey ==
    ASSUME NEW d, Good(d), d.keyConfirmed
    PROVE  d.xAuthkey # NoKey
  <1>1. d.authkeys \in Seq(Keys) /\ d.authkeys # << >>
        /\ d.xAuthkey = d.authkeys[Len(d.authkeys)]
    BY DEF Good, KeyShape, Devices
  <1>2. d.xAuthkey \in Keys
    BY <1>1
  <1> QED BY <1>2 DEF Keys, NoKey

-----------------------------------------------------------------------------
(* Commits                                                                  *)

\* A commit of a well-formed record with the keys and the state of the old one.
LEMMA SameCommit ==
    ASSUME RInv, NEW h \in Slots, rec # NoRecord, TypeOK',
           NEW d, Good(d), SameKeys(rec, d), d.state = rec.state,
           NEW reply, CommitCycle(h, d, reply)
    PROVE  KeysUsed' /\ Moves
  <1> DEFINE c == Confirm(d, Used(h))
  <1>1. d \in Devices /\ rec \in Devices
    BY DEF Good, RInv, IInv, TypeOK
  <1>2. /\ c.xAuthkey = d.xAuthkey /\ c.authkeys = d.authkeys
        /\ c.state = d.state /\ c.epoch = d.epoch
    BY <1>1, ConfirmKeeps
  <1>3. Good(c) /\ c \in Devices /\ (d.keyConfirmed => c.keyConfirmed)
    BY ConfirmGood DEF Good
  <1>4. rec' = c /\ UNCHANGED disk
    BY DEF CommitCycle
  <1>5. KeysUsed'
    BY <1>1, <1>2, CommitKeys DEF SameKeys
  <1> HIDE DEF c
  <1>6. CASE c.keyConfirmed = rec.keyConfirmed
    <2>1. rec' \in Devices /\ SameKeys(rec, rec') /\ rec'.state = rec.state
      BY <1>2, <1>3, <1>4, <1>6 DEF SameKeys
    <2> QED BY <1>1, <1>4, <1>5, <2>1, StutterMove
  <1>7. CASE c.keyConfirmed # rec.keyConfirmed
    <2>1. c.keyConfirmed
      BY <1>1, <1>3, <1>7 DEF Devices, SameKeys
    <2>2. c.xAuthkey # NoKey
      BY <1>3, <2>1, ConfirmedKey
    <2>3. c.xAuthkey = rec.xAuthkey /\ c.epoch = rec.epoch /\ c.state = rec.state
      BY <1>2 DEF SameKeys
    <2> QED BY <1>1, <1>3, <1>4, <1>5, <2>1, <2>2, <2>3, ServeMove
  <1> QED BY <1>5, <1>6, <1>7

\* A commit on the assigned key.
LEMMA ServedCommit ==
    ASSUME RInv, NEW h \in Slots, rec # NoRecord, TypeOK',
           NEW d, Assigned(d, Used(h)), SameKeys(rec, d),
           d.state \in {rec.state, "adopting", "adopted"},
           NEW reply, CommitCycle(h, d, reply)
    PROVE  KeysUsed' /\ Moves
  <1> DEFINE c == Confirm(d, Used(h))
  <1>1. d \in Devices /\ rec \in Devices
    BY DEF Assigned, RInv, IInv, TypeOK
  <1>2. c.xAuthkey = d.xAuthkey /\ c.state = d.state /\ c.epoch = d.epoch
    BY <1>1, ConfirmKeeps
  <1>3. Good(c) /\ c \in Devices /\ c.keyConfirmed
    BY ConfirmAssigned DEF Good
  <1>4. rec' = c /\ UNCHANGED disk
    BY DEF CommitCycle
  <1>5. KeysUsed'
    BY <1>1, <1>2, CommitKeys DEF SameKeys
  <1> HIDE DEF c
  <1>6. c.xAuthkey # NoKey
    BY <1>3, ConfirmedKey
  <1> QED BY <1>1, <1>2, <1>3, <1>4, <1>5, <1>6, ServeMove DEF SameKeys

\* The states of the records the branches commit.
LEMMA BranchStates ==
    ASSUME NEW d \in Devices, NEW version \in Nat, NEW table
    PROVE  /\ Rebooted(d).state = d.state
           /\ CmdConsumed(d).state = d.state
           /\ [d EXCEPT !.delivery = Spent(@)].state = d.state
           /\ [d EXCEPT !.cfgVersion = version].state = d.state
           /\ [d EXCEPT !.state = "adopted", !.disconnected = FALSE].state = "adopted"
           /\ [d EXCEPT !.disconnected = FALSE, !.delivery.misses = 0,
                        !.cfgVersion = version].state = d.state
           /\ [MaterializationArmed(d) EXCEPT !.disconnected = FALSE].state = d.state
           /\ Provisioned(d, version).state = "adopting"
           /\ Connected(d, table).state = "adopted"
  BY DEF Devices, Rebooted, CmdConsumed, MaterializationArmed, Provisioned, Connected

\* The cycles before the engine's switch.
LEMMA LaneMoves ==
    ASSUME RInv, NEW h \in Slots, TypeOK',
           \/ GentleNoop(h) \/ EmitSetdefault(h) \/ EmitReboot(h) \/ EmitCmd(h)
           \/ PlainUnassigned(h) \/ PlainResend(h) \/ PlainProvision(h)
    PROVE  KeysUsed' /\ Moves
  <1>0. IInv
    BY DEF RInv
  <1>1. rec # NoRecord
    BY DEF GentleNoop, EmitSetdefault, EmitReboot, EmitCmd, PlainUnassigned,
           PlainResend, PlainProvision, CommandTurn, PlainDeciding, Admitted,
           Encrypted, Plain, Running
  <1>2. /\ Good(Fresh(h)) /\ SameKeys(rec, Fresh(h)) /\ Fresh(h).state = rec.state
        /\ Fresh(h) \in Devices
    BY <1>0, <1>1, WorkGood DEF Good
  <1>3. /\ rec \in Devices /\ rec.epoch # next.epoch
        /\ next.epoch \in Nat /\ next.version \in Nat
    BY <1>0, <1>1, RecGood DEF Good
  <1>4. CASE GentleNoop(h)
    BY <1>1, <1>2, <1>4, SameCommit DEF GentleNoop
  <1>5. CASE EmitSetdefault(h)
    <2> DEFINE d == Demoted(Fresh(h), next.epoch)
               c == Confirm(d, Used(h))
    <2>1. d \in Devices /\ d.epoch = next.epoch
      BY <1>2, <1>3, DemotedGood DEF Good
    <2>2. /\ d.state = "pending" /\ d.xAuthkey = NoKey /\ d.keyConfirmed = FALSE
          /\ d.authkeys = << >>
      BY <1>2 DEF Demoted, Devices
    <2>3. CommitCycle(h, d, Bare("setdefault"))
      BY <1>5 DEF EmitSetdefault
    <2> HIDE DEF d
    <2>4. KeysOf(d) = {}
      BY <2>2 DEF KeysOf
    <2>5. /\ c.state = "pending" /\ c.xAuthkey = NoKey /\ c.keyConfirmed = FALSE
          /\ c.epoch # rec.epoch
      BY <1>3, <2>1, <2>2, <2>4, ConfirmKeeps
    <2>6. rec' = c /\ UNCHANGED disk
      BY <2>3 DEF CommitCycle
    <2>7. KeysUsed'
      BY <1>1, <2>1, <2>2, <2>3, <2>5, CommitKeys
    <2>8. c \in Devices
      BY <1>2, <1>3, <2>1, DemotedGood, ConfirmGood DEF Good, d
    <2> HIDE DEF c
    <2> QED BY <1>3, <2>5, <2>6, <2>7, <2>8, BegunMove
  <1>6. CASE EmitReboot(h)
    <2> DEFINE d == Rebooted(Fresh(h))
    <2>1. Good(d) /\ SameKeys(rec, d) /\ d.state = rec.state
      BY <1>2, <1>3, CommandGood, BranchStates DEF SameKeys
    <2>2. CommitCycle(h, d, Bare("reboot"))
      BY <1>6 DEF EmitReboot
    <2> HIDE DEF d
    <2> QED BY <1>1, <2>1, <2>2, SameCommit
  <1>7. CASE EmitCmd(h)
    <2> DEFINE d == CmdConsumed(Fresh(h))
    <2>1. Good(d) /\ SameKeys(rec, d) /\ d.state = rec.state
      BY <1>2, <1>3, CommandGood, BranchStates DEF SameKeys
    <2>2. CommitCycle(h, d, Bare("cmd"))
      BY <1>7 DEF EmitCmd
    <2> HIDE DEF d
    <2> QED BY <1>1, <2>1, <2>2, SameCommit
  <1>8. CASE PlainUnassigned(h)
    BY <1>1, <1>2, <1>8, SameCommit DEF PlainUnassigned
  <1>9. CASE PlainResend(h)
    BY <1>1, <1>2, <1>9, SameCommit DEF PlainResend
  <1>10. CASE PlainProvision(h)
    <2> DEFINE d == Provisioned(Fresh(h), next.version)
    <2>1. OnAssigned(Fresh(h), Used(h))
      BY <1>2, <1>10 DEF PlainProvision, OnAssigned, SameKeys
    <2>2. Assigned(Fresh(h), Used(h))
      BY <1>2, <2>1, OnAssignedKeys
    <2>3. Assigned(d, Used(h)) /\ SameKeys(Fresh(h), d) /\ d.state = "adopting"
      BY <1>2, <1>3, <2>2, ProvisionedAssigned, BranchStates
    <2>4. CommitCycle(h, d, FullProvision(d))
      BY <1>10 DEF PlainProvision
    <2> HIDE DEF d
    <2>5. SameKeys(rec, d)
      BY <1>2, <2>3 DEF SameKeys
    <2> QED BY <1>1, <2>3, <2>4, <2>5, ServedCommit
  <1> QED BY <1>4, <1>5, <1>6, <1>7, <1>8, <1>9, <1>10

\* The engine's switch on the encrypted lane.
LEMMA SwitchMoves ==
    ASSUME RInv, NEW h \in Slots, NEW due \in BOOLEAN, TypeOK', Cycle(h, due)
    PROVE  KeysUsed' /\ Moves
  <1> DEFINE w == Work(h)
  <1>0. IInv
    BY DEF RInv
  <1>1. rec # NoRecord /\ ~DefaultKeyRejected(rec, Used(h))
    BY DEF Cycle, HoldPending, Rotate, RePush, Provision, SelfHeal, ReconnectPush,
           ReprovisionMiss, ArmMaterialization, ConnectedNoop, Baselined, Settled,
           OnKey, Released, Deciding, Admitted, Encrypted, Running
  <1>2. Good(w) /\ w \in Devices /\ SameKeys(rec, w) /\ w.state = rec.state
    BY <1>0, <1>1, WorkGood DEF Good
  <1>3. next.version \in Nat /\ next.key \in Keys /\ rec \in Devices
    BY <1>0, <1>1, RecGood DEF Good
  <1>4. ASSUME OnAssigned(rec, Used(h))
        PROVE  Assigned(w, Used(h))
    <2>1. OnAssigned(w, Used(h))
      BY <1>2, <1>4 DEF OnAssigned, SameKeys
    <2> QED BY <1>2, <2>1, OnAssignedKeys
  <1>5. CASE HoldPending(h, due)
    <2> DEFINE t == Spent(w.delivery)
               d == [w EXCEPT !.delivery = t]
    <2>1. w.delivery \in DeliveryStates
      BY <1>2 DEF Devices
    <2>2. t \in DeliveryStates /\ t.pending = w.delivery.pending
            /\ t.baseline = w.delivery.baseline
      BY <2>1, CountersType
    <2>3. CommitCycle(h, d, Bare("noop"))
      BY <1>5 DEF HoldPending
    <2> HIDE DEF t
    <2>4. d \in Devices
      BY <1>2, <2>2 DEF Devices
    <2>5. KeyShape(d) /\ SameKeys(w, d) /\ d.state = w.state
      BY <1>2, <2>2 DEF Good, Devices, KeyShape, Delivering, SameKeys
    <2> HIDE DEF d, w
    <2>6. SameKeys(rec, d) /\ Good(d) /\ d.state = rec.state
      BY <1>2, <2>4, <2>5 DEF SameKeys, Good
    <2> QED BY <1>1, <2>3, <2>6, SameCommit
  <1>6. CASE Rotate(h, due)
    <2> DEFINE d == RotateKeys(w, next.key, next.version)
               c == Confirm(d, Used(h))
    <2>1. Used(h) = DefaultKey /\ CommitCycle(h, d, AdoptionPush(d, Used(h)))
      BY <1>6 DEF Rotate
    <2>2. ~DefaultKeyRejected(w, DefaultKey)
      BY <1>1, <1>2, <2>1 DEF DefaultKeyRejected, SameKeys
    <2>3. Good(d) /\ ~w.keyConfirmed /\ d.epoch = w.epoch /\ d.xAuthkey = next.key
      BY <1>2, <1>3, <2>2, RotateGood
    <2>4. d.state = "adopting" /\ d.keyConfirmed = w.keyConfirmed
      BY <1>2 DEF RotateKeys, Devices
    <2>5. rec.state \in {"pending", "adopting"} /\ ~rec.keyConfirmed
      BY <1>2, <2>2, <2>3 DEF DefaultKeyRejected, SameKeys
    <2> HIDE DEF d, w
    <2>6. DefaultKey \notin KeysOf(d)
      BY <2>3 DEF KeysOf, Good, Devices, Keys
    <2>7. d \in Devices /\ Good(c) /\ c \in Devices
      BY <2>3, ConfirmGood DEF Good
    <2>8. /\ c.xAuthkey = next.key /\ c.epoch = rec.epoch /\ c.state = "adopting"
          /\ c.keyConfirmed = rec.keyConfirmed
      <3>1. c.keyConfirmed = (d.keyConfirmed \/ Used(h) \in KeysOf(d))
        BY <2>7, ConfirmKeeps
      <3>2. (d.keyConfirmed \/ Used(h) \in KeysOf(d)) = d.keyConfirmed
        BY <2>1, <2>6, <2>7 DEF Devices
      <3> QED BY <1>2, <2>3, <2>4, <2>7, <3>1, <3>2, ConfirmKeeps DEF SameKeys
    <2>9. next.key \notin {NoKey, rec.xAuthkey}
      <3>1. rec.xAuthkey < next.key
        BY <1>0, <1>1, KeysUsedParts DEF RInv, IInv
      <3>2. rec.xAuthkey \in Int
        BY <1>3 DEF Devices, Keys, NoKey
      <3> QED BY <1>3, <3>1, <3>2 DEF Keys, NoKey
    <2>10. KeysUsed'
      BY <1>1, <2>1, <2>3, <2>7, <2>8, CommitKeys
    <2>11. rec' = c /\ UNCHANGED disk
      BY <2>1 DEF CommitCycle
    <2> HIDE DEF c
    <2> QED BY <1>3, <2>5, <2>7, <2>8, <2>9, <2>10, <2>11, AssignMove
  <1>7. CASE RePush(h, due)
    <2>1. CommitCycle(h, w, AdoptionPush(w, Used(h)))
      BY <1>7 DEF RePush
    <2> HIDE DEF w
    <2> QED BY <1>1, <1>2, <2>1, SameCommit
  <1>8. CASE Provision(h, due)
    <2> DEFINE d == Provisioned(w, next.version)
    <2>1. Assigned(w, Used(h)) /\ CommitCycle(h, d, FullProvision(d))
      BY <1>4, <1>8 DEF Provision, OnKey
    <2> HIDE DEF w
    <2>2. /\ Assigned(d, Used(h)) /\ SameKeys(w, d)
          /\ d.state \in {rec.state, "adopting", "adopted"}
      BY <1>2, <1>3, <2>1, ProvisionedAssigned, BranchStates
    <2> HIDE DEF d
    <2>3. SameKeys(rec, d)
      BY <1>2, <2>2 DEF SameKeys
    <2> QED BY <1>1, <2>1, <2>2, <2>3, ServedCommit
  <1>9. CASE SelfHeal(h, due)
    <2> DEFINE d == [w EXCEPT !.cfgVersion = next.version]
    <2>1. Assigned(w, Used(h)) /\ CommitCycle(h, d, Bare("noop"))
      BY <1>4, <1>9 DEF SelfHeal, Settled, OnKey
    <2> HIDE DEF w
    <2>2. /\ Assigned(d, Used(h)) /\ SameKeys(w, d)
          /\ d.state \in {rec.state, "adopting", "adopted"}
      BY <1>2, <1>3, <2>1, BranchRecords, BranchStates
    <2> HIDE DEF d
    <2>3. SameKeys(rec, d)
      BY <1>2, <2>2 DEF SameKeys
    <2> QED BY <1>1, <2>1, <2>2, <2>3, ServedCommit
  <1>10. CASE ReconnectPush(h, due)
    <2> DEFINE d == [w EXCEPT !.state = "adopted", !.disconnected = FALSE]
    <2>1. Assigned(w, Used(h)) /\ CommitCycle(h, d, BlockedStaReconnect(w))
      BY <1>4, <1>10 DEF ReconnectPush, Baselined, Settled, OnKey
    <2> HIDE DEF w
    <2>2. /\ Assigned(d, Used(h)) /\ SameKeys(w, d)
          /\ d.state \in {rec.state, "adopting", "adopted"}
      BY <1>2, <1>3, <2>1, BranchRecords, BranchStates
    <2> HIDE DEF d
    <2>3. SameKeys(rec, d)
      BY <1>2, <2>2 DEF SameKeys
    <2> QED BY <1>1, <2>1, <2>2, <2>3, ServedCommit
  <1>11. CASE ReprovisionMiss(h, due)
    <2> DEFINE d == [w EXCEPT !.disconnected = FALSE, !.delivery.misses = 0,
                              !.cfgVersion = next.version]
    <2>1. Assigned(w, Used(h)) /\ CommitCycle(h, d, Bare("noop"))
      BY <1>4, <1>11 DEF ReprovisionMiss, Baselined, Settled, OnKey
    <2> HIDE DEF w
    <2>2. /\ Assigned(d, Used(h)) /\ SameKeys(w, d)
          /\ d.state \in {rec.state, "adopting", "adopted"}
      BY <1>2, <1>3, <2>1, BranchRecords, BranchStates
    <2> HIDE DEF d
    <2>3. SameKeys(rec, d)
      BY <1>2, <2>2 DEF SameKeys
    <2> QED BY <1>1, <2>1, <2>2, <2>3, ServedCommit
  <1>12. CASE ArmMaterialization(h, due)
    <2> DEFINE d == [MaterializationArmed(w) EXCEPT !.disconnected = FALSE]
    <2>1. Assigned(w, Used(h)) /\ CommitCycle(h, d, Bare("noop"))
      BY <1>4, <1>12 DEF ArmMaterialization, Baselined, Settled, OnKey
    <2> HIDE DEF w
    <2>2. /\ Assigned(d, Used(h)) /\ SameKeys(w, d)
          /\ d.state \in {rec.state, "adopting", "adopted"}
      BY <1>2, <1>3, <2>1, BranchRecords, BranchStates
    <2> HIDE DEF d
    <2>3. SameKeys(rec, d)
      BY <1>2, <2>2 DEF SameKeys
    <2> QED BY <1>1, <2>1, <2>2, <2>3, ServedCommit
  <1>13. CASE ConnectedNoop(h, due)
    <2> DEFINE d == Connected(w, Table(h))
    <2>1. Assigned(w, Used(h)) /\ CommitCycle(h, d, Bare("noop"))
      BY <1>4, <1>13 DEF ConnectedNoop, Baselined, Settled, OnKey
    <2> HIDE DEF w
    <2>2. /\ Assigned(d, Used(h)) /\ SameKeys(w, d)
          /\ d.state \in {rec.state, "adopting", "adopted"}
      BY <1>2, <1>3, <2>1, ConnectedAssigned, BranchStates
    <2> HIDE DEF d
    <2>3. SameKeys(rec, d)
      BY <1>2, <2>2 DEF SameKeys
    <2> QED BY <1>1, <2>1, <2>2, <2>3, ServedCommit
  <1> QED BY <1>5, <1>6, <1>7, <1>8, <1>9, <1>10, <1>11, <1>12, <1>13 DEF Cycle

-----------------------------------------------------------------------------
(* Verbs and saves                                                          *)

\* A cycle of the operator or the poller leaves the keys alone, drops the record
\* or seeds one without keys.
LEMMA EditKeys ==
    ASSUME RInv, TypeOK', NEW who, NEW op, NEW d, Edit(who, op, d),
           d # NoRecord => d.xAuthkey = NoKey \/ (rec # NoRecord /\ SameKeys(rec, d))
    PROVE  KeysUsed'
  <1>1. TypeOK /\ KeysUsed
    BY DEF RInv, IInv
  <1>2. next'.key = next.key /\ next.key \in Nat
    BY <1>1 DEF Edit, TypeOK
  <1>3. rec' = d /\ disk' = disk
    BY DEF Edit
  <1>4. /\ rec # NoRecord => rec.xAuthkey < next.key
        /\ disk.rec # NoRecord => disk.rec.xAuthkey < next.key
    BY <1>1, KeysUsedParts
  <1>5. NoKey < next.key
    BY <1>2 DEF NoKey
  <1>6. d # NoRecord => d.xAuthkey < next.key
    BY <1>4, <1>5 DEF SameKeys
  <1> QED BY <1>2, <1>3, <1>4, <1>6, KeysUsedPartsNext

\* The operator's verbs and the lost sweep.
LEMMA OperatorMoves ==
    ASSUME RInv, TypeOK', Operator
    PROVE  KeysUsed' /\ Moves
  <1>0. IInv /\ TypeOK /\ KeysUsed
    BY DEF RInv, IInv
  <1>1. next.version \in Nat /\ next.epoch \in Nat
    BY <1>0 DEF TypeOK
  <1>2. rec # NoRecord => Good(rec) /\ rec \in Devices
    BY <1>0, RecGood DEF Good
  <1>3. ASSUME NEW who, NEW op, NEW e, Edit(who, op, e), rec # NoRecord,
               Good(e), SameKeys(rec, e),
               e.state = rec.state \/ (rec.state = "adopted" /\ e.state = "lost")
        PROVE  KeysUsed' /\ Moves
    <2>1. KeysUsed'
      BY <1>3, EditKeys
    <2>2. rec' = e /\ UNCHANGED disk /\ e \in Devices
      BY <1>3 DEF Edit, Good
    <2>3. CASE e.state = rec.state
      BY <1>2, <1>3, <2>1, <2>2, <2>3, StutterMove
    <2>4. CASE rec.state = "adopted" /\ e.state = "lost"
      BY <1>2, <1>3, <2>1, <2>2, <2>4, LoseMove
    <2> QED BY <1>3, <2>3, <2>4
  <1>4. ASSUME NEW e \in Devices
        PROVE  /\ [e EXCEPT !.intent = @ + 1, !.cfgVersion = next.version].state = e.state
               /\ \A env \in Envelopes : [e EXCEPT !.wlans = env].state = e.state
               /\ \A b \in SUBSET Clients : [e EXCEPT !.blocked = b].state = e.state
               /\ [e EXCEPT !.reboot = TRUE].state = e.state
               /\ [e EXCEPT !.setdefault = TRUE].state = e.state
               /\ [e EXCEPT !.cmd = TRUE].state = e.state
               /\ [e EXCEPT !.state = "lost"].state = "lost"
    BY DEF Devices
  <1>5. CASE CreateDevice \/ AdoptPending
    <2> DEFINE d == SeededDevice(next.epoch)
    <2>1. Good(d) /\ d \in Devices
      BY <1>1, SeededGood DEF Good
    <2>2. d.state = "pending" /\ d.xAuthkey = NoKey /\ d.keyConfirmed = FALSE
      BY DEF SeededDevice
    <2>3. PICK op \in {"Create", "Adopt"} : Edit("operator", op, d)
      BY <1>5 DEF CreateDevice, AdoptPending
    <2>4. rec = NoRecord
      BY <1>5 DEF CreateDevice, AdoptPending
    <2> HIDE DEF d
    <2>5. rec' = d /\ UNCHANGED disk
      BY <2>3 DEF Edit
    <2>6. KeysUsed'
      BY <2>2, <2>3, EditKeys
    <2> QED BY <2>1, <2>2, <2>4, <2>5, <2>6, BegunMove
  <1>6. CASE NoteExpires
    <2>1. UNCHANGED <<rec, disk, next>>
      BY <1>6 DEF NoteExpires
    <2> QED BY <1>0, <2>1, QuietMove DEF KeysUsed, Records
  <1>7. CASE DeleteDevice
    <2>1. rec # NoRecord /\ Edit("operator", "Delete", NoRecord)
      BY <1>7 DEF DeleteDevice
    <2>2. KeysUsed'
      BY <2>1, EditKeys
    <2>3. rec' = NoRecord /\ UNCHANGED disk
      BY <2>1 DEF Edit
    <2> QED BY <1>2, <2>1, <2>2, <2>3, ForgetMove
  <1>8. CASE PatchDevice
    BY <1>1, <1>2, <1>3, <1>4, <1>8, VerbGood, EnvelopeAssumption DEF PatchDevice
  <1>9. CASE \E env \in Envelopes : PutDeviceWireless(env)
    <2>1. PICK env \in Envelopes : PutDeviceWireless(env)
      BY <1>9
    <2> QED BY <1>1, <1>2, <1>3, <1>4, <2>1, VerbGood DEF PutDeviceWireless
  <1>10. CASE \E c \in Clients : BlockClient(c) \/ UnblockClient(c)
    <2>1. PICK c \in Clients : BlockClient(c) \/ UnblockClient(c)
      BY <1>10
    <2>2. rec # NoRecord
      BY <2>1 DEF BlockClient, UnblockClient
    <2>3. PICK b \in SUBSET Clients, op \in {"Block", "Unblock"} :
             Edit("operator", op, [rec EXCEPT !.blocked = b])
      <3>1. rec.blocked \in SUBSET Clients
        BY <1>2, <2>2 DEF Devices
      <3>2. rec.blocked \cup {c} \in SUBSET Clients /\ rec.blocked \ {c} \in SUBSET Clients
        BY <3>1
      <3> QED BY <2>1, <3>2 DEF BlockClient, UnblockClient, AddBlockedClient, RemoveBlockedClient
    <2>4. Good([rec EXCEPT !.blocked = b]) /\ SameKeys(rec, [rec EXCEPT !.blocked = b])
      BY <1>1, <1>2, <2>2, VerbGood, EnvelopeAssumption
    <2> QED BY <1>2, <1>3, <1>4, <2>2, <2>3, <2>4
  <1>11. CASE RebootDevice
    BY <1>1, <1>2, <1>3, <1>4, <1>11, VerbGood, EnvelopeAssumption DEF RebootDevice
  <1>12. CASE FactoryResetDevice
    BY <1>1, <1>2, <1>3, <1>4, <1>12, VerbGood, EnvelopeAssumption DEF FactoryResetDevice
  <1>13. CASE EnqueueDeviceCmd
    BY <1>1, <1>2, <1>3, <1>4, <1>13, VerbGood, EnvelopeAssumption DEF EnqueueDeviceCmd, ArmCmdTask
  <1>14. CASE SweepLost
    BY <1>1, <1>2, <1>3, <1>4, <1>14, VerbGood, EnvelopeAssumption DEF SweepLost
  <1> QED BY <1>5, <1>6, <1>7, <1>8, <1>9, <1>10, <1>11, <1>12, <1>13, <1>14
          DEF Operator

-----------------------------------------------------------------------------
(* The theorem                                                              *)

\* A step that leaves the records and the fresh names alone.
LEMMA QuietRefines ==
    ASSUME RInv, UNCHANGED <<rec, disk, next>>
    PROVE  KeysUsed' /\ Moves
  BY QuietMove DEF RInv, KeysUsed, Records

\* Every step of the system moves the life of the record as Lifecycle allows.
LEMMA NextRefines == RInv /\ [Next]_vars => RInv' /\ Moves
  <1> SUFFICES ASSUME RInv, [Next]_vars PROVE RInv' /\ Moves
    OBVIOUS
  <1>1. IInv /\ TypeOK /\ KeysUsed
    BY DEF RInv, IInv
  <1>2. IInv' /\ TypeOK'
    BY <1>1, NextIInv DEF IInv
  <1> SUFFICES KeysUsed' /\ Moves
    BY <1>2 DEF RInv
  <1>3. CASE \/ \E h \in Slots, lane \in Lanes : OddInform(h, lane)
             \/ \E h \in Slots : Inform(h) \/ RequestLost(h) \/ Deliver(h)
             \/ GiveUp \/ PhysicalReset \/ UNCHANGED vars
    <2>1. UNCHANGED <<rec, disk, next>>
      <3>1. CASE \E h \in Slots, lane \in Lanes : OddInform(h, lane)
        BY <3>1, OddSends
      <3>2. CASE \/ \E h \in Slots : Inform(h) \/ RequestLost(h) \/ Deliver(h)
                 \/ GiveUp \/ PhysicalReset \/ UNCHANGED vars
        BY <3>2 DEF Inform, Send, RequestLost, Deliver, GiveUp, PhysicalReset, vars
      <3> QED BY <1>3, <3>1, <3>2
    <2> QED BY <2>1, QuietRefines
  <1>4. ASSUME NEW h \in Slots, Handle(h)
        PROVE  KeysUsed' /\ Moves
    <2>1. CASE \/ DecodeRegistered(h) \/ DecodeFails(h) \/ DecodeUnknown(h)
               \/ Vanished(h) \/ RejectDefaultKey(h)
      <3>1. UNCHANGED <<rec, disk, next>>
        BY <2>1 DEF DecodeRegistered, DecodeFails, DecodeUnknown, Vanished,
                    RejectDefaultKey, AnswerNow
      <3> QED BY <3>1, QuietRefines
    <2>2. CASE \/ GentleNoop(h) \/ EmitSetdefault(h) \/ EmitReboot(h) \/ EmitCmd(h)
               \/ PlainUnassigned(h) \/ PlainResend(h) \/ PlainProvision(h)
      BY <1>2, <2>2, LaneMoves
    <2> QED BY <1>4, <2>1, <2>2 DEF Handle
  <1>5. ASSUME NEW h \in Slots, NEW due \in BOOLEAN, Cycle(h, due) \/ EngineFails(h, due)
        PROVE  KeysUsed' /\ Moves
    <2>1. CASE Cycle(h, due)
      BY <1>2, <2>1, SwitchMoves
    <2>2. CASE EngineFails(h, due)
      <3>1. UNCHANGED <<rec, disk, next>>
        BY <2>2 DEF EngineFails
      <3> QED BY <3>1, QuietRefines
    <2> QED BY <1>5, <2>1, <2>2
  <1>6. CASE \/ \E h \in Slots : SaveInformFails(h)
             \/ \E who \in {"operator", "poller"} : SaveOtherFails(who)
    <2>1. UNCHANGED <<rec, disk, next>>
      BY <1>6 DEF SaveInformFails, SaveOtherFails
    <2> QED BY <2>1, QuietRefines
  <1>7. CASE \/ \E h \in Slots : SaveInform(h)
             \/ \E who \in {"operator", "poller"} : SaveOther(who)
    <2>1. UNCHANGED <<rec, next>> /\ disk' = Snapshot
      BY <1>7 DEF SaveInform, SaveOther
    <2>2. disk'.rec = rec
      BY <2>1 DEF Snapshot
    <2>3. KeysUsed'
      BY <1>1, <1>2, <2>1, <2>2, KeysUsedParts, KeysUsedPartsNext
    <2> QED BY <2>1, <2>2, <2>3, SaveMove
  <1>8. CASE Restart
    <2>1. rec' = disk.rec /\ UNCHANGED <<disk, next>>
      BY <1>8 DEF Restart
    <2>2. KeysUsed'
      BY <1>1, <1>2, <2>1, KeysUsedParts, KeysUsedPartsNext
    <2> QED BY <2>1, <2>2, CrashMove
  <1>9. CASE Operator
    BY <1>2, <1>9, OperatorMoves
  <1> QED BY <1>3, <1>4, <1>5, <1>6, <1>7, <1>8, <1>9 DEF Next

\* Before anything is enrolled neither memory nor disk has a life.
LEMMA InitRefines == Init => RInv /\ LC!Init
  <1> SUFFICES ASSUME Init PROVE RInv /\ LC!Init
    OBVIOUS
  <1>1. rec = NoRecord /\ disk.rec = NoRecord
    BY DEF Init, Snapshot
  <1>2. KeysUsed
    BY <1>1 DEF KeysUsed, Records
  <1>3. LC!Init
    BY <1>1 DEF LC!Init, Life
  <1> QED BY <1>2, <1>3, InitIInv DEF RInv

\* The system implements Lifecycle: whatever handlers, verbs, the sweep, failed
\* saves and restarts do, in any order and number, the record in memory and the
\* record on disk live as Lifecycle says (decideEncrypted, armedLifecycle,
\* rotateKeys, sweepLost, saveIntent).
THEOREM ImplementsLifecycleHolds == Spec => ImplementsLifecycle
  <1>1. Init => RInv /\ LC!Init
    BY InitRefines
  <1>2. RInv /\ [Next]_vars => RInv'
    BY NextRefines
  <1>3. RInv /\ [Next]_vars => [LC!Next]_(LC!vars)
    BY NextRefines DEF Moves
  <1> QED BY <1>1, <1>2, <1>3, PTL DEF Spec, ImplementsLifecycle, LC!Spec

-----------------------------------------------------------------------------
(* What the history variables account for                                   *)

Commands == {"cmd", "reboot"}

\* A slot whose answer carries a command, and one that has been saved as well.
Carries(s, kind) == s.phase \in {"saving", "reply"} /\ s.reply.kind = kind
Sends(s, kind) == s.phase = "reply" /\ s.reply.kind = kind

Under(kind) == {h \in Slots : Carries(slot[h], kind)}
Ready(kind) == {h \in Slots : Sends(slot[h], kind)}

Flagged(d, kind) == One(d # NoRecord /\ d[kind])

Balanced(kind) ==
    /\ IsFiniteSet(Under(kind))
    /\ owed[kind] >= Flagged(rec, kind) + Cardinality(Under(kind))
    /\ owed[kind] >= Flagged(disk.rec, kind) + Cardinality(Ready(kind))

HInv ==
    /\ IInv
    /\ owed \in [Commands -> Int]
    /\ \A kind \in Commands : Balanced(kind)

-----------------------------------------------------------------------------
(* Answers under way                                                        *)

\* One is 0 or 1.
LEMMA OneType ==
    ASSUME NEW b
    PROVE  One(b) \in {0, 1} /\ (b => One(b) = 1) /\ (~b => One(b) = 0)
  BY DEF One

\* The answers under way are finitely many and the saved ones are among them.
LEMMA Counts ==
    ASSUME NEW kind, IsFiniteSet(Under(kind))
    PROVE  /\ IsFiniteSet(Ready(kind))
           /\ Cardinality(Under(kind)) \in Nat
           /\ Cardinality(Ready(kind)) \in Nat
           /\ Cardinality(Ready(kind)) <= Cardinality(Under(kind))
  <1>1. Ready(kind) \in SUBSET Under(kind)
    BY DEF Ready, Under, Carries, Sends
  <1>2. IsFiniteSet(Ready(kind)) /\ Cardinality(Ready(kind)) <= Cardinality(Under(kind))
    BY <1>1, FS_Subset
  <1> QED BY <1>2, FS_CardinalityType

\* Replacing what one slot holds changes the counts by what it held and holds.
LEMMA SlotCounts ==
    ASSUME TypeOK, NEW kind, IsFiniteSet(Under(kind)),
           NEW h \in Slots, NEW v, slot' = [slot EXCEPT ![h] = v]
    PROVE  /\ IsFiniteSet(Under(kind)')
           /\ Cardinality(Under(kind)') =
                 Cardinality(Under(kind)) - One(h \in Under(kind))
                    + One(Carries(v, kind))
           /\ Cardinality(Ready(kind)') =
                 Cardinality(Ready(kind)) - One(h \in Ready(kind))
                    + One(Sends(v, kind))
  <1> DEFINE U == Under(kind)
             R == Ready(kind)
             inU == Carries(v, kind)
             inR == Sends(v, kind)
  <1>1. \A g \in Slots : slot'[g] = IF g = h THEN v ELSE slot[g]
    BY DEF TypeOK
  <1>2. U' = IF inU THEN (U \ {h}) \cup {h} ELSE U \ {h}
    BY <1>1 DEF Under
  <1>3. R' = IF inR THEN (R \ {h}) \cup {h} ELSE R \ {h}
    BY <1>1 DEF Ready
  <1>4. /\ IsFiniteSet(U) /\ IsFiniteSet(R)
        /\ Cardinality(U) \in Nat /\ Cardinality(R) \in Nat
    BY Counts
  <1>5. ASSUME NEW S, IsFiniteSet(S), Cardinality(S) \in Nat
        PROVE  /\ IsFiniteSet(S \ {h})
               /\ Cardinality(S \ {h}) = Cardinality(S) - One(h \in S) + 0
               /\ IsFiniteSet((S \ {h}) \cup {h})
               /\ Cardinality((S \ {h}) \cup {h}) = Cardinality(S) - One(h \in S) + 1
    <2>1. /\ IsFiniteSet(S \ {h})
          /\ Cardinality(S \ {h}) = Cardinality(S) - One(h \in S)
      BY <1>5, FS_RemoveElement DEF One
    <2>2. /\ h \notin S \ {h}
          /\ Cardinality(S) - One(h \in S) = Cardinality(S) - One(h \in S) + 0
      BY <1>5 DEF One
    <2> HIDE DEF One
    <2>3. IsFiniteSet((S \ {h}) \cup {h})
          /\ Cardinality((S \ {h}) \cup {h}) = Cardinality(S \ {h}) + 1
      BY <2>1, <2>2, FS_AddElement
    <2> QED BY <2>1, <2>2, <2>3
  <1>6. /\ IsFiniteSet(U')
        /\ Cardinality(U') = Cardinality(U) - One(h \in U) + One(inU)
    <2> HIDE DEF U, inU
    <2>1. CASE inU
      <3>1. U' = (U \ {h}) \cup {h} /\ One(inU) = 1
        BY <1>2, <2>1, OneType
      <3> QED BY <1>4, <1>5, <3>1
    <2>2. CASE ~inU
      <3>1. U' = U \ {h} /\ One(inU) = 0
        BY <1>2, <2>2, OneType
      <3> QED BY <1>4, <1>5, <3>1
    <2> QED BY <2>1, <2>2
  <1>7. Cardinality(R') = Cardinality(R) - One(h \in R) + One(inR)
    <2> HIDE DEF R, inR
    <2>1. CASE inR
      <3>1. R' = (R \ {h}) \cup {h} /\ One(inR) = 1
        BY <1>3, <2>1, OneType
      <3> QED BY <1>4, <1>5, <3>1
    <2>2. CASE ~inR
      <3>1. R' = R \ {h} /\ One(inR) = 0
        BY <1>3, <2>2, OneType
      <3> QED BY <1>4, <1>5, <3>1
    <2> QED BY <2>1, <2>2
  <1> QED BY <1>6, <1>7

-----------------------------------------------------------------------------
(* Armings and executions                                                   *)

\* What a step adds to and takes from the account of a command.
Tally(kind) == owed'[kind] = owed[kind] + One(Rises(kind)) - One(Takes(kind))

Grows(kind) == Flagged(rec', kind) <= Flagged(rec, kind) + One(Rises(kind))

\* A flag of an existing record rises only by an arming.
LEMMA FlagGrows ==
    ASSUME NEW kind,
           \/ rec' = rec
           \/ rec' = NoRecord
           \/ ~rec'[kind]
           \/ rec # NoRecord /\ spent'.faults = spent.faults
    PROVE  Grows(kind)
  <1> DEFINE a == rec # NoRecord /\ rec[kind]
             b == rec' # NoRecord /\ rec'[kind]
  <1>1. b => a \/ Rises(kind)
    BY DEF Rises, Reloaded
  <1>2. /\ One(a) \in {0, 1} /\ (a => One(a) = 1)
        /\ One(b) \in {0, 1} /\ (~b => One(b) = 0)
        /\ One(Rises(kind)) \in {0, 1} /\ (Rises(kind) => One(Rises(kind)) = 1)
    BY OneType
  <1>3. One(b) <= One(a) + One(Rises(kind))
    <2> HIDE DEF a, b
    <2>1. CASE ~b
      BY <1>2, <2>1
    <2>2. CASE b /\ a
      <3>1. One(a) = 1 /\ One(b) = 1
        BY <2>2 DEF One
      <3> QED BY <1>2, <3>1
    <2>3. CASE b /\ Rises(kind)
      <3>1. One(Rises(kind)) = 1 /\ One(b) = 1
        BY <2>3 DEF One
      <3> QED BY <1>2, <3>1
    <2> QED BY <1>1, <2>1, <2>2, <2>3
  <1> QED BY <1>3 DEF Grows, Flagged

\* Only the delivery of an answer takes: the slot returns to idle.
LEMMA TakesOnly ==
    ASSUME TypeOK, NEW kind, NEW h \in Slots, NEW v, slot' = [slot EXCEPT ![h] = v],
           Takes(kind)
    PROVE  v.phase = "idle" /\ h \in Ready(kind) /\ h \in Under(kind)
  <1>1. \A g \in Slots : slot'[g] = IF g = h THEN v ELSE slot[g]
    BY DEF TypeOK
  <1> QED BY <1>1 DEF Takes, Ready, Under, Carries, Sends

\* A step that leaves the slots alone takes nothing.
LEMMA NoTakes ==
    ASSUME NEW kind, slot' = slot
    PROVE  ~Takes(kind) /\ Under(kind)' = Under(kind) /\ Ready(kind)' = Ready(kind)
  BY DEF Takes, Under, Ready

\* The integers of the account.
LEMMA AccountType ==
    ASSUME HInv, NEW kind \in Commands
    PROVE  /\ TypeOK /\ IsFiniteSet(Under(kind))
           /\ owed[kind] \in Int
           /\ Cardinality(Under(kind)) \in Nat /\ Cardinality(Ready(kind)) \in Nat
           /\ Cardinality(Ready(kind)) <= Cardinality(Under(kind))
           /\ Flagged(rec, kind) \in {0, 1} /\ Flagged(disk.rec, kind) \in {0, 1}
           /\ Flagged(rec', kind) \in {0, 1} /\ Flagged(disk'.rec, kind) \in {0, 1}
           /\ One(Rises(kind)) \in {0, 1} /\ One(Takes(kind)) \in {0, 1}
           /\ owed[kind] >= Flagged(rec, kind) + Cardinality(Under(kind))
           /\ owed[kind] >= Flagged(disk.rec, kind) + Cardinality(Ready(kind))
  <1>1. TypeOK /\ Balanced(kind) /\ owed[kind] \in Int
    BY DEF HInv, IInv
  <1>2. IsFiniteSet(Under(kind))
    BY <1>1 DEF Balanced
  <1> QED BY <1>1, <1>2, Counts, OneType DEF Balanced, Flagged

\* A step on the record only.
LEMMA RecordStep ==
    ASSUME HInv, NEW kind \in Commands, Tally(kind), Grows(kind),
           UNCHANGED <<slot, disk>>
    PROVE  Balanced(kind)'
  <1>1. ~Takes(kind) /\ Under(kind)' = Under(kind) /\ Ready(kind)' = Ready(kind)
    BY NoTakes
  <1>2. One(Takes(kind)) = 0
    BY <1>1, OneType
  <1>3. Flagged(disk.rec, kind)' = Flagged(disk.rec, kind)
        /\ Flagged(rec, kind)' = Flagged(rec', kind)
    BY DEF Flagged
  <1> DEFINE o == owed'[kind]
             f == Flagged(rec', kind)
  <1>4. /\ o >= f + Cardinality(Under(kind))
        /\ o >= Flagged(disk.rec, kind) + Cardinality(Ready(kind))
    BY <1>2, AccountType DEF Tally, Grows
  <1> QED BY <1>1, <1>3, <1>4, AccountType DEF Balanced

\* A step that puts no command into a slot.
LEMMA PlainSlotStep ==
    ASSUME HInv, NEW kind \in Commands, Tally(kind), Grows(kind), UNCHANGED disk,
           NEW h \in Slots, NEW v, slot' = [slot EXCEPT ![h] = v],
           ~Carries(v, kind)
    PROVE  Balanced(kind)'
  <1> DEFINE U == Cardinality(Under(kind))
             R == Cardinality(Ready(kind))
             inU == One(h \in Under(kind))
             inR == One(h \in Ready(kind))
             t == One(Takes(kind))
             o == owed'[kind]
             f == Flagged(rec', kind)
  <1>1. /\ IsFiniteSet(Under(kind)')
        /\ Cardinality(Under(kind)') = U - inU
        /\ Cardinality(Ready(kind)') = R - inR
    <2> DEFINE b == Carries(v, kind)
               c == Sends(v, kind)
    <2>1. One(b) = 0 /\ One(c) = 0
      BY OneType DEF Carries, Sends
    <2>2. /\ IsFiniteSet(Under(kind)')
          /\ Cardinality(Under(kind)') = U - inU + One(b)
          /\ Cardinality(Ready(kind)') = R - inR + One(c)
      BY AccountType, SlotCounts
    <2>3. U \in Int /\ R \in Int /\ inU \in Int /\ inR \in Int
      BY AccountType, OneType
    <2> HIDE DEF b, c, U, R, inU, inR
    <2> QED BY <2>1, <2>2, <2>3
  <1>2. inU \in {0, 1} /\ inR \in {0, 1} /\ t <= inU /\ t <= inR
    <2>1. Takes(kind) => h \in Under(kind) /\ h \in Ready(kind)
      BY AccountType, TakesOnly
    <2>2. /\ inU \in {0, 1} /\ inR \in {0, 1} /\ t \in {0, 1}
          /\ (h \in Under(kind) => inU = 1) /\ (h \in Ready(kind) => inR = 1)
          /\ (~Takes(kind) => t = 0)
      BY OneType
    <2> HIDE DEF inU, inR, t
    <2> QED BY <2>1, <2>2
  <1>3. Flagged(disk.rec, kind)' = Flagged(disk.rec, kind)
        /\ Flagged(rec, kind)' = f
    BY DEF Flagged
  <1>4. /\ o >= f + (U - inU)
        /\ o >= Flagged(disk.rec, kind) + (R - inR)
    <2> HIDE DEF inU, inR
    <2> QED BY <1>2, AccountType DEF Tally, Grows
  <1> QED BY <1>1, <1>3, <1>4 DEF Balanced

\* A cycle that consumes the flag and puts the command into its slot.
LEMMA CommandSlotStep ==
    ASSUME HInv, NEW kind \in Commands, Tally(kind), UNCHANGED disk,
           NEW h \in Slots, NEW v, slot' = [slot EXCEPT ![h] = v],
           v.phase = "saving", v.reply.kind = kind,
           slot[h].phase = "decoded",
           rec # NoRecord, rec[kind], ~rec'[kind]
    PROVE  Balanced(kind)'
  <1> DEFINE U == Cardinality(Under(kind))
             R == Cardinality(Ready(kind))
             o == owed'[kind]
  <1>1. h \notin Under(kind) /\ h \notin Ready(kind) /\ ~Takes(kind)
    BY AccountType, TakesOnly DEF Under, Ready, Carries, Sends
  <1>2. One(h \in Under(kind)) = 0 /\ One(h \in Ready(kind)) = 0 /\ One(Takes(kind)) = 0
    BY <1>1, OneType
  <1>3. /\ IsFiniteSet(Under(kind)')
        /\ Cardinality(Under(kind)') = U + 1
        /\ Cardinality(Ready(kind)') = R
    <2> DEFINE b == Carries(v, kind)
               c == Sends(v, kind)
    <2>1. One(b) = 1 /\ One(c) = 0
      BY OneType DEF Carries, Sends
    <2>2. /\ IsFiniteSet(Under(kind)')
          /\ Cardinality(Under(kind)') = U - One(h \in Under(kind)) + One(b)
          /\ Cardinality(Ready(kind)') = R - One(h \in Ready(kind)) + One(c)
      BY AccountType, SlotCounts
    <2>3. U \in Int /\ R \in Int
      BY AccountType
    <2> HIDE DEF b, c, U, R
    <2> QED BY <1>2, <2>1, <2>2, <2>3
  <1>4. Flagged(rec, kind) = 1 /\ Flagged(rec', kind) = 0
    BY DEF Flagged, One
  <1>5. Flagged(disk.rec, kind)' = Flagged(disk.rec, kind)
        /\ Flagged(rec, kind)' = Flagged(rec', kind)
    BY DEF Flagged
  <1>6. o >= 0 + (U + 1) /\ o >= Flagged(disk.rec, kind) + R
    BY <1>2, <1>4, AccountType DEF Tally
  <1> QED BY <1>3, <1>4, <1>5, <1>6 DEF Balanced

\* A successful save: memory reaches the disk, and an answer may become ready.
LEMMA SaveStep ==
    ASSUME HInv, NEW kind \in Commands, Tally(kind), rec' = rec, disk'.rec = rec,
           \/ slot' = slot
           \/ \E h \in Slots : /\ slot[h].phase = "saving"
                               /\ slot' = [slot EXCEPT ![h].phase = "reply"]
    PROVE  Balanced(kind)'
  <1> DEFINE U == Cardinality(Under(kind))
  <1>1. Under(kind)' = Under(kind) /\ ~Takes(kind)
    <2>1. CASE slot' = slot
      BY <2>1, NoTakes
    <2>2. CASE \E h \in Slots : /\ slot[h].phase = "saving"
                                /\ slot' = [slot EXCEPT ![h].phase = "reply"]
      <3>1. PICK h \in Slots : /\ slot[h].phase = "saving"
                               /\ slot' = [slot EXCEPT ![h].phase = "reply"]
        BY <2>2
      <3> DEFINE v == [slot[h] EXCEPT !.phase = "reply"]
      <3>2. slot' = [slot EXCEPT ![h] = v] /\ TypeOK /\ slot[h] \in SlotStates
        BY <3>1, AccountType, SlotType
      <3>3. v.phase = "reply" /\ v.reply = slot[h].reply
        BY <3>2 DEF SlotStates
      <3> HIDE DEF v
      <3>4. ~Takes(kind)
        BY <3>2, <3>3, TakesOnly
      <3>5. \A g \in Slots : slot'[g] = IF g = h THEN v ELSE slot[g]
        BY <3>2 DEF TypeOK
      <3>6. Under(kind)' = Under(kind)
        BY <3>1, <3>3, <3>5 DEF Under, Carries
      <3> QED BY <3>4, <3>6
    <2> QED BY <2>1, <2>2
  <1>2. IsFiniteSet(Under(kind)')
    BY <1>1, AccountType
  <1>3. Cardinality(Ready(kind)') \in Nat /\ Cardinality(Ready(kind)') <= U
    <2>1. Ready(kind)' \in SUBSET Under(kind)
      <3>1. Ready(kind)' \in SUBSET Under(kind)'
        BY DEF Ready, Under, Carries, Sends
      <3> QED BY <1>1, <3>1
    <2>2. IsFiniteSet(Under(kind))
      BY AccountType
    <2> QED BY <2>1, <2>2, FS_Subset, FS_CardinalityType
  <1>4. /\ Flagged(rec, kind)' = Flagged(rec, kind)
        /\ Flagged(disk.rec, kind)' = Flagged(rec, kind)
    BY DEF Flagged
  <1>5. One(Takes(kind)) = 0
    BY <1>1, OneType
  <1> DEFINE o == owed'[kind]
             n == Cardinality(Ready(kind)')
  <1>6. o >= Flagged(rec, kind) + U /\ o >= Flagged(rec, kind) + n
    <2> HIDE DEF n
    <2> QED BY <1>3, <1>5, AccountType DEF Tally, n
  <1> QED BY <1>1, <1>2, <1>4, <1>6 DEF Balanced

\* A restart forgets the answers and reloads the flags.
LEMMA RestartStep ==
    ASSUME HInv, NEW kind \in Commands, Tally(kind), Restart
    PROVE  Balanced(kind)'
  <1>1. Under(kind)' = {} /\ Ready(kind)' = {}
    BY DEF Restart, Under, Ready, Carries, Sends, IdleSlot
  <1>2. ~Takes(kind)
    <2>1. spent.faults \in Nat
      BY AccountType DEF TypeOK
    <2>2. spent' # spent
      BY <2>1, AccountType DEF Restart, TypeOK
    <2> QED BY <2>2 DEF Takes
  <1>3. One(Takes(kind)) = 0
    BY <1>2, OneType
  <1>4. /\ Flagged(rec, kind)' = Flagged(disk.rec, kind)
        /\ Flagged(disk.rec, kind)' = Flagged(disk.rec, kind)
    BY DEF Flagged, Restart
  <1>5. IsFiniteSet({}) /\ Cardinality({}) = 0
    BY FS_EmptySet
  <1> DEFINE o == owed'[kind]
  <1>6. o >= Flagged(disk.rec, kind) + 0
    BY <1>3, AccountType DEF Tally
  <1> QED BY <1>1, <1>4, <1>5, <1>6 DEF Balanced

\* A cycle whose answer is not this command.
LEMMA OtherCommit ==
    ASSUME HInv, NEW kind \in Commands, Tally(kind), rec # NoRecord,
           NEW h \in Slots, NEW d, NEW reply, CommitCycle(h, d, reply),
           reply.kind # kind
    PROVE  Balanced(kind)'
  <1> DEFINE v == Answered("saving", reply)
  <1>1. v.reply = reply
    BY DEF Answered, IdleSlot
  <1>2. ~Carries(v, kind)
    BY <1>1 DEF Carries
  <1>3. slot' = [slot EXCEPT ![h] = v] /\ UNCHANGED <<disk, spent>>
    BY DEF CommitCycle
  <1>4. Grows(kind)
    BY <1>3, FlagGrows
  <1> HIDE DEF v
  <1> QED BY <1>2, <1>3, <1>4, PlainSlotStep

\* A step of a handler or of the device that commits nothing and sends no command.
LEMMA QuietSlotStep ==
    ASSUME HInv, NEW kind \in Commands, Tally(kind), UNCHANGED <<rec, disk>>,
           NEW h \in Slots, NEW v, slot' = [slot EXCEPT ![h] = v], ~Carries(v, kind)
    PROVE  Balanced(kind)'
  <1>1. Grows(kind)
    BY FlagGrows
  <1> QED BY <1>1, PlainSlotStep

\* What the answers of the engine carry.
LEMMA ReplyKinds ==
    /\ \A kind : Bare(kind).kind = kind
    /\ \A d, key : AdoptionPush(d, key).kind = "push"
    /\ \A d : FullProvision(d).kind = "provision"
    /\ \A d : BlockedStaReconnect(d).kind = "reconnect"
  BY DEF Bare, AdoptionPush, FullProvision, BlockedStaReconnect

\* The cycles that send a command consume its flag.
LEMMA EmitStep ==
    ASSUME HInv, NEW kind \in Commands, Tally(kind), NEW h \in Slots,
           EmitReboot(h) \/ EmitCmd(h)
    PROVE  Balanced(kind)'
  <1>1. rec # NoRecord /\ slot[h].phase = "decoded"
    BY DEF EmitReboot, EmitCmd, CommandTurn, Admitted, Encrypted, Plain, Running
  <1>2. IInv
    BY DEF HInv
  <1>3. Fresh(h) \in Devices
    BY <1>1, <1>2, WorkGood DEF Good
  <1>4. CASE EmitReboot(h)
    <2> DEFINE d == Rebooted(Fresh(h))
               v == Answered("saving", Bare("reboot"))
    <2>1. d \in Devices
      BY <1>1, <1>2, WorkGood, CommandGood DEF Good
    <2>2. d.reboot = FALSE
      BY <1>3 DEF Rebooted, Devices
    <2>3. CommitCycle(h, d, Bare("reboot")) /\ rec.reboot
      BY <1>4 DEF EmitReboot
    <2> HIDE DEF d
    <2>4. CASE kind = "reboot"
      <3>1. slot' = [slot EXCEPT ![h] = v] /\ rec' = Confirm(d, Used(h)) /\ UNCHANGED disk
        BY <2>3 DEF CommitCycle
      <3>2. v.phase = "saving" /\ v.reply.kind = "reboot"
        BY ReplyKinds DEF Answered, IdleSlot
      <3>3. ~rec'["reboot"]
        BY <2>1, <2>2, <3>1 DEF Confirm, Devices
      <3>4. rec["reboot"]
        BY <2>3
      <3> HIDE DEF v
      <3> QED BY <1>1, <2>4, <3>1, <3>2, <3>3, <3>4, CommandSlotStep
    <2>5. CASE kind # "reboot"
      BY <1>1, <2>3, <2>5, ReplyKinds, OtherCommit
    <2> QED BY <2>4, <2>5
  <1>5. CASE EmitCmd(h)
    <2> DEFINE d == CmdConsumed(Fresh(h))
               v == Answered("saving", Bare("cmd"))
    <2>1. d \in Devices
      BY <1>1, <1>2, WorkGood, CommandGood DEF Good
    <2>2. d.cmd = FALSE
      BY <1>3 DEF CmdConsumed, Devices
    <2>3. CommitCycle(h, d, Bare("cmd")) /\ rec.cmd
      BY <1>5 DEF EmitCmd
    <2> HIDE DEF d
    <2>4. CASE kind = "cmd"
      <3>1. slot' = [slot EXCEPT ![h] = v] /\ rec' = Confirm(d, Used(h)) /\ UNCHANGED disk
        BY <2>3 DEF CommitCycle
      <3>2. v.phase = "saving" /\ v.reply.kind = "cmd"
        BY ReplyKinds DEF Answered, IdleSlot
      <3>3. ~rec'["cmd"]
        BY <2>1, <2>2, <3>1 DEF Confirm, Devices
      <3>4. rec["cmd"]
        BY <2>3
      <3> HIDE DEF v
      <3> QED BY <1>1, <2>4, <3>1, <3>2, <3>3, <3>4, CommandSlotStep
    <2>5. CASE kind # "cmd"
      BY <1>1, <2>3, <2>5, ReplyKinds, OtherCommit
    <2> QED BY <2>4, <2>5
  <1> QED BY <1>4, <1>5

\* Every cycle of an inform.
LEMMA CycleStep ==
    ASSUME HInv, NEW kind \in Commands, Tally(kind), NEW h \in Slots,
           \/ \E due \in BOOLEAN : Cycle(h, due)
           \/ GentleNoop(h) \/ EmitSetdefault(h) \/ EmitReboot(h) \/ EmitCmd(h)
           \/ PlainUnassigned(h) \/ PlainResend(h) \/ PlainProvision(h)
    PROVE  Balanced(kind)'
  <1>1. rec # NoRecord
    BY DEF GentleNoop, EmitSetdefault, EmitReboot, EmitCmd, PlainUnassigned,
           PlainResend, PlainProvision, CommandTurn, PlainDeciding, Admitted,
           Encrypted, Plain, Running, Cycle, HoldPending, Rotate, RePush, Provision,
           SelfHeal, ReconnectPush, ReprovisionMiss, ArmMaterialization,
           ConnectedNoop, Baselined, Settled, OnKey, Released, Deciding
  <1>2. CASE EmitReboot(h) \/ EmitCmd(h)
    BY <1>2, EmitStep
  <1>3. CASE \/ GentleNoop(h) \/ EmitSetdefault(h)
             \/ PlainUnassigned(h) \/ PlainResend(h) \/ PlainProvision(h)
    <2>1. PICK d, reply : CommitCycle(h, d, reply) /\ reply.kind \notin Commands
      BY <1>3, ReplyKinds DEF GentleNoop, EmitSetdefault, PlainUnassigned, PlainResend,
         PlainProvision, Commands
    <2> QED BY <1>1, <2>1, OtherCommit
  <1>4. CASE \E due \in BOOLEAN : Cycle(h, due)
    <2>1. PICK due \in BOOLEAN : Cycle(h, due)
      BY <1>4
    <2>2. PICK d, reply : CommitCycle(h, d, reply) /\ reply.kind \notin Commands
      BY <2>1, ReplyKinds DEF Cycle, HoldPending, Rotate, RePush, Provision, SelfHeal,
         ReconnectPush, ReprovisionMiss, ArmMaterialization, ConnectedNoop, Commands
    <2> QED BY <1>1, <2>2, OtherCommit
  <1> QED BY <1>2, <1>3, <1>4

\* The steps of the device and of a handler that commit nothing.
LEMMA HandlerStepBalanced ==
    ASSUME HInv, NEW kind \in Commands, Tally(kind), NEW h \in Slots,
           \/ \E lane \in Lanes : OddInform(h, lane)
           \/ Inform(h) \/ RequestLost(h) \/ Deliver(h)
           \/ DecodeRegistered(h) \/ DecodeFails(h) \/ DecodeUnknown(h)
           \/ Vanished(h) \/ RejectDefaultKey(h) \/ SaveInformFails(h)
           \/ \E due \in BOOLEAN : EngineFails(h, due)
    PROVE  Balanced(kind)'
  <1>1. TypeOK /\ slot[h] \in SlotStates
    BY AccountType, SlotType
  <1>2. IdleSlot.phase = "idle"
    BY DEF IdleSlot
  <1>3. kind \notin {"status", "noop"}
    BY DEF Commands
  <1>4. ASSUME NEW phase, NEW reply \in {"status", "noop"}
        PROVE  ~Carries(Answered(phase, Bare(reply)), kind)
    <2>1. Answered(phase, Bare(reply)).reply = Bare(reply)
      BY DEF Answered, IdleSlot
    <2> QED BY <1>3, <2>1, ReplyKinds DEF Carries
  <1>5. CASE Inform(h) \/ \E lane \in Lanes : OddInform(h, lane)
    <2>1. PICK lane, body : Send(h, lane, body)
      BY <1>5 DEF Inform, OddInform
    <2> DEFINE v == [IdleSlot EXCEPT !.phase = "sent", !.lane = lane, !.body = body]
    <2>2. v.phase = "sent"
      BY DEF IdleSlot
    <2>3. slot' = [slot EXCEPT ![h] = v] /\ UNCHANGED <<rec, disk>>
      BY <2>1 DEF Send
    <2> HIDE DEF v
    <2> QED BY <2>2, <2>3, QuietSlotStep DEF Carries
  <1>6. CASE RequestLost(h) \/ Deliver(h)
    <2>1. slot' = [slot EXCEPT ![h] = IdleSlot] /\ UNCHANGED <<rec, disk>>
      BY <1>6 DEF RequestLost, Deliver
    <2> QED BY <1>2, <2>1, QuietSlotStep DEF Carries
  <1>7. CASE DecodeRegistered(h)
    <2> DEFINE v == [slot[h] EXCEPT !.phase = "decoded"]
    <2>1. v.phase = "decoded"
      BY <1>1 DEF SlotStates
    <2>2. slot' = [slot EXCEPT ![h] = v] /\ UNCHANGED <<rec, disk>>
      BY <1>7 DEF DecodeRegistered
    <2> HIDE DEF v
    <2> QED BY <2>1, <2>2, QuietSlotStep DEF Carries
  <1>8. CASE \/ DecodeFails(h) \/ DecodeUnknown(h) \/ Vanished(h) \/ RejectDefaultKey(h)
             \/ \E due \in BOOLEAN : EngineFails(h, due)
    <2>1. PICK phase \in {"saving", "reply"}, reply \in {"status", "noop"} :
             slot' = [slot EXCEPT ![h] = Answered(phase, Bare(reply))]
      <3>1. CASE DecodeUnknown(h)
        BY <3>1 DEF DecodeUnknown
      <3>2. CASE DecodeFails(h) \/ Vanished(h) \/ RejectDefaultKey(h)
        BY <3>2 DEF DecodeFails, Vanished, RejectDefaultKey, AnswerNow
      <3>3. CASE \E due \in BOOLEAN : EngineFails(h, due)
        BY <3>3 DEF EngineFails
      <3> QED BY <1>8, <3>1, <3>2, <3>3
    <2>2. UNCHANGED <<rec, disk>>
      BY <1>8 DEF DecodeFails, DecodeUnknown, Vanished, RejectDefaultKey, EngineFails,
                  AnswerNow
    <2> QED BY <1>4, <2>1, <2>2, QuietSlotStep
  <1>9. CASE SaveInformFails(h)
    <2> DEFINE b == Bare(IF slot[h].reply.kind = "status" THEN "status" ELSE "noop")
               v == [slot[h] EXCEPT !.phase = "reply", !.reply = b]
    <2>1. v.reply = b
      BY <1>1 DEF SlotStates
    <2>2. b.kind \in {"status", "noop"}
      BY ReplyKinds
    <2>3. slot' = [slot EXCEPT ![h] = v] /\ UNCHANGED <<rec, disk>>
      BY <1>9 DEF SaveInformFails
    <2> HIDE DEF v, b
    <2> QED BY <1>3, <2>1, <2>2, <2>3, QuietSlotStep DEF Carries
  <1> QED BY <1>5, <1>6, <1>7, <1>8, <1>9

\* The operator's verbs, the sweep, and what only the device or a save notices.
LEMMA RecordStepBalanced ==
    ASSUME HInv, NEW kind \in Commands, Tally(kind),
           \/ Operator \/ GiveUp \/ PhysicalReset \/ UNCHANGED vars
           \/ \E who \in {"operator", "poller"} : SaveOtherFails(who)
    PROVE  Balanced(kind)'
  <1>1. CASE \/ NoteExpires \/ GiveUp \/ PhysicalReset \/ UNCHANGED vars
             \/ \E who \in {"operator", "poller"} : SaveOtherFails(who)
    <2>1. UNCHANGED <<rec, disk, slot>>
      BY <1>1 DEF NoteExpires, GiveUp, PhysicalReset, SaveOtherFails, vars
    <2>2. Grows(kind)
      BY <2>1, FlagGrows
    <2> QED BY <2>1, <2>2, RecordStep
  <1>2. ASSUME NEW who, NEW op, NEW d, Edit(who, op, d), rec # NoRecord \/ ~d[kind]
        PROVE  Balanced(kind)'
    <2>1. rec' = d /\ UNCHANGED <<slot, disk>>
      BY <1>2 DEF Edit
    <2>2. spent'.faults = spent.faults
      BY <1>2, AccountType DEF Edit, TypeOK
    <2>3. Grows(kind)
      BY <1>2, <2>1, <2>2, FlagGrows
    <2> QED BY <2>1, <2>3, RecordStep
  <1>3. CASE CreateDevice \/ AdoptPending
    <2>1. PICK op : Edit("operator", op, SeededDevice(next.epoch))
      BY <1>3 DEF CreateDevice, AdoptPending
    <2>2. ~SeededDevice(next.epoch)[kind]
      BY DEF SeededDevice, Commands
    <2> QED BY <1>2, <2>1, <2>2
  <1>4. CASE DeleteDevice
    BY <1>2, <1>4 DEF DeleteDevice
  <1>5. CASE \/ PatchDevice \/ \E env \in Envelopes : PutDeviceWireless(env)
             \/ \E c \in Clients : BlockClient(c) \/ UnblockClient(c)
             \/ RebootDevice \/ FactoryResetDevice \/ EnqueueDeviceCmd \/ SweepLost
    <2>1. PICK who, op, d : Edit(who, op, d) /\ rec # NoRecord
      BY <1>5 DEF PatchDevice, PutDeviceWireless, BlockClient, UnblockClient,
                  RebootDevice, FactoryResetDevice, EnqueueDeviceCmd, SweepLost
    <2> QED BY <1>2, <2>1
  <1> QED BY <1>1, <1>3, <1>4, <1>5 DEF Operator

\* Every step keeps the account of a command balanced.
LEMMA NextBalanced ==
    ASSUME HInv, NEW kind \in Commands, Tally(kind), [Next]_vars
    PROVE  Balanced(kind)'
  <1>1. CASE \/ \E h \in Slots, lane \in Lanes : OddInform(h, lane)
             \/ \E h \in Slots : Inform(h) \/ RequestLost(h) \/ Deliver(h)
             \/ \E h \in Slots : SaveInformFails(h)
             \/ \E h \in Slots, due \in BOOLEAN : EngineFails(h, due)
    BY <1>1, HandlerStepBalanced
  <1>2. ASSUME NEW h \in Slots, Handle(h)
        PROVE  Balanced(kind)'
    BY <1>2, HandlerStepBalanced, CycleStep DEF Handle
  <1>3. CASE \E h \in Slots, due \in BOOLEAN : Cycle(h, due)
    BY <1>3, CycleStep
  <1>4. CASE \/ \E h \in Slots : SaveInform(h)
             \/ \E who \in {"operator", "poller"} : SaveOther(who)
    <2>1. rec' = rec /\ disk'.rec = rec
      BY <1>4 DEF SaveInform, SaveOther, Snapshot
    <2>2. \/ slot' = slot
          \/ \E h \in Slots : /\ slot[h].phase = "saving"
                              /\ slot' = [slot EXCEPT ![h].phase = "reply"]
      BY <1>4 DEF SaveInform, SaveOther
    <2> QED BY <2>1, <2>2, SaveStep
  <1>5. CASE Restart
    BY <1>5, RestartStep
  <1>6. CASE \/ Operator \/ GiveUp \/ PhysicalReset \/ UNCHANGED vars
             \/ \E who \in {"operator", "poller"} : SaveOtherFails(who)
    BY <1>6, RecordStepBalanced
  <1> QED BY <1>1, <1>2, <1>3, <1>4, <1>5, <1>6 DEF Next

\* The account starts balanced.
LEMMA InitHInv == HInit => HInv
  <1> SUFFICES ASSUME HInit PROVE HInv
    OBVIOUS
  <1>1. IInv
    BY InitIInv DEF HInit
  <1>2. owed \in [Commands -> Int] /\ \A kind \in Commands : owed[kind] = 0
    BY DEF HInit, Commands
  <1>3. rec = NoRecord /\ disk.rec = NoRecord
    BY DEF HInit, Init, Snapshot
  <1>4. ASSUME NEW kind \in Commands
        PROVE  Balanced(kind)
    <2>1. Under(kind) = {} /\ Ready(kind) = {}
      BY DEF HInit, Init, Under, Ready, Carries, Sends, IdleSlot
    <2>2. Flagged(rec, kind) = 0 /\ Flagged(disk.rec, kind) = 0
      BY <1>3 DEF Flagged, One
    <2> QED BY <1>2, <2>1, <2>2, FS_EmptySet DEF Balanced
  <1> QED BY <1>1, <1>2, <1>4 DEF HInv

\* Every step of the system with its history keeps the accounts.
LEMMA NextHInv == HInv /\ [HNext]_hvars => HInv'
  <1> SUFFICES ASSUME HInv, [HNext]_hvars PROVE HInv'
    OBVIOUS
  <1>1. [Next]_vars
    BY DEF HNext, hvars
  <1>2. IInv'
    BY <1>1, NextIInv DEF HInv
  <1>3. CASE HNext
    <2>1. owed' = [kind \in Commands |-> owed[kind] + One(Rises(kind)) - One(Takes(kind))]
      BY <1>3 DEF HNext, Commands
    <2>2. \A kind \in Commands : owed[kind] \in Int
      BY DEF HInv
    <2>3. owed' \in [Commands -> Int]
      BY <2>1, <2>2, OneType
    <2>4. \A kind \in Commands : Tally(kind)
      BY <2>1 DEF Tally
    <2> QED BY <1>1, <1>2, <2>3, <2>4, NextBalanced DEF HInv
  <1>4. CASE UNCHANGED hvars
    <2>1. UNCHANGED <<rec, disk, slot, owed>>
      BY <1>4 DEF hvars, vars
    <2>2. ASSUME NEW kind \in Commands
          PROVE  Balanced(kind)'
      BY <2>1 DEF HInv, Balanced, Under, Ready, Flagged
    <2> QED BY <1>2, <2>1, <2>2 DEF HInv
  <1> QED BY <1>3, <1>4

\* An armed reboot or cmd task is executed at most once per arming, for any
\* number of handlers, stale informs, failed saves and restarts (armedLifecycle,
\* runInformCycle).
THEOREM CommandsAtMostOnceHolds == HSpec => []CommandsAtMostOnce
  <1>1. HInit => HInv
    BY InitHInv
  <1>2. HInv /\ [HNext]_hvars => HInv'
    BY NextHInv
  <1>3. HInv => CommandsAtMostOnce
    <2> SUFFICES ASSUME HInv PROVE CommandsAtMostOnce
      OBVIOUS
    <2>1. ASSUME NEW kind \in Commands
          PROVE  owed[kind] >= 0
      BY AccountType
    <2> QED BY <2>1 DEF CommandsAtMostOnce, Commands
  <1> QED BY <1>1, <1>2, <1>3, PTL DEF HSpec

-----------------------------------------------------------------------------
(* The materialization watchdog                                             *)

\* A cfgversion for which the watchdog has armed a reboot is an old one, and
\* while it is the record's the record's marker stands for it.
GapsMarked ==
    /\ \A v \in gapArmed : v \in Nat /\ v < next.version
    /\ rec # NoRecord => rec.cfgVersion < next.version
    /\ disk.rec # NoRecord => disk.rec.cfgVersion < next.version
    /\ rec # NoRecord /\ rec.cfgVersion \in gapArmed
          => rec.delivery.marker = rec.cfgVersion

WInv == IInv /\ GapsMarked

\* The history of the watchdog's armings, and the step formula of the property.
GapStep ==
    gapArmed' =
       IF Reloaded THEN {}
       ELSE IF Rises("reboot") /\ spent' = spent THEN gapArmed \cup {rec.cfgVersion}
       ELSE IF \E h \in Slots : ShowsAllUp(h) /\ slot'[h].phase = "saving" THEN {}
       ELSE gapArmed

ArmsOnce == Rises("reboot") /\ spent' = spent => rec.cfgVersion \notin gapArmed

\* e has a new cfgversion, none, or that of d with d's marker for it.
Follows(d, e) ==
    \/ e.cfgVersion = next.version
    \/ e.cfgVersion = NoVersion /\ e.delivery.marker = NoVersion
    \/ /\ e.cfgVersion = d.cfgVersion
       /\ d.delivery.marker = d.cfgVersion => e.delivery.marker = e.cfgVersion

\* Types, for the arithmetic of cfgversions.
LEMMA VersionTypes ==
    ASSUME TypeOK
    PROVE  /\ rec # NoRecord => rec.cfgVersion \in Nat
           /\ disk.rec # NoRecord => disk.rec.cfgVersion \in Nat
           /\ next.version \in Nat /\ next.version > 0
  <1>1. \A d \in Devices : d.cfgVersion \in Nat
    BY DEF Devices
  <1> QED BY <1>1 DEF TypeOK

\* Without an arming of the watchdog the history does not grow.
LEMMA GapsShrink ==
    ASSUME GapStep, ~(Rises("reboot") /\ spent' = spent)
    PROVE  gapArmed' = {} \/ gapArmed' = gapArmed
  BY DEF GapStep

\* The tail of a cycle with a record that follows the old one.
LEMMA FollowsCommit ==
    ASSUME WInv, NEW h \in Slots, rec # NoRecord, NEW d \in Devices, NEW reply,
           CommitCycle(h, d, reply), GapStep, d.reboot => rec.reboot,
           Follows(rec, d) \/ (d.cfgVersion = rec.cfgVersion /\ gapArmed' = {})
    PROVE  GapsMarked' /\ ArmsOnce
  <1> DEFINE n == IF d.cfgVersion = next.version THEN next.version + 1 ELSE next.version
  <1>1. TypeOK /\ GapsMarked
    BY DEF WInv, IInv
  <1>2. next'.version = n
    BY <1>1 DEF CommitCycle, TypeOK
  <1>3. /\ rec'.cfgVersion = d.cfgVersion
        /\ rec'.delivery = d.delivery
        /\ rec'.reboot = d.reboot
    BY DEF CommitCycle, Confirm, Devices
  <1>4. disk' = disk
    BY DEF CommitCycle
  <1>5. ~Rises("reboot")
    BY <1>3 DEF Rises
  <1>6. gapArmed' = {} \/ gapArmed' = gapArmed
    BY <1>5, GapsShrink
  <1>7. /\ next.version \in Nat /\ next.version > 0 /\ d.cfgVersion \in Nat
        /\ rec.cfgVersion \in Nat /\ (disk.rec # NoRecord => disk.rec.cfgVersion \in Nat)
    BY <1>1, VersionTypes DEF Devices
  <1>8. d.cfgVersion \in {next.version, NoVersion, rec.cfgVersion}
    BY DEF Follows
  <1>9. /\ next.version <= n /\ n \in Nat /\ d.cfgVersion < n
        /\ disk.rec # NoRecord => disk.rec.cfgVersion < n
    BY <1>1, <1>7, <1>8 DEF GapsMarked, NoVersion
  <1>10. \A v \in gapArmed' : v \in Nat /\ v < n
    BY <1>1, <1>6, <1>7, <1>9 DEF GapsMarked
  <1>11. d.cfgVersion \in gapArmed' => d.delivery.marker = d.cfgVersion
    BY <1>1, <1>6, <1>7 DEF GapsMarked, Follows
  <1> HIDE DEF n
  <1>12. GapsMarked'
    BY <1>2, <1>3, <1>4, <1>9, <1>10, <1>11 DEF GapsMarked
  <1> QED BY <1>5, <1>12 DEF ArmsOnce

\* The record the engine's switch works on follows the stored one.
LEMMA WorkFollows ==
    ASSUME IInv, NEW h \in Slots, rec # NoRecord
    PROVE  /\ Fresh(h) \in Devices /\ Follows(rec, Fresh(h))
           /\ Fresh(h).reboot = rec.reboot /\ Fresh(h).wlans = rec.wlans
           /\ Fresh(h).cfgVersion = rec.cfgVersion
           /\ Work(h) \in Devices /\ Follows(rec, Work(h))
           /\ Work(h).reboot = rec.reboot /\ Work(h).wlans = rec.wlans
           /\ rec.delivery.marker = rec.cfgVersion
                 => Work(h).delivery.marker = rec.cfgVersion
           /\ Work(h).cfgVersion \in {rec.cfgVersion, next.version}
  <1>1. rec \in Devices /\ Fresh(h) \in Devices /\ Work(h) \in Devices
    BY RecGood, WorkGood DEF Good
  <1>2. /\ Fresh(h).cfgVersion = rec.cfgVersion /\ Fresh(h).delivery = rec.delivery
        /\ Fresh(h).reboot = rec.reboot /\ Fresh(h).wlans = rec.wlans
    BY <1>1 DEF Fresh, Absorb, Devices
  <1> DEFINE f == Fresh(h)
             t == Settle(f.delivery, Table(h), f.cfgVersion)
             s == [f EXCEPT !.delivery = t]
  <1>3. f.delivery \in DeliveryStates /\ f.cfgVersion \in Nat
    BY <1>1 DEF Devices
  <1>4. t.marker = f.delivery.marker \/ (t.marker = NoVersion /\ f.delivery.marker # f.cfgVersion)
    BY <1>3 DEF Settle, DeliveryStates
  <1> HIDE DEF t, f
  <1>5. /\ s.delivery = t /\ s.cfgVersion = f.cfgVersion
        /\ s.reboot = f.reboot /\ s.wlans = f.wlans
    BY <1>1 DEF Devices, f
  <1>6. Work(h) = s \/ Work(h) = [s EXCEPT !.cfgVersion = next.version]
    BY DEF Work, Prepared, t, f
  <1>7. /\ Work(h).delivery = t
        /\ Work(h).reboot = f.reboot /\ Work(h).wlans = f.wlans
        /\ Work(h).cfgVersion \in {f.cfgVersion, next.version}
    BY <1>1, <1>5, <1>6 DEF Devices, f
  <1> QED BY <1>1, <1>2, <1>4, <1>7 DEF Follows, f

\* What the branches do to cfgversion, marker and reboot flag.
LEMMA BranchFollows ==
    ASSUME NEW d \in Devices, NEW key, NEW table
    PROVE  /\ LET e == Rebooted(d)
              IN  Follows(d, e) /\ (e.reboot => d.reboot)
           /\ LET e == CmdConsumed(d)
              IN  Follows(d, e) /\ (e.reboot => d.reboot)
           /\ LET e == Demoted(d, next.epoch)
              IN  Follows(d, e) /\ (e.reboot => d.reboot)
           /\ LET e == [d EXCEPT !.delivery = Spent(@)]
              IN  Follows(d, e) /\ (e.reboot => d.reboot)
           /\ LET e == RotateKeys(d, key, next.version)
              IN  Follows(d, e) /\ (e.reboot => d.reboot)
           /\ LET e == Provisioned(d, next.version)
              IN  Follows(d, e) /\ (e.reboot => d.reboot)
           /\ LET e == [d EXCEPT !.cfgVersion = next.version]
              IN  Follows(d, e) /\ (e.reboot => d.reboot)
           /\ LET e == [d EXCEPT !.state = "adopted", !.disconnected = FALSE]
              IN  Follows(d, e) /\ (e.reboot => d.reboot)
           /\ LET e == [d EXCEPT !.disconnected = FALSE, !.delivery.misses = 0,
                                 !.cfgVersion = next.version]
              IN  Follows(d, e) /\ (e.reboot => d.reboot)
  <1>0. d.delivery \in DeliveryStates
    BY DEF Devices
  <1>1. LET e == Rebooted(d) IN Follows(d, e) /\ (e.reboot => d.reboot)
    BY <1>0 DEF Rebooted, Devices, DeliveryStates, Follows
  <1>2. LET e == CmdConsumed(d) IN Follows(d, e) /\ (e.reboot => d.reboot)
    BY DEF CmdConsumed, Devices, Follows
  <1>3. LET e == Demoted(d, next.epoch) IN Follows(d, e) /\ (e.reboot => d.reboot)
    BY DEF Demoted, Devices, Follows, NoDelivery
  <1>4. LET e == [d EXCEPT !.delivery = Spent(@)]
        IN  Follows(d, e) /\ (e.reboot => d.reboot)
    <2>1. Spent(d.delivery).marker = d.delivery.marker
      BY <1>0 DEF Spent, DeliveryStates
    <2> QED BY <2>1 DEF Devices, Follows
  <1>5. LET e == RotateKeys(d, key, next.version)
        IN  Follows(d, e) /\ (e.reboot => d.reboot)
    BY DEF RotateKeys, Devices, Follows
  <1>6. LET e == Provisioned(d, next.version)
        IN  Follows(d, e) /\ (e.reboot => d.reboot)
    <2> DEFINE cfg == IF d.cfgVersion = NoVersion THEN next.version ELSE d.cfgVersion
               o == Offer(d.delivery, d.wlans, cfg)
               e == Provisioned(d, next.version)
    <2>1. e = [d EXCEPT !.cfgVersion = cfg, !.state = "adopting", !.delivery = o,
                        !.blockedSent = d.blocked, !.disconnected = FALSE]
      BY DEF Provisioned
    <2>2. o.marker = d.delivery.marker
      BY <1>0 DEF Offer, DeliveryStates
    <2> HIDE DEF cfg, o, e
    <2>3. e.cfgVersion = cfg /\ e.delivery = o /\ e.reboot = d.reboot
      BY <2>1 DEF Devices
    <2> QED BY <2>2, <2>3 DEF Follows, cfg, e
  <1>7. LET e == [d EXCEPT !.cfgVersion = next.version]
        IN  Follows(d, e) /\ (e.reboot => d.reboot)
    BY DEF Devices, Follows
  <1>8. LET e == [d EXCEPT !.state = "adopted", !.disconnected = FALSE]
        IN  Follows(d, e) /\ (e.reboot => d.reboot)
    BY DEF Devices, Follows
  <1>9. LET e == [d EXCEPT !.disconnected = FALSE, !.delivery.misses = 0,
                           !.cfgVersion = next.version]
        IN  Follows(d, e) /\ (e.reboot => d.reboot)
    BY DEF Devices, Follows
  <1> QED BY <1>1, <1>2, <1>3, <1>4, <1>5, <1>6, <1>7, <1>8, <1>9

\* Following is transitive.
LEMMA FollowsOn ==
    ASSUME NEW c, NEW d, NEW e, Follows(c, d), Follows(d, e)
    PROVE  Follows(c, e)
  BY DEF Follows

\* The cycles before the engine's switch.
LEMMA LaneFollows ==
    ASSUME WInv, GapStep, NEW h \in Slots,
           \/ GentleNoop(h) \/ EmitSetdefault(h) \/ EmitReboot(h) \/ EmitCmd(h)
           \/ PlainUnassigned(h) \/ PlainResend(h) \/ PlainProvision(h)
    PROVE  GapsMarked' /\ ArmsOnce
  <1> DEFINE f == Fresh(h)
  <1>0. IInv
    BY DEF WInv
  <1>1. rec # NoRecord
    BY DEF GentleNoop, EmitSetdefault, EmitReboot, EmitCmd, PlainUnassigned,
           PlainResend, PlainProvision, CommandTurn, PlainDeciding, Admitted,
           Encrypted, Plain, Running
  <1>2. f \in Devices /\ Follows(rec, f) /\ f.reboot = rec.reboot /\ Good(f)
        /\ SameKeys(rec, f)
    BY <1>0, <1>1, WorkFollows, WorkGood
  <1>3. next.epoch \in Nat /\ next.version \in Nat
    BY <1>0, <1>1, RecGood
  <1>4. ASSUME NEW d \in Devices, NEW reply, CommitCycle(h, d, reply),
               Follows(f, d), d.reboot => f.reboot
        PROVE  GapsMarked' /\ ArmsOnce
    <2>1. Follows(rec, d) /\ (d.reboot => rec.reboot)
      BY <1>2, <1>4, FollowsOn
    <2> QED BY <1>1, <1>4, <2>1, FollowsCommit
  <1>5. CASE GentleNoop(h) \/ PlainUnassigned(h) \/ PlainResend(h)
    <2>1. PICK reply : CommitCycle(h, f, reply)
      BY <1>5 DEF GentleNoop, PlainUnassigned, PlainResend
    <2> HIDE DEF f
    <2> QED BY <1>1, <1>2, <2>1, FollowsCommit
  <1>6. CASE EmitSetdefault(h)
    <2> DEFINE d == Demoted(f, next.epoch)
    <2>1. CommitCycle(h, d, Bare("setdefault"))
      BY <1>6 DEF EmitSetdefault
    <2> HIDE DEF f
    <2>2. d \in Devices /\ Follows(f, d) /\ (d.reboot => f.reboot)
      BY <1>2, <1>3, DemotedGood, BranchFollows DEF Good
    <2> HIDE DEF d
    <2> QED BY <1>4, <2>1, <2>2
  <1>7. CASE EmitReboot(h)
    <2> DEFINE d == Rebooted(f)
    <2>1. CommitCycle(h, d, Bare("reboot"))
      BY <1>7 DEF EmitReboot
    <2> HIDE DEF f
    <2>2. d \in Devices /\ Follows(f, d) /\ (d.reboot => f.reboot)
      BY <1>2, CommandGood, BranchFollows DEF Good
    <2> HIDE DEF d
    <2> QED BY <1>4, <2>1, <2>2
  <1>8. CASE EmitCmd(h)
    <2> DEFINE d == CmdConsumed(f)
    <2>1. CommitCycle(h, d, Bare("cmd"))
      BY <1>8 DEF EmitCmd
    <2> HIDE DEF f
    <2>2. d \in Devices /\ Follows(f, d) /\ (d.reboot => f.reboot)
      BY <1>2, CommandGood, BranchFollows DEF Good
    <2> HIDE DEF d
    <2> QED BY <1>4, <2>1, <2>2
  <1>9. CASE PlainProvision(h)
    <2> DEFINE d == Provisioned(f, next.version)
    <2>1. CommitCycle(h, d, FullProvision(d)) /\ OnAssigned(rec, Used(h))
      BY <1>9 DEF PlainProvision
    <2> HIDE DEF f
    <2>2. OnAssigned(f, Used(h))
      BY <1>2, <2>1 DEF OnAssigned, SameKeys
    <2>3. Assigned(f, Used(h))
      BY <1>2, <2>2, OnAssignedKeys
    <2>4. d \in Devices /\ Follows(f, d) /\ (d.reboot => f.reboot)
      BY <1>2, <1>3, <2>3, ProvisionedAssigned, BranchFollows DEF Assigned
    <2> HIDE DEF d
    <2> QED BY <1>4, <2>1, <2>4
  <1> QED BY <1>5, <1>6, <1>7, <1>8, <1>9

\* The watchdog's arming: the device echoes the record's own cfgversion, and the
\* marker does not stand for it.
LEMMA ArmStep ==
    ASSUME WInv, GapStep, NEW h \in Slots, NEW due \in BOOLEAN,
           ArmMaterialization(h, due)
    PROVE  GapsMarked' /\ ArmsOnce
  <1> DEFINE w == Work(h)
             d == [MaterializationArmed(w) EXCEPT !.disconnected = FALSE]
  <1>0. IInv /\ TypeOK /\ GapsMarked
    BY DEF WInv, IInv
  <1>1. rec # NoRecord /\ OnAssigned(rec, Used(h)) /\ CommitCycle(h, d, Bare("noop"))
    BY DEF ArmMaterialization, Baselined, Settled, OnKey, Released, Deciding, Admitted,
           Encrypted, Running
  <1>2. w \in Devices /\ w.delivery \in DeliveryStates
    BY <1>0, <1>1, WorkFollows DEF Devices
  <1>3. w.cfgVersion = rec.cfgVersion
    <2> DEFINE s == [Fresh(h) EXCEPT !.delivery = Settle(Fresh(h).delivery, Table(h),
                                                         Fresh(h).cfgVersion)]
    <2>1. Fresh(h) \in Devices /\ Fresh(h).cfgVersion = rec.cfgVersion
      BY <1>0, <1>1, WorkFollows
    <2>2. s.cfgVersion = rec.cfgVersion
      BY <2>1 DEF Devices
    <2>3. Work(h) = IF MintsVersion(s) THEN [s EXCEPT !.cfgVersion = next.version] ELSE s
      BY DEF Work, Prepared
    <2>4. ~WlanDrift(w) /\ ~BlockedDrift(w)
      BY DEF ArmMaterialization, Baselined, Settled, ContentDrift
    <2> DEFINE m == [s EXCEPT !.cfgVersion = next.version]
    <2>5. /\ m.delivery = s.delivery /\ m.wlans = s.wlans
          /\ m.blocked = s.blocked /\ m.blockedSent = s.blockedSent
      BY <2>1 DEF Devices
    <2>6. WlanDrift(m) = WlanDrift(s) /\ BlockedDrift(m) = BlockedDrift(s)
      <3> HIDE DEF m, s
      <3> QED BY <2>5 DEF WlanDrift, BlockedDrift
    <2> HIDE DEF s, m
    <2>7. CASE MintsVersion(s)
      <3>1. w = m
        BY <2>3, <2>7 DEF m
      <3>2. ~WlanDrift(s) /\ ~BlockedDrift(s)
        BY <2>4, <2>6, <3>1
      <3> QED BY <2>7, <3>2 DEF MintsVersion
    <2>8. CASE ~MintsVersion(s)
      BY <2>2, <2>3, <2>8
    <2> QED BY <2>7, <2>8
  <1>4. w.delivery.marker # w.cfgVersion
    BY DEF ArmMaterialization, MaterializationDue, VapGap
  <1>5. rec.delivery.marker # rec.cfgVersion
    BY <1>0, <1>1, <1>3, <1>4, WorkFollows
  <1>6. rec.cfgVersion \notin gapArmed
    BY <1>0, <1>1, <1>5 DEF GapsMarked
  <1>7. d.cfgVersion = rec.cfgVersion /\ d.delivery.marker = rec.cfgVersion
    <2> DEFINE t == [w.delivery EXCEPT !.misses = 0, !.vapMisses = 0,
                                       !.marker = w.cfgVersion]
    <2>1. d = [w EXCEPT !.reboot = TRUE, !.delivery = t, !.disconnected = FALSE]
      BY <1>2 DEF MaterializationArmed, Devices
    <2>2. t.marker = w.cfgVersion
      BY <1>2 DEF DeliveryStates
    <2> HIDE DEF t, d, w
    <2>3. d.cfgVersion = w.cfgVersion /\ d.delivery = t
      BY <1>2, <2>1 DEF Devices
    <2> QED BY <1>3, <2>2, <2>3
  <1>8. d \in Devices
    <2>1. Good(w) /\ SameKeys(rec, w)
      BY <1>0, <1>1, WorkGood
    <2>2. OnAssigned(w, Used(h))
      BY <1>1, <2>1 DEF OnAssigned, SameKeys
    <2>3. Assigned(w, Used(h)) /\ next.version \in Nat
      BY <1>0, <1>1, <2>1, <2>2, OnAssignedKeys, RecGood
    <2> HIDE DEF w
    <2>4. Assigned(d, Used(h))
      BY <2>3, BranchRecords
    <2> QED BY <2>4 DEF Assigned
  <1> HIDE DEF d, w
  <1>9. rec'.cfgVersion = rec.cfgVersion /\ rec'.delivery.marker = rec.cfgVersion
    BY <1>1, <1>7, <1>8 DEF CommitCycle, Confirm, Devices
  <1>10. /\ disk' = disk /\ next.version \in Nat /\ rec.cfgVersion \in Nat
         /\ rec.cfgVersion < next.version
    BY <1>0, <1>1, VersionTypes DEF CommitCycle, GapsMarked
  <1>11. next'.version = next.version
    <2>1. d.cfgVersion # next.version
      BY <1>7, <1>10
    <2> QED BY <1>0, <1>1, <2>1 DEF CommitCycle, TypeOK
  <1>12. gapArmed' \in SUBSET (gapArmed \cup {rec.cfgVersion})
    BY DEF GapStep
  <1>13. \A v \in gapArmed' : v \in Nat /\ v < next.version
    BY <1>0, <1>10, <1>12 DEF GapsMarked
  <1>14. GapsMarked'
    BY <1>0, <1>9, <1>10, <1>11, <1>13 DEF GapsMarked
  <1> QED BY <1>6, <1>14 DEF ArmsOnce

\* The connected noop clears the marker only when every VAP was seen up.
LEMMA ConnectedStep ==
    ASSUME WInv, GapStep, NEW h \in Slots, NEW due \in BOOLEAN, ConnectedNoop(h, due)
    PROVE  GapsMarked' /\ ArmsOnce
  <1> DEFINE w == Work(h)
             d == Connected(w, Table(h))
             t == Watched(w, Table(h))
  <1>0. IInv
    BY DEF WInv
  <1>1. /\ rec # NoRecord /\ OnAssigned(rec, Used(h)) /\ Running(h)
        /\ CommitCycle(h, d, Bare("noop"))
    BY DEF ConnectedNoop, Baselined, Settled, OnKey, Released, Deciding, Admitted,
           Encrypted, Running
  <1>2. /\ w \in Devices /\ Follows(rec, w) /\ w.reboot = rec.reboot
        /\ w.wlans = rec.wlans /\ w.cfgVersion \in {rec.cfgVersion, next.version}
    BY <1>0, <1>1, WorkFollows
  <1>3. d \in Devices
    <2>1. Good(w) /\ SameKeys(rec, w)
      BY <1>0, <1>1, WorkGood
    <2>2. OnAssigned(w, Used(h))
      BY <1>1, <2>1 DEF OnAssigned, SameKeys
    <2>3. Assigned(w, Used(h))
      BY <2>1, <2>2, OnAssignedKeys
    <2> HIDE DEF w
    <2>4. Assigned(d, Used(h))
      BY <2>3, ConnectedAssigned
    <2> QED BY <2>4 DEF Assigned
  <1>4. \/ t.marker = w.delivery.marker
        \/ /\ NotRunningEvidence(w.delivery, Table(h)) = "run"
           /\ MissingVaps(w.wlans, Table(h)) = {}
    <2>1. w.delivery \in DeliveryStates
      BY <1>2 DEF Devices
    <2> HIDE DEF w
    <2> QED BY <2>1 DEF Watched, DeliveryStates
  <1>5. d.cfgVersion = w.cfgVersion /\ d.delivery = t /\ d.reboot = w.reboot
    <2> HIDE DEF w, t
    <2> QED BY <1>2 DEF Connected, Devices, t
  <1>6. ~Rises("reboot")
    <2> HIDE DEF d
    <2>1. rec'.reboot = d.reboot
      BY <1>1, <1>3 DEF CommitCycle, Confirm, Devices
    <2> QED BY <1>2, <1>5, <2>1 DEF Rises
  <1>7. CASE t.marker = w.delivery.marker
    <2>1. Follows(w, d)
      <3> HIDE DEF w, d, t
      <3> QED BY <1>5, <1>7 DEF Follows
    <2>2. Follows(rec, d) /\ (d.reboot => rec.reboot)
      BY <1>2, <1>5, <2>1, FollowsOn
    <2> HIDE DEF d
    <2> QED BY <1>1, <1>3, <2>2, FollowsCommit
  <1>8. CASE /\ NotRunningEvidence(w.delivery, Table(h)) = "run"
             /\ MissingVaps(w.wlans, Table(h)) = {}
    <2>1. ShowsAllUp(h)
      BY <1>1, <1>2, <1>8 DEF ShowsAllUp
    <2>2. slot'[h].phase = "saving"
      <3>1. slot'[h] = Answered("saving", Bare("noop"))
        BY <1>0, <1>1 DEF CommitCycle, IInv, TypeOK
      <3> QED BY <3>1 DEF Answered, IdleSlot
    <2>3. gapArmed' = {}
      BY <1>6, <2>1, <2>2 DEF GapStep
    <2>4. Follows(rec, d) \/ (d.cfgVersion = rec.cfgVersion /\ gapArmed' = {})
      BY <1>2, <1>5, <2>3 DEF Follows
    <2>5. d.reboot => rec.reboot
      BY <1>2, <1>5
    <2> HIDE DEF d
    <2> QED BY <1>1, <1>3, <2>4, <2>5, FollowsCommit
  <1> QED BY <1>4, <1>7, <1>8

\* The other branches of the engine's switch.
LEMMA SwitchFollows ==
    ASSUME WInv, GapStep, NEW h \in Slots, NEW due \in BOOLEAN, Cycle(h, due)
    PROVE  GapsMarked' /\ ArmsOnce
  <1> DEFINE w == Work(h)
  <1>0. IInv
    BY DEF WInv
  <1>1. rec # NoRecord /\ ~DefaultKeyRejected(rec, Used(h))
    BY DEF Cycle, HoldPending, Rotate, RePush, Provision, SelfHeal, ReconnectPush,
           ReprovisionMiss, ArmMaterialization, ConnectedNoop, Baselined, Settled,
           OnKey, Released, Deciding, Admitted, Encrypted, Running
  <1>2. /\ w \in Devices /\ Good(w) /\ SameKeys(rec, w) /\ w.state = rec.state
        /\ Follows(rec, w) /\ w.reboot = rec.reboot
    BY <1>0, <1>1, WorkFollows, WorkGood
  <1>3. next.version \in Nat /\ next.key \in Keys
    BY <1>0, <1>1, RecGood
  <1>4. ASSUME OnAssigned(rec, Used(h))
        PROVE  Assigned(w, Used(h))
    <2>1. OnAssigned(w, Used(h))
      BY <1>2, <1>4 DEF OnAssigned, SameKeys
    <2> QED BY <1>2, <2>1, OnAssignedKeys
  <1>5. ASSUME NEW d \in Devices, NEW reply, CommitCycle(h, d, reply),
               Follows(w, d), d.reboot => w.reboot
        PROVE  GapsMarked' /\ ArmsOnce
    <2>1. Follows(rec, d) /\ (d.reboot => rec.reboot)
      BY <1>2, <1>5, FollowsOn
    <2> QED BY <1>1, <1>5, <2>1, FollowsCommit
  <1>6. CASE HoldPending(h, due)
    <2> DEFINE d == [w EXCEPT !.delivery = Spent(@)]
    <2>1. CommitCycle(h, d, Bare("noop"))
      BY <1>6 DEF HoldPending
    <2> HIDE DEF w
    <2>2. Follows(w, d) /\ (d.reboot => w.reboot)
      BY <1>2, BranchFollows
    <2>3. d \in Devices
      <3>1. w.delivery \in DeliveryStates
        BY <1>2 DEF Devices
      <3>2. Spent(w.delivery) \in DeliveryStates
        BY <3>1, CountersType
      <3> QED BY <1>2, <3>2 DEF Devices
    <2> HIDE DEF d
    <2> QED BY <1>5, <2>1, <2>2, <2>3
  <1>7. CASE Rotate(h, due)
    <2> DEFINE d == RotateKeys(w, next.key, next.version)
    <2>1. Used(h) = DefaultKey /\ CommitCycle(h, d, AdoptionPush(d, Used(h)))
      BY <1>7 DEF Rotate
    <2>2. ~DefaultKeyRejected(w, DefaultKey)
      BY <1>1, <1>2, <2>1 DEF DefaultKeyRejected, SameKeys
    <2> HIDE DEF w
    <2>3. d \in Devices /\ Follows(w, d) /\ (d.reboot => w.reboot)
      BY <1>2, <1>3, <2>2, RotateGood, BranchFollows DEF Good
    <2> HIDE DEF d
    <2> QED BY <1>5, <2>1, <2>3
  <1>8. CASE RePush(h, due)
    <2>1. CommitCycle(h, w, AdoptionPush(w, Used(h)))
      BY <1>8 DEF RePush
    <2> HIDE DEF w
    <2> QED BY <1>1, <1>2, <2>1, FollowsCommit
  <1>9. CASE Provision(h, due)
    <2> DEFINE d == Provisioned(w, next.version)
    <2>1. Assigned(w, Used(h)) /\ CommitCycle(h, d, FullProvision(d))
      BY <1>4, <1>9 DEF Provision, OnKey
    <2> HIDE DEF w
    <2>2. d \in Devices /\ Follows(w, d) /\ (d.reboot => w.reboot)
      BY <1>2, <1>3, <2>1, ProvisionedAssigned, BranchFollows DEF Assigned
    <2> HIDE DEF d
    <2> QED BY <1>5, <2>1, <2>2
  <1>10. CASE SelfHeal(h, due)
    <2> DEFINE d == [w EXCEPT !.cfgVersion = next.version]
    <2>1. Assigned(w, Used(h)) /\ CommitCycle(h, d, Bare("noop"))
      BY <1>4, <1>10 DEF SelfHeal, Settled, OnKey
    <2> HIDE DEF w
    <2>2. d \in Devices /\ Follows(w, d) /\ (d.reboot => w.reboot)
      BY <1>2, <1>3, <2>1, BranchRecords, BranchFollows DEF Assigned
    <2> HIDE DEF d
    <2> QED BY <1>5, <2>1, <2>2
  <1>11. CASE ReconnectPush(h, due)
    <2> DEFINE d == [w EXCEPT !.state = "adopted", !.disconnected = FALSE]
    <2>1. Assigned(w, Used(h)) /\ CommitCycle(h, d, BlockedStaReconnect(w))
      BY <1>4, <1>11 DEF ReconnectPush, Baselined, Settled, OnKey
    <2> HIDE DEF w
    <2>2. d \in Devices /\ Follows(w, d) /\ (d.reboot => w.reboot)
      BY <1>2, <1>3, <2>1, BranchRecords, BranchFollows DEF Assigned
    <2> HIDE DEF d
    <2> QED BY <1>5, <2>1, <2>2
  <1>12. CASE ReprovisionMiss(h, due)
    <2> DEFINE d == [w EXCEPT !.disconnected = FALSE, !.delivery.misses = 0,
                              !.cfgVersion = next.version]
    <2>1. Assigned(w, Used(h)) /\ CommitCycle(h, d, Bare("noop"))
      BY <1>4, <1>12 DEF ReprovisionMiss, Baselined, Settled, OnKey
    <2> HIDE DEF w
    <2>2. d \in Devices /\ Follows(w, d) /\ (d.reboot => w.reboot)
      BY <1>2, <1>3, <2>1, BranchRecords, BranchFollows DEF Assigned
    <2> HIDE DEF d
    <2> QED BY <1>5, <2>1, <2>2
  <1>13. CASE ArmMaterialization(h, due)
    BY <1>13, ArmStep
  <1>14. CASE ConnectedNoop(h, due)
    BY <1>14, ConnectedStep
  <1> QED BY <1>6, <1>7, <1>8, <1>9, <1>10, <1>11, <1>12, <1>13, <1>14 DEF Cycle

\* A step that leaves the records and the cfgversions alone.
LEMMA QuietGaps ==
    ASSUME WInv, GapStep \/ gapArmed' = gapArmed, UNCHANGED <<rec, disk, next>>
    PROVE  GapsMarked' /\ ArmsOnce
  <1>1. ~Rises("reboot")
    BY DEF Rises
  <1>2. gapArmed' = {} \/ gapArmed' = gapArmed
    BY <1>1 DEF GapStep
  <1>3. GapsMarked
    BY DEF WInv
  <1> QED BY <1>1, <1>2, <1>3 DEF GapsMarked, ArmsOnce

\* The verbs arm reboots too, but the history is the watchdog's only.
LEMMA OperatorGaps ==
    ASSUME WInv, GapStep, Operator
    PROVE  GapsMarked' /\ ArmsOnce
  <1>0. TypeOK /\ GapsMarked /\ IInv
    BY DEF WInv, IInv
  <1>1. CASE NoteExpires
    BY <1>1, QuietGaps DEF NoteExpires
  <1>2. ASSUME NEW who, NEW op, NEW d, Edit(who, op, d),
               d # NoRecord =>
                  \/ d.cfgVersion = next.version
                  \/ d.cfgVersion = NoVersion /\ d.delivery.marker = NoVersion
                  \/ /\ rec # NoRecord
                     /\ d.cfgVersion = rec.cfgVersion
                     /\ d.delivery.marker = rec.delivery.marker,
               op = "Unblock" => d # NoRecord /\ d.reboot = rec.reboot
        PROVE  GapsMarked' /\ ArmsOnce
    <2> DEFINE n == IF d # NoRecord /\ d.cfgVersion = next.version
                    THEN next.version + 1 ELSE next.version
    <2>1. rec' = d /\ disk' = disk /\ next'.version = n
      BY <1>0, <1>2 DEF Edit, TypeOK
    <2>2. ~(Rises("reboot") /\ spent' = spent)
      <3>1. CASE op = "Unblock"
        BY <1>2, <2>1, <3>1 DEF Rises
      <3>2. CASE op # "Unblock"
        BY <1>0, <1>2, <3>2 DEF Edit, TypeOK
      <3> QED BY <3>1, <3>2
    <2>3. gapArmed' = {} \/ gapArmed' = gapArmed
      BY <2>2, GapsShrink
    <2>4. /\ next.version \in Nat /\ next.version > 0
          /\ rec # NoRecord => rec.cfgVersion \in Nat /\ rec.cfgVersion < next.version
          /\ disk.rec # NoRecord => disk.rec.cfgVersion \in Nat
                                    /\ disk.rec.cfgVersion < next.version
      BY <1>0, VersionTypes DEF GapsMarked
    <2>5. /\ next.version <= n /\ n \in Nat
          /\ d # NoRecord => d.cfgVersion < n
          /\ disk.rec # NoRecord => disk.rec.cfgVersion < n
      BY <1>2, <2>4 DEF NoVersion
    <2>6. \A v \in gapArmed' : v \in Nat /\ v < n
      BY <1>0, <2>3, <2>4, <2>5 DEF GapsMarked
    <2>7. d # NoRecord /\ d.cfgVersion \in gapArmed' => d.delivery.marker = d.cfgVersion
      BY <1>0, <1>2, <2>3, <2>4 DEF GapsMarked
    <2> HIDE DEF n
    <2>8. GapsMarked'
      BY <2>1, <2>5, <2>6, <2>7 DEF GapsMarked
    <2> QED BY <2>2, <2>8 DEF ArmsOnce
  <1>3. rec # NoRecord => rec \in Devices
    BY <1>0 DEF TypeOK
  <1>4. CASE CreateDevice \/ AdoptPending
    <2>1. PICK op \in {"Create", "Adopt"} : Edit("operator", op, SeededDevice(next.epoch))
      BY <1>4 DEF CreateDevice, AdoptPending
    <2>2. /\ SeededDevice(next.epoch).cfgVersion = NoVersion
          /\ SeededDevice(next.epoch).delivery.marker = NoVersion
      BY DEF SeededDevice, NoDelivery
    <2> QED BY <1>2, <2>1, <2>2
  <1>5. CASE DeleteDevice
    BY <1>2, <1>5 DEF DeleteDevice
  <1>6. CASE PatchDevice
    <2> DEFINE d == [rec EXCEPT !.intent = @ + 1, !.cfgVersion = next.version]
    <2>1. Edit("operator", "Patch", d) /\ rec # NoRecord
      BY <1>6 DEF PatchDevice
    <2>2. d.cfgVersion = next.version
      BY <1>3, <2>1 DEF Devices
    <2> HIDE DEF d
    <2> QED BY <1>2, <2>1, <2>2
  <1>7. ASSUME NEW who, NEW op, NEW d, Edit(who, op, d), rec # NoRecord,
               d # NoRecord, d.cfgVersion = rec.cfgVersion, d.delivery = rec.delivery,
               op = "Unblock" => d.reboot = rec.reboot
        PROVE  GapsMarked' /\ ArmsOnce
    BY <1>2, <1>7
  <1>8. ASSUME NEW env \in Envelopes, PutDeviceWireless(env)
        PROVE  GapsMarked' /\ ArmsOnce
    <2> DEFINE d == [rec EXCEPT !.wlans = env]
    <2>1. Edit("operator", "Wlans", d) /\ rec # NoRecord
      BY <1>8 DEF PutDeviceWireless
    <2>2. d # NoRecord /\ d.cfgVersion = rec.cfgVersion /\ d.delivery = rec.delivery
      BY <1>3, <2>1, RecordAssumption DEF Devices
    <2> HIDE DEF d
    <2> QED BY <1>7, <2>1, <2>2
  <1>9. ASSUME NEW c \in Clients, BlockClient(c)
        PROVE  GapsMarked' /\ ArmsOnce
    <2> DEFINE d == [rec EXCEPT !.blocked = @ \cup {c}]
    <2>1. Edit("operator", "Block", d) /\ rec # NoRecord
      BY <1>9 DEF BlockClient, AddBlockedClient
    <2>2. d # NoRecord /\ d.cfgVersion = rec.cfgVersion /\ d.delivery = rec.delivery
      BY <1>3, <2>1, RecordAssumption DEF Devices
    <2> HIDE DEF d
    <2> QED BY <1>7, <2>1, <2>2
  <1>10. ASSUME NEW c \in Clients, UnblockClient(c)
        PROVE  GapsMarked' /\ ArmsOnce
    <2> DEFINE d == [rec EXCEPT !.blocked = @ \ {c}]
    <2>1. Edit("operator", "Unblock", d) /\ rec # NoRecord
      BY <1>10 DEF UnblockClient, RemoveBlockedClient
    <2>2. /\ d # NoRecord /\ d.cfgVersion = rec.cfgVersion
          /\ d.delivery = rec.delivery /\ d.reboot = rec.reboot
      BY <1>3, <2>1, RecordAssumption DEF Devices
    <2> HIDE DEF d
    <2> QED BY <1>7, <2>1, <2>2
  <1>11. CASE RebootDevice
    <2> DEFINE d == [rec EXCEPT !.reboot = TRUE]
    <2>1. Edit("operator", "Reboot", d) /\ rec # NoRecord
      BY <1>11 DEF RebootDevice
    <2>2. d # NoRecord /\ d.cfgVersion = rec.cfgVersion /\ d.delivery = rec.delivery
      BY <1>3, <2>1, RecordAssumption DEF Devices
    <2> HIDE DEF d
    <2> QED BY <1>7, <2>1, <2>2
  <1>12. CASE FactoryResetDevice
    <2> DEFINE d == [rec EXCEPT !.setdefault = TRUE]
    <2>1. Edit("operator", "FactoryReset", d) /\ rec # NoRecord
      BY <1>12 DEF FactoryResetDevice
    <2>2. d # NoRecord /\ d.cfgVersion = rec.cfgVersion /\ d.delivery = rec.delivery
      BY <1>3, <2>1, RecordAssumption DEF Devices
    <2> HIDE DEF d
    <2> QED BY <1>7, <2>1, <2>2
  <1>13. CASE EnqueueDeviceCmd
    <2> DEFINE d == [rec EXCEPT !.cmd = TRUE]
    <2>1. Edit("operator", "Cmd", d) /\ rec # NoRecord
      BY <1>13 DEF EnqueueDeviceCmd, ArmCmdTask
    <2>2. d # NoRecord /\ d.cfgVersion = rec.cfgVersion /\ d.delivery = rec.delivery
      BY <1>3, <2>1, RecordAssumption DEF Devices
    <2> HIDE DEF d
    <2> QED BY <1>7, <2>1, <2>2
  <1>14. CASE SweepLost
    <2> DEFINE d == [rec EXCEPT !.state = "lost"]
    <2>1. Edit("poller", "Sweep", d) /\ rec # NoRecord
      BY <1>14 DEF SweepLost
    <2>2. d # NoRecord /\ d.cfgVersion = rec.cfgVersion /\ d.delivery = rec.delivery
      BY <1>3, <2>1, RecordAssumption DEF Devices, States
    <2> HIDE DEF d
    <2> QED BY <1>7, <2>1, <2>2
  <1> QED BY <1>1, <1>4, <1>5, <1>6, <1>8, <1>9, <1>10, <1>11, <1>12, <1>13, <1>14
          DEF Operator

\* Every step keeps the marker and arms at most once per cfgversion.
LEMMA NextGaps == WInv /\ [HNext]_hvars => WInv' /\ [ArmsOnce]_hvars
  <1> SUFFICES ASSUME WInv, [HNext]_hvars PROVE WInv' /\ ArmsOnce
    OBVIOUS
  <1>1. [Next]_vars
    BY DEF HNext, hvars
  <1>2. IInv' /\ TypeOK /\ GapsMarked
    BY <1>1, NextIInv DEF WInv, IInv
  <1> SUFFICES GapsMarked' /\ ArmsOnce
    BY <1>2 DEF WInv
  <1>3. CASE UNCHANGED hvars
    BY <1>3, QuietGaps DEF hvars, vars
  <1>4. CASE HNext
    <2>1. GapStep /\ Next
      BY <1>4 DEF HNext, GapStep
    <2>2. CASE \/ \E h \in Slots, lane \in Lanes : OddInform(h, lane)
               \/ \E h \in Slots : Inform(h) \/ RequestLost(h) \/ Deliver(h)
               \/ \E h \in Slots, due \in BOOLEAN : EngineFails(h, due)
               \/ \E h \in Slots : SaveInformFails(h)
               \/ \E who \in {"operator", "poller"} : SaveOtherFails(who)
               \/ GiveUp \/ PhysicalReset
      <3>1. UNCHANGED <<rec, disk, next>>
        BY <2>2, OddSends DEF Inform, Send, RequestLost, Deliver, EngineFails,
           SaveInformFails, SaveOtherFails, GiveUp, PhysicalReset
      <3> QED BY <2>1, <3>1, QuietGaps
    <2>3. ASSUME NEW h \in Slots, Handle(h)
          PROVE  GapsMarked' /\ ArmsOnce
      <3>1. CASE \/ DecodeRegistered(h) \/ DecodeFails(h) \/ DecodeUnknown(h)
                 \/ Vanished(h) \/ RejectDefaultKey(h)
        <4>1. UNCHANGED <<rec, disk, next>>
          BY <3>1 DEF DecodeRegistered, DecodeFails, DecodeUnknown, Vanished,
                      RejectDefaultKey, AnswerNow
        <4> QED BY <2>1, <4>1, QuietGaps
      <3> QED BY <2>1, <2>3, <3>1, LaneFollows DEF Handle
    <2>4. CASE \E h \in Slots, due \in BOOLEAN : Cycle(h, due)
      BY <2>1, <2>4, SwitchFollows
    <2>5. CASE \/ \E h \in Slots : SaveInform(h)
               \/ \E who \in {"operator", "poller"} : SaveOther(who)
      <3>1. rec' = rec /\ disk'.rec = rec /\ next' = next
        BY <2>5 DEF SaveInform, SaveOther, Snapshot
      <3>2. ~Rises("reboot")
        BY <3>1 DEF Rises
      <3>3. gapArmed' = {} \/ gapArmed' = gapArmed
        BY <2>1, <3>2, GapsShrink
      <3> QED BY <1>2, <3>1, <3>2, <3>3 DEF GapsMarked, ArmsOnce
    <2>6. CASE Restart
      <3>1. rec' = disk.rec /\ disk' = disk /\ next' = next
        BY <2>6 DEF Restart
      <3>2. spent'.faults # spent.faults
        BY <1>2, <2>6 DEF Restart, TypeOK
      <3>3. gapArmed' = {} /\ ~Rises("reboot")
        BY <2>1, <3>2 DEF GapStep, Reloaded, Rises
      <3> QED BY <1>2, <3>1, <3>3 DEF GapsMarked, ArmsOnce
    <2>7. CASE Operator
      BY <2>1, <2>7, OperatorGaps
    <2> QED BY <2>1, <2>2, <2>3, <2>4, <2>5, <2>6, <2>7 DEF Next
  <1> QED BY <1>3, <1>4

\* Between restarts the materialization watchdog arms at most one reboot per
\* cfgversion until the missing VAP was seen running, whatever envelopes the
\* operator saves and whatever the device reports (the marker of equalityBranch).
THEOREM WatchdogOncePerVersionHolds == HSpec => WatchdogOncePerVersion
  <1>1. HInit => WInv
    <2> SUFFICES ASSUME HInit PROVE WInv
      OBVIOUS
    <2>1. IInv
      BY InitIInv DEF HInit
    <2>2. gapArmed = {} /\ rec = NoRecord /\ disk.rec = NoRecord
      BY DEF HInit, Init, Snapshot
    <2> QED BY <2>1, <2>2 DEF WInv, GapsMarked
  <1>2. WInv /\ [HNext]_hvars => WInv' /\ [ArmsOnce]_hvars
    BY NextGaps
  <1>3. [][ArmsOnce]_hvars <=> WatchdogOncePerVersion
    BY DEF ArmsOnce, WatchdogOncePerVersion
  <1> QED BY <1>1, <1>2, <1>3, PTL DEF HSpec

-----------------------------------------------------------------------------
(* What a key and a cfgversion tell about the device                        *)

\* A request that the engine has not answered, and an answer under way.
Active(g) == slot[g].phase \in {"sent", "decoded"}
Answering(h) == slot[h].phase \in {"saving", "reply"}

\* The records that may still be there when the answer arrives: a restart takes
\* an answer that is not saved with it.
Bases(h) == IF slot[h].phase = "reply" THEN Records ELSE {rec} \ {NoRecord}

\* The adoption push that the device waits for.
Pushed(h) == dev.conn = h /\ Answering(h) /\ slot[h].reply.kind = "push"

\* The device has used the key of this assignment.
Proved(d) ==
    \/ Delivering(d)
    \/ \E g \in Slots : Active(g) /\ slot[g].body.key = d.xAuthkey

\* The device waits for an answer to what it sent, and what it sent is of itself.
Waiting ==
    dev.conn # NoConn =>
        /\ slot[dev.conn].phase # "idle"
        /\ Active(dev.conn) =>
              /\ slot[dev.conn].body.key = dev.key
              /\ slot[dev.conn].body.cfg \in {dev.cfg, NoVersion}

\* Every key in use is older than the next one; a device with the factory key
\* belongs to no incarnation.
KeysDrawn ==
    /\ dev.key < next.key
    /\ \A h \in Slots : slot[h].body.key < next.key /\ slot[h].reply.key < next.key
    /\ \A d \in Records : d.epoch > 0
    /\ dev.key = DefaultKey => dev.epoch = 0

\* A device that has used a record's assigned key has that key, or was reset.
OneKey ==
    \A d \in Records :
        d.xAuthkey # NoKey /\ Proved(d) => dev.key \in {DefaultKey, d.xAuthkey}

\* The device that is sent a key has never had it.
Untaken ==
    \A h \in Slots : Pushed(h) =>
        /\ \A d \in Bases(h) :
              /\ d.xAuthkey # dev.key
              /\ slot[h].reply.key # NoKey \/ d.epoch = dev.epoch => ~Proved(d)
        /\ slot[h].reply.key # NoKey =>
              \A g \in Slots : Active(g) => slot[g].body.key # slot[h].reply.key

KInv == Waiting /\ KeysDrawn /\ OneKey /\ Untaken

\* The blocked set that the device was sent last.
SentSet(d) == IF d.blockedSent = NoBaseline THEN {} ELSE d.blockedSent

\* Every cfgversion in use is older than the next one; an assignment has one.
VersionsDrawn ==
    /\ dev.cfg < next.version
    /\ \A h \in Slots : slot[h].reply.cfg < next.version
    /\ \A d \in Records : d.cfgVersion < next.version
    /\ \A d \in Records : d.xAuthkey # NoKey => d.cfgVersion # NoVersion

\* Only a record with a delivery is adopted.
AdoptedDelivers == \A d \in Records : d.state \in {"adopted", "lost"} => Delivering(d)

\* The content of a record, as an answer carries it.
Carrying(d, intent, blocked) == d.intent = intent /\ SentSet(d) = blocked

\* Memory and disk agree on the content of a cfgversion.
SameContent ==
    rec # NoRecord /\ disk.rec # NoRecord /\ rec.cfgVersion = disk.rec.cfgVersion
        => rec.cfgVersion = NoVersion \/ Carrying(rec, disk.rec.intent, SentSet(disk.rec))

\* So does an answer with content.
TellsContent(h) ==
    /\ slot[h].reply.kind = "provision" =>
          /\ slot[h].reply.cfg # NoVersion
          /\ \A d \in Records : d.cfgVersion = slot[h].reply.cfg =>
                Carrying(d, slot[h].reply.intent, slot[h].reply.blocked)
          /\ \A d \in Bases(h) : d.cfgVersion = slot[h].reply.cfg => Delivering(d)
    /\ slot[h].reply.kind = "reconnect" /\ dev.conn = h =>
          \A d \in Records : d.cfgVersion = dev.cfg /\ dev.cfg # NoVersion =>
                SentSet(d) = slot[h].reply.blocked

AnswerContent == \A h \in Slots : Answering(h) => TellsContent(h)

\* And so does the device, if it has the cfgversion of a record with a delivery.
Filled ==
    \A d \in Records :
        Delivering(d) /\ dev.epoch = d.epoch /\ dev.cfg = d.cfgVersion
            => Carrying(d, dev.intent, dev.blocked)

\* If the record has none yet, the device has its cfgversion since it has its key.
Unfilled ==
    \A d \in Records :
        ~Delivering(d) /\ dev.epoch = d.epoch /\ dev.cfg = d.cfgVersion /\ dev.key = d.xAuthkey
            => \A g \in Slots : Active(g) /\ slot[g].body.key = d.xAuthkey
                  => slot[g].body.cfg \in {d.cfgVersion, NoVersion}

CInv ==
    AdoptedDelivers /\ SameContent /\ AnswerContent /\ Filled /\ Unfilled

\* An encrypted inform that names the device's cfgversion.
Checked(h) == slot[h].lane = "encrypted" /\ slot[h].body.cfg # NoVersion

\* Content leaves only in answer to such informs.
OnReport ==
    \A h \in Slots :
        /\ slot[h].phase = "decoded"
        /\ slot'[h].phase = "saving"
        /\ slot'[h].reply.kind \in {"provision", "reconnect"}
        => Checked(h)

\* Factory-key informs that the device no longer waits for.
Stragglers == {g \in Slots : Active(g) /\ g # dev.conn /\ slot[g].body.key = DefaultKey}
AtMostOne(S) == \A g, h \in S : g = h

\* While the device waits for an answer at most one of them is under way.
FewStragglers == dev.conn # NoConn => AtMostOne(Stragglers)

\* Key k of this record is good for one more rotation, or none is to come.
Kept(d, k) ==
    /\ d.authkeys # << >>
    /\ \/ k = d.authkeys[Len(d.authkeys)]
       \/ Len(d.authkeys) = 2 /\ k = d.authkeys[1] /\ Stragglers = {}

\* Such are the key that the device has and the key it is sent.
KeysKept ==
    /\ dev.epoch < next.epoch
    /\ \A h \in Slots : slot[h].reply.epoch < next.epoch
    /\ dev.key # DefaultKey =>
          /\ AtMostOne(Stragglers)
          /\ \A d \in Records : dev.epoch = d.epoch => Kept(d, dev.key)
    /\ \A h \in Slots : Pushed(h) /\ slot[h].reply.key # NoKey =>
          \A d \in Bases(h) : d.epoch = slot[h].reply.epoch => Kept(d, slot[h].reply.key)

\* A device without a cfgversion has no assigned key, and neither has its inform.
Unnumbered ==
    /\ \A d \in Records : dev.cfg = NoVersion => dev.key # d.xAuthkey
    /\ \A d \in Records, g \in Slots :
          Active(g) /\ slot[g].body.cfg = NoVersion => slot[g].body.key # d.xAuthkey
    /\ \A h \in Slots : Answering(h) /\ slot[h].reply.cfg = NoVersion =>
          /\ slot[h].reply.kind # "provision"
          /\ slot[h].reply.kind = "push" => slot[h].reply.key = NoKey
    /\ \A h \in Slots : slot[h].lane = "encrypted"

-----------------------------------------------------------------------------
(* What one step does to keys and content                                   *)

\* What the types and the key discipline say of keys, cfgversions and epochs.
Numbered ==
    /\ dev.key \in Nat /\ dev.cfg \in Nat /\ dev.epoch \in Nat
    /\ dev.conn \in Slots \cup {NoConn}
    /\ next.key \in Nat \ {0} /\ next.version \in Nat \ {0} /\ next.epoch \in Nat \ {0}
    /\ \A h \in Slots :
          /\ slot[h].body.key \in Nat /\ slot[h].body.cfg \in Nat
          /\ slot[h].reply.key \in Int \ {DefaultKey}
          /\ slot[h].reply.cfg \in Nat /\ slot[h].reply.epoch \in Nat
    /\ \A d \in Records :
          /\ d.xAuthkey \in Int \ {DefaultKey} /\ d.xAuthkey < next.key
          /\ d.cfgVersion \in Nat
          /\ d.epoch \in Nat /\ d.epoch < next.epoch
          /\ d.authkeys \in Seq(Keys) /\ Len(d.authkeys) <= 2
          /\ Delivering(d) => d.xAuthkey # NoKey
          /\ d.xAuthkey # NoKey =>
                d.authkeys # << >> /\ d.xAuthkey = d.authkeys[Len(d.authkeys)]

\* The answers that change the device's key, cfgversion or content.
Telling == {"push", "provision", "reconnect"}

\* Handler g has no request left to answer and tells the device nothing new.
Rests(g) ==
    /\ ~Active(g)'
    /\ Answering(g)' => slot'[g].reply.kind \notin Telling
    /\ slot'[g].body.key \in {slot[g].body.key, DefaultKey}
    /\ slot'[g].reply.key \in {slot[g].reply.key, NoKey}
    /\ slot'[g].reply.cfg \in {slot[g].reply.cfg, NoVersion}
    /\ slot'[g].reply.epoch \in {slot[g].reply.epoch, 0}
    /\ slot'[g].lane \in {slot[g].lane, "encrypted"}

\* Handler g goes on with the same request or the same answer.
GoesOn(g) ==
    /\ slot'[g].body = slot[g].body
    /\ slot'[g].reply = slot[g].reply
    /\ slot'[g].lane = slot[g].lane
    /\ Active(g)' => Active(g)
    /\ Answering(g)' => Answering(g) /\ Bases(g)' \subseteq Bases(g)

\* The device has the key, the cfgversion and the content that it had.
SameDevice ==
    /\ dev'.key = dev.key /\ dev'.epoch = dev.epoch
    /\ dev'.cfg = dev.cfg /\ dev'.intent = dev.intent /\ dev'.blocked = dev.blocked
    /\ dev'.env = dev.env

\* Nothing is asked, drawn, told or written that was not there.
Recedes ==
    /\ next' = next
    /\ SameDevice
    /\ dev'.conn = NoConn \/ (dev'.conn = dev.conn /\ slot'[dev.conn].phase # "idle")
    /\ Records' \subseteq Records
    /\ \A g \in Slots : Rests(g) \/ GoesOn(g)

\* The device is back in its factory state.
Resets ==
    /\ next' = next
    /\ dev' = FactoryDevice
    /\ rec' = rec /\ disk' = disk
    /\ \A g \in Slots : Rests(g) \/ slot'[g] = slot[g]

\* The device sends a request of itself through handler h.
Asks(h) ==
    /\ next' = next
    /\ dev.conn = NoConn
    /\ SameDevice
    /\ dev'.conn = h
    /\ rec' = rec /\ disk' = disk
    /\ \A g \in Slots : g # h => slot'[g] = slot[g]
    /\ slot'[h].phase = "sent"
    /\ slot'[h].body.key = dev.key
    /\ slot'[h].body.cfg \in {dev.cfg, NoVersion}
    /\ slot'[h].body.cfg = dev.cfg \/ "Sparse" \in Ops
    /\ slot'[h].reply = Bare("status")
    /\ slot'[h].lane = "encrypted" \/ slot'[h].lane \in Lanes
    /\ \/ spent'.reports # 0
       \/ /\ slot'[h].lane = "encrypted"
          /\ slot'[h].body.cfg = dev.cfg
          /\ slot'[h].body.table = TrueTable

\* The device applies an answer that tells it something.
Obeys(h) ==
    /\ next' = next
    /\ slot[h].phase = "reply" /\ dev.conn = h
    /\ slot[h].reply.kind \in Telling
    /\ dev'.conn = NoConn
    /\ \/ dev'.key = dev.key /\ dev'.epoch = dev.epoch
       \/ /\ slot[h].reply.kind = "push" /\ slot[h].reply.key # NoKey
          /\ dev'.key = slot[h].reply.key /\ dev'.epoch = slot[h].reply.epoch
    /\ slot[h].reply.kind = "push" /\ slot[h].reply.key # NoKey =>
          dev'.key = slot[h].reply.key /\ dev'.epoch = slot[h].reply.epoch
    /\ dev'.cfg = (IF slot[h].reply.kind = "reconnect" THEN dev.cfg ELSE slot[h].reply.cfg)
    /\ dev'.intent = (IF slot[h].reply.kind = "provision" THEN slot[h].reply.intent ELSE dev.intent)
    /\ dev'.blocked = (IF slot[h].reply.kind = "push" THEN dev.blocked ELSE slot[h].reply.blocked)
    /\ dev'.env = (IF slot[h].reply.kind = "provision" THEN slot[h].reply.env ELSE dev.env)
    /\ rec' = rec /\ disk' = disk
    /\ slot'[h] = IdleSlot
    /\ \A g \in Slots : g # h => slot'[g] = slot[g]

\* Names are drawn in order.
Draws ==
    /\ next.key <= next'.key /\ next.version <= next'.version /\ next.epoch <= next'.epoch
    /\ rec'.cfgVersion < next'.version

\* The record in memory starts a new incarnation.
Reborn ==
    /\ Draws
    /\ dev' = dev /\ disk' = disk
    /\ \A g \in Slots : (slot[g].phase = "decoded" /\ slot'[g].phase = "saving" /\ Rests(g))
                         \/ slot'[g] = slot[g]
    /\ rec' # NoRecord
    /\ rec'.xAuthkey = NoKey
    /\ rec'.cfgVersion = NoVersion
    /\ rec'.epoch = next.epoch
    /\ rec'.state = "pending"
    /\ ~Delivering(rec')

\* Handler h runs a cycle that commits.
Commits(h) ==
    /\ Draws
    /\ dev' = dev /\ disk' = disk
    /\ slot[h].phase = "decoded"
    /\ slot'[h].phase = "saving"
    /\ slot'[h].body.key = DefaultKey
    /\ slot'[h].lane = "encrypted"
    /\ \A g \in Slots : g # h => slot'[g] = slot[g]
    /\ rec # NoRecord /\ rec' # NoRecord
    /\ rec'.epoch = rec.epoch

\* An inform with the factory key draws the next key.
Rotates(h) ==
    /\ Commits(h)
    /\ Used(h) = DefaultKey
    /\ rec'.xAuthkey = next.key
    /\ rec'.authkeys = AddKey(rec.authkeys, next.key)
    /\ rec'.cfgVersion = next.version
    /\ rec'.state = "adopting"
    /\ ~Delivering(rec')
    /\ slot'[h].reply.kind = "push"
    /\ slot'[h].reply.key = next.key
    /\ slot'[h].reply.cfg = next.version
    /\ slot'[h].reply.epoch = rec.epoch

\* Record d has the assignment of the one in memory, and a new cfgversion or
\* the old one.
Remains(d) ==
    /\ d.xAuthkey = rec.xAuthkey
    /\ d.authkeys = rec.authkeys
    /\ d.epoch = rec.epoch
    /\ d.state \in {"adopted", "lost"} => rec.state \in {"adopted", "lost"} \/ Delivering(d)
    /\ Delivering(rec) => Delivering(d)
    /\ \/ d.cfgVersion = next.version
       \/ d.cfgVersion = rec.cfgVersion /\ d.intent = rec.intent

\* Record d and answer r of any other cycle. A delivery begins with full
\* provisioning on the assigned key, under a cfgversion that the device does not
\* report.
Outcome(h, d, r) ==
    /\ Remains(d)
    /\ Delivering(d) => Delivering(rec) \/ OnAssigned(rec, Used(h))
    /\ d.cfgVersion # next.version =>
          /\ SentSet(d) = SentSet(rec) \/ (r.kind = "provision" /\ ~Checked(h))
          /\ Delivering(d) =>
                \/ Delivering(rec)
                \/ r.kind = "provision" /\ (Checked(h) => slot[h].body.cfg # rec.cfgVersion)
    /\ r.kind = "push" =>
          /\ Used(h) # rec.xAuthkey
          /\ r.cfg = d.cfgVersion
          /\ r.key # NoKey => /\ Used(h) # DefaultKey
                             /\ r.key = rec.xAuthkey
                             /\ r.epoch = rec.epoch
    /\ r.kind # "push" => r.key = NoKey
    /\ r.kind = "provision" =>
          /\ OnAssigned(rec, Used(h))
          /\ r.cfg = d.cfgVersion /\ r.cfg # NoVersion
          /\ r.intent = d.intent /\ r.blocked = SentSet(d)
          /\ Delivering(d)
    /\ r.kind = "reconnect" =>
          /\ OnAssigned(rec, Used(h))
          /\ r.blocked = SentSet(d)
          /\ d.cfgVersion = rec.cfgVersion
          /\ slot[h].body.cfg \in {rec.cfgVersion, NoVersion}
    /\ r.cfg \in {d.cfgVersion, NoVersion}
    /\ r.epoch \in {d.epoch, 0}

\* A cycle that leaves the assignment alone.
Serves(h) ==
    /\ Commits(h)
    /\ Outcome(h, rec', slot'[h].reply)

\* The operator or the sweep changes other rows of the record.
Edits ==
    /\ Draws
    /\ dev' = dev /\ disk' = disk /\ slot' = slot
    /\ rec # NoRecord /\ rec' # NoRecord
    /\ Remains(rec')
    /\ Delivering(rec') = Delivering(rec)
    /\ SentSet(rec') = SentSet(rec)
    /\ rec'.delivery = rec.delivery

\* What a step may do to keys and content.
Step ==
    \/ Recedes \/ Resets \/ Reborn \/ Edits
    \/ \E h \in Slots : Asks(h) \/ Obeys(h) \/ Rotates(h) \/ Serves(h)

-----------------------------------------------------------------------------
(* Keys                                                                     *)

\* A step in which nothing new happens.
LEMMA RecedesKeys ==
    ASSUME Numbered, Numbered', KInv, Recedes
    PROVE  KInv'
  <1>1. \A d \in Records' : d \in Records /\ (Proved(d)' => Proved(d))
    BY DEF Recedes, Rests, GoesOn, Proved
  <1>2. dev'.key = dev.key /\ dev'.cfg = dev.cfg /\ dev'.epoch = dev.epoch
        /\ (dev'.conn = NoConn \/ dev'.conn = dev.conn)
    BY DEF Recedes, SameDevice
  <1>3. \A h \in Slots : Pushed(h)' => Pushed(h) /\ GoesOn(h)
    BY <1>2, SlotAssumption DEF Recedes, Rests, GoesOn, Pushed, Telling
  <1>4. Waiting'
    BY <1>2 DEF Recedes, Rests, GoesOn, Waiting, KInv, Numbered
  <1>5. KeysDrawn'
    <2>1. \A h \in Slots : /\ slot'[h].body.key \in {slot[h].body.key, DefaultKey}
                           /\ slot'[h].reply.key \in {slot[h].reply.key, NoKey}
      BY DEF Recedes, Rests, GoesOn
    <2>2. next'.key = next.key /\ DefaultKey < next.key /\ NoKey < next.key
      BY DEF Recedes, Numbered, NoKey, DefaultKey
    <2> QED BY <1>1, <1>2, <2>1, <2>2 DEF KeysDrawn, KInv
  <1>6. OneKey'
    BY <1>1, <1>2 DEF OneKey, KInv
  <1>7. Untaken'
    <2> SUFFICES ASSUME NEW h \in Slots, Pushed(h)'
                 PROVE  /\ \A d \in Bases(h)' :
                              /\ d.xAuthkey # dev'.key
                              /\ slot'[h].reply.key # NoKey \/ d.epoch = dev'.epoch => ~Proved(d)'
                        /\ slot'[h].reply.key # NoKey =>
                              \A g \in Slots : Active(g)' => slot'[g].body.key # slot'[h].reply.key
      BY DEF Untaken
    <2>1. Pushed(h) /\ slot'[h].reply = slot[h].reply /\ Bases(h)' \subseteq Bases(h)
      BY <1>3 DEF GoesOn, Pushed
    <2>2. Bases(h)' \subseteq Records'
      BY DEF Bases, Records
    <2>3. \A g \in Slots : Active(g)' => Active(g) /\ slot'[g].body = slot[g].body
      BY DEF Recedes, Rests, GoesOn
    <2> QED BY <1>1, <1>2, <2>1, <2>2, <2>3 DEF KInv, Untaken
  <1> QED BY <1>4, <1>5, <1>6, <1>7 DEF KInv

\* The factory reset takes the device out of every incarnation.
LEMMA ResetsKeys ==
    ASSUME Numbered, Numbered', KInv, Resets
    PROVE  KInv'
  <1>1. dev'.key = DefaultKey /\ dev'.epoch = 0 /\ dev'.conn = NoConn
    BY DEF Resets, FactoryDevice
  <1>2. Waiting' /\ OneKey'
    BY <1>1 DEF Waiting, OneKey
  <1>3. Untaken'
    BY <1>1, SlotAssumption DEF Untaken, Pushed
  <1>4. KeysDrawn'
    <2>1. \A h \in Slots : /\ slot'[h].body.key \in {slot[h].body.key, DefaultKey}
                           /\ slot'[h].reply.key \in {slot[h].reply.key, NoKey}
      BY DEF Resets, Rests
    <2>2. next'.key = next.key /\ DefaultKey < next.key /\ NoKey < next.key
      BY DEF Resets, Numbered, NoKey, DefaultKey
    <2>3. Records' = Records
      BY DEF Resets, Records
    <2> QED BY <1>1, <2>1, <2>2, <2>3 DEF KeysDrawn, KInv
  <1> QED BY <1>2, <1>3, <1>4 DEF KInv

\* A new request is of the device itself: it proves no other key.
LEMMA AsksKeys ==
    ASSUME Numbered, Numbered', KInv, NEW h \in Slots, Asks(h)
    PROVE  KInv'
  <1>1. Records' = Records /\ SameDevice /\ next' = next
    BY DEF Asks, Records
  <1>2. \A g \in Slots : Active(g)' /\ slot'[g].body.key # dev.key
                            => Active(g) /\ slot'[g].body.key = slot[g].body.key
    BY DEF Asks, Active
  <1>3. \A d \in Records : Proved(d)' => Proved(d) \/ d.xAuthkey = dev.key
    BY <1>2 DEF Proved
  <1>4. Waiting'
    BY <1>1 DEF Asks, SameDevice, Waiting
  <1>5. OneKey'
    BY <1>1, <1>3 DEF KInv, OneKey, SameDevice
  <1>6. Untaken'
    BY SlotAssumption DEF Asks, Untaken, Pushed, Answering
  <1>7. KeysDrawn'
    <2>0. NoKey < next.key
      BY DEF NoKey, Numbered
    <2>1. \A g \in Slots : slot'[g].body.key < next.key /\ slot'[g].reply.key < next.key
      <3>1. slot'[h].body.key < next.key /\ slot'[h].reply.key < next.key
        BY <2>0 DEF Asks, Bare, KInv, KeysDrawn
      <3> QED BY <3>1 DEF Asks, KInv, KeysDrawn
    <2> QED BY <1>1, <2>1 DEF KInv, KeysDrawn, SameDevice
  <1> QED BY <1>4, <1>5, <1>6, <1>7 DEF KInv

\* The device takes a key that it has never had; other answers leave its key.
LEMMA ObeysKeys ==
    ASSUME Numbered, Numbered', KInv, NEW h \in Slots, Obeys(h)
    PROVE  KInv'
  <1> DEFINE r == slot[h].reply
  <1>1. Records' = Records /\ next' = next /\ dev'.conn = NoConn /\ dev.conn = h
    BY DEF Obeys, Records
  <1>2. \A d \in Records : Proved(d)' => Proved(d)
    BY DEF Obeys, Proved, Active, IdleSlot
  <1>3. slot[h].reply.kind = "push" => Pushed(h) /\ Bases(h) = Records
    BY DEF Obeys, Pushed, Answering, Bases
  <1>4. \/ dev'.key = dev.key /\ dev'.epoch = dev.epoch
        \/ /\ dev'.key = r.key /\ r.key # NoKey
           /\ \A d \in Records : ~Proved(d)
    BY <1>3 DEF Obeys, KInv, Untaken
  <1>5. Waiting' /\ Untaken'
    BY <1>1, SlotAssumption DEF Waiting, Untaken, Pushed
  <1>6. OneKey'
    BY <1>1, <1>2, <1>4 DEF KInv, OneKey
  <1>7. KeysDrawn'
    <2>1. \A g \in Slots : \/ slot'[g] = slot[g]
                           \/ slot'[g].body.key = DefaultKey /\ slot'[g].reply.key = NoKey
      BY DEF Obeys, IdleSlot, NoBody, Bare
    <2>2. DefaultKey < next.key /\ NoKey < next.key
      BY DEF Numbered, NoKey, DefaultKey
    <2>3. r.key # DefaultKey
      BY DEF Numbered
    <2> QED BY <1>1, <1>4, <2>1, <2>2, <2>3 DEF KInv, KeysDrawn
  <1> QED BY <1>5, <1>6, <1>7 DEF KInv

\* A new incarnation has no key yet.
LEMMA RebornKeys ==
    ASSUME Numbered, Numbered', KInv, Reborn
    PROVE  KInv'
  <1>1. dev' = dev /\ next.key <= next'.key /\ next.key \in Nat /\ next'.key \in Nat
    BY DEF Reborn, Draws, Numbered
  <1>2. \A d \in Records' : d = rec' \/ d \in Records
    BY DEF Reborn, Records
  <1>3. \A g \in Slots : Active(g)' => Active(g) /\ slot'[g].body = slot[g].body
    BY DEF Reborn, Rests, Active
  <1>4. \A d : Proved(d)' => Proved(d)
    <2>1. \A d : Delivering(d)' = Delivering(d)
      BY DEF Delivering
    <2> QED BY <1>3, <2>1 DEF Proved
  <1>5. rec'.xAuthkey = NoKey /\ ~Proved(rec)' /\ rec'.epoch > 0
    <2>1. \A g \in Slots : slot'[g].body.key # NoKey
      BY DEF Numbered, NoKey
    <2> QED BY <2>1 DEF Reborn, Proved, Numbered
  <1>6. dev.key # NoKey
    BY DEF Numbered, NoKey
  <1>7. Waiting'
    BY <1>1, <1>3 DEF KInv, Waiting, Reborn, Rests, Numbered
  <1>8. OneKey'
    BY <1>1, <1>2, <1>4, <1>5 DEF KInv, OneKey
  <1>9. Untaken'
    <2> SUFFICES ASSUME NEW h \in Slots, Pushed(h)'
                 PROVE  /\ \A d \in Bases(h)' :
                              /\ d.xAuthkey # dev'.key
                              /\ slot'[h].reply.key # NoKey \/ d.epoch = dev'.epoch => ~Proved(d)'
                        /\ slot'[h].reply.key # NoKey =>
                              \A g \in Slots : Active(g)' => slot'[g].body.key # slot'[h].reply.key
      BY DEF Untaken
    <2>1. slot'[h] = slot[h] /\ Pushed(h)
      BY <1>1 DEF Reborn, Rests, Pushed, Answering, Telling
    <2>2. \A d \in Bases(h)' : d = rec' \/ d \in Bases(h)
      BY <2>1 DEF Reborn, Bases, Records
    <2> QED BY <1>1, <1>3, <1>4, <1>5, <1>6, <2>1, <2>2 DEF KInv, Untaken
  <1>10. KeysDrawn'
    <2>1. \A g \in Slots : /\ slot'[g].body.key \in {slot[g].body.key, DefaultKey}
                           /\ slot'[g].reply.key \in {slot[g].reply.key, NoKey}
      BY DEF Reborn, Rests
    <2>2. DefaultKey < next.key /\ NoKey < next.key
      BY DEF Numbered, NoKey, DefaultKey
    <2>3. /\ dev.key < next.key
          /\ \A g \in Slots : slot'[g].body.key < next.key /\ slot'[g].reply.key < next.key
      BY <2>1, <2>2 DEF KInv, KeysDrawn
    <2>4. /\ dev.key \in Int
          /\ \A g \in Slots : slot'[g].body.key \in Int /\ slot'[g].reply.key \in Int
      BY DEF Numbered
    <2>5. dev.key < next'.key
      BY <1>1, <2>3, <2>4
    <2>6. \A g \in Slots : slot'[g].body.key < next'.key /\ slot'[g].reply.key < next'.key
      BY <1>1, <2>3, <2>4
    <2> QED BY <1>1, <1>2, <1>5, <2>5, <2>6 DEF KInv, KeysDrawn
  <1> QED BY <1>7, <1>8, <1>9, <1>10 DEF KInv

\* What a commit leaves of requests, answers and records.
LEMMA CommitsParts ==
    ASSUME Numbered, Numbered', NEW h \in Slots, Commits(h)
    PROVE  /\ \A g \in Slots : Active(g)' => Active(g) /\ slot'[g] = slot[g] /\ g # h
           /\ Active(h) /\ Answering(h)' /\ Bases(h)' = {rec'}
           /\ \A g \in Slots : g # h /\ Answering(g)' =>
                 /\ Answering(g) /\ slot'[g] = slot[g]
                 /\ rec \in Bases(g)
                 /\ \A d \in Bases(g)' : d = rec' \/ d \in Bases(g)
           /\ \A g \in Slots : g # h => (Pushed(g)' <=> Pushed(g))
           /\ rec \in Records /\ rec' \in Records'
           /\ \A d \in Records' : d = rec' \/ d \in Records
           /\ \A d : Delivering(d)' = Delivering(d)
           /\ \A d \in Records : Proved(d)' => Proved(d)
  <1>1. /\ slot[h].phase = "decoded" /\ slot'[h].phase = "saving"
        /\ \A g \in Slots : g # h => slot'[g] = slot[g]
        /\ rec # NoRecord /\ rec' # NoRecord /\ dev' = dev /\ disk' = disk
    BY DEF Commits
  <1>2. \A g \in Slots : Active(g)' => Active(g) /\ slot'[g] = slot[g] /\ g # h
    BY <1>1 DEF Active
  <1>3. Active(h) /\ Answering(h)' /\ Bases(h)' = {rec'}
    BY <1>1 DEF Active, Answering, Bases
  <1>4. \A g \in Slots : g # h /\ Answering(g)' =>
           /\ Answering(g) /\ slot'[g] = slot[g]
           /\ rec \in Bases(g)
           /\ \A d \in Bases(g)' : d = rec' \/ d \in Bases(g)
    BY <1>1 DEF Answering, Bases, Records
  <1>5. \A g \in Slots : g # h => (Pushed(g)' <=> Pushed(g))
    BY <1>1 DEF Pushed, Answering
  <1>6. rec \in Records /\ rec' \in Records' /\ \A d \in Records' : d = rec' \/ d \in Records
    BY <1>1 DEF Records
  <1>7. \A d : Delivering(d)' = Delivering(d)
    BY DEF Delivering
  <1>8. \A d \in Records : Proved(d)' => Proved(d)
    BY <1>2, <1>7 DEF Proved
  <1> QED BY <1>2, <1>3, <1>4, <1>5, <1>6, <1>7, <1>8

\* The device waits for the answer of the cycle, if for any.
LEMMA CommitsWaiting ==
    ASSUME Numbered, Numbered', Waiting, NEW h \in Slots, Commits(h)
    PROVE  Waiting'
  <1>1. \A g \in Slots : Active(g)' => Active(g) /\ slot'[g] = slot[g]
    BY CommitsParts
  <1> QED BY <1>1 DEF Waiting, Commits, Numbered

\* Names in use stay older than the next ones.
LEMMA CommitsDrawn ==
    ASSUME Numbered, Numbered', KInv, NEW h \in Slots, Commits(h),
           slot'[h].reply.key < next'.key
    PROVE  KeysDrawn'
  <1>1. /\ next.key <= next'.key /\ next.key \in Nat \ {0} /\ next'.key \in Nat
        /\ dev' = dev /\ slot'[h].body.key = DefaultKey
        /\ \A g \in Slots : g # h => slot'[g] = slot[g]
    BY DEF Commits, Draws, Numbered
  <1>2. \A d \in Records' : d = rec' \/ d \in Records
    BY CommitsParts
  <1>3. dev.key < next'.key
    BY <1>1 DEF KInv, KeysDrawn, Numbered
  <1>4. \A g \in Slots : slot[g].body.key < next'.key /\ slot[g].reply.key < next'.key
    <2>1. \A g \in Slots : slot[g].body.key < next.key /\ slot[g].reply.key < next.key
      BY DEF KInv, KeysDrawn
    <2>2. \A g \in Slots : slot[g].body.key \in Int /\ slot[g].reply.key \in Int
      BY DEF Numbered
    <2> QED BY <1>1, <2>1, <2>2
  <1>5. slot'[h].body.key < next'.key
    BY <1>1 DEF DefaultKey
  <1>6. rec'.epoch > 0
    <2>1. rec \in Records
      BY CommitsParts
    <2> QED BY <2>1 DEF Commits, KInv, KeysDrawn
  <1> QED BY <1>1, <1>2, <1>3, <1>4, <1>5, <1>6 DEF KInv, KeysDrawn

\* The next key is nobody's.
LEMMA RotatesKeys ==
    ASSUME Numbered, Numbered', KInv, NEW h \in Slots, Rotates(h)
    PROVE  KInv'
  <1>0. Commits(h)
    BY DEF Rotates
  <1>1. /\ \A g \in Slots : Active(g)' => Active(g) /\ slot'[g] = slot[g] /\ g # h
        /\ \A g \in Slots : g # h => (Pushed(g)' <=> Pushed(g))
        /\ \A g \in Slots : g # h /\ Answering(g)' =>
                 /\ Answering(g) /\ slot'[g] = slot[g]
                 /\ \A d \in Bases(g)' : d = rec' \/ d \in Bases(g)
        /\ Bases(h)' = {rec'}
        /\ rec' \in Records'
        /\ \A d \in Records' : d = rec' \/ d \in Records
        /\ \A d \in Records : Proved(d)' => Proved(d)
    BY <1>0, CommitsParts
  <1>2. dev' = dev /\ rec'.xAuthkey = next.key /\ next.key \in Int
    BY <1>0 DEF Rotates, Commits, Numbered
  <1>3. /\ dev.key # next.key
        /\ \A g \in Slots : slot[g].body.key # next.key
    <2>1. dev.key < next.key /\ \A g \in Slots : slot[g].body.key < next.key
      BY DEF KInv, KeysDrawn
    <2> QED BY <1>2, <2>1
  <1>4. ~Proved(rec)'
    BY <1>1, <1>2, <1>3 DEF Rotates, Proved
  <1>5. Waiting'
    BY <1>0, CommitsWaiting DEF KInv
  <1>6. KeysDrawn'
    <2>1. slot'[h].reply.key < next'.key
      BY <1>1, <1>2 DEF Rotates, Numbered
    <2> QED BY <1>0, <2>1, CommitsDrawn
  <1>7. OneKey'
    BY <1>1, <1>2, <1>4 DEF KInv, OneKey
  <1>8. Untaken'
    <2> SUFFICES ASSUME NEW i \in Slots, Pushed(i)'
                 PROVE  /\ \A d \in Bases(i)' :
                              /\ d.xAuthkey # dev'.key
                              /\ slot'[i].reply.key # NoKey \/ d.epoch = dev'.epoch => ~Proved(d)'
                        /\ slot'[i].reply.key # NoKey =>
                              \A g \in Slots : Active(g)' => slot'[g].body.key # slot'[i].reply.key
      BY DEF Untaken
    <2>1. CASE i = h
      <3>1. slot'[h].reply.key = next.key
        BY DEF Rotates
      <3> QED BY <1>1, <1>2, <1>3, <1>4, <2>1, <3>1
    <2>2. CASE i # h
      <3>1. Pushed(i) /\ Answering(i)' /\ slot'[i] = slot[i]
        BY <1>1, <2>2 DEF Pushed
      <3>2. Bases(i) \subseteq Records
        BY DEF Bases, Records
      <3>3. ASSUME NEW d \in Bases(i)'
            PROVE  /\ d.xAuthkey # dev'.key
                   /\ slot'[i].reply.key # NoKey \/ d.epoch = dev'.epoch => ~Proved(d)'
        <4>1. CASE d = rec'
          BY <1>2, <1>3, <1>4, <4>1
        <4>2. CASE d \in Bases(i)
          BY <1>1, <1>2, <3>1, <3>2, <4>2 DEF KInv, Untaken
        <4> QED BY <1>1, <2>2, <3>1, <3>3, <4>1, <4>2
      <3>4. slot'[i].reply.key # NoKey =>
               \A g \in Slots : Active(g)' => slot'[g].body.key # slot'[i].reply.key
        BY <1>1, <3>1 DEF KInv, Untaken
      <3> QED BY <3>3, <3>4
    <2> QED BY <2>1, <2>2
  <1> QED BY <1>5, <1>6, <1>7, <1>8 DEF KInv

\* A cycle that keeps the assignment: what proves the key now proved it before,
\* and a key is sent again only to a device that has not used it.
LEMMA ServesKeys ==
    ASSUME Numbered, Numbered', KInv, NEW h \in Slots, Serves(h)
    PROVE  KInv'
  <1> DEFINE r == slot'[h].reply
  <1>0. Commits(h) /\ Remains(rec')
    BY DEF Serves, Outcome
  <1>1. /\ \A g \in Slots : Active(g)' => Active(g) /\ slot'[g] = slot[g] /\ g # h
        /\ \A g \in Slots : g # h => (Pushed(g)' <=> Pushed(g))
        /\ \A g \in Slots : g # h /\ Answering(g)' =>
                 /\ Answering(g) /\ slot'[g] = slot[g]
                 /\ rec \in Bases(g)
                 /\ \A d \in Bases(g)' : d = rec' \/ d \in Bases(g)
        /\ Bases(h)' = {rec'}
        /\ rec \in Records
        /\ \A d \in Records' : d = rec' \/ d \in Records
        /\ \A d \in Records : Proved(d)' => Proved(d)
        /\ Active(h)
    BY <1>0, CommitsParts
  <1>2. dev' = dev /\ rec'.xAuthkey = rec.xAuthkey /\ rec'.epoch = rec.epoch
    BY <1>0 DEF Commits, Remains
  <1>3. Proved(rec)' => Proved(rec)
    <2>1. (\E g \in Slots : Active(g) /\ slot[g].body.key = rec.xAuthkey)' => Proved(rec)
      BY <1>1, <1>2 DEF Proved
    <2>2. Delivering(rec') => Proved(rec)
      BY <1>1 DEF Serves, Outcome, Proved, OnAssigned, Used
    <2> QED BY <2>1, <2>2 DEF Proved
  <1>4. Waiting'
    BY <1>0, CommitsWaiting DEF KInv
  <1>5. KeysDrawn'
    <2>1. r.key = NoKey \/ r.key = rec.xAuthkey
      BY DEF Serves, Outcome
    <2>2. rec.xAuthkey < next.key /\ rec.xAuthkey \in Int
      BY <1>1 DEF Numbered
    <2>3. r.key < next'.key
      BY <1>0, <2>1, <2>2 DEF Commits, Draws, Numbered, NoKey
    <2> QED BY <1>0, <2>3, CommitsDrawn
  <1>6. OneKey'
    BY <1>1, <1>2, <1>3 DEF KInv, OneKey
  <1>7. Untaken'
    <2> SUFFICES ASSUME NEW i \in Slots, Pushed(i)'
                 PROVE  /\ \A d \in Bases(i)' :
                              /\ d.xAuthkey # dev'.key
                              /\ slot'[i].reply.key # NoKey \/ d.epoch = dev'.epoch => ~Proved(d)'
                        /\ slot'[i].reply.key # NoKey =>
                              \A g \in Slots : Active(g)' => slot'[g].body.key # slot'[i].reply.key
      BY DEF Untaken
    <2>1. CASE i = h
      <3>1. dev.conn = h /\ r.kind = "push"
        BY <1>2, <2>1 DEF Pushed
      <3>2. dev.key = Used(h)
        BY <1>1, <3>1, SlotAssumption DEF KInv, Waiting, Used
      <3>3. rec.xAuthkey # dev.key
        BY <3>1, <3>2 DEF Serves, Outcome
      <3>4. Proved(rec) => rec.xAuthkey # NoKey
        <4>1. \A g \in Slots : slot[g].body.key # NoKey
          BY DEF Numbered, NoKey
        <4> QED BY <1>1, <4>1 DEF Proved, Numbered
      <3>5. Proved(rec) => dev.key = DefaultKey
        BY <1>1, <3>3, <3>4 DEF KInv, OneKey
      <3>6. r.key # NoKey \/ rec.epoch = dev.epoch => ~Proved(rec)
        <4>1. r.key # NoKey => dev.key # DefaultKey
          BY <3>1, <3>2 DEF Serves, Outcome
        <4>2. dev.key = DefaultKey => rec.epoch # dev.epoch
          BY <1>1 DEF KInv, KeysDrawn
        <4> QED BY <3>5, <4>1, <4>2
      <3>7. r.key # NoKey => \A g \in Slots : Active(g)' => slot'[g].body.key # r.key
        <4>1. r.key # NoKey => r.key = rec.xAuthkey
          BY <3>1 DEF Serves, Outcome
        <4> QED BY <1>1, <3>6, <4>1 DEF Proved
      <3> QED BY <1>1, <1>2, <1>3, <2>1, <3>3, <3>6, <3>7
    <2>2. CASE i # h
      <3>1. Pushed(i) /\ Answering(i)' /\ slot'[i] = slot[i]
        BY <1>1, <2>2 DEF Pushed
      <3>2. Bases(i) \subseteq Records
        BY DEF Bases, Records
      <3>3. ASSUME NEW d \in Bases(i)'
            PROVE  /\ d.xAuthkey # dev'.key
                   /\ slot'[i].reply.key # NoKey \/ d.epoch = dev'.epoch => ~Proved(d)'
        <4>1. CASE d = rec'
          BY <1>1, <1>2, <1>3, <2>2, <3>1, <4>1 DEF KInv, Untaken
        <4>2. CASE d \in Bases(i)
          BY <1>1, <1>2, <3>1, <3>2, <4>2 DEF KInv, Untaken
        <4> QED BY <1>1, <2>2, <3>1, <3>3, <4>1, <4>2
      <3>4. slot'[i].reply.key # NoKey =>
               \A g \in Slots : Active(g)' => slot'[g].body.key # slot'[i].reply.key
        BY <1>1, <3>1 DEF KInv, Untaken
      <3> QED BY <3>3, <3>4
    <2> QED BY <2>1, <2>2
  <1> QED BY <1>4, <1>5, <1>6, <1>7 DEF KInv

\* A verb leaves the keys and the device alone.
LEMMA EditsKeys ==
    ASSUME Numbered, Numbered', KInv, Edits
    PROVE  KInv'
  <1>1. /\ dev' = dev /\ slot' = slot
        /\ rec'.xAuthkey = rec.xAuthkey /\ rec'.epoch = rec.epoch
        /\ rec \in Records
        /\ \A d \in Records' : d = rec' \/ d \in Records
        /\ \A h \in Slots : \A d \in Bases(h)' : (d = rec' /\ rec \in Bases(h)) \/ d \in Bases(h)
    BY DEF Edits, Remains, Records, Bases
  <1>2. /\ \A d : Proved(d)' = Proved(d)
        /\ Proved(rec)' = Proved(rec)
    <2>1. \A d : Proved(d)' = Proved(d)
      BY <1>1 DEF Proved, Delivering, Active
    <2>2. Proved(rec)' = Proved(rec)
      BY <1>1 DEF Proved, Active, Edits
    <2> QED BY <2>1, <2>2
  <1>3. Waiting'
    BY <1>1 DEF KInv, Waiting, Active
  <1>4. OneKey'
    BY <1>1, <1>2 DEF KInv, OneKey
  <1>5. Untaken'
    <2>1. \A h \in Slots : Pushed(h)' = Pushed(h) /\ Active(h)' = Active(h)
      BY <1>1 DEF Pushed, Answering, Active
    <2> QED BY <1>1, <1>2, <2>1 DEF KInv, Untaken
  <1>6. KeysDrawn'
    <2>1. next.key <= next'.key /\ next.key \in Int /\ next'.key \in Int
      BY DEF Edits, Draws, Numbered
    <2>2. dev.key < next'.key
      BY <2>1 DEF KInv, KeysDrawn, Numbered
    <2>3. \A h \in Slots : slot[h].body.key < next'.key /\ slot[h].reply.key < next'.key
      <3>1. \A h \in Slots : slot[h].body.key < next.key /\ slot[h].reply.key < next.key
        BY DEF KInv, KeysDrawn
      <3>2. \A h \in Slots : slot[h].body.key \in Int /\ slot[h].reply.key \in Int
        BY DEF Numbered
      <3> QED BY <2>1, <3>1, <3>2
    <2> QED BY <1>1, <2>2, <2>3 DEF KInv, KeysDrawn
  <1> QED BY <1>3, <1>4, <1>5, <1>6 DEF KInv

\* Every step keeps what keys tell about the device.
LEMMA StepKeys ==
    ASSUME Numbered, Numbered', KInv, Step
    PROVE  KInv'
  BY RecedesKeys, ResetsKeys, RebornKeys, EditsKeys, AsksKeys, ObeysKeys, RotatesKeys,
     ServesKeys DEF Step

-----------------------------------------------------------------------------
(* The key that the device has                                              *)

\* Without new stragglers there are still none, or at most one.
LEMMA FewOn ==
    ASSUME Stragglers' \subseteq Stragglers
    PROVE  /\ AtMostOne(Stragglers) => AtMostOne(Stragglers)'
           /\ Stragglers = {} => Stragglers' = {}
  BY DEF AtMostOne

\* While the device has a key its own request is no straggler when it gives up.
LEMMA GiveUpStragglers ==
    ASSUME Numbered, KInv, SameDevice, dev.key # DefaultKey,
           dev'.conn = NoConn \/ dev'.conn = dev.conn,
           \A g \in Slots : Active(g)' => Active(g) /\ slot'[g].body.key = slot[g].body.key
    PROVE  Stragglers' \subseteq Stragglers
  <1> SUFFICES ASSUME NEW g \in Slots, Active(g)', g # dev'.conn,
                      slot'[g].body.key = DefaultKey
               PROVE  g # dev.conn /\ Active(g) /\ slot[g].body.key = DefaultKey
    BY DEF Stragglers
  <1>1. Active(g) /\ slot[g].body.key = DefaultKey
    OBVIOUS
  <1> QED BY <1>1, SlotAssumption DEF KInv, Waiting

\* An epoch in use stays older than the next one.
LEMMA EpochsOn ==
    ASSUME Numbered, KeysKept,
           \A g \in Slots : slot'[g].reply.epoch \in {slot[g].reply.epoch, 0}
    PROVE  \A g \in Slots : slot'[g].reply.epoch < next.epoch
  <1>1. 0 < next.epoch
    BY DEF Numbered
  <1> QED BY <1>1 DEF KeysKept

\* A step in which nothing new happens.
LEMMA RecedesKept ==
    ASSUME Numbered, Numbered', KInv, KeysKept, Recedes
    PROVE  KeysKept'
  <1>1. /\ dev'.key = dev.key /\ dev'.epoch = dev.epoch /\ next' = next
        /\ dev'.conn = NoConn \/ dev'.conn = dev.conn
        /\ Records' \subseteq Records
        /\ \A g \in Slots : Active(g)' => Active(g) /\ slot'[g].body.key = slot[g].body.key
    BY DEF Recedes, SameDevice, Rests, GoesOn
  <1>2. dev.key # DefaultKey => Stragglers' \subseteq Stragglers
    BY <1>1, GiveUpStragglers DEF Recedes
  <1>3. dev'.key # DefaultKey =>
          /\ AtMostOne(Stragglers)'
          /\ \A d \in Records' : dev'.epoch = d.epoch => Kept(d, dev.key)'
    BY <1>1, <1>2, FewOn DEF KeysKept, Kept
  <1>4. ASSUME NEW h \in Slots, Pushed(h)', slot'[h].reply.key # NoKey,
               NEW d \in Bases(h)', d.epoch = slot'[h].reply.epoch
        PROVE  Kept(d, slot[h].reply.key)'
    <2>1. Pushed(h) /\ GoesOn(h)
      BY <1>1, <1>4, SlotAssumption DEF Recedes, Rests, GoesOn, Pushed, Telling
    <2>2. slot'[h].reply = slot[h].reply /\ d \in Bases(h)
      BY <1>4, <2>1 DEF GoesOn, Pushed
    <2>3. dev'.conn = dev.conn
      BY <1>1, <1>4, SlotAssumption DEF Pushed
    <2>4. Stragglers' \subseteq Stragglers
      BY <1>1, <2>3 DEF Stragglers
    <2> QED BY <1>4, <2>1, <2>2, <2>4, FewOn DEF KeysKept, Kept
  <1>5. /\ dev'.epoch < next'.epoch
        /\ \A h \in Slots : slot'[h].reply.epoch < next'.epoch
    <2>1. \A h \in Slots : slot'[h].reply.epoch \in {slot[h].reply.epoch, 0}
      BY DEF Recedes, Rests, GoesOn
    <2> QED BY <1>1, <2>1, EpochsOn DEF KeysKept
  <1> QED BY <1>3, <1>4, <1>5 DEF KeysKept

\* A reset device has no key to keep.
LEMMA ResetsKept ==
    ASSUME Numbered, Numbered', KeysKept, Resets
    PROVE  KeysKept'
  <1>1. dev'.key = DefaultKey /\ dev'.epoch = 0 /\ dev'.conn = NoConn /\ next' = next
    BY DEF Resets, FactoryDevice
  <1>2. \A h \in Slots : ~Pushed(h)'
    BY <1>1, SlotAssumption DEF Pushed
  <1>3. \A h \in Slots : slot'[h].reply.epoch \in {slot[h].reply.epoch, 0}
    BY DEF Resets, Rests
  <1>4. 0 < next.epoch /\ \A h \in Slots : slot'[h].reply.epoch < next.epoch
    BY <1>3, EpochsOn DEF Numbered
  <1> QED BY <1>1, <1>2, <1>4 DEF KeysKept

\* A new request is the device's own.
LEMMA AsksKept ==
    ASSUME Numbered, Numbered', KeysKept, NEW h \in Slots, Asks(h)
    PROVE  KeysKept'
  <1>1. Records' = Records /\ SameDevice /\ next' = next /\ dev'.conn = h
    BY DEF Asks, Records
  <1>2. Stragglers' \subseteq Stragglers
    BY SlotAssumption DEF Asks, Stragglers, Active
  <1>3. \A g \in Slots : ~Pushed(g)'
    BY DEF Asks, Pushed, Answering
  <1>4. \A g \in Slots : slot'[g].reply.epoch < next'.epoch
    <2>1. \A g \in Slots : slot'[g].reply.epoch \in {slot[g].reply.epoch, 0}
      BY DEF Asks, Bare
    <2> QED BY <1>1, <2>1, EpochsOn
  <1> QED BY <1>1, <1>2, <1>3, <1>4, FewOn DEF KeysKept, Kept, SameDevice

\* The device takes the key that it is sent; the other handlers stay as they are.
LEMMA ObeysKept ==
    ASSUME Numbered, Numbered', KeysKept, FewStragglers, NEW h \in Slots, Obeys(h)
    PROVE  KeysKept'
  <1>1. Records' = Records /\ next' = next /\ dev'.conn = NoConn /\ dev.conn = h
    BY DEF Obeys, Records
  <1>2. Stragglers' \subseteq Stragglers
    BY DEF Obeys, Stragglers, Active, IdleSlot
  <1>3. \A g \in Slots : ~Pushed(g)'
    BY <1>1, SlotAssumption DEF Pushed
  <1>4. \A g \in Slots : slot'[g].reply.epoch < next'.epoch
    <2>1. \A g \in Slots : slot'[g].reply.epoch \in {slot[g].reply.epoch, 0}
      BY DEF Obeys, IdleSlot, Bare
    <2> QED BY <1>1, <2>1, EpochsOn
  <1>5. AtMostOne(Stragglers)
    BY <1>1, SlotAssumption DEF FewStragglers
  <1>6. CASE dev'.key = dev.key /\ dev'.epoch = dev.epoch
    BY <1>1, <1>2, <1>3, <1>4, <1>6, FewOn DEF KeysKept, Kept
  <1>7. CASE /\ slot[h].reply.kind = "push" /\ slot[h].reply.key # NoKey
             /\ dev'.key = slot[h].reply.key /\ dev'.epoch = slot[h].reply.epoch
    <2>1. Pushed(h) /\ Bases(h) = Records
      BY <1>1, <1>7 DEF Obeys, Pushed, Answering, Bases
    <2>2. \A d \in Records : d.epoch = dev'.epoch => Kept(d, slot[h].reply.key)
      BY <1>7, <2>1 DEF KeysKept
    <2>3. \A d \in Records' : dev'.epoch = d.epoch => Kept(d, dev.key)'
      BY <1>1, <1>2, <1>7, <2>2, FewOn DEF Kept
    <2>4. AtMostOne(Stragglers)' /\ dev'.epoch < next'.epoch
      BY <1>1, <1>2, <1>5, <1>7, FewOn DEF KeysKept
    <2> QED BY <1>3, <1>4, <2>3, <2>4 DEF KeysKept
  <1> QED BY <1>6, <1>7 DEF Obeys

\* Nobody has or is sent a key of the new incarnation.
LEMMA RebornKept ==
    ASSUME Numbered, Numbered', KeysKept, Reborn
    PROVE  KeysKept'
  <1>1. dev' = dev /\ next.epoch <= next'.epoch /\ next.epoch \in Nat /\ next'.epoch \in Nat
    BY DEF Reborn, Draws, Numbered
  <1>2. Stragglers' \subseteq Stragglers
    BY <1>1 DEF Reborn, Rests, Stragglers, Active
  <1>3. \A g \in Slots : slot'[g].reply.epoch < next.epoch
    <2>1. \A g \in Slots : slot'[g].reply.epoch \in {slot[g].reply.epoch, 0}
      BY DEF Reborn, Rests
    <2> QED BY <2>1, EpochsOn
  <1>4. dev'.epoch < next.epoch
    BY <1>1 DEF KeysKept
  <1>5. \A g \in Slots : slot'[g].reply.epoch < next'.epoch /\ slot'[g].reply.epoch # rec'.epoch
    <2>1. \A g \in Slots : slot'[g].reply.epoch \in Int
      BY DEF Numbered
    <2> QED BY <1>1, <1>3, <2>1 DEF Reborn
  <1>6. dev'.epoch < next'.epoch /\ dev'.epoch # rec'.epoch
    <2>1. dev'.epoch \in Int
      BY DEF Numbered
    <2> QED BY <1>1, <1>4, <2>1 DEF Reborn
  <1>7. \A d \in Records' : d = rec' \/ d \in Records
    BY DEF Reborn, Records
  <1>8. dev'.key # DefaultKey =>
          /\ AtMostOne(Stragglers)'
          /\ \A d \in Records' : dev'.epoch = d.epoch => Kept(d, dev.key)'
    BY <1>1, <1>2, <1>6, <1>7, FewOn DEF KeysKept, Kept
  <1>9. ASSUME NEW h \in Slots, Pushed(h)', slot'[h].reply.key # NoKey,
               NEW d \in Bases(h)', d.epoch = slot'[h].reply.epoch
        PROVE  Kept(d, slot[h].reply.key)'
    <2>1. slot'[h] = slot[h] /\ Pushed(h)
      BY <1>1, <1>9 DEF Reborn, Rests, Pushed, Answering, Telling
    <2>2. d = rec' \/ d \in Bases(h)
      BY <1>9, <2>1 DEF Reborn, Bases, Records
    <2>3. d \in Bases(h)
      BY <1>5, <1>9, <2>2
    <2> QED BY <1>2, <1>9, <2>1, <2>3, FewOn DEF KeysKept, Kept
  <1> QED BY <1>5, <1>6, <1>8, <1>9 DEF KeysKept

\* A verb leaves the keys alone.
LEMMA EditsKept ==
    ASSUME Numbered, Numbered', KeysKept, Edits
    PROVE  KeysKept'
  <1>1. /\ dev' = dev /\ slot' = slot
        /\ rec'.authkeys = rec.authkeys /\ rec'.epoch = rec.epoch
        /\ rec \in Records
        /\ \A d \in Records' : d = rec' \/ d \in Records
        /\ \A h \in Slots : \A d \in Bases(h)' : (d = rec' /\ rec \in Bases(h)) \/ d \in Bases(h)
    BY DEF Edits, Remains, Records, Bases
  <1>2. Stragglers' = Stragglers /\ \A h \in Slots : Pushed(h)' = Pushed(h)
    BY <1>1 DEF Stragglers, Active, Pushed, Answering
  <1>3. dev'.epoch < next'.epoch /\ \A h \in Slots : slot'[h].reply.epoch < next'.epoch
    <2>1. next.epoch <= next'.epoch /\ next.epoch \in Int /\ next'.epoch \in Int
      BY DEF Edits, Draws, Numbered
    <2>2. dev.epoch < next.epoch /\ \A h \in Slots : slot[h].reply.epoch < next.epoch
      BY DEF KeysKept
    <2>3. dev.epoch \in Int /\ \A h \in Slots : slot[h].reply.epoch \in Int
      BY DEF Numbered
    <2> QED BY <1>1, <2>1, <2>2, <2>3
  <1> QED BY <1>1, <1>2, <1>3 DEF KeysKept, Kept, AtMostOne

\* Rotation keeps the newest key as the older of two.
LEMMA AddKeyKeeps ==
    ASSUME NEW keys \in Seq(Keys), keys # << >>, Len(keys) <= 2, NEW key \in Keys
    PROVE  /\ Len(AddKey(keys, key)) = 2
           /\ AddKey(keys, key)[1] = keys[Len(keys)]
           /\ AddKey(keys, key)[2] = key
  <1> DEFINE all == Append(keys, key)
  <1>1. /\ all \in Seq(Keys) /\ Len(all) = Len(keys) + 1
        /\ all[Len(keys)] = keys[Len(keys)] /\ all[Len(keys) + 1] = key
        /\ Len(keys) \in {1, 2}
    <2>1. Len(keys) \in Nat /\ Len(keys) # 0
      OBVIOUS
    <2>2. Len(keys) \in {1, 2}
      <3>1. \A n \in Nat : n # 0 /\ n <= 2 => n \in {1, 2}
        OBVIOUS
      <3> QED BY <2>1, <3>1
    <2>3. all \in Seq(Keys) /\ Len(all) = Len(keys) + 1 /\ all[Len(keys) + 1] = key
      OBVIOUS
    <2>4. all[Len(keys)] = keys[Len(keys)]
      BY <2>2
    <2> QED BY <2>2, <2>3, <2>4
  <1>2. CASE Len(keys) = 1
    <2>1. AddKey(keys, key) = all
      BY <1>1, <1>2 DEF AddKey
    <2> HIDE DEF all
    <2> QED BY <1>1, <1>2, <2>1
  <1>3. CASE Len(keys) = 2
    <2>1. AddKey(keys, key) = SubSeq(all, 2, 3)
      BY <1>1, <1>3 DEF AddKey
    <2> HIDE DEF all
    <2>2. SubSeq(all, 2, 3) = [i \in 1..2 |-> all[i + 1]]
      BY <1>1, <1>3
    <2>3. \A i \in 1..3 : all[i] \in Keys
      BY <1>1, <1>3
    <2> DEFINE cut == [i \in 1..2 |-> all[i + 1]]
    <2>4. cut \in Seq(Keys) /\ Len(cut) = 2 /\ cut[1] = all[2] /\ cut[2] = all[3]
      BY <2>3
    <2>5. AddKey(keys, key) = cut
      BY <2>1, <2>2
    <2> HIDE DEF cut
    <2> QED BY <1>1, <1>3, <2>4, <2>5
  <1> QED BY <1>1, <1>2, <1>3

\* The device's key, and the one it is sent, survive the rotation: the request
\* that causes it is the only straggler, so no other can push the key out.
LEMMA RotatesKept ==
    ASSUME Numbered, Numbered', KInv, KeysKept, FewStragglers, NEW h \in Slots, Rotates(h)
    PROVE  KeysKept'
  <1> DEFINE n == next.key
  <1>0. Commits(h)
    BY DEF Rotates
  <1>1. /\ \A g \in Slots : Active(g)' => Active(g) /\ slot'[g] = slot[g] /\ g # h
        /\ \A g \in Slots : g # h => (Pushed(g)' <=> Pushed(g))
        /\ \A g \in Slots : g # h /\ Answering(g)' =>
                 /\ Answering(g) /\ slot'[g] = slot[g]
                 /\ rec \in Bases(g)
                 /\ \A d \in Bases(g)' : d = rec' \/ d \in Bases(g)
        /\ Bases(h)' = {rec'}
        /\ rec \in Records
        /\ \A d \in Records' : d = rec' \/ d \in Records
        /\ Active(h)
    BY <1>0, CommitsParts
  <1>2. /\ dev' = dev /\ rec'.epoch = rec.epoch /\ rec'.authkeys = AddKey(rec.authkeys, n)
        /\ slot[h].body.key = DefaultKey
    BY <1>0 DEF Commits, Rotates, Used
  <1>3. n \in Keys /\ rec.authkeys \in Seq(Keys) /\ Len(rec.authkeys) <= 2
    BY <1>1 DEF Numbered, Keys, DefaultKey
  <1>4. /\ Len(rec'.authkeys) \in {1, 2} /\ rec'.authkeys # << >>
        /\ rec'.authkeys[Len(rec'.authkeys)] = n
    <2> DEFINE ks == AddKey(rec.authkeys, n)
    <2>1. ks \in Seq(Keys) /\ Len(ks) \in {1, 2} /\ ks[Len(ks)] = n
      BY <1>3, AddKeyType
    <2> HIDE DEF ks
    <2>2. ks # << >>
      BY <2>1
    <2> QED BY <1>2, <2>1, <2>2 DEF ks
  <1>5. rec.authkeys # << >> =>
           Len(rec'.authkeys) = 2 /\ rec'.authkeys[1] = rec.authkeys[Len(rec.authkeys)]
    BY <1>2, <1>3, AddKeyKeeps
  <1>6. Stragglers' \subseteq Stragglers \ {h}
    BY <1>1, <1>2 DEF Stragglers
  <1>7. ASSUME h \in Stragglers, AtMostOne(Stragglers)
        PROVE  /\ Stragglers' = {}
               /\ \A k : Kept(rec, k) => k = rec.authkeys[Len(rec.authkeys)] /\ rec.authkeys # << >>
               /\ \A d, k : Kept(d, k) => d.authkeys # << >> /\ k = d.authkeys[Len(d.authkeys)]
    BY <1>6, <1>7 DEF AtMostOne, Kept
  <1>8. /\ dev'.epoch < next'.epoch
        /\ \A g \in Slots : slot'[g].reply.epoch < next'.epoch
    <2>1. next.epoch <= next'.epoch /\ next.epoch \in Int /\ next'.epoch \in Int
      BY <1>0 DEF Commits, Draws, Numbered
    <2>2. /\ dev.epoch < next.epoch /\ rec.epoch < next.epoch
          /\ \A g \in Slots : slot[g].reply.epoch < next.epoch
      BY <1>1 DEF KeysKept, Numbered
    <2>3. /\ dev.epoch \in Int /\ rec.epoch \in Int
          /\ \A g \in Slots : slot[g].reply.epoch \in Int
      BY <1>1 DEF Numbered
    <2>4. dev.epoch < next'.epoch /\ rec.epoch < next'.epoch
          /\ \A g \in Slots : slot[g].reply.epoch < next'.epoch
      BY <2>1, <2>2, <2>3
    <2>5. slot'[h].reply.epoch = rec.epoch
      BY DEF Rotates
    <2> QED BY <1>0, <1>2, <2>4, <2>5 DEF Commits
  <1>9. ASSUME dev.key # DefaultKey
        PROVE  /\ AtMostOne(Stragglers)'
               /\ \A d \in Records' : dev'.epoch = d.epoch => Kept(d, dev.key)'
    <2>1. AtMostOne(Stragglers)
      BY <1>9 DEF KeysKept
    <2>2. h \in Stragglers
      <3>1. h # dev.conn
        BY <1>1, <1>2, <1>9, SlotAssumption DEF KInv, Waiting
      <3> QED BY <1>1, <1>2, <3>1 DEF Stragglers
    <2>3. Stragglers' = {}
      BY <1>7, <2>1, <2>2
    <2>4. ASSUME NEW d \in Records', dev'.epoch = d.epoch
          PROVE  Kept(d, dev.key)'
      <3>1. CASE d = rec'
        <4>1. Kept(rec, dev.key)
          BY <1>1, <1>2, <1>9, <2>4, <3>1 DEF KeysKept
        <4>2. dev.key = rec.authkeys[Len(rec.authkeys)] /\ rec.authkeys # << >>
          BY <1>7, <2>1, <2>2, <4>1
        <4> QED BY <1>2, <1>4, <1>5, <2>3, <3>1, <4>2 DEF Kept
      <3>2. CASE d \in Records
        <4>1. Kept(d, dev.key)
          BY <1>2, <1>9, <2>4, <3>2 DEF KeysKept
        <4> QED BY <1>2, <2>3, <4>1 DEF Kept
      <3> QED BY <1>1, <3>1, <3>2
    <2>5. AtMostOne(Stragglers)'
      BY <2>3 DEF AtMostOne
    <2> QED BY <2>4, <2>5
  <1>10. ASSUME NEW i \in Slots, Pushed(i)', slot'[i].reply.key # NoKey,
                NEW d \in Bases(i)', d.epoch = slot'[i].reply.epoch
         PROVE  Kept(d, slot[i].reply.key)'
    <2>1. CASE i = h
      <3>1. d = rec' /\ slot'[i].reply.key = n
        BY <1>1, <1>10, <2>1 DEF Rotates
      <3> QED BY <1>4, <3>1 DEF Kept
    <2>2. CASE i # h
      <3>1. Pushed(i) /\ Answering(i)' /\ slot'[i] = slot[i]
        BY <1>1, <1>10, <2>2 DEF Pushed
      <3>2. h \in Stragglers /\ AtMostOne(Stragglers)
        BY <1>1, <1>2, <2>2, <3>1, SlotAssumption DEF Stragglers, FewStragglers, Pushed
      <3>3. Stragglers' = {}
        BY <1>7, <3>2
      <3>4. CASE d = rec'
        <4>1. Kept(rec, slot[i].reply.key)
          BY <1>1, <1>2, <1>10, <2>2, <3>1, <3>4 DEF KeysKept
        <4>2. slot[i].reply.key = rec.authkeys[Len(rec.authkeys)] /\ rec.authkeys # << >>
          BY <1>7, <3>2, <4>1
        <4> QED BY <1>4, <1>5, <3>1, <3>3, <3>4, <4>2 DEF Kept
      <3>5. CASE d \in Bases(i)
        <4>1. Kept(d, slot[i].reply.key)
          BY <1>10, <3>1, <3>5 DEF KeysKept
        <4> QED BY <3>1, <3>3, <4>1 DEF Kept
      <3> QED BY <1>1, <1>10, <2>2, <3>1, <3>4, <3>5
    <2> QED BY <2>1, <2>2
  <1> QED BY <1>2, <1>8, <1>9, <1>10 DEF KeysKept

\* A cycle that keeps the assignment keeps the kept keys; a key sent again is the
\* newest.
LEMMA ServesKept ==
    ASSUME Numbered, Numbered', KInv, KeysKept, NEW h \in Slots, Serves(h)
    PROVE  KeysKept'
  <1>0. Commits(h) /\ Remains(rec')
    BY DEF Serves, Outcome
  <1>1. /\ \A g \in Slots : Active(g)' => Active(g) /\ slot'[g] = slot[g] /\ g # h
        /\ \A g \in Slots : g # h => (Pushed(g)' <=> Pushed(g))
        /\ \A g \in Slots : g # h /\ Answering(g)' =>
                 /\ Answering(g) /\ slot'[g] = slot[g]
                 /\ rec \in Bases(g)
                 /\ \A d \in Bases(g)' : d = rec' \/ d \in Bases(g)
        /\ Bases(h)' = {rec'}
        /\ rec \in Records
        /\ \A d \in Records' : d = rec' \/ d \in Records
    BY <1>0, CommitsParts
  <1>2. dev' = dev /\ rec'.epoch = rec.epoch /\ rec'.authkeys = rec.authkeys
    BY <1>0 DEF Commits, Remains
  <1>3. Stragglers' \subseteq Stragglers
    BY <1>1, <1>2 DEF Stragglers
  <1>4. /\ dev'.epoch < next'.epoch
        /\ \A g \in Slots : slot'[g].reply.epoch < next'.epoch
    <2>1. next.epoch <= next'.epoch /\ next.epoch \in Int /\ next'.epoch \in Int
      BY <1>0 DEF Commits, Draws, Numbered
    <2>2. dev.epoch < next.epoch /\ \A g \in Slots : slot[g].reply.epoch < next.epoch
      BY DEF KeysKept
    <2>3. dev.epoch \in Int /\ \A g \in Slots : slot[g].reply.epoch \in Int
      BY DEF Numbered
    <2>4. dev.epoch < next'.epoch /\ \A g \in Slots : slot[g].reply.epoch < next'.epoch
      BY <2>1, <2>2, <2>3
    <2>5. slot'[h].reply.epoch < next'.epoch
      <3>1. slot'[h].reply.epoch \in {rec.epoch, 0}
        BY <1>2 DEF Serves, Outcome
      <3>2. rec.epoch < next.epoch /\ rec.epoch \in Int /\ 0 < next.epoch
        BY <1>1 DEF Numbered
      <3> QED BY <2>1, <3>1, <3>2
    <2> QED BY <1>0, <1>2, <2>4, <2>5 DEF Commits
  <1>5. dev'.key # DefaultKey =>
          /\ AtMostOne(Stragglers)'
          /\ \A d \in Records' : dev'.epoch = d.epoch => Kept(d, dev.key)'
    BY <1>1, <1>2, <1>3, FewOn DEF KeysKept, Kept
  <1>6. ASSUME NEW i \in Slots, Pushed(i)', slot'[i].reply.key # NoKey,
               NEW d \in Bases(i)', d.epoch = slot'[i].reply.epoch
        PROVE  Kept(d, slot[i].reply.key)'
    <2>1. CASE i = h
      <3>1. d = rec' /\ slot'[i].reply.key = rec.xAuthkey /\ rec.xAuthkey # NoKey
        BY <1>1, <1>6, <2>1 DEF Serves, Outcome, Pushed
      <3>2. rec.authkeys # << >> /\ rec.xAuthkey = rec.authkeys[Len(rec.authkeys)]
        BY <1>1, <3>1 DEF Numbered
      <3> QED BY <1>2, <3>1, <3>2 DEF Kept
    <2>2. CASE i # h
      <3>1. Pushed(i) /\ Answering(i)' /\ slot'[i] = slot[i]
        BY <1>1, <1>6, <2>2 DEF Pushed
      <3>2. CASE d = rec'
        <4>1. Kept(rec, slot[i].reply.key)
          BY <1>1, <1>2, <1>6, <2>2, <3>1, <3>2 DEF KeysKept
        <4> QED BY <1>2, <1>3, <3>1, <3>2, <4>1, FewOn DEF Kept
      <3>3. CASE d \in Bases(i)
        <4>1. Kept(d, slot[i].reply.key)
          BY <1>6, <3>1, <3>3 DEF KeysKept
        <4> QED BY <1>3, <3>1, <4>1, FewOn DEF Kept
      <3> QED BY <1>1, <1>6, <2>2, <3>1, <3>2, <3>3
    <2> QED BY <2>1, <2>2
  <1> QED BY <1>2, <1>4, <1>5, <1>6 DEF KeysKept

\* While few informs are stale every step keeps the device's key.
LEMMA StepKept ==
    ASSUME Numbered, Numbered', KInv, KeysKept, FewStragglers, Step
    PROVE  KeysKept'
  BY RecedesKept, ResetsKept, RebornKept, EditsKept, AsksKept, ObeysKept, RotatesKept,
     ServesKept DEF Step

-----------------------------------------------------------------------------
(* Cfgversions are drawn in order                                           *)

\* What a step may put where a cfgversion is kept.
LEMMA DrawnOn ==
    ASSUME Numbered, Numbered', VersionsDrawn, next.version <= next'.version,
           dev'.cfg \in {dev.cfg, NoVersion} \cup {slot[h].reply.cfg : h \in Slots},
           \A g \in Slots : \/ slot'[g].reply.cfg \in {slot[g].reply.cfg, NoVersion}
                            \/ slot'[g].reply.cfg < next'.version,
           \A d \in Records' :
              \/ d \in Records
              \/ /\ d.cfgVersion < next'.version
                 /\ d.xAuthkey # NoKey => d.cfgVersion # NoVersion
    PROVE  VersionsDrawn'
  <1>1. /\ next.version <= next'.version /\ next.version \in Nat \ {0}
        /\ next'.version \in Nat \ {0} /\ NoVersion < next'.version
    BY DEF Numbered, NoVersion
  <1>2. /\ dev.cfg < next.version /\ dev.cfg \in Nat
        /\ \A g \in Slots : slot[g].reply.cfg < next.version /\ slot[g].reply.cfg \in Nat
        /\ \A d \in Records : d.cfgVersion < next.version /\ d.cfgVersion \in Nat
    BY DEF VersionsDrawn, Numbered
  <1>3. /\ dev.cfg < next'.version
        /\ \A g \in Slots : slot[g].reply.cfg < next'.version
        /\ \A d \in Records : d.cfgVersion < next'.version
    BY <1>1, <1>2
  <1>4. dev'.cfg < next'.version /\ \A g \in Slots : slot'[g].reply.cfg < next'.version
    BY <1>1, <1>3
  <1>5. \A d \in Records' : d.cfgVersion < next'.version
    BY <1>3
  <1>6. \A d \in Records' : d.xAuthkey # NoKey => d.cfgVersion # NoVersion
    BY DEF VersionsDrawn
  <1> QED BY <1>4, <1>5, <1>6 DEF VersionsDrawn

\* A step that draws no name.
LEMMA QuietVersions ==
    ASSUME Numbered, Numbered', VersionsDrawn,
           Recedes \/ Resets \/ \E h \in Slots : Asks(h) \/ Obeys(h)
    PROVE  VersionsDrawn'
  <1>1. next.version <= next'.version
    BY DEF Recedes, Resets, Asks, Obeys, Numbered
  <1>2. dev'.cfg \in {dev.cfg, NoVersion} \cup {slot[h].reply.cfg : h \in Slots}
    BY DEF Recedes, Resets, Asks, Obeys, SameDevice, FactoryDevice
  <1>3. \A g \in Slots : slot'[g].reply.cfg \in {slot[g].reply.cfg, NoVersion}
    <2>1. CASE Recedes
      BY <2>1 DEF Recedes, Rests, GoesOn
    <2>2. CASE Resets
      BY <2>2 DEF Resets, Rests
    <2>3. CASE \E h \in Slots : Asks(h)
      BY <2>3 DEF Asks, Bare
    <2>4. CASE \E h \in Slots : Obeys(h)
      BY <2>4 DEF Obeys, IdleSlot, Bare
    <2> QED BY <2>1, <2>2, <2>3, <2>4
  <1>4. Records' \subseteq Records
    BY DEF Recedes, Resets, Asks, Obeys, Records
  <1> QED BY <1>1, <1>2, <1>3, <1>4, DrawnOn

\* An assignment comes with a cfgversion, and a record keeps both or has a new one.
LEMMA StepVersions ==
    ASSUME Numbered, Numbered', VersionsDrawn, Step
    PROVE  VersionsDrawn'
  <1>1. ASSUME Draws, dev' = dev, disk' = disk,
               \A g \in Slots : \/ slot'[g].reply.cfg \in {slot[g].reply.cfg, NoVersion}
                                \/ slot'[g].reply.cfg < next'.version,
               rec'.xAuthkey # NoKey => rec'.cfgVersion # NoVersion
        PROVE  VersionsDrawn'
    <2>1. \A d \in Records' : d = rec' \/ d \in Records
      BY <1>1 DEF Records
    <2>2. next.version <= next'.version /\ rec'.cfgVersion < next'.version
      BY <1>1 DEF Draws
    <2> QED BY <1>1, <2>1, <2>2, DrawnOn
  <1>2. ASSUME rec # NoRecord, Remains(rec')
        PROVE  rec'.xAuthkey # NoKey => rec'.cfgVersion # NoVersion
    <2>1. rec \in Records
      BY <1>2 DEF Records
    <2> QED BY <1>2, <2>1 DEF Remains, VersionsDrawn, Numbered, NoVersion
  <1>3. CASE Reborn
    <2>1. \A g \in Slots : slot'[g].reply.cfg \in {slot[g].reply.cfg, NoVersion}
      BY <1>3 DEF Reborn, Rests
    <2> QED BY <1>1, <1>3, <2>1 DEF Reborn
  <1>4. CASE Edits
    BY <1>1, <1>2, <1>4 DEF Edits
  <1>5. ASSUME NEW h \in Slots, Rotates(h)
        PROVE  VersionsDrawn'
    <2>1. /\ Commits(h) /\ next.version # NoVersion
          /\ slot'[h].reply.cfg < next'.version /\ rec'.cfgVersion # NoVersion
      BY <1>5 DEF Rotates, Commits, Draws, Numbered, NoVersion
    <2>2. \A g \in Slots : \/ slot'[g].reply.cfg = slot[g].reply.cfg
                           \/ slot'[g].reply.cfg < next'.version
      BY <2>1 DEF Commits
    <2> QED BY <1>1, <2>1, <2>2 DEF Commits
  <1>6. ASSUME NEW h \in Slots, Serves(h)
        PROVE  VersionsDrawn'
    <2>1. /\ Commits(h) /\ Remains(rec') /\ rec # NoRecord
          /\ slot'[h].reply.cfg \in {rec'.cfgVersion, NoVersion}
          /\ rec'.cfgVersion < next'.version
      BY <1>6 DEF Serves, Outcome, Commits, Draws
    <2>2. NoVersion < next'.version
      BY DEF Numbered, NoVersion
    <2>3. \A g \in Slots : \/ slot'[g].reply.cfg = slot[g].reply.cfg
                           \/ slot'[g].reply.cfg < next'.version
      BY <2>1, <2>2 DEF Commits
    <2> QED BY <1>1, <1>2, <2>1, <2>3 DEF Commits
  <1> QED BY <1>3, <1>4, <1>5, <1>6, QuietVersions DEF Step

-----------------------------------------------------------------------------
(* The content that the device has                                          *)

\* A step in which nothing new happens.
LEMMA RecedesContent ==
    ASSUME Numbered, Numbered', VersionsDrawn, CInv, Recedes
    PROVE  CInv'
  <1>1. /\ SameDevice /\ next' = next /\ Records' \subseteq Records
        /\ dev'.conn = NoConn \/ dev'.conn = dev.conn
    BY DEF Recedes
  <1>2. \A g \in Slots : Active(g)' => Active(g) /\ slot'[g].body = slot[g].body
    BY DEF Recedes, Rests, GoesOn
  <1>4. AdoptedDelivers'
    BY <1>1 DEF CInv, AdoptedDelivers, Delivering
  <1>5. SameContent'
    <2>1. \A d, e \in Records : d.cfgVersion = e.cfgVersion
             => d.cfgVersion = NoVersion \/ Carrying(d, e.intent, SentSet(e))
      BY DEF CInv, SameContent, Records, Carrying
    <2> QED BY <1>1, <2>1 DEF SameContent, Records, Carrying, SentSet
  <1>6. AnswerContent'
    <2> SUFFICES ASSUME NEW h \in Slots, Answering(h)', slot'[h].reply.kind \in Telling
                 PROVE  /\ slot[h].reply = slot'[h].reply /\ Answering(h)
                        /\ Bases(h)' \subseteq Bases(h)
      BY <1>1, SlotAssumption DEF CInv, AnswerContent, TellsContent, Telling, SameDevice, Carrying, SentSet, Delivering
    <2> QED BY DEF Recedes, Rests, GoesOn
  <1>7. Filled'
    BY <1>1 DEF CInv, Filled, Delivering, Carrying, SentSet, SameDevice
  <1>8. Unfilled'
    BY <1>1, <1>2 DEF CInv, Unfilled, Delivering, SameDevice
  <1> QED BY <1>4, <1>5, <1>6, <1>7, <1>8 DEF CInv

\* The records stay, and no answer tells anything that it did not tell before.
LEMMA SameRecords ==
    ASSUME CInv, rec' = rec, disk' = disk,
           \A g \in Slots : Answering(g)' /\ slot'[g].reply.kind \in Telling
              => slot'[g] = slot[g] /\ ~(dev'.conn = g /\ slot'[g].reply.kind = "reconnect")
    PROVE  AdoptedDelivers' /\ SameContent' /\ AnswerContent'
  <1>1. Records' = Records
    BY DEF Records
  <1>2. AdoptedDelivers' /\ SameContent'
    BY <1>1 DEF CInv, AdoptedDelivers, SameContent, Delivering, Carrying, SentSet
  <1>3. AnswerContent'
    BY <1>1 DEF CInv, AnswerContent, TellsContent, Telling, Answering, Bases, Delivering, Carrying, SentSet
  <1> QED BY <1>2, <1>3

\* A reset device belongs to no incarnation.
LEMMA ResetsContent ==
    ASSUME Numbered, Numbered', KInv, VersionsDrawn, CInv, Resets
    PROVE  CInv'
  <1>1. dev'.cfg = NoVersion /\ dev'.epoch = 0 /\ dev'.conn = NoConn
    BY DEF Resets, FactoryDevice
  <1>2. AdoptedDelivers' /\ SameContent' /\ AnswerContent'
    BY <1>1, SameRecords, SlotAssumption DEF Resets, Rests
  <1>3. \A d \in Records' : d.epoch # dev'.epoch
    BY <1>1 DEF Resets, Records, KInv, KeysDrawn
  <1>4. Filled' /\ Unfilled'
    BY <1>3 DEF Filled, Unfilled
  <1> QED BY <1>2, <1>4 DEF CInv

\* A new request names the device's own cfgversion.
LEMMA AsksContent ==
    ASSUME Numbered, Numbered', VersionsDrawn, CInv, NEW h \in Slots, Asks(h)
    PROVE  CInv'
  <1>1. SameDevice /\ dev'.conn = h /\ Records' = Records
    BY DEF Asks, Records
  <1>2. AdoptedDelivers' /\ SameContent' /\ AnswerContent'
    <2>1. \A g \in Slots : Answering(g)' => g # h /\ slot'[g] = slot[g]
      BY DEF Asks, Answering
    <2> QED BY <1>1, <2>1, SameRecords DEF Asks
  <1>3. Filled'
    BY <1>1 DEF CInv, Filled, Delivering, Carrying, SentSet, SameDevice
  <1>4. Unfilled'
    BY <1>1 DEF CInv, Unfilled, Delivering, SameDevice, Asks, Active
  <1> QED BY <1>2, <1>3, <1>4 DEF CInv

\* An adoption push finds no record that the device has proved: a delivery cannot
\* have begun. Full provisioning brings the content of its cfgversion, a reconnect
\* push the blocked set of the device's.
LEMMA ObeysContent ==
    ASSUME Numbered, Numbered', KInv, VersionsDrawn, CInv, NEW h \in Slots, Obeys(h)
    PROVE  CInv'
  <1> DEFINE r == slot[h].reply
  <1>1. /\ Records' = Records /\ dev'.conn = NoConn /\ dev.conn = h
        /\ slot[h].phase = "reply" /\ Answering(h) /\ Bases(h) = Records
    BY DEF Obeys, Records, Answering, Bases
  <1>2. \A g \in Slots : Active(g)' => Active(g) /\ slot'[g] = slot[g]
    BY DEF Obeys, Active, IdleSlot
  <1>3. AdoptedDelivers' /\ SameContent' /\ AnswerContent'
    <2>1. \A g \in Slots : Answering(g)' => slot'[g] = slot[g]
      BY DEF Obeys, IdleSlot, Answering
    <2> QED BY <1>1, <2>1, SameRecords, SlotAssumption DEF Obeys
  <1>4. CASE r.kind = "push"
    <2>1. \A d \in Records : d.epoch = dev'.epoch => ~Proved(d)
      <3>1. Pushed(h)
        BY <1>1, <1>4 DEF Pushed
      <3> QED BY <1>1, <3>1 DEF Obeys, KInv, Untaken
    <2>2. Filled'
      BY <1>1, <2>1 DEF Filled, Proved, Delivering
    <2>3. Unfilled'
      BY <1>1, <1>2, <2>1 DEF Unfilled, Proved
    <2> QED BY <1>3, <2>2, <2>3 DEF CInv
  <1>5. CASE r.kind = "provision"
    <2>1. /\ dev'.cfg = r.cfg /\ dev'.intent = r.intent /\ dev'.blocked = r.blocked
          /\ dev'.key = dev.key /\ dev'.epoch = dev.epoch
      BY <1>5 DEF Obeys
    <2>2. \A d \in Records : d.cfgVersion = r.cfg => Carrying(d, r.intent, r.blocked) /\ Delivering(d)
      BY <1>1, <1>5 DEF CInv, AnswerContent, TellsContent
    <2>3. Filled'
      BY <1>1, <2>1, <2>2 DEF Filled, Carrying, SentSet
    <2>4. Unfilled'
      BY <1>1, <2>1, <2>2 DEF Unfilled, Delivering
    <2> QED BY <1>3, <2>3, <2>4 DEF CInv
  <1>6. CASE r.kind = "reconnect"
    <2>1. /\ dev'.cfg = dev.cfg /\ dev'.intent = dev.intent /\ dev'.blocked = r.blocked
          /\ dev'.key = dev.key /\ dev'.epoch = dev.epoch
      BY <1>6 DEF Obeys
    <2>2. \A d \in Records : d.cfgVersion = dev.cfg /\ dev.cfg # NoVersion
             => SentSet(d) = r.blocked
      BY <1>1, <1>6 DEF CInv, AnswerContent, TellsContent
    <2>3. \A d \in Records : Delivering(d) => d.cfgVersion # NoVersion
      BY DEF VersionsDrawn, Numbered
    <2>4. Filled'
      BY <1>1, <2>1, <2>2, <2>3 DEF CInv, Filled, Carrying, SentSet, Delivering
    <2>5. Unfilled'
      BY <1>1, <1>2, <2>1 DEF CInv, Unfilled, Delivering
    <2> QED BY <1>3, <2>4, <2>5 DEF CInv
  <1> QED BY <1>4, <1>5, <1>6 DEF Obeys, Telling

\* A new incarnation has no cfgversion and no delivery.
LEMMA RebornContent ==
    ASSUME Numbered, Numbered', VersionsDrawn, CInv, Reborn
    PROVE  CInv'
  <1>1. /\ dev' = dev /\ disk' = disk /\ rec' # NoRecord /\ rec'.xAuthkey = NoKey
        /\ rec'.cfgVersion = NoVersion /\ rec'.state = "pending" /\ ~Delivering(rec')
    BY DEF Reborn
  <1>2. \A d \in Records' : d = rec' \/ d \in Records
    BY <1>1 DEF Records
  <1>3. \A g \in Slots : Active(g)' => slot'[g] = slot[g]
    BY DEF Reborn, Rests
  <1>5. AdoptedDelivers'
    BY <1>1, <1>2 DEF CInv, AdoptedDelivers, Delivering
  <1>6. SameContent'
    BY <1>1 DEF SameContent
  <1>7. AnswerContent'
    <2> SUFFICES ASSUME NEW g \in Slots, Answering(g)', slot'[g] = slot[g]
                 PROVE  TellsContent(g)'
      BY <1>1 DEF AnswerContent, TellsContent, Reborn, Rests, Telling
    <2>1. Answering(g)
      BY DEF Answering
    <2>2. \A d \in Bases(g)' : d = rec' \/ d \in Bases(g)
      BY <1>1, <1>2 DEF Bases
    <2> QED BY <1>1, <1>2, <2>1, <2>2 DEF CInv, AnswerContent, TellsContent
  <1>8. Filled'
    BY <1>1, <1>2 DEF CInv, Filled, Delivering, Carrying, SentSet
  <1>9. Unfilled'
    <2>1. dev.key # NoKey
      BY DEF Numbered, NoKey
    <2> QED BY <1>1, <1>2, <1>3, <2>1 DEF CInv, Unfilled, Delivering, Active
  <1> QED BY <1>5, <1>6, <1>7, <1>8, <1>9 DEF CInv

\* A rotation draws a cfgversion that nobody has, and takes the delivery back.
LEMMA RotatesContent ==
    ASSUME Numbered, Numbered', VersionsDrawn, CInv, NEW h \in Slots, Rotates(h)
    PROVE  CInv'
  <1>1. /\ dev' = dev /\ disk' = disk /\ rec' # NoRecord /\ rec \in Records
        /\ rec'.cfgVersion = next.version /\ rec'.state = "adopting" /\ ~Delivering(rec')
        /\ slot'[h].reply.kind = "push" /\ slot'[h].reply.cfg = next.version
        /\ \A g \in Slots : g # h => slot'[g] = slot[g]
        /\ slot'[h].phase = "saving"
    BY DEF Rotates, Commits, Records
  <1>2. \A d \in Records' : d = rec' \/ d \in Records
    BY <1>1 DEF Records
  <1>3. \A g \in Slots : Active(g)' => slot'[g] = slot[g]
    BY <1>1 DEF Active
  <1>4. /\ dev.cfg # next.version
        /\ \A g \in Slots : slot[g].reply.cfg # next.version
        /\ \A d \in Records : d.cfgVersion # next.version
        /\ next.version # NoVersion
    BY DEF VersionsDrawn, Numbered, NoVersion
  <1>6. AdoptedDelivers'
    BY <1>1, <1>2 DEF CInv, AdoptedDelivers, Delivering
  <1>7. SameContent'
    BY <1>1, <1>4 DEF SameContent, Records
  <1>8. AnswerContent'
    <2> SUFFICES ASSUME NEW g \in Slots, Answering(g)', slot'[g] = slot[g]
                 PROVE  TellsContent(g)'
      BY <1>1 DEF AnswerContent, TellsContent
    <2>1. Answering(g)
      BY DEF Answering
    <2>2. \A d \in Bases(g)' : d = rec' \/ d \in Bases(g)
      BY <1>1, <1>2 DEF Bases
    <2> QED BY <1>1, <1>2, <1>4, <2>1, <2>2 DEF CInv, AnswerContent, TellsContent
  <1>9. Filled'
    BY <1>1, <1>2 DEF CInv, Filled, Delivering, Carrying, SentSet
  <1>10. Unfilled'
    BY <1>1, <1>2, <1>3, <1>4 DEF CInv, Unfilled, Delivering, Active
  <1> QED BY <1>6, <1>7, <1>8, <1>9, <1>10 DEF CInv

\* A step that leaves the record its cfgversion leaves it its content, or begins
\* the delivery; under a new cfgversion it writes content that nobody has.
LEMMA RemainsContent ==
    ASSUME Numbered, Numbered', VersionsDrawn, CInv, dev' = dev, disk' = disk,
           rec # NoRecord, rec' # NoRecord, Remains(rec'),
           rec'.cfgVersion # next.version => SentSet(rec') = SentSet(rec)
    PROVE  /\ AdoptedDelivers'
           /\ SameContent'
           /\ \A g \in Slots : Answering(g)' /\ slot'[g] = slot[g] => TellsContent(g)'
           /\ (Delivering(rec') /\ rec'.cfgVersion # next.version => Delivering(rec)) => Filled'
           /\ (\A g \in Slots : Active(g)' => slot'[g] = slot[g]) => Unfilled'
  <1>1. /\ rec \in Records
        /\ \A d \in Records' : d = rec' \/ d \in Records
        /\ \A e \in {rec, disk.rec} : e # NoRecord => e \in Records
    BY DEF Records
  <1>2. /\ dev.cfg # next.version
        /\ \A g \in Slots : slot[g].reply.cfg # next.version
        /\ \A d \in Records : d.cfgVersion # next.version
        /\ next.version # NoVersion
    BY DEF VersionsDrawn, Numbered, NoVersion
  <1>3. rec'.cfgVersion # next.version =>
           /\ rec'.cfgVersion = rec.cfgVersion
           /\ rec'.intent = rec.intent /\ SentSet(rec') = SentSet(rec)
    BY DEF Remains
  <1>4. AdoptedDelivers'
    <2>1. rec'.state \in {"adopted", "lost"} => Delivering(rec')
      BY <1>1 DEF Remains, CInv, AdoptedDelivers
    <2> QED BY <1>1, <2>1 DEF CInv, AdoptedDelivers, Delivering
  <1>5. SameContent'
    <2>1. CASE rec'.cfgVersion = next.version
      BY <1>1, <1>2, <2>1 DEF SameContent
    <2>2. CASE rec'.cfgVersion # next.version
      BY <1>1, <1>3, <2>2 DEF CInv, SameContent, Carrying, SentSet
    <2> QED BY <2>1, <2>2
  <1>6. ASSUME NEW g \in Slots, Answering(g)', slot'[g] = slot[g]
        PROVE  TellsContent(g)'
    <2>1. Answering(g)
      BY <1>6 DEF Answering
    <2>2. \A d \in Bases(g)' : (d = rec' /\ rec \in Bases(g)) \/ d \in Bases(g)
      BY <1>1, <1>6 DEF Bases, Records
    <2>3. TellsContent(g)
      BY <2>1 DEF CInv, AnswerContent
    <2>4. CASE rec'.cfgVersion = next.version
      BY <1>1, <1>2, <1>6, <2>2, <2>3, <2>4 DEF TellsContent, Carrying, SentSet, Delivering
    <2>5. CASE rec'.cfgVersion # next.version
      <3>1. Delivering(rec) => Delivering(rec')
        BY DEF Remains
      <3>2. \A i, b : Carrying(rec, i, b) => Carrying(rec, i, b)'
        BY <1>3, <2>5 DEF Carrying
      <3>3. slot[g].reply.kind = "provision" =>
               \A d \in Records' : d.cfgVersion = slot[g].reply.cfg =>
                  Carrying(d, slot[g].reply.intent, slot[g].reply.blocked)
        BY <1>1, <1>3, <2>3, <2>5 DEF TellsContent, Carrying, SentSet
      <3>4. slot[g].reply.kind = "provision" =>
               \A d \in Bases(g)' : d.cfgVersion = slot[g].reply.cfg => Delivering(d)
        BY <1>3, <2>2, <2>3, <2>5, <3>1 DEF TellsContent, Delivering
      <3>5. slot[g].reply.kind = "reconnect" /\ dev.conn = g =>
               \A d \in Records' : d.cfgVersion = dev.cfg /\ dev.cfg # NoVersion =>
                  SentSet(d) = slot[g].reply.blocked
        BY <1>1, <1>3, <2>3, <2>5 DEF TellsContent, SentSet
      <3> QED BY <1>6, <2>3, <3>3, <3>4, <3>5 DEF TellsContent, Carrying, SentSet, Delivering
    <2> QED BY <2>4, <2>5
  <1>7. ASSUME Delivering(rec') /\ rec'.cfgVersion # next.version => Delivering(rec)
        PROVE  Filled'
    <2> SUFFICES ASSUME NEW d \in Records', Delivering(d), dev.epoch = d.epoch, dev.cfg = d.cfgVersion
                 PROVE  Carrying(d, dev.intent, dev.blocked)
      BY DEF Filled, Delivering, Carrying, SentSet
    <2>1. CASE d = rec'
      <3>1. rec'.cfgVersion # next.version
        BY <1>2, <2>1
      <3>2. Delivering(rec)
        BY <1>7, <2>1, <3>1 DEF Delivering
      <3>3. Carrying(rec, dev.intent, dev.blocked)
        BY <1>1, <1>3, <2>1, <3>1, <3>2 DEF Remains, CInv, Filled
      <3> QED BY <1>3, <2>1, <3>1, <3>3 DEF Carrying, SentSet
    <2>2. CASE d \in Records
      BY <2>2 DEF CInv, Filled
    <2> QED BY <1>1, <2>1, <2>2
  <1>8. ASSUME \A g \in Slots : Active(g)' => slot'[g] = slot[g]
        PROVE  Unfilled'
    <2> SUFFICES ASSUME NEW d \in Records', ~Delivering(d), dev.epoch = d.epoch,
                        dev.cfg = d.cfgVersion, dev.key = d.xAuthkey,
                        NEW g \in Slots, Active(g)', slot'[g].body.key = d.xAuthkey
                 PROVE  slot'[g].body.cfg \in {d.cfgVersion, NoVersion}
      BY DEF Unfilled, Delivering
    <2>0. slot'[g] = slot[g] /\ Active(g)
      BY <1>8 DEF Active
    <2>1. CASE d = rec'
      <3>1. rec'.cfgVersion # next.version /\ ~Delivering(rec)
        BY <1>2, <2>1 DEF Remains, Delivering
      <3> QED BY <1>1, <1>3, <2>0, <2>1, <3>1 DEF Remains, CInv, Unfilled
    <2>2. CASE d \in Records
      BY <2>0, <2>2 DEF CInv, Unfilled
    <2> QED BY <1>1, <2>1, <2>2
  <1> QED BY <1>4, <1>5, <1>6, <1>7, <1>8

\* A verb changes the wanted content of a record only with its cfgversion.
LEMMA EditsContent ==
    ASSUME Numbered, Numbered', VersionsDrawn, CInv, Edits
    PROVE  CInv'
  BY RemainsContent DEF Edits, CInv, AnswerContent

\* A cycle writes and sends the content of the record's cfgversion. A delivery
\* begins only with full provisioning of a device that reports another cfgversion
\* with its assigned key, so that device has not got this one.
LEMMA ServesContent ==
    ASSUME Numbered, Numbered', KInv, VersionsDrawn, CInv, OnReport, NEW h \in Slots, Serves(h)
    PROVE  CInv'
  <1> DEFINE r == slot'[h].reply
  <1>1. /\ dev' = dev /\ disk' = disk /\ rec # NoRecord /\ rec' # NoRecord
        /\ slot[h].phase = "decoded" /\ slot'[h].phase = "saving"
        /\ Active(h) /\ ~Active(h)'
        /\ \A g \in Slots : g # h => slot'[g] = slot[g]
        /\ rec \in Records /\ Remains(rec')
    BY DEF Serves, Outcome, Commits, Active, Records
  <1>3. r.kind \in {"provision", "reconnect"} => Checked(h)
    BY <1>1 DEF OnReport
  <1>4. rec'.cfgVersion # next.version => SentSet(rec') = SentSet(rec)
    BY <1>3 DEF Serves, Outcome
  <1>5. /\ AdoptedDelivers' /\ SameContent'
        /\ \A g \in Slots : Answering(g)' /\ slot'[g] = slot[g] => TellsContent(g)'
        /\ (Delivering(rec') /\ rec'.cfgVersion # next.version => Delivering(rec)) => Filled'
        /\ (\A g \in Slots : Active(g)' => slot'[g] = slot[g]) => Unfilled'
    BY <1>1, <1>4, RemainsContent
  <1>6. Unfilled'
    BY <1>1, <1>5
  <1>7. \A d \in Records' : d = rec' \/ d = disk'.rec
    BY DEF Records
  <1>8. TellsContent(h)'
    <2>1. ASSUME r.kind = "provision"
          PROVE  /\ r.cfg # NoVersion
                 /\ \A d \in Records' : d.cfgVersion = r.cfg =>
                       d.intent = r.intent /\ SentSet(d) = r.blocked
                 /\ \A d \in Bases(h)' : d.cfgVersion = r.cfg => Delivering(d)
      <3>1. /\ r.cfg = rec'.cfgVersion /\ r.cfg # NoVersion
            /\ rec'.intent = r.intent /\ SentSet(rec') = r.blocked /\ Delivering(rec')
        BY <2>1 DEF Serves, Outcome, Carrying
      <3>2. Bases(h)' = {rec'}
        BY <1>1 DEF Bases
      <3>3. \A d \in Records' : d.cfgVersion = r.cfg =>
                       d.intent = r.intent /\ SentSet(d) = r.blocked
        BY <1>1, <1>5, <1>7, <3>1 DEF SameContent, Carrying, SentSet, Records
      <3> QED BY <3>1, <3>2, <3>3 DEF Delivering
    <2>2. ASSUME r.kind = "reconnect", dev.conn = h,
                 NEW d \in Records', d.cfgVersion = dev.cfg, dev.cfg # NoVersion
          PROVE  SentSet(d) = r.blocked
      <3>1. slot[h].body.cfg = rec.cfgVersion
        BY <1>3, <2>2 DEF Serves, Outcome, Checked
      <3>2. dev.cfg = rec.cfgVersion
        BY <1>1, <1>3, <2>2, <3>1, SlotAssumption DEF KInv, Waiting, Checked
      <3>3. rec'.cfgVersion = dev.cfg /\ SentSet(rec') = r.blocked
        BY <2>2, <3>2 DEF Serves, Outcome
      <3> QED BY <1>1, <1>5, <1>7, <2>2, <3>3 DEF SameContent, Carrying, SentSet, Records
    <2> QED BY <1>1, <2>1, <2>2 DEF TellsContent, Carrying, SentSet, Delivering
  <1>9. AnswerContent'
    BY <1>1, <1>5, <1>8 DEF AnswerContent
  <1>10. Filled'
    <2>1. CASE Delivering(rec') /\ rec'.cfgVersion # next.version => Delivering(rec)
      BY <1>5, <2>1
    <2>2. CASE Delivering(rec') /\ rec'.cfgVersion # next.version /\ ~Delivering(rec)
      <3>1. /\ OnAssigned(rec, Used(h)) /\ Checked(h)
            /\ slot[h].body.cfg \notin {rec.cfgVersion, NoVersion}
        BY <1>3, <2>2 DEF Serves, Outcome, Checked
      <3>2. slot[h].body.key = rec.xAuthkey /\ rec.xAuthkey # NoKey
        BY <3>1 DEF OnAssigned, Used
      <3>3. dev.key \in {DefaultKey, rec.xAuthkey}
        BY <1>1, <3>2 DEF KInv, OneKey, Proved
      <3>4. dev.epoch = rec.epoch => dev.key = rec.xAuthkey
        BY <1>1, <3>3 DEF KInv, KeysDrawn, Numbered
      <3>5. dev.epoch # rec.epoch \/ dev.cfg # rec.cfgVersion
        BY <1>1, <2>2, <3>1, <3>2, <3>4 DEF CInv, Unfilled
      <3>6. rec'.epoch = rec.epoch /\ rec'.cfgVersion = rec.cfgVersion
        BY <2>2 DEF Serves, Outcome, Remains
      <3>7. \A d \in Records' : d = rec' \/ d \in Records
        BY <1>1 DEF Records
      <3> QED BY <1>1, <3>5, <3>6, <3>7 DEF CInv, Filled, Delivering, Carrying, SentSet
    <2> QED BY <2>1, <2>2
  <1> QED BY <1>5, <1>6, <1>9, <1>10 DEF CInv

\* Every step keeps what a cfgversion tells about the content.
LEMMA StepContent ==
    ASSUME Numbered, Numbered', KInv, VersionsDrawn, CInv, OnReport, Step
    PROVE  CInv'
  BY RecedesContent, ResetsContent, RebornContent, EditsContent, AsksContent, ObeysContent,
     RotatesContent, ServesContent DEF Step

-----------------------------------------------------------------------------
(* Which informs name a cfgversion                                          *)

\* Nothing is asked and nothing is told: no new inform and no new answer.
LEMMA RecedesUnnumbered ==
    ASSUME Numbered, Numbered', Unnumbered, Recedes
    PROVE  Unnumbered'
  <1>1. SameDevice /\ Records' \subseteq Records
    BY DEF Recedes
  <1>2. \A g \in Slots : /\ Active(g)' => Active(g) /\ slot'[g].body = slot[g].body
                         /\ slot'[g].lane = "encrypted"
    BY DEF Recedes, Rests, GoesOn, Unnumbered
  <1>3. \A g \in Slots : Answering(g)' /\ slot'[g].reply.kind \in Telling
           => Answering(g) /\ slot'[g].reply = slot[g].reply
    BY DEF Recedes, Rests, GoesOn
  <1> QED BY <1>1, <1>2, <1>3 DEF Unnumbered, SameDevice, Telling

\* A device with the factory key has no assigned key.
LEMMA ResetsUnnumbered ==
    ASSUME Numbered, Numbered', Unnumbered, Resets
    PROVE  Unnumbered'
  <1>1. Records' = Records /\ dev'.key = DefaultKey
    BY DEF Resets, Records, FactoryDevice
  <1>2. \A g \in Slots : /\ Active(g)' => slot'[g] = slot[g]
                         /\ Answering(g)' /\ slot'[g].reply.kind \in Telling => slot'[g] = slot[g]
                         /\ slot'[g].lane = "encrypted"
    BY DEF Resets, Rests, Unnumbered
  <1>3. \A d \in Records : d.xAuthkey # DefaultKey
    BY DEF Numbered
  <1> QED BY <1>1, <1>2, <1>3 DEF Unnumbered, Telling, Active, Answering

\* An inform names the cfgversion of the device.
LEMMA AsksUnnumbered ==
    ASSUME Numbered, Numbered', Unnumbered, NEW h \in Slots, Asks(h),
           spent'.reports = 0 \/ ("plain" \notin Lanes /\ "Sparse" \notin Ops)
    PROVE  Unnumbered'
  <1>1. /\ Records' = Records /\ SameDevice
        /\ \A g \in Slots : g # h => slot'[g] = slot[g]
        /\ slot'[h].body.key = dev.key /\ slot'[h].body.cfg = dev.cfg
        /\ ~Answering(h)' /\ slot'[h].lane = "encrypted"
    BY LaneAssumption DEF Asks, Records, Answering
  <1> QED BY <1>1 DEF Unnumbered, SameDevice, Active, Answering

\* A push without a cfgversion brings no key, and its device has not got the one
\* that is assigned.
LEMMA ObeysUnnumbered ==
    ASSUME Numbered, Numbered', KInv, Unnumbered, NEW h \in Slots, Obeys(h)
    PROVE  Unnumbered'
  <1>1. /\ Records' = Records /\ Bases(h) = Records /\ Answering(h)
        /\ \A g \in Slots : g # h => slot'[g] = slot[g]
        /\ slot'[h] = IdleSlot
    BY DEF Obeys, Records, Answering, Bases
  <1>2. ASSUME NEW d \in Records, dev'.cfg = NoVersion
        PROVE  dev'.key # d.xAuthkey
    <2>1. CASE slot[h].reply.kind = "push"
      <3>1. Pushed(h) /\ slot[h].reply.cfg = NoVersion
        BY <1>1, <1>2, <2>1 DEF Obeys, Pushed
      <3>2. dev'.key = dev.key
        BY <1>1, <2>1, <3>1 DEF Unnumbered, Obeys
      <3> QED BY <1>1, <3>1, <3>2 DEF KInv, Untaken
    <2>2. CASE slot[h].reply.kind = "provision"
      BY <1>1, <1>2, <2>2 DEF Obeys, Unnumbered
    <2>3. CASE slot[h].reply.kind = "reconnect"
      BY <1>2, <2>3 DEF Obeys, Unnumbered
    <2> QED BY <2>1, <2>2, <2>3 DEF Obeys, Telling
  <1>3. ~Active(h)' /\ ~Answering(h)' /\ slot'[h].lane = "encrypted"
    BY <1>1 DEF IdleSlot, Active, Answering
  <1> QED BY <1>1, <1>2, <1>3 DEF Unnumbered, Active, Answering

\* A new incarnation has no key.
LEMMA RebornUnnumbered ==
    ASSUME Numbered, Numbered', Unnumbered, Reborn
    PROVE  Unnumbered'
  <1>1. /\ dev' = dev /\ rec'.xAuthkey = NoKey
        /\ \A d \in Records' : d = rec' \/ d \in Records
    BY DEF Reborn, Records
  <1>2. /\ dev.key # NoKey
        /\ \A g \in Slots : slot[g].body.key # NoKey
    BY DEF Numbered, NoKey
  <1>3. \A g \in Slots : /\ Active(g)' => slot'[g] = slot[g]
                         /\ Answering(g)' /\ slot'[g].reply.kind \in Telling => slot'[g] = slot[g]
                         /\ slot'[g].lane = "encrypted"
    BY DEF Reborn, Rests, Unnumbered
  <1> QED BY <1>1, <1>2, <1>3 DEF Unnumbered, Telling, Active, Answering

\* Nobody has the next key yet, and its push names a cfgversion.
LEMMA RotatesUnnumbered ==
    ASSUME Numbered, Numbered', KInv, Unnumbered, NEW h \in Slots, Rotates(h)
    PROVE  Unnumbered'
  <1>1. /\ dev' = dev /\ rec'.xAuthkey = next.key
        /\ slot'[h].reply.cfg = next.version /\ slot'[h].lane = "encrypted"
        /\ ~Active(h)'
        /\ \A g \in Slots : g # h => slot'[g] = slot[g]
        /\ \A d \in Records' : d = rec' \/ d \in Records
    BY DEF Rotates, Commits, Records, Active
  <1>2. /\ dev.key # next.key /\ next.version # NoVersion
        /\ \A g \in Slots : slot[g].body.key # next.key
    BY DEF KInv, KeysDrawn, Numbered, NoVersion
  <1> QED BY <1>1, <1>2 DEF Unnumbered, Active, Answering

\* A record with an assignment has a cfgversion, which its push names.
LEMMA ServesUnnumbered ==
    ASSUME Numbered, Numbered', VersionsDrawn, Unnumbered, NEW h \in Slots, Serves(h)
    PROVE  Unnumbered'
  <1>1. /\ dev' = dev /\ rec'.xAuthkey = rec.xAuthkey /\ rec \in Records
        /\ slot'[h].lane = "encrypted" /\ ~Active(h)'
        /\ \A g \in Slots : g # h => slot'[g] = slot[g]
        /\ \A d \in Records' : d = rec' \/ d \in Records
    BY DEF Serves, Outcome, Commits, Records, Active, Remains
  <1>2. slot'[h].reply.cfg = NoVersion => /\ slot'[h].reply.kind # "provision"
                                          /\ slot'[h].reply.kind = "push" => slot'[h].reply.key = NoKey
    <2>1. rec.xAuthkey # NoKey => rec'.cfgVersion # NoVersion
      BY <1>1 DEF Serves, Outcome, Remains, VersionsDrawn, Numbered, NoVersion
    <2> QED BY <2>1 DEF Serves, Outcome
  <1> QED BY <1>1, <1>2 DEF Unnumbered, Active, Answering

\* With periodic informs only, or with those that the code's default flags admit, a
\* device that has its assigned key has a cfgversion and names it.
LEMMA StepUnnumbered ==
    ASSUME Numbered, Numbered', KInv, VersionsDrawn, Unnumbered, Step,
           spent'.reports = 0 \/ ("plain" \notin Lanes /\ "Sparse" \notin Ops)
    PROVE  Unnumbered'
  <1>1. CASE Edits
    <2>1. /\ dev' = dev /\ slot' = slot /\ rec'.xAuthkey = rec.xAuthkey /\ rec \in Records
          /\ \A d \in Records' : d = rec' \/ d \in Records
      BY <1>1 DEF Edits, Remains, Records
    <2> QED BY <2>1 DEF Unnumbered, Active, Answering
  <1> QED BY <1>1, RecedesUnnumbered, ResetsUnnumbered, RebornUnnumbered, AsksUnnumbered,
             ObeysUnnumbered, RotatesUnnumbered, ServesUnnumbered DEF Step

\* And content leaves only in answer to informs that name one.
LEMMA StepOnReport ==
    ASSUME Unnumbered, Step
    PROVE  OnReport
  <1> SUFFICES ASSUME NEW h \in Slots, slot[h].phase = "decoded", slot'[h].phase = "saving",
                      slot'[h].reply.kind \in {"provision", "reconnect"}
               PROVE  Checked(h)
    BY DEF OnReport
  <1>1. Active(h) /\ Answering(h)' /\ ~Answering(h) /\ slot'[h].reply.kind \in Telling
    BY DEF Active, Answering, Telling
  <1>2. Serves(h)
    <2>1. ~Recedes /\ ~Resets /\ ~Reborn /\ ~Edits
      BY <1>1 DEF Recedes, Resets, Reborn, Edits, Rests, GoesOn
    <2>2. \A g \in Slots : ~Asks(g) /\ ~Obeys(g)
      BY <1>1 DEF Asks, Obeys, IdleSlot
    <2>3. \A g \in Slots : g # h => ~Rotates(g) /\ ~Serves(g)
      BY DEF Rotates, Serves, Outcome, Commits
    <2>4. ~Rotates(h)
      BY DEF Rotates
    <2> QED BY <2>1, <2>2, <2>3, <2>4 DEF Step
  <1>3. slot[h].body.key = rec.xAuthkey /\ rec \in Records
    BY <1>2 DEF Serves, Outcome, Commits, OnAssigned, Used, Records
  <1> QED BY <1>1, <1>3 DEF Unnumbered, Checked

-----------------------------------------------------------------------------
(* The cycles of the engine, as such steps                                  *)

\* The types and the key discipline give the shape of what the steps handle.
LEMMA RInvNumbered == RInv => Numbered
  <1> SUFFICES ASSUME RInv PROVE Numbered
    OBVIOUS
  <1>1. TypeOK /\ KeyDiscipline /\ EpochsUsed /\ KeysUsed
    BY DEF RInv, IInv
  <1>2. /\ dev.key \in Nat /\ dev.cfg \in Nat /\ dev.epoch \in Nat
        /\ dev.conn \in Slots \cup {NoConn}
        /\ next.key \in Nat \ {0} /\ next.version \in Nat \ {0} /\ next.epoch \in Nat \ {0}
    BY <1>1 DEF TypeOK, DeviceStates, Keys, DefaultKey
  <1>3. \A h \in Slots :
          /\ slot[h].body.key \in Nat /\ slot[h].body.cfg \in Nat
          /\ slot[h].reply.key \in Int \ {DefaultKey}
          /\ slot[h].reply.cfg \in Nat /\ slot[h].reply.epoch \in Nat
    BY <1>1, SlotType DEF Used, ReplyOK, Replies, Bodies, Keys, DefaultKey, NoKey
  <1>4. ASSUME NEW d \in Records
        PROVE  /\ d.xAuthkey \in Int \ {DefaultKey} /\ d.xAuthkey < next.key
               /\ d.cfgVersion \in Nat
               /\ d.epoch \in Nat /\ d.epoch < next.epoch
               /\ d.authkeys \in Seq(Keys) /\ Len(d.authkeys) <= 2
               /\ Delivering(d) => d.xAuthkey # NoKey
               /\ d.xAuthkey # NoKey =>
                     d.authkeys # << >> /\ d.xAuthkey = d.authkeys[Len(d.authkeys)]
    <2>1. d \in Devices /\ KeyShape(d) /\ d.epoch < next.epoch /\ d.xAuthkey < next.key
      BY <1>1 DEF TypeOK, Records, KeyDiscipline, EpochsUsed, KeysUsed
    <2>2. /\ d.xAuthkey \in Keys \cup {NoKey} /\ d.cfgVersion \in Nat /\ d.epoch \in Nat
          /\ d.authkeys \in Seq(Keys)
      BY <2>1 DEF Devices
    <2>3. Delivering(d) => d.xAuthkey # NoKey
      BY <2>1, ConfirmedKey DEF Good, KeyShape
    <2> QED BY <2>1, <2>2, <2>3 DEF KeyShape, Keys, DefaultKey, NoKey
  <1> QED BY <1>2, <1>3, <1>4 DEF Numbered

\* And in the next state.
LEMMA RInvNumberedNext == RInv' => Numbered'
  BY RInvNumbered, PTL

\* Confirmation leaves the content rows alone.
LEMMA ConfirmRows ==
    ASSUME NEW d \in Devices, NEW key
    PROVE  /\ Confirm(d, key).cfgVersion = d.cfgVersion
           /\ Confirm(d, key).intent = d.intent
           /\ Confirm(d, key).blockedSent = d.blockedSent
           /\ Confirm(d, key).delivery = d.delivery
           /\ Confirm(d, key) \in Devices
  <1> DEFINE b == d.keyConfirmed \/ key \in KeysOf(d)
  <1>1. Confirm(d, key) = [d EXCEPT !.keyConfirmed = b]
    BY DEF Confirm
  <1>2. b \in BOOLEAN
    BY DEF Devices
  <1> HIDE DEF b
  <1> QED BY <1>1, <1>2 DEF Devices

\* The tail of a cycle draws at most the next names and answers its own request.
LEMMA CommitDraws ==
    ASSUME RInv, VersionsDrawn, NEW h \in Slots, Running(h),
           NEW d \in Devices, NEW reply, CommitCycle(h, d, reply),
           d.cfgVersion \in {rec.cfgVersion, next.version, NoVersion}
    PROVE  /\ Draws
           /\ dev' = dev /\ disk' = disk
           /\ slot'[h] = Answered("saving", reply)
           /\ slot'[h].phase = "saving" /\ slot'[h].reply = reply
           /\ slot'[h].body.key = DefaultKey /\ slot'[h].lane = "encrypted"
           /\ \A g \in Slots : g # h => slot'[g] = slot[g]
           /\ rec' \in Devices /\ rec' # NoRecord
           /\ rec'.xAuthkey = d.xAuthkey /\ rec'.authkeys = d.authkeys
           /\ rec'.state = d.state /\ rec'.epoch = d.epoch
           /\ rec'.cfgVersion = d.cfgVersion /\ rec'.intent = d.intent
           /\ rec'.blockedSent = d.blockedSent /\ rec'.delivery = d.delivery
  <1>1. TypeOK
    BY DEF RInv, IInv
  <1>2. dev' = dev /\ disk' = disk /\ rec' = Confirm(d, Used(h))
    BY DEF CommitCycle
  <1>3. /\ rec' \in Devices /\ rec' # NoRecord
        /\ rec'.xAuthkey = d.xAuthkey /\ rec'.authkeys = d.authkeys
        /\ rec'.state = d.state /\ rec'.epoch = d.epoch
        /\ rec'.cfgVersion = d.cfgVersion /\ rec'.intent = d.intent
        /\ rec'.blockedSent = d.blockedSent /\ rec'.delivery = d.delivery
    BY <1>2, ConfirmKeeps, ConfirmRows, RecordAssumption
  <1>4. /\ slot'[h] = Answered("saving", reply)
        /\ \A g \in Slots : g # h => slot'[g] = slot[g]
    BY <1>1 DEF CommitCycle, TypeOK
  <1>5. /\ slot'[h].phase = "saving" /\ slot'[h].reply = reply
        /\ slot'[h].body.key = DefaultKey /\ slot'[h].lane = "encrypted"
    BY <1>4 DEF Answered, IdleSlot, NoBody
  <1>6. Draws
    <2> DEFINE k == IF d.xAuthkey = next.key THEN next.key + 1 ELSE next.key
               v == IF d.cfgVersion = next.version THEN next.version + 1 ELSE next.version
               e == IF d.epoch = next.epoch THEN next.epoch + 1 ELSE next.epoch
    <2>1. next.key \in Nat /\ next.version \in Nat \ {0} /\ next.epoch \in Nat
      BY <1>1 DEF TypeOK
    <2>2. next'.key = k /\ next'.version = v /\ next'.epoch = e
      BY <1>1 DEF CommitCycle, TypeOK
    <2>3. rec.cfgVersion \in Nat /\ rec.cfgVersion < next.version
      BY <1>1 DEF VersionsDrawn, Running, Records, TypeOK, Devices
    <2>4. d.cfgVersion < v
      BY <2>1, <2>3 DEF NoVersion
    <2>5. next.key <= k /\ next.version <= v /\ next.epoch <= e
      BY <2>1
    <2> QED BY <1>3, <2>2, <2>4, <2>5 DEF Draws
  <1> QED BY <1>2, <1>3, <1>4, <1>5, <1>6

\* A cycle of which record and answer are as Outcome says.
LEMMA CommitServes ==
    ASSUME RInv, VersionsDrawn, NEW h \in Slots, Running(h),
           NEW d \in Devices, NEW reply, CommitCycle(h, d, reply), Outcome(h, d, reply)
    PROVE  Serves(h)
  <1>1. d.cfgVersion \in {rec.cfgVersion, next.version} /\ d.epoch = rec.epoch
    BY DEF Outcome, Remains
  <1>2. /\ Draws /\ dev' = dev /\ disk' = disk
        /\ slot'[h].phase = "saving" /\ slot'[h].reply = reply
        /\ slot'[h].body.key = DefaultKey /\ slot'[h].lane = "encrypted"
        /\ \A g \in Slots : g # h => slot'[g] = slot[g]
        /\ rec' # NoRecord
        /\ rec'.xAuthkey = d.xAuthkey /\ rec'.authkeys = d.authkeys
        /\ rec'.state = d.state /\ rec'.epoch = d.epoch
        /\ rec'.cfgVersion = d.cfgVersion /\ rec'.intent = d.intent
        /\ rec'.blockedSent = d.blockedSent /\ rec'.delivery = d.delivery
    BY <1>1, CommitDraws
  <1>3. Commits(h)
    BY <1>1, <1>2 DEF Commits, Running
  <1>4. (Delivering(rec') <=> Delivering(d)) /\ SentSet(rec') = SentSet(d)
    BY <1>2 DEF Delivering, SentSet
  <1>5. Remains(rec')
    BY <1>2, <1>4 DEF Outcome, Remains
  <1>6. Outcome(h, rec', reply)
    BY <1>2, <1>4, <1>5 DEF Outcome
  <1> QED BY <1>2, <1>3, <1>6 DEF Serves

\* e has the content rows of d, and a delivery if d has one.
Alike(d, e) ==
    /\ e.intent = d.intent
    /\ e.blocked = d.blocked
    /\ e.blockedSent = d.blockedSent
    /\ Delivering(e) <=> Delivering(d)

\* Absorption and settling leave the content rows alone; a drifting blocked set
\* always draws a cfgversion, and without drift none is drawn.
LEMMA WorkAlike ==
    ASSUME IInv, NEW h \in Slots, rec # NoRecord
    PROVE  /\ Alike(rec, Fresh(h)) /\ Fresh(h).cfgVersion = rec.cfgVersion
           /\ Alike(rec, Work(h))
           /\ Work(h).cfgVersion \in {rec.cfgVersion, next.version}
           /\ slot[h].body.cfg # NoVersion => Work(h).appliedCfg = slot[h].body.cfg
           /\ BlockedDrift(Work(h)) => Work(h).cfgVersion = next.version
           /\ ~WlanDrift(Work(h)) /\ ~BlockedDrift(Work(h)) => Work(h).cfgVersion = rec.cfgVersion
  <1> DEFINE f == Fresh(h)
             t == Settle(f.delivery, Table(h), f.cfgVersion)
             s == [f EXCEPT !.delivery = t]
             m == [s EXCEPT !.cfgVersion = next.version]
             a == IF slot[h].body.cfg # NoVersion THEN slot[h].body.cfg ELSE rec.appliedCfg
             w == Work(h)
  <1>1. rec \in Devices /\ f \in Devices
    BY RecGood, WorkGood DEF Good
  <1>2. /\ f.intent = rec.intent /\ f.blocked = rec.blocked /\ f.blockedSent = rec.blockedSent
        /\ f.cfgVersion = rec.cfgVersion /\ f.delivery = rec.delivery /\ f.appliedCfg = a
    BY <1>1 DEF Fresh, Absorb, Devices
  <1>3. Alike(rec, f)
    BY <1>2 DEF Alike, Delivering
  <1>4. t.pending # NoEnvelope \/ t.baseline # NoEnvelope <=> Delivering(f)
    <2>1. f.delivery \in DeliveryStates
      BY <1>1 DEF Devices
    <2> QED BY <2>1 DEF Settle, Proven, DeliveryStates, Delivering
  <1>5. w = IF MintsVersion(s) THEN m ELSE s
    BY DEF Work, Prepared
  <1> HIDE DEF f, t, a
  <1>6. /\ s.intent = f.intent /\ s.blocked = f.blocked /\ s.blockedSent = f.blockedSent
        /\ s.cfgVersion = f.cfgVersion /\ s.delivery = t /\ s.appliedCfg = f.appliedCfg
        /\ s.wlans = f.wlans
        /\ m.intent = f.intent /\ m.blocked = f.blocked /\ m.blockedSent = f.blockedSent
        /\ m.cfgVersion = next.version /\ m.delivery = t /\ m.appliedCfg = f.appliedCfg
        /\ m.wlans = f.wlans
    BY <1>1 DEF Devices
  <1> HIDE DEF s, m
  <1>7. WlanDrift(m) = WlanDrift(s) /\ BlockedDrift(m) = BlockedDrift(s)
    BY <1>6 DEF WlanDrift, BlockedDrift
  <1>8. Alike(f, s) /\ Alike(f, m)
    BY <1>4, <1>6 DEF Alike, Delivering
  <1>9. Alike(rec, w) /\ w.appliedCfg = a
    BY <1>2, <1>3, <1>5, <1>6, <1>8 DEF Alike
  <1>10. CASE MintsVersion(s)
    <2>1. w = m /\ (WlanDrift(s) \/ BlockedDrift(s))
      BY <1>5, <1>10 DEF MintsVersion
    <2>2. w.cfgVersion = next.version /\ (WlanDrift(w) \/ BlockedDrift(w))
      BY <1>6, <1>7, <2>1
    <2> QED BY <1>2, <1>3, <1>9, <2>2 DEF f, a, w
  <1>11. CASE ~MintsVersion(s)
    <2>1. w = s /\ ~BlockedDrift(s)
      BY <1>5, <1>11 DEF MintsVersion
    <2>2. w.cfgVersion = rec.cfgVersion /\ ~BlockedDrift(w)
      BY <1>2, <1>6, <2>1
    <2> QED BY <1>2, <1>3, <1>9, <2>2 DEF f, a, w
  <1> QED BY <1>10, <1>11

\* Without drift the blocked set is the one that was sent.
LEMMA UndriftedSent ==
    ASSUME NEW d, ~BlockedDrift(d)
    PROVE  SentSet(d) = d.blocked
  BY DEF BlockedDrift, SentSet

\* What the branches do to content rows and cfgversion.
LEMMA BranchAlike ==
    ASSUME NEW d \in Devices, NEW table, NEW version \in Nat
    PROVE  /\ LET e == Rebooted(d)
              IN  Alike(d, e) /\ e.cfgVersion = d.cfgVersion
           /\ LET e == CmdConsumed(d)
              IN  Alike(d, e) /\ e.cfgVersion = d.cfgVersion
           /\ LET e == [d EXCEPT !.delivery = Spent(@)]
              IN  Alike(d, e) /\ e.cfgVersion = d.cfgVersion
           /\ LET e == [d EXCEPT !.cfgVersion = version]
              IN  Alike(d, e) /\ e.cfgVersion = version
           /\ LET e == [d EXCEPT !.state = "adopted", !.disconnected = FALSE]
              IN  Alike(d, e) /\ e.cfgVersion = d.cfgVersion
           /\ LET e == [d EXCEPT !.disconnected = FALSE, !.delivery.misses = 0,
                                 !.cfgVersion = version]
              IN  Alike(d, e) /\ e.cfgVersion = version
           /\ LET e == [MaterializationArmed(d) EXCEPT !.disconnected = FALSE]
              IN  Alike(d, e) /\ e.cfgVersion = d.cfgVersion
           /\ LET e == Connected(d, table)
              IN  Alike(d, e) /\ e.cfgVersion = d.cfgVersion
  <1>0. d.delivery \in DeliveryStates
    BY DEF Devices
  <1>1. ASSUME NEW e, e.intent = d.intent, e.blocked = d.blocked, e.blockedSent = d.blockedSent,
               e.delivery.pending = d.delivery.pending, e.delivery.baseline = d.delivery.baseline
        PROVE  Alike(d, e)
    BY <1>1 DEF Alike, Delivering
  <1>2. LET e == Rebooted(d) IN Alike(d, e) /\ e.cfgVersion = d.cfgVersion
    BY <1>0 DEF Alike, Delivering, Rebooted, Devices, DeliveryStates
  <1>3. LET e == CmdConsumed(d) IN Alike(d, e) /\ e.cfgVersion = d.cfgVersion
    BY <1>1 DEF CmdConsumed, Devices
  <1>4. LET e == [d EXCEPT !.delivery = Spent(@)] IN Alike(d, e) /\ e.cfgVersion = d.cfgVersion
    <2>1. /\ Spent(d.delivery).pending = d.delivery.pending
          /\ Spent(d.delivery).baseline = d.delivery.baseline
      BY <1>0, CountersType
    <2> QED BY <1>1, <2>1 DEF Devices
  <1>5. LET e == [d EXCEPT !.cfgVersion = version] IN Alike(d, e) /\ e.cfgVersion = version
    BY <1>1 DEF Devices
  <1>6. LET e == [d EXCEPT !.state = "adopted", !.disconnected = FALSE]
        IN  Alike(d, e) /\ e.cfgVersion = d.cfgVersion
    BY DEF Alike, Delivering, Devices
  <1>7. LET e == [d EXCEPT !.disconnected = FALSE, !.delivery.misses = 0, !.cfgVersion = version]
        IN  Alike(d, e) /\ e.cfgVersion = version
    BY <1>0 DEF Alike, Delivering, Devices, DeliveryStates
  <1>8. LET e == [MaterializationArmed(d) EXCEPT !.disconnected = FALSE]
        IN  Alike(d, e) /\ e.cfgVersion = d.cfgVersion
    BY <1>0 DEF Alike, Delivering, MaterializationArmed, Devices, DeliveryStates
  <1>9. LET e == Connected(d, table) IN Alike(d, e) /\ e.cfgVersion = d.cfgVersion
    <2> DEFINE t == Watched(d, table)
               e == Connected(d, table)
    <2>1. t.pending = d.delivery.pending /\ t.baseline = d.delivery.baseline
      BY <1>0 DEF Watched, DeliveryStates
    <2>2. e = [d EXCEPT !.state = "adopted", !.disconnected = FALSE, !.delivery = t]
      BY DEF Connected
    <2> HIDE DEF t, e
    <2>3. /\ e.intent = d.intent /\ e.blocked = d.blocked /\ e.blockedSent = d.blockedSent
          /\ e.delivery = t /\ e.cfgVersion = d.cfgVersion
      BY <2>2 DEF Devices
    <2>4. Alike(d, e)
      BY <1>1, <2>1, <2>3
    <2> QED BY <2>3, <2>4 DEF e
  <1> QED BY <1>2, <1>3, <1>4, <1>5, <1>6, <1>7, <1>8, <1>9

\* Full provisioning offers the wanted content under the record's cfgversion, or
\* under a new one if there is none.
LEMMA ProvisionedRows ==
    ASSUME NEW d \in Devices, NEW version \in Nat
    PROVE  LET e == Provisioned(d, version)
           IN  /\ e.intent = d.intent
               /\ e.blocked = d.blocked /\ e.blockedSent = d.blocked /\ SentSet(e) = d.blocked
               /\ e.cfgVersion = IF d.cfgVersion = NoVersion THEN version ELSE d.cfgVersion
               /\ e.state = "adopting"
               /\ Delivering(e)
  <1> DEFINE cfg == IF d.cfgVersion = NoVersion THEN version ELSE d.cfgVersion
             o == Offer(d.delivery, d.wlans, cfg)
             e == Provisioned(d, version)
  <1>1. d.delivery \in DeliveryStates /\ d.wlans \in Envelopes /\ d.blocked \in SUBSET Clients
    BY DEF Devices
  <1>2. o.pending = d.wlans
    BY <1>1 DEF Offer, DeliveryStates
  <1>3. e = [d EXCEPT !.cfgVersion = cfg, !.state = "adopting", !.delivery = o,
                      !.blockedSent = d.blocked, !.disconnected = FALSE]
    BY DEF Provisioned
  <1> HIDE DEF cfg, o, e
  <1>4. /\ e.intent = d.intent /\ e.blocked = d.blocked /\ e.blockedSent = d.blocked
        /\ e.cfgVersion = cfg /\ e.state = "adopting" /\ e.delivery = o
    BY <1>3 DEF Devices
  <1>5. Delivering(e)
    BY <1>1, <1>2, <1>4, EnvelopeAssumption DEF Delivering
  <1>6. SentSet(e) = d.blocked
    BY <1>1, <1>4, BaselineAssumption DEF SentSet
  <1> QED BY <1>4, <1>5, <1>6 DEF cfg, e

\* A cycle that keeps assignment and content and answers with a status, a noop or
\* a command.
LEMMA AlikeServes ==
    ASSUME RInv, VersionsDrawn, NEW h \in Slots, Running(h),
           NEW d \in Devices, SameKeys(rec, d), Alike(rec, d),
           d.cfgVersion \in {rec.cfgVersion, next.version},
           d.state \in {"adopted", "lost"} => rec.state \in {"adopted", "lost"} \/ Delivering(d),
           NEW kind, kind \notin Telling, CommitCycle(h, d, Bare(kind))
    PROVE  Serves(h)
  <1>1. Remains(d)
    BY DEF Remains, SameKeys, Alike
  <1>2. SentSet(d) = SentSet(rec) /\ (Delivering(d) <=> Delivering(rec))
    BY DEF Alike, SentSet
  <1>3. /\ Bare(kind).kind = kind /\ Bare(kind).key = NoKey
        /\ Bare(kind).cfg = NoVersion /\ Bare(kind).epoch = 0
    BY DEF Bare
  <1>4. Outcome(h, d, Bare(kind))
    BY <1>1, <1>2, <1>3 DEF Outcome, Telling
  <1> QED BY <1>4, CommitServes

\* A cycle that commits the record with an adoption push for a device that does
\* not use its assigned key.
LEMMA PushServes ==
    ASSUME RInv, VersionsDrawn, NEW h \in Slots, Running(h),
           NEW d \in Devices, SameKeys(rec, d), Alike(rec, d), d.state = rec.state,
           d.cfgVersion \in {rec.cfgVersion, next.version},
           Used(h) # rec.xAuthkey,
           NEW key, key = rec.xAuthkey \/ (key = Used(h) /\ Used(h) # DefaultKey),
           CommitCycle(h, d, AdoptionPush(d, key))
    PROVE  Serves(h)
  <1> DEFINE r == AdoptionPush(d, key)
  <1>1. Remains(d)
    BY DEF Remains, SameKeys, Alike
  <1>2. SentSet(d) = SentSet(rec) /\ (Delivering(d) <=> Delivering(rec))
    BY DEF Alike, SentSet
  <1>3. /\ r.kind = "push" /\ r.cfg = d.cfgVersion /\ r.epoch = d.epoch
        /\ r.key = (IF d.xAuthkey # key THEN d.xAuthkey ELSE NoKey)
    BY DEF AdoptionPush, Bare
  <1> HIDE DEF r
  <1>4. r.key # NoKey => Used(h) # DefaultKey /\ r.key = rec.xAuthkey
    BY <1>3 DEF SameKeys
  <1>5. Outcome(h, d, r)
    BY <1>1, <1>2, <1>3, <1>4 DEF Outcome, SameKeys
  <1> QED BY <1>5, CommitServes DEF r

\* Full provisioning on the assigned key.
LEMMA ProvisionServes ==
    ASSUME RInv, VersionsDrawn, NEW h \in Slots, Running(h),
           NEW w, Good(w), SameKeys(rec, w), Alike(rec, w),
           w.cfgVersion \in {rec.cfgVersion, next.version},
           OnAssigned(rec, Used(h)),
           Checked(h) /\ w.cfgVersion # next.version =>
              /\ ~BlockedDrift(w)
              /\ Delivering(rec) \/ slot[h].body.cfg # rec.cfgVersion,
           CommitCycle(h, Provisioned(w, next.version),
                       FullProvision(Provisioned(w, next.version)))
    PROVE  Serves(h)
  <1> DEFINE d == Provisioned(w, next.version)
             r == FullProvision(d)
  <1>1. next.version \in Nat /\ next.version # NoVersion /\ w \in Devices
    BY RInvNumbered DEF Numbered, NoVersion, Good
  <1>2. Assigned(w, Used(h))
    <2>1. OnAssigned(w, Used(h))
      BY DEF OnAssigned, SameKeys
    <2> QED BY <2>1, OnAssignedKeys
  <1>3. SameKeys(w, d) /\ d \in Devices
    BY <1>1, <1>2, ProvisionedAssigned DEF Assigned
  <1>4. /\ d.intent = w.intent /\ d.blocked = w.blocked /\ SentSet(d) = w.blocked
        /\ d.cfgVersion = (IF w.cfgVersion = NoVersion THEN next.version ELSE w.cfgVersion)
        /\ d.state = "adopting" /\ Delivering(d)
    BY <1>1, ProvisionedRows
  <1>5. /\ r.kind = "provision" /\ r.cfg = d.cfgVersion /\ r.intent = d.intent
        /\ r.blocked = d.blocked /\ r.key = NoKey /\ r.epoch = 0
    BY DEF FullProvision, Bare
  <1>6. CommitCycle(h, d, r)
    OBVIOUS
  <1> HIDE DEF d, r
  <1>7. Remains(d)
    BY <1>3, <1>4 DEF Remains, SameKeys, Alike
  <1>8. d.cfgVersion # NoVersion
    BY <1>1, <1>4
  <1>9. d.cfgVersion # next.version =>
           /\ SentSet(d) = SentSet(rec) \/ ~Checked(h)
           /\ Delivering(rec) \/ (Checked(h) => slot[h].body.cfg # rec.cfgVersion)
    <2>1. SentSet(w) = SentSet(rec)
      BY DEF Alike, SentSet
    <2> QED BY <1>4, <2>1, UndriftedSent
  <1>10. Outcome(h, d, r)
    BY <1>4, <1>5, <1>7, <1>8, <1>9 DEF Outcome
  <1> QED BY <1>3, <1>6, <1>10, CommitServes

\* The cycles before the engine's switch.
LEMMA LaneServes ==
    ASSUME RInv, VersionsDrawn, NEW h \in Slots,
           \/ GentleNoop(h) \/ EmitReboot(h) \/ EmitCmd(h)
           \/ PlainUnassigned(h) \/ PlainResend(h) \/ PlainProvision(h)
    PROVE  Serves(h)
  <1> DEFINE f == Fresh(h)
  <1>0. IInv
    BY DEF RInv
  <1>1. Running(h) /\ rec # NoRecord
    BY DEF GentleNoop, EmitReboot, EmitCmd, PlainUnassigned, PlainResend, PlainProvision,
           CommandTurn, PlainDeciding, Admitted, Encrypted, Plain, Running
  <1>2. /\ Good(f) /\ f \in Devices /\ SameKeys(rec, f) /\ f.state = rec.state
        /\ Alike(rec, f) /\ f.cfgVersion = rec.cfgVersion
    BY <1>0, <1>1, WorkGood, WorkAlike DEF Good
  <1>3. CASE GentleNoop(h) \/ PlainUnassigned(h)
    <2>1. CommitCycle(h, f, Bare("noop"))
      BY <1>3 DEF GentleNoop, PlainUnassigned
    <2> HIDE DEF f
    <2> QED BY <1>1, <1>2, <2>1, AlikeServes DEF Telling
  <1>4. CASE EmitReboot(h)
    <2> DEFINE d == Rebooted(f)
    <2>1. CommitCycle(h, d, Bare("reboot"))
      BY <1>4 DEF EmitReboot
    <2> HIDE DEF f
    <2>2. /\ d \in Devices /\ SameKeys(f, d) /\ d.state = f.state
          /\ Alike(f, d) /\ d.cfgVersion = f.cfgVersion
      BY <1>2, CommandGood, BranchStates, BranchAlike, RInvNumbered DEF Good, Numbered
    <2> HIDE DEF d
    <2>3. SameKeys(rec, d) /\ Alike(rec, d)
      BY <1>2, <2>2 DEF SameKeys, Alike
    <2> QED BY <1>1, <1>2, <2>1, <2>2, <2>3, AlikeServes DEF Telling
  <1>5. CASE EmitCmd(h)
    <2> DEFINE d == CmdConsumed(f)
    <2>1. CommitCycle(h, d, Bare("cmd"))
      BY <1>5 DEF EmitCmd
    <2> HIDE DEF f
    <2>2. /\ d \in Devices /\ SameKeys(f, d) /\ d.state = f.state
          /\ Alike(f, d) /\ d.cfgVersion = f.cfgVersion
      BY <1>2, CommandGood, BranchStates, BranchAlike, RInvNumbered DEF Good, Numbered
    <2> HIDE DEF d
    <2>3. SameKeys(rec, d) /\ Alike(rec, d)
      BY <1>2, <2>2 DEF SameKeys, Alike
    <2> QED BY <1>1, <1>2, <2>1, <2>2, <2>3, AlikeServes DEF Telling
  <1>6. CASE PlainResend(h)
    <2>1. Used(h) # rec.xAuthkey /\ CommitCycle(h, f, AdoptionPush(f, rec.xAuthkey))
      BY <1>6 DEF PlainResend
    <2> HIDE DEF f
    <2> QED BY <1>1, <1>2, <2>1, PushServes
  <1>7. CASE PlainProvision(h)
    <2>1. /\ OnAssigned(rec, Used(h)) /\ ~Checked(h)
          /\ CommitCycle(h, Provisioned(f, next.version),
                         FullProvision(Provisioned(f, next.version)))
      BY <1>7 DEF PlainProvision, PlainDeciding, Plain, Checked
    <2> HIDE DEF f
    <2> QED BY <1>1, <1>2, <2>1, ProvisionServes
  <1> QED BY <1>3, <1>4, <1>5, <1>6, <1>7

\* The factory key reaches the rotation only before a delivery exists.
LEMMA RotateRotates ==
    ASSUME RInv, VersionsDrawn, NEW h \in Slots, NEW due \in BOOLEAN, Rotate(h, due)
    PROVE  Rotates(h)
  <1> DEFINE w == Work(h)
             d == RotateKeys(w, next.key, next.version)
             r == AdoptionPush(d, DefaultKey)
  <1>0. IInv
    BY DEF RInv
  <1>1. /\ Running(h) /\ rec # NoRecord /\ ~DefaultKeyRejected(rec, DefaultKey)
        /\ Used(h) = DefaultKey /\ CommitCycle(h, d, r)
    BY DEF Rotate, Released, Deciding, Admitted, Encrypted, Running
  <1>2. Good(w) /\ w \in Devices /\ SameKeys(rec, w) /\ w.state = rec.state
    BY <1>0, <1>1, WorkGood DEF Good
  <1>3. next.version \in Nat /\ next.key \in Keys
    BY <1>0, <1>1, RecGood
  <1>4. ~DefaultKeyRejected(w, DefaultKey)
    BY <1>1, <1>2 DEF DefaultKeyRejected, SameKeys
  <1> HIDE DEF w
  <1>5. Good(d) /\ ~w.keyConfirmed
    BY <1>2, <1>3, <1>4, RotateGood
  <1>6. /\ d.xAuthkey = next.key /\ d.cfgVersion = next.version
        /\ d.authkeys = AddKey(w.authkeys, next.key) /\ d.state = "adopting"
        /\ d.epoch = w.epoch /\ d.delivery = w.delivery
    BY <1>2 DEF RotateKeys, Devices
  <1>7. ~Delivering(d)
    BY <1>2, <1>5, <1>6 DEF Good, KeyShape, Delivering
  <1> HIDE DEF d
  <1>8. /\ r.kind = "push" /\ r.key = next.key /\ r.cfg = next.version /\ r.epoch = rec.epoch
    BY <1>2, <1>3, <1>6 DEF AdoptionPush, Bare, SameKeys, Keys
  <1> HIDE DEF r
  <1>9. d \in Devices
    BY <1>5 DEF Good
  <1>10. /\ Draws /\ dev' = dev /\ disk' = disk
         /\ slot'[h].phase = "saving" /\ slot'[h].reply = r
         /\ slot'[h].body.key = DefaultKey /\ slot'[h].lane = "encrypted"
         /\ \A g \in Slots : g # h => slot'[g] = slot[g]
         /\ rec' # NoRecord
         /\ rec'.xAuthkey = d.xAuthkey /\ rec'.authkeys = d.authkeys
         /\ rec'.state = d.state /\ rec'.epoch = d.epoch
         /\ rec'.cfgVersion = d.cfgVersion /\ rec'.delivery = d.delivery
    BY <1>1, <1>6, <1>9, CommitDraws
  <1>11. Commits(h)
    BY <1>1, <1>2, <1>6, <1>10 DEF Commits, Running, SameKeys
  <1>12. ~Delivering(rec')
    BY <1>7, <1>10 DEF Delivering
  <1> QED BY <1>1, <1>2, <1>6, <1>8, <1>10, <1>11, <1>12 DEF Rotates, SameKeys

\* The engine's switch on the encrypted lane.
LEMMA SwitchServes ==
    ASSUME RInv, VersionsDrawn, NEW h \in Slots, NEW due \in BOOLEAN, Cycle(h, due)
    PROVE  Rotates(h) \/ Serves(h)
  <1> DEFINE w == Work(h)
  <1>0. IInv
    BY DEF RInv
  <1>1. Running(h) /\ rec # NoRecord
    BY DEF Cycle, HoldPending, Rotate, RePush, Provision, SelfHeal, ReconnectPush,
           ReprovisionMiss, ArmMaterialization, ConnectedNoop, Baselined, Settled,
           OnKey, Released, Deciding, Admitted, Encrypted, Running
  <1>2. /\ Good(w) /\ w \in Devices /\ SameKeys(rec, w) /\ w.state = rec.state
        /\ Alike(rec, w) /\ w.cfgVersion \in {rec.cfgVersion, next.version}
    BY <1>0, <1>1, WorkGood, WorkAlike DEF Good
  <1>3. next.version \in Nat /\ next.key \in Keys
    BY <1>0, <1>1, RecGood
  <1>4. ASSUME OnAssigned(rec, Used(h))
        PROVE  Assigned(w, Used(h))
    <2>1. OnAssigned(w, Used(h))
      BY <1>2, <1>4 DEF OnAssigned, SameKeys
    <2> QED BY <1>2, <2>1, OnAssignedKeys
  <1>5. ASSUME NEW d \in Devices, SameKeys(w, d), Alike(w, d),
               d.cfgVersion \in {w.cfgVersion, next.version},
               d.state = w.state \/ (d.state = "adopted" /\ w.delivery.baseline # NoEnvelope),
               CommitCycle(h, d, Bare("noop"))
        PROVE  Serves(h)
    <2>1. SameKeys(rec, d) /\ Alike(rec, d) /\ d.cfgVersion \in {rec.cfgVersion, next.version}
      BY <1>2, <1>5 DEF SameKeys, Alike
    <2>2. d.state \in {"adopted", "lost"} => rec.state \in {"adopted", "lost"} \/ Delivering(d)
      BY <1>2, <1>5 DEF Alike, Delivering
    <2> QED BY <1>1, <1>5, <2>1, <2>2, AlikeServes DEF Telling
  <1>6. CASE HoldPending(h, due)
    <2> DEFINE t == Spent(w.delivery)
               d == [w EXCEPT !.delivery = t]
    <2>1. w.delivery \in DeliveryStates
      BY <1>2 DEF Devices
    <2>2. t \in DeliveryStates
      BY <2>1, CountersType
    <2>3. CommitCycle(h, d, Bare("noop"))
      BY <1>6 DEF HoldPending
    <2>4. d = [w EXCEPT !.delivery = Spent(@)]
      BY <1>2 DEF Devices
    <2>5. Alike(w, d) /\ d.cfgVersion = w.cfgVersion
      <3> HIDE DEF w
      <3> QED BY <1>2, <1>3, <2>4, BranchAlike
    <2> HIDE DEF t, w
    <2>6. d \in Devices /\ SameKeys(w, d) /\ d.state = w.state
      BY <1>2, <2>2 DEF Devices, SameKeys
    <2> HIDE DEF d
    <2> QED BY <1>5, <2>3, <2>5, <2>6 DEF w
  <1>7. CASE Rotate(h, due)
    BY <1>7, RotateRotates
  <1>8. CASE RePush(h, due)
    <2>1. /\ Used(h) # DefaultKey /\ ~OnAssigned(rec, Used(h))
          /\ CommitCycle(h, w, AdoptionPush(w, Used(h)))
      BY <1>8 DEF RePush
    <2>2. Used(h) # NoKey
      BY RInvNumbered DEF Numbered, Used, NoKey
    <2>3. Used(h) # rec.xAuthkey
      BY <2>1, <2>2 DEF OnAssigned
    <2> HIDE DEF w
    <2> QED BY <1>1, <1>2, <2>1, <2>3, PushServes
  <1>9. CASE Provision(h, due)
    <2>1. /\ OnAssigned(rec, Used(h)) /\ (ContentDrift(w) \/ ~Echoed(w))
          /\ CommitCycle(h, Provisioned(w, next.version),
                         FullProvision(Provisioned(w, next.version)))
      BY <1>9 DEF Provision, OnKey
    <2>2. ASSUME Checked(h), w.cfgVersion # next.version
          PROVE  /\ ~BlockedDrift(w)
                 /\ Delivering(rec) \/ slot[h].body.cfg # rec.cfgVersion
      <3>1. ~BlockedDrift(w) /\ w.cfgVersion = rec.cfgVersion /\ w.appliedCfg = slot[h].body.cfg
        BY <1>0, <1>1, <1>2, <2>2, WorkAlike DEF Checked
      <3>2. ASSUME ~Delivering(rec)
            PROVE  slot[h].body.cfg # rec.cfgVersion
        <4>1. ~Delivering(w)
          BY <1>2, <3>2 DEF Alike
        <4>2. ~ContentDrift(w)
          BY <3>1, <4>1 DEF ContentDrift, WlanDrift, Delivering
        <4>3. ~Echoed(w)
          BY <2>1, <4>2
        <4> QED BY <2>2, <3>1, <4>3 DEF Echoed, Checked
      <3> QED BY <3>1, <3>2
    <2> HIDE DEF w
    <2> QED BY <1>1, <1>2, <2>1, <2>2, ProvisionServes
  <1>10. CASE SelfHeal(h, due)
    <2> DEFINE d == [w EXCEPT !.cfgVersion = next.version]
    <2>1. Assigned(w, Used(h)) /\ CommitCycle(h, d, Bare("noop"))
      BY <1>4, <1>10 DEF SelfHeal, Settled, OnKey
    <2> HIDE DEF w
    <2>2. /\ d \in Devices /\ SameKeys(w, d) /\ d.state = w.state
          /\ Alike(w, d) /\ d.cfgVersion = next.version
      BY <1>2, <1>3, <2>1, BranchRecords, BranchStates, BranchAlike DEF Assigned
    <2> HIDE DEF d
    <2> QED BY <1>5, <2>1, <2>2 DEF w
  <1>11. CASE ReconnectPush(h, due)
    <2> DEFINE d == [w EXCEPT !.state = "adopted", !.disconnected = FALSE]
               r == BlockedStaReconnect(w)
    <2>1. /\ OnAssigned(rec, Used(h)) /\ Assigned(w, Used(h)) /\ CommitCycle(h, d, r)
          /\ ~ContentDrift(w) /\ Echoed(w) /\ w.delivery.baseline # NoEnvelope
      BY <1>4, <1>11 DEF ReconnectPush, Baselined, Settled, OnKey
    <2>2. w.cfgVersion = rec.cfgVersion
      BY <1>0, <1>1, <2>1, WorkAlike DEF ContentDrift
    <2>3. slot[h].body.cfg \in {rec.cfgVersion, NoVersion}
      BY <1>0, <1>1, <2>1, <2>2, WorkAlike DEF Echoed
    <2> HIDE DEF w
    <2>4. /\ d \in Devices /\ SameKeys(w, d) /\ d.state = "adopted"
          /\ Alike(w, d) /\ d.cfgVersion = w.cfgVersion
      BY <1>2, <1>3, <2>1, BranchRecords, BranchStates, BranchAlike DEF Assigned
    <2> HIDE DEF d
    <2>5. SentSet(w) = w.blocked /\ SentSet(w) = SentSet(rec) /\ SentSet(d) = SentSet(w)
      BY <1>2, <2>1, <2>4, UndriftedSent DEF ContentDrift, Alike, SentSet
    <2>6. Delivering(rec) /\ Delivering(d)
      BY <1>2, <2>1, <2>4 DEF Alike, Delivering
    <2>7. /\ r.kind = "reconnect" /\ r.key = NoKey /\ r.cfg = NoVersion
          /\ r.blocked = w.blocked /\ r.epoch = 0
      BY DEF BlockedStaReconnect, Bare
    <2> HIDE DEF r
    <2>8. Remains(d)
      BY <1>2, <2>2, <2>4, <2>6 DEF Remains, SameKeys, Alike
    <2>9. Outcome(h, d, r)
      BY <2>1, <2>2, <2>3, <2>4, <2>5, <2>6, <2>7, <2>8 DEF Outcome
    <2> QED BY <1>1, <2>1, <2>4, <2>9, CommitServes
  <1>12. CASE ReprovisionMiss(h, due)
    <2> DEFINE d == [w EXCEPT !.disconnected = FALSE, !.delivery.misses = 0,
                              !.cfgVersion = next.version]
    <2>1. Assigned(w, Used(h)) /\ CommitCycle(h, d, Bare("noop"))
      BY <1>4, <1>12 DEF ReprovisionMiss, Baselined, Settled, OnKey
    <2> HIDE DEF w
    <2>2. /\ d \in Devices /\ SameKeys(w, d) /\ d.state = w.state
          /\ Alike(w, d) /\ d.cfgVersion = next.version
      BY <1>2, <1>3, <2>1, BranchRecords, BranchStates, BranchAlike DEF Assigned
    <2> HIDE DEF d
    <2> QED BY <1>5, <2>1, <2>2 DEF w
  <1>13. CASE ArmMaterialization(h, due)
    <2> DEFINE d == [MaterializationArmed(w) EXCEPT !.disconnected = FALSE]
    <2>1. Assigned(w, Used(h)) /\ CommitCycle(h, d, Bare("noop"))
      BY <1>4, <1>13 DEF ArmMaterialization, Baselined, Settled, OnKey
    <2> HIDE DEF w
    <2>2. /\ d \in Devices /\ SameKeys(w, d) /\ d.state = w.state
          /\ Alike(w, d) /\ d.cfgVersion = w.cfgVersion
      BY <1>2, <1>3, <2>1, BranchRecords, BranchStates, BranchAlike DEF Assigned
    <2> HIDE DEF d
    <2> QED BY <1>5, <2>1, <2>2 DEF w
  <1>14. CASE ConnectedNoop(h, due)
    <2> DEFINE d == Connected(w, Table(h))
    <2>1. /\ Assigned(w, Used(h)) /\ CommitCycle(h, d, Bare("noop"))
          /\ w.delivery.baseline # NoEnvelope
      BY <1>4, <1>14 DEF ConnectedNoop, Baselined, Settled, OnKey
    <2> HIDE DEF w
    <2>2. /\ d \in Devices /\ SameKeys(w, d) /\ d.state = "adopted"
          /\ Alike(w, d) /\ d.cfgVersion = w.cfgVersion
      <3>1. d \in Devices /\ SameKeys(w, d)
        BY <2>1, ConnectedAssigned DEF Assigned
      <3>2. d.state = "adopted"
        BY <1>2 DEF Connected, Devices
      <3>3. Alike(w, d) /\ d.cfgVersion = w.cfgVersion
        BY <1>2, <1>3, BranchAlike
      <3> QED BY <3>1, <3>2, <3>3
    <2> HIDE DEF d
    <2> QED BY <1>5, <2>1, <2>2 DEF w
  <1> QED BY <1>6, <1>7, <1>8, <1>9, <1>10, <1>11, <1>12, <1>13, <1>14 DEF Cycle

-----------------------------------------------------------------------------
(* New incarnations, verbs and the sweep                                    *)

\* The armed factory reset ends an incarnation.
LEMMA SetdefaultReborn ==
    ASSUME RInv, VersionsDrawn, NEW h \in Slots, EmitSetdefault(h)
    PROVE  Reborn
  <1> DEFINE f == Fresh(h)
             d == Demoted(f, next.epoch)
             r == Bare("setdefault")
  <1>0. IInv
    BY DEF RInv
  <1>1. Running(h) /\ rec # NoRecord /\ CommitCycle(h, d, r)
    BY DEF EmitSetdefault, CommandTurn, Admitted, Encrypted, Plain, Running
  <1>2. Good(f) /\ f \in Devices /\ next.epoch \in Nat
    BY <1>0, <1>1, WorkGood, RecGood DEF Good
  <1> HIDE DEF f
  <1>3. d \in Devices
    BY <1>2, DemotedGood DEF Good
  <1>4. /\ d.xAuthkey = NoKey /\ d.cfgVersion = NoVersion /\ d.state = "pending"
        /\ d.epoch = next.epoch /\ d.delivery = NoDelivery
    BY <1>2 DEF Demoted, Devices
  <1> HIDE DEF d
  <1>5. /\ Draws /\ dev' = dev /\ disk' = disk
        /\ slot'[h] = Answered("saving", r)
        /\ \A g \in Slots : g # h => slot'[g] = slot[g]
        /\ rec' # NoRecord
        /\ rec'.xAuthkey = d.xAuthkey /\ rec'.state = d.state /\ rec'.epoch = d.epoch
        /\ rec'.cfgVersion = d.cfgVersion /\ rec'.delivery = d.delivery
    BY <1>1, <1>3, <1>4, CommitDraws
  <1>6. ~Delivering(rec')
    BY <1>4, <1>5 DEF Delivering, NoDelivery
  <1>7. slot[h].phase = "decoded" /\ slot'[h].phase = "saving" /\ Rests(h)
    BY <1>1, <1>5 DEF Running, Rests, Answered, IdleSlot, NoBody, Bare, Active, Answering, Telling
  <1> QED BY <1>4, <1>5, <1>6, <1>7 DEF Reborn

\* A verb draws at most the next cfgversion and the next epoch.
LEMMA EditDraws ==
    ASSUME RInv, VersionsDrawn, NEW who, NEW op, NEW e \in Devices, Edit(who, op, e),
           \/ e.cfgVersion \in {next.version, NoVersion}
           \/ rec # NoRecord /\ e.cfgVersion = rec.cfgVersion
    PROVE  Draws /\ rec' = e /\ rec' # NoRecord /\ dev' = dev /\ disk' = disk /\ slot' = slot
  <1> DEFINE v == IF e.cfgVersion = next.version THEN next.version + 1 ELSE next.version
             n == IF e.epoch = next.epoch THEN next.epoch + 1 ELSE next.epoch
  <1>1. TypeOK
    BY DEF RInv, IInv
  <1>2. rec' = e /\ e # NoRecord /\ dev' = dev /\ disk' = disk /\ slot' = slot
    BY RecordAssumption DEF Edit
  <1>3. next.key \in Nat /\ next.version \in Nat \ {0} /\ next.epoch \in Nat
    BY <1>1 DEF TypeOK
  <1>4. next'.key = next.key /\ next'.version = v /\ next'.epoch = n
    BY <1>1, <1>2 DEF Edit, TypeOK
  <1>5. rec # NoRecord => rec.cfgVersion \in Nat /\ rec.cfgVersion < next.version
    BY <1>1 DEF VersionsDrawn, Records, TypeOK, Devices
  <1>6. e.cfgVersion < v
    BY <1>3, <1>5 DEF NoVersion
  <1>7. next.key <= next'.key /\ next.version <= v /\ next.epoch <= n
    BY <1>3, <1>4
  <1> QED BY <1>2, <1>4, <1>6, <1>7 DEF Draws

\* A verb on an existing record, or the sweep.
LEMMA EditEdits ==
    ASSUME RInv, VersionsDrawn, rec # NoRecord,
           NEW who, NEW op, NEW e \in Devices, Edit(who, op, e), SameKeys(rec, e),
           e.delivery = rec.delivery, e.blockedSent = rec.blockedSent,
           e.state = rec.state \/ (rec.state = "adopted" /\ e.state = "lost"),
           e.cfgVersion = next.version \/ (e.cfgVersion = rec.cfgVersion /\ e.intent = rec.intent)
    PROVE  Edits
  <1>1. Draws /\ rec' = e /\ rec' # NoRecord /\ dev' = dev /\ disk' = disk /\ slot' = slot
    BY EditDraws
  <1>2. (Delivering(e) <=> Delivering(rec)) /\ SentSet(e) = SentSet(rec)
    BY DEF Delivering, SentSet
  <1>3. Remains(e)
    BY <1>2 DEF Remains, SameKeys
  <1>4. Delivering(e) = Delivering(rec)
    BY <1>2 DEF Delivering
  <1>5. rec' = e
    BY <1>1
  <1>6. /\ Remains(rec') /\ Delivering(rec') = Delivering(rec) /\ SentSet(rec') = SentSet(rec)
        /\ rec'.delivery = rec.delivery
    BY <1>2, <1>3, <1>4, <1>5
  <1> QED BY <1>1, <1>6 DEF Edits

\* A step of the records alone, of which none is new.
LEMMA RecordsRecede ==
    ASSUME Waiting, next' = next, dev' = dev, slot' = slot,
           rec' \in {rec, NoRecord}, Records' \subseteq Records
    PROVE  Recedes
  <1>1. \A g \in Slots : GoesOn(g)
    BY DEF GoesOn, Active, Answering, Bases
  <1> QED BY <1>1 DEF Recedes, SameDevice, Waiting

\* The operator's verbs and the lost sweep.
LEMMA OperatorKinds ==
    ASSUME RInv, VersionsDrawn, KInv, Operator
    PROVE  Reborn \/ Edits \/ Recedes
  <1>0. IInv /\ TypeOK
    BY DEF RInv, IInv
  <1>1. next.version \in Nat /\ next.epoch \in Nat
    BY <1>0 DEF TypeOK
  <1>2. rec # NoRecord => Good(rec) /\ rec \in Devices
    BY <1>0, RecGood DEF Good
  <1>3. ASSUME NEW who, NEW op, NEW e, Edit(who, op, e), rec # NoRecord,
               Good(e), SameKeys(rec, e),
               e.delivery = rec.delivery /\ e.blockedSent = rec.blockedSent,
               e.state = rec.state \/ (rec.state = "adopted" /\ e.state = "lost"),
               e.cfgVersion = next.version \/ (e.cfgVersion = rec.cfgVersion /\ e.intent = rec.intent)
        PROVE  Edits
    BY <1>3, EditEdits DEF Good
  <1>4. ASSUME NEW e \in Devices, NEW d, d = [e EXCEPT !.intent = @ + 1, !.cfgVersion = next.version]
        PROVE  /\ d.state = e.state /\ d.delivery = e.delivery /\ d.blockedSent = e.blockedSent
               /\ d.cfgVersion = next.version
    BY <1>4 DEF Devices
  <1>5. ASSUME NEW e \in Devices, NEW d,
               \/ \E env \in Envelopes : d = [e EXCEPT !.wlans = env]
               \/ \E b \in SUBSET Clients : d = [e EXCEPT !.blocked = b]
               \/ d = [e EXCEPT !.reboot = TRUE]
               \/ d = [e EXCEPT !.setdefault = TRUE]
               \/ d = [e EXCEPT !.cmd = TRUE]
               \/ d = [e EXCEPT !.state = "lost"]
        PROVE  /\ d.state = e.state \/ d = [e EXCEPT !.state = "lost"]
               /\ d.delivery = e.delivery /\ d.blockedSent = e.blockedSent
               /\ d.cfgVersion = e.cfgVersion /\ d.intent = e.intent
    BY <1>5 DEF Devices
  <1>6. CASE CreateDevice \/ AdoptPending
    <2> DEFINE d == SeededDevice(next.epoch)
    <2>1. d \in Devices
      BY <1>1, SeededGood DEF Good
    <2>2. /\ d.xAuthkey = NoKey /\ d.cfgVersion = NoVersion /\ d.state = "pending"
          /\ d.epoch = next.epoch /\ ~Delivering(d)
      BY DEF SeededDevice, Delivering, NoDelivery
    <2>3. PICK op \in {"Create", "Adopt"} : Edit("operator", op, d)
      BY <1>6 DEF CreateDevice, AdoptPending
    <2> HIDE DEF d
    <2>4. Draws /\ rec' = d /\ rec' # NoRecord /\ dev' = dev /\ disk' = disk /\ slot' = slot
      BY <2>1, <2>2, <2>3, EditDraws
    <2> QED BY <2>2, <2>4 DEF Reborn
  <1>7. CASE NoteExpires
    <2>1. UNCHANGED <<rec, disk, next, dev, slot>>
      BY <1>7 DEF NoteExpires
    <2> QED BY <2>1, RecordsRecede DEF KInv, Records
  <1>8. CASE DeleteDevice
    <2>1. Edit("operator", "Delete", NoRecord)
      BY <1>8 DEF DeleteDevice
    <2>2. rec' = NoRecord /\ UNCHANGED <<disk, dev, slot>>
      BY <2>1 DEF Edit
    <2>3. next' = next
      BY <1>0, <2>1 DEF Edit, TypeOK
    <2> QED BY <2>2, <2>3, RecordsRecede DEF KInv, Records
  <1>9. CASE PatchDevice
    <2> DEFINE e == [rec EXCEPT !.intent = @ + 1, !.cfgVersion = next.version]
    <2>1. rec # NoRecord /\ Edit("operator", "Patch", e)
      BY <1>9 DEF PatchDevice
    <2>2. Good(e) /\ SameKeys(rec, e)
      BY <1>1, <1>2, <2>1, VerbGood, EnvelopeAssumption
    <2>3. /\ e.state = rec.state /\ e.delivery = rec.delivery
          /\ e.blockedSent = rec.blockedSent /\ e.cfgVersion = next.version
      BY <1>2, <1>4, <2>1
    <2> HIDE DEF e
    <2> QED BY <1>3, <2>1, <2>2, <2>3
  <1>10. ASSUME rec # NoRecord, NEW who, NEW op, NEW e, Edit(who, op, e),
               Good(e), SameKeys(rec, e),
               \/ \E env \in Envelopes : e = [rec EXCEPT !.wlans = env]
               \/ \E b \in SUBSET Clients : e = [rec EXCEPT !.blocked = b]
               \/ e = [rec EXCEPT !.reboot = TRUE]
               \/ e = [rec EXCEPT !.setdefault = TRUE]
               \/ e = [rec EXCEPT !.cmd = TRUE]
               \/ e = [rec EXCEPT !.state = "lost"] /\ rec.state = "adopted"
         PROVE  Edits
    <2>1. /\ e.delivery = rec.delivery /\ e.blockedSent = rec.blockedSent
          /\ e.cfgVersion = rec.cfgVersion /\ e.intent = rec.intent
      BY <1>2, <1>5, <1>10
    <2>2. e.state = rec.state \/ (rec.state = "adopted" /\ e.state = "lost")
      BY <1>2, <1>10 DEF Devices
    <2> QED BY <1>3, <1>10, <2>1, <2>2
  <1>11. CASE \E env \in Envelopes : PutDeviceWireless(env)
    <2>1. PICK env \in Envelopes : PutDeviceWireless(env)
      BY <1>11
    <2> DEFINE e == [rec EXCEPT !.wlans = env]
    <2>2. rec # NoRecord /\ Edit("operator", "Wlans", e)
      BY <2>1 DEF PutDeviceWireless
    <2>3. Good(e) /\ SameKeys(rec, e)
      BY <1>1, <1>2, <2>2, VerbGood
    <2> QED BY <1>10, <2>2, <2>3
  <1>12. CASE \E c \in Clients : BlockClient(c) \/ UnblockClient(c)
    <2>1. PICK c \in Clients : BlockClient(c) \/ UnblockClient(c)
      BY <1>12
    <2>2. rec # NoRecord
      BY <2>1 DEF BlockClient, UnblockClient
    <2>3. PICK b \in SUBSET Clients, op \in {"Block", "Unblock"} :
             Edit("operator", op, [rec EXCEPT !.blocked = b])
      <3>1. rec.blocked \in SUBSET Clients
        BY <1>2, <2>2 DEF Devices
      <3>2. rec.blocked \cup {c} \in SUBSET Clients /\ rec.blocked \ {c} \in SUBSET Clients
        BY <3>1
      <3> QED BY <2>1, <3>2 DEF BlockClient, UnblockClient, AddBlockedClient, RemoveBlockedClient
    <2> DEFINE e == [rec EXCEPT !.blocked = b]
    <2>4. Good(e) /\ SameKeys(rec, e)
      BY <1>1, <1>2, <2>2, VerbGood, EnvelopeAssumption
    <2> QED BY <1>10, <2>2, <2>3, <2>4
  <1>13. CASE RebootDevice
    <2> DEFINE e == [rec EXCEPT !.reboot = TRUE]
    <2>1. rec # NoRecord /\ Edit("operator", "Reboot", e)
      BY <1>13 DEF RebootDevice
    <2>2. Good(e) /\ SameKeys(rec, e)
      BY <1>1, <1>2, <2>1, VerbGood, EnvelopeAssumption
    <2> QED BY <1>10, <2>1, <2>2
  <1>14. CASE FactoryResetDevice
    <2> DEFINE e == [rec EXCEPT !.setdefault = TRUE]
    <2>1. rec # NoRecord /\ Edit("operator", "FactoryReset", e)
      BY <1>14 DEF FactoryResetDevice
    <2>2. Good(e) /\ SameKeys(rec, e)
      BY <1>1, <1>2, <2>1, VerbGood, EnvelopeAssumption
    <2> QED BY <1>10, <2>1, <2>2
  <1>15. CASE EnqueueDeviceCmd
    <2> DEFINE e == [rec EXCEPT !.cmd = TRUE]
    <2>1. rec # NoRecord /\ Edit("operator", "Cmd", e)
      BY <1>15 DEF EnqueueDeviceCmd, ArmCmdTask
    <2>2. Good(e) /\ SameKeys(rec, e)
      BY <1>1, <1>2, <2>1, VerbGood, EnvelopeAssumption
    <2> QED BY <1>10, <2>1, <2>2
  <1>16. CASE SweepLost
    <2> DEFINE e == [rec EXCEPT !.state = "lost"]
    <2>1. rec # NoRecord /\ rec.state = "adopted" /\ Edit("poller", "Sweep", e)
      BY <1>16 DEF SweepLost
    <2>2. Good(e) /\ SameKeys(rec, e)
      BY <1>1, <1>2, <2>1, VerbGood, EnvelopeAssumption
    <2> QED BY <1>10, <2>1, <2>2
  <1> QED BY <1>6, <1>7, <1>8, <1>9, <1>11, <1>12, <1>13, <1>14, <1>15, <1>16
          DEF Operator

-----------------------------------------------------------------------------
(* Requests, answers and saves                                              *)

\* A handler that has dropped its request, or that answers without content.
LEMMA HandlerRests ==
    ASSUME NEW g \in Slots, NEW phase \in {"saving", "reply"},
           NEW kind \in {"status", "noop"},
           \/ slot'[g] = IdleSlot
           \/ slot'[g] = Answered(phase, Bare(kind))
    PROVE  Rests(g)
  <1> DEFINE b == Bare(kind)
  <1>1. /\ b.kind \notin Telling /\ b.key = NoKey /\ b.cfg = NoVersion /\ b.epoch = 0
    BY DEF Bare, Telling
  <1> HIDE DEF b
  <1>2. /\ Answered(phase, b).phase = phase /\ Answered(phase, b).reply = b
        /\ Answered(phase, b).body.key = DefaultKey
        /\ Answered(phase, b).lane = "encrypted"
    BY DEF Answered, IdleSlot, NoBody
  <1>3. /\ IdleSlot.phase = "idle" /\ IdleSlot.body.key = DefaultKey
        /\ IdleSlot.reply.key = NoKey /\ IdleSlot.reply.cfg = NoVersion
        /\ IdleSlot.reply.epoch = 0 /\ IdleSlot.lane = "encrypted"
    BY DEF IdleSlot, NoBody, Bare
  <1>4. CASE slot'[g] = IdleSlot
    BY <1>3, <1>4 DEF Rests, Active, Answering
  <1>5. CASE slot'[g] = Answered(phase, b)
    BY <1>1, <1>2, <1>5 DEF Rests, Active, Answering
  <1> QED BY <1>4, <1>5 DEF b

\* A step of one handler that tells the device nothing and writes nothing new.
LEMMA HandlerRecedes ==
    ASSUME Waiting, NEW h \in Slots, NEW v, slot' = [slot EXCEPT ![h] = v], TypeOK,
           next' = next, dev' = dev, rec' = rec, Records' \subseteq Records,
           Rests(h) \/ GoesOn(h), dev.conn = h => v.phase # "idle"
    PROVE  Recedes
  <1>1. \A g \in Slots : slot'[g] = IF g = h THEN v ELSE slot[g]
    BY DEF TypeOK
  <1>2. \A g \in Slots : g # h => GoesOn(g)
    BY <1>1 DEF GoesOn, Active, Answering, Bases
  <1>3. dev.conn \in Slots \cup {NoConn}
    BY DEF TypeOK, DeviceStates
  <1>4. dev'.conn = NoConn \/ (dev'.conn = dev.conn /\ slot'[dev.conn].phase # "idle")
    BY <1>1, <1>3, SlotAssumption DEF Waiting
  <1>5. \A g \in Slots : Rests(g) \/ GoesOn(g)
    BY <1>2
  <1> QED BY <1>4, <1>5 DEF Recedes, SameDevice

\* A handler whose request the device gave up on or that answers without
\* content, a failed save, a request that reaches the engine, a save.
LEMMA HandlerKinds ==
    ASSUME TypeOK, Waiting, NEW h \in Slots,
           \/ RequestLost(h) \/ (Deliver(h) /\ dev.conn # h)
           \/ DecodeRegistered(h) \/ DecodeFails(h) \/ DecodeUnknown(h)
           \/ Vanished(h) \/ RejectDefaultKey(h)
           \/ \E due \in BOOLEAN : EngineFails(h, due)
           \/ SaveInform(h) \/ SaveInformFails(h)
    PROVE  Recedes
  <1>1. slot[h] \in SlotStates /\ slot \in [Slots -> SlotStates]
    BY DEF TypeOK
  <1>2. CASE RequestLost(h) \/ (Deliver(h) /\ dev.conn # h)
    <2>1. /\ slot' = [slot EXCEPT ![h] = IdleSlot] /\ dev.conn # h
          /\ UNCHANGED <<rec, disk, dev, next>>
      BY <1>2 DEF RequestLost, Deliver
    <2>2. slot'[h] = IdleSlot
      BY <1>1, <2>1
    <2>3. Rests(h)
      BY <2>2, HandlerRests
    <2> QED BY <2>1, <2>3, HandlerRecedes DEF Records
  <1>3. CASE DecodeRegistered(h)
    <2> DEFINE v == [slot[h] EXCEPT !.phase = "decoded"]
    <2>1. /\ slot' = [slot EXCEPT ![h] = v] /\ slot[h].phase = "sent"
          /\ UNCHANGED <<rec, disk, dev, next>>
      BY <1>3 DEF DecodeRegistered
    <2>2. /\ v.phase = "decoded" /\ v.body = slot[h].body
          /\ v.reply = slot[h].reply /\ v.lane = slot[h].lane
      BY <1>1 DEF SlotStates
    <2> HIDE DEF v
    <2>3. slot'[h] = v
      BY <1>1, <2>1
    <2>4. GoesOn(h)
      BY <2>1, <2>2, <2>3 DEF GoesOn, Active, Answering
    <2> QED BY <2>1, <2>2, <2>4, HandlerRecedes DEF Records
  <1>4. CASE \/ DecodeFails(h) \/ DecodeUnknown(h) \/ Vanished(h) \/ RejectDefaultKey(h)
             \/ \E due \in BOOLEAN : EngineFails(h, due)
    <2>1. PICK phase \in {"saving", "reply"}, kind \in {"status", "noop"} :
             slot' = [slot EXCEPT ![h] = Answered(phase, Bare(kind))]
      BY <1>4 DEF DecodeFails, DecodeUnknown, Vanished, RejectDefaultKey, AnswerNow, EngineFails
    <2>2. UNCHANGED <<rec, disk, dev, next>>
      BY <1>4 DEF DecodeFails, DecodeUnknown, Vanished, RejectDefaultKey, AnswerNow, EngineFails
    <2> DEFINE v == Answered(phase, Bare(kind))
    <2>3. v.phase # "idle"
      BY DEF Answered, IdleSlot
    <2> HIDE DEF v
    <2>4. slot' = [slot EXCEPT ![h] = v]
      BY <2>1 DEF v
    <2>5. slot'[h] = v
      BY <1>1, <2>4
    <2>6. slot'[h] = Answered(phase, Bare(kind))
      BY <2>5 DEF v
    <2>7. Rests(h)
      BY <2>6, HandlerRests
    <2> QED BY <2>2, <2>3, <2>4, <2>7, HandlerRecedes DEF Records
  <1>5. CASE SaveInform(h)
    <2> DEFINE v == [slot[h] EXCEPT !.phase = "reply"]
    <2>1. /\ slot' = [slot EXCEPT ![h] = v] /\ slot[h].phase = "saving"
          /\ UNCHANGED <<rec, dev, next>> /\ disk' = Snapshot
      BY <1>5 DEF SaveInform
    <2>2. /\ v.phase = "reply" /\ v.body = slot[h].body
          /\ v.reply = slot[h].reply /\ v.lane = slot[h].lane
      BY <1>1 DEF SlotStates
    <2> HIDE DEF v
    <2>3. slot'[h] = v
      BY <1>1, <2>1
    <2>4. Records' = {rec} \ {NoRecord} /\ Records' \subseteq Records
      BY <2>1 DEF Records, Snapshot
    <2>5. GoesOn(h)
      BY <2>1, <2>2, <2>3, <2>4 DEF GoesOn, Active, Answering, Bases
    <2> QED BY <2>1, <2>2, <2>4, <2>5, HandlerRecedes
  <1>6. CASE SaveInformFails(h)
    <2> DEFINE b == Bare(IF slot[h].reply.kind = "status" THEN "status" ELSE "noop")
               v == [slot[h] EXCEPT !.phase = "reply", !.reply = b]
    <2>1. slot' = [slot EXCEPT ![h] = v] /\ UNCHANGED <<rec, disk, dev, next>>
               /\ slot[h].phase = "saving"
      BY <1>6 DEF SaveInformFails
    <2>2. /\ b.kind \notin Telling /\ b.key = NoKey /\ b.cfg = NoVersion /\ b.epoch = 0
      BY DEF Bare, Telling
    <2> HIDE DEF b
    <2>3. /\ v.phase = "reply" /\ v.body = slot[h].body /\ v.reply = b /\ v.lane = slot[h].lane
      BY <1>1 DEF SlotStates
    <2> HIDE DEF v
    <2>4. slot'[h] = v
      BY <1>1, <2>1
    <2>5. Rests(h)
      BY <2>2, <2>3, <2>4 DEF Rests, Active, Answering
    <2> QED BY <2>1, <2>3, <2>5, HandlerRecedes DEF Records
  <1> QED BY <1>2, <1>3, <1>4, <1>5, <1>6

\* The answer reaches the device that waits for it.
LEMMA DeliverKinds ==
    ASSUME TypeOK, NEW h \in Slots, Deliver(h), dev.conn = h
    PROVE  Recedes \/ Resets \/ Obeys(h)
  <1> DEFINE r == slot[h].reply
  <1>1. slot \in [Slots -> SlotStates] /\ dev \in DeviceStates /\ r.kind \in Kinds
    BY DEF TypeOK, SlotStates, Replies
  <1>2. /\ slot[h].phase = "reply" /\ dev' = Applied(r)
        /\ slot' = [slot EXCEPT ![h] = IdleSlot]
        /\ next' = next /\ rec' = rec /\ disk' = disk
    BY DEF Deliver
  <1>3. slot'[h] = IdleSlot /\ \A g \in Slots : g # h => slot'[g] = slot[g]
    BY <1>1, <1>2
  <1>4. Rests(h)
    BY <1>3, HandlerRests
  <1>5. \A g \in Slots : g # h => GoesOn(g)
    BY <1>2, <1>3 DEF GoesOn, Active, Answering, Bases, Records
  <1>6. CASE r.kind = "push"
    <2> DEFINE key == IF r.key # NoKey THEN r.key ELSE dev.key
               epoch == IF r.key # NoKey THEN r.epoch ELSE dev.epoch
    <2>1. dev' = [dev EXCEPT !.conn = NoConn, !.cfg = r.cfg, !.key = key, !.epoch = epoch]
      BY <1>2, <1>6 DEF Applied
    <2>2. /\ dev'.conn = NoConn /\ dev'.cfg = r.cfg /\ dev'.key = key /\ dev'.epoch = epoch
          /\ dev'.intent = dev.intent /\ dev'.blocked = dev.blocked /\ dev'.env = dev.env
      BY <1>1, <2>1 DEF DeviceStates
    <2>3. \/ dev'.key = dev.key /\ dev'.epoch = dev.epoch
          \/ r.key # NoKey /\ dev'.key = r.key /\ dev'.epoch = r.epoch
      BY <2>2
    <2>4. r.key # NoKey => dev'.key = r.key /\ dev'.epoch = r.epoch
      BY <2>2
    <2> QED BY <1>2, <1>3, <1>6, <2>2, <2>3, <2>4 DEF Obeys, Telling
  <1>7. CASE r.kind = "provision"
    <2>1. dev' = [dev EXCEPT !.conn = NoConn, !.cfg = r.cfg, !.env = r.env,
                             !.blocked = r.blocked, !.intent = r.intent]
      BY <1>2, <1>7 DEF Applied
    <2>2. /\ dev'.conn = NoConn /\ dev'.cfg = r.cfg /\ dev'.key = dev.key
          /\ dev'.epoch = dev.epoch /\ dev'.intent = r.intent /\ dev'.blocked = r.blocked
          /\ dev'.env = r.env
      BY <1>1, <2>1 DEF DeviceStates
    <2> QED BY <1>2, <1>3, <1>7, <2>2 DEF Obeys, Telling
  <1>8. CASE r.kind = "reconnect"
    <2>1. dev' = [dev EXCEPT !.conn = NoConn, !.blocked = r.blocked]
      BY <1>2, <1>8 DEF Applied
    <2>2. /\ dev'.conn = NoConn /\ dev'.cfg = dev.cfg /\ dev'.key = dev.key
          /\ dev'.epoch = dev.epoch /\ dev'.intent = dev.intent /\ dev'.blocked = r.blocked
          /\ dev'.env = dev.env
      BY <1>1, <2>1 DEF DeviceStates
    <2> QED BY <1>2, <1>3, <1>8, <2>2 DEF Obeys, Telling
  <1>9. CASE r.kind = "setdefault"
    <2>1. dev' = FactoryDevice
      BY <1>2, <1>9 DEF Applied
    <2> QED BY <1>2, <1>3, <1>4, <2>1 DEF Resets
  <1>10. CASE r.kind \notin {"push", "provision", "reconnect", "setdefault"}
    <2>1. dev' = [dev EXCEPT !.conn = NoConn]
      BY <1>2, <1>10 DEF Applied
    <2>2. SameDevice /\ dev'.conn = NoConn
      BY <1>1, <2>1 DEF DeviceStates, SameDevice
    <2>3. Records' \subseteq Records
      BY <1>2 DEF Records
    <2>4. \A g \in Slots : Rests(g) \/ GoesOn(g)
      BY <1>4, <1>5
    <2> QED BY <1>2, <2>2, <2>3, <2>4 DEF Recedes
  <1> QED BY <1>6, <1>7, <1>8, <1>9, <1>10

\* A report of the device, with its cfgversion or without.
LEMMA SendAsks ==
    ASSUME TypeOK, NEW h \in Slots, NEW lane \in {"encrypted"} \cup Lanes,
           NEW type, NEW table, NEW drop, NEW cfg \in {dev.cfg, NoVersion},
           cfg = dev.cfg \/ "Sparse" \in Ops,
           spent'.reports # 0 \/ (lane = "encrypted" /\ cfg = dev.cfg /\ table = TrueTable),
           Send(h, lane, [type |-> type, key |-> dev.key, cfg |-> cfg,
                          table |-> table, drop |-> drop])
    PROVE  Asks(h)
  <1> DEFINE b == [type |-> type, key |-> dev.key, cfg |-> cfg, table |-> table, drop |-> drop]
             v == [IdleSlot EXCEPT !.phase = "sent", !.lane = lane, !.body = b]
  <1>2. b.key = dev.key /\ b.cfg = cfg /\ b.table = table
    OBVIOUS
  <1>3. Send(h, lane, b)
    OBVIOUS
  <1> HIDE DEF b
  <1>4. v.phase = "sent" /\ v.lane = lane /\ v.body = b /\ v.reply = Bare("status")
    BY DEF IdleSlot
  <1>5. /\ dev.conn = NoConn /\ slot' = [slot EXCEPT ![h] = v]
        /\ dev' = [dev EXCEPT !.conn = h]
        /\ next' = next /\ rec' = rec /\ disk' = disk
    BY <1>3 DEF Send
  <1> HIDE DEF v
  <1>6. slot'[h] = v /\ \A g \in Slots : g # h => slot'[g] = slot[g]
    BY <1>5 DEF TypeOK
  <1>7. SameDevice /\ dev'.conn = h
    BY <1>5 DEF TypeOK, DeviceStates, SameDevice
  <1>8. slot'[h].body.cfg = dev.cfg \/ "Sparse" \in Ops
    BY <1>2, <1>4, <1>6
  <1>9. slot'[h].body.cfg \in {dev.cfg, NoVersion} /\ slot'[h].body.key = dev.key
    BY <1>2, <1>4, <1>6
  <1>10. slot'[h].lane = "encrypted" \/ slot'[h].lane \in Lanes
    BY <1>4, <1>6
  <1>11. \/ spent'.reports # 0
         \/ /\ slot'[h].lane = "encrypted"
            /\ slot'[h].body.cfg = dev.cfg
            /\ slot'[h].body.table = TrueTable
    BY <1>2, <1>4, <1>6
  <1> QED BY <1>4, <1>5, <1>6, <1>7, <1>8, <1>9, <1>10, <1>11 DEF Asks

\* The device informs.
LEMMA InformAsks ==
    ASSUME TypeOK, NEW h \in Slots, Inform(h) \/ \E lane \in Lanes : OddInform(h, lane)
    PROVE  Asks(h)
  <1>1. CASE Inform(h)
    <2>1. Send(h, "encrypted", [type |-> "status", key |-> dev.key, cfg |-> dev.cfg,
                                table |-> TrueTable, drop |-> FALSE])
      BY <1>1 DEF Inform
    <2> QED BY <2>1, SendAsks
  <1>2. CASE \E lane \in Lanes : OddInform(h, lane)
    <2>1. PICK lane \in Lanes : OddInform(h, lane)
      BY <1>2
    <2>2. PICK type \in {"status", "gentle"}, table \in Reportable,
               drop \in {FALSE, "Drop" \in Ops},
               cfg \in {dev.cfg, IF "Sparse" \in Ops THEN NoVersion ELSE dev.cfg} :
               Send(h, lane, [type |-> type, key |-> dev.key, cfg |-> cfg,
                              table |-> table, drop |-> drop])
      BY <2>1 DEF OddInform
    <2>3. cfg \in {dev.cfg, NoVersion} /\ (cfg = dev.cfg \/ "Sparse" \in Ops)
      BY <2>2
    <2>4. Send(h, lane, [type |-> type, key |-> dev.key, cfg |-> cfg,
                         table |-> table, drop |-> drop])
      BY <2>2
    <2>5. spent'.reports # 0
      BY <2>1 DEF OddInform, TypeOK
    <2> QED BY <2>1, <2>3, <2>4, <2>5, SendAsks
  <1> QED BY <1>1, <1>2

\* The device stops waiting, the process restarts, or nothing happens.
LEMMA QuietKinds ==
    ASSUME TypeOK, Waiting,
           \/ \E who \in {"operator", "poller"} : SaveOther(who) \/ SaveOtherFails(who)
           \/ GiveUp \/ Restart \/ UNCHANGED vars
    PROVE  Recedes
  <1>1. CASE \/ \E who \in {"operator", "poller"} : SaveOther(who) \/ SaveOtherFails(who)
             \/ UNCHANGED vars
    <2>1. next' = next /\ dev' = dev /\ slot' = slot /\ rec' = rec
          /\ (disk' = disk \/ disk' = Snapshot)
      BY <1>1 DEF SaveOther, SaveOtherFails, vars
    <2>2. Records' \subseteq Records
      BY <2>1 DEF Records, Snapshot
    <2> QED BY <2>1, <2>2, RecordsRecede
  <1>2. CASE GiveUp
    <2>1. /\ dev' = [dev EXCEPT !.conn = NoConn]
          /\ next' = next /\ slot' = slot /\ rec' = rec /\ disk' = disk
      BY <1>2 DEF GiveUp
    <2>2. SameDevice /\ dev'.conn = NoConn
      BY <2>1 DEF TypeOK, DeviceStates, SameDevice
    <2>3. Records' \subseteq Records
      BY <2>1 DEF Records
    <2>4. \A g \in Slots : GoesOn(g)
      BY <2>1 DEF GoesOn, Active, Answering, Bases, Records
    <2> QED BY <2>1, <2>2, <2>3, <2>4 DEF Recedes
  <1>3. CASE Restart
    <2>1. /\ dev' = [dev EXCEPT !.conn = NoConn] /\ next' = next
          /\ slot' = [h \in Slots |-> IdleSlot]
          /\ rec' = disk.rec /\ disk' = disk
      BY <1>3 DEF Restart
    <2>2. SameDevice /\ dev'.conn = NoConn
      BY <2>1 DEF TypeOK, DeviceStates, SameDevice
    <2>3. Records' \subseteq Records
      BY <2>1 DEF Records
    <2>4. \A g \in Slots : slot'[g] = IdleSlot
      BY <2>1
    <2>5. \A g \in Slots : Rests(g)
      BY <2>4, HandlerRests
    <2> QED BY <2>1, <2>2, <2>3, <2>5 DEF Recedes
  <1> QED BY <1>1, <1>2, <1>3

\* Somebody holds the reset button.
LEMMA ButtonResets ==
    ASSUME PhysicalReset
    PROVE  Resets
  BY DEF PhysicalReset, Resets

\* A cycle that leaves the incarnation alone.
Turn(h) ==
    \/ GentleNoop(h) \/ EmitReboot(h) \/ EmitCmd(h)
    \/ PlainUnassigned(h) \/ PlainResend(h) \/ PlainProvision(h)
    \/ \E due \in BOOLEAN : Cycle(h, due)

\* The kinds of steps, with the cycles themselves.
Kind ==
    \/ Recedes \/ Resets \/ Reborn \/ Edits
    \/ \E h \in Slots : Asks(h) \/ Obeys(h) \/ (Turn(h) /\ (Rotates(h) \/ Serves(h)))

\* Every step of the system is of one of these kinds.
LEMMA NextKinds ==
    ASSUME RInv, VersionsDrawn, KInv, [Next]_vars
    PROVE  Kind
  <1>1. TypeOK /\ Waiting
    BY DEF RInv, IInv, KInv
  <1>2. ASSUME NEW h \in Slots, Deliver(h)
        PROVE  Kind
    <2>1. CASE dev.conn = h
      BY <1>1, <1>2, <2>1, DeliverKinds DEF Kind
    <2>2. CASE dev.conn # h
      BY <1>1, <1>2, <2>2, HandlerKinds DEF Kind
    <2> QED BY <2>1, <2>2
  <1>3. ASSUME NEW h \in Slots, Inform(h) \/ \E lane \in Lanes : OddInform(h, lane)
        PROVE  Kind
    BY <1>1, <1>3, InformAsks DEF Kind
  <1>4. ASSUME NEW h \in Slots, Handle(h)
        PROVE  Kind
    <2>1. CASE \/ DecodeRegistered(h) \/ DecodeFails(h) \/ DecodeUnknown(h)
               \/ Vanished(h) \/ RejectDefaultKey(h)
      BY <1>1, <2>1, HandlerKinds DEF Kind
    <2>2. CASE EmitSetdefault(h)
      BY <2>2, SetdefaultReborn DEF Kind
    <2>3. CASE \/ GentleNoop(h) \/ EmitReboot(h) \/ EmitCmd(h)
               \/ PlainUnassigned(h) \/ PlainResend(h) \/ PlainProvision(h)
      BY <2>3, LaneServes DEF Kind, Turn
    <2> QED BY <1>4, <2>1, <2>2, <2>3 DEF Handle
  <1>5. ASSUME NEW h \in Slots, NEW due \in BOOLEAN, Cycle(h, due)
        PROVE  Kind
    BY <1>5, SwitchServes DEF Kind, Turn
  <1>6. ASSUME NEW h \in Slots,
               \/ RequestLost(h) \/ SaveInform(h) \/ SaveInformFails(h)
               \/ \E due \in BOOLEAN : EngineFails(h, due)
        PROVE  Kind
    BY <1>1, <1>6, HandlerKinds DEF Kind
  <1>7. CASE \/ \E who \in {"operator", "poller"} : SaveOther(who) \/ SaveOtherFails(who)
             \/ GiveUp \/ Restart \/ UNCHANGED vars
    BY <1>1, <1>7, QuietKinds DEF Kind
  <1>8. CASE PhysicalReset
    BY <1>8, ButtonResets DEF Kind
  <1>9. CASE Operator
    BY <1>9, OperatorKinds DEF Kind
  <1> QED BY <1>2, <1>3, <1>4, <1>5, <1>6, <1>7, <1>8, <1>9 DEF Next

\* The kinds say no less than the steps they are steps of.
LEMMA KindStep == Kind => Step
  BY DEF Kind, Step

-----------------------------------------------------------------------------
(* The device's content and key                                             *)

\* Before anything is enrolled there are no records, no answers and no keys.
LEMMA InitKinds == Init => KInv /\ VersionsDrawn /\ CInv /\ KeysKept /\ Unnumbered
  <1> SUFFICES ASSUME Init PROVE KInv /\ VersionsDrawn /\ CInv /\ KeysKept /\ Unnumbered
    OBVIOUS
  <1>1. rec = NoRecord /\ disk.rec = NoRecord /\ Records = {}
    BY DEF Init, Snapshot, Records
  <1>2. /\ dev.conn = NoConn /\ dev.key = DefaultKey /\ dev.cfg = NoVersion /\ dev.epoch = 0
        /\ next.key = 1 /\ next.version = 1 /\ next.epoch = 1
    BY DEF Init, FactoryDevice
  <1>3. \A h \in Slots :
           /\ slot[h].phase = "idle" /\ slot[h].body.key = DefaultKey
           /\ slot[h].reply.key = NoKey /\ slot[h].reply.cfg = NoVersion
           /\ slot[h].reply.epoch = 0 /\ slot[h].lane = "encrypted"
    BY DEF Init, IdleSlot, NoBody, Bare
  <1>4. \A h \in Slots : ~Active(h) /\ ~Answering(h) /\ ~Pushed(h)
    BY <1>3 DEF Active, Answering, Pushed
  <1>5. KInv
    BY <1>1, <1>2, <1>3, <1>4
       DEF KInv, Waiting, KeysDrawn, OneKey, Untaken, DefaultKey, NoKey
  <1>6. VersionsDrawn
    BY <1>1, <1>2, <1>3 DEF VersionsDrawn, NoVersion
  <1>7. CInv
    BY <1>1, <1>4 DEF CInv, AdoptedDelivers, SameContent, AnswerContent, Filled, Unfilled
  <1>8. KeysKept
    BY <1>1, <1>2, <1>3, <1>4 DEF KeysKept
  <1>9. Unnumbered
    BY <1>1, <1>3, <1>4 DEF Unnumbered
  <1> QED BY <1>5, <1>6, <1>7, <1>8, <1>9

\* What holds of every reachable state, whatever the device sends and whatever
\* gets lost.
Told == RInv /\ VersionsDrawn /\ KInv

\* Every step preserves it and is of one of the kinds.
LEMMA NextTold == Told /\ [Next]_vars => Told' /\ Kind /\ Step /\ Numbered /\ Numbered'
  <1> SUFFICES ASSUME Told, [Next]_vars PROVE Told' /\ Kind /\ Step /\ Numbered /\ Numbered'
    OBVIOUS
  <1>1. RInv /\ VersionsDrawn /\ KInv
    BY DEF Told
  <1>2. RInv'
    BY <1>1, NextRefines
  <1>3. Numbered /\ Numbered'
    BY <1>1, <1>2, RInvNumbered, RInvNumberedNext
  <1>4. Kind /\ Step
    BY <1>1, NextKinds, KindStep
  <1>5. VersionsDrawn' /\ KInv'
    BY <1>1, <1>3, <1>4, StepVersions, StepKeys
  <1> QED BY <1>2, <1>3, <1>4, <1>5 DEF Told

\* A believed device has the cfgversion of a record with a delivery.
LEMMA FilledConnected == RInv /\ CInv => ConnectedContent
  <1> SUFFICES ASSUME RInv, CInv, Believed
               PROVE  dev.intent = rec.intent /\ dev.blocked = rec.blocked
    BY DEF ConnectedContent
  <1>1. rec \in Records /\ rec.state = "adopted" /\ dev.epoch = rec.epoch
        /\ dev.cfg = rec.cfgVersion /\ ~BlockedDrift(rec)
    BY DEF Believed, Records
  <1>2. Delivering(rec)
    BY <1>1 DEF CInv, AdoptedDelivers
  <1>3. Carrying(rec, dev.intent, dev.blocked)
    BY <1>1, <1>2 DEF CInv, Filled
  <1>4. SentSet(rec) = rec.blocked
    BY <1>1, UndriftedSent
  <1> QED BY <1>3, <1>4 DEF Carrying

\* ConnectedContent holds, whatever is lost, delayed or reordered, however often
\* saves fail and the process restarts, as long as content leaves only in answer
\* to encrypted informs that name the device's cfgversion. (decidePlain believes
\* the key that a plaintext report claims, and an inform without a cfgversion
\* counts as an echo: cfgversionEchoes.)
THEOREM ConnectedContentHolds == Spec /\ [][OnReport]_vars => []ConnectedContent
  <1> DEFINE Inv == Told /\ CInv
  <1>1. Init => Inv
    BY InitRefines, InitKinds DEF Told
  <1>2. Inv /\ [Next]_vars /\ [OnReport]_vars => Inv'
    <2> SUFFICES ASSUME Inv, [Next]_vars, [OnReport]_vars PROVE Inv'
      OBVIOUS
    <2>1. OnReport
      <3>1. CASE UNCHANGED vars
        BY <3>1 DEF OnReport, vars
      <3> QED BY <3>1
    <2>2. Told' /\ Step /\ Numbered /\ Numbered'
      BY NextTold
    <2>3. CInv'
      BY <2>1, <2>2, StepContent DEF Told
    <2> QED BY <2>2, <2>3
  <1>3. Inv => ConnectedContent
    BY FilledConnected DEF Told
  <1> QED BY <1>1, <1>2, <1>3, PTL DEF Spec

\* In particular it holds of a controller started without
\* --allow-plaintext-inform whose devices name their cfgversion in every inform.
THEOREM ConnectedContentByDefault ==
    ASSUME "plain" \notin Lanes, "Sparse" \notin Ops
    PROVE  Spec => []ConnectedContent
  <1> DEFINE Inv == Told /\ CInv /\ Unnumbered
  <1>1. Init => Inv
    BY InitRefines, InitKinds DEF Told
  <1>2. Inv /\ [Next]_vars => Inv'
    <2> SUFFICES ASSUME Inv, [Next]_vars PROVE Inv'
      OBVIOUS
    <2>1. Told' /\ Step /\ Numbered /\ Numbered'
      BY NextTold
    <2>2. OnReport
      BY <2>1, StepOnReport
    <2>3. CInv'
      BY <2>1, <2>2, StepContent DEF Told
    <2>4. Unnumbered'
      BY <2>1, StepUnnumbered DEF Told
    <2> QED BY <2>1, <2>3, <2>4
  <1>3. Inv => ConnectedContent
    BY FilledConnected DEF Told
  <1> QED BY <1>1, <1>2, <1>3, PTL DEF Spec

\* A key that is kept decrypts.
LEMMA KeptDecrypts ==
    ASSUME RInv, KeysKept
    PROVE  DeviceKeyKept
  <1> SUFFICES ASSUME NEW d \in Records, dev.key # DefaultKey, dev.epoch = d.epoch
               PROVE  dev.key \in KeysOf(d)
    BY DEF DeviceKeyKept
  <1>1. Kept(d, dev.key)
    BY DEF KeysKept
  <1>2. d.authkeys \in Seq(Keys)
    BY RInvNumbered DEF Numbered
  <1>3. Len(d.authkeys) \in DOMAIN d.authkeys
    BY <1>1, <1>2 DEF Kept
  <1>4. Len(d.authkeys) = 2 => 1 \in DOMAIN d.authkeys
    BY <1>2
  <1> QED BY <1>1, <1>3, <1>4 DEF Kept, KeysOf

\* DeviceKeyKept holds, whatever is lost, delayed or reordered, however often
\* saves fail and the process restarts, as long as at most one factory-key inform
\* that the device no longer waits for is under way while it waits for another.
\* (Each such inform draws a key, and the record keeps two: rotateKeys, addKey.)
THEOREM DeviceKeyKeptHolds == Spec /\ []FewStragglers => []DeviceKeyKept
  <1> DEFINE Inv == Told /\ KeysKept
  <1>1. Init => Inv
    BY InitRefines, InitKinds DEF Told
  <1>2. Inv /\ FewStragglers /\ [Next]_vars => Inv'
    <2> SUFFICES ASSUME Inv, FewStragglers, [Next]_vars PROVE Inv'
      OBVIOUS
    <2>1. Told' /\ Step /\ Numbered /\ Numbered'
      BY NextTold
    <2>2. KeysKept'
      BY <2>1, StepKept DEF Told
    <2> QED BY <2>1, <2>2
  <1>3. Inv => DeviceKeyKept
    BY KeptDecrypts DEF Told
  <1> QED BY <1>1, <1>2, <1>3, PTL DEF Spec

\* Two handlers leave room for one such inform beside the one the device waits for.
LEMMA TwoHandlers ==
    ASSUME IsFiniteSet(Slots), Cardinality(Slots) <= 2, TypeOK
    PROVE  FewStragglers
  <1> SUFFICES ASSUME dev.conn # NoConn, NEW g \in Stragglers, NEW h \in Stragglers, g # h
               PROVE  FALSE
    BY DEF FewStragglers, AtMostOne
  <1>1. /\ dev.conn \in Slots /\ g \in Slots /\ h \in Slots
        /\ g # dev.conn /\ h # dev.conn
    BY DEF TypeOK, DeviceStates, Stragglers
  <1>2. IsFiniteSet(Slots \ {g}) /\ Cardinality(Slots \ {g}) = Cardinality(Slots) - 1
    BY <1>1, FS_RemoveElement
  <1>3. IsFiniteSet((Slots \ {g}) \ {h})
        /\ Cardinality((Slots \ {g}) \ {h}) = Cardinality(Slots \ {g}) - 1
    BY <1>1, <1>2, FS_RemoveElement
  <1>4. IsFiniteSet(((Slots \ {g}) \ {h}) \ {dev.conn})
        /\ Cardinality(((Slots \ {g}) \ {h}) \ {dev.conn}) = Cardinality((Slots \ {g}) \ {h}) - 1
    BY <1>1, <1>3, FS_RemoveElement
  <1>5. /\ Cardinality(Slots) \in Nat
        /\ Cardinality(((Slots \ {g}) \ {h}) \ {dev.conn}) \in Nat
    BY <1>4, FS_CardinalityType
  <1> QED BY <1>2, <1>3, <1>4, <1>5

\* In particular it holds of a server that runs at most two handlers at a time.
THEOREM DeviceKeyKeptByTwo ==
    ASSUME IsFiniteSet(Slots), Cardinality(Slots) <= 2
    PROVE  Spec => []DeviceKeyKept
  <1>1. Spec => []TypeOK
    BY TypeCorrect
  <1>2. TypeOK => FewStragglers
    BY TwoHandlers
  <1>3. Spec /\ []FewStragglers => []DeviceKeyKept
    BY DeviceKeyKeptHolds
  <1> QED BY <1>1, <1>2, <1>3, PTL

-----------------------------------------------------------------------------
(* What the device broadcasts                                               *)

\* Every WLAN that can be saved has a VAP the access point can bring up.
Visible ==
    \A env \in Envelopes :
        /\ \A r \in env.vaps : r[1] \in env.ssids
        /\ \A w \in env.ssids : \E r \in env.vaps \cap Capable : r[1] = w

\* A cycle commits only while the device waits for its answer.
OnTime ==
    \A h \in Slots :
        slot[h].phase = "decoded" /\ slot'[h].phase = "saving" => dev.conn = h

\* The device broadcasts the settled baseline, and the pending envelope if it has
\* the cfgversion that this was offered under.
Airs(d) ==
    dev.epoch = d.epoch /\ Delivering(d) =>
        IF d.delivery.pending = NoEnvelope
        THEN dev.env = d.delivery.baseline
        ELSE dev.cfg = d.cfgVersion => dev.env = d.delivery.pending

\* The provisioning that the device waits for carries the pending envelope.
CarriesPending ==
    \A h \in Slots :
        dev.conn = h /\ Answering(h) /\ slot[h].reply.kind = "provision" =>
            \A d \in Bases(h) :
                d.epoch = dev.epoch /\ Delivering(d)
                    => d.delivery.pending = slot[h].reply.env

\* The device waits for an answer to a complete report of its present state.
ReportsTruly ==
    dev.conn # NoConn /\ Active(dev.conn) =>
        /\ slot[dev.conn].body.cfg = dev.cfg
        /\ slot[dev.conn].body.table = TrueTable

AInv == (\A d \in Records : Airs(d)) /\ CarriesPending /\ ReportsTruly

\* e has the delivery of d.
SameOffer(d, e) ==
    /\ e.delivery.pending = d.delivery.pending
    /\ e.delivery.baseline = d.delivery.baseline

\* Settling promotes the pending envelope or changes nothing; a drifting blocked
\* set, and WLANs that drift from a settled baseline, draw a cfgversion.
LEMMA WorkOffer ==
    ASSUME IInv, NEW h \in Slots, rec # NoRecord
    PROVE  /\ Fresh(h).delivery = rec.delivery
           /\ Work(h).delivery = Settle(rec.delivery, Table(h), rec.cfgVersion)
           /\ Work(h).wlans = rec.wlans /\ rec.wlans \in Envelopes
           /\ ContentDrift(Work(h)) /\ Work(h).delivery.pending = NoEnvelope
                 => Work(h).cfgVersion = next.version
  <1> DEFINE f == Fresh(h)
             t == Settle(f.delivery, Table(h), f.cfgVersion)
             s == [f EXCEPT !.delivery = t]
             m == [s EXCEPT !.cfgVersion = next.version]
             w == Work(h)
  <1>1. rec \in Devices /\ f \in Devices
    BY RecGood, WorkGood DEF Good
  <1>2. /\ f.delivery = rec.delivery /\ f.cfgVersion = rec.cfgVersion /\ f.wlans = rec.wlans
        /\ rec.wlans \in Envelopes
    BY <1>1 DEF Fresh, Absorb, Devices
  <1>3. w = IF MintsVersion(s) THEN m ELSE s
    BY DEF Work, Prepared
  <1>4. t = Settle(rec.delivery, Table(h), rec.cfgVersion)
    BY <1>2
  <1> HIDE DEF f, t
  <1>5. /\ s.delivery = t /\ s.wlans = f.wlans
        /\ s.blocked = f.blocked /\ s.blockedSent = f.blockedSent
        /\ m.delivery = t /\ m.wlans = f.wlans /\ m.cfgVersion = next.version
        /\ m.blocked = f.blocked /\ m.blockedSent = f.blockedSent
    BY <1>1 DEF Devices
  <1> HIDE DEF s, m, w
  <1>6. w.delivery = t /\ w.wlans = rec.wlans
    BY <1>2, <1>3, <1>5
  <1>7. ASSUME ContentDrift(w), w.delivery.pending = NoEnvelope
        PROVE  w.cfgVersion = next.version
    <2>1. WlanDrift(w) \/ BlockedDrift(w)
      BY <1>7 DEF ContentDrift
    <2>2. WlanDrift(w) = WlanDrift(s) /\ BlockedDrift(w) = BlockedDrift(s)
      BY <1>3, <1>5 DEF WlanDrift, BlockedDrift
    <2>3. s.delivery.pending # s.wlans
      BY <1>2, <1>5, <1>6, <1>7, EnvelopeAssumption
    <2>4. MintsVersion(s)
      BY <2>1, <2>2, <2>3 DEF MintsVersion
    <2> QED BY <1>3, <1>5, <2>4
  <1> QED BY <1>2, <1>4, <1>6, <1>7 DEF f, w

\* A complete report of a device that runs the pending envelope proves it.
LEMMA TrueReportProves ==
    ASSUME Visible, NEW s, s.pending \in Envelopes, s.pending = dev.env
    PROVE  Proven(s, TrueTable)
  <1>1. /\ TrueTable.present /\ TrueTable.run = s.pending.vaps \cap Capable
    BY DEF TrueTable
  <1>2. s.pending # NoEnvelope
    BY EnvelopeAssumption
  <1>3. \A r \in s.pending.vaps : r[1] \in s.pending.ssids
    BY DEF Visible
  <1>4. \A w \in s.pending.ssids : \E r \in s.pending.vaps \cap Capable : r[1] = w
    BY DEF Visible
  <1> QED BY <1>1, <1>2, <1>3, <1>4 DEF Proven

\* What settles is the pending envelope.
LEMMA SettleRows ==
    ASSUME NEW s \in DeliveryStates, NEW table, NEW version
    PROVE  LET t == Settle(s, table, version)
           IN  /\ t.pending # NoEnvelope => ~Proven(s, table) /\ t = s
               /\ Proven(s, table) => t.pending = NoEnvelope /\ t.baseline = s.pending
               /\ ~Proven(s, table) => t = s
  BY DEF Settle, Proven, DeliveryStates

\* After a complete report from a device that has the record's cfgversion no
\* delivery is pending, and the baseline is what the device broadcasts.
LEMMA WorkAirs ==
    ASSUME IInv, Visible, NEW h \in Slots, rec # NoRecord, Table(h) = TrueTable,
           Airs(rec), dev.epoch = rec.epoch, dev.cfg = rec.cfgVersion, Delivering(rec)
    PROVE  Work(h).delivery.pending = NoEnvelope /\ Work(h).delivery.baseline = dev.env
  <1> DEFINE s == rec.delivery
             t == Settle(s, Table(h), rec.cfgVersion)
  <1>1. s \in DeliveryStates
    BY RecGood DEF Good, Devices
  <1>2. Work(h).delivery = t
    BY WorkOffer
  <1>3. CASE s.pending = NoEnvelope
    <2>1. dev.env = s.baseline
      BY <1>3 DEF Airs
    <2>2. ~Proven(s, Table(h))
      BY <1>3 DEF Proven
    <2>3. t = s
      BY <1>1, <2>2, SettleRows
    <2> QED BY <1>2, <1>3, <2>1, <2>3
  <1>4. CASE s.pending # NoEnvelope
    <2>1. dev.env = s.pending /\ s.pending \in Envelopes
      BY <1>1, <1>4 DEF Airs, DeliveryStates
    <2>2. Proven(s, Table(h))
      BY <2>1, TrueReportProves
    <2>3. t.pending = NoEnvelope /\ t.baseline = s.pending
      BY <1>1, <2>2, SettleRows
    <2> QED BY <1>2, <2>1, <2>3
  <1> QED BY <1>3, <1>4

\* What the branches do to the delivery.
LEMMA BranchOffers ==
    ASSUME NEW d \in Devices, NEW table, NEW version \in Nat
    PROVE  /\ SameOffer(d, Rebooted(d))
           /\ SameOffer(d, CmdConsumed(d))
           /\ SameOffer(d, [d EXCEPT !.delivery = Spent(@)])
           /\ SameOffer(d, [d EXCEPT !.cfgVersion = version])
           /\ SameOffer(d, [d EXCEPT !.state = "adopted", !.disconnected = FALSE])
           /\ SameOffer(d, [d EXCEPT !.disconnected = FALSE, !.delivery.misses = 0,
                                     !.cfgVersion = version])
           /\ SameOffer(d, [MaterializationArmed(d) EXCEPT !.disconnected = FALSE])
           /\ SameOffer(d, Connected(d, table))
           /\ LET e == Provisioned(d, version)
              IN  /\ e.delivery.pending = d.wlans
                  /\ FullProvision(e).env = d.wlans
  <1>0. d.delivery \in DeliveryStates
    BY DEF Devices
  <1>1. SameOffer(d, Rebooted(d)) /\ SameOffer(d, CmdConsumed(d))
    BY <1>0 DEF SameOffer, Rebooted, CmdConsumed, Devices, DeliveryStates
  <1>2. SameOffer(d, [d EXCEPT !.delivery = Spent(@)])
    <2>1. /\ Spent(d.delivery).pending = d.delivery.pending
          /\ Spent(d.delivery).baseline = d.delivery.baseline
      BY <1>0, CountersType
    <2> QED BY <2>1 DEF SameOffer, Devices
  <1>3. /\ SameOffer(d, [d EXCEPT !.cfgVersion = version])
        /\ SameOffer(d, [d EXCEPT !.state = "adopted", !.disconnected = FALSE])
    BY DEF SameOffer, Devices
  <1>4. /\ SameOffer(d, [d EXCEPT !.disconnected = FALSE, !.delivery.misses = 0,
                                  !.cfgVersion = version])
        /\ SameOffer(d, [MaterializationArmed(d) EXCEPT !.disconnected = FALSE])
    BY <1>0 DEF SameOffer, MaterializationArmed, Devices, DeliveryStates
  <1>5. SameOffer(d, Connected(d, table))
    <2> DEFINE t == Watched(d, table)
    <2>1. t.pending = d.delivery.pending /\ t.baseline = d.delivery.baseline
      BY <1>0 DEF Watched, DeliveryStates
    <2> HIDE DEF t
    <2>2. [d EXCEPT !.state = "adopted", !.disconnected = FALSE, !.delivery = t].delivery = t
      BY DEF Devices
    <2> QED BY <2>1, <2>2 DEF SameOffer, Connected, t
  <1>6. LET e == Provisioned(d, version)
        IN  e.delivery.pending = d.wlans /\ FullProvision(e).env = d.wlans
    <2> DEFINE cfg == IF d.cfgVersion = NoVersion THEN version ELSE d.cfgVersion
               o == Offer(d.delivery, d.wlans, cfg)
               e == Provisioned(d, version)
    <2>1. o.pending = d.wlans
      BY <1>0 DEF Offer, DeliveryStates
    <2>2. e = [d EXCEPT !.cfgVersion = cfg, !.state = "adopting", !.delivery = o,
                        !.blockedSent = d.blocked, !.disconnected = FALSE]
      BY DEF Provisioned
    <2> HIDE DEF cfg, o, e
    <2>3. e.delivery = o /\ e.wlans = d.wlans
      BY <2>2 DEF Devices
    <2>4. FullProvision(e).env = e.wlans
      BY DEF FullProvision, Bare
    <2> QED BY <2>1, <2>3, <2>4 DEF e
  <1> QED BY <1>1, <1>2, <1>3, <1>4, <1>5, <1>6

-----------------------------------------------------------------------------
(* What a cycle leaves of the broadcast                                     *)

\* The request that handler h is working on is a complete report of the device's
\* present state.
Truthful(h) ==
    /\ slot[h].lane = "encrypted"
    /\ slot[h].body.key = dev.key
    /\ slot[h].body.cfg = dev.cfg
    /\ slot[h].body.table = TrueTable
    /\ dev.cfg = NoVersion => dev.key # rec.xAuthkey

\* The record that h commits, and its answer, fit what the device broadcasts.
FitsAir(h) ==
    /\ Airs(rec')
    /\ slot'[h].reply.kind = "provision" => rec'.delivery.pending = slot'[h].reply.env

\* The same offer under the same cfgversion or a new one.
LEMMA OfferAirs ==
    ASSUME RInv, VersionsDrawn, rec # NoRecord, Airs(rec), NEW e, SameOffer(rec, e),
           e.epoch = rec.epoch, e.cfgVersion \in {rec.cfgVersion, next.version}
    PROVE  Airs(e)
  <1>1. dev.cfg # next.version
    BY RInvNumbered DEF VersionsDrawn, Numbered
  <1>2. Delivering(e) <=> Delivering(rec)
    BY DEF Delivering, SameOffer
  <1> QED BY <1>1, <1>2 DEF Airs, SameOffer

\* The tail of a cycle whose record and answer fit.
LEMMA CommitFits ==
    ASSUME RInv, VersionsDrawn, NEW h \in Slots, Running(h),
           NEW d \in Devices, NEW reply, CommitCycle(h, d, reply), Airs(d),
           d.cfgVersion \in {rec.cfgVersion, next.version},
           reply.kind = "provision" => d.delivery.pending = reply.env
    PROVE  FitsAir(h)
  <1>1. /\ slot'[h].reply = reply
        /\ rec'.epoch = d.epoch /\ rec'.cfgVersion = d.cfgVersion
        /\ rec'.delivery = d.delivery
    BY CommitDraws
  <1>2. Delivering(rec') <=> Delivering(d)
    BY <1>1 DEF Delivering
  <1>3. Airs(rec')
    BY <1>1, <1>2 DEF Airs
  <1> QED BY <1>1, <1>3 DEF FitsAir

\* A gentle noop and the armed commands leave delivery and cfgversion alone.
LEMMA LaneFits ==
    ASSUME RInv, VersionsDrawn, NEW h \in Slots, Truthful(h), rec # NoRecord => Airs(rec),
           \/ GentleNoop(h) \/ EmitReboot(h) \/ EmitCmd(h)
           \/ PlainUnassigned(h) \/ PlainResend(h) \/ PlainProvision(h)
    PROVE  FitsAir(h)
  <1> DEFINE f == Fresh(h)
  <1>0. IInv
    BY DEF RInv
  <1>1. Running(h) /\ rec # NoRecord
    BY DEF GentleNoop, EmitReboot, EmitCmd, PlainUnassigned, PlainResend, PlainProvision,
           CommandTurn, PlainDeciding, Admitted, Encrypted, Plain, Running
  <1>2. /\ f \in Devices /\ SameKeys(rec, f) /\ f.cfgVersion = rec.cfgVersion
        /\ SameOffer(rec, f)
    BY <1>0, <1>1, WorkGood, WorkAlike, WorkOffer DEF Good, SameOffer
  <1>3. ASSUME NEW d \in Devices, SameKeys(f, d), SameOffer(f, d), d.cfgVersion = f.cfgVersion,
               NEW kind \in Kinds \ Telling, CommitCycle(h, d, Bare(kind))
        PROVE  FitsAir(h)
    <2>1. SameOffer(rec, d) /\ d.epoch = rec.epoch /\ d.cfgVersion = rec.cfgVersion
      BY <1>2, <1>3 DEF SameOffer, SameKeys
    <2>2. Airs(d)
      BY <1>1, <2>1, OfferAirs
    <2>3. Bare(kind).kind # "provision"
      BY <1>3 DEF Bare, Telling
    <2> HIDE DEF f
    <2> QED BY <1>1, <1>3, <2>1, <2>2, <2>3, CommitFits
  <1>4. CASE GentleNoop(h)
    <2>1. CommitCycle(h, f, Bare("noop"))
      BY <1>4 DEF GentleNoop
    <2> HIDE DEF f
    <2> QED BY <1>2, <1>3, <2>1 DEF SameKeys, SameOffer, Kinds, Telling
  <1>5. CASE EmitReboot(h)
    <2> DEFINE d == Rebooted(f)
    <2>1. CommitCycle(h, d, Bare("reboot"))
      BY <1>5 DEF EmitReboot
    <2>2. Good(f)
      BY <1>0, <1>1, WorkGood
    <2>3. next.version \in Nat /\ next.epoch \in Nat
      BY <1>0, <1>1, RecGood
    <2> HIDE DEF f
    <2>4. /\ d \in Devices /\ SameKeys(f, d) /\ d.cfgVersion = f.cfgVersion
          /\ SameOffer(f, d)
      BY <1>2, <2>2, <2>3, CommandGood, BranchAlike, BranchOffers DEF Good
    <2> HIDE DEF d
    <2> QED BY <1>3, <2>1, <2>4 DEF Kinds, Telling
  <1>6. CASE EmitCmd(h)
    <2> DEFINE d == CmdConsumed(f)
    <2>1. CommitCycle(h, d, Bare("cmd"))
      BY <1>6 DEF EmitCmd
    <2>2. Good(f)
      BY <1>0, <1>1, WorkGood
    <2>3. next.version \in Nat /\ next.epoch \in Nat
      BY <1>0, <1>1, RecGood
    <2> HIDE DEF f
    <2>4. /\ d \in Devices /\ SameKeys(f, d) /\ d.cfgVersion = f.cfgVersion
          /\ SameOffer(f, d)
      BY <1>2, <2>2, <2>3, CommandGood, BranchAlike, BranchOffers DEF Good
    <2> HIDE DEF d
    <2> QED BY <1>3, <2>1, <2>4 DEF Kinds, Telling
  <1>7. ~PlainUnassigned(h) /\ ~PlainResend(h) /\ ~PlainProvision(h)
    BY DEF Truthful, PlainUnassigned, PlainResend, PlainProvision, PlainDeciding, Plain
  <1> QED BY <1>4, <1>5, <1>6, <1>7

\* While a delivery is pending after settling nothing has settled.
LEMMA WorkPending ==
    ASSUME IInv, NEW h \in Slots, rec # NoRecord, Work(h).delivery.pending # NoEnvelope
    PROVE  SameOffer(rec, Work(h))
  <1>1. rec.delivery \in DeliveryStates
    BY RecGood DEF Good, Devices
  <1>2. Work(h).delivery = rec.delivery
    BY <1>1, WorkOffer, SettleRows
  <1> QED BY <1>2 DEF SameOffer

\* A truthful report that echoes the cfgversion of the record.
LEMMA EchoAirs ==
    ASSUME RInv, VersionsDrawn, Visible, NEW h \in Slots, Truthful(h),
           rec # NoRecord, Airs(rec), OnAssigned(rec, Used(h)),
           Work(h).cfgVersion # next.version, Work(h).cfgVersion = dev.cfg,
           dev.epoch = rec.epoch, Delivering(rec)
    PROVE  Work(h).delivery.pending = NoEnvelope /\ Work(h).delivery.baseline = dev.env
  <1>1. IInv
    BY DEF RInv
  <1>2. dev.cfg = rec.cfgVersion
    BY <1>1, WorkAlike
  <1>3. Table(h) = TrueTable
    BY DEF Truthful, Table
  <1> QED BY <1>1, <1>2, <1>3, WorkAirs

\* The cfgversion that the engine works with is never one that the device reports
\* for the first time.
LEMMA WorkReports ==
    ASSUME RInv, VersionsDrawn, NEW h \in Slots, Truthful(h), rec # NoRecord,
           OnAssigned(rec, Used(h))
    PROVE  /\ dev.cfg # NoVersion /\ dev.cfg # next.version
           /\ Work(h).appliedCfg = dev.cfg
  <1>1. IInv
    BY DEF RInv
  <1>2. dev.cfg # NoVersion
    BY DEF Truthful, OnAssigned, Used
  <1>3. dev.cfg # next.version
    BY RInvNumbered DEF VersionsDrawn, Numbered
  <1> QED BY <1>1, <1>2, <1>3, WorkAlike DEF Truthful

\* After an undrifted echo the record fits as long as it keeps the delivery.
LEMMA SettledFits ==
    ASSUME RInv, VersionsDrawn, Visible, NEW h \in Slots, Truthful(h),
           rec # NoRecord, Airs(rec), OnAssigned(rec, Used(h)),
           ~ContentDrift(Work(h)), Echoed(Work(h)),
           NEW e, e.epoch = rec.epoch, SameOffer(Work(h), e)
    PROVE  Airs(e)
  <1> SUFFICES ASSUME dev.epoch = e.epoch, Delivering(e)
               PROVE  e.delivery.pending = NoEnvelope /\ dev.env = e.delivery.baseline
    BY DEF Airs
  <1>1. IInv
    BY DEF RInv
  <1>2. Delivering(rec)
    BY <1>1, WorkAlike DEF Alike, Delivering, SameOffer
  <1>3. Work(h).cfgVersion = dev.cfg /\ dev.cfg # next.version
    BY WorkReports DEF Echoed
  <1>4. Work(h).delivery.pending = NoEnvelope /\ Work(h).delivery.baseline = dev.env
    BY <1>2, <1>3, EchoAirs
  <1> QED BY <1>4 DEF SameOffer

\* Full provisioning goes out under a cfgversion that the device does not have, or
\* to another incarnation.
LEMMA ProvisionFits ==
    ASSUME RInv, VersionsDrawn, Visible, NEW h \in Slots, Truthful(h),
           rec # NoRecord, Airs(rec), OnAssigned(rec, Used(h)),
           ContentDrift(Work(h)) \/ ~Echoed(Work(h))
    PROVE  Airs(Provisioned(Work(h), next.version))
  <1> DEFINE w == Work(h)
             e == Provisioned(w, next.version)
  <1>0. IInv
    BY DEF RInv
  <1>1. /\ w \in Devices /\ SameKeys(rec, w) /\ Alike(rec, w)
        /\ w.cfgVersion \in {rec.cfgVersion, next.version}
    BY <1>0, WorkGood, WorkAlike DEF Good
  <1>2. next.version \in Nat /\ rec.wlans \in Envelopes /\ w.wlans = rec.wlans
    BY <1>0, RecGood, WorkOffer
  <1>3. /\ e.delivery.pending = w.wlans
        /\ e.cfgVersion = IF w.cfgVersion = NoVersion THEN next.version ELSE w.cfgVersion
        /\ e.epoch = w.epoch
    <2> HIDE DEF w
    <2>1. e.delivery.pending = w.wlans
      BY <1>1, <1>2, BranchOffers
    <2>2. e.cfgVersion = IF w.cfgVersion = NoVersion THEN next.version ELSE w.cfgVersion
      BY <1>1, <1>2, ProvisionedRows
    <2>3. e.epoch = w.epoch
      BY <1>1 DEF Provisioned, Devices
    <2> QED BY <2>1, <2>2, <2>3
  <1>4. /\ dev.cfg # NoVersion /\ dev.cfg # next.version /\ w.appliedCfg = dev.cfg
    BY WorkReports
  <1>5. ASSUME dev.epoch = e.epoch, dev.cfg = e.cfgVersion
        PROVE  FALSE
    <2>1. w.cfgVersion = dev.cfg /\ w.cfgVersion # next.version /\ Echoed(w)
      BY <1>3, <1>4, <1>5 DEF Echoed
    <2>2. w.delivery.pending # NoEnvelope
      BY <1>0, <2>1, WorkOffer
    <2>3. Delivering(rec) /\ dev.epoch = rec.epoch
      BY <1>1, <1>3, <1>5, <2>2 DEF Alike, Delivering, SameKeys
    <2>4. w.delivery.pending = NoEnvelope
      BY <2>1, <2>3, EchoAirs
    <2> QED BY <2>2, <2>4
  <1>6. e.delivery.pending # NoEnvelope
    BY <1>2, <1>3, EnvelopeAssumption
  <1> HIDE DEF e, w
  <1>7. Airs(e)
    BY <1>5, <1>6 DEF Airs
  <1> QED BY <1>7 DEF e, w

\* The engine's switch.
LEMMA SwitchFits ==
    ASSUME RInv, VersionsDrawn, KInv, Visible, NEW h \in Slots, Truthful(h),
           rec # NoRecord => Airs(rec), NEW due \in BOOLEAN, Cycle(h, due)
    PROVE  FitsAir(h)
  <1> DEFINE w == Work(h)
  <1>0. IInv
    BY DEF RInv
  <1>1. Running(h) /\ rec # NoRecord
    BY DEF Cycle, HoldPending, Rotate, RePush, Provision, SelfHeal, ReconnectPush,
           ReprovisionMiss, ArmMaterialization, ConnectedNoop, Baselined, Settled,
           OnKey, Released, Deciding, Admitted, Encrypted, Running
  <1>2. /\ Good(w) /\ w \in Devices /\ SameKeys(rec, w)
        /\ Alike(rec, w) /\ w.cfgVersion \in {rec.cfgVersion, next.version}
    BY <1>0, <1>1, WorkGood, WorkAlike DEF Good
  <1>3. next.version \in Nat
    BY <1>0, <1>1, RecGood
  <1>4. ASSUME NEW d \in Devices, SameKeys(w, d), Airs(d),
               d.cfgVersion \in {rec.cfgVersion, next.version},
               NEW r, r.kind # "provision", CommitCycle(h, d, r)
        PROVE  FitsAir(h)
    BY <1>1, <1>4, CommitFits
  <1>5. ASSUME OnAssigned(rec, Used(h)), ~ContentDrift(w), Echoed(w),
               NEW d \in Devices, SameKeys(w, d), SameOffer(w, d),
               d.cfgVersion \in {w.cfgVersion, next.version},
               NEW r, r.kind # "provision", CommitCycle(h, d, r)
        PROVE  FitsAir(h)
    <2>1. d.epoch = rec.epoch
      BY <1>2, <1>5 DEF SameKeys
    <2>2. Airs(d)
      BY <1>1, <1>5, <2>1, SettledFits
    <2> QED BY <1>2, <1>4, <1>5, <2>2
  <1>6. Bare("noop").kind # "provision"
    BY DEF Bare
  <1>7. CASE HoldPending(h, due)
    <2> DEFINE d == [w EXCEPT !.delivery = Spent(@)]
    <2>1. w.delivery.pending # NoEnvelope /\ CommitCycle(h, d, Bare("noop"))
      BY <1>7 DEF HoldPending, Held
    <2>2. SameOffer(rec, w)
      BY <1>0, <1>1, <2>1, WorkPending
    <2>3. w.delivery \in DeliveryStates
      BY <1>2 DEF Devices
    <2> HIDE DEF w
    <2>4. Spent(w.delivery) \in DeliveryStates
      BY <2>3, CountersType
    <2>5. d \in Devices /\ SameKeys(w, d)
      BY <1>2, <2>4 DEF Devices, SameKeys
    <2>6. SameOffer(w, d) /\ d.cfgVersion = w.cfgVersion
      BY <1>2, <1>3, BranchOffers, BranchAlike
    <2> HIDE DEF d
    <2>7. SameOffer(rec, d) /\ d.epoch = rec.epoch /\ d.cfgVersion \in {rec.cfgVersion, next.version}
      BY <1>2, <2>2, <2>5, <2>6 DEF SameOffer, SameKeys
    <2>8. Airs(d)
      BY <1>1, <2>7, OfferAirs
    <2> QED BY <1>4, <1>6, <2>1, <2>5, <2>7, <2>8
  <1>8. CASE Rotate(h, due)
    <2>1. ~Delivering(rec') /\ slot'[h].reply.kind = "push"
      BY <1>8, RotateRotates DEF Rotates
    <2> QED BY <2>1 DEF FitsAir, Airs
  <1>9. CASE RePush(h, due)
    <2>1. /\ Used(h) # DefaultKey /\ ~OnAssigned(rec, Used(h))
          /\ CommitCycle(h, w, AdoptionPush(w, Used(h)))
      BY <1>9 DEF RePush
    <2>2. rec \in Records /\ Used(h) = dev.key
      BY <1>1 DEF Records, Truthful, Used
    <2>3. ~Delivering(rec)
      BY <2>1, <2>2, RInvNumbered DEF KInv, OneKey, Proved, Numbered, OnAssigned
    <2>4. Airs(w)
      BY <1>2, <2>3 DEF Airs, Alike
    <2>5. AdoptionPush(w, Used(h)).kind # "provision"
      BY DEF AdoptionPush, Bare
    <2>6. SameKeys(w, w)
      BY DEF SameKeys
    <2> HIDE DEF w
    <2> QED BY <1>2, <1>4, <2>1, <2>4, <2>5, <2>6
  <1>10. CASE Provision(h, due)
    <2> DEFINE d == Provisioned(w, next.version)
               r == FullProvision(d)
    <2>1. /\ OnAssigned(rec, Used(h)) /\ (ContentDrift(w) \/ ~Echoed(w))
          /\ CommitCycle(h, d, r)
      BY <1>10 DEF Provision, OnKey
    <2>2. Airs(d)
      BY <1>1, <2>1, ProvisionFits
    <2>3. Assigned(w, Used(h))
      <3>1. OnAssigned(w, Used(h))
        BY <1>2, <2>1 DEF OnAssigned, SameKeys
      <3> QED BY <1>2, <3>1, OnAssignedKeys
    <2> HIDE DEF w
    <2>4. d \in Devices
      BY <1>2, <1>3, <2>3, ProvisionedAssigned DEF Assigned
    <2>5. d.delivery.pending = r.env
      BY <1>2, <1>3, BranchOffers
    <2>6. d.cfgVersion \in {rec.cfgVersion, next.version}
      BY <1>2, <1>3, ProvisionedRows
    <2> HIDE DEF d, r
    <2> QED BY <1>1, <2>1, <2>2, <2>4, <2>5, <2>6, CommitFits
  <1>11. ASSUME Settled(h, due)
         PROVE  OnAssigned(rec, Used(h)) /\ ~ContentDrift(w) /\ Echoed(w) /\ Assigned(w, Used(h))
    <2>1. OnAssigned(rec, Used(h)) /\ ~ContentDrift(w) /\ Echoed(w)
      BY <1>11 DEF Settled, OnKey
    <2>2. OnAssigned(w, Used(h))
      BY <1>2, <2>1 DEF OnAssigned, SameKeys
    <2> QED BY <1>2, <2>1, <2>2, OnAssignedKeys
  <1>12. CASE SelfHeal(h, due)
    <2> DEFINE d == [w EXCEPT !.cfgVersion = next.version]
    <2>1. Settled(h, due) /\ CommitCycle(h, d, Bare("noop"))
      BY <1>12 DEF SelfHeal
    <2>2. OnAssigned(rec, Used(h)) /\ ~ContentDrift(w) /\ Echoed(w) /\ Assigned(w, Used(h))
      BY <1>11, <2>1
    <2> HIDE DEF w
    <2>3. d \in Devices /\ SameKeys(w, d) /\ SameOffer(w, d) /\ d.cfgVersion = next.version
      BY <1>2, <1>3, <2>2, BranchRecords, BranchOffers, BranchAlike DEF Assigned
    <2> HIDE DEF d
    <2> QED BY <1>5, <1>6, <2>1, <2>2, <2>3
  <1>13. CASE ReconnectPush(h, due)
    <2> DEFINE d == [w EXCEPT !.state = "adopted", !.disconnected = FALSE]
    <2>1. Settled(h, due) /\ CommitCycle(h, d, BlockedStaReconnect(w))
      BY <1>13 DEF ReconnectPush, Baselined
    <2>2. OnAssigned(rec, Used(h)) /\ ~ContentDrift(w) /\ Echoed(w) /\ Assigned(w, Used(h))
      BY <1>11, <2>1
    <2>3. BlockedStaReconnect(w).kind # "provision"
      BY DEF BlockedStaReconnect, Bare
    <2> HIDE DEF w
    <2>4. d \in Devices /\ SameKeys(w, d) /\ SameOffer(w, d) /\ d.cfgVersion = w.cfgVersion
      BY <1>2, <1>3, <2>2, BranchRecords, BranchOffers, BranchAlike DEF Assigned
    <2> HIDE DEF d
    <2> QED BY <1>5, <2>1, <2>2, <2>3, <2>4
  <1>14. CASE ReprovisionMiss(h, due)
    <2> DEFINE d == [w EXCEPT !.disconnected = FALSE, !.delivery.misses = 0,
                              !.cfgVersion = next.version]
    <2>1. Settled(h, due) /\ CommitCycle(h, d, Bare("noop"))
      BY <1>14 DEF ReprovisionMiss, Baselined
    <2>2. OnAssigned(rec, Used(h)) /\ ~ContentDrift(w) /\ Echoed(w) /\ Assigned(w, Used(h))
      BY <1>11, <2>1
    <2> HIDE DEF w
    <2>3. d \in Devices /\ SameKeys(w, d) /\ SameOffer(w, d) /\ d.cfgVersion = next.version
      BY <1>2, <1>3, <2>2, BranchRecords, BranchOffers, BranchAlike DEF Assigned
    <2> HIDE DEF d
    <2> QED BY <1>5, <1>6, <2>1, <2>2, <2>3
  <1>15. CASE ArmMaterialization(h, due)
    <2> DEFINE d == [MaterializationArmed(w) EXCEPT !.disconnected = FALSE]
    <2>1. Settled(h, due) /\ CommitCycle(h, d, Bare("noop"))
      BY <1>15 DEF ArmMaterialization, Baselined
    <2>2. OnAssigned(rec, Used(h)) /\ ~ContentDrift(w) /\ Echoed(w) /\ Assigned(w, Used(h))
      BY <1>11, <2>1
    <2> HIDE DEF w
    <2>3. d \in Devices /\ SameKeys(w, d) /\ SameOffer(w, d) /\ d.cfgVersion = w.cfgVersion
      BY <1>2, <1>3, <2>2, BranchRecords, BranchOffers, BranchAlike DEF Assigned
    <2> HIDE DEF d
    <2> QED BY <1>5, <1>6, <2>1, <2>2, <2>3
  <1>16. CASE ConnectedNoop(h, due)
    <2> DEFINE d == Connected(w, Table(h))
    <2>1. /\ Settled(h, due) /\ CommitCycle(h, d, Bare("noop"))
          /\ w.delivery.baseline # NoEnvelope
      BY <1>16 DEF ConnectedNoop, Baselined
    <2>2. OnAssigned(rec, Used(h)) /\ ~ContentDrift(w) /\ Echoed(w) /\ Assigned(w, Used(h))
      BY <1>11, <2>1
    <2> HIDE DEF w
    <2>3. d \in Devices /\ SameKeys(w, d)
      BY <2>1, <2>2, ConnectedAssigned DEF Assigned
    <2>4. SameOffer(w, d) /\ d.cfgVersion = w.cfgVersion
      BY <1>2, <1>3, BranchOffers, BranchAlike
    <2> HIDE DEF d
    <2> QED BY <1>5, <1>6, <2>1, <2>2, <2>3, <2>4
  <1> QED BY <1>7, <1>8, <1>9, <1>10, <1>12, <1>13, <1>14, <1>15, <1>16 DEF Cycle

\* A turn that reports truly.
LEMMA TurnFits ==
    ASSUME RInv, VersionsDrawn, KInv, Visible, NEW h \in Slots, Truthful(h),
           rec # NoRecord => Airs(rec), Turn(h)
    PROVE  FitsAir(h)
  <1>1. CASE \E due \in BOOLEAN : Cycle(h, due)
    <2>1. PICK due \in BOOLEAN : Cycle(h, due)
      BY <1>1
    <2> QED BY <2>1, SwitchFits
  <1> QED BY <1>1, LaneFits DEF Turn

-----------------------------------------------------------------------------
(* The kinds of steps and the broadcast                                     *)

\* Nothing is told and nothing is written that was not there.
LEMMA RecedesAirs ==
    ASSUME Numbered, Numbered', AInv, Recedes
    PROVE  AInv'
  <1>1. SameDevice /\ Records' \subseteq Records /\ TrueTable' = TrueTable
    BY DEF Recedes, SameDevice, TrueTable
  <1>2. \A d \in Records' : Airs(d)'
    BY <1>1 DEF AInv, Airs, SameDevice
  <1>3. dev'.conn \in Slots => dev'.conn = dev.conn
    BY SlotAssumption DEF Recedes
  <1>4. ASSUME NEW h \in Slots, dev'.conn = h, Answering(h)', slot'[h].reply.kind = "provision",
               NEW d \in Bases(h)', d.epoch = dev'.epoch, Delivering(d)
        PROVE  d.delivery.pending = slot'[h].reply.env
    <2>1. GoesOn(h)
      BY <1>4 DEF Recedes, Rests, Telling
    <2>2. dev.conn = h /\ d \in Bases(h) /\ d.epoch = dev.epoch
      BY <1>1, <1>3, <1>4, <2>1 DEF GoesOn, SameDevice
    <2> QED BY <1>4, <2>1, <2>2 DEF AInv, CarriesPending, GoesOn
  <1>5. ASSUME NEW h \in Slots, dev'.conn = h, Active(h)'
        PROVE  slot'[h].body.cfg = dev'.cfg /\ slot'[h].body.table = TrueTable'
    <2>1. GoesOn(h) /\ dev.conn = h
      BY <1>3, <1>5 DEF Recedes, Rests
    <2>2. slot[h].body.cfg = dev.cfg /\ slot[h].body.table = TrueTable
      BY <1>5, <2>1, SlotAssumption DEF AInv, ReportsTruly, GoesOn
    <2> QED BY <1>1, <2>1, <2>2 DEF GoesOn, SameDevice
  <1>6. dev'.conn \in Slots \cup {NoConn}
    BY DEF Numbered
  <1> QED BY <1>2, <1>4, <1>5, <1>6 DEF AInv, CarriesPending, ReportsTruly

\* A device in its factory state belongs to no incarnation and waits for nothing.
LEMMA ResetsAirs ==
    ASSUME Numbered, Numbered', KInv, Resets
    PROVE  AInv'
  <1>1. Records' = Records /\ dev'.epoch = 0 /\ dev'.conn = NoConn
    BY DEF Resets, Records, FactoryDevice
  <1>2. \A d \in Records : d.epoch > 0
    BY DEF KInv, KeysDrawn
  <1>3. \A d \in Records' : Airs(d)'
    BY <1>1, <1>2 DEF Airs
  <1> QED BY <1>1, <1>3, SlotAssumption DEF AInv, CarriesPending, ReportsTruly

\* The device reports itself.
LEMMA AsksAirs ==
    ASSUME Numbered, Numbered', AInv, NEW h \in Slots, Asks(h), spent'.reports = 0
    PROVE  AInv'
  <1>1. /\ Records' = Records /\ SameDevice /\ TrueTable' = TrueTable
        /\ dev'.conn = h /\ ~Answering(h)'
        /\ slot'[h].body.cfg = dev.cfg /\ slot'[h].body.table = TrueTable
    BY DEF Asks, Records, SameDevice, TrueTable, Answering
  <1>2. \A d \in Records' : Airs(d)'
    BY <1>1 DEF AInv, Airs, SameDevice
  <1>3. CarriesPending'
    BY <1>1 DEF CarriesPending
  <1>4. ReportsTruly'
    BY <1>1 DEF ReportsTruly, SameDevice
  <1> QED BY <1>2, <1>3, <1>4 DEF AInv

\* Provisioning brings the pending envelope, and a push comes before any delivery.
LEMMA ObeysAirs ==
    ASSUME RInv, Numbered, Numbered', KInv, AInv, NEW h \in Slots, Obeys(h)
    PROVE  AInv'
  <1>1. /\ Records' = Records /\ Bases(h) = Records /\ Answering(h)
        /\ dev.conn = h /\ dev'.conn = NoConn /\ slot[h].reply.kind \in Telling
    BY DEF Obeys, Records, Answering, Bases
  <1>2. ASSUME NEW d \in Records, dev'.epoch = d.epoch, Delivering(d)
        PROVE  IF d.delivery.pending = NoEnvelope
               THEN dev'.env = d.delivery.baseline
               ELSE dev'.cfg = d.cfgVersion => dev'.env = d.delivery.pending
    <2>1. CASE slot[h].reply.kind = "push"
      <3>1. slot[h].reply.key # NoKey \/ d.epoch = dev.epoch
        BY <1>2 DEF Obeys
      <3>2. Pushed(h)
        BY <1>1, <2>1 DEF Pushed
      <3>3. ~Proved(d)
        BY <1>1, <1>2, <3>1, <3>2 DEF KInv, Untaken
      <3> QED BY <1>2, <3>3 DEF Proved
    <2>2. CASE slot[h].reply.kind = "provision"
      <3>1. dev'.epoch = dev.epoch /\ dev'.env = slot[h].reply.env
        BY <2>2 DEF Obeys
      <3>2. d.delivery.pending = slot[h].reply.env
        BY <1>1, <1>2, <2>2, <3>1 DEF AInv, CarriesPending
      <3>3. slot[h].reply.env \in Envelopes
        BY <2>2 DEF RInv, IInv, TypeOK, ReplyOK
      <3> QED BY <3>1, <3>2, <3>3, EnvelopeAssumption
    <2>3. CASE slot[h].reply.kind = "reconnect"
      <3>1. dev'.epoch = dev.epoch /\ dev'.env = dev.env /\ dev'.cfg = dev.cfg
        BY <2>3 DEF Obeys
      <3> QED BY <1>2, <3>1 DEF AInv, Airs
    <2> QED BY <1>1, <2>1, <2>2, <2>3 DEF Telling
  <1>3. \A d \in Records' : Airs(d)'
    BY <1>1, <1>2 DEF Airs
  <1> QED BY <1>1, <1>3, SlotAssumption DEF AInv, CarriesPending, ReportsTruly

\* A new incarnation has no delivery.
LEMMA RebornAirs ==
    ASSUME Numbered, Numbered', AInv, Reborn
    PROVE  AInv'
  <1>1. /\ dev' = dev /\ TrueTable' = TrueTable /\ ~Delivering(rec')
        /\ \A d \in Records' : d = rec' \/ d \in Records
    BY DEF Reborn, Records, TrueTable
  <1>2. \A d \in Records' : Airs(d)'
    BY <1>1 DEF AInv, Airs
  <1>3. \A g \in Slots : Active(g)' \/ (Answering(g)' /\ slot'[g].reply.kind = "provision")
           => slot'[g] = slot[g]
    BY DEF Reborn, Rests, Telling
  <1>4. \A g \in Slots : slot'[g] = slot[g] =>
           \A d \in Bases(g)' : d = rec' \/ d \in Bases(g)
    BY <1>1 DEF Bases
  <1>5. CarriesPending'
    BY <1>1, <1>3, <1>4 DEF AInv, CarriesPending, Answering
  <1>6. dev.conn \in Slots \cup {NoConn}
    BY DEF Numbered
  <1>7. ReportsTruly'
    BY <1>1, <1>3, <1>6 DEF AInv, ReportsTruly, Active
  <1> QED BY <1>2, <1>5, <1>7 DEF AInv

\* The verbs leave the delivery alone.
LEMMA EditsAirs ==
    ASSUME RInv, VersionsDrawn, Numbered, Numbered', AInv, Edits
    PROVE  AInv'
  <1>1. /\ dev' = dev /\ slot' = slot /\ TrueTable' = TrueTable
        /\ rec \in Records /\ rec # NoRecord /\ rec' # NoRecord
        /\ rec'.epoch = rec.epoch /\ rec'.delivery = rec.delivery
        /\ rec'.cfgVersion \in {rec.cfgVersion, next.version}
        /\ \A d \in Records' : d = rec' \/ d \in Records
    BY DEF Edits, Remains, Records, TrueTable
  <1>2. SameOffer(rec, rec')
    BY <1>1 DEF SameOffer
  <1>3. Airs(rec')
    BY <1>1, <1>2, OfferAirs DEF AInv
  <1>4. \A d \in Records' : Airs(d)'
    BY <1>1, <1>3 DEF AInv, Airs
  <1>5. \A g \in Slots : \A d \in Bases(g)' : (d = rec' /\ rec \in Bases(g)) \/ d \in Bases(g)
    BY <1>1 DEF Bases, Records
  <1>6. Delivering(rec') => Delivering(rec)
    BY <1>1 DEF Delivering
  <1>7. CarriesPending'
    BY <1>1, <1>5, <1>6 DEF AInv, CarriesPending, Answering
  <1>8. ReportsTruly'
    BY <1>1 DEF AInv, ReportsTruly, Active
  <1> QED BY <1>4, <1>7, <1>8 DEF AInv

\* A cycle that commits while the device waits for it.
LEMMA TurnAirs ==
    ASSUME RInv, VersionsDrawn, KInv, Visible, Unnumbered, Numbered, Numbered', AInv,
           NEW h \in Slots, dev.conn = h, Turn(h), Commits(h)
    PROVE  AInv'
  <1>1. /\ dev' = dev /\ disk' = disk
        /\ slot[h].phase = "decoded" /\ slot'[h].phase = "saving"
        /\ rec \in Records /\ rec # NoRecord /\ rec' # NoRecord
        /\ \A d \in Records' : d = rec' \/ d \in Records
    BY DEF Commits, Records
  <1>2. Active(h) /\ dev.conn # NoConn
    BY <1>1, SlotAssumption DEF Active
  <1>3. slot[h].body.key = dev.key
    BY <1>2 DEF KInv, Waiting
  <1>4. Truthful(h)
    BY <1>1, <1>2, <1>3 DEF Truthful, AInv, ReportsTruly, Unnumbered
  <1>5. FitsAir(h)
    BY <1>1, <1>4, TurnFits DEF AInv
  <1>6. \A d \in Records' : Airs(d)'
    BY <1>1, <1>5 DEF FitsAir, AInv, Airs
  <1>7. Bases(h)' = {rec'} /\ ~Active(h)'
    BY <1>1 DEF Bases, Active
  <1>8. CarriesPending'
    BY <1>1, <1>5, <1>7 DEF FitsAir, CarriesPending
  <1>9. ReportsTruly'
    BY <1>1, <1>7 DEF ReportsTruly
  <1> QED BY <1>6, <1>8, <1>9 DEF AInv

\* Any step, as long as the device has sent its own complete reports and answers
\* are in time.
LEMMA KindAirs ==
    ASSUME Told, Visible, Unnumbered, Numbered, Numbered', AInv, Kind, OnTime,
           spent'.reports = 0
    PROVE  AInv'
  <1>0. RInv /\ VersionsDrawn /\ KInv
    BY DEF Told
  <1>1. ASSUME NEW h \in Slots, Turn(h), Rotates(h) \/ Serves(h)
        PROVE  AInv'
    <2>1. Commits(h)
      BY <1>1 DEF Rotates, Serves
    <2>2. dev.conn = h
      BY <2>1 DEF Commits, OnTime
    <2> QED BY <1>0, <1>1, <2>1, <2>2, TurnAirs
  <1>2. ASSUME NEW h \in Slots, Asks(h) \/ Obeys(h)
        PROVE  AInv'
    BY <1>0, <1>2, AsksAirs, ObeysAirs
  <1>3. CASE Recedes \/ Resets \/ Reborn \/ Edits
    BY <1>0, <1>3, RecedesAirs, ResetsAirs, RebornAirs, EditsAirs
  <1> QED BY <1>1, <1>2, <1>3 DEF Kind

\* Odd reports are counted and never forgotten.
LEMMA ReportsGrow ==
    ASSUME TypeOK, [Next]_vars, spent'.reports = 0
    PROVE  spent.reports = 0
  <1>1. spent \in [ops : Nat, losses : Nat, faults : Nat, reports : Nat]
    BY DEF TypeOK
  <1>2. ASSUME \/ spent' = spent
               \/ spent' = [spent EXCEPT !.ops = @ + 1]
               \/ spent' = [spent EXCEPT !.losses = @ + 1]
               \/ spent' = [spent EXCEPT !.faults = @ + 1]
               \/ spent' = [spent EXCEPT !.reports = @ + 1]
        PROVE  spent.reports = 0
    BY <1>1, <1>2
  <1>3. ASSUME NEW h \in Slots,
               \/ Inform(h) \/ RequestLost(h) \/ Deliver(h) \/ SaveInform(h) \/ SaveInformFails(h)
               \/ \E lane \in Lanes : OddInform(h, lane)
        PROVE  spent.reports = 0
    BY <1>2, <1>3 DEF Inform, RequestLost, Deliver, SaveInform, SaveInformFails, OddInform
  <1>4. ASSUME NEW h \in Slots, Handle(h)
        PROVE  spent.reports = 0
    <2>1. spent' = spent
      BY <1>4 DEF Handle, DecodeRegistered, DecodeFails, DecodeUnknown, Vanished,
                  RejectDefaultKey, AnswerNow, GentleNoop, EmitSetdefault, EmitReboot, EmitCmd,
                  PlainUnassigned, PlainResend, PlainProvision, CommitCycle
    <2> QED BY <1>2, <2>1
  <1>5. ASSUME NEW h \in Slots, NEW due \in BOOLEAN, Cycle(h, due)
        PROVE  spent.reports = 0
    <2>1. spent' = spent
      BY <1>5 DEF Cycle, HoldPending, Rotate, RePush, Provision, SelfHeal, ReconnectPush,
                  ReprovisionMiss, ArmMaterialization, ConnectedNoop, CommitCycle
    <2> QED BY <1>2, <2>1
  <1>6. ASSUME NEW h \in Slots, NEW due \in BOOLEAN, EngineFails(h, due)
        PROVE  spent.reports = 0
    BY <1>2, <1>6 DEF EngineFails
  <1>7. CASE \/ \E who \in {"operator", "poller"} : SaveOther(who) \/ SaveOtherFails(who)
             \/ GiveUp \/ PhysicalReset \/ Restart \/ UNCHANGED vars
    BY <1>2, <1>7 DEF SaveOther, SaveOtherFails, GiveUp, PhysicalReset, Restart, vars
  <1>8. CASE Operator
    <2>1. spent' = spent \/ spent' = [spent EXCEPT !.ops = @ + 1]
      BY <1>8 DEF Operator, CreateDevice, AdoptPending, NoteExpires, DeleteDevice, PatchDevice,
                  PutDeviceWireless, BlockClient, UnblockClient, RebootDevice,
                  FactoryResetDevice, EnqueueDeviceCmd, SweepLost, Edit
    <2> QED BY <1>2, <2>1
  <1> QED BY <1>3, <1>4, <1>5, <1>6, <1>7, <1>8 DEF Next

\* What the device broadcasts is the settled baseline.
LEMMA AirsSettled == (spent.reports = 0 => AInv) => SettledWlans
  BY DEF AInv, Airs, Delivering, SettledWlans, Records

\* SettledWlans holds, however often saves fail, answers get lost and the process
\* restarts, and whatever the operator saves meanwhile, as long as no answer is
\* computed after the device gave up waiting for it, and the access point can bring
\* up every WLAN. (Until a baseline is settled another envelope is offered under
\* the cfgversion of the one before it, wlanDrift. If the device runs that one, after
\* the report that a late cycle looks at or without a row to show for it, and the
\* new answer gets lost, the next echo settles what the device was never sent.)
THEOREM SettledWlansHolds ==
    ASSUME Visible
    PROVE  Spec /\ [][OnTime]_vars => []SettledWlans
  <1> DEFINE Inv == Told /\ (spent.reports = 0 => AInv /\ Unnumbered)
  <1>1. Init => Inv
    <2> SUFFICES ASSUME Init PROVE Inv
      OBVIOUS
    <2>1. Told /\ Unnumbered
      BY InitRefines, InitKinds DEF Told
    <2>2. Records = {} /\ dev.conn = NoConn
      BY DEF Init, Snapshot, Records, FactoryDevice
    <2>3. AInv
      BY <2>2, SlotAssumption DEF AInv, CarriesPending, ReportsTruly
    <2> QED BY <2>1, <2>3
  <1>2. Inv /\ [Next]_vars /\ [OnTime]_vars => Inv'
    <2> SUFFICES ASSUME Inv, [Next]_vars, [OnTime]_vars PROVE Inv'
      OBVIOUS
    <2>1. OnTime
      <3>1. CASE UNCHANGED vars
        BY <3>1 DEF OnTime, vars
      <3> QED BY <3>1
    <2>2. Told' /\ Kind /\ Step /\ Numbered /\ Numbered'
      BY NextTold
    <2>3. ASSUME spent'.reports = 0
          PROVE  AInv' /\ Unnumbered'
      <3>1. TypeOK
        BY DEF Told, RInv, IInv
      <3>2. AInv /\ Unnumbered
        BY <2>3, <3>1, ReportsGrow
      <3>3. Unnumbered'
        BY <2>2, <2>3, <3>2, StepUnnumbered DEF Told
      <3>4. AInv'
        BY <2>1, <2>2, <2>3, <3>2, KindAirs
      <3> QED BY <3>3, <3>4
    <2> QED BY <2>2, <2>3
  <1>3. Inv => SettledWlans
    BY AirsSettled
  <1> QED BY <1>1, <1>2, <1>3, PTL DEF Spec
=============================================================================
