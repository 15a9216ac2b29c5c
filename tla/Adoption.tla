------------------------------ MODULE Adoption ------------------------------
(***************************************************************************)
(* One access point adopted and provisioned by the controller: the inform  *)
(* cycle of internal/server (handleInform .. runInformCycle) around the    *)
(* decision engine (Engine.tla), the operator's verbs of internal/app, the *)
(* lost sweep, and the JSON store under them.                              *)
(*                                                                         *)
(* The store serialises read-modify-write cycles per MAC, so one record is *)
(* the unit of interleaving. What interleaves is everything around a cycle:*)
(*  - handlePacket reads the record (Decode) before the cycle runs         *)
(*    (one Commit action per branch of the engine), the store is saved     *)
(*    after the cycle released its lock (Save), and the answer leaves last *)
(*    (Deliver);                                                           *)
(*  - an inform whose device gave up waiting stays in the server (Slots    *)
(*    is the number of handler goroutines, so Cardinality(Slots) - 1       *)
(*    informs can be stale at once);                                       *)
(*  - operator and poller cycles, failed saves and restarts come between.  *)
(*                                                                         *)
(* The access point itself is external: it is modelled by what the         *)
(* controller's answers ask of it.                                         *)
(***************************************************************************)
EXTENDS Engine

CONSTANTS
    Slots,       \* handler goroutines of the inform listener
    Lanes,       \* transports of an OddInform: "plain" needs --allow-plain-text
    Ops,         \* operator verbs and environment events a model allows
    Capable,     \* VAPs the access point's firmware can bring up
    OddTables,   \* vap_tables a report may carry besides the true one
    NoConn,      \* the device has no request outstanding
    NoRecord,    \* the MAC is not in the devices map
    MaxOps,      \* bound on operator verbs and lost sweeps
    MaxLosses,   \* bound on requests the device gives up on
    MaxFaults,   \* bound on failed decisions, failed saves and restarts
    MaxReports   \* bound on informs that are not the periodic one

ASSUME SlotAssumption == NoConn \notin Slots
ASSUME RecordAssumption == NoRecord \notin Devices
ASSUME LaneAssumption == Lanes \subseteq {"encrypted", "plain"}
ASSUME TableAssumption ==
    OddTables \subseteq VapTables /\ Capable \subseteq Ssids \X Radios
ASSUME BoundAssumption ==
    /\ MaxOps \in Nat
    /\ MaxLosses \in Nat
    /\ MaxFaults \in Nat
    /\ MaxReports \in Nat

VARIABLES
    rec,        \* the device's record in the store's memory, or NoRecord
    noted,      \* the MAC is in the pending-candidate map
    disk,       \* the last saved snapshot of both
    slot,       \* one inform in each handler goroutine
    unsaved,    \* operator / poller cycles that committed and not yet saved
    dev,        \* the access point
    next,       \* fresh key, cfgversion and epoch
    spent       \* what the bounds count

vars == <<rec, noted, disk, slot, unsaved, dev, next, spent>>

-----------------------------------------------------------------------------
(* Answers                                                                  *)

Kinds == {"status", "noop", "push", "provision", "reconnect",
          "reboot", "setdefault", "cmd"}

Replies ==
    [kind    : Kinds,
     key     : Keys \cup {NoKey},
     cfg     : Nat,
     env     : Envelopes \cup {NoEnvelope},
     blocked : {NoBaseline} \cup SUBSET Clients,
     intent  : Nat,
     epoch   : Nat]

\* An answer without content: a bare HTTP status, a noop, a command.
Bare(kind) ==
    [kind |-> kind, key |-> NoKey, cfg |-> NoVersion, env |-> NoEnvelope,
     blocked |-> NoBaseline, intent |-> 0, epoch |-> 0]

\* adoptionPush: mgmt_cfg only. The authkey line is there when the device
\* used another key than its assignment.
AdoptionPush(d, usedKey) ==
    [Bare("push") EXCEPT
        !.key = IF d.xAuthkey # usedKey THEN d.xAuthkey ELSE NoKey,
        !.cfg = d.cfgVersion,
        !.epoch = d.epoch]

\* Mutant: system_cfg rendered from the confirmed envelope.
ProvisionFromBaseline(d) ==
    [Bare("provision") EXCEPT
        !.cfg = d.cfgVersion, !.env = d.delivery.baseline,
        !.blocked = d.blocked, !.intent = d.intent]

\* Full provisioning carries cfgversion, system_cfg, blocked_sta, mgmt_cfg.
FullProvision(d) ==
    [Bare("provision") EXCEPT
        !.cfg = d.cfgVersion, !.env = d.wlans,
        !.blocked = d.blocked, !.intent = d.intent]

BlockedStaReconnect(d) == [Bare("reconnect") EXCEPT !.blocked = d.blocked]

-----------------------------------------------------------------------------
(* Requests                                                                 *)

Bodies ==
    [type  : {"status", "gentle"},
     key   : Keys \cup {DefaultKey},
     cfg   : Nat,
     table : VapTables,
     drop  : BOOLEAN]

NoBody == [type |-> "gentle", key |-> DefaultKey, cfg |-> NoVersion,
           table |-> [present |-> FALSE, known |-> FALSE, run |-> {}],
           drop |-> FALSE]

SlotStates ==
    [phase : {"idle", "sent", "decoded", "saving", "reply"},
     lane  : {"encrypted", "plain"},
     body  : Bodies,
     reply : Replies]

IdleSlot == [phase |-> "idle", lane |-> "encrypted", body |-> NoBody,
             reply |-> Bare("status")]

\* Once the outcome is known the request is no longer needed.
Answered(phase, reply) == [IdleSlot EXCEPT !.phase = phase, !.reply = reply]

FactoryDevice ==
    [key |-> DefaultKey, cfg |-> NoVersion, env |-> EmptyEnvelope,
     blocked |-> {}, intent |-> 0, epoch |-> 0, conn |-> NoConn]

Snapshot == [rec |-> rec, noted |-> noted]

Init ==
    /\ rec = NoRecord
    /\ noted = FALSE
    /\ disk = Snapshot
    /\ slot = [h \in Slots |-> IdleSlot]
    /\ unsaved = {}
    /\ dev = FactoryDevice
    /\ next = [key |-> 1, version |-> 1, epoch |-> 1]
    /\ spent = [ops |-> 0, losses |-> 0, faults |-> 0, reports |-> 0]

-----------------------------------------------------------------------------
(* The access point (external): it reports, waits, applies answers          *)

\* What is on the air: every VAP of the running configuration that the
\* firmware can bring up.
TrueTable == [present |-> TRUE, known |-> dev.env.vaps # {},
              run |-> dev.env.vaps \cap Capable]

Send(h, lane, body) ==
    /\ dev.conn = NoConn
    /\ slot[h].phase = "idle"
    /\ slot' = [slot EXCEPT ![h] = [IdleSlot EXCEPT !.phase = "sent", !.lane = lane,
                                                    !.body = body]]
    /\ dev' = [dev EXCEPT !.conn = h]
    /\ UNCHANGED <<rec, noted, disk, unsaved, next>>

\* The periodic status inform.
Inform(h) ==
    /\ Send(h, "encrypted", [type |-> "status", key |-> dev.key, cfg |-> dev.cfg,
                             table |-> TrueTable, drop |-> FALSE])
    /\ UNCHANGED spent

\* Other tables the device may report: only configured VAPs have rows.
Reportable ==
    {TrueTable} \cup {t \in OddTables : /\ t.run \subseteq dev.env.vaps
                                        /\ t.known => dev.env.vaps # {}}

\* A notification, a sparse heartbeat or a plaintext inform, a report made during
\* radio bring-up, or one in which a client has left. Only the handler of an
\* encrypted status inform reads a table; a departure comes with nothing else odd,
\* and its flag outlives its inform when another branch answers.
OddInform(h, lane) ==
    /\ spent.reports < MaxReports
    /\ \E type \in {"status", "gentle"}, table \in Reportable,
          drop \in {FALSE, "Drop" \in Ops},
          cfg \in {dev.cfg, IF "Sparse" \in Ops THEN NoVersion ELSE dev.cfg} :
          /\ table = TrueTable \/ (type = "status" /\ lane = "encrypted")
          /\ ~drop \/ (type = "status" /\ lane = "encrypted" /\ table = TrueTable)
          /\ Send(h, lane, [type |-> type, key |-> dev.key, cfg |-> cfg,
                            table |-> table, drop |-> drop])
    /\ spent' = [spent EXCEPT !.reports = @ + 1]

\* The device stops waiting; the request, if it is still on its way or in a
\* handler, becomes stale.
GiveUp ==
    /\ dev.conn # NoConn
    /\ spent.losses < MaxLosses
    /\ dev' = [dev EXCEPT !.conn = NoConn]
    /\ spent' = [spent EXCEPT !.losses = @ + 1]
    /\ UNCHANGED <<rec, noted, disk, slot, unsaved, next>>

\* A request that never reaches the server.
RequestLost(h) ==
    /\ slot[h].phase = "sent"
    /\ dev.conn # h
    /\ slot' = [slot EXCEPT ![h] = IdleSlot]
    /\ UNCHANGED <<rec, noted, disk, unsaved, dev, next, spent>>

Applied(r) ==
    CASE r.kind = "push" ->
            [dev EXCEPT !.conn = NoConn, !.cfg = r.cfg,
                        !.key = IF r.key # NoKey THEN r.key ELSE @,
                        !.epoch = IF r.key # NoKey THEN r.epoch ELSE @]
      [] r.kind = "provision" ->
            [dev EXCEPT !.conn = NoConn, !.cfg = r.cfg, !.env = r.env,
                        !.blocked = r.blocked, !.intent = r.intent]
      [] r.kind = "reconnect" ->
            [dev EXCEPT !.conn = NoConn, !.blocked = r.blocked]
      [] r.kind = "setdefault" -> FactoryDevice
      [] OTHER -> [dev EXCEPT !.conn = NoConn]

\* The answer reaches the device if it still waits on this connection.
Deliver(h) ==
    /\ slot[h].phase = "reply"
    /\ dev' = IF dev.conn = h THEN Applied(slot[h].reply) ELSE dev
    /\ slot' = [slot EXCEPT ![h] = IdleSlot]
    /\ UNCHANGED <<rec, noted, disk, unsaved, next, spent>>

\* Somebody holds the reset button.
PhysicalReset ==
    /\ "PhysicalReset" \in Ops
    /\ spent.ops < MaxOps
    /\ dev' = FactoryDevice
    /\ spent' = [spent EXCEPT !.ops = @ + 1]
    /\ UNCHANGED <<rec, noted, disk, slot, unsaved, next>>

-----------------------------------------------------------------------------
(* Before the cycle: handlePacket, handlePlain                              *)

AnswerNow(h, reply) ==
    /\ slot' = [slot EXCEPT ![h] = Answered("reply", reply)]
    /\ UNCHANGED <<rec, noted, disk, unsaved, dev, next, spent>>

\* The lane can identify the sender: an encrypted inform must open with one of
\* the candidate keys, a plaintext one only claims a key.
Candidates == (IF rec = NoRecord THEN {} ELSE KeysOf(rec)) \cup {DefaultKey}

Decrypts(h) == slot[h].lane = "plain" \/ slot[h].body.key \in Candidates

DecodeRegistered(h) ==
    /\ slot[h].phase = "sent"
    /\ rec # NoRecord
    /\ Decrypts(h)
    /\ slot' = [slot EXCEPT ![h].phase = "decoded"]
    /\ UNCHANGED <<rec, noted, disk, unsaved, dev, next, spent>>

\* 400: no candidate key opens the payload. Nothing is recorded.
DecodeFails(h) ==
    /\ slot[h].phase = "sent"
    /\ ~Decrypts(h)
    /\ AnswerNow(h, Bare("status"))

\* 404 for an unknown MAC, after the sighting is in the pending map; a repeated
\* sighting is not saved again.
DecodeUnknown(h) ==
    /\ slot[h].phase = "sent"
    /\ rec = NoRecord
    /\ Decrypts(h)
    /\ noted' = TRUE
    /\ slot' = [slot EXCEPT ![h] = Answered(IF noted THEN "reply" ELSE "saving",
                                            Bare("status"))]
    /\ UNCHANGED <<rec, disk, unsaved, dev, next, spent>>

-----------------------------------------------------------------------------
(* The cycle: one action per branch of the engine                           *)

Fresh(h) == Absorb(rec, slot[h].body)
Used(h) == slot[h].body.key
Table(h) == slot[h].body.table

\* Mutant: the answer leaves without waiting for the save.
CommitUnsaved(h, d, reply) ==
    /\ rec' = Confirm(d, Used(h))
    /\ slot' = [slot EXCEPT ![h] = Answered("reply", reply)]
    /\ next' = [next EXCEPT
                  !.key = IF d.xAuthkey = @ THEN @ + 1 ELSE @,
                  !.version = IF d.cfgVersion = @ THEN @ + 1 ELSE @,
                  !.epoch = IF d.epoch = @ THEN @ + 1 ELSE @]
    /\ UNCHANGED <<noted, disk, unsaved, dev, spent>>

\* The tail of every cycle: the confirmation write, the record in memory, the
\* answer kept until the snapshot is saved.
CommitCycle(h, d, reply) ==
    /\ rec' = Confirm(d, Used(h))
    /\ slot' = [slot EXCEPT ![h] = Answered("saving", reply)]
    /\ next' = [next EXCEPT
                  !.key = IF d.xAuthkey = @ THEN @ + 1 ELSE @,
                  !.version = IF d.cfgVersion = @ THEN @ + 1 ELSE @,
                  !.epoch = IF d.epoch = @ THEN @ + 1 ELSE @]
    /\ UNCHANGED <<noted, disk, unsaved, dev, spent>>

Running(h) == slot[h].phase = "decoded" /\ rec # NoRecord
Encrypted(h) == Running(h) /\ slot[h].lane = "encrypted"
Plain(h) == Running(h) /\ slot[h].lane = "plain"
Admitted(h) == Encrypted(h) /\ ~DefaultKeyRejected(rec, Used(h))

\* UpdateExisting finds no record: deleted since Decode. 404, nothing recorded.
Vanished(h) ==
    /\ slot[h].phase = "decoded"
    /\ rec = NoRecord
    /\ AnswerNow(h, Bare("status"))

\* 404: the factory key on a confirmed record; the cycle aborts.
RejectDefaultKey(h) ==
    /\ Encrypted(h)
    /\ DefaultKeyRejected(rec, Used(h))
    /\ AnswerNow(h, Bare("status"))

GentleNoop(h) ==
    /\ Admitted(h) \/ Plain(h)
    /\ slot[h].body.type = "gentle"
    /\ CommitCycle(h, Fresh(h), Bare("noop"))

\* Armed commands: on the plaintext lane only behind a matching claim.
CommandTurn(h) ==
    /\ slot[h].body.type = "status"
    /\ Admitted(h) \/ (Plain(h) /\ OnAssigned(rec, Used(h)))

EmitSetdefault(h) ==
    /\ CommandTurn(h)
    /\ rec.setdefault
    /\ CommitCycle(h, Demoted(Fresh(h), next.epoch), Bare("setdefault"))

EmitReboot(h) ==
    /\ CommandTurn(h)
    /\ ~rec.setdefault /\ rec.reboot
    /\ CommitCycle(h, Rebooted(Fresh(h)), Bare("reboot"))

EmitCmd(h) ==
    /\ CommandTurn(h)
    /\ ~rec.setdefault /\ ~rec.reboot /\ rec.cmd
    /\ CommitCycle(h, CmdConsumed(Fresh(h)), Bare("cmd"))

\* decideEncrypted after the armed lifecycle. due: the backoff has elapsed.
Work(h) == Prepared(Fresh(h), Table(h), next.version)

Deciding(h) == Admitted(h) /\ slot[h].body.type = "status" /\ ~Armed(rec)

HoldPending(h, due) ==
    /\ Deciding(h)
    /\ Held(Work(h), due)
    /\ CommitCycle(h, [Work(h) EXCEPT !.delivery = Spent(@)], Bare("noop"))

Released(h, due) == Deciding(h) /\ ~Held(Work(h), due)

Rotate(h, due) ==
    /\ Released(h, due)
    /\ Used(h) = DefaultKey
    /\ LET d == RotateKeys(Work(h), next.key, next.version)
       IN  CommitCycle(h, d, AdoptionPush(d, Used(h)))

RePush(h, due) ==
    /\ Released(h, due)
    /\ Used(h) # DefaultKey
    /\ ~OnAssigned(rec, Used(h))
    /\ CommitCycle(h, Work(h), AdoptionPush(Work(h), Used(h)))

OnKey(h, due) == Released(h, due) /\ OnAssigned(rec, Used(h))

\* Content drift and a plain cfgversion mismatch both provision.
Provision(h, due) ==
    /\ OnKey(h, due)
    /\ ContentDrift(Work(h)) \/ ~Echoed(Work(h))
    /\ LET d == Provisioned(Work(h), next.version)
       IN  CommitCycle(h, d, FullProvision(d))

Settled(h, due) == OnKey(h, due) /\ ~ContentDrift(Work(h)) /\ Echoed(Work(h))

SelfHeal(h, due) ==
    /\ Settled(h, due)
    /\ Work(h).delivery.baseline = NoEnvelope
    /\ CommitCycle(h, [Work(h) EXCEPT !.cfgVersion = next.version], Bare("noop"))

Baselined(h, due) == Settled(h, due) /\ Work(h).delivery.baseline # NoEnvelope

ReconnectPush(h, due) ==
    /\ Baselined(h, due)
    /\ ReconnectDue(Work(h))
    /\ CommitCycle(h, [Work(h) EXCEPT !.state = "adopted", !.disconnected = FALSE],
                   BlockedStaReconnect(Work(h)))

ReprovisionMiss(h, due) ==
    /\ Baselined(h, due)
    /\ ~ReconnectDue(Work(h))
    /\ NotRunningTwice(Work(h), Table(h))
    /\ CommitCycle(h, [Work(h) EXCEPT !.disconnected = FALSE,
                                      !.delivery.misses = 0,
                                      !.cfgVersion = next.version], Bare("noop"))

ArmMaterialization(h, due) ==
    /\ Baselined(h, due)
    /\ ~ReconnectDue(Work(h))
    /\ MaterializationDue(Work(h), Table(h))
    /\ CommitCycle(h, [MaterializationArmed(Work(h)) EXCEPT !.disconnected = FALSE],
                   Bare("noop"))

ConnectedNoop(h, due) ==
    /\ Baselined(h, due)
    /\ ~ReconnectDue(Work(h))
    /\ ~NotRunningTwice(Work(h), Table(h))
    /\ ~MaterializationDue(Work(h), Table(h))
    /\ CommitCycle(h, Connected(Work(h), Table(h)), Bare("noop"))

\* decidePlain: claims never rotate keys, settle deliveries or confirm a
\* configuration.
PlainDeciding(h) == Plain(h) /\ slot[h].body.type = "status"

PlainUnassigned(h) ==
    /\ PlainDeciding(h)
    /\ rec.xAuthkey = NoKey
    /\ CommitCycle(h, Fresh(h), Bare("noop"))

PlainResend(h) ==
    /\ PlainDeciding(h)
    /\ rec.xAuthkey # NoKey /\ rec.xAuthkey # Used(h)
    /\ CommitCycle(h, Fresh(h), AdoptionPush(Fresh(h), rec.xAuthkey))

PlainProvision(h) ==
    /\ PlainDeciding(h)
    /\ OnAssigned(rec, Used(h)) /\ ~Armed(rec)
    /\ LET d == Provisioned(Fresh(h), next.version)
       IN  CommitCycle(h, d, FullProvision(d))

\* The branches that draw random characters or render system_cfg.
Fallible(h, due) ==
    \/ Deciding(h) /\ Work(h).cfgVersion = next.version
    \/ Released(h, due) /\ Used(h) = DefaultKey
    \/ OnKey(h, due) /\ (ContentDrift(Work(h)) \/ ~Echoed(Work(h)))
    \/ Settled(h, due) /\ Work(h).delivery.baseline = NoEnvelope
    \/ Baselined(h, due) /\ ~ReconnectDue(Work(h)) /\ NotRunningTwice(Work(h), Table(h))
    \/ PlainDeciding(h) /\ OnAssigned(rec, Used(h)) /\ ~Armed(rec)

\* If one fails the cycle aborts with nothing recorded, and a noop is answered.
EngineFails(h, due) ==
    /\ spent.faults < MaxFaults
    /\ Fallible(h, due)
    /\ slot' = [slot EXCEPT ![h] = Answered("reply", Bare("noop"))]
    /\ spent' = [spent EXCEPT !.faults = @ + 1]
    /\ UNCHANGED <<rec, noted, disk, unsaved, dev, next>>

Cycle(h, due) ==
    \/ HoldPending(h, due)
    \/ Rotate(h, due)
    \/ RePush(h, due)
    \/ Provision(h, due)
    \/ SelfHeal(h, due)
    \/ ReconnectPush(h, due)
    \/ ReprovisionMiss(h, due)
    \/ ArmMaterialization(h, due)
    \/ ConnectedNoop(h, due)

Handle(h) ==
    \/ DecodeRegistered(h) \/ DecodeFails(h) \/ DecodeUnknown(h)
    \/ Vanished(h) \/ RejectDefaultKey(h) \/ GentleNoop(h)
    \/ EmitSetdefault(h) \/ EmitReboot(h) \/ EmitCmd(h)
    \/ PlainUnassigned(h) \/ PlainResend(h) \/ PlainProvision(h)

-----------------------------------------------------------------------------
(* After the cycle: the save, and what a failed one or a restart leaves      *)

SaveInform(h) ==
    /\ slot[h].phase = "saving"
    /\ disk' = Snapshot
    /\ slot' = [slot EXCEPT ![h].phase = "reply"]
    /\ UNCHANGED <<rec, noted, unsaved, dev, next, spent>>

\* The cycle's effects stay in memory; its answer is replaced by a noop (the
\* sighting of an unknown MAC keeps its 404).
SaveInformFails(h) ==
    /\ slot[h].phase = "saving"
    /\ spent.faults < MaxFaults
    /\ slot' = [slot EXCEPT
                  ![h].phase = "reply",
                  ![h].reply = Bare(IF @.kind = "status" THEN "status" ELSE "noop")]
    /\ spent' = [spent EXCEPT !.faults = @ + 1]
    /\ UNCHANGED <<rec, noted, disk, unsaved, dev, next>>

SaveOther(who) ==
    /\ who \in unsaved
    /\ disk' = Snapshot
    /\ unsaved' = unsaved \ {who}
    /\ UNCHANGED <<rec, noted, slot, dev, next, spent>>

SaveOtherFails(who) ==
    /\ who \in unsaved
    /\ spent.faults < MaxFaults
    /\ unsaved' = unsaved \ {who}
    /\ spent' = [spent EXCEPT !.faults = @ + 1]
    /\ UNCHANGED <<rec, noted, disk, slot, dev, next>>

\* NewJSONStore reloads the snapshot; connections and handlers are gone.
Restart ==
    /\ spent.faults < MaxFaults
    /\ rec' = disk.rec
    /\ noted' = disk.noted
    /\ slot' = [h \in Slots |-> IdleSlot]
    /\ unsaved' = {}
    /\ dev' = [dev EXCEPT !.conn = NoConn]
    /\ spent' = [spent EXCEPT !.faults = @ + 1]
    /\ UNCHANGED <<disk, next>>

-----------------------------------------------------------------------------
(* The operator and the poller                                              *)

\* One cycle of an operator verb (saveIntent) or of the sweep. MaxOps bounds the
\* blockings, and these the unblockings.
Edit(who, op, d) ==
    /\ op \in Ops
    /\ who \notin unsaved
    /\ op = "Unblock" \/ spent.ops < MaxOps
    /\ rec' = d
    /\ unsaved' = unsaved \cup {who}
    /\ next' = [next EXCEPT
                  !.version = IF d # NoRecord /\ d.cfgVersion = @ THEN @ + 1 ELSE @,
                  !.epoch = IF d # NoRecord /\ d.epoch = @ THEN @ + 1 ELSE @]
    /\ spent' = IF op = "Unblock" THEN spent ELSE [spent EXCEPT !.ops = @ + 1]
    /\ UNCHANGED <<noted, disk, slot, dev>>

\* CreateDevice; on an existing record it only renames.
CreateDevice ==
    /\ rec = NoRecord
    /\ Edit("operator", "Create", SeededDevice(next.epoch))

\* AdoptPending promotes a noted candidate; a pending record is left as it is.
AdoptPending ==
    /\ rec = NoRecord
    /\ noted
    /\ Edit("operator", "Adopt", SeededDevice(next.epoch))

\* evictExpiredLocked: the sighting's TTL passed.
NoteExpires ==
    /\ "Expire" \in Ops
    /\ noted
    /\ spent.ops < MaxOps
    /\ noted' = FALSE
    /\ spent' = [spent EXCEPT !.ops = @ + 1]
    /\ UNCHANGED <<rec, disk, slot, unsaved, dev, next>>

DeleteDevice ==
    /\ rec # NoRecord
    /\ Edit("operator", "Delete", NoRecord)

\* An effective save of rendered rows mints a cfgversion.
PatchDevice ==
    /\ rec # NoRecord
    /\ Edit("operator", "Patch",
            [rec EXCEPT !.intent = @ + 1, !.cfgVersion = next.version])

\* The device-WLAN verbs store the envelope and leave minting to the engine.
PutDeviceWireless(env) ==
    /\ rec # NoRecord
    /\ env # rec.wlans
    /\ Edit("operator", "Wlans", [rec EXCEPT !.wlans = env])

BlockClient(c) ==
    /\ rec # NoRecord
    /\ c \notin rec.blocked
    /\ Edit("operator", "Block", AddBlockedClient(rec, c))

UnblockClient(c) ==
    /\ rec # NoRecord
    /\ c \in rec.blocked
    /\ Edit("operator", "Unblock", RemoveBlockedClient(rec, c))

RebootDevice ==
    /\ rec # NoRecord
    /\ ~rec.reboot
    /\ Edit("operator", "Reboot", [rec EXCEPT !.reboot = TRUE])

FactoryResetDevice ==
    /\ rec # NoRecord
    /\ ~rec.setdefault
    /\ Edit("operator", "FactoryReset", [rec EXCEPT !.setdefault = TRUE])

EnqueueDeviceCmd ==
    /\ rec # NoRecord
    /\ ~rec.cmd
    /\ Edit("operator", "Cmd", ArmCmdTask(rec))

\* Mutant: a record that is still being provisioned is swept as well.
SweepConfirmed ==
    /\ rec # NoRecord
    /\ rec.keyConfirmed
    /\ Edit("poller", "Sweep", [rec EXCEPT !.state = "lost"])

\* sweepLost, with the re-check inside the cycle; the age of the heartbeat is
\* not modelled, so it may find the record stale at any time.
SweepLost ==
    /\ rec # NoRecord
    /\ rec.state = "adopted"
    /\ Edit("poller", "Sweep", [rec EXCEPT !.state = "lost"])

-----------------------------------------------------------------------------
Operator ==
    \/ CreateDevice \/ AdoptPending \/ NoteExpires \/ DeleteDevice \/ PatchDevice
    \/ \E env \in Envelopes : PutDeviceWireless(env)
    \/ \E c \in Clients : BlockClient(c) \/ UnblockClient(c)
    \/ RebootDevice \/ FactoryResetDevice \/ EnqueueDeviceCmd \/ SweepLost

Next ==
    \/ \E h \in Slots, lane \in Lanes : OddInform(h, lane)
    \/ \E h \in Slots : Inform(h) \/ RequestLost(h) \/ Deliver(h) \/ Handle(h)
    \/ \E h \in Slots, due \in BOOLEAN : Cycle(h, due) \/ EngineFails(h, due)
    \/ \E h \in Slots : SaveInform(h) \/ SaveInformFails(h)
    \/ \E who \in {"operator", "poller"} : SaveOther(who) \/ SaveOtherFails(who)
    \/ GiveUp \/ PhysicalReset \/ Restart
    \/ Operator

Spec == Init /\ [][Next]_vars

\* The next step of the goroutine that serves h, up to the answer's delivery.
HandlerStep(h) ==
    \/ Handle(h) \/ SaveInform(h) \/ Deliver(h)
    \/ \E due \in BOOLEAN : Cycle(h, due)

\* What the scheduling guarantees: the device keeps informing, a handler runs to
\* its answer and the answer is delivered while the device waits, a committed
\* edit reaches its save, and, since the backoff is at most WlanRetryMax while
\* informs keep coming, retries are not forever too early: strong fairness of a
\* cycle that is due, written out since it is enabled exactly when Deciding.
Fairness ==
    /\ WF_vars(\E h \in Slots : Inform(h))
    /\ \A h \in Slots :
          /\ WF_vars(HandlerStep(h))
          /\ []<>Deciding(h) => []<><<Cycle(h, TRUE)>>_vars
    /\ \A who \in {"operator", "poller"} : WF_vars(SaveOther(who))

FairSpec == Spec /\ Fairness

-----------------------------------------------------------------------------
(* Types                                                                    *)

DeviceStates ==
    [key     : Keys \cup {DefaultKey},
     cfg     : Nat,
     env     : Envelopes,
     blocked : SUBSET Clients,
     intent  : Nat,
     epoch   : Nat,
     conn    : Slots \cup {NoConn}]

\* Only full provisioning and the reconnect push carry content.
ReplyOK(r) ==
    /\ r \in Replies
    /\ r.kind = "provision" => r.env \in Envelopes
    /\ r.kind \in {"provision", "reconnect"} => r.blocked \in SUBSET Clients

\* The type invariant of the controller, its disk and the device.
TypeOK ==
    /\ rec \in Devices \cup {NoRecord}
    /\ noted \in BOOLEAN
    /\ disk \in [rec : Devices \cup {NoRecord}, noted : BOOLEAN]
    /\ slot \in [Slots -> SlotStates]
    /\ \A h \in Slots : ReplyOK(slot[h].reply)
    /\ unsaved \in SUBSET {"operator", "poller"}
    /\ dev \in DeviceStates
    /\ next \in [key : Nat \ {0}, version : Nat \ {0}, epoch : Nat \ {0}]
    /\ spent \in [ops : Nat, losses : Nat, faults : Nat, reports : Nat]

-----------------------------------------------------------------------------
(* Keys                                                                     *)

Records == {rec, disk.rec} \ {NoRecord}

\* A WLAN delivery is pending or has settled.
Delivering(d) ==
    d.delivery.pending # NoEnvelope \/ d.delivery.baseline # NoEnvelope

\* The assignment is the newest of at most two keys; a record that is adopted
\* or lost, or for which a delivery was ever offered, belongs to a device that
\* authenticated with one of them; a pending record has no keys.
KeyShape(d) ==
    /\ Len(d.authkeys) <= 2
    /\ d.xAuthkey = (IF d.authkeys = << >> THEN NoKey ELSE d.authkeys[Len(d.authkeys)])
    /\ d.keyConfirmed => d.authkeys # << >>
    /\ d.state \in {"adopted", "lost"} => d.keyConfirmed
    /\ d.state = "pending" => d.authkeys = << >>
    /\ Delivering(d) => d.keyConfirmed

\* KeyDiscipline: whatever rotations, demotions, failed saves and restarts did,
\* the record in memory and the record on disk both have a shape from which the
\* key-confirmation gate of decideEncrypted decides correctly. In particular a
\* factory-key inform can be admitted only before any WLAN delivery exists.
KeyDiscipline == \A d \in Records : KeyShape(d)

\* DeviceKeyKept: a device that took a key of the current assignment can always
\* be decrypted, by the running controller and by one restarted from disk
\* (rotateKeys: "its previous key must keep decrypting"; runInformCycle: "a lost
\* rotation bricks the device's key"), as long as at most one stale factory-key
\* inform is under way while the device waits for another (DeviceKeyKeptHolds).
DeviceKeyKept ==
    \A d \in Records :
        dev.key # DefaultKey /\ dev.epoch = d.epoch => dev.key \in KeysOf(d)

\* ConfirmedKeyStands: between restarts, once a device authenticated with a
\* per-device key, no inform and no verb changes the assignment or withdraws the
\* confirmation short of the demotion or deletion that ends the incarnation.
ConfirmedKeyStands ==
    [][ (/\ rec # NoRecord
         /\ rec' # NoRecord
         /\ rec.keyConfirmed
         /\ rec'.epoch = rec.epoch
         /\ spent'.faults = spent.faults)
        => rec'.xAuthkey = rec.xAuthkey /\ rec'.keyConfirmed ]_vars

-----------------------------------------------------------------------------
(* Content                                                                  *)

\* The controller believes the device runs what the operator saved.
Believed ==
    /\ rec # NoRecord
    /\ rec.state = "adopted"
    /\ dev.epoch = rec.epoch
    /\ dev.cfg = rec.cfgVersion
    /\ rec.appliedCfg = rec.cfgVersion
    /\ ~BlockedDrift(rec)

\* ConnectedContent: an adopted device that echoes the record's cfgversion has
\* the operator's rendered rows and the blocked set, although mgmt_cfg-only
\* pushes hand out cfgversions without content and answers get lost
\* (assignedKeyFlow, adoptionPush, stampBlockedSta), as long as content leaves
\* only in answer to encrypted informs with a cfgversion (ConnectedContentHolds).
ConnectedContent == Believed => dev.intent = rec.intent /\ dev.blocked = rec.blocked

\* SettledWlans: while no delivery is pending, the baseline that drift is
\* measured against is what the device broadcasts, although saves fail, the
\* process restarts and cfgversions are echoed without content, as long as the
\* device has sent only its own complete reports (Settle promotes an envelope
\* only when "every previously enabled SSID being removed has disappeared" and
\* every desired one runs), is answered in time and can bring up every WLAN
\* (SettledWlansHolds).
SettledWlans ==
    (/\ spent.reports = 0
     /\ rec # NoRecord
     /\ dev.epoch = rec.epoch
     /\ rec.delivery.pending = NoEnvelope
     /\ rec.delivery.baseline # NoEnvelope)
    => dev.env = rec.delivery.baseline

\* The device is adopted and runs everything the operator saved.
InSync ==
    /\ Believed
    /\ dev.intent = rec.intent
    /\ dev.blocked = rec.blocked
    /\ dev.env = rec.wlans
    /\ ~Armed(rec)

\* Converges: when operator, losses and faults let go, a registered device ends
\* up adopted on its own key with every saved row applied and every armed
\* command gone, and stays there (the self-heal "Terminates" and the two watchdogs
\* included), unless it was informed in plaintext: that lane stamps the blocked set
\* without minting, so a lost or unsaved answer is not repeated.
Converges ==
    [](\A h \in Slots : slot[h].lane = "encrypted") => <>[](rec # NoRecord => InSync)

=============================================================================
