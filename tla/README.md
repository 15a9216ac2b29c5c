# open-unifi, verified

TLA+ models of the open-unifi controller: how it finds an access point, adopts
it, keeps its key, delivers its configuration, gives it up when it falls silent,
stores what it knows, reports where wireless clients are, and starts and stops
itself. TLC checks the modules on small instances; TLAPS proves the type
invariants, every safety invariant and action property of the passing runs (three of them
under conditions that are stated and explained) and the refinement, for every value
of the constants. Source paths below are relative to `src/internal/` unless they say
otherwise; `PROJECT.json` maps every definition to its lines.

    cd tla
    tlc -workers 2 -config AdoptionKeys.cfg MCRefines   # any run of PROJECT.json
    tlapm AdoptionProofs.tla                            # any *Proofs module

## 1. The system

open-unifi is a controller for UniFi access points. A factory device announces
itself over UDP; the operator clicks Adopt, and the controller may push its own
address to the device over SSH. From then on the device sends an *inform* over
HTTP every few seconds, encrypted under a factory key or under a key the
controller assigned to it. The answer is a noop with the time to the next inform,
a push of management data (the assigned key and a `cfgversion`), a full
provisioning, or a command. Everything the controller knows of a device is one
record in a JSON file.

### Components

| component | state it keeps | operations | correct when |
|---|---|---|---|
| discovery (`server/discovery.go`) | replay window, reply counter | announces, probes, legacy cards to `MarkPending` | a replay inside the window is dropped, a live device is listed |
| set-inform push (`app/setinform.go`) | none | `AdoptPending`, `pushSetInform` | a failed push can be repeated, a device ends up managed |
| inform server (`server/server.go`) | handlers in flight, noop targets | decode, run the cycle, save, answer | an answer is sent only for what was saved; a deleted device is not resurrected |
| adoption engine (`server/adoption/`) | none: it decides on one record | `Decide` and its branches, encrypted and plaintext; `noopFor` | the device's key always decrypts; content is delivered although answers get lost; commands run once |
| WLAN delivery state (`wireless/`) | `wlan_cfg_*` rows | `Offer`, `Settle`, `RetryDue`, VAP plan, drift hash, two watchdogs | a baseline is what the device broadcasts; retries end; no reboot loop |
| record trust policy (`store/trustpolicy.go`) | key classes of a record | `Absorb`, the sweep of a factory reset | a device body changes only what a device may change |
| operator verbs (`app/app.go`, `app/device_wlans.go`) | none | create, adopt, delete, patch, radio intents, WLANs, block, reboot, reset, command | each verb is one cycle and reaches the device in the end |
| system_cfg renderer (`server/systemcfg/`) | cached password hashes | `RenderWithPlan` | the sections agree; an echoed version means these rows |
| admin API (`adminapi/`) | none | validators and fences of the writing routes | no accepted sequence of edits builds a network that cannot work |
| lost sweep and metrics poller (`app/app.go`, `metrics/`) | previous states, counters, series | `sweepLost`, `PollOnce`, `ForgetDevice` | an inform that races the sweep wins; nothing is counted twice |
| device store (`store/store.go`) | devices, sightings, a mutex per MAC, the file | `Update`, `UpdateExisting`, `Delete`, `MarkPending`, `Pending`, `save` | cycles on one MAC are serial; what was acknowledged is in the file |
| client sessions (`store/sessions.go`) | rows per device and client | refresh by a station table, cap | a transition per real change |
| client events (`clientevents/`) | presence, held disconnects, event file | `Observe`, `Flush`, `Seed`, `Emit`, `FoldHistory` | the history ends where the client is |
| process wiring (`src/cmd/openunifi/`) | data-directory lock, goroutines | `run()`: start, serve, two ways out | one writer per directory; every way out ends |
| codec and crypto, telemetry | none that the controller reads back | | see "Not modelled" |

### How they interact

An inform is decoded with the keys of the record as it is *before* the cycle.
The cycle runs inside `UpdateExisting` under the MAC's mutex: absorb the body,
refresh the session rows, decide, apply the record deltas. The mutex is released
before the file is saved. Only after the save does the handler hand the session
transitions to the tracker and write the answer. Operator verbs and the poller
run cycles of their own on the same records, and every one of them ends in a
save of the whole store. The poller works on two lists it takes at the start of
its two phases. A device that stops waiting sends its next inform although the
old one may still be in a handler. Discovery and informs of unknown devices feed
the same list of pending candidates; Adopt reads it once for the promotion and
again for the push.

### What is hard

* **Interleaving**: informs of the same device overlap each other, operator
  verbs, the sweep and deletion; the key that decrypted an inform is from an
  older record than the one decided upon.
* **Loss**: an answer that is lost after its cycle committed leaves the record
  ahead of the device. Nothing is acknowledged except by the next inform.
* **Partial failure**: a failed save leaves the memory changed, the answer
  replaced by a noop and the transitions dropped; a restart goes back to the
  last snapshot.
* **Evidence**: the device echoes a `cfgversion` without having applied its
  content, and a `vap_table` does not show passphrases.
* **Two readings of one list**: the drift hash and the renderer must agree on
  what matters of a WLAN.
* **Locks**: `Delete` holds three mutexes and removes the map entry of one; the
  process lock is released by deferred calls while goroutines may still run.
* **Order**: two access points report one roam in either order, with times in
  whole seconds; announces are UDP.

`PROJECT.json` lists these as hazards, each at its line.

## 2. Modules

| module | models | uses |
|---|---|---|
| `Engine` | the engine's decisions as operators on a record; no variables | |
| `Adoption` | one access point, the inform handlers, operator, poller, snapshot on disk | extends `Engine` |
| `AdoptionHistory` | `Adoption` with history: commands armed but not yet executed, watchdog reboots | extends `Adoption` |
| `Lifecycle` | abstract: the life of one record, in memory and on disk | |
| `AdoptionRefines` | the mapping under which `Adoption` implements `Lifecycle` | extends `Adoption`, instantiates `Lifecycle` |
| `AdoptionProofs` | theorems about `Adoption`, its refinement and its history | extends `AdoptionRefines`, `AdoptionHistory` |
| `Heartbeat` | noop intervals and their targets, in seconds | |
| `Poller` | `sweepLost` and `PollOnce` on snapshots, counters, metric series | |
| `Discovery` | announces, replay window, candidates, Adopt, set-inform push | |
| `SystemCfg` | validators, VAP plan, drift hash, rendered rows; no variables | |
| `Provisioning` | operator edits on their way to one adopted device | extends `SystemCfg` |
| `Store` | the store's goroutines, mutexes, memory and file | |
| `ClientLog` | session rows, tracker, event file, for several access points | |
| `Process` | `run()` of several controllers on one data directory | |
| `StoreProofs`, `HeartbeatProofs`, `PollerProofs`, `DiscoveryProofs`, `ClientLogProofs`, `ProcessProofs`, `ProvisioningProofs` | theorems about the module each is named after | extend that module |
| `MC*` | values for the constants, symmetries | |

### Engine, Adoption, Lifecycle

The state is the record in memory (`rec`), whether the MAC is a pending
candidate (`noted`), the saved snapshot of both (`disk`), one inform per handler
goroutine (`slot`), committed cycles whose save is outstanding (`unsaved`) and
the access point (`dev`, external: it applies what answers ask of it). A handler
goes through `sent`, `decoded`, `saving`, `reply`: the steps where something else
can come in between. `handlePacket`'s lookup is a Decode action; the cycle is one
atomic action per branch of `Decide` (the MAC mutex makes it so, see `Store`),
from `RejectDefaultKey` to `ConnectedNoop` and the plaintext lane; `SaveInform` or
`SaveInformFails` follows; `Deliver` hands over the answer if the device still
waits on that connection. `GiveUp` turns the request into a stale one.

Abstractions, and why they keep the control:

* Keys and cfgversions are fresh numbers where the code draws random strings;
  a collision is not modelled.
* A WLAN envelope is its SSIDs, its planned VAPs and one number for everything a
  `vap_table` does not show; its sha256 is the envelope itself. What is in a list
  and in its hash is `SystemCfg`.
* Whether the retry backoff has elapsed is an input (`due`); it only compares
  clocks.
* Operator rows that are rendered but are neither WLANs nor the blocked set are
  one counter, `intent`; `Provisioning` has them one by one.
* A verb that would save what is already there (idempotent re-saves, arming an
  armed flag) is left out: it changes no row.
* `epoch` is a history field of record and device: it names the incarnation of a
  key assignment, which a demotion or a deletion ends.

`Lifecycle` is what the controller promises of a record without saying how: an
incarnation begins pending and without a key, keys are assigned until one is
proved, from then on the key stands, only an adopted record is lost, only a
demotion or deletion ends the incarnation, and the saved copy is always some
state the live one had. `AdoptionRefines` maps `rec` and `disk.rec` to `live` and
`saved` and forgets everything that is delivered through the record.

### Heartbeat and Poller

`Heartbeat` has the arithmetic of `noopFor` in seconds with the code's numbers:
the random draw (a fraction `j / Resolution`), the watching and Ubios intervals,
the cap, the target the server keeps per MAC, and the branch that does not
persist it. `Poller` has the two phases of a poll as steps between which informs
and verbs run: the list of the sweep, one cycle per silent device with its
re-check, the list of the second phase, one report per device, the pruning of
`prevStates`. What the engine decides is reduced to the state the record is left
in, as the poller sees nothing else. `truth` counts the real transitions.

### Discovery

Packets have the fields the dispatch looks at: version, command, MAC and counter
TLVs, sender, whether the source is local, whether the model is blocked, and the
note. Actions: a device announces, a datagram is received, duplicated or lost,
another sender's packet arrives (probes, echoes of ourselves, packets of other
commands, legacy v0 cards, unusable ports), the operator adopts, the push
succeeds, fails or does not apply, the device informs, reboots and counts from
one again, is reset or deleted. Time is kept as ages. Records and notes are kept
twice, in memory and as last saved (`file`): every verb ends in a save that may
fail, a repeated note and an eviction by a reader save nothing, and `Restart`
reads both from the file and gives every candidate a new first-seen time.

### SystemCfg and Provisioning

A row of system_cfg is `<<key, index, value>>`; rows with a literal value are
left out. The validators, the normalisations of a list, the plan of VAPs (radio
order, band, slots), the hash and the rows are separate operators
translated from separate files, so that their agreement can be checked. In
`Provisioning` each verb and each inform is one store cycle, hence one step. The
device remembers what its rows were rendered from; the rows themselves are
computed when a property asks for them. `beat` is a history bit for the fairness;
`unheard` one that says that the last push was lost and brought another WLAN list
under the very version that the device runs.

### Store

Every lock acquisition, map access and file operation that another goroutine can
come between is a step. A record is the stamp of the mutation that stored it, a
mutex is a number that a goroutine keeps after resolving it, so a pruned and
recreated mutex is a different one. `Deletable` are the MACs that `Delete` is
called for. A save is three steps: take `saveMu`, snapshot under `db.mu`, rename.
The temporary file, its fsync and `syncDir` are one failing or succeeding step:
process crashes are modelled, power loss (where the best-effort `syncDir` would
matter) is not. `Put` as a verb has no caller outside tests.

### ClientLog

Two or more access points, clients that really are somewhere (`at`), rows in
memory and on disk, handlers between commit, save and `Observe`, the tracker's
presence and held disconnect, and the events of each client. `Emit` sorts by the
event's time as the code does; `FoldHistory` is the code's fold. The grace window
is not a clock: `Flush` may release a held disconnect as soon as no handler that
committed no later than the disconnect is still on its way (`Lapsed`), because
the window (tens of seconds) outlives a handler. An access point serves no more
clients than its record has rows.

### Process

Several processes, each where `run()` is; the lock's holder; the workers that may
start a store cycle and those inside one; and `late`, the workers that `run()`
did not wait for on its way out: handlers past the 5 s of `Shutdown`, the
discovery loop, and the poller when a server error ended the process. The content
of `devices.json` is the number of the save that wrote it, `image` what the
process has in memory. A kill may come at any step and drops the lock.

## 3. Runs

Each run is one part of the system under all its properties. All passing runs
finish within five minutes with two workers.

| run | shows | bounds and why they suffice |
|---|---|---|
| `AdoptionKeys` | `TypeOK`, `KeyDiscipline`, `DeviceKeyKept`, `ConnectedContent`, `ConfirmedKeyStands`, `ImplementsLifecycle` | two handlers (one stale inform), two verbs out of adopt, expire, delete, both resets, sweep, patch, block, one loss, one fault, one inform out of the ordinary or whose station table drops a client: enough for a rotation whose answer is lost, a demotion and a second rotation |
| `AdoptionCommands` | `CommandsAtMostOnce`, `SettledWlans`, `WatchdogOncePerVersion` | both lanes, an access point with one dead band, three verbs out of a WLAN, its new passphrase, its removal, a client blocked and unblocked, a reboot and a command, one fault, one inform with the band up or a client gone |
| `AdoptionRecovers` | `Converges` | two verbs out of every content verb, blocking (and unblocking, which is not counted), a queued command, sweep and reboot, both bands, one fault, two informs, encrypted or in plaintext, that report all VAPs down, one band down or no table: the SSID watchdog re-provisions, the materialization watchdog reboots the access point |
| `Store` | `TypeOK`, `CyclesSerial`, `AckedDurable`, `FileForward`, `OpsComplete` | two goroutines, all verbs, two MACs of which one is deleted, three calls, one failed save or restart, room for one candidate, two ticks past a TTL of one |
| `StoreReload` | `EvictionsPersist` is violated (see Findings) | one goroutine marks one device, one restart, two ticks past a TTL of one |
| `ClientLogRoams` | `HistoryTrue` | two clients, two moves, one row per access point, so the cap evicts; fairness |
| `ClientLogFaults` | `TypeOK`, `HeldWhereCurrent`, `HistoryAgrees` | one client, two handlers for one access point, so its informs overtake each other, one of each kind of fault |
| `HeartbeatSchedule` | `TypeOK`, `ScheduleBounded` | the code's own numbers and 90 seconds, informs at any of them |
| `Poller` | `TypeOK`, `CountsTrue`, `SweepSound`, `SilentLost`, `SeriesReturn` | two devices, three informs (to adopt and to come back), three verbs or faults (create, delete, create again), two ticks; fairness |
| `Discovery` | `TypeOK`, `NotesSaved`, `WindowHolds`, `Onboarded` | one device, one datagram under way, one duplicate, stray packet or restart, one failed save, one reboot, reset or deletion, a counter of width three, a window and a TTL of one tick, a prune threshold of zero; late announces come as stray packets with numbers already used; fairness |
| `Provisioning` | `TypeOK`, `EchoedRows`, `WiringSound`, `NoDeadVaps`, `EditsReach` | two radios, personal and enterprise networks with and without a tag, three verbs, one inform whose answer is lost, whose `vap_table` is missing, or both: enough for a list lost unheard; fairness |
| `Process` | `TypeOK`, `WritersLocked`, `NoLostSave`, `Stops` | two starts, two saves, three workers (a server handler, the discovery loop, the poller; an inform handler is given up on as an admin one is), both ways out, kills; fairness |

`SlotSymmetry` permutes handlers where no fairness is assumed. Only `Process`
may stop: after its last start it ends for good.

Every property of a passing run has a mutant in `PROJECT.json`: an operator next
to the mapped definition, marked "Mutant" in its comment, that changes it as a
plausible bug would, and for which TLC finds the property violated.

### Properties in words

* `KeyDiscipline`: in memory and on disk, the assignment is the newest of at most
  two keys, and adopted or lost records and records with a delivery have a
  confirmed key. The key-confirmation gate decides from these rows.
* `DeviceKeyKept`: a device that took a key of the current incarnation can be
  decrypted, also by a controller restarted from disk. It holds as long as at most
  one stale factory-key inform is under way while the device waits for another;
  with two it does not (Known limits).
* `ConfirmedKeyStands`: between restarts nothing changes a confirmed key within
  an incarnation.
* `ImplementsLifecycle`: the refinement described in section 2.
* `ConnectedContent`: adopted plus echoed cfgversion means the content is there,
  as long as content leaves only in answer to encrypted informs that name the
  device's cfgversion.
* `SettledWlans`: a settled baseline is what the device broadcasts, as long as the
  device reports completely, is answered before it gives up and can bring up every
  WLAN.
* `Converges`: once verbs, losses and faults stop, a registered device is adopted
  with every saved row applied and no armed command, for ever, if it never informed
  in plaintext (Known limits).
* `CommandsAtMostOnce`, `WatchdogOncePerVersion`: no command is repeated by a
  failed save or a restart, no reboot loop for a band that never comes up.
* `ScheduleBounded`: the target kept for a device stays within the cap of the
  present, and an answer lies between the watching interval and the cap.
* `CountsTrue`, `SweepSound`, `SilentLost`, `SeriesReturn`: counters never run
  ahead of the real transitions; the sweep marks only what is adopted and silent
  at the moment of the write; a silent device is marked in the end; a device with
  a record gets its series back when a late `ForgetDevice` took them.
* `WindowHolds`, `NotesSaved`, `Onboarded`: no replay inside the window; unless a
  save failed, the file has every record and the note of every candidate; a
  factory device is managed in the end, although a save failed and a restart
  brought back what the file had.
* `EchoedRows`: a device that only gets noops runs exactly the rows the record
  stands for, but for the site id and for a list lost `unheard` (Known limits).
  `EditsReach`: once the operator stops the record comes to consider the device up
  to date. Together: every other edit reaches the device.
* `WiringSound`, `NoDeadVaps`: the sections of a pushed configuration agree, and
  every enterprise VAP has a server and a secret, whatever sequence of accepted
  verbs built the list.
* `CyclesSerial`, `AckedDurable`, `FileForward`, `OpsComplete`: no lost update on
  a device that nobody deletes, no lost acknowledgement, no older file, no
  deadlock.
* `EvictionsPersist`, violated: an evicted candidate is listed again only when it is
  sighted again.
* `HeldWhereCurrent`, `HistoryAgrees`, `HistoryTrue`: a held disconnect is about
  the access point the client is recorded on; events ordered by their own time
  tell the same as the tracker; a noticed stay ends up as the open interval.
* `WritersLocked`, `NoLostSave`, `Stops`: a worker inside a store cycle belongs to
  the lock's holder unless `run()` gave up on it; if nobody was given up on, no
  save overwrites another process's; both ways out end.

### Findings

* **A restart lists what was evicted** (`StoreReload`, `EvictionsPersist`).
  `NewJSONStore` says of its new first-seen times that "this keeps restarts from
  re-exposing long-dead beacons for another full TTL" (store.go:568), and a test
  that "a TTL eviction is a real mutation: the jsonStore must persist it"
  (store_test.go:441). An eviction is in the file only if a save follows it, as in
  that test. `Pending`, which every listing calls, evicts in memory only, and so
  does `MarkPending` when it returns for a repeat or a full list. In the run a
  device is marked and falls silent, a listing evicts it, the controller restarts,
  and the device is listed for another TTL.

### Known limits of the code that bound the passing runs

These were met while modelling, each with a TLC counterexample or in the reading;
each is why a property or a run leaves something out.

* **Keys.** `rotateKeys` keeps the newest two keys because "the device might still
  be finishing one rotation cycle when the next starts, so its previous key must
  keep decrypting" (engine.go:954). Until the assigned key is confirmed the gate
  admits the factory key, and every stale inform under it rotates: with
  `Slots = {h1, h2, h3}` and `MaxLosses = 2`, two of them that commit after the
  device took its key push that key out of the two, and `DeviceKeyKept` fails.
  `AdoptionKeys` therefore has two handlers and one loss; the proof shows that any
  number of them will do while `FewStragglers` holds, at most one such inform when
  the device waits for another.
* **Adoption.** The pending gate answers before the cfgversion mismatch is looked
  at: with the retry budget of a WLAN spent, a provisioning that carried a new
  blocked set and was lost is not offered again, so `Converges` assumes no lost
  answers. A passphrase that changes while the *first* delivery is unconfirmed is
  offered under the cfgversion the device already echoes (the mint is inside the
  test for a baseline); if that answer is lost the earlier delivery settles it.
  An overtaken inform can settle a delivery, and reverting an unconfirmed envelope
  can settle while the added SSID still runs, so `SettledWlans` is checked with
  one handler and with the device's own complete reports. Over more steps than the
  run's two more conditions count, both of which TLC finds necessary at depth 28.
  As long as there is no baseline every change of the list is offered under the
  same cfgversion (`wlanDrift`). If a cycle answers after the device gave up
  (`OnTime`), it may replace an envelope that the device has taken since; if the
  access point cannot bring up the WLAN (`Visible`), its complete report does not
  settle the envelope it runs, which is then replaced. When the new answer is lost,
  the next echo settles an envelope that was never received. The plaintext lane
  stamps the blocked set without minting and believes the key a report claims (a
  restart after such a stamp leaves a blocked client that no answer carries, so
  `Converges` exempts behaviours with a plaintext inform), and
  an inform without a cfgversion counts as an echo of any (`cfgversionEchoes`), so
  `ConnectedContent` is checked on the encrypted lane; informs without a cfgversion
  are in no run. If the answer that
  carries a factory reset is lost after the demotion was saved, the device keeps a
  key the controller forgot and only the reset button helps: the liveness run arms
  none. A WLAN for a band the access point lacks never settles.
* **Store.** `Delete` prunes the mutex of a MAC that another goroutine has already
  resolved; the next caller makes a second one and two cycles on that MAC overlap.
  `CyclesSerial` therefore speaks of MACs outside `Deletable`. Entries of devices
  that were adopted meanwhile count against the cap on candidates until they
  expire, and a restart renews them with all others; no property says that a new
  device gets past a list full of others.
* **Poller.** The lost threshold is a constant 75 s and `noopFor` may ask for up
  to 90 s, so an obedient device can be marked lost before it was due. After a
  downtime longer than 75 s the first sweep marks every device lost. A poll that
  listed a device before its deletion, or a session-event counter that comes after
  it, brings the series of a deleted device back.
* **Discovery.** A port out of range is refused before the factory mark is read.
  A legacy v0 card has command 0, which the dispatch does not record. After a failed
  save a repeat of the same note returns nil without saving, so the candidate, or
  its newer note, stays out of the file until another save and is lost or older
  after a restart; `NotesSaved` is about controllers whose saves have not failed.
  A deletion whose save failed comes back with the restart: a device that was reset
  by its button meanwhile has a record that calls it managed.
* **Provisioning.** A patch of the site id changes the row `unifi.siteid` and
  mints nothing, so `EchoedRows` leaves that row out. `Settle` proves SSIDs: a list
  whose answer was lost under the version that the device already runs (a
  passphrase edited during a delivery, or a list edited back while its successor
  is under delivery) is settled by the SSIDs of the list before it, and the edit
  stays undelivered. `unheard` names that case; without it `EchoedRows` fails in
  the run, and the proof shows that there is no other. The run has one fault, so no
  retry budget is spent in it and none is modelled. The id of a new WLAN is a digest
  of name and SSID written one after the other; here it is that of the pair, which
  keeps two WLANs apart whose concatenations are equal and the code refuses. Clearing the SSH password
  of a device that has gained the sha512 capability since the password was pushed
  ships the factory password. Editing a disabled WLAN mints a delivery of identical
  bytes. The reports of the run keep the radios and their capabilities; the proofs
  do not.
* **Process.** A server error releases the directory lock without waiting for the
  poller, the discovery loop is never waited for, and `Shutdown` gives up on a
  handler after 5 s; until the trace flush is over such a goroutine may save while
  the next process has the lock. `late` names them.
* **ClientLog.** `HistoryTrue` assumes that no save fails and nothing restarts: a
  failed save keeps the rows and drops their transitions, and a restart forgets a
  held disconnect. `HistoryAgrees` holds again from the client's next event. It
  also assumes that an access point waits for its answer before it reports again
  and that stays are long enough to be reported.

## 4. Fairness

* `Adoption!FairSpec`: weak fairness of the periodic inform, of each handler's
  steps, of saves and of delivery (goroutines run, the network delivers to a
  device that waits; losses are explicit and bounded). Strong fairness of a cycle
  whose backoff has elapsed: the backoff is at most `WlanRetryMax` (60 s) and
  informs keep coming, so retries are not for ever too early. No fairness for
  verbs, losses, faults or odd reports.
* `Store!FairSpec`: strong fairness of each goroutine's next step; a `sync.Mutex`
  hands itself to a starving waiter. Nothing obliges a call to begin.
* `ClientLog!FairSpec`: weak fairness of each access point's reports, each
  handler and the flush ticker (`Tracker.Run`).
* `Poller!FairSpec`: weak fairness of the poll; the ticker of `RunPoller` fires.
* `Discovery!FairSpec`: time passes, the device announces and informs, a datagram
  is received or lost, and no counter value is lost for ever (strong fairness of
  its receipt); the operator keeps clicking what is listed, and not every SSH
  session fails.
* `Provisioning!FairSpec`: infinitely many full informs whose answers arrive and
  for which a retry is due, stated with the parity bit `beat`.
* `Process!FairSpec`: `run()` goes on, a poll ends, and a `select` with two ready
  cases takes each of them sooner or later (strong fairness of `PollerReturns`).
  Nothing is assumed of handlers.

## 5. Proofs

Every theorem is for all values of the constants that the named assumptions of
its modules admit; none depends on the bounds of the runs.

`AdoptionProofs` (any number of handlers, any envelopes, clients, verbs, lanes):

* `InvariantHolds`: `IInv == TypeOK /\ KeyDiscipline /\ EpochsUsed` is inductive.
  `KeyDiscipline` speaks of memory *and* disk because a restart exchanges them;
  it needs the clause that a record with a delivery has a confirmed key, since
  otherwise a rotation could follow a settled delivery; `EpochsUsed` (no record
  has an epoch not yet handed out) makes a demotion change the epoch. The step
  proof has one case per action. Actions that change the record go through two
  lemmas, one for informs and one for verbs, from which the conjuncts follow.
* `TypeCorrect`, `KeyDisciplineHolds`, `ConfirmedKeyStandsHolds` follow.
* `ImplementsLifecycleHolds`: every step of `Adoption` is a step of `Lifecycle` or
  a stutter. Commits of an inform are Assign, Serve, Demote or nothing, verbs are
  Enrol, Forget, Lose or nothing, a save is Save, a restart is Crash. A rotation
  is an Assign only if its key is new, hence `KeysUsed`: no record holds a key not
  yet drawn. `LifeAssumption` says that the value for "no record" is not a life.
* `CommandsAtMostOnceHolds`, about `AdoptionHistory`. An arming is owed until the device has executed it.
  The invariant (`Balanced`) is that what is owed covers the flag in memory plus
  the answers under way that carry the command, and also the flag on disk plus
  the answers whose cycle is saved, which is what a restart leaves.
* `WatchdogOncePerVersionHolds`, likewise. `GapsMarked`: as long as the record's version is
  one for which the watchdog has armed, the record's marker stands for it; new
  versions are larger than all of these.

* What the device has of the record. `NextTold` says that every step is one of a
  few kinds (`Step`), named for what they may do to keys, cfgversions and content:
  a decoded inform that commits, one of the verbs, a save, a restart, the device
  that sends, gives up or takes an answer. The invariants below are kept by the
  kinds; no proof looks at the actions again.
  * `KInv` and `VersionsDrawn`: whatever has a key of the current incarnation got it
    from the one draw that made it, no two informs under way with different keys
    are both answers to one, and a cfgversion in use is older than the next.
  * `DeviceKeyKeptHolds`: `KeysKept` says that the device's key, and the one it is
    sent, is the newest of the record's two, or the older one while no factory-key
    inform is left that could push it out. The condition `FewStragglers` is about the
    informs under way, not about the record: it fails only if two of them that the
    device gave up on are still in the server when it waits for a third.
    `DeviceKeyKeptByTwo`: with at most two handlers it is true of every state.
  * `ConnectedContentHolds`: `CInv` says that a cfgversion identifies the content: the
    copies in memory and on disk, the answers under way and the device agree on
    intent and blocked set where they agree on the cfgversion, and a record that has
    no delivery yet (its cfgversion came with the key, without content) is not
    taken for one that has. The condition `OnReport` is about the answers that carry
    content, one by one. `ConnectedContentByDefault`: it is met by a controller
    started without `--allow-plaintext-inform` (the default, main.go:57) whose devices
    name their cfgversion in every inform.
  * `SettledWlansHolds`: `AInv` says of memory and disk that the device broadcasts the
    baseline, or, if it runs the record's cfgversion while an envelope is pending,
    that envelope. Its conditions, `OnTime` and `Visible`, are each necessary (Known
    limits).

`StoreProofs` (any goroutines and MACs):

* `TypeCorrect`.
* `SavesOrdered`: the snapshot a saver holds lies between file and memory and
  contains the saver's own mutation, because `saveMu` is held from before the
  snapshot until after the rename. `AckedDurableHolds` and `FileForwardHolds`
  follow.
* `CyclesSerialHolds`: no cycle on a device outside `Deletable` loses an update,
  with deletions of other devices and restarts. The invariant (`LockInv`) is that
  a resolved mutex number never belongs to two MACs, that on a device nobody
  deletes it is still that MAC's entry, and that two goroutines in such cycles
  hold different mutexes; a `Delete` can then neither unlock nor store what
  belongs to the cycle.

`HeartbeatProofs`: `TypeCorrect` and `ScheduleBoundedHolds`, from
`HeartbeatAssumption` alone. The arithmetic (a draw lies below its interval, the
fallback below the cap) is in lemmas on products and quotients.

`PollerProofs`: `TypeCorrect`; `SweepSoundHolds`; `CountsTrueHolds`. The last is
not inductive: a snapshot may show a transition that is counted after the record
has moved on. The invariant follows each MAC along what the poller saw last, what
the snapshot shows and what the record is: the counter plus the number of MACs
with a transition on the first leg plus those with one on the second is at most
the truth.

`DiscoveryProofs`: `TypeCorrect`; `NotesSavedHolds`; `WindowHoldsAlways`, with the
invariant that a MAC whose window is open is still in the map, with the counter
that was let through last, although the map is pruned. For `NotesSaved`, a step
either saves the image of what it leaves in memory (`SaveKeeps`), or leaves records
and notes as they were but for candidates that go (`UnsavedKeeps`); a restart
makes memory and file the same again.

`ClientLogProofs`: `TypeCorrect`; `HeldWhereCurrentHolds`; `EventsOrdered`, that
the events of a client stay ordered by time, though a flushed disconnect is
emitted into the past. The last is no property of a run: the binary searches of
`Emit` and `pruneLocked` rest on it. `Emit` and `Compact` count positions, and the
lemma that a downward closed set of positions is an initial segment gives what
they return.

* `HistoryAgreesHolds`. What a log tells is its last event that is not a change of
  radio (`Stands`), and the tracker's word is `cur`. An event emitted into the past
  would not be the last, so the invariant (`Calm`) is about the times of what is
  still under way: a connect is younger than everything told, any transition than
  what the same access point did before it, a held disconnect than everything told.
  It needs that an access point has one inform under way (`OneEach`) and that a
  connect under way comes from where the client really is (`Arrivals`), which is
  what `spent.fast = 0 /\ spent.losses = 0` gives; `torn` takes out the clients whose
  assignment no event tells since a restart or a compaction. That the fold of a log
  ends in what the log tells (`HistorySays`) is proved for every log: the function
  behind `FoldLeft` exists, by a least position without one, and its values along
  the positions carry the claim.

`ProcessProofs`: `TypeCorrect`; `WritersLockedHolds`; `NoLostSaveHolds`. The
invariant (`Staged`) says for each place in `run()` which workers may still
accept work, be inside a cycle or be given up on.

`ProvisioningProofs` (any bodies, any reports with finitely many radios and
interfaces of different names, any number of verbs and faults):

* `TypeCorrect`, with `TInv`: every list that is stored or rendered passed the
  validators (`Lists`), every report merged into the record is a whole one.
* `NoDeadVapsHolds`: from a row of key management back to the VAP it was rendered
  for (`RowOrigin`: each section has its keys), from the VAP to a WLAN of the list
  (`PlanVapsContent`), and from there to `ValidEap`.
* `WiringSoundHolds`: `InOrderListsAll` (sorting lists each member once, by
  counting) gives that the plan has one VAP for each radio and WLAN, numbered
  through; the SSIDs of a valid list differ; so do devices and ports. The bridge of
  a VAP and the ports of a bridge are then read from the rows.
* `HashCoversRows`: two valid lists that hash alike render alike, row by row
  (`Alike`, `PlansAlike`). Defaults are why this is not obvious: the hash takes
  ports, band and VLAN mode at their effective values, the radius profile only if it
  has a field and the accounting one only if it is on.
* `EchoedRowsHolds`: while the device runs the record's version (`InStep`), the
  record has the knobs and intents that the device's rows were rendered from, the
  cache has their password hash, and the list they came from is the one under
  delivery, or, if there is none, the confirmed one. A verb that changes a row
  mints, so it ends the premise; a push that arrives restores it. `HashCoversRows`
  gives the rows from the list without drift.

Left to TLC. Every invariant and every action property of the passing runs is stated by a
theorem;
those on `DeviceKeyKept`, `ConnectedContent` and `SettledWlans` have hypotheses about
the behaviour, because the code does not keep them without (section 3, Known limits).
What remains is every liveness property (`Converges`, `OpsComplete`, `HistoryTrue`,
`SilentLost`, `SeriesReturn`, `Onboarded`, `EditsReach`, `Stops`): fairness is out
of the prover's reach.

## 6. Not modelled

* **Codec, ciphers, crypt**: byte formats and algorithms. The models keep only
  which key decrypts and that a salted hash differs from another one.
* **Rows of system_cfg with literal values**, the radio rows that only repeat what
  the device reports (`backup_channel`, `rfscan`, `antenna`, `txpower_mode`), the spelling of a line, the SSH key
  parser, the diagnostic.
* **Admin routes that pass a verb on**, JSON, status codes, the token check and
  views; the **web console**, a client of those routes with state of its own in
  the browser.
* **Telemetry**: export of traces, no state that is read back.
* **The site-wide client view**, the cap on the number of events in the file, host
  names and byte counts of session rows; the values of gauges.
* **Flags, logging and the start of the client history** in the process wiring.

## 7. Plan

Done: the modules of section 2, the runs of section 3, the proofs of section 5.
Left: nothing of the plan. `SettledWlans` could be stated with the exact list of the
cases in which it fails, as `EchoedRows` has it with `unheard`.
