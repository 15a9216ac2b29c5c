------------------------------- MODULE Engine -------------------------------
(***************************************************************************)
(* The decision engine of the inform cycle, as operators on one device     *)
(* record: internal/server/adoption (engine.go, blockedsta.go,             *)
(* sessions.go), internal/wireless (delivery_state.go, vap_evidence.go,    *)
(* plan.go) and the record absorption of internal/store (trustpolicy.go).  *)
(* It has no variables: Adoption.tla runs these operators inside the       *)
(* store's read-modify-write cycle, one branch of the engine per action.   *)
(*                                                                         *)
(* Data abstraction:                                                       *)
(*  - keys and cfgversions are fresh naturals where the code draws random  *)
(*    hex strings; 0 is the factory default key, resp. the empty           *)
(*    cfgversion;                                                          *)
(*  - a WLAN envelope is the set of its enabled SSIDs, the set of its      *)
(*    planned VAPs <<ssid, radio>>, and a number for what no vap_table     *)
(*    shows (passphrases, VLANs, RADIUS); the sha256 of an envelope is the *)
(*    envelope itself (no collisions), SSIDs are distinct within one;      *)
(*  - a VAP is named by its <<ssid, radio>>, which PlanVaps maps one to    *)
(*    one onto the devnames "ath<N>" of one envelope;                      *)
(*  - the retry backoff compares clocks: whether it has elapsed is an      *)
(*    input of the decision ("due");                                       *)
(*  - everything the operator saves that is rendered into system_cfg but   *)
(*    is not a WLAN or the blocked set (LED, radio intent, SSH password,   *)
(*    country) is one save counter, "intent".                              *)
(***************************************************************************)
EXTENDS Integers, Sequences, FiniteSets

CONSTANTS
    Ssids, Radios,   \* names a WLAN broadcasts, radios of the access point
    Envelopes,       \* the WLAN envelopes an operator may save
    NoEnvelope,      \* an absent wlan_cfg_sha / wlan_cfg_pending_sha row
    Clients,         \* client MACs an operator may block
    NoBaseline,      \* an absent blocked_sta_sha row
    MaxAttempts      \* WlanMaxAttempts, 6 in the code

EmptyEnvelope == [ssids |-> {}, vaps |-> {}, secrets |-> 0]

ASSUME EnvelopeAssumption ==
    /\ Envelopes \subseteq
          [ssids : SUBSET Ssids, vaps : SUBSET (Ssids \X Radios), secrets : Nat]
    /\ EmptyEnvelope \in Envelopes
    /\ NoEnvelope \notin Envelopes
ASSUME BaselineAssumption == \A s \in SUBSET Clients : s # NoBaseline
ASSUME AttemptsAssumption == MaxAttempts \in Nat \ {0}

-----------------------------------------------------------------------------
(* Types                                                                    *)

DefaultKey == 0
NoKey == -1
Keys == Nat \ {DefaultKey}
NoVersion == 0
States == {"pending", "adopting", "adopted", "lost"}

\* The vap_table of one inform: absent, present, present with rows (known).
VapTables == [present : BOOLEAN, known : BOOLEAN, run : SUBSET (Ssids \X Radios)]

\* wireless.DeliveryState: the wlan_cfg_* rows of a record.
DeliveryStates ==
    [baseline   : Envelopes \cup {NoEnvelope},
     pending    : Envelopes \cup {NoEnvelope},
     offered    : Nat,
     attemptSha : Envelopes \cup {NoEnvelope},
     attempts   : Nat,
     status     : {"none", "pending", "confirmed", "exhausted"},
     misses     : Nat,
     vapMisses  : Nat,
     marker     : Nat]

\* store.Device, the rows the engine reads or writes. epoch is a history
\* field: it names the key assignment's incarnation (see Demoted).
Devices ==
    [state        : States,
     cfgVersion   : Nat,
     appliedCfg   : Nat,
     xAuthkey     : Keys \cup {NoKey},
     authkeys     : Seq(Keys),
     keyConfirmed : BOOLEAN,
     setdefault   : BOOLEAN,
     reboot       : BOOLEAN,
     cmd          : BOOLEAN,
     wlans        : Envelopes,
     blocked      : SUBSET Clients,
     blockedSent  : {NoBaseline} \cup SUBSET Clients,
     intent       : Nat,
     disconnected : BOOLEAN,
     delivery     : DeliveryStates,
     epoch        : Nat]

NoDelivery ==
    [baseline |-> NoEnvelope, pending |-> NoEnvelope, offered |-> NoVersion,
     attemptSha |-> NoEnvelope, attempts |-> 0, status |-> "none",
     misses |-> 0, vapMisses |-> 0, marker |-> NoVersion]

\* The record an upsert seeds and CreateDevice / AdoptPending make pending.
SeededDevice(epoch) ==
    [state |-> "pending", cfgVersion |-> NoVersion, appliedCfg |-> NoVersion,
     xAuthkey |-> NoKey, authkeys |-> << >>, keyConfirmed |-> FALSE,
     setdefault |-> FALSE, reboot |-> FALSE, cmd |-> FALSE,
     wlans |-> EmptyEnvelope, blocked |-> {}, blockedSent |-> NoBaseline,
     intent |-> 0, disconnected |-> FALSE, delivery |-> NoDelivery,
     epoch |-> epoch]

KeysOf(d) == {d.authkeys[i] : i \in DOMAIN d.authkeys}

-----------------------------------------------------------------------------
(* Record absorption                                                        *)

\* Device.Absorb and refreshClientSessions. The body's cfgversion becomes the
\* applied one unless it is empty; controller- and admin-owned rows keep the
\* record's value; a station table that drops a client arms the one-shot
\* disconnect event. The vap_table belongs to no trust class: it lives in the
\* body of the inform only.
Absorb(d, body) ==
    [d EXCEPT !.appliedCfg = IF body.cfg # NoVersion THEN body.cfg ELSE @,
              !.disconnected = @ \/ body.drop]

-----------------------------------------------------------------------------
(* Rows only the operator's verbs write                                     *)

AddBlockedClient(d, c) == [d EXCEPT !.blocked = @ \cup {c}]
RemoveBlockedClient(d, c) == [d EXCEPT !.blocked = @ \ {c}]

\* At most one task is armed; arming again replaces it.
ArmCmdTask(d) == [d EXCEPT !.cmd = TRUE]

-----------------------------------------------------------------------------
(* Key machinery                                                            *)

\* Mutant: the gate looks at the state only.
GateIgnoresConfirmation(d, key) ==
    key = DefaultKey /\ d.state # "pending" /\ d.state # "adopting"

\* The key-confirmation gate at the head of decideEncrypted.
DefaultKeyRejected(d, key) ==
    /\ key = DefaultKey
    /\ d.state # "pending"
    /\ d.state # "adopting" \/ d.keyConfirmed

\* Mutant: rotation replaces the key set.
ReplaceKeys(keys, key) == <<key>>

\* addKey and the newest-two cut of rotateKeys.
AddKey(keys, key) ==
    LET all == Append(keys, key)
    IN  IF Len(all) > 2 THEN SubSeq(all, Len(all) - 1, Len(all)) ELSE all

RotateKeys(d, key, version) ==
    [d EXCEPT !.xAuthkey = key,
              !.cfgVersion = version,
              !.authkeys = AddKey(@, key),
              !.state = "adopting"]

\* The key-confirmation write of Decide, against the working clone's keys.
Confirm(d, key) ==
    [d EXCEPT !.keyConfirmed = @ \/ key \in KeysOf(d)]

OnAssigned(d, key) == d.xAuthkey # NoKey /\ d.xAuthkey = key

-----------------------------------------------------------------------------
(* armedLifecycle                                                           *)

\* Mutant: the demotion forgets the confirmation.
DemotedStillConfirmed(d, epoch) ==
    [d EXCEPT !.state = "pending", !.xAuthkey = NoKey, !.cfgVersion = NoVersion,
              !.appliedCfg = NoVersion, !.authkeys = << >>,
              !.delivery = NoDelivery, !.disconnected = FALSE,
              !.setdefault = FALSE, !.reboot = FALSE, !.cmd = FALSE,
              !.epoch = epoch]

\* The armed setdefault: the record returns to the pending-candidate shape.
\* FactoryResetSweepKeys are the wlan_cfg_* rows and the session rows; the
\* operator's WLANs, blocked set, its baseline and intent survive.
Demoted(d, epoch) ==
    [d EXCEPT !.state = "pending", !.xAuthkey = NoKey, !.cfgVersion = NoVersion,
              !.appliedCfg = NoVersion, !.authkeys = << >>, !.keyConfirmed = FALSE,
              !.delivery = NoDelivery, !.disconnected = FALSE,
              !.setdefault = FALSE, !.reboot = FALSE, !.cmd = FALSE,
              !.epoch = epoch]

\* The armed reboot consumes its flag and both consecutive-miss counters.
Rebooted(d) ==
    [d EXCEPT !.reboot = FALSE,
              !.delivery.misses = 0, !.delivery.vapMisses = 0]

CmdConsumed(d) == [d EXCEPT !.cmd = FALSE]

Armed(d) == d.setdefault \/ d.reboot \/ d.cmd

-----------------------------------------------------------------------------
(* WLAN delivery state                                                      *)

\* DeliveryState.Settle's evidence: no RUN row carries a removed SSID and every
\* desired SSID runs on a planned radio (anywhere if nothing was placed). The
\* snapshot of the old WLANs that Offer keeps is the confirmed baseline.
Proven(s, table) ==
    LET old == IF s.baseline = NoEnvelope THEN {} ELSE s.baseline.ssids
    IN  /\ s.pending # NoEnvelope
        /\ table.present
        /\ \A r \in table.run : r[1] \notin old \ s.pending.ssids
        /\ \A w \in s.pending.ssids :
              \E r \in table.run :
                 r[1] = w /\ (r \in s.pending.vaps \/ s.pending.vaps = {})

\* Settle promotes the pending envelope and retires a marker that was armed
\* for another cfgversion.
Settle(s, table, version) ==
    IF ~Proven(s, table) THEN s
    ELSE [s EXCEPT !.baseline = s.pending,
                   !.pending = NoEnvelope,
                   !.offered = NoVersion,
                   !.status = "confirmed",
                   !.marker = IF @ # version THEN NoVersion ELSE @]

\* DeliveryState.Offer: one more attempt for the same envelope, a fresh budget
\* for another one.
Offer(s, cur, version) ==
    [s EXCEPT !.pending = cur,
              !.offered = version,
              !.attempts = IF s.attemptSha = cur THEN @ + 1 ELSE 1,
              !.attemptSha = cur,
              !.status = "pending"]

RetryDue(s, due) == s.attempts < MaxAttempts /\ due

\* RetryDue stamps the status when the budget is spent.
Spent(s) == IF s.attempts >= MaxAttempts THEN [s EXCEPT !.status = "exhausted"] ELSE s

\* NotRunningEvidence: only a table with rows speaks about the applied SSIDs.
NotRunningEvidence(s, table) ==
    IF ~table.known \/ s.baseline = NoEnvelope THEN "unknown"
    ELSE IF s.baseline.ssids = {} THEN "unknown"
    ELSE IF \A w \in s.baseline.ssids : \E r \in table.run : r[1] = w
         THEN "run" ELSE "miss"

MissingVaps(e, table) == e.vaps \ table.run

-----------------------------------------------------------------------------
(* Drift                                                                    *)

WlanDrift(d) == d.delivery.baseline # NoEnvelope /\ d.wlans # d.delivery.baseline

\* blockedStaDrift: a known baseline drifts when the set changed, an absent
\* one only when there is something to deliver.
BlockedDrift(d) ==
    IF d.blockedSent = NoBaseline THEN d.blocked # {} ELSE d.blocked # d.blockedSent

\* Mutant: a drifting blocked set is offered under the old cfgversion.
MintsForWlansOnly(d) == WlanDrift(d) /\ d.delivery.pending # d.wlans

\* Mutant: a drifting envelope is offered under the old cfgversion.
MintsForBlockedOnly(d) == BlockedDrift(d)

\* A drifting envelope mints once per pending operation, a drifting blocked
\* set on every decision.
MintsVersion(d) ==
    \/ WlanDrift(d) /\ d.delivery.pending # d.wlans
    \/ BlockedDrift(d)

\* The head of decideEncrypted after the armed lifecycle: settle, then mint.
Prepared(d, table, version) ==
    LET s == [d EXCEPT !.delivery = Settle(@, table, d.cfgVersion)]
    IN  IF MintsVersion(s) THEN [s EXCEPT !.cfgVersion = version] ELSE s

\* The pending gate: an unchanged operation waits for its retry unless the
\* blocked set or an operator's mint escapes it.
Held(d, due) ==
    /\ d.delivery.pending # NoEnvelope
    /\ ~BlockedDrift(d)
    /\ d.cfgVersion = d.delivery.offered
    /\ d.delivery.pending = d.wlans
    /\ ~RetryDue(d.delivery, due)

ContentDrift(d) ==
    d.delivery.pending # NoEnvelope \/ WlanDrift(d) \/ BlockedDrift(d)

\* assignedKeyFlow: full provisioning is an offer of the current envelope, the
\* blocked set is stamped as sent, a pending disconnect event is satisfied.
Provisioned(d, version) ==
    LET cfg == IF d.cfgVersion = NoVersion THEN version ELSE d.cfgVersion
    IN  [d EXCEPT !.cfgVersion = cfg,
                  !.state = "adopting",
                  !.delivery = Offer(@, d.wlans, cfg),
                  !.blockedSent = d.blocked,
                  !.disconnected = FALSE]

-----------------------------------------------------------------------------
(* The equality branch: the device echoes the record's cfgversion           *)

Echoed(d) == d.cfgVersion # NoVersion /\ d.appliedCfg = d.cfgVersion

ReconnectDue(d) == d.disconnected /\ d.blocked # {}

\* The SSID-level watchdog: two consecutive misses re-arm provisioning.
NotRunningTwice(d, table) ==
    /\ NotRunningEvidence(d.delivery, table) = "miss"
    /\ d.delivery.misses >= 1

\* The devname-level watchdog: two consecutive misses arm one reboot for this
\* cfgversion.
VapGap(d, table) ==
    /\ NotRunningEvidence(d.delivery, table) = "run"
    /\ MissingVaps(d.wlans, table) # {}
    /\ d.delivery.marker # d.cfgVersion

MaterializationDue(d, table) == VapGap(d, table) /\ d.delivery.vapMisses >= 1

\* Mutant: no marker for the cfgversion.
ArmedWithoutMarker(d) ==
    [d EXCEPT !.reboot = TRUE, !.delivery.misses = 0, !.delivery.vapMisses = 0]

MaterializationArmed(d) ==
    [d EXCEPT !.reboot = TRUE,
              !.delivery.misses = 0,
              !.delivery.vapMisses = 0,
              !.delivery.marker = d.cfgVersion]

\* The counters of an inform that ends in the connected noop.
Watched(d, table) ==
    LET ev == NotRunningEvidence(d.delivery, table)
        gap == VapGap(d, table)
        whole == ev = "run" /\ MissingVaps(d.wlans, table) = {}
    IN  [d.delivery EXCEPT
            !.misses = CASE ev = "miss" -> @ + 1 [] ev = "run" -> 0 [] OTHER -> @,
            !.vapMisses = IF gap THEN @ + 1 ELSE IF ev = "run" THEN 0 ELSE @,
            !.marker = IF whole THEN NoVersion ELSE @]

\* Mutant: a re-provisioned device is not promoted again.
ConnectedUnpromoted(d, table) ==
    [d EXCEPT !.state = IF d.delivery.attempts > 1 THEN @ ELSE "adopted",
              !.disconnected = FALSE,
              !.delivery = Watched(d, table)]

Connected(d, table) ==
    [d EXCEPT !.state = "adopted",
              !.disconnected = FALSE,
              !.delivery = Watched(d, table)]
=============================================================================
