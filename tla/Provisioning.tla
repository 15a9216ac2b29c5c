---------------------------- MODULE Provisioning ----------------------------
(***************************************************************************)
(* Operator intent on its way to one adopted device: the verbs that edit   *)
(* the record, the inform that decides whether the device must be pushed a *)
(* configuration, and the rows the device then runs (SystemCfg).           *)
(*                                                                         *)
(* Each verb and each inform is one read-modify-write cycle of the store,  *)
(* hence one step. The device is on its own key, nothing is armed, and it  *)
(* runs every VAP of its rows; Adoption has the keys, the armed commands   *)
(* and the VAPs that do not come up.                                       *)
(***************************************************************************)
EXTENDS SystemCfg

CONSTANTS
    NoList,         \* no WLAN list
    FirstReport,    \* what the device reported when it was adopted
    Informs,        \* what an inform may report, a partial report each
    Patches,        \* bodies of PATCH: some knobs and their new values
    Drafts,         \* bodies of POST and PUT of one WLAN
    Envelopes,      \* bodies of PUT of the WLAN list
    Upserts,        \* bodies of PUT of a radio's intent
    MaxOps,         \* bound: operator verbs
    MaxFaults       \* bound: informs whose answer is lost or without a vap_table

ASSUME ListAssumption == NoList \notin Seq(Wlans)
ASSUME BodyAssumption == Drafts \subseteq Wlans /\ Envelopes \subseteq Seq(Wlans)

\* A report, in full or in part. The interfaces of a device have different names.
ReportFields == {"radios", "ethTable", "ifTable", "uplink", "fwCaps", "wifiCaps", "ledbar"}

Report(in) ==
    /\ "radios" \in DOMAIN in =>
          /\ IsFiniteSet(in.radios)
          /\ \A r \in in.radios : r.name \in Nat \cup {Unset}
          /\ \A r, s \in in.radios : r.name = s.name => r = s \/ r.name = Unset
    /\ "ethTable" \in DOMAIN in => in.ethTable \in Seq(Nat)
    /\ "ifTable" \in DOMAIN in => IsFiniteSet(in.ifTable) /\ in.ifTable \subseteq Nat

ASSUME ReportAssumption ==
    /\ DOMAIN FirstReport = ReportFields
    /\ \A in \in Informs \cup {FirstReport} : Report(in)
ASSUME ProvisioningBoundAssumption == MaxOps \in Nat /\ MaxFaults \in Nat

VARIABLES
    rec,        \* the record
    dev,        \* the device: its version, and what its rows were rendered from
    salts,      \* fresh salts drawn
    beat,       \* history: parity of the full informs whose answer arrived
    unheard,    \* history: the last push was lost, and it had another WLAN list
                \* under the very version that the device runs
    ops, faults \* verbs and faults so far

vars == <<rec, dev, salts, beat, unheard, ops, faults>>

\* No delivery under way; a device that was never provisioned.
NoOffer == [wlans |-> NoList, placements |-> << >>, offered |-> 0]
NoConfig == [wlans |-> NoList]

NoKnobs ==
    [name |-> "", site |-> "", led |-> "", brightness |-> Unset, color |-> "",
     password |-> "", country |-> 0, keys |-> << >>]

-----------------------------------------------------------------------------
(* saveIntent: an effective change mints a version; a refused one is no     *)
(* step.                                                                    *)

Save(r, effective) ==
    /\ ops < MaxOps
    /\ ops' = ops + 1
    /\ rec' = IF effective THEN [r EXCEPT !.version = @ + 1] ELSE r
    /\ UNCHANGED <<dev, salts, beat, unheard, faults>>

\* The fences of PatchDevice, for the knobs the patch names.
ValidPatch(p) ==
    LET named(k, ok(_)) == k \in DOMAIN p => ok(p[k])
    IN  /\ named("name", LAMBDA v : v # "bad")
        /\ named("site", LAMBDA v : v # "bad")
        /\ named("led", LAMBDA v : v \in {"default", "on", "off"})
        /\ named("brightness", LAMBDA v : v \in 0 .. 100)
        /\ named("country", LAMBDA v : v \in 0 .. 999)
        /\ named("keys", LAMBDA v : "bad" \notin {v[i] : i \in DOMAIN v})

\* The PATCH route has the same fences, and does not clear the site.
PatchRoute(p) == ValidPatch(p) /\ ("site" \in DOMAIN p => p.site # "")

\* Mutant: the explicit clears are stored as they came.
StoredVerbatim(k, v) == v

\* "default" and 100 are how a knob is cleared.
Stored(k, v) ==
    CASE k = "led" /\ v = "default" -> ""
      [] k = "brightness" /\ v = 100 -> Unset
      [] OTHER -> v

\* The knobs whose change is effective.
Provisioned == {"led", "brightness", "color", "password", "country", "keys"}

PatchDevice(p) ==
    LET knobs == [k \in DOMAIN rec.knobs |->
                     IF k \in DOMAIN p THEN Stored(k, p[k]) ELSE rec.knobs[k]]
    IN  /\ PatchRoute(p) /\ ValidPatch(p)
        /\ Save([rec EXCEPT !.knobs = knobs],
                \E k \in Provisioned : knobs[k] # rec.knobs[k])

ValidChannel(r, channel) ==
    \/ channel = Unset
    \/ r.band = "ng" /\ channel \in 0 .. 14
    \/ r.band = "na" /\ channel \in {0} \cup 36 .. 165

\* "auto", or within the bounds the radio reported, if it reported any.
ValidTxpower(r, txpower) ==
    \/ txpower = Unset
    \/ txpower = AutoPower /\ r.band \in {"ng", "na"}
    \/ /\ txpower \notin {Unset, AutoPower} /\ r.band \in {"ng", "na"}
       /\ r.min # 0 \/ r.max # 0
       /\ txpower \in r.min .. r.max

NoIntent == [channel |-> Unset, txpower |-> Unset]

\* setRadioIntentExtra: the entry is replaced as a whole, an empty one removed.
SetRadioIntent(intents, name, up) ==
    LET names == IF up = NoIntent THEN DOMAIN intents \ {name} ELSE DOMAIN intents \cup {name}
    IN  [n \in names |-> IF n = name THEN up ELSE intents[n]]

\* putRadioIntent: the radio is one the device reports.
PutRadioIntent(name, up) ==
    LET next == SetRadioIntent(rec.intents, name, up)
    IN  /\ \E r \in rec.report.radios :
              r.name = name /\ ValidChannel(r, up.channel) /\ ValidTxpower(r, up.txpower)
        /\ Save([rec EXCEPT !.intents = next], next # rec.intents)

\* DeleteDeviceRadioIntent.
DeleteRadioIntent(name) == PutRadioIntent(name, NoIntent)

\* persistDeviceWLANs; the drift hash is what delivers it, nothing is minted.
PersistDeviceWlans(wls) ==
    LET normal == Normalized(wls)
    IN  ValidWlans(normal) /\ Save([rec EXCEPT !.wlans = normal], FALSE)

\* PutDeviceWireless behind its route, which validates the WLANs one by one.
PutDeviceWireless(env) ==
    /\ \A i \in DOMAIN env : ValidWlan(env[i])
    /\ PersistDeviceWlans(env)

\* The POST and PUT routes of one WLAN.
WlanRoute(w) == w.name \notin {"", "bad"} /\ ValidWlan(w)

CreateDeviceWlan(w) == WlanRoute(w) /\ PersistDeviceWlans(Append(rec.wlans, w))

\* The WLAN keeps the id it was created with.
UpdateDeviceWlan(i, w) ==
    /\ WlanRoute(w)
    /\ rec.wlans[i].name = w.name
    /\ PersistDeviceWlans([rec.wlans EXCEPT ![i] = [w EXCEPT !.id = rec.wlans[i].id]])

DeleteDeviceWlan(i) == PersistDeviceWlans(RemoveAt(rec.wlans, i))

-----------------------------------------------------------------------------
(* An inform                                                                *)

\* What an inform does not mention is kept.
Absorb(report, in) == [f \in DOMAIN report |-> IF f \in DOMAIN in THEN in[f] ELSE report[f]]

\* The rows rendered from c: a record's content, a report, a salt to draw.
RowsOf(c) == RenderWithPlan(c.knobs, c.intents, c.wlans, c.report, c.cache, c.salt)

Plan(c) == PlanVaps(StoredRadios(c.report.radios), c.wlans)

\* The vap_table of a device that runs its rows: <<SSID, radio>> of each VAP.
RunningVaps == IF dev.config = NoConfig THEN {} ELSE DOMAIN Placements(Plan(dev.config))

EnabledSsids(wls) == {wls[i].ssid : i \in {j \in DOMAIN wls : wls[j].enabled}}

\* Settle's proof: every enabled SSID of the offer runs on a radio it was
\* placed on, and none that the offer removed still runs.
Proven(r) ==
    LET placed == DOMAIN r.pending.placements
        wanted == EnabledSsids(r.pending.wlans)
        removed == IF r.applied = NoList THEN {} ELSE EnabledSsids(r.applied) \ wanted
        running == RunningVaps
    IN  /\ \A v \in running : v[1] \notin removed
        /\ \A s \in wanted : \E v \in running : v[1] = s /\ (placed = {} \/ v \in placed)

Settle(r, table) ==
    IF r.pending # NoOffer /\ table /\ Proven(r)
    THEN [r EXCEPT !.applied = r.pending.wlans, !.pending = NoOffer]
    ELSE r

WlanDrift(r) == r.applied # NoList /\ WlanListHash(r.applied) # WlanListHash(r.wlans)

SameOffer(r) ==
    r.pending # NoOffer /\ WlanListHash(r.pending.wlans) = WlanListHash(r.wlans)

\* A drifted list that is not the one under delivery gets a version.
MintForDrift(r) ==
    IF WlanDrift(r) /\ ~SameOffer(r) THEN [r EXCEPT !.version = @ + 1] ELSE r

\* The record when the inform reaches the choice of an answer.
Worked(in, table) ==
    MintForDrift(Settle([rec EXCEPT !.report = Absorb(@, in)], table))

\* Mutant: an offer is made once, no retry.
HeldForGood(r, due) == SameOffer(r) /\ r.version = r.pending.offered

\* The offer under way is this one, nothing was minted since, and its retry is
\* not due.
Held(r, due) == SameOffer(r) /\ r.version = r.pending.offered /\ ~due

Pushes(r, due) ==
    /\ ~Held(r, due)
    /\ r.pending # NoOffer \/ WlanDrift(r) \/ r.version # dev.version

\* assignedKeyFlow: Offer's bookkeeping and the credential deltas.
Offered(r) ==
    [r EXCEPT
        !.cache = Cached(r.knobs, r.report, r.cache, salts),
        !.pending = [wlans |-> r.wlans, placements |-> Placements(Plan(r)),
                     offered |-> r.version]]

\* What a render of r reads.
Config(r, report) ==
    [knobs |-> r.knobs, intents |-> r.intents, wlans |-> r.wlans,
     report |-> report, cache |-> r.cache, salt |-> salts]

DrawSalt(r) ==
    salts' = IF Fresh(r.knobs, r.report, r.cache, salts) THEN salts + 1 ELSE salts

Beats(full) == beat' = IF full THEN 1 - beat ELSE beat
SparseFault(table) == faults' = IF table THEN faults ELSE faults + 1

\* The answer carries system_cfg, and the device applies it.
InformPushed(in, table, due) ==
    \E r \in {Worked(in, table)} :
        /\ Pushes(r, due)
        /\ rec' = Offered(r)
        /\ dev' = [version |-> r.version, config |-> Config(r, r.report)]
        /\ DrawSalt(r)
        /\ SparseFault(table)
        /\ Beats(table /\ due)
        /\ unheard' = FALSE
        /\ UNCHANGED ops

\* The answer is lost after the record was saved.
InformLost(in, table, due) ==
    /\ faults < MaxFaults
    /\ faults' = faults + 1
    /\ \E r \in {Worked(in, table)} :
          /\ Pushes(r, due)
          /\ rec' = Offered(r)
          /\ DrawSalt(r)
          /\ unheard' = (r.version = dev.version /\ r.wlans # dev.config.wlans)
    /\ UNCHANGED <<dev, beat, ops>>

\* A noop: the offer is held back, or the device echoes the version; without a
\* confirmed list the version is minted away so that the next inform pushes.
InformNoop(in, table, due) ==
    \E r \in {Worked(in, table)} :
        /\ ~Pushes(r, due)
        /\ rec' = IF ~Held(r, due) /\ r.applied = NoList
                  THEN [r EXCEPT !.version = @ + 1] ELSE r
        /\ SparseFault(table)
        /\ Beats(table /\ due)
        /\ UNCHANGED <<dev, salts, unheard, ops>>

-----------------------------------------------------------------------------

\* After the adoption push: the device has its key and a version, no rows yet.
Init ==
    /\ rec = [knobs |-> NoKnobs, intents |-> [n \in {} |-> 0], wlans |-> << >>,
              report |-> FirstReport, cache |-> [sha512 |-> NoHash, md5 |-> NoHash],
              version |-> 1, applied |-> NoList, pending |-> NoOffer]
    /\ dev = [version |-> 1, config |-> NoConfig]
    /\ beat = 0 /\ unheard = FALSE
    /\ salts = 0 /\ ops = 0 /\ faults = 0

Operator ==
    \/ \E p \in Patches : PatchDevice(p)
    \/ \E r \in rec.report.radios : \E up \in Upserts : PutRadioIntent(r.name, up)
    \/ \E r \in rec.report.radios : DeleteRadioIntent(r.name)
    \/ \E env \in Envelopes : PutDeviceWireless(env)
    \/ \E w \in Drafts : CreateDeviceWlan(w)
    \/ \E w \in Drafts, i \in DOMAIN rec.wlans : UpdateDeviceWlan(i, w)
    \/ \E i \in DOMAIN rec.wlans : DeleteDeviceWlan(i)

Inform(in, table, due) ==
    /\ table \/ faults < MaxFaults
    /\ \/ InformPushed(in, table, due)
       \/ InformLost(in, table, due)
       \/ InformNoop(in, table, due)

Next ==
    \/ Operator
    \/ \E in \in Informs, table, due \in BOOLEAN : Inform(in, table, due)

Spec == Init /\ [][Next]_vars

\* The device informs on its own clock, the retry of an offer falls due and a
\* lost answer is the exception: a full inform whose answer arrives comes again
\* and again.
FairSpec == Spec /\ []<>(beat = 0) /\ []<>(beat = 1)

-----------------------------------------------------------------------------
(* Properties                                                               *)

\* Stored knobs are in their canonical spelling, a stored WLAN list satisfies
\* its validators and the versions are ordered.
TypeOK ==
    /\ rec.knobs.led \in {"", "on", "off"}
    /\ rec.knobs.brightness = Unset \/ rec.knobs.brightness \in 0 .. 99
    /\ rec.knobs.country \in 0 .. 999
    /\ ValidWlans(rec.wlans)
    /\ \A n \in DOMAIN rec.intents : rec.intents[n] # NoIntent
    /\ 1 <= dev.version /\ dev.version <= rec.version
    /\ beat \in {0, 1} /\ unheard \in BOOLEAN
    /\ salts \in Nat /\ ops \in 0 .. MaxOps /\ faults \in 0 .. MaxFaults

\* The record considers the device up to date.
UpToDate ==
    /\ dev.version = rec.version
    /\ rec.pending = NoOffer
    /\ rec.applied # NoList /\ ~WlanDrift(rec)

DevRows == IF dev.config = NoConfig THEN {} ELSE RowsOf(dev.config)

\* The rows that a mint delivers; the site id is not among them.
Delivered(rows) == {row \in rows : row[1] # "unifi.siteid"}

\* The device runs what the record stands for, given what it reported then.
InPlace ==
    /\ dev.config # NoConfig
    /\ Delivered(DevRows) = Delivered(RowsOf(Config(rec, dev.config.report)))

\* EchoedRows: when the device echoes the record's version, nothing is under
\* delivery and no list has drifted, so that informs are answered with noops, the
\* device runs exactly the rows that the record stands for but for the site id,
\* the password hash byte for byte. A verb that changes a row without a mint, a
\* field of a WLAN that the drift hash forgets, a hash salted anew on every render
\* would all break it. The one way around it that the code leaves is a list that is
\* lost under the version the device runs: Settle takes the SSIDs of the list
\* before for its own.
EchoedRows == UpToDate /\ ~unheard => InPlace

\* EditsReach: no edit is stranded. Once the operator leaves the record alone it
\* comes to consider the device up to date, a lost answer or a sparse inform
\* notwithstanding, and by EchoedRows the device then runs what it says, unless
\* the last list was lost unheard.
EditsReach == <>[]UpToDate

Section(rows, key) == {row \in rows : row[1] = key}
Value(rows, key, n) == (CHOOSE row \in Section(rows, key) : row[2] = n)[3]
VapSlots(rows) == {row[2] : row \in Section(rows, "aaa.ssid")}

\* WiringSound: the sections of the pushed configuration agree: a VAP is in exactly one
\* bridge, the one its aaa row names; a tagged bridge has a tagged
\* sub-interface of every wired port; no two VAPs share a device, a dynamic
\* authorization port, or an SSID on one radio.
WiringSound ==
    LET rows == DevRows
        bridges == Section(rows, "bridge")
        unique(key) == \A x, y \in Section(rows, key) : x # y => x[3] # y[3]
        place(n) == <<Value(rows, "wireless.ssid", n), Value(rows, "wireless.parent", n)>>
    IN  /\ \A n \in VapSlots(rows) :
              LET port == <<"ath", Value(rows, "aaa.devname", n), 0>>
              IN  {b[2] : b \in {x \in bridges : port \in x[3]}}
                    = {Value(rows, "aaa.br.devname", n)}
        /\ \A b \in bridges : b[2] # 0 =>
              LET ports == {p[2] : p \in {x \in b[3] : x[1] = "eth"}}
              IN  ports # {} /\ <<"vlan", b[2], ports>> \in rows
        /\ unique("aaa.devname") /\ unique("aaa.das.port")
        /\ Cardinality(Section(rows, "aaa.dad.port")) <= 1
        /\ \A m, n \in VapSlots(rows) : m # n => place(m) # place(n)

\* NoDeadVaps: a WPA-EAP VAP that reaches a device can authenticate: it has an auth server
\* with a secret. The renderer's alert for one that has none is unreachable
\* through the validators, whatever sequence of verbs built the list.
NoDeadVaps ==
    LET rows == DevRows
    IN  \A n \in {x \in VapSlots(rows) : <<"aaa.wpa.key.mgmt", x, "WPA-EAP">> \in rows} :
           LET auth == Value(rows, "aaa.radius.auth", n)
           IN  auth # {} /\ \A s \in auth : s[4] # ""
=============================================================================
