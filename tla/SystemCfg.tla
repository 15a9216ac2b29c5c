------------------------------ MODULE SystemCfg ------------------------------
(***************************************************************************)
(* What a device is provisioned with: the WLAN validators of the admin     *)
(* API, the plan of VAPs, the drift hash of the WLAN list and the rows of  *)
(* the rendered system_cfg. Operators only, no variables.                  *)
(*                                                                         *)
(* A row is <<key, index, value>>. Rows whose value is a literal of the    *)
(* renderer are left out. A string is a token: "" is empty, "bad" one with *)
(* control characters or of a forbidden length, "short" a passphrase of    *)
(* fewer than eight characters.                                            *)
(***************************************************************************)
EXTENDS Integers, Sequences, FiniteSets, SequencesExt

CONSTANTS
    NoId,       \* a WLAN without an id
    Unset,      \* a value the record or the report does not have
    AutoPower   \* the transmit power "auto"

\* wireless.Wlan and its lists of radius servers.
ServerLists == Seq([ip : STRING, port : Nat])

Wlans == [name : STRING, ssid : STRING, security : STRING, psk : STRING,
          vlan : Int, enabled : BOOLEAN, band : STRING,
          id : {NoId} \cup (STRING \X STRING),
          servers : ServerLists, secret : STRING, vlanMode : STRING,
          acct : BOOLEAN, acctServers : ServerLists, interim : BOOLEAN, das : BOOLEAN]

-----------------------------------------------------------------------------
(* Validation                                                               *)

VlanIds == 1 .. 4094
PortNumbers == 0 .. 65535
Securities == {"open", "wpa-p", "wpa3-p", "wpa2-wpa3", "wpa-eap"}

HasRadiusFields(w) == w.servers # << >> \/ w.secret # "" \/ w.vlanMode # ""

HasAcctFields(w) == w.acct \/ w.acctServers # << >> \/ w.interim \/ w.das

\* An auth or accounting server list: four slots, every one with an address.
ValidServers(servers) ==
    /\ Len(servers) <= 4
    /\ \A i \in DOMAIN servers :
          servers[i].ip \notin {"", "bad"} /\ servers[i].port \in PortNumbers

\* Mutant: an empty server list passes.
ValidEapServerless(w) ==
    /\ ValidServers(w.servers)
    /\ w.secret \notin {"", "bad"}
    /\ w.vlanMode \in {"", "disabled", "optional", "required"}
    /\ ValidServers(w.acctServers)
    /\ w.interim \/ w.das => w.acct
    /\ w.psk # "short"

\* validateWlanEap.
ValidEap(w) ==
    /\ w.servers # << >> /\ ValidServers(w.servers)
    /\ w.secret \notin {"", "bad"}
    /\ w.vlanMode \in {"", "disabled", "optional", "required"}
    /\ ValidServers(w.acctServers)
    /\ w.interim \/ w.das => w.acct
    /\ w.psk # "short"

\* The fields that a security mode needs, and none that it excludes.
ValidForSecurity(w) ==
    /\ w.security = "wpa-eap" => ValidEap(w)
    /\ w.security # "wpa-eap" =>
          /\ ~HasRadiusFields(w) /\ ~HasAcctFields(w)
          /\ IF w.security = "open" THEN w.psk = "" ELSE w.psk \notin {"", "short"}

\* validateWlan.
ValidWlan(w) ==
    /\ w.band \in {"", "2g", "5g", "both"}
    /\ w.security \in Securities
    /\ "bad" \notin {w.ssid, w.name, w.psk} /\ w.ssid # ""
    /\ w.vlan \in VlanIds
    /\ ValidForSecurity(w)

\* NewWlanID: the digest of name and SSID stands for itself.
NewWlanID(w) == IF w.id # NoId THEN w.id ELSE <<w.name, w.ssid>>

\* validateDeviceWlans, on an envelope whose ids are filled in.
ValidWlans(wls) ==
    /\ \A i \in DOMAIN wls : wls[i].name \notin {"", "bad"} /\ ValidWlan(wls[i])
    /\ \A i, j \in DOMAIN wls : i # j =>
          /\ wls[i].name # wls[j].name
          /\ wls[i].ssid # wls[j].ssid
          /\ wls[i].id # wls[j].id

Normalized(wls) == [i \in DOMAIN wls |-> [wls[i] EXCEPT !.id = NewWlanID(wls[i])]]

-----------------------------------------------------------------------------
(* The provisioning plan                                                    *)

\* The members of a finite set in the order of a relation that is strict and
\* total on it: each comes after as many as are below it.
InOrder(S, below) ==
    [k \in 1 .. Cardinality(S) |->
        CHOOSE x \in S : Cardinality({y \in S : <<y, x>> \in below}) = k - 1]

Smaller(S) == {p \in S \X S : p[1] < p[2]}

\* StoredRadios: the radio_table rows that have a name, sorted by it.
StoredRadios(table) ==
    LET named == {r \in table : r.name # Unset}
    IN  InOrder(named, {p \in named \X named : p[1].name < p[2].name})

WrapVID(vlan) == IF vlan < 2 \/ vlan > 4094 THEN 0 ELSE vlan

\* Legacy spelling: an empty band is both.
BandOf(w) == IF w.band = "" THEN "both" ELSE w.band

\* The WLAN gets a VAP on the radio.
Placed(r, w) ==
    /\ r.band \in {"na", "ng"}
    /\ ~r.uplink
    /\ w.enabled
    /\ BandOf(w) = "2g" => r.band = "ng"
    /\ BandOf(w) = "5g" => r.band = "na"

\* PlanVaps: radios in name order, on each the WLANs in list order; the ath
\* devices are numbered through.
PlanVaps(radios, wls) ==
    LET slots == {s \in (DOMAIN radios) \X (DOMAIN wls) : Placed(radios[s[1]], wls[s[2]])}
        order == InOrder(slots, {p \in slots \X slots :
                                    \/ p[1][1] < p[2][1]
                                    \/ p[1][1] = p[2][1] /\ p[1][2] < p[2][2]})
    IN  [k \in DOMAIN order |->
            LET radio == order[k][1]
                wlan == wls[order[k][2]]
            IN  [wlan |-> wlan, radio |-> radio, phy |-> radios[radio].name,
                 ath |-> k - 1, vid |-> WrapVID(wlan.vlan)]]

\* vapPlacements: how many VAPs each SSID has on each radio.
Placements(vaps) ==
    [p \in {<<vaps[k].wlan.ssid, vaps[k].phy>> : k \in DOMAIN vaps} |->
        Cardinality({k \in DOMAIN vaps : <<vaps[k].wlan.ssid, vaps[k].phy>> = p})]

AuthPort == 1812
AcctPort == 1813

\* A port that is not set is the default one.
Ports(servers, default) ==
    [i \in DOMAIN servers |->
        [servers[i] EXCEPT !.port = IF @ = 0 THEN default ELSE @]]

\* Mutant: the accounting servers never join the hash.
HashedBareProfile(w) ==
    [own |-> <<w.name, w.ssid, w.security, w.psk, w.vlan, w.enabled, w.id, BandOf(w)>>,
     radius |-> IF ~HasRadiusFields(w) THEN << >>
                ELSE <<w.secret, IF w.vlanMode = "" THEN "disabled" ELSE w.vlanMode,
                       Ports(w.servers, AuthPort)>>,
     acct |-> << >>]

\* One WLAN of WlanListHash, at its effective values: the radius profile joins
\* when it has a field, the accounting profile when it is on.
Hashed(w) ==
    [own |-> <<w.name, w.ssid, w.security, w.psk, w.vlan, w.enabled, w.id, BandOf(w)>>,
     radius |-> IF ~HasRadiusFields(w) THEN << >>
                ELSE <<w.secret, IF w.vlanMode = "" THEN "disabled" ELSE w.vlanMode,
                       Ports(w.servers, AuthPort)>>,
     acct |-> IF ~w.acct THEN << >>
              ELSE <<Ports(w.acctServers, AcctPort), w.interim, w.das>>]

\* WlanListHash: the digest stands for itself.
WlanListHash(wls) == [i \in DOMAIN wls |-> Hashed(wls[i])]

-----------------------------------------------------------------------------
(* The wireless rows                                                        *)

Wpa3(w) == w.security \in {"wpa3-p", "wpa2-wpa3"}

Dash(cond, yes, no) == IF cond THEN yes ELSE no
When(cond, rows) == IF cond THEN rows ELSE {}

\* Mutant: the tag is taken from the WLAN as it was configured.
AaaBridgeRaw(v) == v.wlan.vlan

\* aaaBridge: br0 is 0, br0.<vid> is vid.
AaaBridge(v) == v.vid

\* A WPA-EAP VAP whose dynamic-authorization rows are rendered.
DasGate(v, report) == v.wlan.acct /\ v.wlan.das /\ "das" \in report.fwCaps

\* Slots of a server list: at most four, none for an empty address.
Slots(servers, default, secret) ==
    {<<i, servers[i].ip, Ports(servers, default)[i].port, secret>> :
        i \in {j \in DOMAIN servers : j <= 4 /\ servers[j].ip # ""}}

\* The WPA branch of emitAaaRows: wpa_mode, key management and secret; WPA3
\* overrides mode and management, its psk goes to SAE as well.
WpaRows(n, w) ==
    LET psk == Dash(w.psk = "", "fallback", w.psk)
    IN  {<<"aaa.wpa", n, Dash(Wpa3(w), 2, 3)>>,
         <<"aaa.wpa.key.mgmt", n, Dash(Wpa3(w), "SAE",
                                   Dash(w.security = "wpa-eap", "WPA-EAP", "WPA-PSK"))>>,
         <<"aaa.wpa.psk", n, psk>>}
        \cup When(Wpa3(w), {<<"aaa.wpa3.transition", n, w.security = "wpa2-wpa3">>})
        \cup When(w.security = "wpa3-p", {<<"aaa.sae.psk", n, psk>>})

DynamicVlanOf(mode) ==
    CASE mode = "optional" -> 1 [] mode = "required" -> 2 [] OTHER -> 0

\* The EAP branch: auth servers, accounting when it is on, das and dad behind
\* the device's capability, the dad port once per render.
EapRows(n, vaps, report) ==
    LET w == vaps[n].wlan
        acct == Slots(w.acctServers, AcctPort, w.secret)
        first == \A k \in 1 .. n - 1 :
                    vaps[k].wlan.security = "wpa-eap" => ~DasGate(vaps[k], report)
    IN  {<<"aaa.radius.auth", n, Slots(w.servers, AuthPort, w.secret)>>,
         <<"aaa.dynamic_vlan", n, DynamicVlanOf(w.vlanMode)>>}
        \cup When(w.acct, {<<"aaa.radius.acct", n, acct>>})
        \cup When(w.acct /\ w.interim, {<<"aaa.interim_update", n, 3600>>})
        \cup When(DasGate(vaps[n], report),
                 {<<"aaa.das.port", n, 3800 + n>>,
                  <<"aaa.dad.clients", n, {<<s[1], s[2], s[4]>> : s \in acct}>>,
                  <<"aaa.das.client", n, {<<s[2], s[4]>> : s \in
                       {s \in acct : \A t \in acct : s[1] <= t[1]}}>>}
                 \cup When(first, {<<"aaa.dad.port", n, 3799>>}))

\* emitAaaRows.
AaaRows(n, vaps, report) ==
    LET v == vaps[n]
        w == v.wlan
    IN  {<<"aaa.pmf.mode", n, Dash(Wpa3(w), Dash(w.security = "wpa3-p", 2, 1), 0)>>,
         <<"aaa.br.devname", n, AaaBridge(v)>>,
         <<"aaa.devname", n, v.ath>>,
         <<"aaa.ssid", n, w.ssid>>,
         <<"aaa.id", n, w.id>>,
         <<"aaa.status", n, w.security # "open" \/ "openHostapd" \in report.wifiCaps>>}
        \cup When(w.security # "open", WpaRows(n, w))
        \cup When(w.security = "wpa-eap", EapRows(n, vaps, report))

\* emitWirelessRows.
WirelessRows(n, v, report) ==
    {<<"wireless.devname", n, v.ath>>,
     <<"wireless.id", n, v.wlan.id>>,
     <<"wireless.authmode", n, Dash(v.wlan.security = "open", 0, 1)>>,
     <<"wireless.ssid", n, v.wlan.ssid>>,
     <<"wireless.parent", n, v.phy>>}
    \cup When("bga" \in report.wifiCaps, {<<"wireless.bga_filter", n, TRUE>>})

IntentOr(intent, echo) == Dash(intent # Unset, intent, echo)

\* The radio.<n> rows: the intent, else what the device reported; then the
\* devices of the VAPs on it, the second and later ones as virtual rows.
RadioRows(n, radios, vaps, intents, country) ==
    LET r == radios[n]
        own == {vaps[k].ath : k \in {j \in DOMAIN vaps : vaps[j].radio = n}}
        i == IF r.name \in DOMAIN intents THEN intents[r.name]
             ELSE [channel |-> Unset, txpower |-> Unset]
    IN  {<<"radio.phyname", n, r.name>>,
         <<"radio.countrycode", n, country>>,
         <<"radio.channel", n, IntentOr(i.channel, r.channel)>>,
         <<"radio.ieee_mode", n, Dash(r.band = "na", "11naht40", "11nght20")>>,
         <<"radio.txpower", n, IntentOr(i.txpower, r.txpower)>>,
         <<"radio.devnames", n, InOrder(own, Smaller(own))>>}

-----------------------------------------------------------------------------
(* VLANs, bridges, netconf                                                  *)

\* ethPortNames: the ports ethernet_table counts (an entry without a number is
\* one, one entry at most 8, all of them at most 64), else the eth interfaces
\* of if_table, else the uplink, else eth0.
EthPorts(report) ==
    LET count(e) == IF e = 0 THEN 1 ELSE IF e > 8 THEN 8 ELSE e
        total == Cardinality({p \in (DOMAIN report.ethTable) \X (1 .. 8) :
                                 p[2] <= count(report.ethTable[p[1]])})
    IN  IF report.ethTable # << >>
        THEN [k \in 1 .. (IF total > 64 THEN 64 ELSE total) |-> k - 1]
        ELSE IF report.ifTable # {}
        THEN InOrder(report.ifTable, Smaller(report.ifTable))
        ELSE <<IF report.uplink = Unset THEN 0 ELSE report.uplink>>

Vids(vaps) == {vaps[k].vid : k \in DOMAIN vaps} \ {0}

\* The ports of br0 (vid 0) and of br0.<vid>: the wired ports or their tagged
\* sub-interfaces, and the VAPs with that tag.
BridgePorts(vid, vaps, eth) ==
    {<<"eth", eth[k], vid>> : k \in DOMAIN eth}
        \cup {<<"ath", vaps[k].ath, 0>> : k \in {j \in DOMAIN vaps : vaps[j].vid = vid}}

\* emitNetconfSection: an interface row each for the management bridge, the
\* wired ports, one slot per radio, and the tagged bridges.
NetconfRows(report, vids) ==
    LET eth == EthPorts(report)
    IN  {<<"netconf.devname", "br0", 0>>}
        \cup {<<"netconf.devname", "eth", eth[k]>> : k \in DOMAIN eth}
        \cup {<<"netconf.devname", "ath", k - 1>> : k \in DOMAIN StoredRadios(report.radios)}
        \cup {<<"netconf.devname", "br0.", vid>> : vid \in vids}

\* emitVlanBlocks.
VlanRows(report, vaps) ==
    LET eth == EthPorts(report)
    IN  {<<"vlan", vid, {eth[k] : k \in DOMAIN eth}>> : vid \in Vids(vaps)}
        \cup {<<"bridge", vid, BridgePorts(vid, vaps, eth)>> : vid \in Vids(vaps) \cup {0}}
        \cup NetconfRows(report, Vids(vaps))

\* emitWirelessCfg, from the plan; without radios only the netconf rows.
EmitWirelessCfg(report, wls, intents, country) ==
    LET radios == StoredRadios(report.radios)
        vaps == PlanVaps(radios, wls)
    IN  IF radios = << >> THEN {<<"radio.status", 0, FALSE>>} \cup NetconfRows(report, {})
        ELSE {<<"radio.status", 0, TRUE>>}
             \cup (UNION {RadioRows(n, radios, vaps, intents, country) : n \in DOMAIN radios})
             \cup (UNION {AaaRows(n, vaps, report) \cup WirelessRows(n, vaps[n], report) :
                             n \in DOMAIN vaps})
             \cup VlanRows(report, vaps)

-----------------------------------------------------------------------------
(* The rest of system_cfg                                                   *)

\* decodeLedColor: what cannot be decoded, and nothing, is blue.
DecodeLedColor(color) == Dash(color \in {"", "undecodable"}, "blue", color)

\* emitLedBar; the site default is on, and no verb disables a device.
LedRows(knobs, report) ==
    LET on == knobs.led # "off"
        b == IF knobs.brightness = Unset THEN 100 ELSE knobs.brightness
    IN  IF ~report.ledbar THEN {}
        ELSE {<<"ledbar.status", 0, on>>}
        \cup IF on THEN {<<"ledbar.brightness", 0, (255 * b) \div 100>>,
                         <<"ledbar.color", 0, DecodeLedColor(knobs.color)>>}
             ELSE {}

Family(report) == IF "sha512" \in report.fwCaps THEN "sha512" ELSE "md5"

\* No cached crypt string.
NoHash == [family |-> "none"]

Crypt(password, report, salt) ==
    [password |-> password, family |-> Family(report), salt |-> salt]

\* usersPasswordHash: the cached crypt of the device's family if it is the
\* password's, or if no password is set; else a fresh one.
UsersPasswordHash(knobs, report, cache, salt) ==
    LET cached == cache[Family(report)]
    IN  IF knobs.password = ""
        THEN IF cached # NoHash THEN cached ELSE Crypt("ubnt", report, salt)
        ELSE IF cached # NoHash /\ cached.password = knobs.password THEN cached
        ELSE Crypt(knobs.password, report, salt)

\* The render made a fresh hash.
Fresh(knobs, report, cache, salt) ==
    UsersPasswordHash(knobs, report, cache, salt) # cache[Family(report)]

\* The credential deltas: a fresh hash goes to the cache of its family.
Cached(knobs, report, cache, salt) ==
    [cache EXCEPT ![Family(report)] = UsersPasswordHash(knobs, report, cache, salt)]

SiteRef(knobs) == Dash(knobs.site = "", "default", knobs.site)

Country(knobs) == Dash(knobs.country = 0, 840, knobs.country)

\* RenderWithPlan.
RenderWithPlan(knobs, intents, wls, report, cache, salt) ==
    {<<"unifi.siteid", 0, SiteRef(knobs)>>,
     <<"users.password", 0, UsersPasswordHash(knobs, report, cache, salt)>>,
     <<"connectivity.uplink_eth", 0, EthPorts(report)[1]>>,
     <<"connectivity.uplink_wds", 0, Len(StoredRadios(report.radios)) - 1>>,
     <<"sshd.auth.keys", 0, knobs.keys>>}
    \cup LedRows(knobs, report)
    \cup EmitWirelessCfg(report, wls, intents, Country(knobs))
=============================================================================
