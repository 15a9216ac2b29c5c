--------------------------- MODULE MCProvisioning ---------------------------
(* Provisioning with small values, for TLC: an access point with a 2.4 and a  *)
(* 5 GHz radio and two wired ports, a home and a company network.             *)
EXTENDS Provisioning

Radio2 == [name |-> 1, band |-> "ng", uplink |-> FALSE, channel |-> 6,
           txpower |-> AutoPower, min |-> 6, max |-> 22]
Radio5 == [name |-> 2, band |-> "na", uplink |-> FALSE, channel |-> 0,
           txpower |-> 20, min |-> 0, max |-> 0]

TwoRadios ==
    [radios |-> {Radio2, Radio5}, ethTable |-> <<2>>, ifTable |-> {0}, uplink |-> 0,
     fwCaps |-> {"das"}, wifiCaps |-> {"bga"}, ledbar |-> TRUE]

\* A heartbeat that says nothing new, and one with another channel in use and
\* an empty ethernet_table.
Heartbeats ==
    {[ledbar |-> TRUE],
     [radios |-> {[Radio2 EXCEPT !.channel = 11], Radio5}, ethTable |-> << >>]}

Home == [name |-> "home", ssid |-> "home", security |-> "wpa-p", psk |-> "one",
         vlan |-> 1, enabled |-> TRUE, id |-> NoId, band |-> "both",
         servers |-> << >>, secret |-> "", vlanMode |-> "",
         acct |-> FALSE, acctServers |-> << >>, interim |-> FALSE, das |-> FALSE]
Corp == [Home EXCEPT !.name = "corp", !.ssid = "corp", !.security = "wpa-eap",
            !.psk = "", !.vlan = 20, !.band = "5g",
            !.servers = <<[ip |-> "radius", port |-> 0]>>, !.secret = "shared",
            !.acct = TRUE, !.acctServers = <<[ip |-> "radius", port |-> 0]>>, !.das = TRUE]

\* A new passphrase and a tag with WPA3, other accounting servers, no auth server.
SomeDrafts ==
    {Home, [Home EXCEPT !.psk = "two", !.security = "wpa3-p", !.vlan = 20, !.band = ""],
     [Corp EXCEPT !.acctServers = <<[ip |-> "other", port |-> 1813]>>],
     [Corp EXCEPT !.servers = << >>]}
BothNetworks == {<<Home, Corp>>}

SomePatches ==
    {[led |-> "off", brightness |-> 0, name |-> "attic", site |-> "hq", country |-> 276,
      password |-> "own"],
     [led |-> "default", brightness |-> 100, password |-> ""]}

SomeUpserts == {[channel |-> 0, txpower |-> 10]}
=============================================================================
