----------------------------- MODULE MCWireless -----------------------------
(* Two radios and the commands for the runs of Wireless.                   *)
EXTENDS Wireless, TLC

Symmetry == Permutations(Procs)

Iface(name, guest) == [name |-> name, guest |-> guest]
SomeCaps ==
  [radio0 |-> [band |-> "2G", ifaces |-> <<Iface("wlan0", FALSE)>>, channels |-> {1, 6},
               hwmodes |-> {"g", "n"}, widths |-> [g |-> 20, n |-> 40], auto |-> TRUE,
               encryptions |-> {"none", "psk2", "sae"}],
   radio1 |-> [band |-> "5G", ifaces |-> <<Iface("wlan1", FALSE), Iface("guest1", TRUE)>>,
               channels |-> {36}, hwmodes |-> {"ac", "n"}, widths |-> [ac |-> 80, n |-> 40],
               auto |-> FALSE, encryptions |-> {"none", "psk2"}]]

AnIface == [ssid |-> "home", key |-> 8, encryption |-> "psk2", hidden |-> FALSE, enabled |-> TRUE]
AnOpenIface == [AnIface EXCEPT !.key = 0, !.encryption = "none"]
SomeIfaces == [wlan0 |-> AnIface, wlan1 |-> AnIface, guest1 |-> AnOpenIface]
SomeRadios ==
  [radio0 |-> [channel |-> 1, htmode |-> 0, hwmode |-> "g", txpower |-> "Max"],
   radio1 |-> [channel |-> 36, htmode |-> 80, hwmode |-> "ac", txpower |-> "Max"]]

Same == [x \in {} |-> 0]
WiFi(band, guest, changes, dry, yes) ==
  [kind |-> "set", band |-> band, guest |-> guest, at |-> NoTarget, iface |-> changes,
   radio |-> Same, dry |-> dry, yes |-> yes]
Radio(band, changes, dry) ==
  [WiFi(band, FALSE, Same, dry, TRUE) EXCEPT !.radio = changes]
Named(device, iface, ic, rc, yes) ==
  [WiFi("", FALSE, ic, FALSE, yes) EXCEPT !.at = [device |-> device, iface |-> iface], !.radio = rc]
Library(device, iface, ic, rc) == [Named(device, iface, ic, rc, TRUE) EXCEPT !.kind = "library"]

SomeCommands ==
  {WiFi("5G", TRUE, [ssid |-> "lab"], FALSE, FALSE), WiFi("2G", TRUE, [ssid |-> "lab"], FALSE, TRUE),
   WiFi("5G", FALSE, [encryption |-> "sae"], TRUE, TRUE),
   Radio("2G", [channel |-> 36], FALSE), Radio("5G", [hwmode |-> "n"], FALSE),
   Radio("6G", [channel |-> 0], FALSE),
   Named("radio1", "guest1", [key |-> 63, hidden |-> TRUE], [channel |-> 0, txpower |-> "Low"], FALSE),
   Named("radio1", "guest1", [key |-> 64], [htmode |-> 40], TRUE),
   Named("radio0", "wlan9", [enabled |-> FALSE], Same, TRUE),
   Library("radio1", "guest1", [ssid |-> "iot", encryption |-> "psk2"], Same),
   Library("radio0", "wlan0", Same, [htmode |-> 40]),
   Library("radio0", "wlan0", Same, [channel |-> 6])}
=============================================================================
