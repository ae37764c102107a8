------------------------------ MODULE Wireless ------------------------------
(***************************************************************************)
(* Changing the wireless network: `gogl wifi set` and `gogl radio set`     *)
(* (utilities/gogl, utilities/internal/netcfg/wireless.go, band.go) and    *)
(* the service below them (src/services/wireless.go, src/types).           *)
(*                                                                         *)
(* A write here drops every client of a radio, and nothing brings back the *)
(* one who made it over that radio.  So the command and the service both   *)
(* ask the router's client list how the session arrives, and go on only    *)
(* over a cable or from off the LAN.  The session may roam, and the list   *)
(* may be behind, between any two RPCs; other programs write as well.      *)
(*                                                                         *)
(* What a radio carries and supports (Caps) does not change.  A passphrase *)
(* is its length, 0 on an open network; an SSID that ValidateSSID rejects  *)
(* is NoSSID; an htmode is its width in MHz or 0 for "auto".  A field that *)
(* is not given is not in the domain of the changes.                       *)
(***************************************************************************)
EXTENDS Integers, Sequences, SequencesExt

CONSTANTS
  Procs,        \* programs that change the wireless network
  Commands,     \* the commands they may run
  Caps,         \* for each device: band, ifaces, channels, hwmodes, widths, auto, encryptions
  InitIfaces, InitRadios,   \* the configuration at the start
  MaxRuns,      \* bound: commands started
  MaxFaults,    \* bound: RPCs that fail
  MaxRoams      \* bound: moves of a session between cable, radio and off-LAN

ASSUME BoundsAssumption == MaxRuns \in Nat /\ MaxFaults \in Nat /\ MaxRoams \in Nat

\* A change of an interface or of a radio names some of its fields.
IfaceFields == {"ssid", "key", "encryption", "hidden", "enabled"}
RadioFields == {"channel", "htmode", "hwmode", "txpower"}

ASSUME CommandsAssumption ==
  \A c \in Commands :
    /\ c.kind \in {"set", "library"}
    /\ \A x \in DOMAIN c.iface \cap {"hidden", "enabled"} : c.iface[x] \in BOOLEAN

VARIABLES
  ifaces,       \* [ssid, key, encryption, hidden, enabled] of each interface
  radios,       \* [channel, htmode, hwmode, txpower] of each device
  moded,        \* history: a write has named a hardware mode for the device
  path,         \* how each process's session reaches the router
  listed,       \* the link of the first client with its address, or "" if there is none
  pc, cmd,      \* each process: its next step, and its current or last command
  target,       \* the device and the interface that its command resolved to
  snap,         \* what SetWireless read of them
  todo,         \* the writes still to be made, "iface" before "radio"
  wrote,        \* history: the writes of the command that the router carried out
  sure,         \* history: the list told the truth at its last guard, and still does
  result,       \* how its last command ended
  runs, faults, roams

routerVars == <<ifaces, radios, moded>>
linkVars == <<path, listed>>
bounds == <<runs, faults, roams>>
vars == <<ifaces, radios, moded, path, listed, pc, cmd, target, snap, todo, wrote, sure, result,
          runs, faults, roams>>

NoName == "none"
NoSSID == ""
NoTarget == [device |-> NoName, iface |-> NoName]
NoSnap == [iface |-> <<>>, radio |-> <<>>]
NoCommand == [kind |-> "none"]
Bands == {"2G", "5G", "6G"}
Paths == Bands \cup {"cable", "off"}
Devices == DOMAIN Caps
Truth(l) == IF l = "off" THEN "" ELSE l

Init ==
  /\ ifaces = InitIfaces /\ radios = InitRadios
  /\ moded = [d \in Devices |-> FALSE]
  /\ path \in [Procs -> {"cable", "5G"}]
  /\ listed \in {[p \in Procs |-> Truth(path[p])], [p \in Procs |-> ""]}
  /\ pc     = [p \in Procs |-> "idle"]
  /\ cmd    = [p \in Procs |-> NoCommand]
  /\ target = [p \in Procs |-> NoTarget]
  /\ snap   = [p \in Procs |-> NoSnap]
  /\ todo   = [p \in Procs |-> <<>>]
  /\ wrote  = [p \in Procs |-> {}]
  /\ sure   = [p \in Procs |-> FALSE]
  /\ result = [p \in Procs |-> "none"]
  /\ runs = 0 /\ faults = 0 /\ roams = 0

-----------------------------------------------------------------------------
(* What a radio supports.                                                  *)

TXPowerLevels == {"Max", "High", "Medium", "Low"}
HTModeWidths == {20, 40, 80, 160}
MinKeyLength == 8
MaxKeyLength == 63

\* HTModes.Options: the settable widths, under the hardware mode the radio is in.
Options(cap, hwmode) ==
  LET known == IF hwmode \in DOMAIN cap.widths THEN {cap.widths[hwmode]}
               ELSE {cap.widths[h] : h \in DOMAIN cap.widths}
  IN {w \in HTModeWidths : \E widest \in known : w <= widest}
       \cup (IF cap.auto THEN {0} ELSE {})

\* Fails(c, x, ok): c changes field x to a value that is not among ok.
Fails(c, x, ok) == x \in DOMAIN c /\ c[x] \notin ok

\* InterfaceChanges.Validate: an encryption may come without a passphrase.
ValidInterface(c, cap) ==
  /\ ~("ssid" \in DOMAIN c /\ c.ssid = NoSSID)
  /\ ~Fails(c, "key", MinKeyLength .. MaxKeyLength)
  /\ cap.encryptions # {} => ~Fails(c, "encryption", cap.encryptions)

\* Mutant of ValidRadio: a width of any hardware mode will do.
ValidRadioAnyMode(c, cap, radio) ==
  /\ cap.channels # {} => ~Fails(c, "channel", cap.channels \cup {0})
  /\ Options(cap, NoName) # {} => ~Fails(c, "htmode", Options(cap, NoName))
  /\ cap.hwmodes # {} => ~Fails(c, "hwmode", cap.hwmodes)
  /\ ~Fails(c, "txpower", TXPowerLevels)

\* RadioChanges.Validate, against the radio as it is before the change.
ValidRadio(c, cap, radio) ==
  /\ cap.channels # {} => ~Fails(c, "channel", cap.channels \cup {0})
  /\ Options(cap, radio.hwmode) # {} => ~Fails(c, "htmode", Options(cap, radio.hwmode))
  /\ cap.hwmodes # {} => ~Fails(c, "hwmode", cap.hwmodes)
  /\ ~Fails(c, "txpower", TXPowerLevels)

IfacesOf(d) == {f.name : f \in ToSet(Caps[d].ifaces)}

\* An interface belongs to one radio.
ASSUME CapsAssumption == \A d, e \in Devices : IfacesOf(d) \cap IfacesOf(e) # {} => d = e

\* The router may start with any values; the radios list whichever interfaces they carry.
ASSUME ConfigurationAssumption ==
  /\ \A i \in DOMAIN InitIfaces : DOMAIN InitIfaces[i] = IfaceFields
  /\ DOMAIN InitRadios = Devices /\ \A d \in Devices : DOMAIN InitRadios[d] = RadioFields
  /\ \A d \in Devices : IfacesOf(d) \subseteq DOMAIN InitIfaces

RadioFor(i) == {d \in Devices : i \in IfacesOf(d)}

\* ResolveBand: the one radio that reports the band, and its main or guest interface.
BandRadios(band) == {d \in Devices : Caps[d].band = band}
Resolve(c) ==
  LET d  == CHOOSE d \in BandRadios(c.band) : TRUE
      fs == SelectSeq(Caps[d].ifaces, LAMBDA f : f.guest = c.guest)
  IN [device |-> d, iface |-> IF fs = <<>> THEN NoName ELSE fs[1].name]
Resolvable(c) ==
  /\ \E d \in Devices : BandRadios(c.band) = {d}
  /\ Resolve(c).iface # NoName

-----------------------------------------------------------------------------
(* The command.                                                            *)

End(p, r) ==
  /\ pc' = [pc EXCEPT ![p] = "idle"]
  /\ result' = [result EXCEPT ![p] = r]

Go(p, step) ==
  /\ pc' = [pc EXCEPT ![p] = step]
  /\ UNCHANGED result

\* requireWiredSession
Wired(link) == link \in {"", "cable"}

\* Mutant of Parts: the radio is retuned first.
PartsRadioFirst(c) == (IF DOMAIN c.radio # {} THEN <<"radio">> ELSE <<>>)
                       \o (IF DOMAIN c.iface # {} THEN <<"iface">> ELSE <<>>)

\* The writes of a command: interface first, then radio.
Parts(c) == (IF DOMAIN c.iface # {} THEN <<"iface">> ELSE <<>>)
              \o (IF DOMAIN c.radio # {} THEN <<"radio">> ELSE <<>>)

FirstRead(c) == IF DOMAIN c.iface # {} THEN "get" ELSE "radio"

\* A "library" command is a program that calls SetInterface or SetRadio itself.
FirstStep(c) ==
  CASE c.kind = "library" -> "look"
    [] c.at = NoTarget    -> "resolve"
    [] OTHER              -> FirstRead(c)

Start(p, c) ==
  /\ pc[p] = "idle" /\ runs < MaxRuns
  /\ runs' = runs + 1
  /\ cmd' = [cmd EXCEPT ![p] = c]
  /\ target' = [target EXCEPT ![p] = c.at]
  /\ snap' = [snap EXCEPT ![p] = NoSnap]
  /\ todo' = [todo EXCEPT ![p] = Parts(c)]
  /\ wrote' = [wrote EXCEPT ![p] = {}]
  /\ sure' = [sure EXCEPT ![p] = FALSE]
  /\ IF Parts(c) = <<>> THEN End(p, "refused")
     ELSE pc' = [pc EXCEPT ![p] = FirstStep(c)] /\ result' = [result EXCEPT ![p] = "none"]
  /\ UNCHANGED <<routerVars, linkVars, faults, roams>>

ResolveBand(p) ==
  /\ pc[p] = "resolve"
  /\ IF Resolvable(cmd[p])
     THEN target' = [target EXCEPT ![p] = Resolve(cmd[p])] /\ Go(p, FirstRead(cmd[p]))
     ELSE UNCHANGED target /\ End(p, "refused")
  /\ UNCHANGED <<routerVars, linkVars, cmd, snap, todo, wrote, sure, bounds>>

ReadInterface(p) ==
  /\ pc[p] = "get"
  /\ LET i == target[p].iface IN
       IF i \in DOMAIN ifaces
       THEN /\ snap' = [snap EXCEPT ![p].iface = ifaces[i]]
            /\ Go(p, IF DOMAIN cmd[p].radio # {} THEN "radio" ELSE "path")
       ELSE UNCHANGED snap /\ End(p, "refused")
  /\ UNCHANGED <<routerVars, linkVars, cmd, target, todo, wrote, sure, bounds>>

ReadRadio(p) ==
  /\ pc[p] = "radio"
  /\ LET d == target[p].device IN
       IF d \in Devices /\ ValidRadio(cmd[p].radio, Caps[d], radios[d])
       THEN snap' = [snap EXCEPT ![p].radio = radios[d]] /\ Go(p, "path")
       ELSE UNCHANGED snap /\ End(p, "refused")
  /\ UNCHANGED <<routerVars, linkVars, cmd, target, todo, wrote, sure, bounds>>

\* describeInterfaceChanges and describeRadioChanges: what differs from what was read.
Planned(p) ==
  {x \in DOMAIN cmd[p].iface : cmd[p].iface[x] # snap[p].iface[x]}
    \cup {x \in DOMAIN cmd[p].radio : cmd[p].radio[x] # snap[p].radio[x]}

ReportPath(p) ==
  /\ pc[p] = "path"
  /\ IF ~Wired(listed[p]) THEN End(p, "refused")
     ELSE IF Planned(p) = {} THEN End(p, "nothing")
     ELSE IF cmd[p].dry THEN End(p, "dry")
     ELSE Go(p, "confirm")
  /\ UNCHANGED <<routerVars, linkVars, cmd, target, snap, todo, wrote, sure, bounds>>

\* The prompt is skipped with --yes; otherwise somebody answers it.
Confirm(p) ==
  /\ pc[p] = "confirm"
  /\ Go(p, "look") \/ (~cmd[p].yes /\ End(p, "refused"))
  /\ UNCHANGED <<routerVars, linkVars, cmd, target, snap, todo, wrote, sure, bounds>>

\* SetInterface and SetRadio: find the radio and validate against it.
Part(p) == Head(todo[p])
Accepted(p, part) ==
  IF part = "iface"
  THEN \E d \in RadioFor(target[p].iface) : ValidInterface(cmd[p].iface, Caps[d])
  ELSE target[p].device \in Devices
       /\ ValidRadio(cmd[p].radio, Caps[target[p].device], radios[target[p].device])

Look(p) ==
  /\ pc[p] = "look"
  /\ IF Accepted(p, Part(p)) THEN Go(p, "guard") ELSE End(p, "refused")
  /\ UNCHANGED <<routerVars, linkVars, cmd, target, snap, todo, wrote, sure, bounds>>

\* Mutant of Guard: the client list is asked for and not looked at.
GuardIgnored(p) ==
  /\ pc[p] = "guard"
  /\ sure' = [sure EXCEPT ![p] = listed[p] = Truth(path[p])]
  /\ Go(p, "write")
  /\ UNCHANGED <<routerVars, linkVars, cmd, target, snap, todo, wrote, bounds>>

Guard(p) ==
  /\ pc[p] = "guard"
  /\ sure' = [sure EXCEPT ![p] = listed[p] = Truth(path[p])]
  /\ IF Wired(listed[p]) THEN Go(p, "write") ELSE End(p, "refused")
  /\ UNCHANGED <<routerVars, linkVars, cmd, target, snap, todo, wrote, bounds>>

-----------------------------------------------------------------------------
(* The router.                                                             *)

\* wifi.set_config: the fields that are given replace those of the object.
Updated(object, c) == [x \in DOMAIN object |-> IF x \in DOMAIN c THEN c[x] ELSE object[x]]

\* Mutant of Sent: every field that was read goes out again with the changes.
SentWhole(p, part) ==
  IF DOMAIN snap[p][part] = {} THEN cmd[p][part] ELSE Updated(snap[p][part], cmd[p][part])

\* Only the fields of the command are sent.
Sent(p, part) == cmd[p][part]

Configure(p) ==
  /\ IF Part(p) = "iface"
     THEN /\ ifaces' = [ifaces EXCEPT ![target[p].iface] = Updated(@, Sent(p, "iface"))]
          /\ UNCHANGED <<radios, moded>>
     ELSE /\ radios' = [radios EXCEPT ![target[p].device] = Updated(@, Sent(p, "radio"))]
          /\ moded' = [moded EXCEPT ![target[p].device] = @ \/ "hwmode" \in DOMAIN Sent(p, "radio")]
          /\ UNCHANGED ifaces
  /\ wrote' = [wrote EXCEPT ![p] = @ \cup {Part(p)}]
  /\ todo' = [todo EXCEPT ![p] = Tail(@)]

Write(p) ==
  /\ pc[p] = "write"
  /\ Configure(p)
  /\ IF Len(todo[p]) = 1 THEN End(p, "ok") ELSE Go(p, "look")
  /\ UNCHANGED <<linkVars, cmd, target, snap, sure, bounds>>

\* The router acts and its answer is lost: the radio went away with it.
WriteUnanswered(p) ==
  /\ pc[p] = "write" /\ faults < MaxFaults
  /\ Configure(p)
  /\ End(p, "failed")
  /\ faults' = faults + 1
  /\ UNCHANGED <<linkVars, cmd, target, snap, sure, runs, roams>>

\* An RPC fails.  Not to know the path is no permission to proceed.
Fail(p) ==
  /\ pc[p] \notin {"idle", "confirm"} /\ faults < MaxFaults
  /\ End(p, IF pc[p] \in {"path", "guard"} THEN "refused" ELSE "failed")
  /\ faults' = faults + 1
  /\ UNCHANGED <<routerVars, linkVars, cmd, target, snap, todo, wrote, sure, runs, roams>>

\* The session moves to another link; the router's list may not know it yet.
Roam(p) ==
  /\ roams < MaxRoams /\ roams' = roams + 1
  /\ \E to \in Paths \ {path[p]} :
       /\ path' = [path EXCEPT ![p] = to]
       /\ \E l \in {Truth(to), listed[p], ""} : listed' = [listed EXCEPT ![p] = l]
  /\ sure' = [sure EXCEPT ![p] = FALSE]
  /\ UNCHANGED <<routerVars, pc, cmd, target, snap, todo, wrote, result, runs, faults>>

\* The list catches up.
Refresh(p) ==
  /\ listed[p] # Truth(path[p])
  /\ listed' = [listed EXCEPT ![p] = Truth(path[p])]
  /\ UNCHANGED <<routerVars, path, pc, cmd, target, snap, todo, wrote, sure, result, bounds>>

Step(p) ==
  \/ \E c \in Commands : Start(p, c)
  \/ ResolveBand(p) \/ ReadInterface(p) \/ ReadRadio(p) \/ ReportPath(p) \/ Confirm(p)
  \/ Look(p) \/ Guard(p) \/ Write(p) \/ WriteUnanswered(p)
  \/ Fail(p) \/ Roam(p) \/ Refresh(p)

Next == \E p \in Procs : Step(p)

Spec == Init /\ [][Next]_vars

-----------------------------------------------------------------------------
(* Properties.                                                             *)

PC == {"idle", "resolve", "get", "radio", "path", "confirm", "look", "guard", "write"}
Queues == {<<>>, <<"iface">>, <<"radio">>, <<"iface", "radio">>}
Results == {"none", "ok", "nothing", "dry", "refused", "failed"}

\* Every variable has its type.
TypeOK ==
  /\ DOMAIN ifaces = DOMAIN InitIfaces /\ \A i \in DOMAIN ifaces : DOMAIN ifaces[i] = IfaceFields
  /\ DOMAIN radios = Devices /\ \A d \in Devices : DOMAIN radios[d] = RadioFields
  /\ moded \in [Devices -> BOOLEAN]
  /\ pc \in [Procs -> PC] /\ result \in [Procs -> Results]
  /\ cmd \in [Procs -> Commands \cup {NoCommand}]
  /\ \A p \in Procs : pc[p] # "idle" => cmd[p] \in Commands
  /\ DOMAIN target = Procs
  /\ path \in [Procs -> Paths] /\ listed \in [Procs -> Bands \cup {"", "cable"}]
  /\ todo \in [Procs -> Queues]
  /\ wrote \in [Procs -> SUBSET {"iface", "radio"}] /\ sure \in [Procs -> BOOLEAN]

\* Each value alone is one that the radio offers, as far as it lists what it offers, or the
\* one that the router came with: old.
OfferedInterface(iface, old, cap) ==
  /\ cap.encryptions # {} => iface.encryption \in cap.encryptions \cup {old.encryption}
  /\ iface.ssid # NoSSID \/ old.ssid = NoSSID
  /\ iface.key \in (MinKeyLength .. MaxKeyLength) \cup {old.key}
OfferedRadio(radio, old, cap) ==
  /\ cap.channels # {} => radio.channel \in cap.channels \cup {0, old.channel}
  /\ cap.hwmodes # {} => radio.hwmode \in cap.hwmodes \cup {old.hwmode}
  /\ radio.txpower \in TXPowerLevels \cup {old.txpower}
OfferedWidth(radio, old, cap) ==
  /\ radio.hwmode = old.hwmode
  /\ Options(cap, old.hwmode) # {} => radio.htmode \in Options(cap, old.hwmode) \cup {old.htmode}

\* Whatever a command has validated, and whatever the others change before it writes: no
\* interface or radio gets a value that its radio does not offer, and no radio a width that
\* its hardware mode does not offer, as long as nobody has named a hardware mode for it.
\* This is of each value alone: once a hardware mode is set, the radio may keep a width that
\* the mode does not have, and an encryption may be set without a passphrase.
Offered ==
  \A d \in Devices :
    /\ \A i \in IfacesOf(d) : OfferedInterface(ifaces[i], InitIfaces[i], Caps[d])
    /\ OfferedRadio(radios[d], InitRadios[d], Caps[d])
    /\ ~moded[d] => OfferedWidth(radios[d], InitRadios[d], Caps[d])

\* No write goes out over a radio of the router, unless the client list misled the last
\* look of the service or the session moved after it: neither a prompt that stays open,
\* nor --yes, nor a failed look, nor a first write before a second one gets past it.
CutOffOnlyUnseen ==
  [][\A p \in Procs :
       wrote'[p] \ wrote[p] # {} /\ sure[p] => path[p] \notin Bands]_vars

\* A write changes the fields its command names, to what it names, and no others: it
\* never puts back a value that another program has changed since.
OthersFieldsKept ==
  [][/\ \A i \in DOMAIN ifaces : \A x \in DOMAIN ifaces[i] : ifaces'[i][x] # ifaces[i][x] =>
          \E p \in Procs : /\ pc[p] = "write" /\ target[p].iface = i
                           /\ x \in DOMAIN cmd[p].iface /\ ifaces'[i][x] = cmd[p].iface[x]
     /\ \A d \in Devices : \A x \in DOMAIN radios[d] : radios'[d][x] # radios[d][x] =>
          \E p \in Procs : /\ pc[p] = "write" /\ target[p].device = d
                           /\ x \in DOMAIN cmd[p].radio /\ radios'[d][x] = cmd[p].radio[x]]_vars

\* What a command leaves when it ends: all its parts on success, none after a dry run,
\* and whatever stopped it never a retuned radio without the interface it was for.
PartialIsInterface ==
  \A p \in Procs : pc[p] = "idle" /\ cmd[p] # NoCommand =>
    LET asked == ToSet(Parts(cmd[p])) IN
      /\ result[p] = "ok" => wrote[p] = asked
      /\ result[p] \in {"nothing", "dry"} => wrote[p] = {}
      /\ "radio" \in wrote[p] => wrote[p] = asked
=============================================================================
