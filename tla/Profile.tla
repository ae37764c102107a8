------------------------------ MODULE Profile -------------------------------
(***************************************************************************)
(* `gogl profile export` and `gogl profile import`                         *)
(* (utilities/internal/profile, utilities/gogl/profile.go): a router's     *)
(* network, domain, reservations, names and wireless settings as a file,   *)
(* and that file applied to the same or to another router, section by      *)
(* section, with calls that fail half way.                                 *)
(*                                                                         *)
(* One program works at a time (Inventory and Network have the races), so  *)
(* the reads that precede a write are part of the step that writes.  Any   *)
(* step may be refused by the router, or lose its connection before or     *)
(* after it took effect.                                                   *)
(*                                                                         *)
(* A router is a record: net, a network; binds, a set of [mac, name, ip]   *)
(* with one for each mac; file, its host file; wifi, a function from its   *)
(* interfaces and radios to their settings; wired, whether the session     *)
(* that writes arrives by cable.  A profile has the same fields, but its   *)
(* wifi is a set of [device, settings]; what it leaves out is NoSetting.   *)
(***************************************************************************)
EXTENDS HostFile

CONSTANTS
  AddrBits,     \* width of an address
  Routers,      \* the routers at hand
  InitRouters,  \* what they may hold at the start
  HandWritten,  \* profiles that somebody edited
  Settings,     \* the names of the settings of each interface and radio
  BadNames,     \* names that ValidateName turns down, domains among them
  BadAddresses, \* addresses that are not of IPv4
  Modes,        \* the flags an import may be given
  MaxRuns,      \* bound: exports and imports started
  MaxFaults     \* bound: calls that fail

ASSUME BoundsAssumption == AddrBits \in Nat /\ MaxRuns \in Nat /\ MaxFaults \in Nat

A == INSTANCE Addresses

NoSetting == "absent"   \* a setting that the profile does not give

BindSet == [mac : STRING, name : STRING, ip : Int]
OnePerMAC(bs) == \A b, c \in bs : b.mac = c.mac => b = c

\* A router: one bind for each MAC, at most one answer for each name.
IsRouter(r) ==
  /\ r = [net |-> r.net, binds |-> r.binds, file |-> r.file, wifi |-> r.wifi, wired |-> r.wired]
  /\ r.net \in A!Net /\ r.wired \in BOOLEAN
  /\ r.binds \subseteq BindSet /\ OnePerMAC(r.binds)
  /\ r.file \in FileSet /\ OneAnswer(r.file)
  /\ DOMAIN r.wifi \subseteq DOMAIN Settings
  /\ r.wifi = [d \in DOMAIN r.wifi |-> [s \in Settings[d] |-> r.wifi[d][s]]]
  /\ \A d \in DOMAIN r.wifi : \A s \in Settings[d] : r.wifi[d][s] # NoSetting

\* What HostFile.Set takes: the others it turns down.
Accepted(e) == e.names[1] \notin BadNames /\ e.ip \notin BadAddresses

\* A profile, as ReadProfile decodes it, that gives nothing twice; only a name that Lookup
\* does not find under its domain may be in several entries.
IsProfile(p) ==
  /\ p = [net |-> p.net, domain |-> p.domain, hosts |-> p.hosts, binds |-> p.binds, wifi |-> p.wifi]
  /\ p.net \in A!Net /\ p.domain \in Domains /\ p.hosts \in Seq(EntrySet)
  /\ \A i, j \in DOMAIN p.hosts : p.hosts[i].names[1] = p.hosts[j].names[1] =>
       i = j \/ ~Matched(EmptyFile(p.domain), p.hosts[i].names[1])
  /\ p.binds \subseteq BindSet /\ OnePerMAC(p.binds)
  /\ \A v, w \in p.wifi : v.device = w.device => v = w
  /\ \A w \in p.wifi : w.device \in DOMAIN Settings => DOMAIN w.settings = Settings[w.device]

ASSUME RoutersAssumption ==
  /\ "hand" \notin Routers
  /\ \A r \in InitRouters : IsRouter(r)

ASSUME ProfilesAssumption == \A p \in HandWritten : IsProfile(p)

ASSUME ModesAssumption == Modes \subseteq [dry : BOOLEAN, force : BOOLEAN, wireless : BOOLEAN]

VARIABLES
  routers,      \* each router's configuration
  saved,        \* the profile file
  from,         \* the router it was exported from, or "hand"
  pc, target, modes,  \* the import: its next step, the router, its flags
  current,      \* the network it read
  todo,         \* reservations, or wireless entries, it has yet to look at
  failures,     \* reservations that failed
  wrote,        \* history: this import wrote the network
  result,       \* how the last import ended
  runs, faults  \* bounds

profileVars == <<saved, from>>
vars == <<routers, saved, from, pc, target, modes, current, todo, failures, wrote, result,
          runs, faults>>

Init ==
  /\ routers \in [Routers -> InitRouters]
  /\ saved \in HandWritten /\ from = "hand"
  /\ pc = "idle" /\ target \in Routers /\ modes \in Modes
  /\ current = routers[target].net
  /\ todo = {} /\ failures = 0 /\ wrote = FALSE /\ result = "none"
  /\ runs = 0 /\ faults = 0

Router == routers[target]

-----------------------------------------------------------------------------
(* Export.                                                                 *)

\* Mutant of Captured: whether an interface is enabled is forgotten.
CapturedEnabledForgotten(r, withKeys, missing) ==
  [net    |-> r.net,
   domain |-> IF "hosts" \in missing THEN NoDomain ELSE r.file.domain,
   hosts  |-> IF "hosts" \in missing THEN <<>> ELSE r.file.entries,
   binds  |-> IF "binds" \in missing THEN {} ELSE r.binds,
   wifi   |-> IF "wifi" \in missing THEN {}
              ELSE {[device |-> d, settings |-> [s \in DOMAIN r.wifi[d] |->
                       IF s = "enabled" \/ (s = "key" /\ ~withKeys) THEN NoSetting ELSE r.wifi[d][s]]] :
                      d \in DOMAIN r.wifi}]

\* Capture: a section that cannot be read is left out, and so are the keys by default.
Captured(r, withKeys, missing) ==
  [net    |-> r.net,
   domain |-> IF "hosts" \in missing THEN NoDomain ELSE r.file.domain,
   hosts  |-> IF "hosts" \in missing THEN <<>> ELSE r.file.entries,
   binds  |-> IF "binds" \in missing THEN {} ELSE r.binds,
   wifi   |-> IF "wifi" \in missing THEN {}
              ELSE {[device |-> d, settings |-> [s \in DOMAIN r.wifi[d] |->
                       IF s = "key" /\ ~withKeys THEN NoSetting ELSE r.wifi[d][s]]] :
                      d \in DOMAIN r.wifi}]

Export(r) ==
  /\ pc = "idle" /\ runs < MaxRuns /\ runs' = runs + 1
  /\ \E withKeys \in BOOLEAN, missing \in SUBSET {"hosts", "binds", "wifi"} :
       /\ faults + Cardinality(missing) <= MaxFaults
       /\ faults' = faults + Cardinality(missing)
       /\ saved' = Captured(routers[r], withKeys, missing)
  /\ from' = r /\ result' = "none"
  /\ UNCHANGED <<routers, pc, target, modes, current, todo, failures, wrote>>

-----------------------------------------------------------------------------
(* Import: Apply, one section after another.                               *)

Go(step) == pc' = step /\ UNCHANGED result
End(r) == pc' = "idle" /\ result' = r

Start(r, m) ==
  /\ pc = "idle" /\ runs < MaxRuns /\ runs' = runs + 1
  /\ target' = r /\ modes' = m
  /\ todo' = {} /\ failures' = 0 /\ wrote' = FALSE
  /\ pc' = "network" /\ result' = "none"
  /\ UNCHANGED <<routers, profileVars, current, faults>>

ReadNetwork ==
  /\ pc = "network"
  /\ current' = Router.net
  /\ Go("domain")
  /\ UNCHANGED <<routers, profileVars, target, modes, todo, failures, wrote, runs, faults>>

Moving == ~A!SameSubnet(saved.net, current)
PoolChanging == saved.net.start # current.start \/ saved.net.stop # current.stop
AfterDomain == IF Moving \/ PoolChanging THEN "setNetwork" ELSE "reservations"

\* SetDomain turns down a domain, or one of the router's own entries: then it writes nothing.
DomainFails(r) ==
  /\ saved.domain \notin {NoDomain, r.file.domain} /\ ~modes.dry
  /\ \/ [labels |-> saved.domain] \in BadNames
     \/ \E i \in DOMAIN r.file.entries : ~Accepted(r.file.entries[i])

\* What the router holds once the step pc has written: the same where nothing differs.
DomainSet(r) ==
  IF saved.domain \in {NoDomain, r.file.domain} \/ modes.dry \/ DomainFails(r) THEN r
  ELSE [r EXCEPT !.file = Requalify(@, saved.domain)]

Domain ==
  /\ pc = "domain"
  /\ IF (saved.domain = NoDomain /\ saved.binds # {}) \/ DomainFails(Router)
     THEN End("failed") /\ UNCHANGED routers
     ELSE Go(AfterDomain) /\ routers' = [routers EXCEPT ![target] = DomainSet(@)]
  /\ UNCHANGED <<profileVars, target, modes, current, todo, failures, wrote, runs, faults>>

\* NetworkService.Set: the range check, and the guard unless it is forced.
NetworkRefused ==
  \/ ~A!ValidForWrite(saved.net)
  \/ ~modes.dry /\ Moving /\ ~modes.force /\ Router.binds # {}

\* The router takes the four fields and moves its binds along (external, see Addresses).
NetworkSet(r) ==
  [r EXCEPT !.net = [saved.net EXCEPT !.on = r.net.on],
            !.binds = {[b EXCEPT !.ip = A!Renumbered(r.net, saved.net, @)] : b \in @}]

NetworkDone == IF Moving THEN End("moved") ELSE Go("reservations")

SetNetwork ==
  /\ pc = "setNetwork"
  /\ IF NetworkRefused THEN End("failed") ELSE NetworkDone
  /\ IF NetworkRefused \/ modes.dry THEN UNCHANGED <<routers, wrote>>
     ELSE /\ routers' = [routers EXCEPT ![target] = NetworkSet(@)]
          /\ wrote' = TRUE
  /\ UNCHANGED <<profileVars, target, modes, current, todo, failures, runs, faults>>

\* The reservations, each looked up in the list that was read before the first of them.
ListReservations ==
  /\ pc = "reservations"
  /\ todo' = saved.binds
  /\ Go(IF saved.binds = {} THEN "hosts" ELSE "reservation")
  /\ UNCHANGED <<routers, profileVars, target, modes, current, failures, wrote, runs, faults>>

\* Mutant of Bound: a host that has a bind is left alone.
BoundAnywhere(r, b) == \E c \in r.binds : c.mac = b.mac

Bound(r, b) == \E c \in r.binds : c.mac = b.mac /\ c.ip = b.ip

\* Update replaces the bind of the host, Create adds one: both need a domain.
ReservationSet(r, b) ==
  IF Bound(r, b) \/ modes.dry \/ r.file.domain = NoDomain THEN r
  ELSE [r EXCEPT !.binds = {c \in @ : c.mac # b.mac} \cup {b}]
ReservationFails(r, b) == ~Bound(r, b) /\ ~modes.dry /\ r.file.domain = NoDomain

\* The order of the file is left open.  Failures are counted, and end the run after all.
AfterReservation(b, failed) ==
  /\ todo' = todo \ {b}
  /\ failures' = failures + (IF failed THEN 1 ELSE 0)
  /\ IF todo' # {} THEN Go("reservation")
     ELSE IF failures' > 0 THEN End("failed") ELSE Go("hosts")

SetReservation(b) ==
  /\ pc = "reservation" /\ b \in todo
  /\ routers' = [routers EXCEPT ![target] = ReservationSet(@, b)]
  /\ AfterReservation(b, ReservationFails(Router, b))
  /\ UNCHANGED <<profileVars, target, modes, current, wrote, runs, faults>>

\* The names, in one write of the host file.  Only the first name of an entry is kept; an
\* entry that Set turns down is logged and passed over, and the import goes on.
SetIfDiffers(f, e) ==
  IF Lookup(f, e.names[1]) = e.ip \/ ~Accepted(e) THEN f ELSE SetName(f, e.names[1], e.ip)
Named(f, hosts) ==
  LET named[n \in 0 .. Len(hosts)] == IF n = 0 THEN f ELSE SetIfDiffers(named[n-1], hosts[n])
  IN named[Len(hosts)]

HostsSet(r) == IF modes.dry THEN r ELSE [r EXCEPT !.file = Named(@, saved.hosts)]
AfterHosts == IF modes.wireless /\ saved.wifi # {} THEN Go("wifi") ELSE End("ok")

SetHosts ==
  /\ pc = "hosts"
  /\ routers' = [routers EXCEPT ![target] = HostsSet(@)]
  /\ todo' = IF modes.wireless THEN saved.wifi ELSE {}
  /\ AfterHosts
  /\ UNCHANGED <<profileVars, target, modes, current, failures, wrote, runs, faults>>

\* What a profile that leaves a setting out is decoded to, for those that Apply writes
\* without a test for absence: not hidden, not enabled, channel 0.
Zero == [hidden |-> "false", enabled |-> "false", channel |-> "0"]
Given(w, s) ==
  IF w.settings[s] = NoSetting /\ s \in DOMAIN Zero THEN Zero[s] ELSE w.settings[s]

\* Mutant of Changes: a setting that the profile does not give is written, too.
ChangesAll(w, have) == {s \in DOMAIN w.settings : Given(w, s) # have[s]}

\* The settings that differ; a device the router does not have is skipped.
Changes(w, have) == {s \in DOMAIN w.settings : Given(w, s) # NoSetting /\ Given(w, s) # have[s]}

WifiDiffers(r, w) == w.device \in DOMAIN r.wifi /\ Changes(w, r.wifi[w.device]) # {}
WifiSet(r, w) ==
  IF ~WifiDiffers(r, w) \/ modes.dry THEN r
  ELSE [r EXCEPT !.wifi[w.device] =
          [s \in DOMAIN @ |-> IF s \in Changes(w, @) THEN Given(w, s) ELSE @[s]]]

\* SetInterface and SetRadio refuse a session over a radio (Wireless has the detail).
WifiRefused(r, w) == WifiDiffers(r, w) /\ ~modes.dry /\ ~r.wired

SetWifi(w) ==
  /\ pc = "wifi" /\ w \in todo
  /\ todo' = todo \ {w}
  /\ IF WifiRefused(Router, w) THEN End("failed") /\ UNCHANGED routers
     ELSE /\ routers' = [routers EXCEPT ![target] = WifiSet(@, w)]
          /\ IF todo' = {} THEN End("ok") ELSE Go("wifi")
  /\ UNCHANGED <<profileVars, target, modes, current, failures, wrote, runs, faults>>

-----------------------------------------------------------------------------
(* Failures.                                                               *)

MayFail == faults < MaxFaults /\ faults' = faults + 1

\* Mutant of NetworkLost: any lost connection is taken for the end of a move.
NetworkLostAlways == IF Moving THEN End("moved") ELSE Go("reservations")

\* A lost connection during the network write is what success looks like, if it moves.
NetworkLost == IF Moving THEN End("moved") ELSE End("failed")

\* A reservation that needs a call: the others are passed over without one.
Due(b) == ~Bound(Router, b) /\ ~modes.dry

\* A call fails, or the program is interrupted, and nothing was done.
Fail ==
  /\ pc # "idle" /\ MayFail
  /\ \/ UNCHANGED <<todo, failures>> /\ End("failed")
     \/ pc = "reservation" /\ \E b \in todo : Due(b) /\ AfterReservation(b, TRUE)
  /\ UNCHANGED <<routers, profileVars, target, modes, current, wrote, runs>>

Lost ==
  /\ pc = "setNetwork" /\ ~modes.dry /\ A!ValidForWrite(saved.net) /\ MayFail
  /\ NetworkLost
  /\ UNCHANGED <<routers, profileVars, target, modes, current, todo, failures, wrote, runs>>

\* The write is carried out and its answer is lost.
Unanswered ==
  /\ ~modes.dry /\ MayFail
  /\ \/ /\ pc = "domain" /\ routers' = [routers EXCEPT ![target] = DomainSet(@)]
        /\ End("failed") /\ UNCHANGED <<todo, failures, wrote>>
     \/ /\ pc = "setNetwork" /\ ~NetworkRefused
        /\ routers' = [routers EXCEPT ![target] = NetworkSet(@)]
        /\ wrote' = TRUE /\ NetworkLost /\ UNCHANGED <<todo, failures>>
     \/ /\ pc = "reservation"
        /\ \E b \in todo : /\ Due(b) /\ AfterReservation(b, TRUE)
                           /\ routers' = [routers EXCEPT ![target] = ReservationSet(@, b)]
        /\ UNCHANGED wrote
     \/ /\ pc = "hosts" /\ routers' = [routers EXCEPT ![target] = HostsSet(@)]
        /\ End("failed") /\ UNCHANGED <<todo, failures, wrote>>
     \/ /\ pc = "wifi"
        /\ \E w \in todo : /\ ~WifiRefused(Router, w)
                           /\ routers' = [routers EXCEPT ![target] = WifiSet(@, w)]
        /\ End("failed") /\ UNCHANGED <<todo, failures, wrote>>
  /\ UNCHANGED <<profileVars, target, modes, current, runs>>

Next ==
  \/ \E r \in Routers : Export(r) \/ (\E m \in Modes : Start(r, m))
  \/ ReadNetwork \/ Domain \/ SetNetwork \/ ListReservations \/ SetHosts
  \/ \E b \in saved.binds : SetReservation(b)
  \/ \E w \in saved.wifi : SetWifi(w)
  \/ Fail \/ Lost \/ Unanswered

Spec == Init /\ [][Next]_vars

-----------------------------------------------------------------------------
(* Properties.                                                             *)

SameNetwork(m, n) == A!SameSubnet(m, n) /\ m.start = n.start /\ m.stop = n.stop

\* The router has everything that the profile says, but for the entries that Set turns down
\* and the names that Lookup does not find.
Matches(r, p, wireless) ==
  /\ SameNetwork(r.net, p.net)
  /\ p.domain \in {NoDomain, r.file.domain}
  /\ \A b \in p.binds : \E c \in r.binds : c.mac = b.mac /\ c.ip = b.ip
  /\ \A i \in DOMAIN p.hosts : Accepted(p.hosts[i]) /\ Matched(r.file, p.hosts[i].names[1]) =>
       Lookup(r.file, p.hosts[i].names[1]) = p.hosts[i].ip
  /\ wireless => \A w \in p.wifi : w.device \in DOMAIN r.wifi =>
       \A s \in DOMAIN w.settings : w.settings[s] \in {NoSetting, r.wifi[w.device][s]}

\* An import that reports success has reproduced the profile, whatever earlier imports left
\* half done; the one that has moved the router is not such a success.  It is one in spite
\* of entries that were turned down, which Matches passes over.
ImportReproduces ==
  pc = "idle" /\ result = "ok" /\ ~modes.dry => Matches(Router, saved, modes.wireless)

\* "The order is not arbitrary": no reservation is written before the router has a
\* domain and the profile's network, and none by a dry run.
SectionsInOrder ==
  [][pc = "reservation" /\ routers' # routers =>
       ~modes.dry /\ Router.file.domain # NoDomain /\ SameNetwork(Router.net, saved.net)]_vars

\* What a profile does not mention stays: the binds of other hosts, unless the subnet
\* moves, the address of every other entry's first name, if Lookup finds it before and
\* after, the devices it does not name, and of the others the settings without value, the
\* passphrase above all.  Not so hidden, enabled and channel: see Zero.
AbsentIsKept ==
  [][\A r \in Routers : LET old == routers[r]  new == routers'[r] IN
       /\ A!SameSubnet(old.net, new.net) =>
            {b \in old.binds : \A c \in saved.binds : c.mac # b.mac} \subseteq new.binds
       /\ \A i \in DOMAIN old.file.entries : LET e == old.file.entries[i] IN
            /\ Matched(old.file, e.names[1]) /\ Matched(new.file, e.names[1])
            /\ \A j \in DOMAIN saved.hosts :
                 FirstLabel(saved.hosts[j].names[1]) # FirstLabel(e.names[1])
            => Lookup(new.file, e.names[1]) = e.ip
       /\ \A d \in DOMAIN old.wifi : \A s \in DOMAIN old.wifi[d] :
            (\A w \in saved.wifi : w.device = d => Given(w, s) = NoSetting) =>
              new.wifi[d][s] = old.wifi[d][s]]_vars

\* Every name of a profile is one that Lookup finds, or that Set turns down.
Findable(p) ==
  \A i \in DOMAIN p.hosts :
    Matched(EmptyFile(p.domain), p.hosts[i].names[1]) \/ ~Accepted(p.hosts[i])

\* Importing a router's own export changes nothing on it, however it was set up, unless
\* Set appends a name that Lookup did not find.
OwnExportIsNoop ==
  [][target = from /\ Findable(saved) => routers'[target] = routers[target]]_vars

\* The message "the router has moved" is only given when the router was written.
MovedMeansMoved == pc = "idle" /\ result = "moved" => wrote
=============================================================================
