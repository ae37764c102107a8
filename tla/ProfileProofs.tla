---------------------------- MODULE ProfileProofs ----------------------------
(***************************************************************************)
(* Proofs about Profile, for every set of routers, of profiles and of      *)
(* flags, and any number of faults.                                        *)
(*                                                                         *)
(* The inductive invariant says of the import, at each of its steps, what  *)
(* it has already brought about: the network and the domain (SectionInv),  *)
(* the reservations and the wireless entries it no longer has to do, and   *)
(* that what it read of the network is still so; of a profile, that it is  *)
(* what its router has, as long as nothing else was written to it (Own);   *)
(* and, as far as each host is named in one way, the names (SpelledInv).   *)
(***************************************************************************)
EXTENDS Profile, HostFileProofs

Steps == {"idle", "network", "domain", "setNetwork", "reservations", "reservation", "hosts", "wifi"}

\* Every variable has its type: routers stay routers, and profiles profiles.
TypeOK ==
  /\ routers = [r \in Routers |-> routers[r]] /\ \A r \in Routers : IsRouter(routers[r])
  /\ IsProfile(saved) /\ from \in Routers \cup {"hand"}
  /\ target \in Routers /\ modes \in Modes /\ failures \in Nat /\ pc \in Steps

\* The steps that follow the network.
Later == {"reservations", "reservation", "hosts", "wifi"}

SameDomain(r, p) == p.domain \in {NoDomain, r.file.domain}

Applied(r, w) ==
  w.device \in DOMAIN r.wifi =>
    \A s \in DOMAIN w.settings : Given(w, s) \in {NoSetting, r.wifi[w.device][s]}

\* An entry whose name Lookup finds under the domain is alone with its first label.
OneName(domain, hosts) ==
  \A i, j \in DOMAIN hosts :
    /\ Matched(EmptyFile(domain), hosts[i].names[1])
    /\ FirstLabel(hosts[i].names[1]) = FirstLabel(hosts[j].names[1])
    => i = j

\* An entry that Set takes and that Lookup finds again.
Sought(f, e) == Accepted(e) /\ Matched(f, e.names[1])

\* The names that the profile gives, if it names each host once.
Answering(r, p) ==
  OneName(p.domain, p.hosts) =>
    \A i \in DOMAIN p.hosts :
      Sought(r.file, p.hosts[i]) => Lookup(r.file, p.hosts[i].names[1]) = p.hosts[i].ip

\* The sections before the wireless one.
Wired(r, p) ==
  /\ SameNetwork(r.net, p.net) /\ SameDomain(r, p)
  /\ \A b \in p.binds : Bound(r, b)
  /\ Answering(r, p)

\* What an import that writes has done when it is at the step pc.
Done ==
  /\ pc \in {"setNetwork"} \cup Later => SameDomain(Router, saved)
  /\ pc \in Later => SameNetwork(Router.net, saved.net)
  /\ pc = "reservation" => failures > 0 \/ \A b \in saved.binds \ todo : Bound(Router, b)
  /\ pc \in {"hosts", "wifi"} => \A b \in saved.binds : Bound(Router, b)
  /\ pc = "wifi" => Answering(Router, saved) /\ \A w \in saved.wifi \ todo : Applied(Router, w)
  /\ pc = "idle" /\ result = "ok" =>
       Wired(Router, saved) /\ (modes.wireless => \A w \in saved.wifi : Applied(Router, w))

SectionInv ==
  /\ pc \in {"domain", "setNetwork"} => current = Router.net
  /\ pc = "setNetwork" => Moving \/ PoolChanging
  /\ pc = "reservation" => todo \subseteq saved.binds
  /\ pc = "wifi" => todo \subseteq saved.wifi
  /\ ~modes.dry => Done

\* An export that is still in the file is still what its router has, if its names are such
\* that an import does not append them.
Own ==
  from \in Routers /\ Findable(saved) =>
    \E keys \in BOOLEAN, missing \in SUBSET {"hosts", "binds", "wifi"} :
      saved = Captured(routers[from], keys, missing)

ProfileInv == TypeOK /\ SectionInv /\ Own

\* The names that routers and profiles start with.
FirstNames(entries) == {entries[i].names[1] : i \in DOMAIN entries}
KnownNames ==
  UNION ({FirstNames(r.file.entries) : r \in InitRouters}
           \cup {FirstNames(p.hosts) : p \in HandWritten})

\* Each host is named in one way only, and each entry was made for the first of its names.
OneSpelling ==
  /\ Spelled(KnownNames)
  /\ \A r \in InitRouters : Worded(r.file, KnownNames)

SpelledInv ==
  /\ \A r \in Routers : Worded(routers[r].file, KnownNames)
  /\ FirstNames(saved.hosts) \subseteq KnownNames

-----------------------------------------------------------------------------
(* What each section writes.                                               *)

\* The sizes of subnets are positive.
LEMMA SubnetSizes == \A n \in A!Net : A!Pow2[n.mask] \in Nat \ {0}
<1>1. A!Pow2 = Doubling(AddrBits)
  BY Zenon DEF A!Pow2, Doubling
<1>2. \A n \in A!Net : n.mask \in 0 .. AddrBits
  BY DEF A!Net, A!Mask
<1>3. QED
  BY <1>1, <1>2, BoundsAssumption, DoublingOf

\* An address that is renumbered is one; it stays when the subnet does.
LEMMA RenumberedOf ==
  ASSUME NEW m \in A!Net, NEW n \in A!Net, NEW a \in Int
  PROVE  A!Renumbered(m, n, a) \in Int /\ (A!SameSubnet(m, n) => A!Renumbered(m, n, a) = a)
<1> DEFINE S == A!Pow2[m.mask]
           T == A!Pow2[n.mask]
<1>1. S \in Nat \ {0} /\ T \in Nat \ {0}
  BY SubnetSizes
<1>2. m.ip \in Int /\ n.ip \in Int
  <2>1. A!Pow2[AddrBits] \in Nat
    <3>1. A!Pow2 = Doubling(AddrBits)
      BY Zenon DEF A!Pow2, Doubling
    <3>2. AddrBits \in 0 .. AddrBits
      BY BoundsAssumption
    <3>3. QED
      BY <3>1, <3>2, BoundsAssumption, DoublingOf
  <2>2. QED
    BY <2>1 DEF A!Net, A!Addr
<1>3. CASE a = A!Blank \/ ~A!NetContains(m, a)
  BY <1>3 DEF A!Renumbered
<1>4. CASE ~(a = A!Blank \/ ~A!NetContains(m, a))
  <2>1. A!Renumbered(m, n, a) = (n.ip - (n.ip % T)) + ((a % S) % T)
    BY <1>4 DEF A!Renumbered, A!SubnetFrom, A!HostPart
  <2>2. a - (a % S) = m.ip - (m.ip % S)
    BY <1>4 DEF A!NetContains, A!SubnetFrom
  <2>3. A!SameSubnet(m, n) => n.ip = m.ip /\ T = S
    BY DEF A!SameSubnet
  <2> HIDE DEF S, T
  <2>4. (n.ip - (n.ip % T)) + ((a % S) % T) \in Int
    BY <1>1, <1>2
  <2>5. m.ip - (m.ip % S) + ((a % S) % S) = a
    <3>1. (a % S) % S = a % S /\ a % S \in Int /\ m.ip % S \in Int
      BY <1>1, <1>2
    <3>2. QED
      BY <1>2, <2>2, <3>1
  <2>6. QED
    BY <2>1, <2>3, <2>4, <2>5
<1>5. QED
  BY <1>3, <1>4

\* t is r but for the host file, the network, the binds or the settings.
OtherFile(t, r) == t.net = r.net /\ t.binds = r.binds /\ t.wifi = r.wifi /\ t.wired = r.wired
OtherBinds(t, r) == t.net = r.net /\ t.file = r.file /\ t.wifi = r.wifi /\ t.wired = r.wired
OtherWifi(t, r) == t.net = r.net /\ t.file = r.file /\ t.binds = r.binds /\ t.wired = r.wired
OtherNet(t, r) == t.file = r.file /\ t.wifi = r.wifi /\ t.wired = r.wired

\* A router whose network and binds, or binds alone, are others, field by field.
LEMMA Rewritten ==
  ASSUME NEW r, IsRouter(r), NEW n, NEW b
  PROVE  /\ [r EXCEPT !.net = n, !.binds = b] =
              [net |-> n, binds |-> b, file |-> r.file, wifi |-> r.wifi, wired |-> r.wired]
         /\ [r EXCEPT !.binds = b] =
              [net |-> r.net, binds |-> b, file |-> r.file, wifi |-> r.wifi, wired |-> r.wired]
<1> DEFINE t == [r EXCEPT !.net = n]
<1>1. t = [net |-> n, binds |-> r.binds, file |-> r.file, wifi |-> r.wifi, wired |-> r.wired]
  BY DEF IsRouter
<1>2. [r EXCEPT !.net = n, !.binds = b] = [t EXCEPT !.binds = b]
  OBVIOUS
<1> HIDE DEF t
<1>3. [t EXCEPT !.binds = b] =
        [net |-> n, binds |-> b, file |-> r.file, wifi |-> r.wifi, wired |-> r.wired]
  BY <1>1
<1>4. [r EXCEPT !.binds = b] =
        [net |-> r.net, binds |-> b, file |-> r.file, wifi |-> r.wifi, wired |-> r.wired]
  BY DEF IsRouter
<1>5. QED
  BY <1>2, <1>3, <1>4

\* A router with another host file is one.
LEMMA FileReplaced ==
  ASSUME NEW r, IsRouter(r), NEW f \in FileSet, OneAnswer(f)
  PROVE  LET t == [r EXCEPT !.file = f] IN IsRouter(t) /\ OtherFile(t, r) /\ t.file = f
<1> DEFINE t == [r EXCEPT !.file = f]
<1>1. t = [net |-> r.net, binds |-> r.binds, file |-> f, wifi |-> r.wifi, wired |-> r.wired]
  BY DEF IsRouter
<1> HIDE DEF t
<1>2. /\ t.net = r.net /\ t.binds = r.binds /\ t.file = f /\ t.wifi = r.wifi /\ t.wired = r.wired
      /\ t = [net |-> t.net, binds |-> t.binds, file |-> t.file, wifi |-> t.wifi, wired |-> t.wired]
  BY <1>1
<1>3. QED
  BY <1>2 DEF IsRouter, OtherFile, t

\* The domain step leaves a router whose domain is the profile's, if that has one.
LEMMA DomainSetOf ==
  ASSUME NEW r, IsRouter(r), IsProfile(saved)
  PROVE  /\ IsRouter(DomainSet(r)) /\ OtherFile(DomainSet(r), r)
         /\ ~modes.dry /\ ~DomainFails(r) => SameDomain(DomainSet(r), saved)
         /\ DomainSet(r).file \in {r.file, Requalify(r.file, saved.domain)}
<1> DEFINE t == [r EXCEPT !.file = Requalify(r.file, saved.domain)]
<1>1. CASE saved.domain \in {NoDomain, r.file.domain} \/ modes.dry \/ DomainFails(r)
  BY <1>1 DEF DomainSet, SameDomain, OtherFile
<1>2. CASE ~(saved.domain \in {NoDomain, r.file.domain} \/ modes.dry \/ DomainFails(r))
  <2>1. DomainSet(r) = t
    BY <1>2 DEF DomainSet
  <2>2. r.file \in FileSet /\ saved.domain \in Domains
    BY DEF IsRouter, IsProfile
  <2>3. /\ Requalify(r.file, saved.domain) \in FileSet
        /\ OneAnswer(Requalify(r.file, saved.domain))
        /\ Requalify(r.file, saved.domain).domain = saved.domain
    BY <2>2, RequalifyKeepsOne
  <2>4. IsRouter(t) /\ OtherFile(t, r) /\ t.file = Requalify(r.file, saved.domain)
    BY <2>3, FileReplaced
  <2> HIDE DEF t
  <2>5. QED
    BY <2>1, <2>3, <2>4 DEF SameDomain
<1>3. QED
  BY <1>1, <1>2

\* The network step leaves a router with the profile's network, whose binds are renumbered;
\* they are the same when the subnet is.
LEMMA NetworkSetOf ==
  ASSUME NEW r, IsRouter(r), IsProfile(saved)
  PROVE  /\ IsRouter(NetworkSet(r)) /\ OtherNet(NetworkSet(r), r)
         /\ SameNetwork(NetworkSet(r).net, saved.net)
         /\ A!SameSubnet(r.net, NetworkSet(r).net) => NetworkSet(r).binds = r.binds
<1> DEFINE net == [saved.net EXCEPT !.on = r.net.on]
           ip(b) == A!Renumbered(r.net, saved.net, b.ip)
           new(b) == [b EXCEPT !.ip = ip(b)]
           binds == {new(b) : b \in r.binds}
           t == NetworkSet(r)
<1>1. r.net \in A!Net /\ saved.net \in A!Net /\ r.binds \subseteq BindSet /\ OnePerMAC(r.binds)
  BY DEF IsRouter, IsProfile
<1>2. net \in A!Net /\ net.ip = saved.net.ip /\ net.mask = saved.net.mask
      /\ net.start = saved.net.start /\ net.stop = saved.net.stop
  BY <1>1 DEF A!Net
<1>3. ASSUME NEW b \in r.binds
      PROVE  /\ new(b) \in BindSet /\ new(b).mac = b.mac
             /\ A!SameSubnet(r.net, saved.net) => new(b) = b
  <2>1. b = [mac |-> b.mac, name |-> b.name, ip |-> b.ip]
        /\ b.mac \in STRING /\ b.name \in STRING /\ b.ip \in Int
    BY <1>1 DEF BindSet
  <2>2. ip(b) \in Int /\ (A!SameSubnet(r.net, saved.net) => ip(b) = b.ip)
    BY <1>1, <2>1, RenumberedOf
  <2> DEFINE a == ip(b)
  <2>3. new(b) = [mac |-> b.mac, name |-> b.name, ip |-> a]
    BY <2>1
  <2> HIDE DEF a, new
  <2>4. QED
    BY <2>1, <2>2, <2>3 DEF BindSet, a
<1>4. t = [net |-> net, binds |-> binds, file |-> r.file, wifi |-> r.wifi, wired |-> r.wired]
  <2>1. t = [r EXCEPT !.net = net, !.binds = binds]
    BY Zenon DEF NetworkSet
  <2> HIDE DEF net, binds, t
  <2>2. QED
    BY <2>1, Rewritten
<1> HIDE DEF net, new, t
<1>5. /\ t.net = net /\ t.binds = binds /\ t.file = r.file /\ t.wifi = r.wifi /\ t.wired = r.wired
      /\ t = [net |-> t.net, binds |-> t.binds, file |-> t.file, wifi |-> t.wifi, wired |-> t.wired]
  BY <1>4
<1>6. binds \subseteq BindSet /\ OnePerMAC(binds)
  <2>1. binds \subseteq BindSet
    BY <1>3
  <2>2. ASSUME NEW b \in r.binds, NEW c \in r.binds, new(b).mac = new(c).mac PROVE new(b) = new(c)
    BY <1>1, <1>3, <2>2 DEF OnePerMAC
  <2>3. QED
    BY <2>1, <2>2 DEF OnePerMAC
<1>7. A!SameSubnet(r.net, saved.net) => binds = r.binds
  BY <1>3
<1> HIDE DEF binds
<1>8. IsRouter(t) /\ OtherNet(t, r)
  BY <1>2, <1>5, <1>6 DEF IsRouter, OtherNet
<1>9. SameNetwork(t.net, saved.net)
  BY <1>2, <1>5 DEF SameNetwork, A!SameSubnet
<1>10. A!SameSubnet(r.net, t.net) => t.binds = r.binds
  BY <1>2, <1>5, <1>7 DEF A!SameSubnet
<1>11. QED
  BY <1>8, <1>9, <1>10 DEF t

\* A reservation, once written, is bound; those of other hosts stay.
LEMMA ReservationSetOf ==
  ASSUME NEW r, IsRouter(r), NEW b \in BindSet
  PROVE  /\ IsRouter(ReservationSet(r, b)) /\ OtherBinds(ReservationSet(r, b), r)
         /\ \A c \in r.binds : c.mac # b.mac => c \in ReservationSet(r, b).binds
         /\ ~modes.dry /\ ~ReservationFails(r, b) => Bound(ReservationSet(r, b), b)
         /\ ReservationSet(r, b) = r \/ (~modes.dry /\ r.file.domain # NoDomain)
         /\ Bound(r, b) => ReservationSet(r, b) = r
<1> DEFINE binds == {c \in r.binds : c.mac # b.mac} \cup {b}
           t == [r EXCEPT !.binds = binds]
<1>1. CASE Bound(r, b) \/ modes.dry \/ r.file.domain = NoDomain
  BY <1>1 DEF ReservationSet, ReservationFails, OtherBinds
<1>2. CASE ~(Bound(r, b) \/ modes.dry \/ r.file.domain = NoDomain)
  <2>1. ReservationSet(r, b) = t
    BY <1>2 DEF ReservationSet
  <2>2. t = [net |-> r.net, binds |-> binds, file |-> r.file, wifi |-> r.wifi, wired |-> r.wired]
    <3> HIDE DEF binds
    <3>1. QED
      BY Rewritten
  <2>3. /\ binds \subseteq BindSet /\ OnePerMAC(binds) /\ b \in binds
        /\ \A c \in r.binds : c.mac # b.mac => c \in binds
    BY DEF IsRouter, OnePerMAC
  <2> HIDE DEF binds, t
  <2>4. /\ t.net = r.net /\ t.binds = binds /\ t.file = r.file /\ t.wifi = r.wifi /\ t.wired = r.wired
        /\ t = [net |-> t.net, binds |-> t.binds, file |-> t.file, wifi |-> t.wifi, wired |-> t.wired]
    BY <2>2
  <2>5. IsRouter(t) /\ OtherBinds(t, r)
    BY <2>3, <2>4 DEF IsRouter, OtherBinds
  <2>6. Bound(t, b)
    BY <2>3, <2>4 DEF Bound
  <2>7. QED
    BY <1>2, <2>1, <2>3, <2>4, <2>5, <2>6
<1>3. QED
  BY <1>1, <1>2

\* A reservation that is written leaves the others bound, as the profile has one for a host.
LEMMA BoundStays ==
  ASSUME NEW r, IsRouter(r), IsProfile(saved), NEW b \in saved.binds, NEW c \in saved.binds,
         Bound(r, c)
  PROVE  Bound(ReservationSet(r, b), c)
<1>1. b \in BindSet /\ c \in BindSet
  BY DEF IsProfile
<1>2. CASE c = b
  <2>1. ReservationSet(r, b) = r
    BY <1>1, <1>2, ReservationSetOf
  <2>2. QED
    BY <2>1
<1>3. CASE c # b
  <2>1. PICK d \in r.binds : d.mac = c.mac /\ d.ip = c.ip
    BY DEF Bound
  <2>2. d.mac # b.mac
    BY <1>3, <2>1 DEF IsProfile, OnePerMAC
  <2>3. d \in ReservationSet(r, b).binds
    BY <1>1, <2>2, ReservationSetOf
  <2>4. QED
    BY <2>1, <2>3 DEF Bound
<1>4. QED
  BY <1>2, <1>3

\* A wireless entry, once written, is applied; the settings it does not give stay, as does
\* every other device.
LEMMA WifiSetOf ==
  ASSUME NEW r, IsRouter(r), IsProfile(saved), NEW w \in saved.wifi
  PROVE  /\ IsRouter(WifiSet(r, w)) /\ OtherWifi(WifiSet(r, w), r)
         /\ DOMAIN WifiSet(r, w).wifi = DOMAIN r.wifi
         /\ \A d \in DOMAIN r.wifi : d # w.device => WifiSet(r, w).wifi[d] = r.wifi[d]
         /\ \A d \in DOMAIN r.wifi : \A s \in DOMAIN r.wifi[d] :
              (d = w.device => Given(w, s) = NoSetting) => WifiSet(r, w).wifi[d][s] = r.wifi[d][s]
         /\ ~modes.dry => Applied(WifiSet(r, w), w)
         /\ Applied(r, w) => WifiSet(r, w) = r
<1> DEFINE d == w.device
           have == r.wifi[d]
           new == [s \in DOMAIN have |-> IF s \in Changes(w, have) THEN Given(w, s) ELSE have[s]]
           wifi == [r.wifi EXCEPT ![d] = new]
           t == [r EXCEPT !.wifi = wifi]
<1>1. CASE ~WifiDiffers(r, w) \/ modes.dry
  <2>1. WifiSet(r, w) = r
    BY <1>1 DEF WifiSet
  <2>2. ~modes.dry => Applied(r, w)
    BY <1>1 DEF WifiDiffers, Applied, Changes
  <2>3. QED
    BY <2>1, <2>2 DEF OtherWifi
<1>2. CASE ~(~WifiDiffers(r, w) \/ modes.dry)
  <2>1. WifiSet(r, w) = t /\ d \in DOMAIN r.wifi /\ Changes(w, have) # {}
    BY <1>2 DEF WifiSet, WifiDiffers
  <2>2. t = [net |-> r.net, binds |-> r.binds, file |-> r.file, wifi |-> wifi, wired |-> r.wired]
    BY DEF IsRouter
  <2>3. /\ r.wifi = [e \in DOMAIN r.wifi |-> [s \in Settings[e] |-> r.wifi[e][s]]]
        /\ DOMAIN r.wifi \subseteq DOMAIN Settings
        /\ \A e \in DOMAIN r.wifi : \A s \in Settings[e] : r.wifi[e][s] # NoSetting
    BY DEF IsRouter
  <2>4. DOMAIN have = Settings[d] /\ DOMAIN w.settings = Settings[d]
    BY <2>1, <2>3 DEF IsProfile
  <2>5. /\ wifi = [e \in DOMAIN r.wifi |-> IF e = d THEN new ELSE r.wifi[e]]
        /\ DOMAIN wifi = DOMAIN r.wifi /\ wifi[d] = new
        /\ \A e \in DOMAIN r.wifi : e # d => wifi[e] = r.wifi[e]
    BY <2>1, <2>3
  <2>6. \A s \in Changes(w, have) : s \in Settings[d] /\ Given(w, s) # NoSetting
                                    /\ Given(w, s) # have[s]
    BY <2>4 DEF Changes
  <2>7. \A s \in Settings[d] : s \notin Changes(w, have) => Given(w, s) \in {NoSetting, have[s]}
    BY <2>4 DEF Changes
  <2>8. /\ new = [s \in Settings[d] |-> new[s]]
        /\ \A s \in Settings[d] : new[s] = IF s \in Changes(w, have) THEN Given(w, s) ELSE have[s]
    BY <2>4
  <2> DEFINE changes == Changes(w, have)
  <2> HIDE DEF new, wifi, t, have, changes
  <2>9. /\ t.net = r.net /\ t.binds = r.binds /\ t.file = r.file /\ t.wifi = wifi /\ t.wired = r.wired
        /\ t = [net |-> t.net, binds |-> t.binds, file |-> t.file, wifi |-> t.wifi, wired |-> t.wired]
    BY <2>2
  <2>10. wifi = [e \in DOMAIN wifi |-> [s \in Settings[e] |-> wifi[e][s]]]
    <3>1. ASSUME NEW e \in DOMAIN r.wifi PROVE wifi[e] = [s \in Settings[e] |-> wifi[e][s]]
      <4>1. CASE e = d
        BY <2>5, <2>8, <4>1
      <4>2. CASE e # d
        <5>1. r.wifi[e] = [s \in Settings[e] |-> r.wifi[e][s]]
          BY <2>3
        <5>2. QED
          BY <2>5, <4>2, <5>1
      <4>3. QED
        BY <4>1, <4>2
    <3>2. QED
      BY <2>5, <3>1
  <2>11. IsRouter(t) /\ OtherWifi(t, r)
    <3>1. ASSUME NEW e \in DOMAIN wifi, NEW s \in Settings[e] PROVE wifi[e][s] # NoSetting
      <4>1. CASE e = d
        <5>1. d \in DOMAIN r.wifi /\ s \in Settings[d] /\ wifi[e] = new
          BY <2>1, <2>5, <4>1
        <5>2. have[s] # NoSetting
          BY <2>3, <5>1 DEF have
        <5>3. new[s] = IF s \in Changes(w, have) THEN Given(w, s) ELSE have[s]
          BY <2>8, <5>1
        <5>4. QED
          BY <2>6, <5>1, <5>2, <5>3
      <4>2. CASE e # d
        BY <2>3, <2>5, <4>2
      <4>3. QED
        BY <4>1, <4>2
    <3>2. QED
      BY <2>3, <2>5, <2>9, <2>10, <3>1 DEF IsRouter, OtherWifi
  <2>12. Applied(t, w)
    BY <2>4, <2>5, <2>7, <2>8, <2>9 DEF Applied, changes
  <2>13. ~Applied(r, w)
    <3>1. PICK s \in changes : TRUE
      BY <2>1 DEF changes
    <3>2. s \in DOMAIN w.settings /\ Given(w, s) \notin {NoSetting, r.wifi[w.device][s]}
      BY <2>4, <2>6 DEF changes, have
    <3>3. QED
      BY <2>1, <3>2 DEF Applied
  <2>14. ASSUME NEW e \in DOMAIN r.wifi, NEW s \in DOMAIN r.wifi[e],
                e = d => Given(w, s) = NoSetting
         PROVE  t.wifi[e][s] = r.wifi[e][s]
    <3>1. CASE e = d
      <4>1. s \notin changes /\ s \in Settings[d]
        BY <2>4, <2>6, <2>14, <3>1 DEF have, changes
      <4>2. QED
        BY <2>5, <2>8, <2>9, <3>1, <4>1 DEF have, changes
    <3>2. CASE e # d
      BY <2>5, <2>9, <3>2
    <3>3. QED
      BY <3>1, <3>2
  <2>15. QED
    BY <2>1, <2>5, <2>9, <2>11, <2>12, <2>13, <2>14
<1>3. QED
  BY <1>1, <1>2

-----------------------------------------------------------------------------
(* The names.                                                              *)

\* The entry of one host is written, if the file does not answer it as the profile does.
LEMMA SetIfDiffersOf ==
  ASSUME NEW f \in FileSet, NEW e \in EntrySet
  PROVE  /\ SetIfDiffers(f, e) \in FileSet
         /\ SetIfDiffers(f, e).domain = f.domain
         /\ OneAnswer(f) => OneAnswer(SetIfDiffers(f, e))
         /\ Sought(f, e) => Lookup(SetIfDiffers(f, e), e.names[1]) = e.ip
         /\ \A m \in NameSet : FirstLabel(m) # FirstLabel(e.names[1]) =>
              Lookup(SetIfDiffers(f, e), m) = Lookup(f, m)
         /\ Lookup(f, e.names[1]) = e.ip \/ ~Accepted(e) => SetIfDiffers(f, e) = f
         /\ \A W : Worded(f, W) /\ e.names[1] \in W => Worded(SetIfDiffers(f, e), W)
<1>1. e.names[1] \in NameSet /\ e.ip \in Nat \ {NoAddress}
  <2>1. e.names \in Seq(NameSet) /\ e.names # <<>> /\ e.ip \in Nat \ {NoAddress}
    BY DEF EntrySet
  <2>2. QED
    BY <2>1
<1>2. CASE Lookup(f, e.names[1]) = e.ip \/ ~Accepted(e)
  BY <1>2 DEF SetIfDiffers, Sought
<1>3. CASE ~(Lookup(f, e.names[1]) = e.ip \/ ~Accepted(e))
  <2>1. SetIfDiffers(f, e) = SetName(f, e.names[1], e.ip)
    BY <1>3 DEF SetIfDiffers
  <2>2. /\ SetName(f, e.names[1], e.ip) \in FileSet
        /\ SetName(f, e.names[1], e.ip).domain = f.domain
        /\ Sought(f, e) => Lookup(SetName(f, e.names[1], e.ip), e.names[1]) = e.ip
    BY <1>1, SetKeepsType, SetAnswers DEF Sought
  <2>3. OneAnswer(f) => OneAnswer(SetName(f, e.names[1], e.ip))
    BY <1>1, SetKeepsOne
  <2>4. ASSUME NEW m \in NameSet, FirstLabel(m) # FirstLabel(e.names[1])
        PROVE  Lookup(SetName(f, e.names[1], e.ip), m) = Lookup(f, m)
    <3>1. BothForms(f, m) \cap Spellings(f, e.names[1]) = {}
      BY <1>1, <2>4, LabelsApart
    <3>2. QED
      BY <1>1, <3>1, SetKeepsOthers
  <2>5. ASSUME NEW W, Worded(f, W), e.names[1] \in W
        PROVE  Worded(SetName(f, e.names[1], e.ip), W)
    BY <1>1, <2>5, SetWorded
  <2>6. QED
    BY <1>3, <2>1, <2>2, <2>3, <2>4, <2>5
<1>4. QED
  BY <1>2, <1>3

NamedPrefixes(named, f, hosts, X) ==
  /\ named \in [0 .. Len(hosts) -> X]
  /\ named[0] = f
  /\ \A n \in 1 .. Len(hosts) : named[n] = SetIfDiffers(named[n-1], hosts[n])
  /\ Named(f, hosts) = named[Len(hosts)]

\* The loop over the names, one entry after the other: what holds of the file and is kept
\* by each of them holds throughout.
LEMMA NamedRecursion ==
  ASSUME NEW f, NEW hosts \in Seq(EntrySet), NEW X, f \in X,
         \A x \in X, i \in DOMAIN hosts : SetIfDiffers(x, hosts[i]) \in X
  PROVE  \E named : NamedPrefixes(named, f, hosts, X)
<1> DEFINE N == Len(hosts)
           G == [i \in 1 .. N |-> [x \in X |-> SetIfDiffers(x, hosts[i])]]
<1>1. N \in Nat /\ f \in X /\ \A x \in X, i \in 1 .. N : SetIfDiffers(x, hosts[i]) \in X
  OBVIOUS
<1>2. G \in [1 .. N -> [X -> X]]
  BY <1>1
<1>3. \A i \in 1 .. N, x \in X : G[i][x] = SetIfDiffers(x, hosts[i])
  OBVIOUS
<1>4. Iterable(N, X, f, G)
  <2> HIDE DEF N, G
  <2>1. QED
    BY <1>1, <1>2, Recursion
<1>5. PICK g \in [0 .. N -> X] :
        g[0] = f /\ \A i \in 1 .. N : g[i] = SetIfDiffers(g[i-1], hosts[i])
  <2>1. PICK g \in [0 .. N -> X] : g[0] = f /\ \A i \in 1 .. N : g[i] = G[i][g[i-1]]
    BY <1>4 DEF Iterable
  <2> HIDE DEF G, N
  <2>2. ASSUME NEW i \in 1 .. N PROVE g[i] = SetIfDiffers(g[i-1], hosts[i])
    <3>1. g[i-1] \in X
      BY <1>1
    <3>2. G[i][g[i-1]] = SetIfDiffers(g[i-1], hosts[i])
      BY <1>3, <3>1
    <3>3. QED
      BY <2>1, <3>2
  <2>3. QED
    BY <2>1, <2>2
<1> HIDE DEF G
<1>6. g = [n \in 0 .. N |-> IF n = 0 THEN f ELSE SetIfDiffers(g[n-1], hosts[n])]
  <2>1. \A n \in 0 .. N : n = 0 \/ n \in 1 .. N
    BY <1>1
  <2> HIDE DEF N
  <2>2. QED
    BY <1>5, <2>1
<1> HIDE DEF N
<1> DEFINE named[n \in 0 .. N] == IF n = 0 THEN f ELSE SetIfDiffers(named[n-1], hosts[n])
<1>7. named = [n \in 0 .. N |-> IF n = 0 THEN f ELSE SetIfDiffers(named[n-1], hosts[n])]
  <2>1. \E h : h = [n \in 0 .. N |-> IF n = 0 THEN f ELSE SetIfDiffers(h[n-1], hosts[n])]
    BY <1>6
  <2>2. QED
    BY <2>1, Zenon
<1>8. Named(f, hosts) = named[N]
  BY Zenon DEF Named, N
<1> HIDE DEF named
<1>9. named[0] = f
  <2>1. 0 \in 0 .. N
    BY <1>1
  <2>2. QED
    BY <2>1, <1>7, Zenon
<1>10. ASSUME NEW n \in 1 .. N PROVE named[n] = SetIfDiffers(named[n-1], hosts[n])
  <2>1. n \in 0 .. N /\ n # 0
    BY <1>1
  <2>2. QED
    BY <2>1, <1>7, Zenon
<1> DEFINE P == {n \in 0 .. N : named[n] = g[n]}
<1>11. 0 \in P
  BY <1>1, <1>5, <1>9
<1>12. ASSUME NEW n \in P, n # N PROVE n + 1 \in P
  <2>1. n + 1 \in 1 .. N /\ (n + 1) - 1 = n
    BY <1>1, <1>12
  <2>2. QED
    BY <2>1, <1>5, <1>10
<1>13. P \in SUBSET (0 .. N)
  OBVIOUS
<1>14. N \in P
  <2> HIDE DEF P
  <2>1. QED
    BY <1>1, <1>11, <1>12, <1>13, Induction
<1>15. NamedPrefixes(g, f, hosts, X)
  BY <1>5, <1>8, <1>14 DEF NamedPrefixes, N
<1>16. QED
  BY <1>15

\* The names step leaves a file with at most one answer for each name, in which every host
\* that the profile does not name answers as before; it is the same file if the hosts of the
\* profile already answered.
LEMMA NamedOf ==
  ASSUME NEW f \in FileSet, NEW hosts \in Seq(EntrySet)
  PROVE  /\ Named(f, hosts) \in FileSet /\ Named(f, hosts).domain = f.domain
         /\ OneAnswer(f) => OneAnswer(Named(f, hosts))
         /\ \A m \in NameSet : (\A j \in DOMAIN hosts : FirstLabel(hosts[j].names[1]) # FirstLabel(m)) =>
              Lookup(Named(f, hosts), m) = Lookup(f, m)
         /\ (\A j \in DOMAIN hosts : Lookup(f, hosts[j].names[1]) = hosts[j].ip \/ ~Accepted(hosts[j])) =>
              Named(f, hosts) = f
         /\ \A W : Worded(f, W) /\ (\A j \in DOMAIN hosts : hosts[j].names[1] \in W) =>
              Worded(Named(f, hosts), W)
<1>1. Len(hosts) \in 0 .. Len(hosts) /\ \A i \in DOMAIN hosts : hosts[i] \in EntrySet
  OBVIOUS
<1>2. ASSUME NEW X, f \in X, \A x \in X, i \in DOMAIN hosts : SetIfDiffers(x, hosts[i]) \in X
      PROVE  Named(f, hosts) \in X
  <2>1. PICK named : NamedPrefixes(named, f, hosts, X)
    BY <1>2, NamedRecursion
  <2>2. QED
    BY <1>1, <2>1 DEF NamedPrefixes
<1>3. Named(f, hosts) \in FileSet /\ Named(f, hosts).domain = f.domain
  <2> DEFINE X == {x \in FileSet : x.domain = f.domain}
  <2>1. \A x \in X, i \in DOMAIN hosts : SetIfDiffers(x, hosts[i]) \in X
    BY <1>1, SetIfDiffersOf
  <2>2. f \in X
    OBVIOUS
  <2>3. Named(f, hosts) \in X
    <3> HIDE DEF X
    <3>1. QED
      BY <1>2, <2>1, <2>2
  <2>4. QED
    BY <2>3
<1>4. ASSUME OneAnswer(f) PROVE OneAnswer(Named(f, hosts))
  <2> DEFINE X == {x \in FileSet : OneAnswer(x)}
  <2>1. \A x \in X, i \in DOMAIN hosts : SetIfDiffers(x, hosts[i]) \in X
    BY <1>1, SetIfDiffersOf
  <2>2. f \in X
    BY <1>4
  <2>3. Named(f, hosts) \in X
    <3> HIDE DEF X
    <3>1. QED
      BY <1>2, <2>1, <2>2
  <2>4. QED
    BY <2>3
<1>5. ASSUME NEW m \in NameSet, \A j \in DOMAIN hosts : FirstLabel(hosts[j].names[1]) # FirstLabel(m)
      PROVE  Lookup(Named(f, hosts), m) = Lookup(f, m)
  <2> DEFINE X == {x \in FileSet : Lookup(x, m) = Lookup(f, m)}
  <2>1. \A x \in X, i \in DOMAIN hosts : SetIfDiffers(x, hosts[i]) \in X
    BY <1>1, <1>5, SetIfDiffersOf
  <2>2. f \in X
    OBVIOUS
  <2>3. Named(f, hosts) \in X
    <3> HIDE DEF X
    <3>1. QED
      BY <1>2, <2>1, <2>2
  <2>4. QED
    BY <2>3
<1>6. ASSUME \A j \in DOMAIN hosts : Lookup(f, hosts[j].names[1]) = hosts[j].ip \/ ~Accepted(hosts[j])
      PROVE  Named(f, hosts) = f
  <2>1. \A x \in {f}, i \in DOMAIN hosts : SetIfDiffers(x, hosts[i]) \in {f}
    BY <1>1, <1>6, SetIfDiffersOf
  <2>2. Named(f, hosts) \in {f}
    BY <1>2, <2>1
  <2>3. QED
    BY <2>2
<1>7. ASSUME NEW W, Worded(f, W), \A j \in DOMAIN hosts : hosts[j].names[1] \in W
      PROVE  Worded(Named(f, hosts), W)
  <2> DEFINE X == {x \in FileSet : Worded(x, W)}
  <2>1. \A x \in X, i \in DOMAIN hosts : SetIfDiffers(x, hosts[i]) \in X
    BY <1>1, <1>7, SetIfDiffersOf
  <2>2. f \in X
    BY <1>7
  <2>3. Named(f, hosts) \in X
    <3> HIDE DEF X
    <3>1. QED
      BY <1>2, <2>1, <2>2
  <2>4. QED
    BY <2>3
<1>8. QED
  BY <1>3, <1>4, <1>5, <1>6, <1>7

\* Under no domain Lookup finds every name, and under another only the domain counts.
LEMMA MatchedUnder ==
  ASSUME NEW f, NEW n
  PROVE  Matched(EmptyFile(NoDomain), n) /\ (Matched(EmptyFile(f.domain), n) <=> Matched(f, n))
<1>1. Matched(EmptyFile(NoDomain), n)
  BY DEF Matched, BothForms, Trimmed, UnderDomain, EmptyFile
<1>2. EmptyFile(f.domain).domain = f.domain
  BY DEF EmptyFile
<1>3. QED
  BY <1>1, <1>2, SameForms

\* After the names step every host of the profile that can be found has the address the
\* profile gives it, if it names each once and in one spelling.
LEMMA NamedAnswers ==
  ASSUME NEW f \in FileSet, NEW hosts \in Seq(EntrySet), NEW domain \in {NoDomain, f.domain},
         OneName(domain, hosts)
  PROVE  \A i \in DOMAIN hosts :
           Sought(f, hosts[i]) => Lookup(Named(f, hosts), hosts[i].names[1]) = hosts[i].ip
<1> DEFINE N == Len(hosts)
           X == {x \in FileSet : x.domain = f.domain}
<1>1. /\ N \in Nat /\ DOMAIN hosts = 1 .. N
      /\ \A i \in 1 .. N : hosts[i] \in EntrySet /\ hosts[i].names[1] \in NameSet
  <2>1. \A i \in 1 .. N : hosts[i] \in EntrySet
    OBVIOUS
  <2>2. ASSUME NEW e \in EntrySet PROVE e.names[1] \in NameSet
    <3>1. e.names \in Seq(NameSet) /\ e.names # <<>>
      BY DEF EntrySet
    <3>2. QED
      BY <3>1
  <2>3. QED
    BY <2>1, <2>2
<1>2. PICK named : NamedPrefixes(named, f, hosts, X)
  <2>1. \A x \in X, i \in DOMAIN hosts : SetIfDiffers(x, hosts[i]) \in X
    BY <1>1, SetIfDiffersOf
  <2>2. f \in X
    OBVIOUS
  <2> HIDE DEF X
  <2>3. QED
    BY <2>1, <2>2, NamedRecursion
<1>3. /\ named \in [0 .. N -> X] /\ Named(f, hosts) = named[N]
      /\ \A n \in 1 .. N : named[n] = SetIfDiffers(named[n-1], hosts[n])
  BY <1>2 DEF NamedPrefixes
<1>10. ASSUME NEW i \in 1 .. N, NEW x \in X
       PROVE  /\ Sought(x, hosts[i]) <=> Sought(f, hosts[i])
              /\ Sought(f, hosts[i]) => Matched(EmptyFile(domain), hosts[i].names[1])
  <2>1. Matched(x, hosts[i].names[1]) <=> Matched(f, hosts[i].names[1])
    BY <1>10, SameForms
  <2>2. Matched(f, hosts[i].names[1]) => Matched(EmptyFile(domain), hosts[i].names[1])
    BY MatchedUnder
  <2>3. QED
    BY <2>1, <2>2 DEF Sought
<1> HIDE DEF N
<1> DEFINE Has(n, i) == Sought(f, hosts[i]) => Lookup(named[n], hosts[i].names[1]) = hosts[i].ip
           P == {n \in 0 .. N : \A i \in 1 .. n : Has(n, i)}
<1>4. 0 \in P
  BY <1>1
<1>5. ASSUME NEW n \in P, n # N PROVE n + 1 \in P
  <2>1. n \in 0 .. N /\ n + 1 \in 1 .. N /\ (n + 1) - 1 = n /\ n + 1 \in 0 .. N
    BY <1>1, <1>5
  <2>2. /\ named[n] \in X /\ named[n] \in FileSet
        /\ named[n+1] = SetIfDiffers(named[n], hosts[n+1])
    BY <1>3, <2>1
  <2>3. Has(n+1, n+1)
    <3>1. hosts[n+1] \in EntrySet /\ (Sought(named[n], hosts[n+1]) <=> Sought(f, hosts[n+1]))
      BY <1>1, <1>10, <2>1, <2>2
    <3>2. Sought(named[n], hosts[n+1]) =>
            Lookup(SetIfDiffers(named[n], hosts[n+1]), hosts[n+1].names[1]) = hosts[n+1].ip
      <4>1. named[n] \in FileSet
        BY <2>2
      <4>2. QED
        BY <3>1, <4>1, SetIfDiffersOf
    <3>3. Lookup(named[n+1], hosts[n+1].names[1])
            = Lookup(SetIfDiffers(named[n], hosts[n+1]), hosts[n+1].names[1])
      BY <2>2
    <3>4. QED
      BY <3>1, <3>2, <3>3
  <2>4. ASSUME NEW i \in 1 .. n, Sought(f, hosts[i])
        PROVE  Lookup(named[n+1], hosts[i].names[1]) = hosts[i].ip
    <3>1. i \in 1 .. N /\ i # n + 1
      BY <1>1, <2>1
    <3>2. FirstLabel(hosts[i].names[1]) # FirstLabel(hosts[n+1].names[1])
      <4>1. Matched(EmptyFile(domain), hosts[i].names[1])
        BY <1>10, <2>2, <2>4, <3>1
      <4>2. QED
        BY <1>1, <2>1, <3>1, <4>1 DEF OneName
    <3>3. Lookup(named[n+1], hosts[i].names[1]) = Lookup(named[n], hosts[i].names[1])
      <4>1. hosts[i].names[1] \in NameSet /\ hosts[n+1] \in EntrySet
        BY <1>1, <2>1, <3>1
      <4>2. \A m \in NameSet : FirstLabel(m) # FirstLabel(hosts[n+1].names[1]) =>
              Lookup(SetIfDiffers(named[n], hosts[n+1]), m) = Lookup(named[n], m)
        BY <2>2, <4>1, SetIfDiffersOf
      <4>3. QED
        BY <2>2, <3>2, <4>1, <4>2
    <3>4. Has(n, i)
      BY <1>5
    <3>5. QED
      BY <2>4, <3>3, <3>4
  <2> HIDE DEF Has
  <2>5. \A i \in 1 .. n + 1 : Has(n+1, i)
    BY <2>1, <2>3, <2>4 DEF Has
  <2>6. QED
    BY <2>1, <2>5
<1>6. P \in SUBSET (0 .. N)
  OBVIOUS
<1>7. N \in P
  <2> HIDE DEF P
  <2>1. QED
    BY <1>1, <1>4, <1>5, <1>6, Induction
<1>8. QED
  BY <1>1, <1>3, <1>7

\* In a file with at most one answer for each name, an entry answers its first name, if that
\* is one Lookup finds.
LEMMA FirstAnswers ==
  ASSUME NEW f \in FileSet, OneAnswer(f), NEW i \in DOMAIN f.entries,
         Matched(f, f.entries[i].names[1])
  PROVE  /\ Lookup(f, f.entries[i].names[1]) = f.entries[i].ip
         /\ \A j \in DOMAIN f.entries : f.entries[j].names[1] = f.entries[i].names[1] => i = j
<1> DEFINE n == f.entries[i].names[1]
<1>1. n \in NameSet /\ n \in ToSet(f.entries[i].names) /\ n \in BothForms(f, n)
  BY FirstName, FormsOf
<1>2. \A j \in DOMAIN f.entries : j # i => ToSet(f.entries[j].names) \cap BothForms(f, n) = {}
  BY <1>1 DEF OneAnswer
<1>3. Answers(f, n) = {i}
  BY <1>1, <1>2, AnswersOf
<1>4. ~Silent(f, n)
  BY <1>1 DEF Silent
<1>5. Lookup(f, n) = f.entries[i].ip
  <2>1. Min(Answers(f, n)) \in Answers(f, n) /\ Lookup(f, n) = f.entries[Min(Answers(f, n))].ip
    BY <1>4, LookupOf
  <2> HIDE DEF n
  <2>2. QED
    BY <1>3, <2>1
<1>6. ASSUME NEW j \in DOMAIN f.entries, f.entries[j].names[1] = n PROVE i = j
  BY <1>1, <1>2, <1>6, FirstName
<1>7. QED
  BY <1>5, <1>6

\* The names step leaves a router.
LEMMA HostsSetOf ==
  ASSUME NEW r, IsRouter(r), IsProfile(saved)
  PROVE  /\ IsRouter(HostsSet(r)) /\ OtherFile(HostsSet(r), r)
         /\ HostsSet(r).file \in {r.file, Named(r.file, saved.hosts)}
         /\ HostsSet(r).file.domain = r.file.domain
         /\ ~modes.dry => HostsSet(r).file = Named(r.file, saved.hosts)
         /\ Named(r.file, saved.hosts) = r.file => HostsSet(r) = r
<1> DEFINE f == Named(r.file, saved.hosts)
           t == [r EXCEPT !.file = f]
<1>1. CASE modes.dry
  BY <1>1 DEF HostsSet, OtherFile
<1>2. CASE ~modes.dry
  <2>1. HostsSet(r) = t
    BY <1>2 DEF HostsSet
  <2>2. r.file \in FileSet /\ OneAnswer(r.file) /\ saved.hosts \in Seq(EntrySet)
    BY DEF IsRouter, IsProfile
  <2>3. f \in FileSet /\ OneAnswer(f) /\ f.domain = r.file.domain
    BY <2>2, NamedOf
  <2>4. IsRouter(t) /\ OtherFile(t, r) /\ t.file = f
    <3> HIDE DEF f
    <3>1. QED
      BY <2>3, FileReplaced
  <2>5. f = r.file => t = r
    <3> HIDE DEF f
    <3>1. QED
      BY DEF IsRouter
  <2> HIDE DEF t, f
  <2>6. QED
    BY <2>1, <2>3, <2>4, <2>5 DEF f
<1>3. QED
  BY <1>1, <1>2

\* A change of domain keeps the address of every entry's first name that Lookup finds before
\* and after, if the entries are of different hosts.
LEMMA RequalifyAnswers ==
  ASSUME NEW f \in FileSet, NEW domain \in Domains, OneName(f.domain, f.entries)
  PROVE  \A i \in DOMAIN f.entries :
           /\ Matched(f, f.entries[i].names[1])
           /\ Matched(Requalify(f, domain), f.entries[i].names[1])
           => Lookup(Requalify(f, domain), f.entries[i].names[1]) = f.entries[i].ip
<1> DEFINE E == f.entries
           N == Len(E)
           X == {x \in FileSet : x.domain = domain}
<1>1. /\ N \in Nat /\ DOMAIN E = 1 .. N
      /\ \A i \in 1 .. N : E[i].ip \in Nat \ {NoAddress} /\ E[i].names[1] \in NameSet
  <2>1. E \in Seq(EntrySet)
    BY DEF FileSet
  <2>2. N \in Nat /\ DOMAIN E = 1 .. N
    BY <2>1
  <2>3. QED
    BY <2>2, EntryOf, FirstName
<1>2. PICK moved : MovedPrefixes(moved, f, domain, X)
  <2>1. \A x \in X, i \in DOMAIN f.entries :
          SetName(x, f.entries[i].names[1], f.entries[i].ip) \in X
    BY <1>1, SetKeepsType
  <2>2. EmptyFile(domain) \in X
    BY EmptyFileOf
  <2> HIDE DEF X
  <2>3. QED
    BY <2>1, <2>2, RequalifyRecursion
<1>3. /\ moved \in [0 .. N -> X] /\ Requalify(f, domain) = moved[N]
      /\ \A n \in 1 .. N : moved[n] = SetName(moved[n-1], E[n].names[1], E[n].ip)
  BY <1>2 DEF MovedPrefixes
<1> DEFINE Both(n) == Matched(f, n) /\ Matched(EmptyFile(domain), n)
<1>4. \A i, j \in 1 .. N :
        Both(E[i].names[1]) /\ FirstLabel(E[i].names[1]) = FirstLabel(E[j].names[1]) => i = j
  BY <1>1, MatchedUnder DEF OneName
<1>10. \A x \in X, n \in NameSet : Matched(x, n) <=> Matched(EmptyFile(domain), n)
  BY MatchedUnder
<1> HIDE DEF N, E, Both
<1> DEFINE Keeps(n, i) == Both(E[i].names[1]) => Lookup(moved[n], E[i].names[1]) = E[i].ip
           P == {n \in 0 .. N : \A i \in 1 .. n : Keeps(n, i)}
<1>5. 0 \in P
  BY <1>1
<1>6. ASSUME NEW n \in P, n # N PROVE n + 1 \in P
  <2>1. n \in 0 .. N /\ n + 1 \in 1 .. N /\ (n + 1) - 1 = n /\ n + 1 \in 0 .. N
    BY <1>1, <1>6
  <2>2. /\ moved[n] \in X /\ moved[n] \in FileSet
        /\ moved[n+1] = SetName(moved[n], E[n+1].names[1], E[n+1].ip)
        /\ E[n+1].names[1] \in NameSet /\ E[n+1].ip \in Nat \ {NoAddress}
    BY <1>1, <1>3, <2>1
  <2>3. Keeps(n+1, n+1)
    <3>1. Both(E[n+1].names[1]) => Matched(moved[n], E[n+1].names[1])
      BY <1>10, <2>2 DEF Both
    <3>2. QED
      BY <2>2, <3>1, SetAnswers
  <2>4. ASSUME NEW i \in 1 .. n, Both(E[i].names[1])
        PROVE  Lookup(moved[n+1], E[i].names[1]) = E[i].ip
    <3>1. i \in 1 .. N /\ i # n + 1 /\ E[i].names[1] \in NameSet
      BY <1>1, <2>1
    <3>2. FirstLabel(E[i].names[1]) # FirstLabel(E[n+1].names[1])
      BY <1>4, <2>1, <2>4, <3>1
    <3>3. BothForms(moved[n], E[i].names[1]) \cap Spellings(moved[n], E[n+1].names[1]) = {}
      BY <2>2, <3>1, <3>2, LabelsApart
    <3>4. Lookup(moved[n+1], E[i].names[1]) = Lookup(moved[n], E[i].names[1])
      BY <2>2, <3>1, <3>3, SetKeepsOthers
    <3>5. Keeps(n, i)
      BY <1>6
    <3>6. QED
      BY <2>4, <3>4, <3>5
  <2> HIDE DEF Keeps
  <2>5. \A i \in 1 .. n + 1 : Keeps(n+1, i)
    BY <2>1, <2>3, <2>4 DEF Keeps
  <2>6. QED
    BY <2>1, <2>5
<1>7. P \in SUBSET (0 .. N)
  OBVIOUS
<1>8. N \in P
  <2> HIDE DEF P
  <2>1. QED
    BY <1>1, <1>5, <1>6, <1>7, Induction
<1>9. ASSUME NEW i \in 1 .. N, Matched(f, E[i].names[1]), Matched(moved[N], E[i].names[1])
      PROVE  Lookup(moved[N], E[i].names[1]) = E[i].ip
  <2>1. Both(E[i].names[1])
    BY <1>1, <1>3, <1>9, <1>10 DEF Both
  <2>2. QED
    BY <1>8, <2>1
<1>11. QED
  BY <1>1, <1>3, <1>9 DEF E

-----------------------------------------------------------------------------
(* Own exports.                                                            *)

\* An export is a profile that gives nothing twice.
LEMMA CapturedOf ==
  ASSUME NEW r, IsRouter(r), NEW keys \in BOOLEAN, NEW missing \in SUBSET {"hosts", "binds", "wifi"}
  PROVE  IsProfile(Captured(r, keys, missing))
<1> DEFINE p == Captured(r, keys, missing)
           Shown(d) == [s \in DOMAIN r.wifi[d] |->
                          IF s = "key" /\ ~keys THEN NoSetting ELSE r.wifi[d][s]]
           all == {[device |-> d, settings |-> Shown(d)] : d \in DOMAIN r.wifi}
<1>1. /\ p.net = r.net /\ p.domain \in {NoDomain, r.file.domain}
      /\ p.hosts = <<>> \/ (p.hosts = r.file.entries /\ p.domain = r.file.domain)
      /\ p.binds \in {{}, r.binds} /\ p.wifi \in {{}, all}
      /\ p = [net |-> p.net, domain |-> p.domain, hosts |-> p.hosts, binds |-> p.binds, wifi |-> p.wifi]
  BY DEF Captured
<1> HIDE DEF p
<1>2. p.domain \in Domains /\ p.hosts \in Seq(EntrySet)
  <2>1. r.file.domain \in Domains /\ r.file.entries \in Seq(EntrySet)
    BY DEF IsRouter, FileSet
  <2>2. NoDomain \in Domains
    BY DEF Domains, NoDomain
  <2>3. <<>> \in Seq(EntrySet)
    OBVIOUS
  <2>4. QED
    BY <1>1, <2>1, <2>2, <2>3
<1>3. \A i, j \in DOMAIN p.hosts : p.hosts[i].names[1] = p.hosts[j].names[1] =>
        i = j \/ ~Matched(EmptyFile(p.domain), p.hosts[i].names[1])
  <2>1. CASE p.hosts = <<>>
    BY <2>1
  <2>2. CASE p.hosts = r.file.entries /\ p.domain = r.file.domain
    <3>1. r.file \in FileSet /\ OneAnswer(r.file)
      BY DEF IsRouter
    <3>2. QED
      BY <2>2, <3>1, FirstAnswers, MatchedUnder
  <2>3. QED
    BY <1>1, <2>1, <2>2
<1>4. \A d \in DOMAIN r.wifi : DOMAIN r.wifi[d] = Settings[d]
  BY DEF IsRouter
<1>5. \A w \in all : w.device \in DOMAIN r.wifi /\ w = [device |-> w.device, settings |-> Shown(w.device)]
                     /\ DOMAIN w.settings = Settings[w.device]
  BY <1>4
<1> HIDE DEF all, Shown
<1>6. /\ \A v, w \in p.wifi : v.device = w.device => v = w
      /\ \A w \in p.wifi : w.device \in DOMAIN Settings => DOMAIN w.settings = Settings[w.device]
  BY <1>1, <1>5
<1>7. p.net \in A!Net /\ p.binds \subseteq BindSet /\ OnePerMAC(p.binds)
  BY <1>1 DEF IsRouter, OnePerMAC
<1>8. QED
  BY <1>1, <1>2, <1>3, <1>6, <1>7 DEF IsProfile, p

\* A router has everything that its own export says.
LEMMA OwnMatches ==
  ASSUME NEW r, IsRouter(r), NEW keys \in BOOLEAN, NEW missing \in SUBSET {"hosts", "binds", "wifi"},
         NEW p, p = Captured(r, keys, missing)
  PROVE  /\ p.net = r.net /\ p.domain \in {NoDomain, r.file.domain}
         /\ \A b \in p.binds : Bound(r, b)
         /\ Findable(p) => \A i \in DOMAIN p.hosts :
              Lookup(r.file, p.hosts[i].names[1]) = p.hosts[i].ip \/ ~Accepted(p.hosts[i])
         /\ \A w \in p.wifi : Applied(r, w)
<1> DEFINE Shown(d) == [s \in DOMAIN r.wifi[d] |->
                          IF s = "key" /\ ~keys THEN NoSetting ELSE r.wifi[d][s]]
           all == {[device |-> d, settings |-> Shown(d)] : d \in DOMAIN r.wifi}
<1>1. /\ p.net = r.net /\ p.domain \in {NoDomain, r.file.domain}
      /\ p.hosts = <<>> \/ (p.hosts = r.file.entries /\ p.domain = r.file.domain)
      /\ p.binds \in {{}, r.binds} /\ p.wifi \in {{}, all}
  BY DEF Captured
<1>2. \A b \in p.binds : Bound(r, b)
  BY <1>1 DEF Bound
<1>3. ASSUME Findable(p), NEW i \in DOMAIN p.hosts
      PROVE  Lookup(r.file, p.hosts[i].names[1]) = p.hosts[i].ip \/ ~Accepted(p.hosts[i])
  <2>1. CASE p.hosts = <<>>
    BY <2>1
  <2>2. CASE p.hosts = r.file.entries /\ p.domain = r.file.domain
    <3>1. r.file \in FileSet /\ OneAnswer(r.file)
      BY DEF IsRouter
    <3>2. Matched(r.file, p.hosts[i].names[1]) \/ ~Accepted(p.hosts[i])
      BY <1>3, <2>2, MatchedUnder DEF Findable
    <3>3. QED
      BY <2>2, <3>1, <3>2, FirstAnswers
  <2>3. QED
    BY <1>1, <2>1, <2>2
<1>4. ASSUME NEW w \in p.wifi PROVE Applied(r, w)
  <2>1. w \in all
    BY <1>1
  <2>2. PICK d \in DOMAIN r.wifi : w = [device |-> d, settings |-> Shown(d)]
    BY <2>1
  <2>3. w.device = d /\ w.settings = Shown(d)
    BY <2>2
  <2>4. ASSUME NEW s \in DOMAIN r.wifi[d] PROVE Given(w, s) \in {NoSetting, r.wifi[d][s]}
    <3>1. r.wifi[d][s] # NoSetting
      BY DEF IsRouter
    <3>2. CASE s = "key" /\ ~keys
      BY <2>3, <3>2 DEF Given, Zero
    <3>3. CASE ~(s = "key" /\ ~keys)
      BY <2>3, <3>1, <3>3 DEF Given
    <3>4. QED
      BY <3>2, <3>3
  <2> HIDE DEF Shown
  <2>5. DOMAIN w.settings = DOMAIN r.wifi[d]
    BY <2>3 DEF Shown
  <2>6. QED
    BY <2>3, <2>4, <2>5 DEF Applied
<1>5. QED
  BY <1>1, <1>2, <1>3, <1>4

-----------------------------------------------------------------------------
(* What a step may write.                                                  *)

\* The router that is imported to becomes new, in the way of the section at work.
Writes(new) ==
  \/ new = Router
  \/ pc = "domain" /\ new = DomainSet(Router)
  \/ pc = "setNetwork" /\ new = NetworkSet(Router)
  \/ pc = "reservation" /\ \E b \in todo : new = ReservationSet(Router, b)
  \/ pc = "hosts" /\ new = HostsSet(Router)
  \/ pc = "wifi" /\ \E w \in todo : new = WifiSet(Router, w)

\* A step writes to the target only; one that changes the profile or the target writes nothing.
Effect(new) ==
  /\ Writes(new) /\ routers' = [routers EXCEPT ![target] = new]
  /\ UNCHANGED <<profileVars, target, modes>> \/ new = Router

\* Every step is such a write.
LEMMA Effects ==
  ASSUME TypeOK, [Next]_vars
  PROVE  \E new : Effect(new)
<1>1. CASE UNCHANGED routers
  <2>1. routers' = [routers EXCEPT ![target] = Router]
    BY <1>1 DEF TypeOK, Router
  <2>2. QED
    BY <2>1 DEF Effect, Writes
<1>2. CASE ~UNCHANGED routers
  <2>1. CASE Domain
    BY <1>2, <2>1 DEF Domain, Effect, Writes, Router
  <2>2. CASE SetNetwork
    BY <1>2, <2>2 DEF SetNetwork, Effect, Writes, Router
  <2>3. CASE SetHosts
    BY <1>2, <2>3 DEF SetHosts, Effect, Writes, Router
  <2>4. ASSUME NEW b \in saved.binds, SetReservation(b) PROVE \E new : Effect(new)
    BY <1>2, <2>4 DEF SetReservation, Effect, Writes, Router
  <2>5. ASSUME NEW w \in saved.wifi, SetWifi(w) PROVE \E new : Effect(new)
    BY <1>2, <2>5 DEF SetWifi, Effect, Writes, Router
  <2>6. CASE Unanswered
    BY <1>2, <2>6 DEF Unanswered, Effect, Writes, Router
  <2>7. QED
    BY <1>2, <2>1, <2>2, <2>3, <2>4, <2>5, <2>6
       DEF Next, Export, Start, ReadNetwork, ListReservations, Fail, Lost, vars
<1>3. QED
  BY <1>1, <1>2

\* Whatever is written is a router.
LEMMA WritesRouter ==
  ASSUME TypeOK, SectionInv, NEW new, Writes(new)
  PROVE  IsRouter(new)
<1>1. IsRouter(Router) /\ IsProfile(saved)
  BY DEF TypeOK, Router
<1>2. ASSUME pc = "reservation", NEW b \in todo PROVE IsRouter(ReservationSet(Router, b))
  <2>1. b \in BindSet
    BY <1>1, <1>2 DEF SectionInv, IsProfile
  <2>2. QED
    BY <1>1, <2>1, ReservationSetOf
<1>3. ASSUME pc = "wifi", NEW w \in todo PROVE IsRouter(WifiSet(Router, w))
  BY <1>1, <1>3, WifiSetOf DEF SectionInv
<1>4. IsRouter(DomainSet(Router)) /\ IsRouter(NetworkSet(Router)) /\ IsRouter(HostsSet(Router))
  BY <1>1, DomainSetOf, NetworkSetOf, HostsSetOf
<1>5. QED
  BY <1>1, <1>2, <1>3, <1>4 DEF Writes

\* An import of a router's own export writes nothing, if its names can be found.
LEMMA OwnUnwritten ==
  ASSUME ProfileInv, target = from, Findable(saved), NEW new, Writes(new)
  PROVE  new = Router
<1>1. IsRouter(Router) /\ IsProfile(saved) /\ from \in Routers /\ Router = routers[from]
  BY DEF ProfileInv, TypeOK, Router
<1>2. PICK keys \in BOOLEAN, missing \in SUBSET {"hosts", "binds", "wifi"} :
        saved = Captured(Router, keys, missing)
  BY <1>1 DEF ProfileInv, Own
<1>3. /\ saved.net = Router.net /\ saved.domain \in {NoDomain, Router.file.domain}
      /\ \A b \in saved.binds : Bound(Router, b)
      /\ \A i \in DOMAIN saved.hosts :
           \/ Lookup(Router.file, saved.hosts[i].names[1]) = saved.hosts[i].ip
           \/ ~Accepted(saved.hosts[i])
      /\ \A w \in saved.wifi : Applied(Router, w)
  BY <1>1, <1>2, OwnMatches
<1>4. DomainSet(Router) = Router
  BY <1>3 DEF DomainSet
<1>5. pc # "setNetwork"
  BY <1>3 DEF ProfileInv, SectionInv, Moving, PoolChanging, A!SameSubnet
<1>6. HostsSet(Router) = Router
  <2>1. Router.file \in FileSet /\ saved.hosts \in Seq(EntrySet)
    BY <1>1 DEF IsRouter, IsProfile
  <2>2. Named(Router.file, saved.hosts) = Router.file
    BY <1>3, <2>1, NamedOf
  <2>3. QED
    BY <1>1, <2>2, HostsSetOf
<1>7. ASSUME pc = "reservation", NEW b \in todo PROVE ReservationSet(Router, b) = Router
  <2>1. b \in saved.binds
    BY <1>7 DEF ProfileInv, SectionInv
  <2>2. Bound(Router, b)
    BY <1>3, <2>1
  <2>3. QED
    BY <2>2 DEF ReservationSet
<1>8. ASSUME pc = "wifi", NEW w \in todo PROVE WifiSet(Router, w) = Router
  <2>1. w \in saved.wifi
    BY <1>8 DEF ProfileInv, SectionInv
  <2>2. QED
    BY <1>1, <1>3, <2>1, WifiSetOf
<1>9. QED
  BY <1>4, <1>5, <1>6, <1>7, <1>8 DEF Writes

-----------------------------------------------------------------------------
(* The invariant.                                                          *)

\* An import that has ended, but not well, has nothing left to show.
LEMMA EndedSections ==
  ASSUME pc' = "idle", result' # "ok"
  PROVE  SectionInv'
BY DEF SectionInv, Done, Later

\* What the sections need to know of a step that writes.
LEMMA Written ==
  ASSUME TypeOK, UNCHANGED <<profileVars, target, modes>>, NEW new,
         routers' = [routers EXCEPT ![target] = new]
  PROVE  Router' = new /\ saved' = saved /\ modes' = modes
BY DEF TypeOK, Router, profileVars

\* The reading of the network, which is what the router has.
LEMMA ReadNetworkSections ==
  ASSUME TypeOK, SectionInv, ReadNetwork
  PROVE  SectionInv'
<1>1. pc' = "domain" /\ current' = Router' .net
  BY DEF ReadNetwork, Go, Router
<1>2. QED
  BY <1>1 DEF SectionInv, Done, Later

\* The domain section: afterwards the domain is the profile's, and if the network is not
\* to be written it is the profile's already.
LEMMA DomainSections ==
  ASSUME TypeOK, SectionInv, Domain
  PROVE  SectionInv'
<1> DEFINE new == DomainSet(Router)
<1>1. CASE (saved.domain = NoDomain /\ saved.binds # {}) \/ DomainFails(Router)
  <2>1. pc' = "idle" /\ result' = "failed"
    BY <1>1 DEF Domain, End
  <2>2. QED
    BY <2>1, EndedSections
<1>2. CASE ~((saved.domain = NoDomain /\ saved.binds # {}) \/ DomainFails(Router))
  <2>1. /\ pc = "domain" /\ pc' = AfterDomain /\ routers' = [routers EXCEPT ![target] = new]
        /\ UNCHANGED <<profileVars, target, modes, current>>
    BY <1>2 DEF Domain, Go, Router
  <2>2. IsRouter(Router) /\ IsProfile(saved) /\ current = Router.net
    BY <2>1 DEF TypeOK, SectionInv, Router
  <2>3. new.net = Router.net /\ (~modes.dry => SameDomain(new, saved))
    BY <1>2, <2>2, DomainSetOf DEF OtherFile
  <2> HIDE DEF new
  <2>4. Router' = new /\ saved' = saved /\ modes' = modes /\ current' = current
    BY <2>1, Written
  <2>5. CASE Moving \/ PoolChanging
    <3>1. pc' = "setNetwork" /\ (Moving \/ PoolChanging)'
      BY <2>1, <2>4, <2>5 DEF AfterDomain, Moving, PoolChanging
    <3>2. QED
      BY <2>2, <2>3, <2>4, <3>1 DEF SectionInv, Done, Later
  <2>6. CASE ~(Moving \/ PoolChanging)
    <3>1. pc' = "reservations"
      BY <2>1, <2>6 DEF AfterDomain
    <3>2. SameNetwork(new.net, saved.net)
      BY <2>2, <2>3, <2>6 DEF Moving, PoolChanging, SameNetwork, A!SameSubnet
    <3>3. QED
      BY <2>3, <2>4, <3>1, <3>2 DEF SectionInv, Done, Later
  <2>7. QED
    BY <2>5, <2>6
<1>3. QED
  BY <1>1, <1>2

\* The network section: the router has the profile's network, or the import has ended.
LEMMA SetNetworkSections ==
  ASSUME TypeOK, SectionInv, SetNetwork
  PROVE  SectionInv'
<1>1. CASE NetworkRefused \/ Moving
  <2>1. pc' = "idle" /\ result' \in {"failed", "moved"}
    BY <1>1 DEF SetNetwork, NetworkDone, End
  <2>2. QED
    BY <2>1, EndedSections
<1>2. CASE ~NetworkRefused /\ ~Moving
  <2>1. pc = "setNetwork" /\ pc' = "reservations" /\ UNCHANGED <<profileVars, target, modes>>
    BY <1>2 DEF SetNetwork, NetworkDone, Go
  <2>2. CASE modes.dry
    BY <2>1, <2>2 DEF SectionInv
  <2>3. CASE ~modes.dry
    <3> DEFINE new == NetworkSet(Router)
    <3>1. routers' = [routers EXCEPT ![target] = new]
      BY <1>2, <2>3 DEF SetNetwork, Router
    <3>2. IsRouter(Router) /\ IsProfile(saved) /\ SameDomain(Router, saved)
      BY <2>1, <2>3 DEF TypeOK, SectionInv, Done, Router
    <3>3. SameNetwork(new.net, saved.net) /\ SameDomain(new, saved)
      BY <3>2, NetworkSetOf DEF OtherNet, SameDomain
    <3> HIDE DEF new
    <3>4. Router' = new /\ saved' = saved
      BY <2>1, <3>1, Written
    <3>5. QED
      BY <2>1, <3>3, <3>4 DEF SectionInv, Done, Later
  <2>4. QED
    BY <2>2, <2>3
<1>3. QED
  BY <1>1, <1>2

\* The list of reservations: all of them are to do.
LEMMA ListReservationsSections ==
  ASSUME TypeOK, SectionInv, ListReservations
  PROVE  SectionInv'
<1>1. /\ pc = "reservations" /\ todo' = saved.binds
      /\ pc' = IF saved.binds = {} THEN "hosts" ELSE "reservation"
      /\ Router' = Router /\ saved' = saved /\ modes' = modes
  BY DEF ListReservations, Go, Router, profileVars
<1>2. ~modes.dry => SameDomain(Router, saved) /\ SameNetwork(Router.net, saved.net)
  BY <1>1 DEF SectionInv, Done, Later
<1>3. QED
  BY <1>1, <1>2 DEF SectionInv, Done, Later

\* A reservation, written or failed: what is no longer to do is bound, or a failure counts.
LEMMA ReservationSections ==
  ASSUME TypeOK, SectionInv, pc = "reservation", NEW b \in todo, NEW failed \in BOOLEAN,
         NEW new, new = Router \/ new = ReservationSet(Router, b),
         ~modes.dry /\ ~failed => new = ReservationSet(Router, b) /\ ~ReservationFails(Router, b),
         routers' = [routers EXCEPT ![target] = new],
         AfterReservation(b, failed), UNCHANGED <<profileVars, target, modes>>
  PROVE  SectionInv'
<1>1. IsRouter(Router) /\ IsProfile(saved) /\ failures \in Nat
  BY DEF TypeOK, Router
<1>2. todo \subseteq saved.binds /\ b \in saved.binds /\ b \in BindSet
  BY <1>1 DEF SectionInv, IsProfile
<1>3. Router' = new /\ saved' = saved /\ modes' = modes
  BY Written
<1>4. new.net = Router.net /\ new.file = Router.file
  BY <1>1, <1>2, ReservationSetOf DEF OtherBinds
<1>5. /\ todo' = todo \ {b} /\ failures' = failures + (IF failed THEN 1 ELSE 0)
      /\ \/ todo' # {} /\ pc' = "reservation"
         \/ todo' = {} /\ failures' = 0 /\ pc' = "hosts"
         \/ pc' = "idle" /\ result' = "failed"
  <2>1. failures' \in Nat
    BY <1>1 DEF AfterReservation
  <2>2. QED
    BY <2>1 DEF AfterReservation, Go, End
<1>6. CASE pc' = "idle" /\ result' = "failed"
  BY <1>6, EndedSections
<1>7. CASE modes.dry /\ pc' # "idle"
  BY <1>2, <1>3, <1>5, <1>7 DEF SectionInv
<1>8. CASE ~modes.dry /\ pc' # "idle"
  <2>1. SameDomain(new, saved) /\ SameNetwork(new.net, saved.net)
    BY <1>4, <1>8 DEF SectionInv, Done, Later, SameDomain
  <2>2. ASSUME failures' = 0, NEW c \in saved.binds \ todo' PROVE Bound(new, c)
    <3>1. ~failed /\ failures = 0
      BY <1>1, <1>5, <2>2
    <3>2. new = ReservationSet(Router, b) /\ ~ReservationFails(Router, b)
      BY <1>8, <3>1
    <3>3. CASE c = b
      BY <1>1, <1>2, <1>8, <3>2, <3>3, ReservationSetOf
    <3>4. CASE c # b
      <4>1. c \in saved.binds \ todo
        BY <1>5, <2>2, <3>4
      <4>2. Bound(Router, c)
        BY <1>8, <3>1, <4>1 DEF SectionInv, Done
      <4>3. QED
        BY <1>1, <1>2, <3>2, <4>1, <4>2, BoundStays
    <3>5. QED
      BY <3>3, <3>4
  <2>3. failures' > 0 \/ failures' = 0
    BY <1>1, <1>5
  <2>4. todo' \subseteq saved.binds
    BY <1>2, <1>5
  <2>5. QED
    BY <1>3, <1>5, <1>8, <2>1, <2>2, <2>3, <2>4 DEF SectionInv, Done, Later
<1>9. QED
  BY <1>5, <1>6, <1>7, <1>8

\* The names section: the rest of what was done stays, and the hosts answer.
LEMMA SetHostsSections ==
  ASSUME TypeOK, SectionInv, SetHosts
  PROVE  SectionInv'
<1> DEFINE new == HostsSet(Router)
<1>1. /\ pc = "hosts" /\ routers' = [routers EXCEPT ![target] = new]
      /\ todo' = IF modes.wireless THEN saved.wifi ELSE {}
      /\ UNCHANGED <<profileVars, target, modes>>
      /\ \/ modes.wireless /\ pc' = "wifi"
         \/ (modes.wireless => saved.wifi = {}) /\ pc' = "idle" /\ result' = "ok"
  BY DEF SetHosts, AfterHosts, Go, End, Router
<1>2. IsRouter(Router) /\ IsProfile(saved)
  BY DEF TypeOK, Router
<1>3. /\ new.net = Router.net /\ new.binds = Router.binds /\ new.file.domain = Router.file.domain
      /\ ~modes.dry => new.file = Named(Router.file, saved.hosts)
  BY <1>2, HostsSetOf DEF OtherFile
<1> HIDE DEF new
<1>4. Router' = new /\ saved' = saved /\ modes' = modes
  BY <1>1, Written
<1>5. CASE modes.dry
  BY <1>1, <1>4, <1>5 DEF SectionInv
<1>6. CASE ~modes.dry
  <2>1. /\ SameDomain(Router, saved) /\ SameNetwork(Router.net, saved.net)
        /\ \A b \in saved.binds : Bound(Router, b)
    BY <1>1, <1>6 DEF SectionInv, Done, Later
  <2>2. /\ SameDomain(new, saved) /\ SameNetwork(new.net, saved.net)
        /\ \A b \in saved.binds : Bound(new, b)
    BY <1>3, <2>1 DEF SameDomain, Bound
  <2>3. Answering(new, saved)
    <3>1. Router.file \in FileSet /\ saved.hosts \in Seq(EntrySet)
          /\ saved.domain \in {NoDomain, Router.file.domain}
      BY <1>2, <2>1 DEF IsRouter, IsProfile, SameDomain
    <3>2. \A e : Sought(new.file, e) <=> Sought(Router.file, e)
      BY <1>3, SameForms DEF Sought
    <3>3. QED
      BY <1>3, <1>6, <3>1, <3>2, NamedAnswers DEF Answering
  <2>4. CASE pc' = "wifi"
    BY <1>1, <1>4, <2>2, <2>3, <2>4 DEF SectionInv, Done, Later
  <2>5. CASE pc' = "idle" /\ result' = "ok" /\ (modes.wireless => saved.wifi = {})
    BY <1>4, <2>2, <2>3, <2>5 DEF SectionInv, Done, Later, Wired
  <2>6. QED
    BY <1>1, <2>4, <2>5
<1>7. QED
  BY <1>5, <1>6

\* A wireless entry, written: what is no longer to do is applied.
LEMMA SetWifiSections ==
  ASSUME TypeOK, SectionInv, NEW w \in saved.wifi, SetWifi(w)
  PROVE  SectionInv'
<1> DEFINE new == WifiSet(Router, w)
<1>1. CASE WifiRefused(Router, w)
  <2>1. pc' = "idle" /\ result' = "failed"
    BY <1>1 DEF SetWifi, End
  <2>2. QED
    BY <2>1, EndedSections
<1>2. CASE ~WifiRefused(Router, w)
  <2>1. /\ pc = "wifi" /\ w \in todo /\ todo' = todo \ {w}
        /\ routers' = [routers EXCEPT ![target] = new] /\ UNCHANGED <<profileVars, target, modes>>
        /\ \/ pc' = "wifi"
           \/ todo' = {} /\ pc' = "idle" /\ result' = "ok"
    BY <1>2 DEF SetWifi, Go, End, Router
  <2>2. IsRouter(Router) /\ IsProfile(saved) /\ todo' \subseteq saved.wifi
    BY <2>1 DEF TypeOK, Router, SectionInv
  <2>3. /\ new.net = Router.net /\ new.binds = Router.binds /\ new.file = Router.file
        /\ DOMAIN new.wifi = DOMAIN Router.wifi
        /\ \A d \in DOMAIN Router.wifi : d # w.device => new.wifi[d] = Router.wifi[d]
        /\ ~modes.dry => Applied(new, w)
    BY <2>2, WifiSetOf DEF OtherWifi
  <2> HIDE DEF new
  <2>4. Router' = new /\ saved' = saved /\ modes' = modes
    BY <2>1, Written
  <2>5. CASE modes.dry
    BY <2>1, <2>2, <2>4, <2>5 DEF SectionInv
  <2>6. CASE ~modes.dry
    <3>1. Wired(Router, saved)
      BY <2>1, <2>6 DEF SectionInv, Done, Later, Wired
    <3>2. Wired(new, saved)
      BY <2>3, <3>1 DEF Wired, SameDomain, Bound, Answering
    <3>3. ASSUME NEW v \in saved.wifi \ todo' PROVE Applied(new, v)
      <4>1. CASE v = w
        BY <2>3, <2>6, <4>1
      <4>2. CASE v # w
        <5>1. v \in saved.wifi \ todo /\ v.device # w.device
          BY <2>1, <2>2, <3>3, <4>2 DEF IsProfile
        <5>2. Applied(Router, v)
          BY <2>1, <2>6, <5>1 DEF SectionInv, Done
        <5>3. QED
          BY <2>3, <5>1, <5>2 DEF Applied
      <4>3. QED
        BY <4>1, <4>2
    <3>4. CASE pc' = "wifi"
      BY <2>2, <2>4, <3>2, <3>3, <3>4 DEF SectionInv, Done, Later, Wired
    <3>5. CASE todo' = {} /\ pc' = "idle" /\ result' = "ok"
      BY <2>4, <3>2, <3>3, <3>5 DEF SectionInv, Done, Later
    <3>6. QED
      BY <2>1, <3>4, <3>5
  <2>7. QED
    BY <2>5, <2>6
<1>3. QED
  BY <1>1, <1>2

\* A call that fails, and one that is carried out and not answered, end the import, but for
\* a reservation, which is counted.
LEMMA FailureSections ==
  ASSUME TypeOK, SectionInv, Fail \/ Lost \/ Unanswered
  PROVE  SectionInv'
<1>1. ASSUME pc = "reservation", NEW b \in todo, AfterReservation(b, TRUE), Fail \/ Unanswered,
             NEW new, new = Router \/ new = ReservationSet(Router, b),
             routers' = [routers EXCEPT ![target] = new]
      PROVE  SectionInv'
  <2>1. UNCHANGED <<profileVars, target, modes>>
    BY <1>1 DEF Fail, Unanswered
  <2>2. QED
    BY <1>1, <2>1, ReservationSections
<1>2. ASSUME pc' = "idle", result' \in {"failed", "moved"} PROVE SectionInv'
  BY <1>2, EndedSections
<1>3. CASE Fail
  <2>1. CASE End("failed")
    BY <1>2, <2>1 DEF End
  <2>2. CASE ~End("failed")
    <3>1. PICK b \in todo : pc = "reservation" /\ AfterReservation(b, TRUE)
      BY <1>3, <2>2 DEF Fail
    <3>2. routers' = [routers EXCEPT ![target] = Router]
      BY <1>3 DEF Fail, TypeOK, Router
    <3>3. QED
      BY <1>1, <1>3, <3>1, <3>2
  <2>3. QED
    BY <2>1, <2>2
<1>4. CASE Lost
  BY <1>2, <1>4 DEF Lost, NetworkLost, End
<1>5. CASE Unanswered
  <2>1. CASE pc = "reservation"
    <3>1. PICK b \in todo : /\ AfterReservation(b, TRUE)
                            /\ routers' = [routers EXCEPT ![target] = ReservationSet(@, b)]
      BY <1>5, <2>1 DEF Unanswered
    <3>2. routers' = [routers EXCEPT ![target] = ReservationSet(Router, b)]
      BY <3>1 DEF Router
    <3>3. QED
      BY <1>1, <1>5, <2>1, <3>1, <3>2
  <2>2. CASE pc # "reservation"
    <3>1. pc' = "idle" /\ result' \in {"failed", "moved"}
      BY <1>5, <2>2 DEF Unanswered, End, NetworkLost
    <3>2. QED
      BY <1>2, <3>1
  <2>3. QED
    BY <2>1, <2>2
<1>6. QED
  BY <1>3, <1>4, <1>5

\* The sections keep what they have brought about, whatever the step.
LEMMA SectionsKept ==
  ASSUME TypeOK, SectionInv, [Next]_vars
  PROVE  SectionInv'
<1>1. CASE UNCHANGED vars
  <2>1. /\ Router' = Router /\ saved' = saved /\ modes' = modes /\ pc' = pc /\ current' = current
        /\ todo' = todo /\ failures' = failures /\ result' = result
    BY <1>1 DEF vars, profileVars, Router
  <2>2. Moving' = Moving /\ PoolChanging' = PoolChanging
    BY <2>1 DEF Moving, PoolChanging
  <2>3. QED
    BY <2>1, <2>2 DEF SectionInv, Done
<1>2. ASSUME NEW r \in Routers, Export(r) \/ (\E m \in Modes : Start(r, m)) PROVE SectionInv'
  <2>1. pc' \in {"idle", "network"} /\ result' = "none"
    BY <1>2 DEF Export, Start
  <2>2. QED
    BY <2>1 DEF SectionInv, Done, Later
<1>3. CASE ReadNetwork
  BY <1>3, ReadNetworkSections
<1>4. CASE Domain
  BY <1>4, DomainSections
<1>5. CASE SetNetwork
  BY <1>5, SetNetworkSections
<1>6. CASE ListReservations
  BY <1>6, ListReservationsSections
<1>7. CASE SetHosts
  BY <1>7, SetHostsSections
<1>8. ASSUME NEW b \in saved.binds, SetReservation(b) PROVE SectionInv'
  <2> DEFINE new == ReservationSet(Router, b)
             failed == ReservationFails(Router, b)
  <2>1. /\ pc = "reservation" /\ b \in todo /\ routers' = [routers EXCEPT ![target] = new]
        /\ AfterReservation(b, failed) /\ UNCHANGED <<profileVars, target, modes>>
    BY <1>8 DEF SetReservation, Router
  <2>2. failed \in BOOLEAN
    BY DEF ReservationFails
  <2>3. QED
    BY <2>1, <2>2, ReservationSections
<1>9. ASSUME NEW w \in saved.wifi, SetWifi(w) PROVE SectionInv'
  BY <1>9, SetWifiSections
<1>10. CASE Fail \/ Lost \/ Unanswered
  BY <1>10, FailureSections
<1>11. QED
  BY <1>1, <1>2, <1>3, <1>4, <1>5, <1>6, <1>7, <1>8, <1>9, <1>10 DEF Next

\* Only an export changes the profile.
LEMMA OnlyExports ==
  ASSUME [Next]_vars
  PROVE  UNCHANGED profileVars \/ \E r \in Routers : Export(r)
<1>1. CASE UNCHANGED vars
  BY <1>1 DEF vars, profileVars
<1>2. ASSUME NEW r \in Routers, NEW m \in Modes, Start(r, m) PROVE UNCHANGED profileVars
  BY <1>2 DEF Start
<1>3. ASSUME NEW b, SetReservation(b) PROVE UNCHANGED profileVars
  BY <1>3 DEF SetReservation
<1>4. ASSUME NEW w, SetWifi(w) PROVE UNCHANGED profileVars
  BY <1>4 DEF SetWifi
<1>5. CASE ReadNetwork \/ Domain \/ SetNetwork \/ ListReservations \/ SetHosts
  BY <1>5 DEF ReadNetwork, Domain, SetNetwork, ListReservations, SetHosts
<1>6. CASE Fail \/ Lost \/ Unanswered
  BY <1>6 DEF Fail, Lost, Unanswered
<1>7. QED
  BY <1>1, <1>2, <1>3, <1>4, <1>5, <1>6 DEF Next

\* The types are kept: what is written is a router, what is exported a profile.
LEMMA TypesKept ==
  ASSUME TypeOK, SectionInv, [Next]_vars
  PROVE  TypeOK'
<1>1. PICK new : Effect(new)
  BY Effects
<1>2. IsRouter(new)
  BY <1>1, WritesRouter DEF Effect
<1>3. routers' = [r \in Routers |-> routers'[r]] /\ \A r \in Routers : IsRouter(routers'[r])
  <2>1. routers' = [r \in Routers |-> IF r = target THEN new ELSE routers[r]]
    BY <1>1 DEF Effect, TypeOK
  <2>2. \A r \in Routers : IsRouter(routers'[r])
    BY <1>2, <2>1 DEF TypeOK
  <2>3. QED
    BY <2>1, <2>2
<1>4. IsProfile(saved') /\ from' \in Routers \cup {"hand"}
  <2>1. ASSUME NEW r \in Routers, Export(r) PROVE IsProfile(saved') /\ from' \in Routers
    <3>1. PICK keys \in BOOLEAN, missing \in SUBSET {"hosts", "binds", "wifi"} :
            saved' = Captured(routers[r], keys, missing)
      BY <2>1 DEF Export
    <3>2. IsProfile(saved')
      BY <3>1, CapturedOf DEF TypeOK
    <3>3. QED
      BY <2>1, <3>2 DEF Export
  <2>2. CASE UNCHANGED profileVars
    BY <2>2 DEF TypeOK, profileVars
  <2>3. QED
    BY <2>1, <2>2, OnlyExports
<1>5. target' \in Routers /\ modes' \in Modes
  BY DEF TypeOK, Next, vars, Export, Start, ReadNetwork, Domain, SetNetwork, ListReservations,
     SetReservation, SetHosts, SetWifi, Fail, Lost, Unanswered
<1>6. failures' \in Nat
  <2>1. ASSUME NEW b, NEW failed, AfterReservation(b, failed) PROVE failures' \in Nat
    <3>1. failures' = failures + 1 \/ failures' = failures + 0
      BY <2>1 DEF AfterReservation
    <3>2. QED
      BY <3>1 DEF TypeOK
  <2>2. CASE UNCHANGED vars
    BY <2>2 DEF vars, TypeOK
  <2>3. ASSUME NEW r \in Routers, Export(r) \/ (\E m \in Modes : Start(r, m)) PROVE failures' \in Nat
    BY <2>3 DEF Export, Start, TypeOK
  <2>4. CASE ReadNetwork \/ Domain \/ SetNetwork \/ ListReservations \/ SetHosts
    BY <2>4 DEF ReadNetwork, Domain, SetNetwork, ListReservations, SetHosts, TypeOK
  <2>5. ASSUME NEW b, SetReservation(b) PROVE failures' \in Nat
    BY <2>1, <2>5 DEF SetReservation
  <2>6. ASSUME NEW w, SetWifi(w) PROVE failures' \in Nat
    BY <2>6 DEF SetWifi, TypeOK
  <2>7. CASE Fail \/ Lost \/ Unanswered
    BY <2>1, <2>7 DEF Fail, Lost, Unanswered, TypeOK
  <2>8. QED
    BY <2>2, <2>3, <2>4, <2>5, <2>6, <2>7 DEF Next
<1>7. pc' \in Steps
  BY DEF TypeOK, Steps, Next, vars, Export, Start, ReadNetwork, Domain, AfterDomain, SetNetwork,
     NetworkDone, ListReservations, SetReservation, AfterReservation, SetHosts, AfterHosts, SetWifi,
     Fail, Lost, NetworkLost, Unanswered, Go, End
<1>8. QED
  BY <1>3, <1>4, <1>5, <1>6, <1>7 DEF TypeOK

\* An export stays what its router has: others are written, or nothing is.
LEMMA OwnKept ==
  ASSUME ProfileInv, [Next]_vars
  PROVE  Own'
<1>1. PICK new : Effect(new)
  BY Effects DEF ProfileInv
<1>2. ASSUME NEW r \in Routers, Export(r) PROVE Own'
  <2>1. from' = r /\ routers' = routers
    BY <1>2 DEF Export
  <2>2. PICK keys \in BOOLEAN, missing \in SUBSET {"hosts", "binds", "wifi"} :
          saved' = Captured(routers'[from'], keys, missing)
    BY <1>2, <2>1 DEF Export
  <2>3. QED
    BY <2>2 DEF Own
<1>3. CASE UNCHANGED profileVars
  <2>1. ASSUME from \in Routers, Findable(saved) PROVE routers'[from] = routers[from]
    <3>1. CASE from = target
      <4>1. new = routers[target]
        BY <1>1, <2>1, <3>1, OwnUnwritten DEF Effect, Router
      <4>2. QED
        BY <1>1, <2>1, <3>1, <4>1 DEF Effect, ProfileInv, TypeOK
    <3>2. CASE from # target
      BY <1>1, <2>1, <3>2 DEF Effect
    <3>3. QED
      BY <3>1, <3>2
  <2>2. from' = from /\ saved' = saved
    BY <1>3 DEF profileVars
  <2>3. ASSUME from' \in Routers, Findable(saved')
        PROVE  \E keys \in BOOLEAN, missing \in SUBSET {"hosts", "binds", "wifi"} :
                 saved' = Captured(routers'[from'], keys, missing)
    <3>1. from \in Routers /\ Findable(saved)
      BY <2>2, <2>3
    <3>2. PICK keys \in BOOLEAN, missing \in SUBSET {"hosts", "binds", "wifi"} :
            saved = Captured(routers[from], keys, missing)
      BY <3>1 DEF ProfileInv, Own
    <3>3. saved' = Captured(routers'[from'], keys, missing)
      BY <2>1, <2>2, <3>1, <3>2
    <3>4. QED
      BY <3>3
  <2>4. QED
    BY <2>3 DEF Own
<1>4. QED
  BY <1>2, <1>3, OnlyExports

\* The state of a fresh program.
LEMMA ProfileInitially == Init => ProfileInv
<1> SUFFICES ASSUME Init PROVE ProfileInv
  OBVIOUS
<1>1. TypeOK
  BY RoutersAssumption, ProfilesAssumption DEF Init, TypeOK, Steps
<1>2. SectionInv
  BY DEF Init, SectionInv, Done, Later
<1>3. Own
  BY RoutersAssumption DEF Init, Own
<1>4. QED
  BY <1>1, <1>2, <1>3 DEF ProfileInv

\* The inductive invariant of the import.
THEOREM ProfileInductive == Spec => []ProfileInv
<1>1. ProfileInv /\ [Next]_vars => ProfileInv'
  BY SectionsKept, TypesKept, OwnKept DEF ProfileInv
<1>2. QED
  BY <1>1, ProfileInitially, PTL DEF Spec

-----------------------------------------------------------------------------
(* The properties.                                                         *)

\* No reservation is written before the router has a domain and the profile's network, and
\* none by a dry run (profile/apply.go: Apply).
THEOREM SectionsInOrderSafe == Spec => SectionsInOrder
<1> DEFINE Act == pc = "reservation" /\ routers' # routers =>
                    ~modes.dry /\ Router.file.domain # NoDomain /\ SameNetwork(Router.net, saved.net)
<1>1. ProfileInv /\ [Next]_vars => [Act]_vars
  <2> SUFFICES ASSUME ProfileInv, [Next]_vars, pc = "reservation", routers' # routers
               PROVE  ~modes.dry /\ Router.file.domain # NoDomain
                      /\ SameNetwork(Router.net, saved.net)
    OBVIOUS
  <2>1. PICK new : Effect(new)
    BY Effects DEF ProfileInv
  <2>2. new # Router
    BY <2>1 DEF ProfileInv, TypeOK, Effect, Router
  <2>3. PICK b \in todo : new = ReservationSet(Router, b)
    BY <2>1, <2>2 DEF Effect, Writes
  <2>4. IsRouter(Router) /\ b \in BindSet
    BY DEF ProfileInv, TypeOK, SectionInv, IsProfile, Router
  <2>5. ~modes.dry /\ Router.file.domain # NoDomain
    BY <2>2, <2>3, <2>4, ReservationSetOf
  <2>6. QED
    BY <2>5 DEF ProfileInv, SectionInv, Done, Later
<1>2. QED
  BY <1>1, ProfileInductive, PTL DEF Spec, SectionsInOrder

\* An import of a router's own export changes nothing on it, whatever was left out of the
\* export and whatever fails on the way, unless one of its names is not found under the
\* domain it has (profile/apply.go: every apply function).
THEOREM OwnExportSafe == Spec => OwnExportIsNoop
<1> DEFINE Act == target = from /\ Findable(saved) => routers'[target] = routers[target]
<1>1. ProfileInv /\ [Next]_vars => [Act]_vars
  <2> SUFFICES ASSUME ProfileInv, [Next]_vars, target = from, Findable(saved)
               PROVE  routers'[target] = routers[target]
    OBVIOUS
  <2>1. PICK new : Effect(new)
    BY Effects DEF ProfileInv
  <2>2. new = Router
    BY <2>1, OwnUnwritten DEF Effect
  <2>3. QED
    BY <2>1, <2>2 DEF ProfileInv, TypeOK, Effect, Router
<1>2. QED
  BY <1>1, ProfileInductive, PTL DEF Spec, OwnExportIsNoop

BindsKept(old, new, p) ==
  A!SameSubnet(old.net, new.net) =>
    {b \in old.binds : \A c \in p.binds : c.mac # b.mac} \subseteq new.binds
NamesKept(old, new, p) ==
  \A i \in DOMAIN old.file.entries : LET e == old.file.entries[i] IN
    /\ Matched(old.file, e.names[1]) /\ Matched(new.file, e.names[1])
    /\ \A j \in DOMAIN p.hosts : FirstLabel(p.hosts[j].names[1]) # FirstLabel(e.names[1])
    => Lookup(new.file, e.names[1]) = e.ip
SettingsKept(old, new, p) ==
  \A d \in DOMAIN old.wifi : \A s \in DOMAIN old.wifi[d] :
    (\A w \in p.wifi : w.device = d => Given(w, s) = NoSetting) =>
      new.wifi[d][s] = old.wifi[d][s]

\* The same file, or one in which every first name has its address, keeps the names.
LEMMA SameNames ==
  ASSUME NEW old, IsRouter(old), NEW new, new.file = old.file, NEW p
  PROVE  NamesKept(old, new, p)
BY FirstAnswers DEF IsRouter, NamesKept

\* What a write leaves alone; a change of domain keeps the names if each host has one entry.
LEMMA WritesKeep ==
  ASSUME ProfileInv, NEW new, Writes(new)
  PROVE  /\ BindsKept(Router, new, saved) /\ SettingsKept(Router, new, saved)
         /\ (pc = "domain" => OneName(Router.file.domain, Router.file.entries)) => NamesKept(Router, new, saved)
<1> DEFINE Spares(t) ==
      /\ BindsKept(Router, t, saved) /\ SettingsKept(Router, t, saved)
      /\ (pc = "domain" => OneName(Router.file.domain, Router.file.entries)) => NamesKept(Router, t, saved)
<1>1. IsRouter(Router) /\ IsProfile(saved)
  BY DEF ProfileInv, TypeOK, Router
<1>2. Router.file \in FileSet /\ OneAnswer(Router.file) /\ saved.hosts \in Seq(EntrySet)
      /\ saved.domain \in Domains
  BY <1>1 DEF IsRouter, IsProfile
<1>3. Spares(Router)
  BY <1>1, SameNames DEF BindsKept, SettingsKept
<1>4. ASSUME pc = "domain" PROVE Spares(DomainSet(Router))
  <2> DEFINE t == DomainSet(Router)
  <2>1. OtherFile(t, Router) /\ t.file \in {Router.file, Requalify(Router.file, saved.domain)}
    BY <1>1, DomainSetOf
  <2> HIDE DEF t
  <2>2. BindsKept(Router, t, saved) /\ SettingsKept(Router, t, saved)
    BY <2>1 DEF OtherFile, BindsKept, SettingsKept
  <2>3. ASSUME OneName(Router.file.domain, Router.file.entries) PROVE NamesKept(Router, t, saved)
    <3>1. CASE t.file = Router.file
      BY <1>1, <3>1, SameNames
    <3>2. CASE t.file = Requalify(Router.file, saved.domain)
      BY <1>2, <2>3, <3>2, RequalifyAnswers DEF NamesKept
    <3>3. QED
      BY <2>1, <3>1, <3>2
  <2>4. QED
    BY <1>4, <2>2, <2>3 DEF t
<1>5. Spares(NetworkSet(Router))
  <2> DEFINE t == NetworkSet(Router)
  <2>1. OtherNet(t, Router) /\ (A!SameSubnet(Router.net, t.net) => t.binds = Router.binds)
    BY <1>1, NetworkSetOf
  <2> HIDE DEF t
  <2>2. BindsKept(Router, t, saved) /\ SettingsKept(Router, t, saved)
    BY <2>1 DEF OtherNet, BindsKept, SettingsKept
  <2>3. NamesKept(Router, t, saved)
    BY <1>1, <2>1, SameNames DEF OtherNet
  <2>4. QED
    BY <2>2, <2>3 DEF t
<1>6. ASSUME pc = "reservation", NEW b \in todo PROVE Spares(ReservationSet(Router, b))
  <2> DEFINE t == ReservationSet(Router, b)
  <2>1. b \in saved.binds /\ b \in BindSet
    BY <1>1, <1>6 DEF ProfileInv, SectionInv, IsProfile
  <2>2. OtherBinds(t, Router) /\ \A c \in Router.binds : c.mac # b.mac => c \in t.binds
    BY <1>1, <2>1, ReservationSetOf
  <2> HIDE DEF t
  <2>3. BindsKept(Router, t, saved)
    BY <2>1, <2>2 DEF BindsKept
  <2>4. SettingsKept(Router, t, saved)
    BY <2>2 DEF OtherBinds, SettingsKept
  <2>5. NamesKept(Router, t, saved)
    BY <1>1, <2>2, SameNames DEF OtherBinds
  <2>6. QED
    BY <2>3, <2>4, <2>5 DEF t
<1>7. Spares(HostsSet(Router))
  <2> DEFINE t == HostsSet(Router)
  <2>1. OtherFile(t, Router) /\ t.file \in {Router.file, Named(Router.file, saved.hosts)}
    BY <1>1, HostsSetOf
  <2> HIDE DEF t
  <2>2. BindsKept(Router, t, saved) /\ SettingsKept(Router, t, saved)
    BY <2>1 DEF OtherFile, BindsKept, SettingsKept
  <2>3. NamesKept(Router, t, saved)
    <3>1. CASE t.file = Router.file
      BY <1>1, <3>1, SameNames
    <3>2. CASE t.file = Named(Router.file, saved.hosts)
      <4>1. ASSUME NEW i \in DOMAIN Router.file.entries,
                   Matched(Router.file, Router.file.entries[i].names[1]),
                   \A j \in DOMAIN saved.hosts :
                     FirstLabel(saved.hosts[j].names[1]) # FirstLabel(Router.file.entries[i].names[1])
            PROVE  Lookup(t.file, Router.file.entries[i].names[1]) = Router.file.entries[i].ip
        <5>1. Router.file.entries[i].names[1] \in NameSet
          BY <1>2, FirstName
        <5>2. Lookup(t.file, Router.file.entries[i].names[1]) =
                Lookup(Router.file, Router.file.entries[i].names[1])
          BY <1>2, <3>2, <4>1, <5>1, NamedOf
        <5>3. QED
          BY <1>2, <4>1, <5>2, FirstAnswers
      <4>2. QED
        BY <4>1 DEF NamesKept
    <3>3. QED
      BY <2>1, <3>1, <3>2
  <2>4. QED
    BY <2>2, <2>3 DEF t
<1>8. ASSUME pc = "wifi", NEW w \in todo PROVE Spares(WifiSet(Router, w))
  <2> DEFINE t == WifiSet(Router, w)
  <2>1. w \in saved.wifi
    BY <1>8 DEF ProfileInv, SectionInv
  <2>2. /\ OtherWifi(t, Router)
        /\ \A d \in DOMAIN Router.wifi : \A s \in DOMAIN Router.wifi[d] :
             (d = w.device => Given(w, s) = NoSetting) => t.wifi[d][s] = Router.wifi[d][s]
    BY <1>1, <2>1, WifiSetOf
  <2> HIDE DEF t
  <2>3. BindsKept(Router, t, saved)
    BY <2>2 DEF OtherWifi, BindsKept
  <2>4. SettingsKept(Router, t, saved)
    BY <2>1, <2>2 DEF SettingsKept
  <2>5. NamesKept(Router, t, saved)
    BY <1>1, <2>2, SameNames DEF OtherWifi
  <2>6. QED
    BY <2>3, <2>4, <2>5 DEF t
<1> HIDE DEF Spares
<1>9. Spares(new)
  BY <1>3, <1>4, <1>5, <1>6, <1>7, <1>8 DEF Writes
<1>10. QED
  BY <1>9 DEF Spares

\* What a profile does not mention stays, however the hosts are named: only the names may
\* change, and only where two spellings of one host meet in a change of domain.
OthersKept ==
  [][\A r \in Routers : LET old == routers[r]  new == routers'[r] IN
       /\ BindsKept(old, new, saved) /\ SettingsKept(old, new, saved)
       /\ (pc = "domain" => OneName(old.file.domain, old.file.entries)) => NamesKept(old, new, saved)]_vars

\* A step leaves the other routers alone, and what the profile does not mention on this one.
LEMMA StepKeeps ==
  ASSUME ProfileInv, [Next]_vars, NEW r \in Routers
  PROVE  /\ BindsKept(routers[r], routers'[r], saved) /\ SettingsKept(routers[r], routers'[r], saved)
         /\ (pc = "domain" => OneName(routers[r].file.domain, routers[r].file.entries)) =>
              NamesKept(routers[r], routers'[r], saved)
<1>1. PICK new : Effect(new)
  BY Effects DEF ProfileInv
<1>2. CASE r = target
  <2>1. routers'[r] = new /\ routers[r] = Router
    BY <1>1, <1>2 DEF ProfileInv, TypeOK, Effect, Router
  <2>2. QED
    BY <1>1, <2>1, WritesKeep DEF Effect
<1>3. CASE r # target
  <2>1. routers'[r] = routers[r] /\ IsRouter(routers[r])
    BY <1>1, <1>3 DEF ProfileInv, TypeOK, Effect
  <2>2. NamesKept(routers[r], routers'[r], saved)
    BY <2>1, SameNames
  <2>3. QED
    BY <2>1, <2>2 DEF BindsKept, SettingsKept
<1>4. QED
  BY <1>2, <1>3

\* An import keeps what the profile does not mention (profile/apply.go).
THEOREM OthersKeptSafe == Spec => OthersKept
<1> DEFINE Act == \A r \in Routers : LET old == routers[r]  new == routers'[r] IN
                    /\ BindsKept(old, new, saved) /\ SettingsKept(old, new, saved)
                    /\ (pc = "domain" => OneName(old.file.domain, old.file.entries)) => NamesKept(old, new, saved)
<1>1. ProfileInv /\ [Next]_vars => [Act]_vars
  BY StepKeeps
<1>2. QED
  BY <1>1, ProfileInductive, PTL DEF Spec, OthersKept

\* An import that reports success has reproduced the profile, if that names each host once.
THEOREM NamedOnceReproduces == Spec => [](OneName(saved.domain, saved.hosts) => ImportReproduces)
<1>1. ProfileInv => (OneName(saved.domain, saved.hosts) => ImportReproduces)
  BY DEF ProfileInv, SectionInv, Done, Wired, Answering, SameDomain, Bound, Applied, ImportReproduces,
     Matches, Sought, Given
<1>2. QED
  BY <1>1, ProfileInductive, PTL

-----------------------------------------------------------------------------
(* One spelling for each host.                                             *)

\* The names that routers and profiles start with are names.
LEMMA KnownAreNames == KnownNames \subseteq NameSet
<1>1. ASSUME NEW r \in InitRouters PROVE FirstNames(r.file.entries) \subseteq NameSet
  <2>1. r.file \in FileSet
    BY RoutersAssumption DEF IsRouter
  <2>2. QED
    BY <2>1, FirstName DEF FirstNames
<1>2. ASSUME NEW p \in HandWritten PROVE FirstNames(p.hosts) \subseteq NameSet
  <2>1. p.hosts \in Seq(EntrySet)
    BY ProfilesAssumption DEF IsProfile
  <2>2. ASSUME NEW i \in DOMAIN p.hosts PROVE p.hosts[i].names[1] \in NameSet
    <3>1. p.hosts[i] \in EntrySet
      BY <2>1
    <3>2. p.hosts[i].names \in Seq(NameSet) /\ p.hosts[i].names # <<>>
      BY <3>1 DEF EntrySet
    <3>3. QED
      BY <3>2
  <2>3. QED
    BY <2>2 DEF FirstNames
<1> DEFINE ofRouters == {FirstNames(r.file.entries) : r \in InitRouters}
           ofProfiles == {FirstNames(p.hosts) : p \in HandWritten}
<1>3. \A S \in ofRouters \cup ofProfiles : S \subseteq NameSet
  BY <1>1, <1>2
<1>4. KnownNames = UNION (ofRouters \cup ofProfiles)
  BY Zenon DEF KnownNames
<1> HIDE DEF ofRouters, ofProfiles
<1>5. QED
  BY <1>3, <1>4

\* Under one spelling, a file or a profile has one entry for each host that can be found.
LEMMA SpelledOnce ==
  ASSUME NEW W, Spelled(W), NEW domain, NEW hosts, FirstNames(hosts) \subseteq W,
         \A i, j \in DOMAIN hosts : hosts[i].names[1] = hosts[j].names[1] =>
           i = j \/ ~Matched(EmptyFile(domain), hosts[i].names[1])
  PROVE  OneName(domain, hosts)
BY DEF Spelled, FirstNames, OneName

\* Every file stays made of the names that were there, each with its own spellings.
LEMMA WritesSpelled ==
  ASSUME OneSpelling, ProfileInv, SpelledInv, NEW new, Writes(new)
  PROVE  Worded(new.file, KnownNames)
<1>1. IsRouter(Router) /\ IsProfile(saved) /\ Worded(Router.file, KnownNames)
  BY DEF ProfileInv, TypeOK, SpelledInv, Router
<1>2. Router.file \in FileSet /\ OneAnswer(Router.file) /\ saved.hosts \in Seq(EntrySet)
      /\ saved.domain \in Domains
  BY <1>1 DEF IsRouter, IsProfile
<1>3. Worded(DomainSet(Router).file, KnownNames)
  <2>1. Worded(Requalify(Router.file, saved.domain), KnownNames)
    BY <1>1, <1>2, KnownAreNames, RequalifyKeepsAnswers DEF OneSpelling
  <2>2. QED
    BY <1>1, <2>1, DomainSetOf
<1>4. Worded(HostsSet(Router).file, KnownNames)
  <2>1. \A j \in DOMAIN saved.hosts : saved.hosts[j].names[1] \in KnownNames
    BY DEF SpelledInv, FirstNames
  <2>2. Worded(Named(Router.file, saved.hosts), KnownNames)
    BY <1>1, <1>2, <2>1, NamedOf
  <2>3. QED
    BY <1>1, <2>2, HostsSetOf
<1>5. NetworkSet(Router).file = Router.file
  BY <1>1, NetworkSetOf DEF OtherNet
<1>6. ASSUME pc = "reservation", NEW b \in todo PROVE ReservationSet(Router, b).file = Router.file
  <2>1. b \in BindSet
    BY <1>1, <1>6 DEF ProfileInv, SectionInv, IsProfile
  <2>2. QED
    BY <1>1, <2>1, ReservationSetOf DEF OtherBinds
<1>7. ASSUME pc = "wifi", NEW w \in todo PROVE WifiSet(Router, w).file = Router.file
  BY <1>1, <1>7, WifiSetOf DEF OtherWifi, ProfileInv, SectionInv
<1>8. QED
  BY <1>1, <1>3, <1>4, <1>5, <1>6, <1>7 DEF Writes

\* One spelling stays one.
LEMMA SpelledKept ==
  ASSUME OneSpelling, ProfileInv, SpelledInv, [Next]_vars
  PROVE  SpelledInv'
<1>1. PICK new : Effect(new)
  BY Effects DEF ProfileInv
<1>2. \A r \in Routers : Worded(routers'[r].file, KnownNames)
  <2>1. Worded(new.file, KnownNames)
    BY <1>1, WritesSpelled DEF Effect
  <2>2. ASSUME NEW r \in Routers PROVE routers'[r] \in {new, routers[r]}
    BY <1>1 DEF Effect, ProfileInv, TypeOK
  <2>3. QED
    BY <2>1, <2>2 DEF SpelledInv
<1>3. FirstNames(saved'.hosts) \subseteq KnownNames
  <2>1. ASSUME NEW r \in Routers, Export(r) PROVE FirstNames(saved'.hosts) \subseteq KnownNames
    <3>1. saved'.hosts \in {<<>>, routers[r].file.entries}
      BY <2>1 DEF Export, Captured
    <3>2. FirstNames(routers[r].file.entries) \subseteq KnownNames
      BY DEF SpelledInv, Worded, FirstNames
    <3>3. FirstNames(<<>>) = {}
      BY DEF FirstNames
    <3>4. QED
      BY <3>1, <3>2, <3>3
  <2>2. CASE UNCHANGED profileVars
    BY <2>2 DEF SpelledInv, profileVars
  <2>3. QED
    BY <2>1, <2>2, OnlyExports
<1>4. QED
  BY <1>2, <1>3 DEF SpelledInv

\* Where each host is spelled in one way at the start, it always is.
THEOREM SpelledInductive == OneSpelling => (Spec => [](ProfileInv /\ SpelledInv))
<1> SUFFICES ASSUME OneSpelling PROVE Spec => [](ProfileInv /\ SpelledInv)
  OBVIOUS
<1>1. Init => SpelledInv
  <2> SUFFICES ASSUME Init PROVE SpelledInv
    OBVIOUS
  <2>1. \A r \in Routers : Worded(routers[r].file, KnownNames)
    BY DEF Init, OneSpelling
  <2>2. FirstNames(saved.hosts) \subseteq KnownNames
    <3> DEFINE ofRouters == {FirstNames(r.file.entries) : r \in InitRouters}
               ofProfiles == {FirstNames(p.hosts) : p \in HandWritten}
    <3>1. FirstNames(saved.hosts) \in ofProfiles
      BY DEF Init
    <3>2. KnownNames = UNION (ofRouters \cup ofProfiles)
      BY Zenon DEF KnownNames
    <3> HIDE DEF ofRouters, ofProfiles
    <3>3. QED
      BY <3>1, <3>2
  <2>3. QED
    BY <2>1, <2>2 DEF SpelledInv
<1>2. ProfileInv /\ SpelledInv /\ [Next]_vars => SpelledInv'
  BY SpelledKept
<1>3. QED
  BY <1>1, <1>2, ProfileInductive, PTL DEF Spec

\* An import that reports success has reproduced all of the profile, if each host is spelled
\* in one way (profile/apply.go, profile/profile.go: Capture).
THEOREM ReproducesSafe == OneSpelling => (Spec => []ImportReproduces)
<1> SUFFICES ASSUME OneSpelling PROVE Spec => []ImportReproduces
  OBVIOUS
<1>1. ProfileInv /\ SpelledInv => OneName(saved.domain, saved.hosts)
  BY SpelledOnce DEF ProfileInv, TypeOK, IsProfile, SpelledInv, OneSpelling
<1>2. QED
  BY <1>1, SpelledInductive, NamedOnceReproduces, PTL

\* What a profile does not mention stays, if each host is spelled in one way.
THEOREM AbsentKeptSafe == OneSpelling => (Spec => AbsentIsKept)
<1> SUFFICES ASSUME OneSpelling PROVE Spec => AbsentIsKept
  OBVIOUS
<1> DEFINE Act ==
      \A r \in Routers : LET old == routers[r]  new == routers'[r] IN
        /\ A!SameSubnet(old.net, new.net) =>
             {b \in old.binds : \A c \in saved.binds : c.mac # b.mac} \subseteq new.binds
        /\ \A i \in DOMAIN old.file.entries : LET e == old.file.entries[i] IN
             /\ Matched(old.file, e.names[1]) /\ Matched(new.file, e.names[1])
             /\ \A j \in DOMAIN saved.hosts :
                  FirstLabel(saved.hosts[j].names[1]) # FirstLabel(e.names[1])
             => Lookup(new.file, e.names[1]) = e.ip
        /\ \A d \in DOMAIN old.wifi : \A s \in DOMAIN old.wifi[d] :
             (\A w \in saved.wifi : w.device = d => Given(w, s) = NoSetting) =>
               new.wifi[d][s] = old.wifi[d][s]
<1>1. ProfileInv /\ SpelledInv /\ [Next]_vars => [Act]_vars
  <2> SUFFICES ASSUME ProfileInv, SpelledInv, [Next]_vars, NEW r \in Routers
               PROVE  /\ BindsKept(routers[r], routers'[r], saved)
                      /\ NamesKept(routers[r], routers'[r], saved)
                      /\ SettingsKept(routers[r], routers'[r], saved)
    BY DEF BindsKept, NamesKept, SettingsKept
  <2>1. IsRouter(routers[r]) /\ Worded(routers[r].file, KnownNames)
    BY DEF ProfileInv, TypeOK, SpelledInv
  <2>2. OneName(routers[r].file.domain, routers[r].file.entries)
    <3>1. FirstNames(routers[r].file.entries) \subseteq KnownNames
      BY <2>1 DEF Worded, FirstNames
    <3>2. \A i, j \in DOMAIN routers[r].file.entries :
            routers[r].file.entries[i].names[1] = routers[r].file.entries[j].names[1] =>
              i = j \/ ~Matched(EmptyFile(routers[r].file.domain), routers[r].file.entries[i].names[1])
      BY <2>1, FirstAnswers, MatchedUnder DEF IsRouter
    <3>3. QED
      BY <3>1, <3>2, SpelledOnce DEF OneSpelling
  <2>3. QED
    BY <2>2, StepKeeps
<1>2. QED
  BY <1>1, SpelledInductive, PTL DEF Spec, AbsentIsKept
=============================================================================
