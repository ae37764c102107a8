---------------------------- MODULE NetworkProofs ----------------------------
(***************************************************************************)
(* Proofs about Network, for every set of programs, commands and binds,    *)
(* every width of an address, and any number of faults.                    *)
(*                                                                         *)
(* The inductive invariant is NetworkInv, which says of each command what  *)
(* the properties need when its turn to write comes: that what it will     *)
(* write has been validated since it was last changed (WantValid), that it *)
(* has not written yet (NotYet), and that a write without force is reached *)
(* only when no bind was seen or the subnet stays (WriteChecked).          *)
(***************************************************************************)
EXTENDS Network, HostFileProofs

\* The steps at which a command holds what it is going to write.
Writing == {"binds", "moves", "guard", "write"}

WantValid(p) == pc[p] \in Writing => ValidForWrite(want[p])

NotYet(p) == pc[p] # "idle" => ~wrote[p]

\* No reservation was seen, or the interface seen keeps its address and mask.
WriteChecked(p) ==
  pc[p] = "write" /\ ~cmd[p].force =>
    Reserved(seen[p]) = {} \/ SameSubnet(checked[p], want[p])

CommandInv(p) == WantValid(p) /\ NotYet(p) /\ WriteChecked(p)

NetworkInv == TypeOK /\ PoolServable /\ \A p \in Procs : CommandInv(p)

-----------------------------------------------------------------------------
(* Subnets: the addresses of one are an interval.                          *)

\* Pow2 is a doubling.
LEMMA PowIs == Pow2 = Doubling(AddrBits)
  BY Zenon DEF Pow2, Doubling

\* A power of two is positive.
LEMMA PowPositive == \A n \in 0 .. AddrBits : Pow2[n] \in Nat \ {0}
  BY WidthAssumption, DoublingOf, PowIs

\* Below a multiple of S, the block of S numbers that an address is in ends there at the
\* latest.
LEMMA BlockFits ==
  ASSUME NEW S \in Nat \ {0}, NEW q \in Nat, NEW ip \in Nat, ip < q * S
  PROVE  (ip - (ip % S)) + S <= q * S
<1> DEFINE d == ip \div S
<1>1. ip = S * d + (ip % S) /\ d \in Nat /\ ip % S \in 0 .. S-1
  OBVIOUS
<1> HIDE DEF d
<1>2. S * d < q * S
  BY <1>1
<1>3. d < q
  <2> SUFFICES ASSUME d >= q PROVE FALSE
    BY <1>1
  <2>1. S * d >= S * q /\ S * q = q * S
    BY <1>1
  <2>2. QED
    BY <1>1, <1>2, <2>1
<1>4. S * (d + 1) <= S * q
  BY <1>1, <1>3
<1>5. QED
  BY <1>1, <1>4

\* The numbers with the quotient of ip by S are an interval.
LEMMA BlockIs ==
  ASSUME NEW S \in Nat \ {0}, NEW ip \in Int, NEW a \in Int
  PROVE  (a - (a % S) = ip - (ip % S)) <=> (ip - (ip % S) <= a /\ a <= (ip - (ip % S)) + S - 1)
<1> DEFINE b == ip - (ip % S)
<1>1. a % S \in 0 .. S-1 /\ ip % S \in 0 .. S-1
  OBVIOUS
<1>2. ASSUME b <= a, a <= b + S - 1 PROVE a - (a % S) = b
  <2>1. ip = S * (ip \div S) + (ip % S) /\ a = S * (a \div S) + (a % S)
    OBVIOUS
  <2> DEFINE d == ip \div S
             e == a \div S
  <2>2. d \in Int /\ e \in Int
    OBVIOUS
  <2>3. b = S * d /\ a - (a % S) = S * e
    BY <2>1
  <2> HIDE DEF d, e, b
  <2>4. S * d <= S * e + (a % S) /\ S * e + (a % S) <= S * d + S - 1
    BY <1>1, <1>2, <2>2, <2>3
  <2>5. S * d < S * e + S /\ S * e < S * d + S
    BY <1>1, <2>2, <2>4
  <2>5a. S * d < S * (e + 1) /\ S * e < S * (d + 1)
    BY <2>2, <2>5
  <2>6. d < e + 1
    BY <2>2, <2>5a
  <2>7. e < d + 1
    BY <2>2, <2>5a
  <2>8. d = e
    BY <2>2, <2>6, <2>7
  <2>9. QED
    BY <2>3, <2>8 DEF b
<1>3. QED
  BY <1>1, <1>2

\* The subnet of a network is within the address space; an address is in it when it is in
\* the interval that starts at its network address.
LEMMA SubnetOf ==
  ASSUME NEW n \in Net
  PROVE  LET S == Pow2[n.mask]  base == SubnetFrom(n.ip, n.mask) IN
           /\ S \in Nat \ {0} /\ base \in Nat /\ base + S - 1 \in Addr
           /\ \A a \in Addr : NetContains(n, a) <=> base <= a /\ a <= base + S - 1
<1> DEFINE S == Pow2[n.mask]
           base == SubnetFrom(n.ip, n.mask)
           all == Pow2[AddrBits]
<1>1. n.ip \in Addr /\ n.mask \in 0 .. AddrBits
  BY DEF Net, Mask
<1>2. S \in Nat \ {0} /\ all \in Nat \ {0} /\ AddrBits \in n.mask .. AddrBits
  BY <1>1, WidthAssumption, PowPositive
<1>3. PICK q \in Nat \ {0} : all = q * S
  BY <1>1, <1>2, WidthAssumption, DoublingDivides, PowIs
<1>4. base = n.ip - (n.ip % S)
  BY DEF SubnetFrom
<1>5. Addr = 0 .. all - 1
  BY DEF Addr
<1> HIDE DEF S, base, all
<1>6. n.ip \in Nat /\ n.ip < q * S
  BY <1>1, <1>2, <1>3, <1>5
<1>7. base + S <= q * S
  BY <1>2, <1>4, <1>6, BlockFits
<1>8. base \in Nat
  <2>1. n.ip % S <= n.ip /\ n.ip % S \in Nat
    BY <1>2, <1>6
  <2>2. QED
    BY <1>4, <1>6, <2>1
<1>9. base + S - 1 \in Addr
  BY <1>2, <1>3, <1>5, <1>7, <1>8
<1>10. ASSUME NEW a \in Addr PROVE NetContains(n, a) <=> base <= a /\ a <= base + S - 1
  <2>1. a \in Int /\ n.ip \in Int
    BY <1>2, <1>5, <1>6
  <2>2. NetContains(n, a) <=> a - (a % S) = n.ip - (n.ip % S)
    BY DEF NetContains, SubnetFrom, S
  <2>3. QED
    BY <1>2, <1>4, <2>1, <2>2, BlockIs
<1>11. QED
  BY <1>2, <1>8, <1>9, <1>10 DEF S, base

\* A bind that is renumbered stays an address: the new host part fits into the new subnet.
LEMMA RenumberedType ==
  ASSUME NEW old \in Net, NEW new \in Net, NEW a \in Given
  PROVE  Renumbered(old, new, a) \in Given
<1>1. CASE a = Blank \/ ~NetContains(old, a)
  BY <1>1 DEF Renumbered
<1>2. CASE ~(a = Blank \/ ~NetContains(old, a))
  <2> DEFINE S == Pow2[new.mask]
             R == Pow2[old.mask]
             base == SubnetFrom(new.ip, new.mask)
  <2>1. S \in Nat \ {0} /\ base \in Nat /\ base + S - 1 \in Addr
    BY SubnetOf
  <2>2. R \in Nat \ {0}
    BY SubnetOf
  <2>3. Renumbered(old, new, a) = base + ((a % R) % S)
    BY <1>2 DEF Renumbered, HostPart
  <2>4. a \in Nat /\ Addr = 0 .. Pow2[AddrBits] - 1
    BY <1>2 DEF Given, Addr
  <2>5. Pow2[AddrBits] \in Nat
    BY WidthAssumption, PowPositive
  <2> HIDE DEF S, R, base
  <2>6. a % R \in Nat
    BY <2>2, <2>4
  <2>7. (a % R) % S \in 0 .. S - 1
    BY <2>1, <2>6
  <2>8. base + ((a % R) % S) \in Addr
    BY <2>1, <2>4, <2>5, <2>7
  <2>9. QED
    BY <2>3, <2>8 DEF Given
<1>3. QED
  BY <1>1, <1>2

\* Whatever the firmware leaves alone, the binds stay addresses.
LEMMA RenumberingsType ==
  ASSUME NEW old \in Net, NEW new \in Net, NEW b \in [MACs -> Given],
         NEW c \in Renumberings(old, new, b)
  PROVE  c \in [MACs -> Given]
<1>1. \A m \in MACs : Renumbered(old, new, b[m]) \in Given
  BY RenumberedType
<1>2. QED
  BY <1>1 DEF Renumberings

-----------------------------------------------------------------------------
(* Free addresses: countAvailable against a count of them.                 *)

\* The size of a union of two finite sets.
LEMMA UnionOfTwo ==
  ASSUME NEW S, IsFiniteSet(S), NEW T, IsFiniteSet(T)
  PROVE  /\ IsFiniteSet(S \cup T)
         /\ Cardinality(S \cup T) \in Nat /\ Cardinality(S) \in Nat /\ Cardinality(T) \in Nat
         /\ Cardinality(S \cup T) <= Cardinality(S) + Cardinality(T)
         /\ S \cap T = {} => Cardinality(S \cup T) = Cardinality(S) + Cardinality(T)
<1>1. /\ IsFiniteSet(S \cup T) /\ IsFiniteSet(S \cap T)
      /\ Cardinality(S \cup T) = Cardinality(S) + Cardinality(T) - Cardinality(S \cap T)
  BY FS_Union, FS_Intersection
<1>2. /\ Cardinality(S \cup T) \in Nat /\ Cardinality(S) \in Nat /\ Cardinality(T) \in Nat
      /\ Cardinality(S \cap T) \in Nat
  BY <1>1, FS_CardinalityType
<1>3. S \cap T = {} => Cardinality(S \cap T) = 0
  BY FS_EmptySet
<1>4. QED
  BY <1>1, <1>2, <1>3

PartsCount(A, F, P, I, R) ==
  /\ Cardinality(A) <= Cardinality(F) + Cardinality(P) + Cardinality(I) + Cardinality(R)
  /\ /\ A = F \cup P \cup I \cup R
     /\ F \cap P = {} /\ F \cap I = {} /\ F \cap R = {}
     /\ P \cap I = {} /\ P \cap R = {} /\ I \cap R = {}
     => Cardinality(A) = Cardinality(F) + Cardinality(P) + Cardinality(I) + Cardinality(R)

\* A set that four parts cover has no more elements than they have together; as many, when
\* they are its parts and share nothing.
LEMMA FourParts ==
  ASSUME NEW A, NEW F, NEW P, NEW I, NEW R, IsFiniteSet(F), IsFiniteSet(P), IsFiniteSet(I),
         IsFiniteSet(R), A \subseteq F \cup P \cup I \cup R
  PROVE  PartsCount(A, F, P, I, R)
<1> DEFINE FP == F \cup P
           IR == I \cup R
           all == FP \cup IR
<1>1. /\ IsFiniteSet(FP) /\ Cardinality(FP) \in Nat
      /\ Cardinality(F) \in Nat /\ Cardinality(P) \in Nat
      /\ Cardinality(FP) <= Cardinality(F) + Cardinality(P)
      /\ F \cap P = {} => Cardinality(FP) = Cardinality(F) + Cardinality(P)
  BY UnionOfTwo
<1>2. /\ IsFiniteSet(IR) /\ Cardinality(IR) \in Nat
      /\ Cardinality(I) \in Nat /\ Cardinality(R) \in Nat
      /\ Cardinality(IR) <= Cardinality(I) + Cardinality(R)
      /\ I \cap R = {} => Cardinality(IR) = Cardinality(I) + Cardinality(R)
  BY UnionOfTwo
<1>3. A \subseteq all /\ (A = F \cup P \cup I \cup R => A = all)
  OBVIOUS
<1>4. F \cap I = {} /\ F \cap R = {} /\ P \cap I = {} /\ P \cap R = {} => FP \cap IR = {}
  OBVIOUS
<1> HIDE DEF FP, IR
<1>5. /\ IsFiniteSet(all) /\ Cardinality(all) \in Nat
      /\ Cardinality(all) <= Cardinality(FP) + Cardinality(IR)
      /\ FP \cap IR = {} => Cardinality(all) = Cardinality(FP) + Cardinality(IR)
  BY <1>1, <1>2, UnionOfTwo
<1> HIDE DEF all
<1>6. Cardinality(A) <= Cardinality(all) /\ Cardinality(A) \in Nat
  BY <1>3, <1>5, FS_Subset, FS_CardinalityType
<1>7. QED
  BY <1>1, <1>2, <1>3, <1>4, <1>5, <1>6 DEF PartsCount

\* The assignable addresses are those between the network address and the broadcast address:
\* as many as UsableHosts says, and none when the mask leaves no room for one.
LEMMA AssignableOf ==
  ASSUME NEW n \in Net
  PROVE  /\ IsFiniteSet(Assignable(n)) /\ Assignable(n) \subseteq Addr
         /\ UsableHosts(n) = 0 => Assignable(n) = {}
         /\ UsableHosts(n) \in Nat /\ Cardinality(Assignable(n)) = UsableHosts(n)
         /\ \A a, b \in Assignable(n), c \in Int : a <= c /\ c <= b => c \in Assignable(n)
<1> DEFINE S == Pow2[n.mask]
           base == SubnetFrom(n.ip, n.mask)
<1>1. /\ S \in Nat \ {0} /\ base \in Nat /\ base + S - 1 \in Addr
      /\ \A a \in Addr : NetContains(n, a) <=> base <= a /\ a <= base + S - 1
  BY SubnetOf
<1>2. Addr = 0 .. Pow2[AddrBits] - 1 /\ Pow2[AddrBits] \in Nat
  BY WidthAssumption, PowPositive DEF Addr
<1>3. n.mask \in Nat /\ n.mask <= AddrBits /\ AddrBits \in Nat
  BY WidthAssumption DEF Net, Mask
<1>4. \A a \in Addr : NetContains(n, a) => a - HostPart(a, n.mask) = base
  BY DEF NetContains, SubnetFrom, HostPart
<1>5. \A a \in Addr : HostPart(a, n.mask) \in Int
  BY <1>1, <1>2 DEF HostPart
<1>6. Assignable(n) = {a \in Addr : NetContains(n, a) /\ HostPart(a, n.mask) \notin {0, S - 1}}
  BY DEF Assignable
<1> HIDE DEF S, base
<1>7. Assignable(n) = base + 1 .. base + S - 2
  <2>1. ASSUME NEW a \in Assignable(n) PROVE a \in base + 1 .. base + S - 2
    BY <1>1, <1>2, <1>4, <1>5, <1>6, <2>1
  <2>2. ASSUME NEW a \in base + 1 .. base + S - 2 PROVE a \in Assignable(n)
    <3>1. a \in Addr
      BY <1>1, <1>2
    <3>2. NetContains(n, a)
      BY <1>1, <3>1
    <3>3. a - HostPart(a, n.mask) = base /\ HostPart(a, n.mask) \in Int
      BY <1>4, <1>5, <3>1, <3>2
    <3>4. HostPart(a, n.mask) \notin {0, S - 1}
      BY <1>1, <3>3
    <3>5. QED
      BY <1>6, <3>1, <3>2, <3>4
  <2>3. QED
    BY <2>1, <2>2
<1>8. /\ IsFiniteSet(Assignable(n))
      /\ Cardinality(Assignable(n)) = IF S > 2 THEN S - 2 ELSE 0
  <2>1. base + 1 \in Int /\ base + S - 2 \in Int
    BY <1>1
  <2>2. /\ IsFiniteSet(base + 1 .. base + S - 2)
        /\ Cardinality(base + 1 .. base + S - 2)
             = IF base + 1 > base + S - 2 THEN 0 ELSE (base + S - 2) - (base + 1) + 1
    BY <2>1, FS_Interval
  <2>3. QED
    BY <1>1, <1>7, <2>2
<1>9. n.mask < 2 => S <= 2
  <2>1. Pow2[0] = 1 /\ (1 \in 1 .. AddrBits => Pow2[1] = 2)
    <3>1. 1 - 1 = 0 /\ 2 * 1 = 2
      OBVIOUS
    <3>2. Pow2[0] = 1 /\ (1 \in 1 .. AddrBits => Pow2[1] = 2 * Pow2[1-1])
      BY WidthAssumption, DoublingOf, PowIs
    <3>3. QED
      BY <3>1, <3>2
  <2>2. n.mask < 2 => n.mask = 0 \/ (n.mask = 1 /\ 1 \in 1 .. AddrBits)
    BY <1>3
  <2>3. QED
    BY <2>1, <2>2 DEF S
<1>10. n.mask >= 2 => S >= 4
  <2> SUFFICES ASSUME n.mask >= 2 PROVE S >= 4
    OBVIOUS
  <2>1. 1 \in 1 .. AddrBits /\ 2 \in 1 .. AddrBits /\ 1 - 1 = 0 /\ 2 - 1 = 1
    BY <1>3
  <2>2. Pow2[0] = 1 /\ Pow2[1] = 2 * Pow2[0] /\ Pow2[2] = 2 * Pow2[1]
    BY <2>1, WidthAssumption, DoublingOf, PowIs
  <2>3. Pow2[2] = 4
    BY <2>2
  <2>4. 2 \in 0 .. AddrBits /\ n.mask \in 2 .. AddrBits
    BY <1>3, <2>1
  <2>5. PICK q \in Nat \ {0} : Pow2[n.mask] = q * Pow2[2]
    BY <2>4, WidthAssumption, DoublingDivides, PowIs
  <2>6. S = q * 4
    BY <2>3, <2>5 DEF S
  <2>7. QED
    BY <2>6
<1>11. UsableHosts(n) = IF n.mask < 2 THEN 0 ELSE S - 2
  BY DEF UsableHosts, S
<1>12. UsableHosts(n) = IF S > 2 THEN S - 2 ELSE 0
  BY <1>1, <1>3, <1>9, <1>10, <1>11
<1>13. UsableHosts(n) = 0 => Assignable(n) = {}
  BY <1>1, <1>7, <1>12
<1>14. \A a, b \in Assignable(n), c \in Int : a <= c /\ c <= b => c \in Assignable(n)
  BY <1>1, <1>7
<1>15. QED
  BY <1>1, <1>6, <1>8, <1>12, <1>13, <1>14

-----------------------------------------------------------------------------
(* Networks as records.                                                    *)

\* The fields of a command have their types.
LEMMA CommandType ==
  ASSUME NEW c \in Commands
  PROVE  /\ DOMAIN c = {"kind", "iface", "ip", "mask", "start", "stop", "force", "dry"}
         /\ c.iface \in Interfaces /\ c.ip \in Given /\ c.mask \in Mask \cup {Blank}
         /\ c.start \in Given /\ c.stop \in Given
  BY CommandsAssumption

\* The value of an unread network is one.
LEMMA AnyNetType == AnyNet \in Net
<1>1. Pow2[AddrBits] \in Nat \ {0}
  BY WidthAssumption, PowPositive
<1>2. 0 \in Addr /\ 0 \in Mask
  BY <1>1, WidthAssumption DEF Addr, Mask
<1>3. QED
  BY <1>2 DEF AnyNet, Net

\* What a command leaves out is taken from a network, so the result is one.
LEMMA FilledType ==
  ASSUME NEW c \in Commands, NEW n \in Net
  PROVE  Filled(c, n) \in Net
<1>1. DOMAIN n = {"ip", "mask", "start", "stop", "on"}
  BY DEF Net
<1>2. n.ip \in Addr /\ n.mask \in Mask /\ n.start \in Addr /\ n.stop \in Addr /\ n.on \in BOOLEAN
  BY DEF Net
<1>3. Filled(c, n) = [x \in {"ip", "mask", "start", "stop", "on"} |->
                        IF x \in DOMAIN c /\ c[x] # Blank THEN c[x] ELSE n[x]]
  BY <1>1 DEF Filled
<1>4. QED
  BY <1>2, <1>3, CommandType DEF Net, Given

\* What TypeOK says of the interfaces.
NetTable(ns) ==
  /\ "lan" \in DOMAIN ns /\ DOMAIN ns \subseteq Interfaces
  /\ ns \in [DOMAIN ns -> Net]

\* new is ns with the address, mask and pool of n on interface i.
Replaces(new, ns, i, n) ==
  /\ NetTable(new) /\ DOMAIN new = DOMAIN ns \cup {i}
  /\ \A j \in DOMAIN ns : j # i => new[j] = ns[j]
  /\ new[i].ip = n.ip /\ new[i].mask = n.mask
  /\ new[i].start = n.start /\ new[i].stop = n.stop

\* lan.set_config changes one interface, and its DHCP switch stays.
LEMMA ConfiguredReplaces ==
  ASSUME NEW ns, NetTable(ns), NEW i \in Interfaces, NEW n \in Net
  PROVE  Replaces(Configured(ns, i, n), ns, i, n)
<1> DEFINE on == IF i \in DOMAIN ns THEN ns[i].on ELSE TRUE
           here == [n EXCEPT !.on = on]
           new == Configured(ns, i, n)
<1>1. on \in BOOLEAN
  BY DEF Net, NetTable
<1>2. /\ here \in Net /\ here.ip = n.ip /\ here.mask = n.mask
      /\ here.start = n.start /\ here.stop = n.stop
  <2> HIDE DEF on
  <2> QED BY <1>1 DEF Net
<1>3. new = [j \in DOMAIN ns \cup {i} |-> IF j = i THEN here ELSE ns[j]]
  BY DEF Configured
<1> HIDE DEF here, on, new
<1>4. Replaces(new, ns, i, n)
  BY <1>2, <1>3 DEF NetTable, Replaces
<1>5. QED
  BY <1>4 DEF new

\* What a write that takes effect does, whether or not it is answered.
LEMMA WriteFacts ==
  ASSUME TypeOK, NEW p \in Procs, pc[p] = "write", Configure(p)
  PROVE  /\ Replaces(nets', nets, cmd[p].iface, want[p])
         /\ wrote' = [wrote EXCEPT ![p] = TRUE] /\ binds' \in [MACs -> Given]
<1>1. cmd[p].iface \in Interfaces /\ want[p] \in Net
  BY CommandType DEF TypeOK
<1>2. nets' = Configured(nets, cmd[p].iface, want[p]) /\ wrote' = [wrote EXCEPT ![p] = TRUE]
  BY DEF Configure
<1>3. NetTable(nets)
  BY DEF TypeOK, NetTable
<1>4. binds' \in [MACs -> Given]
  <2>1. CASE cmd[p].iface \notin DOMAIN nets
    BY <2>1 DEF Configure, TypeOK
  <2>2. CASE cmd[p].iface \in DOMAIN nets
    <3>1. nets[cmd[p].iface] \in Net /\ binds \in [MACs -> Given]
      BY <2>2 DEF TypeOK
    <3>2. binds' \in Renumberings(nets[cmd[p].iface], want[p], binds)
      BY <2>2 DEF Configure
    <3>3. QED
      BY <1>1, <3>1, <3>2, RenumberingsType
  <2>3. QED
    BY <2>1, <2>2
<1>5. QED
  BY <1>1, <1>2, <1>3, <1>4, ConfiguredReplaces

-----------------------------------------------------------------------------
(* Every variable keeps its type.                                          *)
\* Every variable has its type: what the commands of lan.go and network.go read and fill in
\* is again a network, so the router never holds anything else.
THEOREM NetworkTyped == Spec => []TypeOK
<1>1. Init => TypeOK
  <2> SUFFICES ASSUME Init PROVE TypeOK
    OBVIOUS
  <2>1. /\ "lan" \in DOMAIN nets /\ DOMAIN nets \subseteq Interfaces
        /\ nets \in [DOMAIN nets -> Net]
    BY NetsAssumption DEF Init
  <2>2. /\ pc \in [Procs -> Steps] /\ result \in [Procs -> Results]
        /\ cmd \in [Procs -> Commands \cup {NoCommand}]
        /\ \A p \in Procs : pc[p] # "idle" => cmd[p] \in Commands
        /\ wrote \in [Procs -> BOOLEAN] /\ DOMAIN seen = Procs /\ binds \in [MACs -> Given]
    BY BindsAssumption DEF Init, Steps, Results
  <2>3. /\ current \in [Procs -> Net] /\ want \in [Procs -> Net]
        /\ checked \in [Procs -> Net]
    BY AnyNetType DEF Init
  <2>4. QED
    BY <2>1, <2>2, <2>3 DEF TypeOK
<1>2. TypeOK /\ [Next]_vars => TypeOK'
  <2> SUFFICES ASSUME TypeOK, [Next]_vars PROVE TypeOK'
    OBVIOUS
  <2> USE DEF TypeOK, Steps, Results, routerVars, bounds
  <2>1. ASSUME NEW p \in Procs, NEW c \in Commands, Start(p, c) PROVE TypeOK'
    <3>1. Filled(c, AnyNet) \in Net
      BY AnyNetType, FilledType
    <3>2. QED
      BY <2>1, <3>1 DEF Start, Go, End
  <2>2. ASSUME NEW p \in Procs, ReadNetwork(p) PROVE TypeOK'
    <3>1. nets["lan"] \in Net /\ cmd[p] \in Commands
      BY <2>2 DEF ReadNetwork
    <3>2. Filled(cmd[p], nets["lan"]) \in Net
      BY <3>1, FilledType
    <3>3. QED
      BY <2>2, <3>1, <3>2 DEF ReadNetwork, Go, End
  <2>3. ASSUME NEW p \in Procs, ReadBinds(p) PROVE TypeOK'
    BY <2>3 DEF ReadBinds, Go, End
  <2>4. ASSUME NEW p \in Procs, CheckMoves(p) PROVE TypeOK'
    <3>1. (IF cmd[p].iface \in DOMAIN nets THEN nets[cmd[p].iface] ELSE AnyNet) \in Net
      BY AnyNetType
    <3>2. QED
      BY <2>4, <3>1 DEF CheckMoves, Go
  <2>5. ASSUME NEW p \in Procs, Guard(p) PROVE TypeOK'
    BY <2>5 DEF Guard, Go, End
  <2>6. ASSUME NEW p \in Procs, pc[p] = "write", Configure(p)
        PROVE  /\ "lan" \in DOMAIN nets' /\ DOMAIN nets' \subseteq Interfaces
               /\ nets' \in [DOMAIN nets' -> Net]
               /\ wrote' \in [Procs -> BOOLEAN] /\ binds' \in [MACs -> Given]
    BY <2>6, WriteFacts DEF Replaces, NetTable
  <2>7. ASSUME NEW p \in Procs, Write(p) PROVE TypeOK'
    BY <2>6, <2>7 DEF Write, End
  <2>8. ASSUME NEW p \in Procs, WriteUnanswered(p) PROVE TypeOK'
    BY <2>6, <2>8 DEF WriteUnanswered, End, LostResult
  <2>9. ASSUME NEW p \in Procs, Refused(p) PROVE TypeOK'
    BY <2>9 DEF Refused, End
  <2>10. ASSUME NEW p \in Procs, Lost(p) PROVE TypeOK'
    BY <2>10 DEF Lost, End, LostResult
  <2>11. ASSUME NEW m \in MACs, Reserve(m) PROVE TypeOK'
    <3>1. \A a \in Assignable(nets["lan"]) : a \in Given
      BY DEF Assignable, Given
    <3>2. Blank \in Given
      BY DEF Given
    <3>3. QED
      BY <2>11, <3>1, <3>2 DEF Reserve
  <2>12. CASE UNCHANGED vars
    BY <2>12 DEF vars
  <2>13. QED
    BY <2>1, <2>2, <2>3, <2>4, <2>5, <2>7, <2>8, <2>9, <2>10, <2>11, <2>12 DEF Next
<1>3. QED
  BY <1>1, <1>2, PTL DEF Spec

-----------------------------------------------------------------------------
(* NetworkInv holds throughout.                                            *)

\* The pool that is written is the one that was validated.
LEMMA WritePools ==
  ASSUME NetworkInv, NEW p \in Procs, pc[p] = "write", Configure(p)
  PROVE  PoolServable'
<1> DEFINE i == cmd[p].iface
<1>1. ValidForWrite(want[p])
  BY DEF NetworkInv, CommandInv, WantValid, Writing
<1>2. ASSUME NEW j \in DOMAIN nets'
      PROVE  /\ nets'[j].start <= nets'[j].stop
             /\ \A a \in {nets'[j].start, nets'[j].stop} : NetContains(nets'[j], a)
  <2>1. CASE j = i
    <3>1. /\ nets'[j].ip = want[p].ip /\ nets'[j].mask = want[p].mask
          /\ nets'[j].start = want[p].start /\ nets'[j].stop = want[p].stop
      BY <2>1, WriteFacts DEF NetworkInv, Replaces
    <3>2. want[p] \in Net
      BY DEF NetworkInv, TypeOK
    <3>3. QED
      BY <1>1, <3>1, <3>2 DEF ValidForWrite, NetContains, Net, Addr
  <2>2. CASE j # i
    <3>1. j \in DOMAIN nets /\ nets'[j] = nets[j]
      BY <1>2, <2>2, WriteFacts DEF NetworkInv, Replaces
    <3>2. QED
      BY <3>1 DEF NetworkInv, PoolServable
  <2>3. QED
    BY <2>1, <2>2
<1>3. QED
  BY <1>2 DEF PoolServable

\* A step leaves command q alone.
SameFor(q) ==
  /\ pc'[q] = pc[q] /\ cmd'[q] = cmd[q] /\ want'[q] = want[q] /\ seen'[q] = seen[q]
  /\ checked'[q] = checked[q] /\ wrote'[q] = wrote[q] /\ result'[q] = result[q]

\* What holds of a command holds after a step that leaves it alone.
LEMMA OthersKeep ==
  ASSUME NEW q, CommandInv(q), SameFor(q)
  PROVE  CommandInv(q)'
  BY DEF CommandInv, WantValid, NotYet, WriteChecked, SameFor, Reserved, SameSubnet,
         ValidForWrite, NetContains, Writing

\* A step that writes no network keeps the pools.
LEMMA PoolsKeep == PoolServable /\ UNCHANGED nets => PoolServable'
  BY DEF PoolServable, NetContains

\* Each step keeps NetworkInv: one case for each action, and for a stutter.
LEMMA NetworkStep == NetworkInv /\ TypeOK' /\ [Next]_vars => NetworkInv'
<1> SUFFICES ASSUME NetworkInv, TypeOK', [Next]_vars
             PROVE  PoolServable' /\ \A p \in Procs : CommandInv(p)'
  BY DEF NetworkInv
<1> USE DEF routerVars, bounds
<1>0. TypeOK /\ PoolServable /\ \A p \in Procs : CommandInv(p)
  BY DEF NetworkInv
<1>1. ASSUME NEW p \in Procs, PoolServable', CommandInv(p)',
             \A q \in Procs : q # p => SameFor(q)
      PROVE  PoolServable' /\ \A q \in Procs : CommandInv(q)'
  BY <1>0, <1>1, OthersKeep
<1>2. ASSUME NEW p \in Procs, NEW c \in Commands, Start(p, c)
      PROVE  PoolServable' /\ \A q \in Procs : CommandInv(q)'
  <2>1. \A q \in Procs : q # p => SameFor(q)
    BY <1>0, <1>2 DEF Start, Go, End, SameFor, TypeOK
  <2>2. ~wrote'[p] /\ want'[p] = Filled(c, AnyNet)
    BY <1>0, <1>2 DEF Start, TypeOK
  <2>3. \/ pc'[p] = "idle" /\ result'[p] = "refused"
        \/ pc'[p] = "get"
        \/ pc'[p] = "moves" /\ ValidForWrite(want'[p])
    BY <1>0, <1>2, <2>2 DEF Start, Go, End, TypeOK
  <2>4. CommandInv(p)'
    BY <2>2, <2>3 DEF CommandInv, WantValid, NotYet, WriteChecked, Writing,
                      ValidForWrite, NetContains
  <2>5. PoolServable'
    BY <1>0, <1>2, PoolsKeep DEF Start
  <2>6. QED
    BY <1>1, <2>1, <2>4, <2>5
<1>3. ASSUME NEW p \in Procs, ReadNetwork(p)
      PROVE  PoolServable' /\ \A q \in Procs : CommandInv(q)'
  <2>1. \A q \in Procs : q # p => SameFor(q)
    BY <1>0, <1>3 DEF ReadNetwork, Go, End, SameFor, TypeOK
  <2>2. ~wrote'[p]
    BY <1>0, <1>3 DEF ReadNetwork, CommandInv, NotYet
  <2>3. \/ pc'[p] = "idle" /\ result'[p] = "refused"
        \/ pc'[p] = "binds" /\ ValidForWrite(want'[p])
    BY <1>0, <1>3 DEF ReadNetwork, Go, End, TypeOK
  <2>4. CommandInv(p)'
    BY <2>2, <2>3 DEF CommandInv, WantValid, NotYet, WriteChecked, Writing,
                      ValidForWrite, NetContains
  <2>5. PoolServable'
    BY <1>0, <1>3, PoolsKeep DEF ReadNetwork
  <2>6. QED
    BY <1>1, <2>1, <2>4, <2>5
<1>4. ASSUME NEW p \in Procs, ReadBinds(p)
      PROVE  PoolServable' /\ \A q \in Procs : CommandInv(q)'
  <2>1. \A q \in Procs : q # p => SameFor(q)
    BY <1>0, <1>4 DEF ReadBinds, Go, End, SameFor, TypeOK
  <2>2. ~wrote'[p] /\ ValidForWrite(want[p]) /\ want'[p] = want[p]
    BY <1>0, <1>4 DEF ReadBinds, CommandInv, NotYet, WantValid, Writing
  <2>3. \/ pc'[p] = "idle" /\ result'[p] \in {"refused", "dry"}
        \/ pc'[p] = "moves"
    BY <1>0, <1>4 DEF ReadBinds, Go, End, TypeOK
  <2>4. CommandInv(p)'
    BY <2>2, <2>3 DEF CommandInv, WantValid, NotYet, WriteChecked, Writing,
                      ValidForWrite, NetContains
  <2>5. PoolServable'
    BY <1>0, <1>4, PoolsKeep DEF ReadBinds
  <2>6. QED
    BY <1>1, <2>1, <2>4, <2>5
<1>5. ASSUME NEW p \in Procs, CheckMoves(p)
      PROVE  PoolServable' /\ \A q \in Procs : CommandInv(q)'
  <2>1. \A q \in Procs : q # p => SameFor(q)
    BY <1>0, <1>5 DEF CheckMoves, Go, SameFor, TypeOK
  <2>2. ~wrote'[p] /\ ValidForWrite(want[p]) /\ want'[p] = want[p] /\ cmd'[p] = cmd[p]
    BY <1>0, <1>5 DEF CheckMoves, CommandInv, NotYet, WantValid, Writing
  <2>3. \/ pc'[p] = "guard"
        \/ pc'[p] = "write" /\ (cmd[p].force \/ SameSubnet(checked'[p], want[p]))
    BY <1>0, <1>5 DEF CheckMoves, Go, Moves, TypeOK
  <2>4. CommandInv(p)'
    BY <2>2, <2>3 DEF CommandInv, WantValid, NotYet, WriteChecked, Writing,
                      ValidForWrite, NetContains, SameSubnet, Reserved
  <2>5. PoolServable'
    BY <1>0, <1>5, PoolsKeep DEF CheckMoves
  <2>6. QED
    BY <1>1, <2>1, <2>4, <2>5
<1>6. ASSUME NEW p \in Procs, Guard(p)
      PROVE  PoolServable' /\ \A q \in Procs : CommandInv(q)'
  <2>1. \A q \in Procs : q # p => SameFor(q)
    BY <1>0, <1>6 DEF Guard, Go, End, SameFor, TypeOK
  <2>2. ~wrote'[p] /\ ValidForWrite(want[p]) /\ want'[p] = want[p] /\ seen'[p] = binds
    BY <1>0, <1>6 DEF Guard, CommandInv, NotYet, WantValid, Writing, TypeOK
  <2>3. \/ pc'[p] = "idle" /\ result'[p] = "refused"
        \/ pc'[p] = "write" /\ Reserved(seen'[p]) = {}
    BY <1>0, <1>6, <2>2 DEF Guard, Go, End, TypeOK, Reserved
  <2>4. CommandInv(p)'
    BY <2>2, <2>3 DEF CommandInv, WantValid, NotYet, WriteChecked, Writing,
                      ValidForWrite, NetContains, Reserved
  <2>5. PoolServable'
    BY <1>0, <1>6, PoolsKeep DEF Guard
  <2>6. QED
    BY <1>1, <2>1, <2>4, <2>5
<1>7. ASSUME NEW p \in Procs, NEW r, End(p, r), PoolServable',
             UNCHANGED <<cmd, current, want, seen, checked>>,
             \A q \in Procs : q # p => wrote'[q] = wrote[q]
      PROVE  PoolServable' /\ \A q \in Procs : CommandInv(q)'
  <2>1. \A q \in Procs : q # p => SameFor(q)
    BY <1>0, <1>7 DEF End, SameFor, TypeOK
  <2>2. pc'[p] = "idle" /\ result'[p] = r
    BY <1>0, <1>7 DEF End, TypeOK
  <2>3. CommandInv(p)'
    BY <1>7, <2>2 DEF CommandInv, WantValid, NotYet, WriteChecked, Writing
  <2>4. QED
    BY <1>1, <1>7, <2>1, <2>3
<1>8. ASSUME NEW p \in Procs, pc[p] = "write", Configure(p)
      PROVE  /\ PoolServable' /\ wrote'[p]
             /\ \A q \in Procs : q # p => wrote'[q] = wrote[q]
  BY <1>0, <1>8, WritePools DEF Configure, TypeOK
<1>10. ASSUME NEW p \in Procs, Write(p)
       PROVE  PoolServable' /\ \A q \in Procs : CommandInv(q)'
  BY <1>7, <1>8, <1>10 DEF Write
<1>11. ASSUME NEW p \in Procs, WriteUnanswered(p)
       PROVE  PoolServable' /\ \A q \in Procs : CommandInv(q)'
  BY <1>7, <1>8, <1>11 DEF WriteUnanswered
<1>12. ASSUME NEW p \in Procs, Refused(p)
       PROVE  PoolServable' /\ \A q \in Procs : CommandInv(q)'
  BY <1>0, <1>7, <1>12, PoolsKeep DEF Refused
<1>13. ASSUME NEW p \in Procs, Lost(p)
       PROVE  PoolServable' /\ \A q \in Procs : CommandInv(q)'
  BY <1>0, <1>7, <1>13, PoolsKeep DEF Lost
<1>14. ASSUME NEW m \in MACs, Reserve(m)
       PROVE  PoolServable' /\ \A q \in Procs : CommandInv(q)'
  BY <1>0, <1>14, OthersKeep, PoolsKeep DEF Reserve, SameFor
<1>15. CASE UNCHANGED vars
  BY <1>0, <1>15, OthersKeep, PoolsKeep DEF vars, SameFor
<1>16. QED
  BY <1>2, <1>3, <1>4, <1>5, <1>6, <1>10, <1>11, <1>12, <1>13, <1>14, <1>15 DEF Next

\* Every command writes only what SetNetwork and Set have validated and, without force,
\* looked at.
THEOREM NetworkSafe == Spec => []NetworkInv
<1>1. Init /\ TypeOK => NetworkInv
  <2> SUFFICES ASSUME Init PROVE PoolServable /\ \A p \in Procs : CommandInv(p)
    BY DEF NetworkInv
  <2>1. \A i \in DOMAIN nets : nets[i] \in Net /\ ValidForWrite(nets[i])
    BY NetsAssumption DEF Init
  <2>2. PoolServable
    BY <2>1 DEF PoolServable, ValidForWrite, Net, Addr
  <2>3. ASSUME NEW p \in Procs PROVE CommandInv(p)
    BY DEF Init, CommandInv, WantValid, NotYet, WriteChecked, Writing
  <2>4. QED
    BY <2>2, <2>3
<1>2. NetworkInv /\ TypeOK' /\ [Next]_vars => NetworkInv'
  BY NetworkStep
<1>3. QED
  BY <1>1, <1>2, NetworkTyped, PTL DEF Spec

-----------------------------------------------------------------------------
(* What the runs check on a small instance.                                *)

\* No pool outside its own subnet is ever configured (ValidateForWrite in
\* netcfg/operations.go and services/network.go).
THEOREM PoolsServable == Spec => []PoolServable
<1>1. NetworkInv => PoolServable
  BY DEF NetworkInv
<1>2. QED
  BY <1>1, NetworkSafe, PTL

\* A step of another command, or of another program, writes for nobody else.
LEMMA WrittenBy ==
  ASSUME NetworkInv, [Next]_vars, NEW p \in Procs, pc[p] = "write", wrote'[p]
  PROVE  Configure(p)
<1> USE DEF routerVars, bounds
<1>1. TypeOK /\ ~wrote[p]
  BY DEF NetworkInv, CommandInv, NotYet
<1>2. wrote' # wrote
  BY <1>1
<1>3. ASSUME NEW q \in Procs, Configure(q) PROVE q = p
  BY <1>1, <1>3 DEF Configure, TypeOK
<1>4. ASSUME NEW q \in Procs, NEW c \in Commands, Start(q, c) PROVE FALSE
  BY <1>1, <1>4 DEF Start, TypeOK
<1>5. \A q \in Procs : ~ReadNetwork(q) /\ ~ReadBinds(q) /\ ~CheckMoves(q) /\ ~Guard(q)
  BY <1>2 DEF ReadNetwork, ReadBinds, CheckMoves, Guard
<1>6. (\A q \in Procs : ~Refused(q) /\ ~Lost(q)) /\ (\A m \in MACs : ~Reserve(m))
  BY <1>2 DEF Refused, Lost, Reserve
<1>7. ~UNCHANGED vars
  BY <1>2 DEF vars
<1>8. PICK q \in Procs : Write(q) \/ WriteUnanswered(q)
  BY <1>4, <1>5, <1>6, <1>7 DEF Next
<1>9. Configure(q)
  BY <1>8 DEF Write, WriteUnanswered
<1>10. QED
  BY <1>3, <1>9

\* A write without --force renumbers no bind that the guard of SetNetwork or of
\* NetworkService.Set could see.
THEOREM GuardKeepsBinds == Spec => GuardedKeepsBinds
<1> DEFINE Keeps ==
      \A p \in Procs, m \in MACs :
        /\ pc[p] = "write" /\ wrote'[p] /\ ~cmd[p].force
        /\ cmd[p].iface \in DOMAIN nets /\ nets[cmd[p].iface] = checked[p]
        /\ binds[m] # Blank /\ binds'[m] # binds[m]
        => seen[p][m] = Blank
<1>1. ASSUME NetworkInv, [Next]_vars PROVE Keeps
  <2> SUFFICES ASSUME NEW p \in Procs, NEW m \in MACs,
                      pc[p] = "write", wrote'[p], ~cmd[p].force,
                      cmd[p].iface \in DOMAIN nets, nets[cmd[p].iface] = checked[p],
                      binds'[m] # binds[m]
               PROVE  seen[p][m] = Blank
    BY DEF Keeps
  <2>1. Configure(p)
    BY <1>1, WrittenBy
  <2>2. ~SameSubnet(checked[p], want[p])
    BY <2>1 DEF Configure, Renumberings
  <2>3. Reserved(seen[p]) = {}
    BY <1>1, <2>2 DEF NetworkInv, CommandInv, WriteChecked
  <2>4. QED
    BY <2>3 DEF Reserved
<1>2. NetworkInv /\ [Next]_vars => [Keeps]_vars
  BY <1>1
<1>3. QED
  BY <1>2, NetworkSafe, PTL DEF Spec, GuardedKeepsBinds

\* A dry run that approves is one that the write would not have refused then.
THEOREM DryRunsAgree == Spec => DryRunAgrees
<1> DEFINE Agrees ==
      \A p \in Procs :
        /\ pc[p] = "binds" /\ pc'[p] = "idle" /\ result'[p] = "dry"
        /\ cmd[p].iface = "lan" /\ nets["lan"] = current[p]
        => ~(Moves(nets, "lan", want[p]) /\ Reserved(binds) # {} /\ ~cmd[p].force)
<1>1. ASSUME NetworkInv, [Next]_vars PROVE Agrees
  <2> USE DEF routerVars, bounds
  <2> SUFFICES ASSUME NEW p \in Procs, pc[p] = "binds", pc'[p] = "idle", result'[p] = "dry",
                      nets["lan"] = current[p]
               PROVE  ~(Moves(nets, "lan", want[p]) /\ Reserved(binds) # {} /\ ~cmd[p].force)
    BY DEF Agrees
  <2>1. TypeOK
    BY <1>1 DEF NetworkInv
  <2>2. ReadBinds(p)
    <3>1. ASSUME NEW q \in Procs, NEW c \in Commands, Start(q, c) PROVE FALSE
      BY <2>1, <3>1 DEF Start, Go, End, TypeOK
    <3>2. \A q \in Procs : ~ReadNetwork(q) /\ ~CheckMoves(q) /\ ~Guard(q)
      BY <2>1 DEF ReadNetwork, CheckMoves, Guard, Go, End, TypeOK
    <3>3. \A q \in Procs : ~Write(q) /\ ~WriteUnanswered(q)
      BY <2>1 DEF Write, WriteUnanswered, End, TypeOK
    <3>4. \A q \in Procs : ~Refused(q) /\ ~Lost(q)
      BY <2>1 DEF Refused, Lost, LostResult, End, TypeOK
    <3>5. (\A m \in MACs : ~Reserve(m)) /\ ~UNCHANGED vars
      BY DEF Reserve, vars
    <3>6. \A q \in Procs : ReadBinds(q) => q = p
      BY <2>1 DEF ReadBinds, Go, End, TypeOK
    <3>7. QED
      BY <1>1, <3>1, <3>2, <3>3, <3>4, <3>5, <3>6 DEF Next
  <2>3. ~(~SameSubnet(want[p], current[p]) /\ Reserved(binds) # {} /\ ~cmd[p].force)
    BY <2>1, <2>2 DEF ReadBinds, End, Moving, TypeOK
  <2>4. QED
    BY <2>1, <2>3 DEF Moves, SameSubnet, TypeOK
<1>2. NetworkInv /\ [Next]_vars => [Agrees]_vars
  BY <1>1
<1>3. QED
  BY <1>2, NetworkSafe, PTL DEF Spec, DryRunAgrees

\* What AvailableExact calls tidy: the pool and the binds are assignable, and distinct.
Tidy(n, b) ==
  /\ ~n.on \/ {n.start, n.stop} \subseteq Assignable(n)
  /\ n.ip \in Assignable(n)
  /\ \A m \in Reserved(b) : b[m] \in Assignable(n)
  /\ \A m, k \in Reserved(b) : b[m] = b[k] => m = k

\* countAvailable subtracts from the addresses of the subnet the pool, the router and the
\* binds that are in neither.  Whatever the binds are, no free address is counted that is
\* not there; none is missed when the binds and the pool are tidy (countAvailable).
THEOREM CountIsFree ==
  ASSUME NEW n \in Net, NEW b \in [MACs -> Given]
  PROVE  /\ CountAvailable(n, b) <= Cardinality(Free(n, b))
         /\ Tidy(n, b) => CountAvailable(n, b) = Cardinality(Free(n, b))
<1> DEFINE A == Assignable(n)
           F == Free(n, b)
           P == IF n.on THEN n.start .. n.stop ELSE {}
           I == IF InDHCPPool(n, n.ip) THEN {} ELSE {n.ip}
           T == Subtracted(n, b)
           f == [m \in T |-> b[m]]
           R == {f[m] : m \in T}
           usable == UsableHosts(n)
           left == usable - PoolSize(n) - (IF InDHCPPool(n, n.ip) THEN 0 ELSE 1) - Cardinality(T)
<1>1. /\ IsFiniteSet(A) /\ A \subseteq Addr /\ (usable = 0 => A = {})
      /\ usable \in Nat /\ Cardinality(A) = usable
      /\ \A x, y \in A, z \in Int : x <= z /\ z <= y => z \in A
  BY AssignableOf
<1>2. \A a \in Addr : a \in Nat /\ a # Blank
  <2>1. Pow2[AddrBits] \in Nat
    BY WidthAssumption, PowPositive
  <2>2. QED
    BY <2>1 DEF Addr, Blank
<1>3. n.ip \in Addr /\ n.start \in Addr /\ n.stop \in Addr /\ n.on \in BOOLEAN
  BY DEF Net
<1>4. n.ip \in Nat /\ n.start \in Nat /\ n.stop \in Nat
  BY <1>2, <1>3
<1>5. \A a : InDHCPPool(n, a) <=> n.on /\ a >= n.start /\ a <= n.stop
  BY DEF InDHCPPool, InRange
<1>6. \A a \in Int : a \in P <=> InDHCPPool(n, a)
  BY <1>3, <1>4, <1>5
<1>7. IsFiniteSet(P) /\ Cardinality(P) = PoolSize(n)
  <2>1. IsFiniteSet(n.start .. n.stop) /\
        Cardinality(n.start .. n.stop) = IF n.start > n.stop THEN 0 ELSE n.stop - n.start + 1
    <3>1. n.start \in Int /\ n.stop \in Int
      BY <1>4
    <3>2. QED
      BY <3>1, FS_Interval
  <2>2. CASE n.on
    BY <1>4, <2>1, <2>2 DEF PoolSize
  <2>3. CASE ~n.on
    BY <2>3, FS_EmptySet DEF PoolSize
  <2>4. QED
    BY <2>2, <2>3
<1>8. IsFiniteSet(I) /\ Cardinality(I) = IF InDHCPPool(n, n.ip) THEN 0 ELSE 1
  BY FS_EmptySet, FS_Singleton
<1>9. DOMAIN b = MACs /\ \A m \in MACs : b[m] \in Addr \/ b[m] = Blank
  BY DEF Given
<1>10. /\ T \subseteq MACs /\ IsFiniteSet(T)
       /\ \A m \in MACs : m \in T <=> /\ b[m] # Blank /\ NetContains(n, b[m])
                                      /\ ~InDHCPPool(n, b[m]) /\ b[m] # n.ip
  <2>1. T \subseteq MACs
    BY <1>9 DEF Subtracted
  <2>2. IsFiniteSet(T)
    BY <2>1, BindsAssumption, FS_Subset
  <2>3. QED
    BY <1>9, <2>1, <2>2 DEF Subtracted
<1>11. F = {a \in A : a # n.ip /\ ~InDHCPPool(n, a) /\ \A m \in MACs : b[m] # a}
  BY <1>9 DEF Free
<1>12. \A a \in A : NetContains(n, a)
  BY DEF Assignable
<1>13. IsFiniteSet(F) /\ Cardinality(F) \in Nat
  <2>1. F \in SUBSET A
    BY <1>11
  <2> HIDE DEF F, A
  <2>2. QED
    BY <1>1, <2>1, FS_Subset, FS_CardinalityType
<1> HIDE DEF T
<1>14. /\ IsFiniteSet(R) /\ Cardinality(R) <= Cardinality(T)
       /\ (\A m, k \in T : b[m] = b[k] => m = k) => Cardinality(R) = Cardinality(T)
  <2>1. f \in Surjection(T, R)
    <3>1. f \in [T -> R] /\ \A y \in R : \E m \in T : f[m] = y
      OBVIOUS
    <3> HIDE DEF f, R
    <3>2. QED
      BY <3>1 DEF Surjection
  <2>2. (\A m, k \in T : b[m] = b[k] => m = k) => f \in Injection(T, R)
    <3>1. f \in [T -> R] /\ \A m \in T : f[m] = b[m]
      OBVIOUS
    <3> HIDE DEF f, R
    <3>2. QED
      BY <3>1 DEF Injection, IsInjective
  <2> HIDE DEF f, R
  <2>3. QED
    BY <1>10, <2>1, <2>2, FS_Surjection
<1>15. Cardinality(T) \in Nat /\ Cardinality(R) \in Nat /\ PoolSize(n) \in Nat
  BY <1>7, <1>10, <1>14, FS_CardinalityType
<1>16. \A y : y \in R <=> \E m \in T : y = b[m]
  OBVIOUS
<1>17. A \subseteq F \cup P \cup I \cup R
  <2> SUFFICES ASSUME NEW a \in A, a \notin F, a \notin P, a \notin I PROVE a \in R
    OBVIOUS
  <2>1. a \in Addr /\ a \in Nat
    BY <1>1, <1>2
  <2>2. ~InDHCPPool(n, a)
    BY <1>6, <2>1
  <2>3. a # n.ip
    BY <2>2
  <2> HIDE DEF R, P, I
  <2>4. PICK m \in MACs : b[m] = a
    BY <1>11, <2>2, <2>3
  <2>5. m \in T
    BY <1>2, <1>10, <1>12, <2>1, <2>2, <2>3, <2>4
  <2>6. QED
    BY <1>16, <2>4, <2>5
<1>18. CountAvailable(n, b) = IF usable = 0 \/ left < 0 THEN 0 ELSE left
  BY DEF CountAvailable, T
<1> HIDE DEF F, A, P, I, R, usable, f, left
<1>19. PartsCount(A, F, P, I, R)
  <2>1. IsFiniteSet(F) /\ IsFiniteSet(P) /\ IsFiniteSet(I) /\ IsFiniteSet(R)
    BY <1>7, <1>8, <1>13, <1>14
  <2>2. QED
    BY <1>17, <2>1, FourParts
<1>20. CountAvailable(n, b) <= Cardinality(F)
  BY <1>1, <1>7, <1>8, <1>13, <1>14, <1>15, <1>18, <1>19 DEF left, PartsCount
<1>21. ASSUME Tidy(n, b) PROVE CountAvailable(n, b) = Cardinality(F)
  <2>1. /\ ~n.on \/ (n.start \in A /\ n.stop \in A)
        /\ n.ip \in A
        /\ \A m \in MACs : b[m] # Blank => b[m] \in A
        /\ \A m, k \in MACs : b[m] # Blank /\ b[k] # Blank /\ b[m] = b[k] => m = k
    BY <1>21 DEF Tidy, Reserved, A
  <2>2. P \subseteq A
    <3> SUFFICES ASSUME NEW a \in P PROVE a \in A
      OBVIOUS
    <3>1. n.on /\ a \in Int /\ n.start <= a /\ a <= n.stop
      BY <1>3, <1>4 DEF P
    <3>2. QED
      BY <1>1, <2>1, <3>1
  <2>3. I \subseteq A /\ R \subseteq A
    BY <1>10, <1>16, <2>1 DEF I
  <2>4. F \subseteq A /\ A = F \cup P \cup I \cup R
    BY <1>11, <1>17, <2>2, <2>3
  <2>5. \A a \in A : a \in Int
    BY <1>1, <1>2
  <2>6. F \cap P = {} /\ P \cap R = {} /\ P \cap I = {}
    <3>1. \A a \in A : a \in P <=> InDHCPPool(n, a)
      BY <1>6, <2>5
    <3>2. \A a \in R : ~InDHCPPool(n, a)
      BY <1>10, <1>16
    <3>3. \A a \in I : ~InDHCPPool(n, a)
      BY DEF I
    <3>4. QED
      BY <1>11, <2>2, <3>1, <3>2, <3>3
  <2>7. F \cap I = {} /\ F \cap R = {} /\ I \cap R = {}
    BY <1>10, <1>11, <1>16 DEF I
  <2>8. Cardinality(R) = Cardinality(T)
    BY <1>10, <1>14, <2>1
  <2>9. usable # 0
    BY <1>1, <2>1
  <2>10. usable = Cardinality(F) + Cardinality(P) + Cardinality(I) + Cardinality(R)
    BY <1>1, <1>19, <2>4, <2>6, <2>7 DEF PartsCount
  <2>11. QED
    BY <1>7, <1>8, <1>13, <1>15, <1>18, <2>8, <2>9, <2>10 DEF left
<1>22. QED
  BY <1>20, <1>21 DEF F

\* `gogl lan show` never overstates the free addresses of the main LAN, whatever commands and
\* other programs did to it, and is exact when the pool and the binds are tidy.
THEOREM AvailableExactSafe == Spec => []AvailableExact
<1>1. ASSUME TypeOK PROVE AvailableExact
  <2>1. nets["lan"] \in Net /\ binds \in [MACs -> Given]
    BY <1>1 DEF TypeOK
  <2>2. /\ CountAvailable(nets["lan"], binds) <= Cardinality(Free(nets["lan"], binds))
        /\ Tidy(nets["lan"], binds) =>
             CountAvailable(nets["lan"], binds) = Cardinality(Free(nets["lan"], binds))
    BY <2>1, CountIsFree
  <2>3. QED
    BY <2>2 DEF AvailableExact, Tidy
<1>2. QED
  BY <1>1, NetworkTyped, PTL
=============================================================================
