----------------------------- MODULE Addresses ------------------------------
(***************************************************************************)
(* Addresses, networks and pools: src/ipmath and src/types/network.go.     *)
(* An address is a number of AddrBits bits (32 in the code), a contiguous  *)
(* netmask the number of its host bits.  A network is a record             *)
(* [ip, mask, start, stop, on]: the router's address and mask, the bounds  *)
(* of the DHCP pool and whether DHCP is on.                                *)
(***************************************************************************)
EXTENDS Integers, FiniteSets

CONSTANT AddrBits      \* width of an address

ASSUME WidthAssumption == AddrBits \in Nat

\* Pow2[n] is 1 << n.
Pow2[n \in 0 .. AddrBits] == IF n = 0 THEN 1 ELSE 2 * Pow2[n-1]

Addr == 0 .. (Pow2[AddrBits] - 1)
Mask == 0 .. AddrBits
Blank == -1            \* a field that was not given
Net == [ip : Addr, mask : Mask, start : Addr, stop : Addr, on : BOOLEAN]

\* Network address and host part of an address under a mask.
SubnetFrom(ip, mask) == ip - (ip % Pow2[mask])
HostPart(ip, mask) == ip % Pow2[mask]

NetContains(n, a) == SubnetFrom(a, n.mask) = SubnetFrom(n.ip, n.mask)
InRange(a, start, stop) == a >= start /\ a <= stop
InDHCPPool(n, a) == n.on /\ InRange(a, n.start, n.stop)
PoolSize(n) == IF n.on /\ n.stop >= n.start THEN n.stop - n.start + 1 ELSE 0
UsableHosts(n) == IF n.mask < 2 THEN 0 ELSE Pow2[n.mask] - 2

\* Mutant of ValidForWrite: only the start of the pool is compared with the subnet.
ValidForWriteStart(n) == NetContains(n, n.start) /\ n.stop >= n.start

ValidForWrite(n) == NetContains(n, n.start) /\ NetContains(n, n.stop) /\ n.stop >= n.start

SameSubnet(m, n) == m.ip = n.ip /\ m.mask = n.mask

\* Where the firmware takes a bind when the subnet old becomes new: the host part stays.
Renumbered(old, new, a) ==
  IF a = Blank \/ ~NetContains(old, a) THEN a
  ELSE SubnetFrom(new.ip, new.mask) + HostPart(HostPart(a, old.mask), new.mask)

\* countAvailable: b maps each MAC to its reserved address, or to Blank.
\* A reservation is subtracted unless it is outside the subnet, in the pool or
\* the router's own address.
Subtracted(n, b) ==
  {m \in DOMAIN b : b[m] # Blank /\ NetContains(n, b[m]) /\ ~InDHCPPool(n, b[m]) /\ b[m] # n.ip}

\* Mutant of CountAvailable: reservations in the pool are subtracted as well.
CountAvailableTwice(n, b) ==
  LET left == UsableHosts(n) - PoolSize(n) - (IF InDHCPPool(n, n.ip) THEN 0 ELSE 1)
                - Cardinality({m \in DOMAIN b : b[m] # Blank /\ NetContains(n, b[m]) /\ b[m] # n.ip})
  IN IF UsableHosts(n) = 0 \/ left < 0 THEN 0 ELSE left

CountAvailable(n, b) ==
  LET left == UsableHosts(n) - PoolSize(n) - (IF InDHCPPool(n, n.ip) THEN 0 ELSE 1)
                - Cardinality(Subtracted(n, b))
  IN IF UsableHosts(n) = 0 \/ left < 0 THEN 0 ELSE left

\* Reference for countAvailable: the addresses one could still hand out.
Assignable(n) ==
  {a \in Addr : NetContains(n, a) /\ HostPart(a, n.mask) \notin {0, Pow2[n.mask] - 1}}
Free(n, b) ==
  {a \in Assignable(n) : a # n.ip /\ ~InDHCPPool(n, a) /\ \A m \in DOMAIN b : b[m] # a}
=============================================================================
