----------------------------- MODULE MCNetwork ------------------------------
(* Networks and commands for the runs of Network: addresses of 4 bits,     *)
(* subnets 0-7 and 8-15 (three host bits), 8-11 (two host bits).           *)
EXTENDS Network, TLC

Symmetry == Permutations(Procs)

NetOf(ip, mask, start, stop, on) ==
  [ip |-> ip, mask |-> mask, start |-> start, stop |-> stop, on |-> on]

Lan(on) == NetOf(1, 3, 3, 4, on)
Guest == NetOf(9, 3, 10, 12, TRUE)

\* A main LAN with DHCP on or off, a guest network or none.
SomeNets == {[lan |-> Lan(on)] : on \in BOOLEAN} \cup {[lan |-> Lan(TRUE), guest |-> Guest]}

\* No bind; one outside the pool; one inside it.
SomeBinds == {[m \in MACs |-> Blank], [m \in MACs |-> IF m = "m1" THEN 2 ELSE Blank],
              [m \in MACs |-> IF m = "m1" THEN 3 ELSE 6]}

LanSet(iface, ip, mask, start, stop, force, dry) ==
  [kind |-> "lan", iface |-> iface, ip |-> ip, mask |-> mask, start |-> start,
   stop |-> stop, force |-> force, dry |-> dry]
Pool(iface, start, stop, dry) == LanSet(iface, Blank, Blank, start, stop, FALSE, dry)
Set(iface, ip, mask, start, stop) ==
  [LanSet(iface, ip, mask, start, stop, FALSE, FALSE) EXCEPT !.kind = "library"]

SomeCommands ==
  {Pool("lan", 4, 6, FALSE), Pool("lan", 6, 9, FALSE), Pool("lan", 2, Blank, FALSE),
   Pool("guest", 4, 6, FALSE),
   LanSet("lan", 9, 3, 10, 11, FALSE, FALSE), LanSet("lan", 9, 3, 10, 11, FALSE, TRUE),
   LanSet("lan", 9, 3, 8, 12, TRUE, FALSE), LanSet("lan", 9, 2, 10, 10, TRUE, FALSE),
   Set("lan", 9, 3, 11, 12), Set("guest", 9, 2, 10, 11)}
=============================================================================
