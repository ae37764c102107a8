---------------------------- MODULE MCInventory -----------------------------
(* Values of Commands for the runs of Inventory.                           *)
EXTENDS Inventory

nas == BareName("nas")
srv == BareName("srv")
\* Several labels under the domain at the start: set and not found again.
vm  == [labels |-> <<"vm", "srv", "lab">>]
Lab == <<"lab">>
Host(name, mac, ip) == [name |-> name, mac |-> mac, ip |-> ip]
nas1 == Host(nas, "m1", 1)
nas2 == Host(nas, "m1", 2)
srv2 == Host(srv, "m2", 2)
vm3  == Host(vm, "m3", 3)

Import(res, prune) == [kind |-> "import", file |-> res, prune |-> prune]
Add(res, force) == [kind |-> "add", res |-> res, force |-> force]
Rm(by, id, force) == [kind |-> "rm", by |-> by, id |-> id, force |-> force]
Clear == [kind |-> "clear"]
SetDomain(domain) == [kind |-> "setDomain", domain |-> domain]
DNSAdd(name, ip) == [kind |-> "setName", name |-> name, ip |-> ip]
DNSRm(name) == [kind |-> "rmName", name |-> name]
DNSClear == [kind |-> "clearNames"]
Create(res) == [kind |-> "direct", op |-> [op |-> "create", res |-> res]]
Update(res) == [kind |-> "direct", op |-> [op |-> "update", res |-> res]]
DeleteAll == [kind |-> "direct", op |-> [op |-> "deleteAll"]]

\* One operator, every command, a moved and a renumbered host.
Operator ==
  {Import(<<nas1, srv2>>, FALSE), Import(<<srv2>>, FALSE), Import(<<nas2>>, TRUE),
   Import(<<vm3>>, FALSE), Add(nas1, FALSE), Add(nas2, TRUE), Add(srv2, FALSE),
   Add(vm3, FALSE), Rm("name", srv, FALSE), Rm("mac", "m3", FALSE), Rm("ip", 2, TRUE),
   Clear, SetDomain(<<"home">>), DNSAdd(srv, 1), DNSRm(nas), DNSClear}

\* Two programs that share the router, starting before there is a domain.
Shared ==
  {SetDomain(<<"home">>), Add(nas1, TRUE), Create(srv2), Update(srv2),
   DNSAdd([labels |-> <<"nas", "home">>], 2), DNSAdd([labels |-> <<"vm", "srv", "home">>], 3),
   DNSRm(nas), Clear, DeleteAll}

\* A host gets a new network card; its reservation is pruned by MAC.
ReplacedCard == {Import(<<nas1>>, TRUE), Import(<<Host(nas, "m2", 1)>>, TRUE)}
=============================================================================
