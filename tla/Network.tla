------------------------------ MODULE Network -------------------------------
(***************************************************************************)
(* Writing the LAN address and the DHCP pool: `gogl lan set`               *)
(* (utilities/gogl/lan.go, utilities/internal/netcfg/operations.go) and    *)
(* the service below it (src/services/network.go), on a router that        *)
(* renumbers its static binds when a subnet moves.                         *)
(*                                                                         *)
(* A command is a sequence of RPCs: it reads the network and the binds,    *)
(* decides, reads both again inside the service, and writes.  Any RPC may  *)
(* be refused by the router or lose its connection before or after it took *)
(* effect, and other programs reserve addresses and write networks in      *)
(* between.                                                                *)
(***************************************************************************)
EXTENDS Addresses

CONSTANTS
  Procs,        \* programs that write the network
  Commands,     \* the commands they may run
  MACs,         \* hosts that other programs reserve addresses for
  InitNets,     \* the interfaces the router may have at the start
  InitBinds,    \* the binds it may have at the start
  MaxRuns,      \* bound: commands started
  MaxFaults,    \* bound: RPCs refused or lost
  MaxOthers     \* bound: reservations added or removed by other programs

ASSUME BoundsAssumption ==
  MaxRuns \in Nat /\ MaxFaults \in Nat /\ MaxOthers \in Nat

Interfaces == {"lan", "guest"}

\* A field that is given is an address, or a mask.
Given == Addr \cup {Blank}
ASSUME CommandsAssumption ==
  Commands \subseteq [kind : {"lan", "library"}, iface : Interfaces, ip : Given,
                      mask : Mask \cup {Blank}, start : Given, stop : Given,
                      force : BOOLEAN, dry : BOOLEAN]

\* The router comes with a main LAN, and with pools that ValidForWrite accepts.
ASSUME NetsAssumption ==
  \A ns \in InitNets :
    /\ "lan" \in DOMAIN ns /\ DOMAIN ns \subseteq Interfaces
    /\ \A i \in DOMAIN ns : ns[i] \in Net /\ ValidForWrite(ns[i])
    /\ ns = [i \in DOMAIN ns |-> ns[i]]

\* Some hosts have a static bind, at an address.
ASSUME BindsAssumption == IsFiniteSet(MACs) /\ InitBinds \subseteq [MACs -> Given]

VARIABLES
  nets,         \* the router's interfaces: a network for each name
  binds,        \* the router's static binds: an address, or Blank, for each MAC
  pc, cmd,      \* each process: its next RPC, and its current or last command
  current,      \* the lan network SetNetwork read
  want,         \* the network it is about to write
  seen,         \* the binds it last read
  checked,      \* the interface movesSubnet last saw, or the new one if there was none
  wrote,        \* history: the router carried out the write of this command
  result,       \* how its last command ended
  runs, faults, others

routerVars == <<nets, binds>>
bounds == <<runs, faults, others>>
vars == <<nets, binds, pc, cmd, current, want, seen, checked, wrote, result, runs, faults, others>>

NoBinds == [m \in MACs |-> Blank]
AnyNet == [ip |-> 0, mask |-> 0, start |-> 0, stop |-> 0, on |-> FALSE]
NoCommand == [kind |-> "none"]
Reserved(b) == {m \in MACs : b[m] # Blank}

Init ==
  /\ nets \in InitNets /\ binds \in InitBinds
  /\ pc      = [p \in Procs |-> "idle"]
  /\ cmd     = [p \in Procs |-> NoCommand]
  /\ current = [p \in Procs |-> AnyNet]
  /\ want    = [p \in Procs |-> AnyNet]
  /\ seen    = [p \in Procs |-> NoBinds]
  /\ checked = [p \in Procs |-> AnyNet]
  /\ wrote   = [p \in Procs |-> FALSE]
  /\ result  = [p \in Procs |-> "none"]
  /\ runs = 0 /\ faults = 0 /\ others = 0

-----------------------------------------------------------------------------
(* The command.                                                            *)

End(p, r) ==
  /\ pc' = [pc EXCEPT ![p] = "idle"]
  /\ result' = [result EXCEPT ![p] = r]

Go(p, step) ==
  /\ pc' = [pc EXCEPT ![p] = step]
  /\ UNCHANGED result

\* The flags of `gogl lan set` that go together.
UsageOK(c) ==
  LET moving == c.ip # Blank \/ c.mask # Blank
      given  == {x \in {"ip", "mask", "start", "stop"} : c[x] # Blank}
  IN IF moving THEN given = {"ip", "mask", "start", "stop"} ELSE given = {"start", "stop"}

\* The fields of the command, and what the device has where one was left out.
Filled(c, cur) ==
  [x \in DOMAIN cur |-> IF x \in DOMAIN c /\ c[x] # Blank THEN c[x] ELSE cur[x]]

\* Does SetNetwork think that the subnet moves?
Moving(p) == ~SameSubnet(want[p], current[p])

\* A "library" command is a program that calls NetworkService.Set itself.
Start(p, c) ==
  /\ pc[p] = "idle" /\ runs < MaxRuns
  /\ runs' = runs + 1
  /\ cmd' = [cmd EXCEPT ![p] = c]
  /\ want' = [want EXCEPT ![p] = Filled(c, AnyNet)]
  /\ wrote' = [wrote EXCEPT ![p] = FALSE]
  /\ seen' = [seen EXCEPT ![p] = NoBinds]
  /\ IF c.kind = "lan" THEN IF UsageOK(c) THEN Go(p, "get") ELSE End(p, "refused")
     ELSE IF ValidForWrite(Filled(c, AnyNet)) THEN Go(p, "moves") ELSE End(p, "refused")
  /\ UNCHANGED <<routerVars, current, checked, faults, others>>

\* SetNetwork reads the network: Get returns the main LAN, whatever the command names.
ReadNetwork(p) ==
  /\ pc[p] = "get"
  /\ LET filled == Filled(cmd[p], nets["lan"]) IN
       /\ current' = [current EXCEPT ![p] = nets["lan"]]
       /\ want' = [want EXCEPT ![p] = filled]
       /\ IF ValidForWrite(filled) THEN Go(p, "binds") ELSE End(p, "refused")
  /\ UNCHANGED <<routerVars, cmd, seen, checked, wrote, bounds>>

\* Mutant of ReadBinds: a dry run ends before the reservations are looked at.
ReadBindsDryFirst(p) ==
  /\ pc[p] = "binds"
  /\ seen' = [seen EXCEPT ![p] = binds]
  /\ IF cmd[p].dry THEN End(p, "dry")
     ELSE IF Moving(p) /\ Reserved(binds) # {} /\ ~cmd[p].force THEN End(p, "refused")
     ELSE Go(p, "moves")
  /\ UNCHANGED <<routerVars, cmd, current, want, checked, wrote, bounds>>

\* It reads the binds, refuses a move that would renumber them, and ends a dry run.
ReadBinds(p) ==
  /\ pc[p] = "binds"
  /\ seen' = [seen EXCEPT ![p] = binds]
  /\ IF Moving(p) /\ Reserved(binds) # {} /\ ~cmd[p].force THEN End(p, "refused")
     ELSE IF cmd[p].dry THEN End(p, "dry")
     ELSE Go(p, "moves")
  /\ UNCHANGED <<routerVars, cmd, current, want, checked, wrote, bounds>>

\* movesSubnet: an interface the router does not list counts as moving.
Moves(ns, i, net) == i \notin DOMAIN ns \/ ~SameSubnet(ns[i], net)

CheckMoves(p) ==
  /\ pc[p] = "moves"
  /\ LET i == cmd[p].iface IN
       /\ checked' = [checked EXCEPT ![p] = IF i \in DOMAIN nets THEN nets[i] ELSE AnyNet]
       /\ Go(p, IF Moves(nets, i, want[p]) /\ ~cmd[p].force THEN "guard" ELSE "write")
  /\ UNCHANGED <<routerVars, cmd, current, want, seen, wrote, bounds>>

\* Mutant of Guard: the binds are read and not looked at.
GuardIgnored(p) ==
  /\ pc[p] = "guard"
  /\ seen' = [seen EXCEPT ![p] = binds]
  /\ Go(p, "write")
  /\ UNCHANGED <<routerVars, cmd, current, want, checked, wrote, bounds>>

\* Set's own look at the reservations.
Guard(p) ==
  /\ pc[p] = "guard"
  /\ seen' = [seen EXCEPT ![p] = binds]
  /\ IF Reserved(binds) # {} THEN End(p, "refused") ELSE Go(p, "write")
  /\ UNCHANGED <<routerVars, cmd, current, want, checked, wrote, bounds>>

-----------------------------------------------------------------------------
(* The router.                                                             *)

\* What the firmware does with a bind when the mask changes is not known: it may stay.
Renumberings(old, new, b) ==
  IF SameSubnet(old, new) THEN {b}
  ELSE {[m \in MACs |-> IF m \in left THEN b[m] ELSE Renumbered(old, new, b[m])] :
          left \in IF old.mask = new.mask THEN {{}} ELSE SUBSET MACs}

\* lan.set_config replaces the four fields of the interface, or adds the interface.
Configured(ns, i, net) ==
  LET on == IF i \in DOMAIN ns THEN ns[i].on ELSE TRUE
  IN [j \in DOMAIN ns \cup {i} |-> IF j = i THEN [net EXCEPT !.on = on] ELSE ns[j]]

Configure(p) ==
  LET i == cmd[p].iface IN
    /\ nets' = Configured(nets, i, want[p])
    /\ IF i \notin DOMAIN nets THEN UNCHANGED binds
       ELSE binds' \in Renumberings(nets[i], want[p], binds)
    /\ wrote' = [wrote EXCEPT ![p] = TRUE]

\* The end of a command whose connection broke.  "moved" is a success as well: SetNetwork
\* says that the router has moved and returns nil, also if only a read was lost.
LostResult(p) ==
  IF cmd[p].kind = "lan" /\ Moving(p) /\ pc[p] \in {"moves", "guard", "write"}
  THEN "moved" ELSE "failed"

Write(p) ==
  /\ pc[p] = "write"
  /\ Configure(p)
  /\ End(p, "ok")
  /\ UNCHANGED <<cmd, current, want, seen, checked, bounds>>

\* The router acts, and the answer never arrives: the address it came from is gone.
WriteUnanswered(p) ==
  /\ pc[p] = "write" /\ faults < MaxFaults
  /\ Configure(p)
  /\ End(p, LostResult(p))
  /\ faults' = faults + 1
  /\ UNCHANGED <<cmd, current, want, seen, checked, runs, others>>

\* An RPC that the router answers with an error.
Refused(p) ==
  /\ pc[p] # "idle" /\ faults < MaxFaults
  /\ End(p, "failed")
  /\ faults' = faults + 1
  /\ UNCHANGED <<routerVars, cmd, current, want, seen, checked, wrote, runs, others>>

\* An RPC whose connection breaks, or whose time runs out, before the router sees it.
Lost(p) ==
  /\ pc[p] # "idle" /\ faults < MaxFaults
  /\ End(p, LostResult(p))
  /\ faults' = faults + 1
  /\ UNCHANGED <<routerVars, cmd, current, want, seen, checked, wrote, runs, others>>

\* Other programs reserve and release addresses of the LAN.
Reserve(m) ==
  /\ others < MaxOthers /\ others' = others + 1
  /\ \/ /\ binds[m] = Blank
        /\ \E a \in Assignable(nets["lan"]) : binds' = [binds EXCEPT ![m] = a]
     \/ binds[m] # Blank /\ binds' = [binds EXCEPT ![m] = Blank]
  /\ UNCHANGED <<nets, pc, cmd, current, want, seen, checked, wrote, result, runs, faults>>

Next ==
  \/ \E p \in Procs :
       \/ \E c \in Commands : Start(p, c)
       \/ ReadNetwork(p) \/ ReadBinds(p) \/ CheckMoves(p) \/ Guard(p)
       \/ Write(p) \/ WriteUnanswered(p) \/ Refused(p) \/ Lost(p)
  \/ \E m \in MACs : Reserve(m)

Spec == Init /\ [][Next]_vars

-----------------------------------------------------------------------------
(* Properties.                                                             *)

Steps == {"idle", "get", "binds", "moves", "guard", "write"}
Results == {"none", "ok", "dry", "refused", "failed", "moved"}

\* Every variable has its type; the router always has its main LAN.
TypeOK ==
  /\ "lan" \in DOMAIN nets /\ DOMAIN nets \subseteq Interfaces
  /\ nets \in [DOMAIN nets -> Net]
  /\ pc \in [Procs -> Steps] /\ result \in [Procs -> Results]
  /\ cmd \in [Procs -> Commands \cup {NoCommand}]
  /\ \A p \in Procs : pc[p] # "idle" => cmd[p] \in Commands
  /\ current \in [Procs -> Net] /\ want \in [Procs -> Net]
  /\ checked \in [Procs -> Net] /\ wrote \in [Procs -> BOOLEAN]
  /\ DOMAIN seen = Procs /\ binds \in [MACs -> Given]

\* No interface ever has a pool outside its own subnet (or an inverted one), in which
\* the firmware would hand out nothing and say nothing, however commands interleave:
\* ValidForWrite is all that stands before it.
PoolServable ==
  \A i \in DOMAIN nets : LET net == nets[i] IN
    net.start <= net.stop /\ \A a \in {net.start, net.stop} : NetContains(net, a)

\* A write without force renumbers no bind that was there when the service looked: a
\* bind that it renumbers was added after that, or somebody else had moved the
\* interface since the service compared it.
GuardedKeepsBinds ==
  [][\A p \in Procs, m \in MACs :
       /\ pc[p] = "write" /\ wrote'[p] /\ ~cmd[p].force
       /\ cmd[p].iface \in DOMAIN nets /\ nets[cmd[p].iface] = checked[p]
       /\ binds[m] # Blank /\ binds'[m] # binds[m]
       => seen[p][m] = Blank]_vars

\* A dry run of the main LAN approves nothing that the write would refuse if it were
\* made at that moment.
DryRunAgrees ==
  [][\A p \in Procs :
       /\ pc[p] = "binds" /\ pc'[p] = "idle" /\ result'[p] = "dry"
       /\ cmd[p].iface = "lan" /\ nets["lan"] = current[p]
       => ~(Moves(nets, "lan", want[p]) /\ Reserved(binds) # {} /\ ~cmd[p].force)]_vars

\* `gogl lan show` never overstates the free addresses, and counts them exactly when
\* the pool and the binds are distinct assignable addresses of the subnet.
AvailableExact ==
  LET net == nets["lan"]
      assignable == Assignable(net)
      tidy == /\ ~net.on \/ {net.start, net.stop} \subseteq assignable
              /\ net.ip \in assignable
              /\ \A m \in Reserved(binds) : binds[m] \in assignable
              /\ \A m, k \in Reserved(binds) : binds[m] = binds[k] => m = k
  IN /\ CountAvailable(net, binds) <= Cardinality(Free(net, binds))
     /\ tidy => CountAvailable(net, binds) = Cardinality(Free(net, binds))
=============================================================================
