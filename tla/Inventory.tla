----------------------------- MODULE Inventory ------------------------------
(***************************************************************************)
(* The commands of gogl that keep reservations and DNS names in step       *)
(* (utilities/internal/reservations, src/services/reservation.go,          *)
(* src/services/hosts.go) and the two tables of the router they write.     *)
(*                                                                         *)
(* A command is a sequence of RPCs.  It reads the binds and the host file, *)
(* plans from those snapshots, then carries out a list of operations, each *)
(* of which may read again before it writes.  Any RPC may fail, with or    *)
(* without effect, and the command may be interrupted between two of them; *)
(* other commands may run at the same time.                                *)
(*                                                                         *)
(* Dry runs and confirmations write nothing and are left out; so is the    *)
(* validation of a host file, which ends before the first RPC: the files   *)
(* of Commands are valid ones.                                             *)
(***************************************************************************)
EXTENDS HostFile, FiniteSets

CONSTANTS
  Procs,        \* processes (or goroutines) that run commands
  Commands,     \* the commands they may run
  InitDomain,   \* the DNS domain on the router at the start, or NoDomain
  MaxRuns,      \* bound: commands started, over all processes
  MaxFaults     \* bound: RPCs that fail and commands that are interrupted

ASSUME BoundsAssumption == MaxRuns \in Nat /\ MaxFaults \in Nat

\* A bind, as ValidateReservation and the address checks let it through.
BindSet == [name : NameSet, mac : STRING, ip : Nat \ {NoAddress}]

\* What a command is made of: files and arguments that passed validation, where a file
\* declares each MAC once (findDuplicates).  A "direct" command is a program that calls
\* one method of the services itself.
CommandKinds ==
  {"import", "add", "rm", "clear", "setDomain", "setName", "rmName", "clearNames", "direct"}

ASSUME CommandsAssumption ==
  /\ InitDomain \in Domains
  /\ \A c \in Commands :
       /\ c.kind \in CommandKinds
       /\ c.kind = "import" =>
            /\ c.file \in Seq(BindSet) /\ c.prune \in BOOLEAN
            /\ \A i, j \in DOMAIN c.file : c.file[i].mac = c.file[j].mac => i = j
       /\ c.kind = "add" => c.res \in BindSet /\ c.force \in BOOLEAN
       /\ c.kind = "rm" => c.by \in {"name", "mac", "ip"} /\ c.force \in BOOLEAN
       /\ c.kind = "setDomain" => c.domain \in Domains \ {NoDomain}
       /\ c.kind = "setName" => c.name \in NameSet /\ c.ip \in Nat \ {NoAddress}
       /\ c.kind = "rmName" => c.name \in NameSet
       /\ c.kind = "direct" => c.op \in [op : {"create", "update", "delete"}, res : BindSet]
                                           \cup [op : {"deleteAll"}]

VARIABLES
  binds,        \* the router's static binds, a sequence of [name, mac, ip]
  file,         \* the managed block of the router's host file
  pc, cmd,      \* each process: where it is, and its current or last command
  device, hosts,\* its snapshots of the two tables
  todo,         \* the operations it still has to carry out
  errors,       \* Summary.Errors, or the failed deletions of rm
  result,       \* how its last command ended
  runs, faults  \* bounds

routerVars == <<binds, file>>
vars == <<binds, file, pc, cmd, device, hosts, todo, errors, result, runs, faults>>

NoCommand == [kind |-> "none"]

Init ==
  /\ binds = <<>>
  /\ file = EmptyFile(InitDomain)
  /\ pc     = [p \in Procs |-> "idle"]
  /\ cmd    = [p \in Procs |-> NoCommand]
  /\ device = [p \in Procs |-> <<>>]
  /\ hosts  = [p \in Procs |-> EmptyFile(NoDomain)]
  /\ todo   = [p \in Procs |-> <<>>]
  /\ errors = [p \in Procs |-> 0]
  /\ result = [p \in Procs |-> "none"]
  /\ runs = 0 /\ faults = 0

-----------------------------------------------------------------------------
(* Plans.                                                                  *)

\* Mutant of HasMAC: a loop that forgets what it found before the last bind.
HasMACLast(bs, mac) == bs # <<>> /\ bs[Len(bs)].mac = mac

HasMAC(bs, mac)  == \E i \in DOMAIN bs : bs[i].mac = mac
LastWithMAC(bs, mac) == bs[Max({i \in DOMAIN bs : bs[i].mac = mac})]

\* planChanges: the diff of a host file against the binds, keyed by MAC.
ToCreate(want, have) == Kept(want, {r \in ToSet(want) : ~HasMAC(have, r.mac)})
ToUpdate(want, have) ==
  Kept(want, {r \in ToSet(want) : HasMAC(have, r.mac) /\ LastWithMAC(have, r.mac) # r})
ToPrune(want, have)  == Kept(have, {r \in ToSet(have) : ~HasMAC(want, r.mac)})

\* planNames: the diff of the wanted names against the host file.
NamesToSet(want, f)  == Kept(want, {r \in ToSet(want) : Lookup(f, r.name) # r.ip})
NamesToDrop(gone, f) == Kept(gone, {r \in ToSet(gone) : Lookup(f, r.name) # NoAddress})

SetNames(f, rs) ==
  LET named[n \in 0 .. Len(rs)] ==
        IF n = 0 THEN f ELSE SetName(named[n-1], rs[n].name, rs[n].ip)
  IN named[Len(rs)]

DropNames(f, rs) ==
  LET left[n \in 0 .. Len(rs)] ==
        IF n = 0 THEN f ELSE RemoveName(left[n-1], rs[n].name)
  IN left[Len(rs)]

\* Mutant of ImportedNames: names of pruned binds go without --prune, too.
ImportedNamesPruned(c, have, f) ==
  DropNames(SetNames(f, NamesToSet(c.file, f)), NamesToDrop(ToPrune(c.file, have), f))

\* applyNames: all new names first, then with --prune those of the pruned binds.
ImportedNames(c, have, f) ==
  LET named == SetNames(f, NamesToSet(c.file, f))
  IN IF c.prune THEN DropNames(named, NamesToDrop(ToPrune(c.file, have), f)) ELSE named

\* Mutant of NamesChange: names are only looked at when a bind changes.
NamesChangeWithBinds(c, have, f) ==
  /\ ToCreate(c.file, have) # <<>> \/ ToUpdate(c.file, have) # <<>>
  /\ NamesToSet(c.file, f) # <<>>

NamesChange(c, have, f) ==
  \/ NamesToSet(c.file, f) # <<>>
  \/ c.prune /\ NamesToDrop(ToPrune(c.file, have), f) # <<>>

Ops(kind, rs) == [i \in DOMAIN rs |-> [op |-> kind, res |-> rs[i]]]
PutOp == [op |-> "put"]
PutIf(changed) == IF changed THEN <<PutOp>> ELSE <<>>

\* applyPlan: the binds in three loops, then the one write of the names.
ImportOps(c, have, f) ==
  Ops("create", ToCreate(c.file, have)) \o Ops("update", ToUpdate(c.file, have))
    \o (IF c.prune THEN Ops("delete", ToPrune(c.file, have)) ELSE <<>>)
    \o PutIf(NamesChange(c, have, f))

\* checkAddConflicts
Conflict(have, r) ==
  \E i \in DOMAIN have :
    \/ have[i].mac = r.mac /\ have[i].ip # r.ip
    \/ have[i].mac # r.mac /\ (have[i].ip = r.ip \/ have[i].name = r.name)

\* findTarget: the binds an identifier picks; c.by is "name", "mac" or "ip".
Targets(c, have) == Kept(have, {r \in ToSet(have) : r[c.by] = c.id})

\* The plan of each command: its operations, and the host file they will write.
ImportPlan(c, have, f) ==
  [ops |-> ImportOps(c, have, f), file |-> ImportedNames(c, have, f)]

AddPlan(c, have, f) ==
  [ops  |-> Ops(IF HasMAC(have, c.res.mac) THEN "update" ELSE "create", <<c.res>>) \o <<PutOp>>,
   file |-> SetName(f, c.res.name, c.res.ip)]

RmPlan(c, have, f) ==
  [ops  |-> PutIf(NamesToDrop(Targets(c, have), f) # <<>>) \o Ops("delete", Targets(c, have)),
   file |-> DropNames(f, Targets(c, have))]

ClearPlan(have, f) ==
  [ops  |-> IF have = <<>> /\ f.entries = <<>> THEN <<>>
            ELSE <<[op |-> "clearNames"], [op |-> "deleteAll"]>>,
   file |-> f]

PutPlan(f) == [ops |-> <<PutOp>>, file |-> f]

Plan(c, have, f) ==
  CASE c.kind = "import"     -> ImportPlan(c, have, f)
    [] c.kind = "add"        -> AddPlan(c, have, f)
    [] c.kind = "rm"         -> RmPlan(c, have, f)
    [] c.kind = "clear"      -> ClearPlan(have, f)
    [] c.kind = "setDomain"  -> PutPlan(Requalify(f, c.domain))
    [] c.kind = "setName"    -> PutPlan(SetName(f, c.name, c.ip))
    [] c.kind = "rmName"     -> PutPlan(RemoveName(f, c.name))
    [] c.kind = "clearNames" -> [ops |-> PutIf(f.entries # <<>>), file |-> ClearNames(f)]

-----------------------------------------------------------------------------
(* Commands, one RPC at a time.                                            *)

End(p, r) ==
  /\ pc' = [pc EXCEPT ![p] = "idle"]
  /\ result' = [result EXCEPT ![p] = r]

FirstStep(c) ==
  CASE c.kind \in {"import", "add", "rm", "clear"} -> "binds"
    [] c.kind = "direct" -> "next"
    [] OTHER -> "hosts"

Start(p, c) ==
  /\ pc[p] = "idle"
  /\ runs < MaxRuns
  /\ runs' = runs + 1
  /\ cmd' = [cmd EXCEPT ![p] = c]
  /\ pc' = [pc EXCEPT ![p] = FirstStep(c)]
  /\ todo' = [todo EXCEPT ![p] = IF c.kind = "direct" THEN <<c.op>> ELSE <<>>]
  /\ errors' = [errors EXCEPT ![p] = 0]
  /\ result' = [result EXCEPT ![p] = "none"]
  /\ UNCHANGED <<routerVars, device, hosts, faults>>

\* Early returns on what Reservations().List answered.
BindsRefused(c) ==
  \/ c.kind = "add" /\ ~c.force /\ Conflict(binds, c.res)
  \/ c.kind = "rm" /\ Targets(c, binds) = <<>>
  \/ c.kind = "rm" /\ ~c.force /\ Len(Targets(c, binds)) > 1

ReadBinds(p) ==
  /\ pc[p] = "binds"
  /\ device' = [device EXCEPT ![p] = binds]
  /\ \/ BindsRefused(cmd[p]) /\ End(p, "failed")
     \/ /\ ~BindsRefused(cmd[p])
        /\ pc' = [pc EXCEPT ![p] = "hosts"]
        /\ UNCHANGED result
  /\ UNCHANGED <<routerVars, cmd, hosts, todo, errors, runs, faults>>

\* Early returns on what Hosts().Get answered.
HostsRefused(c) ==
  \/ c.kind \in {"import", "add", "setName"} /\ file.domain = NoDomain
  \/ c.kind = "rmName" /\ Lookup(file, c.name) = NoAddress

ReadHosts(p) ==
  /\ pc[p] = "hosts"
  /\ \/ HostsRefused(cmd[p]) /\ End(p, "failed") /\ UNCHANGED <<hosts, todo>>
     \/ /\ ~HostsRefused(cmd[p])
        /\ LET plan == Plan(cmd[p], device[p], file) IN
             /\ hosts' = [hosts EXCEPT ![p] = plan.file]
             /\ todo' = [todo EXCEPT ![p] = plan.ops]
        /\ pc' = [pc EXCEPT ![p] = "next"]
        /\ UNCHANGED result
  /\ UNCHANGED <<routerVars, cmd, device, errors, runs, faults>>

\* The next operation, or the end of the command.
Current(p) == Head(todo[p])
Busy(p) == pc[p] = "next" /\ todo[p] # <<>>

OpDone(p) ==
  /\ pc' = [pc EXCEPT ![p] = "next"]
  /\ todo' = [todo EXCEPT ![p] = Tail(@)]
  /\ UNCHANGED <<errors, result>>

\* Mutant of EntryErrors: the loops go on after a failed Put, too.
EntryErrorsAll(p) == cmd[p].kind \in {"import", "rm"}

\* A failed entry of an import, or a failed deletion of rm, is counted and the
\* loop goes on; every other failure ends the command.
EntryErrors(p) ==
  \/ cmd[p].kind = "import" /\ Current(p).op # "put"
  \/ cmd[p].kind = "rm" /\ Current(p).op = "delete"

OpFailed(p) ==
  IF EntryErrors(p)
  THEN /\ errors' = [errors EXCEPT ![p] = @ + 1]
       /\ pc' = [pc EXCEPT ![p] = "next"]
       /\ todo' = [todo EXCEPT ![p] = Tail(@)]
       /\ UNCHANGED result
  ELSE End(p, "failed") /\ UNCHANGED <<errors, todo>>

\* Mutant of Finish: the failures that were counted are not reported.
FinishOk(p) ==
  /\ pc[p] = "next"
  /\ todo[p] = <<>>
  /\ End(p, "ok")
  /\ UNCHANGED <<routerVars, cmd, device, hosts, todo, errors, runs, faults>>

Finish(p) ==
  /\ pc[p] = "next"
  /\ todo[p] = <<>>
  /\ End(p, IF errors[p] = 0 THEN "ok" ELSE "failed")
  /\ UNCHANGED <<routerVars, cmd, device, hosts, todo, errors, runs, faults>>

\* What Create, Update and Delete read before they write.  The domain, once
\* set, stays set (DomainSurvives), so its read is part of the same step.
DomainSet == file.domain # NoDomain

\* Mutant of CreateAllowed: the domain is not required.
CreateAlways(r) == ~HasMAC(binds, r.mac)

CreateAllowed(r) == DomainSet /\ ~HasMAC(binds, r.mac)
UpdateAllowed(r) == DomainSet /\ HasMAC(binds, r.mac)
DeleteAllowed(r) == HasMAC(binds, r.mac)

Checked(o) ==
  CASE o.op = "create" -> CreateAllowed(o.res)
    [] o.op = "update" -> UpdateAllowed(o.res)
    [] o.op = "delete" -> DeleteAllowed(o.res)

CheckBind(p) ==
  /\ Busy(p)
  /\ Current(p).op \in {"create", "update", "delete"}
  /\ \/ /\ Checked(Current(p))
        /\ pc' = [pc EXCEPT ![p] = "write"]
        /\ UNCHANGED <<todo, errors, result>>
     \/ ~Checked(Current(p)) /\ OpFailed(p)
  /\ UNCHANGED <<routerVars, cmd, device, hosts, runs, faults>>

\* Hosts().Clear reads the file again, and does not write an empty block.
CheckClear(p) ==
  /\ Busy(p)
  /\ Current(p).op = "clearNames"
  /\ \/ file.entries = <<>> /\ OpDone(p) /\ UNCHANGED hosts
     \/ /\ file.entries # <<>>
        /\ hosts' = [hosts EXCEPT ![p] = ClearNames(file)]
        /\ pc' = [pc EXCEPT ![p] = "write"]
        /\ UNCHANGED <<todo, errors, result>>
  /\ UNCHANGED <<routerVars, cmd, device, errors, runs, faults>>

\* The router carries out a write.  add_static_bind appends without a check,
\* set_static_bind replaces the first bind of the MAC and ignores an unknown
\* one, set_host takes the whole file.
FirstWithMAC(bs, mac) == Min({i \in DOMAIN bs : bs[i].mac = mac})

Written(o, f) ==
  /\ binds' = CASE o.op = "create" -> Append(binds, o.res)
                [] o.op = "update" -> IF HasMAC(binds, o.res.mac)
                                      THEN ReplaceAt(binds, FirstWithMAC(binds, o.res.mac), o.res)
                                      ELSE binds
                [] o.op = "delete" -> Kept(binds, {b \in ToSet(binds) : b.mac # o.res.mac})
                [] o.op = "deleteAll" -> <<>>
                [] OTHER -> binds
  /\ file' = IF o.op \in {"put", "clearNames"} THEN f ELSE file

ReadyToWrite(p) ==
  \/ pc[p] = "write"
  \/ Busy(p) /\ Current(p).op \in {"put", "deleteAll"}

Write(p) ==
  /\ ReadyToWrite(p)
  /\ Written(Current(p), hosts[p])
  /\ OpDone(p)
  /\ UNCHANGED <<cmd, device, hosts, runs, faults>>

-----------------------------------------------------------------------------
(* Failures.                                                               *)

MayFail == faults < MaxFaults /\ faults' = faults + 1

\* An RPC fails without effect.
ReadFails(p) ==
  /\ MayFail
  /\ pc[p] \in {"binds", "hosts"}
  /\ End(p, "failed")
  /\ UNCHANGED <<routerVars, cmd, device, hosts, todo, errors, runs>>

OpFails(p) ==
  /\ MayFail
  /\ Busy(p) \/ pc[p] = "write"
  /\ OpFailed(p)
  /\ UNCHANGED <<routerVars, cmd, device, hosts, runs>>

\* The write is carried out and its reply is lost.
ReplyLost(p) ==
  /\ MayFail
  /\ ReadyToWrite(p)
  /\ Written(Current(p), hosts[p])
  /\ OpFailed(p)
  /\ UNCHANGED <<cmd, device, hosts, runs>>

\* The process is killed between two RPCs.
Interrupt(p) ==
  /\ MayFail
  /\ pc[p] # "idle"
  /\ End(p, "failed")
  /\ UNCHANGED <<routerVars, cmd, device, hosts, todo, errors, runs>>

Step(p) ==
  \/ \E c \in Commands : Start(p, c)
  \/ ReadBinds(p) \/ ReadHosts(p) \/ Finish(p)
  \/ CheckBind(p) \/ CheckClear(p) \/ Write(p)
  \/ ReadFails(p) \/ OpFails(p) \/ ReplyLost(p) \/ Interrupt(p)

Next == \E p \in Procs : Step(p)

Spec == Init /\ [][Next]_vars
-----------------------------------------------------------------------------
(* Properties.  Those about one command hold when nothing else runs: with  *)
(* two processes the commands overwrite each other's work (see README).    *)

\* What the commands ask for.
Reservations ==
  (UNION {ToSet(c.file) : c \in {d \in Commands : d.kind = "import"}})
    \cup {c.res : c \in {d \in Commands : d.kind = "add"}}
    \cup {c.op.res : c \in {d \in Commands : d.kind = "direct" /\ d.op.op \in {"create", "update"}}}

PC == {"idle", "binds", "hosts", "next", "write"}
Result == {"none", "ok", "failed"}
OpSet == [op : {"create", "update"}, res : Reservations] \cup [op : {"delete"}, res : BindSet]
           \cup [op : {"put", "clearNames", "deleteAll"}]

\* Every bind was asked for, every entry of the file answers some name.
TypeOK ==
  /\ binds \in Seq(Reservations) /\ file \in FileSet
  /\ pc \in [Procs -> PC] /\ cmd \in [Procs -> Commands \cup {NoCommand}]
  /\ device \in [Procs -> Seq(Reservations)] /\ hosts \in [Procs -> FileSet]
  /\ todo \in [Procs -> Seq(OpSet)]
  /\ errors \in [Procs -> Nat] /\ result \in [Procs -> Result]
  /\ runs \in 0..MaxRuns /\ faults \in 0..MaxFaults

\* Two answers for a name that Lookup finds never reach the router, whatever the
\* order of the commands, their failures and their races (hosts.go: HostFile.Set).
\* Of the other names, Set makes a second entry each time.
OneAnswerPerName ==
  \A i \in DOMAIN file.entries : \A n \in ToSet(file.entries[i].names) :
    Matched(file, n) => Cardinality(Answers(file, n)) = 1

\* Failures and reruns of commands leave one bind per MAC: a rerun after a lost
\* reply updates what the lost request created (services/reservation.go).
OneBindPerMAC ==
  \A i, j \in DOMAIN binds : binds[i].mac = binds[j].mac => i = j

Reserved(r) == HasMAC(binds, r.mac) /\ LastWithMAC(binds, r.mac) = r

\* No entry has the name in any spelling that a command on it might have written.
Gone(f, name) ==
  \A i \in DOMAIN f.entries : ToSet(f.entries[i].names) \cap Spellings(f, name) = {}

\* A command that reports success has done all it says, in both tables, also
\* when it repairs what an earlier one left half done (addel.go): the binds, and
\* of the names those that Lookup finds (rm leaves the others answering).
SuccessIsComplete ==
  \A p \in Procs : pc[p] = "idle" /\ result[p] = "ok" =>
    LET c == cmd[p] IN
      /\ c.kind = "add" =>
           /\ Reserved(c.res)
           /\ Matched(file, c.res.name) => Lookup(file, c.res.name) = c.res.ip
      /\ c.kind = "rm" => \A r \in ToSet(Targets(c, device[p])) :
           ~HasMAC(binds, r.mac) /\ (Matched(file, r.name) => Gone(file, r.name))
      /\ c.kind = "clear" => binds = <<>> /\ file.entries = <<>>
      /\ c.kind = "setDomain" => file.domain = c.domain

\* Nothing left to do for a second run of an import, as far as the binds and the
\* names of the declarations in judged are concerned.
NothingToImport(c, judged) ==
  /\ \A r \in ToSet(c.file) : Reserved(r)
  /\ \A r \in judged : Lookup(file, r.name) = r.ip
  /\ c.prune => \A b \in ToSet(binds) : HasMAC(c.file, b.mac)

ImportSucceeded(p) == pc[p] = "idle" /\ cmd[p].kind = "import" /\ result[p] = "ok"

\* The import prunes a bind whose name the file declares for another MAC.
ReusesPrunedName(p) ==
  /\ cmd[p].prune
  /\ \E r \in ToSet(ToPrune(cmd[p].file, device[p])), d \in ToSet(cmd[p].file) :
       r.name = d.name

\* An import that reports success leaves nothing for a second run, also after
\* runs that failed half way: it repairs each table on its own (set.go).  The
\* exceptions are ImportIdempotent below and the names that Lookup does not find.
ImportConverges ==
  \A p \in Procs : ImportSucceeded(p) /\ ~ReusesPrunedName(p) =>
    NothingToImport(cmd[p], {r \in ToSet(cmd[p].file) : Matched(file, r.name)})

\* rm and clear take the name before the bind: whichever of their steps fails,
\* no bind they delete leaves behind a name that Lookup finds (addel.go, Del and
\* Clear).
NamesGoFirst ==
  [][\A p \in Procs : cmd[p].kind \in {"rm", "clear"} =>
       \A i \in DOMAIN binds :
         ~HasMAC(binds', binds[i].mac) /\ Matched(file, binds[i].name)
           => Gone(file, binds[i].name)]_vars

\* The names a command is about.
KnownNames == {r.name : r \in Reservations}

Concerned(p) ==
  LET c == cmd[p] IN
    CASE c.kind = "import" -> {r.name : r \in ToSet(c.file)}
           \cup (IF c.prune THEN {r.name : r \in ToSet(ToPrune(c.file, device[p]))} ELSE {})
      [] c.kind = "add" -> {c.res.name}
      [] c.kind = "rm"  -> {r.name : r \in ToSet(Targets(c, device[p]))}
      [] c.kind \in {"setName", "rmName"} -> {c.name}
      [] c.kind = "clearNames" -> KnownNames
      [] OTHER -> {}

\* No spelling of n is touched by Set or Remove of the names in about; vm.srv goes when
\* vm.srv.lab is set.
Apart(f, n, about) == \A m \in about : BothForms(f, n) \cap Spellings(f, m) = {}

\* Writing the whole file back changes the answer only of names the command is
\* about, and a change of domain that of none at all, as long as Lookup finds the
\* name under both domains (hosts.go: Put, SetDomain).
OthersNamesKept ==
  [][\A p \in Procs : ReadyToWrite(p) /\ Current(p).op = "put" =>
       \A n \in KnownNames :
         /\ Matched(file, n) /\ Matched(file', n)
         /\ Apart(file, n, Concerned(p))
         => Lookup(file', n) = Lookup(file, n)]_vars

\* Once there is a domain there always is one: no interleaving writes back a
\* file read before it was set (requireDomain relies on it).
DomainSurvives == [][file.domain # NoDomain => file'.domain # NoDomain]_vars

\* No reservation is written before the domain exists, through whichever
\* command or service method (services/reservation.go: requireDomain).
DomainFirst ==
  [][ToSet(binds') \ ToSet(binds) # {} => file.domain # NoDomain]_vars

-----------------------------------------------------------------------------
(* What comments and docs of the repository say, and the code does not do. *)

\* lan.go on import: "Idempotent: a second run reports everything skipped".
\* The names of pruned binds are dropped after the declared ones are set.
ImportIdempotent ==
  \A p \in Procs : ImportSucceeded(p) => NothingToImport(cmd[p], ToSet(cmd[p].file))
=============================================================================
