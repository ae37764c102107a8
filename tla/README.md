# A TLA+ model of gogl

gogl is a Go library and a command line for GL.iNet routers. It speaks JSON-RPC over
HTTP to a small device that knows one session at a time, stores addresses and names in
two tables that know nothing of each other, and answers badly when pressed. This
directory models the parts of it where order, failure and concurrency decide whether it
is right, checks them with TLC on small instances, and proves most of it with TLAPS.

Paths below are relative to the repository.

## The system

| Part | Source | State | Operations | Talks to |
|---|---|---|---|---|
| transport | `src/transport` | sid, generation, mutex, semaphore, keepalive goroutine | `Call`, `Close` | authentication, router |
| authentication | `src/auth` | cipher cached by salt | `Login`: challenge, crypt, challenge, login | router |
| client | `src/client.go`, `src/errors.go` | none of its own | one service per area, error mapping | services |
| services | `src/services` | none | typed reads and writes, each one or several RPCs | transport |
| host file, value types | `src/types`, `src/ipmath` | values | parse, render, validate, edit | |
| reservation commands | `utilities/internal/reservations` | snapshots of binds and host file, a plan | import, add, rm, clear, domain | services |
| network and wireless commands | `utilities/internal/netcfg` | snapshot of a configuration | show, set | services |
| profile | `utilities/internal/profile` | a captured configuration | capture, apply | services |
| settings | `utilities/internal/conn`, `config` | flags, environment, file | precedence, prompts | |
| router double | `src/mock` | sessions, nonces, binds, host file, LAN, radios | the device's side of each RPC | |
| read-only listings | `services/client.go`, `system.go`, `utilities/internal/clients` | none | list | services |
| discovery | `src/discovery` | none | probe and print | |

What is hard in it:

* **Concurrency.** Goroutines share one transport: one session, one mutex held across a
  login, a semaphore, a keepalive that clears the session behind the callers' backs.
* **Lost messages.** A write whose reply is lost may have happened. A late denial may be
  about a session that has been replaced.
* **Two tables.** A reservation is a static bind plus entries in a host file that is
  written as one string. Every command reads both, plans from the snapshots and then
  makes several writes, any of which can fail.
* **Read, check, write.** The device checks next to nothing, so the services check first
  and write in a second RPC.

The properties that make each part right:

| Part | Properties |
|---|---|
| transport | effects at most once and in agreement with what the caller is told; one login per lost session; no live session discarded; slots and mutex given back on every path; calls and `Close` return |
| authentication | a fresh nonce for every login, no lockout caused by correct passwords |
| host file | one answer per name; edits touch the names they are about; the domain, once set, stays; what is written is what is read back, and lines of others survive, in any state of the file |
| reservation commands | success means both tables are done; a rerun repairs what a failed run left; deletions leave no name answering; no bind without a domain |
| host declarations | a bad statement, name or value in a closed block is one error and takes no good declaration with it; an export can be imported |
| network | a pool that is served; no subnet moved under existing reservations; dry runs promise nothing the write refuses |
| wireless | never cut off the radio in use; a write touches only the fields it names; no value that the radio does not offer; of two writes the right one first |
| profile | a reported success reproduces what the profile gives; sections in their order; what the code takes for absent stays; a router's own export changes nothing on it |

## Modules

| Module | Models |
|---|---|
| `RemoteCall` | what `Transport.Call` promises, with no session in sight: applied at most once; "ok" means applied, "refused" means not applied and never will be, "unknown" promises nothing more |
| `Session` | `src/transport/rpc.go` and the session table of the router (`src/mock/server.go`, `handlers.go`) |
| `SessionProofs` | theorems about `Session` |
| `Login` | the handshake of `src/auth/login.go` and the router's challenges and logins (`src/mock/server.go`) |
| `LoginProofs` | theorems about `Login` |
| `HostFile` | the managed block of the host file (`src/types/hosts.go`) as operators |
| `HostFileProofs` | theorems about the edits of a host file; before them induction and recursion on 0..N and powers of two, which the proofs about loops and subnets in the other modules rest on too |
| `Inventory` | the commands over the two tables (`utilities/internal/reservations`, `src/services/hosts.go`, `reservation.go`, the router's tables) |
| `InventoryProofs` | theorems about the commands over the two tables |
| `Addresses` | addresses, masks, pools and the count of free addresses (`src/ipmath`, `src/types/network.go`) as operators |
| `Network` | writing the LAN address and the pool (`gogl lan set`, `netcfg/operations.go`, `src/services/network.go`) |
| `NetworkProofs` | theorems about `Network` |
| `Wireless` | changing radios and interfaces (`gogl radio set`, `gogl wifi set`, `netcfg/wireless.go`, `band.go`, `src/services/wireless.go`, `src/types/wireless.go`) |
| `WirelessProofs` | theorems about `Wireless` |
| `Profile` | export and import of a whole configuration (`utilities/internal/profile`), over `HostFile` and `Addresses` |
| `ProfileProofs` | theorems about `Profile` |
| `HostText` | the host file as text: parsing, rendering, rejected characters (`src/types/hosts.go`) |
| `Declarations` | the parser, the checks and the writer of host declarations (`reservations/parse.go`, `format.go`) |
| `Text` | composes `HostText` and `Declarations`: edits of a host file, imports and exports of declarations |
| `TextProofs` | theorems about the host file of `Text` |
| `MCSession`, `MCLogin`, `MCInventory`, `MCNetwork`, `MCWireless`, `MCProfile`, `MCText` | values of the constants for TLC |

### Session

One `Calls` element is one invocation of `Call`; its `pc` names where it can be
preempted: waiting for a slot, before `session`, before `renew`, logging in (holding the
mutex), waiting for an answer. Everything done under the mutex is one step; the mutex is
a variable only because a login holds it across a request. `Denied` is `do`'s
`invalidate` together with the decision to retry or to return, because nothing that
others see lies between them. The generation a caller passes to `renew` is `myGen`.

The router keeps one live session. `Expire` covers idling out, a reboot and somebody
else's login. A request is on the wire until it is served or lost, also after its sender
gave up (`GiveUp`); what the caller gets then is "lost", whether the connection broke, the
client timed out, the context was cancelled or the answer did not decode. A login is one
request here: granted, refused or lost. Session ids are numbers the router counts up; the
program only compares them.

The keepalive's probe is one step that is answered, or fails for whatever reason at any
time; a failing probe can hit a live session. `Close` sets `done` and waits.

### Login

One element of `Logins` is one invocation of `Login`; those of one authenticator come one
after the other, because `renew` calls it under the mutex. `pc` names the five places where
a login waits for the router or for the crypt. What the program knows of the router is its
password entry, a salt and an algorithm; the cipher is named by the two it was derived
from, and the cache is kept by salt, as in `cipherFor`. `Reset` rewrites the entry at any
moment: a new salt, perhaps another algorithm. Of the nonces, the last one issued for a
login matters. The one timing assumption is the one that `Login` is built on: a nonce
outlives a request and not a crypt; so a nonce is "old", good or expired, once a crypt has
run since it was issued, and "fresh" before. `Session` sees all this as one request that is
granted, refused or lost; both modules are remote calls in the sense of `RemoteCall`.
Unknown user names and unknown digest methods end a login like an unsupported algorithm and
are left out.

### HostFile and Inventory

A file is a domain and a sequence of entries; a name is the sequence of its labels, and so
is a domain. `Answers`, `RemoveName` and `SetName` work on the spellings that `bothForms`
yields (`BothForms`): the name without the domain, and that in `FQDN`, which leaves any name
with a dot alone. `Matched` says that the name itself is one of them. It is for a name of one
label, for one under another domain, and for one label before the domain, but not for
`a.b.lab` under `lab`: see "Where code and text disagree". The properties about names are
about matched ones, the theorems `RemoveSilences` and `RemoveMisses` about both kinds.
The loops of the code (what `Kept` keeps of a sequence, the names that `Requalify`,
`SetNames` and `DropNames` go through) are recursive functions on the prefixes of their
input, so that the proofs can reason about them. Names that differ only in letter case are
one name. The text around the managed block is in `HostText`.

A process runs one command after another. A command reads binds and host file, plans,
and leaves a list of operations in `todo`; `create`, `update` and `delete` are a checking
read and a write, `put` writes the whole file from the copy in `hosts`, `clearNames` reads
again first. An operation that fails is counted or ends the command, as `EntryErrors`
says. `ReadFails`, `OpFails`, `ReplyLost` and `Interrupt` are the failures; `ReplyLost`
has the effect and reports a failure. A command of kind "direct" is a program that calls
one service method. `CommandsAssumption` says what the checks that end before the first RPC
let through: names that are names (`ValidateName`), addresses, no domain that is empty, and
no MAC twice in a file (`findDuplicates`). The copy of the host file is edited when the plan is made: in the
code some of those edits follow the writes of the binds, but nothing reads the copy in
between. Not modelled: dry runs and prompts (they write nothing), validation against the
LAN (it ends before any write), unnamed binds made outside gogl.

### Network

A command reads the network (`ReadNetwork`, which also fills in what was not given), reads
the binds, decides (`ReadBinds`), then inside the service reads the network again
(`CheckMoves`) and the binds again (`Guard`), and writes. Each of these is an RPC and a step;
others reserve addresses (`Reserve`) and write networks in between. A command of kind
"library" is a program that calls `NetworkService.Set` itself. `Refused`, `Lost` and
`WriteUnanswered` are the three ways an RPC goes wrong, and `LostResult` is what the command
makes of the last two. A mask is the number of host bits, so a mask with holes cannot be
written down. The firmware's rewrite of the binds (`Renumberings`) is what the comment of
`NetworkService.Set` reports of the device: host parts stay; it says that a change of the
mask is untested, so there each bind moves or stays.

### Wireless

`pc` goes through resolution of the band, the two reads, the look at the session's path, the
prompt, and for each of the two writes the service's validation, its guard and the write.
`path` is how the session really reaches the router and `listed` what the client list says;
`Roam` and `Refresh` move them apart and together. `SetWireless` takes changes of an
interface, of a radio, or both; the commands of today use one at a time, and the runs use
both. A key of length 0 is that of an open network; `moded` remembers of each radio that a
command has named a hardware mode for it. What a radio supports (`Caps`) is its answer to `wifi.get_config`.

### Profile

One program works at a time, since `Inventory`, `Network` and `Wireless` have the races, so
the reads before a write are part of its step. Each section is a step per write; `Fail`,
`Lost` and `Unanswered` end or disturb any of them. A profile comes from `Export`, from
another router's export, or from somebody's editor (`HandWritten`). An interface and a radio
are both a device with settings; their order, and that of the reservations, is left open.
`BadNames` and `BadAddresses` are what `HostFile.Set` turns down (`ValidateName`, an address
of IPv6); an import logs such an entry and goes on (`SetIfDiffers`), a change of domain over
one fails (`DomainFails`). A setting that a profile leaves out is `NoSetting`; `Given` is what
`Apply` makes of it, which is a value to write for hidden, enabled and channel (`Zero`).

What the constants stand for is assumed as far as the code sees to it. `RoutersAssumption`:
a router has one bind for a MAC and one answer for a name, and each device its settings;
that `SetName` leaves one answer is a theorem (`SetKeepsOne`). `ProfilesAssumption`: a
profile gives a MAC, a name and a device once. An export does; `ReadProfile` does not check
that an edited one does, and if it gives a MAC twice, with two addresses, no import of it can
leave both.

### HostText, Declarations and Text

Host files and declaration files are sequences of tokens. The operators of `HostText` are
the functions of `hosts.go`; `Served` in `Text` is what the router itself reads in a file and
owes nothing to the parser. `Declarations` has the parser with the index it goes on from
after each kind of error. A test file is a sequence of items, each with what its author
expects it to give (`gives`), so the parser is judged by something that does not parse.
Whether a word is a legal name, MAC or address is one bit of it.

A token of a host file is an address, a name, a domain or a mark, and `parseEntries` takes the
first field of a line for an address whatever it is. `TextsAssumption` keeps to texts for which
that is right: behind every begin marker, whichever of them comes to be the first one after some
edits, the lines that are read have an address first and then names. Everything else about a
text is open: where lines end, where comments start, how many markers there are and in which
order. `EditsAssumption` lists the four edits with their arguments.

## Runs

| Run | Instance | Shows |
|---|---|---|
| `session` | 3 calls, 2 slots, no keepalive | safety of `Session`, refinement of `RemoteCall` |
| `keepalive` | 2 calls, 1 slot, 1 `Close`, keepalive, fair | the probe and `Close` among calls; everybody returns |
| `login` | 2 logins with the right password, 2 with a wrong one, 2 algorithms (1 supported), 1 rewritten entry, lockout after 1 | freshness, what is counted for the lockout, refinement of `RemoteCall` |
| `inventory` | 1 process, 16 commands, 4 runs, 1 failure; a name of several labels | commands, failures and reruns |
| `shared` | 2 processes, 9 commands, 4 runs, 1 failure, no domain at first | what survives races |
| `network` | 2 processes, 10 commands, 2 runs, 1 failure, 1 foreign reservation; 16 addresses, 2 hosts | the guards between RPCs, what a dry run promises, pools and free addresses |
| `wireless` | 2 processes, 12 commands, 2 runs, 1 failure, 1 roam; 2 radios, one of them in its lowest mode, 3 interfaces, one of them open | nobody cuts himself off; partial updates; partial failure; no value that a radio does not offer |
| `profile` | 2 routers in 4 possible states each, 6 edited profiles, 5 flag settings, 3 runs, 1 failure; entries that are turned down or not found again | complete, ordered and careful imports |
| `text` | host files of up to 4 lines, whole or cut off; declaration files of up to 3 items, bad and unclosed ones among them; any number of edits, imports and exports | round trips, damaged files, error recovery |
| `import_idempotent`, `moved_means_moved`, `none_lost_silently` | the instances above | end with a counterexample, see below |

Three calls are enough for a call that logs in, one that adopts its session and one that
brings a late denial of the old session; a call retries once, so two losses of a session
exhaust it, and the number of logins is bounded by two per call without any bound in the
model. One slot makes the second call queue for it. Two logins of each
authenticator give a cipher that is cached by one and used by the next, with the rewrite
before, between or after their challenges; two wrong logins are what locks out.
In the inventory two hosts and two
addresses give a moved host, a renumbered host, an address conflict and a name conflict;
four commands make room for a failed command, its rerun and a deletion. In the network
instance 16 addresses make two subnets of 8 and one of 4, with pools at their edges, over a
bind or the router, and across the border; two commands are a command and another that
overtakes it. Two wireless commands are two writers of one interface, and one roam is a
session that moves at the worst moment. Three profile runs are an export, a failed import
and its rerun, or an import on each router. A parser keeps no state but its index, so two
items are one that goes wrong and one that must survive it, and a third shows that it stays
in step. `DeclarationsInSync` is about all that stands before the first item whose braces or
end are wrong (`Sound`): from there on the parser does lose declarations, see below.
The free addresses of a /31 or a /32 are not in the `network` run, but in the theorem
`CountIsFree`, which has every mask. `inventory` has one process, so it cannot show the race
of two that both create a bind; that one is possible, see below.

Command sequences end at `MaxRuns`, so those runs do not check deadlock; neither do
the transport's, where all calls may have returned, nor `text`, where a refused edit is no
step and a file may refuse them all. `MCSession`, `MCNetwork` and `MCWireless` use symmetry
of calls or processes, in runs without liveness.

Fairness (`Session!Fairness`): a goroutine that can go on does. Waiting for the router
ends, because each HTTP request has the client's timeout (`rpc.go:67`) and the probe a
deadline (`rpc.go:274`): that is weak fairness of the caller's own steps, `GiveUp` among
them. The keepalive's `select` between a tick and a closed channel is strongly fair: Go
picks at random among the ready cases, so it does not prefer ticks for ever. Nothing is
assumed of the router, the network or the callers. Slots and mutex need no queue: each
call passes each of them a bounded number of times.

### Where code and text disagree

Three of these are runs that TLC ends with a counterexample.

* `import_idempotent`: replace a network card (same name, new MAC) and `import --prune`.
  The old bind is pruned with its name, after the new one was set: the import reports
  success and the name is gone; the next run puts it back.
* `moved_means_moved`: when a profile's subnet differs, `Apply` says that the router has
  moved and stops, also in a dry run, and also if the connection was lost in the reads of
  `Set` or before the router saw the write (`apply.go:79`, `154`).
* `none_lost_silently`: a stray `}` between declarations makes `skipDirective` take the next
  host block for the body of a directive. It is dropped without an error, and
  `import --prune` deletes its reservation. A directive without its semicolon does the same.

The others were met while modelling. Transport and login:

* Holding the mutex makes a burst of calls log in once if that login succeeds; if it fails,
  each queued call logs in, and the router counts them (`rpc.go:49`).
* A login request that is lost is reported as `ErrUnauthorized` (`login.go:99`), and the
  commands then explain which password was tried.
* The keepalive's probe does not take a slot, so `MaxConcurrent` + 1 requests can be in
  flight. `ErrSessionExpired` reaches a caller after a re-login that succeeded (the retry was
  denied), while `errors.go:71` says that it surfaces only when the re-login fails.
* If the algorithm changes between the two challenges, the cipher of the new salt is derived
  with the old algorithm and stays cached under that salt, so each later login of the program
  fails and is counted (`Mixed` in `Login`; `login.go:15` says that the cipher depends only on
  password and salt). `ErrNonceExpired` is never returned: an expired nonce is an access
  denial.

Reservations and names:

* A name of several labels under the domain, say `a.b.lab` under `lab`, is not found again.
  `bothForms` trims the domain and asks `FQDN` for the qualified form, but `FQDN` leaves `a.b`
  alone, for its dot, so neither `Remove` nor `Lookup` looks for `a.b.lab`
  (`hosts.go:187-205`); `ValidateName` allows such names. What follows: `Set` appends a second
  entry each time, though `hosts.go:209-211` says that any other entry claiming the name is
  dropped and `gogl-guide.md:449` that a name in use is replaced; `rm` reports success while
  the name goes on answering (`gogl-guide.md:375`: "Removes one host and its DNS name");
  no import of a file or a profile with such a name is ever a no-op (`gogl-guide.md:344`,
  `683`). `RemoveMisses` proves the cause; the runs have such a name, and the properties
  that the code has for all others except it by `Matched`.
* `import --prune` deletes binds before names. If it dies between the two, the name stays for
  good: the next run has nothing to prune (`set.go:142`; `operations.go:87` promises that a
  pruned reservation takes its name with it). `rm` and `clear` go in the safe order
  (`NamesGoFirst`).
* A name added in its qualified form keeps the old domain when the domain changes
  (`services/hosts.go:104`), and its entry has no bare form, although `dns add` says that the
  entry carries both.
* Two goroutines can both create a bind for one MAC (`reservation.go:135`), though
  `services.go:97` says that `Create` returns `ErrConflict`.
* Adding a new name for a reserved MAC renames the bind and leaves the old name in DNS
  (`addel.go:113-127`).
* `findDuplicates` compares names as they are written, the host file without their case and
  in both forms (`operations.go:218`, `hosts.go:240`). A file that declares `nas` and `NAS`,
  or `nas` and `nas.lab` under the domain `lab`, with two addresses, passes the check, and no
  import of it converges: the one name that both stand for has one answer, which is wrong for
  one of them, so each run sets it again. `OneSpelling` excludes this in the proofs, and no
  command of the runs has it.

Text formats:

* One rejected character in a line of somebody else makes every write of the host file fail;
  text behind the END marker on its line is dropped.
* A host block without its closing brace takes in the next one: its next statement has a
  directive in the middle, and the recovery skips to the end of the next block
  (`parse.go:186-188`, `202-208`). One without its opening brace
  makes the parser pass over the next one. In both cases there is one error for the two of
  them. A brace inside a host block leaves a stray `}` behind, which takes the next block as
  above, and after that or a directive without its semicolon there is no error at all, though
  `parse.go:36-37` promises every declaration that could be parsed. Hosts inside a `group` or `subnet` are
  ignored without a word. An export of a bind whose name is not a legal label cannot be
  imported.

Network, wireless, profile:

* `gogl lan set` reports "the router has moved" for a connection lost in the guard's own reads
  or before the write, and returns success (`netcfg/operations.go:280`; the comment there calls
  the lost connection "the expected outcome of success, not a failure"). So the word of the
  command says nothing of whether the network was written, and no property here says it does.
* Address and mask that are not given are filled in from the main LAN also for the guest
  network (`netcfg/operations.go:178`): `lan set --guest` with a pool alone is refused, or puts
  the guest network on the LAN's address, while the help says that changing only the pool is
  never refused.
* A wireless dry run does not validate changes of an interface (`netcfg/wireless.go:121`), and
  a width is compared with the hardware mode the radio has, not with the one that the same
  command sets; a hardware mode is not compared with the width at all. A radio at 80 MHz is
  set to mode n, and keeps a width that `HTModeOptions` does not list for it, in spite of
  `types/wireless.go:259-261` ("a bad value is caught here"). `Offered` says what is left: each
  value alone is one the radio offers, and the width fits as long as no command has named a
  hardware mode.
* An encryption can be set on an open network without a passphrase
  (`types/wireless.go:225-243`): `Validate` looks at a key only if one is given.
* A client list that lags, or does not have the session yet, lets a write out over the
  session's own radio (`sure` in `CutOffOnlyUnseen` is exactly this exception).
* A profile import: a reservation with the right address keeps its old name; only the first
  name of an entry is kept; names and addresses that cannot be set are logged and the import
  succeeds (`apply.go:243-246`), while a change of domain fails over one such entry in the host
  file, whoever put it there (`services/hosts.go:104`); a dry
  run skips the reservations guard; a profile that was captured while the host file could
  not be read has reservations and no domain, and is refused.
* A profile that leaves out `hidden`, `enabled` or `channel` says false, false and 0: these have
  no absent value (`profile.go:89-90`, `101`) and are written like any other
  (`apply.go:289-296`, `317-320`). A file that was written by hand to change an SSID switches
  the interface off. An export always has them. `AbsentIsKept` therefore takes them for given.
* A file with two addresses for one host is imported again by every run, `gogl-guide.md:683`
  notwithstanding.

## Proofs

`SessionProofs` proves for any finite set of calls, any number of `Close`s and any
`MaxConcurrent` > 0 (`ConstantsAssumption`) what the `session` and `keepalive` runs check
on theirs:

* `TypeCorrect`, inductive by itself.
* `Inductive`: `SessionInv`, the conjunction of `TypeOK`, `MutexHeldByLogin`,
  `GenerationNamesSession`, `EffectOfOutcome` and `DenialsAreFinal`. None of the last
  four needs all the others, so each has a step lemma that names what it rests on:
  `MutexStep`, `GenerationStep`, `EffectStep`, `DenialStep`. `GenerationNamesSession` is
  the heart: a call with the current generation holds the current session or there is
  none; so a call that `renew` does not let adopt a session logs in over nothing.
* `NoLoginOverSession` and `LiveSessionKept` (action properties) follow from it:
  `renew` starts a login only if the generations are equal, hence no sid; a denial is
  never about the live session, so `invalidate` never clears that.
* `SlotsSafe` counts the calls that hold a slot, with the cardinality theorems.
* `CloseSafe` needs that a returned `Close` saw the goroutine stopped, and that nothing
  restarts it.
* `Implements`: each step of `Session` is a step of `RemoteCall` or a stutter, under the
  mapping `StatusOf`. A retry stutters; `EffectOfOutcome` is what lets a return map to
  "ok" or "refused".

`NetworkProofs` proves for any programs, commands, binds, width of an address and number of
faults what the `network` run checks on its instance. It rests on `CommandsAssumption` (what a
command is made of), `BindsAssumption` (finitely many MACs, each bound to an address or to
none) and `NetsAssumption` (the router starts with a main LAN and with pools that
`ValidForWrite` accepts). Only the count of free addresses needs facts about subnets: a pool
is written exactly as it was validated.

* `NetworkTyped` is inductive by itself; what is left out of a command is filled in from
  a network (`FilledType`), and `lan.set_config` puts a network in the place of one
  (`ConfiguredReplaces`).
* `NetworkSafe`: `NetworkInv` adds to `TypeOK` and `PoolServable` three facts about each command.
  `WantValid` (from "binds" on, what is going to be written is valid) gives `PoolsServable`.
  `NotYet` (a command that runs has not written) tells which step is the write.
  `WriteChecked` (at "write", without force, no bind was seen or the subnet stays) is
  what makes the guard worth anything. These three need only the types, the pools `WantValid`.
* `GuardKeepsBinds` follows: a bind changes only in a write (`WrittenBy` finds whose), which
  renumbers only if the subnet differs from the one that was compared, and then no bind was seen.
* `DryRunsAgree` compares the two guards, `Moving` of `SetNetwork` and `Moves` of `Set`,
  which are written apart in the code and agree as long as the interface is the main LAN and
  nobody wrote it in between.
* `CountIsFree` is about `countAvailable` alone. A subnet is an interval of `Pow2[mask]`
  addresses within the width (`BlockFits`, `BlockIs`, by `DoublingDivides`), so those that can
  be assigned are counted (`AssignableOf`); they fall apart into the free ones, the pool, the
  router and the reservations that are in neither (`PartsCount`). The code subtracts the size
  of each part: at least as much as the parts have, and exactly that if the pool and the
  router are assignable and no two reservations share an address (`Tidy`).
  `AvailableExactSafe` follows with the types.

`WirelessProofs` proves all that the `wireless` run checks, for any programs, commands,
radios and configurations, open networks and widths that no mode has included.
`CapsAssumption` says of the router that it has each interface on one radio,
`ConfigurationAssumption` that interfaces and radios have their settings.

* `CommandsSafe`: `Commanding` says what a command has written and what is left in `todo` at
  each `pc`; types (`TypeCorrect`) and `PartialSafe` rest on it, since of two writes the
  radio's is the second.
* `CutOffSafe` needs `LinkInv`: at "write", a session that was looked at and agreed with the
  list (`sure`) is not on a radio.
* `OthersFieldsSafe` follows from the step of a write alone, whatever was written in between.
* `OfferedSafe` needs `LookedAt`, what a validation is still worth when the write goes out:
  the radio may have been rewritten since. Channels, modes, levels and keys do not depend on
  it; a width was judged by the mode the radio had, which is the first one as long as `moded`
  is false (`FirstMode`, `Allowed`).

`LoginProofs` proves all that the `login` run checks, for any finite set of logins, any
authenticators, algorithms and number of rewritten entries (`LoginAssumption`).

* `LoginInductive`: `LoginInv` says for each login what it has been told (`Handshake`), what
  became of its one request (`Requested`) and which nonce that carries (`Signed`).
  `NonceSafe` is part of it.
* `CountSafe`: the router counts at most one wrong login for each login that is over; with
  it `TypeCorrect` bounds the count.
* `CacheSafe`: `GenuineInv` relates the cache to the challenges seen so far. A cache that is
  kept by salt alone is right because the router has one entry for each salt
  (`OneEntryPerSalt`), but for the `Mixed` cipher listed above. `InnocentSafe` follows.
* `Implements`: each step is one of `RemoteCall` or a stutter.

`HostFileProofs` is about operators, for any file, name and address. What the code does in
loops is proved by induction up to a bound, and since the library's induction theorems
cannot be used here (they take an operator as a parameter), `Induction`, at the head of the
module, states it for a set of numbers and gets it from cardinalities; `Recursion` gets from it that a function defined
by recursion on 0..N exists, without which its definition says nothing.

* `KeptPicks` and `KeptElements`: what `Kept` keeps are the elements asked for, in order.
* `RemoveSilences`, `RemoveKeepsOthers`, `SetAnswers`, `SetKeepsOthers`: `Remove` and `Set`
  do to a matched name what they say, and to the names of other hosts nothing.
  `RemoveMisses`: a name that is not matched is left where it is.
* `RemoveKeepsOne`, `SetKeepsOne`, `RequalifyKeepsOne`: no edit makes a second answer for a
  matched name (`OneAnswer`).
* `RequalifyKeepsAnswers`: a change of domain changes no answer of a known name that is
  matched under both domains, if every entry was made for a known name (`Worded`) and names
  that begin with the same label are one name (`Spelled`), which is more than that each host
  is spelled in one way: every spelling of a name keeps its first label.

`InventoryProofs` proves all that `inventory` and `shared` check, for any commands, domain,
runs and faults (`CommandsAssumption`). Four properties hold for any number of
processes. They rest on `SharedInductive`: `SharedInv` says that the file on the router and
every copy that is waiting to be written has one answer per matched name (`GoodFile`, `InOrder`), and
that a copy whose plan has a "put" in it has a domain (`Feasible`): what was read may be stale,
but it was read from a file with a domain.

* `TypeCorrect`, `OneAnswerSafe`, `DomainSurvivesSafe`, `DomainFirstSafe`.

The others are about one operator and hold under `OneProcess`. That is needed: two
processes overwrite each other's work, as the code takes no lock on the router (two create
binds for one MAC, see above; a stale copy takes away a name set in between). `AloneInductive`
relates a command's plan to the two tables at every point: `Left` says what the operations in
`todo` and the copy in `hosts` still have to bring about, given what the tables are now, for
each kind of command (`AddLeft`, `RmLeft`, `ClearLeft`, `DomainLeft`, `ImportLeft`). An
operation done or failed (`LeftAfter`, `LeftCounted`) leaves the rest of the plan right.

* `OneBindSafe`, `SuccessSafe`, `NamesFirstSafe`: when nothing is left, it is done, of the names
  for the matched ones.
* `ConvergesSafe`: for an import, what is left is about both tables, and the names hold only
  under `OneSpelling` and when the file declares no name of a pruned bind
  (`import_idempotent` shows why).
* `OthersNamesSafe`: `SparesInv` adds that a copy that is waiting to be put answers as the file
  does for every name the command is not about (`PlanSpares`, one case per command). It needs
  `OneSpelling` because a change of domain merges `nas.lab` with `nas` when `lab` becomes the
  domain.

`OneProcess` and `OneSpelling` hold in the instance of the `inventory` run.

`ProfileProofs` proves what the `profile` run checks, for any routers, profiles, flags, runs
and faults. `Effects` finds for every step what it writes and where: nothing, or what one
section makes of the target. For each section a lemma says what it makes of any router
(`DomainSetOf`, `NetworkSetOf`, `ReservationSetOf`, `NamedOf`, `WifiSetOf`).

* `ProfileInductive`: `ProfileInv` is `TypeOK`, `SectionInv` and `Own`. `Done` says what an
  import that writes has brought about at each `pc`: the domain, the network, each reservation
  that is no longer in `todo` unless a failure was counted, the names, each wireless entry
  that is no longer in `todo`. It stays because a section does not undo an earlier one: a
  reservation leaves those of other MACs (`BoundStays`), a wireless entry other devices, and
  the names section the domain. That the network section runs only when it has something to do
  (`Moving`, `PoolChanging`) needs that the network read is still the router's.
* `OwnExportSafe`: `Own` says that a profile which came from a router is still what that
  router has, and it is inductive only together with the property: an import of it finds
  nothing that differs in any section (`OwnUnwritten`), provided that each name in the export
  is matched or turned down (`Findable`).
* `SectionsInOrderSafe` follows from `Done` at "reservation".
* `NamedOnceReproduces`: a reported success reproduces the profile if this names each host
  once (`OneName`), but for entries that `Set` turns down and names that are not matched
  (`Matches`); a profile with `tv` and `tv.lab` under the domain `lab` cannot be
  reproduced, as one entry replaces the other. `OthersKeptSafe`: what the code takes for
  absent in the profile stays, but for the names of a file with two entries for one host (`tv.lab` and `tv`,
  when `lab` becomes the domain). These two have no hypothesis about the constants.
* `ReproducesSafe` and `AbsentKeptSafe` are `ImportReproduces` and `AbsentIsKept` themselves
  under `OneSpelling`: names that begin with the same label are one name, in all routers and
  profiles, and each
  entry was made for the first of its names, as all that gogl writes are. `SpelledInductive`
  keeps that. The instance of the `profile` run goes beyond it, with an alias (`box`) and a
  name spelled in two ways, and still has both properties.

`TextProofs` proves both properties of the `text` run that are about the host file, for every
text that `TextsAssumption` lets through and any number of edits (`EditsAssumption`).

* `LinesRead`: the parser's loop over the tokens of a block (`Reads`), at the end of the n-th
  line that was written, has the first n entries and an open line without a token
  (`LinesStand` says where each line stands). So what `EntryLines` writes is what
  `ParseEntries` reads.
* `RenderRead` finds the block again in the whole file. The first begin marker is the one that
  was written, as there is none in the text before; no line of the block has an end marker; the
  text after it may have both, and is not looked at.
* `TextInductive`: `TextInv` says that the text is readable and is what was written last.
  Readable has to be said of every begin marker: once a block without domain and entries is
  written, it is gone, and a block further down, which until then was text of somebody else, is
  the one that is read next. `ReadBackSafe` is then `RenderRead`.
* `ParseAnswers` compares the parser with `Served`, which does not parse: the invariant of its
  loop, `ReadSoFar`, has an entry for each answer of the lines so far. `LinesAnswer` and
  `RenderAnswers` are the way back: a written file answers its entries, and what the text on
  both sides answers, because each part ends its last line (`Closed`, `ClosedEnds`).
* `AnswersKeptSafe` joins them: an answer of the text is before the block, in it, or after it
  (`TextAnswers`, since markers are comments, which part answers); the edit keeps it, if it is
  not about it (`EditKeeps`, from `RemoveThins` and `SetAppends`); and the file that is written
  has it again.

Only model-checked: liveness (`CallsReturn`, `CloseReturns`), which is out of the provers'
reach, and `DeclarationsInSync`, which compares the parser of declarations with what the author
of a file expects: that is given with the files of the instance, and right for no others.
`Contains` of the network is called `NetContains` here, as the community modules have the other
name for sequences.

## Not modelled

* `src/discovery`: a diagnostic script that tries digest variants and prints answers.
* `conn` and `config`: precedence of flags, environment and file; one pass over values of one
  process.
* The read-only services and commands, formats and exit codes: they read and print.
* `leasetime.go`, `flex.go`, `client.go`: decoding of values that are only printed.
* Races of a profile import with other programs: its writes are those of the other modules,
  which have the races.
* What a mask with holes does; letter case; Unicode in SSIDs (`ValidateSSID` is one bit).

## What is left

* The parser of declarations: a grammar of the files that are right, so that what an item
  should give need not come with the instance. `FlattenSeq` would have to become a recursive
  function, like the loops of `HostText`.
* Four hazards that no property covers; `PROJECT.json` says why.
