--------------------------- MODULE WirelessProofs ---------------------------
(***************************************************************************)
(* Proofs about Wireless, for every set of programs and commands, and for  *)
(* every set of radios and every configuration at the start.               *)
(*                                                                         *)
(* Whatever the router, the link or another program does, a program's own  *)
(* command is in one of few situations, which CommandInv lists; an action  *)
(* of one program leaves the situation of the others alone (SameFor).      *)
(* LinkInv says what the last look at the client list is worth, LookedAt   *)
(* what is left of a validation when its write goes out.                   *)
(***************************************************************************)
EXTENDS Wireless, SequenceTheorems, TLAPS

Changes == {"iface", "radio"}

\* What the command of p has done and has still to do.
CommandInv(p) ==
  /\ pc[p] # "idle" => todo[p] # <<>>
  /\ pc[p] \notin {"idle", "look", "guard", "write"} => wrote[p] = {}
  /\ cmd[p] # NoCommand => wrote[p] \cup ToSet(todo[p]) = ToSet(Parts(cmd[p]))
  /\ "radio" \in wrote[p] => todo[p] = <<>>
  /\ pc[p] = "idle" /\ result[p] = "ok" => todo[p] = <<>>
  /\ pc[p] = "idle" /\ result[p] \in {"nothing", "dry"} => wrote[p] = {}

Commanding == \A p \in Procs : CommandInv(p)

\* Once the service has looked, a list that told the truth lets nobody cut himself off.
LinkInv(p) == pc[p] = "write" /\ sure[p] => path[p] \notin Bands

\* What a validation has shown: the change was valid for the radio as it was, which had
\* its first hardware mode if nobody has named one since.
AllowedRadio(c, d, named) ==
  \E radio : /\ ValidRadio(c, Caps[d], radio)
             /\ ~named => radio.hwmode = InitRadios[d].hwmode
Allowed(p, part) ==
  IF part = "iface"
  THEN \E d \in RadioFor(target[p].iface) : ValidInterface(cmd[p].iface, Caps[d])
  ELSE target[p].device \in Devices /\ AllowedRadio(cmd[p].radio, target[p].device, moded[target[p].device])

LookedAt(p) == pc[p] \in {"guard", "write"} => Allowed(p, Part(p))

\* What p's command is made of, and how its session arrives.
SameFor(p) ==
  /\ sure'[p] = sure[p] /\ path'[p] = path[p]
  /\ pc'[p] = pc[p] /\ cmd'[p] = cmd[p] /\ target'[p] = target[p] /\ todo'[p] = todo[p]
  /\ wrote'[p] = wrote[p] /\ result'[p] = result[p]

-----------------------------------------------------------------------------
(* The four queues of writes: the first write, what is left after it.      *)
LEMMA QueueFacts ==
  ASSUME NEW q \in Queues, q # <<>>
  PROVE  /\ Head(q) \in Changes /\ Tail(q) \in Queues
         /\ (Len(q) = 1) <=> (Tail(q) = <<>>)
         /\ ToSet(q) = {Head(q)} \cup ToSet(Tail(q))
         /\ Head(q) = "radio" => Tail(q) = <<>>
<1>1. CASE q = <<"iface">>
  BY <1>1 DEF Queues, Changes, ToSet
<1>2. CASE q = <<"radio">>
  BY <1>2 DEF Queues, Changes, ToSet
<1>3. CASE q = <<"iface", "radio">>
  <2>1. Head(q) = "iface" /\ Tail(q) = <<"radio">> /\ Len(q) = 2
    BY <1>3
  <2>2. ToSet(q) = {"iface", "radio"} /\ ToSet(<<"radio">>) = {"radio"}
    BY <1>3 DEF ToSet
  <2>3. <<"radio">> # <<>> /\ "iface" # "radio"
    OBVIOUS
  <2>4. Head(q) \in Changes /\ Tail(q) \in Queues
    BY <2>1 DEF Queues, Changes
  <2>5. ToSet(q) = {Head(q)} \cup ToSet(Tail(q))
    BY <2>1, <2>2
  <2>6. QED
    BY <2>1, <2>3, <2>4, <2>5
<1>4. QED
  BY <1>1, <1>2, <1>3 DEF Queues

(* A command makes at most two writes, the interface first.                *)
LEMMA PartsFacts ==
  ASSUME NEW c PROVE Parts(c) \in Queues
<1>1. <<>> \in Seq(Changes) /\ <<"iface">> \in Seq(Changes) /\ <<"radio">> \in Seq(Changes)
  BY DEF Changes
<1>2. <<>> \o <<>> = <<>> /\ <<"iface">> \o <<>> = <<"iface">> /\ <<>> \o <<"radio">> = <<"radio">>
  BY <1>1, ConcatEmptySeq
<1>3. <<"iface">> \o <<"radio">> = <<"iface", "radio">>
  <2> DEFINE s == <<"iface">> \o <<"radio">>
             t == <<"iface", "radio">>
  <2>1. /\ s \in Seq(Changes) /\ Len(s) = 2
        /\ \A i \in 1..2 : s[i] = IF i <= 1 THEN <<"iface">>[i] ELSE <<"radio">>[i - 1]
    BY <1>1, ConcatProperties
  <2>2. s[1] = "iface" /\ s[2] = "radio"
    BY <2>1
  <2>3. t \in Seq(Changes) /\ Len(t) = 2 /\ t[1] = "iface" /\ t[2] = "radio"
    BY DEF Changes
  <2>4. \A i \in 1..2 : s[i] = t[i]
    BY <2>2, <2>3
  <2> HIDE DEF s, t
  <2>5. s = t
    BY <2>1, <2>3, <2>4, SeqEqual
  <2>6. QED
    BY <2>5 DEF s, t
<1>4. QED
  BY <1>2, <1>3, Zenon DEF Parts, Queues

(* An empty queue holds nothing.                                           *)
LEMMA EmptyQueue == ToSet(<<>>) = {}
BY DEF ToSet

-----------------------------------------------------------------------------
(* Type correctness, together with the queue that a running command has:   *)
(* without a write left, Write would have no type.                         *)
LEMMA TypeAtInit == Init => TypeOK /\ Commanding
<1> SUFFICES ASSUME Init PROVE TypeOK /\ Commanding
  OBVIOUS
<1>1. TypeOK
  <2>1. path \in [Procs -> Paths] /\ listed \in [Procs -> Bands \cup {"", "cable"}]
    BY DEF Init, Paths, Bands, Truth
  <2>2. DOMAIN ifaces = DOMAIN InitIfaces /\ \A i \in DOMAIN ifaces : DOMAIN ifaces[i] = IfaceFields
    BY ConfigurationAssumption DEF Init, ConfigurationAssumption
  <2>3. DOMAIN radios = Devices /\ \A d \in Devices : DOMAIN radios[d] = RadioFields
    BY ConfigurationAssumption DEF Init, ConfigurationAssumption
  <2>4. QED
    BY <2>1, <2>2, <2>3 DEF Init, TypeOK, PC, Results, Queues
<1>2. Commanding
  BY EmptyQueue DEF Init, Commanding, CommandInv
<1>3. QED
  BY <1>1, <1>2

(* A step of one program leaves the commands of the others alone.          *)
LEMMA OthersKeep ==
  ASSUME TypeOK, NEW p \in Procs, Step(p), NEW q \in Procs, q # p
  PROVE  SameFor(q)
<1> USE DEF TypeOK, SameFor, End, Go, linkVars
<1>1. ASSUME NEW c \in Commands, Start(p, c) PROVE SameFor(q)
  BY <1>1 DEF Start
<1>2. CASE ResolveBand(p)
  BY <1>2 DEF ResolveBand
<1>3. CASE ReadInterface(p)
  BY <1>3 DEF ReadInterface
<1>4. CASE ReadRadio(p)
  BY <1>4 DEF ReadRadio
<1>5. CASE ReportPath(p)
  BY <1>5 DEF ReportPath
<1>6. CASE Confirm(p)
  BY <1>6 DEF Confirm
<1>7. CASE Look(p)
  BY <1>7 DEF Look
<1>8. CASE Guard(p)
  BY <1>8 DEF Guard
<1>9. CASE Write(p)
  BY <1>9 DEF Write, Configure
<1>10. CASE WriteUnanswered(p)
  BY <1>10 DEF WriteUnanswered, Configure
<1>11. CASE Fail(p)
  BY <1>11 DEF Fail
<1>12. CASE Roam(p)
  BY <1>12 DEF Roam
<1>13. CASE Refresh(p)
  BY <1>13 DEF Refresh
<1>14. QED
  BY <1>1, <1>2, <1>3, <1>4, <1>5, <1>6, <1>7, <1>8, <1>9, <1>10, <1>11, <1>12, <1>13 DEF Step

(* The queue after a write: every write that is made was still to be made. *)
LEMMA WriteFacts ==
  ASSUME TypeOK, Commanding, NEW p \in Procs, pc[p] = "write", Configure(p)
  PROVE  /\ Part(p) \in Changes /\ Tail(todo[p]) \in Queues
         /\ todo' = [todo EXCEPT ![p] = Tail(todo[p])] /\ todo'[p] = Tail(todo[p])
         /\ wrote'[p] = wrote[p] \cup {Part(p)}
         /\ (Len(todo[p]) = 1) <=> (todo'[p] = <<>>)
         /\ wrote'[p] \cup ToSet(todo'[p]) = wrote[p] \cup ToSet(todo[p])
         /\ Part(p) = "radio" => todo'[p] = <<>>
         /\ "radio" \notin wrote[p]
<1>1. todo[p] \in Queues /\ todo[p] # <<>>
  BY DEF TypeOK, Commanding, CommandInv
<1>2. /\ Part(p) \in Changes /\ Tail(todo[p]) \in Queues
      /\ (Len(todo[p]) = 1) <=> (Tail(todo[p]) = <<>>)
      /\ ToSet(todo[p]) = {Part(p)} \cup ToSet(Tail(todo[p]))
      /\ Part(p) = "radio" => Tail(todo[p]) = <<>>
  BY <1>1, QueueFacts DEF Part
<1>3. todo' = [todo EXCEPT ![p] = Tail(todo[p])] /\ wrote' = [wrote EXCEPT ![p] = wrote[p] \cup {Part(p)}]
  BY DEF Configure
<1>4. todo'[p] = Tail(todo[p]) /\ wrote'[p] = wrote[p] \cup {Part(p)}
  BY <1>3 DEF TypeOK
<1>5. wrote'[p] \cup ToSet(todo'[p]) = wrote[p] \cup ToSet(todo[p])
  BY <1>2, <1>4
<1>6. "radio" \notin wrote[p]
  BY <1>1 DEF Commanding, CommandInv
<1>7. QED
  BY <1>2, <1>3, <1>4, <1>5, <1>6

(* Each step keeps the situation of its own command.                       *)
LEMMA OwnCommand ==
  ASSUME TypeOK, Commanding, NEW p \in Procs, Step(p)
  PROVE  CommandInv(p)'
<1>0. CommandInv(p) /\ p \in DOMAIN pc /\ p \in DOMAIN cmd /\ p \in DOMAIN todo /\ p \in DOMAIN wrote /\ p \in DOMAIN result
  BY DEF TypeOK, Commanding
<1> USE DEF CommandInv, End, Go
<1>1. ASSUME NEW c \in Commands, Start(p, c) PROVE CommandInv(p)'
  BY <1>0, <1>1, EmptyQueue DEF Start
<1>2. CASE ResolveBand(p)
  BY <1>0, <1>2 DEF ResolveBand, FirstRead
<1>3. CASE ReadInterface(p)
  BY <1>0, <1>3 DEF ReadInterface
<1>4. CASE ReadRadio(p)
  BY <1>0, <1>4 DEF ReadRadio
<1>5. CASE ReportPath(p)
  BY <1>0, <1>5 DEF ReportPath
<1>6. CASE Confirm(p)
  BY <1>0, <1>6 DEF Confirm
<1>7. CASE Look(p)
  BY <1>0, <1>7 DEF Look
<1>8. CASE Guard(p)
  BY <1>0, <1>8 DEF Guard
<1>9. CASE Write(p)
  <2>1. pc[p] = "write" /\ Configure(p)
    BY <1>9 DEF Write
  <2>2. QED
    BY <1>0, <1>9, <2>1, WriteFacts DEF Write
<1>10. CASE WriteUnanswered(p)
  <2>1. pc[p] = "write" /\ Configure(p)
    BY <1>10 DEF WriteUnanswered
  <2>2. QED
    BY <1>0, <1>10, <2>1, WriteFacts DEF WriteUnanswered
<1>11. CASE Fail(p)
  BY <1>0, <1>11 DEF Fail
<1>12. CASE Roam(p)
  BY <1>0, <1>12 DEF Roam
<1>13. CASE Refresh(p)
  BY <1>0, <1>13 DEF Refresh
<1>14. QED
  BY <1>1, <1>2, <1>3, <1>4, <1>5, <1>6, <1>7, <1>8, <1>9, <1>10, <1>11, <1>12, <1>13 DEF Step

(* Commanding is inductive: the program that steps keeps its own           *)
(* situation, and the others are not touched.                              *)
LEMMA CommandStep == TypeOK /\ Commanding /\ [Next]_vars => Commanding'
<1> SUFFICES ASSUME TypeOK, Commanding, [Next]_vars PROVE Commanding'
  OBVIOUS
<1>1. ASSUME NEW p \in Procs, Step(p) PROVE Commanding'
  <2>1. CommandInv(p)'
    BY <1>1, OwnCommand
  <2>2. ASSUME NEW q \in Procs, q # p PROVE CommandInv(q)'
    <3>1. CommandInv(q) /\ SameFor(q)
      BY <1>1, <2>2, OthersKeep DEF Commanding
    <3>2. QED
      BY <3>1 DEF CommandInv, SameFor
  <2>3. QED
    BY <2>1, <2>2 DEF Commanding
<1>2. CASE UNCHANGED vars
  BY <1>2 DEF vars, Commanding, CommandInv
<1>3. QED
  BY <1>1, <1>2 DEF Next

(* A write keeps the types of what it changes.                             *)
LEMMA WriteTyped ==
  ASSUME TypeOK, Commanding, NEW p \in Procs, pc[p] = "write", Configure(p)
  PROVE  /\ todo' \in [Procs -> Queues] /\ wrote' \in [Procs -> SUBSET {"iface", "radio"}]
         /\ DOMAIN ifaces' = DOMAIN InitIfaces
         /\ \A i \in DOMAIN ifaces' : DOMAIN ifaces'[i] = IfaceFields
         /\ DOMAIN radios' = Devices /\ \A d \in Devices : DOMAIN radios'[d] = RadioFields
         /\ moded' \in [Devices -> BOOLEAN]
<1>1. todo' \in [Procs -> Queues] /\ Part(p) \in Changes
  <2>1. todo' = [todo EXCEPT ![p] = Tail(todo[p])] /\ Tail(todo[p]) \in Queues /\ Part(p) \in Changes
    BY WriteFacts
  <2>2. QED
    BY <2>1 DEF TypeOK
<1>2. wrote' \in [Procs -> SUBSET {"iface", "radio"}]
  BY <1>1 DEF TypeOK, Configure, Changes
<1>3. /\ DOMAIN ifaces' = DOMAIN InitIfaces
      /\ \A i \in DOMAIN ifaces' : DOMAIN ifaces'[i] = IfaceFields
  <2>1. CASE Part(p) = "iface"
    <3> DEFINE t == target[p].iface
               u == Updated(ifaces[t], Sent(p, "iface"))
    <3>1. ifaces' = [ifaces EXCEPT ![t] = u] /\ DOMAIN u = DOMAIN ifaces[t]
      BY <2>1 DEF Configure, Updated
    <3> HIDE DEF t, u
    <3>2. QED
      BY <3>1 DEF TypeOK
  <2>2. CASE Part(p) # "iface"
    BY <2>2 DEF TypeOK, Configure
  <2>3. QED
    BY <2>1, <2>2
<1>4. DOMAIN radios' = Devices /\ \A d \in Devices : DOMAIN radios'[d] = RadioFields
  <2>1. CASE Part(p) # "iface"
    <3> DEFINE t == target[p].device
               u == Updated(radios[t], Sent(p, "radio"))
    <3>1. radios' = [radios EXCEPT ![t] = u] /\ DOMAIN u = DOMAIN radios[t]
      BY <2>1 DEF Configure, Updated
    <3> HIDE DEF t, u
    <3>2. QED
      BY <3>1 DEF TypeOK
  <2>2. CASE Part(p) = "iface"
    BY <2>2 DEF TypeOK, Configure
  <2>3. QED
    BY <2>1, <2>2
<1>5. moded' \in [Devices -> BOOLEAN]
  BY DEF TypeOK, Configure
<1>6. QED
  BY <1>1, <1>2, <1>3, <1>4, <1>5

(* A program goes on or ends: in either case the steps keep their type.    *)
LEMMA GoTyped ==
  ASSUME TypeOK, NEW p \in Procs, NEW step \in PC, Go(p, step)
  PROVE  pc' \in [Procs -> PC] /\ result' \in [Procs -> Results]
BY DEF TypeOK, Go

(* A program that ends is idle.                                            *)
LEMMA EndTyped ==
  ASSUME TypeOK, NEW p \in Procs, NEW r \in Results, End(p, r)
  PROVE  pc' \in [Procs -> PC] /\ result' \in [Procs -> Results]
BY DEF TypeOK, End, PC

(* The types are kept by every step of a state in which a running command  *)
(* has a write left.                                                       *)
LEMMA TypeStep == TypeOK /\ Commanding /\ [Next]_vars => TypeOK'
<1> SUFFICES ASSUME TypeOK, Commanding, [Next]_vars PROVE TypeOK'
  OBVIOUS
<1>0. TypeOK /\ Commanding
  OBVIOUS
<1>1. ASSUME NEW p \in Procs, Step(p) PROVE TypeOK'
  <2> USE DEF routerVars, linkVars, bounds
  <2>1. ASSUME NEW c \in Commands, Start(p, c) PROVE TypeOK'
    <3>1. Parts(c) \in Queues /\ FirstStep(c) \in PC
      BY PartsFacts DEF FirstStep, FirstRead, PC
    <3>2. todo' \in [Procs -> Queues]
      BY <2>1, <3>1 DEF Start, TypeOK, PC, Results, End, Go
    <3>3. pc' \in [Procs -> PC] /\ result' \in [Procs -> Results]
      <4> DEFINE to == FirstStep(c)
      <4>1. pc' = [pc EXCEPT ![p] = "idle"] \/ pc' = [pc EXCEPT ![p] = to]
        BY <2>1 DEF Start, TypeOK, PC, Results, End, Go
      <4> HIDE DEF to
      <4>2. result' = [result EXCEPT ![p] = "refused"] \/ result' = [result EXCEPT ![p] = "none"]
        BY <2>1 DEF Start, TypeOK, PC, Results, End, Go
      <4>3. {"idle", to} \subseteq PC /\ {"refused", "none"} \subseteq Results
        BY <3>1 DEF PC, Results, to
      <4>4. pc \in [Procs -> PC] /\ result \in [Procs -> Results]
        BY DEF TypeOK
      <4>5. QED
        BY <4>1, <4>2, <4>3, <4>4
    <3>4. \A q \in Procs : pc'[q] # "idle" => cmd'[q] \in Commands
      BY <2>1 DEF Start, TypeOK, PC, Results, End, Go
    <3>5. QED
      BY <2>1, <3>2, <3>3, <3>4 DEF Start, TypeOK, PC, Results, End, Go
  <2>2. CASE ResolveBand(p)
    <3>1. FirstRead(cmd[p]) \in PC
      BY DEF FirstRead, PC
    <3> DEFINE to == FirstRead(cmd[p])
    <3>2. pc' = [pc EXCEPT ![p] = to] \/ pc' = [pc EXCEPT ![p] = "idle"]
      BY <2>2 DEF ResolveBand, TypeOK, PC, Results, End, Go
    <3>3. pc' \in [Procs -> PC]
      BY <3>1, <3>2 DEF TypeOK, PC
    <3>4. DOMAIN target' = Procs /\ result' \in [Procs -> Results]
      BY <2>2 DEF ResolveBand, TypeOK, PC, Results, End, Go
    <3>5. \A q \in Procs : pc'[q] # "idle" => cmd'[q] \in Commands
      BY <2>2 DEF ResolveBand, TypeOK, PC, Results, End, Go
    <3>6. QED
      BY <2>2, <3>3, <3>4, <3>5 DEF ResolveBand, TypeOK, PC, Results, End, Go
  <2>3. CASE ReadInterface(p)
    <3> DEFINE to == IF DOMAIN cmd[p].radio # {} THEN "radio" ELSE "path"
    <3>1. Go(p, to) \/ End(p, "refused")
      BY <2>3 DEF ReadInterface
    <3>2. to \in PC /\ "refused" \in Results
      BY DEF PC, Results
    <3> HIDE DEF to
    <3>3. pc' \in [Procs -> PC] /\ result' \in [Procs -> Results]
      BY <1>0, <3>1, <3>2, GoTyped, EndTyped
    <3>4. \A q \in Procs : pc'[q] # "idle" => cmd'[q] \in Commands
      BY <2>3 DEF ReadInterface, TypeOK, End, Go
    <3>5. UNCHANGED <<routerVars, linkVars, cmd, target, todo, wrote, sure>>
      BY <2>3 DEF ReadInterface
    <3>6. QED
      BY <3>3, <3>4, <3>5 DEF TypeOK
  <2>4. CASE ReadRadio(p)
    <3>1. Go(p, "path") \/ End(p, "refused")
      BY <2>4 DEF ReadRadio
    <3>2. "path" \in PC /\ "refused" \in Results
      BY DEF PC, Results
    <3>3. pc' \in [Procs -> PC] /\ result' \in [Procs -> Results]
      BY <1>0, <3>1, <3>2, GoTyped, EndTyped
    <3>4. \A q \in Procs : pc'[q] # "idle" => cmd'[q] \in Commands
      BY <2>4 DEF ReadRadio, TypeOK, End, Go
    <3>5. UNCHANGED <<routerVars, linkVars, cmd, target, todo, wrote, sure>>
      BY <2>4 DEF ReadRadio
    <3>6. QED
      BY <3>3, <3>4, <3>5 DEF TypeOK
  <2>5. CASE ReportPath(p)
    <3>1. Go(p, "confirm") \/ \E r \in {"refused", "nothing", "dry"} : End(p, r)
      BY <2>5 DEF ReportPath
    <3>2. "confirm" \in PC /\ {"refused", "nothing", "dry"} \subseteq Results
      BY DEF PC, Results
    <3>3. pc' \in [Procs -> PC] /\ result' \in [Procs -> Results]
      BY <1>0, <3>1, <3>2, GoTyped, EndTyped
    <3>4. \A q \in Procs : pc'[q] # "idle" => cmd'[q] \in Commands
      BY <2>5 DEF ReportPath, TypeOK, End, Go
    <3>5. UNCHANGED <<routerVars, linkVars, cmd, target, todo, wrote, sure>>
      BY <2>5 DEF ReportPath
    <3>6. QED
      BY <3>3, <3>4, <3>5 DEF TypeOK
  <2>6. CASE Confirm(p)
    <3>1. Go(p, "look") \/ End(p, "refused")
      BY <2>6 DEF Confirm
    <3>2. "look" \in PC /\ "refused" \in Results
      BY DEF PC, Results
    <3>3. pc' \in [Procs -> PC] /\ result' \in [Procs -> Results]
      BY <1>0, <3>1, <3>2, GoTyped, EndTyped
    <3>4. \A q \in Procs : pc'[q] # "idle" => cmd'[q] \in Commands
      BY <2>6 DEF Confirm, TypeOK, End, Go
    <3>5. UNCHANGED <<routerVars, linkVars, cmd, target, todo, wrote, sure>>
      BY <2>6 DEF Confirm
    <3>6. QED
      BY <3>3, <3>4, <3>5 DEF TypeOK
  <2>7. CASE Look(p)
    BY <2>7 DEF Look, TypeOK, PC, Results, End, Go
  <2>8. CASE Guard(p)
    BY <2>8 DEF Guard, TypeOK, PC, Results, End, Go
  <2>9. CASE Write(p)
    <3>1. pc[p] = "write" /\ Configure(p)
      BY <2>9 DEF Write, TypeOK, PC, Results, End, Go
    <3>2. /\ todo' \in [Procs -> Queues] /\ wrote' \in [Procs -> SUBSET {"iface", "radio"}]
          /\ DOMAIN ifaces' = DOMAIN InitIfaces
          /\ \A i \in DOMAIN ifaces' : DOMAIN ifaces'[i] = IfaceFields
          /\ DOMAIN radios' = Devices /\ \A d \in Devices : DOMAIN radios'[d] = RadioFields
          /\ moded' \in [Devices -> BOOLEAN]
      BY <1>0, <3>1, WriteTyped
    <3>3. pc' \in [Procs -> PC] /\ result' \in [Procs -> Results]
      BY <2>9 DEF Write, TypeOK, PC, Results, End, Go
    <3>4. \A q \in Procs : pc'[q] # "idle" => cmd'[q] \in Commands
      BY <2>9 DEF Write, TypeOK, PC, Results, End, Go
    <3>5. QED
      BY <2>9, <3>2, <3>3, <3>4 DEF Write, TypeOK, PC, Results, End, Go
  <2>10. CASE WriteUnanswered(p)
    <3>1. pc[p] = "write" /\ Configure(p)
      BY <2>10 DEF WriteUnanswered, TypeOK, PC, Results, End, Go
    <3>2. /\ todo' \in [Procs -> Queues] /\ wrote' \in [Procs -> SUBSET {"iface", "radio"}]
          /\ DOMAIN ifaces' = DOMAIN InitIfaces
          /\ \A i \in DOMAIN ifaces' : DOMAIN ifaces'[i] = IfaceFields
          /\ DOMAIN radios' = Devices /\ \A d \in Devices : DOMAIN radios'[d] = RadioFields
          /\ moded' \in [Devices -> BOOLEAN]
      BY <1>0, <3>1, WriteTyped
    <3>3. pc' \in [Procs -> PC] /\ result' \in [Procs -> Results]
      BY <2>10 DEF WriteUnanswered, TypeOK, PC, Results, End, Go
    <3>4. \A q \in Procs : pc'[q] # "idle" => cmd'[q] \in Commands
      BY <2>10 DEF WriteUnanswered, TypeOK, PC, Results, End, Go
    <3>5. QED
      BY <2>10, <3>2, <3>3, <3>4 DEF WriteUnanswered, TypeOK, PC, Results, End, Go
  <2>11. CASE Fail(p)
    <3> DEFINE r == IF pc[p] \in {"path", "guard"} THEN "refused" ELSE "failed"
    <3>1. End(p, r)
      BY <2>11 DEF Fail
    <3>2. r \in Results
      BY DEF Results
    <3> HIDE DEF r
    <3>3. pc' \in [Procs -> PC] /\ result' \in [Procs -> Results]
      BY <1>0, <3>1, <3>2, EndTyped
    <3>4. \A q \in Procs : pc'[q] # "idle" => cmd'[q] \in Commands
      BY <2>11 DEF Fail, TypeOK, End, Go
    <3>5. UNCHANGED <<routerVars, linkVars, cmd, target, todo, wrote, sure>>
      BY <2>11 DEF Fail
    <3>6. QED
      BY <3>3, <3>4, <3>5 DEF TypeOK
  <2>12. CASE Roam(p)
    <3>0. PICK to \in Paths :
             /\ path' = [path EXCEPT ![p] = to]
             /\ \E l \in {Truth(to), listed[p], ""} : listed' = [listed EXCEPT ![p] = l]
      BY <2>12 DEF Roam
    <3>1. PICK l \in {Truth(to), listed[p], ""} : listed' = [listed EXCEPT ![p] = l]
      BY <3>0
    <3>2. l \in Bands \cup {"", "cable"}
      BY <3>1 DEF TypeOK, Paths, Truth
    <3>3. path' \in [Procs -> Paths] /\ listed' \in [Procs -> Bands \cup {"", "cable"}]
      BY <3>0, <3>1, <3>2 DEF TypeOK
    <3>4. sure' \in [Procs -> BOOLEAN] /\ UNCHANGED <<routerVars, pc, cmd, target, todo, wrote, result>>
      BY <2>12 DEF Roam, TypeOK
    <3>5. QED
      BY <3>3, <3>4 DEF TypeOK
  <2>13. CASE Refresh(p)
    BY <2>13 DEF Refresh, Paths, Bands, Truth, TypeOK, PC, Results, End, Go
  <2>14. QED
    BY <1>1, <2>1, <2>2, <2>3, <2>4, <2>5, <2>6, <2>7, <2>8, <2>9, <2>10, <2>11, <2>12, <2>13 DEF Step
<1>2. CASE UNCHANGED vars
  BY <1>2 DEF vars, TypeOK
<1>3. QED
  BY <1>1, <1>2 DEF Next

(* Every variable of the commands, the links and the router keeps its      *)
(* type, for any set of programs, commands and radios.                     *)
THEOREM TypeCorrect == Spec => []TypeOK
<1>1. Init => TypeOK /\ Commanding
  BY TypeAtInit
<1>2. TypeOK /\ Commanding /\ [Next]_vars => (TypeOK /\ Commanding)'
  BY TypeStep, CommandStep
<1>3. QED
  BY <1>1, <1>2, PTL DEF Spec

(* In every state each program's command is in one of the situations of    *)
(* CommandInv.                                                             *)
THEOREM CommandsSafe == Spec => []Commanding
<1>1. Init => TypeOK /\ Commanding
  BY TypeAtInit
<1>2. TypeOK /\ Commanding /\ [Next]_vars => (TypeOK /\ Commanding)'
  BY TypeStep, CommandStep
<1>3. QED
  BY <1>1, <1>2, PTL DEF Spec

(* A command that ended well made all its writes, one that found nothing   *)
(* to do or was a dry run made none, and no way of stopping leaves a       *)
(* retuned radio without the interface it was for.                         *)
THEOREM PartialSafe == Spec => []PartialIsInterface
<1>1. Commanding => PartialIsInterface
  <2> SUFFICES ASSUME Commanding, NEW p \in Procs, pc[p] = "idle", cmd[p] # NoCommand
               PROVE  /\ result[p] = "ok" => wrote[p] = ToSet(Parts(cmd[p]))
                      /\ result[p] \in {"nothing", "dry"} => wrote[p] = {}
                      /\ "radio" \in wrote[p] => wrote[p] = ToSet(Parts(cmd[p]))
    BY DEF PartialIsInterface
  <2>1. CommandInv(p)
    BY DEF Commanding
  <2>2. todo[p] = <<>> => wrote[p] = ToSet(Parts(cmd[p]))
    BY <2>1, EmptyQueue DEF CommandInv
  <2>3. QED
    BY <2>1, <2>2 DEF CommandInv
<1>2. QED
  BY <1>1, CommandsSafe, PTL

-----------------------------------------------------------------------------
(* The session that a command is made over.                                *)

(* Only the guard lets a command write, and it compares the list with the  *)
(* link; a session that moves is no longer sure.                           *)
LEMMA OwnLink ==
  ASSUME TypeOK, NEW p \in Procs, LinkInv(p), Step(p)
  PROVE  LinkInv(p)'
<1>0. LinkInv(p) /\ p \in DOMAIN pc /\ p \in DOMAIN sure /\ p \in DOMAIN path /\ path[p] \in Paths
  BY DEF TypeOK
<1> USE DEF LinkInv, End, Go, linkVars
<1>1. ASSUME NEW c \in Commands, Start(p, c) PROVE LinkInv(p)'
  BY <1>0, <1>1 DEF Start, FirstStep, FirstRead
<1>2. CASE ResolveBand(p)
  BY <1>0, <1>2 DEF ResolveBand, FirstRead
<1>3. CASE ReadInterface(p)
  BY <1>0, <1>3 DEF ReadInterface
<1>4. CASE ReadRadio(p)
  BY <1>0, <1>4 DEF ReadRadio
<1>5. CASE ReportPath(p)
  BY <1>0, <1>5 DEF ReportPath
<1>6. CASE Confirm(p)
  BY <1>0, <1>6 DEF Confirm
<1>7. CASE Look(p)
  BY <1>0, <1>7 DEF Look
<1>8. CASE Guard(p)
  BY <1>0, <1>8 DEF Guard, Wired, Truth, Paths, Bands
<1>9. CASE Write(p)
  BY <1>0, <1>9 DEF Write
<1>10. CASE WriteUnanswered(p)
  BY <1>0, <1>10 DEF WriteUnanswered
<1>11. CASE Fail(p)
  BY <1>0, <1>11 DEF Fail
<1>12. CASE Roam(p)
  BY <1>0, <1>12 DEF Roam
<1>13. CASE Refresh(p)
  BY <1>0, <1>13 DEF Refresh
<1>14. QED
  BY <1>1, <1>2, <1>3, <1>4, <1>5, <1>6, <1>7, <1>8, <1>9, <1>10, <1>11, <1>12, <1>13 DEF Step

(* A step that adds a write is a write of its own command.                 *)
LEMMA OnlyWriteWrites ==
  ASSUME TypeOK, NEW p \in Procs, Step(p), wrote'[p] \ wrote[p] # {}
  PROVE  pc[p] = "write"
<1>0. p \in DOMAIN wrote
  BY DEF TypeOK
<1>1. ASSUME NEW c \in Commands, Start(p, c) PROVE pc[p] = "write"
  BY <1>0, <1>1 DEF Start
<1>2. CASE ResolveBand(p)
  BY <1>0, <1>2 DEF ResolveBand
<1>3. CASE ReadInterface(p)
  BY <1>0, <1>3 DEF ReadInterface
<1>4. CASE ReadRadio(p)
  BY <1>0, <1>4 DEF ReadRadio
<1>5. CASE ReportPath(p)
  BY <1>0, <1>5 DEF ReportPath
<1>6. CASE Confirm(p)
  BY <1>0, <1>6 DEF Confirm
<1>7. CASE Look(p)
  BY <1>0, <1>7 DEF Look
<1>8. CASE Guard(p)
  BY <1>0, <1>8 DEF Guard
<1>9. CASE Write(p)
  BY <1>0, <1>9 DEF Write
<1>10. CASE WriteUnanswered(p)
  BY <1>0, <1>10 DEF WriteUnanswered
<1>11. CASE Fail(p)
  BY <1>0, <1>11 DEF Fail
<1>12. CASE Roam(p)
  BY <1>0, <1>12 DEF Roam
<1>13. CASE Refresh(p)
  BY <1>0, <1>13 DEF Refresh
<1>14. QED
  BY <1>1, <1>2, <1>3, <1>4, <1>5, <1>6, <1>7, <1>8, <1>9, <1>10, <1>11, <1>12, <1>13 DEF Step

(* A write never goes out over a radio of the router if the client list    *)
(* told the truth at the last look and the session has not moved since.    *)
THEOREM CutOffSafe == Spec => CutOffOnlyUnseen
<1> DEFINE Inv == \A p \in Procs : LinkInv(p)
           A == \A p \in Procs : wrote'[p] \ wrote[p] # {} /\ sure[p] => path[p] \notin Bands
<1>1. Init => Inv
  BY DEF Init, LinkInv
<1>2. Inv /\ TypeOK /\ [Next]_vars => Inv'
  <2> SUFFICES ASSUME Inv, TypeOK, [Next]_vars, NEW q \in Procs PROVE LinkInv(q)'
    OBVIOUS
  <2>1. ASSUME NEW p \in Procs, Step(p) PROVE LinkInv(q)'
    <3>1. CASE q = p
      BY <2>1, <3>1, OwnLink
    <3>2. CASE q # p
      <4>1. SameFor(q)
        BY <2>1, <3>2, OthersKeep
      <4>2. QED
        BY <4>1 DEF LinkInv, SameFor
    <3>3. QED
      BY <3>1, <3>2
  <2>2. CASE UNCHANGED vars
    BY <2>2 DEF vars, LinkInv
  <2>3. QED
    BY <2>1, <2>2 DEF Next
<1>3. Inv /\ TypeOK /\ [Next]_vars => [A]_vars
  <2> SUFFICES ASSUME Inv, TypeOK, NEW p \in Procs, Step(p) PROVE A
    BY DEF Next
  <2> SUFFICES ASSUME NEW q \in Procs, wrote'[q] \ wrote[q] # {}, sure[q]
               PROVE  path[q] \notin Bands
    OBVIOUS
  <2>1. q = p
    BY OthersKeep DEF SameFor
  <2>2. pc[q] = "write"
    BY <2>1, OnlyWriteWrites
  <2>3. QED
    BY <2>2 DEF LinkInv
<1>4. QED
  BY <1>1, <1>2, <1>3, TypeCorrect, PTL DEF Spec, CutOffOnlyUnseen

-----------------------------------------------------------------------------
(* What other programs have changed stays changed.                         *)

(* The two writes of the router: each changes one object, and of it the    *)
(* fields that its command names.                                          *)
LEMMA WriteChanges ==
  ASSUME NEW p \in Procs, Configure(p)
  PROVE  /\ \A i \in DOMAIN ifaces : \A x \in DOMAIN ifaces[i] :
              ifaces'[i][x] # ifaces[i][x] =>
                /\ Part(p) = "iface" /\ target[p].iface = i
                /\ x \in DOMAIN cmd[p].iface /\ ifaces'[i][x] = cmd[p].iface[x]
         /\ \A d \in DOMAIN radios : \A x \in DOMAIN radios[d] :
              radios'[d][x] # radios[d][x] =>
                /\ Part(p) # "iface" /\ target[p].device = d
                /\ x \in DOMAIN cmd[p].radio /\ radios'[d][x] = cmd[p].radio[x]
<1>1. CASE Part(p) = "iface"
  BY <1>1 DEF Configure, Updated, Sent
<1>2. CASE Part(p) # "iface"
  BY <1>2 DEF Configure, Updated, Sent
<1>3. QED
  BY <1>1, <1>2

(* The configuration changes only in a write.                              *)
LEMMA OnlyWriteConfigures ==
  ASSUME NEW p \in Procs, Step(p)
  PROVE  (pc[p] = "write" /\ Configure(p)) \/ UNCHANGED routerVars
<1> USE DEF routerVars
<1>1. ASSUME NEW c \in Commands, Start(p, c) PROVE (pc[p] = "write" /\ Configure(p)) \/ UNCHANGED routerVars
  BY <1>1 DEF Start
<1>2. CASE ResolveBand(p)
  BY <1>2 DEF ResolveBand
<1>3. CASE ReadInterface(p)
  BY <1>3 DEF ReadInterface
<1>4. CASE ReadRadio(p)
  BY <1>4 DEF ReadRadio
<1>5. CASE ReportPath(p)
  BY <1>5 DEF ReportPath
<1>6. CASE Confirm(p)
  BY <1>6 DEF Confirm
<1>7. CASE Look(p)
  BY <1>7 DEF Look
<1>8. CASE Guard(p)
  BY <1>8 DEF Guard
<1>9. CASE Write(p)
  BY <1>9 DEF Write
<1>10. CASE WriteUnanswered(p)
  BY <1>10 DEF WriteUnanswered
<1>11. CASE Fail(p)
  BY <1>11 DEF Fail
<1>12. CASE Roam(p)
  BY <1>12 DEF Roam
<1>13. CASE Refresh(p)
  BY <1>13 DEF Refresh
<1>14. QED
  BY <1>1, <1>2, <1>3, <1>4, <1>5, <1>6, <1>7, <1>8, <1>9, <1>10, <1>11, <1>12, <1>13 DEF Step

(* A write changes the fields its command names, to what it names, and no  *)
(* others, whatever has happened since the command read the configuration. *)
THEOREM OthersFieldsSafe == Spec => OthersFieldsKept
<1> DEFINE A ==
      /\ \A i \in DOMAIN ifaces : \A x \in DOMAIN ifaces[i] : ifaces'[i][x] # ifaces[i][x] =>
           \E p \in Procs : /\ pc[p] = "write" /\ target[p].iface = i
                            /\ x \in DOMAIN cmd[p].iface /\ ifaces'[i][x] = cmd[p].iface[x]
      /\ \A d \in Devices : \A x \in DOMAIN radios[d] : radios'[d][x] # radios[d][x] =>
           \E p \in Procs : /\ pc[p] = "write" /\ target[p].device = d
                            /\ x \in DOMAIN cmd[p].radio /\ radios'[d][x] = cmd[p].radio[x]
<1>1. TypeOK /\ [Next]_vars => [A]_vars
  <2> SUFFICES ASSUME TypeOK, NEW p \in Procs, Step(p) PROVE A
    BY DEF Next
  <2>1. CASE pc[p] = "write" /\ Configure(p)
    <3>1. \A i \in DOMAIN ifaces : \A x \in DOMAIN ifaces[i] : ifaces'[i][x] # ifaces[i][x] =>
            /\ pc[p] = "write" /\ target[p].iface = i
            /\ x \in DOMAIN cmd[p].iface /\ ifaces'[i][x] = cmd[p].iface[x]
      BY <2>1, WriteChanges
    <3>2. \A d \in Devices : \A x \in DOMAIN radios[d] : radios'[d][x] # radios[d][x] =>
            /\ pc[p] = "write" /\ target[p].device = d
            /\ x \in DOMAIN cmd[p].radio /\ radios'[d][x] = cmd[p].radio[x]
      <4>1. DOMAIN radios = Devices
        BY DEF TypeOK
      <4>2. QED
        BY <2>1, <4>1, WriteChanges
    <3>3. QED
      BY <3>1, <3>2, Zenon
  <2>2. CASE UNCHANGED routerVars
    BY <2>2 DEF routerVars
  <2>3. QED
    BY <2>1, <2>2, OnlyWriteConfigures
<1>2. QED
  BY <1>1, TypeCorrect, PTL DEF Spec, OthersFieldsKept

-----------------------------------------------------------------------------
(* What is validated is what is written.                                   *)

(* A write marks the radio for which it names a hardware mode, no other.   *)
LEMMA WriteModes ==
  ASSUME TypeOK, NEW p \in Procs, Configure(p)
  PROVE  /\ \A d \in Devices : moded[d] => moded'[d]
         /\ \A d \in Devices : d # target[p].device \/ Part(p) = "iface" => moded'[d] = moded[d]
         /\ \A d \in Devices : d = target[p].device /\ Part(p) # "iface" /\ ~moded'[d] =>
              ~moded[d] /\ "hwmode" \notin DOMAIN cmd[p].radio
<1>1. CASE Part(p) = "iface"
  BY <1>1 DEF Configure
<1>2. CASE Part(p) # "iface"
  BY <1>2 DEF Configure, TypeOK, Sent
<1>3. QED
  BY <1>1, <1>2

(* A hardware mode that somebody names takes nothing from a validation.    *)
LEMMA AllowedStays ==
  ASSUME NEW c, NEW d, NEW m, NEW n, AllowedRadio(c, d, m), m => n
  PROVE  AllowedRadio(c, d, n)
BY DEF AllowedRadio

(* A radio that nobody has named a hardware mode for is in its first one.  *)
FirstMode == \A d \in Devices : ~moded[d] => radios[d].hwmode = InitRadios[d].hwmode

(* A command between its validation and its write is allowed.              *)
LEMMA OwnLook ==
  ASSUME TypeOK, Commanding, FirstMode, NEW p \in Procs, LookedAt(p), Step(p)
  PROVE  LookedAt(p)'
<1>0. /\ LookedAt(p) /\ p \in DOMAIN pc
  BY DEF TypeOK
<1>a. Accepted(p, Part(p)) => Allowed(p, Part(p))
  <2>1. CASE Part(p) = "iface"
    BY <2>1 DEF Accepted, Allowed
  <2>2. CASE Part(p) # "iface"
    BY <2>2 DEF Accepted, Allowed, AllowedRadio, FirstMode
  <2>3. QED
    BY <2>1, <2>2
<1> USE DEF LookedAt, End, Go
<1>1. ASSUME NEW c \in Commands, Start(p, c) PROVE LookedAt(p)'
  BY <1>0, <1>1 DEF Start, FirstStep, FirstRead
<1>2. CASE ResolveBand(p)
  BY <1>0, <1>2 DEF ResolveBand, FirstRead
<1>3. CASE ReadInterface(p)
  BY <1>0, <1>3 DEF ReadInterface
<1>4. CASE ReadRadio(p)
  BY <1>0, <1>4 DEF ReadRadio
<1>5. CASE ReportPath(p)
  BY <1>0, <1>5 DEF ReportPath
<1>6. CASE Confirm(p)
  BY <1>0, <1>6 DEF Confirm
<1>7. CASE Look(p)
  BY <1>0, <1>7, <1>a DEF Look, Allowed, Part, routerVars
<1>8. CASE Guard(p)
  BY <1>0, <1>8 DEF Guard, Allowed, Part, routerVars
<1>9. CASE Write(p)
  BY <1>0, <1>9 DEF Write
<1>10. CASE WriteUnanswered(p)
  BY <1>0, <1>10 DEF WriteUnanswered
<1>11. CASE Fail(p)
  BY <1>0, <1>11 DEF Fail, Allowed, Part, routerVars
<1>12. CASE Roam(p)
  BY <1>0, <1>12 DEF Roam, Allowed, Part, routerVars
<1>13. CASE Refresh(p)
  BY <1>0, <1>13 DEF Refresh, Allowed, Part, routerVars
<1>14. QED
  BY <1>1, <1>2, <1>3, <1>4, <1>5, <1>6, <1>7, <1>8, <1>9, <1>10, <1>11, <1>12, <1>13 DEF Step

(* Each value of a radio stays one that it offers under a valid change.     *)
LEMMA UpdatedRadio ==
  ASSUME NEW cap, NEW c, NEW r, NEW old, NEW seen, DOMAIN r = RadioFields,
         ValidRadio(c, cap, seen), OfferedRadio(r, old, cap)
  PROVE  OfferedRadio(Updated(r, c), old, cap)
<1> DEFINE u == Updated(r, c)
<1>1. \A x \in RadioFields : u[x] = IF x \in DOMAIN c THEN c[x] ELSE r[x]
  BY DEF Updated
<1>2. /\ u.channel = IF "channel" \in DOMAIN c THEN c["channel"] ELSE r.channel
      /\ u.hwmode = IF "hwmode" \in DOMAIN c THEN c["hwmode"] ELSE r.hwmode
      /\ u.txpower = IF "txpower" \in DOMAIN c THEN c["txpower"] ELSE r.txpower
  BY <1>1 DEF RadioFields
<1> HIDE DEF u
<1>3. OfferedRadio(u, old, cap)
  BY <1>2 DEF OfferedRadio, ValidRadio, Fails
<1>4. QED
  BY <1>3 DEF u

(* So does the width, if the change names no hardware mode and was valid   *)
(* under the one that the radio is in.                                     *)
LEMMA UpdatedWidth ==
  ASSUME NEW cap, NEW c, NEW r, NEW old, NEW seen, DOMAIN r = RadioFields,
         ValidRadio(c, cap, seen), seen.hwmode = old.hwmode, "hwmode" \notin DOMAIN c,
         OfferedWidth(r, old, cap)
  PROVE  OfferedWidth(Updated(r, c), old, cap)
<1> DEFINE u == Updated(r, c)
<1>1. \A x \in RadioFields : u[x] = IF x \in DOMAIN c THEN c[x] ELSE r[x]
  BY DEF Updated
<1>2. /\ u.htmode = IF "htmode" \in DOMAIN c THEN c["htmode"] ELSE r.htmode
      /\ u.hwmode = r.hwmode
  BY <1>1 DEF RadioFields
<1> HIDE DEF u
<1>3. OfferedWidth(u, old, cap)
  BY <1>2 DEF OfferedWidth, ValidRadio, Fails
<1>4. QED
  BY <1>3 DEF u

(* The same of an interface.                                               *)
LEMMA UpdatedInterface ==
  ASSUME NEW cap, NEW c, NEW f, NEW old, DOMAIN f = IfaceFields,
         ValidInterface(c, cap), OfferedInterface(f, old, cap)
  PROVE  OfferedInterface(Updated(f, c), old, cap)
<1> DEFINE u == Updated(f, c)
<1>1. \A x \in IfaceFields : u[x] = IF x \in DOMAIN c THEN c[x] ELSE f[x]
  BY DEF Updated
<1>2. /\ u.ssid = IF "ssid" \in DOMAIN c THEN c["ssid"] ELSE f.ssid
      /\ u.key = IF "key" \in DOMAIN c THEN c["key"] ELSE f.key
      /\ u.encryption = IF "encryption" \in DOMAIN c THEN c["encryption"] ELSE f.encryption
  BY <1>1 DEF IfaceFields
<1> HIDE DEF u
<1>3. OfferedInterface(u, old, cap)
  BY <1>2 DEF OfferedInterface, ValidInterface, Fails
<1>4. QED
  BY <1>3 DEF u

(* A write of what was looked at leaves values that are offered.           *)
LEMMA WriteOffers ==
  ASSUME TypeOK, NEW p \in Procs, pc[p] = "write", LookedAt(p), Configure(p), Offered
  PROVE  Offered'
<1>1. CASE Part(p) = "iface"
  <2> DEFINE i == target[p].iface
             c == cmd[p].iface
  <2>1. PICK d0 \in RadioFor(i) : ValidInterface(c, Caps[d0])
    BY <1>1 DEF LookedAt, Allowed
  <2>2. d0 \in Devices /\ i \in IfacesOf(d0) /\ i \in DOMAIN ifaces /\ DOMAIN ifaces[i] = IfaceFields
    BY <2>1, ConfigurationAssumption DEF RadioFor, TypeOK, ConfigurationAssumption
  <2>3. OfferedInterface(ifaces[i], InitIfaces[i], Caps[d0])
    BY <2>2 DEF Offered
  <2>4. OfferedInterface(Updated(ifaces[i], c), InitIfaces[i], Caps[d0])
    BY <2>1, <2>2, <2>3, UpdatedInterface
  <2>5. ifaces' = [ifaces EXCEPT ![i] = Updated(ifaces[i], c)] /\ radios' = radios /\ moded' = moded
    BY <1>1 DEF Configure, Sent
  <2>6. ASSUME NEW d \in Devices, NEW j \in IfacesOf(d)
        PROVE  OfferedInterface(ifaces'[j], InitIfaces[j], Caps[d])
    <3>1. OfferedInterface(ifaces[j], InitIfaces[j], Caps[d]) /\ j \in DOMAIN ifaces
      BY <2>6, ConfigurationAssumption DEF Offered, ConfigurationAssumption, TypeOK
    <3>2. j = i => d = d0
      BY <2>2, <2>6, CapsAssumption DEF CapsAssumption
    <3> HIDE DEF i, c
    <3>3. QED
      BY <2>4, <2>5, <3>1, <3>2
  <2>7. QED
    BY <2>5, <2>6 DEF Offered
<1>2. CASE Part(p) # "iface"
  <2> DEFINE d0 == target[p].device
             c == cmd[p].radio
             u == Updated(radios[d0], c)
  <2>1. d0 \in Devices /\ AllowedRadio(c, d0, moded[d0])
    BY <1>2 DEF LookedAt, Allowed
  <2>2. PICK seen : ValidRadio(c, Caps[d0], seen) /\ (~moded[d0] => seen.hwmode = InitRadios[d0].hwmode)
    BY <2>1 DEF AllowedRadio
  <2>3. /\ OfferedRadio(radios[d0], InitRadios[d0], Caps[d0]) /\ DOMAIN radios[d0] = RadioFields
        /\ ~moded[d0] => OfferedWidth(radios[d0], InitRadios[d0], Caps[d0])
    BY <2>1 DEF Offered, TypeOK
  <2>4. OfferedRadio(u, InitRadios[d0], Caps[d0])
    BY <2>2, <2>3, UpdatedRadio
  <2>5. ~moded[d0] /\ "hwmode" \notin DOMAIN c => OfferedWidth(u, InitRadios[d0], Caps[d0])
    BY <2>2, <2>3, UpdatedWidth
  <2>6. radios' = [radios EXCEPT ![d0] = u] /\ ifaces' = ifaces
    BY <1>2 DEF Configure, Sent
  <2>7. ~moded'[d0] => ~moded[d0] /\ "hwmode" \notin DOMAIN c
    BY <1>2, <2>1, WriteModes
  <2>8. \A d \in Devices : d # d0 => moded'[d] = moded[d]
    BY WriteModes
  <2> HIDE DEF d0, c, u
  <2>9. \A d \in Devices : radios'[d] = IF d = d0 THEN u ELSE radios[d]
    BY <2>6 DEF TypeOK
  <2>10. ASSUME NEW d \in Devices
         PROVE  /\ OfferedRadio(radios'[d], InitRadios[d], Caps[d])
                /\ ~moded'[d] => OfferedWidth(radios'[d], InitRadios[d], Caps[d])
    <3>1. CASE d = d0
      BY <2>4, <2>5, <2>7, <2>9, <3>1
    <3>2. CASE d # d0
      BY <2>8, <2>9, <3>2 DEF Offered
    <3>3. QED
      BY <3>1, <3>2
  <2>11. QED
    BY <2>6, <2>10 DEF Offered
<1>3. QED
  BY <1>1, <1>2

(* The router only ever gets values that its radios offer: what was        *)
(* validated before the guard is what is written after it, and still       *)
(* valid, although other programs may have changed the radio in between;   *)
(* of a width this holds as long as nobody names a hardware mode.          *)
THEOREM OfferedSafe == Spec => []Offered
<1> DEFINE Looked == \A p \in Procs : LookedAt(p)
<1>1. Init => Looked /\ Offered
  BY ConfigurationAssumption DEF Init, LookedAt, Offered, OfferedInterface, OfferedRadio,
                                 OfferedWidth, ConfigurationAssumption
<1>2. Looked /\ Offered /\ TypeOK /\ Commanding /\ [Next]_vars => (Looked /\ Offered)'
  <2> SUFFICES ASSUME Looked, Offered, TypeOK, Commanding, [Next]_vars PROVE Looked' /\ Offered'
    OBVIOUS
  <2>1. ASSUME NEW p \in Procs, Step(p) PROVE Looked' /\ Offered'
    <3>1. (pc[p] = "write" /\ Configure(p)) \/ UNCHANGED routerVars
      BY <2>1, OnlyWriteConfigures
    <3>2. \A d \in Devices : moded[d] => moded'[d]
      BY <3>1, WriteModes DEF routerVars
    <3>3. ASSUME NEW q \in Procs PROVE LookedAt(q)'
      <4>1. CASE q = p
        <5>1. FirstMode
          BY DEF FirstMode, Offered, OfferedWidth
        <5>2. QED
          BY <2>1, <4>1, <5>1, OwnLook
      <4>2. CASE q # p
        <5>1. SameFor(q)
          BY <2>1, <4>2, OthersKeep
        <5> DEFINE d == target[q].device
                   c == cmd[q].radio
        <5>2. d \in Devices /\ AllowedRadio(c, d, moded[d]) => AllowedRadio(c, d, moded'[d])
          BY <3>2, AllowedStays
        <5>3. QED
          BY <5>1, <5>2 DEF LookedAt, Allowed, Part, SameFor
      <4>3. QED
        BY <4>1, <4>2
    <3>4. CASE pc[p] = "write" /\ Configure(p)
      BY <3>3, <3>4, WriteOffers
    <3>5. CASE UNCHANGED routerVars
      BY <3>3, <3>5 DEF routerVars, Offered
    <3>6. QED
      BY <3>1, <3>4, <3>5
  <2>2. CASE UNCHANGED vars
    BY <2>2 DEF vars, LookedAt, Allowed, Part, Offered
  <2>3. QED
    BY <2>1, <2>2 DEF Next
<1>3. QED
  BY <1>1, <1>2, TypeCorrect, CommandsSafe, PTL DEF Spec
=============================================================================
