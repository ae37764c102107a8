------------------------------ MODULE HostFile ------------------------------
(***************************************************************************)
(* The block of the router's host file that gogl manages                   *)
(* (src/types/hosts.go): a domain and a sequence of entries, each an       *)
(* address with the names it answers.                                      *)
(*                                                                         *)
(* A name is a record [labels], the sequence of what stands between its    *)
(* dots; a domain is such a sequence, too.  Spellings that differ in case  *)
(* only are one name, which is how names are compared.  Addresses are      *)
(* positive numbers.                                                       *)
(***************************************************************************)
EXTENDS Integers, Sequences, SequencesExt

NoDomain  == <<>>
NoAddress == 0           \* what Lookup reports for a name it does not find

\* What a name, an entry and a file are made of: no entry is without names.
Domains == Seq(STRING)
NameSet   == [labels : Seq(STRING) \ {<<>>}]
EntrySet  == [ip : Nat \ {NoAddress}, names : Seq(NameSet) \ {<<>>}]
FileSet   == [domain : Domains, entries : Seq(EntrySet)]

EmptyFile(domain) == [domain |-> domain, entries |-> <<>>]

BareName(host) == [labels |-> <<host>>]

\* The elements of s that are in S, in the order of s.  This and the other loops over a
\* sequence are recursive functions of the prefix that has been gone through.
Kept(s, S) ==
  LET kept[n \in 0 .. Len(s)] ==
        IF n = 0 THEN <<>>
        ELSE IF s[n] \in S THEN Append(kept[n-1], s[n]) ELSE kept[n-1]
  IN kept[Len(s)]

\* A name that already contains a dot is taken as fully qualified.
FQDN(f, name) ==
  IF f.domain = NoDomain \/ Len(name.labels) > 1
  THEN name
  ELSE [labels |-> name.labels \o f.domain]

\* The name without the domain, if it ends with it.
Stem(f, name) == SubSeq(name.labels, 1, Len(name.labels) - Len(f.domain))
UnderDomain(f, name) ==
  /\ f.domain # NoDomain /\ Len(name.labels) > Len(f.domain)
  /\ name.labels = Stem(f, name) \o f.domain
Trimmed(f, name) == IF UnderDomain(f, name) THEN [labels |-> Stem(f, name)] ELSE name

\* The spellings that Remove and Lookup look for, whichever of them is given.
BothForms(f, name) == {Trimmed(f, name), FQDN(f, Trimmed(f, name))}

\* A name of several labels before the domain is none of them: FQDN leaves what remains of
\* a.b.lab without lab as it is, for its dot, and the name that was given is not looked for.
Matched(f, name) == name \in BothForms(f, name)

\* What Set and Remove of a name touch.
Spellings(f, name) == BothForms(f, name) \cup {name}

\* Every spelling of a name has its first label.
FirstLabel(name) == name.labels[1]

Answers(f, name) ==
  {i \in DOMAIN f.entries : \E n \in BothForms(f, name) : Contains(f.entries[i].names, n)}

\* No name of an entry that Lookup finds, in either form, is in another entry.
OneAnswer(f) ==
  \A i, j \in DOMAIN f.entries : i # j =>
    \A n \in ToSet(f.entries[i].names) :
      Matched(f, n) => ToSet(f.entries[j].names) \cap BothForms(f, n) = {}

\* The address of the first entry that answers name.
Lookup(f, name) ==
  IF Answers(f, name) = {} THEN NoAddress ELSE f.entries[Min(Answers(f, name))].ip

\* Every entry without the names in gone.
Stripped(f, gone) ==
  [i \in DOMAIN f.entries |->
     [f.entries[i] EXCEPT !.names = Kept(@, ToSet(@) \ gone)]]

\* Mutant of RemoveName: an entry left without names stays.
RemoveNameKeepsEntry(f, name) ==
  [f EXCEPT !.entries = Stripped(f, BothForms(f, name))]

\* Strip both forms from every entry; an entry left without names goes too.
RemoveName(f, name) ==
  LET entries == Stripped(f, BothForms(f, name))
  IN [f EXCEPT !.entries = Kept(entries, {e \in ToSet(entries) : e.names # <<>>})]

\* The entry Set writes for name: it answers the name as given and, with a domain, qualified.
EntryFor(f, name, ip) ==
  [ip |-> ip, names |-> IF FQDN(f, name) = name THEN <<name>> ELSE <<name, FQDN(f, name)>>]

\* Mutant of SetName: the entries that answered the name before stay.
SetNameAppends(f, name, ip) == [f EXCEPT !.entries = Append(@, EntryFor(f, name, ip))]

\* The entry for name replaces whatever answered it before.
SetName(f, name, ip) ==
  [RemoveName(f, name) EXCEPT !.entries = Append(@, EntryFor(f, name, ip))]

\* Mutant of ClearNames: the domain goes with the entries.
ClearNamesAndDomain(f) == EmptyFile(NoDomain)

ClearNames(f) == [f EXCEPT !.entries = <<>>]

\* services.SetDomain: rebuild each entry from its first name.
Requalify(f, domain) ==
  LET moved[n \in 0 .. Len(f.entries)] ==
        IF n = 0 THEN EmptyFile(domain)
        ELSE SetName(moved[n-1], f.entries[n].names[1], f.entries[n].ip)
  IN moved[Len(f.entries)]
=============================================================================
