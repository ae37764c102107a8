-------------------------------- MODULE Text --------------------------------
(***************************************************************************)
(* The two text formats of gogl at work: the router's host file, which     *)
(* every change of a name reads, edits and writes back whole               *)
(* (src/services/hosts.go), and the host declarations that are imported    *)
(* into the reservations and exported from them                            *)
(* (utilities/internal/reservations/set.go).  Failures and races of the    *)
(* commands are in Inventory, which has both files as records.             *)
(***************************************************************************)
EXTENDS HostText, Declarations

CONSTANTS
  InitTexts,    \* host files the router may have, edited by anybody
  InitDumps,    \* files of declarations somebody wrote: sequences of items
  InitBinds,    \* reservations the router may have, nameless ones as well
  Edits,        \* changes of the host file
  RouterNet     \* the router's network

\* Whichever block of a text comes to be read: its lines have an address first, then names.
Readable(t) ==
  \A i \in DOMAIN t : t[i] = BeginMarker => Managing(ParseHostFile(From(t, i))) \in FileSet

ASSUME TextsAssumption == \A t \in InitTexts : t \in Seq(Tokens) /\ Readable(t)

EditSet ==
  [op : {"set"}, name : NameSet, ip : Nat \ {NoAddress}]
    \cup [op : {"remove"}, name : NameSet] \cup [op : {"clear"}]
    \cup [op : {"domain"}, domain : Domains]

ASSUME EditsAssumption == Edits \subseteq EditSet

VARIABLES
  text,         \* the router's host file
  put,          \* history: the HostFile last written to it
  dump,         \* a file of declarations, item by item
  binds         \* the router's reservations, a sequence

vars == <<text, put, dump, binds>>

NoFile == Unmanaged(<<>>)

Init ==
  /\ put = NoFile
  /\ \/ text \in InitTexts /\ dump = <<>> /\ binds = <<>>
     \/ text = <<>> /\ dump \in InitDumps /\ binds \in InitBinds

-----------------------------------------------------------------------------
(* The host file.                                                          *)

\* Hosts().Set, Remove, Clear and SetDomain on the parsed file; what they turn down.
Refused(e, f) ==
  CASE e.op = "set"    -> f.domain = NoDomain
    [] e.op = "remove" -> Answers(f, e.name) = {}
    [] e.op = "clear"  -> f.entries = <<>>
    [] e.op = "domain" -> FALSE

Edited(e, f) ==
  LET m == Managing(f)
      g == CASE e.op = "set"    -> SetName(m, e.name, e.ip)
             [] e.op = "remove" -> RemoveName(m, e.name)
             [] e.op = "clear"  -> ClearNames(m)
             [] e.op = "domain" -> Requalify(m, e.domain)
  IN [before |-> f.before, after |-> f.after, domain |-> g.domain, entries |-> g.entries]

\* Read, edit, write: Put does not send what the firmware would reject.
Edit(e) ==
  LET f == ParseHostFile(text)  g == Edited(e, f) IN
    /\ ~Refused(e, f) /\ Writable(Render(g))
    /\ text' = Render(g) /\ put' = g
    /\ UNCHANGED <<dump, binds>>

-----------------------------------------------------------------------------
(* The declarations.  An item is a piece of a file that its author takes   *)
(* for one thing, with what it should give: [words, gives].                *)

WordsOf(items) == FlattenSeq([i \in DOMAIN items |-> items[i].words])
GivesOf(items) == FlattenSeq([i \in DOMAIN items |-> items[i].gives])

\* An import with --prune: the file replaces the reservations, or nothing happens.
Import ==
  LET ts == WordsOf(dump) IN
    /\ ValidFile(ts) /\ FitsDevice(ParseHosts(ts), RouterNet)
    /\ binds' = ParseHosts(ts)
    /\ UNCHANGED <<text, put, dump>>

\* An export; its reader expects the reservations back, each with a name.
Export ==
  /\ dump' = [i \in DOMAIN binds |-> LET b == Sorted(binds)[i] IN
                [words |-> HostWords(b), gives |-> <<Declared(NameOf(b), b.mac, b.ip)>>]]
  /\ UNCHANGED <<text, put, binds>>

Next == (\E e \in Edits : Edit(e)) \/ Import \/ Export

Spec == Init /\ [][Next]_vars

-----------------------------------------------------------------------------
(* Properties.                                                             *)

\* What the router itself reads in a host file: address and name of every line, up to
\* a comment, inside and outside of the block.
ServedAt(t, i, j) ==
  /\ "ip" \in DOMAIN t[i] /\ (i = 1 \/ t[i - 1] = Newline)
  /\ i < j /\ \A k \in i .. j : t[k] \notin CommentSigns \cup {Newline}

Served(t) ==
  {<<t[p[1]].ip, t[p[2]]>> : p \in {q \in (1 .. Len(t)) \X (1 .. Len(t)) : ServedAt(t, q[1], q[2])}}

\* The names an edit is about: those it sets or removes; for the others all that gogl
\* manages, of which a change of domain only keeps the first names.
Concerned(e, f) ==
  IF e.op \in {"set", "remove"} THEN BothForms(f, e.name)
  ELSE UNION {ToSet(f.entries[i].names) : i \in DOMAIN f.entries}

\* An edit drops no answer but those it is about, wherever in the file they stand and
\* whatever state the block is in: the loopback lines above all (hosts.go: "overwriting
\* that would break local resolution on the router itself").
AnswersKept ==
  [][\A e \in Edits : LET f == ParseHostFile(text) IN
       text' # text /\ put' = Edited(e, f) =>
         \A a \in Served(text) : a[2] \notin Concerned(e, f) => a \in Served(text')]_vars

\* What one command wrote is what the next one reads: domain, entries and the text on
\* both sides of the block, also when the file it started from was damaged.
ReadBackIsPut ==
  put # NoFile /\ Managed(put) # <<>> =>
    ParseHostFile(text) = [put EXCEPT !.before = Closed(@)]

\* An item whose own braces are right and which is ended; a host block has no others in it.
Whole(ws) ==
  /\ Depth(ws, 1, Len(ws)) = 0 /\ \A i \in DOMAIN ws : Depth(ws, 1, i) >= 0
  /\ Last(ws).text \in {";", "}"}
  /\ Is(ws, 1, "host") => Last(ws).text = "}" /\ Cardinality({i \in DOMAIN ws : Is(ws, i, "{")}) = 1

\* The items before the first that is not whole.
Sound(items) ==
  LET torn == {i \in DOMAIN items : ~Whole(items[i].words)} IN
    IF torn = {} THEN items ELSE SubSeq(items, 1, Min(torn) - 1)

\* Up to the first item whose braces or end are wrong, each gives what its author
\* expects, whatever stands before it: a bad statement, name or value in a closed block
\* is one error and takes no good declaration with it, and an export that is imported
\* gives the reservations back.  Of what follows a block that is not closed, or a brace
\* too many, this says nothing: the parser loses good declarations there.
DeclarationsInSync ==
  LET answers == ParseHosts(WordsOf(dump))  expected == GivesOf(Sound(dump)) IN
    /\ Len(answers) >= Len(expected) /\ (Sound(dump) = dump => Len(answers) = Len(expected))
    /\ \A i \in DOMAIN expected :
         IF expected[i].kind = "host" THEN answers[i] = expected[i] ELSE answers[i].kind = "error"

\* parse.go: ParseHosts returns "every declaration it could parse and every error it
\* found".  A file without errors has lost none of its declarations.
NoneLostSilently ==
  LET answers == ParseHosts(WordsOf(dump)) IN
    Errors(answers) = <<>> => Len(answers) = Len(GivesOf(dump))
=============================================================================
