------------------------------ MODULE HostText ------------------------------
(***************************************************************************)
(* The router's host file as text, and how gogl finds its block in it      *)
(* (src/types/hosts.go).  HostFile has the block as a record; this module  *)
(* has what lies between the two: ParseHostFile and Render.                *)
(*                                                                         *)
(* A text is a sequence of tokens: addresses [ip |-> n], names             *)
(* [labels |-> l], domains [word |-> d], and marks [mark |-> m] for the    *)
(* end of a line, the two marker texts, the keyword of the domain, a       *)
(* comment sign and a character that the firmware rejects.                 *)
(* Spaces and tabs are left out: Fields drops them.                        *)
(***************************************************************************)
EXTENDS HostFile

Newline == [mark |-> "newline"]
BeginMarker == [mark |-> "begin"]      \* "# BEGIN gogl managed hosts"
EndMarker == [mark |-> "end"]          \* "# END gogl managed hosts"
DomainKey == [mark |-> "domain"]
Comment == [mark |-> "comment"]        \* "#", also the first character of both markers
Rejected == [mark |-> "rejected"]      \* one of ( ) =
CommentSigns == {Comment, BeginMarker, EndMarker}

Marks == {Newline, Rejected, DomainKey} \cup CommentSigns
Tokens == Marks \cup [ip : Nat \ {NoAddress}] \cup NameSet \cup [word : Domains]

\* strings.Index: where the first of some tokens is, or 0.
Found(text, tok) == \E i \in DOMAIN text : text[i] = tok
FirstOf(text, S) ==
  LET at == {i \in DOMAIN text : text[i] \in S} IN IF at = {} THEN 0 ELSE Min(at)
First(text, tok) == FirstOf(text, {tok})
UpTo(text, i) == SubSeq(text, 1, i - 1)
From(text, i) == SubSeq(text, i, Len(text))

\* The token after the keyword, if the marker line has both.
ParseDomain(line) ==
  IF \E i \in DOMAIN line : line[i] = DomainKey /\ i < Len(line)
  THEN line[First(line, DomainKey) + 1].word
  ELSE NoDomain

\* The entry of a line, if it has an address and a name before any comment.
Entry(line) ==
  LET sign == FirstOf(line, CommentSigns)
      fields == IF sign = 0 THEN line ELSE UpTo(line, sign)
  IN IF Len(fields) < 2 THEN <<>> ELSE <<[ip |-> fields[1].ip, names |-> Tail(fields)]>>

\* One more token of the block: at the end of a line comes what the line gives.
Reads(r, tok) ==
  IF tok = Newline
  THEN [entries |-> r.entries \o Entry(r.line), line |-> <<>>]
  ELSE [entries |-> r.entries, line |-> Append(r.line, tok)]

\* The entries of the block's lines, the last of which need not be ended.
ParseEntries(block) ==
  LET read[n \in 0 .. Len(block)] ==
        IF n = 0 THEN [entries |-> <<>>, line |-> <<>>] ELSE Reads(read[n-1], block[n])
  IN Reads(read[Len(block)], Newline).entries

\* What HostFile has of a parsed file.
Managing(f) == [domain |-> f.domain, entries |-> f.entries]

Unmanaged(before) == [before |-> before, after |-> <<>>, domain |-> NoDomain, entries |-> <<>>]

\* Mutant of Block: a block without its end marker is taken for an empty one.
BlockDropped(before, domain, rest) ==
  IF ~Found(rest, EndMarker)
  THEN [Unmanaged(before) EXCEPT !.domain = domain]
  ELSE LET tail == From(rest, First(rest, EndMarker)) IN
       [before |-> before, domain |-> domain,
        after |-> IF Found(tail, Newline) THEN From(tail, First(tail, Newline) + 1) ELSE <<>>,
        entries |-> ParseEntries(UpTo(rest, First(rest, EndMarker)))]

\* Mutant of Block: the end of the marker's line is kept with what follows.
BlockKeepsLineEnd(before, domain, rest) ==
  IF ~Found(rest, EndMarker)
  THEN [before |-> before, domain |-> domain, after |-> <<>>, entries |-> ParseEntries(rest)]
  ELSE LET tail == From(rest, First(rest, EndMarker)) IN
       [before |-> before, domain |-> domain,
        after |-> IF Found(tail, Newline) THEN From(tail, First(tail, Newline)) ELSE <<>>,
        entries |-> ParseEntries(UpTo(rest, First(rest, EndMarker)))]

\* The block and what follows it; a block that is not closed reaches to the end.
Block(before, domain, rest) ==
  IF ~Found(rest, EndMarker)
  THEN [before |-> before, domain |-> domain, after |-> <<>>, entries |-> ParseEntries(rest)]
  ELSE LET tail == From(rest, First(rest, EndMarker)) IN
       [before |-> before, domain |-> domain,
        after |-> IF Found(tail, Newline) THEN From(tail, First(tail, Newline) + 1) ELSE <<>>,
        entries |-> ParseEntries(UpTo(rest, First(rest, EndMarker)))]

ParseHostFile(raw) ==
  LET begin == First(raw, BeginMarker)
      rest  == From(raw, begin)
      nl    == First(rest, Newline)
  IN IF begin = 0 THEN Unmanaged(raw)
     ELSE IF nl = 0 THEN [Unmanaged(UpTo(raw, begin)) EXCEPT !.domain = ParseDomain(rest)]
     ELSE Block(UpTo(raw, begin), ParseDomain(UpTo(rest, nl)), From(rest, nl + 1))

\* The text before the block, ended by a line end.
Closed(before) ==
  IF before = <<>> \/ Last(before) = Newline THEN before ELSE Append(before, Newline)

EntryLine(e) == <<[ip |-> e.ip]>> \o e.names \o <<Newline>>

EntryLines(entries) ==
  LET written[n \in 0 .. Len(entries)] ==
        IF n = 0 THEN <<>> ELSE written[n-1] \o EntryLine(entries[n])
  IN written[Len(entries)]

Opening(domain) ==
  IF domain = NoDomain
  THEN <<BeginMarker, Newline>>
  ELSE <<BeginMarker, DomainKey, [word |-> domain], Newline>>

Managed(f) ==
  IF f.domain = NoDomain /\ f.entries = <<>> THEN <<>>
  ELSE Opening(f.domain) \o EntryLines(f.entries) \o <<EndMarker, Newline>>

Render(f) == Closed(f.before) \o Managed(f) \o f.after

\* ValidateContent: the firmware's characters, anywhere in the file.
Writable(text) == ~Found(text, Rejected)
=============================================================================
