---------------------------- MODULE Declarations ----------------------------
(***************************************************************************)
(* The host declarations that `gogl lan import` reads and `gogl lan export`*)
(* writes (utilities/internal/reservations: parse.go, format.go and the    *)
(* checks of operations.go), as sequences of words.                        *)
(*                                                                         *)
(* A word is a record [text, ok]: ok tells whether it passes the check of  *)
(* the place where a host's name, MAC or address is expected (types        *)
(* ValidateName, NormalizeMAC, net.ParseIP), which spelling alone decides. *)
(***************************************************************************)
EXTENDS Integers, Sequences, SequencesExt

CONSTANTS
  AddrBits,     \* width of an address
  Number,       \* the number of each spelled address
  NameFor       \* the name that stands for a MAC: colons become dashes

A == INSTANCE Addresses

Word(text) == [text |-> text, ok |-> TRUE]
Is(ts, i, text) == i \in DOMAIN ts /\ ts[i].text = text

\* The first index from i on of one of some words, or the index after the last token.
Next1(ts, i, texts) == Min({j \in i .. Len(ts) : ts[j].text \in texts} \cup {Len(ts) + 1})

Depth(ts, i, j) ==
  Cardinality({k \in i .. j : ts[k].text = "{"}) - Cardinality({k \in i .. j : ts[k].text = "}"})
SkipBalanced(ts, i) == Min({j \in i .. Len(ts) : Depth(ts, i, j) = 0} \cup {Len(ts)}) + 1

SkipDirective(ts, i) ==
  LET j == Next1(ts, i, {";", "{"}) IN
    IF Is(ts, j, "{") THEN SkipBalanced(ts, j) ELSE Min({j, Len(ts)}) + 1

-----------------------------------------------------------------------------
(* One host block: an answer and the index where the parser goes on.       *)

Failed(why) == [kind |-> "error", why |-> why]
Declared(name, mac, ip) == [kind |-> "host", name |-> name, mac |-> mac, ip |-> ip]

\* The statements of a body, cut at the semicolons, and what is left after the last.
Statements(body) ==
  FoldLeft(LAMBDA ss, t : IF t.text = ";" THEN Append(ss, <<>>)
                          ELSE [ss EXCEPT ![Len(ss)] = Append(@, t)],
           << <<>> >>, body)

\* applyStatement: a keyword after the first word means a semicolon is missing.
Unterminated(s) == \E i \in 2 .. Len(s) : s[i].text \in {"hardware", "fixed-address"}
IsHardware(s) == Len(s) = 3 /\ s[1].text = "hardware" /\ s[2].text = "ethernet"
IsAddress(s) == Len(s) = 2 /\ s[1].text = "fixed-address"

\* The last statement of its kind counts.
Value(found) == IF found = <<>> THEN <<>> ELSE <<Last(Last(found))>>

FinishBlock(name, ss) ==
  LET mac == Value(SelectSeq(ss, IsHardware))  ip == Value(SelectSeq(ss, IsAddress)) IN
    CASE mac = <<>> -> Failed("no MAC")
      [] mac # <<>> /\ ip = <<>> -> Failed("no address")
      [] OTHER -> IF name.ok /\ mac[1].ok /\ ip[1].ok
                  THEN Declared(name.text, mac[1].text, ip[1].text)
                  ELSE Failed("bad value")

\* The body of a block that was closed, or not.
BlockAnswer(name, body, closed) ==
  LET ss == Statements(body)  ended == Front(ss) IN
    IF \E i \in DOMAIN ended : Unterminated(ended[i]) THEN Failed("missing semicolon")
    ELSE IF ~closed THEN Failed("unclosed")
    ELSE IF Last(ss) # <<>> THEN Failed("missing semicolon")
    ELSE FinishBlock(name, ended)

\* Mutant of ParseHostBlock: a bad statement is skipped, not the rest of its block.
ParseHostBlockStays(ts, i) ==
  LET close == Next1(ts, i + 3, {"}"})
      answer == BlockAnswer(ts[i + 1], SubSeq(ts, i + 3, close - 1), close <= Len(ts))
  IN IF i = Len(ts) THEN [answer |-> Failed("no name"), next |-> Len(ts) + 1]
     ELSE IF Is(ts, i + 1, "{") THEN [answer |-> Failed("no name"), next |-> SkipBalanced(ts, i + 1)]
     ELSE IF ~Is(ts, i + 2, "{") THEN [answer |-> Failed("no brace"), next |-> i + 2]
     ELSE [answer |-> answer,
           next |-> Min({IF answer.kind = "error" THEN Next1(ts, i, {";"}) ELSE close, Len(ts)}) + 1]

ParseHostBlock(ts, i) ==
  LET close == Next1(ts, i + 3, {"}"}) IN
    IF i = Len(ts) THEN [answer |-> Failed("no name"), next |-> Len(ts) + 1]
    ELSE IF Is(ts, i + 1, "{") THEN [answer |-> Failed("no name"), next |-> SkipBalanced(ts, i + 1)]
    ELSE IF ~Is(ts, i + 2, "{") THEN [answer |-> Failed("no brace"), next |-> i + 2]
    ELSE [answer |-> BlockAnswer(ts[i + 1], SubSeq(ts, i + 3, close - 1), close <= Len(ts)),
          next |-> Min({close, Len(ts)}) + 1]

\* ParseHosts: what every top-level host block of the file gave, in order.
ParseHosts(ts) ==
  LET parse[i \in 1 .. Len(ts) + 1] ==
        IF i > Len(ts) THEN <<>>
        ELSE IF ~Is(ts, i, "host") THEN parse[SkipDirective(ts, i)]
        ELSE LET block == ParseHostBlock(ts, i) IN <<block.answer>> \o parse[block.next]
  IN parse[1]

Errors(answers) == SelectSeq(answers, LAMBDA a : a.kind = "error")

-----------------------------------------------------------------------------
(* The checks of an import, and the export.                                *)

\* findDuplicates: a name, MAC or address that is declared twice is fatal.
Duplicates(ds) ==
  \E i, j \in DOMAIN ds : i < j /\ (ds[i].name = ds[j].name \/ ds[i].mac = ds[j].mac \/ ds[i].ip = ds[j].ip)

\* validateFile: any error refuses the whole file, before the router is asked.
ValidFile(ts) == Errors(ParseHosts(ts)) = <<>> /\ ~Duplicates(ParseHosts(ts))

\* validateAgainstDevice: every address inside the subnet, and not the router's own.
FitsDevice(ds, net) ==
  \A i \in DOMAIN ds : A!NetContains(net, Number[ds[i].ip]) /\ Number[ds[i].ip] # net.ip

\* FormatHosts: one block for each, sorted by address.  The format needs a name.
NameOf(d) == IF d.name = "" THEN NameFor[d.mac] ELSE d.name
HostWords(d) ==
  <<Word("host"), Word(NameOf(d)), Word("{"), Word("hardware"), Word("ethernet"), Word(d.mac),
    Word(";"), Word("fixed-address"), Word(d.ip), Word(";"), Word("}")>>
Sorted(ds) == SortSeq(ds, LAMBDA d, e : Number[d.ip] < Number[e.ip])
=============================================================================
