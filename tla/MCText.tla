------------------------------- MODULE MCText -------------------------------
(* Host files of up to four lines and declaration files of up to three     *)
(* items, put together from lines and items that occur.                    *)
EXTENDS Text

Ip(n) == [ip |-> n]
Name(host) == BareName(host)
Full(host, suffix) == [labels |-> <<host, suffix>>]
Deep == [labels |-> <<"a", "tv", "lab">>]      \* two labels before the domain
Line(toks) == Append(toks, Newline)

MarkerLine == Line(<<BeginMarker, DomainKey, [word |-> <<"lab">>]>>)
SomeLines ==
  {Line(<<Ip(1), Name("localhost")>>), Line(<<Ip(2), Name("nas"), Full("nas", "lab")>>),
   Line(<<Ip(3), Name("tv"), Deep, Comment, Name("old")>>), Line(<<Comment, Ip(4), Name("off")>>),
   Line(<<BeginMarker>>), Line(<<EndMarker>>)}

\* A text of lines around a marker line, the last of them ended or cut off.
CutOff(t) == IF t = <<>> THEN t ELSE Front(t)
Texts(before, after) == {b \o m \o a : b \in before, m \in {<<>>, MarkerLine}, a \in after}
LineSeqs(n) == UNION {{FlattenSeq(s) : s \in [1 .. k -> SomeLines]} : k \in 0 .. n}
SomeTexts ==
  LET whole == Texts(LineSeqs(1), LineSeqs(2)) IN
    whole \cup {CutOff(t) : t \in whole}
      \cup {CutOff(b) \o a : b \in LineSeqs(1) \ {<<>>}, a \in Texts({<<>>}, LineSeqs(1))}
      \cup {Line(<<Comment, Rejected>>) \o MarkerLine}

SomeEdits ==
  {[op |-> "set", name |-> n, ip |-> Ip(5).ip] : n \in {Name("nas"), Full("tv", "lab")}}
    \cup {[op |-> "remove", name |-> Full("nas", "lab")], [op |-> "clear"]}
    \cup {[op |-> "domain", domain |-> d] : d \in {<<"lab">>, <<"home">>}}

-----------------------------------------------------------------------------
Host(n, m, a) == [kind |-> "host", name |-> n, mac |-> m, ip |-> a]
Error == [kind |-> "error"]
BadWord(spelling) == [text |-> spelling, ok |-> FALSE]
W(s) == [i \in DOMAIN s |-> Word(s[i])]
Hw(m) == W(<<"hardware", "ethernet", m, ";">>)
Fa(a) == W(<<"fixed-address", a, ";">>)
Item(words, gives) == [words |-> words, gives |-> gives]
Good(n, m, a) == Item(W(<<"host", n, "{">>) \o Hw(m) \o Fa(a) \o W(<<"}">>), <<Host(n, m, a)>>)

GoodItems ==
  {Good("a", "m1", "ip2"), Good("b", "m2", "ip3"), Good("c", "m3", "ip9"), Good("host", "m1", "ip4"),
   Item(W(<<"host", "d", "{", "option", "x", ";">>) \o Fa("ip5") \o Fa("ip6") \o Hw("m4") \o W(<<"}">>),
        <<Host("d", "m4", "ip6")>>)}
OtherItems ==
  {Item(W(<<"authoritative", ";">>), <<>>),
   Item(W(<<"subnet", "{", "pool", "{", "range", ";", "}", "host", "a", "{", "}", "}">>), <<>>)}
BadItems ==
  {Item(W(<<"host", "e", "{">>) \o CutOff(Hw("m1")) \o Fa("ip2") \o W(<<"}">>), <<Error>>),
   Item(W(<<"host", "f", "{">>) \o Hw("m1") \o CutOff(Fa("ip2")) \o W(<<"}">>), <<Error>>),
   Item(W(<<"host", "{">>) \o Hw("m1") \o W(<<"}">>), <<Error>>),
   Item(W(<<"host", "g", "{">>) \o Hw("m1") \o W(<<"}">>), <<Error>>),
   Item(W(<<"host", "h", "{">>) \o <<Word("hardware"), Word("ethernet"), BadWord("zz"), Word(";")>>
          \o Fa("ip2") \o W(<<"}">>), <<Error>>)}
\* What is torn: a block not closed, not opened, or with braces in it; a directive not ended.
TornItems ==
  {Item(W(<<"host", "t", "{">>) \o Hw("m1") \o Fa("ip2"), <<Error>>),
   Item(W(<<"host", "u">>) \o Hw("m1") \o Fa("ip2") \o W(<<"}">>), <<Error>>),
   Item(W(<<"host", "v", "{">>) \o Hw("m1") \o Fa("ip2") \o W(<<"if", "{", "x", ";", "}", "}">>),
        <<Host("v", "m1", "ip2")>>),
   Item(W(<<"authoritative">>), <<>>)}
StrayBrace == Item(W(<<"}">>), <<>>)

Seqs(S, n) == UNION {[1 .. k -> S] : k \in 0 .. n}
SomeDumps ==
  Seqs(GoodItems \cup OtherItems \cup BadItems \cup TornItems, 2)
    \cup {<<x, y, Good("b", "m2", "ip3")>> : x, y \in OtherItems \cup BadItems \cup TornItems}
BracedDumps == Seqs(GoodItems \cup {StrayBrace}, 2)
NoTexts == {<<>>}

\* The router's reservations: none; two, one of them without a name.
SomeBinds == {<<>>, <<Host("z", "m3", "ip6"), Host("", "m1", "ip2")>>}

Numbers == [a \in {"ip2", "ip3", "ip4", "ip5", "ip6", "ip9"} |->
  CASE a = "ip2" -> 2 [] a = "ip3" -> 3 [] a = "ip4" -> 4 [] a = "ip5" -> 5 [] a = "ip6" -> 6 [] a = "ip9" -> 9]
Names == [m \in {"m1", "m2", "m3", "m4"} |-> IF m = "m1" THEN "m-1" ELSE m]
Lan == [ip |-> 1, mask |-> 3, start |-> 3, stop |-> 4, on |-> TRUE]
=============================================================================
