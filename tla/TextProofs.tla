----------------------------- MODULE TextProofs -----------------------------
(***************************************************************************)
(* Proofs about the host file of Text, for every text and every edit: what *)
(* is written is read back, and an edit drops no answer it is not about.   *)
(*                                                                         *)
(* The parser is a loop over tokens, so what it has read after each is     *)
(* stated as an invariant of the loop: of a text that was written, the     *)
(* entries of its lines so far (LinesStand); of any text, an entry for     *)
(* each answer of its lines so far (ReadSoFar).  The invariant of Text is  *)
(* TextInv: whichever begin marker comes to be the first one, what is      *)
(* behind it is a block of addresses and names.  It has to be said of all  *)
(* of them, since writing a block that was not closed, or dropping an      *)
(* empty one, lets the next one be read.                                   *)
(***************************************************************************)
EXTENDS Text, HostFileProofs

-----------------------------------------------------------------------------
(* Positions in a text.                                                    *)

\* Strings.Index: the first position that holds one of the tokens, if there is any.
LEMMA FirstOfIs ==
  ASSUME NEW T, NEW s \in Seq(T), NEW S
  PROVE  /\ FirstOf(s, S) \in 0 .. Len(s)
         /\ FirstOf(s, S) = 0 => \A i \in 1 .. Len(s) : s[i] \notin S
         /\ FirstOf(s, S) # 0 => /\ s[FirstOf(s, S)] \in S
                                 /\ \A i \in 1 .. FirstOf(s, S) - 1 : s[i] \notin S
<1> DEFINE at == {i \in DOMAIN s : s[i] \in S}
<1>1. DOMAIN s = 1 .. Len(s) /\ Len(s) \in Nat /\ at \in SUBSET (1 .. Len(s))
  OBVIOUS
<1>2. FirstOf(s, S) = IF at = {} THEN 0 ELSE Min(at)
  BY DEF FirstOf
<1>3. at # {} => Min(at) \in at /\ \A y \in at : Min(at) <= y
  <2> HIDE DEF at
  <2>1. QED
    BY <1>1, MinOf
<1>4. CASE at = {}
  <2>1. \A i \in 1 .. Len(s) : s[i] \notin S
    BY <1>1, <1>4
  <2>2. QED
    BY <1>1, <1>2, <1>4, <2>1
<1>5. CASE at # {}
  <2> DEFINE m == FirstOf(s, S)
  <2>1. m \in at /\ \A y \in at : m <= y
    BY <1>2, <1>3, <1>5
  <2> HIDE DEF m
  <2>2. m \in 1 .. Len(s) /\ s[m] \in S
    BY <1>1, <2>1
  <2>3. ASSUME NEW i \in 1 .. m - 1 PROVE s[i] \notin S
    BY <1>1, <2>1, <2>2
  <2> HIDE DEF at
  <2>4. QED
    BY <1>1, <2>2, <2>3 DEF m
<1>6. QED
  BY <1>4, <1>5

\* It is the only position before which there is none.
LEMMA FirstOfAt ==
  ASSUME NEW T, NEW s \in Seq(T), NEW S, NEW k \in 1 .. Len(s),
         s[k] \in S, \A i \in 1 .. k - 1 : s[i] \notin S
  PROVE  FirstOf(s, S) = k
<1> DEFINE f == FirstOf(s, S)
<1>1. /\ f \in 0 .. Len(s) /\ k \in Int /\ Len(s) \in Nat
      /\ f = 0 => \A i \in 1 .. Len(s) : s[i] \notin S
      /\ f # 0 => s[f] \in S /\ \A i \in 1 .. f - 1 : s[i] \notin S
  BY FirstOfIs
<1> HIDE DEF f
<1>2. f # 0
  BY <1>1
<1>3. ~(f < k)
  BY <1>1, <1>2
<1>4. ~(k < f)
  BY <1>1, <1>2
<1>5. QED
  BY <1>1, <1>3, <1>4 DEF f

\* None is found where none is.
LEMMA FirstOfNone ==
  ASSUME NEW T, NEW s \in Seq(T), NEW S, \A i \in 1 .. Len(s) : s[i] \notin S
  PROVE  FirstOf(s, S) = 0
<1>1. /\ FirstOf(s, S) \in 0 .. Len(s)
      /\ FirstOf(s, S) # 0 => s[FirstOf(s, S)] \in S
  BY FirstOfIs
<1>2. QED
  BY <1>1

\* Two parts of a text, and the text they are parts of.
LEMMA Halves ==
  ASSUME NEW T, NEW a \in Seq(T), NEW b \in Seq(T)
  PROVE  /\ a \o b \in Seq(T) /\ Len(a \o b) = Len(a) + Len(b)
         /\ \A i \in 1 .. Len(a) : (a \o b)[i] = a[i]
         /\ \A i \in 1 .. Len(b) : (a \o b)[Len(a) + i] = b[i]
         /\ UpTo(a \o b, Len(a) + 1) = a
         /\ From(a \o b, Len(a) + 1) = b
  BY DEF UpTo, From

\* A position of a text is one of the first part or of the second.
LEMMA HalfOf ==
  ASSUME NEW T, NEW a \in Seq(T), NEW b \in Seq(T), NEW i \in 1 .. Len(a \o b)
  PROVE  \/ i \in 1 .. Len(a)
         \/ i - Len(a) \in 1 .. Len(b) /\ (a \o b)[i] = b[i - Len(a)]
  OBVIOUS

\* A text is its two parts.
LEMMA Parts ==
  ASSUME NEW T, NEW s \in Seq(T), NEW i \in 1 .. Len(s) + 1
  PROVE  /\ UpTo(s, i) \in Seq(T) /\ Len(UpTo(s, i)) = i - 1
         /\ From(s, i) \in Seq(T) /\ Len(From(s, i)) = Len(s) - i + 1
         /\ \A j \in 1 .. i - 1 : UpTo(s, i)[j] = s[j]
         /\ \A j \in 1 .. Len(s) - i + 1 : From(s, i)[j] = s[i + j - 1]
         /\ UpTo(s, i) \o From(s, i) = s
<1> DEFINE a == UpTo(s, i)
           b == From(s, i)
<1>1. Len(s) \in Nat /\ i \in Nat \ {0}
  OBVIOUS
<1>2. a \in Seq(T) /\ Len(a) = i - 1 /\ \A j \in 1 .. i - 1 : a[j] = s[j]
  BY DEF UpTo
<1>3. /\ b \in Seq(T) /\ Len(b) = Len(s) - i + 1
      /\ \A j \in 1 .. Len(s) - i + 1 : b[j] = s[i + j - 1]
  BY DEF From
<1>4. a \o b = s
  <2>1. i \in 1 .. Len(s) + 1 /\ i - 1 \in 1 - 1 .. Len(s) /\ 1 \in 1 .. Len(s) + 1
    BY <1>1
  <2>2. Len(s) \in i - 1 .. Len(s) /\ (i - 1) + 1 = i
    BY <1>1
  <2>3. SubSeq(s, 1, i - 1) \o SubSeq(s, (i - 1) + 1, Len(s)) = SubSeq(s, 1, Len(s))
    BY <2>1, <2>2, ConcatAdjacentSubSeq
  <2>4. QED
    BY <2>2, <2>3, SubSeqFull DEF UpTo, From
<1> HIDE DEF a, b
<1>5. QED
  BY <1>2, <1>3, <1>4 DEF a, b

\* A part of what follows is a part of the text.
LEMMA FromFrom ==
  ASSUME NEW T, NEW s \in Seq(T), NEW i \in 1 .. Len(s) + 1, NEW j \in 1 .. Len(From(s, i)) + 1
  PROVE  i + j - 1 \in 1 .. Len(s) + 1 /\ From(From(s, i), j) = From(s, i + j - 1)
  BY DEF From

\* Marks are neither addresses nor names nor domains, and all differ.
LEMMA MarksDiffer ==
  /\ Newline # BeginMarker /\ Newline # EndMarker /\ BeginMarker # EndMarker
  /\ DomainKey \notin CommentSigns \cup {Newline} /\ Newline \notin CommentSigns
  /\ \A n \in NameSet : n \notin Marks
  /\ \A x : [ip |-> x] \notin Marks /\ [word |-> x] \notin Marks
<1>1. \A x, m : DOMAIN [ip |-> x] # DOMAIN [mark |-> m] /\ DOMAIN [word |-> x] # DOMAIN [mark |-> m]
  OBVIOUS
<1>2. \A n \in NameSet : \A m : DOMAIN n # DOMAIN [mark |-> m]
  BY DEF NameSet
<1>3. \A x \in Marks : \E m : x = [mark |-> m]
  BY DEF Marks, CommentSigns, Newline, BeginMarker, EndMarker, DomainKey, Comment, Rejected
<1>4. \A x, y : [mark |-> x] = [mark |-> y] => x = y
  OBVIOUS
<1>5. /\ Newline # BeginMarker /\ Newline # EndMarker /\ BeginMarker # EndMarker
      /\ DomainKey \notin CommentSigns \cup {Newline} /\ Newline \notin CommentSigns
  BY <1>4 DEF CommentSigns, Newline, BeginMarker, EndMarker, DomainKey, Comment, Rejected
<1>6. QED
  BY <1>1, <1>2, <1>3, <1>5

-----------------------------------------------------------------------------
(* Writing the lines of a block and reading them.                          *)

\* What lines of tokens give.
Gives == UNION {ToSet(Entry(l)) : l \in Seq(Tokens)}

\* A line gives at most one entry.
LEMMA EntryGives ==
  ASSUME NEW l \in Seq(Tokens)
  PROVE  Entry(l) \in Seq(Gives)
<1>1. \A x \in ToSet(Entry(l)) : x \in Gives
  BY DEF Gives
<1>2. Entry(l) = <<>> \/ \E x : Entry(l) = <<x>>
  BY DEF Entry
<1>3. ASSUME NEW x, Entry(l) = <<x>> PROVE x \in ToSet(Entry(l))
  BY <1>3 DEF ToSet
<1>4. \A x \in Gives : <<x>> \in Seq(Gives)
  OBVIOUS
<1>5. <<>> \in Seq(Gives)
  OBVIOUS
<1>6. CASE \E x : Entry(l) = <<x>>
  <2>1. PICK x : Entry(l) = <<x>>
    BY <1>6
  <2>2. x \in Gives
    BY <1>1, <1>3, <2>1
  <2>3. QED
    BY <1>4, <2>1, <2>2
<1>7. QED
  BY <1>2, <1>5, <1>6

ReadSet == [entries : Seq(Gives), line : Seq(Tokens)]
NothingRead == [entries |-> <<>>, line |-> <<>>]

\* Reading goes from one of these records to another.
LEMMA ReadsType ==
  /\ NothingRead \in ReadSet
  /\ \A r \in ReadSet, tok \in Tokens : Reads(r, tok) \in ReadSet
<1>1. NothingRead \in ReadSet
  BY DEF NothingRead, ReadSet
<1>2. ASSUME NEW r \in ReadSet, NEW tok \in Tokens PROVE Reads(r, tok) \in ReadSet
  <2>1. r.entries \in Seq(Gives) /\ r.line \in Seq(Tokens)
    BY DEF ReadSet
  <2>2. r.entries \o Entry(r.line) \in Seq(Gives)
    BY <2>1, EntryGives
  <2>3. Append(r.line, tok) \in Seq(Tokens)
    BY <2>1
  <2>4. QED
    BY <2>1, <2>2, <2>3 DEF Reads, ReadSet
<1>3. QED
  BY <1>1, <1>2

\* Within a line the token is noted, at its end the line is.
LEMMA ReadsOf ==
  ASSUME NEW es, NEW line, NEW tok, NEW r, r = [entries |-> es, line |-> line]
  PROVE  /\ tok # Newline => Reads(r, tok) = [entries |-> es, line |-> Append(line, tok)]
         /\ Reads(r, Newline) = [entries |-> es \o Entry(line), line |-> <<>>]
<1>1. r.entries = es /\ r.line = line
  OBVIOUS
<1>2. QED
  BY <1>1, Zenon DEF Reads

ReadPrefixes(read, block) ==
  /\ read \in [0 .. Len(block) -> ReadSet]
  /\ read[0] = NothingRead
  /\ \A n \in 1 .. Len(block) : read[n] = Reads(read[n-1], block[n])
  /\ ParseEntries(block) = Reads(read[Len(block)], Newline).entries

\* What the prefixes of a block give is what the equations of ParseEntries say.
LEMMA ReadRecursion ==
  ASSUME NEW block \in Seq(Tokens)
  PROVE  \E read : ReadPrefixes(read, block)
<1> DEFINE N == Len(block)
           G == [i \in 1 .. N |-> [x \in ReadSet |-> Reads(x, block[i])]]
<1>1. N \in Nat /\ \A i \in 1 .. N : block[i] \in Tokens
  OBVIOUS
<1>2. G \in [1 .. N -> [ReadSet -> ReadSet]]
  BY <1>1, ReadsType
<1>3. \A i \in 1 .. N, x \in ReadSet : G[i][x] = Reads(x, block[i])
  OBVIOUS
<1>4. Iterable(N, ReadSet, NothingRead, G)
  <2> HIDE DEF N, G
  <2>1. QED
    BY <1>1, <1>2, ReadsType, Recursion
<1>5. PICK f \in [0 .. N -> ReadSet] :
        f[0] = NothingRead /\ \A i \in 1 .. N : f[i] = Reads(f[i-1], block[i])
  <2>1. PICK f \in [0 .. N -> ReadSet] : f[0] = NothingRead /\ \A i \in 1 .. N : f[i] = G[i][f[i-1]]
    BY <1>4 DEF Iterable
  <2> HIDE DEF G
  <2>2. \A i \in 1 .. N : f[i-1] \in ReadSet
    BY <1>1
  <2>3. QED
    BY <1>3, <2>1, <2>2
<1> HIDE DEF G
<1>6. f = [n \in 0 .. N |-> IF n = 0 THEN NothingRead ELSE Reads(f[n-1], block[n])]
  <2>1. \A n \in 0 .. N : n = 0 \/ n \in 1 .. N
    BY <1>1
  <2>2. QED
    BY <1>5, <2>1
<1> DEFINE read[n \in 0 .. Len(block)] ==
        IF n = 0 THEN [entries |-> <<>>, line |-> <<>>] ELSE Reads(read[n-1], block[n])
<1>7. read = [n \in 0 .. N |-> IF n = 0 THEN NothingRead ELSE Reads(read[n-1], block[n])]
  <2>1. \E g : g = [n \in 0 .. N |-> IF n = 0 THEN NothingRead ELSE Reads(g[n-1], block[n])]
    BY <1>6
  <2>2. QED
    BY <2>1, Zenon DEF NothingRead
<1>8. ParseEntries(block) = Reads(read[Len(block)], Newline).entries
  BY Zenon DEF ParseEntries
<1> HIDE DEF read, N
<1>9. read[0] = NothingRead
  <2>1. 0 \in 0 .. N
    BY <1>1
  <2>2. QED
    BY <1>7, <2>1, Zenon
<1>10. ASSUME NEW n \in 1 .. N PROVE read[n] = Reads(read[n-1], block[n])
  <2>1. n \in 0 .. N /\ n # 0
    BY <1>1
  <2>2. QED
    BY <1>7, <2>1, Zenon
<1> DEFINE P == {n \in 0 .. N : \A j \in 0 .. n : read[j] \in ReadSet}
<1>11. N \in P
  <2>1. 0 \in P
    BY <1>1, <1>9, ReadsType
  <2>2. ASSUME NEW n \in P, n # N PROVE n + 1 \in P
    <3>1. n + 1 \in 1 .. N /\ n + 1 \in 0 .. N /\ (n + 1) - 1 = n /\ n \in 0 .. n
      BY <1>1, <2>2
    <3>2. read[n] \in ReadSet /\ block[n+1] \in Tokens
      BY <1>1, <3>1
    <3>3. read[n+1] \in ReadSet
      BY <1>10, <3>1, <3>2, ReadsType
    <3>4. \A j \in 0 .. n + 1 : j \in 0 .. n \/ j = n + 1
      BY <1>1, <3>1
    <3>5. QED
      BY <3>1, <3>3, <3>4
  <2>3. P \in SUBSET (0 .. N)
    OBVIOUS
  <2> HIDE DEF P
  <2>4. QED
    BY <1>1, <2>1, <2>2, <2>3, Induction
<1>12. read \in [0 .. N -> ReadSet]
  <2>1. read = [n \in 0 .. N |-> read[n]]
    BY <1>7, Zenon
  <2>2. \A n \in 0 .. N : read[n] \in ReadSet
    BY <1>11
  <2>3. QED
    BY <2>1, <2>2
<1>13. ReadPrefixes(read, block)
  BY <1>8, <1>9, <1>10, <1>12 DEF ReadPrefixes, N
<1>14. QED
  BY <1>13

\* An entry's line is its address, its names and the end of the line, and gives the entry.
LEMMA EntryLineOf ==
  ASSUME NEW e \in EntrySet
  PROVE  /\ EntryLine(e) \in Seq(Tokens) /\ Len(EntryLine(e)) = Len(e.names) + 2
         /\ Len(e.names) \in Nat \ {0}
         /\ EntryLine(e)[1] = [ip |-> e.ip]
         /\ \A i \in 1 .. Len(e.names) : EntryLine(e)[i + 1] = e.names[i]
         /\ EntryLine(e)[Len(e.names) + 2] = Newline
         /\ \A i \in 1 .. Len(e.names) + 1 : EntryLine(e)[i] \notin Marks
         /\ Entry(SubSeq(EntryLine(e), 1, Len(e.names) + 1)) = <<e>>
<1> DEFINE names == e.names
           m == Len(names)
           l == EntryLine(e)
           head == <<[ip |-> e.ip]>>
           end == <<Newline>>
<1>1. e.ip \in Nat \ {NoAddress} /\ names \in Seq(NameSet) /\ names # <<>>
  BY DEF EntrySet
<1>2. m \in Nat \ {0} /\ e = [ip |-> e.ip, names |-> names]
  BY <1>1 DEF EntrySet
<1>3. /\ [ip |-> e.ip] \in Tokens /\ Newline \in Tokens
      /\ \A i \in 1 .. m : names[i] \in NameSet /\ names[i] \in Tokens
  BY <1>1 DEF Tokens, Marks
<1>4. names \in Seq(Tokens)
  <2>1. NameSet \subseteq Tokens
    BY DEF Tokens
  <2>2. QED
    BY <1>1, <2>1, SeqMonotonic
<1>5. l = (head \o names) \o end /\ head \in Seq(Tokens) /\ end \in Seq(Tokens)
  BY <1>3 DEF EntryLine
<1> HIDE DEF names, l
<1>6. /\ head \o names \in Seq(Tokens) /\ Len(head \o names) = m + 1
      /\ (head \o names)[1] = [ip |-> e.ip]
      /\ \A i \in 1 .. m : (head \o names)[i + 1] = names[i]
  BY <1>2, <1>4, <1>5
<1> DEFINE w == head \o names
<1> HIDE DEF w, head
<1>7. /\ l \in Seq(Tokens) /\ Len(l) = m + 2 /\ l[m + 2] = Newline
      /\ \A i \in 1 .. m + 1 : l[i] = w[i]
  BY <1>2, <1>5, <1>6 DEF w
<1>8. /\ l[1] = [ip |-> e.ip]
      /\ \A i \in 1 .. m : l[i + 1] = names[i]
  <2>1. 1 \in 1 .. m + 1 /\ \A i \in 1 .. m : i + 1 \in 1 .. m + 1
    BY <1>2
  <2> HIDE DEF m
  <2>2. w[1] = [ip |-> e.ip] /\ \A i \in 1 .. m : w[i + 1] = names[i]
    BY <1>6 DEF w
  <2>3. l[1] = w[1]
    BY <1>7, <2>1
  <2>4. ASSUME NEW i \in 1 .. m PROVE l[i + 1] = names[i]
    <3>1. l[i + 1] = w[i + 1]
      BY <1>7, <2>1
    <3>2. QED
      BY <2>2, <3>1
  <2>5. QED
    BY <2>2, <2>3, <2>4
<1>9. ASSUME NEW i \in 1 .. m + 1 PROVE l[i] \notin Marks
  <2>1. CASE i = 1
    BY <1>8, <2>1, MarksDiffer
  <2>2. CASE i # 1
    <3>1. i - 1 \in 1 .. m /\ (i - 1) + 1 = i
      BY <1>2, <2>2
    <3>2. l[i] = names[i - 1] /\ names[i - 1] \in NameSet
      BY <1>3, <1>8, <3>1
    <3>3. QED
      BY <3>2, MarksDiffer
  <2>3. QED
    BY <2>1, <2>2
<1>10. Entry(SubSeq(l, 1, m + 1)) = <<e>>
  <2> DEFINE s == SubSeq(l, 1, m + 1)
  <2>1. s = w
    <3>1. /\ s \in Seq(Tokens) /\ Len(s) = m + 1
          /\ \A i \in 1 .. m + 1 : s[i] = l[i]
      BY <1>2, <1>7
    <3> HIDE DEF s
    <3>2. QED
      BY <1>6, <1>7, <3>1, SeqEqual DEF w
  <2>2. w \in Seq(Tokens) /\ Len(w) = m + 1 /\ \A i \in 1 .. Len(w) : w[i] \notin CommentSigns
    BY <1>2, <1>6, <1>7, <1>9 DEF w, Marks
  <2>3. FirstOf(w, CommentSigns) = 0
    BY <2>2, FirstOfNone
  <2>4. Tail(w) = names
    <3>1. /\ Tail(w) \in Seq(Tokens) /\ Len(Tail(w)) = m
          /\ \A i \in 1 .. m : Tail(w)[i] = w[i + 1]
      BY <1>2, <2>2
    <3>2. QED
      BY <1>4, <1>6, <3>1, SeqEqual DEF w
  <2>5. w[1].ip = e.ip /\ ~(Len(w) < 2)
    BY <1>2, <1>6 DEF w
  <2> HIDE DEF s, m
  <2>6. Entry(w) = <<[ip |-> w[1].ip, names |-> Tail(w)]>>
    BY <2>3, <2>5 DEF Entry
  <2>7. QED
    BY <1>2, <2>1, <2>4, <2>5, <2>6 DEF s
<1>11. QED
  BY <1>2, <1>7, <1>8, <1>9, <1>10 DEF names, l

\* The lines of some entries are texts.
LEMMA LineOfEntries ==
  ASSUME NEW entries \in Seq(EntrySet)
  PROVE  /\ Len(entries) \in Nat
         /\ \A i \in 1 .. Len(entries) :
              entries[i] \in EntrySet /\ EntryLine(entries[i]) \in Seq(Tokens)
<1>1. Len(entries) \in Nat /\ \A i \in 1 .. Len(entries) : entries[i] \in EntrySet
  OBVIOUS
<1>2. QED
  BY <1>1, EntryLineOf

LinePrefixes(written, entries) ==
  /\ written \in [0 .. Len(entries) -> Seq(Tokens)]
  /\ written[0] = <<>>
  /\ \A n \in 1 .. Len(entries) : written[n] = written[n-1] \o EntryLine(entries[n])
  /\ EntryLines(entries) = written[Len(entries)]

\* The lines that have been written for a prefix of the entries are what the equations of
\* EntryLines say.
LEMMA LinesRecursion ==
  ASSUME NEW entries \in Seq(EntrySet)
  PROVE  \E written : LinePrefixes(written, entries)
<1> DEFINE N == Len(entries)
           X == Seq(Tokens)
           base == <<>>
           G == [i \in 1 .. N |-> [x \in X |-> x \o EntryLine(entries[i])]]
<1>1. N \in Nat /\ base \in X /\ \A i \in 1 .. N : EntryLine(entries[i]) \in X
  BY LineOfEntries
<1>2. G \in [1 .. N -> [X -> X]]
  BY <1>1
<1>3. \A i \in 1 .. N, x \in X : G[i][x] = x \o EntryLine(entries[i])
  OBVIOUS
<1>4. Iterable(N, X, base, G)
  <2> HIDE DEF N, G, X, base
  <2>1. QED
    BY <1>1, <1>2, Recursion
<1>5. PICK f \in [0 .. N -> X] :
        f[0] = base /\ \A i \in 1 .. N : f[i] = f[i-1] \o EntryLine(entries[i])
  <2>1. PICK f \in [0 .. N -> X] : f[0] = base /\ \A i \in 1 .. N : f[i] = G[i][f[i-1]]
    BY <1>4 DEF Iterable
  <2> HIDE DEF G, X
  <2>2. \A i \in 1 .. N : f[i-1] \in X
    BY <1>1
  <2>3. QED
    BY <1>3, <2>1, <2>2
<1> HIDE DEF G, X
<1>6. f = [n \in 0 .. N |-> IF n = 0 THEN <<>> ELSE f[n-1] \o EntryLine(entries[n])]
  <2>1. \A n \in 0 .. N : n = 0 \/ n \in 1 .. N
    BY <1>1
  <2>2. QED
    BY <1>5, <2>1
<1> DEFINE written[n \in 0 .. Len(entries)] ==
        IF n = 0 THEN <<>> ELSE written[n-1] \o EntryLine(entries[n])
<1>7. written = [n \in 0 .. N |-> IF n = 0 THEN <<>> ELSE written[n-1] \o EntryLine(entries[n])]
  <2>1. \E g : g = [n \in 0 .. N |-> IF n = 0 THEN <<>> ELSE g[n-1] \o EntryLine(entries[n])]
    BY <1>6
  <2>2. QED
    BY <2>1, Zenon
<1>8. EntryLines(entries) = written[Len(entries)]
  BY Zenon DEF EntryLines
<1> HIDE DEF written, N
<1>9. written[0] = <<>>
  <2>1. 0 \in 0 .. N
    BY <1>1
  <2>2. QED
    BY <1>7, <2>1, Zenon
<1>10. ASSUME NEW n \in 1 .. N PROVE written[n] = written[n-1] \o EntryLine(entries[n])
  <2>1. n \in 0 .. N /\ n # 0
    BY <1>1
  <2>2. QED
    BY <1>7, <2>1, Zenon
<1> DEFINE P == {n \in 0 .. N : \A j \in 0 .. n : written[j] \in X}
<1>11. N \in P
  <2>1. 0 \in P
    BY <1>1, <1>9 DEF base
  <2>2. ASSUME NEW n \in P, n # N PROVE n + 1 \in P
    <3>1. n + 1 \in 1 .. N /\ n + 1 \in 0 .. N /\ (n + 1) - 1 = n /\ n \in 0 .. n
      BY <1>1, <2>2
    <3>2. written[n] \in X /\ EntryLine(entries[n+1]) \in X
      BY <1>1, <3>1
    <3>3. written[n+1] \in X
      <4>1. written[n+1] = written[n] \o EntryLine(entries[n+1])
        BY <1>10, <3>1
      <4>2. QED
        BY <3>2, <4>1 DEF X
    <3>4. \A j \in 0 .. n + 1 : j \in 0 .. n \/ j = n + 1
      BY <1>1, <3>1
    <3>5. QED
      BY <3>1, <3>3, <3>4
  <2>3. P \in SUBSET (0 .. N)
    OBVIOUS
  <2> HIDE DEF P
  <2>4. QED
    BY <1>1, <2>1, <2>2, <2>3, Induction
<1>12. written \in [0 .. N -> X]
  <2>1. written = [n \in 0 .. N |-> written[n]]
    BY <1>7, Zenon
  <2>2. \A n \in 0 .. N : written[n] \in X
    BY <1>11
  <2>3. QED
    BY <2>1, <2>2
<1>13. LinePrefixes(written, entries)
  BY <1>8, <1>9, <1>10, <1>12 DEF LinePrefixes, N, X
<1>14. QED
  BY <1>13

LinesStanding(written, entries, block) ==
  /\ block \in Seq(Tokens)
  /\ \A n \in 0 .. Len(entries) : Len(written[n]) \in 0 .. Len(block)
  /\ \A n \in 1 .. Len(entries) :
       /\ Len(written[n]) = Len(written[n-1]) + Len(EntryLine(entries[n]))
       /\ \A i \in 1 .. Len(EntryLine(entries[n])) :
            block[Len(written[n-1]) + i] = EntryLine(entries[n])[i]

\* Each entry's line stands in the lines of all, after those of the entries before it,
\* and every token is in one of them.
LEMMA LinesStand ==
  ASSUME NEW entries \in Seq(EntrySet), NEW written, LinePrefixes(written, entries)
  PROVE  LinesStanding(written, entries, EntryLines(entries))
<1> DEFINE N == Len(entries)
           block == EntryLines(entries)
           E(n) == EntryLine(entries[n])
<1>1. N \in Nat /\ \A n \in 1 .. N : E(n) \in Seq(Tokens)
  BY LineOfEntries
<1>2. /\ \A n \in 0 .. N : written[n] \in Seq(Tokens) /\ Len(written[n]) \in Nat
      /\ \A n \in 1 .. N : written[n] = written[n-1] \o E(n)
      /\ block = written[N]
  BY DEF LinePrefixes
<1> HIDE DEF N, block, E
<1>3. ASSUME NEW n \in 1 .. N
      PROVE  /\ Len(written[n]) = Len(written[n-1]) + Len(E(n))
             /\ \A i \in 1 .. Len(written[n-1]) : written[n][i] = written[n-1][i]
             /\ \A i \in 1 .. Len(E(n)) : written[n][Len(written[n-1]) + i] = E(n)[i]
             /\ Len(E(n)) \in Nat /\ Len(written[n-1]) \in Nat
  <2>1. n - 1 \in 0 .. N /\ E(n) \in Seq(Tokens)
    BY <1>1
  <2>2. written[n-1] \in Seq(Tokens) /\ written[n] = written[n-1] \o E(n)
    BY <1>2, <2>1
  <2>3. QED
    BY <2>1, <2>2
<1> DEFINE P == {d \in 0 .. N : /\ Len(written[N - d]) <= Len(block)
                                /\ \A i \in 1 .. Len(written[N - d]) : block[i] = written[N - d][i]}
<1>4. N \in P /\ \A n \in 0 .. N : N - n \in P
  <2>0. ASSUME NEW M \in 0 .. N PROVE M \in P
    <3>1. 0 \in P \cap (0 .. M)
      BY <1>1, <1>2, <2>0
    <3>2. ASSUME NEW d \in P \cap (0 .. M), d # M PROVE d + 1 \in P \cap (0 .. M)
      <4>1. N - d \in 1 .. N /\ (N - d) - 1 = N - (d + 1) /\ d + 1 \in 0 .. M /\ d + 1 \in 0 .. N
        BY <1>1, <3>2
      <4> DEFINE n == N - d
      <4>2. /\ Len(written[n]) = Len(written[n-1]) + Len(E(n))
            /\ \A i \in 1 .. Len(written[n-1]) : written[n][i] = written[n-1][i]
            /\ Len(E(n)) \in Nat /\ Len(written[n-1]) \in Nat
        BY <1>3, <4>1
      <4>3. Len(written[n]) <= Len(block) /\ \A i \in 1 .. Len(written[n]) : block[i] = written[n][i]
        OBVIOUS
      <4>4. n - 1 = N - (d + 1) /\ Len(block) \in Nat
        BY <1>1, <1>2, <4>1
      <4> HIDE DEF n
      <4>5. Len(written[n-1]) <= Len(block)
        BY <4>2, <4>3, <4>4
      <4>6. \A i \in 1 .. Len(written[n-1]) : block[i] = written[n-1][i]
        BY <4>2, <4>3
      <4>7. QED
        BY <4>1, <4>4, <4>5, <4>6
    <3>3. P \cap (0 .. M) \in SUBSET (0 .. M) /\ M \in Nat
      BY <2>0
    <3> HIDE DEF P
    <3>4. M \in P \cap (0 .. M)
      BY <3>1, <3>2, <3>3, Induction
    <3>5. QED
      BY <3>4
  <2>1. \A n \in 0 .. N : N - n \in 0 .. N
    BY <1>1
  <2> HIDE DEF P
  <2>2. QED
    BY <1>1, <2>0, <2>1
<1>5. ASSUME NEW n \in 0 .. N
      PROVE  /\ Len(written[n]) \in 0 .. Len(block)
             /\ \A i \in 1 .. Len(written[n]) : block[i] = written[n][i]
  <2>1. N - (N - n) = n
    BY <1>1
  <2>2. N - n \in P
    BY <1>4
  <2>3. Len(block) \in Nat /\ Len(written[n]) \in Nat
    BY <1>1, <1>2
  <2>4. QED
    BY <2>1, <2>2, <2>3
<1> HIDE DEF P
<1>6. ASSUME NEW n \in 1 .. N, NEW i \in 1 .. Len(E(n))
      PROVE  block[Len(written[n-1]) + i] = E(n)[i]
  <2>1. Len(written[n-1]) + i \in 1 .. Len(written[n])
    BY <1>3
  <2>2. n \in 0 .. N
    BY <1>1
  <2>3. block[Len(written[n-1]) + i] = written[n][Len(written[n-1]) + i]
    BY <1>5, <2>1, <2>2
  <2>4. QED
    BY <1>3, <2>3
<1>7. block \in Seq(Tokens)
  BY <1>1, <1>2
<1>8. QED
  BY <1>3, <1>5, <1>6, <1>7 DEF N, block, E, LinesStanding

\* A line that is read whole, from its first token to its end, gives its entry.
LEMMA LineRead ==
  ASSUME NEW block \in Seq(Tokens), NEW read, ReadPrefixes(read, block),
         NEW e \in EntrySet, NEW L \in Nat, L + Len(EntryLine(e)) <= Len(block),
         \A i \in 1 .. Len(EntryLine(e)) : block[L + i] = EntryLine(e)[i],
         read[L].line = <<>>
  PROVE  read[L + Len(EntryLine(e))] = [entries |-> read[L].entries \o <<e>>, line |-> <<>>]
<1> DEFINE l == EntryLine(e)
           m == Len(e.names)
           N == Len(block)
           es == read[L].entries
<1>1. /\ l \in Seq(Tokens) /\ Len(l) = m + 2 /\ m \in Nat
      /\ l[m + 2] = Newline /\ \A i \in 1 .. m + 1 : l[i] \notin Marks
      /\ Entry(SubSeq(l, 1, m + 1)) = <<e>>
  BY EntryLineOf
<1>2. /\ N \in Nat /\ read \in [0 .. N -> ReadSet]
      /\ \A n \in 1 .. N : read[n] = Reads(read[n-1], block[n])
  BY DEF ReadPrefixes
<1>3. L + m + 2 <= N /\ \A i \in 1 .. m + 2 : block[L + i] = l[i]
  BY <1>1
<1>4. read[L] = [entries |-> es, line |-> <<>>]
  <2>1. L \in 0 .. N
    BY <1>1, <1>2, <1>3
  <2>2. read[L] \in ReadSet
    BY <1>2, <2>1
  <2>3. QED
    BY <2>2 DEF ReadSet
<1> HIDE DEF l, m, N, es
<1> DEFINE P == {j \in 0 .. m + 1 : read[L + j] = [entries |-> es, line |-> SubSeq(l, 1, j)]}
<1>5. 0 \in P
  <2>1. SubSeq(l, 1, 0) = <<>> /\ L + 0 = L
    BY <1>1
  <2>2. QED
    BY <1>1, <1>4, <2>1
<1>6. ASSUME NEW j \in P, j # m + 1 PROVE j + 1 \in P
  <2>1. /\ j + 1 \in 1 .. m + 1 /\ j + 1 \in 1 .. m + 2 /\ L + (j + 1) \in 1 .. N
        /\ L + (j + 1) - 1 = L + j /\ j + 1 \in 0 .. m + 1
    BY <1>1, <1>2, <1>3, <1>6
  <2>2. block[L + (j + 1)] = l[j + 1] /\ l[j + 1] # Newline
    BY <1>1, <1>3, <2>1 DEF Marks
  <2>3. read[L + (j + 1)] = Reads(read[L + j], l[j + 1])
    BY <1>2, <2>1, <2>2
  <2>4. Append(SubSeq(l, 1, j), l[j + 1]) = SubSeq(l, 1, j + 1)
    BY <1>1, <2>1
  <2>5. read[L + j] = [entries |-> es, line |-> SubSeq(l, 1, j)]
    OBVIOUS
  <2> HIDE DEF P
  <2>6. Reads(read[L + j], l[j + 1]) = [entries |-> es, line |-> SubSeq(l, 1, j + 1)]
    <3>1. Reads(read[L + j], l[j + 1]) = [entries |-> es, line |-> Append(SubSeq(l, 1, j), l[j + 1])]
      <4> DEFINE x == SubSeq(l, 1, j)
                 t == l[j + 1]
                 r == read[L + j]
      <4>1. t # Newline /\ r = [entries |-> es, line |-> x]
        BY <2>2, <2>5
      <4> HIDE DEF x, t, r
      <4>2. Reads(r, t) = [entries |-> es, line |-> Append(x, t)]
        BY <4>1, ReadsOf
      <4>3. QED
        BY <4>2 DEF x, t, r
    <3>2. QED
      BY <2>4, <3>1
  <2>7. QED
    BY <2>1, <2>3, <2>6 DEF P
<1>7. m + 1 \in P
  <2>1. P \in SUBSET (0 .. m + 1) /\ m + 1 \in Nat
    BY <1>1
  <2> HIDE DEF P
  <2>2. QED
    BY <1>5, <1>6, <2>1, Induction
<1>8. read[L + (m + 1)] = [entries |-> es, line |-> SubSeq(l, 1, m + 1)]
  BY <1>7
<1> HIDE DEF P
<1>9. read[L + (m + 2)] = Reads(read[L + (m + 1)], Newline)
  <2>1. L + (m + 2) \in 1 .. N /\ L + (m + 2) - 1 = L + (m + 1) /\ m + 2 \in 1 .. m + 2
    BY <1>1, <1>2, <1>3
  <2>2. block[L + (m + 2)] = Newline
    BY <1>1, <1>3, <2>1
  <2>3. QED
    BY <1>2, <2>1, <2>2
<1>10. Reads(read[L + (m + 1)], Newline) = [entries |-> es \o <<e>>, line |-> <<>>]
  <2>1. Reads(read[L + (m + 1)], Newline) = [entries |-> es \o Entry(SubSeq(l, 1, m + 1)), line |-> <<>>]
    BY <1>8, ReadsOf
  <2>2. QED
    BY <1>1, <2>1
<1>11. Len(l) = m + 2
  BY <1>1
<1>12. QED
  BY <1>9, <1>10, <1>11 DEF l, es

\* Reading the lines of some entries gives those entries (Render and parseEntries).
THEOREM LinesRead ==
  ASSUME NEW entries \in Seq(EntrySet)
  PROVE  ParseEntries(EntryLines(entries)) = entries
<1> DEFINE N == Len(entries)
           block == EntryLines(entries)
<1>1. PICK written : LinePrefixes(written, entries)
  BY LinesRecursion
<1>2. /\ block \in Seq(Tokens)
      /\ \A n \in 0 .. N : Len(written[n]) \in 0 .. Len(block)
      /\ \A n \in 1 .. N :
           /\ Len(written[n]) = Len(written[n-1]) + Len(EntryLine(entries[n]))
           /\ \A i \in 1 .. Len(EntryLine(entries[n])) :
                block[Len(written[n-1]) + i] = EntryLine(entries[n])[i]
  <2>1. LinesStanding(written, entries, block)
    BY <1>1, LinesStand
  <2>2. QED
    BY <2>1 DEF LinesStanding
<1>3. PICK read : ReadPrefixes(read, block)
  BY <1>2, ReadRecursion
<1>4. /\ N \in Nat /\ \A n \in 1 .. N : entries[n] \in EntrySet
      /\ written[0] = <<>> /\ block = written[N]
  BY <1>1 DEF LinePrefixes
<1> HIDE DEF N, block
<1> DEFINE At(n) == read[Len(written[n])]
           P == {n \in 0 .. N : At(n) = [entries |-> SubSeq(entries, 1, n), line |-> <<>>]}
<1>5. 0 \in P
  <2>1. At(0) = NothingRead
    BY <1>3, <1>4 DEF ReadPrefixes
  <2>2. SubSeq(entries, 1, 0) = <<>>
    OBVIOUS
  <2>3. QED
    BY <1>4, <2>1, <2>2 DEF NothingRead
<1>6. ASSUME NEW n \in P, n # N PROVE n + 1 \in P
  <2>1. n \in 0 .. N /\ n + 1 \in 1 .. N /\ n + 1 \in 0 .. N /\ (n + 1) - 1 = n
    BY <1>4, <1>6
  <2> DEFINE e == entries[n+1]
             L == Len(written[n])
  <2>2. /\ e \in EntrySet /\ L \in Nat /\ Len(written[n+1]) = L + Len(EntryLine(e))
        /\ \A i \in 1 .. Len(EntryLine(e)) : block[L + i] = EntryLine(e)[i]
    <3> DEFINE k == n + 1
    <3>1. k \in 1 .. N /\ k - 1 = n /\ n \in 0 .. N
      BY <2>1
    <3> HIDE DEF k, P
    <3>2. /\ Len(written[k]) = Len(written[k-1]) + Len(EntryLine(entries[k]))
          /\ \A i \in 1 .. Len(EntryLine(entries[k])) :
               block[Len(written[k-1]) + i] = EntryLine(entries[k])[i]
      BY <1>2, <3>1
    <3>3. entries[k] \in EntrySet /\ Len(written[n]) \in 0 .. Len(block)
      BY <1>2, <1>4, <3>1
    <3>4. e = entries[k] /\ L = Len(written[n]) /\ L \in Nat
      BY <3>3 DEF k
    <3> HIDE DEF e, L
    <3>5. /\ e \in EntrySet /\ Len(written[k]) = L + Len(EntryLine(e))
          /\ \A i \in 1 .. Len(EntryLine(e)) : block[L + i] = EntryLine(e)[i]
      BY <3>1, <3>2, <3>3, <3>4
    <3>6. QED
      BY <3>4, <3>5 DEF k
  <2>3. L + Len(EntryLine(e)) <= Len(block)
    <3>1. Len(written[n+1]) \in 0 .. Len(block)
      BY <1>2, <2>1
    <3> HIDE DEF P, e, L
    <3>2. QED
      BY <2>2, <3>1
  <2>4. read[L] = [entries |-> SubSeq(entries, 1, n), line |-> <<>>]
    OBVIOUS
  <2>5. read[L].entries = SubSeq(entries, 1, n) /\ read[L].line = <<>>
    BY <2>4
  <2> HIDE DEF P, e, L
  <2>6. read[L + Len(EntryLine(e))] = [entries |-> read[L].entries \o <<e>>, line |-> <<>>]
    BY <1>2, <1>3, <2>2, <2>3, <2>5, LineRead
  <2>7. SubSeq(entries, 1, n) \o <<e>> = SubSeq(entries, 1, n + 1)
    <3>1. n + 1 \in 1 .. Len(entries) /\ 1 \in 1 .. Len(entries)
      BY <1>4, <2>1 DEF N
    <3>2. SubSeq(entries, 1, n + 1) = SubSeq(entries, 1, (n + 1) - 1) \o <<entries[n+1]>>
      BY <3>1, SubSeqRecursiveSecond
    <3>3. QED
      BY <2>1, <3>2 DEF e
  <2>8. QED
    BY <2>1, <2>2, <2>5, <2>6, <2>7 DEF P
<1>7. N \in P
  <2>1. P \in SUBSET (0 .. N)
    OBVIOUS
  <2> HIDE DEF P
  <2>2. QED
    BY <1>4, <1>5, <1>6, <2>1, Induction
<1>8. read[Len(block)] = [entries |-> entries, line |-> <<>>]
  <2>1. SubSeq(entries, 1, N) = entries
    BY SubSeqFull DEF N
  <2>2. QED
    BY <1>4, <1>7, <2>1
<1>9. Entry(<<>>) = <<>>
  <2>1. Len(<<>>) = 0 /\ <<>> \in Seq(Tokens)
    OBVIOUS
  <2>2. FirstOf(<<>>, CommentSigns) = 0
    <3>1. \A i \in 1 .. Len(<<>>) : <<>>[i] \notin CommentSigns
      BY <2>1
    <3>2. QED
      BY <2>1, <3>1, FirstOfNone
  <2>3. QED
    BY <2>1, <2>2 DEF Entry
<1>10. ParseEntries(block) = entries \o <<>>
  BY <1>3, <1>8, <1>9 DEF ReadPrefixes, Reads
<1>11. entries \o <<>> = entries
  BY ConcatEmptySeq
<1>12. QED
  BY <1>10, <1>11 DEF block

-----------------------------------------------------------------------------
(* Finding the block again.                                                *)

\* The lines of entries hold no mark but the ends of the lines.
LEMMA LinesPlain ==
  ASSUME NEW entries \in Seq(EntrySet)
  PROVE  /\ EntryLines(entries) \in Seq(Tokens)
         /\ \A i \in 1 .. Len(EntryLines(entries)) :
              EntryLines(entries)[i] = Newline \/ EntryLines(entries)[i] \notin Marks
<1> DEFINE N == Len(entries)
           Plain(s) == \A i \in 1 .. Len(s) : s[i] = Newline \/ s[i] \notin Marks
           X == {s \in Seq(Tokens) : Plain(s)}
<1>1. PICK written : LinePrefixes(written, entries)
  BY LinesRecursion
<1>2. /\ N \in Nat /\ written[0] = <<>> /\ EntryLines(entries) = written[N]
      /\ \A n \in 1 .. N : written[n] = written[n-1] \o EntryLine(entries[n])
      /\ \A n \in 1 .. N : entries[n] \in EntrySet
  BY <1>1 DEF LinePrefixes
<1>3. ASSUME NEW e \in EntrySet PROVE EntryLine(e) \in X
  <2> DEFINE l == EntryLine(e)
             m == Len(e.names)
  <2>1. /\ l \in Seq(Tokens) /\ Len(l) = m + 2 /\ m \in Nat /\ l[m + 2] = Newline
        /\ \A i \in 1 .. m + 1 : l[i] \notin Marks
    BY EntryLineOf
  <2> HIDE DEF l, m
  <2>2. \A i \in 1 .. Len(l) : i \in 1 .. m + 1 \/ i = m + 2
    BY <2>1
  <2>3. Plain(l)
    BY <2>1, <2>2
  <2>4. QED
    BY <2>1, <2>3 DEF l
<1>4. ASSUME NEW a \in X, NEW b \in X PROVE a \o b \in X
  <2>1. a \in Seq(Tokens) /\ b \in Seq(Tokens) /\ Plain(a) /\ Plain(b)
    OBVIOUS
  <2>2. a \o b \in Seq(Tokens)
    BY <2>1
  <2>3. ASSUME NEW i \in 1 .. Len(a \o b) PROVE (a \o b)[i] = Newline \/ (a \o b)[i] \notin Marks
    <3>1. CASE i \in 1 .. Len(a)
      <4>1. (a \o b)[i] = a[i]
        BY <2>1, <3>1, Halves
      <4>2. QED
        BY <2>1, <3>1, <4>1
    <3>2. CASE i - Len(a) \in 1 .. Len(b) /\ (a \o b)[i] = b[i - Len(a)]
      BY <2>1, <3>2
    <3>3. QED
      BY <2>1, <3>1, <3>2, HalfOf
  <2>4. QED
    BY <2>2, <2>3
<1> HIDE DEF N
<1> DEFINE P == {n \in 0 .. N : written[n] \in X}
<1>5. 0 \in P
  <2>1. <<>> \in Seq(Tokens) /\ Len(<<>>) = 0
    OBVIOUS
  <2>2. Plain(<<>>)
    BY <2>1
  <2>3. 0 \in 0 .. N
    BY <1>2
  <2> HIDE DEF Plain
  <2>4. <<>> \in X
    BY <2>1, <2>2
  <2> HIDE DEF X
  <2>5. QED
    BY <1>2, <2>3, <2>4
<1>6. ASSUME NEW n \in P, n # N PROVE n + 1 \in P
  <2>1. n + 1 \in 1 .. N /\ n + 1 \in 0 .. N /\ (n + 1) - 1 = n
    BY <1>2, <1>6
  <2>2. written[n] \in X
    OBVIOUS
  <2> HIDE DEF X, P
  <2>3. EntryLine(entries[n + 1]) \in X
    BY <1>2, <1>3, <2>1
  <2>4. written[n + 1] = written[n] \o EntryLine(entries[n + 1])
    BY <1>2, <2>1
  <2>5. QED
    BY <1>4, <2>1, <2>2, <2>3, <2>4 DEF P
<1>7. N \in P
  <2>1. P \in SUBSET (0 .. N)
    OBVIOUS
  <2> HIDE DEF P
  <2>2. QED
    BY <1>2, <1>5, <1>6, <2>1, Induction
<1>8. QED
  BY <1>2, <1>7

Closing == <<EndMarker, Newline>>

\* A block between its marks is read up to its end marker, and what follows begins after
\* the end marker's line.
LEMMA BlockRead ==
  ASSUME NEW before, NEW domain, NEW lines \in Seq(Tokens), NEW after \in Seq(Tokens),
         \A i \in 1 .. Len(lines) : lines[i] # EndMarker
  PROVE  Block(before, domain, lines \o (Closing \o after)) =
           [before |-> before, domain |-> domain, after |-> after,
            entries |-> ParseEntries(lines)]
<1> DEFINE tail == Closing \o after
           rest == lines \o tail
<1>1. Closing \in Seq(Tokens) /\ Len(Closing) = 2 /\ Closing[1] = EndMarker /\ Closing[2] = Newline
  BY DEF Closing, Tokens, Marks, CommentSigns
<1>2. /\ tail \in Seq(Tokens) /\ Len(tail) \in Nat /\ Len(tail) >= 2
      /\ tail[1] = EndMarker /\ tail[2] = Newline
  <2> DEFINE c == Closing
  <2>1. c \in Seq(Tokens) /\ Len(c) = 2 /\ c[1] = EndMarker /\ c[2] = Newline
    BY <1>1
  <2> HIDE DEF c
  <2>2. c \in Seq(Tokens)
    BY <2>1
  <2>3. /\ c \o after \in Seq(Tokens) /\ Len(c \o after) = Len(c) + Len(after) /\ Len(after) \in Nat
        /\ \A i \in 1 .. Len(c) : (c \o after)[i] = c[i]
    BY <2>2, Halves
  <2>4. 1 \in 1 .. Len(c) /\ 2 \in 1 .. Len(c)
    BY <2>1
  <2> DEFINE t == c \o after
  <2>5. /\ t \in Seq(Tokens) /\ Len(t) = 2 + Len(after) /\ Len(after) \in Nat
        /\ t[1] = c[1] /\ t[2] = c[2]
    BY <2>1, <2>3, <2>4, Zenon
  <2> HIDE DEF t
  <2>6. Len(t) \in Nat /\ Len(t) >= 2
    BY <2>5
  <2>7. QED
    BY <2>1, <2>5, <2>6 DEF c, t
<1>3. From(tail, 3) = after
  <2>1. From(Closing \o after, Len(Closing) + 1) = after
    BY <1>1, Halves
  <2>2. Len(Closing) + 1 = 3
    BY <1>1
  <2>3. QED
    BY <2>1, <2>2
<1> HIDE DEF tail
<1>4. /\ rest \in Seq(Tokens) /\ Len(rest) = Len(lines) + Len(tail) /\ Len(lines) \in Nat
      /\ \A i \in 1 .. Len(lines) : rest[i] = lines[i]
      /\ rest[Len(lines) + 1] = tail[1]
      /\ UpTo(rest, Len(lines) + 1) = lines /\ From(rest, Len(lines) + 1) = tail
  <2>1. 1 \in 1 .. Len(tail)
    BY <1>2
  <2>2. QED
    BY <1>2, <2>1, Halves
<1> HIDE DEF rest
<1>5. First(rest, EndMarker) = Len(lines) + 1
  <2> DEFINE k == Len(lines) + 1
  <2>1. k \in 1 .. Len(rest) /\ rest[k] \in {EndMarker}
    BY <1>2, <1>4
  <2>2. \A i \in 1 .. k - 1 : rest[i] \notin {EndMarker}
    BY <1>4
  <2> HIDE DEF k
  <2>3. FirstOf(rest, {EndMarker}) = k
    BY <1>4, <2>1, <2>2, FirstOfAt
  <2>4. QED
    BY <2>3 DEF k, First
<1>6. First(tail, Newline) = 2
  <2>1. 2 \in 1 .. Len(tail) /\ tail[2] \in {Newline} /\ \A i \in 1 .. 2 - 1 : tail[i] \notin {Newline}
    BY <1>2, MarksDiffer
  <2>2. FirstOf(tail, {Newline}) = 2
    BY <1>2, <2>1, FirstOfAt
  <2>3. QED
    BY <2>2 DEF First
<1>7. Found(rest, EndMarker)
  <2>1. Len(lines) + 1 \in DOMAIN rest /\ rest[Len(lines) + 1] = EndMarker
    BY <1>2, <1>4
  <2>2. QED
    BY <2>1 DEF Found
<1>8. Found(tail, Newline)
  <2>1. 2 \in DOMAIN tail /\ tail[2] = Newline
    BY <1>2
  <2>2. QED
    BY <2>1 DEF Found
<1>9. 2 + 1 = 3
  OBVIOUS
<1>10. Block(before, domain, rest) =
           [before |-> before, domain |-> domain, after |-> after,
            entries |-> ParseEntries(lines)]
  BY <1>3, <1>4, <1>5, <1>6, <1>7, <1>8, <1>9, Zenon DEF Block
<1>11. QED
  BY <1>10 DEF rest, tail

\* The opening line is one line, and says the domain.
LEMMA OpeningOf ==
  ASSUME NEW d \in Domains
  PROVE  /\ Opening(d) \in Seq(Tokens) /\ Len(Opening(d)) \in Nat \ {0, 1}
         /\ Opening(d)[1] = BeginMarker /\ Opening(d)[Len(Opening(d))] = Newline
         /\ \A i \in 1 .. Len(Opening(d)) - 1 : Opening(d)[i] # Newline
         /\ \A i \in 2 .. Len(Opening(d)) : Opening(d)[i] # BeginMarker
         /\ ParseDomain(UpTo(Opening(d), Len(Opening(d)))) = d
<1> DEFINE w == [word |-> d]
           o == Opening(d)
           l == UpTo(o, Len(o))
<1>1. BeginMarker \in Tokens /\ DomainKey \in Tokens /\ Newline \in Tokens /\ w \in Tokens
  BY DEF Tokens, Marks, CommentSigns
<1>2. /\ BeginMarker # Newline /\ DomainKey # Newline /\ DomainKey # BeginMarker
      /\ w # Newline /\ w # BeginMarker /\ w # DomainKey /\ w.word = d
  <2>1. w \notin Marks /\ DomainKey \notin CommentSigns \cup {Newline} /\ BeginMarker # Newline
    BY MarksDiffer
  <2>2. QED
    BY <2>1 DEF Marks, CommentSigns
<1> HIDE DEF w
<1>3. CASE d = NoDomain
  <2>1. o = <<BeginMarker, Newline>>
    BY <1>3 DEF Opening
  <2>2. /\ o \in Seq(Tokens) /\ Len(o) = 2 /\ o[1] = BeginMarker /\ o[2] = Newline
        /\ \A i \in 1 .. 1 : o[i] # Newline
        /\ \A i \in 2 .. 2 : o[i] # BeginMarker
    BY <1>1, <1>2, <2>1
  <2>3. Len(l) = 1 /\ l[1] = BeginMarker
    BY <2>2 DEF UpTo
  <2> HIDE DEF l
  <2>4. ParseDomain(l) = NoDomain
    BY <1>2, <2>3 DEF ParseDomain
  <2>5. Len(o) - 1 = 1
    BY <2>2
  <2> HIDE DEF o
  <2>6. QED
    BY <1>3, <2>2, <2>4, <2>5 DEF o, l
<1>4. CASE d # NoDomain
  <2>1. o = <<BeginMarker, DomainKey, w, Newline>>
    BY <1>4 DEF Opening, w
  <2>2. /\ o \in Seq(Tokens) /\ Len(o) = 4 /\ o[1] = BeginMarker /\ o[2] = DomainKey /\ o[3] = w
        /\ o[4] = Newline
    BY <1>1, <2>1
  <2> HIDE DEF o
  <2>3. \A i \in 1 .. 3 : o[i] # Newline
    BY <1>2, <2>2
  <2>4. \A i \in 2 .. 4 : o[i] # BeginMarker
    BY <1>2, <2>2
  <2>5. /\ l \in Seq(Tokens) /\ Len(l) = 3
        /\ l[1] = BeginMarker /\ l[2] = DomainKey /\ l[3] = w
    <3>1. /\ UpTo(o, 4) \in Seq(Tokens) /\ Len(UpTo(o, 4)) = 3
          /\ \A j \in 1 .. 3 : UpTo(o, 4)[j] = o[j]
      <4>1. 4 \in 1 .. Len(o) + 1 /\ 4 - 1 = 3
        BY <2>2
      <4>2. QED
        BY <2>2, <4>1, Parts
    <3>2. QED
      BY <2>2, <3>1
  <2> HIDE DEF l
  <2>6. First(l, DomainKey) = 2
    <3>1. 2 \in 1 .. Len(l) /\ l[2] \in {DomainKey} /\ \A i \in 1 .. 2 - 1 : l[i] \notin {DomainKey}
      BY <1>2, <2>5
    <3>2. FirstOf(l, {DomainKey}) = 2
      BY <2>5, <3>1, FirstOfAt
    <3>3. QED
      BY <3>2 DEF First
  <2>7. \E i \in DOMAIN l : l[i] = DomainKey /\ i < Len(l)
    <3>1. 2 \in DOMAIN l /\ 2 < Len(l)
      BY <2>5
    <3>2. QED
      BY <2>5, <3>1
  <2>8. ParseDomain(l) = l[2 + 1].word
    BY <2>6, <2>7, Zenon DEF ParseDomain
  <2>9. ParseDomain(l) = d
    BY <1>2, <2>5, <2>8
  <2>10. Len(o) - 1 = 3
    BY <2>2
  <2>11. QED
    BY <2>2, <2>3, <2>4, <2>9, <2>10 DEF o, l
<1>5. QED
  BY <1>3, <1>4

\* What ParseHostFile makes of a text whose block begins at rest.
Opened(before, rest) ==
  LET nl == First(rest, Newline) IN
    IF nl = 0 THEN [Unmanaged(before) EXCEPT !.domain = ParseDomain(rest)]
    ELSE Block(before, ParseDomain(UpTo(rest, nl)), From(rest, nl + 1))

TextFileSet == [before : Seq(Tokens), after : Seq(Tokens), domain : Domains, entries : Seq(EntrySet)]

\* The first marker opens the block.
LEMMA ParseOpens ==
  ASSUME NEW before \in Seq(Tokens), NEW rest \in Seq(Tokens),
         ~Found(before, BeginMarker), rest # <<>>, rest[1] = BeginMarker
  PROVE  ParseHostFile(before \o rest) = Opened(before, rest)
<1> DEFINE raw == before \o rest
           k == Len(before) + 1
<1>1. /\ raw \in Seq(Tokens) /\ Len(raw) = Len(before) + Len(rest)
      /\ \A i \in 1 .. Len(before) : raw[i] = before[i]
      /\ \A i \in 1 .. Len(rest) : raw[Len(before) + i] = rest[i]
      /\ UpTo(raw, k) = before /\ From(raw, k) = rest
  BY Halves
<1>2. Len(before) \in Nat /\ Len(rest) \in Nat \ {0} /\ DOMAIN before = 1 .. Len(before)
  OBVIOUS
<1> HIDE DEF raw
<1>3. raw[k] = BeginMarker /\ k \in 1 .. Len(raw) /\ k # 0
  BY <1>1, <1>2
<1>4. \A i \in 1 .. k - 1 : raw[i] # BeginMarker
  BY <1>1, <1>2 DEF Found
<1> HIDE DEF k
<1>5. First(raw, BeginMarker) = k
  <2>1. raw[k] \in {BeginMarker} /\ \A i \in 1 .. k - 1 : raw[i] \notin {BeginMarker}
    BY <1>3, <1>4
  <2>2. FirstOf(raw, {BeginMarker}) = k
    BY <1>1, <1>3, <2>1, FirstOfAt
  <2>3. QED
    BY <2>2 DEF First
<1>6. ParseHostFile(raw) = Opened(before, rest)
  BY <1>1, <1>3, <1>5, Zenon DEF ParseHostFile, Opened
<1>7. QED
  BY <1>6 DEF raw

\* A text is before its first begin marker and from there, or has none.
LEMMA ParseSplits ==
  ASSUME NEW raw \in Seq(Tokens)
  PROVE  \/ ~Found(raw, BeginMarker) /\ ParseHostFile(raw) = Unmanaged(raw)
         \/ \E k \in 1 .. Len(raw) :
              /\ raw[k] = BeginMarker /\ ~Found(UpTo(raw, k), BeginMarker)
              /\ From(raw, k) # <<>> /\ From(raw, k)[1] = BeginMarker
              /\ ParseHostFile(raw) = Opened(UpTo(raw, k), From(raw, k))
<1> DEFINE k == First(raw, BeginMarker)
<1>1. Len(raw) \in Nat /\ DOMAIN raw = 1 .. Len(raw)
  OBVIOUS
<1>2. /\ k \in 0 .. Len(raw)
      /\ k = 0 => \A i \in 1 .. Len(raw) : raw[i] # BeginMarker
      /\ k # 0 => raw[k] = BeginMarker /\ \A i \in 1 .. k - 1 : raw[i] # BeginMarker
  <2> DEFINE j == FirstOf(raw, {BeginMarker})
  <2>1. /\ j \in 0 .. Len(raw)
        /\ j = 0 => \A i \in 1 .. Len(raw) : raw[i] \notin {BeginMarker}
        /\ j # 0 => raw[j] \in {BeginMarker} /\ \A i \in 1 .. j - 1 : raw[i] \notin {BeginMarker}
    BY FirstOfIs
  <2>2. j = k
    BY DEF First
  <2> HIDE DEF j, k
  <2>3. QED
    BY <2>1, <2>2
<1>3. CASE k = 0
  <2>1. ~Found(raw, BeginMarker)
    BY <1>1, <1>2, <1>3 DEF Found
  <2>2. ParseHostFile(raw) = Unmanaged(raw)
    BY <1>3, Zenon DEF ParseHostFile
  <2>3. QED
    BY <2>1, <2>2
<1>4. CASE k # 0
  <2>1. ParseHostFile(raw) = Opened(UpTo(raw, k), From(raw, k))
    BY <1>4, Zenon DEF ParseHostFile, Opened
  <2> HIDE DEF k
  <2>2. k \in 1 .. Len(raw) /\ k \in 1 .. Len(raw) + 1 /\ raw[k] = BeginMarker
    BY <1>1, <1>2, <1>4
  <2>3. /\ UpTo(raw, k) \in Seq(Tokens) /\ Len(UpTo(raw, k)) = k - 1
        /\ From(raw, k) \in Seq(Tokens) /\ Len(From(raw, k)) = Len(raw) - k + 1
        /\ \A j \in 1 .. k - 1 : UpTo(raw, k)[j] = raw[j]
        /\ \A j \in 1 .. Len(raw) - k + 1 : From(raw, k)[j] = raw[k + j - 1]
    BY <2>2, Parts
  <2>4. ~Found(UpTo(raw, k), BeginMarker)
    <3>1. DOMAIN UpTo(raw, k) = 1 .. k - 1
      BY <2>2, <2>3
    <3>2. QED
      BY <1>2, <1>4, <2>3, <3>1 DEF Found
  <2>5. From(raw, k)[1] = BeginMarker /\ From(raw, k) # <<>>
    <3>1. 1 \in 1 .. Len(raw) - k + 1 /\ k + 1 - 1 = k
      BY <1>1, <2>2
    <3>2. From(raw, k)[1] = raw[k]
      BY <2>3, <3>1
    <3>3. Len(From(raw, k)) # 0
      BY <1>1, <2>2, <2>3
    <3>4. QED
      BY <2>2, <3>2, <3>3
  <2>6. QED
    BY <2>1, <2>2, <2>4, <2>5
<1>5. QED
  BY <1>3, <1>4

\* What is before the block is no part of what is read in it; what is after it is the end
\* of the text.
LEMMA OpenedIs ==
  ASSUME NEW before, NEW rest \in Seq(Tokens)
  PROVE  /\ Opened(before, rest) =
              [before |-> before, after |-> Opened(before, rest).after,
               domain |-> Opened(before, rest).domain, entries |-> Opened(before, rest).entries]
         /\ Managing(Opened(before, rest)) = Managing(Opened(<<>>, rest))
         /\ \/ Opened(before, rest).after = <<>>
            \/ \E j \in 1 .. Len(rest) + 1 : Opened(before, rest).after = From(rest, j)
<1> DEFINE nl == First(rest, Newline)
           inner == From(rest, nl + 1)
           d == ParseDomain(UpTo(rest, nl))
           Shape(f, b) == f = [before |-> b, after |-> f.after, domain |-> f.domain, entries |-> f.entries]
<1>1. nl \in 0 .. Len(rest) /\ Len(rest) \in Nat
  BY FirstOfIs DEF First
<1>2. CASE nl = 0
  <2>1. \A b : Opened(b, rest) = [Unmanaged(b) EXCEPT !.domain = ParseDomain(rest)]
    BY <1>2, Zenon DEF Opened
  <2> HIDE DEF nl, inner, d
  <2>2. \A b : Opened(b, rest) = [before |-> b, after |-> <<>>, domain |-> ParseDomain(rest), entries |-> <<>>]
    BY <2>1 DEF Unmanaged
  <2>3. QED
    BY <2>2 DEF Managing
<1>3. CASE nl # 0
  <2>1. \A b : Opened(b, rest) = Block(b, d, inner)
    BY <1>3, Zenon DEF Opened
  <2>2. nl + 1 \in 1 .. Len(rest) + 1
    BY <1>1, <1>3
  <2>3. inner \in Seq(Tokens) /\ \A j \in 1 .. Len(inner) + 1 : \E i \in 1 .. Len(rest) + 1 : From(inner, j) = From(rest, i)
    <3> HIDE DEF nl
    <3>1. inner \in Seq(Tokens)
      BY <2>2, Parts
    <3>2. ASSUME NEW j \in 1 .. Len(inner) + 1
          PROVE  \E i \in 1 .. Len(rest) + 1 : From(inner, j) = From(rest, i)
      BY <2>2, FromFrom
    <3>3. QED
      BY <3>1, <3>2
  <2> HIDE DEF nl, inner, d
  <2>4. CASE ~Found(inner, EndMarker)
    <3>1. \A b : Opened(b, rest) = [before |-> b, domain |-> d, after |-> <<>>, entries |-> ParseEntries(inner)]
      BY <2>1, <2>4, Zenon DEF Block
    <3>2. QED
      BY <3>1 DEF Managing
  <2>5. CASE Found(inner, EndMarker)
    <3> DEFINE e == First(inner, EndMarker)
               tail == From(inner, e)
               t == First(tail, Newline)
               after == IF Found(tail, Newline) THEN From(tail, t + 1) ELSE <<>>
               es == ParseEntries(UpTo(inner, e))
    <3>1. \A b : Opened(b, rest) = [before |-> b, domain |-> d, after |-> after, entries |-> es]
      BY <2>1, <2>5, Zenon DEF Block
    <3>2. after = <<>> \/ \E j \in 1 .. Len(rest) + 1 : after = From(rest, j)
      <4>1. e \in 1 .. Len(inner) + 1
        <5>1. e \in 0 .. Len(inner) /\ (e = 0 => \A i \in 1 .. Len(inner) : inner[i] \notin {EndMarker})
          BY <2>3, FirstOfIs DEF First
        <5>2. e # 0
          BY <2>3, <2>5, <5>1 DEF Found
        <5>3. Len(inner) \in Nat
          BY <2>3
        <5> HIDE DEF e
        <5>4. QED
          BY <5>1, <5>2, <5>3
      <4>2. tail \in Seq(Tokens) /\ \E i \in 1 .. Len(rest) + 1 : tail = From(rest, i)
        <5> HIDE DEF e
        <5>1. QED
          BY <2>3, <4>1, Parts
      <4>3. t \in 0 .. Len(tail) /\ Len(tail) \in Nat
        <5> HIDE DEF tail
        <5>1. QED
          BY <4>2, FirstOfIs DEF First
      <4>4. PICK i \in 1 .. Len(rest) + 1 : tail = From(rest, i)
        BY <4>2
      <4> HIDE DEF t, tail, e
      <4>5. t + 1 \in 1 .. Len(tail) + 1
        BY <4>3
      <4>6. i + (t + 1) - 1 \in 1 .. Len(rest) + 1 /\ From(tail, t + 1) = From(rest, i + (t + 1) - 1)
        BY <4>4, <4>5, FromFrom
      <4>7. QED
        BY <4>6
    <3> HIDE DEF after, es, e, tail, t
    <3>3. QED
      BY <3>1, <3>2 DEF Managing
  <2>6. QED
    BY <2>4, <2>5
<1>4. QED
  BY <1>2, <1>3

\* A block that was written is read back, with the text on both sides.
LEMMA ManagedRead ==
  ASSUME NEW before \in Seq(Tokens), NEW f \in TextFileSet,
         ~Found(before, BeginMarker), Managed(f) # <<>>
  PROVE  /\ Managed(f) \in Seq(Tokens)
         /\ Managed(f)[1] = BeginMarker
         /\ \A i \in 2 .. Len(Managed(f)) : Managed(f)[i] # BeginMarker
         /\ Opened(before, Managed(f) \o f.after) =
              [before |-> before, domain |-> f.domain, after |-> f.after, entries |-> f.entries]
<1> DEFINE o == Opening(f.domain)
           lines == EntryLines(f.entries)
           a == f.after
           inner == lines \o (Closing \o a)
           rest == Managed(f) \o a
<1>1. f.domain \in Domains /\ f.entries \in Seq(EntrySet) /\ a \in Seq(Tokens)
  BY DEF TextFileSet
<1>2. Managed(f) = (o \o lines) \o Closing
  BY Zenon DEF Managed, Closing
<1>3. /\ lines \in Seq(Tokens)
      /\ \A i \in 1 .. Len(lines) : lines[i] = Newline \/ lines[i] \notin Marks
  BY <1>1, LinesPlain
<1>4. Closing \in Seq(Tokens) /\ Len(Closing) = 2 /\ Closing[1] = EndMarker /\ Closing[2] = Newline
  BY DEF Closing, Tokens, Marks, CommentSigns
<1>5. /\ o \in Seq(Tokens) /\ Len(o) \in Nat \ {0, 1} /\ o[1] = BeginMarker /\ o[Len(o)] = Newline
      /\ \A i \in 1 .. Len(o) - 1 : o[i] # Newline
      /\ \A i \in 2 .. Len(o) : o[i] # BeginMarker
      /\ ParseDomain(UpTo(o, Len(o))) = f.domain
  BY <1>1, OpeningOf
<1>6. \A i \in 1 .. Len(lines) : lines[i] # EndMarker /\ lines[i] # BeginMarker
  BY <1>3, MarksDiffer DEF Marks, CommentSigns
<1> HIDE DEF o, lines, a
<1>7. Closing \in Seq(Tokens)
  BY <1>4
<1>8. inner \in Seq(Tokens) /\ rest = o \o inner
  <2>1. Closing \o a \in Seq(Tokens) /\ o \o lines \in Seq(Tokens)
    BY <1>1, <1>3, <1>5, <1>7, ConcatProperties
  <2>2. ((o \o lines) \o Closing) \o a = (o \o lines) \o (Closing \o a)
    <3> DEFINE x == o \o lines
    <3>1. x \in Seq(Tokens)
      BY <2>1
    <3> HIDE DEF x
    <3>2. (x \o Closing) \o a = x \o (Closing \o a)
      BY <1>1, <1>7, <3>1, ConcatAssociative
    <3>3. QED
      BY <3>2 DEF x
  <2>3. (o \o lines) \o (Closing \o a) = o \o (lines \o (Closing \o a))
    <3> DEFINE x == Closing \o a
    <3>1. x \in Seq(Tokens)
      BY <2>1
    <3> HIDE DEF x
    <3>2. (o \o lines) \o x = o \o (lines \o x)
      BY <1>3, <1>5, <3>1, ConcatAssociative
    <3>3. QED
      BY <3>2 DEF x
  <2>4. inner \in Seq(Tokens)
    BY <1>3, <2>1, ConcatProperties
  <2>5. QED
    BY <1>2, <2>2, <2>3, <2>4
<1>9. Block(before, f.domain, inner) =
        [before |-> before, domain |-> f.domain, after |-> a, entries |-> ParseEntries(lines)]
  BY <1>1, <1>3, <1>6, BlockRead
<1>10. ParseEntries(lines) = f.entries
  BY <1>1, LinesRead DEF lines
<1> HIDE DEF inner, rest
<1>11. /\ rest \in Seq(Tokens) /\ Len(rest) = Len(o) + Len(inner) /\ Len(inner) \in Nat
       /\ \A i \in 1 .. Len(o) : rest[i] = o[i]
       /\ From(rest, Len(o) + 1) = inner /\ UpTo(rest, Len(o) + 1) = o
  BY <1>5, <1>8, Halves
<1>12. First(rest, Newline) = Len(o)
  <2> DEFINE k == Len(o)
  <2>0. k \in 1 .. Len(o) /\ k \in 1 .. Len(rest) /\ \A i \in 1 .. k - 1 : i \in 1 .. Len(o)
    BY <1>5, <1>11
  <2>1. k \in 1 .. Len(rest) /\ rest[k] \in {Newline} /\ \A i \in 1 .. k - 1 : rest[i] \notin {Newline}
    <3>1. rest[k] = o[k] /\ \A i \in 1 .. k - 1 : rest[i] = o[i]
      BY <1>11, <2>0
    <3>2. o[k] = Newline /\ \A i \in 1 .. k - 1 : o[i] # Newline
      BY <1>5
    <3> HIDE DEF k
    <3>3. QED
      BY <2>0, <3>1, <3>2
  <2> HIDE DEF k
  <2>2. FirstOf(rest, {Newline}) = k
    BY <1>11, <2>1, FirstOfAt
  <2>3. QED
    BY <2>2 DEF First, k
<1>13. UpTo(rest, Len(o)) = UpTo(o, Len(o))
  <2> DEFINE k == Len(o)
  <2>1. k \in 1 .. Len(rest) + 1 /\ k \in 1 .. Len(o) + 1
    BY <1>5, <1>11
  <2>2. /\ UpTo(rest, k) \in Seq(Tokens) /\ Len(UpTo(rest, k)) = k - 1
        /\ \A j \in 1 .. k - 1 : UpTo(rest, k)[j] = rest[j]
    BY <1>11, <2>1, Parts
  <2>3. /\ UpTo(o, k) \in Seq(Tokens) /\ Len(UpTo(o, k)) = k - 1
        /\ \A j \in 1 .. k - 1 : UpTo(o, k)[j] = o[j]
    BY <1>5, <2>1, Parts
  <2>4. \A j \in 1 .. k - 1 : rest[j] = o[j]
    BY <1>5, <1>11
  <2> DEFINE u == UpTo(rest, k)
             v == UpTo(o, k)
  <2>5. \A j \in 1 .. Len(u) : u[j] = v[j]
    BY <2>2, <2>3, <2>4
  <2> HIDE DEF u, v, k
  <2>6. u = v
    BY <2>2, <2>3, <2>5, SeqEqual DEF u, v
  <2>7. QED
    BY <2>6 DEF u, v, k
<1>14. Opened(before, rest) = Block(before, f.domain, inner)
  <2>1. Len(o) # 0
    BY <1>5
  <2>2. QED
    BY <1>5, <1>11, <1>12, <1>13, <2>1, Zenon DEF Opened
<1>15. /\ Managed(f) \in Seq(Tokens) /\ Managed(f)[1] = BeginMarker
       /\ \A i \in 2 .. Len(Managed(f)) : Managed(f)[i] # BeginMarker
  <2> DEFINE w == lines \o Closing
             m == Managed(f)
  <2>1. w \in Seq(Tokens) /\ m = o \o w
    <3>1. (o \o lines) \o Closing = o \o (lines \o Closing)
      BY <1>3, <1>5, <1>7, ConcatAssociative
    <3>2. QED
      BY <1>2, <1>3, <1>7, <3>1, ConcatProperties
  <2>2. \A i \in 1 .. Len(w) : w[i] # BeginMarker
    <3>1. ASSUME NEW i \in 1 .. Len(w) PROVE w[i] # BeginMarker
      <4>1. CASE i \in 1 .. Len(lines)
        <5>1. w[i] = lines[i]
          BY <1>3, <1>7, <4>1, Halves
        <5>2. QED
          BY <1>6, <4>1, <5>1
      <4>2. CASE i - Len(lines) \in 1 .. Len(Closing) /\ w[i] = Closing[i - Len(lines)]
        <5>1. \A j \in 1 .. Len(Closing) : Closing[j] # BeginMarker
          BY <1>4, MarksDiffer
        <5>2. QED
          BY <4>2, <5>1
      <4>3. QED
        BY <1>3, <1>7, <4>1, <4>2, HalfOf
    <3>2. QED
      BY <3>1
  <2> HIDE DEF w, m
  <2>3. m \in Seq(Tokens) /\ Len(o) \in Nat \ {0} /\ \A i \in 1 .. Len(o) : m[i] = o[i]
    BY <1>5, <2>1, Halves
  <2>4. m[1] = BeginMarker
    BY <1>5, <2>3
  <2>5. ASSUME NEW i \in 2 .. Len(m) PROVE m[i] # BeginMarker
    <3>1. i \in 1 .. Len(m)
      BY <2>3
    <3>2. CASE i \in 1 .. Len(o)
      <4>1. i \in 2 .. Len(o)
        BY <3>2
      <4>2. QED
        BY <1>5, <2>3, <3>2, <4>1
    <3>3. CASE i - Len(o) \in 1 .. Len(w) /\ m[i] = w[i - Len(o)]
      BY <2>2, <3>3
    <3>4. QED
      BY <1>5, <2>1, <3>1, <3>2, <3>3, HalfOf
  <2>6. QED
    BY <2>3, <2>4, <2>5 DEF m
<1>16. QED
  BY <1>9, <1>10, <1>14, <1>15 DEF rest, a

-----------------------------------------------------------------------------
(* The inductive invariant.                                                *)

TypedFile(f) == f \in TextFileSet /\ ~Found(f.before, BeginMarker)

EndOf(after, t) == after = <<>> \/ \E k \in 1 .. Len(t) + 1 : after = From(t, k)

\* The text can be read, whichever block of it comes to be the first one, and is what was
\* written last, if anything was.
TextInv ==
  /\ text \in Seq(Tokens) /\ Readable(text)
  /\ put = NoFile \/ (text = Render(put) /\ TypedFile(put))

\* What is read of a readable text is a file whose entries have addresses and names.
LEMMA ParsedIs ==
  ASSUME NEW t \in Seq(Tokens), Readable(t)
  PROVE  TypedFile(ParseHostFile(t)) /\ EndOf(ParseHostFile(t).after, t)
<1> DEFINE f == ParseHostFile(t)
<1>1. CASE ~Found(t, BeginMarker) /\ f = Unmanaged(t)
  <2>1. f = [before |-> t, after |-> <<>>, domain |-> NoDomain, entries |-> <<>>]
    BY <1>1 DEF Unmanaged
  <2>2. NoDomain \in Domains
    BY DEF Domains, NoDomain
  <2> HIDE DEF f
  <2>3. QED
    BY <1>1, <2>1, <2>2 DEF TypedFile, TextFileSet, EndOf, f
<1>2. CASE \E k \in 1 .. Len(t) :
              /\ t[k] = BeginMarker /\ ~Found(UpTo(t, k), BeginMarker)
              /\ From(t, k) # <<>> /\ From(t, k)[1] = BeginMarker
              /\ f = Opened(UpTo(t, k), From(t, k))
  <2>1. PICK k \in 1 .. Len(t) :
              /\ t[k] = BeginMarker /\ ~Found(UpTo(t, k), BeginMarker)
              /\ From(t, k) # <<>> /\ From(t, k)[1] = BeginMarker
              /\ f = Opened(UpTo(t, k), From(t, k))
    BY <1>2
  <2> DEFINE b == UpTo(t, k)
             r == From(t, k)
  <2>2. k \in 1 .. Len(t) + 1 /\ b \in Seq(Tokens) /\ r \in Seq(Tokens)
    BY Parts
  <2>3. k \in DOMAIN t
    OBVIOUS
  <2> HIDE DEF f, b, r
  <2>4. Managing(ParseHostFile(r)) \in FileSet
    BY <2>1, <2>3 DEF Readable, r
  <2>5. ParseHostFile(r) = Opened(<<>>, r)
    <3>1. <<>> \in Seq(Tokens) /\ ~Found(<<>>, BeginMarker)
      BY DEF Found
    <3>2. <<>> \o r = r
      BY <2>2, ConcatEmptySeq
    <3>3. ParseHostFile(<<>> \o r) = Opened(<<>>, r)
      BY <2>1, <2>2, <3>1, ParseOpens DEF r
    <3>4. QED
      BY <3>2, <3>3
  <2>6. f = Opened(b, r)
    BY <2>1 DEF b, r
  <2>7. /\ f = [before |-> b, after |-> f.after, domain |-> f.domain, entries |-> f.entries]
        /\ Managing(f) = Managing(Opened(<<>>, r))
        /\ f.after = <<>> \/ \E j \in 1 .. Len(r) + 1 : f.after = From(r, j)
    BY <2>2, <2>6, OpenedIs
  <2>8. f.domain \in Domains /\ f.entries \in Seq(EntrySet)
    <3>1. Managing(f) \in FileSet
      BY <2>4, <2>5, <2>7
    <3>2. QED
      BY <3>1 DEF Managing, FileSet
  <2>9. ASSUME NEW j \in 1 .. Len(r) + 1
        PROVE  From(r, j) \in Seq(Tokens) /\ k + j - 1 \in 1 .. Len(t) + 1 /\ From(r, j) = From(t, k + j - 1)
    <3>1. From(r, j) \in Seq(Tokens)
      BY <2>2, Parts
    <3>2. QED
      BY <2>2, <3>1, FromFrom DEF r
  <2>10. f.after \in Seq(Tokens) /\ EndOf(f.after, t)
    <3>1. CASE f.after = <<>>
      BY <3>1 DEF EndOf
    <3>2. CASE \E j \in 1 .. Len(r) + 1 : f.after = From(r, j)
      BY <2>9, <3>2 DEF EndOf
    <3>3. QED
      BY <2>7, <3>1, <3>2
  <2>11. f.before = b /\ ~Found(b, BeginMarker)
    BY <2>1, <2>7 DEF b
  <2>12. f \in TextFileSet
    BY <2>2, <2>7, <2>8, <2>10 DEF TextFileSet
  <2>13. QED
    BY <2>10, <2>11, <2>12 DEF TypedFile, f
<1>3. QED
  BY <1>1, <1>2, ParseSplits

\* An edit changes the block only, and leaves it a block of names.
LEMMA EditedIs ==
  ASSUME NEW e \in EditSet, NEW f, TypedFile(f)
  PROVE  /\ TypedFile(Edited(e, f))
         /\ Edited(e, f).before = f.before /\ Edited(e, f).after = f.after
<1> DEFINE m == Managing(f)
           g == CASE e.op = "set"    -> SetName(m, e.name, e.ip)
                  [] e.op = "remove" -> RemoveName(m, e.name)
                  [] e.op = "clear"  -> ClearNames(m)
                  [] e.op = "domain" -> Requalify(m, e.domain)
<1>1. /\ f.before \in Seq(Tokens) /\ f.after \in Seq(Tokens)
      /\ f.domain \in Domains /\ f.entries \in Seq(EntrySet) /\ ~Found(f.before, BeginMarker)
  BY DEF TypedFile, TextFileSet
<1>2. m \in FileSet
  BY <1>1 DEF Managing, FileSet
<1>3. g \in FileSet
  <2> HIDE DEF m
  <2>1. CASE e.op = "set"
    <3>1. e.name \in NameSet /\ e.ip \in Nat \ {NoAddress}
      BY <2>1 DEF EditSet
    <3>2. g = SetName(m, e.name, e.ip)
      BY <2>1
    <3>3. QED
      BY <1>2, <3>1, <3>2, SetKeepsType
  <2>2. CASE e.op = "remove"
    <3>1. e.name \in NameSet
      BY <2>2 DEF EditSet
    <3>2. g = RemoveName(m, e.name)
      BY <2>2
    <3>3. QED
      BY <1>2, <3>1, <3>2, RemoveThins
  <2>3. CASE e.op = "clear"
    <3>1. g = ClearNames(m)
      BY <2>3
    <3> HIDE DEF g
    <3>2. m.domain \in Domains /\ m = [domain |-> m.domain, entries |-> m.entries]
      BY <1>2 DEF FileSet
    <3>3. g = [domain |-> m.domain, entries |-> <<>>]
      BY <3>1, <3>2 DEF ClearNames
    <3>4. QED
      BY <3>2, <3>3 DEF FileSet
  <2>4. CASE e.op = "domain"
    <3>1. e.domain \in Domains
      BY <2>4 DEF EditSet
    <3>2. g = Requalify(m, e.domain)
      BY <2>4
    <3>3. QED
      BY <1>2, <3>1, <3>2, RequalifyKeepsOne
  <2>5. e.op \in {"set", "remove", "clear", "domain"}
    BY DEF EditSet
  <2>6. QED
    BY <2>1, <2>2, <2>3, <2>4, <2>5
<1>4. Edited(e, f) = [before |-> f.before, after |-> f.after, domain |-> g.domain, entries |-> g.entries]
  BY Zenon DEF Edited
<1> HIDE DEF g
<1>5. g.domain \in Domains /\ g.entries \in Seq(EntrySet)
  BY <1>3 DEF FileSet
<1>6. QED
  BY <1>1, <1>4, <1>5 DEF TypedFile, TextFileSet

\* Ending the text before the block adds no marker.
LEMMA ClosedIs ==
  ASSUME NEW b \in Seq(Tokens), ~Found(b, BeginMarker)
  PROVE  Closed(b) \in Seq(Tokens) /\ ~Found(Closed(b), BeginMarker)
<1>1. CASE Closed(b) = b
  BY <1>1
<1>2. CASE Closed(b) = Append(b, Newline)
  <2> DEFINE c == Append(b, Newline)
  <2>1. Newline \in Tokens /\ Newline # BeginMarker
    BY MarksDiffer DEF Tokens, Marks
  <2>2. /\ c \in Seq(Tokens) /\ DOMAIN c = 1 .. Len(b) + 1 /\ DOMAIN b = 1 .. Len(b)
        /\ c[Len(b) + 1] = Newline /\ \A i \in 1 .. Len(b) : c[i] = b[i]
    BY <2>1
  <2>3. \A i \in 1 .. Len(b) + 1 : i \in 1 .. Len(b) \/ i = Len(b) + 1
    OBVIOUS
  <2> HIDE DEF c
  <2>4. ~Found(c, BeginMarker)
    BY <2>1, <2>2, <2>3 DEF Found
  <2>5. QED
    BY <1>2, <2>2, <2>4 DEF c
<1>3. QED
  BY <1>1, <1>2 DEF Closed

\* What was written is what is read of it: domain, entries and the text on both sides
\* (Render, then ParseHostFile).
THEOREM RenderRead ==
  ASSUME NEW f, TypedFile(f), Managed(f) # <<>>
  PROVE  ParseHostFile(Render(f)) = [before |-> Closed(f.before), domain |-> f.domain,
                                     after |-> f.after, entries |-> f.entries]
<1> DEFINE b == Closed(f.before)
           m == Managed(f)
           a == f.after
           rest == m \o a
           s == Render(f)
<1>1. /\ f.before \in Seq(Tokens) /\ a \in Seq(Tokens) /\ f \in TextFileSet
      /\ f.domain \in Domains /\ f.entries \in Seq(EntrySet) /\ ~Found(f.before, BeginMarker)
  BY DEF TypedFile, TextFileSet
<1>2. b \in Seq(Tokens) /\ ~Found(b, BeginMarker)
  BY <1>1, ClosedIs
<1>3. m \in Seq(Tokens)
  <2>1. CASE m = <<>>
    BY <2>1, EmptySeq
  <2>2. CASE m # <<>>
    BY <1>1, <1>2, <2>2, ManagedRead
  <2>3. QED
    BY <2>1, <2>2
<1>4. rest \in Seq(Tokens) /\ s = b \o rest
  <2>1. s = (b \o m) \o a
    BY DEF Render
  <2> HIDE DEF b, m, a, s
  <2>2. rest \in Seq(Tokens)
    BY <1>1, <1>3, ConcatProperties
  <2>3. (b \o m) \o a = b \o (m \o a)
    <3>1. b \in Seq(Tokens) /\ m \in Seq(Tokens) /\ a \in Seq(Tokens)
      BY <1>1, <1>2, <1>3
    <3>2. QED
      BY <3>1, ConcatAssociative
  <2>4. QED
    BY <2>1, <2>2, <2>3
<1>5. ParseHostFile(s) = [before |-> b, domain |-> f.domain, after |-> a, entries |-> f.entries]
  <2>1. /\ m[1] = BeginMarker /\ m # <<>>
        /\ Opened(b, rest) = [before |-> b, domain |-> f.domain, after |-> a, entries |-> f.entries]
    BY <1>1, <1>2, ManagedRead
  <2> HIDE DEF m, a, b
  <2>2. rest[1] = BeginMarker /\ rest # <<>>
    <3>1. 1 \in 1 .. Len(m)
      BY <1>3, <2>1
    <3>2. rest[1] = m[1] /\ Len(rest) = Len(m) + Len(a) /\ Len(a) \in Nat
      BY <1>1, <1>3, <3>1, Halves
    <3>3. Len(rest) # 0
      BY <3>1, <3>2
    <3>4. QED
      BY <2>1, <3>2, <3>3
  <2> HIDE DEF rest
  <2>3. ParseHostFile(b \o rest) = Opened(b, rest)
    BY <1>2, <1>4, <2>2, ParseOpens
  <2>4. QED
    BY <1>4, <2>1, <2>3
<1>6. QED
  BY <1>5

\* What is written can be read as what it was written from.
LEMMA RenderReadable ==
  ASSUME NEW t \in Seq(Tokens), Readable(t), NEW f, TypedFile(f), EndOf(f.after, t)
  PROVE  Render(f) \in Seq(Tokens) /\ Readable(Render(f))
<1> DEFINE b == Closed(f.before)
           m == Managed(f)
           a == f.after
           rest == m \o a
           s == Render(f)
<1>1. /\ f.before \in Seq(Tokens) /\ a \in Seq(Tokens) /\ f \in TextFileSet
      /\ f.domain \in Domains /\ f.entries \in Seq(EntrySet) /\ ~Found(f.before, BeginMarker)
  BY DEF TypedFile, TextFileSet
<1>2. b \in Seq(Tokens) /\ ~Found(b, BeginMarker)
  BY <1>1, ClosedIs
<1>3. m \in Seq(Tokens)
  <2>1. CASE m = <<>>
    BY <2>1, EmptySeq
  <2>2. CASE m # <<>>
    BY <1>1, <1>2, <2>2, ManagedRead
  <2>3. QED
    BY <2>1, <2>2
<1>4. rest \in Seq(Tokens) /\ s = b \o rest
  <2>1. s = (b \o m) \o a
    BY DEF Render
  <2> HIDE DEF b, m, a, s
  <2>2. rest \in Seq(Tokens)
    BY <1>1, <1>3, ConcatProperties
  <2>3. (b \o m) \o a = b \o (m \o a)
    <3>1. b \in Seq(Tokens) /\ m \in Seq(Tokens) /\ a \in Seq(Tokens)
      BY <1>1, <1>2, <1>3
    <3>2. QED
      BY <3>1, ConcatAssociative
  <2>4. QED
    BY <2>1, <2>2, <2>3
<1>5. s \in Seq(Tokens)
  <2> HIDE DEF b, rest, s
  <2>1. QED
    BY <1>2, <1>4, Halves
<1>6. \A j \in 1 .. Len(a) : a[j] = BeginMarker => Managing(ParseHostFile(From(a, j))) \in FileSet
  <2>1. CASE a = <<>>
    BY <2>1
  <2>2. CASE \E k \in 1 .. Len(t) + 1 : a = From(t, k)
    <3>1. PICK k \in 1 .. Len(t) + 1 : a = From(t, k)
      BY <2>2
    <3> HIDE DEF a
    <3>2. ASSUME NEW j \in 1 .. Len(a), a[j] = BeginMarker
          PROVE  Managing(ParseHostFile(From(a, j))) \in FileSet
      <4>1. Len(a) = Len(t) - k + 1 /\ \A i \in 1 .. Len(t) - k + 1 : a[i] = t[k + i - 1]
        BY <3>1, Parts
      <4>2. t[k + j - 1] = BeginMarker /\ k + j - 1 \in DOMAIN t
        BY <3>2, <4>1
      <4>3. j \in 1 .. Len(a) + 1
        BY <1>1
      <4>4. From(a, j) = From(t, k + j - 1)
        BY <3>1, <4>3, FromFrom
      <4>5. QED
        BY <4>2, <4>4 DEF Readable
    <3>3. QED
      BY <3>2
  <2>3. QED
    BY <2>1, <2>2 DEF EndOf
<1>7. ASSUME NEW i \in 1 .. Len(rest), rest[i] = BeginMarker
      PROVE  Managing(ParseHostFile(From(rest, i))) \in FileSet
  <2> HIDE DEF m, a
  <2>1. CASE i \in 1 .. Len(m)
    <3>1. m # <<>> /\ m[i] = BeginMarker
      BY <1>1, <1>3, <1>7, <2>1, Halves
    <3>2. /\ m[1] = BeginMarker /\ \A j \in 2 .. Len(m) : m[j] # BeginMarker
          /\ Opened(<<>>, rest) = [before |-> <<>>, domain |-> f.domain, after |-> a, entries |-> f.entries]
      <4>1. <<>> \in Seq(Tokens) /\ ~Found(<<>>, BeginMarker)
        BY DEF Found
      <4>2. QED
        BY <1>1, <3>1, <4>1, ManagedRead DEF m, a
    <3>3. i = 1
      BY <1>3, <2>1, <3>1, <3>2
    <3>4. rest # <<>> /\ From(rest, 1) = rest
      <4> HIDE DEF rest
      <4>1. Len(rest) # 0
        BY <1>4, <1>7
      <4>2. QED
        BY <1>4, <4>1, SubSeqFull DEF From
    <3>5. ParseHostFile(rest) = Opened(<<>>, rest)
      <4>1. <<>> \in Seq(Tokens) /\ ~Found(<<>>, BeginMarker)
        BY DEF Found
      <4> HIDE DEF rest
      <4>2. <<>> \o rest = rest
        BY <1>4, ConcatEmptySeq
      <4>3. ParseHostFile(<<>> \o rest) = Opened(<<>>, rest)
        BY <1>4, <1>7, <3>3, <3>4, <4>1, ParseOpens
      <4>4. QED
        BY <4>2, <4>3
    <3>6. Managing(Opened(<<>>, rest)) \in FileSet
      BY <1>1, <3>2 DEF Managing, FileSet
    <3>7. QED
      BY <3>3, <3>4, <3>5, <3>6
  <2>2. CASE i - Len(m) \in 1 .. Len(a) /\ rest[i] = a[i - Len(m)]
    <3> DEFINE j == i - Len(m)
    <3>1. a[j] = BeginMarker /\ j \in 1 .. Len(a)
      BY <1>7, <2>2
    <3>2. From(rest, i) = From(a, j)
      <4>1. From(rest, Len(m) + 1) = a
        BY <1>1, <1>3, Halves
      <4>2. Len(m) + 1 \in 1 .. Len(rest) + 1 /\ Len(m) \in Nat /\ Len(a) \in Nat
        BY <1>1, <1>3, Halves
      <4>3. j \in 1 .. Len(a) + 1 /\ (Len(m) + 1) + j - 1 = i
        BY <3>1, <4>2
      <4> HIDE DEF rest, j
      <4>4. From(From(rest, Len(m) + 1), j) = From(rest, (Len(m) + 1) + j - 1)
        BY <1>4, <4>1, <4>2, <4>3, FromFrom
      <4>5. QED
        BY <4>1, <4>3, <4>4
    <3>3. QED
      BY <1>6, <3>1, <3>2
  <2>3. QED
    BY <1>1, <1>3, <2>1, <2>2, HalfOf
<1>8. Readable(s)
  <2> HIDE DEF b, rest, s
  <2>1. ASSUME NEW i \in 1 .. Len(s), s[i] = BeginMarker
        PROVE  Managing(ParseHostFile(From(s, i))) \in FileSet
    <3>1. CASE i \in 1 .. Len(b)
      <4>1. b[i] = BeginMarker
        BY <1>2, <1>4, <2>1, <3>1, Halves
      <4>2. Found(b, BeginMarker)
        BY <1>2, <3>1, <4>1 DEF Found
      <4>3. QED
        BY <1>2, <4>2
    <3>2. CASE i - Len(b) \in 1 .. Len(rest) /\ s[i] = rest[i - Len(b)]
      <4> DEFINE j == i - Len(b)
      <4>1. rest[j] = BeginMarker /\ j \in 1 .. Len(rest)
        BY <2>1, <3>2
      <4>2. From(s, i) = From(rest, j)
        <5>1. From(s, Len(b) + 1) = rest /\ Len(s) = Len(b) + Len(rest)
          BY <1>2, <1>4, Halves
        <5>2. Len(b) \in Nat /\ Len(rest) \in Nat
          BY <1>2, <1>4
        <5>3. Len(b) + 1 \in 1 .. Len(s) + 1
          BY <5>1, <5>2
        <5>4. j \in 1 .. Len(rest) + 1 /\ (Len(b) + 1) + j - 1 = i
          BY <4>1, <5>2
        <5> HIDE DEF j
        <5>5. From(From(s, Len(b) + 1), j) = From(s, (Len(b) + 1) + j - 1)
          BY <1>5, <5>1, <5>3, <5>4, FromFrom
        <5>6. QED
          BY <5>1, <5>4, <5>5
      <4>3. QED
        BY <1>7, <4>1, <4>2
    <3>3. QED
      BY <1>2, <1>4, <2>1, <3>1, <3>2, HalfOf
  <2>2. DOMAIN s = 1 .. Len(s)
    BY <1>5
  <2>3. QED
    BY <2>1, <2>2 DEF Readable
<1>9. QED
  BY <1>5, <1>8

\* Every edit reads a readable text, and leaves one (services/hosts.go).
LEMMA EditStep ==
  ASSUME TextInv, NEW e \in EditSet
  PROVE  LET g == Edited(e, ParseHostFile(text)) IN
           TypedFile(g) /\ Render(g) \in Seq(Tokens) /\ Readable(Render(g))
<1> DEFINE f == ParseHostFile(text)
           g == Edited(e, f)
<1>1. text \in Seq(Tokens) /\ Readable(text)
  BY DEF TextInv
<1>2. TypedFile(f) /\ EndOf(f.after, text)
  BY <1>1, ParsedIs
<1> HIDE DEF f
<1>3. TypedFile(g) /\ g.after = f.after
  BY <1>2, EditedIs
<1> HIDE DEF g
<1>4. EndOf(g.after, text)
  BY <1>2, <1>3
<1>5. QED
  BY <1>1, <1>3, <1>4, RenderReadable DEF f, g

\* The invariant is inductive.
THEOREM TextInductive == Spec => []TextInv
<1>1. Init => TextInv
  <2> SUFFICES ASSUME Init PROVE TextInv
    OBVIOUS
  <2>1. CASE text \in InitTexts
    BY <2>1, TextsAssumption DEF Init, TextInv
  <2>2. CASE text = <<>>
    <3>1. text \in Seq(Tokens) /\ DOMAIN text = {}
      BY <2>2
    <3>2. Readable(text)
      BY <3>1 DEF Readable
    <3>3. QED
      BY <3>1, <3>2 DEF Init, TextInv
  <2>3. QED
    BY <2>1, <2>2 DEF Init
<1>2. TextInv /\ [Next]_vars => TextInv'
  <2> SUFFICES ASSUME TextInv, [Next]_vars PROVE TextInv'
    OBVIOUS
  <2>1. ASSUME NEW e \in Edits, Edit(e) PROVE TextInv'
    <3>1. e \in EditSet
      BY EditsAssumption
    <3>2. text' = Render(put') /\ put' = Edited(e, ParseHostFile(text))
      BY <2>1 DEF Edit
    <3>3. TypedFile(put') /\ Render(put') \in Seq(Tokens) /\ Readable(Render(put'))
      BY <3>1, <3>2, EditStep
    <3>4. QED
      BY <3>2, <3>3 DEF TextInv
  <2>2. CASE UNCHANGED <<text, put>>
    BY <2>2 DEF TextInv
  <2>3. CASE Import
    BY <2>2, <2>3 DEF Import
  <2>4. CASE Export
    BY <2>2, <2>4 DEF Export
  <2>5. CASE UNCHANGED vars
    BY <2>2, <2>5 DEF vars
  <2>6. QED
    BY <2>1, <2>3, <2>4, <2>5 DEF Next
<1>3. QED
  BY <1>1, <1>2, PTL DEF Spec

\* What one command wrote is what the next one reads (ReadBackIsPut), from every text
\* whose blocks have addresses and names, and for every sequence of edits.
THEOREM ReadBackSafe == Spec => []ReadBackIsPut
<1>1. TextInv => ReadBackIsPut
  <2> SUFFICES ASSUME TextInv, put # NoFile, Managed(put) # <<>>
               PROVE  ParseHostFile(text) = [put EXCEPT !.before = Closed(@)]
    BY DEF ReadBackIsPut
  <2>1. text = Render(put) /\ TypedFile(put)
    BY DEF TextInv
  <2>2. put = [before |-> put.before, after |-> put.after, domain |-> put.domain, entries |-> put.entries]
    BY <2>1 DEF TypedFile, TextFileSet
  <2>3. [put EXCEPT !.before = Closed(put.before)] =
          [before |-> Closed(put.before), domain |-> put.domain, after |-> put.after, entries |-> put.entries]
    BY <2>2
  <2>4. QED
    BY <2>1, <2>3, RenderRead
<1>2. QED
  BY <1>1, TextInductive, PTL

-----------------------------------------------------------------------------
(* What the router answers.                                                *)

\* Addresses are no marks.
LEMMA AddressIsNoMark ==
  \A x \in Marks : "ip" \notin DOMAIN x
<1>1. \A m : DOMAIN [mark |-> m] = {"mark"}
  OBVIOUS
<1>2. "ip" # "mark"
  OBVIOUS
<1>3. \A x \in Marks : \E m : x = [mark |-> m]
  BY DEF Marks, CommentSigns, Newline, BeginMarker, EndMarker, DomainKey, Comment, Rejected
<1>4. QED
  BY <1>1, <1>2, <1>3

\* An answer is a pair of positions.
LEMMA ServedIs ==
  ASSUME NEW T, NEW t \in Seq(T), NEW a
  PROVE  a \in Served(t) <=>
           \E i, j \in 1 .. Len(t) : ServedAt(t, i, j) /\ a = <<t[i].ip, t[j]>>
<1> DEFINE D == (1 .. Len(t)) \X (1 .. Len(t))
<1>1. a \in Served(t) <=> \E p \in D : ServedAt(t, p[1], p[2]) /\ a = <<t[p[1]].ip, t[p[2]]>>
  BY DEF Served
<1>2. ASSUME NEW i \in 1 .. Len(t), NEW j \in 1 .. Len(t)
      PROVE  <<i, j>> \in D /\ <<i, j>>[1] = i /\ <<i, j>>[2] = j
  OBVIOUS
<1>3. \A p \in D : p[1] \in 1 .. Len(t) /\ p[2] \in 1 .. Len(t)
  OBVIOUS
<1> HIDE DEF D
<1>4. ASSUME a \in Served(t)
      PROVE  \E i, j \in 1 .. Len(t) : ServedAt(t, i, j) /\ a = <<t[i].ip, t[j]>>
  BY <1>1, <1>3, <1>4
<1>5. ASSUME NEW i \in 1 .. Len(t), NEW j \in 1 .. Len(t), ServedAt(t, i, j), a = <<t[i].ip, t[j]>>
      PROVE  a \in Served(t)
  <2> DEFINE p == <<i, j>>
  <2>1. p \in D /\ p[1] = i /\ p[2] = j
    BY <1>2
  <2> HIDE DEF p
  <2>2. ServedAt(t, p[1], p[2]) /\ a = <<t[p[1]].ip, t[p[2]]>>
    BY <1>5, <2>1
  <2>3. QED
    BY <1>1, <2>1, <2>2
<1>6. QED
  BY <1>4, <1>5

Ended(s) == s = <<>> \/ s[Len(s)] = Newline

\* A text answers what a part of it answers that begins at a line.
LEMMA ServedInside ==
  ASSUME NEW x \in Seq(Tokens), Ended(x), NEW b \in Seq(Tokens), NEW y \in Seq(Tokens)
  PROVE  Served(b) \subseteq Served(x \o (b \o y))
<1> DEFINE t == x \o (b \o y)
           c == b \o y
           L == Len(x)
<1>1. /\ c \in Seq(Tokens) /\ Len(c) = Len(b) + Len(y) /\ Len(b) \in Nat /\ Len(y) \in Nat
      /\ \A i \in 1 .. Len(b) : c[i] = b[i]
  BY Halves
<1> HIDE DEF c
<1>2. /\ t \in Seq(Tokens) /\ Len(t) = L + Len(c) /\ L \in Nat
      /\ \A i \in 1 .. Len(c) : t[L + i] = c[i]
      /\ \A i \in 1 .. L : t[i] = x[i]
  <2>1. x \o c \in Seq(Tokens) /\ Len(x \o c) = L + Len(c) /\ L \in Nat
        /\ (\A i \in 1 .. Len(c) : (x \o c)[L + i] = c[i])
        /\ (\A i \in 1 .. L : (x \o c)[i] = x[i])
    <3>1. c \in Seq(Tokens) /\ L \in Nat
      BY <1>1
    <3>2. QED
      BY <3>1, Halves
  <2>2. QED
    BY <2>1 DEF c
<1>3. \A i \in 1 .. Len(b) : t[L + i] = b[i] /\ L + i \in 1 .. Len(t)
  BY <1>1, <1>2
<1>4. L # 0 => t[L] = Newline
  <2>1. x = <<>> => L = 0
    OBVIOUS
  <2>2. ASSUME L # 0 PROVE t[L] = Newline
    <3>1. x[L] = Newline /\ L \in 1 .. L
      BY <1>2, <2>1, <2>2 DEF Ended
    <3>2. QED
      BY <1>2, <3>1
  <2>3. QED
    BY <2>2
<1> HIDE DEF t, L
<1>5. ASSUME NEW i \in 1 .. Len(b), NEW j \in 1 .. Len(b), ServedAt(b, i, j)
      PROVE  ServedAt(t, L + i, L + j)
  <2>1. /\ "ip" \in DOMAIN b[i] /\ i < j /\ (i = 1 \/ b[i - 1] = Newline)
        /\ \A k \in i .. j : b[k] \notin CommentSigns \cup {Newline}
    BY <1>5 DEF ServedAt
  <2>2. t[L + i] = b[i] /\ L + i < L + j
    BY <1>2, <1>3, <2>1
  <2>3. L + i = 1 \/ t[(L + i) - 1] = Newline
    <3>1. CASE i = 1
      BY <1>2, <1>4, <3>1
    <3>2. CASE i # 1
      <4>1. b[i - 1] = Newline /\ i - 1 \in 1 .. Len(b) /\ (L + i) - 1 = L + (i - 1)
        BY <1>2, <2>1, <3>2
      <4>2. QED
        BY <1>3, <4>1
    <3>3. QED
      BY <3>1, <3>2
  <2>4. ASSUME NEW k \in L + i .. L + j PROVE t[k] \notin CommentSigns \cup {Newline}
    <3> DEFINE h == k - L
    <3>1. h \in i .. j /\ h \in 1 .. Len(b) /\ k = L + h
      BY <1>1, <1>2
    <3> HIDE DEF h
    <3>2. QED
      BY <1>3, <2>1, <3>1
  <2>5. QED
    <3>1. "ip" \in DOMAIN t[L + i]
      BY <2>1, <2>2
    <3> DEFINE p == L + i
               q == L + j
    <3>2. "ip" \in DOMAIN t[p] /\ p < q
      BY <3>1, <2>2
    <3>3. p = 1 \/ t[p - 1] = Newline
      BY <2>3
    <3>4. \A k \in p .. q : t[k] \notin CommentSigns \cup {Newline}
      BY <2>4
    <3> HIDE DEF p, q
    <3>5. ServedAt(t, p, q)
      BY <3>2, <3>3, <3>4 DEF ServedAt
    <3>6. QED
      BY <3>5 DEF p, q
<1>6. ASSUME NEW a \in Served(b) PROVE a \in Served(t)
  <2>1. PICK i \in 1 .. Len(b), j \in 1 .. Len(b) : ServedAt(b, i, j) /\ a = <<b[i].ip, b[j]>>
    BY ServedIs
  <2>2. a = <<t[L + i].ip, t[L + j]>> /\ L + i \in 1 .. Len(t) /\ L + j \in 1 .. Len(t)
    BY <1>3, <2>1
  <2>3. ServedAt(t, L + i, L + j)
    BY <1>5, <2>1
  <2>4. QED
    BY <1>2, <2>2, <2>3, ServedIs
<1>7. QED
  BY <1>6 DEF t

\* An answer that stands in the end of a text, from the start of a line on, is an answer
\* of that end.
LEMMA ServedFrom ==
  ASSUME NEW t \in Seq(Tokens), NEW k \in 1 .. Len(t) + 1,
         NEW i \in 1 .. Len(t), NEW j \in 1 .. Len(t), ServedAt(t, i, j), k <= i
  PROVE  <<t[i].ip, t[j]>> \in Served(From(t, k))
<1> DEFINE r == From(t, k)
           p == i - k + 1
           q == j - k + 1
<1>1. /\ r \in Seq(Tokens) /\ Len(r) = Len(t) - k + 1 /\ Len(t) \in Nat
      /\ \A h \in 1 .. Len(t) - k + 1 : r[h] = t[k + h - 1]
  <2> HIDE DEF p, q
  <2>1. /\ From(t, k) \in Seq(Tokens) /\ Len(From(t, k)) = Len(t) - k + 1
        /\ \A h \in 1 .. Len(t) - k + 1 : From(t, k)[h] = t[k + h - 1]
    BY Parts
  <2>2. Len(t) \in Nat
    OBVIOUS
  <2> HIDE DEF r
  <2>3. QED
    BY <2>1, <2>2 DEF r
<1>2. /\ "ip" \in DOMAIN t[i] /\ i < j /\ (i = 1 \/ t[i - 1] = Newline)
      /\ \A h \in i .. j : t[h] \notin CommentSigns \cup {Newline}
  BY DEF ServedAt
<1> HIDE DEF r
<1>3. p \in 1 .. Len(r) /\ q \in 1 .. Len(r) /\ p < q /\ k + p - 1 = i /\ k + q - 1 = j
  BY <1>1, <1>2
<1>4. r[p] = t[i] /\ r[q] = t[j]
  <2> HIDE DEF p, q
  <2>1. p \in 1 .. Len(t) - k + 1 /\ q \in 1 .. Len(t) - k + 1
    BY <1>1, <1>3
  <2>2. r[p] = t[k + p - 1] /\ r[q] = t[k + q - 1]
    BY <1>1, <2>1
  <2>3. QED
    BY <1>3, <2>2
<1>5. p = 1 \/ r[p - 1] = Newline
  <2>1. CASE p # 1
    <3>1. p - 1 \in 1 .. Len(t) - k + 1 /\ k + (p - 1) - 1 = i - 1 /\ i # 1
      BY <1>1, <1>3, <2>1
    <3>2. r[p - 1] = t[k + (p - 1) - 1]
      BY <1>1, <3>1
    <3>3. QED
      BY <1>2, <3>1, <3>2
  <2>2. QED
    BY <2>1
<1>6. ASSUME NEW h \in p .. q PROVE r[h] \notin CommentSigns \cup {Newline}
  <2>1. h \in 1 .. Len(t) - k + 1 /\ k + h - 1 \in i .. j
    BY <1>1, <1>3
  <2>2. r[h] = t[k + h - 1]
    BY <1>1, <2>1
  <2>3. QED
    BY <1>2, <2>1, <2>2
<1>7. ServedAt(r, p, q)
  BY <1>2, <1>3, <1>4, <1>5, <1>6 DEF ServedAt
<1> HIDE DEF p, q
<1>8. QED
  BY <1>1, <1>3, <1>4, <1>7, ServedIs DEF r

\* A comment sign parts the answers.
LEMMA ServedApart ==
  ASSUME NEW t \in Seq(Tokens), NEW k \in 1 .. Len(t), t[k] \in CommentSigns
  PROVE  Served(t) \subseteq Served(UpTo(t, k)) \cup Served(From(t, k))
<1> SUFFICES ASSUME NEW a \in Served(t) PROVE a \in Served(UpTo(t, k)) \cup Served(From(t, k))
  OBVIOUS
<1>1. PICK i \in 1 .. Len(t), j \in 1 .. Len(t) : ServedAt(t, i, j) /\ a = <<t[i].ip, t[j]>>
  BY ServedIs
<1>2. /\ "ip" \in DOMAIN t[i] /\ i < j /\ (i = 1 \/ t[i - 1] = Newline)
      /\ \A h \in i .. j : t[h] \notin CommentSigns \cup {Newline}
  BY <1>1 DEF ServedAt
<1>3. CASE k <= i
  BY <1>1, <1>3, ServedFrom
<1>4. CASE j < k
  <2> DEFINE u == UpTo(t, k)
  <2>1. u \in Seq(Tokens) /\ Len(u) = k - 1 /\ \A h \in 1 .. k - 1 : u[h] = t[h]
    BY Parts
  <2> HIDE DEF u
  <2>2. i \in 1 .. Len(u) /\ j \in 1 .. Len(u) /\ u[i] = t[i] /\ u[j] = t[j]
    BY <1>2, <1>4, <2>1
  <2>3. ServedAt(u, i, j)
    <3>1. i = 1 \/ u[i - 1] = Newline
      BY <1>2, <2>1, <2>2
    <3>2. \A h \in i .. j : u[h] \notin CommentSigns \cup {Newline}
      BY <1>2, <2>1, <2>2
    <3>3. QED
      BY <1>2, <2>2, <3>1, <3>2 DEF ServedAt
  <2>4. a \in Served(u)
    BY <1>1, <2>1, <2>2, <2>3, ServedIs
  <2>5. QED
    BY <2>4 DEF u
<1>5. k <= i \/ j < k
  BY <1>2
<1>6. QED
  BY <1>3, <1>4, <1>5

\* A comment answers nothing, to the end of its line.
LEMMA ServedNext ==
  ASSUME NEW t \in Seq(Tokens), t # <<>>, t[1] \in CommentSigns
  PROVE  /\ First(t, Newline) \in 0 .. Len(t)
         /\ First(t, Newline) = 0 => Served(t) = {}
         /\ First(t, Newline) # 0 => Served(t) \subseteq Served(From(t, First(t, Newline) + 1))
<1> DEFINE n == First(t, Newline)
<1>1. /\ n \in 0 .. Len(t)
      /\ n = 0 => \A i \in 1 .. Len(t) : t[i] # Newline
      /\ n # 0 => \A i \in 1 .. n - 1 : t[i] # Newline
  <2> DEFINE j == FirstOf(t, {Newline})
  <2>1. /\ j \in 0 .. Len(t)
        /\ j = 0 => \A i \in 1 .. Len(t) : t[i] \notin {Newline}
        /\ j # 0 => \A i \in 1 .. j - 1 : t[i] \notin {Newline}
    BY FirstOfIs
  <2>2. j = n
    BY DEF First
  <2> HIDE DEF j, n
  <2>3. QED
    BY <2>1, <2>2
<1> HIDE DEF n
<1>2. ASSUME NEW a \in Served(t)
      PROVE  n # 0 /\ a \in Served(From(t, n + 1))
  <2>1. PICK i \in 1 .. Len(t), j \in 1 .. Len(t) : ServedAt(t, i, j) /\ a = <<t[i].ip, t[j]>>
    BY ServedIs
  <2>2. "ip" \in DOMAIN t[i] /\ (i = 1 \/ t[i - 1] = Newline)
    BY <2>1 DEF ServedAt
  <2>3. i # 1
    BY <2>2, AddressIsNoMark DEF Marks
  <2>4. t[i - 1] = Newline /\ i - 1 \in 1 .. Len(t)
    BY <2>2, <2>3
  <2>5. n # 0 /\ ~(i - 1 < n)
    BY <1>1, <2>4
  <2>6. n + 1 \in 1 .. Len(t) + 1 /\ n + 1 <= i
    BY <1>1, <2>5
  <2>7. QED
    BY <2>1, <2>5, <2>6, ServedFrom
<1>3. QED
  BY <1>1, <1>2 DEF n

\* The answers of the entries of a block.
InEntry(a, e) == a[1] = e.ip /\ a[2] \in ToSet(e.names)
InEntries(a, entries) == \E n \in DOMAIN entries : InEntry(a, entries[n])

\* More entries have the answers of the first ones and of those that were added.
LEMMA InMore ==
  ASSUME NEW T, NEW es \in Seq(T), NEW xs \in Seq(T), NEW a
  PROVE  InEntries(a, es) \/ InEntries(a, xs) => InEntries(a, es \o xs)
<1>1. /\ DOMAIN es = 1 .. Len(es) /\ DOMAIN xs = 1 .. Len(xs) /\ DOMAIN (es \o xs) = 1 .. Len(es \o xs)
      /\ Len(es \o xs) = Len(es) + Len(xs) /\ Len(es) \in Nat /\ Len(xs) \in Nat
      /\ \A i \in 1 .. Len(es) : (es \o xs)[i] = es[i]
      /\ \A i \in 1 .. Len(xs) : (es \o xs)[Len(es) + i] = xs[i]
  OBVIOUS
<1> DEFINE all == es \o xs
<1> HIDE DEF all
<1>2. ASSUME NEW n \in DOMAIN es, InEntry(a, es[n]) PROVE InEntries(a, all)
  <2>1. n \in DOMAIN all /\ all[n] = es[n]
    BY <1>1 DEF all
  <2>2. QED
    BY <1>2, <2>1 DEF InEntries
<1>3. ASSUME NEW n \in DOMAIN xs, InEntry(a, xs[n]) PROVE InEntries(a, all)
  <2>1. Len(es) + n \in DOMAIN all /\ all[Len(es) + n] = xs[n]
    BY <1>1 DEF all
  <2>2. QED
    BY <1>3, <2>1 DEF InEntries
<1>4. QED
  BY <1>2, <1>3 DEF InEntries, all

\* A line that answers gives an entry with that answer.
LEMMA EntryAnswers ==
  ASSUME NEW l \in Seq(Tokens), NEW j \in 2 .. Len(l),
         \A k \in 1 .. j : l[k] \notin CommentSigns
  PROVE  InEntries(<<l[1].ip, l[j]>>, Entry(l))
<1> DEFINE sign == FirstOf(l, CommentSigns)
           fields == IF sign = 0 THEN l ELSE UpTo(l, sign)
           e == [ip |-> fields[1].ip, names |-> Tail(fields)]
<1>1. /\ sign \in 0 .. Len(l) /\ Len(l) \in Nat
      /\ sign # 0 => l[sign] \in CommentSigns
  BY FirstOfIs
<1>2. sign # 0 => j < sign
  <2> HIDE DEF sign
  <2>1. QED
    BY <1>1
<1>3. /\ fields \in Seq(Tokens) /\ Len(fields) \in Nat /\ j \in 2 .. Len(fields)
      /\ \A k \in 1 .. Len(fields) : fields[k] = l[k]
  <2> HIDE DEF sign
  <2>1. CASE sign = 0
    BY <1>1, <2>1
  <2>2. CASE sign # 0
    <3> DEFINE u == UpTo(l, sign)
    <3>1. sign \in 1 .. Len(l) + 1
      BY <1>1, <2>2
    <3>2. u \in Seq(Tokens) /\ Len(u) = sign - 1 /\ \A k \in 1 .. sign - 1 : u[k] = l[k]
      BY <3>1, Parts
    <3>3. fields = u
      BY <2>2
    <3> HIDE DEF fields, u
    <3>4. QED
      BY <1>1, <1>2, <2>2, <3>1, <3>2, <3>3
  <2>3. QED
    BY <2>1, <2>2
<1>4. Entry(l) = IF Len(fields) < 2 THEN <<>> ELSE <<e>>
  BY Zenon DEF Entry
<1> HIDE DEF fields, sign
<1>5. fields[1] = l[1] /\ fields[j] = l[j] /\ ~(Len(fields) < 2)
  BY <1>3
<1>6. Entry(l) = <<e>>
  BY <1>4, <1>5
<1>7. l[j] \in ToSet(Tail(fields))
  <2> DEFINE s == Tail(fields)
  <2>1. fields # <<>>
    BY <1>3
  <2>2. s \in Seq(Tokens) /\ Len(s) = Len(fields) - 1 /\ \A i \in 1 .. Len(s) : s[i] = fields[i + 1]
    BY <1>3, <2>1, HeadTailProperties
  <2> HIDE DEF s
  <2>3. j - 1 \in 1 .. Len(s) /\ (j - 1) + 1 = j
    BY <1>3, <2>2
  <2>4. s[j - 1] = fields[j] /\ j - 1 \in DOMAIN s
    BY <2>2, <2>3
  <2>5. QED
    BY <1>5, <2>4 DEF ToSet, s
<1>8. e.ip = l[1].ip /\ e.names = Tail(fields)
  BY <1>5
<1> HIDE DEF e
<1> DEFINE a == <<l[1].ip, l[j]>>
<1>9. InEntry(a, e)
  <2>1. a[1] = l[1].ip /\ a[2] = l[j]
    OBVIOUS
  <2> HIDE DEF a
  <2>2. QED
    BY <1>7, <1>8, <2>1 DEF InEntry
<1> HIDE DEF a
<1>10. InEntries(a, <<e>>)
  <2>1. 1 \in DOMAIN <<e>> /\ <<e>>[1] = e
    OBVIOUS
  <2>2. QED
    BY <1>9, <2>1 DEF InEntries
<1>11. QED
  BY <1>6, <1>10 DEF a

\* What has been read of a block up to n: the line that is open, and entries for all
\* answers before it.
ReadSoFar(read, block, n) ==
  LET r == read[n]
      start == n - Len(r.line)
  IN /\ start \in 0 .. n
     /\ \A i \in 1 .. Len(r.line) : r.line[i] = block[start + i] /\ block[start + i] # Newline
     /\ start # 0 => block[start] = Newline
     /\ \A i, j \in 1 .. start :
          ServedAt(block, i, j) => InEntries(<<block[i].ip, block[j]>>, r.entries)

\* At the end of a line it is the same with the line that ends there.
LEMMA LineEnds ==
  ASSUME NEW block \in Seq(Tokens), NEW read, NEW n \in 0 .. Len(block),
         read[n] \in ReadSet, ReadSoFar(read, block, n),
         NEW i \in 1 .. n, NEW j \in 1 .. n, ServedAt(block, i, j)
  PROVE  InEntries(<<block[i].ip, block[j]>>, read[n].entries \o Entry(read[n].line))
<1> DEFINE line == read[n].line
           es == read[n].entries
           start == n - Len(line)
           a == <<block[i].ip, block[j]>>
<1>1. line \in Seq(Tokens) /\ es \in Seq(Gives)
  BY DEF ReadSet
<1>2. /\ start \in 0 .. n
      /\ \A h \in 1 .. Len(line) : line[h] = block[start + h] /\ block[start + h] # Newline
      /\ start # 0 => block[start] = Newline
      /\ \A x, y \in 1 .. start : ServedAt(block, x, y) => InEntries(<<block[x].ip, block[y]>>, es)
  BY DEF ReadSoFar
<1>3. /\ i < j /\ (i = 1 \/ block[i - 1] = Newline)
      /\ \A h \in i .. j : block[h] \notin CommentSigns \cup {Newline}
  BY DEF ServedAt
<1>4. Len(line) \in Nat /\ n \in Nat /\ start + Len(line) = n
  BY <1>1
<1>5. Entry(line) \in Seq(Gives)
  BY <1>1, EntryGives
<1> HIDE DEF line, es, start
<1>6. CASE j <= start
  <2>1. i \in 1 .. start /\ j \in 1 .. start
    BY <1>2, <1>3, <1>6
  <2>2. InEntries(a, es)
    BY <1>2, <2>1
  <2> HIDE DEF a
  <2>3. InEntries(a, es \o Entry(line))
    BY <1>1, <1>5, <2>2, InMore
  <2>4. QED
    BY <2>3 DEF a, es, line
<1>7. CASE start < j
  <2>1. ~(i <= start)
    <3>1. ASSUME i <= start PROVE FALSE
      <4>1. start # 0 /\ start \in i .. j
        BY <1>2, <1>7, <3>1
      <4>2. QED
        BY <1>2, <1>3, <4>1
    <3>2. QED
      BY <3>1
  <2>2. i = start + 1
    <3>1. ASSUME i # start + 1 PROVE FALSE
      <4> DEFINE h == (i - 1) - start
      <4>1. h \in 1 .. Len(line) /\ start + h = i - 1 /\ i # 1
        BY <1>2, <1>4, <2>1, <3>1
      <4> HIDE DEF h
      <4>2. QED
        BY <1>2, <1>3, <4>1
    <3>2. QED
      BY <3>1
  <2> DEFINE q == j - start
  <2>3. q \in 2 .. Len(line) /\ start + q = j /\ 1 \in 1 .. Len(line) /\ q \in 1 .. Len(line)
    BY <1>2, <1>3, <1>4, <2>2
  <2> HIDE DEF q
  <2>4. line[1] = block[i] /\ line[q] = block[j]
    BY <1>2, <2>2, <2>3
  <2>5. ASSUME NEW k \in 1 .. q PROVE line[k] \notin CommentSigns
    <3>1. k \in 1 .. Len(line) /\ start + k \in i .. j
      BY <1>2, <1>4, <2>2, <2>3
    <3>2. line[k] = block[start + k]
      BY <1>2, <3>1
    <3>3. QED
      BY <1>3, <3>1, <3>2
  <2>6. InEntries(<<line[1].ip, line[q]>>, Entry(line))
    BY <1>1, <2>3, <2>5, EntryAnswers
  <2>7. InEntries(a, Entry(line))
    BY <2>4, <2>6
  <2> HIDE DEF a
  <2>8. InEntries(a, es \o Entry(line))
    BY <1>1, <1>5, <2>7, InMore
  <2>9. QED
    BY <2>8 DEF a, es, line
<1>8. QED
  BY <1>2, <1>3, <1>6, <1>7

\* What the router answers from the lines of a block is in the entries that gogl reads
\* there (parseEntries).
THEOREM ParseAnswers ==
  ASSUME NEW block \in Seq(Tokens), NEW a \in Served(block)
  PROVE  InEntries(a, ParseEntries(block))
<1>1. PICK read : ReadPrefixes(read, block)
  BY ReadRecursion
<1> DEFINE N == Len(block)
           P == {n \in 0 .. N : ReadSoFar(read, block, n)}
<1>2. /\ N \in Nat /\ read \in [0 .. N -> ReadSet] /\ read[0] = NothingRead
      /\ \A n \in 1 .. N : read[n] = Reads(read[n-1], block[n])
      /\ ParseEntries(block) = Reads(read[N], Newline).entries
  BY <1>1 DEF ReadPrefixes
<1> HIDE DEF N
<1>3. 0 \in P
  <2>1. read[0].line = <<>> /\ Len(<<>>) = 0
    BY <1>2 DEF NothingRead
  <2>2. ReadSoFar(read, block, 0)
    <3> DEFINE st == 0 - Len(read[0].line)
    <3>1. st = 0 /\ Len(read[0].line) = 0
      <4>1. Len(read[0].line) = 0
        BY <2>1, Zenon
      <4>2. 0 - 0 = 0
        OBVIOUS
      <4>3. QED
        BY <4>1, <4>2, Zenon
    <3> HIDE DEF st
    <3>2. /\ st \in 0 .. 0 /\ st = 0
          /\ \A i \in 1 .. Len(read[0].line) : FALSE
          /\ \A i \in 1 .. st : FALSE
      BY <3>1
    <3>3. QED
      BY <3>2 DEF ReadSoFar, st
  <2>3. QED
    BY <1>2, <2>2
<1>4. ASSUME NEW n \in P, n # N PROVE n + 1 \in P
  <2> DEFINE r == read[n]
             s == read[n + 1]
             tok == block[n + 1]
             start == n - Len(r.line)
  <2>1. n \in 0 .. N /\ n + 1 \in 1 .. N /\ (n + 1) - 1 = n /\ n + 1 \in 0 .. N /\ ReadSoFar(read, block, n)
    BY <1>2, <1>4
  <2>2. r \in ReadSet /\ s = Reads(r, tok)
    BY <1>2, <2>1
  <2>3. r.entries \in Seq(Gives) /\ r.line \in Seq(Tokens) /\ Len(r.line) \in Nat
    BY <2>2 DEF ReadSet
  <2>4. /\ start \in 0 .. n
        /\ \A i \in 1 .. Len(r.line) : r.line[i] = block[start + i] /\ block[start + i] # Newline
        /\ start # 0 => block[start] = Newline
        /\ \A i, j \in 1 .. start :
             ServedAt(block, i, j) => InEntries(<<block[i].ip, block[j]>>, r.entries)
    BY <2>1 DEF ReadSoFar
  <2>5. n \in 0 .. Len(block)
    BY <2>1 DEF N
  <2> HIDE DEF P
  <2>6. CASE tok = Newline
    <3>1. s = [entries |-> r.entries \o Entry(r.line), line |-> <<>>]
      BY <2>2, <2>6 DEF Reads
    <3>2. s.entries = r.entries \o Entry(r.line) /\ s.line = <<>> /\ Len(s.line) = 0
      <4> DEFINE es == r.entries \o Entry(r.line)
      <4> HIDE DEF s, es
      <4>1. s = [entries |-> es, line |-> <<>>]
        BY <3>1 DEF es
      <4>2. s.entries = es /\ s.line = <<>>
        BY <4>1
      <4>3. Len(<<>>) = 0
        OBVIOUS
      <4>4. QED
        BY <4>2, <4>3 DEF es
    <3>3. ASSUME NEW i \in 1 .. n + 1, NEW j \in 1 .. n + 1, ServedAt(block, i, j)
          PROVE  InEntries(<<block[i].ip, block[j]>>, s.entries)
      <4>1. i < j /\ \A h \in i .. j : block[h] # Newline
        BY <3>3 DEF ServedAt
      <4>2. j # n + 1
        BY <2>6, <4>1
      <4>3. i \in 1 .. n /\ j \in 1 .. n
        <5>1. n \in Nat
          BY <2>1
        <5>2. QED
          BY <4>1, <4>2, <5>1
      <4>4. InEntries(<<block[i].ip, block[j]>>, read[n].entries \o Entry(read[n].line))
        BY <2>1, <2>2, <2>5, <3>3, <4>3, LineEnds
      <4>5. QED
        BY <3>2, <4>4
    <3> HIDE DEF s, r, tok, start
    <3> DEFINE m == n + 1
    <3>4. m \in 0 .. m /\ m - 0 = m
      BY <2>1
    <3>5. block[m] = Newline
      BY <2>6 DEF tok
    <3>6. s = read[m]
      BY DEF s
    <3>7. \A i, j \in 1 .. m : ServedAt(block, i, j) => InEntries(<<block[i].ip, block[j]>>, s.entries)
      BY <3>3
    <3> DEFINE st == m - Len(read[m].line)
    <3> HIDE DEF m
    <3>8. ReadSoFar(read, block, m)
      <4>1. st = m /\ Len(read[m].line) = 0
        BY <3>2, <3>4, <3>6
      <4> HIDE DEF st
      <4>2. /\ st \in 0 .. m /\ block[st] = Newline
            /\ \A i \in 1 .. Len(read[m].line) : FALSE
            /\ \A i, j \in 1 .. st : ServedAt(block, i, j) => InEntries(<<block[i].ip, block[j]>>, read[m].entries)
        BY <3>4, <3>5, <3>6, <3>7, <4>1
      <4>3. QED
        BY <4>2 DEF ReadSoFar, st
    <3>9. QED
      BY <2>1, <3>8 DEF m, P
  <2>7. CASE tok # Newline
    <3>1. s = [entries |-> r.entries, line |-> Append(r.line, tok)]
      BY <2>2, <2>7 DEF Reads
    <3> DEFINE l == r.line
               c == Append(l, tok)
               m == n + 1
    <3>2. s.entries = r.entries /\ s.line = c
      BY <3>1
    <3>3. tok \in Tokens
      BY <2>1 DEF N
    <3>4. Len(c) = Len(l) + 1 /\ c[Len(l) + 1] = tok /\ \A i \in 1 .. Len(l) : c[i] = l[i]
      BY <2>3, <3>3
    <3>5. m - Len(c) = start /\ start \in 0 .. m /\ start + (Len(l) + 1) = m
      <4>1. /\ start = n - Len(l) /\ start \in 0 .. n /\ Len(l) \in Nat /\ n \in 0 .. N /\ N \in Nat
            /\ Len(c) = Len(l) + 1
        BY <1>2, <2>1, <2>3, <2>4, <3>4
      <4> HIDE DEF start, c, l, N
      <4>2. QED
        BY <4>1
    <3>6. ASSUME NEW i \in 1 .. Len(c) PROVE c[i] = block[start + i] /\ block[start + i] # Newline
      <4> HIDE DEF c, start, tok
      <4>1. CASE i \in 1 .. Len(l)
        BY <2>4, <3>4, <4>1
      <4>2. CASE i = Len(l) + 1
        <5>1. start + i = m /\ c[i] = tok
          BY <3>4, <3>5, <4>2
        <5>2. QED
          BY <2>7, <5>1 DEF tok
      <4>3. QED
        BY <2>3, <3>4, <4>1, <4>2
    <3>7. read[m].line = c /\ read[m].entries = r.entries
      BY <3>2
    <3> HIDE DEF c, l, s, r, start, tok, m
    <3>8. ReadSoFar(read, block, m)
      BY <2>4, <3>5, <3>6, <3>7 DEF ReadSoFar
    <3>9. QED
      BY <2>1, <3>8 DEF m, P
  <2>8. QED
    BY <2>6, <2>7
<1>5. N \in P
  <2>1. P \in SUBSET (0 .. N)
    OBVIOUS
  <2> HIDE DEF P
  <2>2. QED
    BY <1>2, <1>3, <1>4, <2>1, Induction
<1>6. PICK i \in 1 .. Len(block), j \in 1 .. Len(block) : ServedAt(block, i, j) /\ a = <<block[i].ip, block[j]>>
  BY ServedIs
<1>7. N \in 0 .. Len(block) /\ i \in 1 .. N /\ j \in 1 .. N /\ read[N] \in ReadSet /\ ReadSoFar(read, block, N)
  BY <1>2, <1>5, <1>6 DEF N
<1>8. InEntries(<<block[i].ip, block[j]>>, read[N].entries \o Entry(read[N].line))
  BY <1>6, <1>7, LineEnds
<1>9. Reads(read[N], Newline).entries = read[N].entries \o Entry(read[N].line)
  BY DEF Reads
<1>10. QED
  BY <1>2, <1>6, <1>8, <1>9

\* The lines of a block end, each of them.
LEMMA LinesEnded ==
  ASSUME NEW entries \in Seq(EntrySet)
  PROVE  Ended(EntryLines(entries))
<1>1. PICK written : LinePrefixes(written, entries)
  BY LinesRecursion
<1> DEFINE N == Len(entries)
           block == EntryLines(entries)
<1>2. LinesStanding(written, entries, block) /\ N \in Nat
  BY <1>1, LinesStand
<1>3. CASE N = 0
  BY <1>1, <1>3 DEF LinePrefixes, Ended
<1>4. CASE N # 0
  <2> DEFINE l == EntryLine(entries[N])
             k == Len(l)
             L == Len(written[N - 1])
  <2>1. entries[N] \in EntrySet /\ N \in 1 .. N
    BY <1>2, <1>4
  <2>2. Len(entries[N].names) \in Nat /\ k = Len(entries[N].names) + 2
        /\ l[Len(entries[N].names) + 2] = Newline
    BY <2>1, EntryLineOf
  <2>3. l[k] = Newline /\ k \in 1 .. k
    BY <2>2
  <2>4. Len(written[N]) = L + k /\ \A i \in 1 .. k : block[L + i] = l[i]
    BY <1>2, <2>1 DEF LinesStanding
  <2>5. block = written[N]
    BY <1>1 DEF LinePrefixes
  <2> HIDE DEF block, L, l, k, N
  <2>6. block[Len(block)] = Newline
    BY <2>3, <2>4, <2>5
  <2>7. QED
    BY <2>6 DEF Ended, block
<1>5. QED
  BY <1>3, <1>4

\* The lines of a block answer what its entries say (Render).
THEOREM LinesAnswer ==
  ASSUME NEW entries \in Seq(EntrySet), NEW ip, NEW name, InEntries(<<ip, name>>, entries)
  PROVE  <<ip, name>> \in Served(EntryLines(entries))
<1> DEFINE a == <<ip, name>>
           block == EntryLines(entries)
<1>1. a[1] = ip /\ a[2] = name
  OBVIOUS
<1> HIDE DEF a
<1>2. PICK n \in 1 .. Len(entries) : ip = entries[n].ip /\ name \in ToSet(entries[n].names)
  <2>1. InEntries(a, entries)
    BY DEF a
  <2>2. PICK n \in DOMAIN entries : InEntry(a, entries[n])
    BY <2>1 DEF InEntries
  <2>3. n \in 1 .. Len(entries) /\ ip = entries[n].ip /\ name \in ToSet(entries[n].names)
    BY <1>1, <2>2 DEF InEntry
  <2>4. QED
    BY <2>3
<1>3. PICK written : LinePrefixes(written, entries)
  BY LinesRecursion
<1>4. LinesStanding(written, entries, block)
  BY <1>3, LinesStand
<1> DEFINE e == entries[n]
           l == EntryLine(e)
           m == Len(e.names)
           L == Len(written[n - 1])
<1>5. e \in EntrySet
  OBVIOUS
<1>6. /\ l \in Seq(Tokens) /\ Len(l) = m + 2 /\ m \in Nat \ {0}
      /\ l[1] = [ip |-> e.ip] /\ \A i \in 1 .. m : l[i + 1] = e.names[i]
      /\ l[m + 2] = Newline /\ \A i \in 1 .. m + 1 : l[i] \notin Marks
  BY <1>5, EntryLineOf
<1>7. PICK x \in 1 .. m : name = e.names[x]
  <2>1. DOMAIN e.names = 1 .. m
    BY <1>5 DEF EntrySet
  <2>2. QED
    BY <1>2, <2>1 DEF ToSet
<1>8. /\ block \in Seq(Tokens) /\ L \in Nat
      /\ Len(written[n]) = L + Len(l) /\ Len(written[n]) <= Len(block)
      /\ \A i \in 1 .. Len(l) : block[L + i] = l[i]
  <2>1. n \in 0 .. Len(entries) /\ n - 1 \in 0 .. Len(entries)
    OBVIOUS
  <2>2. Len(written[n]) \in 0 .. Len(block) /\ L \in 0 .. Len(block)
    BY <1>4, <2>1 DEF LinesStanding
  <2>3. Len(written[n]) = L + Len(l) /\ \A i \in 1 .. Len(l) : block[L + i] = l[i]
    BY <1>4 DEF LinesStanding
  <2>4. block \in Seq(Tokens)
    BY <1>4 DEF LinesStanding
  <2> HIDE DEF L, l, block
  <2>5. QED
    BY <2>2, <2>3, <2>4
<1>9. L + 1 = 1 \/ block[L] = Newline
  <2>1. CASE n = 1
    BY <1>3, <2>1 DEF LinePrefixes
  <2>2. CASE n # 1
    <3> DEFINE h == n - 1
               g == EntryLine(entries[h])
               K == Len(written[h - 1])
               c == Len(entries[h].names) + 2
    <3>1. h \in 1 .. Len(entries) /\ entries[h] \in EntrySet
      BY <2>2
    <3> HIDE DEF h
    <3>2. Len(g) = c /\ c \in Nat \ {0} /\ g[c] = Newline
      <4> DEFINE q == entries[h]
      <4>1. q \in EntrySet
        BY <3>1
      <4> HIDE DEF q
      <4>2. /\ Len(EntryLine(q)) = Len(q.names) + 2 /\ Len(q.names) \in Nat
            /\ EntryLine(q)[Len(q.names) + 2] = Newline
        BY <4>1, EntryLineOf
      <4>3. Len(q.names) + 2 \in Nat \ {0}
        BY <4>2
      <4>4. QED
        BY <4>2, <4>3 DEF q
    <3>3. Len(written[h]) = K + Len(g) /\ \A i \in 1 .. Len(g) : block[K + i] = g[i]
      BY <1>4, <3>1 DEF LinesStanding
    <3>4. L = Len(written[h])
      BY DEF h
    <3> HIDE DEF g, K, c, L, block
    <3>5. c \in 1 .. Len(g)
      BY <3>2
    <3>6. block[K + c] = Newline
      BY <3>2, <3>3, <3>5
    <3>7. QED
      BY <3>2, <3>3, <3>4, <3>6
  <2>3. QED
    BY <2>1, <2>2
<1> HIDE DEF block, e, l, m, L
<1> DEFINE i == L + 1
           j == L + (x + 1)
<1>10. x + 1 \in 1 .. m + 1 /\ x + 1 \in 1 .. Len(l) /\ 1 \in 1 .. Len(l) /\ 1 \in 1 .. m + 1
  BY <1>6
<1>11. i \in 1 .. Len(block) /\ j \in 1 .. Len(block) /\ i < j /\ i - 1 = L
  BY <1>6, <1>8, <1>10
<1>12. block[i] = [ip |-> ip] /\ block[j] = name
  <2>1. block[i] = l[1] /\ block[j] = l[x + 1]
    BY <1>8, <1>10
  <2>2. l[1] = [ip |-> ip] /\ l[x + 1] = name
    BY <1>2, <1>6, <1>7 DEF e
  <2>3. QED
    BY <2>1, <2>2
<1>13. ASSUME NEW k \in i .. j PROVE block[k] \notin CommentSigns \cup {Newline}
  <2> DEFINE h == k - L
  <2>1. h \in 1 .. m + 1 /\ h \in 1 .. Len(l) /\ L + h = k
    BY <1>6, <1>8, <1>10
  <2> HIDE DEF h
  <2>2. block[k] = l[h] /\ l[h] \notin Marks
    BY <1>6, <1>8, <2>1
  <2>3. QED
    BY <2>2 DEF Marks
<1>14. "ip" \in DOMAIN block[i] /\ block[i].ip = ip
  BY <1>12
<1>15. i = 1 \/ block[i - 1] = Newline
  BY <1>9, <1>11
<1> HIDE DEF i, j
<1>16. ServedAt(block, i, j)
  BY <1>11, <1>13, <1>14, <1>15 DEF ServedAt
<1>17. a = <<block[i].ip, block[j]>>
  BY <1>12, <1>14 DEF a
<1>18. a \in Served(block)
  BY <1>8, <1>11, <1>16, <1>17, ServedIs
<1>19. QED
  BY <1>18 DEF a, block

\* What ends with an ended text is ended.
LEMMA EndedConcat ==
  ASSUME NEW x \in Seq(Tokens), NEW y \in Seq(Tokens), Ended(y), Ended(x) \/ y # <<>>
  PROVE  Ended(x \o y)
<1>1. CASE y = <<>>
  <2>1. x \o y = x
    BY <1>1, ConcatEmptySeq
  <2>2. QED
    BY <1>1, <2>1
<1>2. CASE y # <<>>
  <2>1. y[Len(y)] = Newline /\ Len(y) \in 1 .. Len(y)
    BY <1>2, EmptySeq DEF Ended
  <2>2. (x \o y)[Len(x) + Len(y)] = y[Len(y)] /\ Len(x \o y) = Len(x) + Len(y)
    BY <2>1, Halves
  <2>3. QED
    BY <2>1, <2>2 DEF Ended
<1>3. QED
  BY <1>1, <1>2

\* The text before the block ends its last line.
LEMMA ClosedEnds ==
  ASSUME NEW b \in Seq(Tokens)
  PROVE  /\ Closed(b) \in Seq(Tokens) /\ Ended(Closed(b))
         /\ \E z \in Seq(Tokens) : Closed(b) = b \o z
<1>1. CASE b = <<>> \/ b[Len(b)] = Newline
  <2>1. Closed(b) = b /\ Ended(b)
    BY <1>1 DEF Closed, Last, Ended
  <2>2. b = b \o <<>> /\ <<>> \in Seq(Tokens)
    BY ConcatEmptySeq, EmptySeq
  <2>3. QED
    BY <2>1, <2>2
<1>2. CASE ~(b = <<>> \/ b[Len(b)] = Newline)
  <2>1. Closed(b) = Append(b, Newline)
    BY <1>2 DEF Closed, Last
  <2>2. Newline \in Tokens
    BY DEF Tokens, Marks
  <2>3. Append(b, Newline) = b \o <<Newline>> /\ <<Newline>> \in Seq(Tokens)
    BY <2>2
  <2>4. /\ Append(b, Newline) \in Seq(Tokens) /\ Len(Append(b, Newline)) = Len(b) + 1
        /\ Append(b, Newline)[Len(b) + 1] = Newline
    BY <2>2
  <2>5. QED
    BY <2>1, <2>3, <2>4 DEF Ended
<1>3. QED
  BY <1>1, <1>2

IsText(x) == x \in Seq(Tokens)

\* Texts put together in one order or the other.
LEMMA Regroup ==
  ASSUME NEW x, NEW y, NEW z, IsText(x), IsText(y), IsText(z)
  PROVE  IsText(x \o y) /\ (x \o y) \o z = x \o (y \o z)
<1>1. x \in Seq(Tokens) /\ y \in Seq(Tokens) /\ z \in Seq(Tokens)
  BY DEF IsText
<1>2. (x \o y) \o z = x \o (y \o z)
  BY <1>1, ConcatAssociative
<1>3. x \o y \in Seq(Tokens)
  BY <1>1, ConcatProperties
<1>4. QED
  BY <1>2, <1>3 DEF IsText

Reorders(b, o, l, c, a) == (b \o ((o \o l) \o c)) \o a = (b \o o) \o (l \o (c \o a))

\* A written file is the lines of its block, with what is before and after them.
LEMMA Around ==
  ASSUME NEW b, NEW o, NEW l, NEW c, NEW a,
         IsText(b), IsText(o), IsText(l), IsText(c), IsText(a)
  PROVE  Reorders(b, o, l, c, a)
<1>1. (o \o l) \o c = o \o (l \o c) /\ IsText(l \o c) /\ IsText(b \o o)
  BY Regroup
<1>2. (b \o o) \o (l \o c) = b \o (o \o (l \o c))
  BY <1>1, Regroup
<1>3. ((b \o o) \o (l \o c)) \o a = (b \o o) \o ((l \o c) \o a)
  BY <1>1, Regroup
<1>4. (l \o c) \o a = l \o (c \o a)
  BY Regroup
<1>5. QED
  BY <1>1, <1>2, <1>3, <1>4 DEF Reorders

\* The router answers from a rendered file what its block says and what is around it.
THEOREM RenderAnswers ==
  ASSUME NEW f, TypedFile(f)
  PROVE  /\ Served(f.before) \subseteq Served(Render(f))
         /\ Served(f.after) \subseteq Served(Render(f))
         /\ \A ip, name : InEntries(<<ip, name>>, f.entries) => <<ip, name>> \in Served(Render(f))
<1> DEFINE u == f.before
           b == Closed(u)
           m == Managed(f)
           a == f.after
           o == Opening(f.domain)
           lines == EntryLines(f.entries)
           s == Render(f)
<1>1. /\ u \in Seq(Tokens) /\ a \in Seq(Tokens) /\ f \in TextFileSet
      /\ f.domain \in Domains /\ f.entries \in Seq(EntrySet) /\ ~Found(u, BeginMarker)
  BY DEF TypedFile, TextFileSet
<1>2. b \in Seq(Tokens) /\ Ended(b) /\ \E z \in Seq(Tokens) : b = u \o z
  BY <1>1, ClosedEnds
<1>3. s = (b \o m) \o a
  BY DEF Render
<1>4. m = <<>> \/ m = (o \o lines) \o Closing
  BY Zenon DEF Managed, Closing
<1>5. /\ o \in Seq(Tokens) /\ Ended(o) /\ o # <<>>
  BY <1>1, OpeningOf, EmptySeq DEF Ended
<1>6. lines \in Seq(Tokens)
  BY <1>1, LinesPlain
<1>7. Closing \in Seq(Tokens) /\ Ended(Closing) /\ Closing # <<>>
  BY DEF Closing, Ended, Tokens, Marks, CommentSigns
<1>8. <<>> \in Seq(Tokens) /\ Ended(<<>>)
  BY DEF Ended
<1>9. f.entries # <<>> => m # <<>>
  <2>1. ASSUME f.entries # <<>> PROVE m # <<>>
    <3>1. m = (o \o lines) \o Closing
      BY <2>1, Zenon DEF Managed, Closing
    <3> HIDE DEF m, o, lines
    <3>2. o \o lines \in Seq(Tokens)
      BY <1>5, <1>6, ConcatProperties
    <3> DEFINE x == o \o lines
    <3> HIDE DEF x
    <3>3. x \in Seq(Tokens)
      BY <3>2 DEF x
    <3>4. x \o Closing # <<>>
      BY <1>7, <3>3, ConcatEqualIffEmpty
    <3>5. QED
      BY <3>1, <3>4 DEF x
  <2>2. QED
    BY <2>1
<1> HIDE DEF u, b, m, a, o, lines, s
<1>10. (b \o ((o \o lines) \o Closing)) \o a = (b \o o) \o (lines \o (Closing \o a))
  <2>1. IsText(b) /\ IsText(o) /\ IsText(lines) /\ IsText(Closing) /\ IsText(a)
    BY <1>1, <1>2, <1>5, <1>6, <1>7 DEF IsText
  <2>2. Reorders(b, o, lines, Closing, a)
    BY <2>1, Around
  <2>3. QED
    BY <2>2 DEF Reorders
<1>11. m \in Seq(Tokens) /\ Ended(m)
  <2>1. CASE m = <<>>
    BY <1>8, <2>1
  <2>2. CASE m = (o \o lines) \o Closing
    <3> DEFINE x == o \o lines
    <3>1. x \in Seq(Tokens)
      BY <1>5, <1>6, ConcatProperties
    <3> HIDE DEF x
    <3>2. x \o Closing \in Seq(Tokens) /\ Ended(x \o Closing)
      BY <1>7, <3>1, EndedConcat, ConcatProperties
    <3>3. QED
      BY <2>2, <3>2 DEF x
  <2>3. QED
    BY <1>4, <2>1, <2>2
<1>12. b \o m \in Seq(Tokens) /\ Ended(b \o m)
  BY <1>2, <1>11, EndedConcat, ConcatProperties
<1>13. Served(a) \subseteq Served(s)
  <2> DEFINE x == b \o m
  <2>1. x \in Seq(Tokens) /\ Ended(x)
    BY <1>12
  <2> HIDE DEF x
  <2>2. Served(a) \subseteq Served(x \o (a \o <<>>))
    BY <1>1, <1>8, <2>1, ServedInside
  <2>3. a \o <<>> = a
    BY <1>1, ConcatEmptySeq
  <2>4. QED
    BY <1>3, <2>2, <2>3 DEF x
<1>14. Served(u) \subseteq Served(s)
  <2>1. PICK z \in Seq(Tokens) : b = u \o z
    BY <1>2
  <2> DEFINE y == m \o a
  <2>2. y \in Seq(Tokens) /\ s = b \o y
    <3>1. (b \o m) \o a = b \o (m \o a)
      <4>1. b \in Seq(Tokens) /\ m \in Seq(Tokens) /\ a \in Seq(Tokens)
        BY <1>1, <1>2, <1>11
      <4>2. QED
        BY <4>1, ConcatAssociative
    <3>2. m \o a \in Seq(Tokens)
      BY <1>1, <1>11, ConcatProperties
    <3>3. QED
      BY <1>3, <3>1, <3>2
  <2> HIDE DEF y
  <2>3. (u \o z) \o y = u \o (z \o y)
    BY <1>1, <2>2, ConcatAssociative
  <2>4. z \o y \in Seq(Tokens)
    BY <2>2, ConcatProperties
  <2> DEFINE w == z \o y
  <2>5. w \in Seq(Tokens)
    BY <2>4
  <2>6. s = u \o w
    BY <2>1, <2>2, <2>3
  <2> HIDE DEF w
  <2>7. Served(u) \subseteq Served(<<>> \o (u \o w))
    BY <1>1, <1>8, <2>5, ServedInside
  <2>8. u \o w \in Seq(Tokens)
    BY <1>1, <2>5, ConcatProperties
  <2>9. <<>> \o (u \o w) = u \o w
    BY <2>8, ConcatEmptySeq
  <2>10. QED
    BY <2>6, <2>7, <2>9
<1>15. ASSUME NEW ip, NEW name, InEntries(<<ip, name>>, f.entries)
       PROVE  <<ip, name>> \in Served(s)
  <2>1. f.entries # <<>>
    BY <1>15 DEF InEntries
  <2>2. m = (o \o lines) \o Closing
    BY <1>4, <1>9, <2>1
  <2> DEFINE x == b \o o
             y == Closing \o a
  <2>3. x \in Seq(Tokens) /\ Ended(x)
    BY <1>2, <1>5, EndedConcat, ConcatProperties
  <2>4. y \in Seq(Tokens)
    BY <1>1, <1>7, ConcatProperties
  <2>5. s = x \o (lines \o y)
    BY <1>3, <1>10, <2>2
  <2> HIDE DEF x, y
  <2>6. Served(lines) \subseteq Served(x \o (lines \o y))
    BY <1>6, <2>3, <2>4, ServedInside
  <2>7. <<ip, name>> \in Served(lines)
    BY <1>1, <1>15, LinesAnswer DEF lines
  <2>8. QED
    BY <2>5, <2>6, <2>7
<1>16. QED
  BY <1>13, <1>14, <1>15 DEF u, a, s

\* What a block read from its marker on answers, its entries or the text after it answer.
LEMMA OpenedAnswers ==
  ASSUME NEW b, NEW rest \in Seq(Tokens), rest # <<>>, rest[1] = BeginMarker, NEW a \in Served(rest)
  PROVE  \/ InEntries(a, Opened(b, rest).entries)
         \/ a \in Served(Opened(b, rest).after)
<1> DEFINE nl == First(rest, Newline)
           inner == From(rest, nl + 1)
           d == ParseDomain(UpTo(rest, nl))
<1>1. /\ nl \in 0 .. Len(rest) /\ Len(rest) \in Nat
      /\ nl = 0 => Served(rest) = {}
      /\ nl # 0 => Served(rest) \subseteq Served(inner)
  <2>1. rest[1] \in CommentSigns
    BY DEF CommentSigns
  <2>2. QED
    BY <2>1, ServedNext
<1>2. nl # 0 /\ a \in Served(inner)
  BY <1>1
<1>3. Opened(b, rest) = Block(b, d, inner)
  BY <1>2, Zenon DEF Opened
<1>4. inner \in Seq(Tokens)
  <2>1. nl + 1 \in 1 .. Len(rest) + 1
    BY <1>1, <1>2
  <2> HIDE DEF nl
  <2>2. QED
    BY <2>1, Parts
<1> HIDE DEF nl, inner, d
<1>5. CASE ~Found(inner, EndMarker)
  <2>1. Opened(b, rest) = [before |-> b, domain |-> d, after |-> <<>>, entries |-> ParseEntries(inner)]
    BY <1>3, <1>5, Zenon DEF Block
  <2>2. InEntries(a, ParseEntries(inner))
    BY <1>2, <1>4, ParseAnswers
  <2>3. QED
    BY <2>1, <2>2
<1>6. CASE Found(inner, EndMarker)
  <2> DEFINE e == First(inner, EndMarker)
             tail == From(inner, e)
             t == First(tail, Newline)
             after == IF Found(tail, Newline) THEN From(tail, t + 1) ELSE <<>>
             es == ParseEntries(UpTo(inner, e))
  <2>1. Opened(b, rest) = [before |-> b, domain |-> d, after |-> after, entries |-> es]
    BY <1>3, <1>6, Zenon DEF Block
  <2>2. e \in 1 .. Len(inner) /\ inner[e] = EndMarker
    <3>1. /\ e \in 0 .. Len(inner)
          /\ e = 0 => \A i \in 1 .. Len(inner) : inner[i] \notin {EndMarker}
          /\ e # 0 => inner[e] \in {EndMarker}
      BY <1>4, FirstOfIs DEF First
    <3>2. e # 0
      BY <1>4, <1>6, <3>1 DEF Found
    <3>3. Len(inner) \in Nat
      BY <1>4
    <3> HIDE DEF e
    <3>4. QED
      BY <3>1, <3>2, <3>3
  <2>3. inner[e] \in CommentSigns
    BY <2>2 DEF CommentSigns
  <2> HIDE DEF e
  <2>4. /\ UpTo(inner, e) \in Seq(Tokens) /\ tail \in Seq(Tokens)
        /\ Len(tail) = Len(inner) - e + 1 /\ tail[1] = inner[e]
    <3>1. e \in 1 .. Len(inner) + 1 /\ Len(inner) \in Nat /\ e \in Nat
      BY <1>4, <2>2
    <3>2. 1 \in 1 .. Len(inner) - e + 1 /\ e + 1 - 1 = e
      BY <2>2, <3>1
    <3>3. QED
      BY <1>4, <3>1, <3>2, Parts
  <2>5. a \in Served(UpTo(inner, e)) \/ a \in Served(tail)
    BY <1>2, <1>4, <2>2, <2>3, ServedApart
  <2>6. CASE a \in Served(UpTo(inner, e))
    <3>1. InEntries(a, es)
      BY <2>4, <2>6, ParseAnswers
    <3> HIDE DEF es, after
    <3>2. QED
      BY <2>1, <3>1
  <2>7. CASE a \in Served(tail)
    <3>1. tail # <<>> /\ Len(tail) \in Nat \ {0}
      <4>1. Len(inner) \in Nat
        BY <1>4
      <4>2. QED
        BY <2>2, <2>4, <4>1
    <3>2. tail[1] \in CommentSigns
      BY <2>3, <2>4
    <3> HIDE DEF tail
    <3>3. /\ t \in 0 .. Len(tail)
          /\ t = 0 => Served(tail) = {}
          /\ t # 0 => Served(tail) \subseteq Served(From(tail, t + 1))
      BY <2>4, <3>1, <3>2, ServedNext
    <3>4. t # 0 /\ a \in Served(From(tail, t + 1))
      BY <2>7, <3>3
    <3>5. Found(tail, Newline)
      <4>1. t # 0 => tail[t] \in {Newline}
        BY <2>4, FirstOfIs DEF First
      <4> HIDE DEF t
      <4>2. t \in DOMAIN tail
        BY <2>4, <3>3, <3>4
      <4>3. QED
        BY <3>4, <4>1, <4>2 DEF Found
    <3>6. after = From(tail, t + 1)
      BY <3>5
    <3> HIDE DEF t, es, after
    <3>7. QED
      BY <2>1, <3>4, <3>6
  <2>8. QED
    BY <2>5, <2>6, <2>7
<1>7. QED
  BY <1>5, <1>6

\* What a file answers is before its block, in it or after it.
LEMMA TextAnswers ==
  ASSUME NEW s \in Seq(Tokens), NEW a \in Served(s)
  PROVE  LET f == ParseHostFile(s) IN
           a \in Served(f.before) \/ InEntries(a, f.entries) \/ a \in Served(f.after)
<1> DEFINE f == ParseHostFile(s)
<1>1. CASE f = Unmanaged(s)
  <2>1. f.before = s
    BY <1>1 DEF Unmanaged
  <2> HIDE DEF f
  <2>2. QED
    BY <2>1 DEF f
<1>2. ASSUME NEW k \in 1 .. Len(s), s[k] = BeginMarker,
             From(s, k) # <<>>, From(s, k)[1] = BeginMarker,
             f = Opened(UpTo(s, k), From(s, k))
      PROVE  a \in Served(f.before) \/ InEntries(a, f.entries) \/ a \in Served(f.after)
  <2> DEFINE b == UpTo(s, k)
             rest == From(s, k)
  <2>1. s[k] \in CommentSigns
    BY <1>2 DEF CommentSigns
  <2>2. a \in Served(b) \/ a \in Served(rest)
    BY <2>1, ServedApart
  <2>3. k \in 1 .. Len(s) + 1
    OBVIOUS
  <2>4. rest \in Seq(Tokens)
    BY <2>3, Parts
  <2>5. rest # <<>> /\ rest[1] = BeginMarker /\ f = Opened(b, rest)
    BY <1>2
  <2> HIDE DEF f, b, rest
  <2>6. f.before = b
    <3>1. f = [before |-> b, after |-> f.after, domain |-> f.domain, entries |-> f.entries]
      BY <2>4, <2>5, OpenedIs
    <3>2. QED
      BY <3>1
  <2>7. a \in Served(rest) => InEntries(a, f.entries) \/ a \in Served(f.after)
    BY <2>4, <2>5, OpenedAnswers
  <2>8. QED
    BY <2>2, <2>6, <2>7
<1>3. QED
  BY <1>1, <1>2, ParseSplits

\* An edit of a file keeps the answers of its block that the edit is not about
\* (HostFile.Set and Remove; Clear and a change of domain are about all of them).
LEMMA EditKeeps ==
  ASSUME NEW e \in EditSet, NEW f, TypedFile(f), NEW ip, NEW name,
         InEntries(<<ip, name>>, f.entries), name \notin Concerned(e, f)
  PROVE  InEntries(<<ip, name>>, Edited(e, f).entries)
<1> DEFINE m == Managing(f)
           gone == BothForms(m, e.name)
           r == RemoveName(m, e.name)
<1>1. f.domain \in Domains /\ f.entries \in Seq(EntrySet)
  BY DEF TypedFile, TextFileSet
<1>2. m \in FileSet /\ m.domain = f.domain /\ m.entries = f.entries
  BY <1>1 DEF Managing, FileSet
<1>3. PICK n \in DOMAIN f.entries : InEntry(<<ip, name>>, f.entries[n])
  BY DEF InEntries
<1>4. f.entries[n].ip = ip /\ name \in ToSet(f.entries[n].names)
  BY <1>3 DEF InEntry, ToSet
<1>5. e.op \in {"set", "remove"}
  BY <1>4 DEF Concerned
<1>6. e.name \in NameSet /\ (e.op = "set" => e.ip \in Nat \ {NoAddress})
  BY <1>5 DEF EditSet
<1>7. Concerned(e, f) = BothForms(f, e.name)
  BY <1>5 DEF Concerned
<1> HIDE DEF m
<1>8. name \notin gone
  BY <1>2, <1>7, SameForms
<1>9. r \in FileSet /\ \E g : Thins(g, r, m, gone)
  BY <1>2, <1>6, RemoveThins
<1>10. PICK g : Thins(g, r, m, gone)
  BY <1>9
<1> HIDE DEF gone, r
<1>11. PICK j \in DOMAIN r.entries :
          r.entries[j].ip = ip /\ name \in ToSet(r.entries[j].names)
  <2>1. n \in DOMAIN m.entries /\ ToSet(m.entries[n].names) \ gone # {}
    BY <1>2, <1>4, <1>8
  <2>2. PICK j \in DOMAIN r.entries : g[j] = n
    BY <1>10, <2>1 DEF Thins
  <2>3. r.entries[j].ip = m.entries[n].ip /\ ToSet(r.entries[j].names) = ToSet(m.entries[n].names) \ gone
    BY <1>10, <2>2 DEF Thins
  <2>4. QED
    BY <1>2, <1>4, <1>8, <2>3
<1>12. \A x : name \in ToSet(x.names) /\ x.ip = ip => InEntry(<<ip, name>>, x)
  BY DEF InEntry, ToSet
<1>13. CASE e.op = "remove"
  <2>1. Edited(e, f).entries = r.entries
    BY <1>13 DEF Edited, m, r
  <2>2. InEntries(<<ip, name>>, r.entries)
    BY <1>11, <1>12 DEF InEntries
  <2>3. QED
    BY <2>1, <2>2
<1>14. CASE e.op = "set"
  <2> DEFINE t == SetName(m, e.name, e.ip)
  <2>1. Edited(e, f).entries = t.entries
    BY <1>14 DEF Edited, m
  <2>2. Appends(t, r, EntryFor(m, e.name, e.ip))
    BY <1>2, <1>6, <1>14, SetAppends DEF r
  <2> HIDE DEF t
  <2>3. DOMAIN r.entries = 1 .. Len(r.entries) /\ Len(r.entries) \in Nat
    BY <1>9 DEF FileSet
  <2>4. j \in DOMAIN t.entries /\ t.entries[j] = r.entries[j]
    BY <1>11, <2>2, <2>3 DEF Appends
  <2>5. InEntries(<<ip, name>>, t.entries)
    BY <1>11, <1>12, <2>4 DEF InEntries
  <2>6. QED
    BY <2>1, <2>5
<1>15. QED
  BY <1>5, <1>13, <1>14

\* An edit of the host file drops no answer of the router but those it is about
\* (AnswersKept): from every text whose blocks have addresses and names, damaged or not,
\* after every sequence of edits.
THEOREM AnswersKeptSafe == Spec => AnswersKept
<1> DEFINE Act == \A e \in Edits : LET f == ParseHostFile(text) IN
                    text' # text /\ put' = Edited(e, f) =>
                      \A a \in Served(text) : a[2] \notin Concerned(e, f) => a \in Served(text')
<1>1. TextInv /\ [Next]_vars => [Act]_vars
  <2> SUFFICES ASSUME TextInv, [Next]_vars, NEW e \in Edits, text' # text,
                      put' = Edited(e, ParseHostFile(text)),
                      NEW a \in Served(text), a[2] \notin Concerned(e, ParseHostFile(text))
               PROVE  a \in Served(text')
    OBVIOUS
  <2> DEFINE f == ParseHostFile(text)
             g == Edited(e, f)
  <2>1. text' = Render(put')
    <3>1. ASSUME NEW x \in Edits, Edit(x) PROVE text' = Render(put')
      BY <3>1 DEF Edit
    <3>2. ~Import /\ ~Export /\ ~UNCHANGED vars
      BY DEF Import, Export, vars
    <3>3. QED
      BY <3>1, <3>2 DEF Next
  <2>2. e \in EditSet /\ text \in Seq(Tokens) /\ Readable(text)
    BY EditsAssumption DEF TextInv
  <2>3. TypedFile(f)
    BY <2>2, ParsedIs
  <2>4. a \in Served(f.before) \/ InEntries(a, f.entries) \/ a \in Served(f.after)
    BY <2>2, TextAnswers
  <2>5. PICK ip, name : a = <<ip, name>>
    <3>1. \E i, j \in 1 .. Len(text) : ServedAt(text, i, j) /\ a = <<text[i].ip, text[j]>>
      BY <2>2, ServedIs
    <3>2. QED
      BY <3>1
  <2>6. a[2] = name /\ name \notin Concerned(e, f)
    BY <2>5
  <2> HIDE DEF f
  <2>7. TypedFile(g) /\ g.before = f.before /\ g.after = f.after
    BY <2>2, <2>3, EditedIs
  <2>8. InEntries(a, f.entries) => InEntries(<<ip, name>>, g.entries)
    BY <2>2, <2>3, <2>5, <2>6, EditKeeps
  <2> HIDE DEF g
  <2>9. a \in Served(Render(g))
    BY <2>4, <2>5, <2>7, <2>8, RenderAnswers
  <2>10. put' = g
    BY DEF f, g
  <2>11. QED
    BY <2>1, <2>9, <2>10
<1>2. QED
  BY <1>1, TextInductive, PTL DEF Spec, AnswersKept
=============================================================================
