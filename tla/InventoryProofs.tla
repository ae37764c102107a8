-------------------------- MODULE InventoryProofs ---------------------------
(***************************************************************************)
(* Proofs about the commands on reservations and names, from what          *)
(* HostFileProofs shows of the host file.                                  *)
(***************************************************************************)
EXTENDS Inventory, HostFileProofs

(* Plans: what the loops over a sequence of reservations do.               *)

\* The binds of a sequence of them.
LEMMA BindOf ==
  ASSUME NEW rs \in Seq(BindSet), NEW i \in 1 .. Len(rs)
  PROVE  rs[i] \in BindSet /\ rs[i].name \in NameSet /\ rs[i].ip \in Nat \ {NoAddress}
<1>1. rs[i] \in BindSet
  OBVIOUS
<1> DEFINE b == rs[i]
<1>2. b \in BindSet
  BY <1>1
<1> HIDE DEF b
<1>3. b.name \in NameSet /\ b.ip \in Nat \ {NoAddress}
  BY <1>2 DEF BindSet
<1>4. QED
  BY <1>2, <1>3 DEF b

\* What is kept of s are elements of s that are in S.
LEMMA KeptIn ==
  ASSUME NEW T, NEW s \in Seq(T), NEW S, NEW U, ToSet(s) \cap S \subseteq U
  PROVE  Kept(s, S) \in Seq(U) /\ Len(Kept(s, S)) \in Nat
<1> DEFINE k == Kept(s, S)
<1>1. k \in Seq(T) /\ ToSet(k) \subseteq U
  BY KeptPicks, KeptElements
<1> HIDE DEF k
<1>2. Len(k) \in Nat /\ k = [i \in 1 .. Len(k) |-> k[i]]
  BY <1>1
<1>3. \A i \in 1 .. Len(k) : k[i] \in U
  BY <1>1 DEF ToSet
<1>4. k \in Seq(U)
  BY <1>2, <1>3
<1>5. QED
  BY <1>2, <1>4 DEF k

\* One bind per MAC in a sequence of binds.
Unique(bs) == \A i, j \in DOMAIN bs : bs[i].mac = bs[j].mac => i = j

\* Leaving out binds leaves the others as unique as they were.
LEMMA KeptUnique ==
  ASSUME NEW T, NEW s \in Seq(T), NEW S, Unique(s)
  PROVE  Unique(Kept(s, S))
<1> DEFINE k == Kept(s, S)
<1>1. PICK g : Picks(g, s, S, k, Len(s))
  BY KeptPicks
<1>2. k \in Seq(T)
  BY KeptPicks
<1> HIDE DEF k
<1>3. ASSUME NEW i \in DOMAIN k, NEW j \in DOMAIN k, k[i].mac = k[j].mac PROVE i = j
  <2>1. i \in 1 .. Len(k) /\ j \in 1 .. Len(k) /\ Len(k) \in Nat
    BY <1>2
  <2>2. g[i] \in DOMAIN s /\ g[j] \in DOMAIN s /\ k[i] = s[g[i]] /\ k[j] = s[g[j]]
    BY <1>1, <2>1 DEF Picks
  <2>3. g[i] = g[j]
    BY <1>3, <2>2 DEF Unique
  <2>4. i < j \/ j < i \/ i = j
    BY <2>1
  <2>5. g[i] \in Int /\ g[j] \in Int
    BY <2>2
  <2>6. QED
    BY <1>1, <2>1, <2>3, <2>4, <2>5 DEF Picks
<1>4. QED
  BY <1>3 DEF Unique, k

\* Max of a set of positions.
LEMMA MaxOf ==
  ASSUME NEW N \in Nat, NEW A \in SUBSET (1 .. N), A # {}
  PROVE  Max(A) \in A /\ \A y \in A : y <= Max(A)
<1> DEFINE P == {n \in 0 .. N : \A B \in SUBSET (1 .. n) : B # {} =>
                                  \E x \in B : \A y \in B : x >= y}
<1>1. 0 \in P
  <2>1. ASSUME NEW B \in SUBSET (1 .. 0), B # {} PROVE \E x \in B : \A y \in B : x >= y
    <3>1. PICK x \in B : TRUE
      BY <2>1
    <3>2. x \in 1 .. 0
      OBVIOUS
    <3>3. QED
      BY <3>2
  <2>2. 0 \in 0 .. N
    OBVIOUS
  <2>3. QED
    BY <2>1, <2>2
<1>2. ASSUME NEW n \in P, n # N PROVE n + 1 \in P
  <2>1. n \in 0 .. N /\ n + 1 \in 0 .. N
    BY <1>2
  <2>2. ASSUME NEW B \in SUBSET (1 .. n+1), B # {} PROVE \E x \in B : \A y \in B : x >= y
    <3>1. CASE n + 1 \in B
      BY <2>1, <3>1
    <3>2. CASE n + 1 \notin B
      <4>1. B \in SUBSET (1 .. n)
        BY <2>1, <3>2
      <4>2. QED
        BY <1>2, <2>2, <4>1
    <3>3. QED
      BY <3>1, <3>2
  <2>3. QED
    BY <2>1, <2>2
<1>3. P \in SUBSET (0 .. N)
  OBVIOUS
<1>4. N \in P
  <2> HIDE DEF P
  <2>1. QED
    BY <1>1, <1>2, <1>3, Induction
<1>5. \E x \in A : \A y \in A : x >= y
  BY <1>4
<1>6. Max(A) \in A /\ \A y \in A : Max(A) >= y
  BY <1>5 DEF Max
<1>7. QED
  BY <1>6

NamePrefixes(named, f, rs) ==
  /\ named \in [0 .. Len(rs) -> FileSet]
  /\ named[0] = f
  /\ \A n \in 1 .. Len(rs) : named[n] = SetName(named[n-1], rs[n].name, rs[n].ip)
  /\ SetNames(f, rs) = named[Len(rs)]

\* The loop of SetNames, one reservation after the other.
LEMMA SetNamesRecursion ==
  ASSUME NEW f \in FileSet, NEW rs \in Seq(BindSet)
  PROVE  \E named : NamePrefixes(named, f, rs)
<1> DEFINE N == Len(rs)
           X == FileSet
           G == [i \in 1 .. N |-> [x \in X |-> SetName(x, rs[i].name, rs[i].ip)]]
<1>1. N \in Nat /\ f \in X /\ \A x \in X, i \in 1 .. N : SetName(x, rs[i].name, rs[i].ip) \in X
  <2>1. \A i \in 1 .. N : rs[i].name \in NameSet /\ rs[i].ip \in Nat \ {NoAddress}
    BY BindOf
  <2>2. QED
    BY <2>1, SetKeepsType
<1> HIDE DEF X
<1>2. G \in [1 .. N -> [X -> X]]
  BY <1>1
<1>3. \A i \in 1 .. N, x \in X : G[i][x] = SetName(x, rs[i].name, rs[i].ip)
  OBVIOUS
<1>4. Iterable(N, X, f, G)
  <2> HIDE DEF N, G
  <2>1. QED
    BY <1>1, <1>2, Recursion
<1>5. PICK g \in [0 .. N -> X] :
        g[0] = f /\ \A i \in 1 .. N : g[i] = SetName(g[i-1], rs[i].name, rs[i].ip)
  <2>1. PICK g \in [0 .. N -> X] : g[0] = f /\ \A i \in 1 .. N : g[i] = G[i][g[i-1]]
    BY <1>4 DEF Iterable
  <2> HIDE DEF G, N
  <2>2. \A i \in 1 .. N : g[i-1] \in X
    BY <1>1
  <2>3. QED
    BY <1>3, <2>1, <2>2
<1> HIDE DEF G
<1>6. g = [n \in 0 .. N |-> IF n = 0 THEN f ELSE SetName(g[n-1], rs[n].name, rs[n].ip)]
  <2>1. \A n \in 0 .. N : n = 0 \/ n \in 1 .. N
    BY <1>1
  <2> HIDE DEF N
  <2>2. QED
    BY <1>5, <2>1
<1> HIDE DEF N
<1> DEFINE named[n \in 0 .. N] == IF n = 0 THEN f ELSE SetName(named[n-1], rs[n].name, rs[n].ip)
<1>7. named = [n \in 0 .. N |-> IF n = 0 THEN f ELSE SetName(named[n-1], rs[n].name, rs[n].ip)]
  <2>1. \E h : h = [n \in 0 .. N |-> IF n = 0 THEN f ELSE SetName(h[n-1], rs[n].name, rs[n].ip)]
    BY <1>6
  <2>2. QED
    BY <2>1, Zenon
<1>8. SetNames(f, rs) = named[N]
  BY Zenon DEF SetNames, N
<1> HIDE DEF named
<1>9. named[0] = f
  <2>1. 0 \in 0 .. N
    BY <1>1
  <2>2. QED
    BY <2>1, <1>7, Zenon
<1>10. ASSUME NEW n \in 1 .. N PROVE named[n] = SetName(named[n-1], rs[n].name, rs[n].ip)
  <2>1. n \in 0 .. N /\ n # 0
    BY <1>1
  <2>2. QED
    BY <2>1, <1>7, Zenon
<1> DEFINE P == {n \in 0 .. N : named[n] = g[n]}
<1>11. 0 \in P
  BY <1>1, <1>5, <1>9
<1>12. ASSUME NEW n \in P, n # N PROVE n + 1 \in P
  <2>1. n + 1 \in 1 .. N /\ (n + 1) - 1 = n
    BY <1>1, <1>12
  <2>2. QED
    BY <2>1, <1>5, <1>10
<1>13. P \in SUBSET (0 .. N)
  OBVIOUS
<1>14. N \in P
  <2> HIDE DEF P
  <2>1. QED
    BY <1>1, <1>11, <1>12, <1>13, Induction
<1>15. NamePrefixes(g, f, rs)
  BY <1>5, <1>8, <1>14 DEF NamePrefixes, N, X
<1>16. QED
  BY <1>15

DropPrefixes(left, f, rs) ==
  /\ left \in [0 .. Len(rs) -> FileSet]
  /\ left[0] = f
  /\ \A n \in 1 .. Len(rs) : left[n] = RemoveName(left[n-1], rs[n].name)
  /\ DropNames(f, rs) = left[Len(rs)]

\* The loop of DropNames, one reservation after the other.
LEMMA DropNamesRecursion ==
  ASSUME NEW f \in FileSet, NEW rs \in Seq(BindSet)
  PROVE  \E left : DropPrefixes(left, f, rs)
<1> DEFINE N == Len(rs)
           X == FileSet
           G == [i \in 1 .. N |-> [x \in X |-> RemoveName(x, rs[i].name)]]
<1>1. N \in Nat /\ f \in X /\ \A x \in X, i \in 1 .. N : RemoveName(x, rs[i].name) \in X
  <2>1. \A i \in 1 .. N : rs[i].name \in NameSet
    BY BindOf
  <2>2. QED
    BY <2>1, RemoveThins
<1> HIDE DEF X
<1>2. G \in [1 .. N -> [X -> X]]
  BY <1>1
<1>3. \A i \in 1 .. N, x \in X : G[i][x] = RemoveName(x, rs[i].name)
  OBVIOUS
<1>4. Iterable(N, X, f, G)
  <2> HIDE DEF N, G
  <2>1. QED
    BY <1>1, <1>2, Recursion
<1>5. PICK g \in [0 .. N -> X] :
        g[0] = f /\ \A i \in 1 .. N : g[i] = RemoveName(g[i-1], rs[i].name)
  <2>1. PICK g \in [0 .. N -> X] : g[0] = f /\ \A i \in 1 .. N : g[i] = G[i][g[i-1]]
    BY <1>4 DEF Iterable
  <2> HIDE DEF G, N
  <2>2. \A i \in 1 .. N : g[i-1] \in X
    BY <1>1
  <2>3. QED
    BY <1>3, <2>1, <2>2
<1> HIDE DEF G
<1>6. g = [n \in 0 .. N |-> IF n = 0 THEN f ELSE RemoveName(g[n-1], rs[n].name)]
  <2>1. \A n \in 0 .. N : n = 0 \/ n \in 1 .. N
    BY <1>1
  <2> HIDE DEF N
  <2>2. QED
    BY <1>5, <2>1
<1> HIDE DEF N
<1> DEFINE left[n \in 0 .. N] == IF n = 0 THEN f ELSE RemoveName(left[n-1], rs[n].name)
<1>7. left = [n \in 0 .. N |-> IF n = 0 THEN f ELSE RemoveName(left[n-1], rs[n].name)]
  <2>1. \E h : h = [n \in 0 .. N |-> IF n = 0 THEN f ELSE RemoveName(h[n-1], rs[n].name)]
    BY <1>6
  <2>2. QED
    BY <2>1, Zenon
<1>8. DropNames(f, rs) = left[N]
  BY Zenon DEF DropNames, N
<1> HIDE DEF left
<1>9. left[0] = f
  <2>1. 0 \in 0 .. N
    BY <1>1
  <2>2. QED
    BY <2>1, <1>7, Zenon
<1>10. ASSUME NEW n \in 1 .. N PROVE left[n] = RemoveName(left[n-1], rs[n].name)
  <2>1. n \in 0 .. N /\ n # 0
    BY <1>1
  <2>2. QED
    BY <2>1, <1>7, Zenon
<1> DEFINE P == {n \in 0 .. N : left[n] = g[n]}
<1>11. 0 \in P
  BY <1>1, <1>5, <1>9
<1>12. ASSUME NEW n \in P, n # N PROVE n + 1 \in P
  <2>1. n + 1 \in 1 .. N /\ (n + 1) - 1 = n
    BY <1>1, <1>12
  <2>2. QED
    BY <2>1, <1>5, <1>10
<1>13. P \in SUBSET (0 .. N)
  OBVIOUS
<1>14. N \in P
  <2> HIDE DEF P
  <2>1. QED
    BY <1>1, <1>11, <1>12, <1>13, Induction
<1>15. DropPrefixes(g, f, rs)
  BY <1>5, <1>8, <1>14 DEF DropPrefixes, N, X
<1>16. QED
  BY <1>15

\* A name that does not answer does not answer after the removal of another one.
LEMMA RemoveKeepsSilent ==
  ASSUME NEW f \in FileSet, NEW n \in NameSet, NEW m, Silent(f, m)
  PROVE  Silent(RemoveName(f, n), m)
<1> DEFINE r == RemoveName(f, n)
<1>1. PICK g : Thins(g, r, f, BothForms(f, n))
  BY RemoveThins
<1>2. BothForms(r, m) = BothForms(f, m)
  BY RemoveThins, SameForms
<1> HIDE DEF r
<1>3. ASSUME NEW a \in DOMAIN r.entries PROVE ToSet(r.entries[a].names) \cap BothForms(r, m) = {}
  <2>1. g[a] \in DOMAIN f.entries /\ ToSet(r.entries[a].names) \subseteq ToSet(f.entries[g[a]].names)
    BY <1>1 DEF Thins
  <2>2. QED
    BY <1>2, <2>1 DEF Silent
<1>4. QED
  BY <1>3 DEF Silent, r

SetNamesKept(t, f) == t \in FileSet /\ t.domain = f.domain /\ (OneAnswer(f) => OneAnswer(t))

\* Setting names one after the other keeps the file what it is.
LEMMA SetNamesOf ==
  ASSUME NEW f \in FileSet, NEW rs \in Seq(BindSet)
  PROVE  SetNamesKept(SetNames(f, rs), f)
<1>1. PICK named : NamePrefixes(named, f, rs)
  BY SetNamesRecursion
<1> DEFINE N == Len(rs)
           P == {n \in 0 .. N : SetNamesKept(named[n], f)}
<1>2. N \in Nat /\ P \in SUBSET (0 .. N)
  OBVIOUS
<1>3. 0 \in P
  BY <1>1 DEF NamePrefixes, SetNamesKept
<1>4. ASSUME NEW n \in P, n # N PROVE n + 1 \in P
  <2>1. n + 1 \in 1 .. N /\ (n + 1) - 1 = n
    BY <1>2, <1>4
  <2> DEFINE x == named[n]
             b == rs[n+1]
  <2>2. named[n+1] = SetName(x, b.name, b.ip)
    BY <1>1, <2>1 DEF NamePrefixes
  <2>3. b.name \in NameSet /\ b.ip \in Nat \ {NoAddress}
    BY <2>1, BindOf
  <2>4. SetNamesKept(x, f)
    BY <1>4
  <2> HIDE DEF x, b
  <2>5. SetNamesKept(SetName(x, b.name, b.ip), f)
    BY <2>3, <2>4, SetKeepsType, SetKeepsOne DEF SetNamesKept
  <2>6. QED
    BY <2>1, <2>2, <2>5
<1>5. N \in P
  <2> HIDE DEF P, N
  <2>1. QED
    BY <1>2, <1>3, <1>4, Induction
<1>6. QED
  BY <1>1, <1>5 DEF NamePrefixes

DropsTo(t, f, rs, n) ==
  /\ t \in FileSet /\ t.domain = f.domain
  /\ OneAnswer(f) => OneAnswer(t)
  /\ \A i \in 1 .. n : Silent(t, rs[i].name)

\* Dropping names one after the other silences them all.
LEMMA DropNamesOf ==
  ASSUME NEW f \in FileSet, NEW rs \in Seq(BindSet)
  PROVE  DropsTo(DropNames(f, rs), f, rs, Len(rs))
<1>1. PICK left : DropPrefixes(left, f, rs)
  BY DropNamesRecursion
<1> DEFINE N == Len(rs)
           P == {n \in 0 .. N : DropsTo(left[n], f, rs, n)}
<1>2. N \in Nat /\ P \in SUBSET (0 .. N)
  OBVIOUS
<1>3. 0 \in P
  BY <1>1 DEF DropPrefixes, DropsTo
<1>4. ASSUME NEW n \in P, n # N PROVE n + 1 \in P
  <2>1. n + 1 \in 1 .. N /\ (n + 1) - 1 = n
    BY <1>2, <1>4
  <2> DEFINE x == left[n]
             m == rs[n+1].name
             y == RemoveName(x, m)
  <2>2. left[n+1] = y
    BY <1>1, <2>1 DEF DropPrefixes
  <2>3. m \in NameSet
    BY <2>1, BindOf
  <2>4. DropsTo(x, f, rs, n)
    BY <1>4
  <2> HIDE DEF x
  <2>5. y \in FileSet /\ y.domain = f.domain /\ (OneAnswer(f) => OneAnswer(y)) /\ Silent(y, m)
    <3> HIDE DEF m
    <3>1. QED
      BY <2>3, <2>4, RemoveThins, RemoveKeepsOne, RemoveSilences DEF DropsTo
  <2>6. ASSUME NEW i \in 1 .. n + 1 PROVE Silent(y, rs[i].name)
    <3>1. CASE i = n + 1
      BY <3>1, <2>5
    <3>2. CASE i # n + 1
      <4>1. i \in 1 .. n
        BY <1>4, <3>2
      <4>2. Silent(x, rs[i].name)
        BY <2>4, <4>1 DEF DropsTo
      <4> HIDE DEF m
      <4>3. QED
        BY <2>3, <2>4, <4>2, RemoveKeepsSilent DEF DropsTo
    <3>3. QED
      BY <3>1, <3>2
  <2> HIDE DEF y
  <2>7. DropsTo(y, f, rs, n + 1)
    BY <2>5, <2>6 DEF DropsTo
  <2>8. QED
    BY <2>1, <2>2, <2>7
<1>5. N \in P
  <2> HIDE DEF P, N
  <2>1. QED
    BY <1>2, <1>3, <1>4, Induction
<1>6. QED
  BY <1>1, <1>5 DEF DropPrefixes

\* What the commands ask for are binds.
LEMMA ReservationsOf ==
  /\ Reservations \subseteq BindSet
  /\ \A s \in Seq(Reservations) : s \in Seq(BindSet) /\ ToSet(s) \subseteq Reservations
<1>1. ASSUME NEW r \in Reservations PROVE r \in BindSet
  <2>1. CASE \E c \in Commands : c.kind = "import" /\ r \in ToSet(c.file)
    <3>1. PICK c \in Commands : c.kind = "import" /\ r \in ToSet(c.file)
      BY <2>1
    <3>2. c.file \in Seq(BindSet)
      BY <3>1, CommandsAssumption
    <3>3. QED
      BY <3>1, <3>2 DEF ToSet
  <2>2. CASE \E c \in Commands : c.kind = "add" /\ r = c.res
    BY <2>2, CommandsAssumption
  <2>3. CASE \E c \in Commands : /\ c.kind = "direct" /\ c.op.op \in {"create", "update"}
                                 /\ r = c.op.res
    <3>1. PICK c \in Commands : /\ c.kind = "direct" /\ c.op.op \in {"create", "update"}
                                /\ r = c.op.res
      BY <2>3
    <3> DEFINE o == c.op
    <3>2. o \in [op : {"create", "update", "delete"}, res : BindSet] \cup [op : {"deleteAll"}]
      BY <3>1, CommandsAssumption
    <3>3. o.op \in {"create", "update"} /\ r = o.res
      BY <3>1
    <3> HIDE DEF o
    <3>4. o \in [op : {"create", "update", "delete"}, res : BindSet]
      BY <3>2, <3>3
    <3>5. QED
      BY <3>3, <3>4
  <2>4. QED
    BY <1>1, <2>1, <2>2, <2>3 DEF Reservations
<1>2. Reservations \subseteq BindSet
  BY <1>1
<1>3. ASSUME NEW s \in Seq(Reservations) PROVE s \in Seq(BindSet) /\ ToSet(s) \subseteq Reservations
  <2>1. s \in Seq(BindSet)
    BY <1>2
  <2>2. QED
    BY <2>1 DEF ToSet
<1>4. QED
  BY <1>2, <1>3

\* The operations of a loop over reservations.
LEMMA OpsIn ==
  ASSUME NEW T, NEW rs \in Seq(T), NEW kind, NEW S, \A r \in T : [op |-> kind, res |-> r] \in S
  PROVE  Ops(kind, rs) \in Seq(S)
<1>1. Len(rs) \in Nat /\ DOMAIN rs = 1 .. Len(rs) /\ \A i \in 1 .. Len(rs) : rs[i] \in T
  OBVIOUS
<1>2. \A i \in DOMAIN rs : [op |-> kind, res |-> rs[i]] \in S
  BY <1>1
<1> DEFINE o == Ops(kind, rs)
<1>3. o = [i \in 1 .. Len(rs) |-> [op |-> kind, res |-> rs[i]]]
  BY <1>1 DEF Ops
<1> HIDE DEF o
<1>4. o \in [1 .. Len(rs) -> S]
  BY <1>1, <1>2, <1>3
<1>5. o \in Seq(S)
  BY <1>1, <1>4
<1>6. QED
  BY <1>5 DEF o

\* A Put at the end of a plan.
LEMMA PutIfIn ==
  ASSUME NEW changed, NEW S, changed => PutOp \in S
  PROVE  PutIf(changed) \in Seq(S)
  BY DEF PutIf

\* No names are dropped when none of them answers, in particular from an empty file.
LEMMA NamesToDropOf ==
  ASSUME NEW rs \in Seq(BindSet), NEW f \in FileSet
  PROVE  /\ NamesToDrop(rs, f) = <<>> <=> \A r \in ToSet(rs) : Silent(f, r.name)
         /\ f.entries = <<>> => NamesToDrop(rs, f) = <<>>
<1> DEFINE S == {r \in ToSet(rs) : Lookup(f, r.name) # NoAddress}
           k == NamesToDrop(rs, f)
<1>1. k \in Seq(BindSet) /\ ToSet(k) = ToSet(rs) \cap S
  BY KeptPicks, KeptElements DEF NamesToDrop
<1>2. k = <<>> <=> ToSet(k) = {}
  <2> HIDE DEF k
  <2>1. QED
    BY <1>1, NoElements
<1>3. \A r \in ToSet(rs) : r \in S <=> ~Silent(f, r.name)
  BY LookupOf
<1>4. f.entries = <<>> => \A r \in ToSet(rs) : Silent(f, r.name)
  BY DEF Silent
<1> HIDE DEF S
<1>5. QED
  BY <1>1, <1>2, <1>3, <1>4 DEF k

\* The operations that may wait while f is the file to be written: no file without a
\* domain is ever put.
Feasible(f) == {o \in OpSet : o.op = "put" => f.domain # NoDomain}

\* The operations a plan is made of.
LEMMA FeasibleOps ==
  ASSUME NEW f
  PROVE  /\ f.domain # NoDomain => PutOp \in Feasible(f)
         /\ \A r \in Reservations : /\ [op |-> "create", res |-> r] \in Feasible(f)
                                    /\ [op |-> "update", res |-> r] \in Feasible(f)
         /\ \A r \in BindSet : [op |-> "delete", res |-> r] \in Feasible(f)
         /\ [op |-> "clearNames"] \in Feasible(f) /\ [op |-> "deleteAll"] \in Feasible(f)
<1>1. PutOp \in OpSet
  BY DEF PutOp, OpSet
<1>2. ASSUME NEW r \in Reservations
      PROVE  [op |-> "create", res |-> r] \in OpSet /\ [op |-> "update", res |-> r] \in OpSet
  BY DEF OpSet
<1>3. ASSUME NEW r \in BindSet PROVE [op |-> "delete", res |-> r] \in OpSet
  BY DEF OpSet
<1>4. [op |-> "clearNames"] \in OpSet /\ [op |-> "deleteAll"] \in OpSet
  BY DEF OpSet
<1>5. QED
  BY <1>1, <1>2, <1>3, <1>4 DEF Feasible

GoodFile(f) == f \in FileSet /\ OneAnswer(f) /\ (f.domain = NoDomain => f.entries = <<>>)
GoodPlan(plan) ==
  plan.ops \in Seq(Feasible(plan.file)) /\ plan.file \in FileSet /\ OneAnswer(plan.file)

\* A cleared file.
LEMMA ClearNamesOf ==
  ASSUME NEW f \in FileSet
  PROVE  /\ ClearNames(f) \in FileSet /\ OneAnswer(ClearNames(f))
         /\ ClearNames(f).domain = f.domain /\ ClearNames(f).entries = <<>>
<1> DEFINE t == ClearNames(f)
<1>1. f \in [domain : Domains, entries : Seq(EntrySet)] /\ <<>> \in Seq(EntrySet)
  BY DEF FileSet
<1> HIDE DEF t
<1>2. t = [f EXCEPT !.entries = <<>>]
  BY DEF ClearNames, t
<1>3. t \in [domain : Domains, entries : Seq(EntrySet)]
  BY <1>1, <1>2
<1>4. t.domain = f.domain /\ t.entries = <<>>
  BY <1>1, <1>2
<1>5. OneAnswer(t)
  BY <1>4 DEF OneAnswer
<1>6. QED
  BY <1>3, <1>4, <1>5 DEF t, FileSet

\* A plan is good when its parts are.
LEMMA GoodPlanOf ==
  ASSUME NEW t \in FileSet, OneAnswer(t), NEW s \in Seq(Feasible(t))
  PROVE  GoodPlan([ops |-> s, file |-> t])
  BY DEF GoodPlan

\* What an import or a removal does to the file.
LEMMA ImportedNamesOf ==
  ASSUME NEW c, c.file \in Seq(BindSet), NEW have \in Seq(BindSet), NEW f \in FileSet
  PROVE  /\ ImportedNames(c, have, f) \in FileSet
         /\ OneAnswer(f) => OneAnswer(ImportedNames(c, have, f))
         /\ ImportedNames(c, have, f).domain = f.domain
<1> DEFINE want == NamesToSet(c.file, f)
           named == SetNames(f, want)
           gone == NamesToDrop(ToPrune(c.file, have), f)
<1>1. want \in Seq(BindSet) /\ gone \in Seq(BindSet)
  BY KeptPicks DEF NamesToSet, NamesToDrop, ToPrune
<1> HIDE DEF want, gone
<1>2. SetNamesKept(named, f)
  BY <1>1, SetNamesOf
<1> HIDE DEF named
<1>3. DropsTo(DropNames(named, gone), named, gone, Len(gone))
  BY <1>1, <1>2, DropNamesOf DEF SetNamesKept
<1> DEFINE t == DropNames(named, gone)
<1>4. t \in FileSet /\ (OneAnswer(f) => OneAnswer(t)) /\ t.domain = f.domain
  BY <1>2, <1>3 DEF DropsTo, SetNamesKept
<1>5. ImportedNames(c, have, f) = IF c.prune THEN t ELSE named
  BY DEF ImportedNames, named, want, gone
<1> HIDE DEF t
<1>6. QED
  BY <1>2, <1>4, <1>5 DEF SetNamesKept

\* Every plan is good: its operations are known ones, its file answers each name once, and
\* it writes a file only when the file has a domain.
LEMMA PlanOf ==
  ASSUME NEW c \in Commands, c.kind # "direct",
         NEW have \in Seq(Reservations), NEW f, GoodFile(f),
         c.kind \in {"import", "add", "setName"} => f.domain # NoDomain,
         c.kind = "rmName" => Lookup(f, c.name) # NoAddress
  PROVE  GoodPlan(Plan(c, have, f))
<1>1. f \in FileSet /\ OneAnswer(f)
  BY DEF GoodFile
<1>2. have \in Seq(BindSet) /\ ToSet(have) \subseteq Reservations
  BY ReservationsOf
<1>3. CASE c.kind = "import"
  <2> DEFINE t == ImportedNames(c, have, f)
             S == Feasible(t)
  <2>1. c.file \in Seq(BindSet)
    BY <1>3, CommandsAssumption
  <2>2. t \in FileSet /\ OneAnswer(t) /\ t.domain = f.domain
    BY <1>1, <1>2, <2>1, ImportedNamesOf
  <2> HIDE DEF t
  <2>3. ToSet(c.file) \subseteq Reservations
    BY <1>3 DEF Reservations
  <2>4. /\ ToCreate(c.file, have) \in Seq(Reservations)
        /\ ToUpdate(c.file, have) \in Seq(Reservations)
    BY <2>1, <2>3, KeptIn DEF ToCreate, ToUpdate
  <2>5. ToPrune(c.file, have) \in Seq(BindSet)
    BY <1>2, KeptPicks DEF ToPrune
  <2>6. /\ \A r \in Reservations : [op |-> "create", res |-> r] \in S
        /\ \A r \in Reservations : [op |-> "update", res |-> r] \in S
        /\ \A r \in BindSet : [op |-> "delete", res |-> r] \in S
        /\ PutOp \in S
    BY <1>3, <2>2, FeasibleOps
  <2> HIDE DEF S
  <2> DEFINE s1 == Ops("create", ToCreate(c.file, have))
             s2 == Ops("update", ToUpdate(c.file, have))
             s3 == IF c.prune THEN Ops("delete", ToPrune(c.file, have)) ELSE <<>>
             s4 == PutIf(NamesChange(c, have, f))
  <2>7. s1 \in Seq(S)
    BY <2>4, <2>6, OpsIn
  <2>8. s2 \in Seq(S)
    BY <2>4, <2>6, OpsIn
  <2>9. s3 \in Seq(S)
    <3>1. Ops("delete", ToPrune(c.file, have)) \in Seq(S)
      BY <2>5, <2>6, OpsIn
    <3>2. QED
      BY <3>1
  <2>10. s4 \in Seq(S)
    BY <2>6, PutIfIn
  <2>11. ImportOps(c, have, f) = s1 \o s2 \o s3 \o s4
    BY DEF ImportOps
  <2> HIDE DEF s1, s2, s3, s4
  <2>12. ImportOps(c, have, f) \in Seq(S)
    BY <2>7, <2>8, <2>9, <2>10, <2>11
  <2>13. Plan(c, have, f) = [ops |-> ImportOps(c, have, f), file |-> t]
    BY <1>3 DEF Plan, ImportPlan, t
  <2>14. QED
    BY <2>2, <2>12, <2>13, GoodPlanOf DEF S
<1>4. CASE c.kind = "add"
  <2> DEFINE t == SetName(f, c.res.name, c.res.ip)
             S == Feasible(t)
             kind == IF HasMAC(have, c.res.mac) THEN "update" ELSE "create"
  <2>1. c.res \in BindSet /\ c.res \in Reservations
    BY <1>4, CommandsAssumption DEF Reservations
  <2>2. c.res.name \in NameSet /\ c.res.ip \in Nat \ {NoAddress}
    <3> DEFINE r == c.res
    <3>1. r \in BindSet
      BY <2>1
    <3> HIDE DEF r
    <3>2. r.name \in NameSet /\ r.ip \in Nat \ {NoAddress}
      BY <3>1 DEF BindSet
    <3>3. QED
      BY <3>2 DEF r
  <2>3. t \in FileSet /\ OneAnswer(t) /\ t.domain = f.domain
    BY <1>1, <2>2, SetKeepsType, SetKeepsOne
  <2> HIDE DEF t
  <2>4. \A r \in Reservations : [op |-> kind, res |-> r] \in S
    BY FeasibleOps
  <2>5. PutOp \in S
    BY <1>4, <2>3, FeasibleOps
  <2> HIDE DEF S, kind
  <2> DEFINE s == Ops(kind, <<c.res>>)
  <2>6. s \in Seq(S)
    <3>1. <<c.res>> \in Seq(Reservations)
      BY <2>1
    <3>2. QED
      BY <2>4, <3>1, OpsIn
  <2>7. Plan(c, have, f) = [ops |-> s \o <<PutOp>>, file |-> t]
    BY <1>4 DEF Plan, AddPlan, t, kind
  <2> HIDE DEF s
  <2>8. s \o <<PutOp>> \in Seq(S)
    BY <2>5, <2>6
  <2>9. QED
    BY <2>3, <2>7, <2>8, GoodPlanOf DEF S
<1>5. CASE c.kind = "rm"
  <2> DEFINE rs == Targets(c, have)
             t == DropNames(f, rs)
             S == Feasible(t)
             changed == NamesToDrop(rs, f) # <<>>
             s1 == PutIf(changed)
             s2 == Ops("delete", rs)
  <2>1. rs \in Seq(BindSet)
    BY <1>2, KeptPicks DEF Targets
  <2>2. Plan(c, have, f) = [ops |-> s1 \o s2, file |-> t]
    BY <1>5 DEF Plan, RmPlan
  <2> HIDE DEF rs
  <2>3. t \in FileSet /\ OneAnswer(t) /\ t.domain = f.domain
    BY <1>1, <2>1, DropNamesOf DEF DropsTo
  <2> HIDE DEF t
  <2>4. changed => f.domain # NoDomain
    BY <2>1, NamesToDropOf DEF GoodFile
  <2>5. (\A r \in BindSet : [op |-> "delete", res |-> r] \in S) /\ (changed => PutOp \in S)
    BY <2>3, <2>4, FeasibleOps
  <2> HIDE DEF S, changed
  <2>6. s1 \in Seq(S) /\ s2 \in Seq(S)
    BY <2>1, <2>5, OpsIn, PutIfIn
  <2> HIDE DEF s1, s2
  <2>7. s1 \o s2 \in Seq(S)
    BY <2>6
  <2>8. QED
    BY <2>2, <2>3, <2>7, GoodPlanOf DEF S
<1>6. CASE c.kind = "clear"
  <2> DEFINE s == <<[op |-> "clearNames"], [op |-> "deleteAll"]>>
             S == Feasible(f)
             done == have = <<>> /\ f.entries = <<>>
  <2>1. [op |-> "clearNames"] \in S /\ [op |-> "deleteAll"] \in S
    BY FeasibleOps
  <2> HIDE DEF S
  <2>2. s \in Seq(S) /\ <<>> \in Seq(S)
    BY <2>1
  <2>3. Plan(c, have, f) = [ops |-> IF done THEN <<>> ELSE s, file |-> f]
    BY <1>6 DEF Plan, ClearPlan
  <2> HIDE DEF s, done
  <2>4. QED
    BY <1>1, <2>2, <2>3, GoodPlanOf DEF S
<1>7. ASSUME NEW t \in FileSet, OneAnswer(t), t.domain # NoDomain
      PROVE  GoodPlan(PutPlan(t))
  <2> DEFINE S == Feasible(t)
  <2>1. PutOp \in S
    BY <1>7, FeasibleOps
  <2> HIDE DEF S
  <2>2. <<PutOp>> \in Seq(S)
    BY <2>1
  <2>3. QED
    BY <1>7, <2>2, GoodPlanOf DEF PutPlan, S
<1>8. CASE c.kind = "setDomain"
  <2>1. c.domain \in Domains /\ c.domain # NoDomain
    BY <1>8, CommandsAssumption
  <2>2. GoodPlan(PutPlan(Requalify(f, c.domain)))
    BY <1>1, <1>7, <2>1, RequalifyKeepsOne
  <2>3. QED
    BY <1>8, <2>2 DEF Plan
<1>9. CASE c.kind = "setName"
  <2>1. c.name \in NameSet /\ c.ip \in Nat \ {NoAddress}
    BY <1>9, CommandsAssumption
  <2>2. GoodPlan(PutPlan(SetName(f, c.name, c.ip)))
    BY <1>1, <1>7, <1>9, <2>1, SetKeepsType, SetKeepsOne
  <2>3. QED
    BY <1>9, <2>2 DEF Plan
<1>10. CASE c.kind = "rmName"
  <2>1. c.name \in NameSet
    BY <1>10, CommandsAssumption
  <2>2. ~Silent(f, c.name)
    BY <1>1, <1>10, LookupOf
  <2>3. f.domain # NoDomain
    BY <2>2 DEF GoodFile, Silent
  <2>4. GoodPlan(PutPlan(RemoveName(f, c.name)))
    BY <1>1, <1>7, <2>1, <2>3, RemoveThins, RemoveKeepsOne
  <2>5. QED
    BY <1>10, <2>4 DEF Plan
<1>11. CASE c.kind = "clearNames"
  <2> DEFINE t == ClearNames(f)
             S == Feasible(t)
             changed == f.entries # <<>>
             s == PutIf(changed)
  <2>1. t \in FileSet /\ OneAnswer(t) /\ t.domain = f.domain
    BY <1>1, ClearNamesOf
  <2> HIDE DEF t
  <2>2. changed => PutOp \in S
    BY <2>1, FeasibleOps DEF GoodFile
  <2> HIDE DEF S
  <2>3. s \in Seq(S)
    BY <2>2, PutIfIn
  <2>4. Plan(c, have, f) = [ops |-> s, file |-> t]
    BY <1>11 DEF Plan, t
  <2> HIDE DEF s
  <2>5. QED
    BY <2>1, <2>3, <2>4, GoodPlanOf DEF S
<1>12. c.kind \in CommandKinds
  BY CommandsAssumption
<1>13. QED
  BY <1>3, <1>4, <1>5, <1>6, <1>8, <1>9, <1>10, <1>11, <1>12 DEF CommandKinds

-----------------------------------------------------------------------------
(* The invariant that holds whatever runs at the same time.                *)

\* What a process is about to do: it only works on a command of Commands, it has an
\* operation to write, and the file it may write has a domain.
InOrder(q) ==
  /\ todo[q] \in Seq(Feasible(hosts[q])) /\ OneAnswer(hosts[q])
  /\ pc[q] # "idle" => cmd[q] \in Commands
  /\ pc[q] \in {"binds", "hosts"} => cmd[q].kind # "direct"
  /\ pc[q] = "write" =>
       /\ todo[q] # <<>> /\ Current(q).op \in {"create", "update", "delete", "clearNames"}
       /\ Current(q).op \in {"create", "update"} => file.domain # NoDomain
       /\ Current(q).op = "clearNames" => hosts[q].domain # NoDomain

SharedInv == TypeOK /\ GoodFile(file) /\ \A q \in Procs : InOrder(q)

\* The operation in hand is one of the plan, and so is what follows it.
LEMMA CurrentOf ==
  ASSUME NEW p \in Procs, InOrder(p), todo[p] # <<>>
  PROVE  /\ Current(p) \in OpSet /\ (Current(p).op = "put" => hosts[p].domain # NoDomain)
         /\ Tail(todo[p]) \in Seq(Feasible(hosts[p]))
<1> DEFINE S == Feasible(hosts[p])
           s == todo[p]
<1>1. s \in Seq(S) /\ s # <<>>
  BY DEF InOrder
<1> HIDE DEF S, s
<1>2. Head(s) \in S /\ Tail(s) \in Seq(S)
  BY <1>1
<1>3. QED
  BY <1>2 DEF S, s, Feasible, Current

\* Which operations name a bind.
LEMMA OpOf ==
  ASSUME NEW o \in OpSet
  PROVE  /\ o.op \in {"create", "update"} => o.res \in Reservations
         /\ o.op = "delete" => o.res \in BindSet
         /\ o.op \in {"create", "update", "delete", "put", "clearNames", "deleteAll"}
<1>1. CASE o \in [op : {"create", "update"}, res : Reservations]
  BY <1>1
<1>2. CASE o \in [op : {"delete"}, res : BindSet]
  BY <1>2
<1>3. CASE o \in [op : {"put", "clearNames", "deleteAll"}]
  BY <1>3
<1>4. QED
  BY <1>1, <1>2, <1>3 DEF OpSet

\* A step of one process leaves what the others hold alone.
LEMMA Elsewhere ==
  ASSUME TypeOK, NEW p \in Procs, Step(p), NEW q \in Procs, q # p
  PROVE  /\ pc'[q] = pc[q] /\ cmd'[q] = cmd[q] /\ device'[q] = device[q] /\ hosts'[q] = hosts[q]
         /\ todo'[q] = todo[q] /\ errors'[q] = errors[q] /\ result'[q] = result[q]
<1> USE DEF TypeOK, End, OpDone, OpFailed
<1>1. CASE \E c \in Commands : Start(p, c)
  BY <1>1 DEF Start
<1>2. CASE ReadBinds(p)
  BY <1>2 DEF ReadBinds
<1>3. CASE ReadHosts(p)
  BY <1>3 DEF ReadHosts
<1>4. CASE Finish(p)
  BY <1>4 DEF Finish
<1>5. CASE CheckBind(p)
  BY <1>5 DEF CheckBind
<1>6. CASE CheckClear(p)
  BY <1>6 DEF CheckClear
<1>7. CASE Write(p)
  BY <1>7 DEF Write
<1>8. CASE ReadFails(p)
  BY <1>8 DEF ReadFails
<1>9. CASE OpFails(p)
  BY <1>9 DEF OpFails
<1>10. CASE ReplyLost(p)
  BY <1>10 DEF ReplyLost
<1>11. CASE Interrupt(p)
  BY <1>11 DEF Interrupt
<1>12. QED
  BY <1>1, <1>2, <1>3, <1>4, <1>5, <1>6, <1>7, <1>8, <1>9, <1>10, <1>11 DEF Step

\* The router changes only when a process carries out the operation it has in hand.
LEMMA RouterStep ==
  ASSUME NEW p \in Procs, Step(p)
  PROVE  \/ UNCHANGED <<binds, file>>
         \/ ReadyToWrite(p) /\ Written(Current(p), hosts[p])
<1>1. CASE Write(p) \/ ReplyLost(p)
  BY <1>1 DEF Write, ReplyLost
<1>2. CASE ~(Write(p) \/ ReplyLost(p))
  BY <1>2 DEF Step, Start, ReadBinds, ReadHosts, Finish, CheckBind, CheckClear, ReadFails,
               OpFails, Interrupt, routerVars
<1>3. QED
  BY <1>1, <1>2

\* The binds among which one with a MAC is sought.
LEMMA WithMACOf ==
  ASSUME NEW T, NEW bs \in Seq(T), NEW mac, HasMAC(bs, mac)
  PROVE  /\ FirstWithMAC(bs, mac) \in DOMAIN bs /\ bs[FirstWithMAC(bs, mac)].mac = mac
         /\ LastWithMAC(bs, mac) \in ToSet(bs) /\ LastWithMAC(bs, mac).mac = mac
<1> DEFINE A == {i \in DOMAIN bs : bs[i].mac = mac}
           N == Len(bs)
<1>1. N \in Nat /\ A \in SUBSET (1 .. N) /\ A # {}
  BY DEF HasMAC
<1> HIDE DEF A, N
<1>2. Min(A) \in A /\ Max(A) \in A
  BY <1>1, MinOf, MaxOf
<1>3. FirstWithMAC(bs, mac) = Min(A) /\ LastWithMAC(bs, mac) = bs[Max(A)]
  BY DEF FirstWithMAC, LastWithMAC, A
<1>4. QED
  BY <1>2, <1>3 DEF A, ToSet

\* What a write leaves on the router.
LEMMA WrittenGood ==
  ASSUME SharedInv, NEW p \in Procs, ReadyToWrite(p), Written(Current(p), hosts[p])
  PROVE  /\ todo[p] # <<>>
         /\ binds' \in Seq(Reservations) /\ GoodFile(file')
         /\ file.domain # NoDomain => file'.domain # NoDomain
         /\ ToSet(binds') \ ToSet(binds) # {} => Current(p).op \in {"create", "update"}
<1> DEFINE o == Current(p)
           f == hosts[p]
<1>1. InOrder(p) /\ todo[p] # <<>>
  BY DEF SharedInv, InOrder, ReadyToWrite, Busy
<1>2. o \in OpSet /\ (o.op = "put" => f.domain # NoDomain)
  BY <1>1, CurrentOf
<1>3. o.op = "clearNames" => f.domain # NoDomain
  BY <1>1 DEF InOrder, ReadyToWrite, Busy
<1>4. f \in FileSet /\ OneAnswer(f) /\ binds \in Seq(Reservations)
  BY <1>1 DEF SharedInv, TypeOK, InOrder
<1>5. /\ binds' = CASE o.op = "create" -> Append(binds, o.res)
                    [] o.op = "update" -> IF HasMAC(binds, o.res.mac)
                                          THEN ReplaceAt(binds, FirstWithMAC(binds, o.res.mac), o.res)
                                          ELSE binds
                    [] o.op = "delete" -> Kept(binds, {b \in ToSet(binds) : b.mac # o.res.mac})
                    [] o.op = "deleteAll" -> <<>>
                    [] OTHER -> binds
      /\ file' = IF o.op \in {"put", "clearNames"} THEN f ELSE file
  BY DEF Written
<1> HIDE DEF o, f
<1>6. GoodFile(file') /\ (file.domain # NoDomain => file'.domain # NoDomain)
  BY <1>2, <1>3, <1>4, <1>5 DEF GoodFile, SharedInv
<1>7. /\ o.op \in {"create", "update"} => o.res \in Reservations
      /\ o.op \in {"create", "update", "delete", "put", "clearNames", "deleteAll"}
  BY <1>2, OpOf
<1>8. binds' \in Seq(Reservations) /\ (ToSet(binds') \ ToSet(binds) # {} => o.op \in {"create", "update"})
  <2>1. CASE o.op = "create"
    BY <1>4, <1>5, <1>7, <2>1
  <2>2. CASE o.op = "update"
    <3>1. CASE HasMAC(binds, o.res.mac)
      <4> DEFINE i == FirstWithMAC(binds, o.res.mac)
      <4>1. i \in DOMAIN binds
        BY <1>4, <3>1, WithMACOf
      <4>2. binds' = ReplaceAt(binds, i, o.res)
        BY <1>5, <2>2, <3>1
      <4> HIDE DEF i
      <4>3. binds' \in Seq(Reservations)
        BY <1>4, <1>7, <2>2, <4>1, <4>2 DEF ReplaceAt
      <4>4. QED
        BY <4>3, <2>2
    <3>2. CASE ~HasMAC(binds, o.res.mac)
      BY <1>4, <1>5, <2>2, <3>2
    <3>3. QED
      BY <3>1, <3>2
  <2>3. CASE o.op = "delete"
    <3>1. binds' = Kept(binds, {b \in ToSet(binds) : b.mac # o.res.mac})
      BY <1>5, <2>3
    <3>2. binds' \in Seq(Reservations) /\ ToSet(binds') \subseteq ToSet(binds)
      BY <1>4, <3>1, KeptPicks, KeptElements
    <3>3. QED
      BY <3>2
  <2>4. CASE o.op \in {"put", "clearNames"}
    BY <1>4, <1>5, <2>4
  <2>5. CASE o.op = "deleteAll"
    <3>1. binds' = <<>>
      BY <1>5, <2>5
    <3>2. ToSet(binds') = {}
      BY <3>1 DEF ToSet
    <3>3. QED
      BY <3>1, <3>2
  <2>6. QED
    BY <1>7, <2>1, <2>2, <2>3, <2>4, <2>5
<1>9. QED
  BY <1>1, <1>6, <1>8 DEF o

\* What the process that takes a step holds after it.
Holds(p) ==
  /\ pc' \in [Procs -> PC] /\ cmd' \in [Procs -> Commands \cup {NoCommand}]
  /\ device' \in [Procs -> Seq(Reservations)] /\ hosts' \in [Procs -> FileSet]
  /\ todo' \in [Procs -> Seq(OpSet)]
  /\ errors' \in [Procs -> Nat] /\ result' \in [Procs -> Result]
  /\ runs' \in 0..MaxRuns /\ faults' \in 0..MaxFaults

\* An operation that is done or has failed leaves the process in order.
LEMMA AfterOp ==
  ASSUME SharedInv, NEW p \in Procs, todo[p] # <<>>, pc[p] # "idle",
         OpDone(p) \/ OpFailed(p), UNCHANGED <<cmd, device, hosts, runs>>,
         faults' \in 0..MaxFaults
  PROVE  Holds(p) /\ InOrder(p)'
<1>1. InOrder(p) /\ TypeOK
  BY DEF SharedInv
<1>2. Tail(todo[p]) \in Seq(Feasible(hosts[p]))
  BY <1>1, CurrentOf
<1>3. todo[p] \in Seq(Feasible(hosts[p])) /\ Feasible(hosts[p]) \subseteq OpSet
  BY <1>1 DEF InOrder, Feasible
<1>5. \E t \in {todo[p], Tail(todo[p])} :
        /\ todo' = [todo EXCEPT ![p] = t]
        /\ t \in Seq(Feasible(hosts[p])) /\ t \in Seq(OpSet)
  <2>1. todo' = [todo EXCEPT ![p] = todo[p]] \/ todo' = [todo EXCEPT ![p] = Tail(todo[p])]
    BY <1>1 DEF OpDone, OpFailed, TypeOK
  <2>2. Tail(todo[p]) \in Seq(OpSet) /\ todo[p] \in Seq(OpSet)
    BY <1>2, <1>3
  <2>3. QED
    BY <1>2, <1>3, <2>1, <2>2
<1>6. /\ \E at \in {"next", "idle"} : pc' = [pc EXCEPT ![p] = at]
      /\ errors' \in [Procs -> Nat] /\ result' \in [Procs -> Result]
  <2>1. CASE OpDone(p)
    BY <1>1, <2>1 DEF OpDone, TypeOK
  <2>2. CASE OpFailed(p) /\ EntryErrors(p)
    <3>1. errors' = [errors EXCEPT ![p] = @ + 1] /\ pc' = [pc EXCEPT ![p] = "next"] /\ UNCHANGED result
      BY <2>2 DEF OpFailed
    <3>2. QED
      BY <1>1, <3>1 DEF TypeOK
  <2>3. CASE OpFailed(p) /\ ~EntryErrors(p)
    <3>1. End(p, "failed") /\ UNCHANGED errors
      BY <2>3 DEF OpFailed
    <3>2. QED
      BY <1>1, <3>1 DEF TypeOK, End, Result
  <2>4. QED
    BY <2>1, <2>2, <2>3
<1>7. Holds(p)
  BY <1>1, <1>5, <1>6 DEF Holds, TypeOK, PC
<1>8. InOrder(p)'
  <2>1. pc'[p] \in {"next", "idle"} /\ cmd'[p] = cmd[p] /\ hosts'[p] = hosts[p]
    BY <1>1, <1>6 DEF TypeOK
  <2>2. todo'[p] \in Seq(Feasible(hosts[p]))
    BY <1>1, <1>5 DEF TypeOK
  <2>3. QED
    BY <1>1, <2>1, <2>2 DEF InOrder, Feasible
<1>9. QED
  BY <1>7, <1>8

\* Every step leaves the process that takes it in order.
LEMMA StepHolds ==
  ASSUME SharedInv, NEW p \in Procs, Step(p)
  PROVE  Holds(p) /\ InOrder(p)'
<1>1. TypeOK /\ InOrder(p) /\ GoodFile(file)
  BY DEF SharedInv
<1>2. /\ MaxRuns \in Nat /\ MaxFaults \in Nat /\ runs \in Nat /\ faults \in Nat
      /\ runs < MaxRuns => runs + 1 \in 0..MaxRuns
      /\ MayFail => faults' \in 0..MaxFaults
  BY <1>1, BoundsAssumption DEF TypeOK, MayFail
<1>3. ASSUME \E r \in Result : End(p, r), UNCHANGED <<cmd, device, hosts, todo, errors, runs>>,
             faults' \in 0..MaxFaults
      PROVE  Holds(p) /\ InOrder(p)'
  <2>1. Holds(p)
    BY <1>1, <1>3 DEF TypeOK, Holds, End, PC
  <2>2. pc'[p] = "idle"
    BY <1>1, <1>3 DEF TypeOK, End
  <2>3. QED
    BY <1>1, <1>3, <2>1, <2>2 DEF InOrder, Feasible
<1>4. ASSUME NEW c \in Commands, Start(p, c) PROVE Holds(p) /\ InOrder(p)'
  <2> DEFINE s == IF c.kind = "direct" THEN <<c.op>> ELSE <<>>
  <2>1. s \in Seq(Feasible(hosts[p])) /\ s \in Seq(OpSet)
    <3>1. CASE c.kind = "direct"
      <4> DEFINE o == c.op
      <4>1. o \in [op : {"create", "update", "delete"}, res : BindSet] \cup [op : {"deleteAll"}]
        BY <3>1, CommandsAssumption
      <4>2. o.op \in {"create", "update"} => o.res \in Reservations
        BY <3>1 DEF Reservations
      <4> HIDE DEF o
      <4>3. o \in OpSet /\ o.op # "put"
        <5>1. CASE o \in [op : {"deleteAll"}]
          BY <5>1 DEF OpSet
        <5>2. CASE o \in [op : {"create", "update", "delete"}, res : BindSet]
          <6>1. CASE o.op = "delete"
            BY <5>2, <6>1 DEF OpSet
          <6>2. CASE o.op # "delete"
            BY <4>2, <5>2, <6>2 DEF OpSet
          <6>3. QED
            BY <6>1, <6>2, <5>2
        <5>3. QED
          BY <4>1, <5>1, <5>2
      <4>4. s = <<o>>
        BY <3>1 DEF o
      <4> DEFINE S == Feasible(hosts[p])
      <4>5. o \in S
        BY <4>3 DEF Feasible
      <4> HIDE DEF S, s
      <4>6. s \in Seq(S) /\ s \in Seq(OpSet)
        BY <4>3, <4>4, <4>5
      <4>7. QED
        BY <4>6 DEF S
    <3>2. CASE c.kind # "direct"
      BY <3>2
    <3>3. QED
      BY <3>1, <3>2
  <2>2. /\ pc' = [pc EXCEPT ![p] = FirstStep(c)] /\ todo' = [todo EXCEPT ![p] = s]
        /\ cmd' = [cmd EXCEPT ![p] = c] /\ errors' = [errors EXCEPT ![p] = 0]
        /\ result' = [result EXCEPT ![p] = "none"]
        /\ runs' \in 0..MaxRuns /\ UNCHANGED <<device, hosts, faults>>
    BY <1>2, <1>4 DEF Start
  <2> HIDE DEF s
  <2>3. FirstStep(c) \in {"binds", "hosts", "next"} /\ (FirstStep(c) \in {"binds", "hosts"} => c.kind # "direct")
    BY DEF FirstStep
  <2>4. Holds(p)
    BY <1>1, <2>1, <2>2, <2>3 DEF TypeOK, Holds, PC, Result
  <2>5. pc'[p] = FirstStep(c) /\ todo'[p] = s /\ cmd'[p] = c /\ hosts'[p] = hosts[p]
    BY <1>1, <2>2 DEF TypeOK
  <2>6. InOrder(p)'
    BY <1>1, <2>1, <2>3, <2>5 DEF InOrder, Feasible
  <2>7. QED
    BY <2>4, <2>6
<1>5. CASE ReadBinds(p)
  <2>1. CASE End(p, "failed")
    <3>1. Holds(p)
      BY <1>1, <1>5, <2>1 DEF ReadBinds, TypeOK, Holds, End, PC, Result, routerVars
    <3>2. pc'[p] = "idle" /\ UNCHANGED <<hosts, todo>>
      BY <1>1, <1>5, <2>1 DEF ReadBinds, TypeOK, End
    <3>3. QED
      BY <1>1, <3>1, <3>2 DEF InOrder, Feasible
  <2>2. CASE ~End(p, "failed")
    <3>1. pc[p] = "binds" /\ pc' = [pc EXCEPT ![p] = "hosts"] /\ UNCHANGED <<cmd, hosts, todo, result>>
      BY <1>5, <2>2 DEF ReadBinds
    <3>2. Holds(p)
      BY <1>1, <1>5, <3>1 DEF ReadBinds, TypeOK, Holds, PC
    <3>3. pc'[p] = "hosts"
      BY <1>1, <3>1 DEF TypeOK
    <3>4. QED
      BY <1>1, <3>1, <3>2, <3>3 DEF InOrder, Feasible
  <2>3. QED
    BY <2>1, <2>2
<1>6. CASE ReadHosts(p)
  <2>1. CASE HostsRefused(cmd[p])
    BY <1>1, <1>3, <1>6, <2>1 DEF ReadHosts, Result, TypeOK
  <2>2. CASE ~HostsRefused(cmd[p])
    <3> DEFINE c == cmd[p]
               plan == Plan(c, device[p], file)
    <3>1. c \in Commands /\ c.kind # "direct"
      BY <1>1, <1>6 DEF InOrder, ReadHosts
    <3>2. device[p] \in Seq(Reservations)
      BY <1>1 DEF TypeOK
    <3>3. /\ c.kind \in {"import", "add", "setName"} => file.domain # NoDomain
          /\ c.kind = "rmName" => Lookup(file, c.name) # NoAddress
      BY <2>2 DEF HostsRefused
    <3>4. GoodPlan(plan)
      <4> HIDE DEF c
      <4>1. QED
        BY <1>1, <3>1, <3>2, <3>3, PlanOf
    <3>5. /\ hosts' = [hosts EXCEPT ![p] = plan.file] /\ todo' = [todo EXCEPT ![p] = plan.ops]
          /\ pc' = [pc EXCEPT ![p] = "next"]
          /\ UNCHANGED <<cmd, device, errors, result, runs, faults>>
      BY <1>6, <2>2 DEF ReadHosts
    <3> HIDE DEF plan
    <3>6. plan.ops \in Seq(Feasible(plan.file)) /\ plan.file \in FileSet /\ OneAnswer(plan.file)
      BY <3>4 DEF GoodPlan
    <3>7. plan.ops \in Seq(OpSet)
      BY <3>6 DEF Feasible
    <3>8. Holds(p)
      BY <1>1, <3>5, <3>6, <3>7 DEF TypeOK, Holds, PC
    <3>9. pc'[p] = "next" /\ hosts'[p] = plan.file /\ todo'[p] = plan.ops /\ cmd'[p] = c
      BY <1>1, <3>5 DEF TypeOK
    <3>10. InOrder(p)'
      BY <3>1, <3>6, <3>9 DEF InOrder, Feasible
    <3>11. QED
      BY <3>8, <3>10
  <2>3. QED
    BY <2>1, <2>2
<1>7. CASE Finish(p)
  <2>1. \E r \in Result : End(p, r)
    BY <1>7 DEF Finish, Result
  <2>2. QED
    BY <1>1, <1>3, <1>7, <2>1 DEF Finish, TypeOK
<1>8. ASSUME pc' = [pc EXCEPT ![p] = "write"], UNCHANGED <<cmd, device, todo, errors, result, runs, faults>>,
             pc[p] # "idle", todo[p] # <<>>,
             \E f : hosts' = [hosts EXCEPT ![p] = f] /\ f \in FileSet /\ OneAnswer(f)
                    /\ (hosts[p].domain # NoDomain => f.domain # NoDomain)
                    /\ (Current(p).op = "clearNames" => f.domain # NoDomain),
             Current(p).op \in {"create", "update", "delete", "clearNames"},
             Current(p).op \in {"create", "update"} => file'.domain # NoDomain
      PROVE  Holds(p) /\ InOrder(p)'
  <2>1. PICK f : hosts' = [hosts EXCEPT ![p] = f] /\ f \in FileSet /\ OneAnswer(f)
                 /\ (hosts[p].domain # NoDomain => f.domain # NoDomain)
                 /\ (Current(p).op = "clearNames" => f.domain # NoDomain)
    BY <1>8
  <2>2. Holds(p)
    BY <1>1, <1>8, <2>1 DEF TypeOK, Holds, PC
  <2>3. /\ pc'[p] = "write" /\ hosts'[p] = f /\ todo'[p] = todo[p] /\ cmd'[p] = cmd[p]
        /\ Current(p)' = Current(p)
    BY <1>1, <1>8, <2>1 DEF TypeOK, Current
  <2>4. todo[p] \in Seq(Feasible(f))
    <3>1. Feasible(hosts[p]) \subseteq Feasible(f)
      BY <2>1 DEF Feasible
    <3>2. todo[p] \in Seq(Feasible(hosts[p]))
      BY <1>1 DEF InOrder
    <3>3. QED
      BY <3>1, <3>2
  <2>5. InOrder(p)'
    BY <1>1, <1>8, <2>1, <2>3, <2>4 DEF InOrder, Feasible
  <2>6. QED
    BY <2>2, <2>5
<1>9. CASE CheckBind(p)
  <2>1. pc[p] # "idle" /\ todo[p] # <<>> /\ faults' \in 0..MaxFaults /\ UNCHANGED <<cmd, device, hosts, runs, faults>>
    BY <1>1, <1>9 DEF CheckBind, Busy, TypeOK
  <2>2. CASE OpFailed(p)
    BY <2>1, <2>2, AfterOp
  <2>3. CASE ~OpFailed(p)
    <3>1. /\ pc' = [pc EXCEPT ![p] = "write"] /\ UNCHANGED <<todo, errors, result, file>>
          /\ Current(p).op \in {"create", "update", "delete"} /\ Checked(Current(p))
      BY <1>9, <2>3 DEF CheckBind, routerVars
    <3>2. Current(p).op \in {"create", "update"} => file'.domain # NoDomain
      BY <3>1 DEF Checked, CreateAllowed, UpdateAllowed, DomainSet
    <3>3. hosts' = [hosts EXCEPT ![p] = hosts[p]] /\ hosts[p] \in FileSet /\ OneAnswer(hosts[p])
      BY <1>1, <2>1 DEF TypeOK, InOrder
    <3>4. QED
      BY <1>8, <2>1, <3>1, <3>2, <3>3
  <2>4. QED
    BY <2>2, <2>3
<1>10. CASE CheckClear(p)
  <2>1. pc[p] # "idle" /\ todo[p] # <<>> /\ faults' \in 0..MaxFaults /\ Current(p).op = "clearNames"
        /\ UNCHANGED <<cmd, device, file, runs, faults>>
    BY <1>1, <1>10 DEF CheckClear, Busy, TypeOK, routerVars
  <2>2. CASE OpDone(p) /\ UNCHANGED hosts
    BY <2>1, <2>2, AfterOp
  <2>3. CASE ~(OpDone(p) /\ UNCHANGED hosts)
    <3>1. /\ pc' = [pc EXCEPT ![p] = "write"] /\ UNCHANGED <<todo, errors, result>>
          /\ hosts' = [hosts EXCEPT ![p] = ClearNames(file)] /\ file.entries # <<>>
      BY <1>10, <2>3 DEF CheckClear
    <3>2. ClearNames(file) \in FileSet /\ OneAnswer(ClearNames(file)) /\ ClearNames(file).domain # NoDomain
      BY <1>1, <3>1, ClearNamesOf DEF GoodFile
    <3>3. QED
      BY <1>8, <2>1, <3>1, <3>2
  <2>4. QED
    BY <2>2, <2>3
<1>11. CASE Write(p)
  <2>1. todo[p] # <<>> /\ pc[p] # "idle"
    BY <1>1, <1>11 DEF Write, ReadyToWrite, Busy, InOrder
  <2>2. OpDone(p) /\ UNCHANGED <<cmd, device, hosts, runs>> /\ faults' \in 0..MaxFaults
    BY <1>1, <1>11 DEF Write, TypeOK
  <2>3. QED
    BY <2>1, <2>2, AfterOp
<1>12. CASE ReadFails(p)
  BY <1>2, <1>3, <1>12 DEF ReadFails, Result
<1>13. CASE OpFails(p)
  <2>1. todo[p] # <<>> /\ pc[p] # "idle"
    BY <1>1, <1>13 DEF OpFails, Busy, InOrder
  <2>2. QED
    BY <1>2, <1>13, <2>1, AfterOp DEF OpFails
<1>14. CASE ReplyLost(p)
  <2>1. todo[p] # <<>> /\ pc[p] # "idle"
    BY <1>1, <1>14 DEF ReplyLost, ReadyToWrite, Busy, InOrder
  <2>2. QED
    BY <1>2, <1>14, <2>1, AfterOp DEF ReplyLost
<1>15. CASE Interrupt(p)
  BY <1>2, <1>3, <1>15 DEF Interrupt, Result
<1>16. QED
  BY <1>4, <1>5, <1>6, <1>7, <1>9, <1>10, <1>11, <1>12, <1>13, <1>14, <1>15 DEF Step

\* The invariant holds in every behaviour.
LEMMA SharedInductive == Spec => []SharedInv
<1>1. Init => SharedInv
  <2> SUFFICES ASSUME Init PROVE SharedInv
    OBVIOUS
  <2>1. GoodFile(EmptyFile(InitDomain)) /\ EmptyFile(NoDomain) \in FileSet /\ OneAnswer(EmptyFile(NoDomain))
    <3>1. InitDomain \in Domains /\ NoDomain \in Domains
      BY CommandsAssumption DEF Domains, NoDomain
    <3>2. EmptyFile(InitDomain).entries = <<>>
      BY DEF EmptyFile
    <3>3. QED
      BY <3>1, <3>2, EmptyFileOf DEF GoodFile
  <2>2. TypeOK
    BY <2>1, BoundsAssumption DEF Init, TypeOK, PC, Result, GoodFile
  <2>3. ASSUME NEW q \in Procs PROVE InOrder(q)
    BY <2>1 DEF Init, InOrder, Feasible
  <2>4. QED
    BY <2>1, <2>2, <2>3 DEF Init, SharedInv
<1>2. SharedInv /\ [Next]_vars => SharedInv'
  <2> SUFFICES ASSUME SharedInv, [Next]_vars PROVE SharedInv'
    OBVIOUS
  <2>1. CASE UNCHANGED vars
    BY <2>1 DEF vars, SharedInv, TypeOK, InOrder, Current
  <2>2. ASSUME NEW p \in Procs, Step(p) PROVE SharedInv'
    <3>1. Holds(p) /\ InOrder(p)'
      BY <2>2, StepHolds
    <3>2. /\ binds' \in Seq(Reservations) /\ GoodFile(file')
          /\ file.domain # NoDomain => file'.domain # NoDomain
      <4>1. CASE UNCHANGED <<binds, file>>
        BY <4>1 DEF SharedInv, TypeOK
      <4>2. CASE ReadyToWrite(p) /\ Written(Current(p), hosts[p])
        BY <4>2, WrittenGood
      <4>3. QED
        BY <2>2, <4>1, <4>2, RouterStep
    <3>3. TypeOK'
      BY <3>1, <3>2 DEF TypeOK, Holds, GoodFile
    <3>4. ASSUME NEW q \in Procs, q # p PROVE InOrder(q)'
      <4>1. pc'[q] = pc[q] /\ cmd'[q] = cmd[q] /\ hosts'[q] = hosts[q] /\ todo'[q] = todo[q]
        BY <2>2, <3>4, Elsewhere DEF SharedInv
      <4>2. Current(q)' = Current(q)
        BY <4>1 DEF Current
      <4>3. InOrder(q)
        BY DEF SharedInv
      <4>4. QED
        BY <3>2, <4>1, <4>2, <4>3 DEF InOrder, Feasible
    <3>5. QED
      BY <3>1, <3>2, <3>3, <3>4 DEF SharedInv
  <2>3. QED
    BY <2>1, <2>2 DEF Next
<1>3. QED
  BY <1>1, <1>2, PTL DEF Spec

\* The router's tables and every process's snapshots keep their types; in particular every
\* bind was asked for and no entry of the file is left without a name.
THEOREM TypeCorrect == Spec => []TypeOK
<1>1. SharedInv => TypeOK
  BY DEF SharedInv
<1>2. QED
  BY <1>1, SharedInductive, PTL

\* Whatever the order of the commands, their failures and their races, a name that Lookup
\* finds has one answer: every file that is written was made by HostFile.Set and
\* HostFile.Remove.
THEOREM OneAnswerSafe == Spec => []OneAnswerPerName
<1>1. ASSUME SharedInv PROVE OneAnswerPerName
  <2>1. file \in FileSet /\ OneAnswer(file)
    BY <1>1 DEF SharedInv, GoodFile
  <2>2. ASSUME NEW i \in DOMAIN file.entries, NEW n \in ToSet(file.entries[i].names),
               Matched(file, n)
        PROVE  Cardinality(Answers(file, n)) = 1
    <3>2. n \in BothForms(file, n)
      BY <2>2 DEF Matched
    <3>3. i \in Answers(file, n)
      BY <2>1, <3>2, AnswersOf
    <3>4. ASSUME NEW j \in Answers(file, n), j # i PROVE FALSE
      <4>1. j \in DOMAIN file.entries /\ ToSet(file.entries[j].names) \cap BothForms(file, n) # {}
        BY <2>1, AnswersOf
      <4>2. QED
        BY <2>1, <2>2, <3>4, <4>1 DEF OneAnswer
    <3>5. Answers(file, n) = {i}
      BY <3>3, <3>4
    <3>6. QED
      BY <3>5, FS_Singleton
  <2>3. QED
    BY <2>2 DEF OneAnswerPerName
<1>2. QED
  BY <1>1, SharedInductive, PTL

\* A step on the router is a good one (for the two theorems below).
LEMMA SharedStep ==
  ASSUME SharedInv, [Next]_vars
  PROVE  /\ file.domain # NoDomain => file'.domain # NoDomain
         /\ ToSet(binds') \ ToSet(binds) # {} => file.domain # NoDomain
<1>1. CASE UNCHANGED vars
  BY <1>1 DEF vars
<1>2. ASSUME NEW p \in Procs, Step(p)
      PROVE  /\ file.domain # NoDomain => file'.domain # NoDomain
             /\ ToSet(binds') \ ToSet(binds) # {} => file.domain # NoDomain
  <2>1. CASE UNCHANGED <<binds, file>>
    BY <2>1
  <2>2. CASE ReadyToWrite(p) /\ Written(Current(p), hosts[p])
    <3>1. /\ file.domain # NoDomain => file'.domain # NoDomain
          /\ ToSet(binds') \ ToSet(binds) # {} => Current(p).op \in {"create", "update"}
      BY <2>2, WrittenGood
    <3>2. Current(p).op \in {"create", "update"} => file.domain # NoDomain
      BY <2>2 DEF ReadyToWrite, Busy, SharedInv, InOrder
    <3>3. QED
      BY <3>1, <3>2
  <2>3. QED
    BY <1>2, <2>1, <2>2, RouterStep
<1>3. QED
  BY <1>1, <1>2 DEF Next

\* A domain that has been set is never lost: no file is put that was read, or planned,
\* without one.
THEOREM DomainSurvivesSafe == Spec => DomainSurvives
<1> DEFINE A == file.domain # NoDomain => file'.domain # NoDomain
<1>1. SharedInv /\ [Next]_vars => [A]_vars
  BY SharedStep
<1>2. QED
  BY <1>1, SharedInductive, PTL DEF Spec, DomainSurvives

\* No bind is written before the router has a domain, although each command only looks at
\* the domain some steps before it writes.
THEOREM DomainFirstSafe == Spec => DomainFirst
<1> DEFINE A == ToSet(binds') \ ToSet(binds) # {} => file.domain # NoDomain
<1>1. SharedInv /\ [Next]_vars => [A]_vars
  BY SharedStep
<1>2. QED
  BY <1>1, SharedInductive, PTL DEF Spec, DomainFirst

-----------------------------------------------------------------------------
(* Names: what the loops over reservations do to the answers.              *)

\* The names that are or were reserved, or set by hand.
KnownWords == KnownNames \cup {c.name : c \in {d \in Commands : d.kind = "setName"}}

\* Each host is named in one way only (no two names begin with the same label), and once in
\* a file; findDuplicates takes two spellings of a name for two names.
OneSpelling ==
  /\ Spelled(KnownWords)
  /\ \A c \in Commands : c.kind = "import" =>
       \A i, j \in DOMAIN c.file : c.file[i].name = c.file[j].name => i = j

SetsOthers(t, f, n) == t \in FileSet /\ t.domain = f.domain /\ Lookup(t, n) = Lookup(f, n)

\* Setting names one after the other changes no answer of a name that is none of them.
LEMMA SetNamesSpares ==
  ASSUME NEW f \in FileSet, NEW rs \in Seq(BindSet), NEW n \in NameSet,
         \A i \in 1 .. Len(rs) : BothForms(f, n) \cap Spellings(f, rs[i].name) = {}
  PROVE  Lookup(SetNames(f, rs), n) = Lookup(f, n)
<1>1. PICK named : NamePrefixes(named, f, rs)
  BY SetNamesRecursion
<1> DEFINE N == Len(rs)
           P == {k \in 0 .. N : SetsOthers(named[k], f, n)}
<1>2. N \in Nat /\ P \in SUBSET (0 .. N)
  OBVIOUS
<1>3. 0 \in P
  BY <1>1 DEF NamePrefixes, SetsOthers
<1>4. ASSUME NEW k \in P, k # N PROVE k + 1 \in P
  <2>1. k + 1 \in 1 .. N /\ (k + 1) - 1 = k
    BY <1>2, <1>4
  <2> DEFINE x == named[k]
             b == rs[k+1]
  <2>2. named[k+1] = SetName(x, b.name, b.ip)
    BY <1>1, <2>1 DEF NamePrefixes
  <2>3. /\ b.name \in NameSet /\ b.ip \in Nat \ {NoAddress}
        /\ BothForms(f, n) \cap Spellings(f, b.name) = {}
    BY <2>1, BindOf
  <2>4. SetsOthers(x, f, n)
    BY <1>4
  <2> HIDE DEF x, b
  <2>5. x \in FileSet /\ x.domain = f.domain
    BY <2>4 DEF SetsOthers
  <2>6. BothForms(x, n) \cap Spellings(x, b.name) = {}
    BY <2>3, <2>5, SameForms
  <2>7. SetsOthers(SetName(x, b.name, b.ip), f, n)
    BY <2>3, <2>4, <2>5, <2>6, SetKeepsType, SetKeepsOthers DEF SetsOthers
  <2>8. QED
    BY <2>1, <2>2, <2>7
<1>5. N \in P
  <2> HIDE DEF P, N
  <2>1. QED
    BY <1>2, <1>3, <1>4, Induction
<1>6. QED
  BY <1>1, <1>5 DEF NamePrefixes, SetsOthers

\* Dropping names one after the other changes no answer of a name that is none of them.
LEMMA DropNamesSpares ==
  ASSUME NEW f \in FileSet, NEW rs \in Seq(BindSet), NEW n \in NameSet,
         \A i \in 1 .. Len(rs) : BothForms(f, n) \cap BothForms(f, rs[i].name) = {}
  PROVE  Lookup(DropNames(f, rs), n) = Lookup(f, n)
<1>1. PICK left : DropPrefixes(left, f, rs)
  BY DropNamesRecursion
<1> DEFINE N == Len(rs)
           P == {k \in 0 .. N : SetsOthers(left[k], f, n)}
<1>2. N \in Nat /\ P \in SUBSET (0 .. N)
  OBVIOUS
<1>3. 0 \in P
  BY <1>1 DEF DropPrefixes, SetsOthers
<1>4. ASSUME NEW k \in P, k # N PROVE k + 1 \in P
  <2>1. k + 1 \in 1 .. N /\ (k + 1) - 1 = k
    BY <1>2, <1>4
  <2> DEFINE x == left[k]
             b == rs[k+1]
  <2>2. left[k+1] = RemoveName(x, b.name)
    BY <1>1, <2>1 DEF DropPrefixes
  <2>3. b.name \in NameSet /\ BothForms(f, n) \cap BothForms(f, b.name) = {}
    BY <2>1, BindOf
  <2>4. SetsOthers(x, f, n)
    BY <1>4
  <2> HIDE DEF x, b
  <2>5. x \in FileSet /\ x.domain = f.domain
    BY <2>4 DEF SetsOthers
  <2>6. BothForms(x, n) \cap BothForms(x, b.name) = {}
    BY <2>3, <2>5, SameForms
  <2>7. SetsOthers(RemoveName(x, b.name), f, n)
    BY <2>3, <2>4, <2>5, <2>6, RemoveThins, RemoveKeepsOthers DEF SetsOthers
  <2>8. QED
    BY <2>1, <2>2, <2>7
<1>5. N \in P
  <2> HIDE DEF P, N
  <2>1. QED
    BY <1>2, <1>3, <1>4, Induction
<1>6. QED
  BY <1>1, <1>5 DEF DropPrefixes, SetsOthers

EachHostOnce(rs) == \A i, j \in DOMAIN rs : FirstLabel(rs[i].name) = FirstLabel(rs[j].name) => i = j

SetsUpTo(t, f, rs, k) ==
  /\ t \in FileSet /\ t.domain = f.domain
  /\ \A i \in 1 .. k : Matched(f, rs[i].name) => Lookup(t, rs[i].name) = rs[i].ip

\* After names of different hosts have been set one after the other, all those answer that
\* Lookup can find.
LEMMA SetNamesAnswers ==
  ASSUME NEW f \in FileSet, NEW rs \in Seq(BindSet), EachHostOnce(rs)
  PROVE  \A i \in 1 .. Len(rs) : Matched(f, rs[i].name) =>
           Lookup(SetNames(f, rs), rs[i].name) = rs[i].ip
<1>1. PICK named : NamePrefixes(named, f, rs)
  BY SetNamesRecursion
<1> DEFINE N == Len(rs)
           P == {k \in 0 .. N : SetsUpTo(named[k], f, rs, k)}
<1>2. N \in Nat /\ P \in SUBSET (0 .. N)
  OBVIOUS
<1>3. DOMAIN rs = 1 .. N
  OBVIOUS
<1>4. 0 \in P
  BY <1>1 DEF NamePrefixes, SetsUpTo
<1>5. ASSUME NEW k \in P, k # N PROVE k + 1 \in P
  <2>1. k + 1 \in 1 .. N /\ (k + 1) - 1 = k
    BY <1>2, <1>5
  <2> DEFINE x == named[k]
             b == rs[k+1]
             y == SetName(x, b.name, b.ip)
  <2>2. named[k+1] = y
    BY <1>1, <2>1 DEF NamePrefixes
  <2>3. b.name \in NameSet /\ b.ip \in Nat \ {NoAddress}
    BY <2>1, BindOf
  <2>4. SetsUpTo(x, f, rs, k)
    BY <1>5
  <2>5. \A i \in 1 .. k : FirstLabel(rs[i].name) # FirstLabel(b.name)
    <3>1. \A i \in 1 .. k : i \in 1 .. N /\ i # k + 1
      BY <1>2, <1>5
    <3>2. QED
      BY <1>3, <2>1, <3>1 DEF EachHostOnce
  <2> HIDE DEF x, b
  <2>6. /\ y \in FileSet /\ y.domain = f.domain
        /\ Matched(f, b.name) => Lookup(y, b.name) = b.ip
    BY <2>3, <2>4, SetKeepsType, SetAnswers, SameForms DEF SetsUpTo
  <2>7. ASSUME NEW i \in 1 .. k + 1, Matched(f, rs[i].name) PROVE Lookup(y, rs[i].name) = rs[i].ip
    <3>1. CASE i = k + 1
      BY <2>6, <2>7, <3>1 DEF b
    <3>2. CASE i # k + 1
      <4>1. i \in 1 .. k /\ i \in 1 .. N
        BY <1>2, <1>5, <3>2
      <4>3. rs[i].name \in NameSet
        BY <4>1, BindOf
      <4>2. BothForms(x, rs[i].name) \cap Spellings(x, b.name) = {}
        BY <2>3, <2>4, <2>5, <4>1, <4>3, LabelsApart DEF SetsUpTo
      <4>4. Lookup(y, rs[i].name) = Lookup(x, rs[i].name)
        BY <2>3, <2>4, <4>2, <4>3, SetKeepsOthers DEF SetsUpTo
      <4>5. QED
        BY <2>4, <2>7, <4>1, <4>4 DEF SetsUpTo
    <3>3. QED
      BY <3>1, <3>2
  <2> HIDE DEF y
  <2>8. SetsUpTo(y, f, rs, k + 1)
    BY <2>6, <2>7 DEF SetsUpTo
  <2>9. QED
    BY <2>1, <2>2, <2>8
<1>6. N \in P
  <2> HIDE DEF P, N
  <2>1. QED
    BY <1>2, <1>4, <1>5, Induction
<1>7. QED
  BY <1>1, <1>6 DEF NamePrefixes, SetsUpTo

\* Leaving out reservations leaves no host named twice.
LEMMA KeptHosts ==
  ASSUME NEW T, NEW s \in Seq(T), NEW S, EachHostOnce(s)
  PROVE  EachHostOnce(Kept(s, S))
<1> DEFINE k == Kept(s, S)
<1>1. PICK g : Picks(g, s, S, k, Len(s))
  BY KeptPicks
<1>2. k \in Seq(T)
  BY KeptPicks
<1> HIDE DEF k
<1>3. ASSUME NEW i \in DOMAIN k, NEW j \in DOMAIN k, FirstLabel(k[i].name) = FirstLabel(k[j].name) PROVE i = j
  <2>1. i \in 1 .. Len(k) /\ j \in 1 .. Len(k) /\ Len(k) \in Nat
    BY <1>2
  <2>2. g[i] \in DOMAIN s /\ g[j] \in DOMAIN s /\ k[i] = s[g[i]] /\ k[j] = s[g[j]]
    BY <1>1, <2>1 DEF Picks
  <2>3. g[i] = g[j]
    BY <1>3, <2>2 DEF EachHostOnce
  <2>4. i < j \/ j < i \/ i = j
    BY <2>1
  <2>5. g[i] \in Int /\ g[j] \in Int
    BY <2>2
  <2>6. QED
    BY <1>1, <2>1, <2>3, <2>4, <2>5 DEF Picks
<1>4. QED
  BY <1>3 DEF EachHostOnce, k

\* What a host file declares: hosts that the commands know, each of them once.
LEMMA ImportFileOf ==
  ASSUME NEW c \in Commands, c.kind = "import"
  PROVE  /\ c.file \in Seq(BindSet) /\ ToSet(c.file) \subseteq Reservations /\ Unique(c.file)
         /\ OneSpelling => EachHostOnce(c.file)
<1>1. c.file \in Seq(BindSet) /\ Unique(c.file)
  BY CommandsAssumption DEF Unique
<1>2. ToSet(c.file) \subseteq Reservations
  BY DEF Reservations
<1>3. ASSUME OneSpelling, NEW i \in DOMAIN c.file, NEW j \in DOMAIN c.file,
             FirstLabel(c.file[i].name) = FirstLabel(c.file[j].name)
      PROVE  i = j
  <2>1. c.file[i] \in ToSet(c.file) /\ c.file[j] \in ToSet(c.file)
    BY DEF ToSet
  <2>2. c.file[i].name \in KnownWords /\ c.file[j].name \in KnownWords
    BY <1>2, <2>1 DEF KnownWords, KnownNames
  <2>3. c.file[i].name = c.file[j].name
    BY <1>3, <2>2 DEF OneSpelling, Spelled
  <2>4. QED
    BY <1>3, <2>3 DEF OneSpelling
<1>4. QED
  BY <1>1, <1>2, <1>3 DEF EachHostOnce

\* The elements of a sequence by their places.
LEMMA PlaceOf ==
  ASSUME NEW T, NEW s \in Seq(T)
  PROVE  /\ \A i \in 1 .. Len(s) : s[i] \in ToSet(s)
         /\ \A r \in ToSet(s) : \E i \in 1 .. Len(s) : r = s[i]
<1>1. DOMAIN s = 1 .. Len(s)
  OBVIOUS
<1>2. QED
  BY <1>1 DEF ToSet

\* The import drops the name of a pruned bind that the file declares for another MAC.
Reuses(c, have) ==
  /\ c.prune
  /\ \E r \in ToSet(ToPrune(c.file, have)), d \in ToSet(c.file) : r.name = d.name

\* The file an import writes answers for every host it declares whose name Lookup can find,
\* unless it drops the name of a pruned bind that is declared for another MAC; when it writes
\* no names, they answer already.
LEMMA ImportedNamesAnswer ==
  ASSUME OneSpelling, NEW c \in Commands, c.kind = "import", NEW have \in Seq(Reservations),
         NEW f \in FileSet, ~Reuses(c, have), NEW r \in ToSet(c.file), Matched(f, r.name)
  PROVE  /\ Lookup(ImportedNames(c, have, f), r.name) = r.ip
         /\ ~NamesChange(c, have, f) => Lookup(f, r.name) = r.ip
<1> DEFINE want == NamesToSet(c.file, f)
           S == {x \in ToSet(c.file) : Lookup(f, x.name) # x.ip}
           named == SetNames(f, want)
           pruned == ToPrune(c.file, have)
           gone == NamesToDrop(pruned, f)
<1>1. /\ c.file \in Seq(BindSet) /\ ToSet(c.file) \subseteq Reservations /\ EachHostOnce(c.file)
      /\ have \in Seq(BindSet) /\ ToSet(have) \subseteq Reservations /\ Reservations \subseteq BindSet
  BY ImportFileOf, ReservationsOf
<1>2. want \in Seq(BindSet) /\ ToSet(want) = ToSet(c.file) \cap S /\ EachHostOnce(want)
  BY <1>1, KeptPicks, KeptElements, KeptHosts DEF NamesToSet
<1>3. pruned \in Seq(BindSet) /\ ToSet(pruned) \subseteq ToSet(have)
  BY <1>1, KeptPicks, KeptElements DEF ToPrune
<1>4. gone \in Seq(BindSet) /\ ToSet(gone) \subseteq ToSet(pruned)
  BY <1>3, KeptPicks, KeptElements DEF NamesToDrop
<1>5. ImportedNames(c, have, f) = IF c.prune THEN DropNames(named, gone) ELSE named
  BY DEF ImportedNames
<1>6. ~NamesChange(c, have, f) => want = <<>>
  BY DEF NamesChange
<1>7. c.prune => \A x \in ToSet(pruned) : x.name # r.name
  BY DEF Reuses
<1> HIDE DEF want, pruned, gone
<1>8. r \in BindSet /\ r.name \in NameSet /\ r.name \in KnownWords
  <2>1. r \in Reservations /\ r \in BindSet
    BY <1>1
  <2>2. r.name \in NameSet
    BY <2>1 DEF BindSet
  <2>3. QED
    BY <2>1, <2>2 DEF KnownWords, KnownNames
<1>9. Lookup(named, r.name) = r.ip
  <2>1. CASE r \in S
    <3>1. r \in ToSet(want)
      BY <1>2, <2>1
    <3>2. PICK i \in 1 .. Len(want) : r = want[i]
      BY <1>2, <3>1, PlaceOf
    <3>3. Matched(f, want[i].name)
      BY <3>2
    <3>4. QED
      BY <1>2, <3>2, <3>3, SetNamesAnswers
  <2>2. CASE r \notin S
    <3>1. Lookup(f, r.name) = r.ip
      BY <2>2
    <3>2. ASSUME NEW i \in 1 .. Len(want)
          PROVE  BothForms(f, r.name) \cap Spellings(f, want[i].name) = {}
      <4>1. want[i] \in ToSet(want)
        BY <1>2, PlaceOf
      <4>2. want[i] \in ToSet(c.file) /\ want[i] # r
        BY <1>2, <2>2, <4>1
      <4>3. FirstLabel(want[i].name) # FirstLabel(r.name)
        BY <4>2, <1>1 DEF EachHostOnce, ToSet
      <4>4. want[i].name \in NameSet
        BY <1>2, BindOf
      <4>5. QED
        BY <1>8, <4>3, <4>4, LabelsApart
    <3>3. QED
      BY <1>2, <1>8, <3>1, <3>2, SetNamesSpares
  <2>3. QED
    BY <2>1, <2>2
<1>10. named \in FileSet
  BY <1>2, SetNamesOf DEF SetNamesKept
<1> HIDE DEF named
<1>11. ASSUME c.prune PROVE Lookup(DropNames(named, gone), r.name) = r.ip
  <2>1. ASSUME NEW i \in 1 .. Len(gone)
        PROVE  BothForms(named, r.name) \cap BothForms(named, gone[i].name) = {}
    <3>1. gone[i] \in ToSet(pruned)
      BY <1>4, PlaceOf
    <3>2. gone[i].name # r.name /\ gone[i].name \in KnownWords
      BY <1>1, <1>3, <1>7, <1>11, <3>1 DEF KnownWords, KnownNames
    <3>3. FirstLabel(gone[i].name) # FirstLabel(r.name)
      BY <1>8, <3>2 DEF OneSpelling, Spelled
    <3>4. gone[i].name \in NameSet
      BY <1>4, BindOf
    <3>5. QED
      BY <1>8, <1>10, <3>3, <3>4, LabelsApart
  <2>2. QED
    BY <1>4, <1>8, <1>9, <1>10, <2>1, DropNamesSpares
<1>12. ASSUME ~NamesChange(c, have, f) PROVE Lookup(f, r.name) = r.ip
  <2>1. ToSet(want) = {}
    BY <1>2, <1>6, <1>12, NoElements
  <2>2. QED
    BY <1>2, <2>1
<1>13. QED
  BY <1>5, <1>9, <1>11, <1>12

-----------------------------------------------------------------------------
(* One process: what a command finds is what it left.                      *)

OneProcess == \A p, q \in Procs : p = q

\* A bind with a MAC among the elements of a sequence.
LEMMA HasMACOf ==
  ASSUME NEW T, NEW bs \in Seq(T), NEW mac
  PROVE  HasMAC(bs, mac) <=> \E b \in ToSet(bs) : b.mac = mac
  BY DEF HasMAC, ToSet

\* The only bind of a MAC is also the last one.
LEMMA UniqueLast ==
  ASSUME NEW T, NEW bs \in Seq(T), Unique(bs), NEW r \in ToSet(bs)
  PROVE  HasMAC(bs, r.mac) /\ LastWithMAC(bs, r.mac) = r
<1>1. HasMAC(bs, r.mac)
  BY HasMACOf
<1>2. LastWithMAC(bs, r.mac) \in ToSet(bs) /\ LastWithMAC(bs, r.mac).mac = r.mac
  BY <1>1, WithMACOf
<1>3. \A a, b \in ToSet(bs) : a.mac = b.mac => a = b
  BY DEF Unique, ToSet
<1>4. QED
  BY <1>1, <1>2, <1>3

\* The binds after an operation on bs.
AfterWrite(o, bs, new) ==
  new = CASE o.op = "create" -> Append(bs, o.res)
          [] o.op = "update" -> IF HasMAC(bs, o.res.mac)
                                THEN ReplaceAt(bs, FirstWithMAC(bs, o.res.mac), o.res)
                                ELSE bs
          [] o.op = "delete" -> Kept(bs, {b \in ToSet(bs) : b.mac # o.res.mac})
          [] o.op = "deleteAll" -> <<>>
          [] OTHER -> bs

\* When the MAC of a create is free, and that of an update or a delete is not, the
\* operation leaves one bind per MAC.
Granted(o, bs) ==
  /\ o.op = "create" => ~HasMAC(bs, o.res.mac)
  /\ o.op \in {"update", "delete"} => HasMAC(bs, o.res.mac)

\* What an operation does to the binds that are there.
LEMMA WriteOf ==
  ASSUME NEW bs \in Seq(Reservations), Unique(bs), NEW o \in OpSet, Granted(o, bs),
         NEW new, AfterWrite(o, bs, new)
  PROVE  /\ Unique(new)
         /\ o.op \in {"create", "update"} =>
              /\ o.res \in ToSet(new) /\ ToSet(new) \subseteq ToSet(bs) \cup {o.res}
              /\ \A b \in ToSet(bs) : b \in ToSet(new) \/ b.mac = o.res.mac
         /\ o.op = "delete" => /\ ToSet(new) \subseteq ToSet(bs)
                               /\ ~HasMAC(new, o.res.mac)
                               /\ \A b \in ToSet(bs) : b \in ToSet(new) \/ b.mac = o.res.mac
         /\ o.op = "deleteAll" => new = <<>>
         /\ o.op \in {"put", "clearNames"} => new = bs
<1>1. Len(bs) \in Nat /\ DOMAIN bs = 1 .. Len(bs)
  OBVIOUS
<1>2. CASE o.op = "create"
  <2> DEFINE r == o.res
  <2>1. r \in Reservations
    BY <1>2, OpOf
  <2>2. new = Append(bs, r) /\ ~HasMAC(bs, r.mac)
    BY <1>2 DEF AfterWrite, Granted
  <2> HIDE DEF r
  <2>3. /\ DOMAIN new = 1 .. Len(bs) + 1 /\ new[Len(bs) + 1] = r
        /\ \A i \in 1 .. Len(bs) : new[i] = bs[i]
    BY <1>1, <2>1, <2>2
  <2>4. \A i \in 1 .. Len(bs) : bs[i].mac # r.mac
    BY <1>1, <2>2 DEF HasMAC
  <2>5. \A i \in DOMAIN new : i \in 1 .. Len(bs) \/ i = Len(bs) + 1
    BY <1>1, <2>3
  <2>6. Unique(new)
    BY <1>1, <2>3, <2>4, <2>5 DEF Unique
  <2>7. r \in ToSet(new) /\ ToSet(new) \subseteq ToSet(bs) \cup {r} /\ ToSet(bs) \subseteq ToSet(new)
    <3>1. ToSet(new) = {new[i] : i \in 1 .. Len(bs) + 1} /\ ToSet(bs) = {bs[i] : i \in 1 .. Len(bs)}
      BY <1>1, <2>3 DEF ToSet
    <3>2. Len(bs) + 1 \in 1 .. Len(bs) + 1 /\ \A i \in 1 .. Len(bs) : i \in 1 .. Len(bs) + 1
      BY <1>1
    <3>3. QED
      BY <2>3, <2>5, <3>1, <3>2
  <2>8. QED
    BY <1>2, <2>6, <2>7 DEF r
<1>3. CASE o.op = "update"
  <2> DEFINE r == o.res
             n == FirstWithMAC(bs, r.mac)
  <2>1. r \in Reservations
    BY <1>3, OpOf
  <2>2. new = ReplaceAt(bs, n, r) /\ HasMAC(bs, r.mac)
    BY <1>3 DEF AfterWrite, Granted
  <2> HIDE DEF r
  <2>3. n \in DOMAIN bs /\ bs[n].mac = r.mac
    BY <2>2, WithMACOf
  <2> HIDE DEF n
  <2>4. DOMAIN new = DOMAIN bs /\ new[n] = r /\ \A i \in DOMAIN bs : i # n => new[i] = bs[i]
    BY <1>1, <2>1, <2>2, <2>3 DEF ReplaceAt
  <2>5. \A i \in DOMAIN bs : new[i].mac = bs[i].mac
    BY <2>3, <2>4
  <2>6. Unique(new)
    BY <2>4, <2>5 DEF Unique
  <2>7. /\ r \in ToSet(new) /\ ToSet(new) \subseteq ToSet(bs) \cup {r}
        /\ \A b \in ToSet(bs) : b \in ToSet(new) \/ b.mac = r.mac
    BY <2>3, <2>4 DEF ToSet
  <2>8. QED
    BY <1>3, <2>6, <2>7 DEF r
<1>4. CASE o.op = "delete"
  <2> DEFINE S == {b \in ToSet(bs) : b.mac # o.res.mac}
  <2>1. new = Kept(bs, S)
    BY <1>4 DEF AfterWrite
  <2> HIDE DEF S
  <2>2. Unique(new) /\ new \in Seq(Reservations) /\ ToSet(new) = ToSet(bs) \cap S
    BY <2>1, KeptUnique, KeptPicks, KeptElements
  <2>3. ~HasMAC(new, o.res.mac)
    BY <2>2, HasMACOf DEF S
  <2>4. \A b \in ToSet(bs) : b \in ToSet(new) \/ b.mac = o.res.mac
    BY <2>2 DEF S
  <2>5. QED
    BY <1>4, <2>2, <2>3, <2>4
<1>5. CASE o.op = "deleteAll"
  BY <1>5 DEF AfterWrite, Unique
<1>6. CASE o.op \in {"put", "clearNames"}
  BY <1>6 DEF AfterWrite
<1>7. QED
  BY <1>2, <1>3, <1>4, <1>5, <1>6, OpOf

\* A reservation whose name Lookup can find answers with its address.
Finds(f, r) == Matched(f, r.name) => Lookup(f, r.name) = r.ip

\* What a command has left to do (t), with the file it will write (h) and the tables as it
\* has made them so far (f and bs); e counts its failures.
AddLeft(r, t, h, f, bs) ==
  /\ \/ \E kind \in {"create", "update"} : t = <<[op |-> kind, res |-> r], PutOp>>
     \/ t \in {<<PutOp>>, <<>>} /\ r \in ToSet(bs)
  /\ t # <<>> => Finds(h, r)
  /\ t = <<>> => Finds(f, r)

PutFirst(t) == t # <<>> /\ Head(t).op = "put"
Deletes(o, r) == o.op = "delete" /\ o.res = r

RmLeft(rs, t, h, f, bs, have, e) ==
  /\ ToSet(bs) \subseteq ToSet(have) /\ Unique(have) /\ rs \subseteq ToSet(have)
  /\ \A i \in DOMAIN t : (i = 1 /\ t[i].op = "put") \/ \E r \in rs : Deletes(t[i], r)
  /\ PutFirst(t) => \A r \in rs : Silent(h, r.name)
  /\ ~PutFirst(t) => \A r \in rs : Silent(f, r.name)
  /\ e = 0 => \A r \in rs : HasMAC(bs, r.mac) => \E i \in DOMAIN t : Deletes(t[i], r)

ClearSteps == <<[op |-> "clearNames"], [op |-> "deleteAll"]>>

ClearLeft(t, f, bs) ==
  /\ t \in {ClearSteps, Tail(ClearSteps), <<>>}
  /\ t # ClearSteps => f.entries = <<>>
  /\ t = <<>> => bs = <<>>

DomainLeft(d, t, h, f) ==
  /\ t \in {<<PutOp>>, <<>>}
  /\ IF t = <<>> THEN f.domain = d ELSE h.domain = d

Writes(o, r) == o.op \in {"create", "update"} /\ o.res = r
Puts(t) == \E o \in ToSet(t) : o.op = "put"

ImportLeft(c, t, h, f, bs, have, e) ==
  /\ \A i \in DOMAIN t : t[i].op = "put" => i = Len(t)
  /\ \A o \in ToSet(t) :
       \/ o.op = "put"
       \/ \E r \in ToSet(c.file) : Writes(o, r)
       \/ \E r \in ToSet(have) : Deletes(o, r) /\ ~HasMAC(c.file, r.mac)
  /\ e = 0 => \A r \in ToSet(c.file) : r \in ToSet(bs) \/ \E o \in ToSet(t) : Writes(o, r)
  /\ e = 0 /\ c.prune => \A b \in ToSet(bs) :
       HasMAC(c.file, b.mac) \/ \E o \in ToSet(t) : o.op = "delete" /\ o.res.mac = b.mac
  /\ OneSpelling /\ ~Reuses(c, have) =>
       \A r \in ToSet(c.file) : Finds(IF Puts(t) THEN h ELSE f, r)

Left(c, t, h, f, bs, have, e) ==
  /\ c.kind = "import" => ImportLeft(c, t, h, f, bs, have, e)
  /\ c.kind = "add" => AddLeft(c.res, t, h, f, bs)
  /\ c.kind = "rm" => RmLeft(ToSet(Targets(c, have)), t, h, f, bs, have, e)
  /\ c.kind = "clear" => ClearLeft(t, f, bs)
  /\ c.kind = "setDomain" => DomainLeft(c.domain, t, h, f)

\* The operations of a loop are those for its reservations.
LEMMA OpsOf ==
  ASSUME NEW rs \in Seq(BindSet), NEW kind
  PROVE  /\ \A r \in ToSet(rs) : [op |-> kind, res |-> r] \in ToSet(Ops(kind, rs))
         /\ \A o \in ToSet(Ops(kind, rs)) : o.op = kind /\ o.res \in ToSet(rs)
<1>1. DOMAIN Ops(kind, rs) = DOMAIN rs /\ \A i \in DOMAIN rs : Ops(kind, rs)[i] = [op |-> kind, res |-> rs[i]]
  BY DEF Ops
<1> DEFINE ops == Ops(kind, rs)
<1> HIDE DEF ops
<1>2. \A i \in DOMAIN rs : /\ ops[i] = [op |-> kind, res |-> rs[i]]
                           /\ ops[i].op = kind /\ ops[i].res = rs[i]
  <2> SUFFICES ASSUME NEW i \in DOMAIN rs
               PROVE  /\ ops[i] = [op |-> kind, res |-> rs[i]]
                      /\ ops[i].op = kind /\ ops[i].res = rs[i]
    OBVIOUS
  <2> DEFINE o == [op |-> kind, res |-> rs[i]]
  <2>1. o.op = kind /\ o.res = rs[i]
    OBVIOUS
  <2>2. ops[i] = o
    BY <1>1 DEF ops
  <2> HIDE DEF o
  <2>3. ops[i].op = kind /\ ops[i].res = rs[i]
    BY <2>1, <2>2
  <2>4. QED
    BY <2>2, <2>3 DEF o
<1>3. ToSet(ops) = {ops[i] : i \in DOMAIN rs} /\ ToSet(rs) = {rs[i] : i \in DOMAIN rs}
  BY <1>1 DEF ToSet, ops
<1>4. ASSUME NEW r \in ToSet(rs) PROVE [op |-> kind, res |-> r] \in ToSet(ops)
  <2>1. PICK i \in DOMAIN rs : r = rs[i]
    BY <1>3
  <2>2. ops[i] = [op |-> kind, res |-> r] /\ ops[i] \in ToSet(ops)
    BY <1>2, <1>3, <2>1
  <2>3. QED
    BY <2>2
<1>5. ASSUME NEW o \in ToSet(ops) PROVE o.op = kind /\ o.res \in ToSet(rs)
  <2>1. PICK i \in DOMAIN rs : o = ops[i]
    BY <1>3
  <2>2. o.op = kind /\ o.res = rs[i] /\ rs[i] \in ToSet(rs)
    BY <1>2, <1>3, <2>1
  <2>3. QED
    BY <2>2
<1>6. QED
  BY <1>4, <1>5 DEF ops

\* The elements of a concatenation, and where they are.
LEMMA ConcatOf ==
  ASSUME NEW T, NEW s \in Seq(T), NEW u \in Seq(T)
  PROVE  /\ s \o u \in Seq(T) /\ ToSet(s \o u) = ToSet(s) \cup ToSet(u)
         /\ \A i \in DOMAIN (s \o u) : i <= Len(s) => (s \o u)[i] \in ToSet(s)
         /\ Len(s \o u) = Len(s) + Len(u)
<1> DEFINE v == s \o u
<1>1. /\ v \in Seq(T) /\ Len(v) = Len(s) + Len(u) /\ Len(s) \in Nat /\ Len(u) \in Nat
      /\ DOMAIN v = 1 .. Len(s) + Len(u) /\ DOMAIN s = 1 .. Len(s) /\ DOMAIN u = 1 .. Len(u)
      /\ \A i \in 1 .. Len(s) : v[i] = s[i]
      /\ \A i \in 1 .. Len(u) : v[i + Len(s)] = u[i]
  OBVIOUS
<1> HIDE DEF v
<1>2. /\ \A i \in 1 .. Len(s) : i \in DOMAIN v
      /\ \A i \in 1 .. Len(u) : i + Len(s) \in DOMAIN v
      /\ \A i \in DOMAIN v : \/ i \in 1 .. Len(s)
                             \/ i - Len(s) \in 1 .. Len(u) /\ (i - Len(s)) + Len(s) = i
  BY <1>1
<1>3. ToSet(s) \cup ToSet(u) \subseteq ToSet(v)
  <2>1. ASSUME NEW i \in DOMAIN s PROVE s[i] \in ToSet(v)
    <3>1. s[i] = v[i] /\ i \in DOMAIN v
      BY <1>1, <1>2
    <3>2. QED
      BY <3>1 DEF ToSet
  <2>2. ASSUME NEW i \in DOMAIN u PROVE u[i] \in ToSet(v)
    <3>1. u[i] = v[i + Len(s)] /\ i + Len(s) \in DOMAIN v
      BY <1>1, <1>2
    <3>2. QED
      BY <3>1 DEF ToSet
  <2>3. QED
    BY <2>1, <2>2 DEF ToSet
<1>4. ASSUME NEW i \in DOMAIN v PROVE v[i] \in ToSet(s) \cup ToSet(u)
  <2>1. CASE i \in 1 .. Len(s)
    BY <1>1, <2>1 DEF ToSet
  <2>2. CASE i - Len(s) \in 1 .. Len(u) /\ (i - Len(s)) + Len(s) = i
    <3>1. v[i] = u[i - Len(s)]
      BY <1>1, <2>2
    <3>2. QED
      BY <1>1, <2>2, <3>1 DEF ToSet
  <2>3. QED
    BY <1>2, <2>1, <2>2
<1>5. ToSet(v) \subseteq ToSet(s) \cup ToSet(u)
  BY <1>4 DEF ToSet
<1>6. \A i \in DOMAIN v : i <= Len(s) => v[i] \in ToSet(s)
  BY <1>1 DEF ToSet
<1>7. QED
  BY <1>1, <1>3, <1>5, <1>6 DEF v

\* The first element and the others.
LEMMA TailOf ==
  ASSUME NEW T, NEW s \in Seq(T), s # <<>>
  PROVE  /\ Tail(s) \in Seq(T) /\ Len(Tail(s)) = Len(s) - 1 /\ Len(s) \in Nat
         /\ \A i \in DOMAIN Tail(s) : i + 1 \in DOMAIN s /\ Tail(s)[i] = s[i+1]
         /\ ToSet(s) = {Head(s)} \cup ToSet(Tail(s))
         /\ 1 \in DOMAIN s /\ Head(s) = s[1]
<1> DEFINE u == Tail(s)
<1>1. /\ u \in Seq(T) /\ Len(u) = Len(s) - 1 /\ Len(s) \in Nat /\ Len(s) # 0
      /\ DOMAIN u = 1 .. Len(s) - 1 /\ DOMAIN s = 1 .. Len(s)
      /\ \A i \in 1 .. Len(s) - 1 : u[i] = s[i+1]
      /\ Head(s) = s[1]
  OBVIOUS
<1> HIDE DEF u
<1>2. /\ \A i \in 1 .. Len(s) - 1 : i + 1 \in DOMAIN s
      /\ \A i \in DOMAIN s : i = 1 \/ (i - 1 \in DOMAIN u /\ (i - 1) + 1 = i)
      /\ 1 \in DOMAIN s
  BY <1>1
<1>3. ToSet(s) = {Head(s)} \cup ToSet(u)
  <2>1. ASSUME NEW i \in DOMAIN s PROVE s[i] \in {Head(s)} \cup ToSet(u)
    <3>1. CASE i = 1
      BY <1>1, <3>1
    <3>2. CASE i - 1 \in DOMAIN u /\ (i - 1) + 1 = i
      <4>1. s[i] = u[i-1]
        BY <1>1, <3>2
      <4>2. QED
        BY <3>2, <4>1 DEF ToSet
    <3>3. QED
      BY <1>2, <3>1, <3>2
  <2>2. \A i \in DOMAIN u : u[i] \in ToSet(s)
    BY <1>1, <1>2 DEF ToSet
  <2>3. Head(s) \in ToSet(s)
    BY <1>1, <1>2 DEF ToSet
  <2>4. QED
    BY <2>1, <2>2, <2>3 DEF ToSet
<1>4. QED
  BY <1>1, <1>2, <1>3 DEF u

\* The plan of an import has everything left to do.
LEMMA ImportPlanLeft ==
  ASSUME NEW c \in Commands, c.kind = "import", NEW have \in Seq(Reservations),
         NEW f \in FileSet, NEW e
  PROVE  ImportLeft(c, ImportOps(c, have, f), ImportedNames(c, have, f), f, have, have, e)
<1> DEFINE new == ToCreate(c.file, have)
           changed == ToUpdate(c.file, have)
           pruned == ToPrune(c.file, have)
           h == ImportedNames(c, have, f)
           t == ImportOps(c, have, f)
           S == Feasible(h)
           s1 == Ops("create", new)
           s2 == Ops("update", changed)
           s3 == IF c.prune THEN Ops("delete", pruned) ELSE <<>>
           names == NamesChange(c, have, f)
           s4 == PutIf(names)
           u == s1 \o s2 \o s3
<1>1. /\ c.file \in Seq(BindSet) /\ ToSet(c.file) \subseteq Reservations
      /\ have \in Seq(BindSet) /\ Reservations \subseteq BindSet
  BY ImportFileOf, ReservationsOf
<1>2. /\ new \in Seq(Reservations) /\ changed \in Seq(Reservations)
      /\ new \in Seq(BindSet) /\ changed \in Seq(BindSet)
      /\ ToSet(new) = {r \in ToSet(c.file) : ~HasMAC(have, r.mac)}
      /\ ToSet(changed) = {r \in ToSet(c.file) : HasMAC(have, r.mac) /\ LastWithMAC(have, r.mac) # r}
  <2>1. /\ new \in Seq(Reservations) /\ changed \in Seq(Reservations)
        /\ new \in Seq(BindSet) /\ changed \in Seq(BindSet)
    BY <1>1, KeptIn, KeptPicks DEF ToCreate, ToUpdate
  <2>2. /\ ToSet(new) = ToSet(c.file) \cap {r \in ToSet(c.file) : ~HasMAC(have, r.mac)}
        /\ ToSet(changed) = ToSet(c.file) \cap
             {r \in ToSet(c.file) : HasMAC(have, r.mac) /\ LastWithMAC(have, r.mac) # r}
    BY <1>1, KeptElements DEF ToCreate, ToUpdate
  <2> HIDE DEF new, changed
  <2>3. QED
    BY <2>1, <2>2
<1>3. pruned \in Seq(BindSet) /\ ToSet(pruned) = {r \in ToSet(have) : ~HasMAC(c.file, r.mac)}
  <2>1. pruned \in Seq(BindSet)
    BY <1>1, KeptPicks DEF ToPrune
  <2>2. ToSet(pruned) = ToSet(have) \cap {r \in ToSet(have) : ~HasMAC(c.file, r.mac)}
    BY <1>1, KeptElements DEF ToPrune
  <2> HIDE DEF pruned
  <2>3. QED
    BY <2>1, <2>2
<1>4. t = u \o s4
  BY DEF ImportOps
<1> HIDE DEF new, changed, pruned
<1>5. /\ \A r \in ToSet(new) : \E o \in ToSet(s1) : Writes(o, r)
      /\ \A o \in ToSet(s1) : o.op = "create" /\ o.res \in ToSet(new)
  <2>1. \A r \in ToSet(new) : Writes([op |-> "create", res |-> r], r)
    BY DEF Writes
  <2>2. QED
    BY <1>2, <2>1, OpsOf
<1>6. /\ \A r \in ToSet(changed) : \E o \in ToSet(s2) : Writes(o, r)
      /\ \A o \in ToSet(s2) : o.op = "update" /\ o.res \in ToSet(changed)
  <2>1. \A r \in ToSet(changed) : Writes([op |-> "update", res |-> r], r)
    BY DEF Writes
  <2>2. QED
    BY <1>2, <2>1, OpsOf
<1>7. /\ c.prune => \A r \in ToSet(pruned) : \E o \in ToSet(s3) : Deletes(o, r)
      /\ \A o \in ToSet(s3) : o.op = "delete" /\ o.res \in ToSet(pruned)
  <2>1. \A r \in ToSet(pruned) : Deletes([op |-> "delete", res |-> r], r)
    BY DEF Deletes
  <2>2. ToSet(<<>>) = {}
    BY DEF ToSet
  <2>3. QED
    BY <1>3, <2>1, <2>2, OpsOf
<1>8. s1 \in Seq(OpSet) /\ s2 \in Seq(OpSet) /\ s3 \in Seq(OpSet) /\ s4 \in Seq(OpSet)
  <2>1. /\ \A r \in Reservations : [op |-> "create", res |-> r] \in OpSet
        /\ \A r \in Reservations : [op |-> "update", res |-> r] \in OpSet
        /\ \A r \in BindSet : [op |-> "delete", res |-> r] \in OpSet
        /\ PutOp \in OpSet
    BY DEF OpSet, PutOp
  <2>2. s1 \in Seq(OpSet)
    BY <1>2, <2>1, OpsIn
  <2>3. s2 \in Seq(OpSet)
    BY <1>2, <2>1, OpsIn
  <2>4. Ops("delete", pruned) \in Seq(OpSet)
    BY <1>3, <2>1, OpsIn
  <2>5. s4 \in Seq(OpSet)
    BY <2>1, PutIfIn
  <2>6. QED
    BY <2>2, <2>3, <2>4, <2>5
<1>9. /\ names => s4 = <<PutOp>> /\ ToSet(s4) = {PutOp} /\ Len(s4) = 1
      /\ ~names => s4 = <<>> /\ ToSet(s4) = {} /\ Len(s4) = 0
  <2> HIDE DEF names
  <2>1. ToSet(<<PutOp>>) = {PutOp} /\ ToSet(<<>>) = {} /\ Len(<<PutOp>>) = 1 /\ Len(<<>>) = 0
    BY DEF ToSet
  <2>2. QED
    BY <2>1 DEF PutIf
<1> HIDE DEF s1, s2, s3, s4
<1>10. u \in Seq(OpSet) /\ ToSet(u) = ToSet(s1) \cup ToSet(s2) \cup ToSet(s3)
  <2>1. s1 \o s2 \in Seq(OpSet) /\ ToSet(s1 \o s2) = ToSet(s1) \cup ToSet(s2)
    BY <1>8, ConcatOf
  <2> DEFINE v == s1 \o s2
  <2>2. v \in Seq(OpSet) /\ ToSet(v) = ToSet(s1) \cup ToSet(s2) /\ u = v \o s3
    BY <2>1
  <2> HIDE DEF u, v
  <2>3. QED
    BY <1>8, <2>2, ConcatOf
<1> HIDE DEF u, t
<1>11. /\ t \in Seq(OpSet) /\ ToSet(t) = ToSet(u) \cup ToSet(s4) /\ Len(t) = Len(u) + Len(s4)
       /\ \A i \in DOMAIN t : i <= Len(u) => t[i] \in ToSet(u)
  BY <1>4, <1>8, <1>10, ConcatOf
<1>12. PutOp.op = "put"
  BY DEF PutOp
<1>13. \A o \in ToSet(u) : o.op # "put"
  BY <1>5, <1>6, <1>7, <1>10
<1>14. ASSUME NEW i \in DOMAIN t, t[i].op = "put" PROVE i = Len(t)
  <2>1. t[i] \notin ToSet(u)
    BY <1>13, <1>14
  <2>2. ~(i <= Len(u)) /\ i \in 1 .. Len(t) /\ Len(u) \in Nat /\ Len(t) \in Nat
    BY <1>10, <1>11, <2>1
  <2>3. Len(t) = Len(u) + 1 \/ Len(t) = Len(u) + 0
    BY <1>9, <1>11
  <2>4. QED
    BY <2>2, <2>3
<1>15. ASSUME NEW o \in ToSet(t)
       PROVE  \/ o.op = "put"
              \/ \E r \in ToSet(c.file) : Writes(o, r)
              \/ \E r \in ToSet(have) : Deletes(o, r) /\ ~HasMAC(c.file, r.mac)
  <2>1. CASE o \in ToSet(s1)
    BY <1>2, <1>5, <2>1 DEF Writes
  <2>2. CASE o \in ToSet(s2)
    BY <1>2, <1>6, <2>2 DEF Writes
  <2>3. CASE o \in ToSet(s3)
    BY <1>3, <1>7, <2>3 DEF Deletes
  <2>4. CASE o \in ToSet(s4)
    BY <1>9, <1>12, <2>4
  <2>5. QED
    BY <1>10, <1>11, <2>1, <2>2, <2>3, <2>4
<1>16. ASSUME NEW r \in ToSet(c.file) PROVE r \in ToSet(have) \/ \E o \in ToSet(t) : Writes(o, r)
  <2>1. CASE r \in ToSet(new)
    BY <1>5, <1>10, <1>11, <2>1
  <2>2. CASE r \in ToSet(changed)
    BY <1>6, <1>10, <1>11, <2>2
  <2>3. CASE r \notin ToSet(new) /\ r \notin ToSet(changed)
    <3>1. HasMAC(have, r.mac) /\ LastWithMAC(have, r.mac) = r
      BY <1>2, <2>3
    <3>2. QED
      BY <3>1, WithMACOf
  <2>4. QED
    BY <2>1, <2>2, <2>3
<1>17. ASSUME c.prune, NEW b \in ToSet(have)
       PROVE  HasMAC(c.file, b.mac) \/ \E o \in ToSet(t) : o.op = "delete" /\ o.res.mac = b.mac
  <2>1. CASE b \in ToSet(pruned)
    <3>1. PICK o \in ToSet(s3) : Deletes(o, b)
      BY <1>7, <1>17, <2>1
    <3>2. o.op = "delete" /\ o.res.mac = b.mac
      BY <3>1 DEF Deletes
    <3>3. QED
      BY <1>10, <1>11, <3>2
  <2>2. CASE b \notin ToSet(pruned)
    BY <1>3, <2>2
  <2>3. QED
    BY <2>1, <2>2
<1>18. Puts(t) <=> names
  BY <1>9, <1>11, <1>12, <1>13 DEF Puts
<1>19. ASSUME OneSpelling, ~Reuses(c, have), NEW r \in ToSet(c.file)
       PROVE  Finds(IF Puts(t) THEN h ELSE f, r)
  <2>1. h.domain = f.domain
    BY <1>1, ImportedNamesOf
  <2>2. Matched(h, r.name) <=> Matched(f, r.name)
    BY <2>1, SameForms
  <2>3. QED
    BY <1>18, <1>19, <2>1, <2>2, ImportedNamesAnswer DEF Finds
<1> HIDE DEF h, names
<1>20. ImportLeft(c, t, h, f, have, have, e)
  BY <1>14, <1>15, <1>16, <1>17, <1>19 DEF ImportLeft
<1>21. QED
  BY <1>20 DEF t, h

\* An operation of an import that is carried out leaves the rest of its plan to do.
LEMMA ImportLeftAfter ==
  ASSUME NEW c \in Commands, c.kind = "import", NEW have, NEW bs \in Seq(Reservations),
         NEW t \in Seq(OpSet), t # <<>>, NEW h, NEW f, NEW e,
         ImportLeft(c, t, h, f, bs, have, e),
         Unique(bs), Granted(Head(t), bs),
         NEW new, AfterWrite(Head(t), bs, new),
         NEW g, g = IF Head(t).op \in {"put", "clearNames"} THEN h ELSE f
  PROVE  ImportLeft(c, Tail(t), h, g, new, have, e)
<1> DEFINE o == Head(t)
           u == Tail(t)
<1>1. /\ u \in Seq(OpSet) /\ Len(u) = Len(t) - 1 /\ Len(t) \in Nat
      /\ \A i \in DOMAIN u : i + 1 \in DOMAIN t /\ u[i] = t[i+1]
      /\ ToSet(t) = {o} \cup ToSet(u)
      /\ 1 \in DOMAIN t /\ o = t[1] /\ o \in OpSet
  BY TailOf
<1>2. AfterWrite(o, bs, new) /\ Granted(o, bs) /\ g = IF o.op \in {"put", "clearNames"} THEN h ELSE f
  OBVIOUS
<1> HIDE DEF o, u
<1>3. /\ Unique(new)
      /\ o.op \in {"create", "update"} =>
           /\ o.res \in ToSet(new) /\ ToSet(new) \subseteq ToSet(bs) \cup {o.res}
           /\ \A b \in ToSet(bs) : b \in ToSet(new) \/ b.mac = o.res.mac
      /\ o.op = "delete" => /\ ToSet(new) \subseteq ToSet(bs)
                            /\ ~HasMAC(new, o.res.mac)
                            /\ \A b \in ToSet(bs) : b \in ToSet(new) \/ b.mac = o.res.mac
      /\ o.op \in {"put", "clearNames"} => new = bs
  BY <1>1, <1>2, WriteOf
<1>4. \/ o.op = "put"
      \/ \E r \in ToSet(c.file) : Writes(o, r)
      \/ \E r \in ToSet(have) : Deletes(o, r) /\ ~HasMAC(c.file, r.mac)
  BY <1>1 DEF ImportLeft
<1>5. c.file \in Seq(BindSet) /\ \A r, x \in ToSet(c.file) : r.mac = x.mac => r = x
  BY ImportFileOf DEF Unique, ToSet
<1>6. \A r \in ToSet(c.file) : HasMAC(c.file, r.mac)
  BY <1>5, HasMACOf
<1>7. \A i \in DOMAIN u : u[i].op = "put" => i = Len(u)
  <2> SUFFICES ASSUME NEW i \in DOMAIN u, u[i].op = "put" PROVE i = Len(u)
    OBVIOUS
  <2>1. i + 1 = Len(t)
    BY <1>1 DEF ImportLeft
  <2>2. i \in Nat
    BY <1>1
  <2>3. QED
    BY <1>1, <2>1, <2>2
<1>8. \A x \in ToSet(u) :
        \/ x.op = "put"
        \/ \E r \in ToSet(c.file) : Writes(x, r)
        \/ \E r \in ToSet(have) : Deletes(x, r) /\ ~HasMAC(c.file, r.mac)
  BY <1>1 DEF ImportLeft
<1>9. ASSUME e = 0, NEW r \in ToSet(c.file)
      PROVE  r \in ToSet(new) \/ \E x \in ToSet(u) : Writes(x, r)
  <2>1. CASE r \in ToSet(bs)
    <3>1. CASE o.op = "put"
      BY <1>3, <2>1, <3>1
    <3>2. CASE \E x \in ToSet(c.file) : Writes(o, x)
      <4>1. PICK x \in ToSet(c.file) : Writes(o, x)
        BY <3>2
      <4>2. r.mac = x.mac => r = x
        BY <1>5
      <4>3. QED
        BY <1>3, <2>1, <4>1, <4>2 DEF Writes
    <3>3. CASE \E x \in ToSet(have) : Deletes(o, x) /\ ~HasMAC(c.file, x.mac)
      BY <1>3, <1>6, <2>1, <3>3 DEF Deletes
    <3>4. QED
      BY <1>4, <3>1, <3>2, <3>3
  <2>2. CASE \E x \in ToSet(t) : Writes(x, r)
    <3>1. PICK x \in ToSet(t) : Writes(x, r)
      BY <2>2
    <3>2. CASE x = o
      BY <1>3, <3>1, <3>2 DEF Writes
    <3>3. CASE x # o
      BY <1>1, <3>1, <3>3
    <3>4. QED
      BY <3>2, <3>3
  <2>3. QED
    BY <1>9, <2>1, <2>2 DEF ImportLeft
<1>10. ASSUME e = 0, c.prune, NEW b \in ToSet(new)
       PROVE  HasMAC(c.file, b.mac) \/ \E x \in ToSet(u) : x.op = "delete" /\ x.res.mac = b.mac
  <2>1. CASE b \in ToSet(bs)
    <3>1. CASE HasMAC(c.file, b.mac)
      BY <3>1
    <3>2. CASE ~HasMAC(c.file, b.mac)
      <4>1. PICK x \in ToSet(t) : x.op = "delete" /\ x.res.mac = b.mac
        BY <1>10, <2>1, <3>2 DEF ImportLeft
      <4>2. CASE x = o
        <5>1. new = Kept(bs, {y \in ToSet(bs) : y.mac # o.res.mac})
          BY <1>2, <4>1, <4>2 DEF AfterWrite
        <5>2. new \in Seq(Reservations)
          BY <5>1, KeptPicks
        <5>3. HasMAC(new, o.res.mac)
          BY <4>1, <4>2, <5>2, HasMACOf
        <5>4. QED
          BY <1>3, <4>1, <4>2, <5>3
      <4>3. CASE x # o
        BY <1>1, <4>1, <4>3
      <4>4. QED
        BY <4>2, <4>3
    <3>3. QED
      BY <3>1, <3>2
  <2>2. CASE b \notin ToSet(bs)
    <3>1. o.op \in {"create", "update"} /\ b = o.res
      BY <1>3, <1>4, <1>10, <2>2 DEF Writes, Deletes
    <3>2. b \in ToSet(c.file)
      BY <1>4, <3>1 DEF Writes, Deletes
    <3>3. QED
      BY <1>6, <3>2
  <2>3. QED
    BY <2>1, <2>2
<1>11. ASSUME OneSpelling, ~Reuses(c, have), NEW r \in ToSet(c.file)
       PROVE  Finds(IF Puts(u) THEN h ELSE g, r)
  <2>1. Finds(IF Puts(t) THEN h ELSE f, r)
    BY <1>11 DEF ImportLeft
  <2>2. CASE o.op = "put"
    <3>1. g = h /\ Puts(t)
      BY <1>1, <1>2, <2>2 DEF Puts
    <3>2. QED
      BY <2>1, <3>1
  <2>3. CASE o.op # "put"
    <3>1. o.op # "clearNames"
      BY <1>4, <2>3 DEF Writes, Deletes
    <3>2. g = f /\ (Puts(t) <=> Puts(u))
      BY <1>1, <1>2, <2>3, <3>1 DEF Puts
    <3>3. QED
      BY <2>1, <3>2
  <2>4. QED
    BY <2>2, <2>3
<1>12. ImportLeft(c, u, h, g, new, have, e)
  BY <1>7, <1>8, <1>9, <1>10, <1>11 DEF ImportLeft
<1>13. QED
  BY <1>12 DEF u

\* A failed entry of an import is left out and counted, whatever became of it.
LEMMA ImportLeftCounted ==
  ASSUME NEW c, NEW have, NEW bs, NEW t \in Seq(OpSet), t # <<>>, Head(t).op # "put",
         NEW h, NEW f, NEW e \in Nat, ImportLeft(c, t, h, f, bs, have, e), NEW new
  PROVE  /\ ImportLeft(c, Tail(t), h, f, new, have, e + 1)
         /\ Head(t).op \notin {"clearNames", "deleteAll"}
<1> DEFINE o == Head(t)
           u == Tail(t)
<1>1. /\ u \in Seq(OpSet) /\ Len(u) = Len(t) - 1 /\ Len(t) \in Nat
      /\ \A i \in DOMAIN u : i + 1 \in DOMAIN t /\ u[i] = t[i+1]
      /\ ToSet(t) = {o} \cup ToSet(u)
      /\ o.op # "put"
  BY TailOf
<1> HIDE DEF o, u
<1>2. \A i \in DOMAIN u : u[i].op = "put" => i = Len(u)
  <2> SUFFICES ASSUME NEW i \in DOMAIN u, u[i].op = "put" PROVE i = Len(u)
    OBVIOUS
  <2>1. i + 1 = Len(t)
    BY <1>1 DEF ImportLeft
  <2>2. i \in Nat
    BY <1>1
  <2>3. QED
    BY <1>1, <2>1, <2>2
<1>3. \A x \in ToSet(t) :
        \/ x.op = "put"
        \/ \E r \in ToSet(c.file) : Writes(x, r)
        \/ \E r \in ToSet(have) : Deletes(x, r) /\ ~HasMAC(c.file, r.mac)
  BY DEF ImportLeft
<1>4. e + 1 # 0
  OBVIOUS
<1>5. Puts(u) <=> Puts(t)
  BY <1>1 DEF Puts
<1>6. OneSpelling /\ ~Reuses(c, have) =>
        \A r \in ToSet(c.file) : Finds(IF Puts(u) THEN h ELSE f, r)
  BY <1>5 DEF ImportLeft
<1>7. ImportLeft(c, u, h, f, new, have, e + 1)
  BY <1>1, <1>2, <1>3, <1>4, <1>6 DEF ImportLeft
<1>8. o.op \notin {"clearNames", "deleteAll"}
  BY <1>1, <1>3 DEF Writes, Deletes
<1>9. QED
  BY <1>7, <1>8 DEF u, o

\* A plan has everything left to do.
LEMMA PlanLeft ==
  ASSUME NEW c \in Commands, NEW have \in Seq(Reservations), Unique(have),
         NEW f, GoodFile(f), NEW bs,
         c.kind \in {"import", "add", "rm", "clear"} => bs = have, NEW e
  PROVE  Left(c, Plan(c, have, f).ops, Plan(c, have, f).file, f, bs, have, e)
<1> DEFINE t == Plan(c, have, f).ops
           h == Plan(c, have, f).file
<1>1. f \in FileSet /\ OneAnswer(f)
  BY DEF GoodFile
<1>2. have \in Seq(BindSet) /\ ToSet(have) \subseteq BindSet
  BY ReservationsOf
<1>3. ASSUME c.kind = "add" PROVE AddLeft(c.res, t, h, f, bs)
  <2> DEFINE r == c.res
             kind == IF HasMAC(have, r.mac) THEN "update" ELSE "create"
             o == [op |-> kind, res |-> r]
  <2>1. r \in BindSet /\ r \in Reservations
    BY <1>3, CommandsAssumption DEF Reservations
  <2>2. t = Ops(kind, <<r>>) \o <<PutOp>> /\ h = SetName(f, r.name, r.ip)
    BY <1>3 DEF Plan, AddPlan
  <2>3. kind \in {"create", "update"}
    OBVIOUS
  <2> HIDE DEF t, h, r, kind
  <2>4. r.name \in NameSet /\ r.ip \in Nat \ {NoAddress}
    BY <2>1 DEF BindSet
  <2>5. Finds(h, r)
    BY <1>1, <2>2, <2>4, SetAnswers, SetKeepsType DEF Finds
  <2>6. Ops(kind, <<r>>) = <<o>>
    BY DEF Ops
  <2>7. o = [op |-> kind, res |-> r]
    OBVIOUS
  <2> HIDE DEF o
  <2>8. t = <<o, PutOp>>
    <3>1. t = <<o>> \o <<PutOp>>
      BY <2>2, <2>6, Zenon
    <3>2. Len(t) = 2 /\ t[1] = o /\ t[2] = PutOp /\ t \in Seq({o, PutOp})
      BY <3>1
    <3>3. QED
      BY <3>2
  <2>9. QED
    BY <2>3, <2>5, <2>7, <2>8 DEF AddLeft, r
<1>4. ASSUME c.kind = "rm" PROVE RmLeft(ToSet(Targets(c, have)), t, h, f, bs, have, e)
  <2> DEFINE rs == Targets(c, have)
             gone == ToSet(rs)
             changed == NamesToDrop(rs, f) # <<>>
             s1 == PutIf(changed)
             s2 == Ops("delete", rs)
  <2>1. rs \in Seq(BindSet) /\ gone \subseteq ToSet(have)
    BY <1>2, KeptPicks, KeptElements DEF Targets
  <2>2. t = s1 \o s2 /\ h = DropNames(f, rs)
    BY <1>4 DEF Plan, RmPlan
  <2> HIDE DEF t, h, rs
  <2>3. DropsTo(h, f, rs, Len(rs))
    BY <1>1, <2>1, <2>2, DropNamesOf
  <2>4. \A r \in gone : Silent(h, r.name)
    BY <2>1, <2>3 DEF DropsTo, ToSet
  <2>5. ~changed => \A r \in gone : Silent(f, r.name)
    BY <1>1, <2>1, NamesToDropOf
  <2>6. /\ Len(rs) \in Nat /\ DOMAIN rs = 1 .. Len(rs)
        /\ gone = {rs[i] : i \in 1 .. Len(rs)}
    BY <2>1 DEF ToSet
  <2>7. /\ s2 = [i \in 1 .. Len(rs) |-> [op |-> "delete", res |-> rs[i]]]
        /\ Len(s2) = Len(rs) /\ s2 \in Seq(OpSet)
    <3>1. s2 = [i \in 1 .. Len(rs) |-> [op |-> "delete", res |-> rs[i]]]
      BY <2>6 DEF Ops
    <3>2. \A r \in BindSet : [op |-> "delete", res |-> r] \in OpSet
      BY DEF OpSet
    <3>3. s2 \in Seq(OpSet)
      BY <2>1, <3>2, OpsIn
    <3> HIDE DEF s2
    <3>4. Len(s2) = Len(rs)
      BY <2>6, <3>1
    <3>5. QED
      BY <3>1, <3>3, <3>4
  <2>8. \A i \in 1 .. Len(rs) : s2[i].op = "delete" /\ s2[i].res = rs[i] /\ rs[i] \in gone
    BY <2>6, <2>7
  <2>9. \A r \in gone : \E i \in 1 .. Len(rs) : r = rs[i]
    BY <2>6
  <2> HIDE DEF s2, gone
  <2>10. CASE changed
    <3>1. t = <<PutOp>> \o s2
      BY <2>2, <2>10 DEF PutIf
    <3>2. /\ DOMAIN t = 1 .. Len(rs) + 1 /\ t # <<>> /\ Head(t) = PutOp /\ t[1] = PutOp
          /\ \A i \in 1 .. Len(rs) : t[i+1] = s2[i] /\ i + 1 \in DOMAIN t
      BY <2>6, <2>7, <3>1
    <3>3. PutOp.op = "put"
      BY DEF PutOp
    <3>4. \A i \in DOMAIN t : i = 1 \/ (i - 1 \in 1 .. Len(rs) /\ t[i] = s2[i-1])
      BY <2>6, <3>2
    <3>5. \A i \in DOMAIN t : (i = 1 /\ t[i].op = "put") \/ \E r \in gone : Deletes(t[i], r)
      BY <2>8, <3>2, <3>3, <3>4 DEF Deletes
    <3>6. \A r \in gone : \E i \in DOMAIN t : Deletes(t[i], r)
      BY <2>8, <2>9, <3>2 DEF Deletes
    <3>7. PutFirst(t)
      BY <3>2, <3>3 DEF PutFirst
    <3>8. QED
      BY <1>4, <2>1, <2>4, <3>5, <3>6, <3>7 DEF RmLeft, gone, rs
  <2>11. CASE ~changed
    <3>1. t = s2
      BY <2>2, <2>7, <2>11 DEF PutIf
    <3>2. DOMAIN t = 1 .. Len(rs)
      BY <2>6, <2>7, <3>1
    <3>3. \A i \in DOMAIN t : \E r \in gone : Deletes(t[i], r)
      BY <2>8, <3>1, <3>2 DEF Deletes
    <3>4. \A r \in gone : \E i \in DOMAIN t : Deletes(t[i], r)
      BY <2>8, <2>9, <3>1, <3>2 DEF Deletes
    <3>5. ~PutFirst(t)
      <4>1. CASE t = <<>>
        BY <4>1 DEF PutFirst
      <4>2. CASE t # <<>>
        <5>1. 1 \in DOMAIN t /\ Head(t) = t[1]
          BY <2>7, <3>1, <4>2
        <5>2. QED
          BY <3>3, <5>1 DEF PutFirst, Deletes
      <4>3. QED
        BY <4>1, <4>2
    <3>6. QED
      BY <1>4, <2>1, <2>5, <2>11, <3>3, <3>4, <3>5 DEF RmLeft, gone, rs
  <2>12. QED
    BY <2>10, <2>11
<1>5. ASSUME c.kind = "clear" PROVE ClearLeft(t, f, bs)
  <2>1. t = IF have = <<>> /\ f.entries = <<>> THEN <<>> ELSE ClearSteps
    BY <1>5 DEF Plan, ClearPlan, ClearSteps
  <2>2. QED
    BY <1>5, <2>1 DEF ClearLeft, ClearSteps
<1>6. ASSUME c.kind = "setDomain" PROVE DomainLeft(c.domain, t, h, f)
  <2>1. c.domain \in Domains
    BY <1>6, CommandsAssumption
  <2>2. t = <<PutOp>> /\ h = Requalify(f, c.domain)
    BY <1>6 DEF Plan, PutPlan
  <2>3. h.domain = c.domain
    BY <1>1, <2>1, <2>2, RequalifyKeepsOne
  <2>4. QED
    BY <2>2, <2>3 DEF DomainLeft
<1>7. ASSUME c.kind = "import" PROVE ImportLeft(c, t, h, f, bs, have, e)
  <2>1. t = ImportOps(c, have, f) /\ h = ImportedNames(c, have, f)
    BY <1>7 DEF Plan, ImportPlan
  <2> HIDE DEF t, h
  <2>2. QED
    BY <1>1, <1>7, <2>1, ImportPlanLeft
<1> HIDE DEF t, h
<1>8. Left(c, t, h, f, bs, have, e)
  BY <1>3, <1>4, <1>5, <1>6, <1>7 DEF Left
<1>9. QED
  BY <1>8 DEF t, h

\* An operation that is carried out leaves the rest of the plan to do.
LEMMA LeftAfter ==
  ASSUME NEW c \in Commands, NEW have \in Seq(Reservations), NEW bs \in Seq(Reservations),
         NEW t \in Seq(OpSet), t # <<>>, NEW h \in FileSet, NEW f \in FileSet, NEW e,
         Left(c, t, h, f, bs, have, e),
         Unique(bs), Granted(Head(t), bs),
         c.kind = "clear" /\ Head(t).op = "clearNames" => h.entries = <<>>,
         NEW new, AfterWrite(Head(t), bs, new),
         NEW g, g = IF Head(t).op \in {"put", "clearNames"} THEN h ELSE f
  PROVE  Left(c, Tail(t), h, g, new, have, e)
<1> DEFINE o == Head(t)
           u == Tail(t)
           N == Len(t)
<1>1. /\ N \in Nat /\ N # 0 /\ DOMAIN t = 1 .. N /\ o = t[1] /\ 1 \in DOMAIN t /\ o \in OpSet
      /\ DOMAIN u = 1 .. N - 1 /\ \A i \in 1 .. N - 1 : u[i] = t[i+1] /\ i + 1 \in DOMAIN t
      /\ u # <<>> => Head(u) = t[2] /\ 2 \in DOMAIN t
      /\ u \in Seq(OpSet)
  OBVIOUS
<1>2. /\ o.op \in {"create", "update"} => o.res \in ToSet(new)
      /\ o.op = "delete" => /\ ToSet(new) \subseteq ToSet(bs)
                            /\ ~HasMAC(new, o.res.mac)
                            /\ \A b \in ToSet(bs) : b \in ToSet(new) \/ b.mac = o.res.mac
      /\ o.op = "deleteAll" => new = <<>>
      /\ o.op \in {"put", "clearNames"} => new = bs
  BY <1>1, WriteOf
<1>3. g = IF o.op \in {"put", "clearNames"} THEN h ELSE f
  OBVIOUS
<1>4. ASSUME c.kind = "add" PROVE AddLeft(c.res, u, h, g, new)
  <2>1. AddLeft(c.res, t, h, f, bs)
    BY <1>4 DEF Left
  <2>2. CASE \E kind \in {"create", "update"} : t = <<[op |-> kind, res |-> c.res], PutOp>>
    <3>1. u = <<PutOp>> /\ o.op \in {"create", "update"} /\ o.res = c.res
      BY <2>2
    <3>2. c.res \in ToSet(new)
      BY <1>2, <3>1
    <3> HIDE DEF u
    <3>3. QED
      BY <2>1, <3>1, <3>2 DEF AddLeft
  <2>3. CASE t = <<PutOp>> /\ c.res \in ToSet(bs)
    <3>1. u = <<>> /\ o = PutOp
      BY <2>3
    <3>2. o.op = "put"
      BY <3>1 DEF PutOp
    <3>3. Finds(h, c.res)
      BY <2>1 DEF AddLeft
    <3> HIDE DEF u, o
    <3>4. QED
      BY <1>2, <1>3, <2>3, <3>1, <3>2, <3>3 DEF AddLeft
  <2>4. QED
    BY <2>1, <2>2, <2>3 DEF AddLeft
<1>5. ASSUME c.kind = "rm" PROVE RmLeft(ToSet(Targets(c, have)), u, h, g, new, have, e)
  <2> DEFINE rs == ToSet(Targets(c, have))
  <2>1. RmLeft(rs, t, h, f, bs, have, e)
    BY <1>5 DEF Left
  <2> HIDE DEF rs, o, u, N
  <2>2. \A i \in DOMAIN t : i # 1 => \E r \in rs : Deletes(t[i], r)
    BY <2>1 DEF RmLeft
  <2>3. \A i \in DOMAIN u : \E r \in rs : Deletes(u[i], r)
    <3>1. \A i \in DOMAIN u : u[i] = t[i+1] /\ i + 1 \in DOMAIN t /\ i + 1 # 1
      BY <1>1
    <3>2. QED
      BY <2>2, <3>1
  <2>4. ~PutFirst(u)
    <3>1. CASE u = <<>>
      BY <3>1 DEF PutFirst
    <3>2. CASE u # <<>>
      BY <1>1, <2>2, <3>2 DEF PutFirst, Deletes
    <3>3. QED
      BY <3>1, <3>2
  <2>5. \A i \in DOMAIN t : i = 1 \/ (i - 1 \in DOMAIN u /\ t[i] = u[i-1])
    <3>1. \A i \in DOMAIN t : i # 1 => i - 1 \in 1 .. N - 1 /\ (i - 1) + 1 = i
      BY <1>1
    <3>2. QED
      BY <1>1, <3>1
  <2>6. CASE o.op = "put"
    <3>1. PutFirst(t)
      BY <2>6 DEF PutFirst, o
    <3>2. g = h /\ new = bs
      BY <1>2, <1>3, <2>6
    <3>3. \A r \in rs : Silent(g, r.name)
      BY <2>1, <3>1, <3>2 DEF RmLeft
    <3>4. \A r : Deletes(t[1], r) => FALSE
      BY <1>1, <2>6 DEF Deletes
    <3>5. e = 0 => \A r \in rs : HasMAC(new, r.mac) => \E i \in DOMAIN u : Deletes(u[i], r)
      BY <2>1, <2>5, <3>2, <3>4 DEF RmLeft
    <3>6. QED
      BY <2>1, <2>3, <2>4, <3>2, <3>3, <3>5 DEF RmLeft, rs
  <2>7. CASE o.op # "put"
    <3>1. PICK r \in rs : Deletes(o, r)
      BY <1>1, <2>1, <2>7 DEF RmLeft
    <3>2. o.op = "delete" /\ o.res = r
      BY <3>1 DEF Deletes
    <3>3. /\ ToSet(new) \subseteq ToSet(bs) /\ ~HasMAC(new, r.mac) /\ g = f
      BY <1>2, <1>3, <3>2
    <3>4. ~PutFirst(t)
      BY <2>7 DEF PutFirst, o
    <3>5. \A x \in rs : Silent(g, x.name)
      BY <2>1, <3>3, <3>4 DEF RmLeft
    <3>6. \A x : Deletes(t[1], x) => x = r
      BY <1>1, <3>2 DEF Deletes
    <3>7. new \in Seq(Reservations)
      <4>1. new = Kept(bs, {b \in ToSet(bs) : b.mac # o.res.mac})
        BY <3>2 DEF AfterWrite, o
      <4>2. QED
        BY <4>1, KeptPicks
    <3>8. \A x : HasMAC(new, x.mac) => HasMAC(bs, x.mac) /\ x # r
      BY <3>3, <3>7, HasMACOf
    <3>9. e = 0 => \A x \in rs : HasMAC(new, x.mac) => \E i \in DOMAIN u : Deletes(u[i], x)
      <4> SUFFICES ASSUME e = 0, NEW x \in rs, HasMAC(new, x.mac)
                   PROVE  \E i \in DOMAIN u : Deletes(u[i], x)
        OBVIOUS
      <4>1. HasMAC(bs, x.mac) /\ x # r
        BY <3>8
      <4>2. PICK i \in DOMAIN t : Deletes(t[i], x)
        BY <2>1, <4>1 DEF RmLeft
      <4>3. i # 1
        BY <3>6, <4>1, <4>2
      <4>4. QED
        BY <2>5, <4>2, <4>3
    <3>10. QED
      BY <2>1, <2>3, <2>4, <3>3, <3>5, <3>9 DEF RmLeft, rs
  <2>8. QED
    BY <2>6, <2>7
<1>6. ASSUME c.kind = "clear" PROVE ClearLeft(u, g, new)
  <2>1. ClearLeft(t, f, bs)
    BY <1>6 DEF Left
  <2>2. CASE t = ClearSteps
    <3>1. u = Tail(ClearSteps) /\ o = [op |-> "clearNames"]
      BY <2>2 DEF ClearSteps
    <3>2. g.entries = <<>>
      BY <1>3, <1>6, <3>1
    <3>3. u # <<>>
      <4>1. N = 2 /\ 1 \in 1 .. N - 1
        BY <2>2 DEF ClearSteps
      <4>2. 1 \in DOMAIN u
        BY <1>1, <4>1
      <4> HIDE DEF u
      <4>3. QED
        BY <4>2
    <3>4. QED
      BY <3>1, <3>2, <3>3 DEF ClearLeft
  <2>3. CASE t = Tail(ClearSteps)
    <3>1. u = <<>> /\ o = [op |-> "deleteAll"] /\ t # ClearSteps
      BY <2>3 DEF ClearSteps
    <3>2. new = <<>> /\ g = f
      BY <1>2, <1>3, <3>1
    <3>3. f.entries = <<>>
      BY <2>1, <3>1 DEF ClearLeft
    <3>4. QED
      BY <3>1, <3>2, <3>3 DEF ClearLeft
  <2>4. QED
    BY <2>1, <2>2, <2>3 DEF ClearLeft
<1>7. ASSUME c.kind = "setDomain" PROVE DomainLeft(c.domain, u, h, g)
  <2>1. DomainLeft(c.domain, t, h, f)
    BY <1>7 DEF Left
  <2>2. t = <<PutOp>> /\ h.domain = c.domain
    BY <2>1 DEF DomainLeft
  <2>3. u = <<>> /\ o.op = "put"
    BY <2>2 DEF PutOp
  <2> HIDE DEF u
  <2>4. QED
    BY <1>3, <2>2, <2>3 DEF DomainLeft
<1>8. ASSUME c.kind = "import" PROVE ImportLeft(c, u, h, g, new, have, e)
  BY <1>8, ImportLeftAfter DEF Left
<1>9. QED
  BY <1>4, <1>5, <1>6, <1>7, <1>8 DEF Left

\* A failed deletion is left out and counted.
LEMMA LeftCounted ==
  ASSUME NEW c, c.kind = "rm", NEW have, NEW bs,
         NEW t \in Seq(OpSet), t # <<>>, Head(t).op # "put", NEW h, NEW f, NEW e \in Nat,
         Left(c, t, h, f, bs, have, e),
         NEW new, ToSet(new) \subseteq ToSet(bs)
  PROVE  Left(c, Tail(t), h, f, new, have, e + 1)
<1> DEFINE u == Tail(t)
           rs == ToSet(Targets(c, have))
<1>1. /\ \A i \in DOMAIN u : u[i] = t[i+1] /\ i + 1 \in DOMAIN t /\ i + 1 # 1
      /\ u # <<>> => Head(u) = t[2] /\ 2 \in DOMAIN t
  OBVIOUS
<1> HIDE DEF u, rs
<1>2. RmLeft(rs, t, h, f, bs, have, e)
  BY DEF Left, rs
<1>3. \A i \in DOMAIN t : i # 1 => \E r \in rs : Deletes(t[i], r)
  BY <1>2 DEF RmLeft
<1>4. \A i \in DOMAIN u : \E r \in rs : Deletes(u[i], r)
  BY <1>1, <1>3
<1>5. ~PutFirst(u) /\ ~PutFirst(t)
  BY <1>1, <1>3 DEF PutFirst, Deletes
<1>6. e + 1 # 0
  OBVIOUS
<1>7. RmLeft(rs, u, h, f, new, have, e + 1)
  BY <1>2, <1>4, <1>5, <1>6 DEF RmLeft
<1>8. QED
  BY <1>7 DEF Left, u, rs

\* Only clear clears names.
LEMMA ClearsNames ==
  ASSUME NEW c, NEW t \in Seq(OpSet), t # <<>>, Head(t).op = "clearNames",
         NEW h, NEW f, NEW bs, NEW have, NEW e, Left(c, t, h, f, bs, have, e)
  PROVE  /\ c.kind \notin {"import", "add", "rm", "setDomain"}
         /\ f.entries = <<>> => Left(c, Tail(t), h, f, bs, have, e)
         /\ \A x : Left(c, t, x, f, bs, have, e)
<1>1. c.kind # "add"
  BY DEF Left, AddLeft, PutOp
<1>2. c.kind # "setDomain"
  BY DEF Left, DomainLeft, PutOp
<1>3. c.kind # "rm"
  <2>1. 1 \in DOMAIN t /\ t[1].op = "clearNames"
    OBVIOUS
  <2>2. QED
    BY <2>1 DEF Left, RmLeft, Deletes
<1>4. c.kind # "import"
  <2>1. Head(t) \in ToSet(t)
    BY TailOf
  <2>2. QED
    BY <2>1 DEF Left, ImportLeft, Writes, Deletes
<1>5. ASSUME c.kind = "clear", f.entries = <<>> PROVE ClearLeft(Tail(t), f, bs)
  <2>1. ClearLeft(t, f, bs)
    BY <1>5 DEF Left
  <2>2. t = ClearSteps
    BY <2>1 DEF ClearLeft, ClearSteps
  <2>3. Tail(t) # <<>>
    <3>1. Len(t) = 2
      BY <2>2 DEF ClearSteps
    <3>2. 1 \in DOMAIN Tail(t)
      BY <3>1
    <3> DEFINE u == Tail(t)
    <3> HIDE DEF u
    <3>3. QED
      BY <3>2
  <2>4. QED
    BY <1>5, <2>2, <2>3 DEF ClearLeft
<1>6. QED
  BY <1>1, <1>2, <1>3, <1>4, <1>5 DEF Left

\* A command that is under way or has reported success.
Live(p) == pc[p] \in {"next", "write"} \/ (pc[p] = "idle" /\ result[p] = "ok")

Alone(p) ==
  /\ pc[p] = "write" => Granted(Current(p), binds)
  /\ pc[p] = "write" /\ cmd[p].kind = "clear" /\ Current(p).op = "clearNames" => hosts[p].entries = <<>>
  /\ pc[p] = "hosts" /\ cmd[p].kind \in {"import", "add", "rm", "clear"} => binds = device[p]
  /\ pc[p] = "idle" /\ result[p] = "ok" => todo[p] = <<>> /\ errors[p] = 0
  /\ Live(p) => Left(cmd[p], todo[p], hosts[p], file, binds, device[p], errors[p])

AloneInv == SharedInv /\ Unique(binds) /\ \A p \in Procs : Alone(p)

\* A process that has stopped without success has nothing to answer for.
LEMMA AloneStopped ==
  ASSUME SharedInv, NEW p \in Procs, End(p, "failed")
  PROVE  Alone(p)'
<1>1. pc'[p] = "idle" /\ result'[p] = "failed"
  BY DEF SharedInv, TypeOK, End
<1>2. QED
  BY <1>1 DEF Alone, Live

\* Between two operations.
LEMMA AloneNext ==
  ASSUME NEW p \in Procs, pc'[p] = "next",
         Left(cmd[p], todo[p], hosts[p], file, binds, device[p], errors[p])'
  PROVE  Alone(p)'
  BY DEF Alone, Live

\* An operation that is carried out.
LEMMA AloneWritten ==
  ASSUME AloneInv, NEW p \in Procs, ReadyToWrite(p), Written(Current(p), hosts[p])
  PROVE  /\ Unique(binds)'
         /\ Left(cmd[p], Tail(todo[p]), hosts[p], file', binds', device[p], errors[p])
         /\ Current(p).op = "delete" => ToSet(binds') \subseteq ToSet(binds)
<1>1. SharedInv /\ Unique(binds) /\ Alone(p) /\ InOrder(p)
  BY DEF AloneInv, SharedInv
<1> DEFINE o == Current(p)
           t == todo[p]
           c == cmd[p]
<1>2. t # <<>> /\ pc[p] \in {"next", "write"}
  BY <1>1 DEF ReadyToWrite, Busy, InOrder
<1>3. t \in Seq(OpSet) /\ o = Head(t) /\ o \in OpSet
  BY <1>1, <1>2, CurrentOf DEF SharedInv, TypeOK, Current
<1>4. /\ c \in Commands /\ device[p] \in Seq(Reservations) /\ binds \in Seq(Reservations)
      /\ hosts[p] \in FileSet /\ file \in FileSet
  BY <1>1, <1>2 DEF InOrder, SharedInv, TypeOK
<1>5. Left(c, t, hosts[p], file, binds, device[p], errors[p])
  BY <1>1, <1>2 DEF Alone, Live
<1>6. Granted(o, binds)
  <2>1. CASE pc[p] = "write"
    BY <1>1, <2>1 DEF Alone
  <2>2. CASE o.op \in {"put", "deleteAll"}
    BY <2>2 DEF Granted
  <2>3. QED
    BY <2>1, <2>2 DEF ReadyToWrite
<1>7. c.kind = "clear" /\ o.op = "clearNames" => hosts[p].entries = <<>>
  BY <1>1 DEF ReadyToWrite, Alone
<1>8. /\ AfterWrite(o, binds, binds')
      /\ file' = IF o.op \in {"put", "clearNames"} THEN hosts[p] ELSE file
  BY DEF Written, AfterWrite
<1> HIDE DEF o, t, c
<1>9. Unique(binds') /\ (o.op = "delete" => ToSet(binds') \subseteq ToSet(binds))
  BY <1>1, <1>3, <1>4, <1>6, <1>8, WriteOf
<1>10. Left(c, Tail(t), hosts[p], file', binds', device[p], errors[p])
  BY <1>1, <1>2, <1>3, <1>4, <1>5, <1>6, <1>7, <1>8, LeftAfter
<1>11. Unique(binds)'
  BY <1>9 DEF Unique
<1>12. QED
  BY <1>9, <1>10, <1>11 DEF o, t, c

\* An operation that has failed, with or without effect.
LEMMA AloneFailed ==
  ASSUME AloneInv, NEW p \in Procs, todo[p] # <<>>, pc[p] \in {"next", "write"}, OpFailed(p),
         UNCHANGED <<cmd, device, hosts>>,
         \/ UNCHANGED <<binds, file>>
         \/ ReadyToWrite(p) /\ Written(Current(p), hosts[p])
  PROVE  Alone(p)'
<1>1. SharedInv /\ Alone(p) /\ InOrder(p) /\ TypeOK
  BY DEF AloneInv, SharedInv
<1>2. CASE ~EntryErrors(p)
  BY <1>1, <1>2, AloneStopped DEF OpFailed
<1>3. CASE EntryErrors(p)
  <2>1. /\ pc' = [pc EXCEPT ![p] = "next"] /\ todo' = [todo EXCEPT ![p] = Tail(@)]
        /\ errors' = [errors EXCEPT ![p] = @ + 1]
    BY <1>3 DEF OpFailed
  <2>2. /\ pc'[p] = "next" /\ todo'[p] = Tail(todo[p]) /\ errors'[p] = errors[p] + 1
        /\ cmd'[p] = cmd[p] /\ device'[p] = device[p] /\ hosts'[p] = hosts[p]
    BY <1>1, <2>1 DEF TypeOK
  <2>3. Left(cmd[p], Tail(todo[p]), hosts[p], file', binds', device[p], errors[p] + 1)
    <3>1. CASE cmd[p].kind = "import"
      <4>1. ImportLeft(cmd[p], todo[p], hosts[p], file, binds, device[p], errors[p])
        BY <1>1, <3>1 DEF Alone, Live, Left
      <4>2. /\ todo[p] \in Seq(OpSet) /\ errors[p] \in Nat /\ Head(todo[p]) = Current(p)
            /\ Current(p).op # "put"
        BY <1>1, <1>3, <3>1 DEF TypeOK, Current, EntryErrors
      <4>3. /\ ImportLeft(cmd[p], Tail(todo[p]), hosts[p], file, binds', device[p], errors[p] + 1)
            /\ Current(p).op \notin {"clearNames", "deleteAll"}
        BY <4>1, <4>2, ImportLeftCounted
      <4>4. file' = file
        BY <4>2, <4>3 DEF Written
      <4>5. QED
        BY <3>1, <4>3, <4>4 DEF Left
    <3>2. CASE cmd[p].kind = "rm" /\ Current(p).op = "delete"
      <4>1. Left(cmd[p], todo[p], hosts[p], file, binds, device[p], errors[p])
        BY <1>1 DEF Alone, Live
      <4>2. /\ todo[p] \in Seq(OpSet) /\ errors[p] \in Nat
            /\ Head(todo[p]).op # "put"
        BY <1>1, <3>2 DEF TypeOK, Current
      <4>3. file' = file /\ ToSet(binds') \subseteq ToSet(binds)
        <5>1. CASE UNCHANGED <<binds, file>>
          BY <5>1
        <5>2. CASE ReadyToWrite(p) /\ Written(Current(p), hosts[p])
          <6>1. file' = file
            BY <3>2, <5>2 DEF Written
          <6>2. QED
            BY <3>2, <5>2, <6>1, AloneWritten
        <5>3. QED
          BY <5>1, <5>2
      <4>4. QED
        BY <3>2, <4>1, <4>2, <4>3, LeftCounted
    <3>3. QED
      BY <1>3, <3>1, <3>2 DEF EntryErrors
  <2>4. QED
    BY <2>2, <2>3, AloneNext
<1>4. QED
  BY <1>2, <1>3

\* A step of the one process keeps its promises.
LEMMA AloneStep ==
  ASSUME AloneInv, NEW p \in Procs, Step(p)
  PROVE  Unique(binds)' /\ Alone(p)'
<1>1. SharedInv /\ Alone(p) /\ InOrder(p) /\ TypeOK /\ Unique(binds)
  BY DEF AloneInv, SharedInv
<1>2. ASSUME UNCHANGED binds PROVE Unique(binds)'
  BY <1>1, <1>2 DEF Unique
<1>3. ASSUME UNCHANGED binds, End(p, "failed") PROVE Unique(binds)' /\ Alone(p)'
  BY <1>1, <1>2, <1>3, AloneStopped
<1>4. ASSUME NEW c \in Commands, Start(p, c) PROVE Unique(binds)' /\ Alone(p)'
  <2>1. /\ pc' = [pc EXCEPT ![p] = FirstStep(c)] /\ cmd' = [cmd EXCEPT ![p] = c]
        /\ UNCHANGED binds
    BY <1>4 DEF Start, routerVars
  <2>2. pc'[p] = FirstStep(c) /\ cmd'[p] = c
    BY <1>1, <2>1 DEF TypeOK
  <2>3. /\ FirstStep(c) \in {"binds", "hosts", "next"}
        /\ FirstStep(c) = "hosts" => c.kind \notin {"import", "add", "rm", "clear"}
        /\ FirstStep(c) = "next" => c.kind = "direct"
    BY DEF FirstStep
  <2>4. Alone(p)'
    BY <2>2, <2>3 DEF Alone, Live, Left
  <2>5. QED
    BY <1>2, <2>1, <2>4
<1>5. CASE ReadBinds(p)
  <2>1. UNCHANGED binds
    BY <1>5 DEF ReadBinds, routerVars
  <2>2. CASE End(p, "failed")
    BY <1>3, <2>1, <2>2
  <2>3. CASE ~End(p, "failed")
    <3>1. pc' = [pc EXCEPT ![p] = "hosts"] /\ device' = [device EXCEPT ![p] = binds]
      BY <1>5, <2>3 DEF ReadBinds
    <3>2. pc'[p] = "hosts" /\ binds' = device'[p]
      BY <1>1, <2>1, <3>1 DEF TypeOK
    <3>3. QED
      BY <1>2, <2>1, <3>2 DEF Alone, Live
  <2>4. QED
    BY <2>2, <2>3
<1>6. CASE ReadHosts(p)
  <2>1. UNCHANGED <<binds, file, cmd, device, errors>> /\ pc[p] = "hosts"
    BY <1>6 DEF ReadHosts, routerVars
  <2>2. CASE End(p, "failed")
    BY <1>3, <2>1, <2>2
  <2>3. CASE ~End(p, "failed")
    <3> DEFINE c == cmd[p]
               plan == Plan(c, device[p], file)
    <3>1. /\ hosts' = [hosts EXCEPT ![p] = plan.file] /\ todo' = [todo EXCEPT ![p] = plan.ops]
          /\ pc' = [pc EXCEPT ![p] = "next"]
      BY <1>6, <2>3 DEF ReadHosts
    <3>2. /\ hosts'[p] = plan.file /\ todo'[p] = plan.ops /\ pc'[p] = "next"
          /\ cmd'[p] = c /\ device'[p] = device[p] /\ errors'[p] = errors[p]
      BY <1>1, <2>1, <3>1 DEF TypeOK
    <3>3. /\ c \in Commands /\ device[p] \in Seq(Reservations) /\ GoodFile(file)
          /\ c.kind \in {"import", "add", "rm", "clear"} => binds = device[p]
      BY <1>1, <2>1 DEF InOrder, TypeOK, SharedInv, Alone
    <3>4. Left(c, plan.ops, plan.file, file, binds, device[p], errors[p])
      <4>1. CASE c.kind \in {"import", "add", "rm", "clear"}
        <5>1. Unique(device[p])
          BY <1>1, <3>3, <4>1
        <5> HIDE DEF c
        <5>2. QED
          BY <3>3, <5>1, PlanLeft
      <4>2. CASE c.kind \notin {"import", "add", "rm", "clear"}
        <5>1. Unique(<<>>) /\ <<>> \in Seq(Reservations)
          BY DEF Unique
        <5>2. Plan(c, <<>>, file) = Plan(c, device[p], file) \/ c.kind # "setDomain"
          BY DEF Plan
        <5> HIDE DEF c
        <5>3. Left(c, Plan(c, <<>>, file).ops, Plan(c, <<>>, file).file, file, binds, <<>>, errors[p])
          BY <3>3, <4>2, <5>1, PlanLeft
        <5>4. QED
          BY <4>2, <5>2, <5>3 DEF Left
      <4>3. QED
        BY <4>1, <4>2
    <3> HIDE DEF plan, c
    <3>5. Left(cmd[p], todo[p], hosts[p], file, binds, device[p], errors[p])'
      BY <2>1, <3>2, <3>4
    <3>6. QED
      BY <1>2, <2>1, <3>2, <3>5, AloneNext
  <2>4. QED
    BY <2>2, <2>3
<1>7. CASE Finish(p)
  <2>1. UNCHANGED <<binds, file, cmd, device, hosts, todo, errors>> /\ pc[p] = "next" /\ todo[p] = <<>>
    BY <1>7 DEF Finish, routerVars
  <2>2. CASE errors[p] # 0
    BY <1>3, <1>7, <2>1, <2>2 DEF Finish
  <2>3. CASE errors[p] = 0
    <3>1. pc'[p] = "idle" /\ todo'[p] = <<>> /\ errors'[p] = 0
      BY <1>1, <1>7, <2>1, <2>3 DEF Finish, End, TypeOK
    <3>2. Left(cmd[p], todo[p], hosts[p], file, binds, device[p], errors[p])
      BY <1>1, <2>1 DEF Alone, Live
    <3>3. QED
      BY <1>2, <2>1, <3>1, <3>2 DEF Alone
  <2>4. QED
    BY <2>2, <2>3
<1>8. CASE CheckBind(p)
  <2>1. /\ UNCHANGED <<binds, file, cmd, device, hosts>> /\ pc[p] = "next" /\ todo[p] # <<>>
        /\ Current(p).op \in {"create", "update", "delete"}
    BY <1>8 DEF CheckBind, Busy, routerVars
  <2>2. CASE OpFailed(p)
    BY <1>2, <2>1, <2>2, AloneFailed
  <2>3. CASE ~OpFailed(p)
    <3>1. pc' = [pc EXCEPT ![p] = "write"] /\ UNCHANGED <<todo, errors>> /\ Checked(Current(p))
      BY <1>8, <2>3 DEF CheckBind
    <3>2. Granted(Current(p), binds)
      BY <2>1, <3>1 DEF Checked, CreateAllowed, UpdateAllowed, DeleteAllowed, Granted
    <3>3. pc'[p] = "write" /\ Current(p)' = Current(p)
      BY <1>1, <3>1 DEF TypeOK, Current
    <3>4. Left(cmd[p], todo[p], hosts[p], file, binds, device[p], errors[p])
      BY <1>1, <2>1 DEF Alone, Live
    <3>5. Alone(p)'
      BY <2>1, <3>1, <3>2, <3>3, <3>4 DEF Alone
    <3>6. QED
      BY <1>2, <2>1, <3>5
  <2>4. QED
    BY <2>2, <2>3
<1>9. CASE CheckClear(p)
  <2>1. /\ UNCHANGED <<binds, file, cmd, device>> /\ pc[p] = "next" /\ todo[p] # <<>>
        /\ Current(p).op = "clearNames"
    BY <1>9 DEF CheckClear, Busy, routerVars
  <2>2. /\ Left(cmd[p], todo[p], hosts[p], file, binds, device[p], errors[p])
        /\ todo[p] \in Seq(OpSet) /\ Head(todo[p]).op = "clearNames"
    BY <1>1, <2>1 DEF Alone, Live, TypeOK, Current
  <2>3. CASE file.entries = <<>>
    <3>1. OpDone(p) /\ UNCHANGED hosts
      BY <1>9, <2>3 DEF CheckClear
    <3>2. pc'[p] = "next" /\ todo'[p] = Tail(todo[p]) /\ errors'[p] = errors[p]
      BY <1>1, <3>1 DEF OpDone, TypeOK
    <3>3. Left(cmd[p], Tail(todo[p]), hosts[p], file, binds, device[p], errors[p])
      BY <2>1, <2>2, <2>3, ClearsNames
    <3>4. Left(cmd[p], todo[p], hosts[p], file, binds, device[p], errors[p])'
      BY <2>1, <3>1, <3>2, <3>3
    <3>5. QED
      BY <1>2, <2>1, <3>2, <3>4, AloneNext
  <2>4. CASE file.entries # <<>>
    <3>1. /\ hosts' = [hosts EXCEPT ![p] = ClearNames(file)] /\ pc' = [pc EXCEPT ![p] = "write"]
          /\ UNCHANGED <<todo, errors>>
      BY <1>9, <2>4 DEF CheckClear
    <3>2. pc'[p] = "write" /\ hosts'[p] = ClearNames(file) /\ Current(p)' = Current(p)
      BY <1>1, <3>1 DEF TypeOK, Current
    <3>3. ClearNames(file).entries = <<>>
      BY <1>1, ClearNamesOf DEF TypeOK
    <3>4. Left(cmd[p], todo[p], ClearNames(file), file, binds, device[p], errors[p])
      BY <2>1, <2>2, ClearsNames
    <3>5. Granted(Current(p), binds)
      BY <2>1 DEF Granted
    <3> DEFINE h == ClearNames(file)
    <3> HIDE DEF h
    <3>6. Alone(p)'
      BY <2>1, <3>1, <3>2, <3>3, <3>4, <3>5 DEF Alone
    <3>7. QED
      BY <1>2, <2>1, <3>6
  <2>5. QED
    BY <2>3, <2>4
<1>10. CASE Write(p)
  <2>1. /\ ReadyToWrite(p) /\ Written(Current(p), hosts[p]) /\ OpDone(p)
        /\ UNCHANGED <<cmd, device, hosts>>
    BY <1>10 DEF Write
  <2>2. pc'[p] = "next" /\ todo'[p] = Tail(todo[p]) /\ errors'[p] = errors[p]
    BY <1>1, <2>1 DEF OpDone, TypeOK
  <2>3. /\ Unique(binds)'
        /\ Left(cmd[p], Tail(todo[p]), hosts[p], file', binds', device[p], errors[p])
    BY <2>1, AloneWritten
  <2>4. Left(cmd[p], todo[p], hosts[p], file, binds, device[p], errors[p])'
    BY <2>1, <2>2, <2>3
  <2>5. QED
    BY <2>2, <2>3, <2>4, AloneNext
<1>11. CASE ReadFails(p) \/ Interrupt(p)
  BY <1>3, <1>11 DEF ReadFails, Interrupt, routerVars
<1>12. CASE OpFails(p)
  <2>1. /\ todo[p] # <<>> /\ pc[p] \in {"next", "write"} /\ OpFailed(p)
        /\ UNCHANGED <<cmd, device, hosts, binds, file>>
    BY <1>1, <1>12 DEF OpFails, Busy, InOrder, routerVars
  <2>2. QED
    BY <1>2, <2>1, AloneFailed
<1>13. CASE ReplyLost(p)
  <2>1. /\ todo[p] # <<>> /\ pc[p] \in {"next", "write"} /\ OpFailed(p)
        /\ UNCHANGED <<cmd, device, hosts>>
        /\ ReadyToWrite(p) /\ Written(Current(p), hosts[p])
    BY <1>1, <1>13 DEF ReplyLost, ReadyToWrite, Busy, InOrder
  <2>2. Unique(binds)'
    BY <2>1, AloneWritten
  <2>3. QED
    BY <2>1, <2>2, AloneFailed
<1>14. QED
  BY <1>4, <1>5, <1>6, <1>7, <1>8, <1>9, <1>10, <1>11, <1>12, <1>13 DEF Step

\* With one process the promises hold throughout.
LEMMA AloneInductive ==
  ASSUME OneProcess
  PROVE  Spec => []AloneInv
<1>1. Init /\ SharedInv => AloneInv
  BY DEF Init, AloneInv, Alone, Live, Unique
<1>2. AloneInv /\ SharedInv' /\ [Next]_vars => AloneInv'
  <2> SUFFICES ASSUME AloneInv, SharedInv', [Next]_vars PROVE AloneInv'
    OBVIOUS
  <2>1. CASE UNCHANGED vars
    BY <2>1 DEF vars, AloneInv, Alone, Live, Unique, Current
  <2>2. ASSUME NEW p \in Procs, Step(p) PROVE AloneInv'
    <3>1. Unique(binds)' /\ Alone(p)'
      BY <2>2, AloneStep
    <3>2. \A q \in Procs : Alone(q)'
      BY <3>1 DEF OneProcess
    <3>3. QED
      BY <3>1, <3>2 DEF AloneInv
  <2>3. QED
    BY <2>1, <2>2 DEF Next
<1>3. QED
  BY <1>1, <1>2, SharedInductive, PTL DEF Spec

\* When nothing else runs, retries after lost replies, interrupted commands and reruns
\* leave one bind per MAC: add_static_bind is only ever called for a MAC without one.
THEOREM OneBindSafe ==
  ASSUME OneProcess
  PROVE  Spec => []OneBindPerMAC
<1>1. AloneInv => OneBindPerMAC
  BY DEF AloneInv, Unique, OneBindPerMAC
<1>2. QED
  BY <1>1, AloneInductive, PTL

\* A name that Lookup can find and does not find has no entry.
LEMMA SilentGone ==
  ASSUME NEW f \in FileSet, NEW n \in NameSet, Silent(f, n)
  PROVE  Matched(f, n) => Gone(f, n)
  BY FormsOf DEF Silent, Gone

\* When nothing else runs, an add, rm, clear or setDomain that reports success has done
\* what it says in both tables, whatever half-done work it found there, as far as Lookup can
\* find the names.
THEOREM SuccessSafe ==
  ASSUME OneProcess
  PROVE  Spec => []SuccessIsComplete
<1>1. ASSUME AloneInv PROVE SuccessIsComplete
  <2> DEFINE Complete(p) ==
        LET c == cmd[p] IN
          /\ c.kind = "add" => Reserved(c.res) /\ Finds(file, c.res)
          /\ c.kind = "rm" => \A r \in ToSet(Targets(c, device[p])) :
               ~HasMAC(binds, r.mac) /\ (Matched(file, r.name) => Gone(file, r.name))
          /\ c.kind = "clear" => binds = <<>> /\ file.entries = <<>>
          /\ c.kind = "setDomain" => file.domain = c.domain
  <2>1. ASSUME NEW p \in Procs, pc[p] = "idle", result[p] = "ok" PROVE Complete(p)
    <3> DEFINE c == cmd[p]
               rs == ToSet(Targets(c, device[p]))
    <3>1. /\ Left(c, <<>>, hosts[p], file, binds, device[p], 0)
          /\ Unique(binds) /\ binds \in Seq(Reservations) /\ file \in FileSet
          /\ device[p] \in Seq(Reservations)
      BY <1>1, <2>1 DEF AloneInv, Alone, Live, SharedInv, TypeOK
    <3> HIDE DEF c
    <3>2. ASSUME c.kind = "add" PROVE Reserved(c.res) /\ Finds(file, c.res)
      <4>1. c.res \in ToSet(binds) /\ Finds(file, c.res)
        BY <3>1, <3>2 DEF Left, AddLeft
      <4>2. QED
        BY <3>1, <4>1, UniqueLast DEF Reserved
    <3>3. ASSUME c.kind = "rm", NEW r \in rs
          PROVE  ~HasMAC(binds, r.mac) /\ (Matched(file, r.name) => Gone(file, r.name))
      <4>1. RmLeft(rs, <<>>, hosts[p], file, binds, device[p], 0)
        BY <3>1, <3>3 DEF Left
      <4>2. ~HasMAC(binds, r.mac) /\ Silent(file, r.name)
        BY <4>1 DEF RmLeft, PutFirst
      <4>3. r \in BindSet
        BY <4>1, ReservationsOf, <3>1 DEF RmLeft, ToSet
      <4>4. r.name \in NameSet
        BY <4>3 DEF BindSet
      <4>5. QED
        BY <3>1, <4>2, <4>4, SilentGone
    <3>4. ASSUME c.kind = "clear" PROVE binds = <<>> /\ file.entries = <<>>
      BY <3>1, <3>4 DEF Left, ClearLeft, ClearSteps
    <3>5. ASSUME c.kind = "setDomain" PROVE file.domain = c.domain
      BY <3>1, <3>5 DEF Left, DomainLeft
    <3>6. QED
      BY <3>2, <3>3, <3>4, <3>5 DEF c
  <2>2. QED
    BY <2>1 DEF SuccessIsComplete, Finds
<1>2. QED
  BY <1>1, AloneInductive, PTL

\* When nothing else runs, rm and clear never delete a bind that leaves behind a name that
\* Lookup can find: the names go first, and a failure to write them ends the command.
THEOREM NamesFirstSafe ==
  ASSUME OneProcess
  PROVE  Spec => NamesGoFirst
<1> DEFINE A == \A p \in Procs : cmd[p].kind \in {"rm", "clear"} =>
       \A i \in DOMAIN binds :
         ~HasMAC(binds', binds[i].mac) /\ Matched(file, binds[i].name)
           => Gone(file, binds[i].name)
<1>1. AloneInv /\ [Next]_vars => [A]_vars
  <2> SUFFICES ASSUME AloneInv, NEW q \in Procs, Step(q), NEW p \in Procs,
                      cmd[p].kind \in {"rm", "clear"}, NEW i \in DOMAIN binds,
                      ~HasMAC(binds', binds[i].mac), Matched(file, binds[i].name)
               PROVE  Gone(file, binds[i].name)
    BY DEF Next
  <2> DEFINE c == cmd[p]
             t == todo[p]
             o == Current(p)
             b == binds[i]
  <2>1. p = q
    BY DEF OneProcess
  <2>2. HasMAC(binds, b.mac)
    BY DEF HasMAC
  <2>3. ReadyToWrite(p) /\ Written(o, hosts[p])
    BY <2>1, <2>2, RouterStep
  <2>4. SharedInv /\ Alone(p) /\ InOrder(p) /\ file \in FileSet /\ binds \in Seq(Reservations)
    BY DEF AloneInv, SharedInv, TypeOK
  <2>5. t # <<>> /\ pc[p] \in {"next", "write"}
    BY <2>3, <2>4 DEF ReadyToWrite, Busy, InOrder
  <2>6. t \in Seq(OpSet) /\ o = Head(t) /\ 1 \in DOMAIN t /\ o = t[1]
    BY <2>4, <2>5 DEF SharedInv, TypeOK, Current
  <2>7. Left(c, t, hosts[p], file, binds, device[p], errors[p])
    BY <2>4, <2>5 DEF Alone, Live
  <2>8. binds' # binds
    BY <2>2
  <2>9. o.op # "put" /\ (o.op = "delete" => binds' = Kept(binds, {x \in ToSet(binds) : x.mac # o.res.mac}))
        /\ o.op # "clearNames"
    BY <2>3, <2>8 DEF Written
  <2>10. b \in ToSet(binds)
    BY DEF ToSet
  <2>14. b.name \in NameSet
    <3>1. b \in BindSet
      BY <2>4, <2>10, ReservationsOf
    <3> HIDE DEF b
    <3>2. QED
      BY <3>1 DEF BindSet
  <2> HIDE DEF c, t, o, b
  <2>11. CASE c.kind = "rm"
    <3> DEFINE rs == ToSet(Targets(c, device[p]))
    <3>1. RmLeft(rs, t, hosts[p], file, binds, device[p], errors[p])
      BY <2>7, <2>11 DEF Left
    <3> HIDE DEF rs
    <3>2. PICK r \in rs : o.op = "delete" /\ o.res = r
      BY <2>6, <2>9, <3>1 DEF RmLeft, Deletes
    <3>3. ~PutFirst(t)
      BY <2>6, <2>9 DEF PutFirst
    <3>4. binds' = Kept(binds, {x \in ToSet(binds) : x.mac # r.mac})
      BY <2>9, <3>2
    <3>5. b.mac = r.mac
      <4>1. ASSUME b.mac # r.mac PROVE FALSE
        <5>1. b \in ToSet(binds') /\ binds' \in Seq(Reservations)
          BY <2>4, <2>10, <3>4, <4>1, KeptElements, KeptPicks
        <5>2. HasMAC(binds', b.mac)
          BY <5>1, HasMACOf
        <5>3. QED
          BY <5>2 DEF b
      <4>2. QED
        BY <4>1
    <3>6. b \in ToSet(device[p]) /\ r \in ToSet(device[p]) /\ Unique(device[p])
      BY <2>10, <3>1 DEF RmLeft
    <3>7. b = r
      BY <3>5, <3>6 DEF Unique, ToSet
    <3>8. Silent(file, b.name)
      BY <3>1, <3>2, <3>3, <3>7 DEF RmLeft
    <3>9. QED
      BY <2>4, <2>14, <3>8, SilentGone DEF b
  <2>12. CASE c.kind = "clear"
    <3>1. ClearLeft(t, file, binds)
      BY <2>7, <2>12 DEF Left
    <3>2. t # ClearSteps
      BY <2>6, <2>9 DEF ClearSteps
    <3>3. file.entries = <<>>
      BY <3>1, <3>2 DEF ClearLeft
    <3>4. Silent(file, b.name)
      BY <3>3 DEF Silent
    <3>5. QED
      BY <2>4, <2>14, <3>4, SilentGone DEF b
  <2>13. QED
    BY <2>11, <2>12 DEF c
<1>2. QED
  BY <1>1, AloneInductive, PTL DEF Spec, NamesGoFirst

\* When nothing else runs and each host is named in one way only, an import that reports
\* success leaves nothing for a second run to do, in either table, whatever earlier runs left
\* half done, except for names that Lookup cannot find, and unless it drops the name of a
\* pruned bind that its file declares (set.go).
THEOREM ConvergesSafe ==
  ASSUME OneProcess, OneSpelling
  PROVE  Spec => []ImportConverges
<1>1. ASSUME AloneInv PROVE ImportConverges
  <2> SUFFICES ASSUME NEW p \in Procs, ImportSucceeded(p), ~ReusesPrunedName(p)
               PROVE  NothingToImport(cmd[p], {r \in ToSet(cmd[p].file) : Matched(file, r.name)})
    BY DEF ImportConverges
  <2> DEFINE c == cmd[p]
             have == device[p]
  <2>1. c.kind = "import" /\ ~Reuses(c, have)
    BY DEF ImportSucceeded, ReusesPrunedName, Reuses
  <2>2. /\ Left(c, <<>>, hosts[p], file, binds, have, 0)
        /\ Unique(binds) /\ binds \in Seq(Reservations)
    BY <1>1 DEF AloneInv, Alone, Live, SharedInv, TypeOK, ImportSucceeded
  <2> HIDE DEF c, have
  <2>3. ImportLeft(c, <<>>, hosts[p], file, binds, have, 0) /\ ToSet(<<>>) = {}
    BY <2>1, <2>2 DEF Left, ToSet
  <2>4. ~Puts(<<>>)
    BY <2>3 DEF Puts
  <2>5. /\ \A r \in ToSet(c.file) : r \in ToSet(binds)
        /\ c.prune => \A b \in ToSet(binds) : HasMAC(c.file, b.mac)
        /\ \A r \in ToSet(c.file) : Finds(file, r)
    BY <2>1, <2>3, <2>4 DEF ImportLeft
  <2>6. \A r \in ToSet(c.file) : Reserved(r)
    BY <2>2, <2>5, UniqueLast DEF Reserved
  <2>7. QED
    BY <2>5, <2>6 DEF NothingToImport, Finds, c
<1>2. QED
  BY <1>1, AloneInductive, PTL

-----------------------------------------------------------------------------
(* One process: a file that is put back answers for the other names as before. *)

Clears(t) == \E o \in ToSet(t) : o.op = "clearNames"

\* In h the names that are known, that Lookup can find and that are apart from those in
\* about answer as in f.
Untouched(h, f, about) ==
  \A n \in KnownNames :
    Matched(f, n) /\ Matched(h, n) /\ Apart(f, n, about) => Lookup(h, n) = Lookup(f, n)

\* Every entry was made for a known name, and a file that waits to be put spares the names
\* its command is not about.
Spares(p) ==
  /\ Worded(hosts[p], KnownWords)
  /\ pc[p] \in {"next", "write"} /\ Puts(todo[p]) =>
       ~Clears(todo[p]) /\ Untouched(hosts[p], file, Concerned(p))

SparesInv == SharedInv /\ Worded(file, KnownWords) /\ \A p \in Procs : Spares(p)

\* What is known is a name.
LEMMA KnownWordsOf == KnownWords \subseteq NameSet /\ KnownNames \subseteq KnownWords
<1>1. ASSUME NEW r \in Reservations PROVE r.name \in NameSet
  <2>1. r \in BindSet
    BY ReservationsOf
  <2>2. QED
    BY <2>1 DEF BindSet
<1>2. \A c \in Commands : c.kind = "setName" => c.name \in NameSet
  BY CommandsAssumption
<1>3. QED
  BY <1>1, <1>2 DEF KnownWords, KnownNames

\* Setting known names keeps every entry one for a known name.
LEMMA SetNamesWorded ==
  ASSUME NEW f \in FileSet, NEW rs \in Seq(BindSet), NEW W, Worded(f, W),
         \A i \in 1 .. Len(rs) : rs[i].name \in W
  PROVE  Worded(SetNames(f, rs), W)
<1>1. PICK named : NamePrefixes(named, f, rs)
  BY SetNamesRecursion
<1> DEFINE N == Len(rs)
           P == {k \in 0 .. N : Worded(named[k], W)}
<1>2. N \in Nat /\ P \in SUBSET (0 .. N)
  OBVIOUS
<1>3. 0 \in P
  BY <1>1 DEF NamePrefixes
<1>4. ASSUME NEW k \in P, k # N PROVE k + 1 \in P
  <2>1. k + 1 \in 1 .. N /\ (k + 1) - 1 = k /\ k \in 0 .. N
    BY <1>2, <1>4
  <2> DEFINE x == named[k]
             b == rs[k+1]
  <2>2. named[k+1] = SetName(x, b.name, b.ip) /\ x \in FileSet
    BY <1>1, <2>1 DEF NamePrefixes
  <2>3. b.name \in NameSet /\ b.ip \in Nat \ {NoAddress} /\ b.name \in W
    BY <2>1, BindOf
  <2>4. Worded(x, W)
    BY <1>4
  <2> HIDE DEF x, b
  <2>5. Worded(SetName(x, b.name, b.ip), W)
    BY <2>2, <2>3, <2>4, SetWorded
  <2>6. QED
    BY <2>1, <2>2, <2>5
<1>5. N \in P
  <2> HIDE DEF P, N
  <2>1. QED
    BY <1>2, <1>3, <1>4, Induction
<1>6. QED
  BY <1>1, <1>5 DEF NamePrefixes

\* So does dropping names.
LEMMA DropNamesWorded ==
  ASSUME NEW f \in FileSet, NEW rs \in Seq(BindSet), NEW W, Worded(f, W)
  PROVE  Worded(DropNames(f, rs), W)
<1>1. PICK left : DropPrefixes(left, f, rs)
  BY DropNamesRecursion
<1> DEFINE N == Len(rs)
           P == {k \in 0 .. N : Worded(left[k], W)}
<1>2. N \in Nat /\ P \in SUBSET (0 .. N)
  OBVIOUS
<1>3. 0 \in P
  BY <1>1 DEF DropPrefixes
<1>4. ASSUME NEW k \in P, k # N PROVE k + 1 \in P
  <2>1. k + 1 \in 1 .. N /\ (k + 1) - 1 = k /\ k \in 0 .. N
    BY <1>2, <1>4
  <2> DEFINE x == left[k]
             b == rs[k+1]
  <2>2. left[k+1] = RemoveName(x, b.name) /\ x \in FileSet
    BY <1>1, <2>1 DEF DropPrefixes
  <2>3. b.name \in NameSet
    BY <2>1, BindOf
  <2>4. Worded(x, W)
    BY <1>4
  <2> HIDE DEF x, b
  <2>5. Worded(RemoveName(x, b.name), W)
    BY <2>2, <2>3, <2>4, RemoveWorded
  <2>6. QED
    BY <2>1, <2>2, <2>5
<1>5. N \in P
  <2> HIDE DEF P, N
  <2>1. QED
    BY <1>2, <1>3, <1>4, Induction
<1>6. QED
  BY <1>1, <1>5 DEF DropPrefixes

\* The file of an import spares the names it neither declares nor prunes.
LEMMA ImportedNamesSpare ==
  ASSUME NEW c \in Commands, c.kind = "import", NEW have \in Seq(Reservations),
         NEW f \in FileSet, Worded(f, KnownWords)
  PROVE  /\ Worded(ImportedNames(c, have, f), KnownWords)
         /\ \A n \in KnownNames :
              /\ Apart(f, n, {r.name : r \in ToSet(c.file)})
              /\ c.prune => Apart(f, n, {r.name : r \in ToSet(ToPrune(c.file, have))})
              => Lookup(ImportedNames(c, have, f), n) = Lookup(f, n)
<1> DEFINE want == NamesToSet(c.file, f)
           named == SetNames(f, want)
           pruned == ToPrune(c.file, have)
           gone == NamesToDrop(pruned, f)
<1>1. /\ c.file \in Seq(BindSet) /\ ToSet(c.file) \subseteq Reservations
      /\ have \in Seq(BindSet)
  BY ImportFileOf, ReservationsOf
<1>2. want \in Seq(BindSet) /\ ToSet(want) \subseteq ToSet(c.file)
  BY <1>1, KeptPicks, KeptElements DEF NamesToSet
<1>3. pruned \in Seq(BindSet)
  BY <1>1, KeptPicks DEF ToPrune
<1>4. gone \in Seq(BindSet) /\ ToSet(gone) \subseteq ToSet(pruned)
  BY <1>3, KeptPicks, KeptElements DEF NamesToDrop
<1>5. ImportedNames(c, have, f) = IF c.prune THEN DropNames(named, gone) ELSE named
  BY DEF ImportedNames
<1> HIDE DEF want, pruned, gone
<1>6. \A i \in 1 .. Len(want) : want[i] \in ToSet(c.file) /\ want[i].name \in KnownWords
  <2>1. \A r \in ToSet(c.file) : r.name \in KnownWords
    BY <1>1 DEF KnownWords, KnownNames
  <2>2. QED
    BY <1>2, <2>1, PlaceOf
<1>7. \A i \in 1 .. Len(gone) : gone[i] \in ToSet(pruned)
  BY <1>4, PlaceOf
<1>8. named \in FileSet /\ named.domain = f.domain /\ Worded(named, KnownWords)
  BY <1>2, <1>6, SetNamesOf, SetNamesWorded DEF SetNamesKept
<1>9. Worded(DropNames(named, gone), KnownWords)
  <2> HIDE DEF named
  <2>1. QED
    BY <1>4, <1>8, DropNamesWorded
<1>10. ASSUME NEW n \in KnownNames,
              Apart(f, n, {r.name : r \in ToSet(c.file)}),
              c.prune => Apart(f, n, {r.name : r \in ToSet(pruned)})
       PROVE  Lookup(ImportedNames(c, have, f), n) = Lookup(f, n)
  <2>1. n \in NameSet
    BY KnownWordsOf
  <2>2. Lookup(named, n) = Lookup(f, n)
    <3>1. \A i \in 1 .. Len(want) : BothForms(f, n) \cap Spellings(f, want[i].name) = {}
      BY <1>6, <1>10 DEF Apart
    <3> HIDE DEF named
    <3>2. QED
      BY <1>2, <2>1, <3>1, SetNamesSpares DEF named
  <2>3. c.prune => \A i \in 1 .. Len(gone) :
          BothForms(named, n) \cap BothForms(named, gone[i].name) = {}
    <3>1. c.prune => \A i \in 1 .. Len(gone) :
            BothForms(f, n) \cap Spellings(f, gone[i].name) = {}
      BY <1>7, <1>10 DEF Apart
    <3> HIDE DEF named
    <3>2. QED
      BY <1>8, <3>1, SameForms DEF Spellings
  <2> HIDE DEF named
  <2>4. c.prune => Lookup(DropNames(named, gone), n) = Lookup(named, n)
    BY <1>4, <1>8, <2>1, <2>3, DropNamesSpares
  <2>5. QED
    BY <1>5, <2>2, <2>4
<1>11. QED
  BY <1>5, <1>8, <1>9, <1>10 DEF pruned

\* A name that is no spelling of n is set or removed without n.
LEMMA EditsSpare ==
  ASSUME NEW f \in FileSet, NEW n \in NameSet, NEW m \in NameSet, Apart(f, n, {m}),
         NEW ip \in Nat \ {NoAddress}
  PROVE  /\ Lookup(SetName(f, m, ip), n) = Lookup(f, n)
         /\ Lookup(RemoveName(f, m), n) = Lookup(f, n)
<1>1. BothForms(f, n) \cap Spellings(f, m) = {} /\ BothForms(f, n) \cap BothForms(f, m) = {}
  BY DEF Apart, Spellings
<1>2. QED
  BY <1>1, SetKeepsOthers, RemoveKeepsOthers

SparingPlan(p, ops, h) ==
  /\ Worded(h, KnownWords)
  /\ Puts(ops) => ~Clears(ops) /\ Untouched(h, file, Concerned(p))

\* A plan spares the names that its command is not about.
LEMMA PlanSpares ==
  ASSUME OneSpelling, SparesInv, NEW p \in Procs, cmd[p] \in Commands, cmd[p].kind # "direct"
  PROVE  SparingPlan(p, Plan(cmd[p], device[p], file).ops, Plan(cmd[p], device[p], file).file)
<1> DEFINE c == cmd[p]
           have == device[p]
           f == file
           plan == Plan(c, have, f)
<1>1. /\ f \in FileSet /\ OneAnswer(f) /\ Worded(f, KnownWords) /\ have \in Seq(Reservations)
      /\ c \in Commands /\ c.kind \in CommandKinds /\ c.kind # "direct"
  BY CommandsAssumption DEF SparesInv, SharedInv, TypeOK, GoodFile
<1>2. Concerned(p) =
        CASE c.kind = "import" -> {r.name : r \in ToSet(c.file)}
               \cup (IF c.prune THEN {r.name : r \in ToSet(ToPrune(c.file, have))} ELSE {})
          [] c.kind = "add" -> {c.res.name}
          [] c.kind = "rm"  -> {r.name : r \in ToSet(Targets(c, have))}
          [] c.kind \in {"setName", "rmName"} -> {c.name}
          [] c.kind = "clearNames" -> KnownNames
          [] OTHER -> {}
  BY DEF Concerned
<1>3. KnownWords \subseteq NameSet /\ KnownNames \subseteq KnownWords
  BY KnownWordsOf
<1> DEFINE gone == Concerned(p)
<1> HIDE DEF c, have, f, gone
<1>4. ToSet(<<PutOp>>) = {PutOp} /\ ToSet(<<>>) = {} /\ PutOp.op = "put"
  BY DEF ToSet, PutOp
<1>5. ~Clears(<<PutOp>>) /\ ~Clears(<<>>) /\ ~Puts(<<>>)
  BY <1>4 DEF Clears, Puts
<1>6. CASE c.kind = "import"
  <2> DEFINE h == ImportedNames(c, have, f)
             t == ImportOps(c, have, f)
  <2>1. plan = [ops |-> t, file |-> h]
    BY <1>6 DEF Plan, ImportPlan
  <2>2. ImportLeft(c, t, h, f, have, have, 0)
    BY <1>1, <1>6, ImportPlanLeft
  <2>3. /\ Worded(h, KnownWords)
        /\ \A n \in KnownNames :
              /\ Apart(f, n, {r.name : r \in ToSet(c.file)})
              /\ c.prune => Apart(f, n, {r.name : r \in ToSet(ToPrune(c.file, have))})
              => Lookup(h, n) = Lookup(f, n)
    BY <1>1, <1>6, ImportedNamesSpare
  <2> HIDE DEF h, t
  <2>4. ~Clears(t)
    BY <2>2 DEF Clears, ImportLeft, Writes, Deletes
  <2>5. Untouched(h, f, gone)
    <3>1. /\ {r.name : r \in ToSet(c.file)} \subseteq gone
          /\ c.prune => {r.name : r \in ToSet(ToPrune(c.file, have))} \subseteq gone
      BY <1>2, <1>6 DEF gone
    <3>2. QED
      BY <2>3, <3>1 DEF Untouched, Apart
  <2>6. plan.ops = t /\ plan.file = h
    BY <2>1
  <2> HIDE DEF plan
  <2>7. QED
    BY <2>3, <2>4, <2>5, <2>6 DEF SparingPlan, plan, c, have, f, gone
<1>7. ASSUME NEW t, plan = PutPlan(t), Worded(t, KnownWords), Untouched(t, f, gone)
      PROVE  SparingPlan(p, plan.ops, plan.file)
  <2>1. plan.ops = <<PutOp>> /\ plan.file = t
    BY <1>7 DEF PutPlan
  <2> HIDE DEF plan
  <2>2. QED
    BY <1>5, <1>7, <2>1 DEF SparingPlan, f, gone
<1>8. CASE c.kind = "add"
  <2> DEFINE r == c.res
             h == SetName(f, r.name, r.ip)
             s == Ops(IF HasMAC(have, c.res.mac) THEN "update" ELSE "create", <<r>>)
             v == <<PutOp>>
             t == s \o v
  <2>1. r \in BindSet /\ r \in Reservations
    BY <1>1, <1>8, CommandsAssumption DEF Reservations
  <2>2. plan = [ops |-> t, file |-> h]
    BY <1>8 DEF Plan, AddPlan
  <2>3. <<r>> \in Seq(BindSet)
    BY <2>1
  <2>4. /\ \A o \in ToSet(s) : o.op \in {"create", "update"}
        /\ s \in Seq(OpSet) /\ v \in Seq(OpSet) /\ ToSet(v) = {PutOp}
    <3>1. \A o \in ToSet(s) : o.op \in {"create", "update"}
      BY <2>3, OpsOf
    <3>2. <<r>> \in Seq(Reservations) /\ \A x \in Reservations :
            [op |-> "create", res |-> x] \in OpSet /\ [op |-> "update", res |-> x] \in OpSet
      BY <2>1 DEF OpSet
    <3>3. s \in Seq(OpSet)
      BY <3>2, OpsIn
    <3>4. PutOp \in OpSet
      BY DEF PutOp, OpSet
    <3>5. QED
      BY <1>4, <3>1, <3>3, <3>4
  <2> HIDE DEF s, v
  <2>5. ToSet(t) = ToSet(s) \cup {PutOp}
    BY <2>4, ConcatOf
  <2> HIDE DEF t, r
  <2>6. ~Clears(t)
    BY <1>4, <2>4, <2>5 DEF Clears
  <2>7. r.name \in NameSet /\ r.ip \in Nat \ {NoAddress} /\ r.name \in KnownWords
    BY <1>3, <2>1 DEF BindSet, KnownNames
  <2>8. Worded(h, KnownWords)
    BY <1>1, <2>7, SetWorded
  <2>9. r.name \in gone
    BY <1>2, <1>8 DEF gone, r
  <2>10. Untouched(h, f, gone)
    BY <1>1, <1>3, <2>7, <2>9, EditsSpare DEF Untouched, Apart
  <2>11. plan.ops = t /\ plan.file = h
    BY <2>2
  <2> HIDE DEF plan, h
  <2>12. QED
    BY <2>6, <2>8, <2>10, <2>11 DEF SparingPlan, plan, c, have, f, gone
<1>9. CASE c.kind = "rm"
  <2> DEFINE rs == Targets(c, have)
             h == DropNames(f, rs)
             s1 == PutIf(NamesToDrop(rs, f) # <<>>)
             s2 == Ops("delete", rs)
             t == s1 \o s2
  <2>1. rs \in Seq(BindSet)
    BY <1>1, ReservationsOf, KeptPicks DEF Targets
  <2>2. plan = [ops |-> t, file |-> h]
    BY <1>9 DEF Plan, RmPlan
  <2>3. \A i \in 1 .. Len(rs) : rs[i].name \in gone
    <3>1. \A i \in 1 .. Len(rs) : rs[i] \in ToSet(rs)
      BY <2>1, PlaceOf
    <3>2. gone = {r.name : r \in ToSet(rs)}
      BY <1>2, <1>9 DEF gone
    <3> HIDE DEF rs
    <3>3. QED
      BY <3>1, <3>2
  <2> HIDE DEF rs
  <2>4. s1 \in Seq(OpSet) /\ s2 \in Seq(OpSet)
    <3>1. PutOp \in OpSet /\ \A r \in BindSet : [op |-> "delete", res |-> r] \in OpSet
      BY DEF PutOp, OpSet
    <3>2. QED
      BY <2>1, <3>1, PutIfIn, OpsIn
  <2>5. (\A o \in ToSet(s1) : o.op = "put") /\ (\A o \in ToSet(s2) : o.op = "delete")
    <3>1. s1 \in {<<PutOp>>, <<>>}
      BY DEF PutIf
    <3>2. QED
      BY <1>4, <2>1, <3>1, OpsOf
  <2> HIDE DEF s1, s2
  <2>6. ToSet(t) = ToSet(s1) \cup ToSet(s2)
    BY <2>4, ConcatOf
  <2> HIDE DEF t
  <2>7. ~Clears(t)
    BY <2>5, <2>6 DEF Clears
  <2>8. Worded(h, KnownWords)
    BY <1>1, <2>1, DropNamesWorded
  <2>9. Untouched(h, f, gone)
    <3> SUFFICES ASSUME NEW n \in KnownNames, Apart(f, n, gone)
                 PROVE  Lookup(h, n) = Lookup(f, n)
      BY DEF Untouched
    <3>1. \A i \in 1 .. Len(rs) : BothForms(f, n) \cap BothForms(f, rs[i].name) = {}
      BY <2>3 DEF Apart, Spellings
    <3>2. QED
      BY <1>1, <1>3, <2>1, <3>1, DropNamesSpares
  <2>10. plan.ops = t /\ plan.file = h
    BY <2>2
  <2> HIDE DEF plan, h
  <2>11. QED
    BY <2>7, <2>8, <2>9, <2>10 DEF SparingPlan, plan, c, have, f, gone
<1>10. CASE c.kind = "clear"
  <2> DEFINE t == plan.ops
  <2>1. /\ t \in {<<>>, <<[op |-> "clearNames"], [op |-> "deleteAll"]>>}
        /\ plan.file = f
    BY <1>10 DEF Plan, ClearPlan
  <2>2. ToSet(<<[op |-> "clearNames"], [op |-> "deleteAll"]>>) =
          {[op |-> "clearNames"], [op |-> "deleteAll"]}
    BY DEF ToSet
  <2>3. ~Puts(<<[op |-> "clearNames"], [op |-> "deleteAll"]>>)
    BY <2>2 DEF Puts
  <2> HIDE DEF plan
  <2>4. ~Puts(plan.ops)
    BY <1>5, <2>1, <2>3
  <2>5. QED
    BY <1>1, <2>1, <2>4 DEF SparingPlan, plan, c, have, f
<1>11. CASE c.kind = "setDomain"
  <2>1. c.domain \in Domains
    BY <1>1, <1>11, CommandsAssumption
  <2>2. plan = PutPlan(Requalify(f, c.domain))
    BY <1>11 DEF Plan
  <2>3. /\ Worded(Requalify(f, c.domain), KnownWords)
        /\ \A n \in KnownWords : Matched(f, n) /\ Matched(Requalify(f, c.domain), n) =>
             Lookup(Requalify(f, c.domain), n) = Lookup(f, n)
    BY <1>1, <1>3, <2>1, RequalifyKeepsAnswers DEF OneSpelling
  <2>4. Untouched(Requalify(f, c.domain), f, gone)
    BY <1>3, <2>3 DEF Untouched
  <2> HIDE DEF plan
  <2>5. QED
    BY <1>7, <2>2, <2>3, <2>4 DEF plan, c, have, f
<1>12. CASE c.kind = "setName"
  <2>1. /\ c.name \in NameSet /\ c.ip \in Nat \ {NoAddress} /\ c.name \in KnownWords
    BY <1>1, <1>12, CommandsAssumption DEF KnownWords
  <2>2. plan = PutPlan(SetName(f, c.name, c.ip))
    BY <1>12 DEF Plan
  <2>3. Worded(SetName(f, c.name, c.ip), KnownWords)
    BY <1>1, <2>1, SetWorded
  <2>4. c.name \in gone
    BY <1>2, <1>12 DEF gone
  <2>5. Untouched(SetName(f, c.name, c.ip), f, gone)
    BY <1>1, <1>3, <2>1, <2>4, EditsSpare DEF Untouched, Apart
  <2> HIDE DEF plan
  <2>6. QED
    BY <1>7, <2>2, <2>3, <2>5 DEF plan, c, have, f
<1>13. CASE c.kind = "rmName"
  <2>1. c.name \in NameSet
    BY <1>1, <1>13, CommandsAssumption
  <2>2. plan = PutPlan(RemoveName(f, c.name))
    BY <1>13 DEF Plan
  <2>3. Worded(RemoveName(f, c.name), KnownWords)
    BY <1>1, <2>1, RemoveWorded
  <2>4. c.name \in gone
    BY <1>2, <1>13 DEF gone
  <2>5. 1 \in Nat \ {NoAddress}
    BY DEF NoAddress
  <2>6. Untouched(RemoveName(f, c.name), f, gone)
    BY <1>1, <1>3, <2>1, <2>4, <2>5, EditsSpare DEF Untouched, Apart
  <2> HIDE DEF plan
  <2>7. QED
    BY <1>7, <2>2, <2>3, <2>6 DEF plan, c, have, f
<1>14. CASE c.kind = "clearNames"
  <2> DEFINE h == ClearNames(f)
             t == PutIf(f.entries # <<>>)
  <2>1. plan = [ops |-> t, file |-> h]
    BY <1>14 DEF Plan
  <2>2. t \in {<<PutOp>>, <<>>}
    BY DEF PutIf
  <2> HIDE DEF t
  <2>3. ~Clears(t)
    BY <1>5, <2>2
  <2>4. h.entries = <<>>
    BY <1>1, ClearNamesOf
  <2>5. Worded(h, KnownWords)
    BY <2>4 DEF Worded
  <2>6. gone = KnownNames
    BY <1>2, <1>14 DEF gone
  <2>7. Untouched(h, f, gone)
    <3>1. \A n \in KnownNames : Matched(f, n) => ~Apart(f, n, gone)
      BY <2>6 DEF Apart, Matched, Spellings
    <3>2. QED
      BY <3>1 DEF Untouched
  <2>8. plan.ops = t /\ plan.file = h
    BY <2>1
  <2> HIDE DEF plan, h
  <2>9. QED
    BY <2>3, <2>5, <2>7, <2>8 DEF SparingPlan, plan, c, have, f, gone
<1>15. QED
  BY <1>1, <1>6, <1>8, <1>9, <1>10, <1>11, <1>12, <1>13, <1>14 DEF CommandKinds, plan, c, have, f


\* What a process has left to put spares the names as the plan did.
LEMMA SparesAfter ==
  ASSUME SparesInv, NEW p \in Procs, pc[p] \in {"next", "write"},
         UNCHANGED <<cmd, device, hosts>>, ToSet(todo'[p]) \subseteq ToSet(todo[p]),
         file' \in {file, hosts[p]}
  PROVE  Spares(p)' /\ Worded(file', KnownWords)
<1>1. Spares(p) /\ Worded(file, KnownWords) /\ Worded(hosts[p], KnownWords)
  BY DEF SparesInv, Spares
<1>2. Worded(file', KnownWords)
  BY <1>1
<1>3. ASSUME Puts(todo'[p]) PROVE ~Clears(todo'[p]) /\ Untouched(hosts[p], file', Concerned(p))
  <2>1. ~Clears(todo[p]) /\ Untouched(hosts[p], file, Concerned(p))
    BY <1>1, <1>3 DEF Spares, Puts
  <2>2. ~Clears(todo'[p])
    BY <2>1 DEF Clears
  <2>3. Untouched(hosts[p], hosts[p], Concerned(p))
    BY DEF Untouched
  <2>4. QED
    BY <2>1, <2>2, <2>3
<1>4. hosts'[p] = hosts[p] /\ Concerned(p)' = Concerned(p)
  BY DEF Concerned
<1>5. QED
  BY <1>1, <1>2, <1>3, <1>4 DEF Spares

\* A process that has stopped has nothing to put.
LEMMA SparesStopped ==
  ASSUME SparesInv, NEW p \in Procs, pc'[p] \notin {"next", "write"}, UNCHANGED hosts,
         file' \in {file, hosts[p]}
  PROVE  Spares(p)' /\ Worded(file', KnownWords)
<1>1. Worded(hosts[p], KnownWords) /\ Worded(file, KnownWords)
  BY DEF SparesInv, Spares
<1>2. QED
  BY <1>1 DEF Spares

\* So does an operation that is done or has failed.
LEMMA SparesOp ==
  ASSUME SparesInv, NEW p \in Procs, pc[p] \in {"next", "write"}, todo[p] # <<>>,
         OpDone(p) \/ OpFailed(p), UNCHANGED <<cmd, device, hosts>>,
         file' \in {file, hosts[p]}
  PROVE  Spares(p)' /\ Worded(file', KnownWords)
<1>1. TypeOK /\ todo[p] \in Seq(OpSet)
  BY DEF SparesInv, SharedInv, TypeOK
<1>2. CASE End(p, "failed")
  <2>1. pc'[p] = "idle"
    BY <1>1, <1>2 DEF End, TypeOK
  <2>2. QED
    BY <2>1, SparesStopped
<1>3. CASE ~End(p, "failed")
  <2>1. todo' = [todo EXCEPT ![p] = Tail(@)]
    BY <1>3 DEF OpDone, OpFailed
  <2>2. todo'[p] = Tail(todo[p])
    BY <1>1, <2>1 DEF TypeOK
  <2>3. ToSet(Tail(todo[p])) \subseteq ToSet(todo[p])
    BY <1>1, TailOf
  <2>4. QED
    BY <2>2, <2>3, SparesAfter
<1>4. QED
  BY <1>2, <1>3

\* A step of the one process keeps what it waits to put sparing.
LEMMA SparesStep ==
  ASSUME OneSpelling, SparesInv, NEW p \in Procs, Step(p)
  PROVE  Spares(p)' /\ Worded(file', KnownWords)
<1>1. TypeOK /\ InOrder(p) /\ Spares(p) /\ Worded(file, KnownWords) /\ Worded(hosts[p], KnownWords)
  BY DEF SparesInv, SharedInv, Spares
<1>2. ASSUME NEW r, End(p, r), UNCHANGED <<file, hosts>>
      PROVE  Spares(p)' /\ Worded(file', KnownWords)
  <2>1. pc'[p] = "idle"
    BY <1>1, <1>2 DEF End, TypeOK
  <2>2. QED
    BY <1>2, <2>1, SparesStopped
<1>3. ASSUME NEW c \in Commands, Start(p, c) PROVE Spares(p)' /\ Worded(file', KnownWords)
  <2>1. UNCHANGED <<file, hosts>> /\ pc' = [pc EXCEPT ![p] = FirstStep(c)]
        /\ todo' = [todo EXCEPT ![p] = IF c.kind = "direct" THEN <<c.op>> ELSE <<>>]
    BY <1>3 DEF Start, routerVars
  <2>2. pc'[p] = FirstStep(c) /\ todo'[p] = IF c.kind = "direct" THEN <<c.op>> ELSE <<>>
    BY <1>1, <2>1 DEF TypeOK
  <2>3. CASE c.kind = "direct"
    <3> DEFINE o == c.op
    <3>1. o \in [op : {"create", "update", "delete"}, res : BindSet] \cup [op : {"deleteAll"}]
      BY <2>3, CommandsAssumption
    <3>2. todo'[p] = <<o>>
      BY <2>2, <2>3
    <3> HIDE DEF o
    <3>3. o.op # "put"
      BY <3>1
    <3>4. ToSet(<<o>>) = {o}
      BY DEF ToSet
    <3>5. ~Puts(todo'[p])
      BY <3>2, <3>3, <3>4 DEF Puts
    <3>6. QED
      BY <1>1, <2>1, <3>5 DEF Spares
  <2>4. CASE c.kind # "direct"
    <3>1. FirstStep(c) \in {"binds", "hosts"}
      BY <2>4 DEF FirstStep
    <3>2. QED
      BY <2>1, <2>2, <3>1, SparesStopped
  <2>5. QED
    BY <2>3, <2>4
<1>4. CASE ReadBinds(p)
  <2>1. UNCHANGED <<file, hosts>>
    BY <1>4 DEF ReadBinds, routerVars
  <2>2. pc'[p] \in {"idle", "hosts"}
    BY <1>1, <1>4 DEF ReadBinds, End, TypeOK
  <2>3. QED
    BY <2>1, <2>2, SparesStopped
<1>5. CASE ReadHosts(p)
  <2>1. UNCHANGED <<file, cmd, device>> /\ pc[p] = "hosts"
    BY <1>5 DEF ReadHosts, routerVars
  <2>2. CASE End(p, "failed") /\ UNCHANGED hosts
    BY <1>2, <2>1, <2>2
  <2>3. CASE ~(End(p, "failed") /\ UNCHANGED hosts)
    <3> DEFINE plan == Plan(cmd[p], device[p], file)
    <3>1. /\ hosts' = [hosts EXCEPT ![p] = plan.file] /\ todo' = [todo EXCEPT ![p] = plan.ops]
      BY <1>5, <2>3 DEF ReadHosts
    <3>2. hosts'[p] = plan.file /\ todo'[p] = plan.ops
      BY <1>1, <3>1 DEF TypeOK
    <3>3. cmd[p] \in Commands /\ cmd[p].kind # "direct"
      BY <1>1, <2>1 DEF InOrder
    <3>4. SparingPlan(p, plan.ops, plan.file)
      BY <3>3, PlanSpares
    <3>5. Concerned(p)' = Concerned(p)
      BY <2>1 DEF Concerned
    <3> HIDE DEF plan
    <3>6. QED
      BY <1>1, <2>1, <3>2, <3>4, <3>5 DEF SparingPlan, Spares
  <2>4. QED
    BY <2>2, <2>3
<1>6. CASE Finish(p)
  BY <1>2, <1>6 DEF Finish, routerVars
<1>7. CASE CheckBind(p)
  <2>1. UNCHANGED <<file, cmd, device, hosts>> /\ pc[p] = "next" /\ todo[p] # <<>>
    BY <1>7 DEF CheckBind, Busy, routerVars
  <2>2. CASE OpFailed(p)
    BY <2>1, <2>2, SparesOp
  <2>3. CASE ~OpFailed(p)
    <3>1. UNCHANGED todo
      BY <1>7, <2>3 DEF CheckBind
    <3>2. QED
      BY <2>1, <3>1, SparesAfter
  <2>4. QED
    BY <2>2, <2>3
<1>8. CASE CheckClear(p)
  <2>1. UNCHANGED <<file, cmd, device>> /\ pc[p] = "next" /\ todo[p] # <<>>
        /\ Current(p).op = "clearNames"
    BY <1>8 DEF CheckClear, Busy, routerVars
  <2>2. CASE OpDone(p) /\ UNCHANGED hosts
    BY <2>1, <2>2, SparesOp
  <2>3. CASE ~(OpDone(p) /\ UNCHANGED hosts)
    <3>1. hosts' = [hosts EXCEPT ![p] = ClearNames(file)] /\ UNCHANGED todo
      BY <1>8, <2>3 DEF CheckClear
    <3>2. hosts'[p] = ClearNames(file) /\ todo'[p] = todo[p]
      BY <1>1, <3>1 DEF TypeOK
    <3>3. ClearNames(file).entries = <<>>
      BY <1>1, ClearNamesOf DEF TypeOK
    <3>4. Worded(ClearNames(file), KnownWords)
      BY <3>3 DEF Worded
    <3>5. ~Puts(todo[p])
      <4>1. todo[p] \in Seq(OpSet)
        BY <1>1 DEF TypeOK
      <4>2. Current(p) \in ToSet(todo[p])
        BY <2>1, <4>1, TailOf DEF Current
      <4>3. Clears(todo[p])
        BY <2>1, <4>2 DEF Clears
      <4>4. QED
        BY <1>1, <2>1, <4>3 DEF Spares
    <3>6. QED
      BY <1>1, <2>1, <3>2, <3>4, <3>5 DEF Spares
  <2>4. QED
    BY <2>2, <2>3
<1>9. CASE Write(p) \/ ReplyLost(p)
  <2>1. /\ ReadyToWrite(p) /\ Written(Current(p), hosts[p]) /\ (OpDone(p) \/ OpFailed(p))
        /\ UNCHANGED <<cmd, device, hosts>>
    BY <1>9 DEF Write, ReplyLost
  <2>2. file' \in {file, hosts[p]}
    BY <2>1 DEF Written
  <2>3. pc[p] \in {"next", "write"} /\ todo[p] # <<>>
    BY <1>1, <2>1 DEF ReadyToWrite, Busy, InOrder
  <2>4. QED
    BY <2>1, <2>2, <2>3, SparesOp
<1>10. CASE ReadFails(p) \/ Interrupt(p)
  BY <1>2, <1>10 DEF ReadFails, Interrupt, routerVars
<1>11. CASE OpFails(p)
  <2>1. UNCHANGED <<file, cmd, device, hosts>> /\ OpFailed(p)
        /\ pc[p] \in {"next", "write"} /\ todo[p] # <<>>
    BY <1>1, <1>11 DEF OpFails, Busy, InOrder, routerVars
  <2>2. QED
    BY <2>1, SparesOp
<1>12. QED
  BY <1>3, <1>4, <1>5, <1>6, <1>7, <1>8, <1>9, <1>10, <1>11 DEF Step

\* With one process, a file that waits to be put always spares the other names.
LEMMA SparesInductive ==
  ASSUME OneProcess, OneSpelling
  PROVE  Spec => []SparesInv
<1>1. Init /\ SharedInv => SparesInv
  <2> SUFFICES ASSUME Init, SharedInv PROVE SparesInv
    OBVIOUS
  <2>1. Worded(EmptyFile(InitDomain), KnownWords) /\ Worded(EmptyFile(NoDomain), KnownWords)
    BY DEF EmptyFile, Worded
  <2>2. QED
    BY <2>1 DEF Init, SparesInv, Spares
<1>2. SparesInv /\ SharedInv' /\ [Next]_vars => SparesInv'
  <2> SUFFICES ASSUME SparesInv, SharedInv', [Next]_vars PROVE SparesInv'
    OBVIOUS
  <2>1. CASE UNCHANGED vars
    BY <2>1 DEF vars, SparesInv, Spares, Untouched, Apart, Concerned
  <2>2. ASSUME NEW p \in Procs, Step(p) PROVE SparesInv'
    <3>1. Spares(p)' /\ Worded(file', KnownWords)
      BY <2>2, SparesStep
    <3>2. \A q \in Procs : Spares(q)'
      BY <3>1 DEF OneProcess
    <3>3. QED
      BY <3>1, <3>2 DEF SparesInv
  <2>3. QED
    BY <2>1, <2>2 DEF Next
<1>3. QED
  BY <1>1, <1>2, SharedInductive, PTL DEF Spec

\* When nothing else runs and each host is named in one way only, writing the whole file
\* back changes the answers for the names its command is about and no others, and a change of
\* domain changes none that Lookup finds under both domains, although it rewrites every entry
\* (hosts.go: Put, SetDomain).
THEOREM OthersNamesSafe ==
  ASSUME OneProcess, OneSpelling
  PROVE  Spec => OthersNamesKept
<1> DEFINE A == \A p \in Procs : ReadyToWrite(p) /\ Current(p).op = "put" =>
       \A n \in KnownNames :
         /\ Matched(file, n) /\ Matched(file', n)
         /\ Apart(file, n, Concerned(p))
         => Lookup(file', n) = Lookup(file, n)
<1>1. SparesInv /\ [Next]_vars => [A]_vars
  <2> SUFFICES ASSUME SparesInv, NEW q \in Procs, Step(q), NEW p \in Procs,
                      ReadyToWrite(p), Current(p).op = "put", NEW n \in KnownNames,
                      Matched(file, n), Matched(file', n), Apart(file, n, Concerned(p))
               PROVE  Lookup(file', n) = Lookup(file, n)
    BY DEF Next
  <2>1. p = q
    BY DEF OneProcess
  <2>2. CASE UNCHANGED <<binds, file>>
    BY <2>2
  <2>3. CASE Written(Current(p), hosts[p])
    <3>1. file' = hosts[p]
      BY <2>3 DEF Written
    <3>2. todo[p] \in Seq(OpSet) /\ todo[p] # <<>> /\ pc[p] \in {"next", "write"} /\ Spares(p)
      BY DEF SparesInv, SharedInv, TypeOK, ReadyToWrite, Busy, InOrder
    <3>3. Current(p) \in ToSet(todo[p])
      BY <3>2, TailOf DEF Current
    <3>4. Puts(todo[p])
      BY <3>3 DEF Puts
    <3>5. QED
      BY <3>1, <3>2, <3>4 DEF Spares, Untouched
  <2>4. QED
    BY <2>1, <2>2, <2>3, RouterStep
<1>2. QED
  BY <1>1, SparesInductive, PTL DEF Spec, OthersNamesKept
=============================================================================
