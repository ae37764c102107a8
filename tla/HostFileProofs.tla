--------------------------- MODULE HostFileProofs ---------------------------
(***************************************************************************)
(* Proofs about the operators of HostFile: what the edits of the managed   *)
(* block do to the names they are about, and to those they are not.  They  *)
(* are loops, so first comes what the proofs about loops rest on, here and *)
(* in the modules for the network, the profile and the text: induction and *)
(* recursion up to a bound, and powers of two.                             *)
(***************************************************************************)
EXTENDS HostFile, FiniteSets, FiniteSetTheorems, SequenceTheorems, TLAPS

\* Induction up to a bound, by choosing a set: the principle behind every recursion here.
LEMMA Induction ==
  ASSUME NEW N \in Nat, NEW P \in SUBSET (0 .. N),
         0 \in P, \A n \in P : n # N => n + 1 \in P
  PROVE  N \in P
<1> SUFFICES ASSUME N \notin P PROVE FALSE
  OBVIOUS
<1>1. IsFiniteSet(P)
  <2>1. 0 \in Int /\ N \in Int
    OBVIOUS
  <2>2. IsFiniteSet(0 .. N)
    BY <2>1, FS_Interval
  <2>3. QED
    BY <2>2, FS_Subset
<1> DEFINE next == [n \in P |-> n + 1]
           rest == P \ {0}
<1>2. next \in Injection(P, rest)
  <2>1. next \in [P -> rest]
    OBVIOUS
  <2>2. \A m, n \in P : next[m] = next[n] => m = n
    OBVIOUS
  <2>3. QED
    BY <2>1, <2>2 DEF Injection, IsInjective
<1>3. IsFiniteSet(rest) /\ Cardinality(rest) = Cardinality(P) - 1
  BY <1>1, FS_RemoveElement
<1>4. Cardinality(P) \in Nat
  BY <1>1, FS_CardinalityType
<1> HIDE DEF next, rest
<1>5. Cardinality(P) <= Cardinality(rest)
  BY <1>2, <1>3, FS_Injection
<1>6. QED
  BY <1>3, <1>4, <1>5

Iterable(N, X, base, G) ==
  \E f \in [0 .. N -> X] : f[0] = base /\ \A i \in 1 .. N : f[i] = G[i][f[i-1]]

\* A function that is built step by step over 0 .. N exists.  What a recursive
\* definition denotes is a CHOICE: this lemma shows that there is something to choose.
LEMMA Recursion ==
  ASSUME NEW N \in Nat, NEW X, NEW base \in X, NEW G \in [1 .. N -> [X -> X]]
  PROVE  Iterable(N, X, base, G)
<1> DEFINE Done(n) == \E f \in [0 .. n -> X] : /\ f[0] = base
                                               /\ \A i \in 1 .. n : f[i] = G[i][f[i-1]]
           P == {n \in 0 .. N : Done(n)}
<1>1. Done(0)
  <2> DEFINE f == [n \in 0 .. 0 |-> base]
  <2>1. f \in [0 .. 0 -> X] /\ f[0] = base /\ \A i \in 1 .. 0 : f[i] = G[i][f[i-1]]
    OBVIOUS
  <2> HIDE DEF f
  <2>2. QED
    BY <2>1
<1>2. ASSUME NEW n \in 0 .. N, n # N, Done(n) PROVE Done(n+1)
  <2>1. PICK f \in [0 .. n -> X] : f[0] = base /\ \A i \in 1 .. n : f[i] = G[i][f[i-1]]
    BY <1>2
  <2> DEFINE g == [i \in 0 .. n+1 |-> IF i = n+1 THEN G[n+1][f[n]] ELSE f[i]]
  <2>2. n + 1 \in 1 .. N /\ f[n] \in X
    BY <1>2
  <2>3. g \in [0 .. n+1 -> X]
    BY <2>2
  <2>4. g[0] = base
    BY <2>1
  <2>5. ASSUME NEW i \in 1 .. n+1 PROVE g[i] = G[i][g[i-1]]
    <3>1. i - 1 \in 0 .. n /\ g[i-1] = f[i-1]
      OBVIOUS
    <3>2. CASE i = n+1
      <4>1. g[i] = G[n+1][f[n]] /\ i - 1 = n
        BY <3>2
      <4>2. QED
        BY <3>1, <3>2, <4>1
    <3>3. CASE i # n+1
      <4>1. i \in 1 .. n /\ g[i] = f[i]
        BY <3>3
      <4>2. QED
        BY <3>1, <4>1, <2>1
    <3>4. QED
      BY <3>2, <3>3
  <2> HIDE DEF g
  <2>6. QED
    BY <2>3, <2>4, <2>5
<1>3. N \in P
  <2> HIDE DEF Done
  <2>1. 0 \in P
    BY <1>1
  <2>2. ASSUME NEW n \in P, n # N PROVE n + 1 \in P
    <3>1. n \in 0 .. N /\ Done(n) /\ n + 1 \in 0 .. N
      BY <2>2
    <3>2. Done(n + 1)
      BY <1>2, <2>2, <3>1
    <3>3. QED
      BY <3>1, <3>2
  <2>3. P \in SUBSET (0 .. N)
    OBVIOUS
  <2> HIDE DEF P
  <2>4. QED
    BY <2>1, <2>2, <2>3, Induction
<1>4. QED
  BY <1>3 DEF Iterable

-----------------------------------------------------------------------------
(* Powers of two.                                                          *)

\* What the function that doubles from 1 on is: see Pow2 of Addresses.
Doubling(n) ==
  LET pow[k \in 0 .. n] == IF k = 0 THEN 1 ELSE 2 * pow[k-1] IN pow

\* The doubling function satisfies its equations.
LEMMA DoublingOf ==
  ASSUME NEW n \in Nat
  PROVE  /\ Doubling(n) \in [0 .. n -> Nat \ {0}]
         /\ Doubling(n)[0] = 1
         /\ \A k \in 1 .. n : Doubling(n)[k] = 2 * Doubling(n)[k-1]
<1> DEFINE X == Nat \ {0}
           G == [i \in 1 .. n |-> [x \in X |-> 2 * x]]
<1>1. Iterable(n, X, 1, G)
  <2>1. 1 \in X /\ G \in [1 .. n -> [X -> X]]
    OBVIOUS
  <2> HIDE DEF X, G
  <2>2. QED
    BY <2>1, Recursion
<1>2. PICK g \in [0 .. n -> X] : g[0] = 1 /\ \A i \in 1 .. n : g[i] = 2 * g[i-1]
  <2>1. PICK g \in [0 .. n -> X] : g[0] = 1 /\ \A i \in 1 .. n : g[i] = G[i][g[i-1]]
    BY <1>1 DEF Iterable
  <2>2. ASSUME NEW i \in 1 .. n PROVE g[i] = 2 * g[i-1]
    <3>1. i - 1 \in 0 .. n
      OBVIOUS
    <3>2. g[i-1] \in X
      BY <3>1
    <3>3. QED
      BY <2>1, <3>2
  <2> HIDE DEF G
  <2>3. QED
    BY <2>1, <2>2
<1> HIDE DEF G
<1>3. g = [k \in 0 .. n |-> IF k = 0 THEN 1 ELSE 2 * g[k-1]]
  <2>1. \A k \in 0 .. n : k = 0 \/ k \in 1 .. n
    OBVIOUS
  <2>2. QED
    BY <1>2, <2>1
<1> DEFINE pow[k \in 0 .. n] == IF k = 0 THEN 1 ELSE 2 * pow[k-1]
<1>4. pow = [k \in 0 .. n |-> IF k = 0 THEN 1 ELSE 2 * pow[k-1]]
  <2>1. \E h : h = [k \in 0 .. n |-> IF k = 0 THEN 1 ELSE 2 * h[k-1]]
    BY <1>3
  <2>2. QED
    BY <2>1, Zenon
<1>5. Doubling(n) = pow
  BY Zenon DEF Doubling
<1> HIDE DEF pow
<1>6. pow[0] = 1
  <2>1. 0 \in 0 .. n
    OBVIOUS
  <2>2. QED
    BY <2>1, <1>4, Zenon
<1>7. ASSUME NEW k \in 1 .. n PROVE pow[k] = 2 * pow[k-1]
  <2>1. k \in 0 .. n /\ k # 0
    OBVIOUS
  <2>2. QED
    BY <2>1, <1>4, Zenon
<1> DEFINE P == {k \in 0 .. n : \A j \in 0 .. k : pow[j] \in X}
<1>8. 0 \in P
  BY <1>6
<1>9. ASSUME NEW k \in P, k # n PROVE k + 1 \in P
  <2>1. k \in 0 .. n /\ k + 1 \in 1 .. n /\ (k + 1) - 1 = k
    BY <1>9
  <2>2. pow[k+1] = 2 * pow[k] /\ pow[k] \in X
    BY <1>7, <2>1
  <2>3. \A j \in 0 .. k + 1 : j \in 0 .. k \/ j = k + 1
    BY <2>1
  <2>4. \A j \in 0 .. k : pow[j] \in X
    OBVIOUS
  <2>5. pow[k+1] \in X
    BY <2>2
  <2> HIDE DEF X
  <2>6. QED
    BY <2>1, <2>3, <2>4, <2>5
<1>10. P \in SUBSET (0 .. n)
  OBVIOUS
<1>11. n \in P
  <2> HIDE DEF P
  <2>1. QED
    BY <1>8, <1>9, <1>10, Induction
<1>12. pow \in [0 .. n -> X]
  <2>1. pow = [k \in 0 .. n |-> pow[k]]
    BY <1>4, Zenon
  <2>2. \A k \in 0 .. n : pow[k] \in X
    BY <1>11
  <2> HIDE DEF X
  <2>3. QED
    BY <2>1, <2>2
<1>13. QED
  BY <1>5, <1>6, <1>7, <1>12

\* A smaller power divides a larger one.
LEMMA DoublingDivides ==
  ASSUME NEW n \in Nat, NEW m \in 0 .. n, NEW i \in m .. n
  PROVE  \E q \in Nat \ {0} : Doubling(n)[i] = q * Doubling(n)[m]
<1> DEFINE e == Doubling(n)
           P == {k \in 0 .. i : k >= m => \E q \in Nat \ {0} : e[k] = q * e[m]}
<1>1. e \in [0 .. n -> Nat \ {0}] /\ \A k \in 1 .. n : e[k] = 2 * e[k-1]
  BY DoublingOf
<1> HIDE DEF e
<1>2. e[m] \in Nat /\ e[m] = 1 * e[m]
  BY <1>1
<1>3. 0 \in P
  <2>1. 0 >= m => m = 0
    OBVIOUS
  <2>2. 0 \in 0 .. i /\ 1 \in Nat \ {0}
    OBVIOUS
  <2>3. QED
    BY <1>2, <2>1, <2>2
<1>4. ASSUME NEW k \in P, k # i PROVE k + 1 \in P
  <2>1. k \in 0 .. i /\ k + 1 \in 1 .. n /\ (k + 1) - 1 = k /\ k + 1 \in 0 .. i
    BY <1>4
  <2>2. e[k+1] = 2 * e[k]
    BY <1>1, <2>1
  <2>3. CASE k >= m
    <3>1. PICK q \in Nat \ {0} : e[k] = q * e[m]
      BY <2>3
    <3>2. e[k+1] = (2 * q) * e[m] /\ 2 * q \in Nat \ {0}
      BY <1>2, <2>2, <3>1
    <3>3. QED
      BY <2>1, <3>2
  <2>4. CASE ~(k >= m)
    <3>1. k + 1 >= m => k + 1 = m
      BY <2>1, <2>4
    <3>2. k + 1 >= m => \E q \in Nat \ {0} : e[k+1] = q * e[m]
      <4>1. 1 \in Nat \ {0}
        OBVIOUS
      <4>2. QED
        BY <1>2, <3>1, <4>1
    <3>3. QED
      BY <2>1, <3>2
  <2>5. QED
    BY <2>3, <2>4
<1>5. P \in SUBSET (0 .. i) /\ i \in Nat /\ i >= m
  OBVIOUS
<1>6. i \in P
  <2> HIDE DEF P
  <2>1. QED
    BY <1>3, <1>4, <1>5, Induction
<1>7. QED
  BY <1>5, <1>6 DEF e

-----------------------------------------------------------------------------
(* What is kept of a sequence.                                             *)

KeptPrefixes(kept, s, S, T) ==
  /\ kept \in [0 .. Len(s) -> Seq(T)]
  /\ kept[0] = <<>>
  /\ \A n \in 1 .. Len(s) :
       kept[n] = IF s[n] \in S THEN Append(kept[n-1], s[n]) ELSE kept[n-1]
  /\ Kept(s, S) = kept[Len(s)]

\* The prefixes of Kept are what its equations say.
LEMMA KeptRecursion ==
  ASSUME NEW T, NEW s \in Seq(T), NEW S
  PROVE  \E kept : KeptPrefixes(kept, s, S, T)
<1> DEFINE X == Seq(T)
           N == Len(s)
           base == <<>>
           G == [i \in 1 .. N |-> [x \in X |-> IF s[i] \in S THEN Append(x, s[i]) ELSE x]]
<1>1. N \in Nat /\ base \in X /\ G \in [1 .. N -> [X -> X]]
  <2>1. \A i \in 1 .. N : s[i] \in T
    OBVIOUS
  <2>2. QED
    BY <2>1
<1>2. \A i \in 1 .. N, x \in X : G[i][x] = IF s[i] \in S THEN Append(x, s[i]) ELSE x
  OBVIOUS
<1>3. Iterable(N, X, base, G)
  <2> HIDE DEF N, X, G, base
  <2>1. QED
    BY <1>1, Recursion
<1>4. PICK f \in [0 .. N -> X] :
        /\ f[0] = <<>>
        /\ \A i \in 1 .. N : f[i] = IF s[i] \in S THEN Append(f[i-1], s[i]) ELSE f[i-1]
  <2>1. PICK f \in [0 .. N -> X] : f[0] = base /\ \A i \in 1 .. N : f[i] = G[i][f[i-1]]
    BY <1>3 DEF Iterable
  <2> HIDE DEF G, X
  <2>2. \A i \in 1 .. N : f[i-1] \in X
    BY <1>1
  <2>3. QED
    BY <1>2, <2>1, <2>2
<1>5. f = [n \in 0 .. Len(s) |-> IF n = 0 THEN <<>>
                    ELSE IF s[n] \in S THEN Append(f[n-1], s[n]) ELSE f[n-1]]
  <2>1. \A n \in 0 .. Len(s) : n = 0 \/ n \in 1 .. Len(s)
    OBVIOUS
  <2>2. QED
    BY <1>4, <2>1
<1> HIDE DEF X, N, G, base
<1> DEFINE kept[n \in 0 .. Len(s)] ==
        IF n = 0 THEN <<>>
        ELSE IF s[n] \in S THEN Append(kept[n-1], s[n]) ELSE kept[n-1]
<1>6. kept = [n \in 0 .. Len(s) |-> IF n = 0 THEN <<>>
                    ELSE IF s[n] \in S THEN Append(kept[n-1], s[n]) ELSE kept[n-1]]
  <2>1. \E g : g = [n \in 0 .. Len(s) |-> IF n = 0 THEN <<>>
                    ELSE IF s[n] \in S THEN Append(g[n-1], s[n]) ELSE g[n-1]]
    BY <1>5
  <2>2. QED
    BY <2>1, Zenon
<1>7. Kept(s, S) = kept[Len(s)]
  BY Zenon DEF Kept
<1> HIDE DEF kept
<1>8. kept[0] = <<>>
  <2>1. 0 \in 0 .. Len(s)
    OBVIOUS
  <2>2. QED
    BY <2>1, <1>6, Zenon
<1>9. ASSUME NEW n \in 1 .. Len(s)
      PROVE  kept[n] = IF s[n] \in S THEN Append(kept[n-1], s[n]) ELSE kept[n-1]
  <2>1. n \in 0 .. Len(s) /\ n # 0
    OBVIOUS
  <2>2. QED
    BY <2>1, <1>6, Zenon
<1>10. kept[Len(s)] = f[Len(s)]
  <2> DEFINE P == {n \in 0 .. Len(s) : kept[n] = f[n]}
  <2>1. 0 \in P
    BY <1>4, <1>8
  <2>2. ASSUME NEW n \in P, n # Len(s) PROVE n + 1 \in P
    <3>1. n + 1 \in 1 .. Len(s) /\ (n + 1) - 1 = n
      BY <2>2
    <3>2. QED
      BY <3>1, <1>9, <1>4 DEF N
  <2>3. P \in SUBSET (0 .. Len(s)) /\ Len(s) \in Nat
    OBVIOUS
  <2> HIDE DEF P
  <2>4. Len(s) \in P
    BY <2>1, <2>2, <2>3, Induction
  <2>5. QED
    BY <2>4 DEF P
<1>11. QED
  BY <1>4, <1>7, <1>10 DEF N, X, KeptPrefixes

Picks(g, s, S, k, n) ==
  /\ g \in [1 .. Len(k) -> 1 .. n]
  /\ \A a, b \in 1 .. Len(k) : a < b => g[a] < g[b]
  /\ \A a \in 1 .. Len(k) : k[a] = s[g[a]] /\ s[g[a]] \in S
  /\ \A i \in 1 .. n : s[i] \in S => \E a \in 1 .. Len(k) : g[a] = i

\* One more element of s, kept or not, and the positions still pick what is kept.
LEMMA PicksNext ==
  ASSUME NEW T, NEW s \in Seq(T), NEW S, NEW n \in 0 .. Len(s), n # Len(s),
         NEW k \in Seq(T), NEW kk, kk = IF s[n+1] \in S THEN Append(k, s[n+1]) ELSE k,
         NEW g, Picks(g, s, S, k, n)
  PROVE  \E h : Picks(h, s, S, kk, n+1)
<1>1. CASE s[n+1] \in S
  <2> DEFINE m == Len(k) + 1
             h == [a \in 1 .. m |-> IF a = m THEN n+1 ELSE g[a]]
  <2>0. n + 1 \in 1 .. Len(s) /\ s[n+1] \in T /\ n \in Nat /\ Len(k) \in Nat
    OBVIOUS
  <2>1. /\ Len(kk) = m /\ kk[m] = s[n+1]
        /\ \A a \in 1 .. Len(k) : kk[a] = k[a]
        /\ \A a \in 1 .. m : a # m => a \in 1 .. Len(k)
        /\ \A a \in 1 .. Len(k) : a \in 1 .. m /\ a # m
    BY <1>1, <2>0
  <2>2. \A a \in 1 .. Len(k) : g[a] \in 1 .. n
    BY DEF Picks
  <2>3. h[m] = n + 1 /\ \A a \in 1 .. Len(k) : h[a] = g[a]
    BY <2>0, <2>1
  <2>4. h \in [1 .. m -> 1 .. n+1] /\ \A a \in 1 .. Len(k) : h[a] < n + 1
    BY <2>0, <2>1, <2>2
  <2>5. m \in 1 .. m
    BY <2>0
  <2> HIDE DEF m, h
  <2>6. \A a, b \in 1 .. m : a < b => h[a] < h[b]
    <3> SUFFICES ASSUME NEW a \in 1 .. m, NEW b \in 1 .. m, a < b PROVE h[a] < h[b]
      OBVIOUS
    <3>1. a \in 1 .. Len(k)
      BY <2>0, <2>1 DEF m
    <3>2. b = m \/ b \in 1 .. Len(k)
      BY <2>1
    <3>3. QED
      BY <3>1, <3>2, <2>3, <2>4 DEF Picks
  <2>7. \A a \in 1 .. m : kk[a] = s[h[a]] /\ s[h[a]] \in S
    BY <1>1, <2>1, <2>3 DEF Picks
  <2>8. \A i \in 1 .. n+1 : s[i] \in S => \E a \in 1 .. m : h[a] = i
    <3> SUFFICES ASSUME NEW i \in 1 .. n+1, s[i] \in S PROVE \E a \in 1 .. m : h[a] = i
      OBVIOUS
    <3>1. i = n + 1 \/ i \in 1 .. n
      OBVIOUS
    <3>2. QED
      BY <3>1, <2>1, <2>3, <2>5 DEF Picks
  <2>9. Picks(h, s, S, kk, n+1)
    BY <2>1, <2>4, <2>6, <2>7, <2>8 DEF Picks
  <2>10. QED
    BY <2>9
<1>2. CASE s[n+1] \notin S
  <2>1. kk = k
    BY <1>2
  <2>2. \A i \in 1 .. n+1 : i = n + 1 \/ i \in 1 .. n
    OBVIOUS
  <2>3. g \in [1 .. Len(k) -> 1 .. n+1]
    BY DEF Picks
  <2>4. \A i \in 1 .. n+1 : s[i] \in S => \E a \in 1 .. Len(k) : g[a] = i
    BY <1>2, <2>2 DEF Picks
  <2>5. Picks(g, s, S, kk, n+1)
    BY <2>1, <2>3, <2>4 DEF Picks
  <2>6. QED
    BY <2>5
<1>3. QED
  BY <1>1, <1>2

\* Kept(s, S) is a subsequence of s: positions in rising order, every one of an element in S.
THEOREM KeptPicks ==
  ASSUME NEW T, NEW s \in Seq(T), NEW S
  PROVE  /\ Kept(s, S) \in Seq(T)
         /\ \E g : Picks(g, s, S, Kept(s, S), Len(s))
<1>1. PICK kept : KeptPrefixes(kept, s, S, T)
  BY KeptRecursion
<1> DEFINE P == {n \in 0 .. Len(s) : \E g : Picks(g, s, S, kept[n], n)}
<1>2. 0 \in P
  <2>1. [a \in {} |-> 0] \in [1 .. 0 -> 1 .. 0]
    OBVIOUS
  <2>2. Len(kept[0]) = 0
    BY <1>1 DEF KeptPrefixes
  <2> HIDE DEF P
  <2>3. Picks([a \in {} |-> 0], s, S, kept[0], 0)
    BY <2>1, <2>2 DEF Picks
  <2>4. QED
    BY <2>3 DEF P
<1>3. ASSUME NEW n \in P, n # Len(s) PROVE n + 1 \in P
  <2>1. PICK g : Picks(g, s, S, kept[n], n)
    OBVIOUS
  <2>2. n \in 0 .. Len(s) /\ n + 1 \in 1 .. Len(s) /\ (n + 1) - 1 = n
    BY <1>3
  <2>3. kept[n] \in Seq(T) /\ kept[n+1] = IF s[n+1] \in S THEN Append(kept[n], s[n+1]) ELSE kept[n]
    BY <1>1, <2>2 DEF KeptPrefixes
  <2> HIDE DEF P
  <2>4. \E h : Picks(h, s, S, kept[n+1], n+1)
    BY <1>3, <2>1, <2>2, <2>3, PicksNext
  <2>5. QED
    BY <2>2, <2>4 DEF P
<1>4. P \in SUBSET (0 .. Len(s)) /\ Len(s) \in Nat
  OBVIOUS
<1>5. Len(s) \in P
  <2> HIDE DEF P
  <2>1. QED
    BY <1>2, <1>3, <1>4, Induction
<1>6. Kept(s, S) \in Seq(T) /\ Kept(s, S) = kept[Len(s)]
  BY <1>1, <1>4 DEF KeptPrefixes
<1>7. QED
  BY <1>5, <1>6

\* As a set, Kept(s, S) is the elements of s that are in S.
THEOREM KeptElements ==
  ASSUME NEW T, NEW s \in Seq(T), NEW S
  PROVE  ToSet(Kept(s, S)) = ToSet(s) \cap S
<1>1. Kept(s, S) \in Seq(T)
  BY KeptPicks
<1>2. PICK g : Picks(g, s, S, Kept(s, S), Len(s))
  BY KeptPicks
<1>3. DOMAIN s = 1 .. Len(s) /\ DOMAIN Kept(s, S) = 1 .. Len(Kept(s, S))
  BY <1>1
<1>4. QED
  BY <1>2, <1>3 DEF Picks, ToSet

\* Keeping every element keeps the sequence.
LEMMA KeptAll ==
  ASSUME NEW T, NEW s \in Seq(T), NEW S, ToSet(s) \subseteq S
  PROVE  Kept(s, S) = s
<1>1. PICK kept : KeptPrefixes(kept, s, S, T)
  BY KeptRecursion
<1> DEFINE N == Len(s)
           P == {n \in 0 .. N : kept[n] = SubSeq(s, 1, n)}
<1>2. N \in Nat /\ P \in SUBSET (0 .. N)
  OBVIOUS
<1>3. 0 \in P
  <2>1. SubSeq(s, 1, 0) = <<>>
    OBVIOUS
  <2>2. QED
    BY <1>1, <1>2, <2>1 DEF KeptPrefixes
<1>4. ASSUME NEW n \in P, n # N PROVE n + 1 \in P
  <2>1. n + 1 \in 1 .. N /\ (n + 1) - 1 = n /\ s[n+1] \in S
    BY <1>2, <1>4 DEF ToSet
  <2>2. kept[n+1] = Append(SubSeq(s, 1, n), s[n+1])
    BY <1>1, <1>4, <2>1 DEF KeptPrefixes
  <2>3. SubSeq(s, 1, n+1) = Append(SubSeq(s, 1, n), s[n+1])
    BY <2>1
  <2>4. QED
    BY <2>1, <2>2, <2>3
<1>5. N \in P
  <2> HIDE DEF P, N
  <2>1. QED
    BY <1>2, <1>3, <1>4, Induction
<1>6. SubSeq(s, 1, N) = s
  OBVIOUS
<1>7. QED
  BY <1>1, <1>5, <1>6 DEF KeptPrefixes

-----------------------------------------------------------------------------

\* What is before the domain of a name, and what is left of it when the domain goes.
LEMMA StemOf ==
  ASSUME NEW f \in FileSet, NEW n \in NameSet
  PROVE  /\ UnderDomain(f, n) =>
              /\ Stem(f, n) \in Seq(STRING) /\ Stem(f, n) # <<>>
              /\ Len(Stem(f, n)) = Len(n.labels) - Len(f.domain)
              /\ n.labels = Stem(f, n) \o f.domain
              /\ Stem(f, n)[1] = n.labels[1]
         /\ f.domain # NoDomain =>
              LET full == [labels |-> n.labels \o f.domain] IN
                /\ full \in NameSet /\ UnderDomain(f, full) /\ Stem(f, full) = n.labels
                /\ full.labels[1] = n.labels[1] /\ Len(full.labels) > 1 /\ full # n
<1> DEFINE D == f.domain
           L == n.labels
<1>1. D \in Seq(STRING) /\ L \in Seq(STRING) /\ L # <<>> /\ Len(L) \in Nat /\ Len(D) \in Nat /\ Len(L) > 0
      /\ n = [labels |-> L]
  BY DEF FileSet, NameSet, Domains
<1>2. ASSUME UnderDomain(f, n)
      PROVE  /\ Stem(f, n) \in Seq(STRING) /\ Stem(f, n) # <<>>
             /\ Len(Stem(f, n)) = Len(L) - Len(D) /\ L = Stem(f, n) \o D
             /\ Stem(f, n)[1] = L[1]
  <2>1. Len(L) > Len(D) /\ L = Stem(f, n) \o D /\ Stem(f, n) = SubSeq(L, 1, Len(L) - Len(D))
    BY <1>2 DEF UnderDomain, Stem
  <2> HIDE DEF L, D
  <2> DEFINE k == Len(L) - Len(D)
  <2>2. k \in Nat /\ 1 <= k /\ k <= Len(L) /\ \A i \in 1 .. k : L[i] \in STRING
    BY <1>1, <2>1
  <2> HIDE DEF k
  <2>6. /\ SubSeq(L, 1, k) \in Seq(STRING) /\ Len(SubSeq(L, 1, k)) = k
        /\ SubSeq(L, 1, k)[1] = L[1]
    BY <1>1, <2>2
  <2>3. /\ Stem(f, n) \in Seq(STRING) /\ Len(Stem(f, n)) = Len(L) - Len(D)
        /\ Stem(f, n)[1] = L[1]
    BY <2>1, <2>6 DEF k
  <2>4. Stem(f, n) # <<>>
    BY <1>1, <2>1, <2>3
  <2>5. QED
    BY <2>1, <2>3, <2>4
<1>3. ASSUME D # NoDomain, NEW full, full = [labels |-> L \o D]
      PROVE  /\ full \in NameSet /\ UnderDomain(f, full) /\ Stem(f, full) = L
             /\ full.labels[1] = L[1] /\ Len(full.labels) > 1 /\ full # n
  <2> HIDE DEF L
  <2>1. full.labels = L \o D
    BY <1>3
  <2>2. Len(D) > 0
    BY <1>1, <1>3 DEF NoDomain
  <2> HIDE DEF D
  <2>3. /\ L \o D \in Seq(STRING) /\ Len(L \o D) = Len(L) + Len(D)
        /\ \A i \in 1 .. Len(L) : (L \o D)[i] = L[i]
    BY <1>1, ConcatProperties
  <2>4. SubSeq(L \o D, 1, Len(L)) = L
    <3>1. SubSeq(L \o D, 1, Len(L)) = SubSeq(L, 1, Len(L))
      BY <1>1, SubSeqOfConcat1
    <3>2. QED
      BY <1>1, <3>1, SubSeqFull
  <2>5. Len(L \o D) - Len(D) = Len(L) /\ Len(L \o D) > Len(D) /\ Len(L \o D) > 1 /\ L \o D # <<>>
    BY <1>1, <2>2, <2>3
  <2>6. Stem(f, full) = L
    BY <2>1, <2>4, <2>5 DEF Stem, D
  <2>7. UnderDomain(f, full)
    BY <1>3, <2>1, <2>5, <2>6 DEF UnderDomain, D
  <2>8. full \in NameSet /\ full # n
    BY <1>1, <1>3, <2>2, <2>3, <2>5 DEF NameSet
  <2>9. QED
    BY <1>1, <2>1, <2>3, <2>5, <2>6, <2>7, <2>8
<1> HIDE DEF D, L
<1>4. QED
  BY <1>2, <1>3 DEF D, L

\* The spellings of a name are one class: whichever of them is given, the same two come
\* out.  The exception are the names that are not Matched, which are in no such class.
LEMMA FormsOf ==
  ASSUME NEW f \in FileSet, NEW n \in NameSet
  PROVE  /\ BothForms(f, n) \subseteq NameSet /\ FQDN(f, n) \in NameSet
         /\ \A m \in BothForms(f, n) : FQDN(f, m) \in BothForms(f, n)
         /\ Matched(f, n) =>
              /\ n \in BothForms(f, n) /\ FQDN(f, n) \in BothForms(f, n)
              /\ Spellings(f, n) = BothForms(f, n)
              /\ \A m \in BothForms(f, n) : BothForms(f, m) = BothForms(f, n) /\ Matched(f, m)
         /\ ~Matched(f, n) => FQDN(f, n) = n /\ n \notin BothForms(f, n)
<1> DEFINE Class ==
      /\ n \in BothForms(f, n) /\ FQDN(f, n) \in BothForms(f, n)
      /\ \A m \in BothForms(f, n) : BothForms(f, m) = BothForms(f, n)
           Good == /\ BothForms(f, n) \subseteq NameSet /\ FQDN(f, n) \in NameSet
                   /\ \A m \in BothForms(f, n) : FQDN(f, m) \in BothForms(f, n)
<1>1. f.domain \in Seq(STRING) /\ n.labels \in Seq(STRING) /\ n.labels # <<>>
      /\ Len(n.labels) \in Nat /\ Len(f.domain) \in Nat /\ n = [labels |-> n.labels]
  BY DEF FileSet, NameSet, Domains
<1> DEFINE full == [labels |-> n.labels \o f.domain]
           stem == [labels |-> Stem(f, n)]
<1>2. CASE f.domain = NoDomain
  <2>1. \A m : BothForms(f, m) = {m} /\ FQDN(f, m) = m
    BY <1>2 DEF BothForms, FQDN, Trimmed, UnderDomain
  <2>2. Good /\ Class
    BY <2>1
  <2>3. QED
    BY <2>2 DEF Matched, Spellings
<1>3. CASE f.domain # NoDomain /\ ~UnderDomain(f, n) /\ Len(n.labels) > 1
  <2>1. FQDN(f, n) = n /\ BothForms(f, n) = {n}
    BY <1>3 DEF BothForms, FQDN, Trimmed
  <2>2. Good /\ Class
    BY <2>1
  <2>3. QED
    BY <2>2 DEF Matched, Spellings
<1>4. CASE f.domain # NoDomain /\ ~UnderDomain(f, n) /\ ~(Len(n.labels) > 1)
  <2>1. full \in NameSet /\ UnderDomain(f, full) /\ Stem(f, full) = n.labels /\ Len(full.labels) > 1
    BY <1>4, StemOf
  <2>2. FQDN(f, n) = full /\ Trimmed(f, n) = n /\ FQDN(f, full) = full
    BY <1>4, <2>1 DEF FQDN, Trimmed
  <2>3. Trimmed(f, full) = n
    BY <1>1, <2>1 DEF Trimmed
  <2> HIDE DEF full
  <2>4. BothForms(f, n) = {n, full} /\ BothForms(f, full) = {n, full}
    BY <2>2, <2>3 DEF BothForms
  <2>5. Good /\ Class
    BY <2>1, <2>2, <2>4
  <2>6. QED
    BY <2>5 DEF Matched, Spellings
<1>5. CASE f.domain # NoDomain /\ UnderDomain(f, n)
  <2> HIDE DEF Good, Class
  <2>1. /\ Stem(f, n) \in Seq(STRING) /\ Stem(f, n) # <<>> /\ Len(Stem(f, n)) \in Nat
        /\ Len(Stem(f, n)) = Len(n.labels) - Len(f.domain)
        /\ n.labels = Stem(f, n) \o f.domain
    <3>1. /\ Stem(f, n) \in Seq(STRING) /\ Stem(f, n) # <<>>
          /\ Len(Stem(f, n)) = Len(n.labels) - Len(f.domain)
          /\ n.labels = Stem(f, n) \o f.domain
      BY <1>5, StemOf
    <3>2. QED
      BY <3>1
  <2>2. stem \in NameSet /\ Trimmed(f, n) = stem /\ stem.labels = Stem(f, n)
    BY <1>5, <2>1 DEF NameSet, Trimmed
  <2>3. Len(f.domain) > 0 /\ Len(n.labels) > 1 /\ FQDN(f, n) = n
    <3>1. Len(f.domain) > 0
      BY <1>1, <1>5 DEF NoDomain
    <3>2. Len(n.labels) > Len(f.domain)
      BY <1>5 DEF UnderDomain
    <3>3. QED
      BY <1>1, <3>1, <3>2 DEF FQDN
  <2> HIDE DEF stem
  <2>4. CASE ~(Len(Stem(f, n)) > 1)
    <3>1. FQDN(f, stem) = n
      BY <1>1, <1>5, <2>1, <2>2, <2>4 DEF FQDN
    <3>2. ~UnderDomain(f, stem)
      BY <2>1, <2>2, <2>3, <2>4, <1>1 DEF UnderDomain
    <3>3. BothForms(f, n) = {stem, n} /\ BothForms(f, stem) = {stem, n}
      BY <2>2, <3>1, <3>2 DEF BothForms, Trimmed
    <3>4. Good /\ Class
      BY <2>2, <2>3, <3>1, <3>3 DEF Good, Class
    <3>5. QED
      BY <3>4 DEF Good, Class, Matched, Spellings
  <2>5. CASE Len(Stem(f, n)) > 1
    <3>1. FQDN(f, stem) = stem
      BY <2>2, <2>5 DEF FQDN
    <3>2. BothForms(f, n) = {stem}
      BY <2>2, <3>1 DEF BothForms
    <3>3. stem # n
      BY <1>1, <2>1, <2>2, <2>3
    <3>4. QED
      BY <2>2, <2>3, <3>1, <3>2, <3>3 DEF Matched, Spellings
  <2>6. QED
    BY <2>4, <2>5
<1>6. QED
  BY <1>2, <1>3, <1>4, <1>5

\* A name that is not Matched is a form of no name that is.
LEMMA UnmatchedAlone ==
  ASSUME NEW f \in FileSet, NEW n \in NameSet, ~Matched(f, n), NEW m \in NameSet, Matched(f, m)
  PROVE  n \notin BothForms(f, m)
BY FormsOf

\* The spellings depend on the domain of the file alone.
LEMMA SameForms ==
  ASSUME NEW f, NEW r, r.domain = f.domain, NEW m
  PROVE  /\ BothForms(r, m) = BothForms(f, m) /\ Spellings(r, m) = Spellings(f, m)
         /\ FQDN(r, m) = FQDN(f, m)
         /\ Matched(r, m) <=> Matched(f, m)
<1>1. BothForms(r, m) = BothForms(f, m) /\ FQDN(r, m) = FQDN(f, m)
  BY DEF BothForms, FQDN, Trimmed, UnderDomain, Stem
<1>2. QED
  BY <1>1 DEF Spellings, Matched

Thins(g, r, f, gone) ==
  /\ g \in [DOMAIN r.entries -> DOMAIN f.entries]
  /\ \A a, b \in DOMAIN r.entries : a < b => g[a] < g[b]
  /\ \A a \in DOMAIN r.entries :
       /\ r.entries[a].ip = f.entries[g[a]].ip
       /\ ToSet(r.entries[a].names) = ToSet(f.entries[g[a]].names) \ gone
       /\ ToSet(f.entries[g[a]].names) \cap gone = {} =>
            r.entries[a].names = f.entries[g[a]].names
  /\ \A i \in DOMAIN f.entries :
       ToSet(f.entries[i].names) \ gone # {} => \E a \in DOMAIN r.entries : g[a] = i

LooseEntrySet == [ip : Nat \ {NoAddress}, names : Seq(NameSet)]

StripsTo(s, f, gone) ==
  /\ s \in Seq(LooseEntrySet)
  /\ Len(s) = Len(f.entries)
  /\ \A i \in DOMAIN f.entries :
       /\ s[i].ip = f.entries[i].ip
       /\ ToSet(s[i].names) = ToSet(f.entries[i].names) \ gone
       /\ ToSet(f.entries[i].names) \cap gone = {} => s[i].names = f.entries[i].names

\* Stripping names leaves addresses and order alone and takes exactly those names.
LEMMA StrippedOf ==
  ASSUME NEW f \in FileSet, NEW gone
  PROVE  StripsTo(Stripped(f, gone), f, gone)
<1> DEFINE E == f.entries
           K(i) == Kept(E[i].names, ToSet(E[i].names) \ gone)
<1>1. E \in Seq(EntrySet) /\ Len(E) \in Nat /\ DOMAIN E = 1 .. Len(E)
  BY DEF FileSet
<1>2. ASSUME NEW i \in DOMAIN E
      PROVE  /\ E[i].ip \in Nat \ {NoAddress} /\ E[i].names \in Seq(NameSet)
             /\ K(i) \in Seq(NameSet)
             /\ ToSet(K(i)) = ToSet(E[i].names) \ gone
             /\ ToSet(E[i].names) \cap gone = {} => K(i) = E[i].names
             /\ [E[i] EXCEPT !.names = K(i)] = [ip |-> E[i].ip, names |-> K(i)]
  <2>1. E[i] \in EntrySet
    BY <1>1
  <2>2. E[i].ip \in Nat \ {NoAddress} /\ E[i].names \in Seq(NameSet)
    BY <2>1 DEF EntrySet
  <2>3. K(i) \in Seq(NameSet)
    BY <2>2, KeptPicks
  <2>4. ToSet(K(i)) = ToSet(E[i].names) \cap (ToSet(E[i].names) \ gone)
    BY <2>2, KeptElements
  <2>7. ToSet(E[i].names) \cap gone = {} => K(i) = E[i].names
    <3>1. ToSet(E[i].names) \cap gone = {} => ToSet(E[i].names) \subseteq ToSet(E[i].names) \ gone
      OBVIOUS
    <3>2. QED
      BY <2>2, <3>1, KeptAll
  <2> HIDE DEF K, E
  <2>5. [E[i] EXCEPT !.names = K(i)] = [ip |-> E[i].ip, names |-> K(i)]
    BY <2>1 DEF EntrySet
  <2>6. QED
    BY <2>2, <2>3, <2>4, <2>5, <2>7
<1>3. Stripped(f, gone) = [i \in DOMAIN E |-> [ip |-> E[i].ip, names |-> K(i)]]
  BY <1>2 DEF Stripped
<1> HIDE DEF E, K
<1>4. \A i \in DOMAIN E : Stripped(f, gone)[i] = [ip |-> E[i].ip, names |-> K(i)]
  BY <1>3
<1>5. \A i \in DOMAIN E : [ip |-> E[i].ip, names |-> K(i)] \in LooseEntrySet
  BY <1>2 DEF LooseEntrySet
<1>6. Stripped(f, gone) \in [1 .. Len(E) -> LooseEntrySet]
  BY <1>1, <1>3, <1>5
<1>7. Stripped(f, gone) \in Seq(LooseEntrySet) /\ Len(Stripped(f, gone)) = Len(E)
  BY <1>1, <1>6
<1>8. \A i \in DOMAIN E : /\ Stripped(f, gone)[i].ip = E[i].ip
                          /\ ToSet(Stripped(f, gone)[i].names) = ToSet(E[i].names) \ gone
                          /\ ToSet(E[i].names) \cap gone = {} =>
                               Stripped(f, gone)[i].names = E[i].names
  <2> SUFFICES ASSUME NEW i \in DOMAIN E
               PROVE  /\ Stripped(f, gone)[i].ip = E[i].ip
                      /\ ToSet(Stripped(f, gone)[i].names) = ToSet(E[i].names) \ gone
                      /\ ToSet(E[i].names) \cap gone = {} =>
                           Stripped(f, gone)[i].names = E[i].names
    OBVIOUS
  <2> DEFINE e == [ip |-> E[i].ip, names |-> K(i)]
  <2>1. e.ip = E[i].ip /\ e.names = K(i)
    OBVIOUS
  <2>2. Stripped(f, gone)[i] = e
    BY <1>4
  <2> HIDE DEF e
  <2>3. Stripped(f, gone)[i].ip = E[i].ip /\ Stripped(f, gone)[i].names = K(i)
    BY <2>1, <2>2
  <2>4. QED
    BY <1>2, <2>3
<1>9. QED
  BY <1>7, <1>8 DEF E, StripsTo

\* A sequence is empty iff it has no elements.
LEMMA NoElements ==
  ASSUME NEW T, NEW s \in Seq(T)
  PROVE  s = <<>> <=> ToSet(s) = {}
<1>1. DOMAIN s = 1 .. Len(s) /\ Len(s) \in Nat
  OBVIOUS
<1>2. ASSUME ToSet(s) = {} PROVE s = <<>>
  <2>1. \A i \in DOMAIN s : s[i] \in ToSet(s)
    BY DEF ToSet
  <2>2. 1 \notin DOMAIN s
    BY <1>2, <2>1
  <2>3. Len(s) = 0
    BY <1>1, <2>2
  <2>4. QED
    BY <2>3
<1>3. ASSUME s = <<>> PROVE ToSet(s) = {}
  BY <1>3 DEF ToSet
<1>4. QED
  BY <1>2, <1>3

\* Remove leaves some of the entries, in their order, without the spellings of the name,
\* and drops an entry only if nothing else was in it (HostFile.Remove).
LEMMA RemoveThins ==
  ASSUME NEW f \in FileSet, NEW n \in NameSet
  PROVE  /\ RemoveName(f, n) \in FileSet
         /\ RemoveName(f, n).domain = f.domain
         /\ \E g : Thins(g, RemoveName(f, n), f, BothForms(f, n))
<1> DEFINE gone == BothForms(f, n)
           s == Stripped(f, gone)
           S == {e \in ToSet(s) : e.names # <<>>}
           k == Kept(s, S)
           r == RemoveName(f, n)
<1>1. StripsTo(s, f, gone)
  BY StrippedOf
<1>2. f \in [domain : Domains, entries : Seq(EntrySet)]
  BY DEF FileSet
<1>3. r = [domain |-> f.domain, entries |-> k]
  BY <1>2 DEF RemoveName
<1> HIDE DEF s, gone, k, r
<1>4. k \in Seq(LooseEntrySet) /\ Len(k) \in Nat
  BY <1>1, KeptPicks DEF k, StripsTo
<1>5. PICK g : Picks(g, s, S, k, Len(s))
  BY <1>1, KeptPicks DEF k, StripsTo
<1>6. DOMAIN f.entries = 1 .. Len(s) /\ DOMAIN s = 1 .. Len(s) /\ DOMAIN k = 1 .. Len(k)
  BY <1>1, <1>2, <1>4 DEF StripsTo
<1>7. ASSUME NEW a \in DOMAIN k
      PROVE  k[a] \in EntrySet /\ k[a] = s[g[a]] /\ g[a] \in DOMAIN f.entries
  <2>1. k[a] \in LooseEntrySet
    BY <1>4, <1>6
  <2>2. k[a] = s[g[a]] /\ s[g[a]] \in S /\ g[a] \in 1 .. Len(s)
    BY <1>5, <1>6 DEF Picks
  <2>3. k[a].names # <<>>
    BY <2>2
  <2>4. QED
    BY <1>6, <2>1, <2>2, <2>3 DEF LooseEntrySet, EntrySet
<1>8. k \in Seq(EntrySet)
  <2>1. k \in [1 .. Len(k) -> EntrySet]
    BY <1>4, <1>6, <1>7
  <2>2. QED
    BY <1>4, <2>1
<1>9. ASSUME NEW i \in DOMAIN f.entries, ToSet(f.entries[i].names) \ gone # {}
      PROVE  \E a \in DOMAIN k : g[a] = i
  <2>1. s[i] \in LooseEntrySet /\ ToSet(s[i].names) # {}
    BY <1>1, <1>6, <1>9 DEF StripsTo
  <2>2. s[i].names # <<>>
    BY <2>1, NoElements DEF LooseEntrySet
  <2>3. s[i] \in S
    BY <1>6, <2>2 DEF ToSet
  <2>4. QED
    BY <1>5, <1>6, <2>3 DEF Picks
<1>10. Thins(g, r, f, gone)
  <2>1. r.entries = k
    BY <1>3
  <2>2. g \in [DOMAIN k -> DOMAIN f.entries]
    BY <1>5, <1>6 DEF Picks
  <2>3. \A a, b \in DOMAIN k : a < b => g[a] < g[b]
    BY <1>5, <1>6 DEF Picks
  <2>4. \A a \in DOMAIN k : /\ k[a].ip = f.entries[g[a]].ip
                            /\ ToSet(k[a].names) = ToSet(f.entries[g[a]].names) \ gone
                            /\ ToSet(f.entries[g[a]].names) \cap gone = {} =>
                                 k[a].names = f.entries[g[a]].names
    BY <1>1, <1>7 DEF StripsTo
  <2>5. QED
    BY <1>9, <2>1, <2>2, <2>3, <2>4 DEF Thins
<1>11. r \in FileSet /\ r.domain = f.domain
  BY <1>2, <1>3, <1>8 DEF FileSet
<1>12. QED
  BY <1>10, <1>11 DEF r, gone

\* Min of a set of positions.
LEMMA MinOf ==
  ASSUME NEW N \in Nat, NEW A \in SUBSET (1 .. N), A # {}
  PROVE  Min(A) \in A /\ \A y \in A : Min(A) <= y
<1> DEFINE Least(x) == x \in A /\ \A y \in A : x <= y
           P == {n \in 0 .. N : (\E x \in A : Least(x)) \/ A \cap (1 .. n) = {}}
<1>1. 0 \in P
  OBVIOUS
<1>2. ASSUME NEW n \in P, n # N PROVE n + 1 \in P
  <2>1. n + 1 \in 0 .. N
    BY <1>2
  <2>2. CASE \E x \in A : Least(x)
    BY <2>1, <2>2
  <2>3. CASE A \cap (1 .. n) = {} /\ n + 1 \in A
    <3>1. \A y \in A : y \in 1 .. N /\ y \notin 1 .. n
      BY <2>3
    <3>2. Least(n + 1)
      BY <2>1, <2>3, <3>1
    <3>3. QED
      BY <2>1, <2>3, <3>2
  <2>4. CASE A \cap (1 .. n) = {} /\ n + 1 \notin A
    <3>1. 1 .. n+1 \subseteq (1 .. n) \cup {n+1}
      BY <2>1
    <3>2. A \cap (1 .. n+1) = {}
      BY <2>4, <3>1
    <3>3. QED
      BY <2>1, <3>2
  <2>5. QED
    BY <2>2, <2>3, <2>4
<1>3. P \in SUBSET (0 .. N)
  OBVIOUS
<1>4. N \in P
  <2> HIDE DEF P
  <2>1. QED
    BY <1>1, <1>2, <1>3, Induction
<1>5. PICK x \in A : Least(x)
  BY <1>4
<1>6. QED
  BY <1>5 DEF Min

Silent(f, n) ==
  \A i \in DOMAIN f.entries : ToSet(f.entries[i].names) \cap BothForms(f, n) = {}

\* The parts of an entry.
LEMMA EntryOf ==
  ASSUME NEW f \in FileSet, NEW i \in DOMAIN f.entries
  PROVE  /\ f.entries \in Seq(EntrySet) /\ Len(f.entries) \in Nat
         /\ DOMAIN f.entries = 1 .. Len(f.entries)
         /\ f.entries[i].ip \in Nat \ {NoAddress}
         /\ f.entries[i].names \in Seq(NameSet) /\ f.entries[i].names # <<>>
         /\ ToSet(f.entries[i].names) \subseteq NameSet
<1>1. f.entries \in Seq(EntrySet)
  BY DEF FileSet
<1>2. Len(f.entries) \in Nat /\ DOMAIN f.entries = 1 .. Len(f.entries) /\ f.entries[i] \in EntrySet
  BY <1>1
<1>3. /\ f.entries[i].ip \in Nat \ {NoAddress}
      /\ f.entries[i].names \in Seq(NameSet) /\ f.entries[i].names # <<>>
  BY <1>2 DEF EntrySet
<1>4. ToSet(f.entries[i].names) \subseteq NameSet
  BY <1>3 DEF ToSet
<1>5. QED
  BY <1>1, <1>2, <1>3, <1>4

\* The entries that answer a name have one of its spellings.
LEMMA AnswersOf ==
  ASSUME NEW f \in FileSet, NEW n
  PROVE  /\ Answers(f, n) \in SUBSET DOMAIN f.entries
         /\ \A i \in DOMAIN f.entries :
              i \in Answers(f, n) <=> ToSet(f.entries[i].names) \cap BothForms(f, n) # {}
<1>1. Answers(f, n) \in SUBSET DOMAIN f.entries
  BY DEF Answers
<1>2. ASSUME NEW i \in DOMAIN f.entries
      PROVE  i \in Answers(f, n) <=> ToSet(f.entries[i].names) \cap BothForms(f, n) # {}
  <2> DEFINE s == f.entries[i].names
  <2>1. s \in Seq(NameSet) /\ DOMAIN s = 1 .. Len(s)
    BY EntryOf
  <2> HIDE DEF s
  <2>2. \A m : Contains(s, m) <=> m \in ToSet(s)
    BY <2>1 DEF Contains, ToSet
  <2>3. i \in Answers(f, n) <=> \E m \in BothForms(f, n) : Contains(s, m)
    BY DEF Answers, s
  <2>4. QED
    BY <2>2, <2>3 DEF s
<1>3. QED
  BY <1>1, <1>2

\* Lookup finds the first entry that answers, and NoAddress iff none does (HostFile.Lookup).
LEMMA LookupOf ==
  ASSUME NEW f \in FileSet, NEW n
  PROVE  /\ Silent(f, n) <=> Answers(f, n) = {}
         /\ Silent(f, n) <=> Lookup(f, n) = NoAddress
         /\ ~Silent(f, n) => /\ Min(Answers(f, n)) \in Answers(f, n)
                             /\ \A j \in Answers(f, n) : Min(Answers(f, n)) <= j
                             /\ Lookup(f, n) = f.entries[Min(Answers(f, n))].ip
<1>1. Silent(f, n) <=> Answers(f, n) = {}
  BY AnswersOf DEF Silent
<1>2. ASSUME Answers(f, n) # {}
      PROVE  /\ Min(Answers(f, n)) \in Answers(f, n)
             /\ \A j \in Answers(f, n) : Min(Answers(f, n)) <= j
  <2>1. Answers(f, n) \in SUBSET DOMAIN f.entries
    BY AnswersOf
  <2>2. PICK i : i \in DOMAIN f.entries
    BY <1>2, <2>1
  <2>3. Len(f.entries) \in Nat /\ DOMAIN f.entries = 1 .. Len(f.entries)
    BY <2>2, EntryOf
  <2>4. QED
    BY <1>2, <2>1, <2>3, MinOf
<1>3. ASSUME Answers(f, n) # {}
      PROVE  Lookup(f, n) = f.entries[Min(Answers(f, n))].ip /\ Lookup(f, n) # NoAddress
  <2>1. Min(Answers(f, n)) \in DOMAIN f.entries
    BY <1>2, <1>3, AnswersOf
  <2>2. Lookup(f, n) = f.entries[Min(Answers(f, n))].ip
    BY <1>3 DEF Lookup
  <2>3. QED
    BY <2>1, <2>2, EntryOf
<1>4. Answers(f, n) = {} => Lookup(f, n) = NoAddress
  BY DEF Lookup
<1>5. QED
  BY <1>1, <1>2, <1>3, <1>4

\* After Remove Lookup finds nothing for the name, and no entry has it in any spelling,
\* the one that was given included, unless it is a name of several labels under the domain.
THEOREM RemoveSilences ==
  ASSUME NEW f \in FileSet, NEW n \in NameSet
  PROVE  /\ Silent(RemoveName(f, n), n)
         /\ Matched(f, n) => \A i \in DOMAIN RemoveName(f, n).entries :
              ToSet(RemoveName(f, n).entries[i].names) \cap Spellings(f, n) = {}
<1>1. PICK g : Thins(g, RemoveName(f, n), f, BothForms(f, n))
  BY RemoveThins
<1>2. BothForms(RemoveName(f, n), n) = BothForms(f, n)
  BY RemoveThins, SameForms
<1>3. Silent(RemoveName(f, n), n)
  BY <1>1, <1>2 DEF Thins, Silent
<1>4. Matched(f, n) => Spellings(f, n) = BothForms(f, n)
  BY FormsOf
<1>5. QED
  BY <1>2, <1>3, <1>4 DEF Silent

\* The exception, for every file: what Set wrote for a name of several labels under the
\* domain stays, and Lookup finds it neither before nor after (hosts.go: bothForms).
THEOREM RemoveMisses ==
  ASSUME NEW f \in FileSet, NEW n \in NameSet, ~Matched(f, n),
         NEW i \in DOMAIN f.entries, n \in ToSet(f.entries[i].names)
  PROVE  \E a \in DOMAIN RemoveName(f, n).entries :
           n \in ToSet(RemoveName(f, n).entries[a].names)
<1>1. PICK g : Thins(g, RemoveName(f, n), f, BothForms(f, n))
  BY RemoveThins
<1>2. n \in ToSet(f.entries[i].names) \ BothForms(f, n)
  BY DEF Matched
<1>3. PICK a \in DOMAIN RemoveName(f, n).entries : g[a] = i
  BY <1>1, <1>2 DEF Thins
<1>4. QED
  BY <1>1, <1>2, <1>3 DEF Thins

\* Remove creates no second answer for any name.
THEOREM RemoveKeepsOne ==
  ASSUME NEW f \in FileSet, NEW n \in NameSet, OneAnswer(f)
  PROVE  OneAnswer(RemoveName(f, n))
<1> DEFINE r == RemoveName(f, n)
<1>1. PICK g : Thins(g, r, f, BothForms(f, n))
  BY RemoveThins
<1>2. \A m : BothForms(r, m) = BothForms(f, m) /\ (Matched(r, m) <=> Matched(f, m))
  BY RemoveThins, SameForms
<1>3. \A i \in DOMAIN r.entries : i \in Int
  <2> SUFFICES ASSUME NEW i \in DOMAIN r.entries PROVE i \in Int
    OBVIOUS
  <2>1. r \in FileSet
    BY RemoveThins
  <2> HIDE DEF r
  <2>2. Len(r.entries) \in Nat /\ DOMAIN r.entries = 1 .. Len(r.entries)
    BY <2>1, EntryOf
  <2>3. QED
    BY <2>2
<1> HIDE DEF r
<1>4. ASSUME NEW i \in DOMAIN r.entries, NEW j \in DOMAIN r.entries, i # j,
             NEW m \in ToSet(r.entries[i].names), Matched(r, m)
      PROVE  ToSet(r.entries[j].names) \cap BothForms(r, m) = {}
  <2>1. g[i] \in DOMAIN f.entries /\ g[j] \in DOMAIN f.entries
    BY <1>1 DEF Thins
  <2>2. g[i] # g[j]
    <3>1. g[i] \in Int /\ g[j] \in Int
      BY <2>1, EntryOf
    <3>2. i < j \/ j < i
      BY <1>3, <1>4
    <3>3. QED
      BY <1>1, <3>1, <3>2 DEF Thins
  <2>3. m \in ToSet(f.entries[g[i]].names)
    BY <1>1, <1>4 DEF Thins
  <2>4. ToSet(f.entries[g[j]].names) \cap BothForms(f, m) = {}
    BY <1>2, <1>4, <2>1, <2>2, <2>3 DEF OneAnswer
  <2>5. ToSet(r.entries[j].names) \subseteq ToSet(f.entries[g[j]].names)
    BY <1>1 DEF Thins
  <2>6. QED
    BY <1>2, <2>4, <2>5
<1>5. QED
  BY <1>4 DEF OneAnswer, r

\* Remove changes no answer of a name that means another host, also where one entry
\* carries both (HostFile.Remove: the entry stays for the names that are left).
THEOREM RemoveKeepsOthers ==
  ASSUME NEW f \in FileSet, NEW n \in NameSet, NEW m \in NameSet,
         BothForms(f, m) \cap BothForms(f, n) = {}
  PROVE  Lookup(RemoveName(f, n), m) = Lookup(f, m)
<1> DEFINE r == RemoveName(f, n)
<1>1. r \in FileSet /\ BothForms(r, m) = BothForms(f, m)
  BY RemoveThins, SameForms
<1>2. PICK g : Thins(g, r, f, BothForms(f, n))
  BY RemoveThins
<1> HIDE DEF r
<1>3. ASSUME NEW a \in DOMAIN r.entries
      PROVE  a \in Answers(r, m) <=> g[a] \in Answers(f, m)
  <2>1. g[a] \in DOMAIN f.entries
    BY <1>2 DEF Thins
  <2>2. ToSet(r.entries[a].names) = ToSet(f.entries[g[a]].names) \ BothForms(f, n)
    BY <1>2 DEF Thins
  <2>3. QED
    BY <1>1, <2>1, <2>2, AnswersOf
<1>4. ASSUME NEW i \in Answers(f, m) PROVE \E a \in Answers(r, m) : g[a] = i
  <2>1. i \in DOMAIN f.entries /\ ToSet(f.entries[i].names) \cap BothForms(f, m) # {}
    BY AnswersOf
  <2>2. ToSet(f.entries[i].names) \ BothForms(f, n) # {}
    BY <2>1
  <2>3. PICK a \in DOMAIN r.entries : g[a] = i
    BY <1>2, <2>1, <2>2 DEF Thins
  <2>4. QED
    BY <1>3, <2>3
<1>5. CASE Silent(f, m)
  <2>1. Answers(f, m) = {}
    BY <1>5, LookupOf
  <2>2. Answers(r, m) = {}
    BY <1>1, <1>3, <2>1, AnswersOf
  <2>3. Silent(r, m)
    BY <1>1, <2>2, LookupOf
  <2>4. QED
    BY <1>1, <1>5, <2>3, LookupOf DEF r
<1>6. CASE ~Silent(f, m)
  <2>1. Answers(f, m) # {}
    BY <1>6, LookupOf
  <2>2. ~Silent(r, m)
    BY <1>1, <1>4, <2>1, LookupOf
  <2> DEFINE i == Min(Answers(f, m))
             a == Min(Answers(r, m))
  <2>3. /\ i \in Answers(f, m) /\ \A j \in Answers(f, m) : i <= j
        /\ Lookup(f, m) = f.entries[i].ip
    BY <1>6, LookupOf
  <2>4. /\ a \in Answers(r, m) /\ \A j \in Answers(r, m) : a <= j
        /\ Lookup(r, m) = r.entries[a].ip
    BY <1>1, <2>2, LookupOf
  <2> HIDE DEF i, a
  <2>5. PICK b \in Answers(r, m) : g[b] = i
    BY <1>4, <2>3
  <2>6. a \in DOMAIN r.entries /\ b \in DOMAIN r.entries
    BY <1>1, <2>4, AnswersOf
  <2>7. a \in Int /\ b \in Int /\ g[a] \in DOMAIN f.entries
    BY <1>1, <1>2, <2>6, EntryOf DEF Thins
  <2>8. g[a] \in Int /\ i \in Int
    <3>1. i \in DOMAIN f.entries
      BY <2>3, AnswersOf
    <3>2. QED
      BY <2>7, <3>1, EntryOf
  <2>9. g[a] \in Answers(f, m)
    BY <1>3, <2>4, <2>6
  <2>10. a = b
    <3>1. a <= b /\ i <= g[a]
      BY <2>3, <2>4, <2>9
    <3>2. a < b => g[a] < g[b]
      BY <1>2, <2>6 DEF Thins
    <3>3. QED
      BY <2>5, <2>7, <2>8, <3>1, <3>2
  <2>11. r.entries[a].ip = f.entries[g[a]].ip
    BY <1>2, <2>6 DEF Thins
  <2>12. QED
    BY <2>3, <2>4, <2>5, <2>10, <2>11 DEF r
<1>7. QED
  BY <1>5, <1>6

\* The entry that Set writes has the address and nothing but spellings of the name.
LEMMA EntryForOf ==
  ASSUME NEW f \in FileSet, NEW n \in NameSet, NEW ip \in Nat \ {NoAddress}
  PROVE  /\ EntryFor(f, n, ip) \in EntrySet /\ EntryFor(f, n, ip).ip = ip
         /\ n \in ToSet(EntryFor(f, n, ip).names)
         /\ EntryFor(f, n, ip).names[1] = n
         /\ ToSet(EntryFor(f, n, ip).names) = {n, FQDN(f, n)}
         /\ ToSet(EntryFor(f, n, ip).names) \subseteq Spellings(f, n)
         /\ Matched(f, n) => ToSet(EntryFor(f, n, ip).names) \subseteq BothForms(f, n)
         /\ ~Matched(f, n) => ToSet(EntryFor(f, n, ip).names) = {n}
<1> DEFINE full == FQDN(f, n)
           names == IF full = n THEN <<n>> ELSE <<n, full>>
<1>1. /\ full \in NameSet /\ n \in Spellings(f, n)
      /\ Matched(f, n) => full \in BothForms(f, n) /\ n \in BothForms(f, n)
      /\ ~Matched(f, n) => full = n
  BY FormsOf DEF Spellings
<1>2. EntryFor(f, n, ip) = [ip |-> ip, names |-> names]
  BY DEF EntryFor
<1> HIDE DEF full
<1>3. ToSet(names) = {n, full} /\ names \in Seq(NameSet) /\ names # <<>> /\ names[1] = n
  <2>1. CASE full = n
    <3>1. names = <<n>>
      BY <2>1
    <3>2. ToSet(<<n>>) = {n} /\ <<n>> \in Seq(NameSet) /\ <<n>> # <<>>
      BY DEF ToSet
    <3>3. QED
      BY <2>1, <3>1, <3>2
  <2>2. CASE full # n
    <3>1. names = <<n, full>>
      BY <2>2
    <3>2. ToSet(<<n, full>>) = {n, full} /\ <<n, full>> \in Seq(NameSet) /\ <<n, full>> # <<>>
      BY <1>1 DEF ToSet
    <3>3. QED
      BY <3>1, <3>2
  <2>3. QED
    BY <2>1, <2>2
<1> HIDE DEF names
<1>4. EntryFor(f, n, ip) \in EntrySet /\ EntryFor(f, n, ip).ip = ip /\ EntryFor(f, n, ip).names = names
  BY <1>1, <1>2, <1>3 DEF EntrySet
<1>5. QED
  BY <1>1, <1>3, <1>4 DEF Spellings, full

Appends(t, r, e) ==
  /\ t \in FileSet /\ t.domain = r.domain
  /\ DOMAIN t.entries = 1 .. Len(r.entries) + 1
  /\ t.entries[Len(r.entries) + 1] = e
  /\ \A i \in DOMAIN r.entries : t.entries[i] = r.entries[i]

\* Set is Remove and one more entry at the end.
LEMMA SetAppends ==
  ASSUME NEW f \in FileSet, NEW n \in NameSet, NEW ip \in Nat \ {NoAddress}
  PROVE  Appends(SetName(f, n, ip), RemoveName(f, n), EntryFor(f, n, ip))
<1> DEFINE r == RemoveName(f, n)
           e == EntryFor(f, n, ip)
           t == SetName(f, n, ip)
<1>1. r \in [domain : Domains, entries : Seq(EntrySet)] /\ e \in EntrySet
  BY RemoveThins, EntryForOf DEF FileSet
<1>2. t = [r EXCEPT !.entries = Append(r.entries, e)]
  BY DEF SetName
<1> HIDE DEF r, e, t
<1>3. t = [domain |-> r.domain, entries |-> Append(r.entries, e)]
  BY <1>1, <1>2
<1>4. r.entries \in Seq(EntrySet) /\ r.domain \in Domains
  BY <1>1
<1>5. /\ Append(r.entries, e) \in Seq(EntrySet)
      /\ DOMAIN Append(r.entries, e) = 1 .. Len(r.entries) + 1
      /\ Append(r.entries, e)[Len(r.entries) + 1] = e
      /\ \A i \in DOMAIN r.entries : Append(r.entries, e)[i] = r.entries[i]
  BY <1>1, <1>4
<1>6. t \in FileSet /\ t.domain = r.domain /\ t.entries = Append(r.entries, e)
  BY <1>3, <1>4, <1>5 DEF FileSet
<1>7. Appends(t, r, e)
  BY <1>5, <1>6 DEF Appends
<1>8. QED
  BY <1>7 DEF t, r, e

\* Set keeps the domain, and with it what the names mean.
LEMMA SetKeepsType ==
  ASSUME NEW f \in FileSet, NEW n \in NameSet, NEW ip \in Nat \ {NoAddress}
  PROVE  /\ SetName(f, n, ip) \in FileSet
         /\ SetName(f, n, ip).domain = f.domain
         /\ \A m : /\ BothForms(SetName(f, n, ip), m) = BothForms(f, m)
                   /\ FQDN(SetName(f, n, ip), m) = FQDN(f, m)
                   /\ Matched(SetName(f, n, ip), m) <=> Matched(f, m)
  BY SetAppends, RemoveThins, SameForms DEF Appends

\* Set leaves at most one answer for each name if there was at most one before
\* (HostFile.Set: the entry replaces whatever answered).
THEOREM SetKeepsOne ==
  ASSUME NEW f \in FileSet, NEW n \in NameSet, NEW ip \in Nat \ {NoAddress}, OneAnswer(f)
  PROVE  OneAnswer(SetName(f, n, ip))
<1> DEFINE r == RemoveName(f, n)
           e == EntryFor(f, n, ip)
           t == SetName(f, n, ip)
           last == Len(r.entries) + 1
<1>1. r \in FileSet /\ OneAnswer(r) /\ Silent(r, n) /\ Appends(t, r, e)
  BY RemoveThins, RemoveKeepsOne, RemoveSilences, SetAppends
<1>2. \A m : /\ BothForms(r, m) = BothForms(f, m) /\ BothForms(t, m) = BothForms(f, m)
             /\ (Matched(r, m) <=> Matched(f, m)) /\ (Matched(t, m) <=> Matched(f, m))
  BY RemoveThins, SetKeepsType, SameForms
<1>3. /\ Matched(f, n) => ToSet(e.names) \subseteq BothForms(f, n)
      /\ ~Matched(f, n) => ToSet(e.names) = {n}
  BY EntryForOf
<1>4. Matched(f, n) => \A m \in BothForms(f, n) : BothForms(f, m) = BothForms(f, n)
  BY FormsOf
<1> HIDE DEF r, e, t
<1>5. r.entries \in Seq(EntrySet) /\ DOMAIN r.entries = 1 .. Len(r.entries) /\ Len(r.entries) \in Nat
  BY <1>1 DEF FileSet
<1>6. /\ \A i \in DOMAIN t.entries : i # last => i \in DOMAIN r.entries
      /\ \A i \in DOMAIN r.entries : t.entries[i] = r.entries[i]
      /\ t.entries[last] = e
  BY <1>1, <1>5 DEF Appends
<1> HIDE DEF last
<1>7. ASSUME NEW i \in DOMAIN t.entries, NEW j \in DOMAIN t.entries, i # j,
             NEW m \in ToSet(t.entries[i].names), Matched(t, m)
      PROVE  ToSet(t.entries[j].names) \cap BothForms(t, m) = {}
  <2>1. CASE i # last /\ j # last
    BY <1>1, <1>2, <1>6, <1>7, <2>1 DEF OneAnswer
  <2>2. CASE i = last /\ j # last
    <3>1. BothForms(t, m) = BothForms(f, n)
      <4>1. m \in ToSet(e.names) /\ Matched(f, m)
        BY <1>2, <1>6, <1>7, <2>2
      <4>2. Matched(f, n)
        BY <1>3, <4>1
      <4>3. QED
        BY <1>2, <1>3, <1>4, <4>1, <4>2
    <3>2. QED
      BY <1>1, <1>2, <1>6, <2>2, <3>1 DEF Silent
  <2>3. CASE i # last /\ j = last
    <3>1. m \in ToSet(r.entries[i].names) /\ i \in DOMAIN r.entries
      BY <1>6, <1>7, <2>3
    <3>2. m \notin BothForms(f, n) /\ m \in NameSet
      BY <1>1, <1>2, <3>1, EntryOf DEF Silent
    <3>3. /\ Matched(f, m) /\ m \in BothForms(f, m)
          /\ \A x \in BothForms(f, m) : BothForms(f, x) = BothForms(f, m) /\ Matched(f, x)
      BY <1>2, <1>7, <3>2, FormsOf
    <3>4. CASE Matched(f, n)
      <4>1. BothForms(f, m) \cap BothForms(f, n) = {}
        BY <1>4, <3>2, <3>3, <3>4
      <4>2. QED
        BY <1>2, <1>3, <1>6, <2>3, <3>4, <4>1
    <3>5. CASE ~Matched(f, n)
      <4>1. n \notin BothForms(f, m)
        BY <3>3, <3>5
      <4>2. QED
        BY <1>2, <1>3, <1>6, <2>3, <3>5, <4>1
    <3>6. QED
      BY <3>4, <3>5
  <2>4. QED
    BY <1>7, <2>1, <2>2, <2>3
<1>8. QED
  BY <1>7 DEF OneAnswer, t

\* After Set the name answers with the address it was given, whatever answered before,
\* if it is a name that Lookup finds at all.
THEOREM SetAnswers ==
  ASSUME NEW f \in FileSet, NEW n \in NameSet, NEW ip \in Nat \ {NoAddress}, Matched(f, n)
  PROVE  Lookup(SetName(f, n, ip), n) = ip
<1> DEFINE r == RemoveName(f, n)
           e == EntryFor(f, n, ip)
           t == SetName(f, n, ip)
           last == Len(r.entries) + 1
<1>1. r \in FileSet /\ Silent(r, n) /\ Appends(t, r, e)
  BY RemoveThins, RemoveSilences, SetAppends
<1>2. \A m : BothForms(r, m) = BothForms(f, m) /\ BothForms(t, m) = BothForms(f, m)
  BY RemoveThins, SetKeepsType, SameForms
<1>3. n \in ToSet(e.names) /\ e.ip = ip /\ n \in BothForms(f, n)
  BY EntryForOf, FormsOf
<1> HIDE DEF r, e, t
<1>4. r.entries \in Seq(EntrySet) /\ DOMAIN r.entries = 1 .. Len(r.entries) /\ Len(r.entries) \in Nat
  BY <1>1 DEF FileSet
<1>5. /\ \A i \in DOMAIN t.entries : i # last => i \in DOMAIN r.entries
      /\ \A i \in DOMAIN r.entries : t.entries[i] = r.entries[i]
      /\ t.entries[last] = e /\ last \in DOMAIN t.entries
      /\ t \in FileSet
  BY <1>1, <1>4 DEF Appends
<1> HIDE DEF last
<1>6. last \in Answers(t, n)
  BY <1>2, <1>3, <1>5, AnswersOf
<1>7. \A i \in Answers(t, n) : i = last
  BY <1>1, <1>2, <1>5, AnswersOf DEF Silent
<1>8. Lookup(t, n) = t.entries[last].ip
  BY <1>5, <1>6, <1>7, LookupOf
<1>9. QED
  BY <1>3, <1>5, <1>8 DEF t

\* Set changes no answer of a name that means another host.
THEOREM SetKeepsOthers ==
  ASSUME NEW f \in FileSet, NEW n \in NameSet, NEW ip \in Nat \ {NoAddress},
         NEW m \in NameSet, BothForms(f, m) \cap Spellings(f, n) = {}
  PROVE  Lookup(SetName(f, n, ip), m) = Lookup(f, m)
<1> DEFINE r == RemoveName(f, n)
           e == EntryFor(f, n, ip)
           t == SetName(f, n, ip)
           last == Len(r.entries) + 1
<1>0. BothForms(f, m) \cap BothForms(f, n) = {}
  BY DEF Spellings
<1>1. r \in FileSet /\ Appends(t, r, e) /\ Lookup(r, m) = Lookup(f, m)
  BY <1>0, RemoveThins, RemoveKeepsOthers, SetAppends
<1>2. BothForms(r, m) = BothForms(f, m) /\ BothForms(t, m) = BothForms(f, m)
  BY RemoveThins, SetKeepsType, SameForms
<1>3. ToSet(e.names) \cap BothForms(f, m) = {}
  BY EntryForOf
<1> HIDE DEF r, e, t
<1>4. r.entries \in Seq(EntrySet) /\ DOMAIN r.entries = 1 .. Len(r.entries) /\ Len(r.entries) \in Nat
  BY <1>1 DEF FileSet
<1>5. /\ \A i \in DOMAIN t.entries : i # last => i \in DOMAIN r.entries
      /\ \A i \in DOMAIN r.entries : t.entries[i] = r.entries[i] /\ i \in DOMAIN t.entries
      /\ t.entries[last] = e
      /\ t \in FileSet
  BY <1>1, <1>4 DEF Appends
<1> HIDE DEF last
<1>6. Answers(t, m) = Answers(r, m)
  <2>1. ASSUME NEW i \in Answers(t, m) PROVE i \in Answers(r, m)
    BY <1>1, <1>2, <1>3, <1>5, AnswersOf
  <2>2. ASSUME NEW i \in Answers(r, m) PROVE i \in Answers(t, m)
    BY <1>1, <1>2, <1>5, AnswersOf
  <2>3. QED
    BY <2>1, <2>2
<1>7. CASE Silent(r, m)
  <2>1. Silent(t, m)
    BY <1>1, <1>5, <1>6, <1>7, LookupOf
  <2>2. QED
    BY <1>1, <1>5, <1>7, <2>1, LookupOf DEF t
<1>8. CASE ~Silent(r, m)
  <2>1. ~Silent(t, m)
    BY <1>1, <1>5, <1>6, <1>8, LookupOf
  <2>2. Min(Answers(r, m)) \in DOMAIN r.entries
    BY <1>1, <1>8, LookupOf, AnswersOf
  <2>3. QED
    BY <1>1, <1>5, <1>6, <1>8, <2>1, <2>2, LookupOf DEF t
<1>9. QED
  BY <1>7, <1>8

MovedPrefixes(moved, f, domain, X) ==
  /\ moved \in [0 .. Len(f.entries) -> X]
  /\ moved[0] = EmptyFile(domain)
  /\ \A n \in 1 .. Len(f.entries) :
       moved[n] = SetName(moved[n-1], f.entries[n].names[1], f.entries[n].ip)
  /\ Requalify(f, domain) = moved[Len(f.entries)]

\* The loop of Requalify, one entry after the other: what holds of the empty file under the
\* new domain and is kept by each Set holds throughout.
LEMMA RequalifyRecursion ==
  ASSUME NEW f \in FileSet, NEW domain \in Domains,
         NEW X, EmptyFile(domain) \in X,
         \A x \in X, i \in DOMAIN f.entries :
           SetName(x, f.entries[i].names[1], f.entries[i].ip) \in X
  PROVE  \E moved : MovedPrefixes(moved, f, domain, X)
<1> DEFINE E == f.entries
           N == Len(E)
           base == EmptyFile(domain)
           G == [i \in 1 .. N |-> [x \in X |-> SetName(x, E[i].names[1], E[i].ip)]]
<1>1. E \in Seq(EntrySet) /\ N \in Nat /\ DOMAIN E = 1 .. N
  BY DEF FileSet
<1>2. base \in X /\ \A x \in X, i \in 1 .. N : SetName(x, E[i].names[1], E[i].ip) \in X
  BY <1>1
<1> HIDE DEF E, base
<1>3. G \in [1 .. N -> [X -> X]]
  BY <1>2
<1>4. \A i \in 1 .. N, x \in X : G[i][x] = SetName(x, E[i].names[1], E[i].ip)
  OBVIOUS
<1>5. Iterable(N, X, base, G)
  <2> HIDE DEF N, G
  <2>1. QED
    BY <1>1, <1>2, <1>3, Recursion
<1>6. PICK g \in [0 .. N -> X] :
        g[0] = base /\ \A i \in 1 .. N : g[i] = SetName(g[i-1], E[i].names[1], E[i].ip)
  <2>1. PICK g \in [0 .. N -> X] : g[0] = base /\ \A i \in 1 .. N : g[i] = G[i][g[i-1]]
    BY <1>5 DEF Iterable
  <2> HIDE DEF G, N
  <2>2. ASSUME NEW i \in 1 .. N PROVE g[i] = SetName(g[i-1], E[i].names[1], E[i].ip)
    <3>1. g[i-1] \in X
      BY <1>1
    <3>2. QED
      BY <1>4, <2>1, <3>1
  <2>3. QED
    BY <2>1, <2>2
<1> HIDE DEF G
<1>7. g = [n \in 0 .. N |-> IF n = 0 THEN base ELSE SetName(g[n-1], E[n].names[1], E[n].ip)]
  <2>1. \A n \in 0 .. N : n = 0 \/ n \in 1 .. N
    BY <1>1
  <2> HIDE DEF N
  <2>2. QED
    BY <1>6, <2>1
<1> HIDE DEF N
<1> DEFINE moved[n \in 0 .. N] == IF n = 0 THEN base ELSE SetName(moved[n-1], E[n].names[1], E[n].ip)
<1>8. moved = [n \in 0 .. N |-> IF n = 0 THEN base ELSE SetName(moved[n-1], E[n].names[1], E[n].ip)]
  <2>1. \E h : h = [n \in 0 .. N |-> IF n = 0 THEN base ELSE SetName(h[n-1], E[n].names[1], E[n].ip)]
    BY <1>7
  <2>2. QED
    BY <2>1, Zenon
<1>9. Requalify(f, domain) = moved[N]
  BY Zenon DEF Requalify, E, N, base
<1> HIDE DEF moved
<1>10. moved[0] = base
  <2>1. 0 \in 0 .. N
    BY <1>1
  <2>2. QED
    BY <2>1, <1>8, Zenon
<1>11. ASSUME NEW n \in 1 .. N PROVE moved[n] = SetName(moved[n-1], E[n].names[1], E[n].ip)
  <2>1. n \in 0 .. N /\ n # 0
    BY <1>1
  <2>2. QED
    BY <2>1, <1>8, Zenon
<1> DEFINE P == {n \in 0 .. N : moved[n] = g[n]}
<1>12. 0 \in P
  BY <1>1, <1>6, <1>10
<1>13. ASSUME NEW n \in P, n # N PROVE n + 1 \in P
  <2>1. n + 1 \in 1 .. N /\ (n + 1) - 1 = n
    BY <1>1, <1>13
  <2>2. QED
    BY <2>1, <1>6, <1>11
<1>14. P \in SUBSET (0 .. N)
  OBVIOUS
<1>15. N \in P
  <2> HIDE DEF P
  <2>1. QED
    BY <1>1, <1>12, <1>13, <1>14, Induction
<1>16. Requalify(f, domain) = g[N]
  BY <1>9, <1>15
<1>17. MovedPrefixes(g, f, domain, X)
  BY <1>6, <1>16 DEF MovedPrefixes, N, E, base
<1>18. QED
  BY <1>17

\* The empty file answers nothing.
LEMMA EmptyFileOf ==
  ASSUME NEW domain \in Domains
  PROVE  EmptyFile(domain) \in FileSet /\ EmptyFile(domain).domain = domain /\ OneAnswer(EmptyFile(domain))
  BY DEF EmptyFile, FileSet, OneAnswer

\* A change of domain leaves at most one answer for each name, whatever the file was:
\* the entries are set one by one (services/hosts.go: SetDomain).
THEOREM RequalifyKeepsOne ==
  ASSUME NEW f \in FileSet, NEW domain \in Domains
  PROVE  /\ Requalify(f, domain) \in FileSet
         /\ Requalify(f, domain).domain = domain
         /\ OneAnswer(Requalify(f, domain))
<1> DEFINE X == {x \in FileSet : x.domain = domain /\ OneAnswer(x)}
<1>1. EmptyFile(domain) \in X
  BY EmptyFileOf
<1>2. ASSUME NEW x \in X, NEW i \in DOMAIN f.entries
      PROVE  SetName(x, f.entries[i].names[1], f.entries[i].ip) \in X
  <2>1. f.entries[i].names[1] \in NameSet /\ f.entries[i].ip \in Nat \ {NoAddress}
    <3>1. f.entries[i].names \in Seq(NameSet) /\ f.entries[i].names # <<>>
      BY EntryOf
    <3>2. QED
      BY <3>1, EntryOf
  <2>2. QED
    BY <2>1, SetKeepsType, SetKeepsOne
<1> HIDE DEF X
<1>3. Requalify(f, domain) \in X
  <2>1. PICK moved : MovedPrefixes(moved, f, domain, X)
    BY <1>1, <1>2, RequalifyRecursion
  <2>2. Len(f.entries) \in 0 .. Len(f.entries)
    BY DEF FileSet
  <2>3. QED
    BY <2>1, <2>2 DEF MovedPrefixes
<1>4. QED
  BY <1>3 DEF X

-----------------------------------------------------------------------------
(* What a change of domain does to the answers.                            *)

\* Every spelling of a name has its first label: names that differ in it share none.
LEMMA LabelOf ==
  ASSUME NEW f \in FileSet, NEW n \in NameSet
  PROVE  \A m \in Spellings(f, n) : FirstLabel(m) = FirstLabel(n)
<1>1. \A x \in NameSet : FirstLabel(Trimmed(f, x)) = FirstLabel(x)
  BY StemOf DEF Trimmed, FirstLabel
<1>2. \A x \in NameSet : FirstLabel(FQDN(f, x)) = FirstLabel(x)
  BY StemOf DEF FQDN, FirstLabel
<1>3. Trimmed(f, n) \in NameSet
  BY FormsOf DEF BothForms
<1>4. QED
  BY <1>1, <1>2, <1>3 DEF BothForms, Spellings

\* Names that differ in their first label share no spelling.
LEMMA LabelsApart ==
  ASSUME NEW f \in FileSet, NEW m \in NameSet, NEW n \in NameSet, FirstLabel(m) # FirstLabel(n)
  PROVE  Spellings(f, m) \cap Spellings(f, n) = {} /\ BothForms(f, m) \cap Spellings(f, n) = {}
         /\ BothForms(f, m) \cap BothForms(f, n) = {}
BY LabelOf DEF Spellings

\* What an entry for a name may have.
Wording(f, n) == {n, FQDN(f, n)}

\* Each entry was made for a name of W: its first name is that one, the other is a
\* spelling of it.
Worded(f, W) ==
  \A i \in DOMAIN f.entries :
    /\ f.entries[i].names[1] \in W
    /\ ToSet(f.entries[i].names) \subseteq Wording(f, f.entries[i].names[1])

\* One spelling for each host: no two names begin with the same label.
Spelled(W) == \A m, n \in W : FirstLabel(m) = FirstLabel(n) => m = n

\* The first name of an entry.
LEMMA FirstName ==
  ASSUME NEW f \in FileSet, NEW i \in DOMAIN f.entries
  PROVE  /\ f.entries[i].names[1] \in NameSet
         /\ f.entries[i].names[1] \in ToSet(f.entries[i].names)
<1>1. f.entries[i].names \in Seq(NameSet) /\ f.entries[i].names # <<>>
  BY EntryOf
<1>2. 1 \in DOMAIN f.entries[i].names
  BY <1>1
<1>3. QED
  BY <1>1, <1>2 DEF ToSet

\* Remove takes whole entries out of a worded file and leaves the others as they are.
LEMMA RemoveWorded ==
  ASSUME NEW f \in FileSet, NEW n \in NameSet, NEW W, Worded(f, W)
  PROVE  Worded(RemoveName(f, n), W)
<1> DEFINE r == RemoveName(f, n)
           gone == BothForms(f, n)
<1>1. r \in FileSet /\ \A m : Wording(r, m) = Wording(f, m)
  BY RemoveThins, SameForms DEF Wording
<1>2. PICK g : Thins(g, r, f, gone)
  BY RemoveThins
<1>3. \A m \in gone : FQDN(f, m) \in gone
  BY FormsOf
<1> HIDE DEF r, gone
<1>4. ASSUME NEW a \in DOMAIN r.entries
      PROVE  /\ r.entries[a].names[1] \in W
             /\ ToSet(r.entries[a].names) \subseteq Wording(r, r.entries[a].names[1])
  <2> DEFINE i == g[a]
             w == f.entries[i].names[1]
             left == ToSet(r.entries[a].names)
  <2>1. i \in DOMAIN f.entries
    BY <1>2 DEF Thins
  <2>2. w \in W /\ ToSet(f.entries[i].names) \subseteq {w, FQDN(f, w)}
    BY <2>1 DEF Worded, Wording
  <2>3. /\ left = ToSet(f.entries[i].names) \ gone
        /\ ToSet(f.entries[i].names) \cap gone = {} => r.entries[a].names = f.entries[i].names
    BY <1>2 DEF Thins
  <2>4. r.entries[a].names[1] \in left
    BY <1>1, FirstName
  <2> HIDE DEF i, w, left
  <2>5. w \notin gone
    BY <1>3, <2>2, <2>3, <2>4
  <2>6. r.entries[a].names[1] = w
    <3>1. CASE ToSet(f.entries[i].names) \cap gone = {}
      BY <2>3, <3>1 DEF w
    <3>2. CASE ToSet(f.entries[i].names) \cap gone # {}
      BY <2>2, <2>3, <2>4, <2>5, <3>2
    <3>3. QED
      BY <3>1, <3>2
  <2>7. QED
    BY <1>1, <2>2, <2>3, <2>6 DEF left, Wording
<1>5. QED
  BY <1>4 DEF Worded, r

\* Set adds an entry made for its name.
LEMMA SetWorded ==
  ASSUME NEW f \in FileSet, NEW n \in NameSet, NEW ip \in Nat \ {NoAddress},
         NEW W, Worded(f, W), n \in W
  PROVE  Worded(SetName(f, n, ip), W)
<1> DEFINE r == RemoveName(f, n)
           e == EntryFor(f, n, ip)
           t == SetName(f, n, ip)
           last == Len(r.entries) + 1
<1>1. r \in FileSet /\ Worded(r, W) /\ Appends(t, r, e)
  BY RemoveThins, RemoveWorded, SetAppends
<1>2. \A m : Wording(r, m) = Wording(f, m) /\ Wording(t, m) = Wording(f, m)
  BY RemoveThins, SetKeepsType, SameForms DEF Wording
<1>3. e.names[1] = n /\ ToSet(e.names) \subseteq Wording(f, n)
  BY EntryForOf DEF Wording
<1> HIDE DEF r, e, t
<1>4. r.entries \in Seq(EntrySet) /\ DOMAIN r.entries = 1 .. Len(r.entries) /\ Len(r.entries) \in Nat
  BY <1>1 DEF FileSet
<1>5. /\ \A i \in DOMAIN t.entries : i # last => i \in DOMAIN r.entries
      /\ \A i \in DOMAIN r.entries : t.entries[i] = r.entries[i]
      /\ t.entries[last] = e
  BY <1>1, <1>4 DEF Appends
<1> HIDE DEF last
<1>6. ASSUME NEW i \in DOMAIN t.entries
      PROVE  /\ t.entries[i].names[1] \in W
             /\ ToSet(t.entries[i].names) \subseteq Wording(t, t.entries[i].names[1])
  <2>1. CASE i = last
    BY <1>2, <1>3, <1>5, <2>1
  <2>2. CASE i # last
    <3>1. i \in DOMAIN r.entries /\ t.entries[i] = r.entries[i]
      BY <1>5, <2>2
    <3>2. QED
      BY <1>1, <1>2, <3>1 DEF Worded
  <2>3. QED
    BY <2>1, <2>2
<1>7. QED
  BY <1>6 DEF Worded, t

\* In a worded file a name of W that Lookup finds at all is answered by the entries made
\* for it.
LEMMA WordedAnswers ==
  ASSUME NEW f \in FileSet, NEW W \in SUBSET NameSet, Worded(f, W), Spelled(W),
         NEW n \in W, Matched(f, n)
  PROVE  \A i \in DOMAIN f.entries : i \in Answers(f, n) <=> f.entries[i].names[1] = n
<1> SUFFICES ASSUME NEW i \in DOMAIN f.entries
             PROVE  i \in Answers(f, n) <=> f.entries[i].names[1] = n
  OBVIOUS
<1> DEFINE w == f.entries[i].names[1]
           names == ToSet(f.entries[i].names)
<1>1. w \in W /\ w \in names /\ names \subseteq {w, FQDN(f, w)} /\ n \in BothForms(f, n)
  BY FirstName DEF Worded, Wording, Matched
<1>2. i \in Answers(f, n) <=> names \cap BothForms(f, n) # {}
  BY AnswersOf
<1> HIDE DEF w, names
<1>3. w = n => names \cap BothForms(f, n) # {}
  BY <1>1
<1>4. names \cap BothForms(f, n) # {} => w = n
  <2> SUFFICES ASSUME NEW m \in names, m \in BothForms(f, n) PROVE w = n
    OBVIOUS
  <2>1. FirstLabel(m) = FirstLabel(n)
    BY LabelOf DEF Spellings
  <2>2. FirstLabel(m) = FirstLabel(w)
    <3>1. w \in NameSet /\ m \in {w, FQDN(f, w)}
      BY <1>1
    <3>2. FirstLabel(FQDN(f, w)) = FirstLabel(w)
      BY <3>1, StemOf DEF FQDN, FirstLabel
    <3>3. QED
      BY <3>1, <3>2
  <2>3. QED
    BY <1>1, <2>1, <2>2 DEF Spelled
<1>5. QED
  BY <1>2, <1>3, <1>4 DEF w

MovedTo(x, E, k, n) ==
  \/ (\A j \in 1 .. k : E[j].names[1] # n) /\ Lookup(x, n) = NoAddress
  \/ \E j \in 1 .. k : E[j].names[1] = n /\ Lookup(x, n) = E[j].ip

\* A change of domain leaves the answer of every name that Lookup finds before and after as
\* it is, as long as each host was only ever named in one way (services/hosts.go, SetDomain:
\* the entries are rebuilt from their first names, under the new domain).
THEOREM RequalifyKeepsAnswers ==
  ASSUME NEW f \in FileSet, OneAnswer(f), NEW domain \in Domains,
         NEW W \in SUBSET NameSet, Worded(f, W), Spelled(W)
  PROVE  /\ Worded(Requalify(f, domain), W)
         /\ \A n \in W : Matched(f, n) /\ Matched(Requalify(f, domain), n) =>
              Lookup(Requalify(f, domain), n) = Lookup(f, n)
<1> DEFINE E == f.entries
           N == Len(E)
           X == {x \in FileSet : Worded(x, W) /\ x.domain = domain}
<1>1. /\ N \in Nat /\ DOMAIN E = 1 .. N
      /\ \A i \in 1 .. N : /\ E[i].names[1] \in W /\ E[i].names[1] \in NameSet
                           /\ E[i].ip \in Nat \ {NoAddress}
  <2>1. f.entries \in Seq(EntrySet)
    BY DEF FileSet
  <2>2. QED
    BY <2>1, EntryOf, FirstName DEF Worded
<1>2. EmptyFile(domain) \in X
  BY EmptyFileOf DEF Worded, EmptyFile
<1>3. \A x \in X, i \in 1 .. N : SetName(x, E[i].names[1], E[i].ip) \in X
  BY <1>1, SetWorded, SetKeepsType
<1>4. PICK moved : MovedPrefixes(moved, f, domain, X)
  <2> HIDE DEF X
  <2>1. QED
    BY <1>1, <1>2, <1>3, RequalifyRecursion
<1>5. /\ \A k \in 0 .. N : moved[k] \in X
      /\ moved[0] = EmptyFile(domain)
      /\ \A k \in 1 .. N : moved[k] = SetName(moved[k-1], E[k].names[1], E[k].ip)
      /\ Requalify(f, domain) = moved[N] /\ N \in 0 .. N
  <2> HIDE DEF X
  <2>1. moved \in [0 .. N -> X]
    BY <1>4 DEF MovedPrefixes
  <2>2. \A k \in 0 .. N : moved[k] \in X
    BY <2>1
  <2>3. N \in 0 .. N
    BY <1>1
  <2>4. QED
    BY <1>4, <2>2, <2>3 DEF MovedPrefixes
<1> HIDE DEF E, N
<1>6. ASSUME NEW n \in W, Matched(f, n), Matched(moved[N], n) PROVE Lookup(moved[N], n) = Lookup(f, n)
  <2> DEFINE P == {k \in 0 .. N : MovedTo(moved[k], E, k, n)}
  <2>1. 0 \in P
    <3>1. EmptyFile(domain) \in FileSet /\ Silent(EmptyFile(domain), n)
      BY EmptyFileOf DEF EmptyFile, Silent
    <3>2. Lookup(EmptyFile(domain), n) = NoAddress
      BY <3>1, LookupOf
    <3>3. QED
      BY <1>1, <1>5, <3>2 DEF MovedTo
  <2>2. ASSUME NEW k \in P, k # N PROVE k + 1 \in P
    <3> DEFINE x == moved[k]
               w == E[k+1].names[1]
               ip == E[k+1].ip
               y == SetName(x, w, ip)
    <3>1. k \in 0 .. N /\ k + 1 \in 1 .. N /\ (k + 1) - 1 = k /\ k + 1 \in 0 .. N
      BY <1>1, <2>2
    <3>2. moved[k+1] = y
      BY <1>5, <3>1
    <3>3. w \in W /\ w \in NameSet /\ ip \in Nat \ {NoAddress} /\ x \in FileSet
      BY <1>1, <1>5, <3>1
    <3>10. Matched(x, n)
      BY <1>5, <1>6, <3>1, SameForms
    <3>4. MovedTo(x, E, k, n)
      BY <2>2
    <3>5. \A j \in 1 .. k + 1 : j \in 1 .. k \/ j = k + 1
      BY <3>1
    <3>6. \A j \in 1 .. k : j \in 1 .. k + 1
      BY <3>1
    <3>7. CASE w = n
      <4> HIDE DEF x, ip
      <4>1. Lookup(y, n) = ip
        BY <3>3, <3>7, <3>10, SetAnswers
      <4>2. k + 1 \in 1 .. k + 1
        BY <3>1
      <4>3. MovedTo(y, E, k + 1, n)
        BY <3>7, <4>1, <4>2 DEF MovedTo, ip
      <4>4. QED
        BY <3>1, <3>2, <4>3
    <3>8. CASE w # n
      <4>1. BothForms(x, n) \cap Spellings(x, w) = {}
        <5>1. FirstLabel(n) # FirstLabel(w)
          BY <3>3, <3>8 DEF Spelled
        <5>2. QED
          BY <3>3, <5>1, LabelsApart
      <4> HIDE DEF x, ip, w
      <4>2. Lookup(y, n) = Lookup(x, n)
        BY <3>3, <4>1, SetKeepsOthers
      <4> HIDE DEF y
      <4>3. MovedTo(y, E, k + 1, n)
        BY <3>4, <3>5, <3>6, <3>8, <4>2 DEF MovedTo, w
      <4>4. QED
        BY <3>1, <3>2, <4>3
    <3>9. QED
      BY <3>7, <3>8
  <2>3. P \in SUBSET (0 .. N)
    OBVIOUS
  <2>4. N \in P
    <3> HIDE DEF P
    <3>1. QED
      BY <1>1, <2>1, <2>2, <2>3, Induction
  <2>5. MovedTo(moved[N], E, N, n)
    BY <2>4
  <2>6. \A i \in 1 .. N : i \in Answers(f, n) <=> E[i].names[1] = n
    BY <1>1, <1>6, WordedAnswers DEF E
  <2>7. Answers(f, n) \in SUBSET (1 .. N)
    BY <1>1, AnswersOf DEF E
  <2>8. CASE Silent(f, n)
    <3>1. Answers(f, n) = {} /\ Lookup(f, n) = NoAddress
      BY <2>8, LookupOf
    <3>2. \A j \in 1 .. N : E[j].names[1] # n
      BY <2>6, <3>1
    <3>3. QED
      BY <2>5, <3>1, <3>2 DEF MovedTo
  <2>9. CASE ~Silent(f, n)
    <3>1. PICK i \in Answers(f, n) : Lookup(f, n) = E[i].ip
      BY <2>9, LookupOf DEF E
    <3>2. i \in 1 .. N /\ E[i].names[1] = n
      BY <2>6, <2>7, <3>1
    <3>3. \A j \in 1 .. N : E[j].names[1] = n => j = i
      <4> SUFFICES ASSUME NEW j \in 1 .. N, E[j].names[1] = n PROVE j = i
        OBVIOUS
      <4>1. n \in ToSet(E[i].names) /\ n \in ToSet(E[j].names) /\ n \in BothForms(f, n)
        BY <1>1, <1>6, <3>2, FirstName, FormsOf DEF E
      <4>2. QED
        BY <1>1, <1>6, <3>2, <4>1 DEF OneAnswer, E
    <3>4. QED
      BY <2>5, <3>1, <3>2, <3>3 DEF MovedTo
  <2>10. QED
    BY <2>8, <2>9
<1>7. QED
  BY <1>5, <1>6
=============================================================================
