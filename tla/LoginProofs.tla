---------------------------- MODULE LoginProofs -----------------------------
(***************************************************************************)
(* Proofs about Login, for every set of logins and authenticators, every   *)
(* set of algorithms and any number of changes of the password entry.      *)
(*                                                                         *)
(* Handshake, Requested and Signed say of one login what it knows, what    *)
(* became of its request and which nonce that carries.  OneEntryPerSalt    *)
(* and CacheGenuine relate what the logins have been told and keep: this   *)
(* is what a cache that is keyed by the salt alone rests on.               *)
(***************************************************************************)
EXTENDS Login, FiniteSetTheorems, TLAPS

\* What a login knows at each step of the handshake.
Handshake(l) ==
  /\ pc[l] \in {"idle", "challenge1"} => first[l] = NoChallenge
  /\ pc[l] \in {"idle", "challenge1", "crypt1", "challenge2"} => second[l] = NoChallenge
  /\ pc[l] \in {"crypt1", "challenge2", "crypt2", "send", "sent"} => first[l] # NoChallenge
  /\ pc[l] \in {"crypt2", "send", "sent"} => second[l] # NoChallenge
  /\ pc[l] \in {"challenge2", "crypt2", "send", "sent"} => cipher[l] # NoCipher

\* What became of its one request.
Requested(l) ==
  /\ pc[l] \notin {"sent", "done"} => ~wire[l] /\ answer[l] = "none" /\ granted[l] = 0
  /\ wire[l] => granted[l] = 0 /\ answer[l] = (IF pc[l] = "sent" THEN "none" ELSE "lost")
  /\ answer[l] = "granted" => granted[l] = 1
  /\ answer[l] \in {"denied", "stale", "limited"} => granted[l] = 0

\* The nonce that its request carries.
Signed(l) ==
  /\ pc[l] = "crypt2" => nonce[l] = "fresh" /\ first[l].salt # second[l].salt
  /\ pc[l] = "send" \/ wire[l] =>
       nonce[l] = "fresh" \/ (nonce[l] = "old" /\ first[l].salt # second[l].salt)
  /\ answer[l] = "stale" => first[l].salt # second[l].salt

\* The router has had one password entry of each salt.
Seen == {entry} \cup {first[l] : l \in Logins} \cup {second[l] : l \in Logins}
OneEntryPerSalt ==
  /\ \A o \in Seen : o.salt <= entry.salt
  /\ \A o, n \in Seen : o.salt = n.salt => o = n

\* A cipher is one of an entry that the router has had, unless it is Mixed.
Genuine(l) ==
  /\ pc[l] = "challenge2" => cipher[l] = first[l] \/ Mixed(Auth[l])
  /\ pc[l] = "send" \/ wire[l] => cipher[l] = second[l] \/ Mixed(Auth[l])
CacheGenuine ==
  \A a \in Auths : \/ cache[a] = NoCipher \/ Mixed(a)
                    \/ \E l \in Logins : cache[a] \in {first[l], second[l]}

\* A login counts once, when it has been sent and is on the wire no more.
Over == {l \in Logins : pc[l] \in {"sent", "done"} /\ ~wire[l]}

\* What the login l consists of, on both sides.
SameFor(l) ==
  /\ pc'[l] = pc[l] /\ first'[l] = first[l] /\ second'[l] = second[l] /\ cipher'[l] = cipher[l]
  /\ nonce'[l] = nonce[l] /\ wire'[l] = wire[l] /\ answer'[l] = answer[l] /\ granted'[l] = granted[l]

\* TypeOK without the count, which needs an argument of its own.
Typed ==
  /\ entry \in Ciphers
  /\ nonce \in [Logins -> {"none", "fresh", "old", "used"}]
  /\ cache \in [Auths -> Ciphers \cup {NoCipher}]
  /\ pc \in [Logins -> PC]
  /\ first \in [Logins -> Ciphers \cup {NoChallenge}]
  /\ second \in [Logins -> Ciphers \cup {NoChallenge}]
  /\ cipher \in [Logins -> Ciphers \cup {NoCipher}]
  /\ wire \in [Logins -> BOOLEAN] /\ answer \in [Logins -> Answers]
  /\ granted \in [Logins -> Nat]

LoginInv == Typed /\ \A l \in Logins : Handshake(l) /\ Requested(l) /\ Signed(l)

-----------------------------------------------------------------------------
(* A cipher has a salt that the router could have given; NoCipher has not. *)
LEMMA CipherFacts ==
  ASSUME NEW c \in Ciphers \cup {NoCipher}
  PROVE  /\ c.salt \in Int /\ c.salt >= -1 /\ (c = NoCipher <=> c.salt = -1)
         /\ c # NoCipher => c \in Ciphers /\ c.salt \in 0..MaxResets /\ c.alg \in Algs
BY DEF Ciphers, NoCipher

(* The crypt of a login is made for the salt it is asked for.              *)
LEMMA CipherForSalt ==
  ASSUME Typed, NEW l \in Logins, NEW e \in Ciphers, first[l] \in Ciphers
  PROVE  /\ CipherFor(Auth[l], e.salt, first[l].alg) \in Ciphers
         /\ CipherFor(Auth[l], e.salt, first[l].alg).salt = e.salt
<1>1. Auth[l] \in Auths
  BY DEF Auths
<1>2. cache[Auth[l]] \in Ciphers \cup {NoCipher}
  BY <1>1 DEF Typed
<1>3. CASE cache[Auth[l]].salt = e.salt
  BY <1>2, <1>3 DEF CipherFor, Ciphers, NoCipher
<1>4. CASE cache[Auth[l]].salt # e.salt
  BY <1>4 DEF CipherFor, Ciphers
<1>5. QED
  BY <1>3, <1>4

(* A step of one login leaves the others alone.                            *)
LEMMA OthersKeep ==
  ASSUME Typed, NEW l \in Logins, LoginStep(l), NEW m \in Logins, m # l
  PROVE  SameFor(m)
<1> USE DEF Typed, SameFor, clientVars, routerVars
<1>1. CASE Start(l)
  BY <1>1 DEF Start
<1>2. CASE Challenge1(l)
  BY <1>2 DEF Challenge1, Issue
<1>3. CASE Crypt1(l)
  BY <1>3 DEF Crypt1, Derive
<1>4. CASE Challenge2(l)
  BY <1>4 DEF Challenge2, Issue
<1>5. CASE Crypt2(l)
  BY <1>5 DEF Crypt2, Derive
<1>6. CASE Unsupported(l)
  BY <1>6 DEF Unsupported, Fail
<1>7. CASE ChallengeRefused(l)
  BY <1>7 DEF ChallengeRefused, Fail
<1>8. CASE ChallengeLost(l)
  BY <1>8 DEF ChallengeLost, Fail
<1>9. CASE Send(l)
  BY <1>9 DEF Send
<1>10. CASE Succeeded(l)
  BY <1>10 DEF Succeeded
<1>11. CASE Refused(l)
  BY <1>11 DEF Refused, Fail
<1>12. CASE GiveUp(l)
  BY <1>12 DEF GiveUp, Fail
<1>13. CASE ServeWrong(l)
  BY <1>13 DEF ServeWrong, Answer
<1>14. CASE ServeStale(l)
  BY <1>14 DEF ServeStale, Answer
<1>15. CASE ServeGranted(l)
  BY <1>15 DEF ServeGranted, Answer
<1>16. CASE Lose(l)
  BY <1>16 DEF Lose
<1>17. QED
  BY <1>1, <1>2, <1>3, <1>4, <1>5, <1>6, <1>7, <1>8, <1>9, <1>10, <1>11, <1>12, <1>13, <1>14, <1>15, <1>16 DEF LoginStep

(* A crypt gives a login and its authenticator a cipher for that salt.     *)
LEMMA DeriveTyped ==
  ASSUME Typed, NEW l \in Logins, NEW e \in Ciphers, first[l] \in Ciphers, Derive(l, e.salt)
  PROVE  /\ cipher' \in [Logins -> Ciphers \cup {NoCipher}]
         /\ cache' \in [Auths -> Ciphers \cup {NoCipher}]
         /\ nonce' \in [Logins -> {"none", "fresh", "old", "used"}]
         /\ cipher'[l] = CipherFor(Auth[l], e.salt, first[l].alg)
         /\ cache' = [cache EXCEPT ![Auth[l]] = CipherFor(Auth[l], e.salt, first[l].alg)]
         /\ cipher'[l] \in Ciphers /\ cipher'[l] # NoCipher
         /\ nonce'[l] \in {nonce[l], "old"}
<1> DEFINE c == CipherFor(Auth[l], e.salt, first[l].alg)
<1>1. c \in Ciphers /\ c.salt = e.salt
  BY CipherForSalt
<1>2. /\ cipher' = [cipher EXCEPT ![l] = c] /\ cache' = [cache EXCEPT ![Auth[l]] = c]
      /\ \E n \in {nonce[l], "old"} : nonce' = [nonce EXCEPT ![l] = n]
  BY DEF Derive
<1> HIDE DEF c
<1>3. c # NoCipher
  BY <1>1 DEF Ciphers, NoCipher
<1>4. cipher' \in [Logins -> Ciphers \cup {NoCipher}] /\ cipher'[l] = c
  BY <1>1, <1>2 DEF Typed
<1>5. cache' \in [Auths -> Ciphers \cup {NoCipher}]
  BY <1>1, <1>2 DEF Typed
<1>6. nonce' \in [Logins -> {"none", "fresh", "old", "used"}] /\ nonce'[l] \in {nonce[l], "old"}
  BY <1>2 DEF Typed
<1>7. QED
  BY <1>1, <1>2, <1>3, <1>4, <1>5, <1>6 DEF c

(* The types are kept; the crypts and the challenges need the handshake.   *)
LEMMA TypedStep ==
  ASSUME Typed, \A m \in Logins : Handshake(m), NEW l \in Logins, LoginStep(l)
  PROVE  Typed'
<1>0. Typed /\ Handshake(l)
  OBVIOUS
<1> USE DEF Typed, PC, Answers, clientVars, routerVars
<1>1. CASE Start(l)
  BY <1>1 DEF Start
<1>2. CASE Challenge1(l)
  BY <1>2 DEF Challenge1, Issue
<1>3. CASE Crypt1(l)
  <2>1. first[l] \in Ciphers
    BY <1>0, <1>3, CipherFacts DEF Handshake, Crypt1, NoChallenge
  <2>2. Derive(l, first[l].salt)
    BY <1>3 DEF Crypt1
  <2>3. /\ cipher' \in [Logins -> Ciphers \cup {NoCipher}] /\ cache' \in [Auths -> Ciphers \cup {NoCipher}]
        /\ nonce' \in [Logins -> {"none", "fresh", "old", "used"}]
    BY <1>0, <2>1, <2>2, DeriveTyped
  <2>4. QED
    BY <1>3, <2>3 DEF Crypt1
<1>4. CASE Challenge2(l)
  BY <1>4 DEF Challenge2, Issue
<1>5. CASE Crypt2(l)
  <2>1. first[l] \in Ciphers /\ second[l] \in Ciphers
    BY <1>0, <1>5, CipherFacts DEF Handshake, Crypt2, NoChallenge
  <2>2. Derive(l, second[l].salt)
    BY <1>5 DEF Crypt2
  <2>3. /\ cipher' \in [Logins -> Ciphers \cup {NoCipher}] /\ cache' \in [Auths -> Ciphers \cup {NoCipher}]
        /\ nonce' \in [Logins -> {"none", "fresh", "old", "used"}]
    BY <1>0, <2>1, <2>2, DeriveTyped
  <2>4. QED
    BY <1>5, <2>3 DEF Crypt2
<1>6. CASE Unsupported(l)
  BY <1>6 DEF Unsupported, Fail
<1>7. CASE ChallengeRefused(l)
  BY <1>7 DEF ChallengeRefused, Fail
<1>8. CASE ChallengeLost(l)
  BY <1>8 DEF ChallengeLost, Fail
<1>9. CASE Send(l)
  BY <1>9 DEF Send
<1>10. CASE Succeeded(l)
  BY <1>10 DEF Succeeded
<1>11. CASE Refused(l)
  BY <1>11 DEF Refused, Fail
<1>12. CASE GiveUp(l)
  BY <1>12 DEF GiveUp, Fail
<1>13. CASE ServeWrong(l)
  BY <1>13 DEF ServeWrong, Answer
<1>14. CASE ServeStale(l)
  BY <1>14 DEF ServeStale, Answer
<1>15. CASE ServeGranted(l)
  BY <1>15 DEF ServeGranted, Answer
<1>16. CASE Lose(l)
  BY <1>16 DEF Lose
<1>17. QED
  BY <1>1, <1>2, <1>3, <1>4, <1>5, <1>6, <1>7, <1>8, <1>9, <1>10, <1>11, <1>12, <1>13, <1>14, <1>15, <1>16 DEF LoginStep

(* A step of a login keeps what it knows at that step.                     *)
LEMMA OwnHandshake ==
  ASSUME LoginInv, NEW l \in Logins, LoginStep(l)
  PROVE  Handshake(l)'
<1>0. Typed /\ Handshake(l) /\ Requested(l) /\ Signed(l)
  BY DEF LoginInv
<1>a. /\ l \in DOMAIN pc /\ l \in DOMAIN first /\ l \in DOMAIN second /\ l \in DOMAIN cipher
      /\ l \in DOMAIN nonce /\ l \in DOMAIN wire /\ l \in DOMAIN answer /\ l \in DOMAIN granted
      /\ entry \in Ciphers /\ entry # NoChallenge
  BY <1>0, CipherFacts DEF Typed, Ciphers, NoChallenge, NoCipher
<1> USE DEF Handshake, NoChallenge, clientVars, routerVars
<1>1. CASE Start(l)
  BY <1>0, <1>a, <1>1 DEF Start
<1>2. CASE Challenge1(l)
  BY <1>0, <1>a, <1>2 DEF Challenge1, Issue
<1>3. CASE Crypt1(l)
  <2>1. first[l] \in Ciphers
    BY <1>0, <1>a, <1>3, CipherFacts DEF Typed, Handshake, Crypt1, NoChallenge
  <2>2. Derive(l, first[l].salt)
    BY <1>3 DEF Crypt1
  <2>3. cipher'[l] # NoCipher /\ nonce'[l] \in {nonce[l], "old"}
    BY <1>0, <2>1, <2>2, DeriveTyped
  <2>4. QED
    BY <1>0, <1>a, <1>3, <2>3 DEF Crypt1
<1>4. CASE Challenge2(l)
  BY <1>0, <1>a, <1>4 DEF Challenge2, Issue
<1>5. CASE Crypt2(l)
  <2>1. first[l] \in Ciphers /\ second[l] \in Ciphers
    BY <1>0, <1>a, <1>5, CipherFacts DEF Typed, Handshake, Crypt2, NoChallenge
  <2>2. Derive(l, second[l].salt)
    BY <1>5 DEF Crypt2
  <2>3. cipher'[l] # NoCipher /\ nonce'[l] \in {nonce[l], "old"}
    BY <1>0, <2>1, <2>2, DeriveTyped
  <2>4. QED
    BY <1>0, <1>a, <1>5, <2>3 DEF Crypt2
<1>6. CASE Unsupported(l)
  BY <1>0, <1>a, <1>6 DEF Unsupported, Fail
<1>7. CASE ChallengeRefused(l)
  BY <1>0, <1>a, <1>7 DEF ChallengeRefused, Fail
<1>8. CASE ChallengeLost(l)
  BY <1>0, <1>a, <1>8 DEF ChallengeLost, Fail
<1>9. CASE Send(l)
  BY <1>0, <1>a, <1>9 DEF Send
<1>10. CASE Succeeded(l)
  BY <1>0, <1>a, <1>10 DEF Succeeded
<1>11. CASE Refused(l)
  BY <1>0, <1>a, <1>11 DEF Refused, Fail
<1>12. CASE GiveUp(l)
  BY <1>0, <1>a, <1>12 DEF GiveUp, Fail
<1>13. CASE ServeWrong(l)
  BY <1>0, <1>a, <1>13 DEF ServeWrong, Answer
<1>14. CASE ServeStale(l)
  BY <1>0, <1>a, <1>14 DEF ServeStale, Answer
<1>15. CASE ServeGranted(l)
  BY <1>0, <1>a, <1>15 DEF ServeGranted, Answer
<1>16. CASE Lose(l)
  BY <1>0, <1>a, <1>16 DEF Lose
<1>17. QED
  BY <1>1, <1>2, <1>3, <1>4, <1>5, <1>6, <1>7, <1>8, <1>9, <1>10, <1>11, <1>12, <1>13, <1>14, <1>15, <1>16 DEF LoginStep

(* One request, one answer, and after the answer nothing on the wire.      *)
LEMMA OwnRequest ==
  ASSUME LoginInv, NEW l \in Logins, LoginStep(l)
  PROVE  Requested(l)'
<1>0. Typed /\ Handshake(l) /\ Requested(l) /\ Signed(l)
  BY DEF LoginInv
<1>a. /\ l \in DOMAIN pc /\ l \in DOMAIN first /\ l \in DOMAIN second /\ l \in DOMAIN cipher
      /\ l \in DOMAIN nonce /\ l \in DOMAIN wire /\ l \in DOMAIN answer /\ l \in DOMAIN granted
  BY <1>0 DEF Typed
<1> USE DEF Requested, clientVars, routerVars
<1>1. CASE Start(l)
  BY <1>0, <1>a, <1>1 DEF Start
<1>2. CASE Challenge1(l)
  BY <1>0, <1>a, <1>2 DEF Challenge1, Issue
<1>3. CASE Crypt1(l)
  BY <1>0, <1>a, <1>3 DEF Crypt1
<1>4. CASE Challenge2(l)
  BY <1>0, <1>a, <1>4 DEF Challenge2, Issue
<1>5. CASE Crypt2(l)
  BY <1>0, <1>a, <1>5 DEF Crypt2
<1>6. CASE Unsupported(l)
  BY <1>0, <1>a, <1>6 DEF Unsupported, Fail
<1>7. CASE ChallengeRefused(l)
  BY <1>0, <1>a, <1>7 DEF ChallengeRefused, Fail
<1>8. CASE ChallengeLost(l)
  BY <1>0, <1>a, <1>8 DEF ChallengeLost, Fail
<1>9. CASE Send(l)
  BY <1>0, <1>a, <1>9 DEF Send
<1>10. CASE Succeeded(l)
  BY <1>0, <1>a, <1>10 DEF Succeeded
<1>11. CASE Refused(l)
  BY <1>0, <1>a, <1>11 DEF Refused, Fail
<1>12. CASE GiveUp(l)
  BY <1>0, <1>a, <1>12 DEF GiveUp, Fail
<1>13. CASE ServeWrong(l)
  BY <1>0, <1>a, <1>13 DEF ServeWrong, Answer
<1>14. CASE ServeStale(l)
  BY <1>0, <1>a, <1>14 DEF ServeStale, Answer
<1>15. CASE ServeGranted(l)
  BY <1>0, <1>a, <1>15 DEF ServeGranted, Answer
<1>16. CASE Lose(l)
  BY <1>0, <1>a, <1>16 DEF Lose
<1>17. QED
  BY <1>1, <1>2, <1>3, <1>4, <1>5, <1>6, <1>7, <1>8, <1>9, <1>10, <1>11, <1>12, <1>13, <1>14, <1>15, <1>16 DEF LoginStep

(* The nonce is fresh after the second challenge, and old only if a crypt *)
(* had to follow.                                                          *)
LEMMA OwnNonce ==
  ASSUME LoginInv, NEW l \in Logins, LoginStep(l)
  PROVE  Signed(l)'
<1>0. Typed /\ Handshake(l) /\ Requested(l) /\ Signed(l)
  BY DEF LoginInv
<1>a. /\ l \in DOMAIN pc /\ l \in DOMAIN first /\ l \in DOMAIN second /\ l \in DOMAIN cipher
      /\ l \in DOMAIN nonce /\ l \in DOMAIN wire /\ l \in DOMAIN answer /\ l \in DOMAIN granted
  BY <1>0 DEF Typed
<1> USE DEF Signed, Requested, Handshake, clientVars, routerVars
<1>1. CASE Start(l)
  BY <1>0, <1>a, <1>1 DEF Start
<1>2. CASE Challenge1(l)
  BY <1>0, <1>a, <1>2 DEF Challenge1, Issue
<1>3. CASE Crypt1(l)
  <2>1. first[l] \in Ciphers
    BY <1>0, <1>a, <1>3, CipherFacts DEF Typed, Handshake, Crypt1, NoChallenge
  <2>2. Derive(l, first[l].salt)
    BY <1>3 DEF Crypt1
  <2>3. cipher'[l] # NoCipher /\ nonce'[l] \in {nonce[l], "old"}
    BY <1>0, <2>1, <2>2, DeriveTyped
  <2>4. QED
    BY <1>0, <1>a, <1>3, <2>3 DEF Crypt1
<1>4. CASE Challenge2(l)
  BY <1>0, <1>a, <1>4 DEF Challenge2, Issue
<1>5. CASE Crypt2(l)
  <2>1. first[l] \in Ciphers /\ second[l] \in Ciphers
    BY <1>0, <1>a, <1>5, CipherFacts DEF Typed, Handshake, Crypt2, NoChallenge
  <2>2. Derive(l, second[l].salt)
    BY <1>5 DEF Crypt2
  <2>3. cipher'[l] # NoCipher /\ nonce'[l] \in {nonce[l], "old"}
    BY <1>0, <2>1, <2>2, DeriveTyped
  <2>4. QED
    BY <1>0, <1>a, <1>5, <2>3 DEF Crypt2
<1>6. CASE Unsupported(l)
  BY <1>0, <1>a, <1>6 DEF Unsupported, Fail
<1>7. CASE ChallengeRefused(l)
  BY <1>0, <1>a, <1>7 DEF ChallengeRefused, Fail
<1>8. CASE ChallengeLost(l)
  BY <1>0, <1>a, <1>8 DEF ChallengeLost, Fail
<1>9. CASE Send(l)
  BY <1>0, <1>a, <1>9 DEF Send
<1>10. CASE Succeeded(l)
  BY <1>0, <1>a, <1>10 DEF Succeeded
<1>11. CASE Refused(l)
  BY <1>0, <1>a, <1>11 DEF Refused, Fail
<1>12. CASE GiveUp(l)
  BY <1>0, <1>a, <1>12 DEF GiveUp, Fail
<1>13. CASE ServeWrong(l)
  BY <1>0, <1>a, <1>13 DEF ServeWrong, Answer
<1>14. CASE ServeStale(l)
  BY <1>0, <1>a, <1>14 DEF ServeStale, Answer
<1>15. CASE ServeGranted(l)
  BY <1>0, <1>a, <1>15 DEF ServeGranted, Answer
<1>16. CASE Lose(l)
  BY <1>0, <1>a, <1>16 DEF Lose
<1>17. QED
  BY <1>1, <1>2, <1>3, <1>4, <1>5, <1>6, <1>7, <1>8, <1>9, <1>10, <1>11, <1>12, <1>13, <1>14, <1>15, <1>16 DEF LoginStep

(* LoginInv is inductive.                                                  *)
LEMMA LoginInvStep == LoginInv /\ [Next]_vars => LoginInv'
<1> SUFFICES ASSUME LoginInv, [Next]_vars PROVE LoginInv'
  OBVIOUS
<1>1. ASSUME NEW l \in Logins, LoginStep(l) PROVE LoginInv'
  <2>1. Typed'
    BY <1>1, TypedStep DEF LoginInv
  <2>2. ASSUME NEW m \in Logins PROVE (Handshake(m) /\ Requested(m) /\ Signed(m))'
    <3>1. CASE m = l
      BY <1>1, <3>1, OwnHandshake, OwnRequest, OwnNonce
    <3>2. CASE m # l
      <4>1. SameFor(m) /\ Handshake(m) /\ Requested(m) /\ Signed(m)
        BY <1>1, <3>2, OthersKeep DEF LoginInv
      <4>2. QED
        BY <4>1 DEF SameFor, Handshake, Requested, Signed
    <3>3. QED
      BY <3>1, <3>2
  <2>3. QED
    BY <2>1, <2>2 DEF LoginInv
<1>2. CASE Reset
  <2>1. entry' \in Ciphers
    BY <1>2, LoginAssumption DEF Reset, LoginInv, Typed, Ciphers, LoginAssumption
  <2>2. UNCHANGED <<nonce, cache, pc, first, second, cipher, wire, answer, granted>>
    BY <1>2 DEF Reset, clientVars
  <2>3. Typed'
    BY <2>1, <2>2 DEF LoginInv, Typed
  <2>4. \A l \in Logins : (Handshake(l) /\ Requested(l) /\ Signed(l))'
    BY <2>2 DEF LoginInv, Handshake, Requested, Signed
  <2>5. QED
    BY <2>3, <2>4 DEF LoginInv
<1>3. CASE UNCHANGED vars
  BY <1>3 DEF vars, clientVars, routerVars, LoginInv, Typed, Handshake, Requested, Signed
<1>4. QED
  BY <1>1, <1>2, <1>3 DEF Next

(* It holds in every state of every behaviour.                             *)
THEOREM LoginInductive == Spec => []LoginInv
<1>1. Init => LoginInv
  <2> SUFFICES ASSUME Init PROVE LoginInv
    OBVIOUS
  <2>1. Typed
    BY LoginAssumption DEF Init, Typed, Ciphers, PC, Answers, LoginAssumption
  <2>2. \A l \in Logins : Handshake(l) /\ Requested(l) /\ Signed(l)
    BY DEF Init, Handshake, Requested, Signed
  <2>3. QED
    BY <2>1, <2>2 DEF LoginInv
<1>2. QED
  BY <1>1, LoginInvStep, PTL DEF Spec

(* With the right cipher a login is refused for its nonce only if the salt *)
(* changed between its challenges, so that a crypt followed the second.    *)
THEOREM NonceSafe == Spec => []NonceFresh
<1>1. LoginInv => NonceFresh
  BY DEF LoginInv, Signed, NonceFresh
<1>2. QED
  BY <1>1, LoginInductive, PTL

-----------------------------------------------------------------------------
(* Each login counts at most once.                                         *)

(* A login that is over stays so.                                          *)
LEMMA OverGrows ==
  ASSUME LoginInv, NEW l \in Logins, LoginStep(l)
  PROVE  Over \subseteq Over'
<1>1. ASSUME NEW m \in Over PROVE m \in Over'
  <2>1. m \in Logins /\ pc[m] \in {"sent", "done"} /\ ~wire[m]
    BY DEF Over
  <2>2. CASE m # l
    <3>1. SameFor(m)
      BY <2>1, <2>2, OthersKeep DEF LoginInv
    <3>2. QED
      BY <2>1, <3>1 DEF SameFor, Over
  <2>3. CASE m = l
    <3>1. pc'[l] \in {"sent", "done"} /\ ~wire'[l]
      <4>0. pc[l] \in {"sent", "done"} /\ ~wire[l] /\ l \in DOMAIN pc /\ l \in DOMAIN wire
        BY <2>1, <2>3 DEF LoginInv, Typed
      <4> USE DEF clientVars
      <4>1. CASE Start(l)
        BY <4>0, <4>1 DEF Start
      <4>2. CASE Challenge1(l)
        BY <4>0, <4>2 DEF Challenge1, Issue
      <4>3. CASE Crypt1(l)
        BY <4>0, <4>3 DEF Crypt1, Derive
      <4>4. CASE Challenge2(l)
        BY <4>0, <4>4 DEF Challenge2, Issue
      <4>5. CASE Crypt2(l)
        BY <4>0, <4>5 DEF Crypt2, Derive
      <4>6. CASE Unsupported(l)
        BY <4>0, <4>6 DEF Unsupported, Fail
      <4>7. CASE ChallengeRefused(l)
        BY <4>0, <4>7 DEF ChallengeRefused, Fail
      <4>8. CASE ChallengeLost(l)
        BY <4>0, <4>8 DEF ChallengeLost, Fail
      <4>9. CASE Send(l)
        BY <4>0, <4>9 DEF Send
      <4>10. CASE Succeeded(l)
        BY <4>0, <4>10 DEF Succeeded
      <4>11. CASE Refused(l)
        BY <4>0, <4>11 DEF Refused, Fail
      <4>12. CASE GiveUp(l)
        BY <4>0, <4>12 DEF GiveUp, Fail
      <4>13. CASE ServeWrong(l)
        BY <4>0, <4>13 DEF ServeWrong, Answer
      <4>14. CASE ServeStale(l)
        BY <4>0, <4>14 DEF ServeStale, Answer
      <4>15. CASE ServeGranted(l)
        BY <4>0, <4>15 DEF ServeGranted, Answer
      <4>16. CASE Lose(l)
        BY <4>0, <4>16 DEF Lose
      <4>17. QED
        BY <4>1, <4>2, <4>3, <4>4, <4>5, <4>6, <4>7, <4>8, <4>9, <4>10, <4>11, <4>12, <4>13, <4>14, <4>15, <4>16 DEF LoginStep
    <3>2. QED
      BY <2>1, <2>3, <3>1 DEF Over
  <2>4. QED
    BY <2>2, <2>3
<1>2. QED
  BY <1>1

(* Only a wrong digest counts, and the login that sent it is over then.    *)
LEMMA CountStep ==
  ASSUME LoginInv, NEW l \in Logins, LoginStep(l)
  PROVE  \/ UNCHANGED failures
         \/ failures' = failures + 1 /\ l \notin Over /\ l \in Over'
<1>1. CASE ServeWrong(l)
  <2>1. failures' = failures + 1 /\ wire[l] /\ wire' = [wire EXCEPT ![l] = FALSE] /\ pc' = pc
    BY <1>1 DEF ServeWrong, clientVars
  <2>2. pc[l] \in {"sent", "done"}
    BY <2>1 DEF LoginInv, Requested
  <2>3. ~wire'[l]
    BY <2>1 DEF LoginInv, Typed
  <2>4. QED
    BY <2>1, <2>2, <2>3 DEF Over
<1>2. CASE ~ServeWrong(l)
  BY <1>2 DEF LoginStep, Start, Challenge1, Crypt1, Challenge2, Crypt2, Unsupported, ChallengeRefused,
              ChallengeLost, Send, Succeeded, Refused, GiveUp, ServeStale, ServeGranted, Lose, routerVars
<1>3. QED
  BY <1>1, <1>2

(* The router never counts more wrong logins than there have been.         *)
THEOREM CountSafe == Spec => [](failures \in 0..Cardinality(Over))
<1> DEFINE Count == failures \in 0..Cardinality(Over)
<1>0. IsFiniteSet(Over) /\ IsFiniteSet(Over') /\ Cardinality(Over) \in Nat /\ Cardinality(Over') \in Nat
  <2>1. Over \subseteq Logins /\ Over' \subseteq Logins /\ IsFiniteSet(Logins)
    BY LoginAssumption DEF Over, LoginAssumption
  <2>2. IsFiniteSet(Over) /\ IsFiniteSet(Over')
    BY <2>1, FS_Subset
  <2>3. QED
    BY <2>2, FS_CardinalityType
<1>1. Init => Count
  BY <1>0 DEF Init
<1>2. LoginInv /\ Count /\ [Next]_vars => Count'
  <2> SUFFICES ASSUME LoginInv, Count, [Next]_vars PROVE Count'
    OBVIOUS
  <2>1. ASSUME NEW l \in Logins, LoginStep(l) PROVE Count'
    <3>1. Over \subseteq Over'
      BY <2>1, OverGrows
    <3>2. Cardinality(Over) <= Cardinality(Over')
      BY <1>0, <3>1, FS_Subset
    <3>3. CASE failures' = failures
      BY <1>0, <3>2, <3>3
    <3>4. CASE failures' = failures + 1 /\ l \notin Over /\ l \in Over'
      <4>1. Cardinality(Over \cup {l}) = Cardinality(Over) + 1
        BY <1>0, <3>4, FS_AddElement
      <4>2. Cardinality(Over \cup {l}) <= Cardinality(Over')
        BY <1>0, <3>1, <3>4, FS_Subset
      <4>3. QED
        BY <1>0, <3>4, <4>1, <4>2
    <3>5. QED
      BY <2>1, <3>3, <3>4, CountStep
  <2>2. CASE Reset
    BY <2>2 DEF Reset, clientVars, Over
  <2>3. CASE UNCHANGED vars
    BY <2>3 DEF vars, clientVars, routerVars, Over
  <2>4. QED
    BY <2>1, <2>2, <2>3 DEF Next
<1>3. QED
  BY <1>1, <1>2, LoginInductive, PTL DEF Spec

(* Every variable keeps its type; a login signs only with a challenge and  *)
(* a cipher, and is counted as wrong at most once.                         *)
THEOREM TypeCorrect == Spec => []TypeOK
<1>1. LoginInv /\ failures \in 0..Cardinality(Over) => TypeOK
  <2> SUFFICES ASSUME LoginInv, failures \in 0..Cardinality(Over) PROVE TypeOK
    OBVIOUS
  <2>1. failures \in 0..Cardinality(Logins)
    <3>1. Over \subseteq Logins /\ IsFiniteSet(Logins)
      BY LoginAssumption DEF Over, LoginAssumption
    <3>2. IsFiniteSet(Over) /\ Cardinality(Over) <= Cardinality(Logins)
      BY <3>1, FS_Subset
    <3>3. Cardinality(Over) \in Nat /\ Cardinality(Logins) \in Nat
      BY <3>1, <3>2, FS_CardinalityType
    <3>4. QED
      BY <3>2, <3>3
  <2>2. \A l \in Logins : pc[l] \in {"send", "sent"} =>
          second[l] # NoChallenge /\ cipher[l] # NoCipher
    BY DEF LoginInv, Handshake
  <2>3. QED
    BY <2>1, <2>2 DEF TypeOK, LoginInv, Typed
<1>2. QED
  BY <1>1, LoginInductive, CountSafe, PTL

-----------------------------------------------------------------------------
(* What the logins have been told.                                         *)

(* A challenge that a login has got stays its challenge.                   *)
LEMMA ChallengesStay ==
  ASSUME LoginInv, NEW l \in Logins, LoginStep(l), NEW m \in Logins
  PROVE  /\ first'[m] \in {first[m], entry} /\ second'[m] \in {second[m], entry}
         /\ first[m] # NoChallenge => first'[m] = first[m]
         /\ second[m] # NoChallenge => second'[m] = second[m] /\ first'[m] = first[m]
         /\ entry' = entry
<1>0. /\ Handshake(l) /\ l \in DOMAIN first /\ l \in DOMAIN second
      /\ m # l => SameFor(m)
  BY OthersKeep DEF LoginInv, Typed
<1> USE DEF Handshake, SameFor, clientVars, routerVars
<1>1. CASE Start(l)
  BY <1>0, <1>1 DEF Start
<1>2. CASE Challenge1(l)
  BY <1>0, <1>2 DEF Challenge1, Issue
<1>3. CASE Crypt1(l)
  BY <1>0, <1>3 DEF Crypt1, Derive
<1>4. CASE Challenge2(l)
  BY <1>0, <1>4 DEF Challenge2, Issue
<1>5. CASE Crypt2(l)
  BY <1>0, <1>5 DEF Crypt2, Derive
<1>6. CASE Unsupported(l)
  BY <1>0, <1>6 DEF Unsupported, Fail
<1>7. CASE ChallengeRefused(l)
  BY <1>0, <1>7 DEF ChallengeRefused, Fail
<1>8. CASE ChallengeLost(l)
  BY <1>0, <1>8 DEF ChallengeLost, Fail
<1>9. CASE Send(l)
  BY <1>0, <1>9 DEF Send
<1>10. CASE Succeeded(l)
  BY <1>0, <1>10 DEF Succeeded
<1>11. CASE Refused(l)
  BY <1>0, <1>11 DEF Refused, Fail
<1>12. CASE GiveUp(l)
  BY <1>0, <1>12 DEF GiveUp, Fail
<1>13. CASE ServeWrong(l)
  BY <1>0, <1>13 DEF ServeWrong, Answer
<1>14. CASE ServeStale(l)
  BY <1>0, <1>14 DEF ServeStale, Answer
<1>15. CASE ServeGranted(l)
  BY <1>0, <1>15 DEF ServeGranted, Answer
<1>16. CASE Lose(l)
  BY <1>0, <1>16 DEF Lose
<1>17. QED
  BY <1>1, <1>2, <1>3, <1>4, <1>5, <1>6, <1>7, <1>8, <1>9, <1>10, <1>11, <1>12, <1>13, <1>14, <1>15, <1>16 DEF LoginStep

(* A mixed authenticator stays mixed: both challenges are kept.            *)
LEMMA MixedStays ==
  ASSUME LoginInv, NEW l \in Logins, LoginStep(l), NEW a, Mixed(a)
  PROVE  Mixed(a)'
<1>1. PICK m \in Logins : Auth[m] = a /\ second[m] # NoChallenge /\ first[m].alg # second[m].alg
  BY DEF Mixed
<1>2. second'[m] = second[m] /\ first'[m] = first[m]
  BY <1>1, ChallengesStay
<1>3. QED
  BY <1>1, <1>2 DEF Mixed

(* Salts only go up, so no two entries ever share one.                     *)
LEMMA SeenStep == LoginInv /\ OneEntryPerSalt /\ [Next]_vars => OneEntryPerSalt'
<1> SUFFICES ASSUME LoginInv, OneEntryPerSalt, [Next]_vars PROVE OneEntryPerSalt'
  OBVIOUS
<1>1. ASSUME NEW l \in Logins, LoginStep(l) PROVE OneEntryPerSalt'
  <2>1. entry' = entry /\ \A m \in Logins : first'[m] \in {first[m], entry} /\ second'[m] \in {second[m], entry}
    BY <1>1, ChallengesStay
  <2>2. Seen' \subseteq Seen
    BY <2>1 DEF Seen
  <2>3. QED
    BY <2>1, <2>2 DEF OneEntryPerSalt
<1>2. CASE Reset
  <2>1. entry'.salt = entry.salt + 1 /\ first' = first /\ second' = second
    BY <1>2 DEF Reset, clientVars
  <2>2. Seen' \subseteq Seen \cup {entry'}
    BY <2>1 DEF Seen
  <2>3. \A o \in Seen : o.salt \in Int
    BY CipherFacts DEF LoginInv, Typed, Seen, NoCipher, NoChallenge
  <2>4. entry.salt \in Int
    BY <2>3 DEF Seen
  <2>5. \A o \in Seen : o.salt < entry'.salt
    BY <2>1, <2>3, <2>4 DEF OneEntryPerSalt
  <2>6. \A o \in Seen' : o.salt <= entry'.salt
    BY <2>1, <2>2, <2>3, <2>4, <2>5
  <2>7. \A o, n \in Seen' : o.salt = n.salt => o = n
    BY <2>1, <2>2, <2>3, <2>4, <2>5 DEF OneEntryPerSalt
  <2>8. QED
    BY <2>6, <2>7 DEF OneEntryPerSalt
<1>3. CASE UNCHANGED vars
  BY <1>3 DEF vars, clientVars, routerVars, OneEntryPerSalt, Seen
<1>4. QED
  BY <1>1, <1>2, <1>3 DEF Next

(* The cipher that a challenge is answered with is the one that the router *)
(* has an entry of, unless the algorithm was mixed.                        *)
LEMMA CipherGenuine ==
  ASSUME LoginInv, OneEntryPerSalt, CacheGenuine, NEW l \in Logins,
         NEW e \in {first[l], second[l]}, e \in Ciphers, first[l] \in Ciphers
  PROVE  CipherFor(Auth[l], e.salt, first[l].alg) = e \/ Mixed(Auth[l])
<1> DEFINE c == cache[Auth[l]]
<1>1. Auth[l] \in Auths /\ e \in Seen /\ e # NoCipher
  BY CipherFacts DEF Auths, Seen, Ciphers, NoCipher
<1>2. CASE c.salt = e.salt
  <2>1. c # NoCipher
    BY <1>1, <1>2, CipherFacts
  <2>2. CASE \E m \in Logins : c \in {first[m], second[m]}
    <3>1. c \in Seen
      BY <2>2 DEF Seen
    <3>2. c = e
      BY <1>1, <1>2, <3>1 DEF OneEntryPerSalt
    <3>3. QED
      BY <1>2, <3>2 DEF CipherFor
  <2>3. QED
    BY <1>1, <2>1, <2>2 DEF CacheGenuine
<1>3. CASE c.salt # e.salt
  <2>1. CipherFor(Auth[l], e.salt, first[l].alg) = [salt |-> e.salt, alg |-> first[l].alg]
    BY <1>3 DEF CipherFor
  <2>2. e = [salt |-> e.salt, alg |-> e.alg]
    BY DEF Ciphers
  <2>3. CASE first[l].alg = e.alg
    BY <2>1, <2>2, <2>3
  <2>4. CASE first[l].alg # e.alg
    BY <1>1, <2>4 DEF Mixed, NoChallenge
  <2>5. QED
    BY <2>3, <2>4
<1>4. QED
  BY <1>2, <1>3

(* Each crypt of a login leaves it and its authenticator a genuine cipher. *)
LEMMA CryptGenuine ==
  ASSUME LoginInv, OneEntryPerSalt, CacheGenuine, NEW l \in Logins, Crypt1(l) \/ Crypt2(l)
  PROVE  \E e \in {first[l], second[l]} :
           /\ pc[l] = "crypt1" => e = first[l]
           /\ pc[l] = "crypt2" => e = second[l]
           /\ cipher'[l] = e \/ Mixed(Auth[l])
           /\ cache' = [cache EXCEPT ![Auth[l]] = cipher'[l]]
<1>0. Typed /\ Handshake(l)
  BY DEF LoginInv
<1>1. CASE Crypt1(l)
  <2>1. first[l] \in Ciphers /\ pc[l] = "crypt1"
    BY <1>0, <1>1, CipherFacts DEF Typed, Handshake, Crypt1, NoChallenge
  <2>2. Derive(l, first[l].salt)
    BY <1>1 DEF Crypt1
  <2>3. /\ cipher'[l] = CipherFor(Auth[l], first[l].salt, first[l].alg)
        /\ cache' = [cache EXCEPT ![Auth[l]] = cipher'[l]]
    BY <1>0, <2>1, <2>2, DeriveTyped
  <2>4. cipher'[l] = first[l] \/ Mixed(Auth[l])
    BY <2>1, <2>3, CipherGenuine
  <2>5. QED
    BY <2>1, <2>3, <2>4
<1>2. CASE Crypt2(l)
  <2>1. first[l] \in Ciphers /\ second[l] \in Ciphers /\ pc[l] = "crypt2"
    BY <1>0, <1>2, CipherFacts DEF Typed, Handshake, Crypt2, NoChallenge
  <2>2. Derive(l, second[l].salt)
    BY <1>2 DEF Crypt2
  <2>3. /\ cipher'[l] = CipherFor(Auth[l], second[l].salt, first[l].alg)
        /\ cache' = [cache EXCEPT ![Auth[l]] = cipher'[l]]
    BY <1>0, <2>1, <2>2, DeriveTyped
  <2>4. cipher'[l] = second[l] \/ Mixed(Auth[l])
    BY <2>1, <2>3, CipherGenuine
  <2>5. QED
    BY <2>1, <2>3, <2>4
<1>3. QED
  BY <1>1, <1>2

(* What an authenticator keeps stays genuine.                              *)
LEMMA CacheStep ==
  ASSUME LoginInv, OneEntryPerSalt, CacheGenuine, NEW l \in Logins, LoginStep(l)
  PROVE  CacheGenuine'
<1> SUFFICES ASSUME NEW a \in Auths, ~Mixed(a)', cache'[a] # NoCipher
             PROVE  \E m \in Logins : cache'[a] \in {first'[m], second'[m]}
  BY DEF CacheGenuine
<1>1. ~Mixed(a)
  BY MixedStays
<1>2. CASE cache'[a] = cache[a]
  <2>1. PICK m \in Logins : cache[a] \in {first[m], second[m]}
    BY <1>1, <1>2 DEF CacheGenuine
  <2>2. cache[a] # NoChallenge
    BY <1>2 DEF NoChallenge
  <2>3. cache'[a] \in {first'[m], second'[m]}
    BY <1>2, <2>1, <2>2, ChallengesStay
  <2>4. QED
    BY <2>3
<1>3. CASE cache'[a] # cache[a]
  <2>1. (Crypt1(l) \/ Crypt2(l)) /\ a \in DOMAIN cache
    BY <1>3 DEF LoginInv, Typed, LoginStep, Start, Challenge1, Challenge2, Unsupported, ChallengeRefused,
                ChallengeLost, Send, Succeeded, Refused, GiveUp, ServeWrong, ServeStale, ServeGranted, Lose, clientVars
  <2>2. PICK e \in {first[l], second[l]} :
           (cipher'[l] = e \/ Mixed(Auth[l])) /\ cache' = [cache EXCEPT ![Auth[l]] = cipher'[l]]
    BY <2>1, CryptGenuine
  <2>3. a = Auth[l] /\ cache'[a] = cipher'[l]
    BY <1>3, <2>1, <2>2
  <2>4. cache'[a] = e
    BY <1>1, <2>2, <2>3
  <2>5. first' = first /\ second' = second
    BY <2>1 DEF Crypt1, Crypt2
  <2>6. QED
    BY <2>4, <2>5
<1>4. QED
  BY <1>2, <1>3

(* The cipher that a login signs with stays genuine.                       *)
LEMMA OwnGenuine ==
  ASSUME LoginInv, OneEntryPerSalt, CacheGenuine, NEW l \in Logins, Genuine(l), LoginStep(l)
  PROVE  Genuine(l)'
<1>0. /\ Genuine(l) /\ Handshake(l) /\ Requested(l)
      /\ l \in DOMAIN pc /\ l \in DOMAIN first /\ l \in DOMAIN second /\ l \in DOMAIN cipher
      /\ l \in DOMAIN wire
  BY DEF LoginInv, Typed
<1>a. Mixed(Auth[l]) => Mixed(Auth[l])'
  BY MixedStays
<1> DEFINE mixed == Mixed(Auth[l])
<1>b. mixed => mixed'
  BY <1>a
<1>c. Genuine(l) <=> /\ pc[l] = "challenge2" => cipher[l] = first[l] \/ mixed
                     /\ pc[l] = "send" \/ wire[l] => cipher[l] = second[l] \/ mixed
  BY DEF Genuine
<1>d. Genuine(l)' <=> /\ pc'[l] = "challenge2" => cipher'[l] = first'[l] \/ mixed'
                      /\ pc'[l] = "send" \/ wire'[l] => cipher'[l] = second'[l] \/ mixed'
  BY DEF Genuine
<1> HIDE DEF mixed
<1> USE DEF Requested, clientVars
<1>1. CASE Start(l)
  BY <1>0, <1>b, <1>c, <1>d, <1>1 DEF Start
<1>2. CASE Challenge1(l)
  BY <1>0, <1>b, <1>c, <1>d, <1>2 DEF Challenge1, Issue
<1>3. CASE Crypt1(l)
  <2>1. /\ first[l] = first'[l] /\ pc'[l] = "challenge2" /\ ~wire'[l] /\ pc[l] = "crypt1"
    BY <1>0, <1>3 DEF Crypt1
  <2>2. cipher'[l] = first[l] \/ mixed
    BY <1>3, <2>1, CryptGenuine DEF mixed
  <2>3. QED
    BY <1>b, <1>d, <2>1, <2>2
<1>4. CASE Challenge2(l)
  <2>1. /\ pc[l] = "challenge2" /\ second'[l] = entry /\ cipher'[l] = cipher[l] /\ first'[l] = first[l]
        /\ ~wire'[l] /\ pc'[l] = IF entry.salt # first[l].salt THEN "crypt2" ELSE "send"
    BY <1>0, <1>4 DEF Challenge2
  <2>2. entry \in Seen /\ first[l] \in Seen
    BY DEF Seen
  <2>3. entry.salt = first[l].salt => second'[l] = first[l]
    BY <2>1, <2>2 DEF OneEntryPerSalt
  <2>4. QED
    BY <1>0, <1>b, <1>c, <1>d, <2>1, <2>3
<1>5. CASE Crypt2(l)
  <2>1. /\ second[l] = second'[l] /\ pc'[l] = "send" /\ ~wire'[l] /\ pc[l] = "crypt2"
    BY <1>0, <1>5 DEF Crypt2
  <2>2. cipher'[l] = second[l] \/ mixed
    BY <1>5, <2>1, CryptGenuine DEF mixed
  <2>3. QED
    BY <1>b, <1>d, <2>1, <2>2
<1>6. CASE Unsupported(l)
  BY <1>0, <1>b, <1>c, <1>d, <1>6 DEF Unsupported, Fail
<1>7. CASE ChallengeRefused(l)
  BY <1>0, <1>b, <1>c, <1>d, <1>7 DEF ChallengeRefused, Fail
<1>8. CASE ChallengeLost(l)
  BY <1>0, <1>b, <1>c, <1>d, <1>8 DEF ChallengeLost, Fail
<1>9. CASE Send(l)
  BY <1>0, <1>b, <1>c, <1>d, <1>9 DEF Send
<1>10. CASE Succeeded(l)
  BY <1>0, <1>b, <1>c, <1>d, <1>10 DEF Succeeded
<1>11. CASE Refused(l)
  BY <1>0, <1>b, <1>c, <1>d, <1>11 DEF Refused, Fail
<1>12. CASE GiveUp(l)
  BY <1>0, <1>b, <1>c, <1>d, <1>12 DEF GiveUp, Fail
<1>13. CASE ServeWrong(l)
  BY <1>0, <1>b, <1>c, <1>d, <1>13 DEF ServeWrong, Answer
<1>14. CASE ServeStale(l)
  BY <1>0, <1>b, <1>c, <1>d, <1>14 DEF ServeStale, Answer
<1>15. CASE ServeGranted(l)
  BY <1>0, <1>b, <1>c, <1>d, <1>15 DEF ServeGranted, Answer
<1>16. CASE Lose(l)
  BY <1>0, <1>b, <1>c, <1>d, <1>16 DEF Lose
<1>17. QED
  BY <1>1, <1>2, <1>3, <1>4, <1>5, <1>6, <1>7, <1>8, <1>9, <1>10, <1>11, <1>12, <1>13, <1>14, <1>15, <1>16 DEF LoginStep

(* Together they are inductive.                                            *)
GenuineInv == OneEntryPerSalt /\ CacheGenuine /\ \A l \in Logins : Genuine(l)

LEMMA GenuineStep == LoginInv /\ GenuineInv /\ [Next]_vars => GenuineInv'
<1> SUFFICES ASSUME LoginInv, GenuineInv, [Next]_vars PROVE GenuineInv'
  OBVIOUS
<1>1. OneEntryPerSalt'
  BY SeenStep DEF GenuineInv
<1>2. ASSUME NEW l \in Logins, LoginStep(l) PROVE CacheGenuine' /\ \A m \in Logins : Genuine(m)'
  <2>1. CacheGenuine'
    BY <1>2, CacheStep DEF GenuineInv
  <2>2. ASSUME NEW m \in Logins PROVE Genuine(m)'
    <3>1. CASE m = l
      BY <1>2, <3>1, OwnGenuine DEF GenuineInv
    <3>2. CASE m # l
      <4>1. SameFor(m) /\ Genuine(m)
        BY <1>2, <3>2, OthersKeep DEF GenuineInv, LoginInv
      <4>2. Mixed(Auth[m]) => Mixed(Auth[m])'
        BY <1>2, MixedStays
      <4> DEFINE mixed == Mixed(Auth[m])
      <4>3. mixed => mixed'
        BY <4>2
      <4>4. Genuine(m) <=> /\ pc[m] = "challenge2" => cipher[m] = first[m] \/ mixed
                           /\ pc[m] = "send" \/ wire[m] => cipher[m] = second[m] \/ mixed
        BY DEF Genuine
      <4>5. Genuine(m)' <=> /\ pc'[m] = "challenge2" => cipher'[m] = first'[m] \/ mixed'
                            /\ pc'[m] = "send" \/ wire'[m] => cipher'[m] = second'[m] \/ mixed'
        BY DEF Genuine
      <4> HIDE DEF mixed
      <4>6. QED
        BY <4>1, <4>3, <4>4, <4>5 DEF SameFor
    <3>3. QED
      BY <3>1, <3>2
  <2>3. QED
    BY <2>1, <2>2
<1>3. CASE Reset
  <2>1. UNCHANGED <<cache, pc, first, second, cipher, wire>>
    BY <1>3 DEF Reset, clientVars
  <2>2. QED
    BY <1>1, <2>1 DEF GenuineInv, CacheGenuine, Genuine, Mixed
<1>4. CASE UNCHANGED vars
  BY <1>1, <1>4 DEF vars, clientVars, GenuineInv, CacheGenuine, Genuine, Mixed
<1>5. QED
  BY <1>1, <1>2, <1>3, <1>4 DEF Next, GenuineInv

(* The cipher that the program keeps, keyed by its salt, is always one the *)
(* router asked for with that salt, unless it saw the algorithm change     *)
(* between two challenges of one login.                                    *)
THEOREM CacheSafe == Spec => []GenuineInv
<1>1. Init => GenuineInv
  <2> SUFFICES ASSUME Init PROVE GenuineInv
    OBVIOUS
  <2>1. Seen \subseteq {entry, NoChallenge} /\ entry.salt = 0 /\ NoChallenge.salt = -1
    BY DEF Init, Seen, NoChallenge, NoCipher
  <2>2. OneEntryPerSalt
    BY <2>1 DEF OneEntryPerSalt
  <2>3. QED
    BY <2>2 DEF Init, GenuineInv, CacheGenuine, Genuine
<1>2. QED
  BY <1>1, GenuineStep, LoginInductive, PTL DEF Spec

(* The right password is never counted as a wrong one, except after a      *)
(* password was set again behind the second challenge, or with a Mixed     *)
(* cipher.                                                                 *)
THEOREM InnocentSafe == Spec => InnocentNotCounted
<1> DEFINE A == \A l \in Logins : failures' > failures /\ wire[l] /\ ~wire'[l] =>
                  \/ Auth[l] \in Wrong
                  \/ second[l] # entry
                  \/ Mixed(Auth[l])
<1>1. LoginInv /\ GenuineInv /\ failures \in 0..Cardinality(Over) /\ [Next]_vars => [A]_vars
  <2> SUFFICES ASSUME LoginInv, GenuineInv, failures \in 0..Cardinality(Over), Next,
                      NEW l \in Logins, failures' > failures, wire[l], ~wire'[l]
               PROVE  Auth[l] \in Wrong \/ second[l] # entry \/ Mixed(Auth[l])
    OBVIOUS
  <2>1. PICK m \in Logins : LoginStep(m)
    BY DEF Next, Reset
  <2>2. ServeWrong(m)
    BY <2>1 DEF LoginStep, Start, Challenge1, Crypt1, Challenge2, Crypt2, Unsupported, ChallengeRefused,
                ChallengeLost, Send, Succeeded, Refused, GiveUp, ServeStale, ServeGranted, Lose, routerVars
  <2>3. m = l
    BY <2>1, OthersKeep DEF LoginInv, SameFor
  <2>4. Auth[l] \in Wrong \/ cipher[l] # entry
    BY <2>2, <2>3 DEF ServeWrong, DigestRight
  <2>5. cipher[l] = second[l] \/ Mixed(Auth[l])
    BY DEF GenuineInv, Genuine
  <2>6. QED
    BY <2>4, <2>5
<1>2. QED
  BY <1>1, LoginInductive, CacheSafe, CountSafe, PTL DEF Spec, InnocentNotCounted

-----------------------------------------------------------------------------
(* The step of a login is one of the remote call, or shows its caller      *)
(* nothing.                                                                *)
LEMMA RefineStep ==
  ASSUME LoginInv, NEW l \in Logins, LoginStep(l)
  PROVE  RC!RCNext \/ UNCHANGED RC!rcVars
<1> DEFINE S == [m \in Logins |-> StatusOf(m)]
<1>0. Typed /\ Requested(l) /\ l \in DOMAIN pc /\ l \in DOMAIN answer /\ l \in DOMAIN granted
  BY DEF LoginInv, Typed
<1> USE DEF RC!rcVars, StatusOf, Running, Typed, PC, Answers, Requested, clientVars, routerVars
<1>1. CASE Start(l)
  <2>1. S' = [S EXCEPT ![l] = "open"] /\ UNCHANGED granted
    BY <1>0, <1>1 DEF Start
  <2>2. S[l] = "idle"
    BY <1>0, <1>1 DEF Start
  <2>3. RC!Open(l)
    BY <2>1, <2>2 DEF RC!Open
  <2>4. QED
    BY <2>3 DEF RC!RCNext
<1>2. CASE Challenge1(l)
  BY <1>0, <1>2 DEF Challenge1, Issue
<1>3. CASE Crypt1(l)
  BY <1>0, <1>3 DEF Crypt1, Derive
<1>4. CASE Challenge2(l)
  BY <1>0, <1>4 DEF Challenge2, Issue
<1>5. CASE Crypt2(l)
  BY <1>0, <1>5 DEF Crypt2, Derive
<1>6. CASE Unsupported(l)
  <2>1. S' = [S EXCEPT ![l] = "refused"] /\ UNCHANGED granted
    BY <1>0, <1>6 DEF Unsupported, Fail
  <2>2. S[l] = "open" /\ granted[l] = 0
    BY <1>0, <1>6 DEF Unsupported, Fail
  <2>3. RC!ReturnRefused(l)
    BY <2>1, <2>2 DEF RC!ReturnRefused
  <2>4. QED
    BY <2>3 DEF RC!RCNext
<1>7. CASE ChallengeRefused(l)
  <2>1. S' = [S EXCEPT ![l] = "refused"] /\ UNCHANGED granted
    BY <1>0, <1>7 DEF ChallengeRefused, Fail
  <2>2. S[l] = "open" /\ granted[l] = 0
    BY <1>0, <1>7 DEF ChallengeRefused, Fail
  <2>3. RC!ReturnRefused(l)
    BY <2>1, <2>2 DEF RC!ReturnRefused
  <2>4. QED
    BY <2>3 DEF RC!RCNext
<1>8. CASE ChallengeLost(l)
  <2>1. S' = [S EXCEPT ![l] = "unknown"] /\ UNCHANGED granted
    BY <1>0, <1>8 DEF ChallengeLost, Fail
  <2>2. S[l] = "open"
    BY <1>0, <1>8 DEF ChallengeLost, Fail
  <2>3. RC!ReturnUnknown(l)
    BY <2>1, <2>2 DEF RC!ReturnUnknown
  <2>4. QED
    BY <2>3 DEF RC!RCNext
<1>9. CASE Send(l)
  BY <1>0, <1>9 DEF Send
<1>10. CASE Succeeded(l)
  <2>1. S' = [S EXCEPT ![l] = "ok"] /\ UNCHANGED granted
    BY <1>0, <1>10 DEF Succeeded
  <2>2. S[l] = "open" /\ granted[l] = 1
    BY <1>0, <1>10 DEF Succeeded
  <2>3. RC!ReturnOk(l)
    BY <2>1, <2>2 DEF RC!ReturnOk
  <2>4. QED
    BY <2>3 DEF RC!RCNext
<1>11. CASE Refused(l)
  <2>1. S' = [S EXCEPT ![l] = "refused"] /\ UNCHANGED granted
    BY <1>0, <1>11 DEF Refused, Fail
  <2>2. S[l] = "open" /\ granted[l] = 0
    BY <1>0, <1>11 DEF Refused, Fail
  <2>3. RC!ReturnRefused(l)
    BY <2>1, <2>2 DEF RC!ReturnRefused
  <2>4. QED
    BY <2>3 DEF RC!RCNext
<1>12. CASE GiveUp(l)
  <2>1. S' = [S EXCEPT ![l] = "unknown"] /\ UNCHANGED granted
    BY <1>0, <1>12 DEF GiveUp, Fail
  <2>2. S[l] = "open"
    BY <1>0, <1>12 DEF GiveUp, Fail
  <2>3. RC!ReturnUnknown(l)
    BY <2>1, <2>2 DEF RC!ReturnUnknown
  <2>4. QED
    BY <2>3 DEF RC!RCNext
<1>13. CASE ServeWrong(l)
  BY <1>0, <1>13 DEF ServeWrong, Answer
<1>14. CASE ServeStale(l)
  BY <1>0, <1>14 DEF ServeStale, Answer
<1>15. CASE ServeGranted(l)
  <2>1. S' = S /\ S[l] \in {"open", "unknown"} /\ granted[l] = 0
    BY <1>0, <1>15 DEF ServeGranted, Answer
  <2>2. granted' = [granted EXCEPT ![l] = 1]
    BY <2>1, <1>15 DEF ServeGranted
  <2>3. RC!Apply(l)
    BY <2>1, <2>2 DEF RC!Apply
  <2>4. QED
    BY <2>3 DEF RC!RCNext
<1>16. CASE Lose(l)
  BY <1>0, <1>16 DEF Lose
<1>17. QED
  BY <1>1, <1>2, <1>3, <1>4, <1>5, <1>6, <1>7, <1>8, <1>9, <1>10, <1>11, <1>12, <1>13, <1>14, <1>15, <1>16 DEF LoginStep

(* The handshake with its router implements the remote call: at most one   *)
(* session for a login, a session id only of one that was made, and after  *)
(* an answered error none, ever.                                           *)
THEOREM Implements == Spec => RemoteCallSpec
<1>1. Init => RC!RCInit
  <2> SUFFICES ASSUME Init PROVE RC!RCInit
    OBVIOUS
  <2>1. \A l \in Logins : StatusOf(l) = "idle"
    BY DEF Init, StatusOf, Running
  <2>2. granted = [l \in Logins |-> 0]
    BY DEF Init
  <2>3. QED
    BY <2>1, <2>2 DEF RC!RCInit
<1>2. LoginInv /\ [Next]_vars => [RC!RCNext]_(RC!rcVars)
  <2> SUFFICES ASSUME LoginInv, [Next]_vars PROVE RC!RCNext \/ UNCHANGED RC!rcVars
    OBVIOUS
  <2>1. CASE Reset
    BY <2>1 DEF Reset, clientVars, RC!rcVars, StatusOf, Running
  <2>2. CASE UNCHANGED vars
    BY <2>2 DEF vars, clientVars, RC!rcVars, StatusOf, Running
  <2>3. QED
    BY <2>1, <2>2, RefineStep DEF Next
<1>3. QED
  BY <1>1, <1>2, LoginInductive, PTL DEF Spec, RemoteCallSpec, RC!RCSpec
=============================================================================
