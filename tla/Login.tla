------------------------------- MODULE Login --------------------------------
(***************************************************************************)
(* The login handshake (src/auth/login.go) and the router's side of it     *)
(* (src/mock/server.go): challenge, crypt, second challenge, login.        *)
(*                                                                         *)
(* Each element of Logins is one invocation of Login by an Authenticator,  *)
(* which runs one login at a time (Session: the mutex) and keeps the last  *)
(* cipher.  A cipher is [salt, alg]: the crypt of the password under them. *)
(* Of the nonces only the one that a login will sign matters.  It lives    *)
(* about a second: longer than a request, shorter than a crypt, so it may  *)
(* have expired once a crypt has run.  The digest is right if the password *)
(* and the cipher are; which hash makes it is left out.                    *)
(***************************************************************************)
EXTENDS Integers, FiniteSets

CONSTANTS
  Logins,           \* invocations of Authenticator.Login
  Auth,             \* the authenticator each of them belongs to
  Wrong,            \* the authenticators that have a wrong password
  Algs,             \* crypt algorithms a router may name
  Supported,        \* those of them the program implements
  MaxLoginFailures, \* wrong logins the router takes before it locks out
  MaxResets         \* bound: times the router's password entry is rewritten

Auths == {Auth[l] : l \in Logins}

ASSUME LoginAssumption ==
  /\ IsFiniteSet(Logins)
  /\ Wrong \subseteq Auths
  /\ Supported \subseteq Algs
  /\ MaxLoginFailures \in Nat \ {0} /\ MaxResets \in Nat

VARIABLES
  entry,            \* the router's password entry: [salt, alg]
  nonce,            \* the router's last nonce for each login
  failures,         \* logins the router counts as wrong
  cache,            \* each authenticator's cipher, or NoCipher
  pc, first, second, cipher,  \* each login: where it is, its two challenges
  wire,             \* its login request is on the wire
  answer,           \* what the router answered last
  errs,             \* the sentinels the returned error wraps
  granted           \* sessions the router created for it

clientVars == <<cache, pc, first, second, cipher>>
routerVars == <<entry, nonce, failures>>
vars == <<routerVars, clientVars, wire, answer, errs, granted>>

NoCipher == [salt |-> -1, alg |-> 0]
NoChallenge == NoCipher

Init ==
  /\ entry \in {[salt |-> 0, alg |-> g] : g \in Algs}
  /\ nonce  = [l \in Logins |-> "none"]
  /\ failures = 0
  /\ cache  = [a \in Auths |-> NoCipher]
  /\ pc     = [l \in Logins |-> "idle"]
  /\ first  = [l \in Logins |-> NoChallenge]
  /\ second = [l \in Logins |-> NoChallenge]
  /\ cipher = [l \in Logins |-> NoCipher]
  /\ wire   = [l \in Logins |-> FALSE]
  /\ answer = [l \in Logins |-> "none"]
  /\ errs   = [l \in Logins |-> {}]
  /\ granted = [l \in Logins |-> 0]

Running(l) == pc[l] \notin {"idle", "done"}

-----------------------------------------------------------------------------
(* The authenticator.                                                      *)

Start(l) ==
  /\ pc[l] = "idle"
  /\ \A m \in Logins : Auth[m] = Auth[l] => ~Running(m)
  /\ pc' = [pc EXCEPT ![l] = "challenge1"]
  /\ UNCHANGED <<routerVars, cache, first, second, cipher, wire, answer, errs, granted>>

Fail(l, sentinels) ==
  /\ pc' = [pc EXCEPT ![l] = "done"]
  /\ errs' = [errs EXCEPT ![l] = sentinels]

\* handleChallenge: each answered challenge issues a nonce; a locked out router
\* answers none.
LockedOut == failures > MaxLoginFailures

Issue(l) == nonce' = [nonce EXCEPT ![l] = "fresh"]

Challenge1(l) ==
  /\ pc[l] = "challenge1"
  /\ ~LockedOut
  /\ Issue(l)
  /\ first' = [first EXCEPT ![l] = entry]
  /\ pc' = [pc EXCEPT ![l] = "crypt1"]
  /\ UNCHANGED <<entry, failures, cache, second, cipher, wire, answer, errs, granted>>

\* Mutant of CipherFor: a cached cipher is used whatever the salt.
CipherForAnySalt(a, salt, alg) ==
  IF cache[a] # NoCipher THEN cache[a] ELSE [salt |-> salt, alg |-> alg]

\* cipherFor: the cached cipher if it is of this salt.
CipherFor(a, salt, alg) ==
  IF cache[a].salt = salt THEN cache[a] ELSE [salt |-> salt, alg |-> alg]

\* A crypt takes longer than a nonce may live.
Derive(l, salt) ==
  LET c == CipherFor(Auth[l], salt, first[l].alg) IN
    /\ c.alg \in Supported
    /\ nonce' = [nonce EXCEPT ![l] = IF c = cache[Auth[l]] THEN @ ELSE "old"]
    /\ cipher' = [cipher EXCEPT ![l] = c]
    /\ cache' = [cache EXCEPT ![Auth[l]] = c]

Crypt1(l) ==
  /\ pc[l] = "crypt1"
  /\ Derive(l, first[l].salt)
  /\ pc' = [pc EXCEPT ![l] = "challenge2"]
  /\ UNCHANGED <<entry, failures, first, second, wire, answer, errs, granted>>

\* Mutant of Challenge2: the nonce of the first challenge is signed.
Challenge2KeepsNonce(l) ==
  /\ pc[l] = "challenge2"
  /\ ~LockedOut
  /\ second' = [second EXCEPT ![l] = entry]
  /\ pc' = [pc EXCEPT ![l] = IF entry.salt # first[l].salt THEN "crypt2" ELSE "send"]
  /\ UNCHANGED <<routerVars, cache, first, cipher, wire, answer, errs, granted>>

\* The second challenge: its nonce is signed, a changed salt needs the crypt
\* again, under the algorithm the first challenge named.
Challenge2(l) ==
  /\ pc[l] = "challenge2"
  /\ ~LockedOut
  /\ Issue(l)
  /\ second' = [second EXCEPT ![l] = entry]
  /\ pc' = [pc EXCEPT ![l] = IF entry.salt # first[l].salt THEN "crypt2" ELSE "send"]
  /\ UNCHANGED <<entry, failures, cache, first, cipher, wire, answer, errs, granted>>

Crypt2(l) ==
  /\ pc[l] = "crypt2"
  /\ Derive(l, second[l].salt)
  /\ pc' = [pc EXCEPT ![l] = "send"]
  /\ UNCHANGED <<entry, failures, first, second, wire, answer, errs, granted>>

\* Cipher refuses an algorithm it does not implement.
Unsupported(l) ==
  /\ \/ /\ pc[l] = "crypt1"
        /\ CipherFor(Auth[l], first[l].salt, first[l].alg).alg \notin Supported
     \/ /\ pc[l] = "crypt2"
        /\ CipherFor(Auth[l], second[l].salt, first[l].alg).alg \notin Supported
  /\ Fail(l, {"ErrUnsupportedAlgorithm"})
  /\ UNCHANGED <<routerVars, cache, first, second, cipher, wire, answer, granted>>

\* A challenge that is refused by a locked out router, or not answered.
ChallengeRefused(l) ==
  /\ pc[l] \in {"challenge1", "challenge2"}
  /\ LockedOut
  /\ answer' = [answer EXCEPT ![l] = "limited"]
  /\ Fail(l, {"ErrLoginRateLimited"})
  /\ UNCHANGED <<routerVars, cache, first, second, cipher, wire, granted>>

ChallengeLost(l) ==
  /\ pc[l] \in {"challenge1", "challenge2"}
  /\ answer' = [answer EXCEPT ![l] = "lost"]
  /\ Fail(l, {})
  /\ UNCHANGED <<routerVars, cache, first, second, cipher, wire, granted>>

Send(l) ==
  /\ pc[l] = "send"
  /\ wire' = [wire EXCEPT ![l] = TRUE]
  /\ pc' = [pc EXCEPT ![l] = "sent"]
  /\ UNCHANGED <<routerVars, cache, first, second, cipher, answer, errs, granted>>

\* Login returns.  Whatever goes wrong with the login request is wrapped in
\* ErrUnauthorized.
Succeeded(l) ==
  /\ pc[l] = "sent"
  /\ answer[l] = "granted"
  /\ pc' = [pc EXCEPT ![l] = "done"]
  /\ UNCHANGED <<routerVars, cache, first, second, cipher, wire, answer, errs, granted>>

Refused(l) ==
  /\ pc[l] = "sent"
  /\ answer[l] \in {"denied", "stale", "limited"}
  /\ Fail(l, {"ErrUnauthorized"}
             \cup (IF answer[l] = "limited" THEN {"ErrLoginRateLimited"} ELSE {}))
  /\ UNCHANGED <<routerVars, cache, first, second, cipher, wire, answer, granted>>

\* Mutant of GiveUp: a login that is not answered is sent again.
GiveUpResends(l) ==
  /\ pc[l] = "sent"
  /\ pc' = [pc EXCEPT ![l] = "send"]
  /\ UNCHANGED <<routerVars, cache, first, second, cipher, wire, answer, errs, granted>>

GiveUp(l) ==
  /\ pc[l] = "sent"
  /\ answer' = [answer EXCEPT ![l] = "lost"]
  /\ Fail(l, {"ErrUnauthorized"})
  /\ UNCHANGED <<routerVars, cache, first, second, cipher, wire, granted>>

-----------------------------------------------------------------------------
(* The router.                                                             *)

Answer(l, r) == answer' = IF pc[l] = "sent" THEN [answer EXCEPT ![l] = r] ELSE answer

DigestRight(l) == Auth[l] \notin Wrong /\ cipher[l] = entry

\* handleLogin: a wrong digest is counted, an old or used nonce is not.  A
\* lockout does not stop a login whose challenge was answered before.
ServeWrong(l) ==
  /\ wire[l]
  /\ ~DigestRight(l)
  /\ failures' = failures + 1
  /\ Answer(l, IF failures' > MaxLoginFailures THEN "limited" ELSE "denied")
  /\ wire' = [wire EXCEPT ![l] = FALSE]
  /\ UNCHANGED <<entry, nonce, clientVars, errs, granted>>

ServeStale(l) ==
  /\ wire[l]
  /\ DigestRight(l)
  /\ nonce[l] \in {"old", "used"}
  /\ Answer(l, "stale")
  /\ wire' = [wire EXCEPT ![l] = FALSE]
  /\ UNCHANGED <<routerVars, clientVars, errs, granted>>

ServeGranted(l) ==
  /\ wire[l]
  /\ DigestRight(l)
  /\ nonce[l] \in {"fresh", "old"}
  /\ nonce' = [nonce EXCEPT ![l] = "used"]
  /\ granted' = [granted EXCEPT ![l] = @ + 1]
  /\ Answer(l, "granted")
  /\ wire' = [wire EXCEPT ![l] = FALSE]
  /\ UNCHANGED <<entry, failures, clientVars, errs>>

Lose(l) ==
  /\ wire[l]
  /\ wire' = [wire EXCEPT ![l] = FALSE]
  /\ UNCHANGED <<routerVars, clientVars, answer, errs, granted>>

\* The password is set again, to the same word: a new salt, perhaps another
\* algorithm.
Reset ==
  /\ entry.salt < MaxResets
  /\ \E g \in Algs : entry' = [salt |-> entry.salt + 1, alg |-> g]
  /\ UNCHANGED <<nonce, failures, clientVars, wire, answer, errs, granted>>

LoginStep(l) ==
  \/ Start(l) \/ Challenge1(l) \/ Crypt1(l) \/ Challenge2(l) \/ Crypt2(l)
  \/ Unsupported(l) \/ ChallengeRefused(l) \/ ChallengeLost(l)
  \/ Send(l) \/ Succeeded(l) \/ Refused(l) \/ GiveUp(l)
  \/ ServeWrong(l) \/ ServeStale(l) \/ ServeGranted(l) \/ Lose(l)

Next == (\E l \in Logins : LoginStep(l)) \/ Reset

Spec == Init /\ [][Next]_vars

-----------------------------------------------------------------------------
(* Properties.                                                             *)

PC == {"idle", "challenge1", "crypt1", "challenge2", "crypt2", "send", "sent", "done"}
Answers == {"none", "granted", "denied", "stale", "limited", "lost"}
Ciphers == [salt : 0..MaxResets, alg : Algs]

\* Types; a login that signs or has signed has a second challenge and a cipher
\* to sign its nonce with.
TypeOK ==
  /\ entry \in Ciphers
  /\ nonce \in [Logins -> {"none", "fresh", "old", "used"}]
  /\ failures \in 0..Cardinality(Logins)
  /\ cache \in [Auths -> Ciphers \cup {NoCipher}]
  /\ pc \in [Logins -> PC]
  /\ first \in [Logins -> Ciphers \cup {NoChallenge}]
  /\ second \in [Logins -> Ciphers \cup {NoChallenge}]
  /\ cipher \in [Logins -> Ciphers \cup {NoCipher}]
  /\ wire \in [Logins -> BOOLEAN]
  /\ answer \in [Logins -> Answers]
  /\ granted \in [Logins -> Nat]
  /\ \A l \in Logins : pc[l] \in {"send", "sent"} =>
       second[l] # NoChallenge /\ cipher[l] # NoCipher

\* "The second challenge supplies a nonce that is fresh at the moment the
\* digest is computed over it" (Login): with the right cipher a login is refused
\* for its nonce only if a changed salt made it crypt again after the second
\* challenge.
NonceFresh ==
  \A l \in Logins : answer[l] = "stale" => first[l].salt # second[l].salt

\* An authenticator saw the algorithm change between two challenges of a login:
\* it then keeps a cipher made of the new salt and the old algorithm.
Mixed(a) ==
  \E l \in Logins : /\ Auth[l] = a
                    /\ second[l] # NoChallenge
                    /\ first[l].alg # second[l].alg

\* The right password is never counted as a wrong one, so it cannot lock the
\* account out: through cached ciphers, salts that change between logins and
\* between challenges, lost requests and other programs' logins.  Left out are
\* a password set again after the second challenge, and Mixed.
InnocentNotCounted ==
  [][\A l \in Logins : failures' > failures /\ wire[l] /\ ~wire'[l] =>
       \/ Auth[l] \in Wrong
       \/ second[l] # entry
       \/ Mixed(Auth[l])]_vars

\* A login is a remote call: it makes at most one session, Login returns a
\* session id only if it did, an error that the router answered means that it
\* did not and never will; only after a lost answer nobody knows.
StatusOf(l) ==
  CASE pc[l] = "idle" -> "idle"
    [] Running(l) -> "open"
    [] pc[l] = "done" /\ answer[l] = "granted" -> "ok"
    [] pc[l] = "done" /\ answer[l] = "lost" -> "unknown"
    [] OTHER -> "refused"

RC == INSTANCE RemoteCall
  WITH Calls <- Logins, status <- [l \in Logins |-> StatusOf(l)], applied <- granted

RemoteCallSpec == RC!RCSpec
=============================================================================
