------------------------------ MODULE Session -------------------------------
(***************************************************************************)
(* The JSON-RPC transport (src/transport/rpc.go) and the session table of  *)
(* the router it talks to (src/mock/server.go, src/mock/handlers.go).      *)
(*                                                                         *)
(* Goroutines that share one RPC value call the router concurrently; a     *)
(* keepalive goroutine probes the session; Close stops it.  The router     *)
(* knows one session at a time and forgets it when it idles out, reboots   *)
(* or serves someone else's login.  Requests and replies may be lost, and  *)
(* a request whose sender stopped waiting may still be served.             *)
(*                                                                         *)
(* Each element of Calls is one invocation of Call.  A login is one        *)
(* request here; Login.tla opens it up.  A caller has at most one request  *)
(* on the wire, because every error path returns without retrying except   *)
(* the answered access denial.                                             *)
(***************************************************************************)
EXTENDS Integers, FiniteSets

CONSTANTS
  Calls,            \* invocations of RPC.Call
  Closers,          \* invocations of RPC.Close
  MaxConcurrent,    \* capacity of RPC.sem
  Keepalive,        \* KeepaliveInterval > 0: New starts the goroutine
  NoCall            \* value of sessionMu when nobody holds it

ASSUME ConstantsAssumption ==
  /\ IsFiniteSet(Calls)
  /\ NoCall \notin Calls
  /\ MaxConcurrent \in Nat \ {0}
  /\ Keepalive \in BOOLEAN

VARIABLES
  \* the RPC value
  sid,              \* current session id, NoSid when there is none
  generation,       \* number of sessions this transport has acquired
  sessionMu,        \* the Call that holds the mutex across its login
  slots,            \* len(r.sem)
  done,             \* r.done is closed
  \* the invocations of Call
  pc, mySid, myGen, retried, outcome,
  \* the keepalive goroutine and the invocations of Close
  kpc, kSid, closer,
  \* the wire and the router
  wire,             \* the request of a Call the router has not served
  reply,            \* the answer a Call has not read
  grant,            \* the sid carried by a login's answer
  live,             \* the one session the router accepts
  issued,           \* number of sessions the router has created
  applied           \* how often the effect of a Call was applied

sessionVars == <<sid, generation, sessionMu>>
callVars    == <<pc, mySid, myGen, retried, outcome>>
keepVars    == <<kpc, kSid, closer, done>>
netVars     == <<wire, reply, grant>>
routerVars  == <<live, issued, applied>>
vars == <<sessionVars, slots, callVars, keepVars, netVars, routerVars>>

NoSid == 0

PC == {"idle", "waiting", "session", "renew", "login", "wait", "done"}
Outcomes == {"none", "ok", "fault", "denied", "loginFailed", "cancelled", "lost"}
Requests == {"none", "call", "login"}
Replies  == {"none", "ok", "fault", "denied", "granted", "refused"}

Init ==
  /\ sid = NoSid /\ generation = 0 /\ sessionMu = NoCall
  /\ slots = 0
  /\ pc      = [c \in Calls |-> "idle"]
  /\ mySid   = [c \in Calls |-> NoSid]
  /\ myGen   = [c \in Calls |-> 0]
  /\ retried = [c \in Calls |-> FALSE]
  /\ outcome = [c \in Calls |-> "none"]
  /\ kpc = IF Keepalive THEN "idle" ELSE "stopped"
  /\ kSid = NoSid
  /\ closer  = [x \in Closers |-> "open"]
  /\ done = FALSE
  /\ wire    = [c \in Calls |-> "none"]
  /\ reply   = [c \in Calls |-> "none"]
  /\ grant   = [c \in Calls |-> NoSid]
  /\ live = NoSid /\ issued = 0
  /\ applied = [c \in Calls |-> 0]

-----------------------------------------------------------------------------
(* RPC.Call, one critical section or one wait at a time.                   *)

Begin(c) ==
  /\ pc[c] = "idle"
  /\ pc' = [pc EXCEPT ![c] = "waiting"]
  /\ UNCHANGED <<sessionVars, slots, mySid, myGen, retried, outcome,
                 keepVars, netVars, routerVars>>

\* r.sem <- struct{}{}
Acquire(c) ==
  /\ pc[c] = "waiting"
  /\ slots < MaxConcurrent
  /\ slots' = slots + 1
  /\ pc' = [pc EXCEPT ![c] = "session"]
  /\ UNCHANGED <<sessionVars, mySid, myGen, retried, outcome,
                 keepVars, netVars, routerVars>>

\* <-ctx.Done() while waiting for a slot: none is held, none is released.
CancelWait(c) ==
  /\ pc[c] = "waiting"
  /\ pc' = [pc EXCEPT ![c] = "done"]
  /\ outcome' = [outcome EXCEPT ![c] = "cancelled"]
  /\ UNCHANGED <<sessionVars, slots, mySid, myGen, retried,
                 keepVars, netVars, routerVars>>

\* Return from Call; the deferred receive on r.sem gives the slot back.
Return(c, result) ==
  /\ pc' = [pc EXCEPT ![c] = "done"]
  /\ outcome' = [outcome EXCEPT ![c] = result]
  /\ myGen' = [myGen EXCEPT ![c] = 0]
  /\ slots' = slots - 1

\* Put the request of r.do on the wire, carrying session s.
Post(c, s) ==
  /\ mySid' = [mySid EXCEPT ![c] = s]
  /\ wire' = [wire EXCEPT ![c] = "call"]
  /\ pc' = [pc EXCEPT ![c] = "wait"]

MutexFree == sessionMu = NoCall

\* session(): a sid is there, use it.
SessionHit(c) ==
  /\ pc[c] = "session"
  /\ MutexFree
  /\ sid # NoSid
  /\ Post(c, sid)
  /\ myGen' = [myGen EXCEPT ![c] = generation]
  /\ UNCHANGED <<sessionVars, slots, retried, outcome, keepVars, reply, grant, routerVars>>

\* session(): no sid; the mutex is released before renew(ctx, 0) takes it.
SessionMiss(c) ==
  /\ pc[c] = "session"
  /\ MutexFree
  /\ sid = NoSid
  /\ myGen' = [myGen EXCEPT ![c] = 0]
  /\ pc' = [pc EXCEPT ![c] = "renew"]
  /\ UNCHANGED <<sessionVars, slots, mySid, retried, outcome, keepVars, netVars, routerVars>>

\* Mutant of Replaced: off by one, the latest renewal is not recognised.
ReplacedTwice(c) == sid # NoSid /\ generation > myGen[c] + 1

\* renew(): someone has already replaced the session this Call found stale.
Replaced(c) == sid # NoSid /\ generation > myGen[c]

RenewAdopt(c) ==
  /\ pc[c] = "renew"
  /\ MutexFree
  /\ Replaced(c)
  /\ Post(c, sid)
  /\ myGen' = [myGen EXCEPT ![c] = generation]
  /\ UNCHANGED <<sessionVars, slots, retried, outcome, keepVars, reply, grant, routerVars>>

\* renew(): log in, holding the mutex until the login returns.
RenewLogin(c) ==
  /\ pc[c] = "renew"
  /\ MutexFree
  /\ ~Replaced(c)
  /\ sessionMu' = c
  /\ wire' = [wire EXCEPT ![c] = "login"]
  /\ pc' = [pc EXCEPT ![c] = "login"]
  /\ UNCHANGED <<sid, generation, slots, mySid, myGen, retried, outcome,
                 keepVars, reply, grant, routerVars>>

\* Mutant of LoginDone: the session is stored, the generation is not counted.
LoginDoneUncounted(c) ==
  /\ pc[c] = "login"
  /\ reply[c] = "granted"
  /\ sid' = grant[c]
  /\ sessionMu' = NoCall
  /\ myGen' = [myGen EXCEPT ![c] = generation]
  /\ reply' = [reply EXCEPT ![c] = "none"]
  /\ grant' = [grant EXCEPT ![c] = NoSid]
  /\ Post(c, grant[c])
  /\ UNCHANGED <<generation, slots, retried, outcome, keepVars, routerVars>>

LoginDone(c) ==
  /\ pc[c] = "login"
  /\ reply[c] = "granted"
  /\ sid' = grant[c]
  /\ generation' = generation + 1
  /\ sessionMu' = NoCall
  /\ myGen' = [myGen EXCEPT ![c] = generation + 1]
  /\ reply' = [reply EXCEPT ![c] = "none"]
  /\ grant' = [grant EXCEPT ![c] = NoSid]
  /\ Post(c, grant[c])
  /\ UNCHANGED <<slots, retried, outcome, keepVars, routerVars>>

\* Mutants of LoginFailed: an early return that leaves the mutex locked, and
\* one that keeps the slot.
LoginFailedKeepsMutex(c) ==
  /\ pc[c] = "login"
  /\ reply[c] \in {"refused", "none"}
  /\ reply' = [reply EXCEPT ![c] = "none"]
  /\ Return(c, "loginFailed")
  /\ UNCHANGED <<sessionVars, mySid, retried, keepVars, wire, grant, routerVars>>

LoginFailedKeepsSlot(c) ==
  /\ pc[c] = "login"
  /\ reply[c] \in {"refused", "none"}
  /\ sessionMu' = NoCall
  /\ reply' = [reply EXCEPT ![c] = "none"]
  /\ pc' = [pc EXCEPT ![c] = "done"]
  /\ outcome' = [outcome EXCEPT ![c] = "loginFailed"]
  /\ myGen' = [myGen EXCEPT ![c] = 0]
  /\ UNCHANGED <<sid, generation, slots, mySid, retried, keepVars,
                 wire, grant, routerVars>>

\* The router refused the login, or no answer arrived in time; sid stays.
LoginFailed(c) ==
  /\ pc[c] = "login"
  /\ reply[c] \in {"refused", "none"}
  /\ sessionMu' = NoCall
  /\ reply' = [reply EXCEPT ![c] = "none"]
  /\ Return(c, "loginFailed")
  /\ UNCHANGED <<sid, generation, mySid, retried, keepVars,
                 wire, grant, routerVars>>

\* do(): a result, or an error that is no access denial, ends the Call.
Answered(c) ==
  /\ pc[c] = "wait"
  /\ reply[c] \in {"ok", "fault"}
  /\ reply' = [reply EXCEPT ![c] = "none"]
  /\ Return(c, reply[c])
  /\ UNCHANGED <<sessionVars, mySid, retried, keepVars, wire, grant, routerVars>>

\* Mutant of GiveUp: a lost answer is retried like an access denial.
GiveUpRetries(c) ==
  /\ pc[c] = "wait"
  /\ ~retried[c]
  /\ retried' = [retried EXCEPT ![c] = TRUE]
  /\ reply' = [reply EXCEPT ![c] = "none"]
  /\ pc' = [pc EXCEPT ![c] = "renew"]
  /\ UNCHANGED <<sessionVars, slots, mySid, myGen, outcome, keepVars,
                 wire, grant, routerVars>>

\* The HTTP client times out, the connection breaks, the context is cancelled
\* or the answer does not decode.  Call does not retry: the request may have
\* been served, or may yet be.
GiveUp(c) ==
  /\ pc[c] = "wait"
  /\ reply' = [reply EXCEPT ![c] = "none"]
  /\ Return(c, "lost")
  /\ UNCHANGED <<sessionVars, mySid, retried, keepVars, wire, grant, routerVars>>

\* Mutant of Invalidated: whatever session is there is forgotten.
InvalidatedAlways(s) == NoSid

\* invalidate(): forget the session that failed, unless it was replaced.
Invalidated(s) == IF sid = s THEN NoSid ELSE sid

\* The first denial forces one renewal and one retry; the second is returned.
Denied(c) ==
  /\ pc[c] = "wait"
  /\ reply[c] = "denied"
  /\ MutexFree
  /\ reply' = [reply EXCEPT ![c] = "none"]
  /\ sid' = Invalidated(mySid[c])
  /\ \/ /\ ~retried[c]
        /\ retried' = [retried EXCEPT ![c] = TRUE]
        /\ pc' = [pc EXCEPT ![c] = "renew"]
        /\ UNCHANGED <<outcome, myGen, slots>>
     \/ /\ retried[c]
        /\ Return(c, "denied")
        /\ UNCHANGED retried
  /\ UNCHANGED <<generation, sessionMu, mySid, keepVars, wire, grant, routerVars>>

-----------------------------------------------------------------------------
(* The keepalive goroutine and Close.                                      *)

\* A tick with no sid changes nothing and is left to stuttering.
KeepaliveTick ==
  /\ kpc = "idle"
  /\ MutexFree
  /\ sid # NoSid
  /\ kSid' = sid
  /\ kpc' = "probe"
  /\ UNCHANGED <<sessionVars, slots, callVars, closer, done, netVars, routerVars>>

KeepaliveOk ==
  /\ kpc = "probe"
  /\ kSid = live
  /\ kpc' = "idle"
  /\ kSid' = NoSid
  /\ UNCHANGED <<sessionVars, slots, callVars, closer, done, netVars, routerVars>>

\* Mutant of KeepaliveFailed: the goroutine returns and does not tell r.wg.
KeepaliveFailedLeaves ==
  /\ kpc = "probe"
  /\ MutexFree
  /\ sid' = Invalidated(kSid)
  /\ kpc' = "left"
  /\ kSid' = NoSid
  /\ UNCHANGED <<generation, sessionMu, slots, callVars, closer, done, netVars, routerVars>>

\* alive() was refused or, whatever the state of the session, not answered in
\* time; the mutex may have to be waited for before the sid is cleared.
KeepaliveFailed ==
  /\ kpc = "probe"
  /\ MutexFree
  /\ sid' = Invalidated(kSid)
  /\ kpc' = "idle"
  /\ kSid' = NoSid
  /\ UNCHANGED <<generation, sessionMu, slots, callVars, closer, done, netVars, routerVars>>

\* The loop sees r.done only between probes.
KeepaliveStop ==
  /\ kpc = "idle"
  /\ done
  /\ kpc' = "stopped"
  /\ UNCHANGED <<sessionVars, slots, callVars, kSid, closer, done, netVars, routerVars>>

\* closeOnce: the first Close closes r.done, later ones wait for it to return.
Close(x) ==
  /\ closer[x] = "open"
  /\ done' = TRUE
  /\ closer' = [closer EXCEPT ![x] = "waiting"]
  /\ UNCHANGED <<sessionVars, slots, callVars, kpc, kSid, netVars, routerVars>>

\* Mutant of CloseReturn: Close does not wait for the goroutine.
CloseReturnAtOnce(x) ==
  /\ closer[x] = "waiting"
  /\ closer' = [closer EXCEPT ![x] = "closed"]
  /\ UNCHANGED <<sessionVars, slots, callVars, kpc, kSid, done, netVars, routerVars>>

\* r.wg.Wait() returns once the goroutine has.
CloseReturn(x) ==
  /\ closer[x] = "waiting"
  /\ kpc = "stopped"
  /\ closer' = [closer EXCEPT ![x] = "closed"]
  /\ UNCHANGED <<sessionVars, slots, callVars, kpc, kSid, done, netVars, routerVars>>

-----------------------------------------------------------------------------
(* The router.                                                             *)

\* A reply reaches a Call that is still waiting for it.
Answer(c, r) ==
  reply' = IF pc[c] \in {"wait", "login"} THEN [reply EXCEPT ![c] = r] ELSE reply

\* Mutant of ServeCall: the write is carried out before the session is checked.
ServeCallUnchecked(c) ==
  /\ wire[c] = "call"
  /\ wire' = [wire EXCEPT ![c] = "none"]
  /\ applied' = [applied EXCEPT ![c] = @ + 1]
  /\ Answer(c, IF mySid[c] = live THEN "ok" ELSE "denied")
  /\ UNCHANGED <<sessionVars, slots, callVars, keepVars, grant, live, issued>>

\* handleCall: the session is checked before anything else, so a denied call
\* has no effect.  A call the dispatcher rejects has none either.
ServeCall(c) ==
  /\ wire[c] = "call"
  /\ wire' = [wire EXCEPT ![c] = "none"]
  /\ \/ mySid[c] # live /\ Answer(c, "denied") /\ UNCHANGED applied
     \/ mySid[c] = live /\ Answer(c, "fault") /\ UNCHANGED applied
     \/ /\ mySid[c] = live
        /\ Answer(c, "ok")
        /\ applied' = [applied EXCEPT ![c] = @ + 1]
  /\ UNCHANGED <<sessionVars, slots, callVars, keepVars, grant, live, issued>>

\* Mutants of ServeLogin: a session id is given out that the router does not
\* know of, and the same session id is given out again.
ServeLoginUnknown(c) ==
  /\ wire[c] = "login"
  /\ wire' = [wire EXCEPT ![c] = "none"]
  /\ Answer(c, "granted")
  /\ grant' = [grant EXCEPT ![c] = issued + 1]
  /\ UNCHANGED <<sessionVars, slots, callVars, keepVars, routerVars>>

ServeLoginAgain(c) ==
  /\ wire[c] = "login"
  /\ wire' = [wire EXCEPT ![c] = "none"]
  /\ Answer(c, "granted")
  /\ issued' = 1 /\ live' = 1
  /\ grant' = [grant EXCEPT ![c] = 1]
  /\ UNCHANGED <<sessionVars, slots, callVars, keepVars, applied>>

\* handleLogin: a new session replaces the one the router knew.
ServeLogin(c) ==
  /\ wire[c] = "login"
  /\ wire' = [wire EXCEPT ![c] = "none"]
  /\ \/ /\ Answer(c, "granted")
        /\ issued' = issued + 1
        /\ live' = issued + 1
        /\ grant' = [grant EXCEPT ![c] = issued + 1]
     \/ Answer(c, "refused") /\ UNCHANGED <<issued, live, grant>>
  /\ UNCHANGED <<sessionVars, slots, callVars, keepVars, applied>>

\* The request never arrives.
Lose(c) ==
  /\ wire[c] # "none"
  /\ wire' = [wire EXCEPT ![c] = "none"]
  /\ UNCHANGED <<sessionVars, slots, callVars, keepVars, reply, grant, routerVars>>

\* The session idles out, the router restarts, or another client logs in.
Expire ==
  /\ live # NoSid
  /\ live' = NoSid
  /\ UNCHANGED <<sessionVars, slots, callVars, keepVars, netVars, issued, applied>>

-----------------------------------------------------------------------------
CallStep(c) ==
  \/ Acquire(c) \/ SessionHit(c) \/ SessionMiss(c)
  \/ RenewAdopt(c) \/ RenewLogin(c) \/ LoginDone(c) \/ LoginFailed(c)
  \/ Answered(c) \/ GiveUp(c) \/ Denied(c)

KeepaliveStep ==
  KeepaliveOk \/ KeepaliveFailed

RouterStep(c) == ServeCall(c) \/ ServeLogin(c) \/ Lose(c)

Next ==
  \/ \E c \in Calls : Begin(c) \/ CancelWait(c) \/ CallStep(c) \/ RouterStep(c)
  \/ KeepaliveTick \/ KeepaliveStep \/ KeepaliveStop
  \/ \E x \in Closers : Close(x) \/ CloseReturn(x)
  \/ Expire

Spec == Init /\ [][Next]_vars

\* Goroutines that can run do run.  A wait for the router ends because every
\* http.Client has a timeout and alive() a context deadline.  The select of the
\* keepalive loop does not ignore a closed r.done for ever.  The router, the
\* ticker and the callers owe nothing.
Fairness ==
  /\ \A c \in Calls : WF_vars(CallStep(c))
  /\ WF_vars(KeepaliveStep)
  /\ SF_vars(KeepaliveStop)
  /\ \A x \in Closers : WF_vars(CloseReturn(x))

FairSpec == Spec /\ Fairness
-----------------------------------------------------------------------------
(* Properties.                                                             *)

\* Session ids are numbers the router has given out.
TypeOK ==
  /\ issued \in Nat
  /\ sid \in 0..issued /\ live \in 0..issued /\ kSid \in 0..issued
  /\ generation \in Nat
  /\ sessionMu \in Calls \cup {NoCall}
  /\ slots \in Int
  /\ done \in BOOLEAN
  /\ pc \in [Calls -> PC]
  /\ mySid \in [Calls -> 0..issued]
  /\ myGen \in [Calls -> Nat]
  /\ retried \in [Calls -> BOOLEAN]
  /\ outcome \in [Calls -> Outcomes]
  /\ kpc \in {"idle", "probe", "stopped"}
  /\ closer \in [Closers -> {"open", "waiting", "closed"}]
  /\ wire \in [Calls -> Requests]
  /\ reply \in [Calls -> Replies]
  /\ grant \in [Calls -> 0..issued]
  /\ applied \in [Calls -> Nat]

Holders == {c \in Calls : pc[c] \notin {"idle", "waiting", "done"}}

\* Every way out of Call gives its slot back, and no more than MaxConcurrent
\* calls hold one (rpc.go: sem, DefaultMaxConcurrent).
SlotsAccounted == slots = Cardinality(Holders) /\ slots <= MaxConcurrent

\* The mutex is held across a wait only by the one Call that is logging in,
\* and no way out of renew leaves it locked.
MutexHeldByLogin == \A c \in Calls : pc[c] = "login" <=> sessionMu = c

\* A Call that carries the current generation carries the current session, if
\* there still is one.  This is what lets renew compare generations instead of
\* session ids: a Call is told to log in only when nobody renewed since.
GenerationNamesSession ==
  /\ sid # NoSid => generation > 0
  /\ \A c \in Calls :
       /\ pc[c] = "wait" =>
            /\ mySid[c] # NoSid
            /\ myGen[c] \in 1..generation
            /\ (myGen[c] = generation /\ sid # NoSid) => sid = mySid[c]
       /\ pc[c] = "renew" =>
            /\ myGen[c] <= generation
            /\ myGen[c] = generation => sid = NoSid
       /\ reply[c] = "granted" => grant[c] # NoSid

\* A denial is never about the session the router accepts now: between the
\* answer and invalidate() the router may have created others, but none of
\* them has the denied id.
DenialsAreFinal ==
  \A c \in Calls : reply[c] = "denied" => mySid[c] # live

\* What the caller knows agrees with what the router did.  The effect of a call
\* is applied at most once, over both attempts and over requests served after
\* their sender gave up; a call that ended with a denial, a router error, a
\* failed login or a cancelled wait has no effect and nothing left on the wire
\* that could still have one.
EffectOfOutcome ==
  \A c \in Calls :
    /\ wire[c] = "call" =>
         /\ applied[c] = 0
         /\ \/ pc[c] = "wait" /\ reply[c] = "none"
            \/ outcome[c] = "lost"
    /\ outcome[c] # "lost" =>
         applied[c] = IF outcome[c] = "ok" \/ reply[c] = "ok" THEN 1 ELSE 0
    /\ outcome[c] = "lost" => applied[c] <= 1
    /\ outcome[c] # "none" <=> pc[c] = "done"
    /\ reply[c] \in {"ok", "fault", "denied"} => pc[c] = "wait"
    /\ reply[c] \in {"granted", "refused"} => pc[c] = "login"
    /\ wire[c] = "login" => pc[c] \in {"login", "done"} /\ reply[c] = "none"

\* When Close has returned, the keepalive has stopped and sends nothing more
\* (the tests count alive calls after Close).
CloseMeansStopped ==
  (\E x \in Closers : closer[x] = "closed") => kpc = "stopped"

\* No login while the transport holds a session: a login replaces the one
\* session the router knows, so it would throw away a session that other calls
\* are using, and a burst of expired calls would log in one after the other.
LoginOnlyWithoutSession ==
  [][\A c \in Calls : pc[c] # "login" /\ pc'[c] = "login" => sid = NoSid]_vars

\* An expired-session answer that arrives late never discards a newer live
\* session; only a keepalive probe that got no answer may discard a live one.
LiveSessionNotDiscarded ==
  [][sid # NoSid /\ sid = live /\ sid' = NoSid => kpc = "probe" /\ kSid = sid]_vars

\* The transport keeps the promise of RemoteCall: through expiry, renewal and
\* retry, an effect is applied at most once, a Call that reports success was
\* applied, and one that reports a denial, a router error, a failed login or a
\* cancelled wait was not applied and never will be.
StatusOf(c) ==
  CASE pc[c] = "idle" -> "idle"
    [] pc[c] = "done" /\ outcome[c] = "ok" -> "ok"
    [] pc[c] = "done" /\ outcome[c] = "lost" -> "unknown"
    [] pc[c] = "done" /\ outcome[c] \notin {"ok", "lost"} -> "refused"
    [] OTHER -> "open"

RC == INSTANCE RemoteCall WITH status <- [c \in Calls |-> StatusOf(c)]

RemoteCallSpec == RC!RCSpec

\* Every Call returns, whatever the router does and however many calls queue
\* for the slots and for the mutex a login holds.
CallsReturn == \A c \in Calls : pc[c] = "waiting" ~> pc[c] = "done"

\* Close returns, even with a probe in flight and a login holding the mutex.
CloseReturns == \A x \in Closers : closer[x] = "waiting" ~> closer[x] = "closed"

=============================================================================
