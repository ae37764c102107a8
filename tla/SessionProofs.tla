---------------------------- MODULE SessionProofs ----------------------------
(***************************************************************************)
(* Proofs about Session, for every set of calls and every limit.           *)
(*                                                                         *)
(* The inductive invariant is SessionInv.  Its parts need each other: a    *)
(* Call is never told to log in over a session (LoginOnlyWithoutSession)   *)
(* because generations name sessions; generations name sessions because    *)
(* only the holder of the mutex changes them; a denied session stays       *)
(* denied because the router numbers sessions upwards and TypeOK bounds    *)
(* every id in circulation by the last one issued.                         *)
(***************************************************************************)
EXTENDS Session, FiniteSetTheorems, TLAPS

SessionInv ==
  /\ TypeOK
  /\ MutexHeldByLogin
  /\ GenerationNamesSession
  /\ DenialsAreFinal
  /\ EffectOfOutcome

-----------------------------------------------------------------------------
(* The states and steps of Session have the right types.  issued is the    *)
(* only bound that moves, and it only grows.                               *)
THEOREM TypeCorrect == Spec => []TypeOK
<1>1. Init => TypeOK
  <2> SUFFICES ASSUME Init PROVE TypeOK
    OBVIOUS
  <2>1. kpc \in {"idle", "probe", "stopped"}
    BY DEF Init
  <2>2. /\ pc \in [Calls -> PC] /\ outcome \in [Calls -> Outcomes]
        /\ wire \in [Calls -> Requests] /\ reply \in [Calls -> Replies]
        /\ closer \in [Closers -> {"open", "waiting", "closed"}]
    BY DEF Init, PC, Outcomes, Requests, Replies
  <2>3. /\ mySid \in [Calls -> 0..issued] /\ grant \in [Calls -> 0..issued]
        /\ myGen \in [Calls -> Nat] /\ applied \in [Calls -> Nat]
        /\ retried \in [Calls -> BOOLEAN]
    BY DEF Init, NoSid
  <2>4. /\ issued \in Nat /\ sid \in 0..issued /\ live \in 0..issued /\ kSid \in 0..issued
        /\ generation \in Nat /\ slots \in Int
    BY DEF Init, NoSid
  <2>5. sessionMu \in Calls \cup {NoCall} /\ done \in BOOLEAN
    BY DEF Init
  <2>6. QED
    BY <2>1, <2>2, <2>3, <2>4, <2>5 DEF TypeOK
<1>2. TypeOK /\ [Next]_vars => TypeOK'
  <2> SUFFICES ASSUME TypeOK, [Next]_vars
               PROVE  TypeOK'
    OBVIOUS
  <2> USE DEF TypeOK, PC, Outcomes, Requests, Replies, NoSid, sessionVars, callVars,
              keepVars, netVars, routerVars
  <2>1. ASSUME NEW c \in Calls, Begin(c) PROVE TypeOK'
    BY <2>1 DEF Begin
  <2>2. ASSUME NEW c \in Calls, CancelWait(c) PROVE TypeOK'
    BY <2>2 DEF CancelWait
  <2>3. ASSUME NEW c \in Calls, Acquire(c) PROVE TypeOK'
    BY <2>3 DEF Acquire
  <2>4. ASSUME NEW c \in Calls, SessionHit(c) PROVE TypeOK'
    BY <2>4 DEF SessionHit, Post, MutexFree
  <2>5. ASSUME NEW c \in Calls, SessionMiss(c) PROVE TypeOK'
    BY <2>5 DEF SessionMiss, MutexFree
  <2>6. ASSUME NEW c \in Calls, RenewAdopt(c) PROVE TypeOK'
    BY <2>6 DEF RenewAdopt, Post, MutexFree, Replaced
  <2>7. ASSUME NEW c \in Calls, RenewLogin(c) PROVE TypeOK'
    BY <2>7 DEF RenewLogin, MutexFree, Replaced
  <2>8. ASSUME NEW c \in Calls, LoginDone(c) PROVE TypeOK'
    BY <2>8 DEF LoginDone, Post
  <2>9. ASSUME NEW c \in Calls, LoginFailed(c) PROVE TypeOK'
    BY <2>9 DEF LoginFailed, Return
  <2>10. ASSUME NEW c \in Calls, Answered(c) PROVE TypeOK'
    BY <2>10 DEF Answered, Return
  <2>11. ASSUME NEW c \in Calls, GiveUp(c) PROVE TypeOK'
    BY <2>11 DEF GiveUp, Return
  <2>12. ASSUME NEW c \in Calls, Denied(c) PROVE TypeOK'
    <3>1. sid' \in 0..issued
      BY <2>12 DEF Denied, Invalidated
    <3>2. CASE ~retried[c]
      BY <2>12, <3>1, <3>2 DEF Denied
    <3>3. CASE retried[c]
      BY <2>12, <3>1, <3>3 DEF Denied, Return
    <3>4. QED
      BY <3>2, <3>3
  <2>13. ASSUME NEW c \in Calls, ServeCall(c) PROVE TypeOK'
    BY <2>13 DEF ServeCall, Answer
  <2>14. ASSUME NEW c \in Calls, ServeLogin(c) PROVE TypeOK'
    BY <2>14 DEF ServeLogin, Answer
  <2>15. ASSUME NEW c \in Calls, Lose(c) PROVE TypeOK'
    BY <2>15 DEF Lose
  <2>16. CASE KeepaliveTick
    BY <2>16 DEF KeepaliveTick, MutexFree
  <2>17. CASE KeepaliveOk
    BY <2>17 DEF KeepaliveOk
  <2>18. CASE KeepaliveFailed
    BY <2>18 DEF KeepaliveFailed, MutexFree, Invalidated
  <2>19. CASE KeepaliveStop
    BY <2>19 DEF KeepaliveStop
  <2>20. ASSUME NEW x \in Closers, Close(x) PROVE TypeOK'
    BY <2>20 DEF Close
  <2>21. ASSUME NEW x \in Closers, CloseReturn(x) PROVE TypeOK'
    BY <2>21 DEF CloseReturn
  <2>22. CASE Expire
    BY <2>22 DEF Expire
  <2>23. CASE UNCHANGED vars
    BY <2>23 DEF vars
  <2>24. QED
    BY <2>1, <2>2, <2>3, <2>4, <2>5, <2>6, <2>7, <2>8, <2>9, <2>10, <2>11, <2>12, <2>13, <2>14, <2>15, <2>16, <2>17, <2>18, <2>19, <2>20, <2>21, <2>22, <2>23 DEF Next, CallStep, RouterStep, KeepaliveStep
<1>3. QED
  BY <1>1, <1>2, PTL DEF Spec


(* The mutex changes hands only in RenewLogin, LoginDone and LoginFailed.   *)
LEMMA MutexStep == TypeOK /\ MutexHeldByLogin /\ [Next]_vars => MutexHeldByLogin'
<1> SUFFICES ASSUME TypeOK /\ MutexHeldByLogin, [Next]_vars
             PROVE  MutexHeldByLogin'
  OBVIOUS
<1> USE ConstantsAssumption
<1> USE DEF ConstantsAssumption, MutexHeldByLogin, sessionVars, callVars, keepVars, netVars, routerVars, TypeOK, PC
<1>1. MutexHeldByLogin'
  <2>1. ASSUME NEW c \in Calls, Begin(c) PROVE MutexHeldByLogin'
    BY <2>1 DEF Begin
  <2>2. ASSUME NEW c \in Calls, CancelWait(c) PROVE MutexHeldByLogin'
    BY <2>2 DEF CancelWait
  <2>3. ASSUME NEW c \in Calls, Acquire(c) PROVE MutexHeldByLogin'
    BY <2>3 DEF Acquire
  <2>4. ASSUME NEW c \in Calls, SessionHit(c) PROVE MutexHeldByLogin'
    BY <2>4 DEF SessionHit, Post, MutexFree
  <2>5. ASSUME NEW c \in Calls, SessionMiss(c) PROVE MutexHeldByLogin'
    BY <2>5 DEF SessionMiss, MutexFree
  <2>6. ASSUME NEW c \in Calls, RenewAdopt(c) PROVE MutexHeldByLogin'
    BY <2>6 DEF RenewAdopt, Post, MutexFree, Replaced
  <2>7. ASSUME NEW c \in Calls, RenewLogin(c) PROVE MutexHeldByLogin'
    BY <2>7 DEF RenewLogin, MutexFree, Replaced
  <2>8. ASSUME NEW c \in Calls, LoginDone(c) PROVE MutexHeldByLogin'
    BY <2>8 DEF LoginDone, Post
  <2>9. ASSUME NEW c \in Calls, LoginFailed(c) PROVE MutexHeldByLogin'
    BY <2>9 DEF LoginFailed, Return
  <2>10. ASSUME NEW c \in Calls, Answered(c) PROVE MutexHeldByLogin'
    BY <2>10 DEF Answered, Return
  <2>11. ASSUME NEW c \in Calls, GiveUp(c) PROVE MutexHeldByLogin'
    BY <2>11 DEF GiveUp, Return
  <2>12. ASSUME NEW c \in Calls, Denied(c) PROVE MutexHeldByLogin'
    BY <2>12 DEF Denied, Return, MutexFree, Invalidated
  <2>13. ASSUME NEW c \in Calls, ServeCall(c) PROVE MutexHeldByLogin'
    BY <2>13 DEF ServeCall, Answer
  <2>14. ASSUME NEW c \in Calls, ServeLogin(c) PROVE MutexHeldByLogin'
    BY <2>14 DEF ServeLogin, Answer
  <2>15. ASSUME NEW c \in Calls, Lose(c) PROVE MutexHeldByLogin'
    BY <2>15 DEF Lose
  <2>16. CASE KeepaliveTick
    BY <2>16 DEF KeepaliveTick, MutexFree
  <2>17. CASE KeepaliveOk
    BY <2>17 DEF KeepaliveOk
  <2>18. CASE KeepaliveFailed
    BY <2>18 DEF KeepaliveFailed, MutexFree, Invalidated
  <2>19. CASE KeepaliveStop
    BY <2>19 DEF KeepaliveStop
  <2>20. ASSUME NEW x \in Closers, Close(x) PROVE MutexHeldByLogin'
    BY <2>20 DEF Close
  <2>21. ASSUME NEW x \in Closers, CloseReturn(x) PROVE MutexHeldByLogin'
    BY <2>21 DEF CloseReturn
  <2>22. CASE Expire
    BY <2>22 DEF Expire
  <2>23. CASE UNCHANGED vars
    BY <2>23 DEF vars
  <2>24. QED
    BY <2>1, <2>2, <2>3, <2>4, <2>5, <2>6, <2>7, <2>8, <2>9, <2>10, <2>11, <2>12, <2>13, <2>14, <2>15, <2>16, <2>17, <2>18, <2>19, <2>20, <2>21, <2>22, <2>23 DEF Next, CallStep, RouterStep, KeepaliveStep
<1>2. QED
  BY <1>1

(* Only the holder of the mutex changes the generation, and it sets the     *)
(* session in the same step.                                                *)
LEMMA GenerationStep == TypeOK /\ GenerationNamesSession /\ [Next]_vars => GenerationNamesSession'
<1> SUFFICES ASSUME TypeOK /\ GenerationNamesSession, [Next]_vars
             PROVE  GenerationNamesSession'
  OBVIOUS
<1> USE DEF GenerationNamesSession, sessionVars, callVars, keepVars, netVars, routerVars, TypeOK, PC, Replies, NoSid
<1>1. GenerationNamesSession'
  <2>1. ASSUME NEW c \in Calls, Begin(c) PROVE GenerationNamesSession'
    BY <2>1 DEF Begin
  <2>2. ASSUME NEW c \in Calls, CancelWait(c) PROVE GenerationNamesSession'
    BY <2>2 DEF CancelWait
  <2>3. ASSUME NEW c \in Calls, Acquire(c) PROVE GenerationNamesSession'
    BY <2>3 DEF Acquire
  <2>4. ASSUME NEW c \in Calls, SessionHit(c) PROVE GenerationNamesSession'
    BY <2>4 DEF SessionHit, Post, MutexFree
  <2>5. ASSUME NEW c \in Calls, SessionMiss(c) PROVE GenerationNamesSession'
    BY <2>5 DEF SessionMiss, MutexFree
  <2>6. ASSUME NEW c \in Calls, RenewAdopt(c) PROVE GenerationNamesSession'
    BY <2>6 DEF RenewAdopt, Post, MutexFree, Replaced
  <2>7. ASSUME NEW c \in Calls, RenewLogin(c) PROVE GenerationNamesSession'
    BY <2>7 DEF RenewLogin, MutexFree, Replaced
  <2>8. ASSUME NEW c \in Calls, LoginDone(c) PROVE GenerationNamesSession'
    BY <2>8 DEF LoginDone, Post
  <2>9. ASSUME NEW c \in Calls, LoginFailed(c) PROVE GenerationNamesSession'
    BY <2>9 DEF LoginFailed, Return
  <2>10. ASSUME NEW c \in Calls, Answered(c) PROVE GenerationNamesSession'
    BY <2>10 DEF Answered, Return
  <2>11. ASSUME NEW c \in Calls, GiveUp(c) PROVE GenerationNamesSession'
    BY <2>11 DEF GiveUp, Return
  <2>12. ASSUME NEW c \in Calls, Denied(c) PROVE GenerationNamesSession'
    BY <2>12 DEF Denied, Return, MutexFree, Invalidated
  <2>13. ASSUME NEW c \in Calls, ServeCall(c) PROVE GenerationNamesSession'
    BY <2>13 DEF ServeCall, Answer
  <2>14. ASSUME NEW c \in Calls, ServeLogin(c) PROVE GenerationNamesSession'
    BY <2>14 DEF ServeLogin, Answer
  <2>15. ASSUME NEW c \in Calls, Lose(c) PROVE GenerationNamesSession'
    BY <2>15 DEF Lose
  <2>16. CASE KeepaliveTick
    BY <2>16 DEF KeepaliveTick, MutexFree
  <2>17. CASE KeepaliveOk
    BY <2>17 DEF KeepaliveOk
  <2>18. CASE KeepaliveFailed
    BY <2>18 DEF KeepaliveFailed, MutexFree, Invalidated
  <2>19. CASE KeepaliveStop
    BY <2>19 DEF KeepaliveStop
  <2>20. ASSUME NEW x \in Closers, Close(x) PROVE GenerationNamesSession'
    BY <2>20 DEF Close
  <2>21. ASSUME NEW x \in Closers, CloseReturn(x) PROVE GenerationNamesSession'
    BY <2>21 DEF CloseReturn
  <2>22. CASE Expire
    BY <2>22 DEF Expire
  <2>23. CASE UNCHANGED vars
    BY <2>23 DEF vars
  <2>24. QED
    BY <2>1, <2>2, <2>3, <2>4, <2>5, <2>6, <2>7, <2>8, <2>9, <2>10, <2>11, <2>12, <2>13, <2>14, <2>15, <2>16, <2>17, <2>18, <2>19, <2>20, <2>21, <2>22, <2>23 DEF Next, CallStep, RouterStep, KeepaliveStep
<1>2. QED
  BY <1>1

(* A new session gets an id above every id in circulation.                  *)
LEMMA DenialStep == TypeOK /\ EffectOfOutcome /\ GenerationNamesSession /\ DenialsAreFinal /\ [Next]_vars => DenialsAreFinal'
<1> SUFFICES ASSUME TypeOK /\ EffectOfOutcome /\ GenerationNamesSession /\ DenialsAreFinal, [Next]_vars
             PROVE  DenialsAreFinal'
  OBVIOUS
<1> USE DEF DenialsAreFinal, sessionVars, callVars, keepVars, netVars, routerVars, TypeOK, PC, Replies, NoSid, EffectOfOutcome, GenerationNamesSession
<1>1. DenialsAreFinal'
  <2>1. ASSUME NEW c \in Calls, Begin(c) PROVE DenialsAreFinal'
    BY <2>1 DEF Begin
  <2>2. ASSUME NEW c \in Calls, CancelWait(c) PROVE DenialsAreFinal'
    BY <2>2 DEF CancelWait
  <2>3. ASSUME NEW c \in Calls, Acquire(c) PROVE DenialsAreFinal'
    BY <2>3 DEF Acquire
  <2>4. ASSUME NEW c \in Calls, SessionHit(c) PROVE DenialsAreFinal'
    BY <2>4 DEF SessionHit, Post, MutexFree
  <2>5. ASSUME NEW c \in Calls, SessionMiss(c) PROVE DenialsAreFinal'
    BY <2>5 DEF SessionMiss, MutexFree
  <2>6. ASSUME NEW c \in Calls, RenewAdopt(c) PROVE DenialsAreFinal'
    BY <2>6 DEF RenewAdopt, Post, MutexFree, Replaced
  <2>7. ASSUME NEW c \in Calls, RenewLogin(c) PROVE DenialsAreFinal'
    BY <2>7 DEF RenewLogin, MutexFree, Replaced
  <2>8. ASSUME NEW c \in Calls, LoginDone(c) PROVE DenialsAreFinal'
    BY <2>8 DEF LoginDone, Post
  <2>9. ASSUME NEW c \in Calls, LoginFailed(c) PROVE DenialsAreFinal'
    BY <2>9 DEF LoginFailed, Return
  <2>10. ASSUME NEW c \in Calls, Answered(c) PROVE DenialsAreFinal'
    BY <2>10 DEF Answered, Return
  <2>11. ASSUME NEW c \in Calls, GiveUp(c) PROVE DenialsAreFinal'
    BY <2>11 DEF GiveUp, Return
  <2>12. ASSUME NEW c \in Calls, Denied(c) PROVE DenialsAreFinal'
    BY <2>12 DEF Denied, Return, MutexFree, Invalidated
  <2>13. ASSUME NEW c \in Calls, ServeCall(c) PROVE DenialsAreFinal'
    BY <2>13 DEF ServeCall, Answer
  <2>14. ASSUME NEW c \in Calls, ServeLogin(c) PROVE DenialsAreFinal'
    BY <2>14 DEF ServeLogin, Answer
  <2>15. ASSUME NEW c \in Calls, Lose(c) PROVE DenialsAreFinal'
    BY <2>15 DEF Lose
  <2>16. CASE KeepaliveTick
    BY <2>16 DEF KeepaliveTick, MutexFree
  <2>17. CASE KeepaliveOk
    BY <2>17 DEF KeepaliveOk
  <2>18. CASE KeepaliveFailed
    BY <2>18 DEF KeepaliveFailed, MutexFree, Invalidated
  <2>19. CASE KeepaliveStop
    BY <2>19 DEF KeepaliveStop
  <2>20. ASSUME NEW x \in Closers, Close(x) PROVE DenialsAreFinal'
    BY <2>20 DEF Close
  <2>21. ASSUME NEW x \in Closers, CloseReturn(x) PROVE DenialsAreFinal'
    BY <2>21 DEF CloseReturn
  <2>22. CASE Expire
    BY <2>22 DEF Expire
  <2>23. CASE UNCHANGED vars
    BY <2>23 DEF vars
  <2>24. QED
    BY <2>1, <2>2, <2>3, <2>4, <2>5, <2>6, <2>7, <2>8, <2>9, <2>10, <2>11, <2>12, <2>13, <2>14, <2>15, <2>16, <2>17, <2>18, <2>19, <2>20, <2>21, <2>22, <2>23 DEF Next, CallStep, RouterStep, KeepaliveStep
<1>2. QED
  BY <1>1

(* The effect of a call, its outcome and its request change together.       *)
LEMMA EffectStep == TypeOK /\ EffectOfOutcome /\ [Next]_vars => EffectOfOutcome'
<1> SUFFICES ASSUME TypeOK /\ EffectOfOutcome, [Next]_vars
             PROVE  EffectOfOutcome'
  OBVIOUS
<1> USE DEF EffectOfOutcome, sessionVars, callVars, keepVars, netVars, routerVars, TypeOK, PC, Outcomes, Requests, Replies, NoSid
<1>1. EffectOfOutcome'
  <2>1. ASSUME NEW c \in Calls, Begin(c) PROVE EffectOfOutcome'
    BY <2>1 DEF Begin
  <2>2. ASSUME NEW c \in Calls, CancelWait(c) PROVE EffectOfOutcome'
    BY <2>2 DEF CancelWait
  <2>3. ASSUME NEW c \in Calls, Acquire(c) PROVE EffectOfOutcome'
    BY <2>3 DEF Acquire
  <2>4. ASSUME NEW c \in Calls, SessionHit(c) PROVE EffectOfOutcome'
    BY <2>4 DEF SessionHit, Post, MutexFree
  <2>5. ASSUME NEW c \in Calls, SessionMiss(c) PROVE EffectOfOutcome'
    BY <2>5 DEF SessionMiss, MutexFree
  <2>6. ASSUME NEW c \in Calls, RenewAdopt(c) PROVE EffectOfOutcome'
    BY <2>6 DEF RenewAdopt, Post, MutexFree, Replaced
  <2>7. ASSUME NEW c \in Calls, RenewLogin(c) PROVE EffectOfOutcome'
    BY <2>7 DEF RenewLogin, MutexFree, Replaced
  <2>8. ASSUME NEW c \in Calls, LoginDone(c) PROVE EffectOfOutcome'
    BY <2>8 DEF LoginDone, Post
  <2>9. ASSUME NEW c \in Calls, LoginFailed(c) PROVE EffectOfOutcome'
    BY <2>9 DEF LoginFailed, Return
  <2>10. ASSUME NEW c \in Calls, Answered(c) PROVE EffectOfOutcome'
    BY <2>10 DEF Answered, Return
  <2>11. ASSUME NEW c \in Calls, GiveUp(c) PROVE EffectOfOutcome'
    BY <2>11 DEF GiveUp, Return
  <2>12. ASSUME NEW c \in Calls, Denied(c) PROVE EffectOfOutcome'
    BY <2>12 DEF Denied, Return, MutexFree, Invalidated
  <2>13. ASSUME NEW c \in Calls, ServeCall(c) PROVE EffectOfOutcome'
    BY <2>13 DEF ServeCall, Answer
  <2>14. ASSUME NEW c \in Calls, ServeLogin(c) PROVE EffectOfOutcome'
    BY <2>14 DEF ServeLogin, Answer
  <2>15. ASSUME NEW c \in Calls, Lose(c) PROVE EffectOfOutcome'
    BY <2>15 DEF Lose
  <2>16. CASE KeepaliveTick
    BY <2>16 DEF KeepaliveTick, MutexFree
  <2>17. CASE KeepaliveOk
    BY <2>17 DEF KeepaliveOk
  <2>18. CASE KeepaliveFailed
    BY <2>18 DEF KeepaliveFailed, MutexFree, Invalidated
  <2>19. CASE KeepaliveStop
    BY <2>19 DEF KeepaliveStop
  <2>20. ASSUME NEW x \in Closers, Close(x) PROVE EffectOfOutcome'
    BY <2>20 DEF Close
  <2>21. ASSUME NEW x \in Closers, CloseReturn(x) PROVE EffectOfOutcome'
    BY <2>21 DEF CloseReturn
  <2>22. CASE Expire
    BY <2>22 DEF Expire
  <2>23. CASE UNCHANGED vars
    BY <2>23 DEF vars
  <2>24. QED
    BY <2>1, <2>2, <2>3, <2>4, <2>5, <2>6, <2>7, <2>8, <2>9, <2>10, <2>11, <2>12, <2>13, <2>14, <2>15, <2>16, <2>17, <2>18, <2>19, <2>20, <2>21, <2>22, <2>23 DEF Next, CallStep, RouterStep, KeepaliveStep
<1>2. QED
  BY <1>1
-----------------------------------------------------------------------------
(* SessionInv holds in every reachable state.                              *)
THEOREM Inductive == Spec => []SessionInv
<1>1. Init => MutexHeldByLogin /\ GenerationNamesSession /\ DenialsAreFinal /\ EffectOfOutcome
  BY ConstantsAssumption
  DEF ConstantsAssumption, Init, MutexHeldByLogin, GenerationNamesSession,
      DenialsAreFinal, EffectOfOutcome, NoSid
<1>2. /\ TypeOK /\ MutexHeldByLogin /\ GenerationNamesSession
      /\ DenialsAreFinal /\ EffectOfOutcome /\ [Next]_vars
      => MutexHeldByLogin' /\ GenerationNamesSession' /\ DenialsAreFinal' /\ EffectOfOutcome'
  BY MutexStep, GenerationStep, DenialStep, EffectStep
<1>3. QED
  BY <1>1, <1>2, TypeCorrect, PTL DEF Spec, SessionInv

(* No way out of renew leaves the mutex locked.                            *)
THEOREM MutexSafe == Spec => []MutexHeldByLogin
  BY Inductive, PTL DEF SessionInv

(* Comparing generations is as good as comparing sessions.                 *)
THEOREM GenerationSafe == Spec => []GenerationNamesSession
  BY Inductive, PTL DEF SessionInv

(* A request that the router denied is denied for good: its session never  *)
(* comes back, so a late denial says nothing about a newer one.            *)
THEOREM DenialsSafe == Spec => []DenialsAreFinal
  BY Inductive, PTL DEF SessionInv

(* Effects are applied at most once, and outcomes tell the truth.          *)
THEOREM EffectSafe == Spec => []EffectOfOutcome
  BY Inductive, PTL DEF SessionInv

(* A Call starts a login only when the transport has no session.           *)
THEOREM NoLoginOverSession == Spec => LoginOnlyWithoutSession
<1> DEFINE A == \A c \in Calls : pc[c] # "login" /\ pc'[c] = "login" => sid = NoSid
<1>1. SessionInv /\ [Next]_vars => [A]_vars
  <2> SUFFICES ASSUME SessionInv, Next PROVE A
    OBVIOUS
  <2> USE DEF SessionInv, TypeOK, PC, callVars
  <2>1. ASSUME NEW c \in Calls, Begin(c) PROVE A
    BY <2>1 DEF Begin
  <2>2. ASSUME NEW c \in Calls, CancelWait(c) PROVE A
    BY <2>2 DEF CancelWait
  <2>3. ASSUME NEW c \in Calls, Acquire(c) PROVE A
    BY <2>3 DEF Acquire
  <2>4. ASSUME NEW c \in Calls, SessionHit(c) PROVE A
    BY <2>4 DEF SessionHit, Post, MutexFree
  <2>5. ASSUME NEW c \in Calls, SessionMiss(c) PROVE A
    BY <2>5 DEF SessionMiss, MutexFree
  <2>6. ASSUME NEW c \in Calls, RenewAdopt(c) PROVE A
    BY <2>6 DEF RenewAdopt, Post, MutexFree, Replaced
  <2>7. ASSUME NEW c \in Calls, RenewLogin(c) PROVE A
    BY <2>7 DEF RenewLogin, Replaced, GenerationNamesSession
  <2>8. ASSUME NEW c \in Calls, LoginDone(c) PROVE A
    BY <2>8 DEF LoginDone, Post
  <2>9. ASSUME NEW c \in Calls, LoginFailed(c) PROVE A
    BY <2>9 DEF LoginFailed, Return
  <2>10. ASSUME NEW c \in Calls, Answered(c) PROVE A
    BY <2>10 DEF Answered, Return
  <2>11. ASSUME NEW c \in Calls, GiveUp(c) PROVE A
    BY <2>11 DEF GiveUp, Return
  <2>12. ASSUME NEW c \in Calls, Denied(c) PROVE A
    BY <2>12 DEF Denied, Return, MutexFree, Invalidated
  <2>13. ASSUME NEW c \in Calls, ServeCall(c) PROVE A
    BY <2>13 DEF ServeCall, Answer
  <2>14. ASSUME NEW c \in Calls, ServeLogin(c) PROVE A
    BY <2>14 DEF ServeLogin, Answer
  <2>15. ASSUME NEW c \in Calls, Lose(c) PROVE A
    BY <2>15 DEF Lose
  <2>16. CASE KeepaliveTick
    BY <2>16 DEF KeepaliveTick, MutexFree
  <2>17. CASE KeepaliveOk
    BY <2>17 DEF KeepaliveOk
  <2>18. CASE KeepaliveFailed
    BY <2>18 DEF KeepaliveFailed, MutexFree, Invalidated
  <2>19. CASE KeepaliveStop
    BY <2>19 DEF KeepaliveStop
  <2>20. ASSUME NEW x \in Closers, Close(x) PROVE A
    BY <2>20 DEF Close
  <2>21. ASSUME NEW x \in Closers, CloseReturn(x) PROVE A
    BY <2>21 DEF CloseReturn
  <2>22. CASE Expire
    BY <2>22 DEF Expire
  <2>23. QED
    BY <2>1, <2>2, <2>3, <2>4, <2>5, <2>6, <2>7, <2>8, <2>9, <2>10, <2>11, <2>12, <2>13, <2>14, <2>15, <2>16, <2>17, <2>18, <2>19, <2>20, <2>21, <2>22 DEF Next, CallStep, RouterStep, KeepaliveStep
<1>2. QED
  BY <1>1, Inductive, PTL DEF Spec, LoginOnlyWithoutSession

(* A late answer about an old session leaves a newer live session alone.   *)
THEOREM LiveSessionKept == Spec => LiveSessionNotDiscarded
<1> DEFINE A == sid # NoSid /\ sid = live /\ sid' = NoSid => kpc = "probe" /\ kSid = sid
<1>1. SessionInv /\ [Next]_vars => [A]_vars
  <2> SUFFICES ASSUME SessionInv, Next PROVE A
    OBVIOUS
  <2> USE DEF SessionInv, NoSid, sessionVars
  <2>1. ASSUME NEW c \in Calls, Begin(c) PROVE A
    BY <2>1 DEF Begin
  <2>2. ASSUME NEW c \in Calls, CancelWait(c) PROVE A
    BY <2>2 DEF CancelWait
  <2>3. ASSUME NEW c \in Calls, Acquire(c) PROVE A
    BY <2>3 DEF Acquire
  <2>4. ASSUME NEW c \in Calls, SessionHit(c) PROVE A
    BY <2>4 DEF SessionHit, Post, MutexFree
  <2>5. ASSUME NEW c \in Calls, SessionMiss(c) PROVE A
    BY <2>5 DEF SessionMiss, MutexFree
  <2>6. ASSUME NEW c \in Calls, RenewAdopt(c) PROVE A
    BY <2>6 DEF RenewAdopt, Post, MutexFree, Replaced
  <2>7. ASSUME NEW c \in Calls, RenewLogin(c) PROVE A
    BY <2>7 DEF RenewLogin, MutexFree, Replaced
  <2>8. ASSUME NEW c \in Calls, LoginDone(c) PROVE A
    BY <2>8 DEF LoginDone, GenerationNamesSession
  <2>9. ASSUME NEW c \in Calls, LoginFailed(c) PROVE A
    BY <2>9 DEF LoginFailed, Return
  <2>10. ASSUME NEW c \in Calls, Answered(c) PROVE A
    BY <2>10 DEF Answered, Return
  <2>11. ASSUME NEW c \in Calls, GiveUp(c) PROVE A
    BY <2>11 DEF GiveUp, Return
  <2>12. ASSUME NEW c \in Calls, Denied(c) PROVE A
    BY <2>12 DEF Denied, Invalidated, DenialsAreFinal
  <2>13. ASSUME NEW c \in Calls, ServeCall(c) PROVE A
    BY <2>13 DEF ServeCall, Answer
  <2>14. ASSUME NEW c \in Calls, ServeLogin(c) PROVE A
    BY <2>14 DEF ServeLogin, Answer
  <2>15. ASSUME NEW c \in Calls, Lose(c) PROVE A
    BY <2>15 DEF Lose
  <2>16. CASE KeepaliveTick
    BY <2>16 DEF KeepaliveTick, MutexFree
  <2>17. CASE KeepaliveOk
    BY <2>17 DEF KeepaliveOk
  <2>18. CASE KeepaliveFailed
    BY <2>18 DEF KeepaliveFailed, MutexFree, Invalidated
  <2>19. CASE KeepaliveStop
    BY <2>19 DEF KeepaliveStop
  <2>20. ASSUME NEW x \in Closers, Close(x) PROVE A
    BY <2>20 DEF Close
  <2>21. ASSUME NEW x \in Closers, CloseReturn(x) PROVE A
    BY <2>21 DEF CloseReturn
  <2>22. CASE Expire
    BY <2>22 DEF Expire
  <2>23. QED
    BY <2>1, <2>2, <2>3, <2>4, <2>5, <2>6, <2>7, <2>8, <2>9, <2>10, <2>11, <2>12, <2>13, <2>14, <2>15, <2>16, <2>17, <2>18, <2>19, <2>20, <2>21, <2>22 DEF Next, CallStep, RouterStep, KeepaliveStep
<1>2. QED
  BY <1>1, Inductive, PTL DEF Spec, LiveSessionNotDiscarded

(* After Close has returned no probe is sent.                              *)
THEOREM CloseSafe == Spec => []CloseMeansStopped
<1>1. Init => CloseMeansStopped
  BY DEF Init, CloseMeansStopped
<1>2. TypeOK /\ CloseMeansStopped /\ [Next]_vars => CloseMeansStopped'
  <2> SUFFICES ASSUME TypeOK, CloseMeansStopped, [Next]_vars
               PROVE  CloseMeansStopped'
    OBVIOUS
  <2> USE DEF TypeOK, CloseMeansStopped, keepVars
  <2>1. ASSUME NEW c \in Calls, Begin(c) PROVE CloseMeansStopped'
    BY <2>1 DEF Begin
  <2>2. ASSUME NEW c \in Calls, CancelWait(c) PROVE CloseMeansStopped'
    BY <2>2 DEF CancelWait
  <2>3. ASSUME NEW c \in Calls, Acquire(c) PROVE CloseMeansStopped'
    BY <2>3 DEF Acquire
  <2>4. ASSUME NEW c \in Calls, SessionHit(c) PROVE CloseMeansStopped'
    BY <2>4 DEF SessionHit, Post, MutexFree
  <2>5. ASSUME NEW c \in Calls, SessionMiss(c) PROVE CloseMeansStopped'
    BY <2>5 DEF SessionMiss, MutexFree
  <2>6. ASSUME NEW c \in Calls, RenewAdopt(c) PROVE CloseMeansStopped'
    BY <2>6 DEF RenewAdopt, Post, MutexFree, Replaced
  <2>7. ASSUME NEW c \in Calls, RenewLogin(c) PROVE CloseMeansStopped'
    BY <2>7 DEF RenewLogin, MutexFree, Replaced
  <2>8. ASSUME NEW c \in Calls, LoginDone(c) PROVE CloseMeansStopped'
    BY <2>8 DEF LoginDone, Post
  <2>9. ASSUME NEW c \in Calls, LoginFailed(c) PROVE CloseMeansStopped'
    BY <2>9 DEF LoginFailed, Return
  <2>10. ASSUME NEW c \in Calls, Answered(c) PROVE CloseMeansStopped'
    BY <2>10 DEF Answered, Return
  <2>11. ASSUME NEW c \in Calls, GiveUp(c) PROVE CloseMeansStopped'
    BY <2>11 DEF GiveUp, Return
  <2>12. ASSUME NEW c \in Calls, Denied(c) PROVE CloseMeansStopped'
    BY <2>12 DEF Denied, Return, MutexFree, Invalidated
  <2>13. ASSUME NEW c \in Calls, ServeCall(c) PROVE CloseMeansStopped'
    BY <2>13 DEF ServeCall, Answer
  <2>14. ASSUME NEW c \in Calls, ServeLogin(c) PROVE CloseMeansStopped'
    BY <2>14 DEF ServeLogin, Answer
  <2>15. ASSUME NEW c \in Calls, Lose(c) PROVE CloseMeansStopped'
    BY <2>15 DEF Lose
  <2>16. CASE KeepaliveTick
    BY <2>16 DEF KeepaliveTick, MutexFree
  <2>17. CASE KeepaliveOk
    BY <2>17 DEF KeepaliveOk
  <2>18. CASE KeepaliveFailed
    BY <2>18 DEF KeepaliveFailed, MutexFree, Invalidated
  <2>19. CASE KeepaliveStop
    BY <2>19 DEF KeepaliveStop
  <2>20. ASSUME NEW x \in Closers, Close(x) PROVE CloseMeansStopped'
    BY <2>20 DEF Close
  <2>21. ASSUME NEW x \in Closers, CloseReturn(x) PROVE CloseMeansStopped'
    BY <2>21 DEF CloseReturn
  <2>22. CASE Expire
    BY <2>22 DEF Expire
  <2>23. CASE UNCHANGED vars
    BY <2>23 DEF vars
  <2>24. QED
    BY <2>1, <2>2, <2>3, <2>4, <2>5, <2>6, <2>7, <2>8, <2>9, <2>10, <2>11, <2>12, <2>13, <2>14, <2>15, <2>16, <2>17, <2>18, <2>19, <2>20, <2>21, <2>22, <2>23 DEF Next, CallStep, RouterStep, KeepaliveStep
<1>3. QED
  BY <1>1, <1>2, TypeCorrect, PTL DEF Spec

(* Every way out of Call gives back the slot it took.                      *)
THEOREM SlotsSafe == Spec => []SlotsAccounted
<1>1. Init => SlotsAccounted
  <2> SUFFICES ASSUME Init PROVE SlotsAccounted
    OBVIOUS
  <2>1. Holders = {}
    BY DEF Init, Holders
  <2>2. QED
    BY <2>1, FS_EmptySet, ConstantsAssumption DEF Init, SlotsAccounted, ConstantsAssumption
<1>2. TypeOK /\ SlotsAccounted /\ [Next]_vars => SlotsAccounted'
  <2> SUFFICES ASSUME TypeOK, SlotsAccounted, [Next]_vars
               PROVE  SlotsAccounted'
    OBVIOUS
  <2> USE ConstantsAssumption DEF ConstantsAssumption
  <2>a. IsFiniteSet(Holders) /\ Cardinality(Holders) \in Nat
    BY FS_Subset, FS_CardinalityType DEF Holders
  <2>b. ASSUME Holders' = Holders, slots' = slots
        PROVE  SlotsAccounted'
    BY <2>b DEF SlotsAccounted
  <2>c. ASSUME NEW c \in Calls, c \in Holders, Holders' = Holders \ {c}, slots' = slots - 1
        PROVE  SlotsAccounted'
    <3>1. Cardinality(Holders') = Cardinality(Holders) - 1
      BY <2>a, <2>c, FS_RemoveElement
    <3>2. QED
      BY <2>a, <2>c, <3>1 DEF SlotsAccounted
  <2> USE DEF TypeOK, Holders, PC, callVars
  <2>1. ASSUME NEW c \in Calls, Begin(c) PROVE SlotsAccounted'
    <3>1. Holders' = Holders /\ slots' = slots
      BY <2>1 DEF Begin
    <3>2. QED
      BY <3>1, <2>b
  <2>2. ASSUME NEW c \in Calls, CancelWait(c) PROVE SlotsAccounted'
    <3>1. Holders' = Holders /\ slots' = slots
      BY <2>2 DEF CancelWait
    <3>2. QED
      BY <3>1, <2>b
  <2>3. ASSUME NEW c \in Calls, Acquire(c) PROVE SlotsAccounted'
    <3>1. c \notin Holders /\ Holders' = Holders \cup {c}
      BY <2>3 DEF Acquire
    <3>2. slots < MaxConcurrent /\ slots' = slots + 1
      BY <2>3 DEF Acquire
    <3>3. Cardinality(Holders') = Cardinality(Holders) + 1
      BY <2>a, <3>1, FS_AddElement
    <3>4. QED
      BY <2>a, <3>2, <3>3 DEF SlotsAccounted
  <2>4. ASSUME NEW c \in Calls, SessionHit(c) PROVE SlotsAccounted'
    <3>1. Holders' = Holders /\ slots' = slots
      BY <2>4 DEF SessionHit, Post
    <3>2. QED
      BY <3>1, <2>b
  <2>5. ASSUME NEW c \in Calls, SessionMiss(c) PROVE SlotsAccounted'
    <3>1. Holders' = Holders /\ slots' = slots
      BY <2>5 DEF SessionMiss
    <3>2. QED
      BY <3>1, <2>b
  <2>6. ASSUME NEW c \in Calls, RenewAdopt(c) PROVE SlotsAccounted'
    <3>1. Holders' = Holders /\ slots' = slots
      BY <2>6 DEF RenewAdopt, Post
    <3>2. QED
      BY <3>1, <2>b
  <2>7. ASSUME NEW c \in Calls, RenewLogin(c) PROVE SlotsAccounted'
    <3>1. Holders' = Holders /\ slots' = slots
      BY <2>7 DEF RenewLogin
    <3>2. QED
      BY <3>1, <2>b
  <2>8. ASSUME NEW c \in Calls, LoginDone(c) PROVE SlotsAccounted'
    <3>1. Holders' = Holders /\ slots' = slots
      BY <2>8 DEF LoginDone, Post
    <3>2. QED
      BY <3>1, <2>b
  <2>9. ASSUME NEW c \in Calls, LoginFailed(c) PROVE SlotsAccounted'
    <3>1. c \in Holders /\ Holders' = Holders \ {c} /\ slots' = slots - 1
      BY <2>9 DEF LoginFailed, Return
    <3>2. QED
      BY <3>1, <2>c
  <2>10. ASSUME NEW c \in Calls, Answered(c) PROVE SlotsAccounted'
    <3>1. c \in Holders /\ Holders' = Holders \ {c} /\ slots' = slots - 1
      BY <2>10 DEF Answered, Return
    <3>2. QED
      BY <3>1, <2>c
  <2>11. ASSUME NEW c \in Calls, GiveUp(c) PROVE SlotsAccounted'
    <3>1. c \in Holders /\ Holders' = Holders \ {c} /\ slots' = slots - 1
      BY <2>11 DEF GiveUp, Return
    <3>2. QED
      BY <3>1, <2>c
  <2>12. ASSUME NEW c \in Calls, Denied(c) PROVE SlotsAccounted'
    <3>1. CASE ~retried[c]
      <4>1. Holders' = Holders /\ slots' = slots
        BY <2>12, <3>1 DEF Denied
      <4>2. QED
        BY <4>1, <2>b
    <3>2. CASE retried[c]
      <4>1. c \in Holders /\ pc' = [pc EXCEPT ![c] = "done"] /\ slots' = slots - 1
        BY <2>12, <3>2 DEF Denied, Return
      <4>2. Holders' = Holders \ {c}
        BY <4>1
      <4>3. QED
        BY <4>1, <4>2, <2>c
    <3>3. QED
      BY <3>1, <3>2
  <2>13. ASSUME NEW c \in Calls, ServeCall(c) PROVE SlotsAccounted'
    <3>1. Holders' = Holders /\ slots' = slots
      BY <2>13 DEF ServeCall
    <3>2. QED
      BY <3>1, <2>b
  <2>14. ASSUME NEW c \in Calls, ServeLogin(c) PROVE SlotsAccounted'
    <3>1. Holders' = Holders /\ slots' = slots
      BY <2>14 DEF ServeLogin
    <3>2. QED
      BY <3>1, <2>b
  <2>15. ASSUME NEW c \in Calls, Lose(c) PROVE SlotsAccounted'
    <3>1. Holders' = Holders /\ slots' = slots
      BY <2>15 DEF Lose
    <3>2. QED
      BY <3>1, <2>b
  <2>16. CASE KeepaliveTick
    <3>1. Holders' = Holders /\ slots' = slots
      BY <2>16 DEF KeepaliveTick
    <3>2. QED
      BY <3>1, <2>b
  <2>17. CASE KeepaliveOk
    <3>1. Holders' = Holders /\ slots' = slots
      BY <2>17 DEF KeepaliveOk
    <3>2. QED
      BY <3>1, <2>b
  <2>18. CASE KeepaliveFailed
    <3>1. Holders' = Holders /\ slots' = slots
      BY <2>18 DEF KeepaliveFailed
    <3>2. QED
      BY <3>1, <2>b
  <2>19. CASE KeepaliveStop
    <3>1. Holders' = Holders /\ slots' = slots
      BY <2>19 DEF KeepaliveStop
    <3>2. QED
      BY <3>1, <2>b
  <2>20. ASSUME NEW x \in Closers, Close(x) PROVE SlotsAccounted'
    <3>1. Holders' = Holders /\ slots' = slots
      BY <2>20 DEF Close
    <3>2. QED
      BY <3>1, <2>b
  <2>21. ASSUME NEW x \in Closers, CloseReturn(x) PROVE SlotsAccounted'
    <3>1. Holders' = Holders /\ slots' = slots
      BY <2>21 DEF CloseReturn
    <3>2. QED
      BY <3>1, <2>b
  <2>22. CASE Expire
    <3>1. Holders' = Holders /\ slots' = slots
      BY <2>22 DEF Expire
    <3>2. QED
      BY <3>1, <2>b
  <2>23. CASE UNCHANGED vars
    <3>1. Holders' = Holders /\ slots' = slots
      BY <2>23 DEF vars
    <3>2. QED
      BY <3>1, <2>b
  <2>24. QED
    BY <2>1, <2>2, <2>3, <2>4, <2>5, <2>6, <2>7, <2>8, <2>9, <2>10, <2>11, <2>12, <2>13, <2>14, <2>15, <2>16, <2>17, <2>18, <2>19, <2>20, <2>21, <2>22, <2>23 DEF Next, CallStep, RouterStep, KeepaliveStep
<1>3. QED
  BY <1>1, <1>2, TypeCorrect, PTL DEF Spec

-----------------------------------------------------------------------------
(* Session implements RemoteCall: a step of one Call or of the router is a *)
(* step of RemoteCall for that call, or changes nothing it can see.        *)
THEOREM Implements == Spec => RemoteCallSpec
<1>1. Init => RC!RCInit
  BY DEF Init, RC!RCInit, StatusOf
<1>2. SessionInv /\ [Next]_vars => [RC!RCNext]_(RC!rcVars)
  <2> SUFFICES ASSUME SessionInv, [Next]_vars
               PROVE  RC!RCNext \/ UNCHANGED RC!rcVars
    OBVIOUS
  <2> DEFINE S == [d \in Calls |-> StatusOf(d)]
  <2> USE DEF SessionInv, TypeOK, EffectOfOutcome, PC, Outcomes, Requests, Replies,
              RC!rcVars, StatusOf, sessionVars, callVars, keepVars, netVars, routerVars
  <2>1. ASSUME NEW c \in Calls, Begin(c) PROVE RC!RCNext \/ UNCHANGED RC!rcVars
    <3>1. S' = [S EXCEPT ![c] = "open"] /\ UNCHANGED applied
      BY <2>1 DEF Begin
    <3>2. S[c] = "idle"
      BY <2>1 DEF Begin
    <3>3. RC!Open(c)
      BY <3>1, <3>2 DEF RC!Open
    <3>4. QED
      BY <3>3 DEF RC!RCNext
  <2>2. ASSUME NEW c \in Calls, CancelWait(c) PROVE RC!RCNext \/ UNCHANGED RC!rcVars
    <3>1. S' = [S EXCEPT ![c] = "refused"] /\ UNCHANGED applied
      BY <2>2 DEF CancelWait
    <3>2. S[c] = "open" /\ applied[c] = 0
      BY <2>2 DEF CancelWait
    <3>3. RC!ReturnRefused(c)
      BY <3>1, <3>2 DEF RC!ReturnRefused
    <3>4. QED
      BY <3>3 DEF RC!RCNext
  <2>3. ASSUME NEW c \in Calls, Acquire(c) PROVE RC!RCNext \/ UNCHANGED RC!rcVars
    BY <2>3 DEF Acquire
  <2>4. ASSUME NEW c \in Calls, SessionHit(c) PROVE RC!RCNext \/ UNCHANGED RC!rcVars
    BY <2>4 DEF SessionHit, Post, MutexFree
  <2>5. ASSUME NEW c \in Calls, SessionMiss(c) PROVE RC!RCNext \/ UNCHANGED RC!rcVars
    BY <2>5 DEF SessionMiss, MutexFree
  <2>6. ASSUME NEW c \in Calls, RenewAdopt(c) PROVE RC!RCNext \/ UNCHANGED RC!rcVars
    BY <2>6 DEF RenewAdopt, Post, MutexFree, Replaced
  <2>7. ASSUME NEW c \in Calls, RenewLogin(c) PROVE RC!RCNext \/ UNCHANGED RC!rcVars
    BY <2>7 DEF RenewLogin, MutexFree, Replaced
  <2>8. ASSUME NEW c \in Calls, LoginDone(c) PROVE RC!RCNext \/ UNCHANGED RC!rcVars
    BY <2>8 DEF LoginDone, Post
  <2>9. ASSUME NEW c \in Calls, LoginFailed(c) PROVE RC!RCNext \/ UNCHANGED RC!rcVars
    <3>1. S' = [S EXCEPT ![c] = "refused"] /\ UNCHANGED applied
      BY <2>9 DEF LoginFailed, Return
    <3>2. S[c] = "open" /\ applied[c] = 0
      BY <2>9 DEF LoginFailed, Return
    <3>3. RC!ReturnRefused(c)
      BY <3>1, <3>2 DEF RC!ReturnRefused
    <3>4. QED
      BY <3>3 DEF RC!RCNext
  <2>10. ASSUME NEW c \in Calls, Answered(c) PROVE RC!RCNext \/ UNCHANGED RC!rcVars
    <3>1. S[c] = "open" /\ UNCHANGED applied
      BY <2>10 DEF Answered, Return
    <3>2. CASE reply[c] = "ok"
      <4>1. S' = [S EXCEPT ![c] = "ok"] /\ applied[c] = 1
        BY <2>10, <3>2 DEF Answered, Return
      <4>2. QED
        BY <3>1, <4>1 DEF RC!RCNext, RC!ReturnOk
    <3>3. CASE reply[c] = "fault"
      <4>1. S' = [S EXCEPT ![c] = "refused"] /\ applied[c] = 0
        BY <2>10, <3>3 DEF Answered, Return
      <4>2. QED
        BY <3>1, <4>1 DEF RC!RCNext, RC!ReturnRefused
    <3>4. QED
      BY <2>10, <3>2, <3>3 DEF Answered
  <2>11. ASSUME NEW c \in Calls, GiveUp(c) PROVE RC!RCNext \/ UNCHANGED RC!rcVars
    <3>1. S' = [S EXCEPT ![c] = "unknown"] /\ UNCHANGED applied
      BY <2>11 DEF GiveUp, Return
    <3>2. S[c] = "open"
      BY <2>11 DEF GiveUp, Return
    <3>3. RC!ReturnUnknown(c)
      BY <3>1, <3>2 DEF RC!ReturnUnknown
    <3>4. QED
      BY <3>3 DEF RC!RCNext
  <2>12. ASSUME NEW c \in Calls, Denied(c) PROVE RC!RCNext \/ UNCHANGED RC!rcVars
    <3>1. CASE ~retried[c]
      BY <2>12, <3>1 DEF Denied
    <3>2. CASE retried[c]
      <4>1. S[c] = "open" /\ applied[c] = 0 /\ UNCHANGED applied
        BY <2>12, <3>2 DEF Denied
      <4>2. pc' = [pc EXCEPT ![c] = "done"] /\ outcome' = [outcome EXCEPT ![c] = "denied"]
        BY <2>12, <3>2 DEF Denied, Return
      <4>3. S' = [S EXCEPT ![c] = "refused"]
        BY <4>2
      <4>4. QED
        BY <4>1, <4>3 DEF RC!RCNext, RC!ReturnRefused
    <3>3. QED
      BY <3>1, <3>2
  <2>13. ASSUME NEW c \in Calls, ServeCall(c) PROVE RC!RCNext \/ UNCHANGED RC!rcVars
    <3>1. S' = S /\ S[c] \in {"open", "unknown"} /\ applied[c] = 0
      BY <2>13 DEF ServeCall, Answer
    <3>2. CASE UNCHANGED applied
      BY <3>1, <3>2
    <3>3. CASE applied' = [applied EXCEPT ![c] = @ + 1]
      <4>1. RC!Apply(c)
        BY <3>1, <3>3 DEF RC!Apply
      <4>2. QED
        BY <4>1 DEF RC!RCNext
    <3>4. QED
      BY <2>13, <3>2, <3>3 DEF ServeCall
  <2>14. ASSUME NEW c \in Calls, ServeLogin(c) PROVE RC!RCNext \/ UNCHANGED RC!rcVars
    BY <2>14 DEF ServeLogin, Answer
  <2>15. ASSUME NEW c \in Calls, Lose(c) PROVE RC!RCNext \/ UNCHANGED RC!rcVars
    BY <2>15 DEF Lose
  <2>16. CASE KeepaliveTick
    BY <2>16 DEF KeepaliveTick, MutexFree
  <2>17. CASE KeepaliveOk
    BY <2>17 DEF KeepaliveOk
  <2>18. CASE KeepaliveFailed
    BY <2>18 DEF KeepaliveFailed, MutexFree, Invalidated
  <2>19. CASE KeepaliveStop
    BY <2>19 DEF KeepaliveStop
  <2>20. ASSUME NEW x \in Closers, Close(x) PROVE RC!RCNext \/ UNCHANGED RC!rcVars
    BY <2>20 DEF Close
  <2>21. ASSUME NEW x \in Closers, CloseReturn(x) PROVE RC!RCNext \/ UNCHANGED RC!rcVars
    BY <2>21 DEF CloseReturn
  <2>22. CASE Expire
    BY <2>22 DEF Expire
  <2>23. CASE UNCHANGED vars
    BY <2>23 DEF vars
  <2>24. QED
    BY <2>1, <2>2, <2>3, <2>4, <2>5, <2>6, <2>7, <2>8, <2>9, <2>10, <2>11, <2>12, <2>13, <2>14, <2>15, <2>16, <2>17, <2>18, <2>19, <2>20, <2>21, <2>22, <2>23 DEF Next, CallStep, RouterStep, KeepaliveStep
<1>3. QED
  BY <1>1, <1>2, Inductive, PTL DEF Spec, RemoteCallSpec, RC!RCSpec
=============================================================================
