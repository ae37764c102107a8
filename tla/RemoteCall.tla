----------------------------- MODULE RemoteCall -----------------------------
(***************************************************************************)
(* What Transport.Call promises its callers, with no session in sight      *)
(* (src/transport/transport.go: "Layers above it do not know a session     *)
(* exists").                                                               *)
(*                                                                         *)
(* A call is opened, the router applies its effect at most once, and the   *)
(* caller is told one of three things: the call was done ("ok"), it was    *)
(* not done and never will be ("refused"), or nobody knows ("unknown": the *)
(* request or its reply was lost, and it may even be applied later).       *)
(* Session implements this module through login, expiry, renewal and       *)
(* retry.                                                                  *)
(***************************************************************************)
EXTENDS Integers

CONSTANT Calls      \* the calls made on one transport

VARIABLES
  status,           \* what the caller knows of each call
  applied           \* how often the router applied each call's effect

rcVars == <<status, applied>>

Status == {"idle", "open", "ok", "refused", "unknown"}

RCInit ==
  /\ status = [c \in Calls |-> "idle"]
  /\ applied = [c \in Calls |-> 0]

Open(c) ==
  /\ status[c] = "idle"
  /\ status' = [status EXCEPT ![c] = "open"]
  /\ UNCHANGED applied

\* The effect reaches the router once, while the caller waits or after it has
\* given up waiting; never after the caller was told "ok" or "refused".
Apply(c) ==
  /\ status[c] \in {"open", "unknown"}
  /\ applied[c] = 0
  /\ applied' = [applied EXCEPT ![c] = 1]
  /\ UNCHANGED status

ReturnOk(c) ==
  /\ status[c] = "open"
  /\ applied[c] = 1
  /\ status' = [status EXCEPT ![c] = "ok"]
  /\ UNCHANGED applied

ReturnRefused(c) ==
  /\ status[c] = "open"
  /\ applied[c] = 0
  /\ status' = [status EXCEPT ![c] = "refused"]
  /\ UNCHANGED applied

ReturnUnknown(c) ==
  /\ status[c] = "open"
  /\ status' = [status EXCEPT ![c] = "unknown"]
  /\ UNCHANGED applied

RCNext ==
  \E c \in Calls :
    \/ Open(c)
    \/ Apply(c)
    \/ ReturnOk(c)
    \/ ReturnRefused(c)
    \/ ReturnUnknown(c)

RCSpec == RCInit /\ [][RCNext]_rcVars
=============================================================================
