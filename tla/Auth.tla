-------------------------------- MODULE Auth ---------------------------------
(***************************************************************************)
(* The authorised sources of the policy filter (src/src/auth.c): addresses  *)
(* that logged in, dropped when they log out or stay idle too long.          *)
(***************************************************************************)
EXTENDS Integers

CONSTANTS
  AuthPeers,     \* addresses
  AuthSlots,     \* MAX_AUTH_IPS
  AuthTimeout,   \* AUTH_TIMEOUT_TICKS
  AuthTicks      \* bound: pit_ticks

ASSUME AuthAssumption ==
  /\ AuthSlots \in Nat /\ AuthTimeout \in Nat /\ AuthTicks \in Nat
  /\ "none" \notin AuthPeers

VARIABLES
  sessions,      \* slot to address and last_seen
  authNow,       \* pit_ticks
  granted,       \* history: addresses that logged in and have not logged out
  active         \* history: when each was last seen or logged in

authVars == <<sessions, authNow, granted, active>>

Free == [ip |-> "none", seen |-> 0]

(* auth_init *)
AuthInit ==
  /\ sessions = [i \in 1 .. AuthSlots |-> Free] /\ authNow = 0
  /\ granted = {} /\ active = [p \in AuthPeers |-> 0]

(* auth_is_authenticated: an idle entry is dropped, a live one refreshed.    *)
AuthOf(ip) == {i \in DOMAIN sessions : sessions[i].ip = ip}
Live(i) == authNow - sessions[i].seen <= AuthTimeout
Authed(ip) == \E i \in AuthOf(ip) : Live(i)
Refreshed(ip) ==
  [i \in DOMAIN sessions |-> IF i \notin AuthOf(ip) THEN sessions[i]
                             ELSE IF Live(i) THEN [ip |-> ip, seen |-> authNow] ELSE Free]

(* The filter asks about the source of a packet. *)
auth_is_authenticated(ip) ==
  /\ sessions' = Refreshed(ip)
  /\ active' = IF Authed(ip) THEN [active EXCEPT ![ip] = authNow] ELSE active
  /\ granted' = IF Authed(ip) THEN granted ELSE granted \ {ip}
  /\ UNCHANGED authNow

(* auth_set_authenticated, auth_logout *)
AuthSlotFor(ip) ==
  LET own  == AuthOf(ip)
      free == {i \in DOMAIN sessions : sessions[i] = Free}
      idle == {i \in DOMAIN sessions : ~Live(i)}
      pick == IF own # {} THEN own ELSE IF free # {} THEN free ELSE idle
  IN  IF pick = {} THEN 0 ELSE CHOOSE i \in pick : \A j \in pick : i <= j
auth_set_authenticated(ip) ==
  LET i == AuthSlotFor(ip)
  IN  /\ sessions' = IF i = 0 THEN sessions
                     ELSE [sessions EXCEPT ![i] = [ip |-> ip, seen |-> authNow]]
      /\ granted' = granted \cup {ip} /\ active' = [active EXCEPT ![ip] = authNow]
      /\ UNCHANGED authNow
auth_logout(ip) ==
  /\ sessions' = [i \in DOMAIN sessions |-> IF i \in AuthOf(ip) THEN Free ELSE sessions[i]]
  /\ granted' = granted \ {ip} /\ UNCHANGED active
  /\ UNCHANGED authNow

AuthTick ==
  /\ authNow < AuthTicks /\ authNow' = authNow + 1
  /\ UNCHANGED <<sessions, granted, active>>

AuthNext ==
  \/ \E p \in AuthPeers : auth_is_authenticated(p) \/ auth_set_authenticated(p) \/ auth_logout(p)
  \/ AuthTick

(* No session is from the future, and no address has two.                    *)
AuthTypeOK ==
  /\ \A i \in DOMAIN sessions : sessions[i].seen <= authNow
  /\ \A p \in AuthPeers : \A i, j \in AuthOf(p) : i = j

(* An address passes as authorised only if it logged in, has not logged out  *)
(* and was not idle for longer than the timeout (auth.c).                    *)
AuthorisedOnlyWhileGranted == 
  \A p \in AuthPeers : Authed(p) => p \in granted /\ authNow - active[p] <= AuthTimeout
=============================================================================
