---------------------------- MODULE TunnelService ----------------------------
(***************************************************************************)
(* What the shim promises the browser: every connection it asks for is     *)
(* refused or leaves by one exit for all its life, and what the origin     *)
(* sends arrives in order and at most once.  Relay implements it.          *)
(***************************************************************************)
EXTENDS Naturals, Sequences

CONSTANTS
  Requests,  \* connections of the browser to the shim
  Chunks     \* chunks the origin sends on one of them (a bound)

VARIABLES
  stage,  \* how far the connection has come
  exit,   \* where it leaves: the owner's device, or the server's own fallback
  got     \* the chunks the browser was given

vars == <<stage, exit, got>>

Stages == {"idle", "connecting", "streaming", "refused", "over"}
Exits  == {"device", "fallback"}

Init ==
  /\ stage = [r \in Requests |-> "idle"]
  /\ exit = [r \in Requests |-> "none"]
  /\ got = [r \in Requests |-> <<>>]

Asks(r) ==
  /\ stage[r] = "idle"
  /\ \E s \in {"connecting", "refused"} : stage' = [stage EXCEPT ![r] = s]
  /\ UNCHANGED <<exit, got>>

Refuses(r) ==
  /\ stage[r] = "connecting"
  /\ stage' = [stage EXCEPT ![r] = "refused"]
  /\ UNCHANGED <<exit, got>>

Accepts(r) ==
  /\ stage[r] = "connecting"
  /\ stage' = [stage EXCEPT ![r] = "streaming"]
  /\ \E e \in Exits : exit' = [exit EXCEPT ![r] = e]
  /\ UNCHANGED got

\* Chunks may be missing, but none comes twice or after a later one.
Gives(r) ==
  /\ stage[r] = "streaming"
  /\ \E n \in 1..Chunks : /\ \A i \in 1..Len(got[r]) : got[r][i] < n
                          /\ got' = [got EXCEPT ![r] = Append(@, n)]
  /\ UNCHANGED <<stage, exit>>

Finishes(r) ==
  /\ stage[r] = "streaming"
  /\ stage' = [stage EXCEPT ![r] = "over"]
  /\ UNCHANGED <<exit, got>>

Next == \E r \in Requests : Asks(r) \/ Refuses(r) \/ Accepts(r) \/ Gives(r) \/ Finishes(r)

Spec == Init /\ [][Next]_vars
=============================================================================
