------------------------------- MODULE MCRelay -------------------------------
(***************************************************************************)
(* Relay on small instances, with the statements of the repository's       *)
(* documents that the code does not keep.                                  *)
(***************************************************************************)
EXTENDS Relay, TLC

Symmetry == Permutations(Requests)

-----------------------------------------------------------------------------
(* Statements of the documents *)

\* The device's address is used whenever the device is connected.
DeviceUsedWhileConnected ==
  [][\A r \in Requests : req[r] = "idle" /\ req'[r] = "dialling"
       => attached = 0 \/ dev # attached]_vars

\* If the device goes offline, egress falls back: a request is not refused because the
\* device does not answer.
OfflineFallsBack ==
  [][\A r \in Requests : req[r] = "waiting" /\ req'[r] = "refused" => ~Fallback]_vars

\* The tunnel transports raw bytes: no chunk is missing from what the browser gets.
StreamIsWhole ==
  \A r \in Requests : \A i \in 1..Len(got[r]) : got[r][i] = i

\* The carrier of a tunnel is gone: it fails fast, so that the browser retries.
DeadTunnelFails ==
  \A r \in Requests : req[r] = "open" /\ pump[r] = "over" ~> closed[r]

\* The end of the device's stream fails the tunnels it carried; one on the fallback
\* path ends only with the browser or the origin.
FallbackOutlivesDevice ==
  [][\A r \in Requests :
       path[r] = "fallback" /\ ~closed[r] /\ closed'[r] => attached' = attached]_vars
=============================================================================
