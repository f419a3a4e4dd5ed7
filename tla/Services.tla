------------------------------ MODULE Services ------------------------------
(* The five small services that share nothing: pairing and the credentials  *)
(* of a host (which write disjoint columns of it), the relay cache, the     *)
(* hooks after a deployment and a multicast transfer.  A behaviour is one   *)
(* of a single service, the others stay where they begin.                   *)
EXTENDS Pairing, Credentials, RelayCache, Hooks, Multicast

VARIABLE part

services == <<pvars, cvars, rvars, hvars, mvars, part>>

Init ==
  /\ PairingInit /\ CredentialsInit /\ RelayInit /\ HooksInit /\ MulticastInit
  /\ part \in {"pairing", "credentials", "relay", "hooks", "multicast"}
  /\ part = "pairing" => pointer = None
  /\ part # "pairing" => ~host.known
  /\ part \notin {"pairing", "credentials"} => pointer = None

Next ==
  \/ part = "pairing" /\ PairingNext /\ UNCHANGED <<cvars, rvars, hvars, mvars, part>>
  \/ part = "credentials" /\ CredentialsNext
     /\ UNCHANGED <<pvars, rvars, hvars, mvars, part>>
  \/ part = "relay" /\ RelayNext /\ UNCHANGED <<pvars, cvars, hvars, mvars, part>>
  \/ part = "hooks" /\ HooksNext /\ UNCHANGED <<pvars, cvars, rvars, mvars, part>>
  \/ part = "multicast" /\ MulticastNext /\ UNCHANGED <<pvars, cvars, rvars, hvars, part>>

Spec == Init /\ [][Next]_services

(* The state of every part has its type; among other things a hook is not  *)
(* tried more often than its retries allow, and what a run may roll back is *)
(* in the ledger.                                                          *)
ServicesTypeOK ==
  /\ PairingTypeOK /\ CredentialsTypeOK /\ RelayTypeOK /\ HooksTypeOK /\ MulticastTypeOK
=============================================================================
