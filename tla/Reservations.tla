---------------------------- MODULE Reservations ----------------------------
(***************************************************************************)
(* What the task tables of PyFog promise to the machines: a host works for *)
(* one task at a time, from its creation to its end, and in the whole      *)
(* installation one task at a time transfers.  A task that lost its agent  *)
(* gives the transfer back and keeps its host; a task that ended gives     *)
(* both back and never has them again.                                     *)
(*                                                                         *)
(* The two unique columns tasks.reservation_key and tasks.transfer_slot    *)
(* (pyfog/models.py) are the means; this module is the end.                *)
(***************************************************************************)
CONSTANTS Task, HostOf  \* HostOf[t]: the host a task is for

VARIABLES reserved,  \* the tasks that have their host
          held,      \* the tasks that transfer
          ended      \* the tasks that are over

vars == <<reserved, held, ended>>

Init == reserved = {} /\ held = {} /\ ended = {}

Reserve(t) ==
  /\ t \notin reserved \cup ended
  /\ \A u \in reserved : HostOf[u] # HostOf[t]
  /\ reserved' = reserved \cup {t}
  /\ UNCHANGED <<held, ended>>

Grab(t) ==
  /\ t \in reserved /\ held = {}
  /\ held' = {t}
  /\ UNCHANGED <<reserved, ended>>

Suspend(t) ==
  /\ t \in held
  /\ held' = held \ {t}
  /\ UNCHANGED <<reserved, ended>>

End(t) ==
  /\ t \in reserved
  /\ reserved' = reserved \ {t}
  /\ held' = held \ {t}
  /\ ended' = ended \cup {t}

Next == \E t \in Task : Reserve(t) \/ Grab(t) \/ Suspend(t) \/ End(t)

Spec == Init /\ [][Next]_vars

(* Whoever transfers has its host, alone, and nobody else transfers.       *)
Exclusive ==
  /\ held \subseteq reserved
  /\ reserved \cap ended = {}
  /\ \A t, u \in held : t = u
  /\ \A t, u \in reserved : HostOf[t] = HostOf[u] => t = u
=============================================================================
