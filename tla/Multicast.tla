------------------------------ MODULE Multicast ------------------------------
(***************************************************************************)
(* A multicast session of pyfog/distribution.py.  Every piece is sent to   *)
(* the group; a receiver may miss it, get it late or get it twice, or join *)
(* when it is over.  What it misses it asks for with a NACK of its own,    *)
(* and gets it by unicast.  NACKs and pieces are delayed and repeated.     *)
(* Pieces that do not verify and NACKs with a wrong tag change nothing and *)
(* are left out.                                                           *)
(***************************************************************************)
EXTENDS Integers, FiniteSets

CONSTANTS Receiver, Pieces, MaxIndices

ASSUME MulticastAssumption == Pieces \in Nat \ {0} /\ MaxIndices \in Nat \ {0}

VARIABLES
  member,     \* the receivers of the session
  received,   \* received[r]: the pieces of receiver r
  sent,       \* the pieces multicast so far: 0 .. sent - 1
  nacks,      \* the requests made; seen is auxiliary, what r had by then
  repaired,   \* repaired[r]: the pieces served to r by unicast
  requests    \* repair_requests over 0, for each receiver

mvars == <<member, received, sent, nacks, repaired, requests>>

Piece == 0..(Pieces - 1)

MulticastTypeOK ==
  /\ member \subseteq Receiver /\ sent \in 0 .. Pieces
  /\ received \in [Receiver -> SUBSET Piece] /\ repaired \in [Receiver -> SUBSET Piece]
  /\ nacks \subseteq [receiver : Receiver, missing : SUBSET Piece, seen : SUBSET Piece]
  /\ requests \in [Receiver -> BOOLEAN]

MulticastInit ==
  /\ member = {} /\ sent = 0 /\ nacks = {}
  /\ received = [r \in Receiver |-> {}]
  /\ repaired = [r \in Receiver |-> {}]
  /\ requests = [r \in Receiver |-> FALSE]
-----------------------------------------------------------------------------
AddReceiver(r) ==
  /\ r \notin member
  /\ member' = member \cup {r}
  /\ UNCHANGED <<received, sent, nacks, repaired, requests>>

(* iter_multicast_pieces yields the next piece.                            *)
Send ==
  /\ sent < Pieces
  /\ sent' = sent + 1
  /\ UNCHANGED <<member, received, nacks, repaired, requests>>

(* receive, from the group or from a repair; a piece it has is counted as  *)
(* a duplicate.                                                            *)
Receive(r, b) ==
  /\ r \in member
  /\ b < sent \/ b \in repaired[r]
  /\ received' = [received EXCEPT ![r] = @ \cup {b}]
  /\ UNCHANGED <<member, sent, nacks, repaired, requests>>

Missing(r) == Piece \ received[r]

(* Slip: the pieces after the last one received.                           *)
AskedFrom(r) == {b \in Piece : b >= Cardinality(received[r]) /\
                               b < Cardinality(received[r]) + MaxIndices}

(* The first pieces missing, in the order of the manifest.                 *)
Asked(r) == {b \in Missing(r) : Cardinality({c \in Missing(r) : c < b}) < MaxIndices}

RepairRequest(r) ==
  /\ r \in member /\ Missing(r) # {}
  /\ nacks' = nacks \cup {[receiver |-> r, missing |-> Asked(r), seen |-> received[r]]}
  /\ UNCHANGED <<member, received, sent, repaired, requests>>

(* One piece that arrived meanwhile is enough to refuse the request.       *)
Valid(nack) == nack.missing \subseteq Missing(nack.receiver)

ValidateRepair(nack) ==
  /\ Valid(nack)
  /\ repaired' = [repaired EXCEPT ![nack.receiver] = @ \cup nack.missing]
  /\ requests' = [requests EXCEPT ![nack.receiver] = TRUE]
  /\ UNCHANGED <<member, received, sent, nacks>>

MulticastNext ==
  \/ Send
  \/ \E r \in Receiver : \/ AddReceiver(r) \/ RepairRequest(r)
                         \/ \E b \in Piece : Receive(r, b)
  \/ \E nack \in nacks : ValidateRepair(nack)

MulticastSpec == MulticastInit /\ [][MulticastNext]_mvars
-----------------------------------------------------------------------------
(* A request for repair asks for something, and is refused only if its     *)
(* receiver got a piece since it made it: a receiver that always asks      *)
(* again is never refused twice without progress, however requests and     *)
(* pieces are delayed or repeated.                                         *)
RefusalMeansProgress ==
  \A nack \in nacks : /\ nack.missing # {}
                      /\ ~Valid(nack) => nack.seen # received[nack.receiver]
=============================================================================
