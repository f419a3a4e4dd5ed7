---------------------------- MODULE Coordinator ----------------------------
(***************************************************************************)
(* The active/passive coordinators of pyfog/coordinator.py and the         *)
(* requests of pyfog/api.py that they fence.                               *)
(*                                                                         *)
(* All nodes share one database row with the holder of the lease, a term   *)
(* and a fencing token.  acquire_lease reads the row and then writes the   *)
(* columns it changed.  The database is SQLite: it knows no row locks, so  *)
(* the FOR UPDATE of the read is left out, and the first write of a        *)
(* transaction takes the one write lock, which its end gives back.  What   *)
(* another request commits between the read and the write is written over. *)
(* The row object of acquire_lease is gone when the function returns, so   *)
(* assert_fenced, right after, reads the row again, under the lock.        *)
(*                                                                         *)
(* Two requests commit twice: a claim that expired some lease, and the     *)
(* result of a capture.                                                    *)
(*                                                                         *)
(* term and fencing_token are always incremented together: one variable.   *)
(* The missing row of a new installation is the row with token 0.          *)
(***************************************************************************)
EXTENDS Integers

CONSTANTS Node,      \* coordinator_id of each server process
          Nobody,    \* holder_id = "", what release leaves
          Call,      \* the requests that may be open at a time
          NoCall,    \* nobody holds the write lock
          Lease,     \* coordinator_lease_seconds, in ticks
          MaxToken   \* bound on the changes of owner

ASSUME CoordinatorAssumption ==
  /\ Nobody \notin Node /\ NoCall \notin Call
  /\ Lease \in Nat \ {0}
  /\ MaxToken \in Nat \ {0}

VARIABLES
  holder,    \* holder_id of the row
  token,     \* fencing_token (and term) of the row
  left,      \* the time until lease_expires_at, 0 once it is reached
  writer,    \* the call whose transaction holds the write lock
  call,      \* call[c]: what the call c has read and is about to write
  last,      \* the tenure under which the last fenced mutation was committed
  ended,     \* the token of the last publication committed
  raced      \* an owner or a token was written over one that was not read

row  == <<holder, token, left>>
vars == <<row, writer, call, last, ended, raced>>

Token == 0 .. MaxToken
Begun == {"read", "open"}
Leased == {"claim", "claiming", "publish", "done", "renew", "release"}
State == [step : {"idle"} \cup Begun \cup Leased, node : Node \cup {Nobody},
          own : BOOLEAN,     \* the holder it read was its node
          seen : Token,      \* the token it read
          token : Token,     \* the token of its FencingLease
          left : 0 .. Lease] \* until the expiry it is about to write
Idle == [step |-> "idle", node |-> Nobody, own |-> FALSE, seen |-> 0, token |-> 0, left |-> 0]

TypeOK ==
  /\ holder \in Node \cup {Nobody} /\ token \in Token /\ left \in 0 .. Lease
  /\ writer \in Call \cup {NoCall}
  /\ call \in [Call -> State]
  /\ last \in [node : Node \cup {Nobody}, token : Token] /\ ended \in Token
  /\ raced \in BOOLEAN

Init ==
  /\ holder = Nobody /\ token = 0 /\ left = 0
  /\ writer = NoCall /\ call = [c \in Call |-> Idle]
  /\ last = [node |-> Nobody, token |-> 0] /\ ended = 0 /\ raced = FALSE
-----------------------------------------------------------------------------
(* Slip: only the first owner of all gets a token of its own.              *)
SameToken(own, seen) == IF seen = 0 THEN 1 ELSE seen

(* The token an acquisition makes of the one it read.                      *)
NextToken(own, seen) == IF own THEN seen ELSE seen + 1

(* Slip: the owner is compared and the token is not.                       *)
FencedByName(n, t) == holder = n /\ left > 0

(* assert_fenced for a FencingLease of n with token t.                     *)
Fenced(n, t) == holder = n /\ token = t /\ left > 0

(* acquire_lease reads the row for a request at n: the lease is free,      *)
(* expired or already n's.  The new expiry counts from here.               *)
Read(c, n) ==
  /\ call[c].step = "idle"
  /\ left = 0 \/ holder = n
  /\ NextToken(holder = n, token) <= MaxToken
  /\ call' = [call EXCEPT ![c] =
       [step |-> "read", node |-> n, own |-> holder = n, seen |-> token,
        token |-> NextToken(holder = n, token), left |-> Lease]]
  /\ UNCHANGED <<row, writer, last, ended, raced>>

(* The row is inserted by the first owner of all, one of several; a new    *)
(* owner writes all its columns, the old one the expiry only: what         *)
(* assert_fenced then reads is somebody else's if the row has changed.     *)
Acquirable(r) ==
  /\ IF r.own THEN holder = r.node /\ token = r.token ELSE r.seen = 0 => token = 0
  /\ r.left > 0

(* acquire_lease writes the row, and coordinator_fence asserts the fence;  *)
(* the request goes on in the same transaction.                            *)
Open(c) ==
  /\ call[c].step = "read" /\ writer = NoCall
  /\ Acquirable(call[c])
  /\ writer' = c /\ call' = [call EXCEPT ![c].step = "open"]
  /\ UNCHANGED <<row, last, ended, raced>>

Goes(c, step) == [call EXCEPT ![c] = [@ EXCEPT !.step = step, !.own = FALSE, !.seen = 0, !.left = 0]]

(* The first commit, of the lease and of what the request did so far.  For *)
(* a heartbeat, progress, an upload, a failure or the result of a          *)
(* restoration that is all; a claim that expired leases and the result of  *)
(* a capture go on.                                                        *)
Commit(c) ==
  /\ call[c].step = "open"
  /\ holder' = call[c].node /\ token' = call[c].token /\ left' = call[c].left
  /\ raced' = (raced \/ (~call[c].own /\ token # call[c].seen))
  /\ last' = [node |-> call[c].node, token |-> call[c].token]
  /\ writer' = NoCall
  /\ \E step \in {"done", "claim", "publish"} : call' = Goes(c, step)
  /\ UNCHANGED ended

(* claim_task flushes the attempt, which takes the write lock, then        *)
(* asserts the fence again, and commits.                                   *)
ClaimOpen(c) ==
  /\ call[c].step = "claim" /\ writer = NoCall
  /\ Fenced(call[c].node, call[c].token)
  /\ writer' = c /\ call' = [call EXCEPT ![c].step = "claiming"]
  /\ UNCHANGED <<row, last, ended, raced>>
ClaimCommit(c) ==
  /\ call[c].step = "claiming"
  /\ last' = [node |-> call[c].node, token |-> call[c].token]
  /\ writer' = NoCall /\ call' = Goes(c, "done")
  /\ UNCHANGED <<row, ended, raced>>

(* _finish_capture_agent_task does not assert it again: its last commit    *)
(* follows the verification of the files, however long that took.          *)
PublishCommit(c) ==
  /\ call[c].step = "publish" /\ writer = NoCall
  /\ ended' = call[c].token
  /\ call' = Goes(c, "done")
  /\ UNCHANGED <<row, writer, last, raced>>

(* Slip: the lease is extended by what it still had.                       *)
LeftPlusLease == left + Lease

(* What an extension leaves.                                               *)
FullLease == Lease

(* renew_lease: only the exact owner, only before the expiry, by what it   *)
(* read; the write is of the expiry only, and nothing is asserted after.   *)
RenewBegin(c) ==
  /\ call[c].step = "done" /\ Fenced(call[c].node, call[c].token)
  /\ call' = [call EXCEPT ![c].step = "renew", ![c].left = FullLease]
  /\ UNCHANGED <<row, writer, last, ended, raced>>
RenewCommit(c) ==
  /\ call[c].step = "renew" /\ writer = NoCall
  /\ left' = call[c].left
  /\ call' = Goes(c, "done")
  /\ UNCHANGED <<holder, token, writer, last, ended, raced>>

(* release_lease: by the exact owner, expired or not.                      *)
ReleaseBegin(c) ==
  /\ call[c].step = "done" /\ holder = call[c].node /\ token = call[c].token
  /\ call' = [call EXCEPT ![c].step = "release"]
  /\ UNCHANGED <<row, writer, last, ended, raced>>
ReleaseCommit(c) ==
  /\ call[c].step = "release" /\ writer = NoCall /\ call[c].token < MaxToken
  /\ holder' = Nobody /\ token' = call[c].token + 1 /\ left' = 0
  /\ raced' = (raced \/ token # call[c].token)
  /\ call' = Goes(c, "done")
  /\ UNCHANGED <<writer, last, ended>>

(* A call ends: it is done, it is refused by assert_fenced, it waits too   *)
(* long for the lock, or its process stops.  What it did not commit is     *)
(* rolled back.                                                            *)
Ends(c) ==
  /\ call[c].step # "idle"
  /\ call' = [call EXCEPT ![c] = Idle]
  /\ writer' = IF writer = c THEN NoCall ELSE writer
  /\ UNCHANGED <<row, last, ended, raced>>

Sooner(t) == IF t > 0 THEN t - 1 ELSE 0
Tick ==
  /\ left > 0 \/ \E c \in Call : call[c].left > 0
  /\ left' = Sooner(left)
  /\ call' = [c \in Call |-> [call[c] EXCEPT !.left = Sooner(@)]]
  /\ UNCHANGED <<holder, token, writer, last, ended, raced>>

Next ==
  \/ \E c \in Call : \/ \E n \in Node : Read(c, n)
                     \/ Open(c) \/ Commit(c) \/ ClaimOpen(c) \/ ClaimCommit(c)
                     \/ PublishCommit(c) \/ RenewBegin(c) \/ RenewCommit(c)
                     \/ ReleaseBegin(c) \/ ReleaseCommit(c) \/ Ends(c)
  \/ Tick

Spec == Init /\ [][Next]_vars
-----------------------------------------------------------------------------
(* A token belongs to one node: no two calls of different nodes work under *)
(* the same token, and that of the row is its holder's, whatever expiries, *)
(* releases and restarts happened.  This holds as long as no acquisition   *)
(* or release was written over a change it had not read; two nodes that    *)
(* read one expired row both make the same token of it.                    *)
TokenNamesHolder ==
  ~raced =>
    \A c, d \in {e \in Call : call[e].step \in Leased} :
      /\ call[c].token = call[d].token => call[c].node = call[d].node
      /\ call[c].token = token => call[c].node = holder

(* A fenced mutation is always committed on behalf of the tenure the row   *)
(* names at that commit, also a claim's that checked it before: a node     *)
(* that lost the lease, or lost it and has it again, commits nothing for   *)
(* its old tenure.  And, but for acquisitions written over one another,    *)
(* the mutations are committed in the order of the tokens.                 *)
WritesInOrder ==
  [][/\ last' # last => last'.node = holder' /\ last'.token = token'
     /\ raced' \/ last'.token >= last.token]_vars

(* docs/coordinator-ha.md: assert_fenced precedes every durable mutation,  *)
(* and an old token fails closed.  The last commit of a capture does not   *)
(* keep this: see the README.                                              *)
PublicationsFenced == [][ended' # ended => ended' = token]_vars

(* docs/coordinator-ha.md: a new owner gets a new term and token.  Two     *)
(* acquisitions that overlap do not keep this: see the README.             *)
NewOwnerNewToken == [][holder' # holder => token' > token]_vars
=============================================================================
