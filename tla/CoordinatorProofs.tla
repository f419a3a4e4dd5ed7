------------------------- MODULE CoordinatorProofs -------------------------
(***************************************************************************)
(* Proofs about Coordinator, for any number of nodes, requests, takeovers  *)
(* and ticks.                                                              *)
(***************************************************************************)
EXTENDS Coordinator, TLAPS

Holds(c) == call[c].step \in Leased

(* The write lock belongs to the call between its check and its commit.    *)
Locked == \A c \in Call : call[c].step \in {"open", "claiming"} <=> writer = c

(* What a call knows of the row: the token it made of the one it read, and *)
(* under the lock that the row is still that of its tenure.                *)
Knows ==
  \A c \in Call :
    /\ call[c].step # "idle" => call[c].node \in Node
    /\ call[c].step \in Begun => call[c].token = NextToken(call[c].own, call[c].seen)
    /\ (call[c].step = "open" /\ call[c].own) \/ call[c].step = "claiming"
         => holder = call[c].node /\ token = call[c].token

(* But for overlapping acquisitions, nobody has a token the row has not    *)
(* reached.                                                                *)
TokensGiven ==
  ~raced => /\ last.token <= token
            /\ \A c \in Call : Holds(c) => call[c].token <= token

IInv == TypeOK /\ Locked /\ Knows /\ TokensGiven /\ TokenNamesHolder

LEMMA IdleIsState == Idle \in State /\ Idle.step = "idle"
BY CoordinatorAssumption DEF Idle, State, Token

LEMMA InitIInv == Init => IInv
<1> SUFFICES ASSUME Init PROVE IInv
  OBVIOUS
<1>1. call \in [Call -> State] /\ \A c \in Call : call[c].step = "idle"
  BY IdleIsState DEF Init
<1>2. TypeOK
  <2>1. last = [node |-> Nobody, token |-> 0] /\ 0 \in Token
    BY CoordinatorAssumption DEF Init, Token
  <2>2. last \in [node : Node \cup {Nobody}, token : Token]
    BY <2>1
  <2>3. 0 \in 0 .. Lease
    BY CoordinatorAssumption
  <2> QED
    BY <1>1, <2>1, <2>2, <2>3 DEF Init, TypeOK
<1>3. Locked /\ Knows /\ TokensGiven /\ TokenNamesHolder
  BY <1>1, CoordinatorAssumption
     DEF Init, Locked, Knows, TokensGiven, TokenNamesHolder, Holds, Begun, Leased
<1> QED
  BY <1>2, <1>3 DEF IInv

(* A step that changes neither the owner nor the token of the row, and     *)
(* gives no call a token.                                                  *)
LEMMA Keeping ==
  ASSUME IInv, UNCHANGED <<holder, token, raced>>,
         last' = last \/ (~raced => last'.token <= token),
         \A c \in Call : Holds(c)' => /\ Holds(c)
                                      /\ call'[c].node = call[c].node
                                      /\ call'[c].token = call[c].token
  PROVE  TokensGiven' /\ TokenNamesHolder'
<1>1. TokensGiven'
  BY DEF IInv, TokensGiven
<1>2. TokenNamesHolder'
  BY DEF IInv, TokenNamesHolder, Holds
<1> QED
  BY <1>1, <1>2

(* A call that goes on without the lock, keeping its tenure.               *)
LEMMA GoesOn ==
  ASSUME IInv, NEW c \in Call, NEW step \in {"done", "claim", "publish"}, call' = Goes(c, step)
  PROVE  /\ call' \in [Call -> State]
         /\ \A d \in Call \ {c} : call'[d] = call[d]
         /\ call'[c].step = step /\ call'[c].node = call[c].node /\ call'[c].token = call[c].token
<1>1. call \in [Call -> State] /\ call[c] \in State
  BY DEF IInv, TypeOK
<1>2. PICK r : r = [call[c] EXCEPT !.step = step, !.own = FALSE, !.seen = 0, !.left = 0]
  OBVIOUS
<1>3. /\ call[c].node \in Node \cup {Nobody} /\ call[c].token \in Token
      /\ 0 \in Token /\ 0 \in 0 .. Lease
  BY <1>1, CoordinatorAssumption DEF State, Token
<1>4. r = [step |-> step, node |-> call[c].node, own |-> FALSE, seen |-> 0,
           token |-> call[c].token, left |-> 0]
  BY <1>1, <1>2 DEF State
<1>5. call' = [call EXCEPT ![c] = r]
  BY <1>2 DEF Goes
<1>6. r \in State /\ r.step = step /\ r.node = call[c].node /\ r.token = call[c].token
  BY <1>3, <1>4 DEF State, Leased
<1> QED
  BY <1>1, <1>5, <1>6

(* A call that only takes a step of its own, with or without the lock.     *)
LEMMA Steps ==
  ASSUME IInv, NEW c \in Call, NEW step \in {"open", "claiming", "release"},
         call' = [call EXCEPT ![c].step = step]
  PROVE  /\ call' \in [Call -> State]
         /\ \A d \in Call \ {c} : call'[d] = call[d]
         /\ call'[c].step = step /\ call'[c].node = call[c].node /\ call'[c].token = call[c].token
         /\ call'[c].own = call[c].own /\ call'[c].seen = call[c].seen
<1>1. call \in [Call -> State] /\ call[c] \in State
  BY DEF IInv, TypeOK
<1>2. PICK r : r = [call[c] EXCEPT !.step = step]
  OBVIOUS
<1>3. call' = [call EXCEPT ![c] = r]
  BY <1>1, <1>2
<1>4. /\ r \in State /\ r.step = step /\ r.node = call[c].node /\ r.token = call[c].token
      /\ r.own = call[c].own /\ r.seen = call[c].seen
  BY <1>1, <1>2 DEF State, Leased, Begun
<1> QED
  BY <1>1, <1>3, <1>4

LEMMA ReadStep ==
  ASSUME IInv, NEW c \in Call, NEW n \in Node, Read(c, n) PROVE IInv'
<1> USE CoordinatorAssumption
<1>1. PICK r : r = [step |-> "read", node |-> n, own |-> holder = n, seen |-> token,
                    token |-> NextToken(holder = n, token), left |-> Lease]
  OBVIOUS
<1>2. TypeOK /\ Locked /\ Knows
  BY DEF IInv
<1>3. call' = [call EXCEPT ![c] = r] /\ UNCHANGED <<holder, token, left, writer, last, ended, raced>>
  BY <1>1 DEF Read, row
<1>4. token \in Token /\ NextToken(holder = n, token) \in Token
  BY <1>2 DEF Read, NextToken, Token, TypeOK
<1>5. r \in State
  BY <1>1, <1>4 DEF State, Begun
<1>6. /\ call' \in [Call -> State] /\ call'[c] = r
      /\ \A d \in Call \ {c} : call'[d] = call[d]
  BY <1>2, <1>3, <1>5 DEF TypeOK
<1>7. r.step = "read" /\ r.node = n /\ r.token = NextToken(r.own, r.seen)
  BY <1>1
<1>8. TypeOK'
  BY <1>2, <1>3, <1>6 DEF TypeOK
<1>9. Locked'
  BY <1>2, <1>3, <1>6, <1>7 DEF Locked, Read
<1>10. Knows'
  BY <1>2, <1>3, <1>6, <1>7 DEF Knows, Begun, NextToken
<1>11. TokensGiven' /\ TokenNamesHolder'
  BY <1>3, <1>6, <1>7, Keeping DEF Holds, Leased
<1> QED
  BY <1>8, <1>9, <1>10, <1>11 DEF IInv

(* Taking the lock, for the write of an acquisition or of a claim.         *)
LEMMA OpenStep ==
  ASSUME IInv, NEW c \in Call, Open(c) \/ ClaimOpen(c) PROVE IInv'
<1> USE CoordinatorAssumption
<1>1. PICK step \in {"open", "claiming"} :
        /\ call' = [call EXCEPT ![c].step = step]
        /\ IF step = "open" THEN Open(c) ELSE ClaimOpen(c)
  BY DEF Open, ClaimOpen
<1>2. TypeOK /\ Locked /\ Knows
  BY DEF IInv
<1>3. writer = NoCall /\ writer' = c /\ UNCHANGED <<holder, token, left, last, ended, raced>>
  BY DEF Open, ClaimOpen, row
<1>4. /\ call' \in [Call -> State]
      /\ \A d \in Call \ {c} : call'[d] = call[d]
      /\ call'[c].step = step /\ call'[c].node = call[c].node /\ call'[c].token = call[c].token
      /\ call'[c].own = call[c].own /\ call'[c].seen = call[c].seen
  BY <1>1, Steps
<1>5. TypeOK'
  BY <1>2, <1>3, <1>4 DEF TypeOK
<1>6. Locked'
  BY <1>2, <1>3, <1>4 DEF Locked
<1>7. \/ step = "open" /\ call[c].step = "read" /\ Acquirable(call[c])
      \/ step = "claiming" /\ call[c].step = "claim" /\ Fenced(call[c].node, call[c].token)
  BY <1>1 DEF Open, ClaimOpen
<1>8. Knows'
  BY <1>2, <1>3, <1>4, <1>7 DEF Knows, Begun, Acquirable, Fenced, NextToken
<1>9. TokensGiven' /\ TokenNamesHolder'
  BY <1>3, <1>4, <1>7, Keeping DEF Holds, Leased
<1> QED
  BY <1>5, <1>6, <1>8, <1>9 DEF IInv

(* The commit of an acquisition: the row is then that of its tenure, and   *)
(* the token is above all others or unchanged, unless a change was written *)
(* over.                                                                   *)
LEMMA CommitFacts ==
  ASSUME IInv, NEW c \in Call, Commit(c)
  PROVE  /\ token \in Nat /\ token' \in Nat /\ token' = call[c].token /\ holder' = call[c].node
         /\ ~raced' => /\ ~raced
                       /\ \/ holder' = holder /\ token' = token
                          \/ token' = token + 1
<1>1. TypeOK /\ Knows
  BY DEF IInv
<1>2. call[c].step = "open" /\ token' = call[c].token /\ holder' = call[c].node
  BY DEF Commit
<1>3. token \in Nat /\ call[c] \in State /\ token' \in Nat
  BY <1>1, <1>2 DEF TypeOK, Token, State
<1>4. call[c].token = NextToken(call[c].own, call[c].seen)
  BY <1>1, <1>2 DEF Knows, Begun
<1>5. raced' = (raced \/ (~call[c].own /\ token # call[c].seen))
  BY DEF Commit
<1>6. CASE call[c].own
  BY <1>1, <1>2, <1>3, <1>5, <1>6 DEF Knows
<1>7. CASE ~call[c].own
  BY <1>2, <1>3, <1>4, <1>5, <1>7 DEF NextToken
<1>8. call[c].own \in BOOLEAN
  BY <1>3 DEF State
<1> QED
  BY <1>2, <1>3, <1>6, <1>7, <1>8

LEMMA CommitStep ==
  ASSUME IInv, NEW c \in Call, Commit(c) PROVE IInv'
<1> USE CoordinatorAssumption
<1>1. PICK step \in {"done", "claim", "publish"} : call' = Goes(c, step)
  BY DEF Commit
<1>2. TypeOK /\ Locked /\ Knows /\ TokensGiven /\ TokenNamesHolder
  BY DEF IInv
<1>3. /\ call' \in [Call -> State]
      /\ \A d \in Call \ {c} : call'[d] = call[d]
      /\ call'[c].step = step /\ call'[c].node = call[c].node /\ call'[c].token = call[c].token
  BY <1>1, GoesOn
<1>4. /\ call[c].step = "open" /\ writer' = NoCall /\ UNCHANGED ended /\ left' = call[c].left
      /\ last' = [node |-> call[c].node, token |-> call[c].token]
  BY DEF Commit
<1>5. /\ token \in Nat /\ token' \in Nat /\ token' = call[c].token /\ holder' = call[c].node
      /\ ~raced' => /\ ~raced
                    /\ \/ holder' = holder /\ token' = token
                       \/ token' = token + 1
  BY CommitFacts
<1>6. call[c] \in State /\ raced' \in BOOLEAN
  BY <1>2 DEF TypeOK, Commit
<1>7. call[c].node \in Node \cup {Nobody} /\ call[c].token \in Token /\ call[c].left \in 0 .. Lease
  BY <1>6 DEF State
<1>8. last' \in [node : Node \cup {Nobody}, token : Token] /\ last'.token = token'
  BY <1>4, <1>5, <1>7
<1>9. TypeOK'
  BY <1>2, <1>3, <1>4, <1>5, <1>6, <1>7, <1>8 DEF TypeOK
<1>10. writer = c /\ \A d \in Call \ {c} : call[d].step \notin {"open", "claiming"}
  BY <1>2, <1>4 DEF Locked
<1>11. Locked'
  BY <1>3, <1>4, <1>10 DEF Locked
<1>12. Knows'
  BY <1>2, <1>3, <1>4, <1>10 DEF Knows, Begun
<1>13. \A d \in Call : call'[d].token \in Nat /\ call[d].token \in Nat
  BY <1>2, <1>3 DEF TypeOK, State, Token
<1>14. ASSUME ~raced', NEW d \in Call, d # c, Holds(d)'
       PROVE  Holds(d) /\ call'[d] = call[d] /\ call[d].token <= token
  BY <1>2, <1>3, <1>5, <1>14 DEF TokensGiven, Holds
<1>15. TokensGiven'
  BY <1>3, <1>5, <1>8, <1>13, <1>14 DEF TokensGiven
<1>16. ASSUME ~raced', NEW d \in Call, Holds(d)'
       PROVE  call'[d].token = token' => call'[d].node = holder'
  BY <1>2, <1>3, <1>5, <1>13, <1>14, <1>16 DEF TokenNamesHolder, Holds
<1>17. TokenNamesHolder'
  <2> SUFFICES ASSUME ~raced', NEW d \in Call, NEW e \in Call, Holds(d)', Holds(e)',
                      call'[d].token = call'[e].token
               PROVE  call'[d].node = call'[e].node
    BY <1>16 DEF TokenNamesHolder, Holds
  <2>1. CASE d = c \/ e = c
    BY <2>1, <1>3, <1>5, <1>16
  <2>2. CASE d # c /\ e # c
    BY <2>2, <1>2, <1>5, <1>14 DEF TokenNamesHolder, Holds
  <2> QED
    BY <2>1, <2>2
<1> QED
  BY <1>9, <1>11, <1>12, <1>15, <1>17 DEF IInv

(* The later commits of a request, with and without the fence.             *)
LEMMA LaterStep ==
  ASSUME IInv, NEW c \in Call, ClaimCommit(c) \/ PublishCommit(c) \/ RenewCommit(c) PROVE IInv'
<1> USE CoordinatorAssumption
<1>1. call' = Goes(c, "done")
  BY DEF ClaimCommit, PublishCommit, RenewCommit
<1>2. TypeOK /\ Locked /\ Knows /\ TokensGiven
  BY DEF IInv
<1>3. /\ call' \in [Call -> State]
      /\ \A d \in Call \ {c} : call'[d] = call[d]
      /\ call'[c].step = "done" /\ call'[c].node = call[c].node /\ call'[c].token = call[c].token
  BY <1>1, GoesOn
<1>4. /\ call[c].step \in {"claiming", "publish", "renew"} /\ writer' = NoCall
      /\ writer = c \/ writer = NoCall
      /\ UNCHANGED <<holder, token, raced>>
  BY <1>2 DEF ClaimCommit, PublishCommit, RenewCommit, row, Locked
<1>5. call[c] \in State
  BY <1>2 DEF TypeOK
<1>6. call[c].node \in Node \cup {Nobody} /\ call[c].token \in Token /\ call[c].left \in 0 .. Lease
  BY <1>5 DEF State
<1>7. TypeOK'
  BY <1>2, <1>3, <1>4, <1>6 DEF TypeOK, ClaimCommit, PublishCommit, RenewCommit, row
<1>8. Locked'
  BY <1>2, <1>3, <1>4 DEF Locked
<1>9. Knows'
  BY <1>2, <1>3, <1>4 DEF Knows, Begun, Locked
<1>10. last' = last \/ (~raced => last'.token <= token)
  BY <1>2, <1>4 DEF ClaimCommit, PublishCommit, RenewCommit, TokensGiven, Holds, Leased
<1>11. TokensGiven' /\ TokenNamesHolder'
  BY <1>3, <1>4, <1>10, Keeping DEF Holds, Leased
<1> QED
  BY <1>7, <1>8, <1>9, <1>11 DEF IInv

LEMMA BeginStep ==
  ASSUME IInv, NEW c \in Call, RenewBegin(c) \/ ReleaseBegin(c) PROVE IInv'
<1> USE CoordinatorAssumption
<1>1. TypeOK /\ Locked /\ Knows
  BY DEF IInv
<1>2. /\ call[c].step = "done"
      /\ UNCHANGED <<holder, token, left, writer, last, ended, raced>>
  BY DEF RenewBegin, ReleaseBegin, row
<1>3. /\ call' \in [Call -> State]
      /\ \A d \in Call \ {c} : call'[d] = call[d]
      /\ call'[c].step \in {"renew", "release"}
      /\ call'[c].node = call[c].node /\ call'[c].token = call[c].token
  <2>1. CASE RenewBegin(c)
    <3>1. PICK r : r = [call[c] EXCEPT !.step = "renew", !.left = FullLease]
      OBVIOUS
    <3>2. call \in [Call -> State] /\ call[c] \in State
      BY <1>1 DEF TypeOK
    <3>3. call' = [call EXCEPT ![c] = r]
      BY <2>1, <3>1, <3>2 DEF RenewBegin
    <3>4. Lease \in 0 .. Lease
      OBVIOUS
    <3>5. r = [step |-> "renew", node |-> call[c].node, own |-> call[c].own,
               seen |-> call[c].seen, token |-> call[c].token, left |-> Lease]
      BY <3>1, <3>2 DEF State, FullLease
    <3>6. r \in State /\ r.step = "renew" /\ r.node = call[c].node /\ r.token = call[c].token
      BY <3>2, <3>4, <3>5 DEF State, Leased
    <3> QED
      BY <3>2, <3>3, <3>6
  <2>2. CASE ReleaseBegin(c)
    BY <2>2, Steps DEF ReleaseBegin
  <2> QED
    BY <2>1, <2>2
<1>4. TypeOK'
  BY <1>1, <1>2, <1>3 DEF TypeOK
<1>5. Locked' /\ Knows'
  BY <1>1, <1>2, <1>3 DEF Locked, Knows, Begun
<1>6. TokensGiven' /\ TokenNamesHolder'
  BY <1>2, <1>3, Keeping DEF Holds, Leased
<1> QED
  BY <1>4, <1>5, <1>6 DEF IInv

LEMMA ReleaseStep ==
  ASSUME IInv, NEW c \in Call, ReleaseCommit(c) PROVE IInv'
<1> USE CoordinatorAssumption
<1>1. TypeOK /\ Locked /\ Knows /\ TokensGiven /\ TokenNamesHolder
  BY DEF IInv
<1>2. /\ call[c].step = "release" /\ writer = NoCall /\ call[c].token < MaxToken
      /\ holder' = Nobody /\ token' = call[c].token + 1 /\ left' = 0
      /\ raced' = (raced \/ token # call[c].token) /\ call' = Goes(c, "done")
      /\ UNCHANGED <<writer, last, ended>>
  BY DEF ReleaseCommit
<1>3. /\ call' \in [Call -> State]
      /\ \A d \in Call \ {c} : call'[d] = call[d]
      /\ call'[c].step = "done" /\ call'[c].node = call[c].node /\ call'[c].token = call[c].token
  BY <1>2, GoesOn
<1>4. token \in Nat /\ last.token \in Nat /\ \A d \in Call : call[d].token \in Nat
  BY <1>1 DEF TypeOK, State, Token
<1>5. TypeOK'
  BY <1>1, <1>2, <1>3, <1>4 DEF TypeOK, Token
<1>6. Locked' /\ Knows'
  BY <1>1, <1>2, <1>3 DEF Locked, Knows, Begun
<1>7. ASSUME ~raced'
      PROVE  /\ ~raced /\ token' = token + 1
             /\ \A d \in Call : /\ Holds(d)' => Holds(d) /\ call[d].token <= token
                                /\ call'[d].token = call[d].token /\ call'[d].node = call[d].node
  BY <1>1, <1>2, <1>3, <1>7 DEF TokensGiven, Holds, Leased
<1>8. TokensGiven'
  BY <1>1, <1>2, <1>4, <1>7 DEF TokensGiven
<1>9. TokenNamesHolder'
  BY <1>1, <1>4, <1>7 DEF TokenNamesHolder, Holds
<1> QED
  BY <1>5, <1>6, <1>8, <1>9 DEF IInv

LEMMA EndsStep ==
  ASSUME IInv, NEW c \in Call, Ends(c) PROVE IInv'
<1> USE CoordinatorAssumption
<1>1. TypeOK /\ Locked /\ Knows
  BY DEF IInv
<1>2. /\ call' = [call EXCEPT ![c] = Idle] /\ writer' = IF writer = c THEN NoCall ELSE writer
      /\ UNCHANGED <<holder, token, left, last, ended, raced>>
  BY DEF Ends, row
<1>3. Idle \in State /\ Idle.step = "idle"
  BY IdleIsState
<1>4. call'[c] = Idle /\ \A d \in Call \ {c} : call'[d] = call[d]
  BY <1>1, <1>2 DEF TypeOK
<1>5. TypeOK'
  BY <1>1, <1>2, <1>3 DEF TypeOK
<1>6. Locked'
  BY <1>1, <1>2, <1>3, <1>4 DEF Locked
<1>7. Knows'
  BY <1>1, <1>2, <1>3, <1>4 DEF Knows, Begun
<1>8. TokensGiven' /\ TokenNamesHolder'
  BY <1>2, <1>3, <1>4, Keeping DEF Holds, Leased
<1> QED
  BY <1>5, <1>6, <1>7, <1>8 DEF IInv

LEMMA TickStep ==
  ASSUME IInv, Tick PROVE IInv'
<1> USE CoordinatorAssumption
<1>1. TypeOK /\ Locked /\ Knows
  BY DEF IInv
<1>2. /\ left' = Sooner(left) /\ call' = [c \in Call |-> [call[c] EXCEPT !.left = Sooner(@)]]
      /\ UNCHANGED <<holder, token, writer, last, ended, raced>>
  BY DEF Tick
<1>3. \A t \in 0 .. Lease : Sooner(t) \in 0 .. Lease
  BY DEF Sooner
<1>4. ASSUME NEW c \in Call
      PROVE  /\ call'[c] \in State /\ call'[c].step = call[c].step /\ call'[c].node = call[c].node
             /\ call'[c].token = call[c].token /\ call'[c].own = call[c].own
             /\ call'[c].seen = call[c].seen
  <2>1. call[c] \in State
    BY <1>1 DEF TypeOK
  <2>2. PICK t : t = Sooner(call[c].left)
    OBVIOUS
  <2>3. t \in 0 .. Lease /\ call'[c] = [call[c] EXCEPT !.left = t]
    BY <1>2, <1>3, <2>1, <2>2 DEF State
  <2> QED
    BY <2>1, <2>3 DEF State
<1>5. TypeOK'
  <2>1. call' \in [Call -> State]
    BY <1>2, <1>4
  <2> QED
    BY <1>1, <1>2, <1>3, <2>1 DEF TypeOK
<1>6. Locked' /\ Knows'
  BY <1>1, <1>2, <1>4 DEF Locked, Knows
<1>7. TokensGiven' /\ TokenNamesHolder'
  BY <1>2, <1>4, Keeping DEF Holds
<1> QED
  BY <1>5, <1>6, <1>7 DEF IInv

LEMMA StepIInv == IInv /\ [Next]_vars => IInv'
<1>1. ASSUME IInv, UNCHANGED vars PROVE IInv'
  BY <1>1 DEF vars, row, IInv, TypeOK, Locked, Knows, TokensGiven, TokenNamesHolder, Holds
<1> QED
  BY <1>1, ReadStep, OpenStep, CommitStep, LaterStep, BeginStep, ReleaseStep, EndsStep, TickStep
     DEF Next

LEMMA InvariantHolds == Spec => []IInv
BY InitIInv, StepIInv, PTL DEF Spec

(* The lease row, the write lock and the requests keep their types, for    *)
(* every set of coordinators and of requests; no lease outlasts its term.  *)
THEOREM TypeCorrect == Spec => []TypeOK
BY InvariantHolds, PTL DEF IInv

(* As long as no overlapping change of owner is written over, a fencing    *)
(* token is never shared by two nodes, so the resource that sees a token   *)
(* knows whose tenure it is.                                               *)
THEOREM TokensAreExclusive == Spec => []TokenNamesHolder
BY InvariantHolds, PTL DEF IInv

(* What a fenced commit writes is under the row's own tenure.              *)
LEMMA OrderedStep ==
  ASSUME IInv, [Next]_vars
  PROVE  /\ last' # last => last'.node = holder' /\ last'.token = token'
         /\ raced' \/ last'.token >= last.token
<1>1. last.token \in Nat /\ token \in Nat /\ last = [node |-> last.node, token |-> last.token]
  BY DEF IInv, TypeOK, Token
<1>2. ~raced => last.token <= token
  BY DEF IInv, TokensGiven
<1>3. ASSUME NEW c \in Call, Commit(c)
      PROVE  /\ last'.node = holder' /\ last'.token = token'
             /\ raced' \/ last'.token >= last.token
  <2>1. last'.node = holder' /\ last'.token = token'
    BY <1>3 DEF Commit
  <2> QED
    BY <1>1, <1>2, <1>3, <2>1, CommitFacts
<1>4. ASSUME NEW c \in Call, ClaimCommit(c)
      PROVE  /\ last'.node = holder' /\ last'.token = token'
             /\ raced' \/ last'.token >= last.token
  <2>1. last' = [node |-> call[c].node, token |-> call[c].token] /\ UNCHANGED <<holder, token, raced>>
    BY <1>4 DEF ClaimCommit, row
  <2>2. holder = call[c].node /\ token = call[c].token
    BY <1>4 DEF ClaimCommit, IInv, Knows
  <2> QED
    BY <1>1, <1>2, <2>1, <2>2
<1>5. ASSUME last' = last
      PROVE  raced' \/ last'.token >= last.token
  BY <1>1, <1>5
<1>6. last' = last \/ \E c \in Call : Commit(c) \/ ClaimCommit(c)
  BY DEF Next, Read, Open, ClaimOpen, PublishCommit, RenewBegin, RenewCommit, ReleaseBegin,
         ReleaseCommit, Ends, Tick, vars
<1> QED
  BY <1>3, <1>4, <1>5, <1>6

(* Fenced mutations are committed under the tenure the row names at that   *)
(* moment, and, but for overlapping changes of owner, in the order of the  *)
(* tenures.                                                                *)
THEOREM FencedInOrder == Spec => WritesInOrder
<1>1. IInv /\ [Next]_vars =>
        [/\ last' # last => last'.node = holder' /\ last'.token = token'
         /\ raced' \/ last'.token >= last.token]_vars
  BY OrderedStep
<1> QED
  BY <1>1, InvariantHolds, PTL DEF Spec, WritesInOrder
=============================================================================
