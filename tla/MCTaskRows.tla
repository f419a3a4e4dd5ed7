----------------------------- MODULE MCTaskRows -----------------------------
(* Small instances of TaskRows.                                            *)
EXTENDS TaskRows, TLC
CONSTANTS t1, t2, h1, h2

OnTwoHosts == t1 :> h1 @@ t2 :> h2
OnOneHost  == [t \in Task |-> h1]

OneAndTwo == [t \in Task |-> IF t = t1 THEN 2 ELSE 1]
OneEach == [t \in Task |-> 1]

(* A second task is not in the same behaviour as a second attempt or a     *)
(* second thread.                                                          *)
TwoOfOneKind ==
  \/ task[t2].status = "none"
  \/ /\ att[<<t1, 2>>].phase = "unused"
     /\ \E r \in Thread : job[r] = Idle

(* The threads are alike.                                                  *)
Alike == Permutations(Thread)
=============================================================================
