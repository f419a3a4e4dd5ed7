-------------------------------- MODULE Hooks --------------------------------
(***************************************************************************)
(* The post-deploy hooks of pyfog/hooks.py, run through the plugins of     *)
(* pyfog/plugins.py: a plan of steps in order, each tried several times,   *)
(* a ledger of the steps done, and the rollback of what a failed run did.  *)
(*                                                                         *)
(* A plugin that is reported as failed may have had its effect: it ran out *)
(* of time, or its answer was too long or malformed.  The ledger is kept   *)
(* by the caller across runs; the list of what a run completed is not.     *)
(***************************************************************************)
EXTENDS Integers, FiniteSetsExt

CONSTANTS Steps,       \* the length of the plan
          Retries,     \* Retries[s]
          WithRollback \* the steps that declare a rollback plugin

ASSUME HooksAssumption ==
  /\ Steps \in Nat \ {0}
  /\ Retries \in [1..Steps -> Nat]
  /\ WithRollback \subseteq 1..Steps

VARIABLES
  ledger,   \* completed_keys
  effect,   \* the steps whose effect is in place
  at,       \* the step the run is at
  tries,    \* how often it was tried
  done,     \* the steps this run completed and may still roll back
  run,      \* idle, forward, rollback, succeeded or failed
  undone    \* auxiliary: steps a rollback was run for

hvars == <<ledger, effect, at, tries, done, run, undone>>

Step == 1..Steps

HooksTypeOK ==
  /\ ledger \subseteq Step /\ effect \subseteq Step
  /\ done \subseteq ledger /\ undone \subseteq ledger
  /\ at \in 1 .. Steps + 1
  /\ tries \in 0 .. (IF at \in Step THEN Retries[at] ELSE 0)
  /\ run \in {"idle", "forward", "rollback", "succeeded", "failed"}

HooksInit ==
  /\ ledger = {} /\ effect = {} /\ done = {} /\ undone = {}
  /\ at = 1 /\ tries = 0 /\ run = "idle"
-----------------------------------------------------------------------------
(* A deployment of the task, or a retry of it with the same ledger.        *)
Deploy ==
  /\ run \in {"idle", "failed", "succeeded"}
  /\ run' = "forward" /\ at' = 1 /\ tries' = 0 /\ done' = {}
  /\ UNCHANGED <<ledger, effect, undone>>

InOrder == run = "forward" /\ at \in Step

Skip ==
  /\ InOrder /\ at \in ledger
  /\ at' = at + 1 /\ tries' = 0
  /\ UNCHANGED <<ledger, effect, done, run, undone>>

(* PluginRunner.run returns a response that says success, and the key is   *)
(* marked.                                                                 *)
Succeed ==
  /\ InOrder /\ at \notin ledger
  /\ effect' = effect \cup {at}
  /\ ledger' = ledger \cup {at}
  /\ done' = done \cup {at}
  /\ at' = at + 1 /\ tries' = 0
  /\ UNCHANGED <<run, undone>>

(* Slip: the last retry is followed by another one.                        *)
TriesTooMany(s) == Retries[s] + 2

(* The tries a step has: the first one and its retries.                    *)
Tries(s) == Retries[s] + 1

(* Slip: the key is marked when the tries are over.                        *)
FailMarks ==
  /\ InOrder /\ at \notin ledger
  /\ effect' \in {effect, effect \cup {at}}
  /\ IF tries + 1 < Tries(at)
     THEN tries' = tries + 1 /\ UNCHANGED <<run, ledger>>
     ELSE tries' = 0 /\ run' = "rollback" /\ ledger' = ledger \cup {at}
  /\ UNCHANGED <<at, done, undone>>

(* It raises PluginError or answers with a failure, after an effect or     *)
(* before one; after the last try the run turns to its rollback.           *)
Fail ==
  /\ InOrder /\ at \notin ledger
  /\ effect' \in {effect, effect \cup {at}}
  /\ IF tries + 1 < Tries(at)
     THEN tries' = tries + 1 /\ UNCHANGED run
     ELSE tries' = 0 /\ run' = "rollback"
  /\ UNCHANGED <<ledger, at, done, undone>>

(* The completed steps in reverse order; those without a rollback plugin   *)
(* are passed over, and a rollback that fails is not repeated.             *)
Rollback ==
  /\ run = "rollback" /\ done # {}
  /\ LET s == Max(done) IN
       /\ done' = done \ {s}
       /\ IF s \in WithRollback
          THEN effect' \in {effect, effect \ {s}} /\ undone' = undone \cup {s}
          ELSE UNCHANGED <<effect, undone>>
  /\ UNCHANGED <<ledger, at, tries, run>>

Finish ==
  /\ \/ run = "forward" /\ at = Steps + 1 /\ run' = "succeeded"
     \/ run = "rollback" /\ done = {} /\ run' = "failed"
  /\ UNCHANGED <<ledger, effect, at, tries, done, undone>>

(* The process stops during a run, also after an effect whose key is not   *)
(* marked yet.                                                             *)
HooksStop ==
  /\ run \in {"forward", "rollback"}
  /\ effect' \in {effect, effect \cup (IF InOrder /\ at \notin ledger THEN {at} ELSE {})}
  /\ run' = "idle" /\ at' = 1 /\ tries' = 0 /\ done' = {}
  /\ UNCHANGED <<ledger, undone>>

HooksNext == Deploy \/ Skip \/ Succeed \/ Fail \/ Rollback \/ Finish \/ HooksStop

HooksSpec == HooksInit /\ [][HooksNext]_hvars
-----------------------------------------------------------------------------
(* A run that succeeds leaves the effect of every step of the plan in      *)
(* place, over any sequence of failures, retries and stops before it; only *)
(* a step an earlier run rolled back may be missing, since its key stays   *)
(* in the ledger.                                                          *)
SuccessHasEffects == run = "succeeded" => Step \subseteq effect \cup undone
=============================================================================
