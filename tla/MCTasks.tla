------------------------------ MODULE MCTasks ------------------------------
(* Small instances of Tasks.                                               *)
EXTENDS Tasks, TLC
CONSTANTS t1, t2, t3, h1, h2, i1, i2

(* A capture, and a restoration of its image on the same host.             *)
CaptureThenRestore == t1 :> "capture" @@ t2 :> "restore"
OnOneHost          == t1 :> h1 @@ t2 :> h1

(* Two captures that compete for the slot, and a clone for one of the      *)
(* hosts and images.  The images are alike.                                *)
TwoCapturesAndClone == t1 :> "capture" @@ t2 :> "capture" @@ t3 :> "clone"
ThreeOnTwoHosts     == t1 :> h1 @@ t2 :> h2 @@ t3 :> h2
Images              == Permutations(Image)
=============================================================================
