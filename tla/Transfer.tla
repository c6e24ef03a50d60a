------------------------------ MODULE Transfer ------------------------------
(***************************************************************************)
(* What image2disk, oci2disk and slurp promise alike: the items of an      *)
(* image arrive one after the other, a success is reported when all of     *)
(* them have, and once a result is out nothing moves any more.  `flawed'   *)
(* stands for what an action does not notice (see its own module); a       *)
(* flawed transfer may succeed with less than the whole.                   *)
(***************************************************************************)
EXTENDS Naturals

CONSTANT Whole   \* items of the image

VARIABLES have, flawed, result

vars == <<have, flawed, result>>

Init == have = 0 /\ flawed \in BOOLEAN /\ result = "running"

Advance == /\ result = "running" /\ have < Whole
           /\ have' = have + 1
           /\ UNCHANGED <<flawed, result>>

Spoil == /\ result = "running"
         /\ flawed' = TRUE
         /\ UNCHANGED <<have, result>>

Succeed == /\ result = "running" /\ (have = Whole \/ flawed)
           /\ result' = "success"
           /\ UNCHANGED <<have, flawed>>

Fail == /\ result = "running"
        /\ result' = "failure"
        /\ UNCHANGED <<have, flawed>>

Next == Advance \/ Spoil \/ Succeed \/ Fail

Spec == Init /\ [][Next]_vars
=============================================================================
