---------------------------- MODULE MCTargetStore ----------------------------
(***************************************************************************)
(* An instance of TargetStore for TLC: a legacy call that sets under an id *)
(* and one that increments without, two actions under one id of the        *)
(* idempotent method, a RIFL write under the same id, an object that is    *)
(* set, and a counter.                                                     *)
(***************************************************************************)
EXTENDS TargetStore, TLC

CONSTANTS legacy, bump, idem, altered, rifl, object, counter, i1, i2, c1, c2

Kind_ == (legacy :> "legacy") @@ (bump :> "legacy") @@ (idem :> "idempotent")
         @@ (altered :> "idempotent") @@ (rifl :> "rifl")
         @@ (object :> "distinguishable") @@ (counter :> "counter")

Id_ == (legacy :> i1) @@ (bump :> NoId) @@ (idem :> i2) @@ (altered :> i2)
       @@ (rifl :> i2) @@ (object :> NoId) @@ (counter :> NoId)

Action_ == (legacy :> "set_value") @@ (bump :> "increment_value") @@ (idem :> "set_value")
           @@ (altered :> "delete_value") @@ (rifl :> "other") @@ (object :> "set_value")

Value_ == [r \in {legacy, idem, object} |-> r]

AnyClient == Permutations({c1, c2})
=============================================================================
