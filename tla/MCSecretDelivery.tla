-------------------------- MODULE MCSecretDelivery --------------------------
(* Two secrets, set together, changed or kept or dropped one by one. *)
EXTENDS SecretDelivery

Forms ==
    {[n \in Names |-> f[n]] : f \in {[password |-> "one", token |-> "one"],
        [password |-> "keep", token |-> "two"], [password |-> "keep", token |-> "drop"]}}
=============================================================================
