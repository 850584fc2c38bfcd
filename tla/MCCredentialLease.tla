------------------------- MODULE MCCredentialLease -------------------------
(* Small instances of CredentialLease for TLC. *)
EXTENDS CredentialLease, TLC

CONSTANTS r1, u1, u2, p1, p2

\* Credential 1 is shared, credential 2 belongs to the run's user.
MCOwner  == 1 :> Everyone @@ 2 :> u1
MCWeight == 1 :> 1 @@ 2 :> 2
MCUserOf == r1 :> u1

\* The processes differ in nothing but their names.
Slots == Permutations({p1, p2})
=============================================================================
