------------------------- MODULE MCMemberDirectory -------------------------
(* Constants for checking MemberDirectory with TLC. *)
EXTENDS MemberDirectory, TLC

CONSTANTS g1, u1, n1, n2, x, z

\* A group that keeps its name and may lose its picture, and a user of that very name.
NamesSame  == (g1 :> {n1}) @@ (u1 :> {n1})
AttrsGU    == (g1 :> {x, Empty}) @@ (u1 :> {z})

\* One group.
NameG == g1 :> {n1}
AttrG == g1 :> {x}

\* No two uids have the same hash.
OwnHash == [u \in Uids |-> <<"id", u>>]

\* The invariants do not tell callers apart.
CallerSymmetry == Permutations(Callers)
=============================================================================
