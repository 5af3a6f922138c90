-------------------------- MODULE MCGroupMembership --------------------------
(* Small instances of GroupMembership for TLC *)
EXTENDS GroupMembership, TLC

\* Nothing tells apart two users that are both guests or both not, two unused
\* invite ids, or two connections
Symmetry == Permutations(Users \ Guests) \cup Permutations(Guests)
            \cup Permutations(Invites) \cup Permutations(Requests)
=============================================================================
