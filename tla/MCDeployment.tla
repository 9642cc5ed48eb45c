---------------------------- MODULE MCDeployment ----------------------------
(* Scripts with one campaign, the donation, and two accounts or one. *)
EXTENDS Deployment, TLC

MCScript == <<"admin", "finance", "c1", "gift">>
ShortScript == <<"admin", "c1", "gift">>
Symmetry == Permutations(Seeds)
=============================================================================
