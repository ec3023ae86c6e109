---------------------------- MODULE MCClerkGenesis ----------------------------
(* Instances of ClerkGenesis for TLC.  The root chains are interchangeable. *)
EXTENDS ClerkGenesis, TLC

MCSymmetry == Permutations(RootChain)
===============================================================================
