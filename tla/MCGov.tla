------------------------------- MODULE MCGov -------------------------------
(* Two validators, a spare signer for one update, one proposal and one top-up. *)
EXTENDS Gov, TLC

CONSTANTS s1, s2, n1, v1, v2, e1

MCUsers == {s1, s2, n1}
MCGenesis == (s1 :> 9) @@ (s2 :> 5) @@ (n1 :> 0)
MCTopupUser == (e1 :> s2)
MCTopupFee == (e1 :> 1)
MCClaims == {[event |-> e1, user |-> s2, fee |-> 1, from |-> s1],
             [event |-> e1, user |-> s2, fee |-> 3, from |-> s1]}
MCRecipients == {GovModule}
MCFirstSigner == (v1 :> s1) @@ (v2 :> s2)
MCPower == (v1 :> 2) @@ (v2 :> 1)
=============================================================================
