------------------------------- MODULE MCSlashing -------------------------------
(* Instances of Slashing for TLC.                                          *)
EXTENDS Slashing, TLC

CONSTANTS v1, v10

MCGenesisPower == v1 :> 4 @@ v10 :> 2

\* The IDs 1 and 10 in decimal digits, and the positions of a window of two.
MCIDBytes    == v1 :> <<49>> @@ v10 :> <<49, 48>>
MCIndexBytes == [i \in Index |-> <<i, 0, 0, 0, 0, 0, 0, 0>>]

\* One validator is enough for what happens to a validator.
MCOnePower == v1 :> 4
===============================================================================
