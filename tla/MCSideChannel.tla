---------------------------- MODULE MCSideChannel ----------------------------
(***************************************************************************)
(* Small instances of SideChannel for TLC: two honest validators and a     *)
(* Byzantine one.  With powers 2, 2, 1 the total is 5 and the threshold 4, *)
(* so that rounding, a double count or a wrong set shows; a smaller set    *)
(* without the Byzantine validator makes it change between blocks.         *)
(***************************************************************************)
EXTENDS SideChannel, FiniteSetsExt, TLC

CONSTANTS v1, v2, b1

MCPower   == (v1 :> 2) @@ (v2 :> 2) @@ (b1 :> 1)
MCPowerOf == [S \in SUBSET {v1, v2, b1} |-> MapThenSumSet(LAMBDA v : MCPower[v], S)]
MCValidatorSets == {{v1, v2, b1}, {v1, v2}}
=============================================================================
