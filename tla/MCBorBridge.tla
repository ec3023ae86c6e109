---------------------------- MODULE MCBorBridge ----------------------------
(* Three spans of one or two blocks and one event of each kind. *)
EXTENDS BorBridge, TLC

CONSTANTS MaxMessages, MaxParam, MaxFaults

MCKinds == {"message", "param", "fault"}
MCLimit == ("message" :> MaxMessages) @@ ("param" :> MaxParam) @@ ("fault" :> MaxFaults)
=============================================================================
