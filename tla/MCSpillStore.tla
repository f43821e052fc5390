---------------------------- MODULE MCSpillStore ----------------------------
(* SpillStore with an empty and a two-byte payload, a quota that an empty    *)
(* and a two-byte record fill to the last byte, and callers that come back   *)
(* with tighter limits.                                                      *)
EXTENDS SpillStore, TLC

CONSTANTS a, b

MCRecords == {a, b}
MCPayloadLen == a :> 0 @@ b :> 2
MCConfigs == {[quota |-> 42, max |-> 2], [quota |-> 21, max |-> 1]}

\* A byte of the header, and the header alone: the declared length is on disk.
MCCutPoints == {1, 16}

=============================================================================
