--------------------------- MODULE MCExternalSort ---------------------------
(* ExternalSort with runs of one value, merged two at a time: five values    *)
(* take two passes with an odd run and the last merge, and need the quotas   *)
(* to the last byte; a sixth is one too many in the middle of a pass.        *)
EXTENDS ExternalSort

MCOthersSets ==
    {{}, {Output}, {Partial(Output)}, {RunName(0, 2)}, {RunName(1, 1)},
     {Partial(RunName(1, 1)), RunName(2, 0)}}

=============================================================================
