-------------------------- MODULE MCWriteAheadLog --------------------------
EXTENDS WriteAheadLog, TLC
CONSTANTS short, twin, long      \* twin: another content of the size of short
MCPayloads == {short, twin, long}
MCBlocks == (short :> 1) @@ (twin :> 1) @@ (long :> 2)
MCShortReads == {long}
=============================================================================
