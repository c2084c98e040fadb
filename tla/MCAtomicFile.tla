---------------------------- MODULE MCAtomicFile ----------------------------
EXTENDS AtomicFile, TLC
CONSTANTS short, long
MCContents == {short, long}
MCSize == (short :> 1) @@ (long :> 2)
=============================================================================
