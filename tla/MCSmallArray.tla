---------------------------- MODULE MCSmallArray ----------------------------
EXTENDS SmallArray

\* All of them
MCEvents == {"constructor", "memory", "ownElement", "moved"}
=============================================================================
