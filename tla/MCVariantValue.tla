--------------------------- MODULE MCVariantValue ---------------------------
EXTENDS VariantValue

\* What the next call does depends on the memory alone; last is for the
\* properties of a step
MemoryView == m
=============================================================================
