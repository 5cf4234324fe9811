------------------------------ MODULE MCResidency ------------------------------
EXTENDS Residency
\* Two fine chunks 1 and 2 under the coarse chunk 3, beside the coarse chunk 4.
MCCover == <<{1}, {2}, {1, 2}, {3, 4}>>
MCLod == <<0, 0, 1, 1>>
MCPlans == {{3, 4}, {1, 2, 4}}
MCStart == {{1, 2, 4}}
=============================================================================
