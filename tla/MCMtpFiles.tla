----------------------------- MODULE MCMtpFiles -----------------------------
EXTENDS MtpFiles, TLC

CONSTANTS a, b

\* Names in different buckets of the hash table.
MCBucket == (a :> 1) @@ (b :> 2) @@ (NoName :> 3)
Symmetric == Permutations({a, b})
=============================================================================
