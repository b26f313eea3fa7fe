---------------------------- MODULE MCScheduler ----------------------------
\* Instances of Scheduler for TLC: three requests, two short ones that can share
\* a prefill batch and a long one that fills the whole prefill budget.
EXTENDS Scheduler, TLC

CONSTANTS r1, r2, r3

MCInputLen == (r1 :> 1) @@ (r2 :> 1) @@ (r3 :> 3)

MCMaxNewTokens == (r1 :> 2) @@ (r2 :> 0) @@ (r3 :> 2)
=============================================================================
