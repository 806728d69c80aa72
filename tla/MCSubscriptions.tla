---- MODULE MCSubscriptions ----
\* Instances of Subscriptions for TLC.
EXTENDS Subscriptions, TLC

CONSTANTS plus, pro

\* A plan with a one-day period and one without a period.
MCInterval == [p \in Plans |-> IF p = plus THEN 1 ELSE 0]
Symmetry == Permutations(Procs) \cup Permutations(Jobs)
====
