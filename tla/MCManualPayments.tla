---- MODULE MCManualPayments ----
\* Instances of ManualPayments for TLC.
EXTENDS ManualPayments, TLC

CONSTANTS plus, pro

\* Plans of two days and of one.
MCInterval == [p \in Plans |-> IF p = plus THEN 2 ELSE 1]
Symmetry == Permutations(Procs) \cup Permutations(Jobs)
====
