---- MODULE MCInvoices ----
\* Instances of Invoices for TLC.
EXTENDS Invoices, TLC

CONSTANTS plus, pro

\* Every plan has a period of one day.
MCInterval == [p \in Plans |-> 1]
Symmetry == Permutations(Procs)
====
