---- MODULE MCAlerts ----
\* An instance of Alerts for TLC: one price alert and two sweeps.
EXTENDS Alerts, TLC

\* Cheap and in stock, dear with no word on stock, sold out everywhere.
MCMarkets ==
    {[price |-> "low", stock |-> TRUE], [price |-> "high", stock |-> None], [price |-> None, stock |-> FALSE]}

Symmetry == Permutations(Senders)
====
