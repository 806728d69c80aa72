---- MODULE MCAccounts ----
\* Instances of AuthSessions and Workspaces for TLC.  The two share no state, so
\* a behaviour picks one of them and leaves the other at rest: their state
\* spaces are added, not multiplied.
EXTENDS AuthSessions, Workspaces, TLC

VARIABLE part   \* the component that moves

accountVars == <<part, sessionVars, workspaceVars>>

\* All tabs are of one browser.
MCBrowser == [t \in Tabs |-> 1]

Symmetry == Permutations(Requests) \cup Permutations(Users)

AccountsInit == part \in {"sessions", "workspaces"} /\ SessionsInit /\ WorkspaceInit

AccountsNext ==
    \/ part = "sessions" /\ SessionsNext /\ UNCHANGED <<part, workspaceVars>>
    \/ part = "workspaces" /\ WorkspaceNext /\ UNCHANGED <<part, sessionVars>>

AccountsSpec == AccountsInit /\ [][AccountsNext]_accountVars

\* The two type invariants.
AccountsType == SessionsType /\ WorkspaceType
====
