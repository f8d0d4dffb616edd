------------------------------- MODULE MCAccess -------------------------------
(***************************************************************************)
(* Accounts, sessions and what a request shows its user, checked one at a  *)
(* time (focus): the other modules stay in an initial state.               *)
(***************************************************************************)
EXTENDS SingleReads, Sessions

CONSTANTS Logins, PasswordWrongNumberOfTrial, MaxAdmin

\* The configured number of wrong passwords before an account is locked.
ASSUME TrialsAssumption == PasswordWrongNumberOfTrial \in Nat \ {0}

VARIABLES account, reg, logins, overtaken, interrupted, admin,
          focus

aVars == <<account, reg, logins, overtaken, interrupted, admin>>

A == INSTANCE AuthService WITH login <- logins

MCInit ==
    /\ focus \in {"sessions", "accounts", "lists"}
    /\ SessionsInit /\ A!Init
    /\ Init
    /\ \E s \in Sites : rights[s] = "none"
    /\ focus # "sessions" =>
          /\ stored = [role |-> "B", status |-> "ACTIVE"]
          /\ rights = [s \in Sites |-> "none"]
          /\ org

MCNext ==
    \/ focus = "sessions" /\ SessionsNext /\ UNCHANGED <<focus, aVars, vars>>
    \/ focus = "accounts" /\ A!Next /\ UNCHANGED <<focus, sessionVars, vars>>
    \/ focus = "lists" /\ (Next \/ OneNext) /\ UNCHANGED <<focus, aVars, sessionVars>>

MCSpec == MCInit /\ [][MCNext]_<<vars, sessionVars, aVars, focus>>

\* A lock after wrong passwords ends by itself unless a login wrote with a
\* stale copy of the user, and an account that may be used has a role unless
\* its registration was interrupted; nobody passes the check to delete his own.
AccountsAgree == A!AccountsAgree /\ NoOneDeletesHimself

\* What a request shows its user, in a list, in an export or as a record he
\* reads, changes, deletes or assigns, lies within the sites, users, companies
\* and issuer of the filters of his grant, whatever he asks for and whoever
\* writes between the reads.
ShowsOnlyAllowed == ListShowsOnlyAllowed /\ ReadShowsOnlyAllowed
=============================================================================
