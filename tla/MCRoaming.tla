------------------------------ MODULE MCRoaming ------------------------------
(***************************************************************************)
(* Roaming: the registration of two partners, the statuses of the stations *)
(* at a partner and a session that an operator reports to a provider.  The *)
(* three are independent: a behaviour is one of one of them.               *)
(***************************************************************************)
EXTENDS RoamingSessions, Sequences

CONSTANTS Jobs, Pages, Changing, MaxChanges, MaxRuns, MaxClock, MaxCommands

\* The stations, page by page; those whose status changes are on a page.
ASSUME PagesAssumption ==
    /\ Len(Pages) \in Nat /\ DOMAIN Pages = 1..Len(Pages)
    /\ \A s \in Changing : \E i \in DOMAIN Pages : s \in Pages[i]
ASSUME MaxCommandsAssumption == MaxCommands \in Nat

VARIABLES focus,
          protocol, clock, status, noted, unsaved, direct, partner, endpoint, jobs, locks, runs, excused,
          endpoints, client, requests, partnerHandlers, partnerAnswers, form, commands, tokens, apart, severed

\* Two pages of one station.
TwoPages == <<{"a"}, {"b"}>>

Statuses == INSTANCE RoamingStatuses

statusVars == <<protocol, clock, status, noted, unsaved, direct, partner, endpoint, jobs, locks, runs, excused>>

Partners == INSTANCE Registration WITH endpoint <- endpoints, handlers <- partnerHandlers, answers <- partnerAnswers

partnerVars == <<endpoints, client, requests, partnerHandlers, partnerAnswers, form, commands, tokens, apart, severed>>

MCInit ==
    /\ focus \in {"sessions", "statuses", "registration"}
    /\ Init
    /\ Statuses!Init
    /\ Partners!Init
    /\ focus # "statuses" => protocol = "ocpi"
    /\ focus # "sessions" => unknown = 2001
    /\ focus # "registration" => \A p \in {"cpo", "emsp"} : endpoints[p].token # 0

MCNext ==
    \/ focus = "sessions" /\ Next /\ UNCHANGED <<focus, statusVars, partnerVars>>
    \/ focus = "statuses" /\ Statuses!Next /\ UNCHANGED <<focus, oVars, partnerVars>>
    \/ focus = "registration" /\ Partners!Next /\ UNCHANGED <<focus, oVars, statusVars>>

MCSpec == MCInit /\ [][MCNext]_<<focus, oVars, statusVars, partnerVars>> /\ Fairness

\* A status the partner misses is one the next scheduled push sends.
MissedIsRepeated == Statuses!MissedIsRepeated

\* A command that ends well puts the tokens and statuses of two partners in
\* order, and lost answers alone never lock both of them out.
CredentialsAgree == Partners!CredentialsAgree
=============================================================================
