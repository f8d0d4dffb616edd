------------------------------ MODULE MCRecords ------------------------------
(***************************************************************************)
(* The records of the users (their tags, their cars and the imports) and   *)
(* the notifications, one of the four at a time.                           *)
(***************************************************************************)
EXTENDS Notifications, TLC

CONSTANTS IDs, UserIDs, Requests, MaxRequests, MaxUploads, Lines, BatchSize, PageSize

VARIABLES focus, docs, users, req, partner, pushed, excused, crossed, served,
          locked, uploads, tasks, staged, imported, reported, skipped

T == INSTANCE Tags WITH TagIDs <- IDs, tags <- docs
C == INSTANCE Cars WITH CarIDs <- IDs, cars <- docs
I == INSTANCE Imports

\* A list that is empty has 0 for its first element.
ASSUME IDsAssumption == IDs \subseteq Nat \ {0}

ASSUME NoUserAssumption == T!NoUser \notin UserIDs /\ C!NoUser \notin UserIDs

\* The requests, the users and the calls are not told apart.
Symmetry == Permutations(Requests) \cup Permutations(UserIDs) \cup Permutations(Notifiers)

recordVars == <<docs, users, req, partner, pushed, excused, crossed, served>>
importVars == <<locked, uploads, tasks, staged, imported, reported, skipped>>

MCInit ==
    /\ focus \in {"tags", "cars", "imports", "notifications"}
    /\ IF focus = "cars" THEN C!Init /\ partner = {} /\ pushed = {} /\ excused = {} ELSE T!Init
    /\ I!Init
    /\ Init
    /\ focus # "notifications" => topic = "EndOfCharge" /\ up = {"alternativeApp"}

MCNext ==
    \/ focus = "tags" /\ T!Next /\ UNCHANGED <<focus, importVars, nVars>>
    \/ focus = "cars" /\ C!Next /\ UNCHANGED <<focus, partner, pushed, excused, importVars, nVars>>
    \/ focus = "imports" /\ I!Next /\ UNCHANGED <<focus, recordVars, nVars>>
    \/ focus = "notifications" /\ Next /\ UNCHANGED <<focus, recordVars, importVars>>

MCSpec == MCInit /\ [][MCNext]_<<focus, recordVars, importVars, nVars>>

\* At most one default tag per user, no tag of a user who is gone, and no
\* tag the partner accepts although it is inactive or gone.
TagsAgree == focus = "tags" => T!OneDefaultTag /\ T!TagsHaveOwners /\ T!TokensAgree

\* At most one default car per user, and no car of a user who is gone.
CarsAgree == focus = "cars" => C!CarsAgree

\* No uploaded record waits for an import that does not come.
NoneLeftBehind == focus = "imports" => I!NoneLeftBehind

\* Nobody is notified twice of the same thing, and no notification is held
\* back for one that nobody sends, whatever calls run at the same time.
NotificationsAgree == NotifiedOnce /\ NotSilenced
=============================================================================
