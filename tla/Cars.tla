-------------------------------- MODULE Cars --------------------------------
(***************************************************************************)
(* The cars of the users (CarService, CarStorage) and what the deletion of *)
(* a user does to them (UserService.checkAndDeleteCar).  As with the tags, *)
(* a request is a sequence of storage calls and a car is saved as a whole; *)
(* other than with the tags, getDefaultUserCar takes the first of several  *)
(* default cars, and setDefaultCarForUser does not clear the others.  The  *)
(* catalogue and the unique pair of VIN and licence plate are left out.    *)
(***************************************************************************)
EXTENDS Naturals

CONSTANTS CarIDs,        \* numbers: lists are sorted
          UserIDs,
          Requests,
          MaxRequests    \* bound on the requests served in all

NoUser == "none"
Gone == [user |-> NoUser, default |-> FALSE, private |-> FALSE, stored |-> FALSE]

VARIABLES cars, users, req,
          crossed,       \* a request saved what it had read before another one wrote
          served

vars == <<cars, users, req, crossed, served>>

Idle == [st |-> "idle", op |-> "none", car |-> 0, user |-> NoUser, default |-> FALSE, doc |-> Gone,
         former |-> NoUser, list |-> {}, clean |-> TRUE]

Init ==
    /\ cars = [c \in CarIDs |-> Gone]
    /\ users = UserIDs
    /\ req = [r \in Requests |-> Idle]
    /\ crossed = FALSE
    /\ served = 0

-----------------------------------------------------------------------------
CarsOf(u) == {c \in CarIDs : cars[c].stored /\ cars[c].user = u}

First(set) == IF set = {} THEN 0 ELSE CHOOSE c \in set : \A o \in set : c <= o

GetDefaultUserCar(u) == First({c \in CarsOf(u) : cars[c].default})

ClearDefaultUserCar(u) ==
    [c \in CarIDs |-> IF c \in CarsOf(u) THEN [cars[c] EXCEPT !.default = FALSE] ELSE cars[c]]

SaveCar(c, doc) == [cars EXCEPT ![c] = [doc EXCEPT !.stored = TRUE]]

About(q) == {q.user, q.doc.user, q.former} \ {NoUser}

After(r, q) ==
    [p \in Requests |->
        IF p = r THEN q
        ELSE IF req[p].st # "idle" /\ (req[p].car = req[r].car \/ About(req[p]) \cap About(req[r]) # {})
             THEN [req[p] EXCEPT !.clean = FALSE] ELSE req[p]]

Writes(r) == crossed' = (crossed \/ ~req[r].clean)

Begin(r, q) ==
    /\ req[r].st = "idle" /\ served < MaxRequests /\ ~crossed
    /\ served' = served + 1
    /\ req' = [req EXCEPT ![r] = q]
    /\ UNCHANGED <<cars, users, crossed>>

-----------------------------------------------------------------------------
HandleCreateCar(r) ==
    \E c \in CarIDs, u \in users \cup {NoUser}, default, private \in BOOLEAN :
        /\ ~cars[c].stored
        /\ Begin(r, [Idle EXCEPT !.op = "create", !.st = IF u = NoUser THEN "save" ELSE "default",
                        !.car = c, !.user = u, !.default = default /\ u # NoUser,
                        !.doc = [Gone EXCEPT !.user = u, !.private = private]])

\* The old user gets another default car only when there is a new user.
HandleUpdateCar(r) ==
    \E c \in CarIDs, u \in users \cup {NoUser}, default, private \in BOOLEAN :
        /\ cars[c].stored
        /\ Begin(r, [Idle EXCEPT !.op = "update", !.st = IF u = NoUser THEN "save" ELSE "default",
                        !.car = c, !.user = u, !.default = default /\ u # NoUser,
                        !.doc = [cars[c] EXCEPT !.user = u, !.private = private],
                        !.former = IF u # NoUser /\ cars[c].user \notin {u, NoUser} /\ cars[c].default
                                   THEN cars[c].user ELSE NoUser])

HandleDeleteCar(r) ==
    \E c \in CarIDs :
        /\ cars[c].stored
        /\ Begin(r, [Idle EXCEPT !.op = "delete", !.st = "delete", !.car = c, !.doc = cars[c]])

HandleDeleteUser(r) ==
    \E u \in users : Begin(r, [Idle EXCEPT !.op = "deleteUser", !.st = "cars", !.user = u,
                                     !.list = {[car |-> c, doc |-> cars[c]] : c \in CarsOf(u)}])

ChooseDefault(r) ==
    /\ req[r].st = "default"
    /\ LET q == req[r]
           found == GetDefaultUserCar(q.user)
       IN  IF q.default
           THEN /\ cars' = ClearDefaultUserCar(q.user)
                /\ req' = After(r, [q EXCEPT !.st = "save"])
                /\ Writes(r)
           ELSE /\ req' = [req EXCEPT ![r] = [q EXCEPT !.st = "save",
                              !.default = found = 0 \/ (q.op = "update" /\ found = q.car)]]
                /\ UNCHANGED <<cars, crossed>>
    /\ UNCHANGED <<users, served>>

Save(r) ==
    /\ req[r].st = "save"
    /\ LET q == req[r]
       IN  /\ cars' = SaveCar(q.car, [q.doc EXCEPT !.default = q.default])
           /\ req' = After(r, IF q.former # NoUser THEN [q EXCEPT !.st = "first"] ELSE Idle)
    /\ Writes(r)
    /\ UNCHANGED <<users, served>>

Delete(r) ==
    /\ req[r].st = "delete"
    /\ LET q == req[r]
       IN  /\ cars' = [cars EXCEPT ![q.car] = Gone]
           /\ req' = After(r, IF q.doc.default THEN [q EXCEPT !.st = "first", !.former = q.doc.user] ELSE Idle)
    /\ Writes(r)
    /\ UNCHANGED <<users, served>>

\* The first car of the user becomes the default one.
SetDefaultCarForUser(r) ==
    LET q == req[r]
    IN  /\ \/ /\ q.st = "first"
              /\ LET c == First(CarsOf(q.former))
                 IN  req' = [req EXCEPT ![r] = IF c = 0 THEN Idle
                        ELSE [q EXCEPT !.st = "put", !.car = c, !.doc = [cars[c] EXCEPT !.default = TRUE]]]
              /\ UNCHANGED <<cars, crossed>>
           \/ /\ q.st = "put"
              /\ cars' = SaveCar(q.car, q.doc)
              /\ req' = After(r, Idle)
              /\ Writes(r)
        /\ UNCHANGED <<users, served>>

\* Cars that are not private keep their user.
DeletePrivateCars(r) ==
    /\ req[r].st = "cars" /\ req[r].list # {}
    /\ \E l \in req[r].list :
          /\ cars' = IF l.doc.private THEN [cars EXCEPT ![l.car] = Gone] ELSE cars
          /\ req' = After(r, [req[r] EXCEPT !.list = @ \ {l}])
    /\ Writes(r)
    /\ UNCHANGED <<users, served>>

\* The cars read when the deletion started: a private car is deleted, another
\* one loses its user.
CheckAndDeleteCar(r) ==
    /\ req[r].st = "cars" /\ req[r].list # {}
    /\ \E l \in req[r].list :
          /\ cars' = IF l.doc.private THEN [cars EXCEPT ![l.car] = Gone]
                     ELSE SaveCar(l.car, [l.doc EXCEPT !.user = NoUser, !.default = FALSE])
          /\ req' = After(r, [req[r] EXCEPT !.list = @ \ {l}])
    /\ Writes(r)
    /\ UNCHANGED <<users, served>>

DeleteUser(r) ==
    /\ req[r].st = "cars" /\ req[r].list = {}
    /\ users' = users \ {req[r].user}
    /\ req' = After(r, Idle)
    /\ Writes(r)
    /\ UNCHANGED <<cars, served>>

Crash ==
    /\ \E r \in Requests : req[r].st # "idle"
    /\ req' = [r \in Requests |-> Idle]
    /\ UNCHANGED <<cars, users, crossed, served>>

Next ==
    \/ \E r \in Requests :
          \/ HandleCreateCar(r) \/ HandleUpdateCar(r) \/ HandleDeleteCar(r) \/ HandleDeleteUser(r)
          \/ ChooseDefault(r) \/ Save(r) \/ Delete(r) \/ SetDefaultCarForUser(r)
          \/ CheckAndDeleteCar(r) \/ DeleteUser(r)
    \/ Crash

Spec == Init /\ [][Next]_vars

\* Unless a request saves what it had read before another one wrote about the
\* same car or user, a user has at most one default car and every car belongs
\* to a stored user, wherever the requests stand and whenever the server
\* stops.
CarsAgree ==
    ~crossed =>
        /\ \A u \in UserIDs : \A c, d \in CarsOf(u) : cars[c].default /\ cars[d].default => c = d
        /\ \A c \in CarIDs : cars[c].stored => cars[c].user \in users \cup {NoUser}
=============================================================================
