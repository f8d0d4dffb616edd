-------------------------------- MODULE Tags --------------------------------
(***************************************************************************)
(* The tags of the users (TagService, TagStorage), the deletion of a user  *)
(* (UserService, UserStorage) and the tokens the roaming partners hold.    *)
(* A request is a sequence of storage calls with other requests in         *)
(* between; a tag is saved as a whole, and created when it is gone.  The   *)
(* partner is told after the answer (void pushToken), so that two messages *)
(* may overtake each other or get lost.  Mongo writes an undefined user as *)
(* null, so NoUser is a user like any other to the filters.  One visual    *)
(* identifier belongs to one tag.                                          *)
(***************************************************************************)
EXTENDS Naturals

CONSTANTS TagIDs,        \* identifiers of tags, which are numbers: lists are sorted
          UserIDs,
          Requests,      \* requests served at the same time
          MaxRequests    \* bound on the requests served in all

NoUser == "none"
Gone == [user |-> NoUser, active |-> FALSE, default |-> FALSE, stored |-> FALSE]

VARIABLES tags,       \* the collection of tags
          users,      \* the stored users
          req,        \* the running requests
          partner,    \* the tags the partner takes for valid
          pushed,     \* the messages to the partner on their way
          excused,    \* tags whose messages were lost, crossed or never sent
          crossed,    \* a request saved what it had read before another one wrote
          served

vars == <<tags, users, req, partner, pushed, excused, crossed, served>>

Idle == [st |-> "idle", op |-> "none", tag |-> 0, user |-> NoUser, default |-> FALSE,
         doc |-> Gone, owned |-> FALSE, former |-> NoUser, clean |-> TRUE]

Init ==
    /\ tags = [t \in TagIDs |-> Gone]
    /\ users = UserIDs
    /\ req = [r \in Requests |-> Idle]
    /\ partner = {}
    /\ pushed = {}
    /\ excused = {}
    /\ crossed = FALSE
    /\ served = 0

-----------------------------------------------------------------------------
(***************************************************************************)
(* TagStorage                                                              *)
(***************************************************************************)
TagsOf(u) == {t \in TagIDs : tags[t].stored /\ tags[t].user = u}

ClearDefaultUserTag(u) ==
    [t \in TagIDs |-> IF t \in TagsOf(u) THEN [tags[t] EXCEPT !.default = FALSE] ELSE tags[t]]

\* getDefaultUserTag counts the default tags and finds none when there are two.
HasDefaultUserTag(u) == \E t \in TagsOf(u) : {d \in TagsOf(u) : tags[d].default} = {t}

\* getFirstActiveUserTag
FirstActive(u) ==
    LET active == {t \in TagsOf(u) : tags[t].active}
    IN  IF active = {} THEN 0 ELSE CHOOSE t \in active : \A o \in active : t <= o

SaveTag(t, doc) == [tags EXCEPT ![t] = [doc EXCEPT !.stored = TRUE]]

DeleteTag(t) == [tags EXCEPT ![t] = Gone]

-----------------------------------------------------------------------------
(***************************************************************************)
(* Bookkeeping of the model: a write of r to a tag or for a user makes the *)
(* requests about the same tag or user work with old data.                 *)
(***************************************************************************)
About(q) == {q.user, q.doc.user, q.former} \ {NoUser}

After(r, q) ==
    [p \in Requests |->
        IF p = r THEN q
        ELSE IF req[p].st # "idle" /\ (req[p].tag = req[r].tag \/ About(req[p]) \cap About(req[r]) # {})
             THEN [req[p] EXCEPT !.clean = FALSE] ELSE req[p]]

Push(t, valid) ==
    /\ pushed' = pushed \cup {[tag |-> t, valid |-> valid]}
    /\ excused' = IF \E m \in pushed : m.tag = t THEN excused \cup {t} ELSE excused

Writes(r) == crossed' = (crossed \/ ~req[r].clean)

Goto(r, st) == [req[r] EXCEPT !.st = st]

-----------------------------------------------------------------------------
(***************************************************************************)
(* A request is checked and what it is about is read.                      *)
(***************************************************************************)
Begin(r, q) ==
    /\ req[r].st = "idle" /\ served < MaxRequests /\ ~crossed
    /\ served' = served + 1
    /\ req' = [req EXCEPT ![r] = q]
    /\ UNCHANGED <<tags, users, partner, crossed>>

Quiet == UNCHANGED <<pushed, excused>>

Request(op, t, u, default, doc) ==
    [Idle EXCEPT !.op = op, !.st = IF u = NoUser THEN "save" ELSE "default", !.tag = t, !.user = u,
                 !.default = default, !.doc = doc, !.owned = tags[t].user \in users]

\* The identifier must be free; the user, when one is given, must exist.
HandleCreateTag(r) ==
    \E t \in TagIDs, u \in users \cup {NoUser}, default, active \in BOOLEAN :
        /\ ~tags[t].stored
        /\ Begin(r, Request("create", t, u, default, [Gone EXCEPT !.user = u, !.active = active]))
        /\ Quiet

\* Only an active tag nobody has.
HandleAssignTag(r) ==
    \E t \in TagIDs, u \in users, default \in BOOLEAN :
        /\ tags[t].stored /\ tags[t].active /\ tags[t].user \notin users
        /\ Begin(r, Request("assign", t, u, default, [tags[t] EXCEPT !.user = u]))
        /\ Quiet

\* The former user loses the tag, and gets another default one afterwards.
HandleUpdateTag(r) ==
    \E t \in TagIDs, u \in users \cup {NoUser}, default, active \in BOOLEAN :
        /\ tags[t].stored
        /\ Begin(r, [Request("update", t, u, default, [tags[t] EXCEPT !.user = u, !.active = active]) EXCEPT
                        !.former = IF tags[t].user # u /\ tags[t].default THEN tags[t].user ELSE NoUser])
        /\ Quiet

\* The default tag of the user in the request is looked at, but the tag keeps
\* its own user; a request that names another one counts as crossed.
HandleUpdateTagByVisualID(r) ==
    \E t \in TagIDs, u \in users \cup {NoUser}, default \in BOOLEAN :
        /\ tags[t].stored
        /\ Begin(r, [Request("visual", t, u, default, tags[t]) EXCEPT
                        !.st = "default", !.clean = (u = tags[t].user)])
        /\ Quiet

\* deleteTags and unassignTags tell the partner before they write; a tag that
\* is unassigned keeps its default flag.
HandleDeleteTags(r) ==
    \E t \in TagIDs :
        /\ tags[t].stored
        /\ Begin(r, [Request("delete", t, NoUser, FALSE, tags[t]) EXCEPT !.st = "delete"])
        /\ Push(t, FALSE)

HandleUnassignTags(r) ==
    \E t \in TagIDs :
        /\ tags[t].stored
        /\ Begin(r, [Request("unassign", t, NoUser, tags[t].default,
                             [tags[t] EXCEPT !.user = NoUser, !.active = FALSE]) EXCEPT
                        !.former = IF tags[t].default THEN tags[t].user ELSE NoUser])
        /\ Push(t, FALSE)

\* ImportHelper: a stored tag must be unused and inactive; the user of the
\* imported record gets it as his default tag.  The partner is not told.
ProcessImportedTag(r) ==
    \E t \in TagIDs, u \in users \cup {NoUser}, active \in BOOLEAN :
        /\ tags[t].stored => tags[t].user = NoUser /\ ~tags[t].active
        /\ Begin(r, Request("import", t, u, u # NoUser \/ tags[t].default,
                            [tags[t] EXCEPT !.user = u, !.active = active]))
        /\ Quiet

\* The cars go with the user (Cars); billing may refuse, which changes nothing.
HandleDeleteUser(r) ==
    \E u \in users :
        /\ Begin(r, [Idle EXCEPT !.op = "deleteUser", !.st = "tags", !.user = u])
        /\ Quiet

-----------------------------------------------------------------------------
\* A default that is chosen without the other tags of the user being cleared.
SaveWithoutClear(r) ==
    /\ req[r].st = "default"
    /\ req' = [req EXCEPT ![r].st = "save"]
    /\ Quiet /\ UNCHANGED <<tags, users, partner, crossed, served>>

\* clearDefaultUserTag or getDefaultUserTag, before the tag is saved.
ChooseDefault(r) ==
    /\ req[r].st = "default"
    /\ LET q == req[r]
           clears == q.default /\ (q.op = "visual" => ~q.doc.default)
       IN  /\ IF clears
              THEN /\ tags' = ClearDefaultUserTag(q.user)
                   /\ req' = After(r, Goto(r, "save"))
                   /\ Writes(r)
              ELSE /\ req' = [req EXCEPT ![r] = [q EXCEPT
                                 !.st = "save", !.default = @ \/ ~HasDefaultUserTag(q.user)]]
                   /\ UNCHANGED <<tags, crossed>>
    /\ Quiet /\ UNCHANGED <<users, partner, served>>

\* What saveTag gets: an update without a user is never a default tag.
Saved(q) ==
    [q.doc EXCEPT !.default = IF q.op = "update" /\ q.user = NoUser THEN FALSE ELSE q.default]

\* buildEmspTokenFromTag wants an active user in the tag that was read: the
\* tag of a create or an assign has none.
ValidToken(q) == q.op \in {"update", "visual"} /\ q.doc.active /\ q.owned

Save(r) ==
    /\ req[r].st = "save"
    /\ LET q == req[r]
       IN  /\ tags' = SaveTag(q.tag, Saved(q))
           /\ req' = After(r, IF q.former # NoUser THEN Goto(r, "clear") ELSE Idle)
           /\ IF q.op \in {"unassign", "import"} THEN Quiet ELSE Push(q.tag, ValidToken(q))
    /\ Writes(r)
    /\ UNCHANGED <<users, partner, served>>

Delete(r) ==
    /\ req[r].st = "delete"
    /\ LET q == req[r]
       IN  /\ tags' = DeleteTag(q.tag)
           /\ req' = After(r, IF q.doc.default
                              THEN [q EXCEPT !.st = "clear", !.former = q.doc.user] ELSE Idle)
    /\ Writes(r) /\ Quiet
    /\ UNCHANGED <<users, partner, served>>

\* setDefaultTagForUser: clear, take the first active tag, save it.
SetDefaultTagForUser(r) ==
    LET q == req[r]
    IN  /\ \/ /\ q.st = "clear"
              /\ tags' = ClearDefaultUserTag(q.former)
              /\ req' = After(r, [q EXCEPT !.st = "first", !.user = q.former])
              /\ Writes(r)
           \/ /\ q.st = "first"
              /\ LET t == FirstActive(q.former)
                 IN  req' = [req EXCEPT ![r] = IF t = 0 THEN Idle
                        ELSE [q EXCEPT !.st = "put", !.tag = t, !.doc = [tags[t] EXCEPT !.default = TRUE]]]
              /\ UNCHANGED <<tags, crossed>>
           \/ /\ q.st = "put"
              /\ tags' = SaveTag(q.tag, q.doc)
              /\ req' = After(r, Idle)
              /\ Writes(r)
        /\ Quiet /\ UNCHANGED <<users, partner, served>>

\* UserStorage.deleteUser deletes the tags before the user.
DeleteUserTags(r) ==
    /\ req[r].st = "tags"
    /\ LET u == req[r].user
       IN  /\ tags' = [t \in TagIDs |-> IF t \in TagsOf(u) THEN Gone ELSE tags[t]]
           /\ excused' = excused \cup TagsOf(u)
    /\ req' = After(r, Goto(r, "user"))
    /\ Writes(r)
    /\ UNCHANGED <<users, partner, pushed, served>>

DeleteUser(r) ==
    /\ req[r].st = "user"
    /\ users' = users \ {req[r].user}
    /\ req' = After(r, Idle)
    /\ Writes(r) /\ Quiet
    /\ UNCHANGED <<tags, partner, served>>

\* checkAndDeleteUserRoaming runs next to the deletion and reads the tags the
\* user still has: those already deleted are never withdrawn.
CheckAndDeleteUserRoaming(r) ==
    /\ req[r].st = "tags" /\ req[r].op = "deleteUser"
    /\ \E t \in TagsOf(req[r].user) : [tag |-> t, valid |-> FALSE] \notin pushed /\ Push(t, FALSE)
    /\ UNCHANGED <<tags, users, req, partner, crossed, served>>

\* The partner gets a message, in any order, or never.
PushToken ==
    /\ \E m \in pushed :
          /\ pushed' = pushed \ {m}
          /\ \/ /\ partner' = IF m.valid THEN partner \cup {m.tag} ELSE partner \ {m.tag}
                /\ UNCHANGED excused
             \/ /\ excused' = excused \cup {m.tag}
                /\ UNCHANGED partner
    /\ UNCHANGED <<tags, users, req, crossed, served>>

\* The server stops: its requests end where they are, the messages are lost.
Crash ==
    /\ \E r \in Requests : req[r].st # "idle"
    /\ req' = [r \in Requests |-> Idle]
    /\ pushed' = {}
    /\ excused' = excused \cup {m.tag : m \in pushed}
    /\ UNCHANGED <<tags, users, partner, crossed, served>>

Next ==
    \/ \E r \in Requests :
          \/ HandleCreateTag(r) \/ HandleAssignTag(r) \/ HandleUpdateTag(r) \/ HandleUpdateTagByVisualID(r)
          \/ HandleDeleteTags(r) \/ HandleUnassignTags(r) \/ ProcessImportedTag(r) \/ HandleDeleteUser(r)
          \/ ChooseDefault(r) \/ Save(r) \/ Delete(r) \/ SetDefaultTagForUser(r)
          \/ DeleteUserTags(r) \/ DeleteUser(r) \/ CheckAndDeleteUserRoaming(r)
    \/ PushToken \/ Crash

Spec == Init /\ [][Next]_vars

-----------------------------------------------------------------------------
(***************************************************************************)
(* Properties                                                              *)
(***************************************************************************)
\* Unless a request saves what it had read before another one wrote about the
\* same tag or user, a user has at most one default tag, wherever the other
\* requests stand and whenever the server stops.
OneDefaultTag ==
    ~crossed => \A u \in UserIDs : \A s, t \in TagsOf(u) : tags[s].default /\ tags[t].default => s = t

\* ... and every tag belongs to a stored user.
TagsHaveOwners ==
    ~crossed => \A t \in TagIDs : tags[t].stored => tags[t].user \in users \cup {NoUser}

\* When nothing is running or on its way, the partner likewise accepts no tag that is
\* inactive or gone, unless a message of the tag was lost, crossed another or
\* was never sent.
TokensAgree ==
    (~crossed /\ pushed = {} /\ \A r \in Requests : req[r].st = "idle") =>
        \A t \in partner \ excused : tags[t].stored /\ tags[t].active
=============================================================================
