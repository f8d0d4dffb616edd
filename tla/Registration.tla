----------------------------- MODULE Registration -----------------------------
(***************************************************************************)
(* The registration of two OCPI partners, an operator and a provider that  *)
(* both run this software.  Each keeps an endpoint with the token it sends *)
(* (token) and the token it accepts (localToken).  An administrator of     *)
(* either side registers, updates or unregisters: the client checks the    *)
(* versions of the partner, sends its credentials and saves what is        *)
(* answered; the partner calls back, changes its own token and saves it    *)
(* before it answers.  Answers are lost, and both sides may start at once. *)
(* A token is a number; a generated one is taken to be new.  The switch of *)
(* the background jobs, which a partner's unregistration turns off, is     *)
(* left out: the jobs ask for the status as well.                          *)
(***************************************************************************)
EXTENDS Naturals, FiniteSets

CONSTANT MaxCommands         \* bound on what administrators do

VARIABLES endpoint,          \* the endpoint document of each side
          client,            \* the command an administrator waits for
          requests,          \* credentials on their way
          handlers,          \* requests the partner is handling
          answers,           \* answers on their way
          form,              \* what the dashboard of a side has loaded
          commands, tokens,
          apart,             \* a change that the other side has not been told (history)
          severed            \* a save of an old copy, a crossing or one by hand (history)

rVars == <<endpoint, client, requests, handlers, answers, form, commands, tokens, apart, severed>>

Parties == {"cpo", "emsp"}

Other(p) == CHOOSE q \in Parties : q # p

Idle == [st |-> "idle"]

Endpoint(status, token, localToken, services) ==
    [status |-> status, token |-> token, localToken |-> localToken, services |-> services]

\* Both endpoints were created; at least one side was given the token of the other.
Init ==
    /\ \E told \in (SUBSET Parties) \ {{}} :
         endpoint = [p \in Parties |->
                       Endpoint("NEW", IF p \in told THEN IF p = "cpo" THEN 2 ELSE 1 ELSE 0,
                                IF p = "cpo" THEN 1 ELSE 2, FALSE)]
    /\ client = [p \in Parties |-> Idle]
    /\ requests = {} /\ handlers = {} /\ answers = {}
    /\ form = [p \in Parties |-> Idle]
    /\ commands = 0 /\ tokens = 2
    /\ apart = FALSE /\ severed = FALSE

-----------------------------------------------------------------------------
\* initialize of the OCPI server: the token of a request finds the endpoint.
Authenticated(p, token) == endpoint[p].status # "DELETED" /\ endpoint[p].localToken = token

\* saveOcpiEndpoint sets every field, and creates the document if it is gone.
SaveOcpiEndpoint(p, doc) == endpoint' = [endpoint EXCEPT ![p] = doc]

\* History: command n was handled last, so nothing was saved since.
Handled(others, n) == [p \in Parties |-> IF others[p].st = "idle" THEN others[p]
                                         ELSE [others[p] EXCEPT !.clean = (others[p].n = n)]]

-----------------------------------------------------------------------------
(***************************************************************************)
(* The client of an administrator's command                                *)
(***************************************************************************)
HandleCommand(p, kind) ==
    /\ client[p].st = "idle" /\ commands < MaxCommands
    /\ endpoint[p].status # "DELETED"
    /\ commands' = commands + 1
    /\ client' = [client EXCEPT ![p] = [st |-> "check", kind |-> kind, n |-> commands, clean |-> FALSE,
                                        base |-> endpoint[p], copy |-> endpoint[p]]]
    /\ UNCHANGED <<endpoint, requests, handlers, answers, form, tokens, apart, severed>>

Register(p) == HandleCommand(p, "post")
UpdateCredentials(p) == HandleCommand(p, "put")
Unregister(p) == HandleCommand(p, "delete")

\* checkVersions, and getEndpointVersions for credentials.
VersionsAnswered(p) == Authenticated(Other(p), client[p].copy.token)

\* getEndpointUrl: where to send the credentials.
HasCredentialsUrl(c) == c.kind # "delete" \/ c.copy.services

\* The credentials that are posted carry the stored local token, those that
\* are put a new one that is saved with the answer.
Credentials(c) ==
    CASE c.kind = "post" -> [c.copy EXCEPT !.services = TRUE]
      [] c.kind = "put" -> [c.copy EXCEPT !.services = TRUE, !.localToken = tokens + 1]
      [] c.kind = "delete" -> c.copy

SendCredentials(p) ==
    LET c == client[p]
    IN  /\ c.st = "check" /\ VersionsAnswered(p) /\ HasCredentialsUrl(c)
        /\ tokens' = IF c.kind = "put" THEN tokens + 1 ELSE tokens
        /\ client' = [client EXCEPT ![p] = [c EXCEPT !.st = "wait", !.copy = Credentials(c)]]
        /\ requests' = requests \cup {[kind |-> c.kind, to |-> Other(p), n |-> c.n, auth |-> c.copy.token,
                                       credential |-> Credentials(c).localToken]}
        /\ UNCHANGED <<endpoint, handlers, answers, form, commands, apart, severed>>

\* The partner refuses the token, or its services are not known.
CommandFails(p) ==
    /\ client[p].st = "check"
    /\ ~VersionsAnswered(p) \/ ~HasCredentialsUrl(client[p])
    /\ client' = [client EXCEPT ![p] = Idle]
    /\ UNCHANGED <<endpoint, requests, handlers, answers, form, commands, tokens, apart, severed>>

AnswerOf(p) == {a \in answers : client[p].st = "wait" /\ a.to = p /\ a.n = client[p].n}

\* What is stored when the partner has accepted.
Stored(c, a) ==
    IF c.kind = "delete"
    THEN [c.copy EXCEPT !.status = "UNREGISTERED", !.services = FALSE]
    ELSE [c.copy EXCEPT !.status = "REGISTERED", !.token = a.token]

ReceiveAnswer(p) ==
    \E a \in AnswerOf(p) :
        LET c == client[p]
            stale == endpoint[p] # c.base
        IN  /\ answers' = answers \ {a}
            /\ IF a.ok
               THEN /\ SaveOcpiEndpoint(p, Stored(c, a))
                    /\ client' = [Handled(client, MaxCommands) EXCEPT ![p] = Idle]
                    /\ apart' = (stale \/ ~c.clean)
                    /\ severed' = (severed \/ stale)
               ELSE client' = [client EXCEPT ![p] = Idle] /\ UNCHANGED <<endpoint, apart, severed>>
            /\ UNCHANGED <<requests, handlers, form, commands, tokens>>

\* The answer is lost or too late, the save fails or the server stops.
GiveUp(p) ==
    /\ client[p].st = "wait"
    /\ client' = [client EXCEPT ![p] = Idle]
    /\ UNCHANGED <<endpoint, requests, handlers, answers, form, commands, tokens, apart, severed>>

Awaited(m, p) == client[p].st = "wait" /\ client[p].n = m.n

\* Nobody waits for it any more.
DropRequest ==
    \E m \in requests : ~Awaited(m, Other(m.to)) /\ requests' = requests \ {m}
    /\ UNCHANGED <<endpoint, client, handlers, answers, form, commands, tokens, apart, severed>>

DropAnswer ==
    \E a \in answers : ~Awaited(a, a.to) /\ answers' = answers \ {a}
    /\ UNCHANGED <<endpoint, client, requests, handlers, form, commands, tokens, apart, severed>>

-----------------------------------------------------------------------------
(***************************************************************************)
(* The partner                                                             *)
(***************************************************************************)
Answer(m, ok, token) == answers' = answers \cup {[to |-> Other(m.to), n |-> m.n, ok |-> ok, token |-> token]}

Initialize ==
    \E m \in requests :
        /\ requests' = requests \ {m}
        /\ IF Authenticated(m.to, m.auth)
           THEN /\ handlers' = handlers \cup {[st |-> "new", kind |-> m.kind, to |-> m.to, n |-> m.n,
                                               credential |-> m.credential,
                                               base |-> endpoint[m.to], copy |-> endpoint[m.to]]}
                /\ UNCHANGED answers
           ELSE Answer(m, FALSE, 0) /\ UNCHANGED handlers
        /\ UNCHANGED <<endpoint, client, form, commands, tokens, apart, severed>>

HandleDeleteCredentials ==
    \E h \in handlers :
        /\ h.st = "new" /\ h.kind = "delete"
        /\ handlers' = handlers \ {h}
        /\ IF h.copy.status = "UNREGISTERED"
           THEN Answer(h, FALSE, 0) /\ UNCHANGED <<endpoint, client, apart, severed>>
           ELSE /\ SaveOcpiEndpoint(h.to, [h.copy EXCEPT !.status = "UNREGISTERED"])
                /\ Answer(h, TRUE, 0)
                /\ client' = Handled(client, h.n) /\ apart' = TRUE
                /\ severed' = (severed \/ endpoint[h.to] # h.base)
        /\ UNCHANGED <<requests, form, commands, tokens>>

\* The versions and services of the sender are read with the token it sent.
CallBack ==
    \E h \in handlers :
        /\ h.st = "new" /\ h.kind # "delete"
        /\ IF Authenticated(Other(h.to), h.credential)
           THEN /\ handlers' = (handlers \ {h}) \cup
                                 {[h EXCEPT !.st = "called", !.copy = [h.copy EXCEPT !.token = h.credential, !.services = TRUE]]}
                /\ UNCHANGED answers
           ELSE handlers' = handlers \ {h} /\ Answer(h, FALSE, 0)
        /\ UNCHANGED <<endpoint, client, requests, form, commands, tokens, apart, severed>>

\* Credentials that are built before the token is generated.
BuiltBefore(doc) == doc.localToken - 1

\* The token that is answered.
RespCredential(doc) == doc.localToken

\* History: the other side has called back with the token that is replaced.
Crossed(h) == \E g \in handlers : g.to # h.to /\ g.st = "called"

HandleUpdateCreateCredentials ==
    \E h \in handlers :
        LET doc == [h.copy EXCEPT !.localToken = tokens + 1, !.status = "REGISTERED"]
        IN  /\ h.st = "called"
            /\ tokens' = tokens + 1
            /\ SaveOcpiEndpoint(h.to, doc)
            /\ handlers' = handlers \ {h}
            /\ Answer(h, TRUE, RespCredential(doc))
            /\ client' = Handled(client, h.n) /\ apart' = TRUE
            /\ severed' = (severed \/ endpoint[h.to] # h.base \/ Crossed(h))
            /\ UNCHANGED <<requests, form, commands>>

-----------------------------------------------------------------------------
(***************************************************************************)
(* The endpoints in the dashboard                                          *)
(***************************************************************************)
LoadForm(p) ==
    /\ form[p].st = "idle" /\ commands < MaxCommands /\ endpoint[p].status # "DELETED"
    /\ commands' = commands + 1
    /\ form' = [form EXCEPT ![p] = [st |-> "open", doc |-> endpoint[p]]]
    /\ UNCHANGED <<endpoint, client, requests, handlers, answers, tokens, apart, severed>>

\* handleUpdateOcpiEndpoint: the tokens are those of the form, which may hold
\* the token the partner has just told.
HandleUpdateOcpiEndpoint(p) ==
    /\ form[p].st = "open"
    /\ form' = [form EXCEPT ![p] = Idle]
    /\ endpoint[p].status # "DELETED"
    /\ \E token \in {form[p].doc.token, endpoint[Other(p)].localToken} :
         SaveOcpiEndpoint(p, [endpoint[p] EXCEPT !.token = token, !.localToken = form[p].doc.localToken])
    /\ client' = Handled(client, MaxCommands)
    /\ apart' = TRUE /\ severed' = TRUE
    /\ UNCHANGED <<requests, handlers, answers, commands, tokens>>

HandleDeleteOcpiEndpoint(p) ==
    /\ commands < MaxCommands /\ endpoint[p].status # "DELETED"
    /\ commands' = commands + 1
    /\ SaveOcpiEndpoint(p, [endpoint[p] EXCEPT !.status = "DELETED"])
    /\ client' = Handled(client, MaxCommands)
    /\ apart' = TRUE /\ severed' = TRUE
    /\ UNCHANGED <<requests, handlers, answers, form, tokens>>

\* A new endpoint with a generated token and the one the partner has told.
HandleCreateOcpiEndpoint(p) ==
    /\ endpoint[p].status = "DELETED" /\ client[p].st = "idle" /\ form[p].st = "idle"
    /\ ~\E h \in handlers : h.to = p
    /\ tokens' = tokens + 1
    /\ SaveOcpiEndpoint(p, Endpoint("NEW", endpoint[Other(p)].localToken, tokens + 1, FALSE))
    /\ client' = Handled(client, MaxCommands)
    /\ UNCHANGED <<requests, handlers, answers, form, commands, apart, severed>>

-----------------------------------------------------------------------------
Next ==
    \/ \E p \in Parties :
         \/ Register(p) \/ UpdateCredentials(p) \/ Unregister(p)
         \/ SendCredentials(p) \/ CommandFails(p) \/ ReceiveAnswer(p) \/ GiveUp(p)
         \/ LoadForm(p) \/ HandleUpdateOcpiEndpoint(p)
         \/ HandleDeleteOcpiEndpoint(p) \/ HandleCreateOcpiEndpoint(p)
    \/ DropRequest \/ DropAnswer
    \/ Initialize \/ HandleDeleteCredentials \/ CallBack \/ HandleUpdateCreateCredentials

Spec == Init /\ [][Next]_rVars

-----------------------------------------------------------------------------
CanCall(p) == Authenticated(Other(p), endpoint[p].token)

(***************************************************************************)
(* A command that ends well leaves both sides in the same status, and      *)
(* registered sides with each other's token, whatever was lost, crossed or *)
(* edited before: handleUpdateCreateCredentials, register and unregister   *)
(* repair what earlier ones left behind.                                   *)
(***************************************************************************)
RegistrationHeals ==
    ~apart =>
        /\ \A p, q \in Parties : endpoint[p].status = endpoint[q].status
        /\ \A p \in Parties : endpoint[p].status = "REGISTERED" => CanCall(p)

(***************************************************************************)
(* As long as no old copy was saved, no two registrations crossed and      *)
(* nobody edited an endpoint by hand, lost answers leave at least one side *)
(* with a valid token, from where the other can be registered again.       *)
(***************************************************************************)
OneSideCanCall == ~severed => \E p \in Parties : CanCall(p)

CredentialsAgree == RegistrationHeals /\ OneSideCanCall

(***************************************************************************)
(* What the code makes of an update of credentials: the new token is saved *)
(* only with the answer, so the partner that calls back with it is refused *)
(* and no update is ever accepted.                                         *)
(***************************************************************************)
UpdateIsRefused == \A h \in handlers : h.kind = "put" => h.st = "new"
=============================================================================
