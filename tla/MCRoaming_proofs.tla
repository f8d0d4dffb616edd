--------------------------- MODULE MCRoaming_proofs ---------------------------
(***************************************************************************)
(* Theorems about the registration of two partners (Registration), for any *)
(* number of commands of their administrators, about the statuses of the   *)
(* stations at a partner (RoamingStatuses), for any number of stations,    *)
(* pages, pushes and status notifications, and about a session that an     *)
(* operator reports to a provider (RoamingSessions), for any number of     *)
(* updates, of lost, late and repeated requests, of pulls and of handlers. *)
(***************************************************************************)
EXTENDS MCRoaming, FiniteSetTheorems, TLAPS

-----------------------------------------------------------------------------
(* What the two parties and the messages between them are. *)

Document == [status : {"NEW", "REGISTERED", "UNREGISTERED", "DELETED"},
             token : Nat, localToken : Nat, services : BOOLEAN]
Kind == {"post", "put", "delete"}
Command == [st : {"check", "wait"}, kind : Kind, n : Nat, clean : BOOLEAN, base : Document, copy : Document]
Loaded == [st : {"open"}, doc : Document]
Request == [kind : Kind, to : Partners!Parties, n : Nat, auth : Nat, credential : Nat]
Handler == [st : {"new", "called"}, kind : Kind, to : Partners!Parties, n : Nat, credential : Nat,
            base : Document, copy : Document]
Reply == [to : Partners!Parties, n : Nat, ok : BOOLEAN, token : Nat]

PartnersTypeOK ==
  /\ endpoints \in [Partners!Parties -> Document]
  /\ client \in [Partners!Parties -> Command \cup {Partners!Idle}]
  /\ form \in [Partners!Parties -> Loaded \cup {Partners!Idle}]
  /\ requests \subseteq Request /\ partnerHandlers \subseteq Handler /\ partnerAnswers \subseteq Reply
  /\ commands \in Nat /\ tokens \in Nat
  /\ apart \in BOOLEAN /\ severed \in BOOLEAN

Busy(p) == client[p].st \in {"check", "wait"}

\* A command is numbered once, and has one request, handler or answer at a time.
Numbered ==
  /\ commands <= MaxCommands
  /\ \A p \in Partners!Parties : Busy(p) => client[p].n < commands
  /\ \A p \in Partners!Parties, q \in Partners!Parties : Busy(p) /\ Busy(q) /\ client[p].n = client[q].n => p = q
  /\ \A m \in requests \cup partnerHandlers \cup partnerAnswers :
       /\ m.n < commands
       /\ \A p \in Partners!Parties : client[p].st = "check" => client[p].n # m.n
  /\ \A m1 \in requests, m2 \in requests : m1.n = m2.n => m1 = m2
  /\ \A h1 \in partnerHandlers, h2 \in partnerHandlers : h1.n = h2.n => h1 = h2
  /\ \A m \in requests, h \in partnerHandlers : m.n # h.n
  /\ \A a \in partnerAnswers, m \in requests \cup partnerHandlers : m.n # a.n

\* What the partner handles is what the client has sent, and what each has of its endpoint.
Linked ==
  /\ \A p \in Partners!Parties, m \in requests \cup partnerHandlers :
       client[p].st = "wait" /\ client[p].n = m.n =>
         m.to # p /\ m.kind = client[p].kind /\ m.credential = client[p].copy.localToken
  /\ \A p \in Partners!Parties :
       /\ Busy(p) /\ client[p].kind # "put" => client[p].copy.localToken = client[p].base.localToken
       /\ Busy(p) /\ client[p].kind = "delete" => client[p].copy.token = client[p].base.token
  /\ \A h \in partnerHandlers :
       /\ h.st = "new" => h.copy = h.base
       /\ h.st = "called" => h.copy.token = h.credential /\ h.kind # "delete"

\* The answer that p waits for says what the partner has saved.
Accepted(p) ==
  \A a \in partnerAnswers : \A q \in Partners!Parties :
    client[p].st = "wait" /\ client[p].clean /\ a.n = client[p].n /\ a.ok /\ q # p =>
      IF client[p].kind = "delete" THEN endpoints[q].status = "UNREGISTERED"
      ELSE /\ endpoints[q].status = "REGISTERED"
           /\ endpoints[q].token = client[p].copy.localToken
           /\ endpoints[q].localToken = a.token

Heals ==
  /\ ~apart => /\ Partners!RegistrationHeals
               /\ \A p \in Partners!Parties : endpoints[p].status # "DELETED"
  /\ \A p \in Partners!Parties : Accepted(p)

\* An answer that lets p save the token of its partner.
Granted(p) ==
  /\ client[p].st = "wait" /\ client[p].kind # "delete"
  /\ \E a \in partnerAnswers : a.n = client[p].n /\ a.ok

\* As long as nothing was severed.
Whole ==
  /\ \A p \in Partners!Parties :
       /\ endpoints[p].status # "DELETED"
       /\ endpoints[p].localToken <= tokens
       /\ Busy(p) => client[p].base.localToken <= tokens
       /\ Granted(p) => client[p].kind = "post"
  \* An update is refused, since its token is nowhere stored.
  /\ \A m \in requests \cup partnerHandlers :
       m.kind = "put" => /\ m.credential <= tokens
                         /\ \A p \in Partners!Parties : endpoints[p].localToken # m.credential
  /\ \A h \in partnerHandlers : h.st = "called" => h.kind = "post"
  \* The token that a handler has called back with is still valid.
  /\ \A h \in partnerHandlers, p \in Partners!Parties :
       h.st = "called" /\ p # h.to => endpoints[p].localToken = h.credential
  \* The partner of a party that is about to save a new token can call it.
  /\ \A p \in Partners!Parties, q \in Partners!Parties :
       Granted(p) /\ client[p].base.localToken = endpoints[p].localToken /\ q # p =>
         endpoints[q].token = endpoints[p].localToken
  /\ \A p \in Partners!Parties, q \in Partners!Parties :
       /\ Granted(p) /\ client[p].base.localToken = endpoints[p].localToken
       /\ Granted(q) /\ client[q].base.localToken = endpoints[q].localToken
       => p = q
  /\ \E p \in Partners!Parties : \A q \in Partners!Parties : q # p => endpoints[p].token = endpoints[q].localToken

PartnersInv == PartnersTypeOK /\ Numbered /\ Linked /\ Heals /\ (~severed => Whole)

LEMMA TwoParties ==
  /\ \A p \in Partners!Parties :
       /\ Partners!Other(p) \in Partners!Parties /\ Partners!Other(p) # p
       /\ \A q \in Partners!Parties : q # p => q = Partners!Other(p)
  /\ \E p \in Partners!Parties : TRUE
  BY DEF Partners!Parties, Partners!Other

\* A party is idle or waits in a command.
LEMMA ClientShape ==
  ASSUME PartnersTypeOK, NEW p \in Partners!Parties
  PROVE  /\ client[p].st \in {"idle", "check", "wait"}
         /\ client[p].st = "idle" <=> client[p] = Partners!Idle
         /\ Busy(p) => client[p] \in Command
  BY DEF PartnersTypeOK, Command, Partners!Idle, Busy

\* The commands of the parties when command n was handled.
ClientsKept(n) ==
  /\ client' \in [Partners!Parties -> Command \cup {Partners!Idle}]
  /\ \A p \in Partners!Parties :
       /\ client'[p].st = client[p].st
       /\ Busy(p) => /\ client'[p].n = client[p].n
                     /\ client'[p].kind = client[p].kind
                     /\ client'[p].base = client[p].base
                     /\ client'[p].copy = client[p].copy
                     /\ client'[p].clean <=> client[p].n = n

LEMMA HandledKeeps ==
  ASSUME PartnersTypeOK, NEW n, client' = Partners!Handled(client, n)
  PROVE  ClientsKept(n)
<1>1. ASSUME NEW p \in Partners!Parties, Busy(p)
      PROVE  /\ client'[p] \in Command
             /\ client'[p].st = client[p].st
             /\ client'[p].n = client[p].n
             /\ client'[p].kind = client[p].kind
             /\ client'[p].base = client[p].base
             /\ client'[p].copy = client[p].copy
             /\ client'[p].clean <=> client[p].n = n
  <2>1. PICK c \in Command : c = client[p]
    BY <1>1, ClientShape
  <2>2. PICK b \in BOOLEAN : b <=> client[p].n = n
    OBVIOUS
  <2>3. client'[p] = [c EXCEPT !.clean = b]
    BY <1>1, <2>1, <2>2 DEF Partners!Handled, Busy
  <2> QED BY <2>1, <2>2, <2>3 DEF Command
<1>2. ASSUME NEW p \in Partners!Parties, ~Busy(p) PROVE client'[p] = client[p] /\ client[p] = Partners!Idle
  BY <1>2, ClientShape DEF Partners!Handled, Busy
<1>3. client' = [p \in Partners!Parties |-> client'[p]]
  BY DEF Partners!Handled
<1> QED BY <1>1, <1>2, <1>3 DEF ClientsKept

-----------------------------------------------------------------------------
(* A command or message that is gone. *)

Shrunk ==
  /\ UNCHANGED <<endpoints, tokens, apart, severed>>
  /\ commands' \in Nat /\ commands <= commands' /\ commands' <= MaxCommands
  /\ form' \in [Partners!Parties -> Loaded \cup {Partners!Idle}]
  /\ client' \in [Partners!Parties -> Command \cup {Partners!Idle}]
  /\ \A p \in Partners!Parties : client'[p] \in {client[p], Partners!Idle}
  /\ requests' \subseteq requests /\ partnerHandlers' \subseteq partnerHandlers
  /\ partnerAnswers' \subseteq partnerAnswers

LEMMA ShrunkKeeps ==
  ASSUME PartnersInv, Shrunk
  PROVE  PartnersInv'
<1> USE DEF Shrunk
<1>0. ASSUME NEW p \in Partners!Parties, client'[p].st \in {"check", "wait"} PROVE client'[p] = client[p]
  BY <1>0 DEF Partners!Idle
<1>1. PartnersTypeOK'
  BY DEF PartnersInv, PartnersTypeOK
<1>2. Numbered'
  <2>1. \A m \in requests \cup partnerHandlers \cup partnerAnswers : m.n \in Nat
    BY DEF PartnersInv, PartnersTypeOK, Request, Handler, Reply
  <2>2. \A p \in Partners!Parties : Busy(p) => client[p].n \in Nat
    BY ClientShape DEF PartnersInv, Command
  <2>3. commands \in Nat /\ commands' \in Nat
    BY DEF PartnersInv, PartnersTypeOK
  <2>4. \A p \in Partners!Parties : Busy(p)' => client'[p] = client[p] /\ Busy(p)
    BY <1>0 DEF Busy
  <2>5. \A p \in Partners!Parties : Busy(p)' => client'[p].n < commands'
    BY <2>2, <2>3, <2>4 DEF PartnersInv, Numbered
  <2>6. ASSUME NEW m \in requests' \cup partnerHandlers' \cup partnerAnswers'
        PROVE  /\ m.n < commands'
               /\ \A p \in Partners!Parties : client'[p].st = "check" => client'[p].n # m.n
    BY <1>0, <2>1, <2>3 DEF PartnersInv, Numbered
  <2>7. \A p \in Partners!Parties, q \in Partners!Parties :
          Busy(p)' /\ Busy(q)' /\ client'[p].n = client'[q].n => p = q
    BY <2>4 DEF PartnersInv, Numbered
  <2> QED BY <2>5, <2>6, <2>7 DEF PartnersInv, Numbered
<1>3. Linked'
  BY <1>0 DEF PartnersInv, Linked, Busy
<1>4. Heals'
  BY <1>0 DEF PartnersInv, Heals, Accepted, Partners!RegistrationHeals, Partners!CanCall, Partners!Authenticated
<1>5. ~severed' => Whole'
  BY <1>0 DEF PartnersInv, Whole, Granted, Busy
<1> QED BY <1>1, <1>2, <1>3, <1>4, <1>5 DEF PartnersInv

-----------------------------------------------------------------------------
(* The client. *)

LEMMA HandleCommandStep ==
  ASSUME PartnersInv, NEW p \in Partners!Parties, NEW kind \in Kind, Partners!HandleCommand(p, kind)
  PROVE  PartnersInv'
<1> DEFINE c == [st |-> "check", kind |-> kind, n |-> commands, clean |-> FALSE,
                 base |-> endpoints[p], copy |-> endpoints[p]]
<1>1. /\ client[p].st = "idle" /\ commands < MaxCommands /\ commands' = commands + 1
      /\ client' = [client EXCEPT ![p] = c]
      /\ UNCHANGED <<endpoints, requests, partnerHandlers, partnerAnswers, form, tokens, apart, severed>>
  BY DEF Partners!HandleCommand
<1>2. PartnersTypeOK /\ commands \in Nat
  BY DEF PartnersInv, PartnersTypeOK
<1>3. /\ c \in Command /\ c.st = "check" /\ c.kind = kind /\ c.n = commands
      /\ c.base = endpoints[p] /\ c.copy = endpoints[p]
  BY <1>2 DEF PartnersTypeOK, Command
<1> HIDE DEF c
<1>4. /\ client'[p] = c /\ client' \in [Partners!Parties -> Command \cup {Partners!Idle}]
      /\ \A q \in Partners!Parties : q # p => client'[q] = client[q]
  BY <1>1, <1>2, <1>3 DEF PartnersTypeOK
<1>5. PartnersTypeOK'
  BY <1>1, <1>2, <1>4 DEF PartnersTypeOK
<1>6. Numbered'
  <2>1. \A m \in requests \cup partnerHandlers \cup partnerAnswers : m.n \in Nat
    BY <1>2 DEF PartnersTypeOK, Request, Handler, Reply
  <2>2. \A q \in Partners!Parties : Busy(q) => client[q].n \in Nat
    BY <1>2, ClientShape DEF Command
  <2>3. ~Busy(p)
    BY <1>1 DEF Busy
  <2>4. \A q \in Partners!Parties : Busy(q)' => q = p \/ (client'[q] = client[q] /\ Busy(q) /\ client[q].n < commands)
    BY <1>4 DEF Busy, PartnersInv, Numbered
  <2>5. commands' \in Nat /\ MaxCommands \in Nat /\ commands' <= MaxCommands
    BY <1>1, <1>2, MaxCommandsAssumption
  <2>6. \A q \in Partners!Parties : Busy(q)' => client'[q].n < commands'
    BY <1>1, <1>2, <1>3, <1>4, <2>2, <2>4
  <2>7. \A q \in Partners!Parties, r \in Partners!Parties :
          Busy(q)' /\ Busy(r)' /\ client'[q].n = client'[r].n => q = r
    BY <1>2, <1>3, <1>4, <2>2, <2>4 DEF PartnersInv, Numbered
  <2>8. \A m \in requests \cup partnerHandlers \cup partnerAnswers :
          /\ m.n < commands'
          /\ \A q \in Partners!Parties : client'[q].st = "check" => client'[q].n # m.n
    BY <1>1, <1>2, <1>3, <1>4, <2>1 DEF PartnersInv, Numbered
  <2> QED BY <1>1, <2>5, <2>6, <2>7, <2>8 DEF PartnersInv, Numbered
<1>7. Linked'
  <2>1. \A q \in Partners!Parties : client'[q].st = "wait" => client'[q] = client[q]
    BY <1>3, <1>4
  <2> QED BY <1>1, <1>3, <1>4, <2>1 DEF PartnersInv, Linked, Busy
<1>8. Heals'
  <2>1. \A q \in Partners!Parties : client'[q].st = "wait" => client'[q] = client[q]
    BY <1>3, <1>4
  <2> QED BY <1>1, <2>1 DEF PartnersInv, Heals, Accepted, Partners!RegistrationHeals, Partners!CanCall,
                            Partners!Authenticated
<1>9. ~severed' => Whole'
  <2>1. \A q \in Partners!Parties : client'[q].st = "wait" => client'[q] = client[q]
    BY <1>3, <1>4
  <2>2. \A q \in Partners!Parties : Granted(q)' => Granted(q) /\ client'[q] = client[q]
    BY <1>1, <2>1 DEF Granted
  <2> QED BY <1>1, <1>3, <1>4, <2>2 DEF PartnersInv, Whole, Busy
<1> QED BY <1>5, <1>6, <1>7, <1>8, <1>9 DEF PartnersInv

LEMMA SendCredentialsStep ==
  ASSUME PartnersInv, NEW p \in Partners!Parties, Partners!SendCredentials(p)
  PROVE  PartnersInv'
<1> DEFINE sent == Partners!Credentials(client[p])
           m == [kind |-> client[p].kind, to |-> Partners!Other(p), n |-> client[p].n,
                 auth |-> client[p].copy.token, credential |-> sent.localToken]
<1>1. PartnersTypeOK /\ client[p].st = "check"
  BY DEF PartnersInv, Partners!SendCredentials
<1>2. PICK c \in Command : c = client[p] /\ c.st = "check"
  BY <1>1, ClientShape DEF Busy
<1>3. PICK d \in Document : d = client[p].copy /\ d = c.copy
  BY <1>2 DEF Command
<1>4. /\ tokens \in Nat /\ tokens' \in Nat /\ tokens <= tokens'
      /\ sent \in Document
      /\ c.kind # "put" => sent.localToken = d.localToken
      /\ c.kind = "put" => tokens' = tokens + 1 /\ sent.localToken = tokens'
      /\ sent.token = d.token
  <2>1. tokens \in Nat /\ tokens' = IF c.kind = "put" THEN tokens + 1 ELSE tokens
    BY <1>1, <1>2 DEF PartnersTypeOK, Partners!SendCredentials
  <2>2. CASE c.kind = "post"
    <3>1. sent = [d EXCEPT !.services = TRUE]
      BY <1>2, <1>3, <2>2 DEF Partners!Credentials
    <3>2. d \in Document
      BY <1>3
    <3>3. [d EXCEPT !.services = TRUE] \in Document /\ [d EXCEPT !.services = TRUE].localToken = d.localToken
          /\ [d EXCEPT !.services = TRUE].token = d.token
      BY <3>2 DEF Document
    <3> HIDE DEF sent
    <3> QED BY <2>1, <2>2, <3>1, <3>3
  <2>3. CASE c.kind = "put"
    <3>1. sent = [d EXCEPT !.services = TRUE, !.localToken = tokens + 1]
      BY <1>2, <1>3, <2>3 DEF Partners!Credentials
    <3> DEFINE put == [d EXCEPT !.services = TRUE, !.localToken = tokens + 1]
    <3>2. d \in Document
      BY <1>3
    <3>3. PICK t \in Nat : t = tokens + 1
      BY <2>1
    <3>4. put = [d EXCEPT !.services = TRUE, !.localToken = t]
      BY <3>3
    <3>5. put \in Document /\ put.localToken = t /\ put.token = d.token
      BY <3>2, <3>4 DEF Document
    <3>6. sent = put
      BY <3>1
    <3> HIDE DEF sent, put
    <3> QED BY <2>1, <2>3, <3>3, <3>5, <3>6
  <2>4. CASE c.kind = "delete"
    <3>1. sent = d
      BY <1>2, <1>3, <2>4 DEF Partners!Credentials
    <3> QED BY <2>1, <2>4, <3>1
  <2> QED BY <1>2, <2>2, <2>3, <2>4 DEF Command, Kind
<1>5. PICK w \in Command : /\ w = [c EXCEPT !.st = "wait", !.copy = sent]
                           /\ w.st = "wait" /\ w.kind = c.kind /\ w.n = c.n /\ w.base = c.base /\ w.copy = sent
  <2> HIDE DEF sent
  <2> DEFINE asked == [c EXCEPT !.st = "wait", !.copy = sent]
  <2>1. /\ asked \in Command
        /\ asked.st = "wait" /\ asked.kind = c.kind /\ asked.n = c.n
        /\ asked.base = c.base /\ asked.copy = sent
    BY <1>4 DEF Command
  <2> QED BY <2>1
<1>6. /\ client' = [client EXCEPT ![p] = w] /\ requests' = requests \cup {m}
      /\ UNCHANGED <<endpoints, partnerHandlers, partnerAnswers, form, commands, apart, severed>>
  BY <1>2, <1>5 DEF Partners!SendCredentials
<1>7. /\ m \in Request /\ m.kind = c.kind /\ m.to # p /\ m.to \in Partners!Parties /\ m.n = c.n
      /\ m.credential = sent.localToken
  BY <1>2, <1>3, <1>4, TwoParties DEF Request, Command, Document
<1> HIDE DEF sent, m
<1>8. /\ client'[p] = w /\ client' \in [Partners!Parties -> Command \cup {Partners!Idle}]
      /\ \A q \in Partners!Parties : q # p => client'[q] = client[q]
  BY <1>1, <1>6 DEF PartnersTypeOK
<1>9. PartnersTypeOK'
  BY <1>1, <1>4, <1>6, <1>7, <1>8 DEF PartnersTypeOK
<1>10. Busy(p) /\ \A q \in Partners!Parties : Busy(q)' => Busy(q) /\ client'[q].n = client[q].n
  BY <1>2, <1>5, <1>8 DEF Busy
<1>11. \A x \in requests \cup partnerHandlers \cup partnerAnswers : x.n # c.n
  BY <1>2 DEF PartnersInv, Numbered
<1>12. Numbered'
  <2>1. \A q \in Partners!Parties : client'[q].st = "check" => q # p /\ client'[q] = client[q] /\ Busy(q)
    BY <1>5, <1>8 DEF Busy
  <2>2. \A x \in requests' \cup partnerHandlers \cup partnerAnswers :
          x = m \/ x \in requests \cup partnerHandlers \cup partnerAnswers
    BY <1>6
  <2>3. m.n < commands /\ \A q \in Partners!Parties : client'[q].st = "check" => client'[q].n # m.n
    BY <1>2, <1>7, <1>10, <2>1 DEF PartnersInv, Numbered
  <2>4. \A x \in requests' \cup partnerHandlers' \cup partnerAnswers' :
          /\ x.n < commands'
          /\ \A q \in Partners!Parties : client'[q].st = "check" => client'[q].n # x.n
    BY <1>6, <2>1, <2>2, <2>3 DEF PartnersInv, Numbered
  <2>5. \A m1 \in requests', m2 \in requests' : m1.n = m2.n => m1 = m2
    BY <1>6, <1>7, <1>11 DEF PartnersInv, Numbered
  <2>6. /\ \A x \in requests', h \in partnerHandlers : x.n # h.n
        /\ \A a \in partnerAnswers, x \in requests' \cup partnerHandlers : x.n # a.n
    BY <1>6, <1>7, <1>11 DEF PartnersInv, Numbered
  <2>7. \A q \in Partners!Parties : Busy(q)' => client'[q].n < commands'
    BY <1>6, <1>10 DEF PartnersInv, Numbered
  <2>8. \A q \in Partners!Parties, r \in Partners!Parties :
          Busy(q)' /\ Busy(r)' /\ client'[q].n = client'[r].n => q = r
    BY <1>10 DEF PartnersInv, Numbered
  <2> QED BY <1>6, <2>4, <2>5, <2>6, <2>7, <2>8 DEF PartnersInv, Numbered
<1>13. Linked'
  <2>1. ASSUME NEW q \in Partners!Parties, NEW x \in requests' \cup partnerHandlers',
               client'[q].st = "wait", client'[q].n = x.n
        PROVE  x.to # q /\ x.kind = client'[q].kind /\ x.credential = client'[q].copy.localToken
    <3>1. CASE x = m
      <4>1. q = p
        BY <1>2, <1>7, <1>8, <1>10, <2>1, <3>1 DEF PartnersInv, Numbered, Busy
      <4> QED BY <1>5, <1>7, <1>8, <3>1, <4>1
    <3>2. CASE x # m
      <4>1. x \in requests \cup partnerHandlers
        BY <1>6, <3>2
      <4>2. q # p
        BY <1>5, <1>8, <1>11, <2>1, <4>1
      <4> QED BY <1>8, <2>1, <4>1, <4>2 DEF PartnersInv, Linked
    <3> QED BY <3>1, <3>2
  <2>2. \A q \in Partners!Parties :
          /\ Busy(q)' /\ client'[q].kind # "put" => client'[q].copy.localToken = client'[q].base.localToken
          /\ Busy(q)' /\ client'[q].kind = "delete" => client'[q].copy.token = client'[q].base.token
    <3>1. /\ c.kind # "put" => c.copy.localToken = c.base.localToken
          /\ c.kind = "delete" => c.copy.token = c.base.token
      BY <1>2, <1>10 DEF PartnersInv, Linked
    <3>2. /\ w.kind # "put" => w.copy.localToken = w.base.localToken
          /\ w.kind = "delete" => w.copy.token = w.base.token
      BY <1>3, <1>4, <1>5, <3>1
    <3> QED BY <1>8, <1>10, <3>2 DEF PartnersInv, Linked
  <2> QED BY <1>6, <2>1, <2>2 DEF PartnersInv, Linked
<1>14. Heals'
  <2>1. \A q \in Partners!Parties, a \in partnerAnswers :
          client'[q].st = "wait" /\ a.n = client'[q].n => q # p
    BY <1>5, <1>8, <1>11
  <2>2. \A q \in Partners!Parties : Accepted(q)'
    BY <1>6, <1>8, <2>1 DEF PartnersInv, Heals, Accepted
  <2>3. Partners!RegistrationHeals => Partners!RegistrationHeals'
    BY <1>6 DEF Partners!RegistrationHeals, Partners!CanCall, Partners!Authenticated
  <2> QED BY <1>6, <2>2, <2>3 DEF PartnersInv, Heals
<1>15. ~severed' => Whole'
  <2> SUFFICES ASSUME ~severed, Whole PROVE Whole'
    BY <1>6 DEF PartnersInv
  <2>1. \A q \in Partners!Parties : Granted(q)' => Granted(q) /\ client'[q] = client[q]
    BY <1>5, <1>6, <1>8, <1>11 DEF Granted
  <2>2. \A q \in Partners!Parties : endpoints[q].localToken \in Nat
    BY <1>1 DEF PartnersTypeOK, Document
  <2>3. \A x \in requests \cup partnerHandlers : x.credential \in Nat
    BY <1>1 DEF PartnersTypeOK, Request, Handler
  <2>4. ASSUME NEW q \in Partners!Parties, Busy(q)'
        PROVE  client'[q].base.localToken <= tokens' /\ client'[q].base = client[q].base
    <3>1. client'[q].base = client[q].base /\ Busy(q)
      BY <1>2, <1>5, <1>8, <1>10, <2>4
    <3>2. client[q].base.localToken \in Nat
      BY <1>1, <3>1, ClientShape DEF Command, Document
    <3> QED BY <1>4, <3>1, <3>2 DEF Whole
  <2>5. \A q \in Partners!Parties : endpoints[q].localToken <= tokens'
    BY <1>4, <2>2 DEF Whole
  <2>6. ASSUME NEW x \in requests' \cup partnerHandlers', x.kind = "put"
        PROVE  x.credential <= tokens' /\ \A q \in Partners!Parties : endpoints[q].localToken # x.credential
    <3>1. CASE x = m
      BY <1>4, <1>7, <2>2, <2>6, <3>1 DEF Whole
    <3>2. CASE x \in requests \cup partnerHandlers
      BY <1>4, <2>3, <2>6, <3>2 DEF Whole
    <3> QED BY <1>6, <3>1, <3>2
  <2> QED BY <1>6, <2>1, <2>4, <2>5, <2>6 DEF Whole
<1> QED BY <1>9, <1>12, <1>13, <1>14, <1>15 DEF PartnersInv

LEMMA ReleaseStep ==
  ASSUME PartnersInv,
         \/ \E p \in Partners!Parties : Partners!CommandFails(p) \/ Partners!GiveUp(p) \/ Partners!LoadForm(p)
         \/ Partners!DropRequest \/ Partners!DropAnswer
  PROVE  PartnersInv'
<1>1. /\ commands \in Nat /\ commands <= MaxCommands
      /\ client \in [Partners!Parties -> Command \cup {Partners!Idle}]
      /\ form \in [Partners!Parties -> Loaded \cup {Partners!Idle}]
      /\ endpoints \in [Partners!Parties -> Document]
  BY DEF PartnersInv, PartnersTypeOK, Numbered
<1>2. ASSUME NEW p \in Partners!Parties, Partners!CommandFails(p) \/ Partners!GiveUp(p) PROVE Shrunk
  <2>1. client' = [client EXCEPT ![p] = Partners!Idle] /\ commands' = commands
    BY <1>2 DEF Partners!CommandFails, Partners!GiveUp
  <2>2. /\ UNCHANGED <<endpoints, tokens, apart, severed, form>>
        /\ UNCHANGED <<requests, partnerHandlers, partnerAnswers>>
    BY <1>2 DEF Partners!CommandFails, Partners!GiveUp
  <2> QED BY <1>1, <2>1, <2>2 DEF Shrunk
<1>3. ASSUME NEW p \in Partners!Parties, Partners!LoadForm(p) PROVE Shrunk
  <2>1. /\ commands < MaxCommands /\ commands' = commands + 1
        /\ form' = [form EXCEPT ![p] = [st |-> "open", doc |-> endpoints[p]]]
        /\ UNCHANGED <<endpoints, client, requests, partnerHandlers, partnerAnswers, tokens, apart, severed>>
    BY <1>3 DEF Partners!LoadForm
  <2>2. commands' \in Nat /\ commands <= commands' /\ commands' <= MaxCommands
    BY <1>1, <2>1, MaxCommandsAssumption
  <2>3. [st |-> "open", doc |-> endpoints[p]] \in Loaded
    BY <1>1 DEF Loaded
  <2>4. form' \in [Partners!Parties -> Loaded \cup {Partners!Idle}]
    BY <1>1, <2>1, <2>3
  <2> QED BY <1>1, <2>1, <2>2, <2>4 DEF Shrunk
<1>4. ASSUME Partners!DropRequest \/ Partners!DropAnswer PROVE Shrunk
  BY <1>1, <1>4 DEF Partners!DropRequest, Partners!DropAnswer, Shrunk
<1> QED BY <1>2, <1>3, <1>4, ShrunkKeeps

-----------------------------------------------------------------------------
(* The partner takes a request, and refuses or calls back. *)

\* What a request, or the handler that was made of it, still tells.
Passed(m, h) == h.kind = m.kind /\ h.to = m.to /\ h.n = m.n /\ h.credential = m.credential

\* Message m is answered or goes on as h; nothing is saved.
Moved(m) ==
  /\ UNCHANGED <<endpoints, client, form, commands, tokens, apart, severed>>
  /\ requests' = requests \ {m}
  /\ \/ /\ partnerHandlers' = partnerHandlers \ {m}
        /\ \E a \in Reply : a.n = m.n /\ ~a.ok /\ partnerAnswers' = partnerAnswers \cup {a}
     \/ /\ \E h \in Handler :
             /\ Passed(m, h) /\ partnerHandlers' = (partnerHandlers \ {m}) \cup {h}
             /\ h.st = "new" => h.copy = h.base
             /\ h.st = "called" =>
                  /\ h.copy.token = h.credential /\ h.kind # "delete"
                  /\ ~severed => /\ h.kind = "post"
                                 /\ \A p \in Partners!Parties : p # h.to => endpoints[p].localToken = h.credential
        /\ UNCHANGED partnerAnswers

LEMMA MovedKeeps ==
  ASSUME PartnersInv, NEW m \in requests \cup partnerHandlers, Moved(m)
  PROVE  PartnersInv'
<1>1. /\ PartnersTypeOK /\ Numbered /\ Linked /\ Heals
      /\ UNCHANGED <<endpoints, client, form, commands, tokens, apart, severed>>
      /\ requests' = requests \ {m}
  BY DEF PartnersInv, Moved
<1>2. CASE partnerHandlers' = partnerHandlers \ {m}
           /\ \E a \in Reply : a.n = m.n /\ ~a.ok /\ partnerAnswers' = partnerAnswers \cup {a}
  <2>1. PICK a \in Reply : a.n = m.n /\ ~a.ok /\ partnerAnswers' = partnerAnswers \cup {a}
    BY <1>2
  <2>2. PartnersTypeOK'
    BY <1>1, <1>2, <2>1 DEF PartnersTypeOK
  <2>3. Numbered'
    <3>1. \A x \in requests' \cup partnerHandlers' : x \in requests \cup partnerHandlers /\ x.n # m.n
      BY <1>1, <1>2 DEF Numbered
    <3>2. \A x \in requests' \cup partnerHandlers' \cup partnerAnswers' :
            /\ x.n < commands'
            /\ \A p \in Partners!Parties : client'[p].st = "check" => client'[p].n # x.n
      BY <1>1, <1>2, <2>1 DEF Numbered
    <3>3. \A b \in partnerAnswers', x \in requests' \cup partnerHandlers' : x.n # b.n
      BY <1>1, <2>1, <3>1 DEF Numbered
    <3>4. \A p \in Partners!Parties : Busy(p)' <=> Busy(p)
      BY <1>1 DEF Busy
    <3> QED BY <1>1, <1>2, <3>2, <3>3, <3>4 DEF Numbered
  <2>4. Linked'
    BY <1>1, <1>2 DEF Linked, Busy
  <2>5. Heals'
    BY <1>1, <2>1 DEF Heals, Accepted, Partners!RegistrationHeals, Partners!CanCall, Partners!Authenticated
  <2>6. ~severed' => Whole'
    <3>1. \A p \in Partners!Parties : Granted(p)' => Granted(p)
      BY <1>1, <2>1 DEF Granted
    <3> QED BY <1>1, <1>2, <3>1 DEF PartnersInv, Whole, Busy
  <2> QED BY <2>2, <2>3, <2>4, <2>5, <2>6 DEF PartnersInv
<1>3. CASE /\ \E h \in Handler :
                /\ Passed(m, h) /\ partnerHandlers' = (partnerHandlers \ {m}) \cup {h}
                /\ h.st = "new" => h.copy = h.base
                /\ h.st = "called" =>
                     /\ h.copy.token = h.credential /\ h.kind # "delete"
                     /\ ~severed => /\ h.kind = "post"
                                    /\ \A p \in Partners!Parties :
                                         p # h.to => endpoints[p].localToken = h.credential
           /\ UNCHANGED partnerAnswers
  <2>1. PICK h \in Handler :
          /\ Passed(m, h) /\ partnerHandlers' = (partnerHandlers \ {m}) \cup {h}
          /\ h.st = "new" => h.copy = h.base
          /\ h.st = "called" =>
               /\ h.copy.token = h.credential /\ h.kind # "delete"
               /\ ~severed => /\ h.kind = "post"
                              /\ \A p \in Partners!Parties : p # h.to => endpoints[p].localToken = h.credential
    BY <1>3
  <2>2. PartnersTypeOK'
    BY <1>1, <1>3, <2>1 DEF PartnersTypeOK
  <2>3. /\ h.n = m.n /\ h.kind = m.kind /\ h.to = m.to /\ h.credential = m.credential
        /\ partnerHandlers' = (partnerHandlers \ {m}) \cup {h}
    BY <2>1 DEF Passed
  <2>4. Numbered'
    <3>1. \A x \in requests' : x \in requests /\ x.n # m.n
      BY <1>1 DEF Numbered
    <3>2. \A x \in partnerHandlers' : x = h \/ (x \in partnerHandlers /\ x.n # m.n)
      BY <1>1, <2>3 DEF Numbered
    <3>3. \A x \in requests' \cup partnerHandlers' \cup partnerAnswers' :
            /\ x.n < commands'
            /\ \A p \in Partners!Parties : client'[p].st = "check" => client'[p].n # x.n
      BY <1>1, <1>3, <2>3 DEF Numbered
    <3>4. \A b \in partnerAnswers', x \in requests' \cup partnerHandlers' : x.n # b.n
      BY <1>1, <1>3, <2>3 DEF Numbered
    <3>5. /\ \A h1 \in partnerHandlers', h2 \in partnerHandlers' : h1.n = h2.n => h1 = h2
          /\ \A x \in requests', y \in partnerHandlers' : x.n # y.n
          /\ \A x \in requests', y \in requests' : x.n = y.n => x = y
      BY <1>1, <2>3, <3>1, <3>2 DEF Numbered
    <3>6. \A p \in Partners!Parties : Busy(p)' <=> Busy(p)
      BY <1>1 DEF Busy
    <3> QED BY <1>1, <3>3, <3>4, <3>5, <3>6 DEF Numbered
  <2>5. Linked'
    BY <1>1, <2>1, <2>3 DEF Linked, Busy
  <2>6. Heals'
    BY <1>1, <1>3 DEF Heals, Accepted, Partners!RegistrationHeals, Partners!CanCall, Partners!Authenticated
  <2>7. ~severed' => Whole'
    <3> SUFFICES ASSUME ~severed, Whole PROVE Whole'
      BY <1>1 DEF PartnersInv
    <3>1. \A p \in Partners!Parties : Granted(p)' => Granted(p)
      BY <1>1, <1>3 DEF Granted
    <3>2. \A x \in requests' \cup partnerHandlers' :
            x.kind = "put" => /\ x.credential <= tokens'
                              /\ \A p \in Partners!Parties : endpoints'[p].localToken # x.credential
      BY <1>1, <2>3 DEF Whole
    <3>3. \A x \in partnerHandlers' : x.st = "called" =>
            /\ x.kind = "post"
            /\ \A p \in Partners!Parties : p # x.to => endpoints'[p].localToken = x.credential
      BY <1>1, <2>1, <2>3 DEF Whole
    <3> QED BY <1>1, <3>1, <3>2, <3>3 DEF Whole, Busy
  <2> QED BY <2>2, <2>4, <2>5, <2>6, <2>7 DEF PartnersInv
<1> QED BY <1>2, <1>3 DEF Moved

LEMMA InitializeStep ==
  ASSUME PartnersInv, Partners!Initialize
  PROVE  PartnersInv'
<1>1. PICK m \in requests :
        /\ requests' = requests \ {m}
        /\ UNCHANGED <<endpoints, client, form, commands, tokens, apart, severed>>
        /\ \/ /\ partnerHandlers' = partnerHandlers \cup
                   {[st |-> "new", kind |-> m.kind, to |-> m.to, n |-> m.n, credential |-> m.credential,
                     base |-> endpoints[m.to], copy |-> endpoints[m.to]]}
              /\ UNCHANGED partnerAnswers
           \/ Partners!Answer(m, FALSE, 0) /\ UNCHANGED partnerHandlers
  BY DEF Partners!Initialize
<1>2. PICK r \in Request : r = m
  BY DEF PartnersInv, PartnersTypeOK
<1>3. m \notin partnerHandlers /\ PartnersTypeOK
  BY DEF PartnersInv, Numbered
<1>4. CASE Partners!Answer(m, FALSE, 0) /\ UNCHANGED partnerHandlers
  <2> DEFINE a == [to |-> Partners!Other(m.to), n |-> m.n, ok |-> FALSE, token |-> 0]
  <2>1. partnerAnswers' = partnerAnswers \cup {a} /\ a.n = m.n /\ ~a.ok
    BY <1>4 DEF Partners!Answer
  <2>2. a \in Reply
    BY <1>2, TwoParties DEF Request, Reply
  <2> HIDE DEF a
  <2>3. partnerHandlers' = partnerHandlers \ {m}
    BY <1>3, <1>4
  <2>4. Moved(m)
    BY <1>1, <2>1, <2>2, <2>3 DEF Moved
  <2> QED BY <2>4, MovedKeeps
<1>5. CASE UNCHANGED partnerAnswers /\ partnerHandlers' = partnerHandlers \cup
                   {[st |-> "new", kind |-> m.kind, to |-> m.to, n |-> m.n, credential |-> m.credential,
                     base |-> endpoints[m.to], copy |-> endpoints[m.to]]}
  <2> DEFINE h == [st |-> "new", kind |-> m.kind, to |-> m.to, n |-> m.n, credential |-> m.credential,
                   base |-> endpoints[m.to], copy |-> endpoints[m.to]]
  <2>1. h \in Handler /\ Passed(m, h) /\ h.st = "new" /\ h.copy = h.base
    BY <1>2, <1>3 DEF Request, Handler, PartnersTypeOK, Passed
  <2>2. partnerHandlers' = (partnerHandlers \ {m}) \cup {h}
    BY <1>3, <1>5
  <2> HIDE DEF h
  <2>3. Moved(m)
    BY <1>1, <1>5, <2>1, <2>2 DEF Moved
  <2> QED BY <2>3, MovedKeeps
<1> QED BY <1>1, <1>4, <1>5

LEMMA CallBackStep ==
  ASSUME PartnersInv, Partners!CallBack
  PROVE  PartnersInv'
<1>1. PICK h \in partnerHandlers :
        /\ h.st = "new" /\ h.kind # "delete"
        /\ UNCHANGED <<endpoints, client, requests, form, commands, tokens, apart, severed>>
        /\ IF Partners!Authenticated(Partners!Other(h.to), h.credential)
           THEN /\ partnerHandlers' = (partnerHandlers \ {h}) \cup
                     {[h EXCEPT !.st = "called",
                                !.copy = [h.copy EXCEPT !.token = h.credential, !.services = TRUE]]}
                /\ UNCHANGED partnerAnswers
           ELSE partnerHandlers' = partnerHandlers \ {h} /\ Partners!Answer(h, FALSE, 0)
  BY DEF Partners!CallBack
<1>2. PICK r \in Handler : r = h
  BY DEF PartnersInv, PartnersTypeOK
<1>3. requests' = requests \ {h} /\ PartnersTypeOK
  BY <1>1 DEF PartnersInv, Numbered
<1>4. CASE ~Partners!Authenticated(Partners!Other(h.to), h.credential)
  <2> DEFINE a == [to |-> Partners!Other(h.to), n |-> h.n, ok |-> FALSE, token |-> 0]
  <2>1. partnerAnswers' = partnerAnswers \cup {a} /\ a.n = h.n /\ ~a.ok
    BY <1>1, <1>4 DEF Partners!Answer
  <2>2. a \in Reply
    BY <1>2, TwoParties DEF Handler, Reply
  <2> HIDE DEF a
  <2>3. Moved(h)
    BY <1>1, <1>3, <1>4, <2>1, <2>2 DEF Moved
  <2> QED BY <2>3, MovedKeeps
<1>5. CASE Partners!Authenticated(Partners!Other(h.to), h.credential)
  <2>1. r.copy \in Document /\ r.credential \in Nat
    BY DEF Handler
  <2>2. PICK d \in Document : d = [r.copy EXCEPT !.token = r.credential, !.services = TRUE] /\ d.token = r.credential
    <3>1. ASSUME NEW doc \in Document, NEW t \in Nat
          PROVE  [doc EXCEPT !.token = t, !.services = TRUE] \in Document
                 /\ [doc EXCEPT !.token = t, !.services = TRUE].token = t
      BY DEF Document
    <3> QED BY <2>1, <3>1
  <2>3. PICK g \in Handler : g = [r EXCEPT !.st = "called", !.copy = d] /\ Passed(r, g) /\ g.st = "called" /\ g.copy = d
    <3> DEFINE x == [r EXCEPT !.st = "called", !.copy = d]
    <3>1. x \in Handler /\ Passed(r, x) /\ x.st = "called" /\ x.copy = d
      BY DEF Handler, Passed
    <3> QED BY <3>1
  <2>4. partnerHandlers' = (partnerHandlers \ {h}) \cup {g} /\ UNCHANGED partnerAnswers
    BY <1>1, <1>2, <1>5, <2>2, <2>3
  <2>5. \A p \in Partners!Parties : p # h.to => endpoints[p].localToken = h.credential
    BY <1>2, <1>5, TwoParties DEF Partners!Authenticated, Handler
  <2>6. ASSUME ~severed PROVE h.kind = "post"
    <3>1. h.kind # "put"
      BY <1>2, <2>5, <2>6, TwoParties DEF PartnersInv, Whole, Handler
    <3> QED BY <1>1, <1>2, <3>1 DEF Handler, Kind
  <2>7. Moved(h)
    BY <1>1, <1>2, <1>3, <2>2, <2>3, <2>4, <2>5, <2>6 DEF Moved, Passed
  <2> QED BY <2>7, MovedKeeps
<1> QED BY <1>4, <1>5

-----------------------------------------------------------------------------
(* A document that is saved. *)

\* The numbers and links of commands and messages outlast a save.
LEMMA KeptNumbers ==
  ASSUME PartnersInv,
         client' \in [Partners!Parties -> Command \cup {Partners!Idle}],
         \A p \in Partners!Parties :
           \/ client'[p] = Partners!Idle
           \/ /\ client'[p].st = client[p].st
              /\ Busy(p) => /\ client'[p].n = client[p].n
                            /\ client'[p].kind = client[p].kind
                            /\ client'[p].base = client[p].base
                            /\ client'[p].copy = client[p].copy,
         commands' \in Nat, commands <= commands', commands' <= MaxCommands,
         UNCHANGED requests, partnerHandlers' \subseteq partnerHandlers,
         \A a \in partnerAnswers' :
           a \in partnerAnswers \/ \E h \in partnerHandlers : a.n = h.n /\ h \notin partnerHandlers'
  PROVE  Numbered' /\ Linked'
<1>1. \A p \in Partners!Parties : Busy(p)' =>
        /\ Busy(p)
        /\ client'[p].st = client[p].st /\ client'[p].n = client[p].n /\ client'[p].kind = client[p].kind
        /\ client'[p].base = client[p].base /\ client'[p].copy = client[p].copy
  BY DEF Busy, Partners!Idle
<1>2. \A p \in Partners!Parties : client'[p].st \in {"check", "wait"} => Busy(p)'
  BY DEF Busy
<1>3. Numbered'
  <2>1. \A m \in requests \cup partnerHandlers \cup partnerAnswers : m.n \in Nat
    BY DEF PartnersInv, PartnersTypeOK, Request, Handler, Reply
  <2>2. \A p \in Partners!Parties : Busy(p) => client[p].n \in Nat
    BY ClientShape DEF PartnersInv, Command
  <2>3. commands \in Nat
    BY DEF PartnersInv, PartnersTypeOK
  <2>4. \A p \in Partners!Parties : Busy(p)' => client'[p].n < commands'
    BY <1>1, <2>2, <2>3 DEF PartnersInv, Numbered
  <2>5. \A p \in Partners!Parties, q \in Partners!Parties :
          Busy(p)' /\ Busy(q)' /\ client'[p].n = client'[q].n => p = q
    BY <1>1 DEF PartnersInv, Numbered
  <2>6. \A x \in requests' \cup partnerHandlers' \cup partnerAnswers' :
          \E m \in requests \cup partnerHandlers \cup partnerAnswers : x.n = m.n
    OBVIOUS
  <2>7. ASSUME NEW m \in requests \cup partnerHandlers \cup partnerAnswers
        PROVE  /\ m.n < commands'
               /\ \A p \in Partners!Parties : client'[p].st = "check" => client'[p].n # m.n
    BY <1>1, <1>2, <2>1, <2>3 DEF PartnersInv, Numbered
  <2>8. \A x \in requests' \cup partnerHandlers' \cup partnerAnswers' :
          /\ x.n < commands'
          /\ \A p \in Partners!Parties : client'[p].st = "check" => client'[p].n # x.n
    BY <2>6, <2>7
  <2>9. \A a \in partnerAnswers', m \in requests' \cup partnerHandlers' : m.n # a.n
    BY DEF PartnersInv, Numbered
  <2> QED BY <2>4, <2>5, <2>8, <2>9 DEF PartnersInv, Numbered
<1>4. Linked'
  BY <1>1, <1>2 DEF PartnersInv, Linked
<1> QED BY <1>3, <1>4

LEMMA HandlerSaves ==
  ASSUME PartnersInv, NEW h \in partnerHandlers, NEW doc \in Document, NEW a \in Reply,
         a.n = h.n, a.ok,
         endpoints' = [endpoints EXCEPT ![h.to] = doc],
         partnerHandlers' = partnerHandlers \ {h}, partnerAnswers' = partnerAnswers \cup {a},
         client' = Partners!Handled(client, h.n),
         apart' = TRUE, severed' \in BOOLEAN, tokens' \in Nat,
         UNCHANGED <<requests, form, commands>>,
         IF h.kind = "delete" THEN doc.status = "UNREGISTERED"
         ELSE doc.status = "REGISTERED" /\ doc.token = h.credential /\ doc.localToken = a.token
  PROVE  PartnersTypeOK' /\ Numbered' /\ Linked' /\ Heals' /\ ClientsKept(h.n)
<1>1. ClientsKept(h.n)
  BY HandledKeeps DEF PartnersInv
<1>2. h \in Handler /\ h.to \in Partners!Parties
  BY DEF PartnersInv, PartnersTypeOK, Handler
<1>3. PartnersTypeOK'
  BY <1>1, <1>2 DEF PartnersInv, PartnersTypeOK, ClientsKept
<1>4. Numbered' /\ Linked'
  <2>1. commands \in Nat /\ commands <= MaxCommands
    BY DEF PartnersInv, PartnersTypeOK, Numbered
  <2> QED BY <1>1, <2>1, KeptNumbers DEF ClientsKept
<1>5. Heals'
  <2>1. ASSUME NEW p \in Partners!Parties, NEW b \in partnerAnswers', NEW q \in Partners!Parties,
               client'[p].st = "wait", client'[p].clean, b.n = client'[p].n, b.ok, q # p
        PROVE  IF client'[p].kind = "delete" THEN endpoints'[q].status = "UNREGISTERED"
               ELSE /\ endpoints'[q].status = "REGISTERED"
                    /\ endpoints'[q].token = client'[p].copy.localToken
                    /\ endpoints'[q].localToken = b.token
    <3>1. /\ client[p].st = "wait" /\ client[p].n = h.n /\ b.n = h.n
          /\ client'[p].kind = client[p].kind /\ client'[p].copy = client[p].copy
      BY <1>1, <2>1 DEF ClientsKept, Busy
    <3>2. h.to # p /\ h.kind = client[p].kind /\ h.credential = client[p].copy.localToken
      BY <3>1 DEF PartnersInv, Linked
    <3>3. b = a
      BY <3>1 DEF PartnersInv, Numbered
    <3>4. q = h.to
      BY <1>2, <2>1, <3>2, TwoParties
    <3>5. endpoints'[q] = doc
      BY <1>2, <3>4 DEF PartnersInv, PartnersTypeOK
    <3> QED BY <3>1, <3>2, <3>3, <3>5
  <2> QED BY <2>1 DEF Heals, Accepted
<1> QED BY <1>1, <1>3, <1>4, <1>5

LEMMA HandleDeleteStep ==
  ASSUME PartnersInv, Partners!HandleDeleteCredentials
  PROVE  PartnersInv'
<1>1. PICK h \in partnerHandlers :
        /\ h.st = "new" /\ h.kind = "delete"
        /\ partnerHandlers' = partnerHandlers \ {h}
        /\ UNCHANGED <<requests, form, commands, tokens>>
        /\ IF h.copy.status = "UNREGISTERED"
           THEN Partners!Answer(h, FALSE, 0) /\ UNCHANGED <<endpoints, client, apart, severed>>
           ELSE /\ endpoints' = [endpoints EXCEPT ![h.to] = [h.copy EXCEPT !.status = "UNREGISTERED"]]
                /\ Partners!Answer(h, TRUE, 0)
                /\ client' = Partners!Handled(client, h.n) /\ apart' = TRUE
                /\ severed' = (severed \/ endpoints[h.to] # h.base)
  BY DEF Partners!HandleDeleteCredentials, Partners!SaveOcpiEndpoint
<1>2. PICK r \in Handler : r = h
  BY DEF PartnersInv, PartnersTypeOK
<1>3. requests' = requests \ {h} /\ PartnersTypeOK
  BY <1>1 DEF PartnersInv, Numbered
<1> DEFINE a(ok) == [to |-> Partners!Other(h.to), n |-> h.n, ok |-> ok, token |-> 0]
<1>4. a(TRUE) \in Reply /\ a(FALSE) \in Reply /\ a(TRUE).n = h.n /\ a(FALSE).n = h.n /\ a(TRUE).ok /\ ~a(FALSE).ok
  BY <1>2, TwoParties DEF Handler, Reply
<1>5. /\ h.copy.status = "UNREGISTERED" => partnerAnswers' = partnerAnswers \cup {a(FALSE)}
      /\ h.copy.status # "UNREGISTERED" => partnerAnswers' = partnerAnswers \cup {a(TRUE)}
  BY <1>1 DEF Partners!Answer
<1> HIDE DEF a
<1>6. CASE h.copy.status = "UNREGISTERED"
  <2>1. Moved(h)
    BY <1>1, <1>3, <1>4, <1>5, <1>6 DEF Moved
  <2> QED BY <2>1, MovedKeeps
<1>7. CASE h.copy.status # "UNREGISTERED"
  <2>1. r.copy \in Document
    BY DEF Handler
  <2>2. PICK doc \in Document : /\ doc = [r.copy EXCEPT !.status = "UNREGISTERED"]
                                /\ doc.status = "UNREGISTERED"
                                /\ doc.token = r.copy.token /\ doc.localToken = r.copy.localToken
    <3>1. ASSUME NEW d \in Document
          PROVE  /\ [d EXCEPT !.status = "UNREGISTERED"] \in Document
                 /\ [d EXCEPT !.status = "UNREGISTERED"].status = "UNREGISTERED"
                 /\ [d EXCEPT !.status = "UNREGISTERED"].token = d.token
                 /\ [d EXCEPT !.status = "UNREGISTERED"].localToken = d.localToken
      BY DEF Document
    <3> QED BY <2>1, <3>1
  <2>3. /\ endpoints' = [endpoints EXCEPT ![h.to] = doc]
        /\ client' = Partners!Handled(client, h.n) /\ apart' = TRUE
        /\ severed' = (severed \/ endpoints[h.to] # h.base)
    BY <1>1, <1>2, <1>7, <2>2
  <2>4. severed' \in BOOLEAN /\ tokens' \in Nat
    BY <1>1, <1>3, <2>3 DEF PartnersTypeOK
  <2>5. PartnersTypeOK' /\ Numbered' /\ Linked' /\ Heals' /\ ClientsKept(h.n)
    BY <1>1, <1>4, <1>5, <1>7, <2>2, <2>3, <2>4, HandlerSaves
  <2>6. ~severed' => Whole'
    <3> SUFFICES ASSUME ~severed, endpoints[h.to] = h.base, Whole PROVE Whole'
      BY <2>3 DEF PartnersInv
    <3>1. h.copy = h.base
      BY <1>1 DEF PartnersInv, Linked
    <3>2. \A p \in Partners!Parties :
            /\ endpoints'[p].token = endpoints[p].token /\ endpoints'[p].localToken = endpoints[p].localToken
            /\ endpoints'[p].status # "DELETED"
      BY <1>2, <1>3, <2>2, <2>3, <3>1 DEF PartnersTypeOK, Whole
    <3>3. ASSUME NEW p \in Partners!Parties, Granted(p)'
          PROVE  Granted(p) /\ client'[p].kind = client[p].kind /\ client'[p].base = client[p].base
      <4>1. /\ client[p].st = "wait" /\ client[p].kind # "delete"
            /\ client'[p].n = client[p].n /\ client'[p].kind = client[p].kind /\ client'[p].base = client[p].base
        BY <2>5, <3>3 DEF ClientsKept, Granted, Busy
      <4>2. client[p].n # h.n
        BY <1>1, <4>1 DEF PartnersInv, Linked
      <4> QED BY <1>4, <1>5, <1>7, <3>3, <4>1, <4>2 DEF Granted
    <3>4. \A p \in Partners!Parties : Busy(p)' => Busy(p) /\ client'[p].base = client[p].base
      BY <2>5 DEF ClientsKept, Busy
    <3> QED BY <1>1, <3>2, <3>3, <3>4 DEF Whole
  <2> QED BY <2>5, <2>6 DEF PartnersInv
<1> QED BY <1>6, <1>7

LEMMA HandleUpdateCreateStep ==
  ASSUME PartnersInv, Partners!HandleUpdateCreateCredentials
  PROVE  PartnersInv'
<1>1. PICK h \in partnerHandlers :
        /\ h.st = "called" /\ tokens' = tokens + 1
        /\ endpoints' = [endpoints EXCEPT ![h.to] =
                           [h.copy EXCEPT !.localToken = tokens + 1, !.status = "REGISTERED"]]
        /\ partnerHandlers' = partnerHandlers \ {h}
        /\ Partners!Answer(h, TRUE,
             Partners!RespCredential([h.copy EXCEPT !.localToken = tokens + 1, !.status = "REGISTERED"]))
        /\ client' = Partners!Handled(client, h.n) /\ apart' = TRUE
        /\ severed' = (severed \/ endpoints[h.to] # h.base \/ Partners!Crossed(h))
        /\ UNCHANGED <<requests, form, commands>>
  BY DEF Partners!HandleUpdateCreateCredentials, Partners!SaveOcpiEndpoint
<1>2. PICK r \in Handler : r = h
  BY DEF PartnersInv, PartnersTypeOK
<1>3. /\ PartnersTypeOK /\ tokens \in Nat /\ h.copy.token = h.credential /\ h.kind # "delete"
      /\ h.to \in Partners!Parties
  BY <1>1, <1>2 DEF PartnersInv, PartnersTypeOK, Linked, Handler
<1>4. PICK t \in Nat : t = tokens + 1
  BY <1>3
<1>5. PICK doc \in Document :
        /\ doc = [r.copy EXCEPT !.localToken = t, !.status = "REGISTERED"]
        /\ doc.status = "REGISTERED" /\ doc.token = r.copy.token /\ doc.localToken = t
  <2>1. ASSUME NEW d \in Document
        PROVE  /\ [d EXCEPT !.localToken = t, !.status = "REGISTERED"] \in Document
               /\ [d EXCEPT !.localToken = t, !.status = "REGISTERED"].status = "REGISTERED"
               /\ [d EXCEPT !.localToken = t, !.status = "REGISTERED"].token = d.token
               /\ [d EXCEPT !.localToken = t, !.status = "REGISTERED"].localToken = t
    BY DEF Document
  <2>2. r.copy \in Document
    BY DEF Handler
  <2> QED BY <2>1, <2>2
<1> DEFINE a == [to |-> Partners!Other(h.to), n |-> h.n, ok |-> TRUE, token |-> t]
<1>6. a \in Reply /\ a.n = h.n /\ a.ok /\ a.token = t
  BY <1>2, TwoParties DEF Handler, Reply
<1>7. endpoints' = [endpoints EXCEPT ![h.to] = doc] /\ partnerAnswers' = partnerAnswers \cup {a}
  BY <1>1, <1>2, <1>4, <1>5 DEF Partners!Answer, Partners!RespCredential
<1> HIDE DEF a
<1>8. severed' \in BOOLEAN /\ tokens' = t
  BY <1>1, <1>3, <1>4 DEF PartnersTypeOK
<1>9. PartnersTypeOK' /\ Numbered' /\ Linked' /\ Heals' /\ ClientsKept(h.n)
  <2>1. /\ endpoints' = [endpoints EXCEPT ![h.to] = doc]
        /\ partnerHandlers' = partnerHandlers \ {h} /\ partnerAnswers' = partnerAnswers \cup {a}
        /\ client' = Partners!Handled(client, h.n) /\ apart' = TRUE /\ severed' \in BOOLEAN
        /\ UNCHANGED <<requests, form, commands>>
    BY <1>1, <1>7, <1>8
  <2>2. tokens' \in Nat /\ a.n = h.n /\ a.ok
    BY <1>6, <1>8
  <2>3. IF h.kind = "delete" THEN doc.status = "UNREGISTERED"
        ELSE doc.status = "REGISTERED" /\ doc.token = h.credential /\ doc.localToken = a.token
    BY <1>2, <1>3, <1>5, <1>6
  <2> QED BY <1>6, <2>1, <2>2, <2>3, HandlerSaves
<1>10. ~severed' => Whole'
  <2> SUFFICES ASSUME ~severed, ~Partners!Crossed(h), Whole PROVE Whole'
    BY <1>1 DEF PartnersInv
  <2>1. /\ endpoints'[h.to] = doc
        /\ \A p \in Partners!Parties : p # h.to => endpoints'[p] = endpoints[p]
    BY <1>3, <1>7 DEF PartnersTypeOK
  <2>2. \A p \in Partners!Parties : endpoints[p].localToken \in Nat
    BY <1>3 DEF PartnersTypeOK, Document
  <2>3. \A p \in Partners!Parties : Busy(p)' =>
          /\ Busy(p) /\ client'[p].base = client[p].base
          /\ client[p].base.localToken <= tokens /\ client[p].base.localToken \in Nat
    <3> SUFFICES ASSUME NEW p \in Partners!Parties, Busy(p)'
                 PROVE  /\ Busy(p) /\ client'[p].base = client[p].base
                        /\ client[p].base.localToken <= tokens /\ client[p].base.localToken \in Nat
      OBVIOUS
    <3>1. Busy(p)
      BY <1>9 DEF ClientsKept, Busy
    <3>2. client[p].base \in Document
      BY <1>3, <3>1, ClientShape DEF Command
    <3> QED BY <1>9, <3>1, <3>2 DEF ClientsKept, Whole, Document
  <2>4. \A p \in Partners!Parties :
          /\ endpoints'[p].status # "DELETED"
          /\ endpoints'[p].localToken <= tokens'
          /\ Busy(p)' => client'[p].base.localToken <= tokens'
    <3> SUFFICES ASSUME NEW p \in Partners!Parties
                 PROVE  /\ endpoints'[p].status # "DELETED"
                        /\ endpoints'[p].localToken <= t
                        /\ Busy(p)' => client'[p].base.localToken <= t
      BY <1>8
    <3>1. endpoints'[p].status # "DELETED"
      BY <1>5, <2>1 DEF Whole
    <3>2. Busy(p)' => client'[p].base.localToken <= t
      BY <1>3, <1>4, <2>3
    <3>3. endpoints'[p].localToken <= t
      <4>1. CASE p = h.to
        <5>1. endpoints'[p].localToken = t
          BY <1>5, <2>1, <4>1
        <5> QED BY <5>1
      <4>2. CASE p # h.to
        <5>1. endpoints'[p].localToken = endpoints[p].localToken /\ endpoints[p].localToken <= tokens
          BY <2>1, <4>2 DEF Whole
        <5> QED BY <1>3, <1>4, <2>2, <5>1
      <4> QED BY <4>1, <4>2
    <3> QED BY <3>1, <3>2, <3>3
  <2>5. h.kind = "post"
    BY <1>1 DEF Whole
  <2>6. ASSUME NEW p \in Partners!Parties, Granted(p)'
        PROVE  client'[p].kind = "post" /\ (p = h.to => Granted(p)) /\ Busy(p)'
    <3>1. /\ client[p].st = "wait" /\ client[p].kind # "delete" /\ client'[p].st = "wait"
          /\ client'[p].n = client[p].n /\ client'[p].kind = client[p].kind
      BY <1>9, <2>6 DEF ClientsKept, Granted, Busy
    <3>2. CASE client[p].n = h.n
      BY <2>5, <3>1, <3>2 DEF PartnersInv, Linked, Busy
    <3>3. CASE client[p].n # h.n
      <4>1. Granted(p)
        BY <1>6, <1>7, <2>6, <3>1, <3>3 DEF Granted
      <4> QED BY <3>1, <4>1 DEF Whole, Busy
    <3> QED BY <3>2, <3>3
  <2>7. \A m \in requests' \cup partnerHandlers' : m.kind = "put" =>
          /\ m.credential <= tokens'
          /\ \A p \in Partners!Parties : endpoints'[p].localToken # m.credential
    <3>1. \A m \in requests \cup partnerHandlers : m.credential \in Nat
      BY <1>3 DEF PartnersTypeOK, Request, Handler
    <3> QED BY <1>1, <1>3, <1>4, <1>5, <1>8, <2>1, <3>1 DEF Whole
  <2>8. \A g \in partnerHandlers' : g.st = "called" =>
          /\ g.kind = "post"
          /\ \A p \in Partners!Parties : p # g.to => endpoints'[p].localToken = g.credential
    <3>1. \A g \in partnerHandlers : g.st = "called" => g.to = h.to
      BY DEF Partners!Crossed
    <3> QED BY <1>1, <2>1, <3>1 DEF Whole
  <2>9. \A p \in Partners!Parties : p # h.to => doc.token = endpoints'[p].localToken
    BY <1>1, <1>2, <1>3, <1>5, <2>1 DEF Whole
  <2>10. \A p \in Partners!Parties :
           Granted(p)' /\ client'[p].base.localToken = endpoints'[p].localToken => p # h.to
    <3>1. \A p \in Partners!Parties : Busy(p)' => client'[p].base.localToken # t
      BY <1>3, <1>4, <2>3
    <3> QED BY <1>5, <2>1, <2>6, <3>1
  <2>11. \A p \in Partners!Parties, q \in Partners!Parties :
           Granted(p)' /\ client'[p].base.localToken = endpoints'[p].localToken /\ q # p =>
             endpoints'[q].token = endpoints'[p].localToken
    BY <1>3, <2>1, <2>9, <2>10, TwoParties
  <2>12. \A p \in Partners!Parties, q \in Partners!Parties :
           /\ Granted(p)' /\ client'[p].base.localToken = endpoints'[p].localToken
           /\ Granted(q)' /\ client'[q].base.localToken = endpoints'[q].localToken
           => p = q
    BY <1>3, <2>10, TwoParties
  <2>13. \A q \in Partners!Parties : q # h.to => endpoints'[h.to].token = endpoints'[q].localToken
    BY <2>1, <2>9
  <2>14. \A p \in Partners!Parties : Granted(p)' => client'[p].kind = "post"
    BY <2>6
  <2> QED BY <1>3, <2>4, <2>14, <2>7, <2>8, <2>11, <2>12, <2>13 DEF Whole
<1> QED BY <1>9, <1>10 DEF PartnersInv

LEMMA ReceiveAnswerStep ==
  ASSUME PartnersInv, NEW p \in Partners!Parties, Partners!ReceiveAnswer(p)
  PROVE  PartnersInv'
<1> DEFINE stale == endpoints[p] # client[p].base
<1>1. PICK a \in partnerAnswers :
        /\ client[p].st = "wait" /\ a.n = client[p].n
        /\ partnerAnswers' = partnerAnswers \ {a}
        /\ UNCHANGED <<requests, partnerHandlers, form, commands, tokens>>
        /\ IF a.ok
           THEN /\ endpoints' = [endpoints EXCEPT ![p] = Partners!Stored(client[p], a)]
                /\ client' = [Partners!Handled(client, MaxCommands) EXCEPT ![p] = Partners!Idle]
                /\ apart' = (stale \/ ~client[p].clean)
                /\ severed' = (severed \/ stale)
           ELSE /\ client' = [client EXCEPT ![p] = Partners!Idle]
                /\ UNCHANGED <<endpoints, apart, severed>>
  BY DEF Partners!ReceiveAnswer, Partners!AnswerOf, Partners!SaveOcpiEndpoint
<1>2. PartnersTypeOK /\ commands \in Nat /\ commands <= MaxCommands
  BY DEF PartnersInv, PartnersTypeOK, Numbered
<1>3. CASE ~a.ok
  <2>1. Shrunk
    BY <1>1, <1>2, <1>3 DEF Shrunk, PartnersTypeOK
  <2> QED BY <2>1, ShrunkKeeps
<1>4. CASE a.ok
  <2>1. PICK c \in Command : c = client[p] /\ c.st = "wait"
    BY <1>1, <1>2, ClientShape DEF Busy
  <2>2. PICK d \in Document : d = c.copy
    BY DEF Command
  <2>3. PICK r \in Reply : r = a
    BY <1>2 DEF PartnersTypeOK
  <2>4. PICK doc \in Document :
          /\ doc = Partners!Stored(c, a)
          /\ c.kind = "delete" => doc.status = "UNREGISTERED" /\ doc.token = d.token
          /\ c.kind # "delete" => doc.status = "REGISTERED" /\ doc.token = a.token
          /\ doc.localToken = d.localToken
    <3>1. CASE c.kind = "delete"
      <4>1. [d EXCEPT !.status = "UNREGISTERED", !.services = FALSE] \in Document
            /\ [d EXCEPT !.status = "UNREGISTERED", !.services = FALSE].status = "UNREGISTERED"
            /\ [d EXCEPT !.status = "UNREGISTERED", !.services = FALSE].token = d.token
            /\ [d EXCEPT !.status = "UNREGISTERED", !.services = FALSE].localToken = d.localToken
        BY DEF Document
      <4> QED BY <2>2, <3>1, <4>1 DEF Partners!Stored
    <3>2. CASE c.kind # "delete"
      <4>1. PICK t \in Nat : t = a.token
        BY <2>3 DEF Reply
      <4>2. [d EXCEPT !.status = "REGISTERED", !.token = t] \in Document
            /\ [d EXCEPT !.status = "REGISTERED", !.token = t].status = "REGISTERED"
            /\ [d EXCEPT !.status = "REGISTERED", !.token = t].token = t
            /\ [d EXCEPT !.status = "REGISTERED", !.token = t].localToken = d.localToken
        BY DEF Document
      <4> QED BY <2>2, <3>2, <4>1, <4>2 DEF Partners!Stored
    <3> QED BY <3>1, <3>2
  <2>5. endpoints' = [endpoints EXCEPT ![p] = doc]
    BY <1>1, <1>4, <2>1, <2>4
  <2>6. endpoints'[p] = doc /\ \A q \in Partners!Parties : q # p => endpoints'[q] = endpoints[q]
    BY <1>2, <2>5 DEF PartnersTypeOK
  <2>7. /\ client' \in [Partners!Parties -> Command \cup {Partners!Idle}]
        /\ client'[p] = Partners!Idle
        /\ \A q \in Partners!Parties : q # p =>
             /\ client'[q].st = client[q].st
             /\ Busy(q) => /\ client'[q].n = client[q].n
                           /\ client'[q].kind = client[q].kind
                           /\ client'[q].base = client[q].base
                           /\ client'[q].copy = client[q].copy
                           /\ ~client'[q].clean
    <3> DEFINE others == Partners!Handled(client, MaxCommands)
    <3>1. \A q \in Partners!Parties : Busy(q) => client[q].n # MaxCommands
      <4>1. \A q \in Partners!Parties : Busy(q) => client[q].n \in Nat
        BY <1>2, ClientShape DEF Command
      <4> QED BY <1>2, <4>1, MaxCommandsAssumption DEF PartnersInv, Numbered
    <3>2. ASSUME NEW q \in Partners!Parties, Busy(q)
          PROVE  /\ others[q] \in Command /\ others[q].st = client[q].st
                 /\ others[q].n = client[q].n /\ others[q].kind = client[q].kind
                 /\ others[q].base = client[q].base /\ others[q].copy = client[q].copy
                 /\ ~others[q].clean
      <4>1. PICK e \in Command : e = client[q]
        BY <1>2, <3>2, ClientShape
      <4>2. others[q] = [e EXCEPT !.clean = FALSE]
        BY <3>1, <3>2, <4>1 DEF Partners!Handled, Busy
      <4>3. /\ [e EXCEPT !.clean = FALSE] \in Command
            /\ [e EXCEPT !.clean = FALSE].st = e.st /\ [e EXCEPT !.clean = FALSE].n = e.n
            /\ [e EXCEPT !.clean = FALSE].kind = e.kind /\ [e EXCEPT !.clean = FALSE].base = e.base
            /\ [e EXCEPT !.clean = FALSE].copy = e.copy /\ ~[e EXCEPT !.clean = FALSE].clean
        BY DEF Command
      <4> QED BY <4>1, <4>2, <4>3
    <3>3. ASSUME NEW q \in Partners!Parties, ~Busy(q) PROVE others[q] = Partners!Idle /\ client[q] = Partners!Idle
      BY <1>2, <3>3, ClientShape DEF Partners!Handled, Busy
    <3>4. others = [q \in Partners!Parties |-> others[q]]
      BY DEF Partners!Handled
    <3>5. client' = [others EXCEPT ![p] = Partners!Idle]
      BY <1>1, <1>4
    <3> HIDE DEF others
    <3>6. others \in [Partners!Parties -> Command \cup {Partners!Idle}]
      BY <3>2, <3>3, <3>4
    <3>7. client'[p] = Partners!Idle /\ \A q \in Partners!Parties : q # p => client'[q] = others[q]
      BY <3>5, <3>6
    <3>8. client' \in [Partners!Parties -> Command \cup {Partners!Idle}]
      BY <3>5, <3>6
    <3> QED BY <3>2, <3>3, <3>7, <3>8
  <2>8. PartnersTypeOK'
    BY <1>1, <1>2, <1>4, <2>5, <2>7 DEF PartnersTypeOK
  <2>9. Numbered' /\ Linked'
    BY <1>1, <1>2, <2>7, KeptNumbers
  <2>10. \A q \in Partners!Parties : Busy(q)' =>
           q # p /\ Busy(q) /\ client'[q].n = client[q].n /\ client'[q].kind = client[q].kind
           /\ client'[q].base = client[q].base /\ client'[q].st = client[q].st /\ ~client'[q].clean
    BY <2>7 DEF Busy, Partners!Idle
  <2>11. Heals'
    <3>1. \A q \in Partners!Parties : Accepted(q)'
      BY <2>10 DEF Accepted, Busy
    <3>2. ASSUME ~apart'
          PROVE  Partners!RegistrationHeals' /\ \A q \in Partners!Parties : endpoints'[q].status # "DELETED"
      <4> DEFINE o == Partners!Other(p)
      <4>1. o \in Partners!Parties /\ o # p /\ \A q \in Partners!Parties : q = p \/ q = o
        BY TwoParties
      <4>2. client[p].clean
        BY <1>1, <1>4, <3>2
      <4>3. IF c.kind = "delete" THEN endpoints[o].status = "UNREGISTERED"
            ELSE /\ endpoints[o].status = "REGISTERED"
                 /\ endpoints[o].token = d.localToken
                 /\ endpoints[o].localToken = a.token
        BY <1>1, <1>4, <2>1, <2>2, <4>1, <4>2 DEF PartnersInv, Heals, Accepted
      <4>4. endpoints'[p] = doc /\ endpoints'[o] = endpoints[o]
        BY <2>6, <4>1
      <4>5. Partners!Other(o) = p
        BY <4>1, TwoParties
      <4> HIDE DEF o
      <4>6. endpoints'[p].status = endpoints'[o].status /\ endpoints'[p].status \in {"REGISTERED", "UNREGISTERED"}
        BY <2>4, <4>3, <4>4
      <4>7. endpoints'[p].status = "REGISTERED" =>
              endpoints'[p].token = endpoints'[o].localToken /\ endpoints'[o].token = endpoints'[p].localToken
        BY <2>4, <4>3, <4>4
      <4>8. /\ Partners!CanCall(p)' <=> endpoints'[o].status # "DELETED" /\ endpoints'[o].localToken = endpoints'[p].token
            /\ Partners!CanCall(o)' <=> endpoints'[p].status # "DELETED" /\ endpoints'[p].localToken = endpoints'[o].token
        BY <4>5 DEF o, Partners!CanCall, Partners!Authenticated
      <4> QED BY <4>1, <4>6, <4>7, <4>8 DEF Partners!RegistrationHeals
    <3> QED BY <3>1, <3>2 DEF Heals
  <2>12. ~severed' => Whole'
    <3> SUFFICES ASSUME ~severed, ~stale, Whole PROVE Whole'
      BY <1>1, <1>4 DEF PartnersInv
    <3>1. c.kind # "delete" => Granted(p)
      BY <1>1, <1>4, <2>1 DEF Granted
    <3>2. c.kind # "put" /\ endpoints[p] = c.base
      BY <2>1, <3>1 DEF Whole
    <3>3. d.localToken = endpoints[p].localToken /\ (c.kind = "delete" => d.token = endpoints[p].token)
      BY <2>1, <2>2, <3>2 DEF PartnersInv, Linked, Busy
    <3>4. /\ \A q \in Partners!Parties : endpoints'[q].localToken = endpoints[q].localToken
          /\ \A q \in Partners!Parties : q # p => endpoints'[q].token = endpoints[q].token
          /\ c.kind = "delete" => endpoints'[p].token = endpoints[p].token
          /\ \A q \in Partners!Parties : endpoints'[q].status # "DELETED"
      BY <2>4, <2>6, <3>3 DEF Whole
    <3>5. \A q \in Partners!Parties : Granted(q)' => Granted(q) /\ q # p /\ Busy(q)'
      BY <1>1, <2>10 DEF Granted, Busy
    <3>6. ASSUME NEW q \in Partners!Parties, NEW s \in Partners!Parties,
                 Granted(q)', client'[q].base.localToken = endpoints'[q].localToken, s # q
          PROVE  endpoints'[s].token = endpoints'[q].localToken
      <4>1. Granted(q) /\ q # p /\ client[q].base.localToken = endpoints[q].localToken
        BY <2>10, <3>4, <3>5, <3>6
      <4>2. endpoints[s].token = endpoints[q].localToken
        BY <3>6, <4>1 DEF Whole
      <4>3. CASE c.kind = "delete"
        BY <3>4, <4>2, <4>3
      <4>4. CASE c.kind # "delete"
        BY <2>1, <3>1, <3>2, <4>1, <4>4 DEF Whole
      <4> QED BY <4>3, <4>4
    <3>7. \E q \in Partners!Parties : \A s \in Partners!Parties :
            s # q => endpoints'[q].token = endpoints'[s].localToken
      <4>1. CASE c.kind = "delete"
        BY <3>4, <4>1 DEF Whole
      <4>2. CASE c.kind # "delete"
        <5>1. \A q \in Partners!Parties : q # p => endpoints[q].token = endpoints[p].localToken
          BY <2>1, <3>1, <3>2, <4>2 DEF Whole
        <5>2. PICK o \in Partners!Parties : o # p /\ \A q \in Partners!Parties : q # o => q = p
          BY TwoParties
        <5>3. \A s \in Partners!Parties : s # o => endpoints'[o].token = endpoints'[s].localToken
          BY <3>4, <5>1, <5>2
        <5> QED BY <5>3
      <4> QED BY <4>1, <4>2
    <3>8. \A q \in Partners!Parties :
            /\ endpoints'[q].localToken <= tokens'
            /\ Busy(q)' => client'[q].base.localToken <= tokens'
            /\ Granted(q)' => client'[q].kind = "post"
      BY <1>1, <2>10, <3>4, <3>5 DEF Whole
    <3>9. \A q \in Partners!Parties, s \in Partners!Parties :
           /\ Granted(q)' /\ client'[q].base.localToken = endpoints'[q].localToken
           /\ Granted(s)' /\ client'[s].base.localToken = endpoints'[s].localToken
           => q = s
      BY <2>10, <3>4, <3>5 DEF Whole
    <3>10. \A m \in requests' \cup partnerHandlers' : m.kind = "put" =>
             /\ m.credential <= tokens'
             /\ \A q \in Partners!Parties : endpoints'[q].localToken # m.credential
      BY <1>1, <3>4 DEF Whole
    <3>11. \A h \in partnerHandlers' : h.st = "called" =>
             /\ h.kind = "post"
             /\ \A q \in Partners!Parties : q # h.to => endpoints'[q].localToken = h.credential
      BY <1>1, <3>4 DEF Whole
    <3> QED BY <3>4, <3>6, <3>7, <3>8, <3>9, <3>10, <3>11 DEF Whole
  <2> QED BY <2>8, <2>9, <2>11, <2>12 DEF PartnersInv
<1> QED BY <1>3, <1>4

-----------------------------------------------------------------------------
(* The dashboard. *)

LEMMA HandSaveStep ==
  ASSUME PartnersInv, NEW p \in Partners!Parties,
         \/ Partners!HandleUpdateOcpiEndpoint(p)
         \/ Partners!HandleDeleteOcpiEndpoint(p)
         \/ Partners!HandleCreateOcpiEndpoint(p)
  PROVE  PartnersInv'
<1>1. /\ PartnersTypeOK /\ commands \in Nat /\ commands <= MaxCommands /\ tokens \in Nat
      /\ endpoints[p] \in Document
  BY DEF PartnersInv, PartnersTypeOK, Numbered
<1>2. /\ client' = Partners!Handled(client, MaxCommands)
      /\ UNCHANGED <<requests, partnerHandlers, partnerAnswers>>
      /\ commands' \in Nat /\ commands <= commands' /\ commands' <= MaxCommands
      /\ tokens' \in Nat
  <2>1. CASE Partners!HandleUpdateOcpiEndpoint(p)
    BY <1>1, <2>1 DEF Partners!HandleUpdateOcpiEndpoint
  <2>2. CASE Partners!HandleDeleteOcpiEndpoint(p)
    BY <1>1, <2>2, MaxCommandsAssumption DEF Partners!HandleDeleteOcpiEndpoint
  <2>3. CASE Partners!HandleCreateOcpiEndpoint(p)
    BY <1>1, <2>3 DEF Partners!HandleCreateOcpiEndpoint
  <2> QED BY <2>1, <2>2, <2>3
<1>3. apart' = TRUE /\ severed' = TRUE
  <2>1. CASE Partners!HandleUpdateOcpiEndpoint(p) \/ Partners!HandleDeleteOcpiEndpoint(p)
    BY <2>1 DEF Partners!HandleUpdateOcpiEndpoint, Partners!HandleDeleteOcpiEndpoint
  <2>2. CASE Partners!HandleCreateOcpiEndpoint(p)
    <3>1. endpoints[p].status = "DELETED" /\ apart' = apart /\ severed' = severed
      BY <2>2 DEF Partners!HandleCreateOcpiEndpoint
    <3>2. apart
      BY <3>1 DEF PartnersInv, Heals
    <3>3. severed
      BY <3>1 DEF PartnersInv, Whole
    <3> QED BY <1>1, <3>1, <3>2, <3>3 DEF PartnersTypeOK
  <2> QED BY <2>1, <2>2
<1>4. endpoints' \in [Partners!Parties -> Document]
  <2>1. \A q \in Partners!Parties : endpoints[q].localToken \in Nat
    BY <1>1 DEF PartnersTypeOK, Document
  <2>2. ASSUME NEW doc \in Document, endpoints' = [endpoints EXCEPT ![p] = doc]
        PROVE  endpoints' \in [Partners!Parties -> Document]
    BY <1>1, <2>2 DEF PartnersTypeOK
  <2>3. CASE Partners!HandleUpdateOcpiEndpoint(p)
    <3>1. PICK token \in {form[p].doc.token, endpoints[Partners!Other(p)].localToken} :
            endpoints' = [endpoints EXCEPT ![p] =
                            [endpoints[p] EXCEPT !.token = token, !.localToken = form[p].doc.localToken]]
      BY <2>3 DEF Partners!HandleUpdateOcpiEndpoint, Partners!SaveOcpiEndpoint
    <3>2. form[p] \in Loaded
      BY <1>1, <2>3 DEF PartnersTypeOK, Partners!HandleUpdateOcpiEndpoint, Partners!Idle
    <3>3. form[p].doc.token \in Nat /\ form[p].doc.localToken \in Nat /\ token \in Nat
      BY <2>1, <3>1, <3>2, TwoParties DEF Loaded, Document
    <3>4. ASSUME NEW d \in Document, NEW t \in Nat, NEW l \in Nat
          PROVE  [d EXCEPT !.token = t, !.localToken = l] \in Document
      BY DEF Document
    <3> QED BY <1>1, <2>2, <3>1, <3>3, <3>4
  <2>4. CASE Partners!HandleDeleteOcpiEndpoint(p)
    <3>1. ASSUME NEW d \in Document PROVE [d EXCEPT !.status = "DELETED"] \in Document
      BY DEF Document
    <3> QED BY <1>1, <2>2, <2>4, <3>1 DEF Partners!HandleDeleteOcpiEndpoint, Partners!SaveOcpiEndpoint
  <2>5. CASE Partners!HandleCreateOcpiEndpoint(p)
    <3>1. Partners!Endpoint("NEW", endpoints[Partners!Other(p)].localToken, tokens + 1, FALSE) \in Document
      BY <1>1, <2>1, TwoParties DEF Partners!Endpoint, Document
    <3> QED BY <2>2, <2>5, <3>1 DEF Partners!HandleCreateOcpiEndpoint, Partners!SaveOcpiEndpoint
  <2> QED BY <2>3, <2>4, <2>5
<1>5. form' \in [Partners!Parties -> Loaded \cup {Partners!Idle}]
  BY <1>1 DEF PartnersTypeOK, Partners!HandleUpdateOcpiEndpoint, Partners!HandleDeleteOcpiEndpoint,
              Partners!HandleCreateOcpiEndpoint
<1>6. ClientsKept(MaxCommands)
  BY <1>1, <1>2, HandledKeeps
<1>7. Numbered' /\ Linked'
  BY <1>2, <1>6, KeptNumbers DEF ClientsKept
<1>8. apart' \in BOOLEAN /\ severed' \in BOOLEAN
  BY <1>1 DEF PartnersTypeOK, Partners!HandleUpdateOcpiEndpoint, Partners!HandleDeleteOcpiEndpoint,
              Partners!HandleCreateOcpiEndpoint
<1>9. PartnersTypeOK'
  BY <1>1, <1>2, <1>4, <1>5, <1>6, <1>8 DEF PartnersTypeOK, ClientsKept
<1>10. \A q \in Partners!Parties : client'[q].st = "wait" => ~client'[q].clean
  <2>1. \A q \in Partners!Parties : Busy(q) => client[q].n \in Nat
    BY <1>1, ClientShape DEF Command
  <2>2. \A q \in Partners!Parties : Busy(q) => client[q].n # MaxCommands
    BY <1>1, <2>1, MaxCommandsAssumption DEF PartnersInv, Numbered
  <2> QED BY <1>6, <2>2 DEF ClientsKept, Busy
<1>11. Heals'
  BY <1>3, <1>10 DEF Heals, Accepted
<1> QED BY <1>3, <1>7, <1>9, <1>11 DEF PartnersInv

-----------------------------------------------------------------------------
LEMMA PartnersInvariant == MCSpec => []PartnersInv
<1>1. MCInit => PartnersInv
  <2> SUFFICES ASSUME Partners!Init PROVE PartnersInv
    BY DEF MCInit
  <2> USE DEF Partners!Parties
  <2>1. PICK told \in (SUBSET Partners!Parties) \ {{}} :
          endpoints = [p \in Partners!Parties |->
                         Partners!Endpoint("NEW", IF p \in told THEN IF p = "cpo" THEN 2 ELSE 1 ELSE 0,
                                           IF p = "cpo" THEN 1 ELSE 2, FALSE)]
    BY DEF Partners!Init
  <2>2. /\ client = [p \in Partners!Parties |-> Partners!Idle]
        /\ form = [p \in Partners!Parties |-> Partners!Idle]
        /\ requests = {} /\ partnerHandlers = {} /\ partnerAnswers = {}
        /\ commands = 0 /\ tokens = 2 /\ ~apart /\ ~severed /\ apart \in BOOLEAN /\ severed \in BOOLEAN
    BY DEF Partners!Init
  <2>3. \A p \in Partners!Parties :
          /\ endpoints[p].status = "NEW" /\ endpoints[p].localToken = IF p = "cpo" THEN 1 ELSE 2
          /\ endpoints[p].token = IF p \in told THEN IF p = "cpo" THEN 2 ELSE 1 ELSE 0
    BY <2>1 DEF Partners!Endpoint
  <2>4. \A p \in Partners!Parties : ~Busy(p) /\ client[p].st # "wait" /\ client[p].st # "check"
    BY <2>2 DEF Busy, Partners!Idle
  <2>5. PartnersTypeOK
    <3>1. endpoints \in [Partners!Parties -> Document]
      BY <2>1 DEF Partners!Endpoint, Document
    <3> QED BY <2>2, <3>1 DEF PartnersTypeOK
  <2>6. Numbered /\ Linked
    BY <2>2, <2>4, MaxCommandsAssumption DEF Numbered, Linked
  <2>7. Heals
    BY <2>2, <2>3, <2>4 DEF Heals, Accepted, Partners!RegistrationHeals
  <2>8. Whole
    BY <2>2, <2>3, <2>4 DEF Whole, Granted
  <2> QED BY <2>5, <2>6, <2>7, <2>8 DEF PartnersInv
<1>2. PartnersInv /\ [MCNext]_<<focus, oVars, statusVars, partnerVars>> => PartnersInv'
  <2> SUFFICES ASSUME PartnersInv, Partners!Next \/ UNCHANGED partnerVars PROVE PartnersInv'
    BY DEF MCNext
  <2>1. CASE Partners!Next
    <3>1. ASSUME NEW p \in Partners!Parties,
                 Partners!Register(p) \/ Partners!UpdateCredentials(p) \/ Partners!Unregister(p)
          PROVE  PartnersInv'
      BY <3>1, HandleCommandStep DEF Partners!Register, Partners!UpdateCredentials, Partners!Unregister, Kind
    <3> QED BY <2>1, <3>1, SendCredentialsStep, ReceiveAnswerStep, ReleaseStep, HandSaveStep, InitializeStep,
               HandleDeleteStep, CallBackStep, HandleUpdateCreateStep DEF Partners!Next
  <2>2. CASE UNCHANGED partnerVars
    <3>1. /\ UNCHANGED <<endpoints, client, requests, partnerHandlers, partnerAnswers>>
          /\ UNCHANGED <<form, commands, tokens, apart, severed>>
      BY <2>2 DEF partnerVars
    <3>2. commands \in Nat /\ commands <= MaxCommands
      BY DEF PartnersInv, PartnersTypeOK, Numbered
    <3>3. Shrunk
      BY <3>1, <3>2 DEF PartnersInv, PartnersTypeOK, Shrunk
    <3> QED BY <3>3, ShrunkKeeps
  <2> QED BY <2>1, <2>2
<1> QED BY <1>1, <1>2, PTL DEF MCSpec

\* A command that ends well leaves both partners in the same status, and
\* registered ones with each other's token; and as long as no old copy was
\* saved, no two registrations crossed and nobody edited an endpoint by hand,
\* one of them has a valid token of the other, whichever answers were lost
\* (register, unregister, handleUpdateCreateCredentials, handleDeleteCredentials):
\* for any number of commands.
THEOREM CredentialsAlwaysAgree == MCSpec => []CredentialsAgree
<1>1. PartnersInv => CredentialsAgree
  <2> SUFFICES ASSUME PartnersInv PROVE Partners!RegistrationHeals /\ Partners!OneSideCanCall
    BY DEF CredentialsAgree, Partners!CredentialsAgree
  <2>1. Partners!RegistrationHeals
    BY DEF PartnersInv, PartnersTypeOK, Heals, Partners!RegistrationHeals
  <2>2. Partners!OneSideCanCall
    <3> SUFFICES ASSUME Whole PROVE \E p \in Partners!Parties : Partners!CanCall(p)
      BY DEF PartnersInv, Partners!OneSideCanCall
    <3>1. PICK p \in Partners!Parties : \A q \in Partners!Parties : q # p => endpoints[p].token = endpoints[q].localToken
      BY DEF Whole
    <3>2. Partners!CanCall(p)
      BY <3>1, TwoParties DEF Whole, Partners!CanCall, Partners!Authenticated
    <3> QED BY <3>2
  <2> QED BY <2>1, <2>2
<1> QED BY <1>1, PartnersInvariant, PTL

-----------------------------------------------------------------------------
(***************************************************************************)
(* The statuses of the stations at the partner.                            *)
(***************************************************************************)

Result == [on : Nat, failed : SUBSET Statuses!Stations]
Notice == [station : Statuses!Stations, value : Nat]
Values == UNION {[S -> Nat] : S \in SUBSET Statuses!Stations}
Waiting == [st : {"read"}, kind : Statuses!Kinds, partial : {TRUE}, last : Result]
Push == [st : {"page", "push"}, kind : Statuses!Kinds, partial : BOOLEAN, last : Result \cup {{}}, from : Nat,
         todo : SUBSET Statuses!Stations, page : Nat \ {0}, values : Values, failed : SUBSET Statuses!Stations,
         alone : BOOLEAN]

StatusesTypeOK ==
  /\ clock \in Nat /\ clock >= 1
  /\ status \in [Statuses!Stations -> Nat] /\ noted \in [Statuses!Stations -> Nat]
  /\ partner = [s \in Statuses!Stations |-> partner[s]]
  /\ unsaved \subseteq Notice /\ direct \subseteq Notice
  /\ endpoint \in Result /\ endpoint.on <= clock
  /\ jobs \in [Jobs -> {Statuses!Idle} \cup Waiting \cup Push]
  /\ excused \subseteq Statuses!Stations

IsRead(j) == jobs[j].st = "read"
IsPush(j) == jobs[j].st \in {"page", "push"}
Unsaved(s) == \E u \in unsaved : u.station = s

\* No newer status than the one stored, or about to be stored, is on its way.
DirectsAreStored ==
  /\ \A u \in unsaved : u.value = status[u.station] + 1
  /\ \A d \in direct : \/ d.value <= status[d.station]
                       \/ Unsaved(d.station) /\ d.value <= status[d.station] + 1

\* The partner does not show the status of s, or what is stored is not the last one.
Stale(s) == partner[s] # {status[s]} \/ Unsaved(s)

\* The next push after a push with this result sends what is stale.
Covers(result) ==
  \A s \in Statuses!Stations \ excused : Stale(s) => s \in result.failed \/ noted[s] >= result.on

\* The push r has still to send s.
Ahead(r, s) ==
  /\ s \in r.todo
  /\ \/ r.st = "page" /\ \E i \in DOMAIN Pages : i >= r.page /\ s \in Pages[i]
     \/ r.st = "push" /\ (s \in DOMAIN r.values \/ \E i \in DOMAIN Pages : i > r.page /\ s \in Pages[i])

\* What a push that has had the partner for itself has done so far.
Progress(j) ==
  /\ \A s \in Statuses!Stations \ excused :
       Stale(s) => s \in jobs[j].failed \/ noted[s] >= jobs[j].from \/ Ahead(jobs[j], s)
  /\ jobs[j].st = "push" =>
       \A s \in DOMAIN jobs[j].values \ excused :
         (jobs[j].values[s] = status[s] /\ ~Unsaved(s)) \/ noted[s] >= jobs[j].from

Todo(r) == IF r.partial THEN r.last.failed \cup {s \in Statuses!Stations : noted[s] >= r.last.on}
           ELSE Statuses!Stations

JobsInv ==
  /\ \A j \in Jobs : IsRead(j) => jobs[j].last.on <= clock
  /\ \A j \in Jobs : IsPush(j) =>
       /\ jobs[j].from <= clock
       /\ jobs[j].partial => jobs[j].last \in Result
       /\ jobs[j].todo \subseteq Todo(jobs[j])
       /\ jobs[j].st = "push" => jobs[j].kind.name # "data"
       /\ jobs[j].alone =>
            /\ \A o \in Jobs : IsPush(o) => o = j
            /\ endpoint.on <= jobs[j].from
            /\ \A o \in Jobs : IsRead(o) => jobs[o].last.on <= jobs[j].from
            /\ jobs[j].kind.name # "data" => Progress(j)

\* No two pushes are running at the same time.
Undisturbed == \A j \in Jobs : IsPush(j) => jobs[j].alone

AllCovered == Covers(endpoint) /\ \A j \in Jobs : IsRead(j) => Covers(jobs[j].last)

StatusesInv == StatusesTypeOK /\ DirectsAreStored /\ JobsInv /\ (Undisturbed => AllCovered)

LEMMA JobShape ==
  ASSUME StatusesTypeOK, NEW j \in Jobs
  PROVE  /\ jobs[j].st \in {"idle", "read", "page", "push"}
         /\ IsRead(j) => jobs[j] \in Waiting
         /\ IsPush(j) => jobs[j] \in Push
         /\ Statuses!Running(j) <=> IsPush(j)
         /\ ~(IsRead(j) /\ IsPush(j))
<1>1. jobs[j] = Statuses!Idle \/ jobs[j] \in Waiting \/ jobs[j] \in Push
  BY DEF StatusesTypeOK
<1>2. CASE jobs[j] = Statuses!Idle
  BY <1>2 DEF Statuses!Idle, IsRead, IsPush, Statuses!Running
<1>3. CASE jobs[j] \in Waiting
  <2>1. jobs[j].st = "read"
    BY <1>3 DEF Waiting
  <2> QED BY <1>3, <2>1 DEF IsRead, IsPush, Statuses!Running
<1>4. CASE jobs[j] \in Push
  <2>1. jobs[j].st \in {"page", "push"}
    BY <1>4 DEF Push
  <2> QED BY <1>4, <2>1 DEF IsRead, IsPush, Statuses!Running
<1> QED BY <1>1, <1>2, <1>3, <1>4

LEMMA ToProcessIsTodo == ASSUME NEW r PROVE Statuses!ToProcess(r) = Todo(r)
  BY DEF Statuses!ToProcess, Statuses!GetChargeBoxIDsWithNewStatusNotifications, Todo

-----------------------------------------------------------------------------
(* What happens beside the jobs. *)

\* The jobs are left alone, and nothing that is not excused becomes stale.
Beside ==
  /\ UNCHANGED <<jobs, endpoint, noted>>
  /\ clock <= clock' /\ excused \subseteq excused' /\ unsaved' \subseteq unsaved
  /\ \A s \in Statuses!Stations \ excused' : Stale(s)' => Stale(s)
  /\ \A s \in Statuses!Stations : status'[s] = status[s] \/ Unsaved(s)

LEMMA BesideKeeps ==
  ASSUME StatusesInv, Beside, StatusesTypeOK', DirectsAreStored'
  PROVE  StatusesInv'
<1>1. /\ \A j \in Jobs : IsPush(j)' <=> IsPush(j)
      /\ \A j \in Jobs : IsRead(j)' <=> IsRead(j)
      /\ \A s \in Statuses!Stations : Unsaved(s)' => Unsaved(s)
  BY DEF Beside, IsPush, IsRead, Unsaved
<1>2. Undisturbed' => AllCovered'
  BY <1>1 DEF StatusesInv, Beside, Undisturbed, AllCovered, Covers
<1>3. clock \in Nat /\ clock' \in Nat
  BY DEF StatusesInv, StatusesTypeOK
<1>4. ASSUME NEW j \in Jobs, IsPush(j), Progress(j) PROVE Progress(j)'
  <2>1. jobs[j] \in Push
    BY <1>4, JobShape DEF StatusesInv
  <2>2. \A s \in DOMAIN jobs[j].values : s \in Statuses!Stations
    BY <2>1 DEF Push, Values
  <2>3. \A s \in Statuses!Stations : Ahead(jobs[j], s)' <=> Ahead(jobs[j], s)
    BY DEF Beside, Ahead
  <2> QED BY <1>1, <1>4, <2>2, <2>3 DEF Beside, Progress, Ahead
<1>5. JobsInv'
  <2>1. \A j \in Jobs : IsRead(j) => jobs[j].last.on \in Nat
    BY JobShape DEF StatusesInv, Waiting, Result
  <2>2. \A j \in Jobs : IsPush(j) => jobs[j].from \in Nat
    BY JobShape DEF StatusesInv, Push
  <2>3. \A j \in Jobs : IsRead(j)' => jobs'[j].last.on <= clock'
    BY <1>1, <1>3, <2>1 DEF StatusesInv, JobsInv, Beside
  <2>4. \A j \in Jobs : IsPush(j)' => jobs'[j].from <= clock'
    BY <1>1, <1>3, <2>2 DEF StatusesInv, JobsInv, Beside
  <2>5. \A j \in Jobs : Todo(jobs[j])' = Todo(jobs[j])
    BY DEF Todo, Beside
  <2> QED BY <1>1, <1>4, <2>3, <2>4, <2>5 DEF StatusesInv, JobsInv, Beside
<1> QED BY <1>2, <1>5 DEF StatusesInv

LEMMA TickStep ==
  ASSUME StatusesInv, Statuses!Tick
  PROVE  StatusesInv'
<1>1. /\ clock' = clock + 1
      /\ UNCHANGED <<status, noted, unsaved, direct, partner, endpoint, jobs, excused>>
  BY DEF Statuses!Tick
<1>2. clock \in Nat /\ clock >= 1 /\ endpoint.on \in Nat /\ endpoint.on <= clock
  BY DEF StatusesInv, StatusesTypeOK, Result
<1>3. clock' \in Nat /\ clock' >= 1 /\ endpoint.on <= clock' /\ clock <= clock'
  BY <1>1, <1>2
<1>4. StatusesTypeOK'
  BY <1>1, <1>3 DEF StatusesInv, StatusesTypeOK
<1>5. DirectsAreStored'
  BY <1>1 DEF StatusesInv, DirectsAreStored, Unsaved
<1>6. Beside
  BY <1>1, <1>3 DEF Beside, Stale, Unsaved
<1> QED BY <1>4, <1>5, <1>6, BesideKeeps

LEMMA SaveChargingStationStep ==
  ASSUME StatusesInv, Statuses!SaveChargingStation
  PROVE  StatusesInv'
<1>1. PICK u \in unsaved :
        /\ status' = [status EXCEPT ![u.station] = u.value] /\ unsaved' = unsaved \ {u}
        /\ UNCHANGED <<clock, noted, direct, partner, endpoint, jobs, excused>>
  BY DEF Statuses!SaveChargingStation
<1>2. /\ u \in Notice /\ u.station \in Statuses!Stations /\ u.value \in Nat
      /\ status \in [Statuses!Stations -> Nat] /\ clock \in Nat
  BY DEF StatusesInv, StatusesTypeOK, Notice
<1>3. /\ status' \in [Statuses!Stations -> Nat] /\ status'[u.station] = u.value
      /\ \A s \in Statuses!Stations : s # u.station => status'[s] = status[s]
  BY <1>1, <1>2
<1>4. StatusesTypeOK'
  BY <1>1, <1>3 DEF StatusesInv, StatusesTypeOK
<1>5. u.value = status[u.station] + 1
  BY DEF StatusesInv, DirectsAreStored
<1>6. Beside
  <2>1. ASSUME NEW s \in Statuses!Stations, Stale(s)' PROVE Stale(s)
    <3>1. CASE s = u.station
      BY <3>1 DEF Stale, Unsaved
    <3>2. CASE s # u.station
      BY <1>1, <1>3, <2>1, <3>2 DEF Stale, Unsaved
    <3> QED BY <3>1, <3>2
  <2>2. \A s \in Statuses!Stations : status'[s] = status[s] \/ Unsaved(s)
    BY <1>3 DEF Unsaved
  <2> QED BY <1>1, <1>2, <2>1, <2>2 DEF Beside
<1>7. DirectsAreStored'
  <2>1. ASSUME NEW d \in direct'
        PROVE  d.value <= status'[d.station] \/ (Unsaved(d.station)' /\ d.value <= status'[d.station] + 1)
    <3>1. d \in direct /\ d.value \in Nat /\ d.station \in Statuses!Stations /\ status[d.station] \in Nat
      BY <1>1, <1>2 DEF StatusesInv, StatusesTypeOK, Notice
    <3>2. CASE d.station = u.station
      BY <1>3, <1>5, <3>1, <3>2 DEF StatusesInv, DirectsAreStored
    <3>3. CASE d.station # u.station
      BY <1>1, <1>3, <3>1, <3>3 DEF StatusesInv, DirectsAreStored, Unsaved
    <3> QED BY <3>2, <3>3
  <2>2. ASSUME NEW v \in unsaved' PROVE v.value = status'[v.station] + 1
    <3>1. v \in Notice /\ v \in unsaved /\ v # u
      BY <1>1 DEF StatusesInv, StatusesTypeOK
    <3>2. v.station # u.station
      <4>1. v.value = status[v.station] + 1
        BY <3>1 DEF StatusesInv, DirectsAreStored
      <4> QED BY <1>2, <1>5, <3>1, <4>1 DEF Notice
    <3> QED BY <1>3, <3>1, <3>2 DEF StatusesInv, DirectsAreStored, Notice
  <2> QED BY <2>1, <2>2 DEF DirectsAreStored
<1> QED BY <1>4, <1>6, <1>7, BesideKeeps

LEMMA PatchStep ==
  ASSUME StatusesInv, Statuses!PatchArrives \/ Statuses!PatchFails
  PROVE  StatusesInv'
<1>1. CASE Statuses!PatchFails
  <2>1. direct' \subseteq direct /\ UNCHANGED <<clock, status, noted, unsaved, partner, endpoint, jobs, excused>>
    BY <1>1 DEF Statuses!PatchFails
  <2>2. StatusesTypeOK' /\ clock <= clock'
    BY <2>1 DEF StatusesInv, StatusesTypeOK
  <2>3. DirectsAreStored'
    BY <2>1 DEF StatusesInv, DirectsAreStored, Unsaved
  <2>4. Beside
    BY <2>1, <2>2 DEF Beside, Stale, Unsaved
  <2> QED BY <2>2, <2>3, <2>4, BesideKeeps
<1>2. CASE Statuses!PatchArrives
  <2>1. PICK d \in direct :
          /\ partner' = [partner EXCEPT ![d.station] = {d.value}] /\ direct' = direct \ {d}
          /\ excused' = IF \A v \in partner[d.station] : v < d.value THEN excused ELSE excused \cup {d.station}
          /\ UNCHANGED <<clock, status, noted, unsaved, endpoint, jobs>>
    BY <1>2 DEF Statuses!PatchArrives
  <2>2. d.station \in Statuses!Stations /\ d.value \in Nat /\ status[d.station] \in Nat
    BY DEF StatusesInv, StatusesTypeOK, Notice
  <2>3. /\ partner' = [s \in Statuses!Stations |-> partner'[s]]
        /\ \A s \in Statuses!Stations : s # d.station => partner'[s] = partner[s]
    BY <2>1 DEF StatusesInv, StatusesTypeOK
  <2>4. excused \subseteq excused' /\ excused' \subseteq Statuses!Stations
    BY <2>1, <2>2 DEF StatusesInv, StatusesTypeOK
  <2>5. StatusesTypeOK' /\ clock <= clock'
    BY <2>1, <2>3, <2>4 DEF StatusesInv, StatusesTypeOK
  <2>6. DirectsAreStored'
    BY <2>1 DEF StatusesInv, DirectsAreStored, Unsaved
  <2>7. ASSUME NEW s \in Statuses!Stations \ excused', Stale(s)' PROVE Stale(s)
    <3>1. CASE s # d.station
      BY <2>1, <2>3, <2>7, <3>1 DEF Stale, Unsaved
    <3>2. CASE s = d.station
      <4>1. \A v \in partner[s] : v < d.value
        BY <2>1, <2>7, <3>2
      <4>2. Unsaved(s) \/ d.value <= status[s]
        BY <3>2 DEF StatusesInv, DirectsAreStored
      <4> QED BY <2>2, <3>2, <4>1, <4>2 DEF Stale
    <3> QED BY <3>1, <3>2
  <2>8. Beside
    BY <2>1, <2>4, <2>5, <2>7 DEF Beside
  <2> QED BY <2>5, <2>6, <2>8, BesideKeeps
<1> QED BY <1>1, <1>2

LEMMA StatusNotificationStep ==
  ASSUME StatusesInv, NEW s \in Changing, Statuses!ProcessConnectorFromStatusNotification(s)
  PROVE  StatusesInv'
<1> DEFINE u == [station |-> s, value |-> status[s] + 1]
<1> DEFINE late(t) == \/ t < endpoint.on
                      \/ \E j \in Jobs : Statuses!Running(j) /\ t < jobs[j].from
                      \/ \E j \in Jobs : jobs[j].st = "read" /\ t < jobs[j].last.on
<1>1. PICK t \in {clock - 1, clock} :
        /\ noted' = [noted EXCEPT ![s] = IF t > noted[s] THEN t ELSE noted[s]]
        /\ excused' = IF late(t) THEN excused \cup {s} ELSE excused \ {s}
        /\ unsaved' = unsaved \cup {u} /\ direct' = direct \cup {u}
        /\ UNCHANGED <<clock, status, partner, endpoint, jobs>>
  BY DEF Statuses!ProcessConnectorFromStatusNotification
<1>2. StatusesTypeOK /\ clock \in Nat /\ t \in Nat
  BY DEF StatusesInv, StatusesTypeOK
<1>3. s \in Statuses!Stations
  BY PagesAssumption DEF Statuses!Stations
<1>4. status[s] \in Nat /\ noted[s] \in Nat
  BY <1>2, <1>3 DEF StatusesTypeOK
<1>5. u \in Notice /\ u.station = s /\ u.value = status[s] + 1
  BY <1>3, <1>4 DEF Notice
<1> HIDE DEF u
<1>6. /\ noted' \in [Statuses!Stations -> Nat] /\ noted'[s] >= t
      /\ \A x \in Statuses!Stations : noted'[x] >= noted[x]
      /\ \A x \in Statuses!Stations : x # s => noted'[x] = noted[x]
  BY <1>1, <1>2, <1>3, <1>4 DEF StatusesTypeOK
<1>7. excused' \subseteq Statuses!Stations /\ \A x \in Statuses!Stations \ excused' : x # s => x \notin excused
  BY <1>1, <1>2, <1>3 DEF StatusesTypeOK
<1>8. StatusesTypeOK'
  BY <1>1, <1>2, <1>5, <1>6, <1>7 DEF StatusesTypeOK
<1>9. Unsaved(s)' /\ \A x : Unsaved(x) => Unsaved(x)'
  BY <1>1, <1>5 DEF Unsaved
<1>10. \A x : x # s => (Unsaved(x)' => Unsaved(x))
  BY <1>1, <1>5 DEF Unsaved
<1>11. DirectsAreStored'
  <2>1. \A d \in direct' : \/ d.value <= status'[d.station]
                           \/ Unsaved(d.station)' /\ d.value <= status'[d.station] + 1
    <3>1. u.value <= status[s] + 1
      BY <1>4, <1>5
    <3> QED BY <1>1, <1>5, <1>9, <3>1 DEF StatusesInv, DirectsAreStored
  <2>2. \A v \in unsaved' : v.value = status'[v.station] + 1
    BY <1>1, <1>5 DEF StatusesInv, DirectsAreStored
  <2> QED BY <2>1, <2>2 DEF DirectsAreStored
<1>12. s \notin excused' => /\ endpoint.on <= noted'[s]
                            /\ \A j \in Jobs : IsPush(j) => jobs[j].from <= noted'[s]
                            /\ \A j \in Jobs : IsRead(j) => jobs[j].last.on <= noted'[s]
  <2> SUFFICES ASSUME ~late(t)
               PROVE  /\ endpoint.on <= noted'[s]
                      /\ \A j \in Jobs : IsPush(j) => jobs[j].from <= noted'[s]
                      /\ \A j \in Jobs : IsRead(j) => jobs[j].last.on <= noted'[s]
    BY <1>1
  <2>1. noted'[s] \in Nat /\ noted'[s] >= t
    BY <1>3, <1>6
  <2>2. endpoint.on \in Nat /\ ~(t < endpoint.on)
    BY <1>2 DEF StatusesTypeOK, Result
  <2>3. ASSUME NEW j \in Jobs, IsPush(j) PROVE jobs[j].from \in Nat /\ ~(t < jobs[j].from)
    BY <1>2, <2>3, JobShape DEF Push
  <2>4. ASSUME NEW j \in Jobs, IsRead(j) PROVE jobs[j].last.on \in Nat /\ ~(t < jobs[j].last.on)
    BY <1>2, <2>4, JobShape DEF Waiting, Result, IsRead
  <2> HIDE DEF late
  <2> QED BY <1>2, <2>1, <2>2, <2>3, <2>4
<1>13. \A x \in Statuses!Stations \ excused' : x = s \/ (x \notin excused /\ (Stale(x)' => Stale(x)))
  BY <1>1, <1>7, <1>10 DEF Stale
<1>14. \A j \in Jobs : (IsPush(j)' <=> IsPush(j)) /\ (IsRead(j)' <=> IsRead(j))
  BY <1>1 DEF IsPush, IsRead
<1> HIDE DEF late
<1>15. \A j \in Jobs : \A x : Ahead(jobs[j], x)' <=> Ahead(jobs[j], x)
  BY <1>1 DEF Ahead
<1>16. ASSUME NEW j \in Jobs, IsPush(j), Progress(j) PROVE Progress(j)'
  <2>1. \A x \in DOMAIN jobs[j].values : x \in Statuses!Stations
    BY <1>2, <1>16, JobShape DEF Push, Values
  <2>2. \A x \in Statuses!Stations \ excused' :
          Stale(x)' => x \in jobs[j].failed \/ noted'[x] >= jobs[j].from \/ Ahead(jobs[j], x)
    BY <1>6, <1>12, <1>13, <1>16 DEF Progress
  <2>3. ASSUME jobs[j].st = "push", NEW x \in DOMAIN jobs[j].values \ excused'
        PROVE  (jobs[j].values[x] = status[x] /\ ~Unsaved(x)') \/ noted'[x] >= jobs[j].from
    <3>1. CASE x = s
      BY <1>12, <1>16, <2>3, <3>1
    <3>2. CASE x # s
      BY <1>6, <1>7, <1>10, <1>16, <2>1, <2>3, <3>2 DEF Progress
    <3> QED BY <3>1, <3>2
  <2> QED BY <1>1, <1>15, <2>2, <2>3 DEF Progress
<1>17. JobsInv'
  <2>1. ASSUME NEW j \in Jobs, IsPush(j) PROVE Todo(jobs[j]) \subseteq Todo(jobs[j])'
    <3>1. jobs[j].partial => jobs[j].last.on \in Nat
      BY <2>1 DEF StatusesInv, JobsInv, Result
    <3>2. \A x \in Statuses!Stations : noted[x] \in Nat /\ noted'[x] \in Nat
      BY <1>2, <1>6 DEF StatusesTypeOK
    <3> QED BY <1>1, <1>6, <3>1, <3>2 DEF Todo
  <2> QED BY <1>1, <1>14, <1>16, <2>1 DEF StatusesInv, JobsInv
<1>18. Undisturbed' => AllCovered'
  <2> SUFFICES ASSUME Undisturbed, AllCovered PROVE AllCovered'
    BY <1>1, <1>14 DEF StatusesInv, Undisturbed
  <2>1. Covers(endpoint)'
    BY <1>1, <1>6, <1>12, <1>13 DEF AllCovered, Covers
  <2>2. ASSUME NEW j \in Jobs, IsRead(j) PROVE Covers(jobs[j].last)'
    BY <1>1, <1>6, <1>12, <1>13, <2>2 DEF AllCovered, Covers
  <2> QED BY <1>1, <1>14, <2>1, <2>2 DEF AllCovered
<1> QED BY <1>8, <1>11, <1>17, <1>18 DEF StatusesInv

-----------------------------------------------------------------------------
(* The jobs start. *)

LEMMA NoValues == <<>> \in Values /\ DOMAIN <<>> = {}
<1>1. <<>> \in [{} -> Nat] /\ DOMAIN <<>> = {}
  OBVIOUS
<1>2. {} \in SUBSET Statuses!Stations
  OBVIOUS
<1> QED BY <1>1, <1>2 DEF Values

LEMMA AcquireKeeps ==
  ASSUME StatusesInv, NEW j \in Jobs, ~IsPush(j), NEW job,
         job.kind \in Statuses!Kinds, job.partial \in BOOLEAN, job.last \in Result \cup {{}},
         job.partial => job.last \in Result /\ job.last.on <= clock /\ (Undisturbed => Covers(job.last)),
         Statuses!Acquire(j, job),
         UNCHANGED <<clock, status, noted, unsaved, direct, partner, endpoint, excused>>
  PROVE  StatusesInv'
<1> DEFINE others == {o \in Jobs : Statuses!Running(o)}
           r == [st |-> "page", kind |-> job.kind, partial |-> job.partial, last |-> job.last, from |-> clock,
                 todo |-> Todo(job), page |-> 1, values |-> <<>>, failed |-> {}, alone |-> others = {}]
<1>1. StatusesTypeOK /\ DirectsAreStored /\ JobsInv
  BY DEF StatusesInv
<1>2. DirectsAreStored'
  BY <1>1 DEF DirectsAreStored, Unsaved
<1>3. \A s \in Statuses!Stations : Stale(s)' <=> Stale(s)
  BY DEF Stale, Unsaved
<1>4. \A s : Unsaved(s)' <=> Unsaved(s)
  BY DEF Unsaved
<1>5. CASE job.kind.lock \cap locks # {}
  <2>1. jobs' = [jobs EXCEPT ![j] = Statuses!Idle]
    BY <1>5 DEF Statuses!Acquire
  <2>2. /\ \A o \in Jobs : o # j => jobs'[o] = jobs[o]
        /\ ~IsPush(j)' /\ ~IsRead(j)'
    BY <1>1, <2>1 DEF StatusesTypeOK, IsPush, IsRead, Statuses!Idle
  <2>3. StatusesTypeOK'
    BY <1>1, <2>1 DEF StatusesTypeOK
  <2>4. \A o \in Jobs : /\ IsPush(o)' => o # j /\ IsPush(o) /\ jobs'[o] = jobs[o]
                        /\ IsRead(o)' => o # j /\ IsRead(o) /\ jobs'[o] = jobs[o]
    BY <2>2 DEF IsPush, IsRead
  <2>5. ASSUME NEW o \in Jobs, IsPush(o)', Progress(o) PROVE Progress(o)'
    <3>1. \A s : Ahead(jobs[o], s)' <=> Ahead(jobs[o], s)
      BY <2>4, <2>5 DEF Ahead
    <3>2. jobs'[o] = jobs[o]
      BY <2>4, <2>5
    <3> QED BY <1>3, <1>4, <2>5, <3>1, <3>2 DEF Progress
  <2>6. ASSUME NEW o \in Jobs, IsPush(o)' PROVE Todo(jobs[o])' = Todo(jobs[o])
    <3>1. jobs'[o] = jobs[o]
      BY <2>4, <2>6
    <3> QED BY <3>1 DEF Todo
  <2>7. JobsInv'
    BY <1>1, <2>4, <2>5, <2>6 DEF JobsInv
  <2>8. Undisturbed' => Undisturbed
    BY <2>2 DEF Undisturbed, IsPush
  <2>9. AllCovered => AllCovered'
    BY <1>3, <2>4 DEF AllCovered, Covers
  <2> QED BY <1>2, <2>3, <2>7, <2>8, <2>9 DEF StatusesInv
<1>6. CASE job.kind.lock \cap locks = {}
  <2>1. jobs' = [o \in Jobs |-> IF o = j THEN r
                                ELSE IF o \in others THEN [jobs[o] EXCEPT !.alone = FALSE] ELSE jobs[o]]
    BY <1>6, ToProcessIsTodo DEF Statuses!Acquire
  <2>2. \A o \in Jobs : o \in others <=> IsPush(o)
    BY <1>1, JobShape
  <2>3. Todo(job) \in SUBSET Statuses!Stations
    BY DEF Todo, Result
  <2>4. PICK b \in BOOLEAN : b <=> others = {}
    OBVIOUS
  <2>5. r = [st |-> "page", kind |-> job.kind, partial |-> job.partial, last |-> job.last, from |-> clock,
             todo |-> Todo(job), page |-> 1, values |-> <<>>, failed |-> {}, alone |-> b]
    BY <2>4
  <2>6. /\ r \in Push /\ r.st = "page" /\ r.kind = job.kind /\ r.partial = job.partial /\ r.last = job.last
        /\ r.from = clock /\ r.todo = Todo(job) /\ r.page = 1 /\ r.failed = {} /\ r.alone = b
    <3>1. clock \in Nat
      BY <1>1 DEF StatusesTypeOK
    <3>2. <<>> \in Values
      BY NoValues
    <3> DEFINE none == <<>>
               q == [st |-> "page", kind |-> job.kind, partial |-> job.partial, last |-> job.last, from |-> clock,
                     todo |-> Todo(job), page |-> 1, values |-> none, failed |-> {}, alone |-> b]
    <3>3. none \in Values /\ r = q
      BY <2>5, <3>2
    <3> HIDE DEF none, r
    <3>4. q \in Push
      BY <2>3, <3>1, <3>3 DEF Push
    <3> QED BY <3>3, <3>4
  <2> HIDE DEF r
  <2>7. jobs'[j] = r
    BY <2>1
  <2>8. \A o \in Jobs : o # j /\ ~IsPush(o) => jobs'[o] = jobs[o]
    BY <2>1, <2>2
  <2>9. ASSUME NEW o \in Jobs, o # j, IsPush(o)
        PROVE  /\ jobs'[o] \in Push /\ ~jobs'[o].alone /\ jobs'[o].st = jobs[o].st /\ jobs'[o].kind = jobs[o].kind
               /\ jobs'[o].from = jobs[o].from /\ jobs'[o].partial = jobs[o].partial /\ jobs'[o].last = jobs[o].last
               /\ jobs'[o].todo = jobs[o].todo
    <3>1. jobs'[o] = [jobs[o] EXCEPT !.alone = FALSE]
      BY <2>1, <2>2, <2>9
    <3>2. PICK q \in Push : q = jobs[o]
      BY <1>1, <2>9, JobShape
    <3>3. jobs'[o] = [q EXCEPT !.alone = FALSE]
      BY <3>1, <3>2
    <3> QED BY <3>2, <3>3 DEF Push
  <2>10. StatusesTypeOK'
    <3>1. \A o \in Jobs : jobs'[o] \in {Statuses!Idle} \cup Waiting \cup Push
      BY <1>1, <2>6, <2>7, <2>8, <2>9 DEF StatusesTypeOK
    <3>2. jobs' = [o \in Jobs |-> jobs'[o]]
      BY <2>1
    <3> QED BY <1>1, <3>1, <3>2 DEF StatusesTypeOK
  <2>11. ASSUME NEW o \in Jobs
         PROVE  /\ IsPush(o)' <=> (o = j \/ IsPush(o))
                /\ IsRead(o)' <=> (o # j /\ IsRead(o))
    <3>1. CASE o = j
      BY <2>6, <2>7, <3>1 DEF IsPush, IsRead
    <3>2. CASE o # j
      BY <2>8, <2>9, <3>2 DEF IsPush, IsRead
    <3> QED BY <3>1, <3>2
  <2>12. ASSUME NEW o \in Jobs, IsRead(o)' PROVE IsRead(o) /\ jobs'[o] = jobs[o] /\ jobs[o].last.on <= clock
    <3>1. o # j /\ IsRead(o) /\ ~IsPush(o)
      BY <1>1, <2>11, <2>12, JobShape DEF IsRead, IsPush
    <3> QED BY <1>1, <2>8, <3>1 DEF JobsInv
  <2>13. \A o \in Jobs : IsPush(o)' =>
           /\ jobs'[o].from <= clock
           /\ jobs'[o].partial => jobs'[o].last \in Result
           /\ jobs'[o].todo \subseteq Todo(jobs[o])'
           /\ jobs'[o].st = "push" => jobs'[o].kind.name # "data"
    <3>1. clock \in Nat
      BY <1>1 DEF StatusesTypeOK
    <3>2. Todo(jobs[j])' = Todo(job)
      BY <2>6, <2>7 DEF Todo
    <3>3. ASSUME NEW o \in Jobs, o # j, IsPush(o) PROVE Todo(jobs[o])' = Todo(jobs[o])
      BY <2>9, <3>3 DEF Todo
    <3>4. ASSUME NEW o \in Jobs, IsPush(o)', o # j
          PROVE  /\ jobs'[o].from <= clock
                 /\ jobs'[o].partial => jobs'[o].last \in Result
                 /\ jobs'[o].todo \subseteq Todo(jobs[o])'
                 /\ jobs'[o].st = "push" => jobs'[o].kind.name # "data"
      <4>1. IsPush(o)
        BY <2>11, <3>4 DEF IsPush
      <4> QED BY <1>1, <2>9, <3>3, <3>4, <4>1 DEF JobsInv
    <3> QED BY <2>6, <2>7, <3>1, <3>2, <3>4
  <2>14. CASE others = {}
    <3>1. \A o \in Jobs : IsPush(o)' => o = j
      BY <2>2, <2>11, <2>14 DEF IsPush
    <3>2. r.alone /\ Undisturbed
      BY <2>2, <2>4, <2>6, <2>14 DEF Undisturbed
    <3>3. AllCovered
      BY <3>2 DEF StatusesInv
    <3>4. Progress(j)'
      <4>1. ASSUME NEW s \in Statuses!Stations \ excused, Stale(s)
            PROVE  Ahead(jobs[j], s)'
        <5>1. PICK i \in DOMAIN Pages : s \in Pages[i]
          BY DEF Statuses!Stations
        <5>2. i >= 1
          BY PagesAssumption
        <5>3. s \in Todo(job)
          BY <3>2, <4>1 DEF Covers, Todo
        <5> QED BY <2>6, <2>7, <5>1, <5>2, <5>3 DEF Ahead
      <4> QED BY <1>3, <2>6, <2>7, <4>1 DEF Progress
    <3>5. JobsInv'
      <4>1. endpoint.on <= clock
        BY <1>1 DEF StatusesTypeOK
      <4> QED BY <2>6, <2>7, <2>12, <2>13, <3>1, <3>4, <4>1 DEF JobsInv
    <3>6. AllCovered'
      BY <1>3, <2>12, <3>3 DEF AllCovered, Covers
    <3> QED BY <1>2, <2>10, <3>5, <3>6 DEF StatusesInv
  <2>15. CASE others # {}
    <3>1. ~r.alone
      BY <2>4, <2>6, <2>15
    <3>2. \A o \in Jobs : IsPush(o)' => ~jobs'[o].alone
      BY <2>7, <2>9, <2>11, <3>1 DEF IsPush
    <3>3. JobsInv'
      BY <2>12, <2>13, <3>2 DEF JobsInv
    <3>4. ~Undisturbed'
      BY <2>11, <3>2 DEF Undisturbed
    <3> QED BY <1>2, <2>10, <3>3, <3>4 DEF StatusesInv
  <2> QED BY <2>14, <2>15
<1> QED BY <1>5, <1>6

LEMMA StartPartialStep ==
  ASSUME StatusesInv, NEW j \in Jobs, Statuses!StartPartial(j)
  PROVE  StatusesInv'
<1>1. IsRead(j) /\ StatusesTypeOK
  BY DEF Statuses!StartPartial, IsRead, StatusesInv
<1>2. jobs[j] \in Waiting /\ ~IsPush(j)
  BY <1>1, JobShape
<1>3. jobs[j].kind \in Statuses!Kinds /\ jobs[j].partial \in BOOLEAN /\ jobs[j].last \in Result
  BY <1>2 DEF Waiting
<1>4. jobs[j].last.on <= clock /\ (Undisturbed => Covers(jobs[j].last))
  BY <1>1 DEF StatusesInv, JobsInv, AllCovered
<1>5. /\ Statuses!Acquire(j, jobs[j])
      /\ UNCHANGED <<clock, status, noted, unsaved, direct, partner, endpoint, excused>>
  BY DEF Statuses!StartPartial
<1> QED BY <1>2, <1>3, <1>4, <1>5, AcquireKeeps

LEMMA ReadEndpointStep ==
  ASSUME StatusesInv, NEW j \in Jobs, Statuses!ReadEndpoint(j)
  PROVE  StatusesInv'
<1>1. /\ jobs[j].st = "idle" /\ StatusesTypeOK /\ JobsInv
      /\ UNCHANGED <<clock, status, noted, unsaved, direct, partner, endpoint, excused>>
  BY DEF Statuses!ReadEndpoint, StatusesInv
<1>2. ~IsRead(j) /\ ~IsPush(j)
  BY <1>1 DEF IsRead, IsPush
<1>3. PICK kind \in Statuses!Kinds :
        \/ jobs' = [jobs EXCEPT ![j] = [st |-> "read", kind |-> kind, partial |-> TRUE, last |-> endpoint]]
        \/ Statuses!Acquire(j, [kind |-> kind, partial |-> FALSE, last |-> {}])
  BY DEF Statuses!ReadEndpoint
<1>4. CASE Statuses!Acquire(j, [kind |-> kind, partial |-> FALSE, last |-> {}])
  <2> DEFINE job == [kind |-> kind, partial |-> FALSE, last |-> {}]
  <2>1. job.kind \in Statuses!Kinds /\ job.partial \in BOOLEAN /\ ~job.partial /\ job.last \in Result \cup {{}}
    OBVIOUS
  <2>2. Statuses!Acquire(j, job)
    BY <1>4
  <2> HIDE DEF job
  <2> QED BY <1>1, <1>2, <2>1, <2>2, AcquireKeeps
<1>5. CASE jobs' = [jobs EXCEPT ![j] = [st |-> "read", kind |-> kind, partial |-> TRUE, last |-> endpoint]]
  <2> DEFINE w == [st |-> "read", kind |-> kind, partial |-> TRUE, last |-> endpoint]
  <2>1. w \in Waiting /\ w.st = "read" /\ w.last = endpoint
    BY <1>1 DEF Waiting, StatusesTypeOK
  <2>2. jobs' = [jobs EXCEPT ![j] = w]
    BY <1>5
  <2> HIDE DEF w
  <2>3. jobs'[j] = w /\ \A o \in Jobs : o # j => jobs'[o] = jobs[o]
    BY <1>1, <2>2 DEF StatusesTypeOK
  <2>4. StatusesTypeOK'
    BY <1>1, <2>1, <2>2 DEF StatusesTypeOK
  <2>5. DirectsAreStored'
    BY <1>1 DEF StatusesInv, DirectsAreStored, Unsaved
  <2>6. \A o \in Jobs : IsPush(o)' => o # j /\ IsPush(o) /\ jobs'[o] = jobs[o]
    BY <2>1, <2>3 DEF IsPush
  <2>7. \A o \in Jobs : IsRead(o)' => (o = j /\ jobs'[o].last = endpoint) \/ (IsRead(o) /\ jobs'[o] = jobs[o])
    BY <2>1, <2>3 DEF IsRead
  <2>8. ASSUME NEW o \in Jobs, IsPush(o)', Progress(o) PROVE Progress(o)'
    <3>1. jobs'[o] = jobs[o]
      BY <2>6, <2>8
    <3> QED BY <1>1, <2>8, <3>1 DEF Progress, Ahead, Stale, Unsaved
  <2>9. ASSUME NEW o \in Jobs, IsPush(o)' PROVE Todo(jobs[o])' = Todo(jobs[o])
    <3>1. jobs'[o] = jobs[o]
      BY <2>6, <2>9
    <3> QED BY <1>1, <3>1 DEF Todo
  <2>10. JobsInv'
    <3>1. endpoint.on <= clock
      BY <1>1 DEF StatusesTypeOK
    <3> QED BY <1>1, <2>6, <2>7, <2>8, <2>9, <3>1 DEF JobsInv
  <2>11. Undisturbed' => Undisturbed
    BY <1>2, <2>3 DEF Undisturbed, IsPush
  <2>12. AllCovered => AllCovered'
    BY <1>1, <2>7 DEF AllCovered, Covers, Stale, Unsaved
  <2> QED BY <2>4, <2>5, <2>10, <2>11, <2>12 DEF StatusesInv
<1> QED BY <1>3, <1>4, <1>5

-----------------------------------------------------------------------------
(* The pushes go on. *)

LEMMA TurnedPage ==
  ASSUME NEW r \in Push
  PROVE  /\ Statuses!TurnPage(r) \in Push
         /\ Statuses!TurnPage(r).st = "page" /\ Statuses!TurnPage(r).page = r.page + 1
         /\ Statuses!TurnPage(r).kind = r.kind /\ Statuses!TurnPage(r).partial = r.partial
         /\ Statuses!TurnPage(r).last = r.last /\ Statuses!TurnPage(r).from = r.from
         /\ Statuses!TurnPage(r).todo = r.todo /\ Statuses!TurnPage(r).failed = r.failed
         /\ Statuses!TurnPage(r).alone = r.alone
<1> DEFINE none == <<>>
<1>1. none \in Values
  BY NoValues
<1>2. Statuses!TurnPage(r) = [r EXCEPT !.st = "page", !.page = r.page + 1, !.values = none]
  BY DEF Statuses!TurnPage
<1>3. r.page + 1 \in Nat \ {0}
  BY DEF Push
<1> HIDE DEF none
<1>4. Statuses!TurnPage(r) \in Push
  BY <1>1, <1>2, <1>3 DEF Push
<1>5. Statuses!TurnPage(r).st = "page" /\ Statuses!TurnPage(r).page = r.page + 1
  BY <1>2 DEF Push
<1> QED BY <1>2, <1>4, <1>5 DEF Push

\* The job j becomes r, and no other job changes.
Advances(j, r) ==
  /\ jobs' = [jobs EXCEPT ![j] = r] /\ r \in Push
  /\ r.kind = jobs[j].kind /\ r.partial = jobs[j].partial /\ r.last = jobs[j].last
  /\ r.from = jobs[j].from /\ r.todo = jobs[j].todo /\ r.alone = jobs[j].alone
  /\ r.st = "push" => r.kind.name # "data"
  /\ UNCHANGED <<clock, status, noted, unsaved, direct, endpoint>>
  /\ excused \subseteq excused' /\ excused' \subseteq Statuses!Stations
  /\ partner' = [s \in Statuses!Stations |-> partner'[s]]

LEMMA AdvanceKeeps ==
  ASSUME StatusesInv, NEW j \in Jobs, IsPush(j), NEW r, Advances(j, r),
         jobs[j].alone /\ jobs[j].kind.name # "data" /\ Progress(j) => Progress(j)',
         jobs[j].alone => \A s \in Statuses!Stations \ excused' :
                            Stale(s)' => Stale(s) \/ noted[s] >= jobs[j].from
  PROVE  StatusesInv'
<1>1. StatusesTypeOK /\ DirectsAreStored /\ JobsInv
  BY DEF StatusesInv
<1>2. jobs'[j] = r /\ \A o \in Jobs : o # j => jobs'[o] = jobs[o]
  BY <1>1 DEF Advances, StatusesTypeOK
<1>3. r \in Push /\ r.st \in {"page", "push"}
  BY DEF Advances, Push
<1>4. StatusesTypeOK'
  <2>1. jobs' \in [Jobs -> {Statuses!Idle} \cup Waiting \cup Push]
    BY <1>1, <1>3 DEF Advances, StatusesTypeOK
  <2> QED BY <1>1, <2>1 DEF Advances, StatusesTypeOK
<1>5. DirectsAreStored'
  BY <1>1 DEF Advances, DirectsAreStored, Unsaved
<1>6. ASSUME NEW o \in Jobs
      PROVE  (IsPush(o)' <=> IsPush(o)) /\ (IsRead(o)' <=> IsRead(o)) /\ (IsRead(o) => o # j)
  <2>1. ~IsRead(j)
    BY <1>1, JobShape
  <2>2. CASE o = j
    BY <1>2, <1>3, <2>1, <2>2 DEF IsPush, IsRead
  <2>3. CASE o # j
    BY <1>2, <2>1, <2>3 DEF IsPush, IsRead
  <2> QED BY <2>2, <2>3
<1>7. ASSUME NEW o \in Jobs, IsPush(o)
      PROVE  /\ jobs'[o].from = jobs[o].from /\ jobs'[o].partial = jobs[o].partial /\ jobs'[o].last = jobs[o].last
             /\ jobs'[o].todo = jobs[o].todo /\ jobs'[o].alone = jobs[o].alone /\ jobs'[o].kind = jobs[o].kind
             /\ jobs'[o].st = "push" => jobs'[o].kind.name # "data"
  <2>1. CASE o = j
    BY <1>2, <2>1 DEF Advances
  <2>2. CASE o # j
    BY <1>1, <1>2, <1>7, <2>2 DEF JobsInv
  <2> QED BY <2>1, <2>2
<1>8. ASSUME NEW o \in Jobs, IsPush(o) PROVE Todo(jobs[o])' = Todo(jobs[o])
  BY <1>7, <1>8 DEF Todo, Advances
<1>9. JobsInv'
  <2>1. \A o \in Jobs : IsRead(o)' => jobs'[o].last.on <= clock'
    BY <1>1, <1>2, <1>6 DEF JobsInv, Advances
  <2>2. ASSUME NEW o \in Jobs, IsPush(o)'
        PROVE  /\ jobs'[o].from <= clock' /\ (jobs'[o].partial => jobs'[o].last \in Result)
               /\ jobs'[o].todo \subseteq Todo(jobs[o])' /\ (jobs'[o].st = "push" => jobs'[o].kind.name # "data")
    BY <1>1, <1>6, <1>7, <1>8, <2>2 DEF JobsInv, Advances
  <2>3. ASSUME NEW o \in Jobs, IsPush(o)', jobs'[o].alone
        PROVE  /\ \A p \in Jobs : IsPush(p)' => p = o
               /\ endpoint'.on <= jobs'[o].from
               /\ \A p \in Jobs : IsRead(p)' => jobs'[p].last.on <= jobs'[o].from
               /\ jobs'[o].kind.name # "data" => Progress(o)'
    <3>1. o = j /\ jobs[j].alone /\ \A p \in Jobs : IsPush(p) => p = o
      BY <1>1, <1>6, <1>7, <2>3 DEF JobsInv
    <3>2. jobs[j].kind.name # "data" => Progress(j)
      BY <1>1, <3>1 DEF JobsInv
    <3>3. \A p \in Jobs : IsPush(p)' => p = o
      BY <1>6, <3>1
    <3>4. endpoint'.on <= jobs'[o].from
      BY <1>1, <1>7, <3>1 DEF JobsInv, Advances
    <3>5. \A p \in Jobs : IsRead(p)' => jobs'[p].last.on <= jobs'[o].from
      BY <1>1, <1>2, <1>6, <1>7, <3>1 DEF JobsInv
    <3>6. jobs'[o].kind.name # "data" => Progress(o)'
      BY <1>7, <3>1, <3>2
    <3> QED BY <3>3, <3>4, <3>5, <3>6
  <2> QED BY <2>1, <2>2, <2>3 DEF JobsInv
<1>10. Undisturbed' => AllCovered'
  <2> SUFFICES ASSUME Undisturbed' PROVE AllCovered'
    OBVIOUS
  <2>1. Undisturbed /\ jobs[j].alone
    BY <1>6, <1>7 DEF Undisturbed
  <2>2. AllCovered
    BY <2>1 DEF StatusesInv
  <2>3. ASSUME NEW res \in Result, Covers(res), res.on <= jobs[j].from PROVE Covers(res)'
    <3>1. jobs[j].from \in Nat /\ res.on \in Nat /\ \A s \in Statuses!Stations : noted[s] \in Nat
      BY <1>1, JobShape DEF StatusesTypeOK, Push, Result
    <3>2. UNCHANGED noted /\ excused \subseteq excused'
      BY DEF Advances
    <3>3. \A s \in Statuses!Stations \ excused' : Stale(s)' => s \in res.failed \/ noted[s] >= res.on
      BY <2>1, <2>3, <3>1, <3>2 DEF Covers
    <3> QED BY <3>2, <3>3 DEF Covers
  <2>4. Covers(endpoint)'
    <3>1. endpoint \in Result /\ endpoint.on <= jobs[j].from /\ endpoint' = endpoint
      BY <1>1, <2>1 DEF StatusesTypeOK, JobsInv, Advances
    <3>2. Covers(endpoint)
      BY <2>2 DEF AllCovered
    <3> QED BY <2>3, <3>1, <3>2 DEF Covers
  <2>5. ASSUME NEW o \in Jobs, IsRead(o) PROVE Covers(jobs[o].last)'
    <3>1. jobs[o].last \in Result /\ jobs[o].last.on <= jobs[j].from /\ jobs'[o] = jobs[o]
      BY <1>1, <1>2, <1>6, <2>1, <2>5, JobShape DEF JobsInv, Waiting
    <3>2. Covers(jobs[o].last)
      BY <2>2, <2>5 DEF AllCovered
    <3> QED BY <2>3, <3>1, <3>2 DEF Covers
  <2> QED BY <1>6, <2>4, <2>5 DEF AllCovered
<1> QED BY <1>4, <1>5, <1>9, <1>10 DEF StatusesInv

LEMMA ReadPageStep ==
  ASSUME StatusesInv, NEW j \in Jobs, Statuses!ReadPage(j)
  PROVE  StatusesInv'
<1>1. StatusesTypeOK /\ jobs[j].st = "page" /\ IsPush(j) /\ jobs[j].kind.name # "data"
  BY DEF StatusesInv, Statuses!ReadPage, IsPush
<1>2. PICK old \in Push : old = jobs[j]
  BY <1>1, JobShape
<1>3. PICK read :
        /\ read = IF protocol = "ocpi" THEN Pages[old.page] \cap old.todo ELSE Pages[old.page]
        /\ jobs' = [jobs EXCEPT ![j] = IF read = {} THEN Statuses!TurnPage(old)
                                       ELSE [old EXCEPT !.st = "push", !.values = [s \in read |-> status[s]]]]
        /\ excused' = excused \cup (read \cap {u.station : u \in unsaved})
        /\ UNCHANGED <<clock, status, noted, unsaved, direct, partner, endpoint>>
  BY <1>2 DEF Statuses!ReadPage
<1>4. old.page \in Nat /\ old.page \in DOMAIN Pages
  <2>1. old.page \in Nat \ {0} /\ old.page <= Len(Pages)
    BY <1>2 DEF Statuses!ReadPage, Push
  <2> QED BY <2>1, PagesAssumption
<1>5. read \subseteq Statuses!Stations /\ \A s \in Pages[old.page] \cap old.todo : s \in read
  BY <1>3, <1>4 DEF Statuses!Stations
<1>6. \A i \in DOMAIN Pages : i \in Nat
  BY PagesAssumption
<1>7. /\ excused \subseteq excused' /\ excused' \subseteq Statuses!Stations
      /\ \A s \in read : s \in excused' \/ ~Unsaved(s)
      /\ partner' = [s \in Statuses!Stations |-> partner'[s]]
      /\ \A s : (Stale(s)' <=> Stale(s)) /\ (Unsaved(s)' <=> Unsaved(s))
  BY <1>1, <1>3, <1>5 DEF StatusesTypeOK, Unsaved, Stale
<1>8. \A s : Ahead(old, s) => s \in old.todo /\ \E i \in DOMAIN Pages : i >= old.page /\ s \in Pages[i]
  BY <1>1, <1>2 DEF Ahead
<1>9. CASE read = {}
  <2>1. PICK r \in Push : r = Statuses!TurnPage(old)
    BY <1>2, TurnedPage
  <2>2. /\ r.kind = old.kind /\ r.partial = old.partial /\ r.last = old.last /\ r.from = old.from
        /\ r.todo = old.todo /\ r.alone = old.alone /\ r.failed = old.failed
        /\ r.st = "page" /\ r.page = old.page + 1
    BY <1>2, <2>1, TurnedPage
  <2>3. jobs' = [jobs EXCEPT ![j] = r] /\ jobs'[j] = r
    BY <1>1, <1>3, <1>9, <2>1 DEF StatusesTypeOK
  <2>4. Advances(j, r)
    BY <1>2, <1>3, <1>7, <2>2, <2>3 DEF Advances
  <2>5. \A s : Ahead(old, s) => Ahead(r, s)
    <3>1. ASSUME NEW s, Ahead(old, s) PROVE Ahead(r, s)
      <4>1. PICK i \in DOMAIN Pages : i >= old.page /\ s \in Pages[i]
        BY <1>8, <3>1
      <4>2. s \in old.todo /\ i # old.page
        BY <1>5, <1>8, <1>9, <3>1, <4>1
      <4>3. i >= old.page + 1
        BY <1>4, <1>6, <4>1, <4>2
      <4> QED BY <2>2, <4>1, <4>2, <4>3 DEF Ahead
    <3> QED BY <3>1
  <2>6. Progress(j) => Progress(j)'
    <3>1. \A s : Ahead(jobs[j], s)' <=> Ahead(r, s)
      BY <2>3 DEF Ahead
    <3> QED BY <1>2, <1>3, <1>7, <2>2, <2>3, <2>5, <3>1 DEF Progress
  <2> QED BY <1>1, <1>7, <2>4, <2>6, AdvanceKeeps
<1>10. CASE read # {}
  <2>1. PICK values \in Values : values = [s \in read |-> status[s]]
    <3>1. \A s \in read : status[s] \in Nat
      BY <1>1, <1>5 DEF StatusesTypeOK
    <3>2. [s \in read |-> status[s]] \in [read -> Nat] /\ read \in SUBSET Statuses!Stations
      BY <1>5, <3>1
    <3> QED BY <3>2 DEF Values
  <2>2. PICK r \in Push : r = [old EXCEPT !.st = "push", !.values = values]
    BY DEF Push
  <2>3. /\ r.kind = old.kind /\ r.partial = old.partial /\ r.last = old.last /\ r.from = old.from
        /\ r.todo = old.todo /\ r.alone = old.alone /\ r.failed = old.failed
        /\ r.st = "push" /\ r.page = old.page /\ r.values = values
    BY <2>2 DEF Push
  <2>4. jobs' = [jobs EXCEPT ![j] = r] /\ jobs'[j] = r
    BY <1>1, <1>3, <1>10, <2>1, <2>2 DEF StatusesTypeOK
  <2>5. Advances(j, r)
    BY <1>1, <1>2, <1>3, <1>7, <2>3, <2>4 DEF Advances
  <2>6. \A s : Ahead(old, s) => Ahead(r, s)
    <3>1. ASSUME NEW s, Ahead(old, s) PROVE Ahead(r, s)
      <4>1. PICK i \in DOMAIN Pages : i >= old.page /\ s \in Pages[i]
        BY <1>8, <3>1
      <4>2. s \in old.todo
        BY <1>8, <3>1
      <4>3. CASE i = old.page
        BY <1>5, <2>1, <2>3, <4>1, <4>2, <4>3 DEF Ahead
      <4>4. CASE i # old.page
        <5>1. i > old.page
          BY <1>4, <1>6, <4>1, <4>4
        <5> QED BY <2>3, <4>1, <4>2, <5>1 DEF Ahead
      <4> QED BY <4>3, <4>4
    <3> QED BY <3>1
  <2>7. Progress(j) => Progress(j)'
    <3>1. \A s : Ahead(jobs[j], s)' <=> Ahead(r, s)
      BY <2>4 DEF Ahead
    <3>2. \A s \in DOMAIN r.values \ excused' : r.values[s] = status[s] /\ ~Unsaved(s)
      BY <1>7, <2>1, <2>3
    <3> QED BY <1>2, <1>3, <1>7, <2>3, <2>4, <2>6, <3>1, <3>2 DEF Progress
  <2> QED BY <1>1, <1>7, <2>5, <2>7, AdvanceKeeps
<1> QED BY <1>9, <1>10

LEMMA SendEVSEsStep ==
  ASSUME StatusesInv, NEW j \in Jobs, Statuses!SendEVSEs(j)
  PROVE  StatusesInv'
<1>1. StatusesTypeOK /\ jobs[j].st = "page" /\ IsPush(j) /\ jobs[j].kind.name = "data"
  BY DEF StatusesInv, Statuses!SendEVSEs, IsPush
<1>2. PICK old \in Push : old = jobs[j]
  BY <1>1, JobShape
<1>3. PICK failed \in {{}, Statuses!Stations} :
        /\ jobs' = [jobs EXCEPT ![j] = [old EXCEPT !.page = Len(Pages) + 1, !.failed = failed]]
        /\ UNCHANGED <<clock, status, noted, unsaved, direct, partner, endpoint, excused>>
  BY <1>2 DEF Statuses!SendEVSEs
<1>4. Len(Pages) + 1 \in Nat \ {0} /\ failed \in SUBSET Statuses!Stations
  BY PagesAssumption
<1>5. PICK r \in Push : r = [old EXCEPT !.page = Len(Pages) + 1, !.failed = failed]
  BY <1>4 DEF Push
<1>6. /\ r.kind = old.kind /\ r.partial = old.partial /\ r.last = old.last /\ r.from = old.from
      /\ r.todo = old.todo /\ r.alone = old.alone /\ r.st = "page"
  BY <1>1, <1>2, <1>5 DEF Push
<1>7. Advances(j, r)
  BY <1>1, <1>2, <1>3, <1>5, <1>6 DEF Advances, StatusesTypeOK
<1>8. \A s : Stale(s)' <=> Stale(s)
  BY <1>3 DEF Stale, Unsaved
<1>9. excused' = excused
  BY <1>3
<1> QED BY <1>1, <1>7, <1>8, <1>9, AdvanceKeeps

\* What was ahead of a push that turns the page is still ahead, but for what it has just sent.
LEMMA TurnedAhead ==
  ASSUME NEW old \in Push, old.st = "push", NEW r \in Push, r.st = "page", r.page = old.page + 1, r.todo = old.todo,
         NEW s, Ahead(old, s), s \notin DOMAIN old.values
  PROVE  Ahead(r, s)
<1>1. PICK i \in DOMAIN Pages : i > old.page /\ s \in Pages[i]
  BY DEF Ahead
<1>2. i \in Nat /\ old.page \in Nat /\ s \in r.todo
  BY PagesAssumption DEF Push, Ahead
<1>3. i >= r.page
  BY <1>1, <1>2
<1> QED BY <1>1, <1>2, <1>3 DEF Ahead

LEMMA PatchEVSEStatusStep ==
  ASSUME StatusesInv, NEW j \in Jobs, Statuses!PatchEVSEStatus(j)
  PROVE  StatusesInv'
<1>1. StatusesTypeOK /\ JobsInv /\ jobs[j].st = "push" /\ IsPush(j) /\ jobs[j].kind.name # "data"
  BY DEF StatusesInv, Statuses!PatchEVSEStatus, IsPush, JobsInv
<1>2. PICK old \in Push : old = jobs[j]
  BY <1>1, JobShape
<1>3. PICK s \in DOMAIN old.values, ok \in BOOLEAN :
        LET left == DOMAIN old.values \ {s}
            job == [old EXCEPT !.values = [t \in left |-> old.values[t]],
                               !.failed = IF ok THEN old.failed ELSE old.failed \cup {s}]
        IN  /\ partner' = IF ok THEN [partner EXCEPT ![s] = {old.values[s]}] ELSE partner
            /\ jobs' = [jobs EXCEPT ![j] = IF left = {} THEN Statuses!TurnPage(job) ELSE job]
            /\ UNCHANGED <<clock, status, noted, unsaved, direct, endpoint, excused>>
  BY <1>2 DEF Statuses!PatchEVSEStatus
<1>4. PICK all \in SUBSET Statuses!Stations : old.values \in [all -> Nat] /\ DOMAIN old.values = all /\ s \in all
  BY DEF Push, Values
<1>5. PICK left \in SUBSET Statuses!Stations : left = DOMAIN old.values \ {s}
  BY <1>4
<1>6. PICK values \in Values : values = [t \in left |-> old.values[t]]
  <2>1. [t \in left |-> old.values[t]] \in [left -> Nat]
    BY <1>4, <1>5
  <2> QED BY <2>1 DEF Values
<1>7. PICK failed \in SUBSET Statuses!Stations : failed = IF ok THEN old.failed ELSE old.failed \cup {s}
  BY <1>4 DEF Push
<1>8. PICK job \in Push : job = [old EXCEPT !.values = values, !.failed = failed]
  BY DEF Push
<1>9. /\ job.kind = old.kind /\ job.partial = old.partial /\ job.last = old.last /\ job.from = old.from
      /\ job.todo = old.todo /\ job.alone = old.alone /\ job.failed = failed
      /\ job.st = "push" /\ job.page = old.page /\ job.values = values
  BY <1>1, <1>2, <1>8 DEF Push
<1>10. /\ jobs' = [jobs EXCEPT ![j] = IF left = {} THEN Statuses!TurnPage(job) ELSE job]
       /\ partner' = IF ok THEN [partner EXCEPT ![s] = {old.values[s]}] ELSE partner
       /\ UNCHANGED <<clock, status, noted, unsaved, direct, endpoint, excused>>
  BY <1>3, <1>5, <1>6, <1>7, <1>8
<1>11. /\ partner' = [t \in Statuses!Stations |-> partner'[t]]
       /\ ok => partner'[s] = {old.values[s]}
       /\ \A t \in Statuses!Stations : t # s \/ ~ok => partner'[t] = partner[t]
  <2>1. partner = [t \in Statuses!Stations |-> partner[t]] /\ s \in Statuses!Stations
    BY <1>1, <1>4 DEF StatusesTypeOK
  <2>2. CASE ok
    <3>1. partner' = [partner EXCEPT ![s] = {old.values[s]}]
      BY <1>10, <2>2
    <3> QED BY <2>1, <2>2, <3>1
  <2>3. CASE ~ok
    BY <1>10, <2>1, <2>3
  <2> QED BY <2>2, <2>3
<1>12. ASSUME jobs[j].alone, NEW t \in Statuses!Stations \ excused, Stale(t)'
       PROVE  /\ Stale(t) \/ noted[t] >= old.from
              /\ t = s => t \in failed \/ noted[t] >= old.from
  <2>1. Progress(j)
    BY <1>1, <1>12 DEF JobsInv
  <2>2. CASE t # s
    BY <1>10, <1>11, <1>12, <2>2 DEF Stale, Unsaved
  <2>3. CASE t = s /\ ~ok
    BY <1>7, <1>10, <1>11, <1>12, <2>3 DEF Stale, Unsaved
  <2>4. CASE t = s /\ ok
    <3>1. (old.values[s] = status[s] /\ ~Unsaved(s)) \/ noted[s] >= old.from
      BY <1>1, <1>2, <1>3, <1>12, <2>1, <2>4 DEF Progress
    <3>2. ~Unsaved(s) => partner'[s] # {status[s]}
      BY <1>10, <1>12, <2>4 DEF Stale, Unsaved
    <3> QED BY <1>11, <2>4, <3>1, <3>2
  <2> QED BY <2>2, <2>3, <2>4
<1>13. /\ jobs[j].alone => \A t \in Statuses!Stations \ excused' : Stale(t)' => Stale(t) \/ noted[t] >= jobs[j].from
       /\ excused' = excused
  BY <1>2, <1>10, <1>12
<1>14. CASE left = {}
  <2>1. PICK r \in Push : r = Statuses!TurnPage(job)
    BY TurnedPage
  <2>2. /\ r.kind = old.kind /\ r.partial = old.partial /\ r.last = old.last /\ r.from = old.from
        /\ r.todo = old.todo /\ r.alone = old.alone /\ r.failed = failed
        /\ r.st = "page" /\ r.page = old.page + 1
    BY <1>9, <2>1, TurnedPage
  <2>3. jobs' = [jobs EXCEPT ![j] = r] /\ jobs'[j] = r
    BY <1>1, <1>10, <1>14, <2>1 DEF StatusesTypeOK
  <2>4. Advances(j, r)
    BY <1>1, <1>2, <1>10, <1>11, <2>2, <2>3 DEF Advances, StatusesTypeOK
  <2>5. ASSUME NEW t, Ahead(old, t), t # s PROVE Ahead(r, t)
    BY <1>1, <1>2, <1>5, <1>14, <2>2, <2>5, TurnedAhead
  <2>6. ASSUME jobs[j].alone, Progress(j) PROVE Progress(j)'
    <3>1. ASSUME NEW t \in Statuses!Stations \ excused, Stale(t)'
          PROVE  t \in r.failed \/ noted[t] >= r.from \/ Ahead(r, t)
      BY <1>2, <1>7, <1>12, <2>2, <2>5, <2>6, <3>1 DEF Progress
    <3>2. \A t : Ahead(jobs[j], t)' <=> Ahead(r, t)
      BY <2>3 DEF Ahead
    <3> QED BY <1>10, <2>2, <2>3, <3>1, <3>2 DEF Progress
  <2> QED BY <1>1, <1>13, <2>4, <2>6, AdvanceKeeps
<1>15. CASE left # {}
  <2>1. jobs' = [jobs EXCEPT ![j] = job] /\ jobs'[j] = job
    BY <1>1, <1>10, <1>15 DEF StatusesTypeOK
  <2>2. Advances(j, job)
    BY <1>1, <1>2, <1>9, <1>10, <1>11, <2>1 DEF Advances, StatusesTypeOK
  <2>3. ASSUME NEW t, Ahead(old, t), t # s PROVE Ahead(job, t)
    BY <1>1, <1>2, <1>5, <1>6, <1>9, <2>3 DEF Ahead
  <2>4. ASSUME jobs[j].alone, Progress(j) PROVE Progress(j)'
    <3>1. ASSUME NEW t \in Statuses!Stations \ excused, Stale(t)'
          PROVE  t \in job.failed \/ noted[t] >= job.from \/ Ahead(job, t)
      BY <1>2, <1>7, <1>9, <1>12, <2>3, <2>4, <3>1 DEF Progress
    <3>2. \A t : Ahead(jobs[j], t)' <=> Ahead(job, t)
      BY <2>1 DEF Ahead
    <3>3. \A t : Unsaved(t)' <=> Unsaved(t)
      BY <1>10 DEF Unsaved
    <3>4. \A t \in DOMAIN job.values \ excused : (job.values[t] = status[t] /\ ~Unsaved(t)) \/ noted[t] >= job.from
      BY <1>1, <1>2, <1>5, <1>6, <1>9, <2>4 DEF Progress
    <3> QED BY <1>10, <2>1, <3>1, <3>2, <3>3, <3>4 DEF Progress
  <2> QED BY <1>1, <1>13, <2>2, <2>4, AdvanceKeeps
<1> QED BY <1>14, <1>15

LEMMA SendEVSEStatusesStep ==
  ASSUME StatusesInv, NEW j \in Jobs, Statuses!SendEVSEStatuses(j)
  PROVE  StatusesInv'
<1>1. StatusesTypeOK /\ JobsInv /\ jobs[j].st = "push" /\ IsPush(j) /\ jobs[j].kind.name # "data"
  BY DEF StatusesInv, Statuses!SendEVSEStatuses, IsPush, JobsInv
<1>2. PICK old \in Push : old = jobs[j]
  BY <1>1, JobShape
<1>3. PICK sent : sent = DOMAIN old.values \cap Todo(old)
  OBVIOUS
<1>4. old.todo \subseteq Todo(old) /\ sent \subseteq Statuses!Stations
  BY <1>1, <1>2, <1>3 DEF JobsInv, Push, Values
<1>5. /\ \/ /\ sent # {}
            /\ partner' = [s \in Statuses!Stations |-> IF s \in sent THEN {old.values[s]}
                                                       ELSE IF old.partial THEN partner[s] ELSE {}]
            /\ excused' = IF old.partial THEN excused ELSE excused \cup (Statuses!Stations \ sent)
            /\ jobs' = [jobs EXCEPT ![j] = Statuses!TurnPage(old)]
         \/ /\ sent # {}
            /\ jobs' = [jobs EXCEPT ![j] = [Statuses!TurnPage(old) EXCEPT !.failed = old.failed \cup sent]]
            /\ UNCHANGED <<partner, excused>>
         \/ /\ sent = {}
            /\ jobs' = [jobs EXCEPT ![j] = Statuses!TurnPage(old)]
            /\ UNCHANGED <<partner, excused>>
      /\ UNCHANGED <<clock, status, noted, unsaved, direct, endpoint>>
  <2>1. sent = DOMAIN jobs[j].values \cap Statuses!ToProcess(jobs[j])
    BY <1>2, <1>3, ToProcessIsTodo
  <2> QED BY <1>2, <2>1 DEF Statuses!SendEVSEStatuses
<1>6. PICK turned \in Push : turned = Statuses!TurnPage(old)
  BY TurnedPage
<1>7. /\ turned.kind = old.kind /\ turned.partial = old.partial /\ turned.last = old.last
      /\ turned.from = old.from /\ turned.todo = old.todo /\ turned.alone = old.alone
      /\ turned.failed = old.failed /\ turned.st = "page" /\ turned.page = old.page + 1
  BY <1>6, TurnedPage
\* The page is turned: what was sent is shown, noticed since, or failed.
<1>8. ASSUME NEW r \in Push, jobs' = [jobs EXCEPT ![j] = r],
             r.kind = old.kind, r.partial = old.partial, r.last = old.last, r.from = old.from, r.todo = old.todo,
             r.alone = old.alone, r.st = "page", r.page = old.page + 1, old.failed \subseteq r.failed,
             excused \subseteq excused', excused' \subseteq Statuses!Stations,
             partner' = [s \in Statuses!Stations |-> partner'[s]],
             \A s \in Statuses!Stations \ excused' : s \notin sent => partner'[s] = partner[s],
             \A s \in sent : partner'[s] = {old.values[s]} \/ (s \in r.failed /\ partner'[s] = partner[s])
      PROVE  StatusesInv'
  <2>1. jobs'[j] = r /\ UNCHANGED <<clock, status, noted, unsaved, direct, endpoint>>
    BY <1>1, <1>5, <1>8 DEF StatusesTypeOK
  <2>2. Advances(j, r)
    BY <1>1, <1>2, <1>8, <2>1 DEF Advances
  <2>3. ASSUME jobs[j].alone, NEW t \in Statuses!Stations \ excused', Stale(t)'
        PROVE  /\ Stale(t) \/ noted[t] >= old.from
               /\ t \in sent => t \in r.failed \/ noted[t] >= old.from
    <3>1. Progress(j)
      BY <1>1, <2>3 DEF JobsInv
    <3>2. CASE t \notin sent
      BY <1>8, <2>1, <2>3, <3>2 DEF Stale, Unsaved
    <3>3. CASE t \in sent /\ t \in r.failed /\ partner'[t] = partner[t]
      BY <2>1, <2>3, <3>3 DEF Stale, Unsaved
    <3>4. CASE t \in sent /\ partner'[t] = {old.values[t]}
      <4>1. (old.values[t] = status[t] /\ ~Unsaved(t)) \/ noted[t] >= old.from
        BY <1>1, <1>2, <1>3, <1>8, <2>3, <3>1, <3>4 DEF Progress
      <4>2. ~Unsaved(t) => partner'[t] # {status[t]}
        BY <2>1, <2>3 DEF Stale, Unsaved
      <4> QED BY <3>4, <4>1, <4>2
    <3> QED BY <1>8, <3>2, <3>3, <3>4
  <2>4. ASSUME jobs[j].alone, Progress(j) PROVE Progress(j)'
    <3>1. ASSUME NEW t \in Statuses!Stations \ excused', Stale(t)'
          PROVE  t \in r.failed \/ noted[t] >= r.from \/ Ahead(r, t)
      <4>1. CASE t \in DOMAIN old.values /\ t \in old.todo
        BY <1>3, <1>4, <1>8, <2>3, <2>4, <3>1, <4>1
      <4>2. CASE ~(t \in DOMAIN old.values /\ t \in old.todo)
        <5>1. Ahead(old, t) => Ahead(r, t)
          <6>1. Ahead(old, t) => t \notin DOMAIN old.values
            BY <4>2 DEF Ahead
          <6> QED BY <1>1, <1>2, <1>8, <6>1, TurnedAhead
        <5>2. t \in old.failed \/ noted[t] >= old.from \/ Ahead(old, t)
          BY <1>2, <1>8, <2>3, <2>4, <3>1 DEF Progress
        <5> QED BY <1>8, <5>1, <5>2
      <4> QED BY <4>1, <4>2
    <3>2. \A t : Ahead(jobs[j], t)' <=> Ahead(r, t)
      BY <2>1 DEF Ahead
    <3> QED BY <1>8, <2>1, <3>1, <3>2 DEF Progress
  <2>5. jobs[j].alone => \A t \in Statuses!Stations \ excused' : Stale(t)' => Stale(t) \/ noted[t] >= jobs[j].from
    BY <1>2, <2>3
  <2> QED BY <1>1, <2>2, <2>4, <2>5, AdvanceKeeps
<1>9. excused \subseteq Statuses!Stations /\ partner = [s \in Statuses!Stations |-> partner[s]]
  BY <1>1 DEF StatusesTypeOK
<1>10. CASE /\ partner' = [s \in Statuses!Stations |-> IF s \in sent THEN {old.values[s]}
                                                       ELSE IF old.partial THEN partner[s] ELSE {}]
            /\ excused' = IF old.partial THEN excused ELSE excused \cup (Statuses!Stations \ sent)
            /\ jobs' = [jobs EXCEPT ![j] = turned]
  <2>1. /\ partner' = [s \in Statuses!Stations |-> partner'[s]]
        /\ \A s \in sent : partner'[s] = {old.values[s]}
    BY <1>4, <1>10
  <2>2. /\ excused \subseteq excused' /\ excused' \subseteq Statuses!Stations
        /\ \A s \in Statuses!Stations \ excused' : s \notin sent => partner'[s] = partner[s]
    BY <1>4, <1>9, <1>10
  <2> QED BY <1>7, <1>8, <1>10, <2>1, <2>2
<1>11. CASE jobs' = [jobs EXCEPT ![j] = [turned EXCEPT !.failed = old.failed \cup sent]] /\ UNCHANGED <<partner, excused>>
  <2>1. old.failed \cup sent \in SUBSET Statuses!Stations
    BY <1>4 DEF Push
  <2>2. PICK r \in Push : r = [turned EXCEPT !.failed = old.failed \cup sent]
    BY <2>1 DEF Push
  <2>3. /\ r.kind = old.kind /\ r.partial = old.partial /\ r.last = old.last
        /\ r.from = old.from /\ r.todo = old.todo /\ r.alone = old.alone
        /\ r.failed = old.failed \cup sent /\ r.st = "page" /\ r.page = old.page + 1
    BY <1>7, <2>2 DEF Push
  <2>4. jobs' = [jobs EXCEPT ![j] = r] /\ partner' = partner /\ excused' = excused
    BY <1>11, <2>2
  <2> QED BY <1>8, <1>9, <2>3, <2>4
<1>12. CASE sent = {} /\ jobs' = [jobs EXCEPT ![j] = turned] /\ UNCHANGED <<partner, excused>>
  BY <1>7, <1>8, <1>9, <1>12
<1> QED BY <1>5, <1>6, <1>10, <1>11, <1>12

LEMMA FinishStep ==
  ASSUME StatusesInv, NEW j \in Jobs, Statuses!Finish(j)
  PROVE  StatusesInv'
<1>1. StatusesTypeOK /\ DirectsAreStored /\ JobsInv /\ jobs[j].st = "page" /\ IsPush(j)
  BY DEF StatusesInv, Statuses!Finish, IsPush
<1>2. PICK old \in Push : old = jobs[j]
  BY <1>1, JobShape
<1>3. PICK result \in Result : result = Statuses!LastCpoPushStatus(old)
  BY DEF Statuses!LastCpoPushStatus, Push, Result
<1>4. result.on = old.from /\ result.failed = old.failed
  BY <1>3 DEF Statuses!LastCpoPushStatus
<1>5. /\ old.page > Len(Pages) /\ endpoint' = result /\ jobs' = [jobs EXCEPT ![j] = Statuses!Idle]
      /\ excused' = IF old.alone /\ old.kind.name # "data" THEN excused
                    ELSE excused \cup {s \in Statuses!Stations :
                                         Statuses!Misses(s) \/ \E d \in direct \cup unsaved : d.station = s}
      /\ UNCHANGED <<clock, status, noted, unsaved, direct, partner>>
  BY <1>2, <1>3 DEF Statuses!Finish
<1>6. /\ \A o \in Jobs : o # j => jobs'[o] = jobs[o]
      /\ jobs'[j] = Statuses!Idle /\ ~IsPush(j)' /\ ~IsRead(j)'
  BY <1>1, <1>5 DEF StatusesTypeOK, IsPush, IsRead, Statuses!Idle
<1>7. ASSUME NEW o \in Jobs
      PROVE  /\ IsPush(o)' => o # j /\ IsPush(o) /\ jobs'[o] = jobs[o]
             /\ IsRead(o)' => o # j /\ IsRead(o) /\ jobs'[o] = jobs[o]
  BY <1>6 DEF IsPush, IsRead
<1>8. StatusesTypeOK'
  <2>1. old.from <= clock
    BY <1>1, <1>2 DEF JobsInv
  <2>2. jobs' \in [Jobs -> {Statuses!Idle} \cup Waiting \cup Push]
    BY <1>1, <1>5 DEF StatusesTypeOK
  <2>3. excused' \subseteq Statuses!Stations
    BY <1>1, <1>5 DEF StatusesTypeOK
  <2> QED BY <1>1, <1>3, <1>4, <1>5, <2>1, <2>2, <2>3 DEF StatusesTypeOK
<1>9. DirectsAreStored'
  BY <1>1, <1>5 DEF DirectsAreStored, Unsaved
<1>10. \A s : (Stale(s)' <=> Stale(s)) /\ (Unsaved(s)' <=> Unsaved(s))
  BY <1>5 DEF Stale, Unsaved
<1>11. JobsInv'
  <2>1. ASSUME NEW o \in Jobs, IsPush(o)' PROVE ~jobs'[o].alone
    BY <1>1, <1>7, <2>1 DEF JobsInv
  <2>2. ASSUME NEW o \in Jobs, IsPush(o)' PROVE Todo(jobs[o])' = Todo(jobs[o])
    BY <1>5, <1>7, <2>2 DEF Todo
  <2> QED BY <1>1, <1>5, <1>7, <2>1, <2>2 DEF JobsInv
<1>12. Undisturbed' => AllCovered'
  <2>1. CASE ~(old.alone /\ old.kind.name # "data")
    <3>1. \A s \in Statuses!Stations : Stale(s)' => s \in excused'
      BY <1>5, <1>10, <2>1 DEF Stale, Unsaved, Statuses!Misses
    <3> QED BY <3>1 DEF AllCovered, Covers
  <2>2. CASE old.alone /\ old.kind.name # "data"
    <3>1. Undisturbed /\ Progress(j)
      BY <1>1, <1>2, <2>2 DEF JobsInv, Undisturbed
    <3>2. AllCovered
      BY <3>1 DEF StatusesInv
    <3>3. \A s : ~Ahead(old, s)
      <4>1. \A i \in DOMAIN Pages : i \in Nat /\ i <= Len(Pages)
        BY PagesAssumption
      <4>2. old.page \in Nat /\ Len(Pages) \in Nat
        BY PagesAssumption DEF Push
      <4> QED BY <1>1, <1>2, <1>5, <4>1, <4>2 DEF Ahead
    <3>4. excused' = excused
      BY <1>5, <2>2
    <3>5. Covers(endpoint)'
      BY <1>2, <1>4, <1>5, <1>10, <3>1, <3>3, <3>4 DEF Progress, Covers
    <3>6. ASSUME NEW o \in Jobs, IsRead(o)' PROVE Covers(jobs[o].last)'
      <4>1. Covers(jobs[o].last) /\ jobs'[o] = jobs[o]
        BY <1>7, <3>2, <3>6 DEF AllCovered
      <4> QED BY <1>5, <1>10, <3>4, <4>1 DEF Covers
    <3> QED BY <3>5, <3>6 DEF AllCovered
  <2> QED BY <2>1, <2>2
<1> QED BY <1>8, <1>9, <1>11, <1>12 DEF StatusesInv

-----------------------------------------------------------------------------
(* The invariant, and what it says when no push is running. *)

LEMMA StatusesInitial == ASSUME Statuses!Init PROVE StatusesInv
<1>1. \A j \in Jobs : jobs[j] = Statuses!Idle /\ ~IsPush(j) /\ ~IsRead(j)
  BY DEF Statuses!Init, Statuses!Idle, IsPush, IsRead
<1>2. StatusesTypeOK
  <2>1. endpoint \in Result /\ endpoint.on = 1
    BY DEF Statuses!Init, Result
  <2> QED BY <2>1 DEF Statuses!Init, StatusesTypeOK
<1>3. DirectsAreStored
  BY DEF Statuses!Init, DirectsAreStored
<1>4. JobsInv
  BY <1>1 DEF JobsInv
<1>5. \A s \in Statuses!Stations : ~Stale(s)
  BY DEF Statuses!Init, Stale, Unsaved
<1>6. AllCovered
  BY <1>1, <1>5 DEF AllCovered, Covers
<1> QED BY <1>2, <1>3, <1>4, <1>6 DEF StatusesInv

LEMMA StatusesInvariant == MCSpec => []StatusesInv
<1>1. MCInit => StatusesInv
  BY StatusesInitial DEF MCInit
<1>2. StatusesInv /\ [MCNext]_<<focus, oVars, statusVars, partnerVars>> => StatusesInv'
  <2> SUFFICES ASSUME StatusesInv, Statuses!Next \/ UNCHANGED statusVars PROVE StatusesInv'
    BY DEF MCNext
  <2>1. CASE Statuses!Next
    <3>1. ASSUME NEW s \in Changing, Statuses!ProcessConnectorFromStatusNotification(s) PROVE StatusesInv'
      BY <3>1, StatusNotificationStep
    <3>2. ASSUME NEW j \in Jobs,
                 \/ Statuses!ReadEndpoint(j) \/ Statuses!StartPartial(j) \/ Statuses!ReadPage(j)
                 \/ Statuses!PatchEVSEStatus(j) \/ Statuses!SendEVSEStatuses(j) \/ Statuses!SendEVSEs(j)
                 \/ Statuses!Finish(j)
          PROVE  StatusesInv'
      BY <3>2, ReadEndpointStep, StartPartialStep, ReadPageStep, PatchEVSEStatusStep, SendEVSEStatusesStep,
         SendEVSEsStep, FinishStep
    <3> QED BY <2>1, <3>1, <3>2, TickStep, SaveChargingStationStep, PatchStep DEF Statuses!Next
  <2>2. CASE UNCHANGED statusVars
    <3>1. UNCHANGED <<clock, status, noted, unsaved, direct, partner, endpoint, jobs, excused>>
      BY <2>2 DEF statusVars
    <3>2. StatusesTypeOK' /\ DirectsAreStored' /\ clock <= clock'
      BY <3>1 DEF StatusesInv, StatusesTypeOK, DirectsAreStored, Unsaved
    <3>3. Beside
      BY <3>1, <3>2 DEF Beside, Stale, Unsaved
    <3> QED BY <3>2, <3>3, BesideKeeps
  <2> QED BY <2>1, <2>2
<1> QED BY <1>1, <1>2, PTL DEF MCSpec

\* When no push is running, a station whose status the partner does not show
\* is one the next scheduled push sends, unless its status was lost in one of
\* the races that are told apart (processOCPIEndpoint, sendEVSEStatuses,
\* processConnectorFromStatusNotification): for any number of stations, pages, jobs and
\* notifications.
THEOREM MissedIsAlwaysRepeated == MCSpec => []MissedIsRepeated
<1>1. StatusesInv => MissedIsRepeated
  <2> SUFFICES ASSUME StatusesInv, \A j \in Jobs : ~Statuses!Running(j)
               PROVE  \A s \in Statuses!Stations :
                        Statuses!Misses(s) => s \in endpoint.failed \/ noted[s] >= endpoint.on \/ s \in excused
    BY DEF MissedIsRepeated, Statuses!MissedIsRepeated
  <2>1. Undisturbed
    BY JobShape DEF StatusesInv, Undisturbed
  <2>2. Covers(endpoint)
    BY <2>1 DEF StatusesInv, AllCovered
  <2> QED BY <2>2 DEF Covers, Stale, Statuses!Misses
<1> QED BY <1>1, StatusesInvariant, PTL

-----------------------------------------------------------------------------
(* The session of an operator at a provider: the values. *)

Status == {"none", "PENDING", "ACTIVE", "COMPLETED", "CDR"}
Report == [status : Status, at : Nat, kwh : Nat, ended : BOOLEAN]
Message == [kind : {"put", "patch", "cdr", "pull-sessions", "pull-cdrs"}, session : Report, n : Nat]
Transaction == [session : Report, last : Nat, stopped : BOOLEAN, kwh : Nat, cdr : BOOLEAN]
Operator == [phase : {"new", "starting", "open", "refused", "updating", "stopping", "stopped", "posting"},
             at : Nat, kwh : Nat, session : SUBSET Report, cdr : BOOLEAN, tried : BOOLEAN,
             sessionChecked : BOOLEAN, cdrChecked : BOOLEAN]

SessionsTypeOK ==
  /\ cpo \in Operator /\ faults \in Nat
  /\ waiting \subseteq Message /\ net \subseteq Message /\ saved \subseteq Report
  /\ \A a \in answers : a.ok \in BOOLEAN
  /\ IsFiniteSet(DOMAIN emsp) /\ emsp \in [DOMAIN emsp -> Transaction]
  /\ \A h \in handlers : h.request \in Message /\ h.transaction \in Transaction

\* The time and the energy of the session no longer change.
Stopping(o) == o.phase \in {"stopping", "stopped", "posting"} \/ o.tried
Stopped(o) == o.phase \in {"stopped", "posting"}

\* What the operator has reported, once it has gone on.
Reported(s, o) ==
  /\ s.status # "none"
  /\ s.status = "ACTIVE" => s.at <= o.at
  /\ s.status = "COMPLETED" => s.at = o.at /\ s.kwh = o.kwh /\ Stopping(o)
  /\ s.status = "CDR" => s.kwh = o.kwh /\ Stopped(o)

\* The session of a patch is that of an update.
Sound(r, o) == Reported(r.session, o) /\ (r.kind = "patch" => r.session.status = "ACTIVE")

\* A new session has no readings, one whose CDR was accepted has stopped.
Ready(o) == (o.phase = "new" => o.at = 0 /\ o.kwh = 0) /\ (o.cdr => o.phase = "stopped")

ReportsAgree ==
  /\ Ready(cpo)
  /\ \A r \in net \cup waiting : Sound(r, cpo)
  /\ \A h \in handlers : Reported(h.request.session, cpo)
  /\ \A s \in saved \cup cpo.session : Reported(s, cpo)

One(S) == \A t \in S : \A u \in S : t = u
Begins == {"PENDING", "ACTIVE", "COMPLETED"}

\* A handler that is not alone has raced; one that is knows the transaction,
\* or there is none.
OneTransaction ==
  ~Raced(Begins) =>
    /\ One(DOMAIN emsp)
    /\ \A h \in handlers :
         h.request.session.status \in Begins =>
           handlers = {h} /\ (h.id \in DOMAIN emsp \/ DOMAIN emsp = {})

HasCDR(t) == t.cdr /\ t.kwh = cpo.kwh

CdrStays ==
  /\ saved # {} => DOMAIN emsp # {}
  /\ \A h \in handlers : h.request.session.status = "CDR" => h.id \in DOMAIN emsp /\ HasCDR(h.transaction)
  /\ ~Raced({"CDR"}) =>
       /\ \A h \in handlers : h.request.session.status = "CDR" => handlers = {h}
       /\ (\E s \in saved : s.status = "CDR") /\ One(DOMAIN emsp) =>
            /\ \A t \in DOMAIN emsp : HasCDR(emsp[t])
            /\ \A h \in handlers : h.request.session.status = "CDR"

IsStopped(t) == t.session.status = "COMPLETED" /\ t.stopped /\ t.kwh = cpo.kwh /\ t.last = cpo.at
Late(s) == s.status = "ACTIVE" /\ s.at = cpo.at

StopStays ==
  /\ \A h \in handlers : h.request.session.status = "COMPLETED" => IsStopped(h.transaction)
  /\ raced = {} =>
       /\ \A h \in handlers : handlers = {h}
       /\ Final # {} /\ (\A s \in saved : ~Late(s)) =>
            /\ \A t \in DOMAIN emsp : IsStopped(emsp[t])
            /\ \A h \in handlers : IsStopped(h.transaction) \/ Late(h.request.session)

SessionsInv == SessionsTypeOK /\ ReportsAgree /\ OneTransaction /\ CdrStays /\ StopStays

-----------------------------------------------------------------------------
(* A session: the transactions that are found. *)

LEMMA FoundFacts ==
  ASSUME IsFiniteSet(DOMAIN emsp)
  PROVE  /\ Found = {} \/ \E t : Found = {t} /\ DOMAIN emsp = {t}
         /\ One(DOMAIN emsp) /\ DOMAIN emsp # {} => Found = DOMAIN emsp
         /\ Cardinality(DOMAIN emsp) = 1 => One(DOMAIN emsp) /\ DOMAIN emsp # {}
         /\ One(DOMAIN emsp) => ~ (Cardinality(DOMAIN emsp) > 1)
<1> DEFINE S == DOMAIN emsp
<1>1. Cardinality(S) \in Nat /\ (Cardinality(S) = 0 <=> S = {})
  BY FS_CardinalityType, FS_EmptySet
<1>2. Cardinality(S) = 1 <=> \E t : S = {t}
  BY FS_Singleton
<1>3. One(S) /\ S # {} => \E t : S = {t}
  BY DEF One
<1>4. \A t : One({t})
  BY DEF One
<1>5. Found = IF Cardinality(S) = 1 THEN S ELSE {}
  BY DEF Found
<1> HIDE DEF S
<1>6. Found = {} \/ \E t : Found = {t} /\ S = {t}
  BY <1>2, <1>5
<1>7. One(S) /\ S # {} => Found = S
  BY <1>2, <1>3, <1>5
<1>8. Cardinality(S) = 1 => One(S) /\ S # {}
  BY <1>2, <1>4
<1>9. One(S) => ~ (Cardinality(S) > 1)
  <2>1. CASE S = {}
    BY <1>1, <2>1
  <2>2. CASE S # {}
    BY <1>1, <1>2, <1>3, <2>2
  <2> QED BY <2>1, <2>2
<1> QED BY <1>6, <1>7, <1>8, <1>9 DEF S

\* What a request finds, and what it leaves to be saved.
LEMMA Handled ==
  ASSUME SessionsTypeOK, NEW r \in Message, Sound(r, cpo), Handle(r)
  PROVE  \/ handlers' = handlers /\ raced' = raced
         \/ \E h, stored :
              /\ handlers' = handlers \cup {h}
              /\ raced' = raced \cup {{r.session.status, o.request.session.status} : o \in handlers}
              /\ h.request = r /\ h.transaction \in Transaction
              /\ \/ Found = {} /\ r.session.status \in Begins
                 \/ h.id \in DOMAIN emsp /\ Found = {h.id} /\ DOMAIN emsp = {h.id} /\ stored = emsp[h.id]
              /\ \/ /\ r.session.status = "CDR" /\ Found # {}
                    /\ h.transaction = WithCdr(stored, r.session)
                 \/ /\ r.session.status # "CDR"
                    /\ r.session.status = "COMPLETED" => h.transaction.stopped
                    /\ h.transaction.last = r.session.at /\ h.transaction.kwh = r.session.kwh
                    /\ h.transaction.session.status = r.session.status
                    /\ Found # {} => /\ ~stored.cdr /\ r.session.at >= stored.last
                                     /\ r.kind # "patch" => stored.session.status # "COMPLETED"
<1> DEFINE t == IF Found = {} THEN FreshID ELSE CHOOSE t \in Found : TRUE
           stored == IF Found = {} THEN NewTransaction ELSE emsp[t]
           read == IF r.kind = "patch" THEN Merged(stored, r) ELSE stored
           session == IF r.kind = "patch" THEN read.session ELSE r.session
           isCdr == session.status = "CDR"
           h == [request |-> r, id |-> t,
                 transaction |-> IF isCdr THEN WithCdr(read, session) ELSE WithSession(read, session)]
<1>1. \/ handlers' = handlers /\ raced' = raced
      \/ /\ ~ (Found = {} /\ (isCdr \/ r.kind = "patch")) /\ (isCdr \/ ~Ignored(read, session))
         /\ handlers' = handlers \cup {h}
         /\ raced' = raced \cup {{r.session.status, o.request.session.status} : o \in handlers}
  BY DEF Handle
<1>2. r.session \in Report /\ r.session.status # "none" /\ (r.kind = "patch" => r.session.status = "ACTIVE")
  BY DEF Message, Sound, Reported
<1>3. r.session.status \in Begins \cup {"CDR"}
  BY <1>2 DEF Report, Status, Begins
<1>4. Found # {} => t \in DOMAIN emsp /\ Found = {t} /\ DOMAIN emsp = {t}
  <2> SUFFICES ASSUME Found # {} PROVE t \in DOMAIN emsp /\ Found = {t} /\ DOMAIN emsp = {t}
    OBVIOUS
  <2>1. PICK u : Found = {u} /\ DOMAIN emsp = {u}
    BY FoundFacts DEF SessionsTypeOK
  <2>2. t = u
    BY <2>1
  <2> HIDE DEF t
  <2> QED BY <2>1, <2>2
<1> HIDE DEF t
<1>5. stored \in Transaction
  <2>1. NewTransaction \in Transaction
    BY DEF NewTransaction, Session, Transaction, Report, Status
  <2>2. Found # {} => emsp[t] \in Transaction
    BY <1>4 DEF SessionsTypeOK
  <2> QED BY <2>1, <2>2
<1> HIDE DEF stored
<1>6. /\ read \in Transaction /\ session \in Report
      /\ read.last = stored.last /\ read.stopped = stored.stopped /\ read.cdr = stored.cdr
      /\ session.status = r.session.status /\ session.at = r.session.at /\ session.kwh = r.session.kwh
      /\ r.kind # "patch" => read = stored /\ session = r.session
  <2>1. CASE r.kind = "patch"
    <3>1. PICK s \in Report : s = [r.session EXCEPT !.ended = stored.session.ended]
      BY <1>2, <1>5 DEF Report, Transaction
    <3>2. s.status = r.session.status /\ s.at = r.session.at /\ s.kwh = r.session.kwh
      BY <1>2, <3>1 DEF Report
    <3>3. read = [stored EXCEPT !.session = s]
      BY <2>1, <3>1 DEF Merged
    <3>4. /\ read \in Transaction /\ read.session = s
          /\ read.last = stored.last /\ read.stopped = stored.stopped /\ read.cdr = stored.cdr
      BY <1>5, <3>3 DEF Transaction
    <3> HIDE DEF read
    <3> QED BY <2>1, <3>1, <3>2, <3>4
  <2>2. CASE r.kind # "patch"
    BY <1>2, <1>5, <2>2
  <2> QED BY <2>1, <2>2
<1> HIDE DEF read, session
<1>7. CASE handlers' = handlers /\ raced' = raced
  BY <1>7
<1>8. CASE /\ ~ (Found = {} /\ (isCdr \/ r.kind = "patch")) /\ (isCdr \/ ~Ignored(read, session))
           /\ handlers' = handlers \cup {h}
           /\ raced' = raced \cup {{r.session.status, o.request.session.status} : o \in handlers}
  <2>1. h.request = r /\ h.id = t
    OBVIOUS
  <2>2. \/ Found = {} /\ r.session.status \in Begins
        \/ h.id \in DOMAIN emsp /\ Found = {h.id} /\ DOMAIN emsp = {h.id} /\ stored = emsp[h.id]
    BY <1>3, <1>4, <1>6, <1>8, <2>1 DEF stored
  <2>3. CASE isCdr
    <3>1. h.transaction = WithCdr(read, session) /\ r.kind # "patch" /\ Found # {}
      BY <1>2, <1>6, <1>8, <2>3
    <3>2. h.transaction = WithCdr(stored, r.session)
      BY <1>6, <3>1
    <3>3. WithCdr(stored, r.session) \in Transaction
      BY <1>2, <1>5 DEF WithCdr, Transaction, Report
    <3>4. r.session.status = "CDR"
      BY <1>6, <2>3
    <3> HIDE DEF h
    <3> QED BY <1>8, <2>1, <2>2, <3>1, <3>2, <3>3, <3>4
  <2>4. CASE ~isCdr
    <3>1. PICK u : u = WithSession(read, session)
      OBVIOUS
    <3>2. /\ u \in Transaction /\ u.last = session.at /\ u.kwh = session.kwh /\ u.session = session
          /\ u.stopped = (read.stopped \/ session.ended \/ session.status = "COMPLETED")
      BY <1>6, <3>1 DEF WithSession, Transaction, Report
    <3>3. h.transaction = u
      BY <2>4, <3>1
    <3>4. ~read.cdr /\ read.session.status # "COMPLETED" /\ ~ (session.at < read.last)
      BY <1>8, <2>4 DEF Ignored
    <3>5. session.at \in Nat /\ read.last \in Nat
      BY <1>6 DEF Report, Transaction
    <3>6. ~stored.cdr /\ r.session.at >= stored.last
          /\ (r.kind # "patch" => stored.session.status # "COMPLETED")
      BY <1>6, <3>4, <3>5
    <3>7. r.session.status # "CDR"
      BY <1>6, <2>4
    <3>8. r.session.status = "COMPLETED" => h.transaction.stopped
      BY <1>6, <3>2, <3>3
    <3> HIDE DEF h
    <3>9. /\ h.transaction \in Transaction
          /\ h.transaction.last = r.session.at /\ h.transaction.kwh = r.session.kwh
          /\ h.transaction.session.status = r.session.status
      BY <1>6, <3>2, <3>3
    <3>10. /\ handlers' = handlers \cup {h}
           /\ raced' = raced \cup {{r.session.status, o.request.session.status} : o \in handlers}
      BY <1>8
    <3> QED BY <2>1, <2>2, <3>6, <3>7, <3>8, <3>9, <3>10
  <2> QED BY <2>3, <2>4
<1> QED BY <1>1, <1>7, <1>8

-----------------------------------------------------------------------------
(* A session: the operator goes on. *)

\* The times only grow; once the session stops they and its energy stay.
GoesOn(o, p) ==
  /\ p.at >= o.at
  /\ Stopping(o) => Stopping(p) /\ p.at = o.at /\ p.kwh = o.kwh
  /\ Stopped(o) => Stopped(p)

LEMMA ReportedStays ==
  ASSUME NEW o \in Operator, NEW p \in Operator, GoesOn(o, p), NEW s \in Report, Reported(s, o)
  PROVE  Reported(s, p)
<1>1. o.at \in Nat /\ p.at \in Nat /\ s.at \in Nat
  BY DEF Operator, Report
<1>2. Stopped(o) => Stopping(o)
  BY DEF Stopped, Stopping
<1> QED BY <1>1, <1>2 DEF Reported, GoesOn

\* What an operator that goes on leaves true.
LEMMA OperatorGoesOn ==
  ASSUME SessionsTypeOK, ReportsAgree, cpo' \in Operator, faults' \in Nat, GoesOn(cpo, cpo'), Ready(cpo'),
         answers' \subseteq answers, UNCHANGED <<emsp, handlers, saved>>,
         \A r \in net' \cup waiting' : r \in net \cup waiting \/ (r \in Message /\ Sound(r, cpo')),
         \A s \in cpo'.session : s \in cpo.session \/ \E r \in waiting : s = r.session
  PROVE  SessionsTypeOK' /\ ReportsAgree'
<1>1. cpo \in Operator
  BY DEF SessionsTypeOK
<1>2. ASSUME NEW r \in net \cup waiting PROVE r \in Message /\ r.session \in Report /\ Sound(r, cpo')
  <2>1. r \in Message /\ r.session \in Report
    BY <1>2 DEF SessionsTypeOK, Message
  <2>2. Sound(r, cpo)
    BY <1>2 DEF ReportsAgree
  <2> QED BY <1>1, <2>1, <2>2, ReportedStays DEF Sound
<1>3. \A r \in net' \cup waiting' : r \in Message /\ Sound(r, cpo')
  BY <1>2
<1>4. \A h \in handlers' : Reported(h.request.session, cpo')
  <2>1. \A h \in handlers : Reported(h.request.session, cpo) /\ h.request.session \in Report
    BY DEF ReportsAgree, SessionsTypeOK, Message
  <2> QED BY <1>1, <2>1, ReportedStays
<1>5. \A s \in saved' \cup cpo'.session : Reported(s, cpo')
  <2>1. \A s \in saved \cup cpo.session : Reported(s, cpo) /\ s \in Report
    BY <1>1 DEF ReportsAgree, SessionsTypeOK, Operator
  <2>2. \A s \in saved \cup cpo.session : Reported(s, cpo')
    BY <1>1, <2>1, ReportedStays
  <2> QED BY <1>2, <2>2 DEF Sound
<1>6. ReportsAgree'
  BY <1>3, <1>4, <1>5 DEF ReportsAgree
<1>7. SessionsTypeOK'
  BY <1>3 DEF SessionsTypeOK
<1> QED BY <1>6, <1>7

LEMMA SendFacts ==
  ASSUME SessionsTypeOK, NEW kind \in {"put", "patch", "cdr"}, NEW s \in Report,
         NEW phase \in {"starting", "updating", "stopping", "posting"}, NEW at \in Nat, NEW kwh \in Nat,
         Send(kind, s, phase, at, kwh)
  PROVE  /\ cpo' \in Operator /\ cpo'.phase = phase /\ cpo'.at = at /\ cpo'.kwh = kwh
         /\ cpo'.session = cpo.session /\ cpo'.tried = cpo.tried /\ cpo'.cdr = cpo.cdr
         /\ \E r \in Message : /\ r.kind = kind /\ r.session = s
                               /\ waiting' = {r} /\ net' = net \cup {r}
         /\ UNCHANGED <<answers, emsp, handlers, unknown, faults, pulls, raced, saved>>
<1>1. cpo \in Operator /\ faults \in Nat
  BY DEF SessionsTypeOK
<1>2. cpo' = [cpo EXCEPT !.phase = phase, !.at = at, !.kwh = kwh]
  BY DEF Send
<1>3. /\ cpo' \in Operator /\ cpo'.phase = phase /\ cpo'.at = at /\ cpo'.kwh = kwh
      /\ cpo'.session = cpo.session /\ cpo'.tried = cpo.tried /\ cpo'.cdr = cpo.cdr
  BY <1>1, <1>2 DEF Operator
<1>4. PICK r : r = [kind |-> kind, session |-> s, n |-> faults]
  OBVIOUS
<1>5. r \in Message /\ r.kind = kind /\ r.session = s
  BY <1>1, <1>4 DEF Message
<1>6. waiting' = {r} /\ net' = net \cup {r}
  BY <1>4 DEF Send
<1>7. UNCHANGED <<answers, emsp, handlers, unknown, faults, pulls, raced, saved>>
  BY DEF Send
<1> QED BY <1>3, <1>5, <1>6, <1>7

\* A message that fits what the operator is then.
LEMMA SendStep ==
  ASSUME SessionsTypeOK, ReportsAgree, NEW kind \in {"put", "patch", "cdr"}, NEW s \in Report,
         NEW phase \in {"starting", "updating", "stopping", "posting"}, NEW at \in Nat, NEW kwh \in Nat,
         Send(kind, s, phase, at, kwh), GoesOn(cpo, cpo'), Reported(s, cpo'),
         kind = "patch" => s.status = "ACTIVE", cpo.phase = "stopped" => ~cpo.cdr
  PROVE  SessionsTypeOK' /\ ReportsAgree'
<1>1. PICK r \in Message : /\ r.kind = kind /\ r.session = s
                           /\ waiting' = {r} /\ net' = net \cup {r}
  BY SendFacts
<1>2. /\ cpo' \in Operator /\ cpo'.session = cpo.session /\ cpo'.phase = phase /\ cpo'.cdr = cpo.cdr
      /\ UNCHANGED <<faults, answers, emsp, handlers, saved>>
  BY SendFacts
<1>3. Sound(r, cpo')
  BY <1>1 DEF Sound
<1>4. \A x \in net' \cup waiting' : x \in net \cup waiting \/ (x \in Message /\ Sound(x, cpo'))
  BY <1>1, <1>3
<1>5. faults' \in Nat
  BY <1>2 DEF SessionsTypeOK
<1>6. \A x \in cpo'.session : x \in cpo.session \/ \E y \in waiting : x = y.session
  BY <1>2
<1>7. Ready(cpo')
  BY <1>2 DEF Ready, ReportsAgree
<1> QED BY <1>2, <1>4, <1>5, <1>6, <1>7, OperatorGoesOn

OperatorNext ==
  \/ StartSession \/ UpdateSession \/ StopSession \/ PushCdr \/ Answered \/ TimesOut \/ Retry
  \/ CheckSession \/ CheckCdr

\* An answer, or none, is taken.
LEMMA ContinueFacts ==
  ASSUME SessionsTypeOK, Ready(cpo), NEW ok \in BOOLEAN, cpo' = Continue(ok)
  PROVE  /\ cpo' \in Operator /\ GoesOn(cpo, cpo') /\ Ready(cpo')
         /\ \A s \in cpo'.session : s \in cpo.session \/ \E r \in waiting : s = r.session
<1>1. cpo \in Operator
  BY DEF SessionsTypeOK
<1>2. PICK session : session = {r.session : r \in waiting}
  OBVIOUS
<1>3. session \in SUBSET Report
  BY <1>2 DEF SessionsTypeOK, Message
<1>4. cpo.at \in Nat /\ cpo.at >= cpo.at
  BY <1>1 DEF Operator
<1>5. CASE cpo.phase = "starting"
  <2>1. cpo' = [cpo EXCEPT !.phase = IF ok THEN "open" ELSE "refused", !.session = IF ok THEN session ELSE {}]
    BY <1>2, <1>5 DEF Continue
  <2>2. /\ cpo' \in Operator /\ cpo'.at = cpo.at /\ cpo'.kwh = cpo.kwh /\ cpo'.tried = cpo.tried
        /\ cpo'.session \in {session, {}} /\ cpo'.cdr = cpo.cdr /\ cpo'.phase # "new"
    BY <1>1, <1>3, <2>1 DEF Operator
  <2> QED BY <1>2, <1>4, <1>5, <2>2 DEF GoesOn, Stopping, Stopped, Ready
<1>6. CASE cpo.phase = "updating"
  <2>1. cpo' = [cpo EXCEPT !.phase = "open", !.session = session]
    BY <1>2, <1>6 DEF Continue
  <2>2. /\ cpo' \in Operator /\ cpo'.at = cpo.at /\ cpo'.kwh = cpo.kwh /\ cpo'.tried = cpo.tried
        /\ cpo'.session = session /\ cpo'.cdr = cpo.cdr /\ cpo'.phase # "new"
    BY <1>1, <1>3, <2>1 DEF Operator
  <2> QED BY <1>2, <1>4, <1>6, <2>2 DEF GoesOn, Stopping, Stopped, Ready
<1>7. CASE cpo.phase = "stopping"
  <2>1. cpo' = [cpo EXCEPT !.phase = IF ok THEN "stopped" ELSE "open", !.tried = TRUE,
                           !.session = IF ok THEN session ELSE @]
    BY <1>2, <1>7 DEF Continue
  <2>2. /\ cpo' \in Operator /\ cpo'.at = cpo.at /\ cpo'.kwh = cpo.kwh /\ cpo'.tried
        /\ cpo'.session \in {session, cpo.session} /\ cpo'.cdr = cpo.cdr /\ cpo'.phase # "new"
    BY <1>1, <1>3, <2>1 DEF Operator
  <2> QED BY <1>2, <1>4, <1>7, <2>2 DEF GoesOn, Stopping, Stopped, Ready
<1>8. CASE cpo.phase \notin {"starting", "updating", "stopping"}
  <2>1. cpo' = [cpo EXCEPT !.phase = "stopped", !.cdr = ok]
    BY <1>2, <1>8 DEF Continue
  <2>2. /\ cpo' \in Operator /\ cpo'.at = cpo.at /\ cpo'.kwh = cpo.kwh /\ cpo'.phase = "stopped"
        /\ cpo'.session = cpo.session
    BY <1>1, <2>1 DEF Operator
  <2> QED BY <1>4, <2>2 DEF GoesOn, Stopping, Stopped, Ready
<1> QED BY <1>5, <1>6, <1>7, <1>8

\* Every step of the operator.
LEMMA OperatorSteps ==
  ASSUME SessionsTypeOK, ReportsAgree, OperatorNext
  PROVE  /\ SessionsTypeOK' /\ ReportsAgree'
         /\ GoesOn(cpo, cpo') /\ UNCHANGED <<emsp, handlers, saved, raced>>
<1>1. cpo \in Operator /\ cpo.at \in Nat /\ cpo.kwh \in Nat /\ faults \in Nat
  BY DEF SessionsTypeOK, Operator
<1>2. CASE StartSession
  <2>1. PICK s : s = Session("PENDING", 0, 0, FALSE)
    OBVIOUS
  <2>2. s \in Report /\ s.status = "PENDING"
    BY <2>1 DEF Session, Report, Status
  <2>3. cpo.phase = "new" /\ Send("put", s, "starting", 0, 0)
    BY <1>2, <2>1 DEF StartSession
  <2>4. /\ cpo'.at = 0 /\ cpo'.kwh = 0 /\ cpo'.tried = cpo.tried /\ cpo'.phase = "starting"
        /\ UNCHANGED <<emsp, handlers, saved, raced>>
    BY <2>2, <2>3, SendFacts
  <2>5. cpo.at = 0 /\ cpo.kwh = 0
    BY <2>3 DEF ReportsAgree, Ready
  <2>6. GoesOn(cpo, cpo')
    BY <2>3, <2>4, <2>5 DEF GoesOn, Stopping, Stopped
  <2>7. Reported(s, cpo')
    BY <2>2 DEF Reported
  <2> QED BY <2>2, <2>3, <2>4, <2>6, <2>7, SendStep
<1>3. CASE UpdateSession
  <2>1. PICK s : s = Session("ACTIVE", cpo.at + 1, cpo.kwh + 1, FALSE)
    OBVIOUS
  <2>2. s \in Report /\ s.status = "ACTIVE" /\ s.at = cpo.at + 1
    BY <1>1, <2>1 DEF Session, Report, Status
  <2>3. cpo.phase = "open" /\ ~cpo.tried /\ Send("patch", s, "updating", cpo.at + 1, cpo.kwh + 1)
    BY <1>3, <2>1 DEF UpdateSession
  <2>4. cpo'.at = cpo.at + 1 /\ UNCHANGED <<emsp, handlers, saved, raced>>
    BY <1>1, <2>2, <2>3, SendFacts
  <2>5. GoesOn(cpo, cpo')
    BY <1>1, <2>3, <2>4 DEF GoesOn, Stopping, Stopped
  <2>6. Reported(s, cpo')
    BY <1>1, <2>2, <2>4 DEF Reported
  <2> QED BY <1>1, <2>2, <2>3, <2>4, <2>5, <2>6, SendStep
<1>4. CASE StopSession
  <2>1. PICK at \in {cpo.at, cpo.at + 1}, kwh \in {cpo.kwh, cpo.kwh + 1} :
          /\ cpo.phase = "open" /\ (cpo.tried => at = cpo.at /\ kwh = cpo.kwh)
          /\ Send("put", Session("COMPLETED", at, kwh, TRUE), "stopping", at, kwh)
    BY <1>4 DEF StopSession
  <2>2. PICK s : s = Session("COMPLETED", at, kwh, TRUE)
    OBVIOUS
  <2>3. at \in Nat /\ kwh \in Nat /\ at >= cpo.at
    BY <1>1
  <2>4. s \in Report /\ s.status = "COMPLETED" /\ s.at = at /\ s.kwh = kwh
    BY <2>2, <2>3 DEF Session, Report, Status
  <2>5. Send("put", s, "stopping", at, kwh)
    BY <2>1, <2>2
  <2>6. /\ cpo'.at = at /\ cpo'.kwh = kwh /\ cpo'.phase = "stopping"
        /\ UNCHANGED <<emsp, handlers, saved, raced>>
    BY <2>3, <2>4, <2>5, SendFacts
  <2>7. GoesOn(cpo, cpo')
    BY <2>1, <2>3, <2>6 DEF GoesOn, Stopping, Stopped
  <2>8. Reported(s, cpo')
    BY <2>4, <2>6 DEF Reported, Stopping
  <2> QED BY <2>1, <2>3, <2>4, <2>5, <2>6, <2>7, <2>8, SendStep
<1>5. CASE PushCdr
  <2>1. PICK s : s = Session("CDR", cpo.at, cpo.kwh, TRUE)
    OBVIOUS
  <2>2. s \in Report /\ s.status = "CDR" /\ s.kwh = cpo.kwh
    BY <1>1, <2>1 DEF Session, Report, Status
  <2>3. cpo.phase = "stopped" /\ ~cpo.cdr /\ Send("cdr", s, "posting", cpo.at, cpo.kwh)
    BY <1>5, <2>1 DEF PushCdr, WithoutCdr
  <2>4. /\ cpo'.at = cpo.at /\ cpo'.kwh = cpo.kwh /\ cpo'.phase = "posting"
        /\ UNCHANGED <<emsp, handlers, saved, raced>>
    BY <1>1, <2>2, <2>3, SendFacts
  <2>5. GoesOn(cpo, cpo')
    BY <1>1, <2>4 DEF GoesOn, Stopping, Stopped
  <2>6. Reported(s, cpo')
    BY <2>2, <2>4 DEF Reported, Stopped
  <2> QED BY <1>1, <2>2, <2>3, <2>4, <2>5, <2>6, SendStep
<1>6. CASE Answered
  <2>1. PICK a \in answers : cpo' = Continue(a.ok) /\ answers' = answers \ {a}
    BY <1>6 DEF Answered
  <2>2. waiting' = {} /\ UNCHANGED <<net, faults, emsp, handlers, saved, raced>>
    BY <1>6 DEF Answered
  <2>3. a.ok \in BOOLEAN /\ Ready(cpo)
    BY DEF SessionsTypeOK, ReportsAgree
  <2>4. /\ cpo' \in Operator /\ GoesOn(cpo, cpo') /\ Ready(cpo')
        /\ \A s \in cpo'.session : s \in cpo.session \/ \E r \in waiting : s = r.session
    BY <2>1, <2>3, ContinueFacts
  <2>5. faults' \in Nat /\ answers' \subseteq answers
    BY <1>1, <2>1, <2>2
  <2>6. \A r \in net' \cup waiting' : r \in net \cup waiting \/ (r \in Message /\ Sound(r, cpo'))
    BY <2>2
  <2> QED BY <2>2, <2>4, <2>5, <2>6, OperatorGoesOn
<1>7. CASE TimesOut
  <2>1. cpo' = Continue(FALSE) /\ Ready(cpo)
    BY <1>7 DEF TimesOut, ReportsAgree
  <2>2. /\ waiting' = {} /\ net' \subseteq net /\ faults' = faults + 1
        /\ UNCHANGED <<answers, emsp, handlers, saved, raced>>
    BY <1>7 DEF TimesOut
  <2>3. /\ cpo' \in Operator /\ GoesOn(cpo, cpo') /\ Ready(cpo')
        /\ \A s \in cpo'.session : s \in cpo.session \/ \E r \in waiting : s = r.session
    BY <2>1, ContinueFacts
  <2>4. faults' \in Nat /\ answers' \subseteq answers
    BY <1>1, <2>2
  <2>5. \A r \in net' \cup waiting' : r \in net \cup waiting \/ (r \in Message /\ Sound(r, cpo'))
    BY <2>2
  <2> QED BY <2>2, <2>3, <2>4, <2>5, OperatorGoesOn
<1>8. CASE Retry
  <2>1. PICK r \in waiting : waiting' = {[r EXCEPT !.n = faults + 1]} /\ net' = net \cup waiting'
    BY <1>8 DEF Retry
  <2>2. faults' = faults + 1 /\ UNCHANGED <<cpo, answers, emsp, handlers, saved, raced>>
    BY <1>8 DEF Retry
  <2>3. r \in Message /\ Sound(r, cpo)
    BY DEF SessionsTypeOK, ReportsAgree
  <2>4. PICK x : x = [r EXCEPT !.n = faults + 1]
    OBVIOUS
  <2>5. x \in Message /\ x.kind = r.kind /\ x.session = r.session
    BY <1>1, <2>3, <2>4 DEF Message
  <2>6. Sound(x, cpo')
    BY <2>2, <2>3, <2>5 DEF Sound
  <2>7. GoesOn(cpo, cpo')
    BY <1>1, <2>2 DEF GoesOn
  <2>8. waiting' = {x} /\ net' = net \cup {x}
    BY <2>1, <2>4
  <2>9. faults' \in Nat /\ cpo' \in Operator /\ answers' \subseteq answers
    BY <1>1, <2>2
  <2>10. \A y \in net' \cup waiting' : y \in net \cup waiting \/ (y \in Message /\ Sound(y, cpo'))
    BY <2>5, <2>6, <2>8
  <2>11. Ready(cpo') /\ \A y \in cpo'.session : y \in cpo.session
    BY <2>2 DEF ReportsAgree
  <2> QED BY <2>2, <2>7, <2>9, <2>10, <2>11, OperatorGoesOn
<1>9. CASE CheckSession
  <2>1. /\ cpo' = [cpo EXCEPT !.sessionChecked = TRUE]
        /\ UNCHANGED <<waiting, net, answers, faults, emsp, handlers, saved, raced>>
    BY <1>9 DEF CheckSession
  <2>2. /\ cpo' \in Operator /\ cpo'.at = cpo.at /\ cpo'.kwh = cpo.kwh /\ cpo'.phase = cpo.phase
        /\ cpo'.tried = cpo.tried /\ cpo'.session = cpo.session /\ cpo'.cdr = cpo.cdr
    BY <1>1, <2>1 DEF Operator
  <2>3. GoesOn(cpo, cpo') /\ Ready(cpo')
    BY <1>1, <2>2 DEF GoesOn, Stopping, Stopped, Ready, ReportsAgree
  <2>4. faults' \in Nat /\ answers' \subseteq answers /\ net' \cup waiting' = net \cup waiting
    BY <1>1, <2>1
  <2> QED BY <2>1, <2>2, <2>3, <2>4, OperatorGoesOn
<1>10. CASE CheckCdr
  <2>1. PICK r : r = [kind |-> "cdr", session |-> Session("CDR", cpo.at, cpo.kwh, TRUE), n |-> faults]
    OBVIOUS
  <2>2. /\ cpo' = [cpo EXCEPT !.cdrChecked = TRUE] /\ cpo.cdr /\ net' \in {net, net \cup {r}}
        /\ UNCHANGED <<waiting, answers, faults, emsp, handlers, saved, raced>>
    BY <1>10, <2>1 DEF CheckCdr, CdrToCheck
  <2>3. /\ cpo' \in Operator /\ cpo'.at = cpo.at /\ cpo'.kwh = cpo.kwh /\ cpo'.phase = cpo.phase
        /\ cpo'.tried = cpo.tried /\ cpo'.session = cpo.session /\ cpo'.cdr = cpo.cdr
    BY <1>1, <2>2 DEF Operator
  <2>4. GoesOn(cpo, cpo') /\ Ready(cpo')
    BY <1>1, <2>3 DEF GoesOn, Stopping, Stopped, Ready, ReportsAgree
  <2>5. r \in Message /\ r.kind = "cdr" /\ r.session.status = "CDR" /\ r.session.kwh = cpo.kwh
    BY <1>1, <2>1 DEF Message, Session, Report, Status
  <2>6. Stopped(cpo)
    BY <2>2 DEF ReportsAgree, Ready, Stopped
  <2>7. Sound(r, cpo')
    BY <2>3, <2>5, <2>6 DEF Sound, Reported, Stopped
  <2> QED BY <1>1, <2>2, <2>3, <2>4, <2>5, <2>7, OperatorGoesOn
<1> QED BY <1>2, <1>3, <1>4, <1>5, <1>6, <1>7, <1>8, <1>9, <1>10 DEF OperatorNext
-----------------------------------------------------------------------------
(* A session: what the steps of the operator leave to the provider. *)

LEMMA OperatorKeeps ==
  ASSUME SessionsInv, cpo' \in Operator, GoesOn(cpo, cpo'), UNCHANGED <<emsp, handlers, saved, raced>>
  PROVE  OneTransaction' /\ CdrStays' /\ StopStays'
<1>1. OneTransaction'
  BY DEF SessionsInv, OneTransaction, Raced
<1>2. \A s : s.status = "CDR" /\ Reported(s, cpo) => cpo'.kwh = cpo.kwh
  BY DEF Reported, Stopped, Stopping, GoesOn
<1>3. \A s : s.status = "COMPLETED" /\ Reported(s, cpo) => cpo'.kwh = cpo.kwh /\ cpo'.at = cpo.at
  BY DEF Reported, GoesOn
<1>4. (\A s \in saved : Reported(s, cpo)) /\ (\A h \in handlers : Reported(h.request.session, cpo))
  BY DEF SessionsInv, ReportsAgree
<1>5. CdrStays'
  <2>1. CdrStays
    BY DEF SessionsInv
  <2>2. \A h \in handlers : h.request.session.status = "CDR" => cpo'.kwh = cpo.kwh
    BY <1>2, <1>4
  <2>3. (\E s \in saved : s.status = "CDR") => cpo'.kwh = cpo.kwh
    BY <1>2, <1>4
  <2> QED BY <2>1, <2>2, <2>3 DEF CdrStays, HasCDR, Raced
<1>6. StopStays'
  <2>1. StopStays
    BY DEF SessionsInv
  <2>2. \A h \in handlers : h.request.session.status = "COMPLETED" => cpo'.kwh = cpo.kwh /\ cpo'.at = cpo.at
    BY <1>3, <1>4
  <2>3. Final # {} => cpo'.kwh = cpo.kwh /\ cpo'.at = cpo.at
    BY <1>3, <1>4 DEF Final
  <2>4. Final' = Final
    BY DEF Final
  <2> QED BY <2>1, <2>2, <2>3, <2>4 DEF StopStays, IsStopped, Late
<1> QED BY <1>1, <1>5, <1>6

-----------------------------------------------------------------------------
(* A session: the provider handles a request. *)

LEMMA HandleAnswers ==
  ASSUME NEW r, Handle(r), \A a \in answers : a.ok \in BOOLEAN
  PROVE  \A a \in answers' : a.ok \in BOOLEAN
<1>1. answers' \in {answers, Answer(r, TRUE), Answer(r, FALSE)}
  BY DEF Handle
<1>2. ASSUME NEW ok \in BOOLEAN PROVE \A a \in Answer(r, ok) : a.ok \in BOOLEAN
  BY DEF Answer
<1> QED BY <1>1, <1>2

LEMMA HandleSteps ==
  ASSUME SessionsInv, NEW r \in Message, Sound(r, cpo), Handle(r), net' \subseteq net,
         UNCHANGED <<cpo, waiting, emsp, saved, faults>>
  PROVE  SessionsInv'
<1>1. SessionsTypeOK /\ ReportsAgree /\ OneTransaction /\ CdrStays /\ StopStays
  BY DEF SessionsInv
<1>2. CASE handlers' = handlers /\ raced' = raced
  <2>1. \A a \in answers' : a.ok \in BOOLEAN
    BY <1>1, HandleAnswers DEF SessionsTypeOK
  <2>2. SessionsTypeOK'
    BY <1>1, <1>2, <2>1 DEF SessionsTypeOK
  <2>3. ReportsAgree'
    BY <1>1, <1>2 DEF ReportsAgree
  <2>4. OneTransaction' /\ CdrStays'
    BY <1>1, <1>2 DEF OneTransaction, CdrStays, HasCDR, Raced
  <2>5. StopStays'
    BY <1>1, <1>2 DEF StopStays, IsStopped, Late, Final
  <2> QED BY <2>2, <2>3, <2>4, <2>5 DEF SessionsInv
<1>3. ASSUME NEW h, NEW stored,
             handlers' = handlers \cup {h},
             raced' = raced \cup {{r.session.status, o.request.session.status} : o \in handlers},
             h.request = r, h.transaction \in Transaction,
             \/ Found = {} /\ r.session.status \in Begins
             \/ h.id \in DOMAIN emsp /\ Found = {h.id} /\ DOMAIN emsp = {h.id} /\ stored = emsp[h.id],
             \/ /\ r.session.status = "CDR" /\ Found # {}
                /\ h.transaction = WithCdr(stored, r.session)
             \/ /\ r.session.status # "CDR"
                /\ r.session.status = "COMPLETED" => h.transaction.stopped
                /\ h.transaction.last = r.session.at /\ h.transaction.kwh = r.session.kwh
                /\ h.transaction.session.status = r.session.status
                /\ Found # {} => /\ ~stored.cdr /\ r.session.at >= stored.last
                                 /\ r.kind # "patch" => stored.session.status # "COMPLETED"
      PROVE  SessionsInv'
  <2>1. Reported(r.session, cpo) /\ (r.kind = "patch" => r.session.status = "ACTIVE")
    BY DEF Sound
  <2>2. /\ r.session \in Report /\ r.session.at \in Nat /\ cpo.at \in Nat
        /\ IsFiniteSet(DOMAIN emsp) /\ \A t \in DOMAIN emsp : emsp[t] \in Transaction
    BY <1>1 DEF Message, Report, SessionsTypeOK, Operator
  <2>3. SessionsTypeOK'
    <3>1. \A a \in answers' : a.ok \in BOOLEAN
      BY <1>1, HandleAnswers DEF SessionsTypeOK
    <3> QED BY <1>1, <1>3, <3>1 DEF SessionsTypeOK
  <2>4. ReportsAgree'
    BY <1>1, <1>3, <2>1 DEF ReportsAgree
  <2>5. \A o \in handlers : {r.session.status, o.request.session.status} \in raced'
    BY <1>3
  <2>6. raced \subseteq raced' /\ \A S : ~Raced(S)' => ~Raced(S)
    BY <1>3 DEF Raced
  <2>7. \A S, o : o \in handlers /\ (r.session.status \in S \/ o.request.session.status \in S) => Raced(S)'
    BY <2>5 DEF Raced
  <2>8. h.request.session = r.session
    BY <1>3
  <2>9. OneTransaction'
    <3> SUFFICES ASSUME ~Raced(Begins)'
                 PROVE  /\ One(DOMAIN emsp)
                        /\ \A g \in handlers' : g.request.session.status \in Begins =>
                             handlers' = {g} /\ (g.id \in DOMAIN emsp \/ DOMAIN emsp = {})
      BY DEF OneTransaction
    <3>1. One(DOMAIN emsp)
      BY <1>1, <2>6 DEF OneTransaction
    <3>2. ~ (\E o \in handlers : o.request.session.status \in Begins)
      BY <2>7
    <3>3. r.session.status \in Begins => handlers = {}
      BY <2>7
    <3>4. Found = {} => DOMAIN emsp = {}
      BY <2>2, <3>1, FoundFacts
    <3> QED BY <1>3, <2>8, <3>1, <3>2, <3>3, <3>4
  <2>10. CdrStays'
    <3>1. r.session.status = "CDR" => h.id \in DOMAIN emsp /\ h.transaction.cdr /\ h.transaction.kwh = cpo.kwh
      <4> SUFFICES ASSUME r.session.status = "CDR"
                   PROVE  h.id \in DOMAIN emsp /\ h.transaction.cdr /\ h.transaction.kwh = cpo.kwh
        OBVIOUS
      <4>1. h.id \in DOMAIN emsp /\ stored \in Transaction /\ h.transaction = WithCdr(stored, r.session)
        BY <1>3, <2>2
      <4>2. h.transaction.cdr /\ h.transaction.kwh = r.session.kwh
        BY <4>1 DEF WithCdr, Transaction
      <4> QED BY <2>1, <4>1, <4>2 DEF Reported
    <3>2. \A g \in handlers' : g.request.session.status = "CDR" => g.id \in DOMAIN emsp /\ HasCDR(g.transaction)
      BY <1>1, <1>3, <2>8, <3>1 DEF CdrStays, HasCDR
    <3>3. ASSUME ~Raced({"CDR"})'
          PROVE  /\ \A g \in handlers' : g.request.session.status = "CDR" => handlers' = {g}
                 /\ (\E s \in saved : s.status = "CDR") /\ One(DOMAIN emsp) =>
                      /\ \A t \in DOMAIN emsp : HasCDR(emsp[t])
                      /\ \A g \in handlers' : g.request.session.status = "CDR"
      <4>1. ~ (\E o \in handlers : o.request.session.status = "CDR") /\ (r.session.status = "CDR" => handlers = {})
        BY <2>7, <3>3
      <4>2. \A g \in handlers' : g.request.session.status = "CDR" => handlers' = {g}
        BY <1>3, <2>8, <4>1
      <4>3. ASSUME \E s \in saved : s.status = "CDR", One(DOMAIN emsp)
            PROVE  /\ \A t \in DOMAIN emsp : HasCDR(emsp[t])
                   /\ \A g \in handlers' : g.request.session.status = "CDR"
        <5>1. /\ DOMAIN emsp # {} /\ \A t \in DOMAIN emsp : HasCDR(emsp[t])
              /\ \A g \in handlers : g.request.session.status = "CDR"
          BY <1>1, <2>6, <3>3, <4>3 DEF CdrStays
        <5>2. Found # {}
          BY <2>2, <4>3, <5>1, FoundFacts
        <5>3. stored = emsp[h.id] /\ h.id \in DOMAIN emsp
          BY <1>3, <5>2
        <5>4. r.session.status = "CDR"
          BY <1>3, <5>1, <5>2, <5>3 DEF HasCDR
        <5> QED BY <1>3, <2>8, <5>1, <5>4
      <4> QED BY <4>2, <4>3
    <3>4. saved # {} => DOMAIN emsp # {}
      BY <1>1 DEF CdrStays
    <3> QED BY <3>2, <3>3, <3>4 DEF CdrStays, HasCDR
  <2>11. StopStays'
    <3>1. r.session.status = "COMPLETED" => IsStopped(h.transaction)
      BY <1>3, <2>1 DEF Reported, IsStopped
    <3>2. \A g \in handlers' : g.request.session.status = "COMPLETED" => IsStopped(g.transaction)
      BY <1>1, <1>3, <2>8, <3>1 DEF StopStays
    <3>3. ASSUME raced' = {}
          PROVE  /\ \A g \in handlers' : handlers' = {g}
                 /\ Final # {} /\ (\A s \in saved : ~Late(s)) =>
                      /\ \A t \in DOMAIN emsp : IsStopped(emsp[t])
                      /\ \A g \in handlers' : IsStopped(g.transaction) \/ Late(g.request.session)
      <4>1. handlers = {} /\ raced = {}
        BY <2>5, <2>6, <3>3
      <4>2. handlers' = {h}
        BY <1>3, <4>1
      <4>3. ASSUME Final # {}, \A s \in saved : ~Late(s)
            PROVE  /\ \A t \in DOMAIN emsp : IsStopped(emsp[t])
                   /\ IsStopped(h.transaction) \/ Late(r.session)
        <5>1. \A t \in DOMAIN emsp : IsStopped(emsp[t])
          BY <1>1, <4>1, <4>3 DEF StopStays
        <5>2. One(DOMAIN emsp) /\ DOMAIN emsp # {}
          BY <1>1, <4>1, <4>3 DEF OneTransaction, CdrStays, Raced, Final
        <5>3. Found # {}
          BY <2>2, <5>2, FoundFacts
        <5>4. stored = emsp[h.id] /\ stored \in Transaction /\ IsStopped(stored)
          BY <1>3, <2>2, <5>1, <5>3
        <5>5. CASE r.session.status = "CDR"
          <6>1. h.transaction = WithCdr(stored, r.session)
            BY <1>3, <5>5
          <6>2. /\ h.transaction.session = stored.session /\ h.transaction.last = stored.last
                /\ h.transaction.stopped /\ h.transaction.kwh = r.session.kwh
            BY <5>4, <6>1 DEF WithCdr, Transaction
          <6> QED BY <2>1, <5>1, <5>4, <5>5, <6>2 DEF IsStopped, Reported
        <5>6. CASE r.session.status # "CDR"
          <6>1. r.kind = "patch" /\ r.session.at >= stored.last
            BY <1>3, <5>3, <5>4, <5>6 DEF IsStopped
          <6>2. r.session.status = "ACTIVE" /\ r.session.at <= cpo.at
            BY <2>1, <6>1 DEF Reported
          <6>3. stored.last = cpo.at
            BY <5>4 DEF IsStopped
          <6> QED BY <2>2, <5>1, <6>1, <6>2, <6>3 DEF Late
        <5> QED BY <5>5, <5>6
      <4> QED BY <2>8, <4>2, <4>3
    <3> QED BY <3>2, <3>3 DEF StopStays, IsStopped, Late, Final
  <2> QED BY <2>3, <2>4, <2>9, <2>10, <2>11 DEF SessionsInv
<1>4. \/ handlers' = handlers /\ raced' = raced
      \/ \E h, stored :
           /\ handlers' = handlers \cup {h}
           /\ raced' = raced \cup {{r.session.status, o.request.session.status} : o \in handlers}
           /\ h.request = r /\ h.transaction \in Transaction
           /\ \/ Found = {} /\ r.session.status \in Begins
              \/ h.id \in DOMAIN emsp /\ Found = {h.id} /\ DOMAIN emsp = {h.id} /\ stored = emsp[h.id]
           /\ \/ /\ r.session.status = "CDR" /\ Found # {}
                 /\ h.transaction = WithCdr(stored, r.session)
              \/ /\ r.session.status # "CDR"
                 /\ r.session.status = "COMPLETED" => h.transaction.stopped
                 /\ h.transaction.last = r.session.at /\ h.transaction.kwh = r.session.kwh
                 /\ h.transaction.session.status = r.session.status
                 /\ Found # {} => /\ ~stored.cdr /\ r.session.at >= stored.last
                                  /\ r.kind # "patch" => stored.session.status # "COMPLETED"
  BY <1>1, Handled
<1> QED BY <1>2, <1>3, <1>4

-----------------------------------------------------------------------------
(* A session: the other steps of the provider. *)

LEMMA RequestSteps ==
  ASSUME SessionsInv, HandleRequest
  PROVE  SessionsInv'
<1>1. PICK r \in net : Handle(r) /\ net' = net \ {r}
  BY DEF HandleRequest
<1>2. r \in Message /\ Sound(r, cpo)
  BY DEF SessionsInv, SessionsTypeOK, ReportsAgree
<1>3. UNCHANGED <<cpo, waiting, emsp, saved, faults>>
  BY DEF HandleRequest
<1> QED BY <1>1, <1>2, <1>3, HandleSteps

LEMMA PullSteps ==
  ASSUME SessionsInv, PullSessions \/ PullCdrs
  PROVE  SessionsInv'
<1>1. SessionsTypeOK /\ ReportsAgree /\ cpo \in Operator
  BY DEF SessionsInv, SessionsTypeOK
<1>2. PICK lock \in {"pull-sessions", "pull-cdrs"}, given \in {GetAllSessions, GetAllCdrs} :
        Pull(lock, given)
  BY DEF PullSessions, PullCdrs
<1>3. PICK s \in given : Handle([kind |-> lock, session |-> s, n |-> 0])
  BY <1>2 DEF Pull
<1>4. s \in Report /\ Reported(s, cpo)
  <2>1. CASE given = GetAllSessions
    BY <1>1, <1>3, <2>1 DEF GetAllSessions, ReportsAgree, Operator
  <2>2. CASE given = GetAllCdrs
    <3>1. s = Session("CDR", cpo.at, cpo.kwh, TRUE) /\ cpo.cdr
      BY <1>3, <2>2 DEF GetAllCdrs
    <3>2. s \in Report /\ s.status = "CDR" /\ s.kwh = cpo.kwh
      BY <1>1, <3>1 DEF Session, Report, Status, Operator
    <3>3. Stopped(cpo)
      BY <1>1, <3>1 DEF ReportsAgree, Ready, Stopped
    <3> QED BY <3>2, <3>3 DEF Reported
  <2> QED BY <1>2, <2>1, <2>2
<1>5. PICK r : r = [kind |-> lock, session |-> s, n |-> 0]
  OBVIOUS
<1>6. r \in Message /\ Handle(r) /\ r.kind # "patch" /\ r.session = s
  BY <1>2, <1>3, <1>4, <1>5 DEF Message
<1>7. Sound(r, cpo)
  BY <1>4, <1>6 DEF Sound
<1>8. UNCHANGED <<cpo, waiting, net, emsp, saved, faults>>
  BY <1>2 DEF Pull
<1> QED BY <1>6, <1>7, <1>8, HandleSteps

LEMMA SaveSteps ==
  ASSUME SessionsInv, SaveTransaction
  PROVE  SessionsInv'
<1>1. SessionsTypeOK /\ ReportsAgree /\ OneTransaction /\ CdrStays /\ StopStays
  BY DEF SessionsInv
<1>2. PICK done \in handlers :
        /\ emsp' = [t \in DOMAIN emsp \cup {done.id} |-> IF t = done.id THEN done.transaction ELSE emsp[t]]
        /\ answers' = Answer(done.request, TRUE)
        /\ saved' = saved \cup {done.request.session}
        /\ handlers' = handlers \ {done}
  BY DEF SaveTransaction
<1>3. UNCHANGED <<cpo, waiting, net, faults, raced>>
  BY DEF SaveTransaction
<1>4. /\ DOMAIN emsp' = DOMAIN emsp \cup {done.id}
      /\ emsp'[done.id] = done.transaction
      /\ \A t \in DOMAIN emsp' : t # done.id => t \in DOMAIN emsp /\ emsp'[t] = emsp[t]
  BY <1>2
<1>5. done.request \in Message /\ done.transaction \in Transaction /\ done.request.session \in Report
  BY <1>1 DEF SessionsTypeOK, Message
<1>6. SessionsTypeOK'
  <2>1. IsFiniteSet(DOMAIN emsp')
    BY <1>1, <1>4, FS_AddElement DEF SessionsTypeOK
  <2>2. emsp' \in [DOMAIN emsp' -> Transaction]
    <3>1. \A t \in DOMAIN emsp \cup {done.id} :
            (IF t = done.id THEN done.transaction ELSE emsp[t]) \in Transaction
      BY <1>1, <1>5 DEF SessionsTypeOK
    <3>2. emsp' \in [DOMAIN emsp \cup {done.id} -> Transaction]
      BY <1>2, <3>1
    <3> QED BY <1>4, <3>2
  <2>3. \A a \in answers' : a.ok \in BOOLEAN
    <3>1. PICK replies : replies = {[request |-> r, ok |-> TRUE] : r \in waiting \cap {done.request}}
      OBVIOUS
    <3>2. \A a \in replies : a.ok = TRUE
      BY <3>1
    <3>3. answers' = answers \cup replies
      BY <1>2, <3>1 DEF Answer
    <3> QED BY <1>1, <3>2, <3>3 DEF SessionsTypeOK
  <2>4. saved' \subseteq Report /\ \A h \in handlers' : h \in handlers
    BY <1>1, <1>2, <1>5 DEF SessionsTypeOK
  <2> QED BY <1>1, <1>3, <2>1, <2>2, <2>3, <2>4 DEF SessionsTypeOK
<1>7. ReportsAgree'
  BY <1>1, <1>2, <1>3 DEF ReportsAgree
<1>8. OneTransaction'
  <2> SUFFICES ASSUME ~Raced(Begins)
               PROVE  /\ One(DOMAIN emsp')
                      /\ \A h \in handlers' :
                           h.request.session.status \in Begins =>
                             handlers' = {h} /\ (h.id \in DOMAIN emsp' \/ DOMAIN emsp' = {})
    BY <1>3 DEF OneTransaction, Raced
  <2>1. /\ One(DOMAIN emsp)
        /\ \A h \in handlers : h.request.session.status \in Begins =>
             handlers = {h} /\ (h.id \in DOMAIN emsp \/ DOMAIN emsp = {})
    BY <1>1 DEF OneTransaction
  <2>2. Reported(done.request.session, cpo)
    BY <1>1 DEF ReportsAgree
  <2>3. done.request.session.status \in Begins \cup {"CDR"}
    BY <1>5, <2>2 DEF Reported, Report, Status, Begins
  <2>4. done.id \in DOMAIN emsp \/ DOMAIN emsp = {}
    BY <1>1, <2>1, <2>3 DEF CdrStays
  <2>5. One(DOMAIN emsp')
    BY <1>4, <2>1, <2>4 DEF One
  <2>6. \A h \in handlers' : h.request.session.status \notin Begins
    BY <1>2, <2>1
  <2> QED BY <2>5, <2>6
<1>9. CdrStays'
  <2>1. saved' # {} => DOMAIN emsp' # {}
    BY <1>4
  <2>2. \A h \in handlers' : h.request.session.status = "CDR" => h.id \in DOMAIN emsp' /\ HasCDR(h.transaction)
    BY <1>1, <1>2, <1>4 DEF CdrStays
  <2>3. ASSUME ~Raced({"CDR"})
        PROVE  /\ \A h \in handlers' : h.request.session.status = "CDR" => handlers' = {h}
               /\ (\E s \in saved' : s.status = "CDR") /\ One(DOMAIN emsp') =>
                    /\ \A t \in DOMAIN emsp' : HasCDR(emsp'[t])
                    /\ \A h \in handlers' : h.request.session.status = "CDR"
    <3>1. \A h \in handlers' : h.request.session.status # "CDR"
      BY <1>1, <1>2, <2>3 DEF CdrStays
    <3>2. ASSUME \E s \in saved' : s.status = "CDR", One(DOMAIN emsp')
          PROVE  /\ \A t \in DOMAIN emsp' : HasCDR(emsp'[t])
                 /\ handlers' = {}
      <4>1. One(DOMAIN emsp)
        BY <1>4, <3>2 DEF One
      <4>2. done.request.session.status = "CDR"
        <5> SUFFICES ASSUME done.request.session.status # "CDR" PROVE FALSE
          OBVIOUS
        <5>1. \E s \in saved : s.status = "CDR"
          BY <1>2, <3>2
        <5> QED BY <1>1, <2>3, <4>1, <5>1 DEF CdrStays
      <4>3. done.id \in DOMAIN emsp /\ HasCDR(done.transaction) /\ handlers = {done}
        BY <1>1, <2>3, <4>2 DEF CdrStays
      <4>4. \A t \in DOMAIN emsp' : t = done.id
        BY <1>4, <3>2 DEF One
      <4> QED BY <1>2, <1>4, <4>3, <4>4
    <3> QED BY <3>1, <3>2
  <2> QED BY <1>3, <2>1, <2>2, <2>3 DEF CdrStays, HasCDR, Raced
<1>10. StopStays'
  <2>1. \A h \in handlers' : h.request.session.status = "COMPLETED" => IsStopped(h.transaction)
    BY <1>1, <1>2 DEF StopStays
  <2>2. ASSUME raced = {}
        PROVE  /\ handlers' = {}
               /\ Final' # {} /\ (\A s \in saved' : ~Late(s)) => \A t \in DOMAIN emsp' : IsStopped(emsp'[t])
    <3>1. handlers' = {}
      BY <1>1, <1>2, <2>2 DEF StopStays
    <3>2. ASSUME Final' # {}, \A s \in saved' : ~Late(s), NEW t \in DOMAIN emsp'
          PROVE  IsStopped(emsp'[t])
      <4>1. ~Late(done.request.session) /\ \A s \in saved : ~Late(s)
        BY <1>2, <3>2
      <4>2. CASE Final # {}
        <5>1. IsStopped(done.transaction) /\ \A u \in DOMAIN emsp : IsStopped(emsp[u])
          BY <1>1, <2>2, <4>1, <4>2 DEF StopStays
        <5> QED BY <1>4, <3>2, <5>1
      <4>3. CASE Final = {}
        <5>1. done.request.session.status = "COMPLETED"
          BY <1>2, <3>2, <4>3 DEF Final
        <5>2. IsStopped(done.transaction)
          BY <1>1, <5>1 DEF StopStays
        <5>3. One(DOMAIN emsp')
          BY <1>3, <1>8, <2>2 DEF OneTransaction, Raced
        <5>4. t = done.id
          BY <1>4, <3>2, <5>3 DEF One
        <5> QED BY <1>4, <5>2, <5>4
      <4> QED BY <4>2, <4>3
    <3> QED BY <3>1, <3>2
  <2> QED BY <1>3, <2>1, <2>2 DEF StopStays, IsStopped, Late
<1> QED BY <1>6, <1>7, <1>8, <1>9, <1>10 DEF SessionsInv

-----------------------------------------------------------------------------
(* A session: every step, and what the invariant means. *)

LEMMA SessionsInit ==
  ASSUME Init
  PROVE  SessionsInv
<1>1. /\ waiting = {} /\ net = {} /\ answers = {} /\ raced = {} /\ saved = {} /\ handlers = {}
      /\ emsp = <<>> /\ faults = 0
  BY DEF Init
<1>2. /\ cpo \in Operator /\ cpo.phase = "new" /\ cpo.at = 0 /\ cpo.kwh = 0 /\ ~cpo.cdr /\ cpo.session = {}
  BY DEF Init, Operator
<1>3. DOMAIN emsp = {} /\ IsFiniteSet(DOMAIN emsp) /\ emsp \in [DOMAIN emsp -> Transaction]
  BY <1>1, FS_EmptySet
<1>4. SessionsTypeOK
  BY <1>1, <1>2, <1>3 DEF SessionsTypeOK
<1>5. ReportsAgree
  BY <1>1, <1>2 DEF ReportsAgree, Ready
<1>6. OneTransaction /\ CdrStays
  BY <1>1, <1>3 DEF OneTransaction, CdrStays, One
<1>7. StopStays
  BY <1>1 DEF StopStays, Final
<1> QED BY <1>4, <1>5, <1>6, <1>7 DEF SessionsInv

LEMMA SessionsNext ==
  ASSUME SessionsInv, [Next]_oVars
  PROVE  SessionsInv'
<1>1. CASE OperatorNext
  <2>1. /\ SessionsTypeOK' /\ ReportsAgree'
        /\ GoesOn(cpo, cpo') /\ UNCHANGED <<emsp, handlers, saved, raced>>
    BY <1>1, OperatorSteps DEF SessionsInv
  <2>2. cpo' \in Operator
    BY <2>1 DEF SessionsTypeOK
  <2>3. OneTransaction' /\ CdrStays' /\ StopStays'
    BY <2>1, <2>2, OperatorKeeps
  <2> QED BY <2>1, <2>3 DEF SessionsInv
<1>2. CASE HandleRequest
  BY <1>2, RequestSteps
<1>3. CASE PullSessions \/ PullCdrs
  BY <1>3, PullSteps
<1>4. CASE SaveTransaction
  BY <1>4, SaveSteps
<1>5. CASE UNCHANGED oVars
  <2>1. UNCHANGED <<cpo, waiting, net, answers, emsp, handlers, faults, raced, saved>>
    BY <1>5 DEF oVars
  <2>2. SessionsTypeOK' /\ ReportsAgree'
    BY <2>1 DEF SessionsInv, SessionsTypeOK, ReportsAgree
  <2>3. OneTransaction' /\ CdrStays'
    BY <2>1 DEF SessionsInv, OneTransaction, CdrStays, HasCDR, Raced
  <2>4. StopStays'
    BY <2>1 DEF SessionsInv, StopStays, IsStopped, Late, Final
  <2> QED BY <2>2, <2>3, <2>4 DEF SessionsInv
<1> QED BY <1>1, <1>2, <1>3, <1>4, <1>5 DEF Next, OperatorNext

LEMMA SessionsInvAgree ==
  ASSUME SessionsInv
  PROVE  SessionsAgree
<1>1. /\ SessionsTypeOK /\ ReportsAgree /\ OneTransaction /\ CdrStays /\ StopStays
      /\ IsFiniteSet(DOMAIN emsp)
  BY DEF SessionsInv, SessionsTypeOK
<1>2. Cardinality(DOMAIN emsp) > 1 => Raced({"PENDING", "ACTIVE", "COMPLETED"})
  BY <1>1, FoundFacts DEF OneTransaction, Begins
<1>3. ASSUME NEW t \in DOMAIN emsp,
             \E s \in saved : s.status = "CDR", ~Raced({"CDR"}), Cardinality(DOMAIN emsp) = 1
      PROVE  emsp[t].cdr /\ emsp[t].kwh = cpo.kwh
  BY <1>1, <1>3, FoundFacts DEF CdrStays, HasCDR
<1>4. ASSUME NEW t \in DOMAIN emsp, Final # {}, raced = {},
             ~ (\E s \in saved, f \in Final : s.status = "ACTIVE" /\ s.at = f.at)
      PROVE  emsp[t].session.status = "COMPLETED" /\ emsp[t].stopped /\ emsp[t].kwh = cpo.kwh
  <2>1. PICK f \in Final : TRUE
    BY <1>4
  <2>2. f.at = cpo.at
    BY <1>1, <2>1 DEF Final, ReportsAgree, Reported
  <2>3. \A s \in saved : ~Late(s)
    BY <1>4, <2>1, <2>2 DEF Late
  <2> QED BY <1>1, <1>4, <2>3 DEF StopStays, IsStopped
<1> QED BY <1>2, <1>3, <1>4 DEF SessionsAgree

\* The provider has one transaction of a session, with what the operator
\* reported last, unless requests for it were handled at the same time.
THEOREM SessionsAlwaysAgree == MCSpec => []SessionsAgree
<1>1. MCInit => SessionsInv
  BY SessionsInit DEF MCInit
<1>2. SessionsInv /\ [MCNext]_<<focus, oVars, statusVars, partnerVars>> => SessionsInv'
  <2> SUFFICES ASSUME SessionsInv, [MCNext]_<<focus, oVars, statusVars, partnerVars>> PROVE SessionsInv'
    OBVIOUS
  <2>1. [Next]_oVars
    BY DEF MCNext
  <2> QED BY <2>1, SessionsNext
<1>3. SessionsInv => SessionsAgree
  BY SessionsInvAgree
<1> QED BY <1>1, <1>2, <1>3, PTL DEF MCSpec
=============================================================================
