----------------------------- MODULE SignUpProofs -----------------------------
(***************************************************************************)
(* The safety of SignUp for every number of sign-ups, requests under way,  *)
(* customKeys and addresses.                                               *)
(***************************************************************************)
EXTENDS SignUp, TLAPS

USE SignUpAssumption

\* What completeSignUp has made before each of its later steps.
Before == [statuses |-> {}, trial |-> {"statuses"},
           department |-> {"statuses", "trial"},
           admin |-> {"statuses", "trial", "department"}, close |-> Parts]

About == {"update", "approve", "approval mail", "reject"} \cup Completing

\* A request is about a row that exists, and one that completes a sign-up has
\* made for its tenant what comes before the step it is at.
Knows(r, rows, made) ==
    /\ r.at \in About => rows[r.signUp] # Absent
    /\ r.at \in DOMAIN Before =>
          /\ made[r.key] # Absent /\ made[r.key].of = r.signUp
          /\ Before[r.at] \subseteq made[r.key].has

WorkersKnow == \A w \in Workers : Knows(workers[w], signUps, tenants)

\* The row of an approved sign-up has the token of a mail, or of the request
\* that goes on to mail it.
LinkMailed(s, row, mails, requests) ==
    row # Absent /\ row.status = "APPROVED" =>
        \/ row.token.text \in mails
        \/ \E w \in Workers : /\ requests[w].at = "approval mail"
                              /\ requests[w].signUp = s
                              /\ requests[w].token = row.token.text

LinksMailed ==
    \A s \in SignUps \ died : LinkMailed(s, signUps[s], mailed[s], workers)

Inv == TypeOK /\ WorkersKnow /\ CompletedIsWhole /\ LinksMailed

LEMMA InitInv == Init => Inv
<1> SUFFICES ASSUME Init PROVE Inv
  OBVIOUS
<1>1. TypeOK
  BY DEF Init, TypeOK
<1>2. WorkersKnow
  <2>1. Idle.at \notin About /\ Idle.at \notin DOMAIN Before
    BY DEF Idle, About, Completing, Parts, Before
  <2> QED
    BY <2>1 DEF Init, WorkersKnow, Knows
<1>3. CompletedIsWhole /\ LinksMailed
  BY DEF Init, CompletedIsWhole, LinksMailed, LinkMailed
<1> QED
  BY <1>1, <1>2, <1>3 DEF Inv

\* The fields a request has at each step.
LEMMA Fields ==
    ASSUME NEW r \in Request \cup {Idle}
    PROVE  /\ r.at \in {"save", "update"} =>
                 r.cnpj \in Cnpjs \cup {NoCnpj} /\ r.contact \in Emails
           /\ r.at \in About => r.signUp \in SignUps
           /\ r.at \in {"approve", "approval mail"} => r.token \in Tokens
           /\ r.at \in Completing =>
                 r.key \in Keys /\ r.name \in Names /\ r.contact \in Emails
           /\ r.at # "idle" => r \in Request
<1>1. CASE r = Idle
  BY <1>1 DEF Idle, About, Completing, Parts
<1>2. CASE r \in [at : {"save"}, cnpj : Cnpjs \cup {NoCnpj}, contact : Emails]
  BY <1>2 DEF Request, About, Completing, Parts
<1>3. CASE r \in [at : {"update"}, signUp : SignUps,
                  cnpj : Cnpjs \cup {NoCnpj}, contact : Emails]
  BY <1>3 DEF Request, About, Completing, Parts
<1>4. CASE r \in [at : {"approve", "approval mail"}, signUp : SignUps,
                  token : Tokens]
  BY <1>4 DEF Request, About, Completing, Parts
<1>5. CASE r \in [at : {"reject"}, signUp : SignUps]
  BY <1>5 DEF Request, About, Completing, Parts
<1>6. CASE r \in [at : Completing, signUp : SignUps, key : Keys, name : Names,
                  contact : Emails]
  BY <1>6 DEF Request, About, Completing, Parts
<1> QED
  BY <1>1, <1>2, <1>3, <1>4, <1>5, <1>6 DEF Request

\* completeSignUp goes on with what it has.
LEMMA NextStep ==
    ASSUME NEW r \in Request, r.at \in Completing, NEW at \in Completing
    PROVE  LET next == [r EXCEPT !.at = at]
           IN  /\ next \in Request /\ next.at = at
               /\ next.signUp = r.signUp /\ next.key = r.key
<1>1. r \in [at : Completing, signUp : SignUps, key : Keys, name : Names,
             contact : Emails]
  BY DEF Request, Completing, Parts
<1> QED
  BY <1>1 DEF Request

\* As long as rows stay, a tenant stays whose it is, and nothing made for it is
\* taken away, requests know what they knew, and completed sign-ups are whole.
LEMMA Growth ==
    ASSUME Inv, TypeOK', NEW w \in Workers, NEW r,
           workers' = [workers EXCEPT ![w] = r],
           Knows(r, signUps', tenants'),
           \A s \in SignUps : signUps[s] # Absent => signUps'[s] # Absent,
           \A k \in Keys : tenants[k] # Absent =>
              /\ tenants'[k] # Absent /\ tenants'[k].of = tenants[k].of
              /\ tenants[k].has \subseteq tenants'[k].has
    PROVE  WorkersKnow'
<1>1. ASSUME NEW v \in Workers, v # w
      PROVE  Knows(workers[v], signUps', tenants')
  <2>1. /\ workers[v].at \in About => workers[v].signUp \in SignUps
        /\ workers[v].at \in DOMAIN Before => workers[v].key \in Keys
    BY Fields DEF Inv, TypeOK, Before, Completing, Parts
  <2>2. Knows(workers[v], signUps, tenants)
    BY DEF Inv, WorkersKnow
  <2> QED
    BY <2>1, <2>2 DEF Knows
<1>2. \A v \in Workers :
         workers'[v] = IF v = w THEN r ELSE workers[v]
  BY DEF Inv, TypeOK
<1> QED
  BY <1>1, <1>2 DEF WorkersKnow

\* A sign-up that was completed has its tenant for good.
LEMMA WholeStays ==
    ASSUME Inv, TypeOK', NEW s \in SignUps,
           signUps[s] # Absent, signUps[s].status = "COMPLETED",
           \A k \in Keys : tenants[k] # Absent =>
              /\ tenants'[k] # Absent /\ tenants'[k].of = tenants[k].of
              /\ tenants[k].has \subseteq tenants'[k].has
    PROVE  \E k \in Keys : /\ tenants'[k] # Absent
                           /\ tenants'[k].of = s /\ tenants'[k].has = Parts
<1>1. PICK k \in Keys : /\ tenants[k] # Absent
                        /\ tenants[k].of = s /\ tenants[k].has = Parts
  BY DEF Inv, CompletedIsWhole
<1>2. tenants'[k].has \subseteq Parts
  BY <1>1 DEF TypeOK, TenantRow
<1> QED
  BY <1>1, <1>2

\* A request that neither mails nor is about to leaves the links as they are.
LEMMA LinksStay ==
    ASSUME Inv, NEW w \in Workers, NEW r,
           workers' = [workers EXCEPT ![w] = r],
           workers[w].at # "approval mail",
           UNCHANGED died,
           \A s \in SignUps : mailed[s] \subseteq mailed'[s],
           \A s \in SignUps \ died :
              signUps'[s] # Absent /\ signUps'[s].status = "APPROVED" =>
                 /\ signUps[s] # Absent /\ signUps[s].status = "APPROVED"
                 /\ signUps'[s].token = signUps[s].token
    PROVE  LinksMailed'
<1>1. \A v \in Workers : workers[v].at = "approval mail" =>
         workers'[v] = workers[v]
  BY DEF Inv, TypeOK
<1>2. ASSUME NEW s \in SignUps \ died,
             signUps'[s] # Absent, signUps'[s].status = "APPROVED"
      PROVE  \/ signUps'[s].token.text \in mailed'[s]
             \/ \E v \in Workers :
                   /\ workers'[v].at = "approval mail"
                   /\ workers'[v].signUp = s
                   /\ workers'[v].token = signUps'[s].token.text
  <2>1. LinkMailed(s, signUps[s], mailed[s], workers)
    BY DEF Inv, LinksMailed
  <2> QED
    BY <1>1, <1>2, <2>1 DEF LinkMailed
<1> QED
  BY <1>2 DEF LinksMailed, LinkMailed

\* A step of a request that writes no sign-up.
LEMMA SameRows ==
    ASSUME Inv, TypeOK', NEW w \in Workers, NEW r,
           workers' = [workers EXCEPT ![w] = r],
           workers[w].at # "approval mail",
           Knows(r, signUps', tenants'), UNCHANGED <<signUps, mailed, died>>,
           \A k \in Keys : tenants[k] # Absent =>
              /\ tenants'[k] # Absent /\ tenants'[k].of = tenants[k].of
              /\ tenants[k].has \subseteq tenants'[k].has
    PROVE  Inv'
<1>1. WorkersKnow'
  BY Growth
<1>2. CompletedIsWhole'
  BY WholeStays DEF CompletedIsWhole
<1>3. LinksMailed'
  BY LinksStay
<1> QED
  BY <1>1, <1>2, <1>3 DEF Inv

\* The first step of a request only reads.
LEMMA StartInv ==
    ASSUME Inv, NEW w \in Workers, NEW r \in Request, workers[w] = Idle,
           Knows(r, signUps, tenants), Goes(w, r),
           UNCHANGED <<signUps, tenants, users, mailed, died>>
    PROVE  Inv'
<1>1. TypeOK' /\ workers' = [workers EXCEPT ![w] = r]
  BY DEF Goes, Inv, TypeOK
<1>2. workers[w].at # "approval mail"
  BY DEF Idle
<1>3. Knows(r, signUps', tenants')
  OBVIOUS
<1> QED
  BY <1>1, <1>2, <1>3, SameRows

\* A request that is answered is about nothing.
LEMMA IdleKnows ==
    ASSUME NEW rows, NEW made PROVE Knows(Idle, rows, made)
BY DEF Knows, Idle, About, Completing, Parts, Before

LEMMA BeginInv ==
    ASSUME Inv, NEW w \in Workers, NEW s \in SignUps,
           NEW cnpj \in Cnpjs \cup {NoCnpj}, NEW contact \in Emails,
           \/ Create(w, cnpj, contact) \/ Update(w, s, cnpj, contact)
           \/ Approve(w, s) \/ Reject(w, s)
    PROVE  Inv'
<1>1. CASE Create(w, cnpj, contact)
  <2> DEFINE r == [at |-> "save", cnpj |-> cnpj, contact |-> contact]
  <2>1. r \in Request /\ Knows(r, signUps, tenants)
    BY DEF Request, Knows, About, Completing, Parts, Before
  <2> QED
    BY <1>1, <2>1, StartInv DEF Create
<1>2. CASE Update(w, s, cnpj, contact)
  <2> DEFINE r == [at |-> "update", signUp |-> s, cnpj |-> cnpj,
                   contact |-> contact]
  <2>1. r \in Request /\ Knows(r, signUps, tenants)
    BY <1>2 DEF Update, Request, Knows, About, Completing, Parts, Before
  <2> QED
    BY <1>2, <2>1, StartInv DEF Update
<1>3. CASE Approve(w, s)
  <2>1. PICK t \in Tokens :
           Goes(w, [at |-> "approve", signUp |-> s, token |-> t])
    BY <1>3 DEF Approve, FreshTokens
  <2> DEFINE r == [at |-> "approve", signUp |-> s, token |-> t]
  <2>2. r \in Request /\ Knows(r, signUps, tenants)
    BY <1>3 DEF Approve, Request, Knows, About, Completing, Parts, Before
  <2> QED
    BY <1>3, <2>1, <2>2, StartInv DEF Approve
<1>4. CASE Reject(w, s)
  <2> DEFINE r == [at |-> "reject", signUp |-> s]
  <2>1. r \in Request /\ Knows(r, signUps, tenants)
    BY <1>4 DEF Reject, Request, Knows, About, Completing, Parts, Before
  <2> QED
    BY <1>4, <2>1, StartInv DEF Reject
<1> QED
  BY <1>1, <1>2, <1>3, <1>4

\* The link of a row that is found begins the completion of that row.
LEMMA CompleteInv ==
    ASSUME Inv, NEW w \in Workers, NEW t \in Tokens, NEW key \in Keys,
           Complete(w, t, key)
    PROVE  Inv'
<1>1. PICK s \in SignUps :
         /\ signUps[s] # Absent
         /\ Goes(w, [at |-> "name", signUp |-> s, key |-> key,
                     name |-> NameOf(signUps[s]),
                     contact |-> signUps[s].contact])
  BY DEF Complete, Matches
<1> DEFINE name == NameOf(signUps[s])
           contact == signUps[s].contact
           r == [at |-> "name", signUp |-> s, key |-> key, name |-> name,
                 contact |-> contact]
<1>2. signUps[s] \in Row
  BY <1>1 DEF Inv, TypeOK
<1>3. name \in Names /\ contact \in Emails
  BY <1>2 DEF NameOf, Names, Row, Sealed
<1>4. Goes(w, r)
  BY <1>1
<1> HIDE DEF name, contact
<1>5. r \in Request /\ Knows(r, signUps, tenants)
  BY <1>1, <1>3 DEF Request, Knows, About, Completing, Parts, Before
<1> HIDE DEF r
<1> QED
  BY <1>4, <1>5, StartInv DEF Complete

\* The steps that make the tenant and what belongs to it, or give up.
LEMMA MakeInv ==
    ASSUME Inv, NEW w \in Workers,
           CheckName(w) \/ SaveTenant(w) \/ Provide(w) \/ CreateAdmin(w)
    PROVE  Inv'
<1> DEFINE r == workers[w]
           next == [at \in Completing |-> [r EXCEPT !.at = at]]
<1>1. r \in Request /\ r.at \in Completing
  <2>1. r.at \in Completing
    BY DEF CheckName, SaveTenant, Provide, CreateAdmin, Then, Completing, Parts
  <2>2. r.at # "idle"
    BY <2>1 DEF Completing, Parts
  <2> QED
    BY <2>1, <2>2, Fields DEF Inv, TypeOK
<1>2. /\ r.signUp \in SignUps /\ r.key \in Keys /\ r.name \in Names
      /\ r.contact \in Emails /\ signUps[r.signUp] # Absent
  <2>1. r.at \in About
    BY <1>1 DEF About
  <2>2. signUps[r.signUp] # Absent
    BY <2>1 DEF Inv, WorkersKnow, Knows
  <2> QED
    BY <1>1, <2>1, <2>2, Fields
<1>3. Knows(r, signUps, tenants)
  BY DEF Inv, WorkersKnow
<1>4. \A at \in Completing :
         /\ next[at] \in Request /\ next[at].at = at
         /\ next[at].signUp = r.signUp /\ next[at].key = r.key
  BY <1>1, NextStep
<1>5. ASSUME Answers(w), UNCHANGED <<signUps, tenants, users, mailed, died>>
      PROVE  Inv'
  <2>1. TypeOK' /\ workers' = [workers EXCEPT ![w] = Idle]
    BY <1>5 DEF Answers, Goes, Inv, TypeOK
  <2>2. r.at # "approval mail"
    BY <1>1 DEF Completing, Parts
  <2> QED
    BY <1>5, <2>1, <2>2, IdleKnows, SameRows
<1>6. ASSUME NEW at \in Completing, Goes(w, next[at]),
             Knows(next[at], signUps', tenants'),
             tenants' \in [Keys -> TenantRow \cup {Absent}],
             \A k \in Keys : tenants[k] # Absent =>
                /\ tenants'[k] # Absent /\ tenants'[k].of = tenants[k].of
                /\ tenants[k].has \subseteq tenants'[k].has,
             users' \subseteq Emails, UNCHANGED <<signUps, mailed, died>>
      PROVE  Inv'
  <2>1. TypeOK' /\ workers' = [workers EXCEPT ![w] = next[at]]
    BY <1>4, <1>6 DEF Goes, Inv, TypeOK
  <2>2. r.at # "approval mail"
    BY <1>1 DEF Completing, Parts
  <2> QED
    BY <1>6, <2>1, <2>2, SameRows
<1>7. ASSUME NEW part \in Parts, Has(w, part), r.at \in DOMAIN Before
      PROVE  /\ tenants' \in [Keys -> TenantRow \cup {Absent}]
             /\ \A k \in Keys : tenants[k] # Absent =>
                   /\ tenants'[k] # Absent /\ tenants'[k].of = tenants[k].of
                   /\ tenants[k].has \subseteq tenants'[k].has
             /\ tenants'[r.key] # Absent /\ tenants'[r.key].of = r.signUp
             /\ tenants'[r.key].has = tenants[r.key].has \cup {part}
  <2>1. tenants[r.key] # Absent /\ tenants[r.key].of = r.signUp
    BY <1>3, <1>7 DEF Knows
  <2>2. tenants[r.key] \in TenantRow
    BY <1>2, <2>1 DEF Inv, TypeOK
  <2> DEFINE row == [tenants[r.key] EXCEPT !.has = @ \cup {part}]
  <2>3. /\ row \in TenantRow /\ row.of = r.signUp
        /\ row.has = tenants[r.key].has \cup {part}
    BY <2>1, <2>2 DEF TenantRow
  <2>4. tenants' = [tenants EXCEPT ![r.key] = row]
    BY <1>7 DEF Has
  <2> HIDE DEF row
  <2> QED
    BY <1>2, <2>1, <2>3, <2>4 DEF Inv, TypeOK
<1>8. \A at \in Completing : next[at] = [r EXCEPT !.at = at]
  OBVIOUS
<1> HIDE DEF next
<1>9. CASE CheckName(w)
  <2>1. CASE Answers(w)
    BY <1>5, <1>9, <2>1 DEF CheckName
  <2>2. CASE Goes(w, [r EXCEPT !.at = "tenant"])
    <3>1. "tenant" \in Completing /\ "tenant" \notin DOMAIN Before
      BY DEF Completing, Before
    <3>2. UNCHANGED <<signUps, tenants, users, mailed, died>>
      BY <1>9 DEF CheckName
    <3>3. Knows(next["tenant"], signUps', tenants')
      BY <1>2, <1>4, <3>1, <3>2 DEF Knows
    <3> QED
      BY <1>6, <1>8, <2>2, <3>1, <3>2, <3>3 DEF Inv, TypeOK
  <2> QED
    BY <1>9, <2>1, <2>2 DEF CheckName
<1>10. CASE SaveTenant(w)
  <2>1. CASE tenants[r.key] # Absent /\ Answers(w) /\ UNCHANGED tenants
    BY <1>5, <1>10, <2>1 DEF SaveTenant
  <2>2. CASE tenants[r.key] = Absent
    <3> DEFINE row == [name |-> r.name, of |-> r.signUp, has |-> {}]
    <3>1. /\ tenants' = [tenants EXCEPT ![r.key] = row]
          /\ Goes(w, [r EXCEPT !.at = "statuses"])
          /\ UNCHANGED <<signUps, users, mailed, died>>
      BY <1>10, <2>2 DEF SaveTenant
    <3>2. row \in TenantRow /\ row # Absent
      BY <1>2 DEF TenantRow
    <3>3. row.of = r.signUp /\ "statuses" \in Completing /\ Before["statuses"] = {}
      BY DEF Completing, Parts, Before
    <3> HIDE DEF row
    <3>4. /\ tenants' \in [Keys -> TenantRow \cup {Absent}]
          /\ tenants'[r.key] = row
          /\ \A k \in Keys : tenants[k] # Absent => tenants'[k] = tenants[k]
      BY <1>2, <2>2, <3>1, <3>2 DEF Inv, TypeOK
    <3>5. Knows(next["statuses"], signUps', tenants')
      BY <1>2, <1>4, <3>1, <3>2, <3>3, <3>4 DEF Knows
    <3> QED
      BY <1>6, <1>8, <3>1, <3>3, <3>4, <3>5 DEF Inv, TypeOK
  <2> QED
    BY <1>10, <2>1, <2>2 DEF SaveTenant
<1>11. CASE Provide(w)
  <2> DEFINE part == r.at
             at == Then[part]
  <2>1. /\ Has(w, part) /\ Goes(w, [r EXCEPT !.at = at])
        /\ UNCHANGED <<signUps, users, mailed, died>>
    BY <1>11 DEF Provide
  <2>2. /\ part \in Parts /\ part \in DOMAIN Before /\ at \in Completing
        /\ Before[at] = Before[part] \cup {part}
    BY <1>11 DEF Provide, Then, Parts, Before, Completing
  <2>3. Before[part] \subseteq tenants[r.key].has
    BY <1>3, <2>2 DEF Knows
  <2> HIDE DEF part, at
  <2>4. Knows(next[at], signUps', tenants')
    BY <1>2, <1>4, <1>7, <2>1, <2>2, <2>3 DEF Knows, part
  <2>5. Goes(w, next[at]) /\ users' \subseteq Emails
    BY <1>8, <2>1, <2>2 DEF Inv, TypeOK
  <2>6. /\ tenants' \in [Keys -> TenantRow \cup {Absent}]
        /\ \A k \in Keys : tenants[k] # Absent =>
              /\ tenants'[k] # Absent /\ tenants'[k].of = tenants[k].of
              /\ tenants[k].has \subseteq tenants'[k].has
    BY <1>7, <2>1, <2>2 DEF part
  <2> QED
    BY <1>6, <2>1, <2>2, <2>4, <2>5, <2>6
<1>12. CASE CreateAdmin(w)
  <2>1. CASE Answers(w) /\ UNCHANGED <<tenants, users>>
    BY <1>5, <1>12, <2>1 DEF CreateAdmin
  <2>2. CASE r.contact \notin users
    <3>1. /\ Has(w, "admin") /\ Goes(w, [r EXCEPT !.at = "close"])
          /\ UNCHANGED <<signUps, mailed, died>> /\ r.at = "admin"
          /\ users' = users \cup {r.contact}
      BY <1>12, <2>2 DEF CreateAdmin
    <3>2. /\ "admin" \in Parts /\ "admin" \in DOMAIN Before
          /\ "close" \in Completing
          /\ Before["close"] = Before["admin"] \cup {"admin"}
      BY DEF Parts, Before, Completing
    <3>3. Before["admin"] \subseteq tenants[r.key].has
      BY <1>3, <3>1, <3>2 DEF Knows
    <3>4. Knows(next["close"], signUps', tenants')
      BY <1>2, <1>4, <1>7, <3>1, <3>2, <3>3 DEF Knows
    <3>5. users' \subseteq Emails
      BY <1>2, <3>1 DEF Inv, TypeOK
    <3> QED
      BY <1>6, <1>7, <1>8, <3>1, <3>2, <3>4, <3>5
  <2> QED
    BY <1>12, <2>1, <2>2 DEF CreateAdmin
<1> QED
  BY <1>9, <1>10, <1>11, <1>12

\* A step that writes one sign-up, which stays a row, and makes nothing.
LEMMA RowStepInv ==
    ASSUME Inv, NEW w \in Workers, NEW r \in Request \cup {Idle},
           NEW s \in SignUps, NEW row \in Row,
           signUps' = [signUps EXCEPT ![s] = row], Goes(w, r),
           Knows(r, signUps', tenants), workers[w].at # "approval mail",
           row.status = "PENDING" => row.token = NoToken,
           row.status = "COMPLETED" =>
              /\ row.token = NoToken
              /\ \/ signUps[s] # Absent /\ signUps[s].status = "COMPLETED"
                 \/ \E k \in Keys : /\ tenants[k] # Absent
                                     /\ tenants[k].of = s /\ tenants[k].has = Parts,
           row.status = "APPROVED" =>
              /\ row.token # NoToken
              /\ \/ /\ signUps[s] # Absent /\ signUps[s].status = "APPROVED"
                    /\ row.token = signUps[s].token
                 \/ /\ r.at = "approval mail" /\ r.signUp = s
                    /\ r.token = row.token.text,
           UNCHANGED <<tenants, users, mailed, died>>
    PROVE  Inv'
<1>1. \A q \in SignUps : signUps'[q] = IF q = s THEN row ELSE signUps[q]
  BY DEF Inv, TypeOK
<1>2. row # Absent
  OBVIOUS
<1>3. workers' = [workers EXCEPT ![w] = r]
  BY DEF Goes
<1>4. TypeOK'
  BY <1>1, <1>3 DEF Inv, TypeOK
<1>5. WorkersKnow'
  <2>1. \A q \in SignUps : signUps[q] # Absent => signUps'[q] # Absent
    BY <1>1, <1>2
  <2>2. tenants' = tenants /\ Knows(r, signUps', tenants')
    OBVIOUS
  <2> QED
    BY <1>3, <1>4, <2>1, <2>2, Growth
<1>6. CompletedIsWhole'
  <2>1. ASSUME NEW q \in SignUps, signUps'[q] # Absent,
               signUps'[q].status = "COMPLETED"
        PROVE  \E k \in Keys : /\ tenants[k] # Absent
                               /\ tenants[k].of = q /\ tenants[k].has = Parts
    <3>1. CASE signUps[q] # Absent /\ signUps[q].status = "COMPLETED"
      BY <3>1 DEF Inv, CompletedIsWhole
    <3> QED
      BY <1>1, <2>1, <3>1
  <2>2. \A k \in Keys : tenants'[k] = tenants[k]
    OBVIOUS
  <2>3. ASSUME NEW q \in SignUps, signUps'[q] # Absent,
               signUps'[q].status = "COMPLETED"
        PROVE  \E k \in Keys : /\ tenants'[k] # Absent
                               /\ tenants'[k].of = q /\ tenants'[k].has = Parts
    <3>1. PICK k \in Keys : /\ tenants[k] # Absent
                            /\ tenants[k].of = q /\ tenants[k].has = Parts
      BY <2>1, <2>3
    <3> QED
      BY <2>2, <3>1
  <2> QED
    BY <2>3 DEF CompletedIsWhole
<1>7. LinksMailed'
  <2>1. /\ workers'[w] = r
        /\ \A v \in Workers : workers[v].at = "approval mail" =>
              workers'[v] = workers[v]
    BY <1>3 DEF Inv, TypeOK
  <2>2. ASSUME NEW q \in SignUps \ died, signUps'[q] # Absent,
               signUps'[q].status = "APPROVED"
        PROVE  \/ signUps'[q].token.text \in mailed[q]
               \/ \E v \in Workers :
                     /\ workers'[v].at = "approval mail"
                     /\ workers'[v].signUp = q
                     /\ workers'[v].token = signUps'[q].token.text
    <3>1. LinkMailed(q, signUps[q], mailed[q], workers)
      BY DEF Inv, LinksMailed
    <3>2. CASE r.at = "approval mail" /\ r.signUp = q /\ q = s
                /\ r.token = row.token.text
      BY <1>1, <2>1, <3>2
    <3>3. CASE /\ signUps[q] # Absent /\ signUps[q].status = "APPROVED"
               /\ signUps'[q].token = signUps[q].token
      BY <2>1, <3>1, <3>3 DEF LinkMailed
    <3> QED
      BY <1>1, <2>2, <3>2, <3>3
  <2> QED
    BY <2>2 DEF LinksMailed, LinkMailed
<1> QED
  BY <1>4, <1>5, <1>6, <1>7 DEF Inv

\* The last step of a request, which writes its sign-up.
LEMMA WriteInv ==
    ASSUME Inv, NEW w \in Workers,
           \/ SaveSignUp(w) \/ WriteUpdate(w) \/ WriteApproval(w)
           \/ WriteRejection(w) \/ CloseSignUp(w)
    PROVE  Inv'
<1> DEFINE r == workers[w]
           s == r.signUp
<1>1. /\ r \in Request \cup {Idle} /\ Idle \in Request \cup {Idle}
      /\ r.at # "approval mail"
  BY DEF SaveSignUp, WriteUpdate, WriteApproval, WriteRejection, CloseSignUp,
         Inv, TypeOK
<1>2. \A cnpj \in Cnpjs \cup {NoCnpj} :
         SealedCnpj(cnpj) \subseteq Sealed(Cnpjs) \cup {NoCnpj}
  BY DEF SealedCnpj, Sealed
<1>3. CASE SaveSignUp(w)
  <2>1. PICK q \in SignUps, cnpj \in SealedCnpj(r.cnpj) :
           /\ signUps[q] = Absent
           /\ signUps' = [signUps EXCEPT ![q] =
                  [status |-> "PENDING", cnpj |-> cnpj, token |-> NoToken,
                   contact |-> r.contact]]
    BY <1>3 DEF SaveSignUp
  <2> DEFINE row == [status |-> "PENDING", cnpj |-> cnpj, token |-> NoToken,
                     contact |-> r.contact]
  <2>2. row \in Row
    BY <1>1, <1>2, <1>3, Fields DEF SaveSignUp, Row
  <2>3. row.status = "PENDING" /\ row.token = NoToken
    OBVIOUS
  <2>4. signUps' = [signUps EXCEPT ![q] = row]
    BY <2>1
  <2> HIDE DEF row
  <2> QED
    BY <1>1, <1>3, <2>2, <2>3, <2>4, IdleKnows, RowStepInv
    DEF SaveSignUp, Answers
<1>4. CASE ~SaveSignUp(w)
  <2>1. s \in SignUps /\ signUps[s] # Absent /\ signUps[s] \in Row
    <3>1. r.at \in About
      BY <1>4 DEF WriteUpdate, WriteApproval, WriteRejection, CloseSignUp,
                  About, Completing, Parts
    <3>2. s \in SignUps
      BY <1>1, <3>1, Fields
    <3>3. signUps[s] # Absent
      BY <3>1 DEF Inv, WorkersKnow, Knows
    <3> QED
      BY <3>2, <3>3 DEF Inv, TypeOK
  <2>2. /\ signUps[s].status \in {"PENDING", "COMPLETED"} =>
              signUps[s].token = NoToken
        /\ signUps[s].status = "APPROVED" => signUps[s].token # NoToken
    BY <2>1 DEF Inv, TypeOK
  <2>3. CASE WriteUpdate(w)
    <3>1. PICK cnpj \in SealedCnpj(r.cnpj) :
             signUps' = [signUps EXCEPT ![s].cnpj = cnpj,
                                        ![s].contact = r.contact]
      BY <2>3 DEF WriteUpdate
    <3> DEFINE row == [signUps[s] EXCEPT !.cnpj = cnpj, !.contact = r.contact]
    <3>2. /\ row \in Row /\ row.status = signUps[s].status
          /\ row.token = signUps[s].token
      BY <1>1, <1>2, <2>1, <2>3, Fields DEF WriteUpdate, Row
    <3>3. signUps' = [signUps EXCEPT ![s] = row]
      BY <2>1, <3>1 DEF Inv, TypeOK
    <3> HIDE DEF row
    <3>4. Answers(w) /\ UNCHANGED <<tenants, users, mailed, died>>
      BY <2>3 DEF WriteUpdate
    <3> HIDE DEF s
    <3> QED
      BY <1>1, <2>1, <2>2, <3>2, <3>3, <3>4, IdleKnows, RowStepInv DEF Answers
  <2>4. CASE WriteApproval(w)
    <3> DEFINE next == [r EXCEPT !.at = "approval mail"]
    <3>1. PICK token \in Sealed({r.token}) :
             signUps' = [signUps EXCEPT ![s].status = "APPROVED",
                                        ![s].token = token]
      BY <2>4 DEF WriteApproval
    <3>2. r.token \in Tokens /\ r.at = "approve" /\ r \in Request
      BY <1>1, <2>4, Fields DEF WriteApproval
    <3>3. token \in Sealed(Tokens) /\ token.text = r.token /\ token # NoToken
      BY <3>1, <3>2 DEF Sealed
    <3> DEFINE row == [signUps[s] EXCEPT !.status = "APPROVED", !.token = token]
    <3>4. row \in Row /\ row.status = "APPROVED" /\ row.token = token
      BY <2>1, <3>3 DEF Row
    <3>5. signUps' = [signUps EXCEPT ![s] = row]
      BY <2>1, <3>1 DEF Inv, TypeOK
    <3> HIDE DEF row
    <3>6. /\ next \in Request /\ next.at = "approval mail"
          /\ next.signUp = s /\ next.token = r.token
      <4>1. r \in [at : {"approve", "approval mail"}, signUp : SignUps,
                   token : Tokens]
        BY <3>2 DEF Request, Completing, Parts
      <4> QED
        BY <4>1 DEF Request
    <3>7. signUps'[s] # Absent /\ next.at \notin DOMAIN Before
      <4>1. signUps'[s] = row /\ row # Absent
        BY <2>1, <3>4, <3>5 DEF Inv, TypeOK
      <4>2. "approval mail" \notin DOMAIN Before
        BY DEF Before
      <4> QED
        BY <3>6, <4>1, <4>2
    <3>8. Knows(next, signUps', tenants)
      BY <3>6, <3>7 DEF Knows
    <3>9. Goes(w, next) /\ UNCHANGED <<tenants, users, mailed, died>>
      BY <2>4 DEF WriteApproval
    <3> HIDE DEF next, s
    <3> QED
      BY <1>1, <2>1, <3>3, <3>4, <3>5, <3>6, <3>8, <3>9, RowStepInv
  <2>5. CASE WriteRejection(w)
    <3> DEFINE row == [signUps[s] EXCEPT !.status = "REJECTED"]
    <3>1. row \in Row /\ row.status = "REJECTED"
      BY <2>1 DEF Row
    <3>2. signUps' = [signUps EXCEPT ![s] = row]
      BY <2>1, <2>5 DEF WriteRejection, Inv, TypeOK
    <3> HIDE DEF row
    <3>3. Answers(w) /\ UNCHANGED <<tenants, users, mailed, died>>
      BY <2>5 DEF WriteRejection
    <3> HIDE DEF s
    <3> QED
      BY <1>1, <2>1, <3>1, <3>2, <3>3, IdleKnows, RowStepInv DEF Answers
  <2>6. CASE CloseSignUp(w)
    <3> DEFINE row == [signUps[s] EXCEPT !.status = "COMPLETED",
                                         !.token = NoToken]
    <3>1. row \in Row /\ row.status = "COMPLETED" /\ row.token = NoToken
      BY <2>1 DEF Row
    <3>2. signUps' = [signUps EXCEPT ![s] = row]
      BY <2>1, <2>6 DEF CloseSignUp, Inv, TypeOK
    <3>3. \E k \in Keys : /\ tenants[k] # Absent
                          /\ tenants[k].of = s /\ tenants[k].has = Parts
      <4>1. r.at = "close" /\ r.key \in Keys
        BY <1>1, <2>6, Fields DEF CloseSignUp, Completing
      <4>2. /\ tenants[r.key] # Absent /\ tenants[r.key].of = s
            /\ Parts \subseteq tenants[r.key].has
        <5>1. "close" \in DOMAIN Before /\ Before["close"] = Parts
          BY DEF Before
        <5>2. Knows(r, signUps, tenants)
          BY DEF Inv, WorkersKnow
        <5> QED
          BY <4>1, <5>1, <5>2 DEF Knows
      <4>3. tenants[r.key].has \subseteq Parts
        BY <4>1, <4>2 DEF Inv, TypeOK, TenantRow
      <4>4. tenants[r.key].has = Parts
        BY <4>2, <4>3
      <4> QED
        BY <4>1, <4>2, <4>4
    <3> HIDE DEF row
    <3>4. Answers(w) /\ UNCHANGED <<tenants, users, mailed, died>>
      BY <2>6 DEF CloseSignUp
    <3> HIDE DEF s
    <3> QED
      BY <1>1, <2>1, <3>1, <3>2, <3>3, <3>4, IdleKnows, RowStepInv DEF Answers
  <2> QED
    BY <1>4, <2>3, <2>4, <2>5, <2>6
<1> QED
  BY <1>3, <1>4

\* The mail of an approval, a second mail, and a request that dies.
LEMMA MailInv ==
    ASSUME Inv, NEW w \in Workers, MailApproval(w)
    PROVE  Inv'
<1> DEFINE r == workers[w]
<1>1. r.signUp \in SignUps /\ r.token \in Tokens /\ r.at = "approval mail"
  BY Fields DEF MailApproval, About, Inv, TypeOK
<1>2. /\ workers' = [workers EXCEPT ![w] = Idle]
      /\ mailed'[r.signUp] = mailed[r.signUp] \cup {r.token}
      /\ \A s \in SignUps : mailed[s] \subseteq mailed'[s]
      /\ mailed' \in [SignUps -> SUBSET Tokens]
      /\ UNCHANGED <<signUps, tenants, users, died>>
  BY <1>1 DEF MailApproval, Answers, Goes, Inv, TypeOK
<1>3. TypeOK'
  BY <1>2 DEF Inv, TypeOK
<1>4. WorkersKnow'
  BY <1>2, <1>3, IdleKnows, Growth
<1>5. CompletedIsWhole'
  BY <1>2 DEF Inv, CompletedIsWhole
<1>6. LinksMailed'
  <2>1. \A v \in Workers \ {w} : workers'[v] = workers[v]
    BY <1>2 DEF Inv, TypeOK
  <2>2. ASSUME NEW s \in SignUps \ died
        PROVE  LinkMailed(s, signUps[s], mailed'[s], workers')
    <3>1. LinkMailed(s, signUps[s], mailed[s], workers)
      BY DEF Inv, LinksMailed
    <3> QED
      BY <1>2, <2>1, <3>1 DEF LinkMailed
  <2> QED
    BY <1>2, <2>2 DEF LinksMailed
<1> QED
  BY <1>3, <1>4, <1>5, <1>6 DEF Inv

LEMMA ResendInv ==
    ASSUME Inv, NEW s \in SignUps, ResendActivationEmail(s)
    PROVE  Inv'
<1>1. signUps[s].token.text \in Tokens
  BY DEF ResendActivationEmail, Inv, TypeOK, Row, Sealed
<1>2. /\ \A q \in SignUps : mailed[q] \subseteq mailed'[q]
      /\ mailed' \in [SignUps -> SUBSET Tokens]
      /\ UNCHANGED <<signUps, tenants, users, workers, died>>
  BY <1>1 DEF ResendActivationEmail, Inv, TypeOK
<1>3. TypeOK'
  BY <1>2 DEF Inv, TypeOK
<1>4. WorkersKnow' /\ CompletedIsWhole'
  BY <1>2 DEF Inv, WorkersKnow, CompletedIsWhole
<1>5. LinksMailed'
  BY <1>2 DEF Inv, LinksMailed, LinkMailed
<1> QED
  BY <1>3, <1>4, <1>5 DEF Inv

LEMMA DiesInv ==
    ASSUME Inv, NEW w \in Workers, Dies(w)
    PROVE  Inv'
<1> DEFINE r == workers[w]
<1>1. /\ workers' = [workers EXCEPT ![w] = Idle]
      /\ UNCHANGED <<signUps, tenants, users, mailed>>
      /\ r.at = "approval mail" => r.signUp \in SignUps
      /\ died' = IF r.at = "approval mail" THEN died \cup {r.signUp} ELSE died
  BY Fields DEF Dies, Answers, Goes, About, Inv, TypeOK
<1>2. TypeOK'
  BY <1>1 DEF Inv, TypeOK
<1>3. WorkersKnow'
  BY <1>1, <1>2, IdleKnows, Growth
<1>4. CompletedIsWhole'
  BY <1>1 DEF Inv, CompletedIsWhole
<1>5. LinksMailed'
  <2>1. \A v \in Workers \ {w} : workers'[v] = workers[v]
    BY <1>1 DEF Inv, TypeOK
  <2>2. ASSUME NEW s \in SignUps \ died'
        PROVE  LinkMailed(s, signUps[s], mailed[s], workers')
    <3>1. LinkMailed(s, signUps[s], mailed[s], workers)
      BY <1>1 DEF Inv, LinksMailed
    <3> QED
      BY <1>1, <2>1, <3>1 DEF LinkMailed
  <2> QED
    BY <1>1, <2>2 DEF LinksMailed
<1> QED
  BY <1>2, <1>3, <1>4, <1>5 DEF Inv

\* Every step keeps the invariant.
LEMMA NextInv == Inv /\ [Next]_vars => Inv'
<1> SUFFICES ASSUME Inv, [Next]_vars
             PROVE  Inv'
  OBVIOUS
<1>1. CASE UNCHANGED vars
  BY <1>1 DEF vars, Inv, TypeOK, WorkersKnow, CompletedIsWhole, LinksMailed
<1>2. ASSUME NEW w \in Workers, NEW cnpj \in Cnpjs \cup {NoCnpj},
             NEW contact \in Emails, Create(w, cnpj, contact)
      PROVE  Inv'
  <2> DEFINE r == [at |-> "save", cnpj |-> cnpj, contact |-> contact]
  <2>1. r \in Request /\ Knows(r, signUps, tenants)
    BY DEF Request, Knows, About, Completing, Parts, Before
  <2> QED
    BY <1>2, <2>1, StartInv DEF Create
<1>3. ASSUME NEW w \in Workers, NEW s \in SignUps, Approve(w, s) \/ Reject(w, s)
      PROVE  Inv'
  <2>1. signUps[s] \in Row
    BY <1>3 DEF Approve, Reject, Inv, TypeOK
  <2>2. signUps[s].contact \in Emails
    BY <2>1 DEF Row
  <2> QED
    BY <1>3, <2>2, BeginInv
<1> QED
  BY <1>1, <1>2, <1>3, BeginInv, CompleteInv, WriteInv, MakeInv, MailInv,
     ResendInv, DiesInv
  DEF Next

THEOREM Invariance == Spec => []Inv
<1>1. Init => Inv
  BY InitInv
<1>2. Inv /\ [Next]_vars => Inv'
  BY NextInv
<1> QED
  BY <1>1, <1>2, PTL DEF Spec

\* The rows of sign-ups and tenants keep their shape.
THEOREM TypeCorrect == Spec => []TypeOK
BY Invariance, PTL DEF Inv

\* Whatever fails, in whatever order, a sign-up is completed only with all that
\* belongs to its tenant.
THEOREM CompletionIsWhole == Spec => []CompletedIsWhole
BY Invariance, PTL DEF Inv

\* An approved sign-up has a link that was mailed, or is about to be, or the
\* request that would have mailed it died.
THEOREM LinkIsMailed == Spec => []ApprovedLinkMailed
<1>1. Inv => ApprovedLinkMailed
  BY DEF Inv, LinksMailed, LinkMailed, ApprovedLinkMailed
<1> QED
  BY <1>1, Invariance, PTL
=============================================================================
