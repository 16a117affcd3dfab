-------------------------------- MODULE SignUp --------------------------------
(***************************************************************************)
(* sign-up.service.ts: a request to become a tenant is created, edited,    *)
(* approved or rejected by an administrator of the platform, and completed *)
(* by its contact with the link of the approval mail, which makes the      *)
(* tenant, its trial subscription, its department and its first user.      *)
(*                                                                         *)
(* A Worker is a request under way, and every await ends a step.  CNPJ and *)
(* activation token are stored encrypted with an initialization vector of  *)
(* their own, and a search encrypts what it looks for once more.  A vector *)
(* is one of IVs: that two are equal is possible, as it is for random ones.*)
(*                                                                         *)
(* A tenant is named by its customKey, which is unique.  Its company has   *)
(* the name the registry of companies gives for the CNPJ.                  *)
(***************************************************************************)
EXTENDS FiniteSets

CONSTANTS
    SignUps, Cnpjs, NoCnpj, Emails, Tokens, NoToken, IVs, Keys, Workers,
    Registry,  \* the name the registry has for each CNPJ
    NoName,    \* the name of a request without a CNPJ
    Absent     \* a row that does not exist

Sealed(values) == [text : values, iv : IVs]

\* Rows of sign_up.
Row == [status : {"PENDING", "APPROVED", "REJECTED", "COMPLETED"},
        cnpj : Sealed(Cnpjs) \cup {NoCnpj}, contact : Emails,
        token : Sealed(Tokens) \cup {NoToken}]

Names == { Registry[c] : c \in Cnpjs } \cup {NoName}

Parts == {"statuses", "trial", "department", "admin"}

\* Rows of tenant: the sign-up it was made from, and what was made for it.
TenantRow == [name : Names, of : SignUps, has : SUBSET Parts]

ASSUME SignUpAssumption ==
    /\ NoCnpj \notin Cnpjs \cup Sealed(Cnpjs)
    /\ NoToken \notin Sealed(Tokens)
    /\ NoName \notin { Registry[c] : c \in Cnpjs }
    /\ Absent \notin Row \cup TenantRow

VARIABLES
    signUps,  \* rows of sign_up
    tenants,  \* rows of tenant, by customKey
    users,    \* the e-mail addresses of users
    workers,  \* what each request does next, with what it has read
    mailed,   \* the tokens in the approval mails about each sign-up
    died      \* sign-ups with an approval that ended before its mail

vars == <<signUps, tenants, users, workers, mailed, died>>

-----------------------------------------------------------------------------
(* Encrypted columns.                                                      *)

\* What findOne may return for a value encrypted anew: a row found by a vector
\* that happens to be equal.
Matches(column, value, iv) ==
    { s \in SignUps : /\ signUps[s] # Absent
                      /\ signUps[s][column] = [text |-> value, iv |-> iv] }

-----------------------------------------------------------------------------

NameOf(row) == IF row.cnpj = NoCnpj THEN NoName ELSE Registry[row.cnpj.text]

Idle == [at |-> "idle"]

\* The steps of completeSignUp.
Completing == {"name", "tenant", "close"} \cup Parts

\* What a request goes on with.
Request ==
    [at : {"save"}, cnpj : Cnpjs \cup {NoCnpj}, contact : Emails]
    \cup [at : {"update"}, signUp : SignUps, cnpj : Cnpjs \cup {NoCnpj},
          contact : Emails]
    \cup [at : {"approve", "approval mail"}, signUp : SignUps, token : Tokens]
    \cup [at : {"reject"}, signUp : SignUps]
    \cup [at : Completing, signUp : SignUps, key : Keys, name : Names,
          contact : Emails]

Goes(w, next) == workers' = [workers EXCEPT ![w] = next]

Answers(w) == Goes(w, Idle)

Init ==
    /\ signUps = [s \in SignUps |-> Absent]
    /\ tenants = [k \in Keys |-> Absent]
    /\ users \in SUBSET Emails
    /\ workers = [w \in Workers |-> Idle]
    /\ mailed = [s \in SignUps |-> {}]
    /\ died = {}

\* The request ends: a query fails, or the process does.
Dies(w) ==
    /\ workers[w] # Idle
    /\ Answers(w)
    /\ died' = IF workers[w].at = "approval mail"
               THEN died \cup {workers[w].signUp} ELSE died
    /\ UNCHANGED <<signUps, tenants, users, mailed>>

-----------------------------------------------------------------------------
(* create and update.                                                      *)

\* findByCnpj, unless no CNPJ is given: one of another sign-up ends the request.
NobodyElseHas(cnpj, self) ==
    \/ cnpj = NoCnpj
    \/ \E iv \in IVs : LET found == Matches("cnpj", cnpj, iv)
                       IN  found = {} \/ found \cap self # {}

SealedCnpj(cnpj) == IF cnpj = NoCnpj THEN {NoCnpj} ELSE Sealed({cnpj})

Create(w, cnpj, contact) ==
    /\ workers[w] = Idle
    /\ NobodyElseHas(cnpj, {})
    /\ Goes(w, [at |-> "save", cnpj |-> cnpj, contact |-> contact])
    /\ UNCHANGED <<signUps, tenants, users, mailed, died>>

\* After the registry has answered.
SaveSignUp(w) ==
    /\ workers[w].at = "save"
    /\ \E s \in SignUps, cnpj \in SealedCnpj(workers[w].cnpj) :
          /\ signUps[s] = Absent
          /\ signUps' = [signUps EXCEPT ![s] =
                 [status |-> "PENDING", cnpj |-> cnpj, token |-> NoToken,
                  contact |-> workers[w].contact]]
    /\ Answers(w)
    /\ UNCHANGED <<tenants, users, mailed, died>>

\* Whatever the status is.
Update(w, s, cnpj, contact) ==
    /\ workers[w] = Idle /\ signUps[s] # Absent
    /\ NobodyElseHas(cnpj, {s})
    /\ Goes(w, [at |-> "update", signUp |-> s, cnpj |-> cnpj,
                contact |-> contact])
    /\ UNCHANGED <<signUps, tenants, users, mailed, died>>

WriteUpdate(w) ==
    /\ workers[w].at = "update"
    /\ \E cnpj \in SealedCnpj(workers[w].cnpj) :
          signUps' = [signUps EXCEPT
                         ![workers[w].signUp].cnpj = cnpj,
                         ![workers[w].signUp].contact = workers[w].contact]
    /\ Answers(w)
    /\ UNCHANGED <<tenants, users, mailed, died>>

-----------------------------------------------------------------------------
(* approveSignUp, rejectSignUp and resendActivationEmail.                  *)

\* uuidv4: neither in a row, nor in a mail, nor with another request.
FreshTokens ==
    { t \in Tokens :
        /\ \A s \in SignUps : t \notin mailed[s]
        /\ \A s \in SignUps : signUps[s] # Absent =>
              signUps[s].token \notin Sealed({t})
        /\ \A w \in Workers : workers[w].at \in {"approve", "approval mail"} =>
              workers[w].token # t }

Approve(w, s) ==
    /\ workers[w] = Idle /\ signUps[s] # Absent
    /\ signUps[s].status \notin {"APPROVED", "COMPLETED"}
    /\ NameOf(signUps[s]) # NoName
    /\ \E t \in FreshTokens :
          Goes(w, [at |-> "approve", signUp |-> s, token |-> t])
    /\ UNCHANGED <<signUps, tenants, users, mailed, died>>

\* Mutant: the status only.
WriteApproval_NoToken(w) ==
    /\ workers[w].at = "approve"
    /\ signUps' = [signUps EXCEPT ![workers[w].signUp].status = "APPROVED"]
    /\ Goes(w, [workers[w] EXCEPT !.at = "approval mail"])
    /\ UNCHANGED <<tenants, users, mailed, died>>

WriteApproval(w) ==
    /\ workers[w].at = "approve"
    /\ \E token \in Sealed({workers[w].token}) :
          signUps' = [signUps EXCEPT
                         ![workers[w].signUp].status = "APPROVED",
                         ![workers[w].signUp].token = token]
    /\ Goes(w, [workers[w] EXCEPT !.at = "approval mail"])
    /\ UNCHANGED <<tenants, users, mailed, died>>

\* Mutant: a contact who was approved before has had a mail.
MailApproval_Once(w) ==
    /\ workers[w].at = "approval mail"
    /\ LET s == workers[w].signUp
       IN  mailed' = [mailed EXCEPT ![s] =
               IF @ = {} THEN {workers[w].token} ELSE @]
    /\ Answers(w)
    /\ UNCHANGED <<signUps, tenants, users, died>>

\* The row is read again, for the address; the token is the request's own.
MailApproval(w) ==
    /\ workers[w].at = "approval mail"
    /\ mailed' = [mailed EXCEPT ![workers[w].signUp] =
                     @ \cup {workers[w].token}]
    /\ Answers(w)
    /\ UNCHANGED <<signUps, tenants, users, died>>

Reject(w, s) ==
    /\ workers[w] = Idle /\ signUps[s] # Absent
    /\ signUps[s].status \notin {"REJECTED", "COMPLETED"}
    /\ Goes(w, [at |-> "reject", signUp |-> s])
    /\ UNCHANGED <<signUps, tenants, users, mailed, died>>

\* The token stays.
WriteRejection(w) ==
    /\ workers[w].at = "reject"
    /\ signUps' = [signUps EXCEPT ![workers[w].signUp].status = "REJECTED"]
    /\ Answers(w)
    /\ UNCHANGED <<tenants, users, mailed, died>>

ResendActivationEmail(s) ==
    /\ signUps[s] # Absent /\ signUps[s].status = "APPROVED"
    /\ signUps[s].token # NoToken
    /\ mailed' = [mailed EXCEPT ![s] = @ \cup {signUps[s].token.text}]
    /\ UNCHANGED <<signUps, tenants, users, workers, died>>

-----------------------------------------------------------------------------
(* completeSignUp.                                                         *)

Links == UNION { mailed[s] : s \in SignUps }

\* findByActivationToken finds the row of the link, which must be approved; else
\* the answer is an error, invalid-activation-token or sign-up-not-approved.
Complete(w, t, key) ==
    /\ workers[w] = Idle /\ t \in Links
    /\ \E iv \in IVs : \E s \in Matches("token", t, iv) :
          /\ signUps[s].status = "APPROVED"
          /\ Goes(w, [at |-> "name", signUp |-> s, key |-> key,
                      name |-> NameOf(signUps[s]),
                      contact |-> signUps[s].contact])
    /\ UNCHANGED <<signUps, tenants, users, mailed, died>>

\* tenantService.create looks for a company of the same name first.
CheckName(w) ==
    /\ workers[w].at = "name"
    /\ IF \E k \in Keys : tenants[k] # Absent /\ tenants[k].name = workers[w].name
       THEN Answers(w)
       ELSE Goes(w, [workers[w] EXCEPT !.at = "tenant"])
    /\ UNCHANGED <<signUps, tenants, users, mailed, died>>

\* A customKey that is taken violates the unique column.
SaveTenant(w) ==
    /\ workers[w].at = "tenant"
    /\ LET key == workers[w].key
       IN  \/ /\ tenants[key] = Absent
              /\ tenants' = [tenants EXCEPT ![key] =
                     [name |-> workers[w].name, of |-> workers[w].signUp,
                      has |-> {}]]
              /\ Goes(w, [workers[w] EXCEPT !.at = "statuses"])
           \/ tenants[key] # Absent /\ Answers(w) /\ UNCHANGED tenants
    /\ UNCHANGED <<signUps, users, mailed, died>>

Has(w, part) ==
    tenants' = [tenants EXCEPT ![workers[w].key].has = @ \cup {part}]

\* What is made for the tenant before its user, in this order.
Then == [statuses |-> "trial", trial |-> "department", department |-> "admin"]

Provide(w) ==
    /\ workers[w].at \in DOMAIN Then
    /\ Has(w, workers[w].at)
    /\ Goes(w, [workers[w] EXCEPT !.at = Then[workers[w].at]])
    /\ UNCHANGED <<signUps, users, mailed, died>>

\* Mutant: whoever has the address will do.
CreateAdmin_Existing(w) ==
    /\ workers[w].at = "admin"
    /\ users' = users \cup {workers[w].contact}
    /\ IF workers[w].contact \in users THEN UNCHANGED tenants ELSE Has(w, "admin")
    /\ Goes(w, [workers[w] EXCEPT !.at = "close"])
    /\ UNCHANGED <<signUps, mailed, died>>

\* superAdminCreate: an address that is taken ends the request, when it is
\* looked for or by the unique column.
CreateAdmin(w) ==
    /\ workers[w].at = "admin"
    /\ IF workers[w].contact \in users
       THEN Answers(w) /\ UNCHANGED <<tenants, users>>
       ELSE /\ users' = users \cup {workers[w].contact}
            /\ Has(w, "admin")
            /\ Goes(w, [workers[w] EXCEPT !.at = "close"])
    /\ UNCHANGED <<signUps, mailed, died>>

\* By id: whatever the row has become.
CloseSignUp(w) ==
    /\ workers[w].at = "close"
    /\ signUps' = [signUps EXCEPT ![workers[w].signUp].status = "COMPLETED",
                                  ![workers[w].signUp].token = NoToken]
    /\ Answers(w)
    /\ UNCHANGED <<tenants, users, mailed, died>>

-----------------------------------------------------------------------------

Next ==
    \/ \E w \in Workers, cnpj \in Cnpjs \cup {NoCnpj}, contact \in Emails :
          \/ Create(w, cnpj, contact)
          \/ \E s \in SignUps : Update(w, s, cnpj, contact)
    \/ \E w \in Workers, s \in SignUps : Approve(w, s) \/ Reject(w, s)
    \/ \E w \in Workers, t \in Tokens, key \in Keys : Complete(w, t, key)
    \/ \E s \in SignUps : ResendActivationEmail(s)
    \/ \E w \in Workers :
          \/ SaveSignUp(w) \/ WriteUpdate(w) \/ WriteApproval(w)
          \/ MailApproval(w) \/ WriteRejection(w) \/ CheckName(w)
          \/ SaveTenant(w) \/ Provide(w) \/ CreateAdmin(w) \/ CloseSignUp(w)
          \/ Dies(w)

Spec == Init /\ [][Next]_vars

-----------------------------------------------------------------------------
(* Properties.                                                             *)

\* Rows have their shape: a sign-up that waits has no token yet and one that is
\* approved has one, a completed one none (sign-up.entity.ts:72).
TypeOK ==
    /\ signUps \in [SignUps -> Row \cup {Absent}]
    /\ \A s \in SignUps : signUps[s] # Absent =>
          /\ signUps[s].status \in {"PENDING", "COMPLETED"} =>
                signUps[s].token = NoToken
          /\ signUps[s].status = "APPROVED" => signUps[s].token # NoToken
    /\ tenants \in [Keys -> TenantRow \cup {Absent}]
    /\ workers \in [Workers -> Request \cup {Idle}]
    /\ users \subseteq Emails
    /\ mailed \in [SignUps -> SUBSET Tokens] /\ died \subseteq SignUps

\* A sign-up is completed only when its tenant has its statuses, its trial, its
\* department and its first user, whichever step of which request fails
\* (sign-up.service.ts:464).
CompletedIsWhole ==
    \A s \in SignUps :
        signUps[s] # Absent /\ signUps[s].status = "COMPLETED" =>
            \E k \in Keys : /\ tenants[k] # Absent
                            /\ tenants[k].of = s /\ tenants[k].has = Parts

\* The link that opens an approved sign-up has been mailed, also when approvals
\* and rejections overlap, or the request that mails it is still under way,
\* unless one died on the way (sign-up.service.ts:310).
ApprovedLinkMailed ==
    \A s \in SignUps \ died :
        signUps[s] # Absent /\ signUps[s].status = "APPROVED" =>
            \/ signUps[s].token.text \in mailed[s]
            \/ \E w \in Workers : /\ workers[w].at = "approval mail"
                                  /\ workers[w].signUp = s

\* The link in the mail works as long as the sign-up waits for it
\* (complete-your-sign-up.hbs:17): whatever vector the search draws, the
\* current token of an approved sign-up leads to that sign-up.
MailedLinkIsValid ==
    \A s \in SignUps :
        /\ signUps[s] # Absent /\ signUps[s].status = "APPROVED"
        /\ signUps[s].token.text \in mailed[s]
        => \A iv \in IVs : s \in Matches("token", signUps[s].token.text, iv)

=============================================================================
