----------------------------- MODULE Registration -----------------------------
(***************************************************************************)
(* PhoneAuthService on top of OtpService: registering a company and        *)
(* logging in.  A registration waits in Redis under a session id until its *)
(* code is verified; then RegistrationService provisions the company in    *)
(* one database transaction.  What a transaction does is seen by others    *)
(* when it commits; what it reads of them is committed.                    *)
(*                                                                         *)
(* The browser shows one sign-up form.  Its code field submits by itself   *)
(* when six digits are in, whether or not an earlier submission is still   *)
(* under way; the login page allows one request at a time.                 *)
(***************************************************************************)
EXTENDS Otp

CONSTANTS
    Inputs,      \* what the form may hold: company name and e-mail
    NoEmail,
    MaxSessions  \* bound on registrations started

ASSUME RegistrationAssumption ==
    /\ Inputs \subseteq [name : STRING, email : STRING] /\ MaxSessions \in Nat

VARIABLES
    stored,     \* registration data in Redis, by session; Gone when deleted
    users,      \* committed users, with their administrator's e-mail and roles
    companies,  \* committed channels
    managed,    \* the channels of the SuperAdmin role
    form,       \* the sign-up page: its session, whether it loads; login: the other
                \* page asks for the code
    inside,     \* the companies a browser is logged in to
    shared,     \* history: sessions whose data two calls had read at once
    crossed,    \* history: companies committed while another had read the role
    raced       \* history: companies registered while their owner registered another
                \* or became somebody's administrator

regVars == <<stored, users, companies, managed, form, inside, shared, crossed, raced>>

NoSession == 0

RegistrationInit ==
    /\ OtpInit
    /\ stored = <<>> /\ users = <<>> /\ companies = <<>> /\ managed = {}
    /\ form = [session |-> NoSession, loading |-> FALSE, login |-> FALSE]
    /\ inside = {} /\ shared = {} /\ crossed = {} /\ raced = {}

UserOf(p) ==
    LET mine == {u \in DOMAIN users : users[u].phone = p}
    IN  IF mine = {} THEN 0 ELSE CHOOSE u \in mine : \A w \in mine : u <= w

OnlyCalls == UNCHANGED <<code, tries, asked, sent, issued, outside, regVars>>
-----------------------------------------------------------------------------
(* Requesting a code *)

\* validateAdminEmailUniqueness, for a request and, with no phone, for provisioning.
EmailIsTaken(email, p) ==
    /\ email # NoEmail
    /\ \E u \in DOMAIN users : users[u].email = email /\ users[u].phone # p

EmailIsUsed(email) == email # NoEmail /\ \E u \in DOMAIN users : users[u].email = email

\* Bound: codes generated and about to be.
CodesLeft == issued + Cardinality({c \in Call : call[c].at \in {"rate", "store"}}) < MaxCodes

\* onStep2Next and onResendOTP: requestRegistrationOTP checks the e-mail, stores
\* the data under a new session, and asks for a code (Bound: sessions).
AskToRegister(c, p, input) ==
    /\ call[c] = NoRequest /\ ~form.loading
    /\ CodesLeft /\ Len(stored) < MaxSessions
    /\ ~EmailIsTaken(input.email, p)
    /\ stored' = Append(stored, input)
    /\ form' = [form EXCEPT !.loading = TRUE]
    /\ call' = [call EXCEPT ![c] =
                 NewCall("askRegister", "rate", p, Len(stored) + 1, input, NoCode)]
    /\ UNCHANGED <<code, tries, asked, sent, issued, outside, users, companies, managed,
                   inside, shared, crossed, raced>>

\* onRequestOTP of the login page, which runs one request at a time.
NoLoginUnderWay == \A c \in Call : call[c].op \notin {"askLogin", "login"}

AskToLogin(c, p) ==
    /\ call[c] = NoRequest /\ NoLoginUnderWay /\ CodesLeft
    /\ UserOf(p) # 0
    /\ call' = [call EXCEPT ![c] = NewCall("askLogin", "rate", p, NoSession, Gone, NoCode)]
    /\ OnlyCalls

\* Entering the code: one that came by SMS, or another.
Guesses(p) == sent[p] \cup {WrongCode}

\* onStep3Submit, from the button or from onOTPInput.
SubmitCode(c, p, guess) ==
    /\ call[c] = NoRequest /\ form.session # NoSession
    /\ call' = [call EXCEPT ![c] = NewCall("register", "read", p, form.session, Gone, guess)]
    /\ form' = [form EXCEPT !.loading = TRUE]
    /\ UNCHANGED <<code, tries, asked, sent, issued, outside, stored, users, companies, managed,
                   inside, shared, crossed, raced>>

SubmitLogin(c, p, guess) ==
    /\ call[c] = NoRequest /\ NoLoginUnderWay /\ form.login
    /\ call' = [call EXCEPT ![c] = NewCall("login", "read", p, NoSession, Gone, guess)]
    /\ OnlyCalls
-----------------------------------------------------------------------------
(* verifyRegistrationOTP, once the code is verified *)

\* Calls that have read the data of a session and not deleted it yet.
Holding(s) == {c \in Call : call[c].at = "drop" /\ call[c].session = s}

LoadData(c) ==
    LET s == call[c].session
    IN  /\ call[c].at = "verified" /\ call[c].op = "register"
        /\ IF stored[s] = Gone
           THEN Refuse(c) /\ UNCHANGED shared
           ELSE /\ call' = [call EXCEPT ![c].at = "drop", ![c].data = stored[s]]
                /\ shared' = IF Holding(s) = {} THEN shared ELSE shared \cup {s}
        /\ UNCHANGED <<code, tries, asked, sent, issued, outside, stored, users, companies, managed,
                       form, inside, crossed, raced>>

\* Mutant of DropData: the data stays in Redis.
DropDataNever(c) ==
    /\ call[c].at = "drop" /\ Goes(c, "lookup")
    /\ OnlyCalls

DropData(c) ==
    /\ call[c].at = "drop"
    /\ stored' = [stored EXCEPT ![call[c].session] = Gone]
    /\ Goes(c, "lookup")
    /\ UNCHANGED <<code, tries, asked, sent, issued, outside, users, companies, managed, form,
                   inside, shared, crossed, raced>>

LookUpUser(c) ==
    /\ call[c].at = "lookup"
    /\ call' = [call EXCEPT ![c].at = "channel", ![c].user = UserOf(call[c].phone)]
    /\ OnlyCalls

\* validateInput, which is not told of an existing user; createSeller;
\* generateUniqueCompanyCode: the name, or the name with a random suffix.
CodeFor(name, c) ==
    IF \E i \in DOMAIN companies : companies[i].code = <<name>>
    THEN <<name, c, Len(companies)>> ELSE <<name>>

CreateChannel(c) ==
    /\ call[c].at = "channel"
    /\ IF EmailIsUsed(call[c].data.email)
       THEN Refuse(c)
       ELSE call' = [call EXCEPT ![c].at = "role", ![c].code = CodeFor(call[c].data.name, c)]
    /\ OnlyCalls

\* addChannelToSuperAdminRole reads the role with its channels...
ReadSuperAdminRole(c) ==
    /\ call[c].at = "role"
    /\ call' = [call EXCEPT ![c].at = "save", ![c].seen = managed]
    /\ OnlyCalls

\* Mutant of SaveSuperAdminRole: the role gets the new channel only.
SaveSuperAdminRoleAlone(c) ==
    /\ call[c].at = "save"
    /\ call' = [call EXCEPT ![c].at = IF call[c].user = 0 THEN "commit" ELSE "attach",
                            ![c].dropped = managed]
    /\ OnlyCalls

\* ... and saves the list it read with the new channel: the save deletes the
\* links that it finds in the database and not in the list.
SaveSuperAdminRole(c) ==
    /\ call[c].at = "save"
    /\ call' = [call EXCEPT ![c].at = IF call[c].user = 0 THEN "commit" ELSE "attach",
                            ![c].dropped = managed \ call[c].seen, ![c].seen = {}]
    /\ OnlyCalls

\* attachRoleToExistingUser, the same with the roles of the user: the save
\* deletes the links missing in the list and inserts those missing in the
\* database.
ReadUserRoles(c) ==
    /\ call[c].at = "attach"
    /\ call' = [call EXCEPT ![c].at = "link", ![c].roles = users[call[c].user].roles]
    /\ OnlyCalls

LinkUserRole(c) ==
    /\ call[c].at = "link"
    /\ call' = [call EXCEPT ![c].at = "commit",
                            ![c].unlinked = users[call[c].user].roles \ call[c].roles,
                            ![c].roles = call[c].roles \ users[call[c].user].roles]
    /\ OnlyCalls

\* The e-mail of an administrator; the phone number stands in for it.
EmailFor(c) == IF call[c].data.email = NoEmail THEN call[c].phone ELSE call[c].data.email

\* createUser, or the existing user with the new role; ensureAdministratorEntity.
UsersAfter(c, company) ==
    IF call[c].user = 0
    THEN Append(users, [phone |-> call[c].phone, email |-> EmailFor(c), auth |-> "unset",
                        roles |-> {company}])
    ELSE [users EXCEPT ![call[c].user].roles =
                           (@ \ call[c].unlinked) \cup call[c].roles \cup {company},
                       ![call[c].user].email = EmailFor(c)]

\* Unique in the database: the code of a channel, the e-mail of an administrator.
Conflict(c) ==
    \/ \E i \in DOMAIN companies : companies[i].code = call[c].code
    \/ \E u \in DOMAIN users \ {call[c].user} : users[u].email = EmailFor(c)

InTransaction(c) == call[c].at \in {"channel", "role", "save", "attach", "link", "commit"}

\* The registrations of c's person that are under way, and note that c made a user.
Beside(c) == {d \in Call \ {c} : InTransaction(d) /\ call[d].phone = call[c].phone}

Noted(c, answer) ==
    [d \in Call |-> CASE d = c           -> answer
                      [] d \in Beside(c) -> [call[d] EXCEPT !.raced = TRUE]
                      [] OTHER           -> call[d]]

\* A channel starts UNAPPROVED and in its trial; createAdminRole, the store and
\* the payment methods come with it.
Commit(c) ==
    LET new == Len(companies) + 1
        answer == IF call[c].user = 0
                  THEN [call[c] EXCEPT !.at = "pend", !.user = Len(users) + 1]
                  ELSE Answered(c, "done")
    IN  /\ call[c].at = "commit" /\ ~Conflict(c)
        /\ companies' = Append(companies, [code |-> call[c].code, session |-> call[c].session,
                                           phone |-> call[c].phone, status |-> "UNAPPROVED"])
        /\ managed' = (managed \ call[c].dropped) \cup {new}
        /\ users' = UsersAfter(c, new)
        /\ crossed' = IF \E d \in Call \ {c} : call[d].at = "save"
                      THEN crossed \cup {new} ELSE crossed
        /\ raced' = IF Beside(c) # {} \/ call[c].raced THEN raced \cup {new} ELSE raced
        /\ call' = Noted(c, answer)
        /\ UNCHANGED <<code, tries, asked, sent, issued, outside, stored, form, inside, shared>>

\* A statement of the transaction fails, or its commit: all of it is rolled back.
RollBackCompany(c) == InTransaction(c) /\ Refuse(c) /\ OnlyCalls

\* After the transaction, the status of a new user is set and the user saved.
SetPending(c) ==
    /\ call[c].at = "pend"
    /\ users' = [users EXCEPT ![call[c].user].auth = "PENDING"]
    /\ Answer(c, "done")
    /\ UNCHANGED <<code, tries, asked, sent, issued, outside, stored, companies, managed,
                   form, inside, shared, crossed, raced>>

\* The company is there, and the browser is told that its registration failed.
SetPendingFails(c) == call[c].at = "pend" /\ Refuse(c) /\ OnlyCalls
-----------------------------------------------------------------------------
(* verifyLoginOTP, once the code is verified; login with the token *)

StatusesOf(u) == {companies[i].status : i \in users[u].roles}

MayLogIn(u) ==
    /\ u # 0
    /\ users[u].auth # "REJECTED"
    /\ "DISABLED" \notin StatusesOf(u)
    /\ "APPROVED" \in StatusesOf(u)

\* The token is kept in Redis for five minutes.
GrantToken(c) ==
    LET u == UserOf(call[c].phone)
    IN  /\ call[c].at = "verified" /\ call[c].op = "login"
        /\ IF MayLogIn(u)
           THEN call' = [call EXCEPT ![c].at = "token",
                      ![c].company = CHOOSE i \in users[u].roles : companies[i].status = "APPROVED"]
           ELSE Refuse(c)
        /\ OnlyCalls

ExpireToken(c) ==
    /\ call[c].at = "token" /\ Refuse(c)
    /\ OnlyCalls

\* loginWithOTP sends the token at once; authenticate deletes it and lets the user in.
LogIn(c) ==
    /\ call[c].at = "token"
    /\ inside' = inside \cup {call[c].company}
    /\ call' = [call EXCEPT ![c] = NoRequest]
    /\ UNCHANGED <<code, tries, asked, sent, issued, outside, stored, users, companies, managed,
                   form, shared, crossed, raced>>
-----------------------------------------------------------------------------
(* Answers, redis and the administrators of the platform *)

\* The form learns its session from a request for a code, and drops it when the
\* registration succeeded; the first answer ends the loading.
FormAfter(c) ==
    CASE call[c].op = "askLogin" -> [form EXCEPT !.login = @ \/ call[c].at = "asked"]
      [] call[c].op = "login"    -> form
      [] call[c].op = "askRegister" ->
           [form EXCEPT !.loading = FALSE,
                        !.session = IF call[c].at = "asked" THEN call[c].session ELSE @]
      [] call[c].op = "register" ->
           [form EXCEPT !.loading = FALSE, !.session = IF call[c].at = "done" THEN NoSession ELSE @]

Hear(c) ==
    /\ call[c].at \in {"refused", "asked", "done"}
    /\ form' = FormAfter(c)
    /\ call' = [call EXCEPT ![c] = NoRequest]
    /\ UNCHANGED <<code, tries, asked, sent, issued, outside, stored, users, companies, managed,
                   inside, shared, crossed, raced>>

\* Registration data expires after fifteen minutes.
ExpireData(s) ==
    /\ s \in DOMAIN stored /\ stored[s] # Gone /\ Outside
    /\ stored' = [stored EXCEPT ![s] = Gone]
    /\ UNCHANGED <<code, tries, asked, sent, issued, call, users, companies, managed, form, inside,
                   shared, crossed, raced>>

\* A super administrator decides about a channel, or about a user.
Decide(i, status) ==
    /\ i \in DOMAIN companies /\ companies[i].status # status /\ Outside
    /\ companies' = [companies EXCEPT ![i].status = status]
    /\ UNCHANGED <<code, tries, asked, sent, issued, call, stored, users, managed, form, inside,
                   shared, crossed, raced>>

RejectUser(u) ==
    /\ u \in DOMAIN users /\ users[u].auth # "REJECTED" /\ Outside
    /\ users' = [users EXCEPT ![u].auth = "REJECTED"]
    /\ UNCHANGED <<code, tries, asked, sent, issued, call, stored, companies, managed, form, inside,
                   shared, crossed, raced>>

Provision(c) ==
    \/ LoadData(c) \/ DropData(c) \/ LookUpUser(c) \/ CreateChannel(c)
    \/ ReadSuperAdminRole(c) \/ SaveSuperAdminRole(c) \/ ReadUserRoles(c) \/ LinkUserRole(c)
    \/ Commit(c) \/ RollBackCompany(c) \/ SetPending(c) \/ SetPendingFails(c)

LoginStep(c) == GrantToken(c) \/ LogIn(c) \/ ExpireToken(c)

RegistrationNext ==
    \/ \E c \in Call : OtpStep(c) /\ UNCHANGED regVars
    \/ \E c \in Call : Provision(c) \/ LoginStep(c) \/ Hear(c)
    \/ \E c \in Call, p \in Phone :
         \/ \E input \in Inputs : AskToRegister(c, p, input)
         \/ AskToLogin(c, p)
         \/ \E guess \in Guesses(p) : SubmitCode(c, p, guess) \/ SubmitLogin(c, p, guess)
    \/ \E p \in Phone : Forget(p) /\ UNCHANGED regVars
    \/ \E s \in 1..MaxSessions : ExpireData(s)
    \/ \E i \in DOMAIN companies, status \in {"APPROVED", "DISABLED"} : Decide(i, status)
    \/ \E u \in DOMAIN users : RejectUser(u)

RegistrationSpec == RegistrationInit /\ [][RegistrationNext]_<<otpVars, regVars>>
-----------------------------------------------------------------------------
(* Properties *)

\* A registration makes one company, although the sign-up page may submit its
\* code twice and the code, the data and the names are read before they are
\* deleted or taken: a second one comes only from two calls that had both read
\* the data before either deleted it (retrieveRegistrationData).
OneCompanyPerRegistration ==
    \A i, j \in DOMAIN companies :
        i # j /\ companies[i].session = companies[j].session => companies[i].session \in shared
=============================================================================
