-------------------------------- MODULE Team --------------------------------
(***************************************************************************)
(* ChannelSettingsService: the administrators of a company invite others,  *)
(* who may be users already, and remove them, beside the registrations and *)
(* logins of Registration.  The mutations have no transaction: each save   *)
(* is seen at once, and an error leaves what was saved.                    *)
(*                                                                         *)
(* A role is made for every invitation; it counts once a user has it.  The *)
(* permissions of roles are left out.                                      *)
(***************************************************************************)
EXTENDS Registration

CONSTANTS
    Colleague,    \* phones of people who are invited and do not sign in themselves
    Founded,      \* how the system may start: owners of approved companies,
                  \* codes issued, invitations and removals begun
    Platform,     \* administrators of the platform, who are in every managed company
    MaxAdmins,    \* maxAdminCount
    MaxTeamwork   \* bound on the invitations and removals

\* The e-mail of a user whose administrator was removed.
NoAdministrator == "removed"

ASSUME TeamAssumption ==
    /\ Platform \in Nat /\ MaxTeamwork \in Nat /\ MaxAdmins \in Nat
    /\ Founded \subseteq [owners : Seq(Phone \cup Colleague), issued : Nat, teamwork : Nat]
    \* a user is one person
    /\ \A start \in Founded : \A i, j \in DOMAIN start.owners :
          start.owners[i] = start.owners[j] => i = j
    \* the mark of a removed administrator is nobody's e-mail
    /\ NoAdministrator \notin Phone \cup Colleague \cup {NoEmail} \cup {x.email : x \in Inputs}

VARIABLES
    teamwork,   \* history: invitations and removals begun
    unchecked,  \* history: companies that took in somebody who was a user already
    rushed,     \* history: companies in which two invitations had found a seat at once
    restored,   \* history: companies that a user has in spite of a removal: put back by a
                \* stale list, or given while the removal was under way
    left        \* history: companies taken from a user by a removal or a stale list

teamVars == <<teamwork, unchecked, rushed, restored, left>>

TeamInit ==
    \E start \in Founded :
        LET owners == start.owners
        IN  /\ code = [p \in Phone |-> NoCode] /\ tries = [p \in Phone |-> 0]
            /\ asked = [p \in Phone |-> 0] /\ sent = [p \in Phone |-> {}]
            /\ issued = start.issued /\ outside = 0 /\ call = [c \in Call |-> NoRequest]
            /\ stored = <<>>
            /\ users = [u \in DOMAIN owners |-> [phone |-> owners[u], email |-> owners[u],
                                                auth |-> "PENDING", roles |-> {u}]]
            /\ companies = [i \in DOMAIN owners |-> [code |-> <<owners[i]>>, session |-> -i,
                                                    phone |-> owners[i], status |-> "APPROVED"]]
            /\ managed = DOMAIN owners /\ inside = DOMAIN owners
            /\ form = [session |-> NoSession, loading |-> FALSE, login |-> FALSE]
            /\ shared = {} /\ crossed = {} /\ raced = {}
            /\ teamwork = start.teamwork /\ unchecked = {} /\ rushed = {} /\ restored = {} /\ left = {}

\* Only the users, and the locals of requests, are touched here.
OnlyUsers == UNCHANGED <<code, tries, asked, sent, issued, outside, stored, companies, managed,
                         form, inside, shared, crossed, raced>>

\* A request of somebody who is logged in to company i, about a person.
Begin(c, op, at, i, p, u) ==
    /\ call[c] = NoRequest /\ i \in inside
    /\ teamwork < MaxTeamwork /\ teamwork' = teamwork + 1
    /\ call' = [call EXCEPT ![c] = [NewCall(op, at, p, NoSession, Gone, NoCode)
                                       EXCEPT !.company = i, !.user = u]]
    /\ OnlyUsers /\ UNCHANGED <<users, unchecked, rushed, restored, left>>

Ends(c) == call' = [call EXCEPT ![c] = NoRequest]
-----------------------------------------------------------------------------
(* inviteChannelAdministrator *)

\* findExistingUserByPhone; a member of the company is refused at once.
Invite(c, i, p) ==
    LET u == UserOf(p)
    IN  IF u = 0 THEN Begin(c, "invite", "count", i, p, u)
        ELSE i \notin users[u].roles /\ Begin(c, "invite", "roles", i, p, u)

\* Administrators in a role of the company.
Seats(i) ==
    Cardinality({u \in DOMAIN users : i \in users[u].roles /\ users[u].email # NoAdministrator})
      + (IF i \in managed THEN Platform ELSE 0)

\* Mutant of SeatIsFree: the count is compared with the limit too late.
SeatIsFreeOneMore(i) == Seats(i) <= MaxAdmins

SeatIsFree(i) == Seats(i) < MaxAdmins

\* checkAdminCountLimit
CountAdmins(c) ==
    LET i == call[c].company
    IN  /\ call[c].at = "count"
        /\ IF SeatIsFree(i)
           THEN /\ Goes(c, "create")
                /\ rushed' = IF \E d \in Call : call[d].at = "create" /\ call[d].company = i
                             THEN rushed \cup {i} ELSE rushed
           ELSE Ends(c) /\ UNCHANGED rushed
        /\ OnlyUsers /\ UNCHANGED <<users, teamwork, unchecked, restored, left>>

\* AdministratorService.create, with the role made for it; the phone it is given
\* as identifier is taken to be what the user is found by.
CreateMember(c) ==
    /\ call[c].at = "create"
    /\ users' = Append(users, [phone |-> call[c].phone, email |-> NoEmail, auth |-> "unset",
                               roles |-> {call[c].company}])
    /\ call' = Noted(c, NoRequest)
    /\ OnlyUsers /\ UNCHANGED teamVars

\* attachRoleToExistingUser reads the roles of the user, without a look at the
\* limit ...
ReadInvited(c) ==
    /\ call[c].at = "roles"
    /\ call' = [call EXCEPT ![c].at = "join", ![c].roles = users[call[c].user].roles]
    /\ OnlyUsers /\ UNCHANGED <<users, teamVars>>

\* ... and saves them with the new one.  When the administrator is not found
\* after that, the invitation fails and the user keeps the role.
SaveInvited(c) ==
    LET u == call[c].user
        i == call[c].company
    IN  /\ call[c].at = "join"
        /\ users' = [users EXCEPT ![u].roles = call[c].roles \cup {i}]
        /\ unchecked' = unchecked \cup {i}
        /\ restored' = restored \cup (call[c].roles \ users[u].roles)
        /\ left' = left \cup (users[u].roles \ call[c].roles)
        /\ Ends(c)
        /\ OnlyUsers /\ UNCHANGED <<teamwork, rushed>>
-----------------------------------------------------------------------------
(* disableChannelAdministrator *)

\* The page lists the administrators of the company.
Disable(c, i, u) ==
    /\ i \in users[u].roles /\ users[u].email # NoAdministrator
    /\ Begin(c, "disable", "clear", i, users[u].phone, u)

\* All the roles the user has, in whichever company.
ClearRoles(c) ==
    LET u == call[c].user
    IN  /\ call[c].at = "clear"
        /\ users' = [users EXCEPT ![u].roles = {}]
        /\ left' = left \cup users[u].roles
        /\ Goes(c, "remove")
        /\ OnlyUsers /\ UNCHANGED <<teamwork, unchecked, rushed, restored>>

RemoveAdministrator(c) ==
    /\ call[c].at = "remove"
    /\ users' = [users EXCEPT ![call[c].user].email = NoAdministrator]
    /\ restored' = restored \cup users[call[c].user].roles
    /\ Ends(c)
    /\ OnlyUsers /\ UNCHANGED <<teamwork, unchecked, rushed, left>>

\* Whatever throws, the request ends where it is.
TeamFails(c) ==
    /\ call[c].op \in {"invite", "disable"}
    /\ Ends(c)
    /\ OnlyUsers /\ UNCHANGED <<users, teamVars>>

TeamStep(c) ==
    \/ CountAdmins(c) \/ CreateMember(c) \/ ReadInvited(c) \/ SaveInvited(c)
    \/ ClearRoles(c) \/ RemoveAdministrator(c) \/ TeamFails(c)

\* A registration that read its owner's roles before a removal puts them back.
Regains ==
    restored' = restored \cup {i \in DOMAIN companies :
                                 \E u \in DOMAIN users : i \in users'[u].roles \ users[u].roles}

TeamNext ==
    \/ RegistrationNext /\ Regains /\ UNCHANGED <<teamwork, unchecked, rushed, left>>
    \/ \E c \in Call :
         \/ TeamStep(c)
         \/ \E i \in DOMAIN companies, p \in Phone \cup Colleague : Invite(c, i, p)
         \/ \E i \in DOMAIN companies, u \in DOMAIN users : Disable(c, i, u)

TeamSpec == TeamInit /\ [][TeamNext]_<<otpVars, regVars, teamVars>>
-----------------------------------------------------------------------------
(* Properties *)

Members(i) == {u \in DOMAIN users : i \in users[u].roles}

\* No more people than the limit allows get into a company, the administrators
\* of the platform included: unless it took in somebody who was a user already,
\* who is not counted (inviteChannelAdministrator), two invitations had counted
\* before either was through (checkAdminCountLimit), somebody who was removed
\* came back by a list of roles that had been read before, or was given the
\* company while the removal was under way and is not counted in it, or the
\* company fell out of the platform's role, whose administrators then take no
\* seats.
SeatsWithinLimit ==
    \A i \in DOMAIN companies \ (unchecked \cup rushed \cup restored \cup crossed) :
        Cardinality(Members(i)) + Platform <= MaxAdmins

\* Every company is in the role by which the platform's administrators manage
\* it, unless another registration had read the role and not saved it when the
\* company was committed: its save takes the company out again
\* (addChannelToSuperAdminRole).  And its owner reaches it by logging in, with
\* the user that is found for the phone, unless the owner was registering
\* another company, or was made an administrator of one, at the same time: then
\* a second user is made, or a role is lost (verifyRegistrationOTP's lookup,
\* attachRoleToExistingUser, inviteChannelAdministrator); or was removed
\* from a team, which takes every company away (disableChannelAdministrator), or
\* invited into one by a list of roles read before.
CompaniesReachable ==
    \A i \in DOMAIN companies :
        /\ i \in managed \cup crossed
        /\ i \in users[UserOf(companies[i].phone)].roles \cup raced \cup left
=============================================================================
