------------------------------- MODULE Accounts -------------------------------
(***************************************************************************)
(* The rows of the users' accounts (pkg/users) and the requests that       *)
(* change them: registration, verification of the e-mail address, the      *)
(* profile, and the administration of accounts (pkg/admin).  The store     *)
(* locks each of its operations, but a handler is several of them: it      *)
(* reads a row, changes fields of its copy, and writes the whole copy.     *)
(* Left out: e-mail addresses (no handler changes one), names, passwords,  *)
(* JWTs and the audit log.  The first administrator comes from outside:    *)
(* no handler creates one.                                                 *)
(***************************************************************************)
EXTENDS Naturals, FiniteSets

CONSTANTS
    Account,     \* IDs of accounts
    Founder,     \* the administrator the database begins with
    Request,     \* requests to change an account, each made once
    Ticket,      \* verification tokens
    Wish,        \* the changes administrators ask for
    NoRow, NoTicket

UserStatus == {"pending_verification", "active", "suspended", "deleted"}
Role == {"user", "admin"}
UserRow == [status : UserStatus, role : Role, verified : BOOLEAN]

\* An administrator's changes: handleUpdateUser, handleSuspendUser, handleActivateUser and
\* handleSetRole, which leave a field the same or give it a value.
Change == [role : Role \cup {"same"}, status : UserStatus \cup {"same"}]
NoChange == [role |-> "same", status |-> "same"]

ASSUME AccountsAssumption ==
    /\ Founder \in Account /\ NoTicket \notin Ticket
    /\ Wish \subseteq Change

VARIABLES
    users,     \* the table of users: a row, or NoRow
    tickets,   \* the table of verification tokens: of, used, expired
    cooling,   \* accounts whose youngest token is younger than the cooldown
    request,   \* each request: its handler's progress and its copy of the row
    removed,   \* history: accounts that have been deleted
    twice      \* history: a token was created while another one was cooling

accountVars == <<users, tickets, cooling, request, removed, twice>>

Idle == [step |-> "new", op |-> "none", of |-> Founder, change |-> NoChange,
         copy |-> NoRow, ticket |-> NoTicket]

AccountInit ==
    /\ users = [a \in Account |-> IF a = Founder
           THEN [status |-> "active", role |-> "admin", verified |-> FALSE] ELSE NoRow]
    /\ tickets = [t \in Ticket |-> [of |-> NoRow, used |-> FALSE, expired |-> FALSE]]
    /\ cooling = {}
    /\ request = [q \in Request |-> Idle]
    /\ removed = {} /\ twice = FALSE

tableVars == <<users, tickets, cooling>>
accountHistory == <<removed, twice>>

Step(q, step) == request' = [request EXCEPT ![q].step = step]

(***************************************************************************)
(* Registration and the clock                                              *)
(***************************************************************************)

\* handleRegister: the ID is a new one.
handleRegister(a) ==
    /\ users[a] = NoRow /\ a \notin removed
    /\ users' = [users EXCEPT ![a] =
           [status |-> "pending_verification", role |-> "user", verified |-> FALSE]]
    /\ UNCHANGED <<tickets, cooling, request, accountHistory>>

CoolDown(a) ==
    /\ a \in cooling
    /\ cooling' = cooling \ {a}
    /\ UNCHANGED <<users, tickets, request, accountHistory>>

\* A token is 24 hours old; all its account's tokens have cooled down long ago.
ExpireTicket(t) ==
    /\ tickets[t].of # NoRow /\ ~tickets[t].expired /\ tickets[t].of \notin cooling
    /\ tickets' = [tickets EXCEPT ![t].expired = TRUE]
    /\ UNCHANGED <<users, cooling, request, accountHistory>>

(***************************************************************************)
(* A request arrives                                                       *)
(***************************************************************************)

\* An authenticated user changes its profile or password, or anybody asks for a token.
BeginOwn(q, a, op) ==
    /\ request[q].step = "new"
    /\ users[a] # NoRow
    /\ request' = [request EXCEPT ![q] =
           [Idle EXCEPT !.step = "read", !.op = op, !.of = a]]
    /\ UNCHANGED <<tableVars, accountHistory>>

\* VerifyEmail looks the token up: it exists, is not used and not expired.
BeginVerify(q, t) ==
    /\ request[q].step = "new"
    /\ tickets[t].of # NoRow /\ ~tickets[t].used /\ ~tickets[t].expired
    /\ request' = [request EXCEPT ![q] =
           [Idle EXCEPT !.step = "read", !.op = "verify", !.of = tickets[t].of,
                        !.ticket = t]]
    /\ UNCHANGED <<tableVars, accountHistory>>

\* AdminMiddleware reads the administrator's row; then the handler refuses to take the
\* own role away, and to suspend or to delete the own account.
BeginAdmin(q, by, a, change) ==
    /\ request[q].step = "new"
    /\ users[by] # NoRow /\ users[by].role = "admin"
    /\ a = by => change.role # "user" /\ change.status \notin {"suspended", "deleted"}
    /\ request' = [request EXCEPT ![q] =
           [Idle EXCEPT !.step = "read", !.op = "update", !.of = a, !.change = change]]
    /\ UNCHANGED <<tableVars, accountHistory>>

BeginDelete(q, by, a) ==
    /\ request[q].step = "new"
    /\ users[by] # NoRow /\ users[by].role = "admin" /\ a # by
    /\ request' = [request EXCEPT ![q] =
           [Idle EXCEPT !.step = "delete", !.op = "delete", !.of = a]]
    /\ UNCHANGED <<tableVars, accountHistory>>

(***************************************************************************)
(* The handler                                                             *)
(***************************************************************************)

\* GetByID: the handler ends without a row, and with a verified one if it is to verify it.
GetByID(q) ==
    LET a == request[q].of
        op == request[q].op
    IN  /\ request[q].step = "read"
        /\ IF users[a] = NoRow \/ (op \in {"verify", "resend"} /\ users[a].verified)
           THEN Step(q, "ended")
           ELSE request' = [request EXCEPT ![q].copy = users[a],
                    ![q].step = CASE op = "verify" -> "mark"
                                  [] op = "resend" -> "last"
                                  [] OTHER -> "write"]
        /\ UNCHANGED <<tableVars, accountHistory>>

\* MUTANT: the token is marked when the row has been written.
MarkLater(q) ==
    /\ request[q].step = "mark"
    /\ Step(q, "write")
    /\ UNCHANGED <<tableVars, accountHistory>>

MarkUsed(q) ==
    /\ request[q].step = "mark"
    /\ tickets' = [tickets EXCEPT ![request[q].ticket].used = TRUE]
    /\ Step(q, "write")
    /\ UNCHANGED <<users, cooling, accountHistory>>

\* The row a request writes: its copy, with the fields it is about changed.
Changed(q) ==
    LET copy == request[q].copy
        change == request[q].change
    IN  IF request[q].op = "verify"
        THEN [copy EXCEPT !.verified = TRUE,
                  !.status = IF @ = "pending_verification" THEN "active" ELSE @]
        ELSE [copy EXCEPT !.role = IF change.role = "same" THEN @ ELSE change.role,
                          !.status = IF change.status = "same" THEN @ ELSE change.status]

\* MUTANT: the row is inserted if there is none.
Upsert(q) ==
    /\ request[q].step = "write"
    /\ users' = [users EXCEPT ![request[q].of] = Changed(q)]
    /\ Step(q, "ended")
    /\ UNCHANGED <<tickets, cooling, accountHistory>>

\* Update writes the whole row; without one nothing is affected and the request fails.
Update(q) ==
    /\ request[q].step = "write"
    /\ users' = IF users[request[q].of] = NoRow THEN users
                ELSE [users EXCEPT ![request[q].of] = Changed(q)]
    /\ Step(q, "ended")
    /\ UNCHANGED <<tickets, cooling, accountHistory>>

DeleteUser(q) ==
    /\ request[q].step = "delete"
    /\ users' = [users EXCEPT ![request[q].of] = NoRow]
    /\ removed' = IF users[request[q].of] = NoRow THEN removed ELSE removed \cup {request[q].of}
    /\ Step(q, "ended")
    /\ UNCHANGED <<tickets, cooling, twice>>

\* ResendVerification: the youngest token's age is looked at ...
LastTokenTime(q) ==
    /\ request[q].step = "last"
    /\ Step(q, IF request[q].of \in cooling THEN "ended" ELSE "create")
    /\ UNCHANGED <<tableVars, accountHistory>>

\* ... and a token is created.
CreateToken(q) ==
    /\ request[q].step = "create"
    /\ \E t \in {u \in Ticket : tickets[u].of = NoRow} :
          tickets' = [tickets EXCEPT ![t].of = request[q].of]
    /\ cooling' = cooling \cup {request[q].of}
    /\ twice' = (twice \/ request[q].of \in cooling)
    /\ Step(q, "ended")
    /\ UNCHANGED <<users, removed>>

Begin(q) ==
    \/ \E a \in Account : \E op \in {"profile", "resend"} : BeginOwn(q, a, op)
    \/ \E t \in Ticket : BeginVerify(q, t)
    \/ \E by, a \in Account :
           BeginDelete(q, by, a) \/ \E change \in Wish : BeginAdmin(q, by, a, change)

Handle(q) ==
    \/ GetByID(q) \/ MarkUsed(q) \/ Update(q) \/ DeleteUser(q)
    \/ LastTokenTime(q) \/ CreateToken(q)

AccountNext ==
    \/ \E a \in Account : handleRegister(a) \/ CoolDown(a)
    \/ \E t \in Ticket : ExpireTicket(t)
    \/ \E q \in Request : Begin(q) \/ Handle(q)

AccountSpec == AccountInit /\ [][AccountNext]_accountVars

(***************************************************************************)
(* Properties                                                              *)
(***************************************************************************)

AccountTypeOK ==
    /\ users \in [Account -> UserRow \cup {NoRow}]
    /\ tickets \in [Ticket ->
           [of : Account \cup {NoRow}, used : BOOLEAN, expired : BOOLEAN]]
    /\ cooling \subseteq Account
    /\ request \in [Request ->
           [step : {"new", "read", "mark", "last", "create", "write", "delete", "ended"},
            op : {"none", "profile", "verify", "resend", "update", "delete"},
            of : Account, change : Change,
            copy : UserRow \cup {NoRow}, ticket : Ticket \cup {NoTicket}]]
    /\ removed \subseteq Account /\ twice \in BOOLEAN

\* A deleted account stays deleted, whatever a request that has read its row before goes on
\* to write; and an account is verified only with a token of its own that is used up, though
\* other requests copy the flag with the whole row.
DeletedStaysGone == \A a \in removed : users[a] = NoRow
VerifiedByToken ==
    \A a \in Account : users[a] # NoRow /\ users[a].verified =>
        \E t \in Ticket : tickets[t].of = a /\ tickets[t].used

\* A request changes only the fields it is about.
Own(op) ==
    CASE op = "verify" -> {"status", "verified"}
      [] op = "update" -> {"role", "status"}
      [] OTHER -> {}
OnlyOwnFields ==
    [][\A q \in Request : Update(q) =>
           \A f \in {"status", "role", "verified"} \ Own(request[q].op) :
               users[request[q].of] # NoRow =>
                   users'[request[q].of][f] = users[request[q].of][f]]_accountVars

\* "creates a new verification token, enforcing a cooldown".
CooldownKept == ~twice

\* "Prevent admin from removing their own admin role": some administrator remains.
AdminRemains == \E a \in Account : users[a] # NoRow /\ users[a].role = "admin"
=============================================================================
