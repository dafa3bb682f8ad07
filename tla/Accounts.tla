------------------------------ MODULE Accounts ------------------------------
(***************************************************************************)
(* The user accounts (UsersService, AuthService, JwtStrategy, RolesGuard)  *)
(* and the script that makes sure there is an administrator                *)
(* (scripts/reset-admin-password.ts).  Creating an account and running the *)
(* script overlap with each other and with logins, whose comparison of the *)
(* password takes its time.                                                *)
(*                                                                         *)
(* A password is a value that is equal to itself only; tokens expire after *)
(* a day, which is left to chance.                                         *)
(***************************************************************************)
EXTENDS FiniteSets

CONSTANTS
    Emails,
    Passwords,
    Requests,   \* requests, and runs of the script, under way at one time
    None        \* null

Roles == {"ADMIN", "EMPLOYEE", "CUSTOMER"}
User == [password: Passwords, role: Roles, isActive: BOOLEAN]

VARIABLES
    users,     \* [Emails -> the row of the user, or None]
    tokens,    \* the tokens that are good; password only observes what was given
    requests,  \* [Requests -> a request under way, or None]
    promised,  \* only observes: [Emails -> the password the script has ended with]
    had        \* only observes: [Emails -> the passwords the account has had]

vars == <<users, tokens, requests, promised, had>>

Asks ==
    [op: {"create"}, email: Emails, user: User]
    \cup [op: {"bootstrap", "login"}, email: Emails, password: Passwords]

TypeOK ==
    /\ users \in [Emails -> User \cup {None}]
    /\ tokens \subseteq [email: Emails, password: Passwords]
    /\ requests \in [Requests -> [ask: Asks, step: {"asked", "read"}, row: User \cup {None}]
                                 \cup {None}]
    /\ promised \in [Emails -> Passwords \cup {None}]
    /\ had \in [Emails -> SUBSET Passwords]

Init ==
    /\ users = [e \in Emails |-> None]
    /\ tokens = {}
    /\ requests = [r \in Requests |-> None]
    /\ promised = [e \in Emails |-> None]
    /\ had = [e \in Emails |-> {}]

Ask(r) ==
    /\ requests[r] = None
    /\ \E ask \in Asks : requests' = [requests EXCEPT ![r] = [ask |-> ask, step |-> "asked", row |-> None]]
    /\ UNCHANGED <<users, tokens, promised, had>>

at(r, op, step) == requests[r] # None /\ requests[r].ask.op = op /\ requests[r].step = step
Ends(r) == requests' = [requests EXCEPT ![r] = None]
Sets(e) == had' = [had EXCEPT ![e] = @ \cup {users'[e].password}]

-----------------------------------------------------------------------------
(* UsersService.create: the address is looked for, the password is hashed, *)
(* and the row is inserted.                                                *)

FindExisting(r) ==
    LET e == requests[r].ask.email
    IN  /\ at(r, "create", "asked")
        /\ IF users[e] # None THEN Ends(r) ELSE requests' = [requests EXCEPT ![r].step = "read"]
        /\ UNCHANGED <<users, tokens, promised, had>>

\* Faulty: the account is written over the one that has come meanwhile.
WriteUser(r) ==
    LET ask == requests[r].ask
    IN  /\ at(r, "create", "read")
        /\ users' = [users EXCEPT ![ask.email] = ask.user]
        /\ Sets(ask.email)
        /\ Ends(r)
        /\ UNCHANGED <<tokens, promised>>

\* email @unique: a row that has come meanwhile makes the insertion fail.
InsertUser(r) ==
    LET ask == requests[r].ask
    IN  /\ at(r, "create", "read")
        /\ users' = IF users[ask.email] = None THEN [users EXCEPT ![ask.email] = ask.user] ELSE users
        /\ Sets(ask.email)
        /\ Ends(r)
        /\ UNCHANGED <<tokens, promised>>

-----------------------------------------------------------------------------
(* runAdminBootstrap: one upsert, of the account of the administrator *)

Upsert(r) ==
    LET ask == requests[r].ask
        admin == [password |-> ask.password, role |-> "ADMIN", isActive |-> TRUE]
    IN  /\ at(r, "bootstrap", "asked")
        /\ users' = [users EXCEPT ![ask.email] = admin]
        /\ promised' = [promised EXCEPT ![ask.email] = ask.password]
        /\ Sets(ask.email)
        /\ Ends(r)
        /\ UNCHANGED tokens

-----------------------------------------------------------------------------
(* AuthService.login *)

FindByEmail(r) ==
    LET user == users[requests[r].ask.email]
    IN  /\ at(r, "login", "asked")
        /\ IF user = None \/ ~user.isActive THEN Ends(r)
           ELSE requests' = [requests EXCEPT ![r].step = "read", ![r].row = user]
        /\ UNCHANGED <<users, tokens, promised, had>>

passwordMatches(given, row) == given = row.password

SignToken(r) ==
    LET ask == requests[r].ask
    IN  /\ at(r, "login", "read")
        /\ tokens' = IF passwordMatches(ask.password, requests[r].row)
                     THEN tokens \cup {[email |-> ask.email, password |-> ask.password]}
                     ELSE tokens
        /\ Ends(r)
        /\ UNCHANGED <<users, promised, had>>

Expire ==
    \E t \in tokens : tokens' = tokens \ {t} /\ UNCHANGED <<users, requests, promised, had>>

-----------------------------------------------------------------------------
(* What a token is good for *)

\* JwtStrategy.validate reads the row, whatever the token says, and
\* RolesGuard goes by the role of that row.
validate(t) == t \in tokens /\ users[t.email] # None /\ users[t.email].isActive
canActivate(t, roles) == validate(t) /\ users[t.email].role \in roles

-----------------------------------------------------------------------------
Step(r) ==
    \/ Ask(r) \/ FindExisting(r) \/ InsertUser(r) \/ Upsert(r)
    \/ FindByEmail(r) \/ SignToken(r)

Next == Expire \/ \E r \in Requests : Step(r)

-----------------------------------------------------------------------------
(* Properties *)

\* An account the script has made an administrator stays one, with the password
\* it was given last, whatever accounts are being created at the same time.
AdministratorStays ==
    \A e \in Emails : promised[e] # None =>
        users[e] = [password |-> promised[e], role |-> "ADMIN", isActive |-> TRUE]

\* A token that is good was given for a password its account has had, although
\* the row may have been read before another password was set; and it lets its
\* holder do what the account may now, not what it might when it was given.
TokensAreEarned ==
    \A t \in tokens :
        /\ validate(t) /\ t.password \in had[t.email]
        /\ promised[t.email] # None => canActivate(t, {"ADMIN"})
=============================================================================
