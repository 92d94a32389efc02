------------------------------ MODULE UserAdmin ------------------------------
(***************************************************************************)
(* User administration (app/services/user_service.py behind the routes of  *)
(* app/api/routers/users.py) and scripts/seed_admin.py.                    *)
(*                                                                         *)
(* A request reads the user it acts for in a session of its own, then runs *)
(* one transaction: BEGIN, read the target, count the admins, write.       *)
(* PostgreSQL runs it READ COMMITTED, so the reads are separate steps and  *)
(* other requests commit between them.  The writes and the commit are one  *)
(* step: UPDATE, DELETE and the foreign key of the audit row hold their    *)
(* row locks until the commit, so what they found still holds then.        *)
(*                                                                         *)
(* The timestamp of an audit row is now(), the BEGIN of its transaction.   *)
(* The clock is the number of audit rows committed so far.                 *)
(***************************************************************************)
EXTENDS Naturals, Sequences, FiniteSets

CONSTANTS
    Role,          \* the roles of domain/user.py
    UserId,        \* the ids uuid4 may return
    NoUser,        \* NULL, where an id is expected
    Email,         \* addresses of accounts
    SeedEmail,     \* SEED_ADMIN_EMAIL
    Request,       \* handlers that may run at the same time
    Seeder,        \* runs of seed_admin.py at the same time
    MaxLog         \* bound on the audit rows: none begins or writes beyond it

VARIABLES
    role,          \* users.role; "none" before the row exists, "gone" after
    email,         \* users.email; SeedEmail, for nobody, where there is no row
    log,           \* audit_logs; the commit order is the model's, the table
                   \* has the timestamps only
    at,            \* what the handler of each request does next
    ask,           \* what each request asks for, and who asks
    tx,            \* the BEGIN of its transaction, and the role it read
    seeding        \* what each run of seed_admin.py does next

userVars == <<role, email, log>>
vars == <<role, email, log, at, ask, tx, seeding>>

ASSUME UserAssumption ==
    /\ "admin" \in Role /\ Role \cap {"none", "gone"} = {}
    /\ NoUser \notin UserId
    /\ SeedEmail \in Email
    /\ MaxLog \in Nat

\* act is the action column; "from" and "to" are the roles that the row says
\* the user had and has.
AuditRow == [actor     : UserId \cup {NoUser},
             act       : {"user_create", "role_change", "user_deleted"},
             user      : UserId,
             from      : Role \cup {"none"},
             to        : Role \cup {"gone"},
             timestamp : Nat]

Ask == [op : {"create", "change", "delete"}, actor : UserId,
        target : UserId \cup {NoUser}, to : Role \cup {"gone"}]

NoAsk == [op |-> "none"]

Transaction == [began : Nat, was : Role \cup {"none"}]

NoTransaction == [began |-> 0, was |-> "none"]

UsersTypeOK ==
    /\ role \in [UserId -> Role \cup {"none", "gone"}]
    /\ email \in [UserId -> Email]
    /\ log \in Seq(AuditRow)
    /\ at \in [Request -> {"idle", "begin", "target", "count", "write"}]
    /\ ask \in [Request -> Ask \cup {NoAsk}]
    /\ tx \in [Request -> Transaction]
    /\ seeding \in [Seeder -> {"count", "insert"}]

UsersInit ==
    /\ role = [u \in UserId |-> "none"]
    /\ email = [u \in UserId |-> SeedEmail]
    /\ log = <<>>
    /\ at = [r \in Request |-> "idle"]
    /\ ask = [r \in Request |-> NoAsk]
    /\ tx = [r \in Request |-> NoTransaction]
    /\ seeding = [s \in Seeder |-> "count"]

Present(u) == role[u] \in Role
Admins     == {u \in UserId : role[u] = "admin"}
Taken(e)   == \E u \in UserId : Present(u) /\ email[u] = e

-----------------------------------------------------------------------------
(* The requests *)

\* Mutant: delete_user without the check on the own account.
AdmittedToDeleteSelf(actor, op, target) == role[actor] = "admin"

\* Authentication reads the user of the token; the route and the service then
\* check the role they read.  Anyone but an admin is refused, and so is an
\* admin who would delete the own account, before anything is read or written.
Admitted(actor, op, target) ==
    /\ role[actor] = "admin"
    /\ op = "delete" => target # actor

SendCreate(r) ==
    /\ at[r] = "idle"
    /\ \E actor \in UserId, to \in Role :
          /\ Admitted(actor, "create", NoUser)
          /\ ask' = [ask EXCEPT ![r] =
                        [op |-> "create", actor |-> actor, target |-> NoUser, to |-> to]]
    /\ at' = [at EXCEPT ![r] = "begin"]
    /\ UNCHANGED <<userVars, tx, seeding>>

SendEdit(r) ==
    /\ at[r] = "idle"
    /\ \E actor, target \in UserId, op \in {"change", "delete"}, to \in Role \cup {"gone"} :
          /\ Admitted(actor, op, target)
          /\ op = "delete" <=> to = "gone"
          /\ ask' = [ask EXCEPT ![r] =
                        [op |-> op, actor |-> actor, target |-> target, to |-> to]]
    /\ at' = [at EXCEPT ![r] = "begin"]
    /\ UNCHANGED <<userVars, tx, seeding>>

EndRequest(r) ==
    /\ at' = [at EXCEPT ![r] = "idle"]
    /\ ask' = [ask EXCEPT ![r] = NoAsk]
    /\ tx' = [tx EXCEPT ![r] = NoTransaction]

\* create_user reads nothing in its transaction.
Begin(r) ==
    /\ at[r] = "begin"
    /\ Len(log) < MaxLog
    /\ at' = [at EXCEPT ![r] = IF ask[r].op = "create" THEN "write" ELSE "target"]
    /\ tx' = [tx EXCEPT ![r].began = Len(log)]
    /\ UNCHANGED <<userVars, ask, seeding>>

\* get_by_id: 404 without a row.  The admins are counted only if an admin
\* would be lost.
ReadTarget(r) ==
    /\ at[r] = "target"
    /\ IF Present(ask[r].target)
       THEN /\ at' = [at EXCEPT ![r] =
                        IF role[ask[r].target] = "admin" /\ ask[r].to # "admin"
                        THEN "count" ELSE "write"]
            /\ tx' = [tx EXCEPT ![r].was = role[ask[r].target]]
            /\ UNCHANGED ask
       ELSE EndRequest(r)
    /\ UNCHANGED <<userVars, seeding>>

\* LastAdminError for exactly one admin.
CountAdmins(r) ==
    /\ at[r] = "count"
    /\ IF Cardinality(Admins) = 1
       THEN EndRequest(r)
       ELSE at' = [at EXCEPT ![r] = "write"] /\ UNCHANGED <<ask, tx>>
    /\ UNCHANGED <<userVars, seeding>>

\* Mutant: audit rows with the role the user had before.
RowOfOldRole(r, act, u) ==
    [actor |-> ask[r].actor, act |-> act, user |-> u,
     from |-> tx[r].was, to |-> role[u], timestamp |-> tx[r].began]

\* Mutant: the details are taken from the row after the update.
RowReadBack(r, act, u) ==
    [actor |-> ask[r].actor, act |-> act, user |-> u,
     from |-> IF tx[r].was = "none" THEN "none" ELSE ask[r].to, to |-> ask[r].to,
     timestamp |-> tx[r].began]

\* The audit row of a request about user u: with the role that was read, and
\* server_default now().
Row(r, act, u) ==
    [actor |-> ask[r].actor, act |-> act, user |-> u,
     from |-> tx[r].was, to |-> ask[r].to, timestamp |-> tx[r].began]

\* Mutant: a table whose actor_id has no foreign key.
WritingWithoutForeignKey(r, op) ==
    at[r] = "write" /\ ask[r].op = op /\ Len(log) < MaxLog

\* An audit row needs its actor's row: the foreign key of actor_id.
Writing(r, op) ==
    /\ at[r] = "write"
    /\ ask[r].op = op
    /\ Present(ask[r].actor)
    /\ Len(log) < MaxLog

\* users.email is unique.
CreateUser(r) ==
    /\ Writing(r, "create")
    /\ \E u \in UserId, e \in Email :
          /\ role[u] = "none" /\ ~Taken(e)
          /\ role' = [role EXCEPT ![u] = ask[r].to]
          /\ email' = [email EXCEPT ![u] = e]
          /\ log' = Append(log, Row(r, "user_create", u))
    /\ EndRequest(r)
    /\ UNCHANGED seeding

\* Mutant: change_role without the assertion: the audit row of an UPDATE of no row.
WriteRoleUnasserted(r) ==
    /\ Writing(r, "change")
    /\ role' = IF Present(ask[r].target)
               THEN [role EXCEPT ![ask[r].target] = ask[r].to] ELSE role
    /\ log' = Append(log, Row(r, "role_change", ask[r].target))
    /\ EndRequest(r)
    /\ UNCHANGED <<email, seeding>>

\* The assertion after update_role: the row is still there.
WriteRole(r) ==
    /\ Writing(r, "change")
    /\ Present(ask[r].target)
    /\ role' = [role EXCEPT ![ask[r].target] = ask[r].to]
    /\ log' = Append(log, Row(r, "role_change", ask[r].target))
    /\ EndRequest(r)
    /\ UNCHANGED <<email, seeding>>

\* Mutant: session.delete(user) with the ORM's cascade="all, delete-orphan".
DisownedByCascade(rows, u) == SelectSeq(rows, LAMBDA row : row.actor # u)

\* ON DELETE SET NULL: the rows a deleted user wrote stay, without an actor.
Disowned(rows, u) ==
    [i \in 1 .. Len(rows) |->
        IF rows[i].actor = u THEN [rows[i] EXCEPT !.actor = NoUser] ELSE rows[i]]

\* What the DELETE finds is not looked at: a row that another request removed
\* since gets a second audit row.
DeleteUser(r) ==
    /\ Writing(r, "delete")
    /\ role' = [role EXCEPT ![ask[r].target] = "gone"]
    /\ log' = Disowned(Append(log, Row(r, "user_deleted", ask[r].target)), ask[r].target)
    /\ email' = [email EXCEPT ![ask[r].target] = SeedEmail]
    /\ EndRequest(r)
    /\ UNCHANGED seeding

\* Any other end, with everything rolled back: the assertion, the foreign key,
\* a taken address, a deadlock PostgreSQL breaks, a lost connection.
FailRequest(r) ==
    /\ at[r] # "idle"
    /\ EndRequest(r)
    /\ UNCHANGED <<userVars, seeding>>

RequestStep(r) ==
    \/ SendCreate(r) \/ SendEdit(r) \/ Begin(r) \/ ReadTarget(r) \/ CountAdmins(r)
    \/ CreateUser(r) \/ WriteRole(r) \/ DeleteUser(r) \/ FailRequest(r)

-----------------------------------------------------------------------------
(* seed_admin.py, run by an operator or a script whenever and as often as they like *)

SeedCount(s) ==
    /\ seeding[s] = "count"
    /\ Admins = {}
    /\ seeding' = [seeding EXCEPT ![s] = "insert"]
    /\ UNCHANGED <<userVars, at, ask, tx>>

\* No audit row.
SeedInsert(s) ==
    /\ seeding[s] = "insert"
    /\ ~Taken(SeedEmail)
    /\ \E u \in UserId :
          /\ role[u] = "none"
          /\ role' = [role EXCEPT ![u] = "admin"]
          /\ email' = [email EXCEPT ![u] = SeedEmail]
    /\ seeding' = [seeding EXCEPT ![s] = "count"]
    /\ UNCHANGED <<log, at, ask, tx>>

\* A taken address, or a lost connection.
SeedFail(s) ==
    /\ seeding[s] = "insert"
    /\ seeding' = [seeding EXCEPT ![s] = "count"]
    /\ UNCHANGED <<userVars, at, ask, tx>>

SeedStep(s) == SeedCount(s) \/ SeedInsert(s) \/ SeedFail(s)

Next == (\E r \in Request : RequestStep(r)) \/ (\E s \in Seeder : SeedStep(s))

Spec == UsersInit /\ [][Next]_vars

-----------------------------------------------------------------------------
(* Properties *)

Demoted == \E i \in 1 .. Len(log) : log[i].act = "role_change" /\ log[i].to # "admin"

\* However requests overlap, deletions alone never leave the service without
\* an admin: who deletes was an admin when the request came in, is still there
\* when it commits, and is not who is deleted.  Two counts that both see two
\* admins do no harm then; only a role change in between does.
OnlyDemotionsCostTheLastAdmin ==
    (\E u \in UserId : role[u] # "none") => Admins # {} \/ Demoted

\* Why: what holds of a request from the checks on.  This is inductive.
RequestsInv ==
    \A r \in Request : at[r] # "idle" =>
        /\ ask[r] \in Ask
        /\ ask[r].op # "create" => ask[r].target \in UserId
        /\ ask[r].op = "delete" <=> ask[r].to = "gone"
        /\ ask[r].op = "delete" => ask[r].target # ask[r].actor
        /\ role[ask[r].actor] \in {"admin", "gone"} \/ Demoted

UsersInv == RequestsInv /\ OnlyDemotionsCostTheLastAdmin

RowsAbout(u) == {i \in 1 .. Len(log) : log[i].user = u}

\* Sorted as the routes and the runbook sort it, by timestamp, the audit log
\* ends for every user at the role the table has, unless the transactions of
\* the newest row and of one that committed after it overlapped: then that one
\* tells.  No write went unrecorded and no row was recorded of a write that did
\* not happen.  The seeded admin has no row.
LogTellsTheTable ==
    \A u \in UserId :
        /\ RowsAbout(u) = {} => role[u] \in {"none", "admin"}
        /\ \A i \in RowsAbout(u) :
              (\A j \in RowsAbout(u) : log[j].timestamp <= log[i].timestamp) =>
                 \/ log[i].to = role[u]
                 \/ \E j \in RowsAbout(u) :
                       i < j /\ log[j].timestamp < i /\ log[j].to = role[u]

\* The role a row says the user had is the one the row before it says the user
\* got, unless their transactions overlapped: old_role comes from an unlocked
\* read, but from one of the same transaction.
OverlapsAloneMisstate ==
    \A u \in UserId : \A i, j \in RowsAbout(u) :
        i < j /\ (\A k \in RowsAbout(u) : k <= i \/ j <= k) =>
            log[j].from = log[i].to \/ log[j].timestamp < i

\* The trail is append-only through deletions too: a row loses its actor when
\* the actor's account is deleted, and nothing else ever.
AuditIsAppendOnly ==
    [][\A i \in 1 .. Len(log) :
          /\ i <= Len(log')
          /\ \/ log'[i] = log[i]
             \/ /\ log[i].actor # NoUser /\ role'[log[i].actor] = "gone"
                /\ log'[i] = [log[i] EXCEPT !.actor = NoUser]]_vars

\* user_service.py: the last admin cannot be demoted; nor deleted.  Refuted by
\* two requests that count before either of them writes.
LastAdminStays == (\E u \in UserId : role[u] # "none") => Admins # {}

=============================================================================
