--------------------------- MODULE UserAdminProofs ---------------------------
(***************************************************************************)
(* That requests other than role changes cannot cost the service its last  *)
(* admin, for any number of users, requests and runs of seed_admin.py.     *)
(***************************************************************************)
EXTENDS UserAdmin, TLAPS

\* An audit row, appended, keeps the log a log and every demotion in it.
LEMMA AppendKeepsDemotions ==
    ASSUME log \in Seq(AuditRow), NEW row \in AuditRow, log' = Append(log, row)
    PROVE  /\ log' \in Seq(AuditRow)
           /\ Len(log') = Len(log) + 1
           /\ log'[Len(log')] = row
           /\ Demoted => Demoted'
  BY DEF Demoted

\* Disowned changes no act and no role.
LEMMA DisownedKeepsRows ==
    ASSUME NEW rows \in Seq(AuditRow), NEW u \in UserId
    PROVE  /\ Disowned(rows, u) \in Seq(AuditRow)
           /\ Len(Disowned(rows, u)) = Len(rows)
           /\ \A i \in 1 .. Len(rows) :
                 /\ Disowned(rows, u)[i].act = rows[i].act
                 /\ Disowned(rows, u)[i].to = rows[i].to
                 /\ Disowned(rows, u)[i].timestamp = rows[i].timestamp
  <1> DEFINE row(i) == IF rows[i].actor = u
                       THEN [rows[i] EXCEPT !.actor = NoUser] ELSE rows[i]
  <1>1. ASSUME NEW i \in 1 .. Len(rows)
        PROVE  /\ row(i) \in AuditRow /\ row(i).act = rows[i].act
               /\ row(i).to = rows[i].to /\ row(i).timestamp = rows[i].timestamp
    <2>1. rows[i] \in AuditRow
      OBVIOUS
    <2>2. QED
      BY <2>1 DEF AuditRow
  <1>2. Disowned(rows, u) = [i \in 1 .. Len(rows) |-> row(i)]
    BY DEF Disowned
  <1> HIDE DEF row
  <1>3. Disowned(rows, u) \in Seq(AuditRow) /\ Len(Disowned(rows, u)) = Len(rows)
    BY <1>1, <1>2
  <1>4. QED
    BY <1>1, <1>2, <1>3

-----------------------------------------------------------------------------
\* What the row of a request says.
LEMMA RowOfRequest ==
    ASSUME UsersTypeOK, NEW r \in Request, ask[r] \in Ask, NEW u \in UserId,
           NEW act \in {"user_create", "role_change", "user_deleted"}
    PROVE  /\ Row(r, act, u) \in AuditRow
           /\ Row(r, act, u).act = act /\ Row(r, act, u).user = u
           /\ Row(r, act, u).to = ask[r].to /\ Row(r, act, u).from = tx[r].was
           /\ Row(r, act, u).timestamp = tx[r].began
  <1>1. ask[r].actor \in UserId /\ ask[r].to \in Role \cup {"gone"}
    BY DEF Ask
  <1>2. tx[r].began \in Nat /\ tx[r].was \in Role \cup {"none"}
    BY DEF UsersTypeOK, Transaction
  <1>3. QED
    BY <1>1, <1>2 DEF Row, AuditRow

\* A request that ends leaves nothing behind.
LEMMA EndKeepsTypes ==
    ASSUME UsersTypeOK, NEW r \in Request, EndRequest(r)
    PROVE  /\ at' \in [Request -> {"idle", "begin", "target", "count", "write"}]
           /\ ask' \in [Request -> Ask \cup {NoAsk}]
           /\ tx' \in [Request -> Transaction]
  BY DEF UsersTypeOK, EndRequest, Transaction, NoTransaction

LEMMA InitEstablishes == ASSUME UserAssumption PROVE UsersInit => UsersTypeOK /\ UsersInv
  BY DEF UserAssumption, UsersInit, UsersTypeOK, UsersInv, RequestsInv,
         OnlyDemotionsCostTheLastAdmin, Transaction, NoTransaction

\* Steps that leave the table and the log alone, and only move a request on
\* that is already admitted, or end it.
LEMMA QuietSteps ==
    ASSUME UsersTypeOK, UsersInv, UNCHANGED userVars,
           seeding' \in [Seeder -> {"count", "insert"}],
           NEW r \in Request, NEW where \in {"idle", "begin", "target", "count", "write"},
           NEW t \in Transaction, tx' = tx \/ tx' = [tx EXCEPT ![r] = t],
           at' = [at EXCEPT ![r] = where],
           \/ where # "idle" /\ at[r] # "idle" /\ ask' = ask
           \/ where = "idle" /\ ask' = [ask EXCEPT ![r] = NoAsk]
    PROVE  UsersTypeOK' /\ UsersInv'
  <1>1. Demoted' = Demoted /\ Admins' = Admins
    BY DEF Demoted, Admins, userVars
  <1>2. UsersTypeOK'
    BY DEF UsersTypeOK, userVars
  <1>3. RequestsInv'
    BY <1>1 DEF UsersInv, RequestsInv, UsersTypeOK, userVars
  <1>4. OnlyDemotionsCostTheLastAdmin'
    BY <1>1 DEF UsersInv, OnlyDemotionsCostTheLastAdmin, userVars
  <1>5. QED
    BY <1>2, <1>3, <1>4 DEF UsersInv

LEMMA EndsQuietly ==
    ASSUME UsersTypeOK, UsersInv, UNCHANGED userVars, UNCHANGED seeding,
           NEW r \in Request, EndRequest(r)
    PROVE  UsersTypeOK' /\ UsersInv'
  <1>1. NoTransaction \in Transaction
    BY DEF NoTransaction, Transaction
  <1>2. seeding' \in [Seeder -> {"count", "insert"}]
    BY DEF UsersTypeOK
  <1>3. QED
    BY <1>1, <1>2, QuietSteps DEF EndRequest

\* A request is admitted with an admin as its actor.
LEMMA SendPreserves ==
    ASSUME UserAssumption, UsersTypeOK, UsersInv, NEW r \in Request,
           SendCreate(r) \/ SendEdit(r)
    PROVE  UsersTypeOK' /\ UsersInv'
  <1>1. PICK a \in Ask :
           /\ ask' = [ask EXCEPT ![r] = a]
           /\ at' = [at EXCEPT ![r] = "begin"]
           /\ role[a.actor] = "admin"
           /\ a.op # "create" => a.target \in UserId
           /\ a.op = "delete" <=> a.to = "gone"
           /\ a.op = "delete" => a.target # a.actor
    <2>1. CASE SendCreate(r)
      <3>1. PICK actor \in UserId, to \in Role :
               /\ Admitted(actor, "create", NoUser)
               /\ ask' = [ask EXCEPT ![r] =
                   [op |-> "create", actor |-> actor, target |-> NoUser, to |-> to]]
        BY <2>1 DEF SendCreate
      <3> DEFINE a == [op |-> "create", actor |-> actor, target |-> NoUser, to |-> to]
      <3>2. a \in Ask /\ a.to # "gone"
        BY DEF Ask, UserAssumption
      <3>3. QED
        BY <2>1, <3>1, <3>2 DEF SendCreate, Admitted
    <2>2. CASE SendEdit(r)
      <3>1. PICK actor \in UserId, target \in UserId, op \in {"change", "delete"},
                 to \in Role \cup {"gone"} :
               /\ Admitted(actor, op, target)
               /\ op = "delete" <=> to = "gone"
               /\ ask' = [ask EXCEPT ![r] =
                   [op |-> op, actor |-> actor, target |-> target, to |-> to]]
        BY <2>2 DEF SendEdit
      <3> DEFINE a == [op |-> op, actor |-> actor, target |-> target, to |-> to]
      <3>2. a \in Ask
        BY DEF Ask
      <3>3. QED
        BY <2>2, <3>1, <3>2 DEF SendEdit, Admitted
    <2>3. QED
      BY <2>1, <2>2
  <1>2. UNCHANGED <<role, email, log, tx, seeding>>
    BY DEF SendCreate, SendEdit, userVars
  <1>3. Demoted' = Demoted /\ Admins' = Admins
    BY <1>2 DEF Demoted, Admins
  <1>4. UsersTypeOK'
    BY <1>1, <1>2 DEF UsersTypeOK
  <1>5. RequestsInv'
    BY <1>1, <1>2, <1>3 DEF UsersInv, RequestsInv, UsersTypeOK
  <1>6. OnlyDemotionsCostTheLastAdmin'
    BY <1>2, <1>3 DEF UsersInv, OnlyDemotionsCostTheLastAdmin
  <1>7. QED
    BY <1>4, <1>5, <1>6 DEF UsersInv

\* What a request that commits may rely on: its actor is an admin still, or a
\* demotion is on record.
LEMMA CommittersAreAdmins ==
    ASSUME UsersTypeOK, UsersInv, UserAssumption, NEW r \in Request, NEW op,
           Writing(r, op), op \in {"create", "change", "delete"}
    PROVE  /\ ask[r] \in Ask /\ ask[r].op = op
           /\ op # "create" => ask[r].target \in UserId
           /\ op = "delete" <=> ask[r].to = "gone"
           /\ op = "delete" => ask[r].target # ask[r].actor
           /\ ask[r].actor \in UserId
           /\ role[ask[r].actor] = "admin" \/ Demoted
  BY DEF Writing, UsersInv, RequestsInv, UsersTypeOK, Ask, Present, UserAssumption

\* The requests of others survive a commit that demotes nobody off the record.
LEMMA OthersKeepTheirActors ==
    ASSUME UsersTypeOK, UsersInv, NEW r \in Request,
           at' = [at EXCEPT ![r] = "idle"],
           ask' = [ask EXCEPT ![r] = NoAsk],
           Demoted => Demoted',
           \A u \in UserId : role[u] \in {"admin", "gone"} =>
                                role'[u] \in {"admin", "gone"} \/ Demoted'
    PROVE  RequestsInv'
  <1> SUFFICES ASSUME NEW q \in Request, at'[q] # "idle"
               PROVE  /\ ask'[q] \in Ask
                      /\ ask'[q].op # "create" => ask'[q].target \in UserId
                      /\ ask'[q].op = "delete" <=> ask'[q].to = "gone"
                      /\ ask'[q].op = "delete" => ask'[q].target # ask'[q].actor
                      /\ role'[ask'[q].actor] \in {"admin", "gone"} \/ Demoted'
    BY DEF RequestsInv
  <1>1. q # r /\ at'[q] = at[q] /\ ask'[q] = ask[q]
    BY DEF UsersTypeOK
  <1>2. ask[q] \in Ask /\ ask[q].actor \in UserId
    BY <1>1 DEF UsersInv, RequestsInv, Ask
  <1>3. QED
    BY <1>1, <1>2 DEF UsersInv, RequestsInv

LEMMA CreatePreserves ==
    ASSUME UserAssumption, UsersTypeOK, UsersInv, NEW r \in Request, CreateUser(r)
    PROVE  UsersTypeOK' /\ UsersInv'
  <1>1. PICK u \in UserId, e \in Email :
           /\ role[u] = "none"
           /\ role' = [role EXCEPT ![u] = ask[r].to]
           /\ email' = [email EXCEPT ![u] = e]
           /\ log' = Append(log, Row(r, "user_create", u))
    BY DEF CreateUser
  <1>2. /\ ask[r] \in Ask /\ ask[r].to # "gone" /\ ask[r].actor \in UserId
        /\ role[ask[r].actor] = "admin" \/ Demoted
    BY CommittersAreAdmins DEF CreateUser
  <1>3. ask[r].to \in Role
    BY <1>2 DEF Ask
  <1>4. Row(r, "user_create", u) \in AuditRow
    BY <1>2, RowOfRequest
  <1>5. log' \in Seq(AuditRow) /\ (Demoted => Demoted')
    BY <1>1, <1>4, AppendKeepsDemotions DEF UsersTypeOK
  <1>6. /\ at' = [at EXCEPT ![r] = "idle"] /\ ask' = [ask EXCEPT ![r] = NoAsk]
        /\ UNCHANGED seeding
    BY DEF CreateUser, EndRequest
  <1>7. UsersTypeOK'
    BY <1>1, <1>3, <1>5, <1>6, EndKeepsTypes DEF UsersTypeOK, CreateUser
  <1>8. \A v \in UserId : v # u => role'[v] = role[v]
    BY <1>1 DEF UsersTypeOK
  <1>9. RequestsInv'
    BY <1>1, <1>5, <1>6, <1>8, OthersKeepTheirActors
  <1>10. OnlyDemotionsCostTheLastAdmin'
    BY <1>1, <1>2, <1>5, <1>8 DEF OnlyDemotionsCostTheLastAdmin, Admins
  <1>11. QED
    BY <1>7, <1>9, <1>10 DEF UsersInv

LEMMA ChangePreserves ==
    ASSUME UserAssumption, UsersTypeOK, UsersInv, NEW r \in Request, WriteRole(r)
    PROVE  UsersTypeOK' /\ UsersInv'
  <1> DEFINE u == ask[r].target
             row == Row(r, "role_change", u)
  <1>1. /\ role' = [role EXCEPT ![u] = ask[r].to]
        /\ log' = Append(log, row)
        /\ at' = [at EXCEPT ![r] = "idle"] /\ ask' = [ask EXCEPT ![r] = NoAsk]
        /\ UNCHANGED <<email, seeding>>
    BY DEF WriteRole, EndRequest
  <1>2. ask[r] \in Ask /\ ask[r].to # "gone" /\ ask[r].actor \in UserId /\ u \in UserId
    BY CommittersAreAdmins DEF WriteRole
  <1>3. ask[r].to \in Role
    BY <1>2 DEF Ask
  <1>4. row \in AuditRow /\ row.act = "role_change" /\ row.to = ask[r].to
    BY <1>2, RowOfRequest
  <1> HIDE DEF row
  <1>5. /\ log' \in Seq(AuditRow) /\ Len(log') = Len(log) + 1 /\ log'[Len(log')] = row
        /\ Demoted => Demoted'
    BY <1>1, <1>4, AppendKeepsDemotions DEF UsersTypeOK
  <1>6. ask[r].to # "admin" => Demoted'
    <2>1. Len(log') \in 1 .. Len(log')
      BY <1>5 DEF UsersTypeOK
    <2>2. QED
      BY <1>4, <1>5, <2>1 DEF Demoted
  <1>7. UsersTypeOK'
    BY <1>1, <1>2, <1>3, <1>5, EndKeepsTypes DEF UsersTypeOK, WriteRole
  <1>8. role'[u] = ask[r].to /\ \A v \in UserId : v # u => role'[v] = role[v]
    BY <1>1, <1>2 DEF UsersTypeOK
  <1>9. RequestsInv'
    BY <1>1, <1>5, <1>6, <1>8, OthersKeepTheirActors
  <1>10. OnlyDemotionsCostTheLastAdmin'
    BY <1>2, <1>6, <1>8 DEF OnlyDemotionsCostTheLastAdmin, Admins
  <1>11. QED
    BY <1>7, <1>9, <1>10 DEF UsersInv

\* The only step that takes an admin away without a demotion: the actor stays.
LEMMA DeletePreserves ==
    ASSUME UserAssumption, UsersTypeOK, UsersInv, NEW r \in Request, DeleteUser(r)
    PROVE  UsersTypeOK' /\ UsersInv'
  <1> DEFINE u == ask[r].target
             row == Row(r, "user_deleted", u)
             rows == Append(log, row)
  <1>1. /\ role' = [role EXCEPT ![u] = "gone"]
        /\ log' = Disowned(rows, u)
        /\ at' = [at EXCEPT ![r] = "idle"] /\ ask' = [ask EXCEPT ![r] = NoAsk]
        /\ email' = [email EXCEPT ![u] = SeedEmail] /\ UNCHANGED seeding
    BY DEF DeleteUser, EndRequest
  <1>2. /\ ask[r] \in Ask /\ ask[r].to = "gone" /\ u \in UserId
        /\ ask[r].actor \in UserId /\ u # ask[r].actor
        /\ role[ask[r].actor] = "admin" \/ Demoted
    BY CommittersAreAdmins DEF DeleteUser
  <1>3. row \in AuditRow
    BY <1>2, RowOfRequest
  <1> HIDE DEF row
  <1>4. /\ rows \in Seq(AuditRow) /\ Len(rows) = Len(log) + 1
        /\ \A i \in 1 .. Len(log) : rows[i] = log[i]
    BY <1>3 DEF UsersTypeOK
  <1> HIDE DEF rows
  <1>5. /\ log' \in Seq(AuditRow) /\ Len(log') = Len(rows)
        /\ \A i \in 1 .. Len(rows) : log'[i].act = rows[i].act /\ log'[i].to = rows[i].to
    BY <1>1, <1>2, <1>4, DisownedKeepsRows
  <1>6. Demoted => Demoted'
    <2> SUFFICES ASSUME NEW i \in 1 .. Len(log),
                        log[i].act = "role_change", log[i].to # "admin"
                 PROVE  Demoted'
      BY DEF Demoted
    <2>1. i \in 1 .. Len(log')
      BY <1>4, <1>5 DEF UsersTypeOK
    <2>2. QED
      BY <1>4, <1>5, <2>1 DEF Demoted
  <1>7. UsersTypeOK'
    <2>1. email' \in [UserId -> Email]
      BY <1>1, <1>2 DEF UsersTypeOK, UserAssumption
    <2>2. role' \in [UserId -> Role \cup {"none", "gone"}]
      BY <1>1 DEF UsersTypeOK
    <2>3. QED
      BY <1>1, <1>5, <2>1, <2>2, EndKeepsTypes DEF UsersTypeOK, DeleteUser
  <1>8. role'[u] = "gone" /\ \A v \in UserId : v # u => role'[v] = role[v]
    BY <1>1, <1>2 DEF UsersTypeOK
  <1>9. RequestsInv'
    BY <1>1, <1>6, <1>8, OthersKeepTheirActors
  <1>10. OnlyDemotionsCostTheLastAdmin'
    BY <1>2, <1>6, <1>8 DEF OnlyDemotionsCostTheLastAdmin, Admins
  <1>11. QED
    BY <1>7, <1>9, <1>10 DEF UsersInv

LEMMA SeedPreserves ==
    ASSUME UserAssumption, UsersTypeOK, UsersInv, NEW s \in Seeder, SeedStep(s)
    PROVE  UsersTypeOK' /\ UsersInv'
  <1>1. UNCHANGED <<log, at, ask, tx>>
    BY DEF SeedStep, SeedCount, SeedInsert, SeedFail, userVars
  <1>2. Demoted' = Demoted
    BY <1>1 DEF Demoted
  <1>3. CASE SeedInsert(s)
    <2>1. PICK u \in UserId :
             /\ role[u] = "none"
             /\ role' = [role EXCEPT ![u] = "admin"]
             /\ email' = [email EXCEPT ![u] = SeedEmail]
      BY <1>3 DEF SeedInsert
    <2>2. role'[u] = "admin" /\ \A v \in UserId : v # u => role'[v] = role[v]
      BY <2>1 DEF UsersTypeOK
    <2>3. UsersTypeOK'
      BY <1>1, <1>3, <2>1 DEF UsersTypeOK, SeedInsert, UserAssumption
    <2>4. RequestsInv'
      <3> SUFFICES ASSUME NEW q \in Request, at[q] # "idle"
                   PROVE  role'[ask[q].actor] \in {"admin", "gone"} \/ Demoted
        BY <1>1, <1>2 DEF RequestsInv, UsersInv
      <3>1. ask[q].actor \in UserId
        BY DEF UsersInv, RequestsInv, Ask
      <3>2. QED
        BY <2>2, <3>1 DEF UsersInv, RequestsInv
    <2>5. OnlyDemotionsCostTheLastAdmin'
      BY <2>2 DEF OnlyDemotionsCostTheLastAdmin, Admins
    <2>6. QED
      BY <2>3, <2>4, <2>5 DEF UsersInv
  <1>4. CASE SeedCount(s) \/ SeedFail(s)
    <2>1. UNCHANGED <<role, email>> /\ seeding' \in [Seeder -> {"count", "insert"}]
      BY <1>4 DEF SeedCount, SeedFail, userVars, UsersTypeOK
    <2>2. QED
      BY <1>1, <1>2, <2>1 DEF UsersTypeOK, UsersInv, RequestsInv,
                              OnlyDemotionsCostTheLastAdmin, Admins
  <1>5. QED
    BY <1>3, <1>4 DEF SeedStep

\* One case per action.
LEMMA NextPreserves ==
    ASSUME UserAssumption, UsersTypeOK, UsersInv, [Next]_vars
    PROVE  UsersTypeOK' /\ UsersInv'
  <1>1. ASSUME NEW r \in Request, RequestStep(r) PROVE UsersTypeOK' /\ UsersInv'
    <2>1. CASE SendCreate(r) \/ SendEdit(r)
      BY <2>1, SendPreserves
    <2>2. CASE Begin(r)
      <3>1. PICK t \in Transaction : tx' = [tx EXCEPT ![r] = t]
        <4>1. log \in Seq(AuditRow) /\ tx \in [Request -> Transaction]
          BY DEF UsersTypeOK
        <4>2. Len(log) \in Nat /\ tx[r] \in Transaction
          BY <4>1
        <4>3. [tx[r] EXCEPT !.began = Len(log)] \in Transaction
          BY <4>2 DEF Transaction
        <4>4. tx' = [tx EXCEPT ![r] = [tx[r] EXCEPT !.began = Len(log)]]
          BY <2>2, <4>1 DEF Begin
        <4>5. QED
          BY <4>3, <4>4
      <3>2. PICK where \in {"target", "write"} : at' = [at EXCEPT ![r] = where]
        BY <2>2 DEF Begin
      <3>3. /\ at[r] # "idle" /\ ask' = ask /\ UNCHANGED userVars
            /\ seeding' \in [Seeder -> {"count", "insert"}]
        BY <2>2 DEF Begin, UsersTypeOK
      <3>4. QED
        BY <3>1, <3>2, <3>3, QuietSteps
    <2>3. CASE ReadTarget(r)
      <3>1. CASE Present(ask[r].target)
        <4>1. PICK t \in Transaction : tx' = [tx EXCEPT ![r] = t]
          <5>1. tx \in [Request -> Transaction] /\ role[ask[r].target] \in Role
            BY <3>1 DEF UsersTypeOK, Present
          <5>2. [tx[r] EXCEPT !.was = role[ask[r].target]] \in Transaction
            BY <5>1 DEF Transaction
          <5>3. tx' = [tx EXCEPT ![r] = [tx[r] EXCEPT !.was = role[ask[r].target]]]
            BY <2>3, <3>1, <5>1 DEF ReadTarget
          <5>4. QED
            BY <5>2, <5>3
        <4>2. PICK where \in {"count", "write"} : at' = [at EXCEPT ![r] = where]
          BY <2>3, <3>1 DEF ReadTarget
        <4>3. /\ at[r] # "idle" /\ ask' = ask /\ UNCHANGED userVars
              /\ seeding' \in [Seeder -> {"count", "insert"}]
          BY <2>3, <3>1 DEF ReadTarget, UsersTypeOK
        <4>4. QED
          BY <4>1, <4>2, <4>3, QuietSteps
      <3>2. CASE ~Present(ask[r].target)
        BY <2>3, <3>2, EndsQuietly DEF ReadTarget
      <3>3. QED
        BY <3>1, <3>2
    <2>9. CASE CountAdmins(r)
      <3>1. CASE Cardinality(Admins) = 1
        BY <2>9, <3>1, EndsQuietly DEF CountAdmins
      <3>2. CASE Cardinality(Admins) # 1
        <4>1. tx[r] \in Transaction
          BY DEF UsersTypeOK
        <4>2. QED
          BY <2>9, <3>2, <4>1, QuietSteps DEF CountAdmins, UsersTypeOK
      <3>3. QED
        BY <3>1, <3>2
    <2>4. CASE CreateUser(r)
      BY <2>4, CreatePreserves
    <2>5. CASE WriteRole(r)
      BY <2>5, ChangePreserves
    <2>6. CASE DeleteUser(r)
      BY <2>6, DeletePreserves
    <2>7. CASE FailRequest(r)
      BY <2>7, EndsQuietly DEF FailRequest
    <2>8. QED
      BY <1>1, <2>1, <2>2, <2>3, <2>4, <2>5, <2>6, <2>7, <2>9 DEF RequestStep
  <1>2. ASSUME NEW s \in Seeder, SeedStep(s) PROVE UsersTypeOK' /\ UsersInv'
    BY <1>2, SeedPreserves
  <1>3. CASE UNCHANGED vars
    BY <1>3 DEF vars, UsersTypeOK, UsersInv, RequestsInv,
                OnlyDemotionsCostTheLastAdmin, Admins, Demoted
  <1>4. QED
    BY <1>1, <1>2, <1>3 DEF Next

-----------------------------------------------------------------------------
\* The table, the log and the requests keep their types, and the inductive
\* invariant holds, for every value of the constants.
THEOREM UsersTheorem == Spec => [](UsersTypeOK /\ UsersInv)
  <1>1. UserAssumption
    BY UserAssumption
  <1>2. UsersInit => UsersTypeOK /\ UsersInv
    BY <1>1, InitEstablishes
  <1>3. (UsersTypeOK /\ UsersInv) /\ [Next]_vars => (UsersTypeOK /\ UsersInv)'
    BY <1>1, NextPreserves
  <1>4. QED
    BY <1>2, <1>3, PTL DEF Spec

\* No overlap of requests that only create and delete users leaves the service
\* without an admin.
THEOREM LastAdminTheorem == Spec => []OnlyDemotionsCostTheLastAdmin
  <1>1. UsersTypeOK /\ UsersInv => OnlyDemotionsCostTheLastAdmin
    BY DEF UsersInv
  <1>2. QED
    BY <1>1, UsersTheorem, PTL

\* Roles, addresses, log and requests keep their types.
THEOREM UsersTypeTheorem == Spec => []UsersTypeOK
  BY UsersTheorem, PTL

-----------------------------------------------------------------------------
(* The log and the table.                                                  *)

\* In the order of the commits the log ends, for every user, at the role the
\* table has.
CommitsTell ==
    \A u \in UserId :
        IF RowsAbout(u) = {}
        THEN role[u] \in {"none", "admin"}
        ELSE \E i \in RowsAbout(u) :
                log[i].to = role[u] /\ \A j \in RowsAbout(u) : j <= i

\* A transaction begins before it commits.
StampedBefore ==
    /\ \A r \in Request : tx[r].began <= Len(log)
    /\ \A i \in 1 .. Len(log) : log[i].timestamp < i

\* One more row, about the one user whose role has changed, and it says so.
LEMMA RowTells ==
    ASSUME log \in Seq(AuditRow), log' \in Seq(AuditRow), CommitsTell,
           Len(log') = Len(log) + 1,
           \A i \in 1 .. Len(log) : log'[i].user = log[i].user /\ log'[i].to = log[i].to,
           NEW u \in UserId, log'[Len(log')].user = u, log'[Len(log')].to = role'[u],
           \A v \in UserId : v # u => role'[v] = role[v]
    PROVE  CommitsTell'
  <1> DEFINE n == Len(log')
  <1>1. /\ Len(log) \in Nat /\ n = Len(log) + 1 /\ n \in 1 .. n
        /\ \A i \in 1 .. n : i \in 1 .. Len(log) \/ i = n
        /\ \A i \in 1 .. Len(log) : i \in 1 .. n /\ i # n
    OBVIOUS
  <1>2. ASSUME NEW v \in UserId, v # u PROVE RowsAbout(v)' = RowsAbout(v)
    BY <1>1, <1>2 DEF RowsAbout
  <1>3. n \in RowsAbout(u)' /\ \A j \in RowsAbout(u)' : j <= n
    BY <1>1 DEF RowsAbout
  <1>4. ASSUME NEW v \in UserId
        PROVE  IF RowsAbout(v)' = {}
               THEN role'[v] \in {"none", "admin"}
               ELSE \E i \in RowsAbout(v)' :
                       log'[i].to = role'[v] /\ \A j \in RowsAbout(v)' : j <= i
    <2>1. CASE v = u
      BY <1>3, <2>1
    <2>2. CASE v # u
      <3>1. IF RowsAbout(v) = {}
            THEN role[v] \in {"none", "admin"}
            ELSE \E i \in RowsAbout(v) :
                    log[i].to = role[v] /\ \A j \in RowsAbout(v) : j <= i
        BY DEF CommitsTell
      <3>2. \A i \in RowsAbout(v) : log'[i].to = log[i].to
        BY DEF RowsAbout
      <3>3. RowsAbout(v)' = RowsAbout(v) /\ role'[v] = role[v]
        BY <1>2, <2>2
      <3>4. QED
        BY <3>1, <3>2, <3>3
    <2>3. QED
      BY <2>1, <2>2
  <1>5. QED
    BY <1>4 DEF CommitsTell

\* What a commit appends, and what it leaves of the rows before.
LEMMA CommitWrites ==
    ASSUME UserAssumption, UsersTypeOK, UsersInv, NEW r \in Request,
           CreateUser(r) \/ WriteRole(r) \/ DeleteUser(r)
    PROVE  /\ log' \in Seq(AuditRow) /\ Len(log') = Len(log) + 1
           /\ log'[Len(log')].timestamp = tx[r].began
           /\ log'[Len(log')].from = tx[r].was
           /\ \E u \in UserId :
                 /\ IF ask[r].op = "create" THEN role[u] = "none" ELSE u = ask[r].target
                 /\ log'[Len(log')].user = u /\ log'[Len(log')].to = role'[u]
                 /\ \A v \in UserId : v # u => role'[v] = role[v]
                 /\ \A i \in 1 .. Len(log) :
                       \/ log'[i] = log[i]
                       \/ /\ log[i].actor = u /\ role'[u] = "gone"
                          /\ log'[i] = [log[i] EXCEPT !.actor = NoUser]
  <1>0. log \in Seq(AuditRow) /\ role \in [UserId -> Role \cup {"none", "gone"}]
    BY DEF UsersTypeOK
  <1>1. CASE CreateUser(r)
    <2>1. PICK u \in UserId : /\ role' = [role EXCEPT ![u] = ask[r].to]
                              /\ log' = Append(log, Row(r, "user_create", u))
                              /\ role[u] = "none"
      BY <1>1 DEF CreateUser
    <2>2. ask[r] \in Ask /\ ask[r].op = "create" /\ ask[r].to # "gone" /\ ask[r].actor \in UserId
      BY <1>1, CommittersAreAdmins DEF CreateUser
    <2>3. /\ Row(r, "user_create", u) \in AuditRow
          /\ Row(r, "user_create", u).user = u /\ Row(r, "user_create", u).to = ask[r].to
          /\ Row(r, "user_create", u).timestamp = tx[r].began
          /\ Row(r, "user_create", u).from = tx[r].was
      BY <2>2, RowOfRequest
    <2>4. /\ log' \in Seq(AuditRow) /\ Len(log') = Len(log) + 1
          /\ log'[Len(log')] = Row(r, "user_create", u)
          /\ \A i \in 1 .. Len(log) : log'[i] = log[i]
      BY <1>0, <2>1, <2>3
    <2>5. /\ log'[Len(log')].user = u /\ log'[Len(log')].to = role'[u]
          /\ role[u] = "none" /\ \A v \in UserId : v # u => role'[v] = role[v]
      BY <1>0, <2>1, <2>3, <2>4
    <2>6. QED
      BY <2>2, <2>3, <2>4, <2>5
  <1>2. CASE WriteRole(r)
    <2> DEFINE u == ask[r].target
    <2>1. /\ role' = [role EXCEPT ![u] = ask[r].to]
          /\ log' = Append(log, Row(r, "role_change", u))
      BY <1>2 DEF WriteRole
    <2>2. /\ ask[r] \in Ask /\ ask[r].to # "gone" /\ ask[r].actor \in UserId
          /\ u \in UserId /\ ask[r].op # "create" /\ u = ask[r].target
      BY <1>2, CommittersAreAdmins DEF WriteRole
    <2>3. /\ Row(r, "role_change", u) \in AuditRow
          /\ Row(r, "role_change", u).user = u /\ Row(r, "role_change", u).to = ask[r].to
          /\ Row(r, "role_change", u).timestamp = tx[r].began
          /\ Row(r, "role_change", u).from = tx[r].was
      BY <2>2, RowOfRequest
    <2> HIDE DEF u
    <2>4. /\ log' \in Seq(AuditRow) /\ Len(log') = Len(log) + 1
          /\ log'[Len(log')] = Row(r, "role_change", u)
          /\ \A i \in 1 .. Len(log) : log'[i] = log[i]
      BY <1>0, <2>1, <2>3
    <2>5. /\ log'[Len(log')].user = u /\ log'[Len(log')].to = role'[u]
          /\ \A v \in UserId : v # u => role'[v] = role[v]
      BY <1>0, <2>1, <2>2, <2>3, <2>4
    <2>6. QED
      BY <2>2, <2>3, <2>4, <2>5
  <1>3. CASE DeleteUser(r)
    <2> DEFINE u == ask[r].target
               row == Row(r, "user_deleted", u)
               rows == Append(log, row)
    <2>1. role' = [role EXCEPT ![u] = "gone"] /\ log' = Disowned(rows, u)
      BY <1>3 DEF DeleteUser
    <2>2. /\ ask[r] \in Ask /\ ask[r].to = "gone" /\ ask[r].actor \in UserId
          /\ u \in UserId /\ ask[r].op # "create" /\ u = ask[r].target
      BY <1>3, CommittersAreAdmins DEF DeleteUser
    <2>3. /\ row \in AuditRow /\ row.user = u /\ row.to = "gone"
          /\ row.timestamp = tx[r].began /\ row.from = tx[r].was
      BY <2>2, RowOfRequest
    <2> HIDE DEF row, u
    <2>4. /\ rows \in Seq(AuditRow) /\ Len(rows) = Len(log) + 1 /\ rows[Len(rows)] = row
          /\ \A i \in 1 .. Len(log) : rows[i] = log[i] /\ i \in 1 .. Len(rows)
          /\ Len(rows) \in 1 .. Len(rows)
      BY <1>0, <2>3
    <2> HIDE DEF rows
    <2>5. log' \in Seq(AuditRow) /\ Len(log') = Len(rows)
      BY <2>1, <2>2, <2>4, DisownedKeepsRows
    <2>6. \A i \in 1 .. Len(rows) :
             log'[i] = IF rows[i].actor = u THEN [rows[i] EXCEPT !.actor = NoUser] ELSE rows[i]
      BY <2>1, <2>4 DEF Disowned
    <2>7. /\ log'[Len(log')].user = u /\ log'[Len(log')].to = "gone"
          /\ log'[Len(log')].timestamp = tx[r].began /\ log'[Len(log')].from = tx[r].was
      <3>1. rows[Len(rows)] \in AuditRow
        BY <2>3, <2>4
      <3>2. QED
        BY <2>3, <2>4, <2>5, <2>6, <3>1 DEF AuditRow
    <2>8. role'[u] = "gone" /\ \A v \in UserId : v # u => role'[v] = role[v]
      BY <1>0, <2>1, <2>2
    <2>9. \A i \in 1 .. Len(log) :
             \/ log'[i] = log[i]
             \/ log[i].actor = u /\ log'[i] = [log[i] EXCEPT !.actor = NoUser]
      BY <2>4, <2>6
    <2>10. log' \in Seq(AuditRow) /\ Len(log') = Len(log) + 1
      BY <2>4, <2>5
    <2>11. QED
      BY <2>2, <2>7, <2>8, <2>9, <2>10
  <1>4. QED
    BY <1>1, <1>2, <1>3

\* Every other step leaves the log alone.
LEMMA OthersWriteNothing ==
    ASSUME [Next]_vars, ~\E r \in Request : CreateUser(r) \/ WriteRole(r) \/ DeleteUser(r)
    PROVE  /\ UNCHANGED log
           /\ \/ UNCHANGED role
              \/ \E u \in UserId : role[u] = "none" /\ role' = [role EXCEPT ![u] = "admin"]
  <1>1. ASSUME NEW r \in Request, RequestStep(r) PROVE UNCHANGED <<log, role>>
    BY <1>1 DEF RequestStep, SendCreate, SendEdit, Begin, ReadTarget, CountAdmins,
                FailRequest, userVars
  <1>2. ASSUME NEW s \in Seeder, SeedStep(s)
        PROVE  /\ UNCHANGED log
               /\ \/ UNCHANGED role
                  \/ \E u \in UserId : role[u] = "none" /\ role' = [role EXCEPT ![u] = "admin"]
    BY <1>2 DEF SeedStep, SeedCount, SeedInsert, SeedFail, userVars
  <1>3. QED
    BY <1>1, <1>2 DEF Next, vars

\* Nothing but the actor of a row changes.
LEMMA RowsKeep ==
    ASSUME UserAssumption, UsersTypeOK, UsersInv, NEW r \in Request,
           CreateUser(r) \/ WriteRole(r) \/ DeleteUser(r), NEW i \in 1 .. Len(log)
    PROVE  /\ log'[i].user = log[i].user /\ log'[i].to = log[i].to
           /\ log'[i].from = log[i].from /\ log'[i].timestamp = log[i].timestamp
  <1>1. log[i] \in AuditRow
    BY DEF UsersTypeOK
  <1>2. \/ log'[i] = log[i]
        \/ log'[i] = [log[i] EXCEPT !.actor = NoUser]
    BY CommitWrites
  <1>3. QED
    BY <1>1, <1>2 DEF AuditRow

LEMMA CommitsKeepTelling ==
    ASSUME UserAssumption, UsersTypeOK, UsersInv, CommitsTell, StampedBefore, [Next]_vars
    PROVE  CommitsTell'
  <1>0. log \in Seq(AuditRow) /\ role \in [UserId -> Role \cup {"none", "gone"}]
    BY DEF UsersTypeOK
  <1>1. ASSUME NEW r \in Request, CreateUser(r) \/ WriteRole(r) \/ DeleteUser(r)
        PROVE  CommitsTell'
    <2>1. PICK u \in UserId :
             /\ log'[Len(log')].user = u /\ log'[Len(log')].to = role'[u]
             /\ \A v \in UserId : v # u => role'[v] = role[v]
      BY <1>1, CommitWrites
    <2>2. log' \in Seq(AuditRow) /\ Len(log') = Len(log) + 1
      BY <1>1, CommitWrites
    <2>3. \A i \in 1 .. Len(log) : log'[i].user = log[i].user /\ log'[i].to = log[i].to
      BY <1>1, RowsKeep
    <2>4. QED
      BY <1>0, <2>1, <2>2, <2>3, RowTells
  <1>2. CASE UNCHANGED <<log, role>>
    BY <1>2 DEF CommitsTell, RowsAbout
  <1>3. ASSUME NEW u \in UserId, role[u] = "none", role' = [role EXCEPT ![u] = "admin"],
               UNCHANGED log
        PROVE  CommitsTell'
    <2>1. \A i \in 1 .. Len(log) : log[i].to # "none"
      <3>1. \A i \in 1 .. Len(log) : log[i] \in AuditRow
        BY <1>0
      <3>2. QED
        BY <3>1 DEF AuditRow, UserAssumption
    <2>2. RowsAbout(u) = {}
      BY <1>3, <2>1 DEF CommitsTell, RowsAbout
    <2>3. role'[u] = "admin" /\ \A v \in UserId : v # u => role'[v] = role[v]
      BY <1>0, <1>3
    <2>4. \A v \in UserId : RowsAbout(v)' = RowsAbout(v)
      BY <1>3 DEF RowsAbout
    <2>5. QED
      BY <1>3, <2>2, <2>3, <2>4 DEF CommitsTell
  <1>4. QED
    BY <1>1, <1>2, <1>3, OthersWriteNothing

LEMMA StampsStayBefore ==
    ASSUME UserAssumption, UsersTypeOK, UsersInv, CommitsTell, StampedBefore, [Next]_vars
    PROVE  StampedBefore'
  <1>0. /\ log \in Seq(AuditRow) /\ Len(log) \in Nat
        /\ \A q \in Request : tx[q].began \in Nat /\ tx[q].began <= Len(log)
    BY DEF UsersTypeOK, Transaction, StampedBefore
  <1>1. ASSUME NEW q \in Request
        PROVE  tx'[q].began \in {0, tx[q].began, Len(log)}
    <2>1. ASSUME NEW r \in Request, RequestStep(r)
          PROVE  tx'[q].began \in {0, tx[q].began, Len(log)}
      <3>1. tx[r] \in Transaction /\ tx[q] \in Transaction /\ DOMAIN tx = Request
        BY DEF UsersTypeOK
      <3>2. CASE tx' = tx
        BY <3>2
      <3>3. CASE EndRequest(r)
        BY <3>1, <3>3 DEF EndRequest, NoTransaction
      <3>4. CASE Begin(r)
        BY <3>1, <3>4 DEF Begin, Transaction
      <3>5. CASE ReadTarget(r)
        BY <3>1, <3>3, <3>5 DEF ReadTarget, Transaction
      <3>6. QED
        BY <2>1, <3>2, <3>3, <3>4, <3>5 DEF RequestStep, SendCreate, SendEdit, CountAdmins,
           CreateUser, WriteRole, DeleteUser, FailRequest
    <2>2. ASSUME NEW s \in Seeder, SeedStep(s) PROVE tx' = tx
      BY <2>2 DEF SeedStep, SeedCount, SeedInsert, SeedFail
    <2>3. QED
      BY <2>1, <2>2 DEF Next, vars
  <1>2. ASSUME NEW r \in Request, CreateUser(r) \/ WriteRole(r) \/ DeleteUser(r)
        PROVE  StampedBefore'
    <2>1. /\ Len(log') = Len(log) + 1 /\ log'[Len(log')].timestamp = tx[r].began
      BY <1>2, CommitWrites
    <2>2. \A i \in 1 .. Len(log) : log'[i].timestamp = log[i].timestamp
      BY <1>2, RowsKeep
    <2>3. \A q \in Request : tx'[q].began <= Len(log')
      BY <1>0, <1>1, <2>1
    <2>4. \A i \in 1 .. Len(log') : log'[i].timestamp < i
      <3>1. \A i \in 1 .. Len(log') : i \in 1 .. Len(log) \/ i = Len(log')
        BY <1>0, <2>1
      <3>2. tx[r].began < Len(log')
        BY <1>0, <2>1
      <3>3. \A i \in 1 .. Len(log) : log[i].timestamp < i
        BY DEF StampedBefore
      <3>4. QED
        BY <2>1, <2>2, <3>1, <3>2, <3>3
    <2>5. QED
      BY <2>3, <2>4 DEF StampedBefore
  <1>3. CASE UNCHANGED log
    BY <1>0, <1>1, <1>3 DEF StampedBefore
  <1>4. QED
    BY <1>2, <1>3, OthersWriteNothing

\* The newest row by timestamp is the last to commit, or their transactions
\* overlapped.
LEMMA TimestampsTell ==
    ASSUME UsersTypeOK, CommitsTell, StampedBefore
    PROVE  LogTellsTheTable
  <1> SUFFICES ASSUME NEW u \in UserId, NEW i \in RowsAbout(u),
                      \A j \in RowsAbout(u) : log[j].timestamp <= log[i].timestamp
               PROVE  \/ log[i].to = role[u]
                      \/ \E j \in RowsAbout(u) :
                            i < j /\ log[j].timestamp < i /\ log[j].to = role[u]
    BY DEF CommitsTell, LogTellsTheTable
  <1>1. PICK j \in RowsAbout(u) : log[j].to = role[u] /\ i <= j
    BY DEF CommitsTell
  <1>2. /\ i \in Nat /\ j \in Nat
        /\ log[i] \in AuditRow /\ log[j] \in AuditRow
        /\ log[i].timestamp < i
    BY DEF UsersTypeOK, RowsAbout, StampedBefore
  <1>3. log[i].timestamp \in Nat /\ log[j].timestamp \in Nat
    BY <1>2 DEF AuditRow
  <1>4. log[j].timestamp <= log[i].timestamp
    OBVIOUS
  <1>5. log[j].timestamp < i
    BY ONLY <1>2, <1>3, <1>4
  <1>6. CASE i = j
    BY <1>1, <1>6
  <1>7. CASE i # j
    <2>1. i < j
      BY ONLY <1>1, <1>2, <1>7
    <2>2. QED
      BY <1>1, <1>5, <2>1
  <1>8. QED
    BY <1>6, <1>7

\* For every user, the audit row with the newest timestamp tells the role the
\* table has now, or the row of a transaction that overlapped it does, and who
\* has no row was never there or was seeded: each service writes its row in the
\* transaction of its change, and the foreign key lets no other in between.
THEOREM LogTheorem == Spec => []LogTellsTheTable
  <1>1. UsersInit => CommitsTell /\ StampedBefore
    <2>1. UsersInit => \A u \in UserId : RowsAbout(u) = {}
      BY DEF UsersInit, RowsAbout
    <2>2. QED
      BY <2>1 DEF UsersInit, CommitsTell, StampedBefore, NoTransaction
  <1>2. UsersTypeOK /\ UsersInv /\ CommitsTell /\ StampedBefore /\ [Next]_vars
            => CommitsTell' /\ StampedBefore'
    BY UserAssumption, CommitsKeepTelling, StampsStayBefore
  <1>3. UsersTypeOK /\ CommitsTell /\ StampedBefore => LogTellsTheTable
    BY TimestampsTell
  <1>4. QED
    BY <1>1, <1>2, <1>3, UsersTheorem, PTL DEF Spec

\* What a transaction has read is the role of the table, or a row about the user
\* was committed since the transaction began.
ReadsTell ==
    \A r \in Request : at[r] \in {"count", "write"} /\ ask[r].op # "create" =>
        /\ tx[r].was \in Role
        /\ \/ tx[r].was = role[ask[r].target]
           \/ \E i \in RowsAbout(ask[r].target) : tx[r].began < i

\* A commit of another request is a row that is later than any transaction open.
LEMMA CommitsKeepReads ==
    ASSUME UserAssumption, UsersTypeOK, UsersInv, StampedBefore, ReadsTell,
           NEW r \in Request, CreateUser(r) \/ WriteRole(r) \/ DeleteUser(r)
    PROVE  ReadsTell'
  <1>1. /\ at' = [at EXCEPT ![r] = "idle"] /\ ask' = [ask EXCEPT ![r] = NoAsk]
        /\ tx' = [tx EXCEPT ![r] = NoTransaction]
    BY DEF CreateUser, WriteRole, DeleteUser, EndRequest
  <1>2. PICK u \in UserId :
           /\ log'[Len(log')].user = u
           /\ \A v \in UserId : v # u => role'[v] = role[v]
    BY CommitWrites
  <1>3. /\ Len(log) \in Nat /\ Len(log') = Len(log) + 1
        /\ \A i \in 1 .. Len(log) : log'[i].user = log[i].user
    BY CommitWrites, RowsKeep DEF UsersTypeOK
  <1> SUFFICES ASSUME NEW q \in Request, at'[q] \in {"count", "write"}, ask'[q].op # "create"
               PROVE  /\ tx'[q].was \in Role
                      /\ \/ tx'[q].was = role'[ask'[q].target]
                         \/ \E i \in 1 .. Len(log') :
                               log'[i].user = ask'[q].target /\ tx'[q].began < i
    BY DEF ReadsTell, RowsAbout
  <1>4. q # r
    BY <1>1 DEF UsersTypeOK
  <1>5. at'[q] = at[q] /\ ask'[q] = ask[q] /\ tx'[q] = tx[q]
    BY <1>1, <1>4 DEF UsersTypeOK
  <1> DEFINE t == ask[q].target
  <1>6. t \in UserId
    BY <1>5 DEF UsersInv, RequestsInv
  <1>7. /\ tx[q].was \in Role
        /\ tx[q].was = role[t] \/ \E i \in RowsAbout(t) : tx[q].began < i
    BY <1>5 DEF ReadsTell
  <1>8. tx[q].began \in Nat /\ tx[q].began < Len(log')
    BY <1>3 DEF UsersTypeOK, Transaction, StampedBefore
  <1>9. \A i \in RowsAbout(t) : i \in 1 .. Len(log') /\ log'[i].user = t
    BY <1>3 DEF RowsAbout
  <1>10. CASE t = u
    <2>1. Len(log') \in 1 .. Len(log') /\ log'[Len(log')].user = t
      BY <1>2, <1>3, <1>10
    <2>2. QED
      BY <1>5, <1>7, <1>8, <2>1
  <1>11. CASE t # u
    BY <1>2, <1>5, <1>6, <1>7, <1>9, <1>11
  <1>12. QED
    BY <1>10, <1>11

\* The read itself, and the steps that read and write nothing.
LEMMA RequestsKeepReads ==
    ASSUME UserAssumption, UsersTypeOK, ReadsTell, NEW r \in Request, RequestStep(r),
           UNCHANGED <<log, role>>
    PROVE  ReadsTell'
  <1> SUFFICES ASSUME NEW q \in Request, at'[q] \in {"count", "write"}, ask'[q].op # "create"
               PROVE  /\ tx'[q].was \in Role
                      /\ \/ tx'[q].was = role[ask'[q].target]
                         \/ \E i \in RowsAbout(ask'[q].target) : tx'[q].began < i
    BY DEF ReadsTell, RowsAbout
  <1>0. /\ DOMAIN at = Request /\ DOMAIN ask = Request /\ DOMAIN tx = Request
        /\ tx[r] \in Transaction
    BY DEF UsersTypeOK
  <1>1. CASE q # r
    <2>1. at'[q] = at[q] /\ ask'[q] = ask[q] /\ tx'[q] = tx[q]
      BY <1>0, <1>1 DEF RequestStep, SendCreate, SendEdit, Begin, ReadTarget, CountAdmins,
         CreateUser, WriteRole, DeleteUser, FailRequest, EndRequest
    <2>2. QED
      BY <2>1 DEF ReadsTell
  <1>2. CASE q = r
    <2>1. CASE ReadTarget(r)
      <3>1. Present(ask[r].target)
        BY <1>0, <1>2, <2>1 DEF ReadTarget, EndRequest
      <3>2. /\ tx' = [tx EXCEPT ![r].was = role[ask[r].target]] /\ ask' = ask
        BY <2>1, <3>1 DEF ReadTarget
      <3>3. tx'[r].was = role[ask[r].target]
        BY <1>0, <3>2 DEF Transaction
      <3>4. QED
        BY <1>2, <3>1, <3>2, <3>3 DEF Present
    <2>2. CASE CountAdmins(r)
      <3>1. at[r] = "count" /\ ask' = ask /\ tx' = tx
        BY <1>0, <1>2, <2>2 DEF CountAdmins, EndRequest
      <3>2. QED
        BY <1>2, <3>1 DEF ReadsTell
    <2>3. CASE Begin(r)
      BY <1>0, <1>2, <2>3 DEF Begin
    <2>4. CASE SendCreate(r) \/ SendEdit(r)
      BY <1>0, <1>2, <2>4 DEF SendCreate, SendEdit
    <2>5. CASE CreateUser(r) \/ WriteRole(r) \/ DeleteUser(r) \/ FailRequest(r)
      BY <1>0, <1>2, <2>5 DEF CreateUser, WriteRole, DeleteUser, FailRequest, EndRequest
    <2>6. QED
      BY <2>1, <2>2, <2>3, <2>4, <2>5 DEF RequestStep
  <1>3. QED
    BY <1>1, <1>2

LEMMA ReadsKeepTelling ==
    ASSUME UserAssumption, UsersTypeOK, UsersInv, StampedBefore, ReadsTell, [Next]_vars
    PROVE  ReadsTell'
  <1>1. ASSUME NEW r \in Request, RequestStep(r) PROVE ReadsTell'
    <2>1. CASE CreateUser(r) \/ WriteRole(r) \/ DeleteUser(r)
      BY <2>1, CommitsKeepReads
    <2>2. CASE ~(CreateUser(r) \/ WriteRole(r) \/ DeleteUser(r))
      <3>1. UNCHANGED <<log, role>>
        BY <1>1, <2>2 DEF RequestStep, SendCreate, SendEdit, Begin, ReadTarget, CountAdmins,
                FailRequest, userVars
      <3>2. QED
        BY <1>1, <3>1, RequestsKeepReads
    <2>3. QED
      BY <2>1, <2>2
  <1>2. ASSUME NEW s \in Seeder, SeedStep(s) PROVE ReadsTell'
    <2>1. UNCHANGED <<log, at, ask, tx>>
      BY <1>2 DEF SeedStep, SeedCount, SeedInsert, SeedFail, userVars
    <2>2. \A v \in UserId : role[v] \in Role => role'[v] = role[v]
      BY <1>2 DEF SeedStep, SeedCount, SeedInsert, SeedFail, userVars, UsersTypeOK, UserAssumption
    <2>3. \A r \in Request : at[r] \in {"count", "write"} /\ ask[r].op # "create" =>
             ask[r].target \in UserId
      BY DEF UsersInv, RequestsInv
    <2>4. QED
      BY <2>1, <2>2, <2>3 DEF ReadsTell, RowsAbout
  <1>3. CASE UNCHANGED vars
    BY <1>3 DEF vars, ReadsTell, RowsAbout
  <1>4. QED
    BY <1>1, <1>2, <1>3 DEF Next

\* The row that is appended; the rows before it stay next to each other.
LEMMA RowsKeepDetails ==
    ASSUME UserAssumption, UsersTypeOK, UsersInv, CommitsTell, StampedBefore, ReadsTell,
           OverlapsAloneMisstate, NEW r \in Request,
           CreateUser(r) \/ WriteRole(r) \/ DeleteUser(r)
    PROVE  OverlapsAloneMisstate'
  <1> DEFINE n == Len(log')
  <1>1. PICK u \in UserId :
           /\ log'[n].user = u
           /\ IF ask[r].op = "create" THEN role[u] = "none" ELSE u = ask[r].target
    BY CommitWrites
  <1>2. /\ Len(log) \in Nat /\ n = Len(log) + 1
        /\ log'[n].from = tx[r].was /\ log'[n].timestamp = tx[r].began
    BY CommitWrites DEF UsersTypeOK
  <1>3. \A i \in 1 .. Len(log) :
           /\ log'[i].user = log[i].user /\ log'[i].to = log[i].to
           /\ log'[i].from = log[i].from /\ log'[i].timestamp = log[i].timestamp
    BY RowsKeep
  <1>4. at[r] = "write" /\ tx[r].began \in Nat
    BY DEF CreateUser, WriteRole, DeleteUser, Writing, UsersTypeOK, Transaction
  <1> SUFFICES ASSUME NEW v \in UserId, NEW i \in RowsAbout(v)', NEW j \in RowsAbout(v)',
                      i < j, \A k \in RowsAbout(v)' : k <= i \/ j <= k
               PROVE  log'[j].from = log'[i].to \/ log'[j].timestamp < i
    BY DEF OverlapsAloneMisstate, RowsAbout
  <1>5. i \in 1 .. n /\ j \in 1 .. n /\ i \in 1 .. Len(log) /\ i \in RowsAbout(v)
    BY <1>2, <1>3 DEF RowsAbout
  <1>6. \A k \in RowsAbout(v) : k \in RowsAbout(v)'
    BY <1>2, <1>3 DEF RowsAbout
  <1>7. CASE j # n
    <2>1. j \in 1 .. Len(log) /\ j \in RowsAbout(v)
      BY <1>2, <1>3, <1>5, <1>7 DEF RowsAbout
    <2>2. log[j].from = log[i].to \/ log[j].timestamp < i
      BY <1>5, <1>6, <2>1 DEF OverlapsAloneMisstate
    <2>3. QED
      BY <1>3, <1>5, <2>1, <2>2
  <1>8. CASE j = n
    <2>1. v = u
      BY <1>1, <1>8 DEF RowsAbout
    <2>2. PICK l \in RowsAbout(u) : log[l].to = role[u] /\ \A k \in RowsAbout(u) : k <= l
      BY <1>5, <2>1 DEF CommitsTell
    <2>3. l \in 1 .. Len(log)
      BY DEF RowsAbout
    <2>4. l = i
      BY <1>2, <1>5, <1>6, <1>8, <2>1, <2>2, <2>3
    <2>5. log[i].to = role[u] /\ \A k \in RowsAbout(u) : k \in Nat /\ i \in Nat /\ k <= i
      BY <2>2, <2>3, <2>4 DEF RowsAbout
    <2>6. CASE ask[r].op = "create"
      <3>1. log[i] \in AuditRow
        BY <1>5 DEF UsersTypeOK
      <3>2. log[i].to # "none"
        BY <3>1 DEF AuditRow, UserAssumption
      <3>3. QED
        BY <1>1, <2>5, <2>6, <3>2
    <2>7. CASE ask[r].op # "create"
      <3>1. tx[r].was = role[u] \/ \E k \in RowsAbout(u) : tx[r].began < k
        BY <1>1, <1>4, <2>7 DEF ReadsTell
      <3>2. tx[r].was = role[u] \/ tx[r].began < i
        BY <1>4, <2>5, <3>1
      <3>3. QED
        BY <1>2, <1>3, <1>5, <1>8, <2>5, <3>2
    <2>8. QED
      BY <2>6, <2>7
  <1>9. QED
    BY <1>7, <1>8

\* What the details of an audit row say of the role before is wrong only when two
\* transactions about one user overlapped.
THEOREM DetailsTheorem == Spec => []OverlapsAloneMisstate
  <1>1. UsersInit => CommitsTell /\ StampedBefore /\ ReadsTell /\ OverlapsAloneMisstate
    <2>1. UsersInit => \A u \in UserId : RowsAbout(u) = {}
      BY DEF UsersInit, RowsAbout
    <2>2. UsersInit => ReadsTell
      BY DEF UsersInit, ReadsTell
    <2>3. QED
      BY <2>1, <2>2 DEF UsersInit, CommitsTell, StampedBefore, NoTransaction,
         OverlapsAloneMisstate
  <1>2. UsersTypeOK /\ UsersInv /\ CommitsTell /\ StampedBefore /\ ReadsTell
          /\ OverlapsAloneMisstate /\ [Next]_vars
            => CommitsTell' /\ StampedBefore' /\ ReadsTell' /\ OverlapsAloneMisstate'
    <2> SUFFICES ASSUME UsersTypeOK, UsersInv, CommitsTell, StampedBefore, ReadsTell,
                        OverlapsAloneMisstate, [Next]_vars
                 PROVE  CommitsTell' /\ StampedBefore' /\ ReadsTell' /\ OverlapsAloneMisstate'
      OBVIOUS
    <2>1. CommitsTell' /\ StampedBefore' /\ ReadsTell'
      BY UserAssumption, CommitsKeepTelling, StampsStayBefore, ReadsKeepTelling
    <2>2. CASE UNCHANGED log
      <3>1. \A u \in UserId : RowsAbout(u)' = RowsAbout(u)
        BY <2>2 DEF RowsAbout
      <3>2. QED
        BY <2>1, <2>2, <3>1 DEF OverlapsAloneMisstate
    <2>3. QED
      BY <2>1, <2>2, UserAssumption, RowsKeepDetails, OthersWriteNothing
  <1>3. QED
    BY <1>1, <1>2, UsersTheorem, PTL DEF Spec

\* No step takes a row out of the audit log or edits one, but for the actor of
\* an account that the same step deletes (ON DELETE SET NULL).
THEOREM AppendOnlyTheorem == Spec => AuditIsAppendOnly
  <1> DEFINE OnlyAppends ==
        \A i \in 1 .. Len(log) :
          /\ i <= Len(log')
          /\ \/ log'[i] = log[i]
             \/ /\ log[i].actor # NoUser /\ role'[log[i].actor] = "gone"
                /\ log'[i] = [log[i] EXCEPT !.actor = NoUser]
  <1>1. UsersTypeOK /\ UsersInv /\ [Next]_vars => [OnlyAppends]_vars
    <2> SUFFICES ASSUME UsersTypeOK, UsersInv, [Next]_vars PROVE OnlyAppends
      OBVIOUS
    <2>1. Len(log) \in Nat
      BY DEF UsersTypeOK
    <2>2. ASSUME NEW r \in Request, CreateUser(r) \/ WriteRole(r) \/ DeleteUser(r)
          PROVE  OnlyAppends
      BY <2>1, <2>2, UserAssumption, CommitWrites DEF UserAssumption
    <2>3. CASE UNCHANGED log
      BY <2>1, <2>3
    <2>4. QED
      BY <2>2, <2>3, OthersWriteNothing
  <1>2. QED
    BY <1>1, UsersTheorem, PTL DEF Spec, AuditIsAppendOnly

=============================================================================
