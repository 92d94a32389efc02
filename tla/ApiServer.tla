------------------------------ MODULE ApiServer ------------------------------
(***************************************************************************)
(* The life of the api container: the checks of its startup, the seeding   *)
(* of the access policy, the login limiter in its memory, and the signing  *)
(* key that it fetches from Vault again for every request.  The container  *)
(* can stop at any moment, and Vault, which runs in development mode,      *)
(* forgets everything when it is restarted.                                *)
(***************************************************************************)
EXTENDS Naturals, Sequences, FiniteSets

CONSTANTS
    Browser,      \* clients of the API
    Host,         \* the addresses their requests come from
    HostOf,       \* [Browser -> Host]
    Rules,        \* the lines of casbin/policy.csv are 1 .. Rules
    LoginMax,     \* _LOGIN_MAX
    Window,       \* _LOGIN_WIN in units of the clock
    MaxKeys,      \* bound on the signing keys put into Vault
    MaxCrashes,   \* bound on the stops of the container
    MaxEnds       \* bound on the expired tokens and the accounts that are gone

VARIABLES
    image,        \* what the container was built with
    secret,       \* Vault: JWT_SECRET, the number of the key; 0 when there is none
    keys,         \* how many there have been
    api,          \* the step of lifespan that comes next, "ready" or "stopped"
    crashes,
    boot_secret,  \* app.state.jwt_secret
    casbin_rule,  \* the rules in Postgres
    enforcer,     \* the rules in memory
    cut,          \* a seeding has been interrupted (kept for the properties only)
    login_store,  \* [Host -> the ages of the attempts it remembers]
    admitted,     \* [Host -> the ages below Window of all attempts this process
                  \* let pass] (kept for the properties only)
    token,        \* [Browser -> the key that signed its token; 0 without one]
    issued,       \* [Browser -> the key in Vault when it logged in] (kept for the
                  \* properties only)
    expired,      \* the browsers whose token has outlived JWT_LIFETIME_SECONDS
    gone,         \* those whose account is deleted or inactive
    answer        \* the response on its way, and to whom

bootVars  == <<image, api, crashes, boot_secret, casbin_rule, enforcer, cut>>
vaultVars == <<secret, keys>>
loginVars == <<login_store, admitted>>
userVars  == <<token, issued, expired, gone>>
vars      == <<bootVars, vaultVars, loginVars, userVars, answer>>

PolicyFile == 1 .. Rules
Images     == {"good", "bad weights", "no policy file"}
Boot       == {"weights", "secret", "policy file", "load", "seed", "save", "redis"}
Code       == {200, 400, 401, 403, 429, 500}
NoAnswer   == <<>>

ASSUME ServerAssumption ==
    /\ HostOf \in [Browser -> Host]
    /\ Rules \in Nat \ {0} /\ LoginMax \in Nat \ {0} /\ Window \in Nat \ {0}
    /\ MaxKeys \in Nat \ {0} /\ MaxCrashes \in Nat /\ MaxEnds \in Nat

ServerTypeOK ==
    /\ image \in Images
    /\ keys \in 1 .. MaxKeys /\ secret \in {0, keys}
    /\ api \in Boot \cup {"ready", "stopped"}
    /\ crashes \in 0 .. MaxCrashes
    /\ boot_secret \in 0 .. keys
    /\ casbin_rule \subseteq PolicyFile /\ enforcer \subseteq PolicyFile
    /\ cut \in BOOLEAN
    /\ login_store \in [Host -> Seq(0 .. Window)] /\ admitted \in [Host -> Seq(0 .. Window - 1)]
    /\ \A h \in Host :
          /\ Len(login_store[h]) <= LoginMax
          /\ \A i, j \in DOMAIN login_store[h] : i < j => login_store[h][i] >= login_store[h][j]
    /\ token \in [Browser -> 0 .. keys] /\ issued \in [Browser -> 0 .. keys]
    /\ expired \subseteq Browser /\ gone \subseteq Browser
    /\ answer \in (Browser \X Code) \cup {NoAnswer}

\* The first start of the container: vault-init has completed, the tables are empty.
Init ==
    /\ image \in Images
    /\ secret = 1 /\ keys = 1
    /\ api = "weights"
    /\ crashes = 0
    /\ boot_secret = 0
    /\ casbin_rule = {} /\ enforcer = {}
    /\ cut = FALSE
    /\ login_store = [h \in Host |-> <<>>]
    /\ admitted = [h \in Host |-> <<>>]
    /\ token = [b \in Browser |-> 0] /\ issued = token
    /\ expired = {} /\ gone = {}
    /\ answer = NoAnswer

-----------------------------------------------------------------------------
(* lifespan.  A step that raises ends the process.                         *)

Passes(check, next) == api' = IF check THEN next ELSE "stopped"

VerifyModelIntegrity ==
    /\ api = "weights"
    /\ Passes(image # "bad weights", "secret")
    /\ UNCHANGED <<image, crashes, boot_secret, casbin_rule, enforcer, cut, vaultVars, loginVars, userVars, answer>>

GetJwtSecret ==
    /\ api = "secret"
    /\ Passes(secret # 0, "policy file")
    /\ boot_secret' = secret
    /\ UNCHANGED <<image, crashes, casbin_rule, enforcer, cut, vaultVars, loginVars, userVars, answer>>

CheckPolicyFile ==
    /\ api = "policy file"
    /\ Passes(image # "no policy file", "load")
    /\ UNCHANGED <<image, crashes, boot_secret, casbin_rule, enforcer, cut, vaultVars, loginVars, userVars, answer>>

\* casbin.Enforcer reads the table; only an empty one is filled from the file.
LoadPolicy ==
    /\ api = "load"
    /\ enforcer' = casbin_rule
    /\ api' = IF casbin_rule = {} THEN "seed" ELSE "redis"
    /\ UNCHANGED <<image, crashes, boot_secret, casbin_rule, cut, vaultVars, loginVars, userVars, answer>>

\* add_policy: the next line of the file, committed on its own.
AddPolicy ==
    /\ api = "seed"
    /\ \E line \in PolicyFile \ enforcer :
          /\ 1 .. line - 1 \subseteq enforcer
          /\ enforcer' = enforcer \cup {line}
          /\ casbin_rule' = casbin_rule \cup {line}
          /\ api' = IF line = Rules THEN "save" ELSE "seed"
    /\ UNCHANGED <<image, crashes, boot_secret, cut, vaultVars, loginVars, userVars, answer>>

\* Mutant of SavePolicy: the rows are deleted and not written again.
SavePolicyDeletes ==
    /\ api = "save"
    /\ casbin_rule' = {}
    /\ api' = "redis"
    /\ UNCHANGED <<image, crashes, boot_secret, enforcer, cut, vaultVars, loginVars, userVars, answer>>

\* save_policy: one transaction deletes all rows and writes those in memory.
SavePolicy ==
    /\ api = "save"
    /\ casbin_rule' = enforcer
    /\ api' = "redis"
    /\ UNCHANGED <<image, crashes, boot_secret, enforcer, cut, vaultVars, loginVars, userVars, answer>>

InitCache ==
    /\ api = "redis"
    /\ api' = "ready"
    /\ UNCHANGED <<image, crashes, boot_secret, casbin_rule, enforcer, cut, vaultVars, loginVars, userVars, answer>>

\* Mutant of Start: the container is not started again.
StartNever == FALSE

\* restart: unless-stopped.  A new process has none of the old one's memory.
Start ==
    /\ api = "stopped"
    /\ api' = "weights"
    /\ boot_secret' = 0
    /\ enforcer' = {}
    /\ login_store' = [h \in Host |-> <<>>]
    /\ admitted' = [h \in Host |-> <<>>]
    /\ UNCHANGED <<image, crashes, casbin_rule, cut, vaultVars, userVars, answer>>

\* The process dies, or Postgres or Redis fails one of its steps.
Crash ==
    /\ api # "stopped"
    /\ crashes < MaxCrashes
    /\ crashes' = crashes + 1
    /\ api' = "stopped"
    /\ cut' = (cut \/ (api = "seed" /\ casbin_rule # {}))
    /\ answer' = NoAnswer
    /\ UNCHANGED <<image, boot_secret, casbin_rule, enforcer, vaultVars, loginVars, userVars>>

BootStep ==
    \/ Start \/ VerifyModelIntegrity \/ GetJwtSecret \/ CheckPolicyFile
    \/ LoadPolicy \/ AddPolicy \/ SavePolicy \/ InitCache

-----------------------------------------------------------------------------
(* Vault.                                                                  *)

VaultRestart ==
    /\ secret # 0
    /\ secret' = 0
    /\ UNCHANGED <<bootVars, keys, loginVars, userVars, answer>>

\* An operator runs vault-init again, or puts a new key there.
PutSecret ==
    /\ keys < MaxKeys
    /\ keys' = keys + 1
    /\ secret' = keys'
    /\ UNCHANGED <<bootVars, loginVars, userVars, answer>>

-----------------------------------------------------------------------------
(* Tokens and accounts.                                                    *)

SomeStay == Cardinality(expired) + Cardinality(gone) < MaxEnds

\* The lifetime of a token, a day or as configured, ends at a moment that has
\* nothing to do with the windows of the limiter.
TokenExpires(b) ==
    /\ token[b] # 0
    /\ b \notin expired \cup gone
    /\ SomeStay
    /\ expired' = expired \cup {b}
    /\ UNCHANGED <<bootVars, vaultVars, loginVars, token, issued, gone, answer>>

\* An administrator deletes the account.
AccountGoes(b) ==
    /\ api = "ready"
    /\ b \notin gone
    /\ SomeStay
    /\ gone' = gone \cup {b}
    /\ UNCHANGED <<bootVars, vaultVars, loginVars, token, issued, expired, answer>>

-----------------------------------------------------------------------------
(* Requests.  Each is one step: the limiter runs without an await, and     *)
(* what follows reads Vault once and changes nothing that is shared.       *)

Older(ages) == [i \in DOMAIN ages |-> IF ages[i] = Window THEN Window ELSE ages[i] + 1]

\* The list without the attempts of this age or older.  They are appended as the
\* clock goes, so it is the oldest ones at its front that go.
Younger(ages, age) ==
    LET old == Cardinality({i \in DOMAIN ages : ages[i] >= age}) IN
    SubSeq(ages, old + 1, Len(ages))

\* Mutant of Recent: an attempt is dropped one unit early.
RecentForLess(ages) == Younger(ages, Window - 1)

Recent(ages) == Younger(ages, Window)

\* The clock moves on.
Tick ==
    /\ login_store' = [h \in Host |-> Older(login_store[h])]
    /\ admitted' = [h \in Host |-> Younger(Older(admitted[h]), Window)]
    /\ UNCHANGED <<bootVars, vaultVars, userVars, answer>>

Respond(b, code) == answer' = <<b, code>>

\* Mutant of Attempt: what is too old is never dropped.
AttemptKeepsAll(h) ==
    /\ login_store' = [login_store EXCEPT ![h] = Append(@, 0)]
    /\ admitted' = [admitted EXCEPT ![h] = Append(@, 0)]

\* Whatever the answer will be, the attempt counts.
Attempt(h) ==
    /\ login_store' = [login_store EXCEPT ![h] = Append(Recent(@), 0)]
    /\ admitted' = [admitted EXCEPT ![h] = Append(@, 0)]

TooMany(h) == Len(Recent(login_store[h])) >= LoginMax

\* 429: nothing is recorded but the pruned list.
RefuseLogin(b) ==
    LET h == HostOf[b] IN
    /\ api = "ready"
    /\ answer = NoAnswer
    /\ TooMany(h)
    /\ login_store' = [login_store EXCEPT ![h] = Recent(@)]
    /\ Respond(b, 429)
    /\ UNCHANGED <<bootVars, vaultVars, admitted, userVars>>

\* Mutant of IssueToken: it is signed with the key that was read at startup.
IssueTokenOfBoot(b) ==
    /\ b \notin gone
    /\ token' = [token EXCEPT ![b] = boot_secret]
    /\ issued' = [issued EXCEPT ![b] = secret]
    /\ expired' = expired \ {b}
    /\ UNCHANGED gone

\* To an active account.  get_jwt_strategy fetches the key, and the lifetime
\* starts anew.
IssueToken(b) ==
    /\ b \notin gone
    /\ token' = [token EXCEPT ![b] = secret]
    /\ issued' = [issued EXCEPT ![b] = secret]
    /\ expired' = expired \ {b}
    /\ UNCHANGED gone

\* No key, a wrong password or an account that is gone, or a token.
Login(b) ==
    /\ api = "ready"
    /\ answer = NoAnswer
    /\ ~TooMany(HostOf[b])
    /\ Attempt(HostOf[b])
    /\ \/ secret = 0 /\ Respond(b, 500) /\ UNCHANGED userVars
       \/ secret # 0 /\ Respond(b, 400) /\ UNCHANGED userVars
       \/ secret # 0 /\ Respond(b, 200) /\ IssueToken(b)
    /\ UNCHANGED <<bootVars, vaultVars>>

\* current_active_user: the signature and the lifetime of the token, then the
\* account.
Authenticated(b) == token[b] = secret /\ b \notin expired \cup gone

\* Any other route, with a token, by someone whose role has the rule in the file.
Request(b, rule) ==
    /\ api = "ready"
    /\ answer = NoAnswer
    /\ token[b] # 0
    /\ Respond(b, IF secret = 0 THEN 500
                  ELSE IF ~Authenticated(b) THEN 401
                  ELSE IF rule \notin enforcer THEN 403
                  ELSE 200)
    /\ UNCHANGED <<bootVars, vaultVars, loginVars, userVars>>

Receive ==
    /\ answer # NoAnswer
    /\ answer' = NoAnswer
    /\ UNCHANGED <<bootVars, vaultVars, loginVars, userVars>>

Next ==
    \/ BootStep
    \/ Crash
    \/ VaultRestart
    \/ PutSecret
    \/ Tick
    \/ \E b \in Browser : TokenExpires(b) \/ AccountGoes(b)
    \/ \E b \in Browser : RefuseLogin(b) \/ Login(b) \/ \E rule \in PolicyFile : Request(b, rule)
    \/ Receive

\* Docker starts the container again and lifespan runs on; nothing that keeps
\* Vault filled is automatic.
Fairness == WF_vars(BootStep)

Spec == Init /\ [][Next]_vars /\ Fairness

-----------------------------------------------------------------------------
(* What a client and an operator can rely on.                              *)

\* In no window of the clock does one process let more than LoginMax attempts
\* from one address pass, whoever shares the address.
LoginsPerWindow == \A h \in Host : Len(admitted[h]) <= LoginMax

\* An error has its reason.  429: LoginMax attempts from this address passed
\* within the last window, so refused ones never prolong a lockout.  401: since
\* the login the key was replaced, the token ran out or the account went, so no
\* restart of the API logs anybody out.  403, for a rule of the file: a seeding
\* was interrupted.
ErrorsHaveAReason ==
    [][\A b \in Browser : answer = NoAnswer =>
          /\ answer' = <<b, 429>> => Len(admitted[HostOf[b]]) = LoginMax
          /\ answer' = <<b, 401>> => issued[b] # keys \/ b \in expired \cup gone
          /\ answer' = <<b, 403>> => cut]_vars

\* A seeding is all or nothing unless it is interrupted, and the rules in memory
\* are those in the table.
PolicyIsWhole ==
    /\ ~cut /\ api # "seed" => casbin_rule \in {{}, PolicyFile}
    /\ api = "ready" => enforcer = casbin_rule /\ (enforcer = PolicyFile \/ cut)

\* ARCH.md: the policies of the file are seeded into the table on first boot.
\* Refuted by a stop in the middle of that seeding: the next boots find rules in
\* the table and serve those.
PolicyIsServed == api = "ready" => enforcer = PolicyFile

\* With a good image and a key that stays in Vault the API is up for good in the
\* end, at whatever point of its earlier boots it was stopped.
ApiComesBack == (image = "good" /\ <>[](secret # 0)) => <>[](api = "ready")
=============================================================================
