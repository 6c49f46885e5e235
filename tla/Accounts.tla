------------------------------ MODULE Accounts ------------------------------
(***************************************************************************)
(* The accounts of OpenBeats: the Postgres table "users", the start of one *)
(* or more server instances on one database (cmd/openbeats/main.go) with   *)
(* the migration of its schema and the seeding of the bootstrap admin, and *)
(* the login and register handlers (internal/api/handlers_auth.go) with    *)
(* the tokens they give and require.                                       *)
(*                                                                         *)
(* Seeding and registering both look first and insert afterwards, without  *)
(* a transaction; only the UNIQUE constraint on username decides a race.   *)
(* Migrations are those of golang-migrate: under an advisory lock, each is *)
(* marked dirty, executed and marked clean in three statements of its own. *)
(***************************************************************************)
EXTENDS Naturals

CONSTANTS
    Instances,      \* the server processes on this database
    Requests,       \* the login and register requests, each at most once
    Names,          \* usernames
    Passwords,
    Unhashable,     \* the passwords bcrypt refuses (longer than 72 bytes)
    AdminName,      \* ADMIN_USERNAME, never empty: config.getenv replaces an
                    \*   empty value by its default
    Configs,        \* what else an instance may find in its environment
    Migrations,     \* the number of embedded migrations
    Faults,         \* which failures may happen, a subset of FaultKinds
    Nil             \* no account, no call, no instance

\* "crash": an instance dies.  "db": a statement fails without effect.
\* "lost":  a statement commits but its reply does not arrive.
\* "io":    the storage directory cannot be made.
FaultKinds == {"crash", "db", "lost", "io"}

\* ADMIN_PASSWORD, of any length, and whether JWT_TTL can be parsed.
Config == [password : Passwords, parses : BOOLEAN]

Roles == {"admin", "user"}

Account == [password : Passwords, role : Roles]

\* A login, or a register with the role it asks for; auth is the account whose
\* token the register carries.
Login == [op : {"login"}, name : Names, password : Passwords]
Register == [op : {"register"}, name : Names, password : Passwords,
             role : Roles, auth : Names]

ASSUME AdminAssumption  == AdminName \in Names
ASSUME ConfigAssumption == Configs \subseteq Config /\ Migrations \in Nat
ASSUME FaultsAssumption == Faults \subseteq FaultKinds
ASSUME NilAssumption    == Nil \notin Account \cup Login \cup Register \cup Instances

VARIABLES
    users,      \* users[n]: the row with username n, or Nil
    version,    \* the row of schema_migrations: the last migration begun, and
    dirty,      \*   whether it has not been marked as done
    applied,    \* how many migrations the schema has had
    config,     \* config[i]: what config.Load finds in instance i
    stage,      \* stage[i]: where instance i stands in run()
    tokens,     \* the accounts a token has been issued for
    pc,         \* pc[r]: where the handler of request r stands
    call,       \* call[r]: what request r asks for, Nil until it arrives
    via,        \* via[r]: the instance that serves request r
    reply,      \* reply[r]: the HTTP status sent, 0 while there is none
    owed        \* history: the logins that arrived with valid credentials

schema   == <<version, dirty, applied>>
instances == <<schema, config, stage>>
requests == <<tokens, pc, call, via, reply, owed>>
vars == <<users, instances, requests>>

\* The stages in which an instance holds the lock of the migrations.
Migrating == {"locked", "marked", "executed"}

Stages == {"down", "migrate", "open", "count", "lookup", "create", "serving", "failed"}
              \cup Migrating

Codes == {0, 200, 201, 400, 401, 403, 409, 500}

TypeOK ==
    /\ users  \in [Names -> Account \cup {Nil}]
    /\ version \in 0..Migrations
    /\ applied \in 0..Migrations
    /\ dirty  \in BOOLEAN
    /\ config \in [Instances -> Configs]
    /\ stage  \in [Instances -> Stages]
    /\ tokens \in SUBSET Names
    /\ pc     \in [Requests -> {"idle", "check", "lookup", "insert", "done", "killed"}]
    /\ call   \in [Requests -> Login \cup Register \cup {Nil}]
    /\ via    \in [Requests -> Instances \cup {Nil}]
    /\ reply  \in [Requests -> Codes]
    /\ owed   \in SUBSET Requests

Init ==
    /\ users  = [n \in Names |-> Nil]
    /\ version = 0 /\ applied = 0 /\ dirty = FALSE
    /\ config \in [Instances -> Configs]
    /\ stage  = [i \in Instances |-> "down"]
    /\ tokens = {}
    /\ pc     = [r \in Requests |-> "idle"]
    /\ call   = [r \in Requests |-> Nil]
    /\ via    = [r \in Requests |-> Nil]
    /\ reply  = [r \in Requests |-> 0]
    /\ owed   = {}

-----------------------------------------------------------------------------
(* The statements on users, with their UNIQUE username *)

AnyUsers == \E n \in Names : users[n] # Nil

Found(n) == users[n] # Nil

\* Mutant of Insert: an upsert that overwrites the account.
InsertOrReplace(n, account) == users' = [users EXCEPT ![n] = account]

Insert(n, account) ==
    /\ users[n] = Nil
    /\ users' = [users EXCEPT ![n] = account]

\* The INSERT fails: the name is taken, the database is, or its reply is lost.
InsertFails(n, account) ==
    \/ (users[n] # Nil \/ "db" \in Faults) /\ UNCHANGED users
    \/ "lost" \in Faults /\ Insert(n, account)

-----------------------------------------------------------------------------
(* run() of an instance: config.Load and RunMigrations *)

Become(i, s) ==
    /\ stage' = [stage EXCEPT ![i] = s]
    /\ UNCHANGED <<config, requests>>

\* The statement has been executed; its reply comes, or it is lost.
Reach(i, s) ==
    \/ Become(i, s)
    \/ "lost" \in Faults /\ Become(i, "failed")

StatementFails(i) == "db" \in Faults /\ Become(i, "failed")

\* The process is started, or restarted by Kubernetes after it exited. What
\* config.Load finds wrong, it finds wrong each time.
Start(i) ==
    /\ stage[i] \in {"down", "failed"}
    /\ Become(i, IF config[i].parses THEN "migrate" ELSE "failed")
    /\ UNCHANGED <<users, schema>>

LockFree == \A i \in Instances : stage[i] \notin Migrating

\* Up() takes the advisory lock, which it waits 15 s for, and refuses to touch a
\* schema that a migration has left dirty.
LockSchema(i) ==
    /\ stage[i] = "migrate"
    /\ \/ LockFree /\ Become(i, IF dirty THEN "failed" ELSE "locked")
       \/ ~LockFree /\ Become(i, "failed")
       \/ StatementFails(i)
    /\ UNCHANGED <<users, schema>>

\* SetVersion(v, true) of the next migration.
MarkDirty(i) ==
    /\ stage[i] = "locked" /\ version < Migrations
    /\ \/ version' = version + 1 /\ dirty' = TRUE /\ Reach(i, "marked")
       \/ StatementFails(i) /\ UNCHANGED <<version, dirty>>
    /\ UNCHANGED <<users, applied>>

\* Mutant of ExecuteMigration: the version is marked clean although it failed.
ExecuteUnchecked(i) ==
    /\ stage[i] = "marked"
    /\ \/ applied' = version /\ Reach(i, "executed")
       \/ "db" \in Faults /\ Become(i, "executed") /\ UNCHANGED applied
    /\ UNCHANGED <<users, version, dirty>>

\* Run() executes the statements of the file as one.
ExecuteMigration(i) ==
    /\ stage[i] = "marked"
    /\ \/ applied' = version /\ Reach(i, "executed")
       \/ StatementFails(i) /\ UNCHANGED applied
    /\ UNCHANGED <<users, version, dirty>>

\* SetVersion(v, false).
MarkClean(i) ==
    /\ stage[i] = "executed"
    /\ \/ dirty' = FALSE /\ Reach(i, "locked")
       \/ StatementFails(i) /\ UNCHANGED dirty
    /\ UNCHANGED <<users, version, applied>>

\* Nothing is left to migrate (ErrNoChange, when nothing was): Unlock.
UnlockSchema(i) ==
    /\ stage[i] = "locked" /\ version = Migrations
    /\ Become(i, "open") \/ StatementFails(i)
    /\ UNCHANGED <<users, schema>>

\* NewPool, which pings the database, and storage.New, which makes a directory.
OpenStores(i) ==
    /\ stage[i] = "open"
    /\ \/ Become(i, "count")
       \/ StatementFails(i)
       \/ "io" \in Faults /\ Become(i, "failed")
    /\ UNCHANGED <<users, schema>>

-----------------------------------------------------------------------------
(* seedAdmin() of an instance *)

\* Mutant of CountUsers: the table is not looked at.
SkipCount(i) ==
    /\ stage[i] = "count"
    /\ Become(i, "create")
    /\ UNCHANGED <<users, schema>>

CountUsers(i) ==
    /\ stage[i] = "count"
    /\ Become(i, IF AnyUsers THEN "serving" ELSE "lookup") \/ StatementFails(i)
    /\ UNCHANGED <<users, schema>>

\* "Guard against a race where another instance seeded concurrently."
LookupAdmin(i) ==
    /\ stage[i] = "lookup"
    /\ Become(i, IF Found(AdminName) THEN "serving" ELSE "create") \/ StatementFails(i)
    /\ UNCHANGED <<users, schema>>

AdminAccount(i) == [password |-> config[i].password, role |-> "admin"]

\* HashPassword succeeds.
Hashes(password) == password \notin Unhashable

\* Mutant of CreateAdmin: the role is left to the column's default.
CreateAdminAsUser(i) ==
    LET account == [password |-> config[i].password, role |-> "user"]
    IN  /\ stage[i] = "create"
        /\ \/ ~Hashes(account.password) /\ Become(i, "failed") /\ UNCHANGED users
           \/ /\ Hashes(account.password)
              /\ \/ Insert(AdminName, account) /\ Become(i, "serving")
                 \/ InsertFails(AdminName, account) /\ Become(i, "failed")
        /\ UNCHANGED schema

\* The hash of ADMIN_PASSWORD, whose length nothing has looked at, and the INSERT.
CreateAdmin(i) ==
    /\ stage[i] = "create"
    /\ \/ ~Hashes(config[i].password) /\ Become(i, "failed") /\ UNCHANGED users
       \/ /\ Hashes(config[i].password)
          /\ \/ Insert(AdminName, AdminAccount(i)) /\ Become(i, "serving")
             \/ InsertFails(AdminName, AdminAccount(i)) /\ Become(i, "failed")
    /\ UNCHANGED schema

\* The instance dies, or its listener fails or is shut down, and the handlers that
\* run in it go with it; Postgres frees the lock of a lost connection. The exit of
\* a start that failed is none of these.
Crash(i) ==
    /\ "crash" \in Faults
    /\ stage[i] \notin {"down", "failed"}
    /\ stage' = [stage EXCEPT ![i] = "down"]
    /\ pc' = [r \in Requests |->
           IF via[r] = i /\ pc[r] \notin {"idle", "done"} THEN "killed" ELSE pc[r]]
    /\ UNCHANGED <<users, schema, config, tokens, call, via, reply, owed>>

-----------------------------------------------------------------------------
(* The handlers *)

Goto(r, label) ==
    /\ pc' = [pc EXCEPT ![r] = label]
    /\ UNCHANGED reply

Answer(r, code) ==
    /\ pc' = [pc EXCEPT ![r] = "done"]
    /\ reply' = [reply EXCEPT ![r] = code]

Arrive(r, i, c) ==
    /\ pc[r] = "idle"
    /\ stage[i] = "serving"
    /\ call' = [call EXCEPT ![r] = c]
    /\ via' = [via EXCEPT ![r] = i]

Valid(name, password) ==
    Found(name) /\ users[name].password = password

\* A body that does not parse, or lacks one of the two, is refused at once.
ReceiveLogin(r, i, c) ==
    /\ Arrive(r, i, c)
    /\ \/ /\ Goto(r, "check")
          /\ owed' = IF Valid(c.name, c.password) THEN owed \cup {r} ELSE owed
       \/ /\ Answer(r, 400)
          /\ UNCHANGED owed
    /\ UNCHANGED <<users, instances, tokens>>

\* GetUserByUsername and CheckPassword, whose errors are all answered with 401, and
\* Generate, which signs with HMAC and a key of bytes: that does not fail.
CheckLogin(r) ==
    /\ pc[r] = "check"
    /\ \/ /\ Valid(call[r].name, call[r].password)
          /\ tokens' = tokens \cup {call[r].name}
          /\ Answer(r, 200)
       \/ /\ ~Valid(call[r].name, call[r].password) \/ "db" \in Faults
          /\ Answer(r, 401)
          /\ UNCHANGED tokens
    /\ UNCHANGED <<users, instances, call, via, owed>>

\* RequireAuth and RequireAdmin: the token carries the role of its account at
\* the time of the login, which is its role still: nothing updates a row.
MayRegister(n) == n \in tokens /\ users[n].role = "admin"

\* The router's middleware and the checks of the body come before any query.
ReceiveRegister(r, i, c) ==
    /\ Arrive(r, i, c)
    /\ \/ c.auth \notin tokens /\ Answer(r, 401)
       \/ c.auth \in tokens /\ ~MayRegister(c.auth) /\ Answer(r, 403)
       \/ MayRegister(c.auth) /\ (Goto(r, "lookup") \/ Answer(r, 400))
    /\ UNCHANGED <<users, instances, tokens, owed>>

\* Mutant of LookupName: an unknown name is what is refused.
LookupNameInverted(r) ==
    LET c == call[r]
    IN  /\ pc[r] = "lookup"
        /\ \/ users[c.name] = Nil /\ Answer(r, 404)
           \/ users[c.name] # Nil /\ Goto(r, "insert")
        /\ UNCHANGED <<users, instances, tokens, call, via, owed>>

\* "Reject duplicate usernames with a clear 409.", then the hash.
LookupName(r) ==
    LET c == call[r]
    IN  /\ pc[r] = "lookup"
        /\ \/ Found(c.name) /\ Answer(r, 409)
           \/ ~Found(c.name) /\ ~Hashes(c.password) /\ Answer(r, 500)
           \/ ~Found(c.name) /\ Hashes(c.password) /\ Goto(r, "insert")
           \/ "db" \in Faults /\ Answer(r, 500)
        /\ UNCHANGED <<users, instances, tokens, call, via, owed>>

CreateUser(r) ==
    LET c == call[r]
        account == [password |-> c.password, role |-> c.role]
    IN  /\ pc[r] = "insert"
        /\ \/ Insert(c.name, account) /\ Answer(r, 201)
           \/ InsertFails(c.name, account) /\ Answer(r, 500)
        /\ UNCHANGED <<instances, tokens, call, via, owed>>

-----------------------------------------------------------------------------
Migrate(i) ==
    \/ LockSchema(i)
    \/ MarkDirty(i)
    \/ ExecuteMigration(i)
    \/ MarkClean(i)
    \/ UnlockSchema(i)

Seed(i) ==
    \/ CountUsers(i)
    \/ LookupAdmin(i)
    \/ CreateAdmin(i)

Run(i) == Start(i) \/ Migrate(i) \/ OpenStores(i) \/ Seed(i)

Receive(r) ==
    \E i \in Instances :
        \/ \E c \in Login : ReceiveLogin(r, i, c)
        \/ \E c \in Register : ReceiveRegister(r, i, c)

Handle(r) == CheckLogin(r) \/ LookupName(r) \/ CreateUser(r)

Next ==
    \/ \E i \in Instances : Run(i) \/ Crash(i)
    \/ \E r \in Requests : Receive(r) \/ Handle(r)

Spec == Init /\ [][Next]_vars

\* A started process runs on, Kubernetes restarts one that exited, and Postgres
\* grants the lock in the order of the waiting, so that nobody is passed over for ever.
FairSpec ==
    /\ Spec
    /\ \A i \in Instances :
           /\ WF_vars(Run(i))
           /\ SF_vars(LockSchema(i) /\ stage'[i] # "failed")

-----------------------------------------------------------------------------
(* What the accounts promise. *)

\* Whenever an instance serves, or any account exists at all, there is an admin
\* with the credentials that one of the instances is configured with: no order of
\* seeding, failing, crashing, losing replies and registering locks everybody out.
AdminExists ==
    (\E i \in Instances : stage[i] = "serving") \/ AnyUsers
        => \E i \in Instances :
               Hashes(config[i].password) /\ users[AdminName] = AdminAccount(i)

\* What an instance serves has the whole schema, whoever migrated it and whatever
\* became of those who tried.
MigratedFirst ==
    \A i \in Instances :
        stage[i] \in {"open", "count", "lookup", "create", "serving"} =>
            applied = Migrations /\ ~dirty

\* "RunMigrations ... is safe to call on every startup; if the schema is already
\* current it is a no-op" (internal/db/pool.go). It is not once the process has died,
\* or a statement has failed, between the last migration and its being marked clean.
CurrentIsNoOp ==
    applied = Migrations /\ LockFree => ~dirty

\* A 201 is a promise: the account exists with the password and role that were
\* asked for, also when several requests want the same name.
RegisteredAsAsked ==
    \A r \in Requests :
        reply[r] = 201 =>
            users[call[r].name] = [password |-> call[r].password, role |-> call[r].role]

\* Accounts besides the bootstrap admin were asked for by an admin.
AdminsRegister ==
    \A n \in Names \ {AdminName} :
        users[n] # Nil =>
            \E r \in Requests :
                /\ call[r] # Nil /\ call[r].op = "register" /\ call[r].name = n
                /\ users[call[r].auth] # Nil /\ users[call[r].auth].role = "admin"

\* Credentials that are valid when a login arrives are not refused: nothing
\* takes them away while the request is on its way.
ValidLoginAccepted ==
    \A r \in owed : reply[r] \in {0, 200}

\* What no restart helps against: a configuration that does not parse, a schema left
\* dirty, and a password that cannot be hashed while nobody else has seeded.
Stuck(i) ==
    \/ ~config[i].parses
    \/ LockFree /\ dirty
    \/ ~Hashes(config[i].password) /\ ~AnyUsers

\* The code gives up for a reason of its own: somebody else has seeded, or the
\* instance is stuck.
GivesUp(i) ==
    \/ stage[i] = "create" /\ Found(AdminName)
    \/ Stuck(i)

\* A fault strikes instance i: it dies, or it exits although it could go on or wait.
Struck(i) ==
    \/ Crash(i)
    \/ stage[i] # "failed" /\ stage'[i] = "failed" /\ ~GivesUp(i)

\* Every instance serves in the end, once no fault strikes it any more, unless it is
\* stuck: one that has to wait for the lock, or loses the race to seed, exits and is
\* started again, finds what the other has done, whatever becomes of that one.
EventuallyServing ==
    \A i \in Instances : <>[][~Struck(i)]_vars => <>[](stage[i] = "serving" \/ Stuck(i))
=============================================================================
