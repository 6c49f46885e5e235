--------------------------- MODULE AccountsProofs ---------------------------
(* Theorems about Accounts, for any number of instances, requests and names. *)
EXTENDS Accounts, TLAPS

\* The row of the admin is the one that an instance has seeded.
AdminSeeded ==
    \E i \in Instances :
        Hashes(config[i].password) /\ users[AdminName] = AdminAccount(i)

\* Who holds the lock of the migrations knows the state of the schema, and a schema
\* that is not marked dirty is the one that its version says.
SchemaKnown ==
    /\ ~dirty => applied = version
    /\ \A i \in Instances :
           /\ stage[i] = "locked" => ~dirty
           /\ stage[i] = "executed" => applied = version
           /\ stage[i] \in {"open", "count", "lookup", "create", "serving"} =>
                  version = Migrations /\ ~dirty
           /\ \A j \in Instances \ {i} :
                  stage[i] \in Migrating => stage[j] \notin Migrating

\* Nobody gets as far as a handler before the admin is there, and whoever is on
\* the way to an INSERT came with the token of an admin.
HandlerKnows(r) ==
    /\ pc[r] = "idle" => reply[r] = 0 /\ call[r] = Nil
    /\ reply[r] # 0 => pc[r] = "done"
    /\ reply[r] = 201 => call[r] \in Register
    /\ pc[r] # "idle" => call[r] # Nil /\ AdminSeeded
    /\ pc[r] = "check" => call[r] \in Login
    /\ pc[r] \in {"lookup", "insert"} =>
           /\ call[r] \in Register
           /\ users[call[r].auth] # Nil /\ users[call[r].auth].role = "admin"

HandlersKnow == \A r \in Requests : HandlerKnows(r)

\* A login that is owed its token waits for the check and will pass it.
LoginsPass ==
    \A r \in owed :
        /\ reply[r] \in {0, 200}
        /\ pc[r] \in {"check", "done", "killed"}
        /\ pc[r] = "check" => Valid(call[r].name, call[r].password)

\* The inductive invariant: AdminsRegister and RegisteredAsAsked rest on what the
\* handlers know, and that on AdminExists.
IInv ==
    /\ TypeOK
    /\ SchemaKnown
    /\ \A n \in tokens : users[n] # Nil
    /\ HandlersKnow
    /\ AdminExists
    /\ RegisteredAsAsked
    /\ AdminsRegister
    /\ "db" \notin Faults => LoginsPass

LEMMA InitInv == Init => IInv
<1> SUFFICES ASSUME Init
             PROVE  IInv
  OBVIOUS
<1>1. TypeOK
  <2>1. dirty \in BOOLEAN
    BY Zenon DEF Init
  <2> QED
    BY <2>1, ConfigAssumption DEF Init, TypeOK, Stages, Codes
<1>2. SchemaKnown
  BY DEF Init, SchemaKnown, Migrating
<1>3. HandlersKnow /\ RegisteredAsAsked /\ LoginsPass
  BY DEF Init, HandlersKnow, HandlerKnows, RegisteredAsAsked, LoginsPass
<1>4. AdminExists /\ AdminsRegister
  BY DEF Init, AdminExists, AnyUsers, AdminsRegister
<1> QED
  BY <1>1, <1>2, <1>3, <1>4 DEF Init, IInv

-----------------------------------------------------------------------------
\* What a step of run() does besides moving on: it serves when it has seen an account,
\* or inserted one, and that is the admin's.
LEMMA RunStep ==
  ASSUME TypeOK, NEW i \in Instances, Run(i)
  PROVE  /\ UNCHANGED <<config, requests>>
         /\ \E s \in Stages : stage' = [stage EXCEPT ![i] = s]
         /\ \/ UNCHANGED users /\ (stage'[i] = "serving" => AnyUsers)
            \/ Hashes(config[i].password) /\ Insert(AdminName, AdminAccount(i))
<1> USE DEF TypeOK, Become, Stages, Migrating
<1>1. CASE Start(i)
  BY <1>1 DEF Start
<1>2. CASE Migrate(i)
  BY <1>2
  DEF Migrate, LockSchema, MarkDirty, ExecuteMigration, MarkClean, UnlockSchema, Reach,
      StatementFails
<1>3. CASE OpenStores(i)
  BY <1>3 DEF OpenStores, StatementFails
<1>4. CASE CountUsers(i) \/ LookupAdmin(i)
  BY <1>4, AdminAssumption
  DEF CountUsers, LookupAdmin, StatementFails, AnyUsers, Found
<1>5. CASE CreateAdmin(i)
  BY <1>5 DEF CreateAdmin, InsertFails
<1> QED
  BY <1>1, <1>2, <1>3, <1>4, <1>5 DEF Run, Seed

\* Handlers leave the instances alone.
LEMMA RequestStep ==
  ASSUME NEW r \in Requests, Receive(r) \/ Handle(r)
  PROVE  UNCHANGED instances
  BY DEF Receive, ReceiveLogin, ReceiveRegister, Handle, CheckLogin, LookupName, CreateUser

\* The environment of an instance is the same after a restart.
LEMMA ConfigStays ==
  ASSUME TypeOK, [Next]_vars
  PROVE  config' = config
  BY RunStep, RequestStep DEF Next, Crash, vars, instances

\* No statement changes a row that is there.
LEMMA RowsStay ==
  ASSUME TypeOK, [Next]_vars, NEW n \in Names, users[n] # Nil
  PROVE  users'[n] = users[n]
<1> USE DEF TypeOK, Insert, InsertFails
<1>1. CASE UNCHANGED vars
  BY <1>1 DEF vars
<1>2. ASSUME NEW i \in Instances, Run(i) \/ Crash(i)
      PROVE  users'[n] = users[n]
  BY <1>2, RunStep DEF Crash
<1>3. ASSUME NEW r \in Requests, Receive(r)
      PROVE  users'[n] = users[n]
  BY <1>3 DEF Receive, ReceiveLogin, ReceiveRegister
<1>4. ASSUME NEW r \in Requests, Handle(r)
      PROVE  users'[n] = users[n]
  BY <1>4 DEF Handle, CheckLogin, LookupName, CreateUser
<1> QED
  BY <1>1, <1>2, <1>3, <1>4 DEF Next

\* The statements keep the type of the table.
LEMMA TableStep ==
  ASSUME TypeOK, NEW n \in Names, NEW a \in Account,
         Insert(n, a) \/ InsertFails(n, a)
  PROVE  users' \in [Names -> Account \cup {Nil}]
  BY DEF TypeOK, Insert, InsertFails

LEMMA TypeStep ==
  ASSUME IInv, [Next]_vars
  PROVE  TypeOK'
<1> USE DEF TypeOK, Stages, Codes
<1>1. CASE UNCHANGED vars
  BY <1>1 DEF IInv, vars, instances, schema, requests
<1>2. ASSUME NEW i \in Instances, Run(i)
      PROVE  TypeOK'
  <2>1. AdminAccount(i) \in Account
    BY ConfigAssumption DEF IInv, Account, Roles, AdminAccount, Config
  <2>2. users' \in [Names -> Account \cup {Nil}]
    BY <1>2, <2>1, RunStep, TableStep, AdminAssumption DEF IInv
  <2>3. version' \in 0..Migrations /\ applied' \in 0..Migrations
    <3>1. CASE Migrate(i)
      BY <3>1, ConfigAssumption
      DEF IInv, Migrate, LockSchema, MarkDirty, ExecuteMigration, MarkClean, UnlockSchema,
          schema
    <3>2. CASE Start(i) \/ OpenStores(i) \/ Seed(i)
      BY <3>2 DEF IInv, Start, OpenStores, Seed, CountUsers, LookupAdmin, CreateAdmin, schema
    <3> QED
      BY <1>2, <3>1, <3>2 DEF Run
  <2>4. dirty' \in BOOLEAN
    <3>1. dirty' = dirty \/ dirty' = TRUE \/ dirty' = FALSE
      BY <1>2, Zenon
      DEF Run, Start, Migrate, LockSchema, MarkDirty, ExecuteMigration, MarkClean,
          UnlockSchema, OpenStores, Seed, CountUsers, LookupAdmin, CreateAdmin, schema
    <3> QED
      BY <3>1, Zenon DEF IInv
  <2>5. /\ stage' \in [Instances -> Stages]
        /\ UNCHANGED <<config, requests>>
    BY <1>2, RunStep DEF IInv
  <2> QED
    BY <2>2, <2>3, <2>4, <2>5 DEF IInv, requests
<1>3. ASSUME NEW i \in Instances, Crash(i)
      PROVE  TypeOK'
  BY <1>3 DEF IInv, Crash, schema, Migrating
<1>4. ASSUME NEW r \in Requests, NEW i \in Instances, NEW c \in Login, ReceiveLogin(r, i, c)
      PROVE  TypeOK'
  BY <1>4 DEF IInv, ReceiveLogin, Arrive, Goto, Answer, instances, schema
<1>5. ASSUME NEW r \in Requests, NEW i \in Instances, NEW c \in Register,
             ReceiveRegister(r, i, c)
      PROVE  TypeOK'
  BY <1>5 DEF IInv, ReceiveRegister, Arrive, Goto, Answer, instances, schema
<1>6. ASSUME NEW r \in Requests, CheckLogin(r)
      PROVE  TypeOK'
  <2>1. call[r].name \in Names
    BY <1>6 DEF IInv, HandlersKnow, HandlerKnows, CheckLogin, Login
  <2> QED
    BY <1>6, <2>1 DEF IInv, CheckLogin, Answer, instances, schema
<1>7. ASSUME NEW r \in Requests, LookupName(r)
      PROVE  TypeOK'
  BY <1>7 DEF IInv, LookupName, Goto, Answer, instances, schema
<1>8. ASSUME NEW r \in Requests, CreateUser(r)
      PROVE  TypeOK'
  <2>1. call[r] \in Register
    BY <1>8 DEF IInv, HandlersKnow, HandlerKnows, CreateUser
  <2>2. [password |-> call[r].password, role |-> call[r].role] \in Account
        /\ call[r].name \in Names
    BY <2>1 DEF Register, Account
  <2>3. users' \in [Names -> Account \cup {Nil}]
    BY <1>8, <2>2, TableStep DEF IInv, CreateUser
  <2> QED
    BY <1>8, <2>3 DEF IInv, CreateUser, Answer, instances, schema
<1> QED
  BY <1>1, <1>2, <1>3, <1>4, <1>5, <1>6, <1>7, <1>8 DEF Next, Receive, Handle

-----------------------------------------------------------------------------
\* Only the holder of the lock writes to the schema, and lets go of it at the end of
\* the last migration, when it is marked clean.
LEMMA SchemaStep ==
  ASSUME IInv, [Next]_vars
  PROVE  SchemaKnown'
<1> USE ConfigAssumption DEF TypeOK, SchemaKnown, Stages, Migrating, schema
<1>0. TypeOK /\ SchemaKnown
  BY DEF IInv
<1>1. CASE UNCHANGED instances
  BY <1>0, <1>1 DEF instances
<1>2. ASSUME NEW i \in Instances, Crash(i)
      PROVE  SchemaKnown'
  BY <1>0, <1>2 DEF Crash
<1>3. ASSUME NEW i \in Instances, Run(i)
      PROVE  SchemaKnown'
  <2> USE DEF Become, Reach, StatementFails
  <2>1. CASE Start(i) \/ OpenStores(i) \/ Seed(i)
    BY <1>0, <2>1 DEF Start, OpenStores, Seed, CountUsers, LookupAdmin, CreateAdmin
  <2>2. CASE LockSchema(i)
    BY <1>0, <2>2 DEF LockSchema, LockFree
  <2>3. CASE MarkDirty(i)
    BY <1>0, <2>3 DEF MarkDirty
  <2>4. CASE ExecuteMigration(i)
    BY <1>0, <2>4 DEF ExecuteMigration
  <2>5. CASE MarkClean(i)
    BY <1>0, <2>5 DEF MarkClean
  <2>6. CASE UnlockSchema(i)
    BY <1>0, <2>6 DEF UnlockSchema
  <2> QED
    BY <1>3, <2>1, <2>2, <2>3, <2>4, <2>5, <2>6 DEF Run, Migrate
<1> QED
  BY <1>1, <1>2, <1>3, RequestStep DEF Next, vars

-----------------------------------------------------------------------------
\* Tokens are given for accounts that are there, and these stay.
LEMMA TokenStep ==
  ASSUME IInv, [Next]_vars
  PROVE  \A n \in tokens' : users'[n] # Nil
<1>1. \A n \in tokens : n \in Names /\ users[n] # Nil /\ users'[n] = users[n]
  BY RowsStay DEF IInv, TypeOK
<1>2. ASSUME NEW n \in tokens' \ tokens
      PROVE  users[n] # Nil /\ n \in Names
  <2>1. PICK r \in Requests : CheckLogin(r)
    BY <1>2, RunStep
    DEF IInv, Next, requests, Crash, Receive, ReceiveLogin, ReceiveRegister, Handle,
        LookupName, CreateUser, vars
  <2>2. n = call[r].name /\ Valid(call[r].name, call[r].password)
    BY <1>2, <2>1 DEF CheckLogin
  <2>3. call[r] \in Login
    BY <2>1 DEF CheckLogin, IInv, HandlersKnow, HandlerKnows
  <2> QED
    BY <2>2, <2>3 DEF Valid, Found, Login
<1> QED
  BY <1>1, <1>2, RowsStay DEF IInv

\* A serving instance, an account and a handler all mean that the admin is
\* there.
LEMMA AdminIsThere ==
  ASSUME IInv,
         \/ \E i \in Instances : stage[i] = "serving"
         \/ \E n \in Names : users[n] # Nil
         \/ \E r \in Requests : pc[r] # "idle"
  PROVE  AdminSeeded /\ users[AdminName] # Nil
<1>1. AdminSeeded
  BY DEF IInv, AdminExists, AnyUsers, HandlersKnow, HandlerKnows, AdminSeeded
<1>2. \A i \in Instances : AdminAccount(i) \in Account
  <2>1. \A i \in Instances : config[i] \in Config
    BY ConfigAssumption DEF IInv, TypeOK
  <2> QED
    BY <2>1 DEF Config, Account, Roles, AdminAccount
<1>3. users[AdminName] # Nil
  BY <1>1, <1>2, NilAssumption DEF AdminSeeded
<1> QED
  BY <1>1, <1>3

\* The admin's row stays, and so does what makes it one.
LEMMA SeededStays ==
  ASSUME TypeOK, [Next]_vars, AdminSeeded, users[AdminName] # Nil
  PROVE  AdminSeeded'
  BY RowsStay, ConfigStays, AdminAssumption DEF AdminSeeded, AdminAccount

\* What a handler has learnt stays true, for rows stay as they are.
LEMMA KnownStays ==
  ASSUME IInv, [Next]_vars, NEW r \in Requests,
         call'[r] = call[r], reply'[r] = reply[r],
         \/ pc'[r] = pc[r]
         \/ pc[r] \notin {"idle", "done"} /\ pc'[r] = "killed"
  PROVE  HandlerKnows(r)'
<1> USE DEF HandlerKnows
<1>1. HandlerKnows(r) /\ TypeOK
  BY DEF IInv, HandlersKnow
<1>2. pc[r] # "idle" => AdminSeeded'
  BY AdminIsThere, SeededStays, <1>1
<1>3. CASE pc[r] \in {"lookup", "insert"}
  <2>1. call[r].auth \in Names
    BY <1>1, <1>3 DEF Register
  <2>2. users'[call[r].auth] = users[call[r].auth]
    BY <1>1, <1>3, <2>1, RowsStay
  <2> QED
    BY <1>1, <1>2, <1>3, <2>2
<1>4. CASE pc[r] \notin {"lookup", "insert"}
  BY <1>1, <1>2, <1>4
<1> QED
  BY <1>3, <1>4

LEMMA KnowStep ==
  ASSUME IInv, [Next]_vars
  PROVE  HandlersKnow'
<1> SUFFICES ASSUME NEW r \in Requests
             PROVE  HandlerKnows(r)'
  BY DEF HandlersKnow
<1> USE DEF TypeOK
<1>0. TypeOK /\ HandlerKnows(r) /\ (pc[r] # "idle" => AdminSeeded')
  BY AdminIsThere, SeededStays DEF IInv, HandlersKnow
<1>1. CASE UNCHANGED <<pc, call, reply>>
  BY <1>1, KnownStays
<1>2. ASSUME NEW i \in Instances, Crash(i)
      PROVE  HandlerKnows(r)'
  BY <1>0, <1>2, KnownStays DEF Crash
<1>3. ASSUME NEW s \in Requests, s # r, Receive(s) \/ Handle(s)
      PROVE  HandlerKnows(r)'
  BY <1>0, <1>3, KnownStays
  DEF Receive, ReceiveLogin, ReceiveRegister, Arrive, Goto, Answer, Handle, CheckLogin,
      LookupName, CreateUser
<1>4. ASSUME NEW i \in Instances, NEW c \in Login, ReceiveLogin(r, i, c)
      PROVE  HandlerKnows(r)'
  <2>1. AdminSeeded'
    BY <1>0, <1>4, AdminIsThere, SeededStays DEF ReceiveLogin, Arrive
  <2> QED
    BY <1>0, <1>4, <2>1, NilAssumption DEF ReceiveLogin, Arrive, Goto, Answer, HandlerKnows
<1>5. ASSUME NEW i \in Instances, NEW c \in Register, ReceiveRegister(r, i, c)
      PROVE  HandlerKnows(r)'
  <2>1. AdminSeeded'
    BY <1>0, <1>5, AdminIsThere, SeededStays DEF ReceiveRegister, Arrive
  <2>2. c.auth \in tokens => users[c.auth] # Nil
    BY DEF IInv
  <2> QED
    BY <1>0, <1>5, <2>1, <2>2, NilAssumption
    DEF ReceiveRegister, MayRegister, Arrive, Goto, Answer, HandlerKnows
<1>6. CASE CheckLogin(r)
  BY <1>0, <1>6 DEF CheckLogin, Answer, HandlerKnows
<1>7. CASE LookupName(r)
  BY <1>0, <1>7 DEF LookupName, Goto, Answer, HandlerKnows
<1>8. CASE CreateUser(r)
  BY <1>0, <1>8 DEF CreateUser, Answer, HandlerKnows
<1>9. ASSUME NEW i \in Instances, Run(i)
      PROVE  HandlerKnows(r)'
  BY <1>0, <1>1, <1>9, RunStep DEF requests
<1> QED
  BY <1>1, <1>2, <1>3, <1>4, <1>5, <1>6, <1>7, <1>8, <1>9
  DEF Next, Receive, Handle, vars, requests

-----------------------------------------------------------------------------
\* The first row is the admin's: every other INSERT is a handler's.
LEMMA AdminStep ==
  ASSUME IInv, [Next]_vars
  PROVE  AdminExists'
<1> USE AdminAssumption DEF TypeOK
<1>0. TypeOK
  BY DEF IInv
<1>1. CASE users[AdminName] # Nil
  BY <1>0, <1>1, AdminIsThere, SeededStays DEF AdminExists, AdminSeeded
<1>2. CASE users[AdminName] = Nil
  <2>1. /\ \A n \in Names : users[n] = Nil
        /\ \A i \in Instances : stage[i] # "serving"
        /\ \A r \in Requests : pc[r] = "idle"
    BY <1>2, AdminIsThere
  <2>2. ASSUME NEW i \in Instances, Run(i)
        PROVE  AdminExists'
    <3>1. CASE UNCHANGED users /\ (stage'[i] = "serving" => AnyUsers)
      BY <1>0, <2>1, <2>2, <3>1, RunStep DEF AdminExists, AnyUsers
    <3>2. CASE Hashes(config[i].password) /\ Insert(AdminName, AdminAccount(i))
      BY <1>0, <2>2, <3>2, RunStep DEF AdminExists, AdminAccount, Insert, Hashes
    <3> QED
      BY <1>0, <2>2, <3>1, <3>2, RunStep
  <2>3. ASSUME NEW i \in Instances, Crash(i)
        PROVE  AdminExists'
    BY <1>0, <2>1, <2>3 DEF AdminExists, AnyUsers, Crash
  <2>4. ASSUME NEW r \in Requests, Receive(r) \/ Handle(r)
        PROVE  FALSE
    BY <2>1, <2>4 DEF Receive, ReceiveLogin, ReceiveRegister, Arrive, Handle, CheckLogin,
       LookupName, CreateUser
  <2>5. CASE UNCHANGED vars
    BY <2>1, <2>5 DEF AdminExists, AnyUsers, vars, instances
  <2> QED
    BY <2>2, <2>3, <2>4, <2>5 DEF Next
<1> QED
  BY <1>1, <1>2

\* A request that has arrived asks the same for ever, for the same status once
\* it has been answered.
LEMMA CallStays ==
  ASSUME IInv, [Next]_vars, NEW r \in Requests, pc[r] # "idle"
  PROVE  call'[r] = call[r] /\ (pc[r] = "done" => reply'[r] = reply[r])
<1> USE DEF TypeOK
<1>0. TypeOK
  BY DEF IInv
<1>1. ASSUME NEW i \in Instances, Run(i) \/ Crash(i)
      PROVE  call' = call /\ reply' = reply
  BY <1>0, <1>1, RunStep DEF requests, Crash
<1>2. ASSUME NEW s \in Requests, Receive(s)
      PROVE  call'[r] = call[r] /\ (pc[r] = "done" => reply'[r] = reply[r])
  BY <1>0, <1>2
  DEF Receive, ReceiveLogin, ReceiveRegister, Arrive, Goto, Answer
<1>3. ASSUME NEW s \in Requests, Handle(s)
      PROVE  call'[r] = call[r] /\ (pc[r] = "done" => reply'[r] = reply[r])
  BY <1>0, <1>3 DEF Handle, CheckLogin, LookupName, CreateUser, Goto, Answer
<1> QED
  BY <1>1, <1>2, <1>3 DEF Next, vars, requests

\* The 201 is sent by the INSERT itself.
LEMMA RegisteredStep ==
  ASSUME IInv, [Next]_vars
  PROVE  RegisteredAsAsked'
<1> SUFFICES ASSUME NEW r \in Requests, reply'[r] = 201
             PROVE  users'[call'[r].name] =
                        [password |-> call'[r].password, role |-> call'[r].role]
  BY DEF RegisteredAsAsked
<1> USE DEF TypeOK
<1>0. TypeOK /\ HandlerKnows(r)
  BY DEF IInv, HandlersKnow
<1>1. CASE reply[r] = 201
  <2>1. pc[r] = "done" /\ call[r] \in Register
    BY <1>0, <1>1 DEF HandlerKnows
  <2>2. call'[r] = call[r]
    BY <2>1, CallStays
  <2>3. /\ call[r].name \in Names
        /\ [password |-> call[r].password, role |-> call[r].role] \in Account
    BY <2>1 DEF Register, Account
  <2>4. users[call[r].name] = [password |-> call[r].password, role |-> call[r].role]
    BY <1>1 DEF IInv, RegisteredAsAsked
  <2>5. users[call[r].name] # Nil
    BY <2>3, <2>4, NilAssumption
  <2> QED
    BY <1>0, <2>2, <2>3, <2>4, <2>5, RowsStay
<1>2. CASE reply[r] # 201
  <2>1. ASSUME NEW i \in Instances, Run(i) \/ Crash(i)
        PROVE  FALSE
    BY <1>0, <1>2, <2>1, RunStep DEF requests, Crash
  <2>2. ASSUME NEW s \in Requests, Receive(s)
        PROVE  FALSE
    BY <1>0, <1>2, <2>2
    DEF Receive, ReceiveLogin, ReceiveRegister, Arrive, Goto, Answer
  <2>3. ASSUME NEW s \in Requests, CheckLogin(s) \/ LookupName(s)
        PROVE  FALSE
    BY <1>0, <1>2, <2>3 DEF CheckLogin, LookupName, Goto, Answer
  <2>4. PICK s \in Requests : CreateUser(s)
    BY <1>2, <2>1, <2>2, <2>3 DEF Next, Handle, vars, requests
  <2>5. s = r
    BY <1>0, <1>2, <2>4 DEF CreateUser, Answer
  <2>6. /\ Insert(call[r].name, [password |-> call[r].password, role |-> call[r].role])
        /\ call' = call
    BY <1>0, <2>4, <2>5 DEF CreateUser, Answer
  <2>7. call[r] \in Register
    BY <1>0, <2>4, <2>5 DEF CreateUser, HandlerKnows
  <2>8. call[r].name \in Names
    BY <2>7 DEF Register
  <2> QED
    BY <1>0, <2>6, <2>8 DEF Insert
<1> QED
  BY <1>1, <1>2

\* A row is inserted by a handler whose caller is an admin, or is the first
\* admin's; it is no other statement's.
LEMMA AdminsRegisterStep ==
  ASSUME IInv, [Next]_vars
  PROVE  AdminsRegister'
<1> DEFINE Asked(r, n) ==
             /\ call[r] # Nil /\ call[r].op = "register" /\ call[r].name = n
             /\ users[call[r].auth] # Nil /\ users[call[r].auth].role = "admin"
<1> SUFFICES ASSUME NEW n \in Names \ {AdminName}, users'[n] # Nil
             PROVE  \E r \in Requests : Asked(r, n)'
  BY DEF AdminsRegister
<1> USE DEF TypeOK
<1>0. TypeOK /\ HandlersKnow
  BY DEF IInv
<1>1. ASSUME NEW r \in Requests, Asked(r, n)
      PROVE  Asked(r, n)'
  <2>1. pc[r] # "idle"
    BY <1>0, <1>1 DEF IInv, HandlersKnow, HandlerKnows
  <2>2. call'[r] = call[r]
    BY <2>1, CallStays
  <2>3. call[r].auth \in Names
    BY <1>0, <1>1 DEF Login, Register
  <2>4. users'[call[r].auth] = users[call[r].auth]
    BY <1>0, <1>1, <2>3, RowsStay
  <2> QED
    BY <1>1, <2>2, <2>4
<1>2. CASE users[n] # Nil
  BY <1>1, <1>2 DEF IInv, AdminsRegister
<1>3. CASE users[n] = Nil
  <2>1. ASSUME NEW i \in Instances, Run(i) \/ Crash(i)
        PROVE  FALSE
    BY <1>0, <1>3, <2>1, RunStep, AdminAssumption DEF Crash, Insert
  <2>2. ASSUME NEW r \in Requests, Receive(r) \/ CheckLogin(r) \/ LookupName(r)
        PROVE  FALSE
    BY <1>3, <2>2 DEF Receive, ReceiveLogin, ReceiveRegister, CheckLogin, LookupName
  <2>3. PICK r \in Requests : CreateUser(r)
    BY <1>3, <2>1, <2>2 DEF Next, Handle, vars
  <2>4. /\ call[r] \in Register
        /\ users[call[r].auth] # Nil /\ users[call[r].auth].role = "admin"
        /\ call[r] # Nil
    BY <1>0, <2>3 DEF CreateUser, HandlersKnow, HandlerKnows
  <2>5. call[r].name = n
    BY <1>0, <1>3, <2>3, <2>4 DEF CreateUser, Insert, InsertFails, Register
  <2>6. Asked(r, n)
    BY <2>4, <2>5 DEF Register
  <2> QED
    BY <1>1, <2>6
<1> QED
  BY <1>2, <1>3

\* What makes a login valid stays, so the check finds what the arrival found.
LEMMA LoginsStep ==
  ASSUME IInv, [Next]_vars, "db" \notin Faults
  PROVE  LoginsPass'
<1> DEFINE Passes(r) ==
             /\ reply[r] \in {0, 200}
             /\ pc[r] \in {"check", "done", "killed"}
             /\ pc[r] = "check" => Valid(call[r].name, call[r].password)
<1> SUFFICES ASSUME NEW r \in owed'
             PROVE  Passes(r)'
  BY DEF LoginsPass
<1> USE DEF TypeOK
<1>0. TypeOK /\ HandlersKnow /\ LoginsPass
  BY DEF IInv
<1>1. r \in Requests
  BY TypeStep
<1>2. ASSUME NEW n \in Names, NEW p \in Passwords, Valid(n, p)
      PROVE  Valid(n, p)'
  BY <1>0, <1>2, RowsStay DEF Valid, Found
<1>3. CASE r \notin owed
  <2>1. PICK i \in Instances, c \in Login :
            ReceiveLogin(r, i, c) /\ Valid(c.name, c.password)
    BY <1>0, <1>3, RunStep
    DEF Next, requests, Crash, Receive, ReceiveLogin, ReceiveRegister, Handle, CheckLogin,
        LookupName, CreateUser, vars
  <2>2. pc'[r] = "check" /\ call'[r] = c /\ reply'[r] = 0
    BY <1>0, <1>1, <1>3, <2>1 DEF ReceiveLogin, Arrive, Goto, HandlersKnow, HandlerKnows
  <2>3. Valid(c.name, c.password)'
    BY <1>2, <2>1 DEF Login
  <2> QED
    BY <2>2, <2>3 DEF Valid, Found
<1>4. CASE r \in owed
  <2>1. Passes(r) /\ HandlerKnows(r)
    BY <1>0, <1>1, <1>4 DEF LoginsPass, HandlersKnow
  <2>2. call'[r] = call[r]
    BY <1>1, <2>1, CallStays
  <2>3. pc[r] = "check" => Valid(call[r].name, call[r].password)'
    <3>1. pc[r] = "check" => call[r].name \in Names /\ call[r].password \in Passwords
      BY <2>1 DEF HandlerKnows, Login
    <3> QED
      BY <1>2, <2>1, <2>2, <3>1 DEF Valid, Found
  <2>4. ASSUME NEW i \in Instances, Run(i) \/ Crash(i)
        PROVE  pc'[r] \in {pc[r], "killed"} /\ reply'[r] = reply[r]
    BY <1>0, <1>1, <2>4, RunStep DEF requests, Crash
  <2>5. ASSUME NEW s \in Requests, Receive(s) \/ Handle(s), s # r
        PROVE  pc'[r] = pc[r] /\ reply'[r] = reply[r]
    BY <1>0, <1>1, <2>5
    DEF Receive, ReceiveLogin, ReceiveRegister, Arrive, Goto, Answer, Handle, CheckLogin,
        LookupName, CreateUser
  <2>6. ASSUME Receive(r) \/ Handle(r)
        PROVE  pc'[r] = "done" /\ reply'[r] = 200
    BY <1>0, <1>1, <2>1, <2>6
    DEF Receive, ReceiveLogin, ReceiveRegister, Arrive, Handle, CheckLogin, LookupName,
        CreateUser, Answer
  <2>7. \/ pc'[r] \in {pc[r], "killed"} /\ reply'[r] = reply[r]
        \/ pc'[r] = "done" /\ reply'[r] = 200
    BY <2>4, <2>5, <2>6 DEF Next, vars, requests
  <2> QED
    BY <2>1, <2>2, <2>3, <2>7 DEF Valid, Found
<1> QED
  BY <1>3, <1>4

-----------------------------------------------------------------------------
LEMMA StepInv == IInv /\ [Next]_vars => IInv'
<1> SUFFICES ASSUME IInv, [Next]_vars
             PROVE  IInv'
  OBVIOUS
<1>1. TypeOK' /\ SchemaKnown' /\ HandlersKnow' /\ AdminExists' /\ RegisteredAsAsked' /\ AdminsRegister'
  BY TypeStep, SchemaStep, KnowStep, AdminStep, RegisteredStep, AdminsRegisterStep
<1>2. \A n \in tokens' : users'[n] # Nil
  BY TokenStep
<1>3. "db" \notin Faults => LoginsPass'
  BY LoginsStep
<1> QED
  BY <1>1, <1>2, <1>3 DEF IInv

LEMMA AlwaysInv == Spec => []IInv
  BY InitInv, StepInv, PTL DEF Spec

\* Type correctness: table, tokens and requests hold what the code puts there.
THEOREM TypeCorrect == Spec => []TypeOK
<1>1. IInv => TypeOK
  BY DEF IInv
<1> QED
  BY AlwaysInv, <1>1, PTL

\* Whatever the instances do to each other while they migrate, seed, fail, crash and
\* start again, with any number of them: once there is an account or a server there
\* is an admin that one of them was configured with.
THEOREM AdminIsKept == Spec => []AdminExists
<1>1. IInv => AdminExists
  BY DEF IInv
<1> QED
  BY AlwaysInv, <1>1, PTL

\* Nobody serves, or seeds, on half a schema: the lock keeps those who migrate apart,
\* and a schema that one of them has left dirty stops all that come after it.
THEOREM NobodyServesHalfASchema == Spec => []MigratedFirst
<1>1. IInv => MigratedFirst
  BY DEF IInv, SchemaKnown, MigratedFirst
<1> QED
  BY AlwaysInv, <1>1, PTL

\* It takes a crash, a failing statement or a lost reply to leave a schema dirty; then
\* RunMigrations is the no-op that its comment says.
THEOREM UndisturbedIsNoOp ==
  Faults \cap {"crash", "db", "lost"} = {} => (Spec => []CurrentIsNoOp)
<1> SUFFICES ASSUME Faults \cap {"crash", "db", "lost"} = {}
             PROVE  Spec => []CurrentIsNoOp
  OBVIOUS
<1> DEFINE Held == dirty => \E i \in Instances : stage[i] \in {"marked", "executed"}
<1>1. Init => Held
  BY Zenon DEF Init
<1>2. IInv /\ Held /\ [Next]_vars => Held'
  <2> SUFFICES ASSUME IInv, Held, [Next]_vars
               PROVE  Held'
    OBVIOUS
  <2> USE DEF TypeOK, Stages, Migrating, schema
  <2>0. TypeOK /\ SchemaKnown
    BY DEF IInv
  <2>1. CASE UNCHANGED instances
    BY <2>1 DEF instances
  <2>2. ASSUME NEW i \in Instances, Run(i)
        PROVE  Held'
    <3> USE DEF Become, Reach, StatementFails
    <3>1. CASE Start(i) \/ OpenStores(i) \/ Seed(i)
      BY <2>0, <3>1 DEF Start, OpenStores, Seed, CountUsers, LookupAdmin, CreateAdmin
    <3>2. CASE LockSchema(i) \/ UnlockSchema(i)
      BY <2>0, <3>2 DEF LockSchema, UnlockSchema
    <3>3. CASE MarkDirty(i) \/ ExecuteMigration(i)
      BY <2>0, <3>3 DEF MarkDirty, ExecuteMigration
    <3>4. CASE MarkClean(i)
      BY <2>0, <3>4 DEF MarkClean
    <3> QED
      BY <2>2, <3>1, <3>2, <3>3, <3>4 DEF Run, Migrate
  <2> QED
    BY <2>1, <2>2, RequestStep DEF Next, Crash, vars
<1>3. Held => CurrentIsNoOp
  BY DEF CurrentIsNoOp, LockFree, Migrating
<1> QED
  BY <1>1, <1>2, <1>3, AlwaysInv, PTL DEF Spec

\* What CreateUser acknowledged with 201 stays as it was asked for, with any
\* number of registers of one name.
THEOREM RegistersAreDurable == Spec => []RegisteredAsAsked
<1>1. IInv => RegisteredAsAsked
  BY DEF IInv
<1> QED
  BY AlwaysInv, <1>1, PTL

\* RequireAdmin is enough: behind every account but the first there is a register
\* whose token is an admin's.
THEOREM OnlyAdminsRegister == Spec => []AdminsRegister
<1>1. IInv => AdminsRegister
  BY DEF IInv
<1> QED
  BY AlwaysInv, <1>1, PTL

\* A login whose credentials were valid when it arrived is not refused, as long as
\* statements do not fail (the handler answers their failures with 401, too).
THEOREM ValidLoginsPass == "db" \notin Faults => (Spec => []ValidLoginAccepted)
<1> SUFFICES ASSUME "db" \notin Faults
             PROVE  Spec => []ValidLoginAccepted
  OBVIOUS
<1>1. IInv => ValidLoginAccepted
  BY DEF IInv, LoginsPass, ValidLoginAccepted
<1> QED
  BY AlwaysInv, <1>1, PTL
=============================================================================
