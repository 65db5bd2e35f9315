----------------------------- MODULE AccountsProofs -----------------------------
(* Theorems about Accounts, for any names, tokens and requests, any limits and *)
(* any number of failed saves and restarts.                                    *)
EXTENDS Accounts, FiniteSetTheorems, TLAPS

--------------------------------------------------------------------------------
\* The inductive invariant

\* Wherever a request changes or looks at an account, it has a name; what it
\* stores has a role, and "user" only after there was an administrator.
JobInv ==
  \A r \in Request :
    /\ at[r] \notin {"idle", "mint", "logout"} => job[r].name \in Name
    /\ at[r] = "logout" => job[r].token \in Token
    /\ at[r] = "store" \/ (at[r] = "acquire" /\ job[r].op = "setup") =>
         job[r].role = "admin" \/ (job[r].role = "user" /\ AdminIn(users))

Revoking(n) == \E r \in Request : at[r] = "revoke" /\ job[r].name = n

\* A session is of an account that exists and is confined as the account is, or
\* it is about to be revoked.
SessionInv ==
  \A t \in Token :
    LET s == sessions[t] IN
    s # None /\ s.known =>
      /\ s.user \in Name
      /\ s.user \in Existing => (users[s.user].must => s.must) \/ s.user \in unrevoked
                                                               \/ Revoking(s.user)
      /\ s.user \notin Existing => Revoking(s.user)

\* The part that the register and the administrators rest on.
StoreInv == TypeOK /\ StoresAgree /\ AdminRemains /\ JobInv

IInv == StoreInv /\ SessionInv

USE DEF storeVars, requestVars

Job == [op : Op \cup {"none"}, name : Name \cup {None}, role : Role \cup {"none"},
        token : Token \cup {None}, ok : BOOLEAN]

--------------------------------------------------------------------------------
\* Types

\* A handler that returns leaves its request and the limiter well typed.
LEMMA ReturnTypes ==
  ASSUME TypeOK, NEW r \in Request, Return(r)
  PROVE  /\ at' \in [Request -> At] /\ job' \in [Request -> Job]
         /\ slots' \in 0..LoginMaxConcurrent
<1>1. NoJob \in Job
  BY DEF NoJob, Job
<1>2. slots \in Nat /\ LoginMaxConcurrent \in Nat
  BY LimitAssumption DEF TypeOK
<1> QED
  BY <1>1, <1>2 DEF TypeOK, Return, Goto, At, SlotsAfter, Job

\* Saving replaces the file by the store; not saving leaves it.
LEMMA SaveTypes ==
  ASSUME TypeOK, users' \in [Name -> Account \cup {None}], Saved \/ NotSaved
  PROVE  disk' \in [Name -> Account \cup {None}] /\ errors' \in 0..MaxSaveErrors
BY LimitAssumption DEF TypeOK, Saved, NotSaved

\* Changing one account by a well-typed value keeps the store well typed.
LEMMA StoreWrite ==
  ASSUME NEW f \in [Name -> Account \cup {None}], NEW n, NEW v \in Account \cup {None}
  PROVE  [f EXCEPT ![n] = v] \in [Name -> Account \cup {None}]
OBVIOUS

\* The account that bootstrapAdminFromEnv makes.
LEMMA FirstAccount ==
  LET u == [role |-> "admin", must |-> FALSE, failed |-> 0, locked |-> FALSE]
  IN  u \in Account /\ u # None /\ u.role = "admin"
<1> DEFINE u == [role |-> "admin", must |-> FALSE, failed |-> 0, locked |-> FALSE]
<1>1. 0 \in 0..MaxFailedLogins
  BY LimitAssumption
<1>2. u \in Account
  BY <1>1 DEF Account, Role
<1> HIDE DEF u
<1>3. u # None
  BY <1>2, NoneAssumption
<1> QED
  BY <1>2, <1>3 DEF u

\* The steps of setup and login keep the types.
LEMMA LoginTypes ==
  ASSUME TypeOK, JobInv, NEW r \in Request, LoginStep(r)
  PROVE  TypeOK'
<1> USE DEF TypeOK
<1>1. CASE Acquire(r)
  BY <1>1, LimitAssumption DEF Acquire, SlotFree, Goto, At
<1>2. CASE Shed(r)
  BY <1>2 DEF Shed, NoJob, Goto, At
<1>3. CASE AuthRead(r)
  BY <1>3 DEF AuthRead, Goto, At
<1>4. CASE AuthFails(r)
  <2> DEFINE n == job[r].name
             count == IF users[n].failed < MaxFailedLogins THEN users[n].failed + 1
                                                           ELSE MaxFailedLogins
  <2>1. n \in Name /\ users[n] \in Account
    BY <1>4 DEF AuthFails, JobInv
  <2>2. count \in 0..MaxFailedLogins
    BY <2>1, LimitAssumption DEF Account
  <2>3. users' \in [Name -> Account \cup {None}]
    BY <1>4, <2>1, <2>2 DEF AuthFails, Account
  <2> QED
    BY <1>4, <2>3, SaveTypes, ReturnTypes DEF AuthFails, Job
<1>5. CASE AuthSucceeds(r)
  <2>1. job[r].name \in Name /\ users[job[r].name] \in Account
    BY <1>5 DEF AuthSucceeds, JobInv
  <2>2. users' \in [Name -> Account \cup {None}]
    BY <1>5, <2>1, LimitAssumption DEF AuthSucceeds, Account
  <2>3. job' \in [Request -> Job]
    BY <1>5, <2>1 DEF AuthSucceeds, Account, Job
  <2> QED
    BY <1>5, <2>2, <2>3, SaveTypes DEF AuthSucceeds, Goto, At, Job
<1>6. CASE AuthRefused(r) \/ MintFails(r)
  BY <1>6, ReturnTypes DEF AuthRefused, MintFails, Refuse, Job
<1>7. CASE Mint(r)
  <2>1. sessions' \in [Token -> Session \cup {None}]
    BY <1>7 DEF Mint, Session, MustAtMint, Existing, Account
  <2> QED
    BY <1>7, <2>1, ReturnTypes DEF Mint, Job
<1> QED
  BY <1>1, <1>2, <1>3, <1>4, <1>5, <1>6, <1>7 DEF LoginStep

\* The steps that change the store or end sessions keep the types.
LEMMA AccountTypes ==
  ASSUME TypeOK, JobInv, NEW r \in Request, AccountStep(r)
  PROVE  TypeOK'
<1> USE DEF TypeOK
<1> DEFINE n == job[r].name
<1>0. ASSUME NEW u \in Account  PROVE Cleared(u) \in Account
  <2>1. 0 \in 0..MaxFailedLogins
    BY LimitAssumption
  <2>2. [u EXCEPT !.failed = 0] \in Account
    BY <2>1 DEF Account
  <2>3. Cleared(u) = [[u EXCEPT !.failed = 0] EXCEPT !.locked = FALSE]
    BY DEF Cleared, Account
  <2> QED
    BY <2>2, <2>3 DEF Account
<1>1. CASE CreateUser(r)
  <2>1. NewAccount(r) \in Account
    BY <1>1, LimitAssumption DEF CreateUser, JobInv, NewAccount, Account, Role
  <2>2. users' \in [Name -> Account \cup {None}]
    BY <1>1, <2>1, StoreWrite DEF CreateUser
  <2> QED
    BY <1>1, <2>2, SaveTypes, ReturnTypes DEF CreateUser, Goto, At, Job
<1>2. CASE CreateFails(r)
  BY <1>2, ReturnTypes DEF CreateFails, AfterFailedCreate, Job
<1>3. CASE DeleteUser(r)
  BY <1>3, StoreWrite, SaveTypes DEF DeleteUser, Goto, At
<1>4. CASE DeleteFails(r) \/ VerifyFails(r) \/ SetFails(r) \/ UnlockFails(r)
  BY <1>4, ReturnTypes DEF DeleteFails, VerifyFails, SetFails, UnlockFails, Refuse, Job
<1>5. CASE VerifyUser(r)
  BY <1>5 DEF VerifyUser, Goto, At
<1>6. CASE SetPassword(r)
  <2>1. n \in Name /\ users[n] \in Account
    BY <1>6 DEF SetPassword, JobInv
  <2>2. [Cleared(users[n]) EXCEPT !.must = job[r].op = "reset"] \in Account
    BY <2>1, <1>0 DEF Account
  <2>3. users' \in [Name -> Account \cup {None}]
    BY <1>6, <2>2, StoreWrite DEF SetPassword
  <2> QED
    BY <1>6, <2>1, <2>3, SaveTypes, ReturnTypes DEF SetPassword, Goto, At, Job
<1>7. CASE UnlockUser(r)
  <2>1. users' \in [Name -> Account \cup {None}]
    BY <1>7, <1>0, StoreWrite DEF UnlockUser, JobInv
  <2> QED
    BY <1>7, <2>1, SaveTypes, ReturnTypes DEF UnlockUser, Job
<1>8. CASE Revoke(r)
  <2>1. sessions' \in [Token -> Session \cup {None}]
    BY <1>8 DEF Revoke, SessionsWithout
  <2> QED
    BY <1>8, <2>1, ReturnTypes DEF Revoke, Goto, At, Job
<1>9. CASE View(r)
  <2> DEFINE role == IF users[n] = None THEN "none" ELSE users[n].role
             name == IF users[n] = None THEN None ELSE n
  <2>1. n \in Name /\ job[r] \in Job
    BY <1>9 DEF View, JobInv, Job
  <2>2. role \in Role \cup {"none"} /\ name \in Name \cup {None}
    BY <2>1 DEF Account
  <2>3. [[job[r] EXCEPT !.role = role] EXCEPT !.name = name] \in Job
    BY <2>1, <2>2 DEF Job
  <2>4. job' = [job EXCEPT ![r] = [[@ EXCEPT !.role = role] EXCEPT !.name = name]]
    BY <1>9, <2>1 DEF View
  <2>5. job' \in [Request -> Job]
    BY <2>3, <2>4 DEF Job
  <2> QED
    BY <1>9, <2>5 DEF View, Goto, At, Job
<1>10. CASE Logout(r)
  BY <1>10, ReturnTypes DEF Logout, Job
<1> QED
  BY <1>1, <1>2, <1>3, <1>4, <1>5, <1>6, <1>7, <1>8, <1>9, <1>10 DEF AccountStep

\* Every step keeps the types.
LEMMA TypeStep ==
  ASSUME TypeOK, JobInv, [Next]_vars
  PROVE  TypeOK'
<1> USE DEF TypeOK
<1>1. ASSUME NEW r \in Request, NEW n \in Name, StartSetup(r, n) \/ StartLogin(r, n)
      PROVE  TypeOK'
  <2>1. /\ [NoJob EXCEPT !.op = "setup", !.name = n, !.role = "admin"] \in Job
        /\ [NoJob EXCEPT !.op = "login", !.name = n] \in Job
    BY DEF NoJob, Job, Op, Throttled, Role
  <2>2. \E j \in Job : job' = [job EXCEPT ![r] = j]
    BY <1>1, <2>1 DEF StartSetup, StartLogin
  <2>3. job' \in [Request -> Job]
    BY <2>2 DEF Job
  <2>4. at' \in [Request -> At]
    BY <1>1 DEF StartSetup, StartLogin, Goto, At
  <2> QED
    BY <1>1, <2>3, <2>4 DEF StartSetup, StartLogin, Job
<1>2. ASSUME NEW r \in Request, NEW t \in Token, NEW n \in Name, NEW o \in AdminOp \cup OwnOp,
             NEW role \in Role \cup {"none"}, Gate(r, t, o, n, role)
      PROVE  TypeOK'
  <2>1. First[o] \in At
    BY <1>2 DEF First, At, AdminOp, OwnOp
  <2>2. [NoJob EXCEPT !.op = o, !.name = n, !.role = role,
                      !.token = IF o = "logout" THEN t ELSE None] \in Job
    BY DEF NoJob, Job, Op
  <2> QED
    BY <1>2, <2>1, <2>2 DEF Gate, Goto, Job
<1>3. CASE \E t \in Token : Forget(t)
  BY <1>3 DEF Forget
<1>4. CASE \E n \in Name : LockExpires(n)
  <2>1. PICK n \in Name : LockExpires(n)
    BY <1>4
  <2>2. ASSUME NEW u \in Account
        PROVE  [u EXCEPT !.locked = FALSE] \in Account
    BY DEF Account
  <2> QED
    BY <2>1, <2>2 DEF LockExpires
<1>5. CASE Restart
  BY <1>5, LimitAssumption DEF Restart, NoJob, At
<1>6. ASSUME NEW n \in Name, Bootstrap(n)
      PROVE  TypeOK'
  <2>1. [role |-> "admin", must |-> FALSE, failed |-> 0, locked |-> FALSE] \in Account
    BY FirstAccount
  <2>2. users' \in [Name -> Account \cup {None}]
    BY <1>6, <2>1, StoreWrite DEF Bootstrap
  <2> QED
    BY <1>6, <2>2, SaveTypes DEF Bootstrap
<1>7. CASE UNCHANGED vars
  BY <1>7 DEF vars
<1> QED
  BY <1>1, <1>2, <1>3, <1>4, <1>5, <1>6, <1>7, LoginTypes, AccountTypes DEF Next, AdminOp, OwnOp, Role

--------------------------------------------------------------------------------
\* The store: which accounts exist, and their roles

SameRoles(f, g) ==
  \A n \in Name : /\ f[n] = None <=> g[n] = None
                  /\ f[n] # None => g[n].role = f[n].role

\* A change of one account that keeps its role, saved or not.
LEMMA KeepRole ==
  ASSUME StoreInv, NEW n \in Name, NEW u \in Account,
         users[n] # None, u.role = users[n].role,
         users' = [users EXCEPT ![n] = u], disk' = users' \/ disk' = disk
  PROVE  SameRoles(users, users') /\ SameRoles(disk, disk')
<1>1. u # None
  BY NoneAssumption
<1>2. users' \in [Name -> Account \cup {None}]
  BY StoreWrite DEF StoreInv, TypeOK
<1> QED
  BY <1>1, <1>2 DEF SameRoles, StoreInv, StoresAgree, TypeOK

\* Only createUser, deleteUser and the bootstrap change which accounts exist and their roles.
LEMMA RolesOrOneAccount ==
  ASSUME StoreInv, [Next]_vars
  PROVE  \/ SameRoles(users, users') /\ SameRoles(disk, disk')
         \/ \E r \in Request : CreateUser(r) \/ DeleteUser(r)
         \/ \E n \in Name : Bootstrap(n)
<1> USE DEF StoreInv
<1> DEFINE Same == SameRoles(users, users') /\ SameRoles(disk, disk')
<1>0. UNCHANGED <<users, disk>> => Same
  BY DEF SameRoles
<1>1. ASSUME NEW r \in Request, LoginStep(r)
      PROVE  Same
  <2> DEFINE n == job[r].name
  <2>1. CASE AuthFails(r)
    <3> DEFINE count == IF users[n].failed < MaxFailedLogins THEN users[n].failed + 1
                                                             ELSE MaxFailedLogins
               u == [users[n] EXCEPT !.failed = count,
                                     !.locked = @ \/ count = MaxFailedLogins]
    <3>1. n \in Name /\ users[n] \in Account
      BY <2>1 DEF AuthFails, JobInv, TypeOK
    <3>2. count \in 0..MaxFailedLogins
      BY <3>1, LimitAssumption DEF Account
    <3>3. u \in Account /\ u.role = users[n].role
      BY <3>1, <3>2 DEF Account
    <3>4. users' = [users EXCEPT ![n] = u]
      BY <2>1, <3>1 DEF AuthFails, TypeOK
    <3> QED
      BY <2>1, <3>1, <3>3, <3>4, KeepRole DEF AuthFails, Saved, NotSaved
  <2>2. CASE AuthSucceeds(r)
    <3> DEFINE u == [users[n] EXCEPT !.failed = 0, !.locked = FALSE]
    <3>1. n \in Name /\ users[n] \in Account /\ 0 \in 0..MaxFailedLogins
      BY <2>2, LimitAssumption DEF AuthSucceeds, JobInv, TypeOK
    <3>2. u \in Account /\ u.role = users[n].role
      BY <3>1 DEF Account
    <3>3. users' = [users EXCEPT ![n] = u]
      BY <2>2, <3>1 DEF AuthSucceeds, TypeOK
    <3> QED
      BY <2>2, <3>1, <3>2, <3>3, KeepRole DEF AuthSucceeds, Saved, NotSaved
  <2>3. CASE \/ Acquire(r) \/ Shed(r) \/ AuthRead(r) \/ AuthRefused(r)
             \/ Mint(r) \/ MintFails(r)
    BY <2>3, <1>0 DEF Acquire, Shed, AuthRead, AuthRefused, Mint, MintFails, Refuse
  <2> QED
    BY <1>1, <2>1, <2>2, <2>3 DEF LoginStep
<1>2. ASSUME NEW r \in Request, AccountStep(r), ~CreateUser(r), ~DeleteUser(r)
      PROVE  Same
  <2> DEFINE n == job[r].name
  <2>0. ASSUME NEW u \in Account
        PROVE  Cleared(u) \in Account /\ Cleared(u).role = u.role
    <3>1. 0 \in 0..MaxFailedLogins
      BY LimitAssumption
    <3> QED
      BY <3>1 DEF Cleared, Account
  <2>1. CASE SetPassword(r)
    <3> DEFINE u == [Cleared(users[n]) EXCEPT !.must = job[r].op = "reset"]
    <3>1. n \in Name /\ users[n] \in Account
      BY <2>1 DEF SetPassword, JobInv, TypeOK
    <3>2. u \in Account /\ u.role = users[n].role
      BY <2>0, <3>1 DEF Account
    <3> QED
      BY <2>1, <3>1, <3>2, KeepRole DEF SetPassword, Saved, NotSaved
  <2>2. CASE UnlockUser(r)
    <3>1. n \in Name /\ users[n] \in Account
      BY <2>2 DEF UnlockUser, JobInv, TypeOK
    <3> QED
      BY <2>0, <2>2, <3>1, KeepRole DEF UnlockUser, Saved, NotSaved
  <2>3. CASE \/ CreateFails(r) \/ DeleteFails(r) \/ VerifyUser(r) \/ VerifyFails(r)
             \/ SetFails(r) \/ UnlockFails(r) \/ Revoke(r) \/ View(r) \/ Logout(r)
    BY <2>3, <1>0 DEF CreateFails, AfterFailedCreate, DeleteFails, VerifyUser, VerifyFails,
                      SetFails, UnlockFails, Revoke, View, Logout, Refuse
  <2> QED
    BY <1>2, <2>1, <2>2, <2>3 DEF AccountStep
<1>3. CASE \E n \in Name : LockExpires(n)
  <2>1. PICK n \in Name : LockExpires(n)
    BY <1>3
  <2>2. ASSUME NEW u \in Account
        PROVE  [u EXCEPT !.locked = FALSE] \in Account /\ [u EXCEPT !.locked = FALSE].role = u.role
    BY DEF Account
  <2> QED
    BY <2>1, <2>2, NoneAssumption DEF LockExpires, SameRoles, TypeOK
<1>4. CASE Restart
  BY <1>4 DEF Restart, SameRoles, StoresAgree
<1>5. CASE \/ \E r \in Request, n \in Name : StartSetup(r, n) \/ StartLogin(r, n)
           \/ \E r \in Request, t \in Token, n \in Name, o \in Op, role \in Role \cup {"none"} :
                Gate(r, t, o, n, role)
           \/ \E t \in Token : Forget(t)
           \/ UNCHANGED vars
  BY <1>5, <1>0 DEF StartSetup, StartLogin, Gate, Forget, vars
<1> QED
  BY <1>1, <1>2, <1>3, <1>4, <1>5 DEF Next, Op, AdminOp, Role

\* The accounts agree, an administrator remains, and once there is one there
\* always is.
LEMMA StoreStep ==
  ASSUME StoreInv, [Next]_vars
  PROVE  StoresAgree' /\ AdminRemains' /\ (AdminIn(users) => AdminIn(users)')
<1> USE DEF StoreInv, StoresAgree, AdminRemains, AdminIn, EmptyIn
<1>1. CASE SameRoles(users, users') /\ SameRoles(disk, disk')
  BY <1>1 DEF SameRoles
<1>2. ASSUME NEW r \in Request, CreateUser(r)
      PROVE  StoresAgree' /\ AdminRemains' /\ (AdminIn(users) => AdminIn(users)')
  <2> DEFINE n == job[r].name
  <2>1. /\ n \in Name /\ users[n] = None /\ disk' = users'
        /\ job[r].role = "admin" \/ (job[r].role = "user" /\ AdminIn(users))
    BY <1>2 DEF CreateUser, Storable, Saved, JobInv
  <2>2. users' = [users EXCEPT ![n] = NewAccount(r)]
    BY <1>2 DEF CreateUser
  <2>3. NewAccount(r) \in Account /\ NewAccount(r).role = job[r].role
    BY <2>1, LimitAssumption DEF NewAccount, Account, Role
  <2>4. NewAccount(r) # None
    BY <2>3, NoneAssumption
  <2> QED
    BY <2>1, <2>2, <2>3, <2>4 DEF TypeOK
<1>3. ASSUME NEW r \in Request, DeleteUser(r)
      PROVE  StoresAgree' /\ AdminRemains' /\ (AdminIn(users) => AdminIn(users)')
  BY <1>3 DEF DeleteUser, Deletable, Existing, Saved, JobInv, TypeOK
<1>4. ASSUME NEW n \in Name, Bootstrap(n)
      PROVE  StoresAgree' /\ AdminRemains' /\ (AdminIn(users) => AdminIn(users)')
  <2> DEFINE u == [role |-> "admin", must |-> FALSE, failed |-> 0, locked |-> FALSE]
  <2>1. u # None
    BY FirstAccount
  <2> QED
    BY <1>4, <2>1 DEF Bootstrap, Saved, TypeOK
<1> QED
  BY <1>1, <1>2, <1>3, <1>4, RolesOrOneAccount

--------------------------------------------------------------------------------
\* The requests

\* One request moves on: it is enough to look at where it is then.
LEMMA OneMoves ==
  ASSUME JobInv, AdminIn(users) => AdminIn(users)', NEW r \in Request,
         \A q \in Request \ {r} : at'[q] = at[q] /\ job'[q] = job[q],
         at'[r] \notin {"idle", "mint", "logout"} => job'[r].name \in Name,
         at'[r] = "logout" => job'[r].token \in Token,
         at'[r] = "store" \/ (at'[r] = "acquire" /\ job'[r].op = "setup") =>
           job'[r].role = "admin" \/ (job'[r].role = "user" /\ AdminIn(users)')
  PROVE  JobInv'
BY DEF JobInv, AdminIn

\* A handler that returns moves no other request.
LEMMA Returns ==
  ASSUME TypeOK, NEW r \in Request, Return(r)
  PROVE  /\ at'[r] = "idle"
         /\ \A q \in Request \ {r} : at'[q] = at[q] /\ job'[q] = job[q]
BY DEF Return, Goto, TypeOK

\* Every step keeps what the requests hold.
LEMMA JobStep ==
  ASSUME StoreInv, [Next]_vars
  PROVE  JobInv'
<1> USE DEF StoreInv
<1>0. AdminIn(users) => AdminIn(users)'
  BY StoreStep
<1>1. ASSUME NEW r \in Request, LoginStep(r)
      PROVE  JobInv'
  <2>1. CASE AuthFails(r) \/ AuthRefused(r) \/ Mint(r) \/ MintFails(r)
    BY <1>0, <2>1, Returns, OneMoves DEF AuthFails, AuthRefused, Mint, MintFails, Refuse
  <2>2. CASE Acquire(r)
    <3>1. /\ job' = job
          /\ at' = [at EXCEPT ![r] = IF job[r].op = "setup" THEN "store" ELSE "read"]
      BY <2>2 DEF Acquire, Goto
    <3> QED
      BY <1>0, <2>2, <3>1, OneMoves DEF Acquire, JobInv, TypeOK
  <2>3. CASE Shed(r)
    BY <1>0, <2>3, OneMoves DEF Shed, Goto, TypeOK
  <2>4. CASE AuthRead(r)
    BY <1>0, <2>4, OneMoves DEF AuthRead, Goto, JobInv, TypeOK
  <2>5. CASE AuthSucceeds(r)
    BY <1>0, <2>5, OneMoves DEF AuthSucceeds, Goto, TypeOK
  <2> QED
    BY <1>1, <2>1, <2>2, <2>3, <2>4, <2>5 DEF LoginStep
<1>2. ASSUME NEW r \in Request, AccountStep(r)
      PROVE  JobInv'
  <2>1. CASE CreateUser(r)
    <3>1. CASE job[r].op = "setup"
      BY <1>0, <2>1, <3>1, OneMoves DEF CreateUser, Goto, TypeOK
    <3>2. CASE job[r].op # "setup"
      BY <1>0, <2>1, <3>2, Returns, OneMoves DEF CreateUser
    <3> QED
      BY <3>1, <3>2
  <2>2. CASE \/ CreateFails(r) \/ DeleteFails(r) \/ VerifyFails(r) \/ SetFails(r)
             \/ UnlockUser(r) \/ UnlockFails(r) \/ Logout(r)
    BY <1>0, <2>2, Returns, OneMoves
       DEF CreateFails, DeleteFails, VerifyFails, SetFails, UnlockUser, UnlockFails, Logout, Refuse
  <2>3. CASE DeleteUser(r) \/ VerifyUser(r)
    BY <1>0, <2>3, OneMoves DEF DeleteUser, VerifyUser, Goto, JobInv, TypeOK
  <2>4. CASE SetPassword(r)
    <3>1. CASE Return(r)
      BY <1>0, <3>1, Returns, OneMoves
    <3>2. CASE Goto(r, "revoke") /\ UNCHANGED job
      BY <1>0, <2>4, <3>2, OneMoves DEF SetPassword, Goto, JobInv, TypeOK
    <3> QED
      BY <2>4, <3>1, <3>2 DEF SetPassword
  <2>5. CASE Revoke(r)
    <3>1. CASE Return(r)
      BY <1>0, <3>1, Returns, OneMoves
    <3>2. CASE Goto(r, "view") /\ UNCHANGED job
      BY <1>0, <2>5, <3>2, OneMoves DEF Revoke, Goto, JobInv, TypeOK
    <3> QED
      BY <2>5, <3>1, <3>2 DEF Revoke
  <2>6. CASE View(r)
    BY <1>0, <2>6, OneMoves DEF View, Goto, TypeOK
  <2> QED
    BY <1>2, <2>1, <2>2, <2>3, <2>4, <2>5, <2>6 DEF AccountStep
<1>3. ASSUME NEW r \in Request, NEW n \in Name, StartSetup(r, n) \/ StartLogin(r, n)
      PROVE  JobInv'
  <2>1. CASE StartSetup(r, n)
    BY <1>0, <2>1, OneMoves DEF StartSetup, Goto, NoJob, TypeOK
  <2>2. CASE StartLogin(r, n)
    BY <1>0, <2>2, OneMoves DEF StartLogin, Goto, NoJob, TypeOK
  <2> QED
    BY <1>3, <2>1, <2>2
<1>4. ASSUME NEW r \in Request, NEW t \in Token, NEW n \in Name, NEW o \in AdminOp \cup OwnOp,
             NEW role \in Role \cup {"none"}, Gate(r, t, o, n, role),
             o = "create" => role \in Role
      PROVE  JobInv'
  <2>1. AdminIn(users)
    BY <1>4 DEF Gate, Existing, AdminRemains, EmptyIn
  <2>2. /\ at'[r] = First[o]
        /\ job'[r].name = n /\ job'[r].role = role /\ job'[r].op = o
        /\ o = "logout" => job'[r].token = t
        /\ \A q \in Request \ {r} : at'[q] = at[q] /\ job'[q] = job[q]
    BY <1>4 DEF Gate, Goto, NoJob, TypeOK
  <2>3. First[o] # "acquire" /\ (First[o] = "store" => o = "create")
                             /\ (First[o] = "logout" => o = "logout")
    BY DEF First, AdminOp, OwnOp
  <2> QED
    BY <1>0, <1>4, <2>1, <2>2, <2>3, OneMoves DEF Role
<1>5. CASE (\E t \in Token : Forget(t)) \/ (\E n \in Name : LockExpires(n)) \/ UNCHANGED vars
  BY <1>0, <1>5 DEF Forget, LockExpires, vars, JobInv
<1>7. CASE \E n \in Name : Bootstrap(n)
  BY <1>0, <1>7 DEF Bootstrap, JobInv
<1>6. CASE Restart
  BY <1>6 DEF Restart, JobInv, NoJob
<1> QED
  BY <1>1, <1>2, <1>3, <1>4, <1>5, <1>6, <1>7 DEF Next, Op, AdminOp, OwnOp, Role

--------------------------------------------------------------------------------
\* Sessions

\* The accounts stay confined where they were; sessions may only go away.
LEMMA SameSessions ==
  ASSUME SessionInv, \A t \in Token : sessions'[t] \in {sessions[t], None},
         unrevoked \subseteq unrevoked',
         \A n \in Name : Revoking(n) => Revoking(n)',
         \A n \in Existing : \/ n \in Existing' /\ (users'[n].must => users[n].must)
                             \/ n \in Existing' /\ n \in unrevoked'
                             \/ Revoking(n)'
  PROVE  SessionInv'
<1> SUFFICES ASSUME NEW t \in Token, sessions'[t] # None, sessions'[t].known,
                    NEW n, n = sessions[t].user
             PROVE  /\ n \in Name
                    /\ n \in Existing' => \/ users'[n].must => sessions'[t].must
                                          \/ n \in unrevoked'
                                          \/ Revoking(n)'
                    /\ n \notin Existing' => Revoking(n)'
  BY DEF SessionInv, Revoking
<1>1. sessions'[t] = sessions[t]
  OBVIOUS
<1>2. n \in Name
  BY <1>1 DEF SessionInv
<1>3. Revoking(n) => Revoking(n)'
  BY <1>2
<1>4. n \in Existing => \/ users[n].must => sessions[t].must
                       \/ n \in unrevoked
                       \/ Revoking(n)
  BY <1>1 DEF SessionInv, Revoking
<1>5. n \notin Existing => Revoking(n)
  BY <1>1 DEF SessionInv, Revoking
<1> QED
  BY <1>1, <1>2, <1>3, <1>4, <1>5

\* A revocation goes on while another request moves.
LEMMA RevokingStays ==
  ASSUME NEW r \in Request, at[r] # "revoke", NEW n, Revoking(n),
         \A q \in Request \ {r} : at'[q] = at[q] /\ job'[q] = job[q]
  PROVE  Revoking(n)'
BY DEF Revoking

\* The step of a request that is not revoking and that leaves the flags alone.
LEMMA FlagsKept ==
  ASSUME SessionInv, NEW r \in Request, at[r] # "revoke",
         \A q \in Request \ {r} : at'[q] = at[q] /\ job'[q] = job[q],
         \A t \in Token : sessions'[t] \in {sessions[t], None}, unrevoked \subseteq unrevoked',
         \A n \in Existing : n \in Existing' /\ (users'[n].must => users[n].must)
  PROVE  SessionInv'
BY SameSessions, RevokingStays

\* A change of one account that leaves its forced rotation alone leaves that of all alone.
LEMMA OneAccount ==
  ASSUME TypeOK, NEW n \in Name, NEW u \in Account, u.must = users[n].must,
         users' = [users EXCEPT ![n] = u]
  PROVE  \A m \in Existing : m \in Existing' /\ users'[m].must = users[m].must
BY NoneAssumption DEF TypeOK, Existing

\* The steps of setup and login keep SessionInv; a new session copies the flag.
LEMMA LoginSessions ==
  ASSUME StoreInv, SessionInv, NEW r \in Request, LoginStep(r)
  PROVE  SessionInv'
<1> USE DEF StoreInv
<1> DEFINE n == job[r].name
<1>1. CASE AuthFails(r)
  <2> DEFINE count == IF users[n].failed < MaxFailedLogins THEN users[n].failed + 1
                                                           ELSE MaxFailedLogins
             u == [users[n] EXCEPT !.failed = count, !.locked = @ \/ count = MaxFailedLogins]
  <2>0. n \in Name /\ users[n] \in Account
    BY <1>1 DEF AuthFails, JobInv, TypeOK
  <2>2. count \in 0..MaxFailedLogins
    BY <2>0, LimitAssumption DEF Account
  <2>3. u \in Account /\ u.must = users[n].must
    BY <2>0, <2>2 DEF Account
  <2>4. users' = [users EXCEPT ![n] = u]
    BY <1>1, <2>0 DEF AuthFails, TypeOK
  <2>1. \A m \in Existing : m \in Existing' /\ users'[m].must = users[m].must
    BY <2>0, <2>3, <2>4, OneAccount
  <2> QED
    BY <1>1, <2>1, Returns, FlagsKept DEF AuthFails
<1>2. CASE AuthSucceeds(r)
  <2>1. \A m \in Existing : m \in Existing' /\ users'[m].must = users[m].must
    BY <1>2, NoneAssumption DEF AuthSucceeds, JobInv, TypeOK, Existing, Account
  <2> QED
    BY <1>2, <2>1, FlagsKept DEF AuthSucceeds, Goto, TypeOK
<1>3. CASE AuthRefused(r) \/ MintFails(r)
  BY <1>3, Returns, FlagsKept DEF AuthRefused, MintFails, Refuse, Existing
<1>4. CASE Acquire(r) \/ Shed(r) \/ AuthRead(r)
  BY <1>4, FlagsKept DEF Acquire, Shed, AuthRead, Goto, Existing, TypeOK
<1>5. CASE Mint(r)
  <2>1. /\ at[r] # "revoke" /\ \A q \in Request \ {r} : at'[q] = at[q] /\ job'[q] = job[q]
        /\ users' = users /\ unrevoked' = unrevoked /\ Existing' = Existing
    BY <1>5, Returns DEF Mint, Existing
  <2>2. PICK t \in Token :
          sessions' = [sessions EXCEPT ![t] = [user |-> n, role |-> job[r].role,
                         must |-> MustAtMint(n), known |-> n \in Existing]]
    BY <1>5 DEF Mint
  <2>3. \A m \in Name : Revoking(m) => Revoking(m)'
    BY <2>1, RevokingStays
  <2>4. ASSUME NEW k \in Token, k # t
        PROVE  sessions'[k] = sessions[k]
    BY <2>2, <2>4 DEF TypeOK
  <2>5. /\ sessions'[t].user = n /\ sessions'[t].must = MustAtMint(n)
        /\ sessions'[t].known = (n \in Existing)
    BY <2>2 DEF TypeOK
  <2> QED
    BY <2>1, <2>3, <2>4, <2>5 DEF SessionInv, MustAtMint, Existing
<1> QED
  BY <1>1, <1>2, <1>3, <1>4, <1>5 DEF LoginStep

\* The steps that change the store keep SessionInv: they go on to revoke.
LEMMA AccountSessions ==
  ASSUME StoreInv, SessionInv, NEW r \in Request, AccountStep(r)
  PROVE  SessionInv'
<1> USE DEF StoreInv
<1> DEFINE n == job[r].name
<1>1. CASE CreateUser(r)
  <2>1. at[r] # "revoke" /\ \A q \in Request \ {r} : at'[q] = at[q] /\ job'[q] = job[q]
    BY <1>1, Returns DEF CreateUser, Goto, TypeOK
  <2>2. \A m \in Existing : m \in Existing' /\ users'[m].must = users[m].must
    BY <1>1 DEF CreateUser, Storable, Existing, TypeOK
  <2> QED
    BY <1>1, <2>1, <2>2, FlagsKept DEF CreateUser
<1>2. CASE \/ CreateFails(r) \/ DeleteFails(r) \/ VerifyFails(r) \/ SetFails(r)
           \/ UnlockFails(r)
  BY <1>2, Returns, FlagsKept
     DEF CreateFails, AfterFailedCreate, DeleteFails, VerifyFails, SetFails, UnlockFails, Refuse,
         Existing
<1>3. CASE DeleteUser(r)
  <2>1. /\ at[r] # "revoke" /\ \A q \in Request \ {r} : at'[q] = at[q] /\ job'[q] = job[q]
        /\ at'[r] = "revoke" /\ job'[r].name = n
    BY <1>3 DEF DeleteUser, Goto, TypeOK
  <2>2. Revoking(n)'
    BY <2>1 DEF Revoking
  <2>3. \A m \in Existing : m # n => m \in Existing' /\ users'[m] = users[m]
    BY <1>3 DEF DeleteUser, Existing, TypeOK
  <2> QED
    BY <1>3, <2>1, <2>2, <2>3, RevokingStays, SameSessions DEF DeleteUser
<1>4. CASE VerifyUser(r) \/ View(r)
  BY <1>4, FlagsKept DEF VerifyUser, View, Goto, Existing, TypeOK
<1>5. CASE SetPassword(r)
  <2> DEFINE u == [Cleared(users[n]) EXCEPT !.must = job[r].op = "reset"]
  <2>1. n \in Name /\ users[n] # None /\ at[r] = "set" /\ sessions' = sessions
    BY <1>5 DEF SetPassword, JobInv
  <2>2. users' = [users EXCEPT ![n] = u]
    BY <1>5 DEF SetPassword
  <2>3. u # None
    <3>1. users[n] \in Account /\ 0 \in 0..MaxFailedLogins
      BY <2>1, LimitAssumption DEF TypeOK
    <3>2. u \in Account
      BY <3>1 DEF Cleared, Account
    <3> QED
      BY <3>2, NoneAssumption
  <2>4. n \in Existing'
    BY <2>1, <2>2, <2>3 DEF Existing, TypeOK
  <2>5. \A m \in Existing : m # n => m \in Existing' /\ users'[m] = users[m]
    BY <2>2 DEF Existing, TypeOK
  <2>6. \A q \in Request \ {r} : at'[q] = at[q] /\ job'[q] = job[q]
    BY <1>5, Returns DEF SetPassword, Goto, TypeOK
  <2>7. \A m \in Name : Revoking(m) => Revoking(m)'
    BY <2>1, <2>6, RevokingStays
  <2>8. CASE Goto(r, "revoke") /\ UNCHANGED <<unrevoked, job>>
    <3>1. Revoking(n)'
      BY <2>8 DEF Goto, Revoking, TypeOK
    <3> QED
      BY <2>1, <2>5, <2>7, <2>8, <3>1, SameSessions
  <2>9. CASE unrevoked' = unrevoked \cup {n}
    BY <2>1, <2>4, <2>5, <2>7, <2>9, SameSessions
  <2> QED
    BY <1>5, <2>8, <2>9 DEF SetPassword
<1>6. CASE UnlockUser(r)
  <2>2. n \in Name /\ users[n] \in Account /\ 0 \in 0..MaxFailedLogins
    BY <1>6, LimitAssumption DEF UnlockUser, JobInv, TypeOK
  <2>3. Cleared(users[n]) \in Account /\ Cleared(users[n]).must = users[n].must
    BY <2>2 DEF Cleared, Account
  <2>1. \A m \in Existing : m \in Existing' /\ users'[m].must = users[m].must
    BY <1>6, <2>2, <2>3, OneAccount DEF UnlockUser
  <2> QED
    BY <1>6, <2>1, Returns, FlagsKept DEF UnlockUser
<1>7. CASE Revoke(r)
  <2>1. /\ \A q \in Request \ {r} : at'[q] = at[q] /\ job'[q] = job[q]
        /\ users' = users /\ unrevoked' = unrevoked \ {n} /\ Existing' = Existing
        /\ sessions' = SessionsWithout(n)
    BY <1>7, Returns DEF Revoke, Goto, TypeOK, Existing
  <2>2. \A m \in Name : m # n /\ Revoking(m) => Revoking(m)'
    BY <2>1 DEF Revoking
  <2>3. \A t \in Token : sessions'[t] # None => sessions'[t] = sessions[t]
                                                /\ sessions[t].user # n
    BY <2>1 DEF SessionsWithout
  <2> QED
    BY <2>1, <2>2, <2>3 DEF SessionInv
<1>8. CASE Logout(r)
  BY <1>8, Returns, FlagsKept DEF Logout, Existing, TypeOK
<1> QED
  BY <1>1, <1>2, <1>3, <1>4, <1>5, <1>6, <1>7, <1>8 DEF AccountStep

\* Every step keeps SessionInv.
LEMMA SessionStep ==
  ASSUME IInv, [Next]_vars
  PROVE  SessionInv'
<1> USE DEF IInv, StoreInv
<1>1. ASSUME NEW r \in Request, LoginStep(r) \/ AccountStep(r)
      PROVE  SessionInv'
  BY <1>1, LoginSessions, AccountSessions
<1>2. ASSUME NEW r \in Request, NEW n \in Name, StartSetup(r, n) \/ StartLogin(r, n)
      PROVE  SessionInv'
  BY <1>2, FlagsKept DEF StartSetup, StartLogin, Goto, Existing, TypeOK
<1>3. ASSUME NEW r \in Request, NEW t \in Token, NEW n \in Name, NEW o \in AdminOp \cup OwnOp,
             NEW role \in Role \cup {"none"}, Gate(r, t, o, n, role)
      PROVE  SessionInv'
  BY <1>3, FlagsKept DEF Gate, Goto, Existing, TypeOK
<1>4. CASE (\E t \in Token : Forget(t)) \/ UNCHANGED vars
  BY <1>4, SameSessions DEF Forget, vars, Revoking, Existing, TypeOK
<1>5. ASSUME NEW n \in Name, LockExpires(n)
      PROVE  SessionInv'
  <2>1. ASSUME NEW u \in Account
        PROVE  [u EXCEPT !.locked = FALSE] \in Account /\ [u EXCEPT !.locked = FALSE].must = u.must
    BY DEF Account
  <2>2. \A m \in Existing : m \in Existing' /\ users'[m].must = users[m].must
    BY <1>5, <2>1, NoneAssumption DEF LockExpires, Existing, TypeOK
  <2> QED
    BY <1>5, <2>2, SameSessions DEF LockExpires, Revoking
<1>6. CASE Restart
  BY <1>6 DEF Restart, SessionInv
<1>7. CASE \E n \in Name : Bootstrap(n)
  BY <1>7, SameSessions DEF Bootstrap, Revoking
<1> QED
  BY <1>1, <1>2, <1>3, <1>4, <1>5, <1>6, <1>7 DEF Next, AdminOp, OwnOp, Role

--------------------------------------------------------------------------------
\* Theorems

\* IInv holds at every step of every execution (auth.go as a whole).
THEOREM Invariance == Spec => []IInv
<1>1. Init => IInv
  BY LimitAssumption DEF Init, IInv, StoreInv, SessionInv, TypeOK, StoresAgree, AdminRemains,
                         EmptyIn, JobInv, NoJob, At
<1>2. IInv /\ [Next]_vars => IInv'
  BY TypeStep, StoreStep, JobStep, SessionStep DEF IInv, StoreInv
<1> QED
  BY <1>1, <1>2, PTL DEF Spec

\* The variables keep their types, and never are more passwords hashed at a
\* time than the limiter allows (loginLimiter.acquire and release).
THEOREM TypeCorrect == Spec => []TypeOK
BY Invariance, PTL DEF IInv, StoreInv

\* However administrators create and delete accounts at the same time, and
\* whatever saves fail, a store with accounts has an administrator (deleteUser).
THEOREM AdministratorRemains == Spec => []AdminRemains
BY Invariance, PTL DEF IInv, StoreInv

\* A server that dies at any moment starts again with the accounts and the
\* roles it had (createUser and deleteUser undo what could not be saved).
THEOREM StoresAlwaysAgree == Spec => []StoresAgree
BY Invariance, PTL DEF IInv, StoreInv

\* A session of an account that owes a new password is confined, with the
\* exemptions RotationIsEnforced names (W-02: establishSession, setPassword and
\* destroyUserSessions, in any order).
THEOREM RotationEnforced == Spec => []RotationIsEnforced
<1>1. IInv => RotationIsEnforced
  BY DEF IInv, SessionInv, RotationIsEnforced, Revoking
<1> QED
  BY <1>1, Invariance, PTL

--------------------------------------------------------------------------------
\* Refinement

\* The register as Accounts holds it.
Roles == [n \in Name |-> IF users[n] = None THEN None ELSE users[n].role]

\* What the register holds, in terms of the store.
LEMMA RoleTypes ==
  ASSUME TypeOK
  PROVE  /\ \A n \in Name : Roles[n] = None <=> users[n] = None
         /\ \A n \in Name : users[n] # None => Roles[n] = users[n].role
         /\ Register!Held = Existing
         /\ Register!Admins = {n \in Existing : users[n].role = "admin"}
BY NoneAssumption DEF Roles, TypeOK, Account, Role, Existing, Register!Held, Register!Admins

\* Adding an account adds it to the register; deleting one that may go is
\* deleting one there; every other step leaves the register as it is.
LEMMA RegisterStep ==
  ASSUME IInv, IInv', [Next]_vars
  PROVE  Register!Next \/ Roles' = Roles
<1> USE DEF IInv, StoreInv
<1>1. CASE SameRoles(users, users')
  BY <1>1 DEF SameRoles, Roles
<1>2. ASSUME NEW r \in Request, CreateUser(r)
      PROVE  Register!Next
  <2> DEFINE n == job[r].name
  <2>1. /\ n \in Name /\ users[n] = None /\ Cardinality(Existing) < MaxUsers
        /\ job[r].role = "admin" \/ (job[r].role = "user" /\ AdminIn(users))
    BY <1>2 DEF CreateUser, Storable, JobInv
  <2>2. users' = [users EXCEPT ![n] = NewAccount(r)]
    BY <1>2 DEF CreateUser
  <2>3. NewAccount(r) \in Account /\ NewAccount(r).role = job[r].role
    BY <2>1, LimitAssumption DEF NewAccount, Account, Role
  <2>4. Roles' = [Roles EXCEPT ![n] = job[r].role]
    BY <2>1, <2>2, <2>3, NoneAssumption DEF Roles, TypeOK
  <2>5. job[r].role = "user" => Register!Admins # {}
    BY <2>1, RoleTypes DEF AdminIn, Existing
  <2>6. Register!Cardinality(Existing) = Cardinality(Existing)
    BY DEF Register!Cardinality, Cardinality
  <2>7. PICK m \in Name, role \in Role : m = n /\ role = job[r].role
    BY <2>1 DEF Role
  <2>8. Register!Create(m, role)
    BY <2>1, <2>4, <2>5, <2>6, <2>7, RoleTypes DEF Register!Create, Roles
  <2> QED
    BY <2>8 DEF Register!Next, Register!Role, Role
<1>3. ASSUME NEW r \in Request, DeleteUser(r)
      PROVE  Register!Next
  <2> DEFINE n == job[r].name
  <2>1. n \in Name /\ users[n] # None /\ users' = [users EXCEPT ![n] = None]
    BY <1>3 DEF DeleteUser, Deletable, JobInv
  <2>2. Roles' = [Roles EXCEPT ![n] = None]
    BY <2>1 DEF Roles, TypeOK
  <2>3. PICK m \in Existing : m # n /\ users[m].role = "admin"
    <3>1. CASE users[n].role = "admin"
      BY <1>3, <3>1 DEF DeleteUser, Deletable
    <3>2. CASE users[n].role # "admin"
      BY <2>1, <3>2 DEF AdminRemains, EmptyIn, AdminIn, Existing
    <3> QED
      BY <3>1, <3>2
  <2>4. Register!Admins \ {n} # {}
    BY <2>3, RoleTypes
  <2>5. PICK k \in Name : k = n
    BY <2>1
  <2>6. Register!Delete(k)
    BY <2>1, <2>2, <2>4, <2>5, RoleTypes DEF Register!Delete, Roles
  <2> QED
    BY <2>6 DEF Register!Next
<1>4. ASSUME NEW n \in Name, Bootstrap(n)
      PROVE  Register!Next
  <2> DEFINE u == [role |-> "admin", must |-> FALSE, failed |-> 0, locked |-> FALSE]
  <2>1. /\ users[n] = None /\ Cardinality(Existing) < MaxUsers
        /\ users' = [users EXCEPT ![n] = u]
    BY <1>4 DEF Bootstrap, Existing
  <2>2. u # None /\ u.role = "admin"
    BY FirstAccount
  <2>3. Roles' = [Roles EXCEPT ![n] = "admin"]
    BY <2>1, <2>2 DEF Roles, TypeOK
  <2>4. Register!Cardinality(Existing) = Cardinality(Existing)
    BY DEF Register!Cardinality, Cardinality
  <2>5. Register!Create(n, "admin")
    BY <2>1, <2>3, <2>4, RoleTypes DEF Register!Create, Roles
  <2> QED
    BY <2>5 DEF Register!Next, Register!Role
<1> QED
  BY <1>1, <1>2, <1>3, <1>4, RolesOrOneAccount

\* The accounts are a register: they change one at a time, the first is an
\* administrator, the last administrator stays, and a restart changes nothing
\* (createUser, deleteUser, NewAuthManager).
THEOREM Refinement == Spec => ImplementsRegister
<1>1. Init => Register!Init
  BY DEF Init, Register!Init
<1>2. IInv /\ IInv' /\ [Next]_vars => [Register!Next]_Roles
  BY RegisterStep
<1> QED
  BY <1>1, <1>2, Invariance, PTL DEF Spec, ImplementsRegister, Register!Spec, Roles

--------------------------------------------------------------------------------
\* The login limiter: the inductive invariant

\* Only login and setup wait for a slot or verify a password for a login.
PhaseInv ==
  \A r \in Request :
    /\ at[r] \in {"acquire", "read", "write"} => job[r].op \in Throttled
    /\ at[r] = "idle" => job[r].op = "none"

\* The requests that hold a slot, and the attempts on an account that are being
\* verified: these hold one.
Holding == {r \in Request : job[r].op \in Throttled /\ at[r] # "acquire"}
Writing(n) == {r \in Request : at[r] = "write" /\ job[r].name = n}

SlotInv == PhaseInv /\ IsFiniteSet(Holding) /\ SlotsAreHeld

LimiterInv == StoreInv /\ SlotInv /\ LockStopsAttempts

--------------------------------------------------------------------------------
\* Lemmas on single steps

\* A request moves on and keeps its slot, or has none before and after.
LEMMA Passes ==
  ASSUME PhaseInv, NEW r \in Request,
         \A q \in Request \ {r} : at'[q] = at[q] /\ job'[q] = job[q],
         at[r] # "acquire", at'[r] \notin {"acquire", "idle"}, job'[r].op = job[r].op,
         at'[r] \in {"read", "write"} => job[r].op \in Throttled
  PROVE  PhaseInv' /\ Holding' = Holding
BY DEF PhaseInv, Holding

\* A handler that returns gives back the slot it has, and no other.
LEMMA GivesBack ==
  ASSUME TypeOK, PhaseInv, NEW r \in Request, Return(r), at[r] # "acquire"
  PROVE  /\ PhaseInv' /\ Holding' = Holding \ {r}
         /\ slots' = IF r \in Holding /\ slots > 0 THEN slots - 1 ELSE slots
         /\ \A n : Writing(n)' = Writing(n) \ {r}
<1>1. /\ at'[r] = "idle" /\ job'[r].op = "none" /\ job'[r] = NoJob
      /\ \A q \in Request \ {r} : at'[q] = at[q] /\ job'[q] = job[q]
  BY DEF Return, Goto, TypeOK, NoJob
<1>2. PhaseInv' /\ Holding' = Holding \ {r}
  BY <1>1 DEF PhaseInv, Holding, Throttled
<1>3. slots' = IF r \in Holding /\ slots > 0 THEN slots - 1 ELSE slots
  BY DEF Return, SlotsAfter, Holding
<1> QED
  BY <1>1, <1>2, <1>3 DEF Writing

--------------------------------------------------------------------------------
\* The slots

\* What a step may do to the slots and the requests that hold them.
SlotCases ==
  \/ Holding' = Holding /\ slots' = slots
  \/ \E r \in Request : r \notin Holding /\ Holding' = Holding \cup {r} /\ slots' = slots + 1
  \/ \E r \in Request : /\ Holding' = Holding \ {r}
                        /\ slots' = IF r \in Holding /\ slots > 0 THEN slots - 1 ELSE slots
  \/ Holding' = {} /\ slots' = 0

LEMMA SlotStep ==
  ASSUME TypeOK, PhaseInv, [Next]_vars
  PROVE  PhaseInv' /\ SlotCases
<1> USE DEF TypeOK
<1>1. ASSUME NEW r \in Request, NEW n \in Name, StartSetup(r, n) \/ StartLogin(r, n)
      PROVE  PhaseInv' /\ SlotCases
  <2>1. /\ at[r] = "idle" /\ at'[r] = "acquire" /\ job'[r].op \in Throttled /\ slots' = slots
        /\ \A q \in Request \ {r} : at'[q] = at[q] /\ job'[q] = job[q]
    <3>1. /\ at[r] = "idle" /\ at' = [at EXCEPT ![r] = "acquire"] /\ slots' = slots
          /\ \E v : v.op \in Throttled /\ job' = [job EXCEPT ![r] = v]
      <4>1. CASE StartSetup(r, n)
        <5> DEFINE v == [NoJob EXCEPT !.op = "setup", !.name = n, !.role = "admin"]
        <5>1. v.op \in Throttled
          BY DEF NoJob, Throttled
        <5>2. /\ at[r] = "idle" /\ at' = [at EXCEPT ![r] = "acquire"] /\ slots' = slots
              /\ job' = [job EXCEPT ![r] = v]
          BY <4>1 DEF StartSetup, Goto
        <5> HIDE DEF v
        <5> QED
          BY <5>1, <5>2
      <4>2. CASE StartLogin(r, n)
        <5> DEFINE v == [NoJob EXCEPT !.op = "login", !.name = n]
        <5>1. v.op \in Throttled
          BY DEF NoJob, Throttled
        <5>2. /\ at[r] = "idle" /\ at' = [at EXCEPT ![r] = "acquire"] /\ slots' = slots
              /\ job' = [job EXCEPT ![r] = v]
          BY <4>2 DEF StartLogin, Goto
        <5> HIDE DEF v
        <5> QED
          BY <5>1, <5>2
      <4> QED
        BY <1>1, <4>1, <4>2
    <3> QED
      BY <3>1
  <2>2. job[r].op \notin Throttled
    BY <2>1 DEF PhaseInv, Throttled
  <2>3. PhaseInv'
    BY <2>1 DEF PhaseInv
  <2>4. Holding' = Holding
    BY <2>1, <2>2 DEF Holding
  <2> QED
    BY <2>1, <2>3, <2>4 DEF SlotCases
<1>2. ASSUME NEW r \in Request, NEW t \in Token, NEW n \in Name, NEW role,
             NEW o \in AdminOp \cup OwnOp, Gate(r, t, o, n, role)
      PROVE  PhaseInv' /\ SlotCases
  <2>1. o \notin Throttled /\ First[o] \notin {"idle", "acquire", "read", "write"} /\ at[r] = "idle"
    BY <1>2 DEF AdminOp, OwnOp, Throttled, First, Gate
  <2>2. /\ at'[r] = First[o] /\ job'[r].op = o /\ slots' = slots
        /\ \A q \in Request \ {r} : at'[q] = at[q] /\ job'[q] = job[q]
    BY <1>2 DEF Gate, Goto, NoJob
  <2>3. job[r].op \notin Throttled
    BY <2>1 DEF PhaseInv, Throttled
  <2> QED
    BY <2>1, <2>2, <2>3 DEF PhaseInv, Holding, SlotCases
<1>3. ASSUME NEW r \in Request, Acquire(r) \/ Shed(r)
      PROVE  PhaseInv' /\ SlotCases
  <2>1. CASE Acquire(r)
    <3>1. /\ at[r] = "acquire" /\ at'[r] \in {"store", "read"} /\ job' = job /\ slots' = slots + 1
          /\ \A q \in Request \ {r} : at'[q] = at[q]
      BY <2>1 DEF Acquire, Goto
    <3>2. PhaseInv'
      BY <3>1 DEF PhaseInv
    <3>3. r \notin Holding /\ Holding' = Holding \cup {r}
      BY <3>1 DEF PhaseInv, Holding
    <3> QED
      BY <3>1, <3>2, <3>3 DEF SlotCases
  <2>2. CASE Shed(r)
    BY <2>2 DEF Shed, Goto, NoJob, PhaseInv, Holding, SlotCases, Throttled
  <2> QED
    BY <1>3, <2>1, <2>2
<1>4. ASSUME NEW r \in Request, Return(r), at[r] # "acquire"
      PROVE  PhaseInv' /\ SlotCases
  BY <1>4, GivesBack DEF SlotCases
<1>5. ASSUME NEW r \in Request,
             \/ AuthRead(r) \/ AuthSucceeds(r) \/ DeleteUser(r) \/ VerifyUser(r) \/ View(r)
             \/ CreateUser(r) /\ at'[r] = "mint"
             \/ SetPassword(r) /\ at'[r] = "revoke"
             \/ Revoke(r) /\ at'[r] = "view"
      PROVE  PhaseInv' /\ SlotCases
  <2>1. /\ at[r] \notin {"acquire", "idle"} /\ at'[r] \notin {"acquire", "idle"}
        /\ job'[r].op = job[r].op /\ slots' = slots
        /\ \A q \in Request \ {r} : at'[q] = at[q] /\ job'[q] = job[q]
        /\ at'[r] \in {"read", "write"} => at[r] = "read"
    BY <1>5 DEF AuthRead, AuthSucceeds, DeleteUser, VerifyUser, View, CreateUser, SetPassword,
                Revoke, Return, Goto
  <2> QED
    BY <2>1, Passes DEF PhaseInv, SlotCases
<1>6. ASSUME NEW r \in Request, LoginStep(r) \/ AccountStep(r)
      PROVE  PhaseInv' /\ SlotCases
  <2>1. CASE \/ AuthFails(r) \/ AuthRefused(r) \/ Mint(r) \/ MintFails(r) \/ CreateFails(r)
             \/ DeleteFails(r) \/ VerifyFails(r) \/ SetFails(r) \/ UnlockUser(r)
             \/ UnlockFails(r) \/ Logout(r)
    BY <1>4, <2>1 DEF AuthFails, AuthRefused, Mint, MintFails, CreateFails, DeleteFails,
                      VerifyFails, SetFails, UnlockUser, UnlockFails, Logout, Refuse
  <2>2. CASE CreateUser(r) \/ SetPassword(r) \/ Revoke(r)
    BY <1>4, <1>5, <2>2 DEF CreateUser, SetPassword, Revoke, Goto
  <2> QED
    BY <1>3, <1>5, <1>6, <2>1, <2>2 DEF LoginStep, AccountStep
<1>7. CASE Restart
  BY <1>7 DEF Restart, NoJob, PhaseInv, Holding, SlotCases, Throttled
<1>8. CASE \/ \E t \in Token : Forget(t)
           \/ \E n \in Name : LockExpires(n) \/ Bootstrap(n)
           \/ UNCHANGED vars
  BY <1>8 DEF Forget, LockExpires, Bootstrap, vars, PhaseInv, Holding, SlotCases
<1>9. CASE \E r \in Request, t \in Token, n \in Name :
             \/ \E o \in (AdminOp \cup OwnOp) \ {"create"} : Gate(r, t, o, n, "none")
             \/ \E role \in Role : Gate(r, t, "create", n, role)
  <2>1. "create" \in AdminOp \cup OwnOp
    BY DEF AdminOp
  <2> QED
    BY <1>2, <1>9, <2>1
<1> QED
  BY <1>1, <1>6, <1>7, <1>8, <1>9 DEF Next

\* So the slots taken stay those of the requests that hold them.
LEMMA SlotsStep ==
  ASSUME TypeOK, SlotInv, [Next]_vars
  PROVE  SlotInv'
<1>1. PhaseInv' /\ SlotCases
  BY SlotStep DEF SlotInv
<1>2. /\ IsFiniteSet(Holding) /\ slots = Cardinality(Holding) /\ slots \in Nat
  BY FS_CardinalityType DEF SlotInv, SlotsAreHeld, Holding
<1>3. IsFiniteSet(Holding') /\ slots' = Cardinality(Holding')
  <2>1. ASSUME NEW r \in Request, r \notin Holding, Holding' = Holding \cup {r}, slots' = slots + 1
        PROVE  IsFiniteSet(Holding') /\ slots' = Cardinality(Holding')
    BY <1>2, <2>1, FS_AddElement
  <2>2. ASSUME NEW r \in Request, Holding' = Holding \ {r},
               slots' = IF r \in Holding /\ slots > 0 THEN slots - 1 ELSE slots
        PROVE  IsFiniteSet(Holding') /\ slots' = Cardinality(Holding')
    <3>1. r \in Holding => slots > 0
      BY <1>2, FS_EmptySet
    <3> QED
      BY <1>2, <2>2, <3>1, FS_RemoveElement
  <2> QED
    BY <1>1, <1>2, <2>1, <2>2, FS_EmptySet DEF SlotCases
<1> QED
  BY <1>1, <1>3 DEF SlotInv, SlotsAreHeld, Holding

--------------------------------------------------------------------------------
\* The lock

\* What a step may do to the attempts on an account it leaves locked.
LockCases(n) ==
  users'[n] # None /\ users'[n].locked =>
    \/ users[n] # None /\ users[n].locked /\ Writing(n)' \subseteq Writing(n)
    \/ \E r \in Writing(n) : Writing(n)' = Writing(n) \ {r}
    \/ Writing(n)' = {}

\* A step that locks no account and begins no verification.
LEMMA LocksNone ==
  ASSUME NEW r \in Request, \A q \in Request \ {r} : at'[q] = at[q] /\ job'[q] = job[q],
         at'[r] # "write",
         \A n \in Name : users'[n] = users[n] \/ users'[n] = None \/ ~users'[n].locked
  PROVE  \A n \in Name : LockCases(n)
<1>1. \A n \in Name : Writing(n)' \subseteq Writing(n)
  BY DEF Writing
<1> QED
  BY <1>1 DEF LockCases

\* An account changed to a value that is not locked.
LEMMA Unlocks ==
  ASSUME TypeOK, NEW m \in Name, NEW u, users' = [users EXCEPT ![m] = u], u = None \/ ~u.locked
  PROVE  \A n \in Name : users'[n] = users[n] \/ users'[n] = None \/ ~users'[n].locked
BY DEF TypeOK

LEMMA LockStep ==
  ASSUME StoreInv, PhaseInv, [Next]_vars
  PROVE  \A n \in Name : LockCases(n)
<1> USE DEF StoreInv
<1>1. ASSUME NEW r \in Request, NEW n \in Name, StartSetup(r, n) \/ StartLogin(r, n)
      PROVE  \A m \in Name : LockCases(m)
  <2>1. /\ at'[r] # "write" /\ users' = users
        /\ \A q \in Request \ {r} : at'[q] = at[q] /\ job'[q] = job[q]
    BY <1>1 DEF StartSetup, StartLogin, Goto, TypeOK
  <2> QED
    BY <2>1, LocksNone
<1>2. ASSUME NEW r \in Request, NEW t \in Token, NEW n \in Name, NEW role,
             NEW o \in AdminOp \cup OwnOp, Gate(r, t, o, n, role)
      PROVE  \A m \in Name : LockCases(m)
  <2>1. First[o] # "write"
    BY DEF AdminOp, OwnOp, First
  <2>2. /\ at'[r] # "write" /\ users' = users
        /\ \A q \in Request \ {r} : at'[q] = at[q] /\ job'[q] = job[q]
    BY <1>2, <2>1 DEF Gate, Goto, TypeOK
  <2> QED
    BY <2>2, LocksNone
<1>3. ASSUME NEW r \in Request, AuthRead(r)
      PROVE  \A m \in Name : LockCases(m)
  <2>1. /\ users' = users /\ Admits(job[r].name) /\ at[r] = "read"
        /\ job'[r].name = job[r].name
        /\ \A q \in Request \ {r} : at'[q] = at[q] /\ job'[q] = job[q]
    BY <1>3 DEF AuthRead, Goto, TypeOK
  <2>2. \A m \in Name : m # job[r].name => Writing(m)' \subseteq Writing(m)
    BY <2>1 DEF Writing
  <2> QED
    BY <2>1, <2>2 DEF LockCases, Admits
<1>4. ASSUME NEW r \in Request, AuthFails(r)
      PROVE  \A m \in Name : LockCases(m)
  <2>1. \A m : Writing(m)' = Writing(m) \ {r}
    BY <1>4, GivesBack DEF AuthFails
  <2>2. \A m \in Name : m # job[r].name => users'[m] = users[m]
    BY <1>4 DEF AuthFails, TypeOK
  <2>3. r \in Writing(job[r].name)
    BY <1>4 DEF AuthFails, Writing
  <2> QED
    BY <2>1, <2>2, <2>3 DEF LockCases
<1>5. ASSUME NEW r \in Request,
             \/ LoginStep(r) /\ ~AuthRead(r) /\ ~AuthFails(r)
             \/ AccountStep(r)
      PROVE  \A m \in Name : LockCases(m)
  <2>1. /\ at'[r] # "write"
        /\ \A q \in Request \ {r} : at'[q] = at[q] /\ job'[q] = job[q]
    BY <1>5 DEF LoginStep, AccountStep, Acquire, Shed, AuthSucceeds, AuthRefused, Mint, MintFails,
                CreateUser, CreateFails, DeleteUser, DeleteFails, VerifyUser, VerifyFails,
                SetPassword, SetFails, UnlockUser, UnlockFails, Revoke, View, Logout, Refuse,
                Return, Goto, TypeOK
  <2>2. \A m \in Name : users'[m] = users[m] \/ users'[m] = None \/ ~users'[m].locked
    <3> DEFINE n == job[r].name
    <3>1. ASSUME AuthSucceeds(r)
          PROVE  \A m \in Name : users'[m] = users[m] \/ users'[m] = None \/ ~users'[m].locked
      <4>1. n \in Name /\ users[n] \in Account
        BY <3>1 DEF AuthSucceeds, JobInv, TypeOK
      <4>2. users' = [users EXCEPT ![n].failed = 0, ![n].locked = FALSE]
        BY <3>1 DEF AuthSucceeds
      <4> QED
        BY <4>1, <4>2 DEF TypeOK, Account
    <3>2. ASSUME CreateUser(r)
          PROVE  \A m \in Name : users'[m] = users[m] \/ users'[m] = None \/ ~users'[m].locked
      <4>1. n \in Name /\ users' = [users EXCEPT ![n] = NewAccount(r)] /\ ~NewAccount(r).locked
        BY <3>2 DEF CreateUser, NewAccount, JobInv
      <4> QED
        BY <4>1, Unlocks
    <3>3. ASSUME DeleteUser(r)
          PROVE  \A m \in Name : users'[m] = users[m] \/ users'[m] = None \/ ~users'[m].locked
      BY <3>3 DEF DeleteUser, TypeOK
    <3>4. ASSUME SetPassword(r) \/ UnlockUser(r)
          PROVE  \A m \in Name : users'[m] = users[m] \/ users'[m] = None \/ ~users'[m].locked
      <4>1. n \in Name /\ users[n] \in Account
        BY <3>4 DEF SetPassword, UnlockUser, JobInv, TypeOK
      <4>2. Cleared(users[n]) \in Account /\ ~Cleared(users[n]).locked
        <5>1. 0 \in 0..MaxFailedLogins
          BY LimitAssumption
        <5> QED
          BY <4>1, <5>1 DEF Cleared, Account
      <4>3. PICK u : users' = [users EXCEPT ![n] = u] /\ ~u.locked
        BY <3>4, <4>2 DEF SetPassword, UnlockUser, Account
      <4> QED
        BY <4>1, <4>3, Unlocks
    <3>5. CASE ~AuthSucceeds(r) /\ ~CreateUser(r) /\ ~DeleteUser(r) /\ ~SetPassword(r) /\ ~UnlockUser(r)
      BY <1>5, <3>5 DEF LoginStep, AccountStep, Acquire, Shed, AuthRefused, Mint, MintFails,
                        CreateFails, AfterFailedCreate, DeleteFails, VerifyUser, VerifyFails, SetFails,
                        UnlockFails, Revoke, View, Logout, Refuse
    <3> QED
      BY <3>1, <3>2, <3>3, <3>4, <3>5
  <2> QED
    BY <2>1, <2>2, LocksNone
<1>6. CASE Restart
  BY <1>6 DEF Restart, Writing, LockCases
<1>7. ASSUME NEW n \in Name, LockExpires(n) \/ Bootstrap(n)
      PROVE  \A m \in Name : LockCases(m)
  <2>1. PICK u : users' = [users EXCEPT ![n] = u] /\ (u = None \/ ~u.locked)
    <3>1. CASE LockExpires(n)
      <4>1. users[n] \in Account => ~[users[n] EXCEPT !.locked = FALSE].locked
        BY DEF Account
      <4>2. users' = [users EXCEPT ![n] = IF users[n] = None THEN None
                                          ELSE [users[n] EXCEPT !.locked = FALSE]]
        BY <3>1 DEF LockExpires
      <4> QED
        BY <4>1, <4>2 DEF TypeOK
    <3>2. CASE Bootstrap(n)
      <4> DEFINE u == [role |-> "admin", must |-> FALSE, failed |-> 0, locked |-> FALSE]
      <4>1. ~u.locked
        OBVIOUS
      <4>2. users' = [users EXCEPT ![n] = u]
        BY <3>2 DEF Bootstrap
      <4> HIDE DEF u
      <4> QED
        BY <4>1, <4>2
    <3> QED
      BY <1>7, <3>1, <3>2
  <2>2. \A m \in Name : Writing(m)' = Writing(m)
    BY <1>7 DEF LockExpires, Bootstrap, Writing
  <2>3. \A m \in Name : users'[m] = users[m] \/ users'[m] = None \/ ~users'[m].locked
    BY <2>1, Unlocks
  <2> QED
    BY <2>2, <2>3 DEF LockCases
<1>8. CASE (\E t \in Token : Forget(t)) \/ UNCHANGED vars
  BY <1>8 DEF Forget, vars, Writing, LockCases
<1>9. CASE \E r \in Request, t \in Token, n \in Name :
             \/ \E o \in (AdminOp \cup OwnOp) \ {"create"} : Gate(r, t, o, n, "none")
             \/ \E role \in Role : Gate(r, t, "create", n, role)
  <2>1. "create" \in AdminOp \cup OwnOp
    BY DEF AdminOp
  <2> QED
    BY <1>2, <1>9, <2>1
<1> QED
  BY <1>1, <1>3, <1>4, <1>5, <1>6, <1>7, <1>8, <1>9 DEF Next

\* A verification holds a slot: the attempts that are left when an account gets
\* locked are fewer than the slots, since the one that failed is gone.
LEMMA AttemptsBounded ==
  ASSUME StoreInv, SlotInv, LockStopsAttempts, [Next]_vars
  PROVE  LockStopsAttempts'
<1>1. ASSUME NEW n \in Name, users'[n] # None /\ users'[n].locked
      PROVE  Cardinality(Writing(n)') < LoginMaxConcurrent
  <2>1. Writing(n) \in SUBSET Holding
    BY DEF SlotInv, PhaseInv, Writing, Holding
  <2>2. /\ IsFiniteSet(Writing(n)) /\ Cardinality(Writing(n)) \in Nat
        /\ Cardinality(Writing(n)) <= LoginMaxConcurrent
    <3>1. IsFiniteSet(Writing(n)) /\ Cardinality(Writing(n)) <= Cardinality(Holding)
      BY <2>1, FS_Subset DEF SlotInv
    <3>2. Cardinality(Writing(n)) \in Nat
      BY <3>1, FS_CardinalityType
    <3>3. Cardinality(Holding) = slots /\ slots \in 0..LoginMaxConcurrent
      BY DEF SlotInv, SlotsAreHeld, Holding, StoreInv, TypeOK
    <3> QED
      BY <3>1, <3>2, <3>3, LimitAssumption
  <2>3. LockCases(n)
    BY LockStep DEF SlotInv
  <2>4. CASE users[n] # None /\ users[n].locked /\ Writing(n)' \subseteq Writing(n)
    <3>1. Cardinality(Writing(n)) < LoginMaxConcurrent
      BY <2>4 DEF LockStopsAttempts, Writing
    <3>2. Cardinality(Writing(n)') <= Cardinality(Writing(n)) /\ Cardinality(Writing(n)') \in Nat
      BY <2>2, <2>4, FS_Subset, FS_CardinalityType
    <3> QED
      BY <2>2, <3>1, <3>2, LimitAssumption
  <2>5. ASSUME NEW r \in Writing(n), Writing(n)' = Writing(n) \ {r}
        PROVE  Cardinality(Writing(n)') < LoginMaxConcurrent
    <3>1. Cardinality(Writing(n)') = Cardinality(Writing(n)) - 1
      BY <2>2, <2>5, FS_RemoveElement
    <3> QED
      BY <2>2, <3>1, LimitAssumption
  <2>6. CASE Writing(n)' = {}
    BY <2>6, FS_EmptySet, LimitAssumption
  <2> QED
    BY <1>1, <2>3, <2>4, <2>5, <2>6 DEF LockCases
<1> QED
  BY <1>1 DEF LockStopsAttempts, Writing

--------------------------------------------------------------------------------
\* Theorems

\* Every reachable state satisfies the inductive invariant of the limiter, for any
\* number of requests, slots and failures that lock an account.
THEOREM LimiterInvariance == Spec => []LimiterInv
<1>1. Init => SlotInv /\ LockStopsAttempts
  <2> SUFFICES ASSUME Init PROVE SlotInv /\ LockStopsAttempts
    OBVIOUS
  <2>1. PhaseInv /\ Holding = {} /\ slots = 0
    BY DEF Init, PhaseInv, Holding, NoJob, Throttled
  <2>2. SlotInv
    BY <2>1, FS_EmptySet DEF SlotInv, SlotsAreHeld, Holding
  <2>3. LockStopsAttempts
    BY DEF Init, LockStopsAttempts
  <2> QED
    BY <2>2, <2>3
<1>2. StoreInv /\ StoreInv' /\ SlotInv /\ LockStopsAttempts /\ [Next]_vars
        => SlotInv' /\ LockStopsAttempts'
  BY SlotsStep, AttemptsBounded DEF StoreInv
<1>3. IInv => StoreInv
  BY DEF IInv
<1> QED
  BY <1>1, <1>2, <1>3, Invariance, PTL DEF Spec, LimiterInv

\* A slot is taken exactly for each request that hashes a password (acquire and release
\* of loginLimiter, handleAuthLogin, handleAuthSetup).
THEOREM SlotsAccounted == Spec => []SlotsAreHeld
BY LimiterInvariance, PTL DEF LimiterInv, SlotInv

\* A locked account has fewer attempts left than the limiter has slots (authenticate).
THEOREM LockIsEffective == Spec => []LockStopsAttempts
BY LimiterInvariance, PTL DEF LimiterInv
================================================================================
