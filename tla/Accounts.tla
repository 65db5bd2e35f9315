-------------------------------- MODULE Accounts --------------------------------
(* The login panel of the web server (src/webui/auth.go): the user store with  *)
(* its file users.json, the sessions, the lockout, the login limiter, and the  *)
(* handlers, each a sequence of critical sections of AuthManager.mu with       *)
(* password hashing in between.                                                *)
(*                                                                             *)
(* Passwords are abstracted: a verification succeeds or fails. Requests carry  *)
(* the right CSRF token, and a session of Token stands for its cookie.         *)
EXTENDS Naturals, FiniteSets

CONSTANTS
  Name,               \* normalized user names
  Token,              \* session tokens
  Request,            \* concurrent requests, each handled by a goroutine
  Forced,             \* W1R3HOUND_AUTH=required
  MaxUsers,           \* maxUsers
  MaxFailedLogins,    \* maxFailedLogins; the count saturates here
  LoginMaxConcurrent, \* capacity of loginLimiter.sem
  MaxSaveErrors,      \* bound: saves of login state or of a password that fail
  None

Role == {"admin", "user"}
Account == [role : Role, must : BOOLEAN, failed : 0..MaxFailedLogins, locked : BOOLEAN]

\* "known" says whether the account existed when the session was minted.
Session == [user : Name \cup {None}, role : Role \cup {"none"}, must : BOOLEAN,
            known : BOOLEAN]

ASSUME NoneAssumption == None \notin Name \cup Role \cup Account \cup Session
ASSUME LimitAssumption ==
  /\ MaxUsers \in Nat /\ MaxFailedLogins \in Nat \ {0}
  /\ LoginMaxConcurrent \in Nat \ {0} /\ MaxSaveErrors \in Nat
ASSUME SwitchAssumption == Forced \in BOOLEAN

VARIABLES
  users,    \* AuthManager.users: [Name -> account or None]
  disk,     \* what users.json holds
  sessions, \* AuthManager.sessions: [Token -> session or None]
  at,       \* what each request does next
  job,      \* its parameters and local variables
  slots,    \* slots taken in loginLimiter.sem
  errors,   \* saves that failed so far
  unrevoked \* accounts changed by a setPassword that reported an error

storeVars == <<users, disk, errors, unrevoked>>
requestVars == <<at, job>>
vars == <<storeVars, sessions, requestVars, slots>>

Throttled == {"setup", "login"}
AdminOp == {"create", "delete", "reset", "unlock"}
OwnOp == {"change", "logout"}
Op == Throttled \cup AdminOp \cup OwnOp
At == {"idle", "acquire", "store", "read", "write", "mint",
       "verify", "set", "revoke", "view", "delete", "unlock", "logout"}

NoJob == [op |-> "none", name |-> None, role |-> "none", token |-> None, ok |-> FALSE]

Existing == {n \in Name : users[n] # None}

\* Whether the login gate is active.
Enabled == Forced \/ Existing # {}

Init ==
  /\ users = [n \in Name |-> None] /\ disk = users
  /\ sessions = [t \in Token |-> None]
  /\ at = [r \in Request |-> "idle"]
  /\ job = [r \in Request |-> NoJob]
  /\ slots = 0
  /\ errors = 0 /\ unrevoked = {}

Goto(r, l) == at' = [at EXCEPT ![r] = l]

\* Mutant: the handlers do not give their slot back.
SlotsKept(r) == slots

\* release never blocks: an empty semaphore stays empty.
SlotsAfter(r) == IF job[r].op \in Throttled /\ slots > 0 THEN slots - 1 ELSE slots

\* The handler returns; login and setup deferred the release of their slot.
Return(r) ==
  /\ Goto(r, "idle")
  /\ job' = [job EXCEPT ![r] = NoJob]
  /\ slots' = SlotsAfter(r)

\* A request refused at this point by a check that changes nothing.
Refuse(r) == Return(r) /\ UNCHANGED <<storeVars, sessions>>

--------------------------------------------------------------------------------
\* Requests without a session: handleAuthSetup and handleAuthLogin

\* userCount is read long before createUser takes the lock.
StartSetup(r, n) ==
  /\ at[r] = "idle"
  /\ Existing = {}
  /\ Goto(r, "acquire")
  /\ job' = [job EXCEPT ![r] = [NoJob EXCEPT !.op = "setup", !.name = n, !.role = "admin"]]
  /\ UNCHANGED <<storeVars, sessions, slots>>

StartLogin(r, n) ==
  /\ at[r] = "idle"
  /\ Enabled
  /\ Goto(r, "acquire")
  /\ job' = [job EXCEPT ![r] = [NoJob EXCEPT !.op = "login", !.name = n]]
  /\ UNCHANGED <<storeVars, sessions, slots>>

SlotFree == slots < LoginMaxConcurrent

Acquire(r) ==
  /\ at[r] = "acquire"
  /\ SlotFree
  /\ slots' = slots + 1
  /\ Goto(r, IF job[r].op = "setup" THEN "store" ELSE "read")
  /\ UNCHANGED <<storeVars, sessions, job>>

\* 429: the token bucket is empty, or no slot frees up within
\* loginAcquireTimeout. Nothing to release.
Shed(r) ==
  /\ at[r] = "acquire"
  /\ Goto(r, "idle")
  /\ job' = [job EXCEPT ![r] = NoJob]
  /\ UNCHANGED <<storeVars, sessions, slots>>

--------------------------------------------------------------------------------
\* authenticate: a look at the account, the verification with no lock held,
\* and the outcome on the account as it is then

\* Mutant: the lock of the account is not looked at.
AdmitsLocked(n) == users[n] # None

Admits(n) == users[n] # None /\ ~users[n].locked

AuthRead(r) ==
  /\ at[r] = "read"
  /\ Admits(job[r].name)
  /\ \E ok \in BOOLEAN : job' = [job EXCEPT ![r].ok = ok]
  /\ Goto(r, "write")
  /\ UNCHANGED <<storeVars, sessions, slots>>

\* saveLocked: the file is replaced in one rename, or stays as it was.
Saved == disk' = users' /\ UNCHANGED errors
NotSaved == errors < MaxSaveErrors /\ errors' = errors + 1 /\ UNCHANGED disk

AuthFails(r) ==
  LET n == job[r].name
      count == IF users[n].failed < MaxFailedLogins THEN users[n].failed + 1
                                                    ELSE MaxFailedLogins IN
  /\ at[r] = "write" /\ ~job[r].ok
  /\ users[n] # None
  /\ users' = [users EXCEPT ![n].failed = count,
                            ![n].locked = @ \/ count = MaxFailedLogins]
  /\ Saved \/ NotSaved
  /\ Return(r)
  /\ UNCHANGED <<sessions, unrevoked>>

AuthSucceeds(r) ==
  LET n == job[r].name IN
  /\ at[r] = "write" /\ job[r].ok
  /\ users[n] # None
  /\ users' = [users EXCEPT ![n].failed = 0, ![n].locked = FALSE]
  /\ Saved \/ NotSaved
  /\ job' = [job EXCEPT ![r].role = users[n].role, ![r].ok = FALSE]
  /\ Goto(r, "mint")
  /\ UNCHANGED <<sessions, slots, unrevoked>>

\* Unknown or locked at the look, gone at the outcome.
AuthRefused(r) ==
  /\ \/ at[r] = "read" /\ ~Admits(job[r].name)
     \/ at[r] = "write" /\ users[job[r].name] = None
  /\ Refuse(r)

\* LockedUntil passes, in memory and in the file.
LockExpires(n) ==
  /\ \/ users[n] # None /\ users[n].locked
     \/ disk[n] # None /\ disk[n].locked
  /\ users' = [users EXCEPT ![n] = IF @ = None THEN None ELSE [@ EXCEPT !.locked = FALSE]]
  /\ disk' = [disk EXCEPT ![n] = IF @ = None THEN None ELSE [@ EXCEPT !.locked = FALSE]]
  /\ UNCHANGED <<errors, unrevoked, sessions, requestVars, slots>>

--------------------------------------------------------------------------------
\* Sessions: createSession, lookupSession, authGate

\* A token is new, so no logout in flight has presented it.
FreshToken(t) == sessions[t] = None /\ \A q \in Request : job[q].token # t

\* W-02: the account's flag as it is now; none if the account is gone.
MustAtMint(n) == n \in Existing /\ users[n].must

Mint(r) ==
  LET n == job[r].name IN
  /\ at[r] = "mint"
  /\ \E t \in Token :
       /\ FreshToken(t)
       /\ sessions' = [sessions EXCEPT ![t] = [user |-> n, role |-> job[r].role,
                          must |-> MustAtMint(n), known |-> n \in Existing]]
  /\ Return(r)
  /\ UNCHANGED <<storeVars>>

\* randToken returns an error.
MintFails(r) == at[r] = "mint" /\ Refuse(r)

\* lookupSession drops a session that timed out or has no account.
Forget(t) ==
  /\ sessions[t] # None
  /\ sessions' = [sessions EXCEPT ![t] = None]
  /\ UNCHANGED <<storeVars, requestVars, slots>>

\* What the handler of an operation does first.
First == [create |-> "store", delete |-> "delete", reset |-> "set", unlock |-> "unlock",
          change |-> "verify", logout |-> "logout"]

\* authGate, requireAdmin, and the check against deleting one's own account:
\* a copy of the session is all that the handler sees afterwards.
Gate(r, t, o, n, role) ==
  LET s == sessions[t] IN
  /\ at[r] = "idle"
  /\ s # None /\ s.user \in Existing
  /\ o \in AdminOp => ~s.must /\ s.role = "admin"
  /\ o \in OwnOp => n = s.user
  /\ o = "delete" => n # s.user
  /\ Goto(r, First[o])
  /\ job' = [job EXCEPT ![r] = [NoJob EXCEPT !.op = o, !.name = n, !.role = role,
                                !.token = IF o = "logout" THEN t ELSE None]]
  /\ UNCHANGED <<storeVars, sessions, slots>>

Logout(r) ==
  /\ at[r] = "logout"
  /\ sessions' = [sessions EXCEPT ![job[r].token] = None]
  /\ Return(r)
  /\ UNCHANGED <<storeVars>>

--------------------------------------------------------------------------------
\* Changes of the store: createUser, setPassword, deleteUser, unlockUser

\* Mutant: the role comes from the form, and the form of the setup has none.
RoleOfForm(r) == [role |-> IF job[r].op = "create" THEN job[r].role ELSE "none",
                  must |-> job[r].op = "create", failed |-> 0, locked |-> FALSE]

NewAccount(r) == [role |-> job[r].role, must |-> job[r].op = "create",
                  failed |-> 0, locked |-> FALSE]

\* Mutant: the name is not looked up again under the lock.
StorableAnyName(r) == Cardinality(Existing) < MaxUsers

Storable(r) == users[job[r].name] = None /\ Cardinality(Existing) < MaxUsers

CreateUser(r) ==
  /\ at[r] = "store"
  /\ Storable(r)
  /\ users' = [users EXCEPT ![job[r].name] = NewAccount(r)]
  /\ Saved
  /\ IF job[r].op = "setup" THEN Goto(r, "mint") /\ UNCHANGED <<job, slots>>
                            ELSE Return(r)
  /\ UNCHANGED <<sessions, unrevoked>>

\* bootstrapAdminFromEnv, at the start of the server: an empty store gets an
\* administrator before there are requests.
Bootstrap(n) ==
  /\ Existing = {} /\ Cardinality(Existing) < MaxUsers
  /\ \A r \in Request : at[r] = "idle"
  /\ users' = [users EXCEPT ![n] = [role |-> "admin", must |-> FALSE,
                                   failed |-> 0, locked |-> FALSE]]
  /\ Saved
  /\ UNCHANGED <<unrevoked, sessions, requestVars, slots>>

\* Mutant: an account that could not be saved stays in memory.
CreatedInMemory(r) ==
  IF Storable(r) THEN [users EXCEPT ![job[r].name] = NewAccount(r)] ELSE users

AfterFailedCreate(r) == users

\* Policy, taken name, full store, or a failed save, which is rolled back.
CreateFails(r) ==
  /\ at[r] = "store"
  /\ users' = AfterFailedCreate(r)
  /\ Return(r)
  /\ UNCHANGED <<disk, errors, unrevoked, sessions>>

\* Mutant: the last administrator is not protected.
AnyAccount(n) == users[n] # None

\* The last administrator stays.
Deletable(n) ==
  /\ users[n] # None
  /\ users[n].role = "admin" =>
       \E m \in Existing : m # n /\ users[m].role = "admin"

DeleteUser(r) ==
  LET n == job[r].name IN
  /\ at[r] = "delete"
  /\ Deletable(n)
  /\ users' = [users EXCEPT ![n] = None]
  /\ Saved
  /\ Goto(r, "revoke")
  /\ UNCHANGED <<unrevoked, sessions, job, slots>>

\* Not deletable, or a failed save, which is rolled back.
DeleteFails(r) == at[r] = "delete" /\ Refuse(r)

\* verifyUser, on the password of the session's own account.
VerifyUser(r) ==
  /\ at[r] = "verify"
  /\ users[job[r].name] # None
  /\ Goto(r, "set")
  /\ UNCHANGED <<storeVars, sessions, job, slots>>

VerifyFails(r) == at[r] = "verify" /\ Refuse(r)

Cleared(u) == [u EXCEPT !.failed = 0, !.locked = FALSE]

\* A password set by an administrator has to be changed. When the save fails
\* the account keeps the new password and the request is told that it failed.
SetPassword(r) ==
  LET n == job[r].name IN
  /\ at[r] = "set"
  /\ users[n] # None
  /\ users' = [users EXCEPT ![n] = [Cleared(@) EXCEPT !.must = job[r].op = "reset"]]
  /\ \/ /\ Saved
        /\ Goto(r, "revoke")
        /\ UNCHANGED <<unrevoked, job, slots>>
     \/ /\ NotSaved
        /\ unrevoked' = unrevoked \cup {n}
        /\ Return(r)
  /\ UNCHANGED <<sessions>>

\* The new password fails the policy, or the account is gone.
SetFails(r) == at[r] = "set" /\ Refuse(r)

\* unlockUser changes the account whether or not it can be saved.
UnlockUser(r) ==
  LET n == job[r].name IN
  /\ at[r] = "unlock"
  /\ users[n] # None
  /\ users' = [users EXCEPT ![n] = Cleared(@)]
  /\ Saved \/ NotSaved
  /\ Return(r)
  /\ UNCHANGED <<unrevoked, sessions>>

UnlockFails(r) == at[r] = "unlock" /\ users[job[r].name] = None /\ Refuse(r)

\* Mutant: the sessions of the account are left to time out.
SessionsKept(n) == sessions

SessionsWithout(n) ==
  [t \in Token |-> IF sessions[t] # None /\ sessions[t].user = n
                     THEN None ELSE sessions[t]]

\* destroyUserSessions, a critical section of its own.
Revoke(r) ==
  /\ at[r] = "revoke"
  /\ sessions' = SessionsWithout(job[r].name)
  /\ unrevoked' = unrevoked \ {job[r].name}
  /\ IF job[r].op = "change" THEN Goto(r, "view") /\ UNCHANGED <<job, slots>>
                             ELSE Return(r)
  /\ UNCHANGED <<users, disk, errors>>

\* userView before the new session; an account deleted meanwhile has no name.
View(r) ==
  LET n == job[r].name IN
  /\ at[r] = "view"
  /\ job' = [job EXCEPT ![r].role = IF users[n] = None THEN "none" ELSE users[n].role,
                        ![r].name = IF users[n] = None THEN None ELSE n]
  /\ Goto(r, "mint")
  /\ UNCHANGED <<storeVars, sessions, slots>>

--------------------------------------------------------------------------------

\* The server dies; NewAuthManager loads users.json.
Restart ==
  /\ users' = disk
  /\ unrevoked' = {}
  /\ sessions' = [t \in Token |-> None]
  /\ at' = [r \in Request |-> "idle"]
  /\ job' = [r \in Request |-> NoJob]
  /\ slots' = 0
  /\ UNCHANGED <<disk, errors>>

LoginStep(r) == \/ Acquire(r) \/ Shed(r)
                \/ AuthRead(r) \/ AuthFails(r) \/ AuthSucceeds(r) \/ AuthRefused(r)
                \/ Mint(r) \/ MintFails(r)

AccountStep(r) == \/ CreateUser(r) \/ CreateFails(r)
                  \/ DeleteUser(r) \/ DeleteFails(r)
                  \/ VerifyUser(r) \/ VerifyFails(r)
                  \/ SetPassword(r) \/ SetFails(r)
                  \/ UnlockUser(r) \/ UnlockFails(r)
                  \/ Revoke(r) \/ View(r) \/ Logout(r)

Next == \/ \E r \in Request, n \in Name : StartSetup(r, n) \/ StartLogin(r, n)
        \/ \E r \in Request, t \in Token, n \in Name :
             \/ \E o \in (AdminOp \cup OwnOp) \ {"create"} : Gate(r, t, o, n, "none")
             \/ \E role \in Role : Gate(r, t, "create", n, role)
        \/ \E r \in Request : LoginStep(r) \/ AccountStep(r)
        \/ \E t \in Token : Forget(t)
        \/ \E n \in Name : LockExpires(n) \/ Bootstrap(n)
        \/ Restart

Spec == Init /\ [][Next]_vars

--------------------------------------------------------------------------------
\* Properties

\* Types, and never more logins and setups past the limiter than it has slots.
TypeOK ==
  /\ users \in [Name -> Account \cup {None}]
  /\ disk \in [Name -> Account \cup {None}]
  /\ sessions \in [Token -> Session \cup {None}]
  /\ at \in [Request -> At]
  /\ job \in [Request -> [op : Op \cup {"none"}, name : Name \cup {None},
                          role : Role \cup {"none"}, token : Token \cup {None},
                          ok : BOOLEAN]]
  /\ slots \in 0..LoginMaxConcurrent /\ errors \in 0..MaxSaveErrors
  /\ unrevoked \subseteq Name

AdminIn(store) == \E n \in Name : store[n] # None /\ store[n].role = "admin"
EmptyIn(store) == \A n \in Name : store[n] = None

\* A store with accounts has an administrator, in memory and in the file, even
\* when administrators delete each other (deleteUser, and handleCreateUser
\* whose caller may be gone by then).
AdminRemains == /\ EmptyIn(users) \/ AdminIn(users)
                /\ EmptyIn(disk) \/ AdminIn(disk)

\* Memory and file always agree on which accounts exist and on their roles: a
\* failed save is rolled back where that is at stake (createUser, deleteUser).
StoresAgree ==
  \A n \in Name :
    /\ users[n] = None <=> disk[n] = None
    /\ users[n] # None => users[n].role = disk[n].role

\* The slots taken are those of the logins and setups past the limiter: none is
\* lost on any way out of them, and none is given back twice.
SlotsAreHeld ==
  slots = Cardinality({r \in Request : job[r].op \in Throttled /\ at[r] # "acquire"})

\* Once an account is locked, only attempts that were being verified at that
\* moment still have an outcome, fewer than the slots (authenticate looks at
\* the lock before it verifies, and the limiter bounds the verifications).
LockStopsAttempts ==
  \A n \in Name :
    users[n] # None /\ users[n].locked =>
      Cardinality({r \in Request : at[r] = "write" /\ job[r].name = n}) < LoginMaxConcurrent

\* W-02: a session of an account that owes a new password is confined to
\* changing it, unless its sessions are just being revoked, or the reset was
\* reported as failed, or the account did not exist when the session was made.
RotationIsEnforced ==
  \A t \in Token :
    LET s == sessions[t] IN
    s # None /\ s.known /\ s.user \in Existing /\ users[s.user].must =>
      \/ s.must
      \/ s.user \in unrevoked
      \/ \E r \in Request : at[r] = "revoke" /\ job[r].name = s.user

\* The accounts and their roles, as the register that users are promised.
Register == INSTANCE AccountRegister
              WITH accounts <- [n \in Name |-> IF users[n] = None THEN None ELSE users[n].role],
                   Limit <- MaxUsers
ImplementsRegister == Register!Spec
================================================================================
