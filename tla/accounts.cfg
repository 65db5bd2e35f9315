\* Two names, one session at a time and two requests that can both be
\* verifying; an account is locked after two failures and one save may fail.
SPECIFICATION Spec
CONSTANTS
  Name = {alice, bob}
  Token = {t1}
  Request = {r1, r2}
  Forced = FALSE
  MaxUsers = 2
  MaxFailedLogins = 2
  LoginMaxConcurrent = 2
  MaxSaveErrors = 1
  None = None
SYMMETRY Symmetry
INVARIANTS TypeOK AdminRemains StoresAgree SlotsAreHeld LockStopsAttempts RotationIsEnforced
PROPERTIES ImplementsRegister
