---------------------------- MODULE AccountRegister ----------------------------
(* What the account store of the web server promises: a register of accounts   *)
(* with fixed roles that changes one account at a time, never loses its last   *)
(* administrator, and survives the death of the server (Accounts implements    *)
(* it, see Register there).                                                    *)
EXTENDS Naturals, FiniteSets

CONSTANTS Name,   \* user names
          Limit,  \* most accounts the register holds
          None    \* "no account"

VARIABLE accounts \* accounts[n]: the role of account n, or None

Role == {"admin", "user"}
Held == {n \in Name : accounts[n] # None}
Admins == {n \in Name : accounts[n] = "admin"}

Init == accounts = [n \in Name |-> None]

\* The first account is an administrator; the others are made by one.
Create(n, role) ==
  /\ accounts[n] = None
  /\ Cardinality(Held) < Limit
  /\ role = "user" => Admins # {}
  /\ accounts' = [accounts EXCEPT ![n] = role]

Delete(n) ==
  /\ accounts[n] # None
  /\ Admins \ {n} # {}
  /\ accounts' = [accounts EXCEPT ![n] = None]

Next == \E n \in Name : Delete(n) \/ \E role \in Role : Create(n, role)

Spec == Init /\ [][Next]_accounts
================================================================================
