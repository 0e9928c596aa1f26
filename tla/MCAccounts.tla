----------------------------- MODULE MCAccounts -----------------------------
(***************************************************************************)
(* The two parts of auth, which share no column: who may manage the store   *)
(* (StaffAdmin) and who is signed in (Sessions).  A behaviour works one of  *)
(* them and leaves the other at rest.                                       *)
(***************************************************************************)
EXTENDS StaffAdmin, Sessions, TLC

VARIABLE part   (* the part this behaviour works *)

vars == <<part, staffVars, sessionVars>>

StaffAtRest ==
  /\ role = [u \in Accounts |-> IF u = 1 THEN "admin" ELSE "none"]
  /\ grants = [u \in Accounts |-> {}]

Init ==
  /\ part \in {"staff", "sessions"}
  /\ StaffInit /\ SessionsInit
  /\ part = "sessions" => StaffAtRest

Next ==
  \/ part = "staff" /\ StaffNext /\ UNCHANGED <<part, sessionVars>>
  \/ part = "sessions" /\ SessionsNext /\ UNCHANGED <<part, staffVars>>

Spec == Init /\ [][Next]_vars

(* A store run by operators who hold staff.manage by a grant of their own,  *)
(* the administrators who granted it demoted since.                         *)
RenounceInit ==
  /\ part = "staff" /\ SessionsInit
  /\ role = [u \in Accounts |-> "operator"]
  /\ grants = [u \in Accounts |-> {"staff.manage"}]
  /\ userLock = [u \in Accounts |-> NoRequest]
  /\ task = [c \in StaffRequests |-> NoTask]
  /\ undercut = {}

RenounceSpec == RenounceInit /\ [][Next]_vars

(* Both parts keep to the values their modules declare.                     *)
TypeOK == StaffTypeOK /\ SessionsTypeOK

(* Requests of both parts have the same names; any two are interchangeable, *)
(* and so are passwords.                                                    *)
Symmetry == Permutations(Requests) \cup Permutations(Passwords)

=============================================================================
