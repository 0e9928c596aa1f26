----------------------------- MODULE StaffProofs -----------------------------
(***************************************************************************)
(* For any number of accounts and requests: demotions queue on the rows of  *)
(* the holders of staff.manage, what one of them counted stays counted, and *)
(* the store never runs out of accounts able to manage access.              *)
(***************************************************************************)
EXTENDS StaffAdmin, FiniteSetTheorems, WellFoundedInduction, TLAPS

InFlight == {c \in StaffRequests : task[c].at # "idle"}

(* What a request is about: an account that exists, and one of the three    *)
(* operations.                                                              *)
TaskShape(c) ==
  LET t == task[c] IN
  /\ t.at # "idle" => t.target \in Accounts /\ Exists(t.target)
  /\ t.at = "grant" => t.op = "none" /\ t.caller \in Accounts
  /\ Demoting(c) => t.op \in {"role", "revoke"}

(* A lock belongs to a demotion, which took its locks in the order of ids   *)
(* and holds every row it counted.                                          *)
LocksInOrder(c) ==
  /\ \A u \in Accounts :
       userLock[u] = c =>
         /\ Demoting(c)
         /\ task[c].at = "lock" => \A w \in task[c].rows : u < w
  /\ Demoting(c) => \A u \in task[c].found : userLock[u] = c

StaffInv ==
  /\ StaffTypeOK
  /\ IsFiniteSet(InFlight)
  /\ \A u \in Accounts : grants[u] # {} => Exists(u)
  /\ \A c \in StaffRequests : TaskShape(c) /\ LocksInOrder(c)
  /\ \A c \in undercut : Demoting(c)

(* What the recount of a row it waits for will be decided by: while it      *)
(* locks, the grants it saw are those of rows it picked, and unless one was *)
(* revoked under it they are still there.                                   *)
CountStands(c) ==
  LET t == task[c] IN
  /\ t.at = "lock" => t.directThen \subseteq t.rows \cup t.found
  /\ c \notin undercut =>
       /\ t.at = "lock" =>
            /\ \A u \in t.rows :
                 "staff.manage" \in RolePermissions(t.roleThen[u]) \/ u \in t.directThen
            /\ \A u \in t.directThen : "staff.manage" \in grants[u]
       /\ Demoting(c) => t.found \subseteq Holders

(* A target that is a holder was counted or is about to be, unless it       *)
(* became one under the demotion, and what was decided of it still holds    *)
(* when the demotion writes.                                                *)
CountIsWhole(c) ==
  LET t == task[c] IN
  /\ t.at \in {"assert", "write"} => t.rows = {}
  /\ c \notin undercut =>
       /\ t.at = "lock" /\ "staff.manage" \in grants[t.target] => t.target \in t.directThen
       /\ Demoting(c) /\ t.target \in Holders => t.target \in t.rows \cup t.found
       /\ t.at = "write" =>
            IF t.op = "role" THEN KeepsAnother(t, t.role, grants[t.target])
            ELSE KeepsAnother(t, role[t.target], grants[t.target] \ {t.key})

CountInv == \A c \in StaffRequests : CountStands(c)

KeepInv == \A c \in StaffRequests : CountIsWhole(c)

-----------------------------------------------------------------------------
(* NUMBERS *)

LEMMA LeastOf ==
  ASSUME NEW T \in SUBSET Nat, T # {}
  PROVE  \E x \in T : \A y \in T : x <= y
<1>1. \E x \in T : \A y \in T : ~ (<<y, x>> \in OpToRel(<, Nat))
  BY NatLessThanWellFounded, WFMin, Zenon
<1>2. PICK x \in T : \A y \in T : ~ (<<y, x>> \in OpToRel(<, Nat))
  BY <1>1
<1>3. ASSUME NEW y \in T PROVE x <= y
  <2>1. x \in Nat /\ y \in Nat
    OBVIOUS
  <2>2. ~ (<<y, x>> \in OpToRel(<, Nat))
    BY <1>2
  <2>3. ~ (y < x)
    BY <2>1, <2>2 DEF OpToRel
  <2> QED
    BY <2>1, <2>3
<1> QED
  BY <1>3

(* A finite set of numbers has a greatest one: of the subsets without one,  *)
(* the smallest would lose an element and gain a maximum.                   *)
LEMMA GreatestOf ==
  ASSUME NEW T \in SUBSET Nat, T # {}, IsFiniteSet(T)
  PROVE  \E x \in T : \A y \in T : y <= x
<1> DEFINE HasMax(A) == \E x \in A : \A y \in A : y <= x
           Sizes == {k \in Nat : \E A \in SUBSET T :
                       A # {} /\ ~HasMax(A) /\ Cardinality(A) = k}
<1> SUFFICES ASSUME ~HasMax(T) PROVE FALSE
  OBVIOUS
<1>1. Cardinality(T) \in Sizes
  BY FS_CardinalityType
<1>2. PICK k \in Sizes : \A n \in Sizes : k <= n
  <2>1. Sizes \in SUBSET Nat /\ Sizes # {}
    BY <1>1
  <2> HIDE DEF Sizes
  <2> QED
    BY <2>1, LeastOf
<1>3. PICK A \in SUBSET T : A # {} /\ ~HasMax(A) /\ Cardinality(A) = k
  BY <1>2
<1>4. PICK x \in A : TRUE
  BY <1>3
<1> DEFINE B == A \ {x}
<1>5. IsFiniteSet(A) /\ IsFiniteSet(B) /\ Cardinality(B) = k - 1 /\ Cardinality(B) \in Nat
  <2>1. IsFiniteSet(A)
    BY FS_Subset
  <2> QED
    BY <1>3, <1>4, <2>1, FS_RemoveElement, FS_CardinalityType
<1>6. ASSUME Cardinality(B) \in Sizes PROVE FALSE
  <2>1. k \in Nat /\ k <= Cardinality(B)
    BY <1>2, <1>6
  <2> QED
    BY <1>5, <2>1
<1>7. B = {} \/ HasMax(B)
  BY <1>5, <1>6
<1>8. CASE B = {}
  BY <1>3, <1>4, <1>8
<1>9. CASE HasMax(B)
  <2>1. PICK m \in B : \A y \in B : y <= m
    BY <1>9
  <2>2. m \in Nat /\ x \in Nat /\ \A y \in A : y \in Nat /\ (y = x \/ y <= m)
    BY <2>1
  <2>3. CASE x <= m
    BY <1>3, <2>1, <2>2, <2>3
  <2>4. CASE ~(x <= m)
    <3>1. \A y \in A : y <= x
      BY <2>2, <2>4
    <3> QED
      BY <1>3, <1>4, <3>1
  <2> QED
    BY <2>3, <2>4
<1> QED
  BY <1>7, <1>8, <1>9

(* The next row of ORDER BY id.                                             *)
LEMMA NextRow ==
  ASSUME NEW R \in SUBSET Nat, R # {}
  PROVE  LET u == CHOOSE v \in R : \A w \in R : v <= w
         IN u \in R /\ \A w \in R \ {u} : u < w
<1>1. PICK u : u = CHOOSE v \in R : \A w \in R : v <= w
  OBVIOUS
<1>2. \E v \in R : \A w \in R : v <= w
  BY LeastOf
<1>3. u \in R /\ \A w \in R : u <= w
  BY <1>1, <1>2
<1>4. \A w \in R : w \in Nat
  OBVIOUS
<1>5. \A w \in R \ {u} : u < w
  BY <1>3, <1>4
<1> QED
  BY <1>1, <1>3, <1>5

-----------------------------------------------------------------------------
(* REQUESTS *)

LEMMA NoTaskTyped ==
  NoTask \in Tasks /\ NoTask.at = "idle"
BY StaffAssumption DEF NoTask, Tasks, Roles, Keys

OthersWait(c) == \A d \in StaffRequests \ {c} : task'[d] = task[d]

(* A request that ends lets go of its locks and of nobody else's.           *)
LEMMA EndFacts ==
  ASSUME StaffTypeOK, NEW c \in StaffRequests, EndTask(c)
  PROVE  /\ task' \in [StaffRequests -> Tasks] /\ OthersWait(c)
         /\ task'[c] = NoTask
         /\ userLock' \in [Accounts -> StaffRequests \cup {NoRequest}]
         /\ \A u \in Accounts : userLock'[u] # c
         /\ \A u \in Accounts, d \in StaffRequests \ {c} :
              userLock'[u] = d <=> userLock[u] = d
BY NoTaskTyped, StaffAssumption DEF StaffTypeOK, EndTask, Unlocked, OthersWait

(* What one request does leaves the others as they were.                    *)
LEMMA OneActs ==
  ASSUME StaffInv, StaffTypeOK', NEW c \in StaffRequests, OthersWait(c),
         \A u \in Accounts : Exists(u) => Exists(u)',
         \A u \in Accounts : grants'[u] # {} => Exists(u)',
         \A u \in Accounts, d \in StaffRequests \ {c} : userLock'[u] = d <=> userLock[u] = d,
         TaskShape(c)', LocksInOrder(c)',
         \/ UNCHANGED undercut /\ (Demoting(c) => Demoting(c)')
         \/ undercut' \subseteq {d \in StaffRequests \ {c} : Demoting(d)}
  PROVE  StaffInv'
<1>1. IsFiniteSet(InFlight)'
  <2>1. InFlight' \subseteq InFlight \cup {c}
    BY DEF InFlight, OthersWait
  <2>2. IsFiniteSet(InFlight \cup {c})
    BY FS_AddElement DEF StaffInv
  <2> QED
    BY <2>1, <2>2, FS_Subset
<1>2. ASSUME NEW d \in StaffRequests \ {c}
      PROVE  TaskShape(d)' /\ LocksInOrder(d)'
  <2>1. TaskShape(d) /\ LocksInOrder(d) /\ task'[d] = task[d]
    BY DEF StaffInv, OthersWait
  <2>2. TaskShape(d)'
    BY <2>1 DEF TaskShape, Demoting
  <2>3. task[d].found \subseteq Accounts
    BY DEF StaffInv, StaffTypeOK, Tasks
  <2>4. LocksInOrder(d)'
    BY <2>1, <2>3 DEF LocksInOrder, Demoting
  <2> QED
    BY <2>2, <2>4
<1>3. ASSUME NEW d \in undercut' PROVE Demoting(d)'
  <2>1. d \in StaffRequests
    BY DEF StaffTypeOK
  <2>2. d # c => Demoting(d) /\ task'[d] = task[d]
    BY <2>1 DEF StaffInv, OthersWait
  <2>3. d = c => Demoting(c)'
    BY DEF StaffInv
  <2> QED
    BY <2>2, <2>3 DEF Demoting
<1> QED
  BY <1>1, <1>2, <1>3 DEF StaffInv

-----------------------------------------------------------------------------
LEMMA SignUpStep ==
  ASSUME StaffInv, NEW u \in Accounts, SignUp(u) PROVE StaffInv'
<1>1. /\ role' \in [Accounts -> Roles \cup {"none"}]
      /\ \A v \in Accounts : Exists(v) => Exists(v)'
      /\ UNCHANGED <<grants, userLock, task, undercut>>
  BY DEF SignUp, StaffInv, StaffTypeOK, Roles, Exists
<1>2. StaffTypeOK'
  BY <1>1 DEF StaffInv, StaffTypeOK
<1>3. \A c \in StaffRequests : TaskShape(c)' /\ LocksInOrder(c)'
  BY <1>1 DEF StaffInv, TaskShape, LocksInOrder, Demoting
<1> QED
  BY <1>1, <1>2, <1>3 DEF StaffInv, InFlight, Demoting

LEMMA ProvisionStep ==
  ASSUME StaffInv, NEW u \in Accounts, ProvisionAdmin(u) PROVE StaffInv'
<1>1. /\ role' \in [Accounts -> Roles \cup {"none"}]
      /\ \A v \in Accounts : Exists(v) => Exists(v)'
      /\ UNCHANGED <<grants, userLock, task>>
      /\ undercut' = undercut \cup AimedAt(u)
  BY DEF ProvisionAdmin, StaffInv, StaffTypeOK, Roles, Exists
<1>2. StaffTypeOK'
  BY <1>1 DEF StaffInv, StaffTypeOK, AimedAt
<1>3. \A c \in StaffRequests : TaskShape(c)' /\ LocksInOrder(c)'
  BY <1>1 DEF StaffInv, TaskShape, LocksInOrder, Demoting
<1>4. \A c \in undercut' : Demoting(c)'
  BY <1>1 DEF StaffInv, AimedAt, Demoting
<1> QED
  BY <1>1, <1>2, <1>3, <1>4 DEF StaffInv, InFlight

(* The request that ends, by whatever write: nothing is left of it.         *)
LEMMA EndStep ==
  ASSUME StaffInv, NEW c \in StaffRequests, EndTask(c),
         NEW S \in SUBSET {d \in StaffRequests : Demoting(d)}, Undercuts(c, S),
         role' \in [Accounts -> Roles \cup {"none"}],
         grants' \in [Accounts -> SUBSET Keys],
         \A u \in Accounts : Exists(u) => Exists(u)',
         \A u \in Accounts : grants'[u] # {} => Exists(u)'
  PROVE  StaffInv'
<1>1. StaffTypeOK' /\ OthersWait(c) /\ task'[c].at = "idle"
  BY EndFacts, NoTaskTyped DEF StaffInv, StaffTypeOK, Undercuts
<1>2. TaskShape(c)'
  BY <1>1 DEF TaskShape, Demoting
<1>3. LocksInOrder(c)'
  BY <1>1, EndFacts DEF StaffInv, LocksInOrder, Demoting
<1>4. undercut' \subseteq {d \in StaffRequests \ {c} : Demoting(d)}
  BY DEF StaffInv, StaffTypeOK, Undercuts
<1>5. \A u \in Accounts, d \in StaffRequests \ {c} : userLock'[u] = d <=> userLock[u] = d
  BY EndFacts DEF StaffInv
<1> QED
  BY <1>1, <1>2, <1>3, <1>4, <1>5, OneActs

LEMMA GrantCommitStep ==
  ASSUME StaffInv, NEW c \in StaffRequests, GrantCommit(c) PROVE StaffInv'
<1>1. /\ UNCHANGED role /\ EndTask(c)
      /\ grants' = [grants EXCEPT ![task[c].target] = @ \cup {task[c].key}]
      /\ task[c].at = "grant"
  BY DEF GrantCommit
<1>2. task[c].key \in Keys /\ task[c].target \in Accounts /\ Exists(task[c].target)
  BY <1>1 DEF StaffInv, StaffTypeOK, Tasks, TaskShape
<1>3. grants' \in [Accounts -> SUBSET Keys]
  BY <1>1, <1>2 DEF StaffInv, StaffTypeOK
<1>4. \A u \in Accounts : grants'[u] # {} => Exists(u)'
  BY <1>1, <1>2 DEF StaffInv, StaffTypeOK, Exists
<1>5. role' \in [Accounts -> Roles \cup {"none"}] /\ \A u \in Accounts : Exists(u) => Exists(u)'
  BY <1>1 DEF StaffInv, StaffTypeOK, Exists
<1>6. \E S \in SUBSET {d \in StaffRequests : Demoting(d)} : Undercuts(c, S)
  BY DEF GrantCommit, AimedAt
<1> QED
  BY <1>1, <1>3, <1>4, <1>5, <1>6, EndStep

LEMMA WriteRoleStep ==
  ASSUME StaffInv, NEW c \in StaffRequests, WriteRole(c) PROVE StaffInv'
<1>1. /\ UNCHANGED grants /\ EndTask(c)
      /\ role' = [role EXCEPT ![task[c].target] = task[c].role]
  BY DEF WriteRole
<1>2. task[c].role \in Roles
  BY DEF StaffInv, StaffTypeOK, Tasks
<1>3. role' \in [Accounts -> Roles \cup {"none"}] /\ \A u \in Accounts : Exists(u) => Exists(u)'
  BY <1>1, <1>2 DEF StaffInv, StaffTypeOK, Exists, Roles
<1>4. /\ grants' \in [Accounts -> SUBSET Keys]
      /\ \A u \in Accounts : grants'[u] # {} => Exists(u)'
  BY <1>1, <1>3 DEF StaffInv, StaffTypeOK
<1>5. \E S \in SUBSET {d \in StaffRequests : Demoting(d)} : Undercuts(c, S)
  BY DEF WriteRole, AimedAt
<1> QED
  BY <1>1, <1>3, <1>4, <1>5, EndStep

LEMMA WriteRevokeStep ==
  ASSUME StaffInv, NEW c \in StaffRequests, WriteRevoke(c) PROVE StaffInv'
<1>1. /\ UNCHANGED role /\ EndTask(c)
      /\ grants' = [grants EXCEPT ![task[c].target] = @ \ {task[c].key}]
  BY DEF WriteRevoke
<1>2. role' \in [Accounts -> Roles \cup {"none"}] /\ \A u \in Accounts : Exists(u) => Exists(u)'
  BY <1>1 DEF StaffInv, StaffTypeOK, Exists
<1>3. grants' \in [Accounts -> SUBSET Keys] /\ \A u \in Accounts : grants'[u] \subseteq grants[u]
  BY <1>1 DEF StaffInv, StaffTypeOK
<1>4. \A u \in Accounts : grants'[u] # {} => Exists(u)'
  BY <1>2, <1>3 DEF StaffInv
<1>5. \E S \in SUBSET {d \in StaffRequests : Demoting(d)} : Undercuts(c, S)
  BY DEF WriteRevoke, Picking
<1> QED
  BY <1>1, <1>2, <1>3, <1>4, <1>5, EndStep

LEMMA NothingWritten ==
  ASSUME StaffInv, UNCHANGED <<role, grants>>
  PROVE  /\ role' \in [Accounts -> Roles \cup {"none"}]
         /\ grants' \in [Accounts -> SUBSET Keys]
         /\ \A u \in Accounts : Exists(u) => Exists(u)'
         /\ \A u \in Accounts : grants'[u] # {} => Exists(u)'
BY DEF StaffInv, StaffTypeOK, Exists

LEMMA AbortStep ==
  ASSUME StaffInv, NEW c \in StaffRequests, StaffAbort(c) PROVE StaffInv'
<1>1. {} \in SUBSET {d \in StaffRequests : Demoting(d)} /\ Undercuts(c, {})
  BY DEF StaffAbort
<1> QED
  BY <1>1, NothingWritten, EndStep DEF StaffAbort

(* The record of a demotion once its rows are picked.                       *)
LEMMA PickedFacts ==
  ASSUME StaffTypeOK, NEW t \in Tasks
  PROVE  /\ Picked(t) \in Tasks
         /\ Picked(t).at = "lock" /\ Picked(t).op = t.op /\ Picked(t).target = t.target
         /\ Picked(t).role = t.role /\ Picked(t).key = t.key /\ Picked(t).found = t.found
         /\ Picked(t).rows = Holders
         /\ \A u \in Holders : Picked(t).roleThen[u] = role[u]
         /\ Picked(t).directThen = {u \in Accounts : "staff.manage" \in grants[u]}
<1> DEFINE then == [u \in Accounts |-> IF u \in Holders THEN role[u] ELSE "none"]
           direct == {u \in Accounts : "staff.manage" \in grants[u]}
<1>1. /\ then \in [Accounts -> Roles \cup {"none"}] /\ direct \in SUBSET Accounts
      /\ \A u \in Holders : then[u] = role[u]
      /\ Holders \in SUBSET Accounts
  BY DEF StaffTypeOK, Holders
<1> HIDE DEF then, direct
<1>2. Picked(t) = [t EXCEPT !.at = "lock", !.rows = Holders, !.roleThen = then,
                            !.directThen = direct]
  BY DEF Picked, then, direct
<1>3. PICK p : p = Picked(t)
  OBVIOUS
<1>4. /\ p \in Tasks
      /\ p.at = "lock" /\ p.op = t.op /\ p.target = t.target /\ p.role = t.role
      /\ p.key = t.key /\ p.found = t.found
      /\ p.rows = Holders /\ p.roleThen = then /\ p.directThen = direct
  BY <1>1, <1>2, <1>3 DEF Tasks
<1> QED
  BY <1>1, <1>3, <1>4 DEF direct

(* A demotion starts: its record picked, no row locked yet.                 *)
LEMMA DemotionStarts ==
  ASSUME StaffInv, NEW c \in StaffRequests, NEW t \in Tasks,
         task[c].at = "idle", task' = [task EXCEPT ![c] = Picked(t)],
         t.at = "idle", t.op \in {"role", "revoke"}, t.found = {},
         t.target \in Accounts, Exists(t.target),
         UNCHANGED <<role, grants, userLock, undercut>>
  PROVE  StaffInv'
<1>1. task' \in [StaffRequests -> Tasks] /\ OthersWait(c) /\ task'[c] = Picked(t)
  BY PickedFacts DEF StaffInv, StaffTypeOK, OthersWait
<1>2. StaffTypeOK'
  BY <1>1 DEF StaffInv, StaffTypeOK
<1>3. TaskShape(c)'
  BY <1>1, PickedFacts DEF TaskShape, Exists, StaffInv, StaffTypeOK
<1>4. LocksInOrder(c)'
  BY <1>1, PickedFacts DEF StaffInv, LocksInOrder, Demoting
<1>5. ~Demoting(c)
  BY DEF Demoting
<1> QED
  BY <1>1, <1>2, <1>3, <1>4, <1>5, NothingWritten, OneActs

LEMMA ChangeRoleStep ==
  ASSUME StaffInv, NEW c \in StaffRequests, NEW caller \in Accounts, NEW u \in Accounts,
         NEW r \in Assignable, ChangeRoleStart(c, caller, u, r)
  PROVE  StaffInv'
<1>1. PICK t : t = [NoTask EXCEPT !.op = "role", !.caller = caller, !.target = u, !.role = r]
  OBVIOUS
<1>2. /\ task[c].at = "idle" /\ task' = [task EXCEPT ![c] = Picked(t)]
      /\ Exists(u) /\ UNCHANGED <<role, grants, userLock, undercut>>
  BY <1>1 DEF ChangeRoleStart
<1>3. r \in Roles
  BY StaffAssumption DEF Roles
<1>4. t \in Tasks
  BY <1>1, <1>3, NoTaskTyped DEF Tasks
<1>5. t.at = "idle" /\ t.op = "role" /\ t.found = {} /\ t.target = u
  BY <1>1 DEF NoTask
<1> QED
  BY <1>2, <1>4, <1>5, DemotionStarts

LEMMA RevokeStep ==
  ASSUME StaffInv, NEW c \in StaffRequests, NEW caller \in Accounts, NEW u \in Accounts,
         NEW k \in Grantable, RevokeStart(c, caller, u, k)
  PROVE  StaffInv'
<1>1. PICK t : t = [NoTask EXCEPT !.op = "revoke", !.target = u, !.key = k]
  OBVIOUS
<1>2. /\ task[c].at = "idle" /\ task' = [task EXCEPT ![c] = Picked(t)]
      /\ Exists(u) /\ UNCHANGED <<role, grants, userLock, undercut>>
  BY <1>1 DEF RevokeStart
<1>3. k \in Keys
  BY StaffAssumption DEF Keys
<1>4. t \in Tasks
  BY <1>1, <1>3, NoTaskTyped DEF Tasks
<1>5. t.at = "idle" /\ t.op = "revoke" /\ t.found = {} /\ t.target = u
  BY <1>1 DEF NoTask
<1> QED
  BY <1>2, <1>4, <1>5, DemotionStarts

LEMMA GrantStep ==
  ASSUME StaffInv, NEW c \in StaffRequests, NEW caller \in Accounts, NEW u \in Accounts,
         NEW k \in Grantable, GrantStart(c, caller, u, k)
  PROVE  StaffInv'
<1>1. PICK t : t = [NoTask EXCEPT !.at = "grant", !.caller = caller, !.target = u, !.key = k]
  OBVIOUS
<1>2. /\ task[c].at = "idle" /\ task' = [task EXCEPT ![c] = t]
      /\ Exists(u) /\ UNCHANGED <<role, grants, userLock, undercut>>
  BY <1>1 DEF GrantStart
<1>3. k \in Keys
  BY StaffAssumption DEF Keys
<1>4. /\ t \in Tasks
      /\ t.at = "grant" /\ t.op = "none" /\ t.target = u /\ t.caller = caller
  <2>1. t \in Tasks
    BY <1>1, <1>3, NoTaskTyped DEF Tasks
  <2>2. t.at = "grant" /\ t.op = "none" /\ t.target = u /\ t.caller = caller
    BY <1>1 DEF NoTask
  <2> QED
    BY <2>1, <2>2
<1>5. task' \in [StaffRequests -> Tasks] /\ OthersWait(c) /\ task'[c] = t
  BY <1>2, <1>4 DEF StaffInv, StaffTypeOK, OthersWait
<1>6. StaffTypeOK'
  BY <1>2, <1>5 DEF StaffInv, StaffTypeOK
<1>7. TaskShape(c)'
  BY <1>2, <1>4, <1>5 DEF TaskShape, Exists, Demoting
<1>8. LocksInOrder(c)'
  BY <1>2, <1>4, <1>5 DEF StaffInv, LocksInOrder, Demoting
<1>9. ~Demoting(c)
  BY <1>2 DEF Demoting
<1> QED
  BY <1>2, <1>5, <1>6, <1>7, <1>8, <1>9, NothingWritten, OneActs

-----------------------------------------------------------------------------
(* THE HOLDERS' LOCK *)

(* What obtaining the next row does.                                        *)
RowObtained(c, u) ==
  LET t == task[c]
      rechecked == role[u] # t.roleThen[u]
      holds == "staff.manage" \in RolePermissions(role[u]) \/ u \in t.directThen
  IN /\ t.at = "lock" /\ u \in t.rows
     /\ \A w \in t.rows \ {u} : u < w
     /\ ~LockedByOthers(c, u)
     /\ userLock' = [userLock EXCEPT ![u] = c]
     /\ OthersWait(c) /\ task' \in [StaffRequests -> Tasks]
     /\ task'[c].at = "lock" /\ task'[c].op = t.op /\ task'[c].target = t.target
     /\ task'[c].role = t.role /\ task'[c].key = t.key
     /\ task'[c].roleThen = t.roleThen /\ task'[c].directThen = t.directThen
     /\ task'[c].rows = t.rows \ {u}
     /\ task'[c].found = IF rechecked /\ ~holds THEN t.found ELSE t.found \cup {u}
     /\ UNCHANGED <<role, grants, undercut>>

LEMMA LockRowFacts ==
  ASSUME StaffTypeOK, NEW c \in StaffRequests, LockRow(c)
  PROVE  \E u \in Accounts : RowObtained(c, u)
<1>1. task[c] \in Tasks /\ task \in [StaffRequests -> Tasks]
  BY DEF StaffTypeOK
<1>2. task[c].rows \in SUBSET Nat /\ task[c].rows \in SUBSET Accounts
  BY <1>1, StaffAssumption DEF Tasks
<1>3. PICK u : u = CHOOSE v \in task[c].rows : \A w \in task[c].rows : v <= w
  OBVIOUS
<1>4. task[c].at = "lock" /\ task[c].rows # {} /\ UNCHANGED <<role, grants, undercut>>
  BY DEF LockRow
<1>5. u \in task[c].rows /\ \A w \in task[c].rows \ {u} : u < w
  BY <1>2, <1>3, <1>4, NextRow
<1>6. PICK F : F = IF role[u] # task[c].roleThen[u]
                      /\ ~("staff.manage" \in RolePermissions(role[u])
                             \/ u \in task[c].directThen)
                   THEN task[c].found ELSE task[c].found \cup {u}
  OBVIOUS
<1>7. /\ ~LockedByOthers(c, u) /\ userLock' = [userLock EXCEPT ![u] = c]
      /\ task' = [task EXCEPT ![c].rows = task[c].rows \ {u}, ![c].found = F]
  BY <1>3, <1>6 DEF LockRow
<1>8. F \in SUBSET Accounts /\ task[c].rows \ {u} \in SUBSET Accounts
  BY <1>1, <1>2, <1>5, <1>6 DEF Tasks
<1>9. PICK p : p = [task[c] EXCEPT !.rows = task[c].rows \ {u}, !.found = F]
  OBVIOUS
<1>10. p \in Tasks
  BY <1>1, <1>8, <1>9 DEF Tasks
<1>11. /\ p.at = "lock" /\ p.op = task[c].op /\ p.target = task[c].target
       /\ p.role = task[c].role /\ p.key = task[c].key
       /\ p.roleThen = task[c].roleThen /\ p.directThen = task[c].directThen
       /\ p.rows = task[c].rows \ {u} /\ p.found = F
  BY <1>1, <1>4, <1>9 DEF Tasks
<1>12. task'[c] = p /\ OthersWait(c) /\ task' \in [StaffRequests -> Tasks]
  BY <1>1, <1>7, <1>9, <1>10 DEF OthersWait
<1>13. u \in Accounts
  BY <1>2, <1>5
<1> QED
  BY <1>4, <1>5, <1>6, <1>7, <1>11, <1>12, <1>13 DEF RowObtained

LEMMA LockRowStep ==
  ASSUME StaffInv, NEW c \in StaffRequests, LockRow(c) PROVE StaffInv'
<1>1. PICK u \in Accounts : RowObtained(c, u)
  BY LockRowFacts DEF StaffInv
<1> USE <1>1 DEF RowObtained
<1>2. userLock[u] \in {c, NoRequest}
  BY DEF LockedByOthers
<1>3. StaffTypeOK'
  BY DEF StaffInv, StaffTypeOK
<1>4. TaskShape(c)'
  BY DEF StaffInv, TaskShape, Exists, Demoting
<1>5. /\ userLock'[u] = c /\ \A v \in Accounts \ {u} : userLock'[v] = userLock[v]
  BY DEF StaffInv, StaffTypeOK
<1>6. LocksInOrder(c)'
  <2>1. LocksInOrder(c) /\ task[c].found \subseteq Accounts
    BY DEF StaffInv, StaffTypeOK, Tasks
  <2>2. Demoting(c)'
    BY DEF Demoting
  <2>3. ASSUME NEW v \in Accounts, userLock'[v] = c, NEW w \in task'[c].rows PROVE v < w
    BY <1>5, <2>1, <2>3 DEF LocksInOrder
  <2>4. ASSUME NEW v \in task'[c].found PROVE userLock'[v] = c
    <3>1. v = u \/ v \in task[c].found
      OBVIOUS
    <3>2. Demoting(c)
      BY DEF Demoting
    <3> QED
      BY <1>5, <2>1, <3>1, <3>2 DEF LocksInOrder
  <2> QED
    BY <2>2, <2>3, <2>4 DEF LocksInOrder
<1>7. Demoting(c)'
  BY DEF Demoting
<1>8. \A v \in Accounts, d \in StaffRequests \ {c} : userLock'[v] = d <=> userLock[v] = d
  BY <1>2, <1>5, StaffAssumption
<1> QED
  BY <1>3, <1>4, <1>6, <1>7, <1>8, NothingWritten, OneActs

(* The statement is over and the request goes on with what it found.        *)
MovesOn(c, step) ==
  /\ OthersWait(c) /\ task' \in [StaffRequests -> Tasks]
  /\ task'[c].at = step /\ task'[c].op = task[c].op /\ task'[c].target = task[c].target
  /\ task'[c].role = task[c].role /\ task'[c].key = task[c].key
  /\ task'[c].rows = task[c].rows /\ task'[c].found = task[c].found

LEMMA LockedFacts ==
  ASSUME StaffTypeOK, NEW c \in StaffRequests, Locked(c)
  PROVE  MovesOn(c, "assert") /\ UNCHANGED <<role, grants, userLock, undercut>>
<1>1. task[c] \in Tasks /\ task \in [StaffRequests -> Tasks]
  BY DEF StaffTypeOK
<1>2. PICK f \in [Accounts -> Roles \cup {"none"}] : f = NoTask.roleThen
  BY DEF NoTask
<1>3. PICK p : p = [task[c] EXCEPT !.at = "assert", !.roleThen = f, !.directThen = {}]
  OBVIOUS
<1>4. p \in Tasks
  BY <1>1, <1>3 DEF Tasks
<1>5. /\ p.at = "assert" /\ p.op = task[c].op /\ p.target = task[c].target
      /\ p.role = task[c].role /\ p.key = task[c].key
      /\ p.rows = task[c].rows /\ p.found = task[c].found
  BY <1>1, <1>3 DEF Tasks
<1>6. task' = [task EXCEPT ![c] = p] /\ UNCHANGED <<role, grants, userLock, undercut>>
  BY <1>2, <1>3 DEF Locked
<1>7. task'[c] = p /\ OthersWait(c) /\ task' \in [StaffRequests -> Tasks]
  BY <1>1, <1>4, <1>6 DEF OthersWait
<1> QED
  BY <1>5, <1>6, <1>7 DEF MovesOn

LEMMA WriteFacts ==
  ASSUME StaffTypeOK, NEW c \in StaffRequests, task' = [task EXCEPT ![c].at = "write"]
  PROVE  MovesOn(c, "write")
<1>1. task[c] \in Tasks /\ task \in [StaffRequests -> Tasks]
  BY DEF StaffTypeOK
<1>2. PICK p : p = [task[c] EXCEPT !.at = "write"]
  OBVIOUS
<1>3. p \in Tasks
  BY <1>1, <1>2 DEF Tasks
<1>4. /\ p.at = "write" /\ p.op = task[c].op /\ p.target = task[c].target
      /\ p.role = task[c].role /\ p.key = task[c].key
      /\ p.rows = task[c].rows /\ p.found = task[c].found
  BY <1>1, <1>2 DEF Tasks
<1>5. task' = [task EXCEPT ![c] = p]
  BY <1>2
<1>6. task'[c] = p /\ OthersWait(c) /\ task' \in [StaffRequests -> Tasks]
  BY <1>1, <1>3, <1>5 DEF OthersWait
<1> QED
  BY <1>4, <1>6 DEF MovesOn

LEMMA MovesOnStep ==
  ASSUME StaffInv, NEW c \in StaffRequests, NEW step \in {"assert", "write"},
         Demoting(c), MovesOn(c, step), UNCHANGED <<role, grants, userLock, undercut>>
  PROVE  StaffInv'
<1> USE DEF MovesOn
<1>1. StaffTypeOK'
  BY DEF StaffInv, StaffTypeOK
<1>2. TaskShape(c)'
  BY DEF StaffInv, TaskShape, Exists, Demoting
<1>3. LocksInOrder(c)'
  BY DEF StaffInv, LocksInOrder, Demoting
<1>4. Demoting(c)'
  BY DEF Demoting
<1> QED
  BY <1>1, <1>2, <1>3, <1>4, NothingWritten, OneActs

LEMMA LockedStep ==
  ASSUME StaffInv, NEW c \in StaffRequests, Locked(c) PROVE StaffInv'
<1>1. Demoting(c)
  BY DEF Locked, Demoting
<1> QED
  BY <1>1, LockedFacts, MovesOnStep DEF StaffInv

LEMMA DecideStep ==
  ASSUME StaffInv, NEW c \in StaffRequests, Decide(c) PROVE StaffInv'
<1>1. CASE task' = [task EXCEPT ![c].at = "write"] /\ UNCHANGED <<userLock, undercut>>
  <2>1. Demoting(c) /\ UNCHANGED <<role, grants>>
    BY DEF Decide, Demoting
  <2> QED
    BY <1>1, <2>1, WriteFacts, MovesOnStep DEF StaffInv
<1>2. CASE EndTask(c) /\ Undercuts(c, {})
  <2>1. {} \in SUBSET {d \in StaffRequests : Demoting(d)} /\ UNCHANGED <<role, grants>>
    BY DEF Decide
  <2> QED
    BY <1>2, <2>1, NothingWritten, EndStep
<1> QED
  BY <1>1, <1>2 DEF Decide

-----------------------------------------------------------------------------
LEMMA StaffInitial == StaffInit => StaffInv
<1> SUFFICES ASSUME StaffInit PROVE StaffInv
  OBVIOUS
<1>1. /\ role \in [Accounts -> Roles \cup {"none"}]
      /\ userLock = [u \in Accounts |-> NoRequest]
      /\ task = [c \in StaffRequests |-> NoTask]
      /\ undercut = {}
  BY DEF StaffInit, Roles
<1>2. /\ grants \in [Accounts -> SUBSET Keys]
      /\ \A u \in Accounts : grants[u] # {} => Exists(u)
  BY DEF StaffInit, Keys, Exists
<1>3. StaffTypeOK
  BY <1>1, <1>2, NoTaskTyped DEF StaffTypeOK
<1>4. InFlight = {}
  BY <1>1, NoTaskTyped DEF InFlight
<1>5. \A c \in StaffRequests : TaskShape(c) /\ LocksInOrder(c)
  BY <1>1, NoTaskTyped, StaffAssumption DEF TaskShape, LocksInOrder, Demoting
<1> QED
  BY <1>1, <1>2, <1>3, <1>4, <1>5, FS_EmptySet DEF StaffInv

LEMMA StaffStutter ==
  ASSUME StaffInv, UNCHANGED staffVars PROVE StaffInv'
<1>1. StaffTypeOK' /\ InFlight' = InFlight
  BY DEF staffVars, StaffInv, StaffTypeOK, InFlight
<1>2. /\ \A c \in StaffRequests : TaskShape(c)' /\ LocksInOrder(c)'
      /\ \A c \in undercut' : Demoting(c)'
  BY DEF staffVars, StaffInv, TaskShape, LocksInOrder, Demoting, Exists
<1>3. \A u \in Accounts : (grants[u] # {} => Exists(u))'
  BY DEF staffVars, StaffInv, Exists
<1> QED
  BY <1>1, <1>2, <1>3 DEF StaffInv

LEMMA StaffStep ==
  ASSUME StaffInv, [StaffNext]_staffVars PROVE StaffInv'
BY StaffStutter, SignUpStep, ProvisionStep, GrantStep, RevokeStep, ChangeRoleStep,
   GrantCommitStep, LockRowStep, LockedStep, DecideStep, WriteRoleStep, WriteRevokeStep,
   AbortStep, Zenon DEF StaffNext

(* Every state is typed; a lock belongs to a demotion, taken in the order of *)
(* ids and kept with every row counted.                                     *)
THEOREM StaffInvariant == StaffSpec => []StaffInv
<1>1. StaffInit => StaffInv
  BY StaffInitial
<1>2. StaffInv /\ [StaffNext]_staffVars => StaffInv'
  BY StaffStep
<1> QED
  BY <1>1, <1>2, PTL DEF StaffSpec

-----------------------------------------------------------------------------
(* NO CYCLE *)

LEMMA Queue ==
  ASSUME StaffInv PROVE DemotionsQueue
<1> SUFFICES ASSUME NEW S \in (SUBSET StaffRequests) \ {{}},
                    \A c \in S : \E d \in S : WaitsFor(c, d),
                    \A c \in S : task[c].at = "write" => task[c].target \in task[c].found
             PROVE  FALSE
  BY DEF DemotionsQueue
<1> DEFINE Next1(c) == CHOOSE v \in task[c].rows : \A w \in task[c].rows : v <= w
           T == {c \in S : task[c].at = "lock" /\ task[c].rows # {}}
<1>1. ASSUME NEW c \in StaffRequests, task[c].at = "lock", task[c].rows # {}
      PROVE  /\ Next1(c) \in Nat /\ Next1(c) \in Accounts /\ Next1(c) \in task[c].rows
             /\ Wants(c) = {Next1(c)}
  <2>1. task[c].rows \in SUBSET Nat /\ task[c].rows \in SUBSET Accounts
    BY StaffAssumption DEF StaffInv, StaffTypeOK, Tasks
  <2>2. Next1(c) \in task[c].rows
    BY <1>1, <2>1, NextRow
  <2>3. Wants(c) = {Next1(c)}
    BY <1>1 DEF Wants
  <2> QED
    BY <2>1, <2>2, <2>3
<1>2. ASSUME NEW c \in S PROVE Wants(c) \subseteq Accounts
  <2>1. CASE task[c].at = "lock" /\ task[c].rows # {}
    BY <1>1, <2>1
  <2>2. CASE ~(task[c].at = "lock" /\ task[c].rows # {})
    BY <2>2 DEF Wants, StaffInv, TaskShape
  <2> QED
    BY <2>1, <2>2
<1>3. ASSUME NEW c \in S, NEW d \in S, WaitsFor(c, d) PROVE d \in T
  <2>1. PICK u \in Accounts : userLock[u] = d
    BY <1>2, <1>3 DEF WaitsFor
  <2>2. Demoting(d)
    BY <2>1 DEF StaffInv, LocksInOrder
  <2>3. PICK e \in S : d # e /\ \E v \in Wants(d) : userLock[v] = e
    BY DEF WaitsFor
  <2>4. CASE task[d].at = "lock"
    <3>1. task[d].rows # {}
      BY <2>3, <2>4 DEF Wants
    <3> QED
      BY <2>4, <3>1
  <2>5. CASE task[d].at = "assert"
    BY <2>3, <2>5 DEF Wants
  <2>6. CASE task[d].at = "write"
    <3>1. Wants(d) \subseteq {task[d].target}
      BY <2>6 DEF Wants
    <3>2. userLock[task[d].target] = d
      BY <2>2, <2>6 DEF StaffInv, LocksInOrder
    <3> QED
      BY <2>3, <3>1, <3>2
  <2> QED
    BY <2>2, <2>4, <2>5, <2>6 DEF Demoting
<1> DEFINE W == {Next1(c) : c \in T}
<1>4. T # {}
  BY <1>3
<1>5. IsFiniteSet(T)
  <2>1. T \subseteq InFlight
    BY DEF InFlight
  <2> QED
    BY <2>1, FS_Subset DEF StaffInv
<1> HIDE DEF Next1
<1>6. W \in SUBSET Nat /\ W # {}
  BY <1>1, <1>4
<1>7. IsFiniteSet(W)
  <2> HIDE DEF T
  <2> DEFINE next == [d \in T |-> Next1(d)]
  <2>1. next \in Surjection(T, W)
    BY DEF Surjection
  <2> QED
    BY <1>5, <2>1, FS_Surjection
<1>8. PICK w \in W : \A v \in W : v <= w
  <2> HIDE DEF W
  <2> QED
    BY <1>6, <1>7, GreatestOf
<1>9. PICK d \in T : w = Next1(d)
  BY <1>8
<1>10. PICK e \in S : WaitsFor(d, e)
  OBVIOUS
<1>11. userLock[w] = e /\ w \in Nat /\ w \in Accounts
  BY <1>1, <1>9, <1>10 DEF WaitsFor
<1>12. e \in T
  BY <1>3, <1>10
<1>13. Next1(e) \in task[e].rows /\ Next1(e) \in W /\ Next1(e) \in Nat
  BY <1>1, <1>12
<1>14. w < Next1(e)
  BY <1>11, <1>12, <1>13 DEF StaffInv, LocksInOrder
<1> HIDE DEF W, T
<1> QED
  BY <1>8, <1>11, <1>13, <1>14

(* Demotions of holders never close a cycle of waits, whatever their number: *)
(* each waits for a row beyond every row it holds, the order lockHolders    *)
(* gives its locks.                                                         *)
THEOREM DemotionsNeverDeadlock == StaffSpec => []DemotionsQueue
<1>1. StaffInv => DemotionsQueue
  BY Queue
<1> QED
  BY <1>1, StaffInvariant, PTL

-----------------------------------------------------------------------------
(* WHAT WAS COUNTED *)

(* What leaves the count of a demotion standing: no grant it picked is      *)
(* revoked and no row it locked is written.                                 *)
CountSpared(d) ==
  d \notin undercut' =>
    /\ d \notin undercut
    /\ Demoting(d) =>
         /\ \A u \in task[d].rows \cup task[d].found :
              "staff.manage" \in grants[u] => "staff.manage" \in grants'[u]
         /\ \A u \in Accounts : userLock[u] = d => role'[u] = role[u]

LEMMA CountKept ==
  ASSUME StaffInv, NEW d \in StaffRequests, CountStands(d), task'[d] = task[d], CountSpared(d)
  PROVE  CountStands(d)'
<1>1. task[d].found \subseteq Accounts /\ task[d].directThen \subseteq Accounts
  BY DEF StaffInv, StaffTypeOK, Tasks
<1>2. ASSUME Demoting(d), d \notin undercut' PROVE task[d].found \subseteq Holders'
  <2>1. \A u \in task[d].found : userLock[u] = d
    BY <1>2 DEF StaffInv, LocksInOrder
  <2> QED
    BY <1>1, <1>2, <2>1 DEF CountSpared, CountStands, Holders, Manages
<1>3. ASSUME task[d].at = "lock", d \notin undercut'
      PROVE  \A u \in task[d].directThen : "staff.manage" \in grants'[u]
  BY <1>1, <1>3 DEF CountSpared, CountStands, Demoting
<1> QED
  BY <1>2, <1>3 DEF CountSpared, CountStands, Demoting

(* A step of one request, or of none, that spares the others.               *)
LEMMA OthersCount ==
  ASSUME StaffInv, CountInv, NEW c \in StaffRequests, OthersWait(c), CountStands(c)',
         \A d \in StaffRequests \ {c} : CountSpared(d)
  PROVE  CountInv'
BY CountKept DEF CountInv, OthersWait

(* A step that writes nothing.                                              *)
LEMMA UnwrittenCount ==
  ASSUME StaffInv, CountInv, NEW c \in StaffRequests, OthersWait(c), CountStands(c)',
         UNCHANGED <<role, grants, undercut>>
  PROVE  CountInv'
BY OthersCount DEF CountSpared

(* A request that ends has nothing left to stand by.                        *)
LEMMA EndedCount ==
  ASSUME StaffInv, CountInv, NEW c \in StaffRequests, EndTask(c),
         \A d \in StaffRequests \ {c} : CountSpared(d)
  PROVE  CountInv'
<1>1. OthersWait(c) /\ task'[c].at = "idle"
  BY EndFacts, NoTaskTyped DEF StaffInv
<1>2. CountStands(c)'
  BY <1>1 DEF CountStands, Demoting
<1> QED
  BY <1>1, <1>2, OthersCount

(* A request that ends without a write.                                     *)
LEMMA UndoneCount ==
  ASSUME StaffInv, CountInv, NEW c \in StaffRequests, EndTask(c), Undercuts(c, {}),
         UNCHANGED <<role, grants>>
  PROVE  CountInv'
BY EndedCount DEF CountSpared, Undercuts

LEMMA CountOutside ==
  ASSUME StaffInv, CountInv, NEW u \in Accounts, SignUp(u) \/ ProvisionAdmin(u)
  PROVE  CountInv'
<1> SUFFICES ASSUME NEW d \in StaffRequests PROVE CountStands(d)'
  BY DEF CountInv
<1>1. /\ UNCHANGED <<grants, task>> /\ \A v \in Accounts \ {u} : role'[v] = role[v]
      /\ undercut \subseteq undercut'
  BY DEF SignUp, ProvisionAdmin, StaffInv, StaffTypeOK
<1>2. CASE ProvisionAdmin(u)
  <2>1. userLock[u] # d
    BY <1>2, StaffAssumption DEF ProvisionAdmin
  <2>2. CountSpared(d)
    BY <1>1, <2>1 DEF CountSpared
  <2> QED
    BY <1>1, <2>2, CountKept DEF CountInv
<1>3. CASE SignUp(u)
  <2>1. ~Exists(u) /\ grants[u] = {} /\ u \notin Holders
    BY <1>3 DEF SignUp, Exists, StaffInv, Holders, Manages, RolePermissions
  <2>2. Holders \subseteq Holders'
    BY <1>1, <2>1 DEF Holders, Manages
  <2> QED
    BY <1>1, <2>2 DEF CountInv, CountStands, Demoting
<1> QED
  BY <1>2, <1>3

LEMMA CountStarts ==
  ASSUME StaffInv, CountInv, NEW c \in StaffRequests, NEW t \in Tasks,
         t.found = {}, task' = [task EXCEPT ![c] = Picked(t)],
         UNCHANGED <<role, grants, undercut>>
  PROVE  CountInv'
<1>1. OthersWait(c) /\ task'[c] = Picked(t)
  BY DEF OthersWait, StaffInv, StaffTypeOK
<1>2. /\ task'[c].found = {} /\ task'[c].rows = Holders
      /\ \A u \in Holders : task'[c].roleThen[u] = role[u]
      /\ task'[c].directThen = {u \in Accounts : "staff.manage" \in grants[u]}
  BY <1>1, PickedFacts DEF StaffInv
<1>3. CountStands(c)'
  <2>1. \A u \in task'[c].rows : \/ "staff.manage" \in RolePermissions(task'[c].roleThen[u])
                                 \/ u \in task'[c].directThen
    BY <1>2 DEF Holders, Manages
  <2>2. \A u \in task'[c].directThen : "staff.manage" \in grants'[u]
    BY <1>2
  <2>3. task'[c].directThen \subseteq task'[c].rows
    BY <1>2 DEF Holders, Manages
  <2> QED
    BY <1>2, <2>1, <2>2, <2>3 DEF CountStands
<1> QED
  BY <1>1, <1>3, UnwrittenCount

LEMMA CountGrantStarts ==
  ASSUME StaffInv, CountInv, NEW c \in StaffRequests, NEW caller \in Accounts,
         NEW u \in Accounts, NEW k \in Grantable, GrantStart(c, caller, u, k)
  PROVE  CountInv'
<1>1. PICK t : t = [NoTask EXCEPT !.at = "grant", !.caller = caller, !.target = u, !.key = k]
  OBVIOUS
<1>2. task' = [task EXCEPT ![c] = t] /\ UNCHANGED <<role, grants, undercut>>
  BY <1>1 DEF GrantStart
<1>3. OthersWait(c) /\ task'[c] = t
  BY <1>2 DEF OthersWait, StaffInv, StaffTypeOK
<1>4. t.at = "grant"
  BY <1>1 DEF NoTask
<1>5. CountStands(c)'
  BY <1>3, <1>4 DEF CountStands, Demoting
<1> QED
  BY <1>2, <1>3, <1>5, UnwrittenCount

LEMMA CountDemotionStarts ==
  ASSUME StaffInv, CountInv, NEW c \in StaffRequests, NEW caller \in Accounts,
         NEW u \in Accounts,
         \/ \E r \in Assignable : ChangeRoleStart(c, caller, u, r)
         \/ \E k \in Grantable : RevokeStart(c, caller, u, k)
  PROVE  CountInv'
<1>1. CASE \E r \in Assignable : ChangeRoleStart(c, caller, u, r)
  <2>1. PICK r \in Assignable : ChangeRoleStart(c, caller, u, r)
    BY <1>1
  <2>2. PICK t : t = [NoTask EXCEPT !.op = "role", !.caller = caller, !.target = u, !.role = r]
    OBVIOUS
  <2>3. r \in Roles
    BY StaffAssumption DEF Roles
  <2>4. t \in Tasks
    BY <2>2, <2>3, NoTaskTyped DEF Tasks
  <2>5. t.found = {}
    BY <2>2 DEF NoTask
  <2>6. task' = [task EXCEPT ![c] = Picked(t)] /\ UNCHANGED <<role, grants, undercut>>
    BY <2>1, <2>2 DEF ChangeRoleStart
  <2> QED
    BY <2>4, <2>5, <2>6, CountStarts
<1>2. CASE \E k \in Grantable : RevokeStart(c, caller, u, k)
  <2>1. PICK k \in Grantable : RevokeStart(c, caller, u, k)
    BY <1>2
  <2>2. PICK t : t = [NoTask EXCEPT !.op = "revoke", !.target = u, !.key = k]
    OBVIOUS
  <2>3. k \in Keys
    BY StaffAssumption DEF Keys
  <2>4. t \in Tasks
    BY <2>2, <2>3, NoTaskTyped DEF Tasks
  <2>5. t.found = {}
    BY <2>2 DEF NoTask
  <2>6. task' = [task EXCEPT ![c] = Picked(t)] /\ UNCHANGED <<role, grants, undercut>>
    BY <2>1, <2>2 DEF RevokeStart
  <2> QED
    BY <2>4, <2>5, <2>6, CountStarts
<1> QED
  BY <1>1, <1>2

LEMMA CountRow ==
  ASSUME StaffInv, CountInv, NEW c \in StaffRequests, LockRow(c) PROVE CountInv'
<1>1. PICK u \in Accounts : RowObtained(c, u)
  BY LockRowFacts DEF StaffInv
<1> USE <1>1 DEF RowObtained
<1>2. CountStands(c) /\ Demoting(c) /\ Holders' = Holders
  BY DEF CountInv, Demoting, Holders
<1>3. ASSUME u \in task'[c].found, u \notin task[c].found, c \notin undercut
      PROVE  u \in Holders
  <2>1. "staff.manage" \in RolePermissions(role[u]) \/ u \in task[c].directThen
    BY <1>2, <1>3 DEF CountStands
  <2>2. u \in task[c].directThen => "staff.manage" \in grants[u]
    BY <1>2, <1>3 DEF CountStands
  <2> QED
    BY <2>1, <2>2 DEF Holders, Manages
<1>4. c \notin undercut => task'[c].found \subseteq Holders
  BY <1>2, <1>3 DEF CountStands
<1>5. task'[c].directThen \subseteq task'[c].rows \cup task'[c].found
  BY <1>2 DEF CountStands
<1>6. CountStands(c)'
  BY <1>2, <1>4, <1>5 DEF CountStands
<1> QED
  BY <1>6, UnwrittenCount

LEMMA CountMoves ==
  ASSUME StaffInv, CountInv, NEW c \in StaffRequests, NEW step \in {"assert", "write"},
         Demoting(c), MovesOn(c, step), UNCHANGED <<role, grants, undercut>>
  PROVE  CountInv'
<1>1. Holders' = Holders
  BY DEF Holders
<1>2. CountStands(c)'
  BY <1>1 DEF CountInv, CountStands, MovesOn
<1> QED
  BY <1>2, UnwrittenCount DEF MovesOn

LEMMA CountDecided ==
  ASSUME StaffInv, CountInv, NEW c \in StaffRequests, Locked(c) \/ Decide(c)
  PROVE  CountInv'
<1>1. Demoting(c) /\ UNCHANGED <<role, grants>>
  BY DEF Locked, Decide, Demoting
<1>2. CASE Locked(c)
  BY <1>1, <1>2, LockedFacts, CountMoves DEF StaffInv
<1>3. CASE task' = [task EXCEPT ![c].at = "write"] /\ UNCHANGED undercut
  BY <1>1, <1>3, WriteFacts, CountMoves DEF StaffInv
<1>4. CASE EndTask(c) /\ Undercuts(c, {})
  BY <1>1, <1>4, UndoneCount
<1> QED
  BY <1>2, <1>3, <1>4 DEF Decide

(* The write of a role waits for the row's lock, so it changes no row that  *)
(* another demotion counted.                                                *)
LEMMA CountWritten ==
  ASSUME StaffInv, CountInv, NEW c \in StaffRequests,
         GrantCommit(c) \/ WriteRole(c) \/ WriteRevoke(c) \/ StaffAbort(c)
  PROVE  CountInv'
<1>1. EndTask(c)
  BY DEF GrantCommit, WriteRole, WriteRevoke, StaffAbort
<1> SUFFICES ASSUME NEW d \in StaffRequests \ {c} PROVE CountSpared(d)
  BY <1>1, EndedCount
<1>2. d \notin undercut' => d \notin undercut
  BY DEF GrantCommit, WriteRole, WriteRevoke, StaffAbort, Undercuts
<1>3. CASE GrantCommit(c)
  BY <1>2, <1>3 DEF GrantCommit, CountSpared, StaffInv, StaffTypeOK, Tasks
<1>4. CASE WriteRole(c)
  <2>1. userLock[task[c].target] # d
    BY <1>4, StaffAssumption DEF WriteRole, LockedByOthers
  <2> QED
    BY <1>2, <1>4, <2>1 DEF WriteRole, CountSpared, StaffInv, StaffTypeOK
<1>5. CASE WriteRevoke(c)
  <2>1. /\ UNCHANGED role
        /\ grants' = [grants EXCEPT ![task[c].target] = @ \ {task[c].key}]
        /\ undercut' = (undercut \cup {e \in Picking(task[c].target) :
                                         task[c].key = "staff.manage"}) \ {c}
    BY <1>5 DEF WriteRevoke, Undercuts
  <2>2. ASSUME d \notin undercut', Demoting(d), NEW u \in task[d].rows \cup task[d].found,
               "staff.manage" \in grants[u]
        PROVE  "staff.manage" \in grants'[u]
    <3>1. u \in Accounts
      BY DEF StaffInv, StaffTypeOK, Tasks
    <3>2. ~(u = task[c].target /\ task[c].key = "staff.manage")
      BY <2>1, <2>2 DEF Picking
    <3> QED
      BY <2>1, <2>2, <3>1, <3>2 DEF StaffInv, StaffTypeOK
  <2> QED
    BY <1>2, <2>1, <2>2 DEF CountSpared
<1>6. CASE StaffAbort(c)
  BY <1>2, <1>6 DEF StaffAbort, CountSpared
<1> QED
  BY <1>3, <1>4, <1>5, <1>6 DEF StaffAbort

LEMMA CountStep ==
  ASSUME StaffInv, CountInv, [StaffNext]_staffVars PROVE CountInv'
<1>1. CASE UNCHANGED staffVars
  BY <1>1 DEF staffVars, CountInv, CountStands, Demoting, Holders
<1>2. CASE StaffNext
  BY <1>2, CountOutside, CountGrantStarts, CountDemotionStarts, CountRow, CountDecided,
     CountWritten, Zenon DEF StaffNext
<1> QED
  BY <1>1, <1>2

(* The holders a demotion counted are holders until it ends, unless a       *)
(* revocation undercut it: nobody else writes a row it locked.              *)
THEOREM CountedStay == StaffSpec => []CountedHoldersStay
<1>1. StaffInit => StaffInv /\ CountInv
  <2>1. StaffInit => CountInv
    BY NoTaskTyped DEF StaffInit, CountInv, CountStands, Demoting
  <2> QED
    BY <2>1, StaffInitial
<1>2. (StaffInv /\ CountInv) /\ [StaffNext]_staffVars => (StaffInv /\ CountInv)'
  BY StaffStep, CountStep
<1>3. CountInv => CountedHoldersStay
  BY DEF CountInv, CountStands, CountedHoldersStay
<1> QED
  BY <1>1, <1>2, <1>3, PTL DEF StaffSpec

-----------------------------------------------------------------------------
(* THE LAST HOLDER *)

LEMMA HoldersManage ==
  ASSUME StaffTypeOK PROVE Administered <=> Holders # {}
BY DEF Administered, Holders, Manages, Team, Permissions, Effective, RolePermissions,
       Catalogue, StaffTypeOK, Roles

(* What leaves the decision of a demotion standing: its target is given     *)
(* nothing, and if it was counted, it keeps what it had.                    *)
WholeSpared(d) ==
  d \notin undercut' =>
    /\ d \notin undercut
    /\ Demoting(d) =>
         LET u == task[d].target IN
         /\ "staff.manage" \in grants'[u] => "staff.manage" \in grants[u]
         /\ u \in Holders' => u \in Holders
         /\ u \in task[d].found =>
              /\ "staff.manage" \in grants[u] => "staff.manage" \in grants'[u]
              /\ role'[u] = role[u]

LEMMA WholeKept ==
  ASSUME StaffInv, NEW d \in StaffRequests, CountIsWhole(d), task'[d] = task[d], WholeSpared(d)
  PROVE  CountIsWhole(d)'
<1>1. CASE ~Demoting(d)
  BY <1>1 DEF CountIsWhole, Demoting
<1>2. CASE d \in undercut'
  BY <1>2 DEF CountIsWhole
<1>3. CASE Demoting(d) /\ d \notin undercut'
  <2>1. task[d].target \in Accounts /\ task[d].op \in {"role", "revoke"} /\ task[d].key \in Keys
    BY <1>3 DEF StaffInv, TaskShape, Demoting, StaffTypeOK, Tasks
  <2>2. ASSUME task[d].at = "write", task[d].op = "role"
        PROVE  KeepsAnother(task'[d], task'[d].role, grants'[task'[d].target])
    BY <1>3, <2>1, <2>2 DEF WholeSpared, CountIsWhole, KeepsAnother, Manages
  <2>3. ASSUME task[d].at = "write", task[d].op = "revoke"
        PROVE  KeepsAnother(task'[d], role'[task'[d].target],
                            grants'[task'[d].target] \ {task'[d].key})
    BY <1>3, <2>1, <2>3 DEF WholeSpared, CountIsWhole, KeepsAnother, Manages
  <2> QED
    BY <1>3, <2>1, <2>2, <2>3 DEF WholeSpared, CountIsWhole
<1> QED
  BY <1>1, <1>2, <1>3

(* A step of one request that leaves the accounts alone.                    *)
LEMMA KeptUnwritten ==
  ASSUME StaffInv, KeepInv, NEW c \in StaffRequests, OthersWait(c),
         UNCHANGED <<role, grants, undercut>>, CountIsWhole(c)'
  PROVE  KeepInv'
<1>1. \A d \in StaffRequests : WholeSpared(d)
  BY DEF WholeSpared, Holders
<1>2. ASSUME NEW d \in StaffRequests \ {c} PROVE CountIsWhole(d)'
  BY <1>1, WholeKept DEF KeepInv, OthersWait
<1> QED
  BY <1>2 DEF KeepInv

LEMMA KeptStarting ==
  ASSUME StaffInv, KeepInv, NEW c \in StaffRequests, NEW t \in Tasks, t.target \in Accounts,
         task' = [task EXCEPT ![c] = Picked(t)], UNCHANGED <<role, grants, undercut>>
  PROVE  KeepInv'
<1>1. OthersWait(c) /\ task'[c] = Picked(t)
  BY DEF OthersWait, StaffInv, StaffTypeOK
<1>2. /\ task'[c].at = "lock" /\ task'[c].rows = Holders /\ Holders' = Holders
      /\ task'[c].target = t.target
      /\ task'[c].directThen = {u \in Accounts : "staff.manage" \in grants[u]}
  BY <1>1, PickedFacts DEF StaffInv, Holders
<1>3. CountIsWhole(c)'
  BY <1>2 DEF CountIsWhole
<1> QED
  BY <1>1, <1>3, KeptUnwritten

LEMMA KeptGrantStarts ==
  ASSUME StaffInv, KeepInv, NEW c \in StaffRequests, NEW caller \in Accounts,
         NEW u \in Accounts, NEW k \in Grantable, GrantStart(c, caller, u, k)
  PROVE  KeepInv'
<1>1. PICK t : t = [NoTask EXCEPT !.at = "grant", !.caller = caller, !.target = u, !.key = k]
  OBVIOUS
<1>2. task' = [task EXCEPT ![c] = t] /\ UNCHANGED <<role, grants, undercut>>
  BY <1>1 DEF GrantStart
<1>3. OthersWait(c) /\ task'[c] = t
  BY <1>2 DEF OthersWait, StaffInv, StaffTypeOK
<1>4. t.at = "grant"
  BY <1>1 DEF NoTask
<1>5. CountIsWhole(c)'
  BY <1>3, <1>4 DEF CountIsWhole, Demoting
<1> QED
  BY <1>2, <1>3, <1>5, KeptUnwritten

LEMMA KeptDemotionStarts ==
  ASSUME StaffInv, KeepInv, NEW c \in StaffRequests, NEW caller \in Accounts,
         NEW u \in Accounts,
         \/ \E r \in Assignable : ChangeRoleStart(c, caller, u, r)
         \/ \E k \in Grantable : RevokeStart(c, caller, u, k)
  PROVE  KeepInv'
<1>1. CASE \E r \in Assignable : ChangeRoleStart(c, caller, u, r)
  <2>1. PICK r \in Assignable : ChangeRoleStart(c, caller, u, r)
    BY <1>1
  <2>2. PICK t : t = [NoTask EXCEPT !.op = "role", !.caller = caller, !.target = u, !.role = r]
    OBVIOUS
  <2>3. r \in Roles
    BY StaffAssumption DEF Roles
  <2>4. t \in Tasks /\ t.target = u
    BY <2>2, <2>3, NoTaskTyped DEF Tasks
  <2>5. task' = [task EXCEPT ![c] = Picked(t)] /\ UNCHANGED <<role, grants, undercut>>
    BY <2>1, <2>2 DEF ChangeRoleStart
  <2> QED
    BY <2>4, <2>5, KeptStarting
<1>2. CASE \E k \in Grantable : RevokeStart(c, caller, u, k)
  <2>1. PICK k \in Grantable : RevokeStart(c, caller, u, k)
    BY <1>2
  <2>2. PICK t : t = [NoTask EXCEPT !.op = "revoke", !.target = u, !.key = k]
    OBVIOUS
  <2>3. k \in Keys
    BY StaffAssumption DEF Keys
  <2>4. t \in Tasks /\ t.target = u
    BY <2>2, <2>3, NoTaskTyped DEF Tasks
  <2>5. task' = [task EXCEPT ![c] = Picked(t)] /\ UNCHANGED <<role, grants, undercut>>
    BY <2>1, <2>2 DEF RevokeStart
  <2> QED
    BY <2>4, <2>5, KeptStarting
<1> QED
  BY <1>1, <1>2

(* A row the recount drops is no holder's, or not the target's: the         *)
(* target's grants were all picked.                                         *)
LEMMA KeptRow ==
  ASSUME StaffInv, KeepInv, NEW c \in StaffRequests, LockRow(c) PROVE KeepInv'
<1>1. PICK u \in Accounts : RowObtained(c, u)
  BY LockRowFacts DEF StaffInv
<1> USE <1>1 DEF RowObtained
<1>2. CountIsWhole(c) /\ Demoting(c) /\ Holders' = Holders
  BY DEF KeepInv, Demoting, Holders
<1>3. ASSUME u \notin task'[c].found, u = task[c].target, c \notin undercut
      PROVE  u \notin Holders
  <2>1. "staff.manage" \notin RolePermissions(role[u]) /\ u \notin task[c].directThen
    BY <1>3
  <2> QED
    BY <1>2, <1>3, <2>1 DEF CountIsWhole, Holders, Manages
<1>4. c \notin undercut /\ task[c].target \in Holders
        => task[c].target \in task'[c].rows \cup task'[c].found
  BY <1>2, <1>3 DEF CountIsWhole
<1>5. CountIsWhole(c)'
  BY <1>2, <1>4 DEF CountIsWhole
<1> QED
  BY <1>5, KeptUnwritten

LEMMA KeptEnded ==
  ASSUME StaffInv, KeepInv, NEW c \in StaffRequests, EndTask(c),
         \A d \in StaffRequests \ {c} : WholeSpared(d)
  PROVE  KeepInv'
<1>1. OthersWait(c) /\ task'[c].at = "idle"
  BY EndFacts, NoTaskTyped DEF StaffInv
<1>2. CountIsWhole(c)'
  BY <1>1 DEF CountIsWhole, Demoting
<1>3. ASSUME NEW d \in StaffRequests \ {c} PROVE CountIsWhole(d)'
  BY <1>1, WholeKept DEF KeepInv, OthersWait
<1> QED
  BY <1>2, <1>3 DEF KeepInv

LEMMA KeptUndone ==
  ASSUME StaffInv, KeepInv, NEW c \in StaffRequests, EndTask(c), Undercuts(c, {}),
         UNCHANGED <<role, grants>>
  PROVE  KeepInv'
<1>1. \A d \in StaffRequests \ {c} : WholeSpared(d)
  BY DEF WholeSpared, Undercuts, Holders
<1> QED
  BY <1>1, KeptEnded

LEMMA KeptDecided ==
  ASSUME StaffInv, KeepInv, NEW c \in StaffRequests, Locked(c) \/ Decide(c)
  PROVE  KeepInv'
<1>1. /\ Demoting(c) /\ UNCHANGED <<role, grants>> /\ Holders' = Holders
      /\ CountIsWhole(c) /\ task[c] \in Tasks
  BY DEF Locked, Decide, Demoting, Holders, KeepInv, StaffInv, StaffTypeOK
<1>2. CASE Locked(c)
  <2>1. MovesOn(c, "assert") /\ task[c].rows = {} /\ UNCHANGED undercut
    BY <1>2, LockedFacts DEF StaffInv, Locked
  <2>2. CountIsWhole(c)'
    BY <1>1, <2>1 DEF CountIsWhole, MovesOn
  <2> QED
    BY <1>1, <2>1, <2>2, KeptUnwritten DEF MovesOn
<1>3. CASE Allowed(task[c]) /\ Decide(c)
  <2>1. MovesOn(c, "write") /\ task[c].rows = {} /\ UNCHANGED undercut
    BY <1>1, <1>3, WriteFacts DEF StaffInv, Decide, CountIsWhole
  <2>2. task[c].target \in Accounts /\ task[c].op \in {"role", "revoke"}
    BY <1>1 DEF StaffInv, TaskShape, Demoting
  <2>3. task'[c].op = "role" => KeepsAnother(task'[c], task'[c].role, grants'[task'[c].target])
    BY <1>1, <1>3, <2>1 DEF Allowed, KeepsAnother, MovesOn
  <2>4. task'[c].op # "role" => KeepsAnother(task'[c], role'[task'[c].target],
                                             grants'[task'[c].target] \ {task'[c].key})
    BY <1>1, <1>3, <2>1 DEF Allowed, KeepsAnother, MovesOn
  <2>5. CountIsWhole(c)'
    BY <1>1, <2>1, <2>3, <2>4 DEF CountIsWhole, MovesOn
  <2> QED
    BY <1>1, <2>1, <2>5, KeptUnwritten DEF MovesOn
<1>4. CASE EndTask(c) /\ Undercuts(c, {})
  BY <1>1, <1>4, KeptUndone
<1> QED
  BY <1>2, <1>3, <1>4 DEF Decide

LEMMA KeptOutside ==
  ASSUME StaffInv, KeepInv, NEW u \in Accounts, SignUp(u) \/ ProvisionAdmin(u)
  PROVE  KeepInv'
<1>1. /\ UNCHANGED <<grants, task>> /\ \A v \in Accounts \ {u} : role'[v] = role[v]
      /\ undercut \subseteq undercut'
  BY DEF SignUp, ProvisionAdmin, StaffInv, StaffTypeOK
<1> SUFFICES ASSUME NEW d \in StaffRequests PROVE WholeSpared(d)
  BY <1>1, WholeKept DEF KeepInv
<1>2. ASSUME Demoting(d), d \notin undercut' PROVE task[d].target \in Accounts \ {u}
  <2>1. task[d].target \in Accounts /\ Exists(task[d].target)
    BY <1>2 DEF StaffInv, TaskShape, Demoting
  <2>2. CASE SignUp(u)
    BY <2>1, <2>2 DEF SignUp, Exists
  <2>3. CASE ProvisionAdmin(u)
    BY <1>2, <2>1, <2>3 DEF ProvisionAdmin, AimedAt
  <2> QED
    BY <2>2, <2>3
<1> QED
  BY <1>1, <1>2 DEF WholeSpared, Holders, Manages

(* A write gives the target of a demotion something, or takes it away, only *)
(* by undercutting it.                                                      *)
LEMMA KeptWritten ==
  ASSUME StaffInv, KeepInv, NEW c \in StaffRequests,
         GrantCommit(c) \/ WriteRole(c) \/ WriteRevoke(c)
  PROVE  KeepInv'
<1>1. EndTask(c)
  BY DEF GrantCommit, WriteRole, WriteRevoke
<1> SUFFICES ASSUME NEW d \in StaffRequests \ {c}, d \notin undercut' PROVE WholeSpared(d)
  BY <1>1, KeptEnded DEF WholeSpared
<1>2. d \notin undercut
  BY DEF GrantCommit, WriteRole, WriteRevoke, Undercuts
<1> SUFFICES ASSUME Demoting(d) PROVE WholeSpared(d)
  BY <1>2 DEF WholeSpared
<1> DEFINE u == task[d].target
<1>3. u \in Accounts /\ (u \in task[d].found => userLock[u] = d)
  BY DEF StaffInv, TaskShape, LocksInOrder, Demoting
<1>4. CASE GrantCommit(c)
  <2>1. /\ UNCHANGED role
        /\ grants' = [grants EXCEPT ![task[c].target] = @ \cup {task[c].key}]
        /\ undercut' = (undercut \cup {e \in AimedAt(task[c].target) :
                                         task[c].key = "staff.manage"}) \ {c}
    BY <1>4 DEF GrantCommit, Undercuts
  <2>2. ~(u = task[c].target /\ task[c].key = "staff.manage")
    BY <2>1 DEF AimedAt
  <2>3. "staff.manage" \in grants'[u] <=> "staff.manage" \in grants[u]
    BY <1>3, <2>1, <2>2 DEF StaffInv, StaffTypeOK
  <2> QED
    BY <1>2, <2>1, <2>3 DEF WholeSpared, Holders, Manages
<1>5. CASE WriteRole(c)
  <2>1. /\ UNCHANGED grants
        /\ role' = [role EXCEPT ![task[c].target] = task[c].role]
        /\ undercut' = (undercut \cup {e \in AimedAt(task[c].target) :
                          "staff.manage" \in RolePermissions(task[c].role)}) \ {c}
    BY <1>5 DEF WriteRole, Undercuts
  <2>2. u = task[c].target => "staff.manage" \notin RolePermissions(task[c].role)
    BY <2>1 DEF AimedAt
  <2>3. u \in Holders' => u \in Holders
    BY <1>3, <2>1, <2>2 DEF Holders, Manages, StaffInv, StaffTypeOK
  <2>4. u \in task[d].found => role'[u] = role[u]
    <3>1. userLock[task[c].target] # d
      BY <1>5, StaffAssumption DEF WriteRole, LockedByOthers
    <3> QED
      BY <1>3, <2>1, <3>1 DEF StaffInv, StaffTypeOK
  <2> QED
    BY <1>2, <2>1, <2>3, <2>4 DEF WholeSpared
<1>6. CASE WriteRevoke(c)
  <2>1. /\ UNCHANGED role
        /\ grants' = [grants EXCEPT ![task[c].target] = @ \ {task[c].key}]
        /\ undercut' = (undercut \cup {e \in Picking(task[c].target) :
                                         task[c].key = "staff.manage"}) \ {c}
    BY <1>6 DEF WriteRevoke, Undercuts
  <2>2. u \in task[d].found => ~(u = task[c].target /\ task[c].key = "staff.manage")
    BY <2>1 DEF Picking
  <2>3. "staff.manage" \in grants'[u] => "staff.manage" \in grants[u]
    BY <1>3, <2>1 DEF StaffInv, StaffTypeOK
  <2>4. u \in task[d].found /\ "staff.manage" \in grants[u] => "staff.manage" \in grants'[u]
    BY <1>3, <2>1, <2>2 DEF StaffInv, StaffTypeOK
  <2> QED
    BY <1>2, <2>1, <2>3, <2>4 DEF WholeSpared, Holders, Manages
<1> QED
  BY <1>4, <1>5, <1>6

LEMMA KeepStutters ==
  ASSUME KeepInv, UNCHANGED staffVars PROVE KeepInv'
<1>1. Holders' = Holders
  BY DEF staffVars, Holders
<1>2. \A c \in StaffRequests : CountIsWhole(c)'
  BY <1>1 DEF staffVars, KeepInv, CountIsWhole, Demoting, KeepsAnother
<1> QED
  BY <1>2 DEF KeepInv

LEMMA KeepStep ==
  ASSUME StaffInv, KeepInv, [StaffNext]_staffVars PROVE KeepInv'
<1>1. ASSUME NEW c \in StaffRequests, StaffAbort(c) PROVE KeepInv'
  BY <1>1, KeptUndone DEF StaffAbort
<1> QED
  BY <1>1, KeepStutters, KeptOutside, KeptGrantStarts, KeptDemotionStarts, KeptRow,
     KeptDecided, KeptWritten, Zenon DEF StaffNext

(* A demotion that was not undercut leaves a holder: its target, another it *)
(* counted, or whoever it was when its target was none.                     *)
LEMMA WriteLeavesOne ==
  ASSUME StaffInv, CountInv, KeepInv, NEW c \in StaffRequests \ undercut,
         WriteRole(c) \/ WriteRevoke(c), Holders # {}
  PROVE  Holders' # {}
<1>1. task[c].at = "write" /\ Demoting(c) /\ task[c] \in Tasks
  BY DEF WriteRole, WriteRevoke, Demoting, StaffInv, StaffTypeOK
<1>2. task[c].target \in Accounts /\ task[c].role \in Roles /\ task[c].rows = {}
  BY <1>1 DEF StaffInv, TaskShape, Tasks, KeepInv, CountIsWhole
<1>3. /\ task[c].found \subseteq Holders
      /\ task[c].target \in Holders => task[c].target \in task[c].found
  BY <1>1, <1>2 DEF CountInv, CountStands, KeepInv, CountIsWhole
<1>4. Holders \ {task[c].target} \subseteq Holders'
  BY DEF WriteRole, WriteRevoke, Holders, Manages, StaffInv, StaffTypeOK
<1>5. CASE WriteRole(c)
  <2>1. KeepsAnother(task[c], task[c].role, grants[task[c].target])
    BY <1>1, <1>5 DEF WriteRole, KeepInv, CountIsWhole
  <2>2. Manages(task[c].role, grants[task[c].target]) => task[c].target \in Holders'
    BY <1>2, <1>5 DEF WriteRole, Holders, Manages, StaffInv, StaffTypeOK
  <2> QED
    BY <1>3, <1>4, <2>1, <2>2 DEF KeepsAnother
<1>6. CASE WriteRevoke(c)
  <2>1. KeepsAnother(task[c], role[task[c].target], grants[task[c].target] \ {task[c].key})
    BY <1>1, <1>6 DEF WriteRevoke, KeepInv, CountIsWhole
  <2>2. Manages(role[task[c].target], grants[task[c].target] \ {task[c].key})
          => task[c].target \in Holders'
    BY <1>2, <1>6 DEF WriteRevoke, Holders, Manages, StaffInv, StaffTypeOK
  <2> QED
    BY <1>3, <1>4, <2>1, <2>2 DEF KeepsAnother
<1> QED
  BY <1>5, <1>6

(* Every other step leaves the holders there are.                           *)
LEMMA HoldersLost ==
  ASSUME StaffInv, [StaffNext]_staffVars, Holders # {}, Holders' = {}
  PROVE  \E c \in StaffRequests : WriteRole(c) \/ WriteRevoke(c)
<1>1. ASSUME UNCHANGED <<role, grants>> PROVE FALSE
  BY <1>1 DEF Holders
<1>2. ASSUME NEW u \in Accounts, SignUp(u) \/ ProvisionAdmin(u) PROVE FALSE
  <2>1. /\ UNCHANGED grants /\ \A v \in Accounts \ {u} : role'[v] = role[v]
        /\ role'[u] = "admin" \/ (role[u] = "none" /\ UNCHANGED grants)
    BY <1>2 DEF SignUp, ProvisionAdmin, StaffInv, StaffTypeOK
  <2>2. Holders \subseteq Holders'
    BY <2>1 DEF Holders, Manages, RolePermissions, Catalogue
  <2> QED
    BY <2>2
<1>3. ASSUME NEW c \in StaffRequests, GrantCommit(c) PROVE FALSE
  <2>1. Holders \subseteq Holders'
    BY <1>3 DEF GrantCommit, Holders, Manages, StaffInv, StaffTypeOK
  <2> QED
    BY <2>1
<1>4. ASSUME NEW c \in StaffRequests,
             \/ \E caller, u \in Accounts, k \in Grantable :
                  GrantStart(c, caller, u, k) \/ RevokeStart(c, caller, u, k)
             \/ \E caller, u \in Accounts, r \in Assignable : ChangeRoleStart(c, caller, u, r)
             \/ LockRow(c) \/ Locked(c) \/ Decide(c) \/ StaffAbort(c)
      PROVE  UNCHANGED <<role, grants>>
  BY <1>4 DEF GrantStart, RevokeStart, ChangeRoleStart, LockRow, Locked, Decide, StaffAbort
<1>5. StaffNext
  BY <1>1 DEF staffVars
<1>6. CASE \E u \in Accounts : SignUp(u) \/ ProvisionAdmin(u)
  BY <1>2, <1>6
<1>7. CASE ~ \E u \in Accounts : SignUp(u) \/ ProvisionAdmin(u)
  <2>1. PICK c \in StaffRequests :
          \/ \E caller, u \in Accounts, k \in Grantable :
               GrantStart(c, caller, u, k) \/ RevokeStart(c, caller, u, k)
          \/ \E caller, u \in Accounts, r \in Assignable : ChangeRoleStart(c, caller, u, r)
          \/ GrantCommit(c) \/ LockRow(c) \/ Locked(c) \/ Decide(c)
          \/ WriteRole(c) \/ WriteRevoke(c) \/ StaffAbort(c)
    BY <1>5, <1>7, Zenon DEF StaffNext
  <2> QED
    BY <1>1, <1>3, <1>4, <2>1
<1> QED
  BY <1>6, <1>7

LEMMA OnlyUndercutEmpties ==
  ASSUME StaffInv, StaffInv', CountInv, KeepInv, [StaffNext]_staffVars,
         Administered, ~Administered'
  PROVE  \E c \in undercut : task[c].at = "write" /\ task'[c].at = "idle"
<1>1. Holders # {} /\ Holders' = {}
  <2>1. Holders # {}
    BY HoldersManage DEF StaffInv
  <2>2. StaffTypeOK'
    BY DEF StaffInv
  <2>3. Holders' = {}
    BY <2>2 DEF Administered, Holders, Manages, Team, Permissions, Effective,
                RolePermissions, Catalogue, StaffTypeOK, Roles
  <2> QED
    BY <2>1, <2>3
<1>2. PICK c \in StaffRequests : WriteRole(c) \/ WriteRevoke(c)
  BY <1>1, HoldersLost
<1>3. c \in undercut
  BY <1>1, <1>2, WriteLeavesOne
<1>4. task[c].at = "write" /\ task'[c].at = "idle"
  BY <1>2, EndFacts, NoTaskTyped DEF WriteRole, WriteRevoke, StaffInv
<1> QED
  BY <1>3, <1>4

(* The last-holder rule: however many requests overlap and wherever they    *)
(* die, the store loses its last administrator only to the write of a       *)
(* demotion that a revocation or a promotion undercut.                      *)
THEOREM LastAdministratorStays == StaffSpec => KeepsAdministrator
<1>1. StaffInit => StaffInv /\ CountInv /\ KeepInv
  <2> SUFFICES ASSUME StaffInit PROVE StaffInv /\ CountInv /\ KeepInv
    OBVIOUS
  <2>1. \A c \in StaffRequests : task[c].at = "idle"
    BY NoTaskTyped DEF StaffInit
  <2>2. CountInv /\ KeepInv
    BY <2>1 DEF CountInv, CountStands, KeepInv, CountIsWhole, Demoting
  <2> QED
    BY <2>2, StaffInitial
<1>2. (StaffInv /\ CountInv /\ KeepInv) /\ [StaffNext]_staffVars
        => (StaffInv /\ CountInv /\ KeepInv)'
  BY StaffStep, CountStep, KeepStep
<1>3. (StaffInv /\ CountInv /\ KeepInv) /\ (StaffInv /\ CountInv /\ KeepInv)'
        /\ [StaffNext]_staffVars
        => [Administered /\ ~Administered' =>
              \E c \in undercut : task[c].at = "write" /\ task'[c].at = "idle"]_staffVars
  BY OnlyUndercutEmpties
<1> QED
  BY <1>1, <1>2, <1>3, PTL DEF StaffSpec, KeepsAdministrator

=============================================================================
