----------------------------- MODULE StaffAdmin -----------------------------
(***************************************************************************)
(* Who works here: roles, permissions granted to one person, and the rule   *)
(* that the store never runs out of accounts able to manage access          *)
(* (auth/staff/staff.service.ts, auth/admin-provisioning.ts, auth/authz).   *)
(*                                                                         *)
(* A demotion (a role change or a revocation) locks every holder of         *)
(* staff.manage before it decides.  The statement that does so is cut where *)
(* Postgres may stop it: it picks the rows from one snapshot, then takes    *)
(* their locks one by one in id order, waiting where it must.  At READ      *)
(* COMMITTED a row that was UPDATED while it waited is evaluated again, its *)
(* own columns fresh, the other tables still as of the snapshot; a row that *)
(* was only locked is not.                                                  *)
(***************************************************************************)
EXTENDS Integers, FiniteSets

CONSTANTS
  Accounts,       (* ids of users, ordered as ORDER BY id orders them       *)
  StaffRequests,  (* demotions and grants in flight: bounds their overlap   *)
  Assignable,     (* the roles requests name                                *)
  Grantable,      (* the permissions requests name                          *)
  NoAccount, NoRequest  (* null                                             *)

ASSUME StaffAssumption ==
  /\ Accounts \in SUBSET Nat
  /\ Assignable \in SUBSET {"customer", "operator", "admin"}
  /\ Grantable \in SUBSET {"staff.manage", "orders.read"}
  /\ NoAccount \notin Accounts
  /\ NoRequest \notin StaffRequests

VARIABLES
  role,      (* users.role_id; "none" before the account exists             *)
  grants,    (* user_permissions of each account                            *)
  userLock,  (* the transaction holding FOR UPDATE on each users row        *)
  task,      (* what each request in flight is about to do                  *)
  undercut   (* history: demotions in flight that a write outside their     *)
             (* locks undercut                                              *)

staffVars == <<role, grants, userLock, task, undercut>>

-----------------------------------------------------------------------------
Roles == {"customer", "operator", "admin"}

(* "retired.key" may be stored in a grant but is not in the catalogue.      *)
Keys == {"staff.manage", "orders.read", "retired.key"}

Catalogue == {"staff.manage", "orders.read"}

RolePermissions(r) ==
  CASE r = "admin"    -> Catalogue
    [] r = "operator" -> {"orders.read"}
    [] OTHER          -> {}

(* resolveEffectivePermissions: what the guard of every route will see.     *)
Effective(r, granted) == (RolePermissions(r) \cup granted) \cap Catalogue

Permissions(u) == Effective(role[u], grants[u])

Manages(r, granted) == "staff.manage" \in RolePermissions(r) \cup granted

Holders == {u \in Accounts : Manages(role[u], grants[u])}

(* The staff list without an address: a position or a direct grant.         *)
Team == {u \in Accounts : role[u] \notin {"none", "customer"} \/ grants[u] # {}}

Tasks ==
  [at: {"idle", "grant", "lock", "assert", "write"},
   op: {"none", "role", "revoke"},
   caller: Accounts \cup {NoAccount}, target: Accounts \cup {NoAccount},
   role: Roles, key: Keys,
   rows: SUBSET Accounts, found: SUBSET Accounts,
   roleThen: [Accounts -> Roles \cup {"none"}], directThen: SUBSET Accounts]

NoTask ==
  [at |-> "idle", op |-> "none", caller |-> NoAccount, target |-> NoAccount,
   role |-> "customer", key |-> "orders.read", rows |-> {}, found |-> {},
   roleThen |-> [u \in Accounts |-> "none"], directThen |-> {}]

StaffTypeOK ==
  /\ role \in [Accounts -> Roles \cup {"none"}]
  /\ grants \in [Accounts -> SUBSET Keys]
  /\ userLock \in [Accounts -> StaffRequests \cup {NoRequest}]
  /\ task \in [StaffRequests -> Tasks]
  /\ undercut \subseteq StaffRequests

(* A seeded store with one or two administrators, one of whose accounts may *)
(* carry a grant an older catalogue knew.                                   *)
StaffInit ==
  /\ \E admins \in SUBSET Accounts :
       /\ Cardinality(admins) \in {1, 2}
       /\ role = [u \in Accounts |-> IF u \in admins THEN "admin" ELSE "none"]
  /\ \E u \in Accounts, old \in SUBSET {"retired.key"} :
       grants = [v \in Accounts |-> IF v = u /\ role[v] # "none" THEN old ELSE {}]
  /\ userLock = [u \in Accounts |-> NoRequest]
  /\ task = [c \in StaffRequests |-> NoTask]
  /\ undercut = {}

-----------------------------------------------------------------------------
Exists(u) == role[u] # "none"

LockedByOthers(c, u) == userLock[u] \notin {c, NoRequest}

Unlocked(c) ==
  [u \in Accounts |-> IF userLock[u] = c THEN NoRequest ELSE userLock[u]]

(* The transaction is over, committed or rolled back.                       *)
EndTask(c) ==
  /\ task' = [task EXCEPT ![c] = NoTask]
  /\ userLock' = Unlocked(c)

Demoting(c) == task[c].at \in {"lock", "assert", "write"}

(* What the row locks do not cover: a revocation of staff.manage deletes a *)
(* row of user_permissions under the demotions that picked its users row,   *)
(* and an account that nobody locked, since it was no holder, may be given  *)
(* staff.manage under the demotions aimed at it.                            *)
Picking(u) ==
  {d \in StaffRequests : Demoting(d) /\ u \in task[d].rows \cup task[d].found}

AimedAt(u) == {d \in StaffRequests : Demoting(d) /\ task[d].target = u}

(* ... as the request c ends, and its own demotion with it.                 *)
Undercuts(c, requests) == undercut' = (undercut \cup requests) \ {c}

(* JwtStrategy.validate and PermissionsGuard: the caller's permissions are  *)
(* read once, when the request arrives.                                     *)
Admitted(caller) == Exists(caller) /\ "staff.manage" \in Permissions(caller)

(* A customer signs up (AuthService.register): the default role.            *)
SignUp(u) ==
  /\ role[u] = "none"
  /\ role' = [role EXCEPT ![u] = "customer"]
  /\ UNCHANGED <<grants, userLock, task, undercut>>

(* `admin:create` on the command line: an UPDATE of one users row, or an    *)
(* INSERT, without the holders' lock.                                       *)
ProvisionAdmin(u) ==
  /\ userLock[u] = NoRequest
  /\ role' = [role EXCEPT ![u] = "admin"]
  /\ undercut' = undercut \cup AimedAt(u)
  /\ UNCHANGED <<grants, userLock, task>>

-----------------------------------------------------------------------------
(* requireRole and requirePermissionRow: a role or a permission the seeded  *)
(* database does not know is refused before anything is locked.             *)
KnownRole(r) == r \in Roles
KnownKey(k) == k \in Keys

(* POST /staff/:id/permissions.                                             *)
GrantStart(c, caller, u, k) ==
  LET t == [NoTask EXCEPT !.at = "grant", !.caller = caller, !.target = u, !.key = k]
  IN /\ task[c].at = "idle"
     /\ Admitted(caller)
     /\ u # caller /\ KnownKey(k)
     /\ Exists(u)
     /\ task' = [task EXCEPT ![c] = t]
     /\ UNCHANGED <<role, grants, userLock, undercut>>

(* The upsert. Its foreign keys take FOR KEY SHARE on both users rows,      *)
(* which waits for a FOR UPDATE.                                            *)
GrantCommit(c) ==
  LET t == task[c] IN
  /\ t.at = "grant"
  /\ ~LockedByOthers(c, t.target) /\ ~LockedByOthers(c, t.caller)
  /\ grants' = [grants EXCEPT ![t.target] = @ \cup {t.key}]
  /\ Undercuts(c, {d \in AimedAt(t.target) : t.key = "staff.manage"})
  /\ EndTask(c)
  /\ UNCHANGED role

-----------------------------------------------------------------------------
(* lockHolders picks the rows: every later evaluation of role_permissions   *)
(* and user_permissions by this statement sees them as they are now.        *)
Picked(t) ==
  [t EXCEPT !.at = "lock", !.rows = Holders,
            !.roleThen = [u \in Accounts |-> IF u \in Holders THEN role[u] ELSE "none"],
            !.directThen = {u \in Accounts : "staff.manage" \in grants[u]}]

(* PATCH /staff/:id/role.                                                   *)
ChangeRoleStart(c, caller, u, r) ==
  LET t == [NoTask EXCEPT !.op = "role", !.caller = caller, !.target = u, !.role = r]
  IN /\ task[c].at = "idle"
     /\ Admitted(caller)
     /\ u # caller /\ KnownRole(r)
     /\ Exists(u)
     /\ task' = [task EXCEPT ![c] = Picked(t)]
     /\ UNCHANGED <<role, grants, userLock, undercut>>

(* DELETE /staff/:id/permissions/:permission; the caller may be the target. *)
RevokeStart(c, caller, u, k) ==
  LET t == [NoTask EXCEPT !.op = "revoke", !.target = u, !.key = k]
  IN /\ task[c].at = "idle"
     /\ Admitted(caller)
     /\ Exists(u)
     /\ task' = [task EXCEPT ![c] = Picked(t)]
     /\ UNCHANGED <<role, grants, userLock, undercut>>

(* Mutant: the SELECT without FOR UPDATE.                                   *)
ReadRow(c) ==
  LET t == task[c]
      u == CHOOSE v \in t.rows : \A w \in t.rows : v <= w
  IN /\ t.at = "lock" /\ t.rows # {}
     /\ task' = [task EXCEPT ![c].rows = @ \ {u}, ![c].found = @ \cup {u}]
     /\ UNCHANGED <<role, grants, userLock, undercut>>

(* Mutant: without ORDER BY.                                                *)
LockAnyRow(c) ==
  LET t == task[c] IN
  /\ t.at = "lock"
  /\ \E u \in t.rows :
       /\ ~LockedByOthers(c, u)
       /\ userLock' = [userLock EXCEPT ![u] = c]
       /\ task' = [task EXCEPT ![c].rows = @ \ {u}, ![c].found = @ \cup {u}]
  /\ UNCHANGED <<role, grants, undercut>>

(* The next row of ORDER BY id, obtained once nobody else holds it.         *)
LockRow(c) ==
  LET t == task[c]
      u == CHOOSE v \in t.rows : \A w \in t.rows : v <= w
      rechecked == role[u] # t.roleThen[u]
      holds == "staff.manage" \in RolePermissions(role[u]) \/ u \in t.directThen
  IN /\ t.at = "lock" /\ t.rows # {}
     /\ ~LockedByOthers(c, u)
     /\ userLock' = [userLock EXCEPT ![u] = c]
     /\ task' = [task EXCEPT ![c].rows = @ \ {u},
                             ![c].found = IF rechecked /\ ~holds THEN @ ELSE @ \cup {u}]
     /\ UNCHANGED <<role, grants, undercut>>

Locked(c) ==
  /\ task[c].at = "lock" /\ task[c].rows = {}
  /\ task' = [task EXCEPT ![c] = [@ EXCEPT !.at = "assert",
       !.roleThen = NoTask.roleThen, !.directThen = {}]]
  /\ UNCHANGED <<role, grants, userLock, undercut>>

(* Mutant: the target counts as its own successor.                          *)
KeepsAnybody(t, r, granted) ==
  \/ Manages(r, granted)
  \/ t.target \notin t.found
  \/ t.found # {}

(* assertStoreKeepsAnAdministrator.                                         *)
KeepsAnother(t, r, granted) ==
  \/ Manages(r, granted)
  \/ t.target \notin t.found
  \/ t.found \ {t.target} # {}

(* readAccount and the refusals: no such account, no such grant, last one.  *)
Allowed(t) ==
  /\ Exists(t.target)
  /\ IF t.op = "role"
     THEN KeepsAnother(t, t.role, grants[t.target])
     ELSE /\ t.key \in grants[t.target]
          /\ KeepsAnother(t, role[t.target], grants[t.target] \ {t.key})

Decide(c) ==
  /\ task[c].at = "assert"
  /\ IF Allowed(task[c])
     THEN task' = [task EXCEPT ![c].at = "write"] /\ UNCHANGED <<userLock, undercut>>
     ELSE EndTask(c) /\ Undercuts(c, {})
  /\ UNCHANGED <<role, grants>>

(* The write waits for the target's row like any other writer.              *)
WriteRole(c) ==
  LET t == task[c] IN
  /\ t.at = "write" /\ t.op = "role"
  /\ ~LockedByOthers(c, t.target)
  /\ role' = [role EXCEPT ![t.target] = t.role]
  /\ Undercuts(c, {d \in AimedAt(t.target) : "staff.manage" \in RolePermissions(t.role)})
  /\ EndTask(c)
  /\ UNCHANGED grants

(* A DELETE of a row of user_permissions touches no users row. One that is  *)
(* gone by now makes the statement fail, which ends the request as well.    *)
WriteRevoke(c) ==
  LET t == task[c] IN
  /\ t.at = "write" /\ t.op = "revoke"
  /\ grants' = [grants EXCEPT ![t.target] = @ \ {t.key}]
  /\ Undercuts(c, {d \in Picking(t.target) : t.key = "staff.manage"})
  /\ EndTask(c)
  /\ UNCHANGED role

(* The process dies, a statement fails, or Postgres ends a lock cycle.      *)
StaffAbort(c) ==
  /\ task[c].at # "idle"
  /\ Undercuts(c, {})
  /\ EndTask(c)
  /\ UNCHANGED <<role, grants>>

StaffNext ==
  \/ \E u \in Accounts : SignUp(u) \/ ProvisionAdmin(u)
  \/ \E c \in StaffRequests :
       \/ \E caller, u \in Accounts, k \in Grantable :
            GrantStart(c, caller, u, k) \/ RevokeStart(c, caller, u, k)
       \/ \E caller, u \in Accounts, r \in Assignable : ChangeRoleStart(c, caller, u, r)
       \/ GrantCommit(c) \/ LockRow(c) \/ Locked(c) \/ Decide(c)
       \/ WriteRole(c) \/ WriteRevoke(c) \/ StaffAbort(c)

StaffSpec == StaffInit /\ [][StaffNext]_staffVars

-----------------------------------------------------------------------------
(* PROPERTIES                                                               *)

(* "Without the lock, two holders renouncing at once each read 'somebody     *)
(* else is still here' and both commit": somebody can always manage access, *)
(* and is on the list that manages it (the comment on the demotions' lock,  *)
(* staff.service.ts).                                                       *)
Administered == \E u \in Team : "staff.manage" \in Permissions(u)

(* The store loses its last administrator in no step but the write of a     *)
(* demotion that was undercut: however many demotions overlap, and wherever *)
(* they die, one that was not finds somebody else still here                *)
(* (assertStoreKeepsAnAdministrator).                                       *)
KeepsAdministrator ==
  [][Administered /\ ~Administered' =>
       \E c \in undercut : task[c].at = "write" /\ task'[c].at = "idle"]_staffVars

(* The holders a demotion counted are holders still when it decides and     *)
(* when it writes, whatever commits in between: that is what its row locks  *)
(* are for. Only a revocation, which changes no row they cover, undoes it.  *)
CountedHoldersStay ==
  \A c \in StaffRequests \ undercut : Demoting(c) => task[c].found \subseteq Holders

(* The rows a request waits for, or would have to.                         *)
Wants(c) ==
  LET t == task[c] IN
  CASE t.at = "lock" /\ t.rows # {} -> {CHOOSE v \in t.rows : \A w \in t.rows : v <= w}
    [] t.at = "write" /\ t.op = "role" -> {t.target}
    [] t.at = "grant" -> {t.target, t.caller}
    [] OTHER -> {}

WaitsFor(c, d) == c # d /\ \E u \in Wants(c) : userLock[u] = d

(* Demotions of holders queue instead of deadlocking: each locks the        *)
(* holders it picked in one order, though they picked them at different     *)
(* times (the comment of lockHolders).  A role given to somebody who is no  *)
(* longer a holder waits for a row outside that order, and may close a      *)
(* cycle with a demotion that picked the row while it was one.              *)
DemotionsQueue ==
  \A S \in (SUBSET StaffRequests) \ {{}} :
    \E c \in S : \/ \A d \in S : ~WaitsFor(c, d)
                 \/ task[c].at = "write" /\ task[c].target \notin task[c].found

=============================================================================
