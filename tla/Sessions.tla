------------------------------ MODULE Sessions ------------------------------
(***************************************************************************)
(* How a person comes to hold a session and how one ends: registration,     *)
(* mailed links, password and Google sign-in, rotation of refresh tokens    *)
(* (auth/auth.service.ts, auth/refresh-token.service.ts,                    *)
(* auth/verification-token.service.ts, auth/strategies).                    *)
(*                                                                         *)
(* A request is a sequence of database calls; each await is a step, and a   *)
(* request may stop between any two of them (a crash, an error answered).   *)
(* A transaction that reads and then writes is two steps, because READ      *)
(* COMMITTED lets another transaction commit between its statements.        *)
(***************************************************************************)
EXTENDS Integers, FiniteSets

CONSTANTS
  Users,      (* normalised addresses, each the key of at most one row      *)
  Requests,   (* requests in flight: bounds their overlap                   *)
  Passwords, GoogleIds,
  MaxTokens,  (* refresh tokens ever minted: a bound of the model           *)
  MaxLinks,   (* mailed links ever issued: a bound of the model             *)
  MaxSecrets, (* tokens and links ever issued together: a bound             *)
  Null

ASSUME SessionsAssumption ==
  /\ MaxTokens \in Nat /\ MaxLinks \in Nat /\ MaxSecrets \in Nat
  /\ Null \notin Users \cup Passwords \cup GoogleIds

VARIABLES
  acct,     (* users rows: password hash, emailVerifiedAt, googleId         *)
  token,    (* refresh_tokens, in order of creation                         *)
  link,     (* verification_tokens, in order of creation                    *)
  mailed,   (* the links that reached their mailbox                         *)
  job,      (* where each request is, and what it has read                  *)
  proven,   (* history: who showed they read their mailbox                  *)
  settled,  (* history: families swept while none of their tokens rotated   *)
  crossed   (* history: <<user, purpose>> of issues that overlapped         *)

sessionVars == <<acct, token, link, mailed, job, proven, settled, crossed>>

-----------------------------------------------------------------------------
Purposes == {"EMAIL_VERIFICATION", "PASSWORD_RESET"}

TokenIds == 1..MaxTokens
LinkIds == 1..MaxLinks

Rows == [row: BOOLEAN, pw: Passwords \cup {Null}, verified: BOOLEAN,
         google: GoogleIds \cup {Null}]

NoRow == [row |-> FALSE, pw |-> Null, verified |-> FALSE, google |-> Null]

(* parent is the token this one replaced, 0 for the first of a family; a    *)
(* family is named by its first token.                                      *)
RefreshTokens == [owner: Users \cup {Null}, family: 0..MaxTokens,
                  parent: 0..MaxTokens,
                  used: BOOLEAN, revoked: BOOLEAN, expired: BOOLEAN]

NoToken == [owner |-> Null, family |-> 0, parent |-> 0,
            used |-> FALSE, revoked |-> FALSE, expired |-> FALSE]

VerificationTokens == [owner: Users \cup {Null}, purpose: Purposes,
                       used: BOOLEAN, expired: BOOLEAN]

NoLink == [owner |-> Null, purpose |-> "EMAIL_VERIFICATION",
           used |-> FALSE, expired |-> FALSE]

Steps == {"idle", "create", "retire", "issue", "mail", "spend", "verify",
          "password", "confirm", "revoke", "mint", "byEmail", "attach",
          "enrol", "rotate", "sweep"}

Jobs == [at: Steps, user: Users \cup {Null}, pw: Passwords \cup {Null},
         google: GoogleIds \cup {Null}, purpose: Purposes,
         link: 0..MaxLinks, token: 0..MaxTokens, seen: SUBSET LinkIds]

NoJob == [at |-> "idle", user |-> Null, pw |-> Null, google |-> Null,
          purpose |-> "EMAIL_VERIFICATION", link |-> 0, token |-> 0, seen |-> {}]

SessionsTypeOK ==
  /\ acct \in [Users -> Rows]
  /\ token \in [TokenIds -> RefreshTokens]
  /\ link \in [LinkIds -> VerificationTokens]
  /\ mailed \subseteq LinkIds
  /\ job \in [Requests -> Jobs]
  /\ proven \subseteq Users
  /\ settled \subseteq TokenIds
  /\ crossed \subseteq Users \X Purposes

SessionsInit ==
  /\ acct = [u \in Users |-> NoRow]
  /\ token = [t \in TokenIds |-> NoToken]
  /\ link = [l \in LinkIds |-> NoLink]
  /\ mailed = {} /\ proven = {} /\ settled = {} /\ crossed = {}
  /\ job = [c \in Requests |-> NoJob]

-----------------------------------------------------------------------------
Minted == {t \in TokenIds : token[t].owner # Null}
Issued == {l \in LinkIds : link[l].owner # Null}

NextToken == Cardinality(Minted) + 1
NextLink == Cardinality(Issued) + 1

Dead(t) == token[t].revoked \/ token[t].expired
Usable(t) == token[t].owner # Null /\ ~token[t].used /\ ~Dead(t)

Live(l) == link[l].owner # Null /\ ~link[l].used /\ ~link[l].expired

Unspent(u, p) ==
  {l \in Issued : link[l].owner = u /\ link[l].purpose = p /\ ~link[l].used}

Owners(g) == {u \in Users : acct[u].google = g}

Room == NextToken + NextLink <= MaxSecrets + 1

(* Where a request goes next, keeping what it has learnt.                   *)
GoTo(c, step) == job' = [job EXCEPT ![c].at = step]

Finish(c) == job' = [job EXCEPT ![c] = NoJob]

Begin(c, j) == job[c].at = "idle" /\ job' = [job EXCEPT ![c] = j]

KeepTables == UNCHANGED <<acct, token, link, mailed>>
KeepHistory == UNCHANGED <<proven, settled, crossed>>

-----------------------------------------------------------------------------
(* VerificationTokenService.issue, after a caller read the row: retire what *)
(* its first statement sees, create the new link, commit; then the mail.    *)
IssueFor(u, p) == [NoJob EXCEPT !.at = "retire", !.user = u, !.purpose = p]

IssueRetire(c) ==
  /\ job[c].at = "retire"
  /\ job' = [job EXCEPT ![c].at = "issue",
                        ![c].seen = Unspent(job[c].user, job[c].purpose)]
  /\ LET key == <<job[c].user, job[c].purpose>>
         other == \E d \in Requests \ {c} :
                    job[d].at = "issue" /\ <<job[d].user, job[d].purpose>> = key
     IN crossed' = IF other THEN crossed \cup {key} ELSE crossed
  /\ KeepTables
  /\ UNCHANGED <<proven, settled>>

(* Mutant: the new link leaves the earlier ones alone.                      *)
IssueBeside(c) ==
  /\ job[c].at = "issue" /\ NextLink \in LinkIds /\ Room
  /\ link' = [link EXCEPT ![NextLink] =
       [NoLink EXCEPT !.owner = job[c].user, !.purpose = job[c].purpose]]
  /\ job' = [job EXCEPT ![c].at = "mail", ![c].link = NextLink, ![c].seen = {}]
  /\ UNCHANGED <<acct, token, mailed>>
  /\ KeepHistory

IssueCommit(c) ==
  /\ job[c].at = "issue" /\ NextLink \in LinkIds /\ Room
  /\ link' = [l \in LinkIds |->
       IF l \in job[c].seen THEN [link[l] EXCEPT !.used = TRUE]
       ELSE IF l = NextLink
       THEN [NoLink EXCEPT !.owner = job[c].user, !.purpose = job[c].purpose]
       ELSE link[l]]
  /\ job' = [job EXCEPT ![c].at = "mail", ![c].link = NextLink, ![c].seen = {}]
  /\ UNCHANGED <<acct, token, mailed>>
  /\ KeepHistory

(* A refused mail is swallowed for a verification and surfaces for a reset; *)
(* either way the link stays issued and nobody holds it.                    *)
Mail(c) ==
  /\ job[c].at = "mail"
  /\ mailed' \in {mailed, mailed \cup {job[c].link}}
  /\ Finish(c)
  /\ UNCHANGED <<acct, token, link>>
  /\ KeepHistory

(* Mutant: a link of any kind will do.                                      *)
AcceptsAny(l, p) == l \in mailed /\ Live(l)

(* consume reads the link, and later spends it by id: what it read decides. *)
Accepts(l, p) == l \in mailed /\ Live(l) /\ link[l].purpose = p

Present(c, l, p, pw) ==
  /\ Accepts(l, p)
  /\ Begin(c, [NoJob EXCEPT !.at = "spend", !.user = link[l].owner,
                            !.purpose = p, !.link = l, !.pw = pw])
  /\ KeepTables
  /\ KeepHistory

VerifyEmail(c) == \E l \in LinkIds : Present(c, l, "EMAIL_VERIFICATION", Null)

ResetPassword(c) ==
  \E l \in LinkIds, pw \in Passwords : Present(c, l, "PASSWORD_RESET", pw)

Spend(c) ==
  /\ job[c].at = "spend"
  /\ link' = [link EXCEPT ![job[c].link].used = TRUE]
  /\ proven' = proven \cup {job[c].user}
  /\ job' = [job EXCEPT ![c].at = IF job[c].pw = Null THEN "verify" ELSE "password",
                        ![c].link = 0]
  /\ UNCHANGED <<acct, token, mailed, settled, crossed>>

-----------------------------------------------------------------------------
(* register; forgotPassword; resendVerification: what they read of the row  *)
(* decides what they do.  A request that is refused changes nothing.        *)
Register(c) ==
  \E u \in Users, pw \in Passwords :
    /\ ~acct[u].verified
    /\ Begin(c, IF acct[u].row THEN IssueFor(u, "EMAIL_VERIFICATION")
                ELSE [NoJob EXCEPT !.at = "create", !.user = u, !.pw = pw])
    /\ KeepTables
    /\ KeepHistory

(* The address is unique: a second create of it fails.                      *)
CreateRow(c) ==
  /\ job[c].at = "create"
  /\ LET u == job[c].user
     IN IF acct[u].row
        THEN UNCHANGED acct /\ Finish(c)
        ELSE /\ acct' = [acct EXCEPT ![u] =
                  [row |-> TRUE, pw |-> job[c].pw, verified |-> FALSE, google |-> Null]]
             /\ job' = [job EXCEPT ![c] = IssueFor(u, "EMAIL_VERIFICATION")]
  /\ UNCHANGED <<token, link, mailed>>
  /\ KeepHistory

ResendVerification(c) ==
  \E u \in Users :
    /\ acct[u].row /\ ~acct[u].verified
    /\ Begin(c, IssueFor(u, "EMAIL_VERIFICATION"))
    /\ KeepTables
    /\ KeepHistory

ForgotPassword(c) ==
  \E u \in Users :
    /\ acct[u].row /\ acct[u].pw # Null
    /\ Begin(c, IssueFor(u, "PASSWORD_RESET"))
    /\ KeepTables
    /\ KeepHistory

(* The rest of verifyEmail and of resetPassword, after the link is spent.   *)
MarkVerified(c) ==
  /\ job[c].at \in {"verify", "confirm"}
  /\ acct' = [acct EXCEPT ![job[c].user].verified = TRUE]
  /\ IF job[c].at = "verify" THEN Finish(c) ELSE GoTo(c, "revoke")
  /\ UNCHANGED <<token, link, mailed>>
  /\ KeepHistory

SetPassword(c) ==
  /\ job[c].at = "password"
  /\ acct' = [acct EXCEPT ![job[c].user].pw = job[c].pw]
  /\ job' = [job EXCEPT ![c].at = "confirm", ![c].pw = Null]
  /\ UNCHANGED <<token, link, mailed>>
  /\ KeepHistory

(* Families none of whose tokens is between its read and its commit.        *)
Quiet(families) ==
  {f \in families : \A d \in Requests :
     job[d].at = "rotate" => token[job[d].token].family # f}

(* Mutant: only the tokens already consumed.                                *)
RevokeConsumed(families) ==
  /\ token' = [t \in TokenIds |->
       IF token[t].family \in families /\ token[t].used
       THEN [token[t] EXCEPT !.revoked = TRUE] ELSE token[t]]
  /\ settled' = settled \cup Quiet(families)

Revoke(families) ==
  /\ token' = [t \in TokenIds |->
       IF token[t].family \in families THEN [token[t] EXCEPT !.revoked = TRUE]
       ELSE token[t]]
  /\ settled' = settled \cup Quiet(families)

FamiliesOf(u) == {token[t].family : t \in {s \in Minted : token[s].owner = u}}

RevokeAllSessions(c) ==
  /\ job[c].at = "revoke"
  /\ Revoke(FamiliesOf(job[c].user))
  /\ Finish(c)
  /\ UNCHANGED <<acct, link, mailed, proven, crossed>>

-----------------------------------------------------------------------------
(* Mutant: without the look at emailVerifiedAt.                             *)
LoginUnverified(c) ==
  \E u \in Users, pw \in Passwords :
    /\ acct[u].row /\ acct[u].pw = pw
    /\ Begin(c, [NoJob EXCEPT !.at = "mint", !.user = u])
    /\ KeepTables
    /\ KeepHistory

(* login: password and emailVerifiedAt come from one read.                  *)
Login(c) ==
  \E u \in Users, pw \in Passwords :
    /\ acct[u].row /\ acct[u].pw = pw /\ acct[u].verified
    /\ Begin(c, [NoJob EXCEPT !.at = "mint", !.user = u])
    /\ KeepTables
    /\ KeepHistory

(* loginWithGoogle, of a profile whose address Google verified (another is  *)
(* refused before anything is read): by subject id, then by address.        *)
LoginWithGoogle(c) ==
  \E g \in GoogleIds, u \in Users :
    /\ \/ /\ Owners(g) # {}
          /\ \E v \in Owners(g) : Begin(c, [NoJob EXCEPT !.at = "mint", !.user = v])
       \/ /\ Owners(g) = {}
          /\ Begin(c, [NoJob EXCEPT !.at = "byEmail", !.user = u, !.google = g])
    /\ KeepTables
    /\ KeepHistory

GoogleByEmail(c) ==
  /\ job[c].at = "byEmail"
  /\ GoTo(c, IF acct[job[c].user].row THEN "attach" ELSE "enrol")
  /\ KeepTables
  /\ KeepHistory

(* google_id and the address are unique: the loser of a race fails.         *)
GoogleWrite(c) ==
  /\ job[c].at \in {"attach", "enrol"}
  /\ LET u == job[c].user
         g == job[c].google
         collides == \/ Owners(g) \ {u} # {}
                     \/ job[c].at = "enrol" /\ acct[u].row
     IN IF collides
        THEN UNCHANGED <<acct, proven>> /\ Finish(c)
        ELSE /\ acct' = [acct EXCEPT ![u] =
                  [row |-> TRUE, pw |-> @.pw, verified |-> TRUE, google |-> g]]
             /\ proven' = proven \cup {u}
             /\ job' = [job EXCEPT ![c] = [NoJob EXCEPT !.at = "mint", !.user = u]]
  /\ UNCHANGED <<token, link, mailed, settled, crossed>>

(* issueTokensFor: a new family.                                            *)
MintedToken(u, f, p) == [NoToken EXCEPT !.owner = u, !.family = f, !.parent = p]

Mint(c) ==
  /\ job[c].at = "mint" /\ NextToken \in TokenIds /\ Room
  /\ token' = [token EXCEPT ![NextToken] = MintedToken(job[c].user, NextToken, 0)]
  /\ Finish(c)
  /\ UNCHANGED <<acct, link, mailed>>
  /\ KeepHistory

-----------------------------------------------------------------------------
(* rotate: what the transaction read decides, and the write names the row   *)
(* by its id alone.  A consumed token is reported first, dead or not.       *)
Rotate(c) ==
  \E t \in Minted :
    /\ token[t].used \/ ~Dead(t)
    /\ Begin(c, [NoJob EXCEPT !.at = IF token[t].used THEN "sweep" ELSE "rotate",
                              !.token = t])
    /\ KeepTables
    /\ KeepHistory

(* Mutant: the replaced token is not consumed.                              *)
RotateBeside(c) ==
  /\ job[c].at = "rotate" /\ NextToken \in TokenIds /\ Room
  /\ LET t == job[c].token
     IN token' = [token EXCEPT
          ![NextToken] = MintedToken(token[t].owner, token[t].family, t)]
  /\ Finish(c)
  /\ UNCHANGED <<acct, link, mailed>>
  /\ KeepHistory

(* Mutant: the successor's user_id is given the id of the row it replaces.  *)
RotateWrongId(c) ==
  /\ job[c].at = "rotate" /\ NextToken \in TokenIds /\ Room
  /\ LET t == job[c].token
     IN token' = [token EXCEPT
          ![t].used = TRUE,
          ![NextToken] = MintedToken(t, token[t].family, t)]
  /\ Finish(c)
  /\ UNCHANGED <<acct, link, mailed>>
  /\ KeepHistory

RotateCommit(c) ==
  /\ job[c].at = "rotate" /\ NextToken \in TokenIds /\ Room
  /\ LET t == job[c].token
     IN token' = [token EXCEPT
          ![t].used = TRUE,
          ![NextToken] = MintedToken(token[t].owner, token[t].family, t)]
  /\ Finish(c)
  /\ UNCHANGED <<acct, link, mailed>>
  /\ KeepHistory

(* After the transaction has committed: a crash in between loses the sweep. *)
SweepFamily(c) ==
  /\ job[c].at = "sweep"
  /\ Revoke({token[job[c].token].family})
  /\ Finish(c)
  /\ UNCHANGED <<acct, link, mailed, proven, crossed>>

(* logout: the columns it reads first (owner, family) never change.         *)
Logout ==
  \E t \in Minted :
    /\ Revoke({token[t].family})
    /\ UNCHANGED <<acct, link, mailed, job, proven, crossed>>

-----------------------------------------------------------------------------
(* One lifetime for every token, one for each kind of link: the older goes  *)
(* first.                                                                   *)
ExpireToken ==
  \E t \in Minted :
    /\ ~token[t].expired
    /\ \A s \in 1..(t - 1) : token[s].expired
    /\ token' = [token EXCEPT ![t].expired = TRUE]
    /\ UNCHANGED <<acct, link, mailed, job>>
    /\ KeepHistory

ExpireLink ==
  \E l \in Issued :
    /\ ~link[l].expired
    /\ \A k \in 1..(l - 1) : link[k].purpose = link[l].purpose => link[k].expired
    /\ link' = [link EXCEPT ![l].expired = TRUE]
    /\ UNCHANGED <<acct, token, mailed, job>>
    /\ KeepHistory

(* A crash, or an error the request ends with.                              *)
Stop(c) ==
  /\ job[c].at # "idle"
  /\ Finish(c)
  /\ KeepTables
  /\ KeepHistory

SessionsNext ==
  \/ \E c \in Requests :
       \/ Register(c) \/ CreateRow(c) \/ ResendVerification(c) \/ ForgotPassword(c)
       \/ IssueRetire(c) \/ IssueCommit(c) \/ Mail(c)
       \/ VerifyEmail(c) \/ ResetPassword(c) \/ Spend(c)
       \/ MarkVerified(c) \/ SetPassword(c) \/ RevokeAllSessions(c)
       \/ Login(c) \/ LoginWithGoogle(c) \/ GoogleByEmail(c) \/ GoogleWrite(c)
       \/ Mint(c) \/ Rotate(c) \/ RotateCommit(c) \/ SweepFamily(c) \/ Stop(c)
  \/ Logout \/ ExpireToken \/ ExpireLink

SessionsSpec == SessionsInit /\ [][SessionsNext]_sessionVars

-----------------------------------------------------------------------------
Children(t) == {s \in Minted : token[s].parent = t}

(* rotate's comment: two concurrent refreshes of one token must not both    *)
(* walk away with live tokens.  Two transactions that read consumedAt null  *)
(* both commit, so the code allows it.                                      *)
RotatesOnce ==
  \A t \in Minted : Cardinality({s \in Children(t) : Usable(s)}) <= 1

(* Short of that race a session is a single line: a family in which no      *)
(* token was replaced twice has at most one token that still works, however *)
(* refreshes, replays, sweeps and crashes interleave.                       *)
OneSuccessorLine ==
  \A f \in Minted :
    LET line == {t \in Minted : token[t].family = f}
    IN (\A t \in line : Cardinality(Children(t)) <= 1)
         => Cardinality({t \in line : Usable(t)}) <= 1

(* A session that was ended stays ended: once a replay, a logout or a reset *)
(* has swept a family none of whose tokens was in the middle of a rotation, *)
(* no token of it ever works again.                                         *)
SweptStaysDead == \A t \in Minted : token[t].family \in settled => ~Usable(t)

(* Nobody holds a session for an address nobody proved to read, by a link   *)
(* mailed to it or by Google's word, through every path that mints a token. *)
SessionMeansProven == \A t \in Minted : token[t].owner \in proven

(* Only the most recent link works (the comment of issue), unless two       *)
(* issues of one kind for one person overlapped.                            *)
NewestLinkOnly ==
  \A l \in Issued, k \in Issued :
    /\ Live(l) /\ Live(k) /\ link[l].owner = link[k].owner
    /\ link[l].purpose = link[k].purpose
    /\ <<link[l].owner, link[l].purpose>> \notin crossed
    => l = k

(* A password that exists is replaced only by a request that spent a        *)
(* PASSWORD_RESET link mailed to that very person: no sign-up, no Google    *)
(* sign-in and no link of the other kind does it.                           *)
PasswordChangesByReset ==
  [][\A u \in Users :
       acct[u].row /\ acct'[u].pw # acct[u].pw =>
         \E l \in mailed :
           /\ link[l].owner = u /\ link[l].used
           /\ link[l].purpose = "PASSWORD_RESET"]_sessionVars
=============================================================================
