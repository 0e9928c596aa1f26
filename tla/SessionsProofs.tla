--------------------------- MODULE SessionsProofs ---------------------------
(***************************************************************************)
(* For any number of people, requests, tokens and links: every session is   *)
(* somebody's who proved to read their mailbox, a swept session is dead for  *)
(* good, a session is a single line of tokens, only the newest link works,  *)
(* and a password is replaced only through a reset.                         *)
(***************************************************************************)
EXTENDS MCAccounts, StaffProofs

(* Rows are created in the order of their ids and never deleted.            *)
LinkTable ==
  /\ \E n \in 0..MaxLinks : Issued = 1..n
  /\ mailed \subseteq Issued

(* A token belongs to a family that was minted, follows a consumed token of *)
(* the same family, and once consumed has been followed.                    *)
Lineage ==
  \A t \in Minted :
    /\ token[t].family \in Minted
    /\ token[t].parent # 0 => /\ token[t].parent \in Minted
                              /\ token[token[t].parent].used
                              /\ token[token[t].parent].family = token[t].family
    /\ token[t].used => \E s \in Minted : token[s].parent = t

TokenTable ==
  /\ \E n \in 0..MaxTokens : Minted = 1..n
  /\ settled \subseteq Minted
  /\ Lineage
  /\ SweptStaysDead
  /\ SessionMeansProven

AcctTable == \A u \in Users : acct[u].verified \/ acct[u].google # Null => u \in proven

ResetLinkSpent(u) ==
  \E l \in mailed :
    link[l].owner = u /\ link[l].used /\ link[l].purpose = "PASSWORD_RESET"

(* What a request has read so far still holds where its next step needs it. *)
JobFacts(c) ==
  LET j == job[c] IN
  /\ j.at \notin {"idle", "rotate", "sweep"} => j.user \in Users
  /\ j.at \in {"verify", "password", "confirm", "revoke", "mint"} => j.user \in proven
  /\ j.at = "issue" => j.seen \subseteq Issued
  /\ j.at = "mail" => j.link \in Issued
  /\ j.at = "spend" =>
       /\ j.link \in mailed /\ link[j.link].owner = j.user
       /\ j.pw # Null => link[j.link].purpose = "PASSWORD_RESET"
  /\ j.at = "password" => ResetLinkSpent(j.user)
  /\ j.at \in {"rotate", "sweep"} => j.token \in Minted
  /\ j.at = "rotate" => token[j.token].family \notin settled

SessionsInv ==
  /\ SessionsTypeOK
  /\ LinkTable /\ TokenTable /\ AcctTable
  /\ \A c \in Requests : JobFacts(c)

(* In a family whose tokens were each replaced at most once, the one not    *)
(* consumed is the latest.                                                  *)
InFamily(f) == {t \in Minted : token[t].family = f}

SingleLine(f) == \A t \in InFamily(f) : \A a, b \in Children(t) : a = b

LatestOnly ==
  \A f \in Minted : SingleLine(f) =>
    \A t \in InFamily(f) : ~token[t].used => \A s \in InFamily(f) : s <= t

(* An issue that overlaps no other of its kind has seen every link of that  *)
(* kind that still works.                                                   *)
KeyOf(c) == <<job[c].user, job[c].purpose>>

SeenAll(c) ==
  job[c].at = "issue" /\ KeyOf(c) \notin crossed =>
    /\ \A l \in Issued : Live(l) /\ <<link[l].owner, link[l].purpose>> = KeyOf(c)
                           => l \in job[c].seen
    /\ \A d \in Requests \ {c} : job[d].at = "issue" => KeyOf(d) # KeyOf(c)

NewestInv == NewestLinkOnly /\ \A c \in Requests : SeenAll(c)

-----------------------------------------------------------------------------
(* ROWS IN ORDER *)

LEMMA UpTo ==
  ASSUME NEW n \in Nat
  PROVE  Cardinality(1..n) = n /\ 1..(n + 1) = (1..n) \cup {n + 1} /\ (n + 1) \notin 1..n
<1>1. Cardinality(1..n) = n
  BY FS_Interval
<1> QED
  BY <1>1

(* The next token and the next link are new, and later than every other.    *)
LEMMA NextTokenIsNew ==
  ASSUME TokenTable, NextToken \in TokenIds
  PROVE  /\ NextToken \notin Minted /\ NextToken \notin settled
         /\ \A t \in Minted : t < NextToken
         /\ \E n \in 0..MaxTokens : Minted \cup {NextToken} = 1..n
<1>1. PICK n \in 0..MaxTokens : Minted = 1..n
  BY DEF TokenTable
<1>2. n \in Nat /\ NextToken = n + 1
  <2>1. n \in Nat
    BY <1>1, SessionsAssumption
  <2> QED
    BY <1>1, <2>1, UpTo DEF NextToken
<1>3. n + 1 \in 0..MaxTokens
  BY <1>2 DEF TokenIds
<1> QED
  BY <1>1, <1>2, <1>3, UpTo DEF TokenTable

LEMMA NextLinkIsNew ==
  ASSUME LinkTable, NextLink \in LinkIds
  PROVE  /\ NextLink \notin Issued
         /\ \E n \in 0..MaxLinks : Issued \cup {NextLink} = 1..n
<1>1. PICK n \in 0..MaxLinks : Issued = 1..n
  BY DEF LinkTable
<1>2. n \in Nat /\ NextLink = n + 1
  <2>1. n \in Nat
    BY <1>1, SessionsAssumption
  <2> QED
    BY <1>1, <2>1, UpTo DEF NextLink
<1>3. n + 1 \in 0..MaxLinks
  BY <1>2 DEF LinkIds
<1> QED
  BY <1>1, <1>2, <1>3, UpTo

-----------------------------------------------------------------------------
(* ONE REQUEST MOVES *)

LEMMA NoJobTyped == NoJob \in Jobs /\ NoJob.at = "idle"
BY SessionsAssumption DEF NoJob, Jobs, Steps, Purposes

(* The others stay where they are.                                          *)
Moves(c) ==
  /\ job' \in [Requests -> Jobs]
  /\ \A d \in Requests \ {c} : job'[d] = job[d]

LEMMA BeginFacts ==
  ASSUME SessionsTypeOK, NEW c \in Requests, NEW j \in Jobs, job' = [job EXCEPT ![c] = j]
  PROVE  Moves(c) /\ job'[c] = j
BY DEF SessionsTypeOK, Moves

LEMMA FinishFacts ==
  ASSUME SessionsTypeOK, NEW c \in Requests, Finish(c)
  PROVE  Moves(c) /\ job'[c].at = "idle"
BY NoJobTyped DEF SessionsTypeOK, Moves, Finish

LEMMA GoToFacts ==
  ASSUME SessionsTypeOK, NEW c \in Requests, NEW step \in Steps, GoTo(c, step)
  PROVE  /\ Moves(c) /\ job'[c].at = step
         /\ job'[c].user = job[c].user /\ job'[c].google = job[c].google
<1>1. job[c] \in Jobs /\ job \in [Requests -> Jobs]
  BY DEF SessionsTypeOK
<1>2. PICK j : j = [job[c] EXCEPT !.at = step]
  OBVIOUS
<1>3. j \in Jobs
  BY <1>1, <1>2 DEF Jobs
<1>4. j.at = step /\ j.user = job[c].user /\ j.google = job[c].google
  BY <1>1, <1>2 DEF Jobs
<1>5. job' = [job EXCEPT ![c] = j]
  BY <1>2 DEF GoTo
<1> QED
  BY <1>3, <1>4, <1>5, BeginFacts

(* A request with nothing to remember.                                      *)
LEMMA IdleFacts ==
  ASSUME NEW c \in Requests, job[c].at = "idle" PROVE JobFacts(c)
BY DEF JobFacts

LEMMA IdleFactsNext ==
  ASSUME NEW c \in Requests, job'[c].at = "idle" PROVE JobFacts(c)'
BY DEF JobFacts

LEMMA IssueForFacts ==
  ASSUME NEW u \in Users, NEW p \in Purposes, NEW j, j = IssueFor(u, p)
  PROVE  j \in Jobs /\ j.at = "retire" /\ j.user = u
<1>1. j \in Jobs
  BY NoJobTyped DEF IssueFor, Jobs, Steps
<1>2. j.at = "retire" /\ j.user = u
  BY DEF IssueFor, NoJob
<1> QED
  BY <1>1, <1>2

-----------------------------------------------------------------------------
(* WHAT OTHERS KEEP *)

LinksKept ==
  /\ mailed \subseteq mailed'
  /\ \A l \in Issued :
       /\ l \in Issued'
       /\ link'[l].owner = link[l].owner
       /\ link'[l].purpose = link[l].purpose
       /\ link[l].used => link'[l].used

TokensKept ==
  \A t \in Minted :
    /\ t \in Minted'
    /\ token'[t].owner = token[t].owner
    /\ token'[t].family = token[t].family

(* A family in the middle of a rotation is not counted as swept.            *)
RotationsOpen ==
  \A d \in Requests : job[d].at = "rotate" /\ job'[d] = job[d] =>
    token[job[d].token].family \notin settled'

LEMMA FactsKept ==
  ASSUME SessionsInv, LinksKept, TokensKept, RotationsOpen, proven \subseteq proven',
         NEW d \in Requests, job'[d] = job[d]
  PROVE  JobFacts(d)'
<1>1. JobFacts(d) /\ mailed \subseteq Issued
  BY DEF SessionsInv, LinkTable
<1>2. job[d].at = "issue" => job[d].seen \subseteq Issued'
  BY <1>1 DEF JobFacts, LinksKept
<1>3. job[d].at = "spend" =>
        /\ job[d].link \in mailed' /\ link'[job[d].link].owner = job[d].user
        /\ job[d].pw # Null => link'[job[d].link].purpose = "PASSWORD_RESET"
  BY <1>1 DEF JobFacts, LinksKept
<1>4. job[d].at = "password" => ResetLinkSpent(job[d].user)'
  BY <1>1 DEF JobFacts, LinksKept, ResetLinkSpent
<1>5. job[d].at \in {"rotate", "sweep"} => job[d].token \in Minted'
  BY <1>1 DEF JobFacts, TokensKept
<1>6. job[d].at = "rotate" => token'[job[d].token].family \notin settled'
  BY <1>1 DEF JobFacts, TokensKept, RotationsOpen
<1>7. job[d].at = "mail" => job[d].link \in Issued'
  BY <1>1 DEF JobFacts, LinksKept
<1>8. /\ job[d].at \notin {"idle", "rotate", "sweep"} => job[d].user \in Users
      /\ job[d].at \in {"verify", "password", "confirm", "revoke", "mint"}
           => job[d].user \in proven'
  BY <1>1 DEF JobFacts
<1> QED
  BY <1>2, <1>3, <1>4, <1>5, <1>6, <1>7, <1>8 DEF JobFacts, ResetLinkSpent

(* One request moves, the tables keep what the others rely on.              *)
LEMMA OneMoves ==
  ASSUME SessionsInv, NEW c \in Requests, Moves(c),
         acct' \in [Users -> Rows], token' \in [TokenIds -> RefreshTokens],
         link' \in [LinkIds -> VerificationTokens],
         proven' \subseteq Users, crossed' \subseteq Users \X Purposes,
         LinkTable', TokenTable', AcctTable',
         LinksKept, TokensKept, RotationsOpen, proven \subseteq proven', JobFacts(c)'
  PROVE  SessionsInv'
<1>1. SessionsTypeOK'
  <2>1. Issued' \subseteq LinkIds /\ Minted' \subseteq TokenIds
    BY DEF Issued, Minted
  <2> QED
    BY <2>1 DEF SessionsTypeOK, Moves, LinkTable, TokenTable
<1>2. \A d \in Requests : JobFacts(d)'
  BY FactsKept DEF Moves
<1> QED
  BY <1>1, <1>2 DEF SessionsInv

LEMMA LinksUntouched ==
  ASSUME SessionsInv, UNCHANGED <<link, mailed>>
  PROVE  LinkTable' /\ LinksKept /\ link' \in [LinkIds -> VerificationTokens]
BY DEF SessionsInv, SessionsTypeOK, LinkTable, LinksKept, Issued

LEMMA TokensUntouched ==
  ASSUME SessionsInv, UNCHANGED <<token, settled>>, proven \subseteq proven'
  PROVE  /\ TokenTable' /\ TokensKept /\ RotationsOpen
         /\ token' \in [TokenIds -> RefreshTokens]
<1>1. Minted' = Minted /\ TokenTable
  BY DEF Minted, SessionsInv
<1>2. Lineage'
  BY <1>1 DEF TokenTable, Lineage
<1>3. SweptStaysDead' /\ SessionMeansProven'
  BY <1>1 DEF TokenTable, SweptStaysDead, SessionMeansProven, Usable, Dead
<1>4. RotationsOpen
  BY DEF RotationsOpen, SessionsInv, JobFacts
<1> QED
  BY <1>1, <1>2, <1>3, <1>4 DEF TokenTable, TokensKept, SessionsInv, SessionsTypeOK

-----------------------------------------------------------------------------
(* STEPS THAT WRITE NO ROW *)

LEMMA OnlyMoves ==
  ASSUME SessionsInv, NEW c \in Requests, Moves(c), KeepTables, KeepHistory, JobFacts(c)'
  PROVE  SessionsInv'
<1>1. UNCHANGED <<acct, token, link, mailed, proven, settled, crossed>>
  BY DEF KeepTables, KeepHistory
<1>2. /\ acct' \in [Users -> Rows] /\ AcctTable'
      /\ proven' \subseteq Users /\ crossed' \subseteq Users \X Purposes
  BY <1>1 DEF SessionsInv, SessionsTypeOK, AcctTable
<1> QED
  BY <1>1, <1>2, LinksUntouched, TokensUntouched, OneMoves

(* The request starts with j.                                               *)
LEMMA Begins ==
  ASSUME SessionsInv, NEW c \in Requests, NEW j \in Jobs, Begin(c, j),
         KeepTables, KeepHistory, j.at \in {"retire", "create", "byEmail"}, j.user \in Users
  PROVE  SessionsInv'
<1>1. Moves(c) /\ job'[c] = j
  BY BeginFacts DEF SessionsInv, Begin
<1>2. JobFacts(c)'
  BY <1>1 DEF JobFacts
<1> QED
  BY <1>1, <1>2, OnlyMoves

LEMMA BeginsMint ==
  ASSUME SessionsInv, NEW c \in Requests, NEW u \in Users, NEW j,
         j = [NoJob EXCEPT !.at = "mint", !.user = u], u \in proven,
         Begin(c, j), KeepTables, KeepHistory
  PROVE  SessionsInv'
<1>1. j \in Jobs
  BY NoJobTyped DEF Jobs, Steps
<1>2. j.at = "mint" /\ j.user = u
  BY DEF NoJob
<1>3. Moves(c) /\ job'[c] = j
  BY <1>1, BeginFacts DEF SessionsInv, Begin
<1>4. JobFacts(c)'
  BY <1>2, <1>3, SessionsAssumption DEF JobFacts, KeepHistory
<1> QED
  BY <1>3, <1>4, OnlyMoves

LEMMA BeginsIssue ==
  ASSUME SessionsInv, NEW c \in Requests, NEW u \in Users, NEW p \in Purposes,
         Begin(c, IssueFor(u, p)), KeepTables, KeepHistory
  PROVE  SessionsInv'
<1>1. PICK j : j = IssueFor(u, p)
  OBVIOUS
<1>2. j \in Jobs /\ j.at = "retire" /\ j.user = u
  BY <1>1, IssueForFacts
<1> QED
  BY <1>1, <1>2, Begins

LEMMA RegisterStep ==
  ASSUME SessionsInv, NEW c \in Requests, Register(c) PROVE SessionsInv'
<1>1. PICK u \in Users, pw \in Passwords :
        /\ Begin(c, IF acct[u].row THEN IssueFor(u, "EMAIL_VERIFICATION")
                    ELSE [NoJob EXCEPT !.at = "create", !.user = u, !.pw = pw])
        /\ KeepTables /\ KeepHistory
  BY DEF Register
<1>2. CASE acct[u].row
  BY <1>1, <1>2, BeginsIssue DEF Purposes
<1>3. CASE ~acct[u].row
  <2>1. PICK j : j = [NoJob EXCEPT !.at = "create", !.user = u, !.pw = pw]
    OBVIOUS
  <2>2. j \in Jobs
    BY <2>1, NoJobTyped DEF Jobs, Steps
  <2>3. j.at = "create" /\ j.user = u
    BY <2>1 DEF NoJob
  <2> QED
    BY <1>1, <1>3, <2>1, <2>2, <2>3, Begins
<1> QED
  BY <1>2, <1>3

LEMMA AskStep ==
  ASSUME SessionsInv, NEW c \in Requests, ResendVerification(c) \/ ForgotPassword(c)
  PROVE  SessionsInv'
BY BeginsIssue DEF ResendVerification, ForgotPassword, Purposes

LEMMA PresentStep ==
  ASSUME SessionsInv, NEW c \in Requests, NEW l \in LinkIds, NEW p \in Purposes,
         NEW pw \in Passwords \cup {Null}, Present(c, l, p, pw),
         pw # Null => p = "PASSWORD_RESET"
  PROVE  SessionsInv'
<1>1. l \in mailed /\ link[l].owner # Null /\ link[l].purpose = p
  BY DEF Present, Accepts, Live
<1>2. link[l].owner \in Users
  BY <1>1 DEF SessionsInv, SessionsTypeOK, VerificationTokens
<1>3. PICK j : j = [NoJob EXCEPT !.at = "spend", !.user = link[l].owner,
                                 !.purpose = p, !.link = l, !.pw = pw]
  OBVIOUS
<1>4. j \in Jobs
  <2>1. l \in 0..MaxLinks
    BY SessionsAssumption DEF LinkIds
  <2> QED
    BY <1>2, <1>3, <2>1, NoJobTyped DEF Jobs, Steps
<1>5. j.at = "spend" /\ j.user = link[l].owner /\ j.link = l /\ j.pw = pw
  BY <1>3 DEF NoJob
<1>6. Moves(c) /\ job'[c] = j /\ KeepTables /\ KeepHistory
  BY <1>3, <1>4, BeginFacts DEF SessionsInv, Begin, Present
<1>7. JobFacts(c)'
  BY <1>1, <1>2, <1>5, <1>6 DEF JobFacts, KeepTables
<1> QED
  BY <1>6, <1>7, OnlyMoves

LEMMA UseLinkStep ==
  ASSUME SessionsInv, NEW c \in Requests, VerifyEmail(c) \/ ResetPassword(c)
  PROVE  SessionsInv'
BY PresentStep, SessionsAssumption DEF VerifyEmail, ResetPassword, Purposes

LEMMA LoginStep ==
  ASSUME SessionsInv, NEW c \in Requests, Login(c) PROVE SessionsInv'
<1>1. PICK u \in Users :
        /\ acct[u].verified
        /\ Begin(c, [NoJob EXCEPT !.at = "mint", !.user = u])
        /\ KeepTables /\ KeepHistory
  BY DEF Login
<1>2. u \in proven
  BY <1>1 DEF SessionsInv, AcctTable
<1> QED
  BY <1>1, <1>2, BeginsMint

LEMMA LoginWithGoogleStep ==
  ASSUME SessionsInv, NEW c \in Requests, LoginWithGoogle(c) PROVE SessionsInv'
<1>1. PICK g \in GoogleIds, u \in Users :
        /\ \/ \E v \in Owners(g) : Begin(c, [NoJob EXCEPT !.at = "mint", !.user = v])
           \/ Begin(c, [NoJob EXCEPT !.at = "byEmail", !.user = u, !.google = g])
        /\ KeepTables /\ KeepHistory
  BY DEF LoginWithGoogle
<1>2. CASE \E v \in Owners(g) : Begin(c, [NoJob EXCEPT !.at = "mint", !.user = v])
  <2>1. PICK v \in Owners(g) : Begin(c, [NoJob EXCEPT !.at = "mint", !.user = v])
    BY <1>2
  <2>2. v \in Users /\ acct[v].google = g /\ g # Null
    BY SessionsAssumption DEF Owners
  <2>3. v \in proven
    BY <2>2 DEF SessionsInv, AcctTable
  <2> QED
    BY <1>1, <2>1, <2>2, <2>3, BeginsMint
<1>3. CASE Begin(c, [NoJob EXCEPT !.at = "byEmail", !.user = u, !.google = g])
  <2>1. PICK j : j = [NoJob EXCEPT !.at = "byEmail", !.user = u, !.google = g]
    OBVIOUS
  <2>2. j \in Jobs
    BY <2>1, NoJobTyped DEF Jobs, Steps
  <2>3. j.at = "byEmail" /\ j.user = u
    BY <2>1 DEF NoJob
  <2> QED
    BY <1>1, <1>3, <2>1, <2>2, <2>3, Begins
<1> QED
  BY <1>1, <1>2, <1>3

LEMMA GoogleByEmailStep ==
  ASSUME SessionsInv, NEW c \in Requests, GoogleByEmail(c) PROVE SessionsInv'
<1>1. PICK step \in {"attach", "enrol"} : GoTo(c, step)
  BY DEF GoogleByEmail
<1>2. Moves(c) /\ job'[c].at = step /\ job'[c].user = job[c].user
  BY <1>1, GoToFacts DEF SessionsInv, Steps
<1>3. job[c].user \in Users
  BY DEF GoogleByEmail, SessionsInv, JobFacts
<1>4. JobFacts(c)'
  BY <1>2, <1>3 DEF JobFacts
<1> QED
  BY <1>2, <1>4, OnlyMoves DEF GoogleByEmail

LEMMA RotateStep ==
  ASSUME SessionsInv, NEW c \in Requests, Rotate(c) PROVE SessionsInv'
<1>1. PICK t \in Minted :
        /\ token[t].used \/ ~Dead(t)
        /\ Begin(c, [NoJob EXCEPT !.at = IF token[t].used THEN "sweep" ELSE "rotate",
                                  !.token = t])
        /\ KeepTables /\ KeepHistory
  BY DEF Rotate
<1>2. PICK step \in {"sweep", "rotate"} :
        step = (IF token[t].used THEN "sweep" ELSE "rotate")
  OBVIOUS
<1>3. PICK j : j = [NoJob EXCEPT !.at = step, !.token = t]
  OBVIOUS
<1>4. t \in 0..MaxTokens
  BY SessionsAssumption DEF Minted, TokenIds
<1>5. j \in Jobs
  BY <1>3, <1>4, NoJobTyped DEF Jobs, Steps
<1>6. j.at = step /\ j.token = t
  BY <1>3 DEF NoJob
<1>7. Moves(c) /\ job'[c] = j
  BY <1>1, <1>2, <1>3, <1>5, BeginFacts DEF SessionsInv, Begin
<1>8. step = "rotate" => token[t].family \notin settled
  <2>1. step = "rotate" => Usable(t)
    BY <1>1, <1>2 DEF Usable, Minted
  <2> QED
    BY <2>1 DEF SessionsInv, TokenTable, SweptStaysDead
<1>9. Minted' = Minted
  BY <1>1 DEF KeepTables, Minted
<1>10. JobFacts(c)'
  BY <1>1, <1>6, <1>7, <1>8, <1>9 DEF JobFacts, KeepTables, KeepHistory
<1> QED
  BY <1>1, <1>7, <1>10, OnlyMoves

LEMMA StopStep ==
  ASSUME SessionsInv, NEW c \in Requests, Stop(c) PROVE SessionsInv'
<1>1. Moves(c) /\ job'[c].at = "idle"
  BY FinishFacts DEF SessionsInv, Stop
<1> QED
  BY <1>1, IdleFactsNext, OnlyMoves DEF Stop

-----------------------------------------------------------------------------
(* STEPS THAT WRITE users                                                   *)

LEMMA AccountStep ==
  ASSUME SessionsInv, NEW c \in Requests, Moves(c), JobFacts(c)',
         acct' \in [Users -> Rows], AcctTable', proven' \subseteq Users,
         proven \subseteq proven', UNCHANGED <<token, link, mailed, settled, crossed>>
  PROVE  SessionsInv'
<1>1. crossed' \subseteq Users \X Purposes
  BY DEF SessionsInv, SessionsTypeOK
<1> QED
  BY <1>1, LinksUntouched, TokensUntouched, OneMoves

LEMMA CreateRowStep ==
  ASSUME SessionsInv, NEW c \in Requests, CreateRow(c) PROVE SessionsInv'
<1>1. PICK u \in Users : u = job[c].user
  BY DEF CreateRow, SessionsInv, JobFacts
<1>2. CASE acct[u].row
  <2>1. KeepTables /\ KeepHistory /\ Finish(c)
    BY <1>1, <1>2 DEF CreateRow, KeepTables
  <2> QED
    BY <2>1, FinishFacts, IdleFactsNext, OnlyMoves DEF SessionsInv
<1>3. CASE ~acct[u].row
  <2>1. /\ acct' = [acct EXCEPT ![u] =
              [row |-> TRUE, pw |-> job[c].pw, verified |-> FALSE, google |-> Null]]
        /\ job' = [job EXCEPT ![c] = IssueFor(u, "EMAIL_VERIFICATION")]
        /\ UNCHANGED <<token, link, mailed>> /\ KeepHistory
    BY <1>1, <1>3 DEF CreateRow
  <2>2. acct' \in [Users -> Rows] /\ AcctTable'
    <3>1. job[c].pw \in Passwords \cup {Null}
      BY DEF SessionsInv, SessionsTypeOK, Jobs
    <3>2. acct' \in [Users -> Rows]
      BY <2>1, <3>1 DEF SessionsInv, SessionsTypeOK, Rows
    <3>3. AcctTable'
      BY <2>1 DEF SessionsInv, SessionsTypeOK, AcctTable, KeepHistory
    <3> QED
      BY <3>2, <3>3
  <2>3. PICK j : j = IssueFor(u, "EMAIL_VERIFICATION")
    OBVIOUS
  <2>4. j \in Jobs /\ j.at = "retire" /\ j.user = u
    BY <2>3, IssueForFacts DEF Purposes
  <2>5. Moves(c) /\ job'[c] = j
    BY <2>1, <2>3, <2>4, BeginFacts DEF SessionsInv
  <2>6. JobFacts(c)'
    BY <2>4, <2>5 DEF JobFacts
  <2> QED
    BY <2>1, <2>2, <2>5, <2>6, AccountStep DEF KeepHistory, SessionsInv, SessionsTypeOK
<1> QED
  BY <1>2, <1>3

LEMMA MarkVerifiedStep ==
  ASSUME SessionsInv, NEW c \in Requests, MarkVerified(c) PROVE SessionsInv'
<1>1. /\ job[c].at \in {"verify", "confirm"} /\ job[c].user \in Users /\ job[c].user \in proven
      /\ acct' = [acct EXCEPT ![job[c].user].verified = TRUE]
      /\ UNCHANGED <<token, link, mailed>> /\ KeepHistory
  BY DEF MarkVerified, SessionsInv, JobFacts
<1>2. acct' \in [Users -> Rows]
  <2>1. acct \in [Users -> Rows] /\ acct[job[c].user] \in Rows
    BY <1>1 DEF SessionsInv, SessionsTypeOK
  <2>2. PICK a : a = [acct[job[c].user] EXCEPT !.verified = TRUE]
    OBVIOUS
  <2>3. a \in Rows
    BY <2>1, <2>2 DEF Rows
  <2>4. acct' = [acct EXCEPT ![job[c].user] = a]
    BY <1>1, <2>2
  <2> QED
    BY <1>1, <2>1, <2>3, <2>4
<1>3. AcctTable'
  BY <1>1 DEF SessionsInv, SessionsTypeOK, Rows, AcctTable, KeepHistory
<1>4. Moves(c) /\ JobFacts(c)'
  <2>1. CASE Finish(c)
    BY <2>1, FinishFacts, IdleFactsNext DEF SessionsInv
  <2>2. CASE GoTo(c, "revoke")
    <3>1. Moves(c) /\ job'[c].at = "revoke" /\ job'[c].user = job[c].user
      BY <2>2, GoToFacts DEF SessionsInv, Steps
    <3>2. JobFacts(c)'
      BY <1>1, <3>1 DEF JobFacts, KeepHistory
    <3> QED
      BY <3>1, <3>2
  <2> QED
    BY <2>1, <2>2 DEF MarkVerified
<1> QED
  BY <1>1, <1>2, <1>3, <1>4, AccountStep DEF KeepHistory, SessionsInv, SessionsTypeOK

LEMMA SetPasswordStep ==
  ASSUME SessionsInv, NEW c \in Requests, SetPassword(c) PROVE SessionsInv'
<1>1. /\ job[c].at = "password" /\ job[c].user \in Users /\ job[c].user \in proven
      /\ acct' = [acct EXCEPT ![job[c].user].pw = job[c].pw]
      /\ job' = [job EXCEPT ![c].at = "confirm", ![c].pw = Null]
      /\ UNCHANGED <<token, link, mailed>> /\ KeepHistory
  BY DEF SetPassword, SessionsInv, JobFacts
<1>2. job[c] \in Jobs /\ job \in [Requests -> Jobs]
  BY DEF SessionsInv, SessionsTypeOK
<1>3. job[c].pw \in Passwords \cup {Null}
  BY <1>2 DEF Jobs
<1>4. acct' \in [Users -> Rows]
  BY <1>1, <1>3 DEF SessionsInv, SessionsTypeOK, Rows
<1>5. AcctTable'
  BY <1>1 DEF SessionsInv, SessionsTypeOK, Rows, AcctTable, KeepHistory
<1>6. PICK j : j = [job[c] EXCEPT !.at = "confirm", !.pw = Null]
  OBVIOUS
<1>7. j \in Jobs
  BY <1>2, <1>6 DEF Jobs, Steps
<1>8. j.at = "confirm" /\ j.user = job[c].user
  BY <1>2, <1>6 DEF Jobs
<1>9. Moves(c) /\ job'[c] = j
  BY <1>1, <1>2, <1>6, <1>7 DEF Moves
<1>10. JobFacts(c)'
  BY <1>1, <1>8, <1>9 DEF JobFacts, KeepHistory
<1> QED
  BY <1>1, <1>4, <1>5, <1>9, <1>10, AccountStep DEF KeepHistory, SessionsInv, SessionsTypeOK

LEMMA GoogleWriteStep ==
  ASSUME SessionsInv, NEW c \in Requests, GoogleWrite(c) PROVE SessionsInv'
<1>1. PICK u \in Users, g \in GoogleIds \cup {Null} : u = job[c].user /\ g = job[c].google
  BY DEF GoogleWrite, SessionsInv, JobFacts, SessionsTypeOK, Jobs
<1>2. CASE UNCHANGED <<acct, proven>> /\ Finish(c)
  BY <1>2, FinishFacts, IdleFactsNext, OnlyMoves
     DEF SessionsInv, GoogleWrite, KeepTables, KeepHistory
<1>3. CASE /\ acct' = [acct EXCEPT ![u] =
                [row |-> TRUE, pw |-> acct[u].pw, verified |-> TRUE, google |-> g]]
           /\ proven' = proven \cup {u}
           /\ job' = [job EXCEPT ![c] = [NoJob EXCEPT !.at = "mint", !.user = u]]
  <2>1. acct' \in [Users -> Rows]
    BY <1>3 DEF SessionsInv, SessionsTypeOK, Rows
  <2>2. AcctTable'
    BY <1>3 DEF SessionsInv, SessionsTypeOK, AcctTable
  <2>3. PICK j : j = [NoJob EXCEPT !.at = "mint", !.user = u]
    OBVIOUS
  <2>4. j \in Jobs
    BY <2>3, NoJobTyped DEF Jobs, Steps
  <2>5. j.at = "mint" /\ j.user = u
    BY <2>3 DEF NoJob
  <2>6. Moves(c) /\ job'[c] = j
    BY <1>3, <2>3, <2>4, BeginFacts DEF SessionsInv
  <2>7. JobFacts(c)'
    BY <1>3, <2>5, <2>6 DEF JobFacts
  <2>8. proven' \subseteq Users
    BY <1>3 DEF SessionsInv, SessionsTypeOK
  <2> QED
    BY <1>3, <2>1, <2>2, <2>6, <2>7, <2>8, AccountStep DEF GoogleWrite
<1> QED
  BY <1>1, <1>2, <1>3 DEF GoogleWrite

-----------------------------------------------------------------------------
(* STEPS THAT WRITE verification_tokens                                     *)

LEMMA LinkStep ==
  ASSUME SessionsInv, NEW c \in Requests, Moves(c), JobFacts(c)',
         link' \in [LinkIds -> VerificationTokens], LinkTable', LinksKept,
         proven' \subseteq Users, crossed' \subseteq Users \X Purposes,
         proven \subseteq proven', UNCHANGED <<acct, token, settled>>
  PROVE  SessionsInv'
<1>1. acct' \in [Users -> Rows] /\ AcctTable'
  BY DEF SessionsInv, SessionsTypeOK, AcctTable
<1> QED
  BY <1>1, TokensUntouched, OneMoves

LEMMA IssueRetireStep ==
  ASSUME SessionsInv, NEW c \in Requests, IssueRetire(c) PROVE SessionsInv'
<1>1. /\ job[c].at = "retire" /\ job[c].user \in Users
      /\ job[c] \in Jobs /\ job \in [Requests -> Jobs]
  BY DEF IssueRetire, SessionsInv, JobFacts, SessionsTypeOK
<1>2. PICK S : S = Unspent(job[c].user, job[c].purpose)
  OBVIOUS
<1>3. S \in SUBSET LinkIds /\ S \subseteq Issued
  BY <1>2 DEF Unspent, Issued
<1>4. job' = [job EXCEPT ![c].at = "issue", ![c].seen = S]
  BY <1>2 DEF IssueRetire
<1>5. PICK j : j = [job[c] EXCEPT !.at = "issue", !.seen = S]
  OBVIOUS
<1>6. j \in Jobs
  BY <1>1, <1>3, <1>5 DEF Jobs, Steps
<1>7. j.at = "issue" /\ j.user = job[c].user /\ j.seen = S
  BY <1>1, <1>5 DEF Jobs
<1>8. Moves(c) /\ job'[c] = j
  BY <1>1, <1>4, <1>5, <1>6 DEF Moves
<1>9. UNCHANGED <<acct, token, link, mailed, proven, settled>>
  BY DEF IssueRetire, KeepTables
<1>10. crossed' \subseteq Users \X Purposes
  <2>1. job[c].purpose \in Purposes /\ crossed \subseteq Users \X Purposes
    BY <1>1 DEF Jobs, SessionsInv, SessionsTypeOK
  <2> QED
    BY <1>1, <2>1 DEF IssueRetire
<1>11. JobFacts(c)'
  BY <1>1, <1>3, <1>7, <1>8, <1>9 DEF JobFacts, Issued
<1> QED
  BY <1>8, <1>9, <1>10, <1>11, LinksUntouched, LinkStep DEF SessionsInv, SessionsTypeOK

(* The link an issue creates, and those it retires.                         *)
LEMMA IssueCommitFacts ==
  ASSUME SessionsInv, NEW c \in Requests, IssueCommit(c)
  PROVE  /\ job[c].at = "issue" /\ job[c].user \in Users /\ job[c].purpose \in Purposes
         /\ NextLink \in LinkIds /\ NextLink \notin Issued /\ NextLink \notin job[c].seen
         /\ link' \in [LinkIds -> VerificationTokens]
         /\ link'[NextLink].owner = job[c].user /\ link'[NextLink].purpose = job[c].purpose
         /\ \A l \in LinkIds \ {NextLink} :
              /\ link'[l].owner = link[l].owner
              /\ link'[l].purpose = link[l].purpose
              /\ link[l].used => link'[l].used
              /\ link'[l].expired = link[l].expired
              /\ l \in job[c].seen => link'[l].used
         /\ Issued' = Issued \cup {NextLink}
         /\ Moves(c) /\ job'[c].at = "mail" /\ job'[c].link = NextLink
         /\ job'[c].user = job[c].user
         /\ UNCHANGED <<acct, token, mailed, proven, settled, crossed>>
<1>1. /\ job[c].at = "issue" /\ job[c].user \in Users /\ NextLink \in LinkIds
      /\ job[c] \in Jobs /\ job \in [Requests -> Jobs] /\ job[c].seen \subseteq Issued
      /\ UNCHANGED <<acct, token, mailed, proven, settled, crossed>>
  BY DEF IssueCommit, SessionsInv, JobFacts, SessionsTypeOK, KeepHistory
<1>2. NextLink \notin Issued /\ job[c].purpose \in Purposes
  BY <1>1, NextLinkIsNew DEF SessionsInv, Jobs
<1>3. PICK n : n = NextLink
  OBVIOUS
<1>4. PICK new : new = [NoLink EXCEPT !.owner = job[c].user, !.purpose = job[c].purpose]
  OBVIOUS
<1>5. /\ new \in VerificationTokens
      /\ new.owner = job[c].user /\ new.purpose = job[c].purpose
  <2>1. NoLink \in VerificationTokens
    BY DEF NoLink, VerificationTokens, Purposes
  <2>2. new \in VerificationTokens
    BY <1>1, <1>2, <1>4, <2>1 DEF VerificationTokens
  <2>3. new.owner = job[c].user /\ new.purpose = job[c].purpose
    BY <1>4 DEF NoLink
  <2> QED
    BY <2>2, <2>3
<1>6. link' = [l \in LinkIds |-> IF l \in job[c].seen THEN [link[l] EXCEPT !.used = TRUE]
                                 ELSE IF l = n THEN new ELSE link[l]]
  BY <1>3, <1>4 DEF IssueCommit
<1>7. ASSUME NEW r \in VerificationTokens, NEW q, q = [r EXCEPT !.used = TRUE]
      PROVE  /\ q \in VerificationTokens
             /\ q.owner = r.owner /\ q.purpose = r.purpose /\ q.used /\ q.expired = r.expired
  BY <1>7 DEF VerificationTokens
<1>8. link \in [LinkIds -> VerificationTokens]
  BY DEF SessionsInv, SessionsTypeOK
<1>9. ASSUME NEW l \in LinkIds \ {n}
      PROVE  /\ link'[l] \in VerificationTokens
             /\ link'[l].owner = link[l].owner
             /\ link'[l].purpose = link[l].purpose
             /\ link[l].used => link'[l].used
             /\ link'[l].expired = link[l].expired
             /\ l \in job[c].seen => link'[l].used
  <2>1. CASE l \in job[c].seen
    BY <1>6, <1>7, <1>8, <2>1
  <2>2. CASE l \notin job[c].seen
    BY <1>6, <1>8, <2>2
  <2> QED
    BY <2>1, <2>2
<1>10. n \notin job[c].seen /\ n \in LinkIds
  BY <1>1, <1>2, <1>3
<1>11. link'[n] = new /\ link' \in [LinkIds -> VerificationTokens]
  BY <1>5, <1>6, <1>9, <1>10
<1>12. Issued' = Issued \cup {n}
  <2>1. job[c].user # Null
    BY <1>1, SessionsAssumption
  <2> QED
    BY <1>5, <1>9, <1>10, <1>11, <2>1 DEF Issued
<1>13. PICK j : j = [job[c] EXCEPT !.at = "mail", !.link = n, !.seen = {}]
  OBVIOUS
<1>14. j \in Jobs
  <2>1. n \in 0..MaxLinks
    BY <1>10, SessionsAssumption DEF LinkIds
  <2> QED
    BY <1>1, <1>13, <2>1 DEF Jobs, Steps
<1>15. j.at = "mail" /\ j.link = n /\ j.user = job[c].user
  BY <1>1, <1>13 DEF Jobs
<1>16. job' = [job EXCEPT ![c].at = "mail", ![c].link = n, ![c].seen = {}]
  BY <1>3 DEF IssueCommit
<1>17. Moves(c) /\ job'[c] = j
  BY <1>1, <1>13, <1>14, <1>16 DEF Moves
<1> QED
  BY <1>1, <1>2, <1>3, <1>5, <1>9, <1>10, <1>11, <1>12, <1>15, <1>17

LEMMA IssueCommitStep ==
  ASSUME SessionsInv, NEW c \in Requests, IssueCommit(c) PROVE SessionsInv'
<1> USE IssueCommitFacts
<1>1. LinkTable'
  <2>1. mailed' \subseteq Issued'
    BY DEF SessionsInv, LinkTable
  <2> QED
    BY <2>1, NextLinkIsNew DEF SessionsInv, LinkTable
<1>2. LinksKept
  BY DEF LinksKept, Issued
<1>3. JobFacts(c)'
  BY DEF JobFacts
<1> QED
  BY <1>1, <1>2, <1>3, LinkStep DEF SessionsInv, SessionsTypeOK

LEMMA MailStep ==
  ASSUME SessionsInv, NEW c \in Requests, Mail(c) PROVE SessionsInv'
<1>1. job[c].link \in Issued
  BY DEF Mail, SessionsInv, JobFacts
<1>2. UNCHANGED <<acct, token, link, proven, settled, crossed>>
  BY DEF Mail, KeepHistory
<1>3. LinkTable' /\ LinksKept
  BY <1>1, <1>2 DEF Mail, SessionsInv, LinkTable, LinksKept, Issued
<1>4. Moves(c) /\ JobFacts(c)'
  BY FinishFacts, IdleFactsNext DEF SessionsInv, Mail
<1> QED
  BY <1>2, <1>3, <1>4, LinkStep DEF SessionsInv, SessionsTypeOK

LEMMA SpendStep ==
  ASSUME SessionsInv, NEW c \in Requests, Spend(c) PROVE SessionsInv'
<1>1. /\ job[c].at = "spend" /\ job[c] \in Jobs /\ job \in [Requests -> Jobs]
      /\ link \in [LinkIds -> VerificationTokens]
      /\ job[c].user \in Users /\ job[c].link \in mailed
      /\ link[job[c].link].owner = job[c].user
      /\ job[c].pw # Null => link[job[c].link].purpose = "PASSWORD_RESET"
      /\ link' = [link EXCEPT ![job[c].link].used = TRUE]
      /\ proven' = proven \cup {job[c].user}
      /\ UNCHANGED <<acct, token, mailed, settled, crossed>>
  BY DEF Spend, SessionsInv, JobFacts, SessionsTypeOK
<1>2. PICK l \in LinkIds : l = job[c].link
  BY <1>1 DEF SessionsInv, SessionsTypeOK
<1>3. /\ link' \in [LinkIds -> VerificationTokens] /\ link'[l].used
      /\ \A k \in LinkIds : /\ link'[k].owner = link[k].owner
                            /\ link'[k].purpose = link[k].purpose
                            /\ link[k].used => link'[k].used
  BY <1>1, <1>2 DEF VerificationTokens
<1>4. Issued' = Issued
  BY <1>3 DEF Issued
<1>5. LinkTable' /\ LinksKept
  BY <1>1, <1>3, <1>4 DEF SessionsInv, LinkTable, LinksKept, Issued
<1>6. PICK step \in {"verify", "password"} :
        step = (IF job[c].pw = Null THEN "verify" ELSE "password")
  OBVIOUS
<1>7. job' = [job EXCEPT ![c].at = step, ![c].link = 0]
  BY <1>6 DEF Spend
<1>8. PICK j : j = [job[c] EXCEPT !.at = step, !.link = 0]
  OBVIOUS
<1>9. j \in Jobs
  <2>1. 0 \in 0..MaxLinks
    BY SessionsAssumption
  <2> QED
    BY <1>1, <1>8, <2>1 DEF Jobs, Steps
<1>10. j.at = step /\ j.user = job[c].user
  BY <1>1, <1>8 DEF Jobs
<1>11. Moves(c) /\ job'[c] = j
  BY <1>1, <1>7, <1>8, <1>9 DEF Moves
<1>12. step = "password" =>
         /\ l \in mailed' /\ link'[l].owner = job[c].user /\ link'[l].used
         /\ link'[l].purpose = "PASSWORD_RESET"
  BY <1>1, <1>2, <1>3, <1>6
<1>13. JobFacts(c)'
  BY <1>1, <1>10, <1>11, <1>12 DEF JobFacts, ResetLinkSpent
<1>14. proven' \subseteq Users
  BY <1>1 DEF SessionsInv, SessionsTypeOK
<1> QED
  BY <1>1, <1>3, <1>5, <1>11, <1>13, <1>14, LinkStep DEF SessionsInv, SessionsTypeOK

LEMMA ExpireLinkStep ==
  ASSUME SessionsInv, ExpireLink PROVE SessionsInv'
<1>1. PICK l \in Issued : link' = [link EXCEPT ![l].expired = TRUE]
  BY DEF ExpireLink
<1>2. UNCHANGED <<acct, token, mailed, job, proven, settled, crossed>>
  BY DEF ExpireLink, KeepHistory
<1>3. /\ link' \in [LinkIds -> VerificationTokens]
      /\ \A k \in LinkIds : /\ link'[k].owner = link[k].owner
                            /\ link'[k].purpose = link[k].purpose
                            /\ link[k].used => link'[k].used
  BY <1>1 DEF Issued, SessionsInv, SessionsTypeOK, VerificationTokens
<1>4. Issued' = Issued
  BY <1>3 DEF Issued
<1>5. LinkTable' /\ LinksKept
  BY <1>2, <1>3, <1>4 DEF SessionsInv, LinkTable, LinksKept, Issued
<1>6. TokenTable' /\ TokensKept /\ RotationsOpen
  BY <1>2, TokensUntouched
<1>7. AcctTable' /\ SessionsTypeOK'
  BY <1>2, <1>3 DEF SessionsInv, SessionsTypeOK, AcctTable
<1>8. \A d \in Requests : JobFacts(d)'
  BY <1>2, <1>5, <1>6, FactsKept
<1> QED
  BY <1>5, <1>6, <1>7, <1>8 DEF SessionsInv

-----------------------------------------------------------------------------
(* STEPS THAT WRITE refresh_tokens                                          *)

(* Every step that writes a token but not its family line: what a session   *)
(* is goes on, only what works shrinks.                                     *)
LEMMA TokensAged ==
  ASSUME SessionsInv, token' \in [TokenIds -> RefreshTokens],
         \A t \in TokenIds :
           /\ token'[t].owner = token[t].owner /\ token'[t].family = token[t].family
           /\ token'[t].parent = token[t].parent /\ token'[t].used = token[t].used
           /\ Dead(t) => Dead(t)',
         UNCHANGED <<acct, link, mailed, proven, crossed>>,
         \/ UNCHANGED job
         \/ \E c \in Requests : Moves(c) /\ job'[c].at = "idle",
         \/ UNCHANGED settled
         \/ \E F \in SUBSET Minted :
              /\ settled' = settled \cup Quiet(F)
              /\ \A t \in Minted : token[t].family \in F => Dead(t)'
  PROVE  SessionsInv'
<1>1. Minted' = Minted
  BY DEF Minted
<1>2. settled' \subseteq Minted
  BY DEF SessionsInv, TokenTable, Quiet
<1>3. Lineage'
  <2>1. \A t \in Minted : t \in TokenIds
    BY DEF Minted
  <2>2. Lineage
    BY DEF SessionsInv, TokenTable
  <2> SUFFICES ASSUME NEW t \in Minted
               PROVE  /\ token'[t].family \in Minted
                      /\ token'[t].parent # 0 =>
                           /\ token'[t].parent \in Minted
                           /\ token'[token'[t].parent].used
                           /\ token'[token'[t].parent].family = token'[t].family
                      /\ token'[t].used => \E s \in Minted : token'[s].parent = t
    BY <1>1 DEF Lineage
  <2> QED
    BY <2>1, <2>2 DEF Lineage
<1>4. SweptStaysDead'
  <2> SUFFICES ASSUME NEW t \in Minted, token[t].family \in settled' PROVE ~Usable(t)'
    BY <1>1 DEF SweptStaysDead, Minted
  <2>1. Usable(t)' => Usable(t)
    BY DEF Usable, Minted
  <2>2. CASE token[t].family \in settled
    BY <2>1, <2>2 DEF SessionsInv, TokenTable, SweptStaysDead
  <2>3. CASE token[t].family \notin settled
    BY <2>3 DEF Quiet, Usable
  <2> QED
    BY <2>2, <2>3
<1>5. SessionMeansProven'
  BY <1>1 DEF SessionsInv, TokenTable, SessionMeansProven, Minted
<1>6. TokenTable' /\ TokensKept
  BY <1>1, <1>2, <1>3, <1>4, <1>5 DEF SessionsInv, TokenTable, TokensKept, Minted
<1>7. RotationsOpen
  BY DEF RotationsOpen, Quiet, SessionsInv, JobFacts
<1>8. LinkTable' /\ LinksKept /\ link' \in [LinkIds -> VerificationTokens]
  BY LinksUntouched
<1>9. /\ acct' \in [Users -> Rows] /\ AcctTable'
      /\ proven' \subseteq Users /\ crossed' \subseteq Users \X Purposes
  BY DEF SessionsInv, SessionsTypeOK, AcctTable
<1>10. CASE UNCHANGED job
  <2>1. \A d \in Requests : JobFacts(d)'
    BY <1>6, <1>7, <1>8, <1>10, FactsKept
  <2>2. SessionsTypeOK'
    BY <1>2, <1>8, <1>9, <1>10 DEF SessionsInv, SessionsTypeOK, Minted
  <2> QED
    BY <1>6, <1>8, <1>9, <2>1, <2>2 DEF SessionsInv
<1>11. CASE \E c \in Requests : Moves(c) /\ job'[c].at = "idle"
  BY <1>6, <1>7, <1>8, <1>9, <1>11, IdleFactsNext, OneMoves
<1> QED
  BY <1>10, <1>11

(* What revokeFamily and revokeAllForUser write.                            *)
LEMMA RevokeFacts ==
  ASSUME SessionsTypeOK, NEW F, Revoke(F)
  PROVE  /\ token' \in [TokenIds -> RefreshTokens]
         /\ \A t \in TokenIds :
              /\ token'[t].owner = token[t].owner /\ token'[t].family = token[t].family
              /\ token'[t].parent = token[t].parent /\ token'[t].used = token[t].used
              /\ token'[t].expired = token[t].expired
              /\ Dead(t) => Dead(t)'
              /\ token[t].family \in F => Dead(t)'
         /\ settled' = settled \cup Quiet(F)
<1>1. ASSUME NEW r \in RefreshTokens, NEW q, q = [r EXCEPT !.revoked = TRUE]
      PROVE  /\ q \in RefreshTokens /\ q.owner = r.owner /\ q.family = r.family
             /\ q.parent = r.parent /\ q.used = r.used /\ q.expired = r.expired /\ q.revoked
  BY <1>1 DEF RefreshTokens
<1>2. token \in [TokenIds -> RefreshTokens]
  BY DEF SessionsTypeOK
<1>3. token' = [t \in TokenIds |-> IF token[t].family \in F
                                   THEN [token[t] EXCEPT !.revoked = TRUE] ELSE token[t]]
  BY DEF Revoke
<1>4. ASSUME NEW t \in TokenIds
      PROVE  /\ token'[t] \in RefreshTokens
             /\ token'[t].owner = token[t].owner /\ token'[t].family = token[t].family
             /\ token'[t].parent = token[t].parent /\ token'[t].used = token[t].used
             /\ token'[t].expired = token[t].expired
             /\ token[t].revoked => token'[t].revoked
             /\ token[t].family \in F => token'[t].revoked
  <2>1. CASE token[t].family \in F
    BY <1>1, <1>2, <1>3, <2>1
  <2>2. CASE token[t].family \notin F
    BY <1>2, <1>3, <2>2
  <2> QED
    BY <2>1, <2>2
<1>5. token' \in [TokenIds -> RefreshTokens]
  BY <1>3, <1>4
<1>6. \A t \in TokenIds : (Dead(t) => Dead(t)') /\ (token[t].family \in F => Dead(t)')
  BY <1>4 DEF Dead
<1> QED
  BY <1>4, <1>5, <1>6 DEF Revoke

LEMMA RevokedStep ==
  ASSUME SessionsInv, NEW F \in SUBSET Minted, Revoke(F),
         UNCHANGED <<acct, link, mailed, proven, crossed>>,
         \/ UNCHANGED job
         \/ \E c \in Requests : Moves(c) /\ job'[c].at = "idle"
  PROVE  SessionsInv'
<1>1. SessionsTypeOK /\ Minted \subseteq TokenIds
  BY DEF SessionsInv, Minted
<1>2. \A t \in Minted : token[t].family \in F => Dead(t)'
  BY <1>1, RevokeFacts
<1> QED
  BY <1>1, <1>2, RevokeFacts, TokensAged

LEMMA EndedSessionsStep ==
  ASSUME SessionsInv, NEW c \in Requests, RevokeAllSessions(c) \/ SweepFamily(c)
  PROVE  SessionsInv'
<1>1. Moves(c) /\ job'[c].at = "idle" /\ UNCHANGED <<acct, link, mailed, proven, crossed>>
  BY FinishFacts DEF SessionsInv, RevokeAllSessions, SweepFamily
<1>2. \A t \in Minted : token[t].family \in Minted
  BY DEF SessionsInv, TokenTable, Lineage
<1>3. CASE RevokeAllSessions(c)
  <2>1. PICK F : F = FamiliesOf(job[c].user)
    OBVIOUS
  <2>2. F \in SUBSET Minted /\ Revoke(F)
    BY <1>2, <1>3, <2>1 DEF FamiliesOf, RevokeAllSessions
  <2> QED
    BY <1>1, <2>2, RevokedStep
<1>4. CASE SweepFamily(c)
  <2>1. PICK F : F = {token[job[c].token].family}
    OBVIOUS
  <2>2. job[c].token \in Minted
    BY <1>4 DEF SweepFamily, SessionsInv, JobFacts
  <2>3. F \in SUBSET Minted /\ Revoke(F)
    BY <1>2, <1>4, <2>1, <2>2 DEF SweepFamily
  <2> QED
    BY <1>1, <2>3, RevokedStep
<1> QED
  BY <1>3, <1>4

LEMMA LogoutStep ==
  ASSUME SessionsInv, Logout PROVE SessionsInv'
<1>1. PICK t \in Minted : Revoke({token[t].family})
  BY DEF Logout
<1>2. {token[t].family} \in SUBSET Minted
  BY DEF SessionsInv, TokenTable, Lineage
<1> QED
  BY <1>1, <1>2, RevokedStep DEF Logout

LEMMA ExpireTokenFacts ==
  ASSUME SessionsTypeOK, ExpireToken
  PROVE  /\ token' \in [TokenIds -> RefreshTokens]
         /\ \A t \in TokenIds :
              /\ token'[t].owner = token[t].owner /\ token'[t].family = token[t].family
              /\ token'[t].parent = token[t].parent /\ token'[t].used = token[t].used
              /\ Dead(t) => Dead(t)'
         /\ UNCHANGED <<acct, link, mailed, job, proven, settled, crossed>>
<1>1. PICK s \in Minted : token' = [token EXCEPT ![s].expired = TRUE]
  BY DEF ExpireToken
<1>2. /\ token' \in [TokenIds -> RefreshTokens]
      /\ \A t \in TokenIds :
           /\ token'[t].owner = token[t].owner /\ token'[t].family = token[t].family
           /\ token'[t].parent = token[t].parent /\ token'[t].used = token[t].used
           /\ token'[t].revoked = token[t].revoked
           /\ token[t].expired => token'[t].expired
  BY <1>1 DEF Minted, SessionsTypeOK, RefreshTokens
<1> QED
  BY <1>2 DEF Dead, ExpireToken, KeepHistory

LEMMA ExpireTokenStep ==
  ASSUME SessionsInv, ExpireToken PROVE SessionsInv'
BY ExpireTokenFacts, TokensAged DEF SessionsInv

LEMMA MintedTokenFacts ==
  ASSUME NEW u \in Users, NEW f \in TokenIds, NEW p \in 0..MaxTokens, NEW r,
         r = MintedToken(u, f, p)
  PROVE  /\ r \in RefreshTokens
         /\ r.owner = u /\ r.family = f /\ r.parent = p /\ ~r.used
<1>1. NoToken \in RefreshTokens
  BY SessionsAssumption DEF NoToken, RefreshTokens
<1>2. f \in 0..MaxTokens
  BY SessionsAssumption DEF TokenIds
<1>3. r = [NoToken EXCEPT !.owner = u, !.family = f, !.parent = p]
  BY DEF MintedToken
<1>4. r \in RefreshTokens
  BY <1>1, <1>2, <1>3 DEF RefreshTokens
<1>5. r.owner = u /\ r.family = f /\ r.parent = p /\ ~r.used
  BY <1>3 DEF NoToken
<1> QED
  BY <1>4, <1>5

LEMMA MintFacts ==
  ASSUME SessionsInv, NEW c \in Requests, Mint(c), NEW n, n = NextToken
  PROVE  /\ n \in TokenIds /\ n \notin Minted /\ Minted' = Minted \cup {n}
         /\ token' \in [TokenIds -> RefreshTokens]
         /\ token'[n].owner \in proven /\ token'[n].family = n /\ token'[n].parent = 0
         /\ ~token'[n].used
         /\ \A t \in TokenIds \ {n} : token'[t] = token[t]
         /\ UNCHANGED <<acct, link, mailed, proven, settled, crossed>>
<1>1. /\ n \in TokenIds /\ job[c].user \in Users /\ job[c].user \in proven
      /\ UNCHANGED <<acct, link, mailed, proven, settled, crossed>>
  BY DEF Mint, SessionsInv, JobFacts, KeepHistory
<1>2. PICK r : r = MintedToken(job[c].user, n, 0)
  OBVIOUS
<1>3. /\ r \in RefreshTokens
      /\ r.owner = job[c].user /\ r.family = n /\ r.parent = 0 /\ ~r.used
  <2>1. 0 \in 0..MaxTokens
    BY SessionsAssumption
  <2> QED
    BY <1>1, <1>2, <2>1, MintedTokenFacts
<1>4. token' = [token EXCEPT ![n] = r]
  BY <1>2 DEF Mint
<1>5. token' \in [TokenIds -> RefreshTokens] /\ token'[n] = r
  BY <1>1, <1>3, <1>4 DEF SessionsInv, SessionsTypeOK
<1>6. \A t \in TokenIds \ {n} : token'[t] = token[t]
  BY <1>4 DEF SessionsInv, SessionsTypeOK
<1>7. n \notin Minted
  BY <1>1, NextTokenIsNew DEF SessionsInv
<1>8. Minted' = Minted \cup {n}
  <2>1. job[c].user # Null
    BY <1>1, SessionsAssumption
  <2> QED
    BY <1>1, <1>3, <1>5, <1>6, <2>1 DEF Minted
<1> QED
  BY <1>1, <1>3, <1>5, <1>6, <1>7, <1>8

LEMMA RotateCommitFacts ==
  ASSUME SessionsInv, NEW c \in Requests, RotateCommit(c), NEW n, n = NextToken,
         NEW p, p = job[c].token
  PROVE  /\ p \in Minted /\ p # n
         /\ n \in TokenIds /\ n \notin Minted /\ Minted' = Minted \cup {n}
         /\ token' \in [TokenIds -> RefreshTokens]
         /\ token'[n].owner = token[p].owner /\ token'[n].family = token[p].family
         /\ token'[n].parent = p /\ ~token'[n].used
         /\ token'[p].used
         /\ \A t \in TokenIds \ {n} :
              /\ token'[t].owner = token[t].owner /\ token'[t].family = token[t].family
              /\ token'[t].parent = token[t].parent
              /\ t # p => token'[t].used = token[t].used
              /\ token[t].used => token'[t].used
              /\ token'[t].revoked = token[t].revoked /\ token'[t].expired = token[t].expired
         /\ UNCHANGED <<acct, link, mailed, proven, settled, crossed>>
<1>1. /\ n \in TokenIds /\ p \in Minted /\ p \in TokenIds
      /\ token \in [TokenIds -> RefreshTokens]
      /\ UNCHANGED <<acct, link, mailed, proven, settled, crossed>>
  BY DEF RotateCommit, SessionsInv, SessionsTypeOK, JobFacts, KeepHistory, Minted
<1>2. n \notin Minted /\ p # n
  BY <1>1, NextTokenIsNew DEF SessionsInv
<1>3. /\ token[p].owner \in Users /\ token[p].owner # Null
      /\ token[p].family \in TokenIds /\ p \in 0..MaxTokens
  <2>1. token[p].owner # Null /\ token[p].family \in TokenIds
    BY <1>1 DEF Minted, SessionsInv, TokenTable, Lineage
  <2>2. token[p].owner \in Users
    BY <1>1, <2>1 DEF RefreshTokens
  <2>3. p \in 0..MaxTokens
    BY <1>1, SessionsAssumption DEF TokenIds
  <2> QED
    BY <2>1, <2>2, <2>3
<1>4. PICK r : r = MintedToken(token[p].owner, token[p].family, p)
  OBVIOUS
<1>5. /\ r \in RefreshTokens /\ r.owner = token[p].owner /\ r.family = token[p].family
      /\ r.parent = p /\ ~r.used
  <2>1. MintedToken(token[p].owner, token[p].family, p) \in RefreshTokens
    BY <1>3, MintedTokenFacts
  <2> QED
    BY <1>3, <1>4, <2>1, MintedTokenFacts
<1>6. token' = [token EXCEPT ![p].used = TRUE, ![n] = r]
  BY <1>4 DEF RotateCommit
<1>7. PICK q : q = [token[p] EXCEPT !.used = TRUE]
  OBVIOUS
<1>8. /\ q \in RefreshTokens /\ q.owner = token[p].owner /\ q.family = token[p].family
      /\ q.parent = token[p].parent /\ q.used
      /\ q.revoked = token[p].revoked /\ q.expired = token[p].expired
  <2>1. token[p] \in RefreshTokens
    BY <1>1
  <2>2. q \in RefreshTokens
    BY <1>7, <2>1 DEF RefreshTokens
  <2>3. q.used
    BY <1>7, <2>1 DEF RefreshTokens
  <2>4. q.owner = token[p].owner /\ q.family = token[p].family
    BY <1>7, <2>1 DEF RefreshTokens
  <2>5. /\ q.parent = token[p].parent
        /\ q.revoked = token[p].revoked /\ q.expired = token[p].expired
    BY <1>7, <2>1 DEF RefreshTokens
  <2> QED
    BY <2>2, <2>3, <2>4, <2>5
<1>9. /\ token'[n] = r /\ token'[p] = q
      /\ \A t \in TokenIds \ {n, p} : token'[t] = token[t]
      /\ DOMAIN token' = TokenIds
      /\ token' = [t \in TokenIds |-> token'[t]]
  BY <1>1, <1>2, <1>6, <1>7
<1>10. token' \in [TokenIds -> RefreshTokens]
  BY <1>1, <1>5, <1>8, <1>9
<1>11. Minted' = Minted \cup {n}
  BY <1>1, <1>2, <1>3, <1>5, <1>8, <1>9 DEF Minted
<1>12. \A t \in TokenIds \ {n} :
         /\ token'[t].owner = token[t].owner /\ token'[t].family = token[t].family
         /\ token'[t].parent = token[t].parent
         /\ t # p => token'[t].used = token[t].used
         /\ token[t].used => token'[t].used
         /\ token'[t].revoked = token[t].revoked /\ token'[t].expired = token[t].expired
  BY <1>8, <1>9
<1> QED
  BY <1>1, <1>2, <1>5, <1>8, <1>9, <1>10, <1>11, <1>12

(* One more token, of a family that no sweep has settled.                   *)
LEMMA TokenStep ==
  ASSUME SessionsInv, NEW c \in Requests, Moves(c), job'[c].at = "idle",
         token' \in [TokenIds -> RefreshTokens], NEW n \in TokenIds, n = NextToken,
         Minted' = Minted \cup {n}, n \notin Minted,
         \A t \in Minted :
           /\ token'[t].owner = token[t].owner /\ token'[t].family = token[t].family
           /\ Usable(t)' => Usable(t),
         token'[n].owner \in proven, token'[n].family \notin settled, Lineage',
         UNCHANGED <<acct, link, mailed, proven, settled, crossed>>
  PROVE  SessionsInv'
<1>1. SweptStaysDead'
  BY DEF SweptStaysDead, SessionsInv, TokenTable
<1>2. SessionMeansProven'
  BY DEF SessionMeansProven, SessionsInv, TokenTable
<1>3. TokenTable'
  BY <1>1, <1>2, NextTokenIsNew DEF SessionsInv, TokenTable
<1>4. TokensKept /\ RotationsOpen
  BY DEF TokensKept, RotationsOpen, SessionsInv, JobFacts
<1>5. LinkTable' /\ LinksKept /\ link' \in [LinkIds -> VerificationTokens]
  BY LinksUntouched
<1>6. /\ acct' \in [Users -> Rows] /\ AcctTable'
      /\ proven' \subseteq Users /\ crossed' \subseteq Users \X Purposes
  BY DEF SessionsInv, SessionsTypeOK, AcctTable
<1> QED
  BY <1>3, <1>4, <1>5, <1>6, IdleFactsNext, OneMoves

LEMMA MintStep ==
  ASSUME SessionsInv, NEW c \in Requests, Mint(c) PROVE SessionsInv'
<1>1. PICK n : n = NextToken
  OBVIOUS
<1>2. /\ n \in TokenIds /\ n \notin Minted /\ Minted' = Minted \cup {n}
      /\ token' \in [TokenIds -> RefreshTokens]
      /\ token'[n].owner \in proven /\ token'[n].family = n /\ token'[n].parent = 0
      /\ ~token'[n].used
      /\ \A t \in TokenIds \ {n} : token'[t] = token[t]
      /\ UNCHANGED <<acct, link, mailed, proven, settled, crossed>>
  BY <1>1, MintFacts
<1>3. \A t \in Minted : t \in TokenIds \ {n}
  BY <1>2 DEF Minted
<1>4. Lineage'
  <2> SUFFICES ASSUME NEW t \in Minted \cup {n}
               PROVE  /\ token'[t].family \in Minted'
                      /\ token'[t].parent # 0 =>
                           /\ token'[t].parent \in Minted'
                           /\ token'[token'[t].parent].used
                           /\ token'[token'[t].parent].family = token'[t].family
                      /\ token'[t].used => \E s \in Minted' : token'[s].parent = t
    BY <1>2 DEF Lineage
  <2>1. CASE t = n
    BY <1>2, <2>1
  <2>2. CASE t \in Minted
    <3>1. /\ token[t].family \in Minted
          /\ token[t].parent # 0 => /\ token[t].parent \in Minted
                                    /\ token[token[t].parent].used
                                    /\ token[token[t].parent].family = token[t].family
          /\ token[t].used => \E s \in Minted : token[s].parent = t
      BY <2>2 DEF SessionsInv, TokenTable, Lineage
    <3> QED
      BY <1>2, <1>3, <2>2, <3>1
  <2> QED
    BY <2>1, <2>2
<1>5. \A t \in Minted : Usable(t)' => Usable(t)
  BY <1>2, <1>3 DEF Usable, Dead
<1>6. token'[n].family \notin settled
  BY <1>2 DEF SessionsInv, TokenTable
<1>7. Moves(c) /\ job'[c].at = "idle"
  BY FinishFacts DEF SessionsInv, Mint
<1> QED
  BY <1>1, <1>2, <1>3, <1>4, <1>5, <1>6, <1>7, TokenStep

LEMMA RotateCommitStep ==
  ASSUME SessionsInv, NEW c \in Requests, RotateCommit(c) PROVE SessionsInv'
<1>1. PICK n, p : n = NextToken /\ p = job[c].token
  OBVIOUS
<1>2. /\ p \in Minted /\ p # n
      /\ n \in TokenIds /\ n \notin Minted /\ Minted' = Minted \cup {n}
      /\ token' \in [TokenIds -> RefreshTokens]
      /\ token'[n].owner = token[p].owner /\ token'[n].family = token[p].family
      /\ token'[n].parent = p /\ ~token'[n].used
      /\ token'[p].used
      /\ \A t \in TokenIds \ {n} :
           /\ token'[t].owner = token[t].owner /\ token'[t].family = token[t].family
           /\ token'[t].parent = token[t].parent
           /\ t # p => token'[t].used = token[t].used
           /\ token[t].used => token'[t].used
           /\ token'[t].revoked = token[t].revoked /\ token'[t].expired = token[t].expired
      /\ UNCHANGED <<acct, link, mailed, proven, settled, crossed>>
  BY <1>1, RotateCommitFacts
<1>3. \A t \in Minted : t \in TokenIds \ {n}
  BY <1>2 DEF Minted
<1>4. Lineage'
  <2> SUFFICES ASSUME NEW t \in Minted \cup {n}
               PROVE  /\ token'[t].family \in Minted'
                      /\ token'[t].parent # 0 =>
                           /\ token'[t].parent \in Minted'
                           /\ token'[token'[t].parent].used
                           /\ token'[token'[t].parent].family = token'[t].family
                      /\ token'[t].used => \E s \in Minted' : token'[s].parent = t
    BY <1>2 DEF Lineage
  <2>1. CASE t = n
    <3>1. token[p].family \in Minted
      BY <1>2 DEF SessionsInv, TokenTable, Lineage
    <3> QED
      BY <1>2, <1>3, <2>1, <3>1
  <2>2. CASE t \in Minted
    <3>1. /\ token[t].family \in Minted
          /\ token[t].parent # 0 => /\ token[t].parent \in Minted
                                    /\ token[token[t].parent].used
                                    /\ token[token[t].parent].family = token[t].family
          /\ token[t].used => \E s \in Minted : token[s].parent = t
      BY <2>2 DEF SessionsInv, TokenTable, Lineage
    <3>2. token'[t].used => \E s \in Minted' : token'[s].parent = t
      BY <1>2, <1>3, <2>2, <3>1
    <3> QED
      BY <1>2, <1>3, <2>2, <3>1, <3>2
  <2> QED
    BY <2>1, <2>2
<1>5. \A t \in Minted : Usable(t)' => Usable(t)
  BY <1>2, <1>3 DEF Usable, Dead
<1>6. token'[n].family \notin settled /\ token'[n].owner \in proven
  <2>1. JobFacts(c) /\ job[c].at = "rotate"
    BY DEF SessionsInv, RotateCommit
  <2>2. token[p].family \notin settled
    BY <1>1, <2>1 DEF JobFacts
  <2>3. token[p].owner \in proven
    BY <1>2 DEF SessionsInv, TokenTable, SessionMeansProven
  <2> QED
    BY <1>2, <2>2, <2>3
<1>7. Moves(c) /\ job'[c].at = "idle"
  BY FinishFacts DEF SessionsInv, RotateCommit
<1> QED
  BY <1>1, <1>2, <1>3, <1>4, <1>5, <1>6, <1>7, TokenStep

-----------------------------------------------------------------------------
LEMMA SessionsInitial == SessionsInit => SessionsInv
<1> SUFFICES ASSUME SessionsInit PROVE SessionsInv
  OBVIOUS
<1>1. /\ acct = [u \in Users |-> NoRow] /\ token = [t \in TokenIds |-> NoToken]
      /\ link = [l \in LinkIds |-> NoLink] /\ job = [c \in Requests |-> NoJob]
      /\ mailed = {} /\ proven = {} /\ settled = {} /\ crossed = {}
  BY DEF SessionsInit
<1>2. Minted = {} /\ Issued = {}
  BY <1>1 DEF Minted, Issued, NoToken, NoLink
<1>3. NoRow \in Rows /\ NoToken \in RefreshTokens /\ NoLink \in VerificationTokens
  BY SessionsAssumption
     DEF NoRow, Rows, NoToken, RefreshTokens, NoLink, VerificationTokens, Purposes
<1>4. SessionsTypeOK
  BY <1>1, <1>3, NoJobTyped DEF SessionsTypeOK
<1>5. LinkTable /\ TokenTable
  <2>1. {} = 1..0 /\ 0 \in 0..MaxLinks /\ 0 \in 0..MaxTokens
    BY SessionsAssumption
  <2> QED
    BY <1>1, <1>2, <2>1
       DEF LinkTable, TokenTable, Lineage, SweptStaysDead, SessionMeansProven
<1>6. AcctTable
  BY <1>1 DEF AcctTable, NoRow
<1>7. \A c \in Requests : JobFacts(c)
  BY <1>1, NoJobTyped, IdleFacts
<1> QED
  BY <1>4, <1>5, <1>6, <1>7 DEF SessionsInv

LEMMA SessionsStutter ==
  ASSUME SessionsInv, UNCHANGED sessionVars PROVE SessionsInv'
<1>1. UNCHANGED <<acct, token, link, mailed, job, proven, settled, crossed>>
  BY DEF sessionVars
<1>2. LinkTable' /\ LinksKept /\ TokenTable' /\ TokensKept /\ RotationsOpen
  BY <1>1, LinksUntouched, TokensUntouched
<1>3. SessionsTypeOK' /\ AcctTable'
  BY <1>1 DEF SessionsInv, SessionsTypeOK, AcctTable
<1>4. \A d \in Requests : JobFacts(d)'
  BY <1>1, <1>2, FactsKept
<1> QED
  BY <1>2, <1>3, <1>4 DEF SessionsInv

LEMMA SessionsStep ==
  ASSUME SessionsInv, [SessionsNext]_sessionVars PROVE SessionsInv'
BY SessionsStutter, RegisterStep, CreateRowStep, AskStep, IssueRetireStep, IssueCommitStep,
   MailStep, UseLinkStep, SpendStep, MarkVerifiedStep, SetPasswordStep, EndedSessionsStep,
   LoginStep, LoginWithGoogleStep, GoogleByEmailStep, GoogleWriteStep, MintStep, RotateStep,
   RotateCommitStep, StopStep, LogoutStep, ExpireTokenStep, ExpireLinkStep, Zenon
   DEF SessionsNext

(* Every state is typed, rows are created in order, and what each request   *)
(* has read holds where it needs it.                                        *)
THEOREM SessionsInvariant == SessionsSpec => []SessionsInv
<1>1. SessionsInit => SessionsInv
  BY SessionsInitial
<1>2. SessionsInv /\ [SessionsNext]_sessionVars => SessionsInv'
  BY SessionsStep
<1> QED
  BY <1>1, <1>2, PTL DEF SessionsSpec

(* Whoever holds a session, by whatever path the token was minted, is       *)
(* somebody who read their mailbox or whose address Google vouched for.     *)
THEOREM SessionsAreProven == SessionsSpec => []SessionMeansProven
<1>1. SessionsInv => SessionMeansProven
  BY DEF SessionsInv, TokenTable
<1> QED
  BY <1>1, SessionsInvariant, PTL

(* No token of a family that was swept outside a rotation ever works again. *)
THEOREM SweptSessionsStayDead == SessionsSpec => []SweptStaysDead
<1>1. SessionsInv => SweptStaysDead
  BY DEF SessionsInv, TokenTable
<1> QED
  BY <1>1, SessionsInvariant, PTL

-----------------------------------------------------------------------------
(* PASSWORDS *)

(* A step that replaces the password of a person.                           *)
ReplacedByReset ==
  \A u \in Users : acct[u].row /\ acct'[u].pw # acct[u].pw => ResetLinkSpent(u)

LEMMA PasswordWritten ==
  ASSUME SessionsInv, NEW c \in Requests,
         CreateRow(c) \/ MarkVerified(c) \/ SetPassword(c) \/ GoogleWrite(c)
  PROVE  ReplacedByReset
<1>1. acct \in [Users -> Rows] /\ JobFacts(c)
  BY DEF SessionsInv, SessionsTypeOK
<1>2. CASE CreateRow(c)
  BY <1>1, <1>2 DEF CreateRow, ReplacedByReset
<1>3. CASE MarkVerified(c)
  BY <1>1, <1>3 DEF MarkVerified, ReplacedByReset, Rows
<1>4. CASE SetPassword(c)
  BY <1>1, <1>4 DEF SetPassword, ReplacedByReset, Rows, JobFacts
<1>5. CASE GoogleWrite(c)
  BY <1>1, <1>5 DEF GoogleWrite, ReplacedByReset, Rows
<1> QED
  BY <1>2, <1>3, <1>4, <1>5

(* Every other step leaves users alone.                                     *)
LEMMA RowsUntouched ==
  ASSUME SessionsNext,
         \A c \in Requests : /\ ~CreateRow(c) /\ ~MarkVerified(c)
                             /\ ~SetPassword(c) /\ ~GoogleWrite(c)
  PROVE  UNCHANGED acct
<1>1. CASE Logout \/ ExpireToken \/ ExpireLink
  BY <1>1 DEF Logout, ExpireToken, ExpireLink
<1>2. CASE \E c \in Requests : \/ Register(c) \/ ResendVerification(c) \/ ForgotPassword(c)
                               \/ Login(c) \/ LoginWithGoogle(c) \/ Rotate(c) \/ Stop(c)
                               \/ VerifyEmail(c) \/ ResetPassword(c) \/ GoogleByEmail(c)
                               \/ IssueRetire(c)
  BY <1>2 DEF Register, ResendVerification, ForgotPassword, Login, LoginWithGoogle, Rotate,
              Stop, VerifyEmail, ResetPassword, Present, GoogleByEmail, IssueRetire, KeepTables
<1>3. CASE \E c \in Requests : \/ IssueCommit(c) \/ Mail(c) \/ Spend(c) \/ Mint(c)
                               \/ RotateCommit(c) \/ RevokeAllSessions(c) \/ SweepFamily(c)
  BY <1>3 DEF IssueCommit, Mail, Spend, Mint, RotateCommit, RevokeAllSessions, SweepFamily
<1> QED
  BY <1>1, <1>2, <1>3 DEF SessionsNext

LEMMA PasswordStep ==
  ASSUME SessionsInv, [SessionsNext]_sessionVars
  PROVE  UNCHANGED sessionVars \/ ReplacedByReset
<1>1. CASE \E c \in Requests :
             CreateRow(c) \/ MarkVerified(c) \/ SetPassword(c) \/ GoogleWrite(c)
  BY <1>1, PasswordWritten
<1>2. CASE UNCHANGED acct
  BY <1>2 DEF ReplacedByReset
<1>3. CASE UNCHANGED sessionVars
  BY <1>3
<1> QED
  BY <1>1, <1>2, <1>3, RowsUntouched

(* A password that exists changes only in a step of a request that spent a  *)
(* reset link mailed to its owner.                                          *)
THEOREM PasswordsChangeByReset == SessionsSpec => PasswordChangesByReset
<1>1. SessionsInv /\ [SessionsNext]_sessionVars =>
        [\A u \in Users :
           acct[u].row /\ acct'[u].pw # acct[u].pw =>
             \E l \in mailed :
               /\ link[l].owner = u /\ link[l].used
               /\ link[l].purpose = "PASSWORD_RESET"]_sessionVars
  BY PasswordStep DEF ReplacedByReset, ResetLinkSpent
<1> QED
  BY <1>1, SessionsInvariant, PTL DEF SessionsSpec, PasswordChangesByReset

-----------------------------------------------------------------------------
(* THE NEWEST LINK *)

(* Links age, nobody starts to issue one, no overlap is forgotten.          *)
LinksAge ==
  \A l \in Issued' :
    /\ l \in Issued
    /\ link'[l].owner = link[l].owner /\ link'[l].purpose = link[l].purpose
    /\ Live(l)' => Live(l)

NobodyIssues ==
  \A d \in Requests : job'[d].at = "issue" => job'[d] = job[d]

LEMMA NewestKept ==
  ASSUME NewestInv, LinksAge, NobodyIssues, crossed \subseteq crossed'
  PROVE  NewestInv'
<1>1. NewestLinkOnly'
  BY DEF NewestInv, NewestLinkOnly, LinksAge
<1>2. ASSUME NEW c \in Requests PROVE SeenAll(c)'
  <2>1. SeenAll(c)
    BY DEF NewestInv
  <2> SUFFICES ASSUME job'[c].at = "issue", KeyOf(c)' \notin crossed'
               PROVE  SeenAll(c)'
    BY DEF SeenAll
  <2>2. job'[c] = job[c] /\ KeyOf(c)' = KeyOf(c) /\ KeyOf(c) \notin crossed
    BY DEF NobodyIssues, KeyOf
  <2>3. /\ \A l \in Issued : Live(l) /\ <<link[l].owner, link[l].purpose>> = KeyOf(c)
                               => l \in job[c].seen
        /\ \A d \in Requests \ {c} : job[d].at = "issue" => KeyOf(d) # KeyOf(c)
    BY <2>1, <2>2 DEF SeenAll
  <2>4. \A l \in Issued' : Live(l)' /\ <<link'[l].owner, link'[l].purpose>> = KeyOf(c)'
                             => l \in job'[c].seen
    BY <2>2, <2>3 DEF LinksAge
  <2>5. \A d \in Requests \ {c} : job'[d].at = "issue" => KeyOf(d)' # KeyOf(c)'
    BY <2>2, <2>3 DEF NobodyIssues, KeyOf
  <2> QED
    BY <2>4, <2>5 DEF SeenAll
<1> QED
  BY <1>1, <1>2 DEF NewestInv

LEMMA LinksStay ==
  ASSUME UNCHANGED link PROVE LinksAge
BY DEF LinksAge, Issued, Live

LEMMA JobSet ==
  ASSUME SessionsTypeOK, NEW c \in Requests, NEW j, job' = [job EXCEPT ![c] = j],
         j.at # "issue"
  PROVE  NobodyIssues
BY DEF SessionsTypeOK, NobodyIssues

LEMMA JobGoes ==
  ASSUME SessionsTypeOK, NEW c \in Requests, NEW step, GoTo(c, step), step # "issue"
  PROVE  NobodyIssues
BY DEF SessionsTypeOK, NobodyIssues, GoTo, Jobs

LEMMA JobEnds ==
  ASSUME SessionsTypeOK, NEW c \in Requests, Finish(c) PROVE NobodyIssues
BY NoJobTyped, JobSet DEF Finish

(* The requests that start.                                                 *)
LEMMA StartsNoIssue ==
  ASSUME SessionsTypeOK, NEW c \in Requests,
         \/ Register(c) \/ ResendVerification(c) \/ ForgotPassword(c) \/ VerifyEmail(c)
         \/ ResetPassword(c) \/ Login(c) \/ LoginWithGoogle(c) \/ Rotate(c)
  PROVE  NobodyIssues /\ UNCHANGED <<link, crossed>>
<1>1. UNCHANGED <<link, crossed>>
  BY DEF Register, ResendVerification, ForgotPassword, VerifyEmail, ResetPassword, Present,
         Login, LoginWithGoogle, Rotate, KeepTables, KeepHistory
<1> SUFFICES NobodyIssues
  BY <1>1
<1>2. ASSUME NEW j, Begin(c, j), j.at # "issue" PROVE NobodyIssues
  BY <1>2, JobSet DEF Begin
<1>3. CASE Register(c)
  <2>1. PICK u \in Users, pw \in Passwords :
          Begin(c, IF acct[u].row THEN IssueFor(u, "EMAIL_VERIFICATION")
                   ELSE [NoJob EXCEPT !.at = "create", !.user = u, !.pw = pw])
    BY <1>3 DEF Register
  <2>2. IssueFor(u, "EMAIL_VERIFICATION").at # "issue"
    BY DEF IssueFor, NoJob
  <2>3. [NoJob EXCEPT !.at = "create", !.user = u, !.pw = pw].at # "issue"
    BY DEF NoJob
  <2> QED
    BY <1>2, <2>1, <2>2, <2>3
<1>4. CASE ResendVerification(c) \/ ForgotPassword(c)
  <2>1. PICK u \in Users, p \in Purposes : Begin(c, IssueFor(u, p))
    BY <1>4 DEF ResendVerification, ForgotPassword, Purposes
  <2>2. IssueFor(u, p).at # "issue"
    BY DEF IssueFor, NoJob
  <2> QED
    BY <1>2, <2>1, <2>2
<1>5. CASE VerifyEmail(c) \/ ResetPassword(c)
  <2>1. PICK l \in LinkIds, p \in Purposes, pw \in Passwords \cup {Null} : Present(c, l, p, pw)
    BY <1>5 DEF VerifyEmail, ResetPassword, Purposes
  <2>2. PICK j : j = [NoJob EXCEPT !.at = "spend", !.user = link[l].owner,
                                   !.purpose = p, !.link = l, !.pw = pw]
    OBVIOUS
  <2>3. j.at = "spend"
    BY <2>2 DEF NoJob
  <2> QED
    BY <1>2, <2>1, <2>2, <2>3 DEF Present
<1>6. CASE Login(c) \/ LoginWithGoogle(c)
  <2>1. PICK u \in Users, g \in GoogleIds \cup {Null} :
          \/ Begin(c, [NoJob EXCEPT !.at = "mint", !.user = u])
          \/ Begin(c, [NoJob EXCEPT !.at = "byEmail", !.user = u, !.google = g])
    BY <1>6 DEF Login, LoginWithGoogle, Owners
  <2>2. [NoJob EXCEPT !.at = "mint", !.user = u].at # "issue"
    BY DEF NoJob
  <2>3. [NoJob EXCEPT !.at = "byEmail", !.user = u, !.google = g].at # "issue"
    BY DEF NoJob
  <2> QED
    BY <1>2, <2>1, <2>2, <2>3
<1>7. CASE Rotate(c)
  <2>1. PICK t \in Minted, step \in {"sweep", "rotate"} :
          Begin(c, [NoJob EXCEPT !.at = step, !.token = t])
    BY <1>7 DEF Rotate
  <2>2. [NoJob EXCEPT !.at = step, !.token = t].at # "issue"
    BY DEF NoJob
  <2> QED
    BY <1>2, <2>1, <2>2
<1> QED
  BY <1>3, <1>4, <1>5, <1>6, <1>7

(* The requests that go on.                                                 *)
LEMMA GoesOnNoIssue ==
  ASSUME SessionsInv, NEW c \in Requests,
         \/ CreateRow(c) \/ Mail(c) \/ MarkVerified(c) \/ SetPassword(c)
         \/ RevokeAllSessions(c) \/ GoogleByEmail(c) \/ GoogleWrite(c) \/ Mint(c)
         \/ RotateCommit(c) \/ SweepFamily(c) \/ Stop(c)
  PROVE  NobodyIssues /\ UNCHANGED <<link, crossed>>
<1>1. UNCHANGED <<link, crossed>>
  BY DEF CreateRow, Mail, MarkVerified, SetPassword, RevokeAllSessions, GoogleByEmail,
         GoogleWrite, Mint, RotateCommit, SweepFamily, Stop, KeepTables, KeepHistory
<1> SUFFICES NobodyIssues
  BY <1>1
<1>2. SessionsTypeOK
  BY DEF SessionsInv
<1>3. CASE Finish(c)
  BY <1>2, <1>3, JobEnds
<1>4. CASE \E step \in {"revoke", "attach", "enrol"} : GoTo(c, step)
  BY <1>2, <1>4, JobGoes
<1>5. CASE SetPassword(c)
  <2>1. job' = [job EXCEPT ![c].at = "confirm", ![c].pw = Null]
    BY <1>5 DEF SetPassword
  <2> QED
    BY <1>2, <2>1 DEF NobodyIssues, SessionsTypeOK, Jobs
<1>6. CASE \E u : job' = [job EXCEPT ![c] = IssueFor(u, "EMAIL_VERIFICATION")]
  <2>1. PICK u : job' = [job EXCEPT ![c] = IssueFor(u, "EMAIL_VERIFICATION")]
    BY <1>6
  <2>2. IssueFor(u, "EMAIL_VERIFICATION").at # "issue"
    BY DEF IssueFor, NoJob
  <2> QED
    BY <1>2, <2>1, <2>2, JobSet
<1>7. CASE \E u : job' = [job EXCEPT ![c] = [NoJob EXCEPT !.at = "mint", !.user = u]]
  <2>1. PICK u : job' = [job EXCEPT ![c] = [NoJob EXCEPT !.at = "mint", !.user = u]]
    BY <1>7
  <2>2. [NoJob EXCEPT !.at = "mint", !.user = u].at # "issue"
    BY DEF NoJob
  <2> QED
    BY <1>2, <2>1, <2>2, JobSet
<1>8. \/ Finish(c) \/ SetPassword(c) \/ \E step \in {"revoke", "attach", "enrol"} : GoTo(c, step)
      \/ \E u : job' = [job EXCEPT ![c] = IssueFor(u, "EMAIL_VERIFICATION")]
      \/ \E u : job' = [job EXCEPT ![c] = [NoJob EXCEPT !.at = "mint", !.user = u]]
  BY DEF CreateRow, Mail, MarkVerified, RevokeAllSessions, GoogleByEmail,
         GoogleWrite, Mint, RotateCommit, SweepFamily, Stop
<1> QED
  BY <1>3, <1>4, <1>5, <1>6, <1>7, <1>8

LEMMA NewestSpend ==
  ASSUME SessionsInv, NewestInv, NEW c \in Requests, Spend(c) PROVE NewestInv'
<1>1. /\ link \in [LinkIds -> VerificationTokens] /\ job \in [Requests -> Jobs]
      /\ link' = [link EXCEPT ![job[c].link].used = TRUE]
      /\ UNCHANGED crossed
  BY DEF Spend, SessionsInv, SessionsTypeOK
<1>2. \A l \in LinkIds :
        /\ link'[l].owner = link[l].owner /\ link'[l].purpose = link[l].purpose
        /\ link[l].used => link'[l].used
        /\ link'[l].expired = link[l].expired
  BY <1>1 DEF VerificationTokens
<1>3. LinksAge
  BY <1>2 DEF LinksAge, Issued, Live
<1>4. NobodyIssues
  <2>1. PICK step : step \in {"verify", "password"}
                    /\ job' = [job EXCEPT ![c].at = step, ![c].link = 0]
    BY DEF Spend
  <2> QED
    BY <1>1, <2>1 DEF NobodyIssues, Jobs
<1> QED
  BY <1>1, <1>3, <1>4, NewestKept

LEMMA NewestExpires ==
  ASSUME SessionsInv, NewestInv, ExpireLink PROVE NewestInv'
<1>1. PICK k \in Issued : link' = [link EXCEPT ![k].expired = TRUE]
  BY DEF ExpireLink
<1>2. \A l \in LinkIds :
        /\ link'[l].owner = link[l].owner /\ link'[l].purpose = link[l].purpose
        /\ link'[l].used = link[l].used
        /\ link[l].expired => link'[l].expired
  BY <1>1 DEF SessionsInv, SessionsTypeOK, VerificationTokens
<1>3. LinksAge
  BY <1>2 DEF LinksAge, Issued, Live
<1> QED
  BY <1>3, NewestKept DEF ExpireLink, KeepHistory, NobodyIssues

(* An issue reads: unless another of its kind is under way, it has seen all.*)
LEMMA NewestRetires ==
  ASSUME SessionsInv, NewestInv, NEW c \in Requests, IssueRetire(c) PROVE NewestInv'
<1>1. /\ job[c].at = "retire" /\ job[c] \in Jobs /\ job \in [Requests -> Jobs]
      /\ UNCHANGED link
  BY DEF IssueRetire, SessionsInv, SessionsTypeOK, KeepTables
<1>2. PICK S : S = Unspent(job[c].user, job[c].purpose)
  OBVIOUS
<1>3. job' = [job EXCEPT ![c].at = "issue", ![c].seen = S]
  BY <1>2 DEF IssueRetire
<1>4. /\ job'[c].at = "issue" /\ job'[c].seen = S
      /\ job'[c].user = job[c].user /\ job'[c].purpose = job[c].purpose
      /\ \A d \in Requests \ {c} : job'[d] = job[d]
  BY <1>1, <1>3 DEF Jobs
<1>5. /\ KeyOf(c)' = KeyOf(c)
      /\ \A d \in Requests \ {c} : KeyOf(d)' = KeyOf(d)
      /\ Issued' = Issued /\ \A l \in Issued : Live(l)' = Live(l)
  BY <1>1, <1>4 DEF KeyOf, Issued, Live
<1>6. /\ crossed \subseteq crossed'
      /\ \A d \in Requests \ {c} : job[d].at = "issue" /\ KeyOf(d) = KeyOf(c)
                                     => KeyOf(c) \in crossed'
  BY DEF IssueRetire, KeyOf
<1>7. NewestLinkOnly'
  BY <1>1, <1>5, <1>6 DEF NewestInv, NewestLinkOnly
<1>8. ASSUME NEW d \in Requests PROVE SeenAll(d)'
  <2>1. CASE d = c
    <3>1. ASSUME NEW l \in Issued, Live(l), <<link[l].owner, link[l].purpose>> = KeyOf(c)
          PROVE  l \in S
      BY <1>2, <3>1 DEF KeyOf, Unspent, Live
    <3> QED
      BY <1>1, <1>4, <1>5, <1>6, <2>1, <3>1 DEF SeenAll
  <2>2. CASE d # c
    <3>1. SeenAll(d) /\ job'[d] = job[d] /\ KeyOf(d)' = KeyOf(d)
      BY <1>4, <1>5, <2>2 DEF NewestInv
    <3>2. ASSUME job[d].at = "issue", KeyOf(d) \notin crossed' PROVE KeyOf(d) # KeyOf(c)
      BY <1>6, <2>2, <3>2
    <3>3. ASSUME job[d].at = "issue", KeyOf(d) \notin crossed',
                 NEW e \in Requests \ {d}, job'[e].at = "issue"
          PROVE  KeyOf(e)' # KeyOf(d)
      BY <1>4, <1>5, <1>6, <3>1, <3>2, <3>3 DEF SeenAll
    <3> QED
      BY <1>1, <1>5, <1>6, <3>1, <3>3 DEF SeenAll
  <2> QED
    BY <2>1, <2>2
<1> QED
  BY <1>7, <1>8 DEF NewestInv

(* An issue commits: what it has seen is spent, its own link is the newest. *)
LEMMA NewestCommits ==
  ASSUME SessionsInv, NewestInv, NEW c \in Requests, IssueCommit(c) PROVE NewestInv'
<1>1. PICK n : n = NextLink
  OBVIOUS
<1>2. /\ job[c].at = "issue" /\ n \in LinkIds /\ n \notin Issued
      /\ <<link'[n].owner, link'[n].purpose>> = KeyOf(c)
      /\ \A l \in LinkIds \ {n} :
           /\ link'[l].owner = link[l].owner
           /\ link'[l].purpose = link[l].purpose
           /\ link[l].used => link'[l].used
           /\ link'[l].expired = link[l].expired
           /\ l \in job[c].seen => link'[l].used
      /\ Issued' = Issued \cup {n}
      /\ \A d \in Requests \ {c} : job'[d] = job[d]
      /\ job'[c].at = "mail" /\ crossed' = crossed
  BY <1>1, IssueCommitFacts DEF KeyOf, Moves
<1>3. \A l \in Issued : l \in LinkIds \ {n}
  BY <1>2 DEF Issued
<1>4. ASSUME NEW l \in Issued, Live(l)'
      PROVE  Live(l) /\ l \notin job[c].seen
  BY <1>2, <1>3, <1>4 DEF Live
<1>5. ASSUME KeyOf(c) \notin crossed, NEW l \in Issued, Live(l)'
      PROVE  <<link[l].owner, link[l].purpose>> # KeyOf(c)
  BY <1>2, <1>4, <1>5 DEF NewestInv, SeenAll
<1>6. NewestLinkOnly'
  <2> SUFFICES ASSUME NEW l \in Issued \cup {n}, NEW k \in Issued \cup {n},
                      Live(l)', Live(k)', link'[l].owner = link'[k].owner,
                      link'[l].purpose = link'[k].purpose,
                      <<link'[l].owner, link'[l].purpose>> \notin crossed
               PROVE  l = k
    BY <1>2 DEF NewestLinkOnly
  <2>1. CASE l = n /\ k \in Issued
    <3>1. KeyOf(c) = <<link[k].owner, link[k].purpose>>
      BY <1>2, <1>3, <2>1
    <3> QED
      BY <1>2, <1>5, <2>1, <3>1
  <2>2. CASE k = n /\ l \in Issued
    <3>1. KeyOf(c) = <<link[l].owner, link[l].purpose>>
      BY <1>2, <1>3, <2>2
    <3> QED
      BY <1>2, <1>3, <1>5, <2>2, <3>1
  <2>3. CASE k \in Issued /\ l \in Issued
    BY <1>2, <1>3, <1>4, <2>3 DEF NewestInv, NewestLinkOnly
  <2> QED
    BY <2>1, <2>2, <2>3
<1>7. ASSUME NEW d \in Requests PROVE SeenAll(d)'
  <2>1. CASE d = c
    BY <1>2, <2>1 DEF SeenAll
  <2>2. CASE d # c
    <3>1. SeenAll(d) /\ job'[d] = job[d] /\ KeyOf(d)' = KeyOf(d)
      BY <1>2, <2>2 DEF NewestInv, KeyOf
    <3> SUFFICES ASSUME job[d].at = "issue", KeyOf(d) \notin crossed PROVE SeenAll(d)'
      BY <1>2, <3>1 DEF SeenAll
    <3>2. KeyOf(c) # KeyOf(d)
      BY <1>2, <2>2, <3>1 DEF SeenAll
    <3>3. ASSUME NEW l \in Issued \cup {n}, Live(l)',
                 <<link'[l].owner, link'[l].purpose>> = KeyOf(d)
          PROVE  l \in job[d].seen
      <4>1. l # n
        BY <1>2, <3>2, <3>3
      <4> QED
        BY <1>2, <1>3, <1>4, <3>1, <3>3, <4>1 DEF SeenAll
    <3>4. \A e \in Requests \ {d} : job'[e].at = "issue" => KeyOf(e)' # KeyOf(d)
      BY <1>2, <3>1 DEF SeenAll, KeyOf
    <3> QED
      BY <1>2, <3>1, <3>3, <3>4 DEF SeenAll
  <2> QED
    BY <2>1, <2>2
<1> QED
  BY <1>6, <1>7 DEF NewestInv

LEMMA NewestStep ==
  ASSUME SessionsInv, NewestInv, [SessionsNext]_sessionVars PROVE NewestInv'
<1>1. CASE UNCHANGED sessionVars \/ Logout \/ ExpireToken
  BY <1>1, LinksStay, NewestKept
     DEF sessionVars, Logout, ExpireToken, KeepHistory, NobodyIssues
<1>2. ASSUME NEW c \in Requests,
             \/ Register(c) \/ ResendVerification(c) \/ ForgotPassword(c) \/ VerifyEmail(c)
             \/ ResetPassword(c) \/ Login(c) \/ LoginWithGoogle(c) \/ Rotate(c)
             \/ CreateRow(c) \/ Mail(c) \/ MarkVerified(c) \/ SetPassword(c)
             \/ RevokeAllSessions(c) \/ GoogleByEmail(c) \/ GoogleWrite(c) \/ Mint(c)
             \/ RotateCommit(c) \/ SweepFamily(c) \/ Stop(c)
      PROVE  NewestInv'
  <2>1. NobodyIssues /\ UNCHANGED <<link, crossed>>
    BY <1>2, StartsNoIssue, GoesOnNoIssue DEF SessionsInv
  <2> QED
    BY <2>1, LinksStay, NewestKept
<1> QED
  BY <1>1, <1>2, NewestSpend, NewestExpires, NewestRetires, NewestCommits, Zenon
     DEF SessionsNext

(* Of the links of one kind for one person only the newest works, unless    *)
(* two issues of them overlapped.                                           *)
THEOREM OnlyNewestLinkWorks == SessionsSpec => []NewestLinkOnly
<1>1. SessionsInit => SessionsInv /\ NewestInv
  <2>1. SessionsInit => NewestInv
    BY NoJobTyped DEF SessionsInit, NewestInv, NewestLinkOnly, SeenAll, Issued, NoLink
  <2> QED
    BY <2>1, SessionsInitial
<1>2. (SessionsInv /\ NewestInv) /\ [SessionsNext]_sessionVars => (SessionsInv /\ NewestInv)'
  BY SessionsStep, NewestStep
<1>3. NewestInv => NewestLinkOnly
  BY DEF NewestInv
<1> QED
  BY <1>1, <1>2, <1>3, PTL DEF SessionsSpec

-----------------------------------------------------------------------------
(* ONE LINE OF TOKENS                                                       *)

LEMMA AtMostOne ==
  ASSUME NEW S, IsFiniteSet(S)
  PROVE  Cardinality(S) <= 1 <=> \A a, b \in S : a = b
<1>1. Cardinality(S) \in Nat
  BY FS_CardinalityType
<1>2. ASSUME NEW a \in S, NEW b \in S, a # b PROVE ~(Cardinality(S) <= 1)
  <2>1. IsFiniteSet({a}) /\ Cardinality({a}) = 1
    BY FS_Singleton
  <2>2. Cardinality({a} \cup {b}) = 2
    BY <1>2, <2>1, FS_AddElement
  <2>3. Cardinality({a} \cup {b}) <= Cardinality(S)
    BY FS_Subset
  <2> QED
    BY <1>1, <2>2, <2>3
<1>3. ASSUME \A a, b \in S : a = b PROVE Cardinality(S) <= 1
  <2>1. CASE S = {}
    BY <2>1, FS_EmptySet
  <2>2. CASE S # {}
    <3>1. PICK a : S = {a}
      BY <1>3, <2>2
    <3>2. Cardinality({a}) = 1
      BY FS_Singleton
    <3> QED
      BY <3>1, <3>2
  <2> QED
    BY <2>1, <2>2
<1> QED
  BY <1>2, <1>3

(* Tokens stay who they are and none is consumed.                           *)
LinesStay ==
  /\ Minted' = Minted
  /\ \A t \in Minted :
       /\ token'[t].family = token[t].family /\ token'[t].parent = token[t].parent
       /\ token'[t].used = token[t].used

LEMMA LatestKept ==
  ASSUME LatestOnly, LinesStay PROVE LatestOnly'
<1>1. \A t : Children(t)' = Children(t)
  BY DEF Children, LinesStay
<1>2. \A f : InFamily(f)' = InFamily(f)
  BY DEF InFamily, LinesStay
<1>3. \A f : SingleLine(f)' = SingleLine(f)
  BY <1>1, <1>2 DEF SingleLine
<1>4. \A f : \A t \in InFamily(f) : t \in Minted
  BY DEF InFamily
<1> QED
  BY <1>2, <1>3, <1>4 DEF LatestOnly, LinesStay

LEMMA LatestMint ==
  ASSUME SessionsInv, LatestOnly, NEW c \in Requests, Mint(c) PROVE LatestOnly'
<1>1. PICK n : n = NextToken
  OBVIOUS
<1>2. /\ n \in TokenIds /\ n \notin Minted /\ Minted' = Minted \cup {n}
      /\ token'[n].family = n /\ token'[n].parent = 0
      /\ \A t \in TokenIds \ {n} : token'[t] = token[t]
  BY <1>1, MintFacts
<1>3. \A t \in Minted : t \in TokenIds \ {n} /\ token[t].family # n /\ t # 0
  <2>1. \A t \in Minted : token[t].family \in Minted
    BY DEF SessionsInv, TokenTable, Lineage
  <2> QED
    BY <1>2, <2>1 DEF Minted, TokenIds
<1> SUFFICES ASSUME NEW f \in Minted \cup {n}, SingleLine(f)',
                    NEW t \in InFamily(f)', ~token'[t].used, NEW s \in InFamily(f)'
             PROVE  s <= t
  BY <1>2 DEF LatestOnly
<1>4. CASE f = n
  <2>1. InFamily(n)' = {n}
    BY <1>2, <1>3 DEF InFamily
  <2> QED
    BY <1>2, <1>4, <2>1 DEF TokenIds
<1>5. CASE f \in Minted
  <2>1. InFamily(f)' = InFamily(f)
    BY <1>2, <1>3, <1>5 DEF InFamily
  <2>2. \A r \in InFamily(f) : r \in Minted /\ Children(r)' = Children(r)
    BY <1>2, <1>3 DEF InFamily, Children
  <2>3. SingleLine(f)
    BY <2>1, <2>2 DEF SingleLine
  <2>4. ~token[t].used
    BY <1>2, <1>3, <2>1, <2>2
  <2> QED
    BY <1>5, <2>1, <2>3, <2>4 DEF LatestOnly
<1> QED
  BY <1>4, <1>5

(* The replaced token was the latest, or it is replaced a second time.      *)
LEMMA LatestRotate ==
  ASSUME SessionsInv, LatestOnly, NEW c \in Requests, RotateCommit(c) PROVE LatestOnly'
<1>1. PICK n, p : n = NextToken /\ p = job[c].token
  OBVIOUS
<1>2. /\ p \in Minted /\ p # n
      /\ n \in TokenIds /\ n \notin Minted /\ Minted' = Minted \cup {n}
      /\ token'[n].family = token[p].family /\ token'[n].parent = p
      /\ token'[p].used
      /\ \A t \in TokenIds \ {n} :
           /\ token'[t].family = token[t].family
           /\ token'[t].parent = token[t].parent
           /\ t # p => token'[t].used = token[t].used
  BY <1>1, RotateCommitFacts
<1>3. \A t \in Minted : t \in TokenIds \ {n} /\ token[t].family \in Minted /\ t \in Nat
  BY <1>2 DEF Minted, TokenIds, SessionsInv, TokenTable, Lineage
<1> SUFFICES ASSUME NEW f \in Minted \cup {n}, SingleLine(f)',
                    NEW t \in InFamily(f)', ~token'[t].used, NEW s \in InFamily(f)'
             PROVE  s <= t
  BY <1>2 DEF LatestOnly
<1>4. t \in Minted \cup {n} /\ s \in Minted \cup {n}
      /\ token'[t].family = f /\ token'[s].family = f
  BY <1>2 DEF InFamily
<1>5. InFamily(f) \subseteq InFamily(f)' /\ InFamily(f)' \subseteq InFamily(f) \cup {n}
  BY <1>2, <1>3 DEF InFamily
<1>6. \A r \in Minted : Children(r) \subseteq Children(r)'
  BY <1>2, <1>3 DEF Children
<1>7. f \in Minted
  BY <1>2, <1>3, <1>4
<1>8. SingleLine(f)
  BY <1>5, <1>6 DEF SingleLine, InFamily
<1>9. t = n \/ (t \in InFamily(f) /\ t # p /\ ~token[t].used)
  BY <1>2, <1>3, <1>4, <1>5
<1>10. s = n \/ s \in InFamily(f)
  BY <1>5
<1>11. \A r \in Minted : r <= n
  <2>1. \A r \in Minted : r < n
    BY <1>1, <1>2, NextTokenIsNew DEF SessionsInv
  <2> QED
    BY <1>2, <1>3, <2>1 DEF TokenIds
<1>12. CASE t = n
  BY <1>2, <1>4, <1>11, <1>12 DEF TokenIds
<1>13. CASE t \in InFamily(f) /\ t # p /\ ~token[t].used
  <2>1. \A r \in InFamily(f) : r <= t
    BY <1>7, <1>8, <1>13 DEF LatestOnly
  <2>2. CASE s \in InFamily(f)
    BY <2>1, <2>2
  <2>3. CASE s = n
    <3>1. p \in InFamily(f)
      BY <1>2, <1>4, <2>3 DEF InFamily
    <3>2. ~token[p].used
      <4> SUFFICES ASSUME token[p].used PROVE FALSE
        OBVIOUS
      <4>1. PICK r \in Minted : token[r].parent = p
        BY <1>2 DEF SessionsInv, TokenTable, Lineage
      <4>2. r \in Children(p)' /\ n \in Children(p)' /\ r # n
        BY <1>2, <1>3, <4>1 DEF Children
      <4> QED
        BY <1>5, <3>1, <4>2 DEF SingleLine
    <3>3. t <= p /\ p <= t
      BY <1>7, <1>8, <1>13, <2>1, <3>1, <3>2 DEF LatestOnly
    <3> QED
      BY <1>2, <1>3, <1>13, <3>3 DEF InFamily
  <2> QED
    BY <1>10, <2>2, <2>3
<1> QED
  BY <1>9, <1>12, <1>13

LEMMA LatestRevoked ==
  ASSUME SessionsInv, LatestOnly, NEW F, Revoke(F) PROVE LatestOnly'
<1>1. SessionsTypeOK
  BY DEF SessionsInv
<1>2. LinesStay
  BY <1>1, RevokeFacts DEF LinesStay, Minted
<1> QED
  BY <1>2, LatestKept

LEMMA LatestStep ==
  ASSUME SessionsInv, LatestOnly, [SessionsNext]_sessionVars PROVE LatestOnly'
<1>1. CASE UNCHANGED token
  BY <1>1, LatestKept DEF LinesStay, Minted
<1>2. CASE ExpireToken
  <2>1. LinesStay
    BY <1>2, ExpireTokenFacts DEF LinesStay, Minted, SessionsInv
  <2> QED
    BY <2>1, LatestKept
<1>3. CASE \E F : Revoke(F)
  BY <1>3, LatestRevoked
<1>4. ASSUME NEW c \in Requests, Mint(c) \/ RotateCommit(c) PROVE LatestOnly'
  BY <1>4, LatestMint, LatestRotate
<1>5. \/ UNCHANGED token \/ ExpireToken \/ \E F : Revoke(F)
      \/ \E c \in Requests : Mint(c) \/ RotateCommit(c)
  <2>1. CASE UNCHANGED sessionVars \/ Logout \/ ExpireLink
    BY <2>1 DEF sessionVars, Logout, ExpireLink
  <2>2. CASE \E c \in Requests : RevokeAllSessions(c) \/ SweepFamily(c)
    BY <2>2 DEF RevokeAllSessions, SweepFamily
  <2>3. CASE \E c \in Requests :
               \/ Register(c) \/ ResendVerification(c) \/ ForgotPassword(c) \/ VerifyEmail(c)
               \/ ResetPassword(c) \/ Login(c) \/ LoginWithGoogle(c) \/ Rotate(c)
               \/ GoogleByEmail(c) \/ Stop(c) \/ IssueRetire(c)
    BY <2>3 DEF Register, ResendVerification, ForgotPassword, VerifyEmail, ResetPassword,
                Present, Login, LoginWithGoogle, Rotate, GoogleByEmail, Stop, IssueRetire,
                KeepTables
  <2>4. CASE \E c \in Requests :
               \/ CreateRow(c) \/ IssueCommit(c) \/ Mail(c) \/ Spend(c)
               \/ MarkVerified(c) \/ SetPassword(c) \/ GoogleWrite(c)
    BY <2>4 DEF CreateRow, IssueCommit, Mail, Spend, MarkVerified, SetPassword, GoogleWrite
  <2> QED
    BY <2>1, <2>2, <2>3, <2>4, Zenon DEF SessionsNext
<1> QED
  BY <1>1, <1>2, <1>3, <1>4, <1>5

LEMMA OneWorks ==
  ASSUME SessionsInv, LatestOnly PROVE OneSuccessorLine
<1>1. \A S \in SUBSET Minted : IsFiniteSet(S)
  <2>1. IsFiniteSet(Minted)
    BY FS_Interval, SessionsAssumption DEF SessionsInv, TokenTable
  <2> QED
    BY <2>1, FS_Subset
<1> SUFFICES ASSUME NEW f \in Minted,
                    \A t \in InFamily(f) : Cardinality(Children(t)) <= 1
             PROVE  Cardinality({t \in InFamily(f) : Usable(t)}) <= 1
  BY DEF OneSuccessorLine, InFamily
<1>2. SingleLine(f)
  <2>1. \A t : IsFiniteSet(Children(t))
    BY <1>1 DEF Children
  <2> QED
    BY <2>1, AtMostOne DEF SingleLine
<1>3. PICK S : S = {t \in InFamily(f) : Usable(t)}
  OBVIOUS
<1>4. S \in SUBSET Minted
  BY <1>3 DEF InFamily
<1>5. ASSUME NEW a \in S, NEW b \in S PROVE a = b
  <2>1. a \in Nat /\ b \in Nat
    BY <1>4 DEF Minted, TokenIds
  <2>2. a <= b /\ b <= a
    BY <1>2, <1>3 DEF LatestOnly, Usable
  <2> QED
    BY <2>1, <2>2
<1> QED
  BY <1>1, <1>3, <1>4, <1>5, AtMostOne

(* In a session none of whose tokens was replaced twice at most one token   *)
(* works, however refreshes, replays, sweeps and crashes interleave.        *)
THEOREM SessionIsOneLine == SessionsSpec => []OneSuccessorLine
<1>1. SessionsInit => SessionsInv /\ LatestOnly
  <2>1. SessionsInit => LatestOnly
    BY DEF SessionsInit, LatestOnly, Minted, NoToken
  <2> QED
    BY <2>1, SessionsInitial
<1>2. (SessionsInv /\ LatestOnly) /\ [SessionsNext]_sessionVars => (SessionsInv /\ LatestOnly)'
  BY SessionsStep, LatestStep
<1>3. SessionsInv /\ LatestOnly => OneSuccessorLine
  BY OneWorks
<1> QED
  BY <1>1, <1>2, <1>3, PTL DEF SessionsSpec

-----------------------------------------------------------------------------
(* THE TWO PARTS OF AUTH TOGETHER *)

(* Whatever part a behaviour works, both keep to the values their modules   *)
(* declare: managing the team leaves the sessions at rest, and the other    *)
(* way.                                                                     *)
THEOREM AccountsTyped == Spec => []TypeOK
<1>1. Init => StaffInv /\ SessionsInv
  BY StaffInitial, SessionsInitial DEF Init
<1>2. StaffInv /\ SessionsInv /\ [Next]_vars => StaffInv' /\ SessionsInv'
  <2> SUFFICES ASSUME StaffInv, SessionsInv, [Next]_vars PROVE StaffInv' /\ SessionsInv'
    OBVIOUS
  <2>1. CASE part = "staff" /\ StaffNext /\ UNCHANGED <<part, sessionVars>>
    BY <2>1, StaffStep, SessionsStep
  <2>2. CASE part = "sessions" /\ SessionsNext /\ UNCHANGED <<part, staffVars>>
    BY <2>2, StaffStep, SessionsStep
  <2>3. CASE UNCHANGED vars
    <3>1. UNCHANGED staffVars /\ UNCHANGED sessionVars
      BY <2>3 DEF vars
    <3> QED
      BY <3>1, StaffStep, SessionsStep
  <2> QED
    BY <2>1, <2>2, <2>3 DEF Next
<1>3. StaffInv /\ SessionsInv => TypeOK
  BY DEF StaffInv, SessionsInv, TypeOK
<1> QED
  BY <1>1, <1>2, <1>3, PTL DEF Spec

=============================================================================
