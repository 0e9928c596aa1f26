---------------------------- MODULE Connections ----------------------------
(***************************************************************************)
(* The stores' connections to the marketplaces: the OAuth consent, the row  *)
(* of tenant_integrations it leaves, the access token every call asks for   *)
(* and the renewal of that token under a row lock (integrations/*-auth,     *)
(* *-connector, integrations.service.ts).                                   *)
(*                                                                         *)
(* A token is a number; refreshing gives the next one.  Mercado Livre and   *)
(* Shopee accept a refresh token once, and one presented again costs the    *)
(* seller the whole authorisation; Amazon's answer may leave the refresh    *)
(* token out, and then the old one stays good.                              *)
(***************************************************************************)
EXTENDS Integers, FiniteSets

CONSTANTS
  Connected,   (* the marketplaces of the instance                          *)
  Calls,       (* requests in flight: bounds their overlap                  *)
  MaxGrants,   (* grants the channels ever give: a bound of the model       *)
  Nobody       (* no lock holder                                            *)

ASSUME ConnectionsAssumption ==
  /\ Connected \in SUBSET {"MERCADO_LIVRE", "SHOPEE", "AMAZON"}
  /\ Connected # {}
  /\ MaxGrants \in Nat
  /\ Nobody \notin Calls

VARIABLES
  integration, (* tenant_integrations, one row per channel                  *)
  state,       (* the channels an unexpired signed `state` is out for       *)
  granted,     (* grants given so far, over all channels                    *)
  accepted,    (* the refresh tokens each channel accepts                   *)
  broken,      (* channels that, since their last consent, lost a renewal   *)
               (* to a fault, had one answered late, or lost the seller's   *)
               (* consent                                                   *)
  rowLock,     (* the transaction holding FOR UPDATE on each row            *)
  call         (* what each request in flight is about to do                *)

connectionVars ==
  <<integration, state, granted, accepted, broken, rowLock, call>>

-----------------------------------------------------------------------------
Grants == 0..MaxGrants     (* 0: none *)

IntegrationRows ==
  [status: {"NONE", "ACTIVE", "DISCONNECTED"}, refresh: Grants, fresh: BOOLEAN]

NoIntegration == [status |-> "NONE", refresh |-> 0, fresh |-> FALSE]

CallSteps == {"idle", "consented", "lock", "renew", "late", "store"}

CallStates == [step: CallSteps, channel: Connected, grant: Grants]

NoCall == [step |-> "idle", channel |-> CHOOSE ch \in Connected : TRUE,
           grant |-> 0]

ConnectionsTypeOK ==
  /\ integration \in [Connected -> IntegrationRows]
  /\ state \in SUBSET Connected /\ broken \in SUBSET Connected
  /\ granted \in Grants
  /\ accepted \in [Connected -> SUBSET (Grants \ {0})]
  /\ rowLock \in [Connected -> Calls \cup {Nobody}]
  /\ call \in [Calls -> CallStates]

ConnectionsInit ==
  /\ integration = [ch \in Connected |-> NoIntegration]
  /\ state = {} /\ broken = {}
  /\ granted = 0
  /\ accepted = [ch \in Connected |-> {}]
  /\ rowLock = [ch \in Connected |-> Nobody]
  /\ call = [c \in Calls |-> NoCall]

-----------------------------------------------------------------------------
(* CONSENT *)

NextGrant == granted + 1

SingleUse(ch) == ch \in {"MERCADO_LIVRE", "SHOPEE"}

StepOf(c, step) == c \in Calls /\ call[c].step = step

Hang(c) == call' = [call EXCEPT ![c] = NoCall]

Goes(c, step, ch, grant) ==
  call' = [call EXCEPT ![c] = [step |-> step, channel |-> ch, grant |-> grant]]

KeepChannel == UNCHANGED <<state, granted, accepted, broken>>

(* The seller is sent to the channel with a signed state, good for ten      *)
(* minutes and not bound to one use.                                        *)
IssueState(ch) ==
  /\ ch \notin state
  /\ state' = state \cup {ch}
  /\ UNCHANGED <<integration, granted, accepted, broken, rowLock, call>>

ExpireState(ch) ==
  /\ ch \in state
  /\ state' = state \ {ch}
  /\ UNCHANGED <<integration, granted, accepted, broken, rowLock, call>>

MeliAuthUrl == "MERCADO_LIVRE" \in Connected /\ IssueState("MERCADO_LIVRE")
ShopeeAuthUrl == "SHOPEE" \in Connected /\ IssueState("SHOPEE")
AmazonAuthUrl == "AMAZON" \in Connected /\ IssueState("AMAZON")

(* The callback: a state that is signed and in time, then the code traded   *)
(* for tokens at the channel.  A code that is refused changes nothing.      *)
ExchangeCode(c, ch) ==
  /\ ch \in Connected
  /\ StepOf(c, "idle") /\ ch \in state
  /\ NextGrant \in Grants
  /\ granted' = NextGrant
  /\ accepted' = [accepted EXCEPT ![ch] = @ \cup {NextGrant}]
  /\ Goes(c, "consented", ch, NextGrant)
  /\ UNCHANGED <<integration, state, broken, rowLock>>

MeliCallback(c) == ExchangeCode(c, "MERCADO_LIVRE")
ShopeeCallback(c) == ExchangeCode(c, "SHOPEE")
AmazonCallback(c) == ExchangeCode(c, "AMAZON")

(* The upsert of the row: one statement, which waits for a renewal.         *)
StoreGrant(c) ==
  /\ StepOf(c, "consented")
  /\ LET ch == call[c].channel IN
       /\ rowLock[ch] = Nobody
       /\ integration' = [integration EXCEPT ![ch] =
            [status |-> "ACTIVE", refresh |-> call[c].grant, fresh |-> TRUE]]
       /\ broken' = IF call[c].grant \in accepted[ch] THEN broken \ {ch}
                                                      ELSE broken \cup {ch}
  /\ Hang(c)
  /\ UNCHANGED <<state, granted, accepted, rowLock>>

(* Mutant: a disconnection that does not wait for the row.                  *)
DisconnectAtOnce(ch) ==
  /\ integration[ch].status # "NONE"
  /\ integration' = [integration EXCEPT ![ch] =
       [status |-> "DISCONNECTED", refresh |-> 0, fresh |-> FALSE]]
  /\ KeepChannel
  /\ UNCHANGED <<rowLock, call>>

DisconnectChannel(ch) ==
  /\ integration[ch].status # "NONE" /\ rowLock[ch] = Nobody
  /\ integration' = [integration EXCEPT ![ch] =
       [status |-> "DISCONNECTED", refresh |-> 0, fresh |-> FALSE]]
  /\ KeepChannel
  /\ UNCHANGED <<rowLock, call>>

(* listIntegrations: a channel without a row reads as disconnected.         *)
Listed(ch) ==
  IF integration[ch].status = "NONE" THEN "DISCONNECTED"
                                     ELSE integration[ch].status

-----------------------------------------------------------------------------
(* RENEWAL *)

(* getValidAccessToken reads the row without a lock.  A token with more     *)
(* than five minutes to live is used as it is.                              *)
AskToken(c, ch) ==
  /\ ch \in Connected
  /\ StepOf(c, "idle")
  /\ Listed(ch) = "ACTIVE" /\ ~integration[ch].fresh
  /\ Goes(c, "lock", ch, 0)
  /\ KeepChannel
  /\ UNCHANGED <<integration, rowLock>>

MeliToken(c) == AskToken(c, "MERCADO_LIVRE")
ShopeeToken(c) == AskToken(c, "SHOPEE")
AmazonToken(c) == AskToken(c, "AMAZON")

(* Mutant: no lock, so two renewals may have one token in hand.             *)
LookAtIntegration(c) ==
  /\ StepOf(c, "lock")
  /\ LET row == integration[call[c].channel]
     IN IF row.status = "ACTIVE" /\ ~row.fresh
        THEN Goes(c, "renew", call[c].channel, row.refresh)
        ELSE Hang(c)
  /\ KeepChannel
  /\ UNCHANGED <<integration, rowLock>>

(* SELECT ... FOR UPDATE, and the second look under the lock: a row that    *)
(* was disconnected meanwhile refuses, one renewed meanwhile is used.       *)
LockIntegration(c) ==
  /\ StepOf(c, "lock")
  /\ LET ch == call[c].channel
         row == integration[ch]
     IN /\ rowLock[ch] = Nobody
        /\ IF row.status = "ACTIVE" /\ ~row.fresh
           THEN /\ rowLock' = [rowLock EXCEPT ![ch] = c]
                /\ Goes(c, "renew", ch, row.refresh)
           ELSE /\ Hang(c)
                /\ UNCHANGED rowLock
  /\ KeepChannel
  /\ UNCHANGED integration

(* The channel answers a renewal.  A single-use token it no longer accepts  *)
(* ends the whole authorisation.                                            *)
Answer(c, kept) ==
  LET ch == call[c].channel
      old == call[c].grant
      next == IF kept THEN old ELSE NextGrant
  IN /\ StepOf(c, "renew")
     /\ old \in accepted[ch]
     /\ next \in Grants
     /\ granted' = IF kept THEN granted ELSE NextGrant
     /\ accepted' = [accepted EXCEPT ![ch] =
          (IF SingleUse(ch) THEN @ \ {old} ELSE @) \cup {next}]
     /\ Goes(c, "store", ch, next)
     /\ UNCHANGED <<integration, state, broken, rowLock>>

MeliRenewal(c) == call[c].channel = "MERCADO_LIVRE" /\ Answer(c, FALSE)
ShopeeRenewal(c) == call[c].channel = "SHOPEE" /\ Answer(c, FALSE)
AmazonRenewal(c) == /\ call[c].channel = "AMAZON"
                    /\ \E kept \in BOOLEAN : Answer(c, kept)

(* The transaction ends: its lock is released.                              *)
ReleaseRow(c) ==
  /\ rowLock' = [rowLock EXCEPT ![call[c].channel] = Nobody]
  /\ Hang(c)

RefuseRenewal(c) ==
  LET ch == call[c].channel IN
  /\ StepOf(c, "renew")
  /\ call[c].grant \notin accepted[ch]
  /\ accepted' = IF SingleUse(ch) THEN [accepted EXCEPT ![ch] = {}]
                                  ELSE accepted
  /\ ReleaseRow(c)
  /\ UNCHANGED <<integration, state, granted, broken>>

(* Mutant: the refresh token of the answer is not kept.                     *)
StoreAccessOnly(c) ==
  LET ch == call[c].channel IN
  /\ StepOf(c, "store")
  /\ integration' = [integration EXCEPT ![ch].fresh = TRUE]
  /\ ReleaseRow(c)
  /\ KeepChannel

StoreRenewal(c) ==
  LET ch == call[c].channel IN
  /\ StepOf(c, "store")
  /\ integration' = [integration EXCEPT ![ch] =
       [status |-> "ACTIVE", refresh |-> call[c].grant, fresh |-> TRUE]]
  /\ ReleaseRow(c)
  /\ KeepChannel

-----------------------------------------------------------------------------
(* FAULTS, AND THE OTHERS *)

(* Prisma's five seconds for an interactive transaction run out, or the     *)
(* process dies, with the request on its way: the transaction is rolled     *)
(* back and the row let go, but nobody calls the request back.              *)
TimeOut(c) ==
  /\ StepOf(c, "renew")
  /\ rowLock' = [rowLock EXCEPT ![call[c].channel] = Nobody]
  /\ Goes(c, "late", call[c].channel, call[c].grant)
  /\ KeepChannel
  /\ UNCHANGED integration

(* It reaches the channel all the same.  A single-use token is spent, and   *)
(* the grant given for it reaches nobody (it is left out here); one spent   *)
(* before ends the whole authorisation.  The write of the answer fails, the *)
(* transaction being closed.                                                *)
LateAnswer(c) ==
  LET ch == call[c].channel
      old == call[c].grant
      good == old \in accepted[ch]
  IN /\ StepOf(c, "late")
     /\ IF SingleUse(ch)
        THEN /\ accepted' = [accepted EXCEPT ![ch] = IF good THEN @ \ {old} ELSE {}]
             /\ broken' = IF good /\ integration[ch].refresh # old
                          THEN broken ELSE broken \cup {ch}
        ELSE UNCHANGED <<accepted, broken>>
     /\ Hang(c)
     /\ UNCHANGED <<integration, state, granted, rowLock>>

(* The process dies, the transaction times out where no request is on its   *)
(* way, or a request gets lost before the channel has it: the transaction   *)
(* rolls back, and a grant the channel had already given is nowhere.        *)
LoseCall(c) ==
  LET ch == call[c].channel IN
  /\ ~StepOf(c, "idle")
  /\ rowLock' = [k \in Connected |-> IF rowLock[k] = c THEN Nobody ELSE rowLock[k]]
  /\ broken' = IF StepOf(c, "store") /\ SingleUse(ch) THEN broken \cup {ch}
                                                      ELSE broken
  /\ Hang(c)
  /\ UNCHANGED <<integration, state, granted, accepted>>

(* The access token comes within five minutes of its end.                   *)
AgeToken(ch) ==
  /\ integration[ch].fresh /\ rowLock[ch] = Nobody
  /\ integration' = [integration EXCEPT ![ch].fresh = FALSE]
  /\ KeepChannel
  /\ UNCHANGED <<rowLock, call>>

(* The seller withdraws the consent at the channel.                         *)
WithdrawConsent(ch) ==
  /\ accepted[ch] # {}
  /\ accepted' = [accepted EXCEPT ![ch] = {}]
  /\ broken' = broken \cup {ch}
  /\ UNCHANGED <<integration, state, granted, rowLock, call>>

ConnectionsNext ==
  \/ MeliAuthUrl \/ ShopeeAuthUrl \/ AmazonAuthUrl
  \/ \E c \in Calls :
       \/ MeliCallback(c) \/ ShopeeCallback(c) \/ AmazonCallback(c)
       \/ StoreGrant(c)
       \/ MeliToken(c) \/ ShopeeToken(c) \/ AmazonToken(c)
       \/ LockIntegration(c)
       \/ MeliRenewal(c) \/ ShopeeRenewal(c) \/ AmazonRenewal(c)
       \/ RefuseRenewal(c) \/ StoreRenewal(c)
       \/ TimeOut(c) \/ LateAnswer(c) \/ LoseCall(c)
  \/ \E ch \in Connected : \/ ExpireState(ch) \/ DisconnectChannel(ch)
                           \/ AgeToken(ch) \/ WithdrawConsent(ch)

ConnectionsSpec == ConnectionsInit /\ [][ConnectionsNext]_connectionVars

-----------------------------------------------------------------------------
(* PROPERTIES *)

(* The refresh token that counts for a channel: the one a renewal has in    *)
(* its hands if there is one, else the one in the row.                      *)
Current(ch) ==
  LET holder == rowLock[ch]
  IN IF holder # Nobody /\ StepOf(holder, "store") THEN call[holder].grant
                                                   ELSE integration[ch].refresh

ActiveChannels == {ch \in Connected : integration[ch].status = "ACTIVE"}

HeldGrants == {ch \in ActiveChannels : Current(ch) \in accepted[ch]}

(* However calls, consents and disconnections overlap, a connected channel  *)
(* is one whose current refresh token the channel accepts, unless a renewal *)
(* since the last consent was lost or answered too late, or the seller      *)
(* withdrew: renewals that end in time never spend one token twice (the     *)
(* second look under FOR UPDATE).                                           *)
ConnectedIsUsable == ActiveChannels \subseteq HeldGrants \cup broken

(* A channel that was disconnected comes back by a new consent only: a      *)
(* renewal in flight never revives it (the renewals of Mercado Livre and    *)
(* Shopee write status ACTIVE themselves).                                  *)
DisconnectedStays ==
  [][\A ch \in Connected :
       integration[ch].status = "DISCONNECTED" /\ integration'[ch].status = "ACTIVE"
         => \E c \in Calls : StepOf(c, "consented") /\ call[c].channel = ch
                             /\ call'[c] # call[c]]_connectionVars

(* Not so: no single-use refresh token is ever in the hands of two          *)
(* requests, "prevenindo invalidação indevida da autorização do lojista"    *)
(* (mercadolivre-connector.ts:107-113).  A renewal that outlives its        *)
(* transaction has it still when the next one takes the row.                *)
NeverSpentTwice ==
  \A c, d \in Calls :
    /\ c # d /\ call[c].channel = call[d].channel /\ SingleUse(call[c].channel)
    /\ call[c].step \in {"renew", "late"} /\ call[d].step \in {"renew", "late"}
    => call[c].grant # call[d].grant

(* Rows, locks, tokens and requests together are one grant per channel that *)
(* only consent gives and only disconnection, the seller or a renewal lost  *)
(* or late takes away.                                                      *)
OneGrant == INSTANCE ChannelGrant
              WITH Channels <- Connected, connected <- ActiveChannels,
                   held <- HeldGrants, broken <- broken

GrantImplemented == OneGrant!Spec

=============================================================================
