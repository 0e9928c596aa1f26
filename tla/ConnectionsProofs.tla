-------------------------- MODULE ConnectionsProofs --------------------------
(***************************************************************************)
(* The connections of any number of calls implement ChannelGrant: a         *)
(* connected channel keeps one usable grant, however renewals, consents and *)
(* disconnections overlap.                                                  *)
(***************************************************************************)
EXTENDS Connections, TLAPS

(* What a call knows of the row it holds: the row is connected, and the     *)
(* token it took from it is the one that is still there.                    *)
HeldRow(c) ==
  LET ch == call[c].channel IN
  /\ call[c].step \in {"renew", "store"} =>
       /\ rowLock[ch] = c
       /\ integration[ch].status = "ACTIVE"
  /\ call[c].step = "renew" => call[c].grant = integration[ch].refresh
  /\ call[c].step = "store" =>
       IF SingleUse(ch) THEN integration[ch].refresh \notin accepted[ch]
       ELSE call[c].grant \in accepted[ch] <=> integration[ch].refresh \in accepted[ch]

(* A row is locked by a call that is renewing it.                           *)
LockedRow(ch) ==
  rowLock[ch] # Nobody =>
    /\ call[rowLock[ch]].channel = ch
    /\ call[rowLock[ch]].step \in {"renew", "store"}

(* No token is older than the grants given, so the next one is new.         *)
Given ==
  /\ \A ch \in Connected :
       /\ accepted[ch] \subseteq 1..granted
       /\ integration[ch].refresh <= granted
  /\ \A c \in Calls : call[c].grant <= granted

(* ConnectedIsUsable, channel by channel.                                   *)
Usable(ch) ==
  integration[ch].status = "ACTIVE" => Current(ch) \in accepted[ch] \/ ch \in broken

(* Without the last conjunct, which only late requests need.                *)
HeldInv ==
  /\ ConnectionsTypeOK
  /\ Given
  /\ \A c \in Calls : HeldRow(c)
  /\ \A ch \in Connected : LockedRow(ch) /\ Usable(ch)

(* A late request does not carry the token a renewal has just been given:   *)
(* what it spends is older.                                                 *)
LateApart ==
  \A c, d \in Calls :
    /\ call[c].step = "late" /\ call[d].step = "store"
    /\ call[c].channel = call[d].channel /\ SingleUse(call[c].channel)
    => call[c].grant # call[d].grant

GrantInv == HeldInv /\ LateApart

-----------------------------------------------------------------------------
LEMMA NoCallTyped == NoCall \in CallStates /\ NoCall.step = "idle" /\ NoCall.grant = 0
BY ConnectionsAssumption DEF NoCall, CallStates, CallSteps, Grants

LEMMA ConnectionsInitial == ConnectionsInit => GrantInv
<1> SUFFICES ASSUME ConnectionsInit PROVE GrantInv
  OBVIOUS
<1> USE ConnectionsAssumption DEF ConnectionsInit
<1>1. NoIntegration \in IntegrationRows
  BY DEF NoIntegration, IntegrationRows, Grants
<1>2. ConnectionsTypeOK
  BY <1>1, NoCallTyped DEF ConnectionsTypeOK, Grants
<1>3. Given
  BY NoCallTyped DEF Given, NoIntegration
<1>4. \A c \in Calls : HeldRow(c)
  BY NoCallTyped DEF HeldRow
<1>5. \A ch \in Connected : LockedRow(ch) /\ Usable(ch)
  BY DEF LockedRow, Usable, NoIntegration
<1>6. LateApart
  BY NoCallTyped DEF LateApart
<1> QED
  BY <1>2, <1>3, <1>4, <1>5, <1>6 DEF GrantInv, HeldInv

LEMMA ExchangeCodeStep ==
  ASSUME GrantInv, NEW c \in Calls, NEW ch \in Connected, ExchangeCode(c, ch)
  PROVE  HeldInv'
<1> USE ConnectionsAssumption, NoCallTyped DEF GrantInv, HeldInv, ExchangeCode, StepOf, NextGrant, Goes
<1>1. ConnectionsTypeOK'
  BY DEF ConnectionsTypeOK, IntegrationRows, CallStates, CallSteps, Grants
<1>2. Given'
  BY DEF Given, ConnectionsTypeOK, IntegrationRows, CallStates, CallSteps, Grants
<1>3. ASSUME NEW d \in Calls PROVE HeldRow(d)'
  BY DEF HeldRow, Given, LockedRow, ConnectionsTypeOK, IntegrationRows, CallStates, CallSteps, Grants
<1>4. ASSUME NEW k \in Connected PROVE LockedRow(k)'
  BY DEF LockedRow, HeldRow, ConnectionsTypeOK, IntegrationRows, CallStates, CallSteps, Grants
<1>5. ASSUME NEW k \in Connected PROVE Usable(k)'
  BY DEF Usable, Current, StepOf, HeldRow, LockedRow, Given, ConnectionsTypeOK, IntegrationRows, CallStates, CallSteps, Grants
<1> QED
  BY <1>1, <1>2, <1>3, <1>4, <1>5

LEMMA StoreGrantStep ==
  ASSUME GrantInv, NEW c \in Calls, StoreGrant(c)
  PROVE  HeldInv'
<1> USE ConnectionsAssumption, NoCallTyped DEF GrantInv, HeldInv, StoreGrant, StepOf, Hang
<1>1. ConnectionsTypeOK'
  <2>1. call[c].channel \in Connected /\ call[c].grant \in Grants
    BY DEF ConnectionsTypeOK, CallStates
  <2>2. call' \in [Calls -> CallStates]
    BY DEF ConnectionsTypeOK
  <2>3. integration' \in [Connected -> IntegrationRows]
    <3>1. [status |-> "ACTIVE", refresh |-> call[c].grant, fresh |-> TRUE] \in IntegrationRows
      BY <2>1 DEF IntegrationRows
    <3> QED
      BY <2>1, <3>1 DEF ConnectionsTypeOK
  <2>4. broken' \in SUBSET Connected
    BY <2>1 DEF ConnectionsTypeOK
  <2> QED
    BY <2>2, <2>3, <2>4 DEF ConnectionsTypeOK
<1>2. Given'
  BY DEF Given, ConnectionsTypeOK, IntegrationRows, CallStates, CallSteps, Grants
<1>3. ASSUME NEW d \in Calls PROVE HeldRow(d)'
  BY DEF HeldRow, Given, LockedRow, ConnectionsTypeOK, IntegrationRows, CallStates, CallSteps, Grants
<1>4. ASSUME NEW k \in Connected PROVE LockedRow(k)'
  BY DEF LockedRow, HeldRow, ConnectionsTypeOK, IntegrationRows, CallStates, CallSteps, Grants
<1>5. ASSUME NEW k \in Connected PROVE Usable(k)'
  BY DEF Usable, Current, StepOf, HeldRow, LockedRow, Given, ConnectionsTypeOK, IntegrationRows, CallStates, CallSteps, Grants
<1> QED
  BY <1>1, <1>2, <1>3, <1>4, <1>5

LEMMA DisconnectStep ==
  ASSUME GrantInv, NEW ch \in Connected, DisconnectChannel(ch)
  PROVE  HeldInv'
<1> USE ConnectionsAssumption, NoCallTyped DEF GrantInv, HeldInv, DisconnectChannel, KeepChannel
<1>1. ConnectionsTypeOK'
  BY DEF ConnectionsTypeOK, IntegrationRows, CallStates, CallSteps, Grants
<1>2. Given'
  BY DEF Given, ConnectionsTypeOK, IntegrationRows, CallStates, CallSteps, Grants
<1>3. ASSUME NEW d \in Calls PROVE HeldRow(d)'
  BY DEF HeldRow, Given, LockedRow, ConnectionsTypeOK, IntegrationRows, CallStates, CallSteps, Grants
<1>4. ASSUME NEW k \in Connected PROVE LockedRow(k)'
  BY DEF LockedRow, HeldRow, ConnectionsTypeOK, IntegrationRows, CallStates, CallSteps, Grants
<1>5. ASSUME NEW k \in Connected PROVE Usable(k)'
  BY DEF Usable, Current, StepOf, HeldRow, LockedRow, Given, ConnectionsTypeOK, IntegrationRows, CallStates, CallSteps, Grants
<1> QED
  BY <1>1, <1>2, <1>3, <1>4, <1>5

LEMMA AskTokenStep ==
  ASSUME GrantInv, NEW c \in Calls, NEW ch \in Connected, AskToken(c, ch)
  PROVE  HeldInv'
<1> USE ConnectionsAssumption, NoCallTyped DEF GrantInv, HeldInv, AskToken, StepOf, KeepChannel, Goes
<1>1. ConnectionsTypeOK'
  BY DEF ConnectionsTypeOK, IntegrationRows, CallStates, CallSteps, Grants
<1>2. Given'
  BY DEF Given, ConnectionsTypeOK, IntegrationRows, CallStates, CallSteps, Grants
<1>3. ASSUME NEW d \in Calls PROVE HeldRow(d)'
  BY DEF HeldRow, Given, LockedRow, ConnectionsTypeOK, IntegrationRows, CallStates, CallSteps, Grants
<1>4. ASSUME NEW k \in Connected PROVE LockedRow(k)'
  BY DEF LockedRow, HeldRow, ConnectionsTypeOK, IntegrationRows, CallStates, CallSteps, Grants
<1>5. ASSUME NEW k \in Connected PROVE Usable(k)'
  BY DEF Usable, Current, StepOf, HeldRow, LockedRow, Given, ConnectionsTypeOK, IntegrationRows, CallStates, CallSteps, Grants
<1> QED
  BY <1>1, <1>2, <1>3, <1>4, <1>5

LEMMA LockIntegrationStep ==
  ASSUME GrantInv, NEW c \in Calls, LockIntegration(c)
  PROVE  HeldInv'
<1> USE ConnectionsAssumption, NoCallTyped
<1>1. PICK ch \in Connected :
        /\ call[c].channel = ch
        /\ call[c].step = "lock" /\ rowLock[ch] = Nobody
        /\ UNCHANGED <<integration, state, granted, accepted, broken>>
        /\ \/ /\ integration[ch].status = "ACTIVE"
              /\ rowLock' = [rowLock EXCEPT ![ch] = c]
              /\ Goes(c, "renew", ch, integration[ch].refresh)
           \/ Hang(c) /\ UNCHANGED rowLock
  BY DEF LockIntegration, StepOf, KeepChannel, GrantInv, HeldInv, ConnectionsTypeOK, CallStates
<1>2. /\ integration[ch] \in IntegrationRows /\ integration[ch].refresh \in Grants
      /\ integration[ch].refresh <= granted
  BY DEF GrantInv, HeldInv, Given, ConnectionsTypeOK, IntegrationRows
<1>3. ConnectionsTypeOK'
  BY <1>1, <1>2 DEF GrantInv, HeldInv, Goes, Hang, ConnectionsTypeOK, CallStates, CallSteps
<1>4. Given'
  BY <1>1, <1>2 DEF GrantInv, HeldInv, Given, Goes, Hang, ConnectionsTypeOK, Grants
<1>5. ASSUME NEW k \in Connected PROVE rowLock[k] # c
  <2> SUFFICES ASSUME rowLock[k] = c PROVE FALSE
    OBVIOUS
  <2>1. LockedRow(k)
    BY DEF GrantInv, HeldInv
  <2>2. rowLock[k] # Nobody
    OBVIOUS
  <2>3. call[c].step \in {"renew", "store"}
    BY <2>1, <2>2 DEF LockedRow
  <2> QED
    BY <1>1, <2>3
<1>6. ASSUME NEW d \in Calls PROVE HeldRow(d)'
  <2>1. CASE d = c
    BY <1>1, <1>2, <2>1 DEF GrantInv, HeldInv, HeldRow, Goes, Hang, ConnectionsTypeOK
  <2>2. CASE d # c
    <3>1. call'[d] = call[d]
      BY <1>1, <2>2 DEF GrantInv, HeldInv, Goes, Hang, ConnectionsTypeOK
    <3>2. call[d].step \in {"renew", "store"} => call[d].channel # ch
      BY <1>1 DEF GrantInv, HeldInv, HeldRow
    <3>3. \A k \in Connected \ {ch} : rowLock'[k] = rowLock[k]
      BY <1>1 DEF GrantInv, HeldInv, ConnectionsTypeOK
    <3>4. call[d].channel \in Connected
      BY DEF GrantInv, HeldInv, ConnectionsTypeOK, CallStates
    <3>5. HeldRow(d)
      BY DEF GrantInv, HeldInv
    <3>6. call[d].step \in {"renew", "store"}
            => rowLock'[call[d].channel] = rowLock[call[d].channel]
      BY <3>2, <3>3, <3>4
    <3> QED
      BY <1>1, <3>1, <3>5, <3>6 DEF HeldRow, SingleUse
  <2> QED
    BY <2>1, <2>2
<1>7. ASSUME NEW k \in Connected PROVE LockedRow(k)'
  BY <1>1, <1>5 DEF GrantInv, HeldInv, LockedRow, Goes, Hang, ConnectionsTypeOK
<1>8. ASSUME NEW k \in Connected PROVE Usable(k)'
  BY <1>1, <1>5 DEF GrantInv, HeldInv, Usable, Current, StepOf, LockedRow, Goes, Hang, ConnectionsTypeOK
<1> QED
  BY <1>3, <1>4, <1>6, <1>7, <1>8 DEF GrantInv, HeldInv

LEMMA AnswerStep ==
  ASSUME GrantInv, NEW c \in Calls, NEW kept \in BOOLEAN, Answer(c, kept),
         kept => ~SingleUse(call[c].channel)
  PROVE  HeldInv'
<1> USE ConnectionsAssumption
<1>1. PICK ch \in Connected, old \in Grants, next \in Grants :
        /\ call[c].channel = ch /\ call[c].grant = old
        /\ next = IF kept THEN old ELSE NextGrant
  BY DEF Answer, GrantInv, HeldInv, ConnectionsTypeOK, CallStates
<1>2. /\ call[c].step = "renew" /\ old \in accepted[ch]
      /\ rowLock[ch] = c
      /\ integration[ch].refresh = old
  BY <1>1 DEF Answer, StepOf, GrantInv, HeldInv, HeldRow
<1>3. /\ call' = [call EXCEPT ![c] = [step |-> "store", channel |-> ch, grant |-> next]]
      /\ granted' = (IF kept THEN granted ELSE NextGrant)
      /\ accepted' = [accepted EXCEPT ![ch] =
           (IF SingleUse(ch) THEN accepted[ch] \ {old} ELSE accepted[ch]) \cup {next}]
      /\ UNCHANGED <<integration, state, broken, rowLock>>
  BY <1>1 DEF Answer, Goes
<1>4. /\ granted \in Nat /\ granted' \in Grants
      /\ old \in 1..granted /\ next \in 1..granted' /\ granted <= granted'
      /\ SingleUse(ch) => next # old
  BY <1>1, <1>2, <1>3 DEF NextGrant, GrantInv, HeldInv, Given, ConnectionsTypeOK, Grants
<1>5. /\ call'[c] = [step |-> "store", channel |-> ch, grant |-> next]
      /\ \A d \in Calls \ {c} : call'[d] = call[d]
      /\ \A k \in Connected \ {ch} : accepted'[k] = accepted[k]
      /\ next \in accepted'[ch]
      /\ IF SingleUse(ch) THEN old \notin accepted'[ch] ELSE old \in accepted'[ch]
  BY <1>2, <1>3, <1>4 DEF GrantInv, HeldInv, ConnectionsTypeOK
<1>6. ASSUME NEW k \in Connected, rowLock[k] = c PROVE k = ch
  BY <1>1, <1>6 DEF GrantInv, HeldInv, LockedRow
<1>7. ConnectionsTypeOK'
  BY <1>3, <1>4 DEF GrantInv, HeldInv, ConnectionsTypeOK, CallStates, CallSteps, Grants
<1>8. Given'
  <2>1. ASSUME NEW k \in Connected
        PROVE  accepted'[k] \subseteq 1..granted' /\ integration'[k].refresh <= granted'
    <3>1. accepted[k] \subseteq 1..granted /\ integration[k].refresh \in Nat
          /\ integration[k].refresh <= granted
      BY DEF GrantInv, HeldInv, Given, ConnectionsTypeOK, IntegrationRows, Grants
    <3>2. accepted'[k] \subseteq accepted[k] \cup {next}
      BY <1>3 DEF GrantInv, HeldInv, ConnectionsTypeOK
    <3>3. granted' \in Nat
      BY <1>4 DEF Grants
    <3> QED
      BY <1>3, <1>4, <3>1, <3>2, <3>3
  <2>2. ASSUME NEW d \in Calls PROVE call'[d].grant <= granted'
    <3>1. call[d].grant \in Nat /\ call[d].grant <= granted /\ granted' \in Nat
      BY <1>4 DEF GrantInv, HeldInv, Given, ConnectionsTypeOK, CallStates, Grants
    <3> QED
      BY <1>4, <1>5, <3>1
  <2> QED
    BY <2>1, <2>2 DEF Given
<1>9. ASSUME NEW d \in Calls PROVE HeldRow(d)'
  <2>1. CASE d = c
    <3>1. /\ call'[d].channel = ch /\ call'[d].step = "store" /\ call'[d].grant = next
          /\ rowLock'[ch] = d
          /\ integration'[ch].status = "ACTIVE" /\ integration'[ch].refresh = old
      BY <1>1, <1>2, <1>3, <1>5, <2>1 DEF HeldRow, GrantInv, HeldInv
    <3> QED
      BY <1>5, <3>1 DEF HeldRow, SingleUse
  <2>2. CASE d # c
    <3>1. call'[d] = call[d] /\ call[d].channel \in Connected
      BY <1>5, <2>2 DEF GrantInv, HeldInv, ConnectionsTypeOK, CallStates
    <3>2. call[d].step \in {"renew", "store"} => call[d].channel # ch
      BY <1>2, <2>2 DEF HeldRow, GrantInv, HeldInv
    <3> QED
      BY <1>3, <1>5, <3>1, <3>2 DEF HeldRow, GrantInv, HeldInv, SingleUse
  <2> QED
    BY <2>1, <2>2
<1>10. ASSUME NEW k \in Connected PROVE LockedRow(k)'
  BY <1>3, <1>5, <1>6 DEF GrantInv, HeldInv, LockedRow, ConnectionsTypeOK
<1>11. ASSUME NEW k \in Connected PROVE Usable(k)'
  <2>1. CASE k = ch
    BY <1>2, <1>3, <1>5, <2>1 DEF Usable, Current, StepOf
  <2>2. CASE k # ch
    BY <1>3, <1>5, <1>6, <2>2 DEF GrantInv, HeldInv, Usable, Current, StepOf, ConnectionsTypeOK
  <2> QED
    BY <2>1, <2>2
<1> QED
  BY <1>7, <1>8, <1>9, <1>10, <1>11 DEF GrantInv, HeldInv

LEMMA RefuseRenewalStep ==
  ASSUME GrantInv, NEW c \in Calls, RefuseRenewal(c)
  PROVE  HeldInv'
<1> USE ConnectionsAssumption, NoCallTyped DEF GrantInv, HeldInv, RefuseRenewal, ReleaseRow, StepOf, Hang, SingleUse
<1>1. ConnectionsTypeOK'
  <2>1. call[c].channel \in Connected /\ call[c].grant \in Grants
    BY DEF ConnectionsTypeOK, CallStates
  <2>2. call' \in [Calls -> CallStates]
    BY DEF ConnectionsTypeOK
  <2>3. rowLock' \in [Connected -> Calls \cup {Nobody}]
    BY DEF ConnectionsTypeOK
  <2>4. accepted' \in [Connected -> SUBSET (Grants \ {0})]
    BY DEF ConnectionsTypeOK
  <2> QED
    BY <2>1, <2>2, <2>3, <2>4 DEF ConnectionsTypeOK
<1>2. Given'
  BY DEF Given, ConnectionsTypeOK, IntegrationRows, CallStates, CallSteps, Grants
<1>3. ASSUME NEW d \in Calls PROVE HeldRow(d)'
  BY DEF HeldRow, Given, LockedRow, ConnectionsTypeOK, IntegrationRows, CallStates, CallSteps, Grants
<1>4. ASSUME NEW k \in Connected PROVE LockedRow(k)'
  BY DEF LockedRow, HeldRow, ConnectionsTypeOK, IntegrationRows, CallStates, CallSteps, Grants
<1>5. ASSUME NEW k \in Connected PROVE Usable(k)'
  BY DEF Usable, Current, StepOf, HeldRow, LockedRow, Given, ConnectionsTypeOK, IntegrationRows, CallStates, CallSteps, Grants
<1> QED
  BY <1>1, <1>2, <1>3, <1>4, <1>5

LEMMA StoreRenewalStep ==
  ASSUME GrantInv, NEW c \in Calls, StoreRenewal(c)
  PROVE  HeldInv'
<1> USE ConnectionsAssumption, NoCallTyped DEF GrantInv, HeldInv, StoreRenewal, ReleaseRow, StepOf, Hang, KeepChannel
<1>1. ConnectionsTypeOK'
  BY DEF ConnectionsTypeOK, IntegrationRows, CallStates, CallSteps, Grants
<1>2. Given'
  BY DEF Given, ConnectionsTypeOK, IntegrationRows, CallStates, CallSteps, Grants
<1>3. ASSUME NEW d \in Calls PROVE HeldRow(d)'
  BY DEF HeldRow, Given, LockedRow, ConnectionsTypeOK, IntegrationRows, CallStates, CallSteps, Grants
<1>4. ASSUME NEW k \in Connected PROVE LockedRow(k)'
  BY DEF LockedRow, HeldRow, ConnectionsTypeOK, IntegrationRows, CallStates, CallSteps, Grants
<1>5. ASSUME NEW k \in Connected PROVE Usable(k)'
  BY DEF Usable, Current, StepOf, HeldRow, LockedRow, Given, ConnectionsTypeOK, IntegrationRows, CallStates, CallSteps, Grants
<1> QED
  BY <1>1, <1>2, <1>3, <1>4, <1>5

LEMMA LoseCallStep ==
  ASSUME GrantInv, NEW c \in Calls, LoseCall(c)
  PROVE  HeldInv'
<1> USE ConnectionsAssumption, NoCallTyped DEF GrantInv, HeldInv, LoseCall, StepOf, Hang, SingleUse
<1>1. ConnectionsTypeOK'
  <2>1. call[c].channel \in Connected /\ call[c].grant \in Grants
    BY DEF ConnectionsTypeOK, CallStates
  <2>2. call' \in [Calls -> CallStates]
    BY DEF ConnectionsTypeOK
  <2>3. rowLock' \in [Connected -> Calls \cup {Nobody}]
    BY DEF ConnectionsTypeOK
  <2> QED
    BY <2>1, <2>2, <2>3 DEF ConnectionsTypeOK
<1>2. Given'
  BY DEF Given, ConnectionsTypeOK, IntegrationRows, CallStates, CallSteps, Grants
<1>3. ASSUME NEW d \in Calls PROVE HeldRow(d)'
  BY DEF HeldRow, Given, LockedRow, ConnectionsTypeOK, IntegrationRows, CallStates, CallSteps, Grants
<1>4. ASSUME NEW k \in Connected PROVE LockedRow(k)'
  BY DEF LockedRow, HeldRow, ConnectionsTypeOK, IntegrationRows, CallStates, CallSteps, Grants
<1>5. ASSUME NEW k \in Connected PROVE Usable(k)'
  BY DEF Usable, Current, StepOf, HeldRow, LockedRow, Given, ConnectionsTypeOK, IntegrationRows, CallStates, CallSteps, Grants
<1> QED
  BY <1>1, <1>2, <1>3, <1>4, <1>5

LEMMA TimeOutStep ==
  ASSUME GrantInv, NEW c \in Calls, TimeOut(c)
  PROVE  HeldInv'
<1> USE ConnectionsAssumption DEF GrantInv, HeldInv, TimeOut, StepOf, KeepChannel, Goes
<1>1. ConnectionsTypeOK'
  BY DEF ConnectionsTypeOK, CallStates, CallSteps
<1>2. Given'
  BY DEF Given, ConnectionsTypeOK, CallStates
<1>3. ASSUME NEW d \in Calls PROVE HeldRow(d)'
  BY DEF HeldRow, LockedRow, ConnectionsTypeOK, CallStates, SingleUse
<1>4. ASSUME NEW k \in Connected PROVE LockedRow(k)'
  BY DEF LockedRow, HeldRow, ConnectionsTypeOK, CallStates
<1>5. ASSUME NEW k \in Connected PROVE Usable(k)'
  BY DEF Usable, Current, HeldRow, LockedRow, ConnectionsTypeOK, CallStates
<1> QED
  BY <1>1, <1>2, <1>3, <1>4, <1>5

(* What a late request changes: tokens of its channel, never more of them,  *)
(* and the current one only of a channel it breaks.                         *)
LEMMA LateAnswerDoes ==
  ASSUME GrantInv, NEW c \in Calls, LateAnswer(c)
  PROVE  \E ch \in Connected :
           /\ call[c].step = "late" /\ call[c].channel = ch
           /\ accepted'[ch] \subseteq accepted[ch]
           /\ \A k \in Connected \ {ch} : accepted'[k] = accepted[k]
           /\ ~SingleUse(ch) => accepted' = accepted
           /\ \/ broken' = broken \cup {ch} /\ Current(ch) \notin accepted'[ch]
              \/ /\ broken' = broken
                 /\ Current(ch) \in accepted'[ch] <=> Current(ch) \in accepted[ch]
           /\ accepted' \in [Connected -> SUBSET (Grants \ {0})]
           /\ UNCHANGED <<integration, state, granted, rowLock>>
           /\ call' = [call EXCEPT ![c] = NoCall]
<1> DEFINE ch == call[c].channel
           old == call[c].grant
<1>1. ch \in Connected /\ call[c].step = "late"
  BY DEF LateAnswer, StepOf, GrantInv, HeldInv, ConnectionsTypeOK, CallStates
<1>2. /\ UNCHANGED <<integration, state, granted, rowLock>>
      /\ call' = [call EXCEPT ![c] = NoCall]
  BY DEF LateAnswer, Hang
<1>3. accepted \in [Connected -> SUBSET (Grants \ {0})] /\ broken \in SUBSET Connected
  BY DEF GrantInv, HeldInv, ConnectionsTypeOK
<1>4. CASE ~SingleUse(ch)
  <2>1. UNCHANGED <<accepted, broken>>
    BY <1>4 DEF LateAnswer
  <2> QED
    BY <1>1, <1>2, <1>3, <2>1
<1>5. CASE SingleUse(ch) /\ old \in accepted[ch] /\ integration[ch].refresh # old
  <2>1. accepted' = [accepted EXCEPT ![ch] = accepted[ch] \ {old}] /\ broken' = broken
    BY <1>5 DEF LateAnswer
  <2>2. Current(ch) # old
    <3>1. CASE rowLock[ch] # Nobody /\ StepOf(rowLock[ch], "store")
      <4>1. call[rowLock[ch]].channel = ch /\ rowLock[ch] \in Calls
        BY <1>1, <3>1 DEF GrantInv, HeldInv, LockedRow, StepOf
      <4>2. call[rowLock[ch]].grant # old
        BY <1>1, <1>5, <3>1, <4>1 DEF GrantInv, LateApart, StepOf
      <4> QED
        BY <3>1, <4>2 DEF Current
    <3>2. CASE ~(rowLock[ch] # Nobody /\ StepOf(rowLock[ch], "store"))
      BY <1>5, <3>2 DEF Current
    <3> QED
      BY <3>1, <3>2
  <2>3. /\ accepted'[ch] = accepted[ch] \ {old}
        /\ \A k \in Connected \ {ch} : accepted'[k] = accepted[k]
        /\ accepted' \in [Connected -> SUBSET (Grants \ {0})]
    BY <1>1, <1>3, <2>1
  <2> QED
    BY <1>1, <1>2, <1>5, <2>1, <2>2, <2>3
<1>6. CASE SingleUse(ch) /\ (old \notin accepted[ch] \/ integration[ch].refresh = old)
  <2>1. /\ accepted' = [accepted EXCEPT ![ch] =
             IF old \in accepted[ch] THEN accepted[ch] \ {old} ELSE {}]
        /\ broken' = broken \cup {ch}
    BY <1>6 DEF LateAnswer
  <2>2. /\ accepted'[ch] = IF old \in accepted[ch] THEN accepted[ch] \ {old} ELSE {}
        /\ \A k \in Connected \ {ch} : accepted'[k] = accepted[k]
        /\ accepted' \in [Connected -> SUBSET (Grants \ {0})]
    BY <1>1, <1>3, <2>1
  <2>3. Current(ch) \notin accepted'[ch]
    <3>1. CASE rowLock[ch] # Nobody /\ StepOf(rowLock[ch], "store")
      <4>1. rowLock[ch] \in Calls /\ call[rowLock[ch]].channel = ch
        BY <1>1, <3>1 DEF GrantInv, HeldInv, LockedRow, StepOf
      <4>2. integration[ch].refresh \notin accepted[ch]
        BY <1>6, <3>1, <4>1 DEF GrantInv, HeldInv, HeldRow, StepOf
      <4> QED
        BY <1>6, <2>2, <4>2
    <3>2. CASE ~(rowLock[ch] # Nobody /\ StepOf(rowLock[ch], "store"))
      BY <1>6, <2>2, <3>2 DEF Current
    <3> QED
      BY <3>1, <3>2
  <2> QED
    BY <1>1, <1>2, <1>6, <2>1, <2>2, <2>3
<1> QED
  BY <1>4, <1>5, <1>6

LEMMA LateAnswerStep ==
  ASSUME GrantInv, NEW c \in Calls, LateAnswer(c)
  PROVE  HeldInv'
<1>1. PICK ch \in Connected :
           /\ call[c].step = "late" /\ call[c].channel = ch
           /\ accepted'[ch] \subseteq accepted[ch]
           /\ \A k \in Connected \ {ch} : accepted'[k] = accepted[k]
           /\ ~SingleUse(ch) => accepted' = accepted
           /\ \/ broken' = broken \cup {ch} /\ Current(ch) \notin accepted'[ch]
              \/ /\ broken' = broken
                 /\ Current(ch) \in accepted'[ch] <=> Current(ch) \in accepted[ch]
           /\ accepted' \in [Connected -> SUBSET (Grants \ {0})]
           /\ UNCHANGED <<integration, state, granted, rowLock>>
           /\ call' = [call EXCEPT ![c] = NoCall]
  BY LateAnswerDoes
<1>2. ConnectionsTypeOK'
  BY <1>1, NoCallTyped DEF GrantInv, HeldInv, ConnectionsTypeOK
<1>3. Given'
  <2>1. \A k \in Connected : accepted'[k] \subseteq accepted[k]
    BY <1>1
  <2>2. \A d \in Calls : call'[d].grant <= granted'
    BY <1>1, NoCallTyped DEF GrantInv, HeldInv, Given, ConnectionsTypeOK, Grants
  <2> QED
    BY <1>1, <2>1, <2>2 DEF GrantInv, HeldInv, Given
<1>4. ASSUME NEW d \in Calls PROVE HeldRow(d)'
  <2>1. CASE d = c
    BY <1>1, <2>1, NoCallTyped DEF HeldRow, GrantInv, HeldInv, ConnectionsTypeOK
  <2>2. CASE d # c
    <3>1. call'[d] = call[d] /\ call[d].channel \in Connected
      BY <1>1, <2>2 DEF GrantInv, HeldInv, ConnectionsTypeOK, CallStates
    <3>2. HeldRow(d)
      BY DEF GrantInv, HeldInv
    <3>3. CASE SingleUse(call[d].channel)
      <4>1. accepted'[call[d].channel] \subseteq accepted[call[d].channel]
        BY <1>1, <3>1
      <4> QED
        BY <1>1, <3>1, <3>2, <3>3, <4>1 DEF HeldRow, SingleUse
    <3>4. CASE ~SingleUse(call[d].channel)
      <4>1. accepted'[call[d].channel] = accepted[call[d].channel]
        BY <1>1, <3>1, <3>4
      <4> QED
        BY <1>1, <3>1, <3>2, <3>4, <4>1 DEF HeldRow, SingleUse
    <3> QED
      BY <3>3, <3>4
  <2> QED
    BY <2>1, <2>2
<1>5. ASSUME NEW k \in Connected, rowLock[k] # Nobody
      PROVE  rowLock[k] \in Calls \ {c} /\ call'[rowLock[k]] = call[rowLock[k]]
  <2>1. rowLock[k] \in Calls /\ call[rowLock[k]].step \in {"renew", "store"}
    BY <1>5 DEF GrantInv, HeldInv, LockedRow, ConnectionsTypeOK
  <2> QED
    BY <1>1, <2>1 DEF GrantInv, HeldInv, ConnectionsTypeOK
<1>6. ASSUME NEW k \in Connected PROVE LockedRow(k)'
  BY <1>1, <1>5 DEF GrantInv, HeldInv, LockedRow
<1>7. ASSUME NEW k \in Connected PROVE Usable(k)'
  <2>1. Current(k)' = Current(k)
    BY <1>1, <1>5 DEF Current, StepOf
  <2>2. Usable(k)
    BY DEF GrantInv, HeldInv
  <2>3. \/ k \in broken'
        \/ k \notin broken /\ (Current(k) \in accepted'[k] <=> Current(k) \in accepted[k])
    BY <1>1
  <2> QED
    BY <1>1, <2>1, <2>2, <2>3 DEF Usable
<1> QED
  BY <1>2, <1>3, <1>4, <1>6, <1>7 DEF HeldInv

LEMMA AgeTokenStep ==
  ASSUME GrantInv, NEW ch \in Connected, AgeToken(ch)
  PROVE  HeldInv'
<1> USE ConnectionsAssumption, NoCallTyped DEF GrantInv, HeldInv, AgeToken, KeepChannel
<1>1. ConnectionsTypeOK'
  <2>0. integration[ch] \in IntegrationRows
    BY DEF ConnectionsTypeOK
  <2>1. [integration[ch] EXCEPT !.fresh = FALSE] \in IntegrationRows
    BY <2>0 DEF IntegrationRows
  <2>2. integration' = [integration EXCEPT ![ch] = [integration[ch] EXCEPT !.fresh = FALSE]]
    OBVIOUS
  <2> QED
    BY <2>1, <2>2 DEF ConnectionsTypeOK
<1>2. Given'
  BY DEF Given, ConnectionsTypeOK, IntegrationRows, CallStates, CallSteps, Grants
<1>3. ASSUME NEW d \in Calls PROVE HeldRow(d)'
  BY DEF HeldRow, Given, LockedRow, ConnectionsTypeOK, IntegrationRows, CallStates, CallSteps, Grants
<1>4. ASSUME NEW k \in Connected PROVE LockedRow(k)'
  BY DEF LockedRow, HeldRow, ConnectionsTypeOK, IntegrationRows, CallStates, CallSteps, Grants
<1>5. ASSUME NEW k \in Connected PROVE Usable(k)'
  BY DEF Usable, Current, StepOf, HeldRow, LockedRow, Given, ConnectionsTypeOK, IntegrationRows, CallStates, CallSteps, Grants
<1> QED
  BY <1>1, <1>2, <1>3, <1>4, <1>5

LEMMA WithdrawConsentStep ==
  ASSUME GrantInv, NEW ch \in Connected, WithdrawConsent(ch)
  PROVE  HeldInv'
<1> USE ConnectionsAssumption, NoCallTyped DEF GrantInv, HeldInv, WithdrawConsent
<1>1. ConnectionsTypeOK'
  BY DEF ConnectionsTypeOK, IntegrationRows, CallStates, CallSteps, Grants
<1>2. Given'
  BY DEF Given, ConnectionsTypeOK, IntegrationRows, CallStates, CallSteps, Grants
<1>3. ASSUME NEW d \in Calls PROVE HeldRow(d)'
  BY DEF HeldRow, Given, LockedRow, ConnectionsTypeOK, IntegrationRows, CallStates, CallSteps, Grants
<1>4. ASSUME NEW k \in Connected PROVE LockedRow(k)'
  BY DEF LockedRow, HeldRow, ConnectionsTypeOK, IntegrationRows, CallStates, CallSteps, Grants
<1>5. ASSUME NEW k \in Connected PROVE Usable(k)'
  BY DEF Usable, Current, StepOf, HeldRow, LockedRow, Given, ConnectionsTypeOK, IntegrationRows, CallStates, CallSteps, Grants
<1> QED
  BY <1>1, <1>2, <1>3, <1>4, <1>5


-----------------------------------------------------------------------------
(* THE INVARIANT *)

LEMMA UnchangedStep == ASSUME GrantInv, UNCHANGED connectionVars PROVE GrantInv'
<1> USE DEF connectionVars
<1>1. ConnectionsTypeOK' /\ Given'
  BY DEF GrantInv, HeldInv, ConnectionsTypeOK, Given
<1>2. ASSUME NEW d \in Calls PROVE HeldRow(d)'
  BY DEF GrantInv, HeldInv, HeldRow, SingleUse
<1>3. ASSUME NEW k \in Connected PROVE LockedRow(k)' /\ Usable(k)'
  BY DEF GrantInv, HeldInv, LockedRow, Usable, Current, StepOf
<1>4. LateApart'
  BY DEF GrantInv, LateApart, SingleUse
<1> QED
  BY <1>1, <1>2, <1>3, <1>4 DEF GrantInv, HeldInv

(* States are issued and expire without a look at the connection.           *)
LEMMA StatesStep ==
  ASSUME GrantInv, state' \in SUBSET Connected,
         UNCHANGED <<integration, granted, accepted, broken, rowLock, call>>
  PROVE  GrantInv'
<1>1. ConnectionsTypeOK' /\ Given'
  BY DEF GrantInv, HeldInv, ConnectionsTypeOK, Given
<1>2. ASSUME NEW d \in Calls PROVE HeldRow(d)'
  BY DEF GrantInv, HeldInv, HeldRow, SingleUse
<1>3. ASSUME NEW k \in Connected PROVE LockedRow(k)' /\ Usable(k)'
  BY DEF GrantInv, HeldInv, LockedRow, Usable, Current, StepOf
<1>4. LateApart'
  BY DEF GrantInv, LateApart, SingleUse
<1> QED
  BY <1>1, <1>2, <1>3, <1>4 DEF GrantInv, HeldInv

(* The disjuncts of ConnectionsNext, by what they do whatever the channel.  *)
LEMMA ConnectionsSteps ==
  ASSUME GrantInv, ConnectionsNext
  PROVE  \/ /\ state' \in SUBSET Connected
            /\ UNCHANGED <<integration, granted, accepted, broken, rowLock, call>>
         \/ \E c \in Calls :
              \/ \E ch \in Connected : ExchangeCode(c, ch) \/ AskToken(c, ch)
              \/ StoreGrant(c) \/ LockIntegration(c)
              \/ \E kept \in BOOLEAN :
                   (kept => ~SingleUse(call[c].channel)) /\ Answer(c, kept)
              \/ RefuseRenewal(c) \/ StoreRenewal(c)
              \/ TimeOut(c) \/ LateAnswer(c) \/ LoseCall(c)
         \/ \E ch \in Connected :
              DisconnectChannel(ch) \/ AgeToken(ch) \/ WithdrawConsent(ch)
<1>1. CASE MeliAuthUrl \/ ShopeeAuthUrl \/ AmazonAuthUrl
  BY <1>1 DEF MeliAuthUrl, ShopeeAuthUrl, AmazonAuthUrl, IssueState, GrantInv, HeldInv, ConnectionsTypeOK
<1>2. ASSUME NEW c \in Calls,
             MeliCallback(c) \/ ShopeeCallback(c) \/ AmazonCallback(c)
      PROVE  \E ch \in Connected : ExchangeCode(c, ch)
  BY <1>2 DEF MeliCallback, ShopeeCallback, AmazonCallback, ExchangeCode
<1>3. ASSUME NEW c \in Calls, MeliToken(c) \/ ShopeeToken(c) \/ AmazonToken(c)
      PROVE  \E ch \in Connected : AskToken(c, ch)
  BY <1>3 DEF MeliToken, ShopeeToken, AmazonToken, AskToken
<1>4. ASSUME NEW c \in Calls, MeliRenewal(c) \/ ShopeeRenewal(c) \/ AmazonRenewal(c)
      PROVE  \E kept \in BOOLEAN :
               (kept => ~SingleUse(call[c].channel)) /\ Answer(c, kept)
  <2>1. CASE MeliRenewal(c) \/ ShopeeRenewal(c)
    BY <2>1 DEF MeliRenewal, ShopeeRenewal
  <2>2. CASE AmazonRenewal(c)
    BY <2>2 DEF AmazonRenewal, SingleUse
  <2> QED
    BY <1>4, <2>1, <2>2
<1>5. ASSUME NEW ch \in Connected, ExpireState(ch)
      PROVE  /\ state' \in SUBSET Connected
             /\ UNCHANGED <<integration, granted, accepted, broken, rowLock, call>>
  BY <1>5 DEF ExpireState, GrantInv, HeldInv, ConnectionsTypeOK
<1> QED
  BY <1>1, <1>2, <1>3, <1>4, <1>5 DEF ConnectionsNext

(* Another token gets into a renewal's hands, or a renewal comes late, only *)
(* when it holds the row: none of the late ones has the token then.         *)
LEMMA NothingLate ==
  ASSUME GrantInv, NEW c \in Calls, \A d \in Calls \ {c} : call'[d] = call[d],
         call'[c].step \notin {"late", "store"} \/ call'[c] = call[c]
  PROVE  LateApart'
BY DEF GrantInv, LateApart, SingleUse

LEMMA LateStaysApart == ASSUME GrantInv, ConnectionsNext PROVE LateApart'
<1>1. CASE UNCHANGED call
  BY <1>1 DEF GrantInv, LateApart, SingleUse
<1>2. ASSUME NEW c \in Calls,
             \/ \E ch \in Connected : ExchangeCode(c, ch) \/ AskToken(c, ch)
             \/ StoreGrant(c) \/ LockIntegration(c)
             \/ RefuseRenewal(c) \/ StoreRenewal(c)
             \/ LateAnswer(c) \/ LoseCall(c)
      PROVE  LateApart'
  <2>1. \/ Hang(c)
        \/ \E step \in {"consented", "lock", "renew"} : \E ch, grant : Goes(c, step, ch, grant)
    BY <1>2 DEF ExchangeCode, AskToken, StoreGrant, LockIntegration, RefuseRenewal,
                StoreRenewal, LateAnswer, LoseCall, ReleaseRow
  <2>2. /\ \A d \in Calls \ {c} : call'[d] = call[d]
        /\ call'[c].step \notin {"late", "store"}
    BY <2>1, NoCallTyped DEF Hang, Goes, GrantInv, HeldInv, ConnectionsTypeOK
  <2> QED
    BY <2>2, NothingLate
<1>3. ASSUME NEW c \in Calls, NEW kept \in BOOLEAN, Answer(c, kept),
             kept => ~SingleUse(call[c].channel)
      PROVE  LateApart'
  <2>1. /\ \A d \in Calls \ {c} : call'[d] = call[d]
        /\ call'[c].step = "store" /\ call'[c].channel = call[c].channel
        /\ SingleUse(call[c].channel) => call'[c].grant = granted + 1
    BY <1>3 DEF Answer, Goes, NextGrant, GrantInv, HeldInv, ConnectionsTypeOK
  <2>2. \A d \in Calls : call[d].grant \in Nat /\ call[d].grant <= granted /\ granted \in Nat
    BY DEF GrantInv, HeldInv, Given, ConnectionsTypeOK, CallStates, Grants
  <2>3. \A d \in Calls : call[d].grant # granted + 1
    BY <2>2
  <2> QED
    BY <2>1, <2>3 DEF GrantInv, LateApart, SingleUse
<1>4. ASSUME NEW c \in Calls, TimeOut(c) PROVE LateApart'
  <2>1. /\ \A d \in Calls \ {c} : call'[d] = call[d]
        /\ call'[c].step = "late" /\ call'[c].channel = call[c].channel
        /\ call[c].step = "renew"
    BY <1>4 DEF TimeOut, Goes, StepOf, GrantInv, HeldInv, ConnectionsTypeOK
  <2>2. \A d \in Calls \ {c} : call[d].step = "store" => call[d].channel # call[c].channel
    BY <2>1 DEF GrantInv, HeldInv, HeldRow
  <2> QED
    BY <2>1, <2>2 DEF GrantInv, LateApart, SingleUse
<1>5. ASSUME NEW ch \in Connected,
             DisconnectChannel(ch) \/ AgeToken(ch) \/ WithdrawConsent(ch)
      PROVE  UNCHANGED call
  BY <1>5 DEF DisconnectChannel, AgeToken, WithdrawConsent
<1> QED
  BY <1>1, <1>2, <1>3, <1>4, <1>5, ConnectionsSteps

LEMMA NextStep == ASSUME GrantInv, [ConnectionsNext]_connectionVars PROVE GrantInv'
<1>1. CASE UNCHANGED connectionVars
  BY <1>1, UnchangedStep
<1>2. CASE ConnectionsNext
  <2>0. LateApart'
    BY <1>2, LateStaysApart
  <2>1. ASSUME NEW c \in Calls,
               \/ \E ch \in Connected : ExchangeCode(c, ch) \/ AskToken(c, ch)
               \/ StoreGrant(c) \/ LockIntegration(c)
               \/ \E kept \in BOOLEAN :
                    (kept => ~SingleUse(call[c].channel)) /\ Answer(c, kept)
               \/ RefuseRenewal(c) \/ StoreRenewal(c)
               \/ TimeOut(c) \/ LateAnswer(c) \/ LoseCall(c)
        PROVE  HeldInv'
    BY <2>1, ExchangeCodeStep, AskTokenStep, StoreGrantStep, LockIntegrationStep,
       AnswerStep, RefuseRenewalStep, StoreRenewalStep, TimeOutStep, LateAnswerStep, LoseCallStep
  <2>2. ASSUME NEW ch \in Connected,
               DisconnectChannel(ch) \/ AgeToken(ch) \/ WithdrawConsent(ch)
        PROVE  HeldInv'
    BY <2>2, DisconnectStep, AgeTokenStep, WithdrawConsentStep
  <2> QED
    BY <1>2, <2>0, <2>1, <2>2, ConnectionsSteps, StatesStep DEF GrantInv
<1> QED
  BY <1>1, <1>2

(* A call holds the row it renews, and what it read there stays true until  *)
(* it answers: SELECT ... FOR UPDATE in getValidAccessToken.                *)
THEOREM RowsHeld == ConnectionsSpec => []GrantInv
<1>1. ConnectionsInit => GrantInv
  BY ConnectionsInitial
<1>2. GrantInv /\ [ConnectionsNext]_connectionVars => GrantInv'
  BY NextStep
<1> QED
  BY <1>1, <1>2, PTL DEF ConnectionsSpec

LEMMA GrantInvUsable == GrantInv => ConnectedIsUsable
BY DEF GrantInv, HeldInv, Usable, ConnectedIsUsable, ActiveChannels, HeldGrants

(* However many calls renew, consent and disconnect at once, a connected    *)
(* channel is one whose current refresh token the channel accepts, or one   *)
(* that a renewal lost or answered late, or the seller, broke.              *)
THEOREM ConnectedStayUsable == ConnectionsSpec => []ConnectedIsUsable
<1>1. GrantInv => ConnectedIsUsable
  BY GrantInvUsable
<1> QED
  BY <1>1, RowsHeld, PTL

-----------------------------------------------------------------------------
(* A DISCONNECTED CHANNEL STAYS SO *)

(* Only a consent that is being stored makes a row active.                  *)
LEMMA RevivedByConsent ==
  ASSUME GrantInv, [ConnectionsNext]_connectionVars, NEW k \in Connected,
         integration[k].status # "ACTIVE", integration'[k].status = "ACTIVE"
  PROVE  \E c \in Calls : StepOf(c, "consented") /\ call[c].channel = k
                          /\ call'[c] # call[c]
<1>0. integration \in [Connected -> IntegrationRows] /\ integration'[k] # integration[k]
  BY DEF GrantInv, HeldInv, ConnectionsTypeOK
<1>1. CASE UNCHANGED connectionVars \/ UNCHANGED integration
  BY <1>0, <1>1 DEF connectionVars
<1>2. ASSUME NEW c \in Calls, StoreGrant(c)
      PROVE  \E d \in Calls : StepOf(d, "consented") /\ call[d].channel = k
                              /\ call'[d] # call[d]
  <2>1. call[c].channel = k
    BY <1>0, <1>2 DEF StoreGrant
  <2>2. call'[c] = NoCall
    BY <1>2 DEF StoreGrant, Hang, GrantInv, HeldInv, ConnectionsTypeOK
  <2>3. call[c].step = "consented" /\ c \in Calls
    BY <1>2 DEF StoreGrant, StepOf
  <2> QED
    BY <2>1, <2>2, <2>3, NoCallTyped DEF StepOf
<1>3. ASSUME NEW c \in Calls, StoreRenewal(c) PROVE FALSE
  <2>1. call[c].channel = k
    BY <1>0, <1>3 DEF StoreRenewal
  <2> QED
    BY <1>3, <2>1 DEF StoreRenewal, StepOf, GrantInv, HeldInv, HeldRow
<1>4. ASSUME NEW ch \in Connected, DisconnectChannel(ch) PROVE FALSE
  BY <1>0, <1>4 DEF DisconnectChannel
<1>5. ASSUME NEW ch \in Connected, AgeToken(ch) PROVE FALSE
  <2>1. integration[k] \in IntegrationRows
    BY <1>0
  <2> QED
    BY <1>0, <1>5, <2>1 DEF AgeToken, IntegrationRows
<1>6. ASSUME NEW c \in Calls,
             \/ \E ch \in Connected : ExchangeCode(c, ch) \/ AskToken(c, ch)
             \/ LockIntegration(c)
             \/ \E kept \in BOOLEAN : Answer(c, kept)
             \/ RefuseRenewal(c) \/ TimeOut(c) \/ LateAnswer(c) \/ LoseCall(c)
      PROVE  UNCHANGED integration
  BY <1>6 DEF ExchangeCode, AskToken, LockIntegration, Answer, RefuseRenewal,
              TimeOut, LateAnswer, LoseCall
<1>7. ASSUME NEW ch \in Connected, WithdrawConsent(ch) PROVE UNCHANGED integration
  BY <1>7 DEF WithdrawConsent
<1> QED
  BY <1>1, <1>2, <1>3, <1>4, <1>5, <1>6, <1>7, ConnectionsSteps

(* A channel that was disconnected comes back by a new consent only: a      *)
(* renewal in flight never revives it.                                      *)
THEOREM DisconnectedStay == ConnectionsSpec => DisconnectedStays
<1>1. GrantInv /\ [ConnectionsNext]_connectionVars =>
        [\A ch \in Connected :
           integration[ch].status = "DISCONNECTED" /\ integration'[ch].status = "ACTIVE"
             => \E c \in Calls : StepOf(c, "consented") /\ call[c].channel = ch
                                 /\ call'[c] # call[c]]_connectionVars
  BY RevivedByConsent
<1> QED
  BY <1>1, RowsHeld, PTL DEF ConnectionsSpec, DisconnectedStays

-----------------------------------------------------------------------------
(* THE REFINEMENT *)

(* What ChannelGrant sees of a channel, before and after a step.            *)
SameStatus(k) ==
  integration'[k].status = "ACTIVE" <=> integration[k].status = "ACTIVE"

SameGrant(k) == Current(k)' \in accepted'[k] <=> Current(k) \in accepted[k]

LEMMA StutterSeen ==
  ASSUME \A k \in Connected : SameStatus(k) /\ SameGrant(k), UNCHANGED broken
  PROVE  UNCHANGED <<ActiveChannels, HeldGrants, broken>>
<1>1. ActiveChannels' = ActiveChannels
  BY DEF ActiveChannels, SameStatus
<1>2. HeldGrants' = HeldGrants
  BY <1>1 DEF HeldGrants, SameGrant, ActiveChannels
<1> QED
  BY <1>1, <1>2

(* A step on one channel: the others look as they did.                      *)
LEMMA OneChannelSeen ==
  ASSUME NEW ch \in Connected,
         \A k \in Connected \ {ch} : SameStatus(k) /\ SameGrant(k)
  PROVE  /\ integration'[ch].status = "ACTIVE"
              => ActiveChannels' = ActiveChannels \cup {ch}
         /\ integration'[ch].status # "ACTIVE"
              => ActiveChannels' = ActiveChannels \ {ch}
         /\ integration'[ch].status = "ACTIVE" /\ Current(ch)' \in accepted'[ch]
              => HeldGrants' = HeldGrants \cup {ch}
         /\ integration'[ch].status # "ACTIVE" \/ Current(ch)' \notin accepted'[ch]
              => HeldGrants' = HeldGrants \ {ch}
BY DEF ActiveChannels, HeldGrants, SameStatus, SameGrant

(* A channel whose row, lock and accepted tokens a step leaves alone, and   *)
(* which the call that takes the step does not hold.                        *)
LEMMA OtherChannelSame ==
  ASSUME GrantInv, NEW k \in Connected, NEW c \in Calls, rowLock[k] # c,
         rowLock'[k] = rowLock[k], integration'[k] = integration[k],
         accepted'[k] = accepted[k], \A d \in Calls \ {c} : call'[d] = call[d]
  PROVE  SameStatus(k) /\ SameGrant(k)
<1>1. rowLock[k] # Nobody => rowLock[k] \in Calls \ {c}
  BY DEF GrantInv, HeldInv, ConnectionsTypeOK
<1>2. Current(k)' = Current(k)
  BY <1>1 DEF Current, StepOf
<1> QED
  BY <1>2 DEF SameStatus, SameGrant

LEMMA HoldsOwnRow ==
  ASSUME GrantInv, NEW c \in Calls, NEW k \in Connected, rowLock[k] = c
  PROVE  call[c].channel = k /\ call[c].step \in {"renew", "store"}
<1>1. LockedRow(k) /\ rowLock[k] # Nobody
  BY ConnectionsAssumption DEF GrantInv, HeldInv
<1> QED
  BY <1>1 DEF LockedRow

(* What ChannelGrant takes for a step of its own, or for none.              *)
Seen == OneGrant!Next \/ UNCHANGED <<ActiveChannels, HeldGrants, broken>>

LEMMA ExchangeCodeSeen ==
  ASSUME GrantInv, NEW c \in Calls, NEW ch \in Connected, ExchangeCode(c, ch)
  PROVE  Seen
<1>1. /\ call[c].step = "idle"
      /\ \A d \in Calls \ {c} : call'[d] = call[d]
      /\ accepted' = [accepted EXCEPT ![ch] = accepted[ch] \cup {granted + 1}]
      /\ UNCHANGED <<integration, broken, rowLock>>
  BY DEF ExchangeCode, StepOf, NextGrant, Goes, GrantInv, HeldInv, ConnectionsTypeOK
<1>2. ASSUME NEW k \in Connected PROVE SameStatus(k) /\ SameGrant(k)
  <2>1. rowLock[k] # c
    BY <1>1, HoldsOwnRow
  <2>2. rowLock[k] # Nobody => rowLock[k] \in Calls \ {c}
    BY <2>1 DEF GrantInv, HeldInv, ConnectionsTypeOK
  <2>3. Current(k)' = Current(k)
    BY <1>1, <2>2 DEF Current, StepOf
  <2>4. Current(k) # granted + 1
    BY <2>2 DEF Current, GrantInv, HeldInv, Given, ConnectionsTypeOK, IntegrationRows, CallStates, Grants
  <2>5. Current(k) \in accepted'[k] <=> Current(k) \in accepted[k]
    BY <1>1, <2>4 DEF GrantInv, HeldInv, ConnectionsTypeOK
  <2> QED
    BY <1>1, <2>3, <2>5 DEF SameStatus, SameGrant
<1> QED
  BY <1>1, <1>2, StutterSeen DEF Seen

LEMMA StoreGrantSeen == ASSUME GrantInv, NEW c \in Calls, StoreGrant(c) PROVE Seen
<1>1. PICK ch \in Connected :
        /\ call[c].channel = ch /\ rowLock[ch] = Nobody
        /\ call[c].step = "consented"
        /\ integration' = [integration EXCEPT ![ch] =
             [status |-> "ACTIVE", refresh |-> call[c].grant, fresh |-> TRUE]]
        /\ broken' = IF call[c].grant \in accepted[ch] THEN broken \ {ch}
                                                       ELSE broken \cup {ch}
        /\ UNCHANGED <<accepted, rowLock>>
        /\ \A d \in Calls \ {c} : call'[d] = call[d]
  BY DEF StoreGrant, StepOf, Hang, GrantInv, HeldInv, ConnectionsTypeOK, CallStates
<1>2. ASSUME NEW k \in Connected \ {ch} PROVE SameStatus(k) /\ SameGrant(k)
  <2>1. rowLock[k] # c
    BY <1>1, HoldsOwnRow
  <2>2. integration'[k] = integration[k]
    BY <1>1 DEF GrantInv, HeldInv, ConnectionsTypeOK
  <2> QED
    BY <1>1, <2>1, <2>2, OtherChannelSame
<1>3. integration'[ch].status = "ACTIVE" /\ Current(ch)' = call[c].grant
  BY <1>1 DEF Current, GrantInv, HeldInv, ConnectionsTypeOK
<1>4. CASE call[c].grant \in accepted[ch]
  <2>1. OneGrant!Consent(ch)
    BY <1>1, <1>2, <1>3, <1>4, OneChannelSeen DEF OneGrant!Consent
  <2> QED
    BY <2>1 DEF Seen, OneGrant!Next
<1>5. CASE call[c].grant \notin accepted[ch]
  <2>1. OneGrant!ConsentWithdrawn(ch)
    BY <1>1, <1>2, <1>3, <1>5, OneChannelSeen DEF OneGrant!ConsentWithdrawn
  <2> QED
    BY <2>1 DEF Seen, OneGrant!Next
<1> QED
  BY <1>4, <1>5

LEMMA DisconnectSeen ==
  ASSUME GrantInv, NEW ch \in Connected, DisconnectChannel(ch)
  PROVE  Seen
<1>1. integration'[ch].status # "ACTIVE"
  BY DEF DisconnectChannel, GrantInv, HeldInv, ConnectionsTypeOK
<1>2. ASSUME NEW k \in Connected \ {ch} PROVE SameStatus(k) /\ SameGrant(k)
  <2>1. /\ integration'[k] = integration[k]
        /\ UNCHANGED <<accepted, rowLock, call>>
    BY DEF DisconnectChannel, KeepChannel, GrantInv, HeldInv, ConnectionsTypeOK
  <2> QED
    BY <2>1 DEF SameStatus, SameGrant, Current, StepOf
<1>3. OneGrant!Disconnect(ch)
  BY <1>1, <1>2, OneChannelSeen DEF OneGrant!Disconnect, DisconnectChannel, KeepChannel
<1> QED
  BY <1>3 DEF Seen, OneGrant!Next

LEMMA AskTokenSeen ==
  ASSUME GrantInv, NEW c \in Calls, NEW ch \in Connected, AskToken(c, ch)
  PROVE  Seen
<1>1. /\ call[c].step = "idle"
      /\ \A d \in Calls \ {c} : call'[d] = call[d]
      /\ UNCHANGED <<integration, accepted, broken, rowLock>>
  BY DEF AskToken, StepOf, Goes, KeepChannel, GrantInv, HeldInv, ConnectionsTypeOK
<1>2. ASSUME NEW k \in Connected PROVE SameStatus(k) /\ SameGrant(k)
  BY <1>1, HoldsOwnRow, OtherChannelSame
<1> QED
  BY <1>1, <1>2, StutterSeen DEF Seen

LEMMA LockIntegrationSeen ==
  ASSUME GrantInv, NEW c \in Calls, LockIntegration(c) PROVE Seen
<1>1. PICK ch \in Connected :
        /\ call[c].step = "lock"
        /\ rowLock[ch] = Nobody
        /\ \A k \in Connected \ {ch} : rowLock'[k] = rowLock[k]
        /\ \A d \in Calls \ {c} : call'[d] = call[d]
        /\ UNCHANGED <<integration, accepted, broken>>
        /\ call'[c].step # "store"
        /\ rowLock'[ch] \in {c, Nobody}
  BY NoCallTyped DEF LockIntegration, StepOf, Hang, Goes, KeepChannel, GrantInv, HeldInv, ConnectionsTypeOK, CallStates
<1>2. ASSUME NEW k \in Connected \ {ch} PROVE SameStatus(k) /\ SameGrant(k)
  BY <1>1, HoldsOwnRow, OtherChannelSame
<1>3. Current(ch)' = Current(ch)
  BY <1>1 DEF Current, StepOf
<1>4. SameStatus(ch) /\ SameGrant(ch)
  BY <1>1, <1>3 DEF SameStatus, SameGrant
<1> QED
  BY <1>1, <1>2, <1>4, StutterSeen DEF Seen

(* The call that renews a channel holds that row and no other.              *)
LEMMA RenewalHolds ==
  ASSUME GrantInv, NEW c \in Calls, call[c].step \in {"renew", "store"}
  PROVE  /\ call[c].channel \in Connected
         /\ rowLock[call[c].channel] = c /\ c # Nobody
         /\ \A k \in Connected \ {call[c].channel} : rowLock[k] # c
<1>1. call[c].channel \in Connected /\ c # Nobody
  BY ConnectionsAssumption DEF GrantInv, HeldInv, ConnectionsTypeOK, CallStates
<1>2. HeldRow(c)
  BY DEF GrantInv, HeldInv
<1> QED
  BY <1>1, <1>2, HoldsOwnRow DEF HeldRow

LEMMA AnswerSeen ==
  ASSUME GrantInv, NEW c \in Calls, NEW kept \in BOOLEAN, Answer(c, kept)
  PROVE  Seen
<1>1. PICK ch \in Connected, next \in Grants :
        /\ call[c].channel = ch
        /\ call[c].step = "renew" /\ call[c].grant \in accepted[ch]
        /\ rowLock[ch] = c /\ c # Nobody
        /\ \A k \in Connected \ {ch} : rowLock[k] # c
        /\ call' = [call EXCEPT ![c] = [step |-> "store", channel |-> ch, grant |-> next]]
        /\ accepted' = [accepted EXCEPT ![ch] =
             (IF SingleUse(ch) THEN accepted[ch] \ {call[c].grant}
                               ELSE accepted[ch]) \cup {next}]
        /\ UNCHANGED <<integration, broken, rowLock>>
  BY RenewalHolds DEF Answer, StepOf, Goes
<1>2. /\ \A d \in Calls \ {c} : call'[d] = call[d]
      /\ \A k \in Connected \ {ch} : accepted'[k] = accepted[k]
      /\ next \in accepted'[ch] /\ call'[c].step = "store" /\ call'[c].grant = next
  BY <1>1 DEF GrantInv, HeldInv, ConnectionsTypeOK
<1>3. ASSUME NEW k \in Connected \ {ch} PROVE SameStatus(k) /\ SameGrant(k)
  BY <1>1, <1>2, OtherChannelSame
<1>4. Current(ch)' = next
  BY <1>1, <1>2 DEF Current, StepOf
<1>5. Current(ch) = call[c].grant
  BY <1>1 DEF Current, StepOf, GrantInv, HeldInv, HeldRow
<1>6. SameStatus(ch) /\ SameGrant(ch)
  BY <1>1, <1>2, <1>4, <1>5 DEF SameStatus, SameGrant
<1> QED
  BY <1>1, <1>3, <1>6, StutterSeen DEF Seen

LEMMA RefuseRenewalSeen == ASSUME GrantInv, NEW c \in Calls, RefuseRenewal(c) PROVE Seen
<1>1. PICK ch \in Connected :
        /\ call[c].channel = ch
        /\ call[c].step = "renew" /\ call[c].grant \notin accepted[ch]
        /\ rowLock[ch] = c /\ c # Nobody
        /\ \A k \in Connected \ {ch} : rowLock[k] # c
        /\ rowLock' = [rowLock EXCEPT ![ch] = Nobody]
        /\ \A d \in Calls \ {c} : call'[d] = call[d]
        /\ accepted' = IF SingleUse(ch) THEN [accepted EXCEPT ![ch] = {}] ELSE accepted
        /\ UNCHANGED <<integration, broken>>
  BY RenewalHolds DEF RefuseRenewal, ReleaseRow, Hang, StepOf, GrantInv, HeldInv, ConnectionsTypeOK
<1>2. /\ \A k \in Connected \ {ch} : rowLock'[k] = rowLock[k] /\ accepted'[k] = accepted[k]
      /\ accepted'[ch] \subseteq accepted[ch]
      /\ rowLock'[ch] = Nobody
  BY <1>1 DEF GrantInv, HeldInv, ConnectionsTypeOK
<1>3. ASSUME NEW k \in Connected \ {ch} PROVE SameStatus(k) /\ SameGrant(k)
  BY <1>1, <1>2, OtherChannelSame
<1>4. /\ Current(ch)' = integration[ch].refresh
      /\ Current(ch) = integration[ch].refresh
      /\ integration[ch].refresh = call[c].grant
  BY <1>1, <1>2 DEF Current, StepOf, GrantInv, HeldInv, HeldRow
<1>5. SameStatus(ch) /\ SameGrant(ch)
  BY <1>1, <1>2, <1>4 DEF SameStatus, SameGrant
<1> QED
  BY <1>1, <1>3, <1>5, StutterSeen DEF Seen

LEMMA TimeOutSeen == ASSUME GrantInv, NEW c \in Calls, TimeOut(c) PROVE Seen
<1>1. PICK ch \in Connected :
        /\ call[c].channel = ch /\ call[c].step = "renew"
        /\ rowLock[ch] = c /\ c # Nobody
        /\ \A k \in Connected \ {ch} : rowLock[k] # c
        /\ rowLock' = [rowLock EXCEPT ![ch] = Nobody]
        /\ \A d \in Calls \ {c} : call'[d] = call[d]
        /\ UNCHANGED <<integration, accepted, broken>>
  BY RenewalHolds DEF TimeOut, Goes, KeepChannel, StepOf, GrantInv, HeldInv, ConnectionsTypeOK
<1>2. /\ \A k \in Connected \ {ch} : rowLock'[k] = rowLock[k]
      /\ rowLock'[ch] = Nobody
  BY <1>1 DEF GrantInv, HeldInv, ConnectionsTypeOK
<1>3. ASSUME NEW k \in Connected \ {ch} PROVE SameStatus(k) /\ SameGrant(k)
  BY <1>1, <1>2, OtherChannelSame
<1>4. Current(ch)' = Current(ch)
  BY <1>1, <1>2 DEF Current, StepOf
<1>5. SameStatus(ch) /\ SameGrant(ch)
  BY <1>1, <1>4 DEF SameStatus, SameGrant
<1> QED
  BY <1>1, <1>3, <1>5, StutterSeen DEF Seen

(* A late request breaks the grant, or spends a token that is not current.  *)
LEMMA LateAnswerSeen == ASSUME GrantInv, NEW c \in Calls, LateAnswer(c) PROVE Seen
<1>1. PICK ch \in Connected :
           /\ call[c].step = "late" /\ call[c].channel = ch
           /\ accepted'[ch] \subseteq accepted[ch]
           /\ \A k \in Connected \ {ch} : accepted'[k] = accepted[k]
           /\ \/ broken' = broken \cup {ch} /\ Current(ch) \notin accepted'[ch]
              \/ /\ broken' = broken
                 /\ Current(ch) \in accepted'[ch] <=> Current(ch) \in accepted[ch]
           /\ UNCHANGED <<integration, rowLock>>
           /\ call' = [call EXCEPT ![c] = NoCall]
  BY LateAnswerDoes
<1>2. \A d \in Calls \ {c} : call'[d] = call[d]
  BY <1>1 DEF GrantInv, HeldInv, ConnectionsTypeOK
<1>3. ASSUME NEW k \in Connected PROVE rowLock[k] # c
  BY <1>1, HoldsOwnRow
<1>4. ASSUME NEW k \in Connected PROVE Current(k)' = Current(k)
  <2>1. rowLock[k] # Nobody => rowLock[k] \in Calls \ {c}
    BY <1>3 DEF GrantInv, HeldInv, ConnectionsTypeOK
  <2> QED
    BY <1>1, <1>2, <2>1 DEF Current, StepOf
<1>5. ASSUME NEW k \in Connected \ {ch} PROVE SameStatus(k) /\ SameGrant(k)
  BY <1>1, <1>4 DEF SameStatus, SameGrant
<1>6. CASE broken' = broken /\ (Current(ch) \in accepted'[ch] <=> Current(ch) \in accepted[ch])
  <2>1. SameStatus(ch) /\ SameGrant(ch)
    BY <1>1, <1>4, <1>6 DEF SameStatus, SameGrant
  <2> QED
    BY <1>5, <1>6, <2>1, StutterSeen DEF Seen
<1>7. CASE broken' = broken \cup {ch} /\ Current(ch) \notin accepted'[ch]
  <2>1. Current(ch)' \notin accepted'[ch]
    BY <1>4, <1>7
  <2>2. HeldGrants' = HeldGrants \ {ch}
    BY <1>5, <2>1, OneChannelSeen
  <2>3. ActiveChannels' = ActiveChannels
    BY <1>1 DEF ActiveChannels
  <2>4. OneGrant!Break(ch)
    BY <1>7, <2>2, <2>3 DEF OneGrant!Break
  <2> QED
    BY <2>4 DEF Seen, OneGrant!Next
<1> QED
  BY <1>1, <1>6, <1>7

LEMMA StoreRenewalSeen == ASSUME GrantInv, NEW c \in Calls, StoreRenewal(c) PROVE Seen
<1>1. PICK ch \in Connected :
        /\ call[c].channel = ch
        /\ call[c].step = "store"
        /\ rowLock[ch] = c /\ c # Nobody
        /\ \A k \in Connected \ {ch} : rowLock[k] # c
        /\ rowLock' = [rowLock EXCEPT ![ch] = Nobody]
        /\ \A d \in Calls \ {c} : call'[d] = call[d]
        /\ integration' = [integration EXCEPT ![ch] =
             [status |-> "ACTIVE", refresh |-> call[c].grant, fresh |-> TRUE]]
        /\ UNCHANGED <<accepted, broken>>
  BY RenewalHolds DEF StoreRenewal, ReleaseRow, Hang, StepOf, KeepChannel, GrantInv, HeldInv, ConnectionsTypeOK
<1>2. /\ \A k \in Connected \ {ch} :
           rowLock'[k] = rowLock[k] /\ integration'[k] = integration[k]
      /\ rowLock'[ch] = Nobody
      /\ integration'[ch].status = "ACTIVE" /\ integration'[ch].refresh = call[c].grant
  BY <1>1 DEF GrantInv, HeldInv, ConnectionsTypeOK
<1>3. ASSUME NEW k \in Connected \ {ch} PROVE SameStatus(k) /\ SameGrant(k)
  BY <1>1, <1>2, OtherChannelSame
<1>4. /\ Current(ch)' = call[c].grant /\ Current(ch) = call[c].grant
      /\ integration[ch].status = "ACTIVE"
  BY <1>1, <1>2 DEF Current, StepOf, GrantInv, HeldInv, HeldRow
<1>5. SameStatus(ch) /\ SameGrant(ch)
  BY <1>1, <1>2, <1>4 DEF SameStatus, SameGrant
<1> QED
  BY <1>1, <1>3, <1>5, StutterSeen DEF Seen

LEMMA LoseCallSeen == ASSUME GrantInv, NEW c \in Calls, LoseCall(c) PROVE Seen
<1>1. PICK ch \in Connected :
        /\ call[c].channel = ch
        /\ rowLock' = [k \in Connected |-> IF rowLock[k] = c THEN Nobody ELSE rowLock[k]]
        /\ \A d \in Calls \ {c} : call'[d] = call[d]
        /\ broken' = IF call[c].step = "store" /\ SingleUse(ch) THEN broken \cup {ch}
                                                                ELSE broken
        /\ UNCHANGED <<integration, accepted>>
  BY DEF LoseCall, Hang, StepOf, GrantInv, HeldInv, ConnectionsTypeOK, CallStates
<1>2. ASSUME NEW k \in Connected \ {ch} PROVE SameStatus(k) /\ SameGrant(k)
  BY <1>1, HoldsOwnRow, OtherChannelSame
<1>3. CASE call[c].step \notin {"renew", "store"}
  <2>1. SameStatus(ch) /\ SameGrant(ch)
    BY <1>1, <1>3, HoldsOwnRow, OtherChannelSame
  <2> QED
    BY <1>1, <1>2, <1>3, <2>1, StutterSeen DEF Seen
<1>4. CASE call[c].step \in {"renew", "store"}
  <2>1. /\ rowLock[ch] = c /\ c # Nobody /\ rowLock'[ch] = Nobody
        /\ integration[ch].status = "ACTIVE"
    BY <1>1, <1>4, RenewalHolds DEF GrantInv, HeldInv, HeldRow
  <2>2. /\ Current(ch)' = integration[ch].refresh
        /\ Current(ch) = IF call[c].step = "store" THEN call[c].grant
                                                   ELSE integration[ch].refresh
    BY <1>1, <2>1 DEF Current, StepOf
  <2>3. CASE call[c].step = "store" /\ SingleUse(ch)
    <3>1. integration[ch].refresh \notin accepted[ch]
      BY <1>1, <2>3 DEF GrantInv, HeldInv, HeldRow
    <3>2. ActiveChannels' = ActiveChannels \cup {ch} /\ HeldGrants' = HeldGrants \ {ch}
      BY <1>1, <1>2, <2>1, <2>2, <3>1, OneChannelSeen
    <3>3. ActiveChannels' = ActiveChannels
      BY <2>1, <3>2 DEF ActiveChannels
    <3>4. OneGrant!Break(ch)
      BY <1>1, <2>3, <3>2, <3>3 DEF OneGrant!Break
    <3> QED
      BY <3>4 DEF Seen, OneGrant!Next
  <2>4. CASE ~(call[c].step = "store" /\ SingleUse(ch))
    <3>1. SameStatus(ch) /\ SameGrant(ch)
      BY <1>1, <2>2, <2>4 DEF SameStatus, SameGrant, GrantInv, HeldInv, HeldRow
    <3> QED
      BY <1>1, <1>2, <2>4, <3>1, StutterSeen DEF Seen
  <2> QED
    BY <2>3, <2>4
<1> QED
  BY <1>3, <1>4

LEMMA AgeTokenSeen == ASSUME GrantInv, NEW ch \in Connected, AgeToken(ch) PROVE Seen
<1>1. ASSUME NEW k \in Connected
      PROVE  /\ integration'[k].status = integration[k].status
             /\ integration'[k].refresh = integration[k].refresh
  <2>1. integration[k] \in IntegrationRows
    BY DEF GrantInv, HeldInv, ConnectionsTypeOK
  <2> QED
    BY <2>1 DEF AgeToken, GrantInv, HeldInv, ConnectionsTypeOK, IntegrationRows
<1>2. UNCHANGED <<accepted, broken, rowLock, call>>
  BY DEF AgeToken, KeepChannel
<1>3. ASSUME NEW k \in Connected PROVE SameStatus(k) /\ SameGrant(k)
  BY <1>1, <1>2 DEF SameStatus, SameGrant, Current, StepOf
<1> QED
  BY <1>2, <1>3, StutterSeen DEF Seen

LEMMA WithdrawConsentSeen ==
  ASSUME GrantInv, NEW ch \in Connected, WithdrawConsent(ch) PROVE Seen
<1>1. /\ accepted'[ch] = {} /\ \A k \in Connected \ {ch} : accepted'[k] = accepted[k]
      /\ broken' = broken \cup {ch}
      /\ UNCHANGED <<integration, rowLock, call>>
  BY DEF WithdrawConsent, GrantInv, HeldInv, ConnectionsTypeOK
<1>2. ASSUME NEW k \in Connected \ {ch} PROVE SameStatus(k) /\ SameGrant(k)
  BY <1>1 DEF SameStatus, SameGrant, Current, StepOf
<1>3. HeldGrants' = HeldGrants \ {ch}
  BY <1>1, <1>2, OneChannelSeen
<1>4. ActiveChannels' = ActiveChannels
  BY <1>1 DEF ActiveChannels
<1>5. OneGrant!Break(ch)
  BY <1>1, <1>3, <1>4 DEF OneGrant!Break
<1> QED
  BY <1>5 DEF Seen, OneGrant!Next

LEMMA NextSeen == ASSUME GrantInv, [ConnectionsNext]_connectionVars PROVE Seen
<1>1. CASE UNCHANGED <<integration, granted, accepted, broken, rowLock, call>>
  <2>1. ASSUME NEW k \in Connected PROVE SameStatus(k) /\ SameGrant(k)
    BY <1>1 DEF SameStatus, SameGrant, Current, StepOf
  <2> QED
    BY <1>1, <2>1, StutterSeen DEF Seen
<1>2. ASSUME NEW c \in Calls,
             \/ \E ch \in Connected : ExchangeCode(c, ch) \/ AskToken(c, ch)
             \/ StoreGrant(c) \/ LockIntegration(c)
             \/ \E kept \in BOOLEAN : Answer(c, kept)
             \/ RefuseRenewal(c) \/ StoreRenewal(c)
             \/ TimeOut(c) \/ LateAnswer(c) \/ LoseCall(c)
      PROVE  Seen
  BY <1>2, ExchangeCodeSeen, AskTokenSeen, StoreGrantSeen, LockIntegrationSeen,
     AnswerSeen, RefuseRenewalSeen, StoreRenewalSeen, TimeOutSeen, LateAnswerSeen, LoseCallSeen
<1>3. ASSUME NEW ch \in Connected,
             DisconnectChannel(ch) \/ AgeToken(ch) \/ WithdrawConsent(ch)
      PROVE  Seen
  BY <1>3, DisconnectSeen, AgeTokenSeen, WithdrawConsentSeen
<1> QED
  BY <1>1, <1>2, <1>3, ConnectionsSteps DEF connectionVars

(* Rows, locks, tokens and requests in flight together are one grant per    *)
(* channel that only consent gives and only disconnection, the seller or a  *)
(* renewal lost or answered late takes away.                                *)
THEOREM GrantRefined == ConnectionsSpec => GrantImplemented
<1>1. ConnectionsInit => OneGrant!Init
  BY DEF ConnectionsInit, OneGrant!Init, ActiveChannels, HeldGrants, NoIntegration
<1>2. GrantInv /\ [ConnectionsNext]_connectionVars => [OneGrant!Next]_(OneGrant!grantVars)
  BY NextSeen DEF Seen, OneGrant!grantVars
<1> QED
  BY <1>1, <1>2, RowsHeld, PTL DEF ConnectionsSpec, GrantImplemented, OneGrant!Spec

=============================================================================
