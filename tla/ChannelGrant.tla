---------------------------- MODULE ChannelGrant ----------------------------
(***************************************************************************)
(* What a connected marketplace promises the store, with tokens, rows,      *)
(* locks and requests abstracted away: consent connects a channel and gives *)
(* a grant with it; the grant of a connected channel lasts until somebody   *)
(* disconnects it, the seller withdraws the consent or one renewal          *)
(* miscarries, lost on the way or answered after its transaction; and       *)
(* nothing but a new consent repairs it.  Module Connections implements     *)
(* this specification.                                                      *)
(***************************************************************************)
CONSTANTS Channels

VARIABLES
  connected, (* the channels the store shows as connected                   *)
  held,      (* the channels whose grant the store holds and can renew      *)
  broken     (* the channels of which a renewal miscarried, or whose        *)
             (* consent the seller withdrew, since the last consent         *)

grantVars == <<connected, held, broken>>

Init == connected = {} /\ held = {} /\ broken = {}

Consent(ch) ==
  /\ connected' = connected \cup {ch}
  /\ held' = held \cup {ch}
  /\ broken' = broken \ {ch}

(* A consent withdrawn, or lost to a refused renewal, before it was stored. *)
ConsentWithdrawn(ch) ==
  /\ connected' = connected \cup {ch}
  /\ held' = held \ {ch}
  /\ broken' = broken \cup {ch}

Disconnect(ch) ==
  /\ connected' = connected \ {ch}
  /\ held' = held \ {ch}
  /\ UNCHANGED broken

Break(ch) ==
  /\ held' = held \ {ch}
  /\ broken' = broken \cup {ch}
  /\ UNCHANGED connected

Next ==
  \E ch \in Channels :
    Consent(ch) \/ ConsentWithdrawn(ch) \/ Disconnect(ch) \/ Break(ch)

Spec == Init /\ [][Next]_grantVars

=============================================================================
