---------------------- MODULE ExtensionConnectionProofs ----------------------
(***************************************************************************)
(* Proofs that ExtensionSession keeps the connection of an active device   *)
(* and that an unbinding without a warning is honest.                      *)
(***************************************************************************)
EXTENDS ExtensionSessionProofs

---------------------------------------------------------------------------
(* What the server and the extension know of each other *)

\* The transaction the popup or the renewal waits for is its own; the device
\* that is registered, saved or read is known to the server; a token that came
\* is for the device it was asked for.
Serving ==
  /\ popup.pc = "served" => redeeming.device = popup.device
  /\ renewal.pc = "served" => proven = renewal.device
Known ==
  /\ registration # NoDevice => device[registration] # "unknown"
  /\ popup.pc \in {"answered", "registered"}
       => device[popup.device] # "unknown"
  /\ proven # NoDevice => device[proven] # "unknown"
Owned ==
  /\ popup.pc \in {"answered", "registered"} =>
       popup.token \in Tokens /\ token[popup.token].device = popup.device
  /\ renewal.pc \in {"answered", "saved"} =>
       /\ renewal.device # NoDevice
       /\ token[renewal.token].device = renewal.device
Grounds == Serving /\ Known /\ Owned

\* What no step does to the devices that are known and the tokens in use.
DevicesKeep ==
  \A d \in Devices : device[d] # "unknown" => device'[d] \in {device[d], "revoked"}
OwnersKeep ==
  \A t \in Tokens :
    token[t].device # NoDevice => token'[t].device = token[t].device

LEMMA ServerKeeps ==
  ASSUME TypeOK, Next
  PROVE  DevicesKeep /\ OwnersKeep
<1>t. ServerTyped /\ ActorsTyped
  BY TypeParts
<1>0. UNCHANGED device => DevicesKeep
  BY DEF DevicesKeep
<1>o. UNCHANGED token => OwnersKeep
  BY DEF OwnersKeep
<1>i. ASSUME NEW t \in Tokens, NEW d, Issue(t, d) PROVE OwnersKeep
  BY <1>i, <1>t DEF Issue, OwnersKeep, ServerTyped, TokenType
<1>1. CASE Quietly
  BY <1>1, <1>0, <1>o, QuietlyUnchanged DEF server
<1>2. CASE Workbench
  <2>1. ASSUME NEW t \in Tokens, Age(t) PROVE OwnersKeep /\ UNCHANGED device
    BY <2>1, <1>t DEF Age, OwnersKeep, ServerTyped, TokenType
  <2>2. ASSUME NEW d \in Devices, RevokeDevice(d)
        PROVE  DevicesKeep /\ UNCHANGED token
    BY <2>2, <1>t DEF RevokeDevice, Revoke, DevicesKeep, ServerTyped
  <2>3. ASSUME NEW c \in Codes, CreateCode(c) \/ ExpireCode(c)
        PROVE  UNCHANGED <<device, token>>
    BY <2>3 DEF CreateCode, ExpireCode
  <2> QED BY <1>2, <2>1, <2>2, <2>3, <1>0, <1>o DEF Workbench
<1>3. CASE PairServed \/ ReadDevice
  BY <1>3, <1>0, <1>o DEF PairServed, ReadDevice
<1>4. CASE PairAnswered
  <2>1. CASE UNCHANGED <<device, token>>
    BY <2>1, <1>0, <1>o
  <2>2. ASSUME NEW t \in Tokens, Redeem(redeeming.code, redeeming.device, t)
        PROVE  DevicesKeep /\ OwnersKeep
    BY <2>2, <1>t, <1>i DEF Redeem, DevicesKeep, ServerTyped
  <2> QED BY <1>4, <2>1, <2>2 DEF PairAnswered
<1>5. CASE RevokeRemotely
  <2>1. \/ device' = device
        \/ device' = [device EXCEPT ![token[session].device] = "revoked"]
    BY <1>5 DEF RevokeRemotely, Revoke
  <2> QED BY <1>5, <2>1, <1>t, <1>o DEF RevokeRemotely, DevicesKeep, ServerTyped
<1>6. CASE Renew
  BY <1>6, <1>0, <1>o, <1>i DEF Renew
<1> QED BY <1>1, <1>2, <1>3, <1>4, <1>5, <1>6, NextCases

\* Steps that bring neither the popup nor the renewal a new token.
LEMMA GroundsElsewhere ==
  ASSUME ServerTyped, StoresTyped, ActorsTyped, RenewalHolds, Grounds,
         DevicesKeep, OwnersKeep,
         UNCHANGED <<redeeming, proven>>,
         registration' \in {registration, NoDevice},
         popup' = popup \/ popup'.pc \notin {"served", "answered", "registered"},
         \/ /\ renewal'.pc = renewal.pc /\ renewal'.device = renewal.device
            /\ renewal'.token = renewal.token
         \/ renewal'.pc \notin {"served", "answered", "saved"}
         \/ /\ renewal.pc = "answered" /\ renewal'.pc = "saved"
            /\ renewal'.device = renewal.device
            /\ renewal'.token = renewal.token
  PROVE  Grounds'
<1>1. Serving'
  BY DEF Grounds, Serving
<1>2. Known'
  <2>1. registration' # NoDevice => device'[registration'] # "unknown"
    BY DEF Grounds, Known, DevicesKeep, StoresTyped
  <2>2. popup'.pc \in {"answered", "registered"}
          => device'[popup'.device] # "unknown"
    BY DEF Grounds, Known, DevicesKeep, ActorsTyped, PopupType, Pairing
  <2>3. proven' # NoDevice => device'[proven'] # "unknown"
    BY DEF Grounds, Known, DevicesKeep, ServerTyped
  <2> QED BY <2>1, <2>2, <2>3 DEF Known
<1>3. Owned'
  <2>1. popup'.pc \in {"answered", "registered"} =>
          popup'.token \in Tokens /\ token'[popup'.token].device = popup'.device
    BY DEF Grounds, Owned, OwnersKeep, ActorsTyped, PopupType, Pairing
  <2>2. renewal'.pc \in {"answered", "saved"} =>
          /\ renewal'.device # NoDevice
          /\ token'[renewal'.token].device = renewal'.device
    BY DEF Grounds, Owned, OwnersKeep, RenewalHolds
  <2> QED BY <2>1, <2>2 DEF Owned
<1> QED BY <1>1, <1>2, <1>3 DEF Grounds

LEMMA GroundsStep ==
  ASSUME TypeOK, RenewalHolds, Grounds, [Next]_vars
  PROVE  Grounds'
<1>t. ServerTyped /\ StoresTyped /\ ActorsTyped
  BY TypeParts
<1>0. CASE UNCHANGED vars
  BY <1>0 DEF vars, Grounds, Serving, Known, Owned
<1> SUFFICES ASSUME Next PROVE Grounds'
  BY <1>0
<1>k. DevicesKeep /\ OwnersKeep
  BY ServerKeeps
<1>r. renewal \in RenewalType
  BY <1>t DEF ActorsTyped
<1>p. popup \in PopupType
  BY <1>t DEF ActorsTyped
<1>e. ASSUME NEW pc \in RenewalPC \ {"served", "answered", "saved"},
             \/ renewal' = Ends(pc)
             \/ renewal' = [Ends(pc) EXCEPT !.fenced = TRUE]
             \/ renewal' = [renewal EXCEPT !.pc = pc]
             \/ renewal' = [renewal EXCEPT !.pc = pc, !.device = registration]
      PROVE  renewal'.pc \notin {"served", "answered", "saved"}
  BY <1>e, <1>r DEF Ends, RenewalType
<1>n. {"idle", "starting", "asking", "reading", "renewing", "retryable",
       "terminal"} \subseteq RenewalPC \ {"served", "answered", "saved"}
  BY DEF RenewalPC
<1>i. NoRenewal.pc \notin {"served", "answered", "saved"}
  BY DEF NoRenewal
<1>v. /\ ClosedPopup.pc \notin {"served", "answered", "registered"}
      /\ Form.pc \notin {"served", "answered", "registered"}
      /\ \A pc \in {"form", "paired"} :
           \/ Shown(pc) = popup
           \/ Shown(pc).pc \notin {"served", "answered", "registered"}
  BY <1>p DEF ClosedPopup, Form, Shown, PopupType
<1> USE DEF server, stores
<1>1. CASE PairServed
  <2>1. /\ UNCHANGED <<device, token, proven, registration, renewal>>
        /\ popup'.pc = "served" /\ redeeming'.device = popup'.device
    BY <1>1, <1>p DEF PairServed, PopupType
  <2> QED BY <2>1 DEF Grounds, Serving, Known, Owned
<1>2. CASE PairAnswered /\ popup.pc # "served"
  <2>1. UNCHANGED <<proven, registration, renewal, popup>>
    BY <1>2 DEF PairAnswered
  <2>2. Serving' /\ Known'
    BY <2>1, <1>2, <1>k, <1>t
       DEF Grounds, Serving, Known, DevicesKeep, StoresTyped, ServerTyped,
           PopupType, ActorsTyped, Pairing
  <2>3. Owned'
    BY <2>1, <1>k, <1>t
       DEF Grounds, Owned, OwnersKeep, RenewalHolds, PopupType, ActorsTyped,
           Pairing
  <2> QED BY <2>2, <2>3 DEF Grounds
<1>3. CASE PairAnswered /\ popup.pc = "served"
  <2>0. /\ UNCHANGED <<proven, registration, renewal>>
        /\ redeeming.device = popup.device /\ popup.device \in Devices
    BY <1>3, <1>p DEF PairAnswered, Grounds, Serving, PopupType, Pairing
  <2>1. /\ registration' # NoDevice => device'[registration'] # "unknown"
        /\ proven' # NoDevice => device'[proven'] # "unknown"
    BY <2>0, <1>k, <1>t DEF Grounds, Known, DevicesKeep, StoresTyped,
                            ServerTyped
  <2>2. renewal'.pc \in {"answered", "saved"} =>
          /\ renewal'.device # NoDevice
          /\ token'[renewal'.token].device = renewal'.device
    BY <2>0, <1>k DEF Grounds, Owned, OwnersKeep, RenewalHolds
  <2>3. renewal'.pc = "served" => proven' = renewal'.device
    BY <2>0 DEF Grounds, Serving
  <2>4. CASE popup' = Form
    BY <2>1, <2>2, <2>3, <2>4, <1>v DEF Grounds, Serving, Known, Owned, Form,
                                        ClosedPopup
  <2>5. ASSUME NEW t \in Tokens, Redeem(redeeming.code, redeeming.device, t),
               popup' = [popup EXCEPT !.pc = "answered", !.token = t]
        PROVE  Grounds'
    <3>1. /\ popup'.pc = "answered" /\ popup'.token = t
          /\ popup'.device = popup.device
      BY <2>5, <1>p DEF PopupType
    <3>2. token'[t].device = popup.device /\ device'[popup.device] # "unknown"
      BY <2>0, <2>5, <1>t DEF Redeem, Issue, ServerTyped, TokenType
    <3> QED BY <2>1, <2>2, <2>3, <3>1, <3>2 DEF Grounds, Serving, Known, Owned
  <2> QED BY <1>3, <2>4, <2>5 DEF PairAnswered
<1>4. CASE SaveRegistration
  <2>0. UNCHANGED <<device, token, proven, redeeming, renewal>>
    BY <1>4 DEF SaveRegistration
  <2>1. CASE popup' = Form /\ registration' = NoDevice
    BY <2>0, <2>1, <1>v, <1>t, <1>k, GroundsElsewhere
  <2>2. CASE /\ registration' = popup.device
             /\ popup' = [popup EXCEPT !.pc = "registered"]
    <3>1. /\ popup'.pc = "registered" /\ popup'.token = popup.token
          /\ popup'.device = popup.device /\ popup.pc = "answered"
      BY <1>4, <2>2, <1>p DEF SaveRegistration, PopupType
    <3> QED BY <2>0, <2>2, <3>1 DEF Grounds, Serving, Known, Owned
  <2> QED BY <1>4, <2>1, <2>2 DEF SaveRegistration, ClearStores
<1>5. CASE ReadDevice
  <2>0. UNCHANGED <<device, token, redeeming, registration, popup>>
    BY <1>5 DEF ReadDevice
  <2>1. CASE UNCHANGED proven /\ renewal' = Ends("terminal")
    BY <2>0, <2>1, <1>e, <1>n, <1>t, <1>k, GroundsElsewhere
  <2>2. CASE /\ MayRenew(renewal.device) /\ proven' = renewal.device
             /\ RenewTo("served")
    <3>1. renewal'.pc = "served" /\ renewal'.device = renewal.device
      BY <2>2, <1>r DEF RenewTo, RenewalType
    <3> QED BY <2>0, <2>2, <3>1 DEF Grounds, Serving, Known, Owned, MayRenew
  <2> QED BY <1>5, <2>1, <2>2 DEF ReadDevice, Condemn
<1>6. CASE Renew
  <2>0. /\ UNCHANGED <<device, redeeming, registration, popup>>
        /\ proven \in Devices /\ proven' = NoDevice
    BY <1>6, <1>t DEF Renew, ServerTyped
  <2>1. /\ Known'
        /\ popup'.pc = "served" => redeeming'.device = popup'.device
        /\ popup'.pc \in {"answered", "registered"} =>
             /\ popup'.token \in Tokens
             /\ token'[popup'.token].device = popup'.device
    BY <2>0, <1>k, <1>t DEF Grounds, Serving, Known, Owned, OwnersKeep,
                            ActorsTyped, PopupType, Pairing
  <2>2. CASE renewal.pc # "served" /\ UNCHANGED renewal
    <3>1. renewal'.pc \in {"answered", "saved"} =>
            /\ renewal'.device # NoDevice
            /\ token'[renewal'.token].device = renewal'.device
      BY <2>2, <1>k DEF Grounds, Owned, OwnersKeep, RenewalHolds
    <3> QED BY <2>1, <2>2, <3>1 DEF Grounds, Serving, Owned
  <2>3. CASE renewal' = Ends("retryable")
    BY <2>1, <2>3, <1>e, <1>n DEF Grounds, Serving, Owned
  <2>4. ASSUME NEW t \in Tokens, Issue(t, proven), renewal.pc = "served",
               renewal' = [renewal EXCEPT !.pc = "answered", !.token = t]
        PROVE  Grounds'
    <3>1. /\ renewal'.pc = "answered" /\ renewal'.token = t
          /\ renewal'.device = renewal.device /\ proven = renewal.device
      BY <2>4, <1>r DEF RenewalType, Grounds, Serving
    <3>2. token'[t].device = proven
      BY <2>4, <1>t DEF Issue, ServerTyped, TokenType
    <3> QED BY <2>0, <2>1, <3>1, <3>2, NoneAssumption
            DEF Grounds, Serving, Owned
  <2> QED BY <1>6, <2>2, <2>3, <2>4 DEF Renew
<1>7. CASE Workbench
  BY <1>7, <1>t, <1>k, GroundsElsewhere
     DEF Workbench, CreateCode, ExpireCode, RevokeDevice, Age
<1>8. CASE \/ Open \/ Close \/ PairRefused \/ SaveBinding \/ RevokeRemotely
           \/ \E c \in Codes, d \in Devices : Submit(c, d)
  <2>1. UNCHANGED <<redeeming, proven, registration, renewal>>
    BY <1>8 DEF Open, Close, PairRefused, SaveBinding, RevokeRemotely, Submit
  <2>2. popup'.pc \notin {"served", "answered", "registered"}
    BY <1>8, <1>v DEF Open, Close, PairRefused, SaveBinding, RevokeRemotely,
                      Submit, Unbinding, ClosedPopup
  <2> QED BY <2>1, <2>2, <1>t, <1>k, GroundsElsewhere
<1>9. CASE Unlink
  <2>1. /\ UNCHANGED <<redeeming, proven>> /\ registration' = NoDevice
        /\ popup'.pc \notin {"served", "answered", "registered"}
    BY <1>9 DEF Unlink, ClearStores, ClosedPopup
  <2>2. \/ /\ renewal'.pc = renewal.pc /\ renewal'.device = renewal.device
           /\ renewal'.token = renewal.token
        \/ renewal'.pc \notin {"served", "answered", "saved"}
    BY <1>9, <1>r DEF Unlink, Fence, Ends, RenewalType
  <2> QED BY <2>1, <2>2, <1>t, <1>k, GroundsElsewhere
<1>10. CASE StartRenewal \/ RequestFails \/ Challenge \/ BrokenBody \/ Sign
  <2>1. UNCHANGED <<redeeming, proven, registration, popup>>
    BY <1>10 DEF StartRenewal, RequestFails, Challenge, BrokenBody, Sign
  <2>2. renewal'.pc \notin {"served", "answered", "saved"}
    BY <1>10, <1>e, <1>n DEF StartRenewal, RequestFails, Challenge, BrokenBody,
                             Sign, Condemn, RenewTo
  <2> QED BY <2>1, <2>2, <1>t, <1>k, GroundsElsewhere
<1>11. CASE SaveRenewed
  <2>1. UNCHANGED <<redeeming, proven, registration, popup>>
    BY <1>11 DEF SaveRenewed
  <2>2. \/ renewal'.pc \notin {"served", "answered", "saved"}
        \/ /\ renewal.pc = "answered" /\ renewal'.pc = "saved"
           /\ renewal'.device = renewal.device
           /\ renewal'.token = renewal.token
    <3>1. CASE Condemn
      BY <3>1, <1>e, <1>n DEF Condemn
    <3>2. CASE RenewTo("saved")
      BY <1>11, <3>2, <1>r DEF SaveRenewed, RenewTo, RenewalType
    <3> QED BY <1>11, <3>1, <3>2 DEF SaveRenewed
  <2> QED BY <2>1, <2>2, <1>t, <1>k, GroundsElsewhere
<1>12. CASE FinishRenewal \/ EndConnection \/ EndSession
  <2>1. UNCHANGED <<redeeming, proven>>
        /\ registration' \in {registration, NoDevice}
    BY <1>12 DEF FinishRenewal, EndConnection, EndSession, ClearStores,
                 ClearSession
  <2>2. popup' = popup \/ popup'.pc \notin {"served", "answered", "registered"}
    BY <1>12, <1>v DEF FinishRenewal, EndConnection, EndSession, Resolve, Reject
  <2>3. renewal'.pc \notin {"served", "answered", "saved"}
    BY <1>12, <1>e, <1>i, <1>n
       DEF FinishRenewal, EndConnection, EndSession, Resolve, Reject, Condemn
  <2> QED BY <2>1, <2>2, <2>3, <1>t, <1>k, GroundsElsewhere
<1>13. ASSUME NEW c \in Callers, Call(c) \/ CallStep(c) PROVE Grounds'
  <2>1. UNCHANGED <<redeeming, proven>>
        /\ registration' \in {registration, NoDevice}
    BY <1>13 DEF Call, CallStep, ClearAfterCall, Use, ClearRefused, ClearStores
  <2>2. popup' = popup \/ popup'.pc \notin {"served", "answered", "registered"}
    BY <1>13, <1>v DEF Call, CallStep, ClearAfterCall, Use, ClearRefused
  <2>3. renewal' = renewal \/ renewal'.pc \notin {"served", "answered", "saved"}
    BY <1>13 DEF Call, CallStep, ClearAfterCall, Use, ClearRefused, NoRenewal
  <2> QED BY <2>1, <2>2, <2>3, <1>t, <1>k, GroundsElsewhere
<1>14. CASE Restart
  BY <1>14, <1>v, <1>i, <1>t, <1>k, GroundsElsewhere DEF Restart
<1> QED BY <1>1, <1>2, <1>3, <1>4, <1>5, <1>6, <1>7, <1>8, <1>9, <1>10, <1>11,
           <1>12, <1>13, <1>14 DEF Next, PopupStep, RenewalStep

LEMMA GroundsInit == Init => Grounds
BY DEF Init, Grounds, Serving, Known, Owned, NoRenewal, ClosedPopup

---------------------------------------------------------------------------
(* The connection of an active device *)

\* While no body broke off and no decision overlapped a pairing: whoever
\* decided to clear the stores found no connection there, or a dead one, and
\* nobody is making a new one; a renewal that goes on is for the device the
\* stores hold; a pairing keeps the key it began with.
Gentle == Unmet({"body", "overlap"})
Busy == {"asking", "reading", "renewing", "served", "answered", "saved"}

ClearsNothing ==
  /\ \A c \in Callers :
       call[c].pc = "clearing" => ~Identified /\ ~MidPairing
  /\ renewal.pc = "terminal" =>
       ~MidPairing /\ (Identified => device[key] # "active")
  /\ renewal.fenced => ~Identified /\ ~MidPairing
RenewsLinked ==
  /\ renewal.pc \in Busy => renewal.device \in Devices
  /\ renewal.pc \notin Busy => renewal.device = NoDevice
  /\ renewal.device # NoDevice /\ ~renewal.fenced => Linked(renewal.device)
PairsKey == MidPairing => key = popup.device

ConnectionInv == Gentle => ClearsNothing /\ RenewsLinked /\ PairsKey

Preserved == ClearsNothing' /\ RenewsLinked' /\ PairsKey'

LEMMA GentleBefore ==
  ASSUME TypeOK, Next, Gentle'
  PROVE  Gentle /\ met'["overlap"] = 0 /\ met'["body"] = 0
<1>1. met \in [Hazards -> Nat] /\ {"body", "overlap"} \subseteq Hazards
  BY DEF TypeOK, Hazards
<1>2. met'["overlap"] = 0 /\ met'["body"] = 0
  BY DEF Gentle, Unmet
<1> QED BY <1>1, <1>2, HazardsCount DEF Gentle, Unmet

LEMMA NoOverlap ==
  ASSUME TypeOK, NEW b \in BOOLEAN, MeetOverlapIf(b), met'["overlap"] = 0
  PROVE  ~b
BY OverlapCounts DEF TypeOK

LEMMA Booleans == Condemned \in BOOLEAN /\ MidPairing \in BOOLEAN
BY DEF Condemned, MidPairing

\* Steps that neither write the stores nor decide to clear them.
LEMMA HarmlessStep ==
  ASSUME ServerTyped, StoresTyped, ClearsNothing, RenewsLinked, PairsKey,
         UNCHANGED <<registration, key>>,
         \/ popup' = popup \/ popup'.pc \notin Pairing
         \/ MidPairing /\ popup'.device = popup.device,
         \A c \in Callers :
           call'[c].pc = "clearing" => call[c].pc = "clearing",
         \/ renewal' = renewal \/ renewal' = NoRenewal
         \/ renewal' = [NoRenewal EXCEPT !.pc = "starting"],
         Known, DevicesKeep
  PROVE  Preserved
<1>1. MidPairing' => MidPairing
  BY DEF MidPairing
<1>2. Identified' = Identified /\ \A d : Linked(d)' = Linked(d)
  BY DEF Identified, Linked
<1>3. renewal' # renewal =>
        renewal'.pc \notin Busy \cup {"terminal"} /\ renewal'.device = NoDevice
          /\ ~renewal'.fenced
  BY DEF NoRenewal, Busy
<1>4. ClearsNothing'
  <2>1. Identified /\ ~MidPairing /\ device'[key'] = "active"
          => device[key] = "active"
    BY DEF Identified, StoresTyped, Known, DevicesKeep
  <2> QED BY <1>1, <1>2, <1>3, <2>1 DEF ClearsNothing
<1>5. RenewsLinked'
  BY <1>2, <1>3 DEF RenewsLinked
<1>6. PairsKey'
  BY <1>1 DEF PairsKey, MidPairing
<1> QED BY <1>4, <1>5, <1>6 DEF Preserved

\* Steps of the renewal that do not end in a decision to clear.
LEMMA RenewalGoesOn ==
  ASSUME ClearsNothing, RenewsLinked, PairsKey, renewal \in RenewalType,
         UNCHANGED <<registration, key, device, popup, call>>,
         \/ renewal' = Ends("retryable")
         \/ \E pc \in Busy \cup {"saved"}, t \in Tokens \cup {renewal.token} :
              /\ renewal.pc \in Busy
              /\ renewal' = [renewal EXCEPT !.pc = pc, !.token = t]
  PROVE  Preserved
<1>1. /\ MidPairing' = MidPairing /\ Identified' = Identified
      /\ \A d : Linked(d)' = Linked(d)
  BY DEF MidPairing, Identified, Linked
<1>2. /\ renewal'.fenced = renewal.fenced /\ renewal'.pc # "terminal"
      /\ \/ /\ renewal'.device = renewal.device
            /\ renewal.pc \in Busy /\ renewal'.pc \in Busy
         \/ renewal'.device = NoDevice /\ renewal'.pc \notin Busy
  BY DEF Ends, RenewalType, Busy
<1>3. ClearsNothing'
  BY <1>1, <1>2 DEF ClearsNothing
<1>4. RenewsLinked'
  BY <1>1, <1>2 DEF RenewsLinked
<1>5. PairsKey'
  BY <1>1 DEF PairsKey
<1> QED BY <1>3, <1>4, <1>5 DEF Preserved

\* A decision to clear that is taken where there is nothing to lose.
LEMMA RenewalCondemned ==
  ASSUME ClearsNothing, RenewsLinked, PairsKey, renewal \in RenewalType,
         UNCHANGED <<registration, key, device, popup, call>>,
         renewal' = Ends("terminal"),
         ~MidPairing, Identified => device[key] # "active"
  PROVE  Preserved
<1>1. /\ MidPairing' = MidPairing /\ Identified' = Identified
      /\ \A d : Linked(d)' = Linked(d)
  BY DEF MidPairing, Identified, Linked
<1>2. /\ renewal'.fenced = renewal.fenced /\ renewal'.pc = "terminal"
      /\ renewal'.device = NoDevice
  BY DEF Ends, RenewalType
<1>3. ClearsNothing'
  BY <1>1, <1>2 DEF ClearsNothing
<1>4. RenewsLinked'
  BY <1>1, <1>2 DEF RenewsLinked, Busy
<1>5. PairsKey'
  BY <1>1 DEF PairsKey
<1> QED BY <1>3, <1>4, <1>5 DEF Preserved

LEMMA PopupPreserves ==
  ASSUME TypeOK, Known, DevicesKeep, ClearsNothing, RenewsLinked, PairsKey,
         PopupStep,
         met'["overlap"] = 0, met'["body"] = 0
  PROVE  Preserved
<1>t. ServerTyped /\ StoresTyped /\ ActorsTyped
  BY TypeParts
<1> USE DEF stores
<1>1. CASE Open \/ Close \/ PairRefused \/ SaveBinding \/ RevokeRemotely
  <2>1. popup'.pc \notin Pairing
    <3>1. CASE RevokeRemotely
      BY <3>1 DEF RevokeRemotely, Unbinding, ClosedPopup, Pairing
    <3>2. CASE Open \/ Close \/ PairRefused \/ SaveBinding
      BY <3>2 DEF Open, Close, PairRefused, SaveBinding, Form, ClosedPopup,
                  Pairing
    <3> QED BY <1>1, <3>1, <3>2
  <2>2. UNCHANGED <<registration, key, call, renewal>>
    BY <1>1 DEF Open, Close, PairRefused, SaveBinding, RevokeRemotely
  <2> QED BY <2>1, <2>2, <1>t, HarmlessStep
<1>2. ASSUME NEW c \in Codes, NEW d \in Devices, Submit(c, d)
      PROVE  Preserved
  <2>1. ~Condemned
    BY <1>2, NoOverlap, Booleans DEF Submit
  <2>2. key' = d /\ popup'.device = d /\ popup'.pc = "pairing"
    BY <1>2 DEF Submit, ClosedPopup
  <2>3. UNCHANGED <<registration, call, renewal>>
    BY <1>2 DEF Submit
  <2>4. renewal.pc \in Busy => key' = key
    BY <1>2, <2>1, <1>t, NoneAssumption
       DEF Submit, DeviceKey, RenewsLinked, Linked, Condemned, StoresTyped
  <2>5. ClearsNothing'
    BY <2>1, <2>3 DEF Condemned, ClearsNothing
  <2>6. RenewsLinked'
    <3>1. ~renewal.fenced
      BY <2>1 DEF Condemned
    <3>2. renewal.device # NoDevice => key' = key
      BY <1>2, <3>1, NoneAssumption DEF Submit, DeviceKey, RenewsLinked, Linked
    <3> QED BY <2>3, <3>2 DEF RenewsLinked, Linked
  <2>7. PairsKey'
    BY <2>2 DEF PairsKey
  <2> QED BY <2>5, <2>6, <2>7 DEF Preserved
<1>3. CASE PairServed \/ PairAnswered
  <2>1. \/ popup' = popup \/ popup'.pc \notin Pairing
        \/ MidPairing /\ popup'.device = popup.device
    BY <1>3, <1>t DEF PairServed, PairAnswered, Form, ClosedPopup, Pairing,
                      MidPairing, ActorsTyped, PopupType
  <2>2. UNCHANGED <<registration, key, call, renewal>>
    BY <1>3 DEF PairServed, PairAnswered
  <2> QED BY <2>1, <2>2, <1>t, HarmlessStep
<1>4. CASE SaveRegistration
  <2>1. ~Meet("body")
    BY DEF Meet, TypeOK, Hazards
  <2>2. /\ registration' = popup.device
        /\ popup' = [popup EXCEPT !.pc = "registered"]
        /\ UNCHANGED <<key, device, call, renewal>>
    BY <1>4, <2>1 DEF SaveRegistration, server
  <2>3. MidPairing /\ key = popup.device
    BY <1>4 DEF SaveRegistration, MidPairing, Pairing, PairsKey
  <2>4. popup'.device = popup.device
    BY <2>2, <1>t DEF ActorsTyped, PopupType
  <2>5. ClearsNothing'
    BY <2>2, <2>3 DEF ClearsNothing
  <2>6. RenewsLinked'
    BY <2>2, <2>3 DEF RenewsLinked, Linked
  <2>7. PairsKey'
    BY <2>2, <2>3, <2>4 DEF PairsKey
  <2> QED BY <2>5, <2>6, <2>7 DEF Preserved
<1>5. CASE Unlink
  <2>1. ~Identified' /\ ~MidPairing'
    BY <1>5 DEF Unlink, ClearStores, Identified, MidPairing, ClosedPopup,
                Pairing
  <2>2. /\ renewal'.pc \in Busy => renewal.pc \in Busy
        /\ renewal'.pc \in Busy => renewal'.device = renewal.device
        /\ renewal'.pc \notin Busy => renewal'.device = NoDevice
        /\ renewal'.fenced \/ (renewal' = renewal /\ renewal.pc = "idle")
    BY <1>5, <1>t DEF Unlink, Fence, Ends, Busy, ActorsTyped, RenewalType,
                      RenewsLinked
  <2>3. ClearsNothing'
    BY <2>1 DEF ClearsNothing
  <2>5. RenewsLinked'
    BY <2>2 DEF RenewsLinked, Busy
  <2>6. PairsKey'
    BY <2>1 DEF PairsKey
  <2> QED BY <2>3, <2>5, <2>6 DEF Preserved
<1> QED BY <1>1, <1>2, <1>3, <1>4, <1>5 DEF PopupStep

LEMMA RenewalPreserves ==
  ASSUME TypeOK, Known, DevicesKeep, ClearsNothing, RenewsLinked, PairsKey,
         RenewalStep,
         met'["overlap"] = 0, met'["body"] = 0
  PROVE  Preserved
<1>t. ServerTyped /\ StoresTyped /\ ActorsTyped
  BY TypeParts
<1>r. renewal \in RenewalType
  BY <1>t DEF ActorsTyped
<1> USE DEF stores
<1>u. renewal.token \in Tokens \cup {NoToken}
  BY <1>r DEF RenewalType
\* A decision to clear is taken outside a pairing.
<1>c. Condemn => renewal' = Ends("terminal") /\ ~MidPairing
  BY NoOverlap, Booleans DEF Condemn
<1>f. renewal.fenced => ~Identified
  BY DEF ClearsNothing
<1>1. CASE StartRenewal
  <2>0. UNCHANGED <<registration, key, device, popup, call>>
    BY <1>1 DEF StartRenewal, server
  <2>1. CASE Condemn /\ (~Identified \/ renewal.fenced)
    BY <2>0, <2>1, <1>c, <1>f, <1>r, RenewalCondemned
  <2>2. CASE /\ Identified /\ ~renewal.fenced
             /\ renewal' = [renewal EXCEPT !.pc = "asking",
                                           !.device = registration]
    <3>1. /\ renewal'.pc = "asking" /\ renewal'.device = registration
          /\ ~renewal'.fenced
      BY <2>2, <1>r DEF RenewalType
    <3>2. /\ MidPairing' = MidPairing /\ Identified' = Identified
          /\ \A d : Linked(d)' = Linked(d)
      BY <2>0 DEF MidPairing, Identified, Linked
    <3>3. registration \in Devices /\ Linked(registration)
      BY <2>2, <1>t DEF Identified, Linked, StoresTyped
    <3>4. ClearsNothing'
      BY <2>0, <3>1, <3>2 DEF ClearsNothing
    <3>5. RenewsLinked'
      BY <3>1, <3>2, <3>3 DEF RenewsLinked, Busy
    <3>6. PairsKey'
      BY <2>0, <3>2 DEF PairsKey
    <3> QED BY <3>4, <3>5, <3>6 DEF Preserved
  <2> QED BY <1>1, <2>1, <2>2 DEF StartRenewal
<1>2. CASE RequestFails
  BY <1>2, <1>r, RenewalGoesOn DEF RequestFails, server
<1>3. CASE Challenge
  <2>1. renewal' = [renewal EXCEPT !.pc = "reading", !.token = renewal.token]
    BY <1>3, <1>r DEF Challenge, RenewTo, RenewalType
  <2> QED BY <1>3, <2>1, <1>r, RenewalGoesOn DEF Challenge, server, Busy
<1>4. CASE BrokenBody
  BY <1>4 DEF BrokenBody, Meet, TypeOK, Hazards
<1>5. CASE Sign
  <2>0. UNCHANGED <<registration, key, device, popup, call>>
    BY <1>5 DEF Sign, server
  <2>1. CASE renewal.fenced /\ Condemn
    BY <2>0, <2>1, <1>c, <1>f, <1>r, RenewalCondemned
  <2>2. CASE RenewTo("renewing")
    <3>1. renewal' = [renewal EXCEPT !.pc = "renewing",
                                     !.token = renewal.token]
      BY <2>2, <1>r DEF RenewTo, RenewalType
    <3> QED BY <1>5, <2>0, <3>1, <1>r, RenewalGoesOn DEF Sign, Busy
  <2> QED BY <1>5, <2>1, <2>2 DEF Sign
<1>6. CASE ReadDevice
  <2>0. UNCHANGED <<registration, key, device, popup, call>>
    BY <1>6 DEF ReadDevice
  <2>1. CASE ~MayRenew(renewal.device) /\ Condemn
    <3>1. renewal.device # NoDevice
      BY <1>6, NoneAssumption DEF ReadDevice, RenewsLinked, Busy
    <3>2. ~renewal.fenced => key = renewal.device
      BY <3>1 DEF RenewsLinked, Linked
    <3>3. Identified => device[key] # "active"
      BY <2>1, <3>2, <1>f DEF MayRenew
    <3> QED BY <2>0, <2>1, <3>3, <1>c, <1>r, RenewalCondemned
  <2>2. CASE RenewTo("served")
    <3>1. renewal' = [renewal EXCEPT !.pc = "served", !.token = renewal.token]
      BY <2>2, <1>r DEF RenewTo, RenewalType
    <3> QED BY <1>6, <2>0, <3>1, <1>r, RenewalGoesOn DEF ReadDevice, Busy
  <2> QED BY <1>6, <2>1, <2>2 DEF ReadDevice
<1>10. CASE Renew
  <2>0. UNCHANGED <<registration, key, device, popup, call>>
    BY <1>10 DEF Renew
  <2>1. CASE UNCHANGED renewal
    BY <2>0, <2>1, <1>t, HarmlessStep
  <2>2. ASSUME NEW t \in Tokens, renewal.pc = "served",
               renewal' = [renewal EXCEPT !.pc = "answered", !.token = t]
        PROVE  Preserved
    BY <2>0, <2>2, <1>r, RenewalGoesOn DEF Busy
  <2>3. CASE renewal' = Ends("retryable")
    BY <2>0, <2>3, <1>r, RenewalGoesOn
  <2> QED BY <1>10, <2>1, <2>2, <2>3 DEF Renew
<1>7. CASE SaveRenewed
  <2>0. UNCHANGED <<registration, key, device, popup, call>>
    BY <1>7 DEF SaveRenewed, server
  <2>1. CASE renewal.fenced /\ Condemn
    BY <2>0, <2>1, <1>c, <1>f, <1>r, RenewalCondemned
  <2>2. CASE RenewTo("saved")
    <3>1. renewal' = [renewal EXCEPT !.pc = "saved", !.token = renewal.token]
      BY <2>2, <1>r DEF RenewTo, RenewalType
    <3> QED BY <1>7, <2>0, <3>1, <1>r, RenewalGoesOn DEF SaveRenewed, Busy
  <2> QED BY <1>7, <2>1, <2>2 DEF SaveRenewed
<1>s. \A pc \in {"form", "paired"} :
        Shown(pc) = popup \/ Shown(pc).pc \notin Pairing
  BY <1>t DEF Shown, Pairing, ActorsTyped, PopupType
<1>8. CASE FinishRenewal
  <2>0. UNCHANGED <<registration, key, device>>
    BY <1>8 DEF FinishRenewal, server
  <2>1. CASE renewal.fenced /\ Condemn /\ UNCHANGED <<popup, call>>
    BY <2>0, <2>1, <1>c, <1>f, <1>r, RenewalCondemned
  <2>2. CASE Resolve(renewal.token)
    <3>1. popup' = popup \/ popup'.pc \notin Pairing
      BY <2>2, <1>s DEF Resolve
    <3>2. \A c \in Callers :
            call'[c].pc = "clearing" => call[c].pc = "clearing"
      BY <2>2 DEF Resolve, IdleCall, Granted
    <3> QED BY <2>0, <2>2, <3>1, <3>2, <1>t, HarmlessStep DEF Resolve
  <2> QED BY <1>8, <2>1, <2>2 DEF FinishRenewal
<1>9. CASE EndConnection \/ EndSession
  <2>1. popup' = popup \/ popup'.pc \notin Pairing
    BY <1>9, <1>s DEF EndConnection, EndSession, Reject
  <2>2. \A c \in Callers : call'[c].pc = "clearing" => call[c].pc = "clearing"
    BY <1>9 DEF EndConnection, EndSession, Reject, IdleCall
  <2>3. renewal' = NoRenewal /\ UNCHANGED device
    BY <1>9 DEF EndConnection, EndSession, Reject, server
  <2>4. CASE EndSession
    BY <2>1, <2>2, <2>3, <2>4, <1>t, HarmlessStep DEF EndSession, ClearSession
  <2>5. CASE EndConnection
    <3>1. ~Identified' /\ ~MidPairing'
      BY <2>1, <2>5
         DEF EndConnection, ClearStores, Identified, MidPairing, ClearsNothing
    <3>2. ClearsNothing'
      BY <3>1 DEF ClearsNothing
    <3>3. RenewsLinked'
      BY <2>3 DEF RenewsLinked, NoRenewal, Busy
    <3>4. PairsKey'
      BY <3>1 DEF PairsKey
    <3> QED BY <3>2, <3>3, <3>4 DEF Preserved
  <2> QED BY <1>9, <2>4, <2>5
<1> QED BY <1>1, <1>2, <1>3, <1>4, <1>5, <1>6, <1>7, <1>8, <1>9, <1>10
        DEF RenewalStep

LEMMA CallPreserves ==
  ASSUME TypeOK, Known, DevicesKeep, ClearsNothing, RenewsLinked, PairsKey,
         NEW c \in Callers,
         Call(c) \/ CallStep(c), met'["overlap"] = 0
  PROVE  Preserved
<1>t. ServerTyped /\ StoresTyped /\ ActorsTyped
  BY TypeParts
<1> USE DEF stores
<1>s. \A pc \in {"form", "paired"} :
        Shown(pc) = popup \/ Shown(pc).pc \notin Pairing
  BY <1>t DEF Shown, Pairing, ActorsTyped, PopupType
<1>1. CASE Call(c)
  <2>0. UNCHANGED <<registration, key, device>>
    BY <1>1 DEF Call, server
  <2>1. CASE /\ ~Identified /\ call' = [call EXCEPT ![c].pc = "clearing"]
             /\ MeetOverlapIf(MidPairing) /\ UNCHANGED <<popup, renewal>>
    <3>1. ~MidPairing
      BY <2>1, NoOverlap, Booleans
    <3>2. ~MidPairing' /\ ~Identified'
      BY <2>0, <2>1, <3>1 DEF MidPairing, Identified
    <3>3. ClearsNothing'
      BY <3>2 DEF ClearsNothing
    <3>4. RenewsLinked'
      BY <2>0, <2>1 DEF RenewsLinked, Linked
    <3>5. PairsKey'
      BY <3>2 DEF PairsKey
    <3> QED BY <3>3, <3>4, <3>5 DEF Preserved
  <2>2. CASE /\ popup' = Shown("paired") \/ popup' = popup
             /\ \/ call' = call
                \/ call' = [call EXCEPT ![c] = Granted(session)]
                \/ call' = [call EXCEPT ![c].pc = "waiting"]
             /\ \/ renewal' = renewal
                \/ renewal' = [NoRenewal EXCEPT !.pc = "starting"]
    <3>1. popup' = popup \/ popup'.pc \notin Pairing
      BY <2>2, <1>s
    <3>2. \A x \in Callers :
            call'[x].pc = "clearing" => call[x].pc = "clearing"
      BY <2>2, <1>t DEF Granted, ActorsTyped, CallType
    <3> QED BY <2>0, <2>2, <3>1, <3>2, <1>t, HarmlessStep
  <2> QED BY <1>1, <2>1, <2>2 DEF Call
<1>2. CASE ClearAfterCall(c)
  <2>1. popup' = popup \/ popup'.pc \notin Pairing
    BY <1>2, <1>s DEF ClearAfterCall
  <2>2. /\ ~Identified /\ ~MidPairing /\ ~Identified' /\ ~MidPairing'
        /\ renewal' = renewal
    BY <1>2, <2>1
       DEF ClearAfterCall, ClearStores, Identified, MidPairing, ClearsNothing
  <2>3. ClearsNothing'
    BY <2>2 DEF ClearsNothing
  <2>4. renewal.device # NoDevice => renewal.fenced
    BY <2>2 DEF RenewsLinked, Linked, Identified
  <2>5. RenewsLinked'
    BY <2>2, <2>4 DEF RenewsLinked
  <2>6. PairsKey'
    BY <2>2 DEF PairsKey
  <2> QED BY <2>3, <2>5, <2>6 DEF Preserved
<1>3. CASE Use(c) \/ ClearRefused(c)
  <2>1. \A x \in Callers : call'[x].pc = "clearing" => call[x].pc = "clearing"
    <3>1. \/ call' = [call EXCEPT ![c] = IdleCall]
          \/ call' = [call EXCEPT ![c] = [call[c] EXCEPT !.pc = "refused"]]
      BY <1>3, <1>t DEF Use, ClearRefused, ActorsTyped
    <3> QED BY <3>1, <1>t DEF IdleCall, ActorsTyped, CallType
  <2>2. UNCHANGED <<registration, key, device, popup, renewal>>
    BY <1>3 DEF Use, ClearRefused, server
  <2> QED BY <2>1, <2>2, <1>t, HarmlessStep
<1> QED BY <1>1, <1>2, <1>3 DEF CallStep

LEMMA OthersPreserve ==
  ASSUME TypeOK, Known, DevicesKeep, ClearsNothing, RenewsLinked, PairsKey,
        
         Workbench \/ Restart \/ UNCHANGED vars
  PROVE  Preserved
<1>t. ServerTyped /\ StoresTyped /\ ActorsTyped
  BY TypeParts
<1>1. UNCHANGED <<registration, key>>
  BY DEF Workbench, CreateCode, ExpireCode, RevokeDevice, Age, Restart, vars,
         stores
<1>3. popup' = popup \/ popup'.pc \notin Pairing
  <2>1. Shown("form") = popup \/ Shown("form").pc \notin Pairing
    BY <1>t DEF Shown, Pairing, ActorsTyped, PopupType
  <2>2. ClosedPopup.pc \notin Pairing
    BY DEF ClosedPopup, Pairing
  <2> QED
    BY <2>1, <2>2
       DEF Workbench, CreateCode, ExpireCode, RevokeDevice, Age, Restart, vars
<1>4. \/ call' = call /\ renewal' = renewal
      \/ call' = [c \in Callers |-> IdleCall] /\ renewal' = NoRenewal
  BY DEF Workbench, CreateCode, ExpireCode, RevokeDevice, Age, Restart, vars
<1>5. \A x \in Callers : call'[x].pc = "clearing" => call[x].pc = "clearing"
  BY <1>4 DEF IdleCall
<1> QED BY <1>1, <1>3, <1>4, <1>5, <1>t, HarmlessStep

LEMMA ConnectionInvStep ==
  ASSUME TypeOK, Grounds, ConnectionInv, [Next]_vars
  PROVE  ConnectionInv'
<1> SUFFICES ASSUME Gentle' PROVE Preserved
  BY DEF ConnectionInv, Preserved
<1>1. CASE UNCHANGED vars
  <2>1. Gentle
    BY <1>1 DEF Gentle, Unmet, vars
  <2>2. Known /\ DevicesKeep
    BY <1>1 DEF Grounds, DevicesKeep, vars
  <2> QED BY <1>1, <2>1, <2>2, OthersPreserve DEF ConnectionInv
<1>2. CASE Next
  <2>1. Gentle /\ met'["overlap"] = 0 /\ met'["body"] = 0
    BY <1>2, GentleBefore
  <2>2. Known /\ DevicesKeep
    BY <1>2, ServerKeeps DEF Grounds
  <2> QED BY <1>2, <2>1, <2>2, PopupPreserves, RenewalPreserves, CallPreserves,
             OthersPreserve DEF ConnectionInv, Next
<1> QED BY <1>1, <1>2

ConnectionKept ==
  \A d \in Devices :
    Linked(d) /\ device[d] = "active" /\ Unmet({"body", "overlap"})'
      => Linked(d)' \/ unlinked'

LEMMA ConnectionStep ==
  TypeOK /\ ConnectionInv /\ [Next]_vars => ConnectionKept
<1> SUFFICES ASSUME TypeOK, ConnectionInv, Next, Gentle',
                    NEW d \in Devices, Linked(d), device[d] = "active",
                    ~unlinked'
             PROVE  Linked(d)'
  BY DEF ConnectionKept, Gentle, vars, Linked
<1> USE DEF stores
<1>t. ServerTyped /\ StoresTyped /\ ActorsTyped
  BY TypeParts
<1>0. met'["overlap"] = 0 /\ met'["body"] = 0 /\ ClearsNothing /\ PairsKey
  BY GentleBefore DEF ConnectionInv
<1>i. Identified /\ d = key
  BY NoneAssumption DEF Linked, Identified
<1>u. UNCHANGED <<registration, key>> => Linked(d)'
  BY DEF Linked
<1>1. CASE Workbench \/ Restart
  BY <1>1, <1>u DEF Workbench, CreateCode, ExpireCode, RevokeDevice, Age,
                    Restart
<1>2. CASE PopupStep
  <2>1. CASE \E c \in Codes, e \in Devices : Submit(c, e)
    BY <2>1, <1>i, NoneAssumption DEF Submit, DeviceKey, Linked
  <2>2. CASE SaveRegistration
    <3>1. ~Meet("body")
      BY <1>0 DEF Meet, TypeOK, Hazards
    <3>2. key = popup.device
      BY <2>2, <1>0 DEF SaveRegistration, PairsKey, MidPairing, Pairing
    <3> QED BY <2>2, <3>1, <3>2, <1>i DEF SaveRegistration, Linked
  <2>3. CASE Open \/ Close \/ PairServed \/ PairAnswered \/ PairRefused
               \/ SaveBinding \/ RevokeRemotely
    BY <2>3, <1>u DEF Open, Close, PairServed, PairAnswered, PairRefused,
                      SaveBinding, RevokeRemotely
  <2>4. CASE Unlink
    BY <2>4 DEF Unlink
  <2> QED BY <1>2, <2>1, <2>2, <2>3, <2>4 DEF PopupStep
<1>3. CASE RenewalStep
  <2>1. CASE EndConnection
    BY <2>1, <1>0, <1>i DEF EndConnection, ClearsNothing
  <2>2. CASE RenewalStep /\ ~EndConnection
    BY <2>2, <1>u
       DEF RenewalStep, StartRenewal, RequestFails, Challenge, BrokenBody,
           Sign, ReadDevice, Renew, SaveRenewed, FinishRenewal, EndSession,
           ClearSession
  <2> QED BY <1>3, <2>1, <2>2
<1>4. ASSUME NEW c \in Callers, Call(c) \/ CallStep(c) PROVE Linked(d)'
  <2>1. CASE ClearAfterCall(c)
    BY <2>1, <1>0, <1>i DEF ClearAfterCall, ClearsNothing
  <2>2. CASE Call(c) \/ Use(c) \/ ClearRefused(c)
    BY <2>2, <1>u DEF Call, Use, ClearRefused
  <2> QED BY <1>4, <2>1, <2>2 DEF CallStep
<1> QED BY <1>1, <1>2, <1>3, <1>4 DEF Next

\* However many requests are lost, tokens expire, popups are closed and
\* processes restarted: an active device keeps its connection.
THEOREM ConnectionAlwaysLasts == Spec => ConnectionLasts
<1>1. Init => ConnectionInv
  BY DEF Init, ConnectionInv, ClearsNothing, RenewsLinked, PairsKey, NoRenewal,
         MidPairing, ClosedPopup, Pairing, IdleCall, Busy
<1>2. TypeInv => TypeOK /\ RenewalHolds
  BY DEF TypeInv
<1>3. Spec => [][ConnectionKept]_vars
  BY <1>1, <1>2, TypeInit, TypeStep, GroundsInit, GroundsStep,
     ConnectionInvStep, ConnectionStep, PTL DEF Spec
<1> QED BY <1>3, PTL DEF ConnectionLasts, ConnectionKept

---------------------------------------------------------------------------
(* Honest unbinding *)

\* Whatever request failed, while no body broke off and no decision overlapped
\* a pairing: the session is a token of the device whose key is stored.
SessionOfKey ==
  session # NoToken => key # NoDevice /\ token[session].device = key
SessionInv == Gentle => SessionOfKey

LEMMA SessionStep ==
  ASSUME TypeOK, RenewalHolds, Grounds, ConnectionInv, SessionInv, [Next]_vars
  PROVE  SessionInv'
<1>0. CASE UNCHANGED vars
  BY <1>0 DEF vars, SessionInv, SessionOfKey, Gentle, Unmet
<1> SUFFICES ASSUME Next, Gentle' PROVE SessionOfKey'
  BY <1>0 DEF SessionInv
<1>t. ServerTyped /\ StoresTyped /\ ActorsTyped
  BY TypeParts
<1>g. /\ SessionOfKey /\ RenewsLinked /\ PairsKey /\ OwnersKeep
  BY GentleBefore, ServerKeeps DEF SessionInv, ConnectionInv
<1>k. UNCHANGED <<session, key>> => SessionOfKey'
  BY <1>t, <1>g DEF SessionOfKey, OwnersKeep, StoresTyped
<1>n. session' = NoToken => SessionOfKey'
  BY DEF SessionOfKey
<1>c. ClearStores => SessionOfKey'
  BY DEF ClearStores, SessionOfKey
<1> USE DEF stores
<1>1. CASE Workbench
  BY <1>1, <1>k DEF Workbench, CreateCode, ExpireCode, RevokeDevice, Age
<1>2. CASE PopupStep
  <2>1. CASE Open \/ Close \/ PairServed \/ PairAnswered \/ PairRefused
               \/ SaveRegistration
    BY <2>1, <1>k, <1>c DEF Open, Close, PairServed, PairAnswered,
                            PairRefused, SaveRegistration
  <2>2. ASSUME NEW c \in Codes, NEW d \in Devices, Submit(c, d)
        PROVE  SessionOfKey'
    <3>1. UNCHANGED session /\ (key # NoDevice => UNCHANGED key)
      BY <2>2 DEF Submit, DeviceKey
    <3> QED BY <3>1, <1>g, <1>k, <1>n DEF SessionOfKey
  <2>3. CASE SaveBinding
    <3>1. /\ session' = popup.token /\ UNCHANGED <<token, key>>
          /\ popup.pc = "registered"
      BY <2>3 DEF SaveBinding, server
    <3>2. key = popup.device /\ popup.device # NoDevice
      BY <3>1, <1>g, <1>t DEF PairsKey, MidPairing, Pairing, ActorsTyped,
                              PopupType
    <3> QED BY <3>1, <3>2 DEF Grounds, Owned, SessionOfKey
  <2>4. CASE RevokeRemotely \/ Unlink
    BY <2>4, <1>n DEF RevokeRemotely, Unlink, ClearStores
  <2> QED BY <1>2, <2>1, <2>2, <2>3, <2>4 DEF PopupStep
<1>3. CASE RenewalStep
  <2>1. CASE StartRenewal \/ RequestFails \/ Challenge \/ BrokenBody \/ Sign
               \/ ReadDevice \/ Renew \/ FinishRenewal
    BY <2>1, <1>k
       DEF StartRenewal, RequestFails, Challenge, BrokenBody, Sign,
           ReadDevice, Renew, FinishRenewal
  <2>2. CASE EndConnection \/ EndSession
    BY <2>2, <1>n DEF EndConnection, EndSession, ClearStores, ClearSession
  <2>3. CASE SaveRenewed
    <3>1. UNCHANGED <<token, key>> /\ renewal.pc = "answered"
      BY <2>3 DEF SaveRenewed, server
    <3>2. CASE UNCHANGED session
      BY <3>1, <3>2, <1>k
    <3>3. CASE ~renewal.fenced /\ session' = renewal.token
      <4>1. key = renewal.device /\ renewal.device # NoDevice
        BY <3>1, <3>3, <1>g DEF RenewsLinked, Linked, Grounds, Owned
      <4> QED BY <3>1, <3>3, <4>1 DEF Grounds, Owned, SessionOfKey
    <3> QED BY <2>3, <3>2, <3>3 DEF SaveRenewed
  <2> QED BY <1>3, <2>1, <2>2, <2>3 DEF RenewalStep
<1>4. ASSUME NEW c \in Callers, Call(c) \/ CallStep(c) PROVE SessionOfKey'
  BY <1>4, <1>k, <1>n, <1>c
     DEF Call, CallStep, ClearAfterCall, Use, ClearRefused
<1>5. CASE Restart
  BY <1>5, <1>k, <1>n DEF Restart
<1> QED BY <1>1, <1>2, <1>3, <1>4, <1>5 DEF Next

\* While no hazard was met, every token in hand belongs to the key the
\* extension holds, so a session that is missing while the popup offers to
\* unbind tells that the device is gone: a page was refused its token, or
\* unlink ran.
Untouched == Unmet(Hazards)
Severed == key = NoDevice \/ device[key] = "revoked"

Issued ==
  \A t \in Tokens :
    IF token[t].device = NoDevice THEN token[t].age = "fresh"
    ELSE device[token[t].device] # "unknown"
PairsToken ==
  IF popup.pc \in {"answered", "registered"}
  THEN popup.token # NoToken /\ token[popup.token].device = popup.device
  ELSE popup.token = NoToken
RenewsToken ==
  IF renewal.pc \in {"answered", "saved"}
  THEN /\ renewal.token # NoToken /\ renewal.device # NoDevice
       /\ token[renewal.token].device = renewal.device
       /\ token[renewal.token].age # "expired"
  ELSE renewal.token = NoToken
CallOfKey(c) ==
  LET d == token[call[c].token].device
  IN  IF call[c].pc \in {"got", "refused"}
      THEN /\ call[c].token # NoToken /\ d # NoDevice
           /\ key \in {NoDevice, d}
           /\ token[call[c].token].age # "expired"
           /\ call[c].pc = "refused" => device[d] = "revoked"
      ELSE call[c].token = NoToken
CallsOfKey == \A c \in Callers : CallOfKey(c)
FencedEmpty ==
  /\ renewal.fenced => key = NoDevice /\ registration = NoDevice
  /\ renewal.pc = "retryable" => renewal.fenced
Unregistered ==
  popup.pc \in {"form", "pairing", "served", "answered"} => registration = NoDevice
SeveredOrWarned ==
  /\ popup.pc = "paired" /\ session = NoToken => Severed
  /\ popup.pc = "unlinking" => Severed \/ popup.warned
  /\ renewal.pc = "saved" /\ ~renewal.fenced /\ session = NoToken
       => Severed \/ (popup.pc = "unlinking" /\ popup.warned)

Honest ==
  /\ Issued /\ PairsToken /\ RenewsToken /\ CallsOfKey
  /\ FencedEmpty /\ Unregistered /\ SeveredOrWarned
HonestInv == Untouched => Honest

\* Without a hazard no step meets one.
NoneMet == \A h \in Hazards : ~Meet(h)

LEMMA UntouchedBefore ==
  ASSUME TypeOK, Next, Untouched'
  PROVE  Untouched /\ NoneMet
<1>1. met \in [Hazards -> Nat] /\ \A h \in Hazards : met'[h] = 0
  BY DEF TypeOK, Untouched, Unmet
<1>2. Untouched
  BY <1>1, HazardsCount DEF Untouched, Unmet
<1>3. NoneMet
  BY <1>1 DEF NoneMet, Meet
<1> QED BY <1>2, <1>3

LEMMA NoneMetNames ==
  ASSUME NoneMet
  PROVE  /\ ~Meet("network") /\ ~Meet("body") /\ ~Meet("slow")
         /\ ~Meet("restart")
         /\ \A b \in BOOLEAN : MeetOverlapIf(b) => ~b
BY DEF NoneMet, Hazards, MeetOverlapIf

\* What the server may do to the tokens that are known.
TokensKeep ==
  \A t \in Tokens : token[t].device # NoDevice =>
    /\ token'[t].device = token[t].device
    /\ InFlight(t) /\ token[t].age # "expired" => token'[t].age # "expired"

LEMMA ServerKept == UNCHANGED token => TokensKeep
BY DEF TokensKeep

\* What a step leaves alone stays honest.
LEMMA PartsKept ==
  ASSUME ServerTyped, StoresTyped, ActorsTyped, Honest, TokensKeep,
         DevicesKeep
  PROVE  /\ UNCHANGED <<token, device>> => Issued'
         /\ UNCHANGED popup => PairsToken'
         /\ UNCHANGED renewal => RenewsToken'
         /\ UNCHANGED call /\ key' \in {key, NoDevice} => CallsOfKey'
         /\ UNCHANGED <<renewal, key, registration>> => FencedEmpty'
         /\ UNCHANGED <<popup, registration>> => Unregistered'
         /\ UNCHANGED <<popup, session, key, renewal>> => SeveredOrWarned'
<1> USE DEF Honest
<1>1. UNCHANGED <<token, device>> => Issued'
  BY DEF Issued
<1>3. UNCHANGED popup => PairsToken'
  BY DEF PairsToken, TokensKeep, ActorsTyped, PopupType, Pairing
<1>4. UNCHANGED renewal => RenewsToken'
  BY DEF RenewsToken, TokensKeep, InFlight, ActorsTyped, RenewalType
<1>5. ASSUME UNCHANGED call, key' \in {key, NoDevice}, NEW c \in Callers
      PROVE  CallOfKey(c)'
  <2>1. CallOfKey(c) /\ call[c] \in CallType
    BY DEF CallsOfKey, ActorsTyped
  <2>2. CASE call[c].pc \in {"got", "refused"}
    <3>1. /\ call[c].token \in Tokens
          /\ token[call[c].token].device \in Devices
          /\ InFlight(call[c].token)
      BY <2>1, <2>2 DEF CallOfKey, CallType, InFlight, ServerTyped, TokenType
    <3> QED BY <1>5, <2>1, <2>2, <3>1, NoneAssumption
            DEF CallOfKey, TokensKeep, DevicesKeep
  <2>3. CASE call[c].pc \notin {"got", "refused"}
    BY <1>5, <2>1, <2>3 DEF CallOfKey
  <2> QED BY <2>2, <2>3
<1>6. UNCHANGED <<renewal, key, registration>> => FencedEmpty'
  BY DEF FencedEmpty
<1>7. UNCHANGED <<popup, registration>> => Unregistered'
  BY DEF Unregistered
<1>8. UNCHANGED <<popup, session, key, renewal>> => SeveredOrWarned'
  BY DEF SeveredOrWarned, Severed, DevicesKeep, StoresTyped
<1> QED BY <1>1, <1>3, <1>4, <1>5, <1>6, <1>7, <1>8 DEF CallsOfKey

LEMMA WorkbenchHonest ==
  ASSUME TypeOK, Honest, SessionOfKey, DevicesKeep, NoneMet,
         Workbench \/ UNCHANGED vars
  PROVE  Honest'
<1>t. ServerTyped /\ StoresTyped /\ ActorsTyped
  BY TypeParts
<1> USE DEF stores
<1>1. UNCHANGED <<stores, popup, call, renewal>>
  BY DEF Workbench, CreateCode, ExpireCode, RevokeDevice, Age, vars
<1>2. TokensKeep /\ Issued'
  <2>1. CASE UNCHANGED vars \/ \E c \in Codes : CreateCode(c) \/ ExpireCode(c)
    BY <2>1, <1>t, ServerKept, PartsKept DEF CreateCode, ExpireCode, vars
  <2>2. ASSUME NEW d \in Devices, RevokeDevice(d)
        PROVE  TokensKeep /\ Issued'
    <3>1. \A e \in Devices : device[e] # "unknown" => device'[e] # "unknown"
      BY DEF DevicesKeep
    <3>2. UNCHANGED token
      BY <2>2 DEF RevokeDevice
    <3> QED BY <3>1, <3>2, <1>t, ServerKept
            DEF Honest, Issued, ServerTyped, TokenType
  <2>3. ASSUME NEW t \in Tokens, Age(t)
        PROVE  TokensKeep /\ Issued'
    <3>1. token[t].device # NoDevice
      <4>1. CASE t = session
        BY <4>1, <1>t, NoneAssumption DEF SessionOfKey, StoresTyped
      <4>2. CASE t = popup.token
        BY <4>2, <1>t, NoneAssumption
           DEF Honest, PairsToken, ActorsTyped, PopupType, Pairing
      <4>3. CASE t = renewal.token
        BY <4>3, NoneAssumption DEF Honest, RenewsToken
      <4>4. CASE \E c \in Callers : call[c].token = t
        BY <4>4, NoneAssumption DEF Honest, CallsOfKey, CallOfKey
      <4> QED BY <2>3, <4>1, <4>2, <4>3, <4>4 DEF Age, Held
    <3>2. PICK age \in {"aging", "expired"} :
            /\ token' = [token EXCEPT ![t] = [token[t] EXCEPT !.age = age]]
            /\ InFlight(t) => age # "expired"
      BY <2>3, NoneMetNames DEF Age
    <3>3. \A s \in Tokens : /\ token'[s].device = token[s].device
                            /\ s # t => token'[s] = token[s]
                            /\ s = t => token'[s].age = age
      BY <3>2, <1>t DEF ServerTyped, TokenType
    <3>4. UNCHANGED device
      BY <2>3 DEF Age
    <3>5. TokensKeep
      BY <3>2, <3>3 DEF TokensKeep
    <3>6. Issued'
      BY <3>1, <3>3, <3>4 DEF Honest, Issued
    <3> QED BY <3>5, <3>6
  <2> QED BY <2>1, <2>2, <2>3 DEF Workbench
<1>3. PairsToken' /\ RenewsToken' /\ CallsOfKey'
  BY <1>1, <1>2, <1>t, PartsKept
<1>4. FencedEmpty' /\ Unregistered' /\ SeveredOrWarned'
  BY <1>1, <1>2, <1>t, PartsKept
<1> QED BY <1>2, <1>3, <1>4 DEF Honest

\* The popup: what it shows when it opens, closes or waits for a code.
LEMMA QuietPopupHonest ==
  ASSUME TypeOK, Honest, SessionOfKey, DevicesKeep, NoneMet,
         Open \/ Close \/ PairRefused
  PROVE  Honest'
<1>t. ServerTyped /\ StoresTyped /\ ActorsTyped
  BY TypeParts
<1>1. UNCHANGED <<token, device, session, registration, key, call, renewal>>
  BY DEF Open, Close, PairRefused, server, stores
<1>2. TokensKeep
  BY <1>1, ServerKept
<1>3. /\ popup'.pc \in {"closed", "opening", "form"}
      /\ popup'.token = NoToken
      /\ popup'.pc = "form" => popup.pc = "pairing"
      /\ popup.pc # "unlinking"
  BY NoneMetNames DEF Open, Close, PairRefused, ClosedPopup, Form
<1>4. PairsToken'
  BY <1>3 DEF PairsToken
<1>5. Unregistered'
  BY <1>1, <1>3 DEF Honest, Unregistered
<1>6. SeveredOrWarned'
  BY <1>1, <1>3 DEF Honest, SeveredOrWarned, Severed
<1> QED BY <1>1, <1>2, <1>4, <1>5, <1>6, <1>t, PartsKept DEF Honest

LEMMA PairingHonest ==
  ASSUME TypeOK, Grounds, Honest, SessionOfKey, DevicesKeep, NoneMet,
         ClearsNothing, RenewsLinked, PairsKey,
         \/ \E c \in Codes, d \in Devices : Submit(c, d)
         \/ PairServed \/ PairAnswered \/ SaveRegistration \/ SaveBinding
  PROVE  Honest'
<1>t. ServerTyped /\ StoresTyped /\ ActorsTyped
  BY TypeParts
<1> USE DEF stores, server
<1>1. ASSUME NEW c \in Codes, NEW d \in Devices, Submit(c, d)
      PROVE  Honest'
  <2>1. ~Condemned
    BY <1>1, NoneMetNames, Booleans DEF Submit
  <2>2. UNCHANGED <<token, device, session, registration, call, renewal>>
    BY <1>1 DEF Submit
  <2>3. /\ popup.pc = "form" /\ popup'.pc = "pairing"
        /\ popup'.token = NoToken /\ key' = d
        /\ key # NoDevice => key' = key
    BY <1>1, NoneAssumption DEF Submit, DeviceKey, ClosedPopup
  <2>5. PairsToken' /\ Unregistered'
    BY <2>2, <2>3 DEF Honest, PairsToken, Unregistered
  <2>6. CallsOfKey'
    BY <2>1, <2>2 DEF Honest, CallsOfKey, CallOfKey, Condemned
  <2>7. FencedEmpty'
    BY <2>1, <2>2 DEF Honest, FencedEmpty, Condemned
  <2>8. SeveredOrWarned'
    BY <2>2, <2>3, NoneAssumption
       DEF Honest, SeveredOrWarned, Severed, RenewsLinked, Linked, RenewsToken
  <2> QED BY <2>2, <2>5, <2>6, <2>7, <2>8, <1>t, PartsKept, ServerKept
          DEF Honest
<1>2. CASE PairServed
  <2>1. /\ UNCHANGED <<token, device, session, registration, key, call, renewal>>
        /\ popup.pc = "pairing" /\ popup'.pc = "served"
        /\ popup'.token = popup.token
    BY <1>2, <1>t DEF PairServed, ActorsTyped, PopupType
  <2>2. PairsToken' /\ Unregistered' /\ SeveredOrWarned'
    BY <2>1 DEF Honest, PairsToken, Unregistered, SeveredOrWarned, Severed
  <2> QED BY <2>1, <2>2, <1>t, PartsKept, ServerKept DEF Honest
<1>5. CASE PairAnswered
  <2>0. UNCHANGED <<session, registration, key, call, renewal>>
    BY <1>5 DEF PairAnswered
  <2>1. CASE UNCHANGED <<token, device, popup>>
    BY <2>0, <2>1, <1>t, PartsKept, ServerKept DEF Honest
  <2>2. ASSUME NEW t \in Tokens, Redeem(redeeming.code, redeeming.device, t),
               popup' = IF popup.pc = "served"
                        THEN [popup EXCEPT !.pc = "answered", !.token = t]
                        ELSE popup
        PROVE  Honest'
    <3> DEFINE d == redeeming.device
    <3>1. d \in Devices
      BY <1>5, <1>t DEF PairAnswered, ServerTyped
    <3>2. /\ token' = [token EXCEPT ![t] = [token[t] EXCEPT !.device = d]]
          /\ token[t].device = NoDevice
      BY <2>2 DEF Redeem, Issue
    <3>3. /\ \A s \in Tokens : s # t => token'[s] = token[s]
          /\ token'[t].device = d
      BY <3>1, <3>2, <1>t DEF ServerTyped, TokenType
    <3>4. device'[d] # "unknown"
      BY <2>2, <3>1, <1>t DEF Redeem, ServerTyped
    <3>5. TokensKeep
      BY <3>2, <3>3 DEF TokensKeep
    <3>6. Issued'
      BY <3>1, <3>2, <3>3, <3>4, <1>t, NoneAssumption
         DEF Honest, Issued, ServerTyped, TokenType, DevicesKeep
    <3>7. CASE popup.pc # "served"
      BY <2>0, <2>2, <3>5, <3>6, <3>7, <1>t, PartsKept DEF Honest
    <3>8. CASE popup.pc = "served"
      <4>1. /\ popup'.pc = "answered" /\ popup'.token = t
            /\ popup'.device = d /\ registration = NoDevice
        BY <2>2, <3>8, <1>t DEF ActorsTyped, PopupType, Grounds, Serving,
                                Honest, Unregistered
      <4>2. PairsToken' /\ Unregistered'
        BY <2>0, <3>3, <4>1, NoneAssumption DEF PairsToken, Unregistered
      <4>3. renewal.pc = "saved" => renewal.fenced
        BY <4>1 DEF RenewsLinked, Linked, Honest, RenewsToken
      <4>4. SeveredOrWarned'
        BY <2>0, <4>1, <4>3 DEF SeveredOrWarned
      <4> QED BY <2>0, <3>5, <3>6, <4>2, <4>4, <1>t, PartsKept DEF Honest
    <3> QED BY <3>7, <3>8
  <2> QED BY <1>5, <2>1, <2>2, NoneMetNames DEF PairAnswered
<1>3. CASE SaveRegistration
  <2>1. /\ popup' = [popup EXCEPT !.pc = "registered"]
        /\ UNCHANGED <<token, device, session, key, call, renewal>>
    BY <1>3, NoneMetNames DEF SaveRegistration
  <2>2. /\ popup.pc = "answered" /\ popup'.pc = "registered"
        /\ popup'.token = popup.token /\ popup'.device = popup.device
    BY <1>3, <2>1, <1>t DEF SaveRegistration, ActorsTyped, PopupType
  <2>3. PairsToken' /\ Unregistered'
    BY <2>1, <2>2 DEF Honest, PairsToken, Unregistered
  <2>4. FencedEmpty'
    BY <2>1, <2>2
       DEF Honest, FencedEmpty, ClearsNothing, MidPairing, Pairing
  <2>5. SeveredOrWarned'
    BY <2>1, <2>2 DEF Honest, SeveredOrWarned, Severed
  <2> QED BY <2>1, <2>3, <2>4, <2>5, <1>t, PartsKept, ServerKept DEF Honest
<1>4. CASE SaveBinding
  <2>1. /\ session' = popup.token
        /\ UNCHANGED <<token, device, registration, key, call, renewal>>
    BY <1>4 DEF SaveBinding
  <2>2. /\ popup.pc = "registered" /\ popup'.pc = "opening"
        /\ popup'.token = NoToken /\ popup.device # NoDevice
        /\ key = popup.device
    BY <1>4, <1>t DEF SaveBinding, ClosedPopup, PairsKey, MidPairing, Pairing,
                      ActorsTyped, PopupType
  <2>4. PairsToken' /\ Unregistered'
    BY <2>2 DEF PairsToken, Unregistered
  <2>5. SeveredOrWarned'
    BY <2>1, <2>2 DEF Honest, SeveredOrWarned, PairsToken
  <2> QED BY <2>1, <2>4, <2>5, <1>t, PartsKept, ServerKept DEF Honest
<1> QED BY <1>1, <1>2, <1>3, <1>4, <1>5

LEMMA UnbindingHonest ==
  ASSUME TypeOK, Honest, SessionOfKey, DevicesKeep, NoneMet,
         RevokeRemotely \/ Unlink
  PROVE  Honest'
<1>t. ServerTyped /\ StoresTyped /\ ActorsTyped
  BY TypeParts
<1>1. CASE RevokeRemotely
  <2>1. /\ UNCHANGED <<token, registration, key, call, renewal>>
        /\ session' = NoToken
    BY <1>1 DEF RevokeRemotely
  <2>2. /\ popup.pc = "paired"
        /\ popup'.pc = "unlinking" /\ popup'.token = NoToken
    BY <1>1 DEF RevokeRemotely, Unbinding, ClosedPopup
  <2>3. session # NoToken => /\ key \in Devices
                             /\ token[session].device = key
    BY <1>t DEF SessionOfKey, StoresTyped
  <2>5. Severed' \/ popup'.warned
    <3>1. CASE session = NoToken
      <4>1. Severed /\ UNCHANGED device
        BY <1>1, <2>2, <3>1 DEF RevokeRemotely, Honest, SeveredOrWarned
      <4> QED BY <2>1, <4>1 DEF Severed
    <3>2. CASE session # NoToken /\ Revoke(token[session].device)
      <4>1. device'[key] = "revoked"
        BY <2>3, <3>2, <1>t DEF Revoke, ServerTyped
      <4> QED BY <2>1, <4>1 DEF Severed
    <3>3. CASE Unbinding(TRUE)
      BY <3>3 DEF Unbinding, ClosedPopup
    <3> QED BY <1>1, <3>1, <3>2, <3>3 DEF RevokeRemotely
  <2>6. Issued'
    BY <2>1, <1>t DEF Honest, Issued, DevicesKeep, ServerTyped, TokenType
  <2>7. PairsToken' /\ Unregistered' /\ SeveredOrWarned'
    BY <2>1, <2>2, <2>5 DEF PairsToken, Unregistered, SeveredOrWarned
  <2> QED BY <2>1, <2>6, <2>7, <1>t, PartsKept, ServerKept DEF Honest
<1>2. CASE Unlink
  <2>1. /\ UNCHANGED <<token, device, call>>
        /\ session' = NoToken /\ registration' = NoDevice /\ key' = NoDevice
        /\ popup'.pc = "opening" /\ popup'.token = NoToken
    BY <1>2 DEF Unlink, ClearStores, ClosedPopup, server
  <2>2. \/ renewal' = renewal
        \/ renewal'.pc = "retryable" /\ renewal'.token = NoToken
             /\ renewal'.fenced
        \/ /\ renewal'.pc = renewal.pc /\ renewal'.device = renewal.device
           /\ renewal'.token = renewal.token
           /\ renewal'.fenced
    BY <1>2, <1>t DEF Unlink, Fence, Ends, ActorsTyped, RenewalType
  <2>3. RenewsToken' /\ FencedEmpty'
    BY <2>1, <2>2 DEF Honest, RenewsToken, FencedEmpty
  <2>4. PairsToken' /\ Unregistered' /\ SeveredOrWarned'
    BY <2>1 DEF PairsToken, Unregistered, SeveredOrWarned, Severed
  <2> QED BY <2>1, <2>3, <2>4, <1>t, PartsKept, ServerKept DEF Honest
<1> QED BY <1>1, <1>2

\* The steps of a renewal that hold no token when they are done.
LEMMA RenewalGoesHonest ==
  ASSUME TypeOK, Honest, DevicesKeep,
         UNCHANGED <<token, device, stores, popup, call>>,
         NEW pc \in {"asking", "reading", "renewing", "served", "terminal"},
         NEW d \in Devices \cup {NoDevice},
         renewal' = [renewal EXCEPT !.pc = pc, !.device = d,
                                    !.token = NoToken]
  PROVE  Honest'
<1>t. ServerTyped /\ StoresTyped /\ ActorsTyped
  BY TypeParts
<1>1. /\ renewal'.pc = pc /\ renewal'.token = NoToken
      /\ renewal'.fenced = renewal.fenced
  BY <1>t DEF ActorsTyped, RenewalType
<1>2. RenewsToken'
  BY <1>1 DEF RenewsToken
<1>3. FencedEmpty' /\ SeveredOrWarned'
  BY <1>1 DEF Honest, FencedEmpty, SeveredOrWarned, Severed, stores
<1>4. UNCHANGED <<token, device, session, registration, key, popup, call>>
  BY DEF stores
<1> QED BY <1>2, <1>3, <1>4, <1>t, PartsKept, ServerKept DEF Honest

\* The promise of a renewal is settled: who waits for it is answered.
LEMMA SettledHonest ==
  ASSUME TypeOK, Honest, DevicesKeep, RenewsLinked,
         UNCHANGED <<token, device>>,
         \/ EndConnection \/ EndSession
         \/ FinishRenewal /\ ~renewal.fenced /\ Resolve(renewal.token)
  PROVE  Honest'
<1>t. ServerTyped /\ StoresTyped /\ ActorsTyped
  BY TypeParts
<1>1. /\ renewal'.pc = "idle" /\ renewal'.token = NoToken /\ ~renewal'.fenced
  BY DEF EndConnection, EndSession, Resolve, Reject, NoRenewal
<1>2. RenewsToken' /\ FencedEmpty'
  BY <1>1 DEF RenewsToken, FencedEmpty
<1>3. CASE EndConnection \/ EndSession
  <2>1. /\ key' \in {key, NoDevice} /\ session' = NoToken
        /\ registration' = NoDevice /\ key' = NoDevice
    BY <1>3 DEF EndConnection, ClearStores, EndSession, ClearSession, Honest,
                FencedEmpty
  <2>2. \/ popup' = popup
        \/ popup.pc = "opening" /\ popup'.pc = "form"
             /\ popup'.token = popup.token
    BY <1>3, <1>t
       DEF EndConnection, EndSession, Reject, Shown, ActorsTyped, PopupType
  <2>3. Unregistered' /\ SeveredOrWarned'
    BY <1>1, <2>1 DEF Unregistered, SeveredOrWarned, Severed
  <2>4. PairsToken'
    BY <2>2 DEF Honest, PairsToken
  <2>5. CallsOfKey'
    <3> SUFFICES ASSUME NEW c \in Callers PROVE CallOfKey(c)'
      BY DEF CallsOfKey
    <3>1. CallOfKey(c) /\ (call'[c] = call[c] \/ call'[c] = IdleCall)
      BY <1>3 DEF EndConnection, EndSession, Reject, Honest, CallsOfKey
    <3> QED BY <2>1, <3>1 DEF CallOfKey, IdleCall
  <2> QED BY <1>2, <2>3, <2>4, <2>5, <1>t, PartsKept, ServerKept DEF Honest
<1>4. CASE FinishRenewal /\ ~renewal.fenced /\ Resolve(renewal.token)
  <2>1. UNCHANGED <<session, registration, key>> /\ renewal.pc = "saved"
    BY <1>4 DEF FinishRenewal, stores
  <2>2. /\ renewal.token # NoToken /\ renewal.device # NoDevice
        /\ token[renewal.token].device = renewal.device
        /\ token[renewal.token].age # "expired"
        /\ key = renewal.device
    BY <1>4, <2>1 DEF Honest, RenewsToken, RenewsLinked, Linked
  <2>3. \/ popup' = popup
        \/ popup.pc = "opening" /\ popup'.pc = "paired"
             /\ popup'.token = popup.token
    BY <1>4, <1>t DEF Resolve, Shown, ActorsTyped, PopupType
  <2>4. PairsToken' /\ Unregistered'
    BY <2>1, <2>3 DEF Honest, PairsToken, Unregistered
  <2>5. SeveredOrWarned'
    BY <1>1, <1>4, <2>1, <2>3 DEF Honest, SeveredOrWarned, Severed
  <2>6. CallsOfKey'
    <3> SUFFICES ASSUME NEW c \in Callers PROVE CallOfKey(c)'
      BY DEF CallsOfKey
    <3>1. /\ CallOfKey(c)
          /\ \/ call'[c] = call[c] \/ call'[c] = IdleCall
             \/ call'[c] = Granted(renewal.token)
      BY <1>4 DEF Resolve, Honest, CallsOfKey
    <3> QED BY <2>1, <2>2, <3>1 DEF CallOfKey, IdleCall, Granted
  <2> QED BY <1>2, <2>1, <2>4, <2>5, <2>6, <1>t, PartsKept, ServerKept
          DEF Honest
<1> QED BY <1>3, <1>4

LEMMA RenewalHonest ==
  ASSUME TypeOK, Grounds, Honest, DevicesKeep, NoneMet, RenewsLinked,
         RenewalStep
  PROVE  Honest'
<1>t. ServerTyped /\ StoresTyped /\ ActorsTyped
  BY TypeParts
<1>r. renewal \in RenewalType
  BY <1>t DEF ActorsTyped
<1>n. ~Meet("network") /\ ~Meet("body")
  BY NoneMetNames
<1>c. Condemn => renewal' = [renewal EXCEPT !.pc = "terminal",
                               !.device = NoDevice, !.token = NoToken]
  BY DEF Condemn, Ends
<1>o. renewal.pc \notin {"answered", "saved"} => renewal.token = NoToken
  BY DEF Honest, RenewsToken
<1>1. CASE StartRenewal \/ Challenge \/ Sign
  <2>1. UNCHANGED <<token, device, stores, popup, call>>
    BY <1>1 DEF StartRenewal, Challenge, Sign, server
  <2>2. \/ Condemn
        \/ \E pc \in {"asking", "reading", "renewing"},
              d \in Devices \cup {NoDevice} :
             renewal' = [renewal EXCEPT !.pc = pc, !.device = d,
                                        !.token = NoToken]
    <3>1. renewal.token = NoToken /\ renewal.device \in Devices \cup {NoDevice}
      BY <1>1, <1>o, <1>r DEF StartRenewal, Challenge, Sign, RenewalType
    <3>2. \A pc \in {"reading", "renewing"} :
            RenewTo(pc) => renewal' = [renewal EXCEPT !.pc = pc,
                             !.device = renewal.device, !.token = NoToken]
      BY <3>1, <1>r DEF RenewTo, RenewalType
    <3>3. CASE StartRenewal
      <4>1. CASE renewal' = [renewal EXCEPT !.pc = "asking",
                                            !.device = registration]
        <5>1. renewal' = [renewal EXCEPT !.pc = "asking",
                            !.device = registration, !.token = NoToken]
          BY <3>1, <4>1, <1>r DEF RenewalType
        <5> QED BY <5>1, <1>t DEF StoresTyped
      <4> QED BY <3>3, <4>1 DEF StartRenewal
    <3>4. CASE Challenge \/ Sign
      BY <3>1, <3>2, <3>4 DEF Challenge, Sign
    <3> QED BY <1>1, <3>3, <3>4
  <2> QED BY <2>1, <2>2, <1>c, RenewalGoesHonest
<1>2. CASE RequestFails \/ BrokenBody
  BY <1>2, <1>n DEF RequestFails, BrokenBody
<1>3. CASE ReadDevice
  <2>0. UNCHANGED <<token, device, stores, popup, call>>
    BY <1>3 DEF ReadDevice
  <2>1. CASE Condemn
    BY <2>0, <2>1, <1>c, RenewalGoesHonest
  <2>2. CASE RenewTo("served")
    <3>1. /\ renewal.device \in Devices \cup {NoDevice}
          /\ renewal' = [renewal EXCEPT !.pc = "served",
                           !.device = renewal.device, !.token = NoToken]
      BY <1>3, <2>2, <1>o, <1>r DEF ReadDevice, RenewTo, RenewalType
    <3> QED BY <2>0, <3>1, RenewalGoesHonest
  <2> QED BY <1>3, <2>1, <2>2 DEF ReadDevice
<1>7. CASE Renew
  <2>0. UNCHANGED <<device, stores, popup, call>> /\ proven \in Devices
    BY <1>7, <1>t DEF Renew, ServerTyped
  <2>1. CASE UNCHANGED <<token, renewal>>
    BY <2>0, <2>1, <1>t, PartsKept, ServerKept DEF Honest, stores
  <2>2. ASSUME NEW t \in Tokens, Issue(t, proven),
               renewal' = IF renewal.pc = "served"
                          THEN [renewal EXCEPT !.pc = "answered", !.token = t]
                          ELSE renewal
        PROVE  Honest'
    <3>2. /\ token[t].device = NoDevice
          /\ token' = [token EXCEPT ![t] =
                         [token[t] EXCEPT !.device = proven]]
      BY <2>2 DEF Issue
    <3>3. /\ \A s \in Tokens : s # t => token'[s] = token[s]
          /\ token'[t].device = proven /\ token'[t].age = token[t].age
      BY <3>2, <1>t DEF ServerTyped, TokenType
    <3>4. token[t].age = "fresh"
      BY <3>2 DEF Honest, Issued
    <3>5. TokensKeep
      BY <3>2, <3>3 DEF TokensKeep
    <3>6. Issued'
      BY <2>0, <3>3, NoneAssumption DEF Honest, Issued, Grounds, Known
    <3>7. CASE renewal.pc # "served"
      BY <2>0, <2>2, <3>5, <3>6, <3>7, <1>t, PartsKept DEF Honest, stores
    <3>8. CASE renewal.pc = "served"
      <4>1. /\ renewal'.pc = "answered" /\ renewal'.token = t
            /\ renewal'.device = proven
            /\ renewal'.fenced = renewal.fenced
        BY <2>2, <3>8, <1>r DEF RenewalType, Grounds, Serving
      <4>2. RenewsToken'
        BY <2>0, <3>3, <3>4, <4>1, NoneAssumption DEF RenewsToken
      <4>3. FencedEmpty' /\ SeveredOrWarned'
        BY <2>0, <4>1
           DEF stores, Honest, FencedEmpty, SeveredOrWarned, Severed
      <4> QED BY <2>0, <3>5, <3>6, <4>2, <4>3, <1>t, PartsKept
              DEF Honest, stores
    <3> QED BY <3>7, <3>8
  <2> QED BY <1>7, <1>n, <2>1, <2>2 DEF Renew
<1>4. CASE SaveRenewed
  <2>0. UNCHANGED <<token, device, registration, key, popup, call>>
    BY <1>4 DEF SaveRenewed, server
  <2>1. CASE Condemn /\ UNCHANGED session
    BY <1>4, <2>0, <2>1, <1>c, RenewalGoesHonest DEF SaveRenewed, stores
  <2>2. CASE ~renewal.fenced /\ session' = renewal.token /\ RenewTo("saved")
    <3>1. /\ renewal'.pc = "saved" /\ renewal'.token = renewal.token
          /\ renewal'.device = renewal.device
          /\ renewal'.fenced = renewal.fenced
      BY <2>2, <1>r DEF RenewTo, RenewalType
    <3>2. /\ renewal.token # NoToken /\ renewal.device # NoDevice
          /\ token[renewal.token].device = renewal.device
          /\ key = renewal.device
      BY <1>4, <2>2
         DEF SaveRenewed, Honest, RenewsToken, RenewsLinked, Linked
    <3>4. RenewsToken' /\ FencedEmpty'
      BY <1>4, <2>0, <3>1 DEF SaveRenewed, Honest, RenewsToken, FencedEmpty
    <3>5. SeveredOrWarned'
      BY <2>0, <2>2, <3>2 DEF Honest, SeveredOrWarned, Severed
    <3> QED BY <2>0, <3>4, <3>5, <1>t, PartsKept, ServerKept DEF Honest
  <2> QED BY <1>4, <2>1, <2>2 DEF SaveRenewed
<1>5. CASE FinishRenewal
  <2>1. CASE Condemn /\ UNCHANGED <<popup, call>>
    BY <1>5, <2>1, <1>c, RenewalGoesHonest DEF FinishRenewal, server
  <2>2. CASE ~renewal.fenced /\ Resolve(renewal.token)
    BY <1>5, <2>2, SettledHonest DEF FinishRenewal, server
  <2> QED BY <1>5, <2>1, <2>2 DEF FinishRenewal
<1>6. CASE EndConnection \/ EndSession
  BY <1>6, SettledHonest DEF EndConnection, EndSession, server
<1> QED BY <1>1, <1>2, <1>3, <1>4, <1>5, <1>6, <1>7 DEF RenewalStep

LEMMA CallHonest ==
  ASSUME TypeOK, Honest, SessionOfKey, DevicesKeep, NEW c \in Callers,
         Call(c) \/ CallStep(c)
  PROVE  Honest'
<1>t. ServerTyped /\ StoresTyped /\ ActorsTyped
  BY TypeParts
<1>k. \A x \in Callers : CallOfKey(x) /\ call[x] \in CallType
  BY <1>t DEF Honest, CallsOfKey, ActorsTyped
<1>1. CASE Call(c)
  <2>0. UNCHANGED <<token, device, session, registration, key>>
    BY <1>1 DEF Call, server, stores
  <2>1. \/ popup' = popup
        \/ popup.pc = "opening" /\ popup'.pc = "paired" /\ session # NoToken
             /\ popup'.token = popup.token
    BY <1>1, <1>t DEF Call, Shown, ActorsTyped, PopupType
  <2>2. \/ renewal' = renewal
        \/ renewal'.pc = "starting" /\ renewal'.token = NoToken
             /\ ~renewal'.fenced
    BY <1>1 DEF Call, NoRenewal
  <2>3. CallsOfKey'
    <3> SUFFICES ASSUME NEW x \in Callers PROVE CallOfKey(x)'
      BY DEF CallsOfKey
    <3>1. CASE x # c
      <4>1. call'[x] = call[x]
        BY <1>1, <3>1, <1>t DEF Call, ActorsTyped
      <4> QED BY <2>0, <4>1, <1>k DEF CallOfKey
    <3>2. CASE x = c
      <4>1. \/ call'[c] = call[c]
            \/ /\ call'[c] = Granted(session) /\ session # NoToken
               /\ token[session].age = "fresh"
            \/ /\ call'[c].pc \in {"clearing", "waiting"}
               /\ call'[c].token = call[c].token /\ call[c].pc = "idle"
        BY <1>1, <1>t DEF Call, ActorsTyped, CallType
      <4> QED BY <2>0, <3>2, <4>1, <1>k
              DEF CallOfKey, Granted, SessionOfKey
    <3> QED BY <3>1, <3>2
  <2>4. PairsToken' /\ Unregistered'
    BY <2>0, <2>1 DEF Honest, PairsToken, Unregistered
  <2>5. RenewsToken' /\ FencedEmpty'
    BY <2>0, <2>2 DEF Honest, RenewsToken, FencedEmpty
  <2>6. SeveredOrWarned'
    BY <2>0, <2>1, <2>2 DEF Honest, SeveredOrWarned, Severed
  <2> QED BY <2>0, <2>3, <2>4, <2>5, <2>6, <1>t, PartsKept, ServerKept
          DEF Honest
<1>2. CASE ClearAfterCall(c)
  <2>1. /\ UNCHANGED <<token, device, renewal>>
        /\ session' = NoToken /\ registration' = NoDevice /\ key' = NoDevice
        /\ call' = [call EXCEPT ![c] = IdleCall]
    BY <1>2 DEF ClearAfterCall, ClearStores, server
  <2>2. \/ popup' = popup
        \/ popup.pc = "opening" /\ popup'.pc = "form"
             /\ popup'.token = popup.token
    BY <1>2, <1>t DEF ClearAfterCall, Shown, ActorsTyped, PopupType
  <2>3. CallsOfKey'
    BY <2>1, <1>k, <1>t DEF CallsOfKey, CallOfKey, IdleCall, ActorsTyped
  <2>4. Unregistered' /\ SeveredOrWarned'
    BY <2>1 DEF Unregistered, SeveredOrWarned, Severed
  <2>5. PairsToken'
    BY <2>1, <2>2 DEF Honest, PairsToken
  <2>6. FencedEmpty'
    BY <2>1 DEF Honest, FencedEmpty
  <2> QED BY <2>1, <2>3, <2>4, <2>5, <2>6, <1>t, PartsKept, ServerKept
          DEF Honest
<1>3. CASE Use(c)
  <2>1. UNCHANGED <<token, device, session, registration, key, popup, renewal>>
    BY <1>3 DEF Use, server, stores
  <2>2. CallsOfKey'
    <3> SUFFICES ASSUME NEW x \in Callers PROVE CallOfKey(x)'
      BY DEF CallsOfKey
    <3>1. CASE x # c
      <4>1. call'[x] = call[x]
        BY <1>3, <3>1, <1>t DEF Use, ActorsTyped
      <4> QED BY <2>1, <4>1, <1>k DEF CallOfKey
    <3>2. CASE x = c /\ Authenticates(call[c].token)
      BY <1>3, <3>2, <1>t DEF Use, ActorsTyped, CallOfKey, IdleCall
    <3>3. CASE x = c /\ ~Authenticates(call[c].token)
      <4>1. /\ call[c].pc = "got" /\ call'[c].pc = "refused"
            /\ call'[c].token = call[c].token
        BY <1>3, <3>3, <1>t DEF Use, ActorsTyped, CallType
      <4>2. /\ call[c].token \in Tokens
            /\ token[call[c].token].device \in Devices
            /\ token[call[c].token].age # "expired"
        BY <4>1, <1>k, <1>t DEF CallOfKey, CallType, ServerTyped, TokenType
      <4>3. device[token[call[c].token].device] = "revoked"
        BY <3>3, <4>2, <1>t, NoneAssumption
           DEF Authenticates, Honest, Issued, ServerTyped
      <4> QED BY <2>1, <3>3, <4>1, <4>3, <1>k DEF CallOfKey
    <3> QED BY <3>1, <3>2, <3>3
  <2> QED BY <2>1, <2>2, <1>t, PartsKept, ServerKept DEF Honest
<1>4. CASE ClearRefused(c)
  <2>1. /\ UNCHANGED <<token, device, registration, key, popup, renewal>>
        /\ session' = NoToken
        /\ call' = [call EXCEPT ![c] = IdleCall]
    BY <1>4 DEF ClearRefused, server
  <2>2. Severed
    BY <1>4, <1>k DEF ClearRefused, CallOfKey, Severed
  <2>3. CallsOfKey'
    BY <2>1, <1>k, <1>t DEF CallsOfKey, CallOfKey, IdleCall, ActorsTyped
  <2>4. SeveredOrWarned'
    BY <2>1, <2>2 DEF SeveredOrWarned, Severed
  <2> QED BY <2>1, <2>3, <2>4, <1>t, PartsKept, ServerKept DEF Honest
<1> QED BY <1>1, <1>2, <1>3, <1>4 DEF CallStep

LEMMA HonestInvStep ==
  ASSUME TypeOK, Grounds, ConnectionInv, SessionInv, HonestInv, [Next]_vars
  PROVE  HonestInv'
<1> SUFFICES ASSUME Untouched' PROVE Honest'
  BY DEF HonestInv
<1>g. Untouched => Gentle
  BY DEF Untouched, Gentle, Unmet, Hazards
<1>1. CASE UNCHANGED vars
  <2>1. Untouched
    BY <1>1 DEF Untouched, Unmet, vars
  <2>2. /\ ServerTyped /\ StoresTyped /\ ActorsTyped /\ Honest
        /\ DevicesKeep
    BY <1>1, <2>1, TypeParts DEF HonestInv, DevicesKeep, vars
  <2> QED BY <1>1, <2>2, PartsKept, ServerKept DEF Honest, vars
<1>2. CASE Next
  <2>1. /\ Honest /\ NoneMet /\ ClearsNothing /\ RenewsLinked /\ PairsKey
        /\ SessionOfKey /\ DevicesKeep
    BY <1>2, <1>g, UntouchedBefore, ServerKeeps
       DEF HonestInv, ConnectionInv, SessionInv
  <2>2. ~Restart
    BY <2>1, NoneMetNames DEF Restart
  <2>3. CASE Workbench
    BY <2>1, <2>3, WorkbenchHonest
  <2>4. CASE PopupStep
    BY <2>1, <2>4, QuietPopupHonest, PairingHonest, UnbindingHonest
       DEF PopupStep
  <2>5. CASE RenewalStep
    BY <2>1, <2>5, RenewalHonest
  <2>6. CASE \E c \in Callers : Call(c) \/ CallStep(c)
    BY <2>1, <2>6, CallHonest
  <2> QED BY <1>2, <2>2, <2>3, <2>4, <2>5, <2>6 DEF Next
<1> QED BY <1>1, <1>2

\* Only the unbinding takes the popup to where it unlinks.
LEMMA OnlyUnbinding ==
  ASSUME TypeOK, Next, popup.pc = "paired", popup'.pc = "unlinking"
  PROVE  RevokeRemotely
<1>1. popup' # popup
  OBVIOUS
<1>2. \A pc \in {"form", "paired"} : Shown(pc) = popup
  BY DEF Shown
<1>3. ClosedPopup.pc # "unlinking"
  BY DEF ClosedPopup
<1>4. CASE Workbench
  BY <1>1, <1>4 DEF Workbench, CreateCode, ExpireCode, RevokeDevice, Age
<1>5. CASE PopupStep
  BY <1>1, <1>3, <1>5
     DEF PopupStep, Open, Close, Submit, PairServed, PairAnswered,
         PairRefused, SaveRegistration, SaveBinding, Unlink
<1>6. CASE RenewalStep
  BY <1>1, <1>2, <1>6
     DEF RenewalStep, StartRenewal, RequestFails, Challenge, BrokenBody, Sign,
         ReadDevice, Renew, SaveRenewed, FinishRenewal, EndConnection,
         EndSession, Resolve, Reject
<1>7. CASE \E c \in Callers : Call(c) \/ CallStep(c)
  BY <1>1, <1>2, <1>7
     DEF Call, CallStep, ClearAfterCall, Use, ClearRefused
<1>8. CASE Restart
  BY <1>1, <1>2, <1>3, <1>8 DEF Restart
<1> QED BY <1>4, <1>5, <1>6, <1>7, <1>8 DEF Next

UnbindsHonestly ==
  popup.pc = "paired" /\ popup'.pc = "unlinking" /\ ~popup'.warned
    /\ Unmet({"body", "overlap"})
  => \/ key = NoDevice
     \/ device'[key] = "revoked"
     \/ session = NoToken /\ ~Unmet({"network", "slow", "restart"})

LEMMA UnbindStep ==
  TypeOK /\ SessionInv /\ HonestInv /\ [Next]_vars => UnbindsHonestly
<1> SUFFICES ASSUME TypeOK, SessionInv, HonestInv, [Next]_vars,
                    popup.pc = "paired", popup'.pc = "unlinking",
                    ~popup'.warned, Gentle, key # NoDevice,
                    session = NoToken => Unmet({"network", "slow", "restart"})
             PROVE  device'[key] = "revoked"
  BY DEF UnbindsHonestly, Gentle
<1>t. ServerTyped /\ StoresTyped
  BY TypeParts
<1>1. RevokeRemotely
  BY OnlyUnbinding DEF vars
<1>2. CASE session = NoToken
  <2>1. Untouched
    BY <1>2 DEF Untouched, Gentle, Unmet, Hazards
  <2>2. device[key] = "revoked"
    BY <1>2, <2>1 DEF HonestInv, Honest, SeveredOrWarned, Severed
  <2> QED BY <1>1, <1>2, <2>2 DEF RevokeRemotely
<1>3. CASE session # NoToken
  <2>1. key \in Devices /\ token[session].device = key
    BY <1>3, <1>t DEF SessionInv, SessionOfKey, StoresTyped
  <2>2. ~Unbinding(TRUE)
    BY DEF Unbinding, ClosedPopup
  <2>3. Revoke(key)
    BY <1>1, <1>3, <2>1, <2>2 DEF RevokeRemotely
  <2> QED BY <2>1, <2>3, <1>t DEF Revoke, ServerTyped
<1> QED BY <1>2, <1>3

\* An unbinding that shows no warning has revoked the device whose key it
\* deletes, even when its own request fails, unless the session store had been
\* emptied by an earlier failure (popup/main.ts, unbind).
THEOREM UnbindingIsHonest == Spec => UnbindIsHonest
<1>1. Init => ConnectionInv /\ SessionInv /\ HonestInv
  <2> SUFFICES ASSUME Init PROVE ConnectionInv /\ SessionInv /\ Honest
    BY DEF HonestInv
  <2>1. ConnectionInv
    BY DEF Init, ConnectionInv, ClearsNothing, RenewsLinked, PairsKey,
           NoRenewal, MidPairing, ClosedPopup, Pairing, IdleCall, Busy
  <2>2. SessionInv /\ Issued /\ PairsToken /\ RenewsToken
    BY DEF Init, SessionInv, Issued, SessionOfKey, PairsToken, RenewsToken,
           NoRenewal, ClosedPopup
  <2>3. CallsOfKey /\ FencedEmpty /\ Unregistered /\ SeveredOrWarned
    BY DEF Init, CallsOfKey, CallOfKey, FencedEmpty, Unregistered,
           SeveredOrWarned, NoRenewal, ClosedPopup, IdleCall
  <2> QED BY <2>1, <2>2, <2>3 DEF Honest
<1>2. TypeInv => TypeOK /\ RenewalHolds
  BY DEF TypeInv
<1>3. Spec => [][UnbindsHonestly]_vars
  BY <1>1, <1>2, TypeInit, TypeStep, GroundsInit, GroundsStep,
     ConnectionInvStep, SessionStep, HonestInvStep, UnbindStep, PTL DEF Spec
<1> QED BY <1>3, PTL DEF UnbindIsHonest, UnbindsHonestly
=============================================================================
