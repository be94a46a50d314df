----------------------- MODULE ExtensionSessionProofs -----------------------
(***************************************************************************)
(* Proofs about ExtensionSession, for every number of codes, devices,      *)
(* tokens and pages and every bound on the hazards.                        *)
(***************************************************************************)
EXTENDS ExtensionSession, FiniteSetTheorems, TLAPS

\* Meeting a hazard keeps the counters counters, and none goes down.
LEMMA MeetCounts ==
  ASSUME met \in [Hazards -> Nat], NEW h \in Hazards, Meet(h)
  PROVE  /\ met' \in [Hazards -> Nat]
         /\ \A g \in Hazards : met'[g] >= met[g]
BY DEF Meet

LEMMA OverlapCounts ==
  ASSUME met \in [Hazards -> Nat], NEW condition \in BOOLEAN,
         MeetOverlapIf(condition)
  PROVE  /\ met' \in [Hazards -> Nat]
         /\ \A g \in Hazards : met'[g] >= met[g]
         /\ condition => met'["overlap"] > 0
BY MeetCounts DEF MeetOverlapIf, Meet, Hazards

\* No step forgets a hazard it has met.
LEMMA HazardsCount ==
  ASSUME TypeOK, Next
  PROVE  /\ met' \in [Hazards -> Nat]
         /\ \A g \in Hazards : met'[g] >= met[g]
<1> USE DEF TypeOK
<1>0. /\ met \in [Hazards -> Nat] /\ UNCHANGED met
        => met' \in [Hazards -> Nat] /\ \A g \in Hazards : met'[g] >= met[g]
  OBVIOUS
<1>1. ASSUME NEW h \in Hazards, Meet(h)
      PROVE  met' \in [Hazards -> Nat] /\ \A g \in Hazards : met'[g] >= met[g]
  BY <1>1, MeetCounts
<1>2. ASSUME NEW b \in BOOLEAN, MeetOverlapIf(b)
      PROVE  met' \in [Hazards -> Nat] /\ \A g \in Hazards : met'[g] >= met[g]
  BY <1>2, OverlapCounts
<1>h. {"network", "body", "overlap", "slow", "restart"} \subseteq Hazards
  BY DEF Hazards
<1>b. Condemned \in BOOLEAN /\ MidPairing \in BOOLEAN
  BY DEF Condemned, MidPairing
<1> HIDE DEF TypeOK
<1>t. met \in [Hazards -> Nat]
  BY DEF TypeOK
<1>3. CASE Workbench
  BY <1>3, <1>0, <1>1, <1>h, <1>t
     DEF Workbench, CreateCode, ExpireCode, RevokeDevice, Age
<1>4. CASE PopupStep
  BY <1>4, <1>0, <1>1, <1>2, <1>h, <1>b, <1>t
     DEF PopupStep, Open, Close, Submit, PairServed, PairAnswered,
         PairRefused, SaveRegistration, SaveBinding, RevokeRemotely, Unlink
<1>5. CASE RenewalStep
  BY <1>5, <1>0, <1>1, <1>2, <1>h, <1>b, <1>t
     DEF RenewalStep, StartRenewal, RequestFails, Challenge, BrokenBody,
         Sign, ReadDevice, Renew, SaveRenewed, FinishRenewal, EndConnection,
         EndSession,
         Condemn
<1>6. CASE \E c \in Callers : Call(c) \/ CallStep(c)
  BY <1>6, <1>0, <1>2, <1>b, <1>t
     DEF Call, CallStep, ClearAfterCall, Use, ClearRefused
<1>7. CASE Restart
  BY <1>7, <1>1, <1>h, <1>t DEF Restart
<1>8. QED
  BY <1>3, <1>4, <1>5, <1>6, <1>7 DEF Next

---------------------------------------------------------------------------
(* Types *)

PopupType ==
  {p \in [pc: PopupPC, device: Devices \cup {NoDevice},
          token: Tokens \cup {NoToken}, code: Codes \cup {NoCode},
          warned: BOOLEAN] : /\ p.pc \in Pairing <=> p.device # NoDevice
                             /\ p.pc \in Pairing <=> p.code # NoCode}
CallType == [pc: {"idle", "waiting", "clearing", "got", "refused"},
             token: Tokens \cup {NoToken}]
RenewalType == [pc: RenewalPC, device: Devices \cup {NoDevice},
                token: Tokens \cup {NoToken}, fenced: BOOLEAN]
TokenType == [device: Devices \cup {NoDevice},
              age: {"fresh", "aging", "expired"}]

ServerTyped ==
  /\ code \in [Codes -> {"unissued", "open", "used", "dead"}]
  /\ redeemer \in [Codes -> Devices \cup {NoDevice}]
  /\ device \in [Devices -> {"unknown", "active", "revoked"}]
  /\ token \in [Tokens -> TokenType]
  /\ redeeming \in [code: Codes, device: Devices] \cup {NoPairing}
  /\ proven \in Devices \cup {NoDevice}
StoresTyped ==
  /\ session \in Tokens \cup {NoToken}
  /\ registration \in Devices \cup {NoDevice}
  /\ key \in Devices \cup {NoDevice}
  /\ made \subseteq Devices
ActorsTyped ==
  /\ popup \in PopupType
  /\ call \in [Callers -> CallType]
  /\ renewal \in RenewalType
HistoryTyped ==
  connected \in [Codes -> SUBSET Devices] /\ unlinked \in BOOLEAN

LEMMA TypeParts ==
  TypeOK <=> /\ ServerTyped /\ StoresTyped /\ ActorsTyped /\ HistoryTyped
             /\ met \in [Hazards -> Nat]
BY DEF TypeOK, ServerTyped, StoresTyped, ActorsTyped, HistoryTyped, PopupType,
       CallType, RenewalType, TokenType

LEMMA TypePartsNext ==
  TypeOK' <=> /\ ServerTyped' /\ StoresTyped' /\ ActorsTyped'
              /\ HistoryTyped' /\ met' \in [Hazards -> Nat]
BY DEF TypeOK, ServerTyped, StoresTyped, ActorsTyped, HistoryTyped, PopupType,
       CallType, RenewalType, TokenType

\* What the popup becomes when it is not pairing.
LEMMA PlainPopup ==
  ASSUME NEW pc \in PopupPC \ Pairing
  PROVE  /\ [ClosedPopup EXCEPT !.pc = pc] \in PopupType
         /\ \A b \in BOOLEAN :
              [ClosedPopup EXCEPT !.pc = pc, !.warned = b] \in PopupType
BY DEF ClosedPopup, PopupType

LEMMA PopupViews ==
  /\ ClosedPopup \in PopupType /\ Form \in PopupType
  /\ {"closed", "opening", "form", "paired", "unlinking"}
       \subseteq PopupPC \ Pairing
BY DEF ClosedPopup, Form, PopupType, PopupPC, Pairing

LEMMA ShownType ==
  ASSUME popup \in PopupType, NEW pc \in PopupPC \ Pairing
  PROVE  Shown(pc) \in PopupType
BY DEF Shown, PopupType, Pairing

LEMMA RenewalMoves ==
  ASSUME renewal \in RenewalType, NEW pc \in RenewalPC
  PROVE  /\ Ends(pc) \in RenewalType
         /\ [renewal EXCEPT !.pc = pc] \in RenewalType
         /\ [Ends(pc) EXCEPT !.fenced = TRUE] \in RenewalType
         /\ [renewal EXCEPT !.fenced = TRUE] \in RenewalType
         /\ \A d \in Devices :
              [renewal EXCEPT !.pc = pc, !.device = d] \in RenewalType
         /\ \A t \in Tokens :
              [renewal EXCEPT !.pc = pc, !.token = t] \in RenewalType
BY DEF Ends, RenewalType

LEMMA RenewalNames ==
  /\ {"idle", "starting", "asking", "reading", "renewing", "served",
      "answered", "saved", "retryable", "terminal"} \subseteq RenewalPC
  /\ NoRenewal \in RenewalType
  /\ [NoRenewal EXCEPT !.pc = "starting"] \in RenewalType
BY DEF RenewalPC, NoRenewal, RenewalType

LEMMA CallMoves ==
  /\ IdleCall \in CallType
  /\ \A t \in Tokens : Granted(t) \in CallType
BY DEF IdleCall, Granted, CallType

LEMMA StoresCleared ==
  ClearStores /\ UNCHANGED made /\ StoresTyped => StoresTyped'
BY DEF ClearStores, StoresTyped

\* The actions that leave the server alone.
Quietly ==
  \/ Open \/ Close \/ (\E c \in Codes, d \in Devices : Submit(c, d))
  \/ PairRefused \/ SaveRegistration \/ SaveBinding \/ Unlink
  \/ StartRenewal \/ RequestFails \/ Challenge \/ BrokenBody \/ Sign
  \/ SaveRenewed \/ FinishRenewal \/ EndConnection \/ EndSession
  \/ (\E c \in Callers : Call(c) \/ CallStep(c))
  \/ Restart

LEMMA NextCases ==
  Next <=> \/ Workbench \/ Quietly
           \/ PairServed \/ PairAnswered \/ RevokeRemotely
           \/ ReadDevice \/ Renew
BY Zenon DEF Next, PopupStep, RenewalStep, Quietly

LEMMA QuietlyUnchanged == Quietly => UNCHANGED server
<1> SUFFICES ASSUME Quietly PROVE UNCHANGED server
  OBVIOUS
<1> QED
  BY DEF Quietly, server, Open, Close, Submit, PairRefused, SaveRegistration,
         SaveBinding, Unlink, StartRenewal, RequestFails, Challenge,
         BrokenBody, Sign, SaveRenewed, FinishRenewal, EndConnection,
         EndSession, Call, CallStep, ClearAfterCall, Use, ClearRefused,
         Restart

LEMMA IssueType ==
  ASSUME token \in [Tokens -> TokenType], NEW t \in Tokens, NEW d \in Devices,
         Issue(t, d)
  PROVE  token' \in [Tokens -> TokenType]
BY DEF Issue, TokenType

LEMMA ServerStep ==
  ASSUME TypeOK, Next
  PROVE  ServerTyped'
<1>t. ServerTyped /\ StoresTyped /\ ActorsTyped
  BY TypeParts
<1>1. CASE Quietly
  BY <1>1, <1>t, QuietlyUnchanged DEF ServerTyped, server
<1>2. CASE Workbench
  <2>1. ASSUME NEW c \in Codes, CreateCode(c) \/ ExpireCode(c)
        PROVE  ServerTyped'
    BY <2>1, <1>t DEF CreateCode, ExpireCode, ServerTyped
  <2>2. ASSUME NEW d \in Devices, RevokeDevice(d) PROVE ServerTyped'
    BY <2>2, <1>t DEF RevokeDevice, Revoke, ServerTyped
  <2>3. ASSUME NEW t \in Tokens, Age(t) PROVE ServerTyped'
    <3>1. \/ token' = [token EXCEPT ![t].age = "aging"]
          \/ token' = [token EXCEPT ![t].age = "expired"]
      BY <2>3 DEF Age
    <3>2. token' \in [Tokens -> TokenType]
      BY <3>1, <1>t DEF ServerTyped, TokenType
    <3> QED BY <2>3, <3>2, <1>t DEF Age, ServerTyped
  <2> QED BY <1>2, <2>1, <2>2, <2>3 DEF Workbench
<1>3. CASE PairServed
  <2>1. popup.device \in Devices /\ popup.code \in Codes
    BY <1>3, <1>t DEF PairServed, ActorsTyped, PopupType, Pairing
  <2> QED BY <1>3, <2>1, <1>t DEF PairServed, ServerTyped
<1>4. CASE PairAnswered
  <2>0. UNCHANGED proven /\ redeeming' = NoPairing
    BY <1>4 DEF PairAnswered
  <2>1. CASE UNCHANGED <<code, redeemer, device, token>>
    BY <2>0, <2>1, <1>t DEF ServerTyped
  <2>2. ASSUME NEW t \in Tokens, Redeem(redeeming.code, redeeming.device, t)
        PROVE  ServerTyped'
    <3>1. redeeming.code \in Codes /\ redeeming.device \in Devices
      BY <1>4, <1>t DEF PairAnswered, ServerTyped
    <3>2. token' \in [Tokens -> TokenType]
      BY <2>2, <3>1, <1>t, IssueType DEF Redeem, ServerTyped
    <3> QED BY <2>0, <2>2, <3>1, <3>2, <1>t DEF Redeem, ServerTyped
  <2> QED BY <1>4, <2>1, <2>2 DEF PairAnswered
<1>5. CASE RevokeRemotely
  <2>1. UNCHANGED <<code, redeemer, token, redeeming, proven>>
    BY <1>5 DEF RevokeRemotely
  <2>2. \/ device' = device
        \/ device' = [device EXCEPT ![token[session].device] = "revoked"]
    BY <1>5 DEF RevokeRemotely, Revoke
  <2> QED BY <2>1, <2>2, <1>t DEF ServerTyped
<1>6. CASE ReadDevice
  <2>1. UNCHANGED <<code, redeemer, device, token, redeeming>>
    BY <1>6 DEF ReadDevice
  <2>2. proven' \in Devices \cup {NoDevice}
    BY <1>6, <1>t DEF ReadDevice, ActorsTyped, RenewalType, ServerTyped
  <2> QED BY <2>1, <2>2, <1>t DEF ServerTyped
<1>7. CASE Renew
  <2>1. UNCHANGED <<code, redeemer, device, redeeming>> /\ proven' = NoDevice
    BY <1>7 DEF Renew
  <2>2. proven \in Devices
    BY <1>7, <1>t DEF Renew, ServerTyped
  <2>3. token' \in [Tokens -> TokenType]
    BY <1>7, <2>2, <1>t, IssueType DEF Renew, ServerTyped
  <2> QED BY <2>1, <2>3, <1>t DEF ServerTyped
<1> QED BY <1>1, <1>2, <1>3, <1>4, <1>5, <1>6, <1>7, NextCases

LEMMA StoresStep ==
  ASSUME TypeOK, Next
  PROVE  StoresTyped'
<1>t. StoresTyped /\ ActorsTyped
  BY TypeParts
<1> USE DEF stores
<1>c. ClearStores /\ UNCHANGED made => StoresTyped'
  BY <1>t, StoresCleared
<1>u. UNCHANGED <<stores, made>> => StoresTyped'
  BY <1>t DEF StoresTyped
<1>s. session' \in Tokens \cup {NoToken}
        /\ UNCHANGED <<registration, key, made>> => StoresTyped'
  BY <1>t DEF StoresTyped
<1>1. CASE Workbench
  BY <1>1, <1>u DEF Workbench, CreateCode, ExpireCode, RevokeDevice, Age
<1>2. CASE PopupStep
  <2>1. CASE Open \/ Close \/ PairServed \/ PairAnswered \/ PairRefused
    BY <2>1, <1>u DEF Open, Close, PairServed, PairAnswered, PairRefused
  <2>2. ASSUME NEW c \in Codes, NEW d \in Devices, Submit(c, d)
        PROVE  StoresTyped'
    BY <2>2, <1>t DEF Submit, StoresTyped
  <2>3. CASE SaveRegistration
    <3>1. popup.device \in Devices
      BY <2>3, <1>t DEF SaveRegistration, ActorsTyped, PopupType, Pairing
    <3> QED BY <2>3, <3>1, <1>t, <1>c DEF SaveRegistration, StoresTyped
  <2>4. CASE SaveBinding
    BY <2>4, <1>t, <1>s DEF SaveBinding, ActorsTyped, PopupType
  <2>5. CASE RevokeRemotely
    BY <2>5, <1>s DEF RevokeRemotely
  <2>6. CASE Unlink
    BY <2>6, <1>c DEF Unlink
  <2> QED BY <1>2, <2>1, <2>2, <2>3, <2>4, <2>5, <2>6 DEF PopupStep
<1>3. CASE RenewalStep
  <2>1. CASE StartRenewal \/ RequestFails \/ Challenge \/ BrokenBody \/ Sign
               \/ ReadDevice \/ Renew \/ FinishRenewal
    BY <2>1, <1>u
       DEF StartRenewal, RequestFails, Challenge, BrokenBody, Sign,
           ReadDevice, Renew, FinishRenewal
  <2>2. CASE SaveRenewed
    BY <2>2, <1>t, <1>s, <1>u DEF SaveRenewed, ActorsTyped, RenewalType,
                                  StoresTyped
  <2>3. CASE EndConnection
    BY <2>3, <1>c DEF EndConnection
  <2>4. CASE EndSession
    BY <2>4, <1>s DEF EndSession, ClearSession
  <2> QED BY <1>3, <2>1, <2>2, <2>3, <2>4 DEF RenewalStep
<1>4. ASSUME NEW c \in Callers, Call(c) \/ CallStep(c) PROVE StoresTyped'
  <2>1. CASE Call(c) \/ Use(c)
    BY <2>1, <1>u DEF Call, Use
  <2>2. CASE ClearAfterCall(c)
    BY <2>2, <1>c DEF ClearAfterCall
  <2>3. CASE ClearRefused(c)
    BY <2>3, <1>s DEF ClearRefused
  <2> QED BY <1>4, <2>1, <2>2, <2>3 DEF CallStep
<1>5. CASE Restart
  BY <1>5, <1>t, <1>s DEF Restart, StoresTyped
<1> QED BY <1>1, <1>2, <1>3, <1>4, <1>5 DEF Next

\* The steps of the popup and of the callers, as far as the actors go.
LEMMA PopupActors ==
  ASSUME ActorsTyped, StoresTyped, PopupStep
  PROVE  ActorsTyped'
<1> USE DEF ActorsTyped
<1>1. CASE Open \/ Close \/ PairRefused \/ SaveBinding \/ RevokeRemotely
  <2>1. popup' \in PopupType
    BY <1>1, PopupViews, PlainPopup
       DEF Open, Close, PairRefused, SaveBinding, RevokeRemotely, Unbinding
  <2>2. UNCHANGED <<call, renewal>>
    BY <1>1 DEF Open, Close, PairRefused, SaveBinding, RevokeRemotely
  <2> QED BY <2>1, <2>2
<1>2. ASSUME NEW c \in Codes, NEW d \in Devices, Submit(c, d)
      PROVE  ActorsTyped'
  <2>1. popup' \in PopupType
    BY <1>2, NoneAssumption
       DEF Submit, ClosedPopup, PopupType, PopupPC, Pairing
  <2> QED BY <1>2, <2>1 DEF Submit
<1>3. CASE PairServed \/ PairAnswered
  <2>1. ASSUME popup.pc \in Pairing,
               \/ popup' = [popup EXCEPT !.pc = "served"]
               \/ \E t \in Tokens :
                    popup' = [popup EXCEPT !.pc = "answered", !.token = t]
        PROVE  popup' \in PopupType
    BY <2>1 DEF PopupType, PopupPC, Pairing
  <2>2. popup' \in PopupType
    <3>1. CASE PairServed
      BY <2>1, <3>1 DEF PairServed, Pairing
    <3>2. CASE PairAnswered /\ popup.pc = "served"
      BY <2>1, <3>2, PopupViews DEF PairAnswered, Pairing
    <3>3. CASE PairAnswered /\ popup.pc # "served"
      BY <3>3 DEF PairAnswered
    <3> QED BY <1>3, <3>1, <3>2, <3>3
  <2> QED BY <1>3, <2>2 DEF PairServed, PairAnswered
<1>4. CASE SaveRegistration
  <2>1. [popup EXCEPT !.pc = "registered"] \in PopupType
    BY <1>4 DEF SaveRegistration, PopupType, PopupPC, Pairing
  <2> QED BY <1>4, <2>1, PopupViews DEF SaveRegistration
<1>5. CASE Unlink
  <2>1. renewal' \in RenewalType
    BY <1>5, RenewalMoves, RenewalNames DEF Unlink, Fence
  <2>2. popup' \in PopupType
    BY <1>5, PlainPopup, PopupViews DEF Unlink
  <2> QED BY <1>5, <2>1, <2>2 DEF Unlink
<1> QED BY <1>1, <1>2, <1>3, <1>4, <1>5 DEF PopupStep

LEMMA SettledType ==
  ASSUME ActorsTyped, NEW t \in Tokens \cup {NoToken},
         (Resolve(t) /\ t \in Tokens) \/ Reject
  PROVE  ActorsTyped'
<1> USE DEF ActorsTyped
<1>1. popup' \in PopupType
  BY ShownType, PopupViews DEF Resolve, Reject
<1>2. call' \in [Callers -> CallType]
  BY CallMoves DEF Resolve, Reject
<1>3. renewal' \in RenewalType
  BY RenewalNames DEF Resolve, Reject
<1> QED BY <1>1, <1>2, <1>3

\* A renewal that is to be saved or was saved has its token.
RenewalHolds ==
  renewal.pc \in {"answered", "saved"} => renewal.token \in Tokens

LEMMA RenewalActors ==
  ASSUME ActorsTyped, StoresTyped, RenewalHolds, RenewalStep
  PROVE  ActorsTyped'
<1>1. CASE StartRenewal
  <2>1. renewal' \in RenewalType
    <3>1. CASE Condemn
      BY <3>1, RenewalMoves, RenewalNames DEF ActorsTyped, Condemn
    <3>2. CASE Identified /\ renewal' = [renewal EXCEPT !.pc = "asking",
                                              !.device = registration]
      <4>1. registration \in Devices
        BY <3>2 DEF Identified, StoresTyped
      <4> QED BY <3>2, <4>1, RenewalMoves, RenewalNames DEF ActorsTyped
    <3> QED BY <1>1, <3>1, <3>2 DEF StartRenewal
  <2> QED BY <1>1, <2>1 DEF StartRenewal, ActorsTyped
<1>2. CASE RequestFails \/ Challenge \/ BrokenBody \/ Sign
  <2>1. renewal' \in RenewalType
    BY <1>2, RenewalMoves, RenewalNames
       DEF ActorsTyped, RequestFails, Challenge, BrokenBody, Sign, RenewTo,
           Condemn
  <2> QED BY <1>2, <2>1
          DEF ActorsTyped, RequestFails, Challenge, BrokenBody, Sign
<1>3. CASE ReadDevice \/ Renew
  <2>0. \/ renewal' = Ends("retryable") \/ renewal' = Ends("terminal")
        \/ renewal' = renewal \/ renewal' = [renewal EXCEPT !.pc = "served"]
        \/ \E t \in Tokens :
             renewal' = [renewal EXCEPT !.pc = "answered", !.token = t]
    BY <1>3 DEF ReadDevice, Renew, RenewTo, Condemn
  <2>1. renewal' \in RenewalType
    <3>1. CASE \E t \in Tokens :
                 renewal' = [renewal EXCEPT !.pc = "answered", !.token = t]
      BY <3>1 DEF ActorsTyped, RenewalType, RenewalPC
    <3>2. CASE \/ renewal' = Ends("retryable") \/ renewal' = Ends("terminal")
               \/ renewal' = [renewal EXCEPT !.pc = "served"]
      BY <3>2, RenewalMoves, RenewalNames DEF ActorsTyped
    <3>3. CASE renewal' = renewal
      BY <3>3 DEF ActorsTyped
    <3> QED BY <2>0, <3>1, <3>2, <3>3
  <2> QED BY <1>3, <2>1 DEF ActorsTyped, ReadDevice, Renew
<1>4. CASE SaveRenewed
  <2>1. renewal' \in RenewalType
    BY <1>4, RenewalMoves, RenewalNames
       DEF ActorsTyped, SaveRenewed, RenewTo, Condemn
  <2> QED BY <1>4, <2>1 DEF ActorsTyped, SaveRenewed
<1>5. CASE FinishRenewal
  <2>1. CASE Condemn /\ UNCHANGED <<popup, call>>
    BY <2>1, RenewalMoves, RenewalNames DEF ActorsTyped, Condemn
  <2>2. CASE Resolve(renewal.token)
    BY <1>5, <2>2, SettledType DEF FinishRenewal, RenewalHolds
  <2> QED BY <1>5, <2>1, <2>2 DEF FinishRenewal
<1>6. CASE EndConnection \/ EndSession
  BY <1>6, SettledType DEF EndConnection, EndSession
<1> QED BY <1>1, <1>2, <1>3, <1>4, <1>5, <1>6 DEF RenewalStep

LEMMA CallActors ==
  ASSUME ActorsTyped, StoresTyped, NEW c \in Callers, Call(c) \/ CallStep(c)
  PROVE  ActorsTyped'
<1>1. /\ [call[c] EXCEPT !.pc = "clearing"] \in CallType
      /\ [call[c] EXCEPT !.pc = "waiting"] \in CallType
      /\ [call[c] EXCEPT !.pc = "refused"] \in CallType
  BY DEF ActorsTyped, CallType
<1>2. CASE Call(c)
  <2>1. renewal' \in RenewalType
    BY <1>2, RenewalNames DEF Call, ActorsTyped
  <2>2. popup' \in PopupType
    BY <1>2, ShownType, PopupViews DEF Call, ActorsTyped
  <2>3. call' \in [Callers -> CallType]
    <3>1. CASE /\ call' = [call EXCEPT ![c] = Granted(session)]
               /\ session # NoToken
      BY <3>1, CallMoves DEF ActorsTyped, StoresTyped
    <3>2. CASE \/ call' = [call EXCEPT ![c].pc = "clearing"]
               \/ call' = [call EXCEPT ![c].pc = "waiting"]
               \/ call' = call
      BY <3>2, <1>1 DEF ActorsTyped
    <3> QED BY <1>2, <3>1, <3>2 DEF Call
  <2> QED BY <2>1, <2>2, <2>3 DEF ActorsTyped
<1>3. CASE ClearAfterCall(c)
  <2>1. popup' \in PopupType
    BY <1>3, ShownType, PopupViews DEF ClearAfterCall, ActorsTyped
  <2> QED BY <1>3, <2>1, CallMoves DEF ClearAfterCall, ActorsTyped
<1>4. CASE Use(c) \/ ClearRefused(c)
  <2>1. call' \in [Callers -> CallType]
    <3>1. \/ call' = [call EXCEPT ![c] = IdleCall]
          \/ call' = [call EXCEPT ![c] = [call[c] EXCEPT !.pc = "refused"]]
      BY <1>4 DEF Use, ClearRefused, ActorsTyped
    <3> QED BY <3>1, <1>1, CallMoves DEF ActorsTyped
  <2> QED BY <1>4, <2>1 DEF Use, ClearRefused, ActorsTyped
<1> QED BY <1>2, <1>3, <1>4 DEF CallStep

LEMMA ActorsStep ==
  ASSUME TypeOK, RenewalHolds, Next
  PROVE  ActorsTyped'
<1>t. StoresTyped /\ ActorsTyped
  BY TypeParts
<1>1. CASE Workbench
  BY <1>1, <1>t
     DEF Workbench, CreateCode, ExpireCode, RevokeDevice, Age, ActorsTyped
<1>2. CASE PopupStep
  BY <1>2, <1>t, PopupActors
<1>3. CASE RenewalStep
  BY <1>3, <1>t, RenewalActors
<1>4. CASE \E c \in Callers : Call(c) \/ CallStep(c)
  BY <1>4, <1>t, CallActors
<1>5. CASE Restart
  <2>1. popup' \in PopupType
    BY <1>5, <1>t, ShownType, PopupViews DEF Restart, ActorsTyped
  <2> QED BY <1>5, <2>1, CallMoves, RenewalNames DEF Restart, ActorsTyped
<1> QED BY <1>1, <1>2, <1>3, <1>4, <1>5 DEF Next

LEMMA HistoryStep ==
  ASSUME TypeOK, Next
  PROVE  HistoryTyped'
<1>t. HistoryTyped /\ ServerTyped
  BY TypeParts
<1>0. UNCHANGED <<connected, unlinked>> => HistoryTyped'
  BY <1>t DEF HistoryTyped
<1>1. CASE Workbench
  BY <1>1, <1>0
     DEF Workbench, CreateCode, ExpireCode, RevokeDevice, Age
<1>2. CASE PopupStep
  <2>1. CASE Open \/ Close \/ PairServed \/ PairRefused \/ SaveRegistration
               \/ SaveBinding \/ RevokeRemotely
    BY <2>1, <1>0 DEF Open, Close, PairServed, PairRefused, SaveRegistration,
                      SaveBinding, RevokeRemotely
  <2>2. CASE (\E c \in Codes, d \in Devices : Submit(c, d)) \/ Unlink
    BY <2>2, <1>t DEF Submit, Unlink, HistoryTyped
  <2>3. CASE PairAnswered
    <3>1. redeeming.device \in Devices
      BY <2>3, <1>t DEF PairAnswered, ServerTyped
    <3>2. \/ UNCHANGED connected
          \/ connected' = [connected EXCEPT ![redeeming.code]
                             = connected[redeeming.code] \cup {redeeming.device}]
      BY <2>3 DEF PairAnswered, Redeem
    <3>3. connected' \in [Codes -> SUBSET Devices]
      BY <3>1, <3>2, <1>t DEF HistoryTyped
    <3> QED BY <2>3, <3>3, <1>t DEF PairAnswered, HistoryTyped
  <2> QED BY <1>2, <2>1, <2>2, <2>3 DEF PopupStep
<1>3. CASE RenewalStep
  BY <1>3, <1>0
     DEF RenewalStep, StartRenewal, RequestFails, Challenge, BrokenBody,
         Sign, ReadDevice, Renew, SaveRenewed, FinishRenewal, EndConnection,
         EndSession
<1>4. CASE \E c \in Callers : Call(c) \/ CallStep(c)
  BY <1>4, <1>0 DEF Call, CallStep, ClearAfterCall, Use, ClearRefused
<1>5. CASE Restart
  BY <1>5, <1>0 DEF Restart
<1> QED BY <1>1, <1>2, <1>3, <1>4, <1>5 DEF Next

LEMMA RenewalHoldsStep ==
  ASSUME TypeOK, RenewalHolds, Next
  PROVE  RenewalHolds'
<1>t. ActorsTyped
  BY TypeParts
<1> USE DEF RenewalHolds
<1>0. UNCHANGED renewal => RenewalHolds'
  OBVIOUS
<1>1. ASSUME NEW pc \in RenewalPC \ {"answered", "saved"},
             \/ renewal' = Ends(pc)
             \/ renewal' = [Ends(pc) EXCEPT !.fenced = TRUE]
             \/ renewal' = [renewal EXCEPT !.pc = pc]
             \/ renewal' = [renewal EXCEPT !.pc = pc, !.device = registration]
      PROVE  RenewalHolds'
  BY <1>1, <1>t DEF Ends, ActorsTyped, RenewalType
<1>2. renewal' = NoRenewal \/ renewal' = [NoRenewal EXCEPT !.pc = "starting"]
        => RenewalHolds'
  BY DEF NoRenewal
<1>n. /\ {"starting", "asking", "reading", "renewing", "served", "retryable",
          "terminal"} \subseteq RenewalPC \ {"answered", "saved"}
  BY DEF RenewalPC
<1>3. CASE Workbench
  BY <1>3, <1>0 DEF Workbench, CreateCode, ExpireCode, RevokeDevice, Age
<1>4. CASE PopupStep
  <2>1. CASE Unlink
    <3>1. CASE renewal' = [renewal EXCEPT !.fenced = TRUE]
      BY <3>1, <1>t DEF ActorsTyped, RenewalType
    <3> QED BY <2>1, <3>1, <1>0, <1>1, <1>n DEF Unlink, Fence
  <2>2. CASE ~Unlink
    BY <1>4, <2>2, <1>0
       DEF PopupStep, Open, Close, Submit, PairServed, PairAnswered,
           PairRefused, SaveRegistration, SaveBinding, RevokeRemotely
  <2> QED BY <2>1, <2>2
<1>5. CASE RenewalStep
  <2>1. CASE StartRenewal \/ RequestFails \/ Challenge \/ BrokenBody \/ Sign
    BY <2>1, <1>1, <1>n
       DEF StartRenewal, RequestFails, Challenge, BrokenBody, Sign, Condemn,
           RenewTo
  <2>2. CASE ReadDevice \/ Renew
    <3>1. ASSUME NEW t \in Tokens,
                 renewal' = [renewal EXCEPT !.pc = "answered", !.token = t]
          PROVE  RenewalHolds'
      BY <3>1, <1>t DEF ActorsTyped, RenewalType
    <3>2. CASE ReadDevice
      BY <3>2, <1>1, <1>n DEF ReadDevice, Condemn, RenewTo
    <3>3. CASE Renew
      BY <3>1, <3>3, <1>0, <1>1, <1>n DEF Renew
    <3> QED BY <2>2, <3>2, <3>3
  <2>3. CASE SaveRenewed
    <3>1. CASE renewal' = [renewal EXCEPT !.pc = "saved"]
      BY <2>3, <3>1, <1>t DEF SaveRenewed, ActorsTyped, RenewalType
    <3> QED BY <2>3, <3>1, <1>1, <1>n DEF SaveRenewed, Condemn, RenewTo
  <2>4. CASE FinishRenewal \/ EndConnection \/ EndSession
    BY <2>4, <1>1, <1>2, <1>n
       DEF FinishRenewal, EndConnection, EndSession, Resolve, Reject, Condemn
  <2> QED BY <1>5, <2>1, <2>2, <2>3, <2>4 DEF RenewalStep
<1>6. CASE \E c \in Callers : Call(c) \/ CallStep(c)
  BY <1>6, <1>0, <1>2 DEF Call, CallStep, ClearAfterCall, Use, ClearRefused
<1>7. CASE Restart
  BY <1>7, <1>2 DEF Restart
<1> QED BY <1>3, <1>4, <1>5, <1>6, <1>7 DEF Next

TypeInv == TypeOK /\ RenewalHolds

LEMMA TypeInit == Init => TypeInv
<1> SUFFICES ASSUME Init PROVE TypeInv
  OBVIOUS
<1>1. ServerTyped /\ StoresTyped /\ HistoryTyped /\ met \in [Hazards -> Nat]
  BY DEF Init, ServerTyped, StoresTyped, HistoryTyped, TokenType
<1>2. ActorsTyped
  BY PopupViews, CallMoves, RenewalNames DEF Init, ActorsTyped
<1>3. RenewalHolds
  BY DEF Init, RenewalHolds, NoRenewal
<1> QED BY <1>1, <1>2, <1>3, TypeParts DEF TypeInv

LEMMA TypeStep == TypeInv /\ [Next]_vars => TypeInv'
<1>1. ASSUME TypeInv, Next PROVE TypeInv'
  <2> USE <1>1 DEF TypeInv
  <2>1. ServerTyped' /\ StoresTyped' /\ ActorsTyped' /\ HistoryTyped'
    BY ServerStep, StoresStep, ActorsStep, HistoryStep
  <2>2. met' \in [Hazards -> Nat]
    BY HazardsCount
  <2> QED BY <2>1, <2>2, TypePartsNext, RenewalHoldsStep
<1>2. ASSUME TypeInv, UNCHANGED vars PROVE TypeInv'
  BY <1>2 DEF TypeInv, TypeOK, RenewalHolds, vars
<1> QED BY <1>1, <1>2

\* Every variable of ExtensionSession keeps its type, and a popup holds a
\* device and a code exactly while it pairs.
THEOREM ExtensionTypeCorrect == Spec => []TypeOK
<1>1. TypeInv => TypeOK
  BY DEF TypeInv
<1> QED BY <1>1, TypeInit, TypeStep, PTL DEF Spec

---------------------------------------------------------------------------
(* Revocation *)

RevokedStays ==
  \A d \in Devices : device[d] = "revoked" =>
    /\ device'[d] = "revoked"
    /\ ReadBefore(d)' => ReadBefore(d)
    /\ \A t \in Tokens : token'[t].device = d =>
         /\ token[t].device = d \/ ReadBefore(d)
         /\ ~Authenticates(t)'

\* What has to be seen of a step: the device stays revoked, and a token or a
\* transaction is only for it if a transaction was.
LEMMA RevokedParts ==
  ASSUME \A d \in Devices : device[d] = "revoked" =>
           /\ device'[d] = "revoked"
           /\ ReadBefore(d)' => ReadBefore(d)
           /\ \A t \in Tokens : token'[t].device = d =>
                token[t].device = d \/ ReadBefore(d)
  PROVE  RevokedStays
BY DEF RevokedStays, Authenticates

\* A token is issued to the device of the transaction and to no other.
LEMMA IssueSpares ==
  ASSUME ServerTyped, NEW t \in Tokens, NEW d, Issue(t, d),
         NEW e \in Devices, d # e, NEW u \in Tokens, token'[u].device = e
  PROVE  token[u].device = e
BY DEF Issue, ServerTyped, TokenType

LEMMA RevokedStep == TypeOK /\ [Next]_vars => RevokedStays
<1> SUFFICES ASSUME TypeOK, Next \/ UNCHANGED vars PROVE RevokedStays
  OBVIOUS
<1>t. ServerTyped /\ ActorsTyped
  BY TypeParts
<1> USE DEF ReadBefore
<1>0. UNCHANGED server => RevokedStays
  BY RevokedParts DEF server
<1>n. \A d \in Devices : NoPairing.device # d
  BY NoneAssumption DEF NoPairing
<1>1. CASE Quietly \/ UNCHANGED vars
  BY <1>1, <1>0, QuietlyUnchanged DEF vars, server
<1>2. CASE Workbench
  <2>0. UNCHANGED <<redeeming, proven>>
    BY <1>2 DEF Workbench, CreateCode, ExpireCode, RevokeDevice, Age
  <2>1. ASSUME NEW t \in Tokens, Age(t) PROVE RevokedStays
    <3>1. UNCHANGED device
      BY <2>1 DEF Age
    <3>2. \A u \in Tokens : token'[u].device = token[u].device
      BY <2>1, <1>t DEF Age, ServerTyped, TokenType
    <3> QED BY <2>0, <3>1, <3>2, RevokedParts
  <2>2. ASSUME NEW d \in Devices, RevokeDevice(d) PROVE RevokedStays
    BY <2>0, <2>2, <1>t, RevokedParts DEF RevokeDevice, Revoke, ServerTyped
  <2>3. ASSUME NEW c \in Codes, CreateCode(c) \/ ExpireCode(c)
        PROVE  RevokedStays
    BY <2>0, <2>3, RevokedParts DEF CreateCode, ExpireCode
  <2> QED BY <1>2, <2>1, <2>2, <2>3 DEF Workbench
<1>3. CASE PairServed
  <2>1. /\ UNCHANGED <<device, token, proven>>
        /\ redeeming'.device = popup.device
        /\ device[popup.device] # "revoked"
    BY <1>3 DEF PairServed, Redeemable, Replayable
  <2> QED BY <2>1, RevokedParts
<1>4. CASE PairAnswered
  <2>0. UNCHANGED proven /\ redeeming' = NoPairing
    BY <1>4 DEF PairAnswered
  <2>1. CASE UNCHANGED <<device, token>>
    BY <2>0, <2>1, <1>n, RevokedParts
  <2>2. ASSUME NEW t \in Tokens, Redeem(redeeming.code, redeeming.device, t)
        PROVE  RevokedStays
    <3>1. /\ device' = [device EXCEPT ![redeeming.device] =
                          IF device[redeeming.device] = "unknown"
                          THEN "active" ELSE device[redeeming.device]]
          /\ Issue(t, redeeming.device)
      BY <2>2 DEF Redeem
    <3>2. \A d \in Devices : device[d] = "revoked" => device'[d] = "revoked"
      BY <3>1, <1>t DEF ServerTyped
    <3>3. \A d \in Devices, u \in Tokens :
            token'[u].device = d => token[u].device = d \/ redeeming.device = d
      BY <3>1, <1>t, IssueSpares
    <3> QED BY <2>0, <3>2, <3>3, <1>n, RevokedParts
  <2> QED BY <1>4, <2>1, <2>2 DEF PairAnswered
<1>5. CASE RevokeRemotely
  <2>1. UNCHANGED <<token, redeeming, proven>>
    BY <1>5 DEF RevokeRemotely
  <2>2. \/ device' = device
        \/ device' = [device EXCEPT ![token[session].device] = "revoked"]
    BY <1>5 DEF RevokeRemotely, Revoke
  <2> QED BY <2>1, <2>2, <1>t, RevokedParts DEF ServerTyped
<1>6. CASE ReadDevice
  <2>1. /\ UNCHANGED <<device, token, redeeming>>
        /\ \/ proven' = proven
           \/ proven' = renewal.device /\ device[renewal.device] = "active"
    BY <1>6 DEF ReadDevice, MayRenew
  <2> QED BY <2>1, RevokedParts
<1>7. CASE Renew
  <2>1. UNCHANGED <<device, redeeming>> /\ proven' = NoDevice
    BY <1>7 DEF Renew
  <2>2. \A d \in Devices, u \in Tokens :
          token'[u].device = d => token[u].device = d \/ proven = d
    BY <1>7, <1>t, IssueSpares DEF Renew
  <2> QED BY <2>1, <2>2, NoneAssumption, RevokedParts
<1> QED BY <1>1, <1>2, <1>3, <1>4, <1>5, <1>6, <1>7, NextCases

\* Whatever is under way, a revoked device stays revoked: a transaction that
\* had read it before may still issue it a token, no other does, and no token
\* of its is good.
THEOREM RevokedStaysRevoked == Spec => RevokedForGood
<1>1. TypeInv => TypeOK
  BY DEF TypeInv
<1>2. Spec => [][RevokedStays]_vars
  BY <1>1, TypeInit, TypeStep, RevokedStep, PTL DEF Spec
<1> QED BY <1>2, PTL DEF RevokedForGood, RevokedStays

---------------------------------------------------------------------------
(* One device per code *)

\* Nobody was connected by a code before it was used, and then only the
\* device it was redeemed by. The code of a transaction under way is still as
\* the transaction found it: the member's row is locked until it ends.
RedeemedOnce ==
  \A c \in Codes :
    /\ code[c] \in {"unissued", "open"} => connected[c] = {}
    /\ connected[c] \subseteq {redeemer[c]}
CodeLocked ==
  redeeming # NoPairing =>
    \/ code[redeeming.code] = "open"
    \/ /\ code[redeeming.code] = "used"
       /\ redeemer[redeeming.code] = redeeming.device
ConnectedRedeemer == RedeemedOnce /\ CodeLocked

LEMMA ConnectedStep ==
  ASSUME TypeOK, ConnectedRedeemer, [Next]_vars
  PROVE  ConnectedRedeemer'
<1>t. ServerTyped /\ HistoryTyped /\ ActorsTyped
  BY TypeParts
<1> USE DEF ConnectedRedeemer
<1>0. UNCHANGED <<code, redeemer, redeeming, connected>> => ConnectedRedeemer'
  BY DEF RedeemedOnce, CodeLocked
<1>1. CASE UNCHANGED vars
  BY <1>1, <1>0 DEF vars
<1>2. CASE Workbench
  <2>1. ASSUME NEW c \in Codes, CreateCode(c) \/ ExpireCode(c)
        PROVE  ConnectedRedeemer'
    <3>1. UNCHANGED <<redeemer, redeeming, connected>>
      BY <2>1 DEF CreateCode, ExpireCode
    <3>2. RedeemedOnce'
      BY <2>1, <1>t DEF CreateCode, ExpireCode, RedeemedOnce, ServerTyped
    <3>3. redeeming # NoPairing
            => code'[redeeming.code] = code[redeeming.code]
      BY <2>1, <1>t DEF CreateCode, ExpireCode, ServerTyped
    <3>4. CodeLocked'
      BY <3>1, <3>3 DEF CodeLocked
    <3> QED BY <3>2, <3>4
  <2>2. CASE \/ \E d \in Devices : RevokeDevice(d)
             \/ \E t \in Tokens : Age(t)
    BY <2>2, <1>0 DEF RevokeDevice, Age
  <2> QED BY <1>2, <2>1, <2>2 DEF Workbench
<1>3. CASE PairServed
  <2>1. /\ UNCHANGED <<code, redeemer, connected>>
        /\ redeeming'.code = popup.code /\ redeeming'.device = popup.device
        /\ \/ code[popup.code] = "open"
           \/ code[popup.code] = "used" /\ redeemer[popup.code] = popup.device
    BY <1>3 DEF PairServed, Redeemable, Replayable
  <2> QED BY <2>1 DEF RedeemedOnce, CodeLocked
<1>4. CASE PairAnswered
  <2>0. redeeming # NoPairing /\ redeeming' = NoPairing
    BY <1>4 DEF PairAnswered
  <2>1. CASE UNCHANGED <<code, redeemer, connected>>
    BY <2>0, <2>1 DEF RedeemedOnce, CodeLocked
  <2>2. ASSUME NEW t \in Tokens, Redeem(redeeming.code, redeeming.device, t)
        PROVE  ConnectedRedeemer'
    <3> DEFINE c == redeeming.code
               d == redeeming.device
    <3>1. /\ code' = [code EXCEPT ![c] = "used"]
          /\ redeemer' = [redeemer EXCEPT ![c] = d]
          /\ connected' = [connected EXCEPT ![c] = connected[c] \cup {d}]
          /\ code[c] = "open" \/ redeemer[c] = d
      BY <2>0, <2>2 DEF Redeem, CodeLocked
    <3>2. c \in Codes => connected[c] \subseteq {d}
      BY <3>1 DEF RedeemedOnce
    <3>3. RedeemedOnce'
      BY <3>1, <3>2, <1>t DEF RedeemedOnce, ServerTyped, HistoryTyped
    <3> QED BY <2>0, <3>3 DEF CodeLocked
  <2> QED BY <1>4, <2>1, <2>2 DEF PairAnswered
<1>5. CASE PopupStep /\ ~PairServed /\ ~PairAnswered
  BY <1>5, <1>0
     DEF PopupStep, Open, Close, Submit, PairRefused, SaveRegistration,
         SaveBinding, RevokeRemotely, Unlink, server
<1>6. CASE RenewalStep
  BY <1>6, <1>0
     DEF RenewalStep, StartRenewal, RequestFails, Challenge, BrokenBody,
         Sign, ReadDevice, Renew, SaveRenewed, FinishRenewal, EndConnection,
         EndSession, server
<1>7. CASE \E c \in Callers : Call(c) \/ CallStep(c)
  BY <1>7, <1>0 DEF Call, CallStep, ClearAfterCall, Use, ClearRefused, server
<1>8. CASE Restart
  BY <1>8, <1>0 DEF Restart, server
<1> QED BY <1>1, <1>2, <1>3, <1>4, <1>5, <1>6, <1>7, <1>8 DEF Next

LEMMA AtMostOne ==
  ASSUME NEW x, NEW S, S \subseteq {x}
  PROVE  Cardinality(S) <= 1
<1>1. S = {} \/ S = {x}
  OBVIOUS
<1>2. Cardinality({}) = 0
  BY FS_EmptySet
<1>3. Cardinality({x}) = 1
  BY FS_Singleton
<1> QED BY <1>1, <1>2, <1>3

\* A code never gives tokens to two devices.
THEOREM CodeConnectsOneAlways == Spec => []CodeConnectsOne
<1>1. Init => ConnectedRedeemer
  BY DEF Init, ConnectedRedeemer, RedeemedOnce, CodeLocked
<1>2. TypeInv => TypeOK
  BY DEF TypeInv
<1>3. ConnectedRedeemer => CodeConnectsOne
  BY AtMostOne DEF ConnectedRedeemer, RedeemedOnce, CodeConnectsOne
<1> QED BY <1>1, <1>2, <1>3, TypeInit, TypeStep, ConnectedStep, PTL DEF Spec

---------------------------------------------------------------------------
(* Unlinking is final *)

\* After an unlinking nobody pairs, and a renewal still there is fenced.
UnlinkedInv ==
  unlinked =>
    /\ session = NoToken /\ registration = NoDevice /\ key = NoDevice
    /\ popup.pc \notin Pairing
    /\ renewal.pc = "idle" \/ renewal.fenced

\* What keeps a fenced renewal fenced.
LEMMA FencedMoves ==
  ASSUME renewal \in RenewalType, renewal.fenced, NEW pc
  PROVE  Ends(pc).fenced /\ [renewal EXCEPT !.pc = pc].fenced
BY DEF RenewalType, Ends

LEMMA FenceWorks ==
  ASSUME renewal \in RenewalType, Fence
  PROVE  renewal'.pc = "idle" \/ renewal'.fenced
BY DEF Fence, RenewalType, Ends

LEMMA UnlinkedStep ==
  ASSUME TypeOK, UnlinkedInv, [Next]_vars
  PROVE  UnlinkedInv'
<1>t. StoresTyped /\ ActorsTyped
  BY TypeParts
<1> USE DEF UnlinkedInv, stores
<1>0. UNCHANGED <<session, registration, key, popup, renewal, unlinked>>
        => UnlinkedInv'
  BY DEF Pairing
<1>k. ASSUME unlinked' = unlinked, UNCHANGED renewal,
             ClearStores \/ UNCHANGED <<session, registration, key>>,
             popup'.pc \notin Pairing \/ popup'.pc = popup.pc
      PROVE  UnlinkedInv'
  <2>1. unlinked => /\ session' = NoToken /\ registration' = NoDevice
                    /\ key' = NoDevice
    BY <1>k DEF ClearStores
  <2>2. unlinked => popup'.pc \notin Pairing
    BY <1>k
  <2>3. unlinked => renewal'.pc = "idle" \/ renewal'.fenced
    BY <1>k
  <2> QED BY <1>k, <2>1, <2>2, <2>3
<1>s. \A pc \in {"form", "paired"} :
        Shown(pc).pc \notin Pairing \/ Shown(pc) = popup
  BY <1>t DEF Shown, Pairing, ActorsTyped, PopupType
<1>v. ClosedPopup.pc \notin Pairing /\ Form.pc \notin Pairing
  BY DEF ClosedPopup, Form, Pairing
<1>1. CASE UNCHANGED vars
  BY <1>1, <1>0 DEF vars
<1>2. CASE Workbench
  BY <1>2, <1>0 DEF Workbench, CreateCode, ExpireCode, RevokeDevice, Age
<1>3. CASE PopupStep
  <2>1. CASE Open \/ Close \/ PairRefused
    BY <2>1, <1>k, <1>v DEF Open, Close, PairRefused, ClosedPopup, Pairing
  <2>2. CASE \E c \in Codes, d \in Devices : Submit(c, d)
    BY <2>2 DEF Submit
  <2>3. CASE SaveRegistration \/ SaveBinding
    BY <2>3 DEF SaveRegistration, SaveBinding, Pairing
  <2>6. CASE PairServed \/ PairAnswered
    <3>1. UNCHANGED <<session, registration, key, renewal, unlinked>>
      BY <2>6 DEF PairServed, PairAnswered
    <3>2. popup.pc \in Pairing \/ popup' = popup
      BY <2>6 DEF PairServed, PairAnswered, Pairing
    <3> QED BY <3>1, <3>2
  <2>4. CASE RevokeRemotely
    <3>1. popup'.pc = "unlinking"
      BY <2>4 DEF RevokeRemotely, Unbinding, ClosedPopup
    <3>2. /\ session' = NoToken
          /\ UNCHANGED <<registration, key, renewal, unlinked>>
      BY <2>4 DEF RevokeRemotely
    <3> QED BY <3>1, <3>2 DEF Pairing
  <2>5. CASE Unlink
    <3>1. renewal'.pc = "idle" \/ renewal'.fenced
      BY <2>5, <1>t, FenceWorks DEF Unlink, ActorsTyped
    <3>2. popup'.pc \notin Pairing
      BY <2>5 DEF Unlink, ClosedPopup, Pairing
    <3> QED BY <2>5, <3>1, <3>2 DEF Unlink, ClearStores
  <2> QED BY <1>3, <2>1, <2>2, <2>3, <2>4, <2>5, <2>6 DEF PopupStep
<1>4. CASE RenewalStep
  <2>f. ASSUME unlinked, renewal.pc # "idle",
               \E pc \in RenewalPC : \/ renewal' = Ends(pc)
                                    \/ renewal' = [renewal EXCEPT !.pc = pc]
        PROVE  renewal'.fenced
    BY <2>f, <1>t, FencedMoves DEF ActorsTyped
  <2>1. CASE StartRenewal \/ Sign \/ SaveRenewed
    <3>1. unlinked => /\ renewal' = Ends("terminal")
                      /\ renewal.pc # "idle"
                      /\ UNCHANGED <<session, registration, key>>
      BY <2>1 DEF StartRenewal, Sign, SaveRenewed, Condemn
    <3>2. UNCHANGED <<popup, unlinked>>
      BY <2>1 DEF StartRenewal, Sign, SaveRenewed
    <3> QED BY <3>1, <3>2, <2>f DEF RenewalPC
  <2>2. CASE RequestFails \/ Challenge \/ BrokenBody
    <3>1. /\ \E pc \in RenewalPC : \/ renewal' = Ends(pc)
                                   \/ renewal' = [renewal EXCEPT !.pc = pc]
          /\ renewal.pc # "idle"
          /\ UNCHANGED <<session, registration, key, popup, unlinked>>
      BY <2>2 DEF RequestFails, Challenge, BrokenBody, RenewTo, RenewalPC
    <3> QED BY <3>1, <2>f
  <2>3. CASE ReadDevice
    <3>1. /\ renewal.pc # "idle"
          /\ \/ renewal' = Ends("terminal")
             \/ renewal' = [renewal EXCEPT !.pc = "served"]
          /\ UNCHANGED <<session, registration, key, popup, unlinked>>
      BY <2>3 DEF ReadDevice, Condemn, RenewTo
    <3> QED BY <3>1, <2>f DEF RenewalPC
  <2>6. CASE Renew
    <3>1. UNCHANGED <<session, registration, key, popup, unlinked>>
      BY <2>6 DEF Renew
    <3>2. CASE UNCHANGED renewal
      BY <3>1, <3>2, <1>0
    <3>3. CASE renewal.pc = "served" /\ renewal' = Ends("retryable")
      BY <3>1, <3>3, <2>f DEF RenewalPC
    <3>4. ASSUME NEW t \in Tokens, renewal.pc = "served",
                 renewal' = [renewal EXCEPT !.pc = "answered", !.token = t]
          PROVE  UnlinkedInv'
      <4>1. renewal'.fenced = renewal.fenced
        BY <3>4, <1>t DEF ActorsTyped, RenewalType
      <4> QED BY <3>1, <3>4, <4>1
    <3> QED BY <2>6, <3>2, <3>3, <3>4 DEF Renew
  <2>4. CASE FinishRenewal
    <3>1. unlinked => /\ renewal' = Ends("terminal")
                      /\ renewal.pc # "idle"
                      /\ UNCHANGED popup
      BY <2>4 DEF FinishRenewal, Condemn
    <3>2. UNCHANGED <<session, registration, key, unlinked>>
      BY <2>4 DEF FinishRenewal
    <3> QED BY <3>1, <3>2, <2>f DEF RenewalPC
  <2>5. CASE EndConnection \/ EndSession
    <3>1. /\ renewal'.pc = "idle" /\ UNCHANGED unlinked
          /\ popup' = Shown("form") \/ popup' = popup
      BY <2>5 DEF EndConnection, EndSession, Reject, NoRenewal
    <3>2. unlinked => /\ session' = NoToken /\ registration' = NoDevice
                      /\ key' = NoDevice
      BY <2>5 DEF EndConnection, EndSession, ClearStores, ClearSession
    <3>3. unlinked => popup'.pc \notin Pairing
      BY <3>1, <1>s
    <3> QED BY <3>1, <3>2, <3>3
  <2> QED BY <1>4, <2>1, <2>2, <2>3, <2>4, <2>5, <2>6 DEF RenewalStep
<1>5. ASSUME NEW c \in Callers, Call(c) \/ CallStep(c) PROVE UnlinkedInv'
  <2>1. CASE Call(c)
    <3>1. unlinked => UNCHANGED <<popup, renewal>>
      BY <2>1 DEF Call, Identified
    <3> QED BY <2>1, <3>1 DEF Call
  <2>2. CASE ClearAfterCall(c)
    BY <2>2, <1>k, <1>s DEF ClearAfterCall
  <2>3. CASE Use(c) \/ ClearRefused(c)
    BY <2>3 DEF Use, ClearRefused
  <2> QED BY <1>5, <2>1, <2>2, <2>3 DEF CallStep
<1>6. CASE Restart
  BY <1>6, <1>s, <1>v DEF Restart, NoRenewal
<1> QED BY <1>1, <1>2, <1>3, <1>4, <1>5, <1>6 DEF Next

\* No late answer brings a credential back after an unlinking.
THEOREM UnlinkedForGood == Spec => []UnlinkedStaysUnlinked
<1>1. Init => UnlinkedInv
  BY DEF Init, UnlinkedInv
<1>2. TypeInv => TypeOK
  BY DEF TypeInv
<1>3. UnlinkedInv => UnlinkedStaysUnlinked
  BY DEF UnlinkedInv, UnlinkedStaysUnlinked
<1> QED BY <1>1, <1>2, <1>3, TypeInit, TypeStep, UnlinkedStep, PTL DEF Spec
=============================================================================
