-------------------------- MODULE ExtensionSession --------------------------
(***************************************************************************)
(* How the browser extension gets, renews and gives up its connection to a *)
(* workspace.  Three actors share three stores of the browser profile: the *)
(* popup, which pairs and unbinds; the session manager of the service      *)
(* worker, which renews the short token with the device key; and the pages *)
(* whose uploads ask the session manager for a token.  The server keeps    *)
(* the pairing codes, the devices and the tokens.                          *)
(*                                                                         *)
(* The stores are written one after the other and without a lock, and the  *)
(* popup and the service worker are separate processes: only unlink, which *)
(* runs in the service worker, is fenced against a renewal under way.      *)
(* There is one server and one workspace, so sameIdentity compares the     *)
(* devices alone.                                                          *)
(***************************************************************************)
EXTENDS Integers, FiniteSets

CONSTANTS
  Codes,     \* pairing codes the workbench can issue
  Devices,   \* device keys the extension can generate
  Tokens,    \* access tokens the server can issue
  Pages,     \* pages whose messages need a token
  Popup,     \* the popup as a caller of the session manager
  NoDevice, NoToken, NoCode,
  Limits,    \* how often each hazard is met
  Kinds      \* how many hazards meet in one behaviour

Hazards == {"network", "body", "overlap", "slow", "restart"}
Callers == Pages \cup {Popup}

ASSUME NoneAssumption ==
  NoDevice \notin Devices /\ NoToken \notin Tokens /\ NoCode \notin Codes
ASSUME PopupAssumption == Popup \notin Pages
ASSUME LimitsAssumption == Limits \in [Hazards -> Nat] /\ Kinds \in Nat

VARIABLES
  code,         \* status of each pairing code
  redeemer,     \* the device whose request redeemed each code
  device,       \* status of each device binding
  token,        \* device and age of each token
  redeeming,    \* the pairing transaction under way: its code and device
  proven,       \* the device a renewal transaction under way has read
  session,      \* chrome.storage.session: the binding's token
  registration, \* chrome.storage.local: the registered device
  key,          \* IndexedDB: the device whose private key is stored
  made,         \* the devices generated so far
  popup,        \* the popup: pc, device, token, code, warned
  call,         \* calls of ensureFreshBinding: pc and token
  renewal,      \* the shared renewal: pc, device, token, fenced
  met,          \* how often each hazard was met
  connected,    \* history: the devices each code got a token for
  unlinked      \* history: unlink ran and nobody has paired since

server == <<code, redeemer, device, token, redeeming, proven>>
stores == <<session, registration, key>>
vars == <<code, redeemer, device, token, redeeming, proven, session,
          registration, key, made, popup, call, renewal, met, connected,
          unlinked>>

Pairing == {"pairing", "served", "answered", "registered"}
PopupPC == {"closed", "opening", "form", "paired", "unlinking"}
             \cup Pairing
RenewalPC == {"idle", "starting", "asking", "reading", "renewing", "served",
              "answered", "saved", "retryable", "terminal"}

NoPairing == [code |-> NoCode, device |-> NoDevice]

\* The type of every variable; a popup holds a device and a code exactly while
\* it pairs (performSubmit keeps the identity of the pairing in a local).
TypeOK ==
  /\ code \in [Codes -> {"unissued", "open", "used", "dead"}]
  /\ redeemer \in [Codes -> Devices \cup {NoDevice}]
  /\ device \in [Devices -> {"unknown", "active", "revoked"}]
  /\ token \in [Tokens -> [device: Devices \cup {NoDevice},
                           age: {"fresh", "aging", "expired"}]]
  /\ redeeming \in [code: Codes, device: Devices] \cup {NoPairing}
  /\ proven \in Devices \cup {NoDevice}
  /\ session \in Tokens \cup {NoToken}
  /\ registration \in Devices \cup {NoDevice}
  /\ key \in Devices \cup {NoDevice}
  /\ made \subseteq Devices
  /\ popup \in [pc: PopupPC, device: Devices \cup {NoDevice},
                token: Tokens \cup {NoToken}, code: Codes \cup {NoCode},
                warned: BOOLEAN]
  /\ call \in [Callers -> [pc: {"idle", "waiting", "clearing", "got",
                                "refused"},
                           token: Tokens \cup {NoToken}]]
  /\ renewal \in [pc: RenewalPC, device: Devices \cup {NoDevice},
                  token: Tokens \cup {NoToken}, fenced: BOOLEAN]
  /\ popup.pc \in Pairing <=> popup.device # NoDevice
  /\ popup.pc \in Pairing <=> popup.code # NoCode
  /\ met \in [Hazards -> Nat]
  /\ connected \in [Codes -> SUBSET Devices]
  /\ unlinked \in BOOLEAN

ClosedPopup == [pc |-> "closed", device |-> NoDevice, token |-> NoToken,
                code |-> NoCode, warned |-> FALSE]
IdleCall == [pc |-> "idle", token |-> NoToken]
NoRenewal == [pc |-> "idle", device |-> NoDevice, token |-> NoToken,
              fenced |-> FALSE]

Init ==
  /\ code = [c \in Codes |-> "unissued"]
  /\ redeemer = [c \in Codes |-> NoDevice]
  /\ device = [d \in Devices |-> "unknown"]
  /\ token = [t \in Tokens |-> [device |-> NoDevice, age |-> "fresh"]]
  /\ redeeming = NoPairing /\ proven = NoDevice
  /\ session = NoToken /\ registration = NoDevice /\ key = NoDevice
  /\ made = {}
  /\ popup = ClosedPopup
  /\ call = [c \in Callers |-> IdleCall]
  /\ renewal = NoRenewal
  /\ met = [h \in Hazards |-> 0]
  /\ connected = [c \in Codes |-> {}]
  /\ unlinked = FALSE

Meet(hazard) ==
  /\ met[hazard] < Limits[hazard]
  /\ Cardinality({hazard} \cup {h \in Hazards : met[h] > 0}) <= Kinds
  /\ met' = [met EXCEPT ![hazard] = @ + 1]

\* A decision to clear the stores that meets a pairing under way, made
\* before it or during it, is charged as an overlap.
MeetOverlapIf(condition) ==
  IF condition THEN Meet("overlap") ELSE UNCHANGED met

MidPairing == popup.pc \in Pairing
Condemned ==
  \/ renewal.pc = "terminal" \/ renewal.fenced
  \/ \E c \in Callers : call[c].pc \in {"clearing", "got", "refused"}

ClearStores ==
  session' = NoToken /\ registration' = NoDevice /\ key' = NoDevice

---------------------------------------------------------------------------
(* The server: ExtensionPairingService, ExtensionDeviceService,            *)
(* ExtensionTokenService, each request in one transaction.  Pairing locks  *)
(* the member and the code, but nobody locks the device: a pairing or a    *)
(* renewal reads it, and issues its token in a later step, which may come  *)
(* after a revocation and after the client has given up.                   *)

\* A new code revokes the member's codes nobody has used.  It waits for the
\* member's row.
CreateCode(c) ==
  /\ redeeming = NoPairing
  /\ code[c] = "unissued"
  /\ code' = [x \in Codes |-> IF x = c THEN "open"
                              ELSE IF code[x] = "open" THEN "dead"
                              ELSE code[x]]
  /\ UNCHANGED <<redeemer, device, token, redeeming, proven, stores, made,
                 popup, call, renewal, met, connected, unlinked>>

ExpireCode(c) ==
  /\ c # redeeming.code
  /\ code[c] \in {"open", "used"}
  /\ code' = [code EXCEPT ![c] = "dead"]
  /\ UNCHANGED <<redeemer, device, token, redeeming, proven, stores, made,
                 popup, call, renewal, met, connected, unlinked>>

Issue(t, d) ==
  /\ token[t].device = NoDevice
  /\ token' = [token EXCEPT ![t].device = d]

\* Mutant of Replayable: the fingerprint of the first request is not asked.
ReplayableByAnyone(c, d) == code[c] = "used" /\ device[d] # "revoked"

\* A code that was redeemed is answered again only to the same device.
Replayable(c, d) ==
  code[c] = "used" /\ redeemer[c] = d /\ device[d] = "active"

\* An open code registers the device, or finds it registered.
Redeemable(c, d) == code[c] = "open" /\ device[d] # "revoked"

\* The transaction of a pairing commits. A device it found stays as it is by
\* now.
Redeem(c, d, t) ==
  /\ code' = [code EXCEPT ![c] = "used"]
  /\ redeemer' = [redeemer EXCEPT ![c] = d]
  /\ device' = [device EXCEPT ![d] = IF @ = "unknown" THEN "active" ELSE @]
  /\ Issue(t, d)
  /\ connected' = [connected EXCEPT ![c] = @ \cup {d}]

\* A token is good while it and its device are.  Its own revoked_at says no
\* more: it is only ever set together with the device's.
Authenticates(t) ==
  /\ token[t].device # NoDevice
  /\ token[t].age # "expired"
  /\ device[token[t].device] = "active"

Revoke(d) == device' = [device EXCEPT ![d] = "revoked"]

\* The device list of the workbench.
RevokeDevice(d) ==
  /\ device[d] = "active"
  /\ Revoke(d)
  /\ UNCHANGED <<code, redeemer, token, redeeming, proven, stores, made,
                 popup, call, renewal, met, connected, unlinked>>

\* Eight hours pass for a token somebody holds; a request that takes longer
\* than the half hour its token had left is slow.
Held(t) ==
  \/ t \in {session, popup.token, renewal.token}
  \/ \E c \in Callers : call[c].token = t

InFlight(t) == t = renewal.token \/ \E c \in Callers : call[c].token = t

Age(t) ==
  /\ Held(t)
  /\ \/ /\ token[t].age = "fresh"
        /\ token' = [token EXCEPT ![t].age = "aging"]
        /\ UNCHANGED met
     \/ /\ token[t].age = "aging"
        /\ token' = [token EXCEPT ![t].age = "expired"]
        /\ IF InFlight(t) THEN Meet("slow") ELSE UNCHANGED met
  /\ UNCHANGED <<code, redeemer, device, redeeming, proven, stores, made,
                 popup, call, renewal, connected, unlinked>>

---------------------------------------------------------------------------
(* The popup: render, submit (pairExtension), unbind (revokeExtension).    *)

Open ==
  /\ popup.pc = "closed"
  /\ call[Popup].pc = "idle"
  /\ popup' = [ClosedPopup EXCEPT !.pc = "opening"]
  /\ UNCHANGED <<server, stores, made, call, renewal, met, connected,
                 unlinked>>

\* It loses the focus and is gone, with whatever it was doing.
Close ==
  /\ popup.pc # "closed"
  /\ IF popup.pc \in Pairing \cup {"unlinking"}
     THEN Meet("restart") ELSE UNCHANGED met
  /\ popup' = ClosedPopup
  /\ UNCHANGED <<server, stores, made, call, renewal, connected, unlinked>>

\* getOrCreate keeps the key that exists.
DeviceKey(d) == d = key \/ (key = NoDevice /\ d \notin made)

Submit(c, d) ==
  /\ popup.pc = "form"
  /\ code[c] # "unissued"
  /\ DeviceKey(d)
  /\ key' = d
  /\ made' = made \cup {d}
  /\ popup' = [ClosedPopup EXCEPT !.pc = "pairing", !.device = d, !.code = c]
  /\ MeetOverlapIf(Condemned)
  /\ unlinked' = FALSE
  /\ UNCHANGED <<server, session, registration, call, renewal, connected>>

Form == [ClosedPopup EXCEPT !.pc = "form"]

\* redeem() up to the issue of the token: with both locks it finds the code
\* and the device in order.
PairServed ==
  /\ popup.pc = "pairing"
  /\ redeeming = NoPairing
  /\ \/ Redeemable(popup.code, popup.device)
     \/ Replayable(popup.code, popup.device)
  /\ redeeming' = [code |-> popup.code, device |-> popup.device]
  /\ popup' = [popup EXCEPT !.pc = "served"]
  /\ UNCHANGED <<code, redeemer, device, token, proven, stores, made, call,
                 renewal, met, connected, unlinked>>

\* The transaction commits, or is rolled back; the popup hears of it if it
\* still waits.
PairAnswered ==
  /\ redeeming # NoPairing
  /\ redeeming' = NoPairing
  /\ \/ \E t \in Tokens :
          /\ Redeem(redeeming.code, redeeming.device, t)
          /\ popup' = IF popup.pc = "served"
                      THEN [popup EXCEPT !.pc = "answered", !.token = t]
                      ELSE popup
          /\ UNCHANGED met
     \/ /\ IF popup.pc = "served" THEN popup' = Form /\ Meet("network")
                                   ELSE UNCHANGED <<popup, met>>
        /\ UNCHANGED <<code, redeemer, device, token, connected>>
  /\ UNCHANGED <<proven, stores, made, call, renewal, unlinked>>

\* A code that does not serve leaves the stores alone; so does a request
\* that never arrives, and an answer that does not come.
PairRefused ==
  /\ \/ /\ popup.pc = "pairing"
        /\ redeeming = NoPairing
        /\ ~Redeemable(popup.code, popup.device)
        /\ ~Replayable(popup.code, popup.device)
        /\ UNCHANGED met
     \/ popup.pc \in {"pairing", "served"} /\ Meet("network")
  /\ popup' = Form
  /\ UNCHANGED <<server, stores, made, call, renewal, connected, unlinked>>

SaveRegistration ==
  /\ popup.pc = "answered"
  /\ \/ /\ registration' = popup.device
        /\ popup' = [popup EXCEPT !.pc = "registered"]
        /\ UNCHANGED <<session, key, met>>
     \/ ClearStores /\ popup' = Form /\ Meet("body")
  /\ UNCHANGED <<server, made, call, renewal, connected, unlinked>>

SaveBinding ==
  /\ popup.pc = "registered"
  /\ session' = popup.token
  /\ popup' = [ClosedPopup EXCEPT !.pc = "opening"]
  /\ UNCHANGED <<server, registration, key, made, call, renewal, met,
                 connected, unlinked>>

\* Mutant of Unbinding: the failure of the request is swallowed.
UnbindingSilently(warned) ==
  popup' = [ClosedPopup EXCEPT !.pc = "unlinking"]

Unbinding(warned) ==
  popup' = [ClosedPopup EXCEPT !.pc = "unlinking", !.warned = warned]

\* revokeExtension: without a binding nothing is asked of the server.
\* Whatever the server says, the binding is cleared; what failed is shown
\* at the end.
RevokeRemotely ==
  /\ popup.pc = "paired"
  /\ \/ session = NoToken /\ UNCHANGED <<device, met>> /\ Unbinding(FALSE)
     \/ /\ session # NoToken /\ Authenticates(session)
        /\ Revoke(token[session].device)
        /\ \/ Unbinding(FALSE) /\ UNCHANGED met
           \/ Unbinding(TRUE) /\ Meet("network")
     \/ /\ session # NoToken
        /\ \/ ~Authenticates(session) /\ UNCHANGED met
           \/ Meet("network")
        /\ Unbinding(TRUE)
        /\ UNCHANGED device
  /\ session' = NoToken
  /\ UNCHANGED <<code, redeemer, token, redeeming, proven, registration, key,
                 made, call, renewal, connected, unlinked>>

---------------------------------------------------------------------------
(* The session manager of the service worker.                              *)

Ends(pc) == [renewal EXCEPT !.pc = pc, !.device = NoDevice,
                           !.token = NoToken]

\* Mutant of Fence: the generation is not counted up.
FenceNothing == UNCHANGED renewal

\* generation += 1 and abort: a request whose answer has not begun fails,
\* anything later meets requireCurrentGeneration.
Fence ==
  renewal' =
    IF renewal.pc = "idle" THEN renewal
    ELSE IF renewal.pc \in {"asking", "renewing", "served"}
    THEN [Ends("retryable") EXCEPT !.fenced = TRUE]
    ELSE [renewal EXCEPT !.fenced = TRUE]

Unlink ==
  /\ popup.pc = "unlinking"
  /\ Fence
  /\ ClearStores
  /\ popup' = [ClosedPopup EXCEPT !.pc = "opening"]
  /\ unlinked' = TRUE
  /\ UNCHANGED <<server, made, call, met, connected>>

\* Mutant of Shown: the view is replaced whatever the popup does by then.
ShownAnyway(pc) == [popup EXCEPT !.pc = pc]

\* The popup shows what it is told if it still waits to be told.
Shown(pc) ==
  IF popup.pc = "opening" THEN [popup EXCEPT !.pc = pc] ELSE popup

Granted(t) == [pc |-> "got", token |-> t]

Identified == registration # NoDevice /\ registration = key

\* ensureFreshBinding: what the three stores hold decides whether the token
\* is returned, a renewal is started or joined, or everything is cleared.
Call(c) ==
  /\ call[c].pc = "idle"
  /\ c = Popup => popup.pc = "opening"
  /\ \/ /\ ~Identified
        /\ call' = [call EXCEPT ![c].pc = "clearing"]
        /\ MeetOverlapIf(MidPairing)
        /\ UNCHANGED <<popup, renewal>>
     \/ /\ Identified /\ session # NoToken
        /\ token[session].age = "fresh"
        /\ IF c = Popup
           THEN popup' = Shown("paired") /\ UNCHANGED call
           ELSE /\ call' = [call EXCEPT ![c] = Granted(session)]
                /\ UNCHANGED popup
        /\ UNCHANGED <<renewal, met>>
     \/ /\ Identified
        /\ session # NoToken => token[session].age # "fresh"
        /\ call' = [call EXCEPT ![c].pc = "waiting"]
        /\ renewal' = IF renewal.pc = "idle"
                      THEN [NoRenewal EXCEPT !.pc = "starting"] ELSE renewal
        /\ UNCHANGED <<popup, met>>
  /\ UNCHANGED <<server, stores, made, connected, unlinked>>

\* terminal() of a call.
ClearAfterCall(c) ==
  /\ call[c].pc = "clearing"
  /\ ClearStores
  /\ call' = [call EXCEPT ![c] = IdleCall]
  /\ popup' = IF c = Popup THEN Shown("form") ELSE popup
  /\ UNCHANGED <<server, made, renewal, met, connected, unlinked>>

RenewTo(pc) == renewal' = [renewal EXCEPT !.pc = pc]

Condemn == renewal' = Ends("terminal") /\ MeetOverlapIf(MidPairing)

\* renew() reads the stores once more.
StartRenewal ==
  /\ renewal.pc = "starting"
  /\ \/ /\ Identified /\ ~renewal.fenced
        /\ renewal' = [renewal EXCEPT !.pc = "asking",
                                      !.device = registration]
        /\ UNCHANGED met
     \/ (~Identified \/ renewal.fenced) /\ Condemn
  /\ UNCHANGED <<server, stores, made, popup, call, connected, unlinked>>

\* No answer in ten seconds, a 429 or a 5xx. The server may go on.
RequestFails ==
  /\ renewal.pc \in {"asking", "renewing", "served"}
  /\ Meet("network")
  /\ renewal' = Ends("retryable")
  /\ UNCHANGED <<server, stores, made, popup, call, connected, unlinked>>

\* The server challenges any device, so as not to tell which exist.
Challenge ==
  /\ renewal.pc = "asking"
  /\ RenewTo("reading")
  /\ UNCHANGED <<server, stores, made, popup, call, met, connected,
                 unlinked>>

\* A body that breaks off, or comes when the challenge has expired, is
\* taken for an answer of the server and ends the connection.
BrokenBody ==
  /\ renewal.pc \in {"reading", "answered"}
  /\ Meet("body")
  /\ renewal' = Ends("terminal")
  /\ UNCHANGED <<server, stores, made, popup, call, connected, unlinked>>

Sign ==
  /\ renewal.pc = "reading"
  /\ \/ renewal.fenced /\ Condemn
     \/ ~renewal.fenced /\ RenewTo("renewing") /\ UNCHANGED met
  /\ UNCHANGED <<server, stores, made, popup, call, connected, unlinked>>

\* Mutant of MayRenew: the challenge is enough.
MayRenewRevoked(d) == device[d] # "unknown"

MayRenew(d) == device[d] = "active"

\* renew_public_session reads the device, consumes the challenge and checks
\* the signature; the challenge of a device that is not active proves nothing.
\* One renewal is served at a time.
ReadDevice ==
  /\ renewal.pc = "renewing"
  /\ proven = NoDevice
  /\ \/ /\ MayRenew(renewal.device)
        /\ proven' = renewal.device
        /\ RenewTo("served")
        /\ UNCHANGED met
     \/ /\ ~MayRenew(renewal.device)
        /\ Condemn
        /\ UNCHANGED proven
  /\ UNCHANGED <<code, redeemer, device, token, redeeming, stores, made, popup,
                 call, connected, unlinked>>

\* It issues the token for the device it has read, or is rolled back; the
\* extension hears of it if it still waits.
Renew ==
  /\ proven # NoDevice
  /\ proven' = NoDevice
  /\ \/ \E t \in Tokens :
          /\ Issue(t, proven)
          /\ renewal' = IF renewal.pc = "served"
                        THEN [renewal EXCEPT !.pc = "answered", !.token = t]
                        ELSE renewal
          /\ UNCHANGED met
     \/ /\ IF renewal.pc = "served"
           THEN renewal' = Ends("retryable") /\ Meet("network")
           ELSE UNCHANGED <<renewal, met>>
        /\ UNCHANGED token
  /\ UNCHANGED <<code, redeemer, device, redeeming, stores, made, popup, call,
                 connected, unlinked>>

SaveRenewed ==
  /\ renewal.pc = "answered"
  /\ \/ renewal.fenced /\ Condemn /\ UNCHANGED session
     \/ /\ ~renewal.fenced
        /\ session' = renewal.token
        /\ RenewTo("saved")
        /\ UNCHANGED met
  /\ UNCHANGED <<server, registration, key, made, popup, call, connected,
                 unlinked>>

Waiting == {c \in Callers : call[c].pc = "waiting"}

\* The promise every waiting caller shares is settled.
Resolve(t) ==
  /\ renewal' = NoRenewal
  /\ call' = [c \in Callers |->
                IF c \notin Waiting THEN call[c]
                ELSE IF c = Popup THEN IdleCall ELSE Granted(t)]
  /\ popup' = IF Popup \in Waiting THEN Shown("paired") ELSE popup

Reject ==
  /\ renewal' = NoRenewal
  /\ call' = [c \in Callers |->
                IF c \in Waiting THEN IdleCall ELSE call[c]]
  /\ popup' = IF Popup \in Waiting THEN Shown("form") ELSE popup

\* The generation is checked once more after the save.
FinishRenewal ==
  /\ renewal.pc = "saved"
  /\ \/ renewal.fenced /\ Condemn /\ UNCHANGED <<popup, call>>
     \/ ~renewal.fenced /\ Resolve(renewal.token) /\ UNCHANGED met
  /\ UNCHANGED <<server, stores, made, connected, unlinked>>

\* terminal() of a renewal.
EndConnection ==
  /\ renewal.pc = "terminal"
  /\ ClearStores
  /\ Reject
  /\ UNCHANGED <<server, made, met, connected, unlinked>>

\* Mutant of ClearSession: the failure costs the device.
ClearSessionAndDevice == ClearStores

\* retryable() clears the binding; the device stays.
ClearSession == session' = NoToken /\ UNCHANGED <<registration, key>>

EndSession ==
  /\ renewal.pc = "retryable"
  /\ ClearSession
  /\ Reject
  /\ UNCHANGED <<server, made, met, connected, unlinked>>

---------------------------------------------------------------------------
(* A page's upload or poll, and the restarts.                              *)

\* The server answers 401 to a token that is not good.
Use(c) ==
  /\ c \in Pages
  /\ call[c].pc = "got"
  /\ call' = [call EXCEPT ![c] =
                IF Authenticates(@.token) THEN IdleCall
                ELSE [@ EXCEPT !.pc = "refused"]]
  /\ UNCHANGED <<server, stores, made, popup, renewal, met, connected,
                 unlinked>>

\* onRebindRequired clears the binding there is by then.
ClearRefused(c) ==
  /\ call[c].pc = "refused"
  /\ session' = NoToken
  /\ call' = [call EXCEPT ![c] = IdleCall]
  /\ UNCHANGED <<server, registration, key, made, popup, renewal, met,
                 connected, unlinked>>

\* The browser stops the service worker, or is itself restarted: what they
\* had in memory is gone, and session storage with the browser.
Restart ==
  /\ Meet("restart")
  /\ renewal' = NoRenewal
  /\ call' = [c \in Callers |-> IdleCall]
  /\ \/ popup' = Shown("form") /\ UNCHANGED session
     \/ popup' = ClosedPopup /\ session' = NoToken
  /\ UNCHANGED <<server, registration, key, made, connected, unlinked>>

---------------------------------------------------------------------------
Workbench ==
  \/ \E c \in Codes : CreateCode(c) \/ ExpireCode(c)
  \/ \E d \in Devices : RevokeDevice(d)
  \/ \E t \in Tokens : Age(t)

PopupStep ==
  \/ Open \/ Close
  \/ \E c \in Codes, d \in Devices : Submit(c, d)
  \/ PairServed \/ PairAnswered \/ PairRefused
  \/ SaveRegistration \/ SaveBinding
  \/ RevokeRemotely \/ Unlink

RenewalStep ==
  \/ StartRenewal \/ RequestFails \/ Challenge \/ BrokenBody \/ Sign
  \/ ReadDevice \/ Renew \/ SaveRenewed \/ FinishRenewal
  \/ EndConnection \/ EndSession

CallStep(c) == ClearAfterCall(c) \/ Use(c) \/ ClearRefused(c)

Next ==
  \/ Workbench
  \/ PopupStep
  \/ RenewalStep
  \/ \E c \in Callers : Call(c) \/ CallStep(c)
  \/ Restart

Spec == Init /\ [][Next]_vars

---------------------------------------------------------------------------
\* Once unlink has run, no renewal that was under way, no answer that comes
\* late and no page brings a credential back: the three stores stay empty
\* until somebody pairs (session-renewal.ts, requireCurrentGeneration).
UnlinkedStaysUnlinked ==
  unlinked => session = NoToken /\ registration = NoDevice /\ key = NoDevice

\* A pairing code gives tokens to one device at most, however often its
\* answer was lost and its request repeated (extension_pairing.py, redeem).
CodeConnectsOne == \A c \in Codes : Cardinality(connected[c]) <= 1

\* A revoked device is revoked for good: no pairing, renewal or replay under
\* way brings it back. A transaction that had read the device before may still
\* issue a token for it, one that had not does not; and whenever a token was
\* issued, it is good for nothing (extension_devices.py, renew and revoke;
\* extension_pairing.py, redeem).
ReadBefore(d) == proven = d \/ redeeming.device = d
RevokedForGood ==
  [][\A d \in Devices : device[d] = "revoked" =>
       /\ device'[d] = "revoked"
       /\ ReadBefore(d)' => ReadBefore(d)
       /\ \A t \in Tokens : token'[t].device = d =>
            /\ token[t].device = d \/ ReadBefore(d)
            /\ ~Authenticates(t)']_vars

Unmet(hazards) == \A h \in hazards : met[h] = 0
Linked(d) == registration = d /\ key = d

\* While its device is active, the extension keeps the device's key and
\* registration until it is unlinked: not a lost request, a restart, a
\* closed popup, a token that expired or a page that was refused costs it
\* the connection (session-renewal.ts, retryable against terminal). A body
\* that breaks off and a decision overtaken by a pairing do.
ConnectionLasts ==
  [][\A d \in Devices :
       Linked(d) /\ device[d] = "active" /\ Unmet({"body", "overlap"})'
         => Linked(d)' \/ unlinked']_vars

\* An unbinding without a warning has revoked the device whose key it goes on
\* to delete, also when its own request fails or is not answered. It misses
\* only when a failed renewal, a token that ran out or a restart had emptied
\* the session store, where it asks nothing of the server, or when stores were
\* cleared across a pairing, by a decision taken before it or a body that
\* broke off (popup/main.ts, unbind; auth/client.ts, revokeExtension).
UnbindIsHonest ==
  [][popup.pc = "paired" /\ popup'.pc = "unlinking" /\ ~popup'.warned
       /\ Unmet({"body", "overlap"})
     => \/ key = NoDevice
        \/ device'[key] = "revoked"
        \/ session = NoToken /\ ~Unmet({"network", "slow", "restart"})]_vars
=============================================================================
