----------------------------- MODULE PageCapture -----------------------------
(***************************************************************************)
(* How the browser extension takes a picture of a page: the coordinator    *)
(* and the message handler of the service worker, which decide who may     *)
(* take pictures of the tab; the content script, whose overlay scrolls the *)
(* page, asks for one picture per screen, shows the result and uploads it; *)
(* and the tab, which the user scrolls, leaves, navigates and reloads.     *)
(*                                                                         *)
(* A gesture is one start of a capture (popup or shortcut).  Gestures may  *)
(* overlap: each step below runs up to the next await.  All in one tab; a  *)
(* page is its URL together with its signature, and lengths are rows.  A   *)
(* region is a visible capture whose rectangle the user draws.             *)
(***************************************************************************)
EXTENDS Integers, Sequences, FiniteSets

CONSTANTS
  Gestures,   \* starts of a capture
  NoGesture,
  Screen,     \* rows of the viewport
  MaxHeight,  \* rows of the longest page
  MaxSlices,  \* pictures of one capture
  Limits,     \* how often each hazard is met
  Kinds       \* how many kinds of hazards meet in one behaviour

Hazards == {"leave", "navigate", "reload", "restart", "time", "picture",
            "scroll", "position", "layout", "network", "cancel",
            "overtake"}

ASSUME GesturesAssumption == NoGesture \notin Gestures
ASSUME PageAssumption ==
  /\ Screen \in Nat \ {0} /\ MaxSlices \in Nat \ {0}
  /\ MaxHeight \in Nat /\ MaxHeight >= Screen
ASSUME LimitsAssumption == Limits \in [Hazards -> Nat] /\ Kinds \in Nat

VARIABLES
  worker,  \* the maps of the service worker
  armed,   \* the permission to take pictures of the tab
  gesture, \* startCapture of the coordinator, per gesture
  capture, \* the content script's run for each gesture
  request, \* each capture's request for a picture
  ends,    \* END_FULL_PAGE_CAPTURE messages under way
  overlay, \* activeOverlay of the content script
  tab,     \* the page, where it stands, and whether the user looks at it
  met,     \* how often each hazard was met
  closed,  \* history: full-page sessions that were ended or replaced
  posted   \* history: the pictures each gesture uploaded

vars == <<worker, armed, gesture, capture, request, ends, overlay, tab, met,
          closed, posted>>

Modes == {"full", "visible"}
Pictures == [own: BOOLEAN, page: Nat, y: Nat]
Driving == {"slicing", "waiting"}
Busy == {"called", "binding", "frame", "ending"} \cup Driving
Starting == {"asking", "arming", "starting"}

NoArm == [gesture |-> NoGesture, mode |-> "full", page |-> 0, next |-> 0,
          y |-> 0, void |-> FALSE]
NoBottom == [height |-> 0, picture |-> [own |-> FALSE, page |-> 0, y |-> 0]]
IdleGesture == [pc |-> "idle", mode |-> "full", generation |-> 0,
                page |-> 0, y |-> 0]
IdleCapture == [pc |-> "idle", page |-> 0, from |-> 0, shots |-> <<>>,
                bottom |-> NoBottom, late |-> FALSE, complete |-> FALSE]
NoRequest == [pc |-> "none", sequence |-> 0, page |-> 0, y |-> 0,
              picture |-> NoBottom.picture]
NewWorker == [generation |-> 0, latestArm |-> 0, session |-> NoGesture]

WorkerStates == [generation: Nat, latestArm: Nat,
                 session: Gestures \cup {NoGesture}]
ArmStates == [gesture: Gestures \cup {NoGesture}, mode: Modes, page: Nat,
              next: Nat, y: Nat, void: BOOLEAN]
GestureStates == [pc: {"idle", "done", "failed"} \cup Starting, mode: Modes,
                  generation: Nat, page: Nat, y: Nat]
CapturePcs ==
  Busy \cup {"idle", "preview", "failed", "redacting", "uploading",
             "completed", "threw", "gone"}
Bottoms == [height: Nat, picture: Pictures]
CaptureStates == [pc: CapturePcs, page: Nat, from: Nat, shots: Seq(Pictures),
                  bottom: Bottoms, late: BOOLEAN, complete: BOOLEAN]
RequestStates == [pc: {"none", "asked", "taking", "answered", "refused"},
                  sequence: Nat, page: Nat, y: Nat, picture: Pictures]
TabStates == [page: Nat, height: Screen..MaxHeight, y: Nat, active: BOOLEAN,
              blurred: BOOLEAN]

Unmounted == {"idle", "called", "binding", "gone"}

\* The type of every variable; the overlay that is shown is that of a
\* capture which has been mounted and has not gone.
TypeOK ==
  /\ worker \in WorkerStates
  /\ armed \in ArmStates
  /\ gesture \in [Gestures -> GestureStates]
  /\ capture \in [Gestures -> CaptureStates]
  /\ request \in [Gestures -> RequestStates]
  /\ ends \subseteq Gestures
  /\ overlay \in Gestures \cup {NoGesture}
  /\ tab \in TabStates
  /\ met \in [Hazards -> Nat]
  /\ closed \subseteq Gestures
  /\ posted \in [Gestures -> SUBSET Pictures]
  /\ overlay # NoGesture => capture[overlay].pc \notin Unmounted

Init ==
  /\ worker = NewWorker
  /\ armed = NoArm
  /\ gesture = [g \in Gestures |-> IdleGesture]
  /\ capture = [g \in Gestures |-> IdleCapture]
  /\ request = [g \in Gestures |-> NoRequest]
  /\ ends = {}
  /\ overlay = NoGesture
  /\ tab = [page |-> 0, height |-> MaxHeight, y |-> 0, active |-> TRUE,
            blurred |-> FALSE]
  /\ met = [h \in Hazards |-> 0]
  /\ closed = {}
  /\ posted = [g \in Gestures |-> {}]

Meet(hazard) ==
  /\ met[hazard] < Limits[hazard]
  /\ Cardinality({hazard} \cup {h \in Hazards : met[h] > 0}) <= Kinds
  /\ met' = [met EXCEPT ![hazard] = @ + 1]

MeetIf(condition, hazard) ==
  IF condition THEN Meet(hazard) ELSE UNCHANGED met

Least(a, b) == IF a < b THEN a ELSE b
Bottom(height) == height - Screen

---------------------------------------------------------------------------
(* The coordinator of the service worker: startCapture.                    *)

Goes(g, pc) == gesture' = [gesture EXCEPT ![g].pc = pc]

ArmedFull(arm, g) == arm.gesture = g /\ arm.mode = "full"

\* Mutant of EndArm: any session is ended.
EndAnyArm(arm, g) == NoArm

\* END_FULL_PAGE_CAPTURE ends only the session it names.
EndArm(arm, g) == IF ArmedFull(arm, g) THEN NoArm ELSE arm

\* discardFullPage, which awaits nothing but the handler of the END message.
Discard(g, arm) ==
  /\ armed' = EndArm(arm, g)
  /\ worker' = [worker EXCEPT !.session = IF @ = g THEN NoGesture ELSE @]
  /\ closed' = closed \cup {g}

\* Mutant of Fail: the error is passed on and the session stays.
FailKeepingArm(g) == Goes(g, "failed") /\ UNCHANGED <<worker, armed, closed>>

\* The gesture's own session is discarded when its start fails.
Fail(g) ==
  /\ Goes(g, "failed")
  /\ IF gesture[g].mode = "full" THEN Discard(g, armed)
     ELSE UNCHANGED <<worker, armed, closed>>

Current(g) == gesture[g].generation = worker.generation

\* A new gesture replaces the session of the gesture before it.
Start(g, mode) ==
  /\ gesture[g].pc = "idle"
  /\ tab.active
  /\ worker' = [worker EXCEPT !.generation = @ + 1,
                  !.session = IF mode = "full" THEN g ELSE NoGesture]
  /\ gesture' = [gesture EXCEPT ![g] =
                   [pc |-> "asking", mode |-> mode,
                    generation |-> worker.generation + 1,
                    page |-> tab.page, y |-> 0]]
  /\ IF worker.session = NoGesture THEN UNCHANGED <<armed, closed>>
     ELSE /\ armed' = EndArm(armed, worker.session)
          /\ closed' = closed \cup {worker.session}
  /\ UNCHANGED <<capture, request, ends, overlay, tab, met, posted>>

\* The content script has told the page's state; the handler's first step
\* of arming runs at once.
StatusKnown(g) ==
  /\ gesture[g].pc = "asking"
  /\ \/ /\ ~Current(g) \/ (gesture[g].mode = "full"
                             /\ tab.page # gesture[g].page)
        /\ Fail(g)
     \/ /\ Current(g)
        /\ gesture[g].mode = "full" => tab.page = gesture[g].page
        /\ worker' = [worker EXCEPT !.latestArm = gesture[g].generation]
        /\ gesture' = [gesture EXCEPT ![g].pc = "arming",
                                      ![g].page = tab.page,
                                      ![g].y = tab.y]
        /\ UNCHANGED <<armed, closed>>
  /\ UNCHANGED <<capture, request, ends, overlay, tab, met, posted>>

\* The arming handler knows the active tab by now; a newer gesture may have
\* begun to arm meanwhile.
Armable(g) ==
  /\ worker.latestArm = gesture[g].generation
  /\ tab.active
  /\ gesture[g].mode = "full" => tab.page = gesture[g].page

\* That of a visible capture takes the URL of the tab and the signature the
\* page had before: of two pages, it is good for neither.
Arm(g) ==
  [gesture |-> g, mode |-> gesture[g].mode, page |-> gesture[g].page,
   next |-> 0, y |-> gesture[g].y, void |-> tab.page # gesture[g].page]

\* The sessions an arm takes the permission from.
Replaced(g) == {h \in Gestures \ {g} : ArmedFull(armed, h)}

Armed(g) ==
  /\ gesture[g].pc = "arming"
  /\ \/ /\ Armable(g) /\ Current(g)
        /\ armed' = Arm(g)
        /\ closed' = closed \cup Replaced(g)
        /\ Goes(g, "starting")
        /\ capture' = [capture EXCEPT ![g].pc = "called"]
        /\ UNCHANGED worker
     \/ /\ Armable(g) /\ ~Current(g)
        /\ Goes(g, "failed")
        /\ IF gesture[g].mode = "full" THEN Discard(g, Arm(g))
           ELSE /\ armed' = Arm(g)
                /\ closed' = closed \cup Replaced(g)
                /\ UNCHANGED worker
        /\ UNCHANGED capture
     \/ ~Armable(g) /\ Fail(g) /\ UNCHANGED capture
  /\ UNCHANGED <<request, ends, overlay, tab, met, posted>>

Shown == {"preview", "failed", "redacting", "uploading", "completed"}

\* The content script's answer to START_CAPTURE, which it gives when the
\* capture has been shown, has failed or has been cancelled.
Started(g) ==
  /\ gesture[g].pc = "starting"
  /\ capture[g].pc \notin Busy
  /\ IF Current(g) /\ capture[g].pc \in Shown
     THEN Goes(g, "done") /\ UNCHANGED <<worker, armed, closed>>
     ELSE Fail(g)
  /\ UNCHANGED <<capture, request, ends, overlay, tab, met, posted>>

---------------------------------------------------------------------------
(* The message handler of the service worker.                              *)

\* Mutant of Replies: a refusal is not sent back.
RepliesPictures(g, reply) ==
  request' = [request EXCEPT ![g] =
                IF capture[g].pc = "slicing" /\ reply.pc = "answered"
                THEN reply ELSE NoRequest]

\* Who waits no longer does not notice.
Replies(g, reply) ==
  request' = [request EXCEPT ![g] =
                IF capture[g].pc = "slicing" THEN reply ELSE NoRequest]

Refused == [NoRequest EXCEPT !.pc = "refused"]

Answered(g) ==
  [NoRequest EXCEPT !.pc = "answered",
     !.picture = [own |-> tab.active, page |-> tab.page, y |-> tab.y]]

\* What the handler compares with the arm.
InSequence(g) == ArmedFull(armed, g) /\ armed.next = request[g].sequence

SameContext(g) ==
  /\ armed.page = request[g].page /\ tab.page = request[g].page
  /\ request[g].y >= armed.y
  /\ request[g].sequence = 0 => request[g].y = armed.y

\* A slice of a tab that is not active, of an arm that is void or of another
\* context costs the tab its arm; one of another session does not.
CheckSlice(g) ==
  /\ request[g].pc = "asked"
  /\ gesture[g].mode = "full"
  /\ \/ /\ tab.active /\ ~armed.void /\ InSequence(g) /\ SameContext(g)
        /\ request' = [request EXCEPT ![g].pc = "taking"]
        /\ UNCHANGED armed
     \/ /\ tab.active /\ ~armed.void /\ ~InSequence(g)
        /\ Replies(g, Refused)
        /\ UNCHANGED armed
     \/ /\ \/ ~tab.active \/ armed.void
           \/ InSequence(g) /\ ~SameContext(g)
        /\ Replies(g, Refused)
        /\ armed' = IF armed.mode = "full" THEN NoArm ELSE armed
  /\ UNCHANGED <<worker, gesture, capture, ends, overlay, tab, met, closed,
                 posted>>

\* Mutant of StillArmed: the arm is not looked at again.
StillArmedAnyway(g) == TRUE

StillArmed(g) == ArmedFull(armed, g)

\* captureVisibleTab shows the active tab of the window, whichever it is by
\* then; the arm is looked at again afterwards.
TakeSlice(g) ==
  /\ request[g].pc = "taking"
  /\ gesture[g].mode = "full"
  /\ \/ /\ StillArmed(g) /\ ~armed.void
        /\ Replies(g, Answered(g))
        /\ armed' = [armed EXCEPT !.next = @ + 1, !.y = request[g].y]
        /\ UNCHANGED met
     \/ /\ StillArmed(g)
        /\ MeetIf(~armed.void, "picture")
        /\ Replies(g, Refused)
        /\ armed' = NoArm
     \/ ~StillArmed(g) /\ Replies(g, Refused) /\ UNCHANGED <<armed, met>>
  /\ UNCHANGED <<worker, gesture, capture, ends, overlay, tab, closed,
                 posted>>

ArmedOnce == armed.gesture # NoGesture /\ armed.mode = "visible"

\* The arm of a visible capture is good for one picture, whoever asks.
CheckVisible(g) ==
  /\ request[g].pc = "asked"
  /\ gesture[g].mode = "visible"
  /\ armed' = IF ArmedOnce THEN NoArm ELSE armed
  /\ IF /\ ArmedOnce /\ ~armed.void /\ tab.active
        /\ armed.page = request[g].page /\ tab.page = armed.page
     THEN request' = [request EXCEPT ![g].pc = "taking"]
     ELSE Replies(g, Refused)
  /\ UNCHANGED <<worker, gesture, capture, ends, overlay, tab, met, closed,
                 posted>>

TakeVisible(g) ==
  /\ request[g].pc = "taking"
  /\ gesture[g].mode = "visible"
  /\ \/ Replies(g, Answered(g)) /\ UNCHANGED met
     \/ Replies(g, Refused) /\ Meet("picture")
  /\ UNCHANGED <<worker, armed, gesture, capture, ends, overlay, tab, closed,
                 posted>>

\* The content script's END; only now does it go on to show what it has.
End(g) ==
  /\ g \in ends
  /\ ends' = ends \ {g}
  /\ armed' = EndArm(armed, g)
  /\ worker' = IF ArmedFull(armed, g) /\ worker.session = g
               THEN [worker EXCEPT !.session = NoGesture] ELSE worker
  /\ closed' = closed \cup {g}
  /\ capture' = [capture EXCEPT ![g].pc =
                   IF @ # "ending" THEN @
                   ELSE IF capture[g].shots = <<>> THEN "failed"
                   ELSE "preview"]
  /\ UNCHANGED <<gesture, request, overlay, tab, met, posted>>

\* GET_CAPTURE_BINDING, up to the await of the session manager.
MayCapture(g) ==
  /\ tab.active
  /\ IF gesture[g].mode = "full" THEN ArmedFull(armed, g) ELSE ArmedOnce
  /\ ~armed.void
  /\ armed.page = tab.page

AskBinding(g) ==
  /\ capture[g].pc = "called"
  /\ capture' = [capture EXCEPT ![g].pc =
                   IF MayCapture(g) THEN "binding" ELSE "threw"]
  /\ UNCHANGED <<worker, armed, gesture, request, ends, overlay, tab, met,
                 closed, posted>>

---------------------------------------------------------------------------
(* The content script: the overlay and the scroll driver.                  *)

ScrollTo(y) == [tab EXCEPT !.y = Least(y, Bottom(tab.height))]

Unended(g) ==
  gesture[g].mode = "full" /\ capture[g].pc \in {"frame", "threw"} \cup Driving

Restored(g) ==
  IF gesture[g].mode = "full" /\ capture[g].pc \in Driving
  THEN ScrollTo(capture[g].from) ELSE tab

Gone == [IdleCapture EXCEPT !.pc = "gone"]

\* cancel(): the overlay drops its pictures, the driver puts the page back,
\* and the session is ended if it was not.
EndsOf(g) == IF Unended(g) THEN ends \cup {g} ELSE ends

\* A newer gesture's capture whose binding came first.
Overtaken(g) ==
  \E h \in Gestures : /\ gesture[h].generation > gesture[g].generation
                      /\ capture[h].pc \notin {"idle", "called", "binding"}

\* The binding is there: the overlay there was is cancelled, the new one
\* mounted and hidden for the picture.
Mount(g) ==
  /\ capture[g].pc = "binding"
  /\ met' = IF Overtaken(g) THEN [met EXCEPT !["overtake"] = 1] ELSE met
  /\ overlay' = g
  /\ LET mounted == [IdleCapture EXCEPT !.pc = "frame", !.page = tab.page]
     IN  IF overlay = NoGesture
         THEN /\ capture' = [capture EXCEPT ![g] = mounted]
              /\ UNCHANGED <<ends, tab>>
         ELSE /\ capture' = [capture EXCEPT ![overlay] = Gone,
                                            ![g] = mounted]
              /\ ends' = EndsOf(overlay)
              /\ tab' = Restored(overlay)
  /\ UNCHANGED <<worker, armed, gesture, request, closed, posted>>

\* The session manager has no token to give.
NoBinding(g) ==
  /\ capture[g].pc = "binding"
  /\ Meet("network")
  /\ capture' = [capture EXCEPT ![g].pc = "threw"]
  /\ UNCHANGED <<worker, armed, gesture, request, ends, overlay, tab, closed,
                 posted>>

Asked(g, sequence, y) ==
  [pc |-> "asked", sequence |-> sequence, page |-> capture[g].page, y |-> y,
   picture |-> NoBottom.picture]

\* Mutant of Top: the capture begins where the page stands.
TopAnywhere(g) == tab

\* A full-page capture begins at the top.
Top(g) == IF gesture[g].mode = "full" THEN ScrollTo(0) ELSE tab

\* The page without the overlay has been drawn.
Frame(g) ==
  /\ capture[g].pc = "frame"
  /\ \/ /\ tab.page # capture[g].page
        /\ capture' = [capture EXCEPT ![g].pc = "threw"]
        /\ UNCHANGED <<request, tab>>
     \/ /\ tab.page = capture[g].page
        /\ capture' = [capture EXCEPT ![g].pc = "slicing",
                                      ![g].from = tab.y]
        /\ request' = [request EXCEPT ![g] = Asked(g, 0, Top(g).y)]
        /\ tab' = Top(g)
  /\ UNCHANGED <<worker, armed, gesture, ends, overlay, met, closed, posted>>

\* The driver returns, the pictures are stitched, and END is sent. What does
\* not fit the limits of the stitcher is left out, and said so; when it
\* cannot stitch at all, nothing is kept.
Return(g, shots, complete) ==
  /\ \E whole \in BOOLEAN, kept \in {shots, <<>>} :
       /\ whole => complete /\ kept = shots
       /\ MeetIf((complete /\ ~whole) \/ kept # shots, "picture")
       /\ capture' = [capture EXCEPT ![g].pc = "ending", ![g].shots = kept,
                                     ![g].complete = whole]
  /\ tab' = ScrollTo(capture[g].from)
  /\ ends' = ends \cup {g}

GoOn(g, shots, bottom) ==
  /\ capture' = [capture EXCEPT ![g].pc = "waiting", ![g].shots = shots,
                                ![g].bottom = bottom]
  /\ tab' = ScrollTo(tab.y + Screen)
  /\ UNCHANGED <<ends, met>>

AtBottom == tab.y >= Bottom(tab.height)

\* The bottom was seen before and the page has not grown since.
StableBottom(g) == capture[g].bottom.height = tab.height

\* The two pictures of the bottom show the same.
UnchangedBottom(g, picture) == capture[g].bottom.picture = picture

Receive(g) ==
  /\ capture[g].pc = "slicing"
  /\ gesture[g].mode = "full"
  /\ request[g].pc \in {"answered", "refused"}
  /\ LET picture == request[g].picture
         shots == Append(capture[g].shots, picture)
     IN  \/ /\ request[g].pc = "refused" \/ capture[g].late
            /\ Return(g, capture[g].shots, FALSE)
         \/ /\ request[g].pc = "answered" /\ ~capture[g].late
            /\ \/ /\ tab.page # capture[g].page
                  /\ Return(g, shots, FALSE)
               \/ /\ tab.page = capture[g].page
                  /\ AtBottom /\ StableBottom(g)
                  /\ Return(g, capture[g].shots, UnchangedBottom(g, picture))
               \/ /\ tab.page = capture[g].page
                  /\ AtBottom /\ ~StableBottom(g)
                  /\ GoOn(g, shots, [height |-> tab.height,
                                     picture |-> picture])
               \/ /\ tab.page = capture[g].page
                  /\ ~AtBottom
                  /\ GoOn(g, shots, NoBottom)
  /\ request' = [request EXCEPT ![g] = NoRequest]
  /\ UNCHANGED <<worker, armed, gesture, overlay, closed, posted>>

\* Half a second later.
NextSlice(g) ==
  /\ capture[g].pc = "waiting"
  /\ LET taken == Len(capture[g].shots)
         stops == \/ tab.page # capture[g].page
                  \/ capture[g].late
                  \/ taken >= MaxSlices
     IN  \/ /\ stops
            /\ Return(g, capture[g].shots, FALSE)
            /\ UNCHANGED request
         \/ /\ ~stops
            /\ request' = [request EXCEPT ![g] = Asked(g, taken, tab.y)]
            /\ capture' = [capture EXCEPT ![g].pc = "slicing"]
            /\ UNCHANGED <<ends, tab, met>>
  /\ UNCHANGED <<worker, armed, gesture, overlay, closed, posted>>

ReceiveVisible(g) ==
  /\ capture[g].pc = "slicing"
  /\ gesture[g].mode = "visible"
  /\ \/ /\ request[g].pc = "answered"
        /\ capture' = [capture EXCEPT ![g].pc = "preview",
                                      ![g].complete = TRUE,
                                      ![g].shots = <<request[g].picture>>]
     \/ /\ request[g].pc = "refused"
        /\ capture' = [capture EXCEPT ![g].pc = "threw"]
  /\ request' = [request EXCEPT ![g] = NoRequest]
  /\ UNCHANGED <<worker, armed, gesture, ends, overlay, tab, met, closed,
                 posted>>

\* The driver's own deadline passes while it waits for an answer.
GiveUp(g) ==
  /\ capture[g].pc = "slicing" /\ capture[g].late
  /\ Return(g, capture[g].shots, FALSE)
  /\ UNCHANGED <<worker, armed, gesture, request, overlay, closed, posted>>

\* Mutant of Cancel: the content script still thinks it is shown.
CancelUnseen(g) ==
  /\ capture' = [capture EXCEPT ![g] = Gone]
  /\ ends' = EndsOf(g)
  /\ tab' = Restored(g)
  /\ UNCHANGED overlay

Cancel(g) ==
  /\ capture' = [capture EXCEPT ![g] = Gone]
  /\ ends' = EndsOf(g)
  /\ tab' = Restored(g)
  /\ overlay' = NoGesture

\* What the user does comes after the events of the page before it.
UserSees(g) == overlay = g /\ tab.active /\ ~tab.blurred

Escape(g) ==
  /\ UserSees(g)
  /\ Meet("cancel")
  /\ Cancel(g)
  /\ UNCHANGED <<worker, armed, gesture, request, closed, posted>>

ConfirmUpload(g) ==
  /\ UserSees(g)
  /\ capture[g].pc = "preview"
  /\ capture' = [capture EXCEPT ![g].pc = "redacting"]
  /\ UNCHANGED <<worker, armed, gesture, request, ends, overlay, tab, met,
                 closed, posted>>

\* The pictures are redacted and sent to the service worker.
Upload(g) ==
  /\ capture[g].pc = "redacting"
  /\ capture' = [capture EXCEPT ![g].pc = "uploading"]
  /\ posted' = [posted EXCEPT ![g] =
                  @ \cup {capture[g].shots[i] : i \in DOMAIN capture[g].shots}]
  /\ UNCHANGED <<worker, armed, gesture, request, ends, overlay, tab, met,
                 closed>>

UploadEnds(g) ==
  /\ capture[g].pc = "uploading"
  /\ \/ /\ tab.active
        /\ capture' = [capture EXCEPT ![g].pc = "completed"]
        /\ UNCHANGED met
     \/ /\ MeetIf(tab.active, "network")
        /\ capture' = [capture EXCEPT ![g].pc = "failed"]
  /\ UNCHANGED <<worker, armed, gesture, request, ends, overlay, tab, closed,
                 posted>>

---------------------------------------------------------------------------
(* The user, the page and the browser.                                     *)

LeaveTab ==
  /\ tab.active
  /\ Meet("leave")
  /\ tab' = [tab EXCEPT !.active = FALSE, !.blurred = TRUE]
  /\ UNCHANGED <<worker, armed, gesture, capture, request, ends, overlay,
                 closed, posted>>

ReturnToTab ==
  /\ ~tab.active
  /\ tab' = [tab EXCEPT !.active = TRUE]
  /\ UNCHANGED <<worker, armed, gesture, capture, request, ends, overlay, met,
                 closed, posted>>

\* Mutant of BlurCancels: only a tab that is hidden by now is left.
BlurCancelsHidden == overlay # NoGesture /\ ~tab.active

\* The window's blur event cancels whatever overlay there is.
BlurCancels == overlay # NoGesture

Blur ==
  /\ tab.blurred
  /\ IF BlurCancels
     THEN /\ capture' = [capture EXCEPT ![overlay] = Gone]
          /\ ends' = EndsOf(overlay)
          /\ tab' = [Restored(overlay) EXCEPT !.blurred = FALSE]
          /\ overlay' = NoGesture
     ELSE /\ tab' = [tab EXCEPT !.blurred = FALSE]
          /\ UNCHANGED <<capture, ends, overlay>>
  /\ UNCHANGED <<worker, armed, gesture, request, met, closed, posted>>

\* The page goes to another URL without being loaded anew.
Navigate ==
  /\ Meet("navigate")
  /\ tab' = [tab EXCEPT !.page = @ + 1]
  /\ UNCHANGED <<worker, armed, gesture, capture, request, ends, overlay,
                 closed, posted>>

\* It grows or shrinks, as it does while its contents are being loaded.
Relayout ==
  /\ Meet("layout")
  /\ \E height \in Screen..MaxHeight :
       tab' = [tab EXCEPT !.height = height, !.y = Least(@, Bottom(height))]
  /\ UNCHANGED <<worker, armed, gesture, capture, request, ends, overlay,
                 closed, posted>>

\* The user scrolls, while the driver does or when it does not.
UserScrolls ==
  /\ Meet(IF \E g \in Gestures : capture[g].pc \in Driving THEN "scroll"
          ELSE "position")
  /\ \E y \in 0..Bottom(tab.height) : tab' = [tab EXCEPT !.y = y]
  /\ UNCHANGED <<worker, armed, gesture, capture, request, ends, overlay,
                 closed, posted>>

\* pagehide cancels the overlay; the content script and what it promised
\* are gone.
Reload ==
  /\ Meet("reload")
  /\ ends' = IF overlay = NoGesture THEN ends ELSE EndsOf(overlay)
  /\ overlay' = NoGesture
  /\ tab' = [tab EXCEPT !.page = @ + 1, !.y = 0]
  /\ capture' = [g \in Gestures |->
                   IF capture[g].pc = "idle" THEN IdleCapture ELSE Gone]
  /\ request' = [g \in Gestures |->
                   IF request[g].pc \in {"asked", "taking"} THEN request[g]
                   ELSE NoRequest]
  /\ LET lost == {g \in Gestures : gesture[g].pc \in {"asking", "starting"}}
     IN  /\ gesture' = [g \in Gestures |->
                          IF g \in lost
                          THEN [gesture[g] EXCEPT !.pc = "failed"]
                          ELSE gesture[g]]
         /\ IF worker.session \in lost THEN Discard(worker.session, armed)
            ELSE UNCHANGED <<worker, armed, closed>>
  /\ UNCHANGED <<posted>>

\* Twenty seconds, or thirty of a visible capture, since the arm.
Expire ==
  /\ armed.gesture # NoGesture /\ ~armed.void
  /\ Meet("time")
  /\ armed' = [armed EXCEPT !.void = TRUE]
  /\ UNCHANGED <<worker, gesture, capture, request, ends, overlay, tab,
                 closed, posted>>

\* Twenty seconds since the driver began, which was later.
RunLate(g) ==
  /\ gesture[g].mode = "full"
  /\ capture[g].pc \in Driving /\ ~capture[g].late
  /\ ArmedFull(armed, g) => armed.void
  /\ Meet("time")
  /\ capture' = [capture EXCEPT ![g].late = TRUE]
  /\ UNCHANGED <<worker, armed, gesture, request, ends, overlay, tab, closed,
                 posted>>

\* The browser stops the service worker: its maps are empty, its starts are
\* gone, and what it had not answered fails.
Restart ==
  /\ Meet("restart")
  /\ worker' = NewWorker
  /\ armed' = NoArm
  /\ gesture' = [g \in Gestures |->
                   [gesture[g] EXCEPT !.generation = 0,
                      !.pc = IF @ \in Starting THEN "failed" ELSE @]]
  /\ capture' = [g \in Gestures |->
                   [capture[g] EXCEPT !.pc =
                      CASE @ = "binding" -> "threw"
                        [] @ = "uploading" -> "failed"
                        [] OTHER -> @]]
  /\ request' = [g \in Gestures |->
                   IF request[g].pc \notin {"asked", "taking"} THEN request[g]
                   ELSE IF capture[g].pc = "slicing" THEN Refused
                   ELSE NoRequest]
  /\ UNCHANGED <<ends, overlay, tab, closed, posted>>

---------------------------------------------------------------------------
WorkerStep(g) ==
  \/ StatusKnown(g) \/ Armed(g) \/ Started(g)
  \/ CheckSlice(g) \/ TakeSlice(g) \/ CheckVisible(g) \/ TakeVisible(g)
  \/ End(g) \/ AskBinding(g)

PageStep(g) ==
  \/ Mount(g) \/ NoBinding(g) \/ Frame(g)
  \/ Receive(g) \/ NextSlice(g) \/ ReceiveVisible(g) \/ GiveUp(g)
  \/ Upload(g) \/ UploadEnds(g)

UserStep(g) ==
  \/ \E mode \in Modes : Start(g, mode)
  \/ Escape(g) \/ ConfirmUpload(g)

World ==
  \/ LeaveTab \/ ReturnToTab \/ Blur \/ Navigate \/ Relayout \/ UserScrolls
  \/ Reload \/ Expire \/ Restart
  \/ \E g \in Gestures : RunLate(g)

Next ==
  \/ \E g \in Gestures : WorkerStep(g) \/ PageStep(g) \/ UserStep(g)
  \/ World

Spec == Init /\ [][Next]_vars

Fairness ==
  \A g \in Gestures : WF_vars(WorkerStep(g)) /\ WF_vars(PageStep(g))

FairSpec == Spec /\ Fairness

---------------------------------------------------------------------------
Unmet(hazards) == \A h \in hazards : met[h] = 0

\* No picture is handed to a full-page session that was ended, or that a
\* newer capture has replaced, while the picture was being taken
\* (background.ts, CAPTURE_FULL_PAGE_SLICE).
PicturesOnlyWhileOpen ==
  [][\A g \in Gestures :
         /\ gesture[g].mode = "full"
         /\ request[g].pc = "taking" /\ request'[g].pc = "answered"
       => g \notin closed]_vars

\* No start is under way and no capture is at work.
Quiet ==
  /\ \A g \in Gestures : gesture[g].pc \notin Starting
  /\ \A g \in Gestures : capture[g].pc \notin Busy
  /\ ends = {}

\* The permission to take pictures does not outlive what it was given for:
\* when no start is under way and no capture is at work, there is none for
\* a full-page capture (background.ts, createCaptureCoordinator).
NoArmLeft == Quiet => \A g \in Gestures : ~ArmedFull(armed, g)

Follows(first, second) ==
  first.page = second.page /\ second.y <= first.y + Screen

\* The pictures show one page, every row from its top to its end.
WholePage(shots, height) ==
  /\ shots # <<>>
  /\ shots[1].y = 0
  /\ \A i \in 1..(Len(shots) - 1) : Follows(shots[i], shots[i + 1])
  /\ shots[Len(shots)].y + Screen >= height
  /\ tab.blurred \/ \A i \in DOMAIN shots : shots[i].own

\* What is called complete is the whole page as it is when the driver stops,
\* however it grew and shrank and wherever it stood before, unless the user
\* scrolled it meanwhile (scroll-driver.ts, capture).
CompleteIsWhole ==
  [][\A g \in Gestures :
         /\ gesture[g].mode = "full"
         /\ ~capture[g].complete /\ capture'[g].complete
         /\ Unmet({"scroll"})
       => WholePage(capture'[g].shots, tab.height)]_vars

\* The newest gesture gets its capture, whatever the gestures before it left
\* under way, unless something happened to the tab or the browser. It is
\* asked of captures of a page that stood at its top
\* (background.ts, startCapture and ARM_FULL_PAGE_CAPTURE).
NewestSucceeds ==
  \A g \in Gestures :
      /\ gesture[g].mode = "full" /\ gesture[g].y = 0
      /\ Current(g) /\ Unmet(Hazards \ {"layout", "position"})
    => /\ gesture[g].pc # "failed"
       /\ capture[g].pc \notin {"failed", "threw", "gone"}

\* What is uploaded never shows another tab, although a picture may
\* (capture-overlay.ts, onLifecycleLoss).
UploadsOwnTab == \A g \in Gestures : \A p \in posted[g] : p.own

\* Every start ends, and every capture shows its result or fails: again and
\* again nothing is under way, so that the overlay does not stay hidden
\* (capture-overlay.ts, startAutomaticCapture).
NothingHangs == []<>Quiet
=============================================================================
