-------------------------- MODULE PageCaptureProofs --------------------------
(***************************************************************************)
(* Proofs about PageCapture, for every number of gestures, every page and  *)
(* viewport, and every bound on the hazards.                               *)
(***************************************************************************)
EXTENDS PageCapture, TLAPS

USE GesturesAssumption, PageAssumption, LimitsAssumption

---------------------------------------------------------------------------
(* Types *)

\* What a step may do to the counters of hazards.
MetMoves ==
  \/ UNCHANGED met
  \/ \E h \in Hazards : Meet(h)
  \/ met' = [met EXCEPT !["overtake"] = 1]

LEMMA HazardsMove ==
  ASSUME Next
  PROVE  MetMoves
<1> USE DEF MetMoves
<1>h. /\ {"leave", "navigate", "reload", "restart", "time", "picture",
          "scroll", "position", "layout", "network", "cancel", "overtake"}
           \subseteq Hazards
  BY DEF Hazards
<1>1. ASSUME NEW b, NEW h \in Hazards, MeetIf(b, h)
      PROVE  MetMoves
  BY <1>1 DEF MeetIf
<1>2. CASE \E g \in Gestures : WorkerStep(g)
  BY <1>2, <1>h, <1>1
     DEF WorkerStep, StatusKnown, Armed, Started, CheckSlice, TakeSlice,
         CheckVisible, TakeVisible, End, AskBinding
<1>m. ASSUME NEW g \in Gestures, Mount(g)
      PROVE  MetMoves
  BY <1>m, <1>h DEF Mount
<1>e. \A g, shots, complete :
         Return(g, shots, complete) => MetMoves
  <2>1. SUFFICES ASSUME NEW g, NEW shots, NEW complete,
                        Return(g, shots, complete)
                 PROVE  MetMoves
    OBVIOUS
  <2>2. PICK whole \in BOOLEAN, kept \in {shots, <<>>} :
          MeetIf((complete /\ ~whole) \/ kept # shots, "picture")
    BY <2>1 DEF Return
  <2>3. QED
    BY <2>2, <1>1, <1>h
<1>o. \A g, shots, bottom :
         GoOn(g, shots, bottom) => MetMoves
  BY DEF GoOn
<1>r. ASSUME NEW g \in Gestures,
             Receive(g) \/ NextSlice(g) \/ ReceiveVisible(g) \/ GiveUp(g)
      PROVE  MetMoves
  <2>1. CASE Receive(g)
    BY <2>1, <1>e, <1>o DEF Receive
  <2>2. CASE NextSlice(g)
    BY <2>2, <1>e, <1>o DEF NextSlice
  <2>3. CASE ReceiveVisible(g)
    BY <2>3 DEF ReceiveVisible
  <2>4. CASE GiveUp(g)
    BY <2>4, <1>e DEF GiveUp
  <2>5. QED
    BY <1>r, <2>1, <2>2, <2>3, <2>4
<1>u. ASSUME NEW g \in Gestures,
             NoBinding(g) \/ Frame(g) \/ Upload(g) \/ UploadEnds(g)
      PROVE  MetMoves
  <2>1. CASE NoBinding(g) \/ Frame(g) \/ Upload(g)
    BY <2>1, <1>h, <1>1 DEF NoBinding, Frame, Upload
  <2>2. CASE UploadEnds(g)
    BY <2>2, <1>h, <1>1 DEF UploadEnds
  <2>3. QED
    BY <1>u, <2>1, <2>2
<1>3. CASE \E g \in Gestures : PageStep(g)
  BY <1>3, <1>m, <1>r, <1>u DEF PageStep
<1>4. CASE \E g \in Gestures : UserStep(g)
  BY <1>4, <1>h DEF UserStep, Start, Escape, ConfirmUpload
<1>5. CASE World
  BY <1>5, <1>h
     DEF World, LeaveTab, ReturnToTab, Blur, Navigate, Relayout,
         UserScrolls, Reload, Expire, Restart, RunLate
<1>6. QED
  BY <1>2, <1>3, <1>4, <1>5 DEF Next

\* No step makes a counter of hazards anything else, or takes back that a
\* hazard was met.
LEMMA MetTyped ==
  ASSUME met \in [Hazards -> Nat], Next
  PROVE  /\ met' \in [Hazards -> Nat]
         /\ \A h \in Hazards : met'[h] = 0 => met[h] = 0
BY HazardsMove DEF MetMoves, Meet, Hazards

\* Where the page may stand.
LEMMA TabTyped ==
  ASSUME tab \in TabStates, capture \in [Gestures -> CaptureStates],
         overlay \in Gestures \cup {NoGesture}, Next
  PROVE  tab' \in TabStates
<1>1. ASSUME NEW y \in Nat PROVE ScrollTo(y) \in TabStates
  BY DEF ScrollTo, TabStates, Least, Bottom
<1>2. ASSUME NEW g \in Gestures PROVE Restored(g) \in TabStates
  BY <1>1 DEF Restored, CaptureStates
<1>3. ASSUME NEW g \in Gestures PROVE Top(g) \in TabStates
  BY <1>1 DEF Top
<1>4. \A g \in Gestures : capture[g].from \in Nat
  BY DEF CaptureStates
<1>5. tab.y + Screen \in Nat
  BY DEF TabStates
<1>6. CASE \E g \in Gestures : WorkerStep(g)
  BY <1>6
     DEF WorkerStep, StatusKnown, Armed, Started, CheckSlice, TakeSlice,
         CheckVisible, TakeVisible, End, AskBinding
<1>b. \A g \in Gestures : \A shots, complete :
        Return(g, shots, complete) => tab' \in TabStates
  BY <1>1, <1>4 DEF Return
<1>g. \A g \in Gestures : \A shots, bottom :
        GoOn(g, shots, bottom) => tab' \in TabStates
  BY <1>1, <1>5 DEF GoOn
<1>7. ASSUME NEW g \in Gestures, PageStep(g)
      PROVE  tab' \in TabStates
  <2>1. CASE Mount(g)
    BY <2>1, <1>2 DEF Mount
  <2>2. CASE Frame(g)
    BY <2>2, <1>3 DEF Frame
  <2>3. CASE Receive(g)
    BY <2>3, <1>b, <1>g DEF Receive
  <2>4. CASE NextSlice(g) \/ GiveUp(g)
    BY <2>4, <1>b DEF NextSlice, GiveUp
  <2>5. CASE \/ NoBinding(g) \/ ReceiveVisible(g) \/ Upload(g)
             \/ UploadEnds(g)
    BY <2>5 DEF NoBinding, ReceiveVisible, Upload, UploadEnds
  <2>6. QED
    BY <1>7, <2>1, <2>2, <2>3, <2>4, <2>5 DEF PageStep
<1>8. CASE \E g \in Gestures : UserStep(g)
  BY <1>8, <1>2 DEF UserStep, Start, Escape, ConfirmUpload, Cancel
<1>9. CASE Blur
  BY <1>9, <1>2 DEF Blur, BlurCancels, TabStates
<1>a. /\ [tab EXCEPT !.active = FALSE, !.blurred = TRUE] \in TabStates
      /\ [tab EXCEPT !.active = TRUE] \in TabStates
  BY DEF TabStates
<1>p. [tab EXCEPT !.page = @ + 1] \in TabStates
  BY DEF TabStates
<1>r. [tab EXCEPT !.page = @ + 1, !.y = 0] \in TabStates
  <2>1. tab.page + 1 \in Nat /\ 0 \in Nat
    BY DEF TabStates
  <2>2. \A n, y \in Nat : [tab EXCEPT !.page = n, !.y = y] \in TabStates
    BY DEF TabStates
  <2>3. QED
    BY <2>1, <2>2
<1>y. \A y \in Nat : [tab EXCEPT !.y = y] \in TabStates
  BY DEF TabStates
<1>l. ASSUME NEW height \in Screen..MaxHeight
      PROVE  [tab EXCEPT !.height = height, !.y = Least(@, Bottom(height))]
               \in TabStates
  <2>1. Least(tab.y, Bottom(height)) \in Nat
    BY DEF TabStates, Least, Bottom
  <2>2. \A y \in Nat : [tab EXCEPT !.height = height, !.y = y] \in TabStates
    BY DEF TabStates
  <2>3. QED
    BY <2>1, <2>2
<1>10. CASE Relayout
  BY <1>10, <1>l DEF Relayout
<1>11. CASE UserScrolls
  BY <1>11, <1>y DEF UserScrolls
<1>12. CASE Reload
  BY <1>12, <1>r DEF Reload
<1>13. CASE \/ LeaveTab \/ ReturnToTab \/ Navigate \/ Expire \/ Restart
            \/ \E g \in Gestures : RunLate(g)
  BY <1>13, <1>a, <1>p
     DEF LeaveTab, ReturnToTab, Navigate, Expire, Restart, RunLate
<1>14. QED
  BY <1>6, <1>7, <1>8, <1>9, <1>10, <1>11, <1>12, <1>13 DEF Next, World

\* The variables of the worker.
LEMMA WorkerTyped ==
  ASSUME worker \in WorkerStates, gesture \in [Gestures -> GestureStates],
         Next
  PROVE  worker' \in WorkerStates
<1>n. NewWorker \in WorkerStates
  BY DEF NewWorker, WorkerStates
<1>s. \A session \in Gestures \cup {NoGesture} :
        [worker EXCEPT !.session = session] \in WorkerStates
  BY DEF WorkerStates
<1>c. worker.session \in Gestures \cup {NoGesture}
  BY DEF WorkerStates
<1>d. ASSUME NEW g, NEW arm, Discard(g, arm)
      PROVE  worker' \in WorkerStates
  BY <1>d, <1>s, <1>c DEF Discard
<1>f. ASSUME NEW g, Fail(g)
      PROVE  worker' \in WorkerStates
  BY <1>f, <1>d DEF Fail
<1>1. ASSUME NEW g \in Gestures, NEW mode, Start(g, mode)
      PROVE  worker' \in WorkerStates
  <2>1. worker.generation + 1 \in Nat
    BY DEF WorkerStates
  <2>2. \A n \in Nat, session \in Gestures \cup {NoGesture} :
          [worker EXCEPT !.generation = n, !.session = session]
            \in WorkerStates
    BY DEF WorkerStates
  <2>3. QED
    BY <1>1, <2>1, <2>2 DEF Start
<1>2. ASSUME NEW g \in Gestures, StatusKnown(g)
      PROVE  worker' \in WorkerStates
  <2>1. gesture[g].generation \in Nat
    BY DEF GestureStates
  <2>2. [worker EXCEPT !.latestArm = gesture[g].generation] \in WorkerStates
    BY <2>1 DEF WorkerStates
  <2>3. QED
    BY <1>2, <1>f, <2>2 DEF StatusKnown
<1>3. CASE \E g \in Gestures : Armed(g) \/ Started(g) \/ End(g)
  BY <1>3, <1>d, <1>f, <1>s DEF Armed, Started, End
<1>4. CASE Reload
  BY <1>4, <1>d DEF Reload
<1>5. CASE Restart
  BY <1>5, <1>n DEF Restart
<1>6. CASE \E g \in Gestures : \/ CheckSlice(g) \/ TakeSlice(g)
                               \/ CheckVisible(g) \/ TakeVisible(g)
                               \/ AskBinding(g)
  BY <1>6 DEF CheckSlice, TakeSlice, CheckVisible, TakeVisible, AskBinding
<1>7. CASE \E g \in Gestures : PageStep(g)
  BY <1>7
     DEF PageStep, Mount, NoBinding, Frame, Receive, NextSlice,
         ReceiveVisible, GiveUp, Upload, UploadEnds
<1>8. CASE \E g \in Gestures : Escape(g) \/ ConfirmUpload(g) \/ RunLate(g)
  BY <1>8 DEF Escape, ConfirmUpload, RunLate
<1>9. CASE \/ LeaveTab \/ ReturnToTab \/ Blur \/ Navigate \/ Relayout
           \/ UserScrolls \/ Expire
  BY <1>9 DEF LeaveTab, ReturnToTab, Blur, Navigate, Relayout, UserScrolls,
              Expire
<1>10. QED
  BY <1>1, <1>2, <1>3, <1>4, <1>5, <1>6, <1>7, <1>8, <1>9
     DEF Next, WorkerStep, UserStep, World

\* The permission to take pictures.
LEMMA ArmTyped ==
  ASSUME armed \in ArmStates, gesture \in [Gestures -> GestureStates],
         request \in [Gestures -> RequestStates], Next
  PROVE  armed' \in ArmStates
<1>n. NoArm \in ArmStates
  BY DEF NoArm, ArmStates, Modes
<1>e. ASSUME NEW g, NEW arm \in ArmStates
      PROVE  EndArm(arm, g) \in ArmStates
  BY <1>n DEF EndArm
<1>a. ASSUME NEW g \in Gestures
      PROVE  Arm(g) \in ArmStates
  BY DEF Arm, ArmStates, GestureStates
<1>d. ASSUME NEW g, NEW arm \in ArmStates, Discard(g, arm)
      PROVE  armed' \in ArmStates
  BY <1>d, <1>e DEF Discard
<1>f. ASSUME NEW g, Fail(g)
      PROVE  armed' \in ArmStates
  BY <1>f, <1>d DEF Fail
<1>1. CASE \E g \in Gestures, mode \in Modes : Start(g, mode)
  BY <1>1, <1>e DEF Start
<1>2. CASE \E g \in Gestures : \/ StatusKnown(g) \/ Armed(g) \/ Started(g)
                               \/ End(g)
  BY <1>2, <1>a, <1>d, <1>e, <1>f DEF StatusKnown, Armed, Started, End
<1>3. ASSUME NEW g \in Gestures, TakeSlice(g)
      PROVE  armed' \in ArmStates
  <2>1. armed.next + 1 \in Nat /\ request[g].y \in Nat
    BY DEF ArmStates, RequestStates
  <2>2. \A n, y \in Nat : [armed EXCEPT !.next = n, !.y = y] \in ArmStates
    BY DEF ArmStates
  <2>3. \/ armed' = [armed EXCEPT !.next = @ + 1, !.y = request[g].y]
        \/ armed' = NoArm
        \/ armed' = armed
    BY <1>3, Zenon DEF TakeSlice
  <2>4. [armed EXCEPT !.next = @ + 1, !.y = request[g].y] \in ArmStates
    BY <2>1, <2>2, Zenon
  <2>5. QED
    BY <2>3, <2>4, <1>n
<1>4. CASE \E g \in Gestures : \/ CheckSlice(g) \/ CheckVisible(g)
                               \/ TakeVisible(g) \/ AskBinding(g)
  BY <1>4, <1>n DEF CheckSlice, CheckVisible, TakeVisible, AskBinding
<1>5. CASE Reload
  BY <1>5, <1>d DEF Reload
<1>6. CASE Expire
  BY <1>6 DEF Expire, ArmStates
<1>7. CASE Restart
  BY <1>7, <1>n DEF Restart
<1>8. CASE \E g \in Gestures : PageStep(g)
  BY <1>8
     DEF PageStep, Mount, NoBinding, Frame, Receive, NextSlice,
         ReceiveVisible, GiveUp, Upload, UploadEnds
<1>9. CASE \E g \in Gestures : Escape(g) \/ ConfirmUpload(g) \/ RunLate(g)
  BY <1>9 DEF Escape, ConfirmUpload, RunLate
<1>10. CASE \/ LeaveTab \/ ReturnToTab \/ Blur \/ Navigate \/ Relayout
            \/ UserScrolls
  BY <1>10 DEF LeaveTab, ReturnToTab, Blur, Navigate, Relayout, UserScrolls
<1>11. QED
  BY <1>1, <1>2, <1>3, <1>4, <1>5, <1>6, <1>7, <1>8, <1>9, <1>10
     DEF Next, WorkerStep, UserStep, World

\* How far each start is.
LEMMA GestureTyped ==
  ASSUME worker \in WorkerStates, gesture \in [Gestures -> GestureStates],
         tab \in TabStates, Next
  PROVE  gesture' \in [Gestures -> GestureStates]
<1>g. ASSUME NEW g \in Gestures,
             NEW pc \in {"idle", "done", "failed"} \cup Starting, Goes(g, pc)
      PROVE  gesture' \in [Gestures -> GestureStates]
  BY <1>g DEF Goes, GestureStates
<1>s. "done" \in {"idle", "done", "failed"} \cup Starting
      /\ "failed" \in {"idle", "done", "failed"} \cup Starting
      /\ "starting" \in {"idle", "done", "failed"} \cup Starting
  BY DEF Starting
<1>t. tab.page \in Nat /\ tab.y \in Nat /\ worker.generation + 1 \in Nat
  BY DEF TabStates, WorkerStates
<1>1. CASE \E g \in Gestures, mode \in Modes : Start(g, mode)
  <2>1. ASSUME NEW mode \in Modes
        PROVE  [pc |-> "asking", mode |-> mode,
                generation |-> worker.generation + 1,
                page |-> tab.page, y |-> 0] \in GestureStates
    BY <1>t DEF GestureStates, Starting
  <2>2. QED
    BY <1>1, <2>1 DEF Start
<1>2. ASSUME NEW g \in Gestures, StatusKnown(g)
      PROVE  gesture' \in [Gestures -> GestureStates]
  <2>1. [gesture[g] EXCEPT !.pc = "arming", !.page = tab.page, !.y = tab.y]
          \in GestureStates
    BY <1>t DEF GestureStates, Starting
  <2>2. QED
    BY <1>2, <1>g, <1>s, <2>1 DEF StatusKnown, Fail
<1>3. CASE \E g \in Gestures : Armed(g) \/ Started(g)
  BY <1>3, <1>g, <1>s DEF Armed, Started, Fail
<1>4. CASE \E g \in Gestures : \/ CheckSlice(g) \/ TakeSlice(g)
                               \/ CheckVisible(g) \/ TakeVisible(g)
                               \/ End(g) \/ AskBinding(g)
  BY <1>4 DEF CheckSlice, TakeSlice, CheckVisible, TakeVisible, End,
              AskBinding
<1>5. CASE \E g \in Gestures : PageStep(g)
  BY <1>5
     DEF PageStep, Mount, NoBinding, Frame, Receive, NextSlice,
         ReceiveVisible, GiveUp, Upload, UploadEnds
<1>6. CASE \E g \in Gestures : Escape(g) \/ ConfirmUpload(g) \/ RunLate(g)
  BY <1>6 DEF Escape, ConfirmUpload, RunLate
<1>f. \A g \in Gestures : [gesture[g] EXCEPT !.pc = "failed"] \in GestureStates
  BY DEF GestureStates
<1>7. CASE Reload
  BY <1>7, <1>f DEF Reload
<1>8. CASE Restart
  <2>1. ASSUME NEW g \in Gestures
        PROVE  [gesture[g] EXCEPT !.generation = 0,
                  !.pc = IF @ \in Starting THEN "failed" ELSE @]
                 \in GestureStates
    BY DEF GestureStates, Starting
  <2>2. QED
    BY <1>8, <2>1 DEF Restart
<1>9. CASE \/ LeaveTab \/ ReturnToTab \/ Blur \/ Navigate \/ Relayout
           \/ UserScrolls \/ Expire
  BY <1>9 DEF LeaveTab, ReturnToTab, Blur, Navigate, Relayout, UserScrolls,
              Expire
<1>10. QED
  BY <1>1, <1>2, <1>3, <1>4, <1>5, <1>6, <1>7, <1>8, <1>9
     DEF Next, WorkerStep, UserStep, World

\* A picture shows some page, perhaps another tab's, at some position.
LEMMA PictureTyped ==
  /\ NoBottom.picture \in Pictures
  /\ tab \in TabStates =>
       [own |-> tab.active, page |-> tab.page, y |-> tab.y] \in Pictures
BY DEF NoBottom, Pictures, TabStates

LEMMA RequestTyped ==
  ASSUME capture \in [Gestures -> CaptureStates],
         request \in [Gestures -> RequestStates], tab \in TabStates, Next
  PROVE  request' \in [Gestures -> RequestStates]
<1>n. NoRequest \in RequestStates /\ Refused \in RequestStates
  BY PictureTyped DEF NoRequest, Refused, RequestStates, NoBottom, Pictures
<1>a. \A g : Answered(g) \in RequestStates
  <2>1. ASSUME NEW picture \in Pictures
        PROVE  [NoRequest EXCEPT !.pc = "answered", !.picture = picture]
                 \in RequestStates
    BY DEF NoRequest, RequestStates
  <2>2. QED
    BY <2>1, PictureTyped DEF Answered
<1>r. ASSUME NEW g, NEW reply \in RequestStates, Replies(g, reply)
      PROVE  request' \in [Gestures -> RequestStates]
  BY <1>r, <1>n DEF Replies
<1>k. ASSUME NEW g \in Gestures, NEW sequence \in Nat, NEW y \in Nat
      PROVE  Asked(g, sequence, y) \in RequestStates
  BY PictureTyped DEF Asked, RequestStates, CaptureStates
<1>1. CASE \E g \in Gestures : \/ CheckSlice(g) \/ TakeSlice(g)
                               \/ CheckVisible(g) \/ TakeVisible(g)
  <2>1. \A g \in Gestures : [request[g] EXCEPT !.pc = "taking"]
                              \in RequestStates
    BY DEF RequestStates
  <2>2. QED
    BY <1>1, <1>n, <1>a, <1>r, <2>1
       DEF CheckSlice, TakeSlice, CheckVisible, TakeVisible
<1>2. CASE \E g \in Gestures : Frame(g) \/ NextSlice(g)
  <2>1. \A g \in Gestures : Top(g).y \in Nat /\ Len(capture[g].shots) \in Nat
    BY DEF Top, ScrollTo, TabStates, Least, Bottom, CaptureStates
  <2>2. tab.y \in Nat /\ 0 \in Nat
    BY DEF TabStates
  <2>3. \A g \in Gestures :
          /\ Asked(g, 0, Top(g).y) \in RequestStates
          /\ Asked(g, Len(capture[g].shots), tab.y) \in RequestStates
    BY <1>k, <2>1, <2>2, Zenon
  <2>4. ASSUME NEW g \in Gestures, Frame(g) \/ NextSlice(g)
        PROVE  \/ request' = request
               \/ request' = [request EXCEPT ![g] = Asked(g, 0, Top(g).y)]
               \/ request' = [request EXCEPT ![g] =
                                Asked(g, Len(capture[g].shots), tab.y)]
    BY <2>4, Zenon DEF Frame, NextSlice
  <2>5. QED
    BY <1>2, <2>3, <2>4
<1>3. CASE \E g \in Gestures : Receive(g) \/ ReceiveVisible(g)
  BY <1>3, <1>n DEF Receive, ReceiveVisible
<1>4. CASE Reload
  BY <1>4, <1>n DEF Reload
<1>5. CASE Restart
  BY <1>5, <1>n DEF Restart
<1>6. CASE \E g \in Gestures : \/ StatusKnown(g) \/ Armed(g) \/ Started(g)
                               \/ End(g) \/ AskBinding(g)
  BY <1>6 DEF StatusKnown, Armed, Started, End, AskBinding
<1>7. CASE \E g \in Gestures : \/ Mount(g) \/ NoBinding(g) \/ GiveUp(g)
                               \/ Upload(g) \/ UploadEnds(g)
  BY <1>7 DEF Mount, NoBinding, GiveUp, Upload, UploadEnds
<1>8. CASE \E g \in Gestures : \/ Escape(g) \/ ConfirmUpload(g)
                               \/ RunLate(g)
                               \/ \E mode \in Modes : Start(g, mode)
  BY <1>8 DEF Escape, ConfirmUpload, RunLate, Start
<1>9. CASE \/ LeaveTab \/ ReturnToTab \/ Blur \/ Navigate \/ Relayout
           \/ UserScrolls \/ Expire
  BY <1>9 DEF LeaveTab, ReturnToTab, Blur, Navigate, Relayout, UserScrolls,
              Expire
<1>10. QED
  BY <1>1, <1>2, <1>3, <1>4, <1>5, <1>6, <1>7, <1>8, <1>9
     DEF Next, WorkerStep, PageStep, UserStep, World

\* What a capture's run remains when one of its parts changes.
LEMMA CaptureParts ==
  ASSUME NEW c \in CaptureStates
  PROVE  /\ c.pc \in CapturePcs /\ c.page \in Nat /\ c.from \in Nat
         /\ c.shots \in Seq(Pictures) /\ c.bottom \in Bottoms
         /\ \A pc \in CapturePcs : [c EXCEPT !.pc = pc] \in CaptureStates
         /\ [c EXCEPT !.late = TRUE] \in CaptureStates
BY DEF CaptureStates

LEMMA CaptureReturned ==
  ASSUME NEW c \in CaptureStates, NEW shots \in Seq(Pictures),
         NEW pc \in CapturePcs, NEW complete \in BOOLEAN
  PROVE  [c EXCEPT !.pc = pc, !.shots = shots, !.complete = complete]
           \in CaptureStates
BY DEF CaptureStates

LEMMA CaptureGoesOn ==
  ASSUME NEW c \in CaptureStates, NEW shots \in Seq(Pictures),
         NEW pc \in CapturePcs, NEW bottom \in Bottoms
  PROVE  [c EXCEPT !.pc = pc, !.shots = shots, !.bottom = bottom]
           \in CaptureStates
BY DEF CaptureStates

LEMMA CapturePictured ==
  ASSUME NEW c \in CaptureStates, NEW shots \in Seq(Pictures),
         NEW pc \in CapturePcs
  PROVE  [c EXCEPT !.pc = pc, !.complete = TRUE, !.shots = shots]
           \in CaptureStates
BY DEF CaptureStates

LEMMA CapturePlaced ==
  ASSUME NEW c \in CaptureStates, NEW pc \in CapturePcs, NEW n \in Nat
  PROVE  /\ [c EXCEPT !.pc = pc, !.from = n] \in CaptureStates
         /\ [c EXCEPT !.pc = pc, !.page = n] \in CaptureStates
BY DEF CaptureStates

LEMMA PcsAre ==
  {"called", "binding", "frame", "ending", "slicing", "waiting", "idle",
   "preview", "failed", "redacting", "uploading", "completed", "threw",
   "gone"} \subseteq CapturePcs
BY DEF CapturePcs, Busy, Driving

LEMMA IdleTyped == IdleCapture \in CaptureStates /\ Gone \in CaptureStates
<1>1. /\ <<>> \in Seq(Pictures) /\ NoBottom \in Bottoms
      /\ "idle" \in CapturePcs /\ "gone" \in CapturePcs
  BY PictureTyped, PcsAre DEF NoBottom, Bottoms
<1>2. IdleCapture \in CaptureStates
  BY <1>1 DEF IdleCapture, CaptureStates
<1>3. QED
  BY <1>1, <1>2, CaptureParts DEF Gone

\* What the pictures and the end of a capture may be.
LEMMA CaptureTyped ==
  ASSUME capture \in [Gestures -> CaptureStates],
         request \in [Gestures -> RequestStates], tab \in TabStates,
         overlay \in Gestures \cup {NoGesture}, Next
  PROVE  capture' \in [Gestures -> CaptureStates]
<1>r. \A g \in Gestures : capture[g] \in CaptureStates
  OBVIOUS
<1>c. ASSUME NEW g \in Gestures, NEW pc \in CapturePcs
      PROVE  [capture EXCEPT ![g].pc = pc] \in [Gestures -> CaptureStates]
  BY <1>r, CaptureParts
<1>s. \A g \in Gestures : capture[g].shots \in Seq(Pictures)
  BY <1>r, CaptureParts
<1>b. ASSUME NEW g \in Gestures, NEW shots \in Seq(Pictures),
             NEW complete \in BOOLEAN, Return(g, shots, complete)
      PROVE  capture' \in [Gestures -> CaptureStates]
  <2>1. PICK whole \in BOOLEAN, kept \in {shots, <<>>} :
          capture' = [capture EXCEPT ![g].pc = "ending", ![g].shots = kept,
                                     ![g].complete = whole]
    BY <1>b DEF Return
  <2>e. <<>> \in Seq(Pictures)
    OBVIOUS
  <2>k. kept \in Seq(Pictures)
    BY <2>e
  <2>2. [capture[g] EXCEPT !.pc = "ending", !.shots = kept,
                           !.complete = whole] \in CaptureStates
    BY <1>r, <2>k, PcsAre, CaptureReturned
  <2>3. QED
    BY <2>1, <2>2
<1>o. ASSUME NEW g \in Gestures, NEW shots \in Seq(Pictures),
             NEW bottom \in Bottoms, GoOn(g, shots, bottom)
      PROVE  capture' \in [Gestures -> CaptureStates]
  <2>1. [capture[g] EXCEPT !.pc = "waiting", !.shots = shots,
                           !.bottom = bottom] \in CaptureStates
    BY <1>r, PcsAre, CaptureGoesOn
  <2>2. QED
    BY <1>o, <2>1 DEF GoOn
<1>1. ASSUME NEW g \in Gestures, Receive(g)
      PROVE  capture' \in [Gestures -> CaptureStates]
  <2> DEFINE picture == request[g].picture
             shots == Append(capture[g].shots, picture)
             bottom == [height |-> tab.height, picture |-> picture]
  <2>1. picture \in Pictures /\ tab.height \in Nat
    BY DEF RequestStates, TabStates
  <2>2. shots \in Seq(Pictures)
    BY <2>1, <1>s
  <2>3. bottom \in Bottoms /\ NoBottom \in Bottoms
    BY <2>1, PictureTyped DEF NoBottom, Bottoms
  <2>4. UnchangedBottom(g, picture) \in BOOLEAN
    BY DEF UnchangedBottom
  <2>5. \/ Return(g, capture[g].shots, FALSE) \/ Return(g, shots, FALSE)
        \/ Return(g, capture[g].shots, UnchangedBottom(g, picture))
        \/ GoOn(g, shots, bottom) \/ GoOn(g, shots, NoBottom)
    BY <1>1, Zenon DEF Receive
  <2> HIDE DEF picture, shots, bottom
  <2>6. QED
    BY <2>2, <2>3, <2>4, <2>5, <1>s, <1>b, <1>o, Zenon
<1>2. ASSUME NEW g \in Gestures, NextSlice(g) \/ GiveUp(g)
      PROVE  capture' \in [Gestures -> CaptureStates]
  <2>1. \/ Return(g, capture[g].shots, FALSE)
        \/ capture' = [capture EXCEPT ![g].pc = "slicing"]
    BY <1>2, Zenon DEF NextSlice, GiveUp
  <2>2. QED
    <3>1. CASE Return(g, capture[g].shots, FALSE)
      BY <3>1, <1>b, <1>s, Zenon
    <3>2. CASE capture' = [capture EXCEPT ![g].pc = "slicing"]
      BY <3>2, <1>c, PcsAre
    <3>3. QED
      BY <2>1, <3>1, <3>2
<1>3. ASSUME NEW g \in Gestures, ReceiveVisible(g)
      PROVE  capture' \in [Gestures -> CaptureStates]
  <2>1. request[g].picture \in Pictures
    BY DEF RequestStates
  <2>2. <<request[g].picture>> \in Seq(Pictures)
    BY <2>1
  <2>3. [capture[g] EXCEPT !.pc = "preview", !.complete = TRUE,
           !.shots = <<request[g].picture>>] \in CaptureStates
    BY <1>r, <2>2, PcsAre, CapturePictured
  <2>4. QED
    BY <1>3, <1>c, PcsAre, <2>3 DEF ReceiveVisible
<1>t. tab.y \in Nat /\ tab.page \in Nat
  BY DEF TabStates
<1>4. ASSUME NEW g \in Gestures, Frame(g)
      PROVE  capture' \in [Gestures -> CaptureStates]
  <2>1. [capture[g] EXCEPT !.pc = "slicing", !.from = tab.y]
          \in CaptureStates
    BY <1>r, <1>t, PcsAre, CapturePlaced
  <2>2. QED
    BY <1>4, <1>c, <2>1, PcsAre DEF Frame
<1>5. ASSUME NEW g \in Gestures, Mount(g)
      PROVE  capture' \in [Gestures -> CaptureStates]
  <2> DEFINE mounted == [IdleCapture EXCEPT !.pc = "frame", !.page = tab.page]
  <2>1. mounted \in CaptureStates
    BY <1>t, IdleTyped, PcsAre, CapturePlaced
  <2>2. \/ capture' = [capture EXCEPT ![g] = mounted]
        \/ capture' = [capture EXCEPT ![overlay] = Gone, ![g] = mounted]
    BY <1>5, Zenon DEF Mount
  <2> HIDE DEF mounted
  <2>3. QED
    BY <2>1, <2>2, IdleTyped
<1>6. CASE \E g \in Gestures : RunLate(g)
  BY <1>6, <1>r, CaptureParts DEF RunLate
<1>7. CASE \E g \in Gestures : \/ Armed(g) \/ AskBinding(g) \/ NoBinding(g)
                               \/ Upload(g) \/ UploadEnds(g)
                               \/ ConfirmUpload(g)
  BY <1>7, <1>c, PcsAre
     DEF Armed, AskBinding, NoBinding, Upload, UploadEnds, ConfirmUpload
<1>8. ASSUME NEW g \in Gestures, End(g)
      PROVE  capture' \in [Gestures -> CaptureStates]
  <2>1. \E pc \in CapturePcs : capture' = [capture EXCEPT ![g].pc = pc]
    BY <1>8, <1>r, CaptureParts, PcsAre DEF End
  <2>2. QED
    BY <2>1, <1>c
<1>9. CASE Blur \/ Reload \/ \E g \in Gestures : Escape(g)
  BY <1>9, IdleTyped DEF Blur, BlurCancels, Reload, Escape, Cancel
<1>10. CASE Restart
  <2>1. ASSUME NEW g \in Gestures
        PROVE  [capture[g] EXCEPT !.pc =
                  CASE @ = "binding" -> "threw"
                    [] @ = "uploading" -> "failed"
                    [] OTHER -> @] \in CaptureStates
    BY <1>r, CaptureParts, PcsAre
  <2>2. QED
    BY <1>10, <2>1 DEF Restart
<1>11. CASE \E g \in Gestures : \/ StatusKnown(g) \/ Started(g)
                                \/ CheckSlice(g) \/ TakeSlice(g)
                                \/ CheckVisible(g) \/ TakeVisible(g)
                                \/ \E mode \in Modes : Start(g, mode)
  BY <1>11 DEF StatusKnown, Started, CheckSlice, TakeSlice, CheckVisible,
               TakeVisible, Start
<1>12. CASE \/ LeaveTab \/ ReturnToTab \/ Navigate \/ Relayout
            \/ UserScrolls \/ Expire
  BY <1>12 DEF LeaveTab, ReturnToTab, Navigate, Relayout, UserScrolls,
               Expire
<1>13. QED
  BY <1>1, <1>2, <1>3, <1>4, <1>5, <1>6, <1>7, <1>8, <1>9, <1>10, <1>11,
     <1>12
     DEF Next, WorkerStep, PageStep, UserStep, World

\* The sets of gestures, and the overlay.
LEMMA SetsTyped ==
  ASSUME worker \in WorkerStates, ends \subseteq Gestures,
         closed \subseteq Gestures, overlay \in Gestures \cup {NoGesture},
         Next
  PROVE  /\ ends' \subseteq Gestures /\ closed' \subseteq Gestures
         /\ overlay' \in Gestures \cup {NoGesture}
<1>s. worker.session \in Gestures \cup {NoGesture}
  BY DEF WorkerStates
<1>d. ASSUME NEW g \in Gestures, NEW arm, Discard(g, arm)
      PROVE  closed' \subseteq Gestures
  BY <1>d DEF Discard
<1>f. ASSUME NEW g \in Gestures, Fail(g)
      PROVE  closed' \subseteq Gestures
  BY <1>f, <1>d DEF Fail
<1>e. \A g \in Gestures : EndsOf(g) \subseteq Gestures
  BY DEF EndsOf
<1>p. \A g \in Gestures : Replaced(g) \subseteq Gestures
  BY DEF Replaced
<1>1. CASE \E g \in Gestures, mode \in Modes : Start(g, mode)
  BY <1>1, <1>s DEF Start
<1>2. CASE \E g \in Gestures : StatusKnown(g) \/ Armed(g) \/ Started(g)
  BY <1>2, <1>d, <1>f, <1>p DEF StatusKnown, Armed, Started
<1>3. CASE \E g \in Gestures : \/ CheckSlice(g) \/ TakeSlice(g)
                               \/ CheckVisible(g) \/ TakeVisible(g)
                               \/ End(g) \/ AskBinding(g)
  BY <1>3
     DEF CheckSlice, TakeSlice, CheckVisible, TakeVisible, End, AskBinding
<1>4. CASE \E g \in Gestures : PageStep(g)
  BY <1>4, <1>e
     DEF PageStep, Mount, NoBinding, Frame, Receive, NextSlice,
         ReceiveVisible, GiveUp, Upload, UploadEnds, Return, GoOn
<1>5. CASE Blur \/ \E g \in Gestures : Escape(g)
  BY <1>5, <1>e DEF Blur, BlurCancels, Escape, Cancel
<1>6. CASE Reload
  BY <1>6, <1>d, <1>e DEF Reload
<1>7. CASE \/ LeaveTab \/ ReturnToTab \/ Navigate \/ Relayout
           \/ UserScrolls \/ Expire \/ Restart
           \/ \E g \in Gestures : ConfirmUpload(g) \/ RunLate(g)
  BY <1>7 DEF LeaveTab, ReturnToTab, Navigate, Relayout, UserScrolls,
              Expire, Restart, ConfirmUpload, RunLate
<1>8. QED
  BY <1>1, <1>2, <1>3, <1>4, <1>5, <1>6, <1>7
     DEF Next, WorkerStep, UserStep, World

LEMMA PostedTyped ==
  ASSUME capture \in [Gestures -> CaptureStates],
         posted \in [Gestures -> SUBSET Pictures], Next
  PROVE  posted' \in [Gestures -> SUBSET Pictures]
<1>1. ASSUME NEW g \in Gestures, Upload(g)
      PROVE  posted' \in [Gestures -> SUBSET Pictures]
  <2>1. capture[g].shots \in Seq(Pictures)
    BY CaptureParts
  <2>2. {capture[g].shots[i] : i \in DOMAIN capture[g].shots}
          \subseteq Pictures
    BY <2>1
  <2>3. QED
    BY <1>1, <2>2 DEF Upload
<1>2. CASE \E g \in Gestures : WorkerStep(g)
  BY <1>2 DEF WorkerStep, StatusKnown, Armed, Started, CheckSlice, TakeSlice,
              CheckVisible, TakeVisible, End, AskBinding
<1>3. CASE \E g \in Gestures : PageStep(g) /\ ~Upload(g)
  BY <1>3
     DEF PageStep, Mount, NoBinding, Frame, Receive, NextSlice,
         ReceiveVisible, GiveUp, UploadEnds
<1>4. CASE \E g \in Gestures : UserStep(g)
  BY <1>4 DEF UserStep, Start, Escape, ConfirmUpload
<1>5. CASE World
  BY <1>5
     DEF World, LeaveTab, ReturnToTab, Blur, Navigate, Relayout,
         UserScrolls, Reload, Expire, Restart, RunLate
<1>6. QED
  BY <1>1, <1>2, <1>3, <1>4, <1>5 DEF Next

---------------------------------------------------------------------------
(* Control: who may take pictures, and since when.                         *)

Asking == {"asking", "arming"}
Early == {"idle"} \cup Asking

\* The session that may have pictures taken is the one the coordinator
\* knows, is being started, and shows nothing yet.
ArmedIsStarting ==
  \A g \in Gestures :
    ArmedFull(armed, g) =>
      /\ worker.session = g /\ g \notin closed
      /\ gesture[g].pc = "starting" /\ gesture[g].mode = "full"
      /\ capture[g].pc \notin Shown

\* A start that has not asked for the permission yet, and is the newest, is
\* known and open.
EarlyIsOpen ==
  \A g \in Gestures :
    /\ gesture[g].pc = "idle" => g \notin closed /\ worker.session # g
    /\ gesture[g].pc \in Asking /\ Current(g) =>
         /\ g \notin closed
         /\ gesture[g].mode = "full" => worker.session = g

\* The content script runs only what has been started.
CapturesStarted ==
  \A g \in Gestures :
    gesture[g].pc \in Early => capture[g].pc = "idle" /\ g \notin ends

GenerationsPassed ==
  \A g \in Gestures : gesture[g].generation <= worker.generation

Control ==
  ArmedIsStarting /\ EarlyIsOpen /\ CapturesStarted /\ GenerationsPassed

Inv == TypeOK /\ Control

\* A step that starts nothing, grants nothing and shows no full-page capture
\* that was not shown before.
Ordinary ==
  /\ UNCHANGED <<worker, gesture, closed>>
  /\ \A g \in Gestures :
       /\ ArmedFull(armed', g) => ArmedFull(armed, g)
       /\ capture[g].pc = "idle" => capture'[g].pc = "idle"
       /\ capture'[g].pc \in Shown =>
            capture[g].pc \in Shown \/ gesture[g].mode = "visible"
       /\ g \in ends' => g \in ends \/ capture[g].pc # "idle"

LEMMA OrdinaryKeepsControl ==
  ASSUME Control, Ordinary
  PROVE  Control'
BY DEF Control, ArmedIsStarting, EarlyIsOpen, CapturesStarted,
       GenerationsPassed, Ordinary, Current, ArmedFull, Early

\* The captures other than g are where they were.
OthersStay(g) ==
  \A h \in Gestures \ {g} : capture'[h].pc = capture[h].pc

\* The forms in which a step moves one capture.
LEMMA CaptureMoves ==
  ASSUME capture \in [Gestures -> CaptureStates], NEW g \in Gestures
  PROVE  /\ \A c : capture' = [capture EXCEPT ![g] = c] =>
                     OthersStay(g) /\ capture'[g] = c
         /\ \A pc : [capture[g] EXCEPT !.pc = pc].pc = pc
BY DEF OthersStay, CaptureStates

LEMMA CapturePcMoves ==
  ASSUME capture \in [Gestures -> CaptureStates], NEW g \in Gestures,
         NEW pc, capture' = [capture EXCEPT ![g].pc = pc]
  PROVE  OthersStay(g) /\ capture'[g].pc = pc
BY CaptureMoves

LEMMA ReturnMoves ==
  ASSUME capture \in [Gestures -> CaptureStates], NEW g \in Gestures,
         NEW shots, NEW complete, Return(g, shots, complete)
  PROVE  ends' = ends \cup {g} /\ OthersStay(g) /\ capture'[g].pc = "ending"
BY DEF Return, OthersStay, CaptureStates

LEMMA GoOnMoves ==
  ASSUME capture \in [Gestures -> CaptureStates], NEW g \in Gestures,
         NEW shots, NEW bottom, GoOn(g, shots, bottom)
  PROVE  ends' = ends /\ OthersStay(g) /\ capture'[g].pc = "waiting"
BY DEF GoOn, OthersStay, CaptureStates

\* A step of one capture that has begun is ordinary, unless it shows a
\* full-page capture.
LEMMA CaptureOrdinary ==
  ASSUME NEW g \in Gestures, UNCHANGED <<worker, armed, gesture, closed>>,
         capture[g].pc # "idle", OthersStay(g),
         capture'[g].pc \in Shown =>
           capture[g].pc \in Shown \/ gesture[g].mode = "visible",
         ends' \subseteq ends \cup {g}
  PROVE  Ordinary
BY DEF Ordinary, OthersStay

\* A capture that is cancelled goes.
LEMMA GoneOrdinary ==
  ASSUME capture \in [Gestures -> CaptureStates], NEW g \in Gestures,
         UNCHANGED <<worker, armed, gesture, closed>>,
         capture[g].pc # "idle",
         capture' = [capture EXCEPT ![g] = Gone], ends' = EndsOf(g)
  PROVE  Ordinary
<1>1. OthersStay(g) /\ capture'[g].pc = "gone"
  BY CaptureMoves DEF Gone, IdleCapture
<1>2. ends' \subseteq ends \cup {g}
  BY DEF EndsOf
<1>3. QED
  BY <1>1, <1>2, CaptureOrdinary DEF Shown

LEMMA HandlerOrdinary ==
  ASSUME Inv, NEW g \in Gestures,
         \/ CheckSlice(g) \/ TakeSlice(g) \/ CheckVisible(g)
         \/ TakeVisible(g)
  PROVE  Ordinary
<1>n. \A h \in Gestures : ~ArmedFull(NoArm, h)
  BY DEF ArmedFull, NoArm
<1>1. \/ armed' = armed \/ armed' = NoArm
      \/ armed' = [armed EXCEPT !.next = @ + 1, !.y = request[g].y]
  BY Zenon DEF CheckSlice, TakeSlice, CheckVisible, TakeVisible
<1>2. \A h \in Gestures : ArmedFull(armed', h) => ArmedFull(armed, h)
  BY <1>1, <1>n DEF ArmedFull, Inv, TypeOK, ArmStates
<1>3. UNCHANGED <<worker, gesture, closed, capture, ends>>
  BY DEF CheckSlice, TakeSlice, CheckVisible, TakeVisible
<1>4. QED
  BY <1>2, <1>3 DEF Ordinary

LEMMA PageOrdinary ==
  ASSUME Inv, NEW g \in Gestures, PageStep(g)
  PROVE  Ordinary
<1>t. /\ capture \in [Gestures -> CaptureStates]
      /\ overlay \in Gestures \cup {NoGesture}
      /\ overlay # NoGesture => capture[overlay].pc \notin Unmounted
  BY DEF Inv, TypeOK
<1>u. UNCHANGED <<worker, armed, gesture, closed>>
  BY DEF PageStep, Mount, NoBinding, Frame, Receive, NextSlice,
         ReceiveVisible, GiveUp, Upload, UploadEnds
<1>1. CASE Receive(g)
  <2>1. capture[g].pc = "slicing"
    BY <1>1 DEF Receive
  <2>2. \/ \E shots, complete : Return(g, shots, complete)
        \/ \E shots, bottom : GoOn(g, shots, bottom)
    BY <1>1, Zenon DEF Receive
  <2>3. QED
    BY <2>1, <2>2, <1>t, <1>u, ReturnMoves, GoOnMoves, CaptureOrdinary
       DEF Shown
<1>2. CASE NextSlice(g) \/ GiveUp(g)
  <2>1. capture[g].pc \in {"waiting", "slicing"}
    BY <1>2 DEF NextSlice, GiveUp
  <2>2. \/ \E shots, complete : Return(g, shots, complete)
        \/ /\ capture' = [capture EXCEPT ![g].pc = "slicing"]
           /\ ends' = ends
    BY <1>2, Zenon DEF NextSlice, GiveUp
  <2>3. QED
    BY <2>1, <2>2, <1>t, <1>u, ReturnMoves, CapturePcMoves, CaptureOrdinary
       DEF Shown
<1>3. CASE NoBinding(g) \/ Frame(g)
  <2>1. capture[g].pc \in {"binding", "frame"} /\ ends' = ends
    BY <1>3 DEF NoBinding, Frame
  <2>2. \/ capture' = [capture EXCEPT ![g].pc = "threw"]
        \/ capture' = [capture EXCEPT ![g] = [@ EXCEPT !.pc = "slicing",
                                                       !.from = tab.y]]
    BY <1>3 DEF NoBinding, Frame
  <2>3. [capture[g] EXCEPT !.pc = "slicing", !.from = tab.y].pc = "slicing"
    BY <1>t DEF CaptureStates
  <2>4. OthersStay(g) /\ capture'[g].pc \in {"threw", "slicing"}
    BY <2>2, <2>3, <1>t, CapturePcMoves, CaptureMoves
  <2>5. QED
    BY <2>1, <2>4, <1>u, CaptureOrdinary DEF Shown
<1>4. CASE ReceiveVisible(g)
  <2>1. /\ capture[g].pc = "slicing" /\ ends' = ends
        /\ gesture[g].mode = "visible"
    BY <1>4 DEF ReceiveVisible
  <2>2. OthersStay(g)
    BY <1>4, <1>t DEF ReceiveVisible, OthersStay
  <2>3. QED
    BY <2>1, <2>2, <1>u, CaptureOrdinary
<1>5. CASE Upload(g) \/ UploadEnds(g)
  <2>1. capture[g].pc \in {"redacting", "uploading"} /\ ends' = ends
    BY <1>5 DEF Upload, UploadEnds
  <2>2. \E pc : capture' = [capture EXCEPT ![g].pc = pc]
    BY <1>5 DEF Upload, UploadEnds
  <2>3. QED
    BY <2>1, <2>2, <1>t, <1>u, CapturePcMoves, CaptureOrdinary DEF Shown
<1>6. CASE Mount(g)
  <2> DEFINE mounted == [IdleCapture EXCEPT !.pc = "frame", !.page = tab.page]
  <2>1. capture[g].pc = "binding"
    BY <1>6 DEF Mount
  <2>2. mounted.pc = "frame" /\ Gone.pc = "gone"
    BY DEF IdleCapture, Gone
  <2>3. CASE overlay = NoGesture
    <3>1. capture' = [capture EXCEPT ![g] = mounted] /\ ends' = ends
      BY <1>6, <2>3, Zenon DEF Mount
    <3> HIDE DEF mounted
    <3>2. QED
      BY <2>1, <2>2, <3>1, <1>t, <1>u, CaptureMoves, CaptureOrdinary
         DEF Shown
  <2>4. CASE overlay # NoGesture
    <3>1. /\ capture' = [capture EXCEPT ![overlay] = Gone, ![g] = mounted]
          /\ ends' = EndsOf(overlay)
      BY <1>6, <2>4, Zenon DEF Mount
    <3>2. overlay \in Gestures /\ overlay # g
            /\ capture[overlay].pc # "idle"
      BY <2>4, <2>1, <1>t DEF Unmounted
    <3> HIDE DEF mounted
    <3>3. \A h \in Gestures :
            capture'[h].pc = IF h = g THEN "frame"
                             ELSE IF h = overlay THEN "gone"
                             ELSE capture[h].pc
      BY <3>1, <3>2, <2>2, <1>t
    <3>4. ends' \subseteq ends \cup {overlay}
      BY <3>1 DEF EndsOf
    <3>5. QED
      BY <2>1, <3>2, <3>3, <3>4, <1>u DEF Ordinary, Shown
  <2>5. QED
    BY <2>3, <2>4
<1>7. QED
  BY <1>1, <1>2, <1>3, <1>4, <1>5, <1>6 DEF PageStep

LEMMA WorldOrdinary ==
  ASSUME Inv,
         \/ LeaveTab \/ ReturnToTab \/ Blur \/ Navigate \/ Relayout
         \/ UserScrolls \/ Expire
         \/ \E g \in Gestures : \/ AskBinding(g) \/ Escape(g)
                                \/ ConfirmUpload(g) \/ RunLate(g)
         \/ UNCHANGED vars
  PROVE  Ordinary
<1>t. /\ capture \in [Gestures -> CaptureStates] /\ armed \in ArmStates
      /\ overlay \in Gestures \cup {NoGesture}
      /\ overlay # NoGesture => capture[overlay].pc \notin Unmounted
  BY DEF Inv, TypeOK
<1>1. CASE \/ LeaveTab \/ ReturnToTab \/ Navigate \/ Relayout
           \/ UserScrolls \/ UNCHANGED vars
  BY <1>1
     DEF LeaveTab, ReturnToTab, Navigate, Relayout, UserScrolls, vars,
         Ordinary
<1>2. CASE Expire
  BY <1>2, <1>t DEF Expire, Ordinary, ArmedFull, ArmStates
<1>3. CASE Blur
  <2>1. UNCHANGED <<worker, armed, gesture, closed>>
    BY <1>3 DEF Blur
  <2>2. CASE overlay = NoGesture
    BY <2>1, <2>2, <1>3 DEF Blur, BlurCancels, Ordinary
  <2>3. CASE overlay # NoGesture
    BY <2>1, <2>3, <1>3, <1>t, GoneOrdinary DEF Blur, BlurCancels, Unmounted
  <2>4. QED
    BY <2>2, <2>3
<1>4. ASSUME NEW g \in Gestures, Escape(g)
      PROVE  Ordinary
  BY <1>4, <1>t, GoneOrdinary DEF Escape, UserSees, Cancel, Unmounted
<1>5. ASSUME NEW g \in Gestures, AskBinding(g) \/ ConfirmUpload(g)
      PROVE  Ordinary
  <2>1. /\ UNCHANGED <<worker, armed, gesture, closed, ends>>
        /\ \/ /\ capture[g].pc = "called"
              /\ \/ capture' = [capture EXCEPT ![g].pc = "binding"]
                 \/ capture' = [capture EXCEPT ![g].pc = "threw"]
           \/ /\ capture[g].pc = "preview"
              /\ capture' = [capture EXCEPT ![g].pc = "redacting"]
    BY <1>5 DEF AskBinding, ConfirmUpload
  <2>2. QED
    BY <2>1, <1>t, CapturePcMoves, CaptureOrdinary DEF Shown
<1>6. ASSUME NEW g \in Gestures, RunLate(g)
      PROVE  Ordinary
  <2>1. /\ UNCHANGED <<worker, armed, gesture, closed, ends>>
        /\ capture[g].pc \in Driving
        /\ capture' = [capture EXCEPT ![g].late = TRUE]
    BY <1>6 DEF RunLate
  <2>2. OthersStay(g) /\ capture'[g].pc = capture[g].pc
    BY <2>1, <1>t DEF OthersStay, CaptureStates
  <2>3. QED
    BY <2>1, <2>2, CaptureOrdinary DEF Driving, Shown
<1>7. QED
  BY <1>1, <1>2, <1>3, <1>4, <1>5, <1>6

\* A step that moves the start of g to pc, and no other.
StartMoves(g, pc) ==
  \A h \in Gestures :
    /\ gesture'[h].pc = IF h = g THEN pc ELSE gesture[h].pc
    /\ gesture'[h].mode = gesture[h].mode
    /\ gesture'[h].generation = gesture[h].generation

LEMMA GoesMoves ==
  ASSUME gesture \in [Gestures -> GestureStates], NEW g \in Gestures, NEW pc,
         Goes(g, pc)
  PROVE  StartMoves(g, pc)
BY DEF Goes, StartMoves, GestureStates

\* What the end of a session leaves of the permission.
LEMMA Ended ==
  ASSUME NEW arm, NEW g, NEW h \in Gestures
  PROVE  ArmedFull(EndArm(arm, g), h) <=> ArmedFull(arm, h) /\ h # g
BY DEF EndArm, ArmedFull, NoArm

LEMMA StartKeepsControl ==
  ASSUME Inv, NEW g \in Gestures, NEW mode \in Modes, Start(g, mode)
  PROVE  Control'
<1>t. /\ gesture \in [Gestures -> GestureStates] /\ worker \in WorkerStates
      /\ worker.session \in Gestures \cup {NoGesture}
      /\ \A h \in Gestures : gesture[h].generation \in Nat
      /\ worker.generation \in Nat
  BY DEF Inv, TypeOK, WorkerStates, GestureStates
<1>c. ArmedIsStarting /\ EarlyIsOpen /\ CapturesStarted /\ GenerationsPassed
  BY DEF Inv, Control
<1>1. /\ gesture[g].pc = "idle"
      /\ worker'.generation = worker.generation + 1
      /\ worker'.session = IF mode = "full" THEN g ELSE NoGesture
      /\ UNCHANGED <<capture, ends>>
  BY <1>t DEF Start, WorkerStates
<1>2. /\ gesture'[g].pc = "asking" /\ gesture'[g].mode = mode
      /\ gesture'[g].generation = worker.generation + 1
      /\ \A h \in Gestures \ {g} : gesture'[h] = gesture[h]
  BY <1>t DEF Start
<1>3. closed' \subseteq closed \cup ({worker.session} \cap Gestures)
  BY <1>t DEF Start
<1>4. \A h \in Gestures : ~ArmedFull(armed', h)
  <2>1. armed' = IF worker.session = NoGesture THEN armed
                 ELSE EndArm(armed, worker.session)
    BY DEF Start
  <2>2. QED
    BY <2>1, <1>c, Ended DEF ArmedIsStarting
<1>5. ArmedIsStarting'
  BY <1>4 DEF ArmedIsStarting
<1>6. EarlyIsOpen'
  <2>1. \A h \in Gestures \ {g} : ~Current(h)'
    BY <1>1, <1>2, <1>t, <1>c DEF Current, GenerationsPassed
  <2>2. g \notin closed' /\ \A h \in Gestures :
                             gesture[h].pc = "idle" => h \notin closed'
    BY <1>1, <1>3, <1>c DEF EarlyIsOpen
  <2>3. QED
    BY <1>1, <1>2, <2>1, <2>2 DEF EarlyIsOpen, Asking
<1>7. CapturesStarted'
  BY <1>1, <1>2, <1>c DEF CapturesStarted, Early, Asking
<1>8. GenerationsPassed'
  BY <1>1, <1>2, <1>t, <1>c DEF GenerationsPassed
<1>9. QED
  BY <1>5, <1>6, <1>7, <1>8 DEF Control

\* The end of a session costs no other start anything.
LEMMA DiscardKeepsControl ==
  ASSUME Inv, NEW g \in Gestures, NEW pc, pc \notin Early,
         StartMoves(g, pc), Discard(g, armed) \/ Discard(g, Arm(g)),
         UNCHANGED <<capture, ends>>
  PROVE  Control'
<1>c. /\ ArmedIsStarting /\ EarlyIsOpen /\ CapturesStarted
      /\ GenerationsPassed
  BY DEF Inv, Control
<1>1. /\ worker'.generation = worker.generation
      /\ worker'.session = IF worker.session = g THEN NoGesture
                           ELSE worker.session
      /\ closed' = closed \cup {g}
  BY DEF Discard, Inv, TypeOK, WorkerStates
<1>2. \A h \in Gestures :
        ArmedFull(armed', h) => ArmedFull(armed, h) /\ h # g
  <2>1. armed' \in {EndArm(armed, g), EndArm(Arm(g), g)}
    BY DEF Discard
  <2>2. \A h \in Gestures : ~(ArmedFull(Arm(g), h) /\ h # g)
    BY DEF ArmedFull, Arm
  <2>3. QED
    BY <2>1, <2>2, Ended
<1>3. ArmedIsStarting'
  BY <1>1, <1>2, <1>c DEF ArmedIsStarting, StartMoves
<1>4. \A h \in Gestures : gesture'[h].pc \in Early => h # g
  BY DEF StartMoves
<1>5. EarlyIsOpen'
  BY <1>1, <1>4, <1>c DEF EarlyIsOpen, StartMoves, Current, Early
<1>6. CapturesStarted' /\ GenerationsPassed'
  BY <1>1, <1>4, <1>c
     DEF CapturesStarted, GenerationsPassed, StartMoves
<1>7. QED
  BY <1>3, <1>5, <1>6 DEF Control

LEMMA FailKeepsControl ==
  ASSUME Inv, NEW g \in Gestures, Fail(g), UNCHANGED <<capture, ends>>
  PROVE  Control'
<1>1. gesture \in [Gestures -> GestureStates]
  BY DEF Inv, TypeOK
<1>2. StartMoves(g, "failed")
  BY <1>1, GoesMoves DEF Fail
<1>3. CASE gesture[g].mode = "full"
  BY <1>2, <1>3, DiscardKeepsControl DEF Fail, Early, Asking
<1>4. CASE gesture[g].mode # "full"
  <2>1. UNCHANGED <<worker, armed, closed>>
    BY <1>4 DEF Fail
  <2>2. \A h \in Gestures : gesture'[h].pc \in Early => h # g
    BY <1>2 DEF StartMoves, Early, Asking
  <2>3. ArmedIsStarting'
    BY <1>2, <1>4, <2>1
       DEF Inv, Control, ArmedIsStarting, StartMoves, ArmedFull
  <2>4. EarlyIsOpen'
    BY <1>2, <2>1, <2>2
       DEF Inv, Control, EarlyIsOpen, StartMoves, Current, Early
  <2>5. CapturesStarted' /\ GenerationsPassed'
    BY <1>2, <2>1, <2>2
       DEF Inv, Control, CapturesStarted, GenerationsPassed, StartMoves
  <2>6. QED
    BY <2>3, <2>4, <2>5 DEF Control
<1>5. QED
  BY <1>3, <1>4

LEMMA StatusKnownKeepsControl ==
  ASSUME Inv, NEW g \in Gestures, StatusKnown(g)
  PROVE  Control'
<1>1. CASE Fail(g)
  BY <1>1, FailKeepsControl DEF StatusKnown
<1>2. CASE ~Fail(g)
  <2>1. /\ gesture[g].pc = "asking"
        /\ UNCHANGED <<armed, closed, capture, ends>>
        /\ gesture' = [gesture EXCEPT ![g].pc = "arming",
                         ![g].page = tab.page, ![g].y = tab.y]
        /\ worker' = [worker EXCEPT !.latestArm = gesture[g].generation]
    BY <1>2 DEF StatusKnown
  <2>2. StartMoves(g, "arming")
    BY <2>1 DEF StartMoves, Inv, TypeOK, GestureStates
  <2>3. /\ worker'.session = worker.session
        /\ worker'.generation = worker.generation
    BY <2>1 DEF Inv, TypeOK, WorkerStates
  <2>4. ArmedIsStarting'
    BY <2>1, <2>2, <2>3
       DEF Inv, Control, ArmedIsStarting, StartMoves, ArmedFull
  <2>c. EarlyIsOpen
    BY DEF Inv, Control
  <2>a. gesture[g].pc = "asking"
    BY <2>1
  <2>s. \A h \in Gestures :
          /\ gesture'[h].pc = "idle" => gesture[h].pc = "idle"
          /\ gesture'[h].pc \in Asking => gesture[h].pc \in Asking
    BY <2>a, <2>2 DEF StartMoves, Asking
  <2>k. \A h \in Gestures : Current(h)' => Current(h)
    BY <2>2, <2>3 DEF StartMoves, Current
  <2>5. EarlyIsOpen'
    BY <2>1, <2>2, <2>3, <2>c, <2>s, <2>k DEF EarlyIsOpen, StartMoves
  <2>6. CapturesStarted' /\ GenerationsPassed'
    BY <2>1, <2>2, <2>3
       DEF Inv, Control, CapturesStarted, GenerationsPassed, StartMoves,
           Early, Asking
  <2>7. QED
    BY <2>4, <2>5, <2>6 DEF Control
<1>3. QED
  BY <1>1, <1>2

LEMMA ArmedKeepsControl ==
  ASSUME Inv, NEW g \in Gestures, Armed(g)
  PROVE  Control'
<1>t. /\ gesture \in [Gestures -> GestureStates]
      /\ capture \in [Gestures -> CaptureStates]
  BY DEF Inv, TypeOK
<1>c. /\ ArmedIsStarting /\ EarlyIsOpen /\ CapturesStarted
      /\ GenerationsPassed
  BY DEF Inv, Control
<1>a. gesture[g].pc = "arming" /\ capture[g].pc = "idle" /\ g \notin ends
  BY <1>c DEF Armed, CapturesStarted, Early, Asking
<1>r. \A h \in Gestures : h \in Replaced(g) => gesture[h].pc = "starting"
  BY <1>c DEF Replaced, ArmedIsStarting
<1>1. CASE Armable(g) /\ Current(g)
  <2>1. /\ armed' = Arm(g) /\ closed' = closed \cup Replaced(g)
        /\ Goes(g, "starting")
        /\ capture' = [capture EXCEPT ![g].pc = "called"]
        /\ UNCHANGED <<worker, ends>>
    BY <1>1 DEF Armed
  <2>2. StartMoves(g, "starting")
    BY <2>1, <1>t, GoesMoves
  <2>3. OthersStay(g) /\ capture'[g].pc = "called"
    BY <2>1, <1>t, CapturePcMoves
  <2>4. \A h \in Gestures :
          ArmedFull(armed', h) => h = g /\ gesture[g].mode = "full"
    BY <2>1 DEF ArmedFull, Arm
  <2>5. g \notin closed' /\ (gesture[g].mode = "full" => worker.session = g)
    BY <2>1, <1>1, <1>a, <1>c DEF EarlyIsOpen, Asking, Replaced
  <2>6. ArmedIsStarting'
    BY <2>1, <2>2, <2>3, <2>4, <2>5 DEF ArmedIsStarting, StartMoves, Shown
  <2>7. EarlyIsOpen'
    BY <2>1, <2>2, <1>c, <1>r
       DEF EarlyIsOpen, StartMoves, Current, Asking
  <2>8. CapturesStarted'
    BY <2>1, <2>2, <2>3, <1>c
       DEF CapturesStarted, StartMoves, OthersStay, Early, Asking
  <2>9. GenerationsPassed'
    BY <2>1, <2>2, <1>c DEF GenerationsPassed, StartMoves
  <2>10. QED
    BY <2>6, <2>7, <2>8, <2>9 DEF Control
<1>2. CASE Armable(g) /\ ~Current(g)
  <2>1. Goes(g, "failed") /\ UNCHANGED <<capture, ends>>
    BY <1>2 DEF Armed
  <2>2. StartMoves(g, "failed")
    BY <2>1, <1>t, GoesMoves
  <2>3. CASE gesture[g].mode = "full"
    <3>1. Discard(g, Arm(g))
      BY <1>2, <2>3 DEF Armed
    <3>2. QED
      BY <2>1, <2>2, <3>1, DiscardKeepsControl DEF Early, Asking
  <2>4. CASE gesture[g].mode # "full"
    <3>1. /\ armed' = Arm(g) /\ closed' = closed \cup Replaced(g)
          /\ UNCHANGED worker
      BY <1>2, <2>4 DEF Armed
    <3>2. ArmedIsStarting'
      BY <3>1, <2>4 DEF ArmedIsStarting, ArmedFull, Arm
    <3>3. EarlyIsOpen'
      BY <3>1, <2>2, <1>c, <1>r
         DEF EarlyIsOpen, StartMoves, Current, Asking
    <3>4. CapturesStarted' /\ GenerationsPassed'
      BY <3>1, <2>1, <2>2, <1>c
         DEF CapturesStarted, GenerationsPassed, StartMoves, Early, Asking
    <3>5. QED
      BY <3>2, <3>3, <3>4 DEF Control
  <2>5. QED
    BY <2>3, <2>4
<1>3. CASE ~Armable(g)
  BY <1>3, FailKeepsControl DEF Armed
<1>4. QED
  BY <1>1, <1>2, <1>3

LEMMA StartedKeepsControl ==
  ASSUME Inv, NEW g \in Gestures, Started(g)
  PROVE  Control'
<1>1. CASE Fail(g)
  BY <1>1, FailKeepsControl DEF Started
<1>2. CASE ~Fail(g)
  <2>1. /\ capture[g].pc \in Shown /\ Goes(g, "done")
        /\ UNCHANGED <<worker, armed, closed, capture, ends>>
    BY <1>2 DEF Started
  <2>2. StartMoves(g, "done")
    BY <2>1, GoesMoves DEF Inv, TypeOK
  <2>3. ArmedIsStarting'
    BY <2>1, <2>2 DEF Inv, Control, ArmedIsStarting, StartMoves, ArmedFull
  <2>4. EarlyIsOpen'
    BY <2>1, <2>2
       DEF Inv, Control, EarlyIsOpen, StartMoves, Current, Asking
  <2>5. CapturesStarted' /\ GenerationsPassed'
    BY <2>1, <2>2
       DEF Inv, Control, CapturesStarted, GenerationsPassed, StartMoves,
           Early, Asking
  <2>6. QED
    BY <2>3, <2>4, <2>5 DEF Control
<1>3. QED
  BY <1>1, <1>2

LEMMA EndKeepsControl ==
  ASSUME Inv, NEW g \in Gestures, End(g)
  PROVE  Control'
<1>t. /\ capture \in [Gestures -> CaptureStates] /\ worker \in WorkerStates
  BY DEF Inv, TypeOK
<1>1. /\ g \in ends /\ ends' \subseteq ends /\ UNCHANGED gesture
      /\ armed' = EndArm(armed, g) /\ closed' = closed \cup {g}
  BY DEF End
<1>2. /\ worker'.generation = worker.generation
      /\ worker'.session \in {worker.session, NoGesture}
      /\ worker'.session # worker.session => worker.session = g
  BY <1>t DEF End, WorkerStates
<1>3. OthersStay(g)
  <2>1. \E pc : capture' = [capture EXCEPT ![g].pc = pc]
    BY DEF End
  <2>2. QED
    BY <2>1, <1>t, CapturePcMoves
<1>4. gesture[g].pc \notin Early
  BY <1>1 DEF Inv, Control, CapturesStarted
<1>5. ArmedIsStarting'
  BY <1>1, <1>2, <1>3, Ended
     DEF Inv, Control, ArmedIsStarting, OthersStay
<1>6. EarlyIsOpen'
  BY <1>1, <1>2, <1>4
     DEF Inv, Control, EarlyIsOpen, Current, Early
<1>7. CapturesStarted' /\ GenerationsPassed'
  BY <1>1, <1>2, <1>3, <1>4
     DEF Inv, Control, CapturesStarted, GenerationsPassed, OthersStay
<1>8. QED
  BY <1>5, <1>6, <1>7 DEF Control

LEMMA ReloadKeepsControl ==
  ASSUME Inv, Reload
  PROVE  Control'
<1> DEFINE lost ==
      {g \in Gestures : gesture[g].pc \in {"asking", "starting"}}
<1>t. /\ gesture \in [Gestures -> GestureStates] /\ worker \in WorkerStates
      /\ overlay \in Gestures \cup {NoGesture}
      /\ overlay # NoGesture => capture[overlay].pc \notin Unmounted
  BY DEF Inv, TypeOK
<1>c. /\ ArmedIsStarting /\ EarlyIsOpen /\ CapturesStarted
      /\ GenerationsPassed
  BY DEF Inv, Control
<1>1. \A g \in Gestures :
        /\ gesture'[g].pc = IF g \in lost THEN "failed" ELSE gesture[g].pc
        /\ gesture'[g].mode = gesture[g].mode
        /\ gesture'[g].generation = gesture[g].generation
  BY <1>t DEF Reload, GestureStates
<1>2. \A g \in Gestures : capture[g].pc = "idle" => capture'[g].pc = "idle"
  BY DEF Reload, IdleCapture
<1>3. \A g \in ends' : g \in ends \/ (g = overlay /\ overlay # NoGesture)
  BY DEF Reload, EndsOf
<1>4. CapturesStarted'
  <2>1. ASSUME NEW g \in Gestures, gesture'[g].pc \in Early
        PROVE  gesture[g].pc \in Early
    BY <2>1, <1>1 DEF Early, Asking
  <2>2. QED
    BY <2>1, <1>2, <1>3, <1>c, <1>t DEF CapturesStarted, Unmounted
<1>5. CASE worker.session \in lost
  <2>1. Discard(worker.session, armed)
    BY <1>5 DEF Reload
  <2>2. /\ worker'.generation = worker.generation
        /\ worker'.session = NoGesture
        /\ closed' = closed \cup {worker.session}
    BY <2>1, <1>t DEF Discard, WorkerStates
  <2>3. \A h \in Gestures : ~ArmedFull(armed', h)
    BY <2>1, <1>c, Ended DEF Discard, ArmedIsStarting
  <2>4. ArmedIsStarting'
    BY <2>3 DEF ArmedIsStarting
  <2>5. \A h \in Gestures : gesture'[h].pc \in Early => h # worker.session
    BY <1>1, <1>5 DEF Early, Asking
  <2>6. EarlyIsOpen'
    BY <1>1, <2>2, <2>5, <1>c DEF EarlyIsOpen, Current, Early, Asking
  <2>7. GenerationsPassed'
    BY <1>1, <2>2, <1>c DEF GenerationsPassed
  <2>8. QED
    BY <1>4, <2>4, <2>6, <2>7 DEF Control
<1>6. CASE worker.session \notin lost
  <2>1. UNCHANGED <<worker, armed, closed>>
    BY <1>6 DEF Reload
  <2>2. \A h \in Gestures : ~ArmedFull(armed, h)
    BY <1>6, <1>c DEF ArmedIsStarting
  <2>3. ArmedIsStarting'
    BY <2>1, <2>2 DEF ArmedIsStarting, ArmedFull
  <2>4. EarlyIsOpen'
    BY <1>1, <2>1, <1>c DEF EarlyIsOpen, Current, Asking
  <2>5. GenerationsPassed'
    BY <1>1, <2>1, <1>c DEF GenerationsPassed
  <2>6. QED
    BY <1>4, <2>3, <2>4, <2>5 DEF Control
<1>7. QED
  BY <1>5, <1>6

LEMMA RestartKeepsControl ==
  ASSUME Inv, Restart
  PROVE  Control'
<1>t. /\ gesture \in [Gestures -> GestureStates]
      /\ capture \in [Gestures -> CaptureStates]
  BY DEF Inv, TypeOK
<1>1. /\ worker' = NewWorker /\ armed' = NoArm /\ UNCHANGED <<ends, closed>>
  BY DEF Restart
<1>2. \A g \in Gestures :
        /\ gesture'[g].generation = 0
        /\ gesture'[g].pc = IF gesture[g].pc \in Starting THEN "failed"
                            ELSE gesture[g].pc
  BY <1>t DEF Restart, GestureStates
<1>3. \A g \in Gestures : capture[g].pc = "idle" => capture'[g].pc = "idle"
  <2>1. \A g \in Gestures :
          [capture[g] EXCEPT !.pc = "idle"].pc = "idle"
    BY <1>t, CaptureMoves
  <2>2. QED
    BY <1>t, <2>1 DEF Restart, CaptureStates
<1>4. ArmedIsStarting'
  BY <1>1 DEF ArmedIsStarting, ArmedFull, NoArm
<1>5. EarlyIsOpen'
  BY <1>1, <1>2
     DEF Inv, Control, EarlyIsOpen, NewWorker, Starting, Asking
<1>6. CapturesStarted'
  BY <1>1, <1>2, <1>3
     DEF Inv, Control, CapturesStarted, Starting, Early, Asking
<1>7. GenerationsPassed'
  BY <1>1, <1>2 DEF GenerationsPassed, NewWorker
<1>8. QED
  BY <1>4, <1>5, <1>6, <1>7 DEF Control

LEMMA ControlKept ==
  ASSUME Inv, [Next]_vars
  PROVE  Control'
<1>1. CASE Ordinary
  BY <1>1, OrdinaryKeepsControl DEF Inv
<1>2. ASSUME NEW g \in Gestures, WorkerStep(g)
      PROVE  Control'
  BY <1>1, <1>2, StatusKnownKeepsControl, ArmedKeepsControl,
     StartedKeepsControl, EndKeepsControl, HandlerOrdinary, WorldOrdinary
     DEF WorkerStep
<1>3. ASSUME NEW g \in Gestures, PageStep(g)
      PROVE  Control'
  BY <1>1, <1>3, PageOrdinary
<1>4. ASSUME NEW g \in Gestures, UserStep(g)
      PROVE  Control'
  BY <1>1, <1>4, StartKeepsControl, WorldOrdinary DEF UserStep
<1>5. CASE World
  BY <1>1, <1>5, ReloadKeepsControl, RestartKeepsControl, WorldOrdinary
     DEF World
<1>6. CASE UNCHANGED vars
  BY <1>1, <1>6, WorldOrdinary
<1>7. QED
  BY <1>2, <1>3, <1>4, <1>5, <1>6 DEF Next

---------------------------------------------------------------------------
(* The invariant, and what follows from it.                                *)

LEMMA InvInit ==
  ASSUME Init
  PROVE  Inv
<1>1. /\ worker \in WorkerStates /\ armed \in ArmStates
      /\ gesture \in [Gestures -> GestureStates]
  BY DEF Init, NewWorker, WorkerStates, NoArm, ArmStates, Modes, IdleGesture,
         GestureStates
<1>2. capture \in [Gestures -> CaptureStates]
  BY IdleTyped DEF Init
<1>3. request \in [Gestures -> RequestStates]
  BY PictureTyped DEF Init, NoRequest, RequestStates
<1>4. tab \in TabStates /\ met \in [Hazards -> Nat]
  BY DEF Init, TabStates
<1>5. TypeOK
  BY <1>1, <1>2, <1>3, <1>4 DEF Init, TypeOK
<1>6. Control
  BY DEF Init, Control, ArmedIsStarting, EarlyIsOpen, CapturesStarted,
         GenerationsPassed, ArmedFull, NoArm, IdleGesture, IdleCapture,
         NewWorker, Asking, Early
<1>7. QED
  BY <1>5, <1>6 DEF Inv

\* The overlay that is shown has been mounted.
OverlayMounted == overlay # NoGesture => capture[overlay].pc \notin Unmounted

LEMMA OverlayKept ==
  ASSUME Inv, Next
  PROVE  OverlayMounted'
<1>t. /\ capture \in [Gestures -> CaptureStates]
      /\ overlay \in Gestures \cup {NoGesture} /\ OverlayMounted
  BY DEF Inv, TypeOK, OverlayMounted
<1>o. ASSUME NEW g \in Gestures, UNCHANGED overlay, OthersStay(g),
             capture[g].pc \in Unmounted \/ capture'[g].pc \notin Unmounted,
             overlay # g \/ capture'[g].pc \notin Unmounted
      PROVE  OverlayMounted'
  BY <1>o, <1>t DEF OverlayMounted, OthersStay
<1>m. ASSUME NEW g \in Gestures, UNCHANGED overlay, OthersStay(g),
             capture[g].pc \in Unmounted \/ capture'[g].pc \notin Unmounted
      PROVE  OverlayMounted'
  BY <1>m, <1>t DEF OverlayMounted, OthersStay
<1>k. ASSUME UNCHANGED <<overlay, capture>>
      PROVE  OverlayMounted'
  BY <1>k, <1>t DEF OverlayMounted
<1>n. ASSUME overlay' = NoGesture
      PROVE  OverlayMounted'
  BY <1>n DEF OverlayMounted
<1>1. ASSUME NEW g \in Gestures,
             \/ StatusKnown(g) \/ Started(g) \/ CheckSlice(g) \/ TakeSlice(g)
             \/ CheckVisible(g) \/ TakeVisible(g)
             \/ \E mode \in Modes : Start(g, mode)
      PROVE  OverlayMounted'
  BY <1>1, <1>k
     DEF StatusKnown, Started, CheckSlice, TakeSlice, CheckVisible,
         TakeVisible, Start
<1>2. ASSUME NEW g \in Gestures, Armed(g)
      PROVE  OverlayMounted'
  <2>1. capture[g].pc = "idle"
    BY <1>2 DEF Armed, Inv, Control, CapturesStarted, Early, Asking
  <2>2. /\ UNCHANGED overlay
        /\ capture' = capture
             \/ capture' = [capture EXCEPT ![g].pc = "called"]
    BY <1>2 DEF Armed
  <2>3. QED
    BY <2>1, <2>2, <1>t, <1>k, <1>m, CapturePcMoves DEF Unmounted
<1>3. ASSUME NEW g \in Gestures, End(g)
      PROVE  OverlayMounted'
  <2>1. \/ capture' = [capture EXCEPT ![g].pc = capture[g].pc]
        \/ capture' = [capture EXCEPT ![g].pc = "failed"]
        \/ capture' = [capture EXCEPT ![g].pc = "preview"]
    BY <1>3 DEF End
  <2>2. UNCHANGED overlay
    BY <1>3 DEF End
  <2>3. QED
    BY <2>1, <2>2, <1>t, <1>m, CapturePcMoves DEF Unmounted
<1>4. ASSUME NEW g \in Gestures, AskBinding(g) \/ NoBinding(g)
      PROVE  OverlayMounted'
  <2>1. UNCHANGED overlay /\ capture[g].pc \in Unmounted
        /\ \E pc : capture' = [capture EXCEPT ![g].pc = pc]
    BY <1>4 DEF AskBinding, NoBinding, Unmounted
  <2>2. QED
    BY <2>1, <1>t, <1>m, CapturePcMoves
<1>5. ASSUME NEW g \in Gestures, Mount(g)
      PROVE  OverlayMounted'
  <2> DEFINE mounted == [IdleCapture EXCEPT !.pc = "frame", !.page = tab.page]
  <2>1. overlay' = g /\ mounted.pc = "frame"
    BY <1>5 DEF Mount, IdleCapture
  <2>2. \/ capture' = [capture EXCEPT ![g] = mounted]
        \/ capture' = [capture EXCEPT ![overlay] = Gone, ![g] = mounted]
    BY <1>5, Zenon DEF Mount
  <2> HIDE DEF mounted
  <2>3. capture'[g] = mounted
    BY <2>2, <1>t
  <2>4. QED
    BY <2>1, <2>3 DEF OverlayMounted, Unmounted
<1>6. ASSUME NEW g \in Gestures, Frame(g)
      PROVE  OverlayMounted'
  <2>1. UNCHANGED overlay /\ OthersStay(g)
        /\ capture'[g].pc \in {"threw", "slicing"}
    BY <1>6, <1>t DEF Frame, OthersStay, CaptureStates
  <2>2. QED
    BY <2>1, <1>m DEF Unmounted
<1>7. ASSUME NEW g \in Gestures, Receive(g) \/ NextSlice(g) \/ GiveUp(g)
      PROVE  OverlayMounted'
  <2>1. UNCHANGED overlay
    BY <1>7 DEF Receive, NextSlice, GiveUp
  <2>2. \/ \E shots, complete : Return(g, shots, complete)
        \/ \E shots, bottom : GoOn(g, shots, bottom)
        \/ capture' = [capture EXCEPT ![g].pc = "slicing"]
    BY <1>7, Zenon DEF Receive, NextSlice, GiveUp
  <2>3. QED
    <3>1. OthersStay(g)
            /\ capture'[g].pc \in {"ending", "waiting", "slicing"}
      BY <2>2, <1>t, ReturnMoves, GoOnMoves, CapturePcMoves
    <3>2. QED
      BY <2>1, <3>1, <1>m DEF Unmounted
<1>8. ASSUME NEW g \in Gestures, ReceiveVisible(g)
      PROVE  OverlayMounted'
  <2>1. UNCHANGED overlay /\ OthersStay(g)
        /\ capture'[g].pc \in {"preview", "threw"}
    BY <1>8, <1>t DEF ReceiveVisible, OthersStay, CaptureStates
  <2>2. QED
    BY <2>1, <1>m DEF Unmounted
<1>9. ASSUME NEW g \in Gestures,
             Upload(g) \/ UploadEnds(g) \/ ConfirmUpload(g)
      PROVE  OverlayMounted'
  <2>1. UNCHANGED overlay
        /\ \E pc \in {"redacting", "uploading", "completed", "failed"} :
             capture' = [capture EXCEPT ![g].pc = pc]
    BY <1>9 DEF Upload, UploadEnds, ConfirmUpload
  <2>2. QED
    BY <2>1, <1>t, <1>m, CapturePcMoves DEF Unmounted
<1>10. ASSUME NEW g \in Gestures, RunLate(g)
       PROVE  OverlayMounted'
  <2>1. UNCHANGED overlay /\ OthersStay(g)
        /\ capture'[g].pc = capture[g].pc
    BY <1>10, <1>t DEF RunLate, OthersStay, CaptureStates
  <2>2. QED
    BY <2>1, <1>m
<1>11. CASE Blur \/ Reload \/ \E g \in Gestures : Escape(g)
  BY <1>11, <1>n, <1>k DEF Blur, BlurCancels, Reload, Escape, Cancel
<1>12. CASE Restart
  <2>1. UNCHANGED overlay /\ capture' = [g \in Gestures |->
          [capture[g] EXCEPT !.pc = CASE @ = "binding" -> "threw"
                                      [] @ = "uploading" -> "failed"
                                      [] OTHER -> @]]
    BY <1>12 DEF Restart
  <2>2. ASSUME NEW g \in Gestures, capture[g].pc \notin Unmounted
        PROVE  capture'[g].pc \notin Unmounted
    <3> DEFINE pc == CASE capture[g].pc = "binding" -> "threw"
                       [] capture[g].pc = "uploading" -> "failed"
                       [] OTHER -> capture[g].pc
    <3>1. capture'[g] = [capture[g] EXCEPT !.pc = pc]
      BY <2>1
    <3>2. pc \in {"threw", "failed", capture[g].pc}
      OBVIOUS
    <3> HIDE DEF pc
    <3>3. capture'[g].pc = pc
      BY <3>1, <1>t, CaptureMoves
    <3>4. QED
      BY <2>2, <3>2, <3>3 DEF Unmounted
  <2>3. QED
    BY <2>1, <2>2, <1>t DEF OverlayMounted
<1>13. CASE \/ LeaveTab \/ ReturnToTab \/ Navigate \/ Relayout
            \/ UserScrolls \/ Expire
  BY <1>13, <1>k
     DEF LeaveTab, ReturnToTab, Navigate, Relayout, UserScrolls, Expire
<1>14. QED
  BY <1>1, <1>2, <1>3, <1>4, <1>5, <1>6, <1>7, <1>8, <1>9, <1>10, <1>11,
     <1>12, <1>13
     DEF Next, WorkerStep, PageStep, UserStep, World

LEMMA TypesKept ==
  ASSUME Inv, [Next]_vars
  PROVE  TypeOK'
<1>1. CASE Next
  BY <1>1, MetTyped, TabTyped, WorkerTyped, ArmTyped, GestureTyped,
     RequestTyped, CaptureTyped, SetsTyped, PostedTyped, OverlayKept
     DEF Inv, TypeOK, OverlayMounted
<1>2. CASE UNCHANGED vars
  BY <1>2 DEF vars, Inv, TypeOK
<1>3. QED
  BY <1>1, <1>2

LEMMA Invariance == Spec => []Inv
<1>1. Inv /\ [Next]_vars => Inv'
  BY TypesKept, ControlKept DEF Inv
<1>2. QED
  BY InvInit, <1>1, PTL DEF Spec

\* Type correctness: every variable of PageCapture stays in its type, and
\* the overlay that is shown is that of a capture that has been mounted.
THEOREM CaptureTypeCorrect == Spec => []TypeOK
<1>1. Inv => TypeOK
  BY DEF Inv
<1>2. QED
  BY <1>1, Invariance, PTL

\* When no start is under way and no capture is at work, nobody may take
\* full-page pictures of the tab any more, whatever failed, was cancelled,
\* overtaken or restarted before.
THEOREM PermissionEnds == Spec => []NoArmLeft
<1>1. Inv => NoArmLeft
  BY DEF Inv, Control, ArmedIsStarting, NoArmLeft, Quiet, Starting
<1>2. QED
  BY <1>1, Invariance, PTL

\* Who gets an answer where there was none: only whose picture was taken.
LEMMA OnlyTakenAnswered ==
  ASSUME Inv, [Next]_vars, NEW g \in Gestures,
         gesture[g].mode = "full",
         request[g].pc = "taking", request'[g].pc = "answered"
  PROVE  TakeSlice(g)
<1>t. request \in [Gestures -> RequestStates]
  BY DEF Inv, TypeOK
<1>n. NoRequest.pc = "none" /\ Refused.pc = "refused"
        /\ \A h, sequence, y : Asked(h, sequence, y).pc = "asked"
  BY DEF NoRequest, Refused, Asked
<1>e. ASSUME NEW h \in Gestures, NEW r, r.pc # "answered",
             request' = [request EXCEPT ![h] = r]
      PROVE  FALSE
  BY <1>e, <1>t
<1>o. ASSUME NEW h \in Gestures, NEW r, h # g,
             request' = [request EXCEPT ![h] = r]
      PROVE  FALSE
  BY <1>o, <1>t
<1>r. ASSUME NEW h \in Gestures, Replies(h, Refused)
      PROVE  FALSE
  <2>1. \/ request' = [request EXCEPT ![h] = Refused]
        \/ request' = [request EXCEPT ![h] = NoRequest]
    BY <1>r DEF Replies
  <2>2. QED
    BY <2>1, <1>e, <1>n
<1>1. ASSUME NEW h \in Gestures, CheckSlice(h) \/ CheckVisible(h)
      PROVE  FALSE
  <2>1. \/ Replies(h, Refused)
        \/ request' = [request EXCEPT ![h].pc = "taking"]
    BY <1>1 DEF CheckSlice, CheckVisible
  <2>2. [request[h] EXCEPT !.pc = "taking"].pc # "answered"
    BY <1>t DEF RequestStates
  <2>3. QED
    BY <2>1, <2>2, <1>e, <1>r
<1>2. ASSUME NEW h \in Gestures, h # g, TakeSlice(h) \/ TakeVisible(h)
      PROVE  FALSE
  <2>1. \E r : request' = [request EXCEPT ![h] = r]
    BY <1>2, Zenon DEF TakeSlice, TakeVisible, Replies
  <2>2. QED
    BY <1>2, <2>1, <1>o
<1>3. ASSUME TakeVisible(g)
      PROVE  FALSE
  BY <1>3 DEF TakeVisible
<1>4. ASSUME NEW h \in Gestures, Frame(h) \/ NextSlice(h)
      PROVE  FALSE
  <2>1. \/ request' = request
        \/ \E sequence, y :
             request' = [request EXCEPT ![h] = Asked(h, sequence, y)]
    BY <1>4, Zenon DEF Frame, NextSlice
  <2>2. QED
    BY <2>1, <1>e, <1>n
<1>5. ASSUME NEW h \in Gestures, Receive(h) \/ ReceiveVisible(h)
      PROVE  FALSE
  <2>1. request' = [request EXCEPT ![h] = NoRequest]
    BY <1>5 DEF Receive, ReceiveVisible
  <2>2. QED
    BY <2>1, <1>e, <1>n
<1>6. ASSUME Reload \/ Restart
      PROVE  FALSE
  <2>1. request'[g] \in {request[g], Refused, NoRequest}
    BY <1>6 DEF Reload, Restart
  <2>2. QED
    BY <2>1, <1>n
<1>7. ASSUME UNCHANGED request
      PROVE  FALSE
  BY <1>7
<1>8. ASSUME NEW h \in Gestures,
             \/ StatusKnown(h) \/ Armed(h) \/ Started(h) \/ End(h)
             \/ AskBinding(h) \/ Mount(h) \/ NoBinding(h) \/ GiveUp(h)
             \/ Upload(h) \/ UploadEnds(h) \/ UserStep(h) \/ RunLate(h)
      PROVE  FALSE
  BY <1>8, <1>7
     DEF StatusKnown, Armed, Started, End, AskBinding, Mount, NoBinding,
         GiveUp, Upload, UploadEnds, UserStep, Start, Escape, ConfirmUpload,
         RunLate
<1>9. ASSUME \/ LeaveTab \/ ReturnToTab \/ Blur \/ Navigate \/ Relayout
             \/ UserScrolls \/ Expire \/ UNCHANGED vars
      PROVE  FALSE
  BY <1>9, <1>7
     DEF LeaveTab, ReturnToTab, Blur, Navigate, Relayout, UserScrolls,
         Expire, vars
<1>10. QED
  BY <1>1, <1>2, <1>3, <1>4, <1>5, <1>6, <1>8, <1>9
     DEF Next, WorkerStep, PageStep, World

\* A full-page picture that was being taken when its session was ended or
\* replaced is not handed out.
THEOREM NoPictureAfterEnd == Spec => PicturesOnlyWhileOpen
<1>1. ASSUME Inv, [Next]_vars, NEW g \in Gestures,
             gesture[g].mode = "full",
             request[g].pc = "taking", request'[g].pc = "answered"
      PROVE  g \notin closed
  <2>1. TakeSlice(g)
    BY <1>1, OnlyTakenAnswered
  <2>2. Replies(g, Refused) => request'[g].pc # "answered"
    BY <1>1 DEF Replies, Refused, NoRequest, Inv, TypeOK
  <2>3. StillArmed(g)
    BY <1>1, <2>1, <2>2, Zenon DEF TakeSlice
  <2>4. QED
    BY <2>3, <1>1 DEF StillArmed, Inv, Control, ArmedIsStarting
<1>2. Inv /\ [Next]_vars
        => [\A g \in Gestures :
                /\ gesture[g].mode = "full"
                /\ request[g].pc = "taking" /\ request'[g].pc = "answered"
              => g \notin closed]_vars
  BY <1>1
<1>3. QED
  BY <1>2, Invariance, PTL DEF Spec, PicturesOnlyWhileOpen

---------------------------------------------------------------------------
(* What is uploaded shows this page only.                                  *)

OnScreen == {"frame", "ending", "preview", "redacting"} \cup Driving

OwnShots(g) == \A i \in DOMAIN capture[g].shots : capture[g].shots[i].own

\* A capture that may still be uploaded is the overlay, which the window's
\* blur event cancels; as long as that event is not pending, its pictures,
\* those under way included, are pictures of this tab. Once the user has
\* confirmed them they are, whatever comes.
OwnSight(g) ==
  /\ capture[g].pc \in OnScreen => overlay = g
  /\ capture[g].pc = "slicing" /\ ~tab.blurred =>
       /\ request[g].pc = "taking" => tab.active
       /\ request[g].pc = "answered" => request[g].picture.own
  /\ \/ capture[g].pc \in OnScreen /\ ~tab.blurred
     \/ capture[g].pc = "redacting"
     => OwnShots(g)
  /\ \A p \in posted[g] : p.own

OwnInv == \A g \in Gestures : OwnSight(g)

\* A step of gesture g, seen from the others: neither their captures nor
\* what the user looks at changes.
Aside(g) ==
  /\ \A h \in Gestures \ {g} : /\ capture'[h] = capture[h]
                               /\ request'[h] = request[h]
                               /\ posted'[h] = posted[h]
  /\ UNCHANGED overlay
  /\ tab'.active = tab.active /\ tab'.blurred = tab.blurred

LEMMA AsideKeeps ==
  ASSUME OwnInv, NEW g \in Gestures, Aside(g), OwnSight(g)'
  PROVE  OwnInv'
BY DEF OwnInv, OwnSight, OwnShots, Aside

\* A capture that is not on the screen any more has only its past to answer
\* for.
LEMMA OffScreen ==
  ASSUME NEW g \in Gestures, OwnSight(g), posted'[g] = posted[g],
         capture'[g].pc \notin OnScreen
  PROVE  OwnSight(g)'
BY DEF OwnSight, OnScreen, Driving

\* A step after which the user looks at the tab as before, or the window's
\* blur event is pending.
LEMMA SightKept ==
  ASSUME NEW g \in Gestures, OwnSight(g), posted'[g] = posted[g],
         UNCHANGED overlay,
         capture'[g].pc = capture[g].pc, capture'[g].shots = capture[g].shots,
         \/ tab'.blurred
         \/ /\ ~tab.blurred /\ (tab.active => tab'.active)
            /\ request'[g] = request[g]
  PROVE  OwnSight(g)'
BY DEF OwnSight, OwnShots

\* The forms in which a step changes one capture, and what it leaves.
LEMMA OnePc ==
  ASSUME capture \in [Gestures -> CaptureStates], NEW g \in Gestures,
         NEW pc, capture' = [capture EXCEPT ![g].pc = pc]
  PROVE  /\ capture'[g].pc = pc /\ capture'[g].shots = capture[g].shots
         /\ \A h \in Gestures \ {g} : capture'[h] = capture[h]
<1>1. capture'[g] = [capture[g] EXCEPT !.pc = pc]
        /\ \A h \in Gestures \ {g} : capture'[h] = capture[h]
  OBVIOUS
<1>2. capture[g] \in CaptureStates
  OBVIOUS
<1>3. QED
  BY <1>1, <1>2 DEF CaptureStates

LEMMA OneReturn ==
  ASSUME capture \in [Gestures -> CaptureStates], NEW g \in Gestures,
         NEW shots, NEW complete, Return(g, shots, complete)
  PROVE  /\ capture'[g].pc = "ending" /\ capture'[g].shots \in {shots, <<>>}
         /\ \A h \in Gestures \ {g} : capture'[h] = capture[h]
<1>1. PICK whole \in BOOLEAN, kept \in {shots, <<>>} :
        capture' = [capture EXCEPT ![g].pc = "ending", ![g].shots = kept,
                                   ![g].complete = whole]
  BY DEF Return
<1>2. capture[g] \in CaptureStates
  OBVIOUS
<1>3. capture'[g] = [capture[g] EXCEPT !.pc = "ending", !.shots = kept,
                                       !.complete = whole]
        /\ \A h \in Gestures \ {g} : capture'[h] = capture[h]
  BY <1>1
<1>4. QED
  BY <1>2, <1>3 DEF CaptureStates

LEMMA OneGoOn ==
  ASSUME capture \in [Gestures -> CaptureStates], NEW g \in Gestures,
         NEW shots, NEW bottom, GoOn(g, shots, bottom)
  PROVE  /\ capture'[g].pc = "waiting" /\ capture'[g].shots = shots
         /\ \A h \in Gestures \ {g} : capture'[h] = capture[h]
<1>1. capture[g] \in CaptureStates
  OBVIOUS
<1>2. capture'[g] = [capture[g] EXCEPT !.pc = "waiting", !.shots = shots,
                                       !.bottom = bottom]
        /\ \A h \in Gestures \ {g} : capture'[h] = capture[h]
  BY DEF GoOn
<1>3. QED
  BY <1>1, <1>2 DEF CaptureStates

\* The driver moves the page, never what the user looks at.
LEMMA ScrollKeepsSight ==
  ASSUME tab \in TabStates, NEW g \in Gestures
  PROVE  /\ \A y : /\ ScrollTo(y).active = tab.active
                   /\ ScrollTo(y).blurred = tab.blurred
                   /\ ScrollTo(y).page = tab.page
         /\ Restored(g).active = tab.active
         /\ Restored(g).blurred = tab.blurred
         /\ Restored(g).page = tab.page
         /\ Top(g).active = tab.active /\ Top(g).blurred = tab.blurred
BY DEF ScrollTo, Restored, Top, TabStates

LEMMA OwnInit == Init => OwnInv
BY DEF Init, OwnInv, OwnSight, OwnShots, IdleCapture, OnScreen, Driving

\* An answer, or none, to who waits for it or does not.
LEMMA OwnReplies ==
  ASSUME TypeOK, OwnInv, NEW g \in Gestures, NEW reply, Replies(g, reply),
         capture[g].pc = "slicing" /\ ~tab.blurred =>
           /\ reply.pc # "taking"
           /\ reply.pc = "answered" => reply.picture.own,
         UNCHANGED <<capture, overlay, tab, posted>>
  PROVE  OwnInv'
<1>1. request' = [request EXCEPT ![g] =
                    IF capture[g].pc = "slicing" THEN reply ELSE NoRequest]
  BY DEF Replies
<1>2. Aside(g) /\ (capture[g].pc = "slicing" => request'[g] = reply)
  BY <1>1 DEF Aside, TypeOK
<1>3. OwnSight(g)'
  BY <1>2 DEF OwnInv, OwnSight, OwnShots
<1>4. QED
  BY <1>2, <1>3, AsideKeeps

LEMMA HandlerKeepsOwn ==
  ASSUME TypeOK, OwnInv, NEW g \in Gestures,
         \/ CheckSlice(g) \/ TakeSlice(g) \/ CheckVisible(g)
         \/ TakeVisible(g)
  PROVE  OwnInv'
<1>1. UNCHANGED <<capture, overlay, tab, posted>>
  BY DEF CheckSlice, TakeSlice, CheckVisible, TakeVisible
<1>2. Refused.pc = "refused"
  BY DEF Refused, NoRequest
<1>3. CASE Replies(g, Refused)
  BY <1>1, <1>2, <1>3, OwnReplies
<1>4. CASE tab.active /\ request' = [request EXCEPT ![g].pc = "taking"]
  <2>1. request'[g].pc = "taking"
        /\ \A h \in Gestures \ {g} : request'[h] = request[h]
    BY <1>4 DEF TypeOK, RequestStates
  <2>2. OwnSight(g)'
    BY <1>1, <1>4, <2>1 DEF OwnInv, OwnSight, OwnShots
  <2>3. QED
    BY <1>1, <2>1, <2>2, AsideKeeps DEF Aside
<1>5. CASE request[g].pc = "taking" /\ Replies(g, Answered(g))
  <2>1. Answered(g).pc = "answered"
        /\ Answered(g).picture.own = tab.active
    BY DEF Answered, NoRequest
  <2>2. capture[g].pc = "slicing" /\ ~tab.blurred => tab.active
    BY <1>5 DEF OwnInv, OwnSight
  <2>3. QED
    BY <1>1, <1>5, <2>1, <2>2, OwnReplies
<1>6. QED
  BY <1>3, <1>4, <1>5, Zenon
     DEF CheckSlice, TakeSlice, CheckVisible, TakeVisible

\* The other steps of the service worker.
LEMMA WorkerKeepsOwn ==
  ASSUME TypeOK, OwnInv, NEW g \in Gestures,
         \/ StatusKnown(g) \/ Armed(g) \/ Started(g) \/ End(g)
         \/ AskBinding(g) \/ \E mode \in Modes : Start(g, mode)
  PROVE  OwnInv'
<1>t. capture \in [Gestures -> CaptureStates]
  BY DEF TypeOK
<1>1. UNCHANGED <<request, overlay, tab, posted>>
  BY DEF StatusKnown, Armed, Started, End, AskBinding, Start
<1>2. CASE UNCHANGED capture
  BY <1>1, <1>2 DEF OwnInv, OwnSight, OwnShots
<1>3. ASSUME NEW pc, capture' = [capture EXCEPT ![g].pc = pc],
             pc \notin OnScreen \/ (capture[g].pc = "ending"
                                    /\ pc = "preview")
      PROVE  OwnInv'
  <2>1. /\ capture'[g].pc = pc /\ capture'[g].shots = capture[g].shots
        /\ \A h \in Gestures \ {g} : capture'[h] = capture[h]
    BY <1>t, <1>3, OnePc
  <2>2. Aside(g)
    BY <1>1, <2>1 DEF Aside
  <2>3. OwnSight(g)'
    BY <1>1, <1>3, <2>1 DEF OwnInv, OwnSight, OwnShots, OnScreen, Driving
  <2>4. QED
    BY <2>2, <2>3, AsideKeeps
<1>4. CASE Armed(g) \/ AskBinding(g)
  BY <1>4, <1>2, <1>3 DEF Armed, AskBinding, OnScreen, Driving
<1>5. CASE End(g)
  <2>1. CASE capture[g].pc # "ending"
    BY <1>5, <2>1, <1>2, <1>t DEF End, CaptureStates
  <2>2. CASE capture[g].pc = "ending"
    <3>1. \E pc \in {"failed", "preview"} :
            capture' = [capture EXCEPT ![g].pc = pc]
      BY <1>5, <2>2 DEF End
    <3>2. QED
      BY <3>1, <2>2, <1>3 DEF OnScreen, Driving
  <2>3. QED
    BY <2>1, <2>2
<1>6. CASE \/ StatusKnown(g) \/ Started(g)
           \/ \E mode \in Modes : Start(g, mode)
  BY <1>6, <1>2 DEF StatusKnown, Started, Start
<1>7. QED
  BY <1>4, <1>5, <1>6

\* The overlay there was is cancelled, and nothing of the new one is taken.
LEMMA MountKeepsOwn ==
  ASSUME TypeOK, OwnInv, NEW g \in Gestures, Mount(g)
  PROVE  OwnInv'
<1>t. capture \in [Gestures -> CaptureStates] /\ tab \in TabStates
        /\ overlay \in Gestures \cup {NoGesture}
  BY DEF TypeOK
<1> DEFINE mounted == [IdleCapture EXCEPT !.pc = "frame", !.page = tab.page]
<1>m. mounted.pc = "frame" /\ mounted.shots = <<>> /\ Gone.pc = "gone"
  BY DEF IdleCapture, Gone
<1>1. /\ overlay' = g /\ UNCHANGED <<request, posted>>
      /\ capture'[g] = mounted
      /\ \A h \in Gestures \ {g} :
           capture'[h] = IF h = overlay THEN Gone ELSE capture[h]
  BY <1>t DEF Mount
<1> HIDE DEF mounted
<1>2. OwnSight(g)'
  BY <1>1, <1>m DEF OwnInv, OwnSight, OwnShots
<1>3. ASSUME NEW h \in Gestures \ {g}
      PROVE  OwnSight(h)'
  <2>1. capture'[h].pc \notin OnScreen
    BY <1>1, <1>m DEF OwnInv, OwnSight, OnScreen, Driving
  <2>2. QED
    BY <1>1, <2>1, OffScreen DEF OwnInv
<1>4. QED
  BY <1>2, <1>3 DEF OwnInv

\* The driver's steps: a picture that is kept was answered before.
LEMMA DriverKeepsOwn ==
  ASSUME TypeOK, OwnInv, NEW g \in Gestures,
         Receive(g) \/ NextSlice(g) \/ GiveUp(g)
  PROVE  OwnInv'
<1>t. /\ capture \in [Gestures -> CaptureStates] /\ tab \in TabStates
      /\ request \in [Gestures -> RequestStates]
  BY DEF TypeOK
<1>1. /\ UNCHANGED <<overlay, posted>> /\ capture[g].pc \in Driving
      /\ \A h \in Gestures \ {g} : request'[h] = request[h]
  BY <1>t DEF Receive, NextSlice, GiveUp, Driving
<1>s. capture[g].shots \in Seq(Pictures) /\ request[g].picture \in Pictures
  BY <1>t, CaptureParts DEF RequestStates
<1> DEFINE more == Append(capture[g].shots, request[g].picture)
           MayKeep(shots) ==
             \/ shots = capture[g].shots
             \/ shots = more /\ request[g].pc = "answered"
                /\ capture[g].pc = "slicing"
           OwnSeq(shots) == \A i \in DOMAIN shots : shots[i].own
<1>2. ASSUME NEW shots, MayKeep(shots), ~tab.blurred
      PROVE  OwnSeq(shots)
  <2>1. OwnSeq(capture[g].shots)
    BY <1>1, <1>2 DEF OwnInv, OwnSight, OwnShots, OnScreen
  <2>2. CASE shots = more /\ request[g].pc = "answered"
             /\ capture[g].pc = "slicing"
    <3>1. request[g].picture.own
      BY <1>2, <2>2 DEF OwnInv, OwnSight
    <3>2. \A i \in DOMAIN more :
            \/ more[i] = request[g].picture
            \/ /\ i \in DOMAIN capture[g].shots
               /\ more[i] = capture[g].shots[i]
      BY <1>s
    <3>3. QED
      BY <2>1, <2>2, <3>1, <3>2
  <2>3. QED
    BY <1>2, <2>1, <2>2
<1>3. ASSUME NEW shots, NEW complete, Return(g, shots, complete),
             MayKeep(shots)
      PROVE  OwnInv'
  <2>1. /\ capture'[g].pc = "ending" /\ capture'[g].shots \in {shots, <<>>}
        /\ \A h \in Gestures \ {g} : capture'[h] = capture[h]
    BY <1>t, <1>3, OneReturn
  <2>2. tab'.active = tab.active /\ tab'.blurred = tab.blurred
    BY <1>t, <1>3, ScrollKeepsSight DEF Return
  <2>3. Aside(g)
    BY <1>1, <2>1, <2>2 DEF Aside
  <2>4. ~tab.blurred => OwnSeq(capture'[g].shots)
    BY <1>2, <1>3, <2>1
  <2>5. OwnSight(g)'
    BY <1>1, <2>1, <2>2, <2>4
       DEF OwnInv, OwnSight, OwnShots, OnScreen, Driving
  <2>6. QED
    BY <2>3, <2>5, AsideKeeps
<1>4. ASSUME NEW shots, NEW bottom, GoOn(g, shots, bottom), MayKeep(shots)
      PROVE  OwnInv'
  <2>1. /\ capture'[g].pc = "waiting" /\ capture'[g].shots = shots
        /\ \A h \in Gestures \ {g} : capture'[h] = capture[h]
    BY <1>t, <1>4, OneGoOn
  <2>2. tab'.active = tab.active /\ tab'.blurred = tab.blurred
    BY <1>t, <1>4, ScrollKeepsSight DEF GoOn
  <2>3. Aside(g)
    BY <1>1, <2>1, <2>2 DEF Aside
  <2>4. ~tab.blurred => OwnSeq(capture'[g].shots)
    BY <1>2, <1>4, <2>1
  <2>5. OwnSight(g)'
    BY <1>1, <2>1, <2>2, <2>4
       DEF OwnInv, OwnSight, OwnShots, OnScreen, Driving
  <2>6. QED
    BY <2>3, <2>5, AsideKeeps
<1>5. ASSUME UNCHANGED tab, capture' = [capture EXCEPT ![g].pc = "slicing"],
             \E n, y : request' = [request EXCEPT ![g] = Asked(g, n, y)]
      PROVE  OwnInv'
  <2>1. /\ capture'[g].pc = "slicing"
        /\ capture'[g].shots = capture[g].shots
        /\ \A h \in Gestures \ {g} : capture'[h] = capture[h]
    BY <1>t, <1>5, OnePc
  <2>2. request'[g].pc = "asked"
    BY <1>t, <1>5 DEF Asked
  <2>3. OwnSight(g)'
    BY <1>1, <1>5, <2>1, <2>2
       DEF OwnInv, OwnSight, OwnShots, OnScreen, Driving
  <2>4. QED
    BY <1>1, <1>5, <2>1, <2>3, AsideKeeps DEF Aside
<1>6. CASE Receive(g)
  <2>1. \/ \E complete : Return(g, capture[g].shots, complete)
        \/ /\ request[g].pc = "answered" /\ capture[g].pc = "slicing"
           /\ \/ Return(g, more, FALSE)
              \/ \E bottom : GoOn(g, more, bottom)
    BY <1>6, Zenon DEF Receive
  <2>2. QED
    BY <2>1, <1>3, <1>4
<1>7. CASE NextSlice(g)
  <2>1. \/ Return(g, capture[g].shots, FALSE)
        \/ /\ UNCHANGED tab /\ capture' = [capture EXCEPT ![g].pc = "slicing"]
           /\ \E n, y : request' = [request EXCEPT ![g] = Asked(g, n, y)]
    BY <1>7, Zenon DEF NextSlice
  <2>2. QED
    BY <2>1, <1>3, <1>5
<1>8. CASE GiveUp(g)
  BY <1>8, <1>3 DEF GiveUp
<1>9. QED
  BY <1>6, <1>7, <1>8

\* The other steps of the content script.
LEMMA PageKeepsOwn ==
  ASSUME TypeOK, OwnInv, NEW g \in Gestures,
         \/ NoBinding(g) \/ Frame(g) \/ ReceiveVisible(g) \/ Upload(g)
         \/ UploadEnds(g) \/ RunLate(g)
  PROVE  OwnInv'
<1>t. /\ capture \in [Gestures -> CaptureStates] /\ tab \in TabStates
      /\ request \in [Gestures -> RequestStates]
      /\ posted \in [Gestures -> SUBSET Pictures]
  BY DEF TypeOK
<1>1. /\ UNCHANGED overlay
      /\ \A h \in Gestures \ {g} : /\ request'[h] = request[h]
                                   /\ posted'[h] = posted[h]
      /\ tab'.active = tab.active /\ tab'.blurred = tab.blurred
  BY <1>t, ScrollKeepsSight
     DEF NoBinding, Frame, ReceiveVisible, Upload, UploadEnds, RunLate
<1>a. ASSUME OwnSight(g)',
             \A h \in Gestures \ {g} : capture'[h] = capture[h]
      PROVE  OwnInv'
  BY <1>1, <1>a, AsideKeeps DEF Aside
<1>2. ASSUME NEW pc, capture' = [capture EXCEPT ![g].pc = pc],
             pc \notin OnScreen, UNCHANGED posted
      PROVE  OwnInv'
  BY <1>t, <1>2, <1>a, OnePc, OffScreen DEF OwnInv
<1>3. CASE \/ NoBinding(g) \/ UploadEnds(g)
           \/ Frame(g) /\ tab.page # capture[g].page
           \/ ReceiveVisible(g) /\ request[g].pc = "refused"
  BY <1>3, <1>2
     DEF NoBinding, UploadEnds, Frame, ReceiveVisible, OnScreen, Driving
<1>4. CASE Frame(g) /\ tab.page = capture[g].page
  <2>1. /\ capture[g].pc = "frame" /\ UNCHANGED posted
        /\ capture' = [capture EXCEPT ![g].pc = "slicing",
                                      ![g].from = tab.y]
        /\ request' = [request EXCEPT ![g] = Asked(g, 0, Top(g).y)]
    BY <1>4 DEF Frame
  <2>2. capture'[g] = [capture[g] EXCEPT !.pc = "slicing", !.from = tab.y]
        /\ \A h \in Gestures \ {g} : capture'[h] = capture[h]
    BY <1>t, <2>1
  <2>3. capture'[g].pc = "slicing" /\ capture'[g].shots = capture[g].shots
    BY <1>t, <2>2 DEF CaptureStates
  <2>4. request'[g].pc = "asked"
    BY <1>t, <2>1 DEF Asked
  <2>5. OwnSight(g)'
    BY <1>1, <2>1, <2>3, <2>4
       DEF OwnInv, OwnSight, OwnShots, OnScreen, Driving
  <2>6. QED
    BY <1>a, <2>2, <2>5
<1>5. CASE ReceiveVisible(g) /\ request[g].pc = "answered"
  <2>1. /\ capture[g].pc = "slicing" /\ UNCHANGED posted
        /\ capture' = [capture EXCEPT ![g].pc = "preview",
                                      ![g].complete = TRUE,
                                      ![g].shots = <<request[g].picture>>]
    BY <1>5 DEF ReceiveVisible
  <2>2. capture'[g] = [capture[g] EXCEPT !.pc = "preview", !.complete = TRUE,
                                         !.shots = <<request[g].picture>>]
        /\ \A h \in Gestures \ {g} : capture'[h] = capture[h]
    BY <1>t, <2>1
  <2>3. capture'[g].pc = "preview"
        /\ capture'[g].shots = <<request[g].picture>>
    BY <1>t, <2>2 DEF CaptureStates
  <2>4. ~tab.blurred => OwnShots(g)'
    <3>1. ~tab.blurred => request[g].picture.own
      BY <1>5, <2>1 DEF OwnInv, OwnSight
    <3>2. \A i \in DOMAIN capture'[g].shots :
            capture'[g].shots[i] = request[g].picture
      BY <2>3
    <3>3. QED
      BY <3>1, <3>2 DEF OwnShots
  <2>5. OwnSight(g)'
    BY <1>1, <2>1, <2>3, <2>4 DEF OwnInv, OwnSight, OnScreen, Driving
  <2>6. QED
    BY <1>a, <2>2, <2>5
<1>6. CASE Upload(g)
  <2>1. /\ capture'[g].pc = "uploading"
        /\ capture'[g].shots = capture[g].shots
        /\ \A h \in Gestures \ {g} : capture'[h] = capture[h]
    BY <1>t, <1>6, OnePc DEF Upload
  <2>2. OwnShots(g)
    BY <1>6 DEF Upload, OwnInv, OwnSight
  <2>3. posted'[g] = posted[g] \cup
          {capture[g].shots[i] : i \in DOMAIN capture[g].shots}
    BY <1>t, <1>6 DEF Upload
  <2>4. \A p \in posted'[g] : p.own
    BY <2>2, <2>3 DEF OwnInv, OwnSight, OwnShots
  <2>5. OwnSight(g)'
    BY <2>1, <2>4 DEF OwnSight, OnScreen, Driving
  <2>6. QED
    BY <1>a, <2>1, <2>5
<1>7. CASE RunLate(g)
  <2>1. /\ UNCHANGED <<posted, overlay, tab, request>>
        /\ capture' = [capture EXCEPT ![g].late = TRUE]
    BY <1>7 DEF RunLate
  <2>2. /\ capture'[g].pc = capture[g].pc
        /\ capture'[g].shots = capture[g].shots
        /\ \A h \in Gestures \ {g} : capture'[h] = capture[h]
    BY <1>t, <2>1 DEF CaptureStates
  <2>3. OwnSight(g)'
    BY <2>1, <2>2 DEF OwnInv, OwnSight, OwnShots
  <2>4. QED
    BY <1>a, <2>2, <2>3
<1>8. QED
  BY <1>3, <1>4, <1>5, <1>6, <1>7 DEF Frame, ReceiveVisible

\* Whatever cancels the overlay leaves nothing on the screen.
LEMMA CancelKeepsOwn ==
  ASSUME TypeOK, OwnInv, UNCHANGED posted,
         \A g \in Gestures : \/ capture'[g].pc \notin OnScreen
                             \/ capture'[g] = capture[g] /\ overlay # g
  PROVE  OwnInv'
<1>1. ASSUME NEW g \in Gestures
      PROVE  capture'[g].pc \notin OnScreen
  BY DEF OwnInv, OwnSight
<1>2. QED
  BY <1>1, OffScreen DEF OwnInv

\* The steps of the user, the page and the browser.
LEMMA WorldKeepsOwn ==
  ASSUME TypeOK, OwnInv,
         \/ World
         \/ \E g \in Gestures : Escape(g) \/ ConfirmUpload(g)
  PROVE  OwnInv'
<1>t. /\ capture \in [Gestures -> CaptureStates] /\ tab \in TabStates
      /\ overlay \in Gestures \cup {NoGesture}
  BY DEF TypeOK
<1>g. Gone.pc \notin OnScreen /\ IdleCapture.pc \notin OnScreen
  BY DEF Gone, IdleCapture, OnScreen, Driving
<1>1. CASE \/ LeaveTab \/ ReturnToTab \/ Navigate \/ Relayout
           \/ UserScrolls \/ Expire
  <2>1. /\ UNCHANGED <<capture, request, overlay, posted>>
        /\ tab'.blurred \/ (~tab.blurred /\ (tab.active => tab'.active))
    BY <1>1, <1>t
       DEF LeaveTab, ReturnToTab, Navigate, Relayout, UserScrolls, Expire,
           TabStates
  <2>2. ASSUME NEW g \in Gestures
        PROVE  OwnSight(g)'
    BY <2>1, SightKept DEF OwnInv
  <2>3. QED
    BY <2>2 DEF OwnInv
<1>2. CASE Reload
  BY <1>2, <1>g, CancelKeepsOwn DEF Reload
<1>3. CASE Blur \/ \E g \in Gestures : Escape(g)
  <2>1. UNCHANGED posted
        /\ capture' = [g \in Gestures |->
                         IF g = overlay THEN Gone ELSE capture[g]]
    BY <1>3, <1>t
       DEF Blur, BlurCancels, Escape, UserSees, Cancel
  <2>2. QED
    BY <2>1, <1>g, CancelKeepsOwn
<1>4. ASSUME NEW g \in Gestures, ConfirmUpload(g)
      PROVE  OwnInv'
  <2>1. /\ capture'[g].pc = "redacting"
        /\ capture'[g].shots = capture[g].shots
        /\ \A h \in Gestures \ {g} : capture'[h] = capture[h]
    BY <1>t, <1>4, OnePc DEF ConfirmUpload
  <2>2. /\ UNCHANGED <<request, overlay, tab, posted>>
        /\ overlay = g /\ ~tab.blurred /\ capture[g].pc = "preview"
    BY <1>4 DEF ConfirmUpload, UserSees
  <2>3. OwnSight(g)'
    BY <2>1, <2>2 DEF OwnInv, OwnSight, OwnShots, OnScreen, Driving
  <2>4. QED
    BY <2>1, <2>2, <2>3, AsideKeeps DEF Aside
<1>5. CASE Restart
  <2>1. UNCHANGED <<overlay, tab, posted>>
    BY <1>5 DEF Restart
  <2>2. ASSUME NEW g \in Gestures
        PROVE  OwnSight(g)'
    <3> DEFINE pc == CASE capture[g].pc = "binding" -> "threw"
                       [] capture[g].pc = "uploading" -> "failed"
                       [] OTHER -> capture[g].pc
    <3>1. capture'[g] = [capture[g] EXCEPT !.pc = pc]
      BY <1>5 DEF Restart
    <3>2. pc \in {"threw", "failed", capture[g].pc}
      OBVIOUS
    <3> HIDE DEF pc
    <3>3. capture'[g].pc = pc /\ capture'[g].shots = capture[g].shots
      BY <3>1, <1>t DEF CaptureStates
    <3>4. request'[g] = request[g] \/ request'[g].pc \in {"refused", "none"}
      BY <1>5 DEF Restart, Refused, NoRequest
    <3>5. CASE pc \in {"threw", "failed"}
      BY <2>1, <3>3, <3>5, OffScreen DEF OwnInv, OnScreen, Driving
    <3>6. CASE pc = capture[g].pc
      BY <2>1, <3>3, <3>4, <3>6 DEF OwnInv, OwnSight, OwnShots
    <3>7. QED
      BY <3>2, <3>5, <3>6
  <2>3. QED
    BY <2>2 DEF OwnInv
<1>6. CASE \E g \in Gestures : RunLate(g)
  BY <1>6, PageKeepsOwn
<1>7. QED
  BY <1>1, <1>2, <1>3, <1>4, <1>5, <1>6 DEF World

LEMMA OwnKept ==
  ASSUME TypeOK, OwnInv, [Next]_vars
  PROVE  OwnInv'
<1>1. ASSUME NEW g \in Gestures, WorkerStep(g)
      PROVE  OwnInv'
  BY <1>1, HandlerKeepsOwn, WorkerKeepsOwn DEF WorkerStep
<1>2. ASSUME NEW g \in Gestures, PageStep(g)
      PROVE  OwnInv'
  BY <1>2, MountKeepsOwn, DriverKeepsOwn, PageKeepsOwn DEF PageStep
<1>3. ASSUME NEW g \in Gestures, UserStep(g)
      PROVE  OwnInv'
  BY <1>3, WorkerKeepsOwn, WorldKeepsOwn DEF UserStep
<1>4. CASE World
  BY <1>4, WorldKeepsOwn
<1>5. CASE UNCHANGED vars
  BY <1>5 DEF vars, OwnInv, OwnSight, OwnShots
<1>6. QED
  BY <1>1, <1>2, <1>3, <1>4, <1>5 DEF Next

LEMMA OwnInvariance == Spec => []OwnInv
<1>1. Inv /\ OwnInv /\ [Next]_vars => OwnInv'
  BY OwnKept DEF Inv
<1>2. QED
  BY OwnInit, <1>1, Invariance, PTL DEF Spec

\* No picture of another tab is ever uploaded, although the browser may take
\* one between the check of the tab and the picture.
THEOREM OnlyOwnTabUploaded == Spec => []UploadsOwnTab
<1>1. OwnInv => UploadsOwnTab
  BY DEF OwnInv, OwnSight, UploadsOwnTab
<1>2. QED
  BY <1>1, OwnInvariance, PTL

---------------------------------------------------------------------------
(* The newest gesture succeeds.                                            *)

\* Nothing happened but that the page grew, shrank, or was scrolled between
\* captures, and no capture was overtaken.
Disturbing == Hazards \ {"layout", "position"}

Calm == Unmet(Disturbing)

Begun(g) == gesture[g].pc # "idle"

Newest(g) ==
  Begun(g) /\ Current(g) /\ gesture[g].mode = "full" /\ gesture[g].y = 0

\* The user looks at the tab, no two starts are of one generation, and who
\* has not begun has asked for nothing.
Steady ==
  /\ tab.active /\ ~tab.blurred
  /\ \A g, h \in Gestures :
       Begun(g) /\ Begun(h) /\ gesture[g].generation = gesture[h].generation
         => g = h
  /\ \A g \in Gestures : /\ gesture[g].pc = "asking" => gesture[g].y = 0
                         /\ ~Begun(g) => request[g].pc = "none"

\* The permission for the first picture of gesture g, which nobody but g may
\* use or end.
Permitted(g) ==
  /\ armed = [gesture |-> g, mode |-> "full", page |-> tab.page, next |-> 0,
              y |-> 0, void |-> FALSE]
  /\ worker.latestArm = gesture[g].generation
  /\ g \notin ends

\* How far the newest gesture is. It knows the page;
Asks(g) ==
  /\ gesture[g].pc \in Asking
  /\ capture[g].pc = "idle" /\ gesture[g].page = tab.page
  /\ request[g].pc = "none" /\ g \notin ends
  /\ gesture[g].pc = "arming" =>
       worker.latestArm = gesture[g].generation

\* it has the permission, and the content script has been called;
Opens(g) ==
  /\ gesture[g].pc \in {"starting", "done"}
  /\ capture[g].pc \in {"called", "binding", "frame"}
  /\ Permitted(g) /\ request[g].pc = "none"
  /\ capture[g].pc = "frame" =>
       /\ ~capture[g].late /\ capture[g].page = tab.page
       /\ capture[g].shots = <<>> /\ capture[g].bottom = NoBottom

\* the first picture is on its way, and will be taken;
Begins(g) ==
  /\ gesture[g].pc \in {"starting", "done"}
  /\ capture[g].pc = "slicing" /\ capture[g].shots = <<>>
  /\ ~capture[g].late /\ capture[g].page = tab.page
  /\ capture[g].bottom = NoBottom
  /\ \/ request[g].pc = "answered"
     \/ /\ request[g].pc \in {"asked", "taking"}
        /\ request[g].sequence = 0 /\ request[g].y = 0
        /\ request[g].page = tab.page
        /\ Permitted(g)

\* or there is a picture to show, whatever becomes of the next ones.
Shows(g) ==
  /\ gesture[g].pc \in {"starting", "done"}
  /\ capture[g].pc \in Driving \cup (Shown \ {"failed"}) \cup {"ending"}
  /\ capture[g].shots # <<>>

InTime(g) == Asks(g) \/ Opens(g) \/ Begins(g) \/ Shows(g)

NewestInv ==
  Calm => Steady /\ \A g \in Gestures : Newest(g) => InTime(g)

LEMMA NewestInit == Init => NewestInv
BY DEF Init, NewestInv, Steady, Begun, Newest, IdleGesture, NoRequest

LEMMA InTimeSucceeds ==
  ASSUME Inv, NewestInv
  PROVE  NewestSucceeds
<1>1. SUFFICES ASSUME NEW g \in Gestures,
                      gesture[g].mode = "full", gesture[g].y = 0,
                      Current(g), Calm
               PROVE  /\ gesture[g].pc # "failed"
                      /\ capture[g].pc \notin {"failed", "threw", "gone"}
  BY DEF NewestSucceeds, Calm, Disturbing
<1>2. CASE Begun(g)
  BY <1>1, <1>2
     DEF NewestInv, Newest, InTime, Asks, Opens, Begins, Shows, Asking,
         Shown, Driving
<1>3. CASE ~Begun(g)
  BY <1>3 DEF Begun, Inv, Control, CapturesStarted, Early
<1>4. QED
  BY <1>2, <1>3

\* As long as nothing happens, the steps that need a hazard are not taken.
LEMMA CalmBefore ==
  ASSUME TypeOK, Next, Calm'
  PROVE  /\ Calm
         /\ \A h \in Disturbing : ~Meet(h)
         /\ ~(met' = [met EXCEPT !["overtake"] = 1])
<1>1. /\ \A h \in Disturbing : met'[h] = 0
      /\ Disturbing \subseteq Hazards /\ "overtake" \in Disturbing
      /\ met \in [Hazards -> Nat]
  BY DEF Calm, Unmet, Disturbing, Hazards, TypeOK
<1>2. \A h \in Disturbing : met[h] = 0
  BY <1>1, MetTyped
<1>3. \A h \in Disturbing : ~Meet(h)
  BY <1>1 DEF Meet
<1>4. QED
  BY <1>1, <1>2, <1>3 DEF Calm, Unmet

LEMMA DisturbingAre ==
  {"leave", "navigate", "reload", "restart", "time", "picture", "scroll",
   "network", "cancel", "overtake"} \subseteq Disturbing
BY DEF Disturbing, Hazards

\* A step of another gesture that leaves the newest one alone.
LeavesAlone(g) ==
  /\ gesture'[g] = gesture[g] /\ capture'[g] = capture[g]
  /\ request'[g] = request[g] /\ tab'.page = tab.page
  /\ gesture[g].pc # "asking" => worker'.latestArm = worker.latestArm
  /\ Permitted(g) => armed' = armed
  /\ g \in ends' => g \in ends

LEMMA AloneInTime ==
  ASSUME NEW g \in Gestures, InTime(g), LeavesAlone(g)
  PROVE  InTime(g)'
<1>1. (gesture[g].pc # "asking" /\ Permitted(g)) => Permitted(g)'
  BY DEF Permitted, LeavesAlone
<1>2. CASE Asks(g)
  BY <1>2 DEF InTime, Asks, LeavesAlone
<1>3. CASE Opens(g)
  BY <1>1, <1>3 DEF InTime, Opens, LeavesAlone
<1>4. CASE Begins(g)
  BY <1>1, <1>4 DEF InTime, Begins, LeavesAlone
<1>5. CASE Shows(g)
  BY <1>5 DEF InTime, Shows, LeavesAlone
<1>6. QED
  BY <1>2, <1>3, <1>4, <1>5 DEF InTime

\* An older gesture is not the current one, and who has the permission is
\* not it.
LEMMA OlderGestures ==
  ASSUME TypeOK, Control, Steady, NEW g \in Gestures, NEW h \in Gestures,
         h # g, Newest(g), Begun(h)
  PROVE  /\ ~Current(h) /\ gesture[h].generation < gesture[g].generation
         /\ Permitted(g) =>
              ~ArmedFull(armed, h) /\ ~ArmedOnce /\ ~Armable(h)
<1>1. gesture[h].generation # gesture[g].generation
  BY DEF Steady, Newest
<1>2. /\ gesture[g].generation = worker.generation
      /\ gesture[h].generation <= worker.generation
      /\ gesture[h].generation \in Nat /\ gesture[g].generation \in Nat
  BY DEF Newest, Current, Control, GenerationsPassed, TypeOK, GestureStates
<1>3. ~Current(h) /\ gesture[h].generation < gesture[g].generation
  BY <1>1, <1>2 DEF Current
<1>4. Permitted(g) => ~ArmedFull(armed, h) /\ ~ArmedOnce /\ ~Armable(h)
  BY <1>1 DEF Permitted, ArmedFull, ArmedOnce, Armable
<1>5. QED
  BY <1>3, <1>4

\* Whose capture or request has begun was started.
LEMMA BegunBefore ==
  ASSUME Control, NEW h \in Gestures,
         \/ gesture[h].pc # "idle" \/ capture[h].pc # "idle" \/ h \in ends
  PROVE  Begun(h)
BY DEF Begun, Control, CapturesStarted, Early

LEMMA FailLeavesAlone ==
  ASSUME TypeOK, Control, Steady, NEW g \in Gestures, NEW h \in Gestures,
         h # g, Newest(g), Begun(h), Fail(h)
  PROVE  /\ gesture'[g] = gesture[g] /\ worker'.latestArm = worker.latestArm
         /\ Permitted(g) => armed' = armed
<1>1. gesture'[g] = gesture[g]
  BY DEF Fail, Goes, TypeOK
<1>2. worker'.latestArm = worker.latestArm
  BY DEF Fail, Discard, TypeOK, WorkerStates
<1>3. Permitted(g) => armed' = armed
  BY OlderGestures DEF Fail, Discard, EndArm
<1>4. QED
  BY <1>1, <1>2, <1>3

\* The start of an older gesture, which fails if it is not over.
LEMMA StartLeavesAlone ==
  ASSUME TypeOK, Control, Steady, NEW g \in Gestures, NEW h \in Gestures,
         h # g, Newest(g), StatusKnown(h) \/ Armed(h) \/ Started(h)
  PROVE  LeavesAlone(g)
<1>1. Begun(h)
  BY DEF StatusKnown, Armed, Started, Begun
<1>2. ~Current(h) /\ (Permitted(g) => ~Armable(h))
  BY <1>1, OlderGestures
<1>3. UNCHANGED <<capture, request, tab, ends>>
  BY <1>2 DEF StatusKnown, Armed, Started
<1>4. CASE Fail(h)
  BY <1>1, <1>3, <1>4, FailLeavesAlone DEF LeavesAlone
<1>5. CASE Armed(h) /\ Armable(h)
  <2>1. gesture' = [gesture EXCEPT ![h].pc = "failed"]
    BY <1>2, <1>5 DEF Armed, Goes
  <2>2. gesture'[g] = gesture[g]
    BY <2>1 DEF TypeOK
  <2>3. worker'.latestArm = worker.latestArm
    BY <1>2, <1>5 DEF Armed, Discard, TypeOK, WorkerStates
  <2>4. QED
    BY <1>2, <1>3, <1>5, <2>2, <2>3 DEF LeavesAlone
<1>6. QED
  BY <1>2, <1>4, <1>5 DEF StatusKnown, Armed, Started

\* What the service worker does for an older gesture.
LEMMA HandlerLeavesAlone ==
  ASSUME TypeOK, Control, Steady, NEW g \in Gestures, NEW h \in Gestures,
         h # g, Newest(g), Begun(h),
         \/ CheckSlice(h) \/ TakeSlice(h) \/ CheckVisible(h)
         \/ TakeVisible(h) \/ End(h) \/ AskBinding(h)
  PROVE  LeavesAlone(g)
<1>1. UNCHANGED <<gesture, tab>> /\ ends' \subseteq ends
      /\ worker'.latestArm = worker.latestArm
  BY DEF CheckSlice, TakeSlice, CheckVisible, TakeVisible, End, AskBinding,
         TypeOK, WorkerStates
<1>2. capture'[g] = capture[g] /\ request'[g] = request[g]
  BY DEF CheckSlice, TakeSlice, CheckVisible, TakeVisible, End, AskBinding,
         Replies, TypeOK
<1>3. ASSUME Permitted(g)
      PROVE  armed' = armed
  <2>1. ~ArmedFull(armed, h) /\ ~ArmedOnce
    BY <1>3, OlderGestures
  <2>2. ~armed.void /\ tab.active
    BY <1>3 DEF Permitted, Steady
  <2>3. QED
    BY <2>1, <2>2
       DEF CheckSlice, TakeSlice, CheckVisible, TakeVisible, End, AskBinding,
           InSequence, StillArmed, EndArm
<1>4. QED
  BY <1>1, <1>2, <1>3 DEF LeavesAlone

\* What the content script does for an older gesture. Its overlay is mounted
\* before the newest one's, or the newest was overtaken.
LEMMA PageLeavesAlone ==
  ASSUME TypeOK, Control, Steady, NEW g \in Gestures, NEW h \in Gestures,
         h # g, Newest(g), InTime(g), Calm', Next,
         PageStep(h) \/ ConfirmUpload(h)
  PROVE  LeavesAlone(g)
<1>t. /\ capture \in [Gestures -> CaptureStates] /\ tab \in TabStates
      /\ request \in [Gestures -> RequestStates]
      /\ overlay \in Gestures \cup {NoGesture}
  BY DEF TypeOK
<1>1. UNCHANGED <<worker, armed, gesture>>
  BY DEF PageStep, Mount, NoBinding, Frame, Receive, NextSlice,
         ReceiveVisible, GiveUp, Upload, UploadEnds, ConfirmUpload
<1>2. request'[g] = request[g]
  BY <1>t
     DEF PageStep, Mount, NoBinding, Frame, Receive, NextSlice,
         ReceiveVisible, GiveUp, Upload, UploadEnds, ConfirmUpload
<1>3. CASE Mount(h)
  <2>1. ~Overtaken(h)
    BY <1>3, CalmBefore DEF Mount
  <2>2. Begun(h)
    BY <1>3, BegunBefore DEF Mount
  <2>3. capture[g].pc \in {"idle", "called", "binding"}
    BY <2>1, <2>2, OlderGestures DEF Overtaken
  <2>4. overlay # g
    BY <2>3 DEF TypeOK, Unmounted
  <2>5. capture'[g] = capture[g]
    BY <1>3, <1>t, <2>4 DEF Mount
  <2>6. g \in ends' => g \in ends
    BY <1>3, <2>4 DEF Mount, EndsOf
  <2>7. tab'.page = tab.page
    BY <1>3, <1>t, ScrollKeepsSight DEF Mount
  <2>8. QED
    BY <1>1, <1>2, <2>5, <2>6, <2>7 DEF LeavesAlone
<1>r. ASSUME NEW shots, NEW complete, Return(h, shots, complete)
      PROVE  /\ capture'[g] = capture[g] /\ tab'.page = tab.page
             /\ ends' = ends \cup {h}
  BY <1>r, <1>t, OneReturn, ScrollKeepsSight DEF Return
<1>o. ASSUME NEW shots, NEW bottom, GoOn(h, shots, bottom)
      PROVE  /\ capture'[g] = capture[g] /\ tab'.page = tab.page
             /\ ends' = ends
  BY <1>o, <1>t, OneGoOn, ScrollKeepsSight DEF GoOn
<1>4. CASE Receive(h) \/ NextSlice(h) \/ GiveUp(h)
  <2>1. \/ \E shots, complete : Return(h, shots, complete)
        \/ \E shots, bottom : GoOn(h, shots, bottom)
        \/ /\ capture' = [capture EXCEPT ![h].pc = "slicing"]
           /\ UNCHANGED <<ends, tab>>
    BY <1>4, Zenon DEF Receive, NextSlice, GiveUp
  <2>2. /\ capture'[g] = capture[g] /\ tab'.page = tab.page
        /\ ends' \subseteq ends \cup {h}
    BY <2>1, <1>t, <1>r, <1>o
  <2>3. QED
    BY <1>1, <1>2, <2>2 DEF LeavesAlone
<1>5. CASE \/ NoBinding(h) \/ Frame(h) \/ ReceiveVisible(h) \/ Upload(h)
           \/ UploadEnds(h) \/ ConfirmUpload(h)
  <2>1. UNCHANGED ends /\ tab'.page = tab.page
    BY <1>5, <1>t, ScrollKeepsSight
       DEF NoBinding, Frame, ReceiveVisible, Upload, UploadEnds,
           ConfirmUpload, Top
  <2>2. capture'[g] = capture[g]
    BY <1>5, <1>t
       DEF NoBinding, Frame, ReceiveVisible, Upload, UploadEnds,
           ConfirmUpload
  <2>3. QED
    BY <1>1, <1>2, <2>1, <2>2 DEF LeavesAlone
<1>6. QED
  BY <1>3, <1>4, <1>5 DEF PageStep

\* The start of the newest gesture goes on.
LEMMA StartInTime ==
  ASSUME TypeOK, Steady, NEW g \in Gestures, Newest(g), InTime(g),
         StatusKnown(g) \/ Armed(g) \/ Started(g)
  PROVE  InTime(g)'
<1>t. /\ gesture \in [Gestures -> GestureStates]
      /\ capture \in [Gestures -> CaptureStates]
      /\ worker \in WorkerStates
  BY DEF TypeOK
<1>n. Current(g) /\ gesture[g].mode = "full" /\ gesture[g].y = 0
  BY DEF Newest
<1>1. CASE StatusKnown(g)
  <2>1. Asks(g)
    BY <1>1 DEF StatusKnown, InTime, Opens, Begins, Shows
  <2>2. /\ worker' = [worker EXCEPT !.latestArm = gesture[g].generation]
        /\ gesture' = [gesture EXCEPT ![g].pc = "arming",
                                      ![g].page = tab.page,
                                      ![g].y = tab.y]
        /\ UNCHANGED <<capture, request, ends, tab>>
    BY <1>1, <1>n, <2>1 DEF StatusKnown, Asks
  <2>3. gesture'[g] = [gesture[g] EXCEPT !.pc = "arming", !.page = tab.page,
                                         !.y = tab.y]
    BY <1>t, <2>2
  <2>4. /\ gesture'[g].pc = "arming" /\ gesture'[g].page = tab.page
        /\ gesture'[g].generation = gesture[g].generation
    BY <1>t, <2>3 DEF GestureStates
  <2>5. worker'.latestArm = gesture[g].generation
    BY <1>t, <2>2 DEF WorkerStates
  <2>6. Asks(g)'
    BY <2>1, <2>2, <2>4, <2>5 DEF Asks, Asking
  <2>7. QED
    BY <2>6 DEF InTime
<1>2. CASE Armed(g)
  <2>1. Asks(g) /\ gesture[g].pc = "arming"
    BY <1>2 DEF Armed, InTime, Opens, Begins, Shows
  <2>2. Armable(g)
    BY <2>1 DEF Armable, Asks, Steady
  <2>3. /\ armed' = Arm(g) /\ UNCHANGED <<worker, request, ends, tab>>
        /\ gesture' = [gesture EXCEPT ![g].pc = "starting"]
        /\ capture' = [capture EXCEPT ![g].pc = "called"]
    BY <1>2, <1>n, <2>2 DEF Armed, Goes
  <2>4. gesture'[g].pc = "starting"
        /\ gesture'[g].generation = gesture[g].generation
    BY <1>t, <2>3 DEF GestureStates
  <2>5. capture'[g].pc = "called"
    BY <1>t, <2>3, OnePc
  <2>6. Permitted(g)'
    BY <1>n, <2>1, <2>3, <2>4 DEF Permitted, Arm, Asks
  <2>7. Opens(g)'
    BY <2>1, <2>3, <2>4, <2>5, <2>6 DEF Opens, Asks
  <2>8. QED
    BY <2>7 DEF InTime
<1>3. CASE Started(g)
  <2>1. Shows(g) /\ capture[g].pc \in Shown
    BY <1>3 DEF Started, InTime, Asks, Opens, Begins, Shows, Asking, Busy,
                Driving
  <2>2. UNCHANGED capture /\ gesture' = [gesture EXCEPT ![g].pc = "done"]
    BY <1>3, <1>n, <2>1 DEF Started, Goes
  <2>3. gesture'[g].pc = "done"
    BY <1>t, <2>2 DEF GestureStates
  <2>4. Shows(g)'
    BY <2>1, <2>2, <2>3 DEF Shows
  <2>5. QED
    BY <2>4 DEF InTime
<1>4. QED
  BY <1>1, <1>2, <1>3

\* The newest gesture is given the binding and its first picture.
LEMMA HandlerInTime ==
  ASSUME TypeOK, Steady, NEW g \in Gestures, Newest(g), InTime(g),
         Next, Calm',
         \/ CheckSlice(g) \/ TakeSlice(g) \/ CheckVisible(g)
         \/ TakeVisible(g) \/ End(g) \/ AskBinding(g)
  PROVE  InTime(g)'
<1>t. /\ capture \in [Gestures -> CaptureStates]
      /\ request \in [Gestures -> RequestStates]
  BY DEF TypeOK
<1>n. gesture[g].mode = "full"
  BY DEF Newest
<1>p. Permitted(g) => /\ ArmedFull(armed, g) /\ ~armed.void
                      /\ armed.next = 0 /\ armed.y = 0
                      /\ armed.page = tab.page /\ g \notin ends
  BY DEF Permitted, ArmedFull
<1>u. UNCHANGED <<gesture, tab>>
  BY DEF CheckSlice, TakeSlice, CheckVisible, TakeVisible, End, AskBinding
<1>1. CASE Shows(g)
  <2>1. capture'[g].shots = capture[g].shots
        /\ \/ capture'[g].pc = capture[g].pc
           \/ capture[g].pc = "ending" /\ capture'[g].pc = "preview"
    <3>1. CASE End(g)
      <4>1. capture' = [capture EXCEPT ![g].pc =
                          IF capture[g].pc = "ending" THEN "preview"
                          ELSE capture[g].pc]
        BY <1>1, <3>1 DEF End, Shows
      <4>2. QED
        BY <1>t, <4>1, OnePc
    <3>2. CASE ~End(g)
      BY <1>1, <3>2
         DEF CheckSlice, TakeSlice, CheckVisible, TakeVisible, AskBinding,
             Shows, Shown, Driving
    <3>3. QED
      BY <3>1, <3>2
  <2>2. Shows(g)'
    BY <1>1, <1>u, <2>1 DEF Shows, Shown, Driving
  <2>3. QED
    BY <2>2 DEF InTime
<1>2. CASE Asks(g)
  BY <1>2 DEF CheckSlice, TakeSlice, CheckVisible, TakeVisible, End,
              AskBinding, Asks
<1>3. CASE Opens(g)
  <2>1. AskBinding(g)
    BY <1>3, <1>p
       DEF CheckSlice, TakeSlice, CheckVisible, TakeVisible, End, Opens
  <2>2. MayCapture(g)
    BY <1>3, <1>n, <1>p DEF MayCapture, Opens, Steady
  <2>3. capture' = [capture EXCEPT ![g].pc = "binding"]
        /\ UNCHANGED <<worker, armed, request, ends>>
    BY <2>1, <2>2 DEF AskBinding
  <2>4. capture'[g].pc = "binding"
    BY <1>t, <2>3, OnePc
  <2>5. Opens(g)'
    BY <1>3, <1>u, <2>3, <2>4 DEF Opens, Permitted
  <2>6. QED
    BY <2>5 DEF InTime
<1>4. CASE Begins(g)
  <2>1. CASE CheckSlice(g)
    <3>1. /\ request[g].sequence = 0 /\ request[g].y = 0
          /\ request[g].page = tab.page /\ Permitted(g)
      BY <1>4, <2>1 DEF Begins, CheckSlice
    <3>2. InSequence(g) /\ SameContext(g) /\ tab.active
      BY <1>p, <3>1 DEF InSequence, SameContext, Steady
    <3>3. request' = [request EXCEPT ![g].pc = "taking"]
          /\ UNCHANGED <<worker, armed, capture, ends>>
      BY <1>p, <2>1, <3>1, <3>2 DEF CheckSlice
    <3>4. request'[g] = [request[g] EXCEPT !.pc = "taking"]
      BY <1>t, <3>3
    <3>5. /\ request'[g].pc = "taking"
          /\ request'[g].sequence = request[g].sequence
          /\ request'[g].y = request[g].y
          /\ request'[g].page = request[g].page
      BY <1>t, <3>4 DEF RequestStates
    <3>6. Begins(g)'
      BY <1>4, <1>u, <3>1, <3>3, <3>5 DEF Begins, Permitted
    <3>7. QED
      BY <3>6 DEF InTime
  <2>2. CASE TakeSlice(g)
    <3>1. Permitted(g)
      BY <1>4, <2>2 DEF Begins, TakeSlice
    <3>2. ~Meet("picture")
      BY CalmBefore, DisturbingAre
    <3>3. Replies(g, Answered(g)) /\ UNCHANGED capture
      BY <1>p, <2>2, <3>1, <3>2 DEF TakeSlice, StillArmed, MeetIf
    <3>4. request'[g] = Answered(g)
      BY <1>t, <1>4, <3>3 DEF Replies, Begins
    <3>5. request'[g].pc = "answered"
      BY <3>4 DEF Answered, NoRequest
    <3>6. Begins(g)'
      BY <1>4, <1>u, <3>3, <3>5 DEF Begins
    <3>7. QED
      BY <3>6 DEF InTime
  <2>3. CASE End(g)
    <3>1. request[g].pc = "answered"
      BY <1>4, <1>p, <2>3 DEF Begins, End
    <3>2. capture'[g] = capture[g] /\ UNCHANGED request
      BY <1>t, <1>4, <2>3 DEF End, Begins, CaptureStates
    <3>3. Begins(g)'
      BY <1>4, <1>u, <3>1, <3>2 DEF Begins
    <3>4. QED
      BY <3>3 DEF InTime
  <2>4. CASE CheckVisible(g) \/ TakeVisible(g) \/ AskBinding(g)
    BY <1>4, <1>n, <2>4 DEF CheckVisible, TakeVisible, AskBinding, Begins
  <2>5. QED
    BY <2>1, <2>2, <2>3, <2>4
<1>5. QED
  BY <1>1, <1>2, <1>3, <1>4 DEF InTime

\* The content script mounts the newest gesture's overlay, takes its
\* pictures and uploads them.
LEMMA PageInTime ==
  ASSUME TypeOK, Steady, NEW g \in Gestures, Newest(g), InTime(g),
         Next, Calm', PageStep(g) \/ ConfirmUpload(g)
  PROVE  InTime(g)'
<1>t. /\ capture \in [Gestures -> CaptureStates] /\ tab \in TabStates
      /\ request \in [Gestures -> RequestStates]
      /\ overlay \in Gestures \cup {NoGesture}
  BY DEF TypeOK
<1>n. gesture[g].mode = "full"
  BY DEF Newest
<1>h. ~Meet("picture") /\ ~Meet("network")
  BY CalmBefore, DisturbingAre
<1>u. UNCHANGED <<worker, armed, gesture>>
  BY DEF PageStep, Mount, NoBinding, Frame, Receive, NextSlice,
         ReceiveVisible, GiveUp, Upload, UploadEnds, ConfirmUpload
<1>k. ASSUME gesture[g].pc \in {"starting", "done"},
             capture'[g].pc \in Driving \cup (Shown \ {"failed"})
                                \cup {"ending"},
             capture'[g].shots # <<>>
      PROVE  InTime(g)'
  BY <1>k, <1>u DEF InTime, Shows
<1>r. ASSUME NEW shots, NEW complete, Return(g, shots, complete),
             shots # <<>>, gesture[g].pc \in {"starting", "done"}
      PROVE  InTime(g)'
  <2>1. PICK whole \in BOOLEAN, kept \in {shots, <<>>} :
          /\ MeetIf((complete /\ ~whole) \/ kept # shots, "picture")
          /\ capture' = [capture EXCEPT ![g].pc = "ending",
                           ![g].shots = kept, ![g].complete = whole]
    BY <1>r DEF Return
  <2>2. kept = shots
    BY <1>h, <2>1 DEF MeetIf
  <2>3. capture'[g] = [capture[g] EXCEPT !.pc = "ending", !.shots = kept,
                                         !.complete = whole]
    BY <1>t, <2>1
  <2>4. capture'[g].pc = "ending" /\ capture'[g].shots = kept
    BY <1>t, <2>3 DEF CaptureStates
  <2>5. QED
    BY <1>k, <1>r, <2>2, <2>4
<1>o. ASSUME NEW shots, NEW bottom, GoOn(g, shots, bottom),
             shots # <<>>, gesture[g].pc \in {"starting", "done"}
      PROVE  InTime(g)'
  BY <1>t, <1>k, <1>o, OneGoOn DEF Driving
<1>1. CASE Mount(g)
  <2>1. Opens(g) /\ capture[g].pc = "binding"
    BY <1>1 DEF Mount, InTime, Asks, Begins, Shows, Shown, Driving
  <2>2. overlay # g
    BY <2>1 DEF TypeOK, Unmounted
  <2> DEFINE mounted == [IdleCapture EXCEPT !.pc = "frame",
                                            !.page = tab.page]
  <2>m. /\ mounted.pc = "frame" /\ ~mounted.late
        /\ mounted.page = tab.page /\ mounted.shots = <<>>
        /\ mounted.bottom = NoBottom
    BY DEF IdleCapture
  <2>3. /\ capture'[g] = mounted /\ UNCHANGED request
        /\ g \in ends' => g \in ends
    BY <1>1, <1>t, <2>2 DEF Mount, EndsOf
  <2>4. tab'.page = tab.page
    BY <1>1, <1>t, ScrollKeepsSight DEF Mount
  <2> HIDE DEF mounted
  <2>5. Opens(g)'
    BY <1>u, <2>1, <2>m, <2>3, <2>4 DEF Opens, Permitted
  <2>6. QED
    BY <2>5 DEF InTime
<1>2. CASE Frame(g)
  <2>1. Opens(g) /\ capture[g].pc = "frame"
    BY <1>2 DEF Frame, InTime, Asks, Begins, Shows, Shown, Driving
  <2>2. /\ capture' = [capture EXCEPT ![g].pc = "slicing",
                                      ![g].from = tab.y]
        /\ request' = [request EXCEPT ![g] = Asked(g, 0, Top(g).y)]
        /\ tab' = Top(g) /\ UNCHANGED ends
    BY <1>2, <2>1 DEF Frame, Opens
  <2>3. Top(g).y = 0 /\ Top(g).page = tab.page
    BY <1>t, <1>n DEF Top, ScrollTo, Least, Bottom, TabStates
  <2>4. capture'[g] = [capture[g] EXCEPT !.pc = "slicing", !.from = tab.y]
    BY <1>t, <2>2
  <2>5. /\ capture'[g].pc = "slicing"
        /\ capture'[g].shots = capture[g].shots
        /\ capture'[g].late = capture[g].late
        /\ capture'[g].page = capture[g].page
        /\ capture'[g].bottom = capture[g].bottom
    BY <1>t, <2>4 DEF CaptureStates
  <2>6. /\ request'[g].pc = "asked" /\ request'[g].sequence = 0
        /\ request'[g].y = 0 /\ request'[g].page = tab.page
    BY <1>t, <2>1, <2>2, <2>3 DEF Asked, Opens
  <2>7. Begins(g)'
    BY <1>u, <2>1, <2>2, <2>3, <2>5, <2>6 DEF Opens, Begins, Permitted
  <2>8. QED
    BY <2>7 DEF InTime
<1>3. CASE Begins(g)
  <2>1. Receive(g) /\ request[g].pc = "answered"
    BY <1>n, <1>3
       DEF PageStep, Mount, NoBinding, Frame, Receive, NextSlice,
           ReceiveVisible, GiveUp, Upload, UploadEnds, ConfirmUpload, Begins
  <2>2. ~StableBottom(g) /\ ~capture[g].late /\ tab.page = capture[g].page
    BY <1>t, <1>3 DEF StableBottom, Begins, NoBottom, TabStates
  <2>3. \E bottom :
          GoOn(g, Append(capture[g].shots, request[g].picture), bottom)
    BY <2>1, <2>2, Zenon DEF Receive
  <2>4. capture[g].shots = <<>> /\ gesture[g].pc \in {"starting", "done"}
    BY <1>3 DEF Begins
  <2>5. Append(<<>>, request[g].picture) # <<>>
    OBVIOUS
  <2>6. QED
    BY <1>o, <2>3, <2>4, <2>5
<1>4. CASE Shows(g)
  <2>t. capture[g].shots # <<>> /\ gesture[g].pc \in {"starting", "done"}
    BY <1>4 DEF Shows
  <2>a. Append(capture[g].shots, request[g].picture) # <<>>
    <3>1. capture[g].shots \in Seq(Pictures)
            /\ request[g].picture \in Pictures
      BY <1>t, CaptureParts DEF RequestStates
    <3>2. QED
      BY <3>1
  <2>1. CASE Receive(g) \/ NextSlice(g) \/ GiveUp(g)
    <3>1. \/ \E complete :
               \/ Return(g, capture[g].shots, complete)
               \/ Return(g, Append(capture[g].shots, request[g].picture),
                         complete)
          \/ \E bottom :
               GoOn(g, Append(capture[g].shots, request[g].picture), bottom)
          \/ capture' = [capture EXCEPT ![g].pc = "slicing"]
      BY <2>1, Zenon DEF Receive, NextSlice, GiveUp
    <3>2. CASE capture' = [capture EXCEPT ![g].pc = "slicing"]
      BY <1>t, <1>k, <2>t, <3>2, OnePc DEF Driving
    <3>3. QED
      BY <3>1, <3>2, <1>r, <1>o, <2>t, <2>a
  <2>2. CASE Upload(g) \/ UploadEnds(g) \/ ConfirmUpload(g)
    <3>1. \E pc \in {"redacting", "uploading", "completed"} :
            capture' = [capture EXCEPT ![g].pc = pc]
      BY <1>h, <2>2
         DEF Upload, UploadEnds, ConfirmUpload, MeetIf, Steady
    <3>2. QED
      BY <1>t, <1>k, <2>t, <3>1, OnePc DEF Shown
  <2>3. CASE \/ Mount(g) \/ NoBinding(g) \/ Frame(g) \/ ReceiveVisible(g)
    BY <1>n, <1>4, <2>3
       DEF Mount, NoBinding, Frame, ReceiveVisible, Shows, Shown, Driving
  <2>4. QED
    BY <2>1, <2>2, <2>3 DEF PageStep
<1>5. CASE (Asks(g) \/ Opens(g)) /\ ~Mount(g) /\ ~Frame(g)
  BY <1>h, <1>5
     DEF PageStep, NoBinding, Receive, NextSlice, ReceiveVisible, GiveUp,
         Upload, UploadEnds, ConfirmUpload, Asks, Opens
<1>6. QED
  BY <1>1, <1>2, <1>3, <1>4, <1>5 DEF InTime

\* What else may happen while nothing happens: the page grows, shrinks or is
\* scrolled.
LEMMA CalmWorld ==
  ASSUME TypeOK, Steady, Next, Calm', World
  PROVE  Relayout \/ UserScrolls
<1>1. /\ ~Meet("leave") /\ ~Meet("navigate") /\ ~Meet("reload")
      /\ ~Meet("time") /\ ~Meet("restart")
  BY CalmBefore, DisturbingAre
<1>2. tab.active /\ ~tab.blurred
  BY DEF Steady
<1>3. QED
  BY <1>1, <1>2 DEF World, LeaveTab, ReturnToTab, Blur, Navigate, Reload,
                    Expire, Restart, RunLate

\* The start of the newest gesture of all.
LEMMA NewStartInTime ==
  ASSUME TypeOK, Control, Steady, NEW g \in Gestures, NEW h \in Gestures,
         NEW mode \in Modes, Start(h, mode),
         Newest(g)'
  PROVE  g = h /\ InTime(g)'
<1>t. gesture \in [Gestures -> GestureStates] /\ worker \in WorkerStates
  BY DEF TypeOK
<1>1. /\ worker'.generation = worker.generation + 1
      /\ gesture' = [gesture EXCEPT ![h] =
                       [pc |-> "asking", mode |-> mode,
                        generation |-> worker.generation + 1,
                        page |-> tab.page, y |-> 0]]
      /\ UNCHANGED <<capture, request, ends, tab>>
  BY <1>t DEF Start, WorkerStates
<1>2. g = h
  <2>1. SUFFICES ASSUME g # h
                 PROVE  FALSE
    OBVIOUS
  <2>2. gesture'[g].generation <= worker.generation
    BY <1>t, <1>1, <2>1 DEF Control, GenerationsPassed
  <2>3. gesture'[g].generation = worker.generation + 1
    BY <1>1 DEF Newest, Current
  <2>4. worker.generation \in Nat
    BY <1>t DEF WorkerStates
  <2>5. QED
    BY <2>2, <2>3, <2>4
<1>3. gesture'[g].pc = "asking" /\ gesture'[g].page = tab.page
  BY <1>t, <1>1, <1>2
<1>4. capture[g].pc = "idle" /\ request[g].pc = "none" /\ g \notin ends
  BY <1>2 DEF Start, Control, CapturesStarted, Early, Steady, Begun
<1>5. Asks(g)'
  BY <1>1, <1>2, <1>3, <1>4 DEF Asks, Asking
<1>6. QED
  BY <1>2, <1>5 DEF InTime

\* How a start moves, and that only a start that has begun moves on.
LEMMA GesturesMove ==
  ASSUME TypeOK, Next, ~Restart, ~Reload
  PROVE  \/ \E g \in Gestures, mode \in Modes : Start(g, mode)
         \/ \A h \in Gestures :
              /\ gesture'[h].generation = gesture[h].generation
              /\ gesture'[h].mode = gesture[h].mode
              /\ gesture'[h].pc = "idle" <=> gesture[h].pc = "idle"
              /\ \/ gesture'[h].pc # "asking"
                 \/ gesture'[h] = gesture[h]
<1>t. gesture \in [Gestures -> GestureStates]
  BY DEF TypeOK
<1> DEFINE Moves == \A h \in Gestures :
              /\ gesture'[h].generation = gesture[h].generation
              /\ gesture'[h].mode = gesture[h].mode
              /\ gesture'[h].pc = "idle" <=> gesture[h].pc = "idle"
              /\ \/ gesture'[h].pc # "asking"
                 \/ gesture'[h] = gesture[h]
<1>g. ASSUME NEW g \in Gestures, NEW pc \in {"done", "failed", "starting"},
             Goes(g, pc), gesture[g].pc # "idle"
      PROVE  Moves
  <2>1. gesture'[g] = [gesture[g] EXCEPT !.pc = pc]
        /\ \A h \in Gestures \ {g} : gesture'[h] = gesture[h]
    BY <1>t, <1>g DEF Goes
  <2>2. /\ gesture'[g].generation = gesture[g].generation
        /\ gesture'[g].mode = gesture[g].mode /\ gesture'[g].pc = pc
    BY <1>t, <2>1 DEF GestureStates
  <2>3. QED
    BY <1>g, <2>1, <2>2
<1>1. ASSUME NEW g \in Gestures, StatusKnown(g)
      PROVE  Moves
  <2>1. CASE Fail(g)
    BY <1>1, <2>1, <1>g DEF StatusKnown, Fail
  <2>2. CASE gesture' = [gesture EXCEPT ![g].pc = "arming",
                                        ![g].page = tab.page,
                                        ![g].y = tab.y]
    <3>1. gesture'[g] = [gesture[g] EXCEPT !.pc = "arming",
                                           !.page = tab.page, !.y = tab.y]
          /\ \A h \in Gestures \ {g} : gesture'[h] = gesture[h]
      BY <1>t, <2>2
    <3>2. /\ gesture'[g].generation = gesture[g].generation
          /\ gesture'[g].mode = gesture[g].mode
          /\ gesture'[g].pc = "arming"
      BY <1>t, <3>1 DEF GestureStates
    <3>3. QED
      BY <1>1, <3>1, <3>2 DEF StatusKnown
  <2>3. QED
    BY <1>1, <2>1, <2>2 DEF StatusKnown
<1>2. ASSUME NEW g \in Gestures, Armed(g) \/ Started(g)
      PROVE  Moves
  BY <1>2, <1>g DEF Armed, Started, Fail
<1>3. ASSUME UNCHANGED gesture
      PROVE  Moves
  BY <1>3
<1>s. SUFFICES ASSUME ~\E g \in Gestures, mode \in Modes : Start(g, mode)
               PROVE  Moves
  OBVIOUS
<1> HIDE DEF Moves
<1>o. ASSUME NEW g \in Gestures,
             \/ CheckSlice(g) \/ TakeSlice(g) \/ CheckVisible(g)
             \/ TakeVisible(g) \/ End(g) \/ AskBinding(g)
      PROVE  Moves
  BY <1>o, <1>3
     DEF CheckSlice, TakeSlice, CheckVisible, TakeVisible, End, AskBinding
<1>4. CASE \E g \in Gestures : WorkerStep(g)
  BY <1>4, <1>1, <1>2, <1>o DEF WorkerStep
<1>5. CASE \E g \in Gestures :
             PageStep(g) \/ Escape(g) \/ ConfirmUpload(g) \/ RunLate(g)
  BY <1>5, <1>3
     DEF PageStep, Mount, NoBinding, Frame, Receive, NextSlice,
         ReceiveVisible, GiveUp, Upload, UploadEnds, Escape, ConfirmUpload,
         RunLate
<1>6. CASE \/ LeaveTab \/ ReturnToTab \/ Blur \/ Navigate \/ Relayout
           \/ UserScrolls \/ Expire
  BY <1>6, <1>3
     DEF LeaveTab, ReturnToTab, Blur, Navigate, Relayout, UserScrolls,
         Expire
<1>7. QED
  BY <1>s, <1>4, <1>5, <1>6 DEF Next, World, UserStep

\* Who has asked for nothing, and whose capture has not begun, still has.
LEMMA RequestsBegun ==
  ASSUME TypeOK, Control, NEW g \in Gestures, gesture[g].pc = "idle",
         request[g].pc = "none", Next, ~Restart, ~Reload
  PROVE  request'[g].pc = "none"
<1>t. request \in [Gestures -> RequestStates]
  BY DEF TypeOK
<1>c. capture[g].pc = "idle"
  BY DEF Control, CapturesStarted, Early
<1>1. CASE UNCHANGED request
  BY <1>1
<1>2. CASE \E h \in Gestures : WorkerStep(h)
  <2>1. PICK h \in Gestures : WorkerStep(h)
    BY <1>2
  <2>2. CASE \/ CheckSlice(h) \/ TakeSlice(h) \/ CheckVisible(h)
             \/ TakeVisible(h)
    <3>1. h # g
      BY <2>2 DEF CheckSlice, TakeSlice, CheckVisible, TakeVisible
    <3>2. request'[g] = request[g]
      BY <1>t, <2>2, <3>1
         DEF CheckSlice, TakeSlice, CheckVisible, TakeVisible, Replies
    <3>3. QED
      BY <3>2
  <2>3. CASE \/ StatusKnown(h) \/ Armed(h) \/ Started(h) \/ End(h)
             \/ AskBinding(h)
    BY <1>1, <2>3 DEF StatusKnown, Armed, Started, End, AskBinding
  <2>4. QED
    BY <2>1, <2>2, <2>3 DEF WorkerStep
<1>3. CASE \E h \in Gestures : PageStep(h)
  <2>1. PICK h \in Gestures : PageStep(h)
    BY <1>3
  <2>2. CASE Frame(h) \/ Receive(h) \/ NextSlice(h) \/ ReceiveVisible(h)
    <3>1. h # g
      BY <1>c, <2>2 DEF Frame, Receive, NextSlice, ReceiveVisible
    <3>2. request'[g] = request[g]
      BY <1>t, <2>2, <3>1 DEF Frame, Receive, NextSlice, ReceiveVisible
    <3>3. QED
      BY <3>2
  <2>3. CASE \/ Mount(h) \/ NoBinding(h) \/ GiveUp(h) \/ Upload(h)
             \/ UploadEnds(h)
    BY <1>1, <2>3 DEF Mount, NoBinding, GiveUp, Upload, UploadEnds
  <2>4. QED
    BY <2>1, <2>2, <2>3 DEF PageStep
<1>4. CASE \/ \E h \in Gestures : UserStep(h) \/ RunLate(h)
           \/ LeaveTab \/ ReturnToTab \/ Blur \/ Navigate \/ Relayout
           \/ UserScrolls \/ Expire
  BY <1>1, <1>4
     DEF UserStep, Start, Escape, ConfirmUpload, RunLate, LeaveTab,
         ReturnToTab, Blur, Navigate, Relayout, UserScrolls, Expire
<1>5. QED
  BY <1>2, <1>3, <1>4 DEF Next, World

\* Only the user moves away from the tab.
LEMMA SightMoves ==
  ASSUME TypeOK, Next, tab.active, ~tab.blurred, ~LeaveTab
  PROVE  tab'.active /\ ~tab'.blurred
<1>t. tab \in TabStates /\ overlay \in Gestures \cup {NoGesture}
  BY DEF TypeOK
<1>1. CASE \E g \in Gestures : WorkerStep(g)
  BY <1>1
     DEF WorkerStep, StatusKnown, Armed, Started, CheckSlice, TakeSlice,
         CheckVisible, TakeVisible, End, AskBinding
<1>r. \A g \in Gestures : \A shots, complete :
        Return(g, shots, complete) => tab'.active /\ ~tab'.blurred
  BY <1>t, ScrollKeepsSight DEF Return
<1>o. \A g \in Gestures : \A shots, bottom :
        GoOn(g, shots, bottom) => tab'.active /\ ~tab'.blurred
  BY <1>t, ScrollKeepsSight DEF GoOn
<1>2. CASE \E g \in Gestures : Receive(g) \/ NextSlice(g) \/ GiveUp(g)
  BY <1>2, <1>r, <1>o DEF Receive, NextSlice, GiveUp
<1>3. CASE \E g \in Gestures : Mount(g) \/ Frame(g)
  BY <1>3, <1>t, ScrollKeepsSight DEF Mount, Frame
<1>4. CASE \E g \in Gestures : \/ NoBinding(g) \/ ReceiveVisible(g)
                               \/ Upload(g) \/ UploadEnds(g)
                               \/ ConfirmUpload(g) \/ RunLate(g)
                               \/ \E mode \in Modes : Start(g, mode)
  BY <1>4 DEF NoBinding, ReceiveVisible, Upload, UploadEnds, ConfirmUpload,
              RunLate, Start
<1>5. CASE \E g \in Gestures : Escape(g)
  BY <1>5, <1>t, ScrollKeepsSight DEF Escape, Cancel
<1>6. CASE \/ ReturnToTab \/ Blur \/ Navigate \/ Relayout \/ UserScrolls
           \/ Reload \/ Expire \/ Restart
  BY <1>6, <1>t
     DEF ReturnToTab, Blur, Navigate, Relayout, UserScrolls, Reload, Expire,
         Restart, TabStates
<1>7. QED
  BY <1>1, <1>2, <1>3, <1>4, <1>5, <1>6
     DEF Next, PageStep, UserStep, World

LEMMA GenerationStays ==
  ASSUME TypeOK, Next, ~Restart,
         ~\E h \in Gestures, mode \in Modes : Start(h, mode)
  PROVE  worker'.generation = worker.generation
<1>t. worker \in WorkerStates
  BY DEF TypeOK
<1>f. \A g : Fail(g) => worker'.generation = worker.generation
  BY <1>t DEF Fail, Discard, WorkerStates
<1>d. \A g, arm : Discard(g, arm) => worker'.generation = worker.generation
  BY <1>t DEF Discard, WorkerStates
<1>1. ASSUME NEW g \in Gestures,
             \/ StatusKnown(g) \/ Armed(g) \/ Started(g) \/ End(g)
      PROVE  worker'.generation = worker.generation
  BY <1>t, <1>f, <1>d, <1>1
     DEF StatusKnown, Armed, Started, End, WorkerStates
<1>2. ASSUME NEW g \in Gestures,
             \/ CheckSlice(g) \/ TakeSlice(g) \/ CheckVisible(g)
             \/ TakeVisible(g) \/ AskBinding(g) \/ PageStep(g) \/ Escape(g)
             \/ ConfirmUpload(g) \/ RunLate(g)
      PROVE  UNCHANGED worker
  BY <1>2
     DEF CheckSlice, TakeSlice, CheckVisible, TakeVisible, AskBinding,
         PageStep, Mount, NoBinding, Frame, Receive, NextSlice,
         ReceiveVisible, GiveUp, Upload, UploadEnds, Escape, ConfirmUpload,
         RunLate
<1>3. CASE \/ LeaveTab \/ ReturnToTab \/ Blur \/ Navigate \/ Relayout
           \/ UserScrolls \/ Reload \/ Expire
  BY <1>3, <1>d
     DEF LeaveTab, ReturnToTab, Blur, Navigate, Relayout, UserScrolls,
         Reload, Expire
<1>4. QED
  BY <1>1, <1>2, <1>3 DEF Next, WorkerStep, UserStep, World

LEMMA PlaceStays ==
  ASSUME TypeOK, Next, ~Restart, ~Reload, NEW g \in Gestures,
         ~StatusKnown(g),
         ~\E h \in Gestures, mode \in Modes : Start(h, mode)
  PROVE  gesture'[g].y = gesture[g].y
<1>t. gesture \in [Gestures -> GestureStates]
  BY DEF TypeOK
<1>g. \A h, pc : Goes(h, pc) => gesture'[g].y = gesture[g].y
  BY <1>t DEF Goes, GestureStates
<1>1. ASSUME NEW h \in Gestures, StatusKnown(h)
      PROVE  gesture'[g] = gesture[g]
  BY <1>t, <1>1 DEF StatusKnown, Fail, Goes
<1>2. ASSUME NEW h \in Gestures, Armed(h) \/ Started(h)
      PROVE  gesture'[g].y = gesture[g].y
  BY <1>g, <1>2 DEF Armed, Started, Fail
<1>3. ASSUME NEW h \in Gestures,
             \/ CheckSlice(h) \/ TakeSlice(h) \/ CheckVisible(h)
             \/ TakeVisible(h) \/ End(h) \/ AskBinding(h) \/ PageStep(h)
             \/ Escape(h) \/ ConfirmUpload(h) \/ RunLate(h)
      PROVE  UNCHANGED gesture
  BY <1>3
     DEF CheckSlice, TakeSlice, CheckVisible, TakeVisible, End, AskBinding,
         PageStep, Mount, NoBinding, Frame, Receive, NextSlice,
         ReceiveVisible, GiveUp, Upload, UploadEnds, Escape, ConfirmUpload,
         RunLate
<1>4. CASE \/ LeaveTab \/ ReturnToTab \/ Blur \/ Navigate \/ Relayout
           \/ UserScrolls \/ Expire
  BY <1>4
     DEF LeaveTab, ReturnToTab, Blur, Navigate, Relayout, UserScrolls,
         Expire
<1>5. QED
  BY <1>1, <1>2, <1>3, <1>4 DEF Next, WorkerStep, UserStep, World

LEMMA SteadyKept ==
  ASSUME TypeOK, Control, Steady, Next, Calm'
  PROVE  Steady'
<1>1. ~LeaveTab /\ ~Restart /\ ~Reload
  BY CalmBefore, DisturbingAre DEF LeaveTab, Restart, Reload
<1>2. tab'.active /\ ~tab'.blurred
  BY <1>1, SightMoves DEF Steady
<1>3. ASSUME NEW g \in Gestures
      PROVE  gesture[g].pc = "idle" => request'[g].pc = "none"
  BY <1>1, <1>3, RequestsBegun DEF Steady, Begun
<1>4. CASE \A h \in Gestures :
             /\ gesture'[h].generation = gesture[h].generation
             /\ gesture'[h].pc = "idle" <=> gesture[h].pc = "idle"
             /\ \/ gesture'[h].pc # "asking"
                \/ gesture'[h] = gesture[h]
  <2>1. \A g, h \in Gestures :
          /\ gesture'[g].pc # "idle" /\ gesture'[h].pc # "idle"
          /\ gesture'[g].generation = gesture'[h].generation
          => g = h
    BY <1>4 DEF Steady, Begun
  <2>2. ASSUME NEW g \in Gestures
        PROVE  /\ gesture'[g].pc = "asking" => gesture'[g].y = 0
               /\ gesture'[g].pc = "idle" => request'[g].pc = "none"
    BY <1>3, <1>4 DEF Steady, Begun
  <2>3. QED
    BY <1>2, <2>1, <2>2 DEF Steady, Begun
<1>5. ASSUME NEW k \in Gestures, NEW mode \in Modes, Start(k, mode)
      PROVE  Steady'
  <2>1. /\ gesture'[k] = [pc |-> "asking", mode |-> mode,
                          generation |-> worker.generation + 1,
                          page |-> tab.page, y |-> 0]
        /\ \A h \in Gestures \ {k} : gesture'[h] = gesture[h]
    BY <1>5 DEF Start, TypeOK
  <2>2. /\ gesture'[k].generation = worker.generation + 1
        /\ gesture'[k].pc = "asking" /\ gesture'[k].y = 0
    BY <2>1
  <2>3. ASSUME NEW h \in Gestures \ {k}
        PROVE  gesture'[h].generation # gesture'[k].generation
    <3>1. /\ gesture[h].generation <= worker.generation
          /\ gesture[h].generation \in Nat /\ worker.generation \in Nat
      BY DEF Control, GenerationsPassed, TypeOK, GestureStates, WorkerStates
    <3>2. QED
      BY <2>1, <2>2, <3>1
  <2>4. \A g, h \in Gestures :
          /\ gesture'[g].pc # "idle" /\ gesture'[h].pc # "idle"
          /\ gesture'[g].generation = gesture'[h].generation
          => g = h
    BY <2>1, <2>3 DEF Steady, Begun
  <2>5. ASSUME NEW g \in Gestures
        PROVE  /\ gesture'[g].pc = "asking" => gesture'[g].y = 0
               /\ gesture'[g].pc = "idle" => request'[g].pc = "none"
    BY <1>3, <2>1, <2>2 DEF Steady, Begun
  <2>6. QED
    BY <1>2, <2>4, <2>5 DEF Steady, Begun
<1>6. QED
  BY <1>1, <1>4, <1>5, GesturesMove

\* Who is the newest after a step that is not its start was it before.
LEMMA NewestBefore ==
  ASSUME TypeOK, Control, Steady, Next, Calm', NEW g \in Gestures,
         Newest(g)',
         ~\E h \in Gestures, mode \in Modes : Start(h, mode)
  PROVE  Newest(g)
<1>1. ~Restart /\ ~Reload
  BY CalmBefore, DisturbingAre DEF Restart, Reload
<1>2. /\ gesture'[g].generation = gesture[g].generation
      /\ gesture'[g].mode = gesture[g].mode
      /\ gesture'[g].pc = "idle" <=> gesture[g].pc = "idle"
  BY <1>1, GesturesMove
<1>3. worker'.generation = worker.generation
  BY <1>1, GenerationStays
<1>4. gesture[g].y = 0
  <2>1. CASE StatusKnown(g)
    BY <2>1 DEF StatusKnown, Steady
  <2>2. CASE ~StatusKnown(g)
    BY <1>1, <2>2, PlaceStays DEF Newest
  <2>3. QED
    BY <2>1, <2>2
<1>5. QED
  BY <1>2, <1>3, <1>4 DEF Newest, Begun, Current

LEMMA NewestKept ==
  ASSUME TypeOK, Control, NewestInv, [Next]_vars
  PROVE  NewestInv'
<1>1. CASE UNCHANGED vars
  BY <1>1
     DEF vars, NewestInv, Calm, Unmet, Steady, Begun, Newest, Current,
         InTime, Asks, Opens, Begins, Shows, Permitted
<1>2. SUFFICES ASSUME Next, Calm'
               PROVE  Steady'
                      /\ \A g \in Gestures : Newest(g)' => InTime(g)'
  BY <1>1 DEF NewestInv
<1>3. Calm /\ Steady /\ Steady'
  BY <1>2, CalmBefore, SteadyKept DEF NewestInv
<1>4. ASSUME NEW g \in Gestures, Newest(g)'
      PROVE  InTime(g)'
  <2>1. CASE \E h \in Gestures, mode \in Modes : Start(h, mode)
    BY <1>3, <1>4, <2>1, NewStartInTime
  <2>2. CASE ~\E h \in Gestures, mode \in Modes : Start(h, mode)
    <3>1. Newest(g) /\ InTime(g)
      BY <1>2, <1>3, <1>4, <2>2, NewestBefore DEF NewestInv
    <3>2. CASE World
      <4>1. Relayout \/ UserScrolls
        BY <1>2, <1>3, <3>2, CalmWorld
      <4>2. LeavesAlone(g)
        BY <4>1 DEF Relayout, UserScrolls, LeavesAlone, TypeOK, TabStates
      <4>3. QED
        BY <3>1, <4>2, AloneInTime
    <3>3. ASSUME NEW h \in Gestures,
                 WorkerStep(h) \/ PageStep(h) \/ UserStep(h)
          PROVE  InTime(g)'
      <4>1. ~Escape(h)
        BY <1>2, CalmBefore, DisturbingAre DEF Escape
      <4>2. WorkerStep(h) \/ PageStep(h) \/ ConfirmUpload(h)
        BY <2>2, <3>3, <4>1 DEF UserStep
      <4>3. CASE h = g
        BY <1>2, <1>3, <3>1, <4>2, <4>3, StartInTime, HandlerInTime,
           PageInTime
           DEF WorkerStep
      <4>4. CASE h # g
        <5>1. CASE PageStep(h) \/ ConfirmUpload(h)
          BY <1>2, <1>3, <3>1, <4>4, <5>1, PageLeavesAlone, AloneInTime
        <5>2. CASE StatusKnown(h) \/ Armed(h) \/ Started(h)
          BY <1>3, <3>1, <4>4, <5>2, StartLeavesAlone, AloneInTime
        <5>3. CASE \/ CheckSlice(h) \/ TakeSlice(h) \/ CheckVisible(h)
                   \/ TakeVisible(h) \/ End(h) \/ AskBinding(h)
          <6>1. \/ request[h].pc # "none" \/ h \in ends
                \/ capture[h].pc # "idle"
            BY <5>3
               DEF CheckSlice, TakeSlice, CheckVisible, TakeVisible, End,
                   AskBinding
          <6>2. Begun(h)
            BY <1>3, <6>1, BegunBefore DEF Steady
          <6>3. QED
            BY <1>3, <3>1, <4>4, <5>3, <6>2, HandlerLeavesAlone,
               AloneInTime
        <5>4. QED
          BY <4>2, <5>1, <5>2, <5>3 DEF WorkerStep
      <4>5. QED
        BY <4>3, <4>4
    <3>4. QED
      BY <1>2, <3>2, <3>3 DEF Next
  <2>3. QED
    BY <2>1, <2>2
<1>5. QED
  BY <1>3, <1>4

\* The newest gesture for a full page that stands at its top gets its
\* capture, whatever the older ones left under way and however the page grows
\* and shrinks, unless something happened to the tab or the browser.
THEOREM NewestAlwaysSucceeds == Spec => []NewestSucceeds
<1>1. Inv /\ NewestInv /\ [Next]_vars => NewestInv'
  BY NewestKept DEF Inv
<1>2. Spec => []NewestInv
  BY NewestInit, <1>1, Invariance, PTL DEF Spec
<1>3. Inv /\ NewestInv => NewestSucceeds
  BY InTimeSucceeds
<1>4. QED
  BY <1>2, <1>3, Invariance, PTL

---------------------------------------------------------------------------
(* What is called complete is the whole page.                              *)

\* How far down the next picture may begin so that no row is missed.
Reach(shots) ==
  IF shots = <<>> THEN 0 ELSE shots[Len(shots)].y + Screen

\* The pictures show the page without a gap, from its top.
Linked(shots, page) ==
  /\ shots # <<>> => shots[1].y = 0
  /\ \A i \in 1..Len(shots) : shots[i].page = page
  /\ \A i \in 1..(Len(shots) - 1) : shots[i + 1].y <= shots[i].y + Screen

\* While gesture g's driver works, the page stands where the next picture
\* leaves no gap, or above; once that picture is there, the page stands
\* where it was taken, or above. A bottom that was seen is the last picture.
Chained(g) ==
  /\ capture[g].pc = "frame" =>
       capture[g].shots = <<>> /\ capture[g].bottom = NoBottom
  /\ capture[g].pc \in {"frame"} \cup Driving => capture[g].page <= tab.page
  /\ capture[g].pc \in Driving =>
       /\ Linked(capture[g].shots, capture[g].page)
       /\ capture[g].bottom.height # 0 =>
            /\ capture[g].shots # <<>>
            /\ capture[g].shots[Len(capture[g].shots)]
                 = capture[g].bottom.picture
       /\ ~(capture[g].pc = "slicing" /\ request[g].pc = "answered") =>
            tab.y <= Reach(capture[g].shots)
  /\ capture[g].pc = "slicing" /\ request[g].pc = "answered" =>
       /\ request[g].picture.y <= Reach(capture[g].shots)
       /\ tab.y <= request[g].picture.y
       /\ capture[g].page <= request[g].picture.page
       /\ request[g].picture.page <= tab.page

ChainInv ==
  Unmet({"scroll"}) =>
    \A g \in Gestures : gesture[g].mode = "full" => Chained(g)

LEMMA ChainInit == Init => ChainInv
BY DEF Init, ChainInv, Chained, IdleCapture, Driving

LEMMA LinkedAppend ==
  ASSUME NEW shots \in Seq(Pictures), NEW page, NEW picture \in Pictures,
         Linked(shots, page), picture.page = page,
         picture.y <= Reach(shots)
  PROVE  LET more == Append(shots, picture)
         IN  /\ Linked(more, page) /\ more # <<>>
             /\ more[Len(more)] = picture /\ Reach(more) = picture.y + Screen
<1> DEFINE more == Append(shots, picture)
<1>1. /\ Len(more) = Len(shots) + 1 /\ more[Len(more)] = picture
      /\ \A i \in 1..Len(shots) : more[i] = shots[i]
      /\ more # <<>> /\ Len(shots) \in Nat
  OBVIOUS
<1>y. picture.y \in Nat
  BY DEF Pictures
<1> HIDE DEF more
<1>2. more[1].y = 0
  <2>1. CASE shots = <<>>
    BY <1>1, <1>y, <2>1 DEF Reach
  <2>2. CASE shots # <<>>
    BY <1>1, <2>2 DEF Linked
  <2>3. QED
    BY <2>1, <2>2
<1>3. \A i \in 1..Len(more) : more[i].page = page
  BY <1>1 DEF Linked
<1>4. ASSUME NEW i \in 1..(Len(more) - 1)
      PROVE  more[i + 1].y <= more[i].y + Screen
  <2>1. CASE i = Len(shots)
    BY <1>1, <1>4, <2>1 DEF Reach
  <2>2. CASE i # Len(shots)
    <3>1. /\ i \in 1..(Len(shots) - 1)
          /\ i \in 1..Len(shots) /\ i + 1 \in 1..Len(shots)
      BY <1>1, <1>4, <2>2
    <3>2. QED
      BY <1>1, <3>1 DEF Linked
  <2>3. QED
    BY <2>1, <2>2
<1>5. Linked(more, page) /\ Reach(more) = picture.y + Screen
  BY <1>1, <1>2, <1>3, <1>4 DEF Linked, Reach
<1>6. QED
  BY <1>1, <1>5 DEF more

\* A capture whose driver does not work has no pictures to link.
LEMMA Undriven ==
  ASSUME NEW g \in Gestures, capture'[g].pc \notin {"frame"} \cup Driving
  PROVE  Chained(g)'
BY DEF Chained, Driving

\* The page stands where it stood, or above, and there is no new answer.
LEMMA ChainKept ==
  ASSUME TypeOK, TypeOK', NEW g \in Gestures, Chained(g),
         capture'[g].pc = capture[g].pc, capture'[g].page = capture[g].page,
         capture'[g].shots = capture[g].shots,
         capture'[g].bottom = capture[g].bottom,
         request'[g] = request[g] \/ request'[g].pc # "answered",
         tab'.page >= tab.page,
         capture[g].pc \in Driving => tab'.y <= tab.y
  PROVE  Chained(g)'
<1>t. /\ tab.y \in Nat /\ tab'.y \in Nat /\ tab.page \in Nat
      /\ tab'.page \in Nat
  BY DEF TypeOK, TabStates
<1>s. /\ capture[g].page \in Nat /\ capture[g].shots \in Seq(Pictures)
      /\ request[g].picture \in Pictures
  BY CaptureParts DEF TypeOK, RequestStates
<1>r. Reach(capture[g].shots) \in Nat
  <2>1. CASE capture[g].shots # <<>>
    <3>1. capture[g].shots[Len(capture[g].shots)] \in Pictures
      BY <1>s, <2>1
    <3>2. QED
      BY <2>1, <3>1 DEF Reach, Pictures
  <2>2. QED
    BY <2>1 DEF Reach
<1>p. request[g].picture.y \in Nat /\ request[g].picture.page \in Nat
  BY <1>s DEF Pictures
<1>1. capture[g].pc \in {"frame"} \cup Driving => capture[g].page <= tab'.page
  BY <1>t, <1>s DEF Chained
<1>2. ASSUME capture[g].pc = "slicing", request'[g].pc = "answered"
      PROVE  /\ request'[g] = request[g]
             /\ tab'.y <= request[g].picture.y
             /\ request[g].picture.page <= tab'.page
  BY <1>t, <1>p, <1>2 DEF Chained, Driving
<1>3. ASSUME capture[g].pc \in Driving,
             ~(capture[g].pc = "slicing" /\ request'[g].pc = "answered")
      PROVE  tab'.y <= Reach(capture[g].shots)
  BY <1>t, <1>r, <1>p, <1>3 DEF Chained
<1>4. QED
  BY <1>1, <1>2, <1>3 DEF Chained

\* The steps of the service worker.
LEMMA HandlerKeepsChain ==
  ASSUME TypeOK, TypeOK', NEW g \in Gestures, Chained(g),
         gesture[g].mode = "full", NEW h \in Gestures, WorkerStep(h)
  PROVE  Chained(g)'
<1>t. /\ capture \in [Gestures -> CaptureStates]
      /\ request \in [Gestures -> RequestStates] /\ tab \in TabStates
  BY DEF TypeOK
<1>y. tab.y \in Nat /\ tab.page \in Nat
  BY <1>t DEF TabStates
<1>1. UNCHANGED tab
  BY DEF WorkerStep, StatusKnown, Armed, Started, CheckSlice, TakeSlice,
         CheckVisible, TakeVisible, End, AskBinding
<1>k. ASSUME capture'[g] = capture[g],
             request'[g] = request[g] \/ request'[g].pc # "answered"
      PROVE  Chained(g)'
  BY <1>1, <1>y, <1>k, ChainKept
<1>2. CASE h # g
  <2>1. capture'[g] = capture[g] /\ request'[g] = request[g]
    <3>1. CASE StatusKnown(h) \/ Armed(h) \/ Started(h)
      BY <1>t, <1>2, <3>1 DEF StatusKnown, Armed, Started
    <3>2. CASE \/ CheckSlice(h) \/ TakeSlice(h) \/ CheckVisible(h)
               \/ TakeVisible(h) \/ End(h) \/ AskBinding(h)
      BY <1>t, <1>2, <3>2
         DEF CheckSlice, TakeSlice, CheckVisible, TakeVisible, End,
             AskBinding, Replies
    <3>3. QED
      BY <3>1, <3>2 DEF WorkerStep
  <2>2. QED
    BY <1>k, <2>1
<1>3. CASE StatusKnown(g) \/ Started(g)
  BY <1>k, <1>3 DEF StatusKnown, Started
<1>pc. ASSUME NEW pc, pc \notin {"frame"} \cup Driving,
              capture' = [capture EXCEPT ![g].pc = pc]
       PROVE  Chained(g)'
  BY <1>t, <1>pc, OnePc, Undriven
<1>4. CASE Armed(g) \/ AskBinding(g)
  BY <1>k, <1>pc, <1>4 DEF Armed, AskBinding, Driving
<1>5. CASE End(g)
  <2>1. CASE capture[g].pc # "ending"
    BY <1>t, <1>k, <1>5, <2>1 DEF End, CaptureStates
  <2>2. CASE capture[g].pc = "ending"
    <3>1. \E pc \in {"failed", "preview"} :
            capture' = [capture EXCEPT ![g].pc = pc]
      BY <1>5, <2>2 DEF End
    <3>2. QED
      BY <3>1, <1>pc DEF Driving
  <2>3. QED
    BY <2>1, <2>2
<1>r. ASSUME Replies(g, Refused), UNCHANGED capture
      PROVE  Chained(g)'
  <2>1. request'[g].pc # "answered"
    BY <1>t, <1>r DEF Replies, Refused, NoRequest
  <2>2. QED
    BY <1>k, <1>r, <2>1
<1>6. CASE CheckSlice(g)
  <2>1. UNCHANGED capture
        /\ \/ request' = [request EXCEPT ![g].pc = "taking"]
           \/ Replies(g, Refused)
    BY <1>6 DEF CheckSlice
  <2>2. CASE request' = [request EXCEPT ![g].pc = "taking"]
    <3>1. request'[g].pc = "taking"
      BY <1>t, <2>2 DEF RequestStates
    <3>2. QED
      BY <1>k, <2>1, <3>1
  <2>3. QED
    BY <1>r, <2>1, <2>2
<1>7. CASE TakeSlice(g)
  <2>1. UNCHANGED capture /\ request[g].pc = "taking"
        /\ \/ Replies(g, Answered(g))
           \/ Replies(g, Refused)
    BY <1>7 DEF TakeSlice
  <2>2. CASE Replies(g, Answered(g)) /\ capture[g].pc = "slicing"
    <3>1. request'[g] = Answered(g)
      BY <1>t, <2>2 DEF Replies
    <3>2. request'[g].picture.y = tab.y /\ request'[g].picture.page = tab.page
          /\ request'[g].pc = "answered"
      BY <3>1 DEF Answered, NoRequest
    <3>3. tab.y <= Reach(capture[g].shots) /\ capture[g].page <= tab.page
      BY <2>1, <2>2 DEF Chained, Driving
    <3>4. QED
      BY <1>1, <1>y, <2>1, <2>2, <3>2, <3>3 DEF Chained, Driving
  <2>3. CASE Replies(g, Answered(g)) /\ capture[g].pc # "slicing"
    <3>1. request'[g].pc # "answered"
      BY <1>t, <2>3 DEF Replies, NoRequest
    <3>2. QED
      BY <1>k, <2>1, <3>1
  <2>4. QED
    BY <1>r, <2>1, <2>2, <2>3
<1>8. QED
  BY <1>2, <1>3, <1>4, <1>5, <1>6, <1>7
     DEF WorkerStep, CheckVisible, TakeVisible

\* The driver's own steps.
LEMMA DriverKeepsChain ==
  ASSUME TypeOK, NEW g \in Gestures, Chained(g), gesture[g].mode = "full",
         Frame(g) \/ Receive(g) \/ NextSlice(g) \/ GiveUp(g)
  PROVE  Chained(g)'
<1>t. /\ capture \in [Gestures -> CaptureStates]
      /\ request \in [Gestures -> RequestStates] /\ tab \in TabStates
  BY DEF TypeOK
<1>y. tab.y \in Nat /\ tab.page \in Nat /\ tab.height \in Nat
  BY <1>t DEF TabStates
<1>c. /\ capture[g].page \in Nat /\ capture[g].shots \in Seq(Pictures)
      /\ request[g].picture \in Pictures
  BY <1>t, CaptureParts DEF RequestStates
<1>r. ASSUME NEW shots, NEW complete, Return(g, shots, complete)
      PROVE  Chained(g)'
  BY <1>t, <1>r, OneReturn, Undriven DEF Driving
<1>1. CASE Frame(g)
  <2>1. CASE capture' = [capture EXCEPT ![g].pc = "threw"]
    BY <1>t, <2>1, OnePc, Undriven DEF Driving
  <2>2. CASE /\ capture' = [capture EXCEPT ![g].pc = "slicing",
                                           ![g].from = tab.y]
             /\ request' = [request EXCEPT ![g] = Asked(g, 0, Top(g).y)]
             /\ tab' = Top(g)
    <3>1. /\ capture[g].pc = "frame" /\ capture[g].shots = <<>>
          /\ capture[g].bottom = NoBottom /\ capture[g].page <= tab.page
      BY <1>1 DEF Frame, Chained
    <3>2. capture'[g] = [capture[g] EXCEPT !.pc = "slicing", !.from = tab.y]
      BY <1>t, <2>2
    <3>3. /\ capture'[g].pc = "slicing"
          /\ capture'[g].shots = capture[g].shots
          /\ capture'[g].page = capture[g].page
          /\ capture'[g].bottom = capture[g].bottom
      BY <1>t, <3>2 DEF CaptureStates
    <3>4. request'[g].pc = "asked"
      BY <1>t, <2>2 DEF Asked
    <3>5. tab'.y = 0 /\ tab'.page = tab.page
      BY <1>t, <2>2 DEF Top, ScrollTo, Least, Bottom, TabStates
    <3>6. Linked(<<>>, capture[g].page) /\ Reach(<<>>) = 0
      BY DEF Linked, Reach
    <3>7. NoBottom.height = 0
      BY DEF NoBottom
    <3>8. QED
      BY <3>1, <3>3, <3>4, <3>5, <3>6, <3>7 DEF Chained, Driving
  <2>3. QED
    BY <1>1, <2>1, <2>2 DEF Frame
<1>2. CASE Receive(g)
  <2> DEFINE picture == request[g].picture
             more == Append(capture[g].shots, picture)
             seen == [height |-> tab.height, picture |-> picture]
  <2>1. \/ \E shots, complete : Return(g, shots, complete)
        \/ /\ request[g].pc = "answered" /\ tab.page = capture[g].page
           /\ GoOn(g, more, seen) \/ GoOn(g, more, NoBottom)
    BY <1>2, Zenon DEF Receive
  <2>2. ASSUME NEW bottom \in {seen, NoBottom}, GoOn(g, more, bottom),
               request[g].pc = "answered", tab.page = capture[g].page
        PROVE  Chained(g)'
    <3>1. /\ picture.y <= Reach(capture[g].shots) /\ tab.y <= picture.y
          /\ capture[g].page <= picture.page /\ picture.page <= tab.page
          /\ Linked(capture[g].shots, capture[g].page)
      BY <1>2, <2>2 DEF Receive, Chained, Driving
    <3>2. picture.page \in Nat /\ picture.y \in Nat
      BY <1>c DEF Pictures
    <3>3. picture.page = capture[g].page
      BY <1>y, <2>2, <3>1, <3>2
    <3>4. /\ Linked(more, capture[g].page) /\ more # <<>>
          /\ more[Len(more)] = picture /\ Reach(more) = picture.y + Screen
      BY <1>c, <3>1, <3>3, LinkedAppend
    <3>5. bottom.height # 0 => bottom.picture = picture
      BY <2>2 DEF NoBottom
    <3> HIDE DEF picture, more, seen
    <3>6. capture'[g] = [capture[g] EXCEPT !.pc = "waiting", !.shots = more,
                                           !.bottom = bottom]
          /\ tab' = ScrollTo(tab.y + Screen)
      BY <1>t, <2>2 DEF GoOn
    <3>7. /\ capture'[g].pc = "waiting" /\ capture'[g].shots = more
          /\ capture'[g].page = capture[g].page
          /\ capture'[g].bottom = bottom
      BY <1>t, <3>6 DEF CaptureStates
    <3>8. tab'.y <= tab.y + Screen /\ tab'.page = tab.page /\ tab'.y \in Int
      BY <1>t, <3>6 DEF ScrollTo, Least, Bottom, TabStates
    <3>9. tab'.y <= Reach(more)
      BY <1>y, <3>1, <3>2, <3>4, <3>8
    <3>10. capture[g].page <= tab'.page
      BY <1>y, <2>2, <3>8
    <3>11. QED
      BY <3>4, <3>5, <3>7, <3>9, <3>10 DEF Chained, Driving
  <2>3. QED
    BY <2>1, <2>2, <1>r
<1>3. CASE NextSlice(g)
  <2>1. \/ \E shots, complete : Return(g, shots, complete)
        \/ /\ capture' = [capture EXCEPT ![g].pc = "slicing"]
           /\ capture[g].pc = "waiting" /\ UNCHANGED tab
           /\ \E n, y : request' = [request EXCEPT ![g] = Asked(g, n, y)]
    BY <1>3, Zenon DEF NextSlice
  <2>2. CASE /\ capture' = [capture EXCEPT ![g].pc = "slicing"]
             /\ capture[g].pc = "waiting" /\ UNCHANGED tab
             /\ \E n, y : request' = [request EXCEPT ![g] = Asked(g, n, y)]
    <3>1. capture'[g] = [capture[g] EXCEPT !.pc = "slicing"]
      BY <1>t, <2>2
    <3>2. /\ capture'[g].pc = "slicing"
          /\ capture'[g].shots = capture[g].shots
          /\ capture'[g].page = capture[g].page
          /\ capture'[g].bottom = capture[g].bottom
      BY <1>t, <3>1 DEF CaptureStates
    <3>3. request'[g].pc = "asked"
      BY <1>t, <2>2 DEF Asked
    <3>4. QED
      BY <2>2, <3>2, <3>3 DEF Chained, Driving
  <2>3. QED
    BY <2>1, <2>2, <1>r
<1>4. CASE GiveUp(g)
  BY <1>4, <1>r DEF GiveUp
<1>5. QED
  BY <1>1, <1>2, <1>3, <1>4

\* The other steps of the content script; only the overlay's driver works.
LEMMA PageKeepsChain ==
  ASSUME TypeOK, TypeOK', OwnInv, NEW g \in Gestures, Chained(g),
         gesture[g].mode = "full", NEW h \in Gestures,
         PageStep(h) \/ ConfirmUpload(h) \/ RunLate(h)
  PROVE  Chained(g)'
<1>t. /\ capture \in [Gestures -> CaptureStates]
      /\ request \in [Gestures -> RequestStates] /\ tab \in TabStates
      /\ overlay \in Gestures \cup {NoGesture}
  BY DEF TypeOK
<1>y. tab.y \in Nat /\ tab.page \in Nat
  BY <1>t DEF TabStates
<1>o. /\ capture[g].pc \in {"frame"} \cup Driving => overlay = g
      /\ capture[h].pc \in {"frame"} \cup Driving => overlay = h
  BY DEF OwnInv, OwnSight, OnScreen
<1>1. CASE Mount(h)
  <2> DEFINE mounted == [IdleCapture EXCEPT !.pc = "frame",
                                            !.page = tab.page]
  <2>m. /\ mounted.pc = "frame" /\ mounted.page = tab.page
        /\ mounted.shots = <<>> /\ mounted.bottom = NoBottom
        /\ Gone.pc = "gone"
    BY DEF IdleCapture, Gone
  <2>1. /\ capture'[h] = mounted
        /\ \A k \in Gestures \ {h} :
             capture'[k] = IF k = overlay THEN Gone ELSE capture[k]
    BY <1>t, <1>1 DEF Mount
  <2>2. tab'.page = tab.page
    BY <1>1, <1>t, ScrollKeepsSight DEF Mount
  <2> HIDE DEF mounted
  <2>3. CASE h = g
    BY <1>y, <2>m, <2>1, <2>2, <2>3 DEF Chained, Driving
  <2>4. CASE h # g
    <3>1. capture'[g].pc \notin {"frame"} \cup Driving
      BY <1>o, <2>m, <2>1, <2>4 DEF Driving
    <3>2. QED
      BY <3>1, Undriven
  <2>5. QED
    BY <2>3, <2>4
<1>2. CASE Frame(h) \/ Receive(h) \/ NextSlice(h) \/ GiveUp(h)
  <2>1. CASE h = g
    BY <1>2, <2>1, DriverKeepsChain
  <2>2. CASE h # g
    <3>1. capture[h].pc \in {"frame"} \cup Driving
      BY <1>2 DEF Frame, Receive, NextSlice, GiveUp, Driving
    <3>2. capture[g].pc \notin {"frame"} \cup Driving
      BY <1>o, <2>2, <3>1
    <3>3. capture'[g] = capture[g]
      BY <1>t, <1>2, <2>2
         DEF Frame, Receive, NextSlice, GiveUp, Return, GoOn
    <3>4. QED
      BY <3>2, <3>3, Undriven
  <2>3. QED
    BY <2>1, <2>2
<1>3. CASE \/ NoBinding(h) \/ ReceiveVisible(h) \/ Upload(h)
           \/ UploadEnds(h) \/ ConfirmUpload(h)
  <2>1. UNCHANGED tab
        /\ (request'[g] = request[g] \/ request'[g].pc # "answered")
    BY <1>t, <1>3
       DEF NoBinding, ReceiveVisible, Upload, UploadEnds, ConfirmUpload,
           NoRequest
  <2>2. CASE h = g
    <3>1. \E pc \in {"threw", "uploading", "completed", "failed",
                     "redacting"} :
            capture' = [capture EXCEPT ![g].pc = pc]
      BY <1>3, <2>2
         DEF NoBinding, ReceiveVisible, Upload, UploadEnds, ConfirmUpload
    <3>2. QED
      BY <1>t, <3>1, OnePc, Undriven DEF Driving
  <2>3. CASE h # g
    <3>1. capture'[g] = capture[g]
      BY <1>t, <1>3, <2>3
         DEF NoBinding, ReceiveVisible, Upload, UploadEnds, ConfirmUpload
    <3>2. QED
      BY <1>y, <2>1, <3>1, ChainKept
  <2>4. QED
    BY <2>2, <2>3
<1>4. CASE RunLate(h)
  <2>1. /\ UNCHANGED <<request, tab>>
        /\ capture' = [capture EXCEPT ![h].late = TRUE]
    BY <1>4 DEF RunLate
  <2>2. /\ capture'[g].pc = capture[g].pc
        /\ capture'[g].page = capture[g].page
        /\ capture'[g].shots = capture[g].shots
        /\ capture'[g].bottom = capture[g].bottom
    BY <1>t, <2>1 DEF CaptureStates
  <2>3. QED
    BY <1>y, <2>1, <2>2, ChainKept
<1>5. QED
  BY <1>1, <1>2, <1>3, <1>4 DEF PageStep

\* Whatever cancels the overlay stops its driver.
LEMMA CancelKeepsChain ==
  ASSUME OwnInv, NEW g \in Gestures,
         \/ capture'[g].pc \notin {"frame"} \cup Driving
         \/ capture'[g] = capture[g] /\ overlay # g
  PROVE  Chained(g)'
<1>1. capture'[g].pc \notin {"frame"} \cup Driving
  BY DEF OwnInv, OwnSight, OnScreen
<1>2. QED
  BY <1>1, Undriven

LEMMA WorldKeepsChain ==
  ASSUME TypeOK, TypeOK', OwnInv, NEW g \in Gestures, Chained(g),
         Unmet({"scroll"})',
         \/ World /\ ~\E h \in Gestures : RunLate(h)
         \/ \E h \in Gestures : Escape(h)
  PROVE  Chained(g)'
<1>t. /\ capture \in [Gestures -> CaptureStates]
      /\ request \in [Gestures -> RequestStates] /\ tab \in TabStates
      /\ overlay \in Gestures \cup {NoGesture}
      /\ met \in [Hazards -> Nat]
  BY DEF TypeOK
<1>y. tab.y \in Nat /\ tab.page \in Nat
  BY <1>t DEF TabStates
<1>g. Gone.pc = "gone" /\ IdleCapture.pc = "idle"
  BY DEF Gone, IdleCapture
<1>1. CASE LeaveTab \/ ReturnToTab \/ Navigate \/ Relayout \/ Expire
  <2>1. UNCHANGED <<capture, request>>
    BY <1>1 DEF LeaveTab, ReturnToTab, Navigate, Relayout, Expire
  <2>2. CASE Relayout
    <3>1. PICK height \in Screen..MaxHeight :
            tab' = [tab EXCEPT !.height = height,
                               !.y = Least(@, Bottom(height))]
      BY <2>2 DEF Relayout
    <3>2. Least(tab.y, Bottom(height)) <= tab.y
      BY <1>y DEF Least, Bottom
    <3>3. tab'.page = tab.page /\ tab'.y = Least(tab.y, Bottom(height))
      BY <1>t, <3>1 DEF TabStates
    <3>4. tab'.page >= tab.page /\ tab'.y <= tab.y
      BY <1>y, <3>2, <3>3
    <3>5. QED
      BY <2>1, <3>4, ChainKept
  <2>3. CASE ~Relayout
    <3>1. tab'.y = tab.y /\ tab'.page \in {tab.page, tab.page + 1}
      BY <1>1, <1>t, <2>3
         DEF LeaveTab, ReturnToTab, Navigate, Expire, TabStates
    <3>2. QED
      BY <1>y, <2>1, <3>1, ChainKept
  <2>4. QED
    BY <2>2, <2>3
<1>2. CASE UserScrolls
  <2>1. UNCHANGED <<capture, request>> /\ tab'.page = tab.page
    BY <1>2, <1>t DEF UserScrolls, TabStates
  <2>2. ~Meet("scroll")
    BY <1>t DEF Meet, Unmet, Hazards
  <2>3. capture[g].pc \notin Driving
    BY <1>2, <2>2 DEF UserScrolls
  <2>4. QED
    BY <1>y, <2>1, <2>3, ChainKept
<1>3. CASE Blur \/ \E h \in Gestures : Escape(h)
  <2>1. capture' = [k \in Gestures |->
                      IF k = overlay THEN Gone ELSE capture[k]]
    BY <1>3, <1>t DEF Blur, BlurCancels, Escape, UserSees, Cancel
  <2>2. QED
    BY <1>g, <2>1, CancelKeepsChain DEF Driving
<1>4. CASE Reload
  <2>1. capture'[g].pc \in {"idle", "gone"}
    BY <1>4, <1>g DEF Reload
  <2>2. QED
    BY <2>1, Undriven DEF Driving
<1>5. CASE Restart
  <2> DEFINE pc == CASE capture[g].pc = "binding" -> "threw"
                     [] capture[g].pc = "uploading" -> "failed"
                     [] OTHER -> capture[g].pc
  <2>1. capture'[g] = [capture[g] EXCEPT !.pc = pc] /\ UNCHANGED tab
    BY <1>5 DEF Restart
  <2>2. pc \in {"threw", "failed", capture[g].pc}
    OBVIOUS
  <2> HIDE DEF pc
  <2>3. /\ capture'[g].pc = pc /\ capture'[g].page = capture[g].page
        /\ capture'[g].shots = capture[g].shots
        /\ capture'[g].bottom = capture[g].bottom
    BY <1>t, <2>1 DEF CaptureStates
  <2>4. request'[g] = request[g] \/ request'[g].pc # "answered"
    BY <1>5 DEF Restart, Refused, NoRequest
  <2>5. CASE pc \in {"threw", "failed"}
    BY <2>3, <2>5, Undriven DEF Driving
  <2>6. CASE pc = capture[g].pc
    <3>1. tab'.page >= tab.page /\ tab'.y <= tab.y
      BY <1>y, <2>1
    <3>2. capture'[g].pc = capture[g].pc
      BY <2>3, <2>6
    <3>3. QED
      BY <2>3, <2>4, <3>1, <3>2, ChainKept
  <2>7. QED
    BY <2>2, <2>5, <2>6
<1>6. QED
  BY <1>1, <1>2, <1>3, <1>4, <1>5 DEF World

\* A gesture's mode is chosen when it starts.
LEMMA ModeStays ==
  ASSUME TypeOK, Next, NEW g \in Gestures,
         ~\E mode \in Modes : Start(g, mode)
  PROVE  gesture'[g].mode = gesture[g].mode
<1>t. gesture \in [Gestures -> GestureStates]
  BY DEF TypeOK
<1>0. gesture[g] \in GestureStates
  BY <1>t
<1>1. CASE Reload
  <2>1. gesture'[g] \in {gesture[g], [gesture[g] EXCEPT !.pc = "failed"]}
    BY <1>1 DEF Reload
  <2>2. QED
    BY <1>0, <2>1 DEF GestureStates
<1>r. CASE Restart
  <2>1. gesture'[g] = [gesture[g] EXCEPT !.generation = 0,
                         !.pc = IF @ \in Starting THEN "failed" ELSE @]
    BY <1>r DEF Restart
  <2>2. QED
    BY <1>0, <2>1 DEF GestureStates
<1>2. CASE \E h \in Gestures, mode \in Modes : Start(h, mode)
  BY <1>t, <1>2 DEF Start
<1>3. QED
  BY <1>1, <1>r, <1>2, GesturesMove

LEMMA ChainStep ==
  ASSUME Inv, Inv', OwnInv, ChainInv, [Next]_vars
  PROVE  ChainInv'
<1>1. CASE UNCHANGED vars
  BY <1>1 DEF vars, ChainInv, Unmet, Chained
<1>2. SUFFICES ASSUME Next, Unmet({"scroll"})', NEW g \in Gestures,
                      gesture'[g].mode = "full"
               PROVE  Chained(g)'
  BY <1>1 DEF ChainInv
<1>3. TypeOK /\ TypeOK'
  BY DEF Inv
<1>4. CASE \E h \in Gestures, mode \in Modes : Start(h, mode)
  <2>1. PICK h \in Gestures, mode \in Modes : Start(h, mode)
    BY <1>4
  <2>2. UNCHANGED <<capture, request, tab, met>>
    BY <2>1 DEF Start
  <2>3. CASE h = g
    <3>1. capture'[g].pc = "idle"
      BY <2>1, <2>2, <2>3 DEF Start, Inv, Control, CapturesStarted, Early
    <3>2. QED
      BY <3>1, Undriven DEF Driving
  <2>4. CASE h # g
    <3>1. gesture'[g] = gesture[g]
      BY <1>3, <2>1, <2>4 DEF Start, TypeOK
    <3>2. Chained(g)
      BY <1>2, <2>2, <3>1 DEF ChainInv, Unmet
    <3>3. tab.y \in Nat /\ tab.page \in Nat
      BY <1>3 DEF TypeOK, TabStates
    <3>4. QED
      BY <1>3, <2>2, <3>2, <3>3, ChainKept
  <2>5. QED
    BY <2>3, <2>4
<1>5. CASE ~\E h \in Gestures, mode \in Modes : Start(h, mode)
  <2>1. gesture[g].mode = "full"
    BY <1>2, <1>3, <1>5, ModeStays
  <2>2. Unmet({"scroll"})
    BY <1>2, <1>3, MetTyped DEF Unmet, TypeOK, Hazards
  <2>3. Chained(g)
    BY <2>1, <2>2 DEF ChainInv
  <2>4. \/ \E h \in Gestures : WorkerStep(h)
        \/ \E h \in Gestures : PageStep(h) \/ ConfirmUpload(h) \/ RunLate(h)
        \/ World /\ ~\E h \in Gestures : RunLate(h)
        \/ \E h \in Gestures : Escape(h)
    BY <1>2, <1>5 DEF Next, UserStep
  <2>5. QED
    BY <1>2, <1>3, <2>1, <2>3, <2>4, HandlerKeepsChain, PageKeepsChain,
       WorldKeepsChain
<1>6. QED
  BY <1>4, <1>5

\* Only the driver that has seen an unchanged bottom twice calls its pictures
\* complete.
LEMMA OnlyBottomCompletes ==
  ASSUME TypeOK, Next, NEW g \in Gestures, gesture[g].mode = "full",
         ~capture[g].complete, capture'[g].complete
  PROVE  /\ capture[g].pc = "slicing" /\ request[g].pc = "answered"
         /\ tab.page = capture[g].page /\ AtBottom /\ StableBottom(g)
         /\ UnchangedBottom(g, request[g].picture)
         /\ capture'[g].shots = capture[g].shots
         /\ tab'.height = tab.height
<1>t. /\ capture \in [Gestures -> CaptureStates] /\ tab \in TabStates
      /\ overlay \in Gestures \cup {NoGesture}
  BY DEF TypeOK
<1>k. ASSUME capture'[g].complete = capture[g].complete
               \/ capture'[g].complete = FALSE
      PROVE  FALSE
  BY <1>k
<1>g. ~Gone.complete /\ ~IdleCapture.complete
  BY DEF Gone, IdleCapture
<1>pc. ASSUME NEW h \in Gestures, NEW pc,
              capture' = [capture EXCEPT ![h].pc = pc]
       PROVE  FALSE
  <2>1. capture'[g] = IF g = h THEN [capture[g] EXCEPT !.pc = pc]
                      ELSE capture[g]
    BY <1>t, <1>pc
  <2>2. capture'[g].complete = capture[g].complete
    BY <1>t, <2>1 DEF CaptureStates
  <2>3. QED
    BY <1>k, <2>2
<1>r. ASSUME NEW h \in Gestures, NEW shots, NEW complete,
             Return(h, shots, complete)
      PROVE  /\ h = g /\ complete = TRUE /\ capture'[g].shots = shots
             /\ tab'.height = tab.height
  <2>1. PICK whole \in BOOLEAN, kept \in {shots, <<>>} :
          /\ whole => complete /\ kept = shots
          /\ capture' = [capture EXCEPT ![h].pc = "ending",
                           ![h].shots = kept, ![h].complete = whole]
    BY <1>r DEF Return
  <2>2. h = g
    BY <1>t, <1>k, <2>1
  <2>3. capture'[g] = [capture[g] EXCEPT !.pc = "ending", !.shots = kept,
                                         !.complete = whole]
    BY <1>t, <2>1, <2>2
  <2>4. capture'[g].complete = whole /\ capture'[g].shots = kept
    BY <1>t, <2>3 DEF CaptureStates
  <2>5. tab'.height = tab.height
    BY <1>t, <1>r DEF Return, ScrollTo, TabStates
  <2>6. QED
    BY <2>1, <2>2, <2>4, <2>5
<1>o. ASSUME NEW h \in Gestures, NEW shots, NEW bottom,
             GoOn(h, shots, bottom)
      PROVE  FALSE
  <2>1. capture'[g] = IF g = h
                      THEN [capture[g] EXCEPT !.pc = "waiting",
                              !.shots = shots, !.bottom = bottom]
                      ELSE capture[g]
    BY <1>t, <1>o DEF GoOn
  <2>2. capture'[g].complete = capture[g].complete
    BY <1>t, <2>1 DEF CaptureStates
  <2>3. QED
    BY <1>k, <2>2
<1>1. ASSUME UNCHANGED capture
      PROVE  FALSE
  BY <1>1, <1>k
<1>2. ASSUME NEW h \in Gestures, WorkerStep(h)
      PROVE  FALSE
  <2>1. \/ UNCHANGED capture
        \/ \E pc : capture' = [capture EXCEPT ![h].pc = pc]
    <3>1. CASE \/ StatusKnown(h) \/ Armed(h) \/ Started(h)
      BY <3>1 DEF StatusKnown, Armed, Started
    <3>2. CASE \/ CheckSlice(h) \/ TakeSlice(h) \/ CheckVisible(h)
               \/ TakeVisible(h) \/ End(h) \/ AskBinding(h)
      BY <3>2 DEF CheckSlice, TakeSlice, CheckVisible, TakeVisible, End,
                  AskBinding
    <3>3. QED
      BY <1>2, <3>1, <3>2 DEF WorkerStep
  <2>2. QED
    BY <1>1, <1>pc, <2>1
<1>3. ASSUME NEW h \in Gestures,
             \/ Mount(h) \/ NoBinding(h) \/ Frame(h) \/ ReceiveVisible(h)
             \/ Upload(h) \/ UploadEnds(h) \/ ConfirmUpload(h) \/ RunLate(h)
      PROVE  FALSE
  <2>1. CASE Mount(h)
    <3> DEFINE mounted == [IdleCapture EXCEPT !.pc = "frame",
                                              !.page = tab.page]
    <3>1. mounted.complete = FALSE
      BY DEF IdleCapture
    <3>2. capture'[g] \in {mounted, Gone, capture[g]}
      BY <1>t, <2>1 DEF Mount
    <3> HIDE DEF mounted
    <3>3. QED
      BY <1>k, <1>g, <3>1, <3>2
  <2>2. CASE Frame(h) \/ RunLate(h)
    <3>1. \/ \E pc : capture' = [capture EXCEPT ![h].pc = pc]
          \/ capture' = [capture EXCEPT ![h].pc = "slicing",
                                        ![h].from = tab.y]
          \/ capture' = [capture EXCEPT ![h].late = TRUE]
      BY <2>2 DEF Frame, RunLate
    <3>2. CASE capture' = [capture EXCEPT ![h].pc = "slicing",
                                          ![h].from = tab.y]
      BY <1>t, <1>k, <3>2 DEF CaptureStates
    <3>3. CASE capture' = [capture EXCEPT ![h].late = TRUE]
      BY <1>t, <1>k, <3>3 DEF CaptureStates
    <3>4. QED
      BY <1>pc, <3>1, <3>2, <3>3
  <2>3. CASE ReceiveVisible(h)
    <3>1. h # g
      BY <2>3 DEF ReceiveVisible
    <3>2. capture'[g] = capture[g]
      BY <1>t, <2>3, <3>1 DEF ReceiveVisible
    <3>3. QED
      BY <1>k, <3>2
  <2>4. CASE NoBinding(h) \/ Upload(h) \/ UploadEnds(h) \/ ConfirmUpload(h)
    BY <1>pc, <2>4 DEF NoBinding, Upload, UploadEnds, ConfirmUpload
  <2>5. QED
    BY <1>3, <2>1, <2>2, <2>3, <2>4
<1>4. ASSUME NEW h \in Gestures, NextSlice(h) \/ GiveUp(h)
      PROVE  FALSE
  <2>1. \/ Return(h, capture[h].shots, FALSE)
        \/ capture' = [capture EXCEPT ![h].pc = "slicing"]
    BY <1>4, Zenon DEF NextSlice, GiveUp
  <2>2. QED
    BY <1>r, <1>pc, <2>1
<1>5. ASSUME \/ World /\ ~\E h \in Gestures : RunLate(h)
             \/ \E h \in Gestures : Escape(h)
      PROVE  FALSE
  <2>1. CASE Blur \/ Reload \/ \E h \in Gestures : Escape(h)
    <3>1. capture'[g] \in {Gone, IdleCapture, capture[g]}
      BY <1>t, <2>1 DEF Blur, BlurCancels, Reload, Escape, Cancel
    <3>2. QED
      BY <1>k, <1>g, <3>1
  <2>2. CASE Restart
    <3>1. \E pc : capture'[g] = [capture[g] EXCEPT !.pc = pc]
      BY <2>2 DEF Restart
    <3>2. capture'[g].complete = capture[g].complete
      BY <1>t, <3>1 DEF CaptureStates
    <3>3. QED
      BY <1>k, <3>2
  <2>3. CASE \/ LeaveTab \/ ReturnToTab \/ Navigate \/ Relayout
             \/ UserScrolls \/ Expire
    BY <1>1, <2>3
       DEF LeaveTab, ReturnToTab, Navigate, Relayout, UserScrolls, Expire
  <2>4. QED
    BY <1>5, <2>1, <2>2, <2>3 DEF World
<1>6. ASSUME NEW h \in Gestures, NEW mode, Start(h, mode)
      PROVE  FALSE
  BY <1>1, <1>6 DEF Start
<1>7. \E h \in Gestures : Receive(h)
  BY <1>2, <1>3, <1>4, <1>5, <1>6 DEF Next, PageStep, UserStep
<1>8. PICK h \in Gestures : Receive(h)
  BY <1>7
<1>9. /\ request[h].pc = "answered" /\ tab.page = capture[h].page
      /\ AtBottom /\ StableBottom(h)
      /\ Return(h, capture[h].shots, UnchangedBottom(h, request[h].picture))
  <2>1. \/ \E shots : Return(h, shots, FALSE)
        \/ \E shots, bottom : GoOn(h, shots, bottom)
        \/ /\ request[h].pc = "answered" /\ tab.page = capture[h].page
           /\ AtBottom /\ StableBottom(h)
           /\ Return(h, capture[h].shots,
                     UnchangedBottom(h, request[h].picture))
    BY <1>8, Zenon DEF Receive
  <2>2. CASE \E shots : Return(h, shots, FALSE)
    BY <1>r, <2>2
  <2>3. CASE \E shots, bottom : GoOn(h, shots, bottom)
    BY <1>o, <2>3
  <2>4. QED
    BY <2>1, <2>2, <2>3, Zenon
<1>10. /\ h = g /\ capture'[g].shots = capture[h].shots
       /\ tab'.height = tab.height
  BY <1>9, <1>r
<1>11. capture[h].pc = "slicing"
  BY <1>8 DEF Receive
<1>12. UnchangedBottom(h, request[h].picture) = TRUE
  BY <1>9, <1>r
<1>13. QED
  BY <1>9, <1>10, <1>11, <1>12

LEMMA ChainInvariance == Spec => []ChainInv
<1>1. Inv /\ Inv' /\ OwnInv /\ ChainInv /\ [Next]_vars => ChainInv'
  BY ChainStep
<1>2. QED
  BY ChainInit, <1>1, Invariance, OwnInvariance, PTL DEF Spec

\* What is called complete is the whole page as it is when the driver stops,
\* from its top to its end, without a gap and without another tab's picture,
\* unless the user scrolled it meanwhile.
THEOREM CompleteAlwaysWhole == Spec => CompleteIsWhole
<1>1. ASSUME Inv, OwnInv, ChainInv, Next, NEW g \in Gestures,
             gesture[g].mode = "full",
             ~capture[g].complete, capture'[g].complete, Unmet({"scroll"})
      PROVE  WholePage(capture'[g].shots, tab.height)
  <2>t. /\ capture \in [Gestures -> CaptureStates]
        /\ request \in [Gestures -> RequestStates] /\ tab \in TabStates
        /\ TypeOK
    BY <1>1 DEF Inv, TypeOK
  <2> DEFINE shots == capture[g].shots
             last == shots[Len(shots)]
  <2>1. /\ capture[g].pc = "slicing" /\ request[g].pc = "answered"
        /\ AtBottom /\ StableBottom(g)
        /\ UnchangedBottom(g, request[g].picture)
        /\ capture'[g].shots = shots
    BY <1>1, <2>t, OnlyBottomCompletes
  <2>2. Chained(g)
    BY <1>1 DEF ChainInv
  <2>3. tab.height \in Nat /\ tab.height # 0 /\ tab.y \in Nat
    BY <2>t DEF TabStates
  <2>4. capture[g].bottom.height # 0
    BY <2>1, <2>3 DEF StableBottom
  <2>5. /\ Linked(shots, capture[g].page) /\ shots # <<>>
        /\ last = request[g].picture /\ tab.y <= last.y
    BY <2>1, <2>2, <2>4 DEF Chained, Driving, UnchangedBottom
  <2>6. shots \in Seq(Pictures)
    BY <2>t, CaptureParts
  <2>7. last.y \in Nat /\ Len(shots) \in Nat
    <3>1. request[g].picture \in Pictures
      BY <2>t DEF RequestStates
    <3>2. QED
      BY <2>5, <2>6, <3>1 DEF Pictures
  <2>8. last.y + Screen >= tab.height
    BY <2>1, <2>3, <2>5, <2>7 DEF AtBottom, Bottom
  <2>9. \A i \in 1..(Len(shots) - 1) : Follows(shots[i], shots[i + 1])
    BY <2>5, <2>7 DEF Linked, Follows
  <2>10. tab.blurred \/ \A i \in DOMAIN shots : shots[i].own
    BY <1>1, <2>1 DEF OwnInv, OwnSight, OwnShots, OnScreen, Driving
  <2>11. shots[1].y = 0
    BY <2>5 DEF Linked
  <2>12. QED
    BY <2>1, <2>5, <2>8, <2>9, <2>10, <2>11 DEF WholePage
<1>2. Inv /\ OwnInv /\ ChainInv /\ [Next]_vars
        => [\A g \in Gestures :
               /\ gesture[g].mode = "full"
               /\ ~capture[g].complete /\ capture'[g].complete
               /\ Unmet({"scroll"})
             => WholePage(capture'[g].shots, tab.height)]_vars
  BY <1>1
<1>3. QED
  BY <1>2, Invariance, OwnInvariance, ChainInvariance, PTL
     DEF Spec, CompleteIsWhole
=============================================================================
