----------------------------- MODULE SlideScene -----------------------------
(***************************************************************************)
(* SlideRecognizer and SlideRecognizerProxy: slides and flings, recognized *)
(* from touches and from the frames the render service reports when it is  *)
(* asked to.  All events run in one queue, and what a recognizer reports   *)
(* comes back to it through that queue; the timers of a fling run in       *)
(* threads of their own.                                                   *)
(*                                                                         *)
(* One screen is modelled; of the recognizers of the other screens only    *)
(* the number counts, since the proxy drops idle ones above a limit.       *)
(***************************************************************************)
EXTENDS Naturals, Sequences

CONSTANTS
  MAX_INSTANCE_COUNT,
  MaxQueued           \* bound: events in the queue when one arrives

ASSUME SlideAssumption == MAX_INSTANCE_COUNT \in Nat \ {0} /\ MaxQueued \in Nat \ {0}

VARIABLES
  slideQueue,
  slideInstance,   \* the screen has a recognizer; its fields follow
  slideState, isInTouching, listFlingEndTask, listFlingTimeOutTask,
  startingAt,      \* StartDetecting has asked for frames and not set the state
  otherScreens,    \* number of recognizers of other screens
  displayKnown,    \* displayIdToRsScreenId_ has the display of the screen
  frameReport,     \* frames are reported (external)
  flingOn,         \* plugins heard SLIDE_EVENT_ON of a recognizer, not yet OFF
  overtaken,       \* history: the fling was cut off by a slide, or by an OFF older than it
  framesLost       \* history: a fling ended while a slide was being started

recognizerVars == <<slideInstance, slideState, isInTouching, listFlingEndTask,
                    listFlingTimeOutTask>>
slideVars == <<slideQueue, recognizerVars, startingAt, otherScreens, displayKnown,
               frameReport, flingOn, overtaken, framesLost>>

(* What arrives: DOWN and UP of a display or of a screen, the others of a  *)
(* screen; UP with a speed above the limit of a fling is FAST.             *)
SlideKinds == {"DETECTING", "ON", "OFF", "FRAME"}
TouchKinds == {"DOWN", "UP", "FAST"}
SlideArrivals == [kind : SlideKinds, by : {"screen"}]
                 \cup [kind : TouchKinds, by : {"screen", "display"}]
(* START: StartDetecting, for the recognizer or for one that was dropped.  *)
SlideTasks == [kind : {"START"}, by : {"screen", "dropped"}]
TaskStates == {"null", "pending", "done"}   \* of a task handle

SlideTypeOK ==
  /\ slideQueue \in Seq(SlideArrivals \cup SlideTasks)
  /\ slideInstance \in BOOLEAN /\ isInTouching \in BOOLEAN
  /\ slideState \in {"IDLE", "SLIDE_NORMAL_DETECTING", "SLIDE_NORMAL", "LIST_FLING"}
  /\ listFlingEndTask \in TaskStates /\ listFlingTimeOutTask \in TaskStates
  /\ startingAt \in {"no", "screen", "dropped"} /\ otherScreens \in 0..MAX_INSTANCE_COUNT
  /\ displayKnown \in BOOLEAN /\ frameReport \in BOOLEAN /\ flingOn \in BOOLEAN
  /\ overtaken \in BOOLEAN /\ framesLost \in BOOLEAN

SlideInit ==
  /\ slideQueue = <<>> /\ slideInstance = FALSE
  /\ slideState = "IDLE" /\ isInTouching = FALSE
  /\ listFlingEndTask = "null" /\ listFlingTimeOutTask = "null"
  /\ startingAt = "no" /\ otherScreens = 0 /\ displayKnown = FALSE
  /\ frameReport = FALSE /\ flingOn = FALSE /\ overtaken = FALSE /\ framesLost = FALSE

ScreenEvent(k) == [kind |-> k, by |-> "screen"]
SendFrameReport(on) == frameReport' = on
Skip(task) == IF task = "pending" THEN "done" ELSE task

(* The recognizer reports SLIDE_EVENT_ON or OFF: the plugins hear it now,  *)
(* the recognizer later.  SLIDE_NORMAL reports change nothing here.        *)
ReportFling(k, rest) ==
  /\ slideQueue' = Append(rest, ScreenEvent(k))
  /\ flingOn' = (k = "ON") /\ overtaken' = FALSE
ReportNothing(rest) == slideQueue' = rest /\ UNCHANGED <<flingOn, overtaken>>

-----------------------------------------------------------------------------
(* SlideRecognizer.  rest is the queue behind the event.                   *)

ReportListFlingLockedEnd(rest) ==
  IF slideState # "LIST_FLING"
    THEN ReportNothing(rest) /\ UNCHANGED <<slideState, frameReport>>
    ELSE ReportFling("OFF", rest) /\ SendFrameReport(FALSE) /\ slideState' = "IDLE"

HandleSlideOFFEvent(rest) ==
  /\ listFlingEndTask' = Skip(listFlingEndTask)
  /\ listFlingTimeOutTask' = Skip(listFlingTimeOutTask)
  /\ SendFrameReport(FALSE) /\ slideState' = "IDLE"
  /\ slideQueue' = rest /\ overtaken' = (overtaken \/ flingOn)
  /\ UNCHANGED <<isInTouching, flingOn>>

(* dropped: the recognizer is not the one of the screen any more.          *)
HandleSlideDetecting(rest, dropped) ==
  /\ slideQueue' = Append(rest, [kind |-> "START", by |-> IF dropped THEN "dropped" ELSE "screen"])
  /\ isInTouching' = (isInTouching \/ ~dropped)
  /\ UNCHANGED <<slideState, listFlingEndTask, listFlingTimeOutTask, frameReport, flingOn,
                 overtaken>>

(* Mutant: the fling has no timeout, only the end that frames put off.     *)
HandleListFlingStartNoTimeout(rest) ==
  /\ SendFrameReport(TRUE) /\ listFlingEndTask' = "pending"
  /\ ReportNothing(rest) /\ UNCHANGED <<slideState, isInTouching, listFlingTimeOutTask>>
HandleListFlingStart(rest) ==
  /\ SendFrameReport(TRUE)
  /\ listFlingEndTask' = "pending" /\ listFlingTimeOutTask' = "pending"
  /\ ReportNothing(rest) /\ UNCHANGED <<slideState, isInTouching>>

HandleSendFrameEvent(rest) ==
  /\ ReportNothing(rest)
  /\ IF slideState = "SLIDE_NORMAL_DETECTING"
       THEN /\ slideState' = IF isInTouching THEN "SLIDE_NORMAL" ELSE "IDLE"
            /\ SendFrameReport(FALSE)
       ELSE UNCHANGED <<slideState, frameReport>>
  /\ listFlingEndTask' = IF slideState = "LIST_FLING" THEN "pending" ELSE listFlingEndTask
  /\ UNCHANGED <<isInTouching, listFlingTimeOutTask>>

(* A touch ends a fling.                                                   *)
ListFlingEnd(rest) ==
  IF slideState # "LIST_FLING"
    THEN /\ ReportNothing(rest)
         /\ UNCHANGED <<listFlingEndTask, listFlingTimeOutTask, frameReport>>
    ELSE /\ listFlingEndTask' = "null" /\ listFlingTimeOutTask' = "null"
         /\ ReportFling("OFF", rest) /\ SendFrameReport(FALSE)
HandleTouchDown(rest) ==
  ListFlingEnd(rest) /\ slideState' = "IDLE" /\ isInTouching' = TRUE
HandleTouchUp(fast, rest) ==
  /\ isInTouching' = FALSE
  /\ IF fast /\ slideState \in {"SLIDE_NORMAL", "SLIDE_NORMAL_DETECTING"}
       THEN /\ ReportFling("ON", rest) /\ SendFrameReport(TRUE)
            /\ slideState' = "LIST_FLING"
       ELSE ReportNothing(rest) /\ UNCHANGED <<slideState, frameReport>>
  /\ UNCHANGED <<listFlingEndTask, listFlingTimeOutTask>>
HandleClickEvent(kind, rest) ==
  IF kind = "DOWN" THEN HandleTouchDown(rest) ELSE HandleTouchUp(kind = "FAST", rest)

SlideOnDispatch(kind, rest, dropped) ==
  CASE kind = "DETECTING" -> HandleSlideDetecting(rest, dropped)
    [] kind = "ON" -> HandleListFlingStart(rest)
    [] kind = "OFF" -> HandleSlideOFFEvent(rest)
    [] kind = "FRAME" -> HandleSendFrameEvent(rest)
    [] OTHER -> HandleClickEvent(kind, rest)

-----------------------------------------------------------------------------
(* SlideRecognizerProxy                                                    *)

IsTaskClean == listFlingEndTask = "null" /\ listFlingTimeOutTask = "null"
IdleInstance == slideState = "IDLE" /\ IsTaskClean
Dropped(queue) ==
  [i \in DOMAIN queue |-> IF queue[i].kind = "START" THEN [queue[i] EXCEPT !.by = "dropped"]
                                                     ELSE queue[i]]

(* An event of another screen, which may be new.  Above the limit every    *)
(* idle recognizer is dropped: the new one, and this screen's too.         *)
CleanupIdleInstances(kept, rest) ==
  /\ kept <= otherScreens /\ otherScreens' = kept
  /\ IF slideInstance /\ IdleInstance
       THEN slideInstance' = FALSE /\ slideQueue' = Dropped(rest) /\ isInTouching' = FALSE
       ELSE slideQueue' = rest /\ UNCHANGED <<slideInstance, isInTouching>>
OtherScreenEvent(new, kept, rest) ==
  /\ IF new /\ otherScreens + 1 + (IF slideInstance THEN 1 ELSE 0) > MAX_INSTANCE_COUNT
       THEN CleanupIdleInstances(kept, rest)
       ELSE /\ otherScreens' = IF new THEN otherScreens + 1 ELSE otherScreens
            /\ slideQueue' = rest /\ UNCHANGED <<slideInstance, isInTouching>>
  /\ UNCHANGED <<slideState, listFlingEndTask, listFlingTimeOutTask, startingAt,
                 frameReport, flingOn, overtaken, framesLost>>

(* A touch comes with the display: DOWN looks the screen up and may fail,  *)
(* the others use what an earlier DOWN found.  Without it they go to the   *)
(* default screen.                                                         *)
ConvertDisplayIdToRsScreenId(e, found) == e.kind = "DOWN" /\ found
Routed(e, found) ==
  e.by = "screen" \/ displayKnown \/ ConvertDisplayIdToRsScreenId(e, found)

(* A new recognizer above the limit is dropped at once, and handles this   *)
(* event only: it keeps a task, or a START, that nothing will follow.      *)
GetOrCreateInstance(e, kept, rest) ==
  IF slideInstance \/ otherScreens + 1 <= MAX_INSTANCE_COUNT
    THEN /\ slideInstance' = TRUE /\ SlideOnDispatch(e.kind, rest, FALSE)
         /\ UNCHANGED otherScreens
    ELSE /\ kept <= otherScreens /\ otherScreens' = kept
         /\ CASE e.kind = "DETECTING" -> HandleSlideDetecting(rest, TRUE)
              [] OTHER -> /\ slideQueue' = rest
                          /\ frameReport' = CASE e.kind = "ON" -> TRUE
                                              [] e.kind = "OFF" -> FALSE
                                              [] OTHER -> frameReport
                          /\ UNCHANGED <<slideState, isInTouching, listFlingEndTask,
                                         listFlingTimeOutTask, flingOn, overtaken>>
         /\ UNCHANGED slideInstance

SlideProxyDispatch(found, new, kept) ==
  /\ startingAt = "no" /\ slideQueue # <<>> /\ Head(slideQueue).kind # "START"
  /\ LET e == Head(slideQueue)
         rest == Tail(slideQueue)
     IN  /\ displayKnown' = (displayKnown \/ (e.by = "display" /\ Routed(e, found)))
         /\ IF Routed(e, found)
              THEN /\ GetOrCreateInstance(e, kept, rest)
                   /\ UNCHANGED <<startingAt, framesLost>>
              ELSE OtherScreenEvent(new \/ otherScreens = 0, kept, rest)

(* StartDetecting, in two steps: the state is set under the lock.          *)
StartDetectingAsks ==
  /\ startingAt = "no" /\ slideQueue # <<>> /\ Head(slideQueue).kind = "START"
  /\ startingAt' = Head(slideQueue).by /\ slideQueue' = Tail(slideQueue)
  /\ SendFrameReport(TRUE) /\ framesLost' = FALSE
  /\ UNCHANGED <<recognizerVars, otherScreens, displayKnown, flingOn, overtaken>>
StartDetecting ==
  /\ startingAt # "no" /\ startingAt' = "no"
  /\ IF startingAt = "screen"
       THEN /\ slideState' = "SLIDE_NORMAL_DETECTING"
            /\ overtaken' = (overtaken \/ slideState = "LIST_FLING")
       ELSE UNCHANGED <<slideState, overtaken>>
  /\ UNCHANGED <<slideQueue, slideInstance, isInTouching, listFlingEndTask,
                 listFlingTimeOutTask, otherScreens, displayKnown, frameReport, flingOn,
                 framesLost>>

(* The timers.                                                             *)
FlingTimer ==
  /\ ReportListFlingLockedEnd(slideQueue)
  /\ framesLost' = (framesLost \/ (startingAt = "screen" /\ slideState = "LIST_FLING"))
  /\ UNCHANGED <<slideInstance, isInTouching, startingAt, otherScreens, displayKnown>>
ListFlingEndFires ==
  /\ listFlingEndTask = "pending" /\ listFlingEndTask' = "done"
  /\ FlingTimer /\ UNCHANGED listFlingTimeOutTask
ListFlingTimeOutFires ==
  /\ listFlingTimeOutTask = "pending" /\ listFlingTimeOutTask' = "done"
  /\ FlingTimer /\ UNCHANGED listFlingEndTask

(* Events arrive (external); an OFF of an application is heard by all.     *)
SlideEventArrives(e) ==
  /\ Len(slideQueue) < MaxQueued /\ slideQueue' = Append(slideQueue, e)
  /\ flingOn' = (flingOn /\ e.kind # "OFF")
  /\ UNCHANGED <<recognizerVars, startingAt, otherScreens, displayKnown, frameReport,
                 overtaken, framesLost>>
OtherScreenArrives(kept) ==
  /\ startingAt = "no" /\ OtherScreenEvent(TRUE, kept, slideQueue) /\ UNCHANGED displayKnown

SlideNext ==
  \/ \E found, new \in BOOLEAN, kept \in 0..MAX_INSTANCE_COUNT :
       SlideProxyDispatch(found, new, kept)
  \/ StartDetectingAsks \/ StartDetecting
  \/ ListFlingEndFires \/ ListFlingTimeOutFires
  \/ \E e \in SlideArrivals : SlideEventArrives(e)
  \/ \E kept \in 0..MAX_INSTANCE_COUNT : OtherScreenArrives(kept)

-----------------------------------------------------------------------------
(* Every fling the plugins were told of has its end arranged: either its   *)
(* timeout runs, or the event that starts it is on its way to the          *)
(* recognizer, which the screen still has.  A slide that starts during the *)
(* fling, or an OFF that is older than it, cuts it off.                    *)
FlingWillEnd ==
  flingOn /\ ~overtaken =>
    /\ slideInstance /\ slideState = "LIST_FLING"
    /\ \/ listFlingTimeOutTask = "pending"
       \/ \E i \in DOMAIN slideQueue : slideQueue[i].kind = "ON"

(* A recognizer that waits for frames has them reported, unless the end of *)
(* a fling came between the two steps of StartDetecting.                   *)
FramesReported ==
  slideState \in {"SLIDE_NORMAL_DETECTING", "LIST_FLING"} => frameReport \/ framesLost

SlideSound == FlingWillEnd /\ FramesReported
=============================================================================
