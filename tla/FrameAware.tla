------------------------------ MODULE FrameAware ------------------------------
(***************************************************************************)
(* The frame aware plugin: requests for a low network latency, which time  *)
(* out, and the events it hands to the frame scheduler.  The two share     *)
(* only the switch of the plugin and have next-state relations of their    *)
(* own.  The plugin handles one event at a time; the timeouts run in a     *)
(* queue of their own, and overlap with a request at each of its locks.    *)
(***************************************************************************)
EXTENDS Naturals, Sequences

CONSTANTS
  Identities,   \* "<pid>:<identity>" of a request
  NoIdentity

ASSUME IdentitiesAssumption == NoIdentity \notin Identities

VARIABLES
  frameAwareOn,    \* Init has filled functionMap, Disable has not cleared it
  latencyRequests, \* requests
  lowLatency,      \* the switcher holds /dev/network_latency open
  latencyTimers,   \* identities whose auto disable task waits in the queue
  latencyRunning,  \* identity whose auto disable task runs
  latencyAt,       \* where the request that is handled stands
  lowWanted,          \* history: requests neither withdrawn nor timed out
  overrun,         \* history: of these, the ones made while an older timeout ran
  untimed,         \* history: requests whose task went with the queue
  switchFailed,    \* history: the switcher is new, or could not be turned on
  frameErrno,      \* errno of the dispatching thread is ERANGE
  frameHeard, frameAsked, \* the last event handed on, and what it said
  frameSpoilt      \* history: a number out of range was read before it

latencyVars == <<frameAwareOn, latencyRequests, lowLatency, latencyTimers, latencyRunning,
                 latencyAt, lowWanted, overrun, untimed, switchFailed>>
frameVars == <<frameErrno, frameHeard, frameAsked, frameSpoilt>>

(* What a payload says where a number should be; a key may be missing.     *)
(*   number    0..INT_MAX                                                  *)
(*   wide      beyond int and within long, and its low 32 bits are a number *)
(*   overflow  beyond long                                                 *)
(*   junk      anything else: no number, a negative one, or one that is    *)
(*             negative in its low 32 bits                                 *)
Texts == {"number", "wide", "overflow", "junk", "missing"}
Numbers == {"number", "wide", "low_bits", "minus_one", "zero"}
Resting == [op |-> "none", id |-> NoIdentity]
(* The numbers an event of each type must have, in the order they are      *)
(* converted; the display of a focus change may be missing.                *)
FrameKeys == [
  APP_STATE_CHANGE |-> 2, PROCESS_STATE_CHANGE |-> 3, CONTINUOUS_TASK |-> 2,
  CGROUP_ADJUSTER |-> 4, WINDOW_FOCUS |-> 3, REPORT_RENDER_THREAD |-> 2,
  SLIDE_RECOGNIZE |-> 2, USER_INTERACTION_SCENE |-> 0]
FrameTypes == DOMAIN FrameKeys
FrameCall(type, args) == [type |-> type, args |-> args]
NoCall == FrameCall("NONE", <<>>)

FrameAwareTypeOK ==
  /\ frameAwareOn \in BOOLEAN /\ lowLatency \in BOOLEAN /\ switchFailed \in BOOLEAN
  /\ latencyRequests \subseteq Identities /\ latencyTimers \subseteq Identities
  /\ latencyRunning \in Identities \cup {NoIdentity}
  /\ latencyAt \in [op : {"none", "add", "submit", "delete"}, id : Identities \cup {NoIdentity}]
  /\ lowWanted \subseteq Identities /\ overrun \subseteq Identities /\ untimed \subseteq Identities
  /\ frameErrno \in BOOLEAN /\ frameSpoilt \in BOOLEAN
  /\ {frameHeard, frameAsked} \subseteq [type : FrameTypes \cup {"NONE"}, args : Seq(Numbers)]

LatencyInit ==
  /\ frameAwareOn = FALSE /\ latencyRequests = {} /\ lowLatency = FALSE
  /\ latencyTimers = {} /\ latencyRunning = NoIdentity /\ latencyAt = Resting
  /\ lowWanted = {} /\ overrun = {} /\ untimed = {} /\ switchFailed = FALSE
FrameInit ==
  frameErrno = FALSE /\ frameHeard = NoCall /\ frameAsked = NoCall /\ frameSpoilt = FALSE

-----------------------------------------------------------------------------
(* NetworkLatencyController::Init: a new queue, without the tasks of the   *)
(* old one (external), and a new switcher.  A repair of the plugin comes   *)
(* here again.                                                             *)
LatencyControllerInit ==
  /\ latencyTimers' = {} /\ lowLatency' = FALSE
  /\ untimed' = (untimed \cup latencyTimers) \cap latencyRequests
  /\ switchFailed' = (latencyRequests # {})
FrameAwareInit ==
  /\ ~frameAwareOn /\ frameAwareOn' = TRUE /\ LatencyControllerInit
  /\ UNCHANGED <<latencyRequests, latencyRunning, latencyAt, lowWanted, overrun>>
FrameAwareDisable ==
  /\ frameAwareOn /\ latencyAt = Resting /\ frameAwareOn' = FALSE
  /\ UNCHANGED <<latencyRequests, lowLatency, latencyTimers, latencyRunning, latencyAt,
                 lowWanted, overrun, untimed, switchFailed>>

(* HandleRequest of LOW and of NORMAL: the old timeout is cancelled, if it *)
(* does not run yet.                                                       *)
HandleRequest(id, op) ==
  /\ latencyAt = Resting
  /\ latencyAt' = [op |-> op, id |-> id]
  /\ latencyTimers' = latencyTimers \ {id}
  /\ overrun' = IF op = "add" /\ latencyRunning = id THEN overrun \cup {id} ELSE overrun \ {id}
  /\ lowWanted' = lowWanted \ {id}
  /\ UNCHANGED <<frameAwareOn, latencyRequests, lowLatency, latencyRunning, untimed,
                 switchFailed>>
(* formed: the payload has the pid and the identity.  Any other value than *)
(* LOW and NORMAL is ignored.                                              *)
HandleNetworkLatencyRequest(id, op, formed) ==
  frameAwareOn /\ formed /\ HandleRequest(id, op)
AddRequest(opens) ==
  /\ latencyAt.op = "add" /\ latencyAt' = [latencyAt EXCEPT !.op = "submit"]
  /\ latencyRequests' = latencyRequests \cup {latencyAt.id}
  /\ lowWanted' = lowWanted \cup {latencyAt.id}
  /\ IF latencyRequests = {}
       THEN lowLatency' = (lowLatency \/ opens) /\ switchFailed' = ~opens
       ELSE UNCHANGED <<lowLatency, switchFailed>>
  /\ UNCHANGED <<frameAwareOn, latencyTimers, latencyRunning, overrun, untimed>>
SubmitAutoDisable ==
  /\ latencyAt.op = "submit" /\ latencyAt' = Resting
  /\ latencyTimers' = latencyTimers \cup {latencyAt.id}
  /\ untimed' = untimed \ {latencyAt.id}
  /\ UNCHANGED <<frameAwareOn, latencyRequests, lowLatency, latencyRunning, lowWanted, overrun,
                 switchFailed>>

(* Mutant: the end of any request restores the normal latency.             *)
DelRequestAny(id) ==
  /\ latencyRequests' = latencyRequests \ {id}
  /\ lowLatency' = FALSE
  /\ UNCHANGED <<frameAwareOn, switchFailed>>
DelRequest(id) ==
  /\ latencyRequests' = latencyRequests \ {id}
  /\ lowLatency' = (lowLatency /\ latencyRequests' # {})
  /\ UNCHANGED <<frameAwareOn, switchFailed>>
HandleDelRequest ==
  /\ latencyAt.op = "delete" /\ latencyAt' = Resting
  /\ DelRequest(latencyAt.id) /\ untimed' = untimed \ {latencyAt.id}
  /\ UNCHANGED <<latencyTimers, latencyRunning, lowWanted, overrun>>
AutoDisableStarts(id) ==
  /\ id \in latencyTimers /\ latencyRunning = NoIdentity
  /\ latencyTimers' = latencyTimers \ {id} /\ latencyRunning' = id
  /\ UNCHANGED <<frameAwareOn, latencyRequests, lowLatency, latencyAt, lowWanted, overrun,
                 untimed, switchFailed>>
AutoDisableTask ==
  /\ latencyRunning # NoIdentity /\ latencyRunning' = NoIdentity
  /\ DelRequest(latencyRunning)
  /\ lowWanted' = IF latencyRunning \in overrun THEN lowWanted ELSE lowWanted \ {latencyRunning}
  /\ UNCHANGED <<latencyTimers, latencyAt, overrun, untimed>>

LatencyNext ==
  \/ FrameAwareInit \/ FrameAwareDisable
  \/ \E id \in Identities, op \in {"add", "delete"}, formed \in BOOLEAN :
       HandleNetworkLatencyRequest(id, op, formed)
  \/ \E opens \in BOOLEAN : AddRequest(opens)
  \/ SubmitAutoDisable \/ HandleDelRequest
  \/ \E id \in Identities : AutoDisableStarts(id)
  \/ AutoDisableTask

(* The latency is low exactly while somebody asks for it, unless the       *)
(* switcher failed or was replaced under the requests; a request that was  *)
(* neither withdrawn nor timed out counts, unless it was renewed while its *)
(* old timeout ran; and every request has a timeout that will end it,      *)
(* unless a repair of the plugin threw the timeout away.                   *)
LatencyRight ==
  /\ lowLatency => latencyRequests # {}
  /\ latencyRequests # {} => lowLatency \/ switchFailed
  /\ lowWanted \subseteq latencyRequests \cup overrun
  /\ \A id \in latencyRequests :
       \/ id \in latencyTimers \cup untimed \/ latencyRunning = id
       \/ latencyAt.id = id

-----------------------------------------------------------------------------
(* The events for the frame scheduler.                                     *)

(* What the event says, each number on its own.                            *)
NumberOf(text) ==
  CASE text \in {"number", "wide"} -> text [] text = "missing" -> "zero" [] OTHER -> "minus_one"
(* The long that strtol returns is cast to int before its range is tested. *)
Narrowed(number) == IF number = "wide" THEN "low_bits" ELSE number
(* ConvertToInteger looks at errno, which strtol sets and nobody clears.   *)
ConvertToInteger(texts, i) ==
  IF frameErrno \/ \E j \in 1..(i - 1) : texts[j] = "overflow"
    THEN IF texts[i] = "missing" THEN "zero" ELSE "minus_one"
    ELSE Narrowed(NumberOf(texts[i]))
Complete(type, texts) ==
  \A i \in DOMAIN texts : texts[i] = "missing" => type = "WINDOW_FOCUS" /\ i = 1
Spoilt(texts) == frameErrno \/ \E j \in DOMAIN texts : texts[j] = "overflow"

(* DispatchResource of one of FrameTypes.  zero: the value of the event is *)
(* 0, which a change of groups must be.                                    *)
HandleFrameEvent(type, texts, zero) ==
  /\ Complete(type, texts)
  /\ frameErrno' = Spoilt(texts)
  /\ IF type = "CGROUP_ADJUSTER" /\ ~zero
       THEN UNCHANGED <<frameHeard, frameAsked, frameSpoilt>>
       ELSE /\ frameHeard' = FrameCall(type, [i \in DOMAIN texts |-> ConvertToInteger(texts, i)])
            /\ frameAsked' = FrameCall(type, [i \in DOMAIN texts |-> NumberOf(texts[i])])
            /\ frameSpoilt' = Spoilt(texts)
(* Another call of the thread fails and sets errno (external).             *)
OtherErrno == frameErrno /\ frameErrno' = FALSE /\ UNCHANGED <<frameHeard, frameAsked, frameSpoilt>>

FrameNext ==
  \/ \E type \in FrameTypes, zero \in BOOLEAN :
       \E texts \in [1..FrameKeys[type] -> Texts] : HandleFrameEvent(type, texts, zero)
  \/ OtherErrno

(* The plugin as a whole.                                                  *)
FrameAwareSpec ==
  /\ LatencyInit /\ FrameInit
  /\ [][\/ LatencyNext /\ UNCHANGED frameVars
        \/ FrameNext /\ UNCHANGED latencyVars]_<<latencyVars, frameVars>>

(* The frame scheduler is given the numbers of the event in their order,   *)
(* -1 for one that cannot be read, and for one beyond int not -1 but its   *)
(* low 32 bits.  All are -1 after a number beyond long, also the ones of   *)
(* later events, until something else sets errno.                          *)
FrameNumbersRight ==
  \/ frameHeard = FrameCall(frameAsked.type,
                            [i \in DOMAIN frameAsked.args |-> Narrowed(frameAsked.args[i])])
  \/ frameSpoilt

FrameAwareRight == LatencyRight /\ FrameNumbersRight
=============================================================================
