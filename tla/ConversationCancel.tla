-------------------------- MODULE ConversationCancel --------------------------
(***************************************************************************)
(* What a cancellation or an emergency stop means to whoever asked for it, *)
(* stated with history variables over ConversationTask: how much the task  *)
(* still does, whether it sends anything, and which turn is hit.           *)
(***************************************************************************)
EXTENDS ConversationTask

VARIABLES
  late,         \* reads and writes the task made while cancelled, since it was
  underStop,    \* the turn began under an emergency stop that still holds
  cancelledAt,  \* when the turn was first cancelled before being sent
  sawTurn       \* sawTurn[c]: the conversation c saw running is still that turn

history == <<late, underStop, cancelledAt, sawTurn>>
allVars == <<vars, history>>

(* Steps in which the task reads from the microphone or the network, or    *)
(* writes to the network or the speaker.                                   *)
IoSteps == {"captureRead", "connect", "send", "upload", "headers", "read", "write"}

(* The turn has been accepted but has not been looked at, or is recording. *)
Accepted  == phase # "idle" /\ tpc \in {"parked", "stale"}
Recording == tpc \in {"words", "record", "capture", "captureRead", "aborted"}

HistInit ==
  /\ late = 0
  /\ underStop = FALSE
  /\ cancelledAt = "never"
  /\ sawTurn = [c \in Caller |-> FALSE]

CountLate ==
  late' = IF reason' = None THEN 0
          ELSE late + IF tpc \in IoSteps /\ tpc' # tpc THEN 1 ELSE 0

NoteStop ==
  underStop' = CASE tpc = "stale" /\ tpc' # tpc -> reason = EmergencyStop
                 [] tpc' = "parked"             -> FALSE
                 [] OTHER                       -> underStop /\ reason' = EmergencyStop

(* A cancel for this turn, or the stop, raised while the turn was not yet  *)
(* sent; estop.clear may take it back.                                     *)
RaisedHere ==
  \/ \E c \in Caller : sawTurn[c] /\ CancelConversation(c)
  \/ reason # EmergencyStop /\ reason' = EmergencyStop

NoteCancel ==
  cancelledAt' =
    CASE tpc' = "parked" /\ tpc # tpc'                           -> "never"
      [] reason # None /\ reason' = None /\ tpc \notin {"stale", "wind"} -> "never"
      [] RaisedHere /\ Recording                                 -> "recording"
      [] RaisedHere /\ Accepted /\ cancelledAt = "never"         -> "accepted"
      [] OTHER                                                   -> cancelledAt

NoteTurn ==
  sawTurn' = [c \in Caller |->
    phase' # "idle" /\ cpc'[c] = "cancel" /\ (sawTurn[c] \/ cpc[c] # "cancel")]

HistNext == CountLate /\ NoteStop /\ NoteCancel /\ NoteTurn

CancelInit == Init /\ HistInit

CancelSpec == CancelInit /\ [][Next /\ HistNext]_allVars

-----------------------------------------------------------------------------
(* A cancellation takes effect promptly wherever the turn is: after it is  *)
(* raised the task makes at most two more bounded reads or writes (open    *)
(* the connection and send the first block; everywhere else, finish the    *)
(* one it is in) ("checks it between bounded reads and writes",            *)
(* docs/architecture/overview.md:116).                                     *)
StopsPromptly == late <= 2

(* Once recording has begun, a cancelled turn sends nothing to the gateway *)
(* (task.cpp:319), unless estop.clear takes the cancellation back.         *)
CancelledRecordingNotSent == cancelledAt = "recording" => ~connected

(* A turn accepted under an emergency stop that is not released never      *)
(* reaches the gateway and never speaks (task.cpp:299-305).                *)
StoppedTurnStaysSilent ==
  underStop => ~connected /\ phase \notin {"thinking", "speaking"}

-----------------------------------------------------------------------------
(* What makes the three inductive.                                         *)

(* Steps at which the turn has not been sent, and is not being answered. *)
Unsent == {"parked", "stale", "words", "record", "capture", "captureRead", "aborted"}
Over   == {"wind", "forget", "publish"}

SentInOrder ==
  /\ tpc \in Unsent \cup Over \cup {"connect"} => ~connected
  /\ tpc \in Unsent => phase \notin {"thinking", "speaking"}

(* The reads and writes a cancelled task may still make from each step. *)
StillToDo ==
  CASE tpc = "connect"                                                 -> 2
    [] tpc \in IoSteps \ {"connect"}                                   -> 1
    [] OTHER                                                           -> 0

LateCounted ==
  /\ late \in Nat
  /\ reason = None => late = 0
  /\ late + StillToDo <= 2

StopKept ==
  underStop => /\ reason = EmergencyStop
               /\ tpc \in (Unsent \ {"parked", "stale"}) \cup Over
               /\ phase \notin {"thinking", "speaking"}

CancelKept ==
  cancelledAt = "recording" => (Recording /\ reason # None) \/ tpc \in Over

CancelInv == SentInOrder /\ LateCounted /\ StopKept /\ CancelKept

-----------------------------------------------------------------------------
(* conversation.cancel answered true, or the stop was engaged, before      *)
(* anything was sent: the turn sends nothing (device-interface.md:245-253, *)
(* README.md:172).                                                         *)
CancelledTurnNotSent == cancelledAt # "never" => ~connected
=============================================================================
