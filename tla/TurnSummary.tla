----------------------------- MODULE TurnSummary -----------------------------
(***************************************************************************)
(* The summaries a Decomposer keeps of what was said.  Turns go into a     *)
(* bounded buffer (_pending_turns); one background task at a time          *)
(* (_summary_task) has them summarised by a small Claude session of its    *)
(* own and then removes from the buffer as many turns as it had read.      *)
(*                                                                         *)
(* Turns are numbered in the order they are recorded.  The buffer only     *)
(* grows at its right end and only shrinks at its left end, so its content *)
(* is always the interval first .. turns.                                  *)
(***************************************************************************)
EXTENDS Integers, FiniteSets

CONSTANTS
    BufLen,        \* _PENDING_TURNS_MAXLEN
    SummaryLimit   \* _SUMMARY_RESET_THRESHOLD

ASSUME BufLenAssumption == BufLen \in Nat \ {0}
ASSUME SummaryLimitAssumption == SummaryLimit \in Nat \ {0}

VARIABLES
    turns,    \* number of turns recorded so far
    first,    \* the oldest turn in the buffer
    folded,   \* the turns that went into the summary
    evicted,  \* observed: the turns that a full buffer pushed out
    task,     \* where the summary task is: "none" when there is none, or it is done
    low,      \* the turns the task has read are low .. high (its own: 1 .. 0
    high,     \* when there is no task)
    session,  \* whether _summary_session is set
    calls     \* _summary_call_count

summaryVars == <<turns, first, folded, evicted, task, low, high, session, calls>>

Stages == {"none", "created", "starting", "stopping", "restarting", "sending"}

Pending == first .. turns
Unread == turns - first + 1   \* length of the buffer

SummaryInit ==
    /\ turns = 0 /\ first = 1
    /\ folded = {} /\ evicted = {}
    /\ task = "none" /\ low = 1 /\ high = 0
    /\ session = FALSE /\ calls = 0

(* _schedule_summary(): a task that is under way will see the new turn.    *)
Schedule == task' = IF task = "none" THEN "created" ELSE task

(* answer(), route_task() and track_context() append a turn to the deque   *)
(* and schedule; a full deque drops its oldest element.                    *)
RecordTurn ==
    /\ turns' = turns + 1
    /\ IF Unread = BufLen
       THEN first' = first + 1 /\ evicted' = evicted \union {first}
       ELSE UNCHANGED <<first, evicted>>
    /\ Schedule
    /\ UNCHANGED <<folded, low, high, session, calls>>

-----------------------------------------------------------------------------
(* The task: _refresh_summary().                                           *)

Forgets == low' = 1 /\ high' = 0

(* The call is counted; at the threshold the session is replaced first.    *)
Counted ==
    /\ calls' = calls + 1
    /\ task' = IF calls + 1 >= SummaryLimit THEN "stopping" ELSE "sending"

(* The snapshot, then the session if there is one.                         *)
Begins ==
    /\ task = "created"
    /\ \/ /\ Pending = {}
          /\ task' = "none"
          /\ UNCHANGED <<low, high, calls>>
       \/ /\ Pending # {}
          /\ low' = first /\ high' = turns
          /\ IF session THEN Counted ELSE task' = "starting" /\ UNCHANGED calls
    /\ UNCHANGED <<turns, first, folded, evicted, session>>

(* _ensure_summary_session() has started the session: it is kept only now. *)
Starts ==
    /\ task = "starting"
    /\ session' = TRUE
    /\ Counted
    /\ UNCHANGED <<turns, first, folded, evicted, low, high>>

(* start() raises, before or after the reset: the task dies of it, the     *)
(* turns stay.                                                             *)
StartFails ==
    /\ task \in {"starting", "restarting"}
    /\ task' = "none" /\ Forgets
    /\ UNCHANGED <<turns, first, folded, evicted, session, calls>>

(* The stop of the old session ends or takes too long: either way it is    *)
(* forgotten.                                                              *)
OldStopped ==
    /\ task = "stopping"
    /\ session' = FALSE
    /\ task' = "restarting"
    /\ UNCHANGED <<turns, first, folded, evicted, low, high, calls>>

Restarts ==
    /\ task = "restarting"
    /\ session' = TRUE /\ calls' = 0
    /\ task' = "sending"
    /\ UNCHANGED <<turns, first, folded, evicted, low, high>>

(* A slip: clearing the buffer. *)
RemovesAll == Unread

(* How many turns are removed: as many as were read, if that many are left.*)
Removed == IF high - low + 1 <= Unread THEN high - low + 1 ELSE Unread

(* The model answered: the summary is replaced, the turns removed, and a   *)
(* new task follows if others have arrived meanwhile.                      *)
Summarised ==
    /\ task = "sending"
    /\ folded' = folded \union (low .. high)
    /\ first' = first + Removed
    /\ task' = IF first + Removed <= turns THEN "created" ELSE "none"
    /\ Forgets
    /\ UNCHANGED <<turns, evicted, session, calls>>

(* No text, or an exception: the turns stay for the next task.             *)
NotSummarised ==
    /\ task = "sending"
    /\ task' = "none" /\ Forgets
    /\ UNCHANGED <<turns, first, folded, evicted, session, calls>>

TaskStep ==
    Begins \/ Starts \/ StartFails \/ OldStopped \/ Restarts \/ Summarised \/ NotSummarised

SummaryNext == RecordTurn \/ TaskStep

SummarySpec == SummaryInit /\ [][SummaryNext]_summaryVars

-----------------------------------------------------------------------------
TypeOK ==
    /\ turns \in Nat /\ first \in Nat \ {0}
    /\ folded \in SUBSET (1 .. turns) /\ evicted \in SUBSET (1 .. turns)
    /\ task \in Stages
    /\ low \in Nat \ {0} /\ high \in Nat
    /\ session \in BOOLEAN /\ calls \in Nat

(* The turns that are neither in the buffer nor in the summary, and that   *)
(* the buffer did not push out for lack of room: removed after a summary   *)
(* that does not cover them.                                               *)
Lost == (1 .. first - 1) \ (folded \union evicted)

(* Turns that arrive while a summary is being made survive it, although the*)
(* task only counts what it removes -- as long as the buffer has room.  If *)
(* it overflows meanwhile, it pushes out turns that were read, and as many *)
(* new ones are removed in their stead (decomposer.py:572): there is never *)
(* more lost than was pushed out and yet summarised, so nothing is lost    *)
(* that way before the first overflow.                                     *)
TurnsAccounted == Cardinality(Lost) <= Cardinality(folded \intersect evicted)
=============================================================================
