------------------------------- MODULE Routing -------------------------------
(***************************************************************************)
(* How a message is routed: Pipeline.send() and Decomposer.route_task(),   *)
(* with the router session they share from message to message, the context *)
(* queued for the main session, and the turns handed to the summary.       *)
(*                                                                         *)
(* The pipeline lock lets one message through at a time: cur, suspended at *)
(* the await `at`.  The router session is a Claude process that answers    *)
(* the instructions it was sent in order; what nobody reads stays in its   *)
(* stream.  What a model answers, and how long it takes, is a choice.      *)
(***************************************************************************)
EXTENDS TurnSummary, Sequences

CONSTANTS
    MaxMessages,   \* bound: messages of the user, numbered as they get the lock
    Agents,        \* background agents whose results come in meanwhile
    RouterLimit,   \* _ROUTER_RESET_THRESHOLD
    EarlierCalls,  \* bound: the counts of earlier router calls to begin with
    SearchOn       \* whether there is a search provider

ASSUME MessagesAssumption == MaxMessages \in Nat
ASSUME RouterLimitAssumption == RouterLimit \in Nat \ {0}
ASSUME EarlierAssumption == EarlierCalls \subseteq 0 .. RouterLimit - 1

VARIABLES
    cur,           \* the last message that got the pipeline lock
    at,            \* the await it is suspended at; "idle" when it has gone
    retried,       \* cur is in _retry_after_timeout()
    router,        \* _router_session: "none", "up", or "dead" (process gone)
    routerCalls,   \* _router_call_count
    stream,        \* its unread turns: whose they are
    last,          \* whose response this call read last, 0 for nobody's
    outOfStep,     \* a call to this router session was given up before its end
    queue,         \* _pending_context of the main session
    prefix,        \* prefix_parts of send(): the entries it has gone through
    delivered,     \* observed, per context: the number of prompts it was part of
    dropped,       \* observed: contexts flushed, or lost with a prompt never sent
    made           \* observed: the contexts there have been

lockVars == <<cur, at, retried>>
routerVars == <<router, routerCalls, stream, last, outOfStep>>
contextVars == <<queue, prefix, delivered, dropped, made>>
vars == <<lockVars, routerVars, contextVars, summaryVars>>

(* The context that a search finds for a message, and an agent's result.   *)
Search(m) == <<"search", m>>
Result(a) == <<"result", a>>
Contexts == {Search(m) : m \in 1 .. MaxMessages} \union {Result(a) : a \in Agents}

Entries(q) == {q[i] : i \in DOMAIN q}

(* The pipeline as it is after any number of earlier messages for which no *)
(* router session could be started: their calls have been counted.         *)
Init ==
    /\ cur = 0 /\ at = "idle" /\ retried = FALSE
    /\ router = "none" /\ routerCalls \in EarlierCalls /\ stream = <<>>
    /\ last = 0 /\ outOfStep = FALSE
    /\ queue = <<>> /\ prefix = <<>>
    /\ delivered = [c \in Contexts |-> 0] /\ dropped = {} /\ made = {}
    /\ SummaryInit

-----------------------------------------------------------------------------
(* Reading the models' answers.  An answer has a shape -- an object, one   *)
(* inside other text, broken JSON, none, another type -- and fields.       *)

Shapes == {"object", "embedded", "broken", "absent", "other"}
HasObject(shape) == shape \in {"object", "embedded"}

ClassifierAnswers ==
    [shape : Shapes, intent : {"chat", "task", "bad"},
     confidence : {"sure", "unsure", "missing", "wordy"}]

(* parse_classification(): the default is a task with no confidence; a     *)
(* confidence that is not a number makes float() raise.                    *)
Classification(a) ==
    IF HasObject(a.shape) /\ a.intent # "bad" /\ a.confidence # "missing"
    THEN IF a.confidence = "wordy" THEN "raises"
         ELSE IF a.intent = "chat" /\ a.confidence = "sure" THEN "chat" ELSE "task"
    ELSE "task"

(* A list that is null cannot be made a tuple.                             *)
RouterAnswers ==
    [shape : Shapes, scope : {"trivial", "small", "large", "unknown"},
     agents : {"some", "none", "nullDependencies"}, summary : BOOLEAN]

(* _parse_task_output(): any failure is a small task, and so is a large    *)
(* one without agents.                                                     *)
TaskScope(a) ==
    IF ~HasObject(a.shape) \/ a.scope = "unknown" THEN "fallback"
    ELSE IF a.scope # "large" THEN a.scope
    ELSE CASE a.agents = "some" -> "large"
           [] a.agents = "none" -> "fallback"
           [] OTHER -> "raises"

-----------------------------------------------------------------------------
(* The context queue.                                                      *)

Inject(c) ==
    /\ queue' = Append(queue, c) /\ made' = made \union {c}
    /\ UNCHANGED <<prefix, delivered, dropped>>

Flush ==
    /\ dropped' = dropped \union Entries(queue)
    /\ queue' = <<>>
    /\ UNCHANGED <<prefix, delivered, made>>

(* The message leaves the pipeline and the lock is free.                   *)
End == at' = "idle" /\ retried' = FALSE /\ UNCHANGED cur
Goto(stage) == at' = stage /\ UNCHANGED <<cur, retried>>

-----------------------------------------------------------------------------
(* Pipeline.send(): lock, classify.                                        *)

Enter ==
    /\ at = "idle" /\ cur < MaxMessages
    /\ cur' = cur + 1 /\ at' = "classifying"
    /\ UNCHANGED <<retried, routerVars, contextVars, summaryVars>>

(* A sure chat goes to the main session directly, all else to the router;  *)
(* a classifier that fails ends the message.                               *)
Classified ==
    /\ at = "classifying"
    /\ \/ \E a \in ClassifierAnswers :
            CASE Classification(a) = "chat" -> Goto("sending")
              [] Classification(a) = "task" -> Goto("searching")
              [] Classification(a) = "raises" -> End
       \/ End
    /\ UNCHANGED <<routerVars, contextVars, summaryVars>>

ClassifyTimesOut ==
    /\ at = "classifying"
    /\ Goto("searching")
    /\ UNCHANGED <<routerVars, contextVars, summaryVars>>

-----------------------------------------------------------------------------
(* Decomposer.route_task().                                                *)

(* Phase A is over.  _await_pending_summary() waits for the summary task   *)
(* that is under way, for at most three seconds.                           *)
Searched ==
    /\ at = "searching"
    /\ Goto(IF task = "none" THEN "waited" ELSE "waiting")
    /\ UNCHANGED <<routerVars, contextVars, summaryVars>>

WaitTimesOut ==
    /\ at = "waiting"
    /\ Goto("waited")
    /\ UNCHANGED <<routerVars, contextVars, summaryVars>>

(* The task ends, and with it the wait for it.  A summary session that     *)
(* cannot be started raises in the task, and so in the message that waits. *)
Summarise ==
    /\ TaskStep
    /\ IF at # "waiting" THEN UNCHANGED lockVars
       ELSE IF StartFails THEN End
       ELSE IF task = "sending" \/ task' = "none" THEN Goto("waited")
       ELSE UNCHANGED lockVars
    /\ UNCHANGED <<routerVars, contextVars>>

(* _reset_router_if_needed() lets go of a session that is due before it    *)
(* stops it.                                                               *)
WaitOver ==
    /\ at = "waited"
    /\ IF routerCalls + 1 < RouterLimit
       THEN /\ routerCalls' = routerCalls + 1
            /\ Goto("ensuring")
            /\ UNCHANGED <<router, stream, outOfStep>>
       ELSE IF router = "none"
       THEN /\ routerCalls' = 0
            /\ Goto("ensuring")
            /\ UNCHANGED <<router, stream, outOfStep>>
       ELSE /\ routerCalls' = routerCalls + 1
            /\ router' = "none" /\ stream' = <<>> /\ outOfStep' = FALSE
            /\ Goto("resetting")
    /\ UNCHANGED <<last, contextVars, summaryVars>>

(* ClaudeSession.stop() never raises, and swallows the timeout's cancel.   *)
ResetEnds ==
    /\ at = "resetting"
    /\ routerCalls' = 0
    /\ Goto("ensuring")
    /\ UNCHANGED <<router, stream, last, outOfStep, contextVars, summaryVars>>

(* The main session is to answer: Phase B searches for this message.       *)
Direct == Goto("preparing") /\ UNCHANGED contextVars

(* What the search found, if it found anything, is queued as context.      *)
Prepared ==
    /\ at = "preparing"
    /\ \/ UNCHANGED contextVars
       \/ SearchOn /\ Inject(Search(cur))
    /\ Goto("sending")
    /\ UNCHANGED <<routerVars, summaryVars>>

FallBack ==
    /\ last' = 0
    /\ Direct
    /\ UNCHANGED summaryVars

(* router.send(): the instruction joins the turns the process works on.    *)
Ask(unread) ==
    /\ stream' = Append(unread, cur)
    /\ last' = 0
    /\ Goto("asked")

(* _ensure_router_session() finds a session, starts one, or fails to.      *)
Ensure ==
    /\ at = "ensuring"
    /\ \/ /\ router = "none"
          /\ Goto("starting")
          /\ UNCHANGED <<routerVars, contextVars, summaryVars>>
       \/ /\ router = "up"
          /\ Ask(stream)
          /\ UNCHANGED <<router, routerCalls, outOfStep, contextVars, summaryVars>>
       \/ /\ router = "dead"    \* query() raises
          /\ FallBack
          /\ UNCHANGED <<router, routerCalls, stream, outOfStep>>

RouterStarts ==
    /\ at = "starting"
    /\ router' = "up"
    /\ Ask(<<>>)
    /\ UNCHANGED <<routerCalls, outOfStep, contextVars, summaryVars>>

(* The start raises or takes longer than thirty seconds: nothing is kept.  *)
RouterStartFails ==
    /\ at = "starting"
    /\ FallBack
    /\ UNCHANGED <<router, routerCalls, stream, outOfStep>>

(* The process speaks, once or more, in the turn it is working on, the     *)
(* oldest; what it says last counts.                                       *)
RouterSays ==
    /\ at = "asked" /\ router = "up" /\ last # Head(stream)
    /\ last' = Head(stream)
    /\ UNCHANGED <<lockVars, router, routerCalls, stream, outOfStep, contextVars, summaryVars>>

(* A plan: a turn for the summary if it names one, and the queue is        *)
(* emptied because the main session will not see this message.             *)
Planned(a) ==
    /\ last' = 0
    /\ IF a.summary THEN RecordTurn ELSE UNCHANGED summaryVars
    /\ Flush
    /\ End

(* A reader that stops at the first response leaves the result behind.     *)
LeavesResult ==
    /\ at = "asked" /\ router = "up" /\ last # 0
    /\ last' = 0 /\ Direct
    /\ UNCHANGED <<summaryVars, router, routerCalls, outOfStep, stream>>

(* The turn's result message ends the reading; the last response is        *)
(* parsed, or nothing if there was none.                                   *)
RouterFinishes ==
    /\ at = "asked" /\ router = "up"
    /\ stream' = Tail(stream)
    /\ IF last = 0 THEN FallBack
       ELSE \E a \in RouterAnswers :
              CASE TaskScope(a) = "large" -> Planned(a)
                [] TaskScope(a) = "fallback" -> FallBack
                [] TaskScope(a) = "raises" ->
                     End /\ last' = 0 /\ UNCHANGED <<contextVars, summaryVars>>
                [] OTHER -> last' = 0 /\ Direct /\ UNCHANGED summaryVars
    /\ UNCHANGED <<router, routerCalls, outOfStep>>

(* A slip: no deadline around the reading. *)
RouterNeverTimesOut == FALSE /\ UNCHANGED vars

(* 180 seconds are over.  The generator is closed and the send lock        *)
(* released, but the process still works on the turn and the session stays.*)
RouterTimesOut ==
    /\ at = "asked"
    /\ outOfStep' = TRUE
    /\ FallBack
    /\ UNCHANGED <<router, routerCalls, stream>>

RouterDies ==
    /\ at = "asked" /\ router = "up"
    /\ router' = "dead" /\ stream' = <<>>
    /\ FallBack
    /\ UNCHANGED <<routerCalls, outOfStep>>

(* The consumer of the events fails: the generators are closed, and send() *)
(* reads the rest of the turn, or gives up after five seconds.             *)
RouterReaderLeaves ==
    /\ at = "asked" /\ router = "up"
    /\ \/ stream' = Tail(stream) /\ UNCHANGED outOfStep
       \/ outOfStep' = TRUE /\ UNCHANGED stream
    /\ last' = 0 /\ End
    /\ UNCHANGED <<router, routerCalls, contextVars, summaryVars>>

-----------------------------------------------------------------------------
(* Decomposer.answer() on the main session, watched by                     *)
(* _task_direct_monitored().                                               *)

(* ClaudeSession.send(): a reminder that is due is a turn of its own; if   *)
(* its query raises, the queue has not been touched.                       *)
Reminded ==
    /\ at = "sending"
    /\ \/ Goto("injecting")
       \/ End
    /\ UNCHANGED <<routerVars, contextVars, summaryVars>>

(* An entry joins the prefix and an event is yielded, during which others  *)
(* may be appended to the queue.                                           *)
ShowContext ==
    /\ at = "injecting" /\ Len(prefix) < Len(queue)
    /\ prefix' = Append(prefix, queue[Len(prefix) + 1])
    /\ UNCHANGED <<lockVars, routerVars, queue, delivered, dropped, made, summaryVars>>

(* A slip: the loop goes over a copy of the queue, and misses what came in *)
(* since it began.                                                         *)
ClearQueueOfCopy ==
    /\ at = "injecting" /\ (prefix = <<>> => queue = <<>>)
    /\ queue' = <<>>
    /\ Goto("querying")
    /\ UNCHANGED <<routerVars, prefix, delivered, dropped, made, summaryVars>>

(* The loop has come to the end of the queue, which is cleared; the skills *)
(* are gone through in the same way before the query.                      *)
ClearQueue ==
    /\ at = "injecting" /\ Len(prefix) = Len(queue)
    /\ queue' = <<>>
    /\ Goto("querying")
    /\ UNCHANGED <<routerVars, prefix, delivered, dropped, made, summaryVars>>

Copies(s, c) == Cardinality({i \in DOMAIN s : s[i] = c})

(* What was taken from the queue and is in no prompt yet.                  *)
Taken == IF at = "querying" THEN prefix ELSE <<>>

(* send() ends before its query: what it took is lost, the rest stays.     *)
GiveUp ==
    /\ prefix' = <<>> /\ dropped' = dropped \union Entries(Taken)
    /\ UNCHANGED <<queue, delivered, made>>

(* The prompt is sent with its prefix, or the query raises.                *)
Query ==
    /\ at = "querying"
    /\ \/ /\ delivered' = [c \in Contexts |-> delivered[c] + Copies(prefix, c)]
          /\ prefix' = <<>> /\ UNCHANGED <<queue, dropped, made>>
          /\ Goto("answering")
       \/ GiveUp /\ (End \/ Goto("recovering"))
    /\ UNCHANGED <<routerVars, summaryVars>>

(* The consumer fails at one of send()'s events.                           *)
ReaderLeaves ==
    /\ at \in {"injecting", "querying"}
    /\ GiveUp /\ End
    /\ UNCHANGED <<routerVars, summaryVars>>

(* answer()'s finally: a turn if there was a response.                     *)
AnswerOver == RecordTurn \/ UNCHANGED summaryVars

Answered ==
    /\ at = "answering"
    /\ AnswerOver /\ End
    /\ UNCHANGED <<routerVars, contextVars>>

(* Too many tools: an agent takes over, with a turn that says so.          *)
Promoted ==
    /\ at = "answering"
    /\ RecordTurn /\ Flush /\ End
    /\ UNCHANGED routerVars

(* The wall-clock limit.  Recovery itself is the subject of TaskSession.   *)
AnswerTimesOut ==
    /\ at \in {"sending", "injecting", "querying", "answering"}
    /\ AnswerOver
    /\ GiveUp /\ Goto("recovering")
    /\ UNCHANGED routerVars

(* Failure, promotion, or one retry of the message.                        *)
Recovered ==
    /\ at = "recovering"
    /\ \/ End /\ UNCHANGED <<contextVars, summaryVars>>
       \/ ~retried /\ RecordTurn /\ Flush /\ End
       \/ /\ ~retried /\ retried' = TRUE /\ at' = "sending"
          /\ UNCHANGED <<cur, contextVars, summaryVars>>
    /\ UNCHANGED routerVars

-----------------------------------------------------------------------------
(* A background agent settles: its result is queued for the main session   *)
(* and recorded as a turn.                                                 *)
AgentSettles(a) ==
    /\ Result(a) \notin made
    /\ Inject(Result(a))
    /\ RecordTurn
    /\ UNCHANGED <<lockVars, routerVars>>

Routed ==
    \/ Classified \/ ClassifyTimesOut \/ Searched \/ WaitTimesOut \/ WaitOver \/ ResetEnds \/ Ensure
    \/ RouterStarts \/ RouterStartFails \/ RouterSays \/ RouterFinishes \/ RouterTimesOut
    \/ RouterDies \/ RouterReaderLeaves \/ Prepared
Run ==
    \/ Reminded \/ ShowContext \/ ClearQueue \/ Query \/ ReaderLeaves
    \/ Answered \/ Promoted \/ AnswerTimesOut \/ Recovered

Next ==
    \/ Enter \/ Routed \/ Run
    \/ \E a \in Agents : AgentSettles(a)
    \/ Summarise

Spec == Init /\ [][Next]_vars

(* Timers fire and the code goes on when it is not waiting for a model;    *)
(* no model need ever answer.  A stop and a recovery end.                  *)
FairSpec ==
    /\ Spec
    /\ WF_vars(ClassifyTimesOut) /\ WF_vars(Searched) /\ WF_vars(WaitTimesOut)
    /\ WF_vars(WaitOver) /\ WF_vars(ResetEnds)
    /\ WF_vars(Ensure) /\ WF_vars(RouterStartFails) /\ WF_vars(RouterTimesOut)
    /\ WF_vars(Prepared)
    /\ WF_vars(AnswerTimesOut) /\ WF_vars(Recovered)

-----------------------------------------------------------------------------
(* A context is neither lost nor sent twice, although results come in while*)
(* send() goes through the queue: each there has been is in one place --   *)
(* queued, taken for the prompt that is being built, in exactly one prompt,*)
(* or dropped, by a flush or with a prompt that was never sent.            *)
ContextOnce ==
    \A c \in Contexts :
        Copies(queue, c) + Copies(Taken, c) + delivered[c] + (IF c \in dropped THEN 1 ELSE 0)
            = IF c \in made THEN 1 ELSE 0

(* A message is routed by the answer to its own instruction, unless an     *)
(* earlier call to the same session was given up before its end.           *)
RouteFresh == at = "asked" /\ ~outOfStep => last \in {0, cur}

(* A message's turn ends although no model answers.                        *)
MessageEnds == at # "idle" ~> at = "idle"
=============================================================================
