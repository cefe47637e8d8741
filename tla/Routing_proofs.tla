--------------------------- MODULE Routing_proofs ---------------------------
(***************************************************************************)
(* Proofs about the routing of messages and the summary of their turns, for*)
(* any number of messages and agents, buffers and thresholds of any size:  *)
(* what TurnSummary promises, that Routing implements it, where the queued *)
(* contexts go, and whose answer a message is routed by; and about the     *)
(* files that come with messages: whose they stay, and how often a prompt  *)
(* describes them.                                                         *)
(***************************************************************************)
EXTENDS Routing, Attachments, FiniteSetTheorems, WellFoundedInduction, TLAPS

USE BufLenAssumption, SummaryLimitAssumption

(* The task has read turns and not yet removed them.                       *)
Reading == task \in {"starting", "stopping", "restarting", "sending"}

(* The buffer has room for its turns; what was read was the left end of the*)
(* buffer then, which has since been moved to the right by pushing turns   *)
(* out; and no turn from there on is in the summary.                       *)
BufferInv ==
    /\ first <= turns + 1
    /\ Unread <= BufLen
    /\ evicted \subseteq 1 .. first - 1
    /\ Reading => /\ low <= first /\ low <= high /\ high <= turns
                  /\ folded \subseteq 1 .. low - 1
                  /\ low .. first - 1 \subseteq evicted
    /\ ~Reading => folded \subseteq 1 .. first - 1

IInv == TypeOK /\ BufferInv /\ TurnsAccounted

LEMMA InitIInv == SummaryInit => IInv
  <1> SUFFICES ASSUME SummaryInit PROVE IInv
    OBVIOUS
  <1>1. session \in BOOLEAN
    BY ZenonT(30) DEF SummaryInit
  <1>2. TypeOK
    BY <1>1 DEF SummaryInit, TypeOK, Stages
  <1>3. BufferInv
    BY DEF SummaryInit, BufferInv, Unread, Reading
  <1>4. TurnsAccounted
    <2>1. Lost = {} /\ folded \cap evicted = {}
      BY DEF SummaryInit, Lost
    <2>2. QED
      BY <2>1, FS_EmptySet DEF TurnsAccounted
  <1>5. QED
    BY <1>2, <1>3, <1>4 DEF IInv

LEMMA SessionStep ==
  ASSUME session \in BOOLEAN, [SummaryNext]_summaryVars
  PROVE  session' \in BOOLEAN
  BY Zenon DEF SummaryNext, TaskStep, RecordTurn, Begins, Starts, StartFails, OldStopped,
     Restarts, Summarised, NotSummarised, summaryVars

(* A turn is recorded: the buffer grows at its right end, and if it is full*)
(* loses a turn at its left end.                                           *)
LEMMA RecordEffect ==
  ASSUME TypeOK, BufferInv, RecordTurn
  PROVE  /\ turns' = turns + 1 /\ first' \in Nat \ {0} /\ first <= first'
         /\ first' <= turns' + 1 /\ Unread' <= BufLen
         /\ evicted' \in SUBSET (1 .. turns') /\ evicted' \subseteq 1 .. first' - 1
         /\ evicted \union (first .. first' - 1) \subseteq evicted'
  <1>1. CASE Unread = BufLen
    <2>1. turns' = turns + 1 /\ first' = first + 1 /\ evicted' = evicted \union {first}
      BY <1>1 DEF RecordTurn
    <2>2. first .. first' - 1 = {first} /\ first <= turns
      BY <1>1, <2>1 DEF TypeOK, Unread
    <2>3. Unread' <= BufLen
      BY <1>1, <2>1 DEF TypeOK, Unread
    <2>4. QED
      BY <2>1, <2>2, <2>3 DEF TypeOK, BufferInv
  <1>2. CASE Unread # BufLen
    <2>1. turns' = turns + 1 /\ first' = first /\ evicted' = evicted
      BY <1>2 DEF RecordTurn
    <2>2. Unread' <= BufLen
      BY <1>2, <2>1 DEF TypeOK, Unread, BufferInv
    <2>3. first .. first' - 1 = {}
      BY <2>1 DEF TypeOK
    <2>4. QED
      BY <2>1, <2>2, <2>3 DEF TypeOK, BufferInv
  <1>3. QED
    BY <1>1, <1>2

(* Every variable keeps its type.                                          *)
LEMMA TypeStep == TypeOK /\ BufferInv /\ [SummaryNext]_summaryVars => TypeOK'
  <1> SUFFICES ASSUME TypeOK, BufferInv, [SummaryNext]_summaryVars PROVE TypeOK'
    OBVIOUS
  <1>0. session' \in BOOLEAN
    BY SessionStep DEF TypeOK
  <1> USE DEF Stages, Forgets
  <1>1. CASE RecordTurn
    <2>1. turns' = turns + 1 /\ folded' \in SUBSET (1 .. turns')
      BY <1>1 DEF TypeOK, RecordTurn
    <2>2. first' \in Nat \ {0} /\ evicted' \in SUBSET (1 .. turns')
      BY <1>1, RecordEffect
    <2>3. task' \in Stages /\ UNCHANGED <<low, high, calls>>
      BY <1>1 DEF TypeOK, RecordTurn, Schedule
    <2>4. QED
      BY <1>0, <2>1, <2>2, <2>3 DEF TypeOK
  <1>2. CASE Begins
    BY <1>0, <1>2 DEF TypeOK, Begins, Counted
  <1>3. CASE Starts
    BY <1>0, <1>3 DEF TypeOK, Starts, Counted
  <1>4. CASE StartFails \/ OldStopped \/ Restarts \/ NotSummarised
    <2>1. /\ UNCHANGED <<turns, first, folded, evicted>>
          /\ low' \in Nat \ {0} /\ high' \in Nat
      BY <1>4 DEF TypeOK, StartFails, OldStopped, Restarts, NotSummarised
    <2>2. task' \in Stages /\ calls' \in Nat
      BY <1>4 DEF TypeOK, StartFails, OldStopped, Restarts, NotSummarised
    <2>3. QED
      BY <1>0, <2>1, <2>2 DEF TypeOK
  <1>5. CASE Summarised
    <2>1. low .. high \subseteq 1 .. turns
      BY <1>5 DEF TypeOK, BufferInv, Reading, Summarised
    <2>2. Removed \in Nat
      BY <1>5 DEF TypeOK, BufferInv, Reading, Summarised, Removed, Unread
    <2>3. QED
      BY <1>0, <1>5, <2>1, <2>2 DEF TypeOK, Summarised
  <1>6. CASE UNCHANGED summaryVars
    BY <1>0, <1>6 DEF TypeOK, summaryVars
  <1>7. QED
    BY <1>1, <1>2, <1>3, <1>4, <1>5, <1>6 DEF SummaryNext, TaskStep

(* The buffer keeps to its length, and its left end only moves right.      *)
(* What a buffer that moves on pushes out lies between its two first turns.*)
LEMMA Advance ==
  ASSUME NEW a \in Int, NEW b \in Int, NEW c \in Int, b <= c
  PROVE  /\ a .. (b - 1) \subseteq a .. (c - 1)
         /\ a .. (c - 1) \subseteq (a .. (b - 1)) \union (b .. (c - 1))
  OBVIOUS

LEMMA BufferStep == TypeOK /\ BufferInv /\ [SummaryNext]_summaryVars => BufferInv'
  <1> SUFFICES ASSUME TypeOK, BufferInv, [SummaryNext]_summaryVars PROVE BufferInv'
    OBVIOUS
  <1> USE DEF BufferInv, Unread, Forgets
  <1>1. CASE RecordTurn
    <2>1. /\ first' <= turns' + 1 /\ Unread' <= BufLen /\ turns' = turns + 1
          /\ evicted' \subseteq 1 .. first' - 1 /\ first <= first' /\ first' \in Nat
          /\ evicted \union (first .. first' - 1) \subseteq evicted'
      BY <1>1, RecordEffect
    <2>2. Reading' = Reading /\ UNCHANGED <<low, high, folded>>
      BY <1>1 DEF RecordTurn, Schedule, Reading
    <2>0. low \in Int /\ first \in Int /\ first' \in Int /\ 1 \in Int
      BY <2>1 DEF TypeOK
    <2>3. CASE Reading
      <3>1. ASSUME NEW t \in low .. first' - 1
            PROVE  t \in evicted'
        <4>1. t \in low .. first - 1 \/ t \in first .. first' - 1
          <5>1. low .. (first' - 1)
                  \subseteq (low .. (first - 1)) \union (first .. (first' - 1))
            BY <2>0, <2>1, Advance
          <5>2. QED
            BY <3>1, <5>1
        <4>2. low .. first - 1 \subseteq evicted
          BY <2>3
        <4>3. QED
          BY <2>1, <4>1, <4>2
      <3>2. low' <= first' /\ high' <= turns'
        BY <2>1, <2>2, <2>3 DEF TypeOK
      <3>3. QED
        BY <2>1, <2>2, <2>3, <3>1, <3>2
    <2>4. CASE ~Reading
      <3>1. folded \subseteq 1 .. first - 1
        BY <2>4
      <3>2. 1 .. first - 1 \subseteq 1 .. first' - 1
        BY <2>0, <2>1, Advance
      <3>3. QED
        BY <2>1, <2>2, <2>4, <3>1, <3>2
    <2>5. QED
      BY <2>3, <2>4
  <1>2. CASE Begins
    BY <1>2 DEF TypeOK, Begins, Counted, Pending, Reading
  <1>3. CASE Starts
    BY <1>3 DEF TypeOK, Starts, Counted, Reading
  <1>4. CASE StartFails \/ NotSummarised
    <2>1. Reading /\ ~Reading'
      BY <1>4 DEF StartFails, NotSummarised, Reading
    <2>2. folded \subseteq 1 .. first - 1
      BY <2>1 DEF TypeOK
    <2>3. QED
      BY <1>4, <2>1, <2>2 DEF StartFails, NotSummarised
  <1>5. CASE OldStopped \/ Restarts
    BY <1>5 DEF TypeOK, OldStopped, Restarts, Reading
  <1>6. CASE Summarised
    <2>1. /\ Removed \in Nat /\ Removed <= Unread
          /\ high < first + Removed
      BY <1>6 DEF TypeOK, Reading, Summarised, Removed
    <2>2. folded' \subseteq 1 .. first' - 1
      BY <1>6, <2>1 DEF TypeOK, Reading, Summarised
    <2>3. ~Reading'
      BY <1>6 DEF Reading, Summarised
    <2>4. first' <= turns' + 1 /\ Unread' <= BufLen
      BY <1>6, <2>1 DEF TypeOK, Summarised
    <2>5. evicted' \subseteq 1 .. first' - 1
      BY <1>6, <2>1 DEF TypeOK, Summarised
    <2>6. QED
      BY <2>2, <2>3, <2>4, <2>5
  <1>7. CASE UNCHANGED summaryVars
    BY <1>7 DEF summaryVars, Reading
  <1>8. QED
    BY <1>1, <1>2, <1>3, <1>4, <1>5, <1>6, <1>7 DEF SummaryNext, TaskStep

(* Sets of turns are finite, so they can be counted.                       *)
LEMMA TurnsCount ==
  ASSUME NEW n \in Nat, NEW S, S \subseteq 1 .. n
  PROVE  IsFiniteSet(S) /\ Cardinality(S) \in Nat
  <1>1. IsFiniteSet(1 .. n)
    BY FS_Interval
  <1>2. IsFiniteSet(S)
    BY <1>1, FS_Subset
  <1>3. QED
    BY <1>2, FS_CardinalityType

LEMMA MoreTurns ==
  ASSUME NEW n \in Nat, NEW S, NEW T, S \subseteq T, T \subseteq 1 .. n
  PROVE  /\ Cardinality(S) <= Cardinality(T)
         /\ Cardinality(S) \in Nat /\ Cardinality(T) \in Nat
  BY TurnsCount, FS_Subset

LEMMA IntervalSize ==
  ASSUME NEW a \in Int, NEW b \in Int
  PROVE  /\ IsFiniteSet(a .. b)
         /\ Cardinality(a .. b) = IF a > b THEN 0 ELSE b - a + 1
  BY FS_Interval

(* A full buffer pushes one turn out, which is not lost.                   *)
LEMMA LostByRecording ==
  ASSUME TypeOK, BufferInv, TurnsAccounted, RecordTurn
  PROVE  TurnsAccounted'
  <1>1. Lost' \subseteq Lost /\ Lost \subseteq 1 .. turns
    BY DEF RecordTurn, Lost, TypeOK, BufferInv
  <1>2. /\ folded \cap evicted \subseteq folded' \cap evicted'
        /\ folded' \cap evicted' \subseteq 1 .. turns /\ turns \in Nat
    BY DEF RecordTurn, TypeOK
  <1>3. Cardinality(Lost') <= Cardinality(Lost) /\ Cardinality(Lost') \in Nat
        /\ Cardinality(Lost) \in Nat
    BY <1>1, <1>2, MoreTurns
  <1>4. /\ Cardinality(folded \cap evicted) <= Cardinality(folded' \cap evicted')
        /\ Cardinality(folded \cap evicted) \in Nat /\ Cardinality(folded' \cap evicted') \in Nat
    BY <1>2, MoreTurns
  <1>5. QED
    BY <1>3, <1>4 DEF TurnsAccounted

(***************************************************************************)
(* The summary covers what was read, low .. high.  Of these, `paid' were   *)
(* pushed out, and count from now on as pushed out and summarised; at most *)
(* as many new turns, `newly', are lost.                                   *)
(***************************************************************************)
LEMMA LostBySummarising ==
  ASSUME TypeOK, BufferInv, TurnsAccounted, Summarised
  PROVE  TurnsAccounted'
  <1> DEFINE upTo  == IF high < first THEN high ELSE first - 1
             from  == IF high < first THEN first ELSE high + 1
             to    == first + Removed - 1
             paid  == low .. upTo
             newly == from .. to
             both  == folded \cap evicted
  <1>1. /\ low \in Nat \ {0} /\ high \in Nat /\ first \in Nat \ {0} /\ turns \in Nat
        /\ low <= first /\ low <= high /\ high <= turns /\ first <= turns + 1
        /\ folded \subseteq 1 .. low - 1 /\ low .. first - 1 \subseteq evicted
        /\ evicted \subseteq 1 .. first - 1
    BY DEF TypeOK, BufferInv, Summarised, Reading
  <1>2. Removed \in Nat /\ Removed <= high - low + 1 /\ first + Removed - 1 <= turns
    BY <1>1 DEF Removed, Unread
  <1>3. folded' = folded \cup (low .. high) /\ first' = first + Removed /\ evicted' = evicted
    BY DEF Summarised
  <1>4. /\ upTo \in Int /\ from \in Int /\ to \in Int
        /\ upTo - low + 1 >= 0 /\ to - from + 1 <= upTo - low + 1
    BY <1>1, <1>2
  <1>5. Lost' \subseteq Lost \cup newly /\ Lost \cup newly \subseteq 1 .. turns
    BY <1>1, <1>2, <1>3 DEF Lost
  <1>6. both \cup paid \subseteq folded' \cap evicted'
    BY <1>1, <1>3
  <1>7. both \cap paid = {} /\ both \subseteq 1 .. turns /\ paid \subseteq 1 .. turns
        /\ folded' \cap evicted' \subseteq 1 .. turns
    BY <1>1, <1>3
  <1>8. newly \subseteq 1 .. turns /\ Lost \subseteq 1 .. turns
    BY <1>5
  <1> HIDE DEF upTo, from, to
  <1>9. Cardinality(paid) = upTo - low + 1 /\ Cardinality(newly) <= upTo - low + 1
    <2>1. Cardinality(low .. upTo) = IF low > upTo THEN 0 ELSE upTo - low + 1
      BY <1>1, <1>4, IntervalSize
    <2>2. Cardinality(from .. to) = IF from > to THEN 0 ELSE to - from + 1
      BY <1>4, IntervalSize
    <2>3. QED
      BY <1>1, <1>4, <2>1, <2>2
  <1> HIDE DEF paid, newly, both
  <1>10. Cardinality(Lost \cup newly) <= Cardinality(Lost) + Cardinality(newly)
    <2>1. /\ IsFiniteSet(Lost) /\ IsFiniteSet(newly)
          /\ Cardinality(Lost) \in Nat /\ Cardinality(newly) \in Nat
      BY <1>1, <1>8, TurnsCount
    <2>2. Lost \cap newly \subseteq 1 .. turns
      BY <1>8
    <2>3. Cardinality(Lost \cap newly) \in Nat
      BY <1>1, <2>2, TurnsCount
    <2>4. Cardinality(Lost \cup newly)
            = Cardinality(Lost) + Cardinality(newly) - Cardinality(Lost \cap newly)
      BY <2>1, FS_Union
    <2>5. QED
      BY <2>1, <2>3, <2>4
  <1>11. Cardinality(both \cup paid) = Cardinality(both) + Cardinality(paid)
    <2>1. /\ IsFiniteSet(both) /\ IsFiniteSet(paid)
          /\ Cardinality(both) \in Nat /\ Cardinality(paid) \in Nat
      BY <1>1, <1>7, TurnsCount
    <2>2. Cardinality(both \cup paid)
            = Cardinality(both) + Cardinality(paid) - Cardinality(both \cap paid)
      BY <2>1, FS_Union
    <2>3. Cardinality(both \cap paid) = 0
      BY <1>7, FS_EmptySet
    <2>4. QED
      BY <2>1, <2>2, <2>3
  <1>12. /\ Cardinality(Lost') <= Cardinality(Lost \cup newly)
         /\ Cardinality(Lost') \in Nat /\ Cardinality(Lost \cup newly) \in Nat
    BY <1>1, <1>5, MoreTurns
  <1>13. /\ Cardinality(both \cup paid) <= Cardinality(folded' \cap evicted')
         /\ Cardinality(both \cup paid) \in Nat /\ Cardinality(folded' \cap evicted') \in Nat
    BY <1>1, <1>6, <1>7, MoreTurns
  <1>14. /\ Cardinality(Lost) \in Nat /\ Cardinality(newly) \in Nat
         /\ Cardinality(both) \in Nat /\ Cardinality(paid) \in Nat
    BY <1>1, <1>7, <1>8, TurnsCount
  <1>15. Cardinality(Lost) <= Cardinality(both)
    BY DEF TurnsAccounted, both
  <1>16. QED
    BY <1>9, <1>10, <1>11, <1>12, <1>13, <1>14, <1>15 DEF TurnsAccounted

LEMMA AccountStep == IInv /\ [SummaryNext]_summaryVars => TurnsAccounted'
  <1> SUFFICES ASSUME IInv, [SummaryNext]_summaryVars PROVE TurnsAccounted'
    OBVIOUS
  <1>1. CASE RecordTurn
    BY <1>1, LostByRecording DEF IInv
  <1>2. CASE Summarised
    BY <1>2, LostBySummarising DEF IInv
  <1>3. CASE \/ Begins \/ Starts \/ StartFails \/ OldStopped \/ Restarts \/ NotSummarised
             \/ UNCHANGED summaryVars
    <2>1. UNCHANGED <<folded, first, evicted>>
      BY <1>3, Zenon DEF Begins, Starts, StartFails, OldStopped, Restarts, NotSummarised,
                         summaryVars
    <2>2. QED
      BY <2>1 DEF IInv, TurnsAccounted, Lost
  <1>4. QED
    BY <1>1, <1>2, <1>3 DEF SummaryNext, TaskStep

LEMMA IInvStep == IInv /\ [SummaryNext]_summaryVars => IInv'
  BY TypeStep, BufferStep, AccountStep DEF IInv

(* The strengthened invariant holds.                                       *)
THEOREM SummaryInvariant == SummarySpec => []IInv
  BY InitIInv, IInvStep, PTL DEF SummarySpec

(* Every variable of the summary keeps its type (TypeOK).                  *)
THEOREM SummaryTypeCorrect == SummarySpec => []TypeOK
  <1>1. IInv => TypeOK
    BY DEF IInv
  <1>2. QED
    BY <1>1, SummaryInvariant, PTL

(* The deque of pending turns never holds more than its maximum length,    *)
(* however many turns come while a summary is being made, and removing the *)
(* turns read never takes it below empty.                                  *)
THEOREM BufferBounded == SummarySpec => [](0 <= Unread /\ Unread <= BufLen)
  <1>1. IInv => 0 <= Unread /\ Unread <= BufLen
    BY DEF IInv, TypeOK, BufferInv, Unread
  <1>2. QED
    BY <1>1, SummaryInvariant, PTL

(* The summary task, which counts what it removes, loses turns that are not*)
(* in the summary only in the stead of summarised ones that a full buffer  *)
(* pushed out meanwhile, one for one.                                      *)
THEOREM TurnsAccountedTheorem == SummarySpec => []TurnsAccounted
  <1>1. IInv => TurnsAccounted
    BY DEF IInv
  <1>2. QED
    BY <1>1, SummaryInvariant, PTL

-----------------------------------------------------------------------------
(* Routing implements the summary.                                         *)

(* Each handler leaves the turns alone, records one, or is the summary     *)
(* task's own step.                                                        *)
LEMMA RoutedStep == Routed => RecordTurn \/ UNCHANGED summaryVars
  <1> SUFFICES ASSUME Routed PROVE RecordTurn \/ UNCHANGED summaryVars
    OBVIOUS
  <1>1. CASE Classified \/ ClassifyTimesOut \/ Searched \/ WaitTimesOut
    BY <1>1, Zenon DEF Classified, ClassifyTimesOut, Searched, WaitTimesOut
  <1>2. CASE WaitOver \/ ResetEnds \/ RouterSays \/ RouterReaderLeaves \/ Prepared
    BY <1>2, Zenon DEF WaitOver, ResetEnds, RouterSays, RouterReaderLeaves, Prepared
  <1>3. CASE Ensure
    BY <1>3, Zenon DEF Ensure, FallBack
  <1>4. CASE RouterStarts \/ RouterStartFails \/ RouterTimesOut \/ RouterDies
    BY <1>4, Zenon DEF RouterStarts, RouterStartFails, RouterTimesOut, RouterDies, FallBack
  <1>5. CASE RouterFinishes
    <2>1. CASE last = 0
      BY <1>5, <2>1, Zenon DEF RouterFinishes, FallBack
    <2>2. CASE last # 0
      <3>1. PICK a \in RouterAnswers :
              CASE TaskScope(a) = "large" -> Planned(a)
                [] TaskScope(a) = "fallback" -> FallBack
                [] TaskScope(a) = "raises" ->
                     End /\ last' = 0 /\ UNCHANGED <<contextVars, summaryVars>>
                [] OTHER -> last' = 0 /\ Direct /\ UNCHANGED summaryVars
        BY <1>5, <2>2, Zenon DEF RouterFinishes
      <3>2. \/ Planned(a)
            \/ FallBack
            \/ UNCHANGED <<contextVars, summaryVars>>
            \/ UNCHANGED summaryVars
        BY <3>1
      <3>3. QED
        BY <3>2, Zenon DEF Planned, FallBack
    <2>3. QED
      BY <2>1, <2>2
  <1>6. QED
    BY <1>1, <1>2, <1>3, <1>4, <1>5 DEF Routed

LEMMA RunStep == Run => RecordTurn \/ UNCHANGED summaryVars
  <1> SUFFICES ASSUME Run PROVE RecordTurn \/ UNCHANGED summaryVars
    OBVIOUS
  <1>1. CASE Reminded \/ ShowContext \/ ClearQueue \/ Query \/ ReaderLeaves
    BY <1>1, Zenon DEF Reminded, ShowContext, ClearQueue, Query, ReaderLeaves
  <1>2. CASE Answered \/ Promoted \/ AnswerTimesOut \/ Recovered
    BY <1>2, Zenon DEF Answered, Promoted, AnswerTimesOut, Recovered, AnswerOver
  <1>3. QED
    BY <1>1, <1>2 DEF Run

LEMMA SummaryStep == [Next]_vars => [SummaryNext]_summaryVars
  <1> SUFFICES ASSUME [Next]_vars PROVE [SummaryNext]_summaryVars
    OBVIOUS
  <1>1. CASE Routed \/ Run
    BY <1>1, RoutedStep, RunStep DEF SummaryNext
  <1>2. CASE Enter
    BY <1>2 DEF Enter
  <1>3. CASE \E a \in Agents : AgentSettles(a)
    BY <1>3, Zenon DEF AgentSettles, SummaryNext
  <1>4. CASE Summarise
    BY <1>4, Zenon DEF Summarise, SummaryNext
  <1>5. CASE UNCHANGED vars
    BY <1>5 DEF vars
  <1>6. QED
    BY <1>1, <1>2, <1>3, <1>4, <1>5 DEF Next

(* Routing implements TurnSummary: every step of the pipeline, the router, *)
(* the agents and the summary task is a step of the summary or leaves it   *)
(* alone.                                                                  *)
THEOREM RoutingImplementsSummary == Spec => SummarySpec
  <1>1. Init => SummaryInit
    BY DEF Init
  <1>2. QED
    BY <1>1, SummaryStep, PTL DEF Spec, SummarySpec

(* Turns are accounted for, whatever the messages and agents do: a summary *)
(* takes no more of the new ones with it than the buffer pushed out of     *)
(* those it covers.                                                        *)
THEOREM RoutingAccountsTurns == Spec => []TurnsAccounted
  BY RoutingImplementsSummary, TurnsAccountedTheorem, PTL

-----------------------------------------------------------------------------
(* Sequences without repetitions.                                          *)
Distinct(s) == \A i, j \in DOMAIN s : s[i] = s[j] => i = j

LEMMA TailEntries ==
  ASSUME NEW S, NEW s \in Seq(S), s # <<>>, Distinct(s)
  PROVE  /\ Head(s) \in S /\ Head(s) \in Entries(s)
         /\ Tail(s) \in Seq(S) /\ Distinct(Tail(s))
         /\ Entries(Tail(s)) = Entries(s) \ {Head(s)}
  <1>1. /\ Head(s) = s[1] /\ 1 \in DOMAIN s /\ s[1] \in S /\ Tail(s) \in Seq(S)
        /\ DOMAIN Tail(s) = 1 .. Len(s) - 1 /\ DOMAIN s = 1 .. Len(s) /\ Len(s) \in Nat
        /\ \A i \in DOMAIN Tail(s) : Tail(s)[i] = s[i + 1]
    OBVIOUS
  <1>2. Distinct(Tail(s))
    BY <1>1 DEF Distinct
  <1>3. Entries(Tail(s)) \subseteq Entries(s) \ {Head(s)}
    BY <1>1 DEF Distinct, Entries
  <1>4. ASSUME NEW x \in Entries(s) \ {Head(s)} PROVE x \in Entries(Tail(s))
    <2>1. PICK i \in DOMAIN s : x = s[i]
      BY DEF Entries
    <2>2. i - 1 \in DOMAIN Tail(s) /\ Tail(s)[i - 1] = x
      BY <1>1, <1>4, <2>1
    <2>3. QED
      BY <2>2 DEF Entries
  <1>5. QED
    BY <1>1, <1>2, <1>3, <1>4 DEF Entries

LEMMA AppendedEntries ==
  ASSUME NEW S, NEW s \in Seq(S), NEW k \in S, k \notin Entries(s), Distinct(s)
  PROVE  /\ Append(s, k) \in Seq(S) /\ Distinct(Append(s, k))
         /\ Entries(Append(s, k)) = Entries(s) \cup {k}
  <1>1. /\ DOMAIN s = 1 .. Len(s) /\ Len(s) \in Nat
        /\ DOMAIN Append(s, k) = 1 .. Len(s) + 1
        /\ Append(s, k)[Len(s) + 1] = k
        /\ \A i \in DOMAIN s : Append(s, k)[i] = s[i]
    OBVIOUS
  <1>2. DOMAIN Append(s, k) = DOMAIN s \cup {Len(s) + 1}
    BY <1>1
  <1>3. Distinct(Append(s, k))
    BY <1>1, <1>2 DEF Distinct, Entries
  <1>4. Entries(Append(s, k)) = Entries(s) \cup {k}
    BY <1>1, <1>2 DEF Entries
  <1>5. QED
    BY <1>3, <1>4

LEMMA ShortEntries ==
  ASSUME NEW k
  PROVE  /\ Entries(<<>>) = {} /\ Distinct(<<>>)
         /\ Entries(<<k>>) = {k} /\ Distinct(<<k>>)
  BY DEF Entries, Distinct
-----------------------------------------------------------------------------
(* Where the contexts are, and what is left in the router's stream.        *)

(* What a message is suspended at before it is known whether what its      *)
(* search found will be queued.                                            *)
Awaits == {"classifying", "searching", "waiting", "waited", "resetting", "ensuring",
           "starting", "asked", "preparing"}

MessageInv ==
    /\ cur \in 0 .. MaxMessages
    /\ at # "idle" => cur # 0

(* A router session whose calls all came to their end has nothing unread,  *)
(* but for the instruction it is working on.                               *)
StreamInv ==
    /\ at = "starting" => router = "none"
    /\ at = "asked" => router = "up"
    /\ ~outOfStep => stream = IF at = "asked" THEN <<cur>> ELSE <<>>
    /\ RouteFresh

(* The prefix of a prompt is the part of the queue that has been gone      *)
(* through.                                                                *)
PrefixInv ==
    /\ at \notin {"injecting", "querying"} => prefix = <<>>
    /\ at = "injecting" => /\ prefix \in Seq(Contexts) /\ Len(prefix) <= Len(queue)
                           /\ \A i \in 1 .. Len(prefix) : prefix[i] = queue[i]

(* The contexts there have been are those queued, those taken, those sent  *)
(* and those dropped; none is there twice.                                 *)
Sent == {c \in Contexts : delivered[c] = 1}

QueueInv ==
    /\ queue \in Seq(Contexts) /\ Distinct(queue)
    /\ Taken \in Seq(Contexts) /\ Distinct(Taken)
    /\ delivered \in [Contexts -> {0, 1}]
    /\ dropped \in SUBSET Contexts
    /\ made = Entries(queue) \union Entries(Taken) \union Sent \union dropped
    /\ Entries(queue) \intersect (Entries(Taken) \union Sent \union dropped) = {}
    /\ Entries(Taken) \intersect (Sent \union dropped) = {}
    /\ Sent \intersect dropped = {}

(* The search of a message may find its context until the message leaves   *)
(* the router; those of later messages have not begun.                     *)
Unsearched(m) == m > cur \/ (m = cur /\ at \in Awaits)

SearchInv == \A m \in 1 .. MaxMessages : Unsearched(m) => Search(m) \notin made

ContextInv == MessageInv /\ PrefixInv /\ QueueInv /\ SearchInv

(* What a step does to the contexts: nothing, or it queues a new one,      *)
(* flushes the queue, takes it, or sends or loses what was taken.          *)
Stays == Taken' = Taken /\ UNCHANGED <<queue, delivered, dropped, made>>
Injects(c) ==
    /\ queue' = Append(queue, c) /\ made' = made \union {c}
    /\ Taken' = Taken /\ UNCHANGED <<delivered, dropped>>
Flushes ==
    /\ queue' = <<>> /\ dropped' = dropped \union Entries(queue)
    /\ Taken' = Taken /\ UNCHANGED <<delivered, made>>
Takes ==
    /\ queue' = <<>> /\ Taken = <<>> /\ Taken' = queue
    /\ UNCHANGED <<delivered, dropped, made>>
Sends ==
    /\ delivered' = [c \in Contexts |-> delivered[c] + Copies(Taken, c)]
    /\ Taken' = <<>> /\ UNCHANGED <<queue, dropped, made>>
Loses ==
    /\ dropped' = dropped \union Entries(Taken)
    /\ Taken' = <<>> /\ UNCHANGED <<queue, delivered, made>>

USE MessagesAssumption

LEMMA SearchIsContext ==
  ASSUME NEW m \in 1 .. MaxMessages
  PROVE  Search(m) \in Contexts
  BY DEF Contexts

LEMMA ResultIsContext ==
  ASSUME NEW a \in Agents
  PROVE  Result(a) \in Contexts
  BY DEF Contexts

(* A message's search is named for the message, and no agent's result is.  *)
LEMMA SearchesDiffer ==
  ASSUME NEW m, NEW n
  PROVE  Search(m) = Search(n) => m = n
  BY DEF Search

LEMMA SearchIsNoResult ==
  ASSUME NEW m, NEW a
  PROVE  Search(m) # Result(a)
  BY DEF Search, Result

LEMMA EmptyPlaces == <<>> \in Seq(Contexts) /\ Distinct(<<>>) /\ Entries(<<>>) = {}
  <1>1. <<>> \in Seq(Contexts)
    OBVIOUS
  <1>2. QED
    BY <1>1, ShortEntries

(* How often a context is in a sequence: once if it is, never if it is not.*)
LEMMA Occurrences ==
  ASSUME NEW s \in Seq(Contexts), Distinct(s), NEW c
  PROVE  Copies(s, c) = IF c \in Entries(s) THEN 1 ELSE 0
  <1> DEFINE P == {i \in DOMAIN s : s[i] = c}
  <1>1. CASE c \in Entries(s)
    <2>1. PICK k \in DOMAIN s : s[k] = c
      BY <1>1 DEF Entries
    <2>2. P = {k}
      BY <2>1 DEF Distinct
    <2>3. QED
      BY <1>1, <2>2, FS_Singleton DEF Copies
  <1>2. CASE c \notin Entries(s)
    <2>1. P = {}
      BY <1>2 DEF Entries
    <2>2. QED
      BY <1>2, <2>1, FS_EmptySet DEF Copies
  <1>3. QED
    BY <1>1, <1>2

LEMMA InjectKeeps ==
  ASSUME QueueInv, NEW c \in Contexts, c \notin made, Injects(c)
  PROVE  QueueInv'
  <1>1. c \notin Entries(queue)
    BY DEF QueueInv
  <1>2. /\ queue' \in Seq(Contexts) /\ Distinct(queue')
        /\ Entries(queue') = Entries(queue) \cup {c}
    BY <1>1, AppendedEntries DEF QueueInv, Injects
  <1>3. Taken' = Taken /\ Sent' = Sent /\ made' = made \union {c}
        /\ UNCHANGED <<delivered, dropped>>
    BY DEF Injects, Sent
  <1>4. QED
    BY <1>2, <1>3 DEF QueueInv

LEMMA FlushKeeps ==
  ASSUME QueueInv, Flushes
  PROVE  QueueInv'
  <1>1. Entries(queue) \in SUBSET Contexts
    BY DEF QueueInv, Entries
  <1>2. queue' = <<>> /\ Taken' = Taken /\ Sent' = Sent /\ UNCHANGED <<delivered, made>>
        /\ dropped' = dropped \union Entries(queue)
    BY DEF Flushes, Sent
  <1>3. QED
    BY <1>1, <1>2, EmptyPlaces DEF QueueInv

LEMMA TakeKeeps ==
  ASSUME QueueInv, Takes
  PROVE  QueueInv'
  <1>1. queue' = <<>> /\ Taken = <<>> /\ Taken' = queue /\ Sent' = Sent
        /\ UNCHANGED <<delivered, dropped, made>>
    BY DEF Takes, Sent
  <1>2. QED
    BY <1>1, EmptyPlaces DEF QueueInv

LEMMA SendKeeps ==
  ASSUME QueueInv, Sends
  PROVE  QueueInv'
  <1>1. ASSUME NEW c \in Contexts
        PROVE  delivered[c] + Copies(Taken, c) = IF c \in Entries(Taken) THEN 1 ELSE delivered[c]
    <2>1. delivered[c] \in {0, 1} /\ (c \in Entries(Taken) => delivered[c] = 0)
      BY DEF QueueInv, Sent
    <2>2. Copies(Taken, c) = IF c \in Entries(Taken) THEN 1 ELSE 0
      BY Occurrences DEF QueueInv
    <2>3. QED
      BY <2>1, <2>2
  <1>2. delivered' = [c \in Contexts |-> IF c \in Entries(Taken) THEN 1 ELSE delivered[c]]
    BY <1>1 DEF Sends
  <1>3. Taken' = <<>> /\ UNCHANGED <<queue, dropped, made>>
    BY DEF Sends
  <1>4. Entries(Taken) \in SUBSET Contexts
    BY DEF QueueInv, Entries
  <1>5. delivered' \in [Contexts -> {0, 1}] /\ Sent' = Sent \union Entries(Taken)
    BY <1>2, <1>4 DEF QueueInv, Sent
  <1>6. QED
    BY <1>3, <1>5, EmptyPlaces DEF QueueInv

LEMMA LossKeeps ==
  ASSUME QueueInv, Loses
  PROVE  QueueInv'
  <1>1. Entries(Taken) \in SUBSET Contexts
    BY DEF QueueInv, Entries
  <1>2. Taken' = <<>> /\ Sent' = Sent /\ UNCHANGED <<queue, delivered, made>>
        /\ dropped' = dropped \union Entries(Taken)
    BY DEF Loses, Sent
  <1>3. QED
    BY <1>1, <1>2, EmptyPlaces DEF QueueInv

LEMMA ClassifiedStep ==
  ASSUME Classified
  PROVE  /\ at = "classifying" /\ cur' = cur /\ at' \in {"sending", "searching", "idle"}
         /\ UNCHANGED <<routerVars, contextVars>>
  <1>1. at = "classifying" /\ UNCHANGED <<routerVars, contextVars>>
    BY DEF Classified
  <1>2. CASE End
    BY <1>1, <1>2 DEF End
  <1>3. ASSUME NEW a \in ClassifierAnswers,
               CASE Classification(a) = "chat" -> Goto("sending")
                 [] Classification(a) = "task" -> Goto("searching")
                 [] Classification(a) = "raises" -> End
        PROVE  Goto("sending") \/ Goto("searching") \/ End
    <2>1. Classification(a) \in {"chat", "task", "raises"}
      BY DEF Classification
    <2>2. QED
      BY <1>3, <2>1
  <1>4. QED
    BY <1>1, <1>2, <1>3 DEF Classified, Goto, End

(* An agent's result is queued, or what the search found for the message   *)
(* that goes to the main session by this step.                             *)
InjectsSearch == at = "preparing" /\ at' = "sending" /\ cur' = cur /\ Injects(Search(cur))
ContextStep ==
    \/ Stays \/ InjectsSearch
    \/ \E a \in Agents : Result(a) \notin made /\ Injects(Result(a))
    \/ Flushes \/ Takes \/ Sends \/ Loses

(* The next message, or the same one further on: once a message has left   *)
(* the router it does not come back.                                       *)
LockStep ==
    \/ at = "idle" /\ cur < MaxMessages /\ cur' = cur + 1 /\ at' = "classifying"
    \/ cur' = cur /\ at' = at
    \/ cur' = cur /\ at # "idle" /\ (at' \in Awaits => at \in Awaits)

(* A handler that is not building a prompt before or after.                *)
Elsewhere == at \notin {"injecting", "querying"} /\ at' \notin {"injecting", "querying"}

LEMMA ElsewhereKeeps ==
  ASSUME PrefixInv, Elsewhere, UNCHANGED prefix
  PROVE  PrefixInv' /\ Taken' = Taken
  BY DEF PrefixInv, Elsewhere, Taken

LEMMA ElsewhereStays ==
  ASSUME PrefixInv, Elsewhere, UNCHANGED contextVars
  PROVE  PrefixInv' /\ Stays
  BY ElsewhereKeeps DEF Stays, contextVars

LEMMA ElsewhereFlushes ==
  ASSUME PrefixInv, Elsewhere, Flush
  PROVE  PrefixInv' /\ Flushes
  BY ElsewhereKeeps DEF Flushes, Flush

LEMMA RouterEnds ==
  ASSUME RouterFinishes
  PROVE  /\ at = "asked" /\ cur' = cur /\ stream' = Tail(stream)
         /\ at' \in {"preparing", "idle"}
         /\ UNCHANGED <<router, outOfStep>>
         /\ UNCHANGED contextVars \/ Flush
  <1>1. at = "asked" /\ stream' = Tail(stream) /\ UNCHANGED <<router, outOfStep>>
    BY DEF RouterFinishes
  <1>2. FallBack \/ Direct \/ (\E a \in RouterAnswers : Planned(a))
        \/ (End /\ UNCHANGED contextVars)
    <2>1. CASE last = 0
      BY <2>1 DEF RouterFinishes
    <2>2. CASE last # 0
      <3>1. PICK a \in RouterAnswers :
              CASE TaskScope(a) = "large" -> Planned(a)
                [] TaskScope(a) = "fallback" -> FallBack
                [] TaskScope(a) = "raises" ->
                     End /\ last' = 0 /\ UNCHANGED <<contextVars, summaryVars>>
                [] OTHER -> last' = 0 /\ Direct /\ UNCHANGED summaryVars
        BY <2>2, Zenon DEF RouterFinishes
      <3>2. QED
        BY <3>1
    <2>3. QED
      BY <2>1, <2>2
  <1>3. CASE FallBack \/ Direct
    BY <1>1, <1>3 DEF FallBack, Direct, Goto
  <1>4. CASE \E a \in RouterAnswers : Planned(a)
    BY <1>1, <1>4 DEF Planned, End
  <1>5. CASE End /\ UNCHANGED contextVars
    BY <1>1, <1>5 DEF End
  <1>6. QED
    BY <1>2, <1>3, <1>4, <1>5

(* Building the prompt.                                                    *)
LEMMA ShowStep ==
  ASSUME PrefixInv, QueueInv, ShowContext
  PROVE  LockStep /\ PrefixInv' /\ Stays
  <1>1. /\ at = "injecting" /\ at' = at /\ cur' = cur
        /\ UNCHANGED <<queue, delivered, dropped, made>>
        /\ Len(prefix) < Len(queue) /\ prefix' = Append(prefix, queue[Len(prefix) + 1])
    BY DEF ShowContext, lockVars
  <1>2. prefix \in Seq(Contexts) /\ queue \in Seq(Contexts)
        /\ \A i \in 1 .. Len(prefix) : prefix[i] = queue[i]
    BY <1>1 DEF PrefixInv, QueueInv
  <1>3. queue[Len(prefix) + 1] \in Contexts
    BY <1>1, <1>2
  <1>4. /\ prefix' \in Seq(Contexts) /\ Len(prefix') = Len(prefix) + 1
        /\ \A i \in 1 .. Len(prefix) : prefix'[i] = prefix[i]
        /\ prefix'[Len(prefix) + 1] = queue[Len(prefix) + 1]
    BY <1>1, <1>2, <1>3
  <1>5. \A i \in 1 .. Len(prefix') : i \in 1 .. Len(prefix) \/ i = Len(prefix) + 1
    BY <1>2, <1>4
  <1>6. \A i \in 1 .. Len(prefix') : prefix'[i] = queue'[i]
    BY <1>1, <1>2, <1>4, <1>5
  <1>7. Len(prefix') <= Len(queue')
    BY <1>1, <1>2, <1>4
  <1>8. PrefixInv'
    BY <1>1, <1>4, <1>6, <1>7 DEF PrefixInv
  <1>9. QED
    BY <1>1, <1>8 DEF LockStep, Stays, Taken

LEMMA ClearStep ==
  ASSUME PrefixInv, QueueInv, ClearQueue
  PROVE  LockStep /\ PrefixInv' /\ Takes
  <1>1. /\ at = "injecting" /\ at' = "querying" /\ cur' = cur /\ queue' = <<>>
        /\ UNCHANGED <<prefix, delivered, dropped, made>> /\ Len(prefix) = Len(queue)
    BY DEF ClearQueue, Goto
  <1>2. prefix \in Seq(Contexts) /\ queue \in Seq(Contexts)
        /\ \A i \in 1 .. Len(prefix) : prefix[i] = queue[i]
    BY <1>1 DEF PrefixInv, QueueInv
  <1>3. prefix = queue
    BY <1>1, <1>2
  <1>4. QED
    BY <1>1, <1>3 DEF LockStep, PrefixInv, Takes, Taken, Awaits

LEMMA GiveUpStep ==
  ASSUME PrefixInv, GiveUp, at' \notin {"injecting", "querying"}
  PROVE  PrefixInv' /\ Loses
  BY DEF PrefixInv, GiveUp, Loses, Taken

LEMMA QueryStep ==
  ASSUME PrefixInv, Query
  PROVE  LockStep /\ PrefixInv' /\ (Sends \/ Loses)
  <1>1. at = "querying" /\ cur' = cur /\ at' \in {"answering", "idle", "recovering"}
    BY DEF Query, End, Goto
  <1>2. CASE GiveUp
    BY <1>1, <1>2, GiveUpStep DEF LockStep, Awaits
  <1>3. CASE ~GiveUp
    <2>1. /\ delivered' = [c \in Contexts |-> delivered[c] + Copies(prefix, c)]
          /\ prefix' = <<>> /\ UNCHANGED <<queue, dropped, made>>
      BY <1>3 DEF Query
    <2>2. Taken = prefix /\ Taken' = <<>>
      BY <1>1 DEF Taken
    <2>3. QED
      BY <1>1, <2>1, <2>2 DEF LockStep, Awaits, PrefixInv, Sends
  <1>4. QED
    BY <1>2, <1>3

LEMMA RoutingSteps ==
  ASSUME PrefixInv, QueueInv, [Next]_vars
  PROVE  LockStep /\ PrefixInv' /\ ContextStep
  <1> USE DEF LockStep, ContextStep, Awaits
  <1>0. ASSUME LockStep, Elsewhere, UNCHANGED contextVars \/ Flush
        PROVE  LockStep /\ PrefixInv' /\ ContextStep
    BY <1>0, ElsewhereStays, ElsewhereFlushes
  <1>1. CASE Enter
    BY <1>0, <1>1 DEF Enter, Elsewhere
  <1>2. CASE \/ Classified \/ ClassifyTimesOut \/ Searched \/ WaitTimesOut \/ WaitOver
             \/ ResetEnds
    <2>1. UNCHANGED contextVars
      BY <1>2, Zenon DEF Classified, ClassifyTimesOut, Searched, WaitTimesOut, WaitOver, ResetEnds
    <2>2. CASE Classified
      BY <1>0, <2>2, ClassifiedStep DEF Elsewhere
    <2>3. CASE ClassifyTimesOut \/ Searched \/ WaitTimesOut \/ ResetEnds
      BY <1>0, <2>1, <2>3 DEF ClassifyTimesOut, Searched, WaitTimesOut, ResetEnds, Goto, Elsewhere
    <2>4. CASE WaitOver
      BY <1>0, <2>1, <2>4 DEF WaitOver, Goto, Elsewhere
    <2>5. QED
      BY <1>2, <2>2, <2>3, <2>4
  <1>3. CASE Ensure \/ RouterStarts
    <2>1. at \in {"ensuring", "starting"} /\ UNCHANGED contextVars
      BY <1>3 DEF Ensure, RouterStarts, FallBack, Direct
    <2>2. cur' = cur /\ at' \in {"starting", "asked", "preparing"}
      BY <1>3 DEF Ensure, RouterStarts, FallBack, Direct, Goto, Ask
    <2>3. QED
      BY <1>0, <2>1, <2>2 DEF Elsewhere
  <1>4. CASE RouterStartFails \/ RouterTimesOut \/ RouterDies
    BY <1>0, <1>4 DEF RouterStartFails, RouterTimesOut, RouterDies, FallBack, Direct, Goto,
       Elsewhere
  <1>5. CASE RouterSays
    BY <1>0, <1>5 DEF RouterSays, lockVars, Elsewhere
  <1>6. CASE RouterReaderLeaves
    BY <1>0, <1>6 DEF RouterReaderLeaves, End, Elsewhere
  <1>7. CASE RouterFinishes
    BY <1>0, <1>7, RouterEnds DEF Elsewhere
  <1>8. CASE Prepared
    <2>1. at = "preparing" /\ at' = "sending" /\ cur' = cur
      BY <1>8 DEF Prepared, Goto
    <2>2. CASE UNCHANGED contextVars
      BY <1>0, <2>1, <2>2 DEF Elsewhere
    <2>3. CASE Inject(Search(cur))
      BY <2>1, <2>3, ElsewhereKeeps DEF Elsewhere, Inject, Injects, InjectsSearch
    <2>4. QED
      BY <1>8, <2>2, <2>3 DEF Prepared
  <1>9. CASE Reminded
    <2>1. at = "sending" /\ cur' = cur /\ at' \in {"injecting", "idle"} /\ UNCHANGED contextVars
      BY <1>9 DEF Reminded, Goto, End
    <2>2. prefix' = <<>> /\ Len(prefix') = 0 /\ queue' = queue
      BY <2>1 DEF PrefixInv, contextVars
    <2>3. Len(prefix') <= Len(queue')
      BY <2>2 DEF QueueInv
    <2>4. PrefixInv'
      BY <2>1, <2>2, <2>3 DEF PrefixInv
    <2>5. QED
      BY <2>1, <2>4 DEF Stays, Taken, contextVars
  <1>10. CASE ShowContext \/ ClearQueue \/ Query
    BY <1>10, ShowStep, ClearStep, QueryStep
  <1>11. CASE ReaderLeaves
    BY <1>11, GiveUpStep DEF ReaderLeaves, End
  <1>12. CASE AnswerTimesOut
    BY <1>12, GiveUpStep DEF AnswerTimesOut, Goto
  <1>13. CASE Answered \/ Promoted
    BY <1>0, <1>13 DEF Answered, Promoted, End, Elsewhere
  <1>14. CASE Recovered
    <2>1. at = "recovering" /\ cur' = cur /\ at' \in {"idle", "sending"}
      BY <1>14 DEF Recovered, End
    <2>2. UNCHANGED contextVars \/ Flush
      BY <1>14 DEF Recovered
    <2>3. QED
      BY <1>0, <2>1, <2>2 DEF Elsewhere
  <1>15. CASE \E a \in Agents : AgentSettles(a)
    <2>1. PICK a \in Agents : AgentSettles(a)
      BY <1>15
    <2>2. /\ Result(a) \notin made /\ UNCHANGED <<cur, at, prefix, delivered, dropped>>
          /\ queue' = Append(queue, Result(a)) /\ made' = made \union {Result(a)}
      BY <2>1 DEF AgentSettles, Inject, lockVars
    <2>3. Injects(Result(a)) /\ LockStep
      BY <2>2 DEF Injects, Taken
    <2>4. PrefixInv'
      <3>1. Result(a) \in Contexts /\ queue \in Seq(Contexts)
        BY ResultIsContext DEF QueueInv
      <3>2. Len(queue') = Len(queue) + 1 /\ \A i \in 1 .. Len(queue) : queue'[i] = queue[i]
        BY <2>2, <3>1
      <3>3. QED
        BY <2>2, <3>1, <3>2 DEF PrefixInv
    <2>5. QED
      BY <2>2, <2>3, <2>4
  <1>16. CASE Summarise
    <2>1. UNCHANGED contextVars
      BY <1>16 DEF Summarise
    <2>2. UNCHANGED lockVars \/ (at = "waiting" /\ (End \/ Goto("waited")))
      BY <1>16, Zenon DEF Summarise
    <2>3. CASE UNCHANGED lockVars
      BY <2>1, <2>3 DEF lockVars, contextVars, Stays, Taken, PrefixInv
    <2>4. CASE at = "waiting" /\ (End \/ Goto("waited"))
      BY <1>0, <2>1, <2>4 DEF End, Goto, Elsewhere
    <2>5. QED
      BY <2>2, <2>3, <2>4
  <1>17. CASE UNCHANGED vars
    BY <1>17 DEF vars, lockVars, contextVars, Stays, Taken, PrefixInv
  <1>18. QED
    BY <1>1, <1>2, <1>3, <1>4, <1>5, <1>6, <1>7, <1>8, <1>9, <1>10, <1>11, <1>12, <1>13,
       <1>14, <1>15, <1>16, <1>17 DEF Next, Routed, Run

LEMMA ContextInvStep == ContextInv /\ [Next]_vars => ContextInv'
  <1> SUFFICES ASSUME ContextInv, [Next]_vars PROVE ContextInv'
    OBVIOUS
  <1> USE DEF ContextInv
  <1>1. LockStep /\ ContextStep /\ PrefixInv'
    BY RoutingSteps
  <1>2. MessageInv'
    BY <1>1 DEF LockStep, MessageInv, Awaits
  <1>3. at = "preparing" => cur \in 1 .. MaxMessages
    BY DEF MessageInv
  <1>4. InjectsSearch => Search(cur) \in Contexts /\ Search(cur) \notin made
    BY <1>3, SearchIsContext DEF InjectsSearch, SearchInv, Unsearched, Awaits
  <1>5. QueueInv'
    <2>1. CASE Stays
      BY <2>1 DEF QueueInv, Stays, Sent
    <2>2. CASE InjectsSearch
      BY <1>4, <2>2, InjectKeeps DEF InjectsSearch
    <2>3. CASE \E a \in Agents : Result(a) \notin made /\ Injects(Result(a))
      BY <2>3, ResultIsContext, InjectKeeps
    <2>4. QED
      BY <1>1, <2>1, <2>2, <2>3, FlushKeeps, TakeKeeps, SendKeeps, LossKeeps DEF ContextStep
  <1>6. ASSUME NEW m \in 1 .. MaxMessages, Unsearched(m)'
        PROVE  Search(m) \notin made'
    <2>1. Unsearched(m)
      BY <1>1, <1>6 DEF LockStep, Unsearched, MessageInv
    <2>2. Search(m) \notin made
      BY <2>1 DEF SearchInv
    <2>3. CASE InjectsSearch
      <3>1. m # cur
        BY <1>6, <2>3, <1>3 DEF Unsearched, InjectsSearch, Awaits
      <3>2. QED
        BY <2>2, <2>3, <3>1, SearchesDiffer DEF InjectsSearch, Injects
    <2>4. CASE \E a \in Agents : Result(a) \notin made /\ Injects(Result(a))
      BY <2>2, <2>4, SearchIsNoResult DEF Injects
    <2>5. CASE Stays \/ Flushes \/ Takes \/ Sends \/ Loses
      BY <2>2, <2>5 DEF Stays, Flushes, Takes, Sends, Loses
    <2>6. QED
      BY <1>1, <2>3, <2>4, <2>5 DEF ContextStep
  <1>7. QED
    BY <1>1, <1>2, <1>5, <1>6 DEF SearchInv

LEMMA InitContextInv == Init => ContextInv
  <1> SUFFICES ASSUME Init PROVE ContextInv
    OBVIOUS
  <1>1. /\ queue = <<>> /\ prefix = <<>> /\ made = {} /\ dropped = {} /\ cur = 0 /\ at = "idle"
        /\ delivered = [c \in Contexts |-> 0]
    BY DEF Init
  <1>2. Taken = <<>> /\ Sent = {}
    BY <1>1 DEF Taken, Sent
  <1>3. QueueInv
    BY <1>1, <1>2, EmptyPlaces DEF QueueInv
  <1>4. QED
    BY <1>1, <1>3 DEF ContextInv, MessageInv, PrefixInv, SearchInv

(* No context is lost or sent twice: each there has been is queued, taken  *)
(* for the prompt being built, part of one prompt, or dropped, although    *)
(* results come in while send() is going through the queue, for any number *)
(* of messages and agents.                                                 *)
THEOREM ContextsOnce == Spec => []ContextOnce
  <1>1. ContextInv => ContextOnce
    <2> SUFFICES ASSUME ContextInv, NEW c \in Contexts
                 PROVE  Copies(queue, c) + Copies(Taken, c) + delivered[c]
                          + (IF c \in dropped THEN 1 ELSE 0) = IF c \in made THEN 1 ELSE 0
      BY DEF ContextOnce
    <2>1. QueueInv
      BY DEF ContextInv
    <2>2. /\ Copies(queue, c) = IF c \in Entries(queue) THEN 1 ELSE 0
          /\ Copies(Taken, c) = IF c \in Entries(Taken) THEN 1 ELSE 0
      BY <2>1, Occurrences DEF QueueInv
    <2>3. delivered[c] = IF c \in Sent THEN 1 ELSE 0
      BY <2>1 DEF QueueInv, Sent
    <2>4. QED
      BY <2>1, <2>2, <2>3 DEF QueueInv
  <1>2. QED
    BY <1>1, InitContextInv, ContextInvStep, PTL DEF Spec

LEMMA StreamInvStep == MessageInv /\ StreamInv /\ [Next]_vars => StreamInv'
  <1> SUFFICES ASSUME MessageInv, StreamInv, [Next]_vars PROVE StreamInv'
    OBVIOUS
  <1> USE DEF StreamInv, RouteFresh
  <1>1. CASE /\ UNCHANGED <<router, stream, last, outOfStep>>
             /\ at' \notin {"asked", "starting"} \/ (at' = at /\ cur' = cur)
             /\ at # "asked" \/ (at' = at /\ cur' = cur)
    BY <1>1
  <1>2. CASE Enter
    BY <1>1, <1>2 DEF Enter, routerVars
  <1>3. CASE Classified
    BY <1>1, <1>3, ClassifiedStep DEF routerVars
  <1>4. CASE ClassifyTimesOut \/ Searched \/ WaitTimesOut
    BY <1>1, <1>4 DEF ClassifyTimesOut, Searched, WaitTimesOut, Goto, routerVars
  <1>5. CASE WaitOver
    BY <1>5 DEF WaitOver, Goto
  <1>6. CASE ResetEnds
    BY <1>6 DEF ResetEnds, Goto
  <1>7. CASE Ensure
    <2>1. at = "ensuring" /\ UNCHANGED outOfStep
      BY <1>7 DEF Ensure, routerVars
    <2>2. CASE router = "none" /\ Goto("starting") /\ UNCHANGED routerVars
      BY <2>1, <2>2 DEF Goto, routerVars
    <2>3. CASE router = "up" /\ Ask(stream) /\ UNCHANGED router
      <3>1. at' = "asked" /\ cur' = cur /\ last' = 0 /\ stream' = Append(stream, cur)
        BY <2>3 DEF Ask, Goto
      <3>2. ~outOfStep => stream' = <<cur>>
        BY <2>1, <3>1
      <3>3. QED
        BY <2>1, <2>3, <3>1, <3>2
    <2>4. CASE FallBack /\ UNCHANGED <<router, stream>>
      BY <2>1, <2>4 DEF FallBack, Direct, Goto
    <2>5. QED
      BY <1>7, <2>2, <2>3, <2>4 DEF Ensure
  <1>8. CASE RouterStarts
    BY <1>8 DEF RouterStarts, Ask, Goto
  <1>9. CASE RouterStartFails \/ RouterTimesOut \/ RouterDies
    BY <1>9 DEF RouterStartFails, RouterTimesOut, RouterDies, FallBack, Direct, Goto
  <1>10. CASE RouterSays
    BY <1>10 DEF RouterSays, lockVars
  <1>11. CASE Prepared
    BY <1>1, <1>11 DEF Prepared, Goto, routerVars
  <1>12. CASE RouterReaderLeaves
    BY <1>12 DEF RouterReaderLeaves, End
  <1>13. CASE RouterFinishes
    BY <1>13, RouterEnds
  <1>14. CASE Run
    <2>1. UNCHANGED routerVars /\ cur' = cur
      BY <1>14, Zenon DEF Run, Reminded, ShowContext, ClearQueue, Query, ReaderLeaves, Answered,
         Promoted, AnswerTimesOut, Recovered, Goto, End, lockVars
    <2>2. at # "asked" /\ at' \notin {"asked", "starting"}
      BY <1>14 DEF Run, Reminded, ShowContext, ClearQueue, Query, ReaderLeaves, Answered,
         Promoted, AnswerTimesOut, Recovered, Goto, End, lockVars
    <2>3. QED
      BY <1>1, <2>1, <2>2 DEF routerVars
  <1>15. CASE \E a \in Agents : AgentSettles(a)
    BY <1>1, <1>15 DEF AgentSettles, lockVars, routerVars
  <1>16. CASE Summarise
    <2>1. UNCHANGED routerVars
      BY <1>16 DEF Summarise
    <2>2. UNCHANGED lockVars \/ (at = "waiting" /\ (End \/ Goto("waited")))
      BY <1>16, Zenon DEF Summarise
    <2>3. QED
      BY <1>1, <2>1, <2>2 DEF lockVars, routerVars, End, Goto
  <1>17. CASE UNCHANGED vars
    BY <1>1, <1>17 DEF vars, lockVars, routerVars
  <1>18. QED
    BY <1>2, <1>3, <1>4, <1>5, <1>6, <1>7, <1>8, <1>9, <1>10, <1>11, <1>12,
       <1>13, <1>14, <1>15, <1>16, <1>17 DEF Next, Routed

(* A message is routed by the answer to its own instruction, unless an     *)
(* earlier call to the same router session was given up before its end.    *)
THEOREM RoutesFresh == Spec => []RouteFresh
  <1>1. Init => ContextInv /\ StreamInv
    BY InitContextInv DEF Init, StreamInv, RouteFresh
  <1>2. ContextInv /\ StreamInv /\ [Next]_vars => ContextInv' /\ StreamInv'
    BY ContextInvStep, StreamInvStep DEF ContextInv
  <1>3. StreamInv => RouteFresh
    BY DEF StreamInv
  <1>4. QED
    BY <1>1, <1>2, <1>3, PTL DEF Spec
-----------------------------------------------------------------------------
(***************************************************************************)
(* The files: Attachments.                                                 *)
(***************************************************************************)

(* A set of natural numbers has a least one.                               *)
LEMMA LeastNat ==
  ASSUME NEW S \in SUBSET Nat, S # {}
  PROVE  \E n \in S : \A m \in S : n <= m
  <1> DEFINE R == OpToRel(<, Nat)
  <1>1. IsWellFoundedOn(R, Nat)
    BY NatLessThanWellFounded
  <1>2. \A x, y \in Nat : x < y => <<x, y>> \in R
    BY DEF OpToRel
  <1> HIDE DEF R
  <1>3. PICK x \in S : \A y \in S : ~(<<y, x>> \in R)
    BY <1>1, WFMin
  <1>4. ASSUME NEW m \in S PROVE x <= m
    <2>1. x \in Nat /\ m \in Nat /\ ~(<<m, x>> \in R)
      BY <1>3
    <2>2. ~(m < x)
      BY <1>2, <2>1
    <2>3. QED
      BY <2>1, <2>2
  <1>5. QED
    BY <1>4

-----------------------------------------------------------------------------
Outcomes == {"none", "skipped", "prompted", "told", "lost"}

FileTypes ==
    /\ arrived \subseteq Messages
    /\ groups \in [Albums -> Seq(Messages)]
    /\ job \in [Messages -> Seq(Messages)]
    /\ saved \in [Messages -> SUBSET Messages]
    /\ stage \in [Messages -> {"idle", "getting", "saving"}]
    /\ loop \in Messages \cup {None}
    /\ fate \in [Messages -> [prompts : Nat, end : Outcomes]]
    /\ paths = [m \in Messages |-> paths[m]]

(* A handler that blocks the loop has a part to save.                      *)
StageInv ==
    /\ \A m \in Messages : stage[m] = "idle" <=> job[m] = <<>>
    /\ loop # None => stage[loop] = "saving"

(* Where a part may be: in the group of its album, in the job of a handler *)
(* or among what that has saved.                                           *)
Grouped(k) == \E a \in Albums : k \in Entries(groups[a])
Carries(m, k) == k \in Entries(job[m]) \cup saved[m]
Unseen(k) == k \notin arrived \/ Grouped(k) \/ \E m \in Messages : k \in Entries(job[m])

GroupsInv ==
    \A a \in Albums :
        /\ Distinct(groups[a])
        /\ \A k \in Entries(groups[a]) : k \in arrived /\ AlbumOf[k] = a

JobsInv ==
    \A m \in Messages :
        /\ Distinct(job[m]) /\ Entries(job[m]) \cap saved[m] = {}
        /\ \A k \in saved[m] : fate[k].prompts = 0
        /\ \A k \in Messages : Carries(m, k) => /\ k \in arrived /\ ~Grouped(k)
                                                /\ \A n \in Messages : Carries(n, k) => n = m

UnseenInv == \A k \in Messages : Unseen(k) => fate[k].prompts = 0 /\ paths[k] = {}

PartsInv == GroupsInv /\ JobsInv /\ UnseenInv /\ PartOnce

LEMMA NobodyIsNoMessage == None \notin Messages
  BY FilesAssumption DEF None

LEMMA InitPartsInv == AttachmentsInit => FileTypes /\ StageInv /\ PartsInv
  <1> SUFFICES ASSUME AttachmentsInit PROVE FileTypes /\ StageInv /\ PartsInv
    OBVIOUS
  <1> USE DEF AttachmentsInit
  <1>1. FileTypes
    BY DEF FileTypes, Outcomes
  <1>2. StageInv
    BY DEF StageInv
  <1>3. GroupsInv /\ JobsInv
    BY ShortEntries DEF GroupsInv, JobsInv, Carries
  <1>4. UnseenInv /\ PartOnce
    BY DEF UnseenInv, PartOnce
  <1>5. QED
    BY <1>1, <1>2, <1>3, <1>4 DEF PartsInv

(* Nothing that concerns the parts changes, but for where their files are  *)
(* kept and what became of them.                                           *)
LEMMA PartsUntouched ==
  ASSUME PartsInv, UNCHANGED <<arrived, groups, job, saved, paths, fate>>
  PROVE  PartsInv'
  BY DEF PartsInv, GroupsInv, JobsInv, UnseenInv, PartOnce, Carries, Grouped, Unseen

(* A message comes: nobody has it yet.                                     *)
LEMMA NewcomerIsNew ==
  ASSUME PartsInv, FileTypes, NEW m \in Messages, m \notin arrived
  PROVE  /\ ~Grouped(m) /\ \A n \in Messages : ~Carries(n, m)
         /\ fate[m].prompts = 0 /\ paths[m] = {}
  BY DEF PartsInv, GroupsInv, JobsInv, UnseenInv, Grouped, Unseen

LEMMA AloneKeepsParts ==
  ASSUME PartsInv, FileTypes, NEW m \in Messages, HandleAlone(m)
  PROVE  PartsInv'
  <1>1. /\ m \notin arrived /\ arrived' = arrived \cup {m}
        /\ job' = [job EXCEPT ![m] = <<m>>]
        /\ UNCHANGED <<groups, saved, paths, fate>>
    BY DEF HandleAlone, Arrives, GoesOn, storeVars
  <1>2. /\ Entries(job'[m]) = {m} /\ Distinct(job'[m])
        /\ \A n \in Messages \ {m} : job'[n] = job[n]
    BY <1>1, ShortEntries DEF FileTypes
  <1>3. /\ ~Grouped(m) /\ \A n \in Messages : ~Carries(n, m)
        /\ fate[m].prompts = 0 /\ paths[m] = {}
    BY <1>1, NewcomerIsNew
  <1>4. \A k \in Messages : Grouped(k)' <=> Grouped(k)
    BY <1>1 DEF Grouped
  <1>5. \A n, k \in Messages : Carries(n, k)' => Carries(n, k) \/ (n = m /\ k = m)
    BY <1>1, <1>2 DEF Carries
  <1>6. \A k \in Messages : Unseen(k)' => Unseen(k)
    BY <1>1, <1>2, <1>4 DEF Unseen
  <1>7. GroupsInv'
    BY <1>1 DEF PartsInv, GroupsInv
  <1>8. JobsInv'
    <2> SUFFICES ASSUME NEW n \in Messages
                 PROVE  /\ Distinct(job'[n]) /\ Entries(job'[n]) \cap saved'[n] = {}
                        /\ \A k \in saved'[n] : fate'[k].prompts = 0
                        /\ \A k \in Messages : Carries(n, k)' =>
                              /\ k \in arrived' /\ ~Grouped(k)'
                              /\ \A l \in Messages : Carries(l, k)' => l = n
      BY DEF JobsInv
    <2>1. Distinct(job'[n]) /\ Entries(job'[n]) \cap saved'[n] = {}
      BY <1>1, <1>2, <1>3 DEF PartsInv, JobsInv, Carries
    <2>2. \A k \in saved'[n] : fate'[k].prompts = 0
      BY <1>1 DEF PartsInv, JobsInv
    <2>3. ASSUME NEW k \in Messages, Carries(n, k)'
          PROVE  k \in arrived' /\ ~Grouped(k)' /\ \A l \in Messages : Carries(l, k)' => l = n
      BY <1>1, <1>3, <1>4, <1>5, <2>3 DEF PartsInv, JobsInv
    <2>4. QED
      BY <2>1, <2>2, <2>3
  <1>9. UnseenInv' /\ PartOnce'
    BY <1>1, <1>6 DEF PartsInv, UnseenInv, PartOnce
  <1>10. QED
    BY <1>7, <1>8, <1>9 DEF PartsInv

(* A part joins the group of its album, or opens it.                       *)
LEMMA GroupKeepsParts ==
  ASSUME PartsInv, FileTypes, NEW m \in Messages, OpenGroup(m) \/ JoinGroup(m)
  PROVE  PartsInv'
  <1> DEFINE a == AlbumOf[m]
  <1>1. /\ m \notin arrived /\ arrived' = arrived \cup {m} /\ a \in Albums
        /\ UNCHANGED <<job, saved, paths, fate>>
    BY AlbumsAssumption DEF OpenGroup, JoinGroup, Joins, Arrives, storeVars
  <1>2. /\ ~Grouped(m) /\ \A n \in Messages : ~Carries(n, m)
        /\ fate[m].prompts = 0 /\ paths[m] = {}
    BY <1>1, NewcomerIsNew
  <1>3. /\ Distinct(groups'[a]) /\ Entries(groups'[a]) = Entries(groups[a]) \cup {m}
        /\ \A b \in Albums \ {a} : groups'[b] = groups[b]
    <2>1. CASE OpenGroup(m)
      BY <1>1, <2>1, ShortEntries DEF OpenGroup, FileTypes
    <2>2. CASE JoinGroup(m)
      <3>1. groups' = [groups EXCEPT ![a] = Append(groups[a], m)]
        BY <2>2 DEF JoinGroup, Joins
      <3>2. m \notin Entries(groups[a]) /\ Distinct(groups[a]) /\ groups[a] \in Seq(Messages)
        BY <1>1, <1>2 DEF Grouped, PartsInv, GroupsInv, FileTypes
      <3>3. QED
        BY <1>1, <3>1, <3>2, AppendedEntries DEF FileTypes
    <2>3. QED
      BY <2>1, <2>2
  <1> HIDE DEF a
  <1>4. \A k \in Messages : Grouped(k)' <=> Grouped(k) \/ k = m
    BY <1>1, <1>3 DEF Grouped
  <1>5. \A n, k \in Messages : Carries(n, k)' <=> Carries(n, k)
    BY <1>1 DEF Carries
  <1>6. \A k \in Messages : Unseen(k)' => Unseen(k)
    BY <1>1, <1>4 DEF Unseen
  <1>7. GroupsInv'
    <2> SUFFICES ASSUME NEW b \in Albums
                 PROVE  /\ Distinct(groups'[b])
                        /\ \A k \in Entries(groups'[b]) : k \in arrived' /\ AlbumOf[k] = b
      BY DEF GroupsInv
    <2>1. CASE b = a
      BY <1>1, <1>3, <2>1 DEF PartsInv, GroupsInv, a
    <2>2. CASE b # a
      BY <1>1, <1>3, <2>2 DEF PartsInv, GroupsInv
    <2>3. QED
      BY <2>1, <2>2
  <1>8. JobsInv'
    BY <1>1, <1>2, <1>4, <1>5 DEF PartsInv, JobsInv
  <1>9. UnseenInv' /\ PartOnce'
    BY <1>1, <1>6 DEF PartsInv, UnseenInv, PartOnce
  <1>10. QED
    BY <1>7, <1>8, <1>9 DEF PartsInv

(* The parts of a group become the job of a handler; no other group has    *)
(* them.                                                                   *)
LEMMA ResolveKeepsParts ==
  ASSUME PartsInv, FileTypes, NEW a \in Albums, Resolve(a)
  PROVE  PartsInv'
  <1> DEFINE o == owner[a]
  <1>1. /\ groups' = [groups EXCEPT ![a] = <<>>]
        /\ job' = [job EXCEPT ![o] = groups[a]]
        /\ UNCHANGED <<arrived, saved, paths, fate>>
    BY DEF Resolve, GoesOn, storeVars
  <1> HIDE DEF o
  <1>2. /\ Entries(groups'[a]) = {} /\ Distinct(groups'[a])
        /\ \A b \in Albums \ {a} : groups'[b] = groups[b]
    BY <1>1, ShortEntries DEF FileTypes
  <1>3. /\ \A n \in Messages : n = o => job'[n] = groups[a]
        /\ \A n \in Messages : n # o => job'[n] = job[n]
    BY <1>1 DEF FileTypes
  <1>4. \A k \in Messages : /\ Grouped(k)' => Grouped(k)
                            /\ k \in Entries(groups[a]) => Grouped(k) /\ ~Grouped(k)'
    BY <1>2 DEF Grouped, PartsInv, GroupsInv
  <1>5. \A n, k \in Messages : Carries(n, k)' => Carries(n, k) \/ (n = o /\ k \in Entries(groups[a]))
    BY <1>1, <1>3 DEF Carries
  <1>6. \A k \in Messages : Unseen(k)' => Unseen(k)
    BY <1>1, <1>3, <1>4 DEF Unseen
  <1>7. GroupsInv'
    BY <1>1, <1>2 DEF PartsInv, GroupsInv
  <1>8. JobsInv'
    <2> SUFFICES ASSUME NEW n \in Messages
                 PROVE  /\ Distinct(job'[n]) /\ Entries(job'[n]) \cap saved'[n] = {}
                        /\ \A k \in saved'[n] : fate'[k].prompts = 0
                        /\ \A k \in Messages : Carries(n, k)' =>
                              /\ k \in arrived' /\ ~Grouped(k)'
                              /\ \A l \in Messages : Carries(l, k)' => l = n
      BY DEF JobsInv
    <2>1. Distinct(job'[n])
      BY <1>3 DEF PartsInv, JobsInv, GroupsInv
    <2>2. Entries(job'[n]) \cap saved'[n] = {}
      <3>1. \A k \in saved[n] : k \in Messages /\ Carries(n, k)
        BY DEF FileTypes, Carries
      <3>2. QED
        BY <1>1, <1>3, <1>4, <3>1 DEF PartsInv, JobsInv
    <2>3. \A k \in saved'[n] : fate'[k].prompts = 0
      BY <1>1 DEF PartsInv, JobsInv
    <2>4. ASSUME NEW k \in Messages, Carries(n, k)'
          PROVE  k \in arrived' /\ ~Grouped(k)' /\ \A l \in Messages : Carries(l, k)' => l = n
      BY <1>1, <1>4, <1>5, <2>4 DEF PartsInv, JobsInv, GroupsInv
    <2>5. QED
      BY <2>1, <2>2, <2>3, <2>4
  <1>9. UnseenInv' /\ PartOnce'
    BY <1>1, <1>6 DEF PartsInv, UnseenInv, PartOnce
  <1>10. QED
    BY <1>7, <1>8, <1>9 DEF PartsInv
-----------------------------------------------------------------------------
(* A handler has seen to the first part of its job: done if it was saved.  *)
ContinuesTo(m, done) ==
    /\ job' = [job EXCEPT ![m] = Tail(job[m])]
    /\ \/ /\ Tail(job[m]) # <<>>
          /\ stage' = [stage EXCEPT ![m] = "getting"]
          /\ saved' = [saved EXCEPT ![m] = saved[m] \cup done]
       \/ /\ Tail(job[m]) = <<>>
          /\ stage' = [stage EXCEPT ![m] = "idle"]
          /\ saved' = [saved EXCEPT ![m] = {}]
    /\ fate' \in [Messages -> [prompts : Nat, end : Outcomes]]
    /\ \A k \in Messages :
         fate'[k].prompts = IF Tail(job[m]) = <<>> /\ k \in saved[m] \cup done
                            THEN fate[k].prompts + 1 ELSE fate[k].prompts

LEMMA ContinueEffect ==
  ASSUME FileTypes, NEW m \in Messages, NEW done, Continue(m, done)
  PROVE  ContinuesTo(m, done)
  <1> USE DEF FileTypes, Outcomes
  <1> DEFINE now == IF done = {} THEN {Head(job[m])} ELSE {}
  <1>0. \A k \in Messages : fate[k] \in [prompts : Nat, end : Outcomes]
    OBVIOUS
  <1>1. CASE Tail(job[m]) # <<>>
    <2>1. /\ job' = [job EXCEPT ![m] = Tail(job[m])]
          /\ saved' = [saved EXCEPT ![m] = saved[m] \cup done]
          /\ stage' = [stage EXCEPT ![m] = "getting"]
          /\ Ends(now, "skipped")
      BY <1>1 DEF Continue
    <2> HIDE DEF now
    <2>2. fate' = [k \in Messages |-> IF k \in now THEN [fate[k] EXCEPT !.end = "skipped"]
                                      ELSE fate[k]]
      BY <2>1 DEF Ends
    <2>3. \A k \in Messages : /\ fate'[k] \in [prompts : Nat, end : Outcomes]
                              /\ fate'[k].prompts = fate[k].prompts
      BY <1>0, <2>2
    <2>4. fate' \in [Messages -> [prompts : Nat, end : Outcomes]]
      BY <2>2, <2>3
    <2>5. QED
      BY <1>1, <2>1, <2>3, <2>4 DEF ContinuesTo
  <1>2. CASE Tail(job[m]) = <<>>
    <2> DEFINE all == saved[m] \cup done
    <2>1. /\ job' = [job EXCEPT ![m] = Tail(job[m])]
          /\ saved' = [saved EXCEPT ![m] = {}]
          /\ stage' = [stage EXCEPT ![m] = "idle"]
      BY <1>2 DEF Continue
    <2>2. fate' = [k \in Messages |->
                    IF k \in all
                    THEN [prompts |-> fate[k].prompts + 1, end |-> "prompted"]
                    ELSE IF k \in now
                    THEN [fate[k] EXCEPT !.end = IF all = {} THEN "told" ELSE "skipped"]
                    ELSE fate[k]]
      BY <1>2 DEF Continue
    <2> HIDE DEF all, now
    <2>3. ASSUME NEW k \in Messages
          PROVE  /\ fate'[k] \in [prompts : Nat, end : Outcomes]
                 /\ fate'[k].prompts = IF k \in all THEN fate[k].prompts + 1 ELSE fate[k].prompts
      <3>1. fate[k] \in [prompts : Nat, end : Outcomes]
        BY <1>0
      <3>2. CASE k \in all
        BY <2>2, <3>1, <3>2
      <3>3. CASE k \notin all /\ k \in now
        BY <2>2, <3>1, <3>3
      <3>4. CASE k \notin all /\ k \notin now
        BY <2>2, <3>1, <3>4
      <3>5. QED
        BY <3>2, <3>3, <3>4
    <2>4. fate' \in [Messages -> [prompts : Nat, end : Outcomes]]
      BY <2>2, <2>3
    <2>5. QED
      BY <1>2, <2>1, <2>3, <2>4 DEF ContinuesTo, all
  <1>3. QED
    BY <1>1, <1>2

(* It goes on, described in one prompt at most: what it carries is carried *)
(* by nobody else, and by itself no longer once it is described.           *)
LEMMA ContinueKeepsParts ==
  ASSUME PartsInv, FileTypes, NEW m \in Messages, job[m] # <<>>,
         NEW done \in {{}, {Head(job[m])}}, ContinuesTo(m, done),
         UNCHANGED <<arrived, groups>>,
         \A k \in Messages \ {Head(job[m])} : paths'[k] = paths[k]
  PROVE  PartsInv' /\ saved' \in [Messages -> SUBSET Messages] /\ job' \in [Messages -> Seq(Messages)]
  <1> DEFINE h == Head(job[m])
             rest == Tail(job[m])
  <1>1. /\ Distinct(job[m]) /\ job[m] \in Seq(Messages)
        /\ Entries(job[m]) \cap saved[m] = {} /\ saved[m] \subseteq Messages
    BY DEF PartsInv, JobsInv, FileTypes
  <1>2. /\ h \in Entries(job[m]) /\ h \in Messages
        /\ rest \in Seq(Messages) /\ Distinct(rest) /\ Entries(rest) = Entries(job[m]) \ {h}
    BY <1>1, TailEntries
  <1>3. /\ job'[m] = rest /\ saved'[m] \in {{}, saved[m] \cup done}
        /\ rest = <<>> => saved'[m] = {}
        /\ \A n \in Messages \ {m} : job'[n] = job[n] /\ saved'[n] = saved[n]
    BY DEF ContinuesTo, FileTypes
  <1>4. /\ \A k \in Messages : fate'[k].prompts = fate[k].prompts
                               \/ (rest = <<>> /\ k \in saved[m] \cup done
                                   /\ fate'[k].prompts = fate[k].prompts + 1)
        /\ job' = [job EXCEPT ![m] = rest]
        /\ saved' \in {[saved EXCEPT ![m] = saved[m] \cup done], [saved EXCEPT ![m] = {}]}
    BY DEF ContinuesTo
  <1>5. job' \in [Messages -> Seq(Messages)]
    BY <1>2, <1>4 DEF FileTypes
  <1> HIDE DEF h, rest
  <1>0. done \subseteq {h}
    BY DEF h
  <1>6. saved' \in [Messages -> SUBSET Messages]
    <2>1. saved[m] \cup done \in SUBSET Messages
      BY <1>0, <1>1, <1>2
    <2>2. saved \in [Messages -> SUBSET Messages] /\ {} \in SUBSET Messages
      BY DEF FileTypes
    <2>3. CASE saved' = [saved EXCEPT ![m] = saved[m] \cup done]
      BY <2>1, <2>2, <2>3
    <2>4. CASE saved' = [saved EXCEPT ![m] = {}]
      BY <2>2, <2>4
    <2>5. QED
      BY <1>4, <2>3, <2>4
  <1>7. \A k \in Messages : Grouped(k)' <=> Grouped(k)
    BY DEF Grouped
  <1>8. \A n, k \in Messages : Carries(n, k)' => Carries(n, k)
    BY <1>0, <1>2, <1>3 DEF Carries
  <1>9. Carries(m, h) /\ (\A k \in saved[m] : k \in Messages /\ Carries(m, k))
    BY <1>1, <1>2 DEF Carries
  <1>10. \A k \in Messages : Unseen(k)' => Unseen(k) /\ k # h
    <2> SUFFICES ASSUME NEW k \in Messages, Unseen(k)' PROVE Unseen(k) /\ k # h
      OBVIOUS
    <2>1. /\ h \in arrived /\ ~Grouped(h)
          /\ \A n \in Messages : Carries(n, h) => n = m
      BY <1>2, <1>9 DEF PartsInv, JobsInv
    <2>2. \A n \in Messages : k \in Entries(job'[n]) => k \in Entries(job[n]) /\ k # h
      <3> SUFFICES ASSUME NEW n \in Messages, k \in Entries(job'[n])
                   PROVE  k \in Entries(job[n]) /\ k # h
        OBVIOUS
      <3>1. CASE n = m
        BY <1>2, <1>3, <3>1
      <3>2. CASE n # m
        BY <1>3, <2>1, <3>2 DEF Carries
      <3>3. QED
        BY <3>1, <3>2
    <2>3. QED
      BY <1>7, <2>1, <2>2 DEF Unseen
  <1>11. \A k \in saved[m] \cup {h} : k \in Messages /\ fate[k].prompts = 0
    BY <1>2 DEF PartsInv, JobsInv, UnseenInv, Unseen, FileTypes
  <1>12. GroupsInv'
    BY DEF PartsInv, GroupsInv
  <1>13. JobsInv'
    <2> SUFFICES ASSUME NEW n \in Messages
                 PROVE  /\ Distinct(job'[n]) /\ Entries(job'[n]) \cap saved'[n] = {}
                        /\ \A k \in saved'[n] : fate'[k].prompts = 0
                        /\ \A k \in Messages : Carries(n, k)' =>
                              /\ k \in arrived' /\ ~Grouped(k)'
                              /\ \A l \in Messages : Carries(l, k)' => l = n
      BY DEF JobsInv
    <2>1. Distinct(job'[n])
      BY <1>2, <1>3 DEF PartsInv, JobsInv
    <2>2. Entries(job'[n]) \cap saved'[n] = {}
      <3>1. CASE n = m
        BY <1>0, <1>1, <1>2, <1>3, <3>1
      <3>2. CASE n # m
        BY <1>3, <3>2 DEF PartsInv, JobsInv
      <3>3. QED
        BY <3>1, <3>2
    <2>3. ASSUME NEW k \in saved'[n] PROVE fate'[k].prompts = 0
      <3>1. k \in Messages
        BY <1>6
      <3>2. CASE n = m
        <4>1. k \in saved[m] \cup {h} /\ rest # <<>>
          BY <1>0, <1>3, <3>2
        <4>2. QED
          BY <1>4, <1>11, <3>1, <4>1
      <3>3. CASE n # m
        <4>1. k \in saved[n] /\ Carries(n, k)
          BY <1>3, <3>3 DEF Carries
        <4>2. ~Carries(m, k) /\ fate[k].prompts = 0
          BY <3>1, <3>3, <4>1 DEF PartsInv, JobsInv
        <4>3. k \notin saved[m] \cup done
          BY <1>0, <1>9, <4>2
        <4>4. QED
          BY <1>4, <3>1, <4>2, <4>3
      <3>4. QED
        BY <3>2, <3>3
    <2>4. ASSUME NEW k \in Messages, Carries(n, k)'
          PROVE  k \in arrived' /\ ~Grouped(k)' /\ \A l \in Messages : Carries(l, k)' => l = n
      BY <1>7, <1>8, <2>4 DEF PartsInv, JobsInv
    <2>5. QED
      BY <2>1, <2>2, <2>3, <2>4
  <1>14. UnseenInv'
    <2> SUFFICES ASSUME NEW k \in Messages, Unseen(k)' PROVE fate'[k].prompts = 0 /\ paths'[k] = {}
      BY DEF UnseenInv
    <2>1. Unseen(k) /\ k # h
      BY <1>10
    <2>2. fate[k].prompts = 0 /\ paths'[k] = {}
      BY <2>1 DEF PartsInv, UnseenInv, h
    <2>3. k \notin saved[m]
      BY <1>9, <2>1, <1>1 DEF PartsInv, JobsInv, Unseen, Carries
    <2>4. QED
      BY <1>0, <1>4, <2>1, <2>2, <2>3
  <1>15. PartOnce'
    <2> SUFFICES ASSUME NEW k \in Messages PROVE fate'[k].prompts <= 1
      BY DEF PartOnce
    <2>1. CASE k \in saved[m] \cup {h}
      BY <1>4, <1>11, <2>1
    <2>2. CASE k \notin saved[m] \cup {h}
      BY <1>0, <1>4, <2>2 DEF PartsInv, PartOnce
    <2>3. QED
      BY <2>1, <2>2
  <1>16. QED
    BY <1>5, <1>6, <1>12, <1>13, <1>14, <1>15 DEF PartsInv

(* The handler dies with all its parts.                                    *)
LEMMA RaisingKeepsParts ==
  ASSUME PartsInv, FileTypes, NEW m \in Messages, job[m] # <<>>,
         job' = [job EXCEPT ![m] = <<>>], saved' = [saved EXCEPT ![m] = {}],
         \A k \in Messages : fate'[k].prompts = fate[k].prompts,
         UNCHANGED <<arrived, groups>>,
         \A k \in Messages \ {Head(job[m])} : paths'[k] = paths[k]
  PROVE  PartsInv'
  <1> DEFINE h == Head(job[m])
  <1>1. h \in Messages /\ Carries(m, h)
    BY TailEntries DEF PartsInv, JobsInv, FileTypes, Carries
  <1>2. /\ Entries(job'[m]) = {} /\ Distinct(job'[m]) /\ saved'[m] = {}
        /\ \A n \in Messages \ {m} : job'[n] = job[n] /\ saved'[n] = saved[n]
    BY ShortEntries DEF FileTypes
  <1>3. \A k \in Messages : Grouped(k)' <=> Grouped(k)
    BY DEF Grouped
  <1>4. \A n, k \in Messages : Carries(n, k)' => Carries(n, k) /\ n # m
    BY <1>2 DEF Carries
  <1>5. \A k \in Messages : Unseen(k)' => Unseen(k) /\ k # h
    <2>1. /\ h \in arrived /\ ~Grouped(h)
          /\ \A n \in Messages : Carries(n, h) => n = m
      BY <1>1 DEF PartsInv, JobsInv
    <2>2. \A k, n \in Messages : k \in Entries(job'[n]) => k \in Entries(job[n]) /\ k # h
      BY <1>2, <2>1 DEF Carries
    <2>3. QED
      BY <1>3, <2>1, <2>2 DEF Unseen
  <1>6. GroupsInv'
    BY DEF PartsInv, GroupsInv
  <1>7. JobsInv'
    <2>1. \A n \in Messages : saved'[n] \subseteq Messages
      BY <1>2 DEF FileTypes
    <2>2. \A n \in Messages : \A k \in saved'[n] : fate'[k].prompts = 0
      BY <1>2, <2>1 DEF PartsInv, JobsInv
    <2>3. \A n \in Messages : Distinct(job'[n]) /\ Entries(job'[n]) \cap saved'[n] = {}
      BY <1>2 DEF PartsInv, JobsInv
    <2>4. QED
      BY <1>3, <1>4, <2>2, <2>3 DEF PartsInv, JobsInv
  <1>8. UnseenInv' /\ PartOnce'
    BY <1>5 DEF PartsInv, UnseenInv, PartOnce
  <1>9. QED
    BY <1>6, <1>7, <1>8 DEF PartsInv
-----------------------------------------------------------------------------
(* The paths under which files are kept.                                   *)
Storing == {k \in Messages : paths[k] # {}}

(* No message has more than a file and its copy.                           *)
CountInv ==
    /\ IsFiniteSet(DOMAIN files)
    /\ Cardinality(DOMAIN files) <= 2 * Cardinality(Storing)

(* The cleanup has seen a file before it removes it, and nobody takes a    *)
(* path that exists: it is still the file that was seen.                   *)
CleanerInv ==
    /\ cleaner = [at |-> cleaner.at, dir |-> cleaner.dir, todo |-> cleaner.todo, on |-> cleaner.on]
    /\ cleaner.todo \subseteq DOMAIN files
    /\ cleaner.at = "removing" =>
          /\ cleaner.on \in DOMAIN files /\ files[cleaner.on] \in aged
          /\ cleaner.on \notin cleaner.todo

StoreInv == files = [p \in DOMAIN files |-> files[p]] /\ OwnFile /\ CountInv /\ CleanerInv

LEMMA StoringCount ==
  /\ IsFiniteSet(Storing) /\ Cardinality(Storing) \in Nat
  /\ Cardinality(Storing) <= Cardinality(Messages) /\ Cardinality(Messages) \in Nat
  BY FilesAssumption, FS_Subset, FS_CardinalityType DEF Storing

(* A name is found whatever files there are: not all of the numbers tried  *)
(* can be taken.                                                           *)
LEMMA FirstFreeIsFree ==
  ASSUME CountInv, NEW name \in Seq(Nat), NEW from \in Nat
  PROVE  Free(FirstFree(name, from)) /\ FirstFree(name, from) \in Seq(Nat)
  <1> DEFINE N == Cardinality(Messages)
             tried == from .. from + 2 * N
             IsFirst(n) == /\ Free(Append(name, n))
                           /\ \A k \in from .. n - 1 : ~Free(Append(name, k))
  <1>1. N \in Nat /\ IsFiniteSet(DOMAIN files) /\ Cardinality(DOMAIN files) \in Nat
        /\ Cardinality(DOMAIN files) <= 2 * N
    <2>1. Cardinality(DOMAIN files) \in Nat
      BY FS_CardinalityType DEF CountInv
    <2>2. QED
      BY <2>1, StoringCount DEF CountInv
  <1>2. \A n, k \in Nat : Append(name, n) = Append(name, k) => n = k
    <2> SUFFICES ASSUME NEW n \in Nat, NEW k \in Nat, Append(name, n) = Append(name, k)
                 PROVE  n = k
      OBVIOUS
    <2>1. Append(name, n)[Len(name) + 1] = n /\ Append(name, k)[Len(name) + 1] = k
      OBVIOUS
    <2>2. QED
      BY <2>1
  <1> HIDE DEF N
  <1>3. \E n \in tried : Free(Append(name, n))
    <2> SUFFICES ASSUME \A n \in tried : <<day, Append(name, n)>> \in DOMAIN files PROVE FALSE
      BY DEF Free
    <2> DEFINE f == [n \in tried |-> <<day, Append(name, n)>>]
    <2>1. tried \subseteq Nat
      BY <1>1
    <2>2. f \in [tried -> DOMAIN files]
      OBVIOUS
    <2>3. \A n, k \in tried : f[n] = f[k] => n = k
      BY <1>2, <2>1
    <2>4. IsFiniteSet(tried) /\ Cardinality(tried) = 2 * N + 1
      <3>1. from \in Int /\ from + 2 * N \in Int /\ ~(from > from + 2 * N)
        BY <1>1
      <3>2. Cardinality(from .. from + 2 * N) = (from + 2 * N) - from + 1
        BY <3>1, FS_Interval
      <3>3. QED
        BY <1>1, <3>1, <3>2, FS_Interval
    <2>5. Cardinality(DOMAIN files) < Cardinality(tried)
      BY <1>1, <2>4
    <2> HIDE DEF f, tried
    <2>6. QED
      BY <1>1, <2>2, <2>3, <2>4, <2>5, FS_PigeonHole
  <1>4. \E n \in tried : IsFirst(n)
    <2> DEFINE S == {n \in tried : Free(Append(name, n))}
    <2>1. S \in SUBSET Nat /\ S # {}
      BY <1>1, <1>3
    <2>2. PICK n \in S : \A k \in S : n <= k
      BY <2>1, LeastNat
    <2>3. ASSUME NEW k \in from .. n - 1 PROVE ~Free(Append(name, k))
      <3>1. n \in Nat /\ n <= from + 2 * N /\ k \in Nat /\ k < n /\ k \in tried
        BY <1>1, <2>1, <2>2
      <3>2. k \notin S
        BY <2>2, <3>1
      <3>3. QED
        BY <3>1, <3>2
    <2>4. QED
      BY <2>2, <2>3
  <1>5. CASE Free(name)
    BY <1>5 DEF FirstFree
  <1>6. CASE ~Free(name)
    <2> DEFINE c == CHOOSE n \in tried : IsFirst(n)
    <2>1. c \in tried /\ IsFirst(c)
      BY <1>4
    <2>2. FirstFree(name, from) = Append(name, c)
      BY <1>6 DEF FirstFree, N
    <2>3. c \in Nat
      BY <1>1, <2>1
    <2> HIDE DEF c
    <2>4. QED
      BY <2>1, <2>2, <2>3
  <1>7. QED
    BY <1>5, <1>6

(* A file and its copy are stored under paths nobody uses.                 *)
LEMMA StoringKeepsFiles ==
  ASSUME StoreInv, FileTypes, NEW k \in Messages, paths[k] = {},
         NEW p, NEW q, p \notin DOMAIN files, q \notin DOMAIN files,
         Stored(k, {p, q}), UNCHANGED <<aged, cleaner>>
  PROVE  StoreInv'
  <1>1. /\ DOMAIN files' = DOMAIN files \cup {p, q}
        /\ files' = [x \in DOMAIN files' |-> files'[x]]
        /\ files'[p] = k /\ files'[q] = k
        /\ \A x \in DOMAIN files : files'[x] = files[x]
    BY DEF Stored
  <1>2. paths' = [paths EXCEPT ![k] = {p, q}]
    BY DEF Stored
  <1>3. paths'[k] = {p, q} /\ \A m \in Messages \ {k} : paths'[m] = paths[m]
    BY <1>2 DEF FileTypes
  <1>4. OwnFile'
    BY <1>1, <1>3 DEF StoreInv, OwnFile
  <1>5. CleanerInv'
    BY <1>1 DEF StoreInv, CleanerInv
  <1>6. CountInv'
    <2>1. Storing' = Storing \cup {k} /\ k \notin Storing
      BY <1>3 DEF Storing
    <2>2. Cardinality(Storing') = Cardinality(Storing) + 1
      BY <2>1, StoringCount, FS_AddElement
    <2>3. /\ IsFiniteSet(DOMAIN files \cup {p})
          /\ Cardinality(DOMAIN files \cup {p}) <= Cardinality(DOMAIN files) + 1
          /\ Cardinality(DOMAIN files) \in Nat
      <3>1. IsFiniteSet(DOMAIN files)
        BY DEF StoreInv, CountInv
      <3>2. Cardinality(DOMAIN files) \in Nat
        BY <3>1, FS_CardinalityType
      <3>3. Cardinality(DOMAIN files \cup {p}) = Cardinality(DOMAIN files) + 1
        BY <3>1, FS_AddElement
      <3>4. QED
        BY <3>1, <3>2, <3>3, FS_AddElement
    <2>4. /\ IsFiniteSet((DOMAIN files \cup {p}) \cup {q})
          /\ Cardinality((DOMAIN files \cup {p}) \cup {q}) <= Cardinality(DOMAIN files \cup {p}) + 1
          /\ Cardinality(DOMAIN files \cup {p}) \in Nat
      <3>1. Cardinality(DOMAIN files \cup {p}) \in Nat
        BY <2>3, FS_CardinalityType
      <3>2. QED
        BY <2>3, <3>1, FS_AddElement
    <2>5. DOMAIN files' = (DOMAIN files \cup {p}) \cup {q}
      BY <1>1
    <2>6. Cardinality((DOMAIN files \cup {p}) \cup {q}) \in Nat
      BY <2>4, FS_CardinalityType
    <2>7. Cardinality(DOMAIN files') <= 2 * Cardinality(Storing')
      BY <2>2, <2>3, <2>4, <2>5, <2>6, StoringCount DEF StoreInv, CountInv
    <2>8. QED
      BY <2>4, <2>5, <2>7 DEF CountInv
  <1>7. QED
    BY <1>1, <1>4, <1>5, <1>6 DEF StoreInv

(* What the cleanup removes has been seen to be old.                       *)
LEMMA CleanupKeepsFiles ==
  ASSUME StoreInv, Cleanup
  PROVE  StoreInv'
  <1> USE DEF StoreInv, OwnFile, CountInv, CleanerInv, Storing, NoCleanup, storeVars, handlerVars
  <1>1. ASSUME NEW d \in Days, CleanupBegins(d) PROVE StoreInv'
    BY <1>1 DEF CleanupBegins, InDir
  <1>2. ASSUME NEW p \in cleaner.todo, LooksAt(p) PROVE StoreInv'
    <2>1. p \in DOMAIN files /\ UNCHANGED <<files, paths, aged>>
      BY <1>2 DEF LooksAt
    <2>2. CASE files[p] \in aged
      <3>1. cleaner' = [cleaner EXCEPT !.at = "removing", !.todo = @ \ {p}, !.on = p]
        BY <1>2, <2>2 DEF LooksAt
      <3>2. cleaner' = [at |-> "removing", dir |-> cleaner.dir, todo |-> cleaner.todo \ {p}, on |-> p]
        BY <3>1
      <3>3. QED
        BY <2>1, <2>2, <3>2
    <2>3. CASE files[p] \notin aged
      <3>1. cleaner.at = "looking" /\ cleaner' = [cleaner EXCEPT !.todo = @ \ {p}]
        BY <1>2, <2>3 DEF LooksAt
      <3>2. cleaner' = [at |-> "looking", dir |-> cleaner.dir, todo |-> cleaner.todo \ {p}, on |-> cleaner.on]
        BY <3>1
      <3>3. QED
        BY <2>1, <3>2
    <2>4. QED
      BY <2>2, <2>3
  <1>3. ASSUME Unlinks PROVE StoreInv'
    <2>1. /\ UNCHANGED <<paths, aged>>
          /\ cleaner.on \in DOMAIN files /\ files[cleaner.on] \in aged
          /\ cleaner.on \notin cleaner.todo
          /\ files' = [q \in DOMAIN files \ {cleaner.on} |-> files[q]]
          /\ cleaner' = [cleaner EXCEPT !.at = "looking", !.on = <<>>]
      BY <1>3 DEF Unlinks
    <2>2. /\ DOMAIN files' = DOMAIN files \ {cleaner.on}
          /\ \A q \in DOMAIN files' : files'[q] = files[q]
      BY <2>1
    <2>3. cleaner' = [at |-> "looking", dir |-> cleaner.dir, todo |-> cleaner.todo, on |-> <<>>]
      BY <2>1
    <2>4. OwnFile'
      BY <2>1, <2>2
    <2>5. CleanerInv'
      BY <2>1, <2>2, <2>3
    <2>6. CountInv'
      <3>1. /\ IsFiniteSet(DOMAIN files') /\ Cardinality(DOMAIN files') \in Nat
            /\ Cardinality(DOMAIN files) \in Nat
            /\ Cardinality(DOMAIN files') <= Cardinality(DOMAIN files)
        BY <2>2, FS_Subset, FS_CardinalityType
      <3>2. Storing' = Storing
        BY <2>1
      <3>3. Cardinality(DOMAIN files) <= 2 * Cardinality(Storing)
        OBVIOUS
      <3> HIDE DEF Storing, OwnFile, CleanerInv
      <3>4. Cardinality(DOMAIN files') <= 2 * Cardinality(Storing')
        BY <3>1, <3>2, <3>3, StoringCount
      <3>5. QED
        BY <3>1, <3>4
    <2>7. QED
      BY <2>1, <2>2, <2>4, <2>5, <2>6
  <1>4. ASSUME SeesDirectory PROVE StoreInv'
    <2>1. UNCHANGED <<files, paths, aged>> /\ cleaner.at = "looking"
      BY <1>4 DEF SeesDirectory
    <2>2. cleaner' = [at |-> "emptied", dir |-> cleaner.dir, todo |-> cleaner.todo, on |-> cleaner.on]
          \/ cleaner' = NoCleanup
      BY <1>4 DEF SeesDirectory
    <2>3. QED
      BY <2>1, <2>2
  <1>5. ASSUME RemovesDirectory PROVE StoreInv'
    BY <1>5 DEF RemovesDirectory
  <1>6. QED
    BY <1>1, <1>2, <1>3, <1>4, <1>5 DEF Cleanup
-----------------------------------------------------------------------------
FileInv == FileTypes /\ StageInv /\ PartsInv /\ StoreInv

LEMMA FileInit == AttachmentsInit => FileInv
  <1> SUFFICES ASSUME AttachmentsInit PROVE FileInv
    OBVIOUS
  <1>1. files = <<>> /\ DOMAIN files = {} /\ files = [p \in DOMAIN files |-> files[p]]
    BY DEF AttachmentsInit
  <1>2. OwnFile /\ CleanerInv
    BY DEF AttachmentsInit, OwnFile, CleanerInv, NoCleanup
  <1>3. CountInv
    BY <1>1, FS_EmptySet, StoringCount DEF CountInv
  <1>4. QED
    BY <1>1, <1>2, <1>3, InitPartsInv DEF FileInv, StoreInv

(* The files and the cleanup stay as they are.                             *)
LEMMA FilesUntouched ==
  ASSUME StoreInv, UNCHANGED <<files, paths, aged, cleaner>>
  PROVE  StoreInv'
  BY DEF StoreInv, OwnFile, CountInv, CleanerInv, Storing

LEMMA ArrivalKeepsInv ==
  ASSUME FileInv, NEW m \in Messages, HandleAlone(m) \/ OpenGroup(m) \/ JoinGroup(m)
  PROVE  FileInv'
  <1> USE DEF FileInv
  <1>1. UNCHANGED <<saved, loop, files, paths, aged, cleaner, fate>> /\ loop = None
        /\ arrived' = arrived \cup {m}
    BY DEF HandleAlone, OpenGroup, JoinGroup, Joins, Arrives, storeVars
  <1>2. CASE HandleAlone(m)
    <2>1. /\ job' = [job EXCEPT ![m] = <<m>>] /\ stage' = [stage EXCEPT ![m] = "getting"]
          /\ UNCHANGED groups
      BY <1>2 DEF HandleAlone, GoesOn
    <2>2. <<m>> \in Seq(Messages) /\ <<m>> # <<>>
      OBVIOUS
    <2>3. FileTypes'
      BY <1>1, <2>1, <2>2 DEF FileTypes
    <2>4. StageInv'
      BY <1>1, <2>1, <2>2 DEF StageInv, FileTypes
    <2>5. QED
      BY <1>1, <1>2, <2>3, <2>4, AloneKeepsParts, FilesUntouched
  <1>3. CASE OpenGroup(m) \/ JoinGroup(m)
    <2>1. UNCHANGED <<job, stage>>
      BY <1>3 DEF OpenGroup, JoinGroup
    <2>2. groups' \in [Albums -> Seq(Messages)]
      <3> DEFINE a == AlbumOf[m]
      <3>1. groups' = [groups EXCEPT ![a] = <<m>>] \/ groups' = [groups EXCEPT ![a] = Append(groups[a], m)]
        BY <1>3 DEF OpenGroup, JoinGroup, Joins
      <3>2. a \in Albums
        BY <1>3, AlbumsAssumption DEF OpenGroup, JoinGroup, Joins
      <3> HIDE DEF a
      <3>3. <<m>> \in Seq(Messages) /\ Append(groups[a], m) \in Seq(Messages)
        BY <3>2 DEF FileTypes
      <3>4. QED
        BY <3>1, <3>2, <3>3 DEF FileTypes
    <2>3. FileTypes' /\ StageInv'
      BY <1>1, <2>1, <2>2 DEF FileTypes, StageInv
    <2>4. QED
      BY <1>1, <1>3, <2>3, GroupKeepsParts, FilesUntouched
  <1>4. QED
    BY <1>2, <1>3

LEMMA ResolveKeepsInv ==
  ASSUME FileInv, NEW a \in Albums, Resolve(a)
  PROVE  FileInv'
  <1> USE DEF FileInv
  <1>1. /\ loop = None /\ groups[a] # <<>> /\ groups' = [groups EXCEPT ![a] = <<>>]
        /\ job' = [job EXCEPT ![owner[a]] = groups[a]]
        /\ stage' = [stage EXCEPT ![owner[a]] = "getting"]
        /\ UNCHANGED <<arrived, saved, loop, files, paths, aged, cleaner, fate>>
    BY DEF Resolve, GoesOn, storeVars
  <1>2. groups[a] \in Seq(Messages) /\ <<>> \in Seq(Messages)
    BY DEF FileTypes
  <1>3. FileTypes'
    BY <1>1, <1>2 DEF FileTypes
  <1>4. StageInv'
    BY <1>1, <1>2 DEF StageInv, FileTypes
  <1>5. QED
    BY <1>1, <1>3, <1>4, ResolveKeepsParts, FilesUntouched

(* A handler goes on, with the loop free again.                            *)
LEMMA ContinueKeepsTypes ==
  ASSUME FileTypes, StageInv, NEW m \in Messages, NEW done, ContinuesTo(m, done), loop' = None,
         saved' \in [Messages -> SUBSET Messages], job' \in [Messages -> Seq(Messages)],
         UNCHANGED <<arrived, groups>>, paths' = [k \in Messages |-> paths'[k]]
  PROVE  FileTypes' /\ StageInv'
  <1>1. \/ stage' = [stage EXCEPT ![m] = "getting"] /\ job'[m] # <<>>
        \/ stage' = [stage EXCEPT ![m] = "idle"] /\ job'[m] = <<>>
    BY DEF ContinuesTo, FileTypes
  <1>2. \A n \in Messages \ {m} : job'[n] = job[n]
    BY DEF ContinuesTo, FileTypes
  <1>3. FileTypes'
    BY <1>1 DEF FileTypes, ContinuesTo
  <1>4. StageInv'
    BY <1>1, <1>2 DEF StageInv, FileTypes
  <1>5. QED
    BY <1>3, <1>4

LEMMA DownloadKeepsInv ==
  ASSUME FileInv, NEW m \in Messages, Downloaded(m) \/ DownloadFails(m)
  PROVE  FileInv'
  <1> USE DEF FileInv
  <1>1. CASE Downloaded(m)
    <2>1. /\ loop' = m /\ stage[m] = "getting" /\ stage' = [stage EXCEPT ![m] = "saving"]
          /\ UNCHANGED <<arrived, groups, job, saved, files, paths, aged, cleaner, fate>>
      BY <1>1 DEF Downloaded
    <2>2. FileTypes'
      BY <2>1 DEF FileTypes
    <2>3. StageInv'
      BY <2>1 DEF StageInv, FileTypes
    <2>4. QED
      BY <2>1, <2>2, <2>3, PartsUntouched, FilesUntouched
  <1>2. CASE DownloadFails(m)
    <2>1. /\ loop = None /\ stage[m] = "getting" /\ Continue(m, {})
          /\ UNCHANGED <<arrived, groups, loop, files, paths, aged, cleaner>>
      BY <1>2 DEF DownloadFails, storeVars
    <2>2. job[m] # <<>> /\ ContinuesTo(m, {})
      BY <2>1, ContinueEffect DEF StageInv
    <2>3. paths' = [k \in Messages |-> paths'[k]]
      BY <2>1 DEF FileTypes
    <2>4. PartsInv' /\ saved' \in [Messages -> SUBSET Messages] /\ job' \in [Messages -> Seq(Messages)]
      BY <2>1, <2>2, ContinueKeepsParts
    <2>5. FileTypes' /\ StageInv'
      BY <2>1, <2>2, <2>3, <2>4, ContinueKeepsTypes
    <2>6. QED
      BY <2>1, <2>4, <2>5, FilesUntouched
  <1>3. QED
    BY <1>1, <1>2

(* The part that is saved next is in nobody's store, and its name is free. *)
LEMMA FreePaths ==
  ASSUME FileInv, NEW m \in Messages, loop = m
  PROVE  /\ job[m] # <<>> /\ Head(job[m]) \in Messages /\ paths[Head(job[m])] = {}
         /\ LET p == FreePath(NameOf[Head(job[m])])
            IN /\ p \notin DOMAIN files
               /\ <<day, FirstFree(Append(p[2], Resized), 1)>> \notin DOMAIN files
  <1> USE DEF FileInv
  <1>1. job[m] # <<>>
    BY NobodyIsNoMessage DEF StageInv
  <1> DEFINE k == Head(job[m])
             name == FirstFree(NameOf[k], 2)
  <1>2. k \in Messages /\ k \in Entries(job[m])
    BY <1>1, TailEntries DEF PartsInv, JobsInv, FileTypes
  <1>3. paths[k] = {}
    BY <1>2 DEF PartsInv, UnseenInv, Unseen
  <1> HIDE DEF k
  <1>4. NameOf[k] \in Seq(Nat)
    BY <1>2, NamesAssumption
  <1>5. Free(name) /\ name \in Seq(Nat)
    BY <1>4, FirstFreeIsFree DEF StoreInv
  <1> HIDE DEF name
  <1>6. Append(name, Resized) \in Seq(Nat)
    BY <1>5 DEF Resized
  <1>7. Free(FirstFree(Append(name, Resized), 1))
    BY <1>6, FirstFreeIsFree DEF StoreInv
  <1>8. FreePath(NameOf[k]) = <<day, name>>
    BY DEF FreePath, name
  <1>9. FreePath(NameOf[k])[2] = name
    BY <1>8
  <1>10. FreePath(NameOf[k]) \notin DOMAIN files
    BY <1>5, <1>8 DEF Free
  <1>11. <<day, FirstFree(Append(name, Resized), 1)>> \notin DOMAIN files
    BY <1>7 DEF Free
  <1>12. QED
    BY <1>1, <1>2, <1>3, <1>9, <1>10, <1>11 DEF k

(* The part is saved, under a path or under two.                           *)
LEMMA SavedKeepsInv ==
  ASSUME FileInv, NEW m \in Messages, loop = m, loop' = None,
         NEW p, NEW q, p \notin DOMAIN files, q \notin DOMAIN files,
         Stored(Head(job[m]), {p, q}), Continue(m, {Head(job[m])}),
         UNCHANGED <<arrived, groups, aged, cleaner>>
  PROVE  FileInv'
  <1> USE DEF FileInv
  <1>1. job[m] # <<>> /\ Head(job[m]) \in Messages /\ paths[Head(job[m])] = {}
    BY FreePaths
  <1> DEFINE k == Head(job[m])
  <1>2. paths' = [paths EXCEPT ![k] = {p, q}]
    BY DEF Stored
  <1>3. ContinuesTo(m, {k})
    BY ContinueEffect
  <1> HIDE DEF k
  <1>4. paths' = [n \in Messages |-> paths'[n]] /\ \A n \in Messages \ {k} : paths'[n] = paths[n]
    BY <1>2 DEF FileTypes
  <1>5. PartsInv' /\ saved' \in [Messages -> SUBSET Messages] /\ job' \in [Messages -> Seq(Messages)]
    BY <1>1, <1>3, <1>4, ContinueKeepsParts DEF k
  <1>6. FileTypes' /\ StageInv'
    BY <1>3, <1>4, <1>5, ContinueKeepsTypes
  <1>7. StoreInv'
    BY <1>1, StoringKeepsFiles
  <1>8. QED
    BY <1>5, <1>6, <1>7

LEMMA SaveKeepsInv ==
  ASSUME FileInv, NEW m \in Messages, Save(m)
  PROVE  FileInv'
  <1> USE DEF FileInv
  <1> DEFINE k == Head(job[m])
             p == FreePath(NameOf[k])
  <1>1. /\ loop = m /\ loop' = None /\ UNCHANGED <<arrived, groups, aged, cleaner>>
        /\ \/ Stored(k, {p}) /\ Continue(m, {k})
           \/ UNCHANGED <<files, paths>> /\ Continue(m, {})
    BY DEF Save
  <1>2. job[m] # <<>> /\ p \notin DOMAIN files
    BY <1>1, FreePaths
  <1>3. CASE Stored(k, {p}) /\ Continue(m, {k})
    <2> HIDE DEF p
    <2>1. {p} = {p, p}
      OBVIOUS
    <2>2. Stored(k, {p, p})
      BY <1>3, <2>1
    <2>3. QED
      BY <1>1, <1>2, <1>3, <2>2, SavedKeepsInv
  <1>4. CASE UNCHANGED <<files, paths>> /\ Continue(m, {})
    <2>1. ContinuesTo(m, {}) /\ paths' = [n \in Messages |-> paths'[n]]
      BY <1>4, ContinueEffect DEF FileTypes
    <2>2. PartsInv' /\ saved' \in [Messages -> SUBSET Messages] /\ job' \in [Messages -> Seq(Messages)]
      BY <1>1, <1>2, <1>4, <2>1, ContinueKeepsParts
    <2>3. FileTypes' /\ StageInv'
      BY <1>1, <2>1, <2>2, ContinueKeepsTypes
    <2>4. QED
      BY <1>1, <1>4, <2>2, <2>3, FilesUntouched
  <1>5. QED
    BY <1>1, <1>3, <1>4

LEMMA SaveResizedKeepsInv ==
  ASSUME FileInv, NEW m \in Messages, SaveResized(m)
  PROVE  FileInv'
  <1> DEFINE k == Head(job[m])
             p == FreePath(NameOf[k])
             q == <<day, FirstFree(Append(p[2], Resized), 1)>>
  <1>1. /\ loop = m /\ loop' = None /\ UNCHANGED <<arrived, groups, aged, cleaner>>
        /\ Stored(k, {p, q}) /\ Continue(m, {k})
    BY DEF SaveResized
  <1>2. p \notin DOMAIN files /\ q \notin DOMAIN files
    BY <1>1, FreePaths
  <1> HIDE DEF p, q
  <1>3. QED
    BY <1>1, <1>2, SavedKeepsInv

(* The file stays, but no prompt describes it.                             *)
LEMMA ResizeRaisesKeepsInv ==
  ASSUME FileInv, NEW m \in Messages, ResizeRaises(m)
  PROVE  FileInv'
  <1> USE DEF FileInv
  <1> DEFINE k == Head(job[m])
             p == FreePath(NameOf[k])
             lost == saved[m] \cup {job[m][i] : i \in DOMAIN job[m]}
  <1>1. /\ loop = m /\ loop' = None /\ UNCHANGED <<arrived, groups, aged, cleaner>>
        /\ Stored(k, {p}) /\ Ends(lost, "lost")
        /\ job' = [job EXCEPT ![m] = <<>>] /\ saved' = [saved EXCEPT ![m] = {}]
        /\ stage' = [stage EXCEPT ![m] = "idle"]
    BY DEF ResizeRaises
  <1>2. job[m] # <<>> /\ k \in Messages /\ paths[k] = {} /\ p \notin DOMAIN files
    BY <1>1, FreePaths
  <1> HIDE DEF p, lost
  <1>3. fate' = [n \in Messages |-> IF n \in lost THEN [fate[n] EXCEPT !.end = "lost"] ELSE fate[n]]
    BY <1>1 DEF Ends
  <1>4. \A n \in Messages : /\ fate'[n] \in [prompts : Nat, end : Outcomes]
                            /\ fate'[n].prompts = fate[n].prompts
    BY <1>3 DEF FileTypes, Outcomes
  <1>5. fate' \in [Messages -> [prompts : Nat, end : Outcomes]]
    BY <1>3, <1>4
  <1>6. paths' = [paths EXCEPT ![k] = {p}]
    BY <1>1 DEF Stored
  <1>7. paths' = [n \in Messages |-> paths'[n]]
    BY <1>6 DEF FileTypes
  <1>8. \A n \in Messages \ {Head(job[m])} : paths'[n] = paths[n]
    BY <1>6 DEF FileTypes
  <1> HIDE DEF k
  <1>9. PartsInv'
    BY <1>1, <1>2, <1>4, <1>8, RaisingKeepsParts
  <1>10. FileTypes'
    <2>1. <<>> \in Seq(Messages)
      OBVIOUS
    <2>2. job' \in [Messages -> Seq(Messages)] /\ saved' \in [Messages -> SUBSET Messages]
      BY <1>1, <2>1 DEF FileTypes
    <2>3. stage' \in [Messages -> {"idle", "getting", "saving"}]
      BY <1>1 DEF FileTypes
    <2>4. QED
      BY <1>1, <1>5, <1>7, <2>2, <2>3 DEF FileTypes
  <1>11. StageInv'
    BY <1>1 DEF StageInv, FileTypes
  <1>12. StoreInv'
    <2>1. {p} = {p, p}
      OBVIOUS
    <2>2. Stored(k, {p, p})
      BY <1>1, <2>1
    <2>3. QED
      BY <1>1, <1>2, <2>2, StoringKeepsFiles
  <1>13. QED
    BY <1>9, <1>10, <1>11, <1>12

LEMMA FileStep == FileInv /\ [AttachmentsNext]_attachmentVars => FileInv'
  <1> SUFFICES ASSUME FileInv, [AttachmentsNext]_attachmentVars PROVE FileInv'
    OBVIOUS
  <1>1. ASSUME NEW m \in Messages, Handle(m) PROVE FileInv'
    BY <1>1, ArrivalKeepsInv, DownloadKeepsInv, SaveKeepsInv, SaveResizedKeepsInv,
       ResizeRaisesKeepsInv DEF Handle
  <1>2. ASSUME UNCHANGED <<arrived, groups, job, saved, stage, loop, paths, fate>>, StoreInv'
        PROVE  FileInv'
    BY <1>2, PartsUntouched DEF FileInv, FileTypes, StageInv
  <1>3. ASSUME NEW m \in Messages, Age(m) PROVE FileInv'
    <2>1. /\ UNCHANGED <<arrived, groups, job, saved, stage, loop, paths, fate, files, cleaner>>
          /\ aged' = aged \cup {m} /\ cleaner = NoCleanup
      BY <1>3 DEF Age, handlerVars
    <2>2. StoreInv'
      BY <2>1 DEF FileInv, StoreInv, OwnFile, CountInv, CleanerInv, Storing, NoCleanup
    <2>3. QED
      BY <1>2, <2>1, <2>2
  <1>4. ASSUME NEW a \in Albums, Resolve(a) PROVE FileInv'
    BY <1>4, ResolveKeepsInv
  <1>5. CASE NextDay
    BY <1>2, <1>5, FilesUntouched DEF NextDay, handlerVars, storeVars, FileInv
  <1>6. CASE Cleanup
    <2>1. UNCHANGED <<arrived, groups, job, saved, stage, loop, paths, fate>>
      BY <1>6 DEF Cleanup, CleanupBegins, LooksAt, Unlinks, SeesDirectory, RemovesDirectory,
         handlerVars, storeVars
    <2>2. QED
      BY <1>2, <1>6, <2>1, CleanupKeepsFiles DEF FileInv
  <1>7. CASE UNCHANGED attachmentVars
    BY <1>2, <1>7, FilesUntouched DEF attachmentVars, handlerVars, storeVars, FileInv
  <1>8. QED
    BY <1>1, <1>3, <1>4, <1>5, <1>6, <1>7 DEF AttachmentsNext

LEMMA FileInvariant == AttachmentsSpec => []FileInv
  <1>1. QED
    BY FileInit, FileStep, PTL DEF AttachmentsSpec

(* MediaGroupCollector and FileHandler: however albums, late parts and     *)
(* failures interleave, no part is described in two prompts.               *)
THEOREM PartsOnce == AttachmentsSpec => []PartOnce
  <1>1. FileInv => PartOnce
    BY DEF FileInv, PartsInv
  <1>2. QED
    BY <1>1, FileInvariant, PTL

(* AttachmentStore: a stored file is its own until it is old, whatever is  *)
(* saved beside it and wherever the cleanup thread is.                     *)
THEOREM FilesStayTheirOwn == AttachmentsSpec => []OwnFile
  <1>1. FileInv => OwnFile
    BY DEF FileInv, StoreInv
  <1>2. QED
    BY <1>1, FileInvariant, PTL
=============================================================================
