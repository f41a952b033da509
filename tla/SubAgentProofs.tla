-------------------------- MODULE SubAgentProofs --------------------------
(***************************************************************************)
(* Proofs about the sub-agent manager: what it keeps by itself, and that it*)
(* implements the pool of slots (SubAgentPool).                            *)
(***************************************************************************)
EXTENDS SubAgentManager, FiniteSetTheorems, SequenceTheorems, TLAPS

----------------------------------------------------------------------------
(***************************************************************************)
(* Proofs about the sub-agent manager, for any set of callers, any number  *)
(* of ids and any configured limit.                                        *)
(***************************************************************************)

-----------------------------------------------------------------------------
(* Type correctness.  A caller inside an iteration of Wait's loop still    *)
(* has an id to answer, so Current is an id.                               *)

InIteration ==
  \A c \in Callers : pc[c] \in {"block", "snapshot"} => Len(results[c]) < Len(ids[c])

TypeInv == TypeOK /\ InIteration

(* EmitEvent keeps the channel within its capacity. *)
LEMMA EmitEventTypes ==
  ASSUME EventTypeOK, NEW e \in Events, EmitEvent(e), shown' = shown
  PROVE  EventTypeOK'
<1> USE ManagerAssumption DEF EventTypeOK
<1>1. CASE Len(eventCh) < EventCap
  <2>1. eventCh' = Append(eventCh, e) /\ dropped' = dropped
    BY <1>1 DEF EmitEvent
  <2>2. eventCh' \in Seq(Events) /\ Len(eventCh') = Len(eventCh) + 1
    BY <2>1, AppendProperties
  <2>3. Len(eventCh) \in Nat
    BY LenProperties
  <2>4. QED BY <1>1, <2>1, <2>2, <2>3
<1>2. CASE ~(Len(eventCh) < EventCap)
  BY <1>2 DEF EmitEvent, Events
<1>3. QED BY <1>1, <1>2

(* PrintEvent takes the head of a non-empty channel. *)
LEMMA PrintEventTypes ==
  ASSUME EventTypeOK, PrintEvent
  PROVE  EventTypeOK'
<1> USE ManagerAssumption DEF EventTypeOK, PrintEvent
<1>1. Head(eventCh) \in Events /\ eventCh' \in Seq(Events) /\ Len(eventCh') = Len(eventCh) - 1
  BY HeadTailProperties
<1>2. Len(eventCh) \in Nat
  BY LenProperties
<1>3. QED BY <1>1, <1>2 DEF Events

(* The current id of a call is one of the ids it was given. *)
LEMMA CurrentIsId ==
  ASSUME CallerTypeOK, NEW c \in Callers, Len(results[c]) < Len(ids[c])
  PROVE  Current(c) \in Ids
<1>1. ids[c] \in Seq(Ids) /\ results[c] \in Seq(WaitResults)
  BY DEF CallerTypeOK
<1>2. Len(results[c]) + 1 \in 1 .. Len(ids[c])
  BY <1>1, LenProperties
<1>3. QED BY <1>1, <1>2, ElementOfSeq DEF Current

(* Report extends the results by one and leaves the iteration. *)
LEMMA ReportTypes ==
  ASSUME TypeInv, NEW c \in Callers, NEW r \in WaitResults, Report(c, r),
         UNCHANGED <<target, ids, deadline>>
  PROVE  CallerTypeOK' /\ InIteration'
<1> USE DEF TypeInv, TypeOK, CallerTypeOK, Report
<1>1. Append(results[c], r) \in Seq(WaitResults)
  BY AppendProperties
<1>2. AggregateWaitStatus(verdict[c], r) \in Verdicts
  BY DEF AggregateWaitStatus, Verdicts, Outcomes
<1>3. CallerTypeOK'
  BY <1>1, <1>2
<1>4. ASSUME NEW d \in Callers, pc'[d] \in {"block", "snapshot"}
      PROVE  Len(results'[d]) < Len(ids'[d])
  <2>1. d # c /\ pc'[d] = pc[d] /\ results'[d] = results[d]
    BY <1>4
  <2>2. QED BY <1>4, <2>1 DEF InIteration
<1>5. QED BY <1>3, <1>4 DEF InIteration

LEMMA InitTypeInv == Init => TypeInv
<1> SUFFICES ASSUME Init PROVE TypeInv
  OBVIOUS
<1> USE ManagerAssumption DEF Init
<1>1. AgentTypeOK
  BY DEF AgentTypeOK, Ids, Outcomes
<1>2. EventTypeOK
  BY EmptySeq DEF EventTypeOK, Ids
<1>3. CallerTypeOK
  BY EmptySeq DEF CallerTypeOK, Verdicts, Outcomes
<1>4. InIteration
  BY DEF InIteration
<1>5. QED BY <1>1, <1>2, <1>3, <1>4 DEF TypeInv, TypeOK

(* The steps of spawn_agent. *)
LEMMA SpawnTypeInv ==
  ASSUME TypeInv, NEW c \in Callers, SpawnStep(c)
  PROVE  TypeInv'
<1> USE ManagerAssumption DEF TypeInv, TypeOK
<1>1. EventTypeOK'
  BY DEF SpawnStep, AllocateRunningAgent, LaunchAgent, RemoveAgent, eventVars, EventTypeOK
<1>2. CASE AllocateRunningAgent(c)
  <2>1. AgentTypeOK'
    BY <1>2 DEF AllocateRunningAgent, AgentTypeOK, Ids
  <2>2. CallerTypeOK' /\ InIteration'
    BY <1>2 DEF AllocateRunningAgent, AgentTypeOK, CallerTypeOK, InIteration, waitVars
  <2>3. QED BY <1>1, <2>1, <2>2
<1>3. CASE LaunchAgent(c) \/ RemoveAgent(c)
  <2>1. AgentTypeOK'
    BY <1>3 DEF LaunchAgent, RemoveAgent, AgentTypeOK
  <2>2. /\ pc' = [pc EXCEPT ![c] = "idle"]
        /\ target' = [target EXCEPT ![c] = 0]
        /\ UNCHANGED waitVars
    BY <1>3 DEF LaunchAgent, RemoveAgent
  <2>3. CallerTypeOK' /\ InIteration'
    BY <2>2 DEF CallerTypeOK, InIteration, waitVars
  <2>4. QED BY <1>1, <2>1, <2>3
<1>4. QED BY <1>2, <1>3 DEF SpawnStep

(* The steps of a sub-agent's goroutine. *)
LEMMA AgentTypeInv ==
  ASSUME TypeInv, NEW i \in Ids, AgentStep(i) \/ RunnerToolEvent(i)
  PROVE  TypeInv'
<1> USE DEF TypeInv, TypeOK
<1>1. CallerTypeOK' /\ InIteration'
  BY DEF AgentStep, RunnerToolEvent, SetAgentResult, MarkAgentPanic, EmitCompletionEvent,
         CloseDone, waitVars, CallerTypeOK, InIteration
<1>2. CASE SetAgentResult(i)
  <2>1. PICK r \in RunnerResults :
          /\ status' = [status EXCEPT ![i] = IF NormalizeAgentResult(r).status = "completed"
                                             THEN "completed" ELSE "error"]
          /\ failure' = [failure EXCEPT ![i] = NormalizeAgentResult(r).failure]
    BY <1>2 DEF SetAgentResult
  <2>2. NormalizeAgentResult(r).failure \in BOOLEAN
    BY DEF NormalizeAgentResult, RunnerResults
  <2>3. AgentTypeOK' /\ EventTypeOK'
    BY <1>2, <2>1, <2>2 DEF SetAgentResult, AgentTypeOK, EventTypeOK, eventVars, Outcomes
  <2>4. QED BY <1>1, <2>3
<1>3. CASE MarkAgentPanic(i) \/ CloseDone(i)
  BY <1>1, <1>3 DEF MarkAgentPanic, CloseDone, AgentTypeOK, EventTypeOK, eventVars, Outcomes
<1>4. CASE EmitCompletionEvent(i)
  <2>1. EventTypeOK'
    <3>1. [agent |-> i, tool |-> "_completed"] \in Events
      BY DEF Events
    <3>2. QED BY <1>4, <3>1, EmitEventTypes DEF EmitCompletionEvent
  <2>2. AgentTypeOK'
    BY <1>4 DEF EmitCompletionEvent, AgentTypeOK
  <2>3. QED BY <1>1, <2>1, <2>2
<1>5. CASE RunnerToolEvent(i)
  <2>1. EventTypeOK'
    <3>1. [agent |-> i, tool |-> "tool"] \in Events
      BY DEF Events
    <3>2. QED BY <1>5, <3>1, EmitEventTypes DEF RunnerToolEvent
  <2>2. AgentTypeOK'
    BY <1>5 DEF RunnerToolEvent, AgentTypeOK, agentVars
  <2>3. QED BY <1>1, <2>1, <2>2
<1>6. QED BY <1>2, <1>3, <1>4, <1>5 DEF AgentStep

(* The steps of Wait. *)
LEMMA WaitTypeInv ==
  ASSUME TypeInv, NEW c \in Callers,
         BeginWait(c) \/ TimerFires(c) \/ ReceiveDone(c) \/ ReceiveDeadline(c)
         \/ AgentNotFound(c) \/ AgentFound(c) \/ SnapshotOrTimeout(c) \/ WaitReturns(c)
  PROVE  TypeInv'
<1> USE DEF TypeInv, TypeOK
<1>1. AgentTypeOK' /\ EventTypeOK'
  BY DEF BeginWait, TimerFires, ReceiveDone, ReceiveDeadline, AgentNotFound, AgentFound,
         SnapshotOrTimeout, WaitReturns, AgentTypeOK, EventTypeOK, agentVars, eventVars
<1>2. CASE BeginWait(c)
  <2>1. PICK n \in 1 .. MaxWaitIds : \E s \in [1 .. n -> Ids] : ids' = [ids EXCEPT ![c] = s]
    BY <1>2 DEF BeginWait
  <2>2. PICK s \in [1 .. n -> Ids] : ids' = [ids EXCEPT ![c] = s]
    BY <2>1
  <2>3. n \in Nat
    BY ManagerAssumption
  <2>4. s \in Seq(Ids)
    BY <2>2, <2>3
  <2>5. ids' \in [Callers -> Seq(Ids)] /\ results' \in [Callers -> Seq(WaitResults)]
    BY <1>2, <2>2, <2>4, EmptySeq DEF BeginWait, CallerTypeOK
  <2>6. CallerTypeOK'
    BY <1>2, <2>5 DEF BeginWait, CallerTypeOK, Verdicts, Outcomes
  <2>7. InIteration'
    BY <1>2, <2>2 DEF BeginWait, CallerTypeOK, InIteration
  <2>8. QED BY <1>1, <2>6, <2>7
<1>3. CASE TimerFires(c) \/ ReceiveDone(c) \/ ReceiveDeadline(c) \/ AgentFound(c)
  BY <1>1, <1>3 DEF TimerFires, ReceiveDone, ReceiveDeadline, AgentFound,
     CallerTypeOK, InIteration, waitVars
<1>4. CASE AgentNotFound(c)
  <2>1. Current(c) \in Ids
    BY <1>4, CurrentIsId DEF AgentNotFound
  <2>2. [agent |-> Current(c), found |-> FALSE, status |-> "error", failure |-> FALSE] \in WaitResults
    BY <2>1 DEF WaitResults, Verdicts, Outcomes
  <2>3. CallerTypeOK' /\ InIteration'
    BY <1>4, <2>2, ReportTypes DEF AgentNotFound
  <2>4. QED BY <1>1, <2>3
<1>5. CASE SnapshotOrTimeout(c)
  <2>1. Current(c) \in Ids
    BY <1>5, CurrentIsId DEF SnapshotOrTimeout, InIteration
  <2> DEFINE expired == [agent |-> Current(c), found |-> TRUE, status |-> "timeout", failure |-> FALSE]
             settled == [agent |-> Current(c), found |-> TRUE,
                         status |-> status[Current(c)], failure |-> failure[Current(c)]]
             r == IF TimedOut(c) THEN expired ELSE settled
  <2>2. status[Current(c)] \in Verdicts \cup {"running", "none"} /\ failure[Current(c)] \in BOOLEAN
    BY <2>1 DEF AgentTypeOK, Verdicts, Outcomes
  <2>3. r \in WaitResults
    BY <2>1, <2>2 DEF WaitResults, Verdicts, Outcomes
  <2>4. Report(c, r) /\ UNCHANGED <<target, ids, deadline>>
    BY <1>5 DEF SnapshotOrTimeout
  <2> HIDE DEF r
  <2>5. CallerTypeOK' /\ InIteration'
    BY <2>3, <2>4, ReportTypes
  <2>6. QED BY <1>1, <2>5
<1>6. CASE WaitReturns(c)
  BY <1>1, <1>6, EmptySeq DEF WaitReturns, CallerTypeOK, InIteration
<1>7. QED BY <1>2, <1>3, <1>4, <1>5, <1>6

(* The steps of the live view. *)
LEMMA ViewTypeInv ==
  ASSUME TypeInv, NEW c \in Callers,
         ViewEvent(c) \/ TakeResult(c) \/ DrainEvent(c) \/ DrainEnd(c)
  PROVE  TypeInv'
<1> USE DEF TypeInv, TypeOK
<1>1. AgentTypeOK'
  BY DEF ViewEvent, TakeResult, DrainEvent, DrainEnd, AgentTypeOK, agentVars
<1>2. CallerTypeOK' /\ InIteration'
  BY DEF ViewEvent, TakeResult, DrainEvent, DrainEnd, CallerTypeOK, InIteration, waitVars
<1>3. EventTypeOK'
  <2>1. CASE PrintEvent
    BY <2>1, PrintEventTypes
  <2>2. CASE UNCHANGED eventVars
    BY <2>2 DEF eventVars, EventTypeOK
  <2>3. QED BY <2>1, <2>2 DEF ViewEvent, TakeResult, DrainEvent, DrainEnd
<1>4. QED BY <1>1, <1>2, <1>3

LEMMA NextTypeInv == TypeInv /\ [Next]_vars => TypeInv'
<1> SUFFICES ASSUME TypeInv, [Next]_vars PROVE TypeInv'
  OBVIOUS
<1>1. ASSUME NEW c \in Callers,
             SpawnStep(c) \/ BeginWait(c) \/ WaitStep(c) \/ TimerFires(c) \/ ViewEvent(c)
      PROVE  TypeInv'
  BY <1>1, SpawnTypeInv, WaitTypeInv, ViewTypeInv DEF WaitStep
<1>2. ASSUME NEW i \in Ids, AgentStep(i) \/ RunnerToolEvent(i) PROVE TypeInv'
  BY <1>2, AgentTypeInv
<1>3. CASE UNCHANGED vars
  <2>1. UNCHANGED <<agentVars, eventVars, pc, target, waitVars>>
    BY <1>3 DEF vars
  <2>2. AgentTypeOK' /\ EventTypeOK'
    BY <2>1 DEF agentVars, eventVars, TypeInv, TypeOK, AgentTypeOK, EventTypeOK
  <2>3. CallerTypeOK' /\ InIteration'
    BY <2>1 DEF waitVars, TypeInv, TypeOK, CallerTypeOK, InIteration
  <2>4. QED BY <2>2, <2>3 DEF TypeInv, TypeOK
<1>4. QED BY <1>1, <1>2, <1>3 DEF Next

LEMMA AlwaysTypeInv == Spec => []TypeInv
  BY InitTypeInv, NextTypeInv, PTL DEF Spec

(* Every variable keeps its range and the event channel its capacity,     *)
(* however spawns, waits, runners and live views interleave.               *)
THEOREM TypeCorrect == Spec => []TypeOK
<1>1. TypeInv => TypeOK
  BY DEF TypeInv
<1>2. QED BY <1>1, AlwaysTypeInv, PTL

-----------------------------------------------------------------------------
(* The limit.  It is checked against the entries of the map, so the        *)
(* invariant ties entries to goroutines: a goroutine that runs, or is      *)
(* about to, has a "running" entry in the map, and the spawn that is about *)
(* to start it is the only one that can.                                   *)

EntryOfRun ==
  \A i \in Ids : apc[i] \in {"allocated", "run"} => i \in agents /\ status[i] = "running"

FreshIds == \A i \in Ids : i > counter => apc[i] = "none"

SpawnOwnsTarget ==
  /\ \A c \in Callers : pc[c] = "resolve" => target[c] \in Ids /\ apc[target[c]] = "allocated"
  /\ \A c, d \in Callers :
       pc[c] = "resolve" /\ pc[d] = "resolve" /\ target[c] = target[d] => c = d

SlotsTaken == Cardinality(RunningIds) <= Limit

SlotInv == EntryOfRun /\ FreshIds /\ SpawnOwnsTarget /\ SlotsTaken

LEMMA LimitType == Limit \in Nat \ {0}
  BY ManagerAssumption DEF Limit

LEMMA IdsFinite == IsFiniteSet(Ids) /\ \A S \in SUBSET Ids : IsFiniteSet(S) /\ Cardinality(S) \in Nat
<1>1. IsFiniteSet(Ids)
  BY ManagerAssumption, FS_Interval DEF Ids
<1>2. QED BY <1>1, FS_Subset, FS_CardinalityType

LEMMA RunningAreIds == TypeOK => agents \in SUBSET Ids /\ RunningIds \in SUBSET agents
<1> SUFFICES ASSUME TypeOK PROVE agents \in SUBSET Ids /\ RunningIds \in SUBSET agents
  OBVIOUS
<1>1. ASSUME NEW i \in agents PROVE i \in Ids
  BY ManagerAssumption DEF TypeOK, AgentTypeOK, Ids
<1>2. QED BY <1>1 DEF RunningIds

LEMMA InitSlotInv == Init => SlotInv
<1> SUFFICES ASSUME Init PROVE SlotInv
  OBVIOUS
<1>1. RunningIds = {}
  BY DEF Init, RunningIds
<1>2. SlotsTaken
  BY <1>1, FS_EmptySet, LimitType DEF SlotsTaken
<1>3. QED BY <1>2 DEF Init, SlotInv, EntryOfRun, FreshIds, SpawnOwnsTarget

(* A step that starts no entry and turns none back to "running" keeps the  *)
(* number of slots taken.                                                  *)
LEMMA FewerSlots ==
  ASSUME TypeOK, SlotsTaken, RunningIds' \subseteq RunningIds
  PROVE  SlotsTaken'
<1>1. RunningIds \in SUBSET Ids
  BY RunningAreIds
<1>2. Cardinality(RunningIds') <= Cardinality(RunningIds) /\ Cardinality(RunningIds') \in Nat
      /\ Cardinality(RunningIds) \in Nat
  BY <1>1, IdsFinite, FS_Subset, FS_CardinalityType
<1>3. QED BY <1>2, LimitType DEF SlotsTaken, Limit

LEMMA AllocateSlotInv ==
  ASSUME TypeOK, SlotInv, NEW c \in Callers, AllocateRunningAgent(c)
  PROVE  SlotInv'
<1> USE DEF TypeOK, AgentTypeOK, CallerTypeOK
<1> DEFINE new == counter + 1
<1>1. new \in Ids /\ new > counter /\ new \notin agents /\ counter' = new
  BY ManagerAssumption DEF AllocateRunningAgent, Ids
<1>2. /\ agents' = agents \cup {new}
      /\ status' = [status EXCEPT ![new] = "running"]
      /\ apc' = [apc EXCEPT ![new] = "allocated"]
      /\ target' = [target EXCEPT ![c] = new]
      /\ pc' = [pc EXCEPT ![c] = "resolve"]
      /\ Cardinality(RunningIds) < Limit
  BY DEF AllocateRunningAgent
<1> HIDE DEF new
<1>3. EntryOfRun'
  BY <1>1, <1>2 DEF EntryOfRun, SlotInv
<1>4. FreshIds'
  BY <1>1, <1>2 DEF FreshIds, SlotInv, Ids
<1>5. apc[new] = "none"
  BY <1>1 DEF SlotInv, FreshIds
<1>6. SpawnOwnsTarget'
  <2>1. ASSUME NEW d \in Callers, pc'[d] = "resolve"
        PROVE  target'[d] \in Ids /\ apc'[target'[d]] = "allocated" /\ (d # c => target'[d] # new)
    BY <1>1, <1>2, <1>5, <2>1 DEF SlotInv, SpawnOwnsTarget
  <2>2. ASSUME NEW d \in Callers, NEW e \in Callers,
               pc'[d] = "resolve", pc'[e] = "resolve", target'[d] = target'[e]
        PROVE  d = e
    <3>1. CASE d = c \/ e = c
      BY <1>2, <2>1, <2>2, <3>1
    <3>2. CASE d # c /\ e # c
      BY <1>2, <2>2, <3>2 DEF SlotInv, SpawnOwnsTarget
    <3>3. QED BY <3>1, <3>2
  <2>3. QED BY <2>1, <2>2 DEF SpawnOwnsTarget
<1>7. SlotsTaken'
  <2>1. RunningIds' = RunningIds \cup {new}
    BY <1>1, <1>2, RunningAreIds DEF RunningIds
  <2>2. RunningIds \in SUBSET Ids /\ new \notin RunningIds
    BY <1>1, RunningAreIds
  <2>3. Cardinality(RunningIds') = Cardinality(RunningIds) + 1 /\ Cardinality(RunningIds) \in Nat
    BY <2>1, <2>2, IdsFinite, FS_AddElement
  <2>4. QED BY <1>2, <2>3, LimitType DEF SlotsTaken, Limit
<1>8. QED BY <1>3, <1>4, <1>6, <1>7 DEF SlotInv

LEMMA SpawnEndSlotInv ==
  ASSUME TypeOK, SlotInv, NEW c \in Callers, LaunchAgent(c) \/ RemoveAgent(c)
  PROVE  SlotInv'
<1> USE DEF TypeOK, AgentTypeOK, CallerTypeOK
<1> DEFINE t == target[c]
<1>1. t \in Ids /\ apc[t] = "allocated" /\ t <= counter /\ t \in Int
  BY DEF LaunchAgent, RemoveAgent, SlotInv, SpawnOwnsTarget, FreshIds, Ids
<1>2. /\ \E v \in {"run", "removed"} :
           /\ apc' = [apc EXCEPT ![t] = v]
           /\ agents' = IF v = "run" THEN agents ELSE agents \ {t}
      /\ pc' = [pc EXCEPT ![c] = "idle"]
      /\ target' = [target EXCEPT ![c] = 0]
      /\ status' = status /\ counter' = counter
  BY DEF LaunchAgent, RemoveAgent
<1>3. \A d \in Callers : pc'[d] = "resolve" => d # c /\ pc[d] = "resolve" /\ target'[d] = target[d]
  BY <1>2
<1>4. \A d \in Callers : pc'[d] = "resolve" => target[d] # t
  BY <1>3 DEF LaunchAgent, RemoveAgent, SlotInv, SpawnOwnsTarget
<1> HIDE DEF t
<1>5. EntryOfRun' /\ FreshIds'
  BY <1>1, <1>2 DEF SlotInv, EntryOfRun, FreshIds, Ids
<1>6. SpawnOwnsTarget'
  BY <1>1, <1>2, <1>3, <1>4 DEF SlotInv, SpawnOwnsTarget
<1>7. RunningIds' \subseteq RunningIds
  BY <1>2 DEF RunningIds
<1>8. QED BY <1>5, <1>6, <1>7, FewerSlots DEF SlotInv

LEMMA AgentSlotInv ==
  ASSUME TypeOK, SlotInv, NEW i \in Ids, AgentStep(i)
  PROVE  SlotInv'
<1> USE DEF TypeOK, AgentTypeOK
<1>1. /\ \E v \in {"emit", "close", "exited"} : apc' = [apc EXCEPT ![i] = v]
      /\ apc[i] \in {"run", "emit", "close"}
      /\ UNCHANGED <<counter, agents, pc, target>>
      /\ status' = status \/ \E o \in Outcomes : status' = [status EXCEPT ![i] = o]
  BY DEF AgentStep, SetAgentResult, MarkAgentPanic, EmitCompletionEvent, CloseDone, Outcomes
<1>2. i <= counter
  BY <1>1 DEF SlotInv, FreshIds, Ids
<1>3. EntryOfRun' /\ FreshIds'
  BY <1>1, <1>2 DEF SlotInv, EntryOfRun, FreshIds, Ids
<1>4. \A c \in Callers : pc[c] = "resolve" => target[c] # i
  BY <1>1 DEF SlotInv, SpawnOwnsTarget
<1>5. SpawnOwnsTarget'
  BY <1>1, <1>4 DEF SlotInv, SpawnOwnsTarget
<1>6. RunningIds' \subseteq RunningIds
  <2>1. \A k \in agents : status'[k] = "running" => status[k] = "running"
    BY <1>1, RunningAreIds DEF Outcomes
  <2>2. QED BY <1>1, <2>1 DEF RunningIds
<1>7. QED BY <1>3, <1>5, <1>6, FewerSlots DEF SlotInv

(* Steps of Wait, of the live view and of a runner touch no slot. *)
LEMMA OtherSlotInv ==
  ASSUME TypeOK, SlotInv, UNCHANGED <<agentVars, target>>,
         \A c \in Callers : pc'[c] = "resolve" => pc[c] = "resolve"
  PROVE  SlotInv'
<1>1. UNCHANGED <<counter, agents, status, apc, target>>
  BY DEF agentVars
<1>2. EntryOfRun' /\ FreshIds' /\ SpawnOwnsTarget'
  BY <1>1 DEF SlotInv, EntryOfRun, FreshIds, SpawnOwnsTarget
<1>3. RunningIds' \subseteq RunningIds
  BY <1>1 DEF RunningIds
<1>4. QED BY <1>2, <1>3, FewerSlots DEF SlotInv

LEMMA NextSlotInv == TypeOK /\ SlotInv /\ [Next]_vars => SlotInv'
<1> SUFFICES ASSUME TypeOK, SlotInv, [Next]_vars PROVE SlotInv'
  OBVIOUS
<1>1. ASSUME NEW c \in Callers, SpawnStep(c) PROVE SlotInv'
  BY <1>1, AllocateSlotInv, SpawnEndSlotInv DEF SpawnStep
<1>2. ASSUME NEW i \in Ids, AgentStep(i) PROVE SlotInv'
  BY <1>2, AgentSlotInv
<1>3. ASSUME NEW i \in Ids, RunnerToolEvent(i) PROVE SlotInv'
  BY <1>3, OtherSlotInv DEF RunnerToolEvent
<1>4. ASSUME NEW c \in Callers, BeginWait(c) \/ WaitStep(c) \/ TimerFires(c) \/ ViewEvent(c)
      PROVE  SlotInv'
  <2>1. UNCHANGED <<agentVars, target>>
    BY <1>4 DEF BeginWait, WaitStep, TimerFires, ViewEvent, AgentNotFound, AgentFound, ReceiveDone,
       ReceiveDeadline, SnapshotOrTimeout, WaitReturns, TakeResult, DrainEvent, DrainEnd
  <2>2. \E v \in {"next", "block", "snapshot", "reported", "drain", "idle"} :
          pc' = [pc EXCEPT ![c] = v] \/ pc' = pc
    BY <1>4 DEF BeginWait, WaitStep, TimerFires, ViewEvent, AgentNotFound, AgentFound, ReceiveDone,
       ReceiveDeadline, SnapshotOrTimeout, WaitReturns, TakeResult, DrainEvent, DrainEnd, Report
  <2>3. \A d \in Callers : pc'[d] = "resolve" => pc[d] = "resolve"
    BY <2>2 DEF TypeOK, CallerTypeOK
  <2>4. QED BY <2>1, <2>3, OtherSlotInv
<1>5. CASE UNCHANGED vars
  BY <1>5, OtherSlotInv DEF vars
<1>6. QED BY <1>1, <1>2, <1>3, <1>4, <1>5 DEF Next

LEMMA AlwaysSlotInv == Spec => []SlotInv
  BY InitSlotInv, NextSlotInv, TypeCorrect, PTL DEF Spec

(* At no time do more sub-agent runs execute than the configured limit     *)
(* allows, whatever the callers do.                                        *)
THEOREM LimitRespected == Spec => []ConcurrencyBound
<1>1. TypeOK /\ SlotInv => ConcurrencyBound
  <2> SUFFICES ASSUME TypeOK, SlotInv PROVE ConcurrencyBound
    OBVIOUS
  <2>1. {i \in Ids : apc[i] = "run"} \subseteq RunningIds /\ RunningIds \in SUBSET Ids
    BY RunningAreIds DEF SlotInv, EntryOfRun, RunningIds
  <2>2. Cardinality({i \in Ids : apc[i] = "run"}) <= Cardinality(RunningIds)
    BY <2>1, IdsFinite, FS_Subset
  <2>3. Cardinality({i \in Ids : apc[i] = "run"}) \in Nat /\ Cardinality(RunningIds) \in Nat
    BY <2>1, IdsFinite
  <2>4. QED BY <2>2, <2>3, LimitType DEF ConcurrencyBound, SlotInv, SlotsTaken, Limit
<1>2. QED BY <1>1, TypeCorrect, AlwaysSlotInv, PTL

-----------------------------------------------------------------------------
(* Answers are final.  done is closed last, after the outcome was stored,  *)
(* and a call that is about to read an entry has either seen it closed or  *)
(* has expired and looks again.                                            *)

DoneIsLast ==
  \A i \in Ids : /\ done[i] => apc[i] = "exited"
                 /\ apc[i] \in {"emit", "close", "exited"} => status[i] \in Outcomes

ReadyToRead ==
  \A c \in Callers : pc[c] = "snapshot" => deadline[c] = "consumed" \/ done[Current(c)]

FinalInv == DoneIsLast /\ ReadyToRead /\ AnswersAreFinal

LEMMA InitFinalInv == Init => FinalInv
<1> SUFFICES ASSUME Init PROVE FinalInv
  OBVIOUS
<1>1. \A c \in Callers : DOMAIN results[c] = {}
  BY EmptySeq DEF Init
<1>2. QED BY <1>1 DEF Init, FinalInv, DoneIsLast, ReadyToRead, AnswersAreFinal

(* What a closed done means does not change any more. *)
SettledStays ==
  \A i \in Ids : done[i] => /\ done'[i] /\ apc'[i] = "exited"
                            /\ status'[i] = status[i] /\ failure'[i] = failure[i]

LEMMA StepSettles ==
  ASSUME TypeOK, SlotInv, DoneIsLast, [Next]_vars
  PROVE  DoneIsLast' /\ SettledStays
<1> USE DEF TypeOK, AgentTypeOK
<1>1. ASSUME NEW c \in Callers, AllocateRunningAgent(c) PROVE DoneIsLast' /\ SettledStays
  <2> DEFINE new == counter + 1
  <2>1. new \in Ids /\ apc[new] = "none"
    BY <1>1, ManagerAssumption DEF AllocateRunningAgent, Ids, SlotInv, FreshIds
  <2>2. /\ status' = [status EXCEPT ![new] = "running"]
        /\ apc' = [apc EXCEPT ![new] = "allocated"]
        /\ UNCHANGED <<failure, done>>
    BY <1>1 DEF AllocateRunningAgent
  <2> HIDE DEF new
  <2>3. QED BY <2>1, <2>2 DEF DoneIsLast, SettledStays
<1>2. ASSUME NEW c \in Callers, LaunchAgent(c) \/ RemoveAgent(c) PROVE DoneIsLast' /\ SettledStays
  <2>1. target[c] \in Ids /\ apc[target[c]] = "allocated"
    BY <1>2 DEF LaunchAgent, RemoveAgent, SlotInv, SpawnOwnsTarget
  <2>2. UNCHANGED <<status, failure, done>> /\ \E v \in {"run", "removed"} : apc' = [apc EXCEPT ![target[c]] = v]
    BY <1>2 DEF LaunchAgent, RemoveAgent
  <2>3. QED BY <2>1, <2>2 DEF DoneIsLast, SettledStays
<1>3. ASSUME NEW i \in Ids, SetAgentResult(i) \/ MarkAgentPanic(i) PROVE DoneIsLast' /\ SettledStays
  <2>1. /\ apc[i] = "run" /\ apc' = [apc EXCEPT ![i] = "emit"] /\ done' = done
        /\ \E o \in Outcomes : status' = [status EXCEPT ![i] = o]
        /\ \E f : failure' = [failure EXCEPT ![i] = f]
    BY <1>3 DEF SetAgentResult, MarkAgentPanic, Outcomes
  <2>2. QED BY <2>1 DEF DoneIsLast, SettledStays
<1>4. ASSUME NEW i \in Ids, EmitCompletionEvent(i) \/ CloseDone(i) PROVE DoneIsLast' /\ SettledStays
  BY <1>4 DEF EmitCompletionEvent, CloseDone, DoneIsLast, SettledStays
<1>5. CASE UNCHANGED agentVars
  BY <1>5 DEF agentVars, DoneIsLast, SettledStays
<1>6. QED
  BY <1>1, <1>2, <1>3, <1>4, <1>5 DEF Next, SpawnStep, AgentStep, RunnerToolEvent, BeginWait, WaitStep,
     TimerFires, ViewEvent, AgentNotFound, AgentFound, ReceiveDone, ReceiveDeadline, SnapshotOrTimeout,
     WaitReturns, TakeResult, DrainEvent, DrainEnd, vars

(* Answers given earlier stay final. *)
LEMMA OldAnswersFinal ==
  ASSUME FinalInv, SettledStays, CallerTypeOK, NEW c \in Callers, NEW k \in DOMAIN results[c],
         results[c][k].found, results[c][k].status # "timeout"
  PROVE  LET r == results[c][k] IN
         /\ done'[r.agent] /\ apc'[r.agent] = "exited"
         /\ r.status = status'[r.agent] /\ r.failure = failure'[r.agent] /\ r.status \in Outcomes
<1>1. results[c][k].agent \in Ids
  <2>1. results[c] \in Seq(WaitResults)
    BY DEF CallerTypeOK
  <2>2. k \in 1 .. Len(results[c])
    BY <2>1, LenProperties
  <2>3. results[c][k] \in WaitResults
    BY <2>1, <2>2, ElementOfSeq
  <2>4. QED BY <2>3 DEF WaitResults
<1>2. QED BY <1>1 DEF FinalInv, AnswersAreFinal, SettledStays

(* A step that reports nothing, unless it empties the results. *)
LEMMA NoReportFinalInv ==
  ASSUME TypeInv, FinalInv, SettledStays, DoneIsLast', ReadyToRead',
         \A c \in Callers : results'[c] = results[c] \/ results'[c] = <<>>
  PROVE  FinalInv'
<1>1. ASSUME NEW c \in Callers, NEW k \in DOMAIN results'[c],
             results'[c][k].found, results'[c][k].status # "timeout"
      PROVE  LET r == results'[c][k] IN
             /\ done'[r.agent] /\ apc'[r.agent] = "exited"
             /\ r.status = status'[r.agent] /\ r.failure = failure'[r.agent] /\ r.status \in Outcomes
  <2>1. results'[c] = results[c]
    BY <1>1, EmptySeq
  <2>2. QED BY <1>1, <2>1, OldAnswersFinal DEF TypeInv, TypeOK
<1>2. AnswersAreFinal'
  BY <1>1 DEF AnswersAreFinal
<1>3. QED BY <1>2 DEF FinalInv

(* A step that reports r. *)
LEMMA ReportFinalInv ==
  ASSUME TypeInv, FinalInv, SettledStays, DoneIsLast', NEW c \in Callers, NEW r \in WaitResults,
         Report(c, r), UNCHANGED <<agentVars, ids, deadline>>,
         r.found /\ r.status # "timeout" =>
           /\ done[r.agent] /\ apc[r.agent] = "exited"
           /\ r.status = status[r.agent] /\ r.failure = failure[r.agent] /\ r.status \in Outcomes
  PROVE  FinalInv'
<1> USE DEF TypeInv, TypeOK, CallerTypeOK
<1>1. /\ results' = [results EXCEPT ![c] = Append(@, r)]
      /\ pc' = [pc EXCEPT ![c] = "next"]
      /\ UNCHANGED <<status, failure, done, apc, ids, deadline>>
  BY DEF Report, agentVars
<1>2. ReadyToRead'
  <2>1. ASSUME NEW d \in Callers, pc'[d] = "snapshot" PROVE deadline'[d] = "consumed" \/ done'[Current(d)']
    <3>1. pc[d] = "snapshot" /\ results'[d] = results[d]
      BY <1>1, <2>1
    <3>2. Current(d)' = Current(d)
      BY <1>1, <3>1 DEF Current
    <3>3. QED BY <1>1, <3>1, <3>2 DEF FinalInv, ReadyToRead
  <2>2. QED BY <2>1 DEF ReadyToRead
<1>3. ASSUME NEW d \in Callers, NEW k \in DOMAIN results'[d],
             results'[d][k].found, results'[d][k].status # "timeout"
      PROVE  LET a == results'[d][k] IN
             /\ done'[a.agent] /\ apc'[a.agent] = "exited"
             /\ a.status = status'[a.agent] /\ a.failure = failure'[a.agent] /\ a.status \in Outcomes
  <2>1. CASE d # c
    <3>1. results'[d] = results[d]
      BY <1>1, <2>1
    <3>2. QED BY <1>3, <3>1, OldAnswersFinal
  <2>2. CASE d = c
    <3>1. /\ results[c] \in Seq(WaitResults) /\ results'[c] = Append(results[c], r)
          /\ Len(results'[c]) = Len(results[c]) + 1
          /\ DOMAIN results'[c] = 1 .. Len(results[c]) + 1 /\ DOMAIN results[c] = 1 .. Len(results[c])
          /\ Len(results[c]) \in Nat
      BY <1>1, AppendProperties, LenProperties
    <3>2. CASE k = Len(results[c]) + 1
      <4>1. results'[c][k] = r
        BY <3>1, <3>2, AppendProperties
      <4>2. QED BY <1>1, <1>3, <2>2, <4>1
    <3>3. CASE k \in 1 .. Len(results[c])
      <4>1. results'[c][k] = results[c][k]
        BY <3>1, <3>3, AppendProperties
      <4>2. QED BY <1>3, <2>2, <3>1, <3>3, <4>1, OldAnswersFinal
    <3>4. QED BY <1>3, <2>2, <3>1, <3>2, <3>3
  <2>3. QED BY <2>1, <2>2
<1>4. AnswersAreFinal'
  BY <1>3 DEF AnswersAreFinal
<1>5. QED BY <1>2, <1>4 DEF FinalInv

(* A call that was ready to read its entry before the step and is still in *)
(* the same iteration is ready after it.                                   *)
LEMMA StillReady ==
  ASSUME TypeInv, FinalInv, SettledStays, NEW c \in Callers, pc[c] = "snapshot",
         results'[c] = results[c], ids'[c] = ids[c], deadline[c] = "consumed" => deadline'[c] = "consumed"
  PROVE  deadline'[c] = "consumed" \/ done'[Current(c)']
<1>1. Current(c) \in Ids
  BY CurrentIsId DEF TypeInv, TypeOK, InIteration
<1>2. Current(c)' = Current(c)
  BY DEF Current
<1>3. QED BY <1>1, <1>2 DEF FinalInv, ReadyToRead, SettledStays

LEMMA NextFinalInv == TypeInv /\ SlotInv /\ FinalInv /\ [Next]_vars => FinalInv'
<1> SUFFICES ASSUME TypeInv, SlotInv, FinalInv, [Next]_vars PROVE FinalInv'
  OBVIOUS
<1>1. DoneIsLast' /\ SettledStays
  BY StepSettles DEF TypeInv, FinalInv
<1> USE DEF TypeInv, TypeOK, CallerTypeOK
<1>2. ASSUME NEW c \in Callers, AgentNotFound(c) PROVE FinalInv'
  <2>1. Current(c) \in Ids
    BY <1>2, CurrentIsId DEF AgentNotFound
  <2>2. [agent |-> Current(c), found |-> FALSE, status |-> "error", failure |-> FALSE] \in WaitResults
    BY <2>1 DEF WaitResults, Verdicts, Outcomes
  <2>3. QED BY <1>1, <1>2, <2>2, ReportFinalInv DEF AgentNotFound
<1>3. ASSUME NEW c \in Callers, SnapshotOrTimeout(c) PROVE FinalInv'
  <2>1. Current(c) \in Ids
    BY <1>3, CurrentIsId DEF SnapshotOrTimeout, InIteration
  <2>2. CASE TimedOut(c)
    <3>1. [agent |-> Current(c), found |-> TRUE, status |-> "timeout", failure |-> FALSE] \in WaitResults
      BY <2>1 DEF WaitResults, Verdicts, Outcomes
    <3>2. QED BY <1>1, <1>3, <2>2, <3>1, ReportFinalInv DEF SnapshotOrTimeout
  <2>3. CASE ~TimedOut(c)
    <3>1. done[Current(c)]
      BY <1>3, <2>3 DEF TimedOut, SnapshotOrTimeout, FinalInv, ReadyToRead
    <3>2. apc[Current(c)] = "exited" /\ status[Current(c)] \in Outcomes /\ failure[Current(c)] \in BOOLEAN
      BY <2>1, <3>1 DEF FinalInv, DoneIsLast, AgentTypeOK
    <3>3. [agent |-> Current(c), found |-> TRUE,
           status |-> status[Current(c)], failure |-> failure[Current(c)]] \in WaitResults
      BY <2>1, <3>2 DEF WaitResults, Verdicts
    <3>4. QED BY <1>1, <1>3, <2>3, <3>1, <3>2, <3>3, ReportFinalInv DEF SnapshotOrTimeout
  <2>4. QED BY <2>2, <2>3
<1>4. ASSUME UNCHANGED <<pc, waitVars>> PROVE FinalInv'
  <2>1. UNCHANGED <<ids, deadline, results>>
    BY <1>4 DEF waitVars
  <2>2. ReadyToRead'
    BY <1>1, <1>4, <2>1, StillReady DEF ReadyToRead
  <2>3. QED BY <1>1, <2>1, <2>2, NoReportFinalInv
<1>5. ASSUME NEW c \in Callers, NEW v \in {"idle", "resolve", "next", "block", "reported", "drain"},
             pc' = [pc EXCEPT ![c] = v],
             \A d \in Callers \ {c} : ids'[d] = ids[d] /\ deadline'[d] = deadline[d] /\ results'[d] = results[d],
             results'[c] = results[c] \/ results'[c] = <<>>
      PROVE  FinalInv'
  <2>1. \A d \in Callers : pc'[d] = "snapshot" => d # c /\ pc[d] = "snapshot"
    BY <1>5
  <2>2. ReadyToRead'
    BY <1>1, <1>5, <2>1, StillReady DEF ReadyToRead
  <2>3. QED BY <1>1, <1>5, <2>2, NoReportFinalInv
<1>6. ASSUME NEW c \in Callers, SpawnStep(c) PROVE FinalInv'
  <2>1. /\ \E v \in {"idle", "resolve"} : pc' = [pc EXCEPT ![c] = v]
        /\ UNCHANGED <<ids, deadline, results>>
    BY <1>6 DEF SpawnStep, AllocateRunningAgent, LaunchAgent, RemoveAgent, waitVars
  <2>2. QED BY <1>5, <2>1
<1>7. ASSUME NEW c \in Callers, BeginWait(c) \/ WaitReturns(c) PROVE FinalInv'
  <2>1. /\ \E v \in {"next", "reported"} : pc' = [pc EXCEPT ![c] = v]
        /\ \E x : ids' = [ids EXCEPT ![c] = x]
        /\ \E x : deadline' = [deadline EXCEPT ![c] = x]
        /\ results' = results \/ results' = [results EXCEPT ![c] = <<>>]
    BY <1>7 DEF BeginWait, WaitReturns
  <2>2. QED BY <1>5, <2>1
<1>8. ASSUME NEW c \in Callers, TakeResult(c) \/ DrainEnd(c) PROVE FinalInv'
  <2>1. /\ \E v \in {"idle", "drain"} : pc' = [pc EXCEPT ![c] = v]
        /\ UNCHANGED <<ids, deadline, results>>
    BY <1>8 DEF TakeResult, DrainEnd, waitVars
  <2>2. QED BY <1>5, <2>1
<1>9. ASSUME NEW c \in Callers, TimerFires(c) PROVE FinalInv'
  <2>1. /\ UNCHANGED <<pc, ids, results>>
        /\ \A d \in Callers : deadline[d] = "consumed" => deadline'[d] = "consumed"
    BY <1>9 DEF TimerFires
  <2>2. ReadyToRead'
    BY <1>1, <2>1, StillReady DEF ReadyToRead
  <2>3. QED BY <1>1, <2>1, <2>2, NoReportFinalInv
<1>10. ASSUME NEW c \in Callers, AgentFound(c) \/ ReceiveDone(c) \/ ReceiveDeadline(c) PROVE FinalInv'
  <2>1. /\ \E v \in {"block", "snapshot"} : pc' = [pc EXCEPT ![c] = v]
        /\ UNCHANGED <<agentVars, ids, results>>
        /\ deadline' = deadline \/ deadline' = [deadline EXCEPT ![c] = "consumed"]
        /\ pc'[c] = "snapshot" => deadline'[c] = "consumed" \/ done[Current(c)]
    BY <1>10 DEF AgentFound, ReceiveDone, ReceiveDeadline, waitVars
  <2>2. \A d \in Callers : deadline[d] = "consumed" => deadline'[d] = "consumed"
    BY <2>1
  <2>3. ASSUME NEW d \in Callers, pc'[d] = "snapshot" PROVE deadline'[d] = "consumed" \/ done'[Current(d)']
    <3>1. CASE d = c
      BY <2>1, <2>3, <3>1 DEF Current, agentVars
    <3>2. CASE d # c
      <4>1. pc[d] = "snapshot"
        BY <2>1, <2>3, <3>2
      <4>2. QED BY <1>1, <2>1, <2>2, <4>1, StillReady
    <3>3. QED BY <3>1, <3>2
  <2>4. ReadyToRead'
    BY <2>3 DEF ReadyToRead
  <2>5. QED BY <1>1, <2>1, <2>4, NoReportFinalInv
<1>11. ASSUME NEW i \in Ids, AgentStep(i) \/ RunnerToolEvent(i) PROVE FinalInv'
  BY <1>4, <1>11 DEF AgentStep, SetAgentResult, MarkAgentPanic, EmitCompletionEvent, CloseDone, RunnerToolEvent
<1>12. ASSUME NEW c \in Callers, ViewEvent(c) \/ DrainEvent(c) PROVE FinalInv'
  BY <1>4, <1>12 DEF ViewEvent, DrainEvent
<1>13. CASE UNCHANGED vars
  BY <1>4, <1>13 DEF vars
<1>14. QED
  BY <1>2, <1>3, <1>6, <1>7, <1>8, <1>9, <1>10, <1>11, <1>12, <1>13 DEF Next, WaitStep

(* A wait never hands out an outcome of a sub-agent that has not finished, *)
(* nor one that the manager replaces afterwards.                           *)
THEOREM WaitAnswersFinal == Spec => []AnswersAreFinal
<1>1. FinalInv => AnswersAreFinal
  BY DEF FinalInv
<1>2. QED BY <1>1, InitFinalInv, NextFinalInv, AlwaysTypeInv, AlwaysSlotInv, PTL DEF Spec

LEMMA AlwaysFinalInv == Spec => []FinalInv
  BY InitFinalInv, NextFinalInv, AlwaysTypeInv, AlwaysSlotInv, PTL DEF Spec

-----------------------------------------------------------------------------
(* The live view.  A completion event is in the channel until a view takes *)
(* it or it was dropped; a view returns when the channel is empty.         *)

InChannel == {eventCh[k].agent : k \in {j \in DOMAIN eventCh : eventCh[j].tool = "_completed"}}

EventSent == \A i \in Ids : apc[i] \in {"close", "exited"} => i \in shown \cup dropped \cup InChannel

Shown(s) ==
  \A k \in DOMAIN s : s[k].found /\ s[k].status \in Outcomes => s[k].agent \in shown \cup dropped

ViewOver == \A c \in Callers : pc[c] \in {"idle", "resolve"} => Shown(results[c])

ViewInv == EventSent /\ ViewOver

LEMMA InitViewInv == Init => ViewInv
<1> SUFFICES ASSUME Init PROVE ViewInv
  OBVIOUS
<1>1. \A c \in Callers : DOMAIN results[c] = {}
  BY EmptySeq DEF Init
<1>2. QED BY <1>1 DEF Init, ViewInv, EventSent, ViewOver, Shown

(* What is taken out of the channel is shown, what does not get in is      *)
(* dropped.                                                                *)
LEMMA EmitKeepsEvents ==
  ASSUME EventTypeOK, NEW e \in Events, EmitEvent(e)
  PROVE  /\ dropped \cup InChannel \subseteq (dropped \cup InChannel)'
         /\ dropped \subseteq dropped'
         /\ e.tool = "_completed" => e.agent \in (dropped \cup InChannel)'
<1>1. CASE Len(eventCh) < EventCap
  <2> DEFINE n == Len(eventCh) + 1
  <2>1. eventCh' = Append(eventCh, e) /\ dropped' = dropped
    BY <1>1 DEF EmitEvent
  <2>2. /\ DOMAIN eventCh' = DOMAIN eventCh \cup {n} /\ eventCh'[n] = e
        /\ \A k \in DOMAIN eventCh : eventCh'[k] = eventCh[k]
    BY <2>1, AppendProperties, LenProperties DEF EventTypeOK
  <2> HIDE DEF n
  <2>3. QED BY <2>1, <2>2 DEF InChannel
<1>2. CASE ~(Len(eventCh) < EventCap)
  BY <1>2 DEF EmitEvent, InChannel
<1>3. QED BY <1>1, <1>2

LEMMA PrintKeepsEvents ==
  ASSUME EventTypeOK, PrintEvent
  PROVE  /\ shown \cup InChannel \subseteq (shown \cup InChannel)'
         /\ shown \subseteq shown' /\ dropped' = dropped
<1>1. /\ eventCh \in Seq(Events) /\ eventCh # <<>> /\ eventCh' = Tail(eventCh)
      /\ shown' = IF Head(eventCh).tool = "_completed" THEN shown \cup {Head(eventCh).agent} ELSE shown
      /\ dropped' = dropped
  BY DEF EventTypeOK, PrintEvent
<1>2. ASSUME NEW k \in DOMAIN eventCh, eventCh[k].tool = "_completed"
      PROVE  eventCh[k].agent \in (shown \cup InChannel)'
  <2>1. CASE k = 1
    BY <1>1, <1>2, <2>1
  <2>2. CASE k # 1
    <3>1. k - 1 \in DOMAIN eventCh' /\ eventCh'[k - 1] = eventCh[k]
      BY <1>1, <1>2, <2>2, HeadTailProperties, LenProperties
    <3>2. QED BY <1>2, <3>1 DEF InChannel
  <2>3. QED BY <2>1, <2>2
<1>3. QED BY <1>1, <1>2 DEF InChannel

(* A step after which nobody is back who was not, with what was shown.     *)
LEMMA ViewGoesOn ==
  ASSUME ViewOver, shown \cup dropped \subseteq (shown \cup dropped)',
         \A c \in Callers : pc'[c] \in {"idle", "resolve"} =>
           pc[c] \in {"idle", "resolve"} /\ results'[c] = results[c]
  PROVE  ViewOver'
BY DEF ViewOver, Shown

LEMMA NextViewInv == TypeInv /\ SlotInv /\ FinalInv /\ ViewInv /\ [Next]_vars => ViewInv'
<1> SUFFICES ASSUME TypeInv, SlotInv, FinalInv, ViewInv, [Next]_vars PROVE ViewInv'
  OBVIOUS
<1> USE DEF TypeInv, TypeOK
<1>1. CASE \E i \in Ids : RunnerToolEvent(i) \/ EmitCompletionEvent(i)
  <2>1. PICK i \in Ids : RunnerToolEvent(i) \/ EmitCompletionEvent(i)
    BY <1>1
  <2>2. PICK e \in Events : EmitEvent(e) /\ e.agent = i /\ (EmitCompletionEvent(i) => e.tool = "_completed")
    <3>1. CASE RunnerToolEvent(i)
      <4>1. apc[i] = "run"
        BY <3>1 DEF RunnerToolEvent
      <4>2. ~EmitCompletionEvent(i)
        BY <4>1 DEF EmitCompletionEvent
      <4>3. QED BY <3>1, <4>2 DEF RunnerToolEvent, Events
    <3>2. CASE EmitCompletionEvent(i)
      BY <3>2 DEF EmitCompletionEvent, Events
    <3>3. QED BY <2>1, <3>1, <3>2
  <2>3. /\ dropped \cup InChannel \subseteq (dropped \cup InChannel)' /\ dropped \subseteq dropped'
        /\ e.tool = "_completed" => i \in (dropped \cup InChannel)'
        /\ shown' = shown /\ pc' = pc /\ results' = results
    BY <2>1, <2>2, EmitKeepsEvents DEF RunnerToolEvent, EmitCompletionEvent, waitVars
  <2>4. apc' = apc \/ (EmitCompletionEvent(i) /\ apc' = [apc EXCEPT ![i] = "close"])
    BY <2>1 DEF RunnerToolEvent, EmitCompletionEvent, agentVars
  <2>5. EventSent'
    BY <2>2, <2>3, <2>4 DEF ViewInv, EventSent, AgentTypeOK
  <2>6. ViewOver'
    BY <2>3, ViewGoesOn DEF ViewInv
  <2>7. QED BY <2>5, <2>6 DEF ViewInv
<1>2. CASE \E c \in Callers : ViewEvent(c) \/ DrainEvent(c)
  <2>1. PrintEvent /\ UNCHANGED <<apc, pc, results>>
    BY <1>2 DEF ViewEvent, DrainEvent, agentVars, waitVars
  <2>2. EventSent'
    BY <2>1, PrintKeepsEvents DEF ViewInv, EventSent
  <2>3. ViewOver'
    BY <2>1, PrintKeepsEvents, ViewGoesOn DEF ViewInv
  <2>4. QED BY <2>2, <2>3 DEF ViewInv
<1>3. ASSUME UNCHANGED eventVars, \A i \in Ids : apc'[i] \in {"close", "exited"} => apc[i] \in {"close", "exited"}
      PROVE  EventSent' /\ shown \cup dropped \subseteq (shown \cup dropped)'
  BY <1>3 DEF eventVars, ViewInv, EventSent, InChannel
<1>4. ASSUME NEW c \in Callers, AllocateRunningAgent(c) PROVE ViewInv'
  <2>1. /\ UNCHANGED eventVars /\ results' = results
        /\ apc' = [apc EXCEPT ![counter + 1] = "allocated"]
        /\ pc[c] = "idle" /\ pc' = [pc EXCEPT ![c] = "resolve"]
    BY <1>4 DEF AllocateRunningAgent, waitVars
  <2>2. EventSent' /\ shown \cup dropped \subseteq (shown \cup dropped)'
    BY <1>3, <2>1 DEF AgentTypeOK
  <2>3. ViewOver'
    BY <2>1, <2>2, ViewGoesOn DEF ViewInv, CallerTypeOK
  <2>4. QED BY <2>2, <2>3 DEF ViewInv
<1>5. ASSUME NEW c \in Callers, LaunchAgent(c) \/ RemoveAgent(c) PROVE ViewInv'
  <2>1. /\ UNCHANGED eventVars /\ results' = results
        /\ \E v \in {"run", "removed"} : apc' = [apc EXCEPT ![target[c]] = v]
        /\ pc[c] = "resolve" /\ pc' = [pc EXCEPT ![c] = "idle"]
    BY <1>5 DEF LaunchAgent, RemoveAgent, waitVars
  <2>2. EventSent' /\ shown \cup dropped \subseteq (shown \cup dropped)'
    BY <1>3, <2>1 DEF AgentTypeOK
  <2>3. ViewOver'
    BY <2>1, <2>2, ViewGoesOn DEF ViewInv, CallerTypeOK
  <2>4. QED BY <2>2, <2>3 DEF ViewInv
<1>6. ASSUME NEW i \in Ids, SetAgentResult(i) \/ MarkAgentPanic(i) \/ CloseDone(i) PROVE ViewInv'
  <2>1. /\ UNCHANGED eventVars /\ results' = results /\ pc' = pc
        /\ \/ apc' = [apc EXCEPT ![i] = "emit"]
           \/ apc[i] = "close" /\ apc' = [apc EXCEPT ![i] = "exited"]
    BY <1>6 DEF SetAgentResult, MarkAgentPanic, CloseDone, waitVars
  <2>2. EventSent' /\ shown \cup dropped \subseteq (shown \cup dropped)'
    BY <1>3, <2>1 DEF AgentTypeOK
  <2>3. ViewOver'
    BY <2>1, <2>2, ViewGoesOn DEF ViewInv
  <2>4. QED BY <2>2, <2>3 DEF ViewInv
<1>7. ASSUME NEW c \in Callers, DrainEnd(c) PROVE ViewInv'
  <2>1. /\ UNCHANGED <<agentVars, eventVars, results>> /\ eventCh = <<>>
        /\ pc' = [pc EXCEPT ![c] = "idle"]
    BY <1>7 DEF DrainEnd, waitVars
  <2>2. EventSent' /\ shown \cup dropped \subseteq (shown \cup dropped)'
    BY <1>3, <2>1 DEF agentVars
  <2>3. InChannel = {}
    BY <2>1, EmptySeq DEF InChannel
  <2>4. Shown(results[c])
    <3>1. ASSUME NEW k \in DOMAIN results[c], results[c][k].found, results[c][k].status \in Outcomes
          PROVE  results[c][k].agent \in shown \cup dropped
      <4>1. apc[results[c][k].agent] = "exited"
        BY <3>1 DEF FinalInv, AnswersAreFinal, Outcomes
      <4>2. results[c][k] \in WaitResults
        BY <3>1, ElementOfSeq, LenProperties DEF CallerTypeOK
      <4>3. QED BY <2>3, <4>1, <4>2 DEF ViewInv, EventSent, WaitResults
    <3>2. QED BY <3>1 DEF Shown
  <2>5. ViewOver'
    BY <2>1, <2>2, <2>4 DEF ViewInv, ViewOver, Shown, CallerTypeOK
  <2>6. QED BY <2>2, <2>5 DEF ViewInv
<1>8. ASSUME NEW c \in Callers,
             BeginWait(c) \/ AgentNotFound(c) \/ AgentFound(c) \/ ReceiveDone(c) \/ ReceiveDeadline(c)
               \/ SnapshotOrTimeout(c) \/ WaitReturns(c) \/ TakeResult(c)
      PROVE  ViewInv'
  <2>1. /\ UNCHANGED eventVars /\ apc' = apc
        /\ \E v \in {"next", "block", "snapshot", "reported", "drain"} : pc' = [pc EXCEPT ![c] = v]
        /\ results' = results \/ \E s : results' = [results EXCEPT ![c] = s]
    <3>1. CASE BeginWait(c)
      BY <3>1 DEF BeginWait, agentVars
    <3>2. CASE AgentNotFound(c)
      BY <3>2 DEF AgentNotFound, Report, agentVars
    <3>3. CASE SnapshotOrTimeout(c)
      BY <3>3 DEF SnapshotOrTimeout, Report, agentVars
    <3>4. CASE AgentFound(c) \/ ReceiveDone(c) \/ ReceiveDeadline(c)
      BY <3>4 DEF AgentFound, ReceiveDone, ReceiveDeadline, agentVars, waitVars
    <3>5. CASE WaitReturns(c) \/ TakeResult(c)
      BY <3>5 DEF WaitReturns, TakeResult, agentVars, waitVars
    <3>6. QED BY <1>8, <3>1, <3>2, <3>3, <3>4, <3>5
  <2>2. EventSent' /\ shown \cup dropped \subseteq (shown \cup dropped)'
    BY <1>3, <2>1
  <2>3. ViewOver'
    BY <2>1, <2>2, ViewGoesOn DEF ViewInv, CallerTypeOK
  <2>4. QED BY <2>2, <2>3 DEF ViewInv
<1>9. CASE UNCHANGED <<agentVars, eventVars, pc, results>>
  BY <1>9, <1>3, ViewGoesOn DEF agentVars, ViewInv
<1>10. QED
  BY <1>1, <1>2, <1>4, <1>5, <1>6, <1>7, <1>8, <1>9
  DEF Next, SpawnStep, AgentStep, WaitStep, TimerFires, vars, waitVars

(* When wait_agent is back, the user has been shown the completion of each *)
(* sub-agent it reports on, unless the channel was full, however many      *)
(* views share the channel (executeWaitAgentWithLiveView, drainEvents).    *)
THEOREM CompletionsShown == Spec => []LiveViewShowsCompletions
<1>1. ViewInv => LiveViewShowsCompletions
  BY DEF ViewInv, ViewOver, Shown, LiveViewShowsCompletions
<1>2. QED BY <1>1, InitViewInv, NextViewInv, AlwaysTypeInv, AlwaysSlotInv, AlwaysFinalInv, PTL DEF Spec

-----------------------------------------------------------------------------
(* The status of a response does not depend on the order of its results.   *)

Answered(c) == {results[c][k] : k \in DOMAIN results[c]}

Summary(rs) ==
  IF \E r \in rs : r.status = "error" \/ r.failure THEN "error"
  ELSE IF \E r \in rs : r.status = "timeout" THEN "timeout" ELSE "completed"

LEMMA SummaryGrows ==
  ASSUME NEW rs, NEW r
  PROVE  AggregateWaitStatus(Summary(rs), r) = Summary(rs \cup {r})
<1> DEFINE Bad(S) == \E x \in S : x.status = "error" \/ x.failure
           Late(S) == \E x \in S : x.status = "timeout"
<1>1. /\ Bad(rs \cup {r}) <=> (Bad(rs) \/ (r.status = "error" \/ r.failure))
      /\ Late(rs \cup {r}) <=> (Late(rs) \/ r.status = "timeout")
  OBVIOUS
<1>2. \A S : Summary(S) = IF Bad(S) THEN "error" ELSE IF Late(S) THEN "timeout" ELSE "completed"
  BY DEF Summary
<1> HIDE DEF Bad, Late
<1>3. CASE r.status = "error" \/ r.failure
  BY <1>1, <1>2, <1>3 DEF AggregateWaitStatus
<1>4. CASE ~(r.status = "error" \/ r.failure)
  BY <1>1, <1>2, <1>4 DEF AggregateWaitStatus
<1>5. QED BY <1>3, <1>4

LEMMA ReportSummarises ==
  ASSUME CallerTypeOK, VerdictSummarisesResults, NEW c \in Callers, NEW r, r \in WaitResults, Report(c, r)
  PROVE  VerdictSummarisesResults'
<1>1. /\ results[c] \in Seq(WaitResults)
      /\ results' = [results EXCEPT ![c] = Append(results[c], r)]
      /\ verdict' = [verdict EXCEPT ![c] = AggregateWaitStatus(verdict[c], r)]
      /\ DOMAIN results = Callers /\ DOMAIN verdict = Callers
  BY DEF CallerTypeOK, Report
<1>2. \A d \in Callers : verdict[d] = Summary(Answered(d))
  BY DEF VerdictSummarisesResults, Summary, Answered
<1>3. Answered(c)' = Answered(c) \cup {r}
  <2> DEFINE n == Len(results[c]) + 1
             t == Append(results[c], r)
  <2>1. /\ DOMAIN t = DOMAIN results[c] \cup {n} /\ t[n] = r
        /\ \A k \in DOMAIN results[c] : t[k] = results[c][k]
    BY <1>1, AppendProperties, LenProperties
  <2>2. results'[c] = t
    BY <1>1
  <2> HIDE DEF n, t
  <2>3. QED BY <2>1, <2>2 DEF Answered
<1>4. verdict'[c] = Summary(Answered(c)')
  BY <1>1, <1>2, <1>3, SummaryGrows
<1>5. ASSUME NEW d \in Callers, d # c PROVE verdict'[d] = Summary(Answered(d)')
  <2>1. verdict'[d] = verdict[d] /\ results'[d] = results[d]
    BY <1>1, <1>5
  <2>2. QED BY <1>2, <2>1 DEF Answered
<1>6. \A d \in Callers : verdict'[d] = Summary(Answered(d)')
  BY <1>4, <1>5
<1>7. QED BY <1>6 DEF VerdictSummarisesResults, Summary, Answered

LEMMA NextSummarises ==
  TypeInv /\ VerdictSummarisesResults /\ [Next]_vars => VerdictSummarisesResults'
<1> SUFFICES ASSUME TypeInv, VerdictSummarisesResults, [Next]_vars PROVE VerdictSummarisesResults'
  OBVIOUS
<1> USE DEF TypeInv, TypeOK
<1>1. ASSUME NEW c \in Callers, BeginWait(c) PROVE VerdictSummarisesResults'
  <2>1. /\ results' = [results EXCEPT ![c] = <<>>] /\ verdict' = [verdict EXCEPT ![c] = "completed"]
        /\ DOMAIN results = Callers /\ DOMAIN verdict = Callers
    BY <1>1 DEF BeginWait, CallerTypeOK
  <2>2. DOMAIN <<>> = {}
    BY EmptySeq
  <2>3. QED BY <2>1, <2>2 DEF VerdictSummarisesResults
<1>2. ASSUME NEW c \in Callers, AgentNotFound(c) \/ SnapshotOrTimeout(c) PROVE VerdictSummarisesResults'
  <2>1. Current(c) \in Ids
    BY <1>2, CurrentIsId DEF AgentNotFound, SnapshotOrTimeout, InIteration
  <2>2. \E r \in WaitResults : Report(c, r)
    <3>1. CASE AgentNotFound(c)
      BY <2>1, <3>1 DEF AgentNotFound, WaitResults, Verdicts, Outcomes
    <3>2. CASE SnapshotOrTimeout(c)
      <4>1. status[Current(c)] \in Outcomes \cup {"none", "running"} /\ failure[Current(c)] \in BOOLEAN
        BY <2>1 DEF AgentTypeOK
      <4>2. QED BY <2>1, <3>2, <4>1 DEF SnapshotOrTimeout, WaitResults, Verdicts, Outcomes
    <3>3. QED BY <1>2, <3>1, <3>2
  <2>3. QED BY <2>2, ReportSummarises
<1>3. CASE UNCHANGED <<results, verdict>>
  BY <1>3 DEF VerdictSummarisesResults
<1>4. QED
  BY <1>1, <1>2, <1>3
  DEF Next, SpawnStep, AllocateRunningAgent, LaunchAgent, RemoveAgent, AgentStep, SetAgentResult,
      MarkAgentPanic, EmitCompletionEvent, CloseDone, RunnerToolEvent, WaitStep, AgentFound, ReceiveDone,
      ReceiveDeadline, WaitReturns, TakeResult, DrainEvent, DrainEnd, TimerFires, ViewEvent, vars, waitVars

(* The status of a wait_agent response is "error" if one result is an      *)
(* error or had a failed tool, else "timeout" if one timed out, else       *)
(* "completed", for any number of ids in any order (aggregateWaitStatus).  *)
THEOREM VerdictIsSummary == Spec => []VerdictSummarisesResults
<1>1. Init => VerdictSummarisesResults
  <2>1. DOMAIN <<>> = {}
    BY EmptySeq
  <2>2. QED BY <2>1 DEF Init, VerdictSummarisesResults
<1>2. QED BY <1>1, NextSummarises, AlwaysTypeInv, PTL DEF Spec

----------------------------------------------------------------------------
(***************************************************************************)
(* The sub-agent manager implements the slot pool: every step of it is a   *)
(* step of the pool or changes nothing of what the pool shows, for any     *)
(* number of callers and ids and any limit.                                *)
(***************************************************************************)

(* An entry that has a slot is in the map, where the limit is checked, and *)
(* an id has an entry once it has been handed out.                         *)
SlotIsEntry ==
  \A i \in Ids :
    /\ status[i] = "none" <=> apc[i] = "none"
    /\ status[i] = "running" => (i \in agents <=> apc[i] # "removed")

PoolInv == TypeInv /\ SlotInv /\ FinalInv /\ SlotIsEntry

LEMMA InitSlotIsEntry == Init => SlotIsEntry
BY DEF Init, SlotIsEntry

LEMMA NextSlotIsEntry == TypeInv /\ SlotInv /\ SlotIsEntry /\ [Next]_vars => SlotIsEntry'
<1> SUFFICES ASSUME TypeInv, SlotInv, SlotIsEntry, [Next]_vars PROVE SlotIsEntry'
  OBVIOUS
<1> USE DEF TypeInv, TypeOK, AgentTypeOK
<1>1. ASSUME NEW c \in Callers, AllocateRunningAgent(c) PROVE SlotIsEntry'
  <2> DEFINE new == counter + 1
  <2>1. /\ status' = [status EXCEPT ![new] = "running"]
        /\ apc' = [apc EXCEPT ![new] = "allocated"]
        /\ agents' = agents \cup {new}
    BY <1>1 DEF AllocateRunningAgent
  <2>2. new \in Ids
    BY <1>1, ManagerAssumption DEF AllocateRunningAgent, Ids
  <2> HIDE DEF new
  <2>3. QED BY <2>1, <2>2 DEF SlotIsEntry
<1>2. ASSUME NEW c \in Callers, LaunchAgent(c) \/ RemoveAgent(c) PROVE SlotIsEntry'
  <2>1. target[c] \in Ids /\ apc[target[c]] = "allocated"
    BY <1>2 DEF LaunchAgent, RemoveAgent, SlotInv, SpawnOwnsTarget
  <2>2. /\ status' = status
        /\ \/ apc' = [apc EXCEPT ![target[c]] = "run"] /\ agents' = agents
           \/ apc' = [apc EXCEPT ![target[c]] = "removed"] /\ agents' = agents \ {target[c]}
    BY <1>2 DEF LaunchAgent, RemoveAgent
  <2>3. QED BY <2>1, <2>2 DEF SlotIsEntry
<1>3. ASSUME NEW i \in Ids, SetAgentResult(i) \/ MarkAgentPanic(i) PROVE SlotIsEntry'
  <2>1. /\ apc' = [apc EXCEPT ![i] = "emit"] /\ agents' = agents
        /\ \E o \in Outcomes : status' = [status EXCEPT ![i] = o]
    BY <1>3 DEF SetAgentResult, MarkAgentPanic, Outcomes
  <2>2. QED BY <2>1 DEF SlotIsEntry, Outcomes
<1>4. ASSUME NEW i \in Ids, EmitCompletionEvent(i) \/ CloseDone(i) PROVE SlotIsEntry'
  BY <1>4 DEF EmitCompletionEvent, CloseDone, SlotIsEntry
<1>5. CASE UNCHANGED agentVars
  BY <1>5 DEF agentVars, SlotIsEntry
<1>6. QED
  BY <1>1, <1>2, <1>3, <1>4, <1>5 DEF Next, SpawnStep, AgentStep, RunnerToolEvent, BeginWait, WaitStep,
     TimerFires, ViewEvent, AgentNotFound, AgentFound, ReceiveDone, ReceiveDeadline, SnapshotOrTimeout,
     WaitReturns, TakeResult, DrainEvent, DrainEnd, vars

LEMMA AlwaysPoolInv == Spec => []PoolInv
<1>1. Spec => [](TypeInv /\ SlotInv)
  BY AlwaysTypeInv, AlwaysSlotInv, PTL
<1>2. Spec => []SlotIsEntry
  BY <1>1, InitSlotIsEntry, NextSlotIsEntry, PTL DEF Spec
<1>3. TypeInv /\ SlotInv /\ FinalInv /\ SlotIsEntry => PoolInv
  BY DEF PoolInv
<1>4. QED BY <1>1, <1>2, <1>3, AlwaysFinalInv, PTL

-----------------------------------------------------------------------------
(* The slots *)

(* The pool counts as the manager does. *)
LEMMA SameCardinality == ASSUME NEW S PROVE Pool!Cardinality(S) = Cardinality(S)
BY DEF Pool!Cardinality, Cardinality

LEMMA StartRefined ==
  ASSUME PoolInv, NEW c \in Callers, AllocateRunningAgent(c)
  PROVE  Pool!Start(counter + 1) /\ counter + 1 \in Ids
<1> DEFINE new == counter + 1
<1>1. new \in Ids /\ apc[new] = "none" /\ status[new] = "none"
  BY ManagerAssumption
  DEF AllocateRunningAgent, Ids, PoolInv, SlotInv, FreshIds, SlotIsEntry, TypeInv, TypeOK, AgentTypeOK
<1>2. PoolState[new] = "unused"
  BY <1>1 DEF PoolState
<1>3. Cardinality({b \in Ids : PoolState[b] = "running"}) < Limit
  <2>1. agents \subseteq Ids
    BY RunningAreIds DEF PoolInv, TypeInv
  <2>2. \A i \in Ids : PoolState[i] = "running" <=> i \in agents /\ status[i] = "running"
    BY DEF PoolState, PoolInv, SlotIsEntry
  <2>3. {b \in Ids : PoolState[b] = "running"} = RunningIds
    BY <2>1, <2>2 DEF RunningIds
  <2>4. QED BY <2>3 DEF AllocateRunningAgent
<1>4. PoolState' = [PoolState EXCEPT ![new] = "running"]
  <2>1. /\ status' = [status EXCEPT ![new] = "running"]
        /\ apc' = [apc EXCEPT ![new] = "allocated"]
        /\ status \in [Ids -> Outcomes \cup {"none", "running"}] /\ DOMAIN apc = Ids
    BY DEF AllocateRunningAgent, PoolInv, TypeInv, TypeOK, AgentTypeOK
  <2> HIDE DEF new
  <2>2. QED BY <1>1, <2>1 DEF PoolState
<1>5. UNCHANGED PoolTold
  BY DEF AllocateRunningAgent, waitVars, PoolTold
<1>6. QED BY <1>1, <1>2, <1>3, <1>4, <1>5, SameCardinality DEF Pool!Start

LEMMA SpawnEndRefined ==
  ASSUME PoolInv, NEW c \in Callers, LaunchAgent(c) \/ RemoveAgent(c)
  PROVE  UNCHANGED <<PoolState, PoolTold>> \/ \E a \in Ids : Pool!Withdraw(a)
<1> DEFINE a == target[c]
<1>1. a \in Ids /\ apc[a] = "allocated" /\ status[a] = "running"
  BY DEF LaunchAgent, RemoveAgent, PoolInv, SlotInv, SpawnOwnsTarget, EntryOfRun
<1>2. status' = status /\ UNCHANGED PoolTold /\ DOMAIN apc = Ids
  BY DEF LaunchAgent, RemoveAgent, waitVars, PoolTold, PoolInv, TypeInv, TypeOK, AgentTypeOK
<1>3. CASE LaunchAgent(c)
  <2>1. apc' = [apc EXCEPT ![a] = "run"]
    BY <1>3 DEF LaunchAgent
  <2> HIDE DEF a
  <2>2. UNCHANGED PoolState
    BY <1>1, <1>2, <2>1 DEF PoolState
  <2>3. QED BY <1>2, <2>2
<1>4. CASE RemoveAgent(c)
  <2>1. apc' = [apc EXCEPT ![a] = "removed"]
    BY <1>4 DEF RemoveAgent
  <2> HIDE DEF a
  <2>2. PoolState[a] = "running" /\ PoolState' = [PoolState EXCEPT ![a] = "withdrawn"]
    BY <1>1, <1>2, <2>1 DEF PoolState
  <2>3. QED BY <1>1, <1>2, <2>2 DEF Pool!Withdraw
<1>5. QED BY <1>3, <1>4

LEMMA SettleRefined ==
  ASSUME PoolInv, NEW i \in Ids, SetAgentResult(i) \/ MarkAgentPanic(i)
  PROVE  Pool!Settle(i)
<1>1. PICK o \in Outcomes : status' = [status EXCEPT ![i] = o]
  BY DEF SetAgentResult, MarkAgentPanic, Outcomes
<1>2. /\ apc[i] = "run" /\ status[i] = "running" /\ apc' = [apc EXCEPT ![i] = "emit"]
      /\ DOMAIN apc = Ids /\ DOMAIN status = Ids
  BY DEF SetAgentResult, MarkAgentPanic, PoolInv, SlotInv, EntryOfRun, TypeInv, TypeOK, AgentTypeOK
<1>3. PoolState[i] = "running" /\ PoolState' = [PoolState EXCEPT ![i] = o]
  BY <1>1, <1>2 DEF PoolState, Outcomes
<1>4. UNCHANGED PoolTold
  BY DEF SetAgentResult, MarkAgentPanic, waitVars, PoolTold
<1>5. QED BY <1>3, <1>4 DEF Pool!Settle, Pool!Outcome, Outcomes

LEMMA GoroutineEndRefined ==
  ASSUME PoolInv, NEW i \in Ids, EmitCompletionEvent(i) \/ CloseDone(i)
  PROVE  UNCHANGED <<PoolState, PoolTold>>
<1>1. /\ apc[i] \in {"emit", "close"} /\ status' = status /\ DOMAIN apc = Ids
      /\ \E v \in {"close", "exited"} : apc' = [apc EXCEPT ![i] = v]
  BY DEF EmitCompletionEvent, CloseDone, PoolInv, TypeInv, TypeOK, AgentTypeOK
<1>2. UNCHANGED PoolState
  BY <1>1 DEF PoolState
<1>3. UNCHANGED PoolTold
  BY DEF EmitCompletionEvent, CloseDone, waitVars, PoolTold
<1>4. QED BY <1>2, <1>3

-----------------------------------------------------------------------------
(* The answers *)

IsTold(r) == r.found /\ r.status # "timeout"
Told(s) == {<<s[k].agent, s[k].status>> : k \in {j \in DOMAIN s : IsTold(s[j])}}

LEMMA PoolToldIs == PoolTold = [c \in Callers |-> Told(results[c])]
BY DEF PoolTold, Told, IsTold

LEMMA ToldAppend ==
  ASSUME NEW s \in Seq(WaitResults), NEW r \in WaitResults
  PROVE  Told(Append(s, r)) = Told(s) \cup IF IsTold(r) THEN {<<r.agent, r.status>>} ELSE {}
<1> DEFINE t == Append(s, r)
           n == Len(s) + 1
<1>1. /\ DOMAIN t = DOMAIN s \cup {n} /\ n \notin DOMAIN s
      /\ t[n] = r /\ \A k \in DOMAIN s : t[k] = s[k]
  BY AppendProperties, LenProperties
<1> HIDE DEF t, n
<1>2. Told(t) = Told(s) \cup IF IsTold(r) THEN {<<r.agent, r.status>>} ELSE {}
  BY <1>1 DEF Told
<1>3. QED BY <1>2 DEF t

LEMMA AskRefined ==
  ASSUME PoolInv, NEW c \in Callers, BeginWait(c)
  PROVE  Pool!Ask(c)
<1>1. results' = [results EXCEPT ![c] = <<>>] /\ DOMAIN results = Callers
  BY DEF BeginWait, PoolInv, TypeInv, TypeOK, CallerTypeOK
<1>2. Told(<<>>) = {}
  BY EmptySeq DEF Told
<1>3. PoolTold' = [d \in Callers |-> Told(results'[d])]
  BY DEF PoolTold, Told, IsTold
<1>4. PoolTold' = [PoolTold EXCEPT ![c] = {}]
  BY <1>1, <1>2, <1>3, PoolToldIs
<1>5. UNCHANGED PoolState
  BY DEF BeginWait, agentVars, PoolState
<1>6. QED BY <1>4, <1>5 DEF Pool!Ask

LEMMA ReportRefined ==
  ASSUME PoolInv, PoolInv', NEW c \in Callers, NEW r \in WaitResults, Report(c, r), UNCHANGED agentVars
  PROVE  UNCHANGED <<PoolState, PoolTold>> \/ \E a \in Ids : Pool!Tell(c, a)
<1>1. /\ results' = [results EXCEPT ![c] = Append(@, r)] /\ DOMAIN results = Callers
      /\ results[c] \in Seq(WaitResults)
  BY DEF Report, PoolInv, TypeInv, TypeOK, CallerTypeOK
<1>2. PoolTold' = [d \in Callers |-> Told(results'[d])]
  BY DEF PoolTold, Told, IsTold
<1>3. UNCHANGED PoolState
  BY DEF agentVars, PoolState
<1>4. CASE ~IsTold(r)
  <2>1. Told(Append(results[c], r)) = Told(results[c])
    BY <1>1, <1>4, ToldAppend
  <2>2. UNCHANGED PoolTold
    BY <1>1, <1>2, <2>1, PoolToldIs
  <2>3. QED BY <1>3, <2>2
<1>5. CASE IsTold(r)
  <2>1. Told(Append(results[c], r)) = Told(results[c]) \cup {<<r.agent, r.status>>}
    BY <1>1, <1>5, ToldAppend
  <2>2. PoolTold' = [PoolTold EXCEPT ![c] = @ \cup {<<r.agent, r.status>>}]
    BY <1>1, <1>2, <2>1, PoolToldIs
  <2>3. r.agent \in Ids /\ r.status = status[r.agent] /\ r.status \in Outcomes
        /\ apc[r.agent] = "exited"
    <3> DEFINE n == Len(results[c]) + 1
    <3>1. n \in DOMAIN results'[c] /\ results'[c][n] = r
      BY <1>1, AppendProperties, LenProperties
    <3> HIDE DEF n
    <3>2. AnswersAreFinal'
      BY DEF PoolInv, FinalInv
    <3>3. r.status = status'[r.agent] /\ r.status \in Outcomes /\ apc'[r.agent] = "exited"
      BY <1>5, <3>1, <3>2 DEF AnswersAreFinal, IsTold
    <3>4. QED BY <3>3 DEF agentVars, WaitResults
  <2>4. PoolState[r.agent] = r.status
    BY <2>3 DEF PoolState, Outcomes
  <2>5. Pool!Tell(c, r.agent)
    BY <1>3, <2>2, <2>3, <2>4 DEF Pool!Tell, Pool!Outcome, Outcomes
  <2>6. QED BY <2>3, <2>5
<1>6. QED BY <1>4, <1>5

-----------------------------------------------------------------------------
LEMMA InitRefined == Init => Pool!Init
<1> SUFFICES ASSUME Init PROVE Pool!Init
  OBVIOUS
<1>1. PoolState = [a \in Ids |-> "unused"]
  BY DEF Init, PoolState
<1>2. Told(<<>>) = {}
  BY EmptySeq DEF Told
<1>3. PoolTold = [q \in Callers |-> {}]
  BY <1>2, PoolToldIs DEF Init
<1>4. QED BY <1>1, <1>3 DEF Pool!Init

LEMMA StepRefined ==
  PoolInv /\ PoolInv' /\ [Next]_vars => [Pool!Next]_<<PoolState, PoolTold>>
<1> SUFFICES ASSUME PoolInv, PoolInv', [Next]_vars
             PROVE  Pool!Next \/ UNCHANGED <<PoolState, PoolTold>>
  OBVIOUS
<1>1. ASSUME NEW c \in Callers, SpawnStep(c) PROVE Pool!Next \/ UNCHANGED <<PoolState, PoolTold>>
  BY <1>1, StartRefined, SpawnEndRefined DEF SpawnStep, Pool!Next
<1>2. ASSUME NEW i \in Ids, AgentStep(i) PROVE Pool!Next \/ UNCHANGED <<PoolState, PoolTold>>
  BY <1>2, SettleRefined, GoroutineEndRefined DEF AgentStep, Pool!Next
<1>3. ASSUME NEW c \in Callers, BeginWait(c) PROVE Pool!Next
  BY <1>3, AskRefined DEF Pool!Next
<1>4. ASSUME NEW c \in Callers, AgentNotFound(c) \/ SnapshotOrTimeout(c)
      PROVE  Pool!Next \/ UNCHANGED <<PoolState, PoolTold>>
  <2>1. Current(c) \in Ids
    BY <1>4, CurrentIsId DEF AgentNotFound, SnapshotOrTimeout, PoolInv, TypeInv, TypeOK, InIteration
  <2>2. UNCHANGED agentVars /\ \E r \in WaitResults : Report(c, r)
    <3>1. CASE AgentNotFound(c)
      BY <2>1, <3>1 DEF AgentNotFound, WaitResults, Verdicts, Outcomes
    <3>2. CASE SnapshotOrTimeout(c)
      <4>1. status[Current(c)] \in Outcomes \cup {"none", "running"} /\ failure[Current(c)] \in BOOLEAN
        BY <2>1 DEF PoolInv, TypeInv, TypeOK, AgentTypeOK
      <4>2. QED BY <2>1, <3>2, <4>1 DEF SnapshotOrTimeout, WaitResults, Verdicts, Outcomes
    <3>3. QED BY <1>4, <3>1, <3>2
  <2>3. QED BY <2>2, ReportRefined DEF Pool!Next
<1>5. CASE UNCHANGED <<agentVars, results>>
  BY <1>5 DEF agentVars, PoolState, PoolTold
<1>6. QED
  BY <1>1, <1>2, <1>3, <1>4, <1>5 DEF Next, RunnerToolEvent, WaitStep, TimerFires, ViewEvent, AgentFound,
     ReceiveDone, ReceiveDeadline, WaitReturns, TakeResult, DrainEvent, DrainEnd, waitVars, vars

(* The manager is a slot pool to its callers: a spawn takes a slot or gives *)
(* it back unused, a run settles once, and a wait is told only what is      *)
(* settled, with its outcome (allocateRunningAgent, removeAgent,            *)
(* setAgentResult, markAgentPanic, snapshotOrTimeout).                      *)
THEOREM ManagerIsPool == Spec => ImplementsPool
<1>1. QED BY InitRefined, StepRefined, AlwaysPoolInv, PTL DEF Spec, ImplementsPool, Pool!Spec
=============================================================================
