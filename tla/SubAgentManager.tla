-------------------------- MODULE SubAgentManager --------------------------
(***************************************************************************)
(* The sub-agent manager (internal/tools/subagent) and the live view of    *)
(* wait_agent (internal/agent/agent_tool_waitagent.go).                    *)
(*                                                                         *)
(* A Caller is a goroutine of the tool executor that runs one spawn_agent  *)
(* or wait_agent call at a time: both tools are parallel-safe, so several  *)
(* callers run at once, on ids the language model made up as freely as on  *)
(* ids a spawn returned.  Every launched sub-agent has a goroutine of its  *)
(* own (runAgent).  A step is one critical section of Manager.mu or one    *)
(* channel operation.                                                      *)
(***************************************************************************)
EXTENDS Integers, Sequences, FiniteSets

CONSTANTS
  Callers,        \* goroutines that execute spawn_agent / wait_agent
  MaxAgents,      \* bound: how many ids the counter hands out
  MaxWaitIds,     \* bound: how many ids one wait_agent call names
  ConfiguredMax,  \* cfg.SubAgent.MaxConcurrent, as configured
  EventCap        \* capacity of eventCh (256 in the code)

ASSUME ManagerAssumption ==
  /\ MaxAgents \in Nat \ {0}
  /\ MaxWaitIds \in Nat \ {0}
  /\ ConfiguredMax \in Int
  /\ EventCap \in Nat \ {0}

Ids == 1 .. MaxAgents                      \* "sub-001", "sub-002", ...
Limit == IF ConfiguredMax <= 0 THEN 1 ELSE ConfiguredMax

VARIABLES
  counter,   \* ids handed out so far
  agents,    \* keys of Manager.agents
  status,    \* managedSubAgent.status ("none": not allocated yet)
  failure,   \* does result.ToolBreakdown hold an entry with failures?
  done,      \* is managedSubAgent.done closed?
  apc,       \* where runAgent stands, per sub-agent
  eventCh,   \* Manager.eventCh
  dropped,   \* sub-agents whose completion event met a full channel
  shown,     \* sub-agents whose completion event a live view took
  pc,        \* where the caller stands
  target,    \* the sub-agent a spawn is starting (0: none)
  ids,       \* the ids of the caller's wait_agent call
  deadline,  \* time.After of the call: none, armed, fired, consumed (timedOut)
  results,   \* WaitResponse.Results, in order
  verdict    \* WaitResponse.Status

agentVars == <<counter, agents, status, failure, done, apc>>
eventVars == <<eventCh, dropped, shown>>
waitVars  == <<ids, deadline, results, verdict>>
vars == <<agentVars, eventVars, pc, target, waitVars>>

Outcomes == {"completed", "error"}
Verdicts == Outcomes \cup {"timeout"}
WaitResults == [agent : Ids, found : BOOLEAN,
                status : Verdicts \cup {"running", "none"}, failure : BOOLEAN]
Events == [agent : Ids, tool : {"tool", "_completed"}]

(* What runHeadless may hand back: a result, or nil. *)
RunnerResults == [status : {"completed", "error", "running", "nil"}, failure : BOOLEAN]

(* nil and the forbidden status "running" become an error without a        *)
(* breakdown; every other status but "completed" is stored as an error.    *)
NormalizeAgentResult(r) ==
  IF r.status \in {"nil", "running"} THEN [status |-> "error", failure |-> FALSE] ELSE r

(* Slip: the latest timeout overwrites an earlier error. *)
AggregateLatest(current, r) ==
  IF r.status = "error" \/ r.failure THEN "error"
  ELSE IF r.status = "timeout" THEN "timeout" ELSE current

AggregateWaitStatus(current, r) ==
  IF r.status = "error" \/ r.failure THEN "error"
  ELSE IF r.status = "timeout" /\ current # "error" THEN "timeout" ELSE current

(* Slip: only entries whose goroutine has started are counted. *)
LaunchedIds == {i \in agents : status[i] = "running" /\ apc[i] # "allocated"}

RunningIds == {i \in agents : status[i] = "running"}

Init ==
  /\ counter = 0
  /\ agents = {}
  /\ status = [i \in Ids |-> "none"]
  /\ failure = [i \in Ids |-> FALSE]
  /\ done = [i \in Ids |-> FALSE]
  /\ apc = [i \in Ids |-> "none"]
  /\ eventCh = <<>>
  /\ dropped = {}
  /\ shown = {}
  /\ pc = [c \in Callers |-> "idle"]
  /\ target = [c \in Callers |-> 0]
  /\ ids = [c \in Callers |-> <<>>]
  /\ deadline = [c \in Callers |-> "none"]
  /\ results = [c \in Callers |-> <<>>]
  /\ verdict = [c \in Callers |-> "completed"]

-----------------------------------------------------------------------------
(* spawn_agent *)

(* allocateRunningAgent: under the lock, count the running entries, take   *)
(* the next id and publish the entry before its provider is known to work. *)
AllocateRunningAgent(c) ==
  /\ pc[c] = "idle"
  /\ counter < MaxAgents
  /\ Cardinality(RunningIds) < Limit
  /\ counter' = counter + 1
  /\ agents' = agents \cup {counter + 1}
  /\ status' = [status EXCEPT ![counter + 1] = "running"]
  /\ apc' = [apc EXCEPT ![counter + 1] = "allocated"]
  /\ target' = [target EXCEPT ![c] = counter + 1]
  /\ pc' = [pc EXCEPT ![c] = "resolve"]
  /\ UNCHANGED <<failure, done, eventVars, waitVars>>

(* resolveSubProvider succeeded: start the goroutine, return the id. *)
LaunchAgent(c) ==
  /\ pc[c] = "resolve"
  /\ apc' = [apc EXCEPT ![target[c]] = "run"]
  /\ pc' = [pc EXCEPT ![c] = "idle"]
  /\ target' = [target EXCEPT ![c] = 0]
  /\ UNCHANGED <<counter, agents, status, failure, done, eventVars, waitVars>>

(* resolveSubProvider failed: removeAgent takes the entry out of the map.  *)
(* The entry itself keeps status "running" and an open done channel.       *)
RemoveAgent(c) ==
  /\ pc[c] = "resolve"
  /\ agents' = agents \ {target[c]}
  /\ apc' = [apc EXCEPT ![target[c]] = "removed"]
  /\ pc' = [pc EXCEPT ![c] = "idle"]
  /\ target' = [target EXCEPT ![c] = 0]
  /\ UNCHANGED <<counter, status, failure, done, eventVars, waitVars>>

-----------------------------------------------------------------------------
(* runAgent *)

(* Slip: the channel grows without a bound. *)
EmitUnbounded(e) == eventCh' = Append(eventCh, e) /\ dropped' = dropped

(* EmitEvent never blocks: a full channel drops the newest event. *)
EmitEvent(e) ==
  IF Len(eventCh) < EventCap
  THEN eventCh' = Append(eventCh, e) /\ dropped' = dropped
  ELSE /\ eventCh' = eventCh
       /\ dropped' = IF e.tool = "_completed" THEN dropped \cup {e.agent} ELSE dropped

(* The runner reports a tool start or end. *)
RunnerToolEvent(i) ==
  /\ apc[i] = "run"
  /\ EmitEvent([agent |-> i, tool |-> "tool"])
  /\ UNCHANGED <<agentVars, shown, pc, target, waitVars>>

(* runHeadless returned: setAgentResult stores the normalised result. *)
SetAgentResult(i) ==
  /\ apc[i] = "run"
  /\ \E r \in RunnerResults :
       LET n == NormalizeAgentResult(r) IN
       /\ status' = [status EXCEPT ![i] = IF n.status = "completed" THEN "completed" ELSE "error"]
       /\ failure' = [failure EXCEPT ![i] = n.failure]
  /\ apc' = [apc EXCEPT ![i] = "emit"]
  /\ UNCHANGED <<counter, agents, done, eventVars, pc, target, waitVars>>

(* Slip: a panic skips the completion event and the close of done. *)
PanicWithoutClose(i) ==
  /\ apc[i] = "run"
  /\ status' = [status EXCEPT ![i] = "error"]
  /\ failure' = [failure EXCEPT ![i] = FALSE]
  /\ apc' = [apc EXCEPT ![i] = "exited"]
  /\ UNCHANGED <<counter, agents, done, eventVars, pc, target, waitVars>>

(* runHeadless panicked: the innermost deferred function records an error. *)
MarkAgentPanic(i) ==
  /\ apc[i] = "run"
  /\ status' = [status EXCEPT ![i] = "error"]
  /\ failure' = [failure EXCEPT ![i] = FALSE]
  /\ apc' = [apc EXCEPT ![i] = "emit"]
  /\ UNCHANGED <<counter, agents, done, eventVars, pc, target, waitVars>>

(* The next deferred function sends the completion event ... *)
EmitCompletionEvent(i) ==
  /\ apc[i] = "emit"
  /\ EmitEvent([agent |-> i, tool |-> "_completed"])
  /\ apc' = [apc EXCEPT ![i] = "close"]
  /\ UNCHANGED <<counter, agents, status, failure, done, shown, pc, target, waitVars>>

(* ... and the outermost one closes done. *)
CloseDone(i) ==
  /\ apc[i] = "close"
  /\ done' = [done EXCEPT ![i] = TRUE]
  /\ apc' = [apc EXCEPT ![i] = "exited"]
  /\ UNCHANGED <<counter, agents, status, failure, eventVars, pc, target, waitVars>>

-----------------------------------------------------------------------------
(* Manager.Wait, on the goroutine executeWaitAgentWithLiveView starts *)

Current(c) == ids[c][Len(results[c]) + 1]

(* Store the result of the current id and fold it into the response. *)
Report(c, r) ==
  /\ results' = [results EXCEPT ![c] = Append(@, r)]
  /\ verdict' = [verdict EXCEPT ![c] = AggregateWaitStatus(@, r)]
  /\ pc' = [pc EXCEPT ![c] = "next"]

BeginWait(c) ==
  /\ pc[c] = "idle"
  /\ \E n \in 1 .. MaxWaitIds : \E s \in [1 .. n -> Ids] : ids' = [ids EXCEPT ![c] = s]
  /\ \E d \in {"none", "armed"} : deadline' = [deadline EXCEPT ![c] = d]
  /\ results' = [results EXCEPT ![c] = <<>>]
  /\ verdict' = [verdict EXCEPT ![c] = "completed"]
  /\ pc' = [pc EXCEPT ![c] = "next"]
  /\ UNCHANGED <<agentVars, eventVars, target>>

(* getAgent, under the lock. *)
AgentNotFound(c) ==
  /\ pc[c] = "next"
  /\ Len(results[c]) < Len(ids[c])
  /\ Current(c) \notin agents
  /\ Report(c, [agent |-> Current(c), found |-> FALSE, status |-> "error", failure |-> FALSE])
  /\ UNCHANGED <<agentVars, eventVars, target, ids, deadline>>

(* Slip: an expired call blocks again on its next id. *)
AgentFoundBlocks(c) ==
  /\ pc[c] = "next"
  /\ Len(results[c]) < Len(ids[c])
  /\ Current(c) \in agents
  /\ pc' = [pc EXCEPT ![c] = "block"]
  /\ UNCHANGED <<agentVars, eventVars, target, waitVars>>

AgentFound(c) ==
  /\ pc[c] = "next"
  /\ Len(results[c]) < Len(ids[c])
  /\ Current(c) \in agents
  /\ pc' = [pc EXCEPT ![c] = IF deadline[c] = "consumed" THEN "snapshot" ELSE "block"]
  /\ UNCHANGED <<agentVars, eventVars, target, waitVars>>

(* Slip: a poll of done instead of a receive. *)
PollDone(c) ==
  /\ pc[c] = "block"
  /\ pc' = [pc EXCEPT ![c] = "snapshot"]
  /\ UNCHANGED <<agentVars, eventVars, target, waitVars>>

(* The select on done and the deadline; both may be ready. *)
ReceiveDone(c) ==
  /\ pc[c] = "block"
  /\ done[Current(c)]
  /\ pc' = [pc EXCEPT ![c] = "snapshot"]
  /\ UNCHANGED <<agentVars, eventVars, target, waitVars>>

ReceiveDeadline(c) ==
  /\ pc[c] = "block"
  /\ deadline[c] = "fired"
  /\ deadline' = [deadline EXCEPT ![c] = "consumed"]
  /\ pc' = [pc EXCEPT ![c] = "snapshot"]
  /\ UNCHANGED <<agentVars, eventVars, target, ids, results, verdict>>

TimerFires(c) ==
  /\ deadline[c] = "armed"
  /\ deadline' = [deadline EXCEPT ![c] = "fired"]
  /\ UNCHANGED <<agentVars, eventVars, pc, target, ids, results, verdict>>

(* Slip: after the deadline the entry is read without a look at done. *)
NeverTimedOut(c) == FALSE

(* After the deadline an open done is a timeout, a closed one is still     *)
(* read; before it done is known to be closed.                             *)
TimedOut(c) == deadline[c] = "consumed" /\ ~done[Current(c)]

(* snapshotOrTimeout *)
SnapshotOrTimeout(c) ==
  /\ pc[c] = "snapshot"
  /\ Report(c, IF TimedOut(c)
               THEN [agent |-> Current(c), found |-> TRUE, status |-> "timeout", failure |-> FALSE]
               ELSE [agent |-> Current(c), found |-> TRUE,
                     status |-> status[Current(c)], failure |-> failure[Current(c)]])
  /\ UNCHANGED <<agentVars, eventVars, target, ids, deadline>>

(* Every id is answered: the response goes to the buffered resultCh, and   *)
(* the call's arguments and its timer go with its frame.                   *)
WaitReturns(c) ==
  /\ pc[c] = "next"
  /\ Len(results[c]) = Len(ids[c])
  /\ pc' = [pc EXCEPT ![c] = "reported"]
  /\ ids' = [ids EXCEPT ![c] = <<>>]
  /\ deadline' = [deadline EXCEPT ![c] = "none"]
  /\ UNCHANGED <<agentVars, eventVars, target, results, verdict>>

-----------------------------------------------------------------------------
(* The live view loop of executeWaitAgentWithLiveView *)

(* printSubAgentEvent on the event at the head of the channel. *)
PrintEvent ==
  /\ eventCh # <<>>
  /\ eventCh' = Tail(eventCh)
  /\ shown' = IF Head(eventCh).tool = "_completed" THEN shown \cup {Head(eventCh).agent} ELSE shown
  /\ dropped' = dropped

Waiting(c) == pc[c] \in {"next", "block", "snapshot", "reported"}

ViewEvent(c) ==
  /\ Waiting(c)
  /\ PrintEvent
  /\ UNCHANGED <<agentVars, pc, target, waitVars>>

TakeResult(c) ==
  /\ pc[c] = "reported"
  /\ pc' = [pc EXCEPT ![c] = "drain"]
  /\ UNCHANGED <<agentVars, eventVars, target, waitVars>>

(* drainEvents: print until the channel is empty, then return. *)
DrainEvent(c) ==
  /\ pc[c] = "drain"
  /\ PrintEvent
  /\ UNCHANGED <<agentVars, pc, target, waitVars>>

(* Slip: the view returns without draining. *)
ReturnUndrained(c) ==
  /\ pc[c] = "drain"
  /\ pc' = [pc EXCEPT ![c] = "idle"]
  /\ UNCHANGED <<agentVars, eventVars, target, waitVars>>

DrainEnd(c) ==
  /\ pc[c] = "drain"
  /\ eventCh = <<>>
  /\ pc' = [pc EXCEPT ![c] = "idle"]
  /\ UNCHANGED <<agentVars, eventVars, target, waitVars>>

-----------------------------------------------------------------------------
SpawnStep(c) == AllocateRunningAgent(c) \/ LaunchAgent(c) \/ RemoveAgent(c)

AgentStep(i) ==
  SetAgentResult(i) \/ MarkAgentPanic(i) \/ EmitCompletionEvent(i) \/ CloseDone(i)

WaitStep(c) ==
  \/ AgentNotFound(c) \/ AgentFound(c)
  \/ ReceiveDone(c) \/ ReceiveDeadline(c)
  \/ SnapshotOrTimeout(c) \/ WaitReturns(c)
  \/ TakeResult(c) \/ DrainEvent(c) \/ DrainEnd(c)

Next ==
  \/ \E c \in Callers : SpawnStep(c) \/ BeginWait(c) \/ WaitStep(c) \/ TimerFires(c) \/ ViewEvent(c)
  \/ \E i \in Ids : AgentStep(i) \/ RunnerToolEvent(i)

(* The Go scheduler runs every goroutine that can run, timers fire, a      *)
(* provider is resolved one way or the other, and a runner returns (its    *)
(* requests carry HTTP timeouts and its turns are capped).  Nothing makes  *)
(* the model issue a call.                                                 *)
Fairness ==
  /\ \A c \in Callers : WF_vars(LaunchAgent(c) \/ RemoveAgent(c))
  /\ \A c \in Callers : WF_vars(WaitStep(c))
  /\ \A c \in Callers : WF_vars(TimerFires(c))
  /\ \A i \in Ids : WF_vars(AgentStep(i))

Spec == Init /\ [][Next]_vars
FairSpec == Spec /\ Fairness
-----------------------------------------------------------------------------
AgentTypeOK ==
  /\ counter \in 0 .. MaxAgents
  /\ agents \in SUBSET (1 .. counter)
  /\ status \in [Ids -> Outcomes \cup {"none", "running"}]
  /\ failure \in [Ids -> BOOLEAN]
  /\ done \in [Ids -> BOOLEAN]
  /\ apc \in [Ids -> {"none", "allocated", "removed", "run", "emit", "close", "exited"}]

EventTypeOK ==
  /\ eventCh \in Seq(Events) /\ Len(eventCh) <= EventCap
  /\ dropped \in SUBSET Ids
  /\ shown \in SUBSET Ids

CallerTypeOK ==
  /\ pc \in [Callers -> {"idle", "resolve", "next", "block", "snapshot", "reported", "drain"}]
  /\ target \in [Callers -> 0 .. MaxAgents]
  /\ ids \in [Callers -> Seq(Ids)]
  /\ deadline \in [Callers -> {"none", "armed", "fired", "consumed"}]
  /\ results \in [Callers -> Seq(WaitResults)]
  /\ verdict \in [Callers -> Verdicts]

(* Every variable stays in the range its Go type and its uses give it; the *)
(* event channel never holds more than its capacity.                       *)
TypeOK == AgentTypeOK /\ EventTypeOK /\ CallerTypeOK

(* Never more sub-agent runs in flight than the configured limit, although *)
(* the limit is checked against map entries, not against goroutines.       *)
ConcurrencyBound == Cardinality({i \in Ids : apc[i] = "run"}) <= Limit

(* A wait result that is neither "not found" nor "timeout" is the final    *)
(* outcome of a sub-agent whose goroutine has finished: never "running",   *)
(* never an outcome that is still to be overwritten by a panic.            *)
AnswersAreFinal ==
  \A c \in Callers : \A k \in DOMAIN results[c] :
    LET r == results[c][k] IN
    r.found /\ r.status # "timeout" =>
      /\ done[r.agent] /\ apc[r.agent] = "exited"
      /\ r.status = status[r.agent] /\ r.failure = failure[r.agent]
      /\ r.status \in Outcomes

(* WaitResponse.Status sums the results up whatever order they came in: an *)
(* error or a failed tool beats a timeout, a timeout beats completion.     *)
VerdictSummarisesResults ==
  \A c \in Callers :
    LET rs == {results[c][k] : k \in DOMAIN results[c]} IN
    verdict[c] = IF \E r \in rs : r.status = "error" \/ r.failure THEN "error"
                 ELSE IF \E r \in rs : r.status = "timeout" THEN "timeout" ELSE "completed"

(* When the live view is back, the completion line of every sub-agent the  *)
(* response calls finished is out of the channel, in the hands of this     *)
(* view or of another one, unless the channel was full when it was sent.   *)
LiveViewShowsCompletions ==
  \A c \in Callers : pc[c] = "idle" =>
    \A k \in DOMAIN results[c] :
      LET r == results[c][k] IN
      r.found /\ r.status \in Outcomes => r.agent \in shown \cup dropped

(* A wait_agent call with a timeout comes back, whatever its ids are. *)
TimedWaitReturns ==
  \A c \in Callers : (Waiting(c) /\ deadline[c] # "none") ~> (pc[c] = "idle")

(* A wait_agent call without a timeout comes back unless it holds an entry *)
(* that removeAgent took away after getAgent had returned it.              *)
UntimedWaitReturns ==
  \A c \in Callers :
    Waiting(c) ~> (pc[c] = "idle" \/ (pc[c] = "block" /\ apc[Current(c)] = "removed"))

(* "Wait waits for the completion of the given sub-agents" taken at its    *)
(* word: every call of Wait ends (manager_wait.go:5).                      *)
WaitAlwaysReturns == \A c \in Callers : Waiting(c) ~> (pc[c] = "idle")

(* The manager implements the slot pool: an entry's slot is its status in  *)
(* the map, and a caller has been told what its results say is settled.    *)
PoolState == [i \in Ids |-> IF apc[i] = "removed" THEN "withdrawn"
                            ELSE IF status[i] = "none" THEN "unused" ELSE status[i]]
PoolTold == [c \in Callers |->
  {<<results[c][k].agent, results[c][k].status>> :
     k \in {j \in DOMAIN results[c] : results[c][j].found /\ results[c][j].status # "timeout"}}]
Pool == INSTANCE SubAgentPool WITH Agents <- Ids, Askers <- Callers,
                                   state <- PoolState, told <- PoolTold
ImplementsPool == Pool!Spec
=============================================================================
