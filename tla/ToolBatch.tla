----------------------------- MODULE ToolBatch -----------------------------
(***************************************************************************)
(* The executor of one response's tool calls                               *)
(* (internal/agent/agent_tool_parallel_executor.go with the plan of        *)
(* internal/toolruntime/parallel.go), and the loop detection a turn keeps  *)
(* over its batches (internal/agent/turn_runner.go).                       *)
(*                                                                         *)
(* A batch is planned, its mergeable searches and reads run as merged      *)
(* calls, the other parallel-safe calls run on goroutines behind a         *)
(* semaphore, the rest run one after the other, and every call's result is *)
(* delivered in the order of the calls.  The user may cancel at any time:  *)
(* every call looks at the context before its tool starts, and a cancel    *)
(* between the look and the start comes too late.                          *)
(***************************************************************************)
EXTENDS Integers, Sequences, FiniteSets

CONSTANTS
  Kinds,                   \* the kinds of tools the model calls
  Args,                    \* the arguments calls are told apart by
  MaxCalls,                \* bound: calls of a turn, over all its responses
  Threshold,               \* cfg.LoopDetection.Threshold
  MaxParallelTools,        \* capacity of the semaphore (4 in the code)
  MaxSearchBatchPatterns,  \* searches per merged call (5 in the code)
  MaxReadFileBatchPaths    \* reads per merged call (10 in the code; one path each here)

(* "search" and "read" may be merged, "probe" is any other parallel-safe   *)
(* tool, "write" stands for everything that is not parallel-safe.          *)
ASSUME BatchAssumption ==
  /\ Kinds \subseteq {"search", "read", "probe", "write"}
  /\ MaxCalls \in Nat \ {0}
  /\ Threshold \in Int
  /\ MaxParallelTools \in Nat \ {0}
  /\ MaxSearchBatchPatterns \in Nat \ {0}
  /\ MaxReadFileBatchPaths \in Nat \ {0}

Calls == [kind : Kinds, arg : Args]
NoCall == [kind |-> "none", arg |-> "none"]
Slots == 1 .. MaxCalls

VARIABLES
  calls,      \* state.AllToolCalls
  entry,      \* state.Entries[i].Status: execute, loop (abort), batched
  result,     \* state.Results[i]: none, ran (what the tool said), cancelled
  phase,      \* where executeToolCallsWithParallel stands
  chunks,     \* merged calls still to run, each a set of indices
  todo,       \* indices the current phase has not started yet
  worker,     \* the goroutine of call i, or the main one at call i
  sem,        \* tokens in the semaphore channel
  cancelled,  \* ctx.Err() # nil
  lastCall,   \* TurnRunner.lastToolCall
  sameCount,  \* TurnRunner.sameCallCount
  runs,       \* how often tool i was started, alone or in a merged call
  planned,    \* the calls of this turn that were let through, in order
  replies     \* results delivered so far, one per call

planVars == <<calls, lastCall, sameCount, planned>>
poolVars == <<worker, sem>>
vars == <<planVars, entry, result, phase, chunks, todo, poolVars, cancelled, runs, replies>>

Idx == DOMAIN calls
IsParallelSafe(i) == calls[i].kind # "write"
Smallest(S) == CHOOSE i \in S : \A j \in S : i <= j

-----------------------------------------------------------------------------
(* Phase 0: PlanParallelCalls with the loop detection of the turn. *)

(* The state of the detector before call i of the new batch. *)
Before(cs, i) == IF i = 1 THEN lastCall ELSE cs[i - 1]

(* The count after call i: how far the run of equal calls that ends at i   *)
(* reaches back, into the batches before if it covers this one.            *)
SameCount(cs, i) ==
  LET count[k \in 0 .. i] ==
        IF k = 0 THEN sameCount
        ELSE IF cs[k] = Before(cs, k) THEN count[k - 1] + 1 ELSE 1
  IN count[i]

(* Slip: every batch starts with a detector of its own. *)
TriggersInBatch(cs, i) ==
  i > 1 /\ cs[i] = cs[i - 1] /\ SameCount(cs, i) >= Threshold

Triggers(cs, i) == cs[i] = Before(cs, i) /\ SameCount(cs, i) >= Threshold

(* The calls let through: those before the first one that triggers. *)
LetThrough(cs) ==
  {i \in 1 .. Len(cs) : \A j \in 1 .. i : ~Triggers(cs, j)}

(* At most size indices of S per chunk, in order; a chunk of one runs as   *)
(* an ordinary call.                                                       *)
Rank(S, i) == Cardinality({j \in S : j < i})
Chunks(S, size) ==
  {c \in {{i \in S : Rank(S, i) \div size = k} : k \in 0 .. MaxCalls} : Cardinality(c) >= 2}

SearchChunks(cs, through) ==
  Chunks({i \in through : cs[i].kind = "search"}, MaxSearchBatchPatterns)

(* Reads on both sides of a write are not merged with each other. *)
ReadChunks ==
  LET live == {i \in Idx : entry[i] = "execute"}
      WritesBefore(i) == {j \in live : j < i /\ ~IsParallelSafe(j)}
      Segment(n) == {i \in live : calls[i].kind = "read" /\ Cardinality(WritesBefore(i)) = n}
  IN UNION {Chunks(Segment(n), MaxReadFileBatchPaths) : n \in 0 .. MaxCalls}

Init ==
  /\ calls = <<>>
  /\ entry = [i \in Slots |-> "execute"]
  /\ result = [i \in Slots |-> "none"]
  /\ phase = "request"
  /\ chunks = {}
  /\ todo = {}
  /\ worker = [i \in Slots |-> "idle"]
  /\ sem = 0
  /\ cancelled = FALSE
  /\ lastCall = NoCall
  /\ sameCount = 0
  /\ runs = [i \in Slots |-> 0]
  /\ planned = <<>>
  /\ replies = <<>>

(* The model answers with the calls cs; the plan is made before anything runs. *)
PlanParallelCalls(cs) ==
  LET through == LetThrough(cs)
      n == Cardinality(through)
      seen == IF n < Len(cs) THEN n + 1 ELSE n   \* the trigger is counted too
  IN
  /\ phase = "request"
  /\ ~cancelled
  /\ Len(planned) + Len(cs) <= MaxCalls
  /\ calls' = cs
  /\ entry' = [i \in Slots |-> IF i \in 1 .. Len(cs) \ through THEN "loop" ELSE "execute"]
  /\ result' = [i \in Slots |-> "none"]
  /\ worker' = [i \in Slots |-> "idle"]
  /\ runs' = [i \in Slots |-> 0]
  /\ replies' = <<>>
  /\ lastCall' = IF n = 0 THEN lastCall ELSE cs[n]
  /\ sameCount' = SameCount(cs, seen)
  /\ planned' = planned \o SubSeq(cs, 1, n)
  /\ chunks' = SearchChunks(cs, through)
  /\ phase' = "search"
  /\ UNCHANGED <<todo, sem, cancelled>>

NewBatch == \E n \in 1 .. MaxCalls : \E cs \in [1 .. n -> Calls] : PlanParallelCalls(cs)

-----------------------------------------------------------------------------
(* Phase 0.5: merged calls *)

NextChunk == CHOOSE c \in chunks : \A d \in chunks : Smallest(c) <= Smallest(d)

AtNextChunk(place) == chunks # {} /\ \A i \in NextChunk : worker[i] = place

Chunk(place) == [i \in Slots |-> IF i \in NextChunk THEN place ELSE worker[i]]

(* The context is cancelled: the calls stay to be run one by one. *)
MergedSkipped ==
  /\ AtNextChunk("idle")
  /\ cancelled
  /\ chunks' = chunks \ {NextChunk}
  /\ UNCHANGED <<planVars, poolVars, entry, result, phase, todo, cancelled, runs, replies>>

(* The last look at the context; those before it find nothing else. *)
MergedLooks ==
  /\ AtNextChunk("idle")
  /\ ~cancelled
  /\ worker' = Chunk("looked")
  /\ UNCHANGED <<planVars, sem, entry, result, phase, chunks, todo, cancelled, runs, replies>>

(* The merged call runs, cancelled or not; when its output cannot be split *)
(* among its calls they stay to be run one by one.                         *)
MergedRuns ==
  /\ AtNextChunk("looked")
  /\ chunks' = chunks \ {NextChunk}
  /\ worker' = Chunk("idle")
  /\ runs' = [i \in Slots |-> IF i \in NextChunk THEN runs[i] + 1 ELSE runs[i]]
  /\ \/ /\ result' = [i \in Slots |-> IF i \in NextChunk THEN "ran" ELSE result[i]]
        /\ entry' = [i \in Slots |-> IF i \in NextChunk THEN "batched" ELSE entry[i]]
     \/ UNCHANGED <<result, entry>>
  /\ UNCHANGED <<planVars, sem, phase, todo, cancelled, replies>>

MergedCall == MergedSkipped \/ MergedLooks \/ MergedRuns

ExecuteSearchCodeBatch == phase = "search" /\ MergedCall

SearchBatchDone ==
  /\ phase = "search"
  /\ chunks = {}
  /\ chunks' = ReadChunks
  /\ phase' = "read"
  /\ UNCHANGED <<planVars, poolVars, entry, result, todo, cancelled, runs, replies>>

ExecuteReadFileBatchMerge == phase = "read" /\ MergedCall

(* PartitionParallelAndSequential *)
ParallelEntries == {i \in Idx : entry[i] = "execute" /\ IsParallelSafe(i)}
SequentialEntries == {i \in Idx : entry[i] = "execute" /\ ~IsParallelSafe(i)}

ReadBatchDone ==
  /\ phase = "read"
  /\ chunks = {}
  /\ todo' = ParallelEntries
  /\ phase' = "parallel"
  /\ UNCHANGED <<planVars, poolVars, entry, result, chunks, cancelled, runs, replies>>

-----------------------------------------------------------------------------
(* Phase 1: executeParallelSafeTools *)

Next1 == Smallest(todo)

(* The context is looked at before the semaphore is waited for ... *)
SkipCancelled ==
  /\ phase = "parallel"
  /\ todo # {}
  /\ cancelled
  /\ worker[Next1] = "idle"
  /\ result' = [result EXCEPT ![Next1] = "cancelled"]
  /\ todo' = todo \ {Next1}
  /\ UNCHANGED <<planVars, poolVars, entry, phase, chunks, cancelled, runs, replies>>

QueueForSlot ==
  /\ phase = "parallel"
  /\ todo # {}
  /\ ~cancelled
  /\ worker[Next1] = "idle"
  /\ worker' = [worker EXCEPT ![Next1] = "queued"]
  /\ UNCHANGED <<planVars, sem, entry, result, phase, chunks, todo, cancelled, runs, replies>>

(* Slip: the goroutine is started without a token from the semaphore. *)
StartWithoutSlot ==
  /\ phase = "parallel"
  /\ todo # {}
  /\ worker[Next1] = "queued"
  /\ sem' = sem
  /\ worker' = [worker EXCEPT ![Next1] = "started"]
  /\ todo' = todo \ {Next1}
  /\ UNCHANGED <<planVars, entry, result, phase, chunks, cancelled, runs, replies>>

(* ... and not again after it: sem <- struct{}{}, then the goroutine. *)
TakeSlot ==
  /\ phase = "parallel"
  /\ todo # {}
  /\ worker[Next1] = "queued"
  /\ sem < MaxParallelTools
  /\ sem' = sem + 1
  /\ worker' = [worker EXCEPT ![Next1] = "started"]
  /\ todo' = todo \ {Next1}
  /\ UNCHANGED <<planVars, entry, result, phase, chunks, cancelled, runs, replies>>

(* The goroutine looks again, for the last time before the tool starts ... *)
WorkerLooks(i) ==
  /\ worker[i] = "started"
  /\ ~cancelled
  /\ worker' = [worker EXCEPT ![i] = "looked"]
  /\ UNCHANGED <<planVars, sem, entry, result, phase, chunks, todo, cancelled, runs, replies>>

(* ... which it then does, also when a cancel has come in between. *)
WorkerStarts(i) ==
  /\ phase = "parallel"
  /\ worker[i] = "looked"
  /\ worker' = [worker EXCEPT ![i] = "running"]
  /\ runs' = [runs EXCEPT ![i] = @ + 1]
  /\ UNCHANGED <<planVars, sem, entry, result, phase, chunks, todo, cancelled, replies>>

(* Slip: a worker that gives up returns its token itself, and its deferred *)
(* function does so again.                                                 *)
GiveUpAndRelease(i) ==
  /\ worker[i] = "started"
  /\ cancelled
  /\ sem' = sem - 1
  /\ result' = [result EXCEPT ![i] = "cancelled"]
  /\ worker' = [worker EXCEPT ![i] = "stored"]
  /\ UNCHANGED <<planVars, entry, phase, chunks, todo, cancelled, runs, replies>>

WorkerGivesUp(i) ==
  /\ worker[i] = "started"
  /\ cancelled
  /\ result' = [result EXCEPT ![i] = "cancelled"]
  /\ worker' = [worker EXCEPT ![i] = "stored"]
  /\ UNCHANGED <<planVars, sem, entry, phase, chunks, todo, cancelled, runs, replies>>

(* The tool returned; the result is stored under mu. *)
WorkerStores(i) ==
  /\ phase = "parallel"
  /\ worker[i] = "running"
  /\ result' = [result EXCEPT ![i] = "ran"]
  /\ worker' = [worker EXCEPT ![i] = "stored"]
  /\ UNCHANGED <<planVars, sem, entry, phase, chunks, todo, cancelled, runs, replies>>

(* Slip: the token is not returned. *)
KeepSlot(i) ==
  /\ worker[i] = "stored"
  /\ worker' = [worker EXCEPT ![i] = "released"]
  /\ UNCHANGED <<planVars, sem, entry, result, phase, chunks, todo, cancelled, runs, replies>>

(* The deferred functions run last to first: the token, then wg.Done. *)
ReleaseSlot(i) ==
  /\ worker[i] = "stored"
  /\ sem' = sem - 1
  /\ worker' = [worker EXCEPT ![i] = "released"]
  /\ UNCHANGED <<planVars, entry, result, phase, chunks, todo, cancelled, runs, replies>>

WorkerDone(i) ==
  /\ worker[i] = "released"
  /\ worker' = [worker EXCEPT ![i] = "done"]
  /\ UNCHANGED <<planVars, sem, entry, result, phase, chunks, todo, cancelled, runs, replies>>

(* Slip: the token, not wg.Done, is what the join waits for. *)
JoinOnSlots ==
  /\ phase = "parallel"
  /\ todo = {}
  /\ \A i \in Slots : worker[i] # "running"
  /\ todo' = SequentialEntries
  /\ phase' = "sequential"
  /\ UNCHANGED <<planVars, poolVars, entry, result, chunks, cancelled, runs, replies>>

(* wg.Wait() *)
Join ==
  /\ phase = "parallel"
  /\ todo = {}
  /\ \A i \in Slots : worker[i] \in {"idle", "done"}
  /\ todo' = SequentialEntries
  /\ phase' = "sequential"
  /\ UNCHANGED <<planVars, poolVars, entry, result, chunks, cancelled, runs, replies>>

-----------------------------------------------------------------------------
(* executeSequentialTools *)

SequentialCancelled ==
  /\ phase = "sequential"
  /\ todo # {}
  /\ worker[Next1] = "idle"
  /\ cancelled
  /\ result' = [result EXCEPT ![Next1] = "cancelled"]
  /\ todo' = todo \ {Next1}
  /\ UNCHANGED <<planVars, poolVars, entry, phase, chunks, cancelled, runs, replies>>

(* Slip: the loop leaves the look to the tools. *)
SequentialLooksAway ==
  /\ phase = "sequential"
  /\ todo # {}
  /\ worker[Next1] = "idle"
  /\ worker' = [worker EXCEPT ![Next1] = "looked"]
  /\ UNCHANGED <<planVars, sem, entry, result, phase, chunks, todo, cancelled, runs, replies>>

(* The loop looks at the context, and so does the executor of the tool ... *)
SequentialLooks ==
  /\ phase = "sequential"
  /\ todo # {}
  /\ worker[Next1] = "idle"
  /\ ~cancelled
  /\ worker' = [worker EXCEPT ![Next1] = "looked"]
  /\ UNCHANGED <<planVars, sem, entry, result, phase, chunks, todo, cancelled, runs, replies>>

(* ... before it starts. *)
SequentialStarts ==
  /\ phase = "sequential"
  /\ todo # {}
  /\ worker[Next1] = "looked"
  /\ worker' = [worker EXCEPT ![Next1] = "running"]
  /\ runs' = [runs EXCEPT ![Next1] = @ + 1]
  /\ UNCHANGED <<planVars, sem, entry, result, phase, chunks, todo, cancelled, replies>>

(* Slip: a cancel during the run is reported as if the tool had not run. *)
SequentialForgets ==
  /\ phase = "sequential"
  /\ todo # {}
  /\ worker[Next1] = "running"
  /\ result' = [result EXCEPT ![Next1] = IF cancelled THEN "cancelled" ELSE "ran"]
  /\ worker' = [worker EXCEPT ![Next1] = "done"]
  /\ todo' = todo \ {Next1}
  /\ UNCHANGED <<planVars, sem, entry, phase, chunks, cancelled, runs, replies>>

SequentialReturns ==
  /\ phase = "sequential"
  /\ todo # {}
  /\ worker[Next1] = "running"
  /\ result' = [result EXCEPT ![Next1] = "ran"]
  /\ worker' = [worker EXCEPT ![Next1] = "done"]
  /\ todo' = todo \ {Next1}
  /\ UNCHANGED <<planVars, sem, entry, phase, chunks, cancelled, runs, replies>>

SequentialDone ==
  /\ phase = "sequential"
  /\ todo = {}
  /\ phase' = "deliver"
  /\ UNCHANGED <<planVars, poolVars, entry, result, chunks, todo, cancelled, runs, replies>>

-----------------------------------------------------------------------------
(* Phase 2: deliverToolExecutionResults *)

DeliverAt ==
  /\ phase = "deliver"
  /\ Len(replies) < Len(calls)
  /\ LET i == Len(replies) + 1 IN
     replies' = Append(replies, IF entry[i] = "loop" THEN "aborted" ELSE result[i])
  /\ UNCHANGED <<planVars, poolVars, entry, result, phase, chunks, todo, cancelled, runs>>

LoopDetected == \E i \in Idx : entry[i] = "loop"

(* A loop ends the turn with an error, a cancelled context ends it after   *)
(* the results (afterToolResults); otherwise the model is asked again.     *)
BatchReturns ==
  /\ phase = "deliver"
  /\ Len(replies) = Len(calls)
  /\ phase' = IF LoopDetected \/ cancelled THEN "ended" ELSE "request"
  /\ UNCHANGED <<planVars, poolVars, entry, result, chunks, todo, cancelled, runs, replies>>

Cancel ==
  /\ phase # "ended"
  /\ ~cancelled
  /\ cancelled' = TRUE
  /\ UNCHANGED <<planVars, poolVars, entry, result, phase, chunks, todo, runs, replies>>

Worker(i) ==
  \/ WorkerLooks(i) \/ WorkerGivesUp(i) \/ WorkerStarts(i) \/ WorkerStores(i)
  \/ ReleaseSlot(i) \/ WorkerDone(i)

Main ==
  \/ ExecuteSearchCodeBatch \/ SearchBatchDone
  \/ ExecuteReadFileBatchMerge \/ ReadBatchDone
  \/ SkipCancelled \/ QueueForSlot \/ TakeSlot \/ Join
  \/ SequentialCancelled \/ SequentialLooks \/ SequentialStarts \/ SequentialReturns \/ SequentialDone
  \/ DeliverAt \/ BatchReturns

Next == NewBatch \/ Main \/ Cancel \/ \E i \in Slots : Worker(i)

(* The scheduler runs every goroutine that can run, and every tool returns *)
(* (tools carry timeouts of their own).  Nothing makes the user cancel or  *)
(* the model answer.                                                       *)
Fairness == WF_vars(Main) /\ \A i \in Slots : WF_vars(Worker(i))

Spec == Init /\ [][Next]_vars
FairSpec == Spec /\ Fairness
-----------------------------------------------------------------------------
PlanTypeOK ==
  /\ calls \in Seq(Calls) /\ Len(calls) <= MaxCalls
  /\ lastCall \in Calls \cup {NoCall}
  /\ sameCount \in Nat
  /\ planned \in Seq(Calls)

ExecTypeOK ==
  /\ entry \in [Slots -> {"execute", "loop", "batched"}]
  /\ result \in [Slots -> {"none", "ran", "cancelled"}]
  /\ phase \in {"request", "search", "read", "parallel", "sequential", "deliver", "ended"}
  /\ chunks \in SUBSET (SUBSET Slots)
  /\ todo \in SUBSET Slots
  /\ worker \in [Slots -> {"idle", "queued", "started", "looked", "running", "stored", "released",
                         "done"}]
  /\ sem \in 0 .. MaxParallelTools
  /\ cancelled \in BOOLEAN
  /\ runs \in [Slots -> Nat]
  /\ replies \in Seq({"ran", "cancelled", "aborted"})

(* Types and ranges; the semaphore never holds more tokens than its       *)
(* capacity nor fewer than none, and no reply is an unwritten result.      *)
TypeOK == PlanTypeOK /\ ExecTypeOK

Running == {i \in Slots : worker[i] = "running"}

(* Never more tools run at once than the semaphore has tokens. *)
InFlightBound == Cardinality(Running) <= MaxParallelTools

(* A tool that is not parallel-safe runs alone, after every parallel-safe  *)
(* call of the batch has its result.                                       *)
SequentialRunsAlone ==
  \A i \in Running : ~IsParallelSafe(i) =>
    /\ Running = {i}
    /\ \A j \in ParallelEntries : result[j] # "none" /\ worker[j] \in {"idle", "done"}

(* The model is told what happened: a call that has a tool result ran, a   *)
(* call reported as cancelled or aborted had no side effect, and no call   *)
(* that may have one runs twice.                                           *)
RepliesTellWhatRan ==
  \A k \in DOMAIN replies :
    /\ replies[k] = "ran" => runs[k] >= 1
    /\ replies[k] = "cancelled" /\ calls[k].kind \in {"probe", "write"} => runs[k] = 0
    /\ replies[k] = "aborted" => runs[k] = 0
    /\ runs[k] <= IF calls[k].kind \in {"search", "read"} THEN 2 ELSE 1

Longest == IF Threshold < 2 THEN 1 ELSE Threshold - 1

(* Loop detection: over the whole turn, batch borders included, no run of  *)
(* equal calls gets longer than one below the threshold.                   *)
LoopsAreCut ==
  \A k \in 1 .. Len(planned) - Longest :
    \E j \in k .. k + Longest - 1 : planned[j] # planned[j + 1]

(* A cancel stops a batch at one place of the order it runs in: once a     *)
(* call was left out because of it, in either phase, no write that comes   *)
(* later runs, so a write that ran had everything before it.               *)
WritesStopAtCancel ==
  \A i, k \in Idx : result[i] = "cancelled" /\ ~IsParallelSafe(k) /\ runs[k] > 0 =>
    ~IsParallelSafe(i) /\ k < i

(* A batch always comes to its end, with a reply for every call. *)
BatchCompletes ==
  (phase = "search") ~> (phase \in {"request", "ended"} /\ Len(replies) = Len(calls))
=============================================================================
