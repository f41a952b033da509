---------------------------- MODULE WorkProofs ----------------------------
(***************************************************************************)
(* Proofs about the tool batch executor and its loop detection (ToolBatch),*)
(* about the connection to a language server (LanguageServer), and about   *)
(* the specification that puts the two side by side (MCWork).              *)
(***************************************************************************)
EXTENDS MCWork, SequenceFacts

----------------------------------------------------------------------------
(***************************************************************************)
(* Proofs about the tool batch executor, for every set of tools and        *)
(* arguments, every number of calls and every limit: the semaphore counts  *)
(* the goroutines that hold a token, so no more tools run than it has; a   *)
(* tool that is not parallel-safe runs alone; every call has a result      *)
(* when the results are delivered.                                         *)
(***************************************************************************)

-----------------------------------------------------------------------------
(* The inductive invariant. *)

Places == {"idle", "queued", "started", "looked", "running", "stored", "released", "done"}

(* The goroutines between the semaphore and their deferred release. *)
Holding == {i \in Slots : worker[i] \in {"started", "looked", "running", "stored"}}

CallsTypeOK == calls \in Seq(Calls) /\ Len(calls) <= MaxCalls

SlotsCounted == sem = IF phase = "parallel" THEN Cardinality(Holding) ELSE 0

(* Where goroutines may be in each phase. *)
WorkersInPhase ==
  /\ phase \in {"search", "read"} => \A i \in Slots :
       worker[i] = "idle" \/ (worker[i] = "looked" /\ chunks # {} /\ i \in NextChunk)
  /\ phase = "parallel" => \A i \in Slots :
       worker[i] \in {"started", "looked", "running", "stored", "released", "done"}
         => i \in ParallelEntries \ todo
  /\ phase = "sequential" => \A i \in Slots :
       /\ worker[i] \in {"idle", "looked", "running", "done"}
       /\ worker[i] \in {"looked", "running"} => i \in todo /\ i = Next1
  /\ phase \in {"request", "deliver", "ended"} =>
       \A i \in Slots : worker[i] \in {"idle", "done"}

TodoInPhase ==
  /\ phase = "parallel" => todo \subseteq ParallelEntries
  /\ phase = "sequential" => todo \subseteq SequentialEntries

(* Which calls have their result in each phase. *)
ResultsInPhase ==
  /\ \A i \in Idx : entry[i] = "batched" => result[i] # "none"
  /\ phase = "parallel" => \A i \in ParallelEntries :
       i \in todo \/ worker[i] \in {"started", "looked", "running"} \/ result[i] # "none"
  /\ phase \in {"sequential", "deliver"} =>
       \A i \in ParallelEntries : result[i] # "none"
  /\ phase = "sequential" => \A i \in SequentialEntries : i \in todo \/ result[i] # "none"
  /\ phase = "deliver" => \A i \in SequentialEntries : result[i] # "none"

IInv ==
  /\ CallsTypeOK
  /\ ExecTypeOK
  /\ SlotsCounted
  /\ WorkersInPhase
  /\ TodoInPhase
  /\ ResultsInPhase
-----------------------------------------------------------------------------
(* Lemmas about the helpers. *)

(* Smallest is the smallest element of a finite set. *)
LEMMA SmallestIn ==
  ASSUME NEW S, S \subseteq Int, S # {}, IsFiniteSet(S)
  PROVE  Smallest(S) \in S /\ \A j \in S : Smallest(S) <= j
<1>1. \E i \in S : \A j \in S : i <= j
  BY SmallestExists
<1>2. QED BY <1>1 DEF Smallest

LEMMA SlotsFinite == IsFiniteSet(Slots) /\ Slots \subseteq Int
<1>1. MaxCalls \in Int /\ 1 \in Int
  BY BatchAssumption
<1>2. IsFiniteSet(1 .. MaxCalls)
  BY <1>1, FS_Interval
<1>3. QED BY <1>1, <1>2 DEF Slots

LEMMA NextInTodo ==
  ASSUME todo \subseteq Slots, todo # {}
  PROVE  Next1 \in todo /\ Next1 \in Slots
<1>1. IsFiniteSet(todo) /\ todo \subseteq Int
  BY SlotsFinite, FS_Subset
<1>2. QED BY <1>1, SmallestIn DEF Next1

(* The calls of a batch are among the slots. *)
LEMMA IdxInSlots ==
  ASSUME CallsTypeOK
  PROVE  Idx \subseteq Slots /\ Idx = 1 .. Len(calls) /\ Len(calls) \in Nat
BY BatchAssumption, LenProperties DEF CallsTypeOK, Idx, Slots

(* A step that leaves the plan alone leaves its parts alone. *)
LEMMA SamePlan ==
  ASSUME UNCHANGED <<calls, entry>>
  PROVE  /\ Idx' = Idx
         /\ ParallelEntries' = ParallelEntries
         /\ SequentialEntries' = SequentialEntries
BY DEF Idx, ParallelEntries, SequentialEntries, IsParallelSafe

(* A goroutine takes a token, holds it or returns it. *)
LEMMA HoldingCount ==
  ASSUME ExecTypeOK
  PROVE  /\ IsFiniteSet(Holding) /\ Cardinality(Holding) \in Nat
         /\ \A i \in Slots : i \notin Holding =>
              Cardinality(Holding \cup {i}) = Cardinality(Holding) + 1
         /\ \A i \in Holding : Cardinality(Holding \ {i}) = Cardinality(Holding) - 1
<1>1. IsFiniteSet(Holding)
  BY SlotsFinite, FS_Subset DEF Holding
<1>2. QED BY <1>1, FS_CardinalityType, FS_AddElement, FS_RemoveElement

(* The merged calls of a phase are sets of calls. *)
LEMMA ChunksInSlots ==
  ASSUME NEW S, S \subseteq Slots, NEW n
  PROVE  Chunks(S, n) \subseteq SUBSET Slots
BY DEF Chunks

LEMMA ReadChunksInSlots ==
  ASSUME CallsTypeOK
  PROVE  ReadChunks \in SUBSET (SUBSET Slots)
<1> DEFINE live == {i \in Idx : entry[i] = "execute"}
           WritesBefore(i) == {j \in live : j < i /\ ~IsParallelSafe(j)}
           Segment(n) == {i \in live : calls[i].kind = "read" /\ Cardinality(WritesBefore(i)) = n}
<1>1. \A n \in 0 .. MaxCalls : Segment(n) \subseteq Slots
  BY IdxInSlots
<1>2. \A n \in 0 .. MaxCalls :
        Chunks(Segment(n), MaxReadFileBatchPaths) \subseteq SUBSET Slots
  <2> HIDE DEF Segment
  <2> QED BY <1>1, ChunksInSlots
<1>3. ReadChunks = UNION {Chunks(Segment(n), MaxReadFileBatchPaths) : n \in 0 .. MaxCalls}
  BY DEF ReadChunks
<1>4. QED
  <2> HIDE DEF Segment
  <2> QED BY <1>2, <1>3

-----------------------------------------------------------------------------
(* The invariant holds at first and is kept by every step. *)

LEMMA InitIInv == Init => IInv
<1> SUFFICES ASSUME Init PROVE IInv
  OBVIOUS
<1> USE BatchAssumption DEF Init
<1>1. CallsTypeOK
  BY DEF CallsTypeOK
<1>2. ExecTypeOK
  <2>1. sem \in 0 .. MaxParallelTools
    OBVIOUS
  <2>2. runs \in [Slots -> Nat] /\ replies \in Seq({"ran", "cancelled", "aborted"})
    OBVIOUS
  <2>3. /\ chunks \in SUBSET (SUBSET Slots) /\ todo \in SUBSET Slots
        /\ cancelled \in BOOLEAN
    OBVIOUS
  <2>4. worker \in [Slots -> Places]
    BY DEF Places
  <2>5. /\ entry \in [Slots -> {"execute", "loop", "batched"}]
        /\ result \in [Slots -> {"none", "ran", "cancelled"}]
    OBVIOUS
  <2>6. phase = "request"
    OBVIOUS
  <2> HIDE DEF Init
  <2>7. QED BY <2>1, <2>2, <2>3, <2>4, <2>5, <2>6 DEF ExecTypeOK, Places
<1>3. SlotsCounted /\ WorkersInPhase /\ TodoInPhase
  BY DEF SlotsCounted, WorkersInPhase, TodoInPhase
<1>4. ResultsInPhase
  BY DEF ResultsInPhase, Idx
<1>5. QED BY <1>1, <1>2, <1>3, <1>4 DEF IInv

LEMMA PlanKeepsIInv ==
  ASSUME IInv, NEW n \in 1 .. MaxCalls, NEW cs \in [1 .. n -> Calls], PlanParallelCalls(cs)
  PROVE  IInv'
<1>1. cs \in Seq(Calls) /\ Len(cs) = n /\ n \in Nat /\ n <= MaxCalls
  BY BatchAssumption
<1>2. CallsTypeOK'
  BY <1>1 DEF CallsTypeOK, PlanParallelCalls
<1>3. SearchChunks(cs, LetThrough(cs)) \in SUBSET (SUBSET Slots)
  <2>1. {i \in LetThrough(cs) : cs[i].kind = "search"} \subseteq Slots
    BY <1>1, BatchAssumption DEF LetThrough, Slots
  <2>2. QED BY <2>1, ChunksInSlots DEF SearchChunks
<1>4. ExecTypeOK'
  BY <1>3 DEF PlanParallelCalls, IInv, ExecTypeOK
<1>5. phase = "request" /\ phase' = "search" /\ sem' = sem
  BY DEF PlanParallelCalls
<1>6. SlotsCounted' /\ TodoInPhase'
  BY <1>5 DEF IInv, SlotsCounted, TodoInPhase
<1>7. WorkersInPhase'
  BY <1>5 DEF PlanParallelCalls, WorkersInPhase
<1>8. ResultsInPhase'
  <2>1. \A i \in Slots : entry'[i] # "batched"
    BY DEF PlanParallelCalls
  <2>2. Idx' \subseteq Slots
    BY <1>1, BatchAssumption DEF PlanParallelCalls, Idx, Slots
  <2>3. QED BY <1>5, <2>1, <2>2 DEF ResultsInPhase
<1>9. QED BY <1>2, <1>4, <1>6, <1>7, <1>8 DEF IInv

(* Before a merged call the goroutines are idle or all at the look.        *)
LEMMA MergedStep ==
  ASSUME IInv, phase \in {"search", "read"}, MergedCall
  PROVE  /\ UNCHANGED <<calls, phase, todo, sem, cancelled, replies>>
         /\ chunks # {}
         /\ \/ /\ UNCHANGED <<entry, result, runs, worker>>
               /\ chunks' = chunks \ {NextChunk}
               /\ \A i \in Slots : worker[i] = "idle"
            \/ /\ UNCHANGED <<entry, result, runs, chunks>>
               /\ NextChunk' = NextChunk
               /\ worker' = Chunk("looked")
               /\ \A i \in Slots : worker[i] = "idle"
            \/ /\ chunks' = chunks \ {NextChunk}
               /\ worker' = Chunk("idle")
               /\ \A i \in Slots : worker[i] = "idle" \/ (worker[i] = "looked" /\ i \in NextChunk)
               /\ runs' = [i \in Slots |-> IF i \in NextChunk THEN runs[i] + 1 ELSE runs[i]]
               /\ \/ /\ result' = [i \in Slots |-> IF i \in NextChunk THEN "ran" ELSE result[i]]
                     /\ entry' = [i \in Slots |-> IF i \in NextChunk THEN "batched" ELSE entry[i]]
                  \/ UNCHANGED <<result, entry>>
<1>1. \A i \in Slots : worker[i] = "idle" \/ (worker[i] = "looked" /\ i \in NextChunk)
  BY DEF IInv, WorkersInPhase
<1>2. CASE MergedSkipped
  BY <1>1, <1>2 DEF MergedSkipped, AtNextChunk, planVars, poolVars
<1>3. CASE MergedLooks
  <2>1. NextChunk' = NextChunk
    BY <1>3 DEF MergedLooks, NextChunk
  <2>2. QED BY <1>1, <1>3, <2>1 DEF MergedLooks, AtNextChunk, planVars
<1>4. CASE MergedRuns
  BY <1>1, <1>4 DEF MergedRuns, AtNextChunk, planVars
<1>5. QED BY <1>2, <1>3, <1>4 DEF MergedCall

LEMMA MergedKeepsIInv ==
  ASSUME IInv, phase \in {"search", "read"}, MergedCall
  PROVE  IInv'
<1>1. UNCHANGED <<calls, phase, todo, sem, cancelled, replies>> /\ chunks' \subseteq chunks
  BY MergedStep
<1>2. CallsTypeOK'
  BY <1>1 DEF IInv, CallsTypeOK
<1>3. runs' \in [Slots -> Nat]
  BY MergedStep DEF IInv, ExecTypeOK
<1>4. result' \in [Slots -> {"none", "ran", "cancelled"}]
  BY MergedStep DEF IInv, ExecTypeOK
<1>5. entry' \in [Slots -> {"execute", "loop", "batched"}]
  BY MergedStep DEF IInv, ExecTypeOK
<1>12. worker' \in [Slots -> Places]
  BY MergedStep DEF IInv, ExecTypeOK, Chunk, Places
<1>6. ExecTypeOK'
  BY <1>1, <1>3, <1>4, <1>5, <1>12 DEF IInv, ExecTypeOK, Places
<1>7. SlotsCounted' /\ TodoInPhase'
  BY <1>1 DEF IInv, SlotsCounted, TodoInPhase
<1>13. WorkersInPhase'
  BY <1>1, MergedStep DEF WorkersInPhase, Chunk
<1>8. \A i \in Slots : entry'[i] = "batched" =>
        result'[i] = "ran" \/ (entry[i] = "batched" /\ result'[i] = result[i])
  BY MergedStep DEF IInv, ExecTypeOK
<1>9. Idx' = Idx /\ Idx \subseteq Slots
  BY <1>1, IdxInSlots DEF IInv, Idx
<1>10. ResultsInPhase'
  BY <1>1, <1>8, <1>9 DEF IInv, ResultsInPhase
<1>11. QED BY <1>2, <1>6, <1>7, <1>10, <1>13 DEF IInv

LEMMA SearchDoneKeepsIInv ==
  ASSUME IInv, SearchBatchDone
  PROVE  IInv'
<1>1. ReadChunks \in SUBSET (SUBSET Slots)
  BY ReadChunksInSlots DEF IInv
<1>2. CallsTypeOK' /\ ExecTypeOK'
  BY <1>1 DEF SearchBatchDone, planVars, poolVars, IInv, CallsTypeOK, ExecTypeOK
<1>3. /\ UNCHANGED <<calls, entry, result, todo, worker, sem>>
      /\ phase = "search" /\ phase' = "read" /\ chunks = {}
  BY DEF SearchBatchDone, planVars, poolVars
<1>6. \A i \in Slots : worker[i] = "idle"
  BY <1>3 DEF IInv, WorkersInPhase
<1>4. SlotsCounted' /\ WorkersInPhase' /\ TodoInPhase' /\ ResultsInPhase'
  BY <1>3, <1>6 DEF IInv, SlotsCounted, WorkersInPhase, TodoInPhase, ResultsInPhase, Idx
<1>5. QED BY <1>2, <1>4 DEF IInv

LEMMA ReadDoneKeepsIInv ==
  ASSUME IInv, ReadBatchDone
  PROVE  IInv'
<1>1. ParallelEntries \subseteq Slots
  BY IdxInSlots DEF IInv, ParallelEntries
<1>2. CallsTypeOK' /\ ExecTypeOK'
  BY <1>1 DEF ReadBatchDone, planVars, poolVars, IInv, CallsTypeOK, ExecTypeOK
<1>3. /\ UNCHANGED <<calls, entry, result, worker, sem>>
      /\ phase = "read" /\ phase' = "parallel" /\ todo' = ParallelEntries /\ chunks = {}
  BY DEF ReadBatchDone, planVars, poolVars
<1>4. Idx' = Idx /\ ParallelEntries' = ParallelEntries
  BY <1>3, SamePlan
<1>5. \A i \in Slots : worker[i] = "idle"
  BY <1>3 DEF IInv, WorkersInPhase
<1>6. Holding' = {} /\ sem' = 0
  BY <1>3, <1>5 DEF IInv, SlotsCounted, Holding
<1>7. SlotsCounted'
  BY <1>3, <1>6, FS_EmptySet DEF SlotsCounted
<1>8. WorkersInPhase' /\ TodoInPhase' /\ ResultsInPhase'
  BY <1>3, <1>4, <1>5 DEF IInv, WorkersInPhase, TodoInPhase, ResultsInPhase
<1>9. QED BY <1>2, <1>7, <1>8 DEF IInv

LEMMA SkipKeepsIInv ==
  ASSUME IInv, SkipCancelled
  PROVE  IInv'
<1>1. /\ UNCHANGED <<calls, entry, phase, worker, sem>> /\ phase = "parallel"
      /\ worker[Next1] = "idle" /\ todo' = todo \ {Next1}
      /\ result' = [result EXCEPT ![Next1] = "cancelled"]
  BY DEF SkipCancelled, planVars, poolVars
<1>2. Next1 \in todo /\ Next1 \in Slots
  BY NextInTodo DEF SkipCancelled, IInv, ExecTypeOK
<1>3. CallsTypeOK' /\ ExecTypeOK'
  BY <1>2 DEF SkipCancelled, planVars, poolVars, IInv, CallsTypeOK, ExecTypeOK
<1>4. Idx' = Idx /\ ParallelEntries' = ParallelEntries /\ SequentialEntries' = SequentialEntries
  BY <1>1, SamePlan
<1>5. SlotsCounted' /\ TodoInPhase' /\ WorkersInPhase'
  BY <1>1, <1>2, <1>4 DEF IInv, ExecTypeOK, SlotsCounted, Holding, WorkersInPhase, TodoInPhase
<1>6. \A i \in Slots : result'[i] = IF i = Next1 THEN "cancelled" ELSE result[i]
  BY <1>1, <1>2 DEF IInv, ExecTypeOK
<1>7. Idx \subseteq Slots /\ ParallelEntries \subseteq Slots
  BY IdxInSlots DEF IInv, ParallelEntries
<1>8. ResultsInPhase'
  BY <1>1, <1>4, <1>6, <1>7 DEF IInv, ResultsInPhase
<1>9. QED BY <1>3, <1>5, <1>8 DEF IInv

LEMMA QueueKeepsIInv ==
  ASSUME IInv, QueueForSlot
  PROVE  IInv'
<1>1. /\ UNCHANGED <<calls, entry, result, phase, todo, sem>> /\ phase = "parallel"
      /\ worker[Next1] = "idle" /\ worker' = [worker EXCEPT ![Next1] = "queued"]
  BY DEF QueueForSlot, planVars
<1>2. Next1 \in todo /\ Next1 \in Slots
  BY NextInTodo DEF QueueForSlot, IInv, ExecTypeOK
<1>3. CallsTypeOK' /\ ExecTypeOK'
  BY <1>2 DEF QueueForSlot, planVars, IInv, CallsTypeOK, ExecTypeOK
<1>4. Idx' = Idx /\ ParallelEntries' = ParallelEntries /\ SequentialEntries' = SequentialEntries
  BY <1>1, SamePlan
<1>5. \A i \in Slots : worker'[i] = IF i = Next1 THEN "queued" ELSE worker[i]
  BY <1>1, <1>2 DEF IInv, ExecTypeOK
<1>6. Holding' = Holding
  BY <1>1, <1>5 DEF Holding
<1>7. SlotsCounted' /\ TodoInPhase' /\ WorkersInPhase'
  BY <1>1, <1>4, <1>5, <1>6 DEF IInv, SlotsCounted, WorkersInPhase, TodoInPhase
<1>8. ParallelEntries \subseteq Slots
  BY IdxInSlots DEF IInv, ParallelEntries
<1>9. ResultsInPhase'
  BY <1>1, <1>2, <1>4, <1>5, <1>8 DEF IInv, ResultsInPhase
<1>10. QED BY <1>3, <1>7, <1>9 DEF IInv

LEMMA TakeSlotKeepsIInv ==
  ASSUME IInv, TakeSlot
  PROVE  IInv'
<1>1. /\ UNCHANGED <<calls, entry, result, phase>> /\ phase = "parallel"
      /\ worker[Next1] = "queued" /\ worker' = [worker EXCEPT ![Next1] = "started"]
      /\ todo' = todo \ {Next1} /\ sem < MaxParallelTools /\ sem' = sem + 1
  BY DEF TakeSlot, planVars
<1>2. Next1 \in todo /\ Next1 \in Slots
  BY NextInTodo DEF TakeSlot, IInv, ExecTypeOK
<1>3. sem' \in 0 .. MaxParallelTools
  BY <1>1, BatchAssumption DEF IInv, ExecTypeOK
<1>4. CallsTypeOK' /\ ExecTypeOK'
  BY <1>2, <1>3 DEF TakeSlot, planVars, IInv, CallsTypeOK, ExecTypeOK
<1>5. Idx' = Idx /\ ParallelEntries' = ParallelEntries /\ SequentialEntries' = SequentialEntries
  BY <1>1, SamePlan
<1>6. \A i \in Slots : worker'[i] = IF i = Next1 THEN "started" ELSE worker[i]
  BY <1>1, <1>2 DEF IInv, ExecTypeOK
<1>7. Holding' = Holding \cup {Next1} /\ Next1 \notin Holding
  BY <1>1, <1>2, <1>6 DEF Holding
<1>8. SlotsCounted'
  BY <1>1, <1>2, <1>7, HoldingCount DEF IInv, SlotsCounted
<1>9. TodoInPhase' /\ WorkersInPhase'
  BY <1>1, <1>2, <1>5, <1>6 DEF IInv, WorkersInPhase, TodoInPhase
<1>10. ParallelEntries \subseteq Slots
  BY IdxInSlots DEF IInv, ParallelEntries
<1>11. ResultsInPhase'
  BY <1>1, <1>2, <1>5, <1>6, <1>10 DEF IInv, ResultsInPhase
<1>12. QED BY <1>4, <1>8, <1>9, <1>11 DEF IInv

(* The goroutines of the parallel phase: their call is parallel-safe, and  *)
(* a step of one of them moves it alone.                                   *)
LEMMA InParallelPhase ==
  ASSUME IInv, NEW i \in Slots,
         worker[i] \in {"started", "stored", "released"}
           \/ (worker[i] \in {"looked", "running"} /\ phase = "parallel")
  PROVE  phase = "parallel" /\ i \in ParallelEntries \ todo
<1>1. phase \in {"request", "search", "read", "parallel", "sequential", "deliver", "ended"}
  BY DEF IInv, ExecTypeOK
<1>2. phase = "parallel"
  BY <1>1 DEF IInv, WorkersInPhase
<1>3. QED BY <1>2 DEF IInv, WorkersInPhase

LEMMA WorkerStepKeepsIInv ==
  ASSUME IInv, NEW i \in Slots, NEW st \in {"looked", "running", "stored", "released", "done"},
         phase = "parallel", i \in ParallelEntries \ todo,
         worker' = [worker EXCEPT ![i] = st],
         UNCHANGED <<calls, entry, phase, todo>>,
         result' = result \/ (\E r \in {"ran", "cancelled"} : result' = [result EXCEPT ![i] = r]),
         st \notin {"looked", "running"} => result'[i] # "none",
         ExecTypeOK', sem' = Cardinality(Holding')
  PROVE  IInv'
<1>1. CallsTypeOK' /\ SlotsCounted'
  BY DEF IInv, CallsTypeOK, SlotsCounted
<1>2. Idx' = Idx /\ ParallelEntries' = ParallelEntries /\ SequentialEntries' = SequentialEntries
  BY SamePlan
<1>3. \A j \in Slots : worker'[j] = IF j = i THEN st ELSE worker[j]
  BY DEF IInv, ExecTypeOK
<1>4. \A j \in Slots : result'[j] = result[j] \/ result'[j] \in {"ran", "cancelled"}
  BY DEF IInv, ExecTypeOK
<1>5. WorkersInPhase' /\ TodoInPhase'
  BY <1>2, <1>3 DEF IInv, WorkersInPhase, TodoInPhase
<1>6. Idx \subseteq Slots /\ ParallelEntries \subseteq Slots
  BY IdxInSlots DEF IInv, ParallelEntries
<1>7. \A j \in Idx : entry'[j] = "batched" => result'[j] # "none"
  BY <1>4, <1>6 DEF IInv, ResultsInPhase
<1>8. \A j \in ParallelEntries :
        j \in todo' \/ worker'[j] \in {"started", "looked", "running"} \/ result'[j] # "none"
  BY <1>3, <1>4, <1>6 DEF IInv, ResultsInPhase
<1>9. ResultsInPhase'
  BY <1>2, <1>7, <1>8 DEF ResultsInPhase
<1>10. QED BY <1>1, <1>5, <1>9 DEF IInv

LEMMA WorkerKeepsIInv ==
  ASSUME IInv, NEW i \in Slots, Worker(i)
  PROVE  IInv'
<1>1. sem \in Nat /\ worker \in [Slots -> Places]
  BY DEF IInv, ExecTypeOK, Places
<1>8. CASE WorkerLooks(i)
  <2>1. phase = "parallel" /\ i \in ParallelEntries \ todo
    BY <1>8, InParallelPhase DEF WorkerLooks
  <2>2. ExecTypeOK'
    BY <1>8 DEF WorkerLooks, planVars, IInv, ExecTypeOK
  <2>3. Holding' = Holding /\ sem' = sem
    BY <1>1, <1>8 DEF WorkerLooks, Holding
  <2>4. sem' = Cardinality(Holding')
    BY <2>1, <2>3 DEF IInv, SlotsCounted
  <2>5. QED BY <1>8, <2>1, <2>2, <2>4, WorkerStepKeepsIInv DEF WorkerLooks, planVars
<1>2. CASE WorkerStarts(i)
  <2>1. phase = "parallel" /\ i \in ParallelEntries \ todo
    BY <1>2, InParallelPhase DEF WorkerStarts
  <2>2. ExecTypeOK'
    BY <1>2 DEF WorkerStarts, planVars, IInv, ExecTypeOK
  <2>3. Holding' = Holding /\ sem' = sem
    BY <1>1, <1>2 DEF WorkerStarts, Holding
  <2>4. sem' = Cardinality(Holding')
    BY <2>1, <2>3 DEF IInv, SlotsCounted
  <2>5. QED BY <1>2, <2>1, <2>2, <2>4, WorkerStepKeepsIInv DEF WorkerStarts, planVars
<1>3. CASE WorkerGivesUp(i)
  <2>1. phase = "parallel" /\ i \in ParallelEntries \ todo
    BY <1>3, InParallelPhase DEF WorkerGivesUp
  <2>2. ExecTypeOK'
    BY <1>3 DEF WorkerGivesUp, planVars, IInv, ExecTypeOK
  <2>3. Holding' = Holding /\ sem' = sem
    BY <1>1, <1>3 DEF WorkerGivesUp, Holding
  <2>4. sem' = Cardinality(Holding')
    BY <2>1, <2>3 DEF IInv, SlotsCounted
  <2>5. result' = [result EXCEPT ![i] = "cancelled"] /\ result'[i] # "none"
    BY <1>3 DEF WorkerGivesUp, IInv, ExecTypeOK
  <2>6. QED BY <1>3, <2>1, <2>2, <2>4, <2>5, WorkerStepKeepsIInv DEF WorkerGivesUp, planVars
<1>4. CASE WorkerStores(i)
  <2>1. phase = "parallel" /\ i \in ParallelEntries \ todo
    BY <1>4, InParallelPhase DEF WorkerStores
  <2>2. ExecTypeOK'
    BY <1>4 DEF WorkerStores, planVars, IInv, ExecTypeOK
  <2>3. Holding' = Holding /\ sem' = sem
    BY <1>1, <1>4 DEF WorkerStores, Holding
  <2>4. sem' = Cardinality(Holding')
    BY <2>1, <2>3 DEF IInv, SlotsCounted
  <2>5. result' = [result EXCEPT ![i] = "ran"] /\ result'[i] # "none"
    BY <1>4 DEF WorkerStores, IInv, ExecTypeOK
  <2>6. QED BY <1>4, <2>1, <2>2, <2>4, <2>5, WorkerStepKeepsIInv DEF WorkerStores, planVars
<1>5. CASE ReleaseSlot(i)
  <2>1. phase = "parallel" /\ i \in ParallelEntries \ todo
    BY <1>5, InParallelPhase DEF ReleaseSlot
  <2>2. Holding' = Holding \ {i} /\ i \in Holding
    BY <1>1, <1>5 DEF ReleaseSlot, Holding
  <2>3. sem = Cardinality(Holding) /\ sem' = sem - 1
    BY <1>5, <2>1 DEF ReleaseSlot, IInv, SlotsCounted
  <2>4. sem' = Cardinality(Holding')
    BY <2>2, <2>3, HoldingCount DEF IInv
  <2>5. Cardinality(Holding') \in Nat
    <3>1. IsFiniteSet(Holding')
      BY <2>2, HoldingCount, FS_RemoveElement DEF IInv
    <3>2. QED BY <3>1, FS_CardinalityType
  <2>6. sem' \in 0 .. MaxParallelTools
    BY <2>3, <2>4, <2>5, BatchAssumption DEF IInv, ExecTypeOK
  <2>7. ExecTypeOK'
    BY <1>5, <2>6 DEF ReleaseSlot, planVars, IInv, ExecTypeOK
  <2>8. result'[i] # "none"
    BY <1>5, <2>1 DEF ReleaseSlot, IInv, ResultsInPhase
  <2>9. QED BY <1>5, <2>1, <2>4, <2>7, <2>8, WorkerStepKeepsIInv DEF ReleaseSlot, planVars
<1>6. CASE WorkerDone(i)
  <2>1. phase = "parallel" /\ i \in ParallelEntries \ todo
    BY <1>6, InParallelPhase DEF WorkerDone
  <2>2. ExecTypeOK'
    BY <1>6 DEF WorkerDone, planVars, IInv, ExecTypeOK
  <2>3. Holding' = Holding /\ sem' = sem
    BY <1>1, <1>6 DEF WorkerDone, Holding
  <2>4. sem' = Cardinality(Holding')
    BY <2>1, <2>3 DEF IInv, SlotsCounted
  <2>5. result'[i] # "none"
    BY <1>6, <2>1 DEF WorkerDone, IInv, ResultsInPhase
  <2>6. QED BY <1>6, <2>1, <2>2, <2>4, <2>5, WorkerStepKeepsIInv DEF WorkerDone, planVars
<1>7. QED BY <1>2, <1>3, <1>4, <1>5, <1>6, <1>8 DEF Worker

(* wg.Wait() returns when no goroutine holds a token any more and every    *)
(* parallel-safe call has its result.                                      *)
LEMMA JoinKeepsIInv ==
  ASSUME IInv, Join
  PROVE  IInv'
<1>1. /\ UNCHANGED <<calls, entry, result, worker, sem>>
      /\ phase = "parallel" /\ phase' = "sequential"
      /\ todo = {} /\ todo' = SequentialEntries
      /\ \A i \in Slots : worker[i] \in {"idle", "done"}
  BY DEF Join, planVars, poolVars
<1>2. SequentialEntries \subseteq Slots /\ ParallelEntries \subseteq Slots
  BY IdxInSlots DEF IInv, SequentialEntries, ParallelEntries
<1>3. CallsTypeOK' /\ ExecTypeOK'
  BY <1>2 DEF Join, planVars, poolVars, IInv, CallsTypeOK, ExecTypeOK
<1>4. Idx' = Idx /\ ParallelEntries' = ParallelEntries /\ SequentialEntries' = SequentialEntries
  BY <1>1, SamePlan
<1>5. Holding = {} /\ sem = 0
  BY <1>1, FS_EmptySet DEF IInv, SlotsCounted, Holding
<1>6. SlotsCounted'
  BY <1>1, <1>5 DEF SlotsCounted
<1>7. WorkersInPhase' /\ TodoInPhase'
  BY <1>1, <1>4 DEF WorkersInPhase, TodoInPhase
<1>8. ResultsInPhase'
  BY <1>1, <1>2, <1>4 DEF IInv, ResultsInPhase
<1>9. QED BY <1>3, <1>6, <1>7, <1>8 DEF IInv

LEMMA SequentialKeepsIInv ==
  ASSUME IInv, SequentialCancelled \/ SequentialLooks \/ SequentialStarts \/ SequentialReturns
  PROVE  IInv'
<1>1. /\ UNCHANGED <<calls, entry, phase, sem>> /\ phase = "sequential" /\ todo # {}
      /\ todo' = todo \/ todo' = todo \ {Next1}
  BY DEF SequentialCancelled, SequentialLooks, SequentialStarts, SequentialReturns, planVars, poolVars
<1>2. Next1 \in todo /\ Next1 \in Slots
  BY <1>1, NextInTodo DEF IInv, ExecTypeOK
<1>3. Next1 \in SequentialEntries
  BY <1>1, <1>2 DEF IInv, TodoInPhase
<1>4. Idx' = Idx /\ ParallelEntries' = ParallelEntries /\ SequentialEntries' = SequentialEntries
  BY <1>1, SamePlan
<1>5. ParallelEntries \subseteq Slots /\ SequentialEntries \subseteq Slots /\ Idx \subseteq Slots
  BY IdxInSlots DEF IInv, ParallelEntries, SequentialEntries
<1>6. CallsTypeOK' /\ SlotsCounted' /\ TodoInPhase'
  BY <1>1, <1>4 DEF IInv, CallsTypeOK, SlotsCounted, TodoInPhase
<1>7. CASE SequentialCancelled
  <2>1. ExecTypeOK'
    BY <1>2, <1>7 DEF SequentialCancelled, planVars, poolVars, IInv, ExecTypeOK
  <2>2. \A i \in Slots : worker[i] \notin {"looked", "running"}
    BY <1>1, <1>7 DEF SequentialCancelled, IInv, WorkersInPhase
  <2>3. WorkersInPhase'
    BY <1>1, <1>7, <2>2 DEF SequentialCancelled, poolVars, IInv, WorkersInPhase
  <2>4. \A i \in Slots : result'[i] = IF i = Next1 THEN "cancelled" ELSE result[i]
    BY <1>2, <1>7 DEF SequentialCancelled, IInv, ExecTypeOK
  <2>5. todo' = todo \ {Next1}
    BY <1>7 DEF SequentialCancelled
  <2>6. ResultsInPhase'
    BY <1>1, <1>4, <1>5, <2>4, <2>5 DEF IInv, ResultsInPhase
  <2>7. QED BY <1>6, <2>1, <2>3, <2>6 DEF IInv
<1>8. CASE SequentialLooks \/ SequentialStarts
  <2>1. ExecTypeOK'
    <3>1. CASE SequentialLooks
      BY <1>2, <3>1 DEF SequentialLooks, planVars, IInv, ExecTypeOK
    <3>2. CASE SequentialStarts
      BY <1>2, <3>2 DEF SequentialStarts, planVars, IInv, ExecTypeOK
    <3>3. QED BY <1>8, <3>1, <3>2
  <2>2. \E st \in {"looked", "running"} :
          \A i \in Slots : worker'[i] = IF i = Next1 THEN st ELSE worker[i]
    BY <1>2, <1>8 DEF SequentialLooks, SequentialStarts, IInv, ExecTypeOK
  <2>3. todo' = todo /\ Next1' = Next1 /\ result' = result
    BY <1>8 DEF SequentialLooks, SequentialStarts, Next1
  <2>4. WorkersInPhase'
    BY <1>1, <1>2, <2>2, <2>3 DEF IInv, WorkersInPhase
  <2>5. ResultsInPhase'
    BY <1>1, <1>4, <2>3 DEF IInv, ResultsInPhase
  <2>6. QED BY <1>6, <2>1, <2>4, <2>5 DEF IInv
<1>9. CASE SequentialReturns
  <2>1. ExecTypeOK'
    BY <1>2, <1>9 DEF SequentialReturns, planVars, IInv, ExecTypeOK
  <2>2. \A i \in Slots : worker'[i] = IF i = Next1 THEN "done" ELSE worker[i]
    BY <1>2, <1>9 DEF SequentialReturns, IInv, ExecTypeOK
  <2>3. \A i \in Slots : worker'[i] \in {"idle", "done"}
    BY <1>1, <2>2 DEF IInv, WorkersInPhase
  <2>4. WorkersInPhase'
    BY <1>1, <2>3 DEF WorkersInPhase
  <2>5. \A i \in Slots : result'[i] = IF i = Next1 THEN "ran" ELSE result[i]
    BY <1>2, <1>9 DEF SequentialReturns, IInv, ExecTypeOK
  <2>6. todo' = todo \ {Next1}
    BY <1>9 DEF SequentialReturns
  <2>7. ResultsInPhase'
    BY <1>1, <1>4, <1>5, <2>5, <2>6 DEF IInv, ResultsInPhase
  <2>8. QED BY <1>6, <2>1, <2>4, <2>7 DEF IInv
<1>10. QED BY <1>7, <1>8, <1>9

LEMMA SequentialDoneKeepsIInv ==
  ASSUME IInv, SequentialDone
  PROVE  IInv'
<1>1. /\ UNCHANGED <<calls, entry, result, worker, sem, todo>>
      /\ phase = "sequential" /\ phase' = "deliver" /\ todo = {}
  BY DEF SequentialDone, planVars, poolVars
<1>2. CallsTypeOK' /\ ExecTypeOK'
  BY DEF SequentialDone, planVars, poolVars, IInv, CallsTypeOK, ExecTypeOK
<1>3. Idx' = Idx /\ ParallelEntries' = ParallelEntries /\ SequentialEntries' = SequentialEntries
  BY <1>1, SamePlan
<1>4. \A i \in Slots : worker[i] \in {"idle", "done"}
  BY <1>1 DEF IInv, WorkersInPhase
<1>5. SlotsCounted' /\ WorkersInPhase' /\ TodoInPhase' /\ ResultsInPhase'
  BY <1>1, <1>3, <1>4 DEF IInv, SlotsCounted, WorkersInPhase, TodoInPhase, ResultsInPhase
<1>6. QED BY <1>2, <1>5 DEF IInv

(* The result that is delivered is there. *)
LEMMA DeliverKeepsIInv ==
  ASSUME IInv, DeliverAt
  PROVE  IInv'
<1> DEFINE i == Len(replies) + 1
           r == IF entry[i] = "loop" THEN "aborted" ELSE result[i]
<1>1. /\ UNCHANGED <<calls, entry, result, worker, sem, todo, phase, chunks, cancelled, runs>>
      /\ phase = "deliver" /\ Len(replies) < Len(calls) /\ replies' = Append(replies, r)
  BY DEF DeliverAt, planVars, poolVars
<1>2. Len(replies) \in Nat /\ Len(calls) \in Nat
  BY LenProperties DEF IInv, ExecTypeOK, CallsTypeOK
<1>3. i \in Idx /\ i \in Slots
  BY <1>1, <1>2, IdxInSlots DEF IInv
<1>4. entry[i] = "execute" => i \in ParallelEntries \/ i \in SequentialEntries
  BY <1>3 DEF ParallelEntries, SequentialEntries
<1>5. entry[i] \in {"execute", "loop", "batched"} /\ result[i] \in {"none", "ran", "cancelled"}
  BY <1>3 DEF IInv, ExecTypeOK
<1>6. entry[i] # "loop" => result[i] # "none"
  BY <1>1, <1>3, <1>4, <1>5 DEF IInv, ResultsInPhase
<1>7. r \in {"ran", "cancelled", "aborted"}
  BY <1>5, <1>6
<1>8. replies' \in Seq({"ran", "cancelled", "aborted"})
  <2> HIDE DEF r
  <2> QED BY <1>1, <1>7, AppendProperties DEF IInv, ExecTypeOK
<1>9. CallsTypeOK' /\ ExecTypeOK'
  BY <1>1, <1>8 DEF IInv, CallsTypeOK, ExecTypeOK
<1>10. SlotsCounted' /\ WorkersInPhase' /\ TodoInPhase' /\ ResultsInPhase'
  BY <1>1, SamePlan DEF IInv, SlotsCounted, WorkersInPhase, TodoInPhase, ResultsInPhase
<1>11. QED BY <1>9, <1>10 DEF IInv

LEMMA ReturnKeepsIInv ==
  ASSUME IInv, BatchReturns
  PROVE  IInv'
<1>1. /\ UNCHANGED <<calls, entry, result, worker, sem, todo>>
      /\ phase = "deliver" /\ phase' \in {"request", "ended"}
  BY DEF BatchReturns, planVars, poolVars
<1>2. CallsTypeOK' /\ ExecTypeOK'
  BY <1>1 DEF BatchReturns, planVars, poolVars, IInv, CallsTypeOK, ExecTypeOK
<1>3. SlotsCounted' /\ WorkersInPhase' /\ TodoInPhase' /\ ResultsInPhase'
  BY <1>1, SamePlan DEF IInv, SlotsCounted, WorkersInPhase, TodoInPhase, ResultsInPhase
<1>4. QED BY <1>2, <1>3 DEF IInv

LEMMA CancelKeepsIInv ==
  ASSUME IInv, Cancel \/ UNCHANGED vars
  PROVE  IInv'
<1>1. UNCHANGED <<calls, entry, result, worker, sem, todo, phase, chunks, runs, replies>>
  BY DEF Cancel, vars, planVars, poolVars
<1>2. cancelled' \in BOOLEAN
  BY DEF Cancel, vars, IInv, ExecTypeOK
<1>3. CallsTypeOK' /\ ExecTypeOK'
  BY <1>1, <1>2 DEF IInv, CallsTypeOK, ExecTypeOK
<1>4. Next1' = Next1 /\ Holding' = Holding /\ NextChunk' = NextChunk
  BY <1>1 DEF Next1, Holding, NextChunk
<1>5. SlotsCounted' /\ WorkersInPhase' /\ TodoInPhase' /\ ResultsInPhase'
  BY <1>1, <1>4, SamePlan DEF IInv, SlotsCounted, WorkersInPhase, TodoInPhase, ResultsInPhase
<1>6. QED BY <1>3, <1>5 DEF IInv

LEMMA NextIInv == IInv /\ [Next]_vars => IInv'
<1> SUFFICES ASSUME IInv, [Next]_vars PROVE IInv'
  OBVIOUS
<1>1. CASE NewBatch
  BY <1>1, PlanKeepsIInv DEF NewBatch
<1>2. CASE ExecuteSearchCodeBatch \/ ExecuteReadFileBatchMerge
  BY <1>2, MergedKeepsIInv DEF ExecuteSearchCodeBatch, ExecuteReadFileBatchMerge
<1>3. CASE SearchBatchDone \/ ReadBatchDone
  BY <1>3, SearchDoneKeepsIInv, ReadDoneKeepsIInv
<1>4. CASE SkipCancelled \/ QueueForSlot \/ TakeSlot
  BY <1>4, SkipKeepsIInv, QueueKeepsIInv, TakeSlotKeepsIInv
<1>5. CASE Join
  BY <1>5, JoinKeepsIInv
<1>6. CASE SequentialCancelled \/ SequentialLooks \/ SequentialStarts \/ SequentialReturns
  BY <1>6, SequentialKeepsIInv
<1>7. CASE SequentialDone
  BY <1>7, SequentialDoneKeepsIInv
<1>8. CASE DeliverAt \/ BatchReturns
  BY <1>8, DeliverKeepsIInv, ReturnKeepsIInv
<1>9. CASE Cancel \/ UNCHANGED vars
  BY <1>9, CancelKeepsIInv
<1>10. ASSUME NEW i \in Slots, Worker(i) PROVE IInv'
  BY <1>10, WorkerKeepsIInv
<1>11. QED
  BY <1>1, <1>2, <1>3, <1>4, <1>5, <1>6, <1>7, <1>8, <1>9, <1>10 DEF Next, Main

(* In every reachable state the semaphore, the goroutines, the list of     *)
(* calls to run and the results agree as IInv says.                        *)
THEOREM Invariant == Spec => []IInv
<1>1. Init => IInv
  BY InitIInv
<1>2. IInv /\ [Next]_vars => IInv'
  BY NextIInv
<1>3. QED BY <1>1, <1>2, PTL DEF Spec

(* The executor's part of the type invariant: in particular the semaphore  *)
(* never holds more tokens than its capacity nor fewer than none, and what *)
(* is delivered for a call is never a result that was not written          *)
(* (executeParallelSafeTools, deliverToolExecutionResults).                *)
THEOREM ExecTypeCorrect == Spec => []ExecTypeOK
<1>1. IInv => ExecTypeOK
  BY DEF IInv
<1>2. QED BY <1>1, Invariant, PTL

(* Never more tools of a batch run at once than the semaphore has tokens,  *)
(* whatever is cancelled and in whatever order goroutines start and end    *)
(* (executeParallelSafeTools).                                             *)
THEOREM ParallelismLimited == Spec => []InFlightBound
<1>1. ASSUME IInv PROVE InFlightBound
  <2>1. phase \in {"request", "search", "read", "parallel", "sequential", "deliver", "ended"}
    BY <1>1 DEF IInv, ExecTypeOK
  <2>2. CASE phase = "parallel"
    <3>1. Running \in SUBSET Holding /\ IsFiniteSet(Holding)
      BY <1>1, HoldingCount DEF IInv, Running, Holding
    <3>2. Cardinality(Running) <= Cardinality(Holding) /\ Cardinality(Running) \in Nat
      BY <3>1, FS_Subset, FS_CardinalityType
    <3>3. Cardinality(Holding) = sem /\ sem \in 0 .. MaxParallelTools
      BY <1>1, <2>2 DEF IInv, SlotsCounted, ExecTypeOK
    <3>4. QED BY <3>2, <3>3, BatchAssumption DEF InFlightBound
  <2>3. CASE phase = "sequential"
    <3>1. Running \in SUBSET {Next1}
      BY <1>1, <2>3 DEF IInv, WorkersInPhase, Running
    <3>2. IsFiniteSet({Next1}) /\ Cardinality({Next1}) = 1
      BY FS_Singleton
    <3>3. Cardinality(Running) <= 1 /\ Cardinality(Running) \in Nat
      BY <3>1, <3>2, FS_Subset, FS_CardinalityType
    <3>4. QED BY <3>3, BatchAssumption DEF InFlightBound
  <2>4. CASE phase \notin {"parallel", "sequential"}
    <3>1. Running = {}
      BY <1>1, <2>1, <2>4 DEF IInv, WorkersInPhase, Running
    <3>2. QED BY <3>1, FS_EmptySet, BatchAssumption DEF InFlightBound
  <2>5. QED BY <2>2, <2>3, <2>4
<1>2. QED BY <1>1, Invariant, PTL

(* A tool that is not parallel-safe, a write for instance, never runs      *)
(* beside another tool of its batch, and every parallel-safe call of the   *)
(* batch has its result by then (executeSequentialTools after wg.Wait).    *)
THEOREM WritesRunAlone == Spec => []SequentialRunsAlone
<1>1. ASSUME IInv PROVE SequentialRunsAlone
  <2> SUFFICES ASSUME NEW i \in Running, ~IsParallelSafe(i)
               PROVE  /\ Running = {i}
                      /\ \A j \in ParallelEntries :
                           result[j] # "none" /\ worker[j] \in {"idle", "done"}
    BY DEF SequentialRunsAlone
  <2>1. phase \in {"request", "search", "read", "parallel", "sequential", "deliver", "ended"}
    BY <1>1 DEF IInv, ExecTypeOK
  <2>2. i \in Slots /\ worker[i] = "running"
    BY DEF Running
  <2>3. phase # "parallel"
    BY <1>1, <2>2 DEF IInv, WorkersInPhase, ParallelEntries
  <2>4. phase = "sequential"
    BY <1>1, <2>1, <2>2, <2>3 DEF IInv, WorkersInPhase
  <2>5. \A j \in Slots : worker[j] \in {"looked", "running"} => j = Next1 /\ j \in SequentialEntries
    BY <1>1, <2>4 DEF IInv, WorkersInPhase, TodoInPhase
  <2>6. Running = {i}
    BY <2>2, <2>5 DEF Running
  <2>7. ASSUME NEW j \in ParallelEntries
        PROVE  result[j] # "none" /\ worker[j] \in {"idle", "done"}
    <3>1. j \in Slots /\ j \notin SequentialEntries
      BY <1>1, IdxInSlots DEF IInv, ParallelEntries, SequentialEntries
    <3>2. worker[j] \in {"idle", "looked", "running", "done"} /\ result[j] # "none"
      BY <1>1, <2>4, <3>1 DEF IInv, WorkersInPhase, ResultsInPhase
    <3>3. QED BY <2>5, <3>1, <3>2
  <2>8. QED BY <2>6, <2>7
<1>2. QED BY <1>1, Invariant, PTL

-----------------------------------------------------------------------------
(* What the replies tell: how often a tool was started is tied to where    *)
(* its goroutine is and to its result, from the plan to the delivery.      *)

Mergeable(i) == calls[i].kind \in {"search", "read"}
NotStarted(i) == worker[i] \in {"idle", "queued", "started", "looked"}

RunsBound(i) ==
  runs[i] <= (IF Mergeable(i) THEN 1 ELSE 0) + (IF NotStarted(i) THEN 0 ELSE 1)

(* A call is started only while it has no result. *)
Unanswered(i) ==
  \/ worker[i] \in {"queued", "started", "looked", "running"}
  \/ phase \in {"parallel", "sequential"} /\ i \in todo
  \/ phase \in {"search", "read"} /\ entry[i] = "execute"
  \/ phase = "parallel" /\ i \in SequentialEntries

ResultTells(i) ==
  /\ entry[i] = "loop" => runs[i] = 0
  /\ result[i] = "ran" => runs[i] >= 1
  /\ result[i] = "cancelled" /\ ~Mergeable(i) => runs[i] = 0
  /\ worker[i] = "running" => runs[i] >= 1

CallTells(i) ==
  /\ RunsBound(i)
  /\ Unanswered(i) => result[i] = "none"
  /\ ResultTells(i)

(* The calls of a merged call that is still to run have not run, and are   *)
(* in no other; those of the reads have not run before.                    *)
ChunksFresh ==
  phase \in {"search", "read"} =>
    /\ \A c \in chunks : c # {} /\ \A i \in c :
         /\ i \in Idx /\ entry[i] = "execute" /\ runs[i] = 0 /\ calls[i].kind = phase
         /\ \A d \in chunks : i \in d => d = c
    /\ phase = "search" => \A i \in Idx : calls[i].kind = "read" => runs[i] = 0

RepliesAre ==
  /\ phase \in {"search", "read", "parallel", "sequential"} => replies = <<>>
  /\ \A k \in DOMAIN replies :
       k \in Idx /\ replies[k] = IF entry[k] = "loop" THEN "aborted" ELSE result[k]

RInv == (\A i \in Idx : CallTells(i)) /\ ChunksFresh /\ RepliesAre

LEMMA InitRInv == Init => RInv
<1> SUFFICES ASSUME Init PROVE RInv
  OBVIOUS
<1>1. Idx = {} /\ DOMAIN replies = {}
  BY EmptySeq DEF Init, Idx
<1>2. QED BY <1>1 DEF Init, RInv, ChunksFresh, RepliesAre

(* Calls are merged in one call only. *)
LEMMA ChunksApart ==
  ASSUME NEW S, S \subseteq Slots, NEW size, NEW c \in Chunks(S, size)
  PROVE  c # {} /\ c \subseteq S /\ \A d \in Chunks(S, size) : \A i \in c : i \in d => d = c
<1>1. PICK k \in 0 .. MaxCalls : c = {i \in S : Rank(S, i) \div size = k}
  BY DEF Chunks
<1>2. c # {}
  BY FS_EmptySet DEF Chunks
<1>3. ASSUME NEW d \in Chunks(S, size), NEW i \in c, i \in d PROVE d = c
  <2>1. PICK m \in 0 .. MaxCalls : d = {j \in S : Rank(S, j) \div size = m}
    BY <1>3 DEF Chunks
  <2>2. m = k
    BY <1>1, <1>3, <2>1
  <2>3. QED BY <1>1, <2>1, <2>2
<1>4. QED BY <1>1, <1>2, <1>3

LEMMA PlanKeepsRInv ==
  ASSUME IInv, RInv, NEW n \in 1 .. MaxCalls, NEW cs \in [1 .. n -> Calls], PlanParallelCalls(cs)
  PROVE  RInv'
<1> DEFINE S == {i \in LetThrough(cs) : cs[i].kind = "search"}
<1>1. Len(cs) = n /\ 1 .. n \subseteq Slots /\ DOMAIN cs = 1 .. n
  BY BatchAssumption DEF Slots
<1>2. /\ calls' = cs /\ phase' = "search" /\ replies' = <<>>
      /\ entry' = [i \in Slots |-> IF i \in 1 .. Len(cs) \ LetThrough(cs) THEN "loop" ELSE "execute"]
      /\ result' = [i \in Slots |-> "none"] /\ worker' = [i \in Slots |-> "idle"]
      /\ runs' = [i \in Slots |-> 0]
      /\ chunks' = Chunks(S, MaxSearchBatchPatterns)
  BY DEF PlanParallelCalls, SearchChunks
<1>3. /\ Idx' = 1 .. n
      /\ \A i \in 1 .. n : runs'[i] = 0 /\ result'[i] = "none" /\ worker'[i] = "idle"
  BY <1>1, <1>2 DEF Idx
<1>4. S \subseteq Slots /\ \A i \in S : i \in 1 .. n /\ entry'[i] = "execute" /\ cs[i].kind = "search"
  BY <1>1, <1>2 DEF LetThrough
<1> HIDE DEF S
<1>5. ChunksFresh'
  <2>1. ASSUME NEW c \in chunks'
        PROVE  c # {} /\ c \subseteq S /\ \A d \in chunks' : \A i \in c : i \in d => d = c
    BY <1>2, <1>4, <2>1, ChunksApart
  <2>2. \A i \in S : /\ i \in Idx' /\ entry'[i] = "execute" /\ runs'[i] = 0
                     /\ calls'[i].kind = phase'
    BY <1>2, <1>3, <1>4
  <2>3. \A i \in Idx' : runs'[i] = 0
    BY <1>3
  <2>4. QED BY <2>1, <2>2, <2>3 DEF ChunksFresh
<1>6. \A i \in Idx' : CallTells(i)'
  BY <1>2, <1>3 DEF CallTells, RunsBound, ResultTells, NotStarted, Mergeable
<1>7. DOMAIN replies' = {}
  BY <1>2, EmptySeq
<1>8. RepliesAre'
  BY <1>2, <1>7 DEF RepliesAre
<1>9. QED BY <1>5, <1>6, <1>8 DEF RInv

(* The merged call that runs next is one of them. *)
LEMMA NextChunkIn ==
  ASSUME IInv, RInv, phase \in {"search", "read"}, chunks # {}
  PROVE  NextChunk \in chunks
<1> DEFINE M == {Smallest(c) : c \in chunks}
<1>1. IsFiniteSet(chunks)
  BY SlotsFinite, FS_SUBSET, FS_Subset DEF IInv, ExecTypeOK
<1>2. IsFiniteSet(M) /\ M # {}
  <2>1. \E c \in chunks : Smallest(c) \in M
    OBVIOUS
  <2>2. IsFiniteSet(M)
    <3> DEFINE f == [c \in chunks |-> Smallest(c)]
    <3>1. f \in Surjection(chunks, M)
      BY DEF Surjection
    <3>2. QED BY <1>1, <3>1, FS_Surjection
  <2>3. QED BY <2>1, <2>2
<1>3. ASSUME NEW c \in chunks PROVE Smallest(c) \in Int
  <2>1. c \subseteq Slots /\ c # {}
    BY DEF IInv, ExecTypeOK, RInv, ChunksFresh
  <2>2. IsFiniteSet(c) /\ c \subseteq Int
    BY <2>1, SlotsFinite, FS_Subset
  <2>3. QED BY <2>1, <2>2, SmallestIn
<1>4. M \subseteq Int
  BY <1>3
<1>5. Smallest(M) \in M /\ \A j \in M : Smallest(M) <= j
  <2> HIDE DEF M
  <2> QED BY <1>2, <1>4, SmallestIn
<1>6. PICK c \in chunks : \A d \in chunks : Smallest(c) <= Smallest(d)
  BY <1>5
<1>7. QED BY <1>6 DEF NextChunk

LEMMA MergedKeepsRInv ==
  ASSUME IInv, RInv, phase \in {"search", "read"}, MergedCall
  PROVE  RInv'
<1> DEFINE C == NextChunk
<1>1. /\ UNCHANGED <<calls, phase, todo, replies>> /\ Idx' = Idx /\ Idx \subseteq Slots
      /\ chunks' = chunks \ {C} \/ chunks' = chunks
  BY MergedStep, IdxInSlots DEF Idx, IInv
<1>2. C \in chunks
  BY MergedStep, NextChunkIn
<1>3. \A i \in C : /\ i \in Idx /\ entry[i] = "execute" /\ runs[i] = 0 /\ calls[i].kind = phase
                   /\ Mergeable(i) /\ \A d \in chunks : i \in d => d = C
  BY <1>2 DEF RInv, ChunksFresh, Mergeable
<1>4. \/ /\ UNCHANGED <<entry, result, runs>>
         /\ \A i \in Slots : i \in C \/ worker'[i] = worker[i]
         /\ \A i \in C : worker[i] = "idle" /\ worker'[i] \in {"idle", "looked"}
      \/ /\ chunks' = chunks \ {C}
         /\ \A i \in Slots : i \in C \/ worker'[i] = worker[i]
         /\ \A i \in C : worker[i] \in {"idle", "looked"} /\ worker'[i] = "idle"
         /\ runs' = [i \in Slots |-> IF i \in C THEN runs[i] + 1 ELSE runs[i]]
         /\ \/ /\ result' = [i \in Slots |-> IF i \in C THEN "ran" ELSE result[i]]
               /\ entry' = [i \in Slots |-> IF i \in C THEN "batched" ELSE entry[i]]
            \/ UNCHANGED <<result, entry>>
  <2>1. C \subseteq Slots
    BY <1>1, <1>3
  <2>2. QED BY <2>1, MergedStep DEF Chunk
<1>5. \A i \in Slots : worker[i] \in {"idle", "looked"} /\ worker'[i] \in {"idle", "looked"}
  BY MergedStep DEF Chunk
<1>6. runs \in [Slots -> Nat]
  BY DEF IInv, ExecTypeOK
<1> HIDE DEF C
<1>7. ASSUME NEW i \in Idx PROVE CallTells(i)'
  <2>1. CallTells(i) /\ i \in Slots
    BY <1>1, <1>7 DEF RInv
  <2>2. RunsBound(i)'
    BY <1>1, <1>3, <1>4, <1>5, <1>6, <2>1 DEF CallTells, RunsBound, Mergeable, NotStarted
  <2>3. Unanswered(i)' => result'[i] = "none"
    <3>1. CASE i \in C
      <4>1. result[i] = "none"
        BY <1>3, <2>1, <3>1 DEF CallTells, Unanswered
      <4>2. QED BY <1>1, <1>4, <2>1, <3>1, <4>1 DEF Unanswered
    <3>2. CASE i \notin C
      <4>1. worker'[i] = worker[i] /\ result'[i] = result[i] /\ entry'[i] = entry[i]
        BY <1>4, <2>1, <3>2
      <4>2. QED BY <1>1, <2>1, <4>1 DEF CallTells, Unanswered
    <3>3. QED BY <3>1, <3>2
  <2>4. ResultTells(i)'
    BY <1>1, <1>3, <1>4, <1>5, <1>6, <2>1 DEF CallTells, ResultTells, Mergeable
  <2>5. QED BY <2>2, <2>3, <2>4 DEF CallTells
<1>10. ChunksFresh'
  BY <1>1, <1>3, <1>4 DEF RInv, ChunksFresh
<1>11. RepliesAre'
  <2>1. replies = <<>> /\ DOMAIN replies = {}
    BY EmptySeq DEF RInv, RepliesAre
  <2>2. QED BY <1>1, <2>1 DEF RepliesAre
<1>12. QED BY <1>1, <1>7, <1>10, <1>11 DEF RInv

(* The merged reads of two segments differ: a call is in one segment, and  *)
(* in one chunk of it.                                                     *)
LEMMA ReadChunksApart ==
  ASSUME IInv, NEW c \in ReadChunks
  PROVE  /\ c # {}
         /\ \A i \in c : i \in Idx /\ entry[i] = "execute" /\ calls[i].kind = "read"
         /\ \A d \in ReadChunks : \A i \in c : i \in d => d = c
<1> DEFINE live == {i \in Idx : entry[i] = "execute"}
           WritesBefore(i) == {j \in live : j < i /\ ~IsParallelSafe(j)}
           Segment(n) == {i \in live : calls[i].kind = "read" /\ Cardinality(WritesBefore(i)) = n}
<1>1. ReadChunks = UNION {Chunks(Segment(n), MaxReadFileBatchPaths) : n \in 0 .. MaxCalls}
  BY DEF ReadChunks
<1>2. \A n \in 0 .. MaxCalls : Segment(n) \subseteq Slots
  BY IdxInSlots DEF IInv
<1>3. \A i, n, m : i \in Segment(n) /\ i \in Segment(m) => n = m
  OBVIOUS
<1>4. \A n : \A i \in Segment(n) : i \in Idx /\ entry[i] = "execute" /\ calls[i].kind = "read"
  OBVIOUS
<1> HIDE DEF Segment
<1>5. PICK n \in 0 .. MaxCalls : c \in Chunks(Segment(n), MaxReadFileBatchPaths)
  BY <1>1
<1>6. c # {} /\ c \subseteq Segment(n)
  BY <1>2, <1>5, ChunksApart
<1>7. ASSUME NEW d \in ReadChunks, NEW i \in c, i \in d PROVE d = c
  <2>1. PICK m \in 0 .. MaxCalls : d \in Chunks(Segment(m), MaxReadFileBatchPaths)
    BY <1>1
  <2>2. d \subseteq Segment(m)
    BY <1>2, <2>1, ChunksApart
  <2>3. m = n
    BY <1>3, <1>6, <1>7, <2>2
  <2>4. \A e \in Chunks(Segment(n), MaxReadFileBatchPaths) : \A j \in c : j \in e => e = c
    BY <1>2, <1>5, ChunksApart
  <2>5. QED BY <1>7, <2>1, <2>3, <2>4
<1>8. QED BY <1>4, <1>6, <1>7

LEMMA SearchDoneKeepsRInv ==
  ASSUME IInv, RInv, SearchBatchDone
  PROVE  RInv'
<1>1. /\ UNCHANGED <<calls, entry, result, todo, worker, runs, replies>>
      /\ phase = "search" /\ phase' = "read" /\ chunks = {} /\ chunks' = ReadChunks
  BY DEF SearchBatchDone, planVars, poolVars
<1>2. Idx' = Idx /\ Idx \subseteq Slots
  BY <1>1, SamePlan, IdxInSlots DEF IInv
<1>3. \A i \in Slots : worker[i] = "idle"
  BY <1>1 DEF IInv, WorkersInPhase
<1>4. ASSUME NEW i \in Idx PROVE CallTells(i)'
  BY <1>1, <1>2, <1>3 DEF RInv, CallTells, RunsBound, Unanswered, ResultTells, Mergeable, NotStarted
<1>5. \A i \in Idx : calls[i].kind = "read" => runs[i] = 0
  BY <1>1 DEF RInv, ChunksFresh
<1>6. ChunksFresh'
  <2>1. ASSUME NEW c \in ReadChunks
        PROVE  /\ c # {}
               /\ \A i \in c : /\ i \in Idx /\ entry[i] = "execute" /\ runs[i] = 0
                               /\ calls[i].kind = "read"
                               /\ \A d \in ReadChunks : i \in d => d = c
    BY <1>5, ReadChunksApart
  <2>2. QED BY <1>1, <1>2, <2>1 DEF ChunksFresh
<1>7. RepliesAre'
  BY <1>1, <1>2 DEF RInv, RepliesAre
<1>8. QED BY <1>2, <1>4, <1>6, <1>7 DEF RInv

(* A step between two phases that starts nothing and answers nothing. *)
LEMMA PhaseKeepsRInv ==
  ASSUME IInv, RInv, ReadBatchDone \/ Join \/ SequentialDone
  PROVE  RInv'
<1>1. UNCHANGED <<calls, entry, result, worker, runs, replies>>
  BY DEF ReadBatchDone, Join, SequentialDone, planVars, poolVars
<1>2. \/ phase = "read" /\ phase' = "parallel" /\ todo' = ParallelEntries
      \/ phase = "parallel" /\ phase' = "sequential" /\ todo' = SequentialEntries
      \/ phase = "sequential" /\ phase' = "deliver" /\ todo' = todo
  BY DEF ReadBatchDone, Join, SequentialDone
<1>3. /\ Idx' = Idx /\ ParallelEntries' = ParallelEntries
      /\ SequentialEntries' = SequentialEntries
  BY <1>1, SamePlan
<1>4. ASSUME NEW i \in Idx PROVE CallTells(i)'
  <2>1. CallTells(i)
    BY DEF RInv
  <2>2. Unanswered(i)' => Unanswered(i)
    BY <1>1, <1>2, <1>3 DEF Unanswered, ParallelEntries, SequentialEntries
  <2>3. QED BY <1>1, <2>1, <2>2 DEF CallTells, RunsBound, ResultTells, Mergeable, NotStarted
<1>5. ChunksFresh' /\ RepliesAre'
  BY <1>1, <1>2, <1>3 DEF RInv, ChunksFresh, RepliesAre
<1>6. QED BY <1>3, <1>4, <1>5 DEF RInv

(* A step of one call in the parallel or the sequential phase. *)
LEMMA CallKeepsRInv ==
  ASSUME IInv, RInv, NEW i \in Slots, phase \in {"parallel", "sequential"},
         UNCHANGED <<calls, entry, phase, replies>>,
         todo' \subseteq todo,
         \A j \in Slots \ {i} :
           worker'[j] = worker[j] /\ result'[j] = result[j] /\ runs'[j] = runs[j],
         CallTells(i) => CallTells(i)'
  PROVE  RInv'
<1>1. /\ Idx' = Idx /\ SequentialEntries' = SequentialEntries /\ Idx \subseteq Slots
  BY SamePlan, IdxInSlots DEF IInv
<1>2. ASSUME NEW j \in Idx PROVE CallTells(j)'
  <2>1. CallTells(j)
    BY DEF RInv
  <2>2. CASE j # i
    BY <1>1, <2>1, <2>2
       DEF CallTells, RunsBound, Unanswered, ResultTells, Mergeable, NotStarted
  <2>3. QED BY <2>1, <2>2
<1>3. ChunksFresh' /\ RepliesAre'
  <2>1. replies = <<>> /\ DOMAIN replies = {}
    BY EmptySeq DEF RInv, RepliesAre
  <2>2. QED BY <2>1 DEF ChunksFresh, RepliesAre
<1>4. QED BY <1>1, <1>2, <1>3 DEF RInv

LEMMA MainKeepsRInv ==
  ASSUME IInv, RInv, NEW i, i = Next1,
         \/ SkipCancelled \/ QueueForSlot \/ TakeSlot
         \/ SequentialCancelled \/ SequentialLooks \/ SequentialStarts \/ SequentialReturns
  PROVE  RInv'
<1>1. /\ UNCHANGED <<calls, entry, phase, replies>> /\ todo # {}
      /\ phase \in {"parallel", "sequential"}
      /\ todo' = todo \/ todo' = todo \ {i}
  BY DEF SkipCancelled, QueueForSlot, TakeSlot, SequentialCancelled, SequentialLooks,
         SequentialStarts, SequentialReturns, planVars, poolVars
<1>2. i \in todo /\ i \in Slots
  BY <1>1, NextInTodo DEF IInv, ExecTypeOK
<1>3. /\ i \in Idx /\ entry[i] = "execute"
      /\ phase = "parallel" => i \notin SequentialEntries
  BY <1>1, <1>2 DEF IInv, TodoInPhase, ParallelEntries, SequentialEntries
<1>4. SequentialEntries' = SequentialEntries
  BY <1>1, SamePlan
<1>5. /\ runs \in [Slots -> Nat]
      /\ result \in [Slots -> {"none", "ran", "cancelled"}]
      /\ worker \in [Slots -> Places]
  BY DEF IInv, ExecTypeOK, Places
<1>6. Unanswered(i)
  BY <1>1, <1>2 DEF Unanswered
<1> USE DEF CallTells, RunsBound, Unanswered, ResultTells, Mergeable, NotStarted
<1>7. CASE SkipCancelled
  <2>1. worker' = worker /\ runs' = runs /\ result' = [result EXCEPT ![i] = "cancelled"]
        /\ todo' = todo \ {i} /\ worker[i] = "idle" /\ phase = "parallel"
    BY <1>7 DEF SkipCancelled, poolVars
  <2>2. CallTells(i) => CallTells(i)'
    BY <1>1, <1>2, <1>3, <1>4, <1>5, <2>1
  <2>3. QED BY <1>1, <1>2, <1>5, <2>1, <2>2, CallKeepsRInv
<1>8. CASE QueueForSlot \/ TakeSlot
  <2>1. PICK st \in {"queued", "started"} : worker' = [worker EXCEPT ![i] = st]
    BY <1>8 DEF QueueForSlot, TakeSlot
  <2>2. UNCHANGED <<runs, result>> /\ worker[i] \in {"idle", "queued"}
    BY <1>8 DEF QueueForSlot, TakeSlot
  <2>3. CallTells(i) => CallTells(i)'
    BY <1>1, <1>2, <1>3, <1>4, <1>5, <1>6, <2>1, <2>2
  <2>4. QED BY <1>1, <1>2, <1>5, <2>1, <2>2, <2>3, CallKeepsRInv
<1>9. CASE SequentialCancelled
  <2>1. worker' = worker /\ runs' = runs /\ result' = [result EXCEPT ![i] = "cancelled"]
        /\ todo' = todo \ {i} /\ worker[i] = "idle" /\ phase = "sequential"
    BY <1>9 DEF SequentialCancelled, poolVars
  <2>2. CallTells(i) => CallTells(i)'
    BY <1>1, <1>2, <1>3, <1>4, <1>5, <2>1
  <2>3. QED BY <1>1, <1>2, <1>5, <2>1, <2>2, CallKeepsRInv
<1>10. CASE SequentialStarts
  <2>1. worker' = [worker EXCEPT ![i] = "running"] /\ runs' = [runs EXCEPT ![i] = @ + 1]
        /\ result' = result /\ worker[i] = "looked"
    BY <1>10 DEF SequentialStarts
  <2>2. CallTells(i) => CallTells(i)'
    BY <1>1, <1>2, <1>3, <1>5, <1>6, <2>1
  <2>3. QED BY <1>1, <1>2, <1>5, <2>1, <2>2, CallKeepsRInv
<1>11. CASE SequentialReturns
  <2>1. /\ worker' = [worker EXCEPT ![i] = "done"] /\ runs' = runs
        /\ result' = [result EXCEPT ![i] = "ran"] /\ todo' = todo \ {i}
        /\ worker[i] = "running" /\ phase = "sequential"
    BY <1>11 DEF SequentialReturns
  <2>2. CallTells(i) => CallTells(i)'
    BY <1>1, <1>2, <1>3, <1>5, <2>1
  <2>3. QED BY <1>1, <1>2, <1>5, <2>1, <2>2, CallKeepsRInv
<1>12. CASE SequentialLooks
  <2>1. worker' = [worker EXCEPT ![i] = "looked"] /\ UNCHANGED <<runs, result>> /\ worker[i] = "idle"
    BY <1>12 DEF SequentialLooks
  <2>2. CallTells(i) => CallTells(i)'
    BY <1>1, <1>2, <1>3, <1>5, <1>6, <2>1
  <2>3. QED BY <1>1, <1>2, <1>5, <2>1, <2>2, CallKeepsRInv
<1>13. QED BY <1>7, <1>8, <1>9, <1>10, <1>11, <1>12

LEMMA WorkerKeepsRInv ==
  ASSUME IInv, RInv, NEW i \in Slots, Worker(i)
  PROVE  RInv'
<1>1. /\ worker[i] \in {"started", "looked", "running", "stored", "released"}
      /\ worker[i] \in {"looked", "running"} => phase = "parallel"
      /\ UNCHANGED <<calls, entry, phase, replies, todo>>
  BY DEF Worker, WorkerLooks, WorkerStarts, WorkerGivesUp, WorkerStores, ReleaseSlot, WorkerDone, planVars
<1>2. phase = "parallel" /\ i \in ParallelEntries \ todo
  BY <1>1, InParallelPhase
<1>3. i \in Idx /\ entry[i] = "execute" /\ i \notin SequentialEntries
  BY <1>2 DEF ParallelEntries, SequentialEntries
<1>4. SequentialEntries' = SequentialEntries
  BY <1>1, SamePlan
<1>5. /\ runs \in [Slots -> Nat]
      /\ result \in [Slots -> {"none", "ran", "cancelled"}]
      /\ worker \in [Slots -> Places]
  BY DEF IInv, ExecTypeOK, Places
<1> USE DEF CallTells, RunsBound, Unanswered, ResultTells, Mergeable, NotStarted
<1>6. CASE WorkerStarts(i)
  <2>1. worker' = [worker EXCEPT ![i] = "running"] /\ runs' = [runs EXCEPT ![i] = @ + 1]
        /\ result' = result /\ worker[i] = "looked"
    BY <1>6 DEF WorkerStarts
  <2>2. CallTells(i) => CallTells(i)'
    BY <1>1, <1>2, <1>3, <1>5, <2>1
  <2>3. QED BY <1>1, <1>2, <1>5, <2>1, <2>2, CallKeepsRInv
<1>7. CASE WorkerGivesUp(i)
  <2>1. worker' = [worker EXCEPT ![i] = "stored"] /\ runs' = runs
        /\ result' = [result EXCEPT ![i] = "cancelled"] /\ worker[i] = "started"
    BY <1>7 DEF WorkerGivesUp
  <2>2. CallTells(i) => CallTells(i)'
    BY <1>1, <1>2, <1>3, <1>4, <1>5, <2>1
  <2>3. QED BY <1>1, <1>2, <1>5, <2>1, <2>2, CallKeepsRInv
<1>8. CASE WorkerStores(i)
  <2>1. worker' = [worker EXCEPT ![i] = "stored"] /\ runs' = runs
        /\ result' = [result EXCEPT ![i] = "ran"] /\ worker[i] = "running"
    BY <1>8 DEF WorkerStores
  <2>2. CallTells(i) => CallTells(i)'
    BY <1>1, <1>2, <1>3, <1>4, <1>5, <2>1
  <2>3. QED BY <1>1, <1>2, <1>5, <2>1, <2>2, CallKeepsRInv
<1>9. CASE ReleaseSlot(i) \/ WorkerDone(i)
  <2>1. PICK st \in {"released", "done"} : worker' = [worker EXCEPT ![i] = st]
    BY <1>9 DEF ReleaseSlot, WorkerDone
  <2>2. UNCHANGED <<runs, result>> /\ worker[i] \in {"stored", "released"}
    BY <1>9 DEF ReleaseSlot, WorkerDone
  <2>3. CallTells(i) => CallTells(i)'
    BY <1>1, <1>2, <1>3, <1>4, <1>5, <2>1, <2>2
  <2>4. QED BY <1>1, <1>2, <1>5, <2>1, <2>2, <2>3, CallKeepsRInv
<1>10. CASE WorkerLooks(i)
  <2>1. worker' = [worker EXCEPT ![i] = "looked"] /\ UNCHANGED <<runs, result>>
        /\ worker[i] = "started"
    BY <1>10 DEF WorkerLooks
  <2>2. CallTells(i) => CallTells(i)'
    BY <1>1, <1>2, <1>3, <1>5, <2>1
  <2>3. QED BY <1>1, <1>2, <1>5, <2>1, <2>2, CallKeepsRInv
<1>11. QED BY <1>6, <1>7, <1>8, <1>9, <1>10 DEF Worker

LEMMA DeliverKeepsRInv ==
  ASSUME IInv, RInv, DeliverAt
  PROVE  RInv'
<1> DEFINE i == Len(replies) + 1
           r == IF entry[i] = "loop" THEN "aborted" ELSE result[i]
<1>1. /\ UNCHANGED <<calls, entry, result, worker, todo, phase, chunks, runs>>
      /\ phase = "deliver" /\ Len(replies) < Len(calls) /\ replies' = Append(replies, r)
  BY DEF DeliverAt, planVars, poolVars
<1>2. Len(replies) \in Nat /\ Len(calls) \in Nat
      /\ replies \in Seq({"ran", "cancelled", "aborted"})
  BY LenProperties DEF IInv, ExecTypeOK, CallsTypeOK
<1>3. i \in Idx
  BY <1>1, <1>2, IdxInSlots DEF IInv
<1>4. Idx' = Idx /\ SequentialEntries' = SequentialEntries
  BY <1>1, SamePlan
<1>5. ASSUME NEW j \in Idx PROVE CallTells(j)'
  BY <1>1, <1>4
     DEF RInv, CallTells, RunsBound, Unanswered, ResultTells, Mergeable, NotStarted
<1> HIDE DEF r
<1>6. /\ DOMAIN replies' = DOMAIN replies \cup {i}
      /\ \A k \in DOMAIN replies' : replies'[k] = IF k = i THEN r ELSE replies[k]
  BY <1>1, <1>2
<1>7. ASSUME NEW k \in DOMAIN replies'
      PROVE  k \in Idx /\ replies'[k] = IF entry[k] = "loop" THEN "aborted" ELSE result[k]
  <2>1. CASE k = i
    BY <1>3, <1>6, <2>1 DEF r
  <2>2. CASE k # i
    BY <1>6, <2>2 DEF RInv, RepliesAre
  <2>3. QED BY <2>1, <2>2
<1>8. ChunksFresh' /\ RepliesAre'
  BY <1>1, <1>4, <1>7 DEF ChunksFresh, RepliesAre
<1>9. QED BY <1>4, <1>5, <1>8 DEF RInv

LEMMA QuietKeepsRInv ==
  ASSUME IInv, RInv, BatchReturns \/ Cancel \/ UNCHANGED vars
  PROVE  RInv'
<1>1. /\ UNCHANGED <<calls, entry, result, worker, todo, chunks, runs, replies>>
      /\ phase' = phase \/ phase' \in {"request", "ended"}
  BY DEF BatchReturns, Cancel, vars, planVars, poolVars
<1>2. Idx' = Idx /\ SequentialEntries' = SequentialEntries
  BY <1>1, SamePlan
<1>3. ASSUME NEW j \in Idx PROVE CallTells(j)'
  BY <1>1, <1>2
     DEF RInv, CallTells, RunsBound, Unanswered, ResultTells, Mergeable, NotStarted
<1>4. ChunksFresh' /\ RepliesAre'
  BY <1>1, <1>2 DEF RInv, ChunksFresh, RepliesAre
<1>5. QED BY <1>2, <1>3, <1>4 DEF RInv

LEMMA NextRInv == IInv /\ RInv /\ [Next]_vars => RInv'
<1> SUFFICES ASSUME IInv, RInv, [Next]_vars PROVE RInv'
  OBVIOUS
<1>1. CASE NewBatch
  BY <1>1, PlanKeepsRInv DEF NewBatch
<1>2. CASE ExecuteSearchCodeBatch \/ ExecuteReadFileBatchMerge
  BY <1>2, MergedKeepsRInv DEF ExecuteSearchCodeBatch, ExecuteReadFileBatchMerge
<1>3. CASE SearchBatchDone \/ ReadBatchDone \/ Join \/ SequentialDone
  BY <1>3, SearchDoneKeepsRInv, PhaseKeepsRInv
<1>4. CASE \/ SkipCancelled \/ QueueForSlot \/ TakeSlot
           \/ SequentialCancelled \/ SequentialLooks \/ SequentialStarts \/ SequentialReturns
  <2>1. PICK i : i = Next1
    OBVIOUS
  <2>2. QED BY <1>4, <2>1, MainKeepsRInv
<1>5. CASE DeliverAt \/ BatchReturns \/ Cancel \/ UNCHANGED vars
  BY <1>5, DeliverKeepsRInv, QuietKeepsRInv
<1>6. ASSUME NEW i \in Slots, Worker(i) PROVE RInv'
  BY <1>6, WorkerKeepsRInv
<1>7. QED BY <1>1, <1>2, <1>3, <1>4, <1>5, <1>6 DEF Next, Main

(* The model is told what happened: a call with a tool result did run, one *)
(* reported as cancelled or aborted had no side effect, and no call that   *)
(* may have one runs twice, whatever is merged, cancelled, or run side by  *)
(* side (executeToolCallsWithParallel, deliverToolExecutionResults).       *)
THEOREM RepliesAreTrue == Spec => []RepliesTellWhatRan
<1>1. ASSUME IInv, RInv PROVE RepliesTellWhatRan
  <2> SUFFICES ASSUME NEW k \in DOMAIN replies
      PROVE  /\ replies[k] = "ran" => runs[k] >= 1
             /\ replies[k] = "cancelled" /\ calls[k].kind \in {"probe", "write"} => runs[k] = 0
             /\ replies[k] = "aborted" => runs[k] = 0
             /\ runs[k] <= IF calls[k].kind \in {"search", "read"} THEN 2 ELSE 1
    BY DEF RepliesTellWhatRan
  <2>1. k \in Idx /\ replies[k] = IF entry[k] = "loop" THEN "aborted" ELSE result[k]
    BY <1>1 DEF RInv, RepliesAre
  <2>2. k \in Slots /\ runs[k] \in Nat /\ result[k] \in {"none", "ran", "cancelled"}
    BY <1>1, <2>1, IdxInSlots DEF IInv, ExecTypeOK
  <2>3. CallTells(k)
    BY <1>1, <2>1 DEF RInv
  <2>4. QED BY <2>1, <2>2, <2>3 DEF CallTells, RunsBound, ResultTells, Mergeable
<1>2. Init => IInv /\ RInv
  BY InitIInv, InitRInv
<1>3. IInv /\ RInv /\ [Next]_vars => (IInv /\ RInv)'
  BY NextIInv, NextRInv
<1>4. QED BY <1>1, <1>2, <1>3, PTL DEF Spec

-----------------------------------------------------------------------------
(* What a cancel leaves out.  Before the sequential phase no write has run *)
(* (WritesWait); in it no call was left out when one has just been looked  *)
(* at (LookIsClean), and what ran lies before what is to come (RanBefore). *)

CancelKnown == \A i \in Idx : result[i] = "cancelled" => cancelled

WritesWait ==
  phase \in {"search", "read", "parallel"} =>
    \A k \in Idx : ~IsParallelSafe(k) => runs[k] = 0

LookIsClean ==
  phase = "sequential" =>
    \A k \in todo : worker[k] = "looked" => \A i \in Idx : result[i] # "cancelled"

RanBefore ==
  phase = "sequential" =>
    \A k \in Idx, j \in todo :
      ~IsParallelSafe(k) /\ runs[k] > 0 => k < j \/ (k = j /\ worker[k] = "running")

CInv == CancelKnown /\ WritesWait /\ LookIsClean /\ RanBefore /\ WritesStopAtCancel

LEMMA InitCInv == Init => CInv
<1> SUFFICES ASSUME Init PROVE CInv
  OBVIOUS
<1>1. Idx = {} /\ phase = "request"
  BY EmptySeq DEF Init, Idx
<1>2. QED
  BY <1>1 DEF CInv, CancelKnown, WritesWait, LookIsClean, RanBefore, WritesStopAtCancel

LEMMA PlanKeepsCInv ==
  ASSUME NEW n \in 1 .. MaxCalls, NEW cs \in [1 .. n -> Calls], PlanParallelCalls(cs)
  PROVE  CInv'
<1>1. phase' = "search" /\ Idx' = 1 .. n /\ 1 .. n \subseteq Slots
  BY BatchAssumption DEF PlanParallelCalls, Idx, Slots
<1>2. \A i \in Idx' : result'[i] = "none" /\ runs'[i] = 0
  BY <1>1 DEF PlanParallelCalls
<1>3. QED
  BY <1>1, <1>2 DEF CInv, CancelKnown, WritesWait, LookIsClean, RanBefore, WritesStopAtCancel

(* Before the sequential phase: no write is started, and only a cancelled  *)
(* context leaves a call out.                                              *)
LEMMA EarlyKeepsCInv ==
  ASSUME CInv, phase \in {"search", "read", "parallel"},
         UNCHANGED <<calls, phase, cancelled>>,
         \A i \in Idx : /\ ~IsParallelSafe(i) => runs'[i] = runs[i]
                        /\ result'[i] = "cancelled" => result[i] = "cancelled" \/ cancelled
  PROVE  CInv'
<1>1. Idx' = Idx /\ \A i : IsParallelSafe(i)' = IsParallelSafe(i)
  BY DEF Idx, IsParallelSafe
<1>2. CancelKnown'
  BY <1>1 DEF CInv, CancelKnown
<1>3. \A k \in Idx : ~IsParallelSafe(k) => runs'[k] = 0
  BY DEF CInv, WritesWait
<1>4. WritesWait' /\ LookIsClean' /\ RanBefore'
  BY <1>1, <1>3 DEF WritesWait, LookIsClean, RanBefore
<1>5. WritesStopAtCancel'
  BY <1>1, <1>3 DEF WritesStopAtCancel
<1>6. QED
  BY <1>2, <1>4, <1>5 DEF CInv

(* A step that runs nothing and leaves nothing out. *)
LEMMA QuietKeepsCInv ==
  ASSUME CInv, UNCHANGED <<calls, result, runs>>, cancelled => cancelled',
         phase' \in {"search", "read", "parallel"} => phase \in {"search", "read", "parallel"},
         phase' = "sequential" => UNCHANGED <<phase, todo, worker>>
  PROVE  CInv'
<1>1. Idx' = Idx /\ \A i : IsParallelSafe(i)' = IsParallelSafe(i)
  BY DEF Idx, IsParallelSafe
<1>2. CancelKnown' /\ WritesWait' /\ WritesStopAtCancel'
  BY <1>1 DEF CInv, CancelKnown, WritesWait, WritesStopAtCancel
<1>3. LookIsClean' /\ RanBefore'
  BY <1>1 DEF CInv, LookIsClean, RanBefore
<1>4. QED BY <1>2, <1>3 DEF CInv

LEMMA MergedKeepsCInv ==
  ASSUME IInv, RInv, CInv, phase \in {"search", "read"}, MergedCall
  PROVE  CInv'
<1>1. NextChunk \in chunks /\ UNCHANGED <<calls, phase, cancelled>> /\ Idx \subseteq Slots
  BY MergedStep, NextChunkIn, IdxInSlots DEF IInv
<1>2. \A i \in NextChunk : IsParallelSafe(i)
  BY <1>1 DEF RInv, ChunksFresh, IsParallelSafe
<1>3. \A i \in Idx : /\ ~IsParallelSafe(i) => runs'[i] = runs[i]
                     /\ result'[i] = "cancelled" => result[i] = "cancelled" \/ cancelled
  BY <1>1, <1>2, MergedStep
<1>4. QED BY <1>1, <1>3, EarlyKeepsCInv

LEMMA WorkerKeepsCInv ==
  ASSUME IInv, CInv, NEW i \in Slots, Worker(i)
  PROVE  CInv'
<1>1. /\ worker[i] \in {"started", "looked", "running", "stored", "released"}
      /\ worker[i] \in {"looked", "running"} => phase = "parallel"
      /\ UNCHANGED <<calls, phase, cancelled>>
  BY DEF Worker, WorkerLooks, WorkerStarts, WorkerGivesUp, WorkerStores, ReleaseSlot, WorkerDone,
         planVars
<1>2. phase = "parallel" /\ i \in ParallelEntries
  BY <1>1, InParallelPhase
<1>3. IsParallelSafe(i)
  BY <1>2 DEF ParallelEntries
<1>4. Idx \subseteq Slots /\ runs \in [Slots -> Nat]
      /\ result \in [Slots -> {"none", "ran", "cancelled"}]
  BY IdxInSlots DEF IInv, ExecTypeOK
<1>5. \/ UNCHANGED <<runs, result>>
      \/ runs' = [runs EXCEPT ![i] = @ + 1] /\ result' = result
      \/ runs' = runs /\ result' = [result EXCEPT ![i] = "ran"]
      \/ runs' = runs /\ result' = [result EXCEPT ![i] = "cancelled"] /\ cancelled
  BY DEF Worker, WorkerLooks, WorkerStarts, WorkerGivesUp, WorkerStores, ReleaseSlot, WorkerDone
<1>6. \A j \in Idx : /\ ~IsParallelSafe(j) => runs'[j] = runs[j]
                     /\ result'[j] = "cancelled" => result[j] = "cancelled" \/ cancelled
  BY <1>3, <1>4, <1>5
<1>7. QED BY <1>1, <1>2, <1>6, EarlyKeepsCInv

LEMMA ParallelKeepsCInv ==
  ASSUME IInv, CInv, SkipCancelled \/ QueueForSlot \/ TakeSlot
  PROVE  CInv'
<1>1. /\ phase = "parallel" /\ UNCHANGED <<calls, phase, cancelled, runs>>
      /\ \/ result' = result
         \/ result' = [result EXCEPT ![Next1] = "cancelled"] /\ cancelled
  BY DEF SkipCancelled, QueueForSlot, TakeSlot, planVars
<1>2. QED BY <1>1, EarlyKeepsCInv DEF IInv, ExecTypeOK

(* The join opens the sequential phase; no write has run. *)
LEMMA JoinKeepsCInv ==
  ASSUME IInv, CInv, Join
  PROVE  CInv'
<1>1. /\ phase = "parallel" /\ phase' = "sequential"
      /\ UNCHANGED <<calls, entry, result, worker, runs, cancelled>>
      /\ \A i \in Slots : worker[i] \in {"idle", "done"}
      /\ todo' = SequentialEntries
  BY DEF Join, planVars, poolVars
<1>2. Idx' = Idx /\ Idx \subseteq Slots /\ \A i : IsParallelSafe(i)' = IsParallelSafe(i)
  BY <1>1, IdxInSlots DEF Idx, IsParallelSafe, IInv
<1>3. \A k \in Idx : ~IsParallelSafe(k) => runs[k] = 0
  BY <1>1 DEF CInv, WritesWait
<1>4. CancelKnown' /\ WritesWait' /\ WritesStopAtCancel'
  BY <1>1, <1>2 DEF CInv, CancelKnown, WritesWait, WritesStopAtCancel
<1>5. LookIsClean'
  BY <1>1, <1>2 DEF LookIsClean, SequentialEntries
<1>6. RanBefore'
  BY <1>1, <1>2, <1>3 DEF RanBefore
<1>7. QED BY <1>4, <1>5, <1>6 DEF CInv

(* The sequential phase takes the writes in their order.                   *)
LEMMA SequentialKeepsCInv ==
  ASSUME IInv, RInv, CInv, NEW n, n = Next1,
         \/ SequentialCancelled \/ SequentialLooks \/ SequentialStarts \/ SequentialReturns
  PROVE  CInv'
<1>1. /\ phase = "sequential" /\ todo # {} /\ UNCHANGED <<calls, phase, cancelled>>
      /\ todo' \subseteq todo
  BY DEF SequentialCancelled, SequentialLooks, SequentialStarts, SequentialReturns, planVars
<1>2. n \in todo /\ todo \subseteq Slots /\ todo \subseteq Int /\ \A j \in todo : n <= j
  BY <1>1, SlotsFinite, FS_Subset, SmallestIn DEF IInv, ExecTypeOK, Next1
<1>3. n \in Idx /\ ~IsParallelSafe(n)
  BY <1>1, <1>2 DEF IInv, TodoInPhase, SequentialEntries
<1>4. \A i \in Slots : worker[i] \in {"looked", "running"} => i = n
  BY <1>1 DEF IInv, WorkersInPhase
<1>5. /\ runs \in [Slots -> Nat] /\ worker \in [Slots -> Places]
      /\ result \in [Slots -> {"none", "ran", "cancelled"}]
      /\ Idx' = Idx /\ Idx \subseteq Slots /\ Idx \subseteq Int
      /\ \A i : IsParallelSafe(i)' = IsParallelSafe(i)
  BY <1>1, IdxInSlots DEF IInv, ExecTypeOK, Places, Idx, IsParallelSafe
<1>6. WritesWait'
  BY <1>1 DEF WritesWait
<1>7. CASE SequentialCancelled
  <2>1. /\ worker' = worker /\ runs' = runs /\ result' = [result EXCEPT ![n] = "cancelled"]
        /\ worker[n] = "idle" /\ cancelled
    BY <1>7 DEF SequentialCancelled, poolVars
  <2>2. CancelKnown' /\ LookIsClean'
    BY <1>1, <1>2, <1>4, <1>5, <2>1 DEF CInv, CancelKnown, LookIsClean
  <2>3. RanBefore'
    BY <1>1, <1>5, <2>1 DEF CInv, RanBefore
  <2>4. \A k \in Idx : ~IsParallelSafe(k) /\ runs[k] > 0 => k < n
    BY <1>1, <1>2, <2>1 DEF CInv, RanBefore
  <2>5. WritesStopAtCancel'
    BY <1>3, <1>5, <2>1, <2>4 DEF CInv, WritesStopAtCancel
  <2>6. QED BY <1>6, <2>2, <2>3, <2>5 DEF CInv
<1>8. CASE SequentialLooks
  <2>1. worker' = [worker EXCEPT ![n] = "looked"] /\ UNCHANGED <<runs, result, todo>>
        /\ worker[n] = "idle" /\ ~cancelled
    BY <1>8 DEF SequentialLooks
  <2>2. \A i \in Idx : result[i] # "cancelled"
    BY <2>1 DEF CInv, CancelKnown
  <2>3. CancelKnown' /\ LookIsClean' /\ WritesStopAtCancel'
    BY <1>5, <2>1, <2>2 DEF CancelKnown, LookIsClean, WritesStopAtCancel
  <2>4. RanBefore'
    BY <1>1, <1>2, <1>5, <2>1 DEF CInv, RanBefore
  <2>5. QED BY <1>6, <2>3, <2>4 DEF CInv
<1>9. CASE SequentialStarts
  <2>1. worker' = [worker EXCEPT ![n] = "running"] /\ runs' = [runs EXCEPT ![n] = @ + 1]
        /\ UNCHANGED <<result, todo>> /\ worker[n] = "looked"
    BY <1>9 DEF SequentialStarts
  <2>2. \A i \in Idx : result[i] # "cancelled"
    BY <1>1, <1>2, <2>1 DEF CInv, LookIsClean
  <2>3. CancelKnown' /\ LookIsClean' /\ WritesStopAtCancel'
    BY <1>5, <2>1, <2>2 DEF CancelKnown, LookIsClean, WritesStopAtCancel
  <2>4. ASSUME NEW k \in Idx, NEW j \in todo, ~IsParallelSafe(k), runs'[k] > 0
        PROVE  k < j \/ (k = j /\ worker'[k] = "running")
    <3>1. CASE k = n
      <4>1. n < j \/ n = j
        BY <1>2
      <4>2. worker'[n] = "running"
        BY <1>2, <1>5, <2>1
      <4>3. QED BY <3>1, <4>1, <4>2
    <3>2. CASE k # n
      <4>1. runs'[k] = runs[k] /\ worker'[k] = worker[k]
        BY <1>5, <2>1, <3>2
      <4>2. QED BY <1>1, <2>4, <4>1 DEF CInv, RanBefore
    <3>3. QED BY <3>1, <3>2
  <2>5. RanBefore'
    BY <1>5, <2>1, <2>4 DEF RanBefore
  <2>6. QED BY <1>6, <2>3, <2>5 DEF CInv
<1>10. CASE SequentialReturns
  <2>1. /\ worker' = [worker EXCEPT ![n] = "done"] /\ runs' = runs
        /\ result' = [result EXCEPT ![n] = "ran"] /\ todo' = todo \ {n}
        /\ worker[n] = "running"
    BY <1>10 DEF SequentialReturns
  <2>2. CancelKnown' /\ WritesStopAtCancel'
    BY <1>1, <1>5, <2>1 DEF CInv, CancelKnown, WritesStopAtCancel
  <2>3. \A k \in todo' : worker'[k] = worker[k] /\ worker[k] \notin {"looked", "running"}
    BY <1>2, <1>4, <1>5, <2>1
  <2>4. LookIsClean'
    BY <2>3 DEF LookIsClean
  <2>5. ASSUME NEW k \in Idx, NEW j \in todo', ~IsParallelSafe(k), runs[k] > 0 PROVE k < j
    <3>1. j \in todo /\ j # n
      BY <2>1
    <3>2. k < j \/ (k = j /\ worker[k] = "running")
      BY <1>1, <2>5, <3>1 DEF CInv, RanBefore
    <3>3. QED BY <1>4, <1>5, <3>1, <3>2
  <2>6. RanBefore'
    BY <1>5, <2>1, <2>5 DEF RanBefore
  <2>7. QED BY <1>6, <2>2, <2>4, <2>6 DEF CInv
<1>11. QED BY <1>7, <1>8, <1>9, <1>10

LEMMA NextCInv == IInv /\ RInv /\ CInv /\ [Next]_vars => CInv'
<1> SUFFICES ASSUME IInv, RInv, CInv, [Next]_vars PROVE CInv'
  OBVIOUS
<1>1. CASE NewBatch
  BY <1>1, PlanKeepsCInv DEF NewBatch
<1>2. CASE ExecuteSearchCodeBatch \/ ExecuteReadFileBatchMerge
  BY <1>2, MergedKeepsCInv DEF ExecuteSearchCodeBatch, ExecuteReadFileBatchMerge
<1>3. CASE SkipCancelled \/ QueueForSlot \/ TakeSlot
  BY <1>3, ParallelKeepsCInv
<1>4. CASE Join
  BY <1>4, JoinKeepsCInv
<1>5. CASE \/ SequentialCancelled \/ SequentialLooks \/ SequentialStarts \/ SequentialReturns
  BY <1>5, SequentialKeepsCInv
<1>6. CASE \/ SearchBatchDone \/ ReadBatchDone \/ SequentialDone \/ DeliverAt \/ BatchReturns
           \/ Cancel \/ UNCHANGED vars
  <2>1. /\ UNCHANGED <<calls, result, runs>> /\ (cancelled => cancelled')
        /\ phase' \in {"search", "read", "parallel"} => phase \in {"search", "read", "parallel"}
        /\ phase' = "sequential" => UNCHANGED <<phase, todo, worker>>
    BY <1>6 DEF SearchBatchDone, ReadBatchDone, SequentialDone, DeliverAt, BatchReturns, Cancel,
       vars, planVars, poolVars
  <2>2. QED BY <2>1, QuietKeepsCInv
<1>7. ASSUME NEW i \in Slots, Worker(i) PROVE CInv'
  BY <1>7, WorkerKeepsCInv
<1>8. QED BY <1>1, <1>2, <1>3, <1>4, <1>5, <1>6, <1>7 DEF Next, Main

(* A cancel cuts the batch at one place of the order it runs in, also when *)
(* it falls between a call's look at the context and its start: once a     *)
(* call was left out, by the loop that starts the goroutines, by a         *)
(* goroutine or by the sequential loop, no write that comes later runs     *)
(* (executeParallelSafeTools, executeSequentialTools).                     *)
THEOREM CancelCutsTheBatch == Spec => []WritesStopAtCancel
<1>1. Init => IInv /\ RInv /\ CInv
  BY InitIInv, InitRInv, InitCInv
<1>2. IInv /\ RInv /\ CInv /\ [Next]_vars => (IInv /\ RInv /\ CInv)'
  BY NextIInv, NextRInv, NextCInv
<1>3. CInv => WritesStopAtCancel
  BY DEF CInv
<1>4. QED BY <1>1, <1>2, <1>3, PTL DEF Spec

(* The loop detection. *)

(* The last r calls of s are equal. *)
EndsEqual(s, r) == \A j \in Len(s) - r + 1 .. Len(s) - 1 : s[j] = s[j + 1]

(* No run of equal calls in s is longer than Longest. *)
NoLongRun(s) ==
  \A k \in 1 .. Len(s) - Longest : \E j \in k .. k + Longest - 1 : s[j] # s[j + 1]

(* last and n are what a detector holds after the calls s: n is no shorter *)
(* than the run of equal calls s ends with.                                *)
Detects(s, last, n) ==
  /\ n \in Nat
  /\ last = IF s = <<>> THEN NoCall ELSE s[Len(s)]
  /\ \A r \in 1 .. Len(s) : EndsEqual(s, r) => r <= n

(* As long as the batch has met no loop, the detector describes the calls  *)
(* let through so far.                                                     *)
DetectorInv ==
  /\ PlanTypeOK
  /\ NoLongRun(planned)
  /\ (phase = "request" \/ (phase # "ended" /\ ~LoopDetected)) =>
       Detects(planned, lastCall, sameCount)

(* One more call that does not trigger keeps the runs short. *)
LEMMA OneMoreCall ==
  ASSUME NEW s \in Seq(Calls), NEW last, NEW n, Detects(s, last, n), NoLongRun(s),
         NEW c \in Calls, NEW m, m = IF c = last THEN n + 1 ELSE 1,
         ~(c = last /\ m >= Threshold)
  PROVE  Detects(Append(s, c), c, m) /\ NoLongRun(Append(s, c))
<1>1. PICK t : t = Append(s, c) /\ t \in Seq(Calls) /\ Len(t) = Len(s) + 1
               /\ (\A i \in 1 .. Len(s) : t[i] = s[i]) /\ t[Len(s) + 1] = c
  <2>1. /\ Append(s, c) \in Seq(Calls) /\ Len(Append(s, c)) = Len(s) + 1
        /\ \A i \in 1 .. Len(s) : Append(s, c)[i] = s[i]
        /\ Append(s, c)[Len(s) + 1] = c
    BY AppendProperties
  <2>2. QED BY <2>1
<1>2. PICK L \in Nat : L = Len(s)
  BY LenProperties
<1>3. n \in Nat /\ m \in Nat /\ m >= 1
  BY DEF Detects
<1>4. Longest \in Nat /\ Longest >= 1 /\ Longest >= Threshold - 1 /\ Threshold \in Int
  BY BatchAssumption DEF Longest
<1>5. ASSUME L >= 1, t[L] = t[L + 1] PROVE c = last /\ m = n + 1
  <2>1. s # <<>>
    BY <1>2, <1>5, EmptySeq
  <2>2. last = s[L]
    BY <2>1, <1>2 DEF Detects
  <2>3. t[L] = s[L] /\ t[L + 1] = c
    BY <1>1, <1>2, <1>5
  <2>4. QED BY <2>2, <2>3, <1>5
<1>6. ASSUME NEW r \in 1 .. L + 1, EndsEqual(t, r) PROVE r <= m
  <2>1. CASE r = 1
    BY <2>1, <1>3
  <2>2. CASE r # 1
    <3>1. r - 1 \in 1 .. L /\ L >= 1 /\ r >= 2
      BY <2>2
    <3>2. \A j \in (L + 1) - r + 1 .. (L + 1) - 1 : t[j] = t[j + 1]
      BY <1>6, <1>1, <1>2 DEF EndsEqual
    <3>3. t[L] = t[L + 1]
      BY <3>1, <3>2
    <3>4. c = last /\ m = n + 1
      BY <1>5, <3>1, <3>3
    <3>5. ASSUME NEW j \in L - (r - 1) + 1 .. L - 1 PROVE s[j] = s[j + 1]
      <4>1. j \in 1 .. L /\ j + 1 \in 1 .. L /\ j \in (L + 1) - r + 1 .. (L + 1) - 1
        BY <3>1
      <4>2. t[j] = s[j] /\ t[j + 1] = s[j + 1]
        BY <4>1, <1>1, <1>2
      <4>3. QED BY <4>1, <4>2, <3>2
    <3>6. EndsEqual(s, r - 1)
      BY <3>5, <1>2 DEF EndsEqual
    <3>7. r - 1 <= n
      BY <3>6, <3>1, <1>2 DEF Detects
    <3>8. QED BY <3>4, <3>7, <1>3, <3>1
  <2>3. QED BY <2>1, <2>2
<1>7. Detects(t, c, m)
  <2>1. t # <<>> /\ t[Len(t)] = c
    BY <1>1, <1>2, EmptySeq
  <2>2. \A r \in 1 .. Len(t) : EndsEqual(t, r) => r <= m
    BY <1>6, <1>1, <1>2
  <2>3. QED BY <2>1, <2>2, <1>3 DEF Detects
<1>8. ASSUME NEW k \in 1 .. (L + 1) - Longest
      PROVE  \E j \in k .. k + Longest - 1 : t[j] # t[j + 1]
  <2>1. CASE k <= L - Longest
    <3>1. k \in 1 .. Len(s) - Longest
      BY <2>1, <1>2, <1>4
    <3>2. PICK j \in k .. k + Longest - 1 : s[j] # s[j + 1]
      BY <3>1 DEF NoLongRun
    <3>3. j \in 1 .. L /\ j + 1 \in 1 .. L
      BY <2>1, <1>4, <3>2
    <3>4. t[j] = s[j] /\ t[j + 1] = s[j + 1]
      BY <3>3, <1>1, <1>2
    <3>5. QED BY <3>2, <3>4
  <2>2. CASE ~(k <= L - Longest)
    <3>1. k = L + 1 - Longest /\ Longest + 1 \in 1 .. L + 1 /\ L >= 1
      BY <2>2, <1>4, <1>8
    <3>2. SUFFICES ASSUME \A j \in k .. k + Longest - 1 : t[j] = t[j + 1] PROVE FALSE
      OBVIOUS
    <3>3. (L + 1) - (Longest + 1) + 1 = k /\ (L + 1) - 1 = k + Longest - 1
      BY <3>1, <1>4
    <3>4. EndsEqual(t, Longest + 1)
      BY <3>2, <3>3, <1>1, <1>2 DEF EndsEqual
    <3>5. Longest + 1 <= m
      BY <3>1, <3>4, <1>6
    <3>6. t[L] = t[L + 1]
      BY <3>1, <3>2, <3>3, <1>4
    <3>7. c = last /\ m < Threshold
      BY <3>6, <3>1, <1>5, <1>3, <1>4
    <3>8. QED BY <3>5, <3>7, <1>3, <1>4
  <2>3. QED BY <2>1, <2>2
<1>9. NoLongRun(t)
  BY <1>8, <1>1, <1>2 DEF NoLongRun
<1>10. QED BY <1>1, <1>7, <1>9

(* The recursive definition inside SameCount, up to call n. *)
Counted(f, cs, n) ==
  f = [k \in 0 .. n |->
         IF k = 0 THEN sameCount
         ELSE IF cs[k] = Before(cs, k) THEN f[k - 1] + 1 ELSE 1]

LEMMA CountedExists ==
  ASSUME NEW cs, NEW n \in Nat
  PROVE  \E f : Counted(f, cs, n)
<1> DEFINE Body(f, k) == IF k = 0 THEN sameCount
                         ELSE IF cs[k] = Before(cs, k) THEN f[k - 1] + 1 ELSE 1
           Defined == {m \in Nat : \E f : f = [k \in 0 .. m |-> Body(f, k)]}
<1>1. 0 \in Defined
  <2> DEFINE f == [k \in 0 .. 0 |-> sameCount]
  <2>1. \A k \in 0 .. 0 : Body(f, k) = sameCount
    BY SMT
  <2>2. f = [k \in 0 .. 0 |-> Body(f, k)]
    BY <2>1, Zenon
  <2>3. QED BY <2>2
<1>2. \A m \in Nat : m \in Defined => m + 1 \in Defined
  <2> SUFFICES ASSUME NEW m \in Nat, m \in Defined PROVE m + 1 \in Defined
    OBVIOUS
  <2>1. PICK f : f = [k \in 0 .. m |-> Body(f, k)]
    OBVIOUS
  <2> DEFINE g == [k \in 0 .. m + 1 |-> Body(f, k)]
  <2>2. \A k \in 0 .. m : f[k] = Body(f, k)
    <3> HIDE DEF Body
    <3>1. QED BY <2>1
  <2>3. \A k \in 0 .. m : g[k] = f[k]
    <3> HIDE DEF Body
    <3>1. QED BY <2>2, SMT
  <2>4. \A k \in 0 .. m + 1 : Body(g, k) = Body(f, k)
    <3>1. ASSUME NEW k \in 0 .. m + 1, k # 0 PROVE g[k - 1] = f[k - 1]
      <4>1. k - 1 \in 0 .. m
        BY <3>1, SMT
      <4>2. QED BY <4>1, <2>3
    <3> HIDE DEF g
    <3>2. QED BY <3>1
  <2>5. g = [k \in 0 .. m + 1 |-> Body(g, k)]
    <3> HIDE DEF Body
    <3>1. QED BY <2>4, Zenon
  <2>6. QED BY <2>5, m + 1 \in Nat
<1> HIDE DEF Defined
<1>3. n \in Defined
  BY <1>1, <1>2, NatSetInduction
<1>4. QED BY <1>3 DEF Counted, Defined

LEMMA SameCountIs ==
  ASSUME NEW cs, NEW n \in Nat
  PROVE  \E f : Counted(f, cs, n) /\ SameCount(cs, n) = f[n]
<1> DEFINE count == CHOOSE f : Counted(f, cs, n)
<1>1. Counted(count, cs, n)
  BY CountedExists
<1>2. SameCount(cs, n) = count[n]
  BY DEF SameCount, Counted
<1>3. QED BY <1>1, <1>2

(* What the counts before call n are does not depend on n. *)
LEMMA CountedPrefix ==
  ASSUME NEW cs, NEW n \in Nat, NEW f, NEW g, Counted(f, cs, n), Counted(g, cs, n + 1)
  PROVE  f[n] = g[n]
<1> DEFINE Same == {k \in Nat : k <= n => f[k] = g[k]}
<1>1. 0 \in Same
  BY SMT DEF Counted
<1>2. \A k \in Nat : k \in Same => k + 1 \in Same
  <2> SUFFICES ASSUME NEW k \in Nat, k \in Same, k + 1 <= n PROVE f[k + 1] = g[k + 1]
    OBVIOUS
  <2>1. f[k] = g[k]
    BY SMT
  <2>2. k + 1 \in 0 .. n /\ k + 1 \in 0 .. n + 1 /\ k + 1 # 0 /\ (k + 1) - 1 = k
    BY SMT
  <2>3. f[k + 1] = IF cs[k + 1] = Before(cs, k + 1) THEN f[k] + 1 ELSE 1
    BY <2>2 DEF Counted
  <2>4. g[k + 1] = IF cs[k + 1] = Before(cs, k + 1) THEN g[k] + 1 ELSE 1
    BY <2>2 DEF Counted
  <2>5. QED BY <2>1, <2>3, <2>4
<1> HIDE DEF Same
<1>3. n \in Same
  BY <1>1, <1>2, NatSetInduction
<1>4. QED BY <1>3 DEF Same

LEMMA SameCountStarts == ASSUME NEW cs PROVE SameCount(cs, 0) = sameCount
<1>1. PICK f : Counted(f, cs, 0) /\ SameCount(cs, 0) = f[0]
  BY SameCountIs
<1>2. QED BY <1>1 DEF Counted

LEMMA SameCountSteps ==
  ASSUME NEW cs, NEW n \in Nat
  PROVE  SameCount(cs, n + 1) =
           IF cs[n + 1] = Before(cs, n + 1) THEN SameCount(cs, n) + 1 ELSE 1
<1>1. PICK f : Counted(f, cs, n) /\ SameCount(cs, n) = f[n]
  BY SameCountIs
<1>2. PICK g : Counted(g, cs, n + 1) /\ SameCount(cs, n + 1) = g[n + 1]
  BY SameCountIs, n + 1 \in Nat
<1>3. f[n] = g[n]
  BY <1>1, <1>2, CountedPrefix
<1>4. n + 1 \in 0 .. n + 1 /\ n + 1 # 0 /\ (n + 1) - 1 = n
  OBVIOUS
<1>5. g[n + 1] = IF cs[n + 1] = Before(cs, n + 1) THEN g[n] + 1 ELSE 1
  BY <1>2, <1>4 DEF Counted
<1>6. QED BY <1>1, <1>2, <1>3, <1>5, Zenon

(* The calls let through are the first n of the answer. *)
LEMMA LetThroughIs ==
  ASSUME NEW cs \in Seq(Calls)
  PROVE  \E n \in 0 .. Len(cs) :
           /\ LetThrough(cs) = 1 .. n /\ Cardinality(LetThrough(cs)) = n
           /\ \A i \in 1 .. n : ~Triggers(cs, i)
<1>1. Len(cs) \in Nat
  BY LenProperties
<1> DEFINE Free == {m \in 0 .. Len(cs) : \A j \in 1 .. m : ~Triggers(cs, j)}
<1>2. 0 \in Free /\ Free \subseteq 0 .. Len(cs)
  BY <1>1
<1>3. PICK n \in Free : \A m \in Free : m <= n
  BY <1>1, <1>2, LargestExists
<1>4. n \in 0 .. Len(cs) /\ n \in Nat /\ \A i \in 1 .. n : ~Triggers(cs, i)
  BY <1>3, <1>1
<1>5. LetThrough(cs) \subseteq 1 .. n
  <2> SUFFICES ASSUME NEW i \in 1 .. Len(cs), \A j \in 1 .. i : ~Triggers(cs, j)
               PROVE  i <= n
    BY <1>1 DEF LetThrough
  <2>1. i \in Free
    BY <1>1
  <2>2. QED BY <2>1, <1>3
<1>6. 1 .. n \subseteq LetThrough(cs)
  <2> SUFFICES ASSUME NEW i \in 1 .. n PROVE i \in LetThrough(cs)
    OBVIOUS
  <2>1. i \in 1 .. Len(cs) /\ \A j \in 1 .. i : j \in 1 .. n
    BY <1>1, <1>4
  <2>2. QED BY <2>1, <1>4 DEF LetThrough
<1>7. Cardinality(1 .. n) = n
  BY <1>4, FS_Interval
<1>8. LetThrough(cs) = 1 .. n
  BY <1>5, <1>6
<1>9. QED BY <1>4, <1>7, <1>8

(* The detector follows the calls let through, one after the other. *)
LEMMA DetectorFollows ==
  ASSUME PlanTypeOK, Detects(planned, lastCall, sameCount), NoLongRun(planned),
         NEW cs \in Seq(Calls), NEW n \in 0 .. Len(cs), \A i \in 1 .. n : ~Triggers(cs, i)
  PROVE  LET s == planned \o SubSeq(cs, 1, n) IN
         /\ s \in Seq(Calls)
         /\ Detects(s, IF n = 0 THEN lastCall ELSE cs[n], SameCount(cs, n))
         /\ NoLongRun(s)
<1> DEFINE Up(k) == planned \o SubSeq(cs, 1, k)
           Last(k) == IF k = 0 THEN lastCall ELSE cs[k]
           Right == {k \in Nat : k <= n => /\ Up(k) \in Seq(Calls)
                                           /\ Detects(Up(k), Last(k), SameCount(cs, k))
                                           /\ NoLongRun(Up(k))}
<1>0. Len(cs) \in Nat /\ n \in Nat /\ planned \in Seq(Calls)
  BY LenProperties DEF PlanTypeOK
<1>1. 0 \in Right
  <2>1. SubSeq(cs, 1, 0) = <<>>
    BY <1>0, SubSeqProperties, EmptySeq
  <2>2. Up(0) = planned
    BY <2>1, <1>0, ConcatEmptySeq
  <2>3. SameCount(cs, 0) = sameCount /\ Last(0) = lastCall
    BY SameCountStarts
  <2> HIDE DEF Up, Last
  <2>4. QED BY <2>2, <2>3, <1>0, Zenon
<1>2. \A k \in Nat : k \in Right => k + 1 \in Right
  <2> SUFFICES ASSUME NEW k \in Nat, k \in Right, k + 1 <= n
               PROVE  /\ Up(k + 1) \in Seq(Calls)
                      /\ Detects(Up(k + 1), Last(k + 1), SameCount(cs, k + 1))
                      /\ NoLongRun(Up(k + 1))
    OBVIOUS
  <2>1. /\ Up(k) \in Seq(Calls) /\ Detects(Up(k), Last(k), SameCount(cs, k))
        /\ NoLongRun(Up(k))
    BY <1>0
  <2>2. k + 1 \in 1 .. Len(cs) /\ k + 1 \in 1 .. n
    BY <1>0
  <2>3. cs[k + 1] \in Calls
    BY <2>2, ElementOfSeq
  <2>4. Up(k + 1) = Append(Up(k), cs[k + 1])
    <3>1. SubSeq(cs, 1, k) \in Seq(Calls)
      BY <1>0, <2>2, SubSeqProperties
    <3>2. SubSeq(cs, 1, k + 1) = Append(SubSeq(cs, 1, k), cs[k + 1])
      <4>1. /\ Len(SubSeq(cs, 1, k + 1)) = k + 1
            /\ \A i \in 1 .. k + 1 : SubSeq(cs, 1, k + 1)[i] = cs[i]
            /\ SubSeq(cs, 1, k + 1) \in Seq(Calls)
        BY <1>0, <2>2, SubSeqProperties
      <4>2. Len(SubSeq(cs, 1, k)) = k /\ \A i \in 1 .. k : SubSeq(cs, 1, k)[i] = cs[i]
        BY <1>0, <2>2, SubSeqProperties
      <4>3. /\ Len(Append(SubSeq(cs, 1, k), cs[k + 1])) = k + 1
            /\ Append(SubSeq(cs, 1, k), cs[k + 1])[k + 1] = cs[k + 1]
            /\ \A i \in 1 .. k : Append(SubSeq(cs, 1, k), cs[k + 1])[i] = cs[i]
            /\ Append(SubSeq(cs, 1, k), cs[k + 1]) \in Seq(Calls)
        BY <3>1, <4>2, <2>3, AppendProperties
      <4>4. ASSUME NEW a \in Seq(Calls), NEW b \in Seq(Calls), Len(a) = k + 1, Len(b) = k + 1,
                   \A i \in 1 .. k : a[i] = b[i], a[k + 1] = b[k + 1]
            PROVE  a = b
        BY <4>4, SeqEqual
      <4>5. QED BY <4>1, <4>2, <4>3, <4>4
    <3>3. QED BY <3>1, <3>2, <2>3, <1>0, ConcatAppend
  <2>5. Before(cs, k + 1) = Last(k)
    BY <2>2 DEF Before
  <2>6. SameCount(cs, k + 1) =
          IF cs[k + 1] = Last(k) THEN SameCount(cs, k) + 1 ELSE 1
    BY <2>5, SameCountSteps
  <2>7. ~(cs[k + 1] = Last(k) /\ SameCount(cs, k + 1) >= Threshold)
    BY <2>5, <2>2 DEF Triggers
  <2>8. Last(k + 1) = cs[k + 1]
    OBVIOUS
  <2> HIDE DEF Up, Last
  <2>9. /\ Append(Up(k), cs[k + 1]) \in Seq(Calls)
        /\ Detects(Append(Up(k), cs[k + 1]), cs[k + 1], SameCount(cs, k + 1))
        /\ NoLongRun(Append(Up(k), cs[k + 1]))
    BY <2>1, <2>3, <2>6, <2>7, OneMoreCall, AppendProperties
  <2>10. QED BY <2>4, <2>8, <2>9, Zenon
<1> HIDE DEF Right
<1>3. n \in Right
  BY <1>0, <1>1, <1>2, NatSetInduction
<1>4. QED BY <1>3, <1>0 DEF Right

LEMMA InitDetector == Init => DetectorInv
<1> SUFFICES ASSUME Init PROVE DetectorInv
  OBVIOUS
<1>1. PlanTypeOK
  BY BatchAssumption DEF Init, PlanTypeOK
<1>2. planned = <<>> /\ Len(planned) = 0 /\ sameCount = 0 /\ lastCall = NoCall
  BY EmptySeq DEF Init
<1>3. NoLongRun(planned)
  BY <1>2, BatchAssumption DEF NoLongRun, Longest
<1>4. Detects(planned, lastCall, sameCount)
  BY <1>2 DEF Detects
<1>5. QED BY <1>1, <1>3, <1>4 DEF DetectorInv

LEMMA PlanKeepsDetector ==
  ASSUME DetectorInv, NEW m \in 1 .. MaxCalls, NEW cs \in [1 .. m -> Calls],
         PlanParallelCalls(cs)
  PROVE  DetectorInv'
<1>1. cs \in Seq(Calls) /\ Len(cs) = m /\ m \in Nat /\ m <= MaxCalls
  BY BatchAssumption
<1>2. PICK n \in 0 .. Len(cs) :
        /\ LetThrough(cs) = 1 .. n /\ Cardinality(LetThrough(cs)) = n
        /\ \A i \in 1 .. n : ~Triggers(cs, i)
  BY <1>1, LetThroughIs
<1>3. PICK seen : seen = (IF n < Len(cs) THEN n + 1 ELSE n)
  OBVIOUS
<1>4. /\ phase = "request" /\ phase' = "search"
      /\ calls' = cs
      /\ entry' = [i \in Slots |-> IF i \in 1 .. Len(cs) \ LetThrough(cs) THEN "loop" ELSE "execute"]
      /\ lastCall' = IF n = 0 THEN lastCall ELSE cs[n]
      /\ sameCount' = SameCount(cs, seen)
      /\ planned' = planned \o SubSeq(cs, 1, n)
  BY <1>2, <1>3 DEF PlanParallelCalls
<1>5. PlanTypeOK /\ Detects(planned, lastCall, sameCount) /\ NoLongRun(planned)
  BY <1>4 DEF DetectorInv
<1>6. /\ planned' \in Seq(Calls) /\ NoLongRun(planned')
      /\ Detects(planned', lastCall', SameCount(cs, n))
  <2>1. PICK s : s = planned \o SubSeq(cs, 1, n) /\ s \in Seq(Calls) /\ NoLongRun(s)
                 /\ Detects(s, IF n = 0 THEN lastCall ELSE cs[n], SameCount(cs, n))
    BY <1>1, <1>2, <1>5, DetectorFollows
  <2>2. QED BY <2>1, <1>4, Zenon
<1>7. SameCount(cs, n) \in Nat
  BY <1>6 DEF Detects
<1>8. sameCount' \in Nat
  <2>1. CASE n < Len(cs)
    <3>1. n \in Nat
      BY <1>1, <1>2
    <3>2. SameCount(cs, n + 1) = IF cs[n + 1] = Before(cs, n + 1) THEN SameCount(cs, n) + 1 ELSE 1
      BY <3>1, SameCountSteps
    <3>3. QED BY <2>1, <3>2, <1>3, <1>4, <1>7
  <2>2. CASE ~(n < Len(cs))
    BY <2>2, <1>3, <1>4, <1>7
  <2>3. QED BY <2>1, <2>2
<1>9. lastCall' \in Calls \cup {NoCall}
  <2>1. CASE n = 0
    BY <2>1, <1>4, <1>5 DEF PlanTypeOK
  <2>2. CASE n # 0
    <3>1. n \in 1 .. Len(cs)
      BY <2>2, <1>1
    <3>2. cs[n] \in Calls
      BY <1>1, <3>1
    <3>3. QED BY <2>2, <3>2, <1>4
  <2>3. QED BY <2>1, <2>2
<1>10. PlanTypeOK'
  BY <1>1, <1>4, <1>6, <1>8, <1>9 DEF PlanTypeOK
<1>11. ASSUME ~LoopDetected' PROVE Detects(planned', lastCall', sameCount')
  <2>1. n = Len(cs)
    <3> SUFFICES ASSUME n # Len(cs) PROVE FALSE
      OBVIOUS
    <3>0. DOMAIN cs = 1 .. m /\ 1 .. m \subseteq Slots
      BY <1>1, BatchAssumption DEF Slots
    <3>1. n + 1 \in 1 .. Len(cs) \ LetThrough(cs) /\ n + 1 \in Slots /\ n + 1 \in DOMAIN cs
      BY <3>0, <1>1, <1>2
    <3>2. entry'[n + 1] = "loop" /\ n + 1 \in Idx'
      BY <3>1, <1>4 DEF Idx
    <3>3. QED BY <3>2, <1>11 DEF LoopDetected
  <2>2. sameCount' = SameCount(cs, n)
    BY <2>1, <1>1, <1>3, <1>4
  <2>3. QED BY <2>2, <1>6, Zenon
<1>12. QED BY <1>4, <1>6, <1>10, <1>11 DEF DetectorInv

(* A merged call is not one of those that triggered. *)
LEMMA MergedKeepsLoops ==
  ASSUME IInv, RInv, phase \in {"search", "read"}, MergedCall, LoopDetected
  PROVE  LoopDetected'
<1>1. PICK i \in Idx : entry[i] = "loop"
  BY DEF LoopDetected
<1>2. NextChunk \in chunks
  BY MergedStep, NextChunkIn
<1>3. i \notin NextChunk
  BY <1>1, <1>2 DEF RInv, ChunksFresh
<1>4. i \in Slots
  BY <1>1, IdxInSlots DEF IInv
<1>5. entry'[i] = "loop" /\ calls' = calls
  BY <1>1, <1>3, <1>4, MergedStep
<1>6. QED BY <1>1, <1>5 DEF LoopDetected, Idx

(* A step that leaves the detector alone and hides no loop. *)
LEMMA SameDetector ==
  ASSUME DetectorInv, UNCHANGED planVars,
         \/ phase' = "ended"
         \/ phase' = "request" /\ (phase = "request" \/ (phase # "ended" /\ ~LoopDetected))
         \/ phase # "ended" /\ phase # "request" /\ (LoopDetected => LoopDetected')
              /\ phase' # "request"
  PROVE  DetectorInv'
<1>1. UNCHANGED <<calls, lastCall, sameCount, planned>>
  BY DEF planVars
<1>2. PlanTypeOK' /\ NoLongRun(planned')
  BY <1>1 DEF DetectorInv, PlanTypeOK
<1>3. CASE phase' = "ended"
  BY <1>2, <1>3 DEF DetectorInv
<1>4. CASE phase' # "ended"
  BY <1>1, <1>2, <1>4 DEF DetectorInv
<1>5. QED BY <1>3, <1>4

LEMMA NextDetector == IInv /\ RInv /\ DetectorInv /\ [Next]_vars => DetectorInv'
<1> SUFFICES ASSUME IInv, RInv, DetectorInv, [Next]_vars PROVE DetectorInv'
  OBVIOUS
<1>1. CASE NewBatch
  BY <1>1, PlanKeepsDetector DEF NewBatch
<1>2. ASSUME UNCHANGED <<calls, entry>> PROVE LoopDetected' <=> LoopDetected
  BY <1>2 DEF LoopDetected, Idx
<1>3. CASE ExecuteSearchCodeBatch \/ ExecuteReadFileBatchMerge
  <2>1. phase \in {"search", "read"} /\ MergedCall /\ UNCHANGED planVars /\ phase' = phase
    BY <1>3 DEF ExecuteSearchCodeBatch, ExecuteReadFileBatchMerge, MergedCall, MergedSkipped,
       MergedLooks, MergedRuns
  <2>2. QED BY <2>1, MergedKeepsLoops, SameDetector
<1>4. CASE SearchBatchDone \/ ReadBatchDone \/ Join \/ SequentialDone
  <2>1. /\ UNCHANGED planVars /\ UNCHANGED <<calls, entry>>
        /\ phase \notin {"request", "ended"} /\ phase' \notin {"request", "ended"}
    BY <1>4 DEF SearchBatchDone, ReadBatchDone, Join, SequentialDone, planVars
  <2>2. QED BY <2>1, <1>2, SameDetector
<1>5. CASE \/ SkipCancelled \/ QueueForSlot \/ TakeSlot
           \/ SequentialCancelled \/ SequentialLooks \/ SequentialStarts \/ SequentialReturns
           \/ DeliverAt
  <2>1. /\ UNCHANGED planVars /\ UNCHANGED <<calls, entry>>
        /\ phase \notin {"request", "ended"} /\ phase' = phase
    BY <1>5 DEF SkipCancelled, QueueForSlot, TakeSlot, SequentialCancelled, SequentialLooks,
       SequentialStarts, SequentialReturns, DeliverAt, planVars
  <2>2. QED BY <2>1, <1>2, SameDetector
<1>6. CASE BatchReturns
  BY <1>6, SameDetector DEF BatchReturns
<1>7. ASSUME UNCHANGED <<planVars, entry, phase>> PROVE DetectorInv'
  <2>1. UNCHANGED planVars /\ UNCHANGED <<calls, entry>> /\ phase' = phase
    BY <1>7 DEF planVars
  <2>2. QED BY <2>1, <1>2, SameDetector
<1>8. CASE Cancel \/ UNCHANGED vars
  <2>1. UNCHANGED <<planVars, entry, phase>>
    BY <1>8 DEF Cancel, vars
  <2>2. QED BY <2>1, <1>7
<1>9. ASSUME NEW i \in Slots, Worker(i) PROVE DetectorInv'
  <2>1. UNCHANGED <<planVars, entry, phase>>
    BY <1>9 DEF Worker, WorkerLooks, WorkerStarts, WorkerGivesUp, WorkerStores, ReleaseSlot,
       WorkerDone
  <2>2. QED BY <2>1, <1>7
<1>10. QED
  BY <1>1, <1>3, <1>4, <1>5, <1>6, <1>8, <1>9 DEF Next, Main

LEMMA DetectorAlways == Spec => []DetectorInv
<1>1. Init => IInv /\ RInv /\ DetectorInv
  BY InitIInv, InitRInv, InitDetector
<1>2. IInv /\ RInv /\ DetectorInv /\ [Next]_vars => (IInv /\ RInv /\ DetectorInv)'
  BY NextIInv, NextRInv, NextDetector
<1>3. QED BY <1>1, <1>2, PTL DEF Spec

(* Loop detection: over the whole turn, across the borders of batches, no  *)
(* run of equal calls that are let through gets longer than one below the  *)
(* configured threshold (PlanParallelCalls, turn_runner.go).               *)
THEOREM LoopsNeverRunOn == Spec => []LoopsAreCut
<1>1. DetectorInv => LoopsAreCut
  BY DEF DetectorInv, NoLongRun, LoopsAreCut
<1>2. QED BY <1>1, DetectorAlways, PTL

(* Type correctness of the executor. *)
THEOREM BatchTypeCorrect == Spec => []TypeOK
<1>1. DetectorInv /\ ExecTypeOK => TypeOK
  BY DEF DetectorInv, TypeOK
<1>2. QED BY <1>1, DetectorAlways, ExecTypeCorrect, PTL

----------------------------------------------------------------------------
(***************************************************************************)
(* The server that goroutines use has been initialized and is told once    *)
(* of the document, for any number of goroutines, requests, changes and    *)
(* processes.                                                              *)
(***************************************************************************)

Starting == {"initialize", "initializing", "initialized"}
Closing == {"stop", "shutdown", "closing", "exit", "clean", "wait"}

LspType ==
  /\ lspPc \in [Callers -> WorkerPlaces \cup CloserPlaces]
  /\ lspServer \in [initialized : BOOLEAN, stdin : BOOLEAN, done : BOOLEAN, open : BOOLEAN]
  /\ lspProcess \in [up : BOOLEAN, seen : Nat, room : BOOLEAN]
  /\ lspText \in [Callers -> Nat] /\ lspDisk \in Nat

(* The mutex of the client is held by who starts a server, asks whether    *)
(* that of the map runs, or closes it; a server is not in the map before   *)
(* it has started, and is in it until it has been closed.                  *)
MutexHeld ==
  /\ \A c \in LspWorkers : lspPc[c] \in Starting \cup {"check"} <=> lspMu = c
  /\ lspPc[LspCloser] \in Closing <=> lspMu = LspCloser
  /\ \A c \in LspWorkers :
       /\ lspPc[c] \in Starting => ~lspKnown /\ lspPc[LspCloser] \in {"idle", "lock"}
       /\ lspPc[c] = "check" => lspKnown
  /\ lspMu = LspCloser => lspKnown /\ lspServer.done

(* A server of the map is initialized or is being closed; who works with   *)
(* one works with that of the map, or with the last one, which is closed.  *)
ServerKnown ==
  /\ lspKnown => lspPc[LspCloser] # "closed" /\ (lspServer.initialized \/ lspMu = LspCloser)
  /\ \A c \in LspWorkers : lspPc[c] \in Using =>
       lspKnown \/ (lspPc[LspCloser] = "closed" /\ lspServer.done)

(* As long as the server can be told anything, one that has the document   *)
(* counts as having it open, and so does one that is about to get it, from *)
(* one goroutine.                                                          *)
DocumentOpen ==
  CanSend =>
    /\ lspProcess.seen # 0 => lspServer.open
    /\ \A c \in LspWorkers : lspPc[c] = "didOpen" =>
         /\ lspServer.open /\ lspProcess.seen = 0
         /\ \A d \in LspWorkers : lspPc[d] = "didOpen" => d = c

(* A request is registered until its answer is handed out.                 *)
OneAnswer ==
  /\ lspNext \in Nat
  /\ lspPending \cup lspFull \subseteq 1 .. lspNext
  /\ lspPending \cap lspFull = {}

LspInv == LspType /\ MutexHeld /\ ServerKnown /\ DocumentOpen /\ OneAnswer

LEMMA InitKeepsLspInv == LspInit => LspInv
BY LspAssumption
DEF LspInit, LspInv, LspType, MutexHeld, ServerKnown, DocumentOpen, CanSend, OneAnswer, Callers,
    WorkerPlaces, CloserPlaces, Using, Starting, Closing, NewServer, NewProcess

(* A goroutine moves and changes at most its own text and its channel.     *)
LEMMA MoveKeepsLspInv ==
  ASSUME LspInv, NEW c \in LspWorkers, NEW place \in WorkerPlaces,
         lspPc' = [lspPc EXCEPT ![c] = place],
         UNCHANGED <<lspMu, lspKnown, lspServer, lspProcess, lspDisk>>,
         lspText' \in [Callers -> Nat],
         lspPc[c] \in Starting \cup {"check"} \/ place \in Starting \cup {"check"}
           => lspPc[c] \in Starting /\ place \in Starting,
         place \in Using => lspPc[c] \in Using \/ lspKnown,
         place # "didOpen",
         OneAnswer'
  PROVE  LspInv'
<1> USE LspAssumption DEF LspInv, LspType
<1>1. /\ lspPc' \in [Callers -> WorkerPlaces \cup CloserPlaces]
      /\ lspPc'[c] = place /\ lspPc'[LspCloser] = lspPc[LspCloser]
      /\ \A d \in LspWorkers : d # c => lspPc'[d] = lspPc[d]
  BY DEF Callers
<1>2. LspType'
  BY <1>1
<1>3. MutexHeld'
  BY <1>1 DEF MutexHeld, Starting
<1>4. ServerKnown'
  BY <1>1 DEF ServerKnown
<1>5. DocumentOpen'
  BY <1>1 DEF DocumentOpen, CanSend
<1>6. QED BY <1>2, <1>3, <1>4, <1>5

-----------------------------------------------------------------------------
(* Requests *)

LEMMA RegisterKeeps == ASSUME OneAnswer, NEW c, register(c) PROVE OneAnswer'
<1>1. \A n \in lspFull : n # lspNext + 1
  BY DEF OneAnswer
<1>2. QED BY <1>1 DEF OneAnswer, register

LEMMA UnregisterKeeps == ASSUME OneAnswer, NEW c, unregister(c) PROVE OneAnswer'
BY DEF OneAnswer, unregister

LEMMA SameCalls == ASSUME OneAnswer, UNCHANGED lspCalls PROVE OneAnswer'
BY DEF OneAnswer, lspCalls

-----------------------------------------------------------------------------
(* What a goroutine does *)

LEMMA PlainKeepsLspInv ==
  ASSUME LspInv, NEW c \in LspWorkers,
         Ask(c) \/ GetFails(c) \/ InitializeSent(c) \/ InitializeAnswered(c) \/ ReadDocument(c)
           \/ GetDiagnostics(c) \/ Call(c) \/ CallSent(c) \/ CallReturns(c)
  PROVE  LspInv'
<1>1. c \in Callers
  BY DEF Callers
<1>2. UNCHANGED <<lspMu, lspKnown, lspServer, lspProcess, lspDisk>>
  BY DEF Ask, GetFails, InitializeSent, InitializeAnswered, ReadDocument, GetDiagnostics, Call,
         CallSent, CallReturns, Leaves, lspWorld, lspDoc, lspLocks
<1>3. lspText' \in [Callers -> Nat]
  BY <1>1 DEF Ask, GetFails, InitializeSent, InitializeAnswered, ReadDocument, GetDiagnostics, Call,
         CallSent, CallReturns, Leaves, lspDoc, LspInv, LspType
<1>4. OneAnswer'
  BY RegisterKeeps, UnregisterKeeps, SameCalls
  DEF Ask, GetFails, InitializeSent, InitializeAnswered, ReadDocument, GetDiagnostics, Call, CallSent,
      CallReturns, LspInv
<1>5. \E place \in WorkerPlaces :
        /\ lspPc' = [lspPc EXCEPT ![c] = place]
        /\ lspPc[c] \in Starting \cup {"check"} \/ place \in Starting \cup {"check"}
             => lspPc[c] \in Starting /\ place \in Starting
        /\ place \in Using => lspPc[c] \in Using \/ lspKnown
        /\ place # "didOpen"
  <2>1. CASE Ask(c)
    BY <2>1 DEF Ask, Goes, WorkerPlaces, Starting, Using
  <2>2. CASE InitializeAnswered(c)
    BY <2>2 DEF InitializeAnswered, Goes, WorkerPlaces, Starting, Using
  <2>3. CASE GetFails(c)
    BY <2>3 DEF GetFails, CanLock, Goes, WorkerPlaces, Starting, Using
  <2>4. CASE InitializeSent(c)
    BY <2>4 DEF InitializeSent, Goes, WorkerPlaces, Starting, Using
  <2>5. CASE ReadDocument(c)
    BY <2>5 DEF ReadDocument, Leaves, Goes, WorkerPlaces, Starting, Using
  <2>6. CASE GetDiagnostics(c)
    BY <2>6 DEF GetDiagnostics, Leaves, Goes, WorkerPlaces, Starting, Using
  <2>7. CASE Call(c)
    BY <2>7 DEF Call, Goes, WorkerPlaces, Starting, Using
  <2>8. CASE CallSent(c)
    BY <2>8 DEF CallSent, Goes, WorkerPlaces, Starting, Using
  <2>9. CASE CallReturns(c)
    BY <2>9 DEF CallReturns, Goes, WorkerPlaces, Starting, Using
  <2>10. QED BY <2>1, <2>2, <2>3, <2>4, <2>5, <2>6, <2>7, <2>8, <2>9
<1>6. QED BY <1>2, <1>3, <1>4, <1>5, MoveKeepsLspInv

(* Who asks whether the server of the map runs has the mutex of the client.*)
LEMMA GetKeepsLspInv ==
  ASSUME LspInv, NEW c \in LspWorkers, GetServer(c) \/ GetKnown(c)
  PROVE  LspInv'
<1> USE LspAssumption DEF LspInv, LspType
<1>1. /\ c \in Callers /\ c # LspCloser /\ c # NoWorker
      /\ UNCHANGED <<lspKnown, lspServer, lspProcess, lspDisk, lspText, lspCalls>>
  BY DEF GetServer, GetKnown, Callers, lspWorld, lspDoc
<1>2. OneAnswer'
  BY <1>1, SameCalls
<1>3. CASE GetServer(c)
  <2>1. /\ lspPc' = [lspPc EXCEPT ![c] = "check"] /\ lspMu' = c
        /\ lspPc[c] = "lock" /\ lspMu = NoWorker /\ lspKnown
    BY <1>3 DEF GetServer, CanLock, Goes
  <2>2. /\ lspPc' \in [Callers -> WorkerPlaces \cup CloserPlaces]
        /\ lspPc'[c] = "check" /\ lspPc'[LspCloser] = lspPc[LspCloser]
        /\ \A d \in LspWorkers : d # c => lspPc'[d] = lspPc[d]
    BY <1>1, <2>1 DEF Callers, WorkerPlaces
  <2>3. LspType' /\ MutexHeld'
    BY <1>1, <2>1, <2>2 DEF MutexHeld, Starting
  <2>4. ServerKnown' /\ DocumentOpen'
    BY <1>1, <2>1, <2>2 DEF ServerKnown, DocumentOpen, CanSend, Using
  <2>5. QED BY <1>2, <2>3, <2>4
<1>4. CASE GetKnown(c)
  <2>1. /\ lspPc' = [lspPc EXCEPT ![c] = "read"] /\ lspMu' = NoWorker
        /\ lspPc[c] = "check" /\ lspServer.initialized
    BY <1>4 DEF GetKnown, Goes
  <2>2. /\ lspPc' \in [Callers -> WorkerPlaces \cup CloserPlaces]
        /\ lspPc'[c] = "read" /\ lspPc'[LspCloser] = lspPc[LspCloser]
        /\ \A d \in LspWorkers : d # c => lspPc'[d] = lspPc[d]
    BY <1>1, <2>1 DEF Callers, WorkerPlaces, Using
  <2>3. lspMu = c /\ lspKnown
    BY <2>1 DEF MutexHeld
  <2>4. LspType' /\ MutexHeld'
    BY <1>1, <2>1, <2>2, <2>3 DEF MutexHeld, Starting
  <2>5. ServerKnown' /\ DocumentOpen'
    BY <1>1, <2>1, <2>2, <2>3 DEF ServerKnown, DocumentOpen, CanSend, Using
  <2>6. QED BY <1>2, <2>4, <2>5
<1>5. QED BY <1>3, <1>4

(* No goroutine works with a server while one is started.                  *)
LEMMA NobodyUses ==
  ASSUME LspInv, ~lspKnown, lspPc[LspCloser] # "closed", NEW c \in LspWorkers
  PROVE  lspPc[c] \notin Using
BY DEF LspInv, ServerKnown

LEMMA StartKeepsLspInv ==
  ASSUME LspInv, NEW c \in LspWorkers, Start(c)
  PROVE  LspInv'
<1>1. /\ c \in Callers /\ lspPc[c] = "lock" /\ lspMu = NoWorker /\ ~lspKnown
      /\ lspPc[LspCloser] = "idle" /\ c # LspCloser
  BY LspAssumption DEF Start, CanLock, Callers
<1>2. /\ lspPc' = [lspPc EXCEPT ![c] = "initialize"] /\ lspMu' = c
      /\ lspServer' = [NewServer EXCEPT !.stdin = TRUE] /\ lspProcess' = NewProcess(TRUE)
      /\ UNCHANGED <<lspKnown, lspDisk, lspText>>
  BY DEF Start, Goes
<1>3. \A d \in LspWorkers : lspPc[d] \notin Using
  BY <1>1, NobodyUses
<1>4. /\ lspPc' \in [Callers -> WorkerPlaces \cup CloserPlaces]
      /\ lspPc'[c] = "initialize" /\ lspPc'[LspCloser] = "idle"
      /\ \A d \in LspWorkers : d # c => lspPc'[d] = lspPc[d]
  BY <1>1, <1>2 DEF LspInv, LspType, WorkerPlaces, Callers
<1>5. LspType'
  BY <1>2, <1>4 DEF LspInv, LspType, NewServer, NewProcess
<1>6. \A d \in LspWorkers : lspPc[d] \notin Starting \cup {"check"}
  BY <1>1, LspAssumption DEF LspInv, MutexHeld
<1>7. MutexHeld'
  BY <1>1, <1>2, <1>4, <1>6, LspAssumption DEF MutexHeld, Starting, Closing
<1>8. ServerKnown' /\ DocumentOpen'
  BY <1>1, <1>2, <1>3, <1>4 DEF ServerKnown, DocumentOpen, Using, NewProcess
<1>9. OneAnswer'
  BY DEF Start, OneAnswer
<1>10. QED BY <1>5, <1>7, <1>8, <1>9 DEF LspInv

LEMMA InitializedKeepsLspInv ==
  ASSUME LspInv, NEW c \in LspWorkers, Initialized(c)
  PROVE  LspInv'
<1>1. /\ c \in Callers /\ lspPc[c] \in Starting /\ lspMu = c /\ ~lspKnown
      /\ lspPc[LspCloser] \in {"idle", "lock"} /\ c # LspCloser
  BY LspAssumption DEF Initialized, Starting, LspInv, MutexHeld, Callers
<1>2. /\ lspPc' = [lspPc EXCEPT ![c] = "read"] /\ lspMu' = NoWorker /\ lspKnown' = TRUE
      /\ lspServer' = [lspServer EXCEPT !.initialized = TRUE]
      /\ UNCHANGED <<lspProcess, lspDisk, lspText>>
  BY DEF Initialized, Goes, lspWorld, lspDoc
<1>3. \A d \in LspWorkers : lspPc[d] \notin Using
  BY <1>1, NobodyUses
<1>4. /\ lspPc' \in [Callers -> WorkerPlaces \cup CloserPlaces]
      /\ lspPc'[c] = "read" /\ lspPc'[LspCloser] = lspPc[LspCloser]
      /\ \A d \in LspWorkers : d # c => lspPc'[d] = lspPc[d]
  BY <1>1, <1>2 DEF LspInv, LspType, WorkerPlaces, Using, Callers
<1>5. LspType'
  BY <1>2, <1>4 DEF LspInv, LspType
<1>6. MutexHeld'
  BY <1>1, <1>2, <1>4, LspAssumption DEF LspInv, MutexHeld, Starting, Closing
<1>7. /\ lspServer'.initialized /\ lspServer'.stdin = lspServer.stdin
      /\ lspServer'.open = lspServer.open
  BY <1>2 DEF LspInv, LspType
<1>8. ServerKnown' /\ DocumentOpen'
  BY <1>1, <1>2, <1>3, <1>4, <1>7 DEF LspInv, ServerKnown, DocumentOpen, CanSend, Using
<1>9. OneAnswer'
  BY SameCalls DEF Initialized, LspInv
<1>10. QED BY <1>5, <1>6, <1>8, <1>9 DEF LspInv

LEMMA StartFailsKeepsLspInv ==
  ASSUME LspInv, NEW c \in LspWorkers, StartFails(c)
  PROVE  LspInv'
<1>1. /\ c \in Callers /\ lspPc[c] \in Starting /\ lspMu = c /\ ~lspKnown
      /\ lspPc[LspCloser] \in {"idle", "lock"} /\ c # LspCloser
  BY LspAssumption DEF StartFails, StartGivenUp, Starting, LspInv, MutexHeld, Callers
<1>2. /\ lspPc' = [lspPc EXCEPT ![c] = "idle"] /\ lspMu' = NoWorker /\ UNCHANGED lspKnown
      /\ cleanupLocked
      /\ UNCHANGED <<lspProcess, lspDisk, lspText>>
  BY DEF StartFails, StartGivenUp, Goes, lspWorld, lspDoc
<1>3. /\ lspPc' \in [Callers -> WorkerPlaces \cup CloserPlaces]
      /\ lspPc'[c] = "idle" /\ lspPc'[LspCloser] = lspPc[LspCloser]
      /\ \A d \in LspWorkers : d # c => lspPc'[d] = lspPc[d]
  BY <1>1, <1>2 DEF LspInv, LspType, WorkerPlaces, Callers
<1>4. lspServer' \in [initialized : BOOLEAN, stdin : BOOLEAN, done : BOOLEAN, open : BOOLEAN]
      /\ ~lspServer'.stdin /\ lspServer'.done = lspServer.done
  BY <1>2 DEF cleanupLocked, LspInv, LspType
<1>5. LspType'
  BY <1>2, <1>3, <1>4 DEF LspInv, LspType
<1>6. MutexHeld'
  BY <1>1, <1>2, <1>3, LspAssumption DEF LspInv, MutexHeld, Starting, Closing
<1>7. ServerKnown' /\ DocumentOpen'
  BY <1>1, <1>2, <1>3, <1>4, NobodyUses DEF LspInv, ServerKnown, DocumentOpen, CanSend, Using
<1>8. OneAnswer'
  BY UnregisterKeeps DEF StartFails, StartGivenUp, LspInv
<1>9. QED BY <1>5, <1>6, <1>7, <1>8 DEF LspInv

(* The document: who finds it not open marks it and is the one to send it. *)
LEMMA OpenKeepsLspInv ==
  ASSUME LspInv, NEW c \in LspWorkers, OpenDocument(c) \/ OpenSent(c) \/ OpenFails(c)
  PROVE  LspInv'
<1>1. /\ c \in Callers /\ c # LspCloser
      /\ lspPc[c] \in Using /\ lspPc[c] \notin Starting \cup {"check"}
  BY LspAssumption DEF OpenDocument, OpenSent, OpenFails, Callers, Using, Starting
<1>2. \E place \in {"ready", "didOpen", "idle"} : lspPc' = [lspPc EXCEPT ![c] = place]
  BY DEF OpenDocument, OpenSent, OpenFails, Leaves, Goes
<1>3. /\ lspPc' \in [Callers -> WorkerPlaces \cup CloserPlaces]
      /\ lspPc'[c] \in {"ready", "didOpen", "idle"} /\ lspPc'[LspCloser] = lspPc[LspCloser]
      /\ \A d \in LspWorkers : d # c => lspPc'[d] = lspPc[d]
  BY <1>1, <1>2 DEF LspInv, LspType, WorkerPlaces, Using, Callers
<1>4. /\ UNCHANGED <<lspMu, lspKnown, lspDisk>>
      /\ lspServer' \in [initialized : BOOLEAN, stdin : BOOLEAN, done : BOOLEAN, open : BOOLEAN]
      /\ lspServer'.initialized = lspServer.initialized /\ lspServer'.done = lspServer.done
      /\ lspServer'.stdin = lspServer.stdin
  BY ZenonT(60) DEF OpenDocument, OpenSent, OpenFails, LspInv, LspType, lspDoc
<1>5. lspText' \in [Callers -> Nat]
  BY <1>1 DEF OpenDocument, OpenSent, OpenFails, Leaves, LspInv, LspType, lspDoc
<1>6. lspProcess' \in [up : BOOLEAN, seen : Nat, room : BOOLEAN] /\ lspProcess'.up = lspProcess.up
  BY <1>1 DEF OpenDocument, OpenSent, OpenFails, LspInv, LspType, lspWorld
<1>7. LspType'
  BY <1>3, <1>4, <1>5, <1>6 DEF LspInv, LspType
<1>8. MutexHeld'
  BY <1>1, <1>3, <1>4 DEF LspInv, MutexHeld, Starting
<1>9. ServerKnown'
  BY <1>1, <1>3, <1>4 DEF LspInv, ServerKnown
<1>10. DocumentOpen'
  <2>1. CASE OpenDocument(c)
    <3>1. /\ lspServer'.open /\ lspProcess' = lspProcess
          /\ lspPc'[c] = IF lspServer.open THEN "ready" ELSE "didOpen"
      BY <1>1, <2>1 DEF OpenDocument, Goes, lspWorld, LspInv, LspType
    <3>2. CanSend' <=> CanSend
      BY <1>4, <3>1 DEF CanSend
    <3>3. CASE lspServer.open
      BY <1>3, <3>1, <3>2, <3>3 DEF LspInv, DocumentOpen
    <3>4. CASE ~lspServer.open
      BY <1>3, <3>1, <3>2, <3>4 DEF LspInv, DocumentOpen
    <3>5. QED BY <3>3, <3>4
  <2>2. CASE OpenSent(c)
    <3>1. lspPc[c] = "didOpen" /\ CanSend /\ lspPc'[c] = "ready" /\ lspServer' = lspServer
      BY <1>1, <2>2 DEF OpenSent, Sent, Goes, LspInv, LspType
    <3>2. lspServer.open /\ \A d \in LspWorkers : lspPc[d] = "didOpen" => d = c
      BY <3>1 DEF LspInv, DocumentOpen
    <3>3. QED BY <1>3, <3>1, <3>2 DEF DocumentOpen
  <2>3. CASE OpenFails(c)
    BY <1>4, <1>6, <2>3 DEF OpenFails, SendFails, DocumentOpen, CanSend
  <2>4. QED BY <2>1, <2>2, <2>3
<1>11. OneAnswer'
  BY SameCalls DEF OpenDocument, OpenSent, OpenFails, LspInv
<1>12. QED BY <1>7, <1>8, <1>9, <1>10, <1>11 DEF LspInv

-----------------------------------------------------------------------------
(* The end of the agent *)

(* Its steps but for the wait in a write, in which it does not move. *)
CloserMoves(c) ==
  \/ Ask(c) \/ CloseNothing(c) \/ Close(c) \/ ShutdownCalled(c) \/ ShutdownSent(c)
  \/ ShutdownEnds(c) \/ ExitSent(c) \/ Cleanup(c) \/ Closed(c)

LEMMA CloserKeepsLspInv ==
  ASSUME LspInv, CloserMoves(LspCloser)
  PROVE  LspInv'
<1> DEFINE c == LspCloser
<1> USE LspAssumption DEF CloserPlaces, Closing
<1>1. c \in Callers /\ c \notin LspWorkers
  BY DEF Callers
<1>2. \E place \in CloserPlaces : lspPc' = [lspPc EXCEPT ![c] = place]
  BY DEF CloserMoves, Ask, CloseNothing, Close, ShutdownCalled, ShutdownSent, ShutdownEnds, ExitSent,
         Cleanup, Closed, Goes
<1>3. /\ lspPc' \in [Callers -> WorkerPlaces \cup CloserPlaces]
      /\ \A d \in LspWorkers : lspPc'[d] = lspPc[d]
  BY <1>1, <1>2 DEF LspInv, LspType, Callers
<1>4. /\ lspServer' \in [initialized : BOOLEAN, stdin : BOOLEAN, done : BOOLEAN, open : BOOLEAN]
      /\ lspServer.done => lspServer'.done
      /\ lspServer' = lspServer \/ lspServer' = [lspServer EXCEPT !.done = TRUE] \/ ~lspServer'.stdin
  <2>1. CASE UNCHANGED lspServer
    BY <2>1 DEF LspInv, LspType
  <2>2. CASE lspServer' = [lspServer EXCEPT !.done = TRUE]
    BY <2>2 DEF LspInv, LspType
  <2>3. CASE cleanupLocked
    BY <2>3 DEF cleanupLocked, LspInv, LspType
  <2>4. QED BY <2>1, <2>2, <2>3
    DEF CloserMoves, Ask, CloseNothing, Close, ShutdownCalled, ShutdownSent, ShutdownEnds, ExitSent,
        Cleanup, Closed
<1>5. /\ lspProcess' \in [up : BOOLEAN, seen : Nat, room : BOOLEAN] /\ lspProcess'.seen = lspProcess.seen
      /\ lspProcess'.up => lspProcess.up
      /\ lspText' = lspText /\ lspDisk' = lspDisk
  <2>1. lspText' = lspText /\ lspDisk' = lspDisk
    BY DEF CloserMoves, Ask, CloseNothing, Close, ShutdownCalled, ShutdownSent, ShutdownEnds, ExitSent,
           Cleanup, Closed, lspDoc
  <2>2. lspProcess' = lspProcess \/ lspProcess' = [lspProcess EXCEPT !.up = FALSE]
    <3>1. CASE Closed(c)
      BY <3>1 DEF Closed
    <3>2. CASE ~Closed(c)
      BY <3>2 DEF CloserMoves, Ask, CloseNothing, Close, ShutdownCalled, ShutdownSent, ShutdownEnds,
                  ExitSent, Cleanup, lspWorld
    <3>3. QED BY <3>1, <3>2
  <2>3. lspProcess \in [up : BOOLEAN, seen : Nat, room : BOOLEAN]
    BY DEF LspInv, LspType
  <2>4. CASE lspProcess' = lspProcess
    BY <2>1, <2>3, <2>4
  <2>5. CASE lspProcess' = [lspProcess EXCEPT !.up = FALSE]
    BY <2>1, <2>3, <2>5
  <2>6. QED BY <2>2, <2>4, <2>5
<1>6. LspType'
  BY <1>3, <1>4, <1>5 DEF LspInv, LspType
<1>7. DocumentOpen'
  <2>1. CanSend' => CanSend /\ lspServer'.open = lspServer.open
    BY <1>4, <1>5 DEF CanSend, LspInv, LspType
  <2>2. QED BY <1>3, <1>5, <2>1 DEF DocumentOpen, LspInv
<1>8. OneAnswer'
  BY RegisterKeeps, UnregisterKeeps, SameCalls
  DEF CloserMoves, Ask, CloseNothing, Close, ShutdownCalled, ShutdownSent, ShutdownEnds, ExitSent,
      Cleanup, Closed, LspInv
<1>9. MutexHeld' /\ ServerKnown'
  <2>1. CASE Ask(c)
    <3>1. /\ lspPc[c] = "idle" /\ lspPc'[c] = "lock"
          /\ UNCHANGED <<lspMu, lspKnown, lspServer>>
      BY <1>1, <2>1 DEF Ask, Goes, lspLocks, LspInv, LspType
    <3>2. QED BY <1>1, <1>3, <3>1 DEF LspInv, MutexHeld, ServerKnown
  <2>2. CASE CloseNothing(c)
    <3>1. /\ lspPc[c] = "lock" /\ lspMu = NoWorker /\ ~lspKnown /\ lspPc'[c] = "closed"
          /\ UNCHANGED <<lspMu, lspKnown, lspServer>>
      BY <1>1, <2>2 DEF CloseNothing, CanLock, Goes, lspLocks, LspInv, LspType
    <3>2. QED BY <1>1, <1>3, <3>1, NobodyUses DEF LspInv, MutexHeld, ServerKnown
  <2>3. CASE Close(c)
    <3>1. /\ lspPc[c] = "lock" /\ lspMu = NoWorker /\ lspKnown /\ lspPc'[c] = "stop"
          /\ lspMu' = c /\ lspKnown' = lspKnown /\ lspServer'.done
      BY <1>1, <2>3 DEF Close, CanLock, Goes, LspInv, LspType
    <3>2. QED BY <1>1, <1>3, <3>1 DEF LspInv, MutexHeld, ServerKnown
  <2>4. CASE ShutdownCalled(c) \/ ShutdownSent(c) \/ ShutdownEnds(c) \/ ExitSent(c) \/ Cleanup(c)
    <3>1. /\ lspPc[c] \in Closing /\ lspPc'[c] \in Closing
          /\ UNCHANGED <<lspMu, lspKnown>>
      BY <1>1, <2>4 DEF ShutdownCalled, ShutdownSent, ShutdownEnds, ExitSent, Cleanup, Goes, LspInv,
                        LspType
    <3>2. QED BY <1>1, <1>3, <1>4, <3>1 DEF LspInv, MutexHeld, ServerKnown
  <2>5. CASE Closed(c)
    <3>1. /\ lspPc[c] \in Closing /\ lspPc'[c] = "closed" /\ lspMu' = NoWorker /\ ~lspKnown'
          /\ lspServer' = lspServer
      BY <1>1, <2>5 DEF Closed, Goes, LspInv, LspType
    <3>2. lspMu = c /\ lspServer.done
      BY <3>1 DEF LspInv, MutexHeld
    <3>3. QED BY <1>1, <1>3, <3>1, <3>2 DEF LspInv, MutexHeld, ServerKnown
  <2>6. QED BY <2>1, <2>2, <2>3, <2>4, <2>5 DEF CloserMoves
<1>10. QED BY <1>6, <1>7, <1>8, <1>9 DEF LspInv

-----------------------------------------------------------------------------
(* The reader, the process and the document, and who waits in a write *)

WorldMoves ==
  \/ readResponses \/ ProcessEnds \/ ProcessReads \/ Edit
  \/ \E c \in Callers : WriteWaits(c)

LEMMA WorldKeepsLspInv ==
  ASSUME LspInv, WorldMoves \/ UNCHANGED lspVars
  PROVE  LspInv'
<1>1. /\ UNCHANGED <<lspPc, lspMu, lspKnown, lspServer, lspText>>
      /\ lspProcess' \in [up : BOOLEAN, seen : Nat, room : BOOLEAN]
      /\ lspProcess'.seen = lspProcess.seen /\ (lspProcess'.up => lspProcess.up)
      /\ lspDisk' \in Nat
  <2>1. CASE readResponses
    BY <2>1 DEF readResponses, DeliverResponse, handleNotification, ReaderEnds, Reads, lspWorld,
                lspDoc, lspLocks, LspInv, LspType
  <2>2. CASE ProcessEnds \/ ProcessReads
    BY <2>2 DEF ProcessEnds, ProcessReads, lspDoc, lspLocks, LspInv, LspType
  <2>3. CASE Edit
    BY <2>3 DEF Edit, lspWorld, lspLocks, LspInv, LspType
  <2>4. CASE UNCHANGED lspVars
    BY <2>4 DEF lspVars, lspWorld, lspDoc, lspLocks, LspInv, LspType
  <2>5. ASSUME NEW c \in Callers, WriteWaits(c)
        PROVE  /\ UNCHANGED <<lspPc, lspMu, lspKnown, lspServer, lspText, lspDisk>>
               /\ lspProcess' = [lspProcess EXCEPT !.room = FALSE]
    BY <2>5 DEF WriteWaits, lspDoc
  <2>6. CASE \E c \in Callers : WriteWaits(c)
    BY <2>5, <2>6 DEF LspInv, LspType
  <2>7. QED BY <2>1, <2>2, <2>3, <2>4, <2>6 DEF WorldMoves
<1>2. LspType' /\ MutexHeld' /\ ServerKnown'
  BY <1>1 DEF LspInv, LspType, MutexHeld, ServerKnown
<1>3. DocumentOpen'
  BY <1>1 DEF LspInv, DocumentOpen, CanSend
<1>4. OneAnswer'
  BY SameCalls
  DEF WorldMoves, readResponses, DeliverResponse, handleNotification, ReaderEnds, Reads, ProcessEnds,
      ProcessReads, WriteWaits, Edit, lspVars, LspInv, OneAnswer
<1>5. QED BY <1>2, <1>3, <1>4 DEF LspInv

LEMMA StepKeepsLspInv == LspInv /\ [LspNext]_lspVars => LspInv'
<1> SUFFICES ASSUME LspInv, [LspNext]_lspVars PROVE LspInv'
  OBVIOUS
<1>1. ASSUME NEW c \in LspWorkers, Ask(c) \/ Start(c) \/ Call(c) \/ WorkerProceeds(c) PROVE LspInv'
  <2>1. CASE WriteWaits(c)
    BY <2>1, WorldKeepsLspInv DEF WorldMoves, Callers
  <2>2. CASE ~WriteWaits(c)
    BY <1>1, <2>2, PlainKeepsLspInv, GetKeepsLspInv, StartKeepsLspInv, InitializedKeepsLspInv,
       StartFailsKeepsLspInv, OpenKeepsLspInv DEF WorkerProceeds
  <2>3. QED BY <2>1, <2>2
<1>2. CASE Ask(LspCloser) \/ CloserProceeds(LspCloser)
  <2>1. CASE WriteWaits(LspCloser)
    BY <2>1, WorldKeepsLspInv DEF WorldMoves, Callers
  <2>2. CASE CloserMoves(LspCloser)
    BY <2>2, CloserKeepsLspInv
  <2>3. QED BY <1>2, <2>1, <2>2 DEF CloserProceeds, CloserMoves
<1>3. CASE readResponses \/ ProcessEnds \/ ProcessReads \/ Edit \/ UNCHANGED lspVars
  BY <1>3, WorldKeepsLspInv DEF WorldMoves
<1>4. QED BY <1>1, <1>2, <1>3 DEF LspNext

LEMMA LspInvShowsUsable == LspInv => ServerUsable
<1> SUFFICES ASSUME LspInv PROVE ServerUsable
  OBVIOUS
<1>1. \A c \in LspWorkers : lspPc[c] \in Using => lspServer.initialized \/ lspServer.done
  BY DEF LspInv, ServerKnown, MutexHeld
<1>2. QED BY <1>1 DEF LspInv, ServerKnown, OneAnswer, ServerUsable

(* However many goroutines start, use and close the server, and whatever   *)
(* it sends or how it ends: the server of the map is initialized unless it *)
(* is being closed, and no goroutine works with one that never was         *)
(* (Client.GetServer), and the channel of a request takes one answer       *)
(* (readResponses).                                                        *)
THEOREM ServersAreUsable == LspSpec => []ServerUsable
<1>1. QED BY LspInvShowsUsable, InitKeepsLspInv, StepKeepsLspInv, PTL DEF LspSpec

(* No process is told a second time that the document is open, however     *)
(* many goroutines find it closed at the same time (ensureDocumentOpen).   *)
THEOREM DocumentOpenedOnce == LspSpec => OpenedOnce
<1>1. LspInv /\ [LspNext]_lspVars
        => [\A c \in LspWorkers : OpenSent(c) => lspProcess.seen = 0]_lspVars
  BY DEF LspInv, DocumentOpen, OpenSent, Sent
<1>2. QED BY <1>1, InitKeepsLspInv, StepKeepsLspInv, PTL DEF LspSpec, OpenedOnce
-----------------------------------------------------------------------------
(* The types.  Who waits for no answer has no request, so a server that is *)
(* started anew finds no number of the one before.                         *)
Waiting == {"initialize", "initializing", "query", "answer", "shutdown", "closing"}
RequestsOfWaiting == \A c \in Callers : lspPc[c] \notin Waiting => lspId[c] = 0

WorkersAtWork == \A c \in LspWorkers : lspPc[c] \in WorkerPlaces

LspTyped == LspTypeOK /\ RequestsOfWaiting /\ WorkersAtWork

LEMMA InitTypes == LspInit => LspTyped
<1> SUFFICES ASSUME LspInit PROVE LspTyped
  OBVIOUS
<1> USE LspAssumption DEF LspInit
<1>1. RequestsOfWaiting /\ WorkersAtWork
  BY DEF RequestsOfWaiting, WorkersAtWork, Callers, WorkerPlaces
<1>2. lspPc \in [Callers -> WorkerPlaces \cup CloserPlaces]
      /\ {lspMu, lspWriter} \subseteq Callers \cup {NoWorker}
  BY DEF WorkerPlaces
<1>3. /\ lspServer \in [initialized : BOOLEAN, stdin : BOOLEAN, done : BOOLEAN, open : BOOLEAN]
      /\ lspKnown \in BOOLEAN /\ lspReader \in BOOLEAN
  BY DEF NewServer
<1>4. /\ lspProcess \in [up : BOOLEAN, seen : Versions, room : BOOLEAN]
      /\ lspDisk \in Versions /\ lspCached \in Versions /\ lspText \in [Callers -> Versions]
  BY DEF NewProcess, Versions
<1>5. /\ lspNext = 0 /\ lspPending = {} /\ lspFull = {} /\ lspStarts \in 0 .. MaxStarts
      /\ lspNext \in 0 .. MaxIds
      /\ lspId = [c \in Callers |-> 0]
  OBVIOUS
<1>6. lspId \in [Callers -> 0 .. lspNext]
  BY <1>5
<1>7. QED BY <1>1, <1>2, <1>3, <1>4, <1>5, <1>6 DEF LspTyped, LspTypeOK

(* The requests of a step: as they were, one more for a caller that waits  *)
(* for it, or one less.                                                    *)
CallsOf(c) ==
  \/ /\ UNCHANGED lspCalls
     /\ lspPc'[c] \in Waiting \/ lspPc[c] \notin Waiting
  \/ register(c) /\ lspPc'[c] \in Waiting
  \/ unregister(c)

RequestsTypeOK ==
  /\ lspNext \in 0 .. MaxIds
  /\ lspPending \subseteq 1 .. lspNext /\ lspFull \subseteq 1 .. lspNext
  /\ lspId \in [Callers -> 0 .. lspNext]

LEMMA CallsKeepTypes ==
  ASSUME LspTyped, NEW c \in Callers, NEW place \in WorkerPlaces \cup CloserPlaces,
         lspPc' = [lspPc EXCEPT ![c] = place], CallsOf(c)
  PROVE  lspPc' \in [Callers -> WorkerPlaces \cup CloserPlaces]
         /\ RequestsTypeOK' /\ RequestsOfWaiting'
<1> USE LspAssumption DEF LspTyped, LspTypeOK
<1>1. /\ lspPc' \in [Callers -> WorkerPlaces \cup CloserPlaces] /\ lspPc'[c] = place
      /\ \A d \in Callers : d # c => lspPc'[d] = lspPc[d]
  OBVIOUS
<1>2. lspNext \in Nat /\ lspId \in [Callers -> 0 .. lspNext]
  OBVIOUS
<1>3. CASE UNCHANGED lspCalls /\ (lspPc'[c] \in Waiting \/ lspPc[c] \notin Waiting)
  BY <1>1, <1>3 DEF RequestsTypeOK, RequestsOfWaiting, lspCalls
<1>4. CASE register(c) /\ lspPc'[c] \in Waiting
  <2>1. lspNext' = lspNext + 1 /\ lspNext' \in 0 .. MaxIds
    BY <1>2, <1>4 DEF register
  <2>2. lspPending' \subseteq 1 .. lspNext' /\ lspFull' \subseteq 1 .. lspNext'
    BY <1>2, <1>4, <2>1 DEF register
  <2>3. lspId' = [lspId EXCEPT ![c] = lspNext + 1]
    BY <1>4 DEF register
  <2>4. lspId' \in [Callers -> 0 .. lspNext']
    BY <1>2, <2>1, <2>3
  <2>5. RequestsOfWaiting'
    BY <1>1, <1>4, <2>3, <1>2 DEF RequestsOfWaiting
  <2>6. QED BY <1>1, <2>1, <2>2, <2>4, <2>5 DEF RequestsTypeOK
<1>5. CASE unregister(c)
  <2>1. lspNext' = lspNext /\ lspId' = [lspId EXCEPT ![c] = 0]
    BY <1>5 DEF unregister
  <2>2. lspPending' \subseteq 1 .. lspNext' /\ lspFull' \subseteq 1 .. lspNext'
    BY <1>5, <2>1 DEF unregister
  <2>3. lspId' \in [Callers -> 0 .. lspNext']
    BY <1>2, <2>1
  <2>4. RequestsOfWaiting'
    BY <1>1, <1>2, <2>1 DEF RequestsOfWaiting
  <2>5. QED BY <1>1, <2>1, <2>2, <2>3, <2>4 DEF RequestsTypeOK
<1>6. QED BY <1>3, <1>4, <1>5 DEF CallsOf

WriterTypeOK == lspWriter \in Callers \cup {NoWorker}

(* The mutex of the server is given up or taken by who makes the step. *)
LEMMA StepKeepsWriter == WriterTypeOK /\ [LspNext]_lspVars => WriterTypeOK'
<1> SUFFICES ASSUME WriterTypeOK, [LspNext]_lspVars PROVE WriterTypeOK'
  OBVIOUS
<1> USE DEF WriterTypeOK
<1>1. ASSUME NEW c \in Callers, TakesServer(c) \/ WriteWaits(c) \/ UNCHANGED lspWriter
      PROVE  WriterTypeOK'
  BY <1>1 DEF TakesServer, WriteWaits
<1>2. ASSUME NEW c \in Callers,
             Ask(c) \/ Start(c) \/ Call(c) \/ WorkerProceeds(c) \/ CloserProceeds(c)
      PROVE  TakesServer(c) \/ WriteWaits(c) \/ lspWriter' \in {lspWriter, NoWorker}
  <2>1. CASE Ask(c) \/ Start(c) \/ Call(c)
    BY <2>1 DEF Ask, Start, Call, register, lspLocks
  <2>2. CASE WorkerProceeds(c)
    <3>1. CASE GetServer(c) \/ GetKnown(c) \/ GetFails(c) \/ WriteWaits(c)
      BY <3>1 DEF GetServer, GetKnown, GetFails, lspLocks
    <3>2. CASE InitializeSent(c) \/ InitializeAnswered(c) \/ Initialized(c) \/ StartFails(c)
      BY <3>2 DEF InitializeSent, InitializeAnswered, Initialized, StartFails, StartGivenUp, Sent,
                  SendFails, unregister
    <3>3. CASE ReadDocument(c) \/ OpenDocument(c) \/ OpenSent(c) \/ OpenFails(c)
      BY <3>3 DEF ReadDocument, OpenDocument, OpenSent, OpenFails, Sent, SendFails, lspLocks
    <3>4. CASE GetDiagnostics(c) \/ CallSent(c) \/ CallReturns(c)
      BY <3>4 DEF GetDiagnostics, CallSent, CallReturns, Sent, SendFails, unregister, lspLocks
    <3>5. QED BY <2>2, <3>1, <3>2, <3>3, <3>4 DEF WorkerProceeds
  <2>3. CASE CloserProceeds(c)
    BY <2>3 DEF CloserProceeds, CloseNothing, Close, ShutdownCalled, ShutdownSent, ShutdownEnds,
                ExitSent, Cleanup, Closed, Sent, SendFails, register, unregister, lspLocks
  <2>4. QED BY <1>2, <2>1, <2>2, <2>3
<1>3. CASE readResponses \/ ProcessEnds \/ ProcessReads \/ Edit \/ UNCHANGED lspVars
  BY <1>3 DEF readResponses, DeliverResponse, handleNotification, ReaderEnds, Reads, ProcessEnds,
              ProcessReads, Edit, lspVars, lspLocks
<1>4. QED BY <1>1, <1>2, <1>3 DEF LspNext, Callers, TakesServer

(* The variables of the process, the document and the map. *)
OthersTypeOK ==
  /\ lspMu \in Callers \cup {NoWorker}
  /\ lspKnown \in BOOLEAN
  /\ lspServer \in [initialized : BOOLEAN, stdin : BOOLEAN, done : BOOLEAN, open : BOOLEAN]
  /\ lspReader \in BOOLEAN
  /\ lspProcess \in [up : BOOLEAN, seen : Versions, room : BOOLEAN]
  /\ lspDisk \in Versions /\ lspCached \in Versions
  /\ lspText \in [Callers -> Versions]
  /\ lspStarts \in 0 .. MaxStarts

LEMMA WorkersKeepOthers ==
  ASSUME OthersTypeOK, LspTyped, NEW c \in LspWorkers, ~WriteWaits(c),
         Ask(c) \/ Start(c) \/ Call(c) \/ WorkerProceeds(c)
  PROVE  OthersTypeOK'
<1> USE LspAssumption DEF OthersTypeOK
<1>1. c \in Callers /\ 0 \in Versions
  BY DEF Callers, Versions
<1>2. CASE \/ Ask(c) \/ GetServer(c) \/ GetKnown(c) \/ GetFails(c)
           \/ InitializeSent(c) \/ InitializeAnswered(c) \/ CallSent(c) \/ CallReturns(c)
  BY <1>1, <1>2 DEF Ask, GetServer, GetKnown, GetFails, InitializeSent, InitializeAnswered, CallSent,
     CallReturns, lspWorld, lspDoc, lspLocks
<1>3. CASE Start(c)
  <2>1. /\ lspServer' = [NewServer EXCEPT !.stdin = TRUE] /\ lspProcess' = NewProcess(TRUE)
        /\ lspMu' = c /\ lspReader' = TRUE /\ lspCached' = 0
        /\ lspStarts' = lspStarts + 1 /\ lspStarts < MaxStarts
        /\ UNCHANGED <<lspKnown, lspDisk, lspText>>
    BY <1>3 DEF Start
  <2>2. lspServer' \in [initialized : BOOLEAN, stdin : BOOLEAN, done : BOOLEAN, open : BOOLEAN]
    BY <2>1 DEF NewServer
  <2>3. lspProcess' \in [up : BOOLEAN, seen : Versions, room : BOOLEAN]
    BY <1>1, <2>1 DEF NewProcess
  <2>4. lspStarts' \in 0 .. MaxStarts
    BY <2>1
  <2>5. QED BY <1>1, <2>1, <2>2, <2>3, <2>4
<1>4. CASE Call(c) \/ ReadDocument(c) \/ GetDiagnostics(c)
  BY <1>1, <1>4 DEF Call, ReadDocument, GetDiagnostics, Leaves, lspWorld, lspLocks
<1>5. CASE Initialized(c) \/ StartFails(c)
  BY <1>1, <1>5, ZenonT(60) DEF Initialized, StartFails, StartGivenUp, cleanupLocked, lspWorld, lspDoc
<1>6. CASE OpenDocument(c) \/ OpenFails(c)
  <2>1. UNCHANGED <<lspMu, lspKnown, lspReader, lspProcess, lspStarts, lspDisk, lspCached>>
    BY <1>6 DEF OpenDocument, OpenFails, lspWorld, lspDoc
  <2>2. \E opened \in BOOLEAN : lspServer' = [lspServer EXCEPT !.open = opened]
    BY <1>6 DEF OpenDocument, OpenFails
  <2>3. lspServer' \in [initialized : BOOLEAN, stdin : BOOLEAN, done : BOOLEAN, open : BOOLEAN]
    BY <2>2
  <2>4. lspText' \in [Callers -> Versions]
    BY <1>1, <1>6 DEF OpenDocument, OpenFails, Leaves, lspDoc
  <2>5. QED BY <2>1, <2>3, <2>4
<1>7. CASE OpenSent(c)
  <2>1. lspText[c] \in Versions
    BY <1>1
  <2>2. lspProcess' \in [up : BOOLEAN, seen : Versions, room : BOOLEAN]
    BY <1>7, <2>1 DEF OpenSent
  <2>3. UNCHANGED <<lspMu, lspKnown, lspServer, lspReader, lspStarts, lspDisk, lspText, lspCached>>
    BY <1>7 DEF OpenSent, lspDoc
  <2>4. QED BY <2>2, <2>3
<1>8. QED BY <1>2, <1>3, <1>4, <1>5, <1>6, <1>7 DEF WorkerProceeds

LEMMA CloserKeepsOthers ==
  ASSUME OthersTypeOK, CloserMoves(LspCloser)
  PROVE  OthersTypeOK'
<1> USE LspAssumption DEF OthersTypeOK
<1>1. LspCloser \in Callers
  BY DEF Callers
<1>2. CASE \/ Ask(LspCloser) \/ CloseNothing(LspCloser) \/ ShutdownCalled(LspCloser)
           \/ ShutdownSent(LspCloser) \/ ShutdownEnds(LspCloser) \/ ExitSent(LspCloser)
  BY <1>2 DEF Ask, CloseNothing, ShutdownCalled, ShutdownSent, ShutdownEnds, ExitSent, lspWorld,
              lspDoc, lspLocks
<1>3. CASE Close(LspCloser) \/ Cleanup(LspCloser)
  BY <1>1, <1>3, ZenonT(60) DEF Close, Cleanup, cleanupLocked, lspWorld, lspDoc
<1>4. CASE Closed(LspCloser)
  BY <1>4 DEF Closed, lspDoc
<1>5. QED BY <1>2, <1>3, <1>4 DEF CloserMoves

LEMMA WorldKeepsTypes ==
  ASSUME LspTyped, WorldMoves \/ UNCHANGED lspVars
  PROVE  LspTyped'
<1> USE LspAssumption DEF LspTyped, LspTypeOK
<1>1. CASE ReaderEnds \/ ProcessEnds \/ ProcessReads \/ UNCHANGED lspVars
  BY <1>1 DEF ReaderEnds, ProcessEnds, ProcessReads, lspVars, lspCalls, lspWorld, lspDoc, lspLocks,
              RequestsOfWaiting, WorkersAtWork
<1>2. CASE Edit
  BY <1>2 DEF Edit, lspCalls, lspWorld, lspLocks, RequestsOfWaiting, WorkersAtWork, Versions
<1>3. ASSUME NEW n \in 1 .. MaxIds, DeliverResponse(n) PROVE LspTyped'
  BY <1>3 DEF DeliverResponse, Reads, lspWorld, lspLocks, RequestsOfWaiting, WorkersAtWork
<1>4. CASE handleNotification
  BY <1>4 DEF handleNotification, Reads, lspWorld, lspLocks, RequestsOfWaiting, WorkersAtWork
<1>5. ASSUME NEW c \in Callers, WriteWaits(c) PROVE LspTyped'
  BY <1>5 DEF WriteWaits, lspCalls, lspDoc, RequestsOfWaiting, WorkersAtWork
<1>6. QED BY <1>1, <1>2, <1>3, <1>4, <1>5 DEF WorldMoves, readResponses

(* A server that is started finds nobody with a request. *)
LEMMA StartKeepsCalls ==
  ASSUME LspInv, LspTyped, NEW c \in LspWorkers, Start(c)
  PROVE  lspPc' \in [Callers -> WorkerPlaces \cup CloserPlaces]
         /\ RequestsTypeOK' /\ RequestsOfWaiting'
<1> USE LspAssumption DEF LspTyped, LspTypeOK
<1>1. c \in Callers /\ lspPc[LspCloser] = "idle" /\ ~lspKnown /\ lspMu = NoWorker
  BY DEF Start, CanLock, Callers
<1>2. \A d \in LspWorkers : lspPc[d] \notin Using /\ lspPc[d] \notin Starting
  BY <1>1, NobodyUses, LspAssumption DEF LspInv, MutexHeld
<1>3. \A d \in Callers : lspId[d] = 0
  <2>1. \A d \in Callers : lspPc[d] \notin Waiting
    BY <1>1, <1>2 DEF WorkersAtWork, Callers, Waiting, Using, Starting, WorkerPlaces, CloserPlaces
  <2>2. QED BY <2>1 DEF RequestsOfWaiting
<1>4. /\ lspPc' = [lspPc EXCEPT ![c] = "initialize"]
      /\ lspId' = [lspId EXCEPT ![c] = 1]
      /\ lspNext' = 1 /\ lspPending' = {1} /\ lspFull' = {}
  BY DEF Start, Goes
<1>5. lspPc' \in [Callers -> WorkerPlaces \cup CloserPlaces]
  BY <1>4 DEF WorkerPlaces
<1>6. lspId' \in [Callers -> 0 .. lspNext'] /\ RequestsTypeOK'
  <2>1. lspId' \in [Callers -> 0 .. 1]
    BY <1>1, <1>3, <1>4
  <2>2. 1 \in 0 .. MaxIds
    OBVIOUS
  <2>3. QED BY <2>1, <2>2, <1>4 DEF RequestsTypeOK
<1>7. RequestsOfWaiting'
  BY <1>1, <1>3, <1>4 DEF RequestsOfWaiting, Waiting
<1>8. QED BY <1>5, <1>6, <1>7

LEMMA StepKeepsTypes == LspInv /\ LspTyped /\ [LspNext]_lspVars => LspTyped'
<1> SUFFICES ASSUME LspInv, LspTyped, [LspNext]_lspVars PROVE LspTyped'
  OBVIOUS
<1>1. OthersTypeOK
  BY DEF LspTyped, LspTypeOK, OthersTypeOK
<1>8. WriterTypeOK'
  BY StepKeepsWriter DEF LspTyped, LspTypeOK, WriterTypeOK
<1>2. ASSUME lspPc' \in [Callers -> WorkerPlaces \cup CloserPlaces],
             RequestsTypeOK', RequestsOfWaiting', WorkersAtWork', OthersTypeOK'
      PROVE  LspTyped'
  BY <1>2, <1>8 DEF LspTyped, LspTypeOK, RequestsTypeOK, OthersTypeOK, WriterTypeOK
<1>3. ASSUME NEW c \in LspWorkers, Start(c) PROVE LspTyped'
  <2>1. WorkersAtWork'
    BY <1>3 DEF Start, Goes, LspTyped, LspTypeOK, WorkersAtWork, WorkerPlaces, Callers
  <2>2. ~WriteWaits(c)
    BY <1>3 DEF Start, CanLock, WriteWaits, Writing
  <2>3. QED BY <1>1, <1>2, <1>3, <2>1, <2>2, StartKeepsCalls, WorkersKeepOthers
<1>4. ASSUME NEW c \in LspWorkers, ~WriteWaits(c), Ask(c) \/ Call(c) \/ WorkerProceeds(c)
      PROVE  LspTyped'
  <2>1. c \in Callers
    BY DEF Callers
  <2>2. \E place \in WorkerPlaces : lspPc' = [lspPc EXCEPT ![c] = place]
    BY <1>4
    DEF Ask, Call, WorkerProceeds, GetServer, GetKnown, GetFails, InitializeSent, InitializeAnswered,
        Initialized, StartFails, StartGivenUp, ReadDocument, OpenDocument, OpenSent, OpenFails, GetDiagnostics, CallSent,
        CallReturns, Leaves, Goes, WorkerPlaces, Using
  <2>3. lspPc'[c] \in Waiting \/ lspPc[c] \notin Waiting \/ unregister(c)
    <3>1. \A place : lspPc' = [lspPc EXCEPT ![c] = place] => lspPc'[c] = place
      BY <2>1 DEF LspTyped, LspTypeOK
    <3>2. QED BY <1>4, <3>1
      DEF Ask, Call, WorkerProceeds, GetServer, GetKnown, GetFails, InitializeSent, InitializeAnswered,
          Initialized, StartFails, StartGivenUp, ReadDocument, OpenDocument, OpenSent, OpenFails, GetDiagnostics, CallSent,
          CallReturns, CanLock, Leaves, Goes, Waiting
  <2>4. UNCHANGED lspCalls \/ (register(c) /\ lspPc'[c] \in Waiting) \/ unregister(c)
    <3>1. \A place : lspPc' = [lspPc EXCEPT ![c] = place] => lspPc'[c] = place
      BY <2>1 DEF LspTyped, LspTypeOK
    <3>2. QED BY <1>4, <3>1
      DEF Ask, Call, WorkerProceeds, GetServer, GetKnown, GetFails, InitializeSent, InitializeAnswered,
          Initialized, StartFails, StartGivenUp, ReadDocument, OpenDocument, OpenSent, OpenFails, GetDiagnostics, CallSent,
          CallReturns, Goes, Waiting
  <2>5. CallsOf(c)
    BY <2>3, <2>4 DEF CallsOf
  <2>7. WorkersAtWork'
    BY <2>1, <2>2 DEF LspTyped, LspTypeOK, WorkersAtWork, Callers
  <2>6. QED BY <1>1, <1>2, <1>4, <2>7, <2>1, <2>2, <2>5, CallsKeepTypes, WorkersKeepOthers
<1>5. CASE CloserMoves(LspCloser)
  <2>1. LspCloser \in Callers
    BY DEF Callers
  <2>2. \E place \in CloserPlaces : lspPc' = [lspPc EXCEPT ![LspCloser] = place]
    BY <1>5
    DEF CloserMoves, Ask, CloseNothing, Close, ShutdownCalled, ShutdownSent, ShutdownEnds, ExitSent,
        Cleanup, Closed, Goes, CloserPlaces
  <2>3. \A place : lspPc' = [lspPc EXCEPT ![LspCloser] = place] => lspPc'[LspCloser] = place
    BY <2>1 DEF LspTyped, LspTypeOK
  <2>4. CallsOf(LspCloser)
    BY <1>5, <2>3
    DEF CallsOf, CloserMoves, Ask, CloseNothing, Close, ShutdownCalled, ShutdownSent, ShutdownEnds,
        ExitSent, Cleanup, Closed, CanLock, Goes, Waiting
  <2>6. WorkersAtWork'
    BY <2>1, <2>2, LspAssumption DEF LspTyped, LspTypeOK, WorkersAtWork, Callers
  <2>5. QED BY <1>1, <1>2, <1>5, <2>6, <2>1, <2>2, <2>4, CallsKeepTypes, CloserKeepsOthers
<1>6. CASE WorldMoves \/ UNCHANGED lspVars
  BY <1>6, WorldKeepsTypes
<1>7. QED
  BY <1>3, <1>4, <1>5, <1>6
  DEF LspNext, CloserProceeds, CloserMoves, WorldMoves, Callers

(* Type correctness: a request belongs to the server that was asked, also  *)
(* when one that failed to start is followed by another (Start, Call).     *)
THEOREM LspTypeCorrect == LspSpec => []LspTypeOK
<1>1. LspInit => LspInv /\ LspTyped
  BY InitKeepsLspInv, InitTypes
<1>2. LspInv /\ LspTyped /\ [LspNext]_lspVars => (LspInv /\ LspTyped)'
  BY StepKeepsLspInv, StepKeepsTypes
<1>3. LspTyped => LspTypeOK
  BY DEF LspTyped
<1>4. QED BY <1>1, <1>2, <1>3, PTL DEF LspSpec

----------------------------------------------------------------------------
(* The two parts side by side. *)

(* Each part behaves as its own specification says. *)
LEMMA PartsBehave == PartSpec => Spec /\ LspSpec
<1>1. PartInit => Init /\ LspInit
  BY DEF PartInit
<1>2. [PartNext]_partVars => [Next]_vars /\ [LspNext]_lspVars
  BY DEF PartNext, partVars
<1>3. QED BY <1>1, <1>2, PTL DEF PartSpec, Spec, LspSpec

(* Type correctness of the two parts in the specification the run checks. *)
THEOREM WorkTypes == PartSpec => []WorkTypeOK
<1>1. TypeOK /\ LspTypeOK => WorkTypeOK
  BY DEF WorkTypeOK
<1>2. QED BY <1>1, PartsBehave, BatchTypeCorrect, LspTypeCorrect, PTL
=============================================================================
