------------------------ MODULE ConversationProofs ------------------------
(***************************************************************************)
(* Proofs about the conversation of the normal mode (Conversation), about  *)
(* the cache of its tools (ToolCache), and about the specification that    *)
(* puts the two side by side (MCConversation).                             *)
(***************************************************************************)
EXTENDS MCConversation, HistorySplitProofs

----------------------------------------------------------------------------
(***************************************************************************)
(***************************************************************************)

-----------------------------------------------------------------------------
(* Types.  A prompt is run at most twice, the second time as its retry,    *)
(* and a retry is not followed by another.                                 *)

RunsUsed ==
  /\ phase \in {"ready", "final"} => run <= 2 * turns
  /\ phase = "prepared" => run <= 2 * turns - (IF retrying THEN 1 ELSE 2)
  /\ phase \in Running => run >= 1 /\ run <= 2 * turns - (IF retrying THEN 0 ELSE 1)
  /\ retrying => retryCount = 1 /\ phase \notin {"ready", "final"}
  /\ batch.next <= batch.calls + 1

TypeInv == TypeOK /\ RunsUsed

Batches == [calls : 0 .. MaxCalls, abortFrom : 1 .. MaxCalls + 1, next : 1 .. MaxCalls + 1]

(* The variables but for the two sequences. *)
PlainTypes ==
  /\ hardLimit \in ToolLoopLimits
  /\ phase \in {"ready", "prepared", "request", "deliver", "after", "final"}
  /\ turns \in 0 .. MaxTurns /\ resumes \in 0 .. MaxResumes
  /\ run \in 0 .. 2 * MaxTurns /\ step \in 0 .. MaxResponses
  /\ turnStart \in Nat
  /\ batch \in Batches
  /\ attempted \in BOOLEAN /\ retrying \in BOOLEAN /\ retryCount \in {0, 1}
  /\ strikes \in 0 .. StrikeLimit - 1
  /\ failed \in BOOLEAN /\ cancelled \in BOOLEAN

LEMMA TypesInParts ==
  TypeOK <=> history \in Seq(Message) /\ session \in Seq(Message) /\ PlainTypes
BY DEF TypeOK, PlainTypes, Batches

LEMMA NoBatchType == NoBatch \in Batches /\ NoBatch.next <= NoBatch.calls + 1
BY ConversationAssumption DEF NoBatch, Batches

LEMMA InitTypes == Init => TypeInv
<1> SUFFICES ASSUME Init PROVE TypeInv
  OBVIOUS
<1>1. history \in Seq(Message) /\ session \in Seq(Message)
  BY EmptySeq DEF Init
<1>2. RunsUsed
  BY NoBatchType DEF Init, RunsUsed, Running
<1>3. /\ turns \in 0 .. MaxTurns /\ resumes \in 0 .. MaxResumes
      /\ run \in 0 .. 2 * MaxTurns /\ step \in 0 .. MaxResponses
      /\ turnStart \in Nat /\ strikes \in 0 .. StrikeLimit - 1
  BY ConversationAssumption DEF Init
<1>4. /\ hardLimit \in ToolLoopLimits
      /\ phase = "ready" /\ batch \in Batches /\ retryCount \in {0, 1}
      /\ attempted \in BOOLEAN /\ retrying \in BOOLEAN
      /\ failed \in BOOLEAN /\ cancelled \in BOOLEAN
  BY NoBatchType DEF Init
<1>5. PlainTypes
  BY <1>3, <1>4 DEF PlainTypes
<1>6. QED BY <1>1, <1>2, <1>5, TypesInParts DEF TypeInv

(* Where the request of the user may go in a step. *)
PhaseGoes ==
  \/ UNCHANGED <<run, turns, phase, retrying, retryCount>>
  \/ /\ UNCHANGED <<run, turns, retrying, retryCount>>
     /\ \/ phase \in Running /\ phase' \in Running
        \/ phase = "final" /\ phase' = "ready"
  \/ /\ UNCHANGED <<run, turns>>
     /\ phase \in Running /\ phase' \in {"ready", "final"}
     /\ retrying' = FALSE /\ retryCount' \in {0, retryCount}
  \/ /\ phase = "ready" /\ turns < MaxTurns
     /\ turns' = turns + 1 /\ phase' = "prepared" /\ UNCHANGED <<run, retrying, retryCount>>
  \/ /\ phase = "prepared"
     /\ run' = run + 1 /\ phase' = "request" /\ UNCHANGED <<turns, retrying, retryCount>>
  \/ /\ phase = "request" /\ retryCount < 1
     /\ retryCount' = retryCount + 1 /\ retrying' = TRUE /\ phase' = "prepared"
     /\ UNCHANGED <<run, turns>>
  \/ /\ phase' = "ready" /\ retrying' = FALSE /\ retryCount' = 0 /\ UNCHANGED turns
     /\ run' = IF phase = "prepared" THEN run + 1 ELSE run

(* What a step may do to the batch. *)
Batched ==
  \/ UNCHANGED batch
  \/ batch' = NoBatch
  \/ \E n \in 1 .. MaxCalls : \E a \in 1 .. n + 1 :
       batch' = [calls |-> n, abortFrom |-> a, next |-> 1]
  \/ Delivering /\ Delivered

LEMMA StepGoes == [Next]_vars => PhaseGoes /\ Batched
<1> SUFFICES ASSUME [Next]_vars PROVE PhaseGoes /\ Batched
  OBVIOUS
<1> USE DEF PhaseGoes, Batched, Running, runVars, retryVars, batchVars
<1>1. CASE PrepareChatRequest \/ RunTurnLoop
  BY <1>1 DEF PrepareChatRequest, RunTurnLoop
<1>2. CASE HardLimitReached \/ RequestFails
  BY <1>2 DEF HardLimitReached, RequestFails, Requesting, RunReturns, RunFails
<1>3. CASE RespondWithCalls
  BY <1>3 DEF RespondWithCalls, Responding, Requesting
<1>4. CASE RespondFinally \/ RespondWithPlan \/ RespondCheckFailed \/ RespondCheckCancelled
  BY <1>4 DEF RespondFinally, RespondWithPlan, RespondCheckFailed, RespondCheckCancelled,
     Responding, Requesting, RunReturns
<1>5. CASE TokenLimitCompressed
  BY <1>5 DEF TokenLimitCompressed, CanCompressAndRetry, Requesting
<1>6. CASE Deliver
  BY <1>6 DEF Deliver, DeliverLoopAbort, DeliverResult, DeliverStrReplaceError, DeliverComment,
     DeliveryLeaves
<1>7. CASE BatchReturns \/ AfterToolResults \/ AfterTurn
  BY <1>7 DEF BatchReturns, AfterToolResults, AfterTurn, RunFails
<1>8. CASE CompressCommand \/ ClearCommand \/ Cancel \/ UNCHANGED vars
  BY <1>8 DEF CompressCommand, ClearCommand, Cancel, vars
<1>9. CASE RestoreSessionConversation
  BY <1>9 DEF RestoreSessionConversation
<1>10. QED BY <1>1, <1>2, <1>3, <1>4, <1>5, <1>6, <1>7, <1>8, <1>9 DEF Next, Agent, Respond

LEMMA LimitStays == [Next]_vars => hardLimit' = hardLimit
<1> SUFFICES ASSUME [Next]_vars PROVE hardLimit' = hardLimit
  OBVIOUS
<1> USE DEF runVars
<1>1. CASE PrepareChatRequest \/ RunTurnLoop
  BY <1>1 DEF PrepareChatRequest, RunTurnLoop
<1>2. CASE HardLimitReached \/ RequestFails \/ TokenLimitCompressed
  BY <1>2 DEF HardLimitReached, RequestFails, TokenLimitCompressed
<1>3. CASE \/ RespondWithCalls \/ RespondFinally \/ RespondWithPlan
          \/ RespondCheckFailed \/ RespondCheckCancelled
  BY <1>3 DEF RespondWithCalls, RespondFinally, RespondWithPlan, RespondCheckFailed,
     RespondCheckCancelled
<1>4. CASE Deliver \/ BatchReturns
  BY <1>4 DEF Deliver, DeliverLoopAbort, DeliverResult, DeliverStrReplaceError, DeliverComment,
     DeliveryLeaves, BatchReturns
<1>5. CASE AfterToolResults \/ AfterTurn
  BY <1>5 DEF AfterToolResults, AfterTurn
<1>6. CASE CompressCommand \/ ClearCommand \/ Cancel \/ UNCHANGED vars
  BY <1>6 DEF CompressCommand, ClearCommand, Cancel, vars
<1>7. CASE RestoreSessionConversation
  BY <1>7 DEF RestoreSessionConversation
<1>8. QED BY <1>1, <1>2, <1>3, <1>4, <1>5, <1>6, <1>7 DEF Next, Agent, Respond

LEMMA BatchNext ==
  ASSUME batch \in Batches, batch.next <= batch.calls + 1, Batched
  PROVE  batch' \in Batches /\ batch'.next <= batch'.calls + 1
<1> USE ConversationAssumption
<1>1. ASSUME NEW n \in 1 .. MaxCalls, NEW a \in 1 .. n + 1,
             batch' = [calls |-> n, abortFrom |-> a, next |-> 1]
      PROVE  batch' \in Batches /\ batch'.next <= batch'.calls + 1
  BY <1>1 DEF Batches
<1>2. ASSUME Delivering, Delivered
      PROVE  batch' \in Batches /\ batch'.next <= batch'.calls + 1
  <2>1. batch' = [batch EXCEPT !.next = batch.next + 1] /\ batch.next <= batch.calls
    BY <1>2 DEF Delivering, Delivered
  <2>2. batch.next + 1 \in 1 .. MaxCalls + 1
    BY <2>1 DEF Batches
  <2>3. QED BY <2>1, <2>2 DEF Batches
<1>3. QED BY <1>1, <1>2, NoBatchType DEF Batched

(* The other variables. *)
LEMMA NumbersNext ==
  ASSUME resumes \in 0 .. MaxResumes, step \in 0 .. MaxResponses, turnStart \in Nat,
         strikes \in 0 .. StrikeLimit - 1, history \in Seq(Message), [Next]_vars
  PROVE  /\ resumes' \in 0 .. MaxResumes /\ step' \in 0 .. MaxResponses
         /\ turnStart' \in Nat /\ strikes' \in 0 .. StrikeLimit - 1
<1> USE ConversationAssumption DEF runVars, batchVars
<1>0. Len(history) \in Nat
  BY LenProperties
<1>1. CASE PrepareChatRequest \/ RunTurnLoop
  BY <1>0, <1>1, SMTT(40) DEF PrepareChatRequest, RunTurnLoop
<1>2. CASE HardLimitReached \/ RequestFails
  BY <1>2 DEF HardLimitReached, RequestFails
<1>3. CASE RespondWithCalls
  BY <1>3 DEF RespondWithCalls, Responding, Requesting
<1>4. CASE RespondFinally \/ RespondWithPlan \/ RespondCheckFailed \/ RespondCheckCancelled
  BY <1>4 DEF RespondFinally, RespondWithPlan, RespondCheckFailed, RespondCheckCancelled,
     Responding, Requesting
<1>5. CASE TokenLimitCompressed
  BY <1>5 DEF TokenLimitCompressed
<1>6. CASE Deliver
  <2>1. /\ strikes' \in {0, strikes} \/ (strikes + 1 < StrikeLimit /\ strikes' = strikes + 1)
        /\ UNCHANGED <<resumes, step, turnStart>>
    BY <1>6 DEF Deliver, DeliverLoopAbort, DeliverResult, DeliverStrReplaceError, DeliverComment,
       DeliveryLeaves
  <2>2. QED BY <2>1
<1>7. CASE BatchReturns
  BY <1>7 DEF BatchReturns
<1>8. CASE AfterToolResults \/ AfterTurn
  BY <1>8 DEF AfterToolResults, AfterTurn
<1>9. CASE CompressCommand \/ ClearCommand \/ Cancel \/ UNCHANGED vars
  BY <1>9 DEF CompressCommand, ClearCommand, Cancel, vars
<1>10. CASE RestoreSessionConversation
  BY <1>10 DEF RestoreSessionConversation
<1>11. QED BY <1>1, <1>2, <1>3, <1>4, <1>5, <1>6, <1>7, <1>8, <1>9, <1>10
  DEF Next, Agent, Respond

LEMMA FlagsNext ==
  ASSUME attempted \in BOOLEAN, failed \in BOOLEAN, cancelled \in BOOLEAN, [Next]_vars
  PROVE  attempted' \in BOOLEAN /\ failed' \in BOOLEAN /\ cancelled' \in BOOLEAN
<1> USE DEF runVars, batchVars
<1>1. CASE PrepareChatRequest \/ RunTurnLoop
  BY <1>1 DEF PrepareChatRequest, RunTurnLoop
<1>2. CASE HardLimitReached \/ RequestFails
  BY <1>2 DEF HardLimitReached, RequestFails
<1>3. CASE RespondWithCalls
  BY <1>3 DEF RespondWithCalls, Responding, Requesting
<1>4. CASE RespondFinally \/ RespondWithPlan \/ RespondCheckFailed \/ RespondCheckCancelled
  BY <1>4 DEF RespondFinally, RespondWithPlan, RespondCheckFailed, RespondCheckCancelled,
     Responding, Requesting
<1>5. CASE TokenLimitCompressed
  BY <1>5 DEF TokenLimitCompressed
<1>6. CASE Deliver
  BY <1>6 DEF Deliver, DeliverLoopAbort, DeliverResult, DeliverStrReplaceError, DeliverComment,
     DeliveryLeaves
<1>7. CASE BatchReturns
  BY <1>7 DEF BatchReturns
<1>8. CASE AfterToolResults \/ AfterTurn
  BY <1>8 DEF AfterToolResults, AfterTurn
<1>9. CASE CompressCommand \/ ClearCommand \/ Cancel \/ UNCHANGED vars
  BY <1>9 DEF CompressCommand, ClearCommand, Cancel, vars
<1>10. CASE RestoreSessionConversation
  BY <1>10 DEF RestoreSessionConversation
<1>11. QED BY <1>1, <1>2, <1>3, <1>4, <1>5, <1>6, <1>7, <1>8, <1>9, <1>10
  DEF Next, Agent, Respond

(* Every step keeps the types of the variables other than the two          *)
(* sequences.                                                              *)
LEMMA PlainNext ==
  ASSUME TypeInv, [Next]_vars
  PROVE  PlainTypes' /\ RunsUsed'
<1>1. /\ PlainTypes /\ RunsUsed /\ batch.next <= batch.calls + 1
      /\ history \in Seq(Message) /\ PhaseGoes /\ Batched
  BY StepGoes, TypesInParts DEF TypeInv, RunsUsed
<1>2. batch' \in Batches /\ batch'.next <= batch'.calls + 1
  BY <1>1, BatchNext DEF PlainTypes
<1>3. turns' \in 0 .. MaxTurns /\ phase' \in {"ready", "prepared", "request", "deliver", "after", "final"}
  BY <1>1, ConversationAssumption DEF PhaseGoes, PlainTypes, Running
<1>4. retrying' \in BOOLEAN
  BY <1>1 DEF PhaseGoes, PlainTypes
<1>9. retryCount' \in {0, 1}
  BY <1>1 DEF PhaseGoes, PlainTypes
<1>5. run \in Nat /\ run' \in Nat /\ turns \in Nat /\ turns' \in Nat
  BY <1>1, ConversationAssumption DEF PhaseGoes, PlainTypes
<1>6. /\ phase' \in {"ready", "final"} => run' <= 2 * turns'
      /\ phase' = "prepared" => run' <= 2 * turns' - (IF retrying' THEN 1 ELSE 2)
      /\ phase' \in Running => run' >= 1 /\ run' <= 2 * turns' - (IF retrying' THEN 0 ELSE 1)
      /\ retrying' => retryCount' = 1 /\ phase' \notin {"ready", "final"}
  <2>1. /\ phase \in {"ready", "final"} => run <= 2 * turns
        /\ phase = "prepared" => run <= 2 * turns - (IF retrying THEN 1 ELSE 2)
        /\ phase \in Running => run >= 1 /\ run <= 2 * turns - (IF retrying THEN 0 ELSE 1)
        /\ retrying => retryCount = 1 /\ phase \notin {"ready", "final"}
        /\ phase \in {"ready", "prepared", "final"} \cup Running
        /\ retrying \in BOOLEAN
    BY <1>1 DEF RunsUsed, PlainTypes, Running
  <2>2. CASE UNCHANGED <<run, turns, phase, retrying, retryCount>>
    BY <2>1, <2>2
  <2>3. CASE /\ UNCHANGED <<run, turns, retrying, retryCount>>
             /\ \/ phase \in Running /\ phase' \in Running
                \/ phase = "final" /\ phase' = "ready"
    BY <2>1, <2>3, <1>5 DEF Running
  <2>4. CASE /\ UNCHANGED <<run, turns>>
             /\ phase \in Running /\ phase' \in {"ready", "final"}
             /\ retrying' = FALSE /\ retryCount' \in {0, retryCount}
    BY <2>1, <2>4, <1>5 DEF Running
  <2>5. CASE /\ phase = "ready" /\ turns < MaxTurns
             /\ turns' = turns + 1 /\ phase' = "prepared" /\ UNCHANGED <<run, retrying, retryCount>>
    BY <2>1, <2>5, <1>5 DEF Running
  <2>6. CASE /\ phase = "prepared"
             /\ run' = run + 1 /\ phase' = "request" /\ UNCHANGED <<turns, retrying, retryCount>>
    BY <2>1, <2>6, <1>5 DEF Running
  <2>7. CASE /\ phase = "request" /\ retryCount < 1
             /\ retryCount' = retryCount + 1 /\ retrying' = TRUE /\ phase' = "prepared"
             /\ UNCHANGED <<run, turns>>
    <3>1. ~retrying /\ retryCount = 0 /\ run <= 2 * turns - 1
      BY <1>1, <2>1, <2>7 DEF PlainTypes, Running
    <3>2. QED BY <3>1, <2>7, <1>5 DEF Running
  <2>8. CASE /\ phase' = "ready" /\ retrying' = FALSE /\ retryCount' = 0 /\ UNCHANGED turns
             /\ run' = IF phase = "prepared" THEN run + 1 ELSE run
    BY <2>1, <2>8, <1>5 DEF Running
  <2>9. QED BY <1>1, <2>2, <2>3, <2>4, <2>5, <2>6, <2>7, <2>8 DEF PhaseGoes
<1>7. run' \in 0 .. 2 * MaxTurns
  <2>0. MaxTurns \in Nat /\ turns' \in Nat /\ turns' <= MaxTurns /\ run' \in Nat
    BY <1>3, <1>5, ConversationAssumption
  <2>1. ASSUME NEW a \in Nat, NEW b \in Nat, NEW c \in Nat, c <= b,
               a <= 2 * c \/ a <= 2 * c - 1 \/ a <= 2 * c - 2
        PROVE  a \in 0 .. 2 * b
    BY <2>1
  <2>2. run' <= 2 * turns' \/ run' <= 2 * turns' - 1 \/ run' <= 2 * turns' - 2
    <3>1. phase' \in {"ready", "final"} \/ phase' = "prepared" \/ phase' \in Running
      BY <1>3 DEF Running
    <3>2. ASSUME NEW b \in BOOLEAN PROVE (IF b THEN 1 ELSE 2) \in {1, 2} /\ (IF b THEN 0 ELSE 1) \in {0, 1}
      OBVIOUS
    <3>3. (IF retrying' THEN 1 ELSE 2) \in {1, 2} /\ (IF retrying' THEN 0 ELSE 1) \in {0, 1}
      BY <1>4, <3>2, Zenon
    <3>4. PICK d \in {1, 2}, e \in {0, 1} :
            /\ phase' \in {"ready", "final"} => run' <= 2 * turns'
            /\ phase' = "prepared" => run' <= 2 * turns' - d
            /\ phase' \in Running => run' >= 1 /\ run' <= 2 * turns' - e
      BY <3>3, <1>6, Zenon
    <3>5. run' <= 2 * turns' \/ run' <= 2 * turns' - d \/ run' <= 2 * turns' - e
      BY <3>1, <3>4, Zenon
    <3>6. ASSUME NEW x \in Nat PROVE x - 0 = x
      OBVIOUS
    <3>7. 2 * turns' - 0 = 2 * turns'
      BY <1>5, <3>6
    <3>10. QED BY <3>5, <3>7, Zenon
  <2>3. QED BY <2>0, <2>1, <2>2
<1>8. QED BY <1>1, <1>2, <1>3, <1>4, <1>9, <1>6, <1>7, LimitStays, NumbersNext, FlagsNext
  DEF PlainTypes, RunsUsed, Running

----------------------------------------------------------------------------
(***************************************************************************)
(***************************************************************************)

-----------------------------------------------------------------------------
(* What a step does to the history and to the session. *)

LEMMA SaidType ==
  ASSUME run \in 0 .. 2 * MaxTurns, NEW kind \in Kinds, NEW s \in 0 .. MaxResponses,
         NEW n \in 0 .. MaxCalls
  PROVE  Said(kind, s, n) \in Message
BY DEF Said, Message

LEMMA InputType == ASSUME NEW r \in 0 .. 2 * MaxTurns PROVE Input(r) \in Message
BY ConversationAssumption DEF Input, Message, Kinds

LEMMA SummaryType == Summary \in Message
BY ConversationAssumption DEF Summary, Message, Kinds

(* Until it has been compressed, the running turn starts at turnStart. *)
TurnStarts ==
  phase \in Running /\ ~attempted =>
    /\ turnStart < Len(history)
    /\ history[turnStart + 1] = Input(run)
    /\ \A k \in 1 .. turnStart : history[k].run # run

(* Neither is told anything. *)
Quiet ==
  /\ UNCHANGED <<history, session, run, resumes, turnStart>>
  /\ phase' \in Running => phase \in Running /\ (attempted => attempted')
  /\ phase = "prepared" <=> phase' = "prepared"
  /\ phase' = "prepared" => retrying' = retrying
  /\ step' = step \/ (step' = step + 1 /\ phase = "request")
  /\ phase' = "deliver" => phase = "deliver" /\ UNCHANGED <<step, batch>>
  /\ phase = "deliver" /\ phase' # "deliver" => batch.next > batch.calls

(* The agent or the model says something that is no part of a batch. *)
OfTalk(m) == m \in Message /\ m.kind \in {"answer", "retry"} /\ m.run = run /\ m.step = step'

Speaks ==
  /\ UNCHANGED <<run, resumes, turnStart, attempted>>
  /\ \/ phase = "request" /\ step' = step + 1
     \/ phase = "deliver" /\ step' = step /\ batch.next > batch.calls
  /\ phase' \in {"request", "after", "ready", "final"}
  /\ \E m \in Message :
       /\ OfTalk(m)
       /\ \/ history' = Append(history, m) /\ session' \in {session, Append(session, m)}
          \/ \E n \in Message :
               /\ OfTalk(n) /\ n # m
               /\ history' = Append(Append(history, m), n) /\ session' = session

(* The reply to the next call is recorded, or recorded and commented. *)
CommentOn == Said("comment", step, batch.next)

Replies ==
  /\ UNCHANGED <<run, resumes, turnStart, attempted, phase, step>>
  /\ Delivering /\ Delivered
  /\ Reply \in Message /\ CommentOn \in Message
  /\ \/ history' = Append(history, Reply) /\ session' \in {session, Append(session, Reply)}
     \/ history' = Append(Append(history, Reply), CommentOn) /\ session' = session

Asks ==
  /\ UNCHANGED <<run, resumes, turnStart, attempted>>
  /\ phase = "request" /\ phase' = "deliver" /\ step' = step + 1
  /\ \E m \in Message :
       /\ m = Said("calls", step + 1, batch'.calls) /\ batch'.next = 1
       /\ batch'.calls \in Nat
       /\ history' = Append(history, m) /\ session' = Append(session, m)

Prompts ==
  /\ UNCHANGED <<history, run, resumes>>
  /\ phase = "ready" /\ phase' = "prepared" /\ ~retrying'
  /\ Input(run + 1) \in Message
  /\ session' = Append(session, Input(run + 1))

Begins ==
  /\ UNCHANGED <<session, resumes>>
  /\ phase = "prepared" /\ phase' = "request"
  /\ run' = run + 1 /\ step' = 0 /\ turnStart' = Len(history)
  /\ Input(run + 1) \in Message
  /\ history' = Append(history, Input(run + 1))

(* The first s messages become the summary. *)
Compresses(s) ==
  /\ UNCHANGED <<run, resumes, step, turnStart>>
  /\ s \in 1 .. Len(history)
  /\ history' = <<Summary>> \o SubSeq(history, s + 1, Len(history)) /\ session' = history'
  /\ phase \in {"request", "after", "ready", "final"}
  /\ \/ phase' = "prepared" /\ retrying'
     \/ phase' = "ready"
     \/ phase = "after" /\ phase' = "request" /\ ~attempted /\ attempted' /\ s = InTurnSplit

Wipes == history' = <<>> /\ session' = <<>> /\ phase = "ready" /\ phase' = "ready" /\ UNCHANGED <<run, resumes>>

Restores ==
  /\ history' = session /\ session' = session /\ phase' = "ready" /\ resumes' = resumes + 1
  /\ run' = IF phase = "prepared" THEN run + 1 ELSE run

LEMMA AppendTwo ==
  ASSUME NEW T, NEW s \in Seq(T), NEW a \in T, NEW b \in T
  PROVE  s \o <<a, b>> = Append(Append(s, a), b)
<1>1. /\ Append(Append(s, a), b) \in Seq(T) /\ s \o <<a, b>> \in Seq(T)
      /\ Len(Append(Append(s, a), b)) = Len(s) + 2 /\ Len(s \o <<a, b>>) = Len(s) + 2
  OBVIOUS
<1>2. \A i \in 1 .. Len(s) + 2 : (s \o <<a, b>>)[i] = Append(Append(s, a), b)[i]
  OBVIOUS
<1>3. ASSUME NEW u \in Seq(T), NEW v \in Seq(T), Len(u) = Len(v), \A i \in 1 .. Len(u) : u[i] = v[i]
      PROVE  u = v
  BY <1>3, SeqEqual
<1>4. QED BY <1>1, <1>2, <1>3

LEMMA CompressionIs ==
  ASSUME NEW s, CompressHistory(s), s \in 0 .. Len(history)
  PROVE  /\ s \in 1 .. Len(history)
         /\ history' = <<Summary>> \o SubSeq(history, s + 1, Len(history)) /\ session' = history'
<1>1. s > 0
  BY DEF CompressHistory
<1>2. s \in 1 .. Len(history)
  BY <1>1
<1>3. QED BY <1>2 DEF CompressHistory

(* Whatever the step, one of nine things happens to history and session.   *)
LEMMA StepTalks ==
  ASSUME TypeInv, TurnStarts, [Next]_vars
  PROVE  \/ Quiet \/ Speaks \/ Replies \/ Asks \/ Prompts \/ Begins
         \/ (\E s : Compresses(s)) \/ Wipes \/ Restores
<1> USE DEF runVars, talkVars, retryVars, batchVars
<1>1. /\ history \in Seq(Message) /\ session \in Seq(Message) /\ PlainTypes /\ RunsUsed
      /\ Len(history) \in Nat
  BY TypesInParts, LenProperties DEF TypeInv
<1>2. run \in 0 .. 2 * MaxTurns /\ step \in 0 .. MaxResponses /\ run \in Nat /\ step \in Nat
  BY <1>1, ConversationAssumption DEF PlainTypes
<1>3. CASE PrepareChatRequest
  <2>1. run + 1 \in 0 .. 2 * MaxTurns /\ ~retrying
    BY <1>1, <1>3, ConversationAssumption DEF PrepareChatRequest, PlainTypes, RunsUsed
  <2>2. QED BY <2>1, <1>3, InputType DEF PrepareChatRequest, Prompts
<1>4. CASE RunTurnLoop
  <2>1. run + 1 \in 0 .. 2 * MaxTurns
    BY <1>1, <1>4, ConversationAssumption DEF RunTurnLoop, PlainTypes, RunsUsed
  <2>2. QED BY <2>1, <1>4, InputType DEF RunTurnLoop, Begins
<1>5. CASE HardLimitReached \/ RequestFails \/ RespondCheckCancelled
  BY <1>5 DEF HardLimitReached, RequestFails, RespondCheckCancelled, Responding, Requesting, RunReturns,
     RunFails, Quiet, Running
<1>6. ASSUME Responding PROVE step + 1 \in 0 .. MaxResponses
  BY <1>2, <1>6, ConversationAssumption DEF Responding
<1>7. CASE RespondWithCalls
  <2>1. PICK n \in 1 .. MaxCalls :
          /\ \E a \in 1 .. n + 1 : batch' = [calls |-> n, abortFrom |-> a, next |-> 1]
          /\ history' = Append(history, Said("calls", step + 1, n))
          /\ session' = Append(session, Said("calls", step + 1, n))
    BY <1>7 DEF RespondWithCalls
  <2>2. batch'.calls = n /\ batch'.next = 1
    BY <2>1
  <2>3. n \in 0 .. MaxCalls /\ "calls" \in Kinds /\ n \in Nat
    BY ConversationAssumption DEF Kinds
  <2>4. Said("calls", step + 1, n) \in Message
    BY <1>2, <1>6, <1>7, <2>3, SaidType DEF RespondWithCalls
  <2>5. QED BY <1>7, <2>1, <2>2, <2>3, <2>4 DEF RespondWithCalls, Responding, Requesting, Asks
<1>8. ASSUME Responding, step' = step + 1
      PROVE  /\ Said("answer", step + 1, 0) \in Message /\ OfTalk(Said("answer", step + 1, 0))
             /\ Said("retry", step + 1, 0) \in Message /\ OfTalk(Said("retry", step + 1, 0))
             /\ Said("retry", step + 1, 0) # Said("answer", step + 1, 0)
  <2>1. "answer" \in Kinds /\ "retry" \in Kinds /\ 0 \in 0 .. MaxCalls
    BY ConversationAssumption DEF Kinds
  <2>2. Said("answer", step + 1, 0) \in Message /\ Said("retry", step + 1, 0) \in Message
    BY <1>2, <1>6, <1>8, <2>1, SaidType
  <2>3. QED BY <2>2, <1>8 DEF OfTalk, Said
<1>9. CASE RespondFinally \/ RespondWithPlan
  <2>1. /\ UNCHANGED <<run, resumes, turnStart, attempted>>
        /\ phase = "request" /\ step' = step + 1 /\ phase' \in {"request", "ready", "final"}
        /\ history' = Append(history, Said("answer", step + 1, 0))
        /\ session' \in {session, Append(session, Said("answer", step + 1, 0))}
        /\ Responding
    BY <1>9 DEF RespondFinally, RespondWithPlan, Responding, Requesting, RunReturns
  <2>2. QED BY <2>1, <1>8 DEF Speaks
<1>10. CASE RespondCheckFailed
  <2>1. /\ UNCHANGED <<run, resumes, turnStart, attempted>>
        /\ phase = "request" /\ step' = step + 1 /\ phase' \in {"request", "ready", "final"}
        /\ history' = history \o <<Said("answer", step + 1, 0), Said("retry", step + 1, 0)>>
        /\ session' = session
        /\ Responding
    BY <1>10 DEF RespondCheckFailed, Responding, Requesting, RunReturns
  <2>2. history' = Append(Append(history, Said("answer", step + 1, 0)), Said("retry", step + 1, 0))
    BY <1>1, <1>8, <2>1, AppendTwo
  <2>3. QED BY <2>1, <2>2, <1>8 DEF Speaks
<1>11. CompressionSplit \in 0 .. Len(history)
  BY <1>1, CompressionSplitInside, ConversationAssumption DEF CompressionSplit
<1>12. CASE TokenLimitCompressed
  BY <1>11, <1>12, CompressionIs DEF TokenLimitCompressed, Requesting, Compresses
<1>13. CASE AfterTurn \/ CompressCommand
  <2>1. CASE CompressHistory(CompressionSplit)
    BY <1>11, <1>13, <2>1, CompressionIs DEF AfterTurn, CompressCommand, Compresses
  <2>2. CASE AfterTurn /\ UNCHANGED talkVars
    BY <2>2 DEF AfterTurn, Quiet, Running
  <2>3. QED BY <1>13, <2>1, <2>2 DEF AfterTurn, CompressCommand
<1>14. CASE ClearCommand
  BY <1>14 DEF ClearCommand, Wipes
<1>15. CASE Deliver
  <2>1. /\ UNCHANGED <<run, resumes, turnStart, attempted, phase, step>>
        /\ Delivering /\ Delivered
        /\ \/ history' = Append(history, Reply) /\ session' \in {session, Append(session, Reply)}
           \/ history' = history \o <<Reply, CommentOn>> /\ session' = session
    BY <1>15 DEF Deliver, DeliverLoopAbort, DeliverResult, DeliverStrReplaceError, DeliverComment,
       DeliveryLeaves, StoreResult, CommentOn
  <2>2. batch.next \in 0 .. MaxCalls /\ "reply" \in Kinds /\ "comment" \in Kinds
    BY <2>1, <1>1, ConversationAssumption, SMTT(40) DEF Delivering, PlainTypes, Batches, Kinds
  <2>3. Reply \in Message /\ CommentOn \in Message
    BY <1>2, <2>2, SaidType DEF Reply, CommentOn
  <2>4. history \o <<Reply, CommentOn>> = Append(Append(history, Reply), CommentOn)
    BY <1>1, <2>3, AppendTwo
  <2>5. QED BY <2>1, <2>3, <2>4 DEF Replies
<1>16. CASE BatchReturns
  <2>1. /\ UNCHANGED <<run, resumes, turnStart, attempted, step>>
        /\ phase = "deliver" /\ batch.next > batch.calls
        /\ phase' \in {"ready", "after"} /\ session' = session
        /\ history' \in {history, Append(history, Said("retry", step, 0))}
    BY <1>16 DEF BatchReturns, RunFails, HandleFailure
  <2>2. "retry" \in Kinds /\ 0 \in 0 .. MaxCalls
    BY ConversationAssumption DEF Kinds
  <2>3. Said("retry", step, 0) \in Message
    BY <1>2, <2>2, SaidType
  <2>4. OfTalk(Said("retry", step, 0))
    BY <2>1, <2>3 DEF OfTalk, Said
  <2>5. CASE history' = history
    BY <2>1, <2>5 DEF Quiet, Running
  <2>6. CASE history' = Append(history, Said("retry", step, 0))
    BY <2>1, <2>3, <2>4, <2>6 DEF Speaks
  <2>7. QED BY <2>1, <2>5, <2>6
<1>17. CASE AfterToolResults
  <2>1. CASE UNCHANGED talkVars
    BY <1>17, <2>1 DEF AfterToolResults, RunFails, Quiet, Running
  <2>2. CASE ~ UNCHANGED talkVars
    <3>1. /\ UNCHANGED <<run, resumes, step, turnStart>>
          /\ phase = "after" /\ phase' = "request" /\ ~attempted /\ attempted' = TRUE
          /\ CompressHistory(InTurnSplit)
      BY <1>17, <2>2 DEF AfterToolResults
    <3>2. /\ turnStart \in Nat /\ turnStart < Len(history) /\ history[turnStart + 1] = Input(run)
      BY <1>1, <3>1 DEF TurnStarts, PlainTypes, Running
    <3>3. ~IsReply(history[turnStart + 1])
      BY <3>2 DEF IsReply, Input
    <3>4. InTurnSplit \in 0 .. turnStart
      BY <1>1, <3>2, <3>3, InTurnSplitInside, ConversationAssumption DEF InTurnSplit
    <3>5. InTurnSplit \in 0 .. Len(history)
      BY <1>1, <3>2, <3>4
    <3>6. QED BY <3>1, <3>5, CompressionIs DEF Compresses
  <2>3. QED BY <2>1, <2>2
<1>18. CASE Cancel \/ UNCHANGED vars
  BY <1>18 DEF Cancel, vars, Quiet
<1>19. CASE RestoreSessionConversation
  BY <1>19 DEF RestoreSessionConversation, Restores
<1>20. QED BY <1>3, <1>4, <1>5, <1>7, <1>9, <1>10, <1>12, <1>13, <1>14, <1>15, <1>16, <1>17, <1>18, <1>19
  DEF Next, Agent, Respond

----------------------------------------------------------------------------
(***************************************************************************)
(***************************************************************************)

-----------------------------------------------------------------------------
(* Elements. *)

(* One more element.                                                       *)
LEMMA AppendElems ==
  ASSUME NEW T, NEW s \in Seq(T), NEW e \in T
  PROVE  Elems(Append(s, e)) = Elems(s) \cup {e}
<1>1. PICK t : t = Append(s, e) /\ t \in Seq(T) /\ Len(t) = Len(s) + 1 /\ t[Len(s) + 1] = e
                 /\ \A i \in 1 .. Len(s) : t[i] = s[i]
  <2>1. /\ Append(s, e) \in Seq(T) /\ Len(Append(s, e)) = Len(s) + 1 /\ Append(s, e)[Len(s) + 1] = e
        /\ \A i \in 1 .. Len(s) : Append(s, e)[i] = s[i]
    BY AppendProperties
  <2>2. QED BY <2>1
<1>2. DOMAIN t = 1 .. Len(t) /\ DOMAIN s = 1 .. Len(s) /\ Len(s) \in Nat
  BY <1>1, LenProperties
<1>3. Elems(t) = Elems(s) \cup {e}
  BY <1>1, <1>2 DEF Elems
<1>4. QED BY <1>1, <1>3

LEMMA ElemsType ==
  ASSUME NEW T, NEW s \in Seq(T)
  PROVE  /\ Elems(s) \subseteq T /\ s \in Seq(Elems(s))
         /\ \A e : e \in Elems(s) <=> \E k \in 1 .. Len(s) : s[k] = e
<1>1. DOMAIN s = 1 .. Len(s) /\ Len(s) \in Nat /\ \A k \in 1 .. Len(s) : s[k] \in T
  BY LenProperties, ElementOfSeq
<1>2. s \in Seq(Elems(s))
  <2>1. \A k \in 1 .. Len(s) : s[k] \in Elems(s)
    BY <1>1 DEF Elems
  <2>2. s = [k \in 1 .. Len(s) |-> s[k]]
    BY LenProperties
  <2>3. QED BY <1>1, <2>1, <2>2, IsASeq
<1>3. QED BY <1>1, <1>2 DEF Elems

LEMMA NoElems == Elems(<<>>) = {}
BY DEF Elems

(* What compression leaves. *)
Compressed(h, s) == <<Summary>> \o SubSeq(h, s + 1, Len(h))

(* Its length and its elements one by one.                                 *)
LEMMA CompressedIs ==
  ASSUME NEW h \in Seq(Message), NEW s \in 1 .. Len(h)
  PROVE  /\ Compressed(h, s) \in Seq(Message)
         /\ Len(Compressed(h, s)) = Len(h) - s + 1
         /\ Compressed(h, s)[1] = Summary
         /\ \A i \in 2 .. Len(h) - s + 1 : Compressed(h, s)[i] = h[i + s - 1]
<1>1. PICK a : a = <<Summary>> /\ a \in Seq(Message) /\ Len(a) = 1 /\ a[1] = Summary
  <2>1. ASSUME NEW T, NEW x \in T PROVE <<x>> \in Seq(T) /\ Len(<<x>>) = 1 /\ <<x>>[1] = x
    OBVIOUS
  <2>2. <<Summary>> \in Seq(Message) /\ Len(<<Summary>>) = 1 /\ <<Summary>>[1] = Summary
    BY <2>1, SummaryType
  <2>3. QED BY <2>2
<1>2. PICK b : /\ b = SubSeq(h, s + 1, Len(h)) /\ b \in Seq(Message) /\ Len(b) = Len(h) - s
               /\ \A i \in 1 .. Len(h) - s : b[i] = h[i + s]
  <2>1. ASSUME NEW b, b = SubSeq(h, s + 1, Len(h))
        PROVE  b \in Seq(Message) /\ Len(b) = Len(h) - s /\ \A i \in 1 .. Len(h) - s : b[i] = h[i + s]
    BY <2>1
  <2>2. QED BY <2>1
<1>3. PICK c : c = a \o b /\ c \in Seq(Message) /\ Len(c) = Len(a) + Len(b)
                 /\ \A i \in 1 .. Len(a) + Len(b) : c[i] = IF i <= Len(a) THEN a[i] ELSE b[i - Len(a)]
  <2>1. a \in Seq(Message) /\ b \in Seq(Message)
    BY <1>1, <1>2
  <2>2. /\ a \o b \in Seq(Message) /\ Len(a \o b) = Len(a) + Len(b)
        /\ \A i \in 1 .. Len(a) + Len(b) : (a \o b)[i] = IF i <= Len(a) THEN a[i] ELSE b[i - Len(a)]
    BY <2>1, ConcatProperties
  <2>3. QED BY <2>2
<1>4. Len(h) \in Nat /\ s \in Nat /\ s >= 1 /\ s <= Len(h)
  BY LenProperties
<1>5. Len(c) = Len(h) - s + 1 /\ c[1] = Summary
  BY <1>1, <1>2, <1>3, <1>4
<1>6. ASSUME NEW i \in 2 .. Len(h) - s + 1 PROVE c[i] = h[i + s - 1]
  <2>1. i \in 1 .. Len(a) + Len(b) /\ ~(i <= Len(a)) /\ i - Len(a) = i - 1 /\ i - 1 \in 1 .. Len(h) - s
    BY <1>1, <1>2, <1>4
  <2>2. c[i] = b[i - 1]
    BY <1>3, <2>1
  <2>3. b[i - 1] = h[(i - 1) + s] /\ (i - 1) + s = i + s - 1
    BY <1>2, <1>4, <2>1
  <2>4. QED BY <2>2, <2>3
<1>7. QED BY <1>1, <1>2, <1>3, <1>5, <1>6 DEF Compressed

(* The same, as a sequence to speak of. *)
LEMMA CompressedHas ==
  ASSUME NEW h \in Seq(Message), NEW s \in 1 .. Len(h)
  PROVE  \E c : /\ c = Compressed(h, s) /\ c \in Seq(Message) /\ Len(c) = Len(h) - s + 1 /\ c[1] = Summary
               /\ \A j \in 2 .. Len(h) - s + 1 : c[j] = h[j + s - 1]
<1> DEFINE c == Compressed(h, s)
<1>1. /\ c \in Seq(Message) /\ Len(c) = Len(h) - s + 1 /\ c[1] = Summary
      /\ \A j \in 2 .. Len(h) - s + 1 : c[j] = h[j + s - 1]
  BY CompressedIs, ZenonT(40)
<1>2. c = Compressed(h, s)
  OBVIOUS
<1> HIDE DEF c
<1>3. QED BY <1>1, <1>2

(* Its elements are the summary and elements of the compressed history.    *)
LEMMA CompressedElems ==
  ASSUME NEW h \in Seq(Message), NEW s \in 1 .. Len(h)
  PROVE  Elems(Compressed(h, s)) \subseteq Elems(h) \cup {Summary}
<1>1. PICK c : /\ c = Compressed(h, s) /\ c \in Seq(Message) /\ Len(c) = Len(h) - s + 1 /\ c[1] = Summary
               /\ \A j \in 2 .. Len(h) - s + 1 : c[j] = h[j + s - 1]
  BY CompressedHas, Zenon
<1>2. SUFFICES ASSUME NEW e \in Elems(c) PROVE e \in Elems(h) \cup {Summary}
  BY <1>1
<1>3. PICK k \in 1 .. Len(c) : c[k] = e
  BY <1>1, ElemsType
<1>4. CASE k = 1
  BY <1>1, <1>3, <1>4
<1>5. CASE k # 1
  <2>1. k \in 2 .. Len(h) - s + 1 /\ k + s - 1 \in 1 .. Len(h)
    BY <1>1, <1>5, LenProperties
  <2>2. e = h[k + s - 1]
    BY <1>1, <1>3, <2>1
  <2>3. QED BY <2>1, <2>2, ElemsType
<1>6. QED BY <1>4, <1>5

-----------------------------------------------------------------------------
(* Types hold in every state. *)

Talks ==
  \/ Quiet \/ Speaks \/ Replies \/ Asks \/ Prompts \/ Begins
  \/ (\E s : Compresses(s)) \/ Wipes \/ Restores

LEMMA TalkTypes ==
  ASSUME history \in Seq(Message), session \in Seq(Message), Talks
  PROVE  history' \in Seq(Message) /\ session' \in Seq(Message)
<1>1. \A s \in Seq(Message) : \A m \in Message : Append(s, m) \in Seq(Message)
  BY AppendProperties
<1>2. CASE Quiet \/ Wipes \/ Restores
  BY <1>2, EmptySeq DEF Quiet, Wipes, Restores
<1>3. CASE Speaks
  BY <1>1, <1>3 DEF Speaks
<1>4. CASE Replies
  BY <1>1, <1>4 DEF Replies
<1>5. CASE Asks \/ Prompts \/ Begins
  BY <1>1, <1>5 DEF Asks, Prompts, Begins
<1>6. CASE \E s : Compresses(s)
  BY <1>6, CompressedIs DEF Compresses, Compressed
<1>7. QED BY <1>2, <1>3, <1>4, <1>5, <1>6 DEF Talks

OfBatch(m) == m.run = run /\ m.step = step

(* Messages are numbered in the order they are said. *)
HistoryNumbered == \A m \in Elems(history) : m.run <= run
SessionNumbered == \A m \in Elems(session) : m.run <= IF phase = "prepared" THEN run + 1 ELSE run
RunNumbered == phase \in Running => \A m \in Elems(history) : m.run = run => m.step <= step
BatchNumbered ==
  phase = "deliver" => \A m \in Elems(history) : OfBatch(m) =>
    m.kind = "calls" \/ (m.kind \in {"reply", "comment"} /\ m.n < batch.next)

Numbered == HistoryNumbered /\ SessionNumbered /\ RunNumbered /\ BatchNumbered

(* One message more. *)
LEMMA MoreElems ==
  ASSUME NEW s \in Seq(Message), NEW m \in Message, NEW n \in Message
  PROVE  /\ Elems(Append(s, m)) = Elems(s) \cup {m}
         /\ Elems(Append(Append(s, m), n)) = Elems(s) \cup {m, n}
<1>1. Append(s, m) \in Seq(Message)
  BY AppendProperties
<1>2. Elems(Append(s, m)) = Elems(s) \cup {m}
  BY AppendElems
<1>3. PICK t : t = Append(s, m) /\ t \in Seq(Message) /\ Elems(t) = Elems(s) \cup {m}
  BY <1>1, <1>2
<1>6. \A r \in Seq(Message) : \A e \in Message : Elems(Append(r, e)) = Elems(r) \cup {e}
  BY AppendElems
<1>4. Elems(Append(t, n)) = Elems(t) \cup {n}
  BY <1>3, <1>6
<1>5. QED BY <1>2, <1>3, <1>4

LEMMA MessageFields ==
  ASSUME NEW m \in Message
  PROVE  m.run \in Nat /\ m.step \in Nat /\ m.n \in Nat /\ m.kind \in Kinds
BY ConversationAssumption DEF Message

(* A response is numbered higher than all before it in its run, and a run  *)
(* higher than all runs before it.                                         *)
LEMMA NumberedNext ==
  ASSUME TypeInv, Numbered, Talks
  PROVE  Numbered'
<1>0. /\ history \in Seq(Message) /\ session \in Seq(Message)
      /\ run \in Nat /\ step \in Nat /\ batch.next \in Nat /\ batch.next <= batch.calls + 1
      /\ batch \in Batches
  BY TypesInParts, ConversationAssumption, SMTT(30) DEF TypeInv, PlainTypes, RunsUsed, Batches
<1>1. /\ \A m \in Elems(history) : m \in Message /\ m.run \in Nat /\ m.step \in Nat /\ m.n \in Nat
      /\ \A m \in Elems(session) : m \in Message /\ m.run \in Nat
  BY <1>0, ElemsType, MessageFields
<1> USE DEF Numbered, HistoryNumbered, SessionNumbered, RunNumbered, BatchNumbered, OfBatch
<1>2. CASE Quiet
  BY <1>0, <1>1, <1>2 DEF Quiet, Running
<1>3. CASE Speaks
  <2>1. PICK m \in Message, n \in Message :
          /\ OfTalk(m) /\ OfTalk(n)
          /\ Elems(history') \subseteq Elems(history) \cup {m, n}
          /\ Elems(session') \subseteq Elems(session) \cup {m}
    <3>1. PICK m \in Message :
            /\ OfTalk(m)
            /\ \/ history' = Append(history, m) /\ session' \in {session, Append(session, m)}
               \/ \E n \in Message :
                    /\ OfTalk(n) /\ n # m
                    /\ history' = Append(Append(history, m), n) /\ session' = session
      BY <1>3 DEF Speaks
    <3>2. CASE history' = Append(history, m) /\ session' \in {session, Append(session, m)}
      <4>1. /\ Elems(Append(history, m)) = Elems(history) \cup {m}
            /\ Elems(Append(session, m)) = Elems(session) \cup {m}
        BY <1>0, AppendElems
      <4>2. QED BY <3>1, <3>2, <4>1
    <3>3. CASE \E n \in Message :
                 /\ OfTalk(n) /\ n # m
                 /\ history' = Append(Append(history, m), n) /\ session' = session
      BY <1>0, <3>1, <3>3, MoreElems
    <3>4. QED BY <3>1, <3>2, <3>3
  <2>2. run' = run /\ step' \in Nat /\ step' >= step /\ phase \in Running /\ phase # "prepared"
        /\ phase' # "prepared" /\ phase' # "deliver"
    BY <1>0, <1>3 DEF Speaks, Running
  <2>3. QED BY <1>0, <1>1, <2>1, <2>2, SMTT(30) DEF OfTalk
<1>4. CASE Replies
  <2>5. PICK r \in Message, c \in Message :
          /\ r = Reply /\ c = CommentOn
          /\ \/ history' = Append(history, r) /\ session' \in {session, Append(session, r)}
             \/ history' = Append(Append(history, r), c) /\ session' = session
    BY <1>4 DEF Replies
  <2>1. /\ Elems(history') \subseteq Elems(history) \cup {r, c}
        /\ Elems(session') \subseteq Elems(session) \cup {r}
    <3>1. CASE history' = Append(history, r) /\ session' \in {session, Append(session, r)}
      <4>1. /\ Elems(Append(history, r)) = Elems(history) \cup {r}
            /\ Elems(Append(session, r)) = Elems(session) \cup {r}
        BY <1>0, AppendElems
      <4>2. QED BY <3>1, <4>1
    <3>2. CASE history' = Append(Append(history, r), c) /\ session' = session
      BY <1>0, <3>2, MoreElems
    <3>3. QED BY <2>5, <3>1, <3>2
  <2>6. UNCHANGED <<run, step, phase>> /\ phase = "deliver"
    BY <1>4 DEF Replies, Delivering
  <2>2. batch'.next = batch.next + 1
    BY <1>0, <1>4 DEF Replies, Delivered, Batches
  <2>3. /\ r.run = run /\ r.step = step /\ r.kind = "reply" /\ r.n = batch.next
        /\ c.run = run /\ c.step = step /\ c.kind = "comment" /\ c.n = batch.next
    BY <2>5 DEF Reply, CommentOn, Said
  <2>7. HistoryNumbered'
    BY <1>0, <1>1, <2>1, <2>6, <2>3
  <2>8. SessionNumbered'
    BY <1>0, <1>1, <2>1, <2>6, <2>3
  <2>9. RunNumbered'
    BY <1>0, <1>1, <2>1, <2>6, <2>3 DEF Running
  <2>10. BatchNumbered'
    <3>1. SUFFICES ASSUME NEW m \in Elems(history'), m.run = run, m.step = step
          PROVE  m.kind = "calls" \/ (m.kind \in {"reply", "comment"} /\ m.n < batch'.next)
      BY <2>6
    <3>2. CASE m \in {r, c}
      BY <1>0, <2>2, <2>3, <3>2
    <3>3. CASE m \in Elems(history)
      <4>1. m.kind = "calls" \/ (m.kind \in {"reply", "comment"} /\ m.n < batch.next)
        BY <2>6, <3>1, <3>3
      <4>2. QED BY <1>0, <1>1, <2>2, <3>3, <4>1
    <3>4. QED BY <2>1, <3>1, <3>2, <3>3
  <2>4. QED BY <2>7, <2>8, <2>9, <2>10
<1>5. CASE Asks
  <2>1. PICK m \in Message : /\ m = Said("calls", step + 1, batch'.calls)
          /\ history' = Append(history, m) /\ session' = Append(session, m)
    BY <1>5 DEF Asks
  <2>2. Elems(history') = Elems(history) \cup {m} /\ Elems(session') = Elems(session) \cup {m}
    BY <1>0, <2>1, MoreElems
  <2>3. m.run = run /\ m.step = step + 1 /\ m.kind = "calls"
    BY <2>1 DEF Said
  <2>4. run' = run /\ step' = step + 1 /\ phase' = "deliver" /\ phase = "request"
    BY <1>5 DEF Asks
  <2>5. QED BY <1>0, <1>1, <2>2, <2>3, <2>4 DEF Running
<1>6. CASE Prompts
  <2>1. Elems(session') = Elems(session) \cup {Input(run + 1)}
    BY <1>0, <1>6, MoreElems DEF Prompts
  <2>2. QED BY <1>0, <1>1, <1>6, <2>1 DEF Prompts, Input, Running
<1>7. CASE Begins
  <2>1. Elems(history') = Elems(history) \cup {Input(run + 1)}
    BY <1>0, <1>7, MoreElems DEF Begins
  <2>2. QED BY <1>0, <1>1, <1>7, <2>1 DEF Begins, Input
<1>8. ASSUME NEW s, Compresses(s) PROVE Numbered'
  <2>1. Elems(history') \subseteq Elems(history) \cup {Summary} /\ session' = history'
    BY <1>0, <1>8, CompressedElems DEF Compresses, Compressed
  <2>2. run' = run /\ step' = step /\ phase' # "deliver" /\ phase # "prepared"
        /\ (phase' \in Running => phase \in Running)
    BY <1>8 DEF Compresses, Running
  <2>3. QED BY <1>0, <1>1, <2>1, <2>2 DEF Summary
<1>9. CASE Wipes
  BY <1>0, <1>9, NoElems DEF Wipes, Running
<1>10. CASE Restores
  BY <1>0, <1>1, <1>10 DEF Restores, Running
<1>11. QED BY <1>2, <1>3, <1>4, <1>5, <1>6, <1>7, <1>8, <1>9, <1>10 DEF Talks

LEMMA TurnStartsNext ==
  ASSUME TypeInv, HistoryNumbered, TurnStarts, Talks
  PROVE  TurnStarts'
<1>0. /\ history \in Seq(Message) /\ run \in Nat /\ turnStart \in Nat
  BY TypesInParts, ConversationAssumption DEF TypeInv, PlainTypes
<1>1. ASSUME NEW m \in Message
      PROVE  /\ Append(history, m) \in Seq(Message)
             /\ Len(Append(history, m)) = Len(history) + 1 /\ Len(history) \in Nat
             /\ \A i \in 1 .. Len(history) : Append(history, m)[i] = history[i]
             /\ Append(history, m)[Len(history) + 1] = m
  BY <1>0, AppendProperties, LenProperties
(* A longer history starts like the shorter one. *)
<1>2. ASSUME UNCHANGED <<run, turnStart, attempted>>, phase \in Running, Len(history') \in Nat,
             Len(history') >= Len(history), \A i \in 1 .. Len(history) : history'[i] = history[i]
      PROVE  TurnStarts'
  <2>1. Len(history) \in Nat
    BY <1>0, LenProperties
  <2>2. QED BY <1>0, <1>2, <2>1, SMTT(30) DEF TurnStarts
<1>3. ASSUME NEW m \in Message, history' = Append(history, m),
             UNCHANGED <<run, turnStart, attempted>>, phase \in Running
      PROVE  TurnStarts'
  BY <1>1, <1>2, <1>3
<1>4. ASSUME NEW m \in Message, NEW n \in Message, history' = Append(Append(history, m), n),
             UNCHANGED <<run, turnStart, attempted>>, phase \in Running
      PROVE  TurnStarts'
  <2>1. PICK t : /\ t = Append(history, m) /\ t \in Seq(Message) /\ Len(t) = Len(history) + 1
                 /\ \A i \in 1 .. Len(history) : t[i] = history[i]
    BY <1>1, ZenonT(60)
  <2>2. Len(Append(t, n)) = Len(t) + 1 /\ \A i \in 1 .. Len(t) : Append(t, n)[i] = t[i]
    BY <2>1, AppendProperties
  <2>3. Len(history') = Len(history) + 2 /\ Len(history) \in Nat
        /\ \A i \in 1 .. Len(history) : history'[i] = history[i]
    BY <1>4, <1>0, <2>1, <2>2, LenProperties
  <2>4. QED BY <1>2, <1>4, <2>3
<1>5. CASE Quiet
  BY <1>0, <1>5 DEF Quiet, TurnStarts
<1>6. CASE Speaks
  BY <1>3, <1>4, <1>6 DEF Speaks, Running
<1>7. CASE Replies
  BY <1>3, <1>4, <1>7 DEF Replies, Delivering, Running
<1>8. CASE Asks
  BY <1>3, <1>8 DEF Asks, Running
<1>9. CASE Prompts \/ Wipes \/ Restores
  BY <1>9 DEF Prompts, Wipes, Restores, TurnStarts, Running
<1>10. CASE Begins
  <2>1. PICK t : /\ t = history' /\ Len(t) = Len(history) + 1 /\ Len(history) \in Nat
                 /\ t[Len(history) + 1] = Input(run') /\ \A i \in 1 .. Len(history) : t[i] = history[i]
    BY <1>1, <1>10 DEF Begins
  <2>2. \A i \in 1 .. Len(history) : history[i] \in Elems(history) /\ history[i].run \in Nat
    BY <1>0, ElemsType, ElementOfSeq, MessageFields
  <2>3. \A i \in 1 .. Len(history) : history[i].run # run'
    BY <1>0, <1>10, <2>2 DEF HistoryNumbered, Begins
  <2>4. turnStart' = Len(history)
    BY <1>10 DEF Begins
  <2>5. QED BY <2>1, <2>3, <2>4 DEF TurnStarts
<1>11. ASSUME NEW s, Compresses(s) PROVE TurnStarts'
  BY <1>11 DEF Compresses, TurnStarts, Running
<1>12. QED BY <1>5, <1>6, <1>7, <1>8, <1>9, <1>10, <1>11 DEF Talks

(* The first invariant of a conversation. *)
Orderly == TypeInv /\ Numbered /\ TurnStarts

LEMMA InitOrderly == Init => Orderly
<1> SUFFICES ASSUME Init PROVE Orderly
  OBVIOUS
<1>1. Elems(history) = {} /\ Elems(session) = {} /\ phase = "ready"
  BY NoElems DEF Init
<1>2. QED BY <1>1, InitTypes DEF Orderly, Numbered, HistoryNumbered, SessionNumbered, RunNumbered,
      BatchNumbered, TurnStarts, Running

(* The first invariant is inductive, and under it each step is a talk.     *)
LEMMA OrderlyNext == Orderly /\ [Next]_vars => Orderly' /\ Talks
<1> SUFFICES ASSUME Orderly, [Next]_vars PROVE Orderly' /\ Talks
  OBVIOUS
<1>1. Talks
  BY StepTalks DEF Orderly, Talks
<1>2. history' \in Seq(Message) /\ session' \in Seq(Message)
  BY <1>1, TalkTypes, TypesInParts DEF Orderly, TypeInv
<1>3. PlainTypes' /\ RunsUsed'
  BY PlainNext DEF Orderly
<1>4. TypeInv'
  <2>1. (history \in Seq(Message) /\ session \in Seq(Message) /\ PlainTypes)'
    BY <1>2, <1>3
  <2>2. TypeOK'
    BY <2>1 DEF TypeOK, PlainTypes, Batches
  <2>3. QED BY <1>3, <2>2 DEF TypeInv
<1>5. QED BY <1>1, <1>4, NumberedNext, TurnStartsNext DEF Orderly, Numbered

----------------------------------------------------------------------------
(***************************************************************************)
(***************************************************************************)

-----------------------------------------------------------------------------
(* The session follows the history. *)

Follows(s, h) == s = Only(h, Elems(s))

LEMMA FollowsItself == ASSUME NEW h \in Seq(Message) PROVE Follows(h, h)
<1>1. h \in Seq(Elems(h))
  BY ElemsType
<1>2. QED BY <1>1, OnlyAll DEF Follows

(* What is said is new. *)
LEMMA FollowersWithin ==
  ASSUME NEW s \in Seq(Message), NEW h \in Seq(Message), Follows(s, h)
  PROVE  Elems(s) \subseteq Elems(h)
<1>1. \A e : (\E k \in 1 .. Len(Only(h, Elems(s))) : Only(h, Elems(s))[k] = e)
               <=> e \in Elems(s) /\ \E i \in 1 .. Len(h) : h[i] = e
  BY OnlyElements
<1>2. \A e : (\E k \in 1 .. Len(s) : s[k] = e) => \E i \in 1 .. Len(h) : h[i] = e
  BY <1>1 DEF Follows
<1>3. /\ \A e : e \in Elems(s) <=> \E k \in 1 .. Len(s) : s[k] = e
      /\ \A e : e \in Elems(h) <=> \E k \in 1 .. Len(h) : h[k] = e
  <2>1. \A r \in Seq(Message) : \A e : e \in Elems(r) <=> \E k \in 1 .. Len(r) : r[k] = e
    BY ElemsType
  <2>2. QED BY <2>1
<1>4. QED BY <1>2, <1>3

(* Both are told the same, or one message is in one of them only.          *)
LEMMA FollowsWhenTold ==
  ASSUME NEW s \in Seq(Message), NEW h \in Seq(Message), NEW m \in Message,
         Follows(s, h), m \notin Elems(h)
  PROVE  /\ Follows(Append(s, m), Append(h, m))
         /\ Follows(s, Append(h, m))
<1>1. Elems(Append(s, m)) = Elems(s) \cup {m}
  BY AppendElems
<1>2. m \notin Elems(s)
  BY FollowersWithin
<1>3. /\ Only(Append(h, m), Elems(s)) = Only(h, Elems(s))
      /\ Only(Append(h, m), Elems(s) \cup {m}) = Append(Only(h, Elems(s) \cup {m}), m)
  <2>1. \A S : Only(Append(h, m), S) = IF m \in S THEN Append(Only(h, S), m) ELSE Only(h, S)
    BY OnlyAppend
  <2>2. m \in Elems(s) \cup {m}
    OBVIOUS
  <2>3. Only(Append(h, m), Elems(s)) = Only(h, Elems(s))
    BY <1>2, <2>1
  <2>4. QED BY <2>1, <2>2, <2>3
<1>4. Only(h, Elems(s) \cup {m}) = Only(h, Elems(s))
  <2>1. Elems(h) \cap (Elems(s) \cup {m}) = Elems(h) \cap Elems(s) /\ h \in Seq(Elems(h))
    BY ElemsType
  <2>2. QED BY <2>1, OnlySame
<1>5. QED BY <1>1, <1>3, <1>4 DEF Follows

(* The session of a prompt whose input has not come to the history yet has *)
(* one message more.                                                       *)
SessionIs ==
  IF phase = "prepared" /\ ~retrying
  THEN \E s \in Seq(Message) : session = Append(s, Input(run + 1)) /\ Follows(s, history)
  ELSE Follows(session, history)

LEMMA SessionIsNext ==
  ASSUME Orderly, SessionIs, Talks
  PROVE  SessionIs'
<1>0. /\ history \in Seq(Message) /\ session \in Seq(Message)
      /\ run \in Nat /\ step \in Nat /\ batch.next \in Nat
      /\ \A m \in Elems(history) : m.run <= run /\ m.run \in Nat /\ m.step \in Nat /\ m.n \in Nat
  <2>1. /\ history \in Seq(Message) /\ session \in Seq(Message)
        /\ run \in Nat /\ step \in Nat /\ batch.next \in Nat
    BY TypesInParts, ConversationAssumption, SMTT(30) DEF Orderly, TypeInv, PlainTypes, Batches
  <2>2. \A m \in Elems(history) : m \in Message
    BY <2>1, ElemsType
  <2>3. QED BY <2>1, <2>2, MessageFields DEF Orderly, Numbered, HistoryNumbered
<1>1. ASSUME phase # "prepared" PROVE Follows(session, history)
  BY <1>1 DEF SessionIs
<1>2. ASSUME phase' # "prepared", Follows(session', history') PROVE SessionIs'
  BY <1>2 DEF SessionIs, Follows
<1>3. ASSUME NEW m \in Message, m \notin Elems(history), phase # "prepared", phase' # "prepared",
             history' = Append(history, m), session' \in {session, Append(session, m)}
      PROVE  SessionIs'
  <2>1. Follows(session', history')
    BY <1>0, <1>1, <1>3, FollowsWhenTold
  <2>2. QED BY <1>2, <1>3, <2>1
<1>4. ASSUME NEW m \in Message, NEW n \in Message, m \notin Elems(history), n \notin Elems(history),
             m # n, phase # "prepared", phase' # "prepared",
             history' = Append(Append(history, m), n), session' = session
      PROVE  SessionIs'
  <2>1. PICK t : t = Append(history, m) /\ t \in Seq(Message) /\ Elems(t) = Elems(history) \cup {m}
    <3>1. Append(history, m) \in Seq(Message) /\ Elems(Append(history, m)) = Elems(history) \cup {m}
      BY <1>0, AppendElems, AppendProperties
    <3>2. QED BY <3>1
  <2>2. Follows(session, t)
    BY <1>0, <1>1, <1>4, <2>1, FollowsWhenTold
  <2>3. Follows(session, Append(t, n))
    <3>1. n \notin Elems(t)
      BY <1>4, <2>1
    <3>2. \A h \in Seq(Message) : \A m1 \in Message :
            Follows(session, h) /\ m1 \notin Elems(h) => Follows(session, Append(h, m1))
      BY <1>0, FollowsWhenTold
    <3>3. QED BY <2>1, <2>2, <3>1, <3>2
  <2>4. QED BY <1>2, <1>4, <2>1, <2>3
<1>5. CASE Quiet
  BY <1>5 DEF Quiet, SessionIs, Follows
<1>6. CASE Speaks
  <2>1. PICK m \in Message :
          /\ OfTalk(m)
          /\ \/ history' = Append(history, m) /\ session' \in {session, Append(session, m)}
             \/ \E n \in Message :
                  /\ OfTalk(n) /\ n # m
                  /\ history' = Append(Append(history, m), n) /\ session' = session
    BY <1>6 DEF Speaks
  <2>2. phase # "prepared" /\ phase' # "prepared"
    BY <1>6 DEF Speaks
  <2>3. ASSUME NEW k \in Message, OfTalk(k) PROVE k \notin Elems(history)
    <3>1. CASE phase = "request" /\ step' = step + 1
      BY <1>0, <2>3, <3>1 DEF Orderly, Numbered, RunNumbered, Running, OfTalk
    <3>2. CASE phase = "deliver" /\ step' = step
      BY <1>0, <2>3, <3>2 DEF Orderly, Numbered, BatchNumbered, OfBatch, OfTalk
    <3>3. QED BY <1>6, <3>1, <3>2 DEF Speaks
  <2>4. CASE history' = Append(history, m) /\ session' \in {session, Append(session, m)}
    BY <1>3, <2>1, <2>2, <2>3, <2>4
  <2>5. CASE \E n \in Message :
               /\ OfTalk(n) /\ n # m
               /\ history' = Append(Append(history, m), n) /\ session' = session
    BY <1>4, <2>1, <2>2, <2>3, <2>5
  <2>6. QED BY <2>1, <2>4, <2>5
<1>7. CASE Replies
  <2>1. PICK r \in Message, c \in Message :
          /\ r = Reply /\ c = CommentOn
          /\ \/ history' = Append(history, r) /\ session' \in {session, Append(session, r)}
             \/ history' = Append(Append(history, r), c) /\ session' = session
    BY <1>7 DEF Replies
  <2>2. /\ r.run = run /\ r.step = step /\ r.kind = "reply" /\ r.n = batch.next
        /\ c.run = run /\ c.step = step /\ c.kind = "comment" /\ c.n = batch.next
    BY <2>1 DEF Reply, CommentOn, Said
  <2>3. phase = "deliver" /\ phase' = "deliver"
    BY <1>7 DEF Replies, Delivering
  <2>4. ASSUME NEW k \in Elems(history) PROVE k # r /\ k # c
    <3>1. k.n \in Nat /\ (OfBatch(k) => k.kind = "calls" \/ (k.kind \in {"reply", "comment"} /\ k.n < batch.next))
      BY <1>0, <2>3, <2>4 DEF Orderly, Numbered, BatchNumbered
    <3>2. QED BY <1>0, <2>2, <3>1 DEF OfBatch
  <2>5. r # c /\ phase # "prepared" /\ phase' # "prepared"
    BY <2>2, <2>3
  <2>6. r \notin Elems(history) /\ c \notin Elems(history)
    BY <2>4
  <2>7. QED BY <1>3, <1>4, <2>1, <2>5, <2>6
<1>8. CASE Asks
  <2>1. PICK m \in Message :
          /\ m = Said("calls", step + 1, batch'.calls)
          /\ history' = Append(history, m) /\ session' = Append(session, m)
    BY <1>8 DEF Asks
  <2>2. m.run = run /\ m.step = step + 1 /\ phase = "request" /\ phase' = "deliver"
    BY <1>8, <2>1 DEF Asks, Said
  <2>3. m \notin Elems(history)
    BY <1>0, <2>2 DEF Orderly, Numbered, RunNumbered, Running
  <2>4. QED BY <1>3, <2>1, <2>2, <2>3
<1>9. CASE Prompts
  <2>1. phase # "prepared" /\ phase' = "prepared" /\ ~retrying' /\ run' = run /\ history' = history
        /\ session' = Append(session, Input(run + 1))
    BY <1>9 DEF Prompts
  <2>2. Follows(session, history)
    BY <1>1, <2>1
  <2>3. QED BY <1>0, <2>1, <2>2 DEF SessionIs, Follows
<1>10. CASE Begins
  <2>1. PICK m \in Message : m = Input(run + 1) /\ m.run = run + 1 /\ history' = Append(history, m)
    <3>1. Input(run + 1) \in Message /\ history' = Append(history, Input(run + 1)) /\ Input(run + 1).run = run + 1
      BY <1>10 DEF Begins, Input
    <3>2. QED BY <3>1
  <2>2. m \notin Elems(history)
    BY <1>0, <2>1
  <2>3. session' = session /\ phase = "prepared" /\ phase' # "prepared"
    BY <1>10 DEF Begins
  <2>4. Follows(session, Append(history, m))
    <3>1. CASE retrying
      <4>1. Follows(session, history)
        BY <2>3, <3>1 DEF SessionIs
      <4>2. QED BY <1>0, <2>2, <4>1, FollowsWhenTold
    <3>2. CASE ~retrying
      <4>1. PICK s \in Seq(Message) : session = Append(s, m) /\ Follows(s, history)
        BY <2>1, <2>3, <3>2 DEF SessionIs
      <4>2. Follows(Append(s, m), Append(history, m))
        BY <1>0, <2>2, <4>1, FollowsWhenTold
      <4>3. QED BY <4>1, <4>2
    <3>3. QED BY <3>1, <3>2
  <2>5. QED BY <1>2, <2>1, <2>3, <2>4
<1>11. ASSUME NEW s, Compresses(s) PROVE SessionIs'
  <2>1. history' \in Seq(Message) /\ session' = history'
    BY <1>0, <1>11, CompressedIs DEF Compresses, Compressed
  <2>2. Follows(session', history')
    BY <2>1, FollowsItself
  <2>3. ~(phase' = "prepared" /\ ~retrying')
    BY <1>11 DEF Compresses
  <2>4. QED BY <2>2, <2>3 DEF SessionIs, Follows
<1>12. CASE Wipes \/ Restores
  <2>1. history' \in Seq(Message) /\ session' = history' /\ phase' # "prepared"
    BY <1>0, <1>12, EmptySeq DEF Wipes, Restores
  <2>2. QED BY <1>2, <2>1, FollowsItself
<1>13. QED BY <1>5, <1>6, <1>7, <1>8, <1>9, <1>10, <1>11, <1>12 DEF Talks

FollowInv == Orderly /\ SessionIs

LEMMA FollowInvHolds == Spec => []FollowInv
<1>1. Init => FollowInv
  <2>1. Init => SessionIs
    BY FollowsItself, EmptySeq DEF Init, SessionIs
  <2>2. QED BY <2>1, InitOrderly DEF FollowInv
<1>2. FollowInv /\ [Next]_vars => FollowInv'
  BY OrderlyNext, SessionIsNext DEF FollowInv
<1>3. QED BY <1>1, <1>2, PTL DEF Spec

(* Type correctness of the conversation, for any number of prompts, calls  *)
(* of a response, resumes and retries. It takes the bound on runs          *)
(* (RunsUsed): the retry of a failed turn is not retried again.            *)
THEOREM ConversationTypeCorrect == Spec => []TypeOK
<1>1. FollowInv => TypeOK
  BY DEF FollowInv, Orderly, TypeInv
<1>2. QED BY <1>1, FollowInvHolds, PTL

(* What the session holds is what the history holds, message by message,   *)
(* whatever prompts, replies, compression, retries and resumed sessions    *)
(* there have been; but for the input that executePrompt puts in the       *)
(* session before it comes to the history.                                 *)
THEOREM SessionFollows == Spec => []SessionFollowsHistory
<1>1. FollowInv => SessionFollowsHistory
  BY DEF FollowInv, SessionIs, SessionFollowsHistory, Follows
<1>2. QED BY <1>1, FollowInvHolds, PTL

----------------------------------------------------------------------------
(***************************************************************************)
(***************************************************************************)

-----------------------------------------------------------------------------
(* Replies and comments come right after what they belong to. *)

Tied(h) ==
  /\ \A k \in 2 .. Len(h) : h[k].kind # "summary"
  /\ \A k \in 2 .. Len(h) : h[k].kind \in {"reply", "comment"} =>
       \/ h[k - 1].kind = "summary"
       \/ h[k - 1].kind \in {"calls", "reply", "comment"} /\ SameResponse(h[k - 1], h[k])

(* It ends within the batch of response s of run r. *)
Open(h, r, s) ==
  /\ Len(h) # 0
  /\ h[Len(h)].run = r /\ h[Len(h)].step = s
  /\ h[Len(h)].kind \in {"calls", "reply", "comment"}

TiedInv ==
  /\ Tied(history) /\ Tied(session)
  /\ phase = "deliver" => Open(history, run, step) /\ Open(session, run, step)

(* A message that comes after the others, and one that ends a batch. *)
Free(m) == m.kind \notin {"summary", "reply", "comment"}
Part(m, r, s) == m.run = r /\ m.step = s /\ m.kind \in {"calls", "reply", "comment"}

LEMMA AppendShape ==
  ASSUME NEW h \in Seq(Message), NEW m \in Message
  PROVE  /\ Append(h, m) \in Seq(Message) /\ Len(Append(h, m)) = Len(h) + 1 /\ Len(h) \in Nat
         /\ \A i \in 1 .. Len(h) : Append(h, m)[i] = h[i]
         /\ Append(h, m)[Len(h) + 1] = m
BY AppendProperties, LenProperties

LEMMA TiedAppend ==
  ASSUME NEW h \in Seq(Message), NEW m \in Message, Tied(h),
         Free(m) \/ \E r, s : m.kind \in {"reply", "comment"} /\ m.run = r /\ m.step = s /\ Open(h, r, s)
  PROVE  Tied(Append(h, m))
<1>1. PICK t : /\ t = Append(h, m) /\ Len(t) = Len(h) + 1 /\ Len(h) \in Nat
               /\ \A i \in 1 .. Len(h) : t[i] = h[i]
               /\ t[Len(h) + 1] = m
  <2>1. /\ Append(h, m) \in Seq(Message) /\ Len(Append(h, m)) = Len(h) + 1 /\ Len(h) \in Nat
        /\ \A i \in 1 .. Len(h) : Append(h, m)[i] = h[i]
        /\ Append(h, m)[Len(h) + 1] = m
    BY AppendShape
  <2>2. QED BY <2>1
<1>2. ASSUME NEW k \in 2 .. Len(t), k # Len(t)
      PROVE  k \in 2 .. Len(h) /\ t[k] = h[k] /\ t[k - 1] = h[k - 1]
  BY <1>1, <1>2
<1>3. ASSUME NEW k \in 2 .. Len(t), k = Len(t)
      PROVE  /\ t[k] = m /\ t[k].kind # "summary"
             /\ t[k].kind \in {"reply", "comment"} =>
                  t[k - 1].kind \in {"calls", "reply", "comment"} /\ SameResponse(t[k - 1], t[k])
  <2>1. t[k] = m /\ k - 1 = Len(h) /\ t[k - 1] = h[Len(h)]
    BY <1>1, <1>3
  <2>2. m.kind # "summary"
    BY DEF Free
  <2>3. ASSUME m.kind \in {"reply", "comment"}
        PROVE  h[Len(h)].kind \in {"calls", "reply", "comment"} /\ SameResponse(h[Len(h)], m)
    BY <2>3 DEF Free, Open, SameResponse
  <2>4. QED BY <2>1, <2>2, <2>3
<1>4. Tied(t)
  <2>1. \A k \in 2 .. Len(t) : t[k].kind # "summary"
    BY <1>2, <1>3 DEF Tied
  <2>2. ASSUME NEW k \in 2 .. Len(t), t[k].kind \in {"reply", "comment"}
        PROVE  \/ t[k - 1].kind = "summary"
               \/ t[k - 1].kind \in {"calls", "reply", "comment"} /\ SameResponse(t[k - 1], t[k])
    <3>1. CASE k = Len(t)
      BY <1>3, <2>2, <3>1
    <3>2. CASE k # Len(t)
      <4>1. k \in 2 .. Len(h) /\ t[k] = h[k] /\ t[k - 1] = h[k - 1]
        BY <1>2, <3>2
      <4>2. QED BY <2>2, <4>1 DEF Tied
    <3>3. QED BY <3>1, <3>2
  <2>3. QED BY <2>1, <2>2 DEF Tied
<1>5. QED BY <1>1, <1>4

LEMMA OpenAppend ==
  ASSUME NEW h \in Seq(Message), NEW m \in Message, NEW r, NEW s, Part(m, r, s)
  PROVE  Open(Append(h, m), r, s)
<1>1. Len(Append(h, m)) = Len(h) + 1 /\ Len(h) \in Nat /\ Append(h, m)[Len(h) + 1] = m
  BY AppendShape
<1>2. PICK t : t = Append(h, m) /\ Len(t) = Len(h) + 1 /\ Len(h) \in Nat /\ t[Len(h) + 1] = m
  BY <1>1
<1>3. Open(t, r, s)
  BY <1>2 DEF Open, Part
<1>4. QED BY <1>2, <1>3

(* Compression leaves the messages tied: it cuts in front, and the summary *)
(* may stand before anything.                                              *)
LEMMA TiedCompressed ==
  ASSUME NEW h \in Seq(Message), NEW s \in 1 .. Len(h), Tied(h)
  PROVE  Tied(Compressed(h, s))
<1>1. PICK c : /\ c = Compressed(h, s) /\ c \in Seq(Message) /\ Len(c) = Len(h) - s + 1 /\ c[1] = Summary
               /\ \A j \in 2 .. Len(h) - s + 1 : c[j] = h[j + s - 1]
  BY CompressedHas, Zenon
<1>2. Len(h) \in Nat
  BY LenProperties
<1>3. ASSUME NEW k \in 2 .. Len(c)
      PROVE  /\ k + s - 1 \in 2 .. Len(h) /\ c[k] = h[k + s - 1]
             /\ k # 2 => c[k - 1] = h[(k + s - 1) - 1]
  <2>1. k + s - 1 \in 2 .. Len(h) /\ c[k] = h[k + s - 1]
    BY <1>1, <1>2, SMTT(30)
  <2>2. ASSUME k # 2 PROVE c[k - 1] = h[(k + s - 1) - 1]
    <3>1. k - 1 \in 2 .. Len(h) - s + 1 /\ (k - 1) + s - 1 = (k + s - 1) - 1
      BY <1>1, <1>2, <2>2
    <3>2. c[k - 1] = h[(k - 1) + s - 1]
      BY <1>1, <3>1
    <3>3. QED BY <3>1, <3>2
  <2>3. QED BY <2>1, <2>2
<1>4. \A k \in 2 .. Len(c) : c[k].kind # "summary"
  BY <1>3 DEF Tied
<1>5. ASSUME NEW k \in 2 .. Len(c), c[k].kind \in {"reply", "comment"}
      PROVE  \/ c[k - 1].kind = "summary"
             \/ c[k - 1].kind \in {"calls", "reply", "comment"} /\ SameResponse(c[k - 1], c[k])
  <2>1. CASE k = 2
    BY <1>1, <2>1 DEF Summary
  <2>2. CASE k # 2
    BY <1>3, <1>5, <2>2 DEF Tied
  <2>3. QED BY <2>1, <2>2
<1>6. QED BY <1>1, <1>4, <1>5 DEF Tied

LEMMA TiedEmpty == Tied(<<>>)
BY DEF Tied

(* Every step keeps the messages tied.                                     *)
LEMMA TiedNext ==
  ASSUME TypeInv, TiedInv, Talks
  PROVE  TiedInv'
<1>0. /\ history \in Seq(Message) /\ session \in Seq(Message) /\ run \in Nat /\ step \in Nat
      /\ Tied(history) /\ Tied(session)
  BY TypesInParts, ConversationAssumption DEF TypeInv, PlainTypes, TiedInv
<1>1. \A h \in Seq(Message) : \A m \in Message : Append(h, m) \in Seq(Message)
  BY AppendProperties
<1>2. \A h \in Seq(Message) : \A m \in Message : Tied(h) /\ Free(m) => Tied(Append(h, m))
  BY TiedAppend
<1>3. ASSUME NEW h \in Seq(Message), NEW m \in Message, Tied(h), Open(h, run, step),
             Part(m, run, step), m.kind # "calls"
      PROVE  Append(h, m) \in Seq(Message) /\ Tied(Append(h, m)) /\ Open(Append(h, m), run, step)
  BY <1>1, <1>3, TiedAppend, OpenAppend DEF Part
<1>4. ASSUME phase' # "deliver", Tied(history'), Tied(session') PROVE TiedInv'
  BY <1>4 DEF TiedInv, Tied
<1>5. CASE Quiet
  <2>1. /\ UNCHANGED <<history, session, run>>
        /\ phase' = "deliver" => phase = "deliver" /\ UNCHANGED step
    BY <1>5 DEF Quiet
  <2>2. QED BY <2>1 DEF TiedInv, Tied, Open
<1>6. CASE Speaks
  <2>1. PICK m \in Message :
          /\ OfTalk(m)
          /\ \/ history' = Append(history, m) /\ session' \in {session, Append(session, m)}
             \/ \E n \in Message :
                  /\ OfTalk(n) /\ n # m
                  /\ history' = Append(Append(history, m), n) /\ session' = session
    BY <1>6 DEF Speaks
  <2>2. \A k \in Message : OfTalk(k) => Free(k)
    BY DEF OfTalk, Free
  <2>3. phase' # "deliver"
    BY <1>6 DEF Speaks
  <2>4. Append(history, m) \in Seq(Message) /\ Tied(Append(history, m)) /\ Tied(Append(session, m))
    BY <1>0, <1>1, <1>2, <2>1, <2>2
  <2>5. CASE history' = Append(history, m) /\ session' \in {session, Append(session, m)}
    BY <1>0, <1>4, <2>3, <2>4, <2>5
  <2>6. ASSUME NEW n \in Message, OfTalk(n), history' = Append(Append(history, m), n), session' = session
        PROVE  TiedInv'
    BY <1>0, <1>2, <1>4, <2>2, <2>3, <2>4, <2>6
  <2>7. QED BY <2>1, <2>5, <2>6
<1>7. CASE Replies
  <2>1. PICK r \in Message, c \in Message :
          /\ r = Reply /\ c = CommentOn
          /\ \/ history' = Append(history, r) /\ session' \in {session, Append(session, r)}
             \/ history' = Append(Append(history, r), c) /\ session' = session
    BY <1>7 DEF Replies
  <2>2. Part(r, run, step) /\ Part(c, run, step) /\ r.kind # "calls" /\ c.kind # "calls"
    BY <2>1 DEF Reply, CommentOn, Said, Part
  <2>3. /\ phase = "deliver" /\ phase' = "deliver" /\ UNCHANGED <<run, step>>
        /\ Open(history, run, step) /\ Open(session, run, step)
    BY <1>7 DEF Replies, Delivering, TiedInv
  <2>4. /\ Append(history, r) \in Seq(Message) /\ Tied(Append(history, r))
        /\ Open(Append(history, r), run, step)
        /\ Tied(Append(session, r)) /\ Open(Append(session, r), run, step)
    BY <1>0, <1>3, <2>2, <2>3
  <2>5. Tied(Append(Append(history, r), c)) /\ Open(Append(Append(history, r), c), run, step)
    BY <1>3, <2>2, <2>4
  <2>6. /\ Tied(history') /\ Open(history', run, step)
        /\ Tied(session') /\ Open(session', run, step)
    BY <1>0, <2>1, <2>3, <2>4, <2>5
  <2>7. QED BY <2>3, <2>6 DEF TiedInv, Tied, Open
<1>8. CASE Asks
  <2>1. PICK m \in Message :
          /\ m = Said("calls", step + 1, batch'.calls)
          /\ history' = Append(history, m) /\ session' = Append(session, m)
    BY <1>8 DEF Asks
  <2>2. run' = run /\ step' = step + 1
    BY <1>8 DEF Asks
  <2>3. Free(m) /\ Part(m, run, step + 1)
    BY <2>1 DEF Free, Part, Said
  <2>4. /\ Tied(Append(history, m)) /\ Open(Append(history, m), run, step + 1)
        /\ Tied(Append(session, m)) /\ Open(Append(session, m), run, step + 1)
    BY <1>0, <1>2, <2>3, OpenAppend
  <2>5. QED BY <2>1, <2>2, <2>4, SMTT(40) DEF TiedInv, Tied, Open
<1>9. CASE Prompts \/ Begins
  <2>1. Free(Input(run + 1)) /\ phase' # "deliver" /\ Input(run + 1) \in Message
        /\ history' \in {history, Append(history, Input(run + 1))}
        /\ session' \in {session, Append(session, Input(run + 1))}
    BY <1>9 DEF Prompts, Begins, Free, Input
  <2>2. Tied(Append(history, Input(run + 1))) /\ Tied(Append(session, Input(run + 1)))
    BY <1>0, <1>2, <2>1
  <2>3. QED BY <1>0, <1>4, <2>1, <2>2
<1>10. ASSUME NEW s, Compresses(s) PROVE TiedInv'
  <2>1. s \in 1 .. Len(history) /\ history' = Compressed(history, s) /\ session' = history'
        /\ phase' # "deliver"
    BY <1>10 DEF Compresses, Compressed
  <2>2. QED BY <1>0, <1>4, <2>1, TiedCompressed
<1>11. CASE Wipes \/ Restores
  BY <1>0, <1>4, <1>11, TiedEmpty DEF Wipes, Restores
<1>12. QED BY <1>5, <1>6, <1>7, <1>8, <1>9, <1>10, <1>11 DEF Talks

(* A reply whose call is gone: going back from it, the nearest message     *)
(* that is neither of its response nor the summary would have to be        *)
(* followed by one of them.                                                *)
LEMMA TiedShows ==
  ASSUME history \in Seq(Message), Tied(history) PROVE OrphansOnlyAtFront
<1> SUFFICES ASSUME NEW k \in DOMAIN history, IsReply(history[k]),
                    ~ \E i \in 1 .. k - 1 : HasCalls(history[i]) /\ SameResponse(history[i], history[k])
             PROVE  \A i \in 1 .. k - 1 :
                      \/ history[i].kind = "summary"
                      \/ history[i].kind \in {"reply", "comment"} /\ SameResponse(history[i], history[k])
  BY DEF OrphansOnlyAtFront
<1>0. k \in 1 .. Len(history) /\ Len(history) \in Nat /\ k \in Nat
  BY LenProperties
<1> DEFINE Harmless(i) == \/ history[i].kind = "summary"
                          \/ history[i].kind \in {"reply", "comment"} /\ SameResponse(history[i], history[k])
           Bad == {i \in 1 .. k - 1 : ~Harmless(i)}
<1>1. SUFFICES ASSUME Bad # {} PROVE FALSE
  OBVIOUS
<1>2. PICK i \in Bad : \A j \in Bad : j <= i
  <2>1. k \in Nat /\ Bad \subseteq 0 .. k
    BY <1>0
  <2>2. QED BY <1>1, <2>1, LargestExists
<1>3. /\ i + 1 \in 2 .. Len(history) /\ (i + 1) - 1 = i /\ i + 1 \in 1 .. k
      /\ (i + 1 = k \/ i + 1 \in 1 .. k - 1) /\ i + 1 \notin Bad
  <2>1. i \in 1 .. k - 1
    OBVIOUS
  <2>2. i + 1 \notin Bad
    <3>1. ~(i + 1 <= i)
      BY <2>1
    <3>2. QED BY <1>2, <3>1
  <2>3. QED BY <1>0, <2>1, <2>2
<1>4. Harmless(i + 1)
  <2>1. CASE i + 1 = k
    BY <2>1 DEF IsReply, SameResponse
  <2>2. CASE i + 1 \in 1 .. k - 1
    BY <1>3, <2>2
  <2>3. QED BY <1>3, <2>1, <2>2
<1>5. history[i + 1].kind # "summary"
  BY <1>3 DEF Tied
<1>6. history[i + 1].kind \in {"reply", "comment"} /\ SameResponse(history[i + 1], history[k])
  BY <1>4, <1>5
<1>7. ~Harmless(i) /\ i \in 1 .. k - 1
  OBVIOUS
<1>8. history[i].kind \in {"calls", "reply", "comment"} /\ SameResponse(history[i], history[i + 1])
  BY <1>3, <1>6, <1>7 DEF Tied
<1>9. SameResponse(history[i], history[k])
  BY <1>6, <1>8 DEF SameResponse
<1>10. QED BY <1>7, <1>8, <1>9 DEF HasCalls

TiedAll == Orderly /\ TiedInv

(* A reply whose call is gone stands only behind the summary or at the     *)
(* front of the history: compression and resuming take away what comes     *)
(* before it and nothing in between (executeTurn, compressHistory, Load).  *)
THEOREM OrphansStayAtFront == Spec => []OrphansOnlyAtFront
<1>1. Init => TiedAll
  BY InitOrderly, TiedEmpty DEF Init, TiedAll, TiedInv
<1>2. TiedAll /\ [Next]_vars => TiedAll'
  BY OrderlyNext, TiedNext DEF TiedAll, Orderly
<1>3. TiedAll => OrphansOnlyAtFront
  <2>1. TiedAll => history \in Seq(Message) /\ Tied(history)
    BY TypesInParts DEF TiedAll, TiedInv, Orderly, TypeInv
  <2>2. QED BY <2>1, TiedShows
<1>4. QED BY <1>1, <1>2, <1>3, PTL DEF Spec

----------------------------------------------------------------------------
(***************************************************************************)
(***************************************************************************)

-----------------------------------------------------------------------------
(* Every call has its reply. *)

NoComment == {m \in Message : m.kind # "comment"}
After(h, i) == Only(SubSeq(h, i + 1, Len(h)), NoComment)

(* The sequence s starts with the replies to the first n calls of m. *)
Replied(s, m, n) == Len(s) >= n /\ \A c \in 1 .. n : s[c] = [m EXCEPT !.kind = "reply", !.n = c]

AnswersOf(h, i) ==
  IF phase = "deliver" /\ OfBatch(h[i])
  THEN /\ h[i].n = batch.calls /\ Len(After(h, i)) = batch.next - 1
       /\ Replied(After(h, i), h[i], batch.next - 1)
  ELSE Replied(After(h, i), h[i], h[i].n)

AnswersInv ==
  resumes = 0 => \A i \in 1 .. Len(history) : HasCalls(history[i]) => AnswersOf(history, i)

LEMMA AfterType ==
  ASSUME NEW h \in Seq(Message), NEW i \in 1 .. Len(h)
  PROVE  SubSeq(h, i + 1, Len(h)) \in Seq(Message) /\ After(h, i) \in Seq(Message)
<1>1. SubSeq(h, i + 1, Len(h)) \in Seq(Message)
  OBVIOUS
<1>2. QED BY <1>1, OnlySeq DEF After

(* One message more. *)
LEMMA AfterAppend ==
  ASSUME NEW h \in Seq(Message), NEW m \in Message
  PROVE  /\ \A i \in 1 .. Len(h) :
              After(Append(h, m), i) = IF m \in NoComment THEN Append(After(h, i), m) ELSE After(h, i)
         /\ After(Append(h, m), Len(h) + 1) = <<>>
<1>0. PICK t : /\ t = Append(h, m) /\ t \in Seq(Message) /\ Len(t) = Len(h) + 1 /\ Len(h) \in Nat
               /\ \A i \in 1 .. Len(h) : t[i] = h[i]
               /\ t[Len(h) + 1] = m
  <2>1. /\ Append(h, m) \in Seq(Message) /\ Len(Append(h, m)) = Len(h) + 1 /\ Len(h) \in Nat
        /\ \A i \in 1 .. Len(h) : Append(h, m)[i] = h[i]
        /\ Append(h, m)[Len(h) + 1] = m
    BY AppendShape
  <2>2. QED BY <2>1
<1>1. ASSUME NEW i \in 1 .. Len(h)
      PROVE  SubSeq(t, i + 1, Len(h) + 1) = Append(SubSeq(h, i + 1, Len(h)), m)
  <2>1. PICK a : /\ a = SubSeq(h, i + 1, Len(h)) /\ a \in Seq(Message) /\ Len(a) = Len(h) - i
                 /\ \A j \in 1 .. Len(h) - i : a[j] = h[i + j]
    <3>1. ASSUME NEW a, a = SubSeq(h, i + 1, Len(h))
          PROVE  a \in Seq(Message) /\ Len(a) = Len(h) - i /\ \A j \in 1 .. Len(h) - i : a[j] = h[i + j]
      BY <3>1
    <3>2. QED BY <3>1
  <2>2. PICK b : /\ b = SubSeq(t, i + 1, Len(h) + 1) /\ b \in Seq(Message) /\ Len(b) = Len(h) + 1 - i
                 /\ \A j \in 1 .. Len(h) + 1 - i : b[j] = t[i + j]
    <3>1. ASSUME NEW b, b = SubSeq(t, i + 1, Len(h) + 1)
          PROVE  b \in Seq(Message) /\ Len(b) = Len(h) + 1 - i /\ \A j \in 1 .. Len(h) + 1 - i : b[j] = t[i + j]
      BY <1>0, <3>1, SMTT(30)
    <3>2. QED BY <3>1
  <2>3. PICK c : /\ c = Append(a, m) /\ c \in Seq(Message) /\ Len(c) = Len(a) + 1
                 /\ \A j \in 1 .. Len(a) : c[j] = a[j]
                 /\ c[Len(a) + 1] = m
    <3>1. /\ Append(a, m) \in Seq(Message) /\ Len(Append(a, m)) = Len(a) + 1
          /\ \A j \in 1 .. Len(a) : Append(a, m)[j] = a[j]
          /\ Append(a, m)[Len(a) + 1] = m
      BY <2>1, AppendShape
    <3>2. QED BY <3>1
  <2>4. Len(b) = Len(c) /\ Len(c) = (Len(h) - i) + 1
    BY <1>0, <2>1, <2>2, <2>3
  <2>5. ASSUME NEW j \in 1 .. Len(b) PROVE b[j] = c[j]
    <3>1. CASE j = (Len(h) - i) + 1
      <4>1. i + j = Len(h) + 1 /\ j \in 1 .. Len(h) + 1 - i
        BY <1>0, <2>2, <3>1
      <4>2. b[j] = t[Len(h) + 1]
        BY <2>2, <4>1
      <4>3. QED BY <1>0, <2>1, <2>3, <3>1, <4>2
    <3>2. CASE j # (Len(h) - i) + 1
      <4>1. j \in 1 .. Len(h) - i /\ i + j \in 1 .. Len(h) /\ j \in 1 .. Len(h) + 1 - i
        BY <1>0, <2>2, <3>2
      <4>2. b[j] = t[i + j] /\ c[j] = a[j] /\ a[j] = h[i + j]
        BY <2>1, <2>2, <2>3, <4>1
      <4>3. QED BY <1>0, <4>1, <4>2
    <3>3. QED BY <3>1, <3>2
  <2>6. b = c
    BY <2>2, <2>3, <2>4, <2>5, SeqEqual
  <2>7. QED BY <2>1, <2>2, <2>3, <2>6
<1>2. ASSUME NEW i \in 1 .. Len(h)
      PROVE  After(t, i) = IF m \in NoComment THEN Append(After(h, i), m) ELSE After(h, i)
  <2>1. PICK a : a = SubSeq(h, i + 1, Len(h)) /\ a \in Seq(Message)
    BY AfterType
  <2>2. Only(Append(a, m), NoComment) = IF m \in NoComment THEN Append(Only(a, NoComment), m) ELSE Only(a, NoComment)
    <3>1. \A q \in Seq(Message) :
            Only(Append(q, m), NoComment) = IF m \in NoComment THEN Append(Only(q, NoComment), m) ELSE Only(q, NoComment)
      BY OnlyAppend
    <3>2. QED BY <2>1, <3>1
  <2>3. SubSeq(t, i + 1, Len(t)) = Append(a, m)
    BY <1>0, <1>1, <2>1
  <2>4. QED BY <2>1, <2>2, <2>3 DEF After
<1>3. After(t, Len(h) + 1) = <<>>
  <2>1. SubSeq(t, (Len(h) + 1) + 1, Len(t)) = <<>>
    BY <1>0
  <2>2. QED BY <2>1, OnlyEmpty DEF After
<1>4. QED BY <1>0, <1>2, <1>3

(* What follows a message that is kept is what followed it.                *)
LEMMA AfterCompressed ==
  ASSUME NEW h \in Seq(Message), NEW s \in 1 .. Len(h), NEW i \in 2 .. Len(h) - s + 1
  PROVE  After(Compressed(h, s), i) = After(h, i + s - 1)
<1>0. Len(h) \in Nat
  BY LenProperties
<1>1. PICK c : /\ c = Compressed(h, s) /\ c \in Seq(Message) /\ Len(c) = Len(h) - s + 1 /\ c[1] = Summary
               /\ \A j \in 2 .. Len(h) - s + 1 : c[j] = h[j + s - 1]
  BY CompressedHas, Zenon
<1>2. PICK a : /\ a = SubSeq(c, i + 1, Len(c)) /\ a \in Seq(Message) /\ Len(a) = Len(c) - i
               /\ \A j \in 1 .. Len(c) - i : a[j] = c[i + j]
  <2>1. ASSUME NEW a, a = SubSeq(c, i + 1, Len(c))
        PROVE  a \in Seq(Message) /\ Len(a) = Len(c) - i /\ \A j \in 1 .. Len(c) - i : a[j] = c[i + j]
    <3>1. \A h1 \in Seq(Message) : \A i1 \in 1 .. Len(h1) :
            /\ SubSeq(h1, i1 + 1, Len(h1)) \in Seq(Message)
            /\ Len(SubSeq(h1, i1 + 1, Len(h1))) = Len(h1) - i1
            /\ \A j \in 1 .. Len(h1) - i1 : SubSeq(h1, i1 + 1, Len(h1))[j] = h1[i1 + j]
      OBVIOUS
    <3>2. i \in 1 .. Len(c)
      BY <1>0, <1>1
    <3>3. QED BY <1>1, <2>1, <3>1, <3>2
  <2>2. QED BY <2>1
<1>3. PICK k \in 1 .. Len(h) : k = i + s - 1
  BY <1>0
<1>4. PICK b : /\ b = SubSeq(h, k + 1, Len(h)) /\ b \in Seq(Message) /\ Len(b) = Len(h) - k
               /\ \A j \in 1 .. Len(h) - k : b[j] = h[k + j]
  <2>1. ASSUME NEW b, b = SubSeq(h, k + 1, Len(h))
        PROVE  b \in Seq(Message) /\ Len(b) = Len(h) - k /\ \A j \in 1 .. Len(h) - k : b[j] = h[k + j]
    BY <1>0, <2>1, SMTT(40)
  <2>2. QED BY <2>1
<1>5. Len(a) = Len(b) /\ Len(a) = Len(h) - k
  BY <1>0, <1>1, <1>2, <1>3, <1>4
<1>6. ASSUME NEW j \in 1 .. Len(a) PROVE a[j] = b[j]
  <2>1. j \in 1 .. Len(c) - i /\ j \in 1 .. Len(h) - k
    BY <1>2, <1>5
  <2>2. i + j \in 2 .. Len(h) - s + 1 /\ (i + j) + s - 1 = k + j
    BY <1>0, <1>3, <1>5
  <2>3. a[j] = c[i + j] /\ b[j] = h[k + j]
    BY <1>2, <1>4, <2>1
  <2>4. c[i + j] = h[(i + j) + s - 1]
    BY <1>1, <2>2
  <2>5. QED BY <2>2, <2>3, <2>4
<1>7. a = b
  BY <1>2, <1>4, <1>5, <1>6, SeqEqual
<1>8. QED BY <1>1, <1>2, <1>3, <1>4, <1>7 DEF After

(* What has been answered stays answered. *)
LEMMA RepliedLonger ==
  ASSUME NEW a \in Seq(Message), NEW x \in Message, NEW m \in Message, NEW n \in Nat, Replied(a, m, n)
  PROVE  Replied(Append(a, x), m, n)
<1>1. PICK t : /\ t = Append(a, x) /\ Len(t) = Len(a) + 1 /\ Len(a) \in Nat
               /\ \A i \in 1 .. Len(a) : t[i] = a[i]
  <2>1. /\ Len(Append(a, x)) = Len(a) + 1 /\ Len(a) \in Nat
        /\ \A i \in 1 .. Len(a) : Append(a, x)[i] = a[i]
    BY AppendShape
  <2>2. QED BY <2>1
<1>2. Len(a) >= n /\ \A c \in 1 .. n : a[c] = [m EXCEPT !.kind = "reply", !.n = c]
  BY DEF Replied
<1>3. Len(t) >= n /\ \A c \in 1 .. n : c \in 1 .. Len(a)
  <2>1. Len(a) >= n
    BY <1>2
  <2>2. QED BY <1>1, <2>1
<1>4. Len(t) >= n /\ \A c \in 1 .. n : t[c] = [m EXCEPT !.kind = "reply", !.n = c]
  <2>1. ASSUME NEW c \in 1 .. n PROVE t[c] = [m EXCEPT !.kind = "reply", !.n = c]
    <3>1. t[c] = a[c] /\ a[c] = [m EXCEPT !.kind = "reply", !.n = c]
      BY <1>1, <1>2, <1>3
    <3>2. QED BY <3>1
  <2>2. QED BY <1>3, <2>1
<1>5. QED BY <1>1, <1>4 DEF Replied

(* The reply to call c of a response. *)
LEMMA ReplyTo ==
  ASSUME NEW m \in Message, NEW c \in Nat
  PROVE  [m EXCEPT !.kind = "reply", !.n = c] = [kind |-> "reply", run |-> m.run, step |-> m.step, n |-> c]
<1>1. PICK x : x = [m EXCEPT !.kind = "reply"]
  OBVIOUS
<1>2. x = [kind |-> "reply", run |-> m.run, step |-> m.step, n |-> m.n]
  BY <1>1 DEF Message
<1>3. x.run = m.run /\ x.step = m.step /\ x.kind = "reply" /\ x \in [kind : {"reply"}, run : {m.run}, step : {m.step}, n : {m.n}]
  BY <1>2
<1>4. [x EXCEPT !.n = c] = [kind |-> x.kind, run |-> x.run, step |-> x.step, n |-> c]
  BY <1>3
<1>5. [m EXCEPT !.kind = "reply", !.n = c] = [[m EXCEPT !.kind = "reply"] EXCEPT !.n = c]
  BY DEF Message
<1>6. QED BY <1>1, <1>3, <1>4, <1>5

RepliesTo(x, m, n) == x = [m EXCEPT !.kind = "reply", !.n = n]

LEMMA RepliedOnceMore ==
  ASSUME NEW a \in Seq(Message), NEW x \in Message, NEW m \in Message, NEW n \in Nat, Replied(a, m, n),
         Len(a) = n, RepliesTo(x, m, n + 1)
  PROVE  Replied(Append(a, x), m, n + 1) /\ Len(Append(a, x)) = n + 1
<1>1. PICK t : /\ t = Append(a, x) /\ Len(t) = Len(a) + 1
               /\ \A i \in 1 .. Len(a) : t[i] = a[i]
               /\ t[Len(a) + 1] = x
  <2>1. /\ Len(Append(a, x)) = Len(a) + 1
        /\ \A i \in 1 .. Len(a) : Append(a, x)[i] = a[i]
        /\ Append(a, x)[Len(a) + 1] = x
    BY AppendShape
  <2>2. QED BY <2>1
<1>2. \A c \in 1 .. n : a[c] = [m EXCEPT !.kind = "reply", !.n = c]
  BY DEF Replied
<1>3. ASSUME NEW c \in 1 .. n + 1 PROVE t[c] = [m EXCEPT !.kind = "reply", !.n = c]
  <2>1. CASE c = n + 1
    BY <1>1, <2>1 DEF RepliesTo
  <2>2. CASE c # n + 1
    <3>1. c \in 1 .. n
      BY <2>2
    <3>2. t[c] = a[c]
      BY <1>1, <3>1
    <3>3. QED BY <1>2, <3>1, <3>2
  <2>3. QED BY <2>1, <2>2
<1>4. Len(t) = n + 1 /\ Len(t) >= n + 1
  BY <1>1
<1>5. QED BY <1>1, <1>3, <1>4 DEF Replied

(* A batch whose last call has been delivered is answered like the others. *)
Answered(h) == \A i \in 1 .. Len(h) : HasCalls(h[i]) => Replied(After(h, i), h[i], h[i].n)

LEMMA AnsweredBetween ==
  ASSUME TypeInv, resumes = 0, AnswersInv, phase = "deliver" => batch.next > batch.calls
  PROVE  Answered(history)
<1> SUFFICES ASSUME NEW i \in 1 .. Len(history), HasCalls(history[i])
             PROVE  Replied(After(history, i), history[i], history[i].n)
  BY DEF Answered
<1>1. AnswersOf(history, i)
  BY DEF AnswersInv
<1>2. batch.next \in Nat /\ batch.calls \in Nat /\ batch.next <= batch.calls + 1
  BY TypesInParts, ConversationAssumption, SMTT(30) DEF TypeInv, PlainTypes, RunsUsed, Batches
<1>3. CASE phase = "deliver" /\ OfBatch(history[i])
  <2>1. batch.next - 1 = batch.calls
    BY <1>2, <1>3
  <2>2. QED BY <1>1, <1>3, <2>1 DEF AnswersOf
<1>4. CASE ~(phase = "deliver" /\ OfBatch(history[i]))
  BY <1>1, <1>4 DEF AnswersOf
<1>5. QED BY <1>3, <1>4

LEMMA AnsweredAppend ==
  ASSUME NEW h \in Seq(Message), NEW m \in Message, Answered(h), ~HasCalls(m)
  PROVE  Answered(Append(h, m))
<1>1. PICK t : /\ t = Append(h, m) /\ t \in Seq(Message) /\ Len(t) = Len(h) + 1 /\ Len(h) \in Nat
               /\ \A i \in 1 .. Len(h) : t[i] = h[i]
               /\ t[Len(h) + 1] = m
               /\ \A i \in 1 .. Len(h) :
                    After(t, i) = IF m \in NoComment THEN Append(After(h, i), m) ELSE After(h, i)
  <2>1. /\ Append(h, m) \in Seq(Message) /\ Len(Append(h, m)) = Len(h) + 1 /\ Len(h) \in Nat
        /\ \A i \in 1 .. Len(h) : Append(h, m)[i] = h[i]
        /\ Append(h, m)[Len(h) + 1] = m
    BY AppendShape
  <2>2. \A i \in 1 .. Len(h) :
          After(Append(h, m), i) = IF m \in NoComment THEN Append(After(h, i), m) ELSE After(h, i)
    BY AfterAppend
  <2>3. QED BY <2>1, <2>2
<1>2. ASSUME NEW i \in 1 .. Len(t), HasCalls(t[i]) PROVE Replied(After(t, i), t[i], t[i].n)
  <2>1. i \in 1 .. Len(h) /\ t[i] = h[i]
    BY <1>1, <1>2
  <2>2. h[i] \in Message /\ h[i].n \in Nat /\ After(h, i) \in Seq(Message)
    BY <2>1, AfterType, ElementOfSeq, MessageFields
  <2>3. Replied(After(h, i), h[i], h[i].n)
    BY <1>2, <2>1 DEF Answered
  <2>4. Replied(Append(After(h, i), m), h[i], h[i].n)
    BY <2>2, <2>3, RepliedLonger
  <2>5. QED BY <1>1, <2>1, <2>3, <2>4
<1>3. QED BY <1>1, <1>2 DEF Answered

LEMMA AnsweredCompressed ==
  ASSUME NEW h \in Seq(Message), NEW s \in 1 .. Len(h), Answered(h)
  PROVE  Answered(Compressed(h, s))
<1>1. PICK c : /\ c = Compressed(h, s) /\ c \in Seq(Message) /\ Len(c) = Len(h) - s + 1 /\ c[1] = Summary
               /\ \A j \in 2 .. Len(h) - s + 1 : c[j] = h[j + s - 1]
  BY CompressedHas, Zenon
<1>2. ASSUME NEW i \in 1 .. Len(c), HasCalls(c[i]) PROVE Replied(After(c, i), c[i], c[i].n)
  <2>1. i # 1
    BY <1>1, <1>2 DEF HasCalls, Summary
  <2>2. i \in 2 .. Len(h) - s + 1 /\ i + s - 1 \in 1 .. Len(h)
    BY <1>1, <2>1, LenProperties
  <2>3. c[i] = h[i + s - 1] /\ After(c, i) = After(h, i + s - 1)
    BY <1>1, <2>2, AfterCompressed
  <2>4. PICK k \in 1 .. Len(h) : k = i + s - 1
    BY <2>2
  <2>5. HasCalls(h[k]) => Replied(After(h, k), h[k], h[k].n)
    BY DEF Answered
  <2>6. QED BY <1>2, <2>3, <2>4, <2>5
<1>3. QED BY <1>1, <1>2 DEF Answered

(* Outside a delivery every batch is answered. *)
LEMMA AnsweredIs ==
  ASSUME phase' # "deliver", Answered(history')
  PROVE  AnswersInv'
BY DEF AnswersInv, AnswersOf, Answered, HasCalls, Replied, After, NoComment

(* Every step keeps the calls answered, as far as they are delivered.      *)
LEMMA AnswersNext ==
  ASSUME Orderly, AnswersInv, Talks
  PROVE  AnswersInv'
<1> SUFFICES ASSUME resumes' = 0 PROVE AnswersInv'
  BY DEF AnswersInv
<1>0. /\ history \in Seq(Message) /\ run \in Nat /\ step \in Nat /\ resumes \in Nat /\ TypeInv
      /\ batch \in Batches /\ batch.next \in Nat /\ batch.calls \in Nat /\ batch.next >= 1
  BY TypesInParts, ConversationAssumption, SMTT(30) DEF Orderly, TypeInv, PlainTypes, Batches
<1>1. CASE Restores
  BY <1>0, <1>1 DEF Restores
<1>2. CASE Wipes
  <2>1. history' = <<>> /\ phase' # "deliver"
    BY <1>2 DEF Wipes
  <2>2. Answered(history')
    BY <2>1 DEF Answered
  <2>3. QED BY <2>1, <2>2, AnsweredIs
<1>3. CASE Quiet /\ phase' = "deliver"
  <2>1. phase = "deliver" /\ UNCHANGED <<history, run, resumes, step, batch>>
    BY <1>3 DEF Quiet
  <2>2. QED BY <1>3, <2>1 DEF AnswersInv, AnswersOf, OfBatch, HasCalls, Replied, After, NoComment
<1>4. CASE Quiet /\ phase' # "deliver"
  <2>1. /\ UNCHANGED <<history, resumes>> /\ (phase = "deliver" => batch.next > batch.calls)
    BY <1>4 DEF Quiet
  <2>2. Answered(history)
    BY <1>0, <2>1, AnsweredBetween
  <2>3. QED BY <1>4, <2>1, <2>2, AnsweredIs
<1>5. CASE Speaks
  <2>1. PICK m \in Message :
          /\ OfTalk(m)
          /\ \/ history' = Append(history, m)
             \/ \E n \in Message : OfTalk(n) /\ history' = Append(Append(history, m), n)
    BY <1>5 DEF Speaks
  <2>2. resumes' = resumes /\ phase' # "deliver" /\ (phase = "deliver" => batch.next > batch.calls)
    BY <1>5 DEF Speaks
  <2>3. Answered(history)
    BY <1>0, <2>2, AnsweredBetween
  <2>4. \A k \in Message : OfTalk(k) => ~HasCalls(k)
    BY DEF OfTalk, HasCalls
  <2>5. Append(history, m) \in Seq(Message) /\ Answered(Append(history, m))
    BY <1>0, <2>1, <2>3, <2>4, AnsweredAppend, AppendShape
  <2>6. \A h \in Seq(Message) : \A k \in Message : Answered(h) /\ ~HasCalls(k) => Answered(Append(h, k))
    BY AnsweredAppend
  <2>7. Answered(history')
    BY <2>1, <2>4, <2>5, <2>6
  <2>8. QED BY <2>2, <2>7, AnsweredIs
<1>6. CASE Prompts \/ Begins
  <2>1. /\ resumes' = resumes /\ phase # "deliver" /\ phase' # "deliver"
        /\ Input(run + 1) \in Message /\ history' \in {history, Append(history, Input(run + 1))}
    BY <1>6 DEF Prompts, Begins
  <2>2. Answered(history) /\ ~HasCalls(Input(run + 1))
    BY <1>0, <2>1, AnsweredBetween DEF HasCalls, Input
  <2>3. Answered(history')
    BY <1>0, <2>1, <2>2, AnsweredAppend
  <2>4. QED BY <2>1, <2>3, AnsweredIs
<1>7. ASSUME NEW s, Compresses(s) PROVE AnswersInv'
  <2>1. s \in 1 .. Len(history) /\ history' = Compressed(history, s)
        /\ resumes' = resumes /\ phase # "deliver" /\ phase' # "deliver"
    BY <1>7 DEF Compresses, Compressed
  <2>2. Answered(history)
    BY <1>0, <2>1, AnsweredBetween
  <2>3. QED BY <1>0, <2>1, <2>2, AnsweredCompressed, AnsweredIs
<1>8. CASE Asks
  <2>1. PICK m \in Message :
          m = Said("calls", step + 1, batch'.calls) /\ history' = Append(history, m)
    BY <1>8 DEF Asks
  <2>2. /\ resumes' = resumes /\ phase = "request" /\ phase' = "deliver" /\ run' = run /\ step' = step + 1
        /\ batch'.next = 1 /\ batch'.calls \in Nat
    BY <1>8 DEF Asks
  <2>3. m.run = run /\ m.step = step + 1 /\ m.n = batch'.calls
    BY <2>1 DEF Said
  <2>4. Answered(history)
    BY <1>0, <2>2, AnsweredBetween
  <2>5. PICK t : /\ t = history' /\ t = Append(history, m) /\ Len(t) = Len(history) + 1 /\ Len(history) \in Nat
                 /\ \A i \in 1 .. Len(history) : t[i] = history[i]
                 /\ t[Len(history) + 1] = m
    BY <1>0, <2>1, AppendShape, SMTT(40)
  <2>6. /\ \A i \in 1 .. Len(history) :
             After(t, i) = IF m \in NoComment THEN Append(After(history, i), m) ELSE After(history, i)
        /\ After(t, Len(history) + 1) = <<>>
    BY <1>0, <2>5, AfterAppend
  <2>7. ASSUME NEW i \in 1 .. Len(history), HasCalls(t[i])
        PROVE  Replied(After(t, i), t[i], t[i].n) /\ ~(t[i].run = run /\ t[i].step = step + 1)
    <3>1. /\ t[i] = history[i] /\ history[i] \in Message /\ history[i].n \in Nat /\ history[i].step \in Nat
          /\ After(history, i) \in Seq(Message) /\ history[i] \in Elems(history)
      BY <1>0, <2>5, AfterType, ElementOfSeq, MessageFields, ElemsType
    <3>2. Replied(After(history, i), history[i], history[i].n)
      BY <2>4, <2>7, <3>1 DEF Answered
    <3>3. Replied(Append(After(history, i), m), history[i], history[i].n)
      BY <3>1, <3>2, RepliedLonger
    <3>4. Replied(After(t, i), t[i], t[i].n)
      BY <2>6, <3>1, <3>2, <3>3
    <3>5. history[i].run = run => history[i].step <= step
      BY <2>2, <3>1 DEF Orderly, Numbered, RunNumbered, Running
    <3>6. QED BY <1>0, <3>1, <3>4, <3>5
  <2>8. Replied(<<>>, m, 0) /\ Len(<<>>) = 0
    BY DEF Replied
  <2>9. ASSUME NEW i \in 1 .. Len(t), HasCalls(t[i])
        PROVE  IF t[i].run = run /\ t[i].step = step + 1
               THEN t[i].n = batch'.calls /\ Len(After(t, i)) = 0 /\ Replied(After(t, i), t[i], 0)
               ELSE Replied(After(t, i), t[i], t[i].n)
    <3>1. CASE i \in 1 .. Len(history)
      BY <2>7, <2>9, <3>1
    <3>2. CASE i = Len(history) + 1
      BY <2>3, <2>5, <2>6, <2>8, <3>2
    <3>3. QED BY <2>5, <3>1, <3>2
  <2>10. batch'.next - 1 = 0
    BY <2>2
  <2>11. \A i \in 1 .. Len(history') : HasCalls(history'[i]) =>
           IF phase' = "deliver" /\ history'[i].run = run' /\ history'[i].step = step'
           THEN /\ history'[i].n = batch'.calls /\ Len(After(history', i)) = batch'.next - 1
                /\ Replied(After(history', i), history'[i], batch'.next - 1)
           ELSE Replied(After(history', i), history'[i], history'[i].n)
    BY <2>2, <2>5, <2>9, <2>10
  <2>12. QED BY <2>11
         DEF AnswersInv, AnswersOf, OfBatch, HasCalls, Replied, After, NoComment
<1>9. CASE Replies
  <2>1. PICK r \in Message, c \in Message :
          /\ r = Reply /\ c = CommentOn
          /\ \/ history' = Append(history, r)
             \/ history' = Append(Append(history, r), c)
    BY <1>9 DEF Replies
  <2>2. /\ resumes' = resumes /\ phase = "deliver" /\ phase' = "deliver" /\ run' = run /\ step' = step
        /\ batch.next <= batch.calls
        /\ batch'.next = batch.next + 1 /\ batch'.calls = batch.calls
    BY <1>0, <1>9 DEF Replies, Delivering, Delivered, Batches
  <2>3. /\ r = [kind |-> "reply", run |-> run, step |-> step, n |-> batch.next]
        /\ r \in NoComment /\ c \notin NoComment /\ ~HasCalls(r) /\ ~HasCalls(c)
    BY <2>1 DEF Reply, CommentOn, Said, NoComment, HasCalls
  <2>4. ASSUME NEW t, t = history'
        PROVE  /\ Len(t) >= Len(history)
               /\ \A i \in 1 .. Len(history) :
                    t[i] = history[i] /\ After(t, i) = Append(After(history, i), r)
               /\ \A i \in 1 .. Len(t) : i \notin 1 .. Len(history) => ~HasCalls(t[i])
    <3>1. PICK u : /\ u = Append(history, r) /\ u \in Seq(Message)
                   /\ Len(u) = Len(history) + 1 /\ Len(history) \in Nat
                   /\ \A i \in 1 .. Len(history) : u[i] = history[i]
                   /\ u[Len(history) + 1] = r
                   /\ \A i \in 1 .. Len(history) : After(u, i) = Append(After(history, i), r)
      <4>1. \A i \in 1 .. Len(history) : After(Append(history, r), i) = Append(After(history, i), r)
        BY <1>0, <2>3, AfterAppend
      <4>2. /\ Append(history, r) \in Seq(Message)
            /\ Len(Append(history, r)) = Len(history) + 1 /\ Len(history) \in Nat
            /\ \A i \in 1 .. Len(history) : Append(history, r)[i] = history[i]
            /\ Append(history, r)[Len(history) + 1] = r
        BY <1>0, AppendShape
      <4>3. QED BY <4>1, <4>2
    <3>2. CASE t = u
      BY <2>3, <3>1, <3>2
    <3>3. CASE t = Append(u, c)
      <4>1. /\ Len(t) = Len(u) + 1
            /\ \A i \in 1 .. Len(u) : t[i] = u[i]
            /\ t[Len(u) + 1] = c
        <5>1. /\ Len(Append(u, c)) = Len(u) + 1
              /\ \A i \in 1 .. Len(u) : Append(u, c)[i] = u[i]
              /\ Append(u, c)[Len(u) + 1] = c
          BY <3>1, AppendShape
        <5>2. QED BY <3>3, <5>1
      <4>2. \A i \in 1 .. Len(u) : After(t, i) = After(u, i)
        <5>1. \A i \in 1 .. Len(u) : After(Append(u, c), i) = After(u, i)
          <6>1. \A h \in Seq(Message) : \A m \in Message : \A i \in 1 .. Len(h) :
                  After(Append(h, m), i) = IF m \in NoComment THEN Append(After(h, i), m) ELSE After(h, i)
            BY AfterAppend
          <6>2. u \in Seq(Message) /\ c \in Message /\ ~(c \in NoComment)
            BY <2>3, <3>1
          <6>3. \A i \in 1 .. Len(u) :
                  After(Append(u, c), i) = IF c \in NoComment THEN Append(After(u, i), c) ELSE After(u, i)
            BY <6>1, <6>2, Zenon
          <6>4. QED BY <6>2, <6>3, Zenon
        <5>2. QED BY <3>3, <5>1
      <4>3. \A i \in 1 .. Len(history) : i \in 1 .. Len(u)
        BY <3>1
      <4>4. ASSUME NEW i \in 1 .. Len(t), i \notin 1 .. Len(history) PROVE ~HasCalls(t[i])
        <5>1. i = Len(history) + 1 \/ i = Len(u) + 1
          BY <3>1, <4>1, <4>4
        <5>2. t[Len(history) + 1] = r
          BY <3>1, <4>1
        <5>3. QED BY <2>3, <4>1, <5>1, <5>2
      <4>5. Len(t) >= Len(history)
        BY <3>1, <4>1
      <4>6. QED BY <3>1, <4>1, <4>2, <4>3, <4>4, <4>5
    <3>4. QED BY <2>1, <2>4, <3>1, <3>2, <3>3
  <2>5. ASSUME NEW i \in 1 .. Len(history), HasCalls(history[i])
        PROVE  LET a == After(history, i) IN
               IF history[i].run = run /\ history[i].step = step
               THEN /\ history[i].n = batch.calls /\ Len(Append(a, r)) = batch.next
                    /\ Replied(Append(a, r), history[i], batch.next)
               ELSE Replied(Append(a, r), history[i], history[i].n)
    <3>1. PICK a, m : a = After(history, i) /\ m = history[i]
      OBVIOUS
    <3>2. a \in Seq(Message) /\ m \in Message /\ m.n \in Nat
      BY <1>0, <3>1, AfterType, ElementOfSeq, MessageFields
    <3>3. AnswersOf(history, i)
      BY <2>2, <2>5 DEF AnswersInv
    <3>4. CASE m.run = run /\ m.step = step
      <4>1. m.n = batch.calls /\ Len(a) = batch.next - 1 /\ Replied(a, m, batch.next - 1)
        BY <2>2, <3>1, <3>3, <3>4 DEF AnswersOf, OfBatch
      <4>2. PICK b \in Nat : b = batch.next - 1 /\ b + 1 = batch.next
        BY <1>0
      <4>3. RepliesTo(r, m, b + 1)
        <5>1. [m EXCEPT !.kind = "reply", !.n = b + 1]
                = [kind |-> "reply", run |-> m.run, step |-> m.step, n |-> b + 1]
          <6>1. PICK d \in Nat : d = b + 1
            BY <4>2
          <6>2. [m EXCEPT !.kind = "reply", !.n = d]
                  = [kind |-> "reply", run |-> m.run, step |-> m.step, n |-> d]
            BY <3>2, ReplyTo
          <6>3. QED BY <6>1, <6>2
        <5>2. QED BY <2>3, <3>4, <4>2, <5>1 DEF RepliesTo
      <4>4. Replied(Append(a, r), m, b + 1) /\ Len(Append(a, r)) = b + 1
        <5>1. Replied(a, m, b) /\ Len(a) = b
          BY <4>1, <4>2
        <5>2. r \in Message
          BY <2>1
        <5>3. QED BY <3>2, <4>3, <5>1, <5>2, RepliedOnceMore
      <4>5. QED BY <3>1, <3>4, <4>1, <4>2, <4>4
    <3>5. CASE ~(m.run = run /\ m.step = step)
      <4>1. Replied(a, m, m.n)
        BY <3>1, <3>3, <3>5 DEF AnswersOf, OfBatch
      <4>2. Replied(Append(a, r), m, m.n)
        BY <3>2, <4>1, RepliedLonger
      <4>3. QED BY <3>1, <3>5, <4>2
    <3>6. QED BY <3>4, <3>5
  <2>6. PICK t : t = history'
    OBVIOUS
  <2>7. ASSUME NEW i \in 1 .. Len(t), HasCalls(t[i])
        PROVE  IF t[i].run = run /\ t[i].step = step
               THEN /\ t[i].n = batch.calls /\ Len(After(t, i)) = batch.next
                    /\ Replied(After(t, i), t[i], batch.next)
               ELSE Replied(After(t, i), t[i], t[i].n)
    <3>1. i \in 1 .. Len(history)
      BY <2>4, <2>6, <2>7
    <3>2. t[i] = history[i] /\ After(t, i) = Append(After(history, i), r)
      BY <2>4, <2>6, <3>1
    <3>3. QED BY <2>5, <2>7, <3>1, <3>2
  <2>8. batch'.next - 1 = batch.next
    BY <1>0, <2>2
  <2>9. QED BY <2>2, <2>6, <2>7, <2>8, ZenonT(60)
        DEF AnswersInv, AnswersOf, OfBatch, HasCalls, Replied, After, NoComment
<1>10. QED BY <1>1, <1>2, <1>3, <1>4, <1>5, <1>6, <1>7, <1>8, <1>9 DEF Talks

AnswersAll == Orderly /\ AnswersInv

(* Outside a delivery that is what CallsAnswered says.                     *)
LEMMA AnswersShow == Orderly /\ AnswersInv => CallsAnswered
<1> SUFFICES ASSUME Orderly, AnswersInv, phase # "deliver", resumes = 0,
                    NEW i \in DOMAIN history, HasCalls(history[i])
             PROVE  /\ Len(Following(i)) >= history[i].n
                    /\ \A c \in 1 .. history[i].n :
                         Following(i)[c] = [history[i] EXCEPT !.kind = "reply", !.n = c]
  BY DEF CallsAnswered
<1>1. history \in Seq(Message)
  BY TypesInParts DEF Orderly, TypeInv
<1>2. i \in 1 .. Len(history)
  BY <1>1, LenProperties
<1>3. Replied(After(history, i), history[i], history[i].n)
  BY <1>2 DEF AnswersInv, AnswersOf
<1>4. Following(i) = After(history, i)
  BY DEF Following, After, NoComment
<1>5. QED BY <1>3, <1>4 DEF Replied

(* Every tool call in the history has its reply, in the order of the calls *)
(* and directly behind them, in every state in which the next request may  *)
(* be sent; also when the batch was stopped in the middle (deliverResults, *)
(* appendSkippedToolResults) and when what is in front of it has been      *)
(* compressed.                                                             *)
THEOREM CallsAreAnswered == Spec => []CallsAnswered
<1>1. Init => AnswersAll
  <2>1. Init => Len(history) = 0
    BY DEF Init
  <2>2. Init => AnswersInv
    BY <2>1 DEF AnswersInv
  <2>3. QED BY <2>2, InitOrderly DEF AnswersAll
<1>2. AnswersAll /\ [Next]_vars => AnswersAll'
  BY OrderlyNext, AnswersNext DEF AnswersAll
<1>3. AnswersAll => CallsAnswered
  BY AnswersShow DEF AnswersAll
<1>4. QED BY <1>1, <1>2, <1>3, PTL DEF Spec

----------------------------------------------------------------------------
(***************************************************************************)
(***************************************************************************)

-----------------------------------------------------------------------------
(* The running turn is kept. *)

OfTurn(r) == {m \in Message : m.run = r}
StartsWith(t, s) == \A k \in DOMAIN s : k \in DOMAIN t /\ t[k] = s[k]

LEMMA LongerStarts ==
  ASSUME NEW s \in Seq(Message), NEW m \in Message, NEW r
  PROVE  StartsWith(Only(Append(s, m), OfTurn(r)), Only(s, OfTurn(r)))
<1>1. Only(Append(s, m), OfTurn(r))
        = IF m \in OfTurn(r) THEN Append(Only(s, OfTurn(r)), m) ELSE Only(s, OfTurn(r))
  BY OnlyAppend
<1>2. PICK a : a = Only(s, OfTurn(r)) /\ a \in Seq(Message)
  BY OnlySeq
<1>3. StartsWith(a, a)
  BY DEF StartsWith
<1>4. StartsWith(Append(a, m), a)
  <2>1. /\ Append(a, m) \in Seq(Message) /\ Len(Append(a, m)) = Len(a) + 1 /\ Len(a) \in Nat
        /\ \A i \in 1 .. Len(a) : Append(a, m)[i] = a[i]
    BY <1>2, AppendShape
  <2>2. DOMAIN Append(a, m) = 1 .. Len(Append(a, m)) /\ DOMAIN a = 1 .. Len(a)
    BY <1>2, <2>1, LenProperties
  <2>3. QED BY <2>1, <2>2 DEF StartsWith
<1>5. QED BY <1>1, <1>2, <1>3, <1>4

LEMMA StartsTwice ==
  ASSUME NEW a, NEW b, NEW c, StartsWith(b, a), StartsWith(c, b)
  PROVE  StartsWith(c, a)
BY DEF StartsWith

(* Nothing of the turn is in front of where it starts. *)
LEMMA TurnAfterSplit ==
  ASSUME NEW h \in Seq(Message), NEW s \in 1 .. Len(h), NEW r, r # 0,
         \A k \in 1 .. s : h[k].run # r
  PROVE  Only(Compressed(h, s), OfTurn(r)) = Only(h, OfTurn(r))
<1>1. Len(h) \in Nat /\ s \in 0 .. Len(h)
  BY LenProperties
<1>2. PICK a, b : /\ a = SubSeq(h, 1, s) /\ b = SubSeq(h, s + 1, Len(h))
                  /\ a \in Seq(Message) /\ b \in Seq(Message) /\ h = a \o b
  <2>1. /\ SubSeq(h, 1, s) \in Seq(Message) /\ SubSeq(h, s + 1, Len(h)) \in Seq(Message)
        /\ h = SubSeq(h, 1, s) \o SubSeq(h, s + 1, Len(h))
    BY <1>1, CutInTwo
  <2>2. QED BY <2>1
<1>3. Len(a) = s /\ \A k \in 1 .. s : a[k] = h[k]
  BY <1>1, <1>2
<1>4. Only(a, OfTurn(r)) = <<>>
  <2>1. a \in Seq(Elems(a)) /\ \A e \in Elems(a) : \E k \in 1 .. Len(a) : a[k] = e
    BY <1>2, ElemsType
  <2>2. Elems(a) \cap OfTurn(r) = {}
    BY <1>3, <2>1 DEF OfTurn
  <2>3. QED BY <2>1, <2>2, OnlyNone
<1>5. Only(<<Summary>>, OfTurn(r)) = <<>> /\ <<Summary>> \in Seq(Message)
  <2>1. ASSUME NEW T, NEW x \in T PROVE Append(<<>>, x) = <<x>> /\ <<x>> \in Seq(T)
    OBVIOUS
  <2>2. Append(<<>>, Summary) = <<Summary>> /\ <<Summary>> \in Seq(Message) /\ <<>> \in Seq(Message)
    BY <2>1, SummaryType, EmptySeq
  <2>3. Only(Append(<<>>, Summary), OfTurn(r)) = IF Summary \in OfTurn(r) THEN Append(Only(<<>>, OfTurn(r)), Summary) ELSE Only(<<>>, OfTurn(r))
    BY <2>2, SummaryType, OnlyAppend
  <2>4. Summary \notin OfTurn(r)
    BY DEF OfTurn, Summary
  <2>5. QED BY <2>2, <2>3, <2>4, OnlyEmpty
<1>6. Only(a \o b, OfTurn(r)) = Only(a, OfTurn(r)) \o Only(b, OfTurn(r))
  BY <1>2, OnlyConcat
<1>7. Only(<<Summary>> \o b, OfTurn(r)) = Only(<<Summary>>, OfTurn(r)) \o Only(b, OfTurn(r))
  BY <1>2, <1>5, OnlyConcat, ZenonT(60)
<1>8. QED BY <1>2, <1>4, <1>5, <1>6, <1>7 DEF Compressed

(* Each talk within a turn keeps what the history holds of the turn.       *)
LEMMA TurnKeptByStep ==
  ASSUME Orderly, Talks, phase \in Running, phase' \in Running, run' = run
  PROVE  StartsWith(Only(history', OfTurn(run)), Only(history, OfTurn(run)))
<1>0. history \in Seq(Message) /\ run \in Nat /\ turnStart \in Nat /\ run # 0
  BY TypesInParts, ConversationAssumption DEF Orderly, TypeInv, PlainTypes, RunsUsed
<1>1. ASSUME NEW m \in Message, history' = Append(history, m)
      PROVE  StartsWith(Only(history', OfTurn(run)), Only(history, OfTurn(run)))
  BY <1>0, <1>1, LongerStarts
<1>2. ASSUME NEW m \in Message, NEW n \in Message, history' = Append(Append(history, m), n)
      PROVE  StartsWith(Only(history', OfTurn(run)), Only(history, OfTurn(run)))
  <2>1. PICK t : t = Append(history, m) /\ t \in Seq(Message) /\ history' = Append(t, n)
    BY <1>0, <1>2, AppendShape
  <2>2. StartsWith(Only(t, OfTurn(run)), Only(history, OfTurn(run)))
    BY <1>0, <2>1, LongerStarts
  <2>3. StartsWith(Only(Append(t, n), OfTurn(run)), Only(t, OfTurn(run)))
    BY <2>1, LongerStarts
  <2>4. QED BY <2>1, <2>2, <2>3, StartsTwice
<1>3. CASE Quiet
  BY <1>3 DEF Quiet, StartsWith
<1>4. CASE Speaks
  BY <1>1, <1>2, <1>4 DEF Speaks
<1>5. CASE Replies
  BY <1>1, <1>2, <1>5 DEF Replies
<1>6. CASE Asks
  BY <1>1, <1>6 DEF Asks
<1>7. CASE Prompts \/ Begins \/ Wipes \/ Restores
  BY <1>7 DEF Prompts, Begins, Wipes, Restores, Running
<1>8. ASSUME NEW s, Compresses(s)
      PROVE  StartsWith(Only(history', OfTurn(run)), Only(history, OfTurn(run)))
  <2>1. /\ s \in 1 .. Len(history) /\ history' = Compressed(history, s)
        /\ ~attempted /\ s = InTurnSplit
    BY <1>8 DEF Compresses, Compressed, Running
  <2>2. /\ turnStart < Len(history) /\ history[turnStart + 1] = Input(run)
        /\ \A k \in 1 .. turnStart : history[k].run # run
    BY <2>1 DEF Orderly, TurnStarts
  <2>3. ~IsReply(history[turnStart + 1])
    BY <2>2 DEF IsReply, Input
  <2>4. InTurnSplit \in 0 .. turnStart
    BY <1>0, <2>2, <2>3, InTurnSplitInside, ConversationAssumption DEF InTurnSplit
  <2>5. \A k \in 1 .. s : history[k].run # run
    BY <1>0, <2>1, <2>2, <2>4
  <2>6. Only(history', OfTurn(run)) = Only(history, OfTurn(run))
    BY <1>0, <2>1, <2>5, TurnAfterSplit
  <2>7. QED BY <2>6 DEF StartsWith
<1>9. QED BY <1>3, <1>4, <1>5, <1>6, <1>7, <1>8 DEF Talks

(* Compression takes nothing of the turn that runs: what the history holds *)
(* of it is a beginning of what it holds after any step of the same turn   *)
(* (currentTurnStartIndex as the limit of the split).                      *)
THEOREM TurnIsKept == Spec => CurrentTurnKept
<1>1. Init => Orderly
  BY InitOrderly
<1>2. Orderly /\ [Next]_vars => Orderly'
  BY OrderlyNext
<1>3. Orderly /\ [Next]_vars =>
        [(phase \in Running /\ phase' \in Running /\ run' = run) =>
            \A k \in DOMAIN OfRun(history) :
              k \in DOMAIN OfRun(history') /\ OfRun(history')[k] = OfRun(history)[k]]_vars
  <2> SUFFICES ASSUME Orderly, [Next]_vars, phase \in Running, phase' \in Running, run' = run
               PROVE  \A k \in DOMAIN OfRun(history) :
                        k \in DOMAIN OfRun(history') /\ OfRun(history')[k] = OfRun(history)[k]
    OBVIOUS
  <2>1. StartsWith(Only(history', OfTurn(run)), Only(history, OfTurn(run)))
    BY OrderlyNext, TurnKeptByStep
  <2>2. QED BY <2>1 DEF StartsWith, OfRun, OfTurn
<1>4. QED BY <1>1, <1>2, <1>3, PTL DEF Spec, CurrentTurnKept

----------------------------------------------------------------------------
(***************************************************************************)
(* What the cache serves is true, for any number of files and of           *)
(* goroutines, any capacity and any number of changes.                     *)
(***************************************************************************)

Places == {"idle", "stat", "touch", "drop", "load", "restat", "set", "one", "each", "many"}
Entries == [content : Nat \cup SUBSET Files, time : Nat, clean : BOOLEAN]
Results == [found : SUBSET [file : Files, text : Nat], affected : SUBSET Files,
            others : SUBSET Files]
Jobs == [at : Places, on : Paths, entry : Entries, answer : Results]

(* A map from some paths, or patterns, to values. *)
Map(f, keys, values) ==
  /\ f = [k \in DOMAIN f |-> f[k]]
  /\ DOMAIN f \subseteq keys
  /\ \A k \in DOMAIN f : f[k] \in values

CacheType ==
  /\ tcDisk \in [Files -> [text : Nat, time : Nat, has : BOOLEAN]]
  /\ tcFolderAt \in Nat /\ tcClock \in Nat
  /\ Map(tcKept, Paths, Entries)
  /\ Map(tcSearches, {"one", "many"}, Results)
  /\ tcJob \in [Readers -> Jobs]

(* Nothing is newer than the clock. *)
Past == tcFolderAt <= tcClock /\ \A f \in Files : tcDisk[f].time <= tcClock

(* An entry that was taken from a file as it was.  It stays so when the    *)
(* file changes, since the file is newer then.                             *)
Fits(p, e) ==
  /\ e.time <= tcClock
  /\ e.clean /\ Unchanged(p, e) => e.content = Content(p)

KeptFit(kept) == \A p \in DOMAIN kept : Fits(p, kept[p])
HeldFit ==
  \A r \in Readers : tcJob[r].at \in {"stat", "touch", "set"} => Fits(tcJob[r].on, tcJob[r].entry)

(* What an answer tells of a file. *)
About(ms, f) == {m \in ms : m.file = f}
Tells(a) == \A f \in a.affected \ a.others : About(a.found, f) = About(Matches, f)

FoundTell(found) == \A k \in DOMAIN found : Tells(found[k])
HeldTell ==
  \A r \in Readers : tcJob[r].at \in {"one", "each", "many"} => Tells(tcJob[r].answer)

CacheInv == CacheType /\ Past /\ KeptFit(tcKept) /\ HeldFit /\ FoundTell(tcSearches) /\ HeldTell

LEMMA WithMaps ==
  ASSUME NEW keys, NEW values, NEW f, Map(f, keys, values), NEW p \in keys, NEW v \in values
  PROVE  Map(With(f, p, v), keys, values)
BY DEF Map, With

LEMMA WithoutMaps ==
  ASSUME NEW keys, NEW values, NEW f, Map(f, keys, values), NEW gone
  PROVE  Map(Without(f, gone), keys, values)
BY DEF Map, Without

LEMMA NothingMaps ==
  ASSUME NEW keys, NEW values
  PROVE  Map(Nothing, keys, values) /\ DOMAIN Nothing = {}
BY DEF Map, Nothing

LEMMA IdleIsJob == Idle \in Jobs /\ NoEntry \in Entries /\ NoAnswer \in Results
BY DEF Idle, Jobs, NoEntry, Entries, NoAnswer, Results, Places, Paths

LEMMA InitKeepsInv == TcInit => CacheInv
<1> SUFFICES ASSUME TcInit PROVE CacheInv
  OBVIOUS
<1>1. CacheType
  <2>1. \A f \in Files : tcDisk[f] \in [text : Nat, time : Nat, has : BOOLEAN]
    <3> SUFFICES ASSUME NEW f \in Files
                 PROVE  tcDisk[f] \in [text : Nat, time : Nat, has : BOOLEAN]
      OBVIOUS
    <3>1. \/ tcDisk[f] = [text |-> 0, time |-> 0, has |-> FALSE]
          \/ tcDisk[f] = [text |-> 1, time |-> 1, has |-> TRUE]
      BY DEF TcInit
    <3>2. CASE tcDisk[f] = [text |-> 0, time |-> 0, has |-> FALSE]
      BY <3>2
    <3>3. CASE tcDisk[f] = [text |-> 1, time |-> 1, has |-> TRUE]
      BY <3>3
    <3>4. QED BY <3>1, <3>2, <3>3
  <2>2. tcDisk \in [Files -> [text : Nat, time : Nat, has : BOOLEAN]]
    BY <2>1 DEF TcInit
  <2>3. tcFolderAt \in Nat /\ tcClock \in Nat /\ tcJob \in [Readers -> Jobs]
    BY IdleIsJob DEF TcInit
  <2>4. Map(tcKept, Paths, Entries) /\ Map(tcSearches, {"one", "many"}, Results)
    BY NothingMaps DEF TcInit
  <2>5. QED BY <2>2, <2>3, <2>4 DEF CacheType
<1>2. Past
  BY DEF TcInit, Past
<1>3. KeptFit(tcKept) /\ FoundTell(tcSearches)
  BY NothingMaps DEF TcInit, KeptFit, FoundTell
<1>4. HeldFit /\ HeldTell
  BY DEF TcInit, HeldFit, HeldTell, Idle
<1>5. QED BY <1>1, <1>2, <1>3, <1>4 DEF CacheInv

-----------------------------------------------------------------------------
(* Changes of files *)

Replacements == Written \cup {Removed}

LEMMA ReplacementType ==
  ASSUME CacheType, NEW new \in Replacements
  PROVE  /\ new \in [text : Nat, time : Nat, has : BOOLEAN]
         /\ new.time <= tcClock + 1
         /\ new.text # 0 => new.time = tcClock + 1
<1>1. tcClock \in Nat
  BY DEF CacheType
<1>2. CASE new \in Written
  <2>1. PICK b \in BOOLEAN : new = [text |-> tcClock + 1, time |-> tcClock + 1, has |-> b]
    BY <1>2 DEF Written
  <2>2. QED BY <1>1, <2>1
<1>3. CASE new = Removed
  BY <1>1, <1>3 DEF Removed
<1>4. QED BY <1>2, <1>3 DEF Replacements

LEMMA ChangedDisk ==
  ASSUME CacheType, Past, NEW f \in Files, NEW new \in Replacements, ChangeFile(f, new)
  PROVE  /\ tcDisk' \in [Files -> [text : Nat, time : Nat, has : BOOLEAN]]
         /\ tcFolderAt' \in Nat /\ tcClock' = tcClock + 1
         /\ Past'
<1>1. new \in [text : Nat, time : Nat, has : BOOLEAN] /\ new.time <= tcClock + 1
  BY ReplacementType
<1>2. QED BY <1>1 DEF CacheType, Past, ChangeFile

(* What fits goes on to fit: the file that changes is newer than the entry *)
(* or gone, and so is its directory if it came or went.                    *)
LEMMA StillFits ==
  ASSUME CacheType, Past, NEW f \in Files, NEW new \in Replacements, ChangeFile(f, new),
         NEW p \in Paths, NEW e \in Entries, Fits(p, e)
  PROVE  Fits(p, e)'
<1>1. new \in [text : Nat, time : Nat, has : BOOLEAN]
      /\ (new.text # 0 => new.time = tcClock + 1)
  BY ReplacementType
<1>2. tcDisk' = [tcDisk EXCEPT ![f] = new] /\ tcClock' = tcClock + 1
  BY DEF ChangeFile
<1>3. e.time \in Nat /\ e.time <= tcClock /\ tcClock \in Nat
  BY DEF CacheType, Entries, Fits
<1>4. CASE p \in Files /\ p # f
  BY <1>2, <1>3, <1>4, CacheAssumption
  DEF CacheType, Fits, Unchanged, Present, Exists, ModTime, Content
<1>5. CASE p = f
  BY <1>1, <1>2, <1>3, <1>5, CacheAssumption
  DEF CacheType, Fits, Unchanged, Present, Exists, ModTime, Content
<1>6. CASE p = Folder
  <2>1. CASE Exists(f) = (new.text # 0)
    <3>1. tcFolderAt' = tcFolderAt
      BY <2>1 DEF ChangeFile
    <3>2. \A g \in Files : Exists(g)' <=> Exists(g)
      BY <1>1, <1>2, <2>1 DEF CacheType, Exists
    <3>3. Content(p)' = Content(p)
      BY <1>6, <3>2 DEF Content
    <3>4. QED BY <1>2, <1>3, <1>6, <3>1, <3>3, CacheAssumption
      DEF Fits, Unchanged, Present, ModTime
  <2>2. CASE Exists(f) # (new.text # 0)
    <3>1. tcFolderAt' = tcClock + 1
      BY <2>2 DEF ChangeFile
    <3>2. QED BY <1>2, <1>3, <1>6, <3>1, CacheAssumption DEF Fits, Unchanged, ModTime
  <2>3. QED BY <2>1, <2>2
<1>7. QED BY <1>4, <1>5, <1>6 DEF Paths

(* A step leaves the files alone, or changes one of them. *)
WorldStep ==
  \/ UNCHANGED <<tcDisk, tcFolderAt, tcClock>>
  \/ \E f \in Files, new \in Replacements : ChangeFile(f, new)

LEMMA WorldKeeps ==
  ASSUME CacheType, Past, WorldStep
  PROVE  /\ tcDisk' \in [Files -> [text : Nat, time : Nat, has : BOOLEAN]]
         /\ tcFolderAt' \in Nat /\ tcClock' \in Nat
         /\ Past'
<1>1. CASE UNCHANGED <<tcDisk, tcFolderAt, tcClock>>
  BY <1>1 DEF CacheType, Past
<1>2. CASE \E f \in Files, new \in Replacements : ChangeFile(f, new)
  BY <1>2, ChangedDisk DEF CacheType
<1>3. QED BY <1>1, <1>2 DEF WorldStep

LEMMA FitsOn ==
  ASSUME CacheType, Past, WorldStep, NEW p \in Paths, NEW e \in Entries, Fits(p, e)
  PROVE  Fits(p, e)'
<1>1. CASE UNCHANGED <<tcDisk, tcFolderAt, tcClock>>
  BY <1>1 DEF Fits, Unchanged, Present, Exists, ModTime, Content
<1>2. CASE \E f \in Files, new \in Replacements : ChangeFile(f, new)
  BY <1>2, StillFits
<1>3. QED BY <1>1, <1>2 DEF WorldStep

LEMMA KeptNext ==
  ASSUME CacheType, Past, WorldStep,
         NEW kept, Map(kept, Paths, Entries), KeptFit(kept), tcKept' = kept
  PROVE  Map(tcKept, Paths, Entries)' /\ KeptFit(tcKept)'
<1>1. Map(tcKept, Paths, Entries)'
  BY DEF Map
<1>2. ASSUME NEW p \in DOMAIN kept PROVE Fits(p, kept[p])'
  BY <1>2, FitsOn DEF KeptFit, Map
<1>3. KeptFit(tcKept)'
  BY <1>2 DEF KeptFit, Fits, Unchanged
<1>4. QED BY <1>1, <1>3

(* Entries that are kept elsewhere, or not any more. *)
LEMMA KeptWith ==
  ASSUME NEW kept, Map(kept, Paths, Entries), KeptFit(kept),
         NEW p \in Paths, NEW e \in Entries, Fits(p, e)
  PROVE  Map(With(kept, p, e), Paths, Entries) /\ KeptFit(With(kept, p, e))
<1> DEFINE next == With(kept, p, e)
<1>1. Map(next, Paths, Entries)
  BY WithMaps
<1>2. /\ DOMAIN next = DOMAIN kept \cup {p} /\ next[p] = e
      /\ \A q \in DOMAIN kept : q # p => next[q] = kept[q]
  BY DEF With
<1> HIDE DEF next
<1>3. ASSUME NEW q \in DOMAIN next PROVE Fits(q, next[q])
  <2>1. CASE q = p
    BY <1>2, <2>1
  <2>2. CASE q # p
    BY <1>2, <1>3, <2>2 DEF KeptFit
  <2>3. QED BY <2>1, <2>2
<1>4. KeptFit(next)
  BY <1>3 DEF KeptFit
<1>5. QED BY <1>1, <1>4 DEF next

LEMMA KeptWithout ==
  ASSUME NEW kept, Map(kept, Paths, Entries), KeptFit(kept), NEW gone
  PROVE  Map(Without(kept, gone), Paths, Entries) /\ KeptFit(Without(kept, gone))
<1> DEFINE next == Without(kept, gone)
<1>1. Map(next, Paths, Entries)
  BY WithoutMaps
<1>2. DOMAIN next = DOMAIN kept \ gone /\ \A q \in DOMAIN next : next[q] = kept[q]
  BY DEF Without
<1> HIDE DEF next
<1>3. ASSUME NEW q \in DOMAIN next PROVE Fits(q, next[q])
  BY <1>2, <1>3 DEF KeptFit
<1>4. KeptFit(next)
  BY <1>3 DEF KeptFit
<1>5. QED BY <1>1, <1>4 DEF next

(* What an answer tells of another file is not touched. *)
LEMMA StillTells ==
  ASSUME CacheType, NEW f \in Files, NEW new \in Replacements, ChangeFile(f, new),
         NEW g \in Files, g # f
  PROVE  About(Matches, g)' = About(Matches, g)
<1>1. tcDisk'[g] = tcDisk[g]
  BY DEF CacheType, ChangeFile
<1>2. QED BY <1>1 DEF About, Matches

-----------------------------------------------------------------------------
(* A goroutine goes on, and no file changes. *)

LEMMA JobMoves ==
  ASSUME CacheInv, UNCHANGED <<tcDisk, tcFolderAt, tcClock>>, NEW r \in Readers,
         NEW job \in Jobs, tcJob' = [tcJob EXCEPT ![r] = job],
         job.at \in {"stat", "touch", "set"} => Fits(job.on, job.entry),
         job.at \in {"one", "each", "many"} => Tells(job.answer)
  PROVE  tcJob' \in [Readers -> Jobs] /\ HeldFit' /\ HeldTell'
<1>1. tcJob' \in [Readers -> Jobs]
  BY DEF CacheInv, CacheType
<1>2. ASSUME NEW q \in Readers, tcJob'[q].at \in {"stat", "touch", "set"}
      PROVE  Fits(tcJob'[q].on, tcJob'[q].entry)
  BY <1>2 DEF CacheInv, CacheType, HeldFit
<1>3. ASSUME NEW q \in Readers, tcJob'[q].at \in {"one", "each", "many"}
      PROVE  Tells(tcJob'[q].answer)
  BY <1>3 DEF CacheInv, CacheType, HeldTell
<1>4. HeldFit'
  BY <1>2 DEF HeldFit, Fits, Unchanged, Present, Exists, ModTime, Content
<1>5. HeldTell'
  BY <1>3 DEF HeldTell, Tells, About, Matches
<1>6. QED BY <1>1, <1>4, <1>5

LEMMA FoundNext ==
  ASSUME UNCHANGED tcDisk, NEW found, Map(found, {"one", "many"}, Results), FoundTell(found),
         tcSearches' = found
  PROVE  Map(tcSearches, {"one", "many"}, Results)' /\ FoundTell(tcSearches)'
BY DEF Map, FoundTell, Tells, About, Matches

(* The job of a goroutine, and what the cache holds, after its step. *)
LEMMA ReaderStep ==
  ASSUME CacheInv, UNCHANGED <<tcDisk, tcFolderAt, tcClock>>, NEW r \in Readers,
         NEW job \in Jobs, tcJob' = [tcJob EXCEPT ![r] = job],
         job.at \in {"stat", "touch", "set"} => Fits(job.on, job.entry),
         job.at \in {"one", "each", "many"} => Tells(job.answer),
         NEW kept, Map(kept, Paths, Entries), KeptFit(kept), tcKept' = kept,
         NEW found, Map(found, {"one", "many"}, Results), FoundTell(found), tcSearches' = found
  PROVE  CacheInv'
<1>1. WorldStep /\ CacheType /\ Past
  BY DEF WorldStep, CacheInv
<1>2. tcJob' \in [Readers -> Jobs] /\ HeldFit' /\ HeldTell'
  BY JobMoves
<1>3. Map(tcKept, Paths, Entries)' /\ KeptFit(tcKept)'
  BY <1>1, KeptNext
<1>4. Map(tcSearches, {"one", "many"}, Results)' /\ FoundTell(tcSearches)'
  BY FoundNext
<1>5. CacheType' /\ Past'
  BY <1>1, <1>2, <1>3, <1>4, WorldKeeps DEF CacheType
<1>6. QED BY <1>2, <1>3, <1>4, <1>5 DEF CacheInv

LEMMA ReadKeepsInv ==
  ASSUME CacheInv, NEW r \in Readers, NEW p \in Paths, Read(r, p)
  PROVE  CacheInv'
<1> DEFINE entry == IF p \in DOMAIN tcKept THEN tcKept[p] ELSE NoEntry
           job == [Idle EXCEPT !.at = IF p \in DOMAIN tcKept THEN "stat" ELSE "load",
                               !.on = p, !.entry = entry]
<1>1. entry \in Entries /\ (p \in DOMAIN tcKept => Fits(p, entry))
  BY IdleIsJob DEF CacheInv, CacheType, Map, KeptFit
<1>2. tcJob' = [tcJob EXCEPT ![r] = job]
  BY DEF Read
<1> HIDE DEF entry
<1>3. job \in Jobs /\ job.on = p /\ job.entry = entry
      /\ job.at = (IF p \in DOMAIN tcKept THEN "stat" ELSE "load")
  BY <1>1, IdleIsJob DEF Idle, Jobs, Places
<1> HIDE DEF job
<1>4. UNCHANGED <<tcDisk, tcFolderAt, tcClock>> /\ UNCHANGED tcKept /\ UNCHANGED tcSearches
  BY DEF Read
<1>5. QED BY <1>1, <1>2, <1>3, <1>4, ReaderStep DEF CacheInv, CacheType

LEMMA StatKeepsInv ==
  ASSUME CacheInv, NEW r \in Readers, StatEntry(r)
  PROVE  CacheInv'
<1> DEFINE job == [tcJob[r] EXCEPT !.at =
                     IF Unchanged(tcJob[r].on, tcJob[r].entry) THEN "touch" ELSE "drop"]
<1>1. tcJob' = [tcJob EXCEPT ![r] = job]
  BY DEF StatEntry, Goes, CacheInv, CacheType
<1>2. tcJob[r] \in Jobs /\ Fits(tcJob[r].on, tcJob[r].entry)
  BY DEF StatEntry, CacheInv, CacheType, HeldFit
<1>3. job \in Jobs /\ job.on = tcJob[r].on /\ job.entry = tcJob[r].entry
      /\ job.at \in {"touch", "drop"}
  BY <1>2 DEF Jobs, Places
<1> HIDE DEF job
<1>4. UNCHANGED <<tcDisk, tcFolderAt, tcClock>> /\ UNCHANGED tcKept /\ UNCHANGED tcSearches
  BY DEF StatEntry
<1>5. QED BY <1>1, <1>2, <1>3, <1>4, ReaderStep DEF CacheInv, CacheType

LEMMA TouchKeepsInv ==
  ASSUME CacheInv, NEW r \in Readers, TouchEntry(r)
  PROVE  CacheInv'
<1> DEFINE kept == With(tcKept, tcJob[r].on, tcJob[r].entry)
<1>1. tcJob[r].on \in Paths /\ tcJob[r].entry \in Entries /\ Fits(tcJob[r].on, tcJob[r].entry)
  BY DEF TouchEntry, CacheInv, CacheType, HeldFit, Jobs
<1>2. Map(kept, Paths, Entries) /\ KeptFit(kept)
  BY <1>1, KeptWith DEF CacheInv, CacheType
<1>3. Idle \in Jobs /\ Idle.at = "idle"
  BY IdleIsJob DEF Idle
<1>4. UNCHANGED <<tcDisk, tcFolderAt, tcClock>> /\ UNCHANGED tcSearches
      /\ tcKept' = kept /\ tcJob' = [tcJob EXCEPT ![r] = Idle]
  BY DEF TouchEntry
<1> HIDE DEF kept
<1>5. QED BY <1>2, <1>3, <1>4, ReaderStep DEF CacheInv, CacheType

LEMMA DropKeepsInv ==
  ASSUME CacheInv, NEW r \in Readers, DropEntry(r)
  PROVE  CacheInv'
<1> DEFINE kept == Without(tcKept, {tcJob[r].on})
           job == [tcJob[r] EXCEPT !.at = "load"]
<1>1. Map(kept, Paths, Entries) /\ KeptFit(kept)
  BY KeptWithout DEF CacheInv, CacheType
<1>2. job \in Jobs /\ job.at = "load"
  BY DEF CacheInv, CacheType, Jobs, Places
<1>3. UNCHANGED <<tcDisk, tcFolderAt, tcClock>> /\ UNCHANGED tcSearches
      /\ tcKept' = kept /\ tcJob' = [tcJob EXCEPT ![r] = job]
  BY DEF DropEntry, Goes, CacheInv, CacheType
<1> HIDE DEF kept, job
<1>4. QED BY <1>1, <1>2, <1>3, ReaderStep DEF CacheInv, CacheType

LEMMA LoadKeepsInv ==
  ASSUME CacheInv, NEW r \in Readers, LoadContent(r)
  PROVE  CacheInv'
<1> DEFINE p == tcJob[r].on
           job == IF Present(p) THEN [tcJob[r] EXCEPT !.at = "restat", !.entry.content = Content(p)]
                  ELSE Idle
<1>1. tcJob[r] \in Jobs
  BY DEF CacheInv, CacheType
<1>2. Present(p) => Content(p) \in Nat \cup SUBSET Files
  BY <1>1 DEF CacheInv, CacheType, Content, Jobs, Paths
<1>3. job \in Jobs /\ job.at \in {"restat", "idle"}
  <2>1. CASE Present(p)
    <3>1. [tcJob[r].entry EXCEPT !.content = Content(p)] \in Entries
      BY <1>1, <1>2, <2>1 DEF Jobs, Entries
    <3>2. QED BY <1>1, <2>1, <3>1 DEF Jobs, Places
  <2>2. CASE ~Present(p)
    BY <2>2, IdleIsJob DEF Idle
  <2>3. QED BY <2>1, <2>2
<1>4. UNCHANGED <<tcDisk, tcFolderAt, tcClock>> /\ UNCHANGED tcKept /\ UNCHANGED tcSearches
      /\ tcJob' = [tcJob EXCEPT ![r] = job]
  BY DEF LoadContent, CacheInv, CacheType
<1> HIDE DEF job
<1>5. QED BY <1>3, <1>4, ReaderStep DEF CacheInv, CacheType

(* The time is that of the file as it is, and "clean" tells whether what   *)
(* was read is in it.                                                      *)
LEMMA RestatKeepsInv ==
  ASSUME CacheInv, NEW r \in Readers, StatForStore(r)
  PROVE  CacheInv'
<1> DEFINE p == tcJob[r].on
           old == tcJob[r].entry
           entry == [old EXCEPT !.time = ModTime(p), !.clean = Content(p) = old.content]
           job == IF Present(p) THEN [tcJob[r] EXCEPT !.at = "set", !.entry = entry] ELSE Idle
<1>1. tcJob[r] \in Jobs /\ p \in Paths /\ old \in Entries
  BY DEF CacheInv, CacheType, Jobs
<1>2. ModTime(p) \in Nat /\ ModTime(p) <= tcClock
  BY <1>1 DEF CacheInv, CacheType, Past, ModTime, Paths
<1>3. /\ entry \in Entries /\ entry.time = ModTime(p) /\ entry.content = old.content
      /\ entry.clean => Content(p) = old.content
  BY <1>1, <1>2 DEF Entries
<1>4. Fits(p, entry)
  BY <1>2, <1>3 DEF Fits
<1>5. UNCHANGED <<tcDisk, tcFolderAt, tcClock>> /\ UNCHANGED tcKept /\ UNCHANGED tcSearches
      /\ tcJob' = [tcJob EXCEPT ![r] = job]
  BY DEF StatForStore, CacheInv, CacheType, Jobs, Entries
<1> HIDE DEF entry
<1>6. job \in Jobs /\ (job.at \in {"set", "idle"}) /\ (job.at = "set" => job.on = p /\ job.entry = entry)
  <2>1. CASE Present(p)
    BY <1>1, <1>3, <2>1 DEF Jobs, Places
  <2>2. CASE ~Present(p)
    BY <2>2, IdleIsJob DEF Idle
  <2>3. QED BY <2>1, <2>2
<1> HIDE DEF job
<1>7. QED BY <1>4, <1>5, <1>6, ReaderStep DEF CacheInv, CacheType

LEMMA StoreKeepsInv ==
  ASSUME CacheInv, NEW r \in Readers, StoreEntry(r)
  PROVE  CacheInv'
<1> DEFINE kept == With(tcKept, tcJob[r].on, tcJob[r].entry)
<1>1. tcJob[r].on \in Paths /\ tcJob[r].entry \in Entries /\ Fits(tcJob[r].on, tcJob[r].entry)
  BY DEF StoreEntry, CacheInv, CacheType, HeldFit, Jobs
<1>2. Map(kept, Paths, Entries) /\ KeptFit(kept)
  BY <1>1, KeptWith DEF CacheInv, CacheType
<1>3. tcKept' = kept \/ \E gone : tcKept' = Without(kept, gone)
  BY DEF StoreEntry, Pruned
<1> HIDE DEF kept
<1>4. Map(tcKept', Paths, Entries) /\ KeptFit(tcKept')
  BY <1>2, <1>3, KeptWithout
<1>5. Idle \in Jobs /\ Idle.at = "idle"
  BY IdleIsJob DEF Idle
<1>6. UNCHANGED <<tcDisk, tcFolderAt, tcClock>> /\ UNCHANGED tcSearches
      /\ tcJob' = [tcJob EXCEPT ![r] = Idle]
  BY DEF StoreEntry
<1>7. QED BY <1>4, <1>5, <1>6, ReaderStep DEF CacheInv, CacheType

LEMMA FoundTells == ASSUME CacheInv PROVE Found \in Results /\ Tells(Found)
<1>1. Matches \in SUBSET [file : Files, text : Nat]
  BY DEF CacheInv, CacheType, Matches
<1>2. collectFilePaths(Matches) \in SUBSET Files
  BY <1>1 DEF collectFilePaths
<1>3. QED BY <1>1, <1>2 DEF Found, Results, Tells

(* Both kinds of search put an answer into the hand of a goroutine. *)
LEMMA InHandKeepsInv ==
  ASSUME CacheInv, NEW r \in Readers, UNCHANGED <<tcDisk, tcFolderAt, tcClock, tcKept, tcSearches>>,
         NEW place \in {"one", "each", "many"}, NEW answer \in Results, Tells(answer),
         tcJob' = [tcJob EXCEPT ![r] = [Idle EXCEPT !.at = place, !.answer = answer]]
  PROVE  CacheInv'
<1> DEFINE job == [Idle EXCEPT !.at = place, !.answer = answer]
<1>1. job \in Jobs /\ job.at = place /\ job.answer = answer
  BY IdleIsJob DEF Idle, Jobs, Places
<1>2. tcJob' = [tcJob EXCEPT ![r] = job]
  OBVIOUS
<1> HIDE DEF job
<1>3. QED BY <1>1, <1>2, ReaderStep DEF CacheInv, CacheType

LEMMA SearchKeepsInv ==
  ASSUME CacheInv, NEW r \in Readers, Search(r) \/ SearchMany(r)
  PROVE  CacheInv'
<1>1. CASE Search(r)
  BY <1>1, FoundTells, InHandKeepsInv DEF Search
<1>2. CASE SearchMany(r)
  <2>1. CASE "one" \in DOMAIN tcSearches
    <3>1. tcSearches["one"] \in Results /\ Tells(tcSearches["one"])
      BY <2>1 DEF CacheInv, CacheType, Map, FoundTell
    <3>2. QED BY <1>2, <2>1, <3>1, InHandKeepsInv DEF SearchMany
  <2>2. CASE "one" \notin DOMAIN tcSearches
    BY <1>2, <2>2, FoundTells, InHandKeepsInv DEF SearchMany
  <2>3. QED BY <2>1, <2>2
<1>3. QED BY <1>1, <1>2

LEMMA FoundWith ==
  ASSUME NEW found, Map(found, {"one", "many"}, Results), FoundTell(found),
         NEW k \in {"one", "many"}, NEW a \in Results, Tells(a)
  PROVE  Map(With(found, k, a), {"one", "many"}, Results) /\ FoundTell(With(found, k, a))
<1>1. Map(With(found, k, a), {"one", "many"}, Results)
  BY WithMaps
<1>2. FoundTell(With(found, k, a))
  BY DEF With, FoundTell
<1>3. QED BY <1>1, <1>2

LEMMA SetSearchKeepsInv ==
  ASSUME CacheInv, NEW r \in Readers, SetSearch(r)
  PROVE  CacheInv'
<1> DEFINE old == tcJob[r]
           job == IF old.at = "each" THEN [old EXCEPT !.at = "many"] ELSE Idle
<1>1. old \in Jobs /\ old.answer \in Results /\ Tells(old.answer)
  BY DEF SetSearch, CacheInv, CacheType, HeldTell, Jobs
<1>2. Map(tcSearches', {"one", "many"}, Results) /\ FoundTell(tcSearches')
  <2>1. CASE tcSearches' = tcSearches
    BY <2>1 DEF CacheInv, CacheType
  <2>2. CASE \E k \in {"one", "many"} : tcSearches' = With(tcSearches, k, old.answer)
    BY <1>1, <2>2, FoundWith DEF CacheInv, CacheType
  <2>3. QED BY <2>1, <2>2 DEF SetSearch
<1>3. tcJob' = [tcJob EXCEPT ![r] = job]
  BY DEF SetSearch, CacheInv, CacheType
<1>4. /\ job \in Jobs
      /\ job.at \in {"many", "idle"}
      /\ job.at = "many" => job.answer = old.answer
  <2>1. CASE old.at = "each"
    BY <1>1, <2>1 DEF Jobs, Places
  <2>2. CASE old.at # "each"
    BY <2>2, IdleIsJob DEF Idle
  <2>3. QED BY <2>1, <2>2
<1>5. UNCHANGED <<tcDisk, tcFolderAt, tcClock>> /\ UNCHANGED tcKept
  BY DEF SetSearch
<1> HIDE DEF old, job
<1>6. QED BY <1>1, <1>2, <1>3, <1>4, <1>5, ReaderStep DEF CacheInv, CacheType

LEMMA ReaderKeepsInv ==
  ASSUME CacheInv, NEW r \in Readers, Reader(r)
  PROVE  CacheInv'
BY ReadKeepsInv, StatKeepsInv, TouchKeepsInv, DropKeepsInv, LoadKeepsInv, RestatKeepsInv,
   StoreKeepsInv, SearchKeepsInv, SetSearchKeepsInv
DEF Reader

-----------------------------------------------------------------------------
(* Files change: by a tool that runs alone, when no goroutine has anything *)
(* in hand, or by others at any time.                                      *)

LEMMA AloneStep ==
  ASSUME CacheInv, Alone, WorldStep, UNCHANGED tcJob,
         NEW kept, Map(kept, Paths, Entries), KeptFit(kept), tcKept' = kept,
         Map(tcSearches, {"one", "many"}, Results)', FoundTell(tcSearches)'
  PROVE  CacheInv'
<1>1. CacheType /\ Past
  BY DEF CacheInv
<1>2. Map(tcKept, Paths, Entries)' /\ KeptFit(tcKept)'
  BY <1>1, KeptNext
<1>3. CacheType' /\ Past'
  BY <1>1, <1>2, WorldKeeps DEF CacheType
<1>4. HeldFit' /\ HeldTell'
  BY DEF Alone, HeldFit, HeldTell
<1>5. QED BY <1>2, <1>3, <1>4 DEF CacheInv

(* The answers that tell of the file go, the others tell of other files.   *)
LEMMA Forgotten ==
  ASSUME CacheInv, NEW f \in Files, InvalidateSearchCacheForFile(f),
         \/ UNCHANGED tcDisk
         \/ \E new \in Replacements : ChangeFile(f, new)
  PROVE  Map(tcSearches, {"one", "many"}, Results)' /\ FoundTell(tcSearches)'
<1> DEFINE gone == {k \in DOMAIN tcSearches : f \in tcSearches[k].affected}
<1>1. tcSearches' = Without(tcSearches, gone)
  BY DEF InvalidateSearchCacheForFile
<1>2. Map(tcSearches', {"one", "many"}, Results)
  BY <1>1, WithoutMaps DEF CacheInv, CacheType
<1>3. ASSUME NEW k \in DOMAIN tcSearches',
             NEW g \in tcSearches'[k].affected \ tcSearches'[k].others
      PROVE  About(tcSearches'[k].found, g) = About(Matches, g)'
  <2>1. k \in DOMAIN tcSearches /\ tcSearches'[k] = tcSearches[k] /\ g # f
    BY <1>1, <1>3 DEF Without
  <2>2. About(tcSearches[k].found, g) = About(Matches, g) /\ g \in Files
    BY <1>3, <2>1 DEF CacheInv, CacheType, Map, Results, FoundTell, Tells
  <2>3. CASE UNCHANGED tcDisk
    BY <2>1, <2>2, <2>3 DEF About, Matches
  <2>4. CASE \E new \in Replacements : ChangeFile(f, new)
    BY <2>1, <2>2, <2>4, StillTells DEF CacheInv
  <2>5. QED BY <2>3, <2>4
<1>4. FoundTell(tcSearches)'
  BY <1>3 DEF FoundTell, Tells, About
<1>5. QED BY <1>2, <1>4 DEF Map

LEMMA WriteKeepsInv ==
  ASSUME CacheInv, NEW f \in Files, WriteFile(f)
  PROVE  CacheInv'
<1> DEFINE kept == Without(tcKept, {f})
<1>1. Map(kept, Paths, Entries) /\ KeptFit(kept) /\ tcKept' = kept
  BY KeptWithout DEF CacheInv, CacheType, WriteFile
<1>2. \/ UNCHANGED <<tcDisk, tcFolderAt, tcClock>>
      \/ \E new \in Replacements : ChangeFile(f, new)
  BY DEF WriteFile, Replacements
<1>3. WorldStep /\ Alone /\ UNCHANGED tcJob
  BY <1>2 DEF WriteFile, WorldStep
<1>4. Map(tcSearches, {"one", "many"}, Results)' /\ FoundTell(tcSearches)'
  BY <1>2, Forgotten DEF WriteFile
<1> HIDE DEF kept
<1>5. QED BY <1>1, <1>3, <1>4, AloneStep

LEMMA DeleteKeepsInv ==
  ASSUME CacheInv, NEW f \in Files, DeleteFile(f)
  PROVE  CacheInv'
<1> DEFINE kept == Without(tcKept, {f, Folder})
<1>1. Map(kept, Paths, Entries) /\ KeptFit(kept) /\ tcKept' = kept
  BY KeptWithout DEF CacheInv, CacheType, DeleteFile
<1>2. \E new \in Replacements : ChangeFile(f, new)
  BY DEF DeleteFile, Replacements
<1>3. WorldStep /\ Alone /\ UNCHANGED tcJob
  BY <1>2 DEF DeleteFile, WorldStep
<1>4. Map(tcSearches, {"one", "many"}, Results)' /\ FoundTell(tcSearches)'
  BY <1>2, Forgotten DEF DeleteFile
<1> HIDE DEF kept
<1>5. QED BY <1>1, <1>3, <1>4, AloneStep

LEMMA NothingHeld ==
  ASSUME tcSearches' = Nothing
  PROVE  Map(tcSearches, {"one", "many"}, Results)' /\ FoundTell(tcSearches)'
<1>1. Map(tcSearches', {"one", "many"}, Results) /\ DOMAIN tcSearches' = {}
  BY NothingMaps
<1>2. QED BY <1>1 DEF Map, FoundTell

LEMMA ClearKeepsInv ==
  ASSUME CacheInv, NEW f \in Files, ChangeAny(f)
  PROVE  CacheInv'
<1>1. Map(Nothing, Paths, Entries) /\ KeptFit(Nothing) /\ tcKept' = Nothing
  BY NothingMaps DEF KeptFit, ChangeAny
<1>2. WorldStep /\ Alone /\ UNCHANGED tcJob
  BY DEF ChangeAny, WorldStep, Replacements
<1>3. tcSearches' = Nothing
  BY DEF ChangeAny
<1>4. QED BY <1>1, <1>2, <1>3, NothingHeld, AloneStep

(* What an answer tells of the files as they are after the step.           *)
TellsNext(a) == \A f \in a.affected \ a.others : About(a.found, f) = About(Matches', f)
Told(a, f) == [a EXCEPT !.others = @ \cup {f}]

(* An answer that is told of the change by its ghost goes on to tell.      *)
LEMMA TellsOn ==
  ASSUME CacheInv, NEW f \in Files, NEW new \in Replacements, ChangeFile(f, new),
         NEW a \in Results, Tells(a)
  PROVE  Told(a, f) \in Results /\ TellsNext(Told(a, f))
<1> DEFINE b == Told(a, f)
<1>1. b \in Results /\ b.found = a.found /\ b.affected = a.affected
      /\ b.others = a.others \cup {f}
  BY DEF Results, Told
<1> HIDE DEF b
<1>2. ASSUME NEW g \in b.affected \ b.others PROVE About(b.found, g) = About(Matches', g)
  <2>1. g \in Files /\ g # f /\ g \in a.affected \ a.others
    BY <1>1, <1>2 DEF Results
  <2>2. About(Matches, g)' = About(Matches', g)
    BY DEF About
  <2>3. QED BY <1>1, <2>1, <2>2, StillTells DEF CacheInv, Tells
<1>3. TellsNext(b)
  BY <1>2 DEF TellsNext
<1>4. QED BY <1>1, <1>3 DEF b

LEMMA OthersKeepInv ==
  ASSUME CacheInv, NEW f \in Files, ChangedByOthers(f)
  PROVE  CacheInv'
<1> DEFINE Holds(r) == tcJob[r].at \in {"one", "each", "many"}
<1>1. PICK new \in Replacements : ChangeFile(f, new)
  BY DEF ChangedByOthers, Replacements
<1>2. WorldStep /\ CacheType /\ Past /\ tcKept' = tcKept
  BY <1>1 DEF WorldStep, CacheInv, ChangedByOthers
<1>3. Map(tcKept, Paths, Entries)' /\ KeptFit(tcKept)'
  BY <1>2, KeptNext DEF CacheInv, CacheType
<1>4. Map(tcSearches, {"one", "many"}, Results)' /\ FoundTell(tcSearches)'
  <2>1. tcSearches' = [k \in DOMAIN tcSearches |-> Told(tcSearches[k], f)]
    BY DEF ChangedByOthers, Told
  <2>2. ASSUME NEW k \in DOMAIN tcSearches
        PROVE  Told(tcSearches[k], f) \in Results /\ TellsNext(Told(tcSearches[k], f))
    BY <1>1, TellsOn DEF CacheInv, CacheType, Map, FoundTell
  <2>3. Map(tcSearches', {"one", "many"}, Results)
    BY <2>1, <2>2 DEF CacheInv, CacheType, Map
  <2>4. \A k \in DOMAIN tcSearches' : TellsNext(tcSearches'[k])
    BY <2>1, <2>2
  <2>5. QED BY <2>3, <2>4 DEF Map, FoundTell, Tells, TellsNext, About
<1>5. ASSUME NEW r \in Readers
      PROVE  /\ tcJob'[r] \in Jobs
             /\ tcJob'[r].at = tcJob[r].at /\ tcJob'[r].on = tcJob[r].on
             /\ tcJob'[r].entry = tcJob[r].entry
             /\ Holds(r) => TellsNext(tcJob'[r].answer)
  <2>1. tcJob[r] \in Jobs /\ (Holds(r) => Tells(tcJob[r].answer))
    BY DEF CacheInv, CacheType, HeldTell
  <2>2. tcJob'[r] = IF Holds(r) THEN [tcJob[r] EXCEPT !.answer.others = @ \cup {f}] ELSE tcJob[r]
    BY DEF ChangedByOthers
  <2>3. CASE Holds(r)
    <3>1. Told(tcJob[r].answer, f) \in Results /\ TellsNext(Told(tcJob[r].answer, f))
      BY <1>1, <2>1, <2>3, TellsOn DEF Jobs
    <3>2. tcJob'[r] = [tcJob[r] EXCEPT !.answer = Told(tcJob[r].answer, f)]
      BY <2>1, <2>2, <2>3 DEF Told
    <3>3. tcJob'[r].answer = Told(tcJob[r].answer, f)
      BY <2>1, <3>2 DEF Jobs
    <3>4. QED BY <2>1, <3>1, <3>2, <3>3 DEF Jobs
  <2>4. CASE ~Holds(r)
    BY <2>1, <2>2, <2>4
  <2>5. QED BY <2>3, <2>4
<1>6. tcJob' \in [Readers -> Jobs]
  BY <1>5 DEF ChangedByOthers
<1>7. HeldFit'
  <2>1. ASSUME NEW r \in Readers, tcJob'[r].at \in {"stat", "touch", "set"}
        PROVE  Fits(tcJob[r].on, tcJob[r].entry)'
    <3>1. /\ tcJob[r].on \in Paths /\ tcJob[r].entry \in Entries
          /\ Fits(tcJob[r].on, tcJob[r].entry)
      BY <1>5, <2>1 DEF CacheInv, CacheType, Jobs, HeldFit
    <3> DEFINE p == tcJob[r].on
               e == tcJob[r].entry
    <3>2. p' = p /\ e' = e
      BY <1>5
    <3>3. Fits(p, e)'
      BY <1>2, <3>1, <3>2, FitsOn
    <3>4. QED BY <3>3
  <2>2. QED BY <2>1 DEF HeldFit
<1>8. HeldTell'
  BY <1>5 DEF HeldTell, Tells, TellsNext, About
<1>9. CacheType' /\ Past'
  BY <1>2, <1>3, <1>4, <1>6, WorldKeeps DEF CacheType
<1>10. QED BY <1>3, <1>4, <1>7, <1>8, <1>9 DEF CacheInv

(* Load: what is left of the entries are some of them.                     *)
LEMMA RestartKeepsInv ==
  ASSUME CacheInv, NextProcess
  PROVE  CacheInv'
<1>1. WorldStep /\ CacheType /\ Past
  BY DEF WorldStep, NextProcess, CacheInv
<1>2. Map(tcKept', Paths, Entries) /\ KeptFit(tcKept')
  <2>1. CASE tcKept' = Load(tcKept)
    BY <2>1 DEF CacheInv, CacheType, Load, Map, KeptFit
  <2>2. CASE tcKept' = Nothing
    BY <2>2, NothingMaps DEF KeptFit
  <2>3. QED BY <2>1, <2>2 DEF NextProcess
<1>3. Map(tcKept, Paths, Entries)' /\ KeptFit(tcKept)'
  BY <1>1, <1>2, KeptNext
<1>4. Map(tcSearches, {"one", "many"}, Results)' /\ FoundTell(tcSearches)'
  BY NothingHeld DEF NextProcess
<1>5. tcJob' \in [Readers -> Jobs] /\ HeldFit' /\ HeldTell'
  BY IdleIsJob DEF NextProcess, HeldFit, HeldTell, Idle
<1>6. CacheType' /\ Past'
  BY <1>1, <1>3, <1>4, <1>5, WorldKeeps DEF CacheType
<1>7. QED BY <1>3, <1>4, <1>5, <1>6 DEF CacheInv

LEMMA StutterKeepsInv == ASSUME CacheInv, UNCHANGED tcVars PROVE CacheInv'
<1>1. UNCHANGED <<tcDisk, tcFolderAt, tcClock>> /\ WorldStep /\ tcKept' = tcKept
      /\ tcSearches' = tcSearches /\ tcJob' = tcJob
  BY DEF tcVars, WorldStep
<1>2. CacheType' /\ Past'
  BY <1>1 DEF CacheInv, CacheType, Past, Map
<1>3. KeptFit(tcKept)' /\ HeldFit'
  BY <1>1 DEF CacheInv, KeptFit, HeldFit, Fits, Unchanged, Present, Exists, ModTime, Content
<1>4. FoundTell(tcSearches)' /\ HeldTell'
  BY <1>1 DEF CacheInv, FoundTell, HeldTell, Tells, About, Matches
<1>5. QED BY <1>2, <1>3, <1>4 DEF CacheInv

LEMMA StepKeepsInv == CacheInv /\ [TcNext]_tcVars => CacheInv'
BY ReaderKeepsInv, WriteKeepsInv, DeleteKeepsInv, ClearKeepsInv, OthersKeepInv,
   RestartKeepsInv, StutterKeepsInv
DEF TcNext

LEMMA InvShowsCurrent == CacheInv => CachedReadCurrent
BY DEF CacheInv, KeptFit, Fits, CachedReadCurrent

LEMMA InvShowsEdits == CacheInv => AnswerKnowsOwnEdits
BY DEF CacheInv, FoundTell, Tells, About, AnswerKnowsOwnEdits

(* What GetFile or GetDir would answer from the cache is what the file     *)
(* holds, however goroutines put entries back over each other, tools and   *)
(* others change files and processes follow each other; but for a file     *)
(* that changed between being read and being timed (SetFile).              *)
THEOREM ReadsAreCurrent == TcSpec => []CachedReadCurrent
<1>1. QED BY InvShowsCurrent, InitKeepsInv, StepKeepsInv, PTL DEF TcSpec

(* An answer of a search that is still kept is true of each file it lists, *)
(* for as long as only the agent's own tools change files                  *)
(* (InvalidateSearchCacheForFile, Clear).                                  *)
THEOREM AnswersKnowEdits == TcSpec => []AnswerKnowsOwnEdits
<1>1. QED BY InvShowsEdits, InitKeepsInv, StepKeepsInv, PTL DEF TcSpec

----------------------------------------------------------------------------
(***************************************************************************)
(***************************************************************************)

-----------------------------------------------------------------------------
(* Types, with the bound on time: they depend on each other, since what is *)
(* in the hand of a goroutine is kept, and what is kept is taken in hand.  *)

Times == 0 .. MaxFileTime
SmallEntries == [content : Times \cup SUBSET Files, time : Times, clean : BOOLEAN]
Suits(p, c) == IF p = Folder THEN c \in SUBSET Files ELSE c \in Times
GoodEntry(p, e) == e \in SmallEntries /\ Suits(p, e.content)

SmallFiles == [text : Times, time : Times, has : BOOLEAN]
DiskBounded ==
  /\ tcDisk \in [Files -> SmallFiles]
  /\ \A f \in Files : tcDisk[f].has => tcDisk[f].text # 0
ClockBounded == tcClock \in 1 .. MaxFileTime /\ tcFolderAt \in 1 .. tcClock

KeptOK(kept) == DOMAIN kept \subseteq Paths /\ \A p \in DOMAIN kept : GoodEntry(p, kept[p])
FoundOK(found) == DOMAIN found \subseteq {"one", "many"} /\ \A k \in DOMAIN found : found[k] \in Answers

SmallJobs == [at : Places, on : Paths, entry : SmallEntries, answer : Answers]
GoodJob(job) ==
  /\ job \in SmallJobs
  /\ job.at \in {"stat", "touch", "restat", "set"} => Suits(job.on, job.entry.content)
JobsOK == tcJob \in [Readers -> SmallJobs] /\ \A r \in Readers : GoodJob(tcJob[r])

CacheBounded == DiskBounded /\ ClockBounded /\ KeptOK(tcKept) /\ FoundOK(tcSearches) /\ JobsOK

LEMMA SmallIdle == GoodJob(Idle) /\ NoEntry \in SmallEntries /\ NoAnswer \in Answers /\ Idle.at = "idle"
<1>1. 0 \in Times
  BY CacheAssumption DEF Times
<1>2. NoEntry \in SmallEntries /\ NoAnswer \in Answers
  BY <1>1 DEF NoEntry, SmallEntries, NoAnswer, Answers
<1>3. QED BY <1>2 DEF Idle, GoodJob, SmallJobs, Places, Paths

LEMMA NothingOK == KeptOK(Nothing) /\ FoundOK(Nothing)
BY DEF KeptOK, FoundOK, Nothing

LEMMA InitBounded == TcInit => CacheBounded
<1> SUFFICES ASSUME TcInit PROVE CacheBounded
  OBVIOUS
<1>1. 0 \in Times /\ 1 \in Times /\ 1 \in 1 .. MaxFileTime
  BY CacheAssumption DEF Times
<1>2. [text |-> 0, time |-> 0, has |-> FALSE] \in SmallFiles
      /\ [text |-> 1, time |-> 1, has |-> TRUE] \in SmallFiles
  BY <1>1 DEF SmallFiles
<1>3. \A f \in Files : tcDisk[f] \in SmallFiles /\ (tcDisk[f].has => tcDisk[f].text # 0)
  <2> SUFFICES ASSUME NEW f \in Files
               PROVE  tcDisk[f] \in SmallFiles /\ (tcDisk[f].has => tcDisk[f].text # 0)
    OBVIOUS
  <2>1. \/ tcDisk[f] = [text |-> 0, time |-> 0, has |-> FALSE]
        \/ tcDisk[f] = [text |-> 1, time |-> 1, has |-> TRUE]
    BY DEF TcInit
  <2>2. CASE tcDisk[f] = [text |-> 0, time |-> 0, has |-> FALSE]
    BY <1>2, <2>2
  <2>3. CASE tcDisk[f] = [text |-> 1, time |-> 1, has |-> TRUE]
    BY <1>2, <2>3
  <2>4. QED BY <2>1, <2>2, <2>3
<1>4. DiskBounded
  BY <1>3 DEF TcInit, DiskBounded
<1>5. ClockBounded
  BY <1>1 DEF TcInit, ClockBounded
<1>6. KeptOK(tcKept) /\ FoundOK(tcSearches)
  BY NothingOK DEF TcInit
<1>7. JobsOK
  BY SmallIdle DEF TcInit, JobsOK, GoodJob
<1>8. QED BY <1>4, <1>5, <1>6, <1>7 DEF CacheBounded

LEMMA DiskBoundedNext ==
  ASSUME DiskBounded, ClockBounded, WorldStep
  PROVE  DiskBounded' /\ ClockBounded'
<1>1. CASE UNCHANGED <<tcDisk, tcFolderAt, tcClock>>
  BY <1>1 DEF DiskBounded, ClockBounded
<1>2. ASSUME NEW f \in Files, NEW new \in Replacements, ChangeFile(f, new)
      PROVE  DiskBounded' /\ ClockBounded'
  <2>1. tcClock \in Nat /\ tcClock + 1 \in Times /\ tcClock + 1 \in 1 .. MaxFileTime /\ 0 \in Times
    BY <1>2, CacheAssumption DEF ClockBounded, ChangeFile, Times
  <2>2. new \in SmallFiles /\ (new.has => new.text # 0)
    <3>1. CASE new \in Written
      <4>1. PICK b \in BOOLEAN : new = [text |-> tcClock + 1, time |-> tcClock + 1, has |-> b]
        BY <3>1 DEF Written
      <4>2. new \in SmallFiles
        BY <2>1, <4>1 DEF SmallFiles
      <4>3. new.text # 0
        BY <2>1, <4>1
      <4>4. QED BY <4>2, <4>3
    <3>2. CASE new = Removed
      BY <2>1, <3>2 DEF Removed, SmallFiles
    <3>3. QED BY <3>1, <3>2 DEF Replacements
  <2>3. DiskBounded'
    BY <1>2, <2>2 DEF DiskBounded, ChangeFile
  <2>4. tcFolderAt' \in {tcFolderAt, tcClock + 1} /\ tcClock' = tcClock + 1
    BY <1>2 DEF ChangeFile
  <2>5. ClockBounded'
    BY <2>1, <2>4 DEF ClockBounded
  <2>6. QED BY <2>3, <2>5
<1>3. QED BY <1>1, <1>2 DEF WorldStep

(* Every step is one of the world, and what it does to the rest. *)
LEMMA WorldNext == [TcNext]_tcVars => WorldStep
<1> SUFFICES ASSUME [TcNext]_tcVars PROVE WorldStep
  OBVIOUS
<1>1. CASE \E r \in Readers : Reader(r)
  BY <1>1 DEF Reader, Read, StatEntry, TouchEntry, DropEntry, LoadContent, StatForStore, StoreEntry,
     Search, SearchMany, SetSearch, WorldStep
<1>2. ASSUME NEW f \in Files, WriteFile(f) \/ DeleteFile(f) \/ ChangeAny(f) \/ ChangedByOthers(f)
      PROVE  WorldStep
  BY <1>2 DEF WriteFile, DeleteFile, ChangeAny, ChangedByOthers, WorldStep, Replacements
<1>3. CASE NextProcess \/ UNCHANGED tcVars
  BY <1>3 DEF NextProcess, tcVars, WorldStep
<1>4. QED BY <1>1, <1>2, <1>3 DEF TcNext

LEMMA KeptOKWith ==
  ASSUME NEW kept, KeptOK(kept), NEW p \in Paths, NEW e, GoodEntry(p, e)
  PROVE  KeptOK(With(kept, p, e))
BY DEF KeptOK, With

LEMMA KeptOKWithout ==
  ASSUME NEW kept, KeptOK(kept), NEW gone
  PROVE  KeptOK(Without(kept, gone))
BY DEF KeptOK, Without

LEMMA KeptOKNext ==
  ASSUME KeptOK(tcKept), JobsOK, [TcNext]_tcVars
  PROVE  KeptOK(tcKept')
<1>1. ASSUME NEW r \in Readers, tcJob[r].at \in {"touch", "set"}
      PROVE  KeptOK(With(tcKept, tcJob[r].on, tcJob[r].entry))
  <2>1. tcJob[r].on \in Paths /\ GoodEntry(tcJob[r].on, tcJob[r].entry)
    BY <1>1 DEF JobsOK, GoodJob, SmallJobs, GoodEntry
  <2>2. QED BY <2>1, KeptOKWith
<1>2. ASSUME NEW r \in Readers, Reader(r) PROVE KeptOK(tcKept')
  <2>1. CASE tcKept' = tcKept
    BY <2>1
  <2>2. CASE TouchEntry(r)
    BY <1>1, <2>2 DEF TouchEntry
  <2>3. CASE StoreEntry(r)
    <3>1. PICK kept : kept = With(tcKept, tcJob[r].on, tcJob[r].entry) /\ KeptOK(kept)
      BY <1>1, <2>3 DEF StoreEntry
    <3>2. tcKept' = kept \/ \E gone : tcKept' = Without(kept, gone)
      BY <2>3, <3>1 DEF StoreEntry, Pruned
    <3>3. QED BY <3>1, <3>2, KeptOKWithout
  <2>4. CASE DropEntry(r)
    BY <2>4, KeptOKWithout DEF DropEntry
  <2>5. QED BY <1>2, <2>1, <2>2, <2>3, <2>4
        DEF Reader, Read, StatEntry, LoadContent, StatForStore, Search, SearchMany, SetSearch
<1>3. ASSUME NEW f \in Files, WriteFile(f) \/ DeleteFile(f) \/ ChangeAny(f) \/ ChangedByOthers(f)
      PROVE  KeptOK(tcKept')
  BY <1>3, KeptOKWithout, NothingOK DEF WriteFile, DeleteFile, ChangeAny, ChangedByOthers
<1>4. CASE NextProcess
  <2>1. KeptOK(Load(tcKept))
    BY DEF KeptOK, Load
  <2>2. QED BY <1>4, <2>1, NothingOK DEF NextProcess
<1>5. CASE UNCHANGED tcVars
  BY <1>5 DEF tcVars
<1>6. QED BY <1>2, <1>3, <1>4, <1>5 DEF TcNext

LEMMA FoundOKWith ==
  ASSUME NEW found, FoundOK(found), NEW k \in {"one", "many"}, NEW a \in Answers
  PROVE  FoundOK(With(found, k, a))
BY DEF FoundOK, With

LEMMA FoundOKWithout ==
  ASSUME NEW found, FoundOK(found), NEW gone
  PROVE  FoundOK(Without(found, gone))
BY DEF FoundOK, Without

LEMMA FoundOKNext ==
  ASSUME FoundOK(tcSearches), JobsOK, [TcNext]_tcVars
  PROVE  FoundOK(tcSearches')
<1>1. ASSUME NEW r \in Readers, Reader(r) PROVE FoundOK(tcSearches')
  <2>1. CASE tcSearches' = tcSearches
    BY <2>1
  <2>2. CASE SetSearch(r)
    <3>1. tcJob[r].answer \in Answers
      BY DEF JobsOK, GoodJob, SmallJobs
    <3>2. \/ tcSearches' = tcSearches
          \/ \E k \in {"one", "many"} : tcSearches' = With(tcSearches, k, tcJob[r].answer)
      BY <2>2 DEF SetSearch
    <3>3. QED BY <3>1, <3>2, FoundOKWith
  <2>3. QED BY <1>1, <2>1, <2>2
        DEF Reader, Read, StatEntry, TouchEntry, DropEntry, LoadContent, StatForStore, StoreEntry,
            Search, SearchMany
<1>2. ASSUME NEW f \in Files, WriteFile(f) \/ DeleteFile(f) \/ ChangeAny(f)
      PROVE  FoundOK(tcSearches')
  BY <1>2, FoundOKWithout, NothingOK DEF WriteFile, DeleteFile, ChangeAny, InvalidateSearchCacheForFile
<1>3. ASSUME NEW f \in Files, ChangedByOthers(f) PROVE FoundOK(tcSearches')
  <2>1. tcSearches' = [k \in DOMAIN tcSearches |-> Told(tcSearches[k], f)]
    BY <1>3 DEF ChangedByOthers, Told
  <2>2. \A a \in Answers : Told(a, f) \in Answers
    BY DEF Told, Answers
  <2>3. QED BY <2>1, <2>2 DEF FoundOK
<1>4. CASE NextProcess \/ UNCHANGED tcVars
  BY <1>4, NothingOK DEF NextProcess, tcVars
<1>5. QED BY <1>1, <1>2, <1>3, <1>4 DEF TcNext

(* What a search finds has a text. *)
LEMMA FoundAnswers == ASSUME DiskBounded PROVE Found \in Answers
<1>1. \A f \in Files : tcDisk[f].has => tcDisk[f].text \in 1 .. MaxFileTime
  BY CacheAssumption DEF DiskBounded, SmallFiles, Times
<1>2. Matches \in SUBSET [file : Files, text : 1 .. MaxFileTime]
  BY <1>1 DEF Matches
<1>3. collectFilePaths(Matches) \in SUBSET Files
  BY <1>2 DEF collectFilePaths
<1>4. QED BY <1>2, <1>3 DEF Found, Answers

LEMMA ContentSuits ==
  ASSUME DiskBounded, NEW p \in Paths
  PROVE  Suits(p, Content(p)) /\ Content(p) \in Times \cup SUBSET Files
BY DEF DiskBounded, SmallFiles, Suits, Content, Paths

LEMMA ModTimeBounded ==
  ASSUME DiskBounded, ClockBounded, NEW p \in Paths
  PROVE  ModTime(p) \in Times
<1>1. tcFolderAt \in Times
  BY CacheAssumption DEF ClockBounded, Times
<1>2. QED BY <1>1 DEF DiskBounded, SmallFiles, ModTime, Paths

(* One goroutine has another job. *)
LEMMA JobsOKExcept ==
  ASSUME JobsOK, NEW r \in Readers, NEW job, GoodJob(job), tcJob' = [tcJob EXCEPT ![r] = job]
  PROVE  JobsOK'
<1>1. tcJob' \in [Readers -> SmallJobs] /\ \A q \in Readers : GoodJob(tcJob'[q])
  BY DEF JobsOK, GoodJob
<1>2. QED BY <1>1 DEF JobsOK, GoodJob, Suits

LEMMA ReaderJobs ==
  ASSUME CacheBounded, NEW r \in Readers, Reader(r)
  PROVE  JobsOK'
<1>0. /\ JobsOK /\ DiskBounded /\ ClockBounded /\ KeptOK(tcKept) /\ FoundOK(tcSearches)
      /\ GoodJob(tcJob[r]) /\ tcJob[r] \in SmallJobs /\ tcJob[r].on \in Paths
      /\ tcJob[r].entry \in SmallEntries /\ tcJob[r].answer \in Answers /\ tcJob \in [Readers -> SmallJobs]
  BY DEF CacheBounded, JobsOK, GoodJob, SmallJobs
<1>1. ASSUME NEW p \in Paths, Read(r, p) PROVE JobsOK'
  <2>1. PICK at, e : /\ at = (IF p \in DOMAIN tcKept THEN "stat" ELSE "load")
                     /\ e = (IF p \in DOMAIN tcKept THEN tcKept[p] ELSE NoEntry)
    OBVIOUS
  <2>2. PICK job : job = [Idle EXCEPT !.at = at, !.on = p, !.entry = e]
    OBVIOUS
  <2>3. e \in SmallEntries /\ (at = "stat" => Suits(p, e.content)) /\ at \in {"stat", "load"}
    BY <1>0, <2>1, SmallIdle DEF KeptOK, GoodEntry
  <2>4. job \in SmallJobs /\ job.at = at /\ job.on = p /\ job.entry = e
    BY <2>2, <2>3, SmallIdle DEF Idle, SmallJobs, Places, GoodJob
  <2>5. GoodJob(job)
    BY <2>3, <2>4 DEF GoodJob
  <2>6. tcJob' = [tcJob EXCEPT ![r] = job]
    BY <1>1, <2>1, <2>2 DEF Read
  <2>7. QED BY <1>0, <2>5, <2>6, JobsOKExcept
<1>2. CASE StatEntry(r)
  <2>1. PICK at \in {"touch", "drop"} : tcJob' = [tcJob EXCEPT ![r].at = at]
    BY <1>2 DEF StatEntry, Goes
  <2>2. PICK job : job = [tcJob[r] EXCEPT !.at = at]
    OBVIOUS
  <2>3. job \in SmallJobs /\ job.on = tcJob[r].on /\ job.entry = tcJob[r].entry
    BY <1>0, <2>1, <2>2 DEF SmallJobs, Places
  <2>4. Suits(tcJob[r].on, tcJob[r].entry.content)
    BY <1>0, <1>2 DEF StatEntry, GoodJob
  <2>5. GoodJob(job)
    BY <2>3, <2>4 DEF GoodJob
  <2>6. tcJob' = [tcJob EXCEPT ![r] = job]
    BY <1>0, <2>1, <2>2
  <2>7. QED BY <1>0, <2>5, <2>6, JobsOKExcept
<1>3. CASE TouchEntry(r) \/ StoreEntry(r)
  BY <1>0, <1>3, SmallIdle, JobsOKExcept DEF TouchEntry, StoreEntry
<1>4. CASE DropEntry(r)
  <2>1. PICK job : job = [tcJob[r] EXCEPT !.at = "load"]
    OBVIOUS
  <2>2. job \in SmallJobs /\ job.at = "load"
    BY <1>0, <2>1 DEF SmallJobs, Places
  <2>3. tcJob' = [tcJob EXCEPT ![r] = job] /\ GoodJob(job)
    BY <1>0, <1>4, <2>1, <2>2 DEF DropEntry, Goes, GoodJob
  <2>4. QED BY <1>0, <2>3, JobsOKExcept
<1>5. CASE LoadContent(r)
  <2>1. PICK p, e : p = tcJob[r].on /\ e = [tcJob[r].entry EXCEPT !.content = Content(p)]
    OBVIOUS
  <2>2. Suits(p, Content(p)) /\ Content(p) \in Times \cup SUBSET Files
    BY <1>0, <2>1, ContentSuits
  <2>3. e \in SmallEntries /\ e.content = Content(p)
    BY <1>0, <2>1, <2>2 DEF SmallEntries
  <2>4. PICK job : job = [tcJob[r] EXCEPT !.at = "restat", !.entry = e]
    OBVIOUS
  <2>5. job \in SmallJobs /\ job.on = p /\ job.entry = e
    BY <1>0, <2>1, <2>3, <2>4 DEF SmallJobs, Places
  <2>6. GoodJob(job)
    BY <2>2, <2>3, <2>5 DEF GoodJob
  <2>7. tcJob' = [tcJob EXCEPT ![r] = job] \/ tcJob' = [tcJob EXCEPT ![r] = Idle]
    BY <1>0, <1>5, <2>1, <2>4 DEF LoadContent
  <2>8. QED BY <1>0, <2>6, <2>7, SmallIdle, JobsOKExcept
<1>6. CASE StatForStore(r)
  <2>1. PICK p, b, e : /\ p = tcJob[r].on /\ b = (Content(p) = tcJob[r].entry.content)
                       /\ e = [tcJob[r].entry EXCEPT !.time = ModTime(p), !.clean = b]
    OBVIOUS
  <2>2. ModTime(p) \in Times /\ b \in BOOLEAN
    BY <1>0, <2>1, ModTimeBounded
  <2>3. e \in SmallEntries /\ e.content = tcJob[r].entry.content
    BY <1>0, <2>1, <2>2 DEF SmallEntries
  <2>4. PICK job : job = [tcJob[r] EXCEPT !.at = "set", !.entry = e]
    OBVIOUS
  <2>5. job \in SmallJobs /\ job.on = p /\ job.entry = e
    BY <1>0, <2>1, <2>3, <2>4 DEF SmallJobs, Places
  <2>6. Suits(p, tcJob[r].entry.content)
    BY <1>0, <1>6, <2>1 DEF StatForStore, GoodJob
  <2>7. GoodJob(job)
    BY <2>3, <2>5, <2>6 DEF GoodJob
  <2>8. tcJob' = [tcJob EXCEPT ![r] = job] \/ tcJob' = [tcJob EXCEPT ![r] = Idle]
    BY <1>0, <1>6, <2>1, <2>4 DEF StatForStore, SmallJobs, SmallEntries
  <2>9. QED BY <1>0, <2>7, <2>8, SmallIdle, JobsOKExcept
<1>7. ASSUME NEW place \in {"one", "each", "many"}, NEW answer \in Answers,
             tcJob' = [tcJob EXCEPT ![r] = [Idle EXCEPT !.at = place, !.answer = answer]]
      PROVE  JobsOK'
  <2>1. PICK job : job = [Idle EXCEPT !.at = place, !.answer = answer]
    OBVIOUS
  <2>2. job \in SmallJobs /\ job.at = place
    BY <2>1, SmallIdle DEF Idle, SmallJobs, Places, GoodJob
  <2>3. GoodJob(job)
    BY <2>2 DEF GoodJob
  <2>4. QED BY <1>0, <1>7, <2>1, <2>3, JobsOKExcept
<1>8. CASE Search(r) \/ SearchMany(r)
  <2>1. Found \in Answers /\ ("one" \in DOMAIN tcSearches => tcSearches["one"] \in Answers)
    BY <1>0, FoundAnswers DEF FoundOK
  <2>2. QED BY <1>7, <1>8, <2>1 DEF Search, SearchMany
<1>9. CASE SetSearch(r)
  <2>1. PICK job : job = [tcJob[r] EXCEPT !.at = "many"]
    OBVIOUS
  <2>2. job \in SmallJobs /\ job.at = "many"
    BY <1>0, <2>1 DEF SmallJobs, Places
  <2>3. GoodJob(job)
    BY <2>2 DEF GoodJob
  <2>4. tcJob' = [tcJob EXCEPT ![r] = job] \/ tcJob' = [tcJob EXCEPT ![r] = Idle]
    BY <1>0, <1>9, <2>1 DEF SetSearch
  <2>5. QED BY <1>0, <2>3, <2>4, SmallIdle, JobsOKExcept
<1>10. QED BY <1>1, <1>2, <1>3, <1>4, <1>5, <1>6, <1>8, <1>9 DEF Reader

LEMMA JobsOKNext ==
  ASSUME CacheBounded, [TcNext]_tcVars
  PROVE  JobsOK'
<1>0. JobsOK
  BY DEF CacheBounded
<1>1. CASE UNCHANGED tcJob
  BY <1>0, <1>1 DEF JobsOK, GoodJob, Suits
<1>2. ASSUME NEW f \in Files, ChangedByOthers(f) PROVE JobsOK'
  <2>1. ASSUME NEW r \in Readers PROVE GoodJob(tcJob'[r])
    <3>1. GoodJob(tcJob[r]) /\ tcJob[r] \in SmallJobs /\ tcJob[r].answer \in Answers
      BY <1>0 DEF JobsOK, GoodJob, SmallJobs
    <3>2. tcJob'[r] = IF tcJob[r].at \in {"one", "each", "many"}
                      THEN [tcJob[r] EXCEPT !.answer.others = @ \cup {f}] ELSE tcJob[r]
      BY <1>2 DEF ChangedByOthers
    <3>3. Told(tcJob[r].answer, f) \in Answers
      BY <3>1 DEF Told, Answers
    <3>4. PICK job : job = [tcJob[r] EXCEPT !.answer = Told(tcJob[r].answer, f)]
      OBVIOUS
    <3>5. job \in SmallJobs /\ job.at = tcJob[r].at
      BY <3>1, <3>3, <3>4 DEF SmallJobs
    <3>6. tcJob'[r] = job \/ tcJob'[r] = tcJob[r]
      BY <3>1, <3>2, <3>4 DEF Told, SmallJobs
    <3>7. CASE tcJob[r].at \in {"one", "each", "many"} /\ tcJob'[r] = job
      BY <3>5, <3>7 DEF GoodJob
    <3>8. QED BY <3>1, <3>2, <3>6, <3>7
  <2>2. tcJob' = [r \in Readers |-> tcJob'[r]]
    BY <1>2 DEF ChangedByOthers
  <2>3. tcJob' \in [Readers -> SmallJobs]
    BY <2>1, <2>2 DEF GoodJob
  <2>4. QED BY <2>1, <2>3 DEF JobsOK, GoodJob, Suits
<1>3. CASE NextProcess
  <2>1. tcJob' \in [Readers -> SmallJobs] /\ \A r \in Readers : GoodJob(tcJob'[r])
    BY <1>3, SmallIdle DEF NextProcess, GoodJob
  <2>2. QED BY <2>1 DEF JobsOK, GoodJob, Suits
<1>4. QED BY <1>1, <1>2, <1>3, ReaderJobs
      DEF TcNext, tcVars, WriteFile, DeleteFile, ChangeAny

LEMMA BoundedNext == CacheBounded /\ [TcNext]_tcVars => CacheBounded'
<1> SUFFICES ASSUME CacheBounded, [TcNext]_tcVars PROVE CacheBounded'
  OBVIOUS
<1>1. DiskBounded' /\ ClockBounded'
  BY WorldNext, DiskBoundedNext DEF CacheBounded
<1>2. KeptOK(tcKept')
  BY KeptOKNext DEF CacheBounded
<1>3. FoundOK(tcSearches')
  BY FoundOKNext DEF CacheBounded
<1>4. JobsOK'
  BY JobsOKNext
<1>5. QED BY <1>1, <1>2, <1>3, <1>4 DEF CacheBounded, KeptOK, FoundOK, GoodEntry, Suits

LEMMA BoundedTypes == CacheBounded => TcTypeOK
<1> SUFFICES ASSUME CacheBounded PROVE TcTypeOK
  OBVIOUS
<1>1. \A f \in Files : tcDisk[f] \in [text : 0 .. MaxFileTime, time : 0 .. MaxFileTime, has : BOOLEAN]
  BY DEF CacheBounded, DiskBounded, SmallFiles, Times
<1>2. ASSUME NEW p, NEW e, GoodEntry(p, e) PROVE EntryOK(p, e)
  BY <1>2 DEF GoodEntry, SmallEntries, Suits, EntryOK, Listings, Texts, Times
<1>3. DOMAIN tcKept \subseteq Paths /\ \A p \in DOMAIN tcKept : EntryOK(p, tcKept[p])
  BY <1>2 DEF CacheBounded, KeptOK
<1>4. DOMAIN tcSearches \subseteq {"one", "many"} /\ \A k \in DOMAIN tcSearches : tcSearches[k] \in Answers
  BY DEF CacheBounded, FoundOK
<1>5. \A r \in Readers :
        /\ tcJob[r].at \in {"idle", "stat", "touch", "drop", "load", "restat", "set",
                            "one", "each", "many"}
        /\ tcJob[r].on \in Paths /\ tcJob[r].answer \in Answers
  BY DEF CacheBounded, JobsOK, SmallJobs, Places
<1>6. QED BY <1>1, <1>3, <1>4, <1>5 DEF TcTypeOK, CacheBounded, ClockBounded

(* Type correctness of the cache (ToolCache's entries, stamps and jobs in  *)
(* hand), for any number of files, changes and goroutines.                 *)
THEOREM CacheTypeCorrect == TcSpec => []TcTypeOK
<1>1. QED BY InitBounded, BoundedNext, BoundedTypes, PTL DEF TcSpec

----------------------------------------------------------------------------
(* The two parts side by side. *)

(* Each part behaves as its own specification says. *)
LEMMA PartsBehave == PartSpec => Spec /\ TcSpec
<1>1. PartInit => Init /\ TcInit
  BY DEF PartInit
<1>2. [PartNext]_partVars => [Next]_vars /\ [TcNext]_tcVars
  BY DEF PartNext, partVars
<1>3. QED BY <1>1, <1>2, PTL DEF PartSpec, Spec, TcSpec

(* Type correctness of the two parts in the specification the run checks. *)
THEOREM ConversationTypes == PartSpec => []ConversationTypeOK
<1>1. TypeOK /\ TcTypeOK => ConversationTypeOK
  BY DEF ConversationTypeOK
<1>2. QED BY <1>1, PartsBehave, ConversationTypeCorrect, CacheTypeCorrect, PTL
=============================================================================
