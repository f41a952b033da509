---------------------------- MODULE Conversation ----------------------------
(***************************************************************************)
(* The conversation of the agent in normal mode: the runtime history the   *)
(* model is sent (Agent.History) and the session that is restored from     *)
(* disk (Session.Messages without the audit entries), over turns of tool   *)
(* batches, feedback messages, compression during and after a turn, the    *)
(* retry after a token-limit error, cancellation, and a restart at any     *)
(* point (internal/agent: chat_request.go, turn_runner*.go,                *)
(* agent_tool_history.go, compress*.go, auto_compress*.go,                 *)
(* token_limit_retry.go, conversation_state.go).                           *)
(*                                                                         *)
(* A tool batch runs in module ToolBatch; here only its deliveries count,  *)
(* which come one per call, in order.                                      *)
(***************************************************************************)
EXTENDS HistorySplit, Selection, FiniteSets

CONSTANTS
  MaxCalls,       \* bound: calls of one run of the turn loop
  MaxTurns,       \* bound: prompts of the user
  MaxResumes,     \* bound: restarts
  MaxBefore,      \* bound: messages in the history when a prompt comes
  ToolLoopLimits, \* what General.ToolLoopLimit may be; 0, the default, is none
  MaxResponses,   \* bound: responses of one run of the turn loop
  KeepRecent,     \* Compression.KeepRecent
  LoopThreshold,  \* LoopDetection.Threshold of equal calls
  StrikeLimit,    \* str_replace failures in a row that are given up on
  MaxFeedback     \* comments in the history after which no more is asked for

ASSUME ConversationAssumption ==
  /\ MaxCalls \in Nat \ {0}
  /\ MaxTurns \in Nat
  /\ MaxResumes \in Nat
  /\ MaxBefore \in Nat
  /\ MaxResponses \in Nat \ {0}
  /\ ToolLoopLimits \subseteq 0 .. MaxResponses
  /\ KeepRecent \in Nat \ {0}
  /\ LoopThreshold \in Nat
  /\ StrikeLimit \in Nat \ {0, 1}
  /\ MaxFeedback \in Nat

VARIABLES
  hardLimit,   \* General.ToolLoopLimit
  history,     \* Agent.History
  session,     \* the conversation entries of Session.Messages, as saved
  phase,       \* where the request of the user stands
  turns,       \* prompts so far
  resumes,     \* restarts so far
  run,         \* runs of the turn loop so far: one per prompt, one per retry
  step,        \* responses in this run
  turnStart,   \* turnStartIndex
  batch,       \* the batch being delivered: calls, first aborted, next
  attempted,   \* autoCompressionTurnState.attempted
  retrying,    \* the run is the retry after a token-limit error
  retryCount,  \* tokenLimitRetryCount
  strikes,     \* strReplaceErrorCount
  failed,      \* lastFailedResult of the batch is set
  cancelled    \* the request's context is cancelled

runVars == <<hardLimit, turns, resumes, run>>
talkVars == <<history, session>>
retryVars == <<retrying, retryCount>>
batchVars == <<batch, strikes, failed>>
vars == <<runVars, talkVars, retryVars, batchVars, phase, step, turnStart, attempted, cancelled>>

-----------------------------------------------------------------------------
(* Messages: what is said is told apart by the run and the response it     *)
(* belongs to; n is the number of calls, or the call a reply is for.       *)
Kinds == {"input", "answer", "calls", "reply", "comment", "retry", "summary"}
Message ==
  [kind : Kinds, run : 0 .. 2 * MaxTurns, step : 0 .. MaxResponses, n : 0 .. MaxCalls]

Input(r) == [kind |-> "input", run |-> r, step |-> 0, n |-> 0]
Said(kind, s, n) == [kind |-> kind, run |-> run, step |-> s, n |-> n]
Summary == [kind |-> "summary", run |-> 0, step |-> 0, n |-> 0]
NoBatch == [calls |-> 0, abortFrom |-> 1, next |-> 1]

(* a.requestCtx is dead, by the user or by its deadline; the retry runs on *)
(* a context of its own, which has no deadline and which nothing cancels.  *)
Interrupted == cancelled /\ ~retrying

Init ==
  /\ hardLimit \in ToolLoopLimits
  /\ history = <<>> /\ session = <<>>
  /\ phase = "ready"
  /\ turns = 0 /\ resumes = 0 /\ run = 0 /\ step = 0
  /\ turnStart = 0
  /\ batch = NoBatch
  /\ attempted = FALSE
  /\ retrying = FALSE /\ retryCount = 0
  /\ strikes = 0 /\ failed = FALSE
  /\ cancelled = FALSE

-----------------------------------------------------------------------------
(* prepareChatRequest: the session has the input before the history does *)
PrepareChatRequest ==
  /\ phase = "ready"
  /\ turns < MaxTurns
  /\ Len(history) <= MaxBefore
  /\ turns' = turns + 1
  /\ session' = Append(session, Input(run + 1))
  /\ phase' = "prepared"
  /\ attempted' = FALSE
  /\ cancelled' = FALSE
  /\ UNCHANGED <<history, hardLimit, resumes, run, step, turnStart, retryVars, batchVars>>

(* Run, for the prompt and again for the retry: the input goes to the      *)
(* history, the session is not told a second time.                         *)
RunTurnLoop ==
  /\ phase = "prepared"
  /\ run' = run + 1
  /\ turnStart' = Len(history)
  /\ history' = Append(history, Input(run + 1))
  /\ step' = 0
  /\ phase' = "request"
  /\ UNCHANGED <<session, hardLimit, turns, resumes, retryVars, batchVars, attempted, cancelled>>

(* Run returned nil: a prompt is finished, a retry counts as a success. *)
RunReturns ==
  /\ phase' = IF retrying THEN "ready" ELSE "final"
  /\ retryCount' = IF retrying THEN 0 ELSE retryCount
  /\ retrying' = FALSE

(* Run returned an error that is not retried: nothing is taken back. *)
RunFails ==
  /\ phase' = "ready"
  /\ retrying' = FALSE
  /\ UNCHANGED retryCount

HardLimitReached ==
  /\ phase = "request"
  /\ hardLimit > 0 /\ step >= hardLimit
  /\ RunReturns
  /\ UNCHANGED <<talkVars, runVars, step, turnStart, batchVars, attempted, cancelled>>

-----------------------------------------------------------------------------
(* Requests and the responses to them. *)

Requesting == phase = "request" /\ (hardLimit > 0 => step < hardLimit)

Responding == Requesting /\ ~Interrupted /\ step < MaxResponses

(* Bound: a run without a limit may go on, here its responses are no       *)
(* longer followed.                                                        *)
GoesOn == Requesting /\ ~Interrupted /\ step >= MaxResponses

RepliesOfRun ==
  Cardinality({k \in DOMAIN history : history[k].kind = "reply" /\ history[k].run = run})

(* Slip: the call message is not saved, its replies are. *)
RespondUnsaved ==
  /\ Responding
  /\ batch' = [calls |-> 1, abortFrom |-> 2, next |-> 1]
  /\ history' = Append(history, Said("calls", step + 1, 1))
  /\ step' = step + 1
  /\ failed' = FALSE
  /\ phase' = "deliver"
  /\ UNCHANGED <<session, runVars, turnStart, attempted, retryVars, strikes, cancelled>>

(* addToolCallsToHistory; the plan of the batch says from which call on it *)
(* is aborted, if any: not before there were enough calls to be a loop.    *)
RespondWithCalls ==
  /\ Responding
  /\ \E n \in 1 .. MaxCalls : \E a \in 1 .. n + 1 :
       /\ RepliesOfRun + n <= MaxCalls
       /\ a <= n => RepliesOfRun + a >= LoopThreshold
       /\ batch' = [calls |-> n, abortFrom |-> a, next |-> 1]
       /\ history' = Append(history, Said("calls", step + 1, n))
       /\ session' = Append(session, Said("calls", step + 1, n))
  /\ step' = step + 1
  /\ failed' = FALSE
  /\ phase' = "deliver"
  /\ UNCHANGED <<runVars, turnStart, attempted, retryVars, strikes, cancelled>>

(* handleNormalResponse *)
RespondFinally ==
  /\ Responding
  /\ history' = Append(history, Said("answer", step + 1, 0))
  /\ session' = Append(session, Said("answer", step + 1, 0))
  /\ step' = step + 1
  /\ RunReturns
  /\ UNCHANGED <<runVars, turnStart, batchVars, attempted, cancelled>>

(* A plan in words or JSON instead of tool calls: recorded in the history  *)
(* only, and asked again, or given up on after too many.                   *)
RespondWithPlan ==
  /\ Responding
  /\ history' = Append(history, Said("answer", step + 1, 0))
  /\ step' = step + 1
  /\ RunReturns \/ UNCHANGED <<phase, retryVars>>
  /\ UNCHANGED <<session, runVars, turnStart, batchVars, attempted, cancelled>>

(* The final checks fail after a turn that changed files: answer and       *)
(* feedback go to the history only; without progress the turn ends.        *)
RespondCheckFailed ==
  /\ Responding
  /\ history' = history \o <<Said("answer", step + 1, 0), Said("retry", step + 1, 0)>>
  /\ step' = step + 1
  /\ RunReturns \/ UNCHANGED <<phase, retryVars>>
  /\ UNCHANGED <<session, runVars, turnStart, batchVars, attempted, cancelled>>

(* The final checks are cancelled, which reaches them in a retry too: the  *)
(* answer is recorded nowhere.                                             *)
RespondCheckCancelled ==
  /\ Responding
  /\ cancelled' = TRUE
  /\ step' = step + 1
  /\ RunReturns
  /\ UNCHANGED <<talkVars, runVars, turnStart, batchVars, attempted>>

RequestFails ==
  /\ Requesting
  /\ RunFails
  /\ UNCHANGED <<talkVars, runVars, step, turnStart, batchVars, attempted, cancelled>>

-----------------------------------------------------------------------------
(* Slip: only the history is compressed. *)
CompressInMemory(s) ==
  /\ s > 0
  /\ history' = <<Summary>> \o SubSeq(history, s + 1, Len(history))
  /\ session' = session

(* Compression: the first s messages become one, and the session is        *)
(* rewritten with the result.                                              *)
CompressHistory(s) ==
  /\ s > 0
  /\ history' = <<Summary>> \o SubSeq(history, s + 1, Len(history))
  /\ session' = history'

CompressionSplit == splitHistoryForCompression(history, KeepRecent)

(* handleTokenLimitErrorWithRetry *)
CanCompressAndRetry ==
  /\ retryCount < 1
  /\ Len(history) > KeepRecent
  /\ CompressionSplit > 0

TokenLimitCompressed ==
  /\ Requesting
  /\ CanCompressAndRetry
  /\ CompressHistory(CompressionSplit)
  /\ retryCount' = retryCount + 1
  /\ retrying' = TRUE
  /\ phase' = "prepared"
  /\ UNCHANGED <<runVars, step, turnStart, batchVars, attempted, cancelled>>

(* maybeAutoCompressAfterTurn, which may find nothing to do or fail *)
AfterTurn ==
  /\ phase = "final"
  /\ \/ /\ ~attempted
        /\ Len(history) > KeepRecent
        /\ CompressHistory(CompressionSplit)
     \/ UNCHANGED talkVars
  /\ phase' = "ready"
  /\ UNCHANGED <<runVars, step, turnStart, retryVars, batchVars, attempted, cancelled>>

(* /compress *)
CompressCommand ==
  /\ phase = "ready"
  /\ Len(history) > KeepRecent
  /\ CompressHistory(CompressionSplit)
  /\ UNCHANGED <<runVars, step, turnStart, retryVars, batchVars, attempted, cancelled, phase>>

(* /new and /clear: StartNewSession *)
ClearCommand ==
  /\ phase = "ready"
  /\ history' = <<>>
  /\ session' = <<>>
  /\ UNCHANGED <<runVars, step, turnStart, retryVars, batchVars, attempted, cancelled, phase>>

-----------------------------------------------------------------------------
(* Delivery of a batch: one call after the other. *)

Delivering == phase = "deliver" /\ batch.next <= batch.calls
Reply == Said("reply", step, batch.next)
StoreResult ==
  /\ history' = Append(history, Reply)
  /\ session' = Append(session, Reply)
FeedbackCount == Cardinality({k \in DOMAIN history : history[k].kind = "comment"})

Delivered == batch' = [batch EXCEPT !.next = @ + 1]
DeliveryLeaves == UNCHANGED <<runVars, phase, step, turnStart, attempted, retryVars, cancelled>>

(* Slip: an aborted call gets no reply. *)
DeliverNothing ==
  /\ Delivering
  /\ batch.next >= batch.abortFrom
  /\ Delivered
  /\ UNCHANGED <<talkVars, strikes, failed>>
  /\ DeliveryLeaves

(* The batch was cut by loop detection before this call. *)
DeliverLoopAbort ==
  /\ Delivering
  /\ batch.next >= batch.abortFrom
  /\ Delivered
  /\ history' = Append(history, Reply)
  /\ UNCHANGED <<session, strikes, failed>>
  /\ DeliveryLeaves

(* A result like any other.  A tool other than str_replace and a success   *)
(* of str_replace reset the strikes; a failed command is remembered.       *)
DeliverResult ==
  /\ Delivering
  /\ batch.next < batch.abortFrom
  /\ Delivered
  /\ StoreResult
  /\ strikes' \in {0, strikes}
  /\ failed' \in {failed, TRUE}
  /\ DeliveryLeaves

(* Slip: the strikes are not reset at the limit. *)
StrikesKeepCounting ==
  /\ Delivering
  /\ batch.next < batch.abortFrom
  /\ Delivered
  /\ history' = Append(history, Reply)
  /\ strikes' = strikes + 1
  /\ UNCHANGED <<session, failed>>
  /\ DeliveryLeaves

(* str_replace did not find its text, or found it more than once: at the   *)
(* limit the result goes to the history only.                              *)
DeliverStrReplaceError ==
  /\ Delivering
  /\ batch.next < batch.abortFrom
  /\ Delivered
  /\ \/ /\ strikes + 1 >= StrikeLimit
        /\ history' = Append(history, Reply)
        /\ strikes' = 0
        /\ UNCHANGED <<session, failed>>
     \/ /\ strikes + 1 < StrikeLimit
        /\ StoreResult
        /\ strikes' = strikes + 1
        /\ failed' \in {failed, TRUE}
  /\ DeliveryLeaves

(* The user commented instead of approving: the result and the comment go  *)
(* to the history only, until there are too many comments in it.           *)
DeliverComment ==
  /\ Delivering
  /\ batch.next < batch.abortFrom
  /\ FeedbackCount < MaxFeedback
  /\ Delivered
  /\ history' = history \o <<Reply, Said("comment", step, batch.next)>>
  /\ strikes' \in {0, strikes}
  /\ UNCHANGED <<session, failed>>
  /\ DeliveryLeaves

(* A failed command is followed by a message of the agent, unless the same *)
(* failure has come back too often.                                        *)
HandleFailure ==
  \/ failed /\ history' = Append(history, Said("retry", step, 0))
  \/ UNCHANGED history

(* processNormalModeToolCalls after the deliveries: a loop is an error. *)
BatchReturns ==
  /\ phase = "deliver"
  /\ batch.next > batch.calls
  /\ batch' = NoBatch
  /\ IF batch.abortFrom <= batch.calls
     THEN RunFails /\ UNCHANGED <<talkVars, failed>>
     ELSE /\ phase' = "after"
          /\ failed' = FALSE
          /\ UNCHANGED <<session, retryVars>>
          /\ HandleFailure
  /\ UNCHANGED <<runVars, step, turnStart, attempted, strikes, cancelled>>

InTurnSplit == splitHistoryForInTurnCompression(history, turnStart, KeepRecent)

(* Slip: a cancelled context is waited for instead of returned. *)
WaitAfterCancel ==
  /\ phase = "after"
  /\ ~Interrupted
  /\ phase' = "request"
  /\ UNCHANGED <<retryVars, talkVars, attempted>>
  /\ UNCHANGED <<runVars, step, turnStart, batchVars, cancelled>>

(* afterToolResults *)
AfterToolResults ==
  /\ phase = "after"
  /\ \/ Interrupted /\ RunFails /\ UNCHANGED <<talkVars, attempted>>
     \/ /\ ~Interrupted
        /\ phase' = "request"
        /\ UNCHANGED retryVars
        /\ \/ UNCHANGED <<talkVars, attempted>>
           \/ /\ ~attempted
              /\ InTurnSplit > 0
              /\ attempted' = TRUE
              /\ CompressHistory(InTurnSplit) \/ UNCHANGED talkVars
  /\ UNCHANGED <<runVars, step, turnStart, batchVars, cancelled>>

-----------------------------------------------------------------------------
(* The user and the outside. *)

(* The user cancels, or the deadline of the request passes. *)
Cancel ==
  /\ phase \in {"prepared", "request", "deliver", "after"}
  /\ ~cancelled
  /\ cancelled' = TRUE
  /\ UNCHANGED <<runVars, talkVars, retryVars, batchVars, phase, step, turnStart, attempted>>

(* The process ends at any point; another one restores the session. *)
RestoreSessionConversation ==
  /\ resumes < MaxResumes
  /\ resumes' = resumes + 1
  /\ history' = session
  /\ phase' = "ready"
  /\ step' = 0 /\ turnStart' = 0
  /\ batch' = NoBatch
  /\ attempted' = FALSE /\ retrying' = FALSE /\ retryCount' = 0
  /\ strikes' = 0 /\ failed' = FALSE /\ cancelled' = FALSE
  /\ run' = IF phase = "prepared" THEN run + 1 ELSE run  \* no number twice
  /\ UNCHANGED <<session, hardLimit, turns>>

Deliver ==
  DeliverLoopAbort \/ DeliverResult \/ DeliverStrReplaceError \/ DeliverComment

Respond ==
  \/ RespondWithCalls \/ RespondFinally \/ RespondWithPlan
  \/ RespondCheckFailed \/ RespondCheckCancelled
  \/ RequestFails \/ TokenLimitCompressed

Agent ==
  RunTurnLoop \/ HardLimitReached \/ Respond \/ Deliver \/ BatchReturns \/ AfterToolResults \/ AfterTurn

Next ==
  \/ PrepareChatRequest \/ CompressCommand \/ ClearCommand
  \/ Agent \/ Cancel \/ RestoreSessionConversation

(* A request is answered or fails (it has a timeout), and the goroutine of *)
(* the turn runs; nothing makes the user type or cancel.  A run without a  *)
(* limit need not come to its end: it may go on beyond the bound.  What is *)
(* left then is the deadline of the request, which passes.                 *)
Fairness ==
  /\ WF_vars(Agent /\ ~GoesOn)
  /\ WF_vars(Cancel /\ hardLimit = 0)

Spec == Init /\ [][Next]_vars
FairSpec == Spec /\ Fairness
-----------------------------------------------------------------------------
TypeOK ==
  /\ hardLimit \in ToolLoopLimits
  /\ history \in Seq(Message) /\ session \in Seq(Message)
  /\ phase \in {"ready", "prepared", "request", "deliver", "after", "final"}
  /\ turns \in 0 .. MaxTurns /\ resumes \in 0 .. MaxResumes
  /\ run \in 0 .. 2 * MaxTurns /\ step \in 0 .. MaxResponses
  /\ turnStart \in Nat
  /\ batch \in [calls : 0 .. MaxCalls, abortFrom : 1 .. MaxCalls + 1, next : 1 .. MaxCalls + 1]
  /\ attempted \in BOOLEAN /\ retrying \in BOOLEAN /\ retryCount \in {0, 1}
  /\ strikes \in 0 .. StrikeLimit - 1
  /\ failed \in BOOLEAN /\ cancelled \in BOOLEAN

Elems(s) == {s[k] : k \in DOMAIN s}
SameResponse(m, k) == m.run = k.run /\ m.step = k.step

(* What follows message i, the user's comments left out. *)
Following(i) ==
  Only(SubSeq(history, i + 1, Len(history)), {m \in Message : m.kind # "comment"})

(* Whatever ends or interrupts a turn, every tool call the model is shown  *)
(* again has its reply: the calls of a response are followed by their      *)
(* replies, one each and in order, with nothing but comments in between.   *)
(* Without it the provider refuses every later request.  A restart does    *)
(* not keep it (see ResultsStored).                                        *)
CallsAnswered ==
  phase # "deliver" /\ resumes = 0 =>
    \A i \in DOMAIN history : HasCalls(history[i]) =>
      /\ Len(Following(i)) >= history[i].n
      /\ \A c \in 1 .. history[i].n :
           Following(i)[c] = [history[i] EXCEPT !.kind = "reply", !.n = c]

(* Compression may lose the call of a reply only at the front: a reply     *)
(* without its call is preceded by nothing but the summary and what else   *)
(* belongs to the same response.                                           *)
OrphansOnlyAtFront ==
  \A k \in DOMAIN history : IsReply(history[k]) =>
    \/ \E i \in 1 .. k - 1 : HasCalls(history[i]) /\ SameResponse(history[i], history[k])
    \/ \A i \in 1 .. k - 1 :
         \/ history[i].kind = "summary"
         \/ history[i].kind \in {"reply", "comment"} /\ SameResponse(history[i], history[k])

(* The saved conversation is never ahead of the running one and never in   *)
(* another order: outside the start of a turn it is a subsequence of the   *)
(* history, compressions and restarts included.                            *)
SessionFollowsHistory ==
  phase # "prepared" => session = Only(history, Elems(session))

OfRun(h) == Only(h, {m \in Message : m.run = run})
Running == {"request", "deliver", "after"}

(* While a turn runs the model keeps seeing its input and everything since *)
(* then: compression in the middle of a turn takes nothing from it.        *)
CurrentTurnKept ==
  [][(phase \in Running /\ phase' \in Running /\ run' = run) =>
       \A k \in DOMAIN OfRun(history) :
         k \in DOMAIN OfRun(history') /\ OfRun(history')[k] = OfRun(history)[k]]_vars

(* A prompt comes to its end: the model may call tools or plan for ever,   *)
(* requests may fail and be retried, yet the user gets the prompt back.    *)
(* With a limit every run ends by itself; without one, the default, the    *)
(* deadline of the request ends the first run.  The retry after a          *)
(* token-limit error is the exception: without a limit it has no end.      *)
TurnEnds ==
  (phase = "prepared") ~> (phase = "ready" \/ (retrying /\ hardLimit = 0))

(* docs/dev/history-active-context.md: a tool result is stored in the      *)
(* history and in the session's conversation.                              *)
ResultsStored ==
  phase \in {"request", "ready"} =>
    \A k \in DOMAIN history : IsReply(history[k]) => history[k] \in Elems(session)

=============================================================================
