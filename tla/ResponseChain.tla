--------------------------- MODULE ResponseChain ---------------------------
(***************************************************************************)
(* What a request sends when the provider keeps the conversation: with the *)
(* ID of an earlier response (previous_response_id) only the newest        *)
(* message, or the newest tool results, are sent, and the model sees what  *)
(* the provider stored for that ID.  Agent.History, the session and the    *)
(* provider's chain of responses have to agree although all three are cut: *)
(* by compression, /new and /clear, a resume, a change of the model, and   *)
(* by plan mode, which takes a whole investigation back (internal/agent:   *)
(* response_prompt_fingerprint.go, agent_session_identity.go,              *)
(* conversation_state.go, plan_request.go, plan_mode_checkpoint.go;        *)
(* internal/api/providers/openai and openai_responses).                    *)
(*                                                                         *)
(* A message is a number that grows, its kind for HistorySplit, and the    *)
(* turn whose investigation it belongs to, 0 for none.  The prompt of an   *)
(* investigation has the number of the request it was built from, which is *)
(* what the session holds instead.  responses.store is on; failing writes  *)
(* are the subject of SessionStorage.                                      *)
(***************************************************************************)
EXTENDS HistorySplit, FiniteSets

CONSTANTS
  Chats,        \* bound: session IDs
  Runtimes,     \* provider, configuration key and model
  Prompts,      \* system prompts of normal mode, by fingerprint
  KeepNewest,   \* Compression.KeepRecent
  MaxPrompts,   \* bound: prompts of the user
  MaxAnswers,   \* bound: responses of the provider
  MaxChanges    \* bound: commands, compressions, failures and restarts

ASSUME ChainAssumption ==
  /\ Chats # {} /\ Runtimes # {} /\ Prompts # {} /\ "none" \notin Prompts
  /\ KeepNewest \in Nat \ {0}
  /\ MaxPrompts \in Nat /\ MaxAnswers \in Nat /\ MaxChanges \in Nat

VARIABLES
  agent,      \* convo: Agent.History; logged: Session.Messages; saved: the
              \* session's response context; cached: the provider's
              \* lastResponseID, 0 for none; snapshot: Agent.responseContext
  shelf,      \* sessions as they were last saved
  current,    \* Session.ID
  runtime,    \* CurrentProvider, ProviderConfigKey and CurrentModel
  persistId,  \* responses.persist_response_id
  stage,      \* where the request of the user stands
  request,    \* the request that is out
  turn,       \* the turn: its input, the history before it, what it has tried
  plan,       \* planModeCheckpoint
  server,     \* what the provider stored for each response ID
  prompted, said, changes,  \* prompts, messages and changes so far
  unsettled,  \* messages of turns that were cut off, or kept from the session
  replanned,  \* a plan was compressed after a token-limit error
  building    \* the turn implements an approved plan

counts == <<prompted, said, changes>>
facts == <<unsettled, replanned, building>>
setting == <<current, runtime, persistId>>
rcVars == <<agent, shelf, setting, stage, request, turn, plan, server, counts, facts>>

-----------------------------------------------------------------------------
NoContext == [id |-> 0, runtime |-> "none", prompt |-> "none"]
NoRequest == [prev |-> 0, input |-> {}, outputs |-> 0, prompt |-> "none"]
NoPlan == [on |-> FALSE, length |-> 0, entries |-> 0, context |-> NoContext]
NoTurn == [input |-> 0, first |-> 0, start |-> 0, compressed |-> FALSE, retried |-> FALSE]
Fresh == [convo |-> <<>>, logged |-> <<>>, saved |-> NoContext, cached |-> 0, snapshot |-> NoContext]
NoChat == [used |-> FALSE, logged |-> <<>>, saved |-> NoContext, runtime |-> "none"]
NewChat == [used |-> TRUE, logged |-> <<>>, saved |-> NoContext, runtime |-> runtime]

(* The i-th new message. *)
Msg(i, kind) ==
  [n |-> said + i, kind |-> kind, turn |-> IF plan.on THEN prompted ELSE 0]
Numbers(s) == {s[i].n : i \in DOMAIN s}
Speak(k) == said' = said + k
Change == changes < MaxChanges /\ changes' = changes + 1

(* responseContextSnapshotForCurrentProvider *)
ContextOf(a) ==
  IF a.cached = 0 THEN NoContext
  ELSE IF a.snapshot.id = a.cached THEN a.snapshot
  ELSE IF a.saved.id = a.cached THEN a.saved
  ELSE [id |-> a.cached, runtime |-> runtime, prompt |-> "none"]

(* syncSavedResponseContextFromProvider: nothing cached, nothing changed *)
Synced(a) ==
  IF ~persistId THEN [a EXCEPT !.saved = NoContext]
  ELSE IF a.cached = 0 THEN a
  ELSE [a EXCEPT !.saved = ContextOf(a)]

Shelved(a, r) ==
  [shelf EXCEPT ![current] =
     [used |-> TRUE, logged |-> a.logged, saved |-> a.saved, runtime |-> r]]

(* persistSession *)
Persist(a) == agent' = Synced(a) /\ shelf' = Shelved(Synced(a), runtime)

(* invalidateSavedResponseContextForCurrentRuntime, and the messages *)
Said(a, ms) ==
  LET b == IF ~persistId THEN [a EXCEPT !.saved = NoContext]
           ELSE IF a.saved.id # 0 /\ a.saved.runtime # runtime
                THEN [a EXCEPT !.saved = NoContext, !.snapshot = NoContext]
           ELSE a
  IN [b EXCEPT !.logged = @ \o ms, !.convo = @ \o ms]

(* The history only. *)
Noted(a, ms) == [a EXCEPT !.convo = @ \o ms]

(* clearProviderAndSavedResponseContext *)
Cleared(a) == [a EXCEPT !.cached = 0, !.snapshot = NoContext, !.saved = NoContext]

(* restoreSessionConversation and reconcileSessionForCurrentRuntime *)
ResumedFrom(chat) ==
  LET here == persistId /\ chat.saved.id # 0 /\ chat.saved.runtime = chat.runtime
  IN [convo |-> chat.logged, logged |-> chat.logged,
      saved |-> IF persistId THEN chat.saved ELSE NoContext,
      cached |-> IF here THEN chat.saved.id ELSE 0,
      snapshot |-> IF here THEN chat.saved ELSE NoContext]

RcInit ==
  /\ agent = Fresh
  /\ current \in Chats /\ runtime \in Runtimes /\ persistId \in BOOLEAN
  /\ shelf = [c \in Chats |-> IF c = current THEN NewChat ELSE NoChat]
  /\ stage = "ready" /\ request = NoRequest /\ turn = NoTurn /\ plan = NoPlan
  /\ server = <<>>
  /\ prompted = 0 /\ said = 0 /\ changes = 0
  /\ unsettled = {} /\ replanned = FALSE /\ building = FALSE

-----------------------------------------------------------------------------
(* Turns begin. *)

BeginTurn(a, compressed) ==
  turn' = [input |-> said + 1, first |-> said, start |-> Len(a.convo),
           compressed |-> compressed, retried |-> FALSE]

(* prepareChatRequest and Run *)
Prompt ==
  /\ stage = "ready" /\ prompted < MaxPrompts
  /\ prompted' = prompted + 1
  /\ Persist(Said(agent, <<Msg(1, "plain")>>))
  /\ BeginTurn(agent, FALSE)
  /\ stage' = "ask" /\ building' = FALSE
  /\ Speak(1)
  /\ UNCHANGED <<setting, request, plan, server, changes, unsettled, replanned>>

(* prepare: the session has the request, the history is about to get the   *)
(* prompt of the investigation.                                            *)
Investigate(number) ==
  LET m == [n |-> said + 1, kind |-> "plain", turn |-> number]
      a == Said(agent, <<m>>)
  IN /\ Persist(a)
     /\ plan' = [on |-> TRUE, length |-> Len(agent.convo), entries |-> Len(agent.logged),
                 context |-> ContextOf(Synced(a))]
     /\ stage' = "ask"
     /\ Speak(1)

PlanPrompt ==
  /\ stage = "ready" /\ prompted < MaxPrompts
  /\ prompted' = prompted + 1
  /\ Investigate(prompted + 1)
  /\ BeginTurn(agent, FALSE)
  /\ building' = FALSE
  /\ UNCHANGED <<setting, request, server, changes, unsettled, replanned>>

(* recordRerunRequest and runPlanModeWithAutoCompression *)
Rerun ==
  /\ stage = "rerun"
  /\ Investigate(prompted)
  /\ turn' = [turn EXCEPT !.input = said + 1, !.start = Len(agent.convo)]
  /\ UNCHANGED <<setting, request, server, prompted, changes, facts>>

(* The approved plan is handed to the normal mode. *)
Handoff ==
  /\ stage = "handoff"
  /\ Persist(Said(agent, <<Msg(1, "plain")>>))
  /\ BeginTurn(agent, turn.compressed)
  /\ stage' = "ask" /\ building' = TRUE
  /\ Speak(1)
  /\ UNCHANGED <<setting, request, plan, server, prompted, changes, unsettled, replanned>>

-----------------------------------------------------------------------------
(* Requests. *)

(* BuildTrailingToolOutputs *)
Trailing(s) == {i \in DOMAIN s : \A j \in i .. Len(s) : IsReply(s[j])}

(* BuildChatRequest *)
RequestFor(a, prompt) ==
  LET s == a.convo
      new == IF a.cached = 0 THEN DOMAIN s
             ELSE IF Trailing(s) # {} THEN Trailing(s) ELSE {Len(s)}
  IN [prev |-> a.cached, input |-> {s[i].n : i \in new},
      outputs |-> Cardinality(new \cap Trailing(s)), prompt |-> prompt]

(* Slip: an ID is continued under any prompt. *)
ContinueUnderAnyPrompt(a, prompt) == a

(* prepareResponseContextForPrompt: in memory only *)
ReusableFor(a, prompt) ==
  LET c == ContextOf(a)
  IN IF a.cached = 0 \/ (c.runtime = runtime /\ c.prompt = prompt) THEN a ELSE Cleared(a)

(* The prompt of plan mode is one of its own.  A history that is reduced   *)
(* for the provider is sent without a previous ID.                         *)
Ask ==
  /\ stage = "ask"
  /\ \E prompt \in IF plan.on THEN {"plan"} ELSE Prompts :
       \/ /\ agent' = ReusableFor(agent, prompt)
          /\ UNCHANGED changes
          /\ request' = RequestFor(agent', prompt)
       \/ /\ Change
          /\ agent' = Cleared(agent)
          /\ request' = RequestFor(agent', prompt)
  /\ stage' = "wait"
  /\ UNCHANGED <<shelf, setting, turn, plan, server, prompted, said, facts>>

(* RunStreaming: a 400 to a request with a previous ID sends it once more, *)
(* in full.                                                                *)
Refuse ==
  /\ stage = "wait" /\ request.prev # 0
  /\ agent' = [agent EXCEPT !.cached = 0]
  /\ request' = RequestFor(agent', request.prompt)
  /\ UNCHANGED <<shelf, setting, stage, turn, plan, server, counts, facts>>

(* The provider: an ID of its own has to be known, every call that is open *)
(* there has to be answered; the new ID stands for all of that and for the *)
(* response, message said + 1.                                             *)
Accepts == request.prev # 0 => request.outputs = server[request.prev].open

Store(open) ==
  LET before == IF request.prev = 0 THEN {} ELSE server[request.prev].seen
  IN server' = Append(server, [seen |-> before \cup request.input \cup {said + 1},
                               runtime |-> runtime, prompt |-> request.prompt, open |-> open])

(* chatWithResponses and recordResponseContextForPrompt *)
Answered ==
  LET id == Len(server) + 1
  IN [agent EXCEPT !.cached = id,
                   !.snapshot = [id |-> id, runtime |-> runtime, prompt |-> request.prompt]]

Responds(open) ==
  /\ stage = "wait" /\ Accepts
  /\ Len(server) < MaxAnswers
  /\ Store(open)
  /\ request' = NoRequest
  /\ UNCHANGED <<setting, turn, plan, prompted, changes, replanned, building>>

OfTurn == turn.first + 1 .. said

(* An answer in words ends the turn, or the investigation. *)
Answer ==
  /\ Responds(0)
  /\ Persist(Said(Answered, <<Msg(1, "plain")>>))
  /\ stage' = IF plan.on THEN "review" ELSE "ready"
  /\ Speak(1)
  /\ UNCHANGED unsettled

(* An answer that is sent back with a feedback, both in the history only;  *)
(* in an investigation the answer is in the session.                       *)
AnswerSentBack ==
  /\ Responds(0)
  /\ \/ /\ plan.on
        /\ Persist(Noted(Said(Answered, <<Msg(1, "plain")>>), <<Msg(2, "plain")>>))
        /\ unsettled' = unsettled \cup {said + 2}
     \/ /\ ~plan.on
        /\ agent' = Noted(Answered, <<Msg(1, "plain"), Msg(2, "plain")>>)
        /\ UNCHANGED shelf
        /\ unsettled' = unsettled \cup {said + 1, said + 2}
  /\ stage' = "ask"
  /\ Speak(2)

(* The final checks are cancelled: the answer is recorded nowhere, and the *)
(* turn is cut off.                                                        *)
AnswerUnrecorded ==
  /\ Responds(0) /\ ~plan.on
  /\ agent' = Answered
  /\ UNCHANGED shelf
  /\ stage' = "ready"
  /\ Speak(1)
  /\ unsettled' = unsettled \cup OfTurn \cup {said + 1}

(* A call: plan mode records it without ToolCalls. *)
AnswerWithCall ==
  /\ Responds(1)
  /\ Persist(Said(Answered, <<Msg(1, IF plan.on THEN "plain" ELSE "calls")>>))
  /\ stage' = "tools"
  /\ Speak(1)
  /\ UNCHANGED unsettled

-----------------------------------------------------------------------------
(* Tools. *)

ToolsRun == stage = "tools" /\ stage' = "between"
ToolsLeave == UNCHANGED <<setting, request, turn, plan, server, prompted, changes, replanned, building>>

Reply ==
  /\ ToolsRun
  /\ Persist(Said(agent, <<Msg(1, "reply")>>))
  /\ Speak(1)
  /\ UNCHANGED unsettled
  /\ ToolsLeave

(* A comment of the user, or in plan mode a tool that is not allowed: what *)
(* the model is told is in the history only.                               *)
ReplyInHistory ==
  /\ ToolsRun
  /\ LET ms == IF plan.on THEN <<Msg(1, "plain")>>
               ELSE <<Msg(1, "reply"), Msg(2, "plain")>>
     IN /\ agent' = Noted(agent, ms)
        /\ unsettled' = unsettled \cup Numbers(ms)
        /\ Speak(Len(ms))
  /\ UNCHANGED shelf
  /\ ToolsLeave

Continue ==
  /\ stage = "between"
  /\ stage' = "ask"
  /\ UNCHANGED <<agent, shelf, setting, request, turn, plan, server, counts, facts>>

-----------------------------------------------------------------------------
(* Compression. *)

(* compressHistoryWithSplit: the first k messages become one *)
Summarised(a, k) ==
  [Cleared(a) EXCEPT
     !.saved = a.saved,
     !.convo = <<[n |-> said + 1, kind |-> "plain", turn |-> 0]>> \o SubSeq(a.convo, k + 1, Len(a.convo))]

(* persistLocalCompressionSuccess *)
Rewritten(a) == [a EXCEPT !.logged = a.convo, !.saved = NoContext, !.cached = 0, !.snapshot = NoContext]

Split == splitHistoryForCompression(agent.convo, KeepNewest)
CanCompress == Len(agent.convo) > KeepNewest /\ Split > 0

(* Slip: the checkpoint keeps the lengths of the old history. *)
KeepCheckpoint(start) == plan

(* rebaseAfterInTurnCompression *)
Rebased(start) ==
  IF ~plan.on THEN plan
  ELSE [plan EXCEPT !.length = start, !.entries = start, !.context = NoContext]

(* maybeAutoCompressDuringTurn: not a message of the turn itself *)
CompressInTurn ==
  /\ stage = "between" /\ ~turn.compressed
  /\ Change
  /\ LET k == splitHistoryForInTurnCompression(agent.convo, turn.start, KeepNewest)
         start == 1 + turn.start - k
     IN /\ k > 0
        /\ Persist(Rewritten(Summarised(agent, k)))
        /\ turn' = [turn EXCEPT !.start = start, !.compressed = TRUE]
        /\ plan' = Rebased(start)
  /\ stage' = "ask"
  /\ Speak(1)
  /\ UNCHANGED <<setting, request, server, prompted, facts>>

(* /compress, or automatically after a turn *)
CompressNow ==
  /\ stage = "ready" /\ CanCompress
  /\ Change
  /\ Persist(Rewritten(Summarised(agent, Split)))
  /\ Speak(1)
  /\ UNCHANGED <<setting, stage, request, turn, plan, server, prompted, facts>>

(* compressWithCompactAPI: what replaces the messages is sent before the   *)
(* history of every full request.                                          *)
Compact ==
  /\ stage = "ready" /\ agent.convo # <<>>
  /\ Change
  /\ Persist(Rewritten([agent EXCEPT !.convo = <<>>]))
  /\ UNCHANGED <<setting, stage, request, turn, plan, server, prompted, said, facts>>

(* handleTokenLimitErrorWithRetry in normal mode: the input goes to the    *)
(* history once more, the session is not told.                             *)
RetryCompressed ==
  /\ stage = "wait" /\ ~plan.on /\ ~turn.retried /\ CanCompress
  /\ Change
  /\ LET a == Rewritten(Summarised(agent, Split))
         again == [n |-> turn.input, kind |-> "plain", turn |-> 0]
     IN /\ agent' = Noted(a, <<again>>)
        /\ shelf' = Shelved(a, runtime)
        /\ turn' = [turn EXCEPT !.start = Len(a.convo), !.retried = TRUE]
  /\ stage' = "ask" /\ request' = NoRequest
  /\ unsettled' = unsettled \cup {turn.input}
  /\ Speak(1)
  /\ UNCHANGED <<setting, plan, server, prompted, replanned, building>>

-----------------------------------------------------------------------------
(* Plan mode comes back. *)

(* restore: a history shorter than the checkpoint's stays as it is *)
Restored(a) ==
  [a EXCEPT !.cached = plan.context.id,
            !.snapshot = plan.context,
            !.convo = IF plan.length <= Len(@) THEN SubSeq(@, 1, plan.length) ELSE @,
            !.logged = IF plan.entries < Len(@) THEN SubSeq(@, 1, plan.entries) ELSE @,
            !.saved = IF persistId THEN plan.context ELSE NoContext]

RestoreAnd(next) ==
  /\ agent' = Restored(agent)
  /\ shelf' = Shelved(agent', runtime)
  /\ stage' = next
  /\ plan' = NoPlan

PlanLeaves == UNCHANGED <<setting, request, turn, server, prompted, said, facts>>

(* No plan, or one without steps that was not parsed as a plan: what was   *)
(* said stays.                                                             *)
NothingToDo ==
  /\ stage = "review"
  /\ stage' = "ready" /\ plan' = NoPlan
  /\ UNCHANGED <<agent, shelf, changes>>
  /\ PlanLeaves

(* The request is restored and then leaves the chain it came from. *)
Approve ==
  /\ stage = "review"
  /\ Persist(Cleared(Restored(agent)))
  /\ stage' = "handoff" /\ plan' = NoPlan
  /\ UNCHANGED changes
  /\ PlanLeaves

Decline == stage = "review" /\ RestoreAnd("ready") /\ UNCHANGED changes /\ PlanLeaves
Feedback == stage = "review" /\ Change /\ RestoreAnd("rerun") /\ PlanLeaves

(* handleTokenLimit: compressed in memory only, then restored by the       *)
(* lengths of the history before that.                                     *)
RetryPlan ==
  /\ stage = "wait" /\ plan.on /\ ~turn.retried /\ CanCompress
  /\ Change
  /\ agent' = Restored(Summarised(agent, Split))
  /\ shelf' = Shelved(agent', runtime)
  /\ stage' = "rerun" /\ plan' = NoPlan /\ request' = NoRequest
  /\ turn' = [turn EXCEPT !.retried = TRUE]
  /\ replanned' = TRUE
  /\ Speak(1)
  /\ UNCHANGED <<setting, server, prompted, unsettled, building>>

-----------------------------------------------------------------------------
(* A turn is cut off. *)

(* A failed or cancelled request, or a loop of tools. *)
FailTurn ==
  /\ stage \in {"wait", "tools", "between"}
  /\ Change
  /\ IF plan.on THEN RestoreAnd("ready") /\ UNCHANGED unsettled
     ELSE /\ UNCHANGED <<agent, shelf, plan>>
          /\ stage' = "ready"
          /\ unsettled' = unsettled \cup OfTurn
  /\ request' = NoRequest
  /\ UNCHANGED <<setting, turn, server, prompted, said, replanned, building>>

(* The process ends at any point; another one resumes the session. *)
Restart ==
  /\ Change
  /\ agent' = ResumedFrom(shelf[current])
  /\ runtime' = shelf[current].runtime
  /\ stage' = "ready" /\ plan' = NoPlan /\ request' = NoRequest /\ turn' = NoTurn
  /\ unsettled' = unsettled \cup IF stage = "ready" THEN {} ELSE OfTurn
  /\ building' = FALSE
  /\ UNCHANGED <<shelf, current, persistId, server, prompted, said, replanned>>

-----------------------------------------------------------------------------
(* Commands. *)

Commanded == UNCHANGED <<stage, request, plan, server, prompted, said, unsettled, replanned>>

(* /new and /clear: StartNewSession *)
StartNewSession ==
  /\ stage = "ready"
  /\ Change
  /\ \E c \in Chats :
       /\ ~shelf[c].used
       /\ current' = c
       /\ shelf' = [Shelved(Synced(agent), runtime) EXCEPT ![c] = NewChat]
  /\ agent' = Fresh /\ turn' = NoTurn /\ building' = FALSE
  /\ UNCHANGED <<runtime, persistId>>
  /\ Commanded

(* /resume: ResumeSession *)
ResumeSession ==
  /\ stage = "ready"
  /\ Change
  /\ \E c \in Chats \ {current} :
       /\ shelf[c].used
       /\ current' = c
       /\ runtime' = shelf[c].runtime
       /\ agent' = ResumedFrom(shelf[c])
  /\ shelf' = Shelved(Synced(agent), runtime)
  /\ turn' = NoTurn /\ building' = FALSE
  /\ UNCHANGED persistId
  /\ Commanded

(* /model, /provider: clearResponseContinuationContext under the new runtime *)
SwitchRuntime ==
  /\ stage = "ready"
  /\ Change
  /\ \E r \in Runtimes \ {runtime} :
       /\ runtime' = r
       /\ agent' = Cleared(agent)
       /\ shelf' = Shelved(agent', r)
  /\ UNCHANGED <<current, persistId, turn, building>>
  /\ Commanded

RcNext ==
  \/ Prompt \/ PlanPrompt \/ Rerun \/ Handoff
  \/ Ask \/ Refuse
  \/ Answer \/ AnswerSentBack \/ AnswerUnrecorded \/ AnswerWithCall
  \/ Reply \/ ReplyInHistory \/ Continue
  \/ CompressInTurn \/ CompressNow \/ Compact \/ RetryCompressed
  \/ NothingToDo \/ Approve \/ Decline \/ Feedback \/ RetryPlan
  \/ FailTurn \/ Restart
  \/ StartNewSession \/ ResumeSession \/ SwitchRuntime

RcSpec == RcInit /\ [][RcNext]_rcVars
-----------------------------------------------------------------------------
Messages == [n : 1 .. said, kind : {"plain", "calls", "reply"}, turn : 0 .. prompted]
Contexts == [id : 0 .. Len(server), runtime : Runtimes \cup {"none"},
             prompt : Prompts \cup {"plan", "none"}]

RcTypeOK ==
  /\ agent.convo \in Seq(Messages) /\ agent.logged \in Seq(Messages)
  /\ {agent.saved, agent.snapshot} \subseteq Contexts
  /\ agent.cached \in 0 .. Len(server)
  /\ shelf[current].used
  /\ stage \in {"ready", "ask", "wait", "tools", "between", "review", "rerun", "handoff"}
  /\ plan.on => stage \in {"ask", "wait", "tools", "between", "review"}
  /\ prompted \in 0 .. MaxPrompts /\ changes \in 0 .. MaxChanges
  /\ unsettled \subseteq 1 .. said

Continues == stage = "wait" /\ request.prev # 0 /\ Accepts

(* A request that names an earlier response, and is not refused for a call *)
(* that is left open there, is right only if what the provider has under   *)
(* that ID, together with what is sent now, is the conversation the agent  *)
(* believes in: the ID was given by the same runtime under the same system *)
(* prompt, it stands for nothing that was taken out since (an              *)
(* investigation that was given back, a summarised part, another session), *)
(* and nothing of the history is missing.  Turns that were cut off and     *)
(* messages kept from the session are excepted, as is everything after a   *)
(* plan was compressed by a token-limit error.                             *)
ChainIsHistory ==
  Continues /\ ~replanned =>
    LET stored == server[request.prev] IN
    /\ stored.runtime = runtime /\ stored.prompt = request.prompt
    /\ stored.seen \ Numbers(agent.convo) \subseteq unsettled
    /\ Numbers(agent.convo) \ (stored.seen \cup request.input) \subseteq unsettled

OfInvestigation(s) == \E i \in DOMAIN s : s[i].turn = prompted

(* docs/commands.md: the investigation of a plan is not carried over to    *)
(* its implementation, neither in what the model is sent nor in the        *)
(* session, however often the plan was sent back and wherever a            *)
(* compression during the investigation has moved the start of the turn.   *)
InvestigationTakenBack ==
  building /\ ~replanned => ~OfInvestigation(agent.convo) /\ ~OfInvestigation(agent.logged)

(* The same without the exception. *)
InvestigationNotCarriedOver ==
  building => ~OfInvestigation(agent.convo)
=============================================================================
