# xelyon-cli in TLA+

A verification project for xelyon-cli, a coding agent for the terminal written
in Go. It models the parts of the program whose correctness depends on the
order of things: goroutines, channels, failures half-way, restarts, and
histories that are cut and put together again. TLC checks the models on small
instances; TLAPS proves every invariant and action property of these runs for every
value of the constants.

Paths below are relative to the root of the repository. `PROJECT.json` maps
every definition that models code to the lines it stands for.

## The system

The user types a prompt; the agent sends its history to a language model; the
model answers with text or with tool calls; the tools run, their results go to
the history, and the model is asked again until it answers without tools. What
is said is kept twice: in the history the model is sent and in a session on
disk.

    terminal -> Agent (normal or plan mode)
                  |- turn loop ----- provider adapters --> language model
                  |- tool batch executor -- tools: files, commands, searches,
                  |                         language servers, MCP, spawn_agent ...
                  |                              `- sub-agent manager -> agents of their own
                  |- compression (history split, summary or compact API)
                  `- session <-> session storage (JSONL + metadata)

### Components with a model

**Sub-agent manager** (`internal/tools/subagent`,
`internal/agent/agent_tool_waitagent.go`).
*State:* a map from ids to entries (status, result, a channel `done` closed at
the end), a counter, one mutex, a bounded event channel; per `wait_agent` call
the ids, the position in them and one timer.
*Operations:* spawn (allocate a slot, resolve a provider, launch a goroutine or
withdraw the entry), the run with its panic path and three deferred functions,
wait over a list of ids with or without a timeout, the live view that prints
events while it waits.
*Interactions:* both tools are parallel-safe, so several calls run at once on
the goroutines of the tool batch executor; each sub-agent has a goroutine that
nobody joins.
*Hard:* entries are published before they can run; the status is read after the
channel was received and the lock taken again; one timer serves all ids.
*Correct when:* the limit holds; what a wait reports is final; a wait comes back;
the completion line of a finished sub-agent is not left behind in the channel.

**Tool batch executor** (`internal/agent/agent_tool_parallel*.go`,
`internal/toolruntime`, `internal/agent/turn_runner.go`).
*State:* the calls of one response, an entry and a result per call, a
semaphore, the goroutines; over a turn, the last call and how often it was
repeated.
*Operations:* plan with loop detection, merge searches and reads, run the
parallel-safe calls behind the semaphore, run the others one by one, deliver
the results in order; a cancel at any time.
*Hard:* the context is read before a wait that may be long, and a step before the
tool starts; tokens, results and the join are three mechanisms that must agree;
repetition spans batches.
*Correct when:* no more tools run than allowed; a write runs alone and after the
reads; behind a call that a cancel left out no write runs; the model is told what
really happened; a repetition is cut; every batch ends with a reply for every
call.

**Conversation of the normal mode** (`internal/agent`: `chat_request.go`,
`turn_runner*.go`, `agent_tool_history.go`, `compress*.go`,
`auto_compress*.go`, `token_limit_retry.go`, `conversation_state.go`).
*State:* the history, the session's copy of it, counters of the turn (responses,
strikes of str_replace, whether compression was tried), of the retry, and the
start of the turn in the history.
*Operations:* a prompt; a response with calls, with an answer, with a plan in
words, with failing final checks; each way a result is recorded; compression
during a turn, after it and by command; compress-and-retry when the model
rejects the history as too long; cancel, /clear, restart.
*Interactions:* receives the results of the tool batch executor, calls the
history split, saves through the session.
*Hard:* some paths write to the history only; indices into the history survive
its compression; a retry runs the turn again on the same agent; a restart takes
back only what was saved; by default nothing counts the responses of a turn.
*Correct when:* every call the model is shown has its reply; the session is never
ahead of the history nor in another order; a running turn is not compressed
away; a prompt comes to an end.

**History split** (`internal/agent/compress_history_split.go`). A pure function:
where to cut a history so that calls stay with their replies.
*Hard:* batches of several replies, batches back to back, a cut that moves to the
front.

**Session storage** (`internal/history`, with the agent's use of it in
`internal/agent/agent_persistence.go`, `plan_mode_checkpoint.go`,
`gemini_apply_patch_repair.go`).
*State:* entries in memory with the number of persisted ones and a flag that a
rewrite is required; a JSONL file; a metadata file with a count to compare.
*Operations:* save (append), rewrite (replace), load with its checks; between
saves the agent adds, compresses, truncates, resets or repairs entries.
*Hard:* every write may fail, an append may fail inside a line, and the process
may stop between the two files.
*Correct when:* what a successful save stored is what a later load returns, and no
load returns a mixture of two sessions.

**Plan mode and the continuation by response ID** (`internal/agent`:
`plan_request.go`, `plan_mode_checkpoint.go`, `response_prompt_fingerprint.go`,
`agent_session_identity.go`, `conversation_state.go`, `compress_compact.go`;
`internal/api/providers/openai`, `openai_responses`).
*State:* the history, the session, the last response ID in the provider, in the
agent and in the session, each with the fingerprint of the runtime and prompt it
belongs to; in plan mode the lengths of history and session before the
investigation.
*Operations:* a request with an ID (only the newest message is sent) or without
(everything is), answers, tools, compression of either kind, /new, a resume, a
change of the model or of the prompt, a restart; investigate, approve, give
feedback, refuse.
*Hard:* three records of one conversation are cut at different moments, and a
wrong ID is not an error: the model simply sees another conversation.
*Correct when:* what the provider continues is the history; an investigation is
taken back whole.

**Tool cache** (`internal/agent/tool_cache*.go`,
`internal/tools/execute_cache_invalidation.go`).
*State:* contents and listings with the time of the file, answers of searches
with the files they tell of; part of it is stored for the next process.
*Operations:* look up, compare, put back; read and store; the tools that change
files take entries away.
*Hard:* every look-up is several steps without the lock, on the goroutines of
the batch executor; answers of searches are used without a look at the disk.
*Correct when:* an entry that would be used tells what the file holds.

**Subscription token store** (`internal/api/providers/openai_subscription`).
*State:* one credential file for all processes of the user, a mutex in each.
*Operations:* get (read, and refresh when old), login, logout.
*Hard:* a server may accept a refresh token once only; processes are not ordered;
a process may end between the server's answer and the write.
*Correct when:* a login is lost only with an answer that was never stored; requests
that wait for a refresh use it instead of another; every request comes back.

**Terminal bridge** (`internal/tuiagent`, `internal/tui`).
*State:* two bounded channels with a goroutine each, the event loop, one question
on the screen.
*Operations:* a turn emits results and text and is flushed at its end; a command
prints from inside the loop; tools ask the user; a request is cancelled; the
terminal ends and the bridge is shut down.
*Hard:* the loop that empties a channel also fills it; the shutdown may come
between any two steps.
*Correct when:* what a turn sent is shown before the turn is over; a question is
shown for who asked it; nothing waits for the terminal for ever.

**Language server connection** (`internal/lsp`).
*State:* the map of servers behind one mutex; per server a process, a reader
goroutine, channels of outstanding requests, whether the document is open.
*Operations:* start, call, open the document, diagnostics, close.
*Hard:* the server is another program: it may answer twice, ask on its own, be
silent, stop reading or die; a write to it waits with the server's mutex held,
and a start, a close and the question whether it runs hold the mutex of all.
*Correct when:* a server that is used is initialized; the reader never blocks; the
document is opened once; callers come back, unless the server neither reads nor
ends.

### How they meet

The batch executor calls tools, among them `spawn_agent` and `wait_agent` of the
sub-agent manager, the searches and reads that go through the tool cache, and the
ones that ask a language server; it hands its results to the conversation, which
compresses with the history split, is cut by plan mode and is saved through the
session. Every request to the subscription provider goes through the token
store, and everything that is shown goes through the bridge. Where one of these
relies on another, the promise is a property of that other one: one reply per
call in the order of the calls (`BatchCompletes`, `RepliesTellWhatRan`), no
write beside another tool (`SequentialRunsAlone`, which the cache's answers
rest on), a cut that is usable (`SplitIsUsable`; `Conversation` and
`ResponseChain` use the operators of `HistorySplit` themselves).

### Components without a model

| Component | Why |
| --- | --- |
| Raw output store (`internal/rawoutputs`) | its manifest is appended like the session's file, whose failures `SessionStorage` models; the quota is looked at before a result is written and `CollectGarbage` has no caller in the program |
| Stream controller and retries (`internal/api`) | one request has one reader: a select over context, idle timer and lines, with nothing shared; what becomes of a request that fails or is cancelled is in `Conversation` |
| Retry state of failing commands (`internal/turnsupport`, `internal/finalcheck`) | its effect on a turn is in `Conversation`; the counters are values of one turn, read and written by one goroutine |
| Locator registry and other caches | each is a map behind one mutex whose every operation is one critical section |
| MCP manager | connections and the matching of answers belong to an external library; a call is sent at most twice in sequence |
| File mutation engine, apply_patch | pure rewriting of files with a large test-suite; its scheduling is in `ToolBatch` |
| Provider adapters | conversion between formats; the pairing they rely on is a property of `Conversation` |
| Skills usage ledger | reads and writes a small file, no concurrency of its own |
| Review, task state, code analysis, configuration and command line, prompts, catalogues and views, audit, cost, crypto, version, installation | sequential, pure, or input and output only: no property of order to state |

## The modules

| Module | What it is | Used by |
| --- | --- | --- |
| `SubAgentPool` | abstract: slots that are taken, withdrawn or settled once, and callers that are told only settled outcomes | `SubAgentManager` (refinement) |
| `SubAgentManager` | the manager, its goroutines, waits and live view | `MCSubAgent`, the proofs |
| `SubAgentProofs` | five theorems and the refinement | |
| `ToolBatch` | the executor and the loop detection of a turn | `MCWork`, the proofs |
| `LanguageServer` | one server and one document | `MCWork`, run `lsp_stale`, the proofs |
| `WorkProofs` | the theorems about the two | |
| `Selection` | what a filter leaves of a sequence | `Conversation`, `SessionStorage` |
| `HistorySplit` | the split, as operators | `HistorySplitCases`, `Conversation`, `ResponseChain` |
| `HistorySplitCases` | grows every history up to a bound | `MCHistory`, run `history_split_pairs` |
| `Conversation` | history and session over the turns of a normal conversation | `MCConversation`, run `conversation_stored` |
| `ToolCache` | contents, listings and answers of searches | `MCConversation`, the proofs |
| `ConversationProofs` | the theorems about the two | |
| `SessionStorage` | one session on disk | `MCHistory`, run `session_torn` |
| `ResponseChain` | response IDs, compression and plan mode | `MCHistory`, run `plan_retry` |
| `ResponseChainProofs` | three theorems | `HistoryProofs` |
| `HistoryProofs` | the theorems about the split, the storage and the three side by side | |
| `TokenStore` | the credential of several processes | `MCServices`, the proofs |
| `TuiBridge`, `TuiPrompt` | the channels to the terminal; the questions to the user | `MCServices`, the proofs |
| `ServicesProofs` | the theorems about the three | |
| `SequenceFacts` | induction over numbers and sequences; facts about `Only` | the proofs |
| `HistorySplitProofs` | where a split can be | `ResponseChainProofs`, `ConversationProofs` |
| `MCSubAgent` | symmetry of the callers | runs `subagent_*` |
| `MCWork`, `MCHistory`, `MCConversation`, `MCServices` | several components in one run | runs `work`, `history`, `conversation`, `services` |

The last four put components that share no state beside each other: the
variable `part` says which of them a behaviour belongs to, and the others stay
at their initial state. Nothing is composed by this and no interleaving is
added: each component is explored as if alone, which keeps the fairness of a
part from meaning anything for the others.

Definitions that begin with the comment "Slip:" are not part of a model. Each is
a plausible bug in the definition that follows it; putting it in that
definition's place must break a property, which shows that the property can
fail (`mutants` in `PROJECT.json`).

### From code to model

*SubAgentManager.* `agents`, `counter`, `status`, `done` and `eventCh` are the
fields of `Manager` and `managedSubAgent`; `failure` is what the aggregate
status reads of a result (`ToolBreakdown`). One step is one critical section of
`Manager.mu` or one channel operation: `AllocateRunningAgent`, `LaunchAgent` and
`RemoveAgent` are spawn; `SetAgentResult` or `MarkAgentPanic`,
`EmitCompletionEvent` and `CloseDone` are the run and its deferred functions in
the order they run; `AgentFound`, `ReceiveDone`, `ReceiveDeadline`,
`SnapshotOrTimeout` are one iteration of `Wait`. What a sub-agent does is any
result, nil or a panic. The timer fires at any time after it was armed. Ids are
those the counter will hand out, whether or not it has: the model may name an
id before it exists.

*ToolBatch.* The main goroutine's place is `phase`, a goroutine's is `worker`.
The look at the context, the token, the start of the tool, the store of the
result, the release and `wg.Done` are steps of their own, in the goroutines as in
the sequential loop and for a merged call (`WorkerLooks`, `WorkerStarts`;
`SequentialLooks`, `SequentialStarts`; `MergedLooks`, `MergedRuns`): a cancel
between look and start no longer keeps the tool from starting. Where the loop and
the executor of the tool both look, the last look is the step. `runs` counts starts
of a tool and exists for the properties, as do `planned` and the `cancelled`
entries of `result`. Tools are four kinds: mergeable searches, mergeable reads
(of one path each), other parallel-safe tools, and everything else ("write").

*Conversation.* A message is its kind and the run and response it belongs to.
A batch comes from the plan as a number of calls and the first call that is cut;
a delivery is one step, so that a restart may come between two. Summaries are
one message; whether a compression succeeds is free. `hardLimit` is the tool-loop
limit of the configuration, 0 for none; a run without a limit is followed for
`MaxResponses` responses and may then go on (`GoesOn`). `Cancel` is the user's or
that of the deadline of the request, which are one context for everything in
the model. Persistence is one step
here, since what becomes of a save on disk is the subject of `SessionStorage`.

*SessionStorage.* A line of the file is an entry, a header of compacted items or
junk. Append writes a line per step; a failing write leaves nothing or the front
part of its line, to which the next line is glued. Replacing a file is one step
(temporary file and rename). `want`, `versions`, `outcome` and `broken` are
records for the properties: what was asked to be stored, what a load may
return, how the last save ended, and whether one of the two failures without a
remedy has happened.

*ResponseChain.* A message is a number that grows, its kind, and the turn whose
investigation it belongs to. The provider remembers for every response ID what
the model saw up to it; `agent` holds the history, the session's log and saved
context, the ID the provider has cached and the snapshot, `shelf` the sessions
as they were last saved. Fingerprints are pairs of a runtime and a prompt.

*ToolCache.* A text is a number and time is the number of changes, so that two
changes never have one time. A goroutine's job says where in its look-up or read
it stands and what entry it holds. A tool that changes files is one step, since
it runs alone; changes by others come at any moment.

*TokenStore.* A credential is a pair of numbers in the order the server gave
them; the server is external and rotates refresh tokens or does not. `Get` reads
the file; `Proceed` is its next step: the mutex, the second reading, the
exchange, the write. A process may end at any step. What a call returns is no
state: a save whose chmod fails after the rename returns an error and has
replaced the file, and is the same step as one that returns none.

*TuiBridge, TuiPrompt.* Messages are numbered; a flush is a mark in the outgoing
channel. The event loop is the library's: it takes a message when it is free and
drops it once it has ended. A question is at the mutex, about to be shown, on
the screen, or taking its modal back.

*LanguageServer.* What the process sends is chosen when the reader reads it. A
request ID is a number, so that a request of the server can have the number of
a call. The text of the document is its version on disk. The mutex of a server
is held within one step, except by a write that waits because the pipe is full
(`WriteWaits`, `lspWriter`): whoever else needs it, the reader that hands out an
answer, `IsRunning` under the client's mutex (`GetServer`, then `GetKnown`) and
`Close`, waits for the process to read or to end.

## The runs

With two workers the longest needs two to three minutes, the runs that
expect a violation a few seconds.

| Run | Question | Properties |
| --- | --- | --- |
| `subagent_safety` | do limit, answers and live view hold under every interleaving, and is the manager a slot pool? | `TypeOK`, `ConcurrencyBound`, `AnswersAreFinal`, `LiveViewShowsCompletions`, `ImplementsPool` |
| `subagent_liveness` | does a wait over several ids come back, with the right sum? | `VerdictSummarisesResults`, `TimedWaitReturns`, `UntimedWaitReturns` |
| `subagent_lost_wait` | does every wait come back? It does not (finding 1) | `WaitAlwaysReturns` |
| `work` | batch: what runs when, what is reported, what is cut, does it end? Server: can it be used, is it told once, do callers return? | `WorkTypeOK`, `InFlightBound`, `SequentialRunsAlone`, `RepliesTellWhatRan`, `LoopsAreCut`, `WritesStopAtCancel`, `BatchCompletes`; `ServerUsable`, `OpenedOnce`, `CallersReturn` |
| `conversation` | do pairing and order survive every way a result is recorded, compression, retry and restart, and does a turn end? Is what the cache says true? | `ConversationTypeOK`, `CallsAnswered`, `OrphansOnlyAtFront`, `SessionFollowsHistory`, `CurrentTurnKept`, `TurnEnds`; `CachedReadCurrent`, `AnswerKnowsOwnEdits` |
| `conversation_stored` | is every result stored in the session? It is not (finding 3) | `ResultsStored` |
| `history` | what may callers of the split rely on? Is what was saved what is loaded? Does the provider continue the history? | `HistoryTypeOK`, `SplitIsUsable`, `CutOnlyBetweenBatches`; `SavedSessionLoads`, `NeverAMixture`; `ChainIsHistory`, `InvestigationTakenBack` |
| `history_split_pairs` | do calls and replies stay together, as the comment says? They do not (finding 2) | `PairsNotSplit` |
| `session_torn` | can every saved session be resumed? It cannot (finding 4) | `EverySavedSessionLoads` |
| `plan_retry` | is nothing of an investigation carried over? Something is (finding 6) | `InvestigationNotCarriedOver` |
| `services` | are logins kept and refreshes shared, is a turn's output shown before its end, does nothing wait for ever? | `ServicesTypeOK`, `LoginNotLost`, `RefreshCollapses`, `GetReturns`; `FlushShowsAll`, `ModalHasAsker`, `TerminalReleases` |
| `lsp_stale` | are diagnostics those of the file? They are not (finding 5) | `DiagnosticsCurrent` |

### Bounds, and why they are enough

- *Sub-agents.* Two callers; the safety run has two ids, waits on one, and the
  limit configured as 0, which the code raises to 1, so that a second spawn
  meets a full manager. The liveness runs have one sub-agent and waits on up to
  two ids, the same one twice included, so that the deadline may pass on the
  first id and the second must be answered without blocking. The event channel
  holds one event, so that a full channel is common. A third caller only repeats
  the part of the second: callers share nothing but the map and the channel.
  Symmetry of the callers is used in the safety run only.
- *Tool batch.* Three calls of the four kinds per turn, in one response or over
  up to three; a semaphore of two, so that a third call waits; merges of two, so
  that a third is left over; threshold three, which three equal calls just
  reach, in one batch or across batches. All calls of a kind have the same
  argument; a run of repetitions is cut by a call of another kind.
- *Language server.* Two goroutines that ask and the one that ends the agent,
  three request IDs (the initialization, a query, the shutdown), two processes,
  so that a start that failed is followed by another. The server is explored
  twice (`part`): with goroutines at the same time and a document that does not
  change, and with goroutines one after the other and one change of it. Only
  the diagnostics depend on the text, and they are the subject of `lsp_stale`.
- *History split.* Eleven messages with batches of up to three calls hold two
  batches of three back to back behind an input, with room after them, and the
  split is tried at every position; its steps look only at a batch and its
  neighbour.
- *Conversation.* Two prompts of up to two responses, two calls, one restart, one
  message kept at a compression, so that a cut falls among the replies and a
  compression in the turn follows a history worth compressing; loop threshold
  and strike limit are 2 so that both limits are reached. A prompt may be run
  twice because of the retry. The tool-loop limit is 1 or none: the one is
  reached behind every first response, the other never, so that a run goes on
  beyond what is followed. The second prompt comes to one message at most, that
  of a prompt that failed or was cancelled, or follows a /clear. A limit of 2
  with none, and histories of two messages before a prompt, were explored as
  well and show nothing else; the theorems hold for any number.
- *Tool cache.* Two files in a directory, two goroutines, room for one entry, one
  change after the start: a goroutine puts an entry back over the one another
  has read meanwhile. One file with two changes was explored too.
- *Session storage.* Three entries, two failing writes, any number of stops and
  resumes: a torn append needs one failure and one more save; two failures let a
  failed rewrite be followed by another failure.
- *Response chain.* Three prompts, two responses and three commands, compressions,
  failures or restarts, on two sessions, two runtimes and two prompts: leaving a
  session and coming back takes two of the changes and leaves one for before,
  between or after them, and two responses lie behind the request of the third
  prompt. Three responses with two changes, and two prompts with four responses,
  were explored as well and show nothing else. Sessions, runtimes and prompts
  are interchangeable and symmetry is used for them; the run has no liveness
  property.
- *Services.* Two processes, one with two goroutines, so that there is one to wait
  for the mutex and one that does not know of it; two credentials, which a login
  and a refresh, or two refreshes, use up: a login that lands while the refresh
  of an earlier login is under way needs a third, and is left to the theorems,
  which hold for any number. Both channels
  hold two messages and three are made, so that each is full. Three goroutines
  ask: one is on the screen, and the next is chosen among two.

Every bound is a constant of the module, named as one where it is declared.
Deadlock is not checked: a conversation waits for a user and a session for its
next save, a process that ended stays so, and with the bounds used up nothing is
left to do. That nothing hangs is stated by the liveness properties.

### Fairness

Weak fairness, of what the Go runtime and timeouts give: a goroutine that can
run does (`WaitStep`, `AgentStep`, `Main`, `Worker`, `Agent`, the goroutines of
the bridge), a timer that was armed fires, a provider resolves or fails, and
requests, tools and sub-agents return, because they carry timeouts of their own
or a cap on their turns. A tool or a sub-agent without a timeout that hangs
would hold up `BatchCompletes` and the waits; the models leave that out.

Strong fairness where a goroutine waits for something that others take from
under it again and again: a mutex, which Go hands to a waiter that has waited for
a millisecond (`TokFairness`, `PrFairness`, `LspFairness`), and the event loop,
which is free between any two commands (`BrFairness`). A caller of the
language server waits at most 3, 5, 10 or 30 seconds, by place, which is why
its next step is always possible in the end.

A turn without a tool-loop limit, which is the default, need not come to an end
by itself, so none is assumed: the agent's fairness ends where a run is no longer
followed (`Agent /\ ~GoesOn`), and what is fair instead is the deadline of the
request (`APIRetry.Timeout`, an hour by default, in
`beginCancelableRequestContext`), which is a `Cancel`. The retry after a
token-limit error runs on `context.Background()` and has no deadline;
`TurnEnds` excepts it when there is no limit. With a limit nothing is excepted
and no deadline is needed.

A write to a language server has no limit in time. `CallersReturn` therefore has
the premise `WritesEnd`: each time a write waits, the process reads or ends at
some time. Without it the property is false, see "Findings".

Nothing makes the user type, answer or cancel, the model call a tool, the
language server answer, or its output be read.

## What is proved

Every invariant of a passing run, and every action property, is a theorem for
every value of the constants that meets the named assumptions
(`ManagerAssumption`, `BatchAssumption`, `TokenAssumption`, `BridgeAssumption`,
`PromptAssumption`, `LspAssumption`, `CacheAssumption`, `ConversationAssumption`,
`CasesAssumption`, `BoundsAssumption`, `ChainAssumption`). They say that bounds
and capacities are numbers, not zero where the code has a positive constant;
that names of one kind are not names of another (the cache's directory is no
file, no prompt is called "none"); that tools are of the four kinds; and that
time starts at 1 (`MaxFileTime` is not 0). The bounds of the models are
constants too, so that the theorems hold for any number of prompts, entries,
failures or restarts.

*SequenceFacts* holds what the other proofs need of numbers and sequences. The
library states induction with an operator as a parameter; here it is stated with
a set (`NatSetInduction`, `SeqSetInduction`: a set that holds 0, and with n also
n + 1, holds every number), which follows from the well-foundedness of inclusion
on finite sets. From it come the facts about `Only`, the filter of a sequence:
it exists, keeps types, distributes over appending and concatenation, and does
nothing when everything or nothing is selected. `Only` and the count of
repetitions are recursive functions for that reason.

*HistorySplitProofs* shows where `adjustSplitForFCPairs` and its two callers can
end up: within the history and before the limit (`InTurnSplitInside`); at the end
of the first unit, or on a message that is no reply, or one message before a
batch (`SplitPoint`), which is finding 2.

*SubAgentProofs*

- `TypeCorrect` : `TypeOK`. Strengthened by `InIteration`: a caller inside an
  iteration of `Wait` has an id left, without which the current id would not be
  one.
- `LimitRespected` : `ConcurrencyBound`. The code counts map entries, the
  property goroutines. `SlotInv` ties them: a goroutine that runs or is about to
  has a running entry (`EntryOfRun`), ids are fresh (`FreshIds`), and a spawn
  between allocation and launch is the only one that can start its entry
  (`SpawnOwnsTarget`). Then at most `Limit` entries are running (`SlotsTaken`).
- `WaitAnswersFinal` : `AnswersAreFinal`. `done` is closed after the outcome was
  stored (`DoneIsLast`), a wait that is about to read an entry has seen it closed
  or has expired and looks again (`ReadyToRead`), and nothing changes behind a
  closed `done` (`SettledStays`, a fact about steps).
- `CompletionsShown` : `LiveViewShowsCompletions`, from `ViewInv`: the completion
  event is sent before `done` is closed (`EventSent`), and a view that is over
  has left none of its agents' events behind (`ViewOver`).
- `VerdictIsSummary` : `VerdictSummarisesResults`. The code folds the results one
  by one; the property speaks of the set of them.
- `ManagerIsPool` : `ImplementsPool`, the refinement: every step of the manager is
  a step of the pool or changes nothing the pool shows. Besides the invariants
  above it needs that an entry with a slot is in the map unless it was withdrawn
  (`SlotIsEntry`).

*WorkProofs, the tool batch.* The first three from the inductive invariant `IInv`:
tokens in the semaphore are the goroutines between taking and releasing one
(`SlotsCounted`), where a goroutine may stand in each phase (`WorkersInPhase`),
what each phase still has to do (`TodoInPhase`) and which calls have their result
by then (`ResultsInPhase`).

- `ExecTypeCorrect`, `BatchTypeCorrect` : `TypeOK`, first the executor's part; in
  particular every reply is a result that was written.
- `ParallelismLimited` : `InFlightBound`.
- `WritesRunAlone` : `SequentialRunsAlone`.
- `CancelCutsTheBatch` : `WritesStopAtCancel`. `CInv`: a call is left out only
  after a cancel (`CancelKnown`); no write starts before the sequential phase
  (`WritesWait`); a write that has looked at the context found no call left out
  (`LookIsClean`), which is what makes a start behind a cancel harmless; and the
  writes that ran come before those that are left (`RanBefore`). The property
  does not say that nothing starts after a cancel: the look is best effort.
- `RepliesAreTrue` : `RepliesTellWhatRan`. `RInv` adds, for every call, how often it
  can have started where it stands, and that it is without a result as long as
  it may start (`CallTells`); that the merged calls still to run are disjoint and
  fresh (`ChunksFresh`, which rests on how `Chunks` and the segments between
  writes divide the calls); and what the replies are (`RepliesAre`).
- `LoopsNeverRunOn` : `LoopsAreCut`. `DetectorInv`: between batches, and as long as
  a batch has met no loop, the detector's two fields describe the calls let
  through so far: the last one, and a number not smaller than that of equal calls
  they end with (`Detects`). That the count stays in its range is an induction
  over the calls of a batch (`SameCountIs`).

*WorkProofs, the language server*, from `LspInv`: the client's mutex is held
exactly while a server is started, asked whether it runs or closed
(`MutexHeld`); a server in the map has been initialized or is being closed
(`ServerKnown`); a server that can be told anything and has the document counts
as having it open, and one goroutine at most is about to send it
(`DocumentOpen`); no call has two answers (`OneAnswer`).

- `ServersAreUsable` : `ServerUsable`.
- `DocumentOpenedOnce` : `OpenedOnce`.
- `LspTypeCorrect` : `LspTypeOK`, with `LspTyped`; `WorkTypes` : `WorkTypeOK`.

*ServicesProofs, the token store*, from `TokInv`: what a worker holds where it
stands (`CallInv`), who holds the mutex (`MutexInv`), that nothing is known the
server has not given (`GivenInv`), that an answer on its way to the file has been
seen nowhere else (`UnseenInv`), that the file never goes back (`RenewedInv`), and
what rotation does to the two tokens (`RotationInv`).

- `TokTypeCorrect` : `TokTypeOK`.
- `LoginIsNotLost` : `LoginNotLost`.
- `RefreshesCollapse` : `RefreshCollapses`.

*ServicesProofs, the terminal*

- `FlushHasShownAll` : `FlushShowsAll`. As long as the loop runs, what was taken in
  and not shown is in one of the channels or in the hands of a goroutine
  (`LoopRuns`), and once the mark is sent everything the turn waits for is ahead
  of it (`MarkBehind`).
- `ModalIsAskers` : `ModalHasAsker`, from `PromptInv`: an answer lies only in the
  channel of a question that is out, and the bridge closes after the terminal.
- `ServicesTypes` : `ServicesTypeOK`, of all three.

*ConversationProofs, the conversation.* Every step is one of nine things that
can happen to history and session (`StepTalks`: nothing, something is said, a
reply is recorded, the model asks for tools, a prompt is prepared, a turn begins,
a compression, a wipe, a restart); the invariants are kept by each of the nine.
The first of them is `Orderly`: the types, for which the runs of a prompt are
counted (`RunsUsed`: a retry is not retried again); messages are numbered in the
order they were said (`Numbered`), so that what is said is new; and until it is
compressed the running turn starts where `turnStart` says (`TurnStarts`).

- `ConversationTypeCorrect` : `TypeOK`.
- `SessionFollows` : `SessionFollowsHistory`. `SessionIs` says what the session is
  when the property is silent: between the saving of a prompt and its coming to
  the history it is a selection of the history and that prompt.
- `OrphansStayAtFront` : `OrphansOnlyAtFront`. `TiedInv`: in both sequences a reply
  or comment comes right behind its call or another reply or comment of the same
  response, or behind the summary, and the summary stands only in front. The
  property, which speaks of everything before a reply, follows by looking for the
  last message that is not of its response (`TiedShows`).
- `CallsAreAnswered` : `CallsAnswered`. `AnswersInv` says it during a delivery: the
  batch that is delivered has replies for the calls before `batch.next` and
  nothing else behind it, the others have all of theirs. A compression that cuts
  a batch takes its calls away first (`AnsweredCompressed`).
- `TurnIsKept` : `CurrentTurnKept`. The split for a compression in the turn ends at
  `turnStart` or before it, and before it there is no message of the turn
  (`TurnAfterSplit`).

*ConversationProofs, the cache*, from `CacheInv`: an entry, kept or in the hands of
a goroutine, was taken from the file as it was and is not newer than the clock,
so that a file that changes afterwards is newer than every entry (`Fits`); and an
answer tells the truth of the files it lists (`Tells`).

- `ReadsAreCurrent` : `CachedReadCurrent`.
- `AnswersKnowEdits` : `AnswerKnowsOwnEdits`.
- `CacheTypeCorrect` : `TcTypeOK`, from `CacheBounded`, in which the types of what
  is kept and of what goroutines hold depend on each other.
  `ConversationTypes` : `ConversationTypeOK`.

*HistoryProofs, the split*, from `CasesInv`: every batch but the last has all of its
replies right behind it and no more.

- `SplitsAreUsable` : `SplitIsUsable`.
- `CutsOnlyBetweenBatches` : `CutOnlyBetweenBatches`.

*HistoryProofs, the storage*, from `StorageInv`: the types with
`persisted <= Len(entries)` (`StorageTypes`); no count is larger than what was made
(`Counted`); while a save runs, what it is to store is what the session holds,
and after one that returned no error the metadata describes it (`SaveFollows`);
and a file no write has damaged holds one of the versions a load may return,
which an append continues at the entry it has come to unless a rewrite is
required (`FileWhole`).

- `SavedSessionsLoad` : `SavedSessionLoads`.
- `LoadsAreNoMixture` : `NeverAMixture`.

*ResponseChainProofs*, in three layers, each on top of the ones before.

- `RcTypeCorrect` : `RcTypeOK`, from `RcTypes`: response IDs are places in what the
  provider has, message numbers have been given out, and where the turn and the
  plan can stand at each stage (`TurnPlace`, `PlanPlace`).
- `InvestigationIsTakenBack` : `InvestigationTakenBack`, from `Investigation`: the
  checkpoint lies within history and session, nothing before it belongs to the
  investigation (`CheckpointOK`), and after it was given back nothing does
  (`GivenBack`).
- `ChainAgrees` : `ChainIsHistory`, from `Chain`: wherever an ID is kept, by the
  agent, its session, a session on the shelf or the checkpoint, what the provider
  has under it is what stands beside it, but for messages that are excepted and,
  during a turn, those of the turn (`AgentAgrees`, `ShelfAgrees`,
  `CheckpointAgrees`); and a request that was sent names the ID the agent has
  and brings what is missing (`RequestAgrees`).
- `HistoryTypes` : `HistoryTypeOK`, of the split, the storage and the chain.

*Only model-checked.* Liveness, since fairness and ENABLED are beyond the prover:
`TimedWaitReturns`, `UntimedWaitReturns`, `BatchCompletes`, `CallersReturn`,
`TurnEnds`, `GetReturns`, `TerminalReleases`. And the runs that expect a
violation.

## Findings

1. *A wait can be lost* (`internal/tools/subagent/manager.go:79`). A spawn
   publishes its entry, and when no provider resolves it only removes it from
   the map. A wait of the same batch that found the entry in between, without a
   timeout (the default), waits for ever. `UntimedWaitReturns` shows that this is
   the only way.
2. *A batch of several calls can be cut*
   (`internal/agent/compress_history_split.go:65`). One message too many is
   moved when the split stands on a call message; behind a batch of two the last
   reply is kept and its call summarised. `CutOnlyBetweenBatches` shows that this
   is the only damage, and `OrphansOnlyAtFront` that it stays at the front of a
   conversation.
3. *Some results are not stored* (`internal/agent/agent_tool_history.go:308`,
   also line 266). A result with a user's comment, and a str_replace error at its
   limit, reach the history but not the session: the conversation that is
   restored has a call without a reply.
4. *A torn append breaks the session* (`internal/history/storage.go:96`). After a
   write that failed part-way the next save appends to the half line and returns
   without an error, and no later load accepts the file.
5. *Diagnostics are those of the first text*
   (`internal/lsp/server_lifecycle.go:13`). A document that counts as open is not
   sent again and no change of it is ever sent, so that the diagnostics after an
   edit are the cached ones of the text before it.
6. *Part of an investigation is carried over*
   (`internal/agent/plan_request.go:250`). After a token-limit error the history
   of an investigation is compressed, and the checkpoint then cuts it to a length
   from before the compression: what remains of the first investigation stays in
   front of the implementation. `InvestigationTakenBack` shows that this is the
   only way.

Seen while modelling, and not contradicted by anything the repository says:

- *Waiting.* The retry after a token-limit error runs on a context that neither
  the user's cancel nor the deadline of the request reaches
  (`chat_request.go:152`); with no tool-loop limit, the default, only the model
  ends it, whatever `tool_loop.go:19` tells the user to press. A running
  `wait_agent` ignores its context (`register.go:168`), so a cancel does not end
  it and a lost wait holds up its whole batch.
- *Conversation.* `tokenLimitRetryCount` is reset by a successful retry only
  (`token_limit_retry.go:24`). The comment of one call of a batch stands between
  the replies of the batch. Calls without an ID get the same made-up IDs in
  every response. An answer whose final checks are cancelled is recorded
  nowhere. A repaired call is rewritten without the flag that would make a later
  save rewrite it when that failed. A stop between the JSONL file and the
  metadata leaves a session that is refused, not one that is wrong.
  `resetConversationState` is called by tests only.
- *Response IDs.* The messages of a turn that failed or was cancelled stay in the
  history, but the next request that continues an ID sends only its newest one.
  After a restart an older ID may be the saved one, and saving the
  configuration may attach it again. After a token-limit retry in plan mode the
  old ID may continue over a compressed history.
- *Tool cache.* Answers of searches are dropped when a tool changes a file they
  list, but not when it makes a new match in a file they do not list:
  `ClearSearchCache` (`cache_interface.go:42`), said there to be called by the
  tools that change files, has no caller. Neither are they dropped when others
  change files; sub-agents have caches of their own. `SetFile` takes the time
  after the content. A listing deeper than one level compares the time of its
  top directory only. Empty answers for several patterns list no file and stay.
- *Language server.* A request of the server is taken for the answer to a call of
  the same number. A second goroutine may query before the first has sent the
  document. A server whose process ended is still returned; one whose
  initialization failed leaves its process. `done` is closed before the shutdown
  is called, so that its answer is not waited for. The timeouts of the requests
  (`server_process.go:97`, `server_lifecycle.go:58`) limit the wait for the answer
  and not the write: a server that is silent, does not read and does not end
  holds up who writes, with the server's mutex, and then the reader, `IsRunning`
  with the client's mutex, and `Close` before it kills the process.
- *Token store.* Between processes a logout is undone by a refresh that was under
  way.
- *Elsewhere.* A full channel of results drops silently
  (`agent_tool_tui_events.go:27`). A stream's scanner goroutine may be left behind
  (`api/stream_controller.go:180`). A call of an MCP tool that failed is sent
  again, side effects included (`mcp/tool_call_retry.go`).

## What the models leave out

- A second process on the same session or working directory.
- Power loss: a write that returned is on disk; a stop is the end of the process.
- Encryption and the list of sessions; entries above the size limit.
- The skip function of the executor (every caller passes none), the diagnostics
  of language servers appended to results, reads of several paths.
- The one-shot entry and images. The conversation model assumes the batch
  executor delivers one result per call in order, which `BatchCompletes` and
  `RepliesTellWhatRan` show. The ids of calls: replies are paired with calls by
  position.
- In the response chain: an active context alone, reviews, a summary that fails,
  switching `persist_response_id` during a session, `responses.store` switched
  off, the retry counter across turns, and changes of the prompt of plan mode,
  which is one prompt here. What is in a plan and how it is shown.
- In the tool cache: entries for failed calls, which feed a counter only,
  listings deeper than one level, the symbol stage with its side tables (which
  are global to the process while caches are per agent), the limit on the size
  of a file, and files whose time is set back.
- In the token store: the fields of a record and the check of the file's
  permissions.
- In the bridge: the status line, the layout, and the progress of a review, which
  takes the channel a result takes.
- In the language server: a second language, which shares the client's mutex
  only, and `CloseDocument` and `ClearDiagnostics`, which have no caller.

## What is left

- `SessionStorage` and `ResponseChain` with a second process on one session.
- `Conversation` and `ResponseChain` as one model: today each has its own view of
  a turn, the first with every way a result is recorded, the second with every
  way an ID is kept.
- Proofs of the safety half of the liveness properties: that in every state in
  which somebody waits a step that ends the wait is possible or under way.
