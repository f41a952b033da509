--------------------------- MODULE LanguageServer ---------------------------
(***************************************************************************)
(* The connection to a language server (internal/lsp): goroutines of the   *)
(* agent share one server process and one document, the server is started  *)
(* by the first that needs it, a reader hands out what the server sends,   *)
(* and the end of the agent closes it.                                     *)
(*                                                                         *)
(* The server process is outside the code and nothing is assumed of it: it *)
(* answers a request or does not, answers twice, makes requests of its own *)
(* that are numbered like those of the client, publishes diagnostics of    *)
(* the text it was given, reads its input or lets the pipe to it fill, and *)
(* ends at any moment.  What it sends is chosen when the reader reads it,  *)
(* so its output needs no variable.                                        *)
(***************************************************************************)
EXTENDS Integers

CONSTANTS
  LspWorkers,    \* goroutines that ask the server
  LspCloser,     \* the goroutine that ends the agent
  NoWorker,
  MaxIds,        \* bound: requests to a server
  MaxEdits,      \* bound: changes of the document on disk
  MaxStarts      \* bound: processes started

ASSUME LspAssumption ==
  /\ LspCloser \notin LspWorkers
  /\ NoWorker \notin LspWorkers \cup {LspCloser}
  /\ MaxIds \in Nat \ {0} /\ {MaxEdits, MaxStarts} \subseteq Nat

VARIABLES
  lspPc,       \* where a goroutine stands
  lspMu,       \* holder of the mutex of the client, kept while it starts or closes
  lspWriter,   \* who waits in a write to the pipe, with the mutex of the server
  lspKnown,    \* the client's map has the server
  lspServer,   \* the Server: initialized, stdin open, done closed, document open
  lspReader,   \* readResponses runs
  lspPending,  \* requests whose channel is registered
  lspFull,     \* requests whose channel holds an answer
  lspId,       \* the request a goroutine waits for, 0: none
  lspNext,     \* the last request ID given
  lspProcess,  \* external: it runs, the version it was given, 0: none, room in its pipe
  lspDisk,     \* the version of the document on disk
  lspText,     \* the version a goroutine has read
  lspCached,   \* the version the cached diagnostics are of, 0: none
  lspStarts    \* processes started

lspLocks == <<lspMu, lspWriter>>
lspCalls == <<lspPending, lspFull, lspId, lspNext>>
lspWorld == <<lspProcess, lspStarts>>
lspDoc == <<lspDisk, lspText, lspCached>>
lspVars == <<lspPc, lspLocks, lspKnown, lspServer, lspReader, lspCalls, lspWorld, lspDoc>>

Callers == LspWorkers \cup {LspCloser}
Versions == 0 .. MaxEdits + 1

NewServer == [initialized |-> FALSE, stdin |-> FALSE, done |-> FALSE, open |-> FALSE]
NewProcess(up) == [up |-> up, seen |-> 0, room |-> TRUE]

LspInit ==
  /\ lspPc = [c \in Callers |-> "idle"]
  /\ lspMu = NoWorker /\ lspWriter = NoWorker
  /\ lspKnown = FALSE
  /\ lspServer = NewServer
  /\ lspReader = FALSE
  /\ lspPending = {} /\ lspFull = {}
  /\ lspId = [c \in Callers |-> 0]
  /\ lspNext = 0
  /\ lspProcess = NewProcess(FALSE)
  /\ lspDisk = 1 /\ lspCached = 0
  /\ lspText = [c \in Callers |-> 0]
  /\ lspStarts = 0

-----------------------------------------------------------------------------
(* Requests: Call registers a channel, sends, and waits for the answer or  *)
(* the end of its context, which every caller limits in time.              *)

Goes(c, place) == lspPc' = [lspPc EXCEPT ![c] = place]

(* The mutex of the server is taken and released within a step, unless a   *)
(* write waits: send writes with it held.                                  *)
TakesServer(c) == lspWriter \in {NoWorker, c} /\ lspWriter' = NoWorker

(* A write reaches a process that runs; stdin is nil after a cleanup.      *)
CanSend == lspServer.stdin /\ lspProcess.up
Sent(c) == CanSend /\ lspProcess.room /\ TakesServer(c)
SendFails(c) == ~CanSend /\ TakesServer(c)

Writing == {"initialize", "initialized", "didOpen", "query", "shutdown", "exit"}

(* The pipe is full, as a process that does not read may let it become.    *)
(* The write has no limit in time: it waits until the process has read or  *)
(* ended, whatever the context of the caller says.                         *)
WriteWaits(c) ==
  /\ lspPc[c] \in Writing
  /\ lspWriter = NoWorker
  /\ CanSend
  /\ lspWriter' = c
  /\ lspProcess' = [lspProcess EXCEPT !.room = FALSE]
  /\ UNCHANGED <<lspPc, lspMu, lspKnown, lspServer, lspReader, lspCalls, lspStarts, lspDoc>>

register(c) ==
  /\ TakesServer(c)
  /\ lspNext < MaxIds
  /\ lspNext' = lspNext + 1
  /\ lspPending' = lspPending \cup {lspNext + 1}
  /\ lspId' = [lspId EXCEPT ![c] = lspNext + 1]
  /\ UNCHANGED lspFull

(* The deferred delete; the channel is garbage. *)
unregister(c) ==
  /\ TakesServer(c)
  /\ lspPending' = lspPending \ {lspId[c]}
  /\ lspFull' = lspFull \ {lspId[c]}
  /\ lspId' = [lspId EXCEPT ![c] = 0]
  /\ UNCHANGED lspNext

cleanupLocked == lspServer' = [lspServer EXCEPT !.stdin = FALSE, !.initialized = FALSE, !.open = FALSE]

(* The goroutine is done with the text it has read. *)
Leaves(c) == Goes(c, "idle") /\ lspText' = [lspText EXCEPT ![c] = 0]

-----------------------------------------------------------------------------
(* GetServer, under the mutex of the client.                               *)

Ask(c) ==
  /\ lspPc[c] = "idle"
  /\ Goes(c, "lock")
  /\ UNCHANGED <<lspLocks, lspKnown, lspServer, lspReader, lspCalls, lspWorld, lspDoc>>

CanLock(c) == lspPc[c] = "lock" /\ lspMu = NoWorker

(* The mutex of the client is held while the server is asked whether it    *)
(* runs, which needs that of the server.                                   *)
GetServer(c) ==
  /\ CanLock(c)
  /\ lspKnown
  /\ lspMu' = c
  /\ Goes(c, "check")
  /\ UNCHANGED <<lspWriter, lspKnown, lspServer, lspReader, lspCalls, lspWorld, lspDoc>>

(* A server of the map is returned as long as it counts as running: from   *)
(* its initialization to its Close, which takes it out of the map before   *)
(* the mutex is free.  The branch for a server that has died is not taken  *)
(* (ServerUsable).                                                         *)
GetKnown(c) ==
  /\ lspPc[c] = "check"
  /\ TakesServer(c)
  /\ lspServer.initialized
  /\ lspMu' = NoWorker
  /\ Goes(c, "read")
  /\ UNCHANGED <<lspKnown, lspServer, lspReader, lspCalls, lspWorld, lspDoc>>

(* No server is configured or installed, or its process does not start. *)
GetFails(c) ==
  /\ CanLock(c)
  /\ ~lspKnown
  /\ Goes(c, "idle")
  /\ UNCHANGED <<lspLocks, lspKnown, lspServer, lspReader, lspCalls, lspWorld, lspDoc>>

(* Start: a new Server, whose requests count from 1, a new process with    *)
(* pipes of its own, a new reader; what one that failed to start has left  *)
(* is nobody's any more.  Bound: no start once the agent ends.             *)
Start(c) ==
  /\ CanLock(c)
  /\ ~lspKnown
  /\ lspPc[LspCloser] = "idle"
  /\ lspStarts < MaxStarts
  /\ lspStarts' = lspStarts + 1
  /\ lspMu' = c /\ lspWriter' = NoWorker
  /\ lspServer' = [NewServer EXCEPT !.stdin = TRUE]
  /\ lspProcess' = NewProcess(TRUE)
  /\ lspReader' = TRUE
  /\ lspCached' = 0
  /\ lspNext' = 1 /\ lspPending' = {1} /\ lspFull' = {}
  /\ lspId' = [lspId EXCEPT ![c] = 1]
  /\ Goes(c, "initialize")
  /\ UNCHANGED <<lspKnown, lspDisk, lspText>>

InitializeSent(c) ==
  /\ lspPc[c] = "initialize"
  /\ Sent(c)
  /\ Goes(c, "initializing")
  /\ UNCHANGED <<lspMu, lspKnown, lspServer, lspReader, lspCalls, lspWorld, lspDoc>>

(* Whatever answer came, if it is no error. *)
InitializeAnswered(c) ==
  /\ lspPc[c] = "initializing"
  /\ lspId[c] \in lspFull
  /\ unregister(c)
  /\ Goes(c, "initialized")
  /\ UNCHANGED <<lspMu, lspKnown, lspServer, lspReader, lspWorld, lspDoc>>

(* The notification, sent or not; now the server is in the map. *)
Initialized(c) ==
  /\ lspPc[c] = "initialized"
  /\ Sent(c) \/ SendFails(c)
  /\ lspServer' = [lspServer EXCEPT !.initialized = TRUE]
  /\ lspKnown' = TRUE
  /\ lspMu' = NoWorker
  /\ Goes(c, "read")
  /\ UNCHANGED <<lspReader, lspCalls, lspWorld, lspDoc>>

StartGivenUp(c) ==
  /\ \/ lspPc[c] = "initialize" /\ SendFails(c)
     \/ lspPc[c] = "initializing"
  /\ unregister(c)
  /\ cleanupLocked
  /\ Goes(c, "idle")
  /\ UNCHANGED <<lspReader, lspWorld, lspDoc>>

(* Slip: the server stays in the map. *)
StartFailsKnown(c) == StartGivenUp(c) /\ lspKnown' = TRUE /\ lspMu' = NoWorker

(* Slip: the error returns without the unlock. *)
StartFailsLocked(c) == StartGivenUp(c) /\ UNCHANGED <<lspKnown, lspMu>>

(* The process has ended, answered with an error or not within 30 seconds. *)
StartFails(c) == StartGivenUp(c) /\ lspMu' = NoWorker /\ UNCHANGED lspKnown

-----------------------------------------------------------------------------
(* ensureDocumentOpen: the file is read, or cannot be. *)
ReadDocument(c) ==
  /\ lspPc[c] = "read"
  /\ \/ Goes(c, "open") /\ lspText' = [lspText EXCEPT ![c] = lspDisk]
     \/ Leaves(c)
  /\ UNCHANGED <<lspLocks, lspKnown, lspServer, lspReader, lspCalls, lspWorld, lspDisk, lspCached>>

(* Slip: the document counts as open only once it has been sent. *)
OpenUnmarked(c) ==
  /\ lspPc[c] = "open"
  /\ TakesServer(c)
  /\ Goes(c, IF lspServer.open THEN "ready" ELSE "didOpen")
  /\ UNCHANGED <<lspMu, lspKnown, lspServer, lspReader, lspCalls, lspWorld, lspDoc>>

(* It counts as open before it is sent; one that is open is not sent       *)
(* again, whatever is in the file by now.                                  *)
OpenDocument(c) ==
  /\ lspPc[c] = "open"
  /\ TakesServer(c)
  /\ lspServer' = [lspServer EXCEPT !.open = TRUE]
  /\ Goes(c, IF lspServer.open THEN "ready" ELSE "didOpen")
  /\ UNCHANGED <<lspMu, lspKnown, lspReader, lspCalls, lspWorld, lspDoc>>

OpenSent(c) ==
  /\ lspPc[c] = "didOpen"
  /\ Sent(c)
  /\ lspProcess' = [lspProcess EXCEPT !.seen = lspText[c]]
  /\ Goes(c, "ready")
  /\ UNCHANGED <<lspMu, lspKnown, lspServer, lspReader, lspCalls, lspStarts, lspDoc>>

OpenFails(c) ==
  /\ lspPc[c] = "didOpen"
  /\ SendFails(c)
  /\ lspServer' = [lspServer EXCEPT !.open = FALSE]
  /\ Leaves(c)
  /\ UNCHANGED <<lspMu, lspKnown, lspReader, lspCalls, lspWorld, lspDisk, lspCached>>

(* WaitForDocumentReady ends with diagnostics or without; GetDiagnostics   *)
(* returns those in the cache then.                                        *)
GetDiagnostics(c) ==
  /\ lspPc[c] = "ready"
  /\ Leaves(c)
  /\ UNCHANGED <<lspLocks, lspKnown, lspServer, lspReader, lspCalls, lspWorld, lspDisk, lspCached>>

(* FindReferences and callPositionMethod go on to a request.  Bound: one   *)
(* request is left for the shutdown.                                       *)
Call(c) ==
  /\ lspPc[c] = "ready"
  /\ lspNext + 1 < MaxIds
  /\ register(c)
  /\ Goes(c, "query")
  /\ lspText' = [lspText EXCEPT ![c] = 0]
  /\ UNCHANGED <<lspMu, lspKnown, lspServer, lspReader, lspWorld, lspDisk, lspCached>>

CallSent(c) ==
  /\ lspPc[c] = "query"
  /\ Sent(c)
  /\ Goes(c, "answer")
  /\ UNCHANGED <<lspMu, lspKnown, lspServer, lspReader, lspCalls, lspWorld, lspDoc>>

(* With an answer, with the end of the context, or with an error of send. *)
CallReturns(c) ==
  /\ \/ lspPc[c] = "query" /\ SendFails(c)
     \/ lspPc[c] = "answer"
  /\ unregister(c)
  /\ Goes(c, "idle")
  /\ UNCHANGED <<lspMu, lspKnown, lspServer, lspReader, lspWorld, lspDoc>>

-----------------------------------------------------------------------------
(* Close, under the mutex of the client: the reader is told to stop before *)
(* the server is asked to shut down, so the answer may never be read; what *)
(* has not ended by itself is killed.                                      *)

CloseNothing(c) ==
  /\ CanLock(c)
  /\ ~lspKnown
  /\ Goes(c, "closed")
  /\ UNCHANGED <<lspLocks, lspKnown, lspServer, lspReader, lspCalls, lspWorld, lspDoc>>

Close(c) ==
  /\ CanLock(c)
  /\ lspKnown
  /\ lspMu' = c
  /\ lspServer' = [lspServer EXCEPT !.done = TRUE]
  /\ Goes(c, "stop")
  /\ UNCHANGED <<lspWriter, lspKnown, lspReader, lspCalls, lspWorld, lspDoc>>

ShutdownCalled(c) ==
  /\ lspPc[c] = "stop"
  /\ register(c)
  /\ Goes(c, "shutdown")
  /\ UNCHANGED <<lspMu, lspKnown, lspServer, lspReader, lspWorld, lspDoc>>

ShutdownSent(c) ==
  /\ lspPc[c] = "shutdown"
  /\ Sent(c)
  /\ Goes(c, "closing")
  /\ UNCHANGED <<lspMu, lspKnown, lspServer, lspReader, lspCalls, lspWorld, lspDoc>>

(* Slip: the answer is waited for without a limit. *)
ShutdownAnswered(c) ==
  /\ \/ lspPc[c] = "shutdown" /\ SendFails(c)
     \/ lspPc[c] = "closing" /\ lspId[c] \in lspFull
  /\ unregister(c)
  /\ Goes(c, "exit")
  /\ UNCHANGED <<lspMu, lspKnown, lspServer, lspReader, lspWorld, lspDoc>>

(* An answer, 5 seconds, or an error of send. *)
ShutdownEnds(c) ==
  /\ \/ lspPc[c] = "shutdown" /\ SendFails(c)
     \/ lspPc[c] = "closing"
  /\ unregister(c)
  /\ Goes(c, "exit")
  /\ UNCHANGED <<lspMu, lspKnown, lspServer, lspReader, lspWorld, lspDoc>>

(* The exit notification, sent or not. *)
ExitSent(c) ==
  /\ lspPc[c] = "exit"
  /\ Sent(c) \/ SendFails(c)
  /\ Goes(c, "clean")
  /\ UNCHANGED <<lspMu, lspKnown, lspServer, lspReader, lspCalls, lspWorld, lspDoc>>

(* The process ends when it likes. *)
Cleanup(c) ==
  /\ lspPc[c] = "clean"
  /\ TakesServer(c)
  /\ cleanupLocked
  /\ Goes(c, "wait")
  /\ UNCHANGED <<lspMu, lspKnown, lspReader, lspCalls, lspWorld, lspDoc>>

(* The process has ended, or is killed after 3 seconds. *)
Closed(c) ==
  /\ lspPc[c] = "wait"
  /\ lspProcess' = [lspProcess EXCEPT !.up = FALSE]
  /\ lspKnown' = FALSE
  /\ lspMu' = NoWorker
  /\ Goes(c, "closed")
  /\ UNCHANGED <<lspWriter, lspServer, lspReader, lspCalls, lspStarts, lspDoc>>

-----------------------------------------------------------------------------
(* readResponses *)

Reads ==
  /\ lspReader
  /\ UNCHANGED <<lspPc, lspLocks, lspKnown, lspServer, lspReader, lspId, lspNext, lspWorld, lspDisk, lspText>>

(* Slip: the caller's own delete is thought to be enough. *)
DeliverAndKeep(n) ==
  /\ Reads
  /\ lspWriter = NoWorker
  /\ n \notin lspPending \cap lspFull
  /\ lspFull' = lspFull \cup ({n} \cap lspPending)
  /\ UNCHANGED <<lspPending, lspCached>>

(* Slip: a number without a channel is given one. *)
DeliverUnasked(n) ==
  /\ Reads
  /\ lspWriter = NoWorker
  /\ n \notin lspPending \cap lspFull
  /\ lspFull' = lspFull \cup {n}
  /\ lspPending' = lspPending \ {n}
  /\ UNCHANGED lspCached

(* Every message with an ID counts as the answer to the request of that    *)
(* number, a request of the server too; without a request it is dropped.   *)
(* The channel takes one answer: sending a second would block the reader,  *)
(* and with it everyone who needs the mutex it holds.                      *)
DeliverResponse(n) ==
  /\ Reads
  /\ lspWriter = NoWorker
  /\ n \notin lspPending \cap lspFull
  /\ lspFull' = lspFull \cup ({n} \cap lspPending)
  /\ lspPending' = lspPending \ {n}
  /\ UNCHANGED lspCached

handleNotification ==
  /\ Reads
  /\ lspProcess.seen # 0
  /\ lspCached' = lspProcess.seen
  /\ UNCHANGED <<lspPending, lspFull>>

(* The end of the output, which nothing but the reader notices, or done.   *)
ReaderEnds ==
  /\ lspReader
  /\ lspServer.done \/ ~lspProcess.up
  /\ lspReader' = FALSE
  /\ UNCHANGED <<lspPc, lspLocks, lspKnown, lspServer, lspCalls, lspWorld, lspDoc>>

-----------------------------------------------------------------------------
(* External: the server process and the document. *)

ProcessEnds ==
  /\ lspProcess.up
  /\ lspProcess' = [lspProcess EXCEPT !.up = FALSE]
  /\ UNCHANGED <<lspPc, lspLocks, lspKnown, lspServer, lspReader, lspCalls, lspStarts, lspDoc>>

(* It reads what fills the pipe. *)
ProcessReads ==
  /\ lspProcess.up
  /\ ~lspProcess.room
  /\ lspProcess' = [lspProcess EXCEPT !.room = TRUE]
  /\ UNCHANGED <<lspPc, lspLocks, lspKnown, lspServer, lspReader, lspCalls, lspStarts, lspDoc>>

Edit ==
  /\ lspDisk <= MaxEdits
  /\ lspDisk' = lspDisk + 1
  /\ UNCHANGED <<lspPc, lspLocks, lspKnown, lspServer, lspReader, lspCalls, lspWorld, lspText, lspCached>>

-----------------------------------------------------------------------------
(* What a goroutine does by itself once it has asked. *)
WorkerProceeds(c) ==
  \/ GetServer(c) \/ GetKnown(c) \/ GetFails(c) \/ WriteWaits(c)
  \/ InitializeSent(c) \/ InitializeAnswered(c) \/ Initialized(c) \/ StartFails(c)
  \/ ReadDocument(c) \/ OpenDocument(c) \/ OpenSent(c) \/ OpenFails(c)
  \/ GetDiagnostics(c) \/ CallSent(c) \/ CallReturns(c)

CloserProceeds(c) ==
  \/ CloseNothing(c) \/ Close(c) \/ ShutdownCalled(c) \/ WriteWaits(c)
  \/ ShutdownSent(c) \/ ShutdownEnds(c) \/ ExitSent(c) \/ Cleanup(c) \/ Closed(c)

readResponses ==
  \/ \E n \in 1 .. MaxIds : DeliverResponse(n)
  \/ handleNotification
  \/ ReaderEnds

LspNext ==
  \/ \E c \in LspWorkers : Ask(c) \/ Start(c) \/ Call(c) \/ WorkerProceeds(c)
  \/ Ask(LspCloser) \/ CloserProceeds(LspCloser)
  \/ readResponses \/ ProcessEnds \/ ProcessReads \/ Edit

LspSpec == LspInit /\ [][LspNext]_lspVars

(* Goroutines run, their waits for an answer have time limits, and a mutex *)
(* of Go is handed to a waiter that has waited too long.  A write goes on  *)
(* each time the process reads, and what is sent is no larger than a few   *)
(* reads.  Nothing is assumed of the process or of the reader.             *)
LspFairness ==
  /\ \A c \in LspWorkers : SF_lspVars(WorkerProceeds(c))
  /\ SF_lspVars(CloserProceeds(LspCloser))

-----------------------------------------------------------------------------
Using == {"read", "open", "didOpen", "ready", "query", "answer"}
WorkerPlaces == Using \cup {"idle", "lock", "check", "initialize", "initializing", "initialized"}
CloserPlaces == {"idle", "lock", "stop", "shutdown", "closing", "exit", "clean", "wait", "closed"}

LspTypeOK ==
  /\ lspPc \in [Callers -> WorkerPlaces \cup CloserPlaces]
  /\ {lspMu, lspWriter} \subseteq Callers \cup {NoWorker}
  /\ lspKnown \in BOOLEAN
  /\ lspServer \in [initialized : BOOLEAN, stdin : BOOLEAN, done : BOOLEAN, open : BOOLEAN]
  /\ lspReader \in BOOLEAN
  /\ lspNext \in 0 .. MaxIds
  /\ lspPending \subseteq 1 .. lspNext /\ lspFull \subseteq 1 .. lspNext
  /\ lspId \in [Callers -> 0 .. lspNext]
  /\ lspProcess \in [up : BOOLEAN, seen : Versions, room : BOOLEAN]
  /\ lspDisk \in Versions /\ lspCached \in Versions
  /\ lspText \in [Callers -> Versions]
  /\ lspStarts \in 0 .. MaxStarts

(* The server a goroutine works with can be used.  A server of the map has *)
(* answered its initialization, unless the end of the agent is closing it  *)
(* and holds the mutex, and no goroutine works with one that was not       *)
(* initialized, whoever started it.  And the reader, which holds the mutex *)
(* of the server when it hands out an answer, never waits there, whatever  *)
(* the server sends and however often: a channel that is still registered  *)
(* is empty.                                                               *)
ServerUsable ==
  /\ lspKnown => lspServer.initialized \/ lspMu = LspCloser
  /\ \A c \in LspWorkers : lspPc[c] \in Using => lspServer.initialized \/ lspServer.done
  /\ lspPending \cap lspFull = {}

(* A server is told once in its life that the document is open, however    *)
(* many goroutines need it open at the same time, and also when one of     *)
(* them could not tell it.                                                 *)
OpenedOnce == [][\A c \in LspWorkers : OpenSent(c) => lspProcess.seen = 0]_lspVars

(* No write waits for ever for a process that neither reads nor ends: the  *)
(* pipe has room unless a write waits.                                     *)
WritesEnd == []<>(lspProcess.room \/ ~lspProcess.up)

(* Whoever asks comes back, whether the server answers or not, and while   *)
(* others start it or close it under the mutex of the client; and the end  *)
(* of the agent is not held up by the server.  A server that is silent,    *)
(* stops reading what it is sent and does not end is the exception: the    *)
(* write of send has no limit in time, and who waits in it keeps the mutex *)
(* of the server from the reader, from Close and its kill, and, by         *)
(* GetServer, that of the client from everyone else.                       *)
CallersReturn ==
  WritesEnd =>
    /\ \A c \in LspWorkers : (lspPc[c] = "lock") ~> (lspPc[c] = "idle")
    /\ (lspPc[LspCloser] = "lock") ~> (lspPc[LspCloser] = "closed")

(* docs/lsp.md, immediate feedback after a change and a check of the files *)
(* before a commit: diagnostics are of the text the goroutine has read, or *)
(* of a later one.                                                         *)
DiagnosticsCurrent ==
  [][\A c \in LspWorkers :
       (lspPc[c] = "ready" /\ lspPc'[c] = "idle") => lspCached = 0 \/ lspCached >= lspText[c]]_lspVars
=============================================================================
