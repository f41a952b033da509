------------------------------ MODULE TuiBridge ------------------------------
(***************************************************************************)
(* What runs between the agent and the terminal (internal/tuiagent): the   *)
(* results of tools go through one channel and a goroutine into a second   *)
(* one, where the text of the turn and of commands goes too; a goroutine   *)
(* hands its messages one by one to the event loop of the terminal, which  *)
(* may be busy with a command or have ended; the end of a turn waits until *)
(* what it has sent is shown.                                              *)
(*                                                                         *)
(* The event loop is the library's: a message is handed over when the loop *)
(* is free, and dropped once it has ended.  Questions to the user, which   *)
(* do not go through the channels, are in TuiPrompt.                       *)
(***************************************************************************)
EXTENDS Integers, Sequences

CONSTANTS
  ResultCap,   \* capacity of the channel of results: 4096
  OutCap,      \* capacity of outgoing: 4096
  MaxItems     \* bound: messages made

ASSUME BridgeAssumption ==
  /\ ResultCap \in Nat \ {0} /\ OutCap \in Nat \ {0} /\ MaxItems \in Nat

VARIABLES
  brMade,      \* messages made, numbered in order
  brResults,   \* toolResultCh
  brOut,       \* outgoing
  brForward,   \* where forwardToolResults stands, and the result it holds
  brSending,   \* the message forwardOutgoingMessages holds, 0: none
  brLoop,      \* external: the event loop
  brTurn,      \* where the turn stands
  brShut,      \* how far shutdown has come
  brUnshown,   \* ghost: messages taken in and not shown
  brDue        \* ghost: those of them that a turn waits for

brChannels == <<brMade, brResults, brOut, brUnshown>>
brVars == <<brChannels, brForward, brSending, brLoop, brTurn, brShut, brDue>>

FlushMark == -1
Forward(at, n) == [at |-> at, n |-> n]

BrInit ==
  /\ brMade = 0
  /\ brResults = <<>> /\ brOut = <<>>
  /\ brForward = Forward("select", 0)
  /\ brSending = 0
  /\ brLoop = "free"
  /\ brTurn = "idle"
  /\ brShut = "up"
  /\ brUnshown = {} /\ brDue = {}

closed == brShut # "up"
HasRoom == Len(brOut) < OutCap

(* A message is numbered and, where there is room for it, taken in. *)
MakeItem == brMade < MaxItems /\ brMade' = brMade + 1
TakeIn(n) == brUnshown' = brUnshown \cup {n}

-----------------------------------------------------------------------------
(* The turn *)

Chat ==
  /\ brTurn \in {"idle", "returned"}
  /\ brTurn' = "running"
  /\ brDue' = {}
  /\ UNCHANGED <<brChannels, brForward, brSending, brLoop, brShut>>

(* emitTUIToolInfo: dropped when the channel is full or marked closed. *)
emitTUIToolInfo ==
  /\ brTurn = "running"
  /\ MakeItem
  /\ IF brShut # "streamClosed" /\ Len(brResults) < ResultCap
     THEN brResults' = Append(brResults, brMade') /\ TakeIn(brMade')
     ELSE UNCHANGED <<brResults, brUnshown>>
  /\ UNCHANGED <<brOut, brForward, brSending, brLoop, brTurn, brShut, brDue>>

(* enqueueCapturedMessage: dropped when outgoing is full, never waiting. *)
enqueueCapturedMessage ==
  /\ IF ~closed /\ HasRoom
     THEN brOut' = Append(brOut, brMade') /\ TakeIn(brMade')
     ELSE UNCHANGED <<brOut, brUnshown>>
  /\ UNCHANGED brResults

TurnPrints ==
  /\ brTurn = "running"
  /\ MakeItem
  /\ enqueueCapturedMessage
  /\ UNCHANGED <<brForward, brSending, brLoop, brTurn, brShut, brDue>>

(* finishTUITurnOutput, flushPendingTUIEvents *)
Flush ==
  /\ brTurn = "running"
  /\ brTurn' = IF closed THEN "returned" ELSE "offer"
  /\ brDue' = brUnshown
  /\ UNCHANGED <<brChannels, brForward, brSending, brLoop, brShut>>

(* Slip: only the second wait looks for the end of the other goroutine. *)
FlushOffered ==
  /\ brTurn = "wait"
  /\ brForward.at = "ended"
  /\ brTurn' = "returned"
  /\ UNCHANGED <<brChannels, brForward, brSending, brLoop, brShut, brDue>>

(* toolForwardDone: the goroutine that would serve the flush has ended. *)
FlushGivenUp ==
  /\ brTurn \in {"offer", "wait"}
  /\ brForward.at = "ended"
  /\ brTurn' = "returned"
  /\ UNCHANGED <<brChannels, brForward, brSending, brLoop, brShut, brDue>>

-----------------------------------------------------------------------------
(* forwardToolResults *)

Forwards(place, n) ==
  /\ brForward' = Forward(place, n)
  /\ UNCHANGED <<brMade, brUnshown, brSending, brLoop, brShut, brDue>>

TakeResult ==
  /\ brForward.at = "select"
  /\ brResults # <<>>
  /\ brResults' = Tail(brResults)
  /\ Forwards(IF closed THEN "ended" ELSE "put", Head(brResults))
  /\ UNCHANGED <<brOut, brTurn>>

AfterResult == IF brForward.at = "put" THEN "select" ELSE "drain"

(* enqueueToolResult waits for room. *)
PutResult ==
  /\ brForward.at \in {"put", "drainPut"}
  /\ HasRoom
  /\ brOut' = Append(brOut, brForward.n)
  /\ Forwards(AfterResult, 0)
  /\ UNCHANGED <<brResults, brTurn>>

(* It looks again whether the bridge has closed before it waits; which of  *)
(* the two came first is left open.                                        *)
DropResult ==
  /\ brForward.at \in {"put", "drainPut"}
  /\ closed
  /\ Forwards(AfterResult, 0)
  /\ UNCHANGED <<brResults, brOut, brTurn>>

ServeFlush ==
  /\ brForward.at = "select"
  /\ brTurn = "offer"
  /\ brTurn' = "wait"
  /\ Forwards("drain", 0)
  /\ UNCHANGED <<brResults, brOut>>

(* drainToolResults *)
DrainResult ==
  /\ brForward.at = "drain"
  /\ brResults # <<>>
  /\ brResults' = Tail(brResults)
  /\ Forwards(IF closed THEN "done" ELSE "drainPut", Head(brResults))
  /\ UNCHANGED <<brOut, brTurn>>

(* Slip: the mark goes before the results. *)
MarkFirst ==
  /\ brForward.at = "drain"
  /\ Forwards(IF closed THEN "done" ELSE "mark", 0)
  /\ UNCHANGED <<brResults, brOut, brTurn>>

(* flushOutgoingMessages does nothing once the bridge has closed. *)
Drained ==
  /\ brForward.at = "drain"
  /\ brResults = <<>>
  /\ Forwards(IF closed THEN "done" ELSE "mark", 0)
  /\ UNCHANGED <<brResults, brOut, brTurn>>

(* It puts a mark behind all that was sent. *)
PutMark ==
  /\ brForward.at = "mark"
  /\ HasRoom
  /\ brOut' = Append(brOut, FlushMark)
  /\ Forwards("marked", 0)
  /\ UNCHANGED <<brResults, brTurn>>

FlushDone ==
  /\ brForward.at = "done"
  /\ brTurn' = "returned"
  /\ Forwards("select", 0)
  /\ UNCHANGED <<brResults, brOut>>

-----------------------------------------------------------------------------
(* forwardOutgoingMessages *)

(* Slip: the mark is sent on like a message. *)
MarkSent ==
  /\ brSending = 0
  /\ brOut # <<>>
  /\ brOut' = Tail(brOut)
  /\ brSending' = Head(brOut)
  /\ UNCHANGED <<brMade, brResults, brUnshown, brForward, brLoop, brTurn, brShut, brDue>>

TakeMessage ==
  /\ brSending = 0
  /\ brOut # <<>>
  /\ brOut' = Tail(brOut)
  /\ IF Head(brOut) = FlushMark
     THEN brForward' = Forward("done", 0) /\ UNCHANGED brSending
     ELSE brSending' = Head(brOut) /\ UNCHANGED brForward
  /\ UNCHANGED <<brMade, brResults, brUnshown, brLoop, brTurn, brShut, brDue>>

(* Program.Send: the loop takes it, or it has ended. *)
SendMessage ==
  /\ brSending # 0
  /\ brLoop \in {"free", "ended"}
  /\ brSending' = 0
  /\ brUnshown' = brUnshown \ {brSending}
  /\ brDue' = brDue \ {brSending}
  /\ UNCHANGED <<brMade, brResults, brOut, brForward, brLoop, brTurn, brShut>>

-----------------------------------------------------------------------------
(* The event loop: a command runs inside it and prints. *)
Command ==
  /\ brLoop = "free"
  /\ MakeItem
  /\ brLoop' = "command"
  /\ UNCHANGED <<brResults, brOut, brUnshown, brForward, brSending, brTurn, brShut, brDue>>

(* Slip: the text waits for room like a result. *)
CommandWaits ==
  /\ brLoop = "command"
  /\ HasRoom
  /\ brLoop' = "free"
  /\ brOut' = Append(brOut, brMade) /\ TakeIn(brMade)
  /\ UNCHANGED <<brMade, brResults, brForward, brSending, brTurn, brShut, brDue>>

CommandPrints ==
  /\ brLoop = "command"
  /\ brLoop' = "free"
  /\ UNCHANGED brMade
  /\ enqueueCapturedMessage
  /\ UNCHANGED <<brForward, brSending, brTurn, brShut, brDue>>

Quit ==
  /\ brLoop = "free"
  /\ brLoop' = "ended"
  /\ UNCHANGED <<brChannels, brForward, brSending, brTurn, brShut, brDue>>

(* shutdown runs once the loop has ended, whatever else still runs. *)
shutdown ==
  /\ brLoop = "ended"
  /\ \/ brShut = "up" /\ brShut' = "closed"
     \/ brShut = "closed" /\ brShut' = "streamClosed"
  /\ UNCHANGED <<brChannels, brForward, brSending, brLoop, brTurn, brDue>>

-----------------------------------------------------------------------------
forwardToolResults == TakeResult \/ PutResult \/ ServeFlush \/ DrainResult \/ Drained \/ PutMark \/ FlushDone
forwardOutgoingMessages == TakeMessage \/ SendMessage

BrNext ==
  \/ Chat \/ emitTUIToolInfo \/ TurnPrints \/ Flush \/ FlushGivenUp
  \/ forwardToolResults \/ DropResult \/ forwardOutgoingMessages
  \/ Command \/ CommandPrints \/ Quit \/ shutdown

BrSpec == BrInit /\ [][BrNext]_brVars

(* Goroutines run on, and the loop takes a message some time when it is    *)
(* free again and again, which strong fairness says.                       *)
BrFairness ==
  /\ WF_brVars(FlushGivenUp)
  /\ WF_brVars(forwardToolResults)
  /\ SF_brVars(forwardOutgoingMessages)
  /\ WF_brVars(CommandPrints)

-----------------------------------------------------------------------------
Items == 1 .. MaxItems
Holding == {"put", "drainPut"}

BrTypeOK ==
  /\ brMade \in 0 .. MaxItems
  /\ brResults \in Seq(Items) /\ Len(brResults) <= ResultCap
  /\ brOut \in Seq(Items \cup {FlushMark}) /\ Len(brOut) <= OutCap
  /\ brForward.at \in Holding \cup {"select", "drain", "mark", "marked", "done", "ended"}
  /\ brForward.n \in 0 .. MaxItems /\ (brForward.at \in Holding => brForward.n # 0)
  /\ brSending \in 0 .. MaxItems
  /\ brLoop \in {"free", "command", "ended"}
  /\ brTurn \in {"idle", "running", "offer", "wait", "returned"}
  /\ brShut \in {"up", "closed", "streamClosed"}
  /\ brUnshown \subseteq Items /\ brDue \subseteq Items

(* A turn is over when the terminal has been given every result and every  *)
(* text that was taken in before it ended, in whichever channel it was and *)
(* however busy the loop; unless the terminal itself has ended.            *)
FlushShowsAll == brTurn = "returned" /\ brLoop # "ended" => brDue = {}

(* The end of a turn is not held up: neither by full channels, nor by a    *)
(* command, nor by a shutdown that comes between any two steps of it.      *)
FlushReturns == brTurn \in {"offer", "wait"} ~> brTurn = "returned"

(* A command never waits for the loop it runs in, however much is queued.  *)
LoopComesBack == brLoop = "command" ~> brLoop # "command"
=============================================================================
