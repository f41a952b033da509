------------------------------ MODULE TuiPrompt ------------------------------
(***************************************************************************)
(* A question of a tool to the user (internal/tuiagent, tuiPromptBridge):  *)
(* goroutines that ask, one at a time, the event loop of the terminal that *)
(* shows the question as a modal, the user who answers or does not, the    *)
(* request that may be cancelled meanwhile, and the shutdown.              *)
(***************************************************************************)
EXTENDS Integers

CONSTANTS
  Askers,   \* goroutines that ask
  NoAsker

ASSUME PromptAssumption == NoAsker \notin Askers

VARIABLES
  prPc,        \* where a question stands
  prMu,        \* holder of the mutex of the bridge
  prAnswered,  \* questions whose channel holds an answer
  prModal,     \* whose question the terminal shows
  prLoop,      \* external: the event loop is free, in a command, or has ended
  prClosed,    \* shutdown has closed the bridge
  prGiven      \* ghost: whose answer the user has given and is not used yet

prVars == <<prPc, prMu, prAnswered, prModal, prLoop, prClosed, prGiven>>

PrInit ==
  /\ prPc = [a \in Askers |-> "idle"]
  /\ prMu = NoAsker
  /\ prAnswered = {}
  /\ prModal = NoAsker
  /\ prLoop = "free"
  /\ prClosed = FALSE
  /\ prGiven = {}

(* Program.Send: the loop takes a message, or drops it once it has ended. *)
Sent == prLoop \in {"free", "ended"}
Shows == prLoop = "free"

AskAt(a, place) == prPc' = [prPc EXCEPT ![a] = place]

-----------------------------------------------------------------------------
(* Prompt *)
AskUser(a) ==
  /\ prPc[a] = "idle"
  /\ AskAt(a, "lock")
  /\ UNCHANGED <<prMu, prAnswered, prModal, prLoop, prClosed, prGiven>>

(* Slip: the mutex is not kept while the user thinks. *)
PromptUnlocked(a) ==
  /\ prPc[a] = "lock"
  /\ AskAt(a, IF prClosed THEN "idle" ELSE "open")
  /\ UNCHANGED <<prMu, prAnswered, prModal, prLoop, prClosed, prGiven>>

Prompt(a) ==
  /\ prPc[a] = "lock"
  /\ prMu = NoAsker
  /\ AskAt(a, IF prClosed THEN "idle" ELSE "open")
  /\ prMu' = IF prClosed THEN NoAsker ELSE a
  /\ UNCHANGED <<prAnswered, prModal, prLoop, prClosed, prGiven>>

(* handleOpenPromptMsg puts the question on the screen, whatever is there. *)
OpenPrompt(a) ==
  /\ prPc[a] = "open"
  /\ Sent
  /\ prModal' = IF Shows THEN a ELSE prModal
  /\ AskAt(a, "wait")
  /\ UNCHANGED <<prMu, prAnswered, prLoop, prClosed, prGiven>>

Returns(a) ==
  /\ AskAt(a, "idle")
  /\ prMu' = NoAsker
  /\ prAnswered' = prAnswered \ {a}
  /\ prGiven' = prGiven \ {a}
  /\ UNCHANGED <<prLoop, prClosed>>

GetAnswer(a) ==
  /\ prPc[a] = "wait"
  /\ a \in prAnswered
  /\ Returns(a)
  /\ UNCHANGED prModal

(* The request is cancelled, before the answer or just after it. *)
RequestCancelled(a) ==
  /\ prPc[a] = "wait"
  /\ AskAt(a, "cancel")
  /\ UNCHANGED <<prMu, prAnswered, prModal, prLoop, prClosed, prGiven>>

(* Slip: this way out keeps the mutex. *)
CancelLocked(a) ==
  /\ prPc[a] = "cancel"
  /\ Sent
  /\ prModal' = IF Shows /\ prModal = a THEN NoAsker ELSE prModal
  /\ AskAt(a, "idle")
  /\ prAnswered' = prAnswered \ {a} /\ prGiven' = prGiven \ {a}
  /\ UNCHANGED <<prMu, prLoop, prClosed>>

(* Slip: the terminal is not told. *)
CancelUntold(a) ==
  /\ prPc[a] = "cancel"
  /\ Sent
  /\ Returns(a)
  /\ UNCHANGED prModal

(* handleCancelPromptMsg: the modal goes if it is that question's. *)
CancelPrompt(a) ==
  /\ prPc[a] = "cancel"
  /\ Sent
  /\ prModal' = IF Shows /\ prModal = a THEN NoAsker ELSE prModal
  /\ Returns(a)

(* Slip: who has opened its question already is not released. *)
ReleaseUnopened(a) ==
  /\ prPc[a] = "open" /\ prClosed
  /\ Returns(a)
  /\ UNCHANGED prModal

ReleasedByShutdown(a) ==
  /\ prPc[a] = "wait"
  /\ prClosed
  /\ Returns(a)
  /\ UNCHANGED prModal

-----------------------------------------------------------------------------
(* The terminal *)

(* finishPrompt: never waits, the channel has room for one answer. *)
finishPrompt ==
  /\ prLoop = "free"
  /\ prModal # NoAsker
  /\ prAnswered' = prAnswered \cup {prModal}
  /\ prGiven' = prGiven \cup {prModal}
  /\ prModal' = NoAsker
  /\ UNCHANGED <<prPc, prMu, prLoop, prClosed>>

CommandStarts ==
  /\ prLoop = "free"
  /\ prLoop' = "command"
  /\ UNCHANGED <<prPc, prMu, prAnswered, prModal, prClosed, prGiven>>

(* The question of a command is not asked: hasTUIRuntimePrompter. *)
CommandReturns ==
  /\ prLoop = "command"
  /\ prLoop' = "free"
  /\ UNCHANGED <<prPc, prMu, prAnswered, prModal, prClosed, prGiven>>

TerminalEnds ==
  /\ prLoop = "free"
  /\ prLoop' = "ended"
  /\ UNCHANGED <<prPc, prMu, prAnswered, prModal, prClosed, prGiven>>

(* close, by shutdown, once the loop has ended *)
CloseBridge ==
  /\ prLoop = "ended"
  /\ ~prClosed
  /\ prClosed' = TRUE
  /\ UNCHANGED <<prPc, prMu, prAnswered, prModal, prLoop, prGiven>>

-----------------------------------------------------------------------------
(* What a question does by itself. *)
Asking(a) ==
  Prompt(a) \/ OpenPrompt(a) \/ GetAnswer(a) \/ CancelPrompt(a) \/ ReleasedByShutdown(a)

PrNext ==
  \/ \E a \in Askers : AskUser(a) \/ RequestCancelled(a) \/ Asking(a)
  \/ finishPrompt \/ CommandStarts \/ CommandReturns \/ TerminalEnds \/ CloseBridge

PrSpec == PrInit /\ [][PrNext]_prVars

(* Goroutines run on; one that waits for the mutex or to hand over a       *)
(* message gets its turn among the others that do, which strong fairness   *)
(* says; a command comes to its end, and so does the shutdown.  Nothing is *)
(* assumed of the user.                                                    *)
PrFairness ==
  /\ \A a \in Askers : SF_prVars(Asking(a))
  /\ WF_prVars(CommandReturns)
  /\ WF_prVars(CloseBridge)

-----------------------------------------------------------------------------
PrTypeOK ==
  /\ prPc \in [Askers -> {"idle", "lock", "open", "wait", "cancel"}]
  /\ prMu \in Askers \cup {NoAsker} /\ prModal \in Askers \cup {NoAsker}
  /\ \A a \in Askers : prMu = a <=> prPc[a] \in {"open", "wait", "cancel"}
  /\ prAnswered \subseteq Askers /\ prGiven \subseteq Askers
  /\ prLoop \in {"free", "command", "ended"}
  /\ prClosed \in BOOLEAN

(* The terminal shows no question that nobody waits for, and none whose    *)
(* answer has been given, and no question of several takes the place of    *)
(* another: what the user answers is never lost on the way to the          *)
(* goroutine that asked, unless its request is cancelled.                  *)
ModalHasAsker ==
  /\ prModal # NoAsker /\ prLoop # "ended" =>
       prPc[prModal] \in {"wait", "cancel"} /\ prModal \notin prAnswered
  /\ \A a \in Askers : prPc[a] = "wait" /\ prLoop # "ended" => prModal = a \/ a \in prAnswered

(* A question that the user has answered comes back, and so does every     *)
(* question when the terminal ends, the ones still waiting for their turn  *)
(* included.                                                               *)
QuestionsReleased ==
  \A a \in Askers :
    (prPc[a] # "idle" /\ (a \in prGiven \/ prLoop = "ended")) ~> prPc[a] = "idle"
=============================================================================
