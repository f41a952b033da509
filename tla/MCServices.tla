----------------------------- MODULE MCServices -----------------------------
(***************************************************************************)
(* Three components that share no state, checked in one run: the           *)
(* credential and the two ways to the terminal.  A behaviour is one of one *)
(* part; the others stay at their initial state, where their fairness asks *)
(* for nothing.                                                            *)
(***************************************************************************)
EXTENDS TokenStore, TuiBridge, TuiPrompt

VARIABLE part

MCWorkers == {<<1, 1>>, <<1, 2>>, <<2, 1>>}

partVars == <<part, tokVars, brVars, prVars>>

PartInit ==
  /\ part \in {"token", "bridge", "prompt"}
  /\ TokInit /\ BrInit /\ PrInit
  /\ tokServer.rotates => part = "token"

PartNext ==
  /\ UNCHANGED part
  /\ \/ part = "token" /\ TokNext /\ UNCHANGED <<brVars, prVars>>
     \/ part = "bridge" /\ BrNext /\ UNCHANGED <<tokVars, prVars>>
     \/ part = "prompt" /\ PrNext /\ UNCHANGED <<tokVars, brVars>>

PartSpec ==
  /\ PartInit /\ [][PartNext]_partVars
  /\ TokFairness /\ BrFairness /\ PrFairness

(* The variables of each part keep to their types. *)
ServicesTypeOK == TokTypeOK /\ BrTypeOK /\ PrTypeOK

(* Nothing waits for the terminal for ever: the end of a turn for its      *)
(* output to be shown, a command for room in the channel, a goroutine for  *)
(* its question.                                                           *)
TerminalReleases == FlushReturns /\ LoopComesBack /\ QuestionsReleased
=============================================================================
