----------------------------- MODULE MCHistory -----------------------------
(***************************************************************************)
(* Three components checked in one run: the split of a history, the        *)
(* storage of a session, and the chain of responses with plan mode.  They  *)
(* share no state; a behaviour is one of one part, and the others stay at  *)
(* their initial states.                                                   *)
(***************************************************************************)
EXTENDS HistorySplitCases, SessionStorage, ResponseChain, TLC

VARIABLE part

partVars == <<part, casesVars, vars, rcVars>>

(* Which session, runtime and prompt is which does not matter. *)
Interchangeable == Permutations(Chats) \cup Permutations(Runtimes) \cup Permutations(Prompts)

PartInit ==
  /\ part \in {"split", "storage", "chain"}
  /\ CasesInit /\ Init /\ RcInit
  /\ part # "chain" => persistId

PartNext ==
  /\ UNCHANGED part
  /\ \/ part = "split" /\ CasesNext /\ UNCHANGED <<vars, rcVars>>
     \/ part = "storage" /\ Next /\ UNCHANGED <<casesVars, rcVars>>
     \/ part = "chain" /\ RcNext /\ UNCHANGED <<casesVars, vars>>

PartSpec == PartInit /\ [][PartNext]_partVars

(* The variables of each part keep to their types. *)
HistoryTypeOK == CasesTypeOK /\ TypeOK /\ RcTypeOK
=============================================================================
