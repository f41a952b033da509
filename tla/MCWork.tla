------------------------------- MODULE MCWork -------------------------------
(***************************************************************************)
(* Two components that share no state, checked in one run: the execution   *)
(* of a batch of tools and the connection to a language server.  A         *)
(* behaviour is one of one part; the other stays at its initial state,     *)
(* where its fairness asks for nothing.  The language server is looked at  *)
(* twice: goroutines that use it at the same time, with a document that    *)
(* does not change, and one after the other, with one that does.           *)
(***************************************************************************)
EXTENDS ToolBatch, LanguageServer

VARIABLE part

partVars == <<part, vars, lspVars>>

OneAtATime == \A c, d \in Callers : lspPc[c] # "idle" /\ lspPc[d] # "idle" => c = d

PartInit == part \in {"batch", "lsp", "edited"} /\ Init /\ LspInit

PartNext ==
  /\ UNCHANGED part
  /\ \/ part = "batch" /\ Next /\ UNCHANGED lspVars
     \/ part = "lsp" /\ LspNext /\ UNCHANGED <<vars, lspDisk>>
     \/ part = "edited" /\ LspNext /\ OneAtATime' /\ UNCHANGED vars

PartSpec ==
  /\ PartInit /\ [][PartNext]_partVars
  /\ Fairness /\ LspFairness

(* The variables of each part keep to their types. *)
WorkTypeOK == TypeOK /\ LspTypeOK
=============================================================================
