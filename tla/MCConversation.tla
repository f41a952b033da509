--------------------------- MODULE MCConversation ---------------------------
(***************************************************************************)
(* Two components that share no state, checked in one run: the             *)
(* conversation and the cache of its tools.  A behaviour is one of one     *)
(* part; the other stays at its initial state, where its fairness asks for *)
(* nothing.                                                                *)
(***************************************************************************)
EXTENDS Conversation, ToolCache

VARIABLE part

partVars == <<part, vars, tcVars>>

PartInit ==
  /\ part \in {"conversation", "cache"}
  /\ Init /\ TcInit
  /\ part # "cache" => \A f \in Files : ~Exists(f)
  /\ part = "cache" => \A limit \in ToolLoopLimits : hardLimit <= limit

PartNext ==
  /\ UNCHANGED part
  /\ \/ part = "conversation" /\ Next /\ UNCHANGED tcVars
     \/ part = "cache" /\ TcNext /\ UNCHANGED vars

PartSpec == PartInit /\ [][PartNext]_partVars /\ Fairness

(* The variables of each part keep to their types. *)
ConversationTypeOK == TypeOK /\ TcTypeOK
=============================================================================
