------------------------- MODULE HistorySplitCases -------------------------
(***************************************************************************)
(* Every history the normal turn builds, up to MaxLength messages, grown   *)
(* one message at a time, as the input of HistorySplit.  A batch of n calls *)
(* is answered by n replies before anything else is added.  The code and   *)
(* its tests provide for a history that starts with a batch, so the cases  *)
(* do too; one the program builds starts with an input or a summary.       *)
(***************************************************************************)
EXTENDS HistorySplit

CONSTANTS
  MaxCalls,    \* calls of one batch
  MaxLength    \* bound: messages of a history

ASSUME CasesAssumption == MaxCalls \in Nat \ {0} /\ MaxLength \in Nat

CaseMessage == [kind : {"plain", "calls", "reply"}, n : 0 .. MaxCalls]

VARIABLES
  h,      \* Agent.History
  owed    \* replies the last batch still owes

casesVars == <<h, owed>>

CasesInit == h = <<>> /\ owed = 0

(* A user input, an answer, a feedback. *)
AddPlain ==
  /\ owed = 0
  /\ Len(h) < MaxLength
  /\ h' = Append(h, [kind |-> "plain", n |-> 0])
  /\ owed' = 0

(* addToolCallsToHistory: the call message, with room for its replies *)
AddCalls ==
  /\ owed = 0
  /\ \E n \in 1 .. MaxCalls :
       /\ Len(h) + n < MaxLength
       /\ h' = Append(h, [kind |-> "calls", n |-> n])
       /\ owed' = n

(* Slip: the reply is not counted as given. *)
AddReplyUncounted ==
  /\ owed > 0
  /\ Len(h) < MaxLength + 1
  /\ h' = Append(h, [kind |-> "reply", n |-> 0])
  /\ owed' = owed

(* appendToolResultToHistory *)
AddReply ==
  /\ owed > 0
  /\ h' = Append(h, [kind |-> "reply", n |-> 0])
  /\ owed' = owed - 1

CasesNext == AddPlain \/ AddCalls \/ AddReply
CasesSpec == CasesInit /\ [][CasesNext]_casesVars
-----------------------------------------------------------------------------
CasesTypeOK == h \in Seq(CaseMessage) /\ Len(h) <= MaxLength /\ owed \in 0 .. MaxCalls

(* The replies that directly follow message i. *)
RepliesAfter(i) ==
  {j \in i + 1 .. Len(h) : \A k \in i + 1 .. j : IsReply(h[k])}

(* The batch of call message i: the message and its replies. *)
Batch(i) == {i} \cup RepliesAfter(i)

(* A split cuts a batch when some of it is summarised and some of it kept. *)
Cuts(s, i) == \E a, b \in Batch(i) : a <= s /\ s < b

(* What a caller may rely on for every split point: the result is within   *)
(* the history, something is summarised unless the history is one batch,   *)
(* and no more is summarised than was asked for, except for the first unit *)
(* when the split would otherwise be empty.                                *)
SplitIsUsable ==
  owed = 0 => \A k \in 1 .. Len(h) - 1 :
    LET s == adjustSplitForFCPairs(h, k) IN
    /\ s \in 0 .. Len(h) - 1
    /\ s = 0 => Batch(1) = 1 .. Len(h) /\ HasCalls(h[1])
    /\ s > k => HasCalls(h[1]) /\ Batch(1) = 1 .. s

(* A batch whose call message is kept is kept whole, and so is every batch *)
(* after it: only the front of the kept part can be damaged, and then only *)
(* by the replies of a batch of several calls right before another batch.  *)
CutOnlyBetweenBatches ==
  owed = 0 => \A k \in 1 .. Len(h) - 1 :
    LET s == adjustSplitForFCPairs(h, k) IN
    \A i \in 1 .. Len(h) : HasCalls(h[i]) /\ Cuts(s, i) =>
      h[i].n > 1 /\ \E c \in s + 2 .. Len(h) :
        /\ HasCalls(h[c])
        /\ \A j \in s + 1 .. c - 1 : IsReply(h[j])

(* The comment on adjustSplitForFCPairs, batches of several calls          *)
(* included: no split point separates a call message from its replies, in  *)
(* a history that starts with an input or a summary.                       *)
PairsNotSplit ==
  owed = 0 /\ h # <<>> /\ h[1].kind = "plain" => \A k \in 0 .. Len(h) :
    \A i \in 1 .. Len(h) : HasCalls(h[i]) => ~Cuts(adjustSplitForFCPairs(h, k), i)
=============================================================================
