---------------------------- MODULE HistorySplit ----------------------------
(***************************************************************************)
(* Where a history is split for compression                                *)
(* (internal/agent/compress_history_split.go).                             *)
(*                                                                         *)
(* A split is the number of messages that are summarised; the others are   *)
(* kept.  A message is told apart by its kind: "calls" is an assistant     *)
(* message with ToolCalls, "reply" a message of role tool, anything else   *)
(* is plain.  The module is without state: the conversation uses it, and   *)
(* HistorySplitCases drives it over every history up to a bound.           *)
(***************************************************************************)
EXTENDS Integers, Sequences

HasCalls(m) == m.kind = "calls"
IsReply(m) == m.kind = "reply"

(* Clamped into the history. *)
Clamp(h, k) == IF k < 0 THEN 0 ELSE IF k > Len(h) THEN Len(h) ELSE k

(* Slip: a split point among replies stays where it is. *)
AmongReplies(h, k) == k

(* Back over the replies the kept part would start with. *)
BeforeReplies(h, k) ==
  CHOOSE j \in 0 .. k :
    /\ j = 0 \/ ~IsReply(h[j + 1])
    /\ \A i \in j + 1 .. k : IsReply(h[i + 1])

(* The code's second step: the comment says that the assistant message     *)
(* joins the kept part, but it is its first message already, and one more  *)
(* message does.                                                           *)
PastCalls(h, k) == IF k > 0 /\ HasCalls(h[k + 1]) THEN k - 1 ELSE k

(* The last summarised message has tool calls: it is kept. *)
KeepLastCalls(h, k) == IF k > 0 /\ HasCalls(h[k]) THEN k - 1 ELSE k

(* Nothing would be summarised: the first message is, or the first batch   *)
(* with its replies, unless that is all there is.                          *)
FirstUnit(h) ==
  IF ~HasCalls(h[1]) THEN 1
  ELSE LET ends == {i \in 1 .. Len(h) - 1 :
                      /\ ~IsReply(h[i + 1])
                      /\ \A j \in 2 .. i : IsReply(h[j])}
       IN IF ends = {} THEN 0 ELSE CHOOSE i \in ends : TRUE

(* Slip: a split that is moved to the front is given up. *)
AdjustToNothing(h, k) ==
  IF k <= 0 \/ k >= Len(h) THEN k
  ELSE KeepLastCalls(h, PastCalls(h, BeforeReplies(h, k)))

adjustSplitForFCPairs(h, k) ==
  IF k <= 0 \/ k >= Len(h) THEN k
  ELSE LET s == KeepLastCalls(h, PastCalls(h, BeforeReplies(h, k)))
       IN IF s > 0 THEN s ELSE FirstUnit(h)

splitHistoryBeforeIndex(h, k) == Clamp(h, adjustSplitForFCPairs(h, Clamp(h, k)))

splitHistoryForCompression(h, keepRecent) ==
  splitHistoryBeforeIndex(h, Len(h) - keepRecent)

(* Slip: the start of the turn does not bound the split. *)
SplitIntoTurn(h, turnStart, keepRecent) ==
  IF turnStart <= 0 THEN 0 ELSE splitHistoryBeforeIndex(h, Len(h) - keepRecent)

(* During a turn no message of the turn itself is summarised; turnStart is *)
(* the length of the history before its first message.                     *)
splitHistoryForInTurnCompression(h, turnStart, keepRecent) ==
  IF turnStart <= 0 THEN 0
  ELSE LET k == Len(h) - keepRecent
       IN splitHistoryBeforeIndex(h, IF k > turnStart THEN turnStart ELSE k)
=============================================================================
