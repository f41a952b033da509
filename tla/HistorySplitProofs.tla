-------------------------- MODULE HistorySplitProofs --------------------------
(***************************************************************************)
(* Facts about where a history is split, for every history.                *)
(***************************************************************************)
EXTENDS HistorySplit, SequenceFacts

(* The choice in BeforeReplies can be made: of the places that do not      *)
(* follow a reply the last one is what it asks for.                        *)
LEMMA BeforeRepliesIs ==
  ASSUME NEW M, NEW h \in Seq(M), NEW k \in Nat
  PROVE  /\ BeforeReplies(h, k) \in 0 .. k
         /\ BeforeReplies(h, k) = 0 \/ ~IsReply(h[BeforeReplies(h, k) + 1])
         /\ \A i \in BeforeReplies(h, k) + 1 .. k : IsReply(h[i + 1])
<1> DEFINE Stops == {j \in 0 .. k : j = 0 \/ ~IsReply(h[j + 1])}
<1>1. 0 \in Stops /\ Stops \subseteq 0 .. k
  OBVIOUS
<1>2. PICK j \in Stops : \A i \in Stops : i <= j
  BY <1>1, LargestExists
<1>3. j \in 0 .. k /\ (j = 0 \/ ~IsReply(h[j + 1]))
  OBVIOUS
<1>4. \A i \in j + 1 .. k : IsReply(h[i + 1])
  BY <1>2, SMT
<1>5. QED BY <1>3, <1>4 DEF BeforeReplies

(* The first unit is the first message, or the first batch, or nothing.    *)
LEMMA FirstUnitIs ==
  ASSUME NEW M, NEW h \in Seq(M), Len(h) > 1
  PROVE  \/ FirstUnit(h) = 1 /\ ~HasCalls(h[1])
         \/ /\ HasCalls(h[1])
            /\ FirstUnit(h) \in 1 .. Len(h) - 1
            /\ ~IsReply(h[FirstUnit(h) + 1])
            /\ \A j \in 2 .. FirstUnit(h) : IsReply(h[j])
         \/ /\ HasCalls(h[1])
            /\ FirstUnit(h) = 0
            /\ ~ \E i \in 1 .. Len(h) - 1 : ~IsReply(h[i + 1]) /\ \A j \in 2 .. i : IsReply(h[j])
<1> DEFINE ends == {i \in 1 .. Len(h) - 1 : ~IsReply(h[i + 1]) /\ \A j \in 2 .. i : IsReply(h[j])}
<1>1. CASE ~HasCalls(h[1])
  BY <1>1 DEF FirstUnit
<1>2. CASE HasCalls(h[1]) /\ ends = {}
  <2>1. FirstUnit(h) = 0
    BY <1>2 DEF FirstUnit
  <2>2. QED BY <2>1, <1>2
<1>3. CASE HasCalls(h[1]) /\ ends # {}
  <2>1. FirstUnit(h) \in ends
    <3>1. FirstUnit(h) = CHOOSE i \in ends : TRUE
      BY <1>3 DEF FirstUnit
    <3> HIDE DEF ends
    <3>2. QED BY <3>1, <1>3
  <2>2. QED BY <2>1, <1>3
<1>4. QED BY <1>1, <1>2, <1>3

(* A split inside the history is the end of the first unit, or it was not  *)
(* moved forward and the kept part starts with something else than a       *)
(* reply, or with one reply right before a batch.                          *)
LEMMA SplitPoint ==
  ASSUME NEW M, NEW h \in Seq(M), NEW k \in 1 .. Len(h) - 1
  PROVE  LET s == adjustSplitForFCPairs(h, k) IN
         \/ s = FirstUnit(h)
         \/ s \in 1 .. k /\ ~IsReply(h[s + 1])
         \/ s \in 1 .. k /\ s + 2 <= Len(h) /\ HasCalls(h[s + 2]) /\ ~HasCalls(h[s])
<1> DEFINE j == BeforeReplies(h, k)
           p == PastCalls(h, j)
           q == KeepLastCalls(h, p)
<1>0. Len(h) \in Nat /\ k \in Nat
  BY LenProperties, SMT
<1>1. j \in 0 .. k /\ (j = 0 \/ ~IsReply(h[j + 1]))
  BY <1>0, BeforeRepliesIs
<1>2. adjustSplitForFCPairs(h, k) = IF q > 0 THEN q ELSE FirstUnit(h)
  BY <1>0, SMT DEF adjustSplitForFCPairs
<1> HIDE DEF j
<1>3. p = IF j > 0 /\ HasCalls(h[j + 1]) THEN j - 1 ELSE j
  BY DEF PastCalls
<1> HIDE DEF p
<1>4. q = IF p > 0 /\ HasCalls(h[p]) THEN p - 1 ELSE p
  BY DEF KeepLastCalls
<1> HIDE DEF q
<1>5. \A m : HasCalls(m) => ~IsReply(m)
  BY DEF HasCalls, IsReply
<1>6. CASE q > 0
  <2>1. q \in 1 .. k
    BY <1>0, <1>1, <1>3, <1>4, <1>6, SMT
  <2>2. CASE p > 0 /\ HasCalls(h[p])
    <3>1. q + 1 = p
      BY <2>2, <1>1, <1>3, <1>4, SMT
    <3>2. QED BY <3>1, <2>1, <2>2, <1>2, <1>5, <1>6
  <2>3. CASE ~(p > 0 /\ HasCalls(h[p])) /\ j > 0 /\ HasCalls(h[j + 1])
    <3>1. q = p /\ p + 2 = j + 1 /\ q + 2 <= Len(h) /\ ~HasCalls(h[q])
      BY <2>3, <1>0, <1>1, <1>3, <1>4, <1>6, SMT
    <3>2. HasCalls(h[q + 2])
      BY <3>1, <2>3
    <3>3. QED BY <3>1, <3>2, <2>1, <1>2, <1>6
  <2>4. CASE ~(p > 0 /\ HasCalls(h[p])) /\ ~(j > 0 /\ HasCalls(h[j + 1]))
    <3>1. q = p /\ p = j
      BY <2>4, <1>3, <1>4
    <3>2. QED BY <3>1, <2>1, <1>1, <1>2, <1>6, SMT
  <2>5. QED BY <2>2, <2>3, <2>4
<1>7. CASE ~(q > 0)
  BY <1>7, <1>2
<1>8. QED BY <1>6, <1>7

(* A split inside the history stays inside of it. *)
LEMMA AdjustInside ==
  ASSUME NEW M, NEW h \in Seq(M), NEW k \in 1 .. Len(h) - 1
  PROVE  adjustSplitForFCPairs(h, k) \in 0 .. Len(h) - 1
<1>1. Len(h) \in Nat /\ Len(h) > 1
  BY LenProperties, SMT
<1>2. FirstUnit(h) \in 0 .. Len(h) - 1
  BY <1>1, FirstUnitIs, SMT
<1>3. QED BY <1>1, <1>2, SplitPoint, SMT

(* Whatever is asked for, the split is a part of the history. *)
LEMMA SplitInside ==
  ASSUME NEW M, NEW h \in Seq(M), NEW k \in Int
  PROVE  splitHistoryBeforeIndex(h, k) \in 0 .. Len(h)
<1>1. Len(h) \in Nat
  BY LenProperties
<1> DEFINE c == Clamp(h, k)
<1>2. c \in 0 .. Len(h)
  BY <1>1, SMT DEF Clamp
<1> HIDE DEF c
<1>3. adjustSplitForFCPairs(h, c) \in Int
  <2>1. CASE c <= 0 \/ c >= Len(h)
    BY <2>1, <1>2 DEF adjustSplitForFCPairs
  <2>2. CASE c \in 1 .. Len(h) - 1
    BY <2>2, <1>1, AdjustInside, SMT
  <2>3. QED BY <2>1, <2>2, <1>1, <1>2, SMT
<1> DEFINE a == adjustSplitForFCPairs(h, c)
<1> HIDE DEF a
<1>4. splitHistoryBeforeIndex(h, k) = Clamp(h, a) /\ a \in Int
  BY <1>3 DEF splitHistoryBeforeIndex, a, c
<1>5. QED BY <1>1, <1>4, SMT DEF Clamp

LEMMA CompressionSplitInside ==
  ASSUME NEW M, NEW h \in Seq(M), NEW keepRecent \in Nat
  PROVE  splitHistoryForCompression(h, keepRecent) \in 0 .. Len(h)
<1>1. Len(h) - keepRecent \in Int
  BY LenProperties, SMT
<1>2. QED BY <1>1, SplitInside DEF splitHistoryForCompression

(* During a turn the split leaves the turn alone, as long as the turn does *)
(* not start with a reply.                                                 *)
LEMMA InTurnSplitInside ==
  ASSUME NEW M, NEW h \in Seq(M), NEW keepRecent \in Nat, NEW turnStart \in Nat,
         turnStart < Len(h), ~IsReply(h[turnStart + 1])
  PROVE  splitHistoryForInTurnCompression(h, turnStart, keepRecent) \in 0 .. turnStart
<1>0. Len(h) \in Nat
  BY LenProperties
<1>1. CASE turnStart = 0
  BY <1>1 DEF splitHistoryForInTurnCompression
<1>2. CASE turnStart > 0
  <2> DEFINE k == IF Len(h) - keepRecent > turnStart THEN turnStart ELSE Len(h) - keepRecent
  <2>1. k \in Int /\ k <= turnStart
    BY <1>0, SMT
  <2> HIDE DEF k
  <2>2. splitHistoryForInTurnCompression(h, turnStart, keepRecent) = splitHistoryBeforeIndex(h, k)
    BY <1>2, SMT DEF splitHistoryForInTurnCompression, k
  <2>3. CASE k <= 0
    <3>1. Clamp(h, k) = 0
      BY <2>1, <2>3, <1>0, SMT DEF Clamp
    <3>2. adjustSplitForFCPairs(h, 0) = 0 /\ Clamp(h, 0) = 0
      BY <1>0, SMT DEF adjustSplitForFCPairs, Clamp
    <3>3. splitHistoryBeforeIndex(h, k) = 0
      BY <3>1, <3>2 DEF splitHistoryBeforeIndex
    <3>4. QED BY <2>2, <3>3, SMT
  <2>4. CASE k > 0
    <3>1. k \in 1 .. Len(h) - 1 /\ Clamp(h, k) = k
      BY <2>1, <2>4, <1>0, SMT DEF Clamp
    <3>2. adjustSplitForFCPairs(h, k) \in 0 .. Len(h) - 1
      BY <3>1, AdjustInside
    <3>3. splitHistoryBeforeIndex(h, k) = adjustSplitForFCPairs(h, k)
      BY <3>1, <3>2, <1>0, SMT DEF splitHistoryBeforeIndex, Clamp
    <3>4. adjustSplitForFCPairs(h, k) <= turnStart
      <4>1. FirstUnit(h) <= turnStart
        <5>1. Len(h) > 1
          BY <3>1, <1>0, SMT
        <5>2. QED BY <5>1, <1>2, <1>0, FirstUnitIs, SMT
      <4>2. QED BY <4>1, <3>1, <2>1, <1>0, SplitPoint, SMT
    <3>5. QED BY <2>2, <3>2, <3>3, <3>4, <1>0, SMT
  <2>5. QED BY <2>1, <2>3, <2>4, SMT
<1>3. QED BY <1>1, <1>2, SMT
=============================================================================
