--------------------------- MODULE HistoryProofs ---------------------------
(***************************************************************************)
(* Proofs about the split of a history (HistorySplitCases), about the      *)
(* storage of a session (SessionStorage), and about the specification that *)
(* puts them side by side with the chain of responses (MCHistory).         *)
(***************************************************************************)
EXTENDS MCHistory, ResponseChainProofs

----------------------------------------------------------------------------
(* HistorySplitCases: where every split of every history is.               *)

(* Every call message has its replies behind it, as many as it has calls;  *)
(* only the last batch may still owe some.                                 *)
BatchWhole(i) ==
  /\ h[i].n \in 1 .. MaxCalls
  /\ i + h[i].n <= Len(h) + owed
  /\ \A j \in i + 1 .. i + h[i].n : j <= Len(h) => IsReply(h[j])
  /\ i + h[i].n < Len(h) => ~IsReply(h[i + h[i].n + 1])

CasesInv ==
  /\ CasesTypeOK
  /\ Len(h) + owed <= MaxLength
  /\ \A i \in 1 .. Len(h) : HasCalls(h[i]) => BatchWhole(i)
  /\ owed > 0 => \E i \in 1 .. Len(h) : HasCalls(h[i]) /\ i + h[i].n = Len(h) + owed

LEMMA InitCasesInv == CasesInit => CasesInv
<1> SUFFICES ASSUME CasesInit PROVE CasesInv
  OBVIOUS
<1>1. h \in Seq(CaseMessage) /\ Len(h) = 0 /\ owed = 0
  BY EmptySeq DEF CasesInit
<1>2. QED BY <1>1, CasesAssumption, SMT DEF CasesInv, CasesTypeOK

(* A message that is not a reply leaves whole batches whole. *)
LEMMA WholeStays ==
  ASSUME NEW m, ~IsReply(m), h \in Seq(CaseMessage), owed = 0, owed' \in Nat,
         Len(h') = Len(h) + 1, h'[Len(h) + 1] = m, \A j \in 1 .. Len(h) : h'[j] = h[j],
         NEW i \in 1 .. Len(h), BatchWhole(i)
  PROVE  BatchWhole(i)'
<1> DEFINE n == h[i].n
<1>1. /\ Len(h) \in Nat /\ MaxCalls \in Nat /\ h'[i].n = n
      /\ n \in 1 .. MaxCalls /\ i + n <= Len(h)
      /\ \A j \in i + 1 .. i + n : j <= Len(h) => IsReply(h[j])
      /\ i + n < Len(h) => ~IsReply(h[i + n + 1])
  BY CasesAssumption, LenProperties, SMT DEF BatchWhole
<1> HIDE DEF n
<1>2. \A j \in i + 1 .. i + n : j \in 1 .. Len(h) /\ IsReply(h[j])
  BY <1>1, SMT
<1>3. \A j \in i + 1 .. i + n : IsReply(h'[j])
  BY <1>2
<1>4. i + n < Len(h') => ~IsReply(h'[i + n + 1])
  <2>1. CASE i + n < Len(h)
    <3>1. i + n + 1 \in 1 .. Len(h)
      BY <2>1, <1>1, SMT
    <3>2. QED BY <3>1, <2>1, <1>1
  <2>2. CASE i + n = Len(h)
    BY <2>2, <1>1
  <2>3. QED BY <2>1, <2>2, <1>1, SMT
<1>5. i + n <= Len(h') + owed'
  BY <1>1, SMT
<1>6. QED BY <1>1, <1>3, <1>4, <1>5 DEF BatchWhole

LEMMA NextCasesInv == CasesInv /\ [CasesNext]_casesVars => CasesInv'
<1> SUFFICES ASSUME CasesInv, [CasesNext]_casesVars PROVE CasesInv'
  OBVIOUS
<1>0. /\ h \in Seq(CaseMessage) /\ Len(h) \in Nat /\ owed \in 0 .. MaxCalls
      /\ MaxCalls \in Nat /\ MaxLength \in Nat /\ Len(h) + owed <= MaxLength
      /\ \A i \in 1 .. Len(h) : h[i] \in CaseMessage
      /\ \A i \in 1 .. Len(h) : HasCalls(h[i]) => BatchWhole(i)
  BY CasesAssumption, LenProperties, ElementOfSeq DEF CasesInv, CasesTypeOK
<1>1. ASSUME NEW m \in CaseMessage, h' = Append(h, m)
      PROVE  /\ h' \in Seq(CaseMessage) /\ Len(h') = Len(h) + 1 /\ h'[Len(h) + 1] = m
             /\ \A i \in 1 .. Len(h) : h'[i] = h[i]
  BY <1>0, <1>1, AppendProperties
<1>2. CASE AddPlain
  <2> DEFINE m == [kind |-> "plain", n |-> 0]
  <2>1. m \in CaseMessage /\ h' = Append(h, m) /\ ~HasCalls(m) /\ ~IsReply(m) /\ owed = 0 /\ owed' = 0
        /\ Len(h) < MaxLength
    BY <1>2, <1>0, SMT DEF AddPlain, CaseMessage, HasCalls, IsReply
  <2> HIDE DEF m
  <2>2. /\ h' \in Seq(CaseMessage) /\ Len(h') = Len(h) + 1 /\ h'[Len(h) + 1] = m
        /\ \A i \in 1 .. Len(h) : h'[i] = h[i]
    BY <1>1, <2>1
  <2>3. ASSUME NEW i \in 1 .. Len(h'), HasCalls(h'[i]) PROVE BatchWhole(i)'
    <3>1. i \in 1 .. Len(h) /\ h'[i] = h[i] /\ BatchWhole(i)
      BY <1>0, <2>1, <2>2, <2>3, SMT
    <3>2. QED BY <3>1, <1>0, <2>1, <2>2, WholeStays, 0 \in Nat
  <2>4. QED BY <1>0, <2>1, <2>2, <2>3, SMT DEF CasesInv, CasesTypeOK
<1>3. CASE AddCalls
  <2>1. PICK n \in 1 .. MaxCalls :
          Len(h) + n < MaxLength /\ h' = Append(h, [kind |-> "calls", n |-> n]) /\ owed' = n
    BY <1>3 DEF AddCalls
  <2> DEFINE m == [kind |-> "calls", n |-> n]
  <2>2. m \in CaseMessage /\ h' = Append(h, m) /\ m.n = n /\ ~IsReply(m) /\ HasCalls(m) /\ owed = 0
    BY <1>3, <1>0, <2>1, SMT DEF AddCalls, CaseMessage, HasCalls, IsReply
  <2> HIDE DEF m
  <2>3. /\ h' \in Seq(CaseMessage) /\ Len(h') = Len(h) + 1 /\ h'[Len(h) + 1] = m
        /\ \A i \in 1 .. Len(h) : h'[i] = h[i]
    BY <1>1, <2>2
  <2>4. ASSUME NEW i \in 1 .. Len(h'), HasCalls(h'[i]) PROVE BatchWhole(i)'
    <3>1. CASE i = Len(h) + 1
      BY <3>1, <1>0, <2>1, <2>2, <2>3, SMT DEF BatchWhole
    <3>2. CASE i # Len(h) + 1
      <4>1. i \in 1 .. Len(h) /\ h'[i] = h[i] /\ BatchWhole(i)
        BY <3>2, <1>0, <2>2, <2>3, <2>4, SMT
      <4>2. owed' \in Nat
        BY <2>1, <1>0, SMT
      <4>3. QED BY <4>1, <4>2, <1>0, <2>2, <2>3, WholeStays
    <3>3. QED BY <3>1, <3>2
  <2>5. \E i \in 1 .. Len(h') : HasCalls(h'[i]) /\ i + h'[i].n = Len(h') + owed'
    <3>1. PICK i : i = Len(h) + 1 /\ i \in 1 .. Len(h') /\ h'[i] = m
      BY <1>0, <2>3
    <3>2. HasCalls(h'[i]) /\ i + h'[i].n = Len(h') + owed'
      BY <2>1, <2>2, <2>3, <3>1
    <3>3. QED BY <3>1, <3>2
  <2>6. CasesTypeOK' /\ Len(h') + owed' <= MaxLength
    <3>1. n \in Nat /\ owed' = n /\ Len(h') = Len(h) + 1 /\ Len(h) + n < MaxLength
          /\ Len(h) \in Nat /\ MaxLength \in Nat /\ MaxCalls \in Nat /\ n <= MaxCalls
      BY <1>0, <2>1, <2>3, CasesAssumption
    <3>2. owed' \in 0 .. MaxCalls /\ Len(h') <= MaxLength /\ Len(h') + owed' <= MaxLength
      BY <3>1
    <3>3. QED BY <2>3, <3>2 DEF CasesTypeOK
  <2>7. QED BY <2>4, <2>5, <2>6 DEF CasesInv
<1>4. CASE AddReply
  <2> DEFINE m == [kind |-> "reply", n |-> 0]
  <2>1. m \in CaseMessage /\ h' = Append(h, m) /\ ~HasCalls(m) /\ IsReply(m) /\ owed > 0 /\ owed' = owed - 1
    BY <1>4, <1>0, SMT DEF AddReply, CaseMessage, HasCalls, IsReply
  <2> HIDE DEF m
  <2>2. /\ h' \in Seq(CaseMessage) /\ Len(h') = Len(h) + 1 /\ h'[Len(h) + 1] = m
        /\ \A i \in 1 .. Len(h) : h'[i] = h[i]
    BY <1>1, <2>1
  <2>3. PICK c \in 1 .. Len(h) : HasCalls(h[c]) /\ c + h[c].n = Len(h) + owed
    BY <2>1 DEF CasesInv
  <2>4. BatchWhole(c)
    BY <1>0, <2>3
  <2>5. ASSUME NEW i \in 1 .. Len(h'), HasCalls(h'[i]) PROVE BatchWhole(i)'
    <3>1. i \in 1 .. Len(h) /\ h'[i] = h[i] /\ BatchWhole(i)
      BY <1>0, <2>1, <2>2, <2>5, SMT
    <3>2. i + h[i].n # Len(h)
      <4> SUFFICES ASSUME i + h[i].n = Len(h) PROVE FALSE
        OBVIOUS
      <4>1. i # c
        BY <2>1, <2>3, <1>0, SMT
      <4>2. CASE i < c
        <5>1. IsReply(h[c])
          BY <4>2, <3>1, <1>0, SMTT(40) DEF BatchWhole, CaseMessage
        <5>2. QED BY <5>1, <2>3 DEF HasCalls, IsReply
      <4>3. CASE c < i
        <5>1. IsReply(h[i])
          <6>1. i \in c + 1 .. c + h[c].n
            BY <4>3, <3>1, <2>1, <2>3, <1>0, SMTT(40)
          <6>2. QED BY <6>1, <3>1, <2>4, SMTT(30) DEF BatchWhole
        <5>2. QED BY <5>1, <3>1, <2>5 DEF HasCalls, IsReply
      <4>4. QED BY <4>1, <4>2, <4>3, SMT
    <3> DEFINE n == h[i].n
    <3>3. /\ h'[i].n = n /\ n \in 1 .. MaxCalls /\ i + n <= Len(h) + owed /\ i + n # Len(h)
          /\ \A j \in i + 1 .. i + n : j <= Len(h) => IsReply(h[j])
          /\ i + n < Len(h) => ~IsReply(h[i + n + 1])
      BY <3>1, <3>2 DEF BatchWhole
    <3> HIDE DEF n
    <3>4. ASSUME NEW j \in i + 1 .. i + n, j <= Len(h') PROVE IsReply(h'[j])
      <4>1. CASE j = Len(h) + 1
        BY <4>1, <2>1, <2>2
      <4>2. CASE j # Len(h) + 1
        <5>1. j \in 1 .. Len(h) /\ j <= Len(h)
          BY <4>2, <3>4, <3>3, <2>2, <1>0, SMT
        <5>2. QED BY <5>1, <3>3, <2>2
      <4>3. QED BY <4>1, <4>2
    <3>5. ASSUME i + n < Len(h') PROVE ~IsReply(h'[i + n + 1])
      <4>1. i + n < Len(h) /\ i + n + 1 \in 1 .. Len(h)
        BY <3>5, <3>3, <2>2, <1>0, SMT
      <4>2. QED BY <4>1, <3>3, <2>2
    <3>6. i + n <= Len(h') + owed'
      BY <3>3, <2>1, <2>2, <1>0, SMT
    <3>7. QED BY <3>3, <3>4, <3>5, <3>6 DEF BatchWhole
  <2>6. \E i \in 1 .. Len(h') : HasCalls(h'[i]) /\ i + h'[i].n = Len(h') + owed'
    <3>1. c \in 1 .. Len(h') /\ h'[c] = h[c]
      BY <2>2, <1>0, SMT
    <3>2. h[c].n \in Int
      BY <2>4, SMT DEF BatchWhole
    <3>3. c + h[c].n = Len(h') + owed'
      BY <3>2, <2>1, <2>2, <2>3, <1>0, SMT
    <3>4. QED BY <3>1, <3>3, <2>3
  <2>7. QED BY <1>0, <2>1, <2>2, <2>5, <2>6, SMTT(30) DEF CasesInv, CasesTypeOK
<1>5. CASE UNCHANGED casesVars
  BY <1>5 DEF casesVars, CasesInv, CasesTypeOK, BatchWhole
<1>6. QED BY <1>2, <1>3, <1>4, <1>5 DEF CasesNext

LEMMA CasesInvariant == CasesSpec => []CasesInv
BY InitCasesInv, NextCasesInv, PTL DEF CasesSpec

(* A batch that owes nothing is its call message and the replies it has.   *)
LEMMA BatchIs ==
  ASSUME CasesInv, owed = 0, NEW i \in 1 .. Len(h), HasCalls(h[i])
  PROVE  /\ Batch(i) = i .. i + h[i].n
         /\ h[i].n \in Nat \ {0} /\ i + h[i].n <= Len(h)
         /\ \A j \in i + 1 .. i + h[i].n : IsReply(h[j])
         /\ i + h[i].n < Len(h) => ~IsReply(h[i + h[i].n + 1])
<1>0. Len(h) \in Nat /\ MaxCalls \in Nat /\ BatchWhole(i)
  BY CasesAssumption, LenProperties DEF CasesInv, CasesTypeOK
<1> DEFINE n == h[i].n
<1>1. /\ n \in Nat \ {0} /\ i + n <= Len(h)
      /\ \A j \in i + 1 .. i + n : IsReply(h[j])
      /\ i + n < Len(h) => ~IsReply(h[i + n + 1])
  BY <1>0, SMT DEF BatchWhole
<1> HIDE DEF n
<1>2. RepliesAfter(i) = i + 1 .. i + n
  <2>1. ASSUME NEW j \in i + 1 .. i + n PROVE j \in RepliesAfter(i)
    BY <1>0, <1>1, SMT DEF RepliesAfter
  <2>2. ASSUME NEW j \in RepliesAfter(i), j > i + n PROVE FALSE
    <3>1. j \in i + 1 .. Len(h) /\ i + n + 1 \in i + 1 .. j
      BY <1>0, <1>1, <2>2, SMT DEF RepliesAfter
    <3>2. IsReply(h[i + n + 1]) /\ i + n < Len(h)
      BY <3>1, <2>2, <1>0, <1>1, SMT DEF RepliesAfter
    <3>3. QED BY <3>2, <1>1
  <2>3. RepliesAfter(i) \subseteq i + 1 .. Len(h)
    BY DEF RepliesAfter
  <2>4. RepliesAfter(i) \subseteq i + 1 .. i + n
    BY <2>2, <2>3, <1>0, <1>1, SMT
  <2>5. QED BY <2>1, <2>4
<1>3. Batch(i) = i .. i + n
  BY <1>1, <1>2, SMT DEF Batch
<1>4. QED BY <1>1, <1>3 DEF n

(* Each bound on the split point, from where SplitPoint says it is. *)
LEMMA UsableSplit == CasesInv => SplitIsUsable
<1> SUFFICES ASSUME CasesInv PROVE SplitIsUsable
  OBVIOUS
<1> SUFFICES ASSUME owed = 0, NEW k \in 1 .. Len(h) - 1
             PROVE LET s == adjustSplitForFCPairs(h, k) IN
                   /\ s \in 0 .. Len(h) - 1
                   /\ s = 0 => Batch(1) = 1 .. Len(h) /\ HasCalls(h[1])
                   /\ s > k => HasCalls(h[1]) /\ Batch(1) = 1 .. s
  BY DEF SplitIsUsable
<1> DEFINE s == adjustSplitForFCPairs(h, k)
           f == FirstUnit(h)
<1>0. h \in Seq(CaseMessage) /\ Len(h) \in Nat /\ Len(h) > 1
  BY LenProperties, SMT DEF CasesInv, CasesTypeOK
<1>1. s \in 0 .. Len(h) - 1
  BY <1>0, AdjustInside
<1>2. s = f \/ s \in 1 .. k
  BY <1>0, SplitPoint
<1> HIDE DEF s
<1>3. \/ f = 1 /\ ~HasCalls(h[1])
      \/ HasCalls(h[1]) /\ f \in 1 .. Len(h) - 1 /\ ~IsReply(h[f + 1]) /\ \A j \in 2 .. f : IsReply(h[j])
      \/ /\ HasCalls(h[1]) /\ f = 0
         /\ ~ \E i \in 1 .. Len(h) - 1 : ~IsReply(h[i + 1]) /\ \A j \in 2 .. i : IsReply(h[j])
  BY <1>0, FirstUnitIs
<1> HIDE DEF f
<1>4. ASSUME s = 0 PROVE Batch(1) = 1 .. Len(h) /\ HasCalls(h[1])
  <2>1. /\ HasCalls(h[1])
        /\ ~ \E i \in 1 .. Len(h) - 1 : ~IsReply(h[i + 1]) /\ \A j \in 2 .. i : IsReply(h[j])
    BY <1>2, <1>3, <1>4, SMT
  <2>2. /\ Batch(1) = 1 .. 1 + h[1].n /\ h[1].n \in Nat \ {0} /\ 1 + h[1].n <= Len(h)
        /\ \A j \in 2 .. 1 + h[1].n : IsReply(h[j])
        /\ 1 + h[1].n < Len(h) => ~IsReply(h[1 + h[1].n + 1])
    <3>1. 1 \in 1 .. Len(h) /\ 1 + 1 = 2
      BY <1>0, SMT
    <3>2. QED BY <3>1, <2>1, BatchIs
  <2>3. 1 + h[1].n = Len(h)
    <3> DEFINE n == h[1].n
    <3>1. n \in Nat \ {0} /\ 1 + n <= Len(h) /\ \A j \in 2 .. 1 + n : IsReply(h[j])
      BY <2>2
    <3>2. 1 + n < Len(h) => ~IsReply(h[(1 + n) + 1])
      BY <2>2
    <3> HIDE DEF n
    <3>3. 1 + n < Len(h) => 1 + n \in 1 .. Len(h) - 1
      BY <3>1, <1>0, SMT
    <3>4. ~(1 + n < Len(h))
      BY <3>1, <3>2, <3>3, <2>1
    <3>5. 1 + n = Len(h)
      BY <3>1, <3>4, <1>0, SMT
    <3>6. QED BY <3>5 DEF n
  <2>4. QED BY <2>1, <2>2, <2>3
<1>5. ASSUME s > k PROVE HasCalls(h[1]) /\ Batch(1) = 1 .. s
  <2>1. s = f /\ HasCalls(h[1]) /\ s \in 1 .. Len(h) - 1
        /\ ~IsReply(h[s + 1]) /\ \A j \in 2 .. s : IsReply(h[j])
    BY <1>0, <1>2, <1>3, <1>5, SMT
  <2>2. RepliesAfter(1) = 2 .. s
    BY <2>1, <1>0, SMT DEF RepliesAfter
  <2>3. QED BY <2>1, <2>2, SMT DEF Batch
<1>6. QED BY <1>1, <1>4, <1>5 DEF s

(* For every history of whole batches the split is usable.  The end of the *)
(* first unit is what FirstUnitIs says; any other split was asked for.     *)
THEOREM SplitsAreUsable == CasesSpec => []SplitIsUsable
BY CasesInvariant, UsableSplit, PTL

(* A batch that is cut leaves a reply at the split point, which of the      *)
(* places SplitPoint names only the one right before a batch can be.       *)
LEMMA CutsBetween == CasesInv => CutOnlyBetweenBatches
<1> SUFFICES ASSUME CasesInv PROVE CutOnlyBetweenBatches
  OBVIOUS
<1> DEFINE s(k) == adjustSplitForFCPairs(h, k)
<1> SUFFICES ASSUME owed = 0, NEW k \in 1 .. Len(h) - 1, NEW i \in 1 .. Len(h),
                    HasCalls(h[i]), Cuts(s(k), i)
             PROVE  h[i].n > 1 /\ \E c \in s(k) + 2 .. Len(h) :
                      HasCalls(h[c]) /\ \A j \in s(k) + 1 .. c - 1 : IsReply(h[j])
  BY DEF CutOnlyBetweenBatches
<1>0. h \in Seq(CaseMessage) /\ Len(h) \in Nat /\ Len(h) > 1
  BY LenProperties, SMT DEF CasesInv, CasesTypeOK
<1>1. s(k) \in 0 .. Len(h) - 1
  BY <1>0, AdjustInside
<1>2. \/ s(k) = FirstUnit(h)
      \/ s(k) \in 1 .. k /\ ~IsReply(h[s(k) + 1])
      \/ s(k) \in 1 .. k /\ s(k) + 2 <= Len(h) /\ HasCalls(h[s(k) + 2]) /\ ~HasCalls(h[s(k)])
  BY <1>0, SplitPoint
<1> DEFINE t == s(k)
<1> HIDE DEF s
<1>3. /\ Batch(i) = i .. i + h[i].n
      /\ h[i].n \in Nat \ {0} /\ i + h[i].n <= Len(h)
      /\ \A j \in i + 1 .. i + h[i].n : IsReply(h[j])
      /\ i + h[i].n < Len(h) => ~IsReply(h[i + h[i].n + 1])
  BY BatchIs
<1>4. i <= t /\ t < i + h[i].n
  BY <1>1, <1>3, SMTT(40) DEF Cuts
<1>5. IsReply(h[t + 1])
  BY <1>1, <1>3, <1>4, SMTT(40)
<1>6. CASE t = FirstUnit(h)
  <2>1. HasCalls(h[1]) /\ ~IsReply(h[t + 1])
    <3>1. CASE t = 1 /\ ~HasCalls(h[1])
      <4>1. i = 1
        BY <3>1, <1>4, SMT
      <4>2. QED BY <4>1, <3>1
    <3>2. CASE t = 0
      BY <3>2, <1>4, SMT
    <3>3. QED BY <3>1, <3>2, <1>0, <1>6, FirstUnitIs
  <2>2. QED BY <2>1, <1>5
<1>7. CASE t \in 1 .. k /\ ~IsReply(h[t + 1])
  BY <1>7, <1>5
<1>8. CASE t \in 1 .. k /\ t + 2 <= Len(h) /\ HasCalls(h[t + 2]) /\ ~HasCalls(h[t])
  <2>1. i # t
    BY <1>8
  <2>2. h[i].n > 1
    BY <2>1, <1>3, <1>4, <1>1, SMT
  <2>3. \A j \in t + 1 .. t + 2 - 1 : IsReply(h[j])
    <3>1. \A j \in t + 1 .. t + 2 - 1 : j = t + 1
      BY <1>8, SMT
    <3>2. QED BY <3>1, <1>5
  <2>4. t + 2 \in t + 2 .. Len(h)
    BY <1>8, <1>0, SMT
  <2>5. QED BY <1>8, <2>2, <2>3, <2>4
<1>9. QED BY <1>2, <1>6, <1>7, <1>8

(* For every history of whole batches only a batch of several calls right  *)
(* before another batch is cut: the kept part starts with one reply of it. *)
THEOREM CutsOnlyBetweenBatches == CasesSpec => []CutOnlyBetweenBatches
BY CasesInvariant, CutsBetween, PTL

----------------------------------------------------------------------------
(* SessionStorage.  The inductive invariant.                               *)

Sessions ==
  [entries : Seq(Entries), compact : BOOLEAN, persisted : Nat, rewrite : BOOLEAN]

StorageTypes ==
  /\ mem \in Sessions /\ mem.persisted <= Len(mem.entries)
  /\ file \in [present : BOOLEAN, lines : Seq(Lines), torn : BOOLEAN]
  /\ file.torn => file.lines /= <<>> /\ file.lines[Len(file.lines)] = Junk
  /\ ~file.present => file.lines = <<>>
  /\ meta \in [present : BOOLEAN, count : Nat, items : BOOLEAN]
  /\ pc \in {"idle", "save", "rewrite", "append", "meta", "down"}
  /\ todo \in Seq(Entries) /\ (todo /= <<>> <=> pc = "append")
  /\ made \in 0 .. MaxEntries
  /\ failures \in 0 .. MaxFailures
  /\ outcome \in {"none", "open", "ok", "failed"}
  /\ want \in Contents
  /\ versions \subseteq Contents
  /\ broken \subseteq {"append", "repair"}

(* No session and no metadata counts more messages than were made. *)
Counted ==
  /\ conversationMessageCount(mem.entries) <= made
  /\ meta.count <= made

(* What a save is to store is what the session holds while it runs; after  *)
(* one that returned no error it is the only version, and the metadata     *)
(* describes it.                                                           *)
SaveFollows ==
  /\ pc \in {"save", "rewrite", "append", "meta"} =>
       outcome = "open" /\ want = Content(mem) /\ want \in versions
  /\ pc = "meta" => mem.persisted = Len(mem.entries) /\ ~mem.rewrite
  /\ pc = "append" =>
       /\ ~mem.rewrite /\ file.present
       /\ Len(todo) \in 1 .. Len(mem.entries) - mem.persisted
       /\ todo = SubSeq(mem.entries, Len(mem.entries) - Len(todo) + 1, Len(mem.entries))
  /\ outcome = "ok" =>
       /\ pc \in {"idle", "down"} /\ meta.present
       /\ meta.count = conversationMessageCount(want.entries)
       /\ meta.items = want.compact
       /\ versions = {want}

(* The lines of a file that holds this content. *)
ContentLines(es, c) == IF c THEN <<Header>> \o es ELSE es

(* The lines are the first n entries of session m, and with each further   *)
(* entry they are a version.                                               *)
Upto(lines, m, n, vs) ==
  /\ lines = ContentLines(SubSeq(m.entries, 1, n), m.compact)
  /\ \A j \in n + 1 .. Len(m.entries) :
       [entries |-> SubSeq(m.entries, 1, j), compact |-> m.compact] \in vs

Done == IF pc = "append" THEN Len(mem.entries) - Len(todo) ELSE mem.persisted

(* A file no write has damaged holds a version, whatever the session is,   *)
(* and an append continues it unless a rewrite is required.                *)
FileWhole ==
  broken = {} =>
    /\ ~file.torn
    /\ file.lines = ContentLines(Loaded(file).entries, Loaded(file).compact)
    /\ meta.present => Loaded(file) \in versions
    /\ ~mem.rewrite /\ pc \in {"idle", "save", "append", "meta"} =>
         Upto(file.lines, mem, Done, versions)

StorageInv == StorageTypes /\ Counted /\ SaveFollows /\ FileWhole

----------------------------------------------------------------------------
(* What a load returns. *)

LEMMA KindsApart ==
  /\ Entries \subseteq SessionEntries /\ Entries \subseteq Decodable
  /\ Junk \notin Decodable /\ Header \notin SessionEntries
  /\ Header \in Decodable /\ Lines \cap SessionEntries \subseteq Entries
  /\ Header \notin Entries
BY BoundsAssumption DEF Entries, SessionEntries, Decodable, Kinds, Lines, Junk, Header, Entry

(* Whatever the lines are, a load returns entries and a flag. *)
LEMMA LoadedType ==
  ASSUME NEW f, f.lines \in Seq(Lines)
  PROVE  Loaded(f) \in Contents
<1> DEFINE read == Only(f.lines, Decodable)
<1>1. read \in Seq(Lines)
  BY OnlySeq
<1>2. Only(read, SessionEntries) \in Seq(Lines \cap SessionEntries)
  BY <1>1, OnlyType
<1>3. Lines \cap SessionEntries \subseteq Entries
  BY KindsApart
<1>4. Only(read, SessionEntries) \in Seq(Entries)
  BY <1>2, <1>3, SeqWidens
<1>5. (\E i \in DOMAIN read : read[i] = Header) \in BOOLEAN
  OBVIOUS
<1>6. Loaded(f) = [entries |-> Only(read, SessionEntries),
                   compact |-> \E i \in DOMAIN read : read[i] = Header]
  BY DEF Loaded, loadSessionMessages
<1> HIDE DEF read
<1>7. QED BY <1>4, <1>5, <1>6 DEF Contents

(* A whole file is loaded as the content it holds. *)
LEMMA ContentLoads ==
  ASSUME NEW f, NEW es \in Seq(Entries), NEW c \in BOOLEAN, f.lines = ContentLines(es, c)
  PROVE  Loaded(f) = [entries |-> es, compact |-> c]
<1> DEFINE read == Only(f.lines, Decodable)
<1>1. \A s \in Seq(Entries) : Only(s, Decodable) = s /\ Only(s, SessionEntries) = s
  BY KindsApart, OnlyAll
<1>2. CASE c
  <2>1. f.lines = <<Header>> \o es
    BY <1>2 DEF ContentLines
  <2>2. <<Header>> \in Seq(Decodable) /\ es \in Seq(Decodable)
    BY KindsApart, SeqWidens
  <2>3. f.lines \in Seq(Decodable)
    BY <2>1, <2>2, ConcatProperties
  <2>4. read = f.lines
    BY <2>3, OnlyAll
  <2>5. Only(<<Header>>, SessionEntries) = <<>>
    <3>1. <<Header>> \in Seq({Header}) /\ {Header} \cap SessionEntries = {}
      BY KindsApart
    <3>2. QED BY <3>1, OnlyNone
  <2>6. Only(f.lines, SessionEntries) = <<>> \o es
    <3>1. PICK hd : hd = <<Header>> /\ hd \in Seq(Decodable)
      BY <2>2
    <3>2. Only(hd \o es, SessionEntries) = Only(hd, SessionEntries) \o Only(es, SessionEntries)
      BY <2>2, <3>1, OnlyConcat
    <3>3. QED BY <1>1, <2>1, <2>5, <3>1, <3>2
  <2>7. Only(read, SessionEntries) = es
    BY <2>4, <2>6
  <2>8. read[1] = Header /\ 1 \in DOMAIN read
    BY <2>1, <2>2, <2>4
  <2>9. QED BY <1>2, <2>7, <2>8 DEF Loaded, loadSessionMessages
<1>3. CASE ~c
  <2>1. f.lines = es
    BY <1>3 DEF ContentLines
  <2>2. read = es /\ Only(read, SessionEntries) = es
    BY <1>1, <2>1
  <2>3. ~ \E i \in DOMAIN read : read[i] = Header
    BY <2>2, KindsApart
  <2>4. QED BY <1>3, <2>2, <2>3 DEF Loaded, loadSessionMessages
<1>4. QED BY <1>2, <1>3

----------------------------------------------------------------------------
(* How many messages of the conversation there are. *)

LEMMA CountType ==
  ASSUME NEW T, NEW s \in Seq(T)
  PROVE  conversationMessageCount(s) \in Nat
BY OnlySeq, LenProperties DEF conversationMessageCount, Conversation

LEMMA CountAppend ==
  ASSUME NEW T, NEW s \in Seq(T), NEW e \in T
  PROVE  conversationMessageCount(Append(s, e)) <= conversationMessageCount(s) + 1
<1>1. Conversation(s) \in Seq(T)
  BY OnlySeq DEF Conversation
<1>2. Conversation(Append(s, e)) = Conversation(s)
      \/ Conversation(Append(s, e)) = Append(Conversation(s), e)
  BY OnlyAppend DEF Conversation
<1>3. Len(Append(Conversation(s), e)) = Len(Conversation(s)) + 1 /\ Len(Conversation(s)) \in Nat
  BY <1>1
<1>4. QED BY <1>2, <1>3 DEF conversationMessageCount

LEMMA CountConcat ==
  ASSUME NEW T, NEW s \in Seq(T), NEW t \in Seq(T)
  PROVE  /\ conversationMessageCount(s \o t)
              = conversationMessageCount(s) + conversationMessageCount(t)
         /\ conversationMessageCount(s) \in Nat /\ conversationMessageCount(t) \in Nat
<1>1. Conversation(s) \in Seq(T) /\ Conversation(t) \in Seq(T)
  BY OnlySeq DEF Conversation
<1>2. Conversation(s \o t) = Conversation(s) \o Conversation(t)
  BY OnlyConcat DEF Conversation
<1>3. QED BY <1>1, <1>2 DEF conversationMessageCount

LEMMA CountLen ==
  ASSUME NEW T
  PROVE  \A s \in Seq(T) : conversationMessageCount(s) <= Len(s)
<1> DEFINE P == {s \in Seq(T) : conversationMessageCount(s) <= Len(s)}
<1>1. <<>> \in P
  BY OnlyEmpty, EmptySeq DEF conversationMessageCount, Conversation
<1>2. \A s \in Seq(T) : s \in P => \A e \in T : Append(s, e) \in P
  <2> SUFFICES ASSUME NEW s \in Seq(T), s \in P, NEW e \in T PROVE Append(s, e) \in P
    OBVIOUS
  <2>1. conversationMessageCount(Append(s, e)) <= conversationMessageCount(s) + 1
    BY CountAppend
  <2>2. Append(s, e) \in Seq(T) /\ Len(Append(s, e)) = Len(s) + 1 /\ Len(s) \in Nat
    OBVIOUS
  <2>3. conversationMessageCount(s) \in Nat /\ conversationMessageCount(Append(s, e)) \in Nat
    BY <2>2, CountType
  <2>4. QED BY <2>1, <2>2, <2>3
<1>3. QED BY <1>1, <1>2, SeqSetInduction

LEMMA CountFront ==
  ASSUME NEW T, NEW s \in Seq(T), NEW n \in 0 .. Len(s)
  PROVE  conversationMessageCount(SubSeq(s, 1, n)) <= conversationMessageCount(s)
<1>1. PICK a, b : /\ a = SubSeq(s, 1, n) /\ b = SubSeq(s, n + 1, Len(s))
                  /\ a \in Seq(T) /\ b \in Seq(T) /\ s = a \o b
  <2>1. /\ SubSeq(s, 1, n) \in Seq(T) /\ SubSeq(s, n + 1, Len(s)) \in Seq(T)
        /\ s = SubSeq(s, 1, n) \o SubSeq(s, n + 1, Len(s))
    BY CutInTwo
  <2>2. QED BY <2>1
<1>2. conversationMessageCount(a \o b) = conversationMessageCount(a) + conversationMessageCount(b)
      /\ conversationMessageCount(a) \in Nat /\ conversationMessageCount(b) \in Nat
  <2>1. \A c, d \in Seq(T) :
          conversationMessageCount(c \o d) = conversationMessageCount(c) + conversationMessageCount(d)
          /\ conversationMessageCount(c) \in Nat /\ conversationMessageCount(d) \in Nat
    BY CountConcat
  <2>2. a \in Seq(T) /\ b \in Seq(T)
    BY <1>1
  <2>3. QED BY <2>1, <2>2
<1>3. conversationMessageCount(s) = conversationMessageCount(a \o b)
      /\ conversationMessageCount(SubSeq(s, 1, n)) = conversationMessageCount(a)
  BY <1>1, Zenon
<1>4. QED BY <1>2, <1>3

(* A message in the place of a message does not change their number. *)
LEMMA CountReplaced ==
  ASSUME NEW T, NEW s \in Seq(T), NEW i \in 1 .. Len(s), NEW e \in T,
         isConversationMessageEntry(s[i]), isConversationMessageEntry(e)
  PROVE  conversationMessageCount([s EXCEPT ![i] = e]) = conversationMessageCount(s)
<1>1. PICK t : t = [s EXCEPT ![i] = e] /\ t \in Seq(T) /\ t[i] = e /\ SameBut(s, t, i)
  <2>1. ASSUME NEW t, t = [s EXCEPT ![i] = e]
        PROVE  t \in Seq(T) /\ Len(t) = Len(s) /\ t[i] = e
               /\ \A j \in 1 .. Len(s) : j # i => t[j] = s[j]
    BY <2>1
  <2>2. QED BY <2>1 DEF SameBut
<1>2. PICK a, b : a \in Seq(T) /\ b \in Seq(T) /\ s = Append(a, s[i]) \o b /\ t = Append(a, e) \o b
  <2>1. \E a, b : a \in Seq(T) /\ b \in Seq(T) /\ Around(s, i, a, b) /\ Around(t, i, a, b)
    <3>1. t \in Seq(T) /\ SameBut(s, t, i)
      BY <1>1
    <3>2. QED BY <3>1, CutAround
  <2>2. QED BY <1>1, <2>1 DEF Around
<1>3. s[i] \in T
  OBVIOUS
<1>4. ASSUME NEW x \in T, x \in ConversationEntries
      PROVE  conversationMessageCount(Append(a, x) \o b)
               = conversationMessageCount(a) + 1 + conversationMessageCount(b)
  <2>1. PICK ax : ax = Append(a, x) /\ ax \in Seq(T)
    BY <1>2, AppendProperties
  <2>2. conversationMessageCount(ax \o b) = conversationMessageCount(ax) + conversationMessageCount(b)
    BY <1>2, <2>1, CountConcat
  <2>3. conversationMessageCount(ax) = conversationMessageCount(a) + 1
    <3>1. Only(ax, ConversationEntries) = Append(Only(a, ConversationEntries), x)
      BY <1>2, <1>4, <2>1, OnlyAppend
    <3>2. Only(a, ConversationEntries) \in Seq(T)
      BY <1>2, OnlySeq
    <3>3. QED BY <3>1, <3>2 DEF conversationMessageCount, Conversation
  <2>4. QED BY <2>1, <2>2, <2>3
<1>5. s[i] \in ConversationEntries /\ e \in ConversationEntries
  BY DEF isConversationMessageEntry
<1>6. /\ conversationMessageCount(Append(a, s[i]) \o b)
           = conversationMessageCount(a) + 1 + conversationMessageCount(b)
      /\ conversationMessageCount(Append(a, e) \o b)
           = conversationMessageCount(a) + 1 + conversationMessageCount(b)
  BY <1>3, <1>4, <1>5
<1>7. QED BY <1>1, <1>2, <1>6, Zenon

----------------------------------------------------------------------------
(* The invariant holds at the start and is kept by every action. *)

LEMMA InitStorage == Init => StorageInv
<1> SUFFICES ASSUME Init PROVE StorageInv
  OBVIOUS
<1> USE DEF Init
<1>1. mem = [entries |-> <<>>, compact |-> FALSE, persisted |-> 0, rewrite |-> FALSE]
  BY DEF NewSession, Session
<1>2. <<>> \in Seq(Entries) /\ <<>> \in Seq(Lines) /\ Len(<<>>) = 0
  BY EmptySeq
<1>3. StorageTypes
  BY <1>1, <1>2, BoundsAssumption
     DEF StorageTypes, Sessions, NoFile, NoMeta, Content, Contents
<1>4. Counted
  <2>1. conversationMessageCount(<<>>) = 0
    BY OnlyEmpty DEF conversationMessageCount, Conversation
  <2>2. QED BY <1>1, <2>1 DEF Counted, NoMeta
<1>5. SaveFollows
  BY DEF SaveFollows
<1>6. FileWhole
  <2>1. file.lines = ContentLines(<<>>, FALSE) /\ ~file.torn /\ ~meta.present
    BY DEF ContentLines, NoFile, NoMeta
  <2>2. Loaded(file) = [entries |-> <<>>, compact |-> FALSE]
    BY <1>2, <2>1, ContentLoads
  <2>3. Upto(file.lines, mem, Done, versions)
    <3>1. SubSeq(mem.entries, 1, 0) = <<>>
      BY SubSeqEmpty
    <3>2. mem.entries = <<>> /\ mem.compact = FALSE /\ mem.persisted = 0 /\ Done = 0
      BY <1>1 DEF Done
    <3>3. Len(mem.entries) = 0
      BY <1>2, <3>2
    <3>4. file.lines = ContentLines(SubSeq(mem.entries, 1, 0), mem.compact)
      BY <2>1, <3>1, <3>2, Zenon
    <3>5. ~ \E j \in 0 + 1 .. Len(mem.entries) : TRUE
      BY <3>3
    <3>6. Upto(file.lines, mem, 0, versions)
      BY <3>4, <3>5 DEF Upto
    <3>7. QED BY <3>2, <3>6, Zenon
  <2>4. file.lines = ContentLines(Loaded(file).entries, Loaded(file).compact)
    <3>1. Loaded(file).entries = <<>> /\ Loaded(file).compact = FALSE
      BY <2>2
    <3>2. QED BY <2>1, <3>1, Zenon
  <2>5. QED BY <2>1, <2>3, <2>4 DEF FileWhole
<1>7. QED BY <1>3, <1>4, <1>5, <1>6 DEF StorageInv

(* What is a version stays one when versions are added. *)
LEMMA UptoWider ==
  ASSUME NEW lines, NEW m, NEW n, NEW vs, NEW ws, vs \subseteq ws, Upto(lines, m, n, vs)
  PROVE  Upto(lines, m, n, ws)
BY DEF Upto

LEMMA BeginKeeps ==
  ASSUME StorageInv, NEW m \in Sessions, NEW how \in {"save", "rewrite"}, Begin(m, how),
         made' \in made .. MaxEntries, m.persisted <= Len(m.entries),
         conversationMessageCount(m.entries) <= made',
         broken = {} /\ m.rewrite = FALSE /\ how = "save" =>
           Upto(file.lines, m, m.persisted, versions \cup {Content(m)})
  PROVE  StorageInv'
<1> USE DEF Begin, disk
<1>1. StorageTypes /\ Counted /\ SaveFollows /\ FileWhole
  BY DEF StorageInv
<1>2. Content(m) \in Contents
  BY DEF Content, Contents, Sessions
<1>3. StorageTypes'
  BY <1>1, <1>2 DEF StorageTypes
<1>4. Counted'
  BY <1>1 DEF Counted, StorageTypes
<1>5. SaveFollows'
  BY DEF SaveFollows
<1>6. FileWhole'
  <2> SUFFICES ASSUME broken = {}
               PROVE  /\ ~file.torn
                      /\ file.lines = ContentLines(Loaded(file).entries, Loaded(file).compact)
                      /\ meta.present => Loaded(file) \in versions'
                      /\ ~m.rewrite /\ how \in {"idle", "save", "append", "meta"} =>
                           Upto(file.lines, m, Done', versions')
    BY DEF FileWhole
  <2>1. Done' = m.persisted
    BY DEF Done
  <2>2. versions' = versions \cup {Content(m)}
    OBVIOUS
  <2>3. m.rewrite \in BOOLEAN
    BY DEF Sessions
  <2>4. ~m.rewrite /\ how \in {"idle", "save", "append", "meta"} =>
          Upto(file.lines, m, Done', versions')
    <3> SUFFICES ASSUME ~m.rewrite, how = "save" PROVE Upto(file.lines, m, Done', versions')
      OBVIOUS
    <3>1. Upto(file.lines, m, m.persisted, versions \cup {Content(m)})
      BY <2>3
    <3>2. QED BY <2>1, <2>2, <3>1
  <2>5. QED BY <1>1, <2>2, <2>4 DEF FileWhole
<1>7. QED BY <1>3, <1>4, <1>5, <1>6 DEF StorageInv

(* An entry added at the end: the file is continued by it as by the others. *)
LEMMA AddEntryKeeps == ASSUME StorageInv, AddEntry PROVE StorageInv'
<1>1. PICK k \in Kinds :
        Begin([mem EXCEPT !.entries = Append(@, Entry(made + 1, k))], "save")
  BY DEF AddEntry
<1>2. made' = made + 1 /\ made < MaxEntries /\ made \in Nat /\ MaxEntries \in Nat /\ pc = "idle"
  BY <1>1, BoundsAssumption DEF AddEntry, MakeEntry, StorageInv, StorageTypes, Begin
<1>3. PICK e : e = Entry(made + 1, k) /\ e \in Entries
  <2>1. Entry(made + 1, k) \in Entries
    BY <1>2 DEF Entries, Entry
  <2>2. QED BY <2>1
<1>4. PICK es, c, p, r : mem = [entries |-> es, compact |-> c, persisted |-> p, rewrite |-> r]
                         /\ es \in Seq(Entries) /\ c \in BOOLEAN /\ p \in Nat /\ r \in BOOLEAN
                         /\ p <= Len(es)
  BY DEF StorageInv, StorageTypes, Sessions
<1>5. PICK fs : fs = Append(es, e) /\ fs \in Seq(Entries) /\ Len(fs) = Len(es) + 1
  <2>1. Append(es, e) \in Seq(Entries) /\ Len(Append(es, e)) = Len(es) + 1
    BY <1>3, <1>4
  <2>2. QED BY <2>1
<1>6. PICK m : m = [entries |-> fs, compact |-> c, persisted |-> p, rewrite |-> r]
  OBVIOUS
<1>7. [mem EXCEPT !.entries = Append(@, Entry(made + 1, k))] = m
  <2>1. mem \in Sessions /\ mem.entries = es /\ mem.compact = c /\ mem.persisted = p /\ mem.rewrite = r
    BY <1>4 DEF StorageInv, StorageTypes
  <2>2. [mem EXCEPT !.entries = fs]
          = [entries |-> fs, compact |-> mem.compact, persisted |-> mem.persisted, rewrite |-> mem.rewrite]
    BY <2>1 DEF Sessions
  <2>3. Append(mem.entries, Entry(made + 1, k)) = fs
    BY <1>3, <1>5, <2>1
  <2>4. QED BY <1>6, <2>1, <2>2, <2>3
<1>8. Begin(m, "save") /\ m \in Sessions
  BY <1>1, <1>4, <1>5, <1>6, <1>7 DEF Sessions
<1>9. m.persisted <= Len(m.entries)
  BY <1>4, <1>5, <1>6
<1>10. conversationMessageCount(m.entries) <= made'
  <2>1. conversationMessageCount(es) <= made
    BY <1>4 DEF StorageInv, Counted
  <2>2. conversationMessageCount(fs) <= conversationMessageCount(es) + 1
    BY <1>3, <1>4, <1>5, CountAppend
  <2>3. conversationMessageCount(fs) \in Nat /\ conversationMessageCount(es) \in Nat
    BY <1>4, <1>5, CountType
  <2>4. QED BY <1>2, <1>6, <2>1, <2>2, <2>3
<1>11. broken = {} /\ m.rewrite = FALSE => Upto(file.lines, m, m.persisted, versions \cup {Content(m)})
  <2> SUFFICES ASSUME broken = {}, m.rewrite = FALSE
               PROVE  Upto(file.lines, m, p, versions \cup {Content(m)})
    BY <1>6
  <2>1. Upto(file.lines, mem, p, versions)
    BY <1>2, <1>4, <1>6 DEF StorageInv, FileWhole, Done
  <2>2. file.lines = ContentLines(SubSeq(es, 1, p), c)
        /\ \A j \in p + 1 .. Len(es) : [entries |-> SubSeq(es, 1, j), compact |-> c] \in versions
    BY <1>4, <2>1 DEF Upto
  <2>3. \A j \in 0 .. Len(es) : SubSeq(fs, 1, j) = SubSeq(es, 1, j)
    <3> SUFFICES ASSUME NEW j \in 0 .. Len(es) PROVE SubSeq(fs, 1, j) = SubSeq(es, 1, j)
      OBVIOUS
    <3>1. CutSame(fs, es, j)
      BY <1>3, <1>4, <1>5 DEF CutSame
    <3>2. QED BY <1>4, <1>5, <3>1, CutIsSame
  <2>4. SubSeq(fs, 1, Len(fs)) = fs
    BY <1>5, SubSeqFull
  <2>5. file.lines = ContentLines(SubSeq(fs, 1, p), c)
    <3>1. p \in 0 .. Len(es)
      BY <1>4
    <3>2. SubSeq(fs, 1, p) = SubSeq(es, 1, p)
      BY <2>3, <3>1
    <3>3. QED BY <2>2, <3>2, Zenon
  <2>6. ASSUME NEW j \in p + 1 .. Len(fs)
        PROVE  [entries |-> SubSeq(fs, 1, j), compact |-> c] \in versions \cup {Content(m)}
    <3>1. CASE j = Len(fs)
      BY <1>6, <2>4, <3>1 DEF Content
    <3>2. CASE j # Len(fs)
      <4>1. j \in p + 1 .. Len(es) /\ j \in 0 .. Len(es)
        BY <1>4, <1>5, <3>2
      <4>2. QED BY <2>2, <2>3, <4>1
    <3>3. QED BY <3>1, <3>2
  <2>7. QED BY <1>6, <2>5, <2>6 DEF Upto
<1>12. made' \in made .. MaxEntries
  BY <1>2
<1>13. QED BY <1>8, <1>9, <1>10, <1>11, <1>12, BeginKeeps

LEMMA SaveAgainKeeps == ASSUME StorageInv, SaveAgain PROVE StorageInv'
<1>1. Begin(mem, "save") /\ made' = made /\ pc = "idle" /\ mem \in Sessions
      /\ made' \in made .. MaxEntries /\ mem.persisted <= Len(mem.entries)
  BY DEF SaveAgain, StorageInv, StorageTypes, Begin
<1>2. conversationMessageCount(mem.entries) <= made'
  BY <1>1 DEF StorageInv, Counted
<1>3. broken = {} /\ mem.rewrite = FALSE =>
        Upto(file.lines, mem, mem.persisted, versions \cup {Content(mem)})
  <2> SUFFICES ASSUME broken = {}, mem.rewrite = FALSE
               PROVE  Upto(file.lines, mem, mem.persisted, versions \cup {Content(mem)})
    OBVIOUS
  <2>1. Upto(file.lines, mem, mem.persisted, versions)
    BY <1>1 DEF StorageInv, FileWhole, Done
  <2>2. QED BY <2>1, UptoWider
<1>4. QED BY <1>1, <1>2, <1>3, BeginKeeps

(* A session replaced as a whole requires a rewrite. *)
LEMMA ReplaceKeeps ==
  ASSUME StorageInv, NEW msgs \in Seq(Entries), NEW items \in BOOLEAN,
         ReplaceMessagesFromAPI(msgs, items), made' \in made .. MaxEntries,
         conversationMessageCount(msgs) <= made'
  PROVE  StorageInv'
<1>1. PICK m : m = [entries |-> msgs, persisted |-> 0, rewrite |-> TRUE, compact |-> items]
  OBVIOUS
<1>2. m \in Sessions /\ m.persisted <= Len(m.entries) /\ m.rewrite = TRUE /\ m.entries = msgs
  BY <1>1, LenProperties DEF Sessions
<1>3. Begin(m, "rewrite")
  BY <1>1 DEF ReplaceMessagesFromAPI
<1>4. QED BY <1>2, <1>3, BeginKeeps

LEMMA CompressKeeps == ASSUME StorageInv, Compress PROVE StorageInv'
<1>1. mem.entries \in Seq(Entries) /\ mem.compact \in BOOLEAN /\ made \in 0 .. MaxEntries
      /\ conversationMessageCount(mem.entries) <= made /\ MaxEntries \in Nat
  BY BoundsAssumption DEF StorageInv, StorageTypes, Sessions, Counted
<1>2. CASE ReplaceMessagesFromAPI(<<>>, TRUE) /\ UNCHANGED made
  <2>1. conversationMessageCount(<<>>) = 0
    BY OnlyEmpty DEF conversationMessageCount, Conversation
  <2>2. made' \in made .. MaxEntries /\ conversationMessageCount(<<>>) <= made' /\ <<>> \in Seq(Entries)
    BY <1>1, <1>2, <2>1
  <2>3. QED BY <1>2, <2>2, ReplaceKeeps
<1>3. ASSUME MakeEntry, NEW k \in 1 .. Len(Conversation(mem.entries)),
             ReplaceMessagesFromAPI(
               <<Entry(made + 1, "msg")>> \o
                 SubSeq(Conversation(mem.entries), k + 1, Len(Conversation(mem.entries))),
               mem.compact)
      PROVE  StorageInv'
  <2>1. made' = made + 1 /\ made < MaxEntries /\ made' \in made .. MaxEntries
    BY <1>1, <1>3 DEF MakeEntry
  <2>2. PICK cs : cs = Conversation(mem.entries) /\ cs \in Seq(Entries) /\ Len(cs) <= made /\ k \in 1 .. Len(cs)
    BY <1>1, <1>3, OnlySeq DEF Conversation, conversationMessageCount
  <2>3. PICK hd : hd = <<Entry(made + 1, "msg")>> /\ hd \in Seq(Entries) /\ Len(hd) = 1
    <3>1. Entry(made + 1, "msg") \in Entries
      BY <1>1, <2>1 DEF Entries, Kinds, Entry
    <3>2. <<Entry(made + 1, "msg")>> \in Seq(Entries) /\ Len(<<Entry(made + 1, "msg")>>) = 1
      BY <3>1
    <3>3. QED BY <3>2
  <2>4. PICK rest : rest = SubSeq(cs, k + 1, Len(cs)) /\ rest \in Seq(Entries) /\ Len(rest) = Len(cs) - k
    <3>1. ASSUME NEW u, u = SubSeq(cs, k + 1, Len(cs)) PROVE u \in Seq(Entries) /\ Len(u) = Len(cs) - k
      BY <2>2, <3>1
    <3>2. QED BY <3>1
  <2>5. PICK ms : ms = hd \o rest /\ ms \in Seq(Entries) /\ Len(ms) = 1 + (Len(cs) - k)
    <3>1. hd \o rest \in Seq(Entries) /\ Len(hd \o rest) = Len(hd) + Len(rest)
      BY <2>3, <2>4, ConcatProperties
    <3>2. Len(hd) + Len(rest) = 1 + (Len(cs) - k)
      BY <2>3, <2>4
    <3>3. QED BY <3>1, <3>2
  <2>6. Len(ms) <= made' /\ Len(ms) \in Nat
    BY <1>1, <2>1, <2>2, <2>5, LenProperties
  <2>7. conversationMessageCount(ms) <= Len(ms) /\ conversationMessageCount(ms) \in Nat
    BY <2>5, CountLen, CountType
  <2>8. ReplaceMessagesFromAPI(ms, mem.compact)
    BY <1>3, <2>2, <2>3, <2>4, <2>5
  <2>9. conversationMessageCount(ms) <= made'
    BY <1>1, <2>1, <2>6, <2>7
  <2>10. QED BY <1>1, <2>1, <2>5, <2>8, <2>9, ReplaceKeeps
<1>4. QED BY <1>2, <1>3 DEF Compress

LEMMA ResetKeeps == ASSUME StorageInv, ResetConversation PROVE StorageInv'
<1>1. made \in 0 .. MaxEntries
  BY DEF StorageInv, StorageTypes
<1>2. conversationMessageCount(<<>>) = 0
  BY OnlyEmpty DEF conversationMessageCount, Conversation
<1>3. made' \in made .. MaxEntries /\ conversationMessageCount(<<>>) <= made' /\ <<>> \in Seq(Entries)
      /\ ReplaceMessagesFromAPI(<<>>, FALSE)
  <2>1. made' = made /\ ReplaceMessagesFromAPI(<<>>, FALSE)
    BY DEF ResetConversation
  <2>2. made' \in made .. MaxEntries /\ 0 <= made'
    BY <1>1, <2>1
  <2>3. QED BY <1>2, <2>1, <2>2, EmptySeq, Zenon
<1>4. QED BY <1>3, ReplaceKeeps

LEMMA SessionMarked ==
  ASSUME NEW m \in Sessions, NEW n
  PROVE  [m EXCEPT !.persisted = n, !.rewrite = FALSE]
           = [entries |-> m.entries, compact |-> m.compact, persisted |-> n, rewrite |-> FALSE]
<1>1. PICK b : b = [m EXCEPT !.persisted = n]
               /\ b = [entries |-> m.entries, compact |-> m.compact, persisted |-> n, rewrite |-> m.rewrite]
  <2>1. [m EXCEPT !.persisted = n]
          = [entries |-> m.entries, compact |-> m.compact, persisted |-> n, rewrite |-> m.rewrite]
    BY DEF Sessions
  <2>2. QED BY <2>1
<1>2. [b EXCEPT !.rewrite = FALSE]
        = [entries |-> m.entries, compact |-> m.compact, persisted |-> n, rewrite |-> FALSE]
  <2>1. ASSUME NEW a, NEW d, NEW e, NEW t, b = [entries |-> a, compact |-> d, persisted |-> n, rewrite |-> e]
        PROVE  [b EXCEPT !.rewrite = t] = [entries |-> a, compact |-> d, persisted |-> n, rewrite |-> t]
    BY <2>1
  <2>2. QED BY <1>1, <2>1, ZenonT(60)
<1>3. [m EXCEPT !.persisted = n, !.rewrite = FALSE]
        = [[m EXCEPT !.persisted = n] EXCEPT !.rewrite = FALSE]
  OBVIOUS
<1>4. QED BY <1>1, <1>2, <1>3, Zenon

LEMMA SessionTruncated ==
  ASSUME NEW m \in Sessions, NEW es, NEW n
  PROVE  [m EXCEPT !.entries = es, !.persisted = n, !.rewrite = TRUE]
           = [entries |-> es, compact |-> m.compact, persisted |-> n, rewrite |-> TRUE]
<1>1. PICK a : a = [m EXCEPT !.entries = es]
               /\ a = [entries |-> es, compact |-> m.compact, persisted |-> m.persisted, rewrite |-> m.rewrite]
  <2>1. [m EXCEPT !.entries = es]
          = [entries |-> es, compact |-> m.compact, persisted |-> m.persisted, rewrite |-> m.rewrite]
    BY DEF Sessions
  <2>2. QED BY <2>1
<1>2. PICK b : b = [a EXCEPT !.persisted = n]
               /\ b = [entries |-> es, compact |-> m.compact, persisted |-> n, rewrite |-> m.rewrite]
  <2>1. ASSUME NEW d, NEW e, a = [entries |-> es, compact |-> d, persisted |-> m.persisted, rewrite |-> e]
        PROVE  [a EXCEPT !.persisted = n] = [entries |-> es, compact |-> d, persisted |-> n, rewrite |-> e]
    BY <2>1
  <2>2. QED BY <1>1, <2>1
<1>3. [b EXCEPT !.rewrite = TRUE] = [entries |-> es, compact |-> m.compact, persisted |-> n, rewrite |-> TRUE]
  <2>1. ASSUME NEW d, NEW e, NEW t, b = [entries |-> es, compact |-> d, persisted |-> n, rewrite |-> e]
        PROVE  [b EXCEPT !.rewrite = t] = [entries |-> es, compact |-> d, persisted |-> n, rewrite |-> t]
    BY <2>1
  <2>2. QED BY <1>2, <2>1, ZenonT(60)
<1>4. [m EXCEPT !.entries = es, !.persisted = n, !.rewrite = TRUE]
        = [[[m EXCEPT !.entries = es] EXCEPT !.persisted = n] EXCEPT !.rewrite = TRUE]
  OBVIOUS
<1>5. QED BY <1>1, <1>2, <1>3, <1>4, Zenon

LEMMA TruncateKeeps == ASSUME StorageInv, TruncateMessages PROVE StorageInv'
<1>1. PICK n \in 0 .. Len(mem.entries) - 1 :
        Begin([mem EXCEPT !.entries = SubSeq(@, 1, n),
                          !.persisted = IF @ > n THEN n ELSE @,
                          !.rewrite = TRUE], "rewrite")
  BY DEF TruncateMessages
<1>2. PICK es, c, p, r : mem = [entries |-> es, compact |-> c, persisted |-> p, rewrite |-> r]
                         /\ es \in Seq(Entries) /\ c \in BOOLEAN /\ p \in Nat /\ r \in BOOLEAN
                         /\ p <= Len(es)
  BY DEF StorageInv, StorageTypes, Sessions
<1>3. n \in 0 .. Len(es) /\ n \in Nat
  BY <1>1, <1>2
<1>4. PICK fs : fs = SubSeq(es, 1, n) /\ fs \in Seq(Entries) /\ Len(fs) = n
  <2>1. ASSUME NEW u, u = SubSeq(es, 1, n) PROVE u \in Seq(Entries) /\ Len(u) = n
    BY <1>2, <1>3, <2>1
  <2>2. QED BY <2>1
<1>5. PICK q : q = (IF p > n THEN n ELSE p) /\ q \in Nat /\ q <= n
  BY <1>2, <1>3
<1>6. PICK m : m = [entries |-> fs, compact |-> c, persisted |-> q, rewrite |-> TRUE]
  OBVIOUS
<1>7. [mem EXCEPT !.entries = SubSeq(@, 1, n),
                  !.persisted = IF @ > n THEN n ELSE @,
                  !.rewrite = TRUE] = m
  <2>1. mem \in Sessions /\ mem.entries = es /\ mem.compact = c /\ mem.persisted = p
    BY <1>2 DEF StorageInv, StorageTypes
  <2>2. [mem EXCEPT !.entries = fs, !.persisted = q, !.rewrite = TRUE]
          = [entries |-> fs, compact |-> mem.compact, persisted |-> q, rewrite |-> TRUE]
    BY <2>1, SessionTruncated
  <2>3. SubSeq(mem.entries, 1, n) = fs /\ (IF mem.persisted > n THEN n ELSE mem.persisted) = q
    BY <1>4, <1>5, <2>1
  <2>4. QED BY <1>6, <2>1, <2>2, <2>3
<1>8. Begin(m, "rewrite") /\ m \in Sessions /\ m.persisted <= Len(m.entries) /\ m.rewrite = TRUE
  BY <1>1, <1>2, <1>4, <1>5, <1>6, <1>7 DEF Sessions
<1>9. made' \in made .. MaxEntries /\ made' = made /\ made \in Nat
  BY DEF TruncateMessages, StorageInv, StorageTypes
<1>10. conversationMessageCount(m.entries) <= made'
  <2>1. conversationMessageCount(es) <= made
    BY <1>2 DEF StorageInv, Counted
  <2>2. conversationMessageCount(SubSeq(es, 1, n)) <= conversationMessageCount(es)
    BY <1>2, <1>3, CountFront
  <2>3. conversationMessageCount(fs) \in Nat /\ conversationMessageCount(es) \in Nat
    BY <1>2, <1>4, CountType
  <2>4. QED BY <1>4, <1>6, <1>9, <2>1, <2>2, <2>3
<1>11. QED BY <1>8, <1>9, <1>10, BeginKeeps

LEMMA RepairKeeps == ASSUME StorageInv, RepairToolCall PROVE StorageInv'
<1>1. PICK i \in DOMAIN mem.entries :
        /\ isConversationMessageEntry(mem.entries[i])
        /\ Begin([mem EXCEPT !.entries[i] = Entry(made + 1, "msg")], "rewrite")
  BY DEF RepairToolCall
<1>2. PICK es, c, p, r : mem = [entries |-> es, compact |-> c, persisted |-> p, rewrite |-> r]
                         /\ es \in Seq(Entries) /\ c \in BOOLEAN /\ p \in Nat /\ r \in BOOLEAN
                         /\ p <= Len(es)
  BY DEF StorageInv, StorageTypes, Sessions
<1>3. made' = made + 1 /\ made < MaxEntries /\ made \in Nat /\ MaxEntries \in Nat
      /\ made' \in made .. MaxEntries
  BY BoundsAssumption, SMTT(30) DEF RepairToolCall, MakeEntry, StorageInv, StorageTypes
<1>4. PICK e : e = Entry(made + 1, "msg") /\ e \in Entries /\ isConversationMessageEntry(e)
  <2>1. Entry(made + 1, "msg") \in Entries /\ isConversationMessageEntry(Entry(made + 1, "msg"))
    BY <1>3 DEF Entries, Entry, Kinds, isConversationMessageEntry, ConversationEntries
  <2>2. QED BY <2>1
<1>5. i \in 1 .. Len(es) /\ isConversationMessageEntry(es[i])
  BY <1>1, <1>2
<1>6. PICK fs : fs = [es EXCEPT ![i] = e] /\ fs \in Seq(Entries) /\ Len(fs) = Len(es)
  <2>1. [es EXCEPT ![i] = e] \in Seq(Entries) /\ Len([es EXCEPT ![i] = e]) = Len(es)
    BY <1>2, <1>4, <1>5
  <2>2. QED BY <2>1
<1>7. PICK m : m = [entries |-> fs, compact |-> c, persisted |-> p, rewrite |-> r]
  OBVIOUS
<1>8. [mem EXCEPT !.entries[i] = Entry(made + 1, "msg")] = m
  <2>1. mem \in Sessions /\ mem.entries = es /\ mem.compact = c /\ mem.persisted = p /\ mem.rewrite = r
    BY <1>2 DEF StorageInv, StorageTypes
  <2>2. [mem EXCEPT !.entries = fs]
          = [entries |-> fs, compact |-> mem.compact, persisted |-> mem.persisted, rewrite |-> mem.rewrite]
    BY <2>1 DEF Sessions
  <2>3. [mem.entries EXCEPT ![i] = Entry(made + 1, "msg")] = fs
    BY <1>4, <1>6, <2>1
  <2>4. [mem EXCEPT !.entries[i] = Entry(made + 1, "msg")]
          = [mem EXCEPT !.entries = [mem.entries EXCEPT ![i] = Entry(made + 1, "msg")]]
    OBVIOUS
  <2>5. QED BY <1>7, <2>1, <2>2, <2>3, <2>4
<1>9. Begin(m, "rewrite") /\ m \in Sessions /\ m.persisted <= Len(m.entries)
  BY <1>1, <1>2, <1>6, <1>7, <1>8 DEF Sessions
<1>10. conversationMessageCount(m.entries) <= made'
  <2>1. conversationMessageCount(es) <= made
    BY <1>2 DEF StorageInv, Counted
  <2>2. conversationMessageCount([es EXCEPT ![i] = e]) = conversationMessageCount(es)
    BY <1>2, <1>4, <1>5, CountReplaced
  <2>3. conversationMessageCount(es) \in Nat
    BY <1>2, CountType
  <2>4. QED BY <1>3, <1>6, <1>7, <2>1, <2>2, <2>3
<1>11. QED BY <1>3, <1>9, <1>10, BeginKeeps

(* The file is replaced: it holds what the session does. *)
LEMMA RewriteKeeps == ASSUME StorageInv, Rewrite PROVE StorageInv'
<1>1. PICK es, c, p, r : mem = [entries |-> es, compact |-> c, persisted |-> p, rewrite |-> r]
                         /\ es \in Seq(Entries) /\ c \in BOOLEAN /\ p \in Nat /\ r \in BOOLEAN
                         /\ p <= Len(es)
  BY DEF StorageInv, StorageTypes, Sessions
<1>2. PICK n : n = Len(es) /\ n \in Nat
  BY <1>1
<1>3. mem' = [entries |-> es, compact |-> c, persisted |-> n, rewrite |-> FALSE]
  <2>1. mem \in Sessions /\ mem.entries = es /\ mem.compact = c
    BY <1>1 DEF Sessions
  <2>2. mem' = [mem EXCEPT !.persisted = n, !.rewrite = FALSE]
    BY <1>2, <2>1 DEF Rewrite, markPersisted
  <2>3. QED BY <2>1, <2>2, SessionMarked
<1>4. pc \in {"save", "rewrite", "append", "meta"} /\ pc' = "meta" /\ broken' = {}
      /\ meta' = meta /\ todo' = todo /\ made' = made /\ failures' = failures
      /\ outcome' = outcome /\ want' = want /\ versions' = versions
  BY DEF Rewrite, Rewriting
<1>5. /\ file' \in [present : BOOLEAN, lines : Seq(Lines), torn : BOOLEAN]
      /\ file'.lines = ContentLines(es, c) /\ ~file'.torn
      /\ ~file'.present => file'.lines = <<>>
  <2>1. storageEntries(mem) = ContentLines(es, c)
    BY <1>1 DEF storageEntries, ContentLines
  <2>2. ContentLines(es, c) \in Seq(Lines)
    <3>1. es \in Seq(Lines) /\ <<Header>> \in Seq(Lines)
      BY <1>1, SeqWidens DEF Lines
    <3>2. <<Header>> \o es \in Seq(Lines)
      BY <3>1, ConcatProperties
    <3>3. QED BY <3>1, <3>2 DEF ContentLines
  <2>3. PICK ls : ls = storageEntries(mem) /\ ls = ContentLines(es, c) /\ ls \in Seq(Lines)
    BY <2>1, <2>2
  <2>4. file' = IF ls = <<>> THEN NoFile ELSE [present |-> TRUE, lines |-> ls, torn |-> FALSE]
    BY <2>3 DEF Rewrite
  <2>5. CASE ls = <<>>
    BY <2>3, <2>4, <2>5 DEF NoFile
  <2>6. CASE ls # <<>>
    BY <2>3, <2>4, <2>6
  <2>7. QED BY <2>5, <2>6
<1>6. StorageTypes /\ Counted /\ SaveFollows
  BY DEF StorageInv
<1>7. StorageTypes'
  <2>1. mem' \in Sessions /\ mem'.persisted <= Len(mem'.entries)
    BY <1>1, <1>2, <1>3 DEF Sessions
  <2>2. pc # "append" /\ todo = <<>>
    BY <1>6 DEF Rewrite, Rewriting, StorageTypes
  <2>3. QED BY <1>4, <1>5, <1>6, <2>1, <2>2 DEF StorageTypes
<1>8. Counted'
  <2>1. mem'.entries = mem.entries
    BY <1>1, <1>3
  <2>2. QED BY <1>4, <1>6, <2>1 DEF Counted
<1>9. Content(mem') = Content(mem) /\ Content(mem') = [entries |-> es, compact |-> c]
  BY <1>1, <1>3 DEF Content
<1>10. SaveFollows'
  <2>1. outcome = "open" /\ want = Content(mem) /\ want \in versions
    BY <1>4, <1>6 DEF SaveFollows
  <2>2. mem'.persisted = Len(mem'.entries) /\ ~mem'.rewrite
    BY <1>2, <1>3
  <2>3. QED BY <1>4, <1>9, <2>1, <2>2 DEF SaveFollows
<1>11. FileWhole'
  <2>1. PICK f : f = file' /\ f.lines = ContentLines(es, c)
    BY <1>5
  <2>2. Loaded(f) = [entries |-> es, compact |-> c]
    BY <1>1, <2>1, ContentLoads
  <2>3. Loaded(file') \in versions'
    BY <1>4, <1>6, <1>9, <2>1, <2>2 DEF SaveFollows
  <2>4. file'.lines = ContentLines(Loaded(file').entries, Loaded(file').compact)
    <3>1. Loaded(f).entries = es /\ Loaded(f).compact = c
      BY <2>2
    <3>2. QED BY <2>1, <3>1, Zenon
  <2>5. Upto(file'.lines, mem', Done', versions')
    <3>1. Done' = n /\ mem'.entries = es /\ mem'.compact = c
      BY <1>3, <1>4 DEF Done
    <3>2. SubSeq(es, 1, n) = es
      BY <1>1, <1>2, SubSeqFull
    <3>3. file'.lines = ContentLines(SubSeq(mem'.entries, 1, n), mem'.compact)
      BY <1>5, <3>1, <3>2, Zenon
    <3>4. ~ \E j \in n + 1 .. Len(mem'.entries) : TRUE
      BY <1>2, <3>1
    <3>5. Upto(file'.lines, mem', n, versions')
      BY <3>3, <3>4 DEF Upto
    <3>6. QED BY <3>1, <3>5, Zenon
  <2>6. QED BY <1>5, <2>3, <2>4, <2>5 DEF FileWhole
<1>12. QED BY <1>7, <1>8, <1>10, <1>11 DEF StorageInv

(* A write failed and changed nothing on disk, while what is on disk could *)
(* be continued or is marked as broken.                                    *)
LEMMA FailKeeps ==
  ASSUME StorageInv, mem' = mem, file' = file, meta' = meta, made' = made,
         want' = want, versions' = versions,
         pc' = "idle", todo' = <<>>, outcome' = "failed", failures' \in 0 .. MaxFailures,
         broken' \subseteq {"append", "repair"}, broken \subseteq broken',
         broken' = {} /\ mem.rewrite = FALSE =>
           pc \in {"idle", "save", "append", "meta"} /\ Done = mem.persisted
  PROVE  StorageInv'
<1>1. StorageTypes /\ Counted /\ SaveFollows /\ FileWhole
  BY DEF StorageInv
<1>2. StorageTypes'
  BY <1>1, EmptySeq DEF StorageTypes
<1>3. Counted' /\ SaveFollows'
  BY <1>1 DEF Counted, SaveFollows
<1>4. FileWhole'
  <2> SUFFICES ASSUME broken' = {}
               PROVE  /\ ~file.torn
                      /\ file.lines = ContentLines(Loaded(file).entries, Loaded(file).compact)
                      /\ meta.present => Loaded(file) \in versions
                      /\ ~mem.rewrite => Upto(file.lines, mem, Done', versions)
    BY DEF FileWhole
  <2>1. Done' = mem.persisted /\ broken = {}
    BY DEF Done
  <2>2. ~mem.rewrite => Upto(file.lines, mem, Done', versions)
    <3>1. mem.rewrite \in BOOLEAN
      BY <1>1 DEF StorageTypes, Sessions
    <3>2. QED BY <1>1, <2>1, <3>1 DEF FileWhole
  <2>3. QED BY <1>1, <2>1, <2>2 DEF FileWhole
<1>5. QED BY <1>2, <1>3, <1>4 DEF StorageInv

LEMMA RewriteFailsKeeps == ASSUME StorageInv, RewriteFails PROVE StorageInv'
<1>1. /\ mem' = mem /\ file' = file /\ meta' = meta /\ made' = made
      /\ want' = want /\ versions' = versions
      /\ pc' = "idle" /\ todo' = <<>> /\ outcome' = "failed"
      /\ failures < MaxFailures /\ failures' = failures + 1
      /\ broken' = IF mem.rewrite THEN broken ELSE broken \cup {"repair"}
  BY DEF RewriteFails, Fail, MayFail
<1>2. failures' \in 0 .. MaxFailures /\ broken' \subseteq {"append", "repair"} /\ broken \subseteq broken'
  BY <1>1, BoundsAssumption DEF StorageInv, StorageTypes
<1>3. broken' = {} => mem.rewrite
  BY <1>1
<1>4. QED BY <1>1, <1>2, <1>3, FailKeeps

LEMMA OpenFailsKeeps == ASSUME StorageInv, OpenFails PROVE StorageInv'
<1>1. /\ mem' = mem /\ file' = file /\ meta' = meta /\ made' = made
      /\ want' = want /\ versions' = versions /\ broken' = broken
      /\ pc' = "idle" /\ todo' = <<>> /\ outcome' = "failed"
      /\ failures < MaxFailures /\ failures' = failures + 1 /\ pc = "save"
  BY DEF OpenFails, Fail, MayFail
<1>2. failures' \in 0 .. MaxFailures /\ broken' \subseteq {"append", "repair"} /\ Done = mem.persisted
  BY <1>1, BoundsAssumption DEF StorageInv, StorageTypes, Done
<1>3. QED BY <1>1, <1>2, FailKeeps

LEMMA MetadataFailsKeeps == ASSUME StorageInv, MetadataFails PROVE StorageInv'
<1>1. /\ mem' = mem /\ file' = file /\ meta' = meta /\ made' = made
      /\ want' = want /\ versions' = versions /\ broken' = broken
      /\ pc' = "idle" /\ todo' = todo /\ outcome' = "failed"
      /\ failures < MaxFailures /\ failures' = failures + 1 /\ pc = "meta"
  BY DEF MetadataFails, MayFail, disk
<1>2. failures' \in 0 .. MaxFailures /\ broken' \subseteq {"append", "repair"} /\ Done = mem.persisted
      /\ todo = <<>>
  BY <1>1, BoundsAssumption DEF StorageInv, StorageTypes, Done
<1>3. QED BY <1>1, <1>2, FailKeeps

(* What an append has yet to write. *)
LEMMA Unsaved ==
  ASSUME NEW es \in Seq(Entries), NEW p \in 0 .. Len(es), NEW u, u = SubSeq(es, p + 1, Len(es))
  PROVE  u \in Seq(Entries) /\ Len(u) = Len(es) - p /\ Len(es) \in Nat
<1>1. Len(es) \in Nat
  OBVIOUS
<1>2. QED BY <1>1

LEMMA SaveNothingKeeps == ASSUME StorageInv, SaveNothing PROVE StorageInv'
<1>1. /\ mem' = mem /\ file' = file /\ meta' = meta /\ made' = made /\ failures' = failures
      /\ want' = want /\ versions' = versions /\ broken' = broken /\ outcome' = outcome
      /\ pc = "save" /\ pc' = "meta" /\ todo' = todo /\ ~mem.rewrite /\ unsavedMessages(mem) = <<>>
  BY DEF SaveNothing, disk, ghosts
<1>2. StorageTypes /\ Counted /\ SaveFollows /\ FileWhole
  BY DEF StorageInv
<1>3. mem.persisted = Len(mem.entries)
  <2>1. mem.entries \in Seq(Entries) /\ mem.persisted \in 0 .. Len(mem.entries)
    BY <1>2 DEF StorageTypes, Sessions
  <2>2. PICK u : u = SubSeq(mem.entries, mem.persisted + 1, Len(mem.entries)) /\ Len(u) = 0
    BY <1>1, EmptySeq DEF unsavedMessages
  <2>3. Len(u) = Len(mem.entries) - mem.persisted /\ Len(mem.entries) \in Nat
    BY <2>1, <2>2, Unsaved
  <2>4. QED BY <2>1, <2>2, <2>3
<1>4. StorageTypes'
  BY <1>1, <1>2 DEF StorageTypes
<1>5. Counted' /\ SaveFollows'
  BY <1>1, <1>2, <1>3 DEF Counted, SaveFollows
<1>6. FileWhole'
  <2>1. Done' = Done
    BY <1>1 DEF Done
  <2>2. QED BY <1>1, <1>2, <2>1 DEF FileWhole
<1>7. QED BY <1>4, <1>5, <1>6 DEF StorageInv

LEMMA OpenForAppendKeeps == ASSUME StorageInv, OpenForAppend PROVE StorageInv'
<1>1. /\ mem' = mem /\ meta' = meta /\ made' = made /\ failures' = failures
      /\ want' = want /\ versions' = versions /\ broken' = broken /\ outcome' = outcome
      /\ pc = "save" /\ pc' = "append" /\ ~mem.rewrite
      /\ todo' = unsavedMessages(mem) /\ unsavedMessages(mem) # <<>>
      /\ file' = [file EXCEPT !.present = TRUE]
  BY DEF OpenForAppend, ghosts
<1>2. StorageTypes /\ Counted /\ SaveFollows /\ FileWhole
  BY DEF StorageInv
<1>3. mem.entries \in Seq(Entries) /\ mem.persisted \in 0 .. Len(mem.entries) /\ Len(mem.entries) \in Nat
  BY <1>2 DEF StorageTypes, Sessions
<1>4. todo' \in Seq(Entries) /\ Len(todo') = Len(mem.entries) - mem.persisted /\ todo' # <<>>
  <2>1. PICK u : u = SubSeq(mem.entries, mem.persisted + 1, Len(mem.entries)) /\ u = todo' /\ u # <<>>
    BY <1>1 DEF unsavedMessages
  <2>2. u \in Seq(Entries) /\ Len(u) = Len(mem.entries) - mem.persisted
    BY <1>3, <2>1, Unsaved
  <2>3. QED BY <2>1, <2>2
<1>5. Len(todo') \in 1 .. Len(mem.entries) - mem.persisted
      /\ Len(mem.entries) - Len(todo') = mem.persisted
  BY <1>3, <1>4, EmptySeq
<1>6. todo' = SubSeq(mem.entries, Len(mem.entries) - Len(todo') + 1, Len(mem.entries))
  BY <1>1, <1>5 DEF unsavedMessages
<1>7. /\ file' \in [present : BOOLEAN, lines : Seq(Lines), torn : BOOLEAN]
      /\ file'.present = TRUE /\ file'.lines = file.lines /\ file'.torn = file.torn
  BY <1>1, <1>2 DEF StorageTypes
<1>8. Loaded(file') = Loaded(file)
  BY <1>7, Zenon DEF Loaded, loadSessionMessages
<1>9. StorageTypes'
  BY <1>1, <1>2, <1>4, <1>7 DEF StorageTypes
<1>10. Counted'
  BY <1>1, <1>2 DEF Counted
<1>11. SaveFollows'
  BY <1>1, <1>2, <1>5, <1>6, <1>7 DEF SaveFollows
<1>12. FileWhole'
  <2>1. Done' = Done
    BY <1>1, <1>5 DEF Done
  <2>2. QED BY <1>1, <1>2, <1>7, <1>8, <2>1 DEF FileWhole
<1>13. QED BY <1>9, <1>10, <1>11, <1>12 DEF StorageInv

LEMMA AppendFailsKeeps == ASSUME StorageInv, AppendFails PROVE StorageInv'
<1>1. /\ mem' = mem /\ meta' = meta /\ made' = made /\ want' = want /\ versions' = versions
      /\ pc' = "idle" /\ todo' = <<>> /\ outcome' = "failed"
      /\ failures < MaxFailures /\ failures' = failures + 1 /\ pc = "append"
  BY DEF AppendFails, Fail, MayFail
<1>2. StorageTypes /\ Counted /\ SaveFollows /\ FileWhole
  BY DEF StorageInv
<1>3. failures' \in 0 .. MaxFailures
  BY <1>1, <1>2, BoundsAssumption DEF StorageTypes
<1>4. CASE /\ UNCHANGED file
           /\ broken' = IF todo = unsavedMessages(mem) THEN broken ELSE broken \cup {"append"}
  <2>1. broken' \subseteq {"append", "repair"} /\ broken \subseteq broken'
    BY <1>2, <1>4 DEF StorageTypes
  <2>2. ASSUME broken' = {} PROVE Done = mem.persisted
    <3>1. todo = unsavedMessages(mem)
      BY <1>4, <2>2
    <3>2. mem.entries \in Seq(Entries) /\ mem.persisted \in 0 .. Len(mem.entries)
      BY <1>2 DEF StorageTypes, Sessions
    <3>3. Len(todo) = Len(mem.entries) - mem.persisted /\ Len(mem.entries) \in Nat
      <4>1. PICK u : u = SubSeq(mem.entries, mem.persisted + 1, Len(mem.entries)) /\ u = todo
        BY <3>1 DEF unsavedMessages
      <4>2. QED BY <3>2, <4>1, Unsaved
    <3>4. QED BY <1>1, <3>2, <3>3 DEF Done
  <2>3. QED BY <1>1, <1>3, <1>4, <2>1, <2>2, FailKeeps
<1>5. CASE /\ ~file.torn
           /\ file' = [file EXCEPT !.lines = Append(@, Junk), !.torn = TRUE]
           /\ broken' = broken \cup {"append"}
  <2>1. /\ file' \in [present : BOOLEAN, lines : Seq(Lines), torn : BOOLEAN]
        /\ file'.lines = Append(file.lines, Junk) /\ file'.present = file.present
    <3>1. PICK b, ls, t : /\ file = [present |-> b, lines |-> ls, torn |-> t]
                          /\ b \in BOOLEAN /\ ls \in Seq(Lines)
      BY <1>2 DEF StorageTypes
    <3>2. Append(ls, Junk) \in Seq(Lines)
      BY <3>1, AppendProperties DEF Lines
    <3>3. file.lines = ls
      BY <3>1
    <3>4. file' = [[file EXCEPT !.lines = Append(ls, Junk)] EXCEPT !.torn = TRUE]
      BY <1>5, <3>3
    <3>5. PICK ks, d : ks = Append(ls, Junk) /\ d = TRUE
      OBVIOUS
    <3>6. file' = [[file EXCEPT !.lines = ks] EXCEPT !.torn = d]
      BY <3>4, <3>5
    <3>7. [file EXCEPT !.lines = ks] = [present |-> b, lines |-> ks, torn |-> t]
      BY <3>1
    <3>8. PICK g : g = [file EXCEPT !.lines = ks] /\ g = [present |-> b, lines |-> ks, torn |-> t]
      BY <3>7
    <3>9. [g EXCEPT !.torn = d] = [present |-> b, lines |-> ks, torn |-> d]
      <4>1. ASSUME NEW bb, NEW kk, NEW tt, NEW dd, g = [present |-> bb, lines |-> kk, torn |-> tt]
            PROVE  [g EXCEPT !.torn = dd] = [present |-> bb, lines |-> kk, torn |-> dd]
        BY <4>1
      <4>2. QED BY <3>8, <4>1, ZenonT(60)
    <3>10. file' = [present |-> b, lines |-> ks, torn |-> d]
      BY <3>6, <3>8, <3>9
    <3>11. file.present = b /\ d \in BOOLEAN /\ ks \in Seq(Lines)
      BY <3>1, <3>2, <3>5
    <3>12. QED BY <3>1, <3>3, <3>5, <3>10, <3>11
  <2>2. file'.lines # <<>> /\ file'.lines[Len(file'.lines)] = Junk
    <3>1. file.lines \in Seq(Lines) /\ Junk \in Lines
      BY <1>2 DEF StorageTypes, Lines
    <3>2. QED BY <2>1, <3>1, AppendProperties
  <2>3. file.present
    BY <1>1, <1>2 DEF SaveFollows
  <2>4. StorageTypes'
    BY <1>1, <1>2, <1>3, <1>5, <2>1, <2>2, <2>3, EmptySeq DEF StorageTypes
  <2>5. Counted' /\ SaveFollows'
    BY <1>1, <1>2 DEF Counted, SaveFollows
  <2>6. FileWhole'
    BY <1>5 DEF FileWhole
  <2>7. QED BY <2>4, <2>5, <2>6 DEF StorageInv
<1>6. QED BY <1>4, <1>5 DEF AppendFails

(* One more entry in the file: it is the next one of the session. *)
LEMMA FrontGrows ==
  ASSUME NEW es \in Seq(Entries), NEW d \in Nat, d < Len(es), NEW c \in BOOLEAN
  PROVE  ContentLines(SubSeq(es, 1, d + 1), c) = Append(ContentLines(SubSeq(es, 1, d), c), es[d + 1])
<1>1. PICK a : a = SubSeq(es, 1, d) /\ a \in Seq(Entries)
  <2>1. SubSeq(es, 1, d) \in Seq(Entries)
    OBVIOUS
  <2>2. QED BY <2>1
<1>2. SubSeq(es, 1, d + 1) = Append(a, es[d + 1])
  <2>1. SubSeq(es, 1, d + 1) = SubSeq(es, 1, d) \o <<es[d + 1]>>
    <3>1. d + 1 \in 1 .. Len(es) /\ 1 \in 1 .. Len(es) /\ 1 \in 1 .. (d + 1) + 1
      OBVIOUS
    <3>2. PICK n : n = d + 1 /\ n \in 1 .. Len(es) /\ 1 \in 1 .. n /\ n - 1 = d
      BY <3>1
    <3>3. SubSeq(es, 1, n) = SubSeq(es, 1, n - 1) \o <<es[n]>>
      BY <3>2, SubSeqRecursiveSecond
    <3>4. QED BY <3>2, <3>3
  <2>2. es[d + 1] \in Entries
    OBVIOUS
  <2>3. a \o <<es[d + 1]>> = Append(a, es[d + 1])
    BY <1>1, <2>2, AppendIsConcat
  <2>4. QED BY <1>1, <2>1, <2>3
<1>3. es[d + 1] \in Entries
  OBVIOUS
<1>4. PICK e : e = es[d + 1] /\ e \in Entries
  BY <1>3
<1>5. <<Header>> \o Append(a, e) = Append(<<Header>> \o a, e)
  <2>1. PICK hd : hd = <<Header>> /\ hd \in Seq(Lines) /\ a \in Seq(Lines) /\ e \in Lines
    <3>1. a \in Seq(Lines)
      BY <1>1, SeqWidens, Entries \subseteq Lines DEF Lines
    <3>2. <<Header>> \in Seq(Lines) /\ e \in Lines
      BY <1>4 DEF Lines
    <3>3. QED BY <3>1, <3>2
  <2>2. hd \o Append(a, e) = Append(hd \o a, e)
    BY <2>1, ConcatAppend
  <2>3. QED BY <2>1, <2>2
<1>6. QED BY <1>1, <1>2, <1>4, <1>5 DEF ContentLines

LEMMA AppendLineKeeps == ASSUME StorageInv, AppendLine PROVE StorageInv'
<1>1. /\ meta' = meta /\ made' = made /\ failures' = failures
      /\ want' = want /\ versions' = versions /\ broken' = broken /\ outcome' = outcome
      /\ pc = "append" /\ file' = Written(file, Head(todo)) /\ todo' = Tail(todo)
      /\ IF Len(todo) = 1 THEN mem' = markPersisted(mem) /\ pc' = "meta"
         ELSE mem' = mem /\ pc' = pc
  BY DEF AppendLine, ghosts
<1>2. StorageTypes /\ Counted /\ SaveFollows /\ FileWhole
  BY DEF StorageInv
<1>3. PICK es, c, p : mem = [entries |-> es, compact |-> c, persisted |-> p, rewrite |-> FALSE]
                      /\ es \in Seq(Entries) /\ c \in BOOLEAN /\ p \in Nat /\ p <= Len(es)
  <2>1. ~mem.rewrite
    BY <1>1, <1>2 DEF SaveFollows
  <2>2. mem \in Sessions /\ mem.persisted <= Len(mem.entries)
    BY <1>2 DEF StorageTypes
  <2>3. QED BY <2>1, <2>2 DEF Sessions
<1>4. PICK n, t : n = Len(es) /\ n \in Nat /\ t = Len(todo) /\ t \in 1 .. n - p
                  /\ todo = SubSeq(es, n - t + 1, n)
  <2>1. mem.entries = es /\ mem.persisted = p
    BY <1>3
  <2>2. Len(todo) \in 1 .. Len(es) - p /\ todo = SubSeq(es, Len(es) - Len(todo) + 1, Len(es))
    BY <1>1, <1>2, <2>1 DEF SaveFollows
  <2>3. Len(es) \in Nat
    BY <1>3
  <2>4. QED BY <2>2, <2>3
<1>5. PICK d : d = n - t /\ d \in Nat /\ d < n /\ p <= d /\ t = n - d
  BY <1>3, <1>4
<1>6. Head(todo) = es[d + 1] /\ Tail(todo) = SubSeq(es, (d + 1) + 1, n)
  <2>1. PICK m : m = d + 1 /\ m \in 1 .. Len(es) /\ n \in m .. Len(es)
    BY <1>4, <1>5
  <2>2. Head(SubSeq(es, m, n)) = es[m] /\ Tail(SubSeq(es, m, n)) = SubSeq(es, m + 1, n)
    BY <1>3, <2>1, HeadTailOfSubSeq
  <2>3. QED BY <1>4, <1>5, <2>1, <2>2
<1>7. todo' \in Seq(Entries) /\ Len(todo') = t - 1
  <2>1. todo \in Seq(Entries) /\ todo # <<>>
    BY <1>1, <1>2 DEF StorageTypes
  <2>2. QED BY <1>1, <1>4, <2>1, HeadTailProperties
<1>8. /\ mem' \in Sessions /\ mem'.persisted <= Len(mem'.entries)
      /\ mem'.entries = es /\ mem'.compact = c /\ mem'.rewrite = FALSE
      /\ t = 1 => mem'.persisted = n
      /\ t # 1 => mem'.persisted = p
  <2>1. CASE t = 1
    <3>1. mem \in Sessions /\ mem.entries = es /\ mem.compact = c
      BY <1>3 DEF Sessions
    <3>2. mem' = [mem EXCEPT !.persisted = n, !.rewrite = FALSE]
      BY <1>1, <1>4, <2>1, <3>1 DEF markPersisted
    <3>3. mem' = [entries |-> es, compact |-> c, persisted |-> n, rewrite |-> FALSE]
      BY <3>1, <3>2, SessionMarked
    <3>4. QED BY <1>3, <1>4, <2>1, <3>3 DEF Sessions
  <2>2. CASE t # 1
    <3>1. mem' = [entries |-> es, compact |-> c, persisted |-> p, rewrite |-> FALSE]
      BY <1>1, <1>3, <1>4, <2>2
    <3>2. QED BY <1>3, <2>2, <3>1 DEF Sessions
  <2>3. QED BY <2>1, <2>2
<1>9. PICK e : e = es[d + 1] /\ e \in Entries
  <2>1. es[d + 1] \in Entries
    BY <1>3, <1>4, <1>5
  <2>2. QED BY <2>1
<1>10. /\ file' \in [present : BOOLEAN, lines : Seq(Lines), torn : BOOLEAN]
       /\ file'.present = TRUE /\ ~file'.torn
       /\ ~file.torn => file'.lines = Append(file.lines, e)
  <2>1. file.present = TRUE /\ file \in [present : BOOLEAN, lines : Seq(Lines), torn : BOOLEAN]
    BY <1>1, <1>2 DEF SaveFollows, StorageTypes
  <2>2. e \in Lines /\ file.lines \in Seq(Lines)
    BY <1>9, <2>1 DEF Lines
  <2>3. PICK ls : ls = Append(file.lines, e) /\ ls \in Seq(Lines)
    <3>1. Append(file.lines, e) \in Seq(Lines)
      BY <2>2, AppendProperties
    <3>2. QED BY <3>1
  <2>4. CASE file.torn
    <3>1. file' = [file EXCEPT !.torn = FALSE]
      BY <1>1, <2>4 DEF Written
    <3>2. QED BY <2>1, <2>4, <3>1
  <2>5. CASE ~file.torn
    <3>1. file' = [file EXCEPT !.lines = ls]
      BY <1>1, <1>6, <1>9, <2>3, <2>5 DEF Written
    <3>2. QED BY <2>1, <2>3, <2>5, <3>1
  <2>6. QED BY <2>4, <2>5
<1>11. pc' = IF t = 1 THEN "meta" ELSE "append"
  BY <1>1, <1>4
<1>12. Done' = d + 1 /\ Done = d
  <2>1. Done = d
    BY <1>1, <1>3, <1>4, <1>5 DEF Done
  <2>2. Done' = d + 1
    <3>1. CASE t = 1
      <4>1. Done' = mem'.persisted
        BY <1>11, <3>1 DEF Done
      <4>2. mem'.persisted = n /\ n = d + 1
        <5>1. mem'.persisted = n
          BY <1>8, <3>1
        <5>2. n \in Nat /\ d = n - t
          BY <1>4, <1>5
        <5>3. QED BY <3>1, <5>1, <5>2
      <4>3. QED BY <4>1, <4>2
    <3>2. CASE t # 1
      BY <1>4, <1>5, <1>7, <1>8, <1>11, <3>2 DEF Done
    <3>3. QED BY <3>1, <3>2
  <2>3. QED BY <2>1, <2>2
<1>13. StorageTypes'
  <2>1. todo' # <<>> <=> pc' = "append"
    <3>1. Len(todo') = 0 <=> t = 1
      BY <1>4, <1>7
    <3>2. Len(todo') = 0 <=> todo' = <<>>
      BY <1>7, EmptySeq
    <3>3. QED BY <1>11, <3>1, <3>2
  <2>2. QED BY <1>1, <1>2, <1>7, <1>8, <1>10, <1>11, <2>1 DEF StorageTypes
<1>14. Counted'
  <2>1. mem'.entries = mem.entries
    BY <1>3, <1>8
  <2>2. QED BY <1>1, <1>2, <2>1 DEF Counted
<1>15. SaveFollows'
  <2>1. Content(mem') = Content(mem)
    BY <1>3, <1>8 DEF Content
  <2>2. outcome = "open" /\ want = Content(mem) /\ want \in versions
    BY <1>1, <1>2 DEF SaveFollows
  <2>3. pc' = "meta" => mem'.persisted = Len(mem'.entries)
    BY <1>4, <1>8, <1>11
  <2>4. pc' = "append" => /\ Len(todo') \in 1 .. Len(mem'.entries) - mem'.persisted
                          /\ todo' = SubSeq(mem'.entries, Len(mem'.entries) - Len(todo') + 1, Len(mem'.entries))
    <3> SUFFICES ASSUME t # 1
                 PROVE  /\ Len(todo') \in 1 .. Len(mem'.entries) - mem'.persisted
                        /\ todo' = SubSeq(mem'.entries, Len(mem'.entries) - Len(todo') + 1, Len(mem'.entries))
      BY <1>11
    <3>1. Len(mem'.entries) = n /\ mem'.persisted = p
      BY <1>4, <1>8
    <3>2. Len(todo') \in 1 .. n - p
      <4>1. t \in 1 .. n - p /\ t # 1 /\ Len(todo') = t - 1 /\ n \in Nat /\ p \in Nat
        BY <1>3, <1>4, <1>7
      <4>2. QED BY <4>1
    <3>3. n - Len(todo') + 1 = (d + 1) + 1
      BY <1>4, <1>5, <1>7
    <3>4. todo' = SubSeq(es, n - Len(todo') + 1, n)
      BY <1>1, <1>6, <3>3
    <3>5. QED BY <1>8, <3>1, <3>2, <3>4
  <2>5. QED BY <1>1, <1>8, <1>10, <1>11, <2>1, <2>2, <2>3, <2>4 DEF SaveFollows
<1>16. FileWhole'
  <2> SUFFICES ASSUME broken = {}
               PROVE  /\ ~file'.torn
                      /\ file'.lines = ContentLines(Loaded(file').entries, Loaded(file').compact)
                      /\ Loaded(file') \in versions
                      /\ Upto(file'.lines, mem', Done', versions)
    BY <1>1 DEF FileWhole
  <2>1. ~file.torn /\ Upto(file.lines, mem, d, versions)
    BY <1>1, <1>2, <1>3, <1>12 DEF FileWhole
  <2>2. /\ file.lines = ContentLines(SubSeq(es, 1, d), c)
        /\ \A j \in d + 1 .. n : [entries |-> SubSeq(es, 1, j), compact |-> c] \in versions
    BY <1>3, <1>4, <2>1 DEF Upto
  <2>3. PICK f : f = file' /\ f.lines = ContentLines(SubSeq(es, 1, d + 1), c)
    <3>1. ContentLines(SubSeq(es, 1, d + 1), c) = Append(ContentLines(SubSeq(es, 1, d), c), es[d + 1])
      BY <1>3, <1>4, <1>5, FrontGrows
    <3>2. file'.lines = Append(file.lines, es[d + 1])
      BY <1>9, <1>10, <2>1
    <3>3. QED BY <2>2, <3>1, <3>2
  <2>4. PICK fs : fs = SubSeq(es, 1, d + 1) /\ fs \in Seq(Entries)
    <3>1. SubSeq(es, 1, d + 1) \in Seq(Entries)
      BY <1>3, <1>4, <1>5
    <3>2. QED BY <3>1
  <2>5. f.lines = ContentLines(fs, c)
    BY <2>3, <2>4
  <2>6. Loaded(f) = [entries |-> fs, compact |-> c]
    BY <1>3, <2>4, <2>5, ContentLoads
  <2>7. Loaded(f) \in versions
    <3>1. d + 1 \in d + 1 .. n
      BY <1>4, <1>5
    <3>2. [entries |-> SubSeq(es, 1, d + 1), compact |-> c] \in versions
      BY <2>2, <3>1
    <3>3. QED BY <2>4, <2>6, <3>2, Zenon
  <2>8. f.lines = ContentLines(Loaded(f).entries, Loaded(f).compact)
    <3>1. Loaded(f).entries = fs /\ Loaded(f).compact = c
      BY <2>6
    <3>2. QED BY <2>5, <3>1, Zenon
  <2>9. Upto(file'.lines, mem', d + 1, versions)
    <3>1. \A j \in (d + 1) + 1 .. n : [entries |-> SubSeq(es, 1, j), compact |-> c] \in versions
      BY <1>4, <1>5, <2>2
    <3>2. QED BY <1>4, <1>8, <2>3, <3>1 DEF Upto
  <2>10. QED BY <1>10, <1>12, <2>3, <2>7, <2>8, <2>9
<1>17. QED BY <1>13, <1>14, <1>15, <1>16 DEF StorageInv

LEMMA SaveMetadataKeeps == ASSUME StorageInv, saveMetadata PROVE StorageInv'
<1>1. /\ mem' = mem /\ file' = file /\ todo' = todo /\ made' = made /\ failures' = failures
      /\ want' = want /\ broken' = broken /\ pc = "meta" /\ pc' = "idle"
      /\ outcome' = "ok" /\ versions' = {want}
      /\ meta' = [present |-> TRUE, count |-> conversationMessageCount(mem.entries), items |-> mem.compact]
  BY DEF saveMetadata
<1>2. StorageTypes /\ Counted /\ SaveFollows /\ FileWhole
  BY DEF StorageInv
<1>3. PICK es, c : mem = [entries |-> es, compact |-> c, persisted |-> Len(es), rewrite |-> FALSE]
                   /\ es \in Seq(Entries) /\ c \in BOOLEAN
  <2>1. ~mem.rewrite /\ mem.persisted = Len(mem.entries)
    BY <1>1, <1>2 DEF SaveFollows
  <2>2. mem \in Sessions
    BY <1>2 DEF StorageTypes
  <2>3. QED BY <2>1, <2>2 DEF Sessions
<1>4. want = [entries |-> es, compact |-> c]
  BY <1>1, <1>2, <1>3 DEF SaveFollows, Content
<1>5. meta' = [present |-> TRUE, count |-> conversationMessageCount(es), items |-> c]
      /\ conversationMessageCount(es) \in Nat /\ conversationMessageCount(es) <= made
  BY <1>1, <1>2, <1>3, CountType DEF Counted
<1>6. StorageTypes'
  BY <1>1, <1>2, <1>3, <1>5 DEF StorageTypes
<1>7. Counted'
  BY <1>1, <1>2, <1>3, <1>5 DEF Counted
<1>8. SaveFollows'
  BY <1>1, <1>4, <1>5 DEF SaveFollows
<1>9. FileWhole'
  <2> SUFFICES ASSUME broken = {}
               PROVE  /\ Loaded(file) = want
                      /\ Upto(file.lines, mem, Len(es), {want})
                      /\ Done' = Len(es) /\ Done = Len(es)
    BY <1>1, <1>2 DEF FileWhole
  <2>1. Done = Len(es) /\ Done' = Len(es)
    BY <1>1, <1>3 DEF Done
  <2>2. Upto(file.lines, mem, Len(es), versions)
    BY <1>1, <1>2, <1>3, <2>1 DEF FileWhole
  <2>3. file.lines = ContentLines(es, c)
    <3>1. file.lines = ContentLines(SubSeq(es, 1, Len(es)), c)
      BY <1>3, <2>2 DEF Upto
    <3>2. SubSeq(es, 1, Len(es)) = es
      BY <1>3, SubSeqFull
    <3>3. QED BY <3>1, <3>2, Zenon
  <2>4. Loaded(file) = want
    BY <1>3, <1>4, <2>3, ContentLoads
  <2>5. Upto(file.lines, mem, Len(es), {want})
    <3>1. Len(es) \in Nat /\ mem.entries = es
      BY <1>3
    <3>2. ~ \E j \in Len(es) + 1 .. Len(mem.entries) : TRUE
      BY <3>1
    <3>3. QED BY <2>2, <3>2 DEF Upto
  <2>6. QED BY <2>1, <2>4, <2>5
<1>10. QED BY <1>6, <1>7, <1>8, <1>9 DEF StorageInv

LEMMA StopKeeps == ASSUME StorageInv, Stop PROVE StorageInv'
<1>1. /\ file' = file /\ meta' = meta /\ made' = made /\ failures' = failures
      /\ outcome' = outcome /\ want' = want /\ versions' = versions /\ broken' = broken
      /\ pc' = "down" /\ todo' = <<>> /\ mem' = NewSession
  BY DEF Stop, disk, ghosts
<1>2. StorageTypes /\ Counted /\ SaveFollows /\ FileWhole
  BY DEF StorageInv
<1>3. NewSession = [entries |-> <<>>, compact |-> FALSE, persisted |-> 0, rewrite |-> FALSE]
  <2>1. Len(<<>>) = 0
    BY EmptySeq
  <2>2. QED BY <2>1 DEF NewSession, Session
<1>4. <<>> \in Seq(Entries) /\ Len(<<>>) = 0
  BY EmptySeq
<1>5. StorageTypes'
  <2>1. mem' \in Sessions /\ mem'.persisted <= Len(mem'.entries)
    BY <1>1, <1>3, <1>4 DEF Sessions
  <2>2. QED BY <1>1, <1>2, <1>4, <2>1 DEF StorageTypes
<1>6. Counted'
  <2>1. conversationMessageCount(<<>>) = 0 /\ mem'.entries = <<>>
    BY <1>1, <1>3, OnlyEmpty DEF conversationMessageCount, Conversation
  <2>2. made \in Nat
    BY <1>2 DEF StorageTypes
  <2>3. QED BY <1>1, <1>2, <2>1, <2>2, EmptySeq DEF Counted
<1>7. SaveFollows'
  BY <1>1, <1>2 DEF SaveFollows
<1>8. FileWhole'
  BY <1>1, <1>2 DEF FileWhole
<1>9. QED BY <1>5, <1>6, <1>7, <1>8 DEF StorageInv

LEMMA ResumeKeeps == ASSUME StorageInv, Resume PROVE StorageInv'
<1>1. /\ file' = file /\ meta' = meta /\ made' = made /\ failures' = failures /\ todo' = todo
      /\ outcome' = outcome /\ want' = want /\ versions' = versions /\ broken' = broken
      /\ pc = "down" /\ pc' = "idle" /\ mem' = Session(Loaded(file)) /\ Loads(file, meta)
  BY DEF Resume, disk, ghosts
<1>2. StorageTypes /\ Counted /\ SaveFollows /\ FileWhole
  BY DEF StorageInv
<1>3. PICK es, c : Loaded(file) = [entries |-> es, compact |-> c] /\ es \in Seq(Entries) /\ c \in BOOLEAN
  <2>1. Loaded(file) \in Contents
    BY <1>2, LoadedType DEF StorageTypes
  <2>2. QED BY <2>1 DEF Contents
<1>4. mem' = [entries |-> es, compact |-> c, persisted |-> Len(es), rewrite |-> FALSE]
  BY <1>1, <1>3 DEF Session
<1>5. StorageTypes'
  <2>1. mem' \in Sessions /\ mem'.persisted <= Len(mem'.entries)
    BY <1>3, <1>4 DEF Sessions
  <2>2. QED BY <1>1, <1>2, <2>1 DEF StorageTypes
<1>6. Counted'
  <2>1. conversationMessageCount(es) <= made
    <3>1. CASE file.present
      BY <1>1, <1>2, <1>3, <3>1 DEF Loads, validateLoadedConversationIntegrity, Counted
    <3>2. CASE ~file.present
      <4>1. file.lines = ContentLines(<<>>, FALSE)
        BY <1>2, <3>2 DEF StorageTypes, ContentLines
      <4>2. Loaded(file) = [entries |-> <<>>, compact |-> FALSE]
        BY <4>1, EmptySeq, ContentLoads
      <4>3. conversationMessageCount(es) = 0
        BY <1>3, <4>2, OnlyEmpty, EmptySeq DEF conversationMessageCount, Conversation
      <4>4. QED BY <1>2, <4>3 DEF StorageTypes
    <3>3. QED BY <3>1, <3>2
  <2>2. mem'.entries = es
    BY <1>4
  <2>3. QED BY <1>1, <1>2, <2>1, <2>2 DEF Counted
<1>7. SaveFollows'
  BY <1>1, <1>2 DEF SaveFollows
<1>8. FileWhole'
  <2> SUFFICES ASSUME broken = {} PROVE Upto(file.lines, mem', Done', versions)
    BY <1>1, <1>2 DEF FileWhole
  <2>1. file.lines = ContentLines(es, c)
    <3>1. Loaded(file).entries = es /\ Loaded(file).compact = c
      BY <1>3
    <3>2. file.lines = ContentLines(Loaded(file).entries, Loaded(file).compact)
      BY <1>2 DEF FileWhole
    <3>3. QED BY <3>1, <3>2, Zenon
  <2>2. Done' = Len(es) /\ mem'.entries = es /\ mem'.compact = c
    BY <1>1, <1>4 DEF Done
  <2>3. SubSeq(es, 1, Len(es)) = es
    BY <1>3, SubSeqFull
  <2>4. file.lines = ContentLines(SubSeq(mem'.entries, 1, Len(es)), mem'.compact)
    BY <2>1, <2>2, <2>3, Zenon
  <2>5. ~ \E j \in Len(es) + 1 .. Len(mem'.entries) : TRUE
    BY <1>3, <2>2
  <2>6. Upto(file.lines, mem', Len(es), versions)
    BY <2>4, <2>5 DEF Upto
  <2>7. QED BY <2>2, <2>6, Zenon
<1>9. QED BY <1>5, <1>6, <1>7, <1>8 DEF StorageInv

LEMMA NextKeepsStorage == ASSUME StorageInv, [Next]_vars PROVE StorageInv'
<1>1. CASE UNCHANGED vars
  <2>1. /\ mem' = mem /\ file' = file /\ meta' = meta /\ pc' = pc /\ todo' = todo /\ made' = made
        /\ failures' = failures /\ outcome' = outcome /\ want' = want /\ versions' = versions
        /\ broken' = broken
    BY <1>1 DEF vars
  <2>2. Done' = Done
    BY <2>1 DEF Done
  <2>3. QED BY <2>1, <2>2, ZenonT(60) DEF StorageInv, StorageTypes, Counted, SaveFollows, FileWhole
<1>2. CASE Next
  BY <1>2, AddEntryKeeps, SaveAgainKeeps, CompressKeeps, TruncateKeeps, ResetKeeps, RepairKeeps,
     RewriteKeeps, RewriteFailsKeeps, SaveNothingKeeps, OpenForAppendKeeps, OpenFailsKeeps,
     AppendLineKeeps, AppendFailsKeeps, SaveMetadataKeeps, MetadataFailsKeeps, StopKeeps, ResumeKeeps
     DEF Next
<1>3. QED BY <1>1, <1>2

(* What the invariant says of the properties. *)
LEMMA StorageInvImplies ==
  ASSUME StorageInv
  PROVE  TypeOK /\ SavedSessionLoads /\ NeverAMixture
<1>1. StorageTypes /\ Counted /\ SaveFollows /\ FileWhole
  BY DEF StorageInv
<1>2. TypeOK
  <2>1. Content(mem) \in Contents
    BY <1>1 DEF StorageTypes, Sessions, Content, Contents
  <2>2. mem.persisted \in 0 .. Len(mem.entries) /\ meta.count \in 0 .. MaxEntries
    BY <1>1, BoundsAssumption DEF StorageTypes, Sessions, Counted
  <2>3. mem.rewrite \in BOOLEAN
    BY <1>1 DEF StorageTypes, Sessions
  <2>4. QED BY <1>1, <2>1, <2>2, <2>3 DEF StorageTypes, TypeOK
<1>3. SavedSessionLoads
  <2> SUFFICES ASSUME outcome = "ok", broken = {}
               PROVE  Loads(file, meta) /\ Loaded(file) = want
    BY DEF SavedSessionLoads
  <2>1. Loaded(file) = want /\ meta.present
    BY <1>1 DEF SaveFollows, FileWhole
  <2>2. meta.count = conversationMessageCount(want.entries) /\ meta.items = want.compact
    BY <1>1 DEF SaveFollows
  <2>3. CASE file.present
    BY <2>1, <2>2, <2>3 DEF Loads, validateLoadedConversationIntegrity
  <2>4. CASE ~file.present
    <3>1. file.lines = ContentLines(<<>>, FALSE)
      BY <1>1, <2>4 DEF StorageTypes, ContentLines
    <3>2. want = [entries |-> <<>>, compact |-> FALSE]
      BY <2>1, <3>1, EmptySeq, ContentLoads
    <3>3. want.entries = <<>> /\ want.compact = FALSE
      BY <3>2
    <3>4. meta.count = 0 /\ meta.items = FALSE
      BY <2>2, <3>3, OnlyEmpty, EmptySeq DEF conversationMessageCount, Conversation
    <3>5. QED BY <2>1, <2>4, <3>4 DEF Loads, canLoadWithoutHistoryFile
  <2>5. QED BY <2>1, <2>3, <2>4
<1>4. NeverAMixture
  BY <1>1 DEF NeverAMixture, Loads, FileWhole
<1>5. QED BY <1>2, <1>3, <1>4

(* In every behaviour of the storage of a session (history/storage.go,     *)
(* history/storage_load.go) a save that returned no error can be resumed   *)
(* and is exactly what was saved, however many writes failed before it,    *)
(* unless an append broke off part-way or the rewrite of a repaired call   *)
(* failed and nothing replaced the file since.                             *)
THEOREM SavedSessionsLoad == Spec => []SavedSessionLoads
<1>1. StorageInv => SavedSessionLoads
  BY StorageInvImplies
<1>2. QED BY <1>1, InitStorage, NextKeepsStorage, PTL DEF Spec

(* At any moment, a load that succeeds returns a conversation the session  *)
(* had, at the last completed save or later: never a mixture of two        *)
(* (Session.markPersisted, Storage.Rewrite, Storage.Load).                 *)
THEOREM LoadsAreNoMixture == Spec => []NeverAMixture
<1>1. StorageInv => NeverAMixture
  BY StorageInvImplies
<1>2. QED BY <1>1, InitStorage, NextKeepsStorage, PTL DEF Spec

----------------------------------------------------------------------------
(* The three parts side by side. *)

(* Each part behaves as its own specification says. *)
LEMMA PartsBehave == PartSpec => CasesSpec /\ Spec /\ RcSpec
<1>1. PartInit => CasesInit /\ Init /\ RcInit
  BY DEF PartInit
<1>2. [PartNext]_partVars => [CasesNext]_casesVars /\ [Next]_vars /\ [RcNext]_rcVars
  BY DEF PartNext, partVars
<1>3. QED BY <1>1, <1>2, PTL DEF PartSpec, CasesSpec, Spec, RcSpec

(* Type correctness of the three parts in the specification the runs check. *)
THEOREM HistoryTypes == PartSpec => []HistoryTypeOK
<1>1. CasesInv => CasesTypeOK
  BY DEF CasesInv
<1>2. StorageInv => TypeOK
  BY StorageInvImplies
<1>3. Spec => []StorageInv
  BY InitStorage, NextKeepsStorage, PTL DEF Spec
<1>4. CasesTypeOK /\ TypeOK /\ RcTypeOK => HistoryTypeOK
  BY DEF HistoryTypeOK
<1>5. QED BY <1>1, <1>2, <1>3, <1>4, PartsBehave, CasesInvariant, RcTypeCorrect, PTL
=============================================================================
