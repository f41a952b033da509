---------------------------- MODULE SequenceFacts ----------------------------
(***************************************************************************)
(* Facts about numbers and sequences the other proofs rest on.  Induction  *)
(* is stated for sets instead of operators, which keeps it first-order;    *)
(* from it follow the facts about Only.                                    *)
(***************************************************************************)
EXTENDS Selection, FiniteSets, FiniteSetTheorems, SequenceTheorems, WellFoundedInduction, TLAPS

(* A finite set of integers that is not empty has a smallest element: the  *)
(* sets below an element are ordered by inclusion, which is well-founded   *)
(* on the subsets of a finite set.                                         *)
LEMMA SmallestExists ==
  ASSUME NEW S, S \subseteq Int, S # {}, IsFiniteSet(S)
  PROVE  \E i \in S : \A j \in S : i <= j
<1> DEFINE Down(i) == {j \in S : j <= i}
           Downs == {Down(i) : i \in S}
<1>1. Downs \subseteq FiniteSubsetsOf(S) /\ Downs # {}
  <2>1. \A i \in S : Down(i) \in SUBSET S
    OBVIOUS
  <2>2. \A T \in SUBSET S : IsFiniteSet(T)
    BY FS_Subset
  <2>3. Downs # {}
    OBVIOUS
  <2>4. QED BY <2>1, <2>2, <2>3 DEF FiniteSubsetsOf
<1>2. PICK D \in Downs : \A E \in Downs : <<E, D>> \notin StrictSubsetOrdering(S)
  BY <1>1, FS_StrictSubsetOrderingWellFounded, WFMin, Zenon
<1>3. PICK i \in S : D = Down(i)
  BY <1>2
<1>4. \A j \in S : i <= j
  <2> SUFFICES ASSUME NEW j \in S, j < i PROVE FALSE
    BY SMT
  <2>1. ASSUME NEW k \in S, k <= j PROVE k <= i
    BY <2>1
  <2>2. Down(j) \subseteq D
    BY <1>3, <2>1
  <2>5. i \in D /\ i \notin Down(j)
    BY <1>3, SMT
  <2>3. Down(j) \in Downs
    OBVIOUS
  <2>4. QED
    BY <1>2, <2>2, <2>3, <2>5, <1>1 DEF StrictSubsetOrdering
<1>5. QED BY <1>4

(* A bounded set of numbers has a largest element. *)
LEMMA LargestExists ==
  ASSUME NEW n \in Nat, NEW S, S \subseteq 0 .. n, S # {}
  PROVE  \E i \in S : \A j \in S : j <= i
<1> DEFINE Below == {m \in 0 .. n : \A j \in S : j <= m}
<1>1. n \in Below /\ Below \subseteq Int
  OBVIOUS
<1>2. IsFiniteSet(Below)
  BY FS_Interval, FS_Subset, 0 \in Int, n \in Int, Below \subseteq 0 .. n
<1>3. PICK i \in Below : \A j \in Below : i <= j
  BY <1>1, <1>2, SmallestExists
<1>4. i \in S
  <2> SUFFICES ASSUME i \notin S PROVE FALSE
    OBVIOUS
  <2>1. \A j \in S : j < i
    BY <1>3, SMT
  <2>2. PICK j \in S : j < i
    BY <2>1
  <2>4. i - 1 \in 0 .. n
    BY <2>2, <1>3, SMT
  <2>5. i - 1 \in Below
    BY <2>1, <2>4, SMT
  <2>3. QED BY <2>4, <2>5, <1>3, SMT
<1>5. QED BY <1>3, <1>4

(* Induction over the natural numbers. *)
LEMMA NatSetInduction ==
  ASSUME NEW S, 0 \in S, \A n \in Nat : n \in S => n + 1 \in S
  PROVE  \A n \in Nat : n \in S
<1> SUFFICES ASSUME NEW n \in Nat, n \notin S PROVE FALSE
  OBVIOUS
<1> DEFINE Missing == {m \in 0 .. n : m \notin S}
<1>1. n \in Missing /\ Missing \subseteq Int
  OBVIOUS
<1>2. IsFiniteSet(Missing)
  BY FS_Interval, FS_Subset, 0 \in Int, n \in Int, Missing \subseteq 0 .. n
<1>3. PICK m \in Missing : \A j \in Missing : m <= j
  BY <1>1, <1>2, SmallestExists
<1>4. m # 0 /\ m - 1 \in Nat
  BY <1>3, SMT
<1>5. m - 1 \in S
  BY <1>3, <1>4, SMT
<1>6. (m - 1) + 1 \in S
  BY <1>4, <1>5
<1>7. QED BY <1>3, <1>6, SMT

(* Induction over the sequences of a set: P is closed under Append. *)
LEMMA SeqSetInduction ==
  ASSUME NEW T, NEW P, <<>> \in P,
         \A s \in Seq(T) : s \in P => \A e \in T : Append(s, e) \in P
  PROVE  \A s \in Seq(T) : s \in P
<1> DEFINE S == {n \in Nat : \A s \in Seq(T) : Len(s) = n => s \in P}
<1>1. 0 \in S
  BY EmptySeq, SMT
<1>2. \A n \in Nat : n \in S => n + 1 \in S
  <2> SUFFICES ASSUME NEW n \in Nat, n \in S, NEW s \in Seq(T), Len(s) = n + 1
               PROVE  s \in P
    OBVIOUS
  <2>1. s # <<>>
    BY EmptySeq, SMT
  <2>2. PICK t \in Seq(T), e \in T : s = Append(t, e)
    BY <2>1, SequenceEmptyOrAppend
  <2>3. Len(t) = n
    BY <2>2, AppendProperties, LenProperties, SMT
  <2>4. QED BY <2>2, <2>3
<1> HIDE DEF S
<1>3. \A n \in Nat : n \in S
  BY <1>1, <1>2, NatSetInduction
<1>4. QED
  BY <1>3, LenProperties DEF S
-----------------------------------------------------------------------------
(* What Only computes. *)

(* The recursive definition inside Only. *)
Keeps(f, s, S) ==
  f = [k \in 0 .. Len(s) |->
         IF k = 0 THEN <<>>
         ELSE IF s[k] \in S THEN Append(f[k - 1], s[k]) ELSE f[k - 1]]

(* Some function meets it: one for n elements is extended to n + 1. *)
LEMMA KeepsExists ==
  ASSUME NEW T, NEW s \in Seq(T), NEW S
  PROVE  \E f : Keeps(f, s, S)
<1> DEFINE Body(f, k) == IF k = 0 THEN <<>>
                         ELSE IF s[k] \in S THEN Append(f[k - 1], s[k]) ELSE f[k - 1]
           Defined == {n \in Nat : \E f : f = [k \in 0 .. n |-> Body(f, k)]}
<1>1. 0 \in Defined
  <2> DEFINE f == [k \in 0 .. 0 |-> <<>>]
  <2>1. \A k \in 0 .. 0 : Body(f, k) = <<>>
    BY SMT
  <2>2. f = [k \in 0 .. 0 |-> Body(f, k)]
    BY <2>1, Zenon
  <2>3. QED BY <2>2
<1>2. \A n \in Nat : n \in Defined => n + 1 \in Defined
  <2> SUFFICES ASSUME NEW n \in Nat, n \in Defined PROVE n + 1 \in Defined
    OBVIOUS
  <2>1. PICK f : f = [k \in 0 .. n |-> Body(f, k)]
    OBVIOUS
  <2> DEFINE g == [k \in 0 .. n + 1 |-> Body(f, k)]
  <2>2. \A k \in 0 .. n : f[k] = Body(f, k)
    <3> HIDE DEF Body
    <3>1. QED BY <2>1
  <2>3. \A k \in 0 .. n : g[k] = f[k]
    <3> HIDE DEF Body
    <3>1. QED BY <2>2, SMT
  <2>4. \A k \in 0 .. n + 1 : Body(g, k) = Body(f, k)
    <3>1. ASSUME NEW k \in 0 .. n + 1, k # 0 PROVE g[k - 1] = f[k - 1]
      <4>1. k - 1 \in 0 .. n
        BY <3>1, SMT
      <4>2. QED BY <4>1, <2>3
    <3> HIDE DEF g
    <3>2. QED BY <3>1
  <2>5. g = [k \in 0 .. n + 1 |-> Body(g, k)]
    <3> HIDE DEF Body
    <3>1. QED BY <2>4, Zenon
  <2>6. QED BY <2>5, n + 1 \in Nat
<1> HIDE DEF Defined
<1>3. Len(s) \in Defined
  BY <1>1, <1>2, NatSetInduction, LenProperties
<1>4. QED BY <1>3 DEF Keeps, Defined

LEMMA OnlyIsKept ==
  ASSUME NEW T, NEW s \in Seq(T), NEW S
  PROVE  \E f : Keeps(f, s, S) /\ Only(s, S) = f[Len(s)]
<1> DEFINE kept == CHOOSE f : Keeps(f, s, S)
<1>1. Keeps(kept, s, S)
  BY KeepsExists
<1>2. Only(s, S) = kept[Len(s)]
  BY DEF Only, Keeps
<1>3. QED BY <1>1, <1>2

(* What is kept of a prefix does not depend on what follows. *)
LEMMA KeepsPrefix ==
  ASSUME NEW T, NEW s \in Seq(T), NEW t \in Seq(T), NEW S, NEW f, NEW g,
         Keeps(f, s, S), Keeps(g, t, S),
         Len(s) <= Len(t), \A i \in 1 .. Len(s) : s[i] = t[i]
  PROVE  \A k \in 0 .. Len(s) : f[k] = g[k]
<1> DEFINE Same == {k \in Nat : k <= Len(s) => f[k] = g[k]}
<1>0. Len(s) \in Nat /\ Len(t) \in Nat
  BY LenProperties
<1>1. 0 \in Same
  BY <1>0, SMT DEF Keeps
<1>2. \A k \in Nat : k \in Same => k + 1 \in Same
  <2> SUFFICES ASSUME NEW k \in Nat, k \in Same, k + 1 <= Len(s) PROVE f[k + 1] = g[k + 1]
    OBVIOUS
  <2>1. f[k] = g[k] /\ s[k + 1] = t[k + 1]
    BY <1>0, SMT
  <2>2. k + 1 \in 0 .. Len(s) /\ k + 1 \in 0 .. Len(t) /\ k + 1 # 0 /\ (k + 1) - 1 = k
    BY <1>0, SMT
  <2>3. f[k + 1] = IF s[k + 1] \in S THEN Append(f[k], s[k + 1]) ELSE f[k]
    BY <2>2 DEF Keeps
  <2>4. g[k + 1] = IF t[k + 1] \in S THEN Append(g[k], t[k + 1]) ELSE g[k]
    BY <2>2 DEF Keeps
  <2>5. QED BY <2>1, <2>3, <2>4
<1> HIDE DEF Same
<1>3. \A k \in Nat : k \in Same
  BY <1>1, <1>2, NatSetInduction
<1>4. QED BY <1>3, <1>0 DEF Same

LEMMA OnlyEmpty == ASSUME NEW S PROVE Only(<<>>, S) = <<>>
<1>1. <<>> \in Seq({}) /\ Len(<<>>) = 0
  BY EmptySeq
<1>2. PICK f : Keeps(f, <<>>, S) /\ Only(<<>>, S) = f[0]
  BY <1>1, OnlyIsKept
<1>3. QED BY <1>1, <1>2, SMT DEF Keeps

LEMMA OnlyAppend ==
  ASSUME NEW T, NEW s \in Seq(T), NEW e \in T, NEW S
  PROVE  Only(Append(s, e), S) = IF e \in S THEN Append(Only(s, S), e) ELSE Only(s, S)
<1> DEFINE t == Append(s, e)
           n == Len(s)
<1>1. t \in Seq(T) /\ Len(t) = n + 1 /\ n \in Nat /\ t[n + 1] = e
      /\ \A i \in 1 .. n : s[i] = t[i]
  BY AppendProperties, LenProperties
<1> HIDE DEF t
<1>2. PICK f : Keeps(f, s, S) /\ Only(s, S) = f[n]
  BY OnlyIsKept
<1>3. PICK g : Keeps(g, t, S) /\ Only(t, S) = g[n + 1]
  BY <1>1, OnlyIsKept
<1>4. f[n] = g[n]
  <2>1. n <= Len(t) /\ n \in 0 .. n
    BY <1>1, SMT
  <2>2. QED BY <1>1, <1>2, <1>3, <2>1, KeepsPrefix
<1>5. g[n + 1] = IF t[n + 1] \in S THEN Append(g[n], t[n + 1]) ELSE g[n]
  <2>1. n + 1 \in 0 .. Len(t) /\ n + 1 # 0 /\ (n + 1) - 1 = n
    BY <1>1, SMT
  <2>2. QED BY <2>1, <1>3 DEF Keeps
<1>6. QED BY <1>1, <1>2, <1>3, <1>4, <1>5 DEF t

(* It keeps elements of s that are in S. *)
LEMMA OnlyType ==
  ASSUME NEW T, NEW S
  PROVE  \A s \in Seq(T) : Only(s, S) \in Seq(T \cap S)
<1> DEFINE P == {s \in Seq(T) : Only(s, S) \in Seq(T \cap S)}
<1>1. <<>> \in P
  BY OnlyEmpty, EmptySeq
<1>2. \A s \in Seq(T) : s \in P => \A e \in T : Append(s, e) \in P
  <2> SUFFICES ASSUME NEW s \in Seq(T), s \in P, NEW e \in T PROVE Append(s, e) \in P
    OBVIOUS
  <2>1. Append(s, e) \in Seq(T)
    BY AppendProperties
  <2>2. Only(Append(s, e), S) = IF e \in S THEN Append(Only(s, S), e) ELSE Only(s, S)
    BY OnlyAppend
  <2>3. e \in S => Append(Only(s, S), e) \in Seq(T \cap S)
    BY AppendProperties
  <2>4. QED BY <2>1, <2>2, <2>3
<1> HIDE DEF P
<1>3. \A s \in Seq(T) : s \in P
  BY <1>1, <1>2, SeqSetInduction
<1>4. QED BY <1>3 DEF P

LEMMA OnlySeq == ASSUME NEW T, NEW s \in Seq(T), NEW S PROVE Only(s, S) \in Seq(T)
<1>1. Only(s, S) \in Seq(T \cap S)
  BY OnlyType
<1>2. T \cap S \subseteq T
  OBVIOUS
<1>3. QED BY <1>1, <1>2, SeqMonotonic

(* One more element behind two sequences. *)
LEMMA ConcatAppend ==
  ASSUME NEW T, NEW s \in Seq(T), NEW t \in Seq(T), NEW e \in T
  PROVE  s \o Append(t, e) = Append(s \o t, e)
<1>1. PICK u : u = <<e>> /\ u \in Seq(T)
  BY <<e>> \in Seq(T)
<1>2. Append(t, e) = t \o u
  BY <1>1, AppendIsConcat
<1>3. PICK v : v = s \o t /\ v \in Seq(T)
  BY s \o t \in Seq(T)
<1>4. Append(v, e) = v \o u
  BY <1>1, <1>3, AppendIsConcat
<1>5. s \o (t \o u) = (s \o t) \o u
  BY <1>1, ConcatAssociative
<1>6. QED BY <1>2, <1>3, <1>4, <1>5, Zenon

LEMMA OnlyConcat ==
  ASSUME NEW T, NEW S, NEW s \in Seq(T)
  PROVE  \A t \in Seq(T) : Only(s \o t, S) = Only(s, S) \o Only(t, S)
<1> DEFINE P == {t \in Seq(T) : Only(s \o t, S) = Only(s, S) \o Only(t, S)}
<1>0. Only(s, S) \in Seq(T \cap S)
  BY OnlyType
<1>1. <<>> \in P
  <2>1. s \o <<>> = s /\ Only(s, S) \o <<>> = Only(s, S)
    BY <1>0, ConcatEmptySeq
  <2>2. QED BY <2>1, OnlyEmpty, EmptySeq
<1>2. \A t \in Seq(T) : t \in P => \A e \in T : Append(t, e) \in P
  <2> SUFFICES ASSUME NEW t \in Seq(T), t \in P, NEW e \in T PROVE Append(t, e) \in P
    OBVIOUS
  <2>1. s \o Append(t, e) = Append(s \o t, e)
    BY ConcatAppend
  <2>2. s \o t \in Seq(T) /\ Append(t, e) \in Seq(T)
    BY ConcatProperties, AppendProperties
  <2>3. Only(Append(s \o t, e), S)
          = IF e \in S THEN Append(Only(s \o t, S), e) ELSE Only(s \o t, S)
    <3>1. s \o t \in Seq(T)
      BY ConcatProperties
    <3>2. \A r \in Seq(T) :
            Only(Append(r, e), S) = IF e \in S THEN Append(Only(r, S), e) ELSE Only(r, S)
      BY OnlyAppend
    <3>3. QED BY <3>1, <3>2
  <2>4. Only(Append(t, e), S) = IF e \in S THEN Append(Only(t, S), e) ELSE Only(t, S)
    BY OnlyAppend
  <2>5. Only(t, S) \in Seq(T) /\ Only(s, S) \in Seq(T)
    BY OnlySeq
  <2>6. Append(Only(s, S) \o Only(t, S), e) = Only(s, S) \o Append(Only(t, S), e)
    <3>1. \A a \in Seq(T) : \A b \in Seq(T) : a \o Append(b, e) = Append(a \o b, e)
      BY ConcatAppend
    <3>2. QED BY <2>5, <3>1
  <2>7. QED BY <2>1, <2>2, <2>3, <2>4, <2>6
<1> HIDE DEF P
<1>3. \A t \in Seq(T) : t \in P
  BY <1>1, <1>2, SeqSetInduction
<1>4. QED BY <1>3 DEF P

(* Selecting twice is selecting what is in both sets. *)
LEMMA OnlyTwice ==
  ASSUME NEW T, NEW A, NEW B
  PROVE  \A s \in Seq(T) : Only(Only(s, A), B) = Only(s, A \cap B)
<1> DEFINE P == {s \in Seq(T) : Only(Only(s, A), B) = Only(s, A \cap B)}
<1>1. <<>> \in P
  BY OnlyEmpty, EmptySeq
<1>2. \A s \in Seq(T) : s \in P => \A e \in T : Append(s, e) \in P
  <2> SUFFICES ASSUME NEW s \in Seq(T), s \in P, NEW e \in T PROVE Append(s, e) \in P
    OBVIOUS
  <2>1. Append(s, e) \in Seq(T)
    BY AppendProperties
  <2>2. Only(s, A) \in Seq(T)
    BY OnlySeq
  <2>3. Only(Append(Only(s, A), e), B)
          = IF e \in B THEN Append(Only(Only(s, A), B), e) ELSE Only(Only(s, A), B)
    <3>1. \A r \in Seq(T) :
            Only(Append(r, e), B) = IF e \in B THEN Append(Only(r, B), e) ELSE Only(r, B)
      BY OnlyAppend
    <3>2. QED BY <2>2, <3>1
  <2>4. Only(Append(s, e), A) = IF e \in A THEN Append(Only(s, A), e) ELSE Only(s, A)
    BY OnlyAppend
  <2>5. Only(Append(s, e), A \cap B)
          = IF e \in A \cap B THEN Append(Only(s, A \cap B), e) ELSE Only(s, A \cap B)
    BY OnlyAppend
  <2>6. Only(Only(s, A), B) = Only(s, A \cap B)
    OBVIOUS
  <2> HIDE DEF P
  <2>7. Only(Only(Append(s, e), A), B) = Only(Append(s, e), A \cap B)
    <3>1. CASE e \in A
      <4>1. e \in A \cap B <=> e \in B
        BY <3>1
      <4>2. QED BY <3>1, <4>1, <2>3, <2>4, <2>5, <2>6
    <3>2. CASE e \notin A
      <4>1. e \notin A \cap B
        BY <3>2
      <4>2. QED BY <3>2, <4>1, <2>4, <2>5, <2>6
    <3>3. QED BY <3>1, <3>2
  <2>8. QED BY <2>1, <2>7 DEF P
<1> HIDE DEF P
<1>3. \A s \in Seq(T) : s \in P
  BY <1>1, <1>2, SeqSetInduction
<1>4. QED BY <1>3 DEF P

(* Only what the two sets say of the elements of s matters. *)
LEMMA OnlySame ==
  ASSUME NEW T, NEW A, NEW B, T \cap A = T \cap B
  PROVE  \A s \in Seq(T) : Only(s, A) = Only(s, B)
<1> DEFINE P == {s \in Seq(T) : Only(s, A) = Only(s, B)}
<1>1. <<>> \in P
  BY OnlyEmpty, EmptySeq
<1>2. \A s \in Seq(T) : s \in P => \A e \in T : Append(s, e) \in P
  <2> SUFFICES ASSUME NEW s \in Seq(T), s \in P, NEW e \in T PROVE Append(s, e) \in P
    OBVIOUS
  <2>1. Append(s, e) \in Seq(T)
    BY AppendProperties
  <2>2. Only(Append(s, e), A) = IF e \in A THEN Append(Only(s, A), e) ELSE Only(s, A)
    BY OnlyAppend
  <2>3. Only(Append(s, e), B) = IF e \in B THEN Append(Only(s, B), e) ELSE Only(s, B)
    BY OnlyAppend
  <2>4. e \in A <=> e \in B
    OBVIOUS
  <2>5. QED BY <2>1, <2>2, <2>3, <2>4
<1> HIDE DEF P
<1>3. \A s \in Seq(T) : s \in P
  BY <1>1, <1>2, SeqSetInduction
<1>4. QED BY <1>3 DEF P

LEMMA OnlyAll ==
  ASSUME NEW T, NEW S, T \subseteq S
  PROVE  \A s \in Seq(T) : Only(s, S) = s
<1> DEFINE P == {s \in Seq(T) : Only(s, S) = s}
<1>1. <<>> \in P
  BY OnlyEmpty, EmptySeq
<1>2. \A s \in Seq(T) : s \in P => \A e \in T : Append(s, e) \in P
  BY OnlyAppend, AppendProperties
<1> HIDE DEF P
<1>3. \A s \in Seq(T) : s \in P
  BY <1>1, <1>2, SeqSetInduction
<1>4. QED BY <1>3 DEF P

LEMMA OnlyNone ==
  ASSUME NEW T, NEW S, T \cap S = {}
  PROVE  \A s \in Seq(T) : Only(s, S) = <<>>
<1>1. \A s \in Seq(T) : Only(s, S) = Only(s, {})
  BY OnlySame
<1>2. \A s \in Seq(T) : Only(s, {}) \in Seq({})
  BY OnlyType, T \cap {} = {}
<1>3. \A t \in Seq({}) : t = <<>>
  BY SMT
<1>4. QED BY <1>1, <1>2, <1>3

(* The elements of Only(s, S) are those of s that are in S. *)
LEMMA OnlyElements ==
  ASSUME NEW T, NEW S
  PROVE  \A s \in Seq(T) : \A e :
           (\E k \in 1 .. Len(Only(s, S)) : Only(s, S)[k] = e)
             <=> e \in S /\ \E i \in 1 .. Len(s) : s[i] = e
<1> DEFINE In(s, e) == \E i \in 1 .. Len(s) : s[i] = e
           P == {s \in Seq(T) : \A e : In(Only(s, S), e) <=> e \in S /\ In(s, e)}
<1>1. <<>> \in P
  BY OnlyEmpty, EmptySeq, SMT
<1>2. \A s \in Seq(T) : s \in P => \A d \in T : Append(s, d) \in P
  <2> SUFFICES ASSUME NEW s \in Seq(T), s \in P, NEW d \in T PROVE Append(s, d) \in P
    OBVIOUS
  <2>1. \A r \in Seq(T) : \A e : In(Append(r, d), e) <=> In(r, e) \/ e = d
    <3> SUFFICES ASSUME NEW r \in Seq(T), NEW e PROVE In(Append(r, d), e) <=> In(r, e) \/ e = d
      OBVIOUS
    <3>1. Len(Append(r, d)) = Len(r) + 1 /\ Len(r) \in Nat /\ Append(r, d)[Len(r) + 1] = d
          /\ \A i \in 1 .. Len(r) : Append(r, d)[i] = r[i]
      BY AppendProperties, LenProperties
    <3>2. QED BY <3>1, SMT
  <2>2. Only(s, S) \in Seq(T) /\ Append(s, d) \in Seq(T)
    BY OnlySeq, AppendProperties
  <2>3. Only(Append(s, d), S) = IF d \in S THEN Append(Only(s, S), d) ELSE Only(s, S)
    BY OnlyAppend
  <2> HIDE DEF In
  <2>4. \A e : In(Only(Append(s, d), S), e) <=> e \in S /\ In(Append(s, d), e)
    <3>1. CASE d \in S
      BY <3>1, <2>1, <2>2, <2>3
    <3>2. CASE d \notin S
      BY <3>2, <2>1, <2>2, <2>3
    <3>3. QED BY <3>1, <3>2
  <2>5. QED BY <2>2, <2>4
<1> HIDE DEF P, In
<1>3. \A s \in Seq(T) : s \in P
  BY <1>1, <1>2, SeqSetInduction
<1>4. QED BY <1>3 DEF P, In
LEMMA SeqWidens ==
  ASSUME NEW T, NEW U, T \subseteq U
  PROVE  \A s \in Seq(T) : s \in Seq(U)
OBVIOUS

(* A sequence is what it holds up to a point and what it holds after.      *)
LEMMA CutInTwo ==
  ASSUME NEW T, NEW s \in Seq(T), NEW n \in 0 .. Len(s)
  PROVE  /\ SubSeq(s, 1, n) \in Seq(T) /\ SubSeq(s, n + 1, Len(s)) \in Seq(T)
         /\ s = SubSeq(s, 1, n) \o SubSeq(s, n + 1, Len(s))
<1>1. SubSeq(s, 1, n) \in Seq(T) /\ SubSeq(s, n + 1, Len(s)) \in Seq(T) /\ Len(s) \in Nat
  OBVIOUS
<1>2. SubSeq(s, 1, Len(s)) = s
  BY SubSeqFull
<1>3. SubSeq(s, 1, n) \o SubSeq(s, n + 1, Len(s)) = SubSeq(s, 1, Len(s))
  <2>1. 1 \in 1 .. Len(s) + 1 /\ n \in 1 - 1 .. Len(s) /\ Len(s) \in n .. Len(s)
    BY <1>1
  <2>2. QED BY <2>1, ConcatAdjacentSubSeq, Zenon
<1>4. QED BY <1>1, <1>2, <1>3

(* Two sequences that differ at most in one place have the same around it. *)
SameBut(s, t, i) == Len(t) = Len(s) /\ \A j \in 1 .. Len(s) : j # i => t[j] = s[j]
Around(s, i, a, b) == s = Append(a, s[i]) \o b

LEMMA CutAround ==
  ASSUME NEW T, NEW s \in Seq(T), NEW t \in Seq(T), NEW i \in 1 .. Len(s), SameBut(s, t, i)
  PROVE  \E a, b : a \in Seq(T) /\ b \in Seq(T) /\ Around(s, i, a, b) /\ Around(t, i, a, b)
<1>0. PICK a, b : a = SubSeq(s, 1, i - 1) /\ b = SubSeq(s, i + 1, Len(s))
  OBVIOUS
<1>1. a \in Seq(T) /\ b \in Seq(T) /\ Len(s) \in Nat /\ i \in Nat /\ i <= Len(s)
  BY <1>0
<1>2. Len(a) = i - 1 /\ Len(b) = Len(s) - i
  BY <1>0
<1>3. \A j \in 1 .. i - 1 : a[j] = s[j]
  BY <1>0
<1>4. \A j \in 1 .. Len(s) - i : b[j] = s[i + j]
  BY <1>0
<1>5. ASSUME NEW x \in T, NEW r \in Seq(T), Len(r) = Len(s),
             \A j \in 1 .. Len(s) : r[j] = IF j = i THEN x ELSE s[j]
      PROVE  r = Append(a, x) \o b
  <2>1. Append(a, x) \in Seq(T) /\ Len(Append(a, x)) = i
    BY <1>1, <1>2
  <2>2. \A j \in 1 .. i : Append(a, x)[j] = IF j = i THEN x ELSE s[j]
    BY <1>1, <1>2, <1>3
  <2>3. PICK c : /\ c = Append(a, x) /\ c \in Seq(T) /\ Len(c) = i
                 /\ \A j \in 1 .. i : c[j] = IF j = i THEN x ELSE s[j]
    BY <2>1, <2>2
  <2>4. c \o b \in Seq(T) /\ Len(c \o b) = Len(c) + Len(b)
    BY <1>1, <2>3, ConcatProperties
  <2>5. Len(c \o b) = Len(r)
    <3>1. Len(c) = i /\ Len(r) = Len(s)
      BY <1>5, <2>3
    <3>2. i + (Len(s) - i) = Len(s)
      BY <1>1
    <3>3. QED BY <1>2, <2>4, <3>1, <3>2, Zenon
  <2>6. ASSUME NEW j \in 1 .. Len(r) PROVE r[j] = (c \o b)[j]
    <3>1. (c \o b)[j] = IF j <= Len(c) THEN c[j] ELSE b[j - Len(c)]
      <4>1. j \in 1 .. Len(c) + Len(b)
        BY <2>4, <2>5, Zenon
      <4>2. c \in Seq(T) /\ b \in Seq(T)
        BY <1>1, <2>3
      <4>3. QED BY <4>1, <4>2, ConcatProperties
    <3>2. j \in 1 .. Len(s) /\ j \in Nat /\ r[j] = IF j = i THEN x ELSE s[j]
      BY <1>5
    <3>3. CASE j <= i
      <4>1. j \in 1 .. i
        BY <3>2, <3>3
      <4>2. c[j] = IF j = i THEN x ELSE s[j]
        BY <2>3, <4>1
      <4>3. QED BY <2>3, <3>1, <3>2, <3>3, <4>2
    <3>4. CASE ~(j <= i)
      <4>1. j - i \in 1 .. Len(s) - i /\ i + (j - i) = j /\ j # i
        BY <1>1, <3>2, <3>4
      <4>2. b[j - i] = s[j]
        BY <1>4, <4>1
      <4>3. QED BY <2>3, <3>1, <3>2, <3>4, <4>1, <4>2
    <3>5. QED BY <3>3, <3>4
  <2>7. PICK d : d = c \o b /\ d \in Seq(T) /\ Len(d) = Len(r) /\ \A j \in 1 .. Len(r) : r[j] = d[j]
    BY <2>4, <2>5, <2>6
  <2>8. r = d
    BY <1>5, <2>7, SeqEqual
  <2>9. QED BY <2>3, <2>7, <2>8
<1>6. s[i] \in T /\ s = Append(a, s[i]) \o b
  <2>1. s[i] \in T /\ \A j \in 1 .. Len(s) : s[j] = IF j = i THEN s[i] ELSE s[j]
    OBVIOUS
  <2>2. PICK x : x = s[i] /\ x \in T /\ \A j \in 1 .. Len(s) : s[j] = IF j = i THEN x ELSE s[j]
    BY <2>1
  <2>3. s = Append(a, x) \o b
    BY <1>5, <2>2
  <2>4. QED BY <2>2, <2>3
<1>7. t = Append(a, t[i]) \o b
  <2>1. Len(t) = Len(s) /\ \A j \in 1 .. Len(s) : t[j] = IF j = i THEN t[i] ELSE s[j]
    BY DEF SameBut
  <2>2. t[i] \in T
    BY <2>1
  <2>3. PICK x : x = t[i] /\ x \in T /\ \A j \in 1 .. Len(s) : t[j] = IF j = i THEN x ELSE s[j]
    BY <2>1, <2>2
  <2>4. t = Append(a, x) \o b
    BY <1>5, <2>1, <2>3
  <2>5. QED BY <2>3, <2>4
<1>8. QED BY <1>1, <1>6, <1>7 DEF Around


(* Two sequences that agree up to a point have the same front.             *)
CutSame(s, t, n) == n <= Len(s) /\ n <= Len(t) /\ \A j \in 1 .. n : s[j] = t[j]

LEMMA CutIsSame ==
  ASSUME NEW T, NEW s \in Seq(T), NEW t \in Seq(T), NEW n \in Nat, CutSame(s, t, n)
  PROVE  SubSeq(s, 1, n) = SubSeq(t, 1, n)
<1>1. PICK a : a = SubSeq(s, 1, n) /\ a \in Seq(T) /\ Len(a) = n /\ \A j \in 1 .. n : a[j] = s[j]
  <2>1. n <= Len(s)
    BY DEF CutSame
  <2>2. ASSUME NEW u, u = SubSeq(s, 1, n)
        PROVE  u \in Seq(T) /\ Len(u) = n /\ \A j \in 1 .. n : u[j] = s[j]
    BY <2>1, <2>2
  <2>3. QED BY <2>2
<1>2. PICK b : b = SubSeq(t, 1, n) /\ b \in Seq(T) /\ Len(b) = n /\ \A j \in 1 .. n : b[j] = t[j]
  <2>1. n <= Len(t)
    BY DEF CutSame
  <2>2. ASSUME NEW u, u = SubSeq(t, 1, n)
        PROVE  u \in Seq(T) /\ Len(u) = n /\ \A j \in 1 .. n : u[j] = t[j]
    BY <2>1, <2>2
  <2>3. QED BY <2>2
<1>3. a = b
  <2>1. a \in Seq(T) /\ b \in Seq(T) /\ Len(a) = Len(b) /\ \A j \in 1 .. Len(a) : a[j] = b[j]
    BY <1>1, <1>2 DEF CutSame
  <2>2. QED BY <2>1, SeqEqual
<1>4. QED BY <1>1, <1>2, <1>3
=============================================================================
