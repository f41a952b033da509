-------------------------- MODULE ServicesProofs --------------------------
(***************************************************************************)
(* Proofs about the credential of the subscription provider (TokenStore),  *)
(* about the two ways to the terminal (TuiBridge, TuiPrompt), and about the*)
(* specification that puts them side by side (MCServices).                 *)
(***************************************************************************)
EXTENDS MCServices, SequenceTheorems, TLAPS

----------------------------------------------------------------------------
(***************************************************************************)
(* Proofs about the credential of the subscription provider, for any       *)
(* processes and goroutines and any number of credentials the server gives.*)
(***************************************************************************)

(* What a worker holds is settled by where its call stands. *)
CallInv ==
  \A w \in Workers :
    /\ tokPc[w] \in {"idle", "load", "login"} => tokOld[w] = NoCredential
    /\ tokPc[w] \in {"lock", "reload", "asked"} => tokOld[w] # NoCredential
    /\ tokNew[w] # NoCredential => tokPc[w] \in {"asked", "save"}
    /\ tokPc[w] = "save" => tokNew[w] # NoCredential

(* The mutex: who is refreshing holds that of its process, alone. *)
MutexInv ==
  /\ \A w \in Workers :
       tokPc[w] \in {"reload", "asked"} \/ (tokPc[w] = "save" /\ tokOld[w] # NoCredential)
         => w \in tokHeld
  /\ \A w \in tokHeld : tokPc[w] \in {"reload", "asked", "save"}
  /\ \A w, v \in tokHeld : w[1] = v[1] => w = v

(* Nothing is known that the server has not given. *)
GivenInv ==
  /\ tokFile.access <= tokServer.given /\ tokFile.refresh <= tokServer.given
  /\ \A w \in Workers :
       /\ tokOld[w].access <= tokServer.given /\ tokOld[w].refresh <= tokServer.given
       /\ tokNew[w].access <= tokServer.given /\ tokNew[w].refresh <= tokServer.given
  /\ \A p \in Procs : \A a \in tokRenewed[p] : a <= tokServer.given

(* A credential on its way to the file has been seen nowhere else. *)
UnseenInv ==
  \A w \in Workers : tokNew[w] # NoCredential =>
    /\ tokNew[w].access # tokFile.access
    /\ \A v \in Workers : tokNew[w].access # tokOld[v].access
    /\ \A v \in Workers \ {w} : tokNew[w].access # tokNew[v].access
    /\ \A p \in Procs : tokNew[w].access \notin tokRenewed[p]

(* The file never goes back to a credential that was replaced. *)
RenewedInv == \A p \in Procs : tokFile.access \notin tokRenewed[p]

(* A server that rotates gives both tokens the number of the answer; one   *)
(* that does not never forgets a refresh token.                            *)
RotationInv ==
  /\ tokServer.rotates =>
       /\ tokFile.access = tokFile.refresh
       /\ \A w \in Workers : tokOld[w].access = tokOld[w].refresh
       /\ \A w \in Workers : tokNew[w].access = tokNew[w].refresh
  /\ ~tokServer.rotates =>
       /\ tokFile # NoCredential => tokFile.refresh \in tokServer.known
       /\ \A w \in Workers : tokOld[w] # NoCredential => tokOld[w].refresh \in tokServer.known
  /\ \A w \in Workers : tokNew[w] # NoCredential => tokNew[w].refresh \in tokServer.known

TokInv ==
  /\ TokTypeOK /\ CallInv /\ MutexInv /\ GivenInv
  /\ UnseenInv /\ RenewedInv /\ RotationInv
  /\ LoginNotLost /\ RefreshCollapses

Pending == Credentials \cup {NoCredential}

LEMMA NoCredentialIsNone ==
  /\ NoCredential \notin Credentials
  /\ \A c \in Pending : c # NoCredential <=> c \in Credentials
  /\ \A c \in Pending : c.access \in Nat /\ c.refresh \in Nat
  /\ \A c \in Credentials : c.access \in Numbers /\ c.refresh \in Numbers
BY TokenAssumption DEF Pending, Credentials, NoCredential, Numbers

(* Workers that leave, or end with their process, take what they hold      *)
(* along: nobody else notices, and a login they lose is counted as lost.   *)
LEMMA Forgetting ==
  ASSUME TokInv, NEW ws \in SUBSET Workers,
         tokPc' = [v \in Workers |-> IF v \in ws THEN "idle" ELSE tokPc[v]],
         tokOld' = [v \in Workers |-> IF v \in ws THEN NoCredential ELSE tokOld[v]],
         tokNew' = [v \in Workers |-> IF v \in ws THEN NoCredential ELSE tokNew[v]],
         tokHeld' = tokHeld \ ws,
         tokDropped' = tokDropped \cup Losing(ws),
         UNCHANGED <<tokFile, tokServer, tokStale, tokRenewed>>
  PROVE  TokInv'
<1>1. TokTypeOK'
  <2>1. Losing(ws) \subseteq Numbers
    BY NoCredentialIsNone DEF TokInv, TokTypeOK, Losing, Rotated, Pending
  <2>2. QED BY <2>1 DEF TokInv, TokTypeOK, Places
<1>2. CallInv'
  BY DEF TokInv, CallInv
<1>3. MutexInv'
  BY DEF TokInv, MutexInv, TokTypeOK
<1>4. GivenInv'
  <2>1. NoCredential.access <= tokServer.given /\ NoCredential.refresh <= tokServer.given
    BY DEF TokInv, TokTypeOK, NoCredential
  <2>2. QED BY <2>1 DEF TokInv, GivenInv
<1>5. UnseenInv'
  <2> SUFFICES ASSUME NEW w \in Workers, tokNew'[w] # NoCredential
               PROVE  /\ tokNew'[w].access # tokFile'.access
                      /\ \A v \in Workers : tokNew'[w].access # tokOld'[v].access
                      /\ \A v \in Workers \ {w} : tokNew'[w].access # tokNew'[v].access
                      /\ \A p \in Procs : tokNew'[w].access \notin tokRenewed'[p]
    BY DEF UnseenInv
  <2>1. w \notin ws /\ tokNew'[w] = tokNew[w] /\ tokNew[w] \in Credentials
    BY NoCredentialIsNone DEF TokInv, TokTypeOK, Pending
  <2>2. tokNew[w].access # NoCredential.access
    BY <2>1, TokenAssumption DEF Credentials, NoCredential, Numbers
  <2>3. QED BY <2>1, <2>2 DEF TokInv, UnseenInv
<1>6. RenewedInv'
  BY DEF TokInv, RenewedInv
<1>7. RotationInv'
  BY DEF TokInv, RotationInv, NoCredential
<1>8. LoginNotLost'
  BY DEF TokInv, LoginNotLost, Losing, Rotated
<1>9. RefreshCollapses'
  BY DEF TokInv, RefreshCollapses
<1>10. QED BY <1>1, <1>2, <1>3, <1>4, <1>5, <1>6, <1>7, <1>8, <1>9 DEF TokInv

(* The functions of the workers when one of them returns. *)
LEMMA LeaveIsForgetting ==
  ASSUME TokTypeOK, NEW w \in Workers, Leave(w)
  PROVE  /\ tokPc' = [v \in Workers |-> IF v \in {w} THEN "idle" ELSE tokPc[v]]
         /\ tokOld' = [v \in Workers |-> IF v \in {w} THEN NoCredential ELSE tokOld[v]]
         /\ tokNew' = [v \in Workers |-> IF v \in {w} THEN NoCredential ELSE tokNew[v]]
BY DEF TokTypeOK, Leave

LEMMA FailKeepsInv ==
  ASSUME TokInv, NEW w \in Workers, Fail(w),
         UNCHANGED <<tokFile, tokServer, tokStale, tokRenewed>>
  PROVE  TokInv'
<1>1. TokTypeOK /\ Leave(w)
  BY DEF TokInv, Fail, Return
<1>2. QED BY <1>1, LeaveIsForgetting, Forgetting DEF Fail, Return

(* A call that returns before it was given anything loses nothing. *)
LEMMA NothingToLose ==
  ASSUME NEW w \in Workers, tokNew[w] = NoCredential
  PROVE  Losing({w}) = {}
BY DEF Losing, Rotated

-----------------------------------------------------------------------------
(* Steps that move a call on without a credential changing hands. *)
LEMMA CredentialsUntouched ==
  ASSUME TokInv,
         UNCHANGED <<tokFile, tokOld, tokNew, tokServer, tokDropped, tokRenewed>>
  PROVE  GivenInv' /\ UnseenInv' /\ RenewedInv' /\ RotationInv' /\ LoginNotLost'
<1>1. GivenInv' /\ UnseenInv' /\ RenewedInv' /\ RotationInv'
  BY DEF TokInv, GivenInv, UnseenInv, RenewedInv, RotationInv
<1>2. LoginNotLost'
  BY DEF TokInv, LoginNotLost, Rotated
<1>3. QED BY <1>1, <1>2

LEMMA MovingOnKeepsInv ==
  ASSUME TokInv, NEW w \in Workers,
         Get(w) \/ Login(w) \/ Lock(w) \/ refreshSubscriptionCredential(w)
  PROVE  TokInv'
<1> USE DEF Get, Login, Lock, refreshSubscriptionCredential
<1>1. TokTypeOK'
  BY DEF TokInv, TokTypeOK, Places
<1>2. CallInv'
  BY DEF TokInv, CallInv, TokTypeOK
<1>3. MutexInv'
  BY DEF TokInv, MutexInv, TokTypeOK
<1>4. RefreshCollapses'
  BY DEF TokInv, RefreshCollapses, TokTypeOK
<1>5. QED BY <1>1, <1>2, <1>3, <1>4, CredentialsUntouched DEF TokInv

(* A worker that has nothing takes the credential of the file. *)
LEMMA TakingKeepsInv ==
  ASSUME TokInv, NEW w \in Workers, tokNew[w] = NoCredential, tokFile # NoCredential,
         tokOld' = [tokOld EXCEPT ![w] = tokFile],
         \/ tokPc' = [tokPc EXCEPT ![w] = "lock"] /\ tokPc[w] = "load"
         \/ tokPc' = [tokPc EXCEPT ![w] = "asked"] /\ tokPc[w] = "reload",
         UNCHANGED <<tokFile, tokHeld, tokNew, tokServer, tokStale, tokDropped, tokRenewed>>
  PROVE  TokInv'
<1>1. TokTypeOK'
  BY DEF TokInv, TokTypeOK, Places
<1>2. CallInv'
  BY DEF TokInv, CallInv, TokTypeOK
<1>3. MutexInv'
  BY DEF TokInv, MutexInv, TokTypeOK
<1>4. GivenInv'
  BY DEF TokInv, GivenInv, TokTypeOK
<1>5. UnseenInv'
  BY DEF TokInv, UnseenInv, TokTypeOK
<1>6. RenewedInv'
  BY DEF TokInv, RenewedInv
<1>7. RotationInv'
  BY DEF TokInv, RotationInv, TokTypeOK
<1>8. LoginNotLost'
  BY DEF TokInv, LoginNotLost, Rotated, TokTypeOK
<1>9. RefreshCollapses'
  BY DEF TokInv, RefreshCollapses, RenewedInv, TokTypeOK, Procs
<1>10. QED BY <1>1, <1>2, <1>3, <1>4, <1>5, <1>6, <1>7, <1>8, <1>9 DEF TokInv

(* What a call returns without, or returns with, is in the file still. *)
LEMMA ReturningKeepsInv ==
  ASSUME TokInv, NEW w \in Workers, tokNew[w] = NoCredential, Leave(w),
         tokHeld' = tokHeld \ {w},
         UNCHANGED <<tokFile, tokServer, tokStale, tokDropped, tokRenewed>>
  PROVE  TokInv'
<1>1. tokDropped' = tokDropped \cup Losing({w})
  BY NothingToLose
<1>2. QED BY <1>1, LeaveIsForgetting, Forgetting DEF TokInv

LEMMA ReloadKeepsInv ==
  ASSUME TokInv, NEW w \in Workers, Reload(w)
  PROVE  TokInv'
<1>1. tokPc[w] = "reload" /\ tokNew[w] = NoCredential
  BY DEF TokInv, CallInv, Reload
<1>2. CASE tokFile = NoCredential \/ ~needsRefresh(tokFile)
  BY <1>1, <1>2, ReturningKeepsInv DEF Reload, Return
<1>3. CASE ~(tokFile = NoCredential \/ ~needsRefresh(tokFile))
  BY <1>1, <1>3, TakingKeepsInv DEF Reload
<1>4. QED BY <1>2, <1>3

LEMMA LoadKeepsInv ==
  ASSUME TokInv, NEW w \in Workers, LoadSubscriptionCredential(w)
  PROVE  TokInv'
<1>1. tokPc[w] = "load" /\ tokNew[w] = NoCredential /\ tokHeld = tokHeld \ {w}
  BY DEF TokInv, CallInv, MutexInv, LoadSubscriptionCredential
<1>2. CASE tokFile = NoCredential \/ ~needsRefresh(tokFile)
  BY <1>1, <1>2, ReturningKeepsInv DEF LoadSubscriptionCredential
<1>3. CASE ~(tokFile = NoCredential \/ ~needsRefresh(tokFile))
  BY <1>1, <1>3, TakingKeepsInv DEF LoadSubscriptionCredential
<1>4. QED BY <1>2, <1>3

LEMMA ReadFailsKeepsInv ==
  ASSUME TokInv, NEW w \in Workers, ReadFails(w)
  PROVE  TokInv'
<1>1. tokNew[w] = NoCredential
  BY DEF TokInv, CallInv, ReadFails
<1>2. QED BY <1>1, ReturningKeepsInv DEF ReadFails, Return

LEMMA LoginFailsKeepsInv ==
  ASSUME TokInv, NEW w \in Workers, LoginFails(w)
  PROVE  TokInv'
<1>1. tokNew[w] = NoCredential /\ tokHeld = tokHeld \ {w}
  BY DEF TokInv, CallInv, MutexInv, LoginFails
<1>2. QED BY <1>1, ReturningKeepsInv DEF LoginFails

-----------------------------------------------------------------------------
(* The server gives a worker a credential with a new number. *)
LEMMA GivingKeepsInv ==
  ASSUME TokInv, NEW w \in Workers, tokNew[w] = NoCredential,
         NEW refresh \in Numbers, NEW known \in SUBSET Numbers,
         ServerGives(w, refresh, known),
         refresh <= tokServer.given + 1, refresh \in known,
         tokServer.rotates => refresh = tokServer.given + 1,
         tokServer.rotates => \A r \in tokServer.known : r \in known \/ r = tokOld[w].refresh,
         ~tokServer.rotates => tokServer.known \subseteq known,
         \/ tokPc[w] = "asked" /\ UNCHANGED tokPc
         \/ /\ tokPc[w] = "login" /\ tokPc' = [tokPc EXCEPT ![w] = "save"]
            /\ tokServer.known \subseteq known,
         UNCHANGED <<tokFile, tokHeld, tokOld, tokStale, tokDropped, tokRenewed>>
  PROVE  TokInv'
<1> DEFINE n == tokServer.given + 1
           c == [access |-> n, refresh |-> refresh]
<1> USE DEF ServerGives
<1>1. /\ tokServer.given \in Nat /\ n \in Numbers
      /\ c \in Credentials /\ c # NoCredential /\ c.access = n /\ c.refresh = refresh
  BY TokenAssumption DEF TokInv, TokTypeOK, Credentials, NoCredential, Numbers
<1>2. /\ \A v \in Workers : tokNew'[v] = IF v = w THEN c ELSE tokNew[v]
      /\ tokServer'.given = n /\ tokServer'.known = known
      /\ tokServer'.rotates = tokServer.rotates
  BY DEF TokInv, TokTypeOK
<1>3. TokTypeOK'
  <2>1. tokNew' \in [Workers -> Pending]
    BY <1>1 DEF TokInv, TokTypeOK, Pending
  <2>2. tokServer' \in [rotates : BOOLEAN, given : 0 .. MaxTokens, known : SUBSET Numbers]
    <3>1. tokServer \in [rotates : BOOLEAN, given : 0 .. MaxTokens, known : SUBSET Numbers]
      BY DEF TokInv, TokTypeOK
    <3>2. n \in 0 .. MaxTokens
      BY <1>1, TokenAssumption DEF Numbers
    <3>3. tokServer' = [tokServer EXCEPT !.given = n, !.known = known]
      OBVIOUS
    <3> HIDE DEF n
    <3>4. QED BY <3>1, <3>2, <3>3
  <2>3. tokPc' \in [Workers -> Places]
    BY DEF TokInv, TokTypeOK, Places
  <2>4. QED BY <2>1, <2>2, <2>3 DEF TokInv, TokTypeOK, Pending
<1>4. CallInv'
  BY <1>1, <1>2 DEF TokInv, CallInv, TokTypeOK
<1>5. MutexInv'
  BY DEF TokInv, CallInv, MutexInv, TokTypeOK
<1>6. GivenInv'
  <2>1. \A k \in Nat : k <= tokServer.given => k <= n
    BY <1>1
  <2>2. tokFile \in Pending /\ \A v \in Workers : tokOld[v] \in Pending /\ tokNew[v] \in Pending
    BY DEF TokInv, TokTypeOK, Pending
  <2>3. \A p \in Procs : \A a \in tokRenewed[p] : a \in Nat
    BY DEF TokInv, TokTypeOK, Numbers
  <2>4. c.access <= n /\ c.refresh <= n
    BY <1>1 DEF Numbers
  <2>5. QED BY <1>2, <2>1, <2>2, <2>3, <2>4, NoCredentialIsNone DEF TokInv, GivenInv
<1>7. UnseenInv'
  <2> SUFFICES ASSUME NEW u \in Workers, tokNew'[u] # NoCredential
               PROVE  /\ tokNew'[u].access # tokFile'.access
                      /\ \A v \in Workers : tokNew'[u].access # tokOld'[v].access
                      /\ \A v \in Workers \ {u} : tokNew'[u].access # tokNew'[v].access
                      /\ \A p \in Procs : tokNew'[u].access \notin tokRenewed'[p]
    BY DEF UnseenInv
  <2>1. ~(n <= tokServer.given)
    BY <1>1
  <2>2. CASE u = w
    BY <1>1, <1>2, <2>1, <2>2 DEF TokInv, GivenInv
  <2>3. CASE u # w
    BY <1>1, <1>2, <2>1, <2>3 DEF TokInv, GivenInv, UnseenInv
  <2>4. QED BY <2>2, <2>3
<1>8. RenewedInv'
  BY DEF TokInv, RenewedInv
<1>9. RotationInv'
  <2>1. \A v \in Workers : v # w /\ tokNew[v] # NoCredential => tokNew[v].refresh \in known
    <3> SUFFICES ASSUME NEW v \in Workers, v # w, tokNew[v] # NoCredential
                 PROVE  tokNew[v].refresh \in known
      OBVIOUS
    <3>1. tokNew[v].refresh \in tokServer.known
      BY DEF TokInv, RotationInv
    <3>2. CASE ~tokServer.rotates
      BY <3>1, <3>2
    <3>3. CASE tokServer.rotates
      <4>1. tokNew[v].refresh = tokNew[v].access /\ tokOld[w].refresh = tokOld[w].access
        BY <3>3 DEF TokInv, RotationInv
      <4>2. tokNew[v].access # tokOld[w].access
        BY DEF TokInv, UnseenInv
      <4>3. QED BY <3>1, <3>3, <4>1, <4>2
    <3>4. QED BY <3>2, <3>3
  <2>2. \A v \in Workers : tokNew'[v] # NoCredential => tokNew'[v].refresh \in tokServer'.known
    BY <1>1, <1>2, <2>1
  <2>3. tokServer'.rotates =>
          /\ tokFile'.access = tokFile'.refresh
          /\ \A v \in Workers : tokOld'[v].access = tokOld'[v].refresh
          /\ \A v \in Workers : tokNew'[v].access = tokNew'[v].refresh
    BY <1>1, <1>2 DEF TokInv, RotationInv
  <2>4. ~tokServer'.rotates =>
          /\ tokFile' # NoCredential => tokFile'.refresh \in tokServer'.known
          /\ \A v \in Workers : tokOld'[v] # NoCredential => tokOld'[v].refresh \in tokServer'.known
    BY <1>2 DEF TokInv, RotationInv
  <2>5. QED BY <2>2, <2>3, <2>4 DEF RotationInv
<1>10. LoginNotLost'
  <2> SUFFICES ASSUME tokFile # NoCredential, tokFile.refresh \notin known,
                      tokFile.refresh \notin tokDropped
               PROVE  \E v \in Workers : Rotated(v)' /\ tokOld[v].refresh = tokFile.refresh
    BY <1>2 DEF LoginNotLost
  <2>1. CASE tokFile.refresh \in tokServer.known
    <3>1. tokServer.rotates /\ tokFile.refresh = tokOld[w].refresh /\ tokPc[w] = "asked"
      BY <2>1
    <3>2. tokOld[w] # NoCredential /\ tokOld[w].refresh <= tokServer.given
      BY <3>1 DEF TokInv, CallInv, GivenInv
    <3>3. tokNew'[w].refresh # tokOld[w].refresh
      BY <1>1, <1>2, <3>1, <3>2
    <3>4. Rotated(w)'
      BY <1>1, <1>2, <3>2, <3>3 DEF Rotated
    <3>5. QED BY <3>1, <3>4
  <2>2. CASE tokFile.refresh \notin tokServer.known
    <3>1. PICK v \in Workers : Rotated(v) /\ tokOld[v].refresh = tokFile.refresh
      BY <2>2 DEF TokInv, LoginNotLost
    <3>2. v # w
      BY <3>1 DEF Rotated
    <3>3. QED BY <1>2, <3>1, <3>2 DEF Rotated
  <2>3. QED BY <2>1, <2>2
<1>11. RefreshCollapses'
  BY DEF TokInv, RefreshCollapses, TokTypeOK
<1>12. QED BY <1>3, <1>4, <1>5, <1>6, <1>7, <1>8, <1>9, <1>10, <1>11 DEF TokInv

LEMMA RefreshAnsweredKeepsInv ==
  ASSUME TokInv, NEW w \in Workers, RefreshAnswered(w)
  PROVE  TokInv'
<1> DEFINE n == tokServer.given + 1
<1>1. /\ tokServer.given \in Nat /\ tokServer.given < MaxTokens
      /\ tokServer.known \in SUBSET Numbers /\ tokServer.rotates \in BOOLEAN
  BY TokenAssumption DEF TokInv, TokTypeOK, RefreshAnswered, ServerGives
<1>2. n \in Numbers
  BY <1>1, TokenAssumption DEF Numbers
<1>3. tokOld[w].refresh \in tokServer.known /\ tokOld[w].refresh <= n
  <2>1. tokOld[w].refresh \in Numbers /\ tokOld[w].refresh <= tokServer.given
    BY <1>1 DEF TokInv, GivenInv, RefreshAnswered
  <2>2. QED BY <1>1, <2>1 DEF RefreshAnswered, Numbers
<1>4. CASE tokServer.rotates
  <2> DEFINE known == (tokServer.known \ {tokOld[w].refresh}) \cup {n}
  <2>1. known \in SUBSET Numbers /\ n \in known /\ ServerGives(w, n, known) /\ n <= n
    BY <1>1, <1>2, <1>4 DEF RefreshAnswered
  <2>2. \A r \in tokServer.known : r \in known \/ r = tokOld[w].refresh
    OBVIOUS
  <2> HIDE DEF known, n
  <2>3. QED BY <1>2, <1>4, <2>1, <2>2, GivingKeepsInv DEF RefreshAnswered, n
<1>5. CASE ~tokServer.rotates
  <2>1. ServerGives(w, tokOld[w].refresh, tokServer.known)
    BY <1>5 DEF RefreshAnswered
  <2>2. QED BY <1>1, <1>3, <1>5, <2>1, GivingKeepsInv DEF RefreshAnswered
<1>6. QED BY <1>4, <1>5

LEMMA LoginAllowedKeepsInv ==
  ASSUME TokInv, NEW w \in Workers, LoginAllowed(w)
  PROVE  TokInv'
<1> DEFINE n == tokServer.given + 1
           known == tokServer.known \cup {n}
<1>1. tokServer.given \in Nat /\ tokServer.given < MaxTokens /\ tokServer.known \in SUBSET Numbers
  BY TokenAssumption DEF TokInv, TokTypeOK, LoginAllowed, ServerGives
<1>2. n \in Numbers /\ n <= n
  BY <1>1, TokenAssumption DEF Numbers
<1>3. known \in SUBSET Numbers /\ n \in known /\ tokServer.known \subseteq known
  BY <1>1, <1>2
<1>4. ServerGives(w, n, known) /\ tokNew[w] = NoCredential
  BY DEF LoginAllowed, TokInv, CallInv
<1> HIDE DEF known, n
<1>5. QED BY <1>2, <1>3, <1>4, GivingKeepsInv DEF LoginAllowed, n

-----------------------------------------------------------------------------
(* The credential of w takes the place of the one in the file. *)
LEMMA SaveKeepsInv ==
  ASSUME TokInv, NEW w \in Workers, SaveSubscriptionCredential(w)
  PROVE  TokInv'
<1> DEFINE c == tokNew[w]
<1>1. c \in Credentials /\ c # NoCredential /\ tokOld[w] \in Pending
  BY NoCredentialIsNone DEF TokInv, TokTypeOK, CallInv, SaveSubscriptionCredential, Pending
<1>2. /\ tokPc' = [v \in Workers |-> IF v = w THEN "idle" ELSE tokPc[v]]
      /\ tokOld' = [v \in Workers |-> IF v = w THEN NoCredential ELSE tokOld[v]]
      /\ tokNew' = [v \in Workers |-> IF v = w THEN NoCredential ELSE tokNew[v]]
      /\ tokFile' = c /\ tokHeld' = tokHeld \ {w}
      /\ UNCHANGED <<tokServer, tokStale, tokDropped>>
  BY DEF SaveSubscriptionCredential, Return, Leave, TokInv, TokTypeOK
<1>3. w[1] \in Procs
  BY DEF Procs
<1>4. \A p \in Procs :
        tokRenewed'[p] = IF p = w[1] THEN tokRenewed[p] \cup ({tokOld[w].access} \ {0})
                                     ELSE tokRenewed[p]
  BY <1>3 DEF SaveSubscriptionCredential, TokInv, TokTypeOK
<1>5. NoCredential.access = 0 /\ NoCredential.refresh = 0 /\ c.access # 0
  BY <1>1, TokenAssumption DEF NoCredential, Credentials, Numbers
<1>6. TokTypeOK'
  <2>1. {tokOld[w].access} \ {0} \subseteq Numbers
    BY <1>1, TokenAssumption DEF Pending, Credentials, NoCredential, Numbers
  <2>2. tokRenewed' \in [Procs -> SUBSET Numbers]
    BY <1>3, <2>1 DEF TokInv, TokTypeOK, SaveSubscriptionCredential
  <2>3. QED BY <1>1, <1>2, <2>2 DEF TokInv, TokTypeOK, Places
<1>7. CallInv'
  BY <1>2 DEF TokInv, CallInv
<1>8. MutexInv'
  BY <1>2 DEF TokInv, MutexInv, TokTypeOK
<1>9. GivenInv'
  <2>1. 0 <= tokServer.given
    BY DEF TokInv, TokTypeOK
  <2>2. QED BY <1>2, <1>4, <1>5, <2>1, ZenonT(60) DEF TokInv, GivenInv
<1>10. UnseenInv'
  <2> SUFFICES ASSUME NEW u \in Workers, tokNew'[u] # NoCredential
               PROVE  /\ tokNew'[u].access # tokFile'.access
                      /\ \A v \in Workers : tokNew'[u].access # tokOld'[v].access
                      /\ \A v \in Workers \ {u} : tokNew'[u].access # tokNew'[v].access
                      /\ \A p \in Procs : tokNew'[u].access \notin tokRenewed'[p]
    BY DEF UnseenInv
  <2>1. u # w /\ tokNew'[u] = tokNew[u] /\ tokNew[u] \in Credentials
    BY <1>2, NoCredentialIsNone DEF TokInv, TokTypeOK, Pending
  <2>2. tokNew[u].access # 0
    BY <2>1, TokenAssumption DEF Credentials, Numbers
  <2>3. /\ \A v \in Workers : tokNew[u].access # tokOld[v].access
        /\ \A v \in Workers \ {u} : tokNew[u].access # tokNew[v].access
        /\ \A p \in Procs : tokNew[u].access \notin tokRenewed[p]
    BY <2>1, <1>2 DEF TokInv, UnseenInv
  <2>4. \A p \in Procs : tokNew[u].access \notin tokRenewed'[p]
    BY <1>4, <2>3
  <2>5. QED BY <1>2, <1>5, <2>1, <2>2, <2>3, <2>4
<1>11. RenewedInv'
  <2>1. c.access # tokOld[w].access /\ \A p \in Procs : c.access \notin tokRenewed[p]
    BY <1>1 DEF TokInv, UnseenInv
  <2>2. QED BY <1>2, <1>4, <2>1 DEF RenewedInv
<1>12. RotationInv'
  BY <1>1, <1>2, <1>5 DEF TokInv, RotationInv
<1>13. LoginNotLost'
  BY <1>1, <1>2 DEF TokInv, RotationInv, LoginNotLost
<1>14. RefreshCollapses'
  <2> SUFFICES ASSUME NEW u \in Workers, tokPc'[u] = "asked"
               PROVE  tokOld'[u].access \notin tokRenewed'[u[1]]
    BY DEF RefreshCollapses
  <2>1. u # w /\ tokPc[u] = "asked" /\ tokOld'[u] = tokOld[u] /\ u[1] \in Procs
    BY <1>2 DEF Procs
  <2>2. tokOld[u].access \notin tokRenewed[u[1]] /\ u \in tokHeld
    BY <2>1 DEF TokInv, RefreshCollapses, MutexInv
  <2>3. CASE tokOld[w] = NoCredential
    BY <1>4, <1>5, <2>1, <2>2, <2>3
  <2>4. CASE tokOld[w] # NoCredential
    <3>1. w \in tokHeld
      BY <2>4 DEF TokInv, MutexInv, SaveSubscriptionCredential
    <3>2. u[1] # w[1]
      BY <2>1, <2>2, <3>1 DEF TokInv, MutexInv
    <3>3. QED BY <1>4, <2>1, <2>2, <3>2
  <2>5. QED BY <2>3, <2>4
<1>15. QED BY <1>6, <1>7, <1>8, <1>9, <1>10, <1>11, <1>12, <1>13, <1>14 DEF TokInv

LEMMA LogoutKeepsInv ==
  ASSUME TokInv, NEW w \in Workers, LogoutSubscriptionAuth(w)
  PROVE  TokInv'
<1> USE DEF LogoutSubscriptionAuth
<1>1. TokTypeOK' /\ CallInv' /\ MutexInv'
  BY DEF TokInv, TokTypeOK, CallInv, MutexInv
<1>2. NoCredential.access = 0 /\ NoCredential.refresh = 0 /\ tokServer.given \in Nat
  BY DEF NoCredential, TokInv, TokTypeOK
<1>3. GivenInv'
  BY <1>2 DEF TokInv, GivenInv
<1>4. \A v \in Workers : tokNew[v] # NoCredential => tokNew[v].access # 0
  BY TokenAssumption DEF TokInv, TokTypeOK, Credentials, Numbers
<1>5. UnseenInv'
  BY <1>2, <1>4 DEF TokInv, UnseenInv
<1>6. \A p \in Procs : 0 \notin tokRenewed[p]
  BY TokenAssumption DEF TokInv, TokTypeOK, Numbers
<1>7. RenewedInv'
  BY <1>2, <1>6 DEF TokInv, RenewedInv
<1>8. RotationInv' /\ LoginNotLost' /\ RefreshCollapses'
  BY <1>2 DEF TokInv, RotationInv, LoginNotLost, RefreshCollapses
<1>9. QED BY <1>1, <1>3, <1>5, <1>7, <1>8 DEF TokInv

LEMMA ExpireKeepsInv ==
  ASSUME TokInv, NEW a \in Numbers, Expire(a)
  PROVE  TokInv'
<1>1. TokTypeOK' /\ CallInv' /\ MutexInv' /\ RefreshCollapses'
  BY DEF Expire, TokInv, TokTypeOK, CallInv, MutexInv, RefreshCollapses
<1>2. QED BY <1>1, CredentialsUntouched DEF Expire, TokInv

LEMMA ExitKeepsInv ==
  ASSUME TokInv, NEW p \in Procs, Exit(p)
  PROVE  TokInv'
BY Forgetting DEF Exit

-----------------------------------------------------------------------------
LEMMA InitHasInv == TokInit => TokInv
<1> SUFFICES ASSUME TokInit PROVE TokInv
  OBVIOUS
<1> USE DEF TokInit
<1>1. TokTypeOK
  BY TokenAssumption DEF TokTypeOK, Places
<1>2. NoCredential.access = 0 /\ NoCredential.refresh = 0
  BY DEF NoCredential
<1>3. CallInv /\ MutexInv /\ GivenInv /\ UnseenInv /\ RenewedInv /\ RotationInv
  BY <1>2 DEF CallInv, MutexInv, GivenInv, UnseenInv, RenewedInv, RotationInv
<1>4. LoginNotLost /\ RefreshCollapses
  BY DEF LoginNotLost, RefreshCollapses
<1>5. QED BY <1>1, <1>3, <1>4 DEF TokInv

LEMMA NextKeepsInv == TokInv /\ [TokNext]_tokVars => TokInv'
<1> SUFFICES ASSUME TokInv, [TokNext]_tokVars PROVE TokInv'
  OBVIOUS
<1>1. CASE UNCHANGED tokVars
  <2>1. TokTypeOK' /\ CallInv' /\ MutexInv' /\ RefreshCollapses'
    BY <1>1 DEF tokVars, TokInv, TokTypeOK, CallInv, MutexInv, RefreshCollapses
  <2>2. QED BY <1>1, <2>1, CredentialsUntouched DEF tokVars, TokInv
<1>2. ASSUME NEW w \in Workers, Proceed(w) PROVE TokInv'
  <2>1. CASE LoadSubscriptionCredential(w)
    BY <2>1, LoadKeepsInv
  <2>2. CASE Lock(w) \/ refreshSubscriptionCredential(w)
    BY <2>2, MovingOnKeepsInv
  <2>3. CASE Reload(w)
    BY <2>3, ReloadKeepsInv
  <2>4. CASE RefreshFails(w) \/ SaveFails(w)
    BY <2>4, FailKeepsInv DEF RefreshFails, SaveFails
  <2>5. CASE SaveSubscriptionCredential(w)
    BY <2>5, SaveKeepsInv
  <2>6. CASE LoginFails(w)
    BY <2>6, LoginFailsKeepsInv
  <2>7. CASE ReadFails(w)
    BY <2>7, ReadFailsKeepsInv
  <2>8. QED BY <1>2, <2>1, <2>2, <2>3, <2>4, <2>5, <2>6, <2>7 DEF Proceed
<1>3. ASSUME NEW w \in Workers, Get(w) \/ Login(w) PROVE TokInv'
  BY <1>3, MovingOnKeepsInv
<1>4. ASSUME NEW w \in Workers, RefreshAnswered(w) PROVE TokInv'
  BY <1>4, RefreshAnsweredKeepsInv
<1>5. ASSUME NEW w \in Workers, LoginAllowed(w) PROVE TokInv'
  BY <1>5, LoginAllowedKeepsInv
<1>6. ASSUME NEW w \in Workers, LogoutSubscriptionAuth(w) PROVE TokInv'
  BY <1>6, LogoutKeepsInv
<1>7. ASSUME NEW a \in Numbers, Expire(a) PROVE TokInv'
  BY <1>7, ExpireKeepsInv
<1>8. ASSUME NEW p \in Procs, Exit(p) PROVE TokInv'
  BY <1>8, ExitKeepsInv
<1>9. QED BY <1>1, <1>2, <1>3, <1>4, <1>5, <1>6, <1>7, <1>8 DEF TokNext

LEMMA TokInvariant == TokSpec => []TokInv
BY InitHasInv, NextKeepsInv, PTL DEF TokSpec

(* The credential, the calls and the server keep their types, whatever the *)
(* number of processes: no answer of the server, one without a refresh     *)
(* token included, brings half a credential into the file.                 *)
THEOREM TokTypeCorrect == TokSpec => []TokTypeOK
BY TokInvariant, PTL DEF TokInv

(* Without an answer that got lost no order of refreshes, logins, logouts  *)
(* and exits of any processes leaves a dead refresh token in the file.     *)
THEOREM LoginIsNotLost == TokSpec => []LoginNotLost
BY TokInvariant, PTL DEF TokInv

(* A process never refreshes a credential that it has replaced.            *)
THEOREM RefreshesCollapse == TokSpec => []RefreshCollapses
BY TokInvariant, PTL DEF TokInv

----------------------------------------------------------------------------
(***************************************************************************)
(* The end of a turn is reported after all its output is shown, for any    *)
(* capacity of the two channels and any number of messages.                *)
(***************************************************************************)

InSeq(s) == {s[k] : k \in DOMAIN s}
Flushing == {"drain", "drainPut", "mark", "marked", "done"}

(* Where what was taken in and not shown can be. *)
OnTheWay == InSeq(brResults) \cup InSeq(brOut) \cup {brForward.n, brSending}

(* What is in the channel ahead of the mark. *)
Ahead(s) == {s[k] : k \in {k \in DOMAIN s : \A j \in 1 .. k : s[j] # FlushMark}}

(* As long as the event loop runs nothing is closed; whoever flushes is    *)
(* waited for; and nothing that was taken in is lost.                      *)
LoopRuns ==
  /\ brShut = "up"
  /\ brForward.at \in Flushing <=> brTurn = "wait"
  /\ brForward.at \in Holding \/ brForward.n = 0
  /\ brForward.at # "ended"
  /\ brUnshown \subseteq OnTheWay
  /\ brDue \subseteq brUnshown

(* The one mark stands behind all that the turn waits for. *)
MarkBehind ==
  /\ brForward.at \in {"mark", "marked"} => brResults = <<>>
  /\ brForward.at # "marked" => FlushMark \notin InSeq(brOut)
  /\ brForward.at = "marked" =>
       /\ brDue \subseteq Ahead(brOut) \cup {brSending}
       /\ \A j, k \in DOMAIN brOut : brOut[j] = FlushMark /\ brOut[k] = FlushMark => j = k
  /\ brForward.at = "done" \/ brTurn \in {"idle", "running", "returned"} => brDue = {}

(* A command has a number. *)
CommandNumbered == brLoop = "command" => brMade # 0

BrInv == BrTypeOK /\ CommandNumbered /\ (brLoop # "ended" => LoopRuns /\ MarkBehind)

LEMMA InitKeepsBrInv == BrInit => BrInv
<1> SUFFICES ASSUME BrInit PROVE BrInv
  OBVIOUS
<1>1. InSeq(brOut) = {} /\ InSeq(brResults) = {}
  BY EmptySeq DEF BrInit, InSeq
<1>2. BrTypeOK
  BY BridgeAssumption DEF BrInit, BrTypeOK, Forward, Holding
<1>3. LoopRuns /\ MarkBehind
  BY <1>1 DEF BrInit, LoopRuns, MarkBehind, OnTheWay, Forward, Holding, Flushing
<1>4. QED BY <1>2, <1>3 DEF BrInv, BrInit, CommandNumbered

(* What a queue holds after a message was added to it or taken from it.    *)
LEMMA AppendHolds ==
  ASSUME NEW S, NEW s \in Seq(S), NEW e \in S
  PROVE  /\ Append(s, e) \in Seq(S) /\ Len(Append(s, e)) = Len(s) + 1
         /\ InSeq(Append(s, e)) = InSeq(s) \cup {e}
         /\ Ahead(s) \subseteq Ahead(Append(s, e))
<1>1. /\ Append(s, e) \in Seq(S) /\ Len(Append(s, e)) = Len(s) + 1 /\ Len(s) \in Nat
      /\ DOMAIN s = 1 .. Len(s) /\ DOMAIN Append(s, e) = 1 .. Len(s) + 1
      /\ \A k \in 1 .. Len(s) : Append(s, e)[k] = s[k]
      /\ Append(s, e)[Len(s) + 1] = e
  BY AppendProperties, LenProperties
<1>2. QED BY <1>1 DEF InSeq, Ahead

LEMMA TailHolds ==
  ASSUME NEW S, NEW s \in Seq(S), s # <<>>
  PROVE  /\ Tail(s) \in Seq(S) /\ Len(Tail(s)) = Len(s) - 1 /\ Head(s) \in S
         /\ InSeq(s) = InSeq(Tail(s)) \cup {Head(s)}
         /\ Ahead(s) \subseteq Ahead(Tail(s)) \cup {Head(s)}
         /\ Head(s) = FlushMark => Ahead(s) = {}
         /\ \A j \in DOMAIN Tail(s) : j + 1 \in DOMAIN s /\ Tail(s)[j] = s[j + 1]
         /\ 1 \in DOMAIN s /\ Head(s) = s[1]
<1>1. /\ Tail(s) \in Seq(S) /\ Len(Tail(s)) = Len(s) - 1 /\ Len(s) \in Nat /\ Len(s) >= 1
      /\ DOMAIN s = 1 .. Len(s) /\ DOMAIN Tail(s) = 1 .. Len(s) - 1
      /\ \A k \in 1 .. Len(s) - 1 : Tail(s)[k] = s[k + 1]
      /\ Head(s) = s[1] /\ Head(s) \in S
  BY HeadTailProperties, LenProperties
<1>2. InSeq(s) = InSeq(Tail(s)) \cup {Head(s)}
  <2>1. ASSUME NEW k \in DOMAIN s PROVE s[k] \in InSeq(Tail(s)) \cup {Head(s)}
    <3>1. k = 1 \/ (k - 1 \in DOMAIN Tail(s) /\ Tail(s)[k - 1] = s[k])
      BY <1>1
    <3>2. QED BY <1>1, <3>1 DEF InSeq
  <2>2. QED BY <1>1, <2>1 DEF InSeq
<1>3. Ahead(s) \subseteq Ahead(Tail(s)) \cup {Head(s)}
  <2>1. ASSUME NEW k \in DOMAIN s, \A j \in 1 .. k : s[j] # FlushMark
        PROVE  s[k] \in Ahead(Tail(s)) \cup {Head(s)}
    <3>1. k = 1 \/ (k - 1 \in DOMAIN Tail(s) /\ Tail(s)[k - 1] = s[k])
      BY <1>1
    <3>2. \A j \in 1 .. k - 1 : Tail(s)[j] # FlushMark
      BY <1>1, <2>1
    <3>3. QED BY <1>1, <3>1, <3>2 DEF Ahead
  <2>2. QED BY <2>1 DEF Ahead
<1>4. Head(s) = FlushMark => Ahead(s) = {}
  BY <1>1 DEF Ahead
<1>5. QED BY <1>1, <1>2, <1>3, <1>4

(* A channel takes one more message when there is room for it. *)
LEMMA RoomForOne ==
  ASSUME NEW S, NEW s \in Seq(S), NEW e \in S, NEW cap \in Nat, Len(s) < cap
  PROVE  Append(s, e) \in Seq(S) /\ Len(Append(s, e)) <= cap
<1>1. Append(s, e) \in Seq(S) /\ Len(Append(s, e)) = Len(s) + 1 /\ Len(s) \in Nat
  BY AppendProperties, LenProperties
<1>2. QED BY <1>1

LEMMA NextKeepsBrType ==
  BrTypeOK /\ CommandNumbered /\ [BrNext]_brVars => BrTypeOK' /\ CommandNumbered'
<1> SUFFICES ASSUME BrTypeOK, CommandNumbered, [BrNext]_brVars PROVE BrTypeOK' /\ CommandNumbered'
  OBVIOUS
<1> USE BridgeAssumption DEF BrTypeOK, brChannels, Items, Holding, CommandNumbered
<1>1. /\ brResults \in Seq(Items) /\ Len(brResults) \in Nat
      /\ brOut \in Seq(Items \cup {FlushMark}) /\ Len(brOut) \in Nat
  OBVIOUS
<1>2. ASSUME MakeItem PROVE brMade' \in Items /\ brMade' \in 0 .. MaxItems
  BY <1>2 DEF MakeItem
<1>4. CASE Chat \/ Flush \/ FlushGivenUp
  BY <1>4 DEF Chat, Flush, FlushGivenUp
<1>5. CASE emitTUIToolInfo
  <2>1. /\ UNCHANGED <<brOut, brForward, brSending, brLoop, brTurn, brShut, brDue>>
        /\ brMade' \in Items
        /\ \/ Len(brResults) < ResultCap /\ brResults' = Append(brResults, brMade')
              /\ brUnshown' = brUnshown \cup {brMade'}
           \/ UNCHANGED <<brResults, brUnshown>>
    BY <1>2, <1>5 DEF emitTUIToolInfo, TakeIn
  <2>2. brResults' \in Seq(Items) /\ Len(brResults') <= ResultCap
    <3> DEFINE S == Items
    <3>1. brMade' \in S /\ brResults \in Seq(S) /\ ResultCap \in Nat /\ Len(brResults) <= ResultCap
      BY <1>1, <2>1
    <3> HIDE DEF S
    <3>2. Len(brResults) < ResultCap
            => Append(brResults, brMade') \in Seq(S) /\ Len(Append(brResults, brMade')) <= ResultCap
      BY <3>1, RoomForOne
    <3>3. brResults' \in Seq(S) /\ Len(brResults') <= ResultCap
      BY <3>1, <3>2, <2>1
    <3>4. QED BY <3>3 DEF S
  <2>3. brUnshown' \subseteq Items
    BY <2>1
  <2>4. QED BY <1>2, <1>5, <2>1, <2>2, <2>3
<1>6. CASE TurnPrints
  <2>1. /\ UNCHANGED <<brResults, brForward, brSending, brLoop, brTurn, brShut, brDue>>
        /\ brMade' \in Items
        /\ \/ HasRoom /\ brOut' = Append(brOut, brMade')
              /\ brUnshown' = brUnshown \cup {brMade'}
           \/ UNCHANGED <<brOut, brUnshown>>
    BY <1>2, <1>6 DEF TurnPrints, enqueueCapturedMessage, TakeIn
  <2>2. brOut' \in Seq(Items \cup {FlushMark}) /\ Len(brOut') <= OutCap
    <3> DEFINE S == Items \cup {FlushMark}
    <3>1. brMade' \in S /\ brOut \in Seq(S) /\ OutCap \in Nat /\ Len(brOut) <= OutCap
      BY <1>1, <2>1
    <3> HIDE DEF S
    <3>2. HasRoom => Append(brOut, brMade') \in Seq(S) /\ Len(Append(brOut, brMade')) <= OutCap
      BY <3>1, RoomForOne DEF HasRoom
    <3>3. QED BY <3>1, <3>2, <2>1, SMTT(30)
  <2>3. brUnshown' \subseteq Items
    BY <2>1
  <2>4. QED BY <1>2, <1>6, <2>1, <2>2, <2>3
<1>7. CASE forwardToolResults \/ DropResult
  <2> USE DEF Forwards, Forward, AfterResult
  <2>1. ASSUME brResults # <<>>
        PROVE  /\ Tail(brResults) \in Seq(Items) /\ Len(Tail(brResults)) = Len(brResults) - 1
               /\ Head(brResults) \in Items
    BY <1>1, <2>1, HeadTailProperties
  <2>2. ASSUME NEW e \in Items \cup {FlushMark}
        PROVE  /\ Append(brOut, e) \in Seq(Items \cup {FlushMark})
               /\ Len(Append(brOut, e)) = Len(brOut) + 1
    BY <1>1, <2>2, AppendProperties
  <2>3. CASE TakeResult \/ DrainResult
    <3>1. /\ UNCHANGED <<brMade, brUnshown, brSending, brLoop, brShut, brDue, brOut, brTurn>>
          /\ brResults # <<>> /\ brResults' = Tail(brResults)
          /\ brForward'.n = Head(brResults)
          /\ brForward'.at \in {"ended", "put", "done", "drainPut"}
      BY <2>3 DEF TakeResult, DrainResult, closed
    <3>2. Head(brResults) \in 1 .. MaxItems
      BY <2>1, <3>1
    <3>3. brForward'.n \in 0 .. MaxItems /\ brForward'.n # 0
      BY <3>1, <3>2
    <3>4. QED BY <1>1, <2>1, <3>1, <3>3, SMTT(40)
  <2>4. CASE PutResult
    <3>1. brForward.n \in Items
      BY <2>4 DEF PutResult
    <3>2. QED BY <1>1, <2>2, <2>4, <3>1 DEF PutResult, HasRoom
  <2>5. CASE PutMark
    BY <1>1, <2>2, <2>5 DEF PutMark, HasRoom
  <2>6. CASE ServeFlush \/ Drained \/ FlushDone \/ DropResult
    <3>1. /\ UNCHANGED <<brMade, brUnshown, brSending, brLoop, brShut, brDue, brOut, brResults>>
          /\ brForward'.n = 0 /\ brForward'.at \in {"select", "drain", "mark", "done"}
          /\ brTurn' = brTurn \/ brTurn' \in {"wait", "returned"}
      BY <2>6 DEF ServeFlush, Drained, FlushDone, DropResult
    <3>2. brForward'.n \in 0 .. MaxItems
      BY <3>1
    <3>3. QED BY <3>1, <3>2
  <2>7. QED BY <1>7, <2>3, <2>4, <2>5, <2>6 DEF forwardToolResults
<1>8. CASE TakeMessage
  <2>1. /\ Tail(brOut) \in Seq(Items \cup {FlushMark}) /\ Len(Tail(brOut)) = Len(brOut) - 1
        /\ Head(brOut) \in Items \cup {FlushMark}
    BY <1>1, <1>8, HeadTailProperties DEF TakeMessage
  <2>2. QED BY <1>1, <1>8, <2>1 DEF TakeMessage, Forward
<1>9. CASE SendMessage
  BY <1>9 DEF SendMessage
<1>10. CASE Command
  BY <1>2, <1>10 DEF Command
<1>11. CASE CommandPrints
  <2>1. brMade' \in Items
    <3>1. brMade' = brMade /\ brLoop = "command"
      BY <1>11 DEF CommandPrints
    <3>2. QED BY <3>1
  <2>2. /\ UNCHANGED <<brMade, brResults, brForward, brSending, brTurn, brShut, brDue>>
        /\ brLoop' = "free"
        /\ \/ HasRoom /\ brOut' = Append(brOut, brMade')
              /\ brUnshown' = brUnshown \cup {brMade'}
           \/ UNCHANGED <<brOut, brUnshown>>
    BY <1>11 DEF CommandPrints, enqueueCapturedMessage, TakeIn
  <2>3. brOut' \in Seq(Items \cup {FlushMark}) /\ Len(brOut') <= OutCap
    <3> DEFINE S == Items \cup {FlushMark}
    <3>1. brMade' \in S /\ brOut \in Seq(S) /\ OutCap \in Nat /\ Len(brOut) <= OutCap
      BY <1>1, <2>1
    <3> HIDE DEF S
    <3>2. HasRoom => Append(brOut, brMade') \in Seq(S) /\ Len(Append(brOut, brMade')) <= OutCap
      BY <3>1, RoomForOne DEF HasRoom
    <3>3. QED BY <3>1, <3>2, <2>1, <2>2, SMTT(40)
  <2>4. brUnshown' \subseteq Items
    BY <2>1, <2>2
  <2>5. QED BY <2>2, <2>3, <2>4
<1>12. CASE Quit \/ shutdown
  BY <1>12 DEF Quit, shutdown
<1>13. CASE UNCHANGED brVars
  BY <1>13 DEF brVars
<1>14. QED BY <1>4, <1>5, <1>6, <1>7, <1>8, <1>9, <1>10, <1>11, <1>12, <1>13
         DEF BrNext, forwardOutgoingMessages

(* While the event loop runs: a step of the turn or of a command. *)
LEMMA TurnKeepsLoopInv ==
  ASSUME BrTypeOK, LoopRuns, MarkBehind,
         Chat \/ emitTUIToolInfo \/ TurnPrints \/ Flush \/ Command \/ CommandPrints
  PROVE  LoopRuns' /\ MarkBehind'
<1>1. UNCHANGED <<brForward, brSending, brShut>> /\ ~closed
  BY DEF Chat, emitTUIToolInfo, TurnPrints, Flush, Command, CommandPrints, LoopRuns, closed
<1>2. brResults \in Seq(Items) /\ brOut \in Seq(Items \cup {FlushMark})
  BY DEF BrTypeOK
<1>3. ASSUME NEW n, brUnshown' = brUnshown \cup {n}, n \in InSeq(brResults') \cup InSeq(brOut'),
             InSeq(brResults) \subseteq InSeq(brResults'), InSeq(brOut) \subseteq InSeq(brOut')
      PROVE  brUnshown' \subseteq OnTheWay'
  BY <1>1, <1>3 DEF LoopRuns, OnTheWay
<1>4. CASE Chat \/ Flush
  <2>1. UNCHANGED <<brResults, brOut, brUnshown>>
    BY <1>4 DEF Chat, Flush, brChannels
  <2>2. OnTheWay' = OnTheWay
    BY <1>1, <2>1 DEF OnTheWay
  <2>3. CASE Chat
    <3>1. brTurn \in {"idle", "returned"} /\ brTurn' = "running" /\ brDue' = {}
      BY <2>3 DEF Chat
    <3>2. QED BY <1>1, <2>1, <2>2, <3>1 DEF LoopRuns, MarkBehind, Flushing
  <2>4. CASE Flush
    <3>1. brTurn = "running" /\ brTurn' = "offer" /\ brDue' = brUnshown
      BY <1>1, <2>4 DEF Flush
    <3>2. QED BY <1>1, <2>1, <2>2, <3>1 DEF LoopRuns, MarkBehind, Flushing
  <2>5. QED BY <1>4, <2>3, <2>4
<1>5. CASE emitTUIToolInfo
  <2>1. /\ UNCHANGED <<brOut, brTurn, brDue>> /\ brTurn = "running" /\ brMade' \in Items
        /\ \/ brResults' = Append(brResults, brMade') /\ brUnshown' = brUnshown \cup {brMade'}
           \/ UNCHANGED <<brResults, brUnshown>>
    BY <1>5, BridgeAssumption DEF emitTUIToolInfo, TakeIn, MakeItem, Items, BrTypeOK
  <2>2. CASE UNCHANGED <<brResults, brUnshown>>
    BY <1>1, <2>1, <2>2 DEF LoopRuns, MarkBehind, Flushing, OnTheWay
  <2>3. CASE brResults' = Append(brResults, brMade') /\ brUnshown' = brUnshown \cup {brMade'}
    <3>1. InSeq(brResults') = InSeq(brResults) \cup {brMade'}
      BY <1>2, <2>1, <2>3, AppendHolds
    <3>2. brUnshown' \subseteq OnTheWay'
      BY <1>3, <2>1, <2>3, <3>1
    <3>3. QED BY <1>1, <2>1, <2>3, <3>2 DEF LoopRuns, MarkBehind, Flushing
  <2>4. QED BY <2>1, <2>2, <2>3
<1>6. CASE TurnPrints \/ Command \/ CommandPrints
  <2>1. /\ UNCHANGED <<brResults, brTurn, brDue>>
        /\ \/ UNCHANGED <<brOut, brUnshown>>
           \/ /\ brOut' = Append(brOut, brMade') /\ brUnshown' = brUnshown \cup {brMade'}
              /\ brMade' \in Nat
    BY <1>6, BridgeAssumption, SMTT(40)
       DEF TurnPrints, Command, CommandPrints, enqueueCapturedMessage, TakeIn, MakeItem, BrTypeOK
  <2>2. CASE UNCHANGED <<brOut, brUnshown>>
    BY <1>1, <2>1, <2>2 DEF LoopRuns, MarkBehind, OnTheWay
  <2>3. CASE brOut' = Append(brOut, brMade') /\ brUnshown' = brUnshown \cup {brMade'}
             /\ brMade' \in Nat
    <3> DEFINE S == Nat \cup {FlushMark}
    <3>1. brOut \in Seq(S) /\ brMade' \in S /\ brMade' # FlushMark
      BY <1>2, <2>3, BridgeAssumption DEF Items, FlushMark
    <3> HIDE DEF S
    <3>2. InSeq(brOut') = InSeq(brOut) \cup {brMade'} /\ Ahead(brOut) \subseteq Ahead(brOut')
      BY <2>3, <3>1, AppendHolds
    <3>3. brUnshown' \subseteq OnTheWay'
      BY <1>3, <2>1, <2>3, <3>2
    <3>4. \A j \in DOMAIN brOut' : brOut'[j] = FlushMark =>
            j \in DOMAIN brOut /\ brOut[j] = FlushMark
      BY <2>3, <3>1
    <3>5. QED BY <1>1, <2>1, <2>3, <3>1, <3>2, <3>3, <3>4 DEF LoopRuns, MarkBehind
  <2>4. QED BY <2>1, <2>2, <2>3
<1>7. QED BY <1>4, <1>5, <1>6

(* ... of the goroutine that takes results and serves flushes ... *)
LEMMA ForwardKeepsLoopInv ==
  ASSUME BrTypeOK, LoopRuns, MarkBehind, forwardToolResults \/ DropResult
  PROVE  LoopRuns' /\ MarkBehind'
<1>1. UNCHANGED <<brUnshown, brSending, brShut, brDue>> /\ ~closed
  BY DEF forwardToolResults, TakeResult, PutResult, ServeFlush, DrainResult, Drained, PutMark,
         FlushDone, DropResult, Forwards, LoopRuns, closed
<1>2. brResults \in Seq(Items) /\ brOut \in Seq(Items \cup {FlushMark}) /\ brDue \subseteq Items
  BY DEF BrTypeOK
<1>3. 0 \notin Items /\ FlushMark \notin Items
  BY BridgeAssumption DEF Items, FlushMark
<1>4. CASE TakeResult \/ DrainResult
  <2>1. /\ UNCHANGED <<brOut, brTurn>> /\ brResults # <<>> /\ brResults' = Tail(brResults)
        /\ brForward'.n = Head(brResults)
        /\ \/ brForward.at = "select" /\ brForward'.at = "put"
           \/ brForward.at = "drain" /\ brForward'.at = "drainPut"
    BY <1>1, <1>4 DEF TakeResult, DrainResult, Forwards, Forward
  <2>2. InSeq(brResults) = InSeq(brResults') \cup {brForward'.n}
    BY <1>2, <2>1, TailHolds
  <2>3. brForward.n = 0
    BY <2>1 DEF LoopRuns, Holding
  <2>4. brUnshown' \subseteq OnTheWay'
    <3>1. brUnshown \subseteq Items
      BY DEF BrTypeOK
    <3>2. QED BY <1>1, <1>3, <2>1, <2>2, <2>3, <3>1 DEF LoopRuns, OnTheWay
  <2>5. QED BY <1>1, <2>1, <2>4 DEF LoopRuns, MarkBehind, Flushing, Holding
<1>5. CASE PutResult
  <2>1. /\ UNCHANGED <<brResults, brTurn>> /\ brOut' = Append(brOut, brForward.n)
        /\ brForward'.n = 0 /\ brForward.n \in Items
        /\ \/ brForward.at = "put" /\ brForward'.at = "select"
           \/ brForward.at = "drainPut" /\ brForward'.at = "drain"
    BY <1>5, BridgeAssumption
       DEF PutResult, Forwards, Forward, AfterResult, BrTypeOK, Holding, Items
  <2>2. InSeq(brOut') = InSeq(brOut) \cup {brForward.n}
    <3> DEFINE S == Items \cup {FlushMark}
    <3>1. brOut \in Seq(S) /\ brForward.n \in S
      BY <1>2, <2>1
    <3> HIDE DEF S
    <3>2. QED BY <2>1, <3>1, AppendHolds
  <2>3. brUnshown' \subseteq OnTheWay'
    BY <1>1, <2>1, <2>2 DEF LoopRuns, OnTheWay
  <2>4. FlushMark \notin InSeq(brOut')
    BY <1>3, <2>1, <2>2 DEF MarkBehind
  <2>5. QED BY <1>1, <2>1, <2>3, <2>4 DEF LoopRuns, MarkBehind, Flushing, Holding
<1>6. CASE ServeFlush \/ Drained
  <2>1. /\ UNCHANGED <<brResults, brOut>> /\ brForward'.n = 0
        /\ \/ /\ brForward.at = "select" /\ brForward'.at = "drain"
              /\ brTurn = "offer" /\ brTurn' = "wait"
           \/ /\ brForward.at = "drain" /\ brForward'.at = "mark"
              /\ brResults = <<>> /\ brTurn' = brTurn
    BY <1>1, <1>6 DEF ServeFlush, Drained, Forwards, Forward
  <2>2. brForward.n = 0
    BY <2>1 DEF LoopRuns, Holding
  <2>3. OnTheWay' = OnTheWay
    BY <1>1, <2>1, <2>2 DEF OnTheWay
  <2>4. QED BY <1>1, <2>1, <2>3 DEF LoopRuns, MarkBehind, Flushing
<1>7. CASE PutMark
  <2>1. /\ UNCHANGED <<brResults, brTurn>> /\ brOut' = Append(brOut, FlushMark)
        /\ brForward.at = "mark" /\ brForward'.at = "marked" /\ brForward'.n = 0
    BY <1>7 DEF PutMark, Forwards, Forward
  <2>2. /\ brForward.n = 0 /\ brResults = <<>> /\ FlushMark \notin InSeq(brOut)
        /\ InSeq(brResults) = {}
    BY <2>1, EmptySeq DEF LoopRuns, MarkBehind, Holding, InSeq
  <2>3. /\ DOMAIN brOut' = 1 .. Len(brOut) + 1 /\ DOMAIN brOut = 1 .. Len(brOut)
        /\ Len(brOut) \in Nat
        /\ \A k \in DOMAIN brOut : brOut'[k] = brOut[k] /\ brOut[k] # FlushMark
    BY <1>2, <2>1, <2>2, AppendProperties, LenProperties DEF InSeq
  <2>4. InSeq(brOut) \subseteq Ahead(brOut')
    BY <2>3 DEF InSeq, Ahead
  <2>5. InSeq(brOut) \subseteq InSeq(brOut')
    BY <2>3 DEF InSeq
  <2>6. brUnshown' \subseteq OnTheWay'
    BY <1>1, <2>1, <2>2, <2>5 DEF LoopRuns, OnTheWay
  <2>7. brDue' \subseteq Ahead(brOut') \cup {brSending'}
    BY <1>1, <1>2, <1>3, <2>2, <2>4 DEF LoopRuns, OnTheWay
  <2>8. \A j, k \in DOMAIN brOut' : brOut'[j] = FlushMark /\ brOut'[k] = FlushMark => j = k
    BY <2>3
  <2>9. QED BY <1>1, <2>1, <2>2, <2>6, <2>7, <2>8 DEF LoopRuns, MarkBehind, Flushing
<1>8. CASE FlushDone
  <2>1. /\ UNCHANGED <<brResults, brOut>> /\ brForward'.n = 0 /\ brTurn' = "returned"
        /\ brForward.at = "done" /\ brForward'.at = "select"
    BY <1>8 DEF FlushDone, Forwards, Forward
  <2>2. brForward.n = 0 /\ brDue = {}
    BY <2>1 DEF LoopRuns, MarkBehind, Holding
  <2>3. OnTheWay' = OnTheWay
    BY <1>1, <2>1, <2>2 DEF OnTheWay
  <2>4. QED BY <1>1, <2>1, <2>2, <2>3 DEF LoopRuns, MarkBehind, Flushing
<1>9. CASE DropResult
  BY <1>1, <1>9 DEF DropResult
<1>10. QED BY <1>4, <1>5, <1>6, <1>7, <1>8, <1>9 DEF forwardToolResults

(* ... and of the goroutine that hands messages to the event loop. *)
LEMMA OutgoingKeepsLoopInv ==
  ASSUME BrTypeOK, LoopRuns, MarkBehind, forwardOutgoingMessages
  PROVE  LoopRuns' /\ MarkBehind'
<1> DEFINE S == Items \cup {FlushMark}
<1>1. brOut \in Seq(S) /\ brDue \subseteq Items /\ brUnshown \subseteq Items
  BY DEF BrTypeOK
<1>2. 0 \notin Items /\ FlushMark \notin Items
  BY BridgeAssumption DEF Items, FlushMark
<1> HIDE DEF S
<1>3. CASE SendMessage
  <2>1. /\ UNCHANGED <<brResults, brOut, brForward, brTurn, brShut>> /\ brSending' = 0
        /\ brUnshown' = brUnshown \ {brSending} /\ brDue' = brDue \ {brSending}
    BY <1>3 DEF SendMessage
  <2>2. QED BY <2>1 DEF LoopRuns, MarkBehind, OnTheWay
<1>4. CASE TakeMessage
  <2>1. /\ UNCHANGED <<brResults, brUnshown, brTurn, brShut, brDue>>
        /\ brSending = 0 /\ brOut # <<>> /\ brOut' = Tail(brOut)
    BY <1>4 DEF TakeMessage
  <2>2. /\ InSeq(brOut) = InSeq(brOut') \cup {Head(brOut)}
        /\ Ahead(brOut) \subseteq Ahead(brOut') \cup {Head(brOut)}
        /\ Head(brOut) = FlushMark => Ahead(brOut) = {}
        /\ \A j \in DOMAIN brOut' : j + 1 \in DOMAIN brOut /\ brOut'[j] = brOut[j + 1]
        /\ 1 \in DOMAIN brOut /\ Head(brOut) = brOut[1]
    BY <1>1, <2>1, TailHolds
  <2>3. DOMAIN brOut' \subseteq Nat \ {0}
    <3>1. brOut' \in Seq(S)
      BY <1>1, <2>1, TailHolds
    <3>2. QED BY <3>1, LenProperties
  <2>4. CASE Head(brOut) = FlushMark
    <3>1. brForward'.at = "done" /\ brForward'.n = 0 /\ brSending' = 0
      BY <1>4, <2>1, <2>4 DEF TakeMessage, Forward
    <3>2. brForward.at = "marked" /\ brForward.n = 0
      BY <2>2, <2>4 DEF LoopRuns, MarkBehind, InSeq, Holding
    <3>3. brDue = {}
      BY <1>1, <1>2, <2>1, <2>2, <2>4, <3>2 DEF MarkBehind
    <3>4. brUnshown' \subseteq OnTheWay'
      BY <1>1, <1>2, <2>1, <2>2, <2>4, <3>1, <3>2 DEF LoopRuns, OnTheWay
    <3>5. FlushMark \notin InSeq(brOut')
      <4> SUFFICES ASSUME NEW j \in DOMAIN brOut', brOut'[j] = FlushMark PROVE FALSE
        BY DEF InSeq
      <4>1. j + 1 = 1
        BY <2>2, <2>4, <3>2 DEF MarkBehind
      <4>2. QED BY <2>3, <4>1
    <3>6. QED BY <2>1, <3>1, <3>2, <3>3, <3>4, <3>5 DEF LoopRuns, MarkBehind, Flushing
  <2>5. CASE Head(brOut) # FlushMark
    <3>1. brForward' = brForward /\ brSending' = Head(brOut)
      BY <1>4, <2>5 DEF TakeMessage
    <3>2. brUnshown' \subseteq OnTheWay'
      BY <1>1, <1>2, <2>1, <2>2, <3>1 DEF LoopRuns, OnTheWay
    <3>3. ASSUME brForward.at # "marked" PROVE FlushMark \notin InSeq(brOut')
      BY <2>2, <3>3 DEF MarkBehind
    <3>4. ASSUME brForward.at = "marked"
          PROVE  /\ brDue' \subseteq Ahead(brOut') \cup {brSending'}
                 /\ \A j, k \in DOMAIN brOut' :
                      brOut'[j] = FlushMark /\ brOut'[k] = FlushMark => j = k
      <4>1. brDue' \subseteq Ahead(brOut') \cup {brSending'}
        BY <1>1, <1>2, <2>1, <2>2, <3>1, <3>4 DEF MarkBehind
      <4>2. ASSUME NEW j \in DOMAIN brOut', NEW k \in DOMAIN brOut',
                   brOut'[j] = FlushMark, brOut'[k] = FlushMark
            PROVE  j = k
        <5>1. j + 1 = k + 1
          BY <2>2, <3>4, <4>2 DEF MarkBehind
        <5>2. QED BY <2>3, <5>1
      <4>3. QED BY <4>1, <4>2
    <3>5. QED BY <2>1, <3>1, <3>2, <3>3, <3>4 DEF LoopRuns, MarkBehind
  <2>6. QED BY <2>4, <2>5
<1>5. QED BY <1>3, <1>4 DEF forwardOutgoingMessages

LEMMA NextKeepsBrInv == BrInv /\ [BrNext]_brVars => BrInv'
<1> SUFFICES ASSUME BrInv, [BrNext]_brVars PROVE BrInv'
  OBVIOUS
<1>1. BrTypeOK' /\ CommandNumbered'
  BY NextKeepsBrType DEF BrInv
<1>2. ASSUME brLoop' # "ended" PROVE LoopRuns' /\ MarkBehind'
  <2>1. brLoop # "ended"
    BY <1>2
       DEF BrNext, brVars, Chat, emitTUIToolInfo, TurnPrints, Flush, FlushGivenUp,
           forwardToolResults, TakeResult, PutResult, ServeFlush, DrainResult, Drained, PutMark,
           FlushDone, DropResult, Forwards, forwardOutgoingMessages, TakeMessage, SendMessage,
           Command, CommandPrints, Quit, shutdown
  <2>2. BrTypeOK /\ LoopRuns /\ MarkBehind
    BY <2>1 DEF BrInv
  <2>3. CASE Chat \/ emitTUIToolInfo \/ TurnPrints \/ Flush \/ Command \/ CommandPrints
    BY <2>2, <2>3, TurnKeepsLoopInv
  <2>4. CASE forwardToolResults \/ DropResult
    BY <2>2, <2>4, ForwardKeepsLoopInv
  <2>5. CASE forwardOutgoingMessages
    BY <2>2, <2>5, OutgoingKeepsLoopInv
  <2>6. CASE FlushGivenUp \/ Quit \/ shutdown
    BY <1>2, <2>1, <2>2, <2>6 DEF FlushGivenUp, Quit, shutdown, LoopRuns
  <2>7. CASE UNCHANGED brVars
    BY <2>2, <2>7 DEF brVars, brChannels, LoopRuns, MarkBehind, OnTheWay
  <2>8. QED BY <2>3, <2>4, <2>5, <2>6, <2>7 DEF BrNext
<1>3. QED BY <1>1, <1>2 DEF BrInv

LEMMA AlwaysBrInv == BrSpec => []BrInv
<1>1. BrInit => BrInv
  BY InitKeepsBrInv
<1>2. BrInv /\ [BrNext]_brVars => BrInv'
  BY NextKeepsBrInv
<1>3. QED BY <1>1, <1>2, PTL DEF BrSpec

(* A turn is over when the terminal has been given every result and every  *)
(* text that was taken in before it ended, unless the terminal itself has  *)
(* ended (flushPendingTUIEvents, forwardToolResults,                       *)
(* forwardOutgoingMessages).                                               *)
THEOREM FlushHasShownAll == BrSpec => []FlushShowsAll
<1>1. BrInv => FlushShowsAll
  BY DEF BrInv, MarkBehind, FlushShowsAll
<1>2. QED BY <1>1, AlwaysBrInv, PTL

----------------------------------------------------------------------------
(***************************************************************************)
(* The terminal shows the question of the goroutine that waits, for any    *)
(* number of goroutines that ask.                                          *)
(***************************************************************************)

(* An answer lies in the channel of a question that is still out. *)
AnswersAwaited == \A a \in prAnswered : prPc[a] \in {"wait", "cancel"}

(* The bridge is closed after the terminal has ended. *)
ClosedAfterEnd == prClosed => prLoop = "ended"

PromptInv == PrTypeOK /\ AnswersAwaited /\ ClosedAfterEnd /\ ModalHasAsker

LEMMA InitKeepsPromptInv == PrInit => PromptInv
BY PromptAssumption
DEF PrInit, PromptInv, PrTypeOK, AnswersAwaited, ClosedAfterEnd, ModalHasAsker

(* Only one question is out at a time: the one that holds the mutex. *)
LEMMA OneHolds ==
  ASSUME PrTypeOK, NEW a \in Askers, NEW b \in Askers,
         prPc[a] \in {"open", "wait", "cancel"}, prPc[b] \in {"open", "wait", "cancel"}
  PROVE  a = b
BY DEF PrTypeOK

(* A question that has not been shown leaves the screen empty. *)
LEMMA NothingShown ==
  ASSUME PromptInv, NEW a \in Askers, prPc[a] = "open", prLoop # "ended"
  PROVE  prModal = NoAsker
<1>1. SUFFICES ASSUME prModal # NoAsker PROVE FALSE
  OBVIOUS
<1>2. prModal \in Askers /\ prPc[prModal] \in {"wait", "cancel"}
  BY <1>1 DEF PromptInv, PrTypeOK, ModalHasAsker
<1>3. QED BY <1>2, OneHolds DEF PromptInv

(* A question that is over: it was answered, its request was cancelled, or *)
(* the terminal has ended.                                                 *)
LEMMA ReturnKeepsInv ==
  ASSUME PromptInv, NEW a \in Askers, Returns(a), prPc[a] \in {"wait", "cancel"},
         prModal' \in Askers \cup {NoAsker},
         prLoop # "ended" => prModal' # a /\ (prModal' = prModal \/ (prModal' = NoAsker /\ prModal = a))
  PROVE  PromptInv'
<1>1. \A b \in Askers : b # a => prPc[b] \in {"idle", "lock"}
  BY OneHolds DEF PromptInv, PrTypeOK
<1>2. PrTypeOK'
  BY <1>1, PromptAssumption DEF PromptInv, PrTypeOK, Returns, AskAt
<1>3. AnswersAwaited'
  BY DEF PromptInv, PrTypeOK, AnswersAwaited, Returns, AskAt
<1>4. ClosedAfterEnd'
  BY DEF PromptInv, ClosedAfterEnd, Returns
<1>5. ModalHasAsker'
  <2>1. prModal' # NoAsker /\ prLoop' # "ended" => FALSE
    BY <1>1 DEF PromptInv, PrTypeOK, ModalHasAsker, Returns
  <2>2. \A b \in Askers : prPc'[b] # "wait"
    BY <1>1 DEF PromptInv, PrTypeOK, Returns, AskAt
  <2>3. QED BY <2>1, <2>2 DEF ModalHasAsker
<1>6. QED BY <1>2, <1>3, <1>4, <1>5 DEF PromptInv

(* A question that moves on without being shown or answered. *)
LEMMA MoveKeepsInv ==
  ASSUME PromptInv, NEW a \in Askers,
         AskUser(a) \/ Prompt(a) \/ RequestCancelled(a)
  PROVE  PromptInv'
<1>1. PrTypeOK'
  BY PromptAssumption DEF PromptInv, PrTypeOK, AskUser, Prompt, RequestCancelled, AskAt
<1>2. AnswersAwaited' /\ ClosedAfterEnd'
  BY DEF PromptInv, PrTypeOK, AnswersAwaited, ClosedAfterEnd, AskUser, Prompt,
         RequestCancelled, AskAt
<1>3. ModalHasAsker'
  BY DEF PromptInv, PrTypeOK, ModalHasAsker, AskUser, Prompt, RequestCancelled, AskAt
<1>4. QED BY <1>1, <1>2, <1>3 DEF PromptInv

LEMMA OpenKeepsInv ==
  ASSUME PromptInv, NEW a \in Askers, OpenPrompt(a)
  PROVE  PromptInv'
<1>1. \A b \in Askers : b # a => prPc[b] \in {"idle", "lock"}
  BY OneHolds DEF PromptInv, PrTypeOK, OpenPrompt
<1>2. PrTypeOK'
  BY DEF PromptInv, PrTypeOK, OpenPrompt, AskAt
<1>3. a \notin prAnswered
  BY DEF PromptInv, AnswersAwaited, OpenPrompt
<1>4. AnswersAwaited' /\ ClosedAfterEnd'
  BY DEF PromptInv, PrTypeOK, AnswersAwaited, ClosedAfterEnd, OpenPrompt, AskAt
<1>5. ModalHasAsker'
  BY <1>1, <1>3, NothingShown
  DEF PromptInv, PrTypeOK, ModalHasAsker, OpenPrompt, AskAt, Sent, Shows
<1>6. QED BY <1>2, <1>4, <1>5 DEF PromptInv

LEMMA AnswerKeepsInv ==
  ASSUME PromptInv, finishPrompt
  PROVE  PromptInv'
<1>1. prModal \in Askers /\ prPc[prModal] \in {"wait", "cancel"}
  BY DEF PromptInv, PrTypeOK, ModalHasAsker, finishPrompt
<1>2. PrTypeOK' /\ AnswersAwaited' /\ ClosedAfterEnd'
  BY <1>1 DEF PromptInv, PrTypeOK, AnswersAwaited, ClosedAfterEnd, finishPrompt
<1>3. ModalHasAsker'
  BY <1>1 DEF PromptInv, ModalHasAsker, finishPrompt
<1>4. QED BY <1>2, <1>3 DEF PromptInv

LEMMA TerminalKeepsInv ==
  ASSUME PromptInv, CommandStarts \/ CommandReturns \/ TerminalEnds \/ CloseBridge
  PROVE  PromptInv'
<1>1. UNCHANGED <<prPc, prMu, prAnswered, prModal, prGiven>>
  BY DEF CommandStarts, CommandReturns, TerminalEnds, CloseBridge
<1>2. PrTypeOK'
  BY <1>1 DEF PromptInv, PrTypeOK, CommandStarts, CommandReturns, TerminalEnds, CloseBridge
<1>3. AnswersAwaited'
  BY <1>1 DEF PromptInv, AnswersAwaited
<1>4. ClosedAfterEnd'
  BY DEF PromptInv, ClosedAfterEnd, CommandStarts, CommandReturns, TerminalEnds, CloseBridge
<1>5. prLoop' # "ended" => prLoop # "ended"
  BY DEF CommandStarts, CommandReturns, TerminalEnds, CloseBridge
<1>6. ModalHasAsker'
  BY <1>1, <1>5 DEF PromptInv, ModalHasAsker
<1>7. QED BY <1>2, <1>3, <1>4, <1>6 DEF PromptInv

LEMMA StepKeepsPromptInv == PromptInv /\ [PrNext]_prVars => PromptInv'
<1> SUFFICES ASSUME PromptInv, [PrNext]_prVars PROVE PromptInv'
  OBVIOUS
<1>1. ASSUME NEW a \in Askers, GetAnswer(a) PROVE PromptInv'
  <2>1. prLoop # "ended" => prModal # a
    BY <1>1, PromptAssumption DEF GetAnswer, PromptInv, ModalHasAsker
  <2>2. prModal' = prModal /\ prModal' \in Askers \cup {NoAsker}
    BY <1>1 DEF GetAnswer, PromptInv, PrTypeOK
  <2>3. Returns(a) /\ prPc[a] \in {"wait", "cancel"}
    BY <1>1 DEF GetAnswer
  <2>4. QED BY <2>1, <2>2, <2>3, ReturnKeepsInv
<1>2. ASSUME NEW a \in Askers, CancelPrompt(a) PROVE PromptInv'
  <2>1. prModal' \in Askers \cup {NoAsker}
    BY <1>2 DEF CancelPrompt, PromptInv, PrTypeOK
  <2>2. prLoop # "ended" => prModal' # a /\ (prModal' = prModal \/ (prModal' = NoAsker /\ prModal = a))
    <3>1. prLoop # "ended" => prModal' = IF prModal = a THEN NoAsker ELSE prModal
      BY <1>2 DEF CancelPrompt, Sent, Shows
    <3>2. NoAsker # a
      BY PromptAssumption
    <3>3. CASE prModal = a
      BY <3>1, <3>2, <3>3
    <3>4. CASE prModal # a
      BY <3>1, <3>4
    <3>5. QED BY <3>3, <3>4
  <2>3. QED BY <1>2, <2>1, <2>2, ReturnKeepsInv DEF CancelPrompt
<1>3. ASSUME NEW a \in Askers, ReleasedByShutdown(a) PROVE PromptInv'
  <2>1. prLoop = "ended"
    BY <1>3 DEF ReleasedByShutdown, PromptInv, ClosedAfterEnd
  <2>2. QED BY <1>3, <2>1, ReturnKeepsInv DEF ReleasedByShutdown, PromptInv, PrTypeOK
<1>4. CASE UNCHANGED prVars
  BY <1>4 DEF prVars, PromptInv, PrTypeOK, AnswersAwaited, ClosedAfterEnd, ModalHasAsker
<1>5. QED
  BY <1>1, <1>2, <1>3, <1>4, MoveKeepsInv, OpenKeepsInv, AnswerKeepsInv, TerminalKeepsInv
  DEF PrNext, Asking

(* However many goroutines ask at the same time, and whatever of answer,   *)
(* cancel and the end of the terminal comes first: the question on the     *)
(* screen is the one that a goroutine waits for (tuiPromptBridge.Prompt).  *)
THEOREM ModalIsAskers == PrSpec => []ModalHasAsker
<1>1. PromptInv => ModalHasAsker
  BY DEF PromptInv
<1>2. QED BY <1>1, InitKeepsPromptInv, StepKeepsPromptInv, PTL DEF PrSpec

----------------------------------------------------------------------------
(* The three parts side by side. *)

(* Each part behaves as its own specification says. *)
LEMMA PartsBehave == PartSpec => TokSpec /\ BrSpec /\ PrSpec
<1>1. PartInit => TokInit /\ BrInit /\ PrInit
  BY DEF PartInit
<1>2. [PartNext]_partVars => [TokNext]_tokVars /\ [BrNext]_brVars /\ [PrNext]_prVars
  BY DEF PartNext, partVars
<1>3. QED BY <1>1, <1>2, PTL DEF PartSpec, TokSpec, BrSpec, PrSpec

(* Type correctness of the three parts in the specification the run checks. *)
THEOREM ServicesTypes == PartSpec => []ServicesTypeOK
<1>1. BrInv => BrTypeOK
  BY DEF BrInv
<1>2. PromptInv => PrTypeOK
  BY DEF PromptInv
<1>3. PrSpec => []PromptInv
  BY InitKeepsPromptInv, StepKeepsPromptInv, PTL DEF PrSpec
<1>4. TokTypeOK /\ BrTypeOK /\ PrTypeOK => ServicesTypeOK
  BY DEF ServicesTypeOK
<1>5. QED BY <1>1, <1>2, <1>3, <1>4, PartsBehave, TokTypeCorrect, AlwaysBrInv, PTL
=============================================================================
