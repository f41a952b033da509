----------------------------- MODULE TokenStore -----------------------------
(***************************************************************************)
(* The OAuth credential of the subscription provider                       *)
(* (internal/api/providers/openai_subscription): one file, shared by every *)
(* process of the user, that requests read and refresh, that a login       *)
(* writes and a logout removes.  Within a process a mutex lets one request *)
(* refresh at a time; nothing orders the processes.                        *)
(*                                                                         *)
(* The authorization server is outside the code.  It gives a new access    *)
(* token for a refresh token it knows and, when it rotates, a new refresh  *)
(* token in place of the old one, which it then forgets: an answer that is *)
(* not stored is a login that is lost.                                     *)
(***************************************************************************)
EXTENDS Integers

CONSTANTS
  Workers,   \* the goroutines that use the credential: <<process, goroutine>>
  MaxTokens  \* bound: credentials the server ever gives

ASSUME TokenAssumption == MaxTokens \in Nat

Procs == {w[1] : w \in Workers}

VARIABLES
  tokFile,      \* the credential in the file, or none
  tokHeld,      \* the workers that hold the mutex of their process
  tokPc,        \* where a worker's call stands
  tokOld,       \* the credential a worker has read
  tokNew,       \* the credential the server has given it, not yet stored
  tokServer,    \* external: whether it rotates, what it gave, what it knows
  tokStale,     \* the access tokens that need a refresh
  tokDropped,   \* ghost: refresh tokens whose successor was given, not stored
  tokRenewed    \* ghost: per process, access tokens it has stored one for

tokVars == <<tokFile, tokHeld, tokPc, tokOld, tokNew, tokServer, tokStale, tokDropped, tokRenewed>>

Numbers == 1 .. MaxTokens
Credentials == [access : Numbers, refresh : Numbers]
NoCredential == [access |-> 0, refresh |-> 0]
Places == {"idle", "load", "lock", "reload", "asked", "save", "login"}

TokInit ==
  /\ tokFile = NoCredential
  /\ tokHeld = {}
  /\ tokPc = [w \in Workers |-> "idle"]
  /\ tokOld = [w \in Workers |-> NoCredential]
  /\ tokNew = [w \in Workers |-> NoCredential]
  /\ tokServer \in [rotates : BOOLEAN, given : {0}, known : {{}}]
  /\ tokStale = {}
  /\ tokDropped = {}
  /\ tokRenewed = [p \in Procs |-> {}]

-----------------------------------------------------------------------------
needsRefresh(c) == c.access \in tokStale

(* The refresh token of w has been replaced by the one w was given. *)
Rotated(w) ==
  tokOld[w] # NoCredential /\ tokNew[w] # NoCredential /\ tokNew[w].refresh # tokOld[w].refresh
Losing(ws) == {tokOld[w].refresh : w \in {v \in ws : Rotated(v)}}

Leave(w) ==
  /\ tokPc' = [tokPc EXCEPT ![w] = "idle"]
  /\ tokOld' = [tokOld EXCEPT ![w] = NoCredential]
  /\ tokNew' = [tokNew EXCEPT ![w] = NoCredential]

(* A call returns, and its deferred unlock runs. *)
Return(w) == Leave(w) /\ tokHeld' = tokHeld \ {w}

(* Slip: only the success path unlocks. *)
FailLocked(w) ==
  /\ Leave(w)
  /\ tokDropped' = tokDropped \cup Losing({w})
  /\ UNCHANGED tokHeld

(* ... with an error; what the server gave is dropped. *)
Fail(w) == Return(w) /\ tokDropped' = tokDropped \cup Losing({w})

(* GetSubscriptionCredentialForRequest *)
Get(w) ==
  /\ tokPc[w] = "idle"
  /\ tokPc' = [tokPc EXCEPT ![w] = "load"]
  /\ UNCHANGED <<tokFile, tokHeld, tokOld, tokNew, tokServer, tokStale, tokDropped, tokRenewed>>

(* No file: a login is required.  A credential that is good enough is      *)
(* returned, another one is refreshed under the mutex.                     *)
LoadSubscriptionCredential(w) ==
  /\ tokPc[w] = "load"
  /\ IF tokFile = NoCredential \/ ~needsRefresh(tokFile)
     THEN Leave(w)
     ELSE /\ tokOld' = [tokOld EXCEPT ![w] = tokFile]
          /\ tokPc' = [tokPc EXCEPT ![w] = "lock"]
          /\ UNCHANGED tokNew
  /\ UNCHANGED <<tokFile, tokHeld, tokServer, tokStale, tokDropped, tokRenewed>>

Lock(w) ==
  /\ tokPc[w] = "lock"
  /\ \A v \in tokHeld : v[1] # w[1]
  /\ tokHeld' = tokHeld \cup {w}
  /\ tokPc' = [tokPc EXCEPT ![w] = "reload"]
  /\ UNCHANGED <<tokFile, tokOld, tokNew, tokServer, tokStale, tokDropped, tokRenewed>>

(* Slip: what was read before the wait is refreshed. *)
RefreshWhatWasRead(w) ==
  /\ tokPc[w] = "reload"
  /\ tokPc' = [tokPc EXCEPT ![w] = "asked"]
  /\ UNCHANGED <<tokFile, tokHeld, tokOld, tokNew, tokServer, tokStale, tokDropped, tokRenewed>>

(* The file is read again: another worker may have refreshed meanwhile, or *)
(* logged out.                                                             *)
Reload(w) ==
  /\ tokPc[w] = "reload"
  /\ IF tokFile = NoCredential \/ ~needsRefresh(tokFile)
     THEN Return(w)
     ELSE /\ tokOld' = [tokOld EXCEPT ![w] = tokFile]
          /\ tokPc' = [tokPc EXCEPT ![w] = "asked"]
          /\ UNCHANGED <<tokHeld, tokNew>>
  /\ UNCHANGED <<tokFile, tokServer, tokStale, tokDropped, tokRenewed>>

(* The file cannot be read, is not a credential, or has the permissions of *)
(* a file that others can read.                                            *)
ReadFails(w) ==
  /\ tokPc[w] \in {"load", "reload"}
  /\ Return(w)
  /\ UNCHANGED <<tokFile, tokServer, tokStale, tokDropped, tokRenewed>>

(* External: the server gives w a credential; a refresh token of 0 in the  *)
(* answer stands for none.                                                 *)
ServerGives(w, refresh, known) ==
  /\ tokServer.given < MaxTokens
  /\ tokServer' = [tokServer EXCEPT !.given = @ + 1, !.known = known]
  /\ tokNew' = [tokNew EXCEPT ![w] = [access |-> tokServer.given + 1, refresh |-> refresh]]

(* Slip: the refresh token of the request is kept, not the one given. *)
RefreshKeepsOld(w) ==
  /\ tokPc[w] = "asked"
  /\ tokNew[w] = NoCredential
  /\ tokOld[w].refresh \in tokServer.known
  /\ ServerGives(w, tokOld[w].refresh,
       IF tokServer.rotates
       THEN (tokServer.known \ {tokOld[w].refresh}) \cup {tokServer.given + 1}
       ELSE tokServer.known)
  /\ UNCHANGED <<tokFile, tokHeld, tokPc, tokOld, tokStale, tokDropped, tokRenewed>>

(* Slip: an answer without a refresh token is stored without one. *)
RefreshAsGiven(w) ==
  /\ tokPc[w] = "asked"
  /\ tokNew[w] = NoCredential
  /\ tokOld[w].refresh \in tokServer.known
  /\ ServerGives(w, 0, tokServer.known)
  /\ UNCHANGED <<tokFile, tokHeld, tokPc, tokOld, tokStale, tokDropped, tokRenewed>>

(* The request for a refresh is answered; an answer without a refresh      *)
(* token keeps the one that was sent.                                      *)
RefreshAnswered(w) ==
  /\ tokPc[w] = "asked"
  /\ tokNew[w] = NoCredential
  /\ tokOld[w].refresh \in tokServer.known
  /\ IF tokServer.rotates
     THEN ServerGives(w, tokServer.given + 1,
            (tokServer.known \ {tokOld[w].refresh}) \cup {tokServer.given + 1})
     ELSE ServerGives(w, tokOld[w].refresh, tokServer.known)
  /\ UNCHANGED <<tokFile, tokHeld, tokPc, tokOld, tokStale, tokDropped, tokRenewed>>

(* refreshSubscriptionCredential returns what the server gave ... *)
refreshSubscriptionCredential(w) ==
  /\ tokPc[w] = "asked"
  /\ tokNew[w] # NoCredential
  /\ tokPc' = [tokPc EXCEPT ![w] = "save"]
  /\ UNCHANGED <<tokFile, tokHeld, tokOld, tokNew, tokServer, tokStale, tokDropped, tokRenewed>>

(* ... or fails: it was refused, timed out, or was cancelled with the      *)
(* request of the user, after the server had answered as well.  The file   *)
(* stays as it is.                                                         *)
RefreshFails(w) ==
  /\ tokPc[w] = "asked"
  /\ Fail(w)
  /\ UNCHANGED <<tokFile, tokServer, tokStale, tokRenewed>>

(* writeSubscriptionTokenRecord: a temporary file takes the place of the   *)
(* file in one step, whatever is in it by now.  The chmod after it may     *)
(* still make the call return an error: the file has been replaced, and    *)
(* what a call returns is no state here, so that this is the same step.    *)
SaveSubscriptionCredential(w) ==
  /\ tokPc[w] = "save"
  /\ tokFile' = tokNew[w]
  /\ tokRenewed' = [tokRenewed EXCEPT ![w[1]] = @ \cup ({tokOld[w].access} \ {0})]
  /\ Return(w)
  /\ UNCHANGED <<tokServer, tokStale, tokDropped>>

(* The directory, the temporary file or the rename fails: nothing is       *)
(* replaced.                                                               *)
SaveFails(w) ==
  /\ tokPc[w] = "save"
  /\ Fail(w)
  /\ UNCHANGED <<tokFile, tokServer, tokStale, tokRenewed>>

-----------------------------------------------------------------------------
(* RunSubscriptionBrowserLogin and RunSubscriptionDeviceLogin: the user    *)
(* allows it at the server, or does not in time; no mutex is taken.        *)
Login(w) ==
  /\ tokPc[w] = "idle"
  /\ tokPc' = [tokPc EXCEPT ![w] = "login"]
  /\ UNCHANGED <<tokFile, tokHeld, tokOld, tokNew, tokServer, tokStale, tokDropped, tokRenewed>>

LoginAllowed(w) ==
  /\ tokPc[w] = "login"
  /\ ServerGives(w, tokServer.given + 1, tokServer.known \cup {tokServer.given + 1})
  /\ tokPc' = [tokPc EXCEPT ![w] = "save"]
  /\ UNCHANGED <<tokFile, tokHeld, tokOld, tokStale, tokDropped, tokRenewed>>

LoginFails(w) ==
  /\ tokPc[w] = "login"
  /\ Leave(w)
  /\ UNCHANGED <<tokFile, tokHeld, tokServer, tokStale, tokDropped, tokRenewed>>

LogoutSubscriptionAuth(w) ==
  /\ tokPc[w] = "idle"
  /\ tokFile' = NoCredential
  /\ UNCHANGED <<tokHeld, tokPc, tokOld, tokNew, tokServer, tokStale, tokDropped, tokRenewed>>

(* Time passes: an access token comes within a minute of its expiry. *)
Expire(a) ==
  /\ a \in 1 .. tokServer.given \ tokStale
  /\ tokStale' = tokStale \cup {a}
  /\ UNCHANGED <<tokFile, tokHeld, tokPc, tokOld, tokNew, tokServer, tokDropped, tokRenewed>>

(* A process ends, at any point; it may be started again. *)
Exit(p) ==
  LET mine == {w \in Workers : w[1] = p} IN
  /\ tokPc' = [w \in Workers |-> IF w \in mine THEN "idle" ELSE tokPc[w]]
  /\ tokOld' = [w \in Workers |-> IF w \in mine THEN NoCredential ELSE tokOld[w]]
  /\ tokNew' = [w \in Workers |-> IF w \in mine THEN NoCredential ELSE tokNew[w]]
  /\ tokHeld' = tokHeld \ mine
  /\ tokDropped' = tokDropped \cup Losing(mine)
  /\ UNCHANGED <<tokFile, tokServer, tokStale, tokRenewed>>

(* What a call does by itself once it is made. *)
Proceed(w) ==
  \/ LoadSubscriptionCredential(w) \/ Lock(w) \/ Reload(w) \/ ReadFails(w)
  \/ refreshSubscriptionCredential(w) \/ RefreshFails(w)
  \/ SaveSubscriptionCredential(w) \/ SaveFails(w)
  \/ LoginFails(w)

TokNext ==
  \/ \E w \in Workers :
       \/ Get(w) \/ Proceed(w) \/ RefreshAnswered(w)
       \/ Login(w) \/ LoginAllowed(w) \/ LogoutSubscriptionAuth(w)
  \/ \E a \in Numbers : Expire(a)
  \/ \E p \in Procs : Exit(p)

TokSpec == TokInit /\ [][TokNext]_tokVars

(* Every call runs on: its HTTP exchange has a timeout, and a mutex of Go  *)
(* is handed to a waiter that has waited too long, which strong fairness   *)
(* says: a call that can go on time and again does.                        *)
TokFairness == \A w \in Workers : SF_tokVars(Proceed(w))

-----------------------------------------------------------------------------
TokTypeOK ==
  /\ tokFile \in Credentials \cup {NoCredential}
  /\ tokHeld \subseteq Workers
  /\ tokPc \in [Workers -> Places]
  /\ tokOld \in [Workers -> Credentials \cup {NoCredential}]
  /\ tokNew \in [Workers -> Credentials \cup {NoCredential}]
  /\ tokServer \in [rotates : BOOLEAN, given : 0 .. MaxTokens, known : SUBSET Numbers]
  /\ tokStale \subseteq Numbers
  /\ tokDropped \subseteq Numbers
  /\ tokRenewed \in [Procs -> SUBSET Numbers]

(* The file never holds a refresh token the server has forgotten, unless   *)
(* an answer that replaced it is still to be stored or was never stored (a *)
(* cancel, a failed write, the end of the process): no order in which      *)
(* processes refresh, log in and log out loses the login otherwise.        *)
LoginNotLost ==
  tokFile # NoCredential =>
    \/ tokFile.refresh \in tokServer.known
    \/ tokFile.refresh \in tokDropped
    \/ \E w \in Workers : Rotated(w) /\ tokOld[w].refresh = tokFile.refresh

(* Requests of one process that find the same credential too old refresh   *)
(* it once: none asks the server about a credential that its process has   *)
(* replaced already.                                                       *)
RefreshCollapses ==
  \A w \in Workers : tokPc[w] = "asked" => tokOld[w].access \notin tokRenewed[w[1]]

(* Every request gets its credential or an error, however many wait for    *)
(* the mutex and whatever becomes of the refresh of its holder.            *)
GetReturns == \A w \in Workers : tokPc[w] \in {"load", "lock"} ~> tokPc[w] = "idle"
=============================================================================
