------------------------- MODULE ResponseChainProofs -------------------------
(***************************************************************************)
(* Proofs about ResponseChain.  The inductive invariant has three layers,  *)
(* each proved on top of the ones before it: the types with the place of   *)
(* the turn, what plan mode gives back, and the agreement of the history,  *)
(* the session and the provider's chain.                                   *)
(***************************************************************************)
EXTENDS ResponseChain, HistorySplitProofs

-----------------------------------------------------------------------------
(* What the state is made of, by the messages M and the number k of        *)
(* responses.                                                              *)

MessagesOf(n, p) == [n : 1 .. n, kind : {"plain", "calls", "reply"}, turn : 0 .. p]
ContextsOf(k) == [id : 0 .. k, runtime : Runtimes \cup {"none"},
                  prompt : Prompts \cup {"plan", "none"}]
AgentsOf(M, k) == [convo : Seq(M), logged : Seq(M), saved : ContextsOf(k),
                   cached : 0 .. k, snapshot : ContextsOf(k)]
ChatsOf(M, k) == [used : BOOLEAN, logged : Seq(M), saved : ContextsOf(k),
                  runtime : Runtimes \cup {"none"}]
ShelvesOf(M, k) ==
  {s \in [Chats -> ChatsOf(M, k)] : \A c \in Chats : s[c].used => s[c].runtime \in Runtimes}
ResponsesOf(n) == [seen : SUBSET (1 .. n), runtime : Runtimes,
                   prompt : Prompts \cup {"plan"}, open : {0, 1}]
RequestsOf(n, k) == [prev : 0 .. k, input : SUBSET (1 .. n), outputs : Nat,
                     prompt : Prompts \cup {"plan", "none"}]
TurnsOf(n) == [input : 0 .. n, first : 0 .. n, start : Nat,
               compressed : BOOLEAN, retried : BOOLEAN]
PlansOf(k) == [on : BOOLEAN, length : Nat, entries : Nat, context : ContextsOf(k)]

(* More messages and more responses: everything stays what it is. *)
LEMMA MoreMessages ==
  ASSUME NEW n \in Nat, NEW m \in Nat, NEW p \in Nat, NEW q \in Nat, n <= m, p <= q
  PROVE  MessagesOf(n, p) \subseteq MessagesOf(m, q)
BY DEF MessagesOf

LEMMA MoreContexts ==
  ASSUME NEW k \in Nat, NEW l \in Nat, k <= l
  PROVE  ContextsOf(k) \subseteq ContextsOf(l)
BY DEF ContextsOf

LEMMA MoreSequences ==
  ASSUME NEW M, NEW N, M \subseteq N
  PROVE  Seq(M) \subseteq Seq(N)
OBVIOUS

LEMMA MoreAgents ==
  ASSUME NEW M, NEW N, M \subseteq N, NEW k \in Nat, NEW l \in Nat, k <= l
  PROVE  /\ AgentsOf(M, k) \subseteq AgentsOf(N, l)
         /\ ShelvesOf(M, k) \subseteq ShelvesOf(N, l)
<1>1. Seq(M) \subseteq Seq(N) /\ ContextsOf(k) \subseteq ContextsOf(l) /\ 0 .. k \subseteq 0 .. l
  BY MoreSequences, MoreContexts, SMT
<1>2. AgentsOf(M, k) \subseteq AgentsOf(N, l)
  BY <1>1 DEF AgentsOf
<1>3. ChatsOf(M, k) \subseteq ChatsOf(N, l)
  BY <1>1 DEF ChatsOf
<1>4. QED BY <1>2, <1>3 DEF ShelvesOf

LEMMA MoreResponses ==
  ASSUME NEW n \in Nat, NEW m \in Nat, n <= m, NEW k \in Nat, NEW l \in Nat, k <= l
  PROVE  /\ ResponsesOf(n) \subseteq ResponsesOf(m)
         /\ RequestsOf(n, k) \subseteq RequestsOf(m, l)
         /\ TurnsOf(n) \subseteq TurnsOf(m)
         /\ PlansOf(k) \subseteq PlansOf(l)
<1>1. 1 .. n \subseteq 1 .. m /\ 0 .. n \subseteq 0 .. m /\ 0 .. k \subseteq 0 .. l
  BY SMT
<1>2. SUBSET (1 .. n) \subseteq SUBSET (1 .. m)
  BY <1>1
<1>3. ResponsesOf(n) \subseteq ResponsesOf(m)
  BY <1>2 DEF ResponsesOf
<1>4. RequestsOf(n, k) \subseteq RequestsOf(m, l)
  BY <1>1, <1>2 DEF RequestsOf
<1>5. TurnsOf(n) \subseteq TurnsOf(m) /\ PlansOf(k) \subseteq PlansOf(l)
  BY <1>1, MoreContexts DEF TurnsOf, PlansOf
<1>6. QED BY <1>3, <1>4, <1>5

LEMMA NothingYet ==
  ASSUME NEW n \in Nat, NEW k \in Nat
  PROVE  /\ NoContext \in ContextsOf(k) /\ NoContext.id = 0
         /\ NoRequest \in RequestsOf(n, k) /\ NoTurn \in TurnsOf(n)
         /\ NoPlan \in PlansOf(k) /\ ~NoPlan.on
<1>1. NoContext \in ContextsOf(k) /\ NoContext.id = 0
  BY DEF NoContext, ContextsOf
<1>2. NoRequest \in RequestsOf(n, k)
  BY DEF NoRequest, RequestsOf
<1>3. NoTurn \in TurnsOf(n) /\ NoPlan \in PlansOf(k) /\ ~NoPlan.on
  BY <1>1 DEF NoTurn, NoPlan, TurnsOf, PlansOf
<1>4. QED BY <1>1, <1>2, <1>3

LEMMA NothingSaid ==
  ASSUME NEW M, NEW k \in Nat
  PROVE  /\ NoContext \in ContextsOf(k) /\ NoContext.id = 0
         /\ Fresh \in AgentsOf(M, k) /\ NoChat \in ChatsOf(M, k) /\ ~NoChat.used
<1>1. NoContext \in ContextsOf(k) /\ NoContext.id = 0
  BY DEF NoContext, ContextsOf
<1>2. Fresh \in AgentsOf(M, k) /\ NoChat \in ChatsOf(M, k) /\ ~NoChat.used
  BY <1>1 DEF Fresh, NoChat, AgentsOf, ChatsOf
<1>3. QED BY <1>1, <1>2

-----------------------------------------------------------------------------
(* What the helpers return. *)

LEMMA ContextOfIs ==
  ASSUME NEW M, NEW k \in Nat, NEW a \in AgentsOf(M, k), runtime \in Runtimes
  PROVE  /\ ContextOf(a) \in ContextsOf(k) /\ ContextOf(a).id = a.cached
         /\ \/ ContextOf(a) \in {NoContext, a.snapshot, a.saved}
            \/ ContextOf(a).prompt = "none"
BY DEF AgentsOf, ContextsOf, ContextOf, NoContext

LEMMA SyncedIs ==
  ASSUME NEW M, NEW k \in Nat, NEW a \in AgentsOf(M, k), runtime \in Runtimes
  PROVE  /\ Synced(a) \in AgentsOf(M, k)
         /\ Synced(a).convo = a.convo /\ Synced(a).logged = a.logged
         /\ Synced(a).cached = a.cached /\ Synced(a).snapshot = a.snapshot
         /\ Synced(a).saved \in {NoContext, a.saved, ContextOf(a)}
         /\ a.cached # 0 => Synced(a).saved \in {NoContext, ContextOf(a)}
<1>1. ContextOf(a) \in ContextsOf(k) /\ NoContext \in ContextsOf(k)
  BY ContextOfIs, NothingSaid
<1>2. CASE ~persistId
  BY <1>1, <1>2 DEF Synced, AgentsOf
<1>3. CASE persistId /\ a.cached = 0
  BY <1>3 DEF Synced
<1>4. CASE persistId /\ a.cached # 0
  BY <1>1, <1>4 DEF Synced, AgentsOf
<1>5. QED BY <1>2, <1>3, <1>4

LEMMA SaidIs ==
  ASSUME NEW M, NEW k \in Nat, NEW a \in AgentsOf(M, k), NEW ms \in Seq(M)
  PROVE  /\ Said(a, ms) \in AgentsOf(M, k)
         /\ Said(a, ms).convo = a.convo \o ms /\ Said(a, ms).logged = a.logged \o ms
         /\ Said(a, ms).cached = a.cached
         /\ Said(a, ms).snapshot \in {a.snapshot, NoContext}
         /\ Said(a, ms).saved \in {a.saved, NoContext}
<1>1. NoContext \in ContextsOf(k)
  BY NothingSaid
<1>2. a.convo \o ms \in Seq(M) /\ a.logged \o ms \in Seq(M)
  BY DEF AgentsOf
<1>3. CASE ~persistId
  BY <1>1, <1>2, <1>3 DEF Said, AgentsOf
<1>4. CASE persistId /\ a.saved.id # 0 /\ a.saved.runtime # runtime
  BY <1>1, <1>2, <1>4 DEF Said, AgentsOf
<1>5. CASE persistId /\ ~(a.saved.id # 0 /\ a.saved.runtime # runtime)
  BY <1>1, <1>2, <1>5 DEF Said, AgentsOf
<1>6. QED BY <1>3, <1>4, <1>5

LEMMA NotedIs ==
  ASSUME NEW M, NEW k \in Nat, NEW a \in AgentsOf(M, k), NEW ms \in Seq(M)
  PROVE  /\ Noted(a, ms) \in AgentsOf(M, k)
         /\ Noted(a, ms).convo = a.convo \o ms /\ Noted(a, ms).logged = a.logged
         /\ Noted(a, ms).cached = a.cached /\ Noted(a, ms).snapshot = a.snapshot
         /\ Noted(a, ms).saved = a.saved
<1>1. a.convo \o ms \in Seq(M)
  BY DEF AgentsOf
<1>2. QED BY <1>1 DEF Noted, AgentsOf

LEMMA ClearedIs ==
  ASSUME NEW M, NEW k \in Nat, NEW a \in AgentsOf(M, k)
  PROVE  /\ Cleared(a) \in AgentsOf(M, k)
         /\ Cleared(a).convo = a.convo /\ Cleared(a).logged = a.logged
         /\ Cleared(a).cached = 0 /\ Cleared(a).snapshot = NoContext
         /\ Cleared(a).saved = NoContext
<1>1. NoContext \in ContextsOf(k) /\ 0 \in 0 .. k
  BY NothingSaid
<1>2. a = [convo |-> a.convo, logged |-> a.logged, saved |-> a.saved,
           cached |-> a.cached, snapshot |-> a.snapshot]
  BY DEF AgentsOf
<1>3. Cleared(a) = [convo |-> a.convo, logged |-> a.logged, saved |-> NoContext,
                    cached |-> 0, snapshot |-> NoContext]
  <2>1. Cleared(a) = [a EXCEPT !.cached = 0, !.snapshot = NoContext, !.saved = NoContext]
    BY DEF Cleared
  <2> DEFINE x == NoContext
  <2> HIDE DEF x
  <2>2. NoContext = x
    BY DEF x
  <2>3. QED BY <1>2, <2>1, <2>2
<1>4. a.convo \in Seq(M) /\ a.logged \in Seq(M)
  BY DEF AgentsOf
<1>5. QED BY <1>1, <1>3, <1>4 DEF AgentsOf

LEMMA RewrittenIs ==
  ASSUME NEW M, NEW k \in Nat, NEW a \in AgentsOf(M, k)
  PROVE  /\ Rewritten(a) \in AgentsOf(M, k)
         /\ Rewritten(a).convo = a.convo /\ Rewritten(a).logged = a.convo
         /\ Rewritten(a).cached = 0 /\ Rewritten(a).snapshot = NoContext
         /\ Rewritten(a).saved = NoContext
<1>1. NoContext \in ContextsOf(k) /\ 0 \in 0 .. k
  BY NothingSaid
<1>2. a = [convo |-> a.convo, logged |-> a.logged, saved |-> a.saved,
           cached |-> a.cached, snapshot |-> a.snapshot]
  BY DEF AgentsOf
<1>3. Rewritten(a) = [convo |-> a.convo, logged |-> a.convo, saved |-> NoContext,
                    cached |-> 0, snapshot |-> NoContext]
  <2>1. Rewritten(a) = [a EXCEPT !.logged = a.convo, !.saved = NoContext, !.cached = 0, !.snapshot = NoContext]
    BY DEF Rewritten
  <2> DEFINE x == NoContext
  <2> HIDE DEF x
  <2>2. NoContext = x
    BY DEF x
  <2>3. QED BY <1>2, <2>1, <2>2
<1>4. a.convo \in Seq(M) /\ a.logged \in Seq(M)
  BY DEF AgentsOf
<1>5. QED BY <1>1, <1>3, <1>4 DEF AgentsOf

Summary == [n |-> said + 1, kind |-> "plain", turn |-> 0]

LEMMA SummarisedIs ==
  ASSUME NEW M, NEW k \in Nat, NEW a \in AgentsOf(M, k),
         NEW i \in 0 .. Len(a.convo), Summary \in M
  PROVE  /\ Summarised(a, i) \in AgentsOf(M, k)
         /\ Summarised(a, i).convo = <<Summary>> \o SubSeq(a.convo, i + 1, Len(a.convo))
         /\ Summarised(a, i).logged = a.logged
         /\ Summarised(a, i).cached = 0 /\ Summarised(a, i).snapshot = NoContext
         /\ Summarised(a, i).saved = a.saved
<1> DEFINE rest == SubSeq(a.convo, i + 1, Len(a.convo))
<1>1. a.convo \in Seq(M)
  BY DEF AgentsOf
<1>2. rest \in Seq(M)
  BY <1>1
<1>3. <<Summary>> \o rest \in Seq(M)
  BY <1>2
<1> HIDE DEF rest
<1>4. Cleared(a) \in AgentsOf(M, k) /\ Cleared(a).cached = 0 /\ Cleared(a).snapshot = NoContext
  BY ClearedIs
<1>5. Summarised(a, i) = [Cleared(a) EXCEPT !.saved = a.saved, !.convo = <<Summary>> \o rest]
  BY DEF Summarised, Summary, rest
<1>6. a.saved \in ContextsOf(k) /\ Cleared(a).logged = a.logged
  BY ClearedIs DEF AgentsOf
<1>7. QED BY <1>3, <1>4, <1>5, <1>6, Zenon DEF AgentsOf, rest

LEMMA ReusableForIs ==
  ASSUME NEW M, NEW k \in Nat, NEW a \in AgentsOf(M, k), NEW prompt
  PROVE  \/ ReusableFor(a, prompt) = a
         \/ ReusableFor(a, prompt) = Cleared(a)
BY DEF ReusableFor

LEMMA ResumedFromIs ==
  ASSUME NEW M, NEW k \in Nat, NEW chat \in ChatsOf(M, k)
  PROVE  /\ ResumedFrom(chat) \in AgentsOf(M, k)
         /\ ResumedFrom(chat).convo = chat.logged /\ ResumedFrom(chat).logged = chat.logged
         /\ ResumedFrom(chat).saved \in {chat.saved, NoContext}
         /\ ResumedFrom(chat).snapshot \in {chat.saved, NoContext}
         /\ ResumedFrom(chat).cached \in {0, chat.saved.id}
<1>1. NoContext \in ContextsOf(k) /\ chat.saved \in ContextsOf(k) /\ chat.saved.id \in 0 .. k
  BY NothingSaid DEF ChatsOf, ContextsOf
<1>2. QED BY <1>1 DEF ResumedFrom, AgentsOf, ChatsOf

LEMMA ShelvedIs ==
  ASSUME NEW M, NEW k \in Nat, NEW a \in AgentsOf(M, k), NEW r \in Runtimes,
         shelf \in ShelvesOf(M, k), current \in Chats
  PROVE  /\ Shelved(a, r) \in ShelvesOf(M, k)
         /\ Shelved(a, r)[current] = [used |-> TRUE, logged |-> a.logged,
                                      saved |-> a.saved, runtime |-> r]
         /\ Shelved(a, r)[current].used
         /\ \A c \in Chats \ {current} : Shelved(a, r)[c] = shelf[c]
<1>1. [used |-> TRUE, logged |-> a.logged, saved |-> a.saved, runtime |-> r] \in ChatsOf(M, k)
  BY DEF AgentsOf, ChatsOf
<1>2. QED BY <1>1 DEF Shelved, ShelvesOf

(* To give back is to cut the history and the session to a beginning. *)
LEMMA RestoredIs ==
  ASSUME NEW M, NEW k \in Nat, NEW a \in AgentsOf(M, k), plan \in PlansOf(k)
  PROVE  /\ Restored(a) \in AgentsOf(M, k)
         /\ plan.length <= Len(a.convo) => Restored(a).convo = SubSeq(a.convo, 1, plan.length)
         /\ plan.entries <= Len(a.logged) => Restored(a).logged = SubSeq(a.logged, 1, plan.entries)
         /\ Restored(a).cached = plan.context.id /\ Restored(a).snapshot = plan.context
         /\ Restored(a).saved \in {plan.context, NoContext}
<1> DEFINE c == IF plan.length <= Len(a.convo) THEN SubSeq(a.convo, 1, plan.length) ELSE a.convo
           l == IF plan.entries < Len(a.logged) THEN SubSeq(a.logged, 1, plan.entries) ELSE a.logged
           v == IF persistId THEN plan.context ELSE NoContext
<1>1. a.convo \in Seq(M) /\ a.logged \in Seq(M)
  BY DEF AgentsOf
<1>2. plan.length \in Nat /\ plan.entries \in Nat /\ plan.context \in ContextsOf(k)
      /\ plan.context.id \in 0 .. k
  BY DEF PlansOf, ContextsOf
<1>3. c \in Seq(M)
  BY <1>1, <1>2
<1>4. l \in Seq(M)
  BY <1>1, <1>2
<1>5. plan.entries <= Len(a.logged) => l = SubSeq(a.logged, 1, plan.entries)
  BY <1>1, <1>2
<1>6. v \in ContextsOf(k) /\ v \in {plan.context, NoContext}
  BY <1>2, NothingSaid
<1>7. Restored(a) = [convo |-> c, logged |-> l, saved |-> v,
                     cached |-> plan.context.id, snapshot |-> plan.context]
  <2>1. a = [convo |-> a.convo, logged |-> a.logged, saved |-> a.saved,
             cached |-> a.cached, snapshot |-> a.snapshot]
    BY DEF AgentsOf
  <2>2. Restored(a) = [a EXCEPT !.cached = plan.context.id, !.snapshot = plan.context,
                                !.convo = c, !.logged = l, !.saved = v]
    BY DEF Restored
  <2> HIDE DEF c, l, v
  <2>3. QED BY <2>1, <2>2
<1>8. plan.length <= Len(a.convo) => c = SubSeq(a.convo, 1, plan.length)
  OBVIOUS
<1> HIDE DEF c, l, v
<1>9. Restored(a) \in AgentsOf(M, k)
  BY <1>2, <1>3, <1>4, <1>6, <1>7 DEF AgentsOf
<1>10. QED BY <1>5, <1>6, <1>7, <1>8, <1>9

-----------------------------------------------------------------------------
(* The first layer: types, and the turn starts with its input, which is no *)
(* reply; plan mode is on in a turn only, and never in one that            *)
(* implements a plan.                                                      *)

InTurn == stage \in {"ask", "wait", "tools", "between"}

StateOK ==
  /\ agent \in AgentsOf(Messages, Len(server))
  /\ shelf \in ShelvesOf(Messages, Len(server))
  /\ server \in Seq(ResponsesOf(said))
  /\ turn \in TurnsOf(said)
  /\ plan \in PlansOf(Len(server))
  /\ request \in RequestsOf(said, Len(server))

NumbersOK ==
  /\ prompted \in 0 .. MaxPrompts /\ said \in Nat /\ changes \in 0 .. MaxChanges
  /\ unsettled \subseteq 1 .. said

SettingOK ==
  /\ current \in Chats /\ shelf[current].used /\ runtime \in Runtimes /\ persistId \in BOOLEAN
  /\ stage \in {"ready", "ask", "wait", "tools", "between", "review", "rerun", "handoff"}
  /\ replanned \in BOOLEAN /\ building \in BOOLEAN
  /\ stage = "wait" => request.prompt \in Prompts \cup {"plan"}

TurnPlace ==
  InTurn => /\ turn.start < Len(agent.convo)
            /\ ~IsReply(agent.convo[turn.start + 1])
            /\ turn.input > 0

PlanPlace ==
  /\ plan.on => (InTurn \/ stage = "review") /\ ~building /\ prompted > 0
  /\ stage \in {"review", "rerun", "handoff"} => ~building /\ prompted > 0
  /\ stage = "review" => plan.on
  /\ building => prompted > 0

RcTypes == StateOK /\ NumbersOK /\ SettingOK /\ TurnPlace /\ PlanPlace

(* The old state under the new messages M and number k of responses. *)
Under(M, k) ==
  /\ M = Messages' /\ k = Len(server') /\ k \in Nat
  /\ agent \in AgentsOf(M, k) /\ shelf \in ShelvesOf(M, k)
  /\ server \in Seq(ResponsesOf(said'))
  /\ turn \in TurnsOf(said') /\ plan \in PlansOf(k)
  /\ request \in RequestsOf(said', k) /\ unsettled \subseteq 1 .. said'

LEMMA Grown ==
  ASSUME RcTypes, said' \in Nat, said <= said', prompted' \in Nat, prompted <= prompted',
         Len(server') \in Nat, Len(server) <= Len(server')
  PROVE  \E M, k : Under(M, k)
<1>1. said \in Nat /\ prompted \in Nat /\ Len(server) \in Nat
  BY DEF RcTypes, NumbersOK, StateOK
<1>2. Messages \subseteq Messages'
  BY <1>1, MoreMessages DEF Messages, MessagesOf
<1>4. /\ AgentsOf(Messages, Len(server)) \subseteq AgentsOf(Messages', Len(server'))
      /\ ShelvesOf(Messages, Len(server)) \subseteq ShelvesOf(Messages', Len(server'))
  BY <1>1, <1>2, MoreAgents
<1>5. /\ ResponsesOf(said) \subseteq ResponsesOf(said')
      /\ RequestsOf(said, Len(server)) \subseteq RequestsOf(said', Len(server'))
      /\ TurnsOf(said) \subseteq TurnsOf(said')
      /\ PlansOf(Len(server)) \subseteq PlansOf(Len(server'))
  BY <1>1, MoreResponses
<1>6. Seq(ResponsesOf(said)) \subseteq Seq(ResponsesOf(said'))
  BY <1>5, MoreSequences
<1>7. unsettled \subseteq 1 .. said'
  BY <1>1 DEF RcTypes, NumbersOK
<1>8. Under(Messages', Len(server'))
  BY <1>4, <1>5, <1>6, <1>7 DEF Under, RcTypes, StateOK
<1>9. QED BY <1>8

LEMMA StateKept ==
  ASSUME NEW M, NEW k, Under(M, k),
         agent' \in AgentsOf(M, k), shelf' \in ShelvesOf(M, k),
         server' \in Seq(ResponsesOf(said')), turn' \in TurnsOf(said'), plan' \in PlansOf(k),
         request' \in RequestsOf(said', k)
  PROVE  StateOK'
BY DEF Under, StateOK

LEMMA MsgIs ==
  ASSUME RcTypes, NEW i \in Nat \ {0}, NEW kind \in {"plain", "calls", "reply"},
         NEW M, NEW k, Under(M, k),
         said' \in Nat, said + i <= said', prompted' \in Nat, prompted <= prompted'
  PROVE  /\ Msg(i, kind) \in M /\ Msg(i, kind).n = said + i
         /\ Msg(i, kind).kind = kind
         /\ Msg(i, kind).turn = IF plan.on THEN prompted ELSE 0
<1>1. said \in Nat /\ prompted \in Nat /\ M = Messages'
  BY DEF RcTypes, NumbersOK, Under
<1>2. QED BY <1>1 DEF Msg, Messages

LEMMA PersistIs ==
  ASSUME NEW M, NEW k \in Nat, NEW a \in AgentsOf(M, k), shelf \in ShelvesOf(M, k),
         current \in Chats, runtime \in Runtimes, Persist(a)
  PROVE  /\ agent' = Synced(a) /\ agent' \in AgentsOf(M, k)
         /\ agent'.convo = a.convo /\ agent'.logged = a.logged
         /\ shelf' = Shelved(Synced(a), runtime) /\ shelf' \in ShelvesOf(M, k)
         /\ shelf'[current].used
<1>2. Synced(a) \in AgentsOf(M, k) /\ Synced(a).convo = a.convo /\ Synced(a).logged = a.logged
  BY SyncedIs
<1>3. Shelved(Synced(a), runtime) \in ShelvesOf(M, k) /\ Shelved(Synced(a), runtime)[current].used
  BY <1>2, ShelvedIs
<1>4. QED BY <1>2, <1>3 DEF Persist

(* One more message in the history and the session, and both are saved. *)
LEMMA PersistSaid ==
  ASSUME RcTypes, NEW M, NEW k, Under(M, k), NEW a \in AgentsOf(M, k), NEW m \in M,
         Persist(Said(a, <<m>>))
  PROVE  /\ Said(a, <<m>>) \in AgentsOf(M, k)
         /\ agent' = Synced(Said(a, <<m>>)) /\ shelf' = Shelved(agent', runtime)
         /\ agent' \in AgentsOf(M, k) /\ shelf' \in ShelvesOf(M, k) /\ shelf'[current].used
         /\ agent'.convo = a.convo \o <<m>> /\ agent'.logged = a.logged \o <<m>>
<1> DEFINE b == Said(a, <<m>>)
<1>1. <<m>> \in Seq(M) /\ k \in Nat
  BY DEF Under
<1>2. b \in AgentsOf(M, k) /\ b.convo = a.convo \o <<m>> /\ b.logged = a.logged \o <<m>>
  BY <1>1, SaidIs, ZenonT(60)
<1> HIDE DEF b
<1>3. current \in Chats /\ runtime \in Runtimes /\ shelf \in ShelvesOf(M, k)
  BY DEF RcTypes, SettingOK, Under
<1>4. Persist(b)
  BY DEF b
<1>5. QED BY <1>1, <1>2, <1>3, <1>4, PersistIs DEF b

(* Setting and counts an action leaves alone. *)
LEMMA SettingKept ==
  ASSUME SettingOK, setting' = setting, shelf'[current].used, stage' # "wait",
         stage' \in {"ready", "ask", "wait", "tools", "between", "review", "rerun", "handoff"},
         replanned' \in BOOLEAN, building' \in BOOLEAN
  PROVE  SettingOK' /\ current' = current /\ runtime' = runtime /\ persistId' = persistId
<1>1. current' = current /\ runtime' = runtime /\ persistId' = persistId
  BY DEF setting
<1>2. QED BY <1>1 DEF SettingOK

(* What is said at the end of a history that is not empty leaves the start *)
(* of the turn where it is.                                                *)
LEMMA EndGrows ==
  ASSUME NEW M, NEW s \in Seq(M), NEW t \in Seq(M), NEW i \in Nat, i < Len(s)
  PROVE  i < Len(s \o t) /\ (s \o t)[i + 1] = s[i + 1]
OBVIOUS

LEMMA EndIs ==
  ASSUME NEW M, NEW s \in Seq(M), NEW m \in M
  PROVE  Len(s) \in Nat /\ Len(s) < Len(s \o <<m>>) /\ (s \o <<m>>)[Len(s) + 1] = m
OBVIOUS

LEMMA TwoMore ==
  ASSUME NEW M, NEW s \in Seq(M), NEW m \in M, NEW q \in M
  PROVE  (s \o <<m>>) \o <<q>> = s \o <<m, q>>
<1>1. <<m>> \o <<q>> = <<m, q>>
  <2>1. <<m>> \in Seq(M) /\ <<q>> \in Seq(M) /\ Len(<<m>>) = 1 /\ Len(<<q>>) = 1
    OBVIOUS
  <2>2. (<<m>> \o <<q>>) \in Seq(M) /\ <<m, q>> \in Seq(M) /\ Len(<<m>> \o <<q>>) = 2
        /\ Len(<<m, q>>) = 2 
    BY <2>1
  <2>3. (<<m>> \o <<q>>)[1] = m /\ (<<m>> \o <<q>>)[2] = q
    BY <2>1
  <2>5. \A i \in 1 .. Len(<<m>> \o <<q>>) : (<<m>> \o <<q>>)[i] = <<m, q>>[i]
    BY <2>2, <2>3
  <2>4. QED BY <2>2, <2>5, SeqEqual
<1>2. (s \o <<m>>) \o <<q>> = s \o (<<m>> \o <<q>>)
  BY <<m>> \in Seq(M), <<q>> \in Seq(M), ConcatAssociative
<1>3. QED BY <1>1, <1>2

LEMMA RcTypesInit ==
  RcInit => RcTypes
<1> SUFFICES ASSUME RcInit PROVE RcTypes
  OBVIOUS
<1>1. said = 0 /\ prompted = 0 /\ Len(server) = 0 /\ server \in Seq(ResponsesOf(said))
  BY DEF RcInit
<1>2. agent \in AgentsOf(Messages, Len(server))
  BY <1>1, NothingSaid DEF RcInit
<1>3. NewChat \in ChatsOf(Messages, Len(server)) /\ NewChat.used /\ NewChat.runtime \in Runtimes
      /\ NoChat \in ChatsOf(Messages, Len(server)) /\ ~NoChat.used
  <2>1. NoContext \in ContextsOf(Len(server)) /\ NoChat \in ChatsOf(Messages, Len(server)) /\ ~NoChat.used
    BY <1>1, NothingSaid
  <2>2. runtime \in Runtimes
    BY DEF RcInit
  <2>3. QED BY <2>1, <2>2 DEF NewChat, ChatsOf
<1>4. shelf \in ShelvesOf(Messages, Len(server)) /\ shelf[current].used
  BY <1>3 DEF RcInit, ShelvesOf
<1>5. turn \in TurnsOf(said) /\ plan \in PlansOf(Len(server)) /\ request \in RequestsOf(said, Len(server))
  BY <1>1, NothingYet DEF RcInit
<1>6. StateOK
  BY <1>1, <1>2, <1>4, <1>5 DEF StateOK
<1>7. NumbersOK
  BY ChainAssumption DEF RcInit, NumbersOK
<1>10. SettingOK
  BY <1>4 DEF RcInit, SettingOK
<1>8. TurnPlace /\ PlanPlace
  BY DEF RcInit, TurnPlace, PlanPlace, InTurn, NoPlan
<1>9. QED BY <1>6, <1>7, <1>8, <1>10 DEF RcTypes

LEMMA PromptTypes ==
  ASSUME RcTypes, Prompt PROVE RcTypes'
<1> DEFINE m == Msg(1, "plain")
<1>1. said \in Nat /\ prompted \in Nat /\ prompted' \in 0 .. MaxPrompts /\ said' = said + 1
      /\ prompted' = prompted + 1 /\ server' = server /\ Len(server) \in Nat
  BY ChainAssumption DEF RcTypes, NumbersOK, StateOK, Prompt, Speak
<1>2. PICK M, k : Under(M, k)
  BY <1>1, Grown
<1>3. m \in M /\ m.kind = "plain"
  BY <1>1, <1>2, MsgIs
<1>4. Persist(Said(agent, <<m>>))
  BY DEF Prompt
<1> HIDE DEF m
<1>5. /\ agent' \in AgentsOf(M, k) /\ shelf' \in ShelvesOf(M, k)
      /\ shelf'[current].used /\ agent'.convo = agent.convo \o <<m>>
  BY <1>2, <1>3, <1>4, PersistSaid DEF Under
<1>6. turn' = [input |-> said + 1, first |-> said, start |-> Len(agent.convo),
               compressed |-> FALSE, retried |-> FALSE]
  BY DEF Prompt, BeginTurn
<1>7. agent.convo \in Seq(M)
  BY <1>2 DEF Under, AgentsOf
<1>8. turn' \in TurnsOf(said')
  BY <1>1, <1>6, <1>7 DEF TurnsOf
<1>9. StateOK'
  BY <1>2, <1>5, <1>8, StateKept DEF Prompt, Under
<1>10. NumbersOK'
  BY <1>1, <1>2 DEF RcTypes, NumbersOK, Prompt, Under
<1>11. SettingOK'
  BY <1>5, SettingKept DEF RcTypes, SettingOK, Prompt
<1>12. TurnPlace'
  BY <1>1, <1>3, <1>5, <1>6, <1>7, EndIs DEF TurnPlace, IsReply
<1>13. PlanPlace'
  BY <1>1 DEF RcTypes, PlanPlace, InTurn, Prompt
<1>14. QED BY <1>9, <1>10, <1>11, <1>12, <1>13 DEF RcTypes

(* The plan is not on yet, the number is that of the prompt. *)
LEMMA InvestigateTypes ==
  ASSUME RcTypes, NEW M, NEW k, Under(M, k), NEW number \in 0 .. prompted', prompted' \in Nat,
         said' = said + 1, Investigate(number)
  PROVE  /\ agent' \in AgentsOf(M, k) /\ shelf' \in ShelvesOf(M, k) /\ shelf'[current].used
         /\ plan' \in PlansOf(k)
         /\ agent'.convo = agent.convo \o <<[n |-> said + 1, kind |-> "plain", turn |-> number]>>
         /\ Len(agent.convo) \in Nat /\ Len(agent.convo) < Len(agent'.convo)
         /\ agent'.convo[Len(agent.convo) + 1].kind = "plain"
<1> DEFINE m == [n |-> said + 1, kind |-> "plain", turn |-> number]
           a == Said(agent, <<m>>)
<1>1. m \in M /\ m.kind = "plain"
  BY DEF Under, Messages, RcTypes, NumbersOK
<1>2. Persist(Said(agent, <<m>>))
      /\ plan' = [on |-> TRUE, length |-> Len(agent.convo), entries |-> Len(agent.logged),
                  context |-> ContextOf(Synced(Said(agent, <<m>>)))]
  BY DEF Investigate
<1> HIDE DEF m
<1>3. /\ agent' \in AgentsOf(M, k) /\ shelf' \in ShelvesOf(M, k) /\ agent' = Synced(Said(agent, <<m>>))
      /\ shelf'[current].used /\ agent'.convo = agent.convo \o <<m>>
  BY <1>1, <1>2, PersistSaid, SMTT(40) DEF Under
<1>4. ContextOf(agent') \in ContextsOf(k)
  BY <1>3, ContextOfIs DEF Under, RcTypes, SettingOK
<1>5. agent.convo \in Seq(M) /\ agent.logged \in Seq(M)
  BY DEF Under, AgentsOf
<1>6. plan' \in PlansOf(k)
  BY <1>2, <1>3, <1>4, <1>5 DEF PlansOf
<1>7. QED BY <1>1, <1>3, <1>5, <1>6, EndIs, SMTT(60) DEF m

LEMMA PlanPromptTypes ==
  ASSUME RcTypes, PlanPrompt PROVE RcTypes'
<1>1. said \in Nat /\ prompted \in Nat /\ prompted' \in 0 .. MaxPrompts /\ said' = said + 1
      /\ prompted' = prompted + 1 /\ prompted' \in Nat /\ server' = server /\ Len(server) \in Nat
  BY ChainAssumption DEF RcTypes, NumbersOK, StateOK, PlanPrompt, Investigate, Speak
<1>2. PICK M, k : Under(M, k)
  BY <1>1, Grown
<1>3. Investigate(prompted + 1) /\ prompted + 1 \in 0 .. prompted'
  BY <1>1 DEF PlanPrompt
<1>5. /\ agent' \in AgentsOf(M, k) /\ shelf' \in ShelvesOf(M, k)
      /\ shelf'[current].used /\ plan' \in PlansOf(k)
      /\ Len(agent.convo) \in Nat /\ Len(agent.convo) < Len(agent'.convo)
      /\ agent'.convo[Len(agent.convo) + 1].kind = "plain"
  BY <1>1, <1>2, <1>3, InvestigateTypes
<1>6. turn' = [input |-> said + 1, first |-> said, start |-> Len(agent.convo),
               compressed |-> FALSE, retried |-> FALSE]
  BY DEF PlanPrompt, BeginTurn
<1>8. turn' \in TurnsOf(said')
  BY <1>1, <1>5, <1>6 DEF TurnsOf
<1>9. StateOK'
  BY <1>2, <1>5, <1>8, StateKept DEF PlanPrompt, Under
<1>10. NumbersOK'
  BY <1>1, <1>2 DEF RcTypes, NumbersOK, PlanPrompt, Under
<1>4. stage' = "ask"
  BY <1>3 DEF Investigate
<1>11. SettingOK'
  BY <1>4, <1>5, SettingKept DEF RcTypes, SettingOK, PlanPrompt
<1>12. TurnPlace'
  BY <1>1, <1>5, <1>6 DEF TurnPlace, IsReply
<1>13. PlanPlace'
  BY <1>1, <1>4 DEF RcTypes, PlanPlace, InTurn, PlanPrompt
<1>14. QED BY <1>9, <1>10, <1>11, <1>12, <1>13 DEF RcTypes

LEMMA RerunTypes ==
  ASSUME RcTypes, Rerun PROVE RcTypes'
<1>1. said \in Nat /\ prompted \in Nat /\ prompted' = prompted /\ said' = said + 1
      /\ server' = server /\ Len(server) \in Nat
  BY DEF RcTypes, NumbersOK, StateOK, Rerun, Investigate, Speak
<1>2. PICK M, k : Under(M, k)
  BY <1>1, Grown
<1>3. Investigate(prompted) /\ prompted \in 0 .. prompted'
  BY <1>1 DEF Rerun
<1>5. /\ agent' \in AgentsOf(M, k) /\ shelf' \in ShelvesOf(M, k)
      /\ shelf'[current].used /\ plan' \in PlansOf(k)
      /\ Len(agent.convo) \in Nat /\ Len(agent.convo) < Len(agent'.convo)
      /\ agent'.convo[Len(agent.convo) + 1].kind = "plain"
  BY <1>1, <1>2, <1>3, InvestigateTypes
<1>6. turn' = [turn EXCEPT !.input = said + 1, !.start = Len(agent.convo)]
  BY DEF Rerun
<1>7. turn \in TurnsOf(said')
  BY <1>2 DEF Under
<1>8. turn' \in TurnsOf(said') /\ turn'.start = Len(agent.convo) /\ turn'.input = said + 1
  <2>1. turn' = [input |-> said + 1, first |-> turn.first, start |-> Len(agent.convo),
                 compressed |-> turn.compressed, retried |-> turn.retried]
    BY <1>6, <1>7 DEF TurnsOf
  <2>2. turn.first \in 0 .. said' /\ turn.compressed \in BOOLEAN /\ turn.retried \in BOOLEAN
    BY <1>7 DEF TurnsOf
  <2>3. QED BY <1>1, <1>5, <2>1, <2>2 DEF TurnsOf
<1>9. StateOK'
  BY <1>2, <1>5, <1>8, StateKept DEF Rerun, Under
<1>4. facts' = facts /\ changes' = changes /\ stage' = "ask" /\ stage = "rerun" /\ setting' = setting
  BY <1>3 DEF Rerun, Investigate
<1>15. unsettled' = unsettled /\ replanned' = replanned /\ building' = building
  BY <1>4 DEF facts
<1>10. NumbersOK'
  BY <1>1, <1>2, <1>4, <1>15 DEF RcTypes, NumbersOK, Under
<1>11. SettingOK'
  BY <1>4, <1>15, <1>5, SettingKept DEF RcTypes, SettingOK
<1>12. TurnPlace'
  BY <1>1, <1>5, <1>8 DEF TurnPlace, IsReply
<1>13. PlanPlace'
  BY <1>1, <1>4, <1>15 DEF RcTypes, PlanPlace, InTurn
<1>14. QED BY <1>9, <1>10, <1>11, <1>12, <1>13 DEF RcTypes

LEMMA HandoffTypes ==
  ASSUME RcTypes, Handoff PROVE RcTypes'
<1> DEFINE m == Msg(1, "plain")
<1>1. said \in Nat /\ prompted \in Nat /\ said' = said + 1 /\ turn.compressed \in BOOLEAN
      /\ prompted' = prompted /\ server' = server /\ Len(server) \in Nat
  BY DEF RcTypes, NumbersOK, StateOK, TurnsOf, Handoff, Speak
<1>2. PICK M, k : Under(M, k)
  BY <1>1, Grown
<1>3. m \in M /\ m.kind = "plain"
  BY <1>1, <1>2, MsgIs
<1>4. Persist(Said(agent, <<m>>))
  BY DEF Handoff
<1> HIDE DEF m
<1>5. /\ agent' \in AgentsOf(M, k) /\ shelf' \in ShelvesOf(M, k)
      /\ shelf'[current].used /\ agent'.convo = agent.convo \o <<m>>
  BY <1>2, <1>3, <1>4, PersistSaid DEF Under
<1>6. turn' = [input |-> said + 1, first |-> said, start |-> Len(agent.convo),
               compressed |-> turn.compressed, retried |-> FALSE]
  BY DEF Handoff, BeginTurn
<1>7. agent.convo \in Seq(M)
  BY <1>2 DEF Under, AgentsOf
<1>8. turn' \in TurnsOf(said')
  BY <1>1, <1>6, <1>7 DEF TurnsOf
<1>9. StateOK'
  BY <1>2, <1>5, <1>8, StateKept DEF Handoff, Under
<1>10. NumbersOK'
  BY <1>1, <1>2 DEF RcTypes, NumbersOK, Handoff, Under
<1>11. SettingOK'
  BY <1>5, SettingKept DEF RcTypes, SettingOK, Handoff
<1>12. TurnPlace'
  BY <1>1, <1>3, <1>5, <1>6, <1>7, EndIs DEF TurnPlace, IsReply
<1>13. PlanPlace'
  BY <1>1 DEF RcTypes, PlanPlace, InTurn, Handoff
<1>14. QED BY <1>9, <1>10, <1>11, <1>12, <1>13 DEF RcTypes

LEMMA RequestForIs ==
  ASSUME NEW n \in Nat, NEW p \in Nat, NEW k \in Nat, NEW a \in AgentsOf(MessagesOf(n, p), k),
         a.convo # <<>>, NEW prompt \in Prompts \cup {"plan"}
  PROVE  /\ RequestFor(a, prompt) \in RequestsOf(n, k)
         /\ RequestFor(a, prompt).prev = a.cached /\ RequestFor(a, prompt).prompt = prompt
         /\ a.cached = 0 => RequestFor(a, prompt).input = Numbers(a.convo)
         /\ a.convo[Len(a.convo)].n \in RequestFor(a, prompt).input
         /\ RequestFor(a, prompt).input \subseteq Numbers(a.convo)
<1> DEFINE s == a.convo
           new == IF a.cached = 0 THEN DOMAIN s
                  ELSE IF Trailing(s) # {} THEN Trailing(s) ELSE {Len(s)}
<1>1. s \in Seq(MessagesOf(n, p)) /\ a.cached \in 0 .. k
  BY DEF AgentsOf
<1>2. Len(s) \in DOMAIN s
  BY <1>1
<1>3. Trailing(s) \subseteq DOMAIN s /\ (Trailing(s) # {} => Len(s) \in Trailing(s))
  <2>1. Trailing(s) \subseteq DOMAIN s
    BY DEF Trailing
  <2>2. ASSUME NEW i \in Trailing(s) PROVE Len(s) \in Trailing(s)
    <3>1. Len(s) \in i .. Len(s) /\ Len(s) .. Len(s) \subseteq i .. Len(s)
      BY <1>1, <2>2 DEF Trailing
    <3>2. QED BY <1>2, <2>2, <3>1 DEF Trailing
  <2>3. QED BY <2>1, <2>2
<1>4. new \subseteq DOMAIN s /\ Len(s) \in new /\ (a.cached = 0 => new = DOMAIN s)
  BY <1>2, <1>3
<1>5. Cardinality(new \cap Trailing(s)) \in Nat
  <2>1. DOMAIN s = 1 .. Len(s) /\ Len(s) \in Nat /\ 1 \in Int
    BY <1>1
  <2>2. IsFiniteSet(DOMAIN s)
    BY <2>1, FS_Interval
  <2>3. new \cap Trailing(s) \subseteq DOMAIN s
    BY <1>4
  <2>4. QED BY <2>2, <2>3, FS_Subset, FS_CardinalityType
<1>6. \A i \in DOMAIN s : s[i].n \in 1 .. n
  <2>1. \A i \in DOMAIN s : s[i] \in MessagesOf(n, p)
    BY <1>1
  <2>2. QED BY <2>1 DEF MessagesOf
<1>7. RequestFor(a, prompt) = [prev |-> a.cached, input |-> {s[i].n : i \in new},
                               outputs |-> Cardinality(new \cap Trailing(s)), prompt |-> prompt]
  BY DEF RequestFor
<1> HIDE DEF new
<1>8. {s[i].n : i \in new} \in SUBSET (1 .. n)
  BY <1>4, <1>6
<1>9. s[Len(s)].n \in {s[i].n : i \in new} /\ {s[i].n : i \in new} \subseteq Numbers(s)
      /\ (a.cached = 0 => {s[i].n : i \in new} = Numbers(s))
  BY <1>4 DEF Numbers
<1> HIDE DEF s
<1>10. RequestFor(a, prompt) \in RequestsOf(n, k)
  BY <1>1, <1>5, <1>7, <1>8 DEF RequestsOf
<1>11. QED BY <1>7, <1>9, <1>10 DEF s

LEMMA AskTypes ==
  ASSUME RcTypes, Ask PROVE RcTypes'
<1>1. said \in Nat /\ prompted \in Nat /\ Len(server) \in Nat
      /\ agent \in AgentsOf(MessagesOf(said, prompted), Len(server)) /\ agent.convo # <<>>
  BY DEF RcTypes, NumbersOK, StateOK, Ask, TurnPlace, InTurn, Messages, MessagesOf, TurnsOf
<1>2. PICK prompt \in Prompts \cup {"plan"} :
        /\ agent' = ReusableFor(agent, prompt) \/ agent' = Cleared(agent)
        /\ request' = RequestFor(agent', prompt)
        /\ changes' = changes \/ Change
  BY DEF Ask
<1>3. agent' \in AgentsOf(MessagesOf(said, prompted), Len(server)) /\ agent'.convo = agent.convo
  BY <1>1, <1>2, ReusableForIs, ClearedIs
<1>4. RequestFor(agent', prompt) \in RequestsOf(said, Len(server))
      /\ RequestFor(agent', prompt).prompt = prompt
  BY <1>1, <1>3, RequestForIs
<1>5. UNCHANGED <<shelf, setting, turn, plan, server, prompted, said, facts>> /\ stage = "ask" /\ stage' = "wait"
  BY DEF Ask
<1>6. StateOK'
  BY <1>2, <1>3, <1>4, <1>5 DEF RcTypes, StateOK, Messages, MessagesOf
<1>7. changes' \in 0 .. MaxChanges
  BY <1>2, ChainAssumption DEF RcTypes, NumbersOK, Change
<1>8. NumbersOK'
  BY <1>5, <1>7 DEF RcTypes, NumbersOK, facts
<1>9. SettingOK'
  BY <1>2, <1>4, <1>5 DEF RcTypes, SettingOK, facts, setting
<1>10. TurnPlace' /\ PlanPlace'
  BY <1>3, <1>5 DEF RcTypes, TurnPlace, PlanPlace, InTurn, facts
<1>11. QED BY <1>6, <1>8, <1>9, <1>10 DEF RcTypes

LEMMA RefuseTypes ==
  ASSUME RcTypes, Refuse PROVE RcTypes'
<1>1. said \in Nat /\ prompted \in Nat /\ Len(server) \in Nat
      /\ agent \in AgentsOf(MessagesOf(said, prompted), Len(server)) /\ agent.convo # <<>>
      /\ request.prompt \in Prompts \cup {"plan"}
  BY DEF RcTypes, NumbersOK, SettingOK, StateOK, Refuse, TurnPlace, InTurn, Messages, MessagesOf, TurnsOf
<1>3. agent' \in AgentsOf(MessagesOf(said, prompted), Len(server)) /\ agent'.convo = agent.convo
  BY <1>1, SMTT(40) DEF Refuse, AgentsOf
<1>4. RequestFor(agent', request.prompt) \in RequestsOf(said, Len(server))
      /\ RequestFor(agent', request.prompt).prompt = request.prompt
  BY <1>1, <1>3, RequestForIs
<1>5. UNCHANGED <<shelf, setting, stage, turn, plan, server, counts, facts>> /\ stage = "wait"
      /\ request' = RequestFor(agent', request.prompt)
  BY DEF Refuse
<1>6. StateOK'
  BY <1>3, <1>4, <1>5 DEF RcTypes, StateOK, Messages, MessagesOf, counts
<1>8. NumbersOK'
  BY <1>5 DEF RcTypes, NumbersOK, facts, counts
<1>9. SettingOK'
  BY <1>1, <1>4, <1>5 DEF RcTypes, SettingOK, facts, setting
<1>10. TurnPlace' /\ PlanPlace'
  BY <1>3, <1>5 DEF RcTypes, TurnPlace, PlanPlace, InTurn, facts, counts
<1>11. QED BY <1>6, <1>8, <1>9, <1>10 DEF RcTypes

(* The provider answers: a response is stored, and the agent has its ID.   *)
Stored(open) ==
  [seen |-> (IF request.prev = 0 THEN {} ELSE server[request.prev].seen)
              \cup request.input \cup {said + 1},
   runtime |-> runtime, prompt |-> request.prompt, open |-> open]

LEMMA RespondsTypes ==
  ASSUME RcTypes, NEW open \in {0, 1}, Responds(open), said' \in Nat, said + 1 <= said'
  PROVE  /\ server' = Append(server, Stored(open)) /\ Len(server') = Len(server) + 1
         /\ server' \in Seq(ResponsesOf(said')) /\ Len(server') \in Nat
         /\ \E M, k : Under(M, k)
<1>1. said \in Nat /\ prompted \in Nat /\ prompted' = prompted /\ Len(server) \in Nat
  BY DEF RcTypes, NumbersOK, StateOK, Responds
<1>2. request \in RequestsOf(said, Len(server)) /\ server \in Seq(ResponsesOf(said))
      /\ request.prompt \in Prompts \cup {"plan"} /\ runtime \in Runtimes
  BY DEF RcTypes, StateOK, SettingOK, Responds
<1>3. server' = Append(server, Stored(open))
  BY DEF Responds, Store, Stored
<1>4. (IF request.prev = 0 THEN {} ELSE server[request.prev].seen) \subseteq 1 .. said
  <2>1. CASE request.prev # 0
    <3>1. request.prev \in 1 .. Len(server)
      BY <1>2, <2>1 DEF RequestsOf
    <3>2. server[request.prev] \in ResponsesOf(said)
      BY <1>2, <3>1
    <3>3. QED BY <3>2 DEF ResponsesOf
  <2>2. QED BY <2>1
<1>5. request.input \subseteq 1 .. said
  BY <1>2 DEF RequestsOf
<1>6. Stored(open).seen \in SUBSET (1 .. said')
  <2>1. 1 .. said \subseteq 1 .. said' /\ said + 1 \in 1 .. said'
    BY <1>1
  <2>2. QED BY <1>4, <1>5, <2>1, Zenon DEF Stored
<1>7. Stored(open) \in ResponsesOf(said')
  BY <1>2, <1>6 DEF Stored, ResponsesOf
<1>8. server \in Seq(ResponsesOf(said'))
  BY <1>1, <1>2, MoreResponses, MoreSequences
<1> HIDE DEF Stored
<1>9. server' \in Seq(ResponsesOf(said')) /\ Len(server') = Len(server) + 1
  BY <1>3, <1>7, <1>8
<1>10. \E M, k : Under(M, k)
  <2>1. Len(server') \in Nat /\ Len(server) <= Len(server') /\ said <= said' /\ prompted <= prompted'
    BY <1>1, <1>9
  <2>2. QED BY <1>1, <2>1, Grown
<1>11. QED BY <1>1, <1>3, <1>9, <1>10

LEMMA AnsweredIs ==
  ASSUME RcTypes, stage = "wait", NEW M, NEW k, Under(M, k), Len(server') = Len(server) + 1
  PROVE  /\ Answered \in AgentsOf(M, k)
         /\ Answered.convo = agent.convo /\ Answered.logged = agent.logged
         /\ Answered.cached = Len(server) + 1 /\ Answered.saved = agent.saved
         /\ Answered.snapshot = [id |-> Len(server) + 1, runtime |-> runtime, prompt |-> request.prompt]
<1> DEFINE c == [id |-> Len(server) + 1, runtime |-> runtime, prompt |-> request.prompt]
<1>1. k = Len(server) + 1 /\ Len(server) \in Nat /\ Len(server) + 1 \in 0 .. k
  BY DEF RcTypes, StateOK, Under
<1>2. c \in ContextsOf(k)
  BY <1>1 DEF ContextsOf, RcTypes, SettingOK
<1>3. agent = [convo |-> agent.convo, logged |-> agent.logged, saved |-> agent.saved,
               cached |-> agent.cached, snapshot |-> agent.snapshot]
  BY DEF Under, AgentsOf
<1>4. Answered = [agent EXCEPT !.cached = Len(server) + 1, !.snapshot = c]
  BY DEF Answered
<1> HIDE DEF c
<1>5. Answered = [convo |-> agent.convo, logged |-> agent.logged, saved |-> agent.saved,
                  cached |-> Len(server) + 1, snapshot |-> c]
  BY <1>3, <1>4
<1>6. agent.convo \in Seq(M) /\ agent.logged \in Seq(M) /\ agent.saved \in ContextsOf(k)
  BY DEF Under, AgentsOf
<1>7. QED BY <1>1, <1>2, <1>5, <1>6 DEF AgentsOf, c

(* Where a turn that goes on has its input. *)
LEMMA TurnGoesOn ==
  ASSUME TurnPlace, InTurn, turn' = turn, NEW M, agent.convo \in Seq(M), NEW ms \in Seq(M),
         agent'.convo = agent.convo \o ms, turn.start \in Nat
  PROVE  TurnPlace'
<1>1. turn.start < Len(agent.convo) /\ ~IsReply(agent.convo[turn.start + 1]) /\ turn.input > 0
  BY DEF TurnPlace
<1>2. turn.start < Len(agent'.convo) /\ agent'.convo[turn.start + 1] = agent.convo[turn.start + 1]
  BY <1>1, EndGrows
<1>3. QED BY <1>1, <1>2 DEF TurnPlace

(* An answer or a call of tools that is recorded. *)
LEMMA RecordedTypes ==
  ASSUME RcTypes, NEW open \in {0, 1}, Responds(open), said' = said + 1,
         NEW kind \in {"plain", "calls"}, Persist(Said(Answered, <<Msg(1, kind)>>)),
         unsettled' = unsettled,
         \/ stage' = "tools"
         \/ stage' = IF plan.on THEN "review" ELSE "ready"
  PROVE  RcTypes'
<1> DEFINE m == Msg(1, kind)
<1>1. said \in Nat /\ said' \in Nat /\ said + 1 <= said' /\ prompted \in Nat /\ prompted' = prompted
      /\ stage = "wait" /\ turn.start \in Nat /\ plan.on \in BOOLEAN
  BY DEF RcTypes, NumbersOK, StateOK, Responds, TurnsOf, PlansOf
<1>2. PICK M, k : Under(M, k)
  BY <1>1, RespondsTypes
<1>3. m \in M /\ Persist(Said(Answered, <<m>>))
  BY <1>1, <1>2, MsgIs
<1> HIDE DEF m
<1>4. PICK a : a = Answered /\ a \in AgentsOf(M, k) /\ a.convo = agent.convo
  BY <1>1, <1>2, AnsweredIs, RespondsTypes
<1>15. Persist(Said(a, <<m>>))
  BY <1>3, <1>4
<1>16. a \in AgentsOf(M, k) /\ a.convo = agent.convo
  BY <1>4
<1>17. m \in M
  BY <1>3
<1>18. /\ agent' \in AgentsOf(M, k) /\ shelf' \in ShelvesOf(M, k)
       /\ shelf'[current].used /\ agent'.convo = a.convo \o <<m>>
  BY <1>2, <1>17, <1>16, <1>15, PersistSaid
<1>5. /\ agent' \in AgentsOf(M, k) /\ shelf' \in ShelvesOf(M, k)
      /\ shelf'[current].used /\ agent'.convo = agent.convo \o <<m>>
  BY <1>16, <1>18, Zenon
<1>6. UNCHANGED <<setting, turn, plan, prompted, changes, replanned, building>> /\ request' = NoRequest
  BY DEF Responds
<1>7. turn' \in TurnsOf(said') /\ plan' \in PlansOf(k) /\ request' \in RequestsOf(said', k)
  BY <1>1, <1>2, <1>6, NothingYet DEF Under
<1>8. server' \in Seq(ResponsesOf(said'))
  BY <1>1, RespondsTypes
<1>9. StateOK'
  BY <1>2, <1>5, <1>7, <1>8, StateKept
<1>10. NumbersOK'
  BY <1>1, <1>2, <1>6 DEF RcTypes, NumbersOK, Under
<1>11. SettingOK'
  <2>1. stage' \in {"tools", "review", "ready"}
    BY <1>1
  <2>2. QED BY <1>5, <1>6, <2>1, SettingKept DEF RcTypes, SettingOK
<1>12. TurnPlace'
  <2>1. agent.convo \in Seq(M) /\ <<m>> \in Seq(M)
    BY <1>2, <1>3 DEF Under, AgentsOf
  <2>2. InTurn /\ TurnPlace
    BY <1>1 DEF InTurn, RcTypes
  <2>3. QED BY <1>1, <1>5, <1>6, <2>1, <2>2, TurnGoesOn
<1>13. PlanPlace'
  BY <1>1, <1>6 DEF RcTypes, PlanPlace, InTurn
<1>14. QED BY <1>9, <1>10, <1>11, <1>12, <1>13 DEF RcTypes

LEMMA AnswerTypes ==
  ASSUME RcTypes, Answer PROVE RcTypes'
<1>1. Responds(0) /\ said' = said + 1 /\ Persist(Said(Answered, <<Msg(1, "plain")>>))
      /\ unsettled' = unsettled /\ stage' = IF plan.on THEN "review" ELSE "ready"
  BY DEF Answer, Speak
<1>2. QED BY <1>1, RecordedTypes

LEMMA AnswerWithCallTypes ==
  ASSUME RcTypes, AnswerWithCall PROVE RcTypes'
<1> DEFINE kind == IF plan.on THEN "plain" ELSE "calls"
<1>1. Responds(1) /\ said' = said + 1 /\ Persist(Said(Answered, <<Msg(1, kind)>>))
      /\ unsettled' = unsettled /\ stage' = "tools" /\ kind \in {"plain", "calls"}
  BY DEF AnswerWithCall, Speak
<1> HIDE DEF kind
<1>2. QED BY <1>1, RecordedTypes

LEMMA AnswerSentBackTypes ==
  ASSUME RcTypes, AnswerSentBack PROVE RcTypes'
<1> DEFINE m == Msg(1, "plain")
           q == Msg(2, "plain")
<1>1. said \in Nat /\ said' = said + 2 /\ said + 1 <= said' /\ prompted \in Nat /\ prompted' = prompted
      /\ stage = "wait" /\ turn.start \in Nat /\ Responds(0) /\ stage' = "ask"
  BY DEF RcTypes, NumbersOK, StateOK, Responds, TurnsOf, AnswerSentBack, Speak
<1>2. PICK M, k : Under(M, k)
  BY <1>1, RespondsTypes
<1>3. m \in M /\ q \in M
  BY <1>1, <1>2, MsgIs
<1> HIDE DEF m, q
<1>4. PICK x : x = Answered /\ x \in AgentsOf(M, k) /\ x.convo = agent.convo
  BY <1>1, <1>2, AnsweredIs, RespondsTypes
<1>16. x \in AgentsOf(M, k) /\ k \in Nat
  BY <1>2, <1>4 DEF Under
<1>5. /\ agent' \in AgentsOf(M, k) /\ shelf' \in ShelvesOf(M, k)
      /\ shelf'[current].used /\ agent'.convo = agent.convo \o <<m, q>>
      /\ unsettled' \subseteq 1 .. said'
  <2>1. CASE /\ plan.on
             /\ Persist(Noted(Said(Answered, <<m>>), <<q>>))
             /\ unsettled' = unsettled \cup {said + 2}
    <3> DEFINE a == Said(x, <<m>>)
               b == Noted(a, <<q>>)
    <3>1. <<m>> \in Seq(M) /\ <<q>> \in Seq(M)
      BY <1>3
    <3>2. a \in AgentsOf(M, k) /\ a.convo = x.convo \o <<m>>
      BY <1>16, <3>1, SaidIs, ZenonT(60)
    <3> HIDE DEF a
    <3>12. b \in AgentsOf(M, k) /\ b.convo = a.convo \o <<q>>
      BY <1>16, <3>1, <3>2, NotedIs, ZenonT(60)
    <3> HIDE DEF b
    <3>3. b \in AgentsOf(M, k) /\ b.convo = (agent.convo \o <<m>>) \o <<q>>
      BY <1>4, <3>2, <3>12, Zenon
    <3>4. Persist(b) /\ current \in Chats /\ runtime \in Runtimes
      BY <2>1, <1>4 DEF a, b, RcTypes, SettingOK
    <3>5. /\ agent' \in AgentsOf(M, k) /\ shelf' \in ShelvesOf(M, k)
          /\ shelf'[current].used /\ agent'.convo = b.convo
      BY <1>2, <3>3, <3>4, PersistIs DEF Under
    <3>6. agent.convo \in Seq(M)
      BY <1>2 DEF Under, AgentsOf
    <3>7. (agent.convo \o <<m>>) \o <<q>> = agent.convo \o <<m, q>>
      BY <1>3, <3>6, TwoMore
    <3>8. unsettled' \subseteq 1 .. said'
      BY <1>1, <1>2, <2>1 DEF Under
    <3>9. QED BY <3>3, <3>5, <3>7, <3>8
  <2>2. CASE /\ agent' = Noted(Answered, <<m, q>>)
             /\ UNCHANGED shelf
             /\ unsettled' = unsettled \cup {said + 1, said + 2}
    <3>1. <<m, q>> \in Seq(M)
      BY <1>3
    <3>6. agent' = Noted(x, <<m, q>>)
      BY <1>4, <2>2
    <3>7. agent' \in AgentsOf(M, k) /\ agent'.convo = x.convo \o <<m, q>>
      BY <1>16, <3>6, <3>1, NotedIs, ZenonT(60)
    <3>2. agent' \in AgentsOf(M, k) /\ agent'.convo = agent.convo \o <<m, q>>
      BY <1>4, <3>7, Zenon
    <3>3. shelf' \in ShelvesOf(M, k) /\ shelf'[current].used
      BY <1>2, <2>2 DEF Under, RcTypes, SettingOK
    <3>4. unsettled' \subseteq 1 .. said'
      BY <1>1, <1>2, <2>2 DEF Under
    <3>5. QED BY <3>2, <3>3, <3>4
  <2>3. QED BY <2>1, <2>2 DEF AnswerSentBack, m, q
<1>6. UNCHANGED <<setting, turn, plan, prompted, changes, replanned, building>> /\ request' = NoRequest
  BY <1>1 DEF Responds
<1>7. turn' \in TurnsOf(said') /\ plan' \in PlansOf(k) /\ request' \in RequestsOf(said', k)
  BY <1>1, <1>2, <1>6, NothingYet DEF Under
<1>8. server' \in Seq(ResponsesOf(said'))
  BY <1>1, RespondsTypes
<1>9. StateOK'
  BY <1>2, <1>5, <1>7, <1>8, StateKept
<1>10. NumbersOK'
  BY <1>1, <1>5, <1>6 DEF RcTypes, NumbersOK
<1>11. SettingOK'
  BY <1>1, <1>5, <1>6, SettingKept DEF RcTypes, SettingOK
<1>12. TurnPlace'
  <2>1. agent.convo \in Seq(M) /\ <<m, q>> \in Seq(M)
    BY <1>2, <1>3 DEF Under, AgentsOf
  <2>2. InTurn /\ TurnPlace
    BY <1>1 DEF InTurn, RcTypes
  <2>3. QED BY <1>1, <1>5, <1>6, <2>1, <2>2, TurnGoesOn
<1>13. PlanPlace'
  BY <1>1, <1>6 DEF RcTypes, PlanPlace, InTurn
<1>14. QED BY <1>9, <1>10, <1>11, <1>12, <1>13 DEF RcTypes

LEMMA AnswerUnrecordedTypes ==
  ASSUME RcTypes, AnswerUnrecorded PROVE RcTypes'
<1>1. said \in Nat /\ said' = said + 1 /\ prompted \in Nat /\ prompted' = prompted
      /\ stage = "wait" /\ Responds(0) /\ stage' = "ready" /\ ~plan.on
      /\ agent' = Answered /\ shelf' = shelf /\ turn.first \in 0 .. said
      /\ unsettled' = unsettled \cup OfTurn \cup {said + 1}
  BY DEF RcTypes, NumbersOK, StateOK, Responds, AnswerUnrecorded, Speak, TurnsOf
<1>2. PICK M, k : Under(M, k)
  BY <1>1, RespondsTypes
<1>4. agent' \in AgentsOf(M, k) /\ shelf' \in ShelvesOf(M, k)
  BY <1>1, <1>2, AnsweredIs, RespondsTypes DEF Under
<1>6. UNCHANGED <<setting, turn, plan, prompted, changes, replanned, building>> /\ request' = NoRequest
  BY <1>1 DEF Responds
<1>7. turn' \in TurnsOf(said') /\ plan' \in PlansOf(k) /\ request' \in RequestsOf(said', k)
  BY <1>1, <1>2, <1>6, NothingYet DEF Under
<1>8. server' \in Seq(ResponsesOf(said'))
  BY <1>1, RespondsTypes
<1>9. StateOK'
  BY <1>2, <1>4, <1>7, <1>8, StateKept
<1>10. NumbersOK'
  <2>1. unsettled \subseteq 1 .. said' /\ OfTurn \subseteq 1 .. said' /\ said + 1 \in 1 .. said'
    BY <1>1, <1>2 DEF Under, OfTurn
  <2>2. unsettled' \subseteq 1 .. said'
    BY <1>1, <2>1
  <2>3. QED BY <1>1, <1>6, <2>2 DEF RcTypes, NumbersOK
<1>11. SettingOK'
  BY <1>1, <1>6, SettingKept DEF RcTypes, SettingOK
<1>12. TurnPlace' /\ PlanPlace'
  BY <1>1, <1>6 DEF RcTypes, TurnPlace, PlanPlace, InTurn
<1>13. QED BY <1>9, <1>10, <1>11, <1>12 DEF RcTypes

LEMMA ReplyTypes ==
  ASSUME RcTypes, Reply PROVE RcTypes'
<1> DEFINE m == Msg(1, "reply")
<1>1. said \in Nat /\ said' = said + 1 /\ prompted \in Nat /\ Len(server) \in Nat
      /\ stage = "tools" /\ stage' = "between" /\ turn.start \in Nat /\ unsettled' = unsettled
  BY DEF RcTypes, NumbersOK, StateOK, TurnsOf, Reply, Speak, ToolsRun
<1>6. UNCHANGED <<setting, request, turn, plan, server, prompted, changes, replanned, building>>
  BY DEF Reply, ToolsLeave
<1>2. PICK M, k : Under(M, k)
  BY <1>1, <1>6, Grown
<1>3. m \in M /\ Persist(Said(agent, <<m>>))
  BY <1>1, <1>2, <1>6, MsgIs DEF Reply
<1> HIDE DEF m
<1>5. /\ agent' \in AgentsOf(M, k) /\ shelf' \in ShelvesOf(M, k)
      /\ shelf'[current].used /\ agent'.convo = agent.convo \o <<m>>
  BY <1>2, <1>3, PersistSaid DEF Under
<1>9. StateOK'
  BY <1>2, <1>5, <1>6, StateKept DEF Under
<1>10. NumbersOK'
  BY <1>1, <1>2, <1>6 DEF RcTypes, NumbersOK, Under
<1>11. SettingOK'
  BY <1>1, <1>5, <1>6, SettingKept DEF RcTypes, SettingOK
<1>12. TurnPlace'
  <2>1. agent.convo \in Seq(M) /\ <<m>> \in Seq(M)
    BY <1>2, <1>3 DEF Under, AgentsOf
  <2>2. InTurn /\ TurnPlace
    BY <1>1 DEF InTurn, RcTypes
  <2>3. QED BY <1>1, <1>5, <1>6, <2>1, <2>2, TurnGoesOn
<1>13. PlanPlace'
  BY <1>1, <1>6 DEF RcTypes, PlanPlace, InTurn
<1>14. QED BY <1>9, <1>10, <1>11, <1>12, <1>13 DEF RcTypes

(* What the tools tell the model only: at most two messages. *)
Told == IF plan.on THEN <<Msg(1, "plain")>> ELSE <<Msg(1, "reply"), Msg(2, "plain")>>

LEMMA ToldIs ==
  ASSUME RcTypes, NEW M, NEW k, Under(M, k), said' = said + Len(Told), prompted' = prompted
  PROVE  /\ Told \in Seq(M) /\ Len(Told) \in 1 .. 2
         /\ Numbers(Told) \subseteq said + 1 .. said'
         /\ ~plan.on => \A i \in DOMAIN Told : Told[i].turn = 0
<1>1. said \in Nat /\ prompted \in Nat /\ plan.on \in BOOLEAN
  BY DEF RcTypes, NumbersOK, StateOK, PlansOf
<1>2. CASE plan.on
  <2> DEFINE m == Msg(1, "plain")
  <2>1. Told = <<m>>
    BY <1>2 DEF Told
  <2>2. m \in M /\ m.n = said + 1 /\ said' = said + 1
    BY <1>1, <2>1, MsgIs
  <2> HIDE DEF m
  <2>3. QED BY <1>1, <1>2, <2>1, <2>2 DEF Numbers
<1>3. CASE ~plan.on
  <2> DEFINE m == Msg(1, "reply")
             q == Msg(2, "plain")
  <2>1. Told = <<m, q>>
    BY <1>3 DEF Told
  <2>2. said' = said + 2
    BY <2>1
  <2>3. m \in M /\ m.n = said + 1 /\ m.turn = 0 /\ q \in M /\ q.n = said + 2 /\ q.turn = 0
    BY <1>1, <1>3, <2>2, MsgIs
  <2> HIDE DEF m, q
  <2>4. QED BY <1>1, <2>1, <2>2, <2>3 DEF Numbers
<1>4. QED BY <1>2, <1>3

LEMMA ReplyInHistoryTypes ==
  ASSUME RcTypes, ReplyInHistory PROVE RcTypes'
<1>1. said \in Nat /\ said' = said + Len(Told) /\ prompted \in Nat /\ Len(server) \in Nat
      /\ stage = "tools" /\ stage' = "between" /\ turn.start \in Nat /\ shelf' = shelf
      /\ unsettled' = unsettled \cup Numbers(Told) /\ agent' = Noted(agent, Told)
  BY DEF RcTypes, NumbersOK, StateOK, TurnsOf, ReplyInHistory, Speak, ToolsRun, Told
<1>6. UNCHANGED <<setting, request, turn, plan, server, prompted, changes, replanned, building>>
  BY DEF ReplyInHistory, ToolsLeave
<1>15. Len(Told) \in Nat
  BY DEF Told
<1>2. PICK M, k : Under(M, k)
  BY <1>1, <1>6, <1>15, Grown
<1>3. Told \in Seq(M) /\ Numbers(Told) \subseteq said + 1 .. said'
  BY <1>1, <1>2, <1>6, ToldIs
<1>5. agent' \in AgentsOf(M, k) /\ agent'.convo = agent.convo \o Told /\ shelf' \in ShelvesOf(M, k)
  BY <1>1, <1>2, <1>3, NotedIs, SMTT(60) DEF Under
<1>9. StateOK'
  BY <1>2, <1>5, <1>6, StateKept DEF Under
<1>10. NumbersOK'
  <2>1. unsettled \subseteq 1 .. said' /\ said' \in Nat /\ said + 1 .. said' \subseteq 1 .. said'
    BY <1>1, <1>2, <1>15 DEF Under
  <2>2. unsettled' \subseteq 1 .. said'
    BY <1>1, <1>3, <2>1
  <2>3. QED BY <1>1, <1>6, <2>1, <2>2 DEF RcTypes, NumbersOK
<1>11. SettingOK'
  BY <1>1, <1>6, SettingKept DEF RcTypes, SettingOK
<1>12. TurnPlace'
  <2>1. agent.convo \in Seq(M)
    BY <1>2 DEF Under, AgentsOf
  <2>2. InTurn /\ TurnPlace
    BY <1>1 DEF InTurn, RcTypes
  <2>3. QED BY <1>1, <1>3, <1>5, <1>6, <2>1, <2>2, TurnGoesOn
<1>13. PlanPlace'
  BY <1>1, <1>6 DEF RcTypes, PlanPlace, InTurn
<1>14. QED BY <1>9, <1>10, <1>11, <1>12, <1>13 DEF RcTypes

LEMMA ContinueTypes ==
  ASSUME RcTypes, Continue PROVE RcTypes'
<1>1. UNCHANGED <<agent, shelf, setting, request, turn, plan, server, counts, facts>>
      /\ stage = "between" /\ stage' = "ask"
  BY DEF Continue
<1>2. StateOK'
  BY <1>1 DEF RcTypes, StateOK, counts, Messages
<1>3. NumbersOK'
  BY <1>1 DEF RcTypes, NumbersOK, counts, facts
<1>4. SettingOK'
  BY <1>1 DEF RcTypes, SettingOK, setting, facts
<1>5. TurnPlace' /\ PlanPlace'
  BY <1>1 DEF RcTypes, TurnPlace, PlanPlace, InTurn, counts, facts
<1>6. QED BY <1>2, <1>3, <1>4, <1>5 DEF RcTypes

(* After a compression the history is a summary and what was kept of it.   *)
LEMMA SummaryIs ==
  ASSUME NEW M, NEW s \in Seq(M), NEW m \in M, NEW k \in 0 .. Len(s),
         NEW t, t = <<m>> \o SubSeq(s, k + 1, Len(s))
  PROVE  /\ t \in Seq(M) /\ Len(t) = 1 + Len(s) - k /\ t[1] = m
         /\ \A i \in k + 1 .. Len(s) : t[1 + i - k] = s[i]
<1> DEFINE rest == SubSeq(s, k + 1, Len(s))
<1>1. rest \in Seq(M) /\ Len(rest) = Len(s) - k /\ \A i \in 1 .. Len(rest) : rest[i] = s[k + i]
  BY SMT
<1> HIDE DEF rest
<1>2. <<m>> \in Seq(M) /\ Len(<<m>>) = 1 /\ <<m>>[1] = m
  OBVIOUS
<1>3. t = <<m>> \o rest
  BY DEF rest
<1>4. t \in Seq(M) /\ Len(t) = 1 + Len(rest)
  BY <1>1, <1>2, <1>3
<1>5. t[1] = m
  BY <1>1, <1>2, <1>3
<1>6. ASSUME NEW i \in k + 1 .. Len(s) PROVE t[1 + i - k] = s[i]
  <2>1. i - k \in 1 .. Len(rest) /\ k + (i - k) = i /\ 1 + i - k = 1 + (i - k)
    BY <1>1
  <2>2. rest[i - k] = s[i]
    BY <1>1, <2>1
  <2>3. t[1 + (i - k)] = rest[i - k]
    BY <1>1, <1>2, <1>3, <2>1, SMTT(40)
  <2>4. QED BY <2>1, <2>2, <2>3
<1>7. QED BY <1>1, <1>4, <1>5, <1>6

LEMMA SummaryMessage ==
  ASSUME RcTypes, NEW M, NEW k, Under(M, k), said' = said + 1, prompted' = prompted
  PROVE  Summary \in M /\ Summary.n = said + 1 /\ Summary.turn = 0
BY DEF RcTypes, NumbersOK, Under, Messages, Summary

(* A compression that is written to the session. *)
LEMMA CompressedIs ==
  ASSUME RcTypes, NEW M, NEW k, Under(M, k), said' = said + 1, prompted' = prompted,
         NEW i \in 0 .. Len(agent.convo), Persist(Rewritten(Summarised(agent, i)))
  PROVE  /\ agent' \in AgentsOf(M, k) /\ shelf' \in ShelvesOf(M, k) /\ shelf'[current].used
         /\ agent' = Synced(Rewritten(Summarised(agent, i))) /\ shelf' = Shelved(agent', runtime)
         /\ Rewritten(Summarised(agent, i)) \in AgentsOf(M, k)
         /\ agent'.convo = <<Summary>> \o SubSeq(agent.convo, i + 1, Len(agent.convo))
         /\ agent'.logged = agent'.convo
         /\ Len(agent'.convo) = 1 + Len(agent.convo) - i
         /\ agent'.convo[1] = Summary
         /\ \A j \in i + 1 .. Len(agent.convo) : agent'.convo[1 + j - i] = agent.convo[j]
<1> DEFINE a == Summarised(agent, i)
           b == Rewritten(a)
<1>1. Summary \in M /\ agent \in AgentsOf(M, k) /\ k \in Nat /\ shelf \in ShelvesOf(M, k)
      /\ current \in Chats /\ runtime \in Runtimes /\ agent.convo \in Seq(M)
  BY SummaryMessage DEF Under, RcTypes, SettingOK, AgentsOf
<1>2. a \in AgentsOf(M, k) /\ a.convo = <<Summary>> \o SubSeq(agent.convo, i + 1, Len(agent.convo))
  BY <1>1, SummarisedIs
<1> HIDE DEF a
<1>3. b \in AgentsOf(M, k) /\ b.convo = a.convo /\ b.logged = a.convo
  BY <1>1, <1>2, RewrittenIs
<1>4. Persist(b)
  BY DEF a
<1> HIDE DEF b
<1>5. /\ agent' \in AgentsOf(M, k) /\ shelf' \in ShelvesOf(M, k) /\ shelf'[current].used
      /\ agent' = Synced(b) /\ agent'.convo = b.convo /\ agent'.logged = b.logged
      /\ shelf' = Shelved(Synced(b), runtime)
  BY <1>1, <1>3, <1>4, PersistIs
<1>6. agent'.convo = <<Summary>> \o SubSeq(agent.convo, i + 1, Len(agent.convo))
  BY <1>2, <1>3, <1>5, Zenon
<1>7. /\ Len(agent'.convo) = 1 + Len(agent.convo) - i
      /\ agent'.convo[1] = Summary
      /\ \A j \in i + 1 .. Len(agent.convo) : agent'.convo[1 + j - i] = agent.convo[j]
  BY <1>1, <1>6, SummaryIs
<1>8. QED BY <1>3, <1>5, <1>6, <1>7 DEF b, a

LEMMA CompressInTurnTypes ==
  ASSUME RcTypes, CompressInTurn PROVE RcTypes'
<1> DEFINE i == splitHistoryForInTurnCompression(agent.convo, turn.start, KeepNewest)
           start == 1 + turn.start - i
<1>1. said \in Nat /\ said' = said + 1 /\ prompted \in Nat /\ prompted' = prompted
      /\ Len(server) \in Nat /\ server' = server /\ stage = "between" /\ stage' = "ask"
      /\ changes' \in 0 .. MaxChanges /\ setting' = setting /\ request' = request /\ facts' = facts
      /\ i > 0 /\ turn' = [turn EXCEPT !.start = start, !.compressed = TRUE]
      /\ plan' = Rebased(start) /\ Persist(Rewritten(Summarised(agent, i)))
  BY ChainAssumption DEF RcTypes, NumbersOK, StateOK, CompressInTurn, Speak, Change
<1>2. PICK M, k : Under(M, k)
  BY <1>1, Grown
<1>3. agent.convo \in Seq(M) /\ turn \in TurnsOf(said') /\ turn.start \in Nat /\ turn.input \in 0 .. said'
  BY <1>2 DEF Under, AgentsOf, TurnsOf
<1>4. turn.start < Len(agent.convo) /\ ~IsReply(agent.convo[turn.start + 1]) /\ turn.input > 0
  BY <1>1 DEF RcTypes, TurnPlace, InTurn
<1>5. i \in 0 .. turn.start
  BY <1>3, <1>4, ChainAssumption, InTurnSplitInside
<1>6. start \in Nat /\ i \in 0 .. Len(agent.convo) /\ Len(agent.convo) \in Nat
  BY <1>1, <1>3, <1>4, <1>5, SMTT(60)
<1> HIDE DEF i
<1>7. /\ agent' \in AgentsOf(M, k) /\ shelf' \in ShelvesOf(M, k) /\ shelf'[current].used
      /\ Len(agent'.convo) = 1 + Len(agent.convo) - i
      /\ \A j \in i + 1 .. Len(agent.convo) : agent'.convo[1 + j - i] = agent.convo[j]
  BY <1>1, <1>2, <1>6, CompressedIs
<1>8. turn' \in TurnsOf(said') /\ turn'.start = start /\ turn'.input = turn.input
  <2> HIDE DEF start
  <2>1. turn' = [input |-> turn.input, first |-> turn.first, start |-> start,
                 compressed |-> TRUE, retried |-> turn.retried]
    BY <1>1, <1>3 DEF TurnsOf
  <2>2. QED BY <1>3, <1>6, <2>1 DEF TurnsOf
<1>9. plan' \in PlansOf(k) /\ plan'.on = plan.on
  <2> HIDE DEF start
  <2>1. plan \in PlansOf(k) /\ NoContext \in ContextsOf(k)
    BY <1>2, NothingYet DEF Under
  <2>2. CASE ~plan.on
    BY <1>1, <2>1, <2>2 DEF Rebased
  <2>3. CASE plan.on
    <3>1. Rebased(start) = [on |-> TRUE, length |-> start, entries |-> start, context |-> NoContext]
      <4> DEFINE c == NoContext
      <4> HIDE DEF c
      <4>1. Rebased(start) = [plan EXCEPT !.length = start, !.entries = start, !.context = c]
        BY <2>3 DEF Rebased, c
      <4>2. Rebased(start) = [on |-> TRUE, length |-> start, entries |-> start, context |-> c]
        BY <2>1, <2>3, <4>1 DEF PlansOf
      <4>3. QED BY <4>2 DEF c
    <3>2. QED BY <1>1, <1>6, <2>1, <2>3, <3>1 DEF PlansOf
  <2>4. QED BY <2>1, <2>2, <2>3 DEF PlansOf
<1>10. StateOK'
  BY <1>1, <1>2, <1>7, <1>8, <1>9, StateKept DEF Under
<1>11. unsettled' = unsettled /\ replanned' = replanned /\ building' = building
  BY <1>1 DEF facts
<1>12. NumbersOK'
  BY <1>1, <1>2, <1>11 DEF RcTypes, NumbersOK, Under
<1>13. SettingOK'
  BY <1>1, <1>7, <1>11, SettingKept DEF RcTypes, SettingOK
<1>14. TurnPlace'
  <2>1. turn.start + 1 \in i + 1 .. Len(agent.convo) /\ 1 + (turn.start + 1) - i = start + 1
    BY <1>3, <1>4, <1>5
  <2>2. agent'.convo[start + 1] = agent.convo[turn.start + 1]
    BY <1>7, <2>1
  <2>3. start < Len(agent'.convo)
    BY <1>3, <1>4, <1>5, <1>6, <1>7
  <2>4. QED BY <1>4, <1>8, <2>2, <2>3 DEF TurnPlace
<1>15. PlanPlace'
  BY <1>1, <1>9, <1>11 DEF RcTypes, PlanPlace, InTurn
<1>16. QED BY <1>10, <1>12, <1>13, <1>14, <1>15 DEF RcTypes

LEMMA SplitIs ==
  ASSUME RcTypes
  PROVE  Split \in 0 .. Len(agent.convo)
BY ChainAssumption, CompressionSplitInside DEF RcTypes, StateOK, AgentsOf, Split

LEMMA CompressNowTypes ==
  ASSUME RcTypes, CompressNow PROVE RcTypes'
<1>1. said \in Nat /\ said' = said + 1 /\ prompted \in Nat /\ prompted' = prompted
      /\ Len(server) \in Nat /\ server' = server /\ stage = "ready" /\ stage' = stage
      /\ changes' \in 0 .. MaxChanges /\ setting' = setting /\ request' = request /\ facts' = facts
      /\ turn' = turn /\ plan' = plan /\ Persist(Rewritten(Summarised(agent, Split)))
  BY ChainAssumption DEF RcTypes, NumbersOK, StateOK, CompressNow, Speak, Change
<1>2. PICK M, k : Under(M, k)
  BY <1>1, Grown
<1>3. /\ agent' \in AgentsOf(M, k) /\ shelf' \in ShelvesOf(M, k) /\ shelf'[current].used
  BY <1>1, <1>2, SplitIs, CompressedIs
<1>10. StateOK'
  BY <1>1, <1>2, <1>3, StateKept DEF Under
<1>11. unsettled' = unsettled /\ replanned' = replanned /\ building' = building
  BY <1>1 DEF facts
<1>12. NumbersOK'
  BY <1>1, <1>2, <1>11 DEF RcTypes, NumbersOK, Under
<1>13. SettingOK'
  BY <1>1, <1>3, <1>11, SettingKept DEF RcTypes, SettingOK
<1>14. TurnPlace' /\ PlanPlace'
  BY <1>1, <1>11 DEF RcTypes, TurnPlace, PlanPlace, InTurn
<1>16. QED BY <1>10, <1>12, <1>13, <1>14 DEF RcTypes

LEMMA CompactTypes ==
  ASSUME RcTypes, Compact PROVE RcTypes'
<1> DEFINE a == [agent EXCEPT !.convo = <<>>]
           b == Rewritten(a)
<1>1. said \in Nat /\ said' = said /\ prompted \in Nat /\ prompted' = prompted
      /\ Len(server) \in Nat /\ server' = server /\ stage = "ready" /\ stage' = stage
      /\ changes' \in 0 .. MaxChanges /\ setting' = setting /\ request' = request /\ facts' = facts
      /\ turn' = turn /\ plan' = plan /\ Persist(b)
  BY ChainAssumption DEF RcTypes, NumbersOK, StateOK, Compact, Change
<1>2. PICK M, k : Under(M, k)
  BY <1>1, Grown
<1>4. a \in AgentsOf(M, k)
  <2>1. agent \in AgentsOf(M, k) /\ <<>> \in Seq(M)
    BY <1>2 DEF Under
  <2>2. a = [convo |-> <<>>, logged |-> agent.logged, saved |-> agent.saved,
             cached |-> agent.cached, snapshot |-> agent.snapshot]
    BY <2>1 DEF AgentsOf
  <2>3. QED BY <2>1, <2>2, Zenon DEF AgentsOf
<1> HIDE DEF a
<1>5. b \in AgentsOf(M, k)
  BY <1>2, <1>4, RewrittenIs DEF Under
<1> HIDE DEF b
<1>3. /\ agent' \in AgentsOf(M, k) /\ shelf' \in ShelvesOf(M, k) /\ shelf'[current].used
  BY <1>1, <1>2, <1>5, PersistIs DEF Under, RcTypes, SettingOK
<1>10. StateOK'
  BY <1>1, <1>2, <1>3, StateKept DEF Under
<1>11. unsettled' = unsettled /\ replanned' = replanned /\ building' = building
  BY <1>1 DEF facts
<1>12. NumbersOK'
  BY <1>1, <1>2, <1>11 DEF RcTypes, NumbersOK, Under
<1>13. SettingOK'
  BY <1>1, <1>3, <1>11, SettingKept DEF RcTypes, SettingOK
<1>14. TurnPlace' /\ PlanPlace'
  BY <1>1, <1>11 DEF RcTypes, TurnPlace, PlanPlace, InTurn
<1>16. QED BY <1>10, <1>12, <1>13, <1>14 DEF RcTypes

LEMMA RetryCompressedTypes ==
  ASSUME RcTypes, RetryCompressed PROVE RcTypes'
<1> DEFINE a == Summarised(agent, Split)
           b == Rewritten(a)
           again == [n |-> turn.input, kind |-> "plain", turn |-> 0]
<1>1. said \in Nat /\ said' = said + 1 /\ prompted \in Nat /\ prompted' = prompted
      /\ Len(server) \in Nat /\ server' = server /\ stage = "wait" /\ stage' = "ask"
      /\ changes' \in 0 .. MaxChanges /\ setting' = setting /\ request' = NoRequest
      /\ plan' = plan /\ ~plan.on /\ unsettled' = unsettled \cup {turn.input}
      /\ replanned' = replanned /\ building' = building
      /\ agent' = Noted(b, <<again>>) /\ shelf' = Shelved(b, runtime)
      /\ turn' = [turn EXCEPT !.start = Len(b.convo), !.retried = TRUE]
  BY ChainAssumption DEF RcTypes, NumbersOK, StateOK, RetryCompressed, Speak, Change
<1>2. PICK M, k : Under(M, k)
  BY <1>1, Grown
<1>3. Summary \in M /\ agent \in AgentsOf(M, k) /\ k \in Nat /\ shelf \in ShelvesOf(M, k)
      /\ current \in Chats /\ runtime \in Runtimes /\ turn \in TurnsOf(said')
  BY <1>1, <1>2, SummaryMessage DEF Under, RcTypes, SettingOK
<1>4. a \in AgentsOf(M, k)
  BY <1>3, SplitIs, SummarisedIs
<1> HIDE DEF a
<1>5. b \in AgentsOf(M, k)
  BY <1>3, <1>4, RewrittenIs
<1> HIDE DEF b
<1>6. turn.input \in 1 .. said
  BY <1>1 DEF RcTypes, StateOK, TurnsOf, TurnPlace, InTurn
<1>7. again \in M /\ again.kind = "plain"
  BY <1>1, <1>2, <1>6 DEF Under, Messages
<1> HIDE DEF again
<1>8. agent' \in AgentsOf(M, k) /\ agent'.convo = b.convo \o <<again>>
  <2>1. <<again>> \in Seq(M)
    BY <1>7
  <2>2. agent' = Noted(b, <<again>>) /\ k \in Nat
    BY <1>1, <1>3
  <2>3. QED BY <1>5, <2>1, <2>2, NotedIs, ZenonT(60)
<1>9. shelf' \in ShelvesOf(M, k) /\ shelf'[current].used
  BY <1>1, <1>3, <1>5, ShelvedIs
<1>10. b.convo \in Seq(M) /\ Len(b.convo) \in Nat
  BY <1>5 DEF AgentsOf
<1>11. turn' \in TurnsOf(said') /\ turn'.start = Len(b.convo) /\ turn'.input = turn.input
  <2>1. turn' = [input |-> turn.input, first |-> turn.first, start |-> Len(b.convo),
                 compressed |-> turn.compressed, retried |-> TRUE]
    BY <1>1, <1>3 DEF TurnsOf
  <2>2. QED BY <1>3, <1>10, <2>1 DEF TurnsOf
<1>12. StateOK'
  <2>1. NoRequest \in RequestsOf(said', k)
    BY <1>1, <1>3, NothingYet
  <2>2. QED BY <1>1, <1>2, <1>8, <1>9, <1>11, <2>1, StateKept DEF Under
<1>13. NumbersOK'
  <2>1. unsettled' \subseteq 1 .. said'
    BY <1>1, <1>2, <1>6 DEF Under
  <2>2. QED BY <1>1, <2>1 DEF RcTypes, NumbersOK
<1>14. SettingOK'
  BY <1>1, <1>9, SettingKept DEF RcTypes, SettingOK
<1>15. TurnPlace'
  BY <1>6, <1>7, <1>8, <1>10, <1>11, EndIs DEF TurnPlace, IsReply
<1>16. PlanPlace'
  BY <1>1 DEF RcTypes, PlanPlace, InTurn
<1>17. QED BY <1>12, <1>13, <1>14, <1>15, <1>16 DEF RcTypes

LEMMA NothingToDoTypes ==
  ASSUME RcTypes, NothingToDo PROVE RcTypes'
<1>1. UNCHANGED <<agent, shelf, changes>> /\ UNCHANGED <<setting, request, turn, server, prompted, said, facts>>
      /\ stage = "review" /\ stage' = "ready" /\ plan' = NoPlan
  BY DEF NothingToDo, PlanLeaves
<1>2. NoPlan \in PlansOf(Len(server)) /\ ~NoPlan.on
  <2>1. said \in Nat /\ Len(server) \in Nat
    BY DEF RcTypes, StateOK, NumbersOK
  <2>2. QED BY <2>1, NothingYet
<1>3. StateOK'
  BY <1>1, <1>2 DEF RcTypes, StateOK, Messages
<1>4. NumbersOK'
  BY <1>1 DEF RcTypes, NumbersOK, facts
<1>5. SettingOK'
  BY <1>1 DEF RcTypes, SettingOK, setting, facts
<1>6. TurnPlace' /\ PlanPlace'
  BY <1>1, <1>2 DEF RcTypes, TurnPlace, PlanPlace, InTurn, facts
<1>7. QED BY <1>3, <1>4, <1>5, <1>6 DEF RcTypes

(* A step that ends plan mode, with the agent and the shelf it leaves.     *)
LEMMA PlanEndsTypes ==
  ASSUME RcTypes, PlanLeaves, plan' = NoPlan, changes' \in 0 .. MaxChanges,
         stage = "review", stage' \in {"ready", "rerun", "handoff"},
         agent' \in AgentsOf(Messages, Len(server)), shelf' \in ShelvesOf(Messages, Len(server)),
         shelf'[current].used
  PROVE  RcTypes'
<1>1. UNCHANGED <<setting, request, turn, server, prompted, said, facts>>
  BY DEF PlanLeaves
<1>2. NoPlan \in PlansOf(Len(server)) /\ ~NoPlan.on
  <2>1. said \in Nat /\ Len(server) \in Nat
    BY DEF RcTypes, StateOK, NumbersOK
  <2>2. QED BY <2>1, NothingYet
<1>3. StateOK'
  BY <1>1, <1>2 DEF RcTypes, StateOK, Messages
<1>4. NumbersOK'
  BY <1>1 DEF RcTypes, NumbersOK, facts
<1>5. SettingOK'
  BY <1>1 DEF RcTypes, SettingOK, setting, facts
<1>6. TurnPlace' /\ PlanPlace'
  BY <1>1, <1>2 DEF RcTypes, TurnPlace, PlanPlace, InTurn, facts
<1>7. QED BY <1>3, <1>4, <1>5, <1>6 DEF RcTypes

LEMMA RestoreAndTypes ==
  ASSUME RcTypes, NEW next, RestoreAnd(next)
  PROVE  /\ agent' = Restored(agent) /\ agent' \in AgentsOf(Messages, Len(server))
         /\ shelf' = Shelved(agent', runtime) /\ shelf' \in ShelvesOf(Messages, Len(server))
         /\ shelf'[current].used /\ stage' = next /\ plan' = NoPlan
<1>1. agent \in AgentsOf(Messages, Len(server)) /\ plan \in PlansOf(Len(server)) /\ Len(server) \in Nat
      /\ shelf \in ShelvesOf(Messages, Len(server)) /\ current \in Chats /\ runtime \in Runtimes
  BY DEF RcTypes, StateOK, SettingOK
<1>2. agent' = Restored(agent) /\ shelf' = Shelved(agent', runtime) /\ stage' = next /\ plan' = NoPlan
  BY DEF RestoreAnd
<1>3. agent' \in AgentsOf(Messages, Len(server))
  BY <1>1, <1>2, RestoredIs
<1>4. shelf' \in ShelvesOf(Messages, Len(server)) /\ shelf'[current].used
  BY <1>1, <1>2, <1>3, ShelvedIs
<1>5. QED BY <1>2, <1>3, <1>4

LEMMA ApproveTypes ==
  ASSUME RcTypes, Approve PROVE RcTypes'
<1>1. agent \in AgentsOf(Messages, Len(server)) /\ plan \in PlansOf(Len(server)) /\ Len(server) \in Nat
      /\ shelf \in ShelvesOf(Messages, Len(server)) /\ current \in Chats /\ runtime \in Runtimes
      /\ changes' \in 0 .. MaxChanges
  BY DEF RcTypes, StateOK, SettingOK, NumbersOK, Approve
<1>2. PICK a : a = Restored(agent) /\ a \in AgentsOf(Messages, Len(server))
  BY <1>1, RestoredIs
<1>3. PICK b : b = Cleared(a) /\ b \in AgentsOf(Messages, Len(server))
  BY <1>1, <1>2, ClearedIs
<1>4. Persist(b) /\ b \in AgentsOf(Messages, Len(server))
  BY <1>2, <1>3 DEF Approve
<1>5. agent' \in AgentsOf(Messages, Len(server)) /\ shelf' \in ShelvesOf(Messages, Len(server))
      /\ shelf'[current].used
  BY <1>1, <1>4, PersistIs
<1>6. PlanLeaves /\ plan' = NoPlan /\ stage = "review" /\ stage' = "handoff"
  BY DEF Approve
<1>7. QED BY <1>1, <1>5, <1>6, PlanEndsTypes

LEMMA DeclineTypes ==
  ASSUME RcTypes, Decline PROVE RcTypes'
<1>1. RestoreAnd("ready") /\ PlanLeaves /\ stage = "review" /\ changes' \in 0 .. MaxChanges
  BY DEF RcTypes, NumbersOK, Decline
<1>2. QED BY <1>1, RestoreAndTypes, PlanEndsTypes

LEMMA FeedbackTypes ==
  ASSUME RcTypes, Feedback PROVE RcTypes'
<1>1. RestoreAnd("rerun") /\ PlanLeaves /\ stage = "review" /\ changes' \in 0 .. MaxChanges
  BY ChainAssumption DEF RcTypes, NumbersOK, Feedback, Change
<1>2. QED BY <1>1, RestoreAndTypes, PlanEndsTypes

LEMMA RetryPlanTypes ==
  ASSUME RcTypes, RetryPlan PROVE RcTypes'
<1>1. said \in Nat /\ said' = said + 1 /\ prompted \in Nat /\ prompted' = prompted
      /\ Len(server) \in Nat /\ server' = server /\ stage = "wait" /\ stage' = "rerun" /\ plan.on
      /\ changes' \in 0 .. MaxChanges /\ setting' = setting /\ request' = NoRequest /\ plan' = NoPlan
      /\ unsettled' = unsettled /\ building' = building /\ replanned' = TRUE
      /\ agent' = Restored(Summarised(agent, Split)) /\ shelf' = Shelved(agent', runtime)
      /\ turn' = [turn EXCEPT !.retried = TRUE]
  BY ChainAssumption DEF RcTypes, NumbersOK, StateOK, RetryPlan, Speak, Change
<1>2. PICK M, k : Under(M, k)
  BY <1>1, Grown
<1>3. Summary \in M /\ agent \in AgentsOf(M, k) /\ k \in Nat /\ shelf \in ShelvesOf(M, k)
      /\ current \in Chats /\ runtime \in Runtimes /\ turn \in TurnsOf(said') /\ plan \in PlansOf(k)
  BY <1>1, <1>2, SummaryMessage DEF Under, RcTypes, SettingOK
<1>4. PICK a : a = Summarised(agent, Split) /\ a \in AgentsOf(M, k)
  BY <1>3, SplitIs, SummarisedIs
<1>5. agent' = Restored(a)
  BY <1>1, <1>4
<1>6. agent' \in AgentsOf(M, k)
  <2>1. a \in AgentsOf(M, k)
    BY <1>4
  <2>2. QED BY <1>3, <1>5, <2>1, RestoredIs
<1>7. shelf' \in ShelvesOf(M, k) /\ shelf'[current].used
  BY <1>1, <1>3, <1>6, ShelvedIs
<1>8. turn' \in TurnsOf(said')
  BY <1>1, <1>3 DEF TurnsOf
<1>9. NoRequest \in RequestsOf(said', k) /\ NoPlan \in PlansOf(k) /\ ~NoPlan.on
  BY <1>1, <1>3, NothingYet
<1>10. StateOK'
  BY <1>1, <1>2, <1>6, <1>7, <1>8, <1>9, StateKept DEF Under
<1>11. NumbersOK'
  BY <1>1, <1>2 DEF RcTypes, NumbersOK, Under
<1>12. SettingOK'
  BY <1>1, <1>7, SettingKept DEF RcTypes, SettingOK
<1>13. TurnPlace' /\ PlanPlace'
  BY <1>1, <1>9 DEF RcTypes, TurnPlace, PlanPlace, InTurn
<1>14. QED BY <1>10, <1>11, <1>12, <1>13 DEF RcTypes

LEMMA FailTurnTypes ==
  ASSUME RcTypes, FailTurn PROVE RcTypes'
<1>1. said \in Nat /\ said' = said /\ prompted \in Nat /\ prompted' = prompted
      /\ Len(server) \in Nat /\ server' = server /\ InTurn /\ turn.first \in 0 .. said
      /\ changes' \in 0 .. MaxChanges /\ setting' = setting /\ request' = NoRequest
      /\ turn' = turn /\ building' = building /\ replanned' = replanned
      /\ agent \in AgentsOf(Messages, Len(server)) /\ shelf \in ShelvesOf(Messages, Len(server))
      /\ shelf[current].used
  BY ChainAssumption DEF RcTypes, NumbersOK, StateOK, SettingOK, FailTurn, Change, InTurn, TurnsOf
<1>2. NoRequest \in RequestsOf(said, Len(server)) /\ NoPlan \in PlansOf(Len(server)) /\ ~NoPlan.on
  BY <1>1, NothingYet
<1>3. /\ agent' \in AgentsOf(Messages, Len(server)) /\ shelf' \in ShelvesOf(Messages, Len(server))
      /\ shelf'[current].used /\ stage' = "ready" /\ plan' \in PlansOf(Len(server)) /\ ~plan'.on
      /\ unsettled' \subseteq 1 .. said
  <2>1. CASE plan.on
    <3>1. RestoreAnd("ready") /\ unsettled' = unsettled
      BY <2>1 DEF FailTurn
    <3>2. QED BY <1>2, <3>1, RestoreAndTypes DEF RcTypes, NumbersOK
  <2>2. CASE ~plan.on
    <3>1. UNCHANGED <<agent, shelf, plan>> /\ stage' = "ready" /\ unsettled' = unsettled \cup OfTurn
      BY <2>2 DEF FailTurn
    <3>2. OfTurn \subseteq 1 .. said
      BY <1>1 DEF OfTurn
    <3>3. unsettled' \subseteq 1 .. said
      BY <3>1, <3>2 DEF RcTypes, NumbersOK
    <3>4. QED BY <1>1, <2>2, <3>1, <3>3 DEF RcTypes, StateOK
  <2>3. QED BY <2>1, <2>2
<1>4. StateOK'
  BY <1>1, <1>2, <1>3 DEF RcTypes, StateOK, Messages
<1>5. NumbersOK'
  BY <1>1, <1>3 DEF RcTypes, NumbersOK
<1>6. SettingOK'
  BY <1>1, <1>3, SettingKept DEF RcTypes, SettingOK
<1>7. TurnPlace' /\ PlanPlace'
  BY <1>1, <1>3 DEF RcTypes, TurnPlace, PlanPlace, InTurn
<1>8. QED BY <1>4, <1>5, <1>6, <1>7 DEF RcTypes

LEMMA RestartTypes ==
  ASSUME RcTypes, Restart PROVE RcTypes'
<1>1. said \in Nat /\ said' = said /\ prompted \in Nat /\ prompted' = prompted
      /\ Len(server) \in Nat /\ server' = server /\ turn.first \in 0 .. said
      /\ changes' \in 0 .. MaxChanges /\ request' = NoRequest /\ turn' = NoTurn /\ plan' = NoPlan
      /\ building' = FALSE /\ replanned' = replanned /\ stage' = "ready"
      /\ agent' = ResumedFrom(shelf[current]) /\ runtime' = shelf[current].runtime
      /\ shelf' = shelf /\ current' = current /\ persistId' = persistId
      /\ unsettled' = unsettled \cup (IF stage = "ready" THEN {} ELSE OfTurn)
      /\ shelf \in ShelvesOf(Messages, Len(server)) /\ shelf[current].used /\ current \in Chats
  BY ChainAssumption DEF RcTypes, NumbersOK, StateOK, SettingOK, Restart, Change, TurnsOf
<1>2. NoRequest \in RequestsOf(said, Len(server)) /\ NoPlan \in PlansOf(Len(server)) /\ ~NoPlan.on
      /\ NoTurn \in TurnsOf(said)
  BY <1>1, NothingYet
<1>3. shelf[current] \in ChatsOf(Messages, Len(server)) /\ shelf[current].runtime \in Runtimes
  BY <1>1 DEF ShelvesOf
<1>4. agent' \in AgentsOf(Messages, Len(server))
  BY <1>1, <1>3, ResumedFromIs
<1>5. StateOK'
  BY <1>1, <1>2, <1>4 DEF RcTypes, StateOK, Messages
<1>6. NumbersOK'
  <2>1. OfTurn \subseteq 1 .. said
    BY <1>1 DEF OfTurn
  <2>2. unsettled' \subseteq 1 .. said
    BY <1>1, <2>1 DEF RcTypes, NumbersOK
  <2>3. QED BY <1>1, <2>2 DEF RcTypes, NumbersOK
<1>7. SettingOK'
  BY <1>1, <1>3 DEF RcTypes, SettingOK
<1>8. TurnPlace' /\ PlanPlace'
  BY <1>1, <1>2 DEF RcTypes, TurnPlace, PlanPlace, InTurn
<1>9. QED BY <1>5, <1>6, <1>7, <1>8 DEF RcTypes

(* What the commands have in common. *)
LEMMA CommandTypes ==
  ASSUME RcTypes, Commanded, stage = "ready", changes' \in 0 .. MaxChanges,
         agent' \in AgentsOf(Messages, Len(server)), shelf' \in ShelvesOf(Messages, Len(server)),
         turn' \in TurnsOf(said), current' \in Chats, shelf'[current'].used, runtime' \in Runtimes,
         persistId' = persistId, building' \in {FALSE, building}
  PROVE  RcTypes'
<1>1. UNCHANGED <<stage, request, plan, server, prompted, said, unsettled, replanned>>
  BY DEF Commanded
<1>2. StateOK'
  BY <1>1 DEF RcTypes, StateOK, Messages
<1>3. NumbersOK'
  BY <1>1 DEF RcTypes, NumbersOK
<1>4. SettingOK'
  BY <1>1 DEF RcTypes, SettingOK
<1>5. TurnPlace'
  BY <1>1 DEF TurnPlace, InTurn
<1>6. PlanPlace'
  <2>1. PlanPlace /\ stage' = "ready" /\ plan' = plan /\ prompted' = prompted
    BY <1>1 DEF RcTypes
  <2>2. building' => building
    OBVIOUS
  <2>3. ~plan.on
    BY DEF RcTypes, PlanPlace, InTurn
  <2>4. QED BY <2>1, <2>2, <2>3 DEF PlanPlace, InTurn
<1>7. QED BY <1>2, <1>3, <1>4, <1>5, <1>6 DEF RcTypes

LEMMA SyncedAndShelved ==
  ASSUME RcTypes
  PROVE  /\ Synced(agent) \in AgentsOf(Messages, Len(server))
         /\ Shelved(Synced(agent), runtime) \in ShelvesOf(Messages, Len(server))
<1>1. agent \in AgentsOf(Messages, Len(server)) /\ Len(server) \in Nat
      /\ shelf \in ShelvesOf(Messages, Len(server)) /\ current \in Chats /\ runtime \in Runtimes
  BY DEF RcTypes, StateOK, SettingOK
<1>2. PICK a : a = Synced(agent) /\ a \in AgentsOf(Messages, Len(server))
  BY <1>1, SyncedIs
<1>3. Shelved(a, runtime) \in ShelvesOf(Messages, Len(server))
  BY <1>1, <1>2, ShelvedIs
<1>4. QED BY <1>2, <1>3

LEMMA StartNewSessionTypes ==
  ASSUME RcTypes, StartNewSession PROVE RcTypes'
<1>1. PICK c \in Chats : /\ ~shelf[c].used /\ current' = c
                         /\ shelf' = [Shelved(Synced(agent), runtime) EXCEPT ![c] = NewChat]
  BY DEF StartNewSession
<1>2. stage = "ready" /\ changes' \in 0 .. MaxChanges /\ agent' = Fresh /\ turn' = NoTurn
      /\ building' = FALSE /\ runtime' = runtime /\ persistId' = persistId /\ Commanded
      /\ said \in Nat /\ Len(server) \in Nat /\ runtime \in Runtimes
  BY ChainAssumption DEF RcTypes, NumbersOK, StateOK, SettingOK, StartNewSession, Change
<1>3. Shelved(Synced(agent), runtime) \in ShelvesOf(Messages, Len(server))
  BY SyncedAndShelved
<1>4. NewChat \in ChatsOf(Messages, Len(server)) /\ NewChat.used /\ NewChat.runtime \in Runtimes
      /\ agent' \in AgentsOf(Messages, Len(server)) /\ turn' \in TurnsOf(said)
  <2>1. NoContext \in ContextsOf(Len(server))
    BY <1>2, NothingYet
  <2>2. NewChat \in ChatsOf(Messages, Len(server)) /\ NewChat.used /\ NewChat.runtime \in Runtimes
    BY <1>2, <2>1 DEF NewChat, ChatsOf
  <2>3. QED BY <1>2, <2>2, NothingYet, NothingSaid
<1>5. shelf' \in ShelvesOf(Messages, Len(server)) /\ shelf'[current'].used
  BY <1>1, <1>3, <1>4 DEF ShelvesOf
<1>6. QED BY <1>1, <1>2, <1>4, <1>5, CommandTypes

LEMMA ResumeSessionTypes ==
  ASSUME RcTypes, ResumeSession PROVE RcTypes'
<1>1. PICK c \in Chats \ {current} : /\ shelf[c].used /\ current' = c /\ runtime' = shelf[c].runtime
                                     /\ agent' = ResumedFrom(shelf[c])
  BY DEF ResumeSession
<1>2. stage = "ready" /\ changes' \in 0 .. MaxChanges /\ turn' = NoTurn
      /\ building' = FALSE /\ persistId' = persistId /\ Commanded
      /\ shelf' = Shelved(Synced(agent), runtime) /\ shelf \in ShelvesOf(Messages, Len(server))
      /\ said \in Nat /\ Len(server) \in Nat
  BY ChainAssumption DEF RcTypes, NumbersOK, StateOK, SettingOK, ResumeSession, Change
<1>3. shelf' \in ShelvesOf(Messages, Len(server))
  BY <1>2, SyncedAndShelved
<1>4. shelf'[c] = shelf[c]
  BY <1>1, <1>2 DEF Shelved, ShelvesOf
<1>5. shelf[c] \in ChatsOf(Messages, Len(server)) /\ shelf[c].runtime \in Runtimes
  BY <1>1, <1>2 DEF ShelvesOf
<1>6. agent' \in AgentsOf(Messages, Len(server)) /\ turn' \in TurnsOf(said)
  BY <1>1, <1>2, <1>5, ResumedFromIs, NothingYet
<1>7. QED BY <1>1, <1>2, <1>3, <1>4, <1>5, <1>6, CommandTypes

LEMMA SwitchRuntimeTypes ==
  ASSUME RcTypes, SwitchRuntime PROVE RcTypes'
<1>1. PICK r \in Runtimes : /\ runtime' = r /\ agent' = Cleared(agent) /\ shelf' = Shelved(agent', r)
  BY DEF SwitchRuntime
<1>2. stage = "ready" /\ changes' \in 0 .. MaxChanges /\ turn' = turn /\ current' = current
      /\ building' = building /\ persistId' = persistId /\ Commanded
      /\ agent \in AgentsOf(Messages, Len(server)) /\ shelf \in ShelvesOf(Messages, Len(server))
      /\ said \in Nat /\ Len(server) \in Nat /\ turn \in TurnsOf(said) /\ current \in Chats
  BY ChainAssumption DEF RcTypes, NumbersOK, StateOK, SettingOK, SwitchRuntime, Change
<1>3. agent' \in AgentsOf(Messages, Len(server))
  BY <1>1, <1>2, ClearedIs
<1>4. shelf' \in ShelvesOf(Messages, Len(server)) /\ shelf'[current].used
  BY <1>1, <1>2, <1>3, ShelvedIs
<1>5. QED BY <1>1, <1>2, <1>3, <1>4, CommandTypes

LEMMA RcTypesStep ==
  RcTypes /\ [RcNext]_rcVars => RcTypes'
<1> SUFFICES ASSUME RcTypes, [RcNext]_rcVars PROVE RcTypes'
  OBVIOUS
<1>1. CASE RcNext
  BY <1>1, PromptTypes, PlanPromptTypes, RerunTypes, HandoffTypes, AskTypes, RefuseTypes,
     AnswerTypes, AnswerSentBackTypes, AnswerUnrecordedTypes, AnswerWithCallTypes,
     ReplyTypes, ReplyInHistoryTypes, ContinueTypes,
     CompressInTurnTypes, CompressNowTypes, CompactTypes, RetryCompressedTypes,
     NothingToDoTypes, ApproveTypes, DeclineTypes, FeedbackTypes, RetryPlanTypes,
     FailTurnTypes, RestartTypes, StartNewSessionTypes, ResumeSessionTypes,
     SwitchRuntimeTypes DEF RcNext
<1>2. CASE UNCHANGED rcVars
  <2>1. StateOK' /\ NumbersOK' /\ SettingOK'
    BY <1>2 DEF rcVars, setting, counts, facts, RcTypes, StateOK, NumbersOK, SettingOK, Messages
  <2>2. TurnPlace' /\ PlanPlace'
    BY <1>2 DEF rcVars, setting, counts, facts, RcTypes, TurnPlace, PlanPlace, InTurn
  <2>3. QED BY <2>1, <2>2 DEF RcTypes
<1>3. QED BY <1>1, <1>2

LEMMA RcTypesInvariant == RcSpec => []RcTypes
BY RcTypesInit, RcTypesStep, PTL DEF RcSpec

(* Type correctness. *)
THEOREM RcTypeCorrect == RcSpec => []RcTypeOK
<1>1. RcTypes => RcTypeOK
  <2> SUFFICES ASSUME RcTypes PROVE RcTypeOK
    OBVIOUS
  <2>1. agent \in AgentsOf(Messages, Len(server)) /\ ContextsOf(Len(server)) = Contexts
    BY DEF RcTypes, StateOK, ContextsOf, Contexts
  <2>2. agent.convo \in Seq(Messages) /\ agent.logged \in Seq(Messages)
        /\ {agent.saved, agent.snapshot} \subseteq Contexts /\ agent.cached \in 0 .. Len(server)
    BY <2>1 DEF AgentsOf
  <2>3. plan.on => stage \in {"ask", "wait", "tools", "between", "review"}
    BY DEF RcTypes, PlanPlace, InTurn
  <2>4. QED BY <2>2, <2>3 DEF RcTypes, SettingOK, NumbersOK, RcTypeOK
<1>2. QED BY <1>1, RcTypesInvariant, PTL

-----------------------------------------------------------------------------
(* The second layer: what plan mode takes back.  The checkpoint cuts at    *)
(* the start of the turn, no message of the investigation lies before it,  *)
(* and once the investigation is given back there is none of it left.      *)

NoneOf(s, k) == \A i \in 1 .. k : s[i].turn # prompted
Clean(s) == NoneOf(s, Len(s))

CheckpointOK ==
  plan.on /\ ~replanned =>
    /\ plan.length <= Len(agent.convo) /\ plan.entries <= Len(agent.logged)
    /\ InTurn => plan.length = turn.start
    /\ NoneOf(agent.convo, plan.length) /\ NoneOf(agent.logged, plan.entries)

GivenBack ==
  (building \/ stage \in {"rerun", "handoff"}) /\ ~replanned =>
    Clean(agent.convo) /\ Clean(agent.logged)

Investigation == CheckpointOK /\ GivenBack

(* t is s and more, and what is more belongs to no investigation when the  *)
(* turn implements a plan.                                                 *)
Longer(s, t) ==
  /\ Len(s) <= Len(t) /\ \A i \in 1 .. Len(s) : t[i] = s[i]
  /\ building => \A i \in Len(s) + 1 .. Len(t) : t[i].turn = 0

LEMMA LongerIs ==
  ASSUME NEW M, NEW s \in Seq(M), NEW ms \in Seq(M),
         building => \A i \in DOMAIN ms : ms[i].turn = 0
  PROVE  Longer(s, s \o ms) /\ Longer(s, s)
<1>1. Len(s) \in Nat /\ Len(ms) \in Nat /\ Len(s \o ms) = Len(s) + Len(ms)
      /\ \A i \in 1 .. Len(s) : (s \o ms)[i] = s[i]
  OBVIOUS
<1>2. ASSUME NEW i \in Len(s) + 1 .. Len(s \o ms) PROVE (s \o ms)[i] = ms[i - Len(s)] /\ i - Len(s) \in DOMAIN ms
  BY <1>1
<1>3. QED BY <1>1, <1>2 DEF Longer

LEMMA GoesOn ==
  ASSUME RcTypes, Investigation, plan' = plan, prompted' = prompted, building' = building,
         replanned' = replanned, turn' = turn, InTurn, stage' \notin {"rerun", "handoff"},
         Longer(agent.convo, agent'.convo), Longer(agent.logged, agent'.logged),
         Len(agent'.convo) \in Nat, Len(agent'.logged) \in Nat
  PROVE  Investigation'
<1>1. plan.length \in Nat /\ plan.entries \in Nat /\ Len(agent.convo) \in Nat /\ Len(agent.logged) \in Nat
  BY DEF RcTypes, StateOK, PlansOf, AgentsOf
<1>2. CheckpointOK'
  <2> SUFFICES ASSUME plan.on, ~replanned
      PROVE /\ plan.length <= Len(agent'.convo) /\ plan.entries <= Len(agent'.logged)
            /\ plan.length = turn.start
            /\ \A i \in 1 .. plan.length : agent'.convo[i].turn # prompted
            /\ \A i \in 1 .. plan.entries : agent'.logged[i].turn # prompted
    BY DEF CheckpointOK, NoneOf
  <2>1. /\ plan.length <= Len(agent.convo) /\ plan.entries <= Len(agent.logged)
        /\ plan.length = turn.start
        /\ \A i \in 1 .. plan.length : agent.convo[i].turn # prompted
        /\ \A i \in 1 .. plan.entries : agent.logged[i].turn # prompted
    BY DEF Investigation, CheckpointOK, NoneOf
  <2>2. plan.length <= Len(agent'.convo) /\ plan.entries <= Len(agent'.logged)
    BY <1>1, <2>1, SMTT(40) DEF Longer
  <2>3. ASSUME NEW i \in 1 .. plan.length PROVE agent'.convo[i].turn # prompted
    BY <1>1, <2>1, SMTT(60) DEF Longer
  <2>4. ASSUME NEW i \in 1 .. plan.entries PROVE agent'.logged[i].turn # prompted
    BY <1>1, <2>1, SMTT(40) DEF Longer
  <2>5. QED BY <2>1, <2>2, <2>3, <2>4
<1>3. GivenBack'
  <2> SUFFICES ASSUME building, ~replanned
      PROVE /\ \A i \in 1 .. Len(agent'.convo) : agent'.convo[i].turn # prompted
            /\ \A i \in 1 .. Len(agent'.logged) : agent'.logged[i].turn # prompted
    BY DEF GivenBack, Clean, NoneOf
  <2>1. /\ \A i \in 1 .. Len(agent.convo) : agent.convo[i].turn # prompted
        /\ \A i \in 1 .. Len(agent.logged) : agent.logged[i].turn # prompted
    BY DEF Investigation, GivenBack, Clean, NoneOf
  <2>2. prompted > 0
    BY DEF RcTypes, PlanPlace
  <2>3. ASSUME NEW i \in 1 .. Len(agent'.convo) PROVE agent'.convo[i].turn # prompted
    <3>1. CASE i <= Len(agent.convo)
      BY <1>1, <2>1, <3>1 DEF Longer
    <3>2. CASE i > Len(agent.convo)
      BY <1>1, <2>2, <3>2 DEF Longer
    <3>3. QED BY <1>1, <3>1, <3>2
  <2>4. ASSUME NEW i \in 1 .. Len(agent'.logged) PROVE agent'.logged[i].turn # prompted
    <3>1. CASE i <= Len(agent.logged)
      BY <1>1, <2>1, <3>1, SMTT(40) DEF Longer
    <3>2. CASE i > Len(agent.logged)
      BY <1>1, <2>2, <3>2 DEF Longer
    <3>3. QED BY <1>1, <3>1, <3>2
  <2>5. QED BY <2>3, <2>4
<1>4. QED BY <1>2, <1>3 DEF Investigation

(* No plan, and nothing that implements one. *)
LEMMA NoPlanNoDuty ==
  ASSUME ~plan'.on, ~building', stage' \notin {"rerun", "handoff"}
  PROVE  Investigation'
BY DEF Investigation, CheckpointOK, GivenBack

LEMMA ReadyHasNoPlan ==
  ASSUME RcTypes, stage \notin {"ask", "wait", "tools", "between", "review"}
  PROVE  ~plan.on
BY DEF RcTypes, PlanPlace, InTurn

(* A cut of what is clean up to there. *)
LEMMA CutIsClean ==
  ASSUME NEW M, NEW s \in Seq(M), NEW k \in 0 .. Len(s), NoneOf(s, k)
  PROVE  Clean(SubSeq(s, 1, k))
<1>1. Len(SubSeq(s, 1, k)) = k /\ \A i \in 1 .. k : SubSeq(s, 1, k)[i] = s[i]
  OBVIOUS
<1>2. QED BY <1>1 DEF Clean, NoneOf

LEMMA RestoredIsClean ==
  ASSUME RcTypes, Investigation, plan.on, ~replanned
  PROVE  /\ Restored(agent).convo = SubSeq(agent.convo, 1, plan.length)
         /\ Restored(agent).logged = SubSeq(agent.logged, 1, plan.entries)
         /\ Clean(Restored(agent).convo) /\ Clean(Restored(agent).logged)
<1>1. agent \in AgentsOf(Messages, Len(server)) /\ plan \in PlansOf(Len(server)) /\ Len(server) \in Nat
      /\ agent.convo \in Seq(Messages) /\ agent.logged \in Seq(Messages)
      /\ plan.length \in Nat /\ plan.entries \in Nat
  BY DEF RcTypes, StateOK, AgentsOf, PlansOf
<1>2. plan.length <= Len(agent.convo) /\ plan.entries <= Len(agent.logged)
      /\ NoneOf(agent.convo, plan.length) /\ NoneOf(agent.logged, plan.entries)
  BY DEF Investigation, CheckpointOK
<1>3. /\ Restored(agent).convo = SubSeq(agent.convo, 1, plan.length)
      /\ Restored(agent).logged = SubSeq(agent.logged, 1, plan.entries)
  BY <1>1, <1>2, RestoredIs
<1>4. plan.length \in 0 .. Len(agent.convo) /\ plan.entries \in 0 .. Len(agent.logged)
  BY <1>1, <1>2
<1>5. Clean(SubSeq(agent.convo, 1, plan.length)) /\ Clean(SubSeq(agent.logged, 1, plan.entries))
  BY <1>1, <1>2, <1>4, CutIsClean
<1>6. QED BY <1>3, <1>5

(* The prompt of an investigation: nothing before it belongs to it. *)
LEMMA InvestigateBegins ==
  ASSUME RcTypes, RcTypes', NEW number, Investigate(number), said' = said + 1, ~building',
         number \in 0 .. prompted', prompted' \in Nat, prompted <= prompted',
         server' = server, turn'.start = Len(agent.convo),
         ~replanned' => /\ \A i \in 1 .. Len(agent.convo) : agent.convo[i].turn # prompted'
                        /\ \A i \in 1 .. Len(agent.logged) : agent.logged[i].turn # prompted'
  PROVE  Investigation'
<1> DEFINE m == [n |-> said + 1, kind |-> "plain", turn |-> number]
<1>1. said \in Nat /\ prompted \in Nat /\ Len(server) \in Nat
  BY DEF RcTypes, NumbersOK, StateOK
<1>2. PICK M, k : Under(M, k)
  BY <1>1, Grown
<1>3. m \in M
  BY <1>1, <1>2 DEF Under, Messages
<1>4. Persist(Said(agent, <<m>>)) /\ stage' = "ask"
      /\ plan'.length = Len(agent.convo) /\ plan'.entries = Len(agent.logged)
  BY DEF Investigate
<1> HIDE DEF m
<1>5. agent'.convo = agent.convo \o <<m>> /\ agent'.logged = agent.logged \o <<m>>
  BY <1>2, <1>3, <1>4, PersistSaid DEF Under
<1>6. agent.convo \in Seq(M) /\ agent.logged \in Seq(M) /\ <<m>> \in Seq(M)
  BY <1>2, <1>3 DEF Under, AgentsOf
<1>7. /\ Len(agent.convo) <= Len(agent'.convo) /\ Len(agent.logged) <= Len(agent'.logged)
      /\ \A i \in 1 .. Len(agent.convo) : agent'.convo[i] = agent.convo[i]
      /\ \A i \in 1 .. Len(agent.logged) : agent'.logged[i] = agent.logged[i]
  BY <1>5, <1>6
<1>8. CheckpointOK'
  BY <1>4, <1>7 DEF CheckpointOK, NoneOf
<1>9. GivenBack'
  BY <1>4 DEF GivenBack
<1>10. QED BY <1>8, <1>9 DEF Investigation

LEMMA PlanPromptBack ==
  ASSUME RcTypes, RcTypes', Investigation, PlanPrompt PROVE Investigation'
<1>1. Investigate(prompted + 1) /\ said' = said + 1 /\ ~building' /\ prompted' = prompted + 1
      /\ server' = server /\ turn'.start = Len(agent.convo) /\ prompted \in Nat
  BY DEF PlanPrompt, Investigate, Speak, BeginTurn, RcTypes, NumbersOK
<1>2. agent.convo \in Seq(Messages) /\ agent.logged \in Seq(Messages)
  BY DEF RcTypes, StateOK, AgentsOf
<1>3. \A i \in 1 .. Len(agent.convo) : agent.convo[i].turn \in 0 .. prompted
  <2>1. \A i \in 1 .. Len(agent.convo) : agent.convo[i] \in Messages
    BY <1>2
  <2>2. QED BY <2>1 DEF Messages
<1>4. \A i \in 1 .. Len(agent.logged) : agent.logged[i].turn \in 0 .. prompted
  <2>1. \A i \in 1 .. Len(agent.logged) : agent.logged[i] \in Messages
    BY <1>2
  <2>2. QED BY <2>1 DEF Messages
<1>5. /\ \A i \in 1 .. Len(agent.convo) : agent.convo[i].turn # prompted'
      /\ \A i \in 1 .. Len(agent.logged) : agent.logged[i].turn # prompted'
  BY <1>1, <1>3, <1>4
<1>6. QED BY <1>1, <1>5, InvestigateBegins

LEMMA RerunBack ==
  ASSUME RcTypes, RcTypes', Investigation, Rerun PROVE Investigation'
<1>1. Investigate(prompted) /\ said' = said + 1 /\ building' = building /\ prompted' = prompted
      /\ server' = server /\ prompted \in Nat /\ replanned' = replanned /\ stage = "rerun"
      /\ turn' = [turn EXCEPT !.input = said + 1, !.start = Len(agent.convo)] /\ turn \in TurnsOf(said)
  BY DEF Rerun, Investigate, Speak, RcTypes, NumbersOK, facts, StateOK
<1>2. turn'.start = Len(agent.convo)
  BY <1>1 DEF TurnsOf
<1>3. ~building
  BY <1>1 DEF RcTypes, PlanPlace
<1>4. ~replanned => /\ \A i \in 1 .. Len(agent.convo) : agent.convo[i].turn # prompted
                    /\ \A i \in 1 .. Len(agent.logged) : agent.logged[i].turn # prompted
  BY <1>1 DEF Investigation, GivenBack, Clean, NoneOf
<1>5. QED BY <1>1, <1>2, <1>3, <1>4, InvestigateBegins

LEMMA HandoffBack ==
  ASSUME RcTypes, Investigation, Handoff PROVE Investigation'
<1> DEFINE m == Msg(1, "plain")
<1>1. said \in Nat /\ prompted \in Nat /\ said' = said + 1 /\ prompted' = prompted
      /\ server' = server /\ Len(server) \in Nat /\ replanned' = replanned /\ plan' = plan
      /\ stage = "handoff" /\ ~plan.on /\ prompted > 0
  BY ReadyHasNoPlan DEF RcTypes, NumbersOK, StateOK, Handoff, Speak, PlanPlace
<1>2. PICK M, k : Under(M, k)
  BY <1>1, Grown
<1>3. m \in M /\ m.turn = 0 /\ Persist(Said(agent, <<m>>))
  BY <1>1, <1>2, MsgIs DEF Handoff
<1> HIDE DEF m
<1>4. agent'.convo = agent.convo \o <<m>> /\ agent'.logged = agent.logged \o <<m>>
  BY <1>2, <1>3, PersistSaid DEF Under
<1>5. agent.convo \in Seq(M) /\ agent.logged \in Seq(M) /\ <<m>> \in Seq(M)
  BY <1>2, <1>3 DEF Under, AgentsOf
<1>6. ~replanned => Clean(agent.convo) /\ Clean(agent.logged)
  BY <1>1 DEF Investigation, GivenBack
<1>7. ASSUME NEW s \in Seq(M), \A i \in 1 .. Len(s) : s[i].turn # prompted
      PROVE  \A i \in 1 .. Len(s \o <<m>>) : (s \o <<m>>)[i].turn # prompted
  <2>1. ASSUME NEW i \in 1 .. Len(s \o <<m>>)
        PROVE  (s \o <<m>>)[i] = m \/ (i \in 1 .. Len(s) /\ (s \o <<m>>)[i] = s[i])
    BY <1>5
  <2>2. QED BY <1>1, <1>3, <1>7, <2>1
<1>8. ~replanned => /\ \A i \in 1 .. Len(agent'.convo) : agent'.convo[i].turn # prompted
                    /\ \A i \in 1 .. Len(agent'.logged) : agent'.logged[i].turn # prompted
  BY <1>4, <1>5, <1>6, <1>7 DEF Clean, NoneOf
<1>9. QED BY <1>1, <1>8 DEF Investigation, CheckpointOK, GivenBack, Clean, NoneOf

LEMMA AskBack ==
  ASSUME RcTypes, RcTypes', Investigation, Ask PROVE Investigation'
<1>1. agent \in AgentsOf(Messages, Len(server)) /\ Len(server) \in Nat
  BY DEF RcTypes, StateOK
<1>2. PICK prompt : agent' = ReusableFor(agent, prompt) \/ agent' = Cleared(agent)
  BY DEF Ask
<1>3. agent'.convo = agent.convo /\ agent'.logged = agent.logged
  BY <1>1, <1>2, ReusableForIs, ClearedIs
<1>4. UNCHANGED <<turn, plan, prompted, facts>> /\ stage = "ask" /\ stage' = "wait"
  BY DEF Ask
<1>5. QED BY <1>3, <1>4 DEF Investigation, CheckpointOK, GivenBack, InTurn, facts, NoneOf, Clean

LEMMA RefuseBack ==
  ASSUME RcTypes, Investigation, Refuse PROVE Investigation'
<1>1. agent'.convo = agent.convo /\ agent'.logged = agent.logged
  BY DEF Refuse, RcTypes, StateOK, AgentsOf
<1>2. UNCHANGED <<stage, turn, plan, counts, facts>>
  BY DEF Refuse
<1>3. QED BY <1>1, <1>2 DEF Investigation, CheckpointOK, GivenBack, InTurn, counts, facts, NoneOf, Clean

(* An answer or a call of tools that is recorded. *)
LEMMA RecordedSays ==
  ASSUME RcTypes, NEW open \in {0, 1}, Responds(open), said' = said + 1,
         NEW kind \in {"plain", "calls"}, Persist(Said(Answered, <<Msg(1, kind)>>))
  PROVE  \E M : /\ Msg(1, kind) \in M /\ agent.convo \in Seq(M) /\ agent.logged \in Seq(M)
                /\ agent'.convo = agent.convo \o <<Msg(1, kind)>>
                /\ agent'.logged = agent.logged \o <<Msg(1, kind)>>
                /\ (~plan.on => Msg(1, kind).turn = 0)
<1> DEFINE m == Msg(1, kind)
<1>1. said \in Nat /\ said' \in Nat /\ said + 1 <= said' /\ prompted \in Nat /\ prompted' = prompted
      /\ stage = "wait"
  BY DEF RcTypes, NumbersOK, Responds
<1>2. PICK M, k : Under(M, k)
  BY <1>1, RespondsTypes
<1>3. m \in M /\ (~plan.on => m.turn = 0) /\ Persist(Said(Answered, <<m>>))
  BY <1>1, <1>2, MsgIs
<1> HIDE DEF m
<1>4. PICK a : a = Answered /\ a \in AgentsOf(M, k) /\ a.convo = agent.convo /\ a.logged = agent.logged
  BY <1>1, <1>2, AnsweredIs, RespondsTypes
<1>5. Persist(Said(a, <<m>>)) /\ a \in AgentsOf(M, k) /\ m \in M
  BY <1>3, <1>4
<1>6. agent'.convo = a.convo \o <<m>> /\ agent'.logged = a.logged \o <<m>>
  BY <1>2, <1>5, PersistSaid
<1>7. agent'.convo = agent.convo \o <<m>> /\ agent'.logged = agent.logged \o <<m>>
  BY <1>4, <1>6, Zenon
<1>8. agent.convo \in Seq(M) /\ agent.logged \in Seq(M)
  BY <1>2 DEF Under, AgentsOf
<1>9. QED BY <1>3, <1>7, <1>8 DEF m

(* One message more, in the history and in the session. *)
LEMMA OneMoreBack ==
  ASSUME RcTypes, Investigation, plan' = plan, prompted' = prompted, building' = building,
         replanned' = replanned, turn' = turn, InTurn, stage' \notin {"rerun", "handoff"},
         NEW M, NEW m \in M, agent.convo \in Seq(M), agent.logged \in Seq(M),
         agent'.convo = agent.convo \o <<m>>, agent'.logged = agent.logged \o <<m>>,
         ~plan.on => m.turn = 0
  PROVE  Investigation'
<1>1. building => ~plan.on
  BY DEF RcTypes, PlanPlace
<1>2. building => \A i \in DOMAIN <<m>> : <<m>>[i].turn = 0
  BY <1>1
<1>3. <<m>> \in Seq(M)
  OBVIOUS
<1>4. Longer(agent.convo, agent'.convo) /\ Longer(agent.logged, agent'.logged)
  BY <1>2, <1>3, LongerIs
<1>5. Len(agent'.convo) \in Nat /\ Len(agent'.logged) \in Nat
  BY <1>3
<1>6. QED BY <1>4, <1>5, GoesOn

LEMMA AnswerBack ==
  ASSUME RcTypes, Investigation, Answer PROVE Investigation'
<1>1. Responds(0) /\ said' = said + 1 /\ Persist(Said(Answered, <<Msg(1, "plain")>>))
      /\ stage' \in {"review", "ready"}
  BY DEF Answer, Speak
<1>2. UNCHANGED <<turn, plan, prompted, replanned, building>> /\ InTurn
  BY <1>1 DEF Responds, InTurn
<1>3. PICK M : /\ Msg(1, "plain") \in M /\ agent.convo \in Seq(M) /\ agent.logged \in Seq(M)
               /\ agent'.convo = agent.convo \o <<Msg(1, "plain")>>
               /\ agent'.logged = agent.logged \o <<Msg(1, "plain")>>
               /\ (~plan.on => Msg(1, "plain").turn = 0)
  BY <1>1, RecordedSays
<1>4. stage' \notin {"rerun", "handoff"}
  BY <1>1
<1>5. QED BY <1>2, <1>3, <1>4, OneMoreBack

LEMMA AnswerWithCallBack ==
  ASSUME RcTypes, Investigation, AnswerWithCall PROVE Investigation'
<1> DEFINE kind == IF plan.on THEN "plain" ELSE "calls"
<1>1. Responds(1) /\ said' = said + 1 /\ Persist(Said(Answered, <<Msg(1, kind)>>))
      /\ stage' = "tools" /\ kind \in {"plain", "calls"}
  BY DEF AnswerWithCall, Speak
<1>2. UNCHANGED <<turn, plan, prompted, replanned, building>> /\ InTurn
  BY <1>1 DEF Responds, InTurn
<1> HIDE DEF kind
<1>3. PICK M : /\ Msg(1, kind) \in M /\ agent.convo \in Seq(M) /\ agent.logged \in Seq(M)
               /\ agent'.convo = agent.convo \o <<Msg(1, kind)>>
               /\ agent'.logged = agent.logged \o <<Msg(1, kind)>>
               /\ (~plan.on => Msg(1, kind).turn = 0)
  BY <1>1, RecordedSays
<1>4. stage' \notin {"rerun", "handoff"}
  BY <1>1
<1>5. QED BY <1>2, <1>3, <1>4, OneMoreBack

LEMMA AnswerUnrecordedBack ==
  ASSUME RcTypes, Investigation, AnswerUnrecorded PROVE Investigation'
<1>1. Responds(0) /\ agent' = Answered /\ stage' = "ready" /\ ~plan.on
  BY DEF AnswerUnrecorded
<1>2. UNCHANGED <<turn, plan, prompted, replanned, building>>
  BY <1>1 DEF Responds
<1>3. agent'.convo = agent.convo /\ agent'.logged = agent.logged
  BY <1>1 DEF Answered, RcTypes, StateOK, AgentsOf
<1>4. QED BY <1>1, <1>2, <1>3 DEF Investigation, CheckpointOK, GivenBack, NoneOf, Clean

LEMMA AnswerSentBackBack ==
  ASSUME RcTypes, Investigation, AnswerSentBack PROVE Investigation'
<1> DEFINE m == Msg(1, "plain")
           q == Msg(2, "plain")
<1>1. said \in Nat /\ said' = said + 2 /\ said' \in Nat /\ said + 1 <= said' /\ prompted \in Nat
      /\ prompted' = prompted /\ stage = "wait" /\ Responds(0) /\ stage' = "ask" /\ InTurn
      /\ UNCHANGED <<turn, plan, replanned, building>>
  BY DEF RcTypes, NumbersOK, Responds, AnswerSentBack, Speak, InTurn
<1>2. PICK M, k : Under(M, k)
  BY <1>1, RespondsTypes
<1>3. m \in M /\ q \in M /\ (~plan.on => m.turn = 0 /\ q.turn = 0)
  BY <1>1, <1>2, MsgIs
<1> HIDE DEF m, q
<1>4. PICK x : x = Answered /\ x \in AgentsOf(M, k) /\ x.convo = agent.convo /\ x.logged = agent.logged
  BY <1>1, <1>2, AnsweredIs, RespondsTypes
<1>5. x \in AgentsOf(M, k) /\ k \in Nat /\ current \in Chats /\ runtime \in Runtimes
      /\ shelf \in ShelvesOf(M, k)
  BY <1>2, <1>4 DEF Under, RcTypes, SettingOK
<1>6. agent.convo \in Seq(M) /\ agent.logged \in Seq(M)
  BY <1>2 DEF Under, AgentsOf
<1>7. PICK ms, ns : /\ ms \in Seq(M) /\ ns \in Seq(M)
                    /\ agent'.convo = agent.convo \o ms /\ agent'.logged = agent.logged \o ns
                    /\ ~plan.on => /\ \A i \in DOMAIN ms : ms[i].turn = 0
                                   /\ \A i \in DOMAIN ns : ns[i].turn = 0
  <2>1. CASE plan.on /\ Persist(Noted(Said(Answered, <<m>>), <<q>>))
    <3>1. <<m>> \in Seq(M) /\ <<q>> \in Seq(M) /\ <<m, q>> \in Seq(M)
      BY <1>3
    <3>2. PICK a : /\ a = Said(x, <<m>>) /\ a \in AgentsOf(M, k)
                   /\ a.convo = x.convo \o <<m>> /\ a.logged = x.logged \o <<m>>
      BY <1>5, <3>1, SaidIs, ZenonT(60)
    <3>3. a \in AgentsOf(M, k)
      BY <3>2
    <3>4. PICK b : /\ b = Noted(a, <<q>>) /\ b \in AgentsOf(M, k)
                   /\ b.convo = a.convo \o <<q>> /\ b.logged = a.logged
      <4>1. /\ Noted(a, <<q>>) \in AgentsOf(M, k)
            /\ Noted(a, <<q>>).convo = a.convo \o <<q>> /\ Noted(a, <<q>>).logged = a.logged
        BY <1>5, <3>1, <3>3, NotedIs
      <4>2. QED BY <4>1
    <3>5. Persist(b) /\ b \in AgentsOf(M, k)
      BY <1>4, <2>1, <3>2, <3>4
    <3>6. agent'.convo = b.convo /\ agent'.logged = b.logged
      BY <1>5, <3>5, PersistIs
    <3>7. agent'.convo = (agent.convo \o <<m>>) \o <<q>> /\ agent'.logged = agent.logged \o <<m>>
      BY <1>4, <3>2, <3>4, <3>6, Zenon
    <3>8. agent'.convo = agent.convo \o <<m, q>>
      BY <1>3, <1>6, <3>7, TwoMore, ZenonT(60)
    <3>9. QED BY <2>1, <3>1, <3>7, <3>8
  <2>2. CASE ~plan.on /\ agent' = Noted(Answered, <<m, q>>)
    <3>1. <<m, q>> \in Seq(M) /\ <<>> \in Seq(M) /\ agent.logged \o <<>> = agent.logged
      BY <1>3, <1>6
    <3>2. agent' = Noted(x, <<m, q>>)
      BY <1>4, <2>2
    <3>3. agent'.convo = x.convo \o <<m, q>> /\ agent'.logged = x.logged
      BY <1>5, <3>1, <3>2, NotedIs, ZenonT(60)
    <3>4. agent'.convo = agent.convo \o <<m, q>> /\ agent'.logged = agent.logged \o <<>>
      BY <1>4, <3>1, <3>3, Zenon
    <3>5. \A i \in DOMAIN <<m, q>> : <<m, q>>[i].turn = 0
      BY <1>3, <2>2
    <3>6. \A i \in DOMAIN <<>> : <<>>[i].turn = 0
      OBVIOUS
    <3>7. QED BY <3>1, <3>4, <3>5, <3>6
  <2>3. QED BY <2>1, <2>2 DEF AnswerSentBack, m, q
<1>8. building => ~plan.on
  BY DEF RcTypes, PlanPlace
<1>9. Longer(agent.convo, agent'.convo) /\ Longer(agent.logged, agent'.logged)
  BY <1>6, <1>7, <1>8, LongerIs
<1>10. Len(agent'.convo) \in Nat /\ Len(agent'.logged) \in Nat
  BY <1>6, <1>7
<1>11. QED BY <1>1, <1>9, <1>10, GoesOn

LEMMA ReplyBack ==
  ASSUME RcTypes, Investigation, Reply PROVE Investigation'
<1> DEFINE m == Msg(1, "reply")
<1>1. said \in Nat /\ said' = said + 1 /\ prompted \in Nat /\ Len(server) \in Nat
      /\ InTurn /\ stage' = "between"
  BY DEF RcTypes, NumbersOK, StateOK, Reply, Speak, ToolsRun, InTurn
<1>2. UNCHANGED <<turn, plan, server, prompted, replanned, building>>
  BY DEF Reply, ToolsLeave
<1>3. PICK M, k : Under(M, k)
  BY <1>1, <1>2, Grown
<1>4. m \in M /\ (~plan.on => m.turn = 0) /\ Persist(Said(agent, <<m>>))
  BY <1>1, <1>2, <1>3, MsgIs DEF Reply
<1> HIDE DEF m
<1>5. agent'.convo = agent.convo \o <<m>> /\ agent'.logged = agent.logged \o <<m>>
  BY <1>3, <1>4, PersistSaid DEF Under
<1>6. agent.convo \in Seq(M) /\ agent.logged \in Seq(M)
  BY <1>3 DEF Under, AgentsOf
<1>7. QED BY <1>1, <1>2, <1>4, <1>5, <1>6, OneMoreBack

LEMMA ReplyInHistoryBack ==
  ASSUME RcTypes, Investigation, ReplyInHistory PROVE Investigation'
<1>1. said \in Nat /\ said' = said + Len(Told) /\ prompted \in Nat /\ Len(server) \in Nat
      /\ InTurn /\ stage' = "between" /\ agent' = Noted(agent, Told) /\ Len(Told) \in Nat
  BY DEF RcTypes, NumbersOK, StateOK, ReplyInHistory, Speak, ToolsRun, Told, InTurn
<1>2. UNCHANGED <<turn, plan, server, prompted, replanned, building>>
  BY DEF ReplyInHistory, ToolsLeave
<1>3. PICK M, k : Under(M, k)
  BY <1>1, <1>2, Grown
<1>4. Told \in Seq(M) /\ (~plan.on => \A i \in DOMAIN Told : Told[i].turn = 0)
  BY <1>1, <1>2, <1>3, ToldIs
<1>5. agent'.convo = agent.convo \o Told /\ agent'.logged = agent.logged
  BY <1>1, <1>3, <1>4, NotedIs, SMTT(60) DEF Under
<1>6. agent.convo \in Seq(M) /\ agent.logged \in Seq(M)
  BY <1>3 DEF Under, AgentsOf
<1>7. building => ~plan.on
  BY DEF RcTypes, PlanPlace
<1>8. Longer(agent.convo, agent'.convo)
  BY <1>4, <1>5, <1>6, <1>7, LongerIs
<1>9. Longer(agent.logged, agent'.logged)
  BY <1>5, <1>6 DEF Longer
<1>10. Len(agent'.convo) \in Nat /\ Len(agent'.logged) \in Nat
  BY <1>4, <1>5, <1>6
<1>11. stage' \notin {"rerun", "handoff"}
  BY <1>1
<1>12. QED BY <1>1, <1>2, <1>8, <1>9, <1>10, <1>11, GoesOn

LEMMA ContinueBack ==
  ASSUME RcTypes, Investigation, Continue PROVE Investigation'
BY DEF Continue, Investigation, CheckpointOK, GivenBack, InTurn, counts, facts, NoneOf, Clean

LEMMA CompressInTurnBack ==
  ASSUME RcTypes, Investigation, CompressInTurn PROVE Investigation'
<1> DEFINE i == splitHistoryForInTurnCompression(agent.convo, turn.start, KeepNewest)
           start == 1 + turn.start - i
<1>1. said \in Nat /\ said' = said + 1 /\ prompted \in Nat /\ prompted' = prompted
      /\ Len(server) \in Nat /\ server' = server /\ stage = "between" /\ stage' = "ask"
      /\ facts' = facts /\ i > 0 /\ turn' = [turn EXCEPT !.start = start, !.compressed = TRUE]
      /\ plan' = Rebased(start) /\ Persist(Rewritten(Summarised(agent, i)))
  BY DEF RcTypes, NumbersOK, StateOK, CompressInTurn, Speak
<1>2. PICK M, k : Under(M, k)
  BY <1>1, Grown
<1>3. agent.convo \in Seq(M) /\ turn \in TurnsOf(said') /\ turn.start \in Nat
      /\ plan \in PlansOf(k) /\ Len(agent.convo) \in Nat
  BY <1>2 DEF Under, AgentsOf, TurnsOf
<1>4. turn.start < Len(agent.convo) /\ ~IsReply(agent.convo[turn.start + 1])
  BY <1>1 DEF RcTypes, TurnPlace, InTurn
<1>5. i \in 1 .. turn.start
  <2>1. i \in 0 .. turn.start
    BY <1>3, <1>4, ChainAssumption, InTurnSplitInside
  <2> HIDE DEF i
  <2>2. QED BY <1>1, <2>1
<1> HIDE DEF i
<1>6. start \in 1 .. turn.start /\ i \in 0 .. Len(agent.convo)
  BY <1>1, <1>3, <1>4, <1>5, SMTT(60)
<1>7. /\ agent'.logged = agent'.convo
      /\ Len(agent'.convo) = 1 + Len(agent.convo) - i /\ agent'.convo[1] = Summary
      /\ \A j \in i + 1 .. Len(agent.convo) : agent'.convo[1 + j - i] = agent.convo[j]
  BY <1>1, <1>2, <1>6, CompressedIs
<1>8. turn'.start = start
  <2> HIDE DEF start
  <2>1. QED BY <1>1, <1>3 DEF TurnsOf
<1>9. replanned' = replanned /\ building' = building
  BY <1>1 DEF facts
<1>10. Summary.turn = 0
  BY DEF Summary
<1>11. CheckpointOK'
  <2> SUFFICES ASSUME plan'.on, ~replanned
      PROVE /\ plan'.length <= Len(agent'.convo) /\ plan'.entries <= Len(agent'.convo)
            /\ plan'.length = turn'.start
            /\ \A j \in 1 .. plan'.length : agent'.convo[j].turn # prompted
            /\ \A j \in 1 .. plan'.entries : agent'.convo[j].turn # prompted
    BY <1>1, <1>7, <1>9 DEF CheckpointOK, NoneOf
  <2>1. plan.on /\ plan'.length = start /\ plan'.entries = start
    <3> HIDE DEF start
    <3>1. plan.on
      BY <1>1 DEF Rebased
    <3>2. QED BY <1>1, <1>3, <3>1 DEF Rebased, PlansOf
  <2>2. plan.length = turn.start /\ prompted > 0
    BY <1>1, <2>1 DEF Investigation, CheckpointOK, InTurn, RcTypes, PlanPlace
  <2>3. \A j \in 1 .. turn.start : agent.convo[j].turn # prompted
    BY <2>1, <2>2 DEF Investigation, CheckpointOK, NoneOf
  <2>4. ASSUME NEW j \in 1 .. start PROVE agent'.convo[j].turn # prompted
    <3>1. CASE j = 1
      BY <1>7, <1>10, <2>2, <3>1
    <3>2. CASE j # 1
      <4>1. j + i - 1 \in 1 .. turn.start /\ j + i - 1 \in i + 1 .. Len(agent.convo) /\ 1 + (j + i - 1) - i = j
        BY <1>3, <1>4, <1>5, <3>2
      <4>2. agent'.convo[j] = agent.convo[j + i - 1]
        BY <1>7, <4>1
      <4>3. QED BY <2>3, <4>1, <4>2
    <3>3. QED BY <3>1, <3>2
  <2>5. start <= Len(agent'.convo)
    BY <1>3, <1>4, <1>5, <1>7
  <2>6. QED BY <1>8, <2>1, <2>4, <2>5
<1>12. GivenBack'
  <2> SUFFICES ASSUME building, ~replanned
      PROVE \A j \in 1 .. Len(agent'.convo) : agent'.convo[j].turn # prompted
    BY <1>1, <1>7, <1>9 DEF GivenBack, Clean, NoneOf
  <2>1. \A j \in 1 .. Len(agent.convo) : agent.convo[j].turn # prompted
    BY DEF Investigation, GivenBack, Clean, NoneOf
  <2>2. prompted > 0
    BY DEF RcTypes, PlanPlace
  <2>3. ASSUME NEW j \in 1 .. Len(agent'.convo) PROVE agent'.convo[j].turn # prompted
    <3>1. CASE j = 1
      BY <1>7, <1>10, <2>2, <3>1
    <3>2. CASE j # 1
      <4>1. j + i - 1 \in i + 1 .. Len(agent.convo) /\ 1 + (j + i - 1) - i = j
            /\ j + i - 1 \in 1 .. Len(agent.convo)
        BY <1>3, <1>5, <1>6, <1>7, <3>2
      <4>2. agent'.convo[j] = agent.convo[j + i - 1]
        BY <1>7, <4>1
      <4>3. QED BY <2>1, <4>1, <4>2
    <3>3. QED BY <3>1, <3>2
  <2>4. QED BY <2>3
<1>13. QED BY <1>11, <1>12 DEF Investigation

(* A summary of what is clean is clean. *)
LEMMA SummaryIsClean ==
  ASSUME NEW s, Len(s) \in Nat, NEW k \in 0 .. Len(s), NEW t,
         prompted \in Nat, prompted > 0,
         Len(t) = 1 + Len(s) - k, t[1].turn = 0, \A j \in k + 1 .. Len(s) : t[1 + j - k] = s[j],
         \A j \in 1 .. Len(s) : s[j].turn # prompted
  PROVE  \A j \in 1 .. Len(t) : t[j].turn # prompted
<1> TAKE j \in 1 .. Len(t)
<1>1. CASE j = 1
  BY <1>1
<1>2. CASE j # 1
  <2>1. j + k - 1 \in k + 1 .. Len(s) /\ 1 + (j + k - 1) - k = j /\ j + k - 1 \in 1 .. Len(s)
    BY <1>2
  <2>2. t[j] = s[j + k - 1]
    BY <2>1
  <2>3. QED BY <2>1, <2>2
<1>3. QED BY <1>1, <1>2

LEMMA CompressNowBack ==
  ASSUME RcTypes, Investigation, CompressNow PROVE Investigation'
<1>1. said \in Nat /\ said' = said + 1 /\ prompted \in Nat /\ prompted' = prompted
      /\ Len(server) \in Nat /\ server' = server /\ stage = "ready" /\ stage' = stage
      /\ facts' = facts /\ plan' = plan /\ Persist(Rewritten(Summarised(agent, Split)))
  BY DEF RcTypes, NumbersOK, StateOK, CompressNow, Speak
<1>2. PICK M, k : Under(M, k)
  BY <1>1, Grown
<1>3. PICK i \in 0 .. Len(agent.convo) : i = Split
  BY SplitIs
<1>4. Persist(Rewritten(Summarised(agent, i)))
  BY <1>1, <1>3
<1>5. i \in 0 .. Len(agent.convo) /\ agent.convo \in Seq(M)
  BY <1>2 DEF Under, AgentsOf
<1>6. /\ agent'.logged = agent'.convo
      /\ Len(agent'.convo) = 1 + Len(agent.convo) - i /\ agent'.convo[1] = Summary
      /\ \A j \in i + 1 .. Len(agent.convo) : agent'.convo[1 + j - i] = agent.convo[j]
  BY <1>1, <1>2, <1>4, <1>5, CompressedIs
<1>7. ~plan.on /\ replanned' = replanned /\ building' = building /\ Summary.turn = 0
  BY <1>1, ReadyHasNoPlan DEF facts, Summary
<1>8. CheckpointOK'
  BY <1>1, <1>7 DEF CheckpointOK
<1>9. GivenBack'
  <2> SUFFICES ASSUME building, ~replanned
      PROVE \A j \in 1 .. Len(agent'.convo) : agent'.convo[j].turn # prompted
    BY <1>1, <1>6, <1>7 DEF GivenBack, Clean, NoneOf
  <2>1. \A j \in 1 .. Len(agent.convo) : agent.convo[j].turn # prompted
    BY DEF Investigation, GivenBack, Clean, NoneOf
  <2>2. prompted > 0
    BY DEF RcTypes, PlanPlace
  <2>3. PICK s, t : s = agent.convo /\ t = agent'.convo
    OBVIOUS
  <2>4. /\ Len(s) \in Nat /\ i \in 0 .. Len(s) /\ Len(t) = 1 + Len(s) - i /\ t[1] = Summary
        /\ \A j \in i + 1 .. Len(s) : t[1 + j - i] = s[j]
        /\ \A j \in 1 .. Len(s) : s[j].turn # prompted
    <3>1. Len(agent.convo) \in Nat
      BY <1>5
    <3>2. QED BY <1>5, <1>6, <2>1, <2>3, <3>1, Zenon
  <2>5. t[1].turn = 0 /\ prompted \in Nat /\ prompted > 0
    BY <1>1, <1>7, <2>2, <2>4
  <2>6. \A j \in 1 .. Len(t) : t[j].turn # prompted
    BY <2>4, <2>5, SummaryIsClean, ZenonT(60)
  <2>7. QED BY <2>3, <2>6
<1>10. QED BY <1>8, <1>9 DEF Investigation

LEMMA CompactBack ==
  ASSUME RcTypes, Investigation, Compact PROVE Investigation'
<1>1. ~plan.on /\ plan' = plan /\ stage' = "ready"
  BY ReadyHasNoPlan DEF Compact
<1>2. agent'.convo = <<>> /\ agent'.logged = <<>>
  <2> DEFINE a == [agent EXCEPT !.convo = <<>>]
  <2>1. agent \in AgentsOf(Messages, Len(server)) /\ <<>> \in Seq(Messages) /\ Len(server) \in Nat
        /\ shelf \in ShelvesOf(Messages, Len(server)) /\ current \in Chats /\ runtime \in Runtimes
    BY DEF RcTypes, StateOK, SettingOK
  <2>2. a = [convo |-> <<>>, logged |-> agent.logged, saved |-> agent.saved,
             cached |-> agent.cached, snapshot |-> agent.snapshot]
    BY <2>1 DEF AgentsOf
  <2>3. a \in AgentsOf(Messages, Len(server)) /\ a.convo = <<>>
    BY <2>1, <2>2, Zenon DEF AgentsOf
  <2> HIDE DEF a
  <2>4. PICK b : b = Rewritten(a) /\ b \in AgentsOf(Messages, Len(server)) /\ b.convo = <<>> /\ b.logged = <<>>
    BY <2>1, <2>3, RewrittenIs
  <2>5. Persist(b) /\ b \in AgentsOf(Messages, Len(server))
    BY <2>4 DEF a, Compact
  <2>6. agent'.convo = b.convo /\ agent'.logged = b.logged
    BY <2>1, <2>5, PersistIs
  <2>7. QED BY <2>4, <2>6
<1>3. QED BY <1>1, <1>2 DEF Investigation, CheckpointOK, GivenBack, Clean, NoneOf

LEMMA RetryCompressedBack ==
  ASSUME RcTypes, Investigation, RetryCompressed PROVE Investigation'
<1> DEFINE again == [n |-> turn.input, kind |-> "plain", turn |-> 0]
<1>1. said \in Nat /\ said' = said + 1 /\ prompted \in Nat /\ prompted' = prompted
      /\ Len(server) \in Nat /\ server' = server /\ stage = "wait" /\ stage' = "ask"
      /\ plan' = plan /\ ~plan.on /\ replanned' = replanned /\ building' = building
      /\ agent' = Noted(Rewritten(Summarised(agent, Split)), <<again>>)
  BY DEF RcTypes, NumbersOK, StateOK, RetryCompressed, Speak
<1>2. PICK M, k : Under(M, k)
  BY <1>1, Grown
<1>3. Summary \in M /\ agent \in AgentsOf(M, k) /\ k \in Nat /\ agent.convo \in Seq(M)
      /\ Summary.turn = 0
  BY <1>1, <1>2, SummaryMessage DEF Under, AgentsOf
<1>4. PICK i \in 0 .. Len(agent.convo) : i = Split
  BY SplitIs
<1>5. PICK a : /\ a = Summarised(agent, i) /\ a \in AgentsOf(M, k)
               /\ a.convo = <<Summary>> \o SubSeq(agent.convo, i + 1, Len(agent.convo))
  BY <1>3, SummarisedIs
<1>6. a \in AgentsOf(M, k)
  BY <1>5
<1>7. PICK b : /\ b = Rewritten(a) /\ b \in AgentsOf(M, k)
               /\ b.convo = a.convo /\ b.logged = a.convo
  BY <1>3, <1>6, RewrittenIs
<1>8. b \in AgentsOf(M, k) /\ b.convo \in Seq(M)
  BY <1>7 DEF AgentsOf
<1>9. turn.input \in 1 .. said
  BY <1>1 DEF RcTypes, StateOK, TurnsOf, TurnPlace, InTurn
<1>10. again \in M /\ again.turn = 0
  BY <1>1, <1>2, <1>9 DEF Under, Messages
<1> HIDE DEF again
<1>11. agent' = Noted(b, <<again>>) /\ <<again>> \in Seq(M)
  BY <1>1, <1>4, <1>5, <1>7, <1>10
<1>12. agent'.convo = b.convo \o <<again>> /\ agent'.logged = b.logged
  BY <1>3, <1>8, <1>11, NotedIs, ZenonT(60)
<1>13. CheckpointOK'
  BY <1>1 DEF CheckpointOK
<1>14. GivenBack'
  <2> SUFFICES ASSUME building, ~replanned
      PROVE /\ \A j \in 1 .. Len(agent'.convo) : agent'.convo[j].turn # prompted
            /\ \A j \in 1 .. Len(agent'.logged) : agent'.logged[j].turn # prompted
    BY <1>1 DEF GivenBack, Clean, NoneOf
  <2>1. \A j \in 1 .. Len(agent.convo) : agent.convo[j].turn # prompted
    BY DEF Investigation, GivenBack, Clean, NoneOf
  <2>2. prompted > 0
    BY DEF RcTypes, PlanPlace
  <2>3. b.convo = <<Summary>> \o SubSeq(agent.convo, i + 1, Len(agent.convo))
    BY <1>5, <1>7, Zenon
  <2>4. /\ Len(b.convo) = 1 + Len(agent.convo) - i /\ b.convo[1] = Summary
        /\ \A j \in i + 1 .. Len(agent.convo) : b.convo[1 + j - i] = agent.convo[j]
    BY <1>3, <2>3, SummaryIs
  <2>5. \A j \in 1 .. Len(b.convo) : b.convo[j].turn # prompted
    <3>1. PICK s, t : s = agent.convo /\ t = b.convo
      OBVIOUS
    <3>2. /\ Len(s) \in Nat /\ i \in 0 .. Len(s) /\ Len(t) = 1 + Len(s) - i /\ t[1] = Summary
          /\ \A j \in i + 1 .. Len(s) : t[1 + j - i] = s[j]
          /\ \A j \in 1 .. Len(s) : s[j].turn # prompted
      BY <1>3, <1>4, <2>1, <2>4, <3>1
    <3>3. t[1].turn = 0 /\ prompted \in Nat /\ prompted > 0
      BY <1>1, <1>3, <2>2, <3>2
    <3>4. \A j \in 1 .. Len(t) : t[j].turn # prompted
      BY <3>2, <3>3, SummaryIsClean, ZenonT(60)
    <3>5. QED BY <3>1, <3>4
  <2>6. \A j \in 1 .. Len(agent'.convo) : agent'.convo[j] = again \/ (j \in 1 .. Len(b.convo) /\ agent'.convo[j] = b.convo[j])
    BY <1>8, <1>11, <1>12
  <2>7. b.logged = b.convo
    BY <1>7
  <2>8. QED BY <1>10, <1>12, <2>2, <2>5, <2>6, <2>7
<1>15. QED BY <1>13, <1>14 DEF Investigation

LEMMA NothingToDoBack ==
  ASSUME RcTypes, RcTypes', NothingToDo PROVE Investigation'
BY NoPlanNoDuty DEF NothingToDo, PlanLeaves, facts, NoPlan, RcTypes, PlanPlace

LEMMA ApproveBack ==
  ASSUME RcTypes, Investigation, Approve PROVE Investigation'
<1>1. agent \in AgentsOf(Messages, Len(server)) /\ plan \in PlansOf(Len(server)) /\ Len(server) \in Nat
      /\ shelf \in ShelvesOf(Messages, Len(server)) /\ current \in Chats /\ runtime \in Runtimes
      /\ plan.on /\ plan' = NoPlan /\ prompted' = prompted /\ facts' = facts
  BY DEF RcTypes, StateOK, SettingOK, PlanPlace, Approve, PlanLeaves
<1>2. PICK a : a = Restored(agent) /\ a \in AgentsOf(Messages, Len(server))
  BY <1>1, RestoredIs
<1>3. a \in AgentsOf(Messages, Len(server))
  BY <1>2
<1>4. PICK b : b = Cleared(a) /\ b \in AgentsOf(Messages, Len(server)) /\ b.convo = a.convo /\ b.logged = a.logged
  BY <1>1, <1>3, ClearedIs
<1>5. Persist(b) /\ b \in AgentsOf(Messages, Len(server))
  BY <1>2, <1>4 DEF Approve
<1>6. agent'.convo = b.convo /\ agent'.logged = b.logged
  BY <1>1, <1>5, PersistIs
<1>7. ~replanned => Clean(a.convo) /\ Clean(a.logged)
  BY <1>1, <1>2, RestoredIsClean
<1>8. replanned' = replanned /\ ~NoPlan.on
  BY <1>1 DEF facts, NoPlan
<1>9. QED BY <1>1, <1>4, <1>6, <1>7, <1>8 DEF Investigation, CheckpointOK, GivenBack, Clean, NoneOf

LEMMA DeclineBack ==
  ASSUME RcTypes, Decline PROVE Investigation'
BY NoPlanNoDuty DEF Decline, RestoreAnd, PlanLeaves, facts, NoPlan, RcTypes, PlanPlace

LEMMA FeedbackBack ==
  ASSUME RcTypes, Investigation, Feedback PROVE Investigation'
<1>1. agent' = Restored(agent) /\ plan' = NoPlan /\ ~NoPlan.on /\ prompted' = prompted
      /\ replanned' = replanned /\ plan.on
  BY DEF Feedback, RestoreAnd, PlanLeaves, facts, NoPlan, RcTypes, PlanPlace
<1>2. ~replanned => Clean(agent'.convo) /\ Clean(agent'.logged)
  BY <1>1, RestoredIsClean
<1>3. QED BY <1>1, <1>2 DEF Investigation, CheckpointOK, GivenBack, Clean, NoneOf

LEMMA RetryPlanBack ==
  ASSUME RetryPlan PROVE Investigation'
BY DEF RetryPlan, Investigation, CheckpointOK, GivenBack

LEMMA FailTurnBack ==
  ASSUME RcTypes, Investigation, FailTurn PROVE Investigation'
<1>1. prompted' = prompted /\ replanned' = replanned /\ building' = building
  BY DEF FailTurn
<1>2. CASE plan.on
  BY <1>1, <1>2, NoPlanNoDuty DEF FailTurn, RestoreAnd, NoPlan, RcTypes, PlanPlace
<1>3. CASE ~plan.on
  <2>1. agent' = agent /\ plan' = plan /\ stage' = "ready"
    BY <1>3 DEF FailTurn
  <2>2. QED BY <1>1, <1>3, <2>1 DEF Investigation, CheckpointOK, GivenBack, Clean, NoneOf
<1>4. QED BY <1>2, <1>3

LEMMA RestartBack ==
  ASSUME Restart PROVE Investigation'
BY NoPlanNoDuty DEF Restart, NoPlan

LEMMA CommandsBack ==
  ASSUME RcTypes, Investigation, StartNewSession \/ ResumeSession \/ SwitchRuntime
  PROVE  Investigation'
<1>1. ~plan.on /\ plan' = plan /\ stage = "ready" /\ stage' = "ready" /\ replanned' = replanned /\ prompted' = prompted
  BY ReadyHasNoPlan DEF StartNewSession, ResumeSession, SwitchRuntime, Commanded
<1>2. CASE ~building'
  BY <1>1, <1>2, NoPlanNoDuty
<1>3. CASE SwitchRuntime
  <2>1. agent'.convo = agent.convo /\ agent'.logged = agent.logged
    BY <1>3, ClearedIs DEF SwitchRuntime, RcTypes, StateOK
  <2>2. building' = building
    BY <1>3 DEF SwitchRuntime
  <2>3. QED BY <1>1, <2>1, <2>2 DEF Investigation, CheckpointOK, GivenBack, Clean, NoneOf
<1>4. QED BY <1>2, <1>3 DEF StartNewSession, ResumeSession

LEMMA PromptBack ==
  ASSUME RcTypes, Prompt PROVE Investigation'
<1>1. ~plan.on /\ plan' = plan /\ stage' = "ask" /\ ~building'
  BY ReadyHasNoPlan DEF Prompt
<1>2. QED BY <1>1, NoPlanNoDuty

LEMMA InvestigationStep ==
  RcTypes /\ RcTypes' /\ Investigation /\ [RcNext]_rcVars => Investigation'
<1> SUFFICES ASSUME RcTypes, RcTypes', Investigation, [RcNext]_rcVars PROVE Investigation'
  OBVIOUS
<1>1. CASE RcNext
  BY <1>1, PromptBack, PlanPromptBack, RerunBack, HandoffBack, AskBack, RefuseBack,
     AnswerBack, AnswerSentBackBack, AnswerUnrecordedBack, AnswerWithCallBack,
     ReplyBack, ReplyInHistoryBack, ContinueBack,
     CompressInTurnBack, CompressNowBack, CompactBack, RetryCompressedBack,
     NothingToDoBack, ApproveBack, DeclineBack, FeedbackBack, RetryPlanBack,
     FailTurnBack, RestartBack, CommandsBack DEF RcNext
<1>2. CASE UNCHANGED rcVars
  BY <1>2 DEF rcVars, counts, facts, Investigation, CheckpointOK, GivenBack, InTurn, Clean, NoneOf
<1>3. QED BY <1>1, <1>2

LEMMA InvestigationInvariant == RcSpec => []Investigation
<1>1. RcInit => Investigation
  BY DEF RcInit, Investigation, CheckpointOK, GivenBack, NoPlan
<1>2. QED BY <1>1, InvestigationStep, RcTypesInvariant, PTL DEF RcSpec

(* An investigation is given back: while an approved plan is implemented,  *)
(* no message of its investigation is in the history or in the session     *)
(* (planModeCheckpoint, restore, rebaseAfterInTurnCompression).            *)
THEOREM InvestigationIsTakenBack == RcSpec => []InvestigationTakenBack
<1>1. RcTypes /\ Investigation => InvestigationTakenBack
  <2> SUFFICES ASSUME RcTypes, Investigation, building, ~replanned
      PROVE  ~OfInvestigation(agent.convo) /\ ~OfInvestigation(agent.logged)
    BY DEF InvestigationTakenBack
  <2>1. agent.convo \in Seq(Messages) /\ agent.logged \in Seq(Messages)
    BY DEF RcTypes, StateOK, AgentsOf
  <2>2. QED BY <2>1 DEF Investigation, GivenBack, Clean, NoneOf, OfInvestigation
<1>2. QED BY <1>1, RcTypesInvariant, InvestigationInvariant, PTL
-----------------------------------------------------------------------------
(* The third layer: what the history, the session, the saved sessions, the *)
(* checkpoint and the provider's chain have in common.  sv are the         *)
(* responses, U the messages that are excepted, S the messages of the turn *)
(* a saved context may not know yet, P what the provider has not been sent *)
(* yet; x is whether the exception for compressed plans applies.             *)

Agree(X, Y, S) == X \ Y \subseteq S /\ Y \ X \subseteq S

Truthful(c, sv) ==
  c.id # 0 /\ c.prompt # "none" => sv[c.id].runtime = c.runtime /\ sv[c.id].prompt = c.prompt

Good(a, sv, U, S, P) ==
  /\ Agree(Numbers(a.convo), Numbers(a.logged), U)
  /\ a.cached # 0 => /\ sv[a.cached].seen \ Numbers(a.convo) \subseteq U
                     /\ Numbers(a.convo) \ sv[a.cached].seen \subseteq U \cup P
  /\ a.saved.id # 0 => Agree(sv[a.saved.id].seen, Numbers(a.logged), U \cup S)

FineAgent(a, sv, x, U, S, P) ==
  /\ Truthful(a.saved, sv) /\ Truthful(a.snapshot, sv)
  /\ x = FALSE => Good(a, sv, U, S, P)

FineChat(c, sv, x, U, S) ==
  /\ Truthful(c.saved, sv)
  /\ x = FALSE /\ c.saved.id # 0 => Agree(sv[c.saved.id].seen, Numbers(c.logged), U \cup S)

(* More responses. *)
Continued(sv, sw) == Len(sv) <= Len(sw) /\ \A i \in 1 .. Len(sv) : sw[i] = sv[i]

(* The exceptions S are under the exceptions V or T. *)
Within(S, V, T) == S \subseteq V \cup T

(* A later state: more responses, fewer demands. *)
Later(sv, x, U, sw, y, V) ==
  Continued(sv, sw) /\ (y = FALSE => x = FALSE) /\ U \subseteq V

LEMMA NumbersConcat ==
  ASSUME NEW M, NEW s \in Seq(M), NEW t \in Seq(M)
  PROVE  Numbers(s \o t) = Numbers(s) \cup Numbers(t)
<1>1. Len(s) \in Nat /\ Len(t) \in Nat /\ Len(s \o t) = Len(s) + Len(t)
      /\ DOMAIN s = 1 .. Len(s) /\ DOMAIN t = 1 .. Len(t) /\ DOMAIN (s \o t) = 1 .. Len(s) + Len(t)
  OBVIOUS
<1>2. \A i \in 1 .. Len(s) : (s \o t)[i] = s[i]
  OBVIOUS
<1>3. \A i \in 1 .. Len(t) : (s \o t)[Len(s) + i] = t[i]
  OBVIOUS
<1>4. ASSUME NEW x \in Numbers(s) PROVE x \in Numbers(s \o t)
  <2>1. PICK i \in 1 .. Len(s) : x = s[i].n
    BY <1>1 DEF Numbers
  <2>2. i \in DOMAIN (s \o t) /\ (s \o t)[i] = s[i]
    BY <1>1, <1>2
  <2>3. QED BY <2>1, <2>2 DEF Numbers
<1>5. ASSUME NEW x \in Numbers(t) PROVE x \in Numbers(s \o t)
  <2>1. PICK i \in 1 .. Len(t) : x = t[i].n
    BY <1>1 DEF Numbers
  <2>2. Len(s) + i \in DOMAIN (s \o t) /\ (s \o t)[Len(s) + i] = t[i]
    BY <1>1, <1>3
  <2>3. QED BY <2>1, <2>2 DEF Numbers
<1>6. ASSUME NEW x \in Numbers(s \o t) PROVE x \in Numbers(s) \cup Numbers(t)
  <2>1. PICK i \in 1 .. Len(s) + Len(t) : x = (s \o t)[i].n
    BY <1>1 DEF Numbers
  <2>2. CASE i <= Len(s)
    <3>1. i \in DOMAIN s /\ (s \o t)[i] = s[i]
      BY <1>1, <1>2, <2>2
    <3>2. QED BY <2>1, <3>1 DEF Numbers
  <2>3. CASE i > Len(s)
    <3>1. i - Len(s) \in 1 .. Len(t) /\ Len(s) + (i - Len(s)) = i
      BY <1>1, <2>3
    <3>2. (s \o t)[i] = t[i - Len(s)] /\ i - Len(s) \in DOMAIN t
      BY <1>1, <1>3, <3>1
    <3>3. QED BY <2>1, <3>2 DEF Numbers
  <2>4. QED BY <1>1, <2>2, <2>3
<1>7. QED BY <1>4, <1>5, <1>6

LEMMA NumbersOne ==
  ASSUME NEW m
  PROVE  Numbers(<<m>>) = {m.n}
BY DEF Numbers

LEMMA TrueNothing ==
  \A sv : Truthful(NoContext, sv)
BY DEF Truthful, NoContext

LEMMA TrueLater ==
  ASSUME NEW k \in Nat, NEW c \in ContextsOf(k), NEW sv, NEW sw, Len(sv) = k, Continued(sv, sw),
         Truthful(c, sv)
  PROVE  Truthful(c, sw)
<1>1. CASE c.id = 0
  BY <1>1 DEF Truthful
<1>2. CASE c.id # 0
  <2>1. sw[c.id] = sv[c.id]
    BY <1>2 DEF Continued, ContextsOf
  <2>2. QED BY <2>1 DEF Truthful
<1>3. QED BY <1>1, <1>2

(* Later, with more responses and other exceptions. *)
LEMMA FineLater ==
  ASSUME NEW M, NEW k \in Nat, NEW a \in AgentsOf(M, k),
         NEW sv, NEW sw, Len(sv) = k, NEW x, NEW y, NEW U, NEW V, Later(sv, x, U, sw, y, V),
         NEW S, NEW P, NEW T, NEW Q, Within(S, V, T), Within(P, V, Q),
         FineAgent(a, sv, x, U, S, P)
  PROVE  FineAgent(a, sw, y, V, T, Q)
<1>0. Continued(sv, sw) /\ (y = FALSE => x = FALSE) /\ U \subseteq V
      /\ S \subseteq V \cup T /\ P \subseteq V \cup Q
  BY DEF Later, Within
<1>1. Truthful(a.saved, sw) /\ Truthful(a.snapshot, sw)
  BY <1>0, TrueLater DEF FineAgent, AgentsOf
<1>2. ASSUME y = FALSE PROVE Good(a, sw, V, T, Q)
  <2>1. Good(a, sv, U, S, P)
    BY <1>0, <1>2 DEF FineAgent
  <2>2. Agree(Numbers(a.convo), Numbers(a.logged), V)
    BY <1>0, <2>1 DEF Good, Agree
  <2>3. ASSUME a.cached # 0
        PROVE  /\ sw[a.cached].seen \ Numbers(a.convo) \subseteq V
               /\ Numbers(a.convo) \ sw[a.cached].seen \subseteq V \cup Q
    <3>1. sw[a.cached] = sv[a.cached]
      BY <1>0, <2>3 DEF AgentsOf, Continued
    <3>2. QED BY <1>0, <2>1, <2>3, <3>1 DEF Good
  <2>4. ASSUME a.saved.id # 0
        PROVE  Agree(sw[a.saved.id].seen, Numbers(a.logged), V \cup T)
    <3>1. sw[a.saved.id] = sv[a.saved.id]
      BY <1>0, <2>4 DEF AgentsOf, ContextsOf, Continued
    <3>2. QED BY <1>0, <2>1, <2>4, <3>1 DEF Good, Agree
  <2>5. QED BY <2>2, <2>3, <2>4 DEF Good
<1>3. QED BY <1>1, <1>2 DEF FineAgent

LEMMA FineChatLater ==
  ASSUME NEW M, NEW k \in Nat, NEW c \in ChatsOf(M, k),
         NEW sv, NEW sw, Len(sv) = k, NEW x, NEW y, NEW U, NEW V, Later(sv, x, U, sw, y, V),
         NEW S, NEW T, Within(S, V, T), FineChat(c, sv, x, U, S)
  PROVE  FineChat(c, sw, y, V, T)
<1>0. Continued(sv, sw) /\ (y = FALSE => x = FALSE) /\ U \subseteq V /\ S \subseteq V \cup T
  BY DEF Later, Within
<1>1. Truthful(c.saved, sw)
  BY <1>0, TrueLater DEF FineChat, ChatsOf
<1>2. ASSUME y = FALSE, c.saved.id # 0 PROVE Agree(sw[c.saved.id].seen, Numbers(c.logged), V \cup T)
  <2>1. sw[c.saved.id] = sv[c.saved.id]
    BY <1>0, <1>2 DEF ChatsOf, ContextsOf, Continued
  <2>2. QED BY <1>0, <1>2, <2>1 DEF FineChat, Agree
<1>3. QED BY <1>1, <1>2 DEF FineChat

LEMMA FineSynced ==
  ASSUME NEW M, NEW k \in Nat, NEW a \in AgentsOf(M, k), runtime \in Runtimes,
         NEW sv, NEW x, NEW U, NEW S, NEW P, NEW T, FineAgent(a, sv, x, U, S, P),
         a.cached = 0 => Within(S, U, T), Within(P, U, T)
  PROVE  FineAgent(Synced(a), sv, x, U, T, P)
<1>1. PICK b : b = Synced(a)
  OBVIOUS
<1>2. /\ b.convo = a.convo /\ b.logged = a.logged /\ b.cached = a.cached /\ b.snapshot = a.snapshot
      /\ b.saved \in {NoContext, a.saved, ContextOf(a)}
      /\ a.cached # 0 => b.saved \in {NoContext, ContextOf(a)}
  BY <1>1, SyncedIs
<1>3. /\ ContextOf(a).id = a.cached
      /\ ContextOf(a) \in {NoContext, a.snapshot, a.saved} \/ ContextOf(a).prompt = "none"
  BY ContextOfIs
<1>4. Truthful(ContextOf(a), sv)
  <2>1. CASE ContextOf(a).prompt = "none"
    BY <2>1 DEF Truthful
  <2>2. CASE ContextOf(a) \in {NoContext, a.snapshot, a.saved}
    BY <2>2, TrueNothing DEF FineAgent
  <2>3. QED BY <1>3, <2>1, <2>2
<1>5. Truthful(b.saved, sv) /\ Truthful(b.snapshot, sv)
  BY <1>2, <1>4, TrueNothing DEF FineAgent
<1>6. ASSUME x = FALSE PROVE Good(b, sv, U, T, P)
  <2>1. Good(a, sv, U, S, P)
    BY <1>6 DEF FineAgent
  <2>2. Agree(Numbers(b.convo), Numbers(b.logged), U)
    BY <1>2, <2>1 DEF Good
  <2>3. b.cached # 0 => /\ sv[b.cached].seen \ Numbers(b.convo) \subseteq U
                        /\ Numbers(b.convo) \ sv[b.cached].seen \subseteq U \cup P
    BY <1>2, <2>1 DEF Good
  <2>4. ASSUME b.saved.id # 0 PROVE Agree(sv[b.saved.id].seen, Numbers(b.logged), U \cup T)
    <3>1. CASE a.cached = 0
      <4>1. b.saved = a.saved
        BY <1>2, <1>3, <2>4, <3>1, NothingYet
      <4>2. QED BY <1>2, <2>1, <2>4, <3>1, <4>1 DEF Good, Agree, Within
    <3>2. CASE a.cached # 0
      <4>1. b.saved.id = a.cached
        BY <1>2, <1>3, <2>4, <3>2, NothingYet
      <4>2. QED BY <1>2, <2>1, <3>2, <4>1 DEF Good, Agree, Within
    <3>3. QED BY <3>1, <3>2
  <2>5. QED BY <2>2, <2>3, <2>4 DEF Good
<1>7. FineAgent(b, sv, x, U, T, P)
  BY <1>5, <1>6 DEF FineAgent
<1>8. QED BY <1>1, <1>7

LEMMA FineSaid ==
  ASSUME NEW M, NEW k \in Nat, NEW a \in AgentsOf(M, k), NEW ms \in Seq(M),
         NEW sv, NEW x, NEW U, NEW S, NEW P, NEW T, NEW Q, FineAgent(a, sv, x, U, S, P),
         Within(S, U, T), Within(P, U, Q), Within(Numbers(ms), U, T), Within(Numbers(ms), U, Q)
  PROVE  FineAgent(Said(a, ms), sv, x, U, T, Q)
<1>0. /\ S \subseteq U \cup T /\ P \subseteq U \cup Q
      /\ Numbers(ms) \subseteq U \cup T /\ Numbers(ms) \subseteq U \cup Q
  BY DEF Within
<1>1. PICK b : /\ b = Said(a, ms)
               /\ b.convo = a.convo \o ms /\ b.logged = a.logged \o ms /\ b.cached = a.cached
               /\ b.snapshot \in {a.snapshot, NoContext} /\ b.saved \in {a.saved, NoContext}
  BY SaidIs
<1>2. /\ b.convo = a.convo \o ms /\ b.logged = a.logged \o ms /\ b.cached = a.cached
      /\ b.snapshot \in {a.snapshot, NoContext} /\ b.saved \in {a.saved, NoContext}
  BY <1>1
<1>3. a.convo \in Seq(M) /\ a.logged \in Seq(M)
  BY DEF AgentsOf
<1>4. Numbers(b.convo) = Numbers(a.convo) \cup Numbers(ms)
      /\ Numbers(b.logged) = Numbers(a.logged) \cup Numbers(ms)
  BY <1>2, <1>3, NumbersConcat
<1>5. Truthful(b.saved, sv) /\ Truthful(b.snapshot, sv)
  BY <1>2, TrueNothing DEF FineAgent
<1>6. ASSUME x = FALSE PROVE Good(b, sv, U, T, Q)
  <2>1. Good(a, sv, U, S, P)
    BY <1>6 DEF FineAgent
  <2>2. Agree(Numbers(b.convo), Numbers(b.logged), U)
    BY <1>4, <2>1 DEF Good, Agree
  <2>3. ASSUME b.cached # 0
        PROVE  /\ sv[b.cached].seen \ Numbers(b.convo) \subseteq U
               /\ Numbers(b.convo) \ sv[b.cached].seen \subseteq U \cup Q
    BY <1>0, <1>2, <1>4, <2>1, <2>3 DEF Good
  <2>4. ASSUME b.saved.id # 0 PROVE Agree(sv[b.saved.id].seen, Numbers(b.logged), U \cup T)
    <3>1. b.saved = a.saved
      BY <1>2, <2>4, NothingYet
    <3>2. QED BY <1>0, <1>4, <2>1, <2>4, <3>1 DEF Good, Agree
  <2>5. QED BY <2>2, <2>3, <2>4 DEF Good
<1>7. QED BY <1>1, <1>5, <1>6 DEF FineAgent

LEMMA FineNoted ==
  ASSUME NEW M, NEW k \in Nat, NEW a \in AgentsOf(M, k), NEW ms \in Seq(M),
         NEW sv, NEW x, NEW U, NEW S, NEW P, FineAgent(a, sv, x, U, S, P), Numbers(ms) \subseteq U
  PROVE  FineAgent(Noted(a, ms), sv, x, U, S, P)
<1>1. PICK b : b = Noted(a, ms)
  OBVIOUS
<1>2. /\ b.convo = a.convo \o ms /\ b.logged = a.logged /\ b.cached = a.cached
      /\ b.snapshot = a.snapshot /\ b.saved = a.saved
  BY <1>1, NotedIs
<1>3. a.convo \in Seq(M)
  BY DEF AgentsOf
<1>4. Numbers(b.convo) = Numbers(a.convo) \cup Numbers(ms) /\ Numbers(b.logged) = Numbers(a.logged)
  BY <1>2, <1>3, NumbersConcat
<1>5. ASSUME x = FALSE PROVE Good(b, sv, U, S, P)
  <2>1. Good(a, sv, U, S, P)
    BY <1>5 DEF FineAgent
  <2>2. Agree(Numbers(b.convo), Numbers(b.logged), U)
    BY <1>4, <2>1 DEF Good, Agree
  <2>3. ASSUME b.cached # 0
        PROVE  /\ sv[b.cached].seen \ Numbers(b.convo) \subseteq U
               /\ Numbers(b.convo) \ sv[b.cached].seen \subseteq U \cup P
    BY <1>2, <1>4, <2>1, <2>3 DEF Good
  <2>4. b.saved.id # 0 => Agree(sv[b.saved.id].seen, Numbers(b.logged), U \cup S)
    BY <1>2, <2>1 DEF Good
  <2>5. QED BY <2>2, <2>3, <2>4 DEF Good
<1>6. QED BY <1>1, <1>2, <1>5 DEF FineAgent

(* Out of the chain: only the history and the session have to agree. *)
LEMMA FineAlone ==
  ASSUME NEW a, NEW sv, NEW x, NEW U, NEW S, NEW P, a.cached = 0, a.saved = NoContext,
         a.snapshot = NoContext, x = FALSE => Agree(Numbers(a.convo), Numbers(a.logged), U)
  PROVE  FineAgent(a, sv, x, U, S, P)
<1>1. a.saved.id = 0
  BY NothingYet
<1>2. QED BY <1>1, TrueNothing DEF FineAgent, Good

LEMMA FineCleared ==
  ASSUME NEW M, NEW k \in Nat, NEW a \in AgentsOf(M, k),
         NEW sv, NEW x, NEW U, NEW S, NEW P, NEW T, NEW Q, FineAgent(a, sv, x, U, S, P)
  PROVE  FineAgent(Cleared(a), sv, x, U, T, Q)
<1>1. PICK b : b = Cleared(a)
  OBVIOUS
<1>2. /\ b.convo = a.convo /\ b.logged = a.logged
      /\ b.cached = 0 /\ b.snapshot = NoContext /\ b.saved = NoContext
  BY <1>1, ClearedIs
<1>3. x = FALSE => Agree(Numbers(b.convo), Numbers(b.logged), U)
  BY <1>2 DEF FineAgent, Good
<1>4. FineAgent(b, sv, x, U, T, Q)
  BY <1>2, <1>3, FineAlone
<1>5. QED BY <1>1, <1>4

LEMMA FineRewritten ==
  ASSUME NEW M, NEW k \in Nat, NEW a \in AgentsOf(M, k), NEW sv, NEW x, NEW U, NEW S, NEW P
  PROVE  FineAgent(Rewritten(a), sv, x, U, S, P)
<1>1. PICK b : b = Rewritten(a)
  OBVIOUS
<1>2. /\ b.convo = a.convo /\ b.logged = a.convo
      /\ b.cached = 0 /\ b.snapshot = NoContext /\ b.saved = NoContext
  BY <1>1, RewrittenIs
<1>3. x = FALSE => Agree(Numbers(b.convo), Numbers(b.logged), U)
  BY <1>2 DEF Agree
<1>4. FineAgent(b, sv, x, U, S, P)
  BY <1>2, <1>3, FineAlone
<1>5. QED BY <1>1, <1>4

Slack == IF InTurn THEN OfTurn ELSE {}
Pending ==
  IF stage \in {"ask", "wait", "between"}
  THEN {agent.convo[Len(agent.convo)].n} \cap OfTurn ELSE {}
Front(s, k) == {s[i].n : i \in 1 .. k}

AgentAgrees == FineAgent(agent, server, replanned, unsettled, Slack, Pending)

ShelfAgrees ==
  \A c \in Chats :
    FineChat(shelf[c], server, replanned, unsettled, IF c = current THEN Slack ELSE {})

CheckpointAgrees ==
  /\ Truthful(plan.context, server)
  /\ plan.on /\ ~replanned =>
       /\ Agree(Front(agent.convo, plan.length), Front(agent.logged, plan.entries), unsettled)
       /\ plan.context.id # 0 =>
            Agree(server[plan.context.id].seen, Front(agent.convo, plan.length), unsettled)

RequestAgrees ==
  stage = "wait" =>
    /\ request.prev = agent.cached
    /\ request.prev = 0 => request.input = Numbers(agent.convo)
    /\ agent.convo[Len(agent.convo)].n \in request.input
    /\ request.input \subseteq Numbers(agent.convo)
    /\ request.prev # 0 => /\ server[request.prev].runtime = runtime
                           /\ server[request.prev].prompt = request.prompt

Chain == AgentAgrees /\ ShelfAgrees /\ CheckpointAgrees /\ RequestAgrees

(* Nothing is taken back from the exceptions and the provider. *)
Onward == Later(server, replanned, unsettled, server', replanned', unsettled')

(* A session on the shelf that is left alone. *)
LEMMA ChatLeft ==
  ASSUME RcTypes, ShelfAgrees, Onward, NEW c \in Chats, shelf'[c] = shelf[c],
         NEW T, c = current => Slack \subseteq unsettled' \cup T
  PROVE  FineChat(shelf'[c], server', replanned', unsettled', T)
<1> DEFINE S == IF c = current THEN Slack ELSE {}
<1>1. Len(server) \in Nat /\ shelf[c] \in ChatsOf(Messages, Len(server))
  BY DEF RcTypes, StateOK, ShelvesOf
<1>2. FineChat(shelf[c], server, replanned, unsettled, S)
  BY DEF ShelfAgrees
<1>3. S \subseteq unsettled' \cup T
  OBVIOUS
<1> HIDE DEF S
<1>4. FineChat(shelf[c], server', replanned', unsettled', T)
  <2>1. Within(S, unsettled', T)
    BY <1>3 DEF Within
  <2>2. PICK M, k : k \in Nat /\ shelf[c] \in ChatsOf(M, k) /\ Len(server) = k
    BY <1>1
  <2>3. QED BY <1>2, <2>1, <2>2, FineChatLater DEF Onward
<1>5. QED BY <1>4

(* The session of an agent that is fine is. *)
LEMMA ChatOf ==
  ASSUME NEW b, NEW r, NEW sv, NEW x, NEW U, NEW T, NEW P, FineAgent(b, sv, x, U, T, P)
  PROVE  FineChat([used |-> TRUE, logged |-> b.logged, saved |-> b.saved, runtime |-> r], sv, x, U, T)
BY DEF FineAgent, FineChat, Good

LEMMA ShelfWritten ==
  ASSUME RcTypes, ShelfAgrees, Onward, NEW M, NEW k, Under(M, k), NEW b \in AgentsOf(M, k),
         NEW r \in Runtimes, shelf' = Shelved(b, r), current' = current,
         NEW P, FineAgent(b, server', replanned', unsettled', Slack', P)
  PROVE  ShelfAgrees'
<1>1. /\ shelf'[current] = [used |-> TRUE, logged |-> b.logged, saved |-> b.saved, runtime |-> r]
      /\ \A c \in Chats \ {current} : shelf'[c] = shelf[c]
  BY ShelvedIs DEF Under, RcTypes, SettingOK
<1>2. FineChat(shelf'[current], server', replanned', unsettled', Slack')
  BY <1>1, ChatOf
<1>3. ASSUME NEW c \in Chats \ {current}
      PROVE  FineChat(shelf'[c], server', replanned', unsettled', {})
  BY <1>1, ChatLeft
<1>4. ASSUME NEW c \in Chats
      PROVE  FineChat(shelf'[c], server', replanned', unsettled', IF c = current' THEN Slack' ELSE {})
  <2>1. CASE c = current
    BY <1>2, <2>1
  <2>2. CASE c # current
    BY <1>3, <2>2
  <2>3. QED BY <2>1, <2>2
<1>5. QED BY <1>4 DEF ShelfAgrees

LEMMA ShelfLeft ==
  ASSUME RcTypes, ShelfAgrees, Onward, shelf' = shelf, current' = current,
         Slack \subseteq unsettled' \cup Slack'
  PROVE  ShelfAgrees'
<1>1. ASSUME NEW c \in Chats
      PROVE  FineChat(shelf'[c], server', replanned', unsettled', IF c = current' THEN Slack' ELSE {})
  <2> DEFINE T == IF c = current' THEN Slack' ELSE {}
  <2>1. c = current => Slack \subseteq unsettled' \cup T
    OBVIOUS
  <2> HIDE DEF T
  <2>2. FineChat(shelf'[c], server', replanned', unsettled', T)
    BY <2>1, ChatLeft
  <2>3. QED BY <2>2 DEF T
<1>2. QED BY <1>1 DEF ShelfAgrees

(* A checkpoint whose part of the history and of the session stays. *)
Starts(s, t) == Len(s) <= Len(t) /\ \A i \in 1 .. Len(s) : t[i] = s[i]

LEMMA StartsIs ==
  ASSUME NEW M, NEW s \in Seq(M), NEW ms \in Seq(M)
  PROVE  Starts(s, s) /\ Starts(s, s \o ms)
BY DEF Starts

LEMMA FrontKept ==
  ASSUME NEW s, NEW t, Len(s) \in Nat, Starts(s, t), NEW k \in Nat, k <= Len(s)
  PROVE  Front(t, k) = Front(s, k)
BY DEF Starts, Front

LEMMA CheckpointLeft ==
  ASSUME RcTypes, Investigation, CheckpointAgrees, Onward, plan' = plan,
         plan.on => Starts(agent.convo, agent'.convo) /\ Starts(agent.logged, agent'.logged)
  PROVE  CheckpointAgrees'
<1>1. plan.length \in Nat /\ plan.entries \in Nat /\ Len(agent.convo) \in Nat /\ Len(agent.logged) \in Nat
      /\ Len(server) \in Nat /\ plan.context \in ContextsOf(Len(server))
  BY DEF RcTypes, StateOK, PlansOf, AgentsOf
<1>2. Truthful(plan.context, server')
  BY <1>1, TrueLater DEF CheckpointAgrees, Onward, Later
<1>3. ASSUME plan.on, ~replanned'
      PROVE  /\ Agree(Front(agent'.convo, plan.length), Front(agent'.logged, plan.entries), unsettled')
             /\ plan.context.id # 0 =>
                  Agree(server'[plan.context.id].seen, Front(agent'.convo, plan.length), unsettled')
  <2>1. ~replanned /\ plan.length <= Len(agent.convo) /\ plan.entries <= Len(agent.logged)
    BY <1>3 DEF Onward, Later, Investigation, CheckpointOK, RcTypes, SettingOK
  <2>2. Front(agent'.convo, plan.length) = Front(agent.convo, plan.length)
    BY <1>1, <1>3, <2>1, FrontKept
  <2>3. Front(agent'.logged, plan.entries) = Front(agent.logged, plan.entries)
    BY <1>1, <1>3, <2>1, FrontKept
  <2>4. /\ Agree(Front(agent.convo, plan.length), Front(agent.logged, plan.entries), unsettled)
        /\ plan.context.id # 0 =>
             Agree(server[plan.context.id].seen, Front(agent.convo, plan.length), unsettled)
    BY <1>3, <2>1 DEF CheckpointAgrees
  <2>5. plan.context.id # 0 => server'[plan.context.id] = server[plan.context.id]
    BY <1>1 DEF ContextsOf, Onward, Later, Continued
  <2>6. QED BY <2>2, <2>3, <2>4, <2>5 DEF Agree, Onward, Later
<1>4. QED BY <1>2, <1>3 DEF CheckpointAgrees

LEMMA NoCheckpoint ==
  ASSUME plan' = NoPlan
  PROVE  CheckpointAgrees'
<1>1. ~plan'.on /\ plan'.context = NoContext
  BY DEF NoPlan
<1>2. QED BY <1>1, TrueNothing DEF CheckpointAgrees

LEMMA OnwardIs ==
  ASSUME RcTypes, server' = server, unsettled \subseteq unsettled', replanned => replanned'
  PROVE  Onward
BY DEF Onward, Later, Continued, RcTypes, StateOK, SettingOK

(* A turn begins, or goes on after a plan was sent back or approved. *)
LEMMA TurnBegins ==
  ASSUME RcTypes, Chain, NEW M, NEW k, Under(M, k), NEW m \in M, m.n = said + 1, said' = said + 1,
         stage \in {"ready", "rerun", "handoff"}, stage' = "ask",
         Persist(Said(agent, <<m>>)), turn'.first \in 0 .. said,
         server' = server, unsettled' = unsettled, replanned' = replanned, current' = current
  PROVE  AgentAgrees' /\ ShelfAgrees' /\ RequestAgrees'
<1>1. said \in Nat /\ k \in Nat /\ agent \in AgentsOf(M, k) /\ runtime \in Runtimes /\ <<m>> \in Seq(M)
  BY DEF RcTypes, NumbersOK, SettingOK, Under
<1>2. Slack = {} /\ Pending = {}
  BY DEF Slack, Pending, InTurn
<1>3. said + 1 \in Slack'
  BY <1>1 DEF Slack, InTurn, OfTurn
<1>4. Numbers(<<m>>) = {said + 1}
  BY NumbersOne
<1>5. FineAgent(agent, server, replanned, unsettled, {}, {})
  BY <1>2 DEF Chain, AgentAgrees
<1>6. PICK b : b = Said(agent, <<m>>) /\ b \in AgentsOf(M, k)
               /\ FineAgent(b, server, replanned, unsettled, Slack', {said + 1})
  <2>1. FineAgent(Said(agent, <<m>>), server, replanned, unsettled, Slack', {said + 1})
    <3>1. PICK T : T = Slack' /\ said + 1 \in T
      BY <1>3
    <3>2. PICK Q : Q = {said + 1} /\ said + 1 \in Q
      OBVIOUS
    <3>3. /\ Within({}, unsettled, T) /\ Within({}, unsettled, Q)
          /\ Within(Numbers(<<m>>), unsettled, T) /\ Within(Numbers(<<m>>), unsettled, Q)
      BY <1>4, <3>1, <3>2 DEF Within
    <3>4. FineAgent(Said(agent, <<m>>), server, replanned, unsettled, T, Q)
      BY <1>1, <1>5, <3>3, FineSaid
    <3>5. QED BY <3>1, <3>2, <3>4
  <2>2. Said(agent, <<m>>) \in AgentsOf(M, k)
    BY <1>1, SaidIs
  <2>3. QED BY <2>1, <2>2
<1>7. b \in AgentsOf(M, k) /\ FineAgent(b, server, replanned, unsettled, Slack', {said + 1})
  BY <1>6
<1>8. FineAgent(Synced(b), server, replanned, unsettled, Slack', {said + 1})
  <2>1. Within(Slack', unsettled, Slack') /\ Within({said + 1}, unsettled, Slack')
    BY <1>3 DEF Within
  <2>2. QED BY <1>1, <1>7, <2>1, FineSynced
<1>9. agent' = Synced(b) /\ shelf' = Shelved(agent', runtime) /\ agent' \in AgentsOf(M, k)
      /\ agent'.convo = agent.convo \o <<m>>
  BY <1>1, <1>6, PersistSaid
<1>10. FineAgent(agent', server', replanned', unsettled', Slack', {said + 1})
  BY <1>8, <1>9
<1>11. Pending' = {said + 1}
  <2>1. agent'.convo[Len(agent'.convo)] = m
    BY <1>1, <1>9 DEF AgentsOf
  <2>2. said + 1 \in OfTurn'
    BY <1>1 DEF OfTurn
  <2>3. QED BY <2>1, <2>2 DEF Pending
<1>12. AgentAgrees'
  BY <1>10, <1>11 DEF AgentAgrees
<1>13. ShelfAgrees'
  <2>1. Onward
    BY OnwardIs
  <2>2. QED BY <1>1, <1>9, <1>10, <2>1, ShelfWritten DEF Chain
<1>14. RequestAgrees'
  BY DEF RequestAgrees
<1>15. QED BY <1>12, <1>13, <1>14

LEMMA PromptChain ==
  ASSUME RcTypes, Investigation, Chain, Prompt PROVE Chain'
<1> DEFINE m == Msg(1, "plain")
<1>1. said \in Nat /\ prompted \in Nat /\ prompted' = prompted + 1 /\ said' = said + 1
      /\ server' = server /\ Len(server) \in Nat /\ plan' = plan /\ turn'.first = said
      /\ stage = "ready" /\ stage' = "ask" /\ current' = current
      /\ unsettled' = unsettled /\ replanned' = replanned
  BY DEF RcTypes, NumbersOK, StateOK, Prompt, Speak, BeginTurn, setting
<1>2. PICK M, k : Under(M, k)
  BY <1>1, Grown
<1>3. m \in M /\ m.n = said + 1 /\ Persist(Said(agent, <<m>>))
  BY <1>1, <1>2, MsgIs DEF Prompt
<1> HIDE DEF m
<1>4. AgentAgrees' /\ ShelfAgrees' /\ RequestAgrees'
  BY <1>1, <1>2, <1>3, TurnBegins
<1>5. ~plan.on /\ Onward
  BY <1>1, ReadyHasNoPlan, OnwardIs
<1>6. CheckpointAgrees'
  BY <1>1, <1>5, CheckpointLeft DEF Chain
<1>7. QED BY <1>4, <1>6 DEF Chain

LEMMA HandoffChain ==
  ASSUME RcTypes, Investigation, Chain, Handoff PROVE Chain'
<1> DEFINE m == Msg(1, "plain")
<1>1. said \in Nat /\ prompted \in Nat /\ prompted' = prompted /\ said' = said + 1
      /\ server' = server /\ Len(server) \in Nat /\ plan' = plan /\ turn'.first = said
      /\ stage = "handoff" /\ stage' = "ask" /\ current' = current
      /\ unsettled' = unsettled /\ replanned' = replanned
  BY DEF RcTypes, NumbersOK, StateOK, Handoff, Speak, BeginTurn, setting
<1>2. PICK M, k : Under(M, k)
  BY <1>1, Grown
<1>3. m \in M /\ m.n = said + 1 /\ Persist(Said(agent, <<m>>))
  BY <1>1, <1>2, MsgIs DEF Handoff
<1> HIDE DEF m
<1>4. AgentAgrees' /\ ShelfAgrees' /\ RequestAgrees'
  BY <1>1, <1>2, <1>3, TurnBegins
<1>5. ~plan.on /\ Onward
  BY <1>1, ReadyHasNoPlan, OnwardIs
<1>6. CheckpointAgrees'
  BY <1>1, <1>5, CheckpointLeft DEF Chain
<1>7. QED BY <1>4, <1>6 DEF Chain

(* The checkpoint of an investigation: the history and the session as they *)
(* are before the request, and the context that was continued.             *)
LEMMA FrontIs ==
  ASSUME NEW M, NEW s \in Seq(M), NEW m \in M
  PROVE  Front(s \o <<m>>, Len(s)) = Numbers(s) /\ Front(s, Len(s)) = Numbers(s)
BY DEF Front, Numbers

LEMMA ContextTrue ==
  ASSUME NEW M, NEW k \in Nat, NEW a \in AgentsOf(M, k), runtime \in Runtimes,
         NEW sv, NEW x, NEW U, NEW S, NEW P, FineAgent(a, sv, x, U, S, P)
  PROVE  Truthful(ContextOf(a), sv) /\ ContextOf(a).id = a.cached
<1>1. ContextOf(a).id = a.cached
      /\ (ContextOf(a) \in {NoContext, a.snapshot, a.saved} \/ ContextOf(a).prompt = "none")
  BY ContextOfIs
<1>2. CASE ContextOf(a).prompt = "none"
  BY <1>1, <1>2 DEF Truthful
<1>3. CASE ContextOf(a) \in {NoContext, a.snapshot, a.saved}
  BY <1>1, <1>3, TrueNothing DEF FineAgent
<1>4. QED BY <1>1, <1>2, <1>3

LEMMA InvestigationBegins ==
  ASSUME RcTypes, Chain, NEW M, NEW k, Under(M, k), NEW number \in 0 .. prompted', prompted' \in Nat,
         said' = said + 1, Investigate(number), stage \in {"ready", "rerun"},
         turn'.first \in 0 .. said,
         server' = server, unsettled' = unsettled, replanned' = replanned, current' = current
  PROVE  Chain'
<1> DEFINE m == [n |-> said + 1, kind |-> "plain", turn |-> number]
<1>1. m \in M /\ m.n = said + 1
  BY DEF Under, Messages, RcTypes, NumbersOK
<1>2. Persist(Said(agent, <<m>>)) /\ stage' = "ask"
      /\ plan' = [on |-> TRUE, length |-> Len(agent.convo), entries |-> Len(agent.logged),
                  context |-> ContextOf(Synced(Said(agent, <<m>>)))]
  BY DEF Investigate
<1> HIDE DEF m
<1>3. AgentAgrees' /\ ShelfAgrees' /\ RequestAgrees'
  BY <1>1, <1>2, TurnBegins
<1>4. /\ agent' \in AgentsOf(M, k) /\ agent' = Synced(Said(agent, <<m>>))
      /\ agent'.convo = agent.convo \o <<m>> /\ agent'.logged = agent.logged \o <<m>>
      /\ agent'.cached = agent.cached
  <2>1. /\ agent' \in AgentsOf(M, k) /\ agent' = Synced(Said(agent, <<m>>))
        /\ agent'.convo = agent.convo \o <<m>> /\ agent'.logged = agent.logged \o <<m>>
    <3>1. agent \in AgentsOf(M, k) /\ m \in M /\ Persist(Said(agent, <<m>>))
      BY <1>1, <1>2 DEF Under
    <3>2. QED BY <3>1, PersistSaid, SMTT(60)
  <2>2. PICK b : b = Said(agent, <<m>>) /\ b \in AgentsOf(M, k) /\ b.cached = agent.cached
    <3>1. <<m>> \in Seq(M) /\ agent \in AgentsOf(M, k) /\ k \in Nat
      BY <1>1 DEF Under
    <3>2. QED BY <3>1, SaidIs, ZenonT(60)
  <2>3. b \in AgentsOf(M, k) /\ k \in Nat /\ runtime \in Runtimes
    BY <2>2 DEF Under, RcTypes, SettingOK
  <2>4. Synced(b).cached = b.cached
    BY <2>3, SyncedIs
  <2>5. QED BY <2>1, <2>2, <2>4
<1>5. agent.convo \in Seq(M) /\ agent.logged \in Seq(M) /\ k \in Nat /\ runtime \in Runtimes
  BY DEF Under, AgentsOf, RcTypes, SettingOK
<1>6. /\ plan'.length = Len(agent.convo) /\ plan'.entries = Len(agent.logged)
      /\ plan'.context = ContextOf(agent')
  BY <1>2, <1>4
<1>7. Truthful(ContextOf(agent'), server) /\ ContextOf(agent').id = agent.cached
  <2>1. PICK b : b = agent'
    OBVIOUS
  <2>2. PICK S, P : FineAgent(b, server, replanned, unsettled, S, P)
    BY <1>3, <2>1 DEF AgentAgrees
  <2>3. ContextOf(b).id = b.cached /\ Truthful(ContextOf(b), server)
    BY <1>4, <1>5, <2>1, <2>2, ContextTrue
  <2>4. QED BY <1>4, <2>1, <2>3
<1>8. /\ Front(agent'.convo, plan'.length) = Numbers(agent.convo)
      /\ Front(agent'.logged, plan'.entries) = Numbers(agent.logged)
  <2>1. /\ Front(agent.convo \o <<m>>, Len(agent.convo)) = Numbers(agent.convo)
        /\ Front(agent.logged \o <<m>>, Len(agent.logged)) = Numbers(agent.logged)
    BY <1>1, <1>5, FrontIs
  <2>2. QED BY <1>4, <1>6, <2>1, Zenon
<1>9. ~replanned => Good(agent, server, unsettled, {}, {})
  <2>1. Slack = {} /\ Pending = {}
    BY DEF Slack, Pending, InTurn
  <2>2. QED BY <2>1 DEF Chain, AgentAgrees, FineAgent
<1>10. CheckpointAgrees'
  BY <1>6, <1>7, <1>8, <1>9 DEF CheckpointAgrees, Good, Agree
<1>11. QED BY <1>3, <1>10 DEF Chain

LEMMA PlanPromptChain ==
  ASSUME RcTypes, Chain, PlanPrompt PROVE Chain'
<1>1. said \in Nat /\ prompted \in Nat /\ prompted' = prompted + 1 /\ prompted' \in Nat
      /\ said' = said + 1 /\ server' = server /\ Len(server) \in Nat /\ turn'.first = said
      /\ stage = "ready" /\ current' = current
      /\ unsettled' = unsettled /\ replanned' = replanned
  BY DEF RcTypes, NumbersOK, StateOK, PlanPrompt, Investigate, Speak, BeginTurn, setting
<1>2. PICK M, k : Under(M, k)
  BY <1>1, Grown
<1>3. Investigate(prompted + 1) /\ prompted + 1 \in 0 .. prompted' /\ turn'.first \in 0 .. said
  BY <1>1 DEF PlanPrompt
<1>4. QED BY <1>1, <1>2, <1>3, InvestigationBegins

LEMMA RerunChain ==
  ASSUME RcTypes, Chain, Rerun PROVE Chain'
<1>1. said \in Nat /\ prompted \in Nat /\ prompted' = prompted /\ prompted' \in Nat
      /\ said' = said + 1 /\ server' = server /\ Len(server) \in Nat
      /\ stage = "rerun" /\ current' = current
      /\ unsettled' = unsettled /\ replanned' = replanned
  BY DEF RcTypes, NumbersOK, StateOK, Rerun, Investigate, Speak, setting, facts
<1>2. PICK M, k : Under(M, k)
  BY <1>1, Grown
<1>3. Investigate(prompted) /\ prompted \in 0 .. prompted'
  BY <1>1 DEF Rerun
<1>4. turn'.first \in 0 .. said
  BY DEF Rerun, RcTypes, StateOK, TurnsOf
<1>5. QED BY <1>1, <1>2, <1>3, <1>4, InvestigationBegins

LEMMA AskChain ==
  ASSUME RcTypes, Investigation, Chain, Ask PROVE Chain'
<1>1. said \in Nat /\ prompted \in Nat /\ Len(server) \in Nat /\ runtime \in Runtimes
      /\ agent \in AgentsOf(MessagesOf(said, prompted), Len(server)) /\ agent.convo # <<>>
  BY DEF RcTypes, NumbersOK, StateOK, SettingOK, Ask, TurnPlace, InTurn, Messages, MessagesOf, TurnsOf
<1>2. PICK prompt \in Prompts \cup {"plan"} :
        /\ agent' = ReusableFor(agent, prompt) \/ agent' = Cleared(agent)
        /\ request' = RequestFor(agent', prompt)
  BY DEF Ask
<1>3. UNCHANGED <<shelf, setting, turn, plan, server, prompted, said, facts>>
      /\ stage = "ask" /\ stage' = "wait"
  BY DEF Ask
<1>4. PICK M, k : M = MessagesOf(said, prompted) /\ k = Len(server)
  OBVIOUS
<1>5. k \in Nat /\ agent \in AgentsOf(M, k)
  BY <1>1, <1>4
<1>6. agent' = agent \/ agent' = Cleared(agent)
  BY <1>2, <1>5, ReusableForIs
<1>7. agent'.convo = agent.convo /\ agent'.logged = agent.logged /\ agent' \in AgentsOf(M, k)
  BY <1>5, <1>6, ClearedIs
<1>8. Slack' = Slack /\ Pending' = Pending
  BY <1>3, <1>7 DEF Slack, Pending, InTurn, OfTurn
<1>9. FineAgent(agent', server, replanned, unsettled, Slack, Pending)
  <2>1. FineAgent(agent, server, replanned, unsettled, Slack, Pending)
    BY DEF Chain, AgentAgrees
  <2>2. PICK S, P : S = Slack /\ P = Pending
    OBVIOUS
  <2>3. FineAgent(Cleared(agent), server, replanned, unsettled, S, P)
    BY <1>5, <2>1, <2>2, FineCleared
  <2>4. QED BY <1>6, <2>1, <2>2, <2>3
<1>10. AgentAgrees'
  BY <1>3, <1>8, <1>9 DEF AgentAgrees, facts
<1>11. Onward
  BY <1>3, OnwardIs DEF facts
<1>12. ShelfAgrees'
  BY <1>3, <1>8, <1>11, ShelfLeft DEF Chain, setting
<1>13. CheckpointAgrees'
  <2>1. Starts(agent.convo, agent'.convo) /\ Starts(agent.logged, agent'.logged)
    BY <1>5, <1>7, StartsIs DEF AgentsOf
  <2>2. QED BY <1>3, <1>11, <2>1, CheckpointLeft DEF Chain
<1>14. RequestAgrees'
  <2>1. /\ request'.prev = agent'.cached /\ request'.prompt = prompt
        /\ agent'.cached = 0 => request'.input = Numbers(agent'.convo)
        /\ agent'.convo[Len(agent'.convo)].n \in request'.input
        /\ request'.input \subseteq Numbers(agent'.convo)
    <3>1. PICK b : b = agent'
      OBVIOUS
    <3>2. b \in AgentsOf(MessagesOf(said, prompted), Len(server)) /\ b.convo # <<>>
      BY <1>1, <1>4, <1>7, <3>1
    <3>3. /\ RequestFor(b, prompt).prev = b.cached /\ RequestFor(b, prompt).prompt = prompt
          /\ b.cached = 0 => RequestFor(b, prompt).input = Numbers(b.convo)
          /\ b.convo[Len(b.convo)].n \in RequestFor(b, prompt).input
          /\ RequestFor(b, prompt).input \subseteq Numbers(b.convo)
      BY <1>1, <1>2, <3>2, RequestForIs
    <3>4. QED BY <1>2, <3>1, <3>3
  <2>2. ASSUME agent'.cached # 0
        PROVE  server[agent'.cached].runtime = runtime /\ server[agent'.cached].prompt = prompt
    <3>1. Cleared(agent).cached = 0
      BY <1>5, ClearedIs
    <3>2. agent' = ReusableFor(agent, prompt) /\ agent' = agent /\ agent # Cleared(agent)
      BY <1>2, <1>6, <2>2, <3>1
    <3>3. ContextOf(agent).runtime = runtime /\ ContextOf(agent).prompt = prompt
      BY <2>2, <3>2 DEF ReusableFor
    <3>4. Truthful(ContextOf(agent), server) /\ ContextOf(agent).id = agent.cached
      <4>1. PICK S, P : FineAgent(agent, server, replanned, unsettled, S, P)
        BY DEF Chain, AgentAgrees
      <4>2. QED BY <1>1, <1>5, <4>1, ContextTrue
    <3>5. prompt # "none"
      BY <1>2, ChainAssumption
    <3>6. QED BY <2>2, <3>2, <3>3, <3>4, <3>5 DEF Truthful
  <2>3. QED BY <1>3, <2>1, <2>2 DEF RequestAgrees, setting
<1>15. QED BY <1>10, <1>12, <1>13, <1>14 DEF Chain

LEMMA RefuseChain ==
  ASSUME RcTypes, Investigation, Chain, Refuse PROVE Chain'
<1>1. said \in Nat /\ prompted \in Nat /\ Len(server) \in Nat /\ runtime \in Runtimes
      /\ agent \in AgentsOf(MessagesOf(said, prompted), Len(server)) /\ agent.convo # <<>>
      /\ request.prompt \in Prompts \cup {"plan"}
  BY DEF RcTypes, NumbersOK, StateOK, SettingOK, Refuse, TurnPlace, InTurn, Messages, MessagesOf, TurnsOf
<1>2. UNCHANGED <<shelf, setting, stage, turn, plan, server, counts, facts>> /\ stage = "wait"
      /\ request' = RequestFor(agent', request.prompt)
  BY DEF Refuse
<1>3. agent' \in AgentsOf(MessagesOf(said, prompted), Len(server))
      /\ agent'.convo = agent.convo /\ agent'.logged = agent.logged /\ agent'.cached = 0
      /\ agent'.saved = agent.saved /\ agent'.snapshot = agent.snapshot
  BY <1>1 DEF Refuse, AgentsOf
<1>4. Slack' = Slack /\ Pending' = Pending
  BY <1>2, <1>3 DEF Slack, Pending, InTurn, OfTurn, counts
<1>5. FineAgent(agent', server, replanned, unsettled, Slack, Pending)
  <2>1. FineAgent(agent, server, replanned, unsettled, Slack, Pending)
    BY DEF Chain, AgentAgrees
  <2>2. QED BY <1>3, <2>1 DEF FineAgent, Good
<1>6. AgentAgrees'
  BY <1>2, <1>4, <1>5 DEF AgentAgrees, facts
<1>7. Onward
  BY <1>2, OnwardIs DEF facts
<1>8. ShelfAgrees'
  BY <1>2, <1>4, <1>7, ShelfLeft DEF Chain, setting
<1>9. CheckpointAgrees'
  <2>1. Starts(agent.convo, agent'.convo) /\ Starts(agent.logged, agent'.logged)
    BY <1>1, <1>3, StartsIs DEF AgentsOf
  <2>2. QED BY <1>2, <1>7, <2>1, CheckpointLeft DEF Chain
<1>10. RequestAgrees'
  <2>1. PICK b : b = agent' /\ b \in AgentsOf(MessagesOf(said, prompted), Len(server)) /\ b.convo # <<>>
    BY <1>1, <1>3
  <2>2. b \in AgentsOf(MessagesOf(said, prompted), Len(server)) /\ b.convo # <<>>
    BY <2>1
  <2>3. /\ RequestFor(b, request.prompt).prev = b.cached
        /\ b.cached = 0 => RequestFor(b, request.prompt).input = Numbers(b.convo)
        /\ b.convo[Len(b.convo)].n \in RequestFor(b, request.prompt).input
        /\ RequestFor(b, request.prompt).input \subseteq Numbers(b.convo)
    BY <1>1, <2>2, RequestForIs
  <2>4. QED BY <1>2, <1>3, <2>1, <2>3 DEF RequestAgrees
<1>11. QED BY <1>6, <1>8, <1>9, <1>10 DEF Chain

LEMMA ContinueChain ==
  ASSUME RcTypes, Investigation, Chain, Continue PROVE Chain'
<1>1. UNCHANGED <<agent, shelf, setting, request, turn, plan, server, counts, facts>>
      /\ stage = "between" /\ stage' = "ask"
  BY DEF Continue
<1>2. Slack' = Slack /\ Pending' = Pending
  BY <1>1 DEF Slack, Pending, InTurn, OfTurn, counts
<1>3. AgentAgrees'
  BY <1>1, <1>2 DEF Chain, AgentAgrees, facts
<1>4. ShelfAgrees' /\ CheckpointAgrees' /\ RequestAgrees'
  BY <1>1, <1>2 DEF Chain, ShelfAgrees, CheckpointAgrees, RequestAgrees, facts, setting
<1>5. QED BY <1>3, <1>4 DEF Chain

(* What a new response stands for is the history and itself. *)
LEMMA ResponseSeen ==
  ASSUME AgentAgrees, RequestAgrees, stage = "wait", replanned = FALSE, NEW open
  PROVE  /\ Stored(open).seen \ (Numbers(agent.convo) \cup {said + 1}) \subseteq unsettled
         /\ Numbers(agent.convo) \ Stored(open).seen \subseteq unsettled
         /\ said + 1 \in Stored(open).seen
<1>1. Good(agent, server, unsettled, Slack, Pending)
  BY DEF AgentAgrees, FineAgent
<1>2. /\ request.prev = agent.cached
      /\ request.prev = 0 => request.input = Numbers(agent.convo)
      /\ agent.convo[Len(agent.convo)].n \in request.input
      /\ request.input \subseteq Numbers(agent.convo)
  BY DEF RequestAgrees
<1>3. Stored(open).seen = (IF request.prev = 0 THEN {} ELSE server[request.prev].seen)
                             \cup request.input \cup {said + 1}
  BY DEF Stored
<1>4. CASE request.prev = 0
  BY <1>2, <1>3, <1>4
<1>5. CASE request.prev # 0
  <2>1. /\ server[request.prev].seen \ Numbers(agent.convo) \subseteq unsettled
        /\ Numbers(agent.convo) \ server[request.prev].seen \subseteq unsettled \cup Pending
    BY <1>1, <1>2, <1>5 DEF Good
  <2>2. Pending \subseteq {agent.convo[Len(agent.convo)].n}
    BY DEF Pending
  <2>3. QED BY <1>2, <1>3, <1>5, <2>1, <2>2
<1>6. QED BY <1>4, <1>5

(* An agent that has the ID of the new response, and has recorded N of it. *)
LEMMA FineAnswer ==
  ASSUME RcTypes, AgentAgrees, RequestAgrees, stage = "wait", NEW open,
         server' = Append(server, Stored(open)),
         NEW b, b.cached = Len(server) + 1, b.saved \in {agent.saved, NoContext},
         b.snapshot \in {NoContext, [id |-> Len(server) + 1, runtime |-> runtime, prompt |-> request.prompt]},
         NEW N, Numbers(b.convo) = Numbers(agent.convo) \cup N,
         Numbers(b.logged) = Numbers(agent.logged) \cup N,
         NEW U, unsettled \subseteq U, N \subseteq {said + 1}, {said + 1} \ N \subseteq U
  PROVE  FineAgent(b, server', replanned, U, Slack \cup {said + 1}, {})
<1>1. Len(server) \in Nat /\ server \in Seq(ResponsesOf(said))
  BY DEF RcTypes, StateOK
<1>2. /\ server'[Len(server) + 1] = Stored(open)
      /\ \A i \in 1 .. Len(server) : server'[i] = server[i]
  BY <1>1
<1>3. Stored(open).runtime = runtime /\ Stored(open).prompt = request.prompt
  BY DEF Stored
<1>4. agent.saved \in ContextsOf(Len(server))
  BY DEF RcTypes, StateOK, AgentsOf
<1>5. agent.saved.id # 0 => server'[agent.saved.id] = server[agent.saved.id]
  BY <1>2, <1>4 DEF ContextsOf
<1>6. Truthful(b.snapshot, server')
  <2>1. CASE b.snapshot = NoContext
    BY <2>1, TrueNothing
  <2>2. CASE b.snapshot = [id |-> Len(server) + 1, runtime |-> runtime, prompt |-> request.prompt]
    BY <1>2, <1>3, <2>2 DEF Truthful
  <2>3. QED BY <2>1, <2>2
<1>7. Truthful(b.saved, server')
  <2>1. CASE b.saved = NoContext
    BY <2>1, TrueNothing
  <2>2. CASE b.saved = agent.saved
    BY <1>5, <2>2 DEF Truthful, AgentAgrees, FineAgent
  <2>3. QED BY <2>1, <2>2
<1>8. ASSUME replanned = FALSE
      PROVE  Good(b, server', U, Slack \cup {said + 1}, {})
  <2>1. Good(agent, server, unsettled, Slack, Pending)
    BY <1>8 DEF AgentAgrees, FineAgent
  <2>2. /\ Stored(open).seen \ (Numbers(agent.convo) \cup {said + 1}) \subseteq unsettled
        /\ Numbers(agent.convo) \ Stored(open).seen \subseteq unsettled
        /\ said + 1 \in Stored(open).seen
    BY <1>8, ResponseSeen
  <2>3. Agree(Numbers(b.convo), Numbers(b.logged), U)
    BY <2>1 DEF Good, Agree
  <2>4. PICK r : r = Stored(open)
    OBVIOUS
  <2>5. r.seen \ Numbers(b.convo) \subseteq U /\ Numbers(b.convo) \ r.seen \subseteq U \cup {}
    BY <2>2, <2>4
  <2>6. ASSUME b.saved.id # 0
        PROVE  Agree(server'[b.saved.id].seen, Numbers(b.logged), U \cup (Slack \cup {said + 1}))
    <3>1. b.saved = agent.saved
      BY <1>1, <2>6, NothingYet
    <3>2. Agree(server[agent.saved.id].seen, Numbers(agent.logged), unsettled \cup Slack)
      BY <2>1, <2>6, <3>1 DEF Good
    <3>3. server'[b.saved.id].seen = server[agent.saved.id].seen
      BY <1>5, <2>6, <3>1
    <3>4. QED BY <3>2, <3>3 DEF Agree
  <2>7. QED BY <1>2, <2>3, <2>4, <2>5, <2>6 DEF Good
<1>9. QED BY <1>6, <1>7, <1>8 DEF FineAgent

LEMMA AppendContinues ==
  ASSUME NEW R, NEW sv \in Seq(R), NEW r
  PROVE  Continued(sv, Append(sv, r))
BY DEF Continued

(* After a response that is recorded, and of one that is not yet. *)
LEMMA RespondsChain ==
  ASSUME RcTypes, Chain, NEW open \in {0, 1}, Responds(open), NEW M, NEW k, Under(M, k),
         said' \in Nat, said + 1 <= said', unsettled \subseteq unsettled'
  PROVE  /\ Onward /\ k \in Nat /\ Len(server') = k /\ current' = current /\ replanned' = replanned
         /\ Answered \in AgentsOf(M, k)
         /\ Answered.convo = agent.convo /\ Answered.logged = agent.logged
         /\ Answered.cached = Len(server) + 1 /\ Answered.cached # 0
         /\ FineAgent(Answered, server', replanned, unsettled \cup {said + 1}, Slack \cup {said + 1}, {})
         /\ \A m \in M : m.n = said + 1 =>
              /\ Said(Answered, <<m>>) \in AgentsOf(M, k)
              /\ Said(Answered, <<m>>).cached # 0
              /\ Said(Answered, <<m>>).convo = agent.convo \o <<m>>
              /\ Said(Answered, <<m>>).logged = agent.logged \o <<m>>
              /\ FineAgent(Said(Answered, <<m>>), server', replanned, unsettled, Slack \cup {said + 1}, {})
<1>1. /\ server' = Append(server, Stored(open)) /\ Len(server') = Len(server) + 1
      /\ stage = "wait" /\ Len(server) \in Nat /\ server \in Seq(ResponsesOf(said))
  BY RespondsTypes DEF Responds, RcTypes, StateOK
<1>2. current' = current /\ replanned' = replanned /\ replanned \in BOOLEAN
  BY DEF Responds, setting, RcTypes, SettingOK
<1>3. Onward
  <2>1. Continued(server, server')
    BY <1>1, AppendContinues
  <2>2. QED BY <1>2, <2>1 DEF Onward, Later
<1>4. PICK a : /\ a = Answered /\ a \in AgentsOf(M, k)
               /\ a.convo = agent.convo /\ a.logged = agent.logged
               /\ a.cached = Len(server) + 1 /\ a.saved = agent.saved
               /\ a.snapshot = [id |-> Len(server) + 1, runtime |-> runtime, prompt |-> request.prompt]
  BY <1>1, AnsweredIs
<1>5. k \in Nat /\ a \in AgentsOf(M, k) /\ a.cached # 0 /\ Len(server') = k
  BY <1>1, <1>4 DEF Under
<1>6. FineAgent(a, server', replanned, unsettled \cup {said + 1}, Slack \cup {said + 1}, {})
  <2>1. PICK U, N : U = unsettled \cup {said + 1} /\ N = {}
    OBVIOUS
  <2>2. /\ Numbers(a.convo) = Numbers(agent.convo) \cup N
        /\ Numbers(a.logged) = Numbers(agent.logged) \cup N
        /\ unsettled \subseteq U /\ N \subseteq {said + 1} /\ {said + 1} \ N \subseteq U
    BY <1>4, <2>1
  <2>3. FineAgent(a, server', replanned, U, Slack \cup {said + 1}, {})
    BY <1>1, <1>4, <2>2, FineAnswer DEF Chain
  <2>4. QED BY <2>1, <2>3
<1>7. ASSUME NEW m \in M, m.n = said + 1
      PROVE  /\ Said(a, <<m>>) \in AgentsOf(M, k) /\ Said(a, <<m>>).cached # 0
             /\ Said(a, <<m>>).convo = agent.convo \o <<m>>
             /\ Said(a, <<m>>).logged = agent.logged \o <<m>>
             /\ FineAgent(Said(a, <<m>>), server', replanned, unsettled, Slack \cup {said + 1}, {})
  <2>1. <<m>> \in Seq(M)
    OBVIOUS
  <2>2. PICK b : /\ b = Said(a, <<m>>) /\ b \in AgentsOf(M, k)
                 /\ b.convo = a.convo \o <<m>> /\ b.logged = a.logged \o <<m>>
                 /\ b.cached = a.cached
                 /\ b.snapshot \in {a.snapshot, NoContext} /\ b.saved \in {a.saved, NoContext}
    BY <1>5, <2>1, SaidIs
  <2>3. b.convo = agent.convo \o <<m>> /\ b.logged = agent.logged \o <<m>>
    BY <1>4, <2>2, Zenon
  <2>4. PICK N : N = {said + 1} /\ Numbers(<<m>>) = N
    BY <1>7, NumbersOne
  <2>5. agent.convo \in Seq(M) /\ agent.logged \in Seq(M)
    BY DEF Under, AgentsOf
  <2>6. /\ Numbers(b.convo) = Numbers(agent.convo) \cup N
        /\ Numbers(b.logged) = Numbers(agent.logged) \cup N
    <3>1. /\ Numbers(agent.convo \o <<m>>) = Numbers(agent.convo) \cup Numbers(<<m>>)
          /\ Numbers(agent.logged \o <<m>>) = Numbers(agent.logged) \cup Numbers(<<m>>)
      BY <2>1, <2>5, NumbersConcat, ZenonT(60)
    <3>2. QED BY <2>3, <2>4, <3>1, Zenon
  <2>7. FineAgent(b, server', replanned, unsettled, Slack \cup {said + 1}, {})
    <3>1. /\ b.cached = Len(server) + 1 /\ b.saved \in {agent.saved, NoContext}
          /\ b.snapshot \in {NoContext, [id |-> Len(server) + 1, runtime |-> runtime, prompt |-> request.prompt]}
      BY <1>4, <2>2
    <3>2. unsettled \subseteq unsettled /\ N \subseteq {said + 1} /\ {said + 1} \ N \subseteq unsettled
      BY <2>4
    <3>3. QED BY <1>1, <2>6, <3>1, <3>2, FineAnswer DEF Chain
  <2>8. QED BY <1>4, <1>5, <2>2, <2>3, <2>7
<1>8. QED BY <1>2, <1>3, <1>4, <1>5, <1>6, <1>7

LEMMA FineWider ==
  ASSUME NEW a, NEW sv, NEW x, NEW U, NEW S, NEW P, FineAgent(a, sv, x, U, S, P),
         NEW V, NEW T, NEW Q, U \subseteq V, Within(S, V, T), Within(P, V, Q)
  PROVE  FineAgent(a, sv, x, V, T, Q)
<1>1. ASSUME x = FALSE PROVE Good(a, sv, V, T, Q)
  <2>1. Good(a, sv, U, S, P) /\ S \subseteq V \cup T /\ P \subseteq V \cup Q
    BY <1>1 DEF FineAgent, Within
  <2>2. Agree(Numbers(a.convo), Numbers(a.logged), V)
    BY <2>1 DEF Good, Agree
  <2>3. a.cached # 0 => /\ sv[a.cached].seen \ Numbers(a.convo) \subseteq V
                        /\ Numbers(a.convo) \ sv[a.cached].seen \subseteq V \cup Q
    BY <2>1 DEF Good
  <2>4. a.saved.id # 0 => Agree(sv[a.saved.id].seen, Numbers(a.logged), V \cup T)
    BY <2>1 DEF Good, Agree
  <2>5. QED BY <2>2, <2>3, <2>4 DEF Good
<1>2. QED BY <1>1 DEF FineAgent

LEMMA MoreOfTurn ==
  ASSUME RcTypes, turn' = turn, said' \in Nat, said <= said'
  PROVE  OfTurn \subseteq OfTurn'
BY DEF OfTurn, RcTypes, StateOK, NumbersOK, TurnsOf

(* What is saved is fine: so is what the session and the shelf have.       *)
LEMMA PersistChain ==
  ASSUME RcTypes, Chain, Onward, NEW M, NEW k, Under(M, k), NEW b \in AgentsOf(M, k), Persist(b),
         current' = current, NEW S, FineAgent(b, server', replanned', unsettled', S, {}),
         b.cached = 0 => S = {}
  PROVE  AgentAgrees' /\ ShelfAgrees'
<1>1. k \in Nat /\ runtime \in Runtimes /\ current \in Chats /\ shelf \in ShelvesOf(M, k)
  BY DEF Under, RcTypes, SettingOK
<1>2. agent' = Synced(b) /\ agent' \in AgentsOf(M, k) /\ shelf' = Shelved(Synced(b), runtime)
  BY <1>1, PersistIs
<1>3. FineAgent(agent', server', replanned', unsettled', {}, {})
  <2>1. PICK U : U = unsettled' /\ Within({}, U, {}) /\ (b.cached = 0 => Within(S, U, {}))
    BY DEF Within
  <2>2. FineAgent(Synced(b), server', replanned', U, {}, {})
    BY <1>1, <2>1, FineSynced
  <2>3. QED BY <1>2, <2>1, <2>2
<1>4. FineAgent(agent', server', replanned', unsettled', Slack', Pending')
  <2>1. PICK U, T, Q : U = unsettled' /\ T = Slack' /\ Q = Pending'
    OBVIOUS
  <2>2. Within({}, U, T) /\ Within({}, U, Q) /\ U \subseteq U
    BY DEF Within
  <2>3. FineAgent(agent', server', replanned', U, {}, {})
    BY <1>3, <2>1
  <2>4. FineAgent(agent', server', replanned', U, T, Q)
    BY <2>2, <2>3, FineWider
  <2>5. QED BY <2>1, <2>4
<1>5. ShelfAgrees'
  <2>1. shelf' = Shelved(agent', runtime)
    BY <1>2
  <2>2. QED BY <1>1, <1>2, <1>4, <2>1, ShelfWritten DEF Chain
<1>6. QED BY <1>4, <1>5 DEF AgentAgrees

(* The answer of the provider is recorded in the history and the session.  *)
LEMMA RecordedChain ==
  ASSUME RcTypes, Investigation, Chain, NEW open \in {0, 1}, Responds(open), said' = said + 1,
         NEW kind \in {"plain", "calls"}, Persist(Said(Answered, <<Msg(1, kind)>>)),
         unsettled' = unsettled, stage' # "wait"
  PROVE  Chain'
<1> DEFINE m == Msg(1, kind)
<1>1. said \in Nat /\ said' \in Nat /\ said + 1 <= said' /\ prompted \in Nat /\ prompted' = prompted
      /\ plan' = plan /\ current \in Chats /\ runtime \in Runtimes
  BY DEF RcTypes, NumbersOK, SettingOK, Responds
<1>2. PICK M, k : Under(M, k)
  BY <1>1, RespondsTypes
<1>3. m \in M /\ m.n = said + 1 /\ Persist(Said(Answered, <<m>>))
  BY <1>1, <1>2, MsgIs
<1> HIDE DEF m
<1>4. /\ Onward /\ k \in Nat /\ current' = current /\ replanned' = replanned
      /\ Said(Answered, <<m>>) \in AgentsOf(M, k) /\ Said(Answered, <<m>>).cached # 0
      /\ Said(Answered, <<m>>).convo = agent.convo \o <<m>>
      /\ Said(Answered, <<m>>).logged = agent.logged \o <<m>>
      /\ FineAgent(Said(Answered, <<m>>), server', replanned, unsettled, Slack \cup {said + 1}, {})
  BY <1>1, <1>2, <1>3, RespondsChain
<1>5. PICK b : b = Said(Answered, <<m>>)
  OBVIOUS
<1>6. /\ b \in AgentsOf(M, k) /\ b.cached # 0
      /\ b.convo = agent.convo \o <<m>> /\ b.logged = agent.logged \o <<m>>
      /\ FineAgent(b, server', replanned, unsettled, Slack \cup {said + 1}, {})
      /\ Persist(b) /\ shelf \in ShelvesOf(M, k)
  BY <1>2, <1>3, <1>4, <1>5 DEF Under
<1>7. /\ agent' = Synced(b) /\ agent' \in AgentsOf(M, k) /\ shelf' = Shelved(Synced(b), runtime)
      /\ agent'.convo = b.convo /\ agent'.logged = b.logged
  BY <1>1, <1>4, <1>6, PersistIs
<1>8. AgentAgrees' /\ ShelfAgrees'
  <2>1. FineAgent(b, server', replanned', unsettled', Slack \cup {said + 1}, {})
    BY <1>4, <1>6
  <2>2. PICK S : S = Slack \cup {said + 1} /\ FineAgent(b, server', replanned', unsettled', S, {})
    BY <2>1
  <2>3. FineAgent(b, server', replanned', unsettled', S, {})
    BY <2>2
  <2>4. QED BY <1>1, <1>2, <1>4, <1>6, <2>3, PersistChain
<1>12. CheckpointAgrees'
  <2>1. agent.convo \in Seq(M) /\ agent.logged \in Seq(M) /\ <<m>> \in Seq(M)
    BY <1>2, <1>3 DEF Under, AgentsOf
  <2>2. Starts(agent.convo, agent.convo \o <<m>>) /\ Starts(agent.logged, agent.logged \o <<m>>)
    BY <2>1, StartsIs
  <2>3. Starts(agent.convo, agent'.convo) /\ Starts(agent.logged, agent'.logged)
    BY <1>6, <1>7, <2>2
  <2>4. QED BY <1>1, <1>4, <2>3, CheckpointLeft DEF Chain
<1>13. RequestAgrees'
  BY DEF RequestAgrees
<1>14. QED BY <1>8, <1>12, <1>13 DEF Chain

LEMMA AnswerChain ==
  ASSUME RcTypes, Investigation, Chain, Answer PROVE Chain'
<1>1. Responds(0) /\ said' = said + 1 /\ Persist(Said(Answered, <<Msg(1, "plain")>>))
      /\ unsettled' = unsettled /\ stage' # "wait"
  BY DEF Answer, Speak
<1>2. QED BY <1>1, RecordedChain

LEMMA AnswerWithCallChain ==
  ASSUME RcTypes, Investigation, Chain, AnswerWithCall PROVE Chain'
<1>1. Responds(1) /\ said' = said + 1 /\ unsettled' = unsettled /\ stage' # "wait"
  BY DEF AnswerWithCall, Speak
<1>2. PICK kind \in {"plain", "calls"} : kind = IF plan.on THEN "plain" ELSE "calls"
  OBVIOUS
<1>3. Persist(Said(Answered, <<Msg(1, kind)>>))
  BY <1>2 DEF AnswerWithCall
<1>4. QED BY <1>1, <1>3, RecordedChain

LEMMA AnswerUnrecordedChain ==
  ASSUME RcTypes, Investigation, Chain, AnswerUnrecorded PROVE Chain'
<1>1. said \in Nat /\ said' \in Nat /\ said' = said + 1 /\ said + 1 <= said' /\ stage' = "ready"
      /\ Responds(0) /\ ~plan.on /\ plan' = plan /\ agent' = Answered /\ shelf' = shelf
      /\ unsettled' = unsettled \cup OfTurn \cup {said + 1}
  BY DEF RcTypes, NumbersOK, Responds, AnswerUnrecorded, Speak
<1>2. PICK M, k : Under(M, k)
  BY <1>1, RespondsTypes
<1>3. /\ Onward /\ current' = current /\ replanned' = replanned
      /\ FineAgent(Answered, server', replanned, unsettled \cup {said + 1}, Slack \cup {said + 1}, {})
  BY <1>1, <1>2, RespondsChain
<1>4. Slack \subseteq OfTurn
  BY DEF Slack
<1>5. AgentAgrees'
  <2>1. PICK U, S, T, Q : U = unsettled \cup {said + 1} /\ S = Slack \cup {said + 1} /\ T = Slack' /\ Q = Pending'
    OBVIOUS
  <2>2. U \subseteq unsettled' /\ Within(S, unsettled', T) /\ Within({}, unsettled', Q)
    BY <1>1, <1>4, <2>1 DEF Within
  <2>3. FineAgent(agent', server', replanned, U, S, {})
    BY <1>1, <1>3, <2>1
  <2>4. FineAgent(agent', server', replanned, unsettled', T, Q)
    BY <2>2, <2>3, FineWider
  <2>5. QED BY <1>3, <2>1, <2>4 DEF AgentAgrees
<1>6. ShelfAgrees'
  <2>1. Slack \subseteq unsettled' \cup Slack'
    BY <1>1, <1>4
  <2>2. QED BY <1>1, <1>3, <2>1, ShelfLeft DEF Chain
<1>7. CheckpointAgrees'
  BY <1>1, <1>3, CheckpointLeft DEF Chain
<1>8. RequestAgrees'
  BY <1>1 DEF RequestAgrees
<1>9. QED BY <1>5, <1>6, <1>7, <1>8 DEF Chain

LEMMA ReplyChain ==
  ASSUME RcTypes, Investigation, Chain, Reply PROVE Chain'
<1> DEFINE m == Msg(1, "reply")
<1>1. said \in Nat /\ said' = said + 1 /\ prompted \in Nat /\ Len(server) \in Nat
      /\ stage = "tools" /\ stage' = "between" /\ unsettled' = unsettled
  BY DEF RcTypes, NumbersOK, StateOK, Reply, Speak, ToolsRun
<1>2. UNCHANGED <<setting, request, turn, plan, server, prompted, changes, replanned, building>>
  BY DEF Reply, ToolsLeave
<1>3. PICK M, k : Under(M, k)
  BY <1>1, <1>2, Grown
<1>4. m \in M /\ m.n = said + 1 /\ Persist(Said(agent, <<m>>))
  BY <1>1, <1>2, <1>3, MsgIs DEF Reply
<1> HIDE DEF m
<1>5. k \in Nat /\ agent \in AgentsOf(M, k) /\ <<m>> \in Seq(M) /\ runtime \in Runtimes
      /\ agent.convo \in Seq(M) /\ agent.logged \in Seq(M) /\ current' = current
  BY <1>2, <1>3, <1>4 DEF Under, AgentsOf, RcTypes, SettingOK, setting
<1>6. Pending = {} /\ Slack \subseteq OfTurn /\ Slack' = OfTurn'
  BY <1>1 DEF Pending, Slack, InTurn
<1>7. OfTurn \subseteq OfTurn' /\ said + 1 \in OfTurn'
  <2>1. turn.first \in 0 .. said
    BY DEF RcTypes, StateOK, TurnsOf
  <2>2. QED BY <1>1, <1>2, <2>1 DEF OfTurn
<1>8. PICK T, Q : T = Slack' /\ Q = {said + 1}
  OBVIOUS
<1>9. PICK b : b = Said(agent, <<m>>) /\ b \in AgentsOf(M, k)
               /\ FineAgent(b, server, replanned, unsettled, T, Q)
  <2>1. Numbers(<<m>>) = {said + 1}
    BY <1>4, NumbersOne
  <2>2. Within(Slack, unsettled, T) /\ Within({}, unsettled, Q)
        /\ Within(Numbers(<<m>>), unsettled, T) /\ Within(Numbers(<<m>>), unsettled, Q)
    BY <1>6, <1>7, <1>8, <2>1 DEF Within
  <2>3. FineAgent(agent, server, replanned, unsettled, Slack, {})
    BY <1>6 DEF Chain, AgentAgrees
  <2>4. FineAgent(Said(agent, <<m>>), server, replanned, unsettled, T, Q)
    BY <1>5, <2>2, <2>3, FineSaid
  <2>5. Said(agent, <<m>>) \in AgentsOf(M, k)
    BY <1>5, SaidIs
  <2>6. QED BY <2>4, <2>5
<1>10. b \in AgentsOf(M, k) /\ FineAgent(b, server, replanned, unsettled, T, Q)
  BY <1>9
<1>11. FineAgent(Synced(b), server, replanned, unsettled, T, Q)
  <2>1. Within(T, unsettled, T) /\ Within(Q, unsettled, T)
    BY <1>6, <1>7, <1>8 DEF Within
  <2>2. QED BY <1>5, <1>10, <2>1, FineSynced
<1>12. agent' = Synced(b) /\ shelf' = Shelved(agent', runtime) /\ agent' \in AgentsOf(M, k)
       /\ agent'.convo = agent.convo \o <<m>> /\ agent'.logged = agent.logged \o <<m>>
  <2>1. agent \in AgentsOf(M, k) /\ m \in M /\ Persist(Said(agent, <<m>>))
    BY <1>4, <1>5
  <2>2. agent' = Synced(Said(agent, <<m>>)) /\ shelf' = Shelved(agent', runtime) /\ agent' \in AgentsOf(M, k)
        /\ agent'.convo = agent.convo \o <<m>> /\ agent'.logged = agent.logged \o <<m>>
    BY <1>3, <2>1, PersistSaid, SMTT(60)
  <2>3. QED BY <1>9, <2>2
<1>13. Pending' = Q
  <2>1. agent'.convo[Len(agent'.convo)] = m
    BY <1>4, <1>5, <1>12
  <2>2. QED BY <1>1, <1>4, <1>7, <1>8, <2>1 DEF Pending
<1>14. FineAgent(agent', server', replanned', unsettled', Slack', Q)
  BY <1>1, <1>2, <1>8, <1>11, <1>12
<1>15. AgentAgrees'
  BY <1>13, <1>14 DEF AgentAgrees
<1>16. Onward
  BY <1>1, <1>2, OnwardIs
<1>17. ShelfAgrees'
  BY <1>3, <1>5, <1>12, <1>14, <1>16, ShelfWritten DEF Chain
<1>18. CheckpointAgrees'
  <2>1. Starts(agent.convo, agent.convo \o <<m>>) /\ Starts(agent.logged, agent.logged \o <<m>>)
    BY <1>5, StartsIs
  <2>2. Starts(agent.convo, agent'.convo) /\ Starts(agent.logged, agent'.logged)
    BY <1>12, <2>1
  <2>3. QED BY <1>2, <1>16, <2>2, CheckpointLeft DEF Chain
<1>19. RequestAgrees'
  BY <1>1 DEF RequestAgrees
<1>20. QED BY <1>15, <1>17, <1>18, <1>19 DEF Chain

LEMMA ReplyInHistoryChain ==
  ASSUME RcTypes, Investigation, Chain, ReplyInHistory PROVE Chain'
<1>1. said \in Nat /\ said' = said + Len(Told) /\ prompted \in Nat /\ Len(server) \in Nat
      /\ stage = "tools" /\ stage' = "between" /\ shelf' = shelf
      /\ unsettled' = unsettled \cup Numbers(Told) /\ agent' = Noted(agent, Told)
  BY DEF RcTypes, NumbersOK, StateOK, ReplyInHistory, Speak, ToolsRun, Told
<1>2. UNCHANGED <<setting, request, turn, plan, server, prompted, changes, replanned, building>>
  BY DEF ReplyInHistory, ToolsLeave
<1>3. Len(Told) \in Nat
  BY DEF Told
<1>4. PICK M, k : Under(M, k)
  BY <1>1, <1>2, <1>3, Grown
<1>5. Told \in Seq(M)
  BY <1>1, <1>2, <1>4, ToldIs
<1>6. k \in Nat /\ agent \in AgentsOf(M, k) /\ agent.convo \in Seq(M) /\ agent.logged \in Seq(M)
      /\ current' = current
  BY <1>2, <1>4 DEF Under, AgentsOf, setting
<1>7. Slack \subseteq Slack' /\ Pending = {}
  <2>1. OfTurn \subseteq OfTurn'
    BY <1>1, <1>2, <1>3, MoreOfTurn
  <2>2. QED BY <1>1, <2>1 DEF Slack, Pending, InTurn
<1>8. AgentAgrees'
  <2>1. PICK ms, S, T, Q : ms = Told /\ S = Slack /\ T = Slack' /\ Q = Pending'
    OBVIOUS
  <2>2. FineAgent(agent, server, replanned, unsettled, S, {})
    BY <1>7, <2>1 DEF Chain, AgentAgrees
  <2>3. unsettled \subseteq unsettled' /\ Within(S, unsettled', T) /\ Within({}, unsettled', Q)
    BY <1>1, <1>7, <2>1 DEF Within
  <2>4. FineAgent(agent, server, replanned, unsettled', T, Q)
    BY <2>2, <2>3, FineWider
  <2>5. ms \in Seq(M) /\ Numbers(ms) \subseteq unsettled'
    BY <1>1, <1>5, <2>1
  <2>6. FineAgent(Noted(agent, ms), server, replanned, unsettled', T, Q)
    BY <1>6, <2>4, <2>5, FineNoted
  <2>7. QED BY <1>1, <1>2, <2>1, <2>6 DEF AgentAgrees
<1>9. Onward
  BY <1>1, <1>2, OnwardIs
<1>10. ShelfAgrees'
  <2>1. Slack \subseteq unsettled' \cup Slack'
    BY <1>7
  <2>2. QED BY <1>1, <1>6, <1>9, <2>1, ShelfLeft DEF Chain
<1>11. CheckpointAgrees'
  <2>1. agent'.convo = agent.convo \o Told /\ agent'.logged = agent.logged
    <3>1. PICK ms : ms = Told /\ ms \in Seq(M)
      BY <1>5
    <3>2. ms \in Seq(M) /\ agent' = Noted(agent, ms)
      BY <1>1, <3>1
    <3>3. agent'.convo = agent.convo \o ms /\ agent'.logged = agent.logged
      BY <1>6, <3>2, NotedIs, ZenonT(60)
    <3>4. QED BY <3>1, <3>3, Zenon
  <2>2. Starts(agent.convo, agent.convo \o Told) /\ Starts(agent.logged, agent.logged)
    BY <1>5, <1>6, StartsIs
  <2>3. Starts(agent.convo, agent'.convo) /\ Starts(agent.logged, agent'.logged)
    BY <2>1, <2>2
  <2>4. QED BY <1>2, <1>9, <2>3, CheckpointLeft DEF Chain
<1>12. RequestAgrees'
  BY <1>1 DEF RequestAgrees
<1>13. QED BY <1>8, <1>10, <1>11, <1>12 DEF Chain

LEMMA AnswerSentBackChain ==
  ASSUME RcTypes, Investigation, Chain, AnswerSentBack PROVE Chain'
<1> DEFINE m == Msg(1, "plain")
           q == Msg(2, "plain")
<1>1. said \in Nat /\ said' = said + 2 /\ said' \in Nat /\ said + 1 <= said' /\ prompted \in Nat
      /\ prompted' = prompted /\ stage = "wait" /\ Responds(0) /\ stage' = "ask"
      /\ plan' = plan /\ turn' = turn
  BY DEF RcTypes, NumbersOK, Responds, AnswerSentBack, Speak
<1>2. PICK M, k : Under(M, k)
  BY <1>1, RespondsTypes
<1>3. m \in M /\ m.n = said + 1 /\ q \in M /\ q.n = said + 2
  BY <1>1, <1>2, MsgIs
<1>4. \/ /\ plan.on
         /\ Persist(Noted(Said(Answered, <<m>>), <<q>>))
         /\ unsettled' = unsettled \cup {said + 2}
      \/ /\ ~plan.on
         /\ agent' = Noted(Answered, <<m, q>>) /\ shelf' = shelf
         /\ unsettled' = unsettled \cup {said + 1, said + 2}
  BY DEF AnswerSentBack
<1> HIDE DEF m, q
<1>5. unsettled \subseteq unsettled'
  BY <1>4
<1>6. /\ Onward /\ k \in Nat /\ current' = current /\ replanned' = replanned
      /\ Answered \in AgentsOf(M, k)
      /\ FineAgent(Answered, server', replanned, unsettled \cup {said + 1}, Slack \cup {said + 1}, {})
      /\ Said(Answered, <<m>>) \in AgentsOf(M, k) /\ Said(Answered, <<m>>).cached # 0
      /\ Said(Answered, <<m>>).convo = agent.convo \o <<m>>
      /\ Said(Answered, <<m>>).logged = agent.logged \o <<m>>
      /\ FineAgent(Said(Answered, <<m>>), server', replanned, unsettled, Slack \cup {said + 1}, {})
  BY <1>1, <1>2, <1>3, <1>5, RespondsChain
<1>7. RequestAgrees'
  BY <1>1 DEF RequestAgrees
<1>8. CASE /\ plan.on
           /\ Persist(Noted(Said(Answered, <<m>>), <<q>>))
           /\ unsettled' = unsettled \cup {said + 2}
  <2>1. PICK a, S : a = Said(Answered, <<m>>) /\ S = Slack \cup {said + 1}
    OBVIOUS
  <2>2. /\ a \in AgentsOf(M, k) /\ a.cached # 0 /\ k \in Nat
        /\ a.convo = agent.convo \o <<m>> /\ a.logged = agent.logged \o <<m>>
        /\ FineAgent(a, server', replanned, unsettled, S, {})
        /\ <<q>> \in Seq(M) /\ <<m>> \in Seq(M)
    BY <1>3, <1>6, <2>1, SMTT(60)
  <2>3. FineAgent(a, server', replanned, unsettled', S, {})
    <3>1. PICK U : U = unsettled' /\ Within(S, U, S) /\ Within({}, U, {}) /\ unsettled \subseteq U
      BY <1>5 DEF Within
    <3>2. FineAgent(a, server', replanned, U, S, {})
      BY <2>2, <3>1, FineWider
    <3>3. QED BY <3>1, <3>2
  <2>4. Numbers(<<q>>) \subseteq unsettled'
    BY <1>3, <1>8, NumbersOne
  <2>5. PICK b : /\ b = Noted(a, <<q>>) /\ b \in AgentsOf(M, k) /\ b.cached = a.cached
                 /\ b.convo = a.convo \o <<q>> /\ b.logged = a.logged
    <3>1. a \in AgentsOf(M, k) /\ k \in Nat /\ <<q>> \in Seq(M)
      BY <2>2
    <3>2. /\ Noted(a, <<q>>) \in AgentsOf(M, k) /\ Noted(a, <<q>>).cached = a.cached
          /\ Noted(a, <<q>>).convo = a.convo \o <<q>> /\ Noted(a, <<q>>).logged = a.logged
      BY <3>1, NotedIs
    <3>3. QED BY <3>2
  <2>6. FineAgent(b, server', replanned', unsettled', S, {})
    <3>1. FineAgent(Noted(a, <<q>>), server', replanned, unsettled', S, {})
      BY <2>2, <2>3, <2>4, FineNoted
    <3>2. QED BY <1>6, <2>5, <3>1
  <2>7. b \in AgentsOf(M, k) /\ Persist(b) /\ b.cached # 0
    BY <1>8, <2>1, <2>2, <2>5
  <2>8. AgentAgrees' /\ ShelfAgrees'
    BY <1>2, <1>6, <2>6, <2>7, PersistChain
  <2>9. agent'.convo = b.convo /\ agent'.logged = b.logged
    <3>1. shelf \in ShelvesOf(M, k) /\ current \in Chats /\ runtime \in Runtimes
      BY <1>2 DEF Under, RcTypes, SettingOK
    <3>2. QED BY <2>2, <2>7, <3>1, PersistIs
  <2>10. CheckpointAgrees'
    <3>1. agent.convo \in Seq(M) /\ agent.logged \in Seq(M)
      BY <1>2 DEF Under, AgentsOf
    <3>2. b.convo = agent.convo \o <<m, q>>
      <4>1. b.convo = (agent.convo \o <<m>>) \o <<q>>
        BY <2>2, <2>5, Zenon
      <4>2. (agent.convo \o <<m>>) \o <<q>> = agent.convo \o <<m, q>>
        BY <1>3, <3>1, TwoMore, ZenonT(60)
      <4>3. QED BY <4>1, <4>2, Zenon
    <3>3. Starts(agent.convo, agent.convo \o <<m, q>>) /\ Starts(agent.logged, agent.logged \o <<m>>)
      <4>1. <<m, q>> \in Seq(M)
        BY <1>3
      <4>2. QED BY <2>2, <3>1, <4>1, StartsIs
    <3>4. Starts(agent.convo, agent'.convo) /\ Starts(agent.logged, agent'.logged)
      BY <2>2, <2>5, <2>9, <3>2, <3>3
    <3>5. QED BY <1>1, <1>6, <3>4, CheckpointLeft DEF Chain
  <2>11. QED BY <1>7, <2>8, <2>10 DEF Chain
<1>9. CASE /\ ~plan.on
           /\ agent' = Noted(Answered, <<m, q>>) /\ shelf' = shelf
           /\ unsettled' = unsettled \cup {said + 1, said + 2}
  <2>1. PICK a, S, T, Q, ms, U : a = Answered /\ S = Slack \cup {said + 1} /\ T = Slack' /\ Q = Pending'
                                 /\ ms = <<m, q>> /\ U = unsettled \cup {said + 1}
    OBVIOUS
  <2>2. Slack \subseteq Slack'
    <3>1. OfTurn \subseteq OfTurn'
      BY <1>1, MoreOfTurn
    <3>2. QED BY <1>1, <3>1 DEF Slack, InTurn
  <2>3. U \subseteq unsettled' /\ Within(S, unsettled', T) /\ Within({}, unsettled', Q)
    BY <1>9, <2>1, <2>2 DEF Within
  <2>4. a \in AgentsOf(M, k) /\ FineAgent(a, server', replanned, U, S, {}) /\ k \in Nat
    BY <1>6, <2>1
  <2>5. FineAgent(a, server', replanned, unsettled', T, Q)
    BY <2>3, <2>4, FineWider
  <2>6. ms \in Seq(M) /\ Numbers(ms) \subseteq unsettled'
    BY <1>3, <1>9, <2>1 DEF Numbers
  <2>7. FineAgent(Noted(a, ms), server', replanned, unsettled', T, Q)
    BY <2>4, <2>5, <2>6, FineNoted
  <2>8. AgentAgrees'
    BY <1>6, <1>9, <2>1, <2>7 DEF AgentAgrees
  <2>9. ShelfAgrees'
    <3>1. Slack \subseteq unsettled' \cup Slack'
      BY <2>2
    <3>2. QED BY <1>6, <1>9, <3>1, ShelfLeft DEF Chain
  <2>10. CheckpointAgrees'
    BY <1>1, <1>6, <1>9, CheckpointLeft DEF Chain
  <2>11. QED BY <1>7, <2>8, <2>9, <2>10 DEF Chain
<1>10. QED BY <1>4, <1>8, <1>9

-----------------------------------------------------------------------------
(* Compressions. *)
LEMMA CompressedChain ==
  ASSUME RcTypes, Chain, NEW M, NEW k, Under(M, k), NEW a \in AgentsOf(M, k), Persist(Rewritten(a)),
         current' = current, server' = server, unsettled' = unsettled, replanned' = replanned
  PROVE  AgentAgrees' /\ ShelfAgrees' /\ Onward
<1>1. k \in Nat
  BY DEF Under
<1>2. PICK b : b = Rewritten(a) /\ b \in AgentsOf(M, k)
  BY <1>1, RewrittenIs
<1>3. FineAgent(b, server', replanned', unsettled', {}, {})
  <2>1. FineAgent(Rewritten(a), server', replanned', unsettled', {}, {})
    BY <1>1, FineRewritten
  <2>2. QED BY <1>2, <2>1
<1>4. b \in AgentsOf(M, k) /\ Persist(b) /\ Onward
  BY <1>2, OnwardIs
<1>5. QED BY <1>3, <1>4, PersistChain

LEMMA CompressInTurnChain ==
  ASSUME RcTypes, RcTypes', Investigation, Chain, CompressInTurn PROVE Chain'
<1> DEFINE i == splitHistoryForInTurnCompression(agent.convo, turn.start, KeepNewest)
           start == 1 + turn.start - i
<1>1. said \in Nat /\ said' = said + 1 /\ prompted \in Nat /\ prompted' = prompted
      /\ Len(server) \in Nat /\ server' = server /\ stage = "between" /\ stage' = "ask"
      /\ current' = current /\ unsettled' = unsettled /\ replanned' = replanned
      /\ plan' = Rebased(start) /\ Persist(Rewritten(Summarised(agent, i)))
  BY DEF RcTypes, NumbersOK, StateOK, CompressInTurn, Speak, setting, facts
<1>2. PICK M, k : Under(M, k)
  BY <1>1, Grown
<1>3. i \in 0 .. Len(agent.convo)
  <2>1. agent.convo \in Seq(M) /\ turn.start \in Nat /\ turn.start < Len(agent.convo)
        /\ ~IsReply(agent.convo[turn.start + 1])
    BY <1>1, <1>2 DEF Under, AgentsOf, TurnsOf, RcTypes, TurnPlace, InTurn
  <2>2. i \in 0 .. turn.start
    BY <2>1, ChainAssumption, InTurnSplitInside
  <2>3. QED BY <2>1, <2>2
<1> HIDE DEF i
<1>4. PICK a : a = Summarised(agent, i) /\ a \in AgentsOf(M, k)
  <2>1. Summary \in M /\ agent \in AgentsOf(M, k) /\ k \in Nat
    BY <1>1, <1>2, SummaryMessage DEF Under
  <2>2. QED BY <1>3, <2>1, SummarisedIs
<1>5. a \in AgentsOf(M, k) /\ Persist(Rewritten(a))
  BY <1>1, <1>4
<1>6. AgentAgrees' /\ ShelfAgrees' /\ Onward
  BY <1>1, <1>2, <1>5, CompressedChain
<1>7. agent'.logged = agent'.convo
  BY <1>1, <1>2, <1>3, CompressedIs
<1>8. CheckpointAgrees'
  <2> HIDE DEF start
  <2>1. CASE ~plan.on
    <3>1. plan' = plan
      BY <1>1, <2>1 DEF Rebased
    <3>2. QED BY <1>6, <2>1, <3>1, CheckpointLeft DEF Chain
  <2>2. CASE plan.on
    <3>1. plan' = [plan EXCEPT !.length = start, !.entries = start, !.context = NoContext]
      BY <1>1, <2>2 DEF Rebased
    <3>2. plan'.length = start /\ plan'.entries = start /\ plan'.context = NoContext
      BY <3>1 DEF RcTypes, StateOK, PlansOf
    <3>3. plan'.context.id = 0
      BY <1>1, <3>2, NothingYet
    <3>4. QED BY <1>7, <3>2, <3>3, TrueNothing DEF CheckpointAgrees, Agree
  <2>3. QED BY <2>1, <2>2
<1>9. RequestAgrees'
  BY <1>1 DEF RequestAgrees
<1>10. QED BY <1>6, <1>8, <1>9 DEF Chain

LEMMA CompressNowChain ==
  ASSUME RcTypes, Investigation, Chain, CompressNow PROVE Chain'
<1>1. said \in Nat /\ said' = said + 1 /\ prompted \in Nat /\ prompted' = prompted
      /\ Len(server) \in Nat /\ server' = server /\ stage = "ready" /\ stage' = stage
      /\ current' = current /\ unsettled' = unsettled /\ replanned' = replanned
      /\ plan' = plan /\ Persist(Rewritten(Summarised(agent, Split)))
  BY DEF RcTypes, NumbersOK, StateOK, CompressNow, Speak, setting, facts
<1>2. PICK M, k : Under(M, k)
  BY <1>1, Grown
<1>3. Split \in 0 .. Len(agent.convo)
  BY SplitIs
<1>4. PICK a : a = Summarised(agent, Split) /\ a \in AgentsOf(M, k)
  <2>1. Summary \in M /\ agent \in AgentsOf(M, k) /\ k \in Nat
    BY <1>1, <1>2, SummaryMessage DEF Under
  <2>2. QED BY <1>3, <2>1, SummarisedIs
<1>5. a \in AgentsOf(M, k) /\ Persist(Rewritten(a))
  BY <1>1, <1>4
<1>6. AgentAgrees' /\ ShelfAgrees' /\ Onward
  BY <1>1, <1>2, <1>5, CompressedChain
<1>7. ~plan.on
  BY <1>1, ReadyHasNoPlan
<1>8. CheckpointAgrees'
  BY <1>1, <1>6, <1>7, CheckpointLeft DEF Chain
<1>9. RequestAgrees'
  BY <1>1 DEF RequestAgrees
<1>10. QED BY <1>6, <1>8, <1>9 DEF Chain

LEMMA CompactChain ==
  ASSUME RcTypes, Investigation, Chain, Compact PROVE Chain'
<1> DEFINE a == [agent EXCEPT !.convo = <<>>]
<1>1. said \in Nat /\ said' = said /\ prompted \in Nat /\ prompted' = prompted
      /\ Len(server) \in Nat /\ server' = server /\ stage = "ready" /\ stage' = stage
      /\ current' = current /\ unsettled' = unsettled /\ replanned' = replanned
      /\ plan' = plan /\ Persist(Rewritten(a))
  BY DEF RcTypes, NumbersOK, StateOK, Compact, setting, facts
<1>2. PICK M, k : Under(M, k)
  BY <1>1, Grown
<1>3. a \in AgentsOf(M, k)
  <2>1. agent \in AgentsOf(M, k) /\ <<>> \in Seq(M)
    BY <1>2 DEF Under
  <2>2. a = [convo |-> <<>>, logged |-> agent.logged, saved |-> agent.saved,
             cached |-> agent.cached, snapshot |-> agent.snapshot]
    BY <2>1 DEF AgentsOf
  <2>3. QED BY <2>1, <2>2, Zenon DEF AgentsOf
<1> HIDE DEF a
<1>4. AgentAgrees' /\ ShelfAgrees' /\ Onward
  BY <1>1, <1>2, <1>3, CompressedChain
<1>5. ~plan.on
  BY <1>1, ReadyHasNoPlan
<1>6. CheckpointAgrees'
  BY <1>1, <1>4, <1>5, CheckpointLeft DEF Chain
<1>7. RequestAgrees'
  BY <1>1 DEF RequestAgrees
<1>8. QED BY <1>4, <1>6, <1>7 DEF Chain

LEMMA RetryCompressedChain ==
  ASSUME RcTypes, Investigation, Chain, RetryCompressed PROVE Chain'
<1> DEFINE again == [n |-> turn.input, kind |-> "plain", turn |-> 0]
<1>1. said \in Nat /\ said' = said + 1 /\ prompted \in Nat /\ prompted' = prompted
      /\ Len(server) \in Nat /\ server' = server /\ stage = "wait" /\ stage' = "ask"
      /\ current' = current /\ replanned' = replanned
      /\ plan' = plan /\ ~plan.on /\ unsettled' = unsettled \cup {turn.input}
      /\ agent' = Noted(Rewritten(Summarised(agent, Split)), <<again>>)
      /\ shelf' = Shelved(Rewritten(Summarised(agent, Split)), runtime)
  BY DEF RcTypes, NumbersOK, StateOK, RetryCompressed, Speak, setting
<1>2. PICK M, k : Under(M, k)
  BY <1>1, Grown
<1>3. Summary \in M /\ agent \in AgentsOf(M, k) /\ k \in Nat
      /\ Split \in 0 .. Len(agent.convo) /\ runtime \in Runtimes
  BY <1>1, <1>2, SplitIs, SummaryMessage DEF Under, RcTypes, SettingOK
<1>4. PICK a : a = Summarised(agent, Split) /\ a \in AgentsOf(M, k)
  BY <1>3, SummarisedIs
<1>5. a \in AgentsOf(M, k) /\ k \in Nat
  BY <1>3, <1>4
<1>6. PICK b : b = Rewritten(a) /\ b \in AgentsOf(M, k)
  BY <1>5, RewrittenIs
<1>7. again \in M /\ again.n = turn.input
  <2>1. turn.input \in 1 .. said
    BY <1>1 DEF RcTypes, StateOK, TurnsOf, TurnPlace, InTurn
  <2>2. QED BY <1>1, <1>2, <2>1 DEF Under, Messages
<1> HIDE DEF again
<1>8. PICK T, Q : T = Slack' /\ Q = Pending'
  OBVIOUS
<1>9. FineAgent(b, server', replanned', unsettled', T, Q)
  <2>1. FineAgent(Rewritten(a), server', replanned', unsettled', T, Q)
    BY <1>5, FineRewritten
  <2>2. QED BY <1>6, <2>1
<1>10. FineAgent(agent', server', replanned', unsettled', T, Q)
  <2>1. Numbers(<<again>>) \subseteq unsettled' /\ <<again>> \in Seq(M)
    BY <1>1, <1>7, NumbersOne
  <2>2. b \in AgentsOf(M, k) /\ agent' = Noted(b, <<again>>)
    BY <1>1, <1>4, <1>6
  <2>3. FineAgent(Noted(b, <<again>>), server', replanned', unsettled', T, Q)
    BY <1>5, <1>9, <2>1, <2>2, FineNoted
  <2>4. QED BY <2>2, <2>3
<1>11. AgentAgrees'
  BY <1>8, <1>10 DEF AgentAgrees
<1>12. Onward
  BY <1>1, OnwardIs
<1>13. ShelfAgrees'
  <2>1. b \in AgentsOf(M, k) /\ shelf' = Shelved(b, runtime)
        /\ FineAgent(b, server', replanned', unsettled', Slack', Q)
    BY <1>1, <1>4, <1>6, <1>8, <1>9
  <2>2. QED BY <1>1, <1>2, <1>3, <1>12, <2>1, ShelfWritten DEF Chain
<1>14. CheckpointAgrees'
  BY <1>1, <1>12, CheckpointLeft DEF Chain
<1>15. RequestAgrees'
  BY <1>1 DEF RequestAgrees
<1>16. QED BY <1>11, <1>13, <1>14, <1>15 DEF Chain

-----------------------------------------------------------------------------
(* Plan mode comes back, a turn is cut off, another session. *)
LEMMA NothingToDoChain ==
  ASSUME RcTypes, Chain, NothingToDo PROVE Chain'
<1>1. /\ stage = "review" /\ stage' = "ready" /\ plan' = NoPlan
      /\ agent' = agent /\ shelf' = shelf /\ server' = server /\ said' = said
      /\ current' = current /\ unsettled' = unsettled /\ replanned' = replanned
  BY DEF NothingToDo, PlanLeaves, setting, facts
<1>2. Slack = {} /\ Pending = {} /\ Slack' = {} /\ Pending' = {}
  BY <1>1 DEF Slack, Pending, InTurn
<1>3. AgentAgrees' /\ ShelfAgrees'
  BY <1>1, <1>2 DEF Chain, AgentAgrees, ShelfAgrees
<1>4. CheckpointAgrees' /\ RequestAgrees'
  BY <1>1, NoCheckpoint DEF RequestAgrees
<1>5. QED BY <1>3, <1>4 DEF Chain

(* The part of the history and of the session before the investigation,    *)
(* and the context that was continued then.                                *)
LEMMA CutNumbers ==
  ASSUME NEW M, NEW s \in Seq(M), NEW k \in 0 .. Len(s)
  PROVE  Numbers(SubSeq(s, 1, k)) = Front(s, k)
<1>1. DOMAIN SubSeq(s, 1, k) = 1 .. k /\ \A i \in 1 .. k : SubSeq(s, 1, k)[i] = s[i]
  OBVIOUS
<1>2. QED BY <1>1 DEF Numbers, Front

LEMMA FineRestored ==
  ASSUME RcTypes, Investigation, Chain, plan.on
  PROVE  FineAgent(Restored(agent), server, replanned, unsettled, {}, {})
<1>1. agent \in AgentsOf(Messages, Len(server)) /\ plan \in PlansOf(Len(server)) /\ Len(server) \in Nat
      /\ agent.convo \in Seq(Messages) /\ agent.logged \in Seq(Messages)
      /\ plan.length \in Nat /\ plan.entries \in Nat
  BY DEF RcTypes, StateOK, AgentsOf, PlansOf
<1>2. PICK b : /\ b = Restored(agent)
               /\ plan.length <= Len(agent.convo) => b.convo = SubSeq(agent.convo, 1, plan.length)
               /\ plan.entries <= Len(agent.logged) => b.logged = SubSeq(agent.logged, 1, plan.entries)
               /\ b.cached = plan.context.id /\ b.snapshot = plan.context
               /\ b.saved \in {plan.context, NoContext}
  BY <1>1, RestoredIs
<1>3. Truthful(b.saved, server) /\ Truthful(b.snapshot, server)
  BY <1>2, TrueNothing DEF Chain, CheckpointAgrees
<1>4. ASSUME replanned = FALSE PROVE Good(b, server, unsettled, {}, {})
  <2>1. plan.length <= Len(agent.convo) /\ plan.entries <= Len(agent.logged)
    BY <1>4 DEF Investigation, CheckpointOK
  <2>2. plan.length \in 0 .. Len(agent.convo) /\ plan.entries \in 0 .. Len(agent.logged)
    BY <1>1, <2>1
  <2>3. Numbers(b.convo) = Front(agent.convo, plan.length)
        /\ Numbers(b.logged) = Front(agent.logged, plan.entries)
    BY <1>1, <1>2, <2>1, <2>2, CutNumbers
  <2>4. /\ Agree(Front(agent.convo, plan.length), Front(agent.logged, plan.entries), unsettled)
        /\ plan.context.id # 0 =>
             Agree(server[plan.context.id].seen, Front(agent.convo, plan.length), unsettled)
    BY <1>4 DEF Chain, CheckpointAgrees
  <2>5. Agree(Numbers(b.convo), Numbers(b.logged), unsettled)
    BY <2>3, <2>4
  <2>6. b.cached # 0 => /\ server[b.cached].seen \ Numbers(b.convo) \subseteq unsettled
                        /\ Numbers(b.convo) \ server[b.cached].seen \subseteq unsettled \cup {}
    BY <1>2, <2>3, <2>4 DEF Agree
  <2>7. ASSUME b.saved.id # 0
        PROVE  Agree(server[b.saved.id].seen, Numbers(b.logged), unsettled \cup {})
    <3>1. b.saved = plan.context
      BY <1>1, <1>2, <2>7, NothingYet
    <3>2. QED BY <2>3, <2>4, <2>7, <3>1 DEF Agree
  <2>8. QED BY <2>5, <2>6, <2>7 DEF Good
<1>5. FineAgent(b, server, replanned, unsettled, {}, {})
  BY <1>3, <1>4 DEF FineAgent
<1>6. QED BY <1>2, <1>5

LEMMA ApproveChain ==
  ASSUME RcTypes, Investigation, Chain, Approve PROVE Chain'
<1>1. /\ stage = "review" /\ stage' = "handoff" /\ plan' = NoPlan /\ plan.on
      /\ server' = server /\ said' = said /\ said \in Nat /\ prompted' = prompted /\ prompted \in Nat
      /\ current' = current /\ unsettled' = unsettled /\ replanned' = replanned
      /\ Len(server) \in Nat /\ Persist(Cleared(Restored(agent)))
  BY DEF Approve, PlanLeaves, setting, facts, RcTypes, PlanPlace, StateOK, NumbersOK
<1>2. PICK M, k : Under(M, k)
  BY <1>1, Grown
<1>3. k \in Nat /\ agent \in AgentsOf(M, k) /\ plan \in PlansOf(k)
  BY <1>2 DEF Under
<1>4. PICK a : a = Restored(agent) /\ a \in AgentsOf(M, k)
               /\ FineAgent(a, server, replanned, unsettled, {}, {})
  <2>1. Restored(agent) \in AgentsOf(M, k)
    BY <1>3, RestoredIs
  <2>2. QED BY <1>1, <2>1, FineRestored
<1>5. a \in AgentsOf(M, k) /\ FineAgent(a, server, replanned, unsettled, {}, {})
  BY <1>4
<1>6. PICK b : b = Cleared(a) /\ b \in AgentsOf(M, k)
               /\ FineAgent(b, server, replanned, unsettled, {}, {})
  <2>1. Cleared(a) \in AgentsOf(M, k)
    BY <1>3, <1>5, ClearedIs
  <2>2. FineAgent(Cleared(a), server, replanned, unsettled, {}, {})
    BY <1>3, <1>5, FineCleared
  <2>3. QED BY <2>1, <2>2
<1>7. b \in AgentsOf(M, k) /\ Persist(b) /\ FineAgent(b, server', replanned', unsettled', {}, {}) /\ Onward
  BY <1>1, <1>4, <1>6, OnwardIs
<1>8. AgentAgrees' /\ ShelfAgrees'
  BY <1>1, <1>2, <1>7, PersistChain
<1>9. CheckpointAgrees' /\ RequestAgrees'
  BY <1>1, NoCheckpoint DEF RequestAgrees
<1>10. QED BY <1>8, <1>9 DEF Chain

(* The session and the shelf are set as they are, without a look at the    *)
(* provider.                                                               *)
LEMMA ShelvedChain ==
  ASSUME RcTypes, Chain, Onward, NEW M, NEW k, Under(M, k), agent' \in AgentsOf(M, k),
         NEW r \in Runtimes, shelf' = Shelved(agent', r), current' = current,
         FineAgent(agent', server', replanned', unsettled', {}, {})
  PROVE  AgentAgrees' /\ ShelfAgrees'
<1>1. FineAgent(agent', server', replanned', unsettled', Slack', Pending')
  <2>1. PICK U, T, Q : U = unsettled' /\ T = Slack' /\ Q = Pending'
    OBVIOUS
  <2>2. Within({}, U, T) /\ Within({}, U, Q) /\ U \subseteq U
    BY DEF Within
  <2>3. FineAgent(agent', server', replanned', U, {}, {})
    BY <2>1
  <2>4. FineAgent(agent', server', replanned', U, T, Q)
    BY <2>2, <2>3, FineWider
  <2>5. QED BY <2>1, <2>4
<1>2. ShelfAgrees'
  BY <1>1, ShelfWritten DEF Chain
<1>3. QED BY <1>1, <1>2 DEF AgentAgrees

LEMMA RestoreChain ==
  ASSUME RcTypes, Investigation, Chain, plan.on, NEW next, RestoreAnd(next), next # "wait",
         server' = server, said' = said, prompted' = prompted, current' = current,
         unsettled' = unsettled, replanned' = replanned
  PROVE  Chain'
<1>1. said \in Nat /\ prompted \in Nat /\ Len(server) \in Nat /\ runtime \in Runtimes
  BY DEF RcTypes, StateOK, NumbersOK, SettingOK
<1>2. PICK M, k : Under(M, k)
  BY <1>1, Grown
<1>3. agent' = Restored(agent) /\ shelf' = Shelved(agent', runtime) /\ stage' = next /\ plan' = NoPlan
  BY DEF RestoreAnd
<1>4. agent' \in AgentsOf(M, k)
  <2>1. k \in Nat /\ agent \in AgentsOf(M, k) /\ plan \in PlansOf(k)
    BY <1>2 DEF Under
  <2>2. QED BY <1>3, <2>1, RestoredIs
<1>5. FineAgent(agent', server', replanned', unsettled', {}, {})
  BY <1>3, FineRestored
<1>6. AgentAgrees' /\ ShelfAgrees'
  BY <1>1, <1>2, <1>3, <1>4, <1>5, OnwardIs, ShelvedChain
<1>7. CheckpointAgrees' /\ RequestAgrees'
  BY <1>3, NoCheckpoint DEF RequestAgrees
<1>8. QED BY <1>6, <1>7 DEF Chain

LEMMA DeclineChain ==
  ASSUME RcTypes, Investigation, Chain, Decline PROVE Chain'
<1>1. RestoreAnd("ready") /\ plan.on
      /\ server' = server /\ said' = said /\ prompted' = prompted /\ current' = current
      /\ unsettled' = unsettled /\ replanned' = replanned
  BY DEF Decline, PlanLeaves, setting, facts, RcTypes, PlanPlace
<1>2. QED BY <1>1, RestoreChain

LEMMA FeedbackChain ==
  ASSUME RcTypes, Investigation, Chain, Feedback PROVE Chain'
<1>1. RestoreAnd("rerun") /\ plan.on
      /\ server' = server /\ said' = said /\ prompted' = prompted /\ current' = current
      /\ unsettled' = unsettled /\ replanned' = replanned
  BY DEF Feedback, PlanLeaves, setting, facts, RcTypes, PlanPlace
<1>2. QED BY <1>1, RestoreChain

(* From here on only the truth of the contexts matters. *)
LEMMA RetryPlanChain ==
  ASSUME RcTypes, Chain, RetryPlan PROVE Chain'
<1>1. said \in Nat /\ said' = said + 1 /\ prompted \in Nat /\ prompted' = prompted
      /\ Len(server) \in Nat /\ server' = server /\ stage' = "rerun"
      /\ current' = current /\ unsettled' = unsettled /\ replanned' = TRUE /\ plan' = NoPlan
      /\ agent' = Restored(Summarised(agent, Split)) /\ shelf' = Shelved(agent', runtime)
      /\ runtime \in Runtimes
  BY DEF RcTypes, NumbersOK, SettingOK, StateOK, RetryPlan, Speak, setting
<1>2. PICK M, k : Under(M, k)
  BY <1>1, Grown
<1>3. Summary \in M /\ agent \in AgentsOf(M, k) /\ k \in Nat /\ plan \in PlansOf(k)
      /\ Split \in 0 .. Len(agent.convo)
  BY <1>1, <1>2, SplitIs, SummaryMessage DEF Under
<1>4. PICK a : a = Summarised(agent, Split) /\ a \in AgentsOf(M, k)
  BY <1>3, SummarisedIs
<1>5. a \in AgentsOf(M, k) /\ agent' = Restored(a)
  BY <1>1, <1>4
<1>6. agent' \in AgentsOf(M, k) /\ agent'.snapshot = plan.context
      /\ agent'.saved \in {plan.context, NoContext}
  BY <1>3, <1>5, RestoredIs
<1>7. FineAgent(agent', server', replanned', unsettled', {}, {})
  BY <1>1, <1>6, TrueNothing DEF FineAgent, Chain, CheckpointAgrees
<1>8. AgentAgrees' /\ ShelfAgrees'
  BY <1>1, <1>2, <1>6, <1>7, OnwardIs, ShelvedChain
<1>9. CheckpointAgrees' /\ RequestAgrees'
  BY <1>1, NoCheckpoint DEF RequestAgrees
<1>10. QED BY <1>8, <1>9 DEF Chain

LEMMA FailTurnChain ==
  ASSUME RcTypes, Investigation, Chain, FailTurn PROVE Chain'
<1>1. server' = server /\ said' = said /\ prompted' = prompted /\ current' = current
      /\ replanned' = replanned
  BY DEF FailTurn, setting
<1>2. CASE plan.on
  <2>1. RestoreAnd("ready") /\ unsettled' = unsettled
    BY <1>2 DEF FailTurn
  <2>2. QED BY <1>1, <1>2, <2>1, RestoreChain
<1>3. CASE ~plan.on
  <2>1. agent' = agent /\ shelf' = shelf /\ plan' = plan /\ stage' = "ready"
        /\ unsettled' = unsettled \cup OfTurn
    BY <1>3 DEF FailTurn
  <2>2. Slack \subseteq OfTurn /\ Pending \subseteq OfTurn
    BY DEF Slack, Pending
  <2>3. AgentAgrees'
    <3>1. PICK S, P, T, Q : S = Slack /\ P = Pending /\ T = Slack' /\ Q = Pending'
      OBVIOUS
    <3>2. unsettled \subseteq unsettled' /\ Within(S, unsettled', T) /\ Within(P, unsettled', Q)
      BY <2>1, <2>2, <3>1 DEF Within
    <3>3. FineAgent(agent, server, replanned, unsettled, S, P)
      BY <3>1 DEF Chain, AgentAgrees
    <3>4. FineAgent(agent, server, replanned, unsettled', T, Q)
      BY <3>2, <3>3, FineWider
    <3>5. QED BY <1>1, <2>1, <3>1, <3>4 DEF AgentAgrees
  <2>4. Onward
    BY <1>1, <2>1, OnwardIs
  <2>5. ShelfAgrees'
    <3>1. Slack \subseteq unsettled' \cup Slack'
      BY <2>1, <2>2
    <3>2. QED BY <1>1, <2>1, <2>4, <3>1, ShelfLeft DEF Chain
  <2>6. CheckpointAgrees'
    BY <1>3, <2>1, <2>4, CheckpointLeft DEF Chain
  <2>7. RequestAgrees'
    BY <2>1 DEF RequestAgrees
  <2>8. QED BY <2>3, <2>5, <2>6, <2>7 DEF Chain
<1>4. QED BY <1>2, <1>3

(* A session that is fine and is resumed. *)
LEMMA FineResumed ==
  ASSUME NEW M, NEW k \in Nat, NEW c \in ChatsOf(M, k),
         NEW sv, NEW x, NEW U, FineChat(c, sv, x, U, {})
  PROVE  FineAgent(ResumedFrom(c), sv, x, U, {}, {})
<1>1. PICK b : /\ b = ResumedFrom(c)
               /\ b.convo = c.logged /\ b.logged = c.logged
               /\ b.saved \in {c.saved, NoContext} /\ b.snapshot \in {c.saved, NoContext}
               /\ b.cached \in {0, c.saved.id}
  BY ResumedFromIs
<1>2. Truthful(b.saved, sv) /\ Truthful(b.snapshot, sv)
  BY <1>1, TrueNothing DEF FineChat
<1>3. ASSUME x = FALSE PROVE Good(b, sv, U, {}, {})
  <2>1. c.saved.id # 0 => Agree(sv[c.saved.id].seen, Numbers(c.logged), U \cup {})
    BY <1>3 DEF FineChat
  <2>2. b.saved.id # 0 => b.saved = c.saved
    BY <1>1, NothingYet
  <2>3. QED BY <1>1, <2>1, <2>2 DEF Good, Agree
<1>4. FineAgent(b, sv, x, U, {}, {})
  BY <1>2, <1>3 DEF FineAgent
<1>5. QED BY <1>1, <1>4

LEMMA RestartChain ==
  ASSUME RcTypes, Chain, Restart PROVE Chain'
<1>1. /\ server' = server /\ current' = current /\ replanned' = replanned /\ plan' = NoPlan
      /\ stage' = "ready" /\ shelf' = shelf /\ agent' = ResumedFrom(shelf[current])
      /\ unsettled' = unsettled \cup (IF stage = "ready" THEN {} ELSE OfTurn)
  BY DEF Restart
<1>2. Slack \subseteq unsettled' /\ Slack' = {} /\ Pending' = {}
  BY <1>1 DEF Slack, Pending, InTurn
<1>3. Onward
  BY <1>1, OnwardIs
<1>4. ShelfAgrees'
  BY <1>1, <1>2, <1>3, ShelfLeft DEF Chain
<1>5. AgentAgrees'
  <2>1. current \in Chats /\ Len(server) \in Nat /\ shelf[current] \in ChatsOf(Messages, Len(server))
    BY DEF RcTypes, StateOK, SettingOK, ShelvesOf
  <2>2. FineChat(shelf[current], server', replanned', unsettled', {})
    BY <1>1, <1>2, <1>4, <2>1 DEF ShelfAgrees
  <2>3. FineAgent(ResumedFrom(shelf[current]), server', replanned', unsettled', {}, {})
    BY <2>1, <2>2, FineResumed
  <2>4. QED BY <1>1, <1>2, <2>3 DEF AgentAgrees
<1>6. CheckpointAgrees' /\ RequestAgrees'
  BY <1>1, NoCheckpoint DEF RequestAgrees
<1>7. QED BY <1>4, <1>5, <1>6 DEF Chain

(* Between two turns nothing is pending, and what is saved of the session  *)
(* that is left is as good as the agent.                                   *)
LEMMA ReadyIsFine ==
  ASSUME RcTypes, Chain, stage = "ready"
  PROVE  /\ Slack = {} /\ Pending = {} /\ ~plan.on
         /\ FineAgent(agent, server, replanned, unsettled, {}, {})
         /\ FineAgent(Synced(agent), server, replanned, unsettled, {}, {})
         /\ \A c \in Chats : /\ FineChat(shelf[c], server, replanned, unsettled, {})
                             /\ FineChat(Shelved(Synced(agent), runtime)[c], server, replanned, unsettled, {})
<1>1. Slack = {} /\ Pending = {} /\ ~plan.on
  BY ReadyHasNoPlan DEF Slack, Pending, InTurn
<1>2. FineAgent(agent, server, replanned, unsettled, {}, {})
      /\ \A c \in Chats : FineChat(shelf[c], server, replanned, unsettled, {})
  BY <1>1 DEF Chain, AgentAgrees, ShelfAgrees
<1>3. PICK M, k : /\ k \in Nat /\ agent \in AgentsOf(M, k) /\ shelf \in ShelvesOf(M, k)
                  /\ current \in Chats /\ runtime \in Runtimes
  BY DEF RcTypes, StateOK, SettingOK
<1>4. PICK b : b = Synced(agent) /\ b \in AgentsOf(M, k) /\ FineAgent(b, server, replanned, unsettled, {}, {})
  <2>1. Within({}, unsettled, {})
    BY DEF Within
  <2>2. FineAgent(Synced(agent), server, replanned, unsettled, {}, {})
    BY <1>2, <1>3, <2>1, FineSynced
  <2>3. Synced(agent) \in AgentsOf(M, k)
    BY <1>3, SyncedIs
  <2>4. QED BY <2>2, <2>3
<1>5. b \in AgentsOf(M, k) /\ FineAgent(b, server, replanned, unsettled, {}, {})
  BY <1>4
<1>6. /\ Shelved(b, runtime)[current] = [used |-> TRUE, logged |-> b.logged, saved |-> b.saved, runtime |-> runtime]
      /\ \A c \in Chats \ {current} : Shelved(b, runtime)[c] = shelf[c]
  BY <1>3, <1>5, ShelvedIs
<1>7. FineChat(Shelved(b, runtime)[current], server, replanned, unsettled, {})
  BY <1>5, <1>6, ChatOf
<1>8. \A c \in Chats : FineChat(Shelved(b, runtime)[c], server, replanned, unsettled, {})
  BY <1>2, <1>6, <1>7
<1>9. QED BY <1>1, <1>2, <1>4, <1>8

LEMMA CommandedChain ==
  ASSUME RcTypes, Chain, Commanded, stage = "ready",
         FineAgent(agent', server, replanned, unsettled, {}, {}),
         \A c \in Chats : FineChat(shelf'[c], server, replanned, unsettled, {})
  PROVE  Chain'
<1>1. UNCHANGED <<stage, request, plan, server, prompted, said, unsettled, replanned>>
  BY DEF Commanded
<1>2. Slack' = {} /\ Pending' = {} /\ ~plan.on
  BY <1>1, ReadyIsFine DEF Slack, Pending, InTurn
<1>3. AgentAgrees'
  BY <1>1, <1>2 DEF AgentAgrees
<1>4. ShelfAgrees'
  BY <1>1, <1>2 DEF ShelfAgrees
<1>5. CheckpointAgrees'
  BY <1>1, <1>2 DEF Chain, CheckpointAgrees
<1>6. RequestAgrees'
  BY <1>1 DEF RequestAgrees
<1>7. QED BY <1>3, <1>4, <1>5, <1>6 DEF Chain

LEMMA StartNewSessionChain ==
  ASSUME RcTypes, Chain, StartNewSession PROVE Chain'
<1>1. PICK c \in Chats : shelf' = [Shelved(Synced(agent), runtime) EXCEPT ![c] = NewChat]
  BY DEF StartNewSession
<1>2. stage = "ready" /\ agent' = Fresh /\ Commanded
  BY DEF StartNewSession
<1>3. Shelved(Synced(agent), runtime) \in ShelvesOf(Messages, Len(server))
  BY SyncedAndShelved
<1>4. FineAgent(agent', server, replanned, unsettled, {}, {})
  <2>1. /\ agent'.cached = 0 /\ agent'.saved = NoContext /\ agent'.snapshot = NoContext
        /\ agent'.convo = agent'.logged
    BY <1>2 DEF Fresh
  <2>2. replanned = FALSE => Agree(Numbers(agent'.convo), Numbers(agent'.logged), unsettled)
    BY <2>1 DEF Agree
  <2>3. QED BY <2>1, <2>2, FineAlone
<1>5. FineChat(NewChat, server, replanned, unsettled, {})
  <2>1. NewChat.saved = NoContext
    BY DEF NewChat
  <2>2. NoContext.id = 0
    BY DEF NoContext
  <2>3. QED BY <2>1, <2>2, TrueNothing DEF FineChat
<1>6. ASSUME NEW d \in Chats PROVE FineChat(shelf'[d], server, replanned, unsettled, {})
  <2>1. FineChat(Shelved(Synced(agent), runtime)[d], server, replanned, unsettled, {})
    BY <1>2, ReadyIsFine
  <2>2. shelf'[d] = IF d = c THEN NewChat ELSE Shelved(Synced(agent), runtime)[d]
    BY <1>1, <1>3 DEF ShelvesOf
  <2>3. QED BY <1>5, <2>1, <2>2
<1>7. QED BY <1>2, <1>4, <1>6, CommandedChain

LEMMA ResumeSessionChain ==
  ASSUME RcTypes, Chain, ResumeSession PROVE Chain'
<1>1. PICK c \in Chats \ {current} : agent' = ResumedFrom(shelf[c])
  BY DEF ResumeSession
<1>2. stage = "ready" /\ Commanded /\ shelf' = Shelved(Synced(agent), runtime)
  BY DEF ResumeSession
<1>3. FineAgent(agent', server, replanned, unsettled, {}, {})
  <2>1. shelf[c] \in ChatsOf(Messages, Len(server)) /\ Len(server) \in Nat
    BY DEF RcTypes, StateOK, ShelvesOf
  <2>2. FineChat(shelf[c], server, replanned, unsettled, {})
    BY <1>2, ReadyIsFine
  <2>3. FineAgent(ResumedFrom(shelf[c]), server, replanned, unsettled, {}, {})
    BY <2>1, <2>2, FineResumed
  <2>4. QED BY <1>1, <2>3
<1>4. \A d \in Chats : FineChat(shelf'[d], server, replanned, unsettled, {})
  BY <1>2, ReadyIsFine
<1>5. QED BY <1>2, <1>3, <1>4, CommandedChain

LEMMA SwitchRuntimeChain ==
  ASSUME RcTypes, Chain, SwitchRuntime PROVE Chain'
<1>1. PICK r \in Runtimes : agent' = Cleared(agent) /\ shelf' = Shelved(agent', r)
  BY DEF SwitchRuntime
<1>2. stage = "ready" /\ Commanded
  BY DEF SwitchRuntime
<1>3. PICK M, k : /\ k \in Nat /\ agent \in AgentsOf(M, k) /\ shelf \in ShelvesOf(M, k)
                  /\ current \in Chats
  BY DEF RcTypes, StateOK, SettingOK
<1>4. FineAgent(agent', server, replanned, unsettled, {}, {}) /\ agent' \in AgentsOf(M, k)
  <2>1. FineAgent(agent, server, replanned, unsettled, {}, {})
    BY <1>2, ReadyIsFine
  <2>2. FineAgent(Cleared(agent), server, replanned, unsettled, {}, {})
    BY <1>3, <2>1, FineCleared
  <2>3. Cleared(agent) \in AgentsOf(M, k)
    BY <1>3, ClearedIs
  <2>4. QED BY <1>1, <2>2, <2>3
<1>5. ASSUME NEW d \in Chats PROVE FineChat(shelf'[d], server, replanned, unsettled, {})
  <2>1. /\ shelf'[current] = [used |-> TRUE, logged |-> agent'.logged, saved |-> agent'.saved, runtime |-> r]
        /\ \A c \in Chats \ {current} : shelf'[c] = shelf[c]
    BY <1>1, <1>3, <1>4, ShelvedIs
  <2>2. FineChat(shelf'[current], server, replanned, unsettled, {})
    BY <1>4, <2>1, ChatOf
  <2>3. FineChat(shelf[d], server, replanned, unsettled, {})
    BY <1>2, ReadyIsFine
  <2>4. QED BY <2>1, <2>2, <2>3
<1>6. QED BY <1>2, <1>4, <1>5, CommandedChain

LEMMA ChainInit == RcInit => Chain
<1> SUFFICES ASSUME RcInit PROVE Chain
  OBVIOUS
<1>1. /\ agent = Fresh /\ plan = NoPlan /\ stage = "ready" /\ server = <<>>
      /\ shelf = [c \in Chats |-> IF c = current THEN NewChat ELSE NoChat]
  BY DEF RcInit
<1>2. NoContext.id = 0
  BY DEF NoContext
<1>3. /\ agent.cached = 0 /\ agent.saved = NoContext /\ agent.snapshot = NoContext
      /\ Agree(Numbers(agent.convo), Numbers(agent.logged), unsettled)
  BY <1>1 DEF Fresh, Agree
<1>4. AgentAgrees
  BY <1>3, FineAlone DEF AgentAgrees
<1>5. ASSUME NEW c \in Chats
      PROVE  FineChat(shelf[c], server, replanned, unsettled, IF c = current THEN Slack ELSE {})
  <2>1. shelf[c].saved = NoContext
    BY <1>1 DEF NewChat, NoChat
  <2>2. QED BY <1>2, <2>1, TrueNothing DEF FineChat
<1>6. CheckpointAgrees
  BY <1>1, TrueNothing DEF CheckpointAgrees, NoPlan
<1>7. RequestAgrees
  BY <1>1 DEF RequestAgrees
<1>8. QED BY <1>4, <1>5, <1>6, <1>7 DEF Chain, ShelfAgrees

LEMMA ChainStep ==
  RcTypes /\ RcTypes' /\ Investigation /\ Chain /\ [RcNext]_rcVars => Chain'
<1> SUFFICES ASSUME RcTypes, RcTypes', Investigation, Chain, [RcNext]_rcVars
             PROVE  Chain'
  OBVIOUS
<1>1. CASE RcNext
  BY <1>1, PromptChain, PlanPromptChain, RerunChain, HandoffChain, AskChain, RefuseChain,
     AnswerChain, AnswerSentBackChain, AnswerUnrecordedChain, AnswerWithCallChain,
     ReplyChain, ReplyInHistoryChain, ContinueChain, CompressInTurnChain, CompressNowChain,
     CompactChain, RetryCompressedChain, NothingToDoChain, ApproveChain, DeclineChain,
     FeedbackChain, RetryPlanChain, FailTurnChain, RestartChain, StartNewSessionChain,
     ResumeSessionChain, SwitchRuntimeChain DEF RcNext
<1>2. CASE UNCHANGED rcVars
  BY <1>2 DEF rcVars, setting, counts, facts, Chain, AgentAgrees, ShelfAgrees, CheckpointAgrees,
     RequestAgrees, Slack, Pending, InTurn, OfTurn
<1>3. QED BY <1>1, <1>2

LEMMA ChainInvariant == RcSpec => []Chain
<1>1. QED BY ChainInit, ChainStep, RcTypesInvariant, InvestigationInvariant, PTL DEF RcSpec

(* The chain of responses: a request that continues one, and is accepted,  *)
(* continues what this runtime and this system prompt were given, with     *)
(* nothing that was taken back since and nothing of the history missing    *)
(* (prepareResponseContextForPrompt, BuildChatRequest and every place that *)
(* clears or restores the saved response context).                         *)
THEOREM ChainAgrees == RcSpec => []ChainIsHistory
<1>1. Chain => ChainIsHistory
  <2> SUFFICES ASSUME Chain, stage = "wait", request.prev # 0, ~replanned
      PROVE  /\ server[request.prev].runtime = runtime /\ server[request.prev].prompt = request.prompt
             /\ server[request.prev].seen \ Numbers(agent.convo) \subseteq unsettled
             /\ Numbers(agent.convo) \ (server[request.prev].seen \cup request.input) \subseteq unsettled
    BY DEF ChainIsHistory, Continues
  <2>1. /\ request.prev = agent.cached
        /\ agent.convo[Len(agent.convo)].n \in request.input
        /\ server[request.prev].runtime = runtime /\ server[request.prev].prompt = request.prompt
    BY DEF Chain, RequestAgrees
  <2>2. /\ server[agent.cached].seen \ Numbers(agent.convo) \subseteq unsettled
        /\ Numbers(agent.convo) \ server[agent.cached].seen \subseteq unsettled \cup Pending
    BY <2>1 DEF Chain, AgentAgrees, FineAgent, Good
  <2>3. Pending \subseteq {agent.convo[Len(agent.convo)].n}
    BY DEF Pending
  <2>4. QED BY <2>1, <2>2, <2>3
<1>2. QED BY <1>1, ChainInvariant, PTL
=============================================================================
