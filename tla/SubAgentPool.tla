---------------------------- MODULE SubAgentPool ----------------------------
(***************************************************************************)
(* What the sub-agent manager promises its callers, without locks,         *)
(* channels or goroutines: at most Limit sub-agents occupy a slot, each    *)
(* settles once with one outcome or is withdrawn before it ever ran, and   *)
(* a caller that asks is told only outcomes that are settled.              *)
(***************************************************************************)
EXTENDS Naturals, FiniteSets

CONSTANTS Agents, Askers, Limit

VARIABLES
  state,  \* unused, running, withdrawn, or the settled outcome
  told    \* what each asker has been told since it last asked

Outcome == {"completed", "error"}

Init ==
  /\ state = [a \in Agents |-> "unused"]
  /\ told = [q \in Askers |-> {}]

Start(a) ==
  /\ state[a] = "unused"
  /\ Cardinality({b \in Agents : state[b] = "running"}) < Limit
  /\ state' = [state EXCEPT ![a] = "running"]
  /\ UNCHANGED told

Withdraw(a) ==
  /\ state[a] = "running"
  /\ state' = [state EXCEPT ![a] = "withdrawn"]
  /\ UNCHANGED told

Settle(a) ==
  /\ state[a] = "running"
  /\ \E o \in Outcome : state' = [state EXCEPT ![a] = o]
  /\ UNCHANGED told

Ask(q) ==
  /\ told' = [told EXCEPT ![q] = {}]
  /\ UNCHANGED state

Tell(q, a) ==
  /\ state[a] \in Outcome
  /\ told' = [told EXCEPT ![q] = @ \cup {<<a, state[a]>>}]
  /\ UNCHANGED state

Next ==
  \/ \E a \in Agents : Start(a) \/ Withdraw(a) \/ Settle(a)
  \/ \E q \in Askers : Ask(q) \/ \E a \in Agents : Tell(q, a)

Spec == Init /\ [][Next]_<<state, told>>
=============================================================================
