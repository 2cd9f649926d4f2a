----------------------------- MODULE SyncPromise -----------------------------
(***************************************************************************)
(* What POST /sync promises to the devices of a user, without the op log's *)
(* rows, compactions and clocks: the ops that a request brings are stored  *)
(* all together or not at all (InsertOps is one transaction), for good,    *)
(* and before it is answered; an answer brings ops that are stored by      *)
(* then, and there is one answer for a request.  Of a request that is      *)
(* refused nobody knows whether its ops are stored.                        *)
(***************************************************************************)
CONSTANTS
  Reqs,         \* requests
  OpIDs         \* op_id, by which the log tells ops apart

VARIABLES
  stored,       \* the ops stored
  sent,         \* sent[p]: the ops that request p brings
  answer        \* answer[p]: what became of request p

vars == <<stored, sent, answer>>

NoAnswer == [kind |-> "none", ops |-> {}]

Refused == [kind |-> "refused", ops |-> {}]

Given(ops) == [kind |-> "given", ops |-> ops]

Init ==
  /\ stored = {}
  /\ sent \in [Reqs -> SUBSET OpIDs]
  /\ answer = [p \in Reqs |-> NoAnswer]

\* The ops of a request are stored, in one step.
Push(p) ==
  /\ answer[p] = NoAnswer
  /\ stored' = stored \cup sent[p]
  /\ UNCHANGED <<sent, answer>>

\* The response of Engine.Sync, with the delta and the snapshot in it.
Answer(p) ==
  /\ answer[p] = NoAnswer
  /\ sent[p] \subseteq stored
  /\ \E ops \in SUBSET stored : answer' = [answer EXCEPT ![p] = Given(ops)]
  /\ UNCHANGED <<stored, sent>>

\* The error of Engine.Sync.
Refuse(p) ==
  /\ answer[p] = NoAnswer
  /\ answer' = [answer EXCEPT ![p] = Refused]
  /\ UNCHANGED <<stored, sent>>

Next == \E p \in Reqs : Push(p) \/ Answer(p) \/ Refuse(p)

Spec == Init /\ [][Next]_vars
=============================================================================
