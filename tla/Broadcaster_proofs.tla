------------------------- MODULE Broadcaster_proofs -------------------------
(***************************************************************************)
(* No wake-up is lost, for any number of connections and requests.         *)
(***************************************************************************)
EXTENDS Broadcaster, TLAPS

\* Every step keeps the types of the channels, handlers and requests.
LEMMA TypeStep == TypeOK /\ [Next]_vars => TypeOK'
<1> SUFFICES ASSUME TypeOK, [Next]_vars PROVE TypeOK'
  OBVIOUS
<1> USE DEF TypeOK
<1>1. ASSUME NEW c \in Conns, FlushHeaders(c) PROVE TypeOK'
  BY <1>1 DEF FlushHeaders
<1>2. ASSUME NEW c \in Conns, Subscribe(c) PROVE TypeOK'
  BY <1>2 DEF Subscribe
<1>3. ASSUME NEW c \in Conns, Receive(c) PROVE TypeOK'
  BY <1>3 DEF Receive
<1>4. ASSUME NEW c \in Conns, Unsubscribe(c) PROVE TypeOK'
  BY <1>4 DEF Unsubscribe
<1>5. ASSUME NEW c \in Conns, Pull(c) PROVE TypeOK'
  BY <1>5 DEF Pull
<1>6. ASSUME NEW w \in Writers, Commit(w) PROVE TypeOK'
  BY <1>6 DEF Commit
<1>7. ASSUME NEW w \in Writers, CopySubs(w) PROVE TypeOK'
  BY <1>7 DEF CopySubs
<1>8. ASSUME NEW w \in Writers, NEW c \in Conns, Send(w, c) PROVE TypeOK'
  BY <1>8 DEF Send
<1>9. ASSUME NEW w \in Writers, NotifyReturn(w) PROVE TypeOK'
  BY <1>9 DEF NotifyReturn
<1>10. ASSUME NEW c \in Conns, Write(c) PROVE TypeOK'
  <2>1. (event[c] \/ c \notin gone) \in BOOLEAN
    OBVIOUS
  <2> QED
    BY <1>10, <2>1 DEF Write
<1>11. ASSUME NEW c \in Conns, Leave(c) PROVE TypeOK'
  BY <1>11 DEF Leave
<1>12. CASE UNCHANGED vars
  BY <1>12 DEF vars
<1> QED
  BY <1>1, <1>2, <1>3, <1>4, <1>5, <1>6, <1>7, <1>8, <1>9, <1>10, <1>11, <1>12 DEF Next, Notify

\* WakeInv is inductive: every step of a handler, a device or a request
\* preserves it.
THEOREM WakeInvInductive == Spec => []WakeInv
<1> DEFINE Awake(c) ==
      Listens(c) /\ version > base[c] /\ version > seen[c] =>
        buf[c] \/ conn[c] = "write" \/ event[c] \/ \E w \in Writers : WillWake(w, c)
    Listed(c) == c \in subs <=> conn[c] \in {"loop", "write"}
<1>1. Init => WakeInv
  BY DEF Init, WakeInv, TypeOK, NoLostWakeup
<1>2. WakeInv /\ [Next]_vars => WakeInv'
  <2> SUFFICES ASSUME WakeInv, [Next]_vars, NEW d \in Conns PROVE Listed(d)' /\ Awake(d)'
    BY TypeStep DEF WakeInv, NoLostWakeup
  <2>0. TypeOK /\ Listed(d) /\ Awake(d)
    BY DEF WakeInv, NoLostWakeup
  <2>1. ASSUME NEW c \in Conns, FlushHeaders(c) PROVE Listed(d)' /\ Awake(d)'
    BY <2>0, <2>1 DEF FlushHeaders, TypeOK, Listens, WillWake
  <2>2. ASSUME NEW c \in Conns, Subscribe(c) PROVE Listed(d)' /\ Awake(d)'
    <3>1. CASE c = d
      BY <2>0, <2>2, <3>1 DEF Subscribe, TypeOK, Listens
    <3>2. CASE c # d
      BY <2>0, <2>2, <3>2 DEF Subscribe, TypeOK, Listens, WillWake
    <3> QED
      BY <3>1, <3>2
  <2>3. ASSUME NEW c \in Conns, Receive(c) PROVE Listed(d)' /\ Awake(d)'
    BY <2>0, <2>3 DEF Receive, TypeOK, Listens, WillWake
  <2>4. ASSUME NEW c \in Conns, Unsubscribe(c) PROVE Listed(d)' /\ Awake(d)'
    BY <2>0, <2>4 DEF Unsubscribe, TypeOK, Listens, WillWake
  <2>5. ASSUME NEW c \in Conns, Pull(c) PROVE Listed(d)' /\ Awake(d)'
    <3>1. CASE c = d
      BY <2>0, <2>5, <3>1 DEF Pull, TypeOK, Listens
    <3>2. CASE c # d
      BY <2>0, <2>5, <3>2 DEF Pull, TypeOK, Listens, WillWake
    <3> QED
      BY <3>1, <3>2
  <2>6. ASSUME NEW w \in Writers, Commit(w) PROVE Listed(d)' /\ Awake(d)'
    <3>1. writer'[w] = "notify" /\ UNCHANGED <<conn, gone, subs>>
      BY <2>0, <2>6 DEF Commit, TypeOK
    <3> QED
      BY <2>0, <3>1 DEF Listens, WillWake
  <2>7. ASSUME NEW w \in Writers, CopySubs(w) PROVE Listed(d)' /\ Awake(d)'
    <3>1. writer'[w] = "send" /\ todo'[w] = subs /\ UNCHANGED <<conn, gone, subs>>
      BY <2>0, <2>7 DEF CopySubs, TypeOK
    <3> QED
      BY <2>0, <3>1 DEF Listens, WillWake
  <2>8. ASSUME NEW w \in Writers, NEW c \in Conns, Send(w, c) PROVE Listed(d)' /\ Awake(d)'
    <3>1. CASE c = d
      BY <2>0, <2>8, <3>1 DEF Send, TypeOK, Listens
    <3>2. CASE c # d
      <4>1. \A x \in Writers : WillWake(x, d) => WillWake(x, d)'
        BY <2>0, <2>8, <3>2 DEF Send, TypeOK, WillWake
      <4> QED
        BY <2>0, <2>8, <3>2, <4>1 DEF Send, TypeOK, Listens
    <3> QED
      BY <3>1, <3>2
  <2>9. ASSUME NEW w \in Writers, NotifyReturn(w) PROVE Listed(d)' /\ Awake(d)'
    <3>1. \A x \in Writers : WillWake(x, d) => WillWake(x, d)'
      BY <2>0, <2>9 DEF NotifyReturn, TypeOK, WillWake
    <3> QED
      BY <2>0, <2>9, <3>1 DEF NotifyReturn, Listens
  <2>10. ASSUME NEW c \in Conns, Write(c) PROVE Listed(d)' /\ Awake(d)'
    <3>1. CASE c = d
      <4>1. Listens(d)' => event'[d]
        BY <2>0, <2>10, <3>1 DEF Write, TypeOK, Listens
      <4> QED
        BY <2>0, <2>10, <3>1, <4>1 DEF Write, TypeOK
    <3>2. CASE c # d
      <4>1. conn'[d] = conn[d] /\ event'[d] = event[d]
        BY <2>0, <2>10, <3>2 DEF Write, TypeOK
      <4> QED
        BY <2>0, <2>10, <4>1 DEF Write, Listens, WillWake
    <3> QED
      BY <3>1, <3>2
  <2>11. ASSUME NEW c \in Conns, Leave(c) PROVE Listed(d)' /\ Awake(d)'
    BY <2>0, <2>11 DEF Leave, Listens, WillWake
  <2>12. CASE UNCHANGED vars
    BY <2>0, <2>12 DEF vars, Listens, WillWake
  <2> QED
    BY <2>1, <2>2, <2>3, <2>4, <2>5, <2>6, <2>7, <2>8, <2>9, <2>10, <2>11, <2>12 DEF Next, Notify
<1> QED
  BY <1>1, <1>2, PTL DEF Spec

\* A device that listens is never left asleep (Broadcaster, SSEHandler).
THEOREM BroadcasterNoLostWakeup == Spec => []NoLostWakeup
BY WakeInvInductive, PTL DEF WakeInv
=============================================================================
