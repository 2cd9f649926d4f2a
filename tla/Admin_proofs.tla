---------------------------- MODULE Admin_proofs ----------------------------
(***************************************************************************)
(* Device keys, the admin page that lists them and the rate limit of the   *)
(* admin pages, for any number of keys, secrets, addresses and concurrent  *)
(* requests.                                                               *)
(***************************************************************************)
EXTENDS AdminPages, AdminRateLimit, FiniteSetTheorems, SequenceTheorems, TLAPS

USE DEF GetDeviceKey, Writing

\* The copies that RotateKey and Revoke hold, field by field.
LEMMA CallType ==
  ASSUME TypeOK, NEW p \in Procs, Writing(p)
  PROVE  /\ call[p].op \in {"rotate", "revoke"} /\ call[p].key \in KeyIDs
         /\ call[p].dk \in Row
BY DEF TypeOK, NoCall, Admitted

\* Requests that are idle or admitted hold no copy.
LEMMA NotWriting ==
  NoCall.op \notin {"rotate", "revoke"} /\ Admitted.op \notin {"rotate", "revoke"}
BY DEF NoCall, Admitted

\* No row of the table is the missing one.
LEMMA RowIsThere ==
  ASSUME NEW r \in Row
  PROVE  r # NoRow /\ r.hash \in Secrets /\ r.status \in {"active", "revoked"}
BY DEF Row, NoRow

\* KeysInv holds of an empty table.
LEMMA KeysInvInit == Init => KeysInv
BY DEF Init, KeysInv, TypeOK, ToldSecretWorks, NoRow, NoCall

\* Every statement on device_keys preserves KeysInv.
LEMMA KeysInvStep == KeysInv /\ [Next]_vars => KeysInv'
<1> SUFFICES ASSUME KeysInv, [Next]_vars PROVE KeysInv'
  OBVIOUS
<1>0. TypeOK
  BY DEF KeysInv
<1>1. ASSUME NEW k \in KeyIDs, NEW s \in Secrets, Register(k, s) PROVE KeysInv'
  <2> DEFINE r == [hash |-> s, status |-> "active"]
  <2>0. r \in Row
    BY DEF Row
  <2>1. /\ keys[k] = NoRow /\ keys' = [keys EXCEPT ![k] = r]
        /\ told' = [told EXCEPT ![k] = s]
        /\ call' = call /\ revoked' = revoked /\ raced' = raced
    BY <1>1 DEF Register, CreateDeviceKey
  <2>2. TypeOK'
    BY <1>0, <2>0, <2>1 DEF TypeOK
  <2>3. ToldSecretWorks'
    BY <1>0, <2>1 DEF KeysInv, TypeOK, ToldSecretWorks, Verify
  <2>4. r # NoRow
    BY <2>0, RowIsThere
  <2>5. k \notin revoked /\ \A p \in Procs : Writing(p) => call[p].key # k
    BY <2>1 DEF KeysInv
  <2> HIDE DEF r
  <2>6. \A j \in KeyIDs : keys'[j] = IF j = k THEN r ELSE keys[j]
    BY <1>0, <2>1 DEF TypeOK
  <2>7. \A p \in Procs : Writing(p) => call[p].key \in KeyIDs
    BY <1>0, CallType
  <2>8. revoked \subseteq KeyIDs
    BY <1>0 DEF TypeOK
  <2>9. \A j \in revoked : keys'[j] # NoRow
    BY <2>4, <2>6, <2>8 DEF KeysInv
  <2>10. \A j \in revoked \ raced : keys'[j].status = "revoked" /\ ~Rotating(j)
    BY <2>5, <2>6, <2>8 DEF KeysInv
  <2>11. \A p \in Procs : Writing(p) =>
           /\ keys'[call[p].key] # NoRow
           /\ call[p].dk.status = IF call[p].op = "rotate" THEN "active" ELSE "revoked"
    BY <2>4, <2>6, <2>7 DEF KeysInv
  <2> QED
    BY <2>1, <2>2, <2>3, <2>9, <2>10, <2>11 DEF KeysInv, Rotating
<1>2. ASSUME NEW k \in KeyIDs, RevokeDevice(k) PROVE KeysInv'
  <2>1. /\ keys[k] # NoRow /\ keys' = [keys EXCEPT ![k] = [keys[k] EXCEPT !.status = "revoked"]]
        /\ revoked' = revoked \cup {k}
        /\ raced' = IF Rotating(k) THEN raced \cup {k} ELSE raced
        /\ call' = call /\ told' = told
    BY <1>2 DEF RevokeDevice
  <2>2. keys[k] \in Row
    BY <1>0, <2>1 DEF TypeOK
  <2> DEFINE r == [keys[k] EXCEPT !.status = "revoked"]
  <2>3. r \in Row /\ r.status = "revoked" /\ r # NoRow
    BY <2>2, RowIsThere DEF Row
  <2> HIDE DEF r
  <2>4. keys' = [keys EXCEPT ![k] = r]
    BY <2>1 DEF r
  <2>5. \A j \in KeyIDs : keys'[j] = IF j = k THEN r ELSE keys[j]
    BY <1>0, <2>4 DEF TypeOK
  <2>6. TypeOK'
    BY <1>0, <2>1, <2>3, <2>4 DEF TypeOK
  <2>7. ToldSecretWorks'
    BY <2>1, <2>3, <2>5 DEF KeysInv, ToldSecretWorks, Verify
  <2>8. revoked \subseteq KeyIDs /\ \A p \in Procs : Writing(p) => call[p].key \in KeyIDs
    BY <1>0, CallType DEF TypeOK
  <2>9. \A j \in revoked' : keys'[j] # NoRow
    BY <2>1, <2>3, <2>5, <2>8 DEF KeysInv
  <2>10. \A j \in revoked' \ raced' : keys'[j].status = "revoked" /\ ~Rotating(j)
    BY <2>1, <2>3, <2>5, <2>8 DEF KeysInv
  <2>11. \A p \in Procs : Writing(p) =>
           /\ keys'[call[p].key] # NoRow
           /\ call[p].dk.status = IF call[p].op = "rotate" THEN "active" ELSE "revoked"
    BY <2>3, <2>5, <2>8 DEF KeysInv
  <2> QED
    BY <2>1, <2>6, <2>7, <2>9, <2>10, <2>11 DEF KeysInv, Rotating
<1>3. ASSUME NEW p \in Procs, NEW k \in KeyIDs, NEW old \in Secrets, NEW new \in Secrets,
             RotateRead(p, k, old, new)
      PROVE  KeysInv'
  <2> DEFINE c == [op |-> "rotate", key |-> k, dk |-> [keys[k] EXCEPT !.hash = new]]
  <2>1. /\ keys[k].status = "active" /\ call' = [call EXCEPT ![p] = c]
        /\ keys' = keys /\ told' = told /\ revoked' = revoked /\ raced' = raced
    BY <1>3 DEF RotateRead, Verify
  <2>2. keys[k] \in Row /\ keys[k] # NoRow
    BY <1>0, <2>1 DEF TypeOK, NoRow
  <2>3. c \in [op : {"rotate", "revoke"}, key : KeyIDs, dk : Row] /\ c.dk.status = "active"
    BY <2>1, <2>2 DEF Row
  <2>4. c.op = "rotate" /\ c.key = k
    OBVIOUS
  <2> HIDE DEF c
  <2>5. \A q \in Procs : call'[q] = IF q = p THEN c ELSE call[q]
    BY <1>0, <2>1 DEF TypeOK
  <2>6. TypeOK'
    BY <1>0, <2>1, <2>3 DEF TypeOK
  <2>7. k \notin revoked \ raced
    BY <2>1 DEF KeysInv
  <2>8. \A j \in revoked \ raced : ~Rotating(j)'
    BY <2>4, <2>5, <2>7 DEF KeysInv, Rotating
  <2>9. \A q \in Procs : Writing(q)' =>
          /\ keys[call'[q].key] # NoRow
          /\ call'[q].dk.status = IF call'[q].op = "rotate" THEN "active" ELSE "revoked"
    BY <2>2, <2>3, <2>4, <2>5 DEF KeysInv
  <2> QED
    BY <2>1, <2>6, <2>8, <2>9 DEF KeysInv, ToldSecretWorks, Verify
<1>4. ASSUME NEW p \in Procs, NEW k \in KeyIDs, RevokeRead(p, k) PROVE KeysInv'
  <2> DEFINE c == [op |-> "revoke", key |-> k, dk |-> [keys[k] EXCEPT !.status = "revoked"]]
  <2>1. /\ keys[k] # NoRow /\ call' = [call EXCEPT ![p] = c]
        /\ keys' = keys /\ told' = told /\ revoked' = revoked /\ raced' = raced
    BY <1>4 DEF RevokeRead
  <2>2. keys[k] \in Row
    BY <1>0, <2>1 DEF TypeOK
  <2>3. c \in [op : {"rotate", "revoke"}, key : KeyIDs, dk : Row] /\ c.dk.status = "revoked"
    BY <2>2 DEF Row
  <2>4. c.op = "revoke" /\ c.key = k
    OBVIOUS
  <2> HIDE DEF c
  <2>5. \A q \in Procs : call'[q] = IF q = p THEN c ELSE call[q]
    BY <1>0, <2>1 DEF TypeOK
  <2>6. TypeOK'
    BY <1>0, <2>1, <2>3 DEF TypeOK
  <2>8. \A j \in revoked \ raced : ~Rotating(j)'
    BY <2>4, <2>5 DEF KeysInv, Rotating
  <2>9. \A q \in Procs : Writing(q)' =>
          /\ keys[call'[q].key] # NoRow
          /\ call'[q].dk.status = IF call'[q].op = "rotate" THEN "active" ELSE "revoked"
    BY <2>1, <2>3, <2>4, <2>5 DEF KeysInv
  <2> QED
    BY <2>1, <2>6, <2>8, <2>9 DEF KeysInv, ToldSecretWorks, Verify
<1>5. ASSUME NEW p \in Procs, UpdateDeviceKey(p) PROVE KeysInv'
  <2> DEFINE k == call[p].key
             dk == call[p].dk
  <2>1. /\ Writing(p) /\ keys' = [keys EXCEPT ![k] = dk]
        /\ call' = [call EXCEPT ![p] = NoCall]
    BY <1>5 DEF UpdateDeviceKey
  <2>2. k \in KeyIDs /\ dk \in Row /\ call[p].op \in {"rotate", "revoke"}
    BY <1>0, <2>1, CallType
  <2>3. dk # NoRow /\ dk.hash \in Secrets /\ keys[k] # NoRow
    BY <2>1, <2>2, RowIsThere DEF KeysInv
  <2>4. dk.status = IF call[p].op = "rotate" THEN "active" ELSE "revoked"
    BY <2>1 DEF KeysInv
  <2>5. /\ call[p].op = "rotate" => /\ told' = [told EXCEPT ![k] = dk.hash]
                                    /\ revoked' = revoked /\ raced' = raced
        /\ call[p].op = "revoke" => /\ told' = told /\ revoked' = revoked \cup {k}
                                    /\ raced' = IF Rotating(k) THEN raced \cup {k} ELSE raced
    BY <1>5, <2>2 DEF UpdateDeviceKey
  <2>6. call[p].op = "rotate" => Rotating(k)
    BY <2>1 DEF Rotating
  <2> HIDE DEF k, dk
  <2>7. \A j \in KeyIDs : keys'[j] = IF j = k THEN dk ELSE keys[j]
    BY <1>0, <2>1 DEF TypeOK
  <2>8. \A q \in Procs : call'[q] = IF q = p THEN NoCall ELSE call[q]
    BY <1>0, <2>1 DEF TypeOK
  <2>9. TypeOK'
    BY <1>0, <2>1, <2>2, <2>3, <2>5 DEF TypeOK
  <2>10. ToldSecretWorks'
    <3> SUFFICES ASSUME NEW j \in KeyIDs, keys'[j].status = "active"
                 PROVE  keys'[j].hash = told'[j]
      BY DEF ToldSecretWorks, Verify
    <3>1. CASE j = k
      BY <1>0, <2>2, <2>4, <2>5, <2>7, <3>1 DEF TypeOK
    <3>2. CASE j # k
      BY <1>0, <2>2, <2>5, <2>7, <3>2 DEF KeysInv, ToldSecretWorks, Verify, TypeOK
    <3> QED
      BY <3>1, <3>2
  <2>11. revoked \subseteq KeyIDs /\ \A q \in Procs : Writing(q) => call[q].key \in KeyIDs
    BY <1>0, CallType DEF TypeOK
  <2>12. \A j \in revoked' : keys'[j] # NoRow
    BY <2>2, <2>3, <2>5, <2>7, <2>11 DEF KeysInv
  <2>13. \A j \in KeyIDs : ~Rotating(j) => ~Rotating(j)'
    BY <2>8, NotWriting DEF Rotating
  <2>14. \A j \in revoked' \ raced' : keys'[j].status = "revoked" /\ ~Rotating(j)'
    BY <2>2, <2>4, <2>5, <2>6, <2>7, <2>11, <2>13 DEF KeysInv
  <2>15. \A q \in Procs : Writing(q)' =>
           /\ keys'[call'[q].key] # NoRow
           /\ call'[q].dk.status = IF call'[q].op = "rotate" THEN "active" ELSE "revoked"
    BY <2>3, <2>7, <2>8, <2>11, NotWriting DEF KeysInv
  <2> QED
    BY <2>9, <2>10, <2>12, <2>14, <2>15 DEF KeysInv
<1>6. ASSUME NEW p \in Procs, Fail(p) PROVE KeysInv'
  <2>1. /\ keys' = keys /\ told' = told /\ revoked' = revoked /\ raced' = raced
        /\ call' = [call EXCEPT ![p] = NoCall]
    BY <1>6 DEF Fail
  <2>2. \A q \in Procs : call'[q] = IF q = p THEN NoCall ELSE call[q]
    BY <1>0, <2>1 DEF TypeOK
  <2>3. TypeOK'
    BY <1>0, <2>1 DEF TypeOK
  <2>4. \A j \in revoked \ raced : ~Rotating(j)'
    BY <2>2, NotWriting DEF KeysInv, Rotating
  <2>5. \A q \in Procs : Writing(q)' =>
          /\ keys[call'[q].key] # NoRow
          /\ call'[q].dk.status = IF call'[q].op = "rotate" THEN "active" ELSE "revoked"
    BY <2>2, NotWriting DEF KeysInv
  <2> QED
    BY <2>1, <2>3, <2>4, <2>5 DEF KeysInv, ToldSecretWorks, Verify
<1>7. ASSUME NEW p \in Procs, NEW k \in KeyIDs, NEW s \in Secrets, RequireDeviceKey(p, k, s)
      PROVE  KeysInv'
  <2>1. /\ keys' = keys /\ told' = told /\ revoked' = revoked /\ raced' = raced
        /\ call' = [call EXCEPT ![p] = Admitted]
    BY <1>7 DEF RequireDeviceKey
  <2>2. \A q \in Procs : call'[q] = IF q = p THEN Admitted ELSE call[q]
    BY <1>0, <2>1 DEF TypeOK
  <2>3. TypeOK'
    BY <1>0, <2>1 DEF TypeOK
  <2>4. \A j \in revoked \ raced : ~Rotating(j)'
    BY <2>2, NotWriting DEF KeysInv, Rotating
  <2>5. \A q \in Procs : Writing(q)' =>
          /\ keys[call'[q].key] # NoRow
          /\ call'[q].dk.status = IF call'[q].op = "rotate" THEN "active" ELSE "revoked"
    BY <2>2, NotWriting DEF KeysInv
  <2> QED
    BY <2>1, <2>3, <2>4, <2>5 DEF KeysInv, ToldSecretWorks, Verify
<1>8. CASE UNCHANGED vars
  BY <1>8 DEF vars, KeysInv, TypeOK, ToldSecretWorks, Verify, Rotating
<1> QED
  BY <1>1, <1>2, <1>3, <1>4, <1>5, <1>6, <1>7, <1>8 DEF Next

\* KeysInv holds in every state.
THEOREM KeysInvInductive == Spec => []KeysInv
BY KeysInvInit, KeysInvStep, PTL DEF Spec

\* An active key opens with the secret its device was last told.
THEOREM KeysToldSecretWorks == Spec => []ToldSecretWorks
BY KeysInvInductive, PTL DEF KeysInv

\* A revocation that no rotation crosses is final.
THEOREM KeysRevokedUnlessRaced == Spec => []RevokedUnlessRaced
<1>1. KeysInv => RevokedUnlessRaced
  BY DEF KeysInv, RevokedUnlessRaced, Verify
<1> QED
  BY <1>1, KeysInvInductive, PTL

-----------------------------------------------------------------------------
\* The admin pages: any number of keys and events, and any size of a page.

\* No statement deletes a key, and a revoked one stays revoked unless a rotation
\* crossed its revocation (RotateKey, Revoke, RevokeDevice).
LEMMA KeysStay ==
  ASSUME KeysInv, RevokedKnown, [Next]_vars
  PROVE  /\ RevokedKnown'
         /\ raced \subseteq raced'
         /\ \A k \in KeyIDs : keys[k] # NoRow => keys'[k] # NoRow
         /\ \A k \in KeyIDs \ raced : keys[k].status = "revoked" => keys'[k].status = "revoked"
<1>0. TypeOK
  BY DEF KeysInv
<1>1. ASSUME NEW k \in KeyIDs, NEW s \in Secrets, Register(k, s)
      PROVE  /\ revoked' = revoked /\ raced' = raced
             /\ keys'[k].status = "active" /\ keys'[k] # NoRow /\ keys[k].status = "none"
             /\ \A j \in KeyIDs : j # k => keys'[j] = keys[j]
  BY <1>0, <1>1 DEF Register, CreateDeviceKey, TypeOK, NoRow
<1>2. ASSUME NEW k \in KeyIDs, RevokeDevice(k)
      PROVE  /\ revoked' = revoked \cup {k} /\ raced \subseteq raced'
             /\ keys'[k].status = "revoked" /\ keys'[k] # NoRow
             /\ \A j \in KeyIDs : j # k => keys'[j] = keys[j]
  <2>1. keys[k] \in Row
    BY <1>0, <1>2 DEF RevokeDevice, TypeOK
  <2>2. keys' = [keys EXCEPT ![k] = [keys[k] EXCEPT !.status = "revoked"]]
    BY <1>2 DEF RevokeDevice
  <2>3. [keys[k] EXCEPT !.status = "revoked"].status = "revoked"
    BY <2>1 DEF Row
  <2> QED
    BY <1>0, <1>2, <2>2, <2>3 DEF RevokeDevice, TypeOK, NoRow
<1>3. ASSUME NEW p \in Procs, UpdateDeviceKey(p)
      PROVE  \E k \in KeyIDs :
               /\ revoked \subseteq revoked' /\ raced \subseteq raced'
               /\ keys'[k] # NoRow /\ \A j \in KeyIDs : j # k => keys'[j] = keys[j]
               /\ \/ keys'[k].status = "active" /\ Rotating(k)
                  \/ keys'[k].status = "revoked" /\ k \in revoked'
  <2>1. Writing(p) /\ keys' = [keys EXCEPT ![call[p].key] = call[p].dk]
    BY <1>3 DEF UpdateDeviceKey
  <2>2. call[p].key \in KeyIDs /\ call[p].dk \in Row /\ call[p].op \in {"rotate", "revoke"}
    BY <1>0, <2>1, CallType
  <2>3. /\ call[p].dk # NoRow
        /\ call[p].dk.status = IF call[p].op = "rotate" THEN "active" ELSE "revoked"
    BY <2>1, <2>2, RowIsThere DEF KeysInv
  <2>4. /\ keys'[call[p].key] = call[p].dk
        /\ \A j \in KeyIDs : j # call[p].key => keys'[j] = keys[j]
    BY <1>0, <2>1, <2>2 DEF TypeOK
  <2>5. call[p].op = "rotate" =>
          Rotating(call[p].key) /\ revoked' = revoked /\ raced' = raced
    BY <1>3 DEF UpdateDeviceKey, Rotating
  <2>6. call[p].op = "revoke" =>
          revoked' = revoked \cup {call[p].key} /\ raced \subseteq raced'
    BY <1>3 DEF UpdateDeviceKey
  <2> QED
    BY <2>2, <2>3, <2>4, <2>5, <2>6
<1>4. ASSUME keys' = keys, revoked' = revoked, raced' = raced
      PROVE  /\ RevokedKnown' /\ raced \subseteq raced'
             /\ \A k \in KeyIDs : keys'[k] = keys[k]
  BY <1>4 DEF RevokedKnown
<1>5. \A k \in revoked \ raced : ~Rotating(k)
  BY DEF KeysInv
<1>6. CASE \E k \in KeyIDs, s \in Secrets : Register(k, s)
  BY <1>1, <1>6 DEF RevokedKnown
<1>7. CASE \E k \in KeyIDs : RevokeDevice(k)
  BY <1>2, <1>7 DEF RevokedKnown
<1>8. CASE \E p \in Procs : UpdateDeviceKey(p)
  BY <1>3, <1>5, <1>8 DEF RevokedKnown
<1>9. CASE keys' = keys /\ revoked' = revoked /\ raced' = raced
  BY <1>4, <1>9
<1> QED
  BY <1>6, <1>7, <1>8, <1>9
     DEF Next, vars, RotateRead, RequireDeviceKey, RevokeRead, Fail

\* What the table of keys does while a page is shown or waited for preserves
\* PagesInv.
LEMMA PagesInvKeys ==
  ASSUME PagesInv, [Next]_vars, UNCHANGED <<events, view>>
  PROVE  PagesInv'
<1>1. KeysInv' /\ RevokedKnown'
  BY KeysInvStep, KeysStay DEF PagesInv
<1>2. ListedAreCounted' /\ ListedInv'
  BY KeysStay DEF PagesInv, ListedAreCounted, ListedInv
<1>3. WalkSeesAll' /\ WalkInv' /\ events' = events
  BY DEF PagesInv, WalkSeesAll, WalkInv, FirstPages
<1> QED
  BY <1>1, <1>2, <1>3 DEF PagesInv

\* DeviceCounts counts at least what ListDevices listed.
LEMMA PagesInvDeviceCounts ==
  ASSUME PagesInv, DeviceCounts
  PROVE  ListedAreCounted'
<1>1. /\ view.pc = "listed" /\ raced' = raced
      /\ view'.tab = view.tab /\ view'.devices = view.devices
      /\ view'.count = Cardinality(WithStatus(view.tab))
  BY DEF DeviceCounts, CountOf, vars
<1>2. /\ view.tab \in Statuses
      /\ view.devices \subseteq {k \in KeyIDs : keys[k] # NoRow}
      /\ view.tab = "revoked" => \A k \in view.devices \ raced : keys[k].status = "revoked"
  BY <1>1 DEF PagesInv, ListedInv
<1>3. CASE view.tab = "active" \/ (view.tab = "revoked" /\ raced \cap view.devices # {})
  BY <1>1, <1>3 DEF ListedAreCounted
<1>4. CASE view.tab = "" \/ (view.tab = "revoked" /\ raced \cap view.devices = {})
  <2>1. view.devices \in SUBSET WithStatus(view.tab)
    BY <1>2, <1>4 DEF WithStatus
  <2>2. IsFiniteSet(WithStatus(view.tab))
    BY PagesAssumption, FS_Subset DEF WithStatus
  <2>3. Cardinality(view.devices) <= Cardinality(WithStatus(view.tab))
    BY <2>1, <2>2, FS_Subset
  <2> QED
    BY <1>1, <2>3 DEF ListedAreCounted
<1> QED
  BY <1>2, <1>3, <1>4 DEF Statuses

\* What a new row does to the list of events: those before it stay, the others
\* move one place on (AdminEventStore.WriteSyncEvent).
LEMMA InsertAtPlaces ==
  ASSUME NEW s \in Seq(Nat), NEW i \in 1 .. Len(s) + 1, NEW e \in Nat
  PROVE  /\ InsertAt(s, i, e) \in Seq(Nat) /\ Len(InsertAt(s, i, e)) = Len(s) + 1
         /\ InsertAt(s, i, e)[i] = e
         /\ \A j \in 1 .. i - 1 : InsertAt(s, i, e)[j] = s[j]
         /\ \A j \in i .. Len(s) : InsertAt(s, i, e)[j + 1] = s[j]
<1>0. PICK t : t = InsertAt(s, i, e)
  OBVIOUS
<1>1. Len(s) \in Nat /\ i \in Nat /\ i - 1 \in 0 .. Len(s)
  OBVIOUS
<1>2. PICK u : u = SubSeq(s, 1, i - 1)
  OBVIOUS
<1>3. PICK v : v = SubSeq(s, i, Len(s))
  OBVIOUS
<1>4. u \in Seq(Nat) /\ Len(u) = i - 1 /\ \A j \in 1 .. i - 1 : u[j] = s[j]
  BY <1>1, <1>2
<1>5. v \in Seq(Nat) /\ Len(v) = Len(s) - i + 1 /\ \A j \in 1 .. Len(s) - i + 1 : v[j] = s[i + j - 1]
  BY <1>1, <1>3
<1>6. t = u \o <<e>> \o v
  BY <1>0, <1>2, <1>3 DEF InsertAt
<1>7. PICK w : w = u \o <<e>>
  OBVIOUS
<1>8. w \in Seq(Nat) /\ Len(w) = i /\ w[i] = e /\ \A j \in 1 .. i - 1 : w[j] = s[j]
  <2>1. <<e>> \in Seq(Nat) /\ Len(<<e>>) = 1 /\ <<e>>[1] = e
    OBVIOUS
  <2>2. /\ w \in Seq(Nat) /\ Len(w) = Len(u) + Len(<<e>>)
        /\ \A j \in 1 .. Len(u) + Len(<<e>>) :
             w[j] = IF j <= Len(u) THEN u[j] ELSE <<e>>[j - Len(u)]
    BY <1>4, <1>7, <2>1, ConcatProperties
  <2> QED
    BY <1>1, <1>4, <2>1, <2>2
<1>9. t = w \o v
  BY <1>6, <1>7
<1>10. /\ t \in Seq(Nat) /\ Len(t) = Len(w) + Len(v)
       /\ \A j \in 1 .. Len(w) + Len(v) : t[j] = IF j <= Len(w) THEN w[j] ELSE v[j - Len(w)]
  <2>1. w \in Seq(Nat) /\ v \in Seq(Nat)
    BY <1>5, <1>8
  <2> QED
    BY <1>9, <2>1, ConcatProperties
<1>11. Len(w) + Len(v) = Len(s) + 1
  BY <1>1, <1>5, <1>8
<1>12. t[i] = e /\ \A j \in 1 .. i - 1 : t[j] = s[j]
  BY <1>1, <1>8, <1>10, <1>11
<1>13. ASSUME NEW j \in i .. Len(s) PROVE t[j + 1] = s[j]
  <2>1. PICK h \in 1 .. Len(s) - i + 1 : j = i + h - 1
    <3>1. j - i + 1 \in 1 .. Len(s) - i + 1 /\ j = i + (j - i + 1) - 1
      BY <1>1
    <3> QED
      BY <3>1
  <2>2. PICK k \in 1 .. Len(w) + Len(v) : k = j + 1 /\ ~(k <= i) /\ k - i = h
    BY <1>1, <1>11, <2>1
  <2>3. t[k] = v[k - Len(w)]
    BY <1>1, <1>8, <1>10, <2>2
  <2>4. v[h] = s[i + h - 1]
    BY <1>5, <2>1
  <2> QED
    BY <1>8, <2>1, <2>2, <2>3, <2>4
<1> QED
  BY <1>0, <1>10, <1>11, <1>12, <1>13

\* A new row moves no event of the first pages back among them, so that a walk
\* misses none of those it started with.
LEMMA PagesInvWriteSyncEvent ==
  ASSUME PagesInv, WriteSyncEvent
  PROVE  PagesInv'
<1>1. PICK e \in Nat : e = Len(events) + 1
  BY DEF PagesInv
<1>2. PICK i \in 1 .. Len(events) + 1 : events' = InsertAt(events, i, e)
  BY <1>1 DEF WriteSyncEvent
<1>3. UNCHANGED vars
  BY DEF WriteSyncEvent
<1>4. /\ events \in Seq(Nat) /\ Len(events) \in Nat /\ DOMAIN events = 1 .. Len(events)
      /\ ToSet(events) \subseteq 1 .. Len(events)
  BY DEF PagesInv
<1>5. /\ events' \in Seq(Nat) /\ Len(events') = Len(events) + 1
      /\ events'[i] = e
      /\ \A j \in 1 .. i - 1 : events'[j] = events[j]
      /\ \A j \in i .. Len(events) : events'[j + 1] = events[j]
  <2>1. PICK s \in Seq(Nat) : s = events
    BY <1>4
  <2>2. i \in 1 .. Len(s) + 1
    BY <2>1
  <2>3. /\ InsertAt(s, i, e) \in Seq(Nat) /\ Len(InsertAt(s, i, e)) = Len(s) + 1
        /\ InsertAt(s, i, e)[i] = e
        /\ \A j \in 1 .. i - 1 : InsertAt(s, i, e)[j] = s[j]
        /\ \A j \in i .. Len(s) : InsertAt(s, i, e)[j + 1] = s[j]
    BY <2>2, InsertAtPlaces
  <2> QED
    BY <1>2, <2>1, <2>3, Zenon
<1>6. DOMAIN events' = 1 .. Len(events) + 1
  BY <1>5
<1>7. \A j \in 1 .. Len(events) + 1 :
        \/ j = i \/ j \in 1 .. i - 1
        \/ \E h \in i .. Len(events) : j = h + 1
  <2> SUFFICES ASSUME NEW j \in 1 .. Len(events) + 1, j > i
               PROVE  \E h \in i .. Len(events) : j = h + 1
    BY <1>4
  <2>1. j - 1 \in i .. Len(events) /\ j = (j - 1) + 1
    BY <1>4
  <2> QED
    BY <2>1
<1>8. i .. Len(events) \subseteq 1 .. Len(events) /\ 1 .. i - 1 \subseteq 1 .. Len(events)
  BY <1>4
<1>9. ToSet(events') = ToSet(events) \cup {e} /\ e \notin ToSet(events)
  <2>1. ASSUME NEW j \in 1 .. Len(events) + 1 PROVE events'[j] \in ToSet(events) \cup {e}
    <3>1. events'[j] = e \/ \E h \in 1 .. Len(events) : events'[j] = events[h]
      BY <1>5, <1>7, <1>8
    <3> QED
      BY <1>4, <3>1 DEF ToSet
  <2>2. ASSUME NEW j \in 1 .. Len(events) PROVE events[j] \in ToSet(events')
    <3>1. CASE j \in 1 .. i - 1
      <4>1. j \in DOMAIN events' /\ events'[j] = events[j]
        BY <1>4, <1>5, <1>6, <3>1
      <4> QED
        BY <4>1 DEF ToSet
    <3>2. CASE j \in i .. Len(events)
      <4>1. j + 1 \in DOMAIN events' /\ events'[j + 1] = events[j]
        BY <1>4, <1>5, <1>6, <3>2
      <4> QED
        BY <4>1 DEF ToSet
    <3> QED
      BY <1>4, <3>1, <3>2
  <2>3. e \in ToSet(events')
    BY <1>5, <1>6 DEF ToSet
  <2>4. ToSet(events') = {events'[j] : j \in 1 .. Len(events) + 1}
    BY <1>6 DEF ToSet
  <2>5. ToSet(events) = {events[j] : j \in 1 .. Len(events)}
    BY <1>4 DEF ToSet
  <2>6. e \notin ToSet(events)
    BY <1>1, <1>4
  <2> QED
    BY <2>1, <2>2, <2>3, <2>4, <2>5, <2>6
<1>10. ASSUME NEW n \in Nat
       PROVE  FirstPages(n)' \subseteq FirstPages(n) \cup {e}
  <2>1. PICK m \in Int : m = n * syncPageSize
    BY PagesAssumption
  <2> SUFFICES ASSUME NEW j \in 1 .. Len(events) + 1, j <= m
               PROVE  \/ events'[j] = e
                      \/ \E h \in 1 .. Len(events) : h <= m /\ events'[j] = events[h]
    BY <1>4, <1>6, <2>1 DEF FirstPages
  <2>2. CASE j = i \/ j \in 1 .. i - 1
    BY <1>5, <1>8, <2>2
  <2>3. ASSUME NEW h \in i .. Len(events), j = h + 1
        PROVE  h \in 1 .. Len(events) /\ h <= m /\ events'[j] = events[h]
    BY <1>4, <1>5, <1>8, <2>3
  <2> QED
    BY <1>7, <2>2, <2>3
<1>11. view.pc # "counted" => view' = view
  BY DEF WriteSyncEvent
<1>12. ASSUME view.pc = "counted"
       PROVE  /\ view'.pc = "counted" /\ view'.crossed
              /\ view'.page = view.page /\ view'.start = view.start /\ view'.seen = view.seen
  <2>1. view' = [pc |-> "counted", page |-> view.page, total |-> view.total,
                 start |-> view.start, seen |-> view.seen, crossed |-> TRUE]
    BY <1>12 DEF WriteSyncEvent
  <2> QED
    BY <2>1, Zenon
<1>13. KeysInv' /\ RevokedKnown' /\ ListedInv' /\ ListedAreCounted' /\ WalkSeesAll'
  BY <1>3, <1>11, <1>12 DEF PagesInv, vars, KeysInv, TypeOK, ToldSecretWorks, Verify, Rotating, RevokedKnown,
       ListedInv, ListedAreCounted, WalkSeesAll
<1>14. ToSet(events') \subseteq 1 .. Len(events')
  BY <1>1, <1>4, <1>5, <1>9
<1>15. WalkInv'
  <2>1. CASE view.pc = "counted"
    <3>1. /\ view.page \in Nat \ {0} /\ view.page - 1 \in Nat
          /\ view.start \subseteq ToSet(events)
          /\ view.start \cap FirstPages(view.page - 1) \subseteq view.seen
      BY <2>1 DEF PagesInv, WalkInv
    <3>2. PICK n \in Nat : n = view.page - 1
      BY <3>1
    <3>3. view.start \cap FirstPages(n)' \subseteq view.seen
      BY <1>9, <1>10, <3>1, <3>2
    <3>4. FirstPages(n)' = FirstPages(view.page - 1)'
      BY <1>12, <2>1, <3>2 DEF FirstPages
    <3> QED
      BY <1>9, <1>12, <2>1, <3>1, <3>3, <3>4 DEF WalkInv
  <2>2. CASE view.pc = "events"
    <3>1. /\ view.page \in Nat \ {0} /\ view.start \subseteq ToSet(events)
          /\ view.start \cap FirstPages(view.page) \subseteq view.seen
      BY <2>2 DEF PagesInv, WalkInv
    <3>2. PICK n \in Nat : n = view.page
      BY <3>1
    <3>3. view.start \cap FirstPages(n)' \subseteq view.seen
      BY <1>9, <1>10, <3>1, <3>2
    <3>4. FirstPages(n)' = FirstPages(view.page)' /\ view' = view
      BY <1>11, <2>2, <3>2 DEF FirstPages
    <3> QED
      BY <1>9, <2>2, <3>1, <3>3, <3>4 DEF WalkInv
  <2>3. CASE view.pc \notin {"counted", "events"}
    BY <1>11, <2>3 DEF WalkInv
  <2> QED
    BY <2>1, <2>2, <2>3
<1> QED
  BY <1>5, <1>13, <1>14, <1>15 DEF PagesInv

\* A part of a sequence, element by element.
LEMMA SubSeqPlaces ==
  ASSUME NEW s \in Seq(Nat), NEW m \in Nat, NEW last \in Nat, last <= Len(s)
  PROVE  /\ Len(SubSeq(s, m + 1, last)) = IF m < last THEN last - m ELSE 0
         /\ DOMAIN SubSeq(s, m + 1, last) = 1 .. Len(SubSeq(s, m + 1, last))
         /\ \A j \in 1 .. last - m : SubSeq(s, m + 1, last)[j] = s[m + j]
<1>1. \A i \in m + 1 .. last : s[i] \in Nat
  OBVIOUS
<1>2. m + 1 \in Int /\ last \in Int
  OBVIOUS
<1>3. /\ SubSeq(s, m + 1, last) \in Seq(Nat)
      /\ Len(SubSeq(s, m + 1, last)) = IF m + 1 <= last THEN last - (m + 1) + 1 ELSE 0
      /\ \A i \in 1 .. last - (m + 1) + 1 : SubSeq(s, m + 1, last)[i] = s[m + 1 + i - 1]
  BY <1>1, <1>2, SubSeqProperties
<1>4. PICK t : t = SubSeq(s, m + 1, last)
  OBVIOUS
<1>5. t \in Seq(Nat) /\ Len(t) = IF m < last THEN last - m ELSE 0
  BY <1>3, <1>4
<1>6. \A j \in 1 .. last - m : m + 1 + j - 1 = m + j /\ j \in 1 .. last - (m + 1) + 1
  OBVIOUS
<1>7. \A j \in 1 .. last - m : t[j] = s[m + j]
  BY <1>3, <1>4, <1>6
<1>8. DOMAIN t = 1 .. Len(t)
  BY <1>5
<1> QED
  BY <1>4, <1>5, <1>7, <1>8

\* The pages up to n show what those before n show and page n, and together
\* everything if page n reaches the end (PageOf, HasNext).
LEMMA PageCovers ==
  ASSUME events \in Seq(Nat), NEW n \in Nat \ {0}
  PROVE  /\ FirstPages(n) \subseteq FirstPages(n - 1) \cup ToSet(PageOf(n))
         /\ Len(PageOf(n)) \in Nat
         /\ (n - 1) * syncPageSize + Len(PageOf(n)) >= Len(events) =>
              ToSet(events) \subseteq FirstPages(n)
<1>1. PICK m \in Nat : m = (n - 1) * syncPageSize
  BY PagesAssumption
<1>2. n * syncPageSize = m + syncPageSize /\ syncPageSize \in Nat \ {0}
  BY <1>1, PagesAssumption
<1>3. PICK len \in Nat : len = Len(events) /\ DOMAIN events = 1 .. len
  OBVIOUS
<1>4. PICK last \in Nat : last = IF m + syncPageSize < len THEN m + syncPageSize ELSE len
  BY <1>2
<1>5. PICK t : t = SubSeq(events, m + 1, last)
  OBVIOUS
<1>6. PageOf(n) = t
  BY <1>1, <1>2, <1>3, <1>4, <1>5, Zenon DEF PageOf
<1>7. last <= len /\ last <= m + syncPageSize /\ (last = len \/ last = m + syncPageSize)
  BY <1>2, <1>4
<1>8. /\ Len(t) = IF m < last THEN last - m ELSE 0
      /\ DOMAIN t = 1 .. Len(t)
      /\ \A j \in 1 .. last - m : t[j] = events[m + j]
  <2>1. events \in Seq(Nat) /\ last <= Len(events)
    BY <1>3, <1>7
  <2>2. /\ Len(SubSeq(events, m + 1, last)) = IF m < last THEN last - m ELSE 0
        /\ DOMAIN SubSeq(events, m + 1, last) = 1 .. Len(SubSeq(events, m + 1, last))
        /\ \A j \in 1 .. last - m : SubSeq(events, m + 1, last)[j] = events[m + j]
    BY <2>1, SubSeqPlaces, Zenon
  <2> QED
    BY <1>5, <2>2, Zenon
<1>9. /\ FirstPages(n) = {events[i] : i \in {j \in 1 .. len : j <= m + syncPageSize}}
      /\ FirstPages(n - 1) = {events[i] : i \in {j \in 1 .. len : j <= m}}
      /\ ToSet(events) = {events[i] : i \in 1 .. len}
  BY <1>1, <1>2, <1>3, Zenon DEF FirstPages, ToSet
<1>10. ASSUME NEW i \in 1 .. len, i <= m + syncPageSize, ~(i <= m)
       PROVE  events[i] \in ToSet(t)
  <2>1. /\ i - m \in 1 .. last - m /\ m + (i - m) = i /\ m < last
    BY <1>2, <1>7, <1>10
  <2>2. t[i - m] = events[i] /\ i - m \in DOMAIN t
    BY <1>8, <2>1
  <2> QED
    BY <2>2, Zenon DEF ToSet
<1>11. Len(t) \in Nat
  BY <1>8
<1>12. m + Len(t) >= len => \A i \in 1 .. len : i <= m + syncPageSize
  BY <1>2, <1>7, <1>8
<1>13. FirstPages(n) \subseteq FirstPages(n - 1) \cup ToSet(t)
  BY <1>9, <1>10
<1>14. m + Len(t) >= len => ToSet(events) \subseteq FirstPages(n)
  BY <1>9, <1>12
<1> QED
  BY <1>1, <1>3, <1>6, <1>11, <1>13, <1>14

\* A step that reads: only the view changes.
LEMMA PagesInvView ==
  ASSUME PagesInv, UNCHANGED <<vars, events>>,
         ListedAreCounted', ListedInv', WalkSeesAll', WalkInv'
  PROVE  PagesInv'
<1>1. KeysInv' /\ RevokedKnown'
  BY DEF PagesInv, vars, KeysInv, TypeOK, ToldSecretWorks, Verify, Rotating, RevokedKnown
<1>2. events' \in Seq(Nat) /\ ToSet(events') \subseteq 1 .. Len(events')
  BY DEF PagesInv
<1> QED
  BY <1>1, <1>2 DEF PagesInv

\* The queries of the devices page, and leaving a page.
LEMMA PagesInvDevices ==
  ASSUME PagesInv, (\E status \in Statuses : ListDevices(status)) \/ DeviceCounts \/ Leave
  PROVE  PagesInv'
<1>1. CASE \E status \in Statuses : ListDevices(status)
  <2>1. PICK status \in Statuses : ListDevices(status)
    BY <1>1
  <2>2. /\ view'.pc = "listed" /\ view'.tab = status /\ view'.devices = WithStatus(status)
        /\ UNCHANGED <<vars, events>>
    BY <2>1 DEF ListDevices
  <2>3. ListedInv'
    <3>1. WithStatus(status) \subseteq {k \in KeyIDs : keys[k] # NoRow}
      BY DEF WithStatus
    <3>2. status = "revoked" => \A k \in WithStatus(status) : keys[k].status = "revoked"
      BY DEF WithStatus
    <3> QED
      BY <2>2, <3>1, <3>2 DEF ListedInv, vars
  <2>4. ListedAreCounted' /\ WalkSeesAll' /\ WalkInv'
    BY <2>2 DEF ListedAreCounted, WalkSeesAll, WalkInv
  <2> QED
    BY <2>2, <2>3, <2>4, PagesInvView
<1>2. CASE DeviceCounts
  <2>1. view'.pc = "devices" /\ UNCHANGED <<vars, events>>
    BY <1>2 DEF DeviceCounts
  <2>2. ListedInv' /\ WalkSeesAll' /\ WalkInv'
    BY <2>1 DEF ListedInv, WalkSeesAll, WalkInv
  <2>3. ListedAreCounted'
    BY <1>2, PagesInvDeviceCounts
  <2> QED
    BY <2>1, <2>2, <2>3, PagesInvView
<1>3. CASE Leave
  <2>1. view'.pc = "blank" /\ UNCHANGED <<vars, events>>
    BY <1>3 DEF Leave, Blank
  <2>2. ListedAreCounted' /\ ListedInv' /\ WalkSeesAll' /\ WalkInv'
    BY <2>1 DEF ListedAreCounted, ListedInv, WalkSeesAll, WalkInv
  <2> QED
    BY <2>1, <2>2, PagesInvView
<1> QED
  BY <1>1, <1>2, <1>3

\* The COUNT of a page: what is on the pages before it has been seen.
LEMMA PagesInvCountEvents ==
  ASSUME PagesInv, NEW n \in 1 .. MaxEvents, CountEvents(n)
  PROVE  PagesInv'
<1>1. UNCHANGED <<vars, events>> /\ n \in Nat \ {0}
  BY PagesAssumption DEF CountEvents
<1>2. events \in Seq(Nat)
  BY DEF PagesInv
<1>3. CASE view.pc = "blank" /\ n = 1
  <2>1. view' = [pc |-> "counted", page |-> n, total |-> Len(events),
                 start |-> ToSet(events), seen |-> {}, crossed |-> FALSE]
    BY <1>3 DEF CountEvents
  <2>2. /\ view'.pc = "counted" /\ view'.page = n /\ view'.total = Len(events)
        /\ view'.start = ToSet(events) /\ view'.seen = {}
    BY <2>1, Zenon
  <2>3. FirstPages(n - 1)' = {}
    <3>1. (n - 1) * syncPageSize = 0 /\ DOMAIN events = 1 .. Len(events)
      BY <1>2, <1>3, PagesAssumption
    <3> QED
      BY <1>1, <3>1 DEF FirstPages
  <2>4. FirstPages(view.page - 1)' = FirstPages(n - 1)'
    BY <2>2 DEF FirstPages
  <2>5. WalkInv'
    BY <1>1, <2>2, <2>3, <2>4 DEF WalkInv
  <2>6. ListedAreCounted' /\ ListedInv' /\ WalkSeesAll'
    BY <2>2 DEF ListedAreCounted, ListedInv, WalkSeesAll
  <2> QED
    BY <1>1, <2>5, <2>6, PagesInvView
<1>4. CASE view.pc = "events" /\ (n = view.page + 1 \/ n = view.page - 1)
  <2>1. view' = [pc |-> "counted", page |-> n, total |-> Len(events),
                 start |-> view.start, seen |-> view.seen, crossed |-> view.crossed]
    BY <1>4 DEF CountEvents
  <2>2. /\ view'.pc = "counted" /\ view'.page = n /\ view'.total = Len(events)
        /\ view'.start = view.start /\ view'.seen = view.seen
    BY <2>1, Zenon
  <2>3. /\ view.page \in Nat \ {0} /\ view.start \subseteq ToSet(events)
        /\ view.start \cap FirstPages(view.page) \subseteq view.seen
    BY <1>4 DEF PagesInv, WalkInv
  <2>4. FirstPages(n - 1) \subseteq FirstPages(view.page)
    <3>1. PICK q \in Nat \ {0} : q = view.page
      BY <2>3
    <3>2. (n - 1) * syncPageSize <= q * syncPageSize
      BY <1>1, <1>4, <3>1, PagesAssumption
    <3>3. \A j \in DOMAIN events : j <= (n - 1) * syncPageSize => j <= q * syncPageSize
      BY <1>1, <1>2, <3>2, PagesAssumption
    <3> QED
      BY <3>1, <3>3 DEF FirstPages
  <2>5. FirstPages(view.page - 1)' = FirstPages(n - 1)
    BY <1>1, <2>2 DEF FirstPages
  <2>6. WalkInv'
    BY <1>1, <2>2, <2>3, <2>4, <2>5 DEF WalkInv
  <2>7. ListedAreCounted' /\ ListedInv' /\ WalkSeesAll'
    BY <2>2 DEF ListedAreCounted, ListedInv, WalkSeesAll
  <2> QED
    BY <1>1, <2>6, <2>7, PagesInvView
<1> QED
  BY <1>3, <1>4 DEF CountEvents

\* The SELECT of a page adds it to what has been seen; a page that is the last
\* by the COUNT before it reaches the end, if no event came in between.
LEMMA PagesInvSelectEvents ==
  ASSUME PagesInv, SelectEvents
  PROVE  PagesInv'
<1>1. UNCHANGED <<vars, events>> /\ view.pc = "counted"
  BY DEF SelectEvents
<1>2. /\ events \in Seq(Nat)
      /\ view.page \in Nat \ {0} /\ view.start \subseteq ToSet(events)
      /\ view.start \cap FirstPages(view.page - 1) \subseteq view.seen
  BY <1>1 DEF PagesInv, WalkInv
<1>3. PICK n \in Nat \ {0} : n = view.page
  BY <1>2
<1>4. PICK b : b = HasNext(n, PageOf(n), view.total)
  OBVIOUS
<1>5. view' = [pc |-> "events", page |-> n, hasNext |-> b, start |-> view.start,
               seen |-> view.seen \cup ToSet(PageOf(n)), crossed |-> view.crossed]
  BY <1>3, <1>4, Zenon DEF SelectEvents
<1>6. /\ view'.pc = "events" /\ view'.page = n /\ view'.start = view.start
      /\ view'.seen = view.seen \cup ToSet(PageOf(n))
      /\ view'.hasNext = b /\ view'.crossed = view.crossed
  BY <1>5, Zenon
<1>7. view'.start \cap FirstPages(n) \subseteq view'.seen
  <2>1. FirstPages(n) \subseteq FirstPages(n - 1) \cup ToSet(PageOf(n))
    BY <1>2, PageCovers
  <2> QED
    BY <1>2, <1>3, <1>6, <2>1
<1>8. FirstPages(view.page)' = FirstPages(n)
  BY <1>1, <1>6 DEF FirstPages
<1>9. WalkInv'
  <2>1. view'.page \in Nat \ {0} /\ view'.start \subseteq ToSet(events')
    BY <1>1, <1>2, <1>6
  <2>2. view'.start \cap FirstPages(view.page)' \subseteq view'.seen
    BY <1>7, <1>8
  <2> QED
    BY <1>6, <2>1, <2>2 DEF WalkInv
<1>10. ASSUME ~b, ~view.crossed PROVE view'.start \subseteq view'.seen
  <2>1. view.total = Len(events)
    BY <1>1, <1>10 DEF PagesInv, WalkInv
  <2>2. PICK m \in Nat : m = (n - 1) * syncPageSize
    BY PagesAssumption
  <2>3. ~(m + Len(PageOf(n)) < Len(events))
    BY <1>4, <1>10, <2>1, <2>2 DEF HasNext
  <2>4. Len(PageOf(n)) \in Nat /\ Len(events) \in Nat
    BY <1>2, PageCovers
  <2>5. m + Len(PageOf(n)) >= Len(events)
    BY <2>3, <2>4
  <2>6. ToSet(events) \subseteq FirstPages(n)
    BY <1>2, <2>2, <2>5, PageCovers
  <2> QED
    BY <1>2, <1>6, <1>7, <2>6
<1>11. WalkSeesAll'
  BY <1>6, <1>10, Zenon DEF WalkSeesAll
<1>12. ListedAreCounted' /\ ListedInv'
  BY <1>6 DEF ListedAreCounted, ListedInv
<1> QED
  BY <1>1, <1>9, <1>11, <1>12, PagesInvView

\* Nothing is shown and nothing is stored.
LEMMA PagesInvInit == PagesInit => PagesInv
<1> SUFFICES ASSUME PagesInit PROVE PagesInv
  OBVIOUS
<1>1. KeysInv
  BY KeysInvInit DEF PagesInit
<1>2. RevokedKnown
  BY DEF PagesInit, Init, RevokedKnown, NoRow
<1>3. events \in Seq(Nat) /\ ToSet(events) = {}
  BY DEF PagesInit, ToSet
<1>4. ListedAreCounted /\ ListedInv /\ WalkSeesAll /\ WalkInv
  BY DEF PagesInit, Blank, ListedAreCounted, ListedInv, WalkSeesAll, WalkInv
<1> QED
  BY <1>1, <1>2, <1>3, <1>4 DEF PagesInv

\* One case per action of PagesNext.
LEMMA PagesInvStep ==
  ASSUME PagesInv, [PagesNext]_pageVars
  PROVE  PagesInv'
<1>1. CASE Keys
  BY <1>1, PagesInvKeys DEF Keys
<1>2. CASE WriteSyncEvent
  BY <1>2, PagesInvWriteSyncEvent
<1>3. CASE (\E status \in Statuses : ListDevices(status)) \/ DeviceCounts \/ Leave
  BY <1>3, PagesInvDevices
<1>4. CASE \E k \in KeyIDs : RevokeShown(k)
  <2>1. Next /\ UNCHANGED <<events, view>>
    BY <1>4 DEF RevokeShown, Next
  <2> QED
    BY <2>1, PagesInvKeys
<1>5. CASE \E n \in 1 .. MaxEvents : CountEvents(n)
  BY <1>5, PagesInvCountEvents
<1>6. CASE SelectEvents
  BY <1>6, PagesInvSelectEvents
<1>7. CASE UNCHANGED pageVars
  BY <1>7, PagesInvKeys DEF pageVars
<1> QED
  BY <1>1, <1>2, <1>3, <1>4, <1>5, <1>6, <1>7 DEF PagesNext

\* The inductive invariant of the console's pages, over any table of keys and
\* any list of events.
THEOREM PagesInvInductive == PagesSpec => []PagesInv
BY PagesInvInit, PagesInvStep, PTL DEF PagesSpec

\* What DeviceKeys promises also holds with the admin console, which revokes the
\* keys that its device list shows.
THEOREM PagesKeepKeys == PagesSpec => [](ToldSecretWorks /\ RevokedUnlessRaced)
<1>1. PagesInv => ToldSecretWorks /\ RevokedUnlessRaced
  BY DEF PagesInv, KeysInv, RevokedUnlessRaced, Verify
<1> QED
  BY <1>1, PagesInvInductive, PTL

\* The counts of the devices page are no smaller than its lists
\* (admin/handlers_devices.go), for any set of keys.
THEOREM PagesListedAreCounted == PagesSpec => []ListedAreCounted
<1>1. PagesInv => ListedAreCounted
  BY DEF PagesInv
<1> QED
  BY <1>1, PagesInvInductive, PTL

\* A walk over the pages of sync events misses none (SyncPage), for any page
\* size and any number of events.
THEOREM PagesWalkSeesAll == PagesSpec => []WalkSeesAll
<1>1. PagesInv => WalkSeesAll
  BY DEF PagesInv
<1> QED
  BY <1>1, PagesInvInductive, PTL

-----------------------------------------------------------------------------
\* AdminRateLimit: any number of requests, addresses and attempts.

\* What the steps below need of the types.
LEMMA LimitTypes ==
  ASSUME LimitTypeOK, NEW ip \in IPs
  PROVE  /\ now \in Nat
         /\ rateBuckets[ip].count \in Nat /\ rateBuckets[ip].resetAt \in Int
         /\ failures[ip] \in Seq(0 .. now)
         /\ rateBuckets[ip] = [count |-> rateBuckets[ip].count,
                               resetAt |-> rateBuckets[ip].resetAt]
BY LimitAssumption DEF LimitTypeOK

\* The failures of an address are finitely many, and fewer the later one starts
\* to count.
LEMMA FailedSinceFinite ==
  ASSUME LimitTypeOK, NEW ip \in IPs, NEW t \in Int
  PROVE  /\ IsFiniteSet(FailedSince(ip, t)) /\ Cardinality(FailedSince(ip, t)) \in Nat
         /\ \A u \in Int : u <= t =>
              Cardinality(FailedSince(ip, t)) <= Cardinality(FailedSince(ip, u))
<1>1. failures[ip] \in Seq(0 .. now) /\ now \in Nat
  BY LimitTypes
<1>2. Len(failures[ip]) \in Nat /\ DOMAIN failures[ip] = 1 .. Len(failures[ip])
  BY <1>1
<1>3. \A u \in Int : FailedSince(ip, u) \in SUBSET (1 .. Len(failures[ip]))
  BY <1>2 DEF FailedSince
<1>4. \A u \in Int : IsFiniteSet(FailedSince(ip, u))
  <2>1. IsFiniteSet(1 .. Len(failures[ip]))
    BY <1>2, FS_Interval
  <2> QED
    BY <1>3, <2>1, FS_Subset
<1>5. \A u \in Int : u <= t => FailedSince(ip, t) \in SUBSET FailedSince(ip, u)
  <2> SUFFICES ASSUME NEW u \in Int, u <= t, NEW i \in DOMAIN failures[ip],
                      failures[ip][i] >= t
               PROVE  failures[ip][i] >= u
    BY DEF FailedSince
  <2>1. failures[ip][i] \in Int
    BY <1>1, <1>2
  <2> QED
    BY <2>1
<1> QED
  BY <1>4, <1>5, FS_Subset, FS_CardinalityType

\* The requests from an address that have passed the check, among all of them.
LEMMA InFlightFinite ==
  ASSUME NEW ip
  PROVE  /\ IsFiniteSet(InFlight(ip)) /\ Cardinality(InFlight(ip)) \in Nat
         /\ Cardinality(InFlight(ip)) <= Cardinality(Requests)
         /\ Cardinality(Requests) \in Nat
BY LimitAssumption, FS_Subset, FS_CardinalityType DEF InFlight

\* No request is counted before it has been let in.
LEMMA LimitInvInit == LimitInit => LimitInv
<1> SUFFICES ASSUME LimitInit PROVE LimitInv
  OBVIOUS
<1>1. \A ip \in IPs : /\ rateBuckets[ip].count = 0 /\ rateBuckets[ip].resetAt = -1
                      /\ failures[ip] = <<>>
  BY DEF LimitInit, NoBucket
<1>2. LimitTypeOK
  <2>1. 0 \in 0 .. MaxTime
    BY LimitAssumption
  <2>2. failures \in [IPs -> Seq(0 .. now)]
    BY DEF LimitInit
  <2> QED
    BY <2>1, <2>2 DEF LimitInit, LimitTypeOK, NoBucket, Outcome
<1>3. ExcessIsBounded
  <2> SUFFICES ASSUME NEW ip \in IPs
               PROVE  Cardinality(InFlight(ip)) <= maxAdminAttempts + Cardinality(Requests) - 1
    BY <1>1, InFlightFinite DEF ExcessIsBounded
  <2> QED
    BY LimitAssumption, InFlightFinite
<1>4. \A ip \in IPs :
        0 <= Cardinality(FailedSince(ip, rateBuckets[ip].resetAt - rateLimitWindow))
  BY <1>1, <1>2, FailedSinceFinite, LimitAssumption
<1>5. \A ip \in IPs : rateBuckets[ip].resetAt <= now + rateLimitWindow
  BY <1>1, LimitAssumption DEF LimitInit
<1> QED
  BY <1>1, <1>2, <1>3, <1>4, <1>5 DEF LimitInv

\* rateLimited preserves LimitInv: it lets a request in only below the limit.
LEMMA LimitInvRateLimited ==
  ASSUME LimitInv, NEW p \in Requests, NEW a \in IPs, RateLimited(p, a)
  PROVE  LimitInv'
<1> DEFINE b == IF Expired(a) THEN NoBucket ELSE rateBuckets[a]
           pc == IF b.count >= maxAdminAttempts THEN "limited" ELSE "password"
<1>1. /\ req[p].pc \in Outcome
      /\ rateBuckets' = [rateBuckets EXCEPT ![a] = b]
      /\ now' = now /\ failures' = failures
  BY DEF RateLimited
<1>2. LimitTypeOK /\ now \in Nat
  BY LimitTypes DEF LimitInv
<1>3. b \in [count : Nat, resetAt : Int] /\ (b = NoBucket \/ b = rateBuckets[a])
  <2>1. rateBuckets[a] \in [count : Nat, resetAt : Int]
    BY <1>2 DEF LimitTypeOK
  <2>2. NoBucket \in [count : Nat, resetAt : Int]
    BY DEF NoBucket
  <2> QED
    BY <2>1, <2>2
<1> HIDE DEF b
<1>4. \A ip \in IPs : rateBuckets'[ip] = IF ip = a THEN b ELSE rateBuckets[ip]
  BY <1>1, <1>2 DEF LimitTypeOK
<1>5. req' = [req EXCEPT ![p] = [pc |-> pc, ip |-> a]]
  BY <1>4 DEF RateLimited
<1>6. pc \in {"limited", "password"} /\ (pc = "password" => b.count < maxAdminAttempts)
  BY <1>3, LimitAssumption
<1> HIDE DEF pc
<1>7. LimitTypeOK'
  <2>1. [pc |-> pc, ip |-> a] \in [pc : Outcome \cup {"password"}, ip : IPs]
    BY <1>6 DEF Outcome
  <2> QED
    BY <1>1, <1>2, <1>3, <1>5, <2>1 DEF LimitTypeOK
<1>8. \A q \in Requests : req'[q] = IF q = p THEN [pc |-> pc, ip |-> a] ELSE req[q]
  BY <1>2, <1>5 DEF LimitTypeOK
<1>9. \A ip \in IPs : ip # a \/ pc = "limited" => InFlight(ip)' = InFlight(ip)
  BY <1>1, <1>8 DEF InFlight, Outcome
<1>10. InFlight(a)' \in SUBSET Requests
  BY DEF InFlight
<1>11. ASSUME NEW ip \in IPs
       PROVE  rateBuckets'[ip].count + Cardinality(InFlight(ip)')
                <= maxAdminAttempts + Cardinality(Requests) - 1
  <2>1. /\ rateBuckets[ip].count + Cardinality(InFlight(ip))
             <= maxAdminAttempts + Cardinality(Requests) - 1
        /\ rateBuckets[ip].count \in Nat /\ Cardinality(InFlight(ip)) \in Nat
        /\ Cardinality(Requests) \in Nat /\ maxAdminAttempts \in Nat
    BY <1>2, LimitTypes, InFlightFinite, LimitAssumption DEF LimitInv, ExcessIsBounded
  <2>2. CASE ip # a
    BY <1>4, <1>9, <2>1, <2>2
  <2>3. CASE ip = a /\ pc = "limited"
    <3>1. b.count = 0 \/ b.count = rateBuckets[a].count
      BY <1>3 DEF NoBucket
    <3>2. InFlight(ip)' = InFlight(ip) /\ rateBuckets'[ip].count = b.count
      BY <1>4, <1>9, <2>3
    <3> QED
      BY <2>1, <2>3, <3>1, <3>2
  <2>4. CASE ip = a /\ pc = "password"
    <3>1. /\ Cardinality(InFlight(ip)') <= Cardinality(Requests)
          /\ Cardinality(InFlight(ip)') \in Nat
      BY <1>10, <2>4, FS_Subset, FS_CardinalityType, LimitAssumption
    <3>2. rateBuckets'[ip].count < maxAdminAttempts /\ rateBuckets'[ip].count \in Nat
      BY <1>3, <1>4, <1>6, <2>4
    <3> QED
      BY <2>1, <3>1, <3>2
  <2> QED
    BY <1>6, <2>2, <2>3, <2>4
<1>12. ASSUME NEW ip \in IPs
       PROVE  /\ rateBuckets'[ip].resetAt <= now + rateLimitWindow
              /\ rateBuckets'[ip].count <=
                   Cardinality(FailedSince(ip, rateBuckets'[ip].resetAt - rateLimitWindow))
  <2>1. CASE rateBuckets'[ip] = rateBuckets[ip]
    BY <2>1 DEF LimitInv
  <2>2. CASE rateBuckets'[ip] = NoBucket
    <3>1. /\ rateBuckets'[ip].count = 0 /\ rateBuckets'[ip].resetAt = -1
          /\ -1 - rateLimitWindow \in Int
      BY <2>2, LimitAssumption DEF NoBucket
    <3> QED
      BY <1>2, <3>1, FailedSinceFinite, LimitAssumption
  <2> QED
    BY <1>3, <1>4, <2>1, <2>2
<1> QED
  BY <1>1, <1>7, <1>11, <1>12 DEF LimitInv, ExcessIsBounded, FailedSince

\* One more failure, at time n, is one more since any earlier time.
LEMMA AppendFailure ==
  ASSUME NEW n \in Nat, NEW s \in Seq(0 .. n), NEW t \in Int, t <= n,
         NEW f, f = Append(s, n)
  PROVE  /\ f \in Seq(0 .. n)
         /\ {i \in DOMAIN f : f[i] >= t} = {i \in DOMAIN s : s[i] >= t} \cup {Len(s) + 1}
         /\ Len(s) + 1 \notin {i \in DOMAIN s : s[i] >= t}
<1>1. /\ Len(s) \in Nat /\ DOMAIN s = 1 .. Len(s) /\ DOMAIN f = 1 .. Len(s) + 1
      /\ f[Len(s) + 1] = n /\ \A i \in 1 .. Len(s) : f[i] = s[i]
  OBVIOUS
<1>2. f \in Seq(0 .. n)
  <2>1. n \in 0 .. n
    OBVIOUS
  <2> QED
    BY <2>1
<1> QED
  BY <1>1, <1>2

\* recordAttempt preserves LimitInv: the request is counted instead of in flight,
\* and its failure lies in the window of the bucket that counts it.
LEMMA LimitInvRecordAttempt ==
  ASSUME LimitInv, NEW p \in Requests, RecordAttempt(p)
  PROVE  LimitInv'
<1>1. /\ LimitTypeOK /\ now \in 0 .. MaxTime /\ now \in Nat
      /\ rateLimitWindow \in Nat /\ maxAdminAttempts \in Nat \ {0}
      /\ req[p] = [pc |-> req[p].pc, ip |-> req[p].ip] /\ req[p].ip \in IPs
  BY LimitAssumption DEF LimitInv, LimitTypeOK
<1>2. PICK a \in IPs : a = req[p].ip
  BY <1>1
<1>3. PICK old \in [count : Nat, resetAt : Int] : old = rateBuckets[a]
  BY <1>1 DEF LimitTypeOK
<1>4. PICK b \in [count : Nat, resetAt : Int] :
        b = IF now > old.resetAt THEN [count |-> 1, resetAt |-> now + rateLimitWindow]
            ELSE [count |-> old.count + 1, resetAt |-> old.resetAt]
  <2>1. [count |-> 1, resetAt |-> now + rateLimitWindow] \in [count : Nat, resetAt : Int]
    BY <1>1
  <2>2. [count |-> old.count + 1, resetAt |-> old.resetAt] \in [count : Nat, resetAt : Int]
    OBVIOUS
  <2> QED
    BY <2>1, <2>2
<1>5. PICK f : f = Append(failures[a], now)
  OBVIOUS
<1>6. /\ req[p].pc = "password" /\ now' = now
      /\ req' = [req EXCEPT ![p] = [pc |-> "unauthorized", ip |-> a]]
      /\ failures' = [failures EXCEPT ![a] = f]
  <2>1. [req[p] EXCEPT !.pc = "unauthorized"] = [pc |-> "unauthorized", ip |-> a]
    BY <1>1, <1>2
  <2> QED
    BY <1>2, <1>5, <2>1 DEF RecordAttempt, Attempt
<1>7. rateBuckets' = [rateBuckets EXCEPT ![a] = b]
  <2>1. b = IF Expired(a) THEN [count |-> 1, resetAt |-> now + rateLimitWindow]
            ELSE [count |-> rateBuckets[a].count + 1, resetAt |-> rateBuckets[a].resetAt]
    BY <1>3, <1>4 DEF Expired
  <2> QED
    BY <1>2, <2>1 DEF RecordAttempt
<1>8. /\ \A ip \in IPs : rateBuckets'[ip] = IF ip = a THEN b ELSE rateBuckets[ip]
      /\ \A ip \in IPs : failures'[ip] = IF ip = a THEN f ELSE failures[ip]
      /\ \A q \in Requests :
           req'[q] = IF q = p THEN [pc |-> "unauthorized", ip |-> a] ELSE req[q]
  BY <1>1, <1>6, <1>7 DEF LimitTypeOK
<1>9. failures[a] \in Seq(0 .. now) /\ f \in Seq(0 .. now)
  <2>1. failures[a] \in Seq(0 .. now)
    BY <1>1, LimitTypes
  <2> QED
    BY <1>1, <1>5, <2>1, AppendFailure
<1>10. LimitTypeOK'
  <2>1. [pc |-> "unauthorized", ip |-> a] \in [pc : Outcome \cup {"password"}, ip : IPs]
    BY DEF Outcome
  <2>2. req' \in [Requests -> [pc : Outcome \cup {"password"}, ip : IPs]]
    BY <1>1, <1>6, <2>1 DEF LimitTypeOK
  <2> QED
    BY <1>1, <1>6, <1>7, <1>9, <2>2 DEF LimitTypeOK
<1>11. /\ p \in InFlight(a) /\ InFlight(a)' = InFlight(a) \ {p}
       /\ \A ip \in IPs : ip # a => InFlight(ip)' = InFlight(ip)
  BY <1>2, <1>6, <1>8 DEF InFlight
<1>12. ASSUME NEW ip \in IPs
       PROVE  rateBuckets'[ip].count + Cardinality(InFlight(ip)')
                <= maxAdminAttempts + Cardinality(Requests) - 1
  <2>1. /\ rateBuckets[ip].count + Cardinality(InFlight(ip))
             <= maxAdminAttempts + Cardinality(Requests) - 1
        /\ rateBuckets[ip].count \in Nat /\ Cardinality(InFlight(ip)) \in Nat
        /\ Cardinality(InFlight(ip)) <= Cardinality(Requests)
        /\ Cardinality(Requests) \in Nat
    BY <1>1, LimitTypes, InFlightFinite DEF LimitInv, ExcessIsBounded
  <2>2. CASE ip # a
    BY <1>8, <1>11, <2>1, <2>2
  <2>3. CASE ip = a
    <3>1. Cardinality(InFlight(ip) \ {p}) = Cardinality(InFlight(ip)) - 1
      BY <1>11, <2>3, FS_RemoveElement, InFlightFinite
    <3>2. Cardinality(InFlight(ip)') = Cardinality(InFlight(ip)) - 1
      BY <1>11, <2>3, <3>1
    <3>3. rateBuckets'[ip].count = 1 \/ rateBuckets'[ip].count = rateBuckets[ip].count + 1
      BY <1>3, <1>4, <1>8, <2>3
    <3> QED
      BY <1>1, <2>1, <3>2, <3>3
  <2> QED
    BY <2>2, <2>3
<1>13. ASSUME NEW ip \in IPs
       PROVE  /\ rateBuckets'[ip].resetAt <= now + rateLimitWindow
              /\ rateBuckets'[ip].count <=
                   Cardinality({i \in DOMAIN failures'[ip] :
                     failures'[ip][i] >= rateBuckets'[ip].resetAt - rateLimitWindow})
  <2>1. CASE ip # a
    BY <1>8, <2>1 DEF LimitInv, FailedSince
  <2>2. CASE ip = a
    <3>1. PICK t \in Int : t = b.resetAt - rateLimitWindow
      BY <1>1
    <3>2. PICK S : S = FailedSince(a, t)
      OBVIOUS
    <3>3. /\ old.resetAt <= now + rateLimitWindow
          /\ old.count <= Cardinality(FailedSince(a, old.resetAt - rateLimitWindow))
      BY <1>3 DEF LimitInv
    <3>4. b.resetAt <= now + rateLimitWindow /\ t <= now
      BY <1>1, <1>4, <3>1, <3>3
    <3>5. /\ {i \in DOMAIN f : f[i] >= t} = S \cup {Len(failures[a]) + 1}
          /\ Len(failures[a]) + 1 \notin S
      <4>1. PICK s : s = failures[a]
        OBVIOUS
      <4>2. now \in Nat /\ s \in Seq(0 .. now) /\ f = Append(s, now)
        BY <1>1, <1>5, <1>9, <4>1
      <4>3. /\ {i \in DOMAIN f : f[i] >= t} = {i \in DOMAIN s : s[i] >= t} \cup {Len(s) + 1}
            /\ Len(s) + 1 \notin {i \in DOMAIN s : s[i] >= t}
        BY <3>4, <4>2, AppendFailure
      <4> QED
        BY <3>2, <4>1, <4>3, Zenon DEF FailedSince
    <3>6. IsFiniteSet(S) /\ Cardinality(S) \in Nat
      BY <1>1, <3>2, FailedSinceFinite
    <3>7. Cardinality({i \in DOMAIN f : f[i] >= t}) = Cardinality(S) + 1
      BY <3>5, <3>6, FS_AddElement
    <3>8. b.count <= Cardinality(S) + 1
      BY <1>4, <3>1, <3>2, <3>3, <3>6
    <3> QED
      BY <1>8, <2>2, <3>1, <3>4, <3>7, <3>8
  <2> QED
    BY <2>1, <2>2
<1> QED
  BY <1>6, <1>10, <1>12, <1>13 DEF LimitInv, ExcessIsBounded, FailedSince

\* A request that leaves without being counted, or is turned away by its address,
\* preserves LimitInv, and so does time.
LEMMA LimitInvOther ==
  ASSUME LimitInv,
         \/ Tick \/ UNCHANGED limitVars
         \/ \E p \in Requests : Serve(p) \/ \E ip \in IPs : Forbid(p, ip)
  PROVE  LimitInv'
<1>0. /\ LimitTypeOK /\ now \in 0 .. MaxTime /\ now \in Nat
      /\ rateLimitWindow \in Nat /\ maxAdminAttempts \in Nat \ {0} /\ MaxTime \in Nat
  BY LimitAssumption DEF LimitInv, LimitTypeOK
<1>1. /\ rateBuckets' = rateBuckets /\ failures' = failures
      /\ now' = now \/ (now' = now + 1 /\ now < MaxTime)
  BY DEF Tick, Forbid, Serve, limitVars
<1>2. /\ req' \in [Requests -> [pc : Outcome \cup {"password"}, ip : IPs]]
      /\ \A q \in Requests : req'[q].pc = "password" => req'[q] = req[q]
  <2>1. CASE Tick \/ UNCHANGED limitVars
    BY <1>0, <2>1 DEF Tick, limitVars, LimitTypeOK
  <2>2. ASSUME NEW p \in Requests, NEW ip \in IPs, Forbid(p, ip)
        PROVE  <1>2
    <3>1. PICK c : c = [pc |-> "forbidden", ip |-> ip]
      OBVIOUS
    <3>2. c \in [pc : Outcome \cup {"password"}, ip : IPs] /\ c.pc # "password"
      BY <3>1 DEF Outcome
    <3>3. req' = [req EXCEPT ![p] = c]
      BY <2>2, <3>1 DEF Forbid
    <3> QED
      BY <1>0, <3>2, <3>3 DEF LimitTypeOK
  <2>3. ASSUME NEW p \in Requests, Serve(p)
        PROVE  <1>2
    <3>1. PICK c : c = [req[p] EXCEPT !.pc = "served"]
      OBVIOUS
    <3>2. c \in [pc : Outcome \cup {"password"}, ip : IPs] /\ c.pc # "password"
      BY <1>0, <3>1 DEF LimitTypeOK, Outcome
    <3>3. req' = [req EXCEPT ![p] = c]
      BY <2>3, <3>1 DEF Serve
    <3> QED
      BY <1>0, <3>2, <3>3 DEF LimitTypeOK
  <2> QED
    BY <2>1, <2>2, <2>3
<1>3. failures' \in [IPs -> Seq(0 .. now')] /\ now' \in 0 .. MaxTime
  <2>1. 0 .. now \subseteq 0 .. now' /\ now' \in 0 .. MaxTime
    BY <1>0, <1>1
  <2> QED
    BY <1>0, <1>1, <2>1 DEF LimitTypeOK
<1>4. LimitTypeOK'
  BY <1>0, <1>1, <1>2, <1>3 DEF LimitTypeOK
<1>5. ASSUME NEW ip \in IPs
      PROVE  rateBuckets'[ip].count + Cardinality(InFlight(ip)')
               <= maxAdminAttempts + Cardinality(Requests) - 1
  <2>1. InFlight(ip)' \in SUBSET InFlight(ip)
    BY <1>2 DEF InFlight
  <2>2. Cardinality(InFlight(ip)') <= Cardinality(InFlight(ip)) /\ Cardinality(InFlight(ip)') \in Nat
    BY <2>1, InFlightFinite, FS_Subset, FS_CardinalityType
  <2>3. /\ rateBuckets[ip].count \in Nat /\ Cardinality(InFlight(ip)) \in Nat
        /\ Cardinality(Requests) \in Nat
    BY <1>0, LimitTypes, InFlightFinite
  <2> QED
    BY <1>0, <1>1, <2>2, <2>3 DEF LimitInv, ExcessIsBounded
<1>6. \A ip \in IPs : rateBuckets[ip].resetAt <= now' + rateLimitWindow
  <2> SUFFICES ASSUME NEW ip \in IPs PROVE rateBuckets[ip].resetAt <= now' + rateLimitWindow
    OBVIOUS
  <2>1. rateBuckets[ip].resetAt \in Int /\ rateBuckets[ip].resetAt <= now + rateLimitWindow
    BY <1>0, LimitTypes DEF LimitInv
  <2> QED
    BY <1>0, <1>1, <2>1
<1> QED
  BY <1>1, <1>4, <1>5, <1>6 DEF LimitInv, ExcessIsBounded, FailedSince

\* LimitInv is inductive.
LEMMA LimitInvStep == LimitInv /\ [LimitNext]_limitVars => LimitInv'
<1> SUFFICES ASSUME LimitInv, [LimitNext]_limitVars PROVE LimitInv'
  OBVIOUS
<1>1. CASE \E p \in Requests, ip \in IPs : RateLimited(p, ip)
  BY <1>1, LimitInvRateLimited
<1>2. CASE \E p \in Requests : RecordAttempt(p)
  BY <1>2, LimitInvRecordAttempt
<1>3. CASE \/ Tick \/ UNCHANGED limitVars
           \/ \E p \in Requests : Serve(p) \/ \E ip \in IPs : Forbid(p, ip)
  BY <1>3, LimitInvOther
<1> QED
  BY <1>1, <1>2, <1>3 DEF LimitNext

\* LimitInv holds in every state.
THEOREM LimitInvInductive == LimitSpec => []LimitInv
BY LimitInvInit, LimitInvStep, PTL DEF LimitSpec

\* Wrong passwords that race between the check and the count exceed the limit by
\* less than the number of requests served at once (RequireAdminAuth).
THEOREM LimitExcessIsBounded == LimitSpec => []ExcessIsBounded
BY LimitInvInductive, PTL DEF LimitInv

\* A window is neither extended nor cut short by the attempts in it
\* (rateLimited, recordAttempt).
THEOREM LimitWindowIsFixed == LimitSpec => WindowIsFixed
<1>1. ASSUME LimitInv, [LimitNext]_limitVars, NEW ip \in IPs,
             rateBuckets'[ip].resetAt # rateBuckets[ip].resetAt
      PROVE  Expired(ip)
  <2>1. LimitTypeOK
    BY <1>1 DEF LimitInv
  <2>2. ASSUME NEW p \in Requests, NEW a \in IPs, RateLimited(p, a) PROVE Expired(ip)
    <3>1. rateBuckets'[ip] = IF ip = a /\ Expired(a) THEN NoBucket ELSE rateBuckets[ip]
      BY <2>1, <2>2 DEF RateLimited, LimitTypeOK
    <3> QED
      BY <1>1, <3>1
  <2>3. ASSUME NEW p \in Requests, RecordAttempt(p) PROVE Expired(ip)
    <3>1. req[p].ip \in IPs /\ rateBuckets[ip] \in [count : Nat, resetAt : Int]
      BY <2>1 DEF LimitTypeOK
    <3> DEFINE a == req[p].ip
    <3>2. rateBuckets' = [rateBuckets EXCEPT ![a] =
            IF Expired(a) THEN [count |-> 1, resetAt |-> now + rateLimitWindow]
            ELSE [count |-> rateBuckets[a].count + 1, resetAt |-> rateBuckets[a].resetAt]]
      BY <2>3 DEF RecordAttempt
    <3> HIDE DEF a
    <3>3. ip # a => rateBuckets'[ip] = rateBuckets[ip]
      BY <2>1, <3>2 DEF LimitTypeOK
    <3>4. ip = a /\ ~Expired(a) =>
            rateBuckets'[ip].resetAt = rateBuckets[ip].resetAt
      BY <2>1, <3>2 DEF LimitTypeOK
    <3> QED
      BY <1>1, <3>1, <3>3, <3>4
  <2> QED
    BY <1>1, <2>2, <2>3 DEF LimitNext, Tick, Forbid, Serve, limitVars
<1>2. LimitInv /\ [LimitNext]_limitVars =>
        [\A ip \in IPs : rateBuckets'[ip].resetAt # rateBuckets[ip].resetAt => Expired(ip)]_limitVars
  BY <1>1
<1> QED
  BY <1>2, LimitInvInductive, PTL DEF LimitSpec, WindowIsFixed

\* Only an address with as many recent wrong passwords as the limit is refused
\* (rateLimited).
THEOREM LimitForRecentFailures == LimitSpec => LimitedForRecentFailures
<1>1. ASSUME LimitInv, [LimitNext]_limitVars, NEW p \in Requests,
             req[p].pc # "limited", req'[p].pc = "limited"
      PROVE  Cardinality(FailedSince(req'[p].ip, now - rateLimitWindow)) >= maxAdminAttempts
  <2>1. /\ LimitTypeOK /\ now \in Nat
        /\ rateLimitWindow \in Nat /\ maxAdminAttempts \in Nat \ {0}
    BY <1>1, LimitAssumption DEF LimitInv, LimitTypeOK
  <2>2. PICK q \in Requests, a \in IPs : RateLimited(q, a)
    <3>1. CASE Tick \/ UNCHANGED limitVars
      BY <1>1, <3>1 DEF Tick, limitVars
    <3>2. ASSUME NEW q \in Requests, NEW a \in IPs, Forbid(q, a) PROVE FALSE
      BY <1>1, <2>1, <3>2 DEF Forbid, LimitTypeOK
    <3>3. ASSUME NEW q \in Requests, RecordAttempt(q) PROVE FALSE
      BY <1>1, <2>1, <3>3 DEF RecordAttempt, Attempt, LimitTypeOK
    <3>4. ASSUME NEW q \in Requests, Serve(q) PROVE FALSE
      BY <1>1, <2>1, <3>4 DEF Serve, LimitTypeOK
    <3> QED
      BY <1>1, <3>1, <3>2, <3>3, <3>4 DEF LimitNext
  <2>3. PICK b : b = IF Expired(a) THEN NoBucket ELSE rateBuckets[a]
    OBVIOUS
  <2>4. rateBuckets'[a] = b
    BY <2>1, <2>2, <2>3 DEF RateLimited, LimitTypeOK
  <2>5. q = p /\ req'[p].ip = a /\ b.count >= maxAdminAttempts
    BY <1>1, <2>1, <2>2, <2>4 DEF RateLimited, LimitTypeOK
  <2>6. b = rateBuckets[a] /\ ~Expired(a)
    BY <2>1, <2>3, <2>5 DEF NoBucket
  <2>7. PICK r \in Int : r = rateBuckets[a].resetAt
    BY <2>1, LimitTypes
  <2>8. PICK t \in Int : t = r - rateLimitWindow /\ now - rateLimitWindow <= t
    BY <2>1, <2>6, <2>7 DEF Expired
  <2>9. /\ Cardinality(FailedSince(a, t)) <= Cardinality(FailedSince(a, now - rateLimitWindow))
        /\ Cardinality(FailedSince(a, t)) \in Nat
        /\ Cardinality(FailedSince(a, now - rateLimitWindow)) \in Nat
    <3>1. now - rateLimitWindow \in Int
      BY <2>1
    <3> QED
      BY <2>1, <2>8, <3>1, FailedSinceFinite
  <2>10. b.count <= Cardinality(FailedSince(a, t)) /\ b.count \in Nat
    BY <1>1, <2>1, <2>6, <2>7, <2>8, LimitTypes DEF LimitInv
  <2> QED
    BY <2>1, <2>5, <2>9, <2>10
<1>2. LimitInv /\ [LimitNext]_limitVars =>
        [\A p \in Requests : req[p].pc # "limited" /\ req'[p].pc = "limited" =>
           Cardinality(FailedSince(req'[p].ip, now - rateLimitWindow)) >= maxAdminAttempts]_limitVars
  BY <1>1
<1> QED
  BY <1>2, LimitInvInductive, PTL DEF LimitSpec, LimitedForRecentFailures
=============================================================================
