----------------------------- MODULE DeviceKeys -----------------------------
(***************************************************************************)
(* Device keys: DeviceService (server/auth/device.go) over the table       *)
(* device_keys (storage/crsqlite/authstore.go), and the admin's            *)
(* RevokeDevice (storage/crsqlite/adminstore.go).  DELETE /devices/{id}    *)
(* passes RequireDeviceKey (server/middleware/auth.go) first, with the key *)
(* of any device.                                                          *)
(*                                                                         *)
(* RotateKey and Revoke read a row, change the copy and write key_hash and *)
(* status back: two statements, with a slow bcrypt between them, and other *)
(* requests run in between.  A hash stands for the secret it was made of.  *)
(***************************************************************************)
CONSTANTS
  KeyIDs,       \* device_key_ids that Register may draw
  Secrets,      \* device secrets
  Procs         \* requests

VARIABLES
  keys,         \* keys[k]: the row of k, or NoRow
  call,         \* call[p]: the copy that request p is about to write, or NoCall,
                \* or Admitted when it has passed RequireDeviceKey
  told,         \* history: told[k], the secret of the last Register or RotateKey
  revoked,      \* history: the keys for which a revocation has returned
  raced         \* history: the keys revoked while a rotation was under way

vars == <<keys, call, told, revoked, raced>>

NoRow == [hash |-> "none", status |-> "none"]
NoCall == [op |-> "none"]
Admitted == [op |-> "admitted"]

Row == [hash : Secrets, status : {"active", "revoked"}]

\* Rows and the local copies of RotateKey and Revoke.
TypeOK ==
  /\ keys \in [KeyIDs -> Row \cup {NoRow}]
  /\ call \in [Procs -> [op : {"rotate", "revoke"}, key : KeyIDs, dk : Row]
                        \cup {NoCall, Admitted}]
  /\ told \in [KeyIDs -> Secrets \cup {"none"}]
  /\ revoked \in SUBSET KeyIDs
  /\ raced \in SUBSET KeyIDs

Init ==
  /\ keys = [k \in KeyIDs |-> NoRow]
  /\ call = [p \in Procs |-> NoCall]
  /\ told = [k \in KeyIDs |-> "none"]
  /\ revoked = {}
  /\ raced = {}

\* Request p has read a row and not written it yet.
Writing(p) == call[p].op \in {"rotate", "revoke"}

Rotating(k) == \E p \in Procs : call[p].op = "rotate" /\ call[p].key = k

\* The INSERT, under a new UUID.
CreateDeviceKey(k, dk) ==
  /\ keys[k] = NoRow
  /\ keys' = [keys EXCEPT ![k] = dk]

Register(k, secret) ==
  /\ CreateDeviceKey(k, [hash |-> secret, status |-> "active"])
  /\ told' = [told EXCEPT ![k] = secret]
  /\ UNCHANGED <<call, revoked, raced>>

\* The SELECT, which finds no row for an unknown key.
GetDeviceKey(k) == keys[k]

\* Verify reads the row once; what it answers is a function of it.
Verify(k, secret) ==
  GetDeviceKey(k).status = "active" /\ GetDeviceKey(k).hash = secret

\* The request goes on to its handler if Verify accepts its X-Device-Key.
RequireDeviceKey(p, k, secret) ==
  /\ call[p] = NoCall
  /\ Verify(k, secret)
  /\ call' = [call EXCEPT ![p] = Admitted]
  /\ UNCHANGED <<keys, told, revoked, raced>>

\* Mutant of RotateRead: a revoked key is rotated as well, and active again.
RotateReadAnyStatus(p, k, oldSecret, newSecret) ==
  /\ call[p] = NoCall
  /\ keys[k] # NoRow /\ keys[k].hash = oldSecret
  /\ call' = [call EXCEPT ![p] = [op |-> "rotate", key |-> k,
                                  dk |-> [hash |-> newSecret, status |-> "active"]]]
  /\ UNCHANGED <<keys, told, revoked, raced>>

\* RotateKey up to UpdateDeviceKey; it returns an error, and changes nothing,
\* if the row is missing or revoked or the secret is wrong.
RotateRead(p, k, oldSecret, newSecret) ==
  /\ call[p] = NoCall
  /\ Verify(k, oldSecret)
  /\ call' = [call EXCEPT ![p] = [op |-> "rotate", key |-> k,
                                  dk |-> [GetDeviceKey(k) EXCEPT !.hash = newSecret]]]
  /\ UNCHANGED <<keys, told, revoked, raced>>

\* Mutant of RevokeRead: the copy's status is left as it was read.
RevokeReadKeepsStatus(p, k) ==
  /\ call[p] = Admitted
  /\ keys[k] # NoRow
  /\ call' = [call EXCEPT ![p] = [op |-> "revoke", key |-> k, dk |-> keys[k]]]
  /\ UNCHANGED <<keys, told, revoked, raced>>

\* Revoke up to UpdateDeviceKey; an unknown key is an error.
RevokeRead(p, k) ==
  /\ call[p] = Admitted
  /\ GetDeviceKey(k) # NoRow
  /\ call' = [call EXCEPT ![p] = [op |-> "revoke", key |-> k,
                                  dk |-> [GetDeviceKey(k) EXCEPT !.status = "revoked"]]]
  /\ UNCHANGED <<keys, told, revoked, raced>>

\* UpdateDeviceKey writes key_hash and status, and the request returns.
UpdateDeviceKey(p) ==
  LET k == call[p].key
  IN  /\ Writing(p)
      /\ keys' = [keys EXCEPT ![k] = call[p].dk]
      /\ call' = [call EXCEPT ![p] = NoCall]
      /\ IF call[p].op = "rotate"
         THEN told' = [told EXCEPT ![k] = call[p].dk.hash] /\ UNCHANGED <<revoked, raced>>
         ELSE /\ revoked' = revoked \cup {k}
              /\ raced' = IF Rotating(k) THEN raced \cup {k} ELSE raced
              /\ UNCHANGED told

\* AdminDeviceStore.RevokeDevice, one UPDATE of the status.
RevokeDevice(k) ==
  /\ keys[k] # NoRow
  /\ keys' = [keys EXCEPT ![k].status = "revoked"]
  /\ revoked' = revoked \cup {k}
  /\ raced' = IF Rotating(k) THEN raced \cup {k} ELSE raced
  /\ UNCHANGED <<call, told>>

\* A call of the store fails, or the request ends or is cut off before it.
Fail(p) ==
  /\ call[p] # NoCall
  /\ call' = [call EXCEPT ![p] = NoCall]
  /\ UNCHANGED <<keys, told, revoked, raced>>

Next ==
  \/ \E k \in KeyIDs :
       \/ \E s \in Secrets : Register(k, s)
       \/ RevokeDevice(k)
  \/ \E p \in Procs :
       \/ \E k \in KeyIDs, old, new \in Secrets : RotateRead(p, k, old, new)
       \/ \E k \in KeyIDs, s \in Secrets : RequireDeviceKey(p, k, s)
       \/ \E k \in KeyIDs : RevokeRead(p, k)
       \/ UpdateDeviceKey(p)
       \/ Fail(p)

Spec == Init /\ [][Next]_vars

-----------------------------------------------------------------------------
\* A key that works opens with the secret its device was last told, whatever
\* rotations and revocations of it cross (RotateKey, Revoke).
ToldSecretWorks ==
  \A k \in KeyIDs : keys[k].status = "active" => Verify(k, told[k])

\* Once a revocation has returned, no secret opens the key any more, unless a
\* rotation was between its read and its write when the revocation wrote.
RevokedUnlessRaced ==
  \A k \in revoked \ raced : \A s \in Secrets : ~Verify(k, s)

\* device_test.go:84 as written: a "revoked device must be rejected".
RevokedIsRejected ==
  \A k \in revoked : \A s \in Secrets : ~Verify(k, s)

\* The inductive form of RevokedUnlessRaced.
KeysInv ==
  /\ TypeOK
  /\ ToldSecretWorks
  /\ \A k \in revoked : keys[k] # NoRow
  /\ \A k \in revoked \ raced : keys[k].status = "revoked" /\ ~Rotating(k)
  /\ \A p \in Procs : Writing(p) =>
       /\ keys[call[p].key] # NoRow
       /\ call[p].dk.status = IF call[p].op = "rotate" THEN "active" ELSE "revoked"
=============================================================================
