---------------------------- MODULE Server_proofs ----------------------------
(***************************************************************************)
(* Theorems of Server, for any requests, scopes, pages and commits.  The   *)
(* steps of EnsureDataset and of the backup runner are taken by themselves *)
(* first; those of Run then only have to keep their invariants.            *)
(***************************************************************************)
EXTENDS Server, SequenceTheorems, TLAPS

DataInv == DataTypeOK /\ EnsureInv /\ RowsAreReplicated /\ RowsInPlace

BackupInv == BackupTypeOK /\ FileInv /\ CopyInv /\ StopIsKept

-----------------------------------------------------------------------------
\* Requests

\* A call of a method begins.
LEMMA DataBegin ==
  ASSUME DataInv, NEW r \in Reqs, NEW x \in Scopes, Begin(r, x)
  PROVE  DataInv'
<1>1. call' = [call EXCEPT ![r] = [pc |-> "table", scope |-> x]] /\ UNCHANGED <<tables, crr, rows>>
  BY DEF Begin
<1>2. DataTypeOK'
  BY <1>1 DEF DataInv, DataTypeOK, Labels
<1>3. EnsureInv' /\ RowsAreReplicated' /\ RowsInPlace'
  BY <1>1 DEF DataInv, DataTypeOK, EnsureInv, RowsAreReplicated, RowsInPlace, Replicated
<1> QED
  BY <1>2, <1>3 DEF DataInv

\* A statement of a method runs, or fails.
LEMMA DataWork ==
  ASSUME DataInv, NEW r \in Reqs, Work(r) \/ StatementFails(r)
  PROVE  DataInv'
<1> DEFINE x == call[r].scope
           t == Table(x)
<1> USE DEF DataInv
<1>1. ASSUME CreateTable(r) PROVE DataInv'
  <2>1. call[r] # NoCall /\ x \in Scopes
    BY <1>1 DEF CreateTable, At, NoCall, DataTypeOK
  <2>2. /\ call' = [call EXCEPT ![r].pc = "check"]
        /\ tables' = tables \cup {t} /\ UNCHANGED <<crr, rows>>
    BY <1>1 DEF CreateTable, Goto
  <2> HIDE DEF t
  <2>3. t \in {Table(y) : y \in Scopes}
    BY <2>1 DEF t
  <2>4. DataTypeOK'
    BY <2>1, <2>2, <2>3 DEF DataTypeOK, Labels
  <2>5. EnsureInv'
    BY <2>1, <2>2 DEF DataTypeOK, EnsureInv, Replicated, t
  <2> QED
    BY <2>2, <2>4, <2>5 DEF RowsAreReplicated, RowsInPlace, Replicated
<1>2. ASSUME CheckShadow(r) PROVE DataInv'
  <2>1. call[r] # NoCall /\ x \in Scopes /\ t \in tables
    BY <1>2 DEF CheckShadow, At, NoCall, DataTypeOK, EnsureInv
  <2>2. /\ call' = [call EXCEPT ![r].pc = IF datasetTable(x) \in crr THEN "statement" ELSE "mark"]
        /\ UNCHANGED <<tables, crr, rows>>
    BY <1>2 DEF CheckShadow, Goto
  <2>3. DataTypeOK'
    BY <2>1, <2>2 DEF DataTypeOK, Labels
  <2>4. datasetTable(x) \in crr => Replicated(t)
    BY DEF Replicated, Table
  <2>5. EnsureInv'
    BY <2>1, <2>2, <2>4 DEF DataTypeOK, EnsureInv, Replicated
  <2> QED
    BY <2>2, <2>3, <2>5 DEF RowsAreReplicated, RowsInPlace, Replicated
<1>3. ASSUME AsCRR(r) PROVE DataInv'
  <2>1. call[r] # NoCall /\ x \in Scopes /\ t \in tables
    BY <1>3 DEF AsCRR, At, NoCall, DataTypeOK, EnsureInv
  <2>2. /\ call' = [call EXCEPT ![r].pc = "statement"]
        /\ crr' = IF Replicated(t) THEN crr ELSE crr \cup {datasetTable(x)}
        /\ UNCHANGED <<tables, rows>>
    BY <1>3 DEF AsCRR, Goto
  <2>3. /\ crr \subseteq crr'
        /\ \E name \in crr' : Fold(name) = t
    BY <2>2 DEF Replicated, Table
  <2>4. DataTypeOK'
    <3>1. datasetTable(x) \in {datasetTable(y) : y \in Scopes} /\ Fold(datasetTable(x)) \in tables
      BY <2>1 DEF Table
    <3>2. /\ crr' \subseteq {datasetTable(y) : y \in Scopes}
          /\ \A name \in crr' : Fold(name) \in tables
      BY <2>2, <3>1 DEF DataTypeOK
    <3> QED
      BY <2>1, <2>2, <3>2 DEF DataTypeOK, Labels
  <2>5. EnsureInv'
    BY <2>1, <2>2, <2>3 DEF DataTypeOK, EnsureInv, Replicated
  <2> QED
    BY <2>2, <2>3, <2>4, <2>5 DEF RowsAreReplicated, RowsInPlace, Replicated
<1>4. ASSUME Statement(r) PROVE DataInv'
  <2>1. call[r] # NoCall /\ x \in Scopes /\ Replicated(t)
    BY <1>4 DEF Statement, At, NoCall, DataTypeOK, EnsureInv
  <2>2. /\ call' = [call EXCEPT ![r] = NoCall]
        /\ rows' \in {rows, rows \cup {<<t, x>>}} /\ UNCHANGED <<tables, crr>>
    BY <1>4 DEF Statement, Return
  <2>3. t \in tables
    BY <2>1 DEF DataTypeOK, Replicated
  <2>4. DataTypeOK'
    BY <2>1, <2>2, <2>3 DEF DataTypeOK
  <2>5. EnsureInv'
    BY <2>1, <2>2 DEF DataTypeOK, EnsureInv, NoCall, Replicated
  <2> QED
    BY <2>1, <2>2, <2>4, <2>5 DEF RowsAreReplicated, RowsInPlace, Replicated
<1>5. ASSUME StatementFails(r) PROVE DataInv'
  <2>1. call' = [call EXCEPT ![r] = NoCall] /\ UNCHANGED <<tables, crr, rows>>
    BY <1>5 DEF StatementFails, Return
  <2> QED
    BY <2>1 DEF DataTypeOK, EnsureInv, RowsAreReplicated, RowsInPlace, NoCall, Replicated
<1> QED
  BY <1>1, <1>2, <1>3, <1>4, <1>5 DEF Work

-----------------------------------------------------------------------------
\* Names of tables

\* The elements of a concatenation, counted from either part.
LEMMA ConcatElements ==
  ASSUME NEW S, NEW s \in Seq(S), NEW t \in Seq(S)
  PROVE  /\ s \o t \in Seq(S) /\ Len(s \o t) = Len(s) + Len(t)
         /\ \A i \in 1 .. Len(s) : (s \o t)[i] = s[i]
         /\ \A i \in 1 .. Len(t) : (s \o t)[Len(s) + i] = t[i]
<1>1. /\ s \o t \in Seq(S) /\ Len(s \o t) = Len(s) + Len(t)
      /\ \A i \in 1 .. Len(s) + Len(t) :
           (s \o t)[i] = IF i <= Len(s) THEN s[i] ELSE t[i - Len(s)]
  BY ConcatProperties
<1>2. Len(s) \in Nat /\ Len(t) \in Nat
  OBVIOUS
<1>3. ASSUME NEW i \in 1 .. Len(t) PROVE (s \o t)[Len(s) + i] = t[i]
  <2>1. /\ Len(s) + i \in 1 .. Len(s) + Len(t) /\ ~(Len(s) + i <= Len(s))
        /\ (Len(s) + i) - Len(s) = i
    BY <1>2
  <2> QED
    BY <1>1, <2>1
<1> QED
  BY <1>1, <1>2, <1>3

\* The separator is none of the characters that sanitize leaves.
LEMMA SeparatorIsNone == Separator \notin Alphanumeric /\ Separator # "A"
BY Zenon DEF Separator, Alphanumeric

LEMMA HyphenIsNone == Hyphen \notin Alphanumeric
BY Zenon DEF Hyphen, Alphanumeric

\* A part of a name and the separators around it.
LEMMA FrameAt ==
  ASSUME NEW L \in Nat, NEW a \in Nat, NEW t, NEW m, NEW j \in 0 .. L + 1,
         t[a + 1] = Separator, t[a + L + 2] = Separator,
         \A i \in 1 .. L : t[a + 1 + i] = m[i],
         \A i \in 1 .. L : m[i] = Separator <=> i \in Hyphens,
         Hyphens \subseteq 1 .. L,
         \A i : i \in Frame <=> i = 0 \/ i = L + 1 \/ i \in Hyphens
  PROVE  t[a + 1 + j] = Separator <=> j \in Frame
<1>1. CASE j = 0
  BY <1>1
<1>2. CASE j = L + 1
  <2>1. a + 1 + j = a + L + 2
    BY <1>2
  <2> QED
    BY <1>2, <2>1
<1>3. CASE j \in 1 .. L
  BY <1>3
<1> QED
  BY <1>1, <1>2, <1>3

\* Two places for the frame of a user's id, no further apart than its length,
\* are the same.
LEMMA FrameFitsOnce ==
  ASSUME NEW L \in Nat, NEW a \in Nat, NEW b \in Nat, b <= L, NEW t,
         \A k \in 1 .. L : \E j \in 0 .. L + 1 - k : ~(j \in Frame <=> j + k \in Frame),
         \A j \in 0 .. L + 1 : t[a + 1 + j] = Separator <=> j \in Frame,
         \A j \in 0 .. L + 1 : t[b + 1 + j] = Separator <=> j \in Frame
  PROVE  ~ a < b
<1> SUFFICES ASSUME a < b PROVE FALSE
  OBVIOUS
<1>1. PICK k \in 1 .. L : b = a + k
  <2>1. b - a \in 1 .. L /\ b = a + (b - a)
    OBVIOUS
  <2> QED
    BY <2>1
<1>2. PICK j \in 0 .. L + 1 - k : ~(j \in Frame <=> j + k \in Frame)
  BY <1>1
<1>3. /\ j \in 0 .. L + 1 /\ j + k \in 0 .. L + 1
      /\ a + 1 + (j + k) = b + 1 + j
  BY <1>1, <1>2
<1> QED
  BY <1>2, <1>3, Zenon

\* Where the parts of a scope are in the name of its table.
LEMMA NameLayout ==
  ASSUME NEW x \in Scopes
  PROVE  LET a == Len(x.app)
             u == Len(x.user)
             d == Len(x.dataset)
             t == Table(x)
         IN  /\ a \in Nat /\ u \in Nat /\ d \in Nat
             /\ DOMAIN t = 1 .. a + u + d + 2
             /\ \A i \in 1 .. a : t[i] = Fold(sanitize(x.app))[i]
             /\ t[a + 1] = Separator
             /\ \A i \in 1 .. u : t[a + 1 + i] = Fold(sanitize(x.user))[i]
             /\ t[a + u + 2] = Separator
             /\ \A i \in 1 .. d : t[a + u + 2 + i] = Fold(sanitize(x.dataset))[i]
<1> DEFINE a == Len(x.app)
           u == Len(x.user)
           d == Len(x.dataset)
           C == Alphanumeric \cup {Separator}
           A == sanitize(x.app)
           U == sanitize(x.user)
           D == sanitize(x.dataset)
           s1 == A \o <<Separator>>
           s2 == s1 \o U
           s3 == s2 \o <<Separator>>
           s4 == s3 \o D
<1>1. /\ x.app \in Seq(Char) /\ x.user \in Seq(Char) /\ x.dataset \in Seq(Char)
      /\ a \in Nat /\ u \in Nat /\ d \in Nat
  BY DatasetsAssumption DEF Identifier
<1>3. ASSUME NEW s \in Seq(Char)
      PROVE  sanitize(s) \in Seq(C) /\ Len(sanitize(s)) = Len(s) /\ DOMAIN sanitize(s) = 1 .. Len(s)
  <2>1. Len(s) \in Nat /\ DOMAIN s = 1 .. Len(s)
    OBVIOUS
  <2>2. \A i \in 1 .. Len(s) : (IF s[i] \in Alphanumeric THEN s[i] ELSE Separator) \in C
    OBVIOUS
  <2>3. sanitize(s) \in [1 .. Len(s) -> C]
    BY <2>1, <2>2 DEF sanitize
  <2> QED
    BY <2>1, <2>3, SeqDef
<1>4. /\ A \in Seq(C) /\ Len(A) = a /\ U \in Seq(C) /\ Len(U) = u /\ D \in Seq(C) /\ Len(D) = d
  BY <1>1, <1>3
<1>5. <<Separator>> \in Seq(C) /\ Len(<<Separator>>) = 1 /\ <<Separator>>[1] = Separator
  OBVIOUS
<1> HIDE DEF a, u, d, A, U, D, C
<1> USE SeparatorIsNone
<1>6. /\ s1 \in Seq(C) /\ Len(s1) = a + 1
      /\ \A i \in 1 .. a : s1[i] = A[i]
      /\ s1[a + 1] = Separator
  <2>0. A \in Seq(C) /\ <<Separator>> \in Seq(C)
    BY <1>4, <1>5
  <2>1. /\ s1 \in Seq(C) /\ Len(s1) = Len(A) + Len(<<Separator>>)
        /\ \A i \in 1 .. Len(A) : s1[i] = A[i]
        /\ \A i \in 1 .. Len(<<Separator>>) : s1[Len(A) + i] = <<Separator>>[i]
    BY <2>0, ConcatElements
  <2>2. 1 \in 1 .. Len(<<Separator>>)
    OBVIOUS
  <2> HIDE DEF s1
  <2> QED
    BY <1>1, <1>4, <1>5, <2>1, <2>2
<1> HIDE DEF s1
<1>7. /\ s2 \in Seq(C) /\ Len(s2) = a + u + 1
      /\ \A i \in 1 .. a + 1 : s2[i] = s1[i]
      /\ \A i \in 1 .. u : s2[a + 1 + i] = U[i]
  <2>0. s1 \in Seq(C) /\ U \in Seq(C)
    BY <1>4, <1>6
  <2>1. /\ s2 \in Seq(C) /\ Len(s2) = Len(s1) + Len(U)
        /\ \A i \in 1 .. Len(s1) : s2[i] = s1[i]
        /\ \A i \in 1 .. Len(U) : s2[Len(s1) + i] = U[i]
    BY <2>0, ConcatElements
  <2> HIDE DEF s2
  <2> QED
    BY <1>1, <1>4, <1>6, <2>1
<1> HIDE DEF s2
<1>8. /\ s3 \in Seq(C) /\ Len(s3) = a + u + 2
      /\ \A i \in 1 .. a + u + 1 : s3[i] = s2[i]
      /\ s3[a + u + 2] = Separator
  <2>1. /\ s3 \in Seq(C) /\ Len(s3) = Len(s2) + 1
        /\ \A i \in 1 .. Len(s2) : s3[i] = s2[i]
        /\ \A i \in 1 .. 1 : s3[Len(s2) + i] = <<Separator>>[i]
    BY <1>5, <1>7, ConcatElements
  <2>2. 1 \in 1 .. 1 /\ (a + u + 1) + 1 = a + u + 2
    BY <1>1
  <2> HIDE DEF s3
  <2> QED
    BY <1>1, <1>5, <1>7, <2>1, <2>2
<1> HIDE DEF s3
<1>9. /\ s4 \in Seq(C) /\ Len(s4) = a + u + d + 2
      /\ \A i \in 1 .. a + u + 2 : s4[i] = s3[i]
      /\ \A i \in 1 .. d : s4[a + u + 2 + i] = D[i]
  <2>0. s3 \in Seq(C) /\ D \in Seq(C)
    BY <1>4, <1>8
  <2>1. /\ s4 \in Seq(C) /\ Len(s4) = Len(s3) + Len(D)
        /\ \A i \in 1 .. Len(s3) : s4[i] = s3[i]
        /\ \A i \in 1 .. Len(D) : s4[Len(s3) + i] = D[i]
    BY <2>0, ConcatElements
  <2> HIDE DEF s4
  <2> QED
    BY <1>1, <1>4, <1>8, <2>1
<1>10. Table(x) = Fold(s4)
  BY DEF Table, datasetTable, s1, s2, s3, A, U, D
<1> HIDE DEF s4
<1>11. /\ DOMAIN Table(x) = 1 .. a + u + d + 2
       /\ \A i \in 1 .. a + u + d + 2 : Table(x)[i] = IF s4[i] = "A" THEN "a" ELSE s4[i]
  <2>1. DOMAIN s4 = 1 .. a + u + d + 2
    BY <1>1, <1>9
  <2> QED
    BY <1>10, <2>1 DEF Fold
<1>12. /\ \A i \in 1 .. a : Fold(A)[i] = IF A[i] = "A" THEN "a" ELSE A[i]
       /\ \A i \in 1 .. u : Fold(U)[i] = IF U[i] = "A" THEN "a" ELSE U[i]
       /\ \A i \in 1 .. d : Fold(D)[i] = IF D[i] = "A" THEN "a" ELSE D[i]
  BY <1>4 DEF Fold
<1>13. ASSUME NEW i \in 1 .. a PROVE Table(x)[i] = Fold(A)[i]
  <2>1. i \in 1 .. a + 1 /\ i \in 1 .. a + u + 1 /\ i \in 1 .. a + u + 2 /\ i \in 1 .. a + u + d + 2
    BY <1>1
  <2>2. s4[i] = A[i]
    <3>1. s4[i] = s3[i] /\ s3[i] = s2[i]
      BY <1>8, <1>9, <2>1
    <3>2. s2[i] = s1[i] /\ s1[i] = A[i]
      BY <1>6, <1>7, <2>1
    <3> QED
      BY <3>1, <3>2
  <2> QED
    BY <1>11, <1>12, <2>1, <2>2, Zenon
<1>14. Table(x)[a + 1] = Separator
  <2>1. /\ a + 1 \in 1 .. a + 1 /\ a + 1 \in 1 .. a + u + 1 /\ a + 1 \in 1 .. a + u + 2
        /\ a + 1 \in 1 .. a + u + d + 2
    BY <1>1
  <2>2. s4[a + 1] = Separator
    <3>1. s4[a + 1] = s3[a + 1] /\ s3[a + 1] = s2[a + 1]
      BY <1>8, <1>9, <2>1
    <3> QED
      BY <1>6, <1>7, <2>1, <3>1
  <2> QED
    BY <1>11, <2>1, <2>2
<1>15. ASSUME NEW i \in 1 .. u PROVE Table(x)[a + 1 + i] = Fold(U)[i]
  <2>1. /\ a + 1 + i \in 1 .. a + u + 1 /\ a + 1 + i \in 1 .. a + u + 2
        /\ a + 1 + i \in 1 .. a + u + d + 2
    BY <1>1
  <2>2. s4[a + 1 + i] = U[i]
    <3>1. s4[a + 1 + i] = s3[a + 1 + i] /\ s3[a + 1 + i] = s2[a + 1 + i]
      BY <1>8, <1>9, <2>1
    <3> QED
      BY <1>7, <3>1
  <2> QED
    BY <1>11, <1>12, <2>1, <2>2, Zenon
<1>16. Table(x)[a + u + 2] = Separator
  <2>1. a + u + 2 \in 1 .. a + u + 2 /\ a + u + 2 \in 1 .. a + u + d + 2
    BY <1>1
  <2>2. s4[a + u + 2] = Separator
    BY <1>8, <1>9, <2>1, Zenon
  <2> QED
    BY <1>11, <2>1, <2>2
<1>17. ASSUME NEW i \in 1 .. d PROVE Table(x)[a + u + 2 + i] = Fold(D)[i]
  <2>1. a + u + 2 + i \in 1 .. a + u + d + 2
    BY <1>1
  <2>2. s4[a + u + 2 + i] = D[i]
    BY <1>9
  <2> QED
    BY <1>11, <1>12, <2>1, <2>2, Zenon
<1> QED
  BY <1>1, <1>11, <1>13, <1>14, <1>15, <1>16, <1>17, Zenon DEF a, u, d, A, U, D

\* A user's id of Keycloak's: its hyphens become separators, nothing else does,
\* and it can be read off from what it becomes.
LEMMA UserFrame ==
  ASSUME NEW s \in Seq(Char), KeycloakID(s)
  PROVE  /\ \A i \in 1 .. UserLen : Fold(sanitize(s))[i] = Separator <=> i \in Hyphens
         /\ \A i \in 1 .. UserLen :
              s[i] = IF i \in Hyphens THEN Hyphen ELSE Fold(sanitize(s))[i]
<1>1. DOMAIN s = 1 .. UserLen
  BY DEF KeycloakID
<1> SUFFICES ASSUME NEW i \in 1 .. UserLen
             PROVE  /\ Fold(sanitize(s))[i] = Separator <=> i \in Hyphens
                    /\ s[i] = IF i \in Hyphens THEN Hyphen ELSE Fold(sanitize(s))[i]
  OBVIOUS
<1>2. sanitize(s)[i] = IF s[i] \in Alphanumeric THEN s[i] ELSE Separator
  BY <1>1 DEF sanitize
<1>3. Fold(sanitize(s))[i] = IF sanitize(s)[i] = "A" THEN "a" ELSE sanitize(s)[i]
  BY <1>1 DEF Fold, sanitize
<1>4. CASE i \in Hyphens
  BY <1>2, <1>3, <1>4, SeparatorIsNone, HyphenIsNone, Zenon DEF KeycloakID
<1>5. CASE i \notin Hyphens
  <2>1. s[i] \in Alphanumeric /\ s[i] # "A"
    BY <1>5 DEF KeycloakID
  <2> QED
    BY <1>2, <1>3, <1>5, <2>1, SeparatorIsNone, Zenon
<1> QED
  BY <1>4, <1>5

\* Regular scopes that have the same table are of one user, and the same up to
\* what sanitize and the folding of case make of the others' names.
LEMMA NameTellsScope ==
  ASSUME NEW x \in Scopes, NEW y \in Scopes, Regular(x), Regular(y), Table(x) = Table(y)
  PROVE  x.user = y.user /\ SameName(x.app, y.app) /\ SameName(x.dataset, y.dataset)
<1> DEFINE L == UserLen
           a == Len(x.app)
           d == Len(x.dataset)
           b == Len(y.app)
           e == Len(y.dataset)
           t == Table(x)
           p == Fold(sanitize(x.app))
           q == Fold(sanitize(y.app))
           m == Fold(sanitize(x.user))
           n == Fold(sanitize(y.user))
           f == Fold(sanitize(x.dataset))
           g == Fold(sanitize(y.dataset))
<1>0. /\ L \in Nat /\ Hyphens \subseteq 1 .. L
      /\ \A k \in 1 .. L : \E j \in 0 .. L + 1 - k : ~(j \in Frame <=> j + k \in Frame)
  BY UserFormAssumption
<1>1. /\ x.app \in Seq(Char) /\ x.user \in Seq(Char) /\ x.dataset \in Seq(Char)
      /\ y.app \in Seq(Char) /\ y.user \in Seq(Char) /\ y.dataset \in Seq(Char)
  BY DatasetsAssumption DEF Identifier
<1>2. Len(x.user) = L /\ Len(y.user) = L /\ a <= L /\ b <= L
  BY DEF Regular, KeycloakID
<1>3. /\ a \in Nat /\ d \in Nat
      /\ DOMAIN t = 1 .. a + L + d + 2
      /\ \A i \in 1 .. a : t[i] = p[i]
      /\ t[a + 1] = Separator
      /\ \A i \in 1 .. L : t[a + 1 + i] = m[i]
      /\ t[a + L + 2] = Separator
      /\ \A i \in 1 .. d : t[a + L + 2 + i] = f[i]
  <2>1. Len(x.user) = L
    BY <1>2
  <2> QED
    BY <2>1, NameLayout
<1>4. /\ b \in Nat /\ e \in Nat
      /\ DOMAIN t = 1 .. b + L + e + 2
      /\ \A i \in 1 .. b : t[i] = q[i]
      /\ t[b + 1] = Separator
      /\ \A i \in 1 .. L : t[b + 1 + i] = n[i]
      /\ t[b + L + 2] = Separator
      /\ \A i \in 1 .. e : t[b + L + 2 + i] = g[i]
  <2>1. /\ b \in Nat /\ e \in Nat
        /\ DOMAIN Table(y) = 1 .. b + Len(y.user) + e + 2
        /\ \A i \in 1 .. b : Table(y)[i] = q[i]
        /\ Table(y)[b + 1] = Separator
        /\ \A i \in 1 .. Len(y.user) : Table(y)[b + 1 + i] = n[i]
        /\ Table(y)[b + Len(y.user) + 2] = Separator
        /\ \A i \in 1 .. e : Table(y)[b + Len(y.user) + 2 + i] = g[i]
    BY NameLayout
  <2>2. Len(y.user) = L /\ t = Table(y)
    BY <1>2
  <2> HIDE DEF L, b, e, t, q, n, g
  <2> QED
    BY <2>1, <2>2
<1>5. /\ p = [i \in 1 .. a |-> p[i]] /\ q = [i \in 1 .. b |-> q[i]]
      /\ f = [i \in 1 .. d |-> f[i]] /\ g = [i \in 1 .. e |-> g[i]]
  BY <1>1 DEF Fold, sanitize
<1>6. /\ \A i \in 1 .. L : m[i] = Separator <=> i \in Hyphens
      /\ \A i \in 1 .. L : n[i] = Separator <=> i \in Hyphens
      /\ \A i \in 1 .. L : x.user[i] = IF i \in Hyphens THEN Hyphen ELSE m[i]
      /\ \A i \in 1 .. L : y.user[i] = IF i \in Hyphens THEN Hyphen ELSE n[i]
  BY <1>1, UserFrame DEF Regular
<1>7. \A j : j \in Frame <=> j = 0 \/ j = L + 1 \/ j \in Hyphens
  BY DEF Frame
<1> HIDE DEF L, a, d, b, e, t, p, q, m, n, f, g
\* The frame is in the name at the place of either scope's user ...
<1>8. ASSUME NEW j \in 0 .. L + 1 PROVE t[a + 1 + j] = Separator <=> j \in Frame
  BY <1>0, <1>3, <1>6, <1>7, FrameAt
<1>9. ASSUME NEW j \in 0 .. L + 1 PROVE t[b + 1 + j] = Separator <=> j \in Frame
  BY <1>0, <1>4, <1>6, <1>7, FrameAt
\* ... and fits in one place only.
<1>10. a = b
  <2>1. ~ a < b /\ ~ b < a
    <3>1. /\ \A j \in 0 .. L + 1 : t[a + 1 + j] = Separator <=> j \in Frame
          /\ \A j \in 0 .. L + 1 : t[b + 1 + j] = Separator <=> j \in Frame
      BY <1>8, <1>9
    <3>2. a \in Nat /\ b \in Nat /\ a <= L /\ b <= L
      BY <1>2, <1>3, <1>4
    <3>3. ~ a < b
      BY <1>0, <3>1, <3>2, FrameFitsOnce
    <3>4. ~ b < a
      BY <1>0, <3>1, <3>2, FrameFitsOnce
    <3> QED
      BY <3>3, <3>4
  <2> QED
    BY <1>3, <1>4, <2>1
<1>11. d = e
  BY <1>0, <1>3, <1>4, <1>10
<1>12. p = q
  <2>1. \A i \in 1 .. a : p[i] = q[i]
    BY <1>3, <1>4, <1>10
  <2> QED
    BY <1>5, <1>10, <2>1
<1>13. x.user = y.user
  <2>1. \A i \in 1 .. L : m[i] = n[i]
    BY <1>3, <1>4, <1>10
  <2>2. \A i \in 1 .. L : x.user[i] = y.user[i]
    BY <1>6, <2>1, Zenon
  <2> QED
    BY <1>1, <1>2, <2>2, SeqEqual DEF L
<1>14. f = g
  <2>1. \A i \in 1 .. d : f[i] = g[i]
    BY <1>0, <1>3, <1>4, <1>10, <1>11
  <2> QED
    BY <1>5, <1>11, <2>1
<1> QED
  BY <1>12, <1>13, <1>14 DEF SameName, p, q, f, g

-----------------------------------------------------------------------------
\* The backup runner and the database file

\* A step of Start, of copyFile or of the ticker.
LEMMA BackupRunnerStep ==
  ASSUME BackupInv, Runner
  PROVE  BackupInv'
<1> USE BackupAssumption DEF BackupInv
<1>1. ASSUME Start PROVE BackupInv'
  BY <1>1 DEF Start, BackupTypeOK, FileInv, CopyInv, StopIsKept
<1>2. ASSUME Tick PROVE BackupInv'
  BY <1>2 DEF Tick, BackupTypeOK, FileInv, CopyInv, StopIsKept
<1>3. ASSUME RunOnce PROVE BackupInv'
  <2> DEFINE begun == [pages |-> <<>>, status |-> "copying", from |-> file[NPages],
                       met |-> FALSE]
  <2>1. CASE UNCHANGED <<runner, copy>>
    BY <1>3, <2>1 DEF RunOnce, BackupTypeOK, FileInv, CopyInv, StopIsKept
  <2>2. CASE runner' = "copy" /\ copy' = begun
    <3>1. file[NPages] \in Nat /\ <<>> \in Seq(Nat)
      BY DEF BackupTypeOK
    <3>2. begun \in [pages : Seq(Nat), status : {"none", "copying", "ok", "error"},
                     from : Nat, met : BOOLEAN]
      BY <3>1, Zenon
    <3>3. BackupTypeOK'
      BY <1>3, <2>2, <3>2 DEF RunOnce, BackupTypeOK
    <3>4. FileInv' /\ StopIsKept'
      BY <1>3, <2>2 DEF RunOnce, FileInv, StopIsKept
    <3>5. copy'.pages = <<>> /\ copy'.status = "copying" /\ copy'.from = file[NPages]
      BY <2>2
    <3>6. CopyInv'
      BY <1>3, <3>1, <3>5 DEF RunOnce, CopyInv
    <3> QED
      BY <3>3, <3>4, <3>6
  <2> QED
    BY <1>3, <2>1, <2>2 DEF RunOnce, NoCopy
<1>4. ASSUME CopyPage PROVE BackupInv'
  <2> DEFINE n == Len(copy.pages)
             page == file[n + 1]
             m == copy.met \/ n + 1 = written
             k == [copy EXCEPT !.pages = Append(copy.pages, page), !.met = m]
  <2>1. /\ runner = "copy" /\ n < NPages /\ n \in Nat
        /\ copy' = k
        /\ UNCHANGED <<runner, tick, stop, stopped, committed, file, written>>
    BY <1>4 DEF CopyPage, BackupTypeOK
  <2>2. /\ n + 1 \in 1 .. NPages /\ NPages \in 1 .. NPages
        /\ page \in 0 .. committed /\ page \in Nat /\ file[NPages] \in 0 .. committed
        /\ committed \in Nat /\ written \in 0 .. NPages - 1
    BY <2>1 DEF BackupTypeOK
  <2>3. Append(copy.pages, page) \in Seq(Nat) /\ m \in BOOLEAN
    BY <2>2 DEF BackupTypeOK
  <2>4. /\ copy' \in [pages : Seq(Nat), status : {"none", "copying", "ok", "error"},
                      from : Nat, met : BOOLEAN]
        /\ copy'.pages = Append(copy.pages, page)
        /\ copy'.status = copy.status /\ copy'.from = copy.from /\ copy'.met = m
    <3>1. copy \in [pages : Seq(Nat), status : {"none", "copying", "ok", "error"},
                    from : Nat, met : BOOLEAN]
      BY DEF BackupTypeOK
    <3> HIDE DEF m, page
    <3> QED
      BY <2>1, <2>3, <3>1, Zenon
  <2> HIDE DEF k
  <2>5. BackupTypeOK'
    BY <2>1, <2>4 DEF BackupTypeOK
  <2>6. FileInv' /\ StopIsKept'
    BY <2>1 DEF FileInv, StopIsKept
  <2>7. copy.status = "copying" /\ copy.from <= file[NPages]
    BY <2>1 DEF CopyInv
  \* The page is of the commit that the copy is of, if it is not the first.
  <2>8. ~copy'.met => ~copy.met /\ n + 1 # written
    BY <2>4
  <2>9. page \in copy.from .. committed
    <3>1. page = committed \/ page = file[NPages]
      BY <2>2 DEF FileInv
    <3>2. file[NPages] <= committed
      BY <2>2
    <3> QED
      BY <2>2, <2>7, <3>1, <3>2 DEF BackupTypeOK
  <2>10. ~copy'.met /\ n > 0 => page = copy.pages[1]
    <3> SUFFICES ASSUME ~copy'.met, n > 0 PROVE page = copy.pages[1]
      OBVIOUS
    <3>1. \/ written < n /\ file[NPages] = copy.pages[1]
          \/ written > n /\ committed = copy.pages[1]
      BY <2>1, <2>2, <2>8 DEF CopyInv
    <3>2. written < n => page = file[NPages]
      BY <2>2 DEF FileInv
    <3>3. written > n => page = committed
      BY <2>2 DEF FileInv
    <3> QED
      BY <3>1, <3>2, <3>3
  <2>11. /\ Len(copy'.pages) = n + 1
         /\ copy'.pages[n + 1] = page
         /\ \A g \in 1 .. n : copy'.pages[g] = copy.pages[g]
    BY <2>1, <2>2, <2>4 DEF BackupTypeOK
  <2>12. ~copy'.met => copy'.pages[1] = page
    <3>1. CASE n = 0
      BY <2>11, <3>1
    <3>2. CASE n > 0
      BY <2>1, <2>10, <2>11, <3>2
    <3> QED
      BY <2>1, <3>1, <3>2
  <2>13. ~copy'.met => \A g \in 1 .. n + 1 : copy'.pages[g] = page /\ page \in copy.from .. committed
    <3> SUFFICES ASSUME ~copy'.met, NEW g \in 1 .. n + 1
                 PROVE  copy'.pages[g] = page
      BY <2>9
    <3>1. CASE g = n + 1
      BY <2>11, <3>1
    <3>2. CASE g \in 1 .. n
      <4>1. copy.pages[g] = copy.pages[1]
        BY <2>7, <2>8, <3>2 DEF CopyInv
      <4> QED
        BY <2>1, <2>10, <2>11, <3>2, <4>1
    <3> QED
      BY <2>1, <3>1, <3>2
  <2>14. ~copy'.met /\ n + 1 <= NPages - 1 =>
           \/ written < n + 1 /\ file[NPages] = page
           \/ written > n + 1 /\ committed = page
    <3> SUFFICES ASSUME ~copy'.met, n + 1 <= NPages - 1
                 PROVE  \/ written < n + 1 /\ file[NPages] = page
                        \/ written > n + 1 /\ committed = page
      OBVIOUS
    <3>1. written # n + 1
      BY <2>8
    <3>2. written < n + 1 => page = file[NPages]
      BY <2>2 DEF FileInv
    <3>3. written > n + 1 => page = committed
      BY <2>2 DEF FileInv
    <3> QED
      BY <2>1, <2>2, <3>1, <3>2, <3>3
  <2> HIDE DEF n, page, m
  <2>15. n + 1 \in 1 .. NPages
    BY <2>2
  <2>16. CopyInv'
    <3>1. runner' = "copy" => copy'.status = "copying" /\ copy'.from <= file'[NPages]
      BY <2>1, <2>4, <2>7
    <3>2. Len(copy'.pages) <= NPages /\ (copy'.status = "ok" => Len(copy'.pages) = NPages)
      BY <2>4, <2>7, <2>11, <2>15
    <3>3. copy'.status \in {"copying", "ok"} /\ ~copy'.met =>
            \A g \in 1 .. Len(copy'.pages) :
              copy'.pages[g] = copy'.pages[1] /\ copy'.pages[g] \in copy'.from .. committed'
      BY <2>1, <2>4, <2>11, <2>12, <2>13
    <3>4. runner' = "copy" /\ ~copy'.met /\ Len(copy'.pages) \in 1 .. NPages - 1 =>
            \/ written' < Len(copy'.pages) /\ file'[NPages] = copy'.pages[1]
            \/ written' > Len(copy'.pages) /\ committed' = copy'.pages[1]
      BY <2>1, <2>11, <2>12, <2>14
    <3> QED
      BY <3>1, <3>2, <3>3, <3>4 DEF CopyInv
  <2> QED
    BY <2>5, <2>6, <2>16
<1>5. ASSUME CopyEnds PROVE BackupInv'
  <2>1. PICK st \in {"ok", "error"} :
          /\ st = "ok" => Len(copy.pages) = NPages
          /\ copy' = [copy EXCEPT !.status = st]
    BY <1>5 DEF CopyEnds
  <2>2. /\ copy' \in [pages : Seq(Nat), status : {"none", "copying", "ok", "error"},
                      from : Nat, met : BOOLEAN]
        /\ copy'.pages = copy.pages /\ copy'.status = st
        /\ copy'.from = copy.from /\ copy'.met = copy.met
    BY <2>1, Zenon DEF BackupTypeOK
  <2>3. /\ runner = "copy" /\ runner' = "select"
        /\ UNCHANGED <<tick, stop, stopped, committed, file, written>>
    BY <1>5 DEF CopyEnds
  <2>4. BackupTypeOK' /\ FileInv' /\ StopIsKept'
    BY <2>2, <2>3 DEF BackupTypeOK, FileInv, StopIsKept
  <2>5. CopyInv'
    BY <2>1, <2>2, <2>3 DEF CopyInv
  <2> QED
    BY <2>4, <2>5
<1>6. ASSUME StartReturns PROVE BackupInv'
  BY <1>6 DEF StartReturns, BackupTypeOK, FileInv, CopyInv, StopIsKept
<1> QED
  BY <1>1, <1>2, <1>3, <1>4, <1>5, <1>6 DEF Runner

\* A commit or a page of a checkpoint.
LEMMA BackupDatabaseStep ==
  ASSUME BackupInv, Commit \/ CheckpointPage
  PROVE  BackupInv'
<1> USE BackupAssumption DEF BackupInv
<1>1. ASSUME Commit PROVE BackupInv'
  BY <1>1 DEF Commit, BackupTypeOK, FileInv, CopyInv, StopIsKept
<1>2. ASSUME CheckpointPage PROVE BackupInv'
  <2> DEFINE n == Len(copy.pages)
             m == copy.met \/ (runner = "copy" /\ written' > 0 /\ written' = n)
  <2>1. /\ written > 0 \/ file[NPages] < committed
        /\ file' = [file EXCEPT ![written + 1] = committed]
        /\ written' = IF written + 1 = NPages THEN 0 ELSE written + 1
        /\ copy' = [copy EXCEPT !.met = m]
        /\ UNCHANGED <<runner, tick, stop, stopped, committed>>
    BY <1>2 DEF CheckpointPage
  <2>2. m \in BOOLEAN
    BY DEF BackupTypeOK
  <2>3. /\ copy' \in [pages : Seq(Nat), status : {"none", "copying", "ok", "error"},
                      from : Nat, met : BOOLEAN]
        /\ copy'.pages = copy.pages /\ copy'.status = copy.status
        /\ copy'.from = copy.from /\ copy'.met = m
    <3>1. copy \in [pages : Seq(Nat), status : {"none", "copying", "ok", "error"},
                    from : Nat, met : BOOLEAN]
      BY DEF BackupTypeOK
    <3> HIDE DEF m
    <3> QED
      BY <2>1, <2>2, <3>1, Zenon
  <2>4. /\ n \in Nat /\ committed \in Nat /\ written \in 0 .. NPages - 1
        /\ written + 1 \in 1 .. NPages /\ NPages \in 1 .. NPages
        /\ \A g \in 1 .. NPages : file[g] \in 0 .. committed
    BY DEF BackupTypeOK
  <2>5. BackupTypeOK'
    <3>1. file' \in [1 .. NPages -> 0 .. committed'] /\ written' \in 0 .. NPages - 1
      BY <2>1, <2>4 DEF BackupTypeOK
    <3> QED
      BY <2>1, <2>3, <3>1 DEF BackupTypeOK
  <2>6. \A g \in 1 .. NPages : file'[g] = IF g = written + 1 THEN committed ELSE file[g]
    BY <2>1 DEF BackupTypeOK
  <2>7. FileInv'
    <3>1. CASE written + 1 = NPages
      BY <2>1, <2>4, <2>6, <3>1 DEF FileInv
    <3>2. CASE written + 1 < NPages
      BY <2>1, <2>4, <2>6, <3>2 DEF FileInv
    <3> QED
      BY <2>4, <3>1, <3>2
  <2>8. StopIsKept'
    BY <2>1 DEF StopIsKept
  <2>9. runner = "copy" => copy.from <= file'[NPages]
    <3>1. file[NPages] <= committed /\ file'[NPages] \in {file[NPages], committed}
      BY <2>4, <2>6
    <3> QED
      BY <2>4, <3>1 DEF CopyInv, BackupTypeOK
  <2>10. ASSUME runner = "copy", ~m, n \in 1 .. NPages - 1
         PROVE  \/ written' < n /\ file'[NPages] = copy.pages[1]
                \/ written' > n /\ committed = copy.pages[1]
    <3>1. ~copy.met /\ (written' > 0 => written' # n)
      BY <2>10
    <3>2. \/ written < n /\ file[NPages] = copy.pages[1]
          \/ written > n /\ committed = copy.pages[1]
      BY <2>10, <3>1 DEF CopyInv
    <3>3. CASE written < n
      <4>1. written' = written + 1 /\ file'[NPages] = file[NPages] /\ written' < n
        BY <2>1, <2>4, <2>6, <2>10, <3>1, <3>3
      <4> QED
        BY <3>2, <3>3, <4>1, <2>4
    <3>4. CASE written > n
      <4>1. CASE written + 1 = NPages
        BY <2>1, <2>4, <2>6, <2>10, <3>2, <3>4, <4>1
      <4>2. CASE written + 1 < NPages
        BY <2>1, <2>4, <3>2, <3>4, <4>2
      <4> QED
        BY <2>4, <4>1, <4>2
    <3> QED
      BY <3>2, <3>3, <3>4
  <2>11. ~m => ~copy.met
    OBVIOUS
  <2> HIDE DEF m, n
  <2>12. CopyInv'
    <3>1. runner' = "copy" => copy'.status = "copying" /\ copy'.from <= file'[NPages]
      BY <2>1, <2>3, <2>9 DEF CopyInv
    <3>2. Len(copy'.pages) <= NPages /\ (copy'.status = "ok" => Len(copy'.pages) = NPages)
      BY <2>3 DEF CopyInv
    <3>3. copy'.status \in {"copying", "ok"} /\ ~copy'.met =>
            \A g \in 1 .. Len(copy'.pages) :
              copy'.pages[g] = copy'.pages[1] /\ copy'.pages[g] \in copy'.from .. committed'
      BY <2>1, <2>3, <2>11 DEF CopyInv
    <3>4. runner' = "copy" /\ ~copy'.met /\ Len(copy'.pages) \in 1 .. NPages - 1 =>
            \/ written' < Len(copy'.pages) /\ file'[NPages] = copy'.pages[1]
            \/ written' > Len(copy'.pages) /\ committed' = copy'.pages[1]
      BY <2>1, <2>3, <2>10 DEF n
    <3> QED
      BY <3>1, <3>2, <3>3, <3>4 DEF CopyInv
  <2> QED
    BY <2>5, <2>7, <2>8, <2>12
<1> QED
  BY <1>1, <1>2

-----------------------------------------------------------------------------
\* Run

\* ServerInv is inductive: every step of a request, of the runner and of Run
\* preserves it.
THEOREM ServerInvInductive == Spec => []ServerInv
<1>1. Init => ServerInv
  <2> SUFFICES ASSUME Init PROVE ServerInv
    OBVIOUS
  <2> USE BackupAssumption DEF Init
  <2>1. DataInv
    BY DEF DataInit, DataInv, DataTypeOK, EnsureInv, RowsAreReplicated, RowsInPlace, NoCall
  <2>2. BackupTypeOK
    <3>1. NoCopy \in [pages : Seq(Nat), status : {"none", "copying", "ok", "error"},
                      from : Nat, met : BOOLEAN]
      <4>1. <<>> \in Seq(Nat) /\ 0 \in Nat
        OBVIOUS
      <4> QED
        BY <4>1, Zenon DEF NoCopy
    <3>2. /\ committed \in 0 .. MaxCommits /\ written \in 0 .. NPages - 1
          /\ file \in [1 .. NPages -> 0 .. committed]
      BY DEF BackupInit
    <3>3. /\ runner \in {"off", "ready", "select", "copy", "returned"}
          /\ tick \in BOOLEAN /\ stop \in BOOLEAN /\ stopped \in BOOLEAN
      BY DEF BackupInit
    <3>4. copy = NoCopy
      BY DEF BackupInit
    <3> QED
      BY <3>1, <3>2, <3>3, <3>4, Zenon DEF BackupTypeOK
  <2>3. FileInv /\ CopyInv /\ StopIsKept
    BY DEF BackupInit, FileInv, CopyInv, StopIsKept, NoCopy
  <2>4. RunInv
    BY DEF RunInv, BackupInit
  <2> QED
    BY <2>1, <2>2, <2>3, <2>4 DEF ServerInv, TypeOK, DataInv
<1>2. ServerInv /\ [Next]_vars => ServerInv'
  <2> SUFFICES ASSUME ServerInv, [Next]_vars PROVE ServerInv'
    OBVIOUS
  <2>1. /\ DataInv /\ BackupTypeOK /\ (phase # "exited" => FileInv)
        /\ CopyInv /\ StopIsKept /\ RunInv
    BY DEF ServerInv, TypeOK, DataInv
  <2>2. ASSUME UNCHANGED backupVars
        PROVE  BackupTypeOK' /\ (phase # "exited" => FileInv') /\ CopyInv' /\ StopIsKept'
    BY <2>1, <2>2 DEF backupVars, BackupTypeOK, FileInv, CopyInv, StopIsKept
  <2>3. ASSUME UNCHANGED dataVars PROVE DataInv'
    BY <2>1, <2>3 DEF dataVars, DataInv, DataTypeOK, EnsureInv, RowsAreReplicated, RowsInPlace, Replicated
  <2>4. ASSUME NEW r \in Reqs, Accept(r) PROVE ServerInv'
    <3>1. DataInv'
      BY <2>1, <2>4, DataBegin DEF Accept
    <3>2. RunInv' /\ phase' = phase /\ phase # "exited"
      BY <2>1, <2>4 DEF Accept, Serving, RunInv, procVars, backupVars
    <3> QED
      BY <2>1, <2>2, <2>4, <3>1, <3>2 DEF Accept, ServerInv, TypeOK, DataInv, procVars
  <2>5. ASSUME NEW r \in Reqs, Handle(r) PROVE ServerInv'
    <3>1. DataInv'
      BY <2>1, <2>5, DataWork DEF Handle
    <3>2. Idle => Idle'
      BY <2>5 DEF Handle, Idle, Work, CreateTable, CheckShadow, AsCRR, Statement,
                  StatementFails, At, NoCall
    <3>3. RunInv' /\ phase' = phase
      BY <2>1, <2>5, <3>2 DEF Handle, RunInv, procVars, backupVars
    <3> QED
      BY <2>1, <2>2, <2>5, <3>1, <3>3 DEF Handle, ServerInv, TypeOK, DataInv, procVars
  <2>6. ASSUME OpenStream \/ CloseStream PROVE ServerInv'
    <3>1. RunInv'
      BY <2>1, <2>6 DEF OpenStream, CloseStream, Serving, RunInv, backupVars, dataVars, Idle
    <3> QED
      BY <2>1, <2>2, <2>3, <2>6, <3>1 DEF OpenStream, CloseStream, ServerInv, TypeOK, DataInv
  <2>7. ASSUME Background PROVE ServerInv'
    <3>1. BackupInv
      BY <2>1, <2>7 DEF Background, BackupInv
    <3>2. BackupInv'
      BY <2>7, <3>1, BackupRunnerStep, BackupDatabaseStep DEF Background
    <3>3. stopped' = stopped
      BY <2>7 DEF Background, Runner, Start, Tick, RunOnce, CopyPage, CopyEnds, StartReturns,
                  Commit, CheckpointPage
    <3>4. RunInv'
      BY <2>1, <2>7, <3>3 DEF Background, RunInv, procVars, dataVars, Idle
    <3> QED
      BY <2>1, <2>3, <2>7, <3>2, <3>4 DEF Background, ServerInv, TypeOK, DataInv, BackupInv,
                                              procVars
  <2>8. ASSUME StartUp PROVE ServerInv'
    <3>1. BackupTypeOK' /\ FileInv' /\ CopyInv' /\ StopIsKept'
      BY <2>1, <2>8 DEF StartUp, BackupTypeOK, FileInv, CopyInv, StopIsKept, RunInv
    <3>2. RunInv'
      BY <2>1, <2>8 DEF StartUp, RunInv
    <3> QED
      BY <2>1, <2>3, <2>8, <3>1, <3>2 DEF StartUp, ServerInv, TypeOK, DataInv
  <2>9. ASSUME Signal \/ ListenFails \/ Shutdown \/ Drained \/ Deadline \/ DeferClose \/ StartFails
        PROVE  ServerInv'
    <3>1. UNCHANGED <<dataVars, backupVars, stream>> /\ phase # "exited"
      BY <2>9 DEF Signal, ListenFails, Shutdown, Drained, Deadline, DeferClose, StartFails
    <3>2. RunInv'
      BY <2>1, <2>9 DEF Signal, ListenFails, Shutdown, Drained, Deadline, DeferClose, StartFails,
                        RunInv, Idle, dataVars, backupVars
    <3>3. TypeOK'
      BY <2>2, <2>3, <2>9, <3>1 DEF Signal, ListenFails, Shutdown, Drained, Deadline, DeferClose,
                        StartFails, ServerInv, TypeOK, DataInv
    <3> QED
      BY <2>1, <2>2, <2>3, <3>1, <3>2, <3>3 DEF ServerInv, DataInv
  <2>10. ASSUME DeferStop PROVE ServerInv'
    <3>1. BackupTypeOK' /\ FileInv' /\ CopyInv' /\ StopIsKept'
      BY <2>1, <2>10 DEF DeferStop, Stop, backupVars, BackupTypeOK, FileInv, CopyInv, StopIsKept
    <3>2. RunInv'
      BY <2>1, <2>10 DEF DeferStop, RunInv, Idle, dataVars
    <3> QED
      BY <2>3, <2>10, <3>1, <3>2 DEF DeferStop, ServerInv, TypeOK, DataInv
  <2>11. ASSUME Exit \/ Kill PROVE ServerInv'
    <3>1. Gone /\ result' \in {"none", "nil", "error"}
      BY <2>11 DEF Exit, Kill, ServerInv, TypeOK
    <3>2. DataInv'
      BY <2>1, <3>1 DEF Gone, DataInv, DataTypeOK, EnsureInv, RowsAreReplicated, RowsInPlace, Replicated, NoCall
    <3>3. BackupTypeOK' /\ CopyInv' /\ StopIsKept'
      BY <2>1, <3>1, BackupAssumption DEF Gone, BackupTypeOK, CopyInv, StopIsKept
    <3>4. RunInv'
      BY <3>1 DEF Gone, RunInv
    <3> QED
      BY <3>1, <3>2, <3>3, <3>4 DEF Gone, ServerInv, TypeOK, DataInv
  <2>12. CASE UNCHANGED vars
    BY <2>1, <2>2, <2>3, <2>12 DEF vars, ServerInv, TypeOK, DataInv, RunInv, Idle,
                                    dataVars, backupVars
  <2> QED
    BY <2>4, <2>5, <2>6, <2>7, <2>8, <2>9, <2>10, <2>11, <2>12 DEF Next, Main
<1> QED
  BY <1>1, <1>2, PTL DEF Spec

\* Every part of the process keeps its type.
THEOREM ServerTypeCorrect == Spec => []TypeOK
<1>1. ServerInv => TypeOK
  BY DEF ServerInv
<1> QED
  BY <1>1, ServerInvInductive, PTL

\* A table that holds ops is replicated, wherever an EnsureDataset stopped.
THEOREM ServerRowsAreReplicated == Spec => []RowsAreReplicated
<1>1. ServerInv => RowsAreReplicated
  BY DEF ServerInv
<1> QED
  BY <1>1, ServerInvInductive, PTL

\* A query for a user of Keycloak's finds the ops of that user only, and of no
\* app and no dataset but those whose names sanitize makes the same, for user
\* ids of any form that does not overlap itself, and any client ids, hyphens and
\* all, that are no longer.
THEOREM ServerOwnRowsOnly == Spec => []OwnRowsOnly
<1>1. ServerInv => OwnRowsOnly
  <2> SUFFICES ASSUME ServerInv, NEW x \in Scopes, NEW row \in rows,
                      row[1] = Table(x), Regular(x), Regular(row[2])
               PROVE  /\ row[2].user = x.user
                      /\ SameName(row[2].app, x.app) /\ SameName(row[2].dataset, x.dataset)
    BY DEF OwnRowsOnly
  <2>1. row[2] \in Scopes /\ row[1] = Table(row[2])
    BY DEF ServerInv, TypeOK, DataTypeOK, RowsInPlace
  <2> QED
    BY <2>1, NameTellsScope
<1> QED
  BY <1>1, ServerInvInductive, PTL

\* A copy that is reported as made, and that met no checkpoint half way, is the
\* database as one commit left it, for any number of pages and commits.
THEOREM ServerBackupIsOneCommit == Spec => []BackupIsOneCommit
<1>1. ServerInv => BackupIsOneCommit
  <2> SUFFICES ASSUME ServerInv, copy.status = "ok", ~copy.met
               PROVE  \E c \in copy.from .. committed : copy.pages = [g \in 1 .. NPages |-> c]
    BY DEF BackupIsOneCommit
  <2>1. copy.pages \in Seq(Nat) /\ Len(copy.pages) = NPages /\ NPages \in Nat \ {0}
    BY BackupAssumption DEF ServerInv, TypeOK, BackupTypeOK, CopyInv
  <2>2. /\ \A g \in 1 .. NPages : copy.pages[g] = copy.pages[1]
        /\ copy.pages[1] \in copy.from .. committed
    BY <2>1 DEF ServerInv, CopyInv
  <2>3. copy.pages = [g \in 1 .. NPages |-> copy.pages[1]]
    BY <2>1, <2>2
  <2> QED
    BY <2>2, <2>3
<1> QED
  BY <1>1, ServerInvInductive, PTL

\* Stop is not lost on a runner that is busy or not yet scheduled.
THEOREM ServerStopIsKept == Spec => []StopIsKept
<1>1. ServerInv => StopIsKept
  BY DEF ServerInv
<1> QED
  BY <1>1, ServerInvInductive, PTL

\* Run returns nil only if the store it closes is in nobody's hands.
THEOREM ServerNothingCutOff == Spec => []NothingCutOff
<1>1. ServerInv => NothingCutOff
  BY DEF ServerInv, RunInv, NothingCutOff
<1> QED
  BY <1>1, ServerInvInductive, PTL
=============================================================================
