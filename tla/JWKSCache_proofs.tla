-------------------------- MODULE JWKSCache_proofs --------------------------
(***************************************************************************)
(* What JWKSCache promises for any number of requests, any kids and        *)
(* documents, any lifetime of the cache, pause and timeout.                *)
(***************************************************************************)
EXTENDS JWKSCache, SequenceTheorems, TLAPS

\* The local variables of a request, and those of a call of fetchJWKS.
LocalVars == [pc : PC, kid : Kids \cup {"none"}, validated : 0 .. now, moved : BOOLEAN]
FetchVars == [doc : 0 .. Len(since), started : 0 .. now, shared : BOOLEAN]

\* The types, one variable at a time.
LEMMA Types ==
  ASSUME TypeOK, NEW p \in Procs
  PROVE  /\ now \in Nat /\ fetchedAt \in Int /\ fetchedAt <= now
         /\ since \in Seq(0 .. now) /\ Len(since) \in Nat \ {0}
         /\ Len(since) <= Len(Docs) /\ Len(Docs) \in Nat
         /\ cached \in 0 .. Len(since)
         /\ jwksCacheTTL \in Nat /\ recent \in Nat /\ Timeout \in Nat
         /\ req[p] \in LocalVars /\ fetch[p] \in FetchVars
         /\ DOMAIN req = Procs /\ DOMAIN fetch = Procs
<1>1. /\ now \in Nat /\ fetchedAt \in Int /\ fetchedAt <= now
      /\ since \in Seq(0 .. now) /\ Len(since) \in Nat \ {0}
      /\ Len(since) <= Len(Docs) /\ Len(Docs) \in Nat
      /\ cached \in 0 .. Len(since)
      /\ jwksCacheTTL \in Nat /\ recent \in Nat /\ Timeout \in Nat
  BY CacheAssumption DEF TypeOK
<1>2. req \in [Procs -> LocalVars] /\ fetch \in [Procs -> FetchVars]
  BY Zenon DEF TypeOK, LocalVars, FetchVars
<1>3. req[p] \in LocalVars /\ fetch[p] \in FetchVars /\ DOMAIN req = Procs /\ DOMAIN fetch = Procs
  BY <1>2
<1> QED
  BY <1>1, <1>3

\* The local variables of a request and of its fetch, field by field.
LEMMA LocalTypes ==
  ASSUME TypeOK, NEW p \in Procs
  PROVE  /\ req[p].pc \in PC /\ req[p].kid \in Kids \cup {"none"}
         /\ req[p].validated \in Int /\ req[p].validated <= now /\ req[p].validated >= 0
         /\ req[p].moved \in BOOLEAN
         /\ fetch[p].doc \in 0 .. Len(since)
         /\ fetch[p].started \in Int /\ fetch[p].started <= now /\ fetch[p].started >= 0
         /\ fetch[p].shared \in BOOLEAN
<1>1. req[p] \in LocalVars /\ fetch[p] \in FetchVars /\ now \in Nat
  BY Types
<1>2. /\ req[p].pc \in PC /\ req[p].kid \in Kids \cup {"none"}
      /\ req[p].validated \in 0 .. now /\ req[p].moved \in BOOLEAN
  BY <1>1, Zenon DEF LocalVars
<1>3. /\ fetch[p].doc \in 0 .. Len(since)
      /\ fetch[p].started \in 0 .. now /\ fetch[p].shared \in BOOLEAN
  BY <1>1, Zenon DEF FetchVars
<1> QED
  BY <1>1, <1>2, <1>3

\* A record that changes one variable of a request.
LEMMA SetPc ==
  ASSUME NEW r \in LocalVars, NEW l \in PC
  PROVE  /\ [r EXCEPT !.pc = l] \in LocalVars
         /\ [r EXCEPT !.pc = l].pc = l
         /\ [r EXCEPT !.pc = l].kid = r.kid
         /\ [r EXCEPT !.pc = l].validated = r.validated
         /\ [r EXCEPT !.pc = l].moved = r.moved
BY Zenon DEF LocalVars

\* An assignment to moved leaves the request's other variables.
LEMMA SetMoved ==
  ASSUME NEW r \in LocalVars, NEW b \in BOOLEAN
  PROVE  /\ [r EXCEPT !.moved = b] \in LocalVars
         /\ [r EXCEPT !.moved = b].pc = r.pc
         /\ [r EXCEPT !.moved = b].kid = r.kid
         /\ [r EXCEPT !.moved = b].validated = r.validated
         /\ [r EXCEPT !.moved = b].moved = b
BY Zenon DEF LocalVars

\* An assignment to doc leaves the fetch's other variables.
LEMMA SetDoc ==
  ASSUME NEW f \in FetchVars, NEW d \in 0 .. Len(since)
  PROVE  /\ [f EXCEPT !.doc = d] \in FetchVars
         /\ [f EXCEPT !.doc = d].doc = d
         /\ [f EXCEPT !.doc = d].started = f.started
         /\ [f EXCEPT !.doc = d].shared = f.shared
BY Zenon DEF FetchVars

\* That a document was published at some time not before t remains true while
\* the realm publishes others.
LEMMA StaysPublished ==
  ASSUME TypeOK, since' = since \/ since' = Append(since, now),
         NEW v \in 1 .. Len(since), NEW t \in Int, t <= now, PublishedSince(v, t)
  PROVE  PublishedSince(v, t)'
<1>1. now \in Nat /\ since \in Seq(0 .. now) /\ Len(since) \in Nat
  BY CacheAssumption DEF TypeOK
<1>2. CASE since' = since
  BY <1>2 DEF PublishedSince
<1>3. CASE since' = Append(since, now)
  <2>1. Len(since') = Len(since) + 1 /\ since'[Len(since) + 1] = now
    BY <1>1, <1>3
  <2>2. \A i \in 1 .. Len(since) : since'[i] = since[i]
    BY <1>1, <1>3
  <2>3. CASE v = Len(since)
    BY <1>1, <2>1, <2>3 DEF PublishedSince
  <2>4. CASE v # Len(since)
    <3>1. v + 1 \in 1 .. Len(since) /\ since[v + 1] >= t
      BY <1>1, <2>4 DEF PublishedSince
    <3> QED
      BY <2>2, <3>1 DEF PublishedSince
  <2> QED
    BY <2>3, <2>4
<1> QED
  BY <1>2, <1>3

\* Published not before t: then neither before any earlier time.
LEMMA PublishedEarlier ==
  ASSUME TypeOK, NEW v \in 1 .. Len(since), NEW t \in Int, NEW u \in Int, u <= t,
         PublishedSince(v, t)
  PROVE  PublishedSince(v, u)
<1>1. now \in Nat /\ since \in Seq(0 .. now) /\ Len(since) \in Nat
  BY CacheAssumption DEF TypeOK
<1>2. CASE v # Len(since)
  <2>1. since[v + 1] \in Int /\ since[v + 1] >= t
    BY <1>1, <1>2 DEF PublishedSince
  <2> QED
    BY <2>1 DEF PublishedSince
<1> QED
  BY <1>2 DEF PublishedSince

\* No keys, no request, and a fetchedAt that is stale (NewOIDCValidator).
LEMMA CacheInvInit == Init => CacheInv
<1> SUFFICES ASSUME Init PROVE CacheInv
  OBVIOUS
<1>1. /\ now = 0 /\ since = <<0>> /\ cached = 0 /\ fetchedAt = -(jwksCacheTTL + 1)
      /\ jwksCacheTTL \in Nat /\ MaxTime \in Nat /\ Len(Docs) \in Nat /\ Len(Docs) >= 1
  BY CacheAssumption DEF Init
<1>2. now \in 0 .. MaxTime /\ since \in Seq(0 .. now) /\ Len(since) \in 1 .. Len(Docs)
  BY <1>1
<1>3. cached \in 0 .. Len(since) /\ fetchedAt \in -(jwksCacheTTL + 1) .. now
  BY <1>1, <1>2
<1>4. Gone("new") \in LocalVars /\ NoFetch \in FetchVars /\ 0 \in 0 .. now
  <2>1. 0 \in 0 .. now /\ 0 \in 0 .. Len(since)
    BY <1>1, <1>2
  <2> QED
    BY <2>1, Zenon DEF Gone, NoFetch, LocalVars, FetchVars, PC, Ended
<1>5. req \in [Procs -> LocalVars] /\ fetch \in [Procs -> FetchVars]
  BY <1>4, Zenon DEF Init
<1>6. TypeOK
  BY <1>2, <1>3, <1>5, Zenon DEF TypeOK, LocalVars, FetchVars
<1>7. \A p \in Procs : req[p].pc = "new" /\ fetch[p].doc = 0
  BY Zenon DEF Init, Gone, NoFetch
<1> QED
  BY <1>1, <1>6, <1>7 DEF CacheInv, CacheIsAsOld, WaitersAreServed, NeverFetched, AnswersAreAsOld,
       LooksAreFresh, MissIsCurrent, At, Leads

\* What holds of request p itself, and what CacheInv is without the waiters.
Sound(p) ==
  /\ fetch[p].doc # 0 => PublishedSince(fetch[p].doc, fetch[p].started)
  /\ At(p, "lookup") => cached # 0 /\ fetchedAt >= req[p].validated - jwksCacheTTL
  /\ At(p, "again") => cached # 0 /\ fetchedAt >= req[p].validated
  /\ At(p, "recent") => req[p].moved \/ (cached # 0 /\ req[p].kid \notin Docs[cached])

\* CacheInv, as one statement about each request.
LEMMA CacheInvParts ==
  CacheInv <=> /\ TypeOK /\ CacheIsAsOld /\ WaitersAreServed /\ NeverFetched
               /\ \A p \in Procs : Sound(p)
BY Zenon DEF CacheInv, AnswersAreAsOld, LooksAreFresh, MissIsCurrent, Sound

\* A step of one request that leaves the keys alone: what is left to show is
\* about that request.
LEMMA CacheInvLocal ==
  ASSUME CacheInv, UNCHANGED Cache, NEW p \in Procs,
         req' = [q \in Procs |-> req'[q]], fetch' = [q \in Procs |-> fetch'[q]],
         \A q \in Procs : q # p => req'[q] = req[q] /\ fetch'[q] = fetch[q],
         req'[p] \in LocalVars, fetch'[p] \in FetchVars,
         Sound(p)', WaitersAreServed'
  PROVE  CacheInv'
<1>1. now' = now /\ since' = since /\ cached' = cached /\ fetchedAt' = fetchedAt
  BY DEF Cache
<1>2. TypeOK /\ CacheIsAsOld /\ NeverFetched /\ \A q \in Procs : Sound(q)
  BY CacheInvParts
<1>3. \A q \in Procs : req'[q] \in LocalVars /\ fetch'[q] \in FetchVars
  BY <1>2, Types
<1>4. req' \in [Procs -> LocalVars] /\ fetch' \in [Procs -> FetchVars]
  BY <1>3
<1>5. TypeOK'
  BY <1>1, <1>2, <1>4, Zenon DEF TypeOK, LocalVars, FetchVars
<1>6. CacheIsAsOld' /\ NeverFetched'
  BY <1>1, <1>2 DEF CacheIsAsOld, NeverFetched, PublishedSince
<1>7. ASSUME NEW q \in Procs, q # p PROVE Sound(q)'
  <2>1. Sound(q) /\ req'[q] = req[q] /\ fetch'[q] = fetch[q]
    BY <1>2, <1>7
  <2> QED
    BY <1>1, <2>1, Zenon DEF Sound, At, PublishedSince
<1>8. \A q \in Procs : Sound(q)'
  BY <1>7
<1> QED
  BY <1>5, <1>6, <1>8, Zenon
     DEF CacheInv, AnswersAreAsOld, LooksAreFresh, MissIsCurrent, Sound

\* Those who wait are still served after a step of one request, unless it
\* gives up a shared fetch, begins a second one or waits for nobody.
LEMMA WaitersLocal ==
  ASSUME WaitersAreServed, NEW p \in Procs,
         \A q \in Procs : q # p => req'[q] = req[q] /\ fetch'[q] = fetch[q],
         Leads(p) => Leads(p)',
         Leads(p)' => Leads(p) \/ \A q \in Procs : ~Leads(q),
         At(p, "wait")' => At(p, "wait") \/ \E q \in Procs : Leads(q)
  PROVE  WaitersAreServed'
<1>1. \A q \in Procs : q # p => (Leads(q)' <=> Leads(q)) /\ (At(q, "wait")' <=> At(q, "wait"))
  BY DEF Leads, At
<1>2. \A q \in Procs : Leads(q) => Leads(q)'
  BY <1>1
<1>3. (\E q \in Procs : At(q, "wait")') => \E q \in Procs : Leads(q)
  BY <1>1 DEF WaitersAreServed
<1>4. (\E q \in Procs : At(q, "wait")') => \E q \in Procs : Leads(q)'
  BY <1>2, <1>3
<1>5. ASSUME NEW q \in Procs, NEW r \in Procs, Leads(q)', Leads(r)' PROVE q = r
  BY <1>1, <1>5 DEF WaitersAreServed
<1> QED
  BY <1>4, <1>5 DEF WaitersAreServed

\* Validate begins: a request that needs no fetch finds keys that are not stale.
LEMMA CacheInvRefreshIfStale ==
  ASSUME CacheInv, NEW p \in Procs, NEW kid \in Kids, RefreshIfStale(p, kid)
  PROVE  CacheInv'
<1>0. TypeOK /\ WaitersAreServed /\ NeverFetched /\ Sound(p)
  BY CacheInvParts
<1>1. PICK label \in {"stale", "lookup"} :
        /\ label = "lookup" => now - fetchedAt <= jwksCacheTTL
        /\ Validate(p, kid, label)
  <2>1. now - fetchedAt \in Int /\ jwksCacheTTL \in Int
    BY <1>0, Types
  <2>2. CASE now - fetchedAt > jwksCacheTTL
    BY <2>2 DEF RefreshIfStale
  <2>3. CASE ~(now - fetchedAt > jwksCacheTTL)
    BY <2>1, <2>3 DEF RefreshIfStale
  <2> QED
    BY <2>2, <2>3
<1>2. PICK r : r = [pc |-> label, kid |-> kid, validated |-> now, moved |-> FALSE]
  OBVIOUS
<1>3. /\ req' = [req EXCEPT ![p] = r] /\ fetch' = fetch /\ UNCHANGED Cache
      /\ req[p].pc \in Ended
  BY <1>1, <1>2, Zenon DEF Validate
<1>4. /\ now \in Nat /\ now \in 0 .. now /\ fetchedAt \in Int /\ jwksCacheTTL \in Nat
      /\ DOMAIN req = Procs /\ DOMAIN fetch = Procs /\ fetch[p] \in FetchVars
  BY <1>0, Types
<1>5. r \in LocalVars /\ r.pc = label /\ r.validated = now
  BY <1>2, <1>4, Zenon DEF LocalVars, PC
<1>6. /\ req'[p] = r /\ req' = [q \in Procs |-> req'[q]]
      /\ fetch' = [q \in Procs |-> fetch'[q]]
      /\ \A q \in Procs : q # p => req'[q] = req[q] /\ fetch'[q] = fetch[q]
  BY <1>0, <1>3, <1>4, Zenon DEF TypeOK
<1>7. now' = now /\ since' = since /\ cached' = cached /\ fetchedAt' = fetchedAt
  BY <1>3 DEF Cache
<1>8. Sound(p)'
  <2>1. label = "lookup" => cached # 0 /\ fetchedAt >= now - jwksCacheTTL
    BY <1>0, <1>1, <1>4 DEF NeverFetched
  <2>2. fetch'[p].doc # 0 => PublishedSince(fetch[p].doc, fetch[p].started)'
    BY <1>0, <1>3, <1>7 DEF Sound, PublishedSince
  <2> QED
    BY <1>3, <1>5, <1>6, <1>7, <2>1, <2>2 DEF Sound, At
<1>9. WaitersAreServed'
  <2>1. ~Leads(p) /\ ~Leads(p)' /\ ~At(p, "wait")'
    BY <1>3, <1>5, <1>6 DEF Leads, At, Ended
  <2> QED
    BY <1>0, <1>6, <2>1, WaitersLocal
<1>10. req'[p] \in LocalVars /\ fetch'[p] \in FetchVars
  BY <1>3, <1>4, <1>5, <1>6
<1> QED
  BY <1>3, <1>6, <1>8, <1>9, <1>10, CacheInvLocal

\* What a step does that moves one request to label and touches nothing else.
LEMMA GotoLabel ==
  ASSUME TypeOK, NEW p \in Procs, NEW l \in PC, req' = [req EXCEPT ![p].pc = l]
  PROVE  /\ req' = [q \in Procs |-> req'[q]]
         /\ \A q \in Procs : q # p => req'[q] = req[q]
         /\ req'[p] \in LocalVars
         /\ req'[p].pc = l /\ req'[p].kid = req[p].kid
         /\ req'[p].validated = req[p].validated /\ req'[p].moved = req[p].moved
<1>1. req[p] \in LocalVars /\ DOMAIN req = Procs
  BY Types
<1>2. req'[p] = [req[p] EXCEPT !.pc = l]
  BY <1>1, Zenon
<1>3. req' = [q \in Procs |-> req'[q]] /\ \A q \in Procs : q # p => req'[q] = req[q]
  BY <1>1, Zenon DEF TypeOK
<1>4. /\ req'[p] \in LocalVars
      /\ req'[p].pc = l /\ req'[p].kid = req[p].kid
      /\ req'[p].validated = req[p].validated /\ req'[p].moved = req[p].moved
  BY <1>1, <1>2, SetPc
<1> QED
  BY <1>3, <1>4

\* What a step does that ends a request.
LEMMA GotoEnd ==
  ASSUME TypeOK, NEW p \in Procs, NEW l \in Ended, req' = [req EXCEPT ![p] = Gone(l)]
  PROVE  /\ req' = [q \in Procs |-> req'[q]]
         /\ \A q \in Procs : q # p => req'[q] = req[q]
         /\ req'[p] \in LocalVars /\ req'[p].pc = l
<1>1. DOMAIN req = Procs /\ 0 \in 0 .. now
  BY Types
<1>2. req'[p] = Gone(l)
  BY <1>1, Zenon
<1>3. req' = [q \in Procs |-> req'[q]] /\ \A q \in Procs : q # p => req'[q] = req[q]
  BY <1>1, Zenon DEF TypeOK
<1>4. Gone(l) \in LocalVars /\ Gone(l).pc = l
  BY <1>1, Zenon DEF Gone, LocalVars, PC
<1> QED
  BY <1>2, <1>3, <1>4

\* A request that ends and had no shared fetch.
LEMMA CacheInvEnd ==
  ASSUME CacheInv, UNCHANGED Cache, fetch' = fetch,
         NEW p \in Procs, NEW l \in Ended, ~At(p, "fetch"),
         req' = [req EXCEPT ![p] = Gone(l)]
  PROVE  CacheInv'
<1>0. TypeOK /\ WaitersAreServed /\ Sound(p)
  BY CacheInvParts
<1>1. /\ req' = [q \in Procs |-> req'[q]]
      /\ \A q \in Procs : q # p => req'[q] = req[q]
      /\ req'[p] \in LocalVars /\ req'[p].pc = l
  BY <1>0, GotoEnd
<1>2. fetch' = [q \in Procs |-> fetch'[q]] /\ fetch'[p] \in FetchVars
  BY <1>0, Types, Zenon DEF TypeOK
<1>3. \A q \in Procs : q # p => req'[q] = req[q] /\ fetch'[q] = fetch[q]
  BY <1>1
<1>4. Sound(p)'
  BY <1>0, <1>1 DEF Sound, At, Ended, Cache, PublishedSince
<1>5. WaitersAreServed'
  <2>1. ~Leads(p) /\ ~Leads(p)' /\ ~At(p, "wait")'
    BY <1>1 DEF Leads, At, Ended
  <2> QED
    BY <1>0, <1>3, <2>1, WaitersLocal
<1> QED
  BY <1>1, <1>2, <1>3, <1>4, <1>5, CacheInvLocal

\* A request calls fetchJWKS, for all who wait only if nobody does so.
LEMMA CacheInvStartFetch ==
  ASSUME CacheInv, UNCHANGED Cache, NEW p \in Procs, NEW shared \in BOOLEAN,
         ~At(p, "fetch"), StartFetch(p, shared),
         shared => \A q \in Procs : ~Leads(q)
  PROVE  CacheInv'
<1>0. TypeOK /\ WaitersAreServed
  BY CacheInvParts
<1>1. PICK f : f = [doc |-> 0, started |-> now, shared |-> shared]
  OBVIOUS
<1>2. req' = [req EXCEPT ![p].pc = "fetch"] /\ fetch' = [fetch EXCEPT ![p] = f]
  BY <1>1, Zenon DEF StartFetch
<1>3. /\ req' = [q \in Procs |-> req'[q]]
      /\ \A q \in Procs : q # p => req'[q] = req[q]
      /\ req'[p] \in LocalVars /\ req'[p].pc = "fetch"
  <2>1. "fetch" \in PC
    BY DEF PC
  <2> QED
    BY <1>0, <1>2, <2>1, GotoLabel
<1>4. f \in FetchVars /\ f.doc = 0 /\ f.shared = shared
  <2>1. now \in 0 .. now /\ 0 \in 0 .. Len(since)
    BY <1>0, Types
  <2> QED
    BY <1>1, <2>1, Zenon DEF FetchVars
<1>5. fetch' = [q \in Procs |-> fetch'[q]] /\ fetch'[p] = f
  BY <1>0, <1>2, Types, Zenon DEF TypeOK
<1>6. \A q \in Procs : q # p => req'[q] = req[q] /\ fetch'[q] = fetch[q]
  BY <1>0, <1>2, <1>3, Zenon DEF TypeOK
<1>7. Sound(p)'
  BY <1>3, <1>4, <1>5 DEF Sound, At
<1>8. WaitersAreServed'
  <2>1. ~Leads(p) /\ ~At(p, "wait")' /\ (Leads(p)' => \A q \in Procs : ~Leads(q))
    BY <1>3, <1>4, <1>5 DEF Leads, At
  <2> QED
    BY <1>0, <1>6, <2>1, WaitersLocal
<1>9. fetch'[p] \in FetchVars
  BY <1>4, <1>5
<1> QED
  BY <1>3, <1>5, <1>6, <1>7, <1>8, <1>9, CacheInvLocal

\* fetchGroup.Do: a request waits only while a shared fetch is under way.
LEMMA CacheInvDo ==
  ASSUME CacheInv, NEW p \in Procs, Do(p)
  PROVE  CacheInv'
<1>0. TypeOK /\ WaitersAreServed /\ Sound(p)
  BY CacheInvParts
<1>1. At(p, "stale") /\ ~At(p, "fetch") /\ UNCHANGED Cache
  BY DEF Do, At
<1>2. CASE /\ \E q \in Procs : Leads(q)
           /\ req' = [req EXCEPT ![p].pc = "wait"]
           /\ fetch' = fetch
  <2>1. /\ req' = [q \in Procs |-> req'[q]]
        /\ \A q \in Procs : q # p => req'[q] = req[q]
        /\ req'[p] \in LocalVars /\ req'[p].pc = "wait"
    <3>1. "wait" \in PC
      BY DEF PC
    <3> QED
      BY <1>0, <1>2, <3>1, GotoLabel
  <2>2. fetch' = [q \in Procs |-> fetch'[q]] /\ fetch'[p] \in FetchVars
    BY <1>0, <1>2, Types, Zenon DEF TypeOK
  <2>3. \A q \in Procs : q # p => req'[q] = req[q] /\ fetch'[q] = fetch[q]
    BY <1>2, <2>1
  <2>4. Sound(p)'
    BY <1>0, <1>1, <1>2, <2>1 DEF Sound, At, Cache, PublishedSince
  <2>5. WaitersAreServed'
    <3>1. ~Leads(p) /\ ~Leads(p)'
      BY <1>1, <2>1 DEF Leads, At
    <3> QED
      BY <1>0, <1>2, <2>3, <3>1, WaitersLocal
  <2> QED
    BY <1>1, <2>1, <2>2, <2>3, <2>4, <2>5, CacheInvLocal
<1>3. CASE (\A q \in Procs : ~Leads(q)) /\ StartFetch(p, TRUE)
  BY <1>1, <1>3, CacheInvStartFetch
<1> QED
  BY <1>2, <1>3 DEF Do

\* The answer is what the realm publishes, after it was asked.
LEMMA CacheInvGet ==
  ASSUME CacheInv, NEW p \in Procs, Get(p)
  PROVE  CacheInv'
<1>0. TypeOK /\ WaitersAreServed /\ Sound(p)
  BY CacheInvParts
<1>1. /\ At(p, "fetch") /\ req' = req /\ UNCHANGED Cache
      /\ fetch' = [fetch EXCEPT ![p].doc = Len(since)]
  BY DEF Get, InTime
<1>2. /\ fetch[p] \in FetchVars /\ DOMAIN fetch = Procs /\ req[p] \in LocalVars
      /\ Len(since) \in 0 .. Len(since)
  BY <1>0, Types
<1>3. fetch'[p] = [fetch[p] EXCEPT !.doc = Len(since)]
  BY <1>1, <1>2, Zenon
<1>4. /\ fetch'[p] \in FetchVars /\ fetch'[p].doc = Len(since)
      /\ fetch'[p].started = fetch[p].started /\ fetch'[p].shared = fetch[p].shared
  <2>1. PICK d \in 0 .. Len(since) : d = Len(since)
    BY <1>2
  <2>2. fetch'[p] = [fetch[p] EXCEPT !.doc = d]
    BY <1>3, <2>1
  <2> QED
    BY <1>2, <2>1, <2>2, SetDoc
<1>5. fetch' = [q \in Procs |-> fetch'[q]] /\ req' = [q \in Procs |-> req'[q]]
  BY <1>0, <1>1, <1>2, Zenon DEF TypeOK
<1>6. \A q \in Procs : q # p => req'[q] = req[q] /\ fetch'[q] = fetch[q]
  BY <1>1, <1>2, Zenon
<1>7. Sound(p)'
  BY <1>0, <1>1, <1>4 DEF Sound, At, Cache, PublishedSince
<1>8. WaitersAreServed'
  <2>1. (Leads(p)' <=> Leads(p)) /\ (At(p, "wait")' <=> At(p, "wait"))
    BY <1>1, <1>4, Zenon DEF Leads, At
  <2> QED
    BY <1>0, <1>6, <2>1, WaitersLocal
<1>9. req'[p] \in LocalVars
  BY <1>1, <1>2
<1> QED
  BY <1>1, <1>4, <1>5, <1>6, <1>7, <1>8, <1>9, CacheInvLocal

\* keyFunc's looks at the keys and at fetchedAt.
LEMMA CacheInvLookup ==
  ASSUME CacheInv, NEW p \in Procs,
         Lookup(p) \/ RecentFetch(p) \/ LookupAgain(p) \/ Invalid(p)
  PROVE  CacheInv'
<1>0. TypeOK /\ WaitersAreServed /\ Sound(p)
  BY CacheInvParts
<1>1. ~At(p, "fetch") /\ UNCHANGED Cache
  BY DEF Lookup, RecentFetch, FetchUnless, LookupAgain, Invalid, At
<1>2. DOMAIN req = Procs
  BY <1>0, Types
<1>3. ASSUME NEW l \in Ended, fetch' = fetch, req' = [req EXCEPT ![p] = Gone(l)]
      PROVE  CacheInv'
  BY <1>1, <1>3, CacheInvEnd
<1>4. {"accepted", "refused", "failed"} \subseteq Ended
  BY DEF Ended
<1>5. CASE Lookup(p) /\ Known(req[p].kid)
  <2>1. fetch' = fetch /\ req' = [req EXCEPT ![p] = Gone("accepted")]
    BY <1>2, <1>5 DEF Lookup
  <2> QED
    BY <1>3, <1>4, <2>1
<1>6. CASE Lookup(p) /\ ~Known(req[p].kid)
  <2>1. At(p, "lookup") /\ fetch' = fetch /\ req' = [req EXCEPT ![p].pc = "recent"]
    BY <1>2, <1>6 DEF Lookup
  <2>2. /\ req' = [q \in Procs |-> req'[q]]
        /\ \A q \in Procs : q # p => req'[q] = req[q]
        /\ req'[p] \in LocalVars /\ req'[p].pc = "recent" /\ req'[p].kid = req[p].kid
    <3>1. "recent" \in PC
      BY DEF PC
    <3> QED
      BY <1>0, <2>1, <3>1, GotoLabel
  <2>3. fetch' = [q \in Procs |-> fetch'[q]] /\ fetch'[p] \in FetchVars
    BY <1>0, <2>1, Types, Zenon DEF TypeOK
  <2>4. \A q \in Procs : q # p => req'[q] = req[q] /\ fetch'[q] = fetch[q]
    BY <2>1, <2>2
  <2>5. cached # 0 /\ req[p].kid \notin Docs[cached]
    BY <1>0, <1>6, <2>1 DEF Sound, Known
  <2>6. Sound(p)'
    BY <1>0, <1>1, <2>1, <2>2, <2>5 DEF Sound, At, Cache, PublishedSince
  <2>7. WaitersAreServed'
    <3>1. ~Leads(p) /\ ~Leads(p)' /\ ~At(p, "wait")'
      BY <2>1, <2>2 DEF Leads, At
    <3> QED
      BY <1>0, <2>4, <3>1, WaitersLocal
  <2> QED
    BY <1>1, <2>2, <2>3, <2>4, <2>6, <2>7, CacheInvLocal
<1>7. CASE RecentFetch(p)
  <2>1. CASE fetch' = fetch /\ req' = [req EXCEPT ![p] = Gone("refused")]
    BY <1>3, <1>4, <2>1
  <2>2. CASE StartFetch(p, FALSE)
    BY <1>1, <2>2, CacheInvStartFetch
  <2> QED
    BY <1>7, <2>1, <2>2 DEF RecentFetch, FetchUnless
<1>8. CASE LookupAgain(p)
  <2>1. PICK l \in {"accepted", "refused"} :
          fetch' = fetch /\ req' = [req EXCEPT ![p] = Gone(l)]
    <3>1. CASE Known(req[p].kid)
      <4>1. fetch' = fetch /\ req' = [req EXCEPT ![p] = Gone("accepted")]
        BY <1>2, <1>8, <3>1 DEF LookupAgain
      <4> QED
        BY <4>1
    <3>2. CASE ~Known(req[p].kid)
      <4>1. fetch' = fetch /\ req' = [req EXCEPT ![p] = Gone("refused")]
        BY <1>2, <1>8, <3>2 DEF LookupAgain
      <4> QED
        BY <4>1
    <3> QED
      BY <3>1, <3>2
  <2> QED
    BY <1>3, <1>4, <2>1
<1>9. CASE Invalid(p)
  <2>1. fetch' = fetch /\ req' = [req EXCEPT ![p] = Gone("failed")]
    BY <1>9 DEF Invalid
  <2> QED
    BY <1>3, <1>4, <2>1
<1> QED
  BY <1>5, <1>6, <1>7, <1>8, <1>9

\* A shared fetch returns to all who wait for it, and nobody is left waiting.
LEMMA WaitersReturn ==
  ASSUME WaitersAreServed, NEW p \in Procs, At(p, "fetch"), DOMAIN fetch = Procs,
         \A q \in Procs : Returns(p, q) => req'[q].pc \in Ended \cup {"lookup", "again"},
         \A q \in Procs : ~Returns(p, q) => req'[q].pc = req[q].pc,
         fetch' = [fetch EXCEPT ![p] = NoFetch]
  PROVE  WaitersAreServed'
<1>1. \A q \in Procs : q # p => fetch'[q] = fetch[q]
  OBVIOUS
<1>2. Returns(p, p)
  BY DEF Returns
<1>3. ~Leads(p)' /\ ~At(p, "wait")'
  BY <1>2 DEF Leads, At, Ended
<1>4. CASE fetch[p].shared
  <2>1. Leads(p)
    BY <1>4 DEF Leads
  <2>2. \A q \in Procs : ~At(q, "wait")'
    BY <1>4 DEF Returns, At, Ended
  <2>3. \A q \in Procs : Leads(q)' => Leads(q) /\ q # p
    BY <1>1, <1>3 DEF Leads, At, Ended
  <2>4. \A q \in Procs : ~Leads(q)'
    BY <2>1, <2>3 DEF WaitersAreServed
  <2> QED
    BY <2>2, <2>4 DEF WaitersAreServed
<1>5. CASE ~fetch[p].shared
  <2>1. ~Leads(p)
    BY <1>5 DEF Leads
  <2>2. \A q \in Procs : q # p => (Leads(q)' <=> Leads(q)) /\ (At(q, "wait")' <=> At(q, "wait"))
    BY <1>1, <1>5 DEF Leads, At, Returns
  <2> QED
    BY <1>3, <2>1, <2>2, Zenon DEF WaitersAreServed
<1> QED
  BY <1>4, <1>5

\* A fetch that fails changes no key.
LEMMA CacheInvFetchFail ==
  ASSUME CacheInv, NEW p \in Procs, FetchFail(p)
  PROVE  CacheInv'
<1>0. TypeOK /\ CacheIsAsOld /\ WaitersAreServed /\ NeverFetched /\ \A q \in Procs : Sound(q)
  BY CacheInvParts
<1>1. /\ At(p, "fetch") /\ UNCHANGED Cache /\ fetch' = [fetch EXCEPT ![p] = NoFetch]
      /\ req' = [q \in Procs |-> IF Returns(p, q) THEN Gone("failed") ELSE req[q]]
  BY DEF FetchFail
<1>2. now' = now /\ since' = since /\ cached' = cached /\ fetchedAt' = fetchedAt
  BY <1>1 DEF Cache
<1>3. DOMAIN fetch = Procs /\ 0 \in 0 .. now /\ 0 \in 0 .. Len(since)
  BY <1>0, Types
<1>4. /\ Gone("failed") \in LocalVars /\ Gone("failed").pc = "failed"
      /\ NoFetch \in FetchVars /\ NoFetch.doc = 0
  BY <1>3, Zenon DEF Gone, NoFetch, LocalVars, FetchVars, PC, Ended
<1>5. \A q \in Procs : /\ Returns(p, q) => req'[q] = Gone("failed")
                       /\ ~Returns(p, q) => req'[q] = req[q]
                       /\ q # p => fetch'[q] = fetch[q]
                       /\ fetch'[p] = NoFetch
  BY <1>1, <1>3
<1>6. req' \in [Procs -> LocalVars] /\ fetch' \in [Procs -> FetchVars]
  <2>1. \A q \in Procs : req'[q] \in LocalVars /\ fetch'[q] \in FetchVars
    BY <1>0, <1>4, <1>5, Types
  <2>2. req' = [q \in Procs |-> req'[q]] /\ fetch' = [q \in Procs |-> fetch'[q]]
    BY <1>0, <1>1, Zenon DEF TypeOK
  <2> QED
    BY <2>1, <2>2, Zenon
<1>7. TypeOK'
  BY <1>0, <1>2, <1>6, Zenon DEF TypeOK, LocalVars, FetchVars
<1>8. CacheIsAsOld' /\ NeverFetched'
  BY <1>0, <1>2 DEF CacheIsAsOld, NeverFetched, PublishedSince
<1>9. WaitersAreServed'
  <2>1. \A q \in Procs : Returns(p, q) => req'[q].pc \in Ended \cup {"lookup", "again"}
    BY <1>4, <1>5 DEF Ended
  <2>2. \A q \in Procs : ~Returns(p, q) => req'[q].pc = req[q].pc
    BY <1>5
  <2> QED
    BY <1>0, <1>1, <1>3, <2>1, <2>2, WaitersReturn
<1>10. ASSUME NEW q \in Procs PROVE Sound(q)'
  <2>1. fetch'[q].doc # 0 => PublishedSince(fetch[q].doc, fetch[q].started)'
    BY <1>0, <1>2, <1>4, <1>5 DEF Sound, PublishedSince
  <2>2. CASE Returns(p, q)
    BY <1>4, <1>5, <2>1, <2>2 DEF Sound, At
  <2>3. CASE ~Returns(p, q)
    BY <1>0, <1>2, <1>5, <2>1, <2>3, Zenon DEF Sound, At
  <2> QED
    BY <2>2, <2>3
<1> QED
  BY <1>7, <1>8, <1>9, <1>10, Zenon
     DEF CacheInv, AnswersAreAsOld, LooksAreFresh, MissIsCurrent, Sound

\* A fetch stores a document that was published when it began or later, which
\* is not longer ago than the timeout.
LEMMA CacheInvFetchStore ==
  ASSUME CacheInv, NEW p \in Procs, FetchStore(p)
  PROVE  CacheInv'
<1>0. TypeOK /\ WaitersAreServed /\ \A q \in Procs : Sound(q)
  BY CacheInvParts
<1>1. /\ At(p, "fetch") /\ now - fetch[p].started <= Timeout /\ fetch[p].doc # 0
      /\ cached' = fetch[p].doc /\ fetchedAt' = now /\ now' = now /\ since' = since
      /\ fetch' = [fetch EXCEPT ![p] = NoFetch]
  BY DEF FetchStore, InTime
<1>2. PICK label \in {"lookup", "again"} : label = IF fetch[p].shared THEN "lookup" ELSE "again"
  OBVIOUS
<1>3. req' = [q \in Procs |->
                IF Returns(p, q) THEN [req[q] EXCEPT !.pc = label]
                ELSE [req[q] EXCEPT !.moved = req[q].moved \/ At(q, "recent")]]
  BY <1>2, Zenon DEF FetchStore
<1>4. /\ DOMAIN fetch = Procs /\ 0 \in 0 .. now /\ 0 \in 0 .. Len(since)
      /\ now \in Nat /\ Timeout \in Nat /\ jwksCacheTTL \in Nat
      /\ fetch[p].doc \in 1 .. Len(since) /\ fetch[p].started \in Int
  BY <1>0, <1>1, Types, LocalTypes
<1>5. NoFetch \in FetchVars /\ NoFetch.doc = 0
  BY <1>4, Zenon DEF NoFetch, FetchVars
<1>6. \A q \in Procs : (q # p => fetch'[q] = fetch[q]) /\ fetch'[p] = NoFetch
  BY <1>1, <1>4
<1>7. ASSUME NEW q \in Procs, Returns(p, q)
      PROVE  /\ req'[q] \in LocalVars /\ req'[q].pc = label
             /\ req'[q].validated = req[q].validated
  <2>1. req'[q] = [req[q] EXCEPT !.pc = label] /\ req[q] \in LocalVars /\ label \in PC
    BY <1>0, <1>3, <1>7, Types DEF PC
  <2> QED
    BY <2>1, SetPc
<1>8. ASSUME NEW q \in Procs, ~Returns(p, q)
      PROVE  /\ req'[q] \in LocalVars /\ req'[q].pc = req[q].pc
             /\ req'[q].validated = req[q].validated
             /\ At(q, "recent") => req'[q].moved
  <2>1. PICK b \in BOOLEAN : b = (req[q].moved \/ At(q, "recent"))
    BY <1>0, LocalTypes, Zenon
  <2>2. req'[q] = [req[q] EXCEPT !.moved = b] /\ req[q] \in LocalVars
    BY <1>0, <1>3, <1>8, <2>1, Types, Zenon
  <2>3. /\ req'[q] \in LocalVars /\ req'[q].pc = req[q].pc
        /\ req'[q].validated = req[q].validated /\ req'[q].moved = b
    BY <2>2, SetMoved
  <2> QED
    BY <2>1, <2>3, Zenon
<1>9. req' \in [Procs -> LocalVars] /\ fetch' \in [Procs -> FetchVars]
  <2>1. \A q \in Procs : req'[q] \in LocalVars /\ fetch'[q] \in FetchVars
    BY <1>0, <1>5, <1>6, <1>7, <1>8, Types
  <2>2. req' = [q \in Procs |-> req'[q]] /\ fetch' = [q \in Procs |-> fetch'[q]]
    BY <1>0, <1>1, <1>3, Zenon DEF TypeOK
  <2> QED
    BY <2>1, <2>2, Zenon
<1>10. TypeOK'
  <2>1. fetchedAt' \in -(jwksCacheTTL + 1) .. now' /\ cached' \in 0 .. Len(since')
    BY <1>1, <1>4
  <2> QED
    BY <1>0, <1>1, <1>9, <2>1, Zenon DEF TypeOK, LocalVars, FetchVars
<1>11. CacheIsAsOld' /\ NeverFetched'
  <2>1. PublishedSince(fetch[p].doc, fetch[p].started)
    BY <1>0, <1>1 DEF Sound
  <2>2. now - Timeout \in Int /\ now - Timeout <= fetch[p].started
    BY <1>1, <1>4
  <2>3. PublishedSince(fetch[p].doc, now - Timeout)
    BY <1>0, <1>4, <2>1, <2>2, PublishedEarlier
  <2> QED
    BY <1>1, <2>3 DEF CacheIsAsOld, NeverFetched, PublishedSince
<1>12. WaitersAreServed'
  <2>1. \A q \in Procs : Returns(p, q) => req'[q].pc \in Ended \cup {"lookup", "again"}
    BY <1>7
  <2>2. \A q \in Procs : ~Returns(p, q) => req'[q].pc = req[q].pc
    BY <1>8
  <2> QED
    BY <1>0, <1>1, <1>4, <2>1, <2>2, WaitersReturn
<1>13. ASSUME NEW q \in Procs PROVE Sound(q)'
  <2>1. fetch'[q].doc # 0 => PublishedSince(fetch[q].doc, fetch[q].started)'
    BY <1>0, <1>1, <1>5, <1>6 DEF Sound, PublishedSince
  <2>2. req'[q].validated = req[q].validated /\ req[q].validated \in Int /\ req[q].validated <= now
    BY <1>0, <1>7, <1>8, LocalTypes
  <2>3. fetchedAt' >= req'[q].validated - jwksCacheTTL /\ fetchedAt' >= req'[q].validated
    BY <1>1, <1>4, <2>2
  <2>4. At(q, "recent")' => req'[q].moved
    BY <1>7, <1>8 DEF At
  <2> QED
    BY <1>1, <2>1, <2>3, <2>4 DEF Sound
<1> QED
  BY <1>10, <1>11, <1>12, <1>13, Zenon
     DEF CacheInv, AnswersAreAsOld, LooksAreFresh, MissIsCurrent, Sound

\* The time goes on and the realm publishes.
LEMMA CacheInvTickPublish ==
  ASSUME CacheInv, Tick \/ Publish
  PROVE  CacheInv'
<1>0. TypeOK /\ CacheIsAsOld /\ WaitersAreServed /\ NeverFetched /\ \A q \in Procs : Sound(q)
  BY CacheInvParts
<1>1. cached' = cached /\ fetchedAt' = fetchedAt /\ req' = req /\ fetch' = fetch
  BY DEF Tick, Publish
<1>2. /\ now \in Nat /\ fetchedAt \in Int /\ fetchedAt <= now /\ Timeout \in Nat
      /\ since \in Seq(0 .. now) /\ Len(since) \in Nat \ {0} /\ cached \in 0 .. Len(since)
      /\ Len(since) <= Len(Docs) /\ jwksCacheTTL \in Nat /\ Len(Docs) \in Nat
      /\ fetchedAt >= -(jwksCacheTTL + 1)
  BY <1>0, CacheAssumption DEF TypeOK
<1>3. now' \in 0 .. MaxTime /\ now' >= now /\ now' \in Nat
  BY <1>0, <1>2, CacheAssumption DEF TypeOK, Tick, Publish
<1>4. /\ since' \in Seq(0 .. now') /\ Len(since') \in 1 .. Len(Docs) /\ Len(since') >= Len(since)
      /\ since' = since \/ since' = Append(since, now)
  <2>1. CASE Tick
    <3>1. since' = since /\ \A i \in 1 .. Len(since) : since[i] \in 0 .. now'
      BY <1>2, <1>3, <2>1 DEF Tick
    <3>2. since \in [1 .. Len(since) -> 0 .. now']
      BY <1>2, <3>1
    <3>3. since \in Seq(0 .. now')
      <4>1. Len(since) \in Nat
        BY <1>2
      <4> QED
        BY <3>2, <4>1, SeqDef, Zenon
    <3> QED
      BY <1>2, <3>1, <3>3
  <2>2. CASE Publish
    <3>1. /\ since' = Append(since, now) /\ now' = now /\ Len(since) < Len(Docs)
          /\ now \in 0 .. now
      BY <1>2, <2>2 DEF Publish
    <3>2. since' \in Seq(0 .. now) /\ Len(since') = Len(since) + 1
      BY <1>2, <3>1
    <3> QED
      BY <1>2, <3>1, <3>2
  <2> QED
    BY <2>1, <2>2
<1>5. 0 .. now \subseteq 0 .. now' /\ 0 .. Len(since) \subseteq 0 .. Len(since')
  BY <1>2, <1>3, <1>4
<1>6. LocalVars \subseteq LocalVars' /\ FetchVars \subseteq FetchVars'
  BY <1>5, Zenon DEF LocalVars, FetchVars
<1>7. req' \in [Procs -> LocalVars'] /\ fetch' \in [Procs -> FetchVars']
  <2>1. req \in [Procs -> LocalVars] /\ fetch \in [Procs -> FetchVars]
    BY <1>0, Zenon DEF TypeOK, LocalVars, FetchVars
  <2> QED
    BY <1>1, <1>6, <2>1
<1>8. TypeOK'
  <2>1. fetchedAt' \in -(jwksCacheTTL + 1) .. now' /\ cached' \in 0 .. Len(since')
    BY <1>1, <1>2, <1>3, <1>5
  <2> QED
    BY <1>3, <1>4, <1>7, <2>1, Zenon DEF TypeOK, LocalVars, FetchVars
<1>9. CacheIsAsOld' /\ NeverFetched'
  <2>1. NeverFetched'
    BY <1>0, <1>1 DEF NeverFetched
  <2>2. ASSUME cached # 0 PROVE PublishedSince(cached, fetchedAt - Timeout)'
    <3>1. PICK v \in 1 .. Len(since) : v = cached
      BY <1>2, <2>2
    <3>2. PICK t \in Int : t = fetchedAt - Timeout /\ t <= now
      BY <1>2
    <3>3. PublishedSince(v, t)
      BY <1>0, <2>2, <3>1, <3>2 DEF CacheIsAsOld
    <3>4. PublishedSince(v, t)'
      BY <1>0, <1>4, <3>2, <3>3, StaysPublished
    <3> QED
      BY <1>1, <3>1, <3>2, <3>4 DEF PublishedSince
  <2> QED
    BY <1>1, <2>1, <2>2 DEF CacheIsAsOld
<1>10. WaitersAreServed'
  BY <1>0, <1>1 DEF WaitersAreServed, At, Leads
<1>11. ASSUME NEW q \in Procs PROVE Sound(q)'
  <2>1. ASSUME fetch[q].doc # 0 PROVE PublishedSince(fetch[q].doc, fetch[q].started)'
    <3>1. PICK v \in 1 .. Len(since) : v = fetch[q].doc
      BY <1>0, <1>2, <2>1, LocalTypes
    <3>2. PICK t \in Int : t = fetch[q].started /\ t <= now
      BY <1>0, LocalTypes
    <3>3. PublishedSince(v, t)
      BY <1>0, <2>1, <3>1, <3>2 DEF Sound
    <3>4. PublishedSince(v, t)'
      BY <1>0, <1>4, <3>2, <3>3, StaysPublished
    <3> QED
      BY <1>1, <3>1, <3>2, <3>4 DEF PublishedSince
  <2>2. /\ At(q, "lookup")' => cached' # 0 /\ fetchedAt' >= req'[q].validated - jwksCacheTTL
        /\ At(q, "again")' => cached' # 0 /\ fetchedAt' >= req'[q].validated
        /\ At(q, "recent")' => req'[q].moved \/ (cached' # 0 /\ req'[q].kid \notin Docs[cached'])
    BY <1>0, <1>1, Zenon DEF Sound, At
  <2> QED
    BY <1>1, <2>1, <2>2, Zenon DEF Sound
<1> QED
  BY <1>8, <1>9, <1>10, <1>11, Zenon
     DEF CacheInv, AnswersAreAsOld, LooksAreFresh, MissIsCurrent, Sound

\* One case per action of Next.
LEMMA CacheInvStep == CacheInv /\ [Next]_vars => CacheInv'
<1> SUFFICES ASSUME CacheInv, [Next]_vars PROVE CacheInv'
  OBVIOUS
<1>1. CASE Tick \/ Publish
  BY <1>1, CacheInvTickPublish
<1>2. CASE \E p \in Procs : Step(p)
  BY <1>2, CacheInvDo, CacheInvGet, CacheInvFetchStore, CacheInvFetchFail, CacheInvLookup
     DEF Step
<1>3. CASE \E p \in Procs, kid \in Kids : RefreshIfStale(p, kid)
  BY <1>3, CacheInvRefreshIfStale
<1>4. CASE UNCHANGED vars
  BY <1>4, Zenon DEF vars, CacheInv, TypeOK, CacheIsAsOld, WaitersAreServed, NeverFetched, AnswersAreAsOld,
       LooksAreFresh, MissIsCurrent, At, Leads, PublishedSince
<1> QED
  BY <1>1, <1>2, <1>3, <1>4 DEF Next

\* The inductive invariant of the key cache.
THEOREM CacheInvInductive == Spec => []CacheInv
BY CacheInvInit, CacheInvStep, PTL DEF Spec

\* Requests are where the code can be, and times do not run ahead.
THEOREM CacheTypeCorrect == Spec => []TypeOK
BY CacheInvInductive, PTL DEF CacheInv

\* The cached keys are as old as fetchedAt says, give or take the timeout,
\* however slow fetches cross (fetchJWKS).
THEOREM CacheAsOldAsItSays == Spec => []CacheIsAsOld
BY CacheInvInductive, PTL DEF CacheInv

\* Whoever waits waits for a fetch that is under way, and there is only one
\* (refreshIfStale).
THEOREM CacheServesWaiters == Spec => []WaitersAreServed
BY CacheInvInductive, PTL DEF CacheInv

\* A request is accepted or refused by its own look at the keys or at fetchedAt,
\* and by nothing else.
LEMMA EndsByLooking ==
  ASSUME TypeOK, Next, NEW p \in Procs, NEW l \in {"accepted", "refused"}, Ends(p, l)
  PROVE  \/ l = "accepted" /\ req[p].pc \in {"lookup", "again"} /\ Known(req[p].kid)
         \/ l = "refused" /\ At(p, "again") /\ ~Known(req[p].kid)
         \/ l = "refused" /\ At(p, "recent") /\ now - fetchedAt < recent
<1>1. req[p].pc # l /\ req'[p].pc = l /\ DOMAIN req = Procs
  BY Types DEF Ends, At
<1>2. ~(Tick \/ Publish)
  BY <1>1 DEF Tick, Publish
<1>3. ASSUME NEW q \in Procs, FetchFail(q) PROVE FALSE
  <2>1. req'[p] = Gone("failed") \/ req'[p] = req[p]
    BY <1>3 DEF FetchFail
  <2>2. Gone("failed").pc = "failed"
    BY DEF Gone
  <2> QED
    BY <1>1, <2>1, <2>2
<1>4. ASSUME NEW q \in Procs, FetchStore(q) PROVE FALSE
  <2>0. req[p] \in LocalVars
    BY Types
  <2>1. CASE Returns(q, p)
    <3>1. PICK label \in {"lookup", "again"} : req'[p] = [req[p] EXCEPT !.pc = label]
      BY <1>4, <2>1, Zenon DEF FetchStore
    <3>2. label \in PC
      BY DEF PC
    <3>3. req'[p].pc = label
      BY <2>0, <3>1, <3>2, SetPc
    <3> QED
      BY <1>1, <3>3
  <2>2. CASE ~Returns(q, p)
    <3>1. PICK b \in BOOLEAN : b = (req[p].moved \/ At(p, "recent"))
      BY LocalTypes, Zenon
    <3>2. req'[p] = [req[p] EXCEPT !.moved = b]
      BY <1>4, <2>2, <3>1, Zenon DEF FetchStore
    <3>3. req'[p].pc = req[p].pc
      BY <2>0, <3>2, SetMoved
    <3> QED
      BY <1>1, <3>3
  <2> QED
    BY <2>1, <2>2
<1>5. ASSUME NEW q \in Procs, NEW kid \in Kids, RefreshIfStale(q, kid) PROVE FALSE
  <2>1. PICK label \in {"stale", "lookup"} : Validate(q, kid, label)
    BY <1>5, Zenon DEF RefreshIfStale
  <2>2. PICK r : r = [pc |-> label, kid |-> kid, validated |-> now, moved |-> FALSE]
    OBVIOUS
  <2>3. req' = [req EXCEPT ![q] = r] /\ r.pc = label
    BY <2>1, <2>2, Zenon DEF Validate
  <2> QED
    BY <1>1, <2>3
<1>6. ASSUME NEW q \in Procs, NEW label \in PC \ {l}, req' = [req EXCEPT ![q].pc = label]
      PROVE  FALSE
  <2>1. req'[q].pc = label /\ (q # p => req'[p] = req[p])
    BY <1>6, GotoLabel
  <2> QED
    BY <1>1, <2>1
<1>7. ASSUME NEW q \in Procs, NEW e \in Ended, req' = [req EXCEPT ![q] = Gone(e)]
      PROVE  q = p /\ e = l
  <2>1. req'[q].pc = e /\ (q # p => req'[p] = req[p])
    BY <1>7, GotoEnd
  <2> QED
    BY <1>1, <2>1
<1>8. /\ {"accepted", "refused", "failed"} \subseteq Ended
      /\ {"wait", "fetch", "recent"} \subseteq PC \ {l}
  BY DEF Ended, PC
<1>9. ASSUME NEW q \in Procs, Do(q) \/ Get(q) PROVE FALSE
  <2>1. \/ req' = [req EXCEPT ![q].pc = "wait"]
        \/ req' = [req EXCEPT ![q].pc = "fetch"]
        \/ req' = req
    BY <1>9 DEF Do, Get, StartFetch
  <2> QED
    BY <1>1, <1>6, <1>8, <2>1
<1>10. ASSUME NEW q \in Procs, Lookup(q)
       PROVE  q = p /\ l = "accepted" /\ At(p, "lookup") /\ Known(req[p].kid)
  <2>1. /\ At(q, "lookup")
        /\ \/ Known(req[q].kid) /\ req' = [req EXCEPT ![q] = Gone("accepted")]
           \/ req' = [req EXCEPT ![q].pc = "recent"]
    BY <1>1, <1>10 DEF Lookup
  <2> QED
    BY <1>6, <1>7, <1>8, <2>1
<1>11. ASSUME NEW q \in Procs, RecentFetch(q)
       PROVE  q = p /\ l = "refused" /\ At(p, "recent") /\ now - fetchedAt < recent
  <2>1. /\ At(q, "recent")
        /\ \/ now - fetchedAt < recent /\ req' = [req EXCEPT ![q] = Gone("refused")]
           \/ req' = [req EXCEPT ![q].pc = "fetch"]
    BY <1>11 DEF RecentFetch, FetchUnless, StartFetch
  <2> QED
    BY <1>6, <1>7, <1>8, <2>1
<1>12. ASSUME NEW q \in Procs, LookupAgain(q)
       PROVE  /\ q = p /\ At(p, "again")
              /\ \/ l = "accepted" /\ Known(req[p].kid)
                 \/ l = "refused" /\ ~Known(req[p].kid)
  <2>1. /\ At(q, "again")
        /\ \/ Known(req[q].kid) /\ req' = [req EXCEPT ![q] = Gone("accepted")]
           \/ ~Known(req[q].kid) /\ req' = [req EXCEPT ![q] = Gone("refused")]
    BY <1>1, <1>12 DEF LookupAgain
  <2> QED
    BY <1>7, <1>8, <2>1
<1>13. ASSUME NEW q \in Procs, Invalid(q) PROVE FALSE
  BY <1>7, <1>8, <1>13 DEF Invalid
<1> QED
  BY <1>2, <1>3, <1>4, <1>5, <1>9, <1>10, <1>11, <1>12, <1>13 DEF Next, Step, At

\* A key that was withdrawn is accepted no longer than the lifetime of the
\* cache and one timeout, whatever these are (Validate).
THEOREM CacheForgetsWithdrawnKeys == Spec => WithdrawnKeyExpires
<1>1. ASSUME CacheInv, Next, NEW p \in Procs, Ends(p, "accepted")
      PROVE  \E v \in 1 .. Len(since) :
               /\ req[p].kid \in Docs[v]
               /\ PublishedSince(v, req[p].validated - jwksCacheTTL - Timeout)
  <2>0. TypeOK /\ CacheIsAsOld /\ Sound(p)
    BY <1>1, CacheInvParts
  <2>1. req[p].pc \in {"lookup", "again"} /\ Known(req[p].kid)
    BY <1>1, <2>0, EndsByLooking
  <2>2. /\ cached # 0 /\ cached \in 1 .. Len(since) /\ req[p].kid \in Docs[cached]
        /\ PublishedSince(cached, fetchedAt - Timeout)
    BY <2>0, <2>1, Types DEF Known, CacheIsAsOld
  <2>3. /\ req[p].validated \in Int /\ fetchedAt \in Int /\ Timeout \in Nat
        /\ jwksCacheTTL \in Nat
    BY <2>0, Types, LocalTypes
  <2>4. fetchedAt >= req[p].validated - jwksCacheTTL
    BY <2>0, <2>1, <2>3 DEF Sound, At
  <2>5. PublishedSince(cached, req[p].validated - jwksCacheTTL - Timeout)
    <3>1. /\ fetchedAt - Timeout \in Int /\ req[p].validated - jwksCacheTTL - Timeout \in Int
          /\ req[p].validated - jwksCacheTTL - Timeout <= fetchedAt - Timeout
      BY <2>3, <2>4
    <3> QED
      BY <2>0, <2>2, <3>1, PublishedEarlier
  <2> QED
    BY <2>2, <2>5
<1>2. CacheInv /\ [Next]_vars =>
        [\A p \in Procs : Ends(p, "accepted") =>
           \E v \in 1 .. Len(since) :
             /\ req[p].kid \in Docs[v]
             /\ PublishedSince(v, req[p].validated - jwksCacheTTL - Timeout)]_vars
  BY <1>1, Zenon
<1> QED
  BY <1>2, CacheInvInductive, PTL DEF Spec, WithdrawnKeyExpires

\* A key that the realm publishes is refused only if it was not there within
\* the pause and one timeout, whatever these are (keyFunc).
THEOREM CacheFindsNewKeys == Spec => NewKeyIsFound
<1>1. ASSUME CacheInv, Next, NEW p \in Procs, Ends(p, "refused"), ~req[p].moved
      PROVE  \E v \in 1 .. Len(since) :
               /\ req[p].kid \notin Docs[v]
               /\ PublishedSince(v, req[p].validated - recent - Timeout)
  <2>0. TypeOK /\ CacheIsAsOld /\ Sound(p)
    BY <1>1, CacheInvParts
  <2>1. \/ At(p, "again") /\ ~Known(req[p].kid)
        \/ At(p, "recent") /\ now - fetchedAt < recent
    BY <1>1, <2>0, EndsByLooking
  <2>2. cached # 0 /\ req[p].kid \notin Docs[cached]
    BY <1>1, <2>0, <2>1, Zenon DEF Known, Sound
  <2>3. cached \in 1 .. Len(since) /\ PublishedSince(cached, fetchedAt - Timeout)
    BY <2>0, <2>2, Types DEF CacheIsAsOld
  <2>4. /\ req[p].validated \in Int /\ req[p].validated <= now /\ now \in Int
        /\ fetchedAt \in Int /\ Timeout \in Nat /\ recent \in Nat
    BY <2>0, Types, LocalTypes
  <2>5. fetchedAt >= req[p].validated - recent
    <3>1. CASE At(p, "again")
      <4>1. fetchedAt >= req[p].validated
        BY <2>0, <3>1 DEF Sound
      <4> QED
        BY <2>4, <4>1
    <3>2. CASE At(p, "recent") /\ now - fetchedAt < recent
      BY <2>4, <3>2
    <3> QED
      BY <2>1, <3>1, <3>2
  <2>6. PublishedSince(cached, req[p].validated - recent - Timeout)
    <3>1. /\ fetchedAt - Timeout \in Int /\ req[p].validated - recent - Timeout \in Int
          /\ req[p].validated - recent - Timeout <= fetchedAt - Timeout
      BY <2>4, <2>5
    <3> QED
      BY <2>0, <2>3, <3>1, PublishedEarlier
  <2> QED
    BY <2>2, <2>3, <2>6
<1>2. CacheInv /\ [Next]_vars =>
        [\A p \in Procs : Ends(p, "refused") /\ ~req[p].moved =>
           \E v \in 1 .. Len(since) :
             /\ req[p].kid \notin Docs[v]
             /\ PublishedSince(v, req[p].validated - recent - Timeout)]_vars
  BY <1>1, Zenon
<1> QED
  BY <1>2, CacheInvInductive, PTL DEF Spec, NewKeyIsFound
=============================================================================
