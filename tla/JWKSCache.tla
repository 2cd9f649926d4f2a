----------------------------- MODULE JWKSCache -----------------------------
(***************************************************************************)
(* The key cache of OIDCValidator (server/auth/jwt.go) and the requests    *)
(* that validate tokens with it, each in a goroutine of its own.  v.mu     *)
(* protects the cached keys and fetchedAt, read and written in separate    *)
(* critical sections; a fetch for a stale cache is shared (singleflight),  *)
(* a fetch for an unknown kid is not.                                      *)
(*                                                                         *)
(* External: the realm, which publishes one document of keys after another *)
(* at times of its choosing.  A document is the set of its usable kids.    *)
(* Decoding an answer and storing it take no time.                         *)
(***************************************************************************)
EXTENDS Integers, Sequences

CONSTANTS
  Procs,          \* requests
  Kids,           \* key ids
  Docs,           \* the documents the realm publishes, in their order
  jwksCacheTTL,   \* lifetime of the cache
  recent,         \* no fetch for an unknown kid this soon after a fetch
  Timeout,        \* timeout of v.httpClient
  MaxTime         \* bound on the time

ASSUME CacheAssumption ==
  /\ Docs \in Seq(SUBSET Kids) /\ Docs # <<>>
  /\ jwksCacheTTL \in Nat /\ recent \in Nat /\ Timeout \in Nat /\ MaxTime \in Nat

VARIABLES
  now,            \* the time
  since,          \* since[v]: when document v was published
  cached,         \* the document in v.keys, 0 before the first fetch
  fetchedAt,      \* the field v.fetchedAt
  req,            \* req[p]: where request p is, and its token
  fetch           \* fetch[p]: the call of fetchJWKS that p makes, or NoFetch

vars == <<now, since, cached, fetchedAt, req, fetch>>

Ended == {"new", "accepted", "refused", "failed"}

PC == Ended \cup {"stale", "wait", "fetch", "lookup", "recent", "again"}

NoFetch == [doc |-> 0, started |-> 0, shared |-> FALSE]

\* A request that has returned, or is not there yet.
Gone(label) == [pc |-> label, kid |-> "none", validated |-> 0, moved |-> FALSE]

\* Requests are where the code can be, and times do not run ahead.
TypeOK ==
  /\ now \in 0 .. MaxTime
  /\ since \in Seq(0 .. now) /\ Len(since) \in 1 .. Len(Docs)
  /\ cached \in 0 .. Len(since)
  /\ fetchedAt \in -(jwksCacheTTL + 1) .. now
  /\ req \in [Procs -> [pc : PC, kid : Kids \cup {"none"}, validated : 0 .. now,
                        moved : BOOLEAN]]
  /\ fetch \in [Procs -> [doc : 0 .. Len(since), started : 0 .. now, shared : BOOLEAN]]

\* NewOIDCValidator: no keys, and a fetchedAt that is always stale.
Init ==
  /\ now = 0
  /\ since = <<0>>
  /\ cached = 0
  /\ fetchedAt = -(jwksCacheTTL + 1)
  /\ req = [p \in Procs |-> Gone("new")]
  /\ fetch = [p \in Procs |-> NoFetch]

At(p, label) == req[p].pc = label

Known(kid) == cached # 0 /\ kid \in Docs[cached]

Cache == <<now, since, cached, fetchedAt>>

-----------------------------------------------------------------------------
Tick ==
  /\ now < MaxTime
  /\ now' = now + 1
  /\ UNCHANGED <<since, cached, fetchedAt, req, fetch>>

Publish ==
  /\ Len(since) < Len(Docs)
  /\ since' = Append(since, now)
  /\ UNCHANGED <<now, cached, fetchedAt, req, fetch>>

\* Validate starts with a token signed by kid.
Validate(p, kid, label) ==
  /\ req[p].pc \in Ended
  /\ req' = [req EXCEPT ![p] =
       [pc |-> label, kid |-> kid, validated |-> now, moved |-> FALSE]]
  /\ UNCHANGED <<Cache, fetch>>

\* Mutant of RefreshIfStale: only an empty cache is refreshed.
RefreshIfEmpty(p, kid) == Validate(p, kid, IF cached = 0 THEN "stale" ELSE "lookup")

RefreshIfStale(p, kid) ==
  Validate(p, kid, IF now - fetchedAt > jwksCacheTTL THEN "stale" ELSE "lookup")

\* fetchJWKS is called; doc is 0 until the answer is there.
StartFetch(p, shared) ==
  /\ req' = [req EXCEPT ![p].pc = "fetch"]
  /\ fetch' = [fetch EXCEPT ![p] = [doc |-> 0, started |-> now, shared |-> shared]]

Leads(p) == At(p, "fetch") /\ fetch[p].shared

\* fetchGroup.Do: wait for the fetch under way, or run one.
Do(p) ==
  /\ At(p, "stale")
  /\ \/ /\ \E q \in Procs : Leads(q)
        /\ req' = [req EXCEPT ![p].pc = "wait"]
        /\ UNCHANGED fetch
     \/ /\ \A q \in Procs : ~Leads(q)
        /\ StartFetch(p, TRUE)
  /\ UNCHANGED Cache

\* Mutant of InTime: an http.Client without a timeout.
AnyTime(p) == At(p, "fetch")

InTime(p) == At(p, "fetch") /\ now - fetch[p].started <= Timeout

\* The realm answers with what it publishes at this time.
Get(p) ==
  /\ InTime(p) /\ fetch[p].doc = 0
  /\ fetch' = [fetch EXCEPT ![p].doc = Len(since)]
  /\ UNCHANGED <<Cache, req>>

\* The fetch of p returns, a shared one to all that wait for it.
Returns(p, q) == q = p \/ (At(q, "wait") /\ fetch[p].shared)

\* Mutant of FetchStore: the time of expiry is kept instead of the time of the
\* fetch.
FetchStoreExpiry(p) ==
  /\ InTime(p) /\ fetch[p].doc # 0
  /\ cached' = fetch[p].doc
  /\ fetchedAt' = now + jwksCacheTTL
  /\ req' = [req EXCEPT ![p].pc = "lookup"]
  /\ fetch' = [fetch EXCEPT ![p] = NoFetch]
  /\ UNCHANGED <<now, since>>

\* The keys are replaced.  A request that has missed its kid in the old ones
\* and is still to look at fetchedAt has moved (history).
FetchStore(p) ==
  /\ InTime(p) /\ fetch[p].doc # 0
  /\ Docs[fetch[p].doc] # {}
  /\ cached' = fetch[p].doc
  /\ fetchedAt' = now
  /\ req' = [q \in Procs |->
       IF Returns(p, q) THEN [req[q] EXCEPT !.pc = IF fetch[p].shared THEN "lookup" ELSE "again"]
       ELSE [req[q] EXCEPT !.moved = @ \/ At(q, "recent")]]
  /\ fetch' = [fetch EXCEPT ![p] = NoFetch]
  /\ UNCHANGED <<now, since>>

\* Mutant of FetchFail: those who wait for a shared fetch are not told.
FetchFailAlone(p) ==
  /\ At(p, "fetch")
  /\ req' = [req EXCEPT ![p] = Gone("failed")]
  /\ fetch' = [fetch EXCEPT ![p] = NoFetch]
  /\ UNCHANGED Cache

\* The realm is not reached, times out or sends no usable key.
FetchFail(p) ==
  /\ At(p, "fetch")
  /\ req' = [q \in Procs |-> IF Returns(p, q) THEN Gone("failed") ELSE req[q]]
  /\ fetch' = [fetch EXCEPT ![p] = NoFetch]
  /\ UNCHANGED Cache

\* keyFunc's first look at the keys.
Lookup(p) ==
  /\ At(p, "lookup")
  /\ req' = [req EXCEPT ![p] =
       IF Known(@.kid) THEN Gone("accepted") ELSE [@ EXCEPT !.pc = "recent"]]
  /\ UNCHANGED <<Cache, fetch>>

\* Refuse the token, or fetch the keys.
FetchUnless(p, refuse) ==
  /\ \/ refuse /\ req' = [req EXCEPT ![p] = Gone("refused")] /\ UNCHANGED fetch
     \/ ~refuse /\ StartFetch(p, FALSE)
  /\ UNCHANGED Cache

\* Mutant of RecentFetch: a fetch is recent as long as the cache is not stale.
RecentFetchTTL(p) == At(p, "recent") /\ FetchUnless(p, now - fetchedAt <= jwksCacheTTL)

\* keyFunc's look at fetchedAt, after it has released the lock.
RecentFetch(p) == At(p, "recent") /\ FetchUnless(p, now - fetchedAt < recent)

\* keyFunc's look at the keys after its own fetch.
LookupAgain(p) ==
  /\ At(p, "again")
  /\ req' = [req EXCEPT ![p] = Gone(IF Known(@.kid) THEN "accepted" ELSE "refused")]
  /\ UNCHANGED <<Cache, fetch>>

\* The token does not parse, or has a method, a signature, an issuer or an
\* audience that Validate does not accept.
Invalid(p) ==
  /\ req[p].pc \in {"lookup", "again"}
  /\ req' = [req EXCEPT ![p] = Gone("failed")]
  /\ UNCHANGED <<Cache, fetch>>

Step(p) ==
  \/ Do(p) \/ Get(p) \/ FetchStore(p) \/ FetchFail(p)
  \/ Lookup(p) \/ RecentFetch(p) \/ LookupAgain(p) \/ Invalid(p)

Next ==
  \/ Tick \/ Publish
  \/ \E p \in Procs : Step(p) \/ \E kid \in Kids : RefreshIfStale(p, kid)

Spec == Init /\ [][Next]_vars

-----------------------------------------------------------------------------
\* Document v was published at some time not before t.
PublishedSince(v, t) == v = Len(since) \/ since[v + 1] >= t

Ends(p, label) == ~At(p, label) /\ At(p, label)'

\* The cached keys were those of the realm when fetchedAt says, give or take
\* the timeout: a slow fetch that stores an older document over a newer one
\* cannot make it look fresh for longer than that (fetchJWKS).
CacheIsAsOld == cached # 0 => PublishedSince(cached, fetchedAt - Timeout)

\* A key that the realm has withdrawn is accepted no longer than the lifetime
\* of the cache and one timeout, whoever fetches and whatever fails (Validate).
WithdrawnKeyExpires ==
  [][\A p \in Procs : Ends(p, "accepted") =>
       \E v \in 1 .. Len(since) :
         /\ req[p].kid \in Docs[v]
         /\ PublishedSince(v, req[p].validated - jwksCacheTTL - Timeout)]_vars

\* A key that the realm publishes is refused as unknown only if it was not
\* there recently: some document without it was published less than the
\* five-second pause and one timeout before the request, unless the keys were
\* replaced while the request was between its two looks (keyFunc).
NewKeyIsFound ==
  [][\A p \in Procs : Ends(p, "refused") /\ ~req[p].moved =>
       \E v \in 1 .. Len(since) :
         /\ req[p].kid \notin Docs[v]
         /\ PublishedSince(v, req[p].validated - recent - Timeout)]_vars

\* A request that waits for a shared fetch waits for one that is under way and
\* will return, with an error at the latest after the timeout, and there is
\* never more than one: nobody waits for ever (refreshIfStale).
WaitersAreServed ==
  /\ (\E p \in Procs : At(p, "wait")) => \E q \in Procs : Leads(q)
  /\ \A p, q \in Procs : Leads(p) /\ Leads(q) => p = q
-----------------------------------------------------------------------------
\* The inductive invariant.

\* A fetchedAt that is not stale comes with keys.
NeverFetched == cached = 0 => fetchedAt = -(jwksCacheTTL + 1)

\* An answer on its way was the realm's when or after it was asked for.
AnswersAreAsOld ==
  \A p \in Procs : fetch[p].doc # 0 => PublishedSince(fetch[p].doc, fetch[p].started)

\* What a request that looks at the keys may count on: they are not staler than
\* they were when it began, and after its own fetch they are newer than that.
LooksAreFresh ==
  \A p \in Procs :
    /\ At(p, "lookup") => cached # 0 /\ fetchedAt >= req[p].validated - jwksCacheTTL
    /\ At(p, "again") => cached # 0 /\ fetchedAt >= req[p].validated

\* A request that has missed its kid missed it in the keys that are there,
\* unless they were replaced.
MissIsCurrent ==
  \A p \in Procs :
    At(p, "recent") => req[p].moved \/ (cached # 0 /\ req[p].kid \notin Docs[cached])

CacheInv ==
  /\ TypeOK
  /\ CacheIsAsOld
  /\ WaitersAreServed
  /\ NeverFetched
  /\ AnswersAreAsOld
  /\ LooksAreFresh
  /\ MissIsCurrent
=============================================================================
