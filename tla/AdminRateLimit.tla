--------------------------- MODULE AdminRateLimit ---------------------------
(***************************************************************************)
(* RequireAdminAuth (server/middleware/admin.go): the attempts counted per *)
(* IP address, under rateMu, and the requests to the admin pages.  The     *)
(* limit is checked in one critical section and an attempt is counted in   *)
(* another, with the slow password check between them.                     *)
(***************************************************************************)
EXTENDS Integers, FiniteSets, Sequences

CONSTANTS
  Requests,           \* requests
  IPs,                \* addresses of clients
  allowedIPs,         \* the list given to RequireAdminAuth, not empty
  maxAdminAttempts,
  rateLimitWindow,
  MaxTime             \* bound on the time

ASSUME LimitAssumption ==
  /\ IsFiniteSet(Requests)
  /\ maxAdminAttempts \in Nat \ {0} /\ rateLimitWindow \in Nat \ {0} /\ MaxTime \in Nat

VARIABLES
  now,                \* the time
  rateBuckets,        \* rateBuckets[ip]: count and resetAt, or NoBucket
  req,                \* req[p]: where request p is, and its address
  failures            \* history: failures[ip], the times of its wrong passwords

limitVars == <<now, rateBuckets, req, failures>>

NoBucket == [count |-> 0, resetAt |-> -1]

Outcome == {"new", "forbidden", "limited", "unauthorized", "served"}

\* Buckets, requests and what was counted when.
LimitTypeOK ==
  /\ now \in 0 .. MaxTime
  /\ rateBuckets \in [IPs -> [count : Nat, resetAt : Int]]
  /\ req \in [Requests -> [pc : Outcome \cup {"password"}, ip : IPs]]
  /\ failures \in [IPs -> Seq(0 .. now)]

LimitInit ==
  /\ now = 0
  /\ rateBuckets = [ip \in IPs |-> NoBucket]
  /\ \E ip \in IPs : req = [p \in Requests |-> [pc |-> "new", ip |-> ip]]
  /\ failures = [ip \in IPs |-> <<>>]

Tick ==
  /\ now < MaxTime
  /\ now' = now + 1
  /\ UNCHANGED <<rateBuckets, req, failures>>

Expired(ip) == now > rateBuckets[ip].resetAt

Forbid(p, ip) ==
  /\ req[p].pc \in Outcome /\ ip \notin allowedIPs
  /\ req' = [req EXCEPT ![p] = [pc |-> "forbidden", ip |-> ip]]
  /\ UNCHANGED <<now, rateBuckets, failures>>

\* Mutant of RateLimited: a bucket is never over.
RateLimitedForever(p, ip) ==
  /\ req[p].pc \in Outcome /\ ip \in allowedIPs
  /\ req' = [req EXCEPT ![p] =
       [pc |-> IF rateBuckets[ip].count >= maxAdminAttempts THEN "limited" ELSE "password",
        ip |-> ip]]
  /\ UNCHANGED <<now, rateBuckets, failures>>

\* Mutant of RateLimited: > for >=.
RateLimitedLate(p, ip) ==
  /\ req[p].pc \in Outcome /\ ip \in allowedIPs
  /\ rateBuckets' = [rateBuckets EXCEPT ![ip] = IF Expired(ip) THEN NoBucket ELSE @]
  /\ req' = [req EXCEPT ![p] =
       [pc |-> IF rateBuckets'[ip].count > maxAdminAttempts THEN "limited" ELSE "password",
        ip |-> ip]]
  /\ UNCHANGED <<now, failures>>

\* rateLimited: a bucket that is over is deleted, a full one refuses.
RateLimited(p, ip) ==
  /\ req[p].pc \in Outcome /\ ip \in allowedIPs
  /\ rateBuckets' = [rateBuckets EXCEPT ![ip] = IF Expired(ip) THEN NoBucket ELSE @]
  /\ req' = [req EXCEPT ![p] =
       [pc |-> IF rateBuckets'[ip].count >= maxAdminAttempts THEN "limited" ELSE "password",
        ip |-> ip]]
  /\ UNCHANGED <<now, failures>>

Attempt(p) ==
  /\ req[p].pc = "password"
  /\ req' = [req EXCEPT ![p].pc = "unauthorized"]
  /\ failures' = [failures EXCEPT ![req[p].ip] = Append(@, now)]
  /\ UNCHANGED now

\* Mutant of RecordAttempt: every attempt starts the window again.
RecordAttemptExtends(p) ==
  /\ Attempt(p)
  /\ rateBuckets' = [rateBuckets EXCEPT ![req[p].ip] =
       [count |-> IF Expired(req[p].ip) THEN 1 ELSE @.count + 1,
        resetAt |-> now + rateLimitWindow]]

\* The password is wrong: recordAttempt starts a bucket or counts in it.
RecordAttempt(p) ==
  /\ Attempt(p)
  /\ rateBuckets' = [rateBuckets EXCEPT ![req[p].ip] =
       IF Expired(req[p].ip) THEN [count |-> 1, resetAt |-> now + rateLimitWindow]
       ELSE [count |-> @.count + 1, resetAt |-> @.resetAt]]

\* The password is right; the bucket stays as it is.
Serve(p) ==
  /\ req[p].pc = "password"
  /\ req' = [req EXCEPT ![p].pc = "served"]
  /\ UNCHANGED <<now, rateBuckets, failures>>

LimitNext ==
  \/ Tick
  \/ \E p \in Requests :
       \/ \E ip \in IPs : Forbid(p, ip) \/ RateLimited(p, ip)
       \/ RecordAttempt(p) \/ Serve(p)

LimitSpec == LimitInit /\ [][LimitNext]_limitVars

-----------------------------------------------------------------------------
InFlight(ip) == {p \in Requests : req[p].pc = "password" /\ req[p].ip = ip}

FailedSince(ip, t) == {i \in DOMAIN failures[ip] : failures[ip][i] >= t}

\* The check and the count are not atomic, but the excess is bounded by what
\* runs at once: a window never sees more wrong passwords from an address than
\* the limit and one less than the number of requests served concurrently.
ExcessIsBounded ==
  \A ip \in IPs :
    rateBuckets[ip].count + Cardinality(InFlight(ip))
      <= maxAdminAttempts + Cardinality(Requests) - 1

\* A window, once started, is over when it said it would be, whatever attempts
\* come in between: an address is never locked out for longer (recordAttempt).
WindowIsFixed ==
  [][\A ip \in IPs :
       rateBuckets'[ip].resetAt # rateBuckets[ip].resetAt => Expired(ip)]_limitVars

\* A request is refused only if its own address has sent as many wrong passwords
\* as the limit within one window before it (rateLimited).
LimitedForRecentFailures ==
  [][\A p \in Requests : req[p].pc # "limited" /\ req'[p].pc = "limited" =>
       Cardinality(FailedSince(req'[p].ip, now - rateLimitWindow)) >= maxAdminAttempts]_limitVars

\* The inductive form of the properties above: an attempt that a bucket counts
\* failed within its window, and no window ends later than one from now.
LimitInv ==
  /\ LimitTypeOK
  /\ ExcessIsBounded
  /\ \A ip \in IPs :
       /\ rateBuckets[ip].resetAt <= now + rateLimitWindow
       /\ rateBuckets[ip].count
            <= Cardinality(FailedSince(ip, rateBuckets[ip].resetAt - rateLimitWindow))
=============================================================================
