----------------------------- MODULE RateLimit -----------------------------
(***************************************************************************)
(* The middleware every request to the API passes: a counter for each      *)
(* client in a window of fixed length that starts with a request.  Clients *)
(* are the keys the middleware tells apart, the first forwarded address or *)
(* else the address of the connection.                                     *)
(***************************************************************************)
EXTENDS Naturals, FiniteSetsExt

CONSTANTS
  Clients,
  Configured,   \* what RATE_LIMIT_MAX may be set to; 0 stands for what is no
                \* positive integer, unset included
  DEFAULT_RATE_LIMIT_MAX,
  windowMs,     \* length of the window, in units of the clock
  MaxTime,      \* bound on the clock
  MaxRequests   \* bound on the requests of a client in one window

VARIABLES
  now,
  limit,    \* maxRequests
  buckets,  \* [count, resetAt]; a client not seen yet has a bucket long over
  passed,   \* history: requests let through, by client and time
  refused   \* history: the clients and times of refusals

limiterVars == << now, limit, buckets, passed, refused >>

Times == 0..MaxTime
NoBucket == [count |-> 0, resetAt |-> 0]

getPositiveInteger(value, fallback) == IF value = 0 THEN fallback ELSE value

LimiterInit ==
  /\ now = 0
  /\ \E value \in Configured : limit = getPositiveInteger(value, DEFAULT_RATE_LIMIT_MAX)
  /\ buckets = [c \in Clients |-> NoBucket]
  /\ passed = [c \in Clients |-> [t \in Times |-> 0]]
  /\ refused = {}

\* Mutant: the window includes its end.
OpenAtEnd(bucket) == bucket.resetAt >= now

Open(bucket) == bucket.resetAt > now

\* The bucket a request is counted in.
Bucket(c) ==
  IF Open(buckets[c]) THEN buckets[c] ELSE [count |-> 0, resetAt |-> now + windowMs]

Receive(c) ==
  LET count == Bucket(c).count + 1
  IN /\ Bucket(c).count < MaxRequests
     /\ buckets' = [buckets EXCEPT ![c] = [Bucket(c) EXCEPT !.count = count]]
     /\ IF count > limit
        THEN refused' = refused \cup {<< c, now >>} /\ UNCHANGED passed
        ELSE passed' = [passed EXCEPT ![c][now] = @ + 1] /\ UNCHANGED refused
     /\ UNCHANGED << now, limit >>

\* The clock of the process; it is not set back.
Pass ==
  /\ now < MaxTime
  /\ now' = now + 1
  /\ UNCHANGED << limit, buckets, passed, refused >>

LimiterNext == Pass \/ \E c \in Clients : Receive(c)

LimiterSpec == LimiterInit /\ [][LimiterNext]_limiterVars

-----------------------------------------------------------------------------
(* Properties *)

\* Requests of a client let through from one time to another.
LetThrough(c, from, to) == MapThenSumSet(LAMBDA t : passed[c][t], from..to)

\* In no span as long as the window do more than two allowances pass: one at the
\* end of a window and one at the start of the next; and a request is refused only
\* to a client that has used a whole allowance within the length of a window.
AllowanceHolds ==
  \A c \in Clients :
    /\ \A t \in Times : t + windowMs - 1 \in Times => LetThrough(c, t, t + windowMs - 1) <= 2 * limit
    /\ \A t \in Times : << c, t >> \in refused =>
         LetThrough(c, IF t < windowMs THEN 0 ELSE t - windowMs + 1, t) >= limit
=============================================================================
