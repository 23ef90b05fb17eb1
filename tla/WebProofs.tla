----------------------------- MODULE WebProofs -----------------------------
(* Theorems about the pages and the limiter, for any records, users and     *)
(* requests under way.                                                      *)
EXTENDS Web, SumTheorems

-----------------------------------------------------------------------------
(* The limiter.                                                             *)
(***************************************************************************)
(* A window starts when its bucket is made (Start).  Since then as many    *)
(* requests passed as were counted, up to the limit, and none passed at or *)
(* after its end; in the length of a window before it no more than the     *)
(* limit passed, since the window before lasted at least as long (Window). *)
(***************************************************************************)
Times == 0..MaxTime
Span(f, from, to) == SumOver(f, from..to)
Back(t) == IF t < windowMs THEN 0 ELSE t - windowMs + 1
Start(b) == b.resetAt - windowMs

Buckets == [count : Nat, resetAt : Nat]
Window(f, b, n, l) ==
  /\ Start(b) \in 0..n
  /\ \A t \in Times : t > n \/ t >= b.resetAt => f[t] = 0
  /\ Span(f, Start(b), MaxTime) = IF b.count > l THEN l ELSE b.count
  /\ Span(f, Back(Start(b)), Start(b) - 1) <= l
Spans(f, l) ==
  \A t \in Times : t + windowMs - 1 \in Times => Span(f, t, t + windowMs - 1) <= 2 * l
Unseen(f, b) == b.count = 0 /\ b.resetAt = 0 /\ \A t \in Times : f[t] = 0

ClientKept(f, b, n, l) ==
  /\ f \in [Times -> Nat] /\ b \in Buckets
  /\ Unseen(f, b) \/ Window(f, b, n, l)
  /\ Spans(f, l)

LInv ==
  /\ now \in Times /\ limit \in Nat \ {0}
  /\ buckets \in [Clients -> Buckets] /\ passed \in [Clients -> [Times -> Nat]]
  /\ \A c \in Clients : ClientKept(passed[c], buckets[c], now, limit)
  /\ \A c \in Clients : \A t \in Times :
       << c, t >> \in refused => Span(passed[c], Back(t), t) >= limit

LEMMA SpanIsNat ==
  ASSUME NEW f \in [Times -> Nat], NEW a \in Int, NEW z \in Int, 0 <= a, z <= MaxTime
  PROVE  Span(f, a, z) \in Nat /\ IsFiniteSet(a..z)
<1>1. IsFiniteSet(a..z)
  BY FS_Interval
<1>2. \A x \in a..z : f[x] \in Nat /\ f[x] \in Int
  BY LimiterAssumption DEF Times
<1> QED
  BY <1>1, <1>2, SumType DEF Span

\* A span within another.
LEMMA SpanWithin ==
  ASSUME NEW f \in [Times -> Nat], NEW a \in Int, NEW z \in Int, 0 <= a, z <= MaxTime,
         NEW b \in Int, NEW y \in Int, a <= b, y <= z
  PROVE  Span(f, b, y) <= Span(f, a, z)
<1>1. IsFiniteSet(a..z)
  BY FS_Interval
<1>2. \A x \in a..z : f[x] \in Nat
  BY LimiterAssumption DEF Times
<1>3. b..y \in SUBSET (a..z)
  OBVIOUS
<1> QED
  BY <1>1, <1>2, <1>3, SumGrows DEF Span

\* A span cut in two.
LEMMA SpanCut ==
  ASSUME NEW f \in [Times -> Nat], NEW a \in Int, NEW z \in Int, 0 <= a, z <= MaxTime,
         NEW m \in Int, a <= m, m <= z + 1
  PROVE  Span(f, a, z) = Span(f, a, m - 1) + Span(f, m, z)
<1>1. IsFiniteSet(a..z)
  BY FS_Interval
<1>2. \A x \in a..z : f[x] \in Int
  BY LimiterAssumption DEF Times
<1>3. m..z \in SUBSET (a..z) /\ (a..z) \ (m..z) = a..(m - 1)
  OBVIOUS
<1>4. SumOver(f, a..z) = SumOver(f, m..z) + SumOver(f, (a..z) \ (m..z))
  BY <1>1, <1>2, <1>3, SumSplits
<1>5. Span(f, a, m - 1) \in Int /\ Span(f, m, z) \in Int
  BY LimiterAssumption, SpanIsNat
<1>6. PICK rest : rest = a..(m - 1)
  OBVIOUS
<1>7. SumOver(f, a..z) = SumOver(f, m..z) + SumOver(f, rest)
  <2>1. (a..z) \ (m..z) = rest
    BY <1>3, <1>6
  <2> QED
    BY <1>4, <2>1
<1>8. SumOver(f, rest) = Span(f, a, m - 1)
  BY <1>6 DEF Span
<1>9. SumOver(f, a..z) = Span(f, a, z) /\ SumOver(f, m..z) = Span(f, m, z)
  BY DEF Span
<1> QED
  BY <1>5, <1>7, <1>8, <1>9

LEMMA SpanOfZeros ==
  ASSUME NEW f \in [Times -> Nat], NEW a \in Int, NEW z \in Int,
         \A t \in a..z : f[t] = 0
  PROVE  Span(f, a, z) = 0
BY FS_Interval, SumOfZeros DEF Span

\* One request more.
Passing(f, n) == [f EXCEPT ![n] = @ + 1]

LEMMA SpanBumps ==
  ASSUME NEW f \in [Times -> Nat], NEW n \in Times,
         NEW a \in Int, NEW z \in Int, 0 <= a, z <= MaxTime
  PROVE  /\ Passing(f, n) \in [Times -> Nat]
         /\ n \in a..z => Span(Passing(f, n), a, z) = Span(f, a, z) + 1
         /\ n \notin a..z => Span(Passing(f, n), a, z) = Span(f, a, z)
<1>1. IsFiniteSet(a..z)
  BY FS_Interval
<1>2. PICK g : g = Passing(f, n)
  OBVIOUS
<1>3. g \in [Times -> Nat] /\ (\A x \in Times : g[x] = IF x = n THEN f[x] + 1 ELSE f[x])
  BY <1>2 DEF Passing
<1>4. a..z \subseteq Times
  BY LimiterAssumption DEF Times
<1>5. \A x \in a..z : f[x] \in Int
  BY <1>4
<1>6. ASSUME n \in a..z  PROVE Span(g, a, z) = Span(f, a, z) + 1
  <2>1. g[n] \in Int /\ (\A x \in (a..z) \ {n} : g[x] = f[x]) /\ g[n] - f[n] = 1
    BY <1>3, <1>4
  <2>2. PICK S : S = a..z
    OBVIOUS
  <2>3. PICK h : h = f
    OBVIOUS
  <2>4. SumOver(g, S) = SumOver(h, S) + (g[n] - h[n])
    <3>1. /\ IsFiniteSet(S) /\ n \in S /\ \A x \in S : h[x] \in Int
          /\ g[n] \in Int /\ \A x \in S \ {n} : g[x] = h[x]
      BY <1>1, <1>5, <1>6, <2>1, <2>2, <2>3
    <3> QED
      <4>1. PICK k : k = n
        OBVIOUS
      <4>2. SumOver(g, S) = SumOver(h, S) + (g[k] - h[k])
        BY <3>1, <4>1, SumBumps
      <4> QED
        BY <4>1, <4>2
  <2> QED
    BY <2>1, <2>2, <2>3, <2>4 DEF Span
<1>7. ASSUME n \notin a..z  PROVE Span(g, a, z) = Span(f, a, z)
  <2>1. \A x \in a..z : g[x] = f[x]
    BY <1>3, <1>4, <1>7
  <2> QED
    BY <1>1, <2>1, SumSame DEF Span
<1> QED
  BY <1>2, <1>3, <1>6, <1>7

\* The bucket of a request is open, and its window is as it should be.
LEMMA WindowOfRequest ==
  ASSUME NEW f \in [Times -> Nat], NEW b \in Buckets, NEW n \in Times, NEW l \in Nat \ {0},
         ClientKept(f, b, n, l), ~(b.resetAt > n)
  PROVE  Window(f, [count |-> 0, resetAt |-> n + windowMs], n, l)
<1> DEFINE d == [count |-> 0, resetAt |-> n + windowMs]
<1>0. n \in Nat /\ windowMs \in Nat /\ windowMs > 0 /\ MaxTime \in Nat /\ n <= MaxTime
      /\ b.resetAt \in Nat
  BY LimiterAssumption DEF Times, Buckets
<1>1. Start(d) = n /\ d.count = 0 /\ d.resetAt = n + windowMs
  BY <1>0 DEF Start
<1>2. \A t \in Times : t >= n => f[t] = 0
  BY <1>0 DEF ClientKept, Unseen, Window, Times
<1>3. Span(f, n, MaxTime) = 0
  <2>1. \A t \in n..MaxTime : f[t] = 0
    BY <1>0, <1>2 DEF Times
  <2> QED
    BY <1>0, <2>1, SpanOfZeros
<1>4. Back(n) \in Nat /\ Back(n) > n - windowMs
  BY <1>0 DEF Back
<1>5. Span(f, Back(n), n - 1) <= l
  <2>1. CASE Unseen(f, b)
    <3>1. \A t \in Back(n)..(n - 1) : f[t] = 0
      BY <1>0, <1>4, <2>1 DEF Unseen, Times
    <3>2. Span(f, Back(n), n - 1) = 0
      BY <1>0, <1>4, <3>1, SpanOfZeros
    <3> QED
      BY <3>2
  <2>2. CASE Window(f, b, n, l)
    <3>1. Start(b) \in Int /\ 0 <= Start(b) /\ Start(b) <= Back(n)
      BY <1>0, <1>4, <2>2 DEF Window, Start
    <3>2. Span(f, Back(n), n - 1) <= Span(f, Start(b), MaxTime)
      BY <1>0, <1>4, <3>1, SpanWithin
    <3>3. Span(f, Start(b), MaxTime) <= l
      BY <2>2 DEF Window, Buckets
    <3>4. Span(f, Back(n), n - 1) \in Nat /\ Span(f, Start(b), MaxTime) \in Nat
      BY <1>0, <1>4, <3>1, SpanIsNat
    <3> QED
      BY <3>2, <3>3, <3>4
  <2> QED
    BY <2>1, <2>2 DEF ClientKept
<1>6. \A t \in Times : t > n \/ t >= d.resetAt => f[t] = 0
  BY <1>0, <1>1, <1>2 DEF Times
<1>7. Start(d) \in 0..n
  BY <1>0, <1>1
<1> QED
  BY <1>1, <1>3, <1>5, <1>6, <1>7 DEF Window

Counted(b) == [b EXCEPT !.count = @ + 1]

\* A request that is let through leaves no span with more than two allowances: what
\* it has since the start of the window is one, what it has before is another.
LEMMA LetThroughKeeps ==
  ASSUME NEW f \in [Times -> Nat], NEW b \in Buckets, NEW n \in Times, NEW l \in Nat \ {0},
         Window(f, b, n, l), Spans(f, l), b.resetAt > n, b.count + 1 <= l
  PROVE  ClientKept(Passing(f, n), Counted(b), n, l)
<1> DEFINE s == Start(b)
           g == Passing(f, n)
           d == Counted(b)
<1>0. /\ n \in Nat /\ windowMs \in Nat /\ windowMs > 0 /\ MaxTime \in Nat /\ n <= MaxTime
      /\ b.resetAt \in Nat /\ b.count \in Nat
  BY LimiterAssumption DEF Times, Buckets
<1>1. d \in Buckets /\ d.count = b.count + 1 /\ d.resetAt = b.resetAt /\ Start(d) = s
  BY DEF Counted, Buckets, Start
<1>2. s \in Int /\ 0 <= s /\ s <= n /\ b.resetAt = s + windowMs
  BY <1>0 DEF Window, Start
<1>3. g \in [Times -> Nat] /\ \A x \in Times : g[x] = IF x = n THEN f[x] + 1 ELSE f[x]
  BY DEF Passing
<1>4. Back(s) \in Nat /\ Back(s) <= s
  BY <1>0, <1>2 DEF Back
<1>5. Span(g, s, MaxTime) = d.count
  <2>1. Span(f, s, MaxTime) = b.count
    BY <1>0 DEF Window
  <2>2. n \in s..MaxTime
    BY <1>0, <1>2
  <2>3. Span(g, s, MaxTime) = Span(f, s, MaxTime) + 1
    BY <1>0, <1>2, <2>2, SpanBumps
  <2> QED
    BY <1>1, <2>1, <2>3
<1>6. Span(g, Back(s), s - 1) <= l
  <2>1. n \notin Back(s)..(s - 1)
    BY <1>0, <1>2, <1>4
  <2>2. Span(g, Back(s), s - 1) = Span(f, Back(s), s - 1)
    BY <1>0, <1>2, <1>4, <2>1, SpanBumps
  <2> QED
    BY <2>2 DEF Window
<1>7. Window(g, d, n, l)
  <2>1. \A t \in Times : t > n \/ t >= d.resetAt => g[t] = 0
    BY <1>0, <1>1, <1>2, <1>3 DEF Window, Times
  <2> QED
    BY <1>0, <1>1, <1>2, <1>5, <1>6, <2>1 DEF Window
<1>8. ASSUME NEW t \in Times, t + windowMs - 1 \in Times
      PROVE  Span(g, t, t + windowMs - 1) <= 2 * l
  <2> DEFINE z == t + windowMs - 1
  <2>0. t \in Nat /\ z \in Int /\ z <= MaxTime /\ z >= t
    BY <1>0, <1>8 DEF Times
  <2>1. CASE n \notin t..z
    <3>1. Span(g, t, z) = Span(f, t, z)
      BY <1>0, <2>0, <2>1, SpanBumps
    <3> QED
      BY <1>8, <3>1 DEF Spans
  <2>2. CASE n \in t..z /\ t >= s
    <3>1. Span(g, t, z) <= Span(g, s, MaxTime)
      BY <1>0, <1>2, <1>3, <2>0, <2>2, SpanWithin
    <3>2. Span(g, t, z) \in Nat
      BY <1>0, <1>3, <2>0, SpanIsNat
    <3> QED
      BY <1>0, <1>1, <1>5, <3>1, <3>2
  <2>3. CASE n \in t..z /\ t < s
    <3>1. Back(s) <= t /\ s <= z
      BY <1>0, <1>2, <2>0, <2>3 DEF Back
    <3>2. Span(g, t, z) = Span(g, t, s - 1) + Span(g, s, z)
      BY <1>0, <1>2, <1>3, <2>0, <2>3, <3>1, SpanCut
    <3>3. Span(g, t, s - 1) <= Span(g, Back(s), s - 1)
      BY <1>0, <1>2, <1>3, <1>4, <2>0, <3>1, SpanWithin
    <3>4. Span(g, s, z) <= Span(g, s, MaxTime)
      BY <1>0, <1>2, <1>3, <2>0, SpanWithin
    <3>5. /\ Span(g, t, s - 1) \in Nat /\ Span(g, s, z) \in Nat
          /\ Span(g, Back(s), s - 1) \in Nat
      BY <1>0, <1>2, <1>3, <1>4, <2>0, SpanIsNat
    <3> HIDE DEF g
    <3> QED
      BY <1>0, <1>1, <1>5, <1>6, <3>2, <3>3, <3>4, <3>5
  <2> QED
    BY <1>2, <2>0, <2>1, <2>2, <2>3
<1> QED
  BY <1>1, <1>3, <1>7, <1>8 DEF ClientKept, Spans

\* A request that is refused comes after a whole allowance in its window.
LEMMA RefusalKeeps ==
  ASSUME NEW f \in [Times -> Nat], NEW b \in Buckets, NEW n \in Times, NEW l \in Nat \ {0},
         Window(f, b, n, l), Spans(f, l), b.resetAt > n, b.count + 1 > l
  PROVE  ClientKept(f, Counted(b), n, l) /\ Span(f, Back(n), n) >= l
<1> DEFINE s == Start(b)
           d == Counted(b)
<1>0. /\ n \in Nat /\ windowMs \in Nat /\ windowMs > 0 /\ MaxTime \in Nat /\ n <= MaxTime
      /\ b.resetAt \in Nat /\ b.count \in Nat
  BY LimiterAssumption DEF Times, Buckets
<1>1. d \in Buckets /\ d.count = b.count + 1 /\ d.resetAt = b.resetAt /\ Start(d) = s
  BY DEF Counted, Buckets, Start
<1>2. s \in Int /\ 0 <= s /\ s <= n /\ b.resetAt = s + windowMs
  BY <1>0 DEF Window, Start
<1>3. Span(f, s, MaxTime) = l
  BY <1>0 DEF Window
<1>4. Window(f, d, n, l)
  BY <1>0, <1>1, <1>3 DEF Window
<1>5. Span(f, s, MaxTime) = Span(f, s, n) + Span(f, n + 1, MaxTime)
  BY <1>0, <1>2, SpanCut
<1>6. Span(f, n + 1, MaxTime) = 0
  <2>1. \A t \in (n + 1)..MaxTime : f[t] = 0
    BY <1>0 DEF Window, Times
  <2> QED
    BY <1>0, <2>1, SpanOfZeros
<1>7. Back(n) \in Nat /\ Back(n) <= s
  BY <1>0, <1>2 DEF Back
<1>8. Span(f, s, n) <= Span(f, Back(n), n)
  BY <1>0, <1>2, <1>7, SpanWithin
<1>9. Span(f, s, n) \in Nat /\ Span(f, Back(n), n) \in Nat
  BY <1>0, <1>2, <1>7, SpanIsNat
<1> QED
  BY <1>1, <1>3, <1>4, <1>5, <1>6, <1>8, <1>9 DEF ClientKept

LEMMA LimiterStarts ==
  ASSUME Limiter!LimiterInit
  PROVE  LInv
<1> USE LimiterAssumption DEF Times, Limiter!Times
<1>1. now = 0 /\ now \in Times /\ limit \in Nat \ {0}
  BY DEF Limiter!LimiterInit, Limiter!getPositiveInteger
<1>2. PICK none : none = [count |-> 0, resetAt |-> 0]
  OBVIOUS
<1>3. buckets = [c \in Clients |-> none] /\ none \in Buckets
  BY <1>2 DEF Limiter!LimiterInit, Limiter!NoBucket, Buckets
<1>4. PICK zero : zero = [t \in Times |-> 0]
  OBVIOUS
<1>5. passed = [c \in Clients |-> zero]
  BY <1>4 DEF Limiter!LimiterInit
<1>6. zero \in [Times -> Nat] /\ \A t \in Times : zero[t] = 0
  BY <1>4
<1>7. Spans(zero, limit)
  <2>1. ASSUME NEW t \in Times, t + windowMs - 1 \in Times
        PROVE  Span(zero, t, t + windowMs - 1) <= 2 * limit
    <3>1. t \in Int /\ t + windowMs - 1 \in Int
      OBVIOUS
    <3>2. \A x \in t..(t + windowMs - 1) : zero[x] = 0
      BY <1>6, <2>1
    <3>3. Span(zero, t, t + windowMs - 1) = 0
      BY <1>6, <3>1, <3>2, SpanOfZeros
    <3> QED
      BY <1>1, <3>3
  <2> QED
    BY <2>1 DEF Spans
<1>8. ClientKept(zero, none, now, limit)
  BY <1>2, <1>3, <1>6, <1>7 DEF ClientKept, Unseen
<1>9. refused = {}
  BY DEF Limiter!LimiterInit
<1> QED
  BY <1>1, <1>3, <1>5, <1>6, <1>8, <1>9 DEF LInv

\* The bucket a request is counted in, open at its time.
LEMMA RequestsBucket ==
  ASSUME LInv, NEW c \in Clients
  PROVE  /\ Limiter!Bucket(c) \in Buckets /\ Limiter!Bucket(c).resetAt > now
         /\ Window(passed[c], Limiter!Bucket(c), now, limit)
<1>0. now \in Times /\ now \in Nat /\ windowMs \in Nat /\ windowMs > 0 /\ limit \in Nat \ {0}
  BY LimiterAssumption DEF LInv, Times
<1>1. PICK b : b = buckets[c]
  OBVIOUS
<1>2. PICK f : f = passed[c]
  OBVIOUS
<1>3. b \in Buckets /\ f \in [Times -> Nat] /\ ClientKept(f, b, now, limit)
  BY <1>1, <1>2 DEF LInv
<1>4. CASE b.resetAt > now
  <2>1. Limiter!Bucket(c) = b
    BY <1>1, <1>4 DEF Limiter!Bucket, Limiter!Open
  <2>2. Window(f, b, now, limit)
    BY <1>0, <1>3, <1>4 DEF ClientKept, Unseen
  <2> QED
    BY <1>2, <1>3, <1>4, <2>1, <2>2
<1>5. CASE ~(b.resetAt > now)
  <2>1. Limiter!Bucket(c) = [count |-> 0, resetAt |-> now + windowMs]
    BY <1>1, <1>5 DEF Limiter!Bucket, Limiter!Open
  <2>2. Window(f, [count |-> 0, resetAt |-> now + windowMs], now, limit)
    BY <1>0, <1>3, <1>5, WindowOfRequest
  <2>3. [count |-> 0, resetAt |-> now + windowMs] \in Buckets
    BY <1>0 DEF Buckets
  <2>4. [count |-> 0, resetAt |-> now + windowMs].resetAt > now
    BY <1>0
  <2> QED
    BY <1>2, <2>1, <2>2, <2>3, <2>4
<1> QED
  BY <1>4, <1>5

LEMMA ReceiveKeepsAllowance ==
  ASSUME LInv, NEW c \in Clients, Limiter!Receive(c)
  PROVE  LInv'
<1>0. now \in Times /\ limit \in Nat \ {0} /\ now' = now /\ limit' = limit
  BY DEF LInv, Limiter!Receive
<1>1. PICK b : b = Limiter!Bucket(c)
  OBVIOUS
<1>2. PICK f : f = passed[c]
  OBVIOUS
<1>3. /\ b \in Buckets /\ b.resetAt > now /\ Window(f, b, now, limit)
      /\ f \in [Times -> Nat] /\ Spans(f, limit) /\ b.count \in Nat
  BY <1>1, <1>2, RequestsBucket DEF LInv, ClientKept, Buckets
<1>4. Counted(b) = [b EXCEPT !.count = b.count + 1] /\ Counted(b) \in Buckets
  BY <1>3 DEF Counted, Buckets
<1>5. buckets' = [buckets EXCEPT ![c] = Counted(b)]
  BY <1>1, <1>4 DEF Limiter!Receive
<1>6. /\ buckets' \in [Clients -> Buckets] /\ buckets'[c] = Counted(b)
      /\ \A d \in Clients \ {c} : buckets'[d] = buckets[d]
  BY <1>4, <1>5 DEF LInv
<1>7. CASE b.count + 1 <= limit
  <2>1. ~(b.count + 1 > limit)
    BY <1>0, <1>3, <1>7
  <2>2. passed' = [passed EXCEPT ![c][now] = @ + 1] /\ refused' = refused
    BY <1>1, <2>1 DEF Limiter!Receive
  <2>3. Passing(f, now) \in [Times -> Nat]
    BY <1>0, <1>3 DEF Passing
  <2>4. /\ passed' \in [Clients -> [Times -> Nat]] /\ passed'[c] = Passing(f, now)
        /\ \A d \in Clients \ {c} : passed'[d] = passed[d]
    BY <1>2, <2>2, <2>3 DEF LInv, Passing
  <2>5. ClientKept(Passing(f, now), Counted(b), now, limit)
    BY <1>0, <1>3, <1>7, LetThroughKeeps
  <2>6. ASSUME NEW d \in Clients
        PROVE  ClientKept(passed'[d], buckets'[d], now, limit)
    BY <1>6, <2>4, <2>5 DEF LInv
  <2>7. ASSUME NEW d \in Clients, NEW t \in Times, << d, t >> \in refused
        PROVE  Span(passed'[d], Back(t), t) >= limit
    <3>1. Span(passed[d], Back(t), t) >= limit
      BY <2>7 DEF LInv
    <3>2. CASE d # c
      BY <2>4, <3>1, <3>2
    <3>3. CASE d = c
      <4>1. t \in Nat /\ t <= MaxTime /\ Back(t) \in Nat
        BY LimiterAssumption DEF Times, Back
      <4>2. Span(f, Back(t), t) \in Nat
        BY <1>3, <4>1, SpanIsNat
      <4>3. \/ Span(Passing(f, now), Back(t), t) = Span(f, Back(t), t) + 1
            \/ Span(Passing(f, now), Back(t), t) = Span(f, Back(t), t)
        BY <1>0, <1>3, <4>1, SpanBumps
      <4> QED
        BY <1>0, <1>2, <2>4, <3>1, <3>3, <4>2, <4>3
    <3> QED
      BY <3>2, <3>3
  <2> QED
    BY <1>0, <1>6, <2>2, <2>4, <2>6, <2>7 DEF LInv
<1>8. CASE b.count + 1 > limit
  <2>1. refused' = refused \cup {<< c, now >>} /\ passed' = passed
    BY <1>1, <1>8 DEF Limiter!Receive
  <2>2. ClientKept(f, Counted(b), now, limit) /\ Span(f, Back(now), now) >= limit
    BY <1>0, <1>3, <1>8, RefusalKeeps
  <2>3. ASSUME NEW d \in Clients
        PROVE  ClientKept(passed'[d], buckets'[d], now, limit)
    BY <1>2, <1>6, <2>1, <2>2 DEF LInv
  <2>4. ASSUME NEW d \in Clients, NEW t \in Times, << d, t >> \in refused'
        PROVE  Span(passed'[d], Back(t), t) >= limit
    BY <1>2, <2>1, <2>2, <2>4 DEF LInv
  <2>5. passed' \in [Clients -> [Times -> Nat]]
    BY <2>1 DEF LInv
  <2> QED
    BY <1>0, <1>6, <2>3, <2>4, <2>5 DEF LInv
<1> QED
  BY <1>0, <1>3, <1>7, <1>8

LEMMA PassKeepsAllowance ==
  ASSUME LInv, Limiter!Pass
  PROVE  LInv'
<1>1. /\ now' = now + 1 /\ limit' = limit /\ buckets' = buckets /\ passed' = passed
      /\ refused' = refused /\ now' \in Times /\ now \in Nat
  BY LimiterAssumption DEF LInv, Limiter!Pass, Times
<1>2. ASSUME NEW c \in Clients
      PROVE  ClientKept(passed[c], buckets[c], now + 1, limit)
  <2>1. PICK b, f : b = buckets[c] /\ f = passed[c]
    OBVIOUS
  <2>2. ClientKept(f, b, now, limit) /\ b \in Buckets
    BY <2>1 DEF LInv
  <2>3. Window(f, b, now, limit) => Window(f, b, now + 1, limit)
    BY <1>1, <2>2, LimiterAssumption DEF Window, Times
  <2> QED
    BY <2>1, <2>2, <2>3 DEF ClientKept
<1> QED
  BY <1>1, <1>2 DEF LInv

LEMMA LimiterStep ==
  ASSUME LInv, [Limiter!LimiterNext]_limiterVars
  PROVE  LInv'
<1>1. CASE Limiter!LimiterNext
  BY <1>1, PassKeepsAllowance, ReceiveKeepsAllowance DEF Limiter!LimiterNext
<1>2. CASE UNCHANGED limiterVars
  BY <1>2 DEF limiterVars, LInv
<1> QED
  BY <1>1, <1>2

LEMMA LetThroughIsSum ==
  \A c, from, to : Limiter!LetThrough(c, from, to) = SumOver(passed[c], from..to)
BY DEF Limiter!LetThrough, Limiter!MapThenSumSet, Limiter!MapThenFoldSet,
       SumOver, MapThenSumSet, MapThenFoldSet

\* In no span as long as the window do more than two allowances pass, and a request is
\* refused only after a whole allowance (createRateLimitMiddleware), for any number of
\* clients, any allowance and any length of the window.
THEOREM AllowanceAlways == Spec => []AllowanceIsKept
<1> DEFINE I == scene = "limiter" => LInv
<1>1. Init => I
  BY LimiterStarts DEF Init
<1>2. I /\ [Next]_<< scene, adminVars, checkoutVars, centerVars, wishlistVars,
                    designerVars, limiterVars >> => I'
  BY LimiterStep DEF Next
<1>3. I => AllowanceIsKept
  <2> SUFFICES ASSUME LInv  PROVE Limiter!AllowanceHolds
    BY DEF AllowanceIsKept
  <2>1. \A t \in Times : Back(t) = IF t < windowMs THEN 0 ELSE t - windowMs + 1
    BY DEF Back
  <2> QED
    BY <2>1, LetThroughIsSum
    DEF Limiter!AllowanceHolds, LInv, ClientKept, Spans, Span, Times, Limiter!Times
<1> QED
  BY <1>1, <1>2, <1>3, PTL DEF Spec

-----------------------------------------------------------------------------
(* The panels of the administrators.                                        *)

Panels == {"drops", "production", "payouts", "secondChance"}
Situations == [page : Panels, patient : BOOLEAN, others : BOOLEAN, faults : BOOLEAN]

StatusesOf(p) ==
  CASE p = "drops" -> Admin!DropStatuses
    [] p = "production" -> DOMAIN Admin!ProductionMoves
    [] p = "payouts" -> {"pending", "ready_to_pay", "partially_paid", "paid"}
    [] OTHER -> Admin!ListingStatuses
OpsOf(p) ==
  CASE p = "drops" -> {"create", "update"} \cup Admin!DropStatuses
    [] p = "production" -> Admin!NEXT_STATUS_OPTIONS
    [] p = "payouts" -> {"create", "pay"}
    [] OTHER -> {"create"} \cup Admin!ListingButtons

RecordsOf(p) == [status : StatusesOf(p), version : Nat]
Books(p) == [Ids -> {Admin!Absent} \cup RecordsOf(p)]
Someone == Ids \cup {Nobody}
Tasks(p) ==
  [ stage : {"asked", "answered", "refused"}, task : {"load", "select", "save", "refresh"},
    id : Someone, op : OpsOf(p) \cup {"read"}, of : Someone, reply : Books(p) ]

(***************************************************************************)
(* What a request refers to is a record the API has, unless it is to make  *)
(* one, and the answer holds it.                                           *)
(***************************************************************************)
AskOk(r, p, records) ==
  /\ r \in Tasks(p)
  /\ Admin!Known(r.reply) \subseteq Admin!Known(records)
  /\ r.task = "select" => p \in {"drops", "production"}
  /\ r.task = "refresh" => p = "drops"
  /\ r.task \in {"select", "refresh"} => r.id \in Admin!Known(records)
  /\ r.task = "save" =>
       r.id \in Ids /\ r.op \in OpsOf(p) /\ (r.op # "create" => r.id \in Admin!Known(records))
  /\ r.task # "load" /\ r.stage = "answered" => r.id \in Admin!Known(r.reply)

ATypes ==
  /\ env \in Situations /\ stored \in Books(env.page) /\ list \in Books(env.page)
  /\ Admin!Known(list) \subseteq Admin!Known(stored)
  /\ selected = Nobody \/ selected \in Admin!Known(stored)
  /\ detail = Admin!NoDetail \/ detail \in [id : Ids, rec : RecordsOf(env.page)]
  /\ request \in [Slots -> {Admin!NoRequest} \cup Tasks(env.page)]
  /\ \A s \in Slots : request[s] = Admin!NoRequest \/ AskOk(request[s], env.page, stored)

\* What was sold is on offer no more.
ASold ==
  /\ sales \in [Ids -> {0, 1}]
  /\ \A i \in Ids : sales[i] = 1 => stored[i].status \notin Admin!SellableStatuses

Busy(s) == request[s] # Admin!NoRequest

\* Which variables an action leaves alone.
ApiSame == UNCHANGED << stored, sales >>
PanelSame == UNCHANGED << list, selected, detail >>

LEMMA AbsentIsNoRecord ==
  ASSUME NEW p \in Panels
  PROVE  Admin!Absent \notin RecordsOf(p) /\ "absent" \notin StatusesOf(p)
<1>1. "absent" \notin StatusesOf(p)
  BY DEF Panels, StatusesOf, Admin!DropStatuses, Admin!ProductionMoves, Admin!ListingStatuses
<1> QED
  BY <1>1 DEF Admin!Absent, RecordsOf

LEMMA KnownRecords ==
  ASSUME NEW p \in Panels, NEW b \in Books(p), NEW i \in Ids
  PROVE  i \in Admin!Known(b) <=> b[i] \in RecordsOf(p)
BY AbsentIsNoRecord DEF Admin!Known, Books

LEMMA NothingIsKnown ==
  ASSUME NEW p \in Panels
  PROVE  Admin!NoRecords \in Books(p) /\ Admin!Known(Admin!NoRecords) = {}
BY DEF Books, Admin!NoRecords, Admin!Known

\* What the API makes of a record is a record; a sale is of a listing on offer, and
\* only another offer puts it there again.
LEMMA OutcomeIsRecord ==
  ASSUME ATypes, NEW i \in Ids, NEW op \in OpsOf(env.page), NEW of,
         op # "create" => i \in Admin!Known(stored), NEW rec \in Admin!Outcomes(i, op, of)
  PROVE  /\ rec \in RecordsOf(env.page)
         /\ op = "sold" => /\ stored[i].status \in Admin!SellableStatuses
                           /\ rec.status \notin Admin!SellableStatuses
         /\ op \notin {"sold", "public_available"} =>
              rec.status \notin Admin!SellableStatuses \/ rec.status = stored[i].status
<1> DEFINE p == env.page
           was == stored[i]
<1>0. p \in Panels /\ was \in {Admin!Absent} \cup RecordsOf(p)
  BY DEF ATypes, Situations, Books
<1>1. op # "create" => was \in RecordsOf(p)
  BY <1>0, KnownRecords DEF ATypes
<1>2. CASE op = "create"
  <2>1. CASE p = "payouts" /\ was.status \in {"paid", "partially_paid"}
    <3>1. rec = was
      BY <1>2, <2>1 DEF Admin!Outcomes
    <3>2. was # Admin!Absent
      BY <2>1 DEF Admin!Absent
    <3> QED
      BY <1>0, <1>2, <3>1, <3>2
  <2>2. CASE p = "payouts" /\ was.status \notin {"paid", "partially_paid"}
    <3>1. rec \in [status : {"pending", "ready_to_pay"}, version : {0}]
      BY <1>2, <2>2 DEF Admin!Outcomes
    <3> QED
      BY <1>2, <2>2, <3>1 DEF RecordsOf, StatusesOf, Admin!SellableStatuses
  <2>3. CASE p # "payouts"
    <3>1. rec = [status |-> "draft", version |-> 0]
      BY <1>2, <2>3 DEF Admin!Outcomes
    <3>2. p # "production"
      BY <1>2 DEF OpsOf, Admin!NEXT_STATUS_OPTIONS
    <3> QED
      BY <1>0, <1>2, <2>3, <3>1, <3>2
      DEF RecordsOf, StatusesOf, Panels, Admin!SellableStatuses, Admin!DropStatuses,
          Admin!ListingStatuses
  <2> QED
    BY <2>1, <2>2, <2>3
<1>3. CASE op = "update"
  <2>1. rec = [was EXCEPT !.version = @ + 1]
    BY <1>3 DEF Admin!Outcomes, Admin!DropUpdated
  <2>2. rec \in RecordsOf(p) /\ rec.status = was.status
    BY <1>1, <1>3, <2>1 DEF RecordsOf
  <2> QED
    BY <1>3, <2>2
<1>4. CASE op \notin {"create", "update"}
  <2>1. PICK t \in Admin!Moves(was.status, op) : rec = [was EXCEPT !.status = t]
    BY <1>4 DEF Admin!Outcomes
  <2>2. rec.status = t /\ (t \in StatusesOf(p) => rec \in RecordsOf(p)) /\ was.status \in StatusesOf(p)
    BY <1>1, <1>4, <2>1 DEF RecordsOf
  <2>3. CASE p = "drops"
    <3>1. t = op /\ op \in Admin!DropStatuses
      BY <1>4, <2>1, <2>3 DEF Admin!Moves, OpsOf
    <3> QED
      BY <2>2, <2>3, <3>1 DEF StatusesOf, Admin!DropStatuses, Admin!SellableStatuses
  <2>4. CASE p = "production"
    <3>1. t = op /\ op \in Admin!NEXT_STATUS_OPTIONS
      BY <2>1, <2>4 DEF Admin!Moves, OpsOf
    <3> QED
      BY <2>2, <2>4, <3>1
      DEF StatusesOf, Admin!ProductionMoves, Admin!NEXT_STATUS_OPTIONS, Admin!SellableStatuses
  <2>5. CASE p = "payouts"
    <3>1. t \in {"partially_paid", "paid"} /\ op = "pay"
      BY <1>4, <2>1, <2>5 DEF Admin!Moves, OpsOf
    <3> QED
      BY <2>2, <2>5, <3>1 DEF StatusesOf, Admin!SellableStatuses
  <2>6. CASE p = "secondChance"
    <3>1. /\ t = op /\ t \in Admin!Relistings \cup {"sold"}
          /\ t = "sold" => was.status \in Admin!SellableStatuses
      BY <2>1, <2>6 DEF Admin!Moves, Admin!TransitionListing
    <3> QED
      BY <2>2, <2>6, <3>1
      DEF StatusesOf, Admin!ListingStatuses, Admin!Relistings, Admin!SellableStatuses
  <2> QED
    BY <1>0, <2>3, <2>4, <2>5, <2>6 DEF Panels
<1> QED
  BY <1>2, <1>3, <1>4

LEMMA Writing ==
  ASSUME ATypes, ASold, NEW i \in Ids, NEW op \in OpsOf(env.page), NEW of,
         op # "create" => i \in Admin!Known(stored),
         NEW rec \in Admin!Outcomes(i, op, of), Admin!Write(i, op, rec), env' = env
  PROVE  /\ stored' \in Books(env.page) /\ Admin!Known(stored) \subseteq Admin!Known(stored')
         /\ i \in Admin!Known(stored') /\ \A j \in Ids \ {i} : stored'[j] = stored[j]
         /\ stored'[i] = rec /\ ASold'
<1>0. env.page \in Panels /\ stored \in Books(env.page)
  BY DEF ATypes, Situations
<1>1. /\ rec \in RecordsOf(env.page)
      /\ op = "sold" => /\ stored[i].status \in Admin!SellableStatuses
                        /\ rec.status \notin Admin!SellableStatuses
      /\ op \notin {"sold", "public_available"} =>
           rec.status \notin Admin!SellableStatuses \/ rec.status = stored[i].status
  BY OutcomeIsRecord
<1>2. /\ stored' \in Books(env.page) /\ stored'[i] = rec
      /\ \A j \in Ids \ {i} : stored'[j] = stored[j]
  BY <1>0, <1>1 DEF Admin!Write, Books
<1>3. i \in Admin!Known(stored')
  BY <1>0, <1>1, <1>2, KnownRecords
<1>4. Admin!Known(stored) \subseteq Admin!Known(stored')
  BY <1>2, <1>3 DEF Admin!Known
<1>5. ASold'
  <2>1. /\ DOMAIN sales' = Ids /\ \A j \in Ids \ {i} : sales'[j] = sales[j]
        /\ sales'[i] = CASE op = "sold" -> sales[i] + 1
                         [] op = "public_available" -> 0
                         [] OTHER -> sales[i]
    BY DEF Admin!Write, ASold
  <2>2. op = "sold" => sales[i] = 0
    BY <1>1 DEF ASold
  <2>3. sales'[i] \in {0, 1} /\ (sales'[i] = 1 => rec.status \notin Admin!SellableStatuses)
    <3>1. CASE op = "sold"
      BY <1>1, <2>1, <2>2, <3>1
    <3>2. CASE op = "public_available"
      BY <2>1, <3>2
    <3>3. CASE op \notin {"sold", "public_available"}
      BY <1>1, <2>1, <3>3 DEF ASold
    <3> QED
      BY <3>1, <3>2, <3>3
  <2>4. sales' = [j \in Ids |-> sales'[j]]
    BY DEF Admin!Write, ASold
  <2>5. sales' \in [Ids -> {0, 1}]
    BY <2>1, <2>3, <2>4 DEF ASold
  <2> QED
    BY <1>2, <2>1, <2>3, <2>5 DEF ASold
<1> QED
  BY <1>2, <1>3, <1>4, <1>5

\* A request that the user sends: from a form or from a button about the record shown.
SaveAsked(i, op) ==
  /\ i \in Ids /\ op \in OpsOf(env.page)
  /\ op # "create" => i = selected /\ i \in Admin!Known(stored)
  /\ Admin!AtEase /\ ~Admin!isSaving
  /\ env.page = "drops" /\ op \notin {"create", "update"} =>
       detail.id # Nobody /\ op \in Admin!DropTransitions[detail.rec.status]
  /\ Admin!Ask("save", i, op)
  /\ UNCHANGED env /\ ApiSame /\ PanelSame

UserSaves ==
  \/ Admin!SubmitDrop \/ Admin!runDropAction \/ Admin!handleTransition
  \/ Admin!handleEnsure \/ Admin!handleMarkPaid \/ Admin!handleCreate \/ Admin!updateSelected

\* The buttons of a drop are the moves of its lifecycle.
LEMMA ButtonsAreMoves ==
  ASSUME NEW s \in Admin!DropStatuses
  PROVE  /\ Admin!NEXT_STATUSES[s] = Admin!DropTransitions[s]
         /\ Admin!DropTransitions[s] \subseteq Admin!DropStatuses
<1>1. Admin!NEXT_STATUSES = Admin!DropTransitions
  BY DEF Admin!NEXT_STATUSES, Admin!DropTransitions
<1>2. Admin!DropTransitions[s] \subseteq Admin!DropStatuses
  BY DEF Admin!DropTransitions, Admin!DropStatuses
<1> QED
  BY <1>1, <1>2

LEMMA UserSavesAsk ==
  ASSUME ATypes, UserSaves
  PROVE  \E i, op : SaveAsked(i, op)
<1> USE DEF Admin!Sending, Admin!Send, ApiSame, PanelSame
<1>1. CASE Admin!SubmitDrop
  <2>1. CASE selected # Nobody /\ Admin!Send("drops", selected, "update")
    <3>1. SaveAsked(selected, "update")
      BY <1>1, <2>1 DEF Admin!SubmitDrop, SaveAsked, OpsOf, ATypes, Admin!Known
    <3> QED
      BY <3>1
  <2>2. CASE selected = Nobody /\ \E i \in Ids \ Admin!Known(stored) : Admin!Send("drops", i, "create")
    <3>1. PICK i \in Ids : Admin!Send("drops", i, "create")
      BY <2>2
    <3>2. SaveAsked(i, "create")
      BY <1>1, <3>1 DEF Admin!SubmitDrop, SaveAsked, OpsOf
    <3> QED
      BY <3>2
  <2> QED
    BY <1>1, <2>1, <2>2 DEF Admin!SubmitDrop
<1>2. CASE Admin!runDropAction
  <2>1. PICK op \in Admin!DropButtons(detail.rec) : Admin!Send("drops", selected, op)
    BY <1>2 DEF Admin!runDropAction, Admin!Act
  <2>2. /\ env.page = "drops" /\ detail.id # Nobody /\ selected # Nobody
        /\ detail.rec \in RecordsOf("drops")
    BY <1>2 DEF Admin!runDropAction, Admin!Act, ATypes, Admin!NoDetail
  <2>3. detail.rec.status \in Admin!DropStatuses
    BY <2>2 DEF RecordsOf, StatusesOf
  <2>4. op \in Admin!DropTransitions[detail.rec.status] /\ op \in Admin!DropStatuses
    BY <2>1, <2>3, ButtonsAreMoves DEF Admin!DropButtons
  <2>5. SaveAsked(selected, op)
    BY <1>2, <2>1, <2>2, <2>4
    DEF Admin!runDropAction, Admin!Act, SaveAsked, OpsOf, ATypes, Admin!Known
  <2> QED
    BY <2>5
<1>3. CASE Admin!handleTransition
  <2>1. PICK op \in Admin!NEXT_STATUS_OPTIONS : Admin!Send("production", selected, op)
    BY <1>3 DEF Admin!handleTransition, Admin!Act
  <2>2. SaveAsked(selected, op)
    BY <1>3, <2>1 DEF Admin!handleTransition, Admin!Act, SaveAsked, OpsOf, ATypes, Admin!Known
  <2> QED
    BY <2>2
<1>4. CASE Admin!handleEnsure
  <2>1. PICK i \in Ids : Admin!Send("payouts", i, "create")
    BY <1>4 DEF Admin!handleEnsure
  <2>2. SaveAsked(i, "create")
    BY <1>4, <2>1 DEF Admin!handleEnsure, SaveAsked, OpsOf
  <2> QED
    BY <2>2
<1>5. CASE Admin!handleMarkPaid
  <2>1. Admin!Send("payouts", selected, "pay")
    BY <1>5 DEF Admin!handleMarkPaid, Admin!Act
  <2>2. SaveAsked(selected, "pay")
    BY <1>5, <2>1 DEF Admin!handleMarkPaid, Admin!Act, SaveAsked, OpsOf, ATypes, Admin!Known
  <2> QED
    BY <2>2
<1>6. CASE Admin!handleCreate
  <2>1. PICK i \in Ids : Admin!Send("secondChance", i, "create")
    BY <1>6 DEF Admin!handleCreate
  <2>2. SaveAsked(i, "create")
    BY <1>6, <2>1 DEF Admin!handleCreate, SaveAsked, OpsOf
  <2> QED
    BY <2>2
<1>7. CASE Admin!updateSelected
  <2>1. PICK op \in Admin!ListingButtons : Admin!Send("secondChance", selected, op)
    BY <1>7 DEF Admin!updateSelected, Admin!Act
  <2>2. SaveAsked(selected, op)
    BY <1>7, <2>1 DEF Admin!updateSelected, Admin!Act, SaveAsked, OpsOf, ATypes, Admin!Known
  <2> QED
    BY <2>2
<1> QED
  BY <1>1, <1>2, <1>3, <1>4, <1>5, <1>6, <1>7 DEF UserSaves

\* A request takes a free slot.
LEMMA Asking ==
  ASSUME NEW task, NEW i, NEW op, Admin!Ask(task, i, op)
  PROVE  \E s \in Slots : /\ request[s] = Admin!NoRequest
                          /\ request' = [request EXCEPT ![s] = Admin!Asked(task, i, op)]
<1> DEFINE s == CHOOSE t \in Admin!Free : TRUE
<1>1. s \in Slots /\ request[s] = Admin!NoRequest
  BY DEF Admin!Ask, Admin!Free
<1>2. request' = [request EXCEPT ![s] = Admin!Asked(task, i, op)]
  BY DEF Admin!Ask
<1> HIDE DEF s
<1> QED
  BY <1>1, <1>2

LEMMA AskedOk ==
  ASSUME ATypes, NEW task \in {"select", "save"}, NEW i \in Ids, NEW op \in OpsOf(env.page) \cup {"read"},
         task = "select" => /\ env.page \in {"drops", "production"} /\ i \in Admin!Known(stored)
                            /\ op = "read",
         task = "save" => op \in OpsOf(env.page) /\ (op # "create" => i \in Admin!Known(stored))
  PROVE  /\ Admin!Asked(task, i, op) \in Tasks(env.page)
         /\ AskOk(Admin!Asked(task, i, op), env.page, stored)
<1>1. Admin!NoRecords \in Books(env.page) /\ Admin!Known(Admin!NoRecords) = {}
  BY NothingIsKnown DEF ATypes, Situations
<1>2. Admin!Shown \in Someone
  BY DEF Admin!Shown, ATypes, Someone, Admin!NoDetail, Admin!Known
<1>3. Admin!Asked(task, i, op) \in Tasks(env.page)
  BY <1>1, <1>2 DEF Admin!Asked, Tasks, Someone
<1> QED
  BY <1>1, <1>3 DEF AskOk, Admin!Asked

\* One request changes, and the records only grow.
LEMMA TypesKept ==
  ASSUME ATypes, env' = env, NEW s \in Slots, NEW r,
         stored' \in Books(env.page), Admin!Known(stored) \subseteq Admin!Known(stored'),
         list' \in Books(env.page), Admin!Known(list') \subseteq Admin!Known(stored'),
         selected' = Nobody \/ selected' \in Admin!Known(stored'),
         detail' = Admin!NoDetail \/ detail' \in [id : Ids, rec : RecordsOf(env.page)],
         request' = request \/ request' = [request EXCEPT ![s] = r],
         r = Admin!NoRequest \/ AskOk(r, env.page, stored')
  PROVE  ATypes'
<1>1. \A t \in Slots : request[t] = Admin!NoRequest \/ AskOk(request[t], env.page, stored')
  BY DEF ATypes, AskOk
<1>2. r \in {Admin!NoRequest} \cup Tasks(env.page)
  BY DEF AskOk
<1>3. request' \in [Slots -> {Admin!NoRequest} \cup Tasks(env.page)]
  BY <1>2 DEF ATypes
<1>4. \A t \in Slots : request'[t] = Admin!NoRequest \/ AskOk(request'[t], env.page, stored')
  BY <1>1 DEF ATypes
<1> QED
  BY <1>3, <1>4 DEF ATypes

LEMMA ServeKeepsTypes ==
  ASSUME ATypes, ASold, NEW s \in Slots, Admin!Serve(s)
  PROVE  ATypes' /\ ASold'
<1> DEFINE r == request[s]
<1>1. /\ r \in Tasks(env.page) /\ AskOk(r, env.page, stored) /\ r.stage = "asked"
      /\ env' = env /\ list' = list /\ selected' = selected /\ detail' = detail
  BY DEF Admin!Serve, ATypes, Admin!NoRequest
<1>2. stored \in Books(env.page) /\ env.page \in Panels
  BY DEF ATypes, Situations
<1>3. CASE Admin!Under(s, {"load", "select", "refresh"}) /\ ApiSame
           /\ request' = [request EXCEPT ![s].stage = "answered", ![s].reply = stored]
  <2> DEFINE q == [r EXCEPT !.stage = "answered", !.reply = stored]
  <2>1. request' = [request EXCEPT ![s] = q]
    BY <1>3 DEF ATypes
  <2>2. q \in Tasks(env.page) /\ q.task = r.task /\ q.id = r.id /\ q.reply = stored /\ q.op = r.op
    BY <1>1, <1>2 DEF Tasks
  <2>3. AskOk(q, env.page, stored)
    BY <1>1, <1>3, <2>2 DEF AskOk, Admin!Under
  <2>4. stored' = stored /\ sales' = sales
    BY <1>3 DEF ApiSame
  <2> HIDE DEF q
  <2>5. ATypes'
    BY <1>1, <1>2, <2>1, <2>3, <2>4, TypesKept DEF ATypes
  <2> QED
    BY <2>4, <2>5 DEF ASold
<1>4. CASE Admin!Under(s, {"save"}) /\ \E rec \in Admin!Outcomes(r.id, r.op, r.of) :
             /\ Admin!Write(r.id, r.op, rec)
             /\ request' = [request EXCEPT ![s].stage = "answered", ![s].reply = stored']
  <2>1. PICK rec \in Admin!Outcomes(r.id, r.op, r.of) : Admin!Write(r.id, r.op, rec)
    BY <1>4
  <2>2. r.task = "save" /\ r.id \in Ids /\ r.op \in OpsOf(env.page)
        /\ (r.op # "create" => r.id \in Admin!Known(stored))
    BY <1>1, <1>4 DEF AskOk, Admin!Under
  <2>3. /\ stored' \in Books(env.page) /\ Admin!Known(stored) \subseteq Admin!Known(stored')
        /\ r.id \in Admin!Known(stored') /\ ASold'
    BY <1>1, <2>1, <2>2, Writing
  <2> DEFINE q == [r EXCEPT !.stage = "answered", !.reply = stored']
  <2>4. request' = [request EXCEPT ![s] = q]
    BY <1>4 DEF ATypes
  <2>5. q \in Tasks(env.page) /\ q.task = r.task /\ q.id = r.id /\ q.reply = stored' /\ q.op = r.op
    BY <1>1, <2>3 DEF Tasks
  <2>6. AskOk(q, env.page, stored')
    BY <2>2, <2>3, <2>5 DEF AskOk
  <2> HIDE DEF q
  <2>7. list' \in Books(env.page) /\ Admin!Known(list') \subseteq Admin!Known(stored')
        /\ (selected' = Nobody \/ selected' \in Admin!Known(stored'))
        /\ (detail' = Admin!NoDetail \/ detail' \in [id : Ids, rec : RecordsOf(env.page)])
    BY <1>1, <2>3 DEF ATypes
  <2>8. ATypes'
    BY <1>1, <2>3, <2>4, <2>6, <2>7, TypesKept
  <2> QED
    BY <2>3, <2>8
<1>5. CASE Admin!Under(s, {"save"}) /\ ApiSame
           /\ request' = [request EXCEPT ![s].stage = "refused"]
  <2> DEFINE q == [r EXCEPT !.stage = "refused"]
  <2>1. request' = [request EXCEPT ![s] = q]
    BY <1>5 DEF ATypes
  <2>2. q \in Tasks(env.page) /\ q.task = r.task /\ q.id = r.id /\ q.reply = r.reply /\ q.op = r.op
        /\ q.stage = "refused"
    BY <1>1 DEF Tasks
  <2>3. AskOk(q, env.page, stored)
    BY <1>1, <2>2 DEF AskOk
  <2>4. stored' = stored /\ sales' = sales
    BY <1>5 DEF ApiSame
  <2> HIDE DEF q
  <2>5. ATypes'
    BY <1>1, <1>2, <2>1, <2>3, <2>4, TypesKept DEF ATypes
  <2> QED
    BY <2>4, <2>5 DEF ASold
<1> QED
  BY <1>3, <1>4, <1>5 DEF Admin!Serve, ApiSame

LEMMA LoseKeepsTypes ==
  ASSUME ATypes, NEW s \in Slots, Admin!Lose(s)
  PROVE  ATypes'
<1> DEFINE r == request[s]
           q == [r EXCEPT !.stage = "refused"]
<1>1. /\ r \in Tasks(env.page) /\ AskOk(r, env.page, stored) /\ env' = env /\ stored' = stored
      /\ list' = list /\ selected' = selected /\ detail' = detail
  BY DEF Admin!Lose, ATypes, Admin!NoRequest
<1>2. request' = [request EXCEPT ![s] = q]
  BY DEF Admin!Lose, ATypes
<1>3. q \in Tasks(env.page) /\ q.task = r.task /\ q.id = r.id /\ q.reply = r.reply /\ q.op = r.op
      /\ q.stage = "refused"
  BY <1>1 DEF Tasks
<1>4. AskOk(q, env.page, stored)
  BY <1>1, <1>3 DEF AskOk
<1> HIDE DEF q
<1> QED
  BY <1>1, <1>2, <1>4, TypesKept DEF ATypes

\* What an answer brings: a record the API has.
LEMMA CopyIsRecord ==
  ASSUME NEW p \in Panels, NEW b \in Books(p), NEW i \in Admin!Known(b)
  PROVE  Admin!Copy(i, b) \in [id : Ids, rec : RecordsOf(p)]
<1>1. i \in Ids /\ b[i] \in RecordsOf(p)
  BY KnownRecords DEF Admin!Known
<1> QED
  BY <1>1 DEF Admin!Copy

LEMMA UserKeepsTypes ==
  ASSUME ATypes, Admin!User
  PROVE  ATypes'
<1>0. env.page \in Panels /\ stored \in Books(env.page) /\ list \in Books(env.page)
  BY DEF ATypes, Situations
<1>1. ASSUME NEW p \in {"drops", "production"}, Admin!SelectAndFetch(p)
      PROVE  ATypes'
  <2>1. PICK i \in Admin!Known(list) : selected' = i /\ Admin!ShowCached(i) /\ Admin!Ask("select", i, "read")
    BY <1>1 DEF Admin!SelectAndFetch
  <2>2. i \in Ids /\ i \in Admin!Known(stored) /\ env.page = p /\ env' = env /\ stored' = stored /\ list' = list
    BY <1>1, <2>1 DEF Admin!SelectAndFetch, ATypes, Admin!Known
  <2>3. PICK s \in Slots : request' = [request EXCEPT ![s] = Admin!Asked("select", i, "read")]
    BY <2>1, Asking
  <2>4. AskOk(Admin!Asked("select", i, "read"), env.page, stored)
    BY <1>1, <2>2, AskedOk
  <2>5. detail' \in [id : Ids, rec : RecordsOf(env.page)]
    BY <1>0, <2>1, CopyIsRecord DEF Admin!ShowCached
  <2> QED
    BY <1>0, <2>1, <2>2, <2>3, <2>4, <2>5, TypesKept DEF ATypes
<1>2. ASSUME NEW p, Admin!SelectListed(p)
      PROVE  ATypes'
  BY <1>2 DEF Admin!SelectListed, ATypes
<1>3. CASE Admin!handleNew
  BY <1>3 DEF Admin!handleNew, ATypes
<1>4. CASE UserSaves
  <2>1. PICK i, op : SaveAsked(i, op)
    BY <1>4, UserSavesAsk
  <2>2. PICK s \in Slots : request' = [request EXCEPT ![s] = Admin!Asked("save", i, op)]
    BY <2>1, Asking DEF SaveAsked
  <2>3. AskOk(Admin!Asked("save", i, op), env.page, stored)
    BY <2>1, AskedOk DEF SaveAsked
  <2>4. /\ env' = env /\ stored' = stored /\ list' = list /\ selected' = selected
        /\ detail' = detail
    BY <2>1 DEF SaveAsked, ApiSame, PanelSame
  <2> QED
    BY <1>0, <2>2, <2>3, <2>4, TypesKept DEF ATypes
<1> QED
  BY <1>1, <1>2, <1>3, <1>4
  DEF Admin!User, UserSaves, Admin!SelectDrop, Admin!SelectPackage, Admin!SelectPayout,
      Admin!SelectListing

Receives(s) ==
  \/ \E p \in Panels : Admin!ReceiveList(s, p)
  \/ Admin!ReceiveSelected(s) \/ Admin!ReceiveDropSaved(s) \/ Admin!ReceiveRefresh(s)
  \/ Admin!ReceivePackage(s) \/ Admin!upsertPayout(s) \/ Admin!ReceiveListing(s)
  \/ Admin!ReceiveError(s)

LEMMA ReceiveIs ==
  ASSUME NEW s, Admin!Receive(s)
  PROVE  Receives(s)
BY DEF Admin!Receive, Receives, Panels, Admin!ReceiveDrops, Admin!ReceivePackages,
       Admin!ReceivePayouts, Admin!ReceiveListings

LEMMA AnswerOk ==
  ASSUME ATypes, NEW s \in Slots, NEW task, Admin!Answered(s, task)
  PROVE  /\ request[s] \in Tasks(env.page) /\ AskOk(request[s], env.page, stored)
         /\ request[s].task = task /\ request[s].stage = "answered"
         /\ request[s].reply \in Books(env.page)
         /\ Admin!Known(request[s].reply) \subseteq Admin!Known(stored)
         /\ task # "load" => request[s].id \in Admin!Known(request[s].reply)
BY DEF Admin!Answered, ATypes, AskOk, Tasks

Upserted(b, i, c) == [b EXCEPT ![i] = c[i]]

LEMMA UpsertKnown ==
  ASSUME NEW p \in Panels, NEW b \in Books(p), NEW c \in Books(p), NEW i \in Admin!Known(c)
  PROVE  /\ Upserted(b, i, c) \in Books(p)
         /\ Admin!Known(Upserted(b, i, c)) \subseteq Admin!Known(b) \cup {i}
<1>1. i \in Ids /\ c[i] \in {Admin!Absent} \cup RecordsOf(p)
  BY DEF Admin!Known, Books
<1> QED
  BY <1>1 DEF Upserted, Books, Admin!Known

LEMMA ReceiveKeepsTypes ==
  ASSUME ATypes, NEW s \in Slots, Admin!Receive(s)
  PROVE  ATypes'
<1> DEFINE r == request[s]
<1>0. env.page \in Panels /\ stored \in Books(env.page) /\ list \in Books(env.page)
  BY DEF ATypes, Situations
<1>1. ASSUME NEW p \in Panels, Admin!ReceiveList(s, p)
      PROVE  ATypes'
  <2>1. Admin!Answered(s, "load")
    BY <1>1 DEF Admin!ReceiveList
  <2>2. r.reply \in Books(env.page) /\ Admin!Known(r.reply) \subseteq Admin!Known(stored)
    BY <2>1, AnswerOk
  <2>3. /\ env' = env /\ stored' = stored /\ list' = r.reply
        /\ request' = [request EXCEPT ![s] = Admin!NoRequest]
    BY <1>1 DEF Admin!ReceiveList, Admin!Done
  <2>4. \/ UNCHANGED << selected, detail >>
        \/ \E i \in Admin!Known(r.reply) :
             selected' = i /\ (detail' = Admin!Copy(i, r.reply) \/ detail' = detail)
    BY <1>1 DEF Admin!ReceiveList
  <2>5. /\ selected' = Nobody \/ selected' \in Admin!Known(stored)
        /\ detail' = Admin!NoDetail \/ detail' \in [id : Ids, rec : RecordsOf(env.page)]
    BY <1>0, <2>2, <2>4, CopyIsRecord DEF ATypes
  <2> QED
    BY <1>0, <2>2, <2>3, <2>5, TypesKept
<1>2. CASE Admin!ReceiveSelected(s)
  <2>1. r.reply \in Books(env.page) /\ r.id \in Admin!Known(r.reply)
    BY <1>2, AnswerOk DEF Admin!ReceiveSelected
  <2>2. detail' \in [id : Ids, rec : RecordsOf(env.page)]
    BY <1>0, <1>2, <2>1, CopyIsRecord DEF Admin!ReceiveSelected
  <2>3. /\ env' = env /\ stored' = stored /\ list' = list /\ selected' = selected
        /\ request' = [request EXCEPT ![s] = Admin!NoRequest]
    BY <1>2 DEF Admin!ReceiveSelected, Admin!Done
  <2> QED
    BY <1>0, <2>2, <2>3, TypesKept DEF ATypes
<1>3. CASE Admin!ReceiveDropSaved(s)
  <2>1. /\ r \in Tasks(env.page) /\ AskOk(r, env.page, stored) /\ r.task = "save"
        /\ r.id \in Admin!Known(r.reply) /\ Admin!Known(r.reply) \subseteq Admin!Known(stored)
    BY <1>3, AnswerOk DEF Admin!ReceiveDropSaved
  <2>2. env.page = "drops" /\ env' = env /\ stored' = stored /\ PanelSame
    BY <1>3 DEF Admin!ReceiveDropSaved, PanelSame
  <2> DEFINE q == [r EXCEPT !.stage = "asked", !.task = "refresh", !.reply = Admin!NoRecords]
  <2>3. request' = [request EXCEPT ![s] = q]
    BY <1>3 DEF Admin!ReceiveDropSaved, ATypes
  <2>4. Admin!NoRecords \in Books(env.page) /\ Admin!Known(Admin!NoRecords) = {}
    BY <1>0, NothingIsKnown
  <2>5. q \in Tasks(env.page) /\ q.task = "refresh" /\ q.stage = "asked" /\ q.id = r.id
        /\ q.reply = Admin!NoRecords
    BY <2>1, <2>4 DEF Tasks
  <2>6. AskOk(q, env.page, stored)
    BY <2>1, <2>2, <2>4, <2>5 DEF AskOk
  <2> HIDE DEF q
  <2> QED
    BY <1>0, <2>2, <2>3, <2>6, TypesKept DEF ATypes, PanelSame
<1>4. CASE Admin!ReceiveRefresh(s)
  <2>1. /\ r.reply \in Books(env.page) /\ r.id \in Admin!Known(r.reply)
        /\ Admin!Known(r.reply) \subseteq Admin!Known(stored)
    BY <1>4, AnswerOk DEF Admin!ReceiveRefresh
  <2>2. /\ list' = r.reply /\ selected' = r.id /\ detail' = Admin!Copy(r.id, r.reply)
        /\ env' = env /\ stored' = stored /\ request' = [request EXCEPT ![s] = Admin!NoRequest]
    BY <1>4 DEF Admin!ReceiveRefresh, Admin!refreshDrops, Admin!Done
  <2>3. detail' \in [id : Ids, rec : RecordsOf(env.page)]
    BY <1>0, <2>1, <2>2, CopyIsRecord
  <2> QED
    BY <1>0, <2>1, <2>2, <2>3, TypesKept
<1>5. ASSUME NEW p, Admin!ReceiveSaved(s, p),
             selected' = selected \/ selected' = r.id,
             detail' = detail \/ detail' = Admin!Copy(r.id, r.reply)
      PROVE  ATypes'
  <2>1. /\ r.reply \in Books(env.page) /\ r.id \in Admin!Known(r.reply)
        /\ Admin!Known(r.reply) \subseteq Admin!Known(stored)
    BY <1>5, AnswerOk DEF Admin!ReceiveSaved
  <2>2. /\ list' = [list EXCEPT ![r.id] = r.reply[r.id]] /\ env' = env /\ stored' = stored
        /\ request' = [request EXCEPT ![s] = Admin!NoRequest]
    BY <1>5 DEF Admin!ReceiveSaved, Admin!upsert, Admin!Done
  <2>3. list' \in Books(env.page) /\ Admin!Known(list') \subseteq Admin!Known(stored)
    <3>1. PICK c, i : c = r.reply /\ i = r.id
      OBVIOUS
    <3>2. list' = Upserted(list, i, c)
      BY <2>2, <3>1 DEF Upserted
    <3>3. Admin!Known(list') \subseteq Admin!Known(list) \cup {i} /\ list' \in Books(env.page)
      BY <1>0, <2>1, <3>1, <3>2, UpsertKnown
    <3> QED
      BY <2>1, <3>1, <3>3 DEF ATypes
  <2>4. Admin!Copy(r.id, r.reply) \in [id : Ids, rec : RecordsOf(env.page)]
    BY <1>0, <2>1, CopyIsRecord
  <2>5. /\ selected' = Nobody \/ selected' \in Admin!Known(stored)
        /\ detail' = Admin!NoDetail \/ detail' \in [id : Ids, rec : RecordsOf(env.page)]
    BY <1>5, <2>1, <2>4 DEF ATypes
  <2> QED
    BY <1>0, <2>2, <2>3, <2>5, TypesKept
<1>6. CASE Admin!ReceiveError(s)
  <2>1. /\ env' = env /\ stored' = stored /\ list' = list /\ selected' = selected
        /\ detail' = detail /\ request' = [request EXCEPT ![s] = Admin!NoRequest]
    BY <1>6 DEF Admin!ReceiveError, Admin!Done
  <2> QED
    BY <1>0, <2>1, TypesKept DEF ATypes
<1>7. CASE Admin!ReceivePackage(s)
  BY <1>5, <1>7 DEF Admin!ReceivePackage
<1>8. CASE Admin!upsertPayout(s)
  BY <1>5, <1>8 DEF Admin!upsertPayout, Admin!SelectCreated
<1>9. CASE Admin!ReceiveListing(s)
  BY <1>5, <1>9 DEF Admin!ReceiveListing, Admin!SelectCreated
<1> QED
  BY <1>1, <1>2, <1>3, <1>4, <1>6, <1>7, <1>8, <1>9, ReceiveIs DEF Receives

LEMMA OtherKeepsTypes ==
  ASSUME ATypes, ASold, Admin!OtherAdministrator
  PROVE  ATypes' /\ ASold'
<1>1. /\ env' = env /\ list' = list /\ selected' = selected /\ detail' = detail
      /\ request' = request /\ env.page \in Panels /\ stored \in Books(env.page)
  BY DEF Admin!OtherAdministrator, ATypes, Situations
<1> DEFINE Offered(i) ==
      CASE env.page = "drops" -> Admin!DropButtons(stored[i])
        [] env.page = "production" -> Admin!NEXT_STATUS_OPTIONS
        [] env.page = "payouts" -> {"pay"}
        [] OTHER -> Admin!ListingButtons
<1>2. PICK i \in Admin!Known(stored) :
        \E op \in Offered(i) : \E rec \in Admin!Outcomes(i, op, i) : Admin!Write(i, op, rec)
  BY DEF Admin!OtherAdministrator
<1>3. PICK op \in Offered(i) :
        \E rec \in Admin!Outcomes(i, op, i) : Admin!Write(i, op, rec)
  BY <1>2
<1>4. PICK rec \in Admin!Outcomes(i, op, i) : Admin!Write(i, op, rec)
  BY <1>3
<1>5. i \in Ids /\ stored[i] \in RecordsOf(env.page)
  BY <1>1, KnownRecords DEF Admin!Known
<1>6. op \in OpsOf(env.page)
  <2>1. CASE env.page = "drops"
    <3>1. stored[i].status \in Admin!DropStatuses
      BY <1>5, <2>1 DEF RecordsOf, StatusesOf
    <3>2. op \in Admin!DropStatuses
      BY <1>3, <2>1, <3>1, ButtonsAreMoves DEF Admin!DropButtons
    <3> QED
      BY <2>1, <3>2 DEF OpsOf
  <2>2. CASE env.page # "drops"
    BY <1>1, <1>3, <2>2 DEF OpsOf, Panels
  <2> QED
    BY <2>1, <2>2
<1>7. /\ stored' \in Books(env.page) /\ Admin!Known(stored) \subseteq Admin!Known(stored')
      /\ ASold'
  BY <1>1, <1>4, <1>5, <1>6, Writing
<1>8. ATypes'
  <2>1. /\ list' \in Books(env.page) /\ Admin!Known(list') \subseteq Admin!Known(stored')
        /\ selected' = Nobody \/ selected' \in Admin!Known(stored')
        /\ detail' = Admin!NoDetail \/ detail' \in [id : Ids, rec : RecordsOf(env.page)]
        /\ request' \in [Slots -> {Admin!NoRequest} \cup Tasks(env.page)]
    BY <1>1, <1>7 DEF ATypes
  <2>2. \A s \in Slots : request[s] = Admin!NoRequest \/ AskOk(request[s], env.page, stored')
    BY <1>7 DEF ATypes, AskOk
  <2> QED
    BY <1>1, <1>7, <2>1, <2>2 DEF ATypes
<1> QED
  BY <1>7, <1>8

LEMMA AdminStarts ==
  ASSUME Admin!Init
  PROVE  ATypes /\ ASold
<1>1. env \in Situations /\ env.page \in Panels
  BY PanelsAssumption DEF Admin!Init, Situations, Panels
<1>2. Admin!NoRecords \in Books(env.page) /\ Admin!Known(Admin!NoRecords) = {}
  BY <1>1, NothingIsKnown
<1>3. stored \in Books(env.page) /\ \A i \in Ids : stored[i].status \notin Admin!SellableStatuses
  <2> DEFINE first == CASE env.page = "drops" -> {"draft", "guaranteed"}
                        [] env.page = "production" -> {"ready_for_production"}
                        [] env.page = "payouts" -> {"pending"}
                        [] OTHER -> {Admin!NewListing}
  <2>1. stored \in [Ids -> {Admin!Absent} \cup [status : first, version : {0}]]
    BY DEF Admin!Init
  <2>2. first \subseteq StatusesOf(env.page) /\ first \cap Admin!SellableStatuses = {}
    BY <1>1 DEF StatusesOf, Panels, Admin!DropStatuses, Admin!ProductionMoves, Admin!NewListing,
                Admin!ListingStatuses, Admin!SellableStatuses
  <2> HIDE DEF first
  <2>3. stored \in Books(env.page)
    BY <2>1, <2>2 DEF Books, RecordsOf
  <2>4. Admin!Absent.status \notin Admin!SellableStatuses
    BY DEF Admin!Absent, Admin!SellableStatuses
  <2> QED
    BY <2>1, <2>2, <2>3, <2>4
<1>4. sales = [i \in Ids |-> 0] /\ list = Admin!NoRecords /\ selected = Nobody /\ detail = Admin!NoDetail
  BY DEF Admin!Init
<1> DEFINE load == [ stage |-> "asked", task |-> "load", id |-> Nobody, op |-> "read",
                     of |-> Nobody, reply |-> Admin!NoRecords ]
<1>5. \E s \in Slots : request = [r \in Slots |-> IF r = s THEN load ELSE Admin!NoRequest]
  BY DEF Admin!Init
<1>6. load \in Tasks(env.page)
  BY <1>2 DEF Tasks, Someone
<1>7. AskOk(load, env.page, stored)
  BY <1>2, <1>6 DEF AskOk
<1> HIDE DEF load
<1>8. /\ request \in [Slots -> {Admin!NoRequest} \cup Tasks(env.page)]
      /\ \A s \in Slots : request[s] = Admin!NoRequest \/ AskOk(request[s], env.page, stored)
  BY <1>5, <1>6, <1>7
<1> QED
  BY <1>1, <1>2, <1>3, <1>4, <1>8 DEF ATypes, ASold

LEMMA AdminTypesStep ==
  ASSUME ATypes, ASold, [Admin!Next]_adminVars
  PROVE  ATypes' /\ ASold'
<1>1. CASE Admin!User
  <2>1. UNCHANGED << stored, sales >>
    BY <1>1
    DEF Admin!User, Admin!SelectDrop, Admin!SelectPackage, Admin!SelectPayout,
        Admin!SelectListing, Admin!SelectAndFetch, Admin!SelectListed, Admin!handleNew,
        Admin!SubmitDrop, Admin!runDropAction, Admin!handleTransition, Admin!handleEnsure,
        Admin!handleMarkPaid, Admin!handleCreate, Admin!updateSelected, Admin!Act, Admin!Sending
  <2> QED
    BY <1>1, <2>1, UserKeepsTypes DEF ASold
<1>2. CASE Admin!OtherAdministrator
  BY <1>2, OtherKeepsTypes
<1>3. ASSUME NEW s \in Slots, Admin!Serve(s)
      PROVE  ATypes' /\ ASold'
  BY <1>3, ServeKeepsTypes
<1>4. ASSUME NEW s \in Slots, Admin!Lose(s)
      PROVE  ATypes' /\ ASold'
  BY <1>4, LoseKeepsTypes DEF Admin!Lose, ASold
<1>5. ASSUME NEW s \in Slots, Admin!Receive(s)
      PROVE  ATypes' /\ ASold'
  <2>1. UNCHANGED << stored, sales >>
    BY <1>5, ReceiveIs
    DEF Receives, Admin!ReceiveList, Admin!ReceiveSelected, Admin!ReceiveDropSaved,
        Admin!ReceiveRefresh, Admin!ReceivePackage, Admin!upsertPayout, Admin!ReceiveListing,
        Admin!ReceiveSaved, Admin!ReceiveError
  <2> QED
    BY <1>5, <2>1, ReceiveKeepsTypes DEF ASold
<1>6. CASE UNCHANGED adminVars
  BY <1>6 DEF adminVars, ATypes, ASold
<1> QED
  BY <1>1, <1>2, <1>3, <1>4, <1>5, <1>6 DEF Admin!Next

\* A listing is sold once for each time it is offered (markSold, whose update is filtered
\* on the status), whatever administrators send from copies however old.
THEOREM ListingsSoldOnce == Spec => []ListingsAreSoldOnce
<1> DEFINE I == scene = "admin" => ATypes /\ ASold
<1>1. Init => I
  BY AdminStarts DEF Init
<1>2. I /\ [Next]_<< scene, adminVars, checkoutVars, centerVars, wishlistVars,
                    designerVars, limiterVars >> => I'
  BY AdminTypesStep DEF Next
<1>3. I => ListingsAreSoldOnce
  BY DEF ListingsAreSoldOnce, Admin!SoldOncePerOffer, ASold
<1> QED
  BY <1>1, <1>2, <1>3, PTL DEF Spec

(***************************************************************************)
(* Who waits, or has no copy to wait for, has one request under way        *)
(* (Sole).  It is about the record selected (AboutIt), and on the panels   *)
(* with a copy the copy is of that record.  With one administrator and no  *)
(* failed call the panel shows what is stored, except for what the request *)
(* under way has changed (OnlyIt).                                         *)
(***************************************************************************)
KeepsCopy(p) == p \in {"drops", "production"}
AboutIt(r, p, se) ==
  /\ r.task = "select" => r.id = se
  /\ r.task = "save" /\ r.op # "create" => r.of = r.id /\ (KeepsCopy(p) => r.id = se)
Sole == \A s, t \in Slots : Busy(s) /\ Busy(t) => s = t
ACare ==
  Admin!Careful =>
    /\ Sole
    /\ KeepsCopy(env.page) => detail.id = selected
    /\ \A s \in Slots : Busy(s) => AboutIt(request[s], env.page, selected)

Alike(p, st, li, se, de) ==
  /\ li = st
  /\ KeepsCopy(p) => de = IF se = Nobody THEN Admin!NoDetail ELSE Admin!Copy(se, st)
OnlyIt(r, p, st, li, se, de) ==
  /\ r.task = "load" =>
       /\ li = Admin!NoRecords /\ se = Nobody /\ de = Admin!NoDetail
       /\ r.stage \in {"asked", "answered"}
  /\ r.task = "select" => Alike(p, st, li, se, de) /\ r.stage \in {"asked", "answered"}
  /\ r.task = "refresh" => r.stage \in {"asked", "answered"}
  /\ r.task = "save" /\ r.stage # "answered" => Alike(p, st, li, se, de)
  /\ r.task = "save" /\ r.stage = "answered" => \A j \in Ids \ {r.id} : li[j] = st[j]
  /\ r.task = "save" /\ p = "drops" /\ r.op \notin {"create", "update"} =>
       /\ r.stage # "refused"
       /\ r.stage = "asked" => r.op \in Admin!DropTransitions[st[r.id].status]
  /\ r.stage = "answered" => r.reply = st
Quiet == Admin!Careful /\ ~env.others /\ ~env.faults
AQuiet ==
  Quiet =>
    /\ (\A s \in Slots : ~Busy(s)) => Alike(env.page, stored, list, selected, detail)
    /\ \A s \in Slots :
         Busy(s) => OnlyIt(request[s], env.page, stored, list, selected, detail)

AInv == ATypes /\ ASold /\ ACare /\ AQuiet

LEMMA AdminStartsQuiet ==
  ASSUME Admin!Init
  PROVE  ACare /\ AQuiet
<1> DEFINE load == [ stage |-> "asked", task |-> "load", id |-> Nobody, op |-> "read",
                     of |-> Nobody, reply |-> Admin!NoRecords ]
<1>1. PICK s \in Slots : request = [r \in Slots |-> IF r = s THEN load ELSE Admin!NoRequest]
  BY DEF Admin!Init
<1>2. load # Admin!NoRequest
  BY DEF Admin!NoRequest
<1>3. list = Admin!NoRecords /\ selected = Nobody /\ detail = Admin!NoDetail
  BY DEF Admin!Init
<1>4. /\ AboutIt(load, env.page, selected)
      /\ OnlyIt(load, env.page, stored, list, selected, detail)
  BY <1>3 DEF AboutIt, OnlyIt
<1>5. detail.id = selected
  BY <1>3 DEF Admin!NoDetail
<1> HIDE DEF load
<1>6. \A t \in Slots : Busy(t) => t = s /\ request[t] = load
  BY <1>1 DEF Busy
<1>7. Busy(s)
  BY <1>1, <1>2 DEF Busy
<1> QED
  BY <1>4, <1>5, <1>6, <1>7 DEF ACare, AQuiet, Sole

\* Nothing is under way when a request is sent.
LEMMA NothingUnderWay ==
  ASSUME ATypes, Admin!Careful, Admin!AtEase, env.patient \/ ~Admin!isSaving
  PROVE  \A s \in Slots : ~Busy(s)
<1> SUFFICES ASSUME NEW s \in Slots, Busy(s)
             PROVE  FALSE
  OBVIOUS
<1>1. AskOk(request[s], env.page, stored) /\ request[s] \in Tasks(env.page)
  BY DEF ATypes, Busy, AskOk
<1>2. ~env.patient
  BY DEF Admin!AtEase, Admin!Free, Busy
<1>3. ~KeepsCopy(env.page)
  BY <1>2 DEF Admin!Careful, Admin!KeepsDetail, KeepsCopy
<1>4. request[s].task \notin {"load", "save", "refresh"}
  BY <1>2 DEF Admin!AtEase, Admin!isLoading, Admin!isSaving, Admin!Under, Busy
<1> QED
  BY <1>1, <1>3, <1>4 DEF AskOk, Tasks, KeepsCopy

\* A step that leaves one request or none under way.
LEMMA OneUnderWay ==
  ASSUME NEW s \in Slots, env' = env,
         Admin!Careful => \A t \in Slots \ {s} : request'[t] = Admin!NoRequest,
         Admin!Careful /\ KeepsCopy(env.page) => detail'.id = selected',
         Admin!Careful /\ request'[s] # Admin!NoRequest =>
           AboutIt(request'[s], env.page, selected'),
         Quiet /\ request'[s] # Admin!NoRequest =>
           OnlyIt(request'[s], env.page, stored', list', selected', detail'),
         Quiet /\ request'[s] = Admin!NoRequest =>
           Alike(env.page, stored', list', selected', detail')
  PROVE  ACare' /\ AQuiet'
<1>1. (Admin!Careful' <=> Admin!Careful) /\ (Quiet' <=> Quiet) /\ (Quiet => Admin!Careful)
  BY DEF Admin!Careful, Admin!KeepsDetail, Quiet
<1>2. ASSUME Admin!Careful, NEW t \in Slots, request'[t] # Admin!NoRequest
      PROVE  t = s
  BY <1>2
<1>3. ACare'
  BY <1>1, <1>2 DEF ACare, Sole, Busy
<1>4. AQuiet'
  BY <1>1, <1>2 DEF AQuiet, Busy
<1> QED
  BY <1>3, <1>4

LEMMA UserStaysCareful ==
  ASSUME ATypes, ACare, AQuiet, Admin!User
  PROVE  ACare' /\ AQuiet'
<1>0. env.page \in Panels /\ env \in Situations /\ request \in [Slots -> {Admin!NoRequest} \cup Tasks(env.page)]
  BY DEF ATypes, Situations
<1>1. ASSUME NEW p \in {"drops", "production"}, Admin!SelectAndFetch(p)
      PROVE  ACare' /\ AQuiet'
  <2>1. PICK i \in Admin!Known(list) : selected' = i /\ Admin!ShowCached(i) /\ Admin!Ask("select", i, "read")
    BY <1>1 DEF Admin!SelectAndFetch
  <2>2. /\ env.page = p /\ env' = env /\ stored' = stored /\ list' = list /\ Admin!AtEase
        /\ i \in Ids /\ i # Nobody
    BY <1>1, <2>1, NobodyAssumption DEF Admin!SelectAndFetch, Admin!Known
  <2> DEFINE q == Admin!Asked("select", i, "read")
  <2>3. PICK s \in Slots : request[s] = Admin!NoRequest /\ request' = [request EXCEPT ![s] = q]
    BY <2>1, Asking
  <2>4. q.task = "select" /\ q.id = i /\ q.stage = "asked" /\ q.op = "read"
    BY DEF Admin!Asked
  <2> HIDE DEF q
  <2>5. request'[s] = q /\ \A t \in Slots \ {s} : request'[t] = request[t]
    BY <1>0, <2>3
  <2>6. Admin!Careful => \A t \in Slots : ~Busy(t)
    BY <1>1, <2>2, NothingUnderWay DEF Admin!Careful, Admin!KeepsDetail
  <2>7. detail'.id = selected' /\ detail' = Admin!Copy(i, list)
    BY <2>1 DEF Admin!ShowCached, Admin!Copy
  <2>8. AboutIt(q, env.page, selected')
    BY <2>1, <2>4 DEF AboutIt
  <2>9. Quiet => OnlyIt(q, env.page, stored', list', selected', detail')
    <3>1. Quiet => list = stored
      BY <2>6 DEF Quiet, AQuiet, Alike
    <3>2. Quiet => Alike(env.page, stored', list', selected', detail')
      BY <2>1, <2>2, <2>7, <3>1 DEF Alike
    <3> QED
      BY <2>4, <3>2 DEF OnlyIt
  <2>10. q # Admin!NoRequest
    BY <2>4 DEF Admin!NoRequest
  <2> QED
    BY <2>2, <2>5, <2>6, <2>7, <2>8, <2>9, <2>10, OneUnderWay DEF Busy
<1>2. ASSUME NEW p \in {"payouts", "secondChance"}, Admin!SelectListed(p)
      PROVE  ACare' /\ AQuiet'
  <2>1. /\ env.page = p /\ env' = env /\ stored' = stored /\ list' = list /\ detail' = detail
        /\ request' = request /\ Admin!AtEase
    BY <1>2 DEF Admin!SelectListed
  <2>2. ~KeepsCopy(env.page) /\ (Admin!Careful' <=> Admin!Careful) /\ (Quiet' <=> Quiet)
    BY <1>2, <2>1 DEF KeepsCopy, Admin!Careful, Admin!KeepsDetail, Quiet
  <2>3. ASSUME NEW s \in Slots, Busy(s)
        PROVE  request[s].task \in {"save"}
    <3>1. AskOk(request[s], env.page, stored) /\ request[s] \in Tasks(env.page)
      BY <2>3 DEF ATypes, Busy, AskOk
    <3>2. request[s].task # "load"
      BY <2>1, <2>3 DEF Admin!AtEase, Admin!isLoading, Admin!Under, Busy
    <3> QED
      BY <2>1, <3>1, <3>2, <1>2 DEF AskOk, Tasks
  <2>4. ACare'
    BY <2>1, <2>2, <2>3 DEF ACare, Sole, Busy, AboutIt
  <2>5. AQuiet'
    BY <2>1, <2>2, <2>3 DEF AQuiet, Busy, OnlyIt, Alike
  <2> QED
    BY <2>4, <2>5
<1>3. CASE Admin!handleNew
  <2>1. /\ env.page = "drops" /\ env' = env /\ stored' = stored /\ list' = list
        /\ detail' = Admin!NoDetail /\ selected' = Nobody /\ request' = request /\ Admin!AtEase
    BY <1>3 DEF Admin!handleNew
  <2>2. Admin!Careful => \A s \in Slots : ~Busy(s)
    BY <2>1, NothingUnderWay DEF Admin!Careful, Admin!KeepsDetail
  <2>3. (Admin!Careful' <=> Admin!Careful) /\ (Quiet' <=> Quiet) /\ (Quiet => Admin!Careful)
    BY <2>1 DEF Admin!Careful, Admin!KeepsDetail, Quiet
  <2>4. ACare'
    BY <2>1, <2>2, <2>3 DEF ACare, Sole, Busy, Admin!NoDetail
  <2>5. AQuiet'
    BY <2>1, <2>2, <2>3 DEF AQuiet, Busy, Alike
  <2> QED
    BY <2>4, <2>5
<1>4. CASE UserSaves
  <2>1. PICK i, op : SaveAsked(i, op)
    BY <1>4, UserSavesAsk
  <2>2. /\ env' = env /\ stored' = stored /\ list' = list /\ selected' = selected
        /\ detail' = detail /\ Admin!AtEase /\ ~Admin!isSaving /\ i \in Ids
        /\ op # "create" => i = selected /\ i \in Admin!Known(stored)
    BY <2>1 DEF SaveAsked, ApiSame, PanelSame
  <2> DEFINE q == Admin!Asked("save", i, op)
  <2>3. PICK s \in Slots : request[s] = Admin!NoRequest /\ request' = [request EXCEPT ![s] = q]
    BY <2>1, Asking DEF SaveAsked
  <2>4. /\ q.task = "save" /\ q.id = i /\ q.stage = "asked" /\ q.op = op
        /\ q.of = IF op = "create" /\ ~KeepsCopy(env.page) THEN Nobody
                  ELSE IF KeepsCopy(env.page) THEN detail.id ELSE selected
    BY DEF Admin!Asked, Admin!Shown, Admin!KeepsDetail, KeepsCopy
  <2> HIDE DEF q
  <2>5. request'[s] = q /\ \A t \in Slots \ {s} : request'[t] = request[t]
    BY <1>0, <2>3
  <2>6. Admin!Careful => \A t \in Slots : ~Busy(t)
    BY <2>2, NothingUnderWay
  <2>7. Admin!Careful => AboutIt(q, env.page, selected')
    BY <2>2, <2>4 DEF AboutIt, ACare
  <2>8. Quiet => OnlyIt(q, env.page, stored', list', selected', detail')
    <3>1. Quiet => Alike(env.page, stored, list, selected, detail)
      BY <2>6 DEF Quiet, AQuiet
    <3>2. Quiet /\ env.page = "drops" /\ op \notin {"create", "update"} =>
            op \in Admin!DropTransitions[stored[i].status]
      <4> SUFFICES ASSUME Quiet, env.page = "drops", op \notin {"create", "update"}
                   PROVE  op \in Admin!DropTransitions[stored[i].status]
        OBVIOUS
      <4>1. i = selected /\ selected # Nobody
        BY <2>2, NobodyAssumption
      <4>2. detail = Admin!Copy(i, stored)
        BY <3>1, <4>1 DEF Alike, KeepsCopy
      <4>3. op \in Admin!DropTransitions[detail.rec.status]
        BY <2>1 DEF SaveAsked
      <4> QED
        BY <4>2, <4>3 DEF Admin!Copy
    <3> QED
      BY <2>2, <2>4, <3>1, <3>2 DEF OnlyIt
  <2>9. Admin!Careful /\ KeepsCopy(env.page) => detail'.id = selected'
    BY <2>2 DEF ACare
  <2>10. q # Admin!NoRequest
    BY <2>4 DEF Admin!NoRequest
  <2> QED
    BY <2>2, <2>5, <2>6, <2>7, <2>8, <2>9, <2>10, OneUnderWay DEF Busy
<1> QED
  BY <1>1, <1>2, <1>3, <1>4
  DEF Admin!User, UserSaves, Admin!SelectDrop, Admin!SelectPackage, Admin!SelectPayout,
      Admin!SelectListing

LEMMA ServeStaysCareful ==
  ASSUME ATypes, ASold, ACare, AQuiet, NEW s \in Slots, Admin!Serve(s)
  PROVE  ACare' /\ AQuiet'
<1> DEFINE r == request[s]
<1>1. /\ r \in Tasks(env.page) /\ AskOk(r, env.page, stored) /\ r.stage = "asked" /\ Busy(s)
      /\ env' = env /\ list' = list /\ selected' = selected /\ detail' = detail
      /\ request \in [Slots -> {Admin!NoRequest} \cup Tasks(env.page)]
  BY DEF Admin!Serve, ATypes, Admin!NoRequest, Busy
<1>2. Admin!Careful => /\ AboutIt(r, env.page, selected)
                       /\ \A t \in Slots \ {s} : request[t] = Admin!NoRequest
  BY <1>1 DEF ACare, Sole, Busy
<1>3. Quiet => OnlyIt(r, env.page, stored, list, selected, detail) /\ Admin!Careful
  BY <1>1 DEF AQuiet, Quiet
<1>4. Admin!Careful /\ KeepsCopy(env.page) => detail'.id = selected'
  BY <1>1 DEF ACare
<1>5. ASSUME NEW q, request' = [request EXCEPT ![s] = q], q.stage \in {"answered", "refused"},
             q.task = r.task, q.id = r.id, q.op = r.op, q.of = r.of,
             Quiet => OnlyIt(q, env.page, stored', list', selected', detail')
      PROVE  ACare' /\ AQuiet'
  <2>1. request'[s] = q /\ \A t \in Slots \ {s} : request'[t] = request[t]
    BY <1>1, <1>5
  <2>2. Admin!Careful => AboutIt(q, env.page, selected')
    BY <1>1, <1>2, <1>5 DEF AboutIt
  <2>3. q # Admin!NoRequest
    BY <1>5 DEF Admin!NoRequest
  <2> QED
    BY <1>1, <1>2, <1>4, <1>5, <2>1, <2>2, <2>3, OneUnderWay
<1>6. CASE Admin!Under(s, {"load", "select", "refresh"}) /\ ApiSame
           /\ request' = [request EXCEPT ![s].stage = "answered", ![s].reply = stored]
  <2> DEFINE q == [r EXCEPT !.stage = "answered", !.reply = stored]
  <2>1. request' = [request EXCEPT ![s] = q]
    BY <1>1, <1>6
  <2>2. /\ q.task = r.task /\ q.id = r.id /\ q.reply = stored /\ q.op = r.op /\ q.of = r.of
        /\ q.stage = "answered"
    BY <1>1 DEF Tasks
  <2>3. stored' = stored /\ r.task \in {"load", "select", "refresh"}
    BY <1>6 DEF ApiSame, Admin!Under
  <2> HIDE DEF q
  <2>4. Quiet => OnlyIt(q, env.page, stored', list', selected', detail')
    BY <1>1, <1>3, <2>2, <2>3 DEF OnlyIt
  <2> QED
    BY <1>5, <2>1, <2>2, <2>4
<1>7. CASE Admin!Under(s, {"save"}) /\ \E rec \in Admin!Outcomes(r.id, r.op, r.of) :
             /\ Admin!Write(r.id, r.op, rec)
             /\ request' = [request EXCEPT ![s].stage = "answered", ![s].reply = stored']
  <2>1. PICK rec \in Admin!Outcomes(r.id, r.op, r.of) : Admin!Write(r.id, r.op, rec)
    BY <1>7
  <2>2. r.task = "save" /\ r.id \in Ids /\ r.op \in OpsOf(env.page)
        /\ (r.op # "create" => r.id \in Admin!Known(stored))
    BY <1>1, <1>7 DEF AskOk, Admin!Under
  <2>3. \A j \in Ids \ {r.id} : stored'[j] = stored[j]
    BY <1>1, <2>1, <2>2, Writing
  <2> DEFINE q == [r EXCEPT !.stage = "answered", !.reply = stored']
  <2>4. request' = [request EXCEPT ![s] = q]
    BY <1>1, <1>7
  <2>5. /\ q.task = r.task /\ q.id = r.id /\ q.reply = stored' /\ q.op = r.op /\ q.of = r.of
        /\ q.stage = "answered"
    BY <1>1 DEF Tasks
  <2> HIDE DEF q
  <2>6. Quiet => OnlyIt(q, env.page, stored', list', selected', detail')
    BY <1>1, <1>3, <2>2, <2>3, <2>5 DEF OnlyIt, Alike
  <2> QED
    BY <1>5, <2>4, <2>5, <2>6
<1>8. CASE Admin!Under(s, {"save"}) /\ ApiSame /\ Admin!Outcomes(r.id, r.op, r.of) = {}
           /\ request' = [request EXCEPT ![s].stage = "refused"]
  <2> DEFINE q == [r EXCEPT !.stage = "refused"]
  <2>1. request' = [request EXCEPT ![s] = q]
    BY <1>1, <1>8
  <2>2. /\ q.task = r.task /\ q.id = r.id /\ q.op = r.op /\ q.of = r.of /\ q.stage = "refused"
    BY <1>1 DEF Tasks
  <2>3. stored' = stored /\ r.task = "save"
    BY <1>8 DEF ApiSame, Admin!Under
  <2> HIDE DEF q
  <2>4. ~(Quiet /\ env.page = "drops" /\ r.op \notin {"create", "update"})
    <3> SUFFICES ASSUME Quiet, env.page = "drops", r.op \notin {"create", "update"}
                 PROVE  FALSE
      OBVIOUS
    <3>1. r.op \in Admin!DropTransitions[stored[r.id].status]
      BY <1>1, <1>3, <2>3 DEF OnlyIt
    <3>2. r.op \in Admin!Moves(stored[r.id].status, r.op)
      BY <3>1 DEF Admin!Moves
    <3>3. Admin!Outcomes(r.id, r.op, r.of)
            = { [stored[r.id] EXCEPT !.status = t] : t \in Admin!Moves(stored[r.id].status, r.op) }
      BY DEF Admin!Outcomes
    <3> QED
      BY <1>8, <3>2, <3>3
  <2>5. Quiet => OnlyIt(q, env.page, stored', list', selected', detail')
    BY <1>1, <1>3, <2>2, <2>3, <2>4 DEF OnlyIt
  <2> QED
    BY <1>5, <2>1, <2>2, <2>5
<1> QED
  BY <1>6, <1>7, <1>8 DEF Admin!Serve, ApiSame

LEMMA LoseStaysCareful ==
  ASSUME ATypes, ACare, AQuiet, NEW s \in Slots, Admin!Lose(s)
  PROVE  ACare' /\ AQuiet'
<1> DEFINE r == request[s]
           q == [r EXCEPT !.stage = "refused"]
<1>1. /\ r \in Tasks(env.page) /\ Busy(s) /\ env' = env /\ selected' = selected
      /\ detail' = detail /\ ~Quiet
      /\ request \in [Slots -> {Admin!NoRequest} \cup Tasks(env.page)]
  BY DEF Admin!Lose, ATypes, Admin!NoRequest, Busy, Quiet
<1>2. request' = [request EXCEPT ![s] = q]
  BY <1>1 DEF Admin!Lose
<1>3. q.task = r.task /\ q.id = r.id /\ q.op = r.op /\ q.of = r.of
  BY <1>1 DEF Tasks
<1> HIDE DEF q
<1>4. request'[s] = q /\ \A t \in Slots \ {s} : request'[t] = request[t]
  BY <1>1, <1>2
<1>5. Admin!Careful => /\ AboutIt(q, env.page, selected')
                       /\ \A t \in Slots \ {s} : request[t] = Admin!NoRequest
  BY <1>1, <1>3 DEF ACare, Sole, Busy, AboutIt
<1>6. Admin!Careful /\ KeepsCopy(env.page) => detail'.id = selected'
  BY <1>1 DEF ACare
<1> QED
  BY <1>1, <1>4, <1>5, <1>6, OneUnderWay

LEMMA OtherStaysCareful ==
  ASSUME ATypes, ACare, AQuiet, Admin!OtherAdministrator
  PROVE  ACare' /\ AQuiet'
<1>1. /\ env' = env /\ selected' = selected /\ detail' = detail /\ request' = request
      /\ env.others
  BY DEF Admin!OtherAdministrator
<1>2. (Admin!Careful' <=> Admin!Careful) /\ ~Quiet'
  BY <1>1 DEF Admin!Careful, Admin!KeepsDetail, Quiet
<1> QED
  BY <1>1, <1>2 DEF ACare, AQuiet, Sole, Busy

\* An answer received leaves nothing under way.
LEMMA ReceivedStaysCareful ==
  ASSUME ATypes, ACare, NEW s \in Slots, Busy(s), env' = env,
         request' = [request EXCEPT ![s] = Admin!NoRequest],
         Admin!Careful /\ KeepsCopy(env.page) => detail'.id = selected',
         Quiet => Alike(env.page, stored', list', selected', detail')
  PROVE  ACare' /\ AQuiet'
<1>1. Admin!Careful => \A t \in Slots \ {s} : request[t] = Admin!NoRequest
  BY DEF ACare, Sole, Busy
<1>2. request'[s] = Admin!NoRequest /\ \A t \in Slots \ {s} : request'[t] = request[t]
  BY DEF ATypes
<1> QED
  BY <1>1, <1>2, OneUnderWay

LEMMA ReceiveStaysCareful ==
  ASSUME ATypes, ACare, AQuiet, NEW s \in Slots, Admin!Receive(s)
  PROVE  ACare' /\ AQuiet'
<1> DEFINE r == request[s]
<1>0. env.page \in Panels /\ stored \in Books(env.page) /\ list \in Books(env.page)
      /\ request \in [Slots -> {Admin!NoRequest} \cup Tasks(env.page)]
  BY DEF ATypes, Situations
<1>a. ASSUME NEW task, Admin!Answered(s, task)
      PROVE  /\ Busy(s) /\ r.task = task /\ r.stage = "answered" /\ r.reply \in Books(env.page)
             /\ Admin!Careful => AboutIt(r, env.page, selected)
             /\ Quiet => /\ OnlyIt(r, env.page, stored, list, selected, detail)
                         /\ r.reply = stored /\ Admin!Careful
             /\ task # "load" => r.id \in Ids /\ r.id # Nobody
  <2>1. Busy(s) /\ r.task = task /\ r.stage = "answered"
    BY <1>a DEF Admin!Answered, Busy
  <2>2. r.reply \in Books(env.page) /\ (task # "load" => r.id \in Ids /\ r.id # Nobody)
    BY <1>a, AnswerOk, NobodyAssumption DEF Admin!Known
  <2> QED
    BY <2>1, <2>2 DEF ACare, AQuiet, OnlyIt, Quiet
<1>1. ASSUME NEW p \in Panels, Admin!ReceiveList(s, p)
      PROVE  ACare' /\ AQuiet'
  <2>1. Admin!Answered(s, "load")
    BY <1>1 DEF Admin!ReceiveList
  <2>2. /\ env' = env /\ stored' = stored /\ list' = r.reply /\ env.page = p
        /\ request' = [request EXCEPT ![s] = Admin!NoRequest]
    BY <1>1 DEF Admin!ReceiveList, Admin!Done
  <2>3. \/ UNCHANGED << selected, detail >>
        \/ \E i \in Admin!Known(r.reply) :
             /\ selected' = i
             /\ detail' = IF KeepsCopy(p) THEN Admin!Copy(i, r.reply) ELSE detail
    BY <1>1 DEF Admin!ReceiveList, Admin!KeepsDetail, KeepsCopy
  <2>4. Admin!Careful /\ KeepsCopy(env.page) => detail'.id = selected'
    BY <2>2, <2>3 DEF ACare, Admin!Copy
  <2>5. Quiet => Alike(env.page, stored', list', selected', detail')
    <3> SUFFICES ASSUME Quiet  PROVE Alike(env.page, stored', list', selected', detail')
      OBVIOUS
    <3>1. r.reply = stored /\ selected = Nobody /\ detail = Admin!NoDetail
      BY <1>a, <2>1 DEF OnlyIt
    <3>2. CASE UNCHANGED << selected, detail >>
      BY <2>2, <3>1, <3>2 DEF Alike
    <3>3. CASE \E i \in Admin!Known(r.reply) :
                 /\ selected' = i
                 /\ detail' = IF KeepsCopy(p) THEN Admin!Copy(i, r.reply) ELSE detail
      <4>1. PICK i \in Admin!Known(r.reply) :
                 /\ selected' = i
                 /\ detail' = IF KeepsCopy(p) THEN Admin!Copy(i, r.reply) ELSE detail
        BY <3>3
      <4>2. i # Nobody
        BY NobodyAssumption DEF Admin!Known
      <4> QED
        BY <2>2, <3>1, <4>1, <4>2 DEF Alike
    <3> QED
      BY <2>3, <3>2, <3>3
  <2> QED
    BY <1>a, <2>1, <2>2, <2>4, <2>5, ReceivedStaysCareful
<1>2. CASE Admin!ReceiveSelected(s)
  <2>1. Admin!Answered(s, "select")
    BY <1>2 DEF Admin!ReceiveSelected
  <2>2. /\ env' = env /\ stored' = stored /\ list' = list /\ selected' = selected
        /\ detail' = Admin!Copy(r.id, r.reply)
        /\ request' = [request EXCEPT ![s] = Admin!NoRequest]
    BY <1>2 DEF Admin!ReceiveSelected, Admin!Done
  <2>3. Admin!Careful => r.id = selected
    BY <1>a, <2>1 DEF AboutIt
  <2>4. Admin!Careful /\ KeepsCopy(env.page) => detail'.id = selected'
    BY <2>2, <2>3 DEF Admin!Copy
  <2>5. Quiet => Alike(env.page, stored', list', selected', detail')
    BY <1>a, <2>1, <2>2, <2>3 DEF OnlyIt, Alike
  <2> QED
    BY <1>a, <2>1, <2>2, <2>4, <2>5, ReceivedStaysCareful
<1>3. CASE Admin!ReceiveDropSaved(s)
  <2>1. Admin!Answered(s, "save") /\ r \in Tasks(env.page)
    BY <1>3, AnswerOk DEF Admin!ReceiveDropSaved
  <2>2. env.page = "drops" /\ env' = env /\ UNCHANGED << stored, list, selected, detail >>
    BY <1>3 DEF Admin!ReceiveDropSaved
  <2> DEFINE q == [r EXCEPT !.stage = "asked", !.task = "refresh", !.reply = Admin!NoRecords]
  <2>3. request' = [request EXCEPT ![s] = q]
    BY <1>0, <1>3 DEF Admin!ReceiveDropSaved
  <2>4. q.task = "refresh" /\ q.stage = "asked"
    BY <2>1 DEF Tasks
  <2> HIDE DEF q
  <2>5. request'[s] = q /\ \A t \in Slots \ {s} : request'[t] = request[t]
    BY <1>0, <2>3
  <2>6. Admin!Careful => \A t \in Slots \ {s} : request[t] = Admin!NoRequest
    BY <1>a, <2>1 DEF ACare, Sole, Busy
  <2>7. /\ AboutIt(q, env.page, selected')
        /\ OnlyIt(q, env.page, stored', list', selected', detail') /\ q # Admin!NoRequest
    BY <2>4 DEF AboutIt, OnlyIt, Admin!NoRequest
  <2>8. Admin!Careful /\ KeepsCopy(env.page) => detail'.id = selected'
    BY <2>2 DEF ACare
  <2> QED
    BY <2>2, <2>5, <2>6, <2>7, <2>8, OneUnderWay
<1>4. CASE Admin!ReceiveRefresh(s)
  <2>1. Admin!Answered(s, "refresh")
    BY <1>4 DEF Admin!ReceiveRefresh
  <2>2. /\ list' = r.reply /\ selected' = r.id /\ detail' = Admin!Copy(r.id, r.reply)
        /\ env' = env /\ stored' = stored /\ request' = [request EXCEPT ![s] = Admin!NoRequest]
    BY <1>4 DEF Admin!ReceiveRefresh, Admin!refreshDrops, Admin!Done
  <2>3. detail'.id = selected'
    BY <2>2 DEF Admin!Copy
  <2>4. Quiet => Alike(env.page, stored', list', selected', detail')
    BY <1>a, <2>1, <2>2 DEF Alike
  <2> QED
    BY <1>a, <2>1, <2>2, <2>3, <2>4, ReceivedStaysCareful
<1>5. ASSUME NEW p, Admin!ReceiveSaved(s, p)
      PROVE  /\ Admin!Answered(s, "save") /\ env' = env /\ stored' = stored /\ env.page = p
             /\ request' = [request EXCEPT ![s] = Admin!NoRequest]
             /\ Quiet => list' = stored
  <2>1. /\ Admin!Answered(s, "save") /\ env' = env /\ stored' = stored /\ env.page = p
        /\ list' = [list EXCEPT ![r.id] = r.reply[r.id]]
        /\ request' = [request EXCEPT ![s] = Admin!NoRequest]
    BY <1>5 DEF Admin!ReceiveSaved, Admin!upsert, Admin!Done
  <2>2. ASSUME Quiet  PROVE list' = stored
    <3>1. r.reply = stored /\ \A j \in Ids \ {r.id} : list[j] = stored[j]
      BY <1>a, <2>1, <2>2 DEF OnlyIt
    <3> QED
      BY <1>0, <2>1, <3>1 DEF Books
  <2> QED
    BY <2>1, <2>2
<1>6. CASE Admin!ReceivePackage(s)
  <2>1. /\ Admin!ReceiveSaved(s, "production") /\ selected' = selected
        /\ detail' = Admin!Copy(r.id, r.reply)
    BY <1>6 DEF Admin!ReceivePackage
  <2>2. Admin!Answered(s, "save") /\ env.page = "production"
    BY <1>5, <2>1
  <2>3. r.op # "create"
    <3>1. AskOk(r, env.page, stored) /\ r.task = "save"
      BY <2>2, AnswerOk
    <3> QED
      BY <2>2, <3>1 DEF AskOk, OpsOf, Admin!NEXT_STATUS_OPTIONS
  <2>4. Admin!Careful => r.id = selected
    BY <1>a, <2>2, <2>3 DEF AboutIt, KeepsCopy
  <2>5. Admin!Careful /\ KeepsCopy(env.page) => detail'.id = selected'
    BY <2>1, <2>4 DEF Admin!Copy
  <2>6. Quiet => Alike(env.page, stored', list', selected', detail')
    BY <1>5, <1>a, <2>1, <2>2, <2>4 DEF Alike
  <2> QED
    BY <1>5, <1>a, <2>1, <2>2, <2>5, <2>6, ReceivedStaysCareful
<1>7. ASSUME NEW p \in {"payouts", "secondChance"}, Admin!ReceiveSaved(s, p)
      PROVE  ACare' /\ AQuiet'
  <2>1. Admin!Answered(s, "save") /\ ~KeepsCopy(env.page)
    BY <1>5, <1>7 DEF KeepsCopy
  <2>2. Quiet => Alike(env.page, stored', list', selected', detail')
    BY <1>5, <1>7, <2>1 DEF Alike
  <2> QED
    BY <1>5, <1>7, <1>a, <2>1, <2>2, ReceivedStaysCareful
<1>8. CASE Admin!ReceiveError(s)
  <2>1. /\ env' = env /\ UNCHANGED << stored, list, selected, detail >> /\ r.stage = "refused"
        /\ request' = [request EXCEPT ![s] = Admin!NoRequest]
    BY <1>8 DEF Admin!ReceiveError, Admin!Done
  <2>2. Busy(s)
    BY <2>1 DEF Busy, Admin!NoRequest
  <2>3. r.task \in {"load", "select", "save", "refresh"}
    BY <1>0, <2>2 DEF Busy, Tasks
  <2>4. Quiet => OnlyIt(r, env.page, stored, list, selected, detail)
    BY <2>2 DEF AQuiet
  <2>5. Quiet => Alike(env.page, stored', list', selected', detail')
    BY <2>1, <2>3, <2>4 DEF OnlyIt
  <2>6. Admin!Careful /\ KeepsCopy(env.page) => detail'.id = selected'
    BY <2>1 DEF ACare
  <2> QED
    BY <2>1, <2>2, <2>5, <2>6, ReceivedStaysCareful
<1> QED
  BY <1>1, <1>2, <1>3, <1>4, <1>6, <1>7, <1>8, ReceiveIs
  DEF Receives, Admin!upsertPayout, Admin!ReceiveListing

LEMMA AdminStep ==
  ASSUME AInv, [Admin!Next]_adminVars
  PROVE  AInv'
<1>1. ATypes' /\ ASold'
  BY AdminTypesStep DEF AInv
<1>2. ACare' /\ AQuiet'
  <2>1. CASE Admin!User
    BY <2>1, UserStaysCareful DEF AInv
  <2>2. CASE Admin!OtherAdministrator
    BY <2>2, OtherStaysCareful DEF AInv
  <2>3. ASSUME NEW s \in Slots, Admin!Serve(s) \/ Admin!Lose(s) \/ Admin!Receive(s)
        PROVE  ACare' /\ AQuiet'
    BY <2>3, ServeStaysCareful, LoseStaysCareful, ReceiveStaysCareful DEF AInv
  <2>4. CASE UNCHANGED adminVars
    BY <2>4
    DEF adminVars, AInv, ACare, AQuiet, Sole, Busy, Quiet, Admin!Careful, Admin!KeepsDetail
  <2> QED
    BY <2>1, <2>2, <2>3, <2>4 DEF Admin!Next
<1> QED
  BY <1>1, <1>2 DEF AInv

LEMMA AdminKeeps ==
  ASSUME AInv
  PROVE  Admin!ShowsWhatIsStored /\ Admin!ActsOnWhatIsShown
<1>1. Admin!ShowsWhatIsStored
  <2> SUFFICES ASSUME Quiet, Admin!Free = Slots
               PROVE  /\ list = stored
                      /\ Admin!KeepsDetail => detail = IF selected = Nobody THEN Admin!NoDetail
                                                       ELSE Admin!Copy(selected, stored)
    BY DEF Admin!ShowsWhatIsStored, Quiet
  <2>1. \A s \in Slots : ~Busy(s)
    BY DEF Admin!Free, Busy
  <2> QED
    BY <2>1 DEF AInv, AQuiet, Alike, Admin!KeepsDetail, KeepsCopy
<1>2. ASSUME NEW s \in Slots, Admin!Careful, Admin!Under(s, {"save"}), request[s].op # "create"
      PROVE  /\ request[s].of = request[s].id
             /\ request[s].stage = "refused" /\ env.page = "drops" =>
                  request[s].op = "update" \/ env.others \/ env.faults
  <2>1. Busy(s) /\ request[s].task = "save"
    BY <1>2 DEF Admin!Under, Busy
  <2>2. request[s].of = request[s].id
    BY <1>2, <2>1 DEF AInv, ACare, AboutIt
  <2>3. Quiet => OnlyIt(request[s], env.page, stored, list, selected, detail)
    BY <2>1 DEF AInv, AQuiet
  <2> QED
    BY <1>2, <2>1, <2>2, <2>3 DEF OnlyIt, Quiet
<1> QED
  BY <1>1, <1>2 DEF Admin!ActsOnWhatIsShown

-----------------------------------------------------------------------------
(* The checkout form.                                                       *)
(***************************************************************************)
(* For a buyer who waits, what is looked up, offered and chosen is of the  *)
(* city chosen, as soon as there is one.                                   *)
(***************************************************************************)
FormOfCity ==
  city # Nothing =>
    /\ warehouse \in {Nothing, city} /\ warehouses \subseteq {city}
    /\ \A l \in lookups : l.kind = "warehouses" => l.of = city
KInv ==
  situation.patient => FormOfCity /\ Checkout!OrderGoesToItsCity

LEMMA CheckoutStarts ==
  ASSUME Checkout!CheckoutInit
  PROVE  KInv
BY DEF Checkout!CheckoutInit, KInv, FormOfCity, Checkout!OrderGoesToItsCity

LEMMA CheckoutStep ==
  ASSUME KInv, [Checkout!CheckoutNext]_checkoutVars
  PROVE  KInv'
<1> SUFFICES ASSUME situation'.patient
             PROVE  FormOfCity' /\ Checkout!OrderGoesToItsCity'
  BY DEF KInv
<1>1. situation' = situation /\ situation.patient
  BY DEF Checkout!CheckoutNext, Checkout!Type, Checkout!SearchCities, Checkout!ReceiveCities,
         Checkout!handleCitySelect, Checkout!ReceiveWarehouses, Checkout!ChooseWarehouse,
         Checkout!LookupFails, Checkout!handleSubmit, checkoutVars
<1>2. FormOfCity /\ \A o \in sent : o.warehouse = o.city
  BY <1>1 DEF KInv, Checkout!OrderGoesToItsCity
<1> USE <1>1, <1>2 DEF FormOfCity, Checkout!OrderGoesToItsCity
<1>3. CASE Checkout!Type
  BY <1>3 DEF Checkout!Type
<1>4. CASE Checkout!SearchCities
  BY <1>4 DEF Checkout!SearchCities, Checkout!Lookup
<1>5. CASE Checkout!ReceiveCities
  BY <1>5 DEF Checkout!ReceiveCities
<1>6. CASE Checkout!handleCitySelect
  <2>1. PICK c \in cities : city' = c /\ Checkout!Lookup("warehouses", c)
    BY <1>6 DEF Checkout!handleCitySelect
  <2>2. /\ \A l \in lookups : l.kind # "warehouses"
        /\ warehouse' = Nothing /\ warehouses' = {} /\ sent' = sent
    BY <1>6 DEF Checkout!handleCitySelect, Checkout!Settled, Checkout!ForgetBranches
  <2> QED
    BY <2>1, <2>2 DEF Checkout!Lookup
<1>7. CASE Checkout!ReceiveWarehouses
  BY <1>7 DEF Checkout!ReceiveWarehouses
<1>8. CASE Checkout!ChooseWarehouse
  BY <1>8 DEF Checkout!ChooseWarehouse
<1>9. CASE Checkout!LookupFails
  BY <1>9 DEF Checkout!LookupFails, Checkout!form
<1>10. CASE Checkout!handleSubmit
  BY <1>10 DEF Checkout!handleSubmit, Checkout!form
<1>11. CASE UNCHANGED checkoutVars
  BY <1>11 DEF checkoutVars
<1> QED
  BY <1>3, <1>4, <1>5, <1>6, <1>7, <1>8, <1>9, <1>10, <1>11 DEF Checkout!CheckoutNext

-----------------------------------------------------------------------------
(* The notifications.                                                       *)

Listed == [n : Notices, status : {"unread", "read"}]
Fetches ==
  [ n : Nat, kind : {"load", "markAll", "save"}, filter : Center!Filters,
    value : {"unknown", "on", "off"}, done : BOOLEAN, items : SUBSET Listed ]
NTypes ==
  /\ notice \in [Notices -> {"absent", "unread", "read"}]
  /\ filter \in Center!Filters /\ items \subseteq Listed /\ started \in Nat
  /\ settings \in {"unknown", "on", "off"} /\ kept \in {"on", "off"}
  /\ pending \subseteq Fetches
  /\ \A p \in pending : p.kind = "save" => p.value # "unknown"

(***************************************************************************)
(* A list that is not of the chosen filter is being fetched for it, and    *)
(* nothing is fetched for another.  For a user who waits one request is    *)
(* under way; what is listed has the status stored until everything is     *)
(* marked read, and the settings are the stored ones unless edited or      *)
(* under way.                                                              *)
(***************************************************************************)
Fetching ==
  /\ \A p \in pending : p.kind = "load" => p.filter = filter
  /\ shownFor = filter \/ \E p \in pending : p.kind = "load"
Truly(list_) == \A i \in list_ : notice[i.n] = i.status
Waiting ==
  /\ \A p, q \in pending : p = q
  /\ (\A p \in pending : ~(p.kind = "markAll" /\ p.done)) => Truly(items)
  /\ (\A p \in pending : p.kind = "markAll") => edited \/ settings = kept
  /\ \A p \in pending : p.done =>
       /\ p.kind = "load" => Truly(p.items) /\ p.value = kept
       /\ p.kind = "markAll" => \A i \in items : notice[i.n] = "read"
       /\ p.kind = "save" => p.value = kept
NInv == NTypes /\ (~manner.faults => Fetching /\ (manner.patient => Waiting))

LEMMA CenterStarts ==
  ASSUME Center!CenterInit
  PROVE  NInv
<1>1. NTypes
  BY DEF Center!CenterInit, NTypes, Fetches, Listed, Center!Filters, Center!Unknown
<1> QED
  BY <1>1 DEF Center!CenterInit, NInv, Fetching, Waiting, Truly

\* What is fetched or sent next.
LEMMA RequestIs ==
  ASSUME NTypes, NEW kind \in {"load", "markAll", "save"}, NEW f \in Center!Filters,
         NEW v \in {"unknown", "on", "off"}
  PROVE  /\ Center!Request(kind, f, v) \in Fetches
         /\ Center!Request(kind, f, v).kind = kind /\ Center!Request(kind, f, v).filter = f
         /\ Center!Request(kind, f, v).value = v /\ Center!Request(kind, f, v).done = FALSE
BY DEF NTypes, Fetches, Center!Request

LEMMA UserActsOnCenter ==
  ASSUME NInv, Center!ChooseFilter \/ Center!handleMarkAllRead \/ Center!EditSettings
               \/ Center!handleSettingsSubmit
  PROVE  NInv'
<1> USE DEF NInv
<1>1. CASE Center!ChooseFilter
  <2>1. PICK f \in Center!Filters \ {filter} :
          filter' = f /\ Center!Begin(Center!Request("load", f, "unknown"), Center!DropEarlier)
    BY <1>1 DEF Center!ChooseFilter, Center!Unknown
  <2>2. PICK q : q = Center!Request("load", f, "unknown")
    OBVIOUS
  <2>3. q \in Fetches /\ q.kind = "load" /\ q.filter = f /\ q.done = FALSE
    BY <2>1, <2>2, RequestIs
  <2>4. /\ pending' = { p \in pending : p.kind # "load" } \cup {q} /\ started' = started + 1
        /\ manner.patient => pending = {}
        /\ UNCHANGED << manner, notice, kept, items, settings, edited, shownFor >>
    BY <1>1, <2>1, <2>2 DEF Center!ChooseFilter, Center!Begin, Center!DropEarlier
  <2>5. NTypes'
    BY <2>1, <2>3, <2>4 DEF NTypes
  <2>6. Fetching'
    BY <2>1, <2>3, <2>4 DEF Fetching
  <2>7. ASSUME manner.patient, Waiting  PROVE Waiting'
    <3>1. pending' = {q}
      BY <2>4, <2>7
    <3> QED
      BY <2>3, <2>4, <2>7, <3>1 DEF Waiting, Truly
  <2> QED
    BY <2>4, <2>5, <2>6, <2>7
<1>2. CASE Center!handleMarkAllRead
  <2>1. PICK q : q = Center!Request("markAll", filter, "unknown")
    OBVIOUS
  <2>2. q \in Fetches /\ q.kind = "markAll" /\ q.done = FALSE
    BY <2>1, RequestIs DEF NTypes
  <2>3. /\ pending' = pending \cup {q} /\ started' = started + 1
        /\ manner.patient => pending = {}
        /\ UNCHANGED << manner, notice, kept, filter, items, settings, edited, shownFor >>
    BY <1>2, <2>1 DEF Center!handleMarkAllRead, Center!Begin, Center!Unknown
  <2>4. NTypes'
    BY <2>2, <2>3 DEF NTypes
  <2>5. ~manner.faults => Fetching'
    BY <2>2, <2>3 DEF Fetching
  <2>6. ASSUME manner.patient, Waiting  PROVE Waiting'
    <3>1. pending' = {q} /\ pending = {}
      BY <2>3, <2>6
    <3> QED
      BY <2>2, <2>3, <2>6, <3>1 DEF Waiting, Truly
  <2> QED
    BY <2>3, <2>4, <2>5, <2>6
<1>3. CASE Center!EditSettings
  <2>1. /\ settings' \in {"on", "off"} /\ edited' = TRUE
        /\ UNCHANGED << manner, notice, kept, filter, items, shownFor, pending, started >>
    BY <1>3 DEF Center!EditSettings, Center!Flip
  <2> QED
    BY <2>1 DEF NTypes, Fetching, Waiting, Truly
<1>4. CASE Center!handleSettingsSubmit
  <2>1. PICK q : q = Center!Request("save", filter, settings)
    OBVIOUS
  <2>2. q \in Fetches /\ q.kind = "save" /\ q.done = FALSE /\ q.value # "unknown"
    <3>1. filter \in Center!Filters /\ settings \in {"unknown", "on", "off"}
      BY DEF NTypes
    <3>2. settings # "unknown"
      BY <1>4 DEF Center!handleSettingsSubmit, Center!Unknown
    <3> QED
      BY <2>1, <3>1, <3>2, RequestIs
  <2>3. /\ pending' = pending \cup {q} /\ started' = started + 1
        /\ manner.patient => pending = {}
        /\ UNCHANGED << manner, notice, kept, filter, items, settings, shownFor >>
        /\ edited' = FALSE
    BY <1>4, <2>1 DEF Center!handleSettingsSubmit, Center!Begin
  <2>4. NTypes'
    BY <2>2, <2>3 DEF NTypes
  <2>5. ~manner.faults => Fetching'
    BY <2>2, <2>3 DEF Fetching
  <2>6. ASSUME manner.patient, Waiting  PROVE Waiting'
    <3>1. pending' = {q} /\ pending = {}
      BY <2>3, <2>6
    <3> QED
      BY <2>2, <2>3, <2>6, <3>1 DEF Waiting, Truly
  <2> QED
    BY <2>3, <2>4, <2>5, <2>6
<1> QED
  BY <1>1, <1>2, <1>3, <1>4

LEMMA ApiActsOnCenter ==
  ASSUME NInv, Center!NoticeArrives \/ \E p \in pending : Center!ServeCenter(p) \/ Center!RequestFails(p)
  PROVE  NInv'
<1> USE DEF NInv
<1>1. CASE Center!NoticeArrives
  <2>1. PICK x \in Notices : notice[x] = "absent" /\ notice' = [notice EXCEPT ![x] = "unread"]
    BY <1>1 DEF Center!NoticeArrives
  <2>2. UNCHANGED << manner, kept, filter, items, settings, edited, shownFor, pending, started >>
    BY <1>1 DEF Center!NoticeArrives
  <2>3. NTypes'
    BY <2>1, <2>2 DEF NTypes
  <2>4. \A y \in Notices : notice[y] # "absent" => notice'[y] = notice[y]
    BY <2>1 DEF NTypes
  <2>5. \A p \in pending : p.items \subseteq Listed
    BY DEF NTypes, Fetches
  <2>6. ASSUME NEW l \in SUBSET Listed, Truly(l)
        PROVE  \A i \in l : notice'[i.n] = i.status
    BY <2>4, <2>6 DEF Truly, Listed
  <2>7. \A i \in items : notice[i.n] = "read" => notice'[i.n] = "read"
    BY <2>4 DEF NTypes, Listed
  <2>8. Waiting => Waiting'
    BY <2>2, <2>5, <2>6, <2>7 DEF Waiting, Truly, NTypes
  <2>9. Fetching => Fetching'
    BY <2>2 DEF Fetching
  <2> QED
    BY <2>2, <2>3, <2>8, <2>9
<1>2. ASSUME NEW p \in pending, Center!ServeCenter(p)
      PROVE  NInv'
  <2>1. /\ ~p.done /\ p \in Fetches
        /\ UNCHANGED << manner, filter, items, settings, edited, shownFor, started >>
    BY <1>2 DEF Center!ServeCenter, NTypes
  <2>2. ASSUME NEW q \in Fetches, pending' = (pending \ {p}) \cup {q},
               q.kind = p.kind, q.filter = p.filter, q.kind = "save" => q.value = p.value
        PROVE  /\ pending' \subseteq Fetches
               /\ \A r \in pending' : r.kind = "save" => r.value # "unknown"
               /\ Fetching => Fetching'
               /\ Waiting => pending' = {q} /\ pending = {p}
    BY <2>1, <2>2 DEF NTypes, Fetching, Waiting
  <2>3. CASE /\ p.kind = "load" /\ UNCHANGED << notice, kept >>
             /\ pending' = (pending \ {p}) \cup
                  {[p EXCEPT !.done = TRUE, !.items = Center!Matching(p.filter), !.value = kept]}
    <3>1. PICK q : q = [p EXCEPT !.done = TRUE, !.items = Center!Matching(p.filter), !.value = kept]
      OBVIOUS
    <3>2. Center!Matching(p.filter) \subseteq Listed /\ Truly(Center!Matching(p.filter))
      BY DEF Center!Matching, Listed, NTypes, Truly
    <3>3. /\ q \in Fetches /\ q.kind = "load" /\ q.filter = p.filter /\ q.done = TRUE
          /\ q.value = kept /\ Truly(q.items)
      BY <2>1, <2>3, <3>1, <3>2 DEF Fetches, NTypes
    <3>4. NTypes' /\ (Fetching => Fetching') /\ (Waiting => pending' = {q} /\ pending = {p})
      BY <2>1, <2>2, <2>3, <3>1, <3>3 DEF NTypes
    <3>5. Waiting => Waiting'
      BY <2>1, <2>3, <3>3, <3>4 DEF Waiting, Truly
    <3> QED
      BY <2>1, <3>4, <3>5
  <2>4. CASE /\ p.kind = "markAll" /\ notice' = Center!AllRead /\ kept' = kept
             /\ pending' = (pending \ {p}) \cup {[p EXCEPT !.done = TRUE]}
    <3>1. PICK q : q = [p EXCEPT !.done = TRUE]
      OBVIOUS
    <3>2. q \in Fetches /\ q.kind = "markAll" /\ q.filter = p.filter /\ q.done = TRUE
      BY <2>1, <2>4, <3>1 DEF Fetches
    <3>3. /\ notice' \in [Notices -> {"absent", "unread", "read"}]
          /\ \A x \in Notices : notice[x] \in {"unread", "read"} => notice'[x] = "read"
      BY <2>4 DEF Center!AllRead, NTypes
    <3>4. NTypes' /\ (Fetching => Fetching') /\ (Waiting => pending' = {q} /\ pending = {p})
      BY <2>1, <2>2, <2>4, <3>1, <3>2, <3>3 DEF NTypes
    <3>5. Waiting => Truly(items)
      BY <2>1, <3>4 DEF Waiting
    <3>6. Truly(items) => \A i \in items : notice'[i.n] = "read"
      BY <3>3 DEF Truly, NTypes, Listed
    <3>7. Waiting => Waiting'
      BY <2>1, <2>4, <3>2, <3>4, <3>5, <3>6 DEF Waiting
    <3> QED
      BY <2>1, <3>4, <3>7
  <2>5. CASE /\ p.kind = "save" /\ kept' = p.value /\ notice' = notice
             /\ pending' = (pending \ {p}) \cup {[p EXCEPT !.done = TRUE]}
    <3>1. PICK q : q = [p EXCEPT !.done = TRUE]
      OBVIOUS
    <3>2. q \in Fetches /\ q.kind = "save" /\ q.filter = p.filter /\ q.done = TRUE
          /\ q.value = p.value
      BY <2>1, <2>5, <3>1 DEF Fetches
    <3>5. kept' \in {"on", "off"}
      BY <2>1, <2>5 DEF NTypes, Fetches
    <3>3. NTypes' /\ (Fetching => Fetching') /\ (Waiting => pending' = {q} /\ pending = {p})
      BY <2>1, <2>2, <2>5, <3>1, <3>2, <3>5 DEF NTypes
    <3>4. Waiting => Waiting'
      BY <2>1, <2>5, <3>2, <3>3 DEF Waiting, Truly
    <3> QED
      BY <2>1, <3>3, <3>4
  <2> QED
    BY <1>2, <2>3, <2>4, <2>5 DEF Center!ServeCenter
<1>3. ASSUME NEW p \in pending, Center!RequestFails(p)
      PROVE  NInv'
  BY <1>3 DEF Center!RequestFails, NTypes
<1> QED
  BY <1>1, <1>2, <1>3

LEMMA AnswerComesToCenter ==
  ASSUME NInv, NEW p \in pending,
         Center!ReceiveLoad(p) \/ Center!ReceiveMarked(p) \/ Center!ReceiveSettings(p)
  PROVE  NInv'
<1> USE DEF NInv
<1>1. /\ p \in Fetches /\ p.done /\ pending' = pending \ {p} /\ UNCHANGED << manner, notice, kept, filter, started >>
      /\ Waiting => pending' = {} /\ pending = {p}
  BY DEF NTypes, Center!ReceiveLoad, Center!ReceiveMarked, Center!ReceiveSettings, Waiting
<1>2. CASE Center!ReceiveLoad(p)
  <2>1. p.kind = "load" /\ items' = p.items /\ shownFor' = p.filter /\ settings' = p.value /\ edited' = FALSE
    BY <1>2 DEF Center!ReceiveLoad
  <2>2. NTypes'
    BY <1>1, <2>1 DEF NTypes, Fetches
  <2>3. Fetching => Fetching'
    BY <1>1, <2>1 DEF Fetching
  <2>4. Waiting => Waiting'
    BY <1>1, <2>1 DEF Waiting, Truly
  <2> QED
    BY <1>1, <2>2, <2>3, <2>4
<1>3. CASE Center!ReceiveMarked(p)
  <2>1. /\ p.kind = "markAll" /\ items' = { [i EXCEPT !.status = "read"] : i \in items }
        /\ UNCHANGED << settings, edited, shownFor >>
    BY <1>3 DEF Center!ReceiveMarked
  <2>2. items' \subseteq Listed
    BY <2>1 DEF NTypes, Listed
  <2>3. NTypes'
    BY <1>1, <2>1, <2>2 DEF NTypes
  <2>4. Fetching => Fetching'
    BY <1>1, <2>1 DEF Fetching
  <2>5. (\A i \in items : notice[i.n] = "read") => Truly(items')
    BY <2>1 DEF Truly, NTypes, Listed
  <2>6. Waiting => Waiting'
    BY <1>1, <2>1, <2>5 DEF Waiting, Truly
  <2> QED
    BY <1>1, <2>3, <2>4, <2>6
<1>4. CASE Center!ReceiveSettings(p)
  <2>1. /\ p.kind = "save" /\ settings' = p.value /\ edited' = FALSE /\ UNCHANGED << items, shownFor >>
    BY <1>4 DEF Center!ReceiveSettings
  <2>2. NTypes'
    BY <1>1, <2>1 DEF NTypes, Fetches
  <2>3. Fetching => Fetching'
    BY <1>1, <2>1 DEF Fetching
  <2>4. Waiting => Waiting'
    BY <1>1, <2>1 DEF Waiting, Truly
  <2> QED
    BY <1>1, <2>2, <2>3, <2>4
<1> QED
  BY <1>2, <1>3, <1>4

LEMMA CenterStep ==
  ASSUME NInv, [Center!CenterNext]_centerVars
  PROVE  NInv'
<1>1. CASE UNCHANGED centerVars
  BY <1>1 DEF centerVars, NInv, NTypes, Fetching, Waiting, Truly
<1>2. CASE Center!CenterNext
  BY <1>2, UserActsOnCenter, ApiActsOnCenter, AnswerComesToCenter DEF Center!CenterNext
<1> QED
  BY <1>1, <1>2

LEMMA CenterKeeps ==
  ASSUME NInv
  PROVE  Center!CenterIsCurrent
BY DEF NInv, Fetching, Waiting, Truly, Center!CenterIsCurrent

-----------------------------------------------------------------------------
(* The wishlist.                                                            *)

(***************************************************************************)
(* With no failed call the page and the API differ about an item only      *)
(* while its answer is on its way, and one save of an item is under way:   *)
(* on the button there is one at all (Saving).                             *)
(***************************************************************************)
Saving ==
  /\ \A s, t \in saves : s.drop = t.drop => s = t
  /\ place.page = "button" => /\ \A s, t \in saves : s = t
                              /\ savingDropId = "none" => saves = {}
Agreed ==
  /\ \A s \in saves : s.done => s.reply = item[s.drop]
  /\ \A d \in Drops : (\A s \in saves : s.drop = d => ~s.done) => shown[d] = item[d]
WTypes ==
  /\ item = [d \in Drops |-> item[d]] /\ shown = [d \in Drops |-> shown[d]]
  /\ \A s \in saves :
       s \in [n : {s.n}, drop : Drops, fields : {s.fields}, done : BOOLEAN, reply : {s.reply}]
WInv ==
  /\ WTypes
  /\ (place.page = "button" \/ place.patient) /\ ~place.faults => Saving /\ Agreed

LEMMA WishlistStarts ==
  ASSUME Wishes!WishlistInit
  PROVE  WInv
BY DEF Wishes!WishlistInit, WInv, WTypes, Saving, Agreed

LEMMA SaveStarts ==
  ASSUME WInv, NEW d \in Drops, NEW fields, Wishes!Save(d, fields),
         place.page = "button" => savingDropId = "none"
  PROVE  WInv'
<1> DEFINE q == [n |-> count, drop |-> d, fields |-> fields, done |-> FALSE, reply |-> Wishes!NoItem]
<1>1. /\ saves' = saves \cup {q} /\ savingDropId' = d /\ UNCHANGED << place, item, shown >>
      /\ place.patient => \A s \in saves : s.drop # d
  BY DEF Wishes!Save
<1>2. /\ q.drop = d /\ q.done = FALSE
      /\ q \in [n : {q.n}, drop : Drops, fields : {q.fields}, done : BOOLEAN, reply : {q.reply}]
  OBVIOUS
<1> HIDE DEF q
<1>3. d # "none"
  BY NoDropAssumption
<1>4. ASSUME place.page = "button" \/ place.patient, Saving  PROVE Saving'
  <2>1. place.page = "button" => saves = {}
    BY <1>4 DEF Saving
  <2>2. \A s \in saves : s.drop # d
    BY <1>1, <1>4, <2>1
  <2> QED
    BY <1>1, <1>2, <1>3, <1>4, <2>1, <2>2 DEF Saving
<1>5. Agreed => Agreed'
  BY <1>1, <1>2 DEF Agreed
<1>6. WTypes'
  BY <1>1, <1>2 DEF WInv, WTypes
<1> QED
  BY <1>1, <1>4, <1>5, <1>6 DEF WInv

\* A save that is answered, field by field.
LEMMA AnsweredSave ==
  ASSUME NEW n, NEW fields, NEW reply, NEW answer, NEW r, NEW q,
         r \in [n : {n}, drop : Drops, fields : {fields}, done : BOOLEAN, reply : {reply}],
         q = [r EXCEPT !.done = TRUE, !.reply = answer]
  PROVE  /\ q \in [n : {n}, drop : Drops, fields : {fields}, done : BOOLEAN, reply : {answer}]
         /\ q.n = n /\ q.drop = r.drop /\ q.fields = fields /\ q.done = TRUE /\ q.reply = answer
OBVIOUS

LEMMA SaveIsServed ==
  ASSUME WInv, NEW s \in saves, Wishes!ServeSave(s)
  PROVE  WInv'
<1>1. PICK i : item' = [item EXCEPT ![s.drop] = i]
  BY DEF Wishes!ServeSave
<1> DEFINE answer == item'[s.drop]
           q == [s EXCEPT !.done = TRUE, !.reply = answer]
<1>2. saves' = (saves \ {s}) \cup {q} /\ UNCHANGED << place, shown, savingDropId >> /\ ~s.done
  BY DEF Wishes!ServeSave
<1>3. /\ s.drop \in Drops /\ item' = [d \in Drops |-> item'[d]]
      /\ \A d \in Drops \ {s.drop} : item'[d] = item[d]
  BY <1>1 DEF WInv, WTypes
<1>4. /\ q.drop = s.drop /\ q.done = TRUE /\ q.reply = item'[s.drop]
      /\ q \in [n : {q.n}, drop : Drops, fields : {q.fields}, done : BOOLEAN, reply : {q.reply}]
  <2>1. s \in [n : {s.n}, drop : Drops, fields : {s.fields}, done : BOOLEAN, reply : {s.reply}]
    BY DEF WInv, WTypes
  <2>2. PICK a : a = answer
    OBVIOUS
  <2>3. PICK t : t = [s EXCEPT !.done = TRUE, !.reply = a]
    OBVIOUS
  <2>4. /\ t \in [n : {s.n}, drop : Drops, fields : {s.fields}, done : BOOLEAN, reply : {a}]
        /\ t.n = s.n /\ t.drop = s.drop /\ t.fields = s.fields /\ t.done = TRUE /\ t.reply = a
    BY <2>1, <2>3, AnsweredSave
  <2>5. t = q
    BY <2>2, <2>3
  <2> HIDE DEF q, answer
  <2>6. a = item'[s.drop]
    BY <2>2 DEF answer
  <2> QED
    BY <2>4, <2>5, <2>6
<1> HIDE DEF q
<1>5. Saving => Saving'
  BY <1>2, <1>4 DEF Saving
<1>6. ASSUME Saving, Agreed  PROVE Agreed'
  <2>1. \A t \in saves : t # s => t.drop # s.drop
    BY <1>6 DEF Saving
  <2>2. ASSUME NEW t \in saves', t.done  PROVE t.reply = item'[t.drop]
    BY <1>2, <1>3, <1>4, <1>6, <2>1, <2>2 DEF Agreed, WInv, WTypes
  <2>3. ASSUME NEW d \in Drops, \A t \in saves' : t.drop = d => ~t.done
        PROVE  shown'[d] = item'[d]
    <3>1. d # s.drop
      BY <1>2, <1>4, <2>3
    <3>2. \A t \in saves : t.drop = d => ~t.done
      BY <1>2, <2>3, <3>1
    <3> QED
      BY <1>2, <1>3, <1>6, <3>1, <3>2 DEF Agreed
  <2> QED
    BY <2>2, <2>3 DEF Agreed
<1>7. WTypes'
  BY <1>2, <1>3, <1>4 DEF WInv, WTypes
<1> QED
  BY <1>2, <1>5, <1>6, <1>7 DEF WInv

LEMMA SaveIsAnswered ==
  ASSUME WInv, NEW s \in saves, Wishes!ReceiveSave(s)
  PROVE  WInv'
<1>1. /\ s.done /\ shown' = [shown EXCEPT ![s.drop] = s.reply] /\ savingDropId' = "none"
      /\ saves' = saves \ {s} /\ UNCHANGED << place, item >>
  BY DEF Wishes!ReceiveSave, Wishes!ShowAnswer, Wishes!NoDrop
<1>2. /\ s.drop \in Drops /\ shown' = [d \in Drops |-> shown'[d]] /\ shown'[s.drop] = s.reply
      /\ \A d \in Drops \ {s.drop} : shown'[d] = shown[d]
  BY <1>1 DEF WInv, WTypes
<1>3. Saving => Saving'
  BY <1>1 DEF Saving
<1>4. ASSUME Saving, Agreed  PROVE Agreed'
  <2>1. ASSUME NEW d \in Drops, \A t \in saves' : t.drop = d => ~t.done
        PROVE  shown'[d] = item'[d]
    <3>1. CASE d = s.drop
      BY <1>1, <1>2, <1>4, <3>1 DEF Agreed
    <3>2. CASE d # s.drop
      BY <1>1, <1>2, <1>4, <2>1, <3>2 DEF Agreed
    <3> QED
      BY <3>1, <3>2
  <2> QED
    BY <1>1, <1>4, <2>1 DEF Agreed
<1>5. WTypes'
  BY <1>1, <1>2 DEF WInv, WTypes
<1> QED
  BY <1>1, <1>3, <1>4, <1>5 DEF WInv

LEMMA WishlistStep ==
  ASSUME WInv, [Wishes!WishlistNext]_wishlistVars
  PROVE  WInv'
<1>1. CASE Wishes!saveItem
  BY <1>1, SaveStarts DEF Wishes!saveItem
<1>2. CASE Wishes!handleToggle
  BY <1>2, SaveStarts DEF Wishes!handleToggle, Wishes!NoDrop
<1>3. ASSUME NEW s \in saves, Wishes!SaveFails(s)
      PROVE  WInv'
  BY <1>3 DEF Wishes!SaveFails, WInv, WTypes
<1>4. CASE UNCHANGED wishlistVars
  BY <1>4 DEF wishlistVars, WInv, WTypes, Saving, Agreed
<1> QED
  BY <1>1, <1>2, <1>3, <1>4, SaveIsServed, SaveIsAnswered DEF Wishes!WishlistNext

LEMMA WishlistKeeps ==
  ASSUME WInv
  PROVE  Wishes!WishlistIsCurrent
<1> SUFFICES ASSUME Agreed, saves = {}  PROVE shown = item
  BY DEF Wishes!WishlistIsCurrent, WInv
<1>1. \A d \in Drops : shown[d] = item[d]
  BY DEF Agreed
<1>2. /\ item = [d \in Drops |-> item[d]] /\ shown = [d \in Drops |-> shown[d]]
  BY DEF WInv, WTypes
<1>3. [d \in Drops |-> item[d]] = [d \in Drops |-> shown[d]]
  BY <1>1
<1> QED
  BY <1>2, <1>3

-----------------------------------------------------------------------------
(* The designer's forms and list.                                           *)

Stages == {"design_original", "design_preview", "mockup"}
Categories == Stages \cup {"designer_application_file"}
Statuses == {"absent", "draft", "submitted", "resubmitted", "approved", "rejected", "needs_changes"}
Stored == [status : Statuses, files : SUBSET Portfolio]
Subjects == Designs \cup {NoDesign}
Chains ==
  [ at : Stages \cup {"idle", "create", "apply"}, of : Subjects,
    chosen : SUBSET Portfolio, ids : SUBSET Portfolio, submit : BOOLEAN ]
Calls == [kind : {"load", "submit"}, of : Subjects, done : BOOLEAN, reply : [Designs -> Stored]]

DTypes ==
  /\ mood \in [ page : {"application", "form", "list"}, patient : BOOLEAN, faults : BOOLEAN,
                others : BOOLEAN, slug : BOOLEAN ]
  /\ design \in [Designs -> Stored] /\ designs \in [Designs -> Stored] /\ application \in Stored
  /\ page \in {"application", "form", "list"} /\ chain \in Chains
  /\ uploads \subseteq [of : Subjects, file : Portfolio]
  /\ calls \subseteq Calls /\ submitted \subseteq [of : Subjects, chosen : SUBSET Portfolio]
  /\ \A c \in calls : c.kind = "submit" => c.of \in Designs

(***************************************************************************)
(* A chain is about the design it created and uploads the files chosen for *)
(* it; what is uploaded is for a design that exists and of a type that its *)
(* input accepts; only the application uploads for none.                   *)
(***************************************************************************)
Chosen(category) == chain.chosen \cap Designer!Of(category)
OfForm == UNION { Designer!Of(c) : c \in Stages }
OnApplication ==
  IF page = "application"
  THEN /\ chain.at \in {"idle", "apply"} /\ chain.chosen \subseteq Designer!Of("designer_application_file")
       /\ \A u \in uploads : u.of = NoDesign /\ u.file \in Designer!Of("designer_application_file")
  ELSE /\ chain.at # "apply" /\ chain.chosen \subseteq OfForm
       /\ \A u \in uploads : u.of # NoDesign /\ u.file \in OfForm
OfDesigns ==
  /\ \A d \in Designs : design[d].status = "absent" => design[d] = Designer!NoUpload
  /\ IF chain.at \in Stages THEN chain.of \in Designs /\ design[chain.of].status # "absent"
     ELSE chain.of = NoDesign
  /\ \A u \in uploads : u.of # NoDesign => design[u.of].status # "absent"
  /\ \A u \in uploads : u.of = chain.of => u.file \in chain.chosen

\* The files whose upload was started have arrived or are on their way.
Coming(category) ==
  \A f \in Chosen(category) :
    f \in design[chain.of].files \/ [of |-> chain.of, file |-> f] \in uploads
AllComing ==
  /\ chain.at \in Stages => Coming("design_original")
  /\ chain.at \in {"design_preview", "mockup"} => Coming("design_preview")
  /\ chain.at = "mockup" => Coming("mockup")
  /\ chain.at = "apply" =>
       \A f \in chain.chosen : f \in chain.ids \/ [of |-> NoDesign, file |-> f] \in uploads

(***************************************************************************)
(* A designer alone who waits for each form, with no failed call: the form *)
(* stays until its chain ends, its draft is as it was created, and the     *)
(* list is changed by one request at a time.                               *)
(***************************************************************************)
Alone == mood.patient /\ ~mood.faults /\ ~mood.others
OneForm ==
  /\ chain.at # "idle" => page # "list" /\ told = {}
  /\ page = "list" \/ chain.at = "create" => uploads = {}
  /\ chain.at \in Stages =>
       /\ \A u \in uploads : u.of = chain.of
       /\ design[chain.of].status = "draft"
Differ(d) == \A e \in Designs \ {d} : designs[e] = design[e]
ListKept ==
  /\ page # "list" => calls = {}
  /\ \A b, c \in calls : b = c
  /\ page = "list" /\ (\A c \in calls : c.kind = "submit" /\ ~c.done) => designs = design
  /\ \A c \in calls :
       /\ c.kind = "submit" => IF c.done THEN Differ(c.of)
                               ELSE design[c.of].status \in Designer!ResubmittableStatuses
       /\ c.done => c.reply = design

DInv ==
  /\ DTypes /\ OnApplication /\ OfDesigns /\ AllComing /\ Designer!SubmittedInFull
  /\ Alone => OneForm /\ ListKept /\ Designer!NoSurprise

\* How a step changes the designs: files are added, and none goes away.
Gained ==
  /\ design' \in [Designs -> Stored]
  /\ \A d \in Designs : /\ design[d].files \subseteq design'[d].files
                        /\ design'[d].status = "absent" => design'[d] = design[d]
OnlyThat(d, status, files) ==
  /\ design' \in [Designs -> Stored]
  /\ design'[d].status = status /\ design'[d].files = files
  /\ \A e \in Designs \ {d} : design'[e] = design[e]

LEMMA DraftIs ==
  ASSUME DInv, NEW d \in Designs, Designer!NewDraft(d)
  PROVE  OnlyThat(d, "draft", {}) /\ Gained /\ design[d].status = "absent"
<1>1. /\ design[d] = [status |-> "absent", files |-> {}]
      /\ design' = [design EXCEPT ![d] = [status |-> "draft", files |-> {}]]
  BY DEF Designer!NewDraft, Designer!NoUpload
<1>2. [status |-> "draft", files |-> {}] \in Stored /\ design \in [Designs -> Stored]
  BY DEF DInv, DTypes, Stored, Statuses
<1>3. OnlyThat(d, "draft", {}) /\ design[d].files = {} /\ design[d].status = "absent"
  BY <1>1, <1>2 DEF OnlyThat
<1> QED
  BY <1>3 DEF Gained, OnlyThat

LEMMA StatusIs ==
  ASSUME DInv, NEW d \in Designs, NEW s \in Statuses, design[d].status # "absent",
         design' = [design EXCEPT ![d].status = s], s # "absent"
  PROVE  OnlyThat(d, s, design[d].files) /\ Gained
<1>1. design \in [Designs -> Stored] /\ design[d] \in Stored
  BY DEF DInv, DTypes
<1>2. PICK x : x = [design[d] EXCEPT !.status = s]
  OBVIOUS
<1>3. x \in Stored /\ x.status = s /\ x.files = design[d].files
  BY <1>1, <1>2 DEF Stored
<1>4. design' = [design EXCEPT ![d] = x]
  BY <1>2
<1>5. OnlyThat(d, s, design[d].files)
  BY <1>1, <1>3, <1>4 DEF OnlyThat
<1> QED
  BY <1>5 DEF Gained, OnlyThat

LEMMA SubmitsIs ==
  ASSUME DInv, NEW d \in Designs, design[d].status \in Designer!ResubmittableStatuses,
         design' = Designer!Submits(d)
  PROVE  /\ Gained /\ design'[d].status # "absent"
         /\ \A e \in Designs \ {d} : design'[e] = design[e]
<1>1. PICK s : s = IF design[d].status = "draft" THEN "submitted" ELSE "resubmitted"
  OBVIOUS
<1>2. s \in Statuses /\ s # "absent" /\ design[d].status # "absent"
  BY <1>1 DEF Statuses, Designer!ResubmittableStatuses
<1>3. design' = [design EXCEPT ![d].status = s]
  BY <1>1 DEF Designer!Submits
<1> QED
  BY <1>2, <1>3, StatusIs DEF OnlyThat

LEMMA StoredIs ==
  ASSUME DInv, NEW d \in Designs, NEW f \in Portfolio, design[d].status # "absent",
         design' = [design EXCEPT ![d].files = @ \cup {f}]
  PROVE  OnlyThat(d, design[d].status, design[d].files \cup {f}) /\ Gained
<1>1. design \in [Designs -> Stored] /\ design[d] \in Stored
  BY DEF DInv, DTypes
<1>2. PICK g : g = design[d].files \cup {f}
  OBVIOUS
<1>3. PICK x : x = [design[d] EXCEPT !.files = g]
  OBVIOUS
<1>4. x \in Stored /\ x.status = design[d].status /\ x.files = g
  BY <1>1, <1>2, <1>3 DEF Stored
<1>5. design' = [design EXCEPT ![d] = x]
  BY <1>2, <1>3
<1>6. OnlyThat(d, design[d].status, g)
  BY <1>1, <1>4, <1>5 DEF OnlyThat
<1>7. OnlyThat(d, design[d].status, design[d].files \cup {f})
  BY <1>2, <1>6
<1> QED
  BY <1>7 DEF Gained, OnlyThat

\* What a stopped form, and the next stage of one, keep.
LEMMA StopIs ==
  ASSUME DInv, Designer!Stop
  PROVE  /\ chain' \in Chains /\ chain'.at = "idle" /\ chain'.of = NoDesign
         /\ chain'.chosen = chain.chosen /\ told' = {"error"}
<1>1. PICK g : g = chain.chosen
  OBVIOUS
<1>2. g \in SUBSET Portfolio
  BY <1>1 DEF DInv, DTypes, Chains
<1>3. PICK u : u = [at |-> "idle", of |-> NoDesign, chosen |-> {}, ids |-> {}, submit |-> FALSE]
  OBVIOUS
<1>4. chain' = [u EXCEPT !.chosen = g] /\ told' = {"error"}
  BY <1>1, <1>3 DEF Designer!Stop, Designer!Undone
<1>5. u \in Chains /\ u.at = "idle" /\ u.of = NoDesign
  BY <1>3 DEF Chains, Subjects
<1> QED
  BY <1>1, <1>2, <1>4, <1>5 DEF Chains

LEMMA StageIs ==
  ASSUME DInv, NEW at \in Stages, NEW of \in Designs, NEW category, Designer!Stage(at, of, category)
  PROVE  /\ chain' \in Chains /\ chain'.at = at /\ chain'.of = of
         /\ chain'.chosen = chain.chosen /\ chain'.ids = chain.ids /\ chain'.submit = chain.submit
         /\ uploads' \subseteq [of : Subjects, file : Portfolio]
         /\ uploads \subseteq uploads'
         /\ \A f \in Chosen(category) : [of |-> of, file |-> f] \in uploads'
         /\ \A u \in uploads' \ uploads : u.of = of /\ u.file \in Chosen(category)
<1>1. chain \in Chains /\ uploads \subseteq [of : Subjects, file : Portfolio]
  BY DEF DInv, DTypes
<1>2. /\ chain' = [chain EXCEPT !.at = at, !.of = of]
      /\ uploads' = uploads \cup { [of |-> of, file |-> f] : f \in Chosen(category) }
  BY DEF Designer!Stage, Chosen
<1>3. Chosen(category) \subseteq Portfolio
  BY <1>1 DEF Chosen, Chains
<1>4. /\ chain' \in Chains /\ chain'.at = at /\ chain'.of = of
      /\ chain'.chosen = chain.chosen /\ chain'.ids = chain.ids /\ chain'.submit = chain.submit
  BY <1>1, <1>2 DEF Chains, Subjects
<1> QED
  BY <1>1, <1>2, <1>3, <1>4 DEF Subjects

\* What only adds files to designs and leaves the form alone, or only stops it.
LEMMA GainKeeps ==
  ASSUME DInv, Gained, UNCHANGED << chain, uploads, application, submitted >>,
         (page' = "application") <=> (page = "application")
  PROVE  OnApplication' /\ OfDesigns' /\ AllComing' /\ Designer!SubmittedInFull'
<1>1. OnApplication'
  BY DEF DInv, OnApplication
<1>2. \A d \in Designs : design'[d].status = "absent" => design'[d] = design[d]
  BY DEF Gained
<1>3. uploads \subseteq [of : Subjects, file : Portfolio] /\ chain \in Chains
  BY DEF DInv, DTypes
<1>4. OfDesigns'
  BY <1>2, <1>3 DEF DInv, OfDesigns, Subjects, Designer!NoUpload
<1>5. AllComing'
  <2>1. chain.at \in Stages => chain.of \in Designs
    BY DEF DInv, OfDesigns
  <2>2. ASSUME NEW c, Coming(c), chain.at \in Stages  PROVE Coming(c)'
    BY <2>1, <2>2 DEF Coming, Chosen, Gained
  <2> QED
    BY <2>2 DEF DInv, AllComing, Stages
<1>6. Designer!SubmittedInFull'
  <2>1. SUFFICES ASSUME NEW s \in submitted
                 PROVE  s.chosen \subseteq IF s.of = NoDesign THEN application.files ELSE design'[s.of].files
    BY DEF Designer!SubmittedInFull
  <2> QED
    BY <2>1 DEF DInv, DTypes, Subjects, Designer!SubmittedInFull, Gained
<1> QED
  BY <1>1, <1>4, <1>5, <1>6

LEMMA StopKeeps ==
  ASSUME DInv, Gained, Designer!Stop, uploads' \subseteq uploads,
         UNCHANGED << page, submitted >>, application' = application \/ application = Designer!NoUpload
  PROVE  OnApplication' /\ OfDesigns' /\ AllComing' /\ Designer!SubmittedInFull'
<1>1. /\ chain' \in Chains /\ chain'.at = "idle" /\ chain'.of = NoDesign
      /\ chain'.chosen = chain.chosen
  BY StopIs
<1>2. OnApplication'
  BY <1>1 DEF DInv, OnApplication
<1>3. uploads \subseteq [of : Subjects, file : Portfolio] /\ chain \in Chains
  BY DEF DInv, DTypes
<1>4. ASSUME NEW u \in uploads', u.of = NoDesign  PROVE u.file \in chain.chosen
  <2>1. page = "application" /\ chain.at \notin Stages
    BY <1>4 DEF DInv, OnApplication, Stages
  <2> QED
    BY <1>4, <2>1 DEF DInv, OfDesigns
<1>5. OfDesigns'
  <2>1. \A d \in Designs : design'[d].status = "absent" => design'[d] = design[d]
    BY DEF Gained
  <2>2. \A u \in uploads' : u.of # NoDesign => design'[u.of].status # "absent"
    BY <1>3, <2>1 DEF DInv, OfDesigns, Subjects
  <2> QED
    BY <1>1, <1>4, <2>1, <2>2 DEF DInv, OfDesigns, Designer!NoUpload, Stages
<1>6. AllComing'
  BY <1>1 DEF AllComing, Stages
<1>7. Designer!SubmittedInFull'
  <2>1. SUFFICES ASSUME NEW s \in submitted
                 PROVE  s.chosen \subseteq IF s.of = NoDesign THEN application'.files ELSE design'[s.of].files
    BY DEF Designer!SubmittedInFull
  <2>2. /\ s.chosen \subseteq IF s.of = NoDesign THEN application.files ELSE design[s.of].files
        /\ s.of = NoDesign \/ s.of \in Designs
    BY <2>1 DEF DInv, DTypes, Subjects, Designer!SubmittedInFull
  <2>3. CASE s.of = NoDesign
    BY <2>2, <2>3 DEF Designer!NoUpload
  <2>4. CASE s.of # NoDesign
    BY <2>2, <2>4 DEF Gained
  <2> QED
    BY <2>3, <2>4
<1> QED
  BY <1>2, <1>5, <1>6, <1>7

\* An error that was explained stays explained.
LEMMA StillNoSurprise ==
  ASSUME DInv, Gained, mood' = mood, Designer!NoSurprise,
         chain'.chosen = chain.chosen, application' = application \/ application' # Designer!NoUpload,
         told' = told
  PROVE  Designer!NoSurprise'
<1>1. ASSUME Designer!SlugTaken  PROVE Designer!SlugTaken'
  <2>1. PICK d \in Designs : design[d] # Designer!NoUpload
    BY <1>1 DEF Designer!SlugTaken
  <2>2. design'[d] # Designer!NoUpload
    <3>1. CASE design'[d].status = "absent"
      BY <2>1, <3>1 DEF Gained
    <3>2. CASE design'[d].status # "absent"
      BY <3>2 DEF Designer!NoUpload
    <3> QED
      BY <3>1, <3>2
  <2> QED
    BY <1>1, <2>2 DEF Designer!SlugTaken
<1> QED
  BY <1>1 DEF Designer!NoSurprise

LEMMA DesignerStarts ==
  ASSUME Designer!DesignerInit
  PROVE  DInv
<1>1. Designer!NoUpload \in Stored /\ Designer!Undone \in Chains
  BY DEF Designer!NoUpload, Designer!Undone, Stored, Statuses, Chains, Subjects
<1>2. mood \in [ page : {"application", "form", "list"}, patient : BOOLEAN, faults : BOOLEAN,
                 others : BOOLEAN, slug : BOOLEAN ]
  BY DesignersAssumption DEF Designer!DesignerInit
<1>3. /\ design = [d \in Designs |-> Designer!NoUpload] /\ designs = design
      /\ application = Designer!NoUpload /\ chain = Designer!Undone /\ page = mood.page
      /\ uploads = {} /\ told = {} /\ submitted = {}
  BY DEF Designer!DesignerInit
<1>4. design \in [Designs -> Stored] /\ designs \in [Designs -> Stored]
  BY <1>1, <1>3
<1>5. PICK q : q = [kind |-> "load", of |-> NoDesign, done |-> FALSE, reply |-> design]
  OBVIOUS
<1>6. /\ q \in Calls /\ q.kind = "load" /\ q.done = FALSE
      /\ calls = IF page = "list" THEN {q} ELSE {}
  BY <1>4, <1>5 DEF Calls, Subjects, Designer!DesignerInit
<1>7. DTypes
  BY <1>1, <1>2, <1>3, <1>4, <1>6 DEF DTypes
<1>8. chain.at = "idle" /\ chain.of = NoDesign /\ chain.chosen = {}
  BY <1>3 DEF Designer!Undone
<1>9. OnApplication /\ OfDesigns /\ AllComing /\ Designer!SubmittedInFull /\ OneForm
  BY <1>3, <1>8 DEF OnApplication, OfDesigns, AllComing, Designer!SubmittedInFull, Stages, OneForm
<1>10. ListKept /\ Designer!NoSurprise
  BY <1>3, <1>6 DEF ListKept, Designer!NoSurprise
<1> QED
  BY <1>7, <1>9, <1>10 DEF DInv

\* A list that is opened is loaded.
LEMMA OpenListIs ==
  ASSUME DInv, Designer!OpenList
  PROVE  /\ page' = "list" /\ designs' \in [Designs -> Stored] /\ calls' \subseteq Calls
         /\ \A c \in calls' : c.kind = "submit" => c.of \in Designs
         /\ page = "list" => UNCHANGED << designs, calls >>
         /\ page # "list" => \E q \in calls' : calls' = {q} /\ q.kind = "load" /\ ~q.done
<1>1. design \in [Designs -> Stored] /\ Designer!NoUpload \in Stored
  BY DEF DInv, DTypes, Stored, Statuses, Designer!NoUpload
<1>2. CASE page = "list"
  BY <1>2 DEF Designer!OpenList, Designer!onList, DInv, DTypes
<1>3. CASE page # "list"
  <2>1. PICK q : q = [kind |-> "load", of |-> NoDesign, done |-> FALSE, reply |-> design]
    OBVIOUS
  <2>2. q \in Calls /\ q.kind = "load" /\ ~q.done
    BY <1>1, <2>1 DEF Calls, Subjects
  <2>3. page' = "list" /\ designs' = [d \in Designs |-> Designer!NoUpload] /\ calls' = {q}
    BY <1>3, <2>1 DEF Designer!OpenList
  <2> QED
    BY <1>1, <1>3, <2>2, <2>3
<1> QED
  BY <1>2, <1>3

LEMMA ListIsOpened ==
  ASSUME DInv, Designer!LeaveForm \/ Designer!NewDesign
  PROVE  DInv'
<1>1. /\ UNCHANGED << mood, design, application, chain, uploads, submitted >>
      /\ (page' = "application") <=> (page = "application")
  BY DEF Designer!LeaveForm, Designer!NewDesign, Designer!OpenList, Designer!api
<1>2. Gained
  BY <1>1 DEF Gained, DInv, DTypes
<1>3. OnApplication' /\ OfDesigns' /\ AllComing' /\ Designer!SubmittedInFull'
  BY <1>1, <1>2, GainKeeps
<1>4. CASE Designer!LeaveForm
  <2>1. page = "form" /\ Designer!OpenList /\ told' = told
        /\ (mood.patient => chain.at = "idle" /\ uploads = {})
    BY <1>4 DEF Designer!LeaveForm
  <2>2. DTypes'
    BY <1>1, <2>1, OpenListIs DEF DInv, DTypes
  <2>3. PICK q \in calls' : calls' = {q} /\ q.kind = "load" /\ ~q.done
    BY <2>1, OpenListIs
  <2>4. ASSUME Alone'  PROVE OneForm' /\ ListKept' /\ Designer!NoSurprise'
    <3>1. Alone /\ chain.at = "idle" /\ uploads = {} /\ Designer!NoSurprise
      BY <1>1, <2>1, <2>4 DEF Alone, DInv
    <3>2. OneForm'
      BY <1>1, <2>1, <3>1 DEF OneForm, Stages
    <3>3. ListKept'
      BY <2>1, <2>3, OpenListIs DEF ListKept
    <3> QED
      BY <1>1, <1>2, <2>1, <3>1, <3>2, <3>3, StillNoSurprise
  <2> QED
    BY <1>3, <2>2, <2>4 DEF DInv
<1>5. CASE Designer!NewDesign
  <2>1. /\ page = "list" /\ chain.at = "idle" /\ calls = {} /\ page' = "form" /\ told' = {}
        /\ UNCHANGED << designs, calls >>
    BY <1>5 DEF Designer!NewDesign, Designer!onList
  <2>2. DTypes'
    BY <1>1, <2>1 DEF DInv, DTypes
  <2>3. Alone' => OneForm' /\ ListKept' /\ Designer!NoSurprise'
    BY <1>1, <2>1 DEF DInv, Alone, OneForm, ListKept, Designer!NoSurprise, Stages
  <2> QED
    BY <1>3, <2>2, <2>3 DEF DInv
<1> QED
  BY <1>4, <1>5

LEMMA DesignIsSubmitted ==
  ASSUME DInv, Designer!handleSubmitDesign
  PROVE  DInv'
<1>1. /\ UNCHANGED << mood, design, application, page, chain, uploads, told, designs, submitted >>
      /\ page = "list" /\ (mood.patient => calls = {})
  BY DEF Designer!handleSubmitDesign, Designer!api
<1>2. PICK d \in Designs :
        /\ Designer!canSubmit(d)
        /\ calls' = calls \cup {[kind |-> "submit", of |-> d, done |-> FALSE, reply |-> designs]}
  BY DEF Designer!handleSubmitDesign
<1>3. PICK q : q = [kind |-> "submit", of |-> d, done |-> FALSE, reply |-> designs]
  OBVIOUS
<1>4. q \in Calls /\ q.kind = "submit" /\ ~q.done /\ q.of = d /\ calls' = calls \cup {q}
  BY <1>2, <1>3 DEF DInv, DTypes, Calls, Subjects
<1>5. Gained
  BY <1>1 DEF Gained, DInv, DTypes
<1>6. OnApplication' /\ OfDesigns' /\ AllComing' /\ Designer!SubmittedInFull'
  BY <1>1, <1>5, GainKeeps
<1>7. DTypes'
  BY <1>1, <1>4 DEF DInv, DTypes
<1>8. ASSUME Alone'  PROVE OneForm' /\ ListKept' /\ Designer!NoSurprise'
  <2>1. calls = {} /\ OneForm /\ ListKept /\ Designer!NoSurprise
    BY <1>1, <1>8 DEF Alone, DInv
  <2>2. designs = design
    BY <1>1, <2>1 DEF ListKept
  <2>3. OneForm' /\ Designer!NoSurprise'
    BY <1>1, <1>5, <2>1, StillNoSurprise DEF OneForm
  <2>4. ListKept'
    BY <1>1, <1>2, <1>4, <2>1, <2>2 DEF ListKept, Designer!canSubmit, Designer!ResubmittableStatuses
  <2> QED
    BY <2>3, <2>4
<1> QED
  BY <1>6, <1>7, <1>8 DEF DInv

LEMMA DesignIsReviewed ==
  ASSUME DInv, Designer!Review
  PROVE  DInv'
<1>1. /\ UNCHANGED << mood, application, page, chain, uploads, told, designs, calls, submitted >>
      /\ mood.others
  BY DEF Designer!Review, Designer!onList
<1>2. PICK d \in Designs, s \in {"approved", "rejected", "needs_changes"} :
        /\ design[d].status \in {"submitted", "resubmitted"}
        /\ design' = [design EXCEPT ![d].status = s]
  BY DEF Designer!Review
<1>3. s \in Statuses /\ s # "absent" /\ design[d].status # "absent"
  BY <1>2 DEF Statuses
<1>4. Gained
  BY <1>2, <1>3, StatusIs
<1>5. OnApplication' /\ OfDesigns' /\ AllComing' /\ Designer!SubmittedInFull'
  BY <1>1, <1>4, GainKeeps
<1>6. DTypes'
  BY <1>1, <1>4 DEF DInv, DTypes, Gained
<1> QED
  BY <1>1, <1>5, <1>6 DEF DInv, Alone

LEMMA CallIsServed ==
  ASSUME DInv, NEW c \in calls, Designer!ServeCall(c)
  PROVE  DInv'
<1>1. /\ UNCHANGED << mood, application, page, chain, uploads, told, designs, submitted >>
      /\ ~c.done /\ c \in Calls /\ design \in [Designs -> Stored]
  BY DEF Designer!ServeCall, DInv, DTypes
<1>2. PICK q : q = [c EXCEPT !.done = TRUE, !.reply = design']
  OBVIOUS
<1>3. calls' = (calls \ {c}) \cup {q}
  BY <1>2 DEF Designer!ServeCall, Designer!Answer
<1>4. /\ Gained
      /\ IF c.kind = "load" THEN design' = design
         ELSE /\ c.of \in Designs /\ \A e \in Designs \ {c.of} : design'[e] = design[e]
  <2>1. CASE c.kind = "load"
    BY <1>1, <2>1 DEF Gained, Designer!ServeCall
  <2>2. CASE c.kind # "load"
    <3>1. c.kind = "submit"
      BY <1>1, <2>2 DEF Calls
    <3>2. c.of \in Designs /\ design[c.of].status \in Designer!ResubmittableStatuses /\ design' = Designer!Submits(c.of)
      BY <2>2, <3>1 DEF Designer!ServeCall, DInv, DTypes
    <3> QED
      BY <2>2, <3>2, SubmitsIs
  <2> QED
    BY <2>1, <2>2
<1>5. q \in Calls /\ q.done = TRUE /\ q.reply = design' /\ q.kind = c.kind /\ q.of = c.of
  BY <1>1, <1>2, <1>4 DEF Calls, Gained
<1>6. OnApplication' /\ OfDesigns' /\ AllComing' /\ Designer!SubmittedInFull'
  BY <1>1, <1>4, GainKeeps
<1>7. DTypes'
  BY <1>1, <1>3, <1>4, <1>5 DEF DInv, DTypes, Gained
<1>8. ASSUME Alone'  PROVE OneForm' /\ ListKept' /\ Designer!NoSurprise'
  <2>1. OneForm /\ ListKept /\ Designer!NoSurprise
    BY <1>1, <1>8 DEF Alone, DInv
  <2>2. page = "list" /\ calls = {c} /\ calls' = {q}
    BY <1>3, <2>1 DEF ListKept
  <2>3. chain.at = "idle"
    BY <2>1, <2>2 DEF OneForm
  <2>4. OneForm' /\ Designer!NoSurprise'
    BY <1>1, <1>4, <2>1, <2>3, StillNoSurprise DEF OneForm, Stages
  <2>5. c.kind # "load" => designs = design
    BY <1>1, <2>1, <2>2 DEF ListKept, Calls
  <2>6. q.kind = "submit" => Differ(q.of)'
    BY <1>1, <1>4, <1>5, <2>5 DEF Differ
  <2>7. ListKept'
    BY <1>1, <1>5, <2>2, <2>6 DEF ListKept
  <2> QED
    BY <2>4, <2>7
<1> QED
  BY <1>6, <1>7, <1>8 DEF DInv

LEMMA CallIsAnswered ==
  ASSUME DInv, NEW c \in calls,
         Designer!ReceiveLoad(c) \/ Designer!ReceiveSubmitted(c) \/ Designer!CallRefused(c)
  PROVE  DInv'
<1>1. /\ UNCHANGED << mood, design, application, page, chain, uploads, submitted >>
      /\ calls' = calls \ {c} /\ c \in Calls /\ design \in [Designs -> Stored]
  BY DEF Designer!ReceiveLoad, Designer!ReceiveSubmitted, Designer!CallRefused, Designer!api, DInv, DTypes
<1>2. Gained
  BY <1>1 DEF Gained
<1>3. OnApplication' /\ OfDesigns' /\ AllComing' /\ Designer!SubmittedInFull'
  BY <1>1, <1>2, GainKeeps
<1>4. ASSUME Alone'
      PROVE  /\ OneForm /\ ListKept /\ Designer!NoSurprise
             /\ page = "list" /\ calls = {c} /\ calls' = {} /\ chain.at = "idle" /\ uploads = {}
  <2>1. OneForm /\ ListKept /\ Designer!NoSurprise
    BY <1>1, <1>4 DEF Alone, DInv
  <2> QED
    BY <1>1, <2>1 DEF ListKept, OneForm
<1>5. CASE Designer!ReceiveLoad(c)
  <2>1. designs' = c.reply /\ c.kind = "load" /\ c.done /\ told' = told
    BY <1>5 DEF Designer!ReceiveLoad
  <2>2. DTypes'
    BY <1>1, <2>1 DEF DInv, DTypes, Calls
  <2>3. ASSUME Alone'  PROVE OneForm' /\ ListKept' /\ Designer!NoSurprise'
    BY <1>1, <1>2, <1>4, <2>1, <2>3, StillNoSurprise DEF OneForm, ListKept, Stages
  <2> QED
    BY <1>3, <2>2, <2>3 DEF DInv
<1>6. CASE Designer!ReceiveSubmitted(c)
  <2>1. PICK x : x = c.reply[c.of]
    OBVIOUS
  <2>2. designs' = [designs EXCEPT ![c.of] = x] /\ c.kind = "submit" /\ c.done /\ told' = told
    BY <1>6, <2>1 DEF Designer!ReceiveSubmitted, Designer!ShowSubmitted
  <2>3. c.of \in Designs /\ designs \in [Designs -> Stored]
    BY <2>2 DEF DInv, DTypes
  <2>4. x \in Stored
    BY <1>1, <2>1, <2>3 DEF Calls
  <2>5. DTypes'
    BY <1>1, <2>2, <2>4 DEF DInv, DTypes
  <2>6. ASSUME Alone'  PROVE OneForm' /\ ListKept' /\ Designer!NoSurprise'
    <3>1. Differ(c.of) /\ c.reply = design
      BY <1>4, <2>2, <2>6 DEF ListKept
    <3>2. \A d \in Designs : designs'[d] = design[d]
      BY <2>1, <2>2, <2>3, <3>1 DEF Differ
    <3>3. designs' = design
      BY <1>1, <2>2, <2>3, <2>4, <3>2
    <3> QED
      BY <1>1, <1>2, <1>4, <2>2, <2>6, <3>3, StillNoSurprise DEF OneForm, ListKept, Stages
  <2> QED
    BY <1>3, <2>5, <2>6 DEF DInv
<1>7. CASE Designer!CallRefused(c)
  <2>1. /\ designs' = designs /\ ~c.done
        /\ mood.faults \/ (c.kind = "submit" /\ design[c.of].status \notin Designer!ResubmittableStatuses)
    BY <1>7 DEF Designer!CallRefused
  <2>2. DTypes'
    BY <1>1, <2>1 DEF DInv, DTypes
  <2>3. ASSUME Alone'  PROVE FALSE
    BY <1>1, <1>4, <2>1, <2>3 DEF ListKept, Alone
  <2> QED
    BY <1>3, <2>2, <2>3 DEF DInv
<1> QED
  BY <1>5, <1>6, <1>7

\* What the forms leave as it is on the list, for a designer alone.
LEMMA FormKeepsList ==
  ASSUME DInv, Alone, chain.at # "idle" \/ page # "list", UNCHANGED << page, calls >>
  PROVE  page # "list" /\ ListKept'
BY DEF DInv, OneForm, ListKept

LEMMA FormIsSent ==
  ASSUME DInv, Designer!handleSubmit
  PROVE  DInv'
<1>1. /\ UNCHANGED << mood, design, application, page, uploads, designs, calls, submitted >>
      /\ page = "form" /\ told' = {} /\ (mood.patient => uploads = {})
  BY DEF Designer!handleSubmit, Designer!Fill, Designer!api, Designer!onList
<1>2. PICK chosen \in SUBSET UNION { Designer!Of(c) : c \in Stages }, submit \in BOOLEAN :
        chain' = [Designer!Undone EXCEPT !.at = "create", !.chosen = chosen, !.submit = submit]
  BY DEF Designer!handleSubmit, Designer!Fill, Stages
<1>3. chosen \subseteq OfForm /\ chosen \subseteq Portfolio
  BY <1>2 DEF OfForm, Designer!Of
<1>4. /\ chain' \in Chains /\ chain'.at = "create" /\ chain'.of = NoDesign /\ chain'.chosen = chosen
  BY <1>2, <1>3 DEF Designer!Undone, Chains, Subjects
<1>5. DTypes'
  BY <1>1, <1>4 DEF DInv, DTypes
<1>6. OnApplication'
  BY <1>1, <1>3, <1>4 DEF DInv, OnApplication
<1>7. OfDesigns' /\ AllComing' /\ Designer!SubmittedInFull'
  BY <1>1, <1>4 DEF DInv, OfDesigns, OnApplication, AllComing, Designer!SubmittedInFull, Stages
<1>8. ASSUME Alone'  PROVE OneForm' /\ ListKept' /\ Designer!NoSurprise'
  <2>1. Alone
    BY <1>1, <1>8 DEF Alone
  <2>2. ListKept'
    BY <1>1, <2>1, FormKeepsList
  <2>3. OneForm' /\ Designer!NoSurprise'
    BY <1>1, <1>4, <2>1 DEF OneForm, Designer!NoSurprise, Alone, Stages
  <2> QED
    BY <2>2, <2>3
<1> QED
  BY <1>5, <1>6, <1>7, <1>8 DEF DInv

LEMMA ApplicationIsSent ==
  ASSUME DInv, Designer!handleApply
  PROVE  DInv'
<1>1. /\ UNCHANGED << mood, design, application, page, designs, calls, submitted >>
      /\ page = "application" /\ told' = {} /\ chain.at = "idle" /\ uploads = {}
  BY DEF Designer!handleApply, Designer!api, Designer!onList
<1>2. PICK chosen \in SUBSET Designer!Of("designer_application_file") :
        /\ chain' = [Designer!Undone EXCEPT !.at = "apply", !.chosen = chosen]
        /\ uploads' = uploads \cup { [of |-> NoDesign, file |-> f] : f \in chosen }
  BY DEF Designer!handleApply
<1>3. chosen \subseteq Portfolio
  BY <1>2 DEF Designer!Of
<1>4. chain' \in Chains /\ chain'.at = "apply" /\ chain'.of = NoDesign /\ chain'.chosen = chosen
  BY <1>2, <1>3 DEF Designer!Undone, Chains, Subjects
<1>5. uploads' = { [of |-> NoDesign, file |-> f] : f \in chosen }
  BY <1>1, <1>2
<1>6. uploads' \subseteq [of : Subjects, file : Portfolio] /\ \A u \in uploads' : u.of = NoDesign /\ u.file \in chosen
  BY <1>3, <1>5 DEF Subjects
<1>7. DTypes'
  BY <1>1, <1>4, <1>6 DEF DInv, DTypes
<1>8. OnApplication'
  BY <1>1, <1>2, <1>4, <1>6 DEF OnApplication
<1>9. OfDesigns' /\ Designer!SubmittedInFull'
  BY <1>1, <1>4, <1>6 DEF DInv, OfDesigns, Designer!SubmittedInFull, Stages
<1>10. AllComing'
  BY <1>4, <1>5 DEF AllComing, Stages
<1>11. ASSUME Alone'  PROVE OneForm' /\ ListKept' /\ Designer!NoSurprise'
  <2>1. Alone
    BY <1>1, <1>11 DEF Alone
  <2>2. ListKept'
    BY <1>1, <2>1, FormKeepsList
  <2>3. OneForm' /\ Designer!NoSurprise'
    BY <1>1, <1>4 DEF OneForm, Designer!NoSurprise, Stages
  <2> QED
    BY <2>2, <2>3
<1> QED
  BY <1>7, <1>8, <1>9, <1>10, <1>11 DEF DInv

\* Everything but the explanation of the error, when a form stops.
LEMMA FormStops ==
  ASSUME DInv, Gained, Designer!Stop, uploads' \subseteq uploads,
         UNCHANGED << mood, page, designs, calls, submitted >>, application' \in Stored,
         application' = application \/ application = Designer!NoUpload,
         Alone /\ chain.at = "idle" => page # "list",
         Alone => Designer!NoSurprise'
  PROVE  DInv'
<1>1. /\ chain' \in Chains /\ chain'.at = "idle" /\ chain'.of = NoDesign
      /\ chain'.chosen = chain.chosen
  BY StopIs
<1>2. OnApplication' /\ OfDesigns' /\ AllComing' /\ Designer!SubmittedInFull'
  BY StopKeeps
<1>3. DTypes'
  BY <1>1 DEF DInv, DTypes, Gained
<1>4. ASSUME Alone'  PROVE OneForm' /\ ListKept' /\ Designer!NoSurprise'
  <2>1. Alone
    BY <1>4 DEF Alone
  <2>2. page # "list" /\ ListKept'
    BY <2>1, FormKeepsList
  <2> QED
    BY <1>1, <2>1, <2>2 DEF OneForm, Stages
<1> QED
  BY <1>2, <1>3, <1>4 DEF DInv

LEMMA DesignIsCreated ==
  ASSUME DInv, Designer!CreateDesign
  PROVE  DInv'
<1>1. /\ UNCHANGED << mood, application, page, designs, calls, submitted >>
      /\ chain.at = "create"
  BY DEF Designer!CreateDesign, Designer!onList
<1>2. CASE Designer!SlugTaken /\ Designer!Stop /\ UNCHANGED << design, uploads >>
  <2>1. Gained
    BY <1>2 DEF Gained, DInv, DTypes
  <2>2. Designer!SlugTaken'
    BY <1>1, <1>2 DEF Designer!SlugTaken
  <2>3. Designer!NoSurprise'
    BY <2>2 DEF Designer!NoSurprise
  <2> QED
    BY <1>1, <1>2, <2>1, <2>3, FormStops DEF DInv, DTypes
<1>3. CASE \E d \in Designs : /\ Designer!NewDraft(d) /\ told' = told
                              /\ Designer!Stage("design_original", d, "design_original")
  <2>1. PICK d \in Designs : /\ Designer!NewDraft(d) /\ told' = told
                             /\ Designer!Stage("design_original", d, "design_original")
    BY <1>3
  <2>2. OnlyThat(d, "draft", {}) /\ Gained /\ design[d].status = "absent"
    BY <2>1, DraftIs
  <2>3. "design_original" \in Stages
    BY DEF Stages
  <2>4. /\ chain' \in Chains /\ chain'.at = "design_original" /\ chain'.of = d
        /\ chain'.chosen = chain.chosen /\ chain'.ids = chain.ids /\ chain'.submit = chain.submit
        /\ uploads' \subseteq [of : Subjects, file : Portfolio]
        /\ uploads \subseteq uploads'
        /\ \A f \in Chosen("design_original") : [of |-> d, file |-> f] \in uploads'
        /\ \A u \in uploads' \ uploads : u.of = d /\ u.file \in Chosen("design_original")
    BY <2>1, <2>3, StageIs
  <2>5. DTypes'
    BY <1>1, <2>2, <2>4 DEF DInv, DTypes, Gained
  <2>6. page # "application"
    BY <1>1 DEF DInv, OnApplication
  <2>7. OnApplication'
    BY <1>1, <2>3, <2>4, <2>6, DesignersAssumption DEF DInv, OnApplication, Chosen
  <2>8. \A u \in uploads : u.of # d
    BY <2>2, DesignersAssumption DEF DInv, OfDesigns
  <2>9. OfDesigns'
    <3>1. \A e \in Designs : design'[e].status = "absent" => design'[e] = Designer!NoUpload
      BY <2>2 DEF OnlyThat, DInv, OfDesigns
    <3>2. \A u \in uploads' : u.of # NoDesign => design'[u.of].status # "absent"
      BY <2>2, <2>4 DEF OnlyThat, DInv, OfDesigns, DTypes, Subjects
    <3>3. \A u \in uploads' : u.of = d => u.file \in chain'.chosen
      BY <2>4, <2>8 DEF Chosen
    <3> QED
      BY <2>2, <2>3, <2>4, <3>1, <3>2, <3>3 DEF OfDesigns, OnlyThat
  <2>10. AllComing'
    BY <2>4 DEF AllComing, Coming, Chosen
  <2>11. Designer!SubmittedInFull'
    <3>1. \A s \in submitted : s.of = NoDesign \/ s.of \in Designs
      BY DEF DInv, DTypes, Subjects
    <3> QED
      BY <1>1, <2>2, <3>1 DEF DInv, Designer!SubmittedInFull, Gained
  <2>12. ASSUME Alone'  PROVE OneForm' /\ ListKept' /\ Designer!NoSurprise'
    <3>1. Alone
      BY <1>1, <2>12 DEF Alone
    <3>2. page # "list" /\ ListKept'
      BY <1>1, <3>1, FormKeepsList
    <3>3. told = {} /\ uploads = {}
      BY <1>1, <3>1 DEF DInv, OneForm
    <3>4. OneForm' /\ Designer!NoSurprise'
      BY <1>1, <2>1, <2>2, <2>4, <3>2, <3>3 DEF OneForm, OnlyThat, Designer!NoSurprise
    <3> QED
      BY <3>2, <3>4
  <2> QED
    BY <2>5, <2>7, <2>9, <2>10, <2>11, <2>12 DEF DInv
<1> QED
  BY <1>2, <1>3 DEF Designer!CreateDesign

LEMMA NextWave ==
  ASSUME DInv, NEW at \in Stages, NEW next \in Stages, chain.at = at, Designer!Uploaded,
         Designer!Stage(next, chain.of, next), next # "design_original",
         at = (IF next = "mockup" THEN "design_preview" ELSE "design_original"),
         UNCHANGED << mood, design, application, page, told, designs, calls, submitted >>
  PROVE  DInv'
<1>1. chain.of \in Designs /\ \A u \in uploads : u.of # chain.of
  BY DEF DInv, OfDesigns, Designer!Uploaded, Designer!Mine
<1>2. /\ chain' \in Chains /\ chain'.at = next /\ chain'.of = chain.of
      /\ chain'.chosen = chain.chosen /\ chain'.ids = chain.ids /\ chain'.submit = chain.submit
      /\ uploads' \subseteq [of : Subjects, file : Portfolio]
      /\ uploads \subseteq uploads'
      /\ \A f \in Chosen(next) : [of |-> chain.of, file |-> f] \in uploads'
      /\ \A u \in uploads' \ uploads : u.of = chain.of /\ u.file \in Chosen(next)
  BY <1>1, StageIs
<1>3. DTypes'
  BY <1>2 DEF DInv, DTypes
<1>4. page # "application"
  BY DEF DInv, OnApplication, Stages
<1>5. OnApplication'
  BY <1>1, <1>2, <1>4, DesignersAssumption DEF DInv, OnApplication, Chosen, Stages
<1>6. OfDesigns'
  BY <1>1, <1>2 DEF DInv, OfDesigns, Chosen
<1>7. AllComing'
  <2>1. ASSUME NEW c, Coming(c)  PROVE Coming(c)'
    BY <1>1, <1>2, <2>1 DEF Coming, Chosen
  <2>2. Coming(next)'
    BY <1>2 DEF Coming, Chosen
  <2> QED
    BY <1>2, <2>1, <2>2 DEF DInv, AllComing, Stages
<1>8. Designer!SubmittedInFull'
  BY DEF DInv, Designer!SubmittedInFull
<1>9. ASSUME Alone'  PROVE OneForm' /\ ListKept' /\ Designer!NoSurprise'
  <2>1. Alone
    BY <1>9 DEF Alone
  <2>2. page # "list" /\ ListKept'
    BY <2>1, FormKeepsList DEF Stages
  <2>3. OneForm /\ told = {}
    BY <2>1 DEF DInv, OneForm, Stages
  <2>4. OneForm' /\ Designer!NoSurprise'
    BY <1>2, <2>2, <2>3 DEF OneForm, Designer!NoSurprise, Stages
  <2> QED
    BY <2>2, <2>4
<1> QED
  BY <1>3, <1>5, <1>6, <1>7, <1>8, <1>9 DEF DInv

\* At the end of the form every file chosen has arrived.
LEMMA DesignIsFinished ==
  ASSUME DInv, Designer!FinishDesign
  PROVE  DInv'
<1>1. /\ UNCHANGED << mood, application, uploads >> /\ chain.at = "mockup" /\ Designer!Uploaded
  BY DEF Designer!FinishDesign
<1>2. /\ chain.of \in Designs /\ chain.of # NoDesign /\ \A u \in uploads : u.of # chain.of
      /\ page # "application" /\ chain.at # "idle"
  BY <1>1, DesignersAssumption
     DEF DInv, OfDesigns, OnApplication, Stages, Designer!Uploaded, Designer!Mine
<1>3. CASE chain.submit /\ design[chain.of].status \notin Designer!ResubmittableStatuses
  <2>1. Designer!Stop /\ UNCHANGED << design, submitted, page, designs, calls >>
    BY <1>3 DEF Designer!FinishDesign, Designer!onList
  <2>2. Gained
    BY <2>1 DEF Gained, DInv, DTypes
  <2>3. ~Alone
    BY <1>1, <1>3 DEF DInv, OneForm, Stages, Designer!ResubmittableStatuses
  <2> QED
    BY <1>1, <2>1, <2>2, <2>3, FormStops DEF DInv, DTypes
<1>4. CASE ~(chain.submit /\ design[chain.of].status \notin Designer!ResubmittableStatuses)
  <2>1. /\ chain' = Designer!Undone /\ told' = told /\ Designer!OpenList
        /\ design' = IF chain.submit THEN Designer!Submits(chain.of) ELSE design
        /\ submitted' = IF chain.submit
                        THEN submitted \cup {[of |-> chain.of, chosen |-> chain.chosen]}
                        ELSE submitted
    BY <1>4 DEF Designer!FinishDesign
  <2>2. Gained
    <3>1. CASE chain.submit
      BY <1>2, <1>4, <2>1, <3>1, SubmitsIs
    <3>2. CASE ~chain.submit
      BY <2>1, <3>2 DEF Gained, DInv, DTypes
    <3> QED
      BY <3>1, <3>2
  <2>3. /\ chain' \in Chains /\ chain'.at = "idle" /\ chain'.of = NoDesign /\ chain'.chosen = {}
    BY <2>1 DEF Designer!Undone, Chains, Subjects
  <2>4. PICK s : s = [of |-> chain.of, chosen |-> chain.chosen]
    OBVIOUS
  <2>5. /\ s \in [of : Subjects, chosen : SUBSET Portfolio] /\ s.of = chain.of /\ s.chosen = chain.chosen
        /\ submitted' \subseteq submitted \cup {s}
    BY <1>2, <2>1, <2>4 DEF DInv, DTypes, Chains, Subjects
  <2>6. DTypes'
    BY <1>1, <2>1, <2>2, <2>3, <2>5, OpenListIs DEF DInv, DTypes, Gained
  <2>7. OnApplication'
    BY <1>1, <1>2, <2>1, <2>3, OpenListIs DEF DInv, OnApplication
  <2>8. OfDesigns'
    <3>1. \A d \in Designs : design'[d].status = "absent" => design'[d] = design[d]
      BY <2>2 DEF Gained
    <3>2. \A u \in uploads' : u.of # NoDesign => design'[u.of].status # "absent"
      BY <1>1, <3>1 DEF DInv, DTypes, OfDesigns, Subjects
    <3>3. \A u \in uploads' : u.of # NoDesign
      BY <1>1, <1>2 DEF DInv, OnApplication
    <3> QED
      BY <2>3, <3>1, <3>2, <3>3 DEF DInv, OfDesigns, Designer!NoUpload, Stages
  <2>9. AllComing'
    BY <2>3 DEF AllComing, Stages
  <2>10. Designer!SubmittedInFull'
    <3>1. chain.chosen \subseteq design[chain.of].files
      <4>1. Coming("design_original") /\ Coming("design_preview") /\ Coming("mockup")
        BY <1>1 DEF DInv, AllComing, Stages
      <4>2. ASSUME NEW f \in chain.chosen  PROVE f \in design[chain.of].files
        <5>1. PICK c \in Stages : f \in Designer!Of(c)
          BY <1>2 DEF DInv, OnApplication, OfForm
        <5>2. Coming(c) /\ f \in Chosen(c)
          BY <4>1, <4>2, <5>1 DEF Stages, Chosen
        <5>3. PICK u : u = [of |-> chain.of, file |-> f]
          OBVIOUS
        <5>4. u \notin uploads
          BY <1>2, <5>3
        <5> QED
          BY <5>2, <5>3, <5>4 DEF Coming
      <4> QED
        BY <4>2
    <3>2. SUFFICES ASSUME NEW t \in submitted'
                   PROVE  t.chosen \subseteq
                            IF t.of = NoDesign THEN application.files ELSE design'[t.of].files
      BY <1>1 DEF Designer!SubmittedInFull
    <3>3. CASE t = s
      BY <1>2, <2>2, <2>5, <3>1, <3>3 DEF Gained
    <3>4. CASE t \in submitted
      BY <2>2, <3>4 DEF DInv, DTypes, Subjects, Designer!SubmittedInFull, Gained
    <3> QED
      BY <2>5, <3>2, <3>3, <3>4
  <2>11. ASSUME Alone'  PROVE OneForm' /\ ListKept' /\ Designer!NoSurprise'
    <3>1. Alone
      BY <1>1, <2>11 DEF Alone
    <3>2. OneForm /\ told = {} /\ page # "list" /\ uploads = {}
      BY <1>1, <1>2, <3>1 DEF DInv, OneForm, Stages
    <3>3. OneForm' /\ Designer!NoSurprise'
      BY <1>1, <2>1, <2>3, <3>2 DEF OneForm, Designer!NoSurprise, Stages
    <3>4. ListKept'
      BY <2>1, <3>2, OpenListIs DEF ListKept
    <3> QED
      BY <3>3, <3>4
  <2> QED
    BY <2>6, <2>7, <2>8, <2>9, <2>10, <2>11 DEF DInv
<1> QED
  BY <1>3, <1>4

LEMMA ApplicationArrives ==
  ASSUME DInv, Designer!Apply
  PROVE  DInv'
<1>1. /\ UNCHANGED << mood, design, page, uploads, designs, calls >>
      /\ chain.at = "apply" /\ \A u \in uploads : u.of # chain.of
  BY DEF Designer!Apply, Designer!onList, Designer!Uploaded, Designer!Mine
<1>2. chain.of = NoDesign /\ page = "application" /\ uploads = {}
  BY <1>1 DEF DInv, OfDesigns, OnApplication, Stages
<1>3. Gained
  BY <1>1 DEF Gained, DInv, DTypes
<1>4. CASE application # Designer!NoUpload
  <2>1. Designer!Stop /\ UNCHANGED << application, submitted >>
    BY <1>4 DEF Designer!Apply
  <2>2. Designer!NoSurprise'
    BY <1>4, <2>1 DEF Designer!NoSurprise
  <2> QED
    BY <1>1, <1>2, <1>3, <2>1, <2>2, FormStops DEF DInv, DTypes
<1>5. CASE application = Designer!NoUpload
  <2>1. /\ application' = [status |-> "submitted", files |-> chain.ids]
        /\ submitted' = submitted \cup {[of |-> NoDesign, chosen |-> chain.chosen]}
        /\ chain' = Designer!Undone /\ told' = {"success", "error"}
    BY <1>5 DEF Designer!Apply
  <2>2. /\ application' \in Stored /\ application'.files = chain.ids /\ application.files = {}
    BY <1>5, <2>1 DEF DInv, DTypes, Chains, Stored, Statuses, Designer!NoUpload
  <2>3. /\ chain' \in Chains /\ chain'.at = "idle" /\ chain'.of = NoDesign /\ chain'.chosen = {}
    BY <2>1 DEF Designer!Undone, Chains, Subjects
  <2>4. PICK s : s = [of |-> NoDesign, chosen |-> chain.chosen]
    OBVIOUS
  <2>5. /\ s \in [of : Subjects, chosen : SUBSET Portfolio] /\ s.of = NoDesign /\ s.chosen = chain.chosen
        /\ submitted' = submitted \cup {s}
    BY <2>1, <2>4 DEF DInv, DTypes, Chains, Subjects
  <2>6. DTypes'
    BY <1>1, <2>2, <2>3, <2>5 DEF DInv, DTypes
  <2>7. OnApplication' /\ OfDesigns' /\ AllComing'
    BY <1>1, <1>2, <2>3 DEF DInv, OnApplication, OfDesigns, AllComing, Stages
  <2>8. Designer!SubmittedInFull'
    <3>1. chain.chosen \subseteq chain.ids
      BY <1>1, <1>2 DEF DInv, AllComing
    <3>2. SUFFICES ASSUME NEW t \in submitted'
                   PROVE  t.chosen \subseteq
                            IF t.of = NoDesign THEN application'.files ELSE design[t.of].files
      BY <1>1 DEF Designer!SubmittedInFull
    <3>3. CASE t = s
      BY <2>2, <2>5, <3>1, <3>3
    <3>4. CASE t \in submitted
      BY <2>2, <3>4 DEF DInv, Designer!SubmittedInFull
    <3> QED
      BY <2>5, <3>2, <3>3, <3>4
  <2>9. ASSUME Alone'  PROVE OneForm' /\ ListKept' /\ Designer!NoSurprise'
    <3>1. ListKept'
      BY <1>1, <1>2, <2>9, FormKeepsList DEF Alone
    <3>2. OneForm' /\ Designer!NoSurprise'
      BY <1>1, <1>2, <2>1, <2>3 DEF OneForm, Designer!NoSurprise, Stages
    <3> QED
      BY <3>1, <3>2
  <2> QED
    BY <2>6, <2>7, <2>8, <2>9 DEF DInv
<1> QED
  BY <1>4, <1>5

\* An upload ends and the form goes on: its file has arrived, or is of another form.
LEMMA UploadEnds ==
  ASSUME DInv, NEW u \in uploads, Gained, uploads' = uploads \ {u},
         UNCHANGED << mood, application, page, told, designs, calls, submitted >>,
         chain' \in Chains, chain'.at = chain.at, chain'.of = chain.of, chain'.chosen = chain.chosen,
         chain.ids \subseteq chain'.ids,
         \A d \in Designs : design'[d].status = design[d].status,
         u.of = chain.of =>
           IF chain.of = NoDesign THEN chain.at = "apply" => u.file \in chain'.ids
           ELSE u.file \in design'[chain.of].files
  PROVE  DInv'
<1>1. DTypes'
  BY DEF DInv, DTypes, Gained
<1>2. OnApplication'
  BY DEF DInv, OnApplication
<1>3. OfDesigns'
  BY DEF DInv, OfDesigns, DTypes, Subjects, Gained
<1>4. AllComing'
  <2>1. ASSUME NEW c, Coming(c), chain.at \in Stages  PROVE Coming(c)'
    <3>1. chain.of \in Designs /\ chain.of # NoDesign
      BY <2>1, DesignersAssumption DEF DInv, OfDesigns
    <3>2. SUFFICES ASSUME NEW f \in Chosen(c)
                   PROVE  f \in design'[chain.of].files \/ [of |-> chain.of, file |-> f] \in uploads'
      BY DEF Coming, Chosen
    <3>3. PICK v : v = [of |-> chain.of, file |-> f]
      OBVIOUS
    <3>4. f \in design[chain.of].files \/ v \in uploads
      BY <2>1, <3>3 DEF Coming
    <3>5. v.of = chain.of /\ v.file = f
      BY <3>3
    <3> QED
      BY <3>1, <3>3, <3>4, <3>5 DEF Gained
  <2>2. ASSUME chain.at = "apply", NEW f \in chain.chosen
        PROVE  f \in chain'.ids \/ [of |-> NoDesign, file |-> f] \in uploads'
    <3>1. chain.of = NoDesign
      BY <2>2 DEF DInv, OfDesigns, Stages
    <3>2. PICK v : v = [of |-> NoDesign, file |-> f]
      OBVIOUS
    <3>3. f \in chain.ids \/ v \in uploads
      BY <2>2, <3>2 DEF DInv, AllComing
    <3>4. v.of = chain.of /\ v.file = f
      BY <3>1, <3>2
    <3> QED
      BY <2>2, <3>1, <3>2, <3>3, <3>4
  <2> QED
    BY <2>1, <2>2 DEF DInv, AllComing, Stages
<1>5. Designer!SubmittedInFull'
  <2>1. \A s \in submitted : s.of = NoDesign \/ s.of \in Designs
    BY DEF DInv, DTypes, Subjects
  <2> QED
    BY <2>1 DEF DInv, Designer!SubmittedInFull, Gained
<1>6. ASSUME Alone'  PROVE OneForm' /\ ListKept' /\ Designer!NoSurprise'
  <2>1. Alone /\ OneForm /\ ListKept /\ Designer!NoSurprise
    BY <1>6 DEF DInv, Alone
  <2>2. page # "list"
    BY <2>1 DEF OneForm
  <2>3. OneForm'
    BY <2>1 DEF OneForm, DInv, OfDesigns, Stages
  <2>4. ListKept'
    BY <2>1, <2>2 DEF ListKept
  <2> QED
    BY <2>1, <2>3, <2>4, StillNoSurprise
<1> QED
  BY <1>1, <1>2, <1>3, <1>4, <1>5, <1>6 DEF DInv

\* A file of one of the inputs is refused for its size only.
LEMMA RefusedForSize ==
  ASSUME DInv, NEW u \in uploads, ~Designer!Valid(u.file)
  PROVE  ~u.file.fits
<1>1. IF page = "application" THEN u.file \in Designer!Of("designer_application_file")
      ELSE \E c \in Stages : u.file \in Designer!Of(c)
  BY DEF DInv, OnApplication, OfForm
<1>2. u.file \in Portfolio
  BY DEF DInv, DTypes
<1>3. CASE page = "application"
  BY <1>1, <1>2, <1>3, DesignersAssumption
     DEF Designer!Of, Designer!Valid, Designer!role, Designer!FILE_RULES, Designer!IMAGE_TYPES,
         Designer!Accept
<1>4. CASE page # "application"
  BY <1>1, <1>2, <1>4, DesignersAssumption
     DEF Designer!Of, Designer!Valid, Designer!role, Designer!FILE_RULES, Designer!IMAGE_TYPES,
         Designer!Accept, Stages
<1> QED
  BY <1>3, <1>4

LEMMA UploadRefused ==
  ASSUME DInv, NEW u \in uploads,
         IF u \in Designer!Mine THEN Designer!Stop ELSE UNCHANGED << chain, told >>,
         uploads' = uploads \ {u}, ~u.file.fits \/ mood.faults,
         UNCHANGED << mood, design, application, page, designs, calls, submitted >>
  PROVE  DInv'
<1>1. Gained /\ chain \in Chains
  BY DEF Gained, DInv, DTypes
<1>2. CASE u \in Designer!Mine
  <2>1. u.file \in chain.chosen /\ chain'.chosen = chain.chosen
    BY <1>2, StopIs DEF DInv, OfDesigns, Designer!Mine
  <2>2. Alone => Designer!NoSurprise'
    BY <2>1 DEF Alone, Designer!NoSurprise
  <2>3. Alone => page # "list"
    BY DEF DInv, OneForm
  <2> QED
    BY <1>1, <1>2, <2>2, <2>3, FormStops DEF DInv, DTypes
<1>3. CASE u \notin Designer!Mine
  BY <1>1, <1>3, UploadEnds DEF Designer!Mine
<1> QED
  BY <1>2, <1>3

LEMMA FileIsUploaded ==
  ASSUME DInv, NEW u \in uploads, Designer!Upload(u)
  PROVE  DInv'
<1>1. /\ UNCHANGED << mood, application, page, designs, calls, submitted >>
      /\ uploads' = uploads \ {u} /\ u.of \in Subjects /\ u.file \in Portfolio
  BY DEF Designer!Upload, Designer!onList, DInv, DTypes
<1>2. CASE ~Designer!Valid(u.file)
  <2>1. /\ IF u \in Designer!Mine THEN Designer!Stop ELSE UNCHANGED << chain, told >>
        /\ design' = design
    BY <1>2 DEF Designer!Upload
  <2> QED
    BY <1>1, <1>2, <2>1, RefusedForSize, UploadRefused
<1>3. CASE Designer!Valid(u.file)
  <2>1. /\ design' = IF u.of = NoDesign THEN design
                     ELSE [design EXCEPT ![u.of].files = @ \cup {u.file}]
        /\ chain' = IF chain.at = "apply" THEN [chain EXCEPT !.ids = @ \cup {u.file}] ELSE chain
        /\ told' = told
    BY <1>3 DEF Designer!Upload
  <2>2. /\ chain' \in Chains /\ chain'.at = chain.at /\ chain'.of = chain.of
        /\ chain'.chosen = chain.chosen /\ chain.ids \subseteq chain'.ids
        /\ chain.at = "apply" => u.file \in chain'.ids
    <3>1. chain \in Chains
      BY DEF DInv, DTypes
    <3>2. PICK g : g = chain.ids \cup {u.file}
      OBVIOUS
    <3>3. g \subseteq Portfolio
      BY <1>1, <3>1, <3>2 DEF Chains
    <3>4. chain' = IF chain.at = "apply" THEN [chain EXCEPT !.ids = g] ELSE chain
      BY <2>1, <3>2
    <3>5. /\ chain' \in Chains /\ chain'.at = chain.at /\ chain'.of = chain.of
          /\ chain'.chosen = chain.chosen
          /\ chain'.ids = IF chain.at = "apply" THEN g ELSE chain.ids
      BY <3>1, <3>3, <3>4 DEF Chains
    <3> QED
      BY <3>2, <3>5
  <2>3. CASE u.of = NoDesign
    <3>1. design' = design
      BY <2>1, <2>3
    <3>2. Gained
      BY <3>1 DEF Gained, DInv, DTypes
    <3> QED
      BY <1>1, <2>1, <2>2, <2>3, <3>1, <3>2, UploadEnds
  <2>4. CASE u.of # NoDesign
    <3>1. u.of \in Designs /\ design[u.of].status # "absent"
      BY <1>1, <2>4 DEF Subjects, DInv, OfDesigns
    <3>2. PICK d \in Designs, f \in Portfolio : d = u.of /\ f = u.file
      BY <1>1, <3>1
    <3>3. design' = [design EXCEPT ![d].files = @ \cup {f}] /\ design[d].status # "absent"
      BY <2>1, <2>4, <3>1, <3>2
    <3>4. OnlyThat(d, design[d].status, design[d].files \cup {f}) /\ Gained
      BY <3>3, StoredIs
    <3>5. /\ \A e \in Designs : design'[e].status = design[e].status
          /\ f \in design'[d].files
      BY <3>4 DEF OnlyThat
    <3> QED
      BY <1>1, <2>1, <2>2, <2>4, <3>2, <3>4, <3>5, UploadEnds
  <2> QED
    BY <2>3, <2>4
<1> QED
  BY <1>2, <1>3

LEMMA CallOfFormFails ==
  ASSUME DInv, Designer!CallFails
  PROVE  DInv'
<1>1. /\ UNCHANGED << mood, page, uploads, designs, calls, submitted >>
      /\ Designer!Stop /\ mood.faults /\ ~Alone
  BY DEF Designer!CallFails, Designer!onList, Alone
<1>2. design \in [Designs -> Stored] /\ application \in Stored /\ chain \in Chains
  BY DEF DInv, DTypes
<1>3. CASE UNCHANGED Designer!api
  <2>1. Gained
    BY <1>2, <1>3 DEF Gained, Designer!api
  <2> QED
    BY <1>1, <1>2, <1>3, <2>1, FormStops DEF Designer!api
<1>4. CASE (\E d \in Designs : Designer!NewDraft(d)) /\ application' = application
  BY <1>1, <1>2, <1>4, DraftIs, FormStops
<1>5. CASE /\ chain.at = "apply" /\ application = Designer!NoUpload
           /\ application' = [status |-> "submitted", files |-> chain.ids] /\ design' = design
  <2>1. application' \in Stored
    BY <1>2, <1>5 DEF Stored, Statuses, Chains
  <2>2. Gained
    BY <1>2, <1>5 DEF Gained
  <2> QED
    BY <1>1, <1>5, <2>1, <2>2, FormStops
<1>6. CASE /\ chain.at = "mockup" /\ design[chain.of].status \in Designer!ResubmittableStatuses
           /\ design' = Designer!Submits(chain.of) /\ application' = application
  <2>1. chain.of \in Designs
    BY <1>6 DEF DInv, OfDesigns, Stages
  <2> QED
    BY <1>1, <1>2, <1>6, <2>1, SubmitsIs, FormStops
<1> QED
  BY <1>3, <1>4, <1>5, <1>6 DEF Designer!CallFails

LEMMA DesignerStep ==
  ASSUME DInv, [Designer!DesignerNext]_designerVars
  PROVE  DInv'
<1>1. CASE UNCHANGED designerVars
  BY <1>1 DEF designerVars, DInv, DTypes, OnApplication, OfDesigns, AllComing, Coming, Chosen,
     Alone, OneForm, ListKept, Differ, Designer!SubmittedInFull, Designer!NoSurprise,
     Designer!SlugTaken
<1>2. CASE Designer!UploadPreviews
  <2>1. /\ "design_original" \in Stages /\ "design_preview" \in Stages
    BY DEF Stages
  <2> QED
    BY <1>2, <2>1, NextWave DEF Designer!UploadPreviews, Designer!api, Designer!onList
<1>3. CASE Designer!UploadMockups
  <2>1. /\ "mockup" \in Stages /\ "design_preview" \in Stages
    BY DEF Stages
  <2> QED
    BY <1>3, <2>1, NextWave DEF Designer!UploadMockups, Designer!api, Designer!onList
<1>4. ASSUME NEW u \in uploads, Designer!Upload(u) \/ Designer!UploadFails(u)
      PROVE  DInv'
  BY <1>4, FileIsUploaded, UploadRefused DEF Designer!UploadFails, Designer!api, Designer!onList
<1>5. ASSUME NEW c \in calls,
             \/ Designer!ServeCall(c) \/ Designer!ReceiveLoad(c)
             \/ Designer!ReceiveSubmitted(c) \/ Designer!CallRefused(c)
      PROVE  DInv'
  BY <1>5, CallIsServed, CallIsAnswered
<1> QED
  BY <1>1, <1>2, <1>3, <1>4, <1>5, FormIsSent, DesignIsCreated, DesignIsFinished,
     ApplicationIsSent, ApplicationArrives, CallOfFormFails, ListIsOpened,
     DesignIsSubmitted, DesignIsReviewed
     DEF Designer!DesignerNext

LEMMA DesignerKeeps ==
  ASSUME DInv
  PROVE  Designer!SubmittedInFull /\ Designer!NoSurprise /\ Designer!DesignsAreCurrent
<1>1. Designer!SubmittedInFull
  BY DEF DInv
<1>2. Designer!NoSurprise
  BY DEF DInv, Alone, Designer!NoSurprise
<1>3. Designer!DesignsAreCurrent
  BY DEF DInv, Alone, ListKept, Designer!DesignsAreCurrent
<1> QED
  BY <1>1, <1>2, <1>3

-----------------------------------------------------------------------------
(* All of the pages.                                                        *)

PagesInv ==
  /\ scene = "admin" => AInv
  /\ scene = "checkout" => KInv
  /\ scene = "center" => NInv
  /\ scene = "wishlist" => WInv
  /\ scene = "designer" => DInv

\* The invariants of the pages hold throughout, on whichever page a behaviour is.
LEMMA PagesKept == Spec => []PagesInv
<1>1. Init => PagesInv
  BY AdminStarts, AdminStartsQuiet, CheckoutStarts, CenterStarts, WishlistStarts, DesignerStarts
  DEF Init, PagesInv, AInv
<1>2. PagesInv /\ [Next]_<< scene, adminVars, checkoutVars, centerVars, wishlistVars,
                            designerVars, limiterVars >> => PagesInv'
  BY AdminStep, CheckoutStep, CenterStep, WishlistStep, DesignerStep DEF Next, PagesInv
<1> QED
  BY <1>1, <1>2, PTL DEF Spec

\* Once nothing is under way a page shows the records the API keeps, whatever order
\* answers came in: the panels (load, handleSave), the notifications (loadItems,
\* handleMarkAllRead), the wishlist (saveItem, handleToggle) and a designer's designs
\* (handleSubmit, handleSubmitDesign), for any number of records and of requests.
THEOREM PagesAreCurrent == Spec => []PagesShowWhatIsStored
<1>1. PagesInv => PagesShowWhatIsStored
  BY AdminKeeps, CenterKeeps, WishlistKeeps, DesignerKeeps DEF PagesInv, PagesShowWhatIsStored
<1> QED
  BY <1>1, PagesKept, PTL

\* A design or an application is submitted with every file chosen for it, whichever
\* uploads failed before (handleSubmit, handleApply), for any files and any number of
\* attempts; with no failed call a designer alone who waits is refused no file the
\* form's own inputs accept but for its size.
THEOREM DesignsAreComplete == Spec => []FormsSubmitInFull
<1>1. PagesInv => FormsSubmitInFull
  BY DesignerKeeps DEF PagesInv, FormsSubmitInFull
<1> QED
  BY <1>1, PagesKept, PTL

\* A user who waits for every answer changes the record the panel shows and orders to a
\* warehouse of the chosen city (handleCitySelect), whatever fails and whoever else
\* acts; on the panels of payouts and Second Chance, which keep no copy, so does a user
\* who does not wait.  Nothing is said of the other users: for them it is false.
THEOREM PatientUsersActOnWhatTheySee == Spec => []PatientUsersSendWhatIsShown
<1>1. PagesInv => PatientUsersSendWhatIsShown
  BY AdminKeeps
  DEF PagesInv, KInv, PatientUsersSendWhatIsShown, FormOfCity, Checkout!OrderGoesToItsCity
<1> QED
  BY <1>1, PagesKept, PTL
=============================================================================
