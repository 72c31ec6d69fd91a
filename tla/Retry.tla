------------------------------- MODULE Retry -------------------------------
(***************************************************************************)
(* pkg/retry: Option.Retry calls a function up to o.retry times and waits   *)
(* in between for what o.f computes, in signed integers of Width bits (64   *)
(* in Go).                                                                  *)
(***************************************************************************)
EXTENDS Integers

CONSTANTS
  Width,      \* the width of time.Duration
  Delays,     \* o.delay, as the caller sets it
  RoundsUp,   \* those just below a power of two whose logarithm in float64 is
              \* the integer above (in Go from about 2^48 on)
  MaxDelays,  \* o.maxDelay; 0 is none
  Jitters,    \* o.maxJitter
  Funcs,      \* o.f; see FuncsAssumption
  MaxRetry    \* bound: o.retry

\* 1 << k
Pow2[k \in 0 .. Width] == IF k = 0 THEN 1 ELSE 2 * Pow2[k - 1]

MaxInt == Pow2[Width - 1] - 1

ASSUME RetryAssumption ==
  /\ Width \in Nat \ {0, 1} /\ MaxRetry \in Nat
  /\ Delays \subseteq -MaxInt - 1 .. MaxInt /\ MaxDelays \subseteq -MaxInt - 1 .. MaxInt
  /\ Jitters \subseteq -MaxInt - 1 .. MaxInt
  /\ RoundsUp \subseteq Delays

\* A Group of any functions in any order, nested or not.  Of the order only this
\* matters: how often it calls Fixed before the first BackOff, BackOff, Fixed
\* after that (all of them count as before when there is no BackOff), and Random.
\* A function alone is a Group of one.
ASSUME FuncsAssumption ==
  Funcs \subseteq [before : Nat, backoffs : Nat, after : Nat, randoms : Nat]

VARIABLES
  opt,        \* the Option: f, delay, maxDelay, maxJitter, retry and backoff (cached)
  attempt,    \* n
  waited,     \* the last wait, or 0
  wrapped,    \* history: a sum did not fit in time.Duration
  outcome     \* "running", "ok", "error" or "panic"

rVars == <<opt, attempt, waited, wrapped, outcome>>

\* NewOption
RetryInit ==
  /\ opt \in [f : Funcs, delay : Delays, maxDelay : MaxDelays, maxJitter : Jitters,
               retry : 1 .. MaxRetry, backoff : {0}]
  /\ attempt = 1 /\ waited = 0 /\ wrapped = FALSE /\ outcome = "running"

\* What is left of a number in a signed integer of Width bits.
Signed(x) == ((x + Pow2[Width - 1]) % Pow2[Width]) - Pow2[Width - 1]

\* floor(log2(d)), in float64
Log2(d) ==
  (CHOOSE k \in 0 .. Width - 1 : Pow2[k] <= d /\ d < Pow2[k + 1])
    + (IF d \in RoundsUp THEN 1 ELSE 0)

\* BackOff sets delay and backoff on its first call.
Cached(o) ==
  LET d == IF o.delay <= 0 THEN 1 ELSE o.delay
  IN IF o.backoff = 0 THEN [o EXCEPT !.delay = d, !.backoff = Width - 2 - Log2(d)] ELSE o

\* Fault: one shift more.
BackOffOne(n, o) == Signed(o.delay * Pow2[IF n > o.backoff + 1 THEN o.backoff + 1 ELSE n])

BackOff(n, o) == Signed(o.delay * Pow2[IF n > o.backoff THEN o.backoff ELSE n])

Fixed(n, o) == o.delay

\* Random, as often as o.f calls it: each is below maxJitter.
Random(o) == 0 .. o.f.randoms * (o.maxJitter - 1)

\* The option after the calls of o.f.
Prepared(o) == IF o.f.backoffs = 0 THEN o ELSE Cached(o)

\* What Group adds up when Random gives r: until BackOff has run Fixed takes the
\* delay as the caller set it.
Summed(n, o, r) ==
  LET p == Prepared(o)
  IN o.f.before * Fixed(n, o) + p.f.backoffs * BackOff(n, p) + p.f.after * Fixed(n, p) + r

\* A sum of Width bits never exceeds their maximum, so the comparison that
\* should cap it has no effect.
Group(n, o, r) == Signed(Summed(n, o, r))

delay(o, n, r) ==
  LET d == Group(n, o, r)
  IN IF o.maxDelay > 0 /\ d > o.maxDelay THEN o.maxDelay ELSE d

\* The timer fires at once for a duration that is not positive.
timer(d) == IF d > 0 THEN d ELSE 0

\* fn succeeds, or fails for the last time.
Return ==
  /\ outcome = "running"
  /\ outcome' \in {"ok"} \union (IF attempt = opt.retry THEN {"error"} ELSE {})
  /\ UNCHANGED <<opt, attempt, waited, wrapped>>

\* It fails, and there is another attempt after the wait.
Again ==
  /\ outcome = "running" /\ attempt < opt.retry
  /\ Prepared(opt).backoff >= 0
  /\ opt' = Prepared(opt)
  /\ \E r \in Random(opt) :
       /\ waited' = timer(delay(opt, attempt, r))
       /\ wrapped' = (wrapped \/ Summed(attempt, opt, r) \notin -MaxInt - 1 .. MaxInt)
  /\ attempt' = attempt + 1
  /\ UNCHANGED outcome

\* It fails, and BackOff shifts by the negative number that rounding up the
\* logarithm of the largest durations leaves, or Random, before or after BackOff,
\* has no number to choose from.
Panic ==
  /\ outcome = "running" /\ attempt < opt.retry
  /\ \/ Prepared(opt).backoff < 0 /\ opt' = Prepared(opt)
     \/ Random(opt) = {} /\ opt' \in {opt, Prepared(opt)}
  /\ outcome' = "panic"
  /\ UNCHANGED <<attempt, waited, wrapped>>

RetryNext == Return \/ Again \/ Panic

RetrySpec == RetryInit /\ [][RetryNext]_rVars

-----------------------------------------------------------------------------

\* No wait exceeds maxDelay.  As long as every sum has fitted, a wait is not
\* shorter than the one before, unless Random takes part, and it is a wait at
\* all when o.f calls something and the delay is positive, or BackOff, which
\* makes it so, comes first.  A Fixed before BackOff takes a negative delay off
\* the first wait (Option.Retry, Group).
WaitsGrow ==
  [][Again =>
       /\ opt.maxDelay > 0 => waited' <= opt.maxDelay
       /\ ~wrapped' =>
            /\ opt.f.randoms = 0 => waited' >= waited
            /\ \/ opt.delay > 0 /\ opt.f.before + opt.f.backoffs + opt.f.after > 0
               \/ opt.f.before = 0 /\ opt.f.backoffs > 0
               => waited' > 0]_rVars

=============================================================================
