----------------------------- MODULE LoginLimiter -----------------------------
(***************************************************************************)
(* loginRateLimiter of internal/web/auth.go, for one client address.  Each *)
(* of its three operations holds the limiter's lock, but a login request   *)
(* calls two of them with the comparison of the credentials in between, so *)
(* requests of one address overlap.                                        *)
(***************************************************************************)
EXTENDS Naturals, FiniteSets

CONSTANTS MaxLoginAttempts, LoginWindow, LoginBlock,   \* 10, 1 min, 5 min
          MaxNow,           \* bound: the clock
          MaxFailures       \* bound: failed comparisons

ASSUME LimiterAssumption ==
    /\ {MaxLoginAttempts, LoginWindow, LoginBlock} \subseteq Nat \ {0}
    /\ LoginBlock >= LoginWindow
    /\ {MaxNow, MaxFailures} \subseteq Nat

VARIABLES now,
          entry,        \* rateLimitEntry, or NoEntry
          comparing,    \* requests between allow and the answer
          failures      \* times of the failures since the last success

limiterVars == <<now, entry, comparing, failures>>

NoEntry == [count |-> 0, windowStart |-> 0, blockedUntil |-> 0]
First(t) == [count |-> 1, windowStart |-> t, blockedUntil |-> 0]

LimiterInit == now = 0 /\ entry = NoEntry /\ comparing = 0 /\ failures = {}

Blocked == now < entry.blockedUntil

(* allow: whether the request goes on, and the entry it leaves. *)
Stale == entry.blockedUntil # 0 \/ now - entry.windowStart > LoginWindow
Allowed == \/ entry = NoEntry
           \/ ~Blocked /\ (Stale \/ entry.count < MaxLoginAttempts)

Allow ==
    /\ Allowed
    /\ comparing < 2
    /\ entry' = IF Stale THEN NoEntry ELSE entry
    /\ comparing' = comparing + 1
    /\ UNCHANGED <<now, failures>>

(* Mutant of AfterFailure: the window is never started anew. *)
AfterFailureNoWindow ==
    IF entry = NoEntry THEN First(now)
    ELSE IF Blocked THEN entry
    ELSE [entry EXCEPT !.count = @ + 1,
                       !.blockedUntil = IF entry.count + 1 >= MaxLoginAttempts
                                        THEN now + LoginBlock ELSE @]

(* recordFailure, on the entry there is by now. *)
AfterFailure ==
    IF entry = NoEntry THEN First(now)
    ELSE IF Blocked THEN entry
    ELSE IF now - entry.windowStart > LoginWindow THEN First(now)
    ELSE [entry EXCEPT !.count = @ + 1,
                       !.blockedUntil = IF entry.count + 1 >= MaxLoginAttempts
                                        THEN now + LoginBlock ELSE @]

RecordFailure ==
    /\ comparing > 0
    /\ Cardinality(failures) < MaxFailures
    /\ entry' = AfterFailure
    /\ failures' = failures \union {<<Cardinality(failures) + 1, now>>}
    /\ comparing' = comparing - 1
    /\ UNCHANGED now

RecordSuccess ==
    /\ comparing > 0
    /\ entry' = NoEntry
    /\ failures' = {}
    /\ comparing' = comparing - 1
    /\ UNCHANGED now

Tick == now < MaxNow /\ now' = now + 1 /\ UNCHANGED <<entry, comparing, failures>>

LimiterNext == Allow \/ RecordFailure \/ RecordSuccess \/ Tick

LimiterSpec == LimiterInit /\ [][LimiterNext]_limiterVars

(* A block is earned: maxLoginAttempts comparisons failed within one window,
   and the block began with the last of them.  Nothing earlier than that
   window, and nothing before a success, counts (auth.go, recordFailure). *)
LockoutsEarned ==
    Blocked =>
        LET began == entry.blockedUntil - LoginBlock
        IN  Cardinality({f \in failures : f[2] \in entry.windowStart .. began
                                          /\ began - f[2] <= LoginWindow})
                >= MaxLoginAttempts

===============================================================================
