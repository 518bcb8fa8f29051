--------------------------- MODULE AttemptBudget ---------------------------
(***************************************************************************)
(* The per-room attempt budget (src/handshake.js): checkAttemptBudget with *)
(* its fixed windows, shared by every handshake of the process, and the    *)
(* periodic cleanupAttemptCounters.                                        *)
(***************************************************************************)
EXTENDS Integers

CONSTANTS
  Room,
  MAX_ATTEMPTS_PER_ROOM,
  ATTEMPT_WINDOW,      \* ATTEMPT_WINDOW_MS
  MaxTime,             \* bound on the clock
  MaxRefusals          \* bound on the refusals counted in one window

ASSUME BudgetAssumption ==
  /\ MAX_ATTEMPTS_PER_ROOM \in Nat
  /\ ATTEMPT_WINDOW \in Nat
  /\ MaxTime \in Nat
  /\ MaxRefusals \in Nat

VARIABLES
  now,             \* Date.now()
  counters,        \* attemptCounters: the rooms that have a counter, and theirs
  nextCleanup,     \* when the cleanup interval is due
  allowed,         \* how many attempts of a room were let through up to each moment
  refused          \* the last refusal: its room and moment

budgetVars == <<now, counters, nextCleanup, allowed, refused>>

Time    == 0 .. MaxTime
Counter == [count : Nat, windowStart : Time]
None    == [count |-> 0, windowStart |-> -1]     \* no counter in the map

BudgetTypeOK ==
  /\ now \in Time
  /\ counters \in [Room -> Counter \cup {None}]
  /\ \A r \in Room : counters[r] # None => counters[r].count > 0 /\ counters[r].windowStart <= now
  /\ nextCleanup \in Nat
  /\ allowed \in [Room -> [Time -> Nat]]
  /\ refused \subseteq Room \X Time

BudgetInit ==
  /\ now = 0
  /\ counters = [r \in Room |-> None]
  /\ nextCleanup = ATTEMPT_WINDOW
  /\ allowed = [r \in Room |-> [t \in Time |-> 0]]
  /\ refused = {}

(* There is no counter, or its window is over.                             *)
Expired(c) == c = None \/ now - c.windowStart > ATTEMPT_WINDOW

(* Mutants: the first attempt is not counted; a refused one restarts the   *)
(* window.                                                                 *)
CountedFromZero(c) ==
  IF Expired(c)
    THEN [count |-> 0, windowStart |-> now]
    ELSE [c EXCEPT !.count = @ + 1]

CountedRestarting(c) ==
  IF Expired(c) \/ c.count >= MAX_ATTEMPTS_PER_ROOM
    THEN [count |-> IF Expired(c) THEN 1 ELSE c.count + 1, windowStart |-> now]
    ELSE [c EXCEPT !.count = @ + 1]

(* The room's counter with one more attempt on it.                         *)
Counted(c) ==
  IF Expired(c)
    THEN [count |-> 1, windowStart |-> now]
    ELSE [c EXCEPT !.count = @ + 1]

OverBudget(c) == c.count > MAX_ATTEMPTS_PER_ROOM

(* checkAttemptBudget(r): count first, then let through or throw.          *)
Check(r) ==
  LET c == Counted(counters[r]) IN
  /\ counters' = [counters EXCEPT ![r] = c]
  /\ IF OverBudget(c)
       THEN refused' = {<<r, now>>} /\ UNCHANGED allowed
       ELSE /\ allowed' = [allowed EXCEPT ![r] = [t \in Time |-> IF t < now THEN @[t] ELSE @[t] + 1]]
            /\ refused' = {}
  /\ UNCHANGED <<now, nextCleanup>>

(* Mutant: cleanup forgets windows that still count.                       *)
StaleEarly(c) == c # None /\ now > c.windowStart

(* What cleanup deletes: windows over for a whole window already.          *)
Stale(c) == c # None /\ now - c.windowStart > ATTEMPT_WINDOW * 2

(* cleanupAttemptCounters, when its interval is due or later.              *)
Cleanup ==
  /\ now >= nextCleanup
  /\ nextCleanup' = now + ATTEMPT_WINDOW
  /\ counters' = [r \in Room |-> IF Stale(counters[r]) THEN None ELSE counters[r]]
  /\ UNCHANGED <<now, allowed, refused>>

Tick ==
  /\ now < MaxTime
  /\ now' = now + 1
  /\ UNCHANGED <<counters, nextCleanup, allowed, refused>>

BudgetNext ==
  \/ Tick
  \/ Cleanup
  \/ \E r \in Room :
       /\ counters[r].count < MAX_ATTEMPTS_PER_ROOM + MaxRefusals
       /\ Check(r)

BudgetSpec == BudgetInit /\ [][BudgetNext]_budgetVars

-----------------------------------------------------------------------------
(* Properties.                                                             *)

UpTo(r, t) == IF t < 0 THEN 0 ELSE allowed[r][t]

Attempts(r, first, last) == UpTo(r, last) - UpTo(r, first - 1)

(* Whatever the moments of attempts, cleanups and window changes, no span  *)
(* of one window's length lets through more than two budgets: the fixed    *)
(* windows meet at most once in it, and cleanup reopens none early.        *)
AttemptsThrottled ==
  \A r \in Room, t \in Time : Attempts(r, t - ATTEMPT_WINDOW, t) <= 2 * MAX_ATTEMPTS_PER_ROOM

(* An attempt is refused only if the whole budget was let through within   *)
(* the window before it: refusals themselves never keep a room closed.     *)
RefusedForBudget ==
  \A refusal \in refused :
    LET r == refusal[1]
        t == refusal[2]
    IN  Attempts(r, t - ATTEMPT_WINDOW, t) >= MAX_ATTEMPTS_PER_ROOM

=============================================================================
