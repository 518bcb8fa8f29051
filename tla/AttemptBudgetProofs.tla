------------------------ MODULE AttemptBudgetProofs ------------------------
(***************************************************************************)
(* For any rooms, budget, window and run of the clock: no span of a        *)
(* window's length lets through more than two budgets, and no attempt is   *)
(* refused before a whole budget was let through.                          *)
(***************************************************************************)
EXTENDS AttemptBudget, TLAPS

Spent(c) == IF OverBudget(c) THEN MAX_ATTEMPTS_PER_ROOM ELSE c.count

(* The count is cumulative, and what comes is not counted yet.             *)
Cumulative(r) ==
  /\ \A s, t \in Time : s <= t => allowed[r][s] <= allowed[r][t]
  /\ \A t \in Time : now <= t => allowed[r][t] = allowed[r][now]

(* Of a window that has a counter: since it opened exactly what was counted*)
(* within the budget was let through, in the window's length before it no  *)
(* more than one budget, and nothing after its end.                        *)
WindowCounted(r) ==
  counters[r] # None =>
    LET start == counters[r].windowStart IN
    /\ Attempts(r, start, now) = Spent(counters[r])
    /\ Attempts(r, start - ATTEMPT_WINDOW, start - 1) <= MAX_ATTEMPTS_PER_ROOM
    /\ \A t \in Time : start + ATTEMPT_WINDOW <= t => allowed[r][t] = allowed[r][now]

(* A room without a counter let nobody through for a window's length: so   *)
(* to forget one is to forget nothing that still counts.                   *)
NothingForgotten(r) ==
  counters[r] = None => Attempts(r, now - ATTEMPT_WINDOW, now) = 0

RoomThrottled(r) ==
  \A t \in Time : Attempts(r, t - ATTEMPT_WINDOW, t) <= 2 * MAX_ATTEMPTS_PER_ROOM

RoomInv(r) ==
  Cumulative(r) /\ WindowCounted(r) /\ NothingForgotten(r) /\ RoomThrottled(r)

BudgetInv == BudgetTypeOK /\ (\A r \in Room : RoomInv(r)) /\ RefusedForBudget

-----------------------------------------------------------------------------
LEMMA BudgetInitInv == BudgetInit => BudgetInv
<1> SUFFICES ASSUME BudgetInit PROVE BudgetInv  OBVIOUS
<1> USE BudgetAssumption DEF BudgetInit
<1>1. BudgetTypeOK  BY DEF BudgetTypeOK, None, Counter, Time
<1>2. ASSUME NEW r \in Room PROVE RoomInv(r)
  <2>1. \A t \in Time : allowed[r][t] = 0 /\ counters[r] = None /\ 0 \in Time  BY DEF Time
  <2>2. \A t \in Int : t <= MaxTime => UpTo(r, t) = 0  BY <2>1 DEF UpTo, Time
  <2> QED  BY <2>1, <2>2
       DEF RoomInv, Cumulative, WindowCounted, NothingForgotten, RoomThrottled, Attempts, Time
<1>3. RefusedForBudget  BY DEF RefusedForBudget
<1> QED  BY <1>1, <1>2, <1>3 DEF BudgetInv

(* How many were let through, up to any moment on the clock or before it,  *)
(* is a number that grows with the moment.                                 *)
LEMMA UpToGrows ==
  ASSUME BudgetTypeOK, NEW r \in Room, Cumulative(r)
  PROVE  /\ \A t \in Int : t <= MaxTime => UpTo(r, t) \in Nat
         /\ \A s, t \in Int : s <= t /\ t <= MaxTime => UpTo(r, s) <= UpTo(r, t)
         /\ \A t \in Int : now <= t /\ t <= MaxTime => UpTo(r, t) = UpTo(r, now)
BY BudgetAssumption DEF BudgetTypeOK, Cumulative, UpTo, Time

(* The clock moves on: nothing is let through by that.                     *)
LEMMA TickInv == BudgetInv /\ Tick => BudgetInv'
<1> SUFFICES ASSUME BudgetInv, Tick PROVE BudgetInv'  OBVIOUS
<1> USE BudgetAssumption
<1>1. /\ now \in Time /\ now' = now + 1 /\ now' \in Time
      /\ counters' = counters /\ allowed' = allowed /\ refused' = refused
  BY DEF Tick, BudgetInv, BudgetTypeOK, Time
<1>2. BudgetTypeOK'
  BY <1>1 DEF Tick, BudgetInv, BudgetTypeOK, Counter, None, Time
<1>3. ASSUME NEW r \in Room PROVE RoomInv(r)'
  <2>0. BudgetTypeOK /\ RoomInv(r)  BY DEF BudgetInv
  <2>1. \A t \in Int : UpTo(r, t)' = UpTo(r, t)  BY <1>1 DEF UpTo
  <2>2. /\ \A t \in Int : t <= MaxTime => UpTo(r, t) \in Nat
        /\ \A s, t \in Int : s <= t /\ t <= MaxTime => UpTo(r, s) <= UpTo(r, t)
        /\ UpTo(r, now + 1) = UpTo(r, now)
    BY <1>1, <2>0, UpToGrows DEF RoomInv, Time
  <2>3. allowed[r][now'] = allowed[r][now]
    BY <1>1, <2>0 DEF RoomInv, Cumulative, Time
  <2>4. Cumulative(r)'
    BY <1>1, <2>0, <2>3 DEF RoomInv, Cumulative, Time
  <2>5. WindowCounted(r)'
    <3> SUFFICES ASSUME counters[r] # None
                 PROVE  WindowCounted(r)'
      BY <1>1 DEF WindowCounted
    <3>1. counters[r].windowStart \in Time  BY <2>0 DEF BudgetTypeOK, Counter
    <3> QED  BY <1>1, <2>0, <2>1, <2>2, <2>3, <3>1
             DEF RoomInv, WindowCounted, Attempts, Spent, OverBudget, Time
  <2>6. NothingForgotten(r)'
    BY <1>1, <2>0, <2>1, <2>2 DEF RoomInv, NothingForgotten, Attempts, Time
  <2>7. RoomThrottled(r)'
    BY <1>1, <2>0, <2>1 DEF RoomInv, RoomThrottled, Attempts, Time
  <2> QED  BY <2>4, <2>5, <2>6, <2>7 DEF RoomInv
<1>4. RefusedForBudget'
  BY <1>1 DEF BudgetInv, RefusedForBudget, Attempts, UpTo
<1> QED  BY <1>2, <1>3, <1>4 DEF BudgetInv

(* A cleanup forgets only windows that ended a window's length ago.        *)
LEMMA CleanupInv == BudgetInv /\ Cleanup => BudgetInv'
<1> SUFFICES ASSUME BudgetInv, Cleanup PROVE BudgetInv'  OBVIOUS
<1> USE BudgetAssumption
<1>1. /\ now \in Time /\ now' = now /\ allowed' = allowed /\ refused' = refused
      /\ \A r \in Room : \/ counters'[r] = counters[r]
                         \/ Stale(counters[r]) /\ counters'[r] = None
  BY DEF Cleanup, BudgetInv, BudgetTypeOK
<1>2. BudgetTypeOK'
  <2>1. counters' \in [Room -> Counter \cup {None}]
    BY DEF Cleanup, BudgetInv, BudgetTypeOK
  <2> QED  BY <1>1, <2>1 DEF Cleanup, BudgetInv, BudgetTypeOK, Time
<1>3. ASSUME NEW r \in Room PROVE RoomInv(r)'
  <2>0. BudgetTypeOK /\ RoomInv(r)  BY DEF BudgetInv
  <2>1. \A t \in Int : UpTo(r, t)' = UpTo(r, t)  BY <1>1 DEF UpTo
  <2>2. Cumulative(r)'  BY <1>1, <2>0 DEF RoomInv, Cumulative
  <2>3. RoomThrottled(r)'  BY <1>1, <2>0, <2>1 DEF RoomInv, RoomThrottled, Attempts, Time
  <2>4. CASE counters'[r] = counters[r]
    <3>1. counters[r] # None => counters[r].windowStart \in Time
      BY <2>0 DEF BudgetTypeOK, Counter
    <3>2. WindowCounted(r)'
      BY <1>1, <2>0, <2>1, <2>4, <3>1
      DEF RoomInv, WindowCounted, Attempts, Spent, OverBudget, Time
    <3>3. NothingForgotten(r)'
      BY <1>1, <2>0, <2>1, <2>4 DEF RoomInv, NothingForgotten, Attempts, Time
    <3> QED  BY <2>2, <2>3, <3>2, <3>3 DEF RoomInv
  <2>5. CASE Stale(counters[r]) /\ counters'[r] = None
    <3> DEFINE start == counters[r].windowStart
    <3>1. /\ counters[r] # None /\ start \in Time
          /\ start + 2 * ATTEMPT_WINDOW < now
      BY <1>1, <2>0, <2>5 DEF Stale, BudgetTypeOK, Counter, Time
    <3>2. /\ now - ATTEMPT_WINDOW - 1 \in Time
          /\ start + ATTEMPT_WINDOW <= now - ATTEMPT_WINDOW - 1
      BY <1>1, <3>1 DEF Time
    <3>3. allowed[r][now - ATTEMPT_WINDOW - 1] = allowed[r][now]
      BY <2>0, <3>1, <3>2 DEF RoomInv, WindowCounted
    <3>4. Attempts(r, now - ATTEMPT_WINDOW, now) = 0
      BY <1>1, <2>0, <3>2, <3>3 DEF Attempts, UpTo, Time, BudgetTypeOK
    <3>5. NothingForgotten(r)' /\ WindowCounted(r)'
      BY <1>1, <2>1, <2>5, <3>4 DEF NothingForgotten, WindowCounted, Attempts, Time
    <3> QED  BY <2>2, <2>3, <3>5 DEF RoomInv
  <2> QED  BY <1>1, <2>4, <2>5
<1>4. RefusedForBudget'
  BY <1>1 DEF BudgetInv, RefusedForBudget, Attempts, UpTo
<1> QED  BY <1>2, <1>3, <1>4 DEF BudgetInv

-----------------------------------------------------------------------------
(* An attempt.                                                             *)

(* The counter it leaves has counted it, in a window that is not over.     *)
LEMMA CountedWindow ==
  ASSUME BudgetTypeOK, NEW r \in Room
  PROVE  LET c == Counted(counters[r]) IN
         /\ c \in Counter /\ c # None
         /\ c.count > 0
         /\ c.windowStart <= now /\ now <= c.windowStart + ATTEMPT_WINDOW
         /\ Expired(counters[r]) => c.windowStart = now /\ c.count = 1
         /\ ~Expired(counters[r]) =>
              /\ counters[r] # None /\ counters[r] \in Counter
              /\ c.windowStart = counters[r].windowStart
              /\ c.count = counters[r].count + 1
<1> USE BudgetAssumption
<1>1. now \in Time /\ now \in Int  BY DEF BudgetTypeOK, Time
<1>2. CASE Expired(counters[r])
  BY <1>1, <1>2 DEF Counted, Counter, None
<1>3. CASE ~Expired(counters[r])
  <2>1. /\ counters[r] # None /\ counters[r] \in Counter
        /\ now - counters[r].windowStart <= ATTEMPT_WINDOW
    BY <1>1, <1>3 DEF Expired, BudgetTypeOK, Counter, Time
  <2>2. Counted(counters[r]) = [count |-> counters[r].count + 1,
                                windowStart |-> counters[r].windowStart]
    BY <1>3, <2>1 DEF Counted, Counter
  <2>3. counters[r].count \in Nat /\ counters[r].windowStart \in Time
        /\ counters[r].windowStart <= now
    BY <2>1 DEF Counter, BudgetTypeOK
  <2> QED  BY <1>1, <1>3, <2>1, <2>2, <2>3 DEF Counter, None, Time
<1> QED  BY <1>2, <1>3

(* Before the attempt, the window it falls into has let through what it    *)
(* counted, and the window's length before it no more than one budget: if  *)
(* it opens a window, the older one was over or forgotten, and nobody was  *)
(* let through at this moment yet.                                         *)
LEMMA WindowBefore ==
  ASSUME BudgetTypeOK, NEW r \in Room, RoomInv(r)
  PROVE  LET c == Counted(counters[r]) IN
         /\ ~Expired(counters[r]) => Attempts(r, c.windowStart, now) = Spent(counters[r])
         /\ Attempts(r, c.windowStart - ATTEMPT_WINDOW, c.windowStart - 1) <= MAX_ATTEMPTS_PER_ROOM
         /\ Expired(counters[r]) =>
              /\ Attempts(r, now - ATTEMPT_WINDOW, now) <= MAX_ATTEMPTS_PER_ROOM
              /\ UpTo(r, now - 1) = UpTo(r, now)
<1> USE BudgetAssumption
<1> DEFINE c == Counted(counters[r])
<1>1. now \in Time /\ now \in Int /\ now <= MaxTime  BY DEF BudgetTypeOK, Time
<1>2. /\ \A t \in Int : t <= MaxTime => UpTo(r, t) \in Nat
      /\ \A s, t \in Int : s <= t /\ t <= MaxTime => UpTo(r, s) <= UpTo(r, t)
  BY UpToGrows DEF RoomInv
<1>3. CASE counters[r] = None
  <2>1. Expired(counters[r]) /\ c.windowStart = now  BY <1>3, CountedWindow DEF Expired
  <2>2. Attempts(r, now - ATTEMPT_WINDOW, now) = 0  BY <1>3 DEF RoomInv, NothingForgotten
  <2> QED  BY <1>1, <1>2, <2>1, <2>2 DEF Attempts
<1>4. CASE counters[r] # None /\ Expired(counters[r])
  <2> DEFINE start == counters[r].windowStart
  <2>1. c.windowStart = now  BY <1>4, CountedWindow
  <2>2. start \in Int /\ start < now - ATTEMPT_WINDOW
    BY <1>1, <1>4 DEF Expired, BudgetTypeOK, Counter, Time
  <2>3. UpTo(r, now) - UpTo(r, start - 1) = Spent(counters[r])
    BY <1>4 DEF RoomInv, WindowCounted, Attempts
  <2>4. Spent(counters[r]) \in Nat /\ Spent(counters[r]) <= MAX_ATTEMPTS_PER_ROOM
    BY <1>4 DEF Spent, OverBudget, BudgetTypeOK, Counter
  <2>5. UpTo(r, start - 1) <= UpTo(r, now - ATTEMPT_WINDOW - 1)
    <3>1. /\ start - 1 \in Int /\ now - ATTEMPT_WINDOW - 1 \in Int
          /\ start - 1 <= now - ATTEMPT_WINDOW - 1
          /\ now - ATTEMPT_WINDOW - 1 <= MaxTime
      BY <1>1, <2>2
    <3> QED  BY <1>2, <3>1
  <2>6. UpTo(r, now - 1) = UpTo(r, now)
    <3>1. start \in Nat  BY <1>4 DEF BudgetTypeOK, Counter, Time
    <3>2. now - 1 \in Time /\ start + ATTEMPT_WINDOW <= now - 1
      BY <1>1, <2>2, <3>1 DEF Time
    <3>3. allowed[r][now - 1] = allowed[r][now]
      BY <1>4, <3>2 DEF RoomInv, WindowCounted
    <3> QED  BY <1>1, <3>2, <3>3 DEF UpTo, Time
  <2> QED  BY <1>1, <1>2, <1>4, <2>1, <2>2, <2>3, <2>4, <2>5, <2>6 DEF Attempts
<1>5. CASE ~Expired(counters[r])
  <2>1. counters[r] # None /\ c.windowStart = counters[r].windowStart
    BY <1>5, CountedWindow
  <2> QED  BY <1>5, <2>1 DEF RoomInv, WindowCounted
<1> QED  BY <1>3, <1>4, <1>5

(* Types survive an attempt, let through or refused.                       *)
LEMMA CheckTypes ==
  ASSUME BudgetTypeOK, NEW r \in Room, Check(r)
  PROVE  /\ BudgetTypeOK'
         /\ now' = now /\ now \in Time
         /\ counters' = [counters EXCEPT ![r] = Counted(counters[r])]
         /\ \A q \in Room \ {r} : counters'[q] = counters[q] /\ allowed'[q] = allowed[q]
<1>1. now' = now /\ nextCleanup' = nextCleanup /\ now \in Time
      /\ counters' = [counters EXCEPT ![r] = Counted(counters[r])]
  BY DEF Check, BudgetTypeOK
<1>2. /\ Counted(counters[r]) \in Counter
      /\ Counted(counters[r]).count > 0
      /\ Counted(counters[r]).windowStart <= now
  BY CountedWindow
<1>3. counters' \in [Room -> Counter \cup {None}]
  BY <1>1, <1>2 DEF BudgetTypeOK
<1>4. \A q \in Room : counters'[q] # None => counters'[q].count > 0 /\ counters'[q].windowStart <= now
  BY <1>1, <1>2 DEF BudgetTypeOK
<1>5. /\ allowed' \in [Room -> [Time -> Nat]]
      /\ \A q \in Room \ {r} : allowed'[q] = allowed[q]
  <2>1. CASE OverBudget(Counted(counters[r]))
    BY <2>1 DEF Check, BudgetTypeOK
  <2>2. CASE ~OverBudget(Counted(counters[r]))
    <3>1. allowed' = [allowed EXCEPT ![r] =
                        [t \in Time |-> IF t < now THEN allowed[r][t] ELSE allowed[r][t] + 1]]
      BY <2>2 DEF Check
    <3>2. [t \in Time |-> IF t < now THEN allowed[r][t] ELSE allowed[r][t] + 1] \in [Time -> Nat]
      BY DEF BudgetTypeOK
    <3> QED  BY <3>1, <3>2 DEF BudgetTypeOK
  <2> QED  BY <2>1, <2>2
<1>6. refused' \subseteq Room \X Time
  BY <1>1 DEF Check
<1>7. BudgetTypeOK'
  BY <1>1, <1>3, <1>4, <1>5, <1>6 DEF BudgetTypeOK
<1> QED  BY <1>1, <1>3, <1>5, <1>7 DEF BudgetTypeOK

(* A refused attempt changes no count, and the budget of its window was    *)
(* let through before.                                                     *)
LEMMA RefusedInv ==
  ASSUME BudgetInv, NEW r \in Room, Check(r), OverBudget(Counted(counters[r]))
  PROVE  BudgetInv'
<1> USE BudgetAssumption
<1>c. PICK c : c = Counted(counters[r])  OBVIOUS
<1>0. BudgetTypeOK /\ \A q \in Room : RoomInv(q)  BY DEF BudgetInv
<1>1. /\ BudgetTypeOK'
      /\ now' = now /\ now \in Time
      /\ counters' = [counters EXCEPT ![r] = c]
      /\ counters \in [Room -> Counter \cup {None}]
      /\ \A q \in Room \ {r} : counters'[q] = counters[q]
  BY <1>0, <1>c, CheckTypes DEF BudgetTypeOK
<1>2. allowed' = allowed /\ refused' = {<<r, now>>}
  BY DEF Check
<1>3. \A q \in Room : \A t \in Int : UpTo(q, t)' = UpTo(q, t)
  BY <1>2 DEF UpTo
<1>4. /\ c \in Counter /\ c # None
      /\ c.windowStart \in Int /\ c.windowStart <= now /\ now <= c.windowStart + ATTEMPT_WINDOW
  BY <1>0, <1>c, CountedWindow DEF Counter, Time
<1>5. /\ \A t \in Int : t <= MaxTime => UpTo(r, t) \in Nat
      /\ \A s, t \in Int : s <= t /\ t <= MaxTime => UpTo(r, s) <= UpTo(r, t)
  BY <1>0, UpToGrows DEF RoomInv
<1>6. now \in Int /\ now <= MaxTime  BY <1>1 DEF Time
<1>7. Attempts(r, c.windowStart, now) = MAX_ATTEMPTS_PER_ROOM
  <2>1. CASE Expired(counters[r])
    <3>1. c.windowStart = now /\ MAX_ATTEMPTS_PER_ROOM = 0
      BY <1>0, <1>c, <2>1, CountedWindow DEF OverBudget
    <3>2. Attempts(r, now - ATTEMPT_WINDOW, now) <= 0
      BY <1>0, <2>1, <3>1, WindowBefore
    <3> QED  BY <1>5, <1>6, <3>1, <3>2 DEF Attempts
  <2>2. CASE ~Expired(counters[r])
    <3>1. /\ Attempts(r, c.windowStart, now) = Spent(counters[r])
          /\ c.count = counters[r].count + 1 /\ counters[r] \in Counter
      BY <1>0, <1>c, <2>2, WindowBefore, CountedWindow
    <3>2. Spent(counters[r]) = MAX_ATTEMPTS_PER_ROOM
      BY <1>c, <3>1 DEF Spent, OverBudget, Counter
    <3> QED  BY <3>1, <3>2
  <2> QED  BY <2>1, <2>2
<1>8. RefusedForBudget'
  <2>1. Attempts(r, now - ATTEMPT_WINDOW, now)' >= MAX_ATTEMPTS_PER_ROOM
    BY <1>1, <1>3, <1>4, <1>5, <1>6, <1>7 DEF Attempts
  <2> QED  BY <1>1, <1>2, <2>1 DEF RefusedForBudget
<1>9. ASSUME NEW q \in Room PROVE RoomInv(q)'
  <2>1. Cumulative(q)' /\ RoomThrottled(q)'
    BY <1>0, <1>1, <1>2, <1>3 DEF RoomInv, Cumulative, RoomThrottled, Attempts, Time
  <2>2. CASE q = r
    <3>1. counters'[r] = c  BY <1>1
    <3>2. NothingForgotten(r)'  BY <1>4, <3>1 DEF NothingForgotten
    <3>3. WindowCounted(r)'
      <4>1. Attempts(r, c.windowStart, now)' = Spent(c)
        BY <1>1, <1>3, <1>4, <1>6, <1>7, <1>c, <3>1 DEF Attempts, Spent
      <4>2. Attempts(r, c.windowStart - ATTEMPT_WINDOW, c.windowStart - 1)' <= MAX_ATTEMPTS_PER_ROOM
        <5>1. Attempts(r, c.windowStart - ATTEMPT_WINDOW, c.windowStart - 1) <= MAX_ATTEMPTS_PER_ROOM
          BY <1>0, <1>c, WindowBefore
        <5> QED  BY <1>1, <1>3, <1>4, <3>1, <5>1 DEF Attempts
      <4>3. \A t \in Time : c.windowStart + ATTEMPT_WINDOW <= t => allowed'[r][t] = allowed'[r][now]
        BY <1>0, <1>2, <1>4, <1>6 DEF RoomInv, Cumulative, Time
      <4> QED  BY <1>1, <3>1, <4>1, <4>2, <4>3 DEF WindowCounted
    <3> QED  BY <2>1, <2>2, <3>2, <3>3 DEF RoomInv
  <2>3. CASE q # r
    <3>1. counters[q] # None => counters[q].windowStart \in Int
      BY <1>1 DEF Counter, Time
    <3> QED  BY <1>0, <1>1, <1>2, <1>3, <1>6, <2>1, <2>3, <3>1
             DEF RoomInv, WindowCounted, NothingForgotten, Attempts, Spent, OverBudget
  <2> QED  BY <2>2, <2>3
<1> QED  BY <1>1, <1>8, <1>9 DEF BudgetInv

(* An attempt let through is counted in its window from now on: every span *)
(* that contains it lies in that window and the window's length before.    *)
LEMMA AllowedInv ==
  ASSUME BudgetInv, NEW r \in Room, Check(r), ~OverBudget(Counted(counters[r]))
  PROVE  BudgetInv'
<1> USE BudgetAssumption
<1>c. PICK c : c = Counted(counters[r])  OBVIOUS
<1>0. BudgetTypeOK /\ \A q \in Room : RoomInv(q)  BY DEF BudgetInv
<1>1. /\ BudgetTypeOK'
      /\ now' = now /\ now \in Time
      /\ counters' = [counters EXCEPT ![r] = c]
      /\ counters \in [Room -> Counter \cup {None}]
      /\ allowed \in [Room -> [Time -> Nat]]
      /\ \A q \in Room \ {r} : counters'[q] = counters[q] /\ allowed'[q] = allowed[q]
  BY <1>0, <1>c, CheckTypes DEF BudgetTypeOK
<1>2. /\ refused' = {}
      /\ \A t \in Time : allowed'[r][t] = IF t < now THEN allowed[r][t] ELSE allowed[r][t] + 1
  BY <1>1 DEF Check
<1>3. now \in Int /\ 0 <= now /\ now <= MaxTime  BY <1>1 DEF Time
<1>4. /\ \A t \in Int : t <= MaxTime => UpTo(r, t) \in Nat
      /\ \A s, t \in Int : s <= t /\ t <= MaxTime => UpTo(r, s) <= UpTo(r, t)
      /\ \A t \in Int : now <= t /\ t <= MaxTime => UpTo(r, t) = UpTo(r, now)
  BY <1>0, UpToGrows DEF RoomInv
<1>5. /\ \A t \in Int : t < now => UpTo(r, t)' = UpTo(r, t)
      /\ \A t \in Int : now <= t /\ t <= MaxTime => UpTo(r, t)' = UpTo(r, now) + 1
  <2>1. ASSUME NEW t \in Int, t < now PROVE UpTo(r, t)' = UpTo(r, t)
    BY <1>2, <1>3, <2>1 DEF UpTo, Time
  <2>2. ASSUME NEW t \in Int, now <= t, t <= MaxTime PROVE UpTo(r, t)' = UpTo(r, now) + 1
    <3>1. t \in Time /\ ~(t < 0) /\ ~(t < now)  BY <1>3, <2>2 DEF Time
    <3>2. UpTo(r, t)' = UpTo(r, t) + 1  BY <1>2, <3>1 DEF UpTo
    <3> QED  BY <1>4, <2>2, <3>2
  <2> QED  BY <2>1, <2>2
<1>6. /\ c \in Counter /\ c # None /\ c.count \in Nat /\ c.count <= MAX_ATTEMPTS_PER_ROOM
      /\ c.windowStart \in Int /\ c.windowStart <= now /\ now <= c.windowStart + ATTEMPT_WINDOW
  BY <1>0, <1>c, CountedWindow DEF Counter, Time, OverBudget
<1>7. Spent(c) = c.count  BY <1>c DEF Spent
<1>8. UpTo(r, now) + 1 - UpTo(r, c.windowStart - 1) = c.count
  <2>1. CASE Expired(counters[r])
    <3>1. /\ c.windowStart = now /\ c.count = 1
          /\ UpTo(r, now - 1) = UpTo(r, now)
      BY <1>0, <1>c, <2>1, CountedWindow, WindowBefore
    <3> QED  BY <1>3, <1>4, <3>1
  <2>2. CASE ~Expired(counters[r])
    <3>1. /\ Attempts(r, c.windowStart, now) = Spent(counters[r])
          /\ c.count = counters[r].count + 1 /\ counters[r] \in Counter
      BY <1>0, <1>c, <2>2, WindowBefore, CountedWindow
    <3>2. Spent(counters[r]) = counters[r].count
      BY <1>6, <3>1 DEF Spent, OverBudget, Counter
    <3> QED  BY <1>3, <1>4, <1>6, <3>1, <3>2 DEF Attempts, Counter
  <2> QED  BY <2>1, <2>2
<1>9. UpTo(r, c.windowStart - 1) - UpTo(r, c.windowStart - ATTEMPT_WINDOW - 1) <= MAX_ATTEMPTS_PER_ROOM
  BY <1>0, <1>c, WindowBefore DEF Attempts
<1>10. RoomInv(r)'
  <2>1. Cumulative(r)'
    <3>1. ASSUME NEW s \in Time, NEW t \in Time, s <= t PROVE allowed'[r][s] <= allowed'[r][t]
      <4>1. allowed[r][s] <= allowed[r][t]  BY <1>0, <3>1 DEF RoomInv, Cumulative
      <4>2. allowed[r][s] \in Nat /\ allowed[r][t] \in Nat  BY <1>1
      <4>3. t < now => s < now  BY <1>3, <3>1 DEF Time
      <4> QED  BY <1>2, <4>1, <4>2, <4>3
    <3>2. ASSUME NEW t \in Time, now <= t PROVE allowed'[r][t] = allowed'[r][now]
      <4>1. allowed[r][t] = allowed[r][now]  BY <1>0, <3>2 DEF RoomInv, Cumulative
      <4>2. now \in Time /\ ~(t < now) /\ ~(now < now)  BY <1>1, <1>3, <3>2 DEF Time
      <4> QED  BY <1>2, <4>1, <4>2
    <3> QED  BY <1>1, <3>1, <3>2 DEF Cumulative
  <2>2. counters'[r] = c  BY <1>1
  <2>3. NothingForgotten(r)'  BY <1>6, <2>2 DEF NothingForgotten
  <2>4. WindowCounted(r)'
    <3>1. Attempts(r, c.windowStart, now)' = Spent(c)
      <4>1. UpTo(r, c.windowStart - 1)' = UpTo(r, c.windowStart - 1)  BY <1>3, <1>5, <1>6
      <4>2. UpTo(r, now)' = UpTo(r, now) + 1  BY <1>1, <1>3, <1>5
      <4>3. Attempts(r, c.windowStart, now)' = UpTo(r, now)' - UpTo(r, c.windowStart - 1)'
        BY <1>1 DEF Attempts
      <4>4. Attempts(r, c.windowStart, now)' = UpTo(r, now) + 1 - UpTo(r, c.windowStart - 1)
        <5>1. UpTo(r, now) \in Int /\ UpTo(r, c.windowStart - 1) \in Int
          BY <1>3, <1>4, <1>6
        <5> QED  BY <4>1, <4>2, <4>3, <5>1
      <4> QED  BY <1>7, <1>8, <4>4
    <3>2. Attempts(r, c.windowStart - ATTEMPT_WINDOW, c.windowStart - 1)' <= MAX_ATTEMPTS_PER_ROOM
      BY <1>3, <1>5, <1>6, <1>9 DEF Attempts
    <3>3. \A t \in Time : c.windowStart + ATTEMPT_WINDOW <= t => allowed'[r][t] = allowed'[r][now]
      BY <1>1, <1>6, <2>1 DEF Cumulative, Time
    <3> QED  BY <1>1, <2>2, <3>1, <3>2, <3>3 DEF WindowCounted
  <2>5. RoomThrottled(r)'
    <3> SUFFICES ASSUME NEW t \in Time
                 PROVE  UpTo(r, t)' - UpTo(r, t - ATTEMPT_WINDOW - 1)' <= 2 * MAX_ATTEMPTS_PER_ROOM
      BY DEF RoomThrottled, Attempts
    <3>1. t \in Int /\ t <= MaxTime  BY DEF Time
    <3>2. CASE t < now
      BY <1>0, <1>3, <1>5, <3>1, <3>2 DEF RoomInv, RoomThrottled, Attempts
    <3>3. CASE now <= t
      <4>1. UpTo(r, t)' = UpTo(r, now) + 1  BY <1>5, <3>1, <3>3
      <4>2. UpTo(r, c.windowStart - ATTEMPT_WINDOW - 1) <= UpTo(r, t - ATTEMPT_WINDOW - 1)
        BY <1>3, <1>4, <1>6, <3>1, <3>3
      <4>3. UpTo(r, t - ATTEMPT_WINDOW - 1) <= UpTo(r, t - ATTEMPT_WINDOW - 1)'
        BY <1>3, <1>4, <1>5, <3>1
      <4>4. /\ UpTo(r, now) + 1 - UpTo(r, c.windowStart - ATTEMPT_WINDOW - 1) <= 2 * MAX_ATTEMPTS_PER_ROOM
            /\ UpTo(r, c.windowStart - ATTEMPT_WINDOW - 1) \in Nat
            /\ UpTo(r, t - ATTEMPT_WINDOW - 1) \in Nat
            /\ UpTo(r, t - ATTEMPT_WINDOW - 1)' \in Int
        BY <1>3, <1>4, <1>5, <1>6, <1>8, <1>9, <3>1
      <4> QED  BY <1>3, <1>4, <4>1, <4>2, <4>3, <4>4
    <3> QED  BY <1>3, <3>1, <3>2, <3>3
  <2> QED  BY <2>1, <2>3, <2>4, <2>5 DEF RoomInv
<1>11. ASSUME NEW q \in Room, q # r PROVE RoomInv(q)'
  <2>1. counters'[q] = counters[q] /\ allowed'[q] = allowed[q]  BY <1>1, <1>11
  <2>2. \A t \in Int : UpTo(q, t)' = UpTo(q, t)  BY <2>1 DEF UpTo
  <2>3. counters[q] # None => counters[q].windowStart \in Int
    BY <1>1 DEF Counter, Time
  <2>4. Cumulative(q)' /\ RoomThrottled(q)'
    BY <1>0, <1>1, <2>1, <2>2 DEF RoomInv, Cumulative, RoomThrottled, Attempts, Time
  <2>5. WindowCounted(q)' /\ NothingForgotten(q)'
    BY <1>0, <1>1, <1>3, <2>1, <2>2, <2>3
    DEF RoomInv, WindowCounted, NothingForgotten, Attempts, Spent, OverBudget
  <2> QED  BY <2>4, <2>5 DEF RoomInv
<1> QED  BY <1>1, <1>2, <1>10, <1>11 DEF BudgetInv, RefusedForBudget

-----------------------------------------------------------------------------
LEMMA BudgetNextInv == BudgetInv /\ [BudgetNext]_budgetVars => BudgetInv'
<1> SUFFICES ASSUME BudgetInv, [BudgetNext]_budgetVars PROVE BudgetInv'  OBVIOUS
<1>1. CASE Tick  BY <1>1, TickInv
<1>2. CASE Cleanup  BY <1>2, CleanupInv
<1>3. ASSUME NEW r \in Room, Check(r) PROVE BudgetInv'
  BY <1>3, RefusedInv, AllowedInv
<1>4. CASE UNCHANGED budgetVars
  BY <1>4 DEF budgetVars, BudgetInv, BudgetTypeOK, RoomInv, Cumulative, WindowCounted,
     NothingForgotten, RoomThrottled, Attempts, UpTo, RefusedForBudget
<1> QED  BY <1>1, <1>2, <1>3, <1>4 DEF BudgetNext

LEMMA BudgetInductive == BudgetSpec => []BudgetInv
BY BudgetInitInv, BudgetNextInv, PTL DEF BudgetSpec

(* The state keeps its types, and no counter is empty or of the future.    *)
THEOREM BudgetTypeCorrect == BudgetSpec => []BudgetTypeOK
<1>1. BudgetInv => BudgetTypeOK  BY DEF BudgetInv
<1> QED  BY <1>1, BudgetInductive, PTL

(* checkAttemptBudget throttles: two budgets at most in any window's length*)
(* of any room, whenever cleanups and other rooms' attempts come.          *)
THEOREM ThrottleHolds == BudgetSpec => []AttemptsThrottled
<1>1. BudgetInv => AttemptsThrottled
  BY DEF BudgetInv, RoomInv, RoomThrottled, AttemptsThrottled
<1> QED  BY <1>1, BudgetInductive, PTL

(* checkAttemptBudget refuses only after a whole budget within the window  *)
(* before: refused attempts are counted, but never delay the next window.  *)
THEOREM RefusalHasCause == BudgetSpec => []RefusedForBudget
<1>1. BudgetInv => RefusedForBudget  BY DEF BudgetInv
<1> QED  BY <1>1, BudgetInductive, PTL

=============================================================================
