------------------------------ MODULE TokenBucket ------------------------------
(***************************************************************************)
(* The lock-free token bucket of common/rate/limiter.go.  Callers of       *)
(* AllowN, WaitN and PutBack share lastUpdate and available, and a step is *)
(* one atomic operation on one of them.  Time is a counter of ticks; the   *)
(* bucket gains RateNum/RateDen tokens a tick, rounded down at each update.*)
(***************************************************************************)
EXTENDS Integers

CONSTANTS Threads,
          RateNum, RateDen, \* l.rate / 1e9
          Burst,
          Requests,         \* the n of AllowN
          MaxTime           \* bound on the clock

ASSUME BucketAssumption ==
  /\ RateNum \in Nat /\ RateDen \in Nat \ {0} /\ Burst \in Nat /\ MaxTime \in Nat
  /\ Requests \subseteq Nat \ {0}

VARIABLES
  clock,
  lastUpdate, available, lastConsumed,
  caller,  \* the locals of each thread and where it is
  taken,   \* tokens granted and not put back
  held     \* of these, the tokens each thread may still put back

bucketVars == <<clock, lastUpdate, available, lastConsumed, caller, taken, held>>

Idle == [pc |-> "idle", n |-> 0, now |-> 0, last |-> 0, added |-> 0, current |-> 0]

(* NewLimiter: a full bucket. *)
BucketInit ==
  /\ clock = 0
  /\ lastUpdate = 0
  /\ available = Burst
  /\ lastConsumed = 0
  /\ caller = [t \in Threads |-> Idle]
  /\ taken = 0
  /\ held = [t \in Threads |-> 0]

Tick ==
  /\ clock < MaxTime
  /\ clock' = clock + 1
  /\ UNCHANGED <<lastUpdate, available, lastConsumed, caller, taken, held>>

BucketAt(t, pc) == caller[t].pc = pc

Capped(n) == IF n > Burst THEN Burst ELSE n

Step(t, locals) == caller' = [caller EXCEPT ![t] = locals]

-------------------------------------------------------------------------------
(* AllowN(n) reads the clock once; WaitN calls it until it succeeds. *)
AllowN(t, n) ==
  /\ BucketAt(t, "idle")
  /\ Step(t, [Idle EXCEPT !.pc = "last", !.n = n, !.now = clock])
  /\ UNCHANGED <<clock, lastUpdate, available, lastConsumed, taken, held>>

LoadLast(t) ==
  /\ BucketAt(t, "last")
  /\ LET elapsed == caller[t].now - lastUpdate
         added == IF elapsed > 0 THEN (elapsed * RateNum) \div RateDen ELSE 0
     IN Step(t, [caller[t] EXCEPT !.pc = IF elapsed > 0 THEN "stamp" ELSE "check",
                                  !.last = lastUpdate, !.added = added])
  /\ UNCHANGED <<clock, lastUpdate, available, lastConsumed, taken, held>>

PlainStamp(t) ==
  /\ BucketAt(t, "stamp")
  /\ lastUpdate' = caller[t].now
  /\ Step(t, [caller[t] EXCEPT !.pc = IF caller[t].added > 0 THEN "sum" ELSE "check"])
  /\ UNCHANGED <<clock, available, lastConsumed, taken, held>>

(* The compare-and-swap on lastUpdate elects who deposits the new tokens. *)
Stamp(t) ==
  /\ BucketAt(t, "stamp")
  /\ LET won == lastUpdate = caller[t].last IN
     /\ lastUpdate' = IF won THEN caller[t].now ELSE lastUpdate
     /\ Step(t, [caller[t] EXCEPT !.pc = IF won /\ caller[t].added > 0
                                         THEN "sum" ELSE "check"])
  /\ UNCHANGED <<clock, available, lastConsumed, taken, held>>

LoadSum(t) ==
  /\ BucketAt(t, "sum")
  /\ Step(t, [caller[t] EXCEPT !.pc = "deposit", !.current = available])
  /\ UNCHANGED <<clock, lastUpdate, available, lastConsumed, taken, held>>

DepositUncapped(t) ==
  /\ BucketAt(t, "deposit")
  /\ IF available = caller[t].current
     THEN /\ available' = caller[t].current + caller[t].added
          /\ Step(t, [caller[t] EXCEPT !.pc = "check"])
     ELSE /\ Step(t, [caller[t] EXCEPT !.pc = "sum"])
          /\ UNCHANGED available
  /\ UNCHANGED <<clock, lastUpdate, lastConsumed, taken, held>>

Deposit(t) ==
  /\ BucketAt(t, "deposit")
  /\ IF available = caller[t].current
     THEN /\ available' = Capped(caller[t].current + caller[t].added)
          /\ Step(t, [caller[t] EXCEPT !.pc = "check"])
     ELSE /\ Step(t, [caller[t] EXCEPT !.pc = "sum"])
          /\ UNCHANGED available
  /\ UNCHANGED <<clock, lastUpdate, lastConsumed, taken, held>>

(* Too few tokens: AllowN returns false. *)
LoadAvailable(t) ==
  /\ BucketAt(t, "check")
  /\ Step(t, IF available >= caller[t].n
             THEN [caller[t] EXCEPT !.pc = "consume", !.current = available]
             ELSE Idle)
  /\ UNCHANGED <<clock, lastUpdate, available, lastConsumed, taken, held>>

(* A lost compare-and-swap starts over, with the old reading of the clock. *)
Consume(t) ==
  /\ BucketAt(t, "consume")
  /\ IF available = caller[t].current
     THEN /\ available' = available - caller[t].n
          /\ taken' = taken + caller[t].n
          /\ held' = [held EXCEPT ![t] = @ + caller[t].n]
          /\ Step(t, [caller[t] EXCEPT !.pc = "record"])
     ELSE /\ Step(t, [caller[t] EXCEPT !.pc = "last"])
          /\ UNCHANGED <<available, taken, held>>
  /\ UNCHANGED <<clock, lastUpdate, lastConsumed>>

Record(t) ==
  /\ BucketAt(t, "record")
  /\ lastConsumed' = caller[t].n
  /\ Step(t, Idle)
  /\ UNCHANGED <<clock, lastUpdate, available, taken, held>>

-------------------------------------------------------------------------------
(* PutBack(n) of tokens the thread was granted. *)
PutBack(t, n) ==
  /\ BucketAt(t, "idle")
  /\ n <= held[t]
  /\ Step(t, [Idle EXCEPT !.pc = "return", !.n = n, !.current = available])
  /\ UNCHANGED <<clock, lastUpdate, available, lastConsumed, taken, held>>

Returned(t) ==
  /\ BucketAt(t, "return")
  /\ IF available = caller[t].current
     THEN /\ available' = Capped(available + caller[t].n)
          /\ taken' = taken - caller[t].n
          /\ held' = [held EXCEPT ![t] = @ - caller[t].n]
          /\ Step(t, [caller[t] EXCEPT !.pc = "forget"])
     ELSE /\ Step(t, [caller[t] EXCEPT !.current = available])
          /\ UNCHANGED <<available, taken, held>>
  /\ UNCHANGED <<clock, lastUpdate, lastConsumed>>

LoadConsumed(t) ==
  /\ BucketAt(t, "forget")
  /\ Step(t, [caller[t] EXCEPT !.pc = "store", !.current = lastConsumed])
  /\ UNCHANGED <<clock, lastUpdate, available, lastConsumed, taken, held>>

StoreConsumed(t) ==
  /\ BucketAt(t, "store")
  /\ lastConsumed' = IF caller[t].current >= caller[t].n
                     THEN caller[t].current - caller[t].n ELSE 0
  /\ Step(t, Idle)
  /\ UNCHANGED <<clock, lastUpdate, available, taken, held>>

BucketNext ==
  \/ Tick
  \/ \E t \in Threads :
       \/ \E n \in Requests : AllowN(t, n) \/ PutBack(t, n)
       \/ LoadLast(t) \/ Stamp(t) \/ LoadSum(t) \/ Deposit(t)
       \/ LoadAvailable(t) \/ Consume(t) \/ Record(t)
       \/ Returned(t) \/ LoadConsumed(t) \/ StoreConsumed(t)

BucketSpec == BucketInit /\ [][BucketNext]_bucketVars

-------------------------------------------------------------------------------
(* Types; the tokens stay between none and the burst, and the last update   *)
(* is never ahead of the clock.                                             *)
BucketTypeOK ==
  /\ clock \in 0..MaxTime /\ lastUpdate \in 0..clock
  /\ available \in 0..Burst /\ taken \in Nat /\ lastConsumed \in Nat
  /\ held \in [Threads -> Nat]

(* However the callers interleave, the tokens granted and not put back,     *)
(* with those left, never exceed the burst and what the rate allows since   *)
(* the start: no interval of time is credited twice and no token is granted *)
(* twice (the purpose of the compare-and-swaps of AllowN).                  *)
NeverOverGrants ==
  RateDen * (taken + available) <= RateDen * Burst + RateNum * lastUpdate

===============================================================================
