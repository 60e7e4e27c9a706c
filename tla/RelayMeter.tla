------------------------------- MODULE RelayMeter ------------------------------
(***************************************************************************)
(* What the relay loops of one source session share: its bandwidth limiter *)
(* (common/rate/smooth_limiter.go) and its byte counter, which the         *)
(* server's background loop samples once a second and adds to the          *)
(* network's (common/metrics/transport.go, vnet/server/loop.go).           *)
(***************************************************************************)
EXTENDS Integers, FiniteSets

CONSTANTS Proxies,   \* relay loops: one per destination of the session
          Rate,      \* bytes per unit of time
          Chunk,     \* bytes per write
          MaxClock,  \* bound on time
          MaxSamples \* bound on rounds of the background loop

ASSUME MeterAssumption == Rate \in Nat \ {0} /\ Chunk \in Nat \ {0}

VARIABLES
  meterClock,
  lastTime,          \* SmoothLimiter.lastTime
  step,              \* proxy -> where it is in the loop of proxy
  wakeAt,            \* proxy -> when its sleep is over
  written,           \* history: bytes written so far
  total, lastTotal, speed,\* the session's TxBytes
  networkTotal,      \* TxBytes.Total of the network
  sampler, loaded,   \* the background loop, and the Total it loaded
  samples

meterVars == <<meterClock, lastTime, step, wakeAt, written, total, lastTotal, speed, networkTotal,
               sampler, loaded, samples>>

MeterInit ==
  /\ meterClock = 0 /\ lastTime = 0
  /\ step = [p \in Proxies |-> "read"] /\ wakeAt = [p \in Proxies |-> 0]
  /\ written = 0 /\ total = 0 /\ lastTotal = 0 /\ speed = 0 /\ networkTotal = 0
  /\ sampler = "idle" /\ loaded = 0 /\ samples = 0

MeterTick ==
  /\ meterClock < MaxClock /\ meterClock' = meterClock + 1
  /\ UNCHANGED <<lastTime, step, wakeAt, written, total, lastTotal, speed, networkTotal, sampler,
                 loaded, samples>>

(* A chunk read from the source is written to the destination, *)
Write(p) ==
  /\ step[p] = "read"
  /\ step' = [step EXCEPT ![p] = "limit"]
  /\ written' = written + Chunk
  /\ UNCHANGED <<meterClock, lastTime, wakeAt, total, lastTotal, speed, networkTotal, sampler, loaded, samples>>

(* and WaitN computes how long it should have taken, the factor 1.05 less,  *)
(* loads when the last one was and sleeps for the rest.                     *)
ExpectedInterval == (Chunk * 20) \div (Rate * 21)

WaitN(p) ==
  /\ step[p] = "limit"
  /\ step' = [step EXCEPT ![p] = "sleep"]
  /\ LET due == lastTime + ExpectedInterval
     IN  wakeAt' = [wakeAt EXCEPT ![p] = IF due > meterClock THEN due ELSE meterClock]
  /\ UNCHANGED <<meterClock, lastTime, written, total, lastTotal, speed, networkTotal, sampler, loaded, samples>>

StoreNow(p) == lastTime' = meterClock

Wake(p) ==
  /\ step[p] = "sleep" /\ meterClock >= wakeAt[p]
  /\ step' = [step EXCEPT ![p] = "count"]
  /\ StoreNow(p)
  /\ UNCHANGED <<meterClock, wakeAt, written, total, lastTotal, speed, networkTotal, sampler, loaded, samples>>

(* Then the chunk is counted; a quota that is used up ends the loop. *)
Count(p) ==
  /\ step[p] = "count"
  /\ total' = total + Chunk
  /\ step' = [step EXCEPT ![p] = "read"]
  /\ UNCHANGED <<meterClock, lastTime, wakeAt, written, lastTotal, speed, networkTotal, sampler, loaded, samples>>

QuotaEnds(p) ==
  /\ step[p] = "count"
  /\ total' = total + Chunk
  /\ step' = [step EXCEPT ![p] = "ended"]
  /\ UNCHANGED <<meterClock, lastTime, wakeAt, written, lastTotal, speed, networkTotal, sampler, loaded, samples>>

-------------------------------------------------------------------------------
(* UpdateStats: Total and Last are loaded, Speed and Last stored; the speed *)
(* is then added to the network's total.                                    *)
LoadTotal ==
  /\ sampler = "idle" /\ samples < MaxSamples
  /\ samples' = samples + 1
  /\ loaded' = total
  /\ sampler' = "loaded"
  /\ UNCHANGED <<meterClock, lastTime, step, wakeAt, written, total, lastTotal, speed, networkTotal>>

StoreReloaded == speed' = loaded - lastTotal /\ lastTotal' = total

StoreStats == speed' = loaded - lastTotal /\ lastTotal' = loaded

UpdateStats ==
  /\ sampler = "loaded"
  /\ StoreStats
  /\ sampler' = "stored"
  /\ UNCHANGED <<meterClock, lastTime, step, wakeAt, written, total, networkTotal, loaded, samples>>

AddSpeed == networkTotal' = networkTotal + speed

updateSessionMetrics ==
  /\ sampler = "stored"
  /\ AddSpeed
  /\ sampler' = "idle"
  /\ UNCHANGED <<meterClock, lastTime, step, wakeAt, written, total, lastTotal, speed, loaded, samples>>

MeterNext ==
  \/ MeterTick \/ LoadTotal \/ UpdateStats \/ updateSessionMetrics
  \/ \E p \in Proxies : Write(p) \/ WaitN(p) \/ Wake(p) \/ Count(p) \/ QuotaEnds(p)

MeterSpec == MeterInit /\ [][MeterNext]_meterVars

-------------------------------------------------------------------------------
(* Types; the limiter's last time is never ahead of the clock, no more is   *)
(* counted than was written, and no relay sleeps longer than one interval   *)
(* after the last.                                                          *)
MeterTypeOK ==
  /\ lastTime \in 0..meterClock /\ total <= written
  /\ sampler \in {"idle", "loaded", "stored"}
  /\ \A p \in Proxies : wakeAt[p] <= lastTime + ExpectedInterval \/ wakeAt[p] <= meterClock

(* The network's total gets every byte of a session that is sampled once,   *)
(* whatever is counted while a sample is taken.                             *)
NetworkCountsOnce ==
  /\ networkTotal + (IF sampler = "stored" THEN speed ELSE 0) = lastTotal
  /\ lastTotal <= total

===============================================================================
