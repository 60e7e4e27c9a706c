-------------------------- MODULE QuotaAccounting --------------------------
(***************************************************************************)
(* Traffic accounting: the counters of package quota, the goroutines that  *)
(* use them and the flow records they end up in.                           *)
(*                                                                         *)
(* A session has one Quota.  The proxy of every transport counts what it   *)
(* forwarded on the sender's and on the receiver's quota (AddUsage); the   *)
(* minute ticker, Session.Release and a refused AddUsage move a counter to *)
(* the database (CommitUsage, SubmitUsage).  All quotas of the model       *)
(* belong to one device and one quota id, so they share the flow records,  *)
(* as the sessions of a device's sub-devices do.                           *)
(*                                                                         *)
(* One action is one atomic operation on a counter or one statement on the *)
(* database.  Time is abstracted: which record is the latest, whether it   *)
(* is younger than an hour and which records lie in the current period are *)
(* free choices.                                                           *)
(***************************************************************************)
EXTENDS Integers, FiniteSets, SeqFolds

CONSTANTS
  Quotas,      \* the *Quota of the sessions
  Proxies,     \* transports, each served by one proxy goroutine at a time
  Committers,  \* the minute ticker and the goroutines that run Release
  Src, Dst,    \* the quotas of a transport's sender and receiver
  MaxLimit,    \* the quota value, ValueNoLimit for none
  MaxChunk,    \* the largest number of bytes one Read returns
  Recorded,    \* the usage of the record that exists at the beginning
  MaxBytes,    \* bound: no packet is sent once so much was counted
  MaxRecords,  \* bound: number of flow records
  None

ValueNoLimit == -1

ASSUME ConstantTypes ==
  /\ None \notin Quotas
  /\ IsFiniteSet(Proxies)
  /\ Proxies \cap Committers = {}
  /\ Src \in [Proxies -> Quotas]
  /\ Dst \in [Proxies -> Quotas]
  /\ MaxLimit \in Nat \cup {ValueNoLimit}
  /\ MaxChunk \in Nat
  /\ Recorded \in Nat
  /\ MaxBytes \in Nat
  /\ MaxRecords \in Nat

Workers == Proxies \cup Committers

VARIABLES
  live,        \* the quotas that exist (quota.New succeeded)
  used,        \* Quota.used, loaded once
  usage,       \* Quota.usage, the atomic counter
  records,     \* the usage column of the flow records
  call,        \* the call a worker is in, with its locals
  counted,     \* history: bytes added to a counter
  handed,      \* history: bytes handed to SubmitUsage
  stored       \* history: bytes of the statements the database executed

counters == <<live, used, usage, counted, handed>>
vars     == <<counters, call, records, stored>>

Labels == {"idle", "check", "add", "load", "swap", "read", "update", "insert"}

\* pc: the next statement; on: the quota; value, rest: what a proxy counts on
\* this quota and on the receiver's; amount: currentUsage of CommitUsage;
\* flow, seen: the record read by submitToDatabase and its usage.
Calls == [pc : Labels, on : Quotas \cup {None}, value : 0 .. MaxChunk,
          rest : 0 .. MaxChunk, amount : Nat, flow : Nat, seen : Nat]

idle == [pc |-> "idle", on |-> None, value |-> 0, rest |-> 0, amount |-> 0,
         flow |-> 0, seen |-> 0]

At(w, l)    == call[w].pc = l
Enter(w, c) == call' = [call EXCEPT ![w] = c]
Goto(w, l)  == Enter(w, [call[w] EXCEPT !.pc = l])
Return(w)   == Enter(w, idle)

SumOf(ixs) == Total([i \in DOMAIN records |-> IF i \in ixs THEN records[i] ELSE 0])

Init ==
  /\ live = {}
  /\ used = [q \in Quotas |-> 0]
  /\ usage = [q \in Quotas |-> 0]
  /\ records = <<Recorded>>
  /\ call = [w \in Workers |-> idle]
  /\ counted = [q \in Quotas |-> 0]
  /\ handed = [q \in Quotas |-> 0]
  /\ stored = Recorded

-----------------------------------------------------------------------------
(* quota.New and the proxy.                                                *)

\* New: LoadUsage adds up the records of the current period; a failing read
\* makes New fail, and the session has no quota.
New(q) ==
  /\ q \notin live
  /\ live' = live \cup {q}
  /\ \E ixs \in SUBSET DOMAIN records :
       used' = [used EXCEPT ![q] = SumOf(ixs)]
  /\ UNCHANGED <<usage, counted, handed, call, records, stored>>

\* proxy: a packet of nr bytes was read and nw of them were written; first
\* AddUsage(nr) on the sender's quota.
Forward(p) ==
  /\ At(p, "idle") /\ {Src[p], Dst[p]} \subseteq live
  /\ counted[Src[p]] < MaxBytes
  /\ \E nr \in 1 .. MaxChunk : \E nw \in 0 .. nr :
       Enter(p, [idle EXCEPT !.pc = "check", !.on = Src[p], !.value = nr,
                             !.rest = nw])
  /\ UNCHANGED <<counters, records, stored>>

\* Mutant of Exceeded: the usage loaded from the database is left out.
ExceededLocally(q) == usage[q] > MaxLimit /\ MaxLimit # ValueNoLimit

\* isExceeded: one load of the counter, compared with used and maxLimit.
Exceeded(q) == usage[q] + used[q] > MaxLimit /\ MaxLimit # ValueNoLimit

\* AddUsage commits and returns ErrQuotaExceeded, which ends the proxy; the
\* client may open the next transport.
Check(p) ==
  /\ At(p, "check")
  /\ Goto(p, IF Exceeded(call[p].on) THEN "load" ELSE "add")
  /\ UNCHANGED <<counters, records, stored>>

\* usage.Add; then AddUsage(nw) on the receiver's quota, which returns at once
\* when nw is zero.
Add(p) ==
  /\ At(p, "add")
  /\ usage' = [usage EXCEPT ![call[p].on] = @ + call[p].value]
  /\ counted' = [counted EXCEPT ![call[p].on] = @ + call[p].value]
  /\ IF call[p].rest = 0
       THEN Return(p)
       ELSE Enter(p, [idle EXCEPT !.pc = "check", !.on = Dst[p],
                                  !.value = call[p].rest])
  /\ UNCHANGED <<live, used, handed, records, stored>>

-----------------------------------------------------------------------------
(* CommitUsage.                                                            *)

\* The ticker (updateUsage) or Release calls CommitUsage.
Commit(c, q) ==
  /\ At(c, "idle") /\ q \in live
  /\ Enter(c, [idle EXCEPT !.pc = "load", !.on = q])
  /\ UNCHANGED <<counters, records, stored>>

\* Mutant of Load: an exceeded quota is taken for closed.
LoadUnlessExceeded(w) ==
  /\ At(w, "load")
  /\ IF usage[call[w].on] = 0 \/ Exceeded(call[w].on)
       THEN Return(w)
       ELSE Goto(w, "swap")
  /\ UNCHANGED <<counters, records, stored>>

\* usage.Load() == 0: nothing to commit.
Load(w) ==
  /\ At(w, "load")
  /\ IF usage[call[w].on] = 0 THEN Return(w) ELSE Goto(w, "swap")
  /\ UNCHANGED <<counters, records, stored>>

\* Mutant of Swap: the counter is read and not reset.
SwapKeeps(w) ==
  /\ At(w, "swap")
  /\ Enter(w, [call[w] EXCEPT !.pc = "read", !.amount = usage[call[w].on]])
  /\ handed' = [handed EXCEPT ![call[w].on] = @ + usage[call[w].on]]
  /\ UNCHANGED <<live, used, usage, counted, records, stored>>

\* usage.Swap(0); the result may be zero when somebody else was faster.
Swap(w) ==
  /\ At(w, "swap")
  /\ Enter(w, [call[w] EXCEPT !.pc = "read", !.amount = usage[call[w].on]])
  /\ handed' = [handed EXCEPT ![call[w].on] = @ + usage[call[w].on]]
  /\ usage' = [usage EXCEPT ![call[w].on] = 0]
  /\ UNCHANGED <<live, used, counted, records, stored>>

-----------------------------------------------------------------------------
(* submitToDatabase: read the latest record, then update it or insert one. *)

\* A failing statement is logged; the amount is lost.
SubmitFails(w) ==
  /\ call[w].pc \in {"read", "update", "insert"}
  /\ Return(w)
  /\ UNCHANGED <<counters, records, stored>>

\* The latest record is less than an hour old.
ReadRecent(w) ==
  /\ At(w, "read")
  /\ \E i \in DOMAIN records :
       Enter(w, [call[w] EXCEPT !.pc = "update", !.flow = i,
                                !.seen = records[i]])
  /\ UNCHANGED <<counters, records, stored>>

\* There is no record, or the latest one is too old.
ReadNone(w) ==
  /\ At(w, "read") /\ Len(records) < MaxRecords
  /\ Goto(w, "insert")
  /\ UNCHANGED <<counters, records, stored>>

\* Mutant of Update: the function goes on to the insert.
UpdateFallsThrough(w) ==
  /\ At(w, "update")
  /\ records' = [records EXCEPT ![call[w].flow] = call[w].seen + call[w].amount]
  /\ Goto(w, "insert")
  /\ UNCHANGED <<counters, stored>>

\* UPDATE ... SET usage = flow.Usage + usage: overwrites with what was read.
Update(w) ==
  /\ At(w, "update")
  /\ records' = [records EXCEPT ![call[w].flow] = call[w].seen + call[w].amount]
  /\ stored' = stored + call[w].amount
  /\ Return(w)
  /\ UNCHANGED counters

Insert(w) ==
  /\ At(w, "insert")
  /\ records' = Append(records, call[w].amount)
  /\ stored' = stored + call[w].amount
  /\ Return(w)
  /\ UNCHANGED counters

-----------------------------------------------------------------------------
CommitStep(w) ==
  \/ Load(w) \/ Swap(w) \/ SubmitFails(w) \/ ReadRecent(w) \/ ReadNone(w)
  \/ Update(w) \/ Insert(w)

Next ==
  \/ \E q \in Quotas : New(q)
  \/ \E p \in Proxies : Forward(p) \/ Check(p) \/ Add(p)
  \/ \E c \in Committers, q \in Quotas : Commit(c, q)
  \/ \E w \in Workers : CommitStep(w)

Spec == Init /\ [][Next]_vars

\* A call that was begun is carried on, and the ticker comes to every quota
\* again and again.
Fairness ==
  /\ \A w \in Workers : WF_vars(CommitStep(w))
  /\ \A q \in Quotas : SF_vars(\E c \in Committers : Commit(c, q))

FairSpec == Spec /\ Fairness

-----------------------------------------------------------------------------
(* Properties.                                                             *)

(* Types of the counters, the calls under way and the flow records.         *)
TypeOK ==
  /\ live \subseteq Quotas
  /\ used \in [Quotas -> Nat]
  /\ usage \in [Quotas -> Nat]
  /\ records \in Seq(Nat)
  /\ call \in [Workers -> Calls]
  /\ counted \in [Quotas -> Nat]
  /\ handed \in [Quotas -> Nat]
  /\ stored \in Nat

\* However AddUsage and CommitUsage are interleaved, every byte counted on a
\* quota is still in the counter or was handed to SubmitUsage exactly once.
HandedOnce == \A q \in Quotas : counted[q] = usage[q] + handed[q]

\* The transports that count on q.
Users(q) == {p \in Proxies : q \in {Src[p], Dst[p]}}

\* isExceeded and usage.Add are two steps, so several proxies may pass the
\* check before the first of them adds.  Between two commits a quota is still
\* overrun by at most one packet per transport that uses it.
OvershootBounded ==
  MaxLimit # ValueNoLimit =>
    \A q \in Quotas : usage[q] > 0 =>
      usage[q] + used[q] <= MaxLimit + MaxChunk * Cardinality(Users(q))

\* The flow records never add up to more than was submitted: an update based
\* on an old read loses usage but does not invent any.
NotOverbilled == Total(records) <= stored

\* Usage does not stay in a counter: the minute ticker (loop.go:22) commits it.
Drains == \A q \in Quotas : usage[q] > 0 ~> usage[q] = 0

\* "Update the existing record: add usage and update record_end" (flow.go:120):
\* when no submission is under way the records hold all that was stored.
UpdatesAdd ==
  (\A w \in Workers : At(w, "idle")) => Total(records) = stored
=============================================================================
