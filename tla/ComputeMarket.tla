--------------------------- MODULE ComputeMarket ---------------------------
(***************************************************************************)
(* The compute market (core/compute_market_v3.py, class ComputeMarketV3):  *)
(* the tables orders and miners, the RPC thread that calls the market, and *)
(* its watchdog thread.                                                    *)
(*                                                                         *)
(* Every method reads a whole row, changes the copy and writes the whole   *)
(* row back, each in a database transaction of its own: a read and a write *)
(* are separate actions.  The lock is held by the matching and by the      *)
(* timeout of an order, and by nothing else.                               *)
(*                                                                         *)
(* Prices, scores, challenges, earnings and events are left out: they      *)
(* decide which of the eligible miners is taken, and any may be.  Time is  *)
(* the age of an order and the set of miners whose heartbeat is recent.    *)
(***************************************************************************)
EXTENDS Integers, FiniteSets, FiniteSetsExt

CONSTANTS
    Order, Miner,
    Hash, NoHash,   \* the results that may be promised; "none yet"
    Alloc,          \* allocatable_gpus of each miner's declaration
    GpuCount,       \* gpu_count of each order
    Distributed,    \* the orders that may be split over several miners
    Tee,            \* the orders in TEE mode, whose attestation may fail
    Cap,            \* bound on a miner's free GPUs
    Lapses,         \* may heartbeats stop?
    Failures,       \* bound on crashes and exceptions
    Rejoins,        \* bound on register, online and offline calls
    Retries         \* bound on calls of retry_settlement

ASSUME ComputeMarketAssumption ==
    /\ Order # {} /\ Miner # {} /\ Cap \in Nat
    /\ Alloc \in [Miner -> 1 .. Cap] /\ GpuCount \in [Order -> Nat \ {0}]
    /\ NoHash \notin Hash /\ Distributed \subseteq Order /\ Tee \subseteq Order
    /\ Lapses \in BOOLEAN /\ Failures \in Nat /\ Rejoins \in Nat /\ Retries \in Nat

Thread == {"rpc", "watchdog"}

VARIABLES
    orders,    \* the orders table
    miners,    \* the miners table
    beating,   \* miners with a recent heartbeat
    age,       \* 0 young, 1 past its timeout, 2 past its rented time
    lock,      \* who holds self._lock
    thread,    \* what each thread is doing, with its copies
    queue,     \* the orders that the watchdog has read, and not treated
    seen,      \* the miners that the watchdog has read, and not treated
    settled,   \* how often the settlement callback succeeded per order
    promised,  \* the first result hash committed per order
    overlapped,  \* the orders that both threads tried to settle again at once
    failures, rejoins, retries

tables == <<orders, miners>>
time == <<beating, age>>
history == <<settled, promised, overlapped>>
bounds == <<failures, rejoins, retries>>
vars == <<tables, time, lock, thread, queue, seen, history, bounds>>

Status == {"none", "created", "matched", "executing", "settlement_pending",
           "finished", "failed", "cancelled"}
OrderRow == [status : Status, gpus : [Miner -> Nat],
             commit : Hash \cup {NoHash}, result : Hash \cup {NoHash}]
MinerRow == [status : {"offline", "available", "busy"}, free : Int,
             current : SUBSET Order]

NewOrder(status) == [status |-> status, gpus |-> [m \in Miner |-> 0],
                     commit |-> NoHash, result |-> NoHash]
NewMiner(m) == [status |-> "offline", free |-> Alloc[m], current |-> {}]
Assigned(row) == {m \in Miner : row.gpus[m] > 0}

\* at: the label; o, ord: an order and its copy; m, row: a miner and its
\* copy; job: what the loop over todo does; again: time it out once more?
Idle == [at |-> "idle", op |-> "none", o |-> CHOOSE o \in Order : TRUE, ord |-> NewOrder("none"),
         job |-> "none", todo |-> {}, m |-> CHOOSE m \in Miner : TRUE,
         row |-> NewMiner(CHOOSE m \in Miner : TRUE), again |-> FALSE]

Init ==
    /\ orders = [o \in Order |-> NewOrder("none")]
    /\ miners = [m \in Miner |-> NewMiner(m)]
    /\ beating = {} /\ age = [o \in Order |-> 0]
    /\ lock = "free" /\ thread = [t \in Thread |-> Idle]
    /\ queue = {} /\ seen = [m \in {} |-> NewMiner(m)]
    /\ settled = [o \in Order |-> 0] /\ promised = [o \in Order |-> NoHash]
    /\ overlapped = {} /\ failures = 0 /\ rejoins = 0 /\ retries = 0

Become(t, r) == thread' = [thread EXCEPT ![t] = r]
Goto(t, label) == thread' = [thread EXCEPT ![t].at = label]

-----------------------------------------------------------------------------
(* The loop that reads and writes the rows of some miners. *)

\* What a job makes of the copy of a miner's row.
AtMost(n) == IF n > Cap THEN Cap ELSE n
Changed(job, m, row, o, g) ==
    CASE job = "occupy" ->
            [row EXCEPT !.free = row.free - g,
                        !.current = @ \cup {o},
                        !.status = IF g = row.free THEN "busy" ELSE @]
      [] job = "release" ->
            [row EXCEPT !.free = AtMost(row.free + g),
                        !.current = @ \ {o},
                        !.status = IF row.current \subseteq {o} THEN "available" ELSE @]
      [] job = "online" -> [row EXCEPT !.status = "available", !.free = Alloc[m]]
      [] job = "offline" -> [row EXCEPT !.status = "offline"]
      [] job \in {"earn", "heartbeat", "trap"} -> row

\* Where a thread goes when the loop is done.
AfterLoop(r) ==
    CASE r.job = "earn" -> "finish"
      [] r.job = "release" /\ r.op = "cancel" -> "write"
      [] r.job = "release" /\ r.op = "timeout" -> "penalty"
      [] OTHER -> "idle"

Loop(r, job, ms) == [r EXCEPT !.at = "loop", !.job = job, !.todo = ms]

MinerRead(t) ==
    /\ thread[t].at = "loop" /\ thread[t].todo # {}
    /\ \E m \in thread[t].todo :
           Become(t, [thread[t] EXCEPT !.at = "change", !.m = m, !.row = miners[m],
                                       !.todo = @ \ {m}])
    /\ UNCHANGED <<tables, time, lock, queue, seen, history, bounds>>

MinerWrite(t) ==
    LET r == thread[t] IN
    /\ r.at = "change"
    /\ miners' = [miners EXCEPT ![r.m] =
                     Changed(r.job, r.m, r.row, r.o, r.ord.gpus[r.m])]
    /\ beating' = IF r.job \in {"online", "heartbeat"} THEN beating \cup {r.m} ELSE beating
    /\ Become(t, [r EXCEPT !.at = "loop", !.row = NewMiner(r.m)])
    /\ UNCHANGED <<orders, age, lock, queue, seen, history, bounds>>

\* The matching keeps the lock for its loop and lets it go here.
LoopDone(t) ==
    LET r == thread[t] IN
    /\ r.at = "loop" /\ r.todo = {}
    /\ IF AfterLoop(r) = "idle" THEN Become(t, Idle) ELSE Goto(t, AfterLoop(r))
    /\ lock' = IF r.job = "occupy" THEN "free" ELSE lock
    /\ UNCHANGED <<tables, time, queue, seen, history, bounds>>

-----------------------------------------------------------------------------
(* The calls of the RPC thread. *)

RpcIdle == thread["rpc"].at = "idle"

\* register_miner replaces the row.
RegisterMiner ==
    /\ RpcIdle /\ rejoins < Rejoins /\ rejoins' = rejoins + 1
    /\ \E m \in Miner :
           /\ miners' = [miners EXCEPT ![m] = NewMiner(m)]
           /\ beating' = beating \cup {m}
    /\ UNCHANGED <<orders, age, lock, thread, queue, seen, history, failures, retries>>

\* A heartbeat, a performance trap and a rating write a copy of the row back
\* with another time or score ...
TouchMiner ==
    /\ RpcIdle
    /\ \E m \in Miner, job \in {"heartbeat", "trap"} : Become("rpc", Loop(Idle, job, {m}))
    /\ UNCHANGED <<tables, time, lock, queue, seen, history, bounds>>

\* ... miner_online and miner_offline with another status.
OnlineOrOffline ==
    /\ RpcIdle /\ rejoins < Rejoins /\ rejoins' = rejoins + 1
    /\ \E m \in Miner, job \in {"online", "offline"} :
           Become("rpc", Loop(Idle, job, {m}))
    /\ UNCHANGED <<tables, time, lock, queue, seen, history, failures, retries>>

CreateOrder ==
    /\ RpcIdle
    /\ \E o \in Order :
           /\ orders[o].status = "none"
           /\ orders' = [orders EXCEPT ![o] = NewOrder("created")]
           /\ Become("rpc", [Idle EXCEPT !.at = "match", !.op = "create", !.o = o,
                                         !.ord = NewOrder("created")])
    /\ UNCHANGED <<miners, time, lock, queue, seen, history, bounds>>

\* The miners that may serve an order, and what they may give it.
Available == {m \in beating : miners[m].status = "available" /\ miners[m].free > 0}
Assignments(o) ==
    {g \in [Miner -> 0 .. GpuCount[o]] :
        /\ \A m \in Miner : g[m] > 0 => m \in Available /\ g[m] <= miners[m].free
        /\ MapThenSumSet(LAMBDA m : g[m], Miner) = GpuCount[o]
        /\ o \in Distributed \/ Cardinality({m \in Miner : g[m] > 0}) = 1}

\* _match_order: the order is written, then the miners one by one.
MatchOrder ==
    LET r == thread["rpc"] IN
    /\ r.at = "match" /\ lock = "free"
    /\ \E g \in Assignments(r.o) :
           LET row == [r.ord EXCEPT !.status = "matched", !.gpus = g] IN
           /\ orders' = [orders EXCEPT ![r.o] = row]
           /\ Become("rpc", Loop([r EXCEPT !.ord = row], "occupy", Assigned(row)))
    /\ lock' = "rpc" /\ age' = [age EXCEPT ![r.o] = 0]
    /\ UNCHANGED <<miners, beating, queue, seen, history, bounds>>

\* No miner will do: the order stays created, and is never matched again.
NoMatch ==
    /\ thread["rpc"].at = "match" /\ lock = "free"
    /\ Become("rpc", Idle)
    /\ UNCHANGED <<tables, time, lock, queue, seen, history, bounds>>

\* The calls that read an order first.  A refused call changes nothing.
Begin(o, op, label, row) ==
    Become("rpc", [Idle EXCEPT !.at = label, !.op = op, !.o = o, !.ord = row])

StartExecution ==
    /\ RpcIdle
    /\ \E o \in Order : /\ orders[o].status = "matched"
                        /\ Begin(o, "start", "write", [orders[o] EXCEPT !.status = "executing"])
    /\ UNCHANGED <<tables, time, lock, queue, seen, history, bounds>>

\* commit_result: a promise is not replaced by another.
CommitResult ==
    /\ RpcIdle
    /\ \E o \in Order, h \in Hash :
           /\ orders[o].status = "executing" /\ orders[o].commit \in {NoHash, h}
           /\ Begin(o, "commit", "write", [orders[o] EXCEPT !.commit = h])
    /\ UNCHANGED <<tables, time, lock, queue, seen, history, bounds>>

\* Faulty: the reveal is not compared with the promise.
RevealUnchecked ==
    /\ RpcIdle
    /\ \E o \in Order, h \in Hash :
           /\ orders[o].status = "executing" /\ orders[o].commit # NoHash
           /\ \/ Begin(o, "reveal", "settle", [orders[o] EXCEPT !.result = h])
              \/ o \in Tee /\ Begin(o, "tee", "write", [orders[o] EXCEPT !.status = "failed"])
    /\ UNCHANGED <<tables, time, lock, queue, seen, history, bounds>>

\* reveal_result: what was promised, settled next; a TEE order whose
\* attestation no longer passes fails instead.
RevealResult ==
    /\ RpcIdle
    /\ \E o \in Order, h \in Hash :
           /\ orders[o].status = "executing" /\ orders[o].commit # NoHash
           /\ \/ orders[o].commit = h /\ Begin(o, "reveal", "settle", [orders[o] EXCEPT !.result = h])
              \/ o \in Tee /\ Begin(o, "tee", "write", [orders[o] EXCEPT !.status = "failed"])
    /\ UNCHANGED <<tables, time, lock, queue, seen, history, bounds>>

\* submit_result checks a TEE order before there is a promise.
SubmitRejected ==
    /\ RpcIdle
    /\ \E o \in Tee : /\ orders[o].status = "executing"
                      /\ Begin(o, "tee", "write", [orders[o] EXCEPT !.status = "failed"])
    /\ UNCHANGED <<tables, time, lock, queue, seen, history, bounds>>

\* cancel_order releases the miners before it writes the order.
CancelOrder ==
    /\ RpcIdle
    /\ \E o \in Order :
           LET r == [Idle EXCEPT !.op = "cancel", !.o = o,
                                 !.ord = [orders[o] EXCEPT !.status = "cancelled"]] IN
           \/ orders[o].status = "created" /\ Become("rpc", [r EXCEPT !.at = "write"])
           \/ orders[o].status = "matched" /\ Become("rpc", Loop(r, "release", Assigned(orders[o])))
    /\ UNCHANGED <<tables, time, lock, queue, seen, history, bounds>>

\* The pending orders that the watchdog works on or has read.
Dog == thread["watchdog"]
DogHolds(o) ==
    \/ Dog.op = "retry" /\ Dog.o = o
    \/ \E q \in queue : q[1] = o /\ q[2].status = "settlement_pending"

\* retry_settlement, by hand: what the watchdog does, and neither waits.
RetrySettlement ==
    /\ RpcIdle /\ retries < Retries /\ retries' = retries + 1
    /\ \E o \in Order :
           /\ orders[o].status = "settlement_pending"
           /\ Begin(o, "manual", "settle", orders[o])
           /\ overlapped' = IF DogHolds(o) THEN overlapped \cup {o} ELSE overlapped
    /\ UNCHANGED <<tables, time, lock, queue, seen, settled, promised, failures, rejoins>>

-----------------------------------------------------------------------------
(* What both threads do with an order. *)

\* _settle_order: the callback pays, then the miners' rows are updated.
Settles(t) ==
    LET r == thread[t] IN
    /\ r.at = "settle"
    /\ settled' = [settled EXCEPT ![r.o] = @ + 1]
    /\ Become(t, Loop(r, "earn", Assigned(r.ord)))
    /\ UNCHANGED <<tables, time, lock, queue, seen, promised, overlapped, bounds>>

\* Faulty: an order whose settlement failed is finished all the same.
SettleFailsFinished(t) ==
    /\ thread[t].at = "settle"
    /\ Become(t, [thread[t] EXCEPT !.at = "write", !.ord.status = "finished"])
    /\ UNCHANGED <<tables, time, lock, queue, seen, history, bounds>>

\* Faulty: the value of settlement_status is taken for the status.
SettleFailsStatus(t) ==
    /\ thread[t].at = "settle"
    /\ Become(t, [thread[t] EXCEPT !.at = "write", !.ord.status = "pending"])
    /\ UNCHANGED <<tables, time, lock, queue, seen, history, bounds>>

SettleFails(t) ==
    /\ thread[t].at = "settle"
    /\ Become(t, [thread[t] EXCEPT !.at = "write", !.ord.status = "settlement_pending"])
    /\ UNCHANGED <<tables, time, lock, queue, seen, history, bounds>>

\* Faulty: a settled order stays pending.
FinishPending(t) ==
    /\ thread[t].at = "finish"
    /\ Become(t, [thread[t] EXCEPT !.at = "write", !.ord.status = "settlement_pending"])
    /\ UNCHANGED <<tables, time, lock, queue, seen, history, bounds>>

Finish(t) ==
    /\ thread[t].at = "finish"
    /\ Become(t, [thread[t] EXCEPT !.at = "write", !.ord.status = "finished"])
    /\ UNCHANGED <<tables, time, lock, queue, seen, history, bounds>>

AfterWrite(r) ==
    CASE r.op \in {"reveal", "tee"} -> Loop(r, "release", Assigned(r.ord))
      [] r.op = "retry" -> [Idle EXCEPT !.at = "retry"]
      [] OTHER -> Idle

\* _update_order writes the whole copy.
WriteOrder(t) ==
    LET r == thread[t] IN
    /\ r.at = "write"
    /\ orders' = [orders EXCEPT ![r.o] = r.ord]
    /\ promised' = IF r.op = "commit" /\ promised[r.o] = NoHash
                   THEN [promised EXCEPT ![r.o] = r.ord.commit] ELSE promised
    /\ age' = IF r.op = "start" THEN [age EXCEPT ![r.o] = 0] ELSE age
    /\ Become(t, AfterWrite(r))
    /\ UNCHANGED <<miners, beating, lock, queue, seen, settled, overlapped, bounds>>

-----------------------------------------------------------------------------
(* The watchdog: one pass reads the pending orders, the running ones, and  *)
(* the miners; an exception ends the pass.                                 *)

Rows(statuses) == {<<o, orders[o]>> : o \in {p \in Order : orders[p].status \in statuses}}

ScanPending ==
    /\ Dog.at = "idle"
    /\ queue' = Rows({"settlement_pending"})
    /\ overlapped' = overlapped \cup {q[1] : q \in {p \in queue' : thread["rpc"].op = "manual"
                                                              /\ thread["rpc"].o = p[1]}}
    /\ Goto("watchdog", "retry")
    /\ UNCHANGED <<tables, time, lock, seen, settled, promised, bounds>>

RetryNext ==
    /\ Dog.at = "retry"
    /\ \E q \in queue :
           /\ queue' = queue \ {q}
           /\ Become("watchdog", [Idle EXCEPT !.at = "settle", !.op = "retry",
                                              !.o = q[1], !.ord = q[2]])
    /\ UNCHANGED <<tables, time, lock, seen, history, bounds>>

ScanRunning ==
    /\ Dog.at = "retry" /\ queue = {}
    /\ queue' = Rows({"matched", "executing"})
    /\ Goto("watchdog", "expire")
    /\ UNCHANGED <<tables, time, lock, seen, history, bounds>>

\* A running order's deadlines: how often is it to be timed out?
AllDead(q) == Assigned(q[2]) \cap beating = {} /\ age[q[1]] >= 1
Overdue(q) == age[q[1]] = 2
Expired(q) == IF q[2].status = "matched" THEN age[q[1]] >= 1 ELSE AllDead(q) \/ Overdue(q)

ExpireNext ==
    /\ Dog.at = "expire"
    /\ \E q \in queue :
           /\ queue' = queue \ {q}
           /\ IF Expired(q)
              THEN Become("watchdog",
                     [Idle EXCEPT !.at = "timeout", !.op = "timeout", !.o = q[1],
                                  !.ord = [q[2] EXCEPT !.status = "failed"],
                                  !.again = /\ q[2].status = "executing"
                                            /\ AllDead(q) /\ Overdue(q)])
              ELSE UNCHANGED thread
    /\ UNCHANGED <<tables, time, lock, seen, history, bounds>>

\* _timeout_order, under the lock: the miners are released first ...
TimeoutOrder ==
    /\ Dog.at = "timeout" /\ lock = "free"
    /\ lock' = "watchdog"
    /\ Become("watchdog", Loop(Dog, "release", Assigned(Dog.ord)))
    /\ UNCHANGED <<tables, time, queue, seen, history, bounds>>

\* Faulty: nothing catches the exception, and the thread ends.
PenaltyKills ==
    /\ Dog.at = "penalty"
    /\ lock' = "free"
    /\ IF Assigned(Dog.ord) \subseteq beating
       THEN /\ orders' = [orders EXCEPT ![Dog.o] = Dog.ord]
            /\ Become("watchdog", IF Dog.again
                                  THEN [Dog EXCEPT !.at = "timeout", !.again = FALSE]
                                  ELSE [Idle EXCEPT !.at = "expire"])
            /\ UNCHANGED queue
       ELSE Become("watchdog", [Idle EXCEPT !.at = "dead"]) /\ queue' = {} /\ UNCHANGED orders
    /\ UNCHANGED <<miners, time, seen, history, bounds>>

\* ... then the silent ones are punished through a field, pouw_score, that a
\* miner does not have: the exception skips the order's own update.
Penalty ==
    /\ Dog.at = "penalty"
    /\ lock' = "free"
    /\ IF Assigned(Dog.ord) \subseteq beating
       THEN /\ orders' = [orders EXCEPT ![Dog.o] = Dog.ord]
            /\ Become("watchdog", IF Dog.again
                                  THEN [Dog EXCEPT !.at = "timeout", !.again = FALSE]
                                  ELSE [Idle EXCEPT !.at = "expire"])
            /\ UNCHANGED queue
       ELSE Become("watchdog", Idle) /\ queue' = {} /\ UNCHANGED orders
    /\ UNCHANGED <<miners, time, seen, history, bounds>>

ScanMiners ==
    /\ Dog.at = "expire" /\ queue = {}
    /\ seen' = [m \in {n \in Miner : miners[n].status # "offline"} |-> miners[m]]
    /\ Goto("watchdog", "offline")
    /\ UNCHANGED <<tables, time, lock, queue, history, bounds>>

\* A silent miner's row, as it was read, goes offline.
OfflineNext ==
    /\ Dog.at = "offline"
    /\ \E m \in DOMAIN seen :
           /\ miners' = IF m \in beating THEN miners
                        ELSE [miners EXCEPT ![m] = [seen[m] EXCEPT !.status = "offline"]]
           /\ seen' = [n \in DOMAIN seen \ {m} |-> seen[n]]
    /\ UNCHANGED <<orders, time, lock, thread, queue, history, bounds>>

PassDone ==
    /\ Dog.at = "offline" /\ DOMAIN seen = {}
    /\ Become("watchdog", Idle)
    /\ UNCHANGED <<tables, time, lock, queue, seen, history, bounds>>

-----------------------------------------------------------------------------
(* Time, exceptions and crashes. *)

Lapse ==
    /\ Lapses
    /\ \E m \in beating : beating' = beating \ {m}
    /\ UNCHANGED <<tables, age, lock, thread, queue, seen, history, bounds>>

Tick(o) ==
    /\ orders[o].status \in {"matched", "executing"} /\ age[o] < 2
    /\ age' = [age EXCEPT ![o] = @ + 1]
    /\ UNCHANGED <<tables, beating, lock, thread, queue, seen, history, bounds>>

\* A statement of the database raises: the call, or the pass, ends there.
Raises(t) ==
    /\ thread[t].at # "idle"
    /\ failures < Failures /\ failures' = failures + 1
    /\ Become(t, Idle) /\ lock' = IF lock = t THEN "free" ELSE lock
    /\ IF t = "watchdog" THEN queue' = {} /\ seen' = [m \in {} |-> NewMiner(m)]
                         ELSE UNCHANGED <<queue, seen>>
    /\ UNCHANGED <<tables, time, history, rejoins, retries>>

\* A restart finds the tables and nothing else.
Crash ==
    /\ failures < Failures /\ failures' = failures + 1
    /\ thread' = [t \in Thread |-> Idle] /\ lock' = "free"
    /\ queue' = {} /\ seen' = [m \in {} |-> NewMiner(m)]
    /\ UNCHANGED <<tables, time, history, rejoins, retries>>

-----------------------------------------------------------------------------

RpcCall ==
    \/ RegisterMiner \/ TouchMiner \/ OnlineOrOffline \/ CreateOrder \/ StartExecution
    \/ CommitResult \/ RevealResult \/ SubmitRejected \/ CancelOrder \/ RetrySettlement

ThreadStep(t) ==
    MinerRead(t) \/ MinerWrite(t) \/ LoopDone(t) \/ Settles(t) \/ SettleFails(t)
        \/ Finish(t) \/ WriteOrder(t)

RpcStep == ThreadStep("rpc") \/ MatchOrder \/ NoMatch

DogStep ==
    \/ ThreadStep("watchdog")
    \/ ScanPending \/ RetryNext \/ ScanRunning \/ ExpireNext \/ TimeoutOrder
    \/ Penalty \/ ScanMiners \/ OfflineNext \/ PassDone

Next ==
    \/ RpcCall \/ RpcStep \/ DogStep
    \/ Lapse \/ Crash \/ \E t \in Thread : Raises(t)
    \/ \E o \in Order : Tick(o)

\* Both threads run and time passes; calls, failures and silence need not come.
Fairness ==
    /\ WF_vars(RpcStep) /\ WF_vars(DogStep)
    /\ \A o \in Order : WF_vars(Tick(o))

Spec == Init /\ [][Next]_vars /\ Fairness
-----------------------------------------------------------------------------
(* Properties. *)

TypeOK ==
    /\ \A o \in Order : /\ orders[o].status \in Status
                        /\ \A m \in Miner : orders[o].gpus[m] \in 0 .. GpuCount[o]
                        /\ {orders[o].commit, orders[o].result} \subseteq Hash \cup {NoHash}
    /\ \A m \in Miner : /\ miners[m].status \in {"offline", "available", "busy"}
                        /\ miners[m].free \in Int /\ miners[m].free <= Cap
                        /\ miners[m].current \subseteq Order
    /\ beating \subseteq Miner /\ lock \in Thread \cup {"free"}

\* "Strong consistency": an order that is finished has been paid for, though
\* three writers overwrite its row with copies they read earlier.
FinishedIsPaid == \A o \in Order : orders[o].status = "finished" => settled[o] > 0

\* An order is paid once, whatever stale copies are written over its row.  A
\* crash or an exception between the payment and the row that records it can
\* cost one more payment each; so can a retry by hand, but only one that
\* overlaps with the watchdog's own.
PaidOnce == \A o \in Order \ overlapped : settled[o] <= 1 + failures

\* A miner cannot change its mind: no row ever shows another result than the
\* one promised first, even if a stale copy has taken the promise back.
PromiseKept ==
    \A o \in Order :
        /\ orders[o].commit \in {NoHash, promised[o]}
        /\ orders[o].result \in {NoHash, promised[o]}

\* No pending settlement is forgotten, whatever ends the watchdog's passes:
\* it is tried again, or the order has left that state.
PendingIsRetried ==
    \A o \in Order :
        orders[o].status = "settlement_pending"
            ~> \/ Dog.op = "retry" /\ Dog.o = o
               \/ orders[o].status # "settlement_pending"

\* A running order whose miners have all fallen silent for good is failed by
\* the watchdog, or was taken further by a call.
DeadOrdersFail ==
    \A o \in Order :
        [](orders[o].status = "executing" => Assigned(orders[o]) \cap beating = {})
            => (orders[o].status = "executing" ~> orders[o].status # "executing")
=============================================================================
