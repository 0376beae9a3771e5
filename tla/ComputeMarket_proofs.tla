-------------------------- MODULE ComputeMarket_proofs --------------------------
(***************************************************************************)
(* TLAPS proofs about ComputeMarket, for every set of orders and miners    *)
(* and every bound.                                                        *)
(*                                                                         *)
(* Two layers.  Types gives every row and every copy its shape.  Claims is *)
(* the argument: who may still have an order paid, and who has paid it and *)
(* not yet written so.  An order can be paid by a call that reveals its    *)
(* result, by the watchdog that tries a pending settlement again, and by   *)
(* the call that does so by hand; all hold a copy of a row read earlier,   *)
(* so what excludes a second payment is what the table says while such a   *)
(* copy exists (RpcClaims, DogClaims) and that the two retries are kept    *)
(* apart (Apart), except for the orders in overlapped.                     *)
(***************************************************************************)
EXTENDS ComputeMarket, TLAPS

Label == {"idle", "match", "write", "loop", "change", "settle", "finish", "retry", "expire",
          "timeout", "penalty", "offline"}
Op == {"none", "create", "start", "commit", "reveal", "tee", "cancel", "retry", "manual",
       "timeout"}
Job == {"none", "occupy", "release", "online", "offline", "earn", "heartbeat", "trap"}

\* The rows that the tables may hold.
OrderFor(o) == {row \in OrderRow : \A m \in Miner : row.gpus[m] <= GpuCount[o]}
SomeMiner == {row \in MinerRow : row.free <= Cap}

Copy == [at : Label, op : Op, o : Order, ord : OrderRow, job : Job, todo : SUBSET Miner,
         m : Miner, row : SomeMiner, again : BOOLEAN]

InLoop(r) == r.at \in {"loop", "change"}

GoodCopy(r) ==
    /\ r \in Copy /\ r.ord \in OrderFor(r.o)
    /\ InLoop(r) => r.job # "none"

Types ==
    /\ orders \in [Order -> OrderRow] /\ miners \in [Miner -> SomeMiner]
    /\ \A o \in Order : orders[o] \in OrderFor(o)
    /\ thread \in [Thread -> Copy] /\ \A t \in Thread : GoodCopy(thread[t])
    /\ queue \subseteq Order \X OrderRow /\ \A q \in queue : q[2] \in OrderFor(q[1])
    /\ DOMAIN seen \subseteq Miner /\ \A m \in DOMAIN seen : seen[m] \in SomeMiner
    /\ beating \subseteq Miner /\ lock \in Thread \cup {"free"}
    /\ settled \in [Order -> Nat] /\ promised \in [Order -> Hash \cup {NoHash}]
    /\ failures \in Nat

-----------------------------------------------------------------------------
(* Rows and copies. *)

LEMMA NewRows ==
    /\ \A o \in Order, s \in Status : NewOrder(s) \in OrderFor(o) /\ NewOrder(s) \in OrderRow
    /\ \A m \in Miner : NewMiner(m) \in SomeMiner
<1>1. ASSUME NEW o \in Order, NEW s \in Status PROVE NewOrder(s) \in OrderRow
  BY DEF NewOrder, OrderRow
<1>2. ASSUME NEW o \in Order, NEW s \in Status, NEW m \in Miner
      PROVE  NewOrder(s).gpus[m] <= GpuCount[o]
  BY ComputeMarketAssumption DEF NewOrder
<1>3. ASSUME NEW m \in Miner PROVE NewMiner(m) \in SomeMiner
  BY ComputeMarketAssumption DEF NewMiner, SomeMiner, MinerRow
<1> QED
  BY <1>1, <1>2, <1>3 DEF OrderFor

LEMMA IdleGood == GoodCopy(Idle) /\ Idle.at = "idle" /\ Idle.op = "none"
<1>1. (CHOOSE o \in Order : TRUE) \in Order /\ (CHOOSE m \in Miner : TRUE) \in Miner
  BY ComputeMarketAssumption
<1>2. "none" \in Status
  BY DEF Status
<1> QED
  BY <1>1, <1>2, NewRows DEF Idle, GoodCopy, Copy, Label, Op, Job, InLoop

\* The row of an order with another status, and with another result.
LEMMA OrderRestated ==
    ASSUME NEW o \in Order, NEW row \in OrderFor(o), NEW s \in Status
    PROVE  /\ [row EXCEPT !.status = s] \in OrderFor(o)
           /\ [row EXCEPT !.status = s] \in OrderRow
           /\ row \in OrderRow
BY DEF OrderFor, OrderRow

\* What the loop makes of a miner's row.
LEMMA ChangedGood ==
    ASSUME NEW job \in Job \ {"none"}, NEW m \in Miner, NEW row \in SomeMiner, NEW o \in Order,
           NEW g \in Nat
    PROVE  Changed(job, m, row, o, g) \in SomeMiner
<1> DEFINE occupied == [row EXCEPT !.free = row.free - g, !.current = @ \cup {o},
                                   !.status = IF g = row.free THEN "busy" ELSE @]
           released == [row EXCEPT !.free = AtMost(row.free + g), !.current = @ \ {o},
                                   !.status = IF row.current \subseteq {o} THEN "available" ELSE @]
<1>0. row.free \in Int /\ row.free <= Cap /\ Cap \in Nat /\ Alloc[m] \in Int /\ Alloc[m] <= Cap
  BY ComputeMarketAssumption DEF SomeMiner, MinerRow
<1>1. occupied \in SomeMiner
  <2> DEFINE s == IF g = row.free THEN "busy" ELSE row.status
             f == row.free - g
  <2>1. s \in {"offline", "available", "busy"} /\ f \in Int /\ f <= Cap
    BY <1>0 DEF SomeMiner, MinerRow
  <2> HIDE DEF s, f
  <2>2. [row EXCEPT !.free = f, !.current = @ \cup {o}, !.status = s] \in SomeMiner
    BY <2>1 DEF SomeMiner, MinerRow
  <2> QED
    BY <2>2 DEF s, f
<1>2. released \in SomeMiner
  <2> DEFINE s == IF row.current \subseteq {o} THEN "available" ELSE row.status
             f == AtMost(row.free + g)
  <2>1. s \in {"offline", "available", "busy"} /\ f \in Int /\ f <= Cap
    BY <1>0 DEF SomeMiner, MinerRow, AtMost
  <2> HIDE DEF s, f
  <2>2. [row EXCEPT !.free = f, !.current = @ \ {o}, !.status = s] \in SomeMiner
    BY <2>1 DEF SomeMiner, MinerRow
  <2> QED
    BY <2>2 DEF s, f
<1>3. [row EXCEPT !.status = "available", !.free = Alloc[m]] \in SomeMiner
  BY <1>0 DEF SomeMiner, MinerRow
<1>4. [row EXCEPT !.status = "offline"] \in SomeMiner
  BY DEF SomeMiner, MinerRow
<1> HIDE DEF occupied, released
<1>5. Changed(job, m, row, o, g) = CASE job = "occupy" -> occupied
                                     [] job = "release" -> released
                                     [] job = "online" -> [row EXCEPT !.status = "available", !.free = Alloc[m]]
                                     [] job = "offline" -> [row EXCEPT !.status = "offline"]
                                     [] job \in {"earn", "heartbeat", "trap"} -> row
  BY DEF Changed, occupied, released
<1> QED
  BY <1>1, <1>2, <1>3, <1>4, <1>5 DEF Job

-----------------------------------------------------------------------------
(* Every step keeps the types. *)

LEMMA InitTypes == Init => Types
<1> SUFFICES ASSUME Init PROVE Types
  OBVIOUS
<1>1. "none" \in Status
  BY DEF Status
<1> QED
  BY <1>1, NewRows, IdleGood, ComputeMarketAssumption DEF Init, Types, Thread, GoodCopy

\* What the tables, the queues and the counters are made of.
TableTypes ==
    /\ orders \in [Order -> OrderRow] /\ miners \in [Miner -> SomeMiner]
    /\ \A o \in Order : orders[o] \in OrderFor(o)
QueueTypes ==
    /\ queue \subseteq Order \X OrderRow /\ \A q \in queue : q[2] \in OrderFor(q[1])
    /\ DOMAIN seen \subseteq Miner /\ \A m \in DOMAIN seen : seen[m] \in SomeMiner
PlainTypes ==
    /\ beating \subseteq Miner /\ lock \in Thread \cup {"free"}
    /\ settled \in [Order -> Nat] /\ promised \in [Order -> Hash \cup {NoHash}]
    /\ failures \in Nat

LEMMA TypesParts == Types => TableTypes /\ QueueTypes /\ PlainTypes
BY DEF Types, TableTypes, QueueTypes, PlainTypes

LEMMA Move ==
    ASSUME Types, NEW t \in Thread, NEW r, GoodCopy(r), Become(t, r) \/ UNCHANGED thread,
           TableTypes', QueueTypes', PlainTypes'
    PROVE  Types'
<1>1. thread' \in [Thread -> Copy] /\ \A x \in Thread : GoodCopy(thread'[x])
  BY DEF Types, Become, GoodCopy
<1> QED
  BY <1>1 DEF Types, TableTypes, QueueTypes, PlainTypes

\* Of a step that leaves variables alone.
LEMMA SameTypes ==
    ASSUME Types
    PROVE  /\ UNCHANGED tables => TableTypes'
           /\ UNCHANGED <<queue, seen>> => QueueTypes'
           /\ UNCHANGED <<time, lock, history, failures>> => PlainTypes'
           /\ UNCHANGED <<beating, settled, promised, failures>>
              /\ lock' \in Thread \cup {"free"} => PlainTypes'
BY DEF Types, TableTypes, QueueTypes, PlainTypes, tables, time, history

\* A copy that starts the loop, or ends it.
LEMMA LoopGood ==
    ASSUME NEW r, GoodCopy(r), NEW job \in Job \ {"none"}, NEW ms \in SUBSET Miner
    PROVE  GoodCopy(Loop(r, job, ms))
BY DEF GoodCopy, Copy, Loop, Label, InLoop

LEMMA GotoGood ==
    ASSUME NEW r, GoodCopy(r), NEW at \in Label \ {"loop", "change"}
    PROVE  GoodCopy([r EXCEPT !.at = at])
BY DEF GoodCopy, Copy, InLoop

LEMMA RestatedGood ==
    ASSUME NEW r, GoodCopy(r), NEW at \in Label \ {"loop", "change"}, NEW s \in Status
    PROVE  GoodCopy([r EXCEPT !.at = at, !.ord.status = s])
<1> DEFINE ord == [r.ord EXCEPT !.status = s]
<1>1. ord \in OrderFor(r.o) /\ ord \in OrderRow
  BY OrderRestated DEF GoodCopy, Copy
<1>2. [r EXCEPT !.at = at, !.ord.status = s] = [r EXCEPT !.at = at, !.ord = ord]
  BY DEF GoodCopy, Copy
<1> HIDE DEF ord
<1> QED
  BY <1>1, <1>2 DEF GoodCopy, Copy, InLoop

\* The copy a call begins with.
LEMMA BeginGood ==
    ASSUME NEW o \in Order, NEW op \in Op, NEW at \in Label \ {"loop", "change"},
           NEW ord \in OrderFor(o)
    PROVE  GoodCopy([Idle EXCEPT !.at = at, !.op = op, !.o = o, !.ord = ord])
BY IdleGood DEF GoodCopy, Copy, OrderFor, InLoop

LEMMA AssignedMiners == \A row : Assigned(row) \subseteq Miner
BY DEF Assigned

LEMMA LoopTypes ==
    ASSUME Types, NEW t \in Thread, MinerRead(t) \/ MinerWrite(t) \/ LoopDone(t)
    PROVE  Types'
<1> DEFINE r == thread[t]
<1>0. GoodCopy(r) /\ r \in Copy
  BY DEF Types
<1>1. CASE MinerRead(t)
  <2>1. PICK m \in r.todo :
           Become(t, [r EXCEPT !.at = "change", !.m = m, !.row = miners[m], !.todo = @ \ {m}])
    BY <1>1 DEF MinerRead
  <2> DEFINE new == [r EXCEPT !.at = "change", !.m = m, !.row = miners[m], !.todo = @ \ {m}]
  <2>2. m \in Miner /\ r.job # "none"
    BY <1>0, <1>1 DEF Copy, GoodCopy, InLoop, MinerRead
  <2>3. miners[m] \in SomeMiner
    BY <2>2 DEF Types
  <2>4. GoodCopy(new)
    BY <1>0, <2>2, <2>3 DEF GoodCopy, Copy, Label, InLoop
  <2>5. UNCHANGED <<tables, time, lock, queue, seen, history, bounds>>
    BY <1>1 DEF MinerRead
  <2>6. Become(t, new)
    BY <2>1
  <2> HIDE DEF new
  <2> QED
    BY <2>4, <2>5, <2>6, Move, SameTypes DEF bounds
<1>2. CASE MinerWrite(t)
  <2> DEFINE row == Changed(r.job, r.m, r.row, r.o, r.ord.gpus[r.m])
             new == [r EXCEPT !.at = "loop", !.row = NewMiner(r.m)]
  <2>1. /\ miners' = [miners EXCEPT ![r.m] = row] /\ Become(t, new)
        /\ beating' \subseteq beating \cup {r.m} /\ r.at = "change"
        /\ UNCHANGED <<orders, age, lock, queue, seen, history, bounds>>
    BY <1>2 DEF MinerWrite
  <2>2. /\ r.job \in Job \ {"none"} /\ r.m \in Miner /\ r.row \in SomeMiner /\ r.o \in Order
        /\ r.ord.gpus[r.m] \in Nat
    BY <1>0, <2>1 DEF Copy, GoodCopy, InLoop, OrderRow
  <2>3. row \in SomeMiner
    BY <2>2, ChangedGood
  <2>4. GoodCopy(new)
    BY <1>0, <2>2, NewRows DEF GoodCopy, Copy, Label, InLoop
  <2> HIDE DEF row, new
  <2>5. TableTypes' /\ PlainTypes'
    BY <2>1, <2>2, <2>3 DEF Types, TableTypes, PlainTypes, history, bounds
  <2>6. QueueTypes'
    BY <2>1, SameTypes
  <2> QED
    BY <2>1, <2>4, <2>5, <2>6, Move
<1>3. CASE LoopDone(t)
  <2>1. UNCHANGED <<tables, time, queue, seen, history, bounds>> /\ lock' \in {"free", lock}
    BY <1>3 DEF LoopDone
  <2>2. TableTypes' /\ QueueTypes' /\ PlainTypes'
    BY <2>1, SameTypes DEF Types, time, history, bounds
  <2>3. CASE AfterLoop(r) = "idle"
    BY <1>3, <2>2, <2>3, IdleGood, Move DEF LoopDone
  <2>4. CASE AfterLoop(r) # "idle"
    <3> DEFINE new == [r EXCEPT !.at = AfterLoop(r)]
    <3>1. Become(t, new)
      BY <1>3, <2>4 DEF LoopDone, Goto, Become, Types
    <3>2. AfterLoop(r) \in Label \ {"loop", "change"}
      BY DEF AfterLoop, Label
    <3>3. GoodCopy(new)
      BY <1>0, <3>2, GotoGood
    <3> HIDE DEF new
    <3> QED
      BY <2>2, <3>1, <3>3, Move
  <2> QED
    BY <2>3, <2>4
<1> QED
  BY <1>1, <1>2, <1>3

\* A thread takes up a copy, and nothing else changes.
LEMMA OnlyCopy ==
    ASSUME Types, NEW t \in Thread, NEW r, GoodCopy(r), Become(t, r),
           UNCHANGED <<tables, time, lock, queue, seen, history, failures>>
    PROVE  Types'
BY Move, SameTypes

\* A call that begins with the row of an order.
LEMMA BeginTypes ==
    ASSUME Types, NEW o \in Order, NEW op \in Op, NEW at \in Label \ {"loop", "change"},
           NEW ord \in OrderFor(o), Begin(o, op, at, ord),
           UNCHANGED <<tables, time, lock, queue, seen, history, bounds>>
    PROVE  Types'
<1>1. GoodCopy([Idle EXCEPT !.at = at, !.op = op, !.o = o, !.ord = ord])
  BY BeginGood
<1> QED
  BY <1>1, OnlyCopy DEF Begin, Thread, bounds

LEMMA CommitGood ==
    ASSUME NEW o \in Order, NEW row \in OrderFor(o), NEW h \in Hash
    PROVE  [row EXCEPT !.commit = h] \in OrderFor(o) /\ [row EXCEPT !.result = h] \in OrderFor(o)
BY DEF OrderFor, OrderRow

LEMMA CallTypes ==
    ASSUME Types, RpcCall
    PROVE  Types'
<1>0. \A o \in Order : orders[o] \in OrderFor(o)
  BY DEF Types
<1>a. "rpc" \in Thread
  BY DEF Thread
<1>1. CASE RegisterMiner
  <2>1. TableTypes' /\ PlainTypes'
    BY <1>1, NewRows DEF RegisterMiner, Types, TableTypes, PlainTypes, history
  <2>2. UNCHANGED <<thread, queue, seen>>
    BY <1>1 DEF RegisterMiner
  <2> QED
    BY <1>a, <2>1, <2>2, SameTypes, Move, IdleGood
<1>2. CASE TouchMiner \/ OnlineOrOffline
  <2>1. PICK m \in Miner, job \in {"heartbeat", "trap", "online", "offline"} :
            Become("rpc", Loop(Idle, job, {m}))
    BY <1>2 DEF TouchMiner, OnlineOrOffline
  <2>2. UNCHANGED <<tables, time, lock, queue, seen, history, failures>>
    BY <1>2 DEF TouchMiner, OnlineOrOffline, bounds
  <2>3. GoodCopy(Loop(Idle, job, {m}))
    BY IdleGood, LoopGood DEF Job
  <2> QED
    BY <1>a, <2>1, <2>2, <2>3, OnlyCopy
<1>3. CASE CreateOrder
  <2> DEFINE row == NewOrder("created")
  <2>1. PICK o \in Order : /\ orders' = [orders EXCEPT ![o] = row]
                           /\ Begin(o, "create", "match", row)
    BY <1>3 DEF CreateOrder, Begin
  <2>2. row \in OrderFor(o) /\ row \in OrderRow
    BY NewRows DEF Status
  <2> HIDE DEF row
  <2>3. UNCHANGED <<miners, time, lock, queue, seen, history, bounds>>
    BY <1>3 DEF CreateOrder
  <2>4. TableTypes'
    BY <2>1, <2>2, <2>3 DEF Types, TableTypes
  <2>5. GoodCopy([Idle EXCEPT !.at = "match", !.op = "create", !.o = o, !.ord = row])
    BY <2>2, BeginGood DEF Label, Op
  <2> QED
    BY <1>a, <2>1, <2>3, <2>4, <2>5, SameTypes, Move DEF Begin, bounds
<1>4. CASE StartExecution
  <2>1. PICK o \in Order : Begin(o, "start", "write", [orders[o] EXCEPT !.status = "executing"])
    BY <1>4 DEF StartExecution
  <2>2. [orders[o] EXCEPT !.status = "executing"] \in OrderFor(o)
    BY <1>0, OrderRestated DEF Status
  <2> QED
    BY <1>4, <2>1, <2>2, BeginTypes DEF StartExecution, Label, Op
<1>5. CASE CommitResult
  <2>1. PICK o \in Order, h \in Hash : Begin(o, "commit", "write", [orders[o] EXCEPT !.commit = h])
    BY <1>5 DEF CommitResult
  <2>2. [orders[o] EXCEPT !.commit = h] \in OrderFor(o)
    BY <1>0, CommitGood
  <2> QED
    BY <1>5, <2>1, <2>2, BeginTypes DEF CommitResult, Label, Op
<1>6. CASE RevealResult \/ SubmitRejected
  <2>1. PICK o \in Order, h \in Hash \cup {NoHash} :
             \/ h \in Hash /\ Begin(o, "reveal", "settle", [orders[o] EXCEPT !.result = h])
             \/ Begin(o, "tee", "write", [orders[o] EXCEPT !.status = "failed"])
    BY <1>6, ComputeMarketAssumption DEF RevealResult, SubmitRejected
  <2>2. /\ h \in Hash => [orders[o] EXCEPT !.result = h] \in OrderFor(o)
        /\ [orders[o] EXCEPT !.status = "failed"] \in OrderFor(o)
    BY <1>0, CommitGood, OrderRestated DEF Status
  <2> QED
    BY <1>6, <2>1, <2>2, BeginTypes DEF RevealResult, SubmitRejected, Label, Op
<1>7. CASE CancelOrder
  <2>1. PICK o \in Order :
           LET r == [Idle EXCEPT !.op = "cancel", !.o = o,
                                 !.ord = [orders[o] EXCEPT !.status = "cancelled"]] IN
           \/ Become("rpc", [r EXCEPT !.at = "write"])
           \/ Become("rpc", Loop(r, "release", Assigned(orders[o])))
    BY <1>7 DEF CancelOrder
  <2> DEFINE ord == [orders[o] EXCEPT !.status = "cancelled"]
             r == [Idle EXCEPT !.op = "cancel", !.o = o, !.ord = ord]
  <2>2. ord \in OrderFor(o)
    BY <1>0, OrderRestated DEF Status
  <2>3. GoodCopy(r)
    <3> HIDE DEF ord
    <3> QED
      BY <2>2, IdleGood DEF GoodCopy, Copy, OrderFor, InLoop, Op
  <2> HIDE DEF r
  <2>4. GoodCopy([r EXCEPT !.at = "write"]) /\ GoodCopy(Loop(r, "release", Assigned(orders[o])))
    BY <2>3, GotoGood, LoopGood, AssignedMiners DEF Label, Job
  <2>5. UNCHANGED <<tables, time, lock, queue, seen, history, failures>>
    BY <1>7 DEF CancelOrder, bounds
  <2> QED
    BY <1>a, <2>1, <2>4, <2>5, OnlyCopy DEF r
<1>8. CASE RetrySettlement
  <2>1. PICK o \in Order : Begin(o, "manual", "settle", orders[o])
    BY <1>8 DEF RetrySettlement
  <2>2. UNCHANGED <<tables, time, lock, queue, seen, settled, promised, failures>>
    BY <1>8 DEF RetrySettlement
  <2>3. GoodCopy([Idle EXCEPT !.at = "settle", !.op = "manual", !.o = o, !.ord = orders[o]])
    BY <1>0, BeginGood DEF Label, Op
  <2>4. lock' \in Thread \cup {"free"}
    BY <2>2 DEF Types
  <2> QED
    BY <1>a, <2>1, <2>2, <2>3, <2>4, SameTypes, Move DEF Begin, time
<1> QED
  BY <1>1, <1>2, <1>3, <1>4, <1>5, <1>6, <1>7, <1>8 DEF RpcCall

LEMMA MatchTypes == ASSUME Types, MatchOrder \/ NoMatch PROVE Types'
<1>a. "rpc" \in Thread /\ GoodCopy(thread["rpc"])
  BY DEF Types, Thread
<1>1. CASE MatchOrder
  <2> DEFINE r == thread["rpc"]
  <2>1. PICK g \in Assignments(r.o) :
           LET row == [r.ord EXCEPT !.status = "matched", !.gpus = g] IN
           /\ orders' = [orders EXCEPT ![r.o] = row]
           /\ Become("rpc", Loop([r EXCEPT !.ord = row], "occupy", Assigned(row)))
    BY <1>1 DEF MatchOrder
  <2> DEFINE row == [r.ord EXCEPT !.status = "matched", !.gpus = g]
             base == [r EXCEPT !.ord = row]
  <2>2. g \in [Miner -> 0 .. GpuCount[r.o]] /\ r.o \in Order /\ GpuCount[r.o] \in Nat
    BY <1>a, ComputeMarketAssumption DEF Assignments, GoodCopy, Copy
  <2>3. row \in OrderFor(r.o) /\ row \in OrderRow
    <3>1. r.ord \in OrderRow
      BY <1>a DEF GoodCopy, Copy
    <3>2. g \in [Miner -> Nat] /\ \A m \in Miner : g[m] <= GpuCount[r.o]
      BY <2>2
    <3>3. row \in OrderRow /\ row.gpus = g
      BY <3>1, <3>2 DEF OrderRow, Status
    <3> QED
      BY <3>2, <3>3 DEF OrderFor
  <2>4. r.at = "match"
    BY <1>1 DEF MatchOrder
  <2> HIDE DEF row
  <2>5. GoodCopy(base)
    BY <1>a, <2>3, <2>4 DEF GoodCopy, Copy, InLoop
  <2> HIDE DEF base
  <2>6. GoodCopy(Loop(base, "occupy", Assigned(row)))
    BY <2>5, LoopGood, AssignedMiners DEF Job
  <2>7. Become("rpc", Loop(base, "occupy", Assigned(row))) /\ orders' = [orders EXCEPT ![r.o] = row]
    BY <2>1 DEF base, row
  <2>8. UNCHANGED <<miners, beating, queue, seen, history, bounds>> /\ lock' = "rpc"
    BY <1>1 DEF MatchOrder
  <2>9. TableTypes' /\ PlainTypes' /\ QueueTypes'
    BY <1>a, <2>2, <2>3, <2>7, <2>8, SameTypes DEF Types, TableTypes, history, bounds
  <2> QED
    BY <1>a, <2>6, <2>7, <2>9, Move
<1>2. CASE NoMatch
  BY <1>a, <1>2, IdleGood, OnlyCopy DEF NoMatch, bounds
<1> QED
  BY <1>1, <1>2

LEMMA SettleTypes ==
    ASSUME Types, NEW t \in Thread, Settles(t) \/ SettleFails(t) \/ Finish(t) \/ WriteOrder(t)
    PROVE  Types'
<1> DEFINE r == thread[t]
<1>0. GoodCopy(r) /\ r.o \in Order /\ r.ord \in OrderRow /\ r.ord \in OrderFor(r.o)
  BY DEF Types, GoodCopy, Copy
<1>1. CASE Settles(t)
  <2>1. /\ settled' = [settled EXCEPT ![r.o] = @ + 1]
        /\ Become(t, Loop(r, "earn", Assigned(r.ord)))
        /\ UNCHANGED <<tables, time, lock, queue, seen, promised, bounds>>
    BY <1>1 DEF Settles
  <2>2. GoodCopy(Loop(r, "earn", Assigned(r.ord)))
    BY <1>0, LoopGood, AssignedMiners DEF Job
  <2>3. PlainTypes'
    BY <1>0, <2>1 DEF Types, PlainTypes, time, bounds
  <2> QED
    BY <2>1, <2>2, <2>3, SameTypes, Move
<1>2. CASE SettleFails(t) \/ Finish(t)
  <2>1. PICK s \in {"settlement_pending", "finished"} :
             Become(t, [r EXCEPT !.at = "write", !.ord.status = s])
    BY <1>2 DEF SettleFails, Finish
  <2>2. GoodCopy([r EXCEPT !.at = "write", !.ord.status = s])
    BY <1>0, RestatedGood DEF Label, Status
  <2>3. UNCHANGED <<tables, time, lock, queue, seen, history, failures>>
    BY <1>2 DEF SettleFails, Finish, bounds
  <2> QED
    BY <2>1, <2>2, <2>3, OnlyCopy
<1>3. CASE WriteOrder(t)
  <2>1. /\ orders' = [orders EXCEPT ![r.o] = r.ord]
        /\ promised' = [promised EXCEPT ![r.o] = r.ord.commit] \/ promised' = promised
        /\ Become(t, AfterWrite(r))
        /\ UNCHANGED <<miners, beating, lock, queue, seen, settled, bounds>>
    BY <1>3 DEF WriteOrder
  <2>2. r.ord.commit \in Hash \cup {NoHash}
    BY <1>0 DEF OrderRow
  <2>3. TableTypes' /\ PlainTypes' /\ QueueTypes'
    BY <1>0, <2>1, <2>2, SameTypes DEF Types, TableTypes, PlainTypes, bounds
  <2>4. GoodCopy(Loop(r, "release", Assigned(r.ord)))
    BY <1>0, LoopGood, AssignedMiners DEF Job
  <2>5. GoodCopy([Idle EXCEPT !.at = "retry"])
    BY IdleGood, GotoGood DEF Label
  <2>6. GoodCopy(AfterWrite(r))
    BY <2>4, <2>5, IdleGood DEF AfterWrite
  <2> QED
    BY <2>1, <2>3, <2>6, Move
<1> QED
  BY <1>1, <1>2, <1>3

LEMMA DogTypes ==
    ASSUME Types, ScanPending \/ RetryNext \/ ScanRunning \/ ExpireNext \/ TimeoutOrder
                  \/ Penalty \/ ScanMiners \/ OfflineNext \/ PassDone
    PROVE  Types'
<1>0. "watchdog" \in Thread /\ GoodCopy(Dog) /\ Dog.o \in Order /\ Dog.ord \in OrderFor(Dog.o)
      /\ Dog.ord \in OrderRow
  BY DEF Types, Thread, Dog, GoodCopy, Copy
<1>a. \A at \in Label \ {"loop", "change"} :
          GoodCopy([Dog EXCEPT !.at = at]) /\ GoodCopy([Idle EXCEPT !.at = at])
  BY <1>0, IdleGood, GotoGood
<1>b. \A at : Goto("watchdog", at) => Become("watchdog", [Dog EXCEPT !.at = at])
  BY DEF Goto, Become, Types, Thread, Dog
<1>1. CASE ScanPending \/ ScanRunning
  <2>1. PICK at \in {"retry", "expire"} : Become("watchdog", [Dog EXCEPT !.at = at])
    BY <1>1, <1>b DEF ScanPending, ScanRunning
  <2>2. /\ \A q \in queue' : \E o \in Order : q = <<o, orders[o]>>
        /\ UNCHANGED <<tables, time, lock, seen, settled, promised, failures>>
    BY <1>1 DEF ScanPending, ScanRunning, Rows, history, bounds
  <2>3. QueueTypes'
    BY <2>2 DEF Types, QueueTypes
  <2>4. lock' \in Thread \cup {"free"}
    BY <2>2 DEF Types
  <2> QED
    BY <1>0, <1>a, <2>1, <2>2, <2>3, <2>4, SameTypes, Move DEF Label, time
<1>2. CASE RetryNext
  <2>1. PICK q \in queue :
           /\ queue' = queue \ {q}
           /\ Become("watchdog", [Idle EXCEPT !.at = "settle", !.op = "retry",
                                              !.o = q[1], !.ord = q[2]])
    BY <1>2 DEF RetryNext
  <2>2. q[1] \in Order /\ q[2] \in OrderFor(q[1])
    BY DEF Types
  <2>3. GoodCopy([Idle EXCEPT !.at = "settle", !.op = "retry", !.o = q[1], !.ord = q[2]])
    BY <2>2, BeginGood DEF Label, Op
  <2>4. UNCHANGED <<tables, time, lock, seen, history, bounds>>
    BY <1>2 DEF RetryNext
  <2>5. QueueTypes'
    BY <2>1, <2>4 DEF Types, QueueTypes
  <2> QED
    BY <1>0, <2>1, <2>3, <2>4, <2>5, SameTypes, Move DEF bounds
<1>3. CASE ExpireNext
  <2>1. PICK q \in queue :
           /\ queue' = queue \ {q}
           /\ \/ \E again \in BOOLEAN :
                   Become("watchdog",
                     [Idle EXCEPT !.at = "timeout", !.op = "timeout", !.o = q[1],
                                  !.ord = [q[2] EXCEPT !.status = "failed"], !.again = again])
              \/ UNCHANGED thread
    <3>1. PICK q \in queue :
           /\ queue' = queue \ {q}
           /\ IF Expired(q)
              THEN Become("watchdog",
                     [Idle EXCEPT !.at = "timeout", !.op = "timeout", !.o = q[1],
                                  !.ord = [q[2] EXCEPT !.status = "failed"],
                                  !.again = /\ q[2].status = "executing"
                                            /\ AllDead(q) /\ Overdue(q)])
              ELSE UNCHANGED thread
      BY <1>3 DEF ExpireNext
    <3>2. (q[2].status = "executing" /\ AllDead(q) /\ Overdue(q)) \in BOOLEAN
      OBVIOUS
    <3> QED
      BY <3>1, <3>2
  <2>2. q[1] \in Order /\ [q[2] EXCEPT !.status = "failed"] \in OrderFor(q[1])
    <3>1. q[1] \in Order /\ q[2] \in OrderFor(q[1])
      BY DEF Types
    <3> QED
      BY <3>1, OrderRestated DEF Status
  <2>3. UNCHANGED <<tables, time, lock, seen, history, bounds>>
    BY <1>3 DEF ExpireNext
  <2>4. QueueTypes'
    BY <2>1, <2>3 DEF Types, QueueTypes
  <2>5. ASSUME NEW again \in BOOLEAN
        PROVE  GoodCopy([Idle EXCEPT !.at = "timeout", !.op = "timeout", !.o = q[1],
                             !.ord = [q[2] EXCEPT !.status = "failed"], !.again = again])
    <3> DEFINE ord == [q[2] EXCEPT !.status = "failed"]
    <3> HIDE DEF ord
    <3>1. ord \in OrderFor(q[1])
      BY <2>2 DEF ord
    <3>2. GoodCopy([Idle EXCEPT !.at = "timeout", !.op = "timeout", !.o = q[1], !.ord = ord,
                                !.again = again])
      BY <2>2, <3>1, IdleGood DEF GoodCopy, Copy, OrderFor, InLoop, Label, Op
    <3> QED
      BY <3>2 DEF ord
  <2> QED
    BY <1>0, <2>1, <2>3, <2>4, <2>5, SameTypes, Move, IdleGood DEF bounds
<1>4. CASE TimeoutOrder
  <2>1. GoodCopy(Loop(Dog, "release", Assigned(Dog.ord)))
    BY <1>0, LoopGood, AssignedMiners DEF Job
  <2>2. /\ Become("watchdog", Loop(Dog, "release", Assigned(Dog.ord)))
        /\ lock' = "watchdog" /\ UNCHANGED <<tables, time, queue, seen, history, bounds>>
    BY <1>4 DEF TimeoutOrder
  <2> QED
    BY <1>0, <2>1, <2>2, SameTypes, Move DEF time, history, bounds
<1>5. CASE Penalty
  <2>1. /\ orders' = [orders EXCEPT ![Dog.o] = Dog.ord] \/ orders' = orders
        /\ queue' \subseteq queue /\ lock' = "free"
        /\ \/ Become("watchdog", [Dog EXCEPT !.at = "timeout", !.again = FALSE])
           \/ Become("watchdog", [Idle EXCEPT !.at = "expire"])
           \/ Become("watchdog", Idle)
        /\ UNCHANGED <<miners, time, seen, history, bounds>>
    BY <1>5 DEF Penalty
  <2>2. TableTypes' /\ QueueTypes' /\ PlainTypes'
    BY <1>0, <2>1 DEF Types, TableTypes, QueueTypes, PlainTypes, time, history, bounds
  <2>3. GoodCopy([Dog EXCEPT !.at = "timeout", !.again = FALSE])
    BY <1>0 DEF GoodCopy, Copy, InLoop, Label
  <2>4. GoodCopy([Idle EXCEPT !.at = "expire"])
    BY <1>a DEF Label
  <2> QED
    BY <1>0, <2>1, <2>2, <2>3, <2>4, IdleGood, Move
<1>6. CASE ScanMiners
  <2>1. /\ seen' = [m \in {n \in Miner : miners[n].status # "offline"} |-> miners[m]]
        /\ Become("watchdog", [Dog EXCEPT !.at = "offline"])
        /\ UNCHANGED <<tables, time, lock, queue, history, bounds>>
    BY <1>6, <1>b DEF ScanMiners
  <2>2. QueueTypes'
    BY <2>1 DEF Types, QueueTypes
  <2> QED
    BY <1>0, <1>a, <2>1, <2>2, SameTypes, Move DEF Label, bounds
<1>7. CASE OfflineNext
  <2>1. PICK m \in DOMAIN seen :
           /\ miners' = IF m \in beating THEN miners
                        ELSE [miners EXCEPT ![m] = [seen[m] EXCEPT !.status = "offline"]]
           /\ seen' = [n \in DOMAIN seen \ {m} |-> seen[n]]
    BY <1>7 DEF OfflineNext
  <2>2. UNCHANGED <<orders, time, lock, thread, queue, history, bounds>>
    BY <1>7 DEF OfflineNext
  <2>3. [seen[m] EXCEPT !.status = "offline"] \in SomeMiner
    <3>1. seen[m] \in SomeMiner
      BY DEF Types
    <3> QED
      BY <3>1 DEF SomeMiner, MinerRow
  <2>4. TableTypes' /\ QueueTypes'
    BY <2>1, <2>2, <2>3 DEF Types, TableTypes, QueueTypes
  <2> QED
    BY <1>0, <2>2, <2>4, SameTypes, Move, IdleGood DEF bounds
<1>8. CASE PassDone
  BY <1>0, <1>8, IdleGood, OnlyCopy DEF PassDone, bounds
<1> QED
  BY <1>1, <1>2, <1>3, <1>4, <1>5, <1>6, <1>7, <1>8

LEMMA WorldTypes ==
    ASSUME Types, \/ Lapse \/ Crash \/ UNCHANGED vars
                  \/ (\E t \in Thread : Raises(t)) \/ \E o \in Order : Tick(o)
    PROVE  Types'
<1>1. CASE Crash
  BY <1>1, IdleGood, NewRows DEF Crash, Types, GoodCopy, Thread, tables, time, history
<1>2. CASE Lapse \/ \E o \in Order : Tick(o)
  BY <1>2 DEF Lapse, Tick, Types, tables, history, bounds
<1>3. CASE UNCHANGED vars
  BY <1>3 DEF vars, Types, tables, time, history, bounds
<1>4. CASE \E t \in Thread : Raises(t)
  <2>1. PICK t \in Thread : Raises(t)
    BY <1>4
  <2>2. /\ Become(t, Idle) /\ lock' \in {lock, "free"} /\ failures' = failures + 1
        /\ \/ queue' = {} /\ DOMAIN seen' = {}
           \/ UNCHANGED <<queue, seen>>
        /\ UNCHANGED <<tables, time, history>>
    BY <2>1 DEF Raises
  <2>3. TableTypes' /\ PlainTypes' /\ QueueTypes'
    BY <2>2 DEF Types, TableTypes, PlainTypes, QueueTypes, tables, time, history
  <2> QED
    BY <2>2, <2>3, IdleGood, Move
<1> QED
  BY <1>1, <1>2, <1>3, <1>4

THEOREM TypesHold == Spec => []Types
<1>1. ASSUME Types, [Next]_vars PROVE Types'
  <2>1. "rpc" \in Thread /\ "watchdog" \in Thread
    BY DEF Thread
  <2>2. \A t \in Thread : ThreadStep(t) => Types'
    BY <1>1, LoopTypes, SettleTypes DEF ThreadStep
  <2> QED
    BY <1>1, <2>1, <2>2, CallTypes, MatchTypes, DogTypes, WorldTypes
       DEF Next, RpcStep, DogStep
<1> QED
  BY InitTypes, <1>1, PTL DEF Spec

-----------------------------------------------------------------------------
(* Who may have an order paid, and who has. *)

\* It has not been paid since the last failure, or may be paid at will.
Unpaid(o) == o \in overlapped \/ settled[o] <= failures

\* The copy has been paid for, and that is not written yet.
Paid(r) ==
    \/ r.at = "finish"
    \/ InLoop(r) /\ r.job = "earn"
    \/ r.at = "write" /\ r.ord.status = "finished"

\* The call has read the order, and has still to write it.
Holds(r) ==
    \/ r.at \in {"match", "write", "settle", "finish"}
    \/ InLoop(r) /\ (r.job = "earn" \/ r.op = "cancel")

Early == {"none", "created", "matched"}
Payable == Early \cup {"executing", "settlement_pending"}
Late == {"settlement_pending", "finished", "failed"}

\* A row shows the result promised, and is finished only when paid.
Kept(o, row) ==
    /\ row.result \in {NoHash, promised[o]}
    /\ row.status = "finished" => settled[o] > 0
Honest(o, row) == Kept(o, row) /\ row.commit \in {NoHash, promised[o]}

OrderClaims(o) ==
    /\ Honest(o, orders[o])
    /\ orders[o].status \in Early => promised[o] = NoHash
    /\ orders[o].status = "executing" => orders[o].commit = promised[o]
    /\ o \in overlapped => orders[o].status \in Late
    /\ o \in overlapped \/ settled[o] <= 1 + failures
    /\ orders[o].status \in Payable => Unpaid(o) \/ \E t \in Thread : thread[t].o = o /\ Paid(thread[t])

\* What a copy about to be written may be.
WriteClaims(r) ==
    \/ r.ord.status \in {"finished", "failed", "cancelled"}
    \/ r.ord.status = "settlement_pending" /\ Unpaid(r.o)
    \/ /\ r.op \in {"start", "commit"} /\ r.ord.status = "executing" /\ Unpaid(r.o)
       /\ r.op = "start" => promised[r.o] = NoHash

CopyClaims(r) ==
    /\ r.op # "commit" => Honest(r.o, r.ord)
    /\ r.op = "commit" => r.at = "write" /\ Kept(r.o, r.ord) /\ promised[r.o] \in {NoHash, r.ord.commit}
    /\ Paid(r) => settled[r.o] > 0
    /\ r.at = "settle" => Unpaid(r.o)
    /\ r.at \in {"settle", "finish"} \/ (InLoop(r) /\ r.job = "earn") 
          => r.op \in {"reveal", "retry", "manual"}
    /\ r.op \in {"retry", "manual"} => r.ord.status \in Late
    /\ r.op = "cancel" => r.ord.status = "cancelled"
    /\ r.at = "write" => WriteClaims(r)

\* Of the RPC thread: what it holds is not pending, but for the retry by hand.
RpcClaims(r) ==
    /\ r.op \notin {"retry", "timeout"}
    /\ Holds(r) /\ r.op # "manual" =>
          orders[r.o].status # "settlement_pending" /\ r.o \notin overlapped
    /\ r.at = "match" => r.ord = NewOrder("created") /\ promised[r.o] = NoHash /\ Unpaid(r.o)

\* Of the watchdog with the queue qs: what it tries again is pending.
DogClaims(r, qs) ==
    /\ r.op \in {"none", "retry", "timeout"}
    /\ r.op = "none" => r.at \in {"idle", "retry", "expire", "offline"}
    /\ r.op = "retry" =>
          /\ r.at \in {"settle", "loop", "change", "finish", "write"}
          /\ InLoop(r) => r.job = "earn"
          /\ r.o \notin overlapped => orders[r.o].status = "settlement_pending"
          /\ \A q \in qs : q[1] # r.o
    /\ r.op = "timeout" =>
          /\ r.at \in {"timeout", "loop", "change", "penalty"} /\ r.ord.status = "failed"
          /\ InLoop(r) => r.job = "release"
    /\ r.at = "retry" \/ r.op = "retry" => \A q \in qs : q[2].status = "settlement_pending"
    /\ r.at = "expire" \/ r.op = "timeout" => \A q \in qs : q[2].status \in {"matched", "executing"}
    /\ r.at \in {"idle", "offline"} => qs = {}

QueueClaims ==
    /\ \A q \in queue : Honest(q[1], q[2])
    /\ \A q \in queue : q[2].status = "settlement_pending" =>
          /\ Unpaid(q[1])
          /\ q[1] \notin overlapped => orders[q[1]].status = "settlement_pending"
    /\ \A p, q \in queue : p[1] = q[1] => p = q

\* The two retries of an order are apart, or the order counts as overlapped.
Apart ==
    LET r == thread["rpc"] IN r.op = "manual" /\ r.o \notin overlapped => ~DogHolds(r.o)

Claims ==
    /\ \A o \in Order : OrderClaims(o)
    /\ \A t \in Thread : CopyClaims(thread[t])
    /\ RpcClaims(thread["rpc"]) /\ DogClaims(Dog, queue) /\ QueueClaims /\ Apart

-----------------------------------------------------------------------------
(* Lemmas. *)

\* An idle thread claims nothing.
LEMMA IdleClaims ==
    /\ ~Paid(Idle) /\ ~Holds(Idle) /\ CopyClaims(Idle) /\ RpcClaims(Idle)
    /\ DogClaims(Idle, {})
<1>1. /\ Idle.at = "idle" /\ Idle.op = "none" /\ Idle.ord.status = "none"
      /\ Idle.ord.commit = NoHash /\ Idle.ord.result = NoHash
  BY DEF Idle, NewOrder
<1>2. ~Paid(Idle) /\ ~Holds(Idle)
  BY <1>1 DEF Paid, Holds, InLoop
<1>3. Honest(Idle.o, Idle.ord)
  BY <1>1 DEF Honest, Kept
<1>4. CopyClaims(Idle)
  BY <1>1, <1>2, <1>3 DEF CopyClaims, InLoop
<1>5. RpcClaims(Idle) /\ DogClaims(Idle, {})
  BY <1>1, <1>2 DEF RpcClaims, DogClaims, InLoop
<1> QED
  BY <1>2, <1>4, <1>5

LEMMA InitClaims == Init => Claims
<1> SUFFICES ASSUME Init PROVE Claims
  OBVIOUS
<1>1. Dog = Idle /\ thread["rpc"] = Idle /\ \A t \in Thread : thread[t] = Idle
  BY DEF Init, Dog, Thread
<1>2. \A o \in Order : OrderClaims(o)
  BY DEF Init, OrderClaims, Honest, Kept, NewOrder, Unpaid, Early, Payable
<1>3. QueueClaims
  BY DEF Init, QueueClaims
<1>4. queue = {}
  BY DEF Init
<1>5. Apart
  BY <1>1, IdleGood DEF Apart
<1> QED
  BY <1>1, <1>2, <1>3, <1>4, <1>5, IdleClaims DEF Claims

\* A step after which one thread holds another copy, and the tables of orders,
\* the queue and the payments are as they were.
LEMMA Quiet ==
    ASSUME Types, Claims, NEW t \in Thread, NEW r, Become(t, r),
           UNCHANGED <<orders, queue, history, failures>>,
           CopyClaims(r), t = "rpc" => RpcClaims(r), t = "watchdog" => DogClaims(r, queue),
           Paid(thread[t]) => Paid(r) /\ r.o = thread[t].o,
           r.op \in {"manual", "retry"} => r.op = thread[t].op /\ r.o = thread[t].o
    PROVE  Claims'
<1>1. thread' = [thread EXCEPT ![t] = r] /\ thread \in [Thread -> Copy]
  BY DEF Become, Types
<1>2. UNCHANGED <<orders, queue, settled, promised, overlapped, failures>>
  BY DEF history
<1>3. \A o \in Order : OrderClaims(o)'
  <2> SUFFICES ASSUME NEW o \in Order PROVE OrderClaims(o)'
    OBVIOUS
  <2>1. OrderClaims(o)
    BY DEF Claims
  <2>2. ASSUME NEW x \in Thread, thread[x].o = o, Paid(thread[x])
        PROVE  thread'[x].o = o /\ Paid(thread'[x])
    BY <1>1, <2>2
  <2>3. (\E x \in Thread : thread[x].o = o /\ Paid(thread[x]))
           => \E x \in Thread : thread'[x].o = o /\ Paid(thread'[x])
    BY <2>2
  <2> QED
    BY <1>2, <2>1, <2>3 DEF OrderClaims, Honest, Kept, Unpaid, Paid, InLoop
<1>4. \A x \in Thread : CopyClaims(thread[x])'
  <2> SUFFICES ASSUME NEW x \in Thread PROVE CopyClaims(thread[x])'
    OBVIOUS
  <2>1. CopyClaims(thread'[x])
    BY <1>1 DEF Claims
  <2> QED
    BY <1>2, <2>1 DEF CopyClaims, WriteClaims, Honest, Kept, Unpaid, Paid, InLoop
<1>5. RpcClaims(thread["rpc"])'
  <2>1. RpcClaims(thread'["rpc"])
    BY <1>1 DEF Claims, Thread
  <2> QED
    BY <1>2, <2>1 DEF RpcClaims, Holds, InLoop, Unpaid
<1>6. DogClaims(Dog, queue)'
  <2>1. DogClaims(thread'["watchdog"], queue)
    BY <1>1 DEF Claims, Thread, Dog
  <2> QED
    BY <1>2, <2>1 DEF DogClaims, InLoop, Dog
<1>7. QueueClaims'
  BY <1>2 DEF Claims, QueueClaims, Honest, Kept, Unpaid
<1>8. Apart'
  <2>1. /\ thread'["rpc"].op = "manual" => /\ thread["rpc"].op = "manual"
                                           /\ thread'["rpc"].o = thread["rpc"].o
        /\ Dog'.op = "retry" => Dog.op = "retry" /\ Dog'.o = Dog.o
    <3>1. CASE t = "rpc"
      <4>1. Dog' = Dog /\ thread'["rpc"] = r /\ r.op # "retry"
        BY <1>1, <3>1 DEF Dog, Thread, RpcClaims
      <4> QED
        BY <3>1, <4>1
    <3>2. CASE t = "watchdog"
      <4>1. Dog' = r /\ thread'["rpc"] = thread["rpc"] /\ r.op # "manual"
        BY <1>1, <3>2 DEF Dog, Thread, DogClaims
      <4> QED
        BY <3>2, <4>1 DEF Dog
    <3> QED
      BY <3>1, <3>2 DEF Thread
  <2>2. Apart
    BY DEF Claims
  <2> QED
    BY <1>2, <2>1, <2>2 DEF Apart, DogHolds
<1> QED
  BY <1>3, <1>4, <1>5, <1>6, <1>7, <1>8 DEF Claims

\* A step that moves no thread and no order.
LEMMA StillClaims == ASSUME Claims, UNCHANGED <<orders, thread, queue, history, failures>> PROVE Claims'
BY DEF Claims, OrderClaims, CopyClaims, WriteClaims, RpcClaims, DogClaims, QueueClaims,
       Honest, Kept, Unpaid, Paid, Holds, InLoop, Dog, history, Apart, DogHolds

\* What the invariant says of a thread.
LEMMA Has ==
    ASSUME Types, Claims, NEW t \in Thread
    PROVE  /\ thread[t] \in Copy /\ CopyClaims(thread[t])
           /\ t = "rpc" => RpcClaims(thread[t])
           /\ t = "watchdog" => DogClaims(thread[t], queue)
           /\ t \in {"rpc", "watchdog"}
BY DEF Types, Claims, Thread, Dog

\* While the RPC thread is idle, nobody has paid an order that is not pending.
LEMMA IdleUnpaid ==
    ASSUME Types, Claims, RpcIdle, NEW o \in Order,
           orders[o].status \in Early \cup {"executing"}
    PROVE  Unpaid(o)
<1>1. Unpaid(o) \/ \E t \in Thread : thread[t].o = o /\ Paid(thread[t])
  BY DEF Claims, OrderClaims, Payable
<1>2. ~Paid(thread["rpc"])
  BY DEF RpcIdle, Paid, InLoop
<1>3. Paid(Dog) => Dog.o \in overlapped \/ orders[Dog.o].status = "settlement_pending"
  BY DEF Claims, DogClaims, Paid, InLoop
<1> QED
  BY <1>1, <1>2, <1>3 DEF Thread, Dog, Early, Unpaid

\* The two threads never settle the same order, unless the retries overlap.
LEMMA OneSettles ==
    ASSUME Types, Claims, NEW t \in Thread, thread[t].at = "settle",
           NEW x \in Thread \ {t}, Holds(thread[x]), thread[x].op # "timeout"
    PROVE  thread[x].o # thread[t].o \/ thread[t].o \in overlapped
<1>1. thread[t].op \in {"reveal", "retry", "manual"} /\ Holds(thread[t])
  BY DEF Claims, CopyClaims, Holds
<1>2. CASE t = "rpc"
  <2>1. x = "watchdog"
    BY <1>2 DEF Thread
  <2>2. Dog.op = "retry"
    BY <2>1 DEF Claims, DogClaims, Holds, InLoop, Dog
  <2> QED
    BY <1>1, <1>2, <2>1, <2>2 DEF Claims, RpcClaims, DogClaims, Dog, Apart, DogHolds
<1>3. CASE t = "watchdog"
  <2>1. x = "rpc"
    BY <1>3 DEF Thread
  <2>2. Dog.op = "retry"
    BY <1>1, <1>3 DEF Claims, DogClaims, Dog
  <2> QED
    BY <1>3, <2>1, <2>2 DEF Claims, RpcClaims, DogClaims, Dog, Apart, DogHolds
<1> QED
  BY <1>2, <1>3 DEF Thread

-----------------------------------------------------------------------------
(* The loop. *)

\* A copy on which the loop is one miner further.
LEMMA LoopOn ==
    ASSUME Types, Claims, NEW t \in Thread, InLoop(thread[t]), NEW r, InLoop(r), Become(t, r),
           r.op = thread[t].op, r.o = thread[t].o, r.ord = thread[t].ord, r.job = thread[t].job,
           UNCHANGED <<orders, queue, history, failures>>
    PROVE  Claims'
<1> DEFINE old == thread[t]
<1>1. /\ CopyClaims(old) /\ (t = "rpc" => RpcClaims(old))
      /\ (t = "watchdog" => DogClaims(old, queue))
  BY Has
<1>2. Paid(old) <=> Paid(r)
  BY DEF Paid, InLoop
<1>3. CopyClaims(r)
  BY <1>1, <1>2 DEF CopyClaims, InLoop
<1>4. t = "rpc" => RpcClaims(r)
  BY <1>1 DEF RpcClaims, Holds, InLoop
<1>5. t = "watchdog" => DogClaims(r, queue)
  BY <1>1 DEF DogClaims, InLoop
<1> HIDE DEF old
<1> QED
  BY <1>2, <1>3, <1>4, <1>5, Quiet DEF old

LEMMA LoopClaims ==
    ASSUME Types, Claims, NEW t \in Thread, MinerRead(t) \/ MinerWrite(t) \/ LoopDone(t)
    PROVE  Claims'
<1> DEFINE r == thread[t]
<1>0. /\ r \in Copy /\ CopyClaims(r) /\ (t = "rpc" => RpcClaims(r))
      /\ (t = "watchdog" => DogClaims(r, queue)) /\ t \in {"rpc", "watchdog"}
  BY Has
<1>1. CASE MinerRead(t)
  <2>1. PICK m \in r.todo :
           Become(t, [r EXCEPT !.at = "change", !.m = m, !.row = miners[m], !.todo = @ \ {m}])
    BY <1>1 DEF MinerRead
  <2> DEFINE new == [r EXCEPT !.at = "change", !.m = m, !.row = miners[m], !.todo = @ \ {m}]
  <2>2. /\ InLoop(r) /\ InLoop(new) /\ new.op = r.op /\ new.o = r.o /\ new.ord = r.ord
        /\ new.job = r.job
    BY <1>0, <1>1 DEF MinerRead, Copy, InLoop
  <2>3. UNCHANGED <<orders, queue, history, failures>>
    BY <1>1 DEF MinerRead, tables, bounds
  <2> HIDE DEF new
  <2> QED
    BY <2>1, <2>2, <2>3, LoopOn DEF new
<1>2. CASE MinerWrite(t)
  <2> DEFINE new == [r EXCEPT !.at = "loop", !.row = NewMiner(r.m)]
  <2>1. Become(t, new) /\ UNCHANGED <<orders, queue, history, failures>>
    BY <1>2 DEF MinerWrite, bounds
  <2>2. /\ InLoop(r) /\ InLoop(new) /\ new.op = r.op /\ new.o = r.o /\ new.ord = r.ord
        /\ new.job = r.job
    BY <1>0, <1>2 DEF MinerWrite, Copy, InLoop
  <2> HIDE DEF new
  <2> QED
    BY <2>1, <2>2, LoopOn
<1>3. CASE LoopDone(t)
  <2>0. r.at = "loop" /\ InLoop(r) /\ UNCHANGED <<orders, queue, history, failures>>
    BY <1>3 DEF LoopDone, InLoop, tables, bounds
  <2>1. CASE AfterLoop(r) = "idle"
    <3>1. Become(t, Idle)
      BY <1>3, <2>1 DEF LoopDone
    <3>2. r.job # "earn" /\ ~Paid(r)
      BY <2>0, <2>1 DEF AfterLoop, Paid, InLoop
    <3>3. t # "watchdog"
      BY <1>0, <2>0, <2>1 DEF AfterLoop, DogClaims
    <3> QED
      BY <2>0, <3>1, <3>2, <3>3, IdleClaims, IdleGood, Quiet
  <2>2. CASE AfterLoop(r) # "idle"
    <3> DEFINE at == AfterLoop(r)
               new == [r EXCEPT !.at = at]
    <3>1. Become(t, new)
      BY <1>3, <2>2 DEF LoopDone, Goto, Become, Types
    <3>2. /\ at \in {"finish", "write", "penalty"}
          /\ at = "finish" <=> r.job = "earn"
          /\ at = "write" => r.op = "cancel"
          /\ at = "penalty" => r.op = "timeout"
      BY <2>2 DEF AfterLoop
    <3>3. /\ new.at = at /\ new.op = r.op /\ new.o = r.o /\ new.ord = r.ord /\ new.job = r.job
      BY <1>0 DEF Copy
    <3> HIDE DEF new, at
    <3>4. Paid(r) => Paid(new)
      BY <2>0, <3>2, <3>3 DEF Paid, InLoop
    <3>5. CopyClaims(new)
      BY <1>0, <2>0, <3>2, <3>3 DEF CopyClaims, WriteClaims, Paid, InLoop
    <3>6. t = "rpc" => RpcClaims(new)
      BY <1>0, <2>0, <3>2, <3>3 DEF RpcClaims, Holds, InLoop
    <3>7. t = "watchdog" => DogClaims(new, queue)
      BY <1>0, <2>0, <3>2, <3>3 DEF DogClaims, InLoop
    <3> QED
      BY <2>0, <3>1, <3>3, <3>4, <3>5, <3>6, <3>7, Quiet
  <2> QED
    BY <2>1, <2>2
<1> QED
  BY <1>1, <1>2, <1>3

-----------------------------------------------------------------------------
(* The calls. *)

\* A call takes up a copy of an order that is not pending.
LEMMA BeginClaims ==
    ASSUME Types, Claims, RpcIdle, NEW r, Become("rpc", r),
           CopyClaims(r), RpcClaims(r), r.op # "manual",
           UNCHANGED <<orders, queue, history, failures>>
    PROVE  Claims'
<1>1. ~Paid(thread["rpc"]) /\ r.op # "retry"
  BY DEF RpcIdle, Paid, InLoop, RpcClaims
<1> QED
  BY <1>1, Quiet DEF Thread

LEMMA CreateClaims == ASSUME Types, Claims, CreateOrder PROVE Claims'
<1> DEFINE row == NewOrder("created")
<1>1. PICK o \in Order : /\ orders[o].status = "none" /\ orders' = [orders EXCEPT ![o] = row]
                         /\ Become("rpc", [Idle EXCEPT !.at = "match", !.op = "create", !.o = o,
                                                       !.ord = row])
  BY DEF CreateOrder
<1> DEFINE r == [Idle EXCEPT !.at = "match", !.op = "create", !.o = o, !.ord = row]
<1>2. /\ RpcIdle /\ thread' = [thread EXCEPT !["rpc"] = r] /\ thread \in [Thread -> Copy]
      /\ UNCHANGED <<queue, settled, promised, overlapped, failures>>
  BY <1>1 DEF CreateOrder, Become, Types, history, bounds
<1>3. /\ r.at = "match" /\ r.op = "create" /\ r.o = o /\ r.ord = row
      /\ row.status = "created" /\ row.commit = NoHash /\ row.result = NoHash
  BY DEF Idle, NewOrder
<1>4. Unpaid(o) /\ promised[o] = NoHash /\ o \notin overlapped
  BY <1>1, <1>2, IdleUnpaid DEF Early, Late, Claims, OrderClaims
<1>5. orders'[o] = row /\ \A x \in Order \ {o} : orders'[x] = orders[x]
  BY <1>1 DEF Types
<1> HIDE DEF r, row
<1>6. ~Paid(thread["rpc"]) /\ ~Paid(r) /\ Dog' = Dog /\ thread'["rpc"] = r
  BY <1>2, <1>3 DEF RpcIdle, Paid, InLoop, Dog, Thread
<1>7. \A x \in Order : OrderClaims(x)'
  <2>1. OrderClaims(o)'
    BY <1>2, <1>3, <1>4, <1>5 DEF OrderClaims, Honest, Kept, Unpaid, Claims
  <2>2. ASSUME NEW x \in Order \ {o} PROVE OrderClaims(x)'
    <3>1. OrderClaims(x)
      BY DEF Claims
    <3>2. (\E t \in Thread : thread[t].o = x /\ Paid(thread[t]))
             => \E t \in Thread : thread'[t].o = x /\ Paid(thread'[t])
      BY <1>2, <1>6
    <3> QED
      BY <1>2, <1>5, <3>1, <3>2 DEF OrderClaims, Honest, Kept, Unpaid, Paid, InLoop
  <2> QED
    BY <2>1, <2>2
<1>8. \A t \in Thread : CopyClaims(thread[t])'
  <2>1. CopyClaims(r)
    BY <1>3, <1>6 DEF CopyClaims, Honest, Kept, InLoop
  <2>2. \A t \in Thread : CopyClaims(thread'[t])
    BY <1>2, <1>6, <2>1 DEF Claims, Thread, Dog
  <2> QED
    BY <1>2, <2>2 DEF CopyClaims, WriteClaims, Honest, Kept, Unpaid, Paid, InLoop
<1>9. RpcClaims(thread["rpc"])'
  BY <1>2, <1>3, <1>4, <1>5, <1>6 DEF RpcClaims, Unpaid, row
<1>10. DogClaims(Dog, queue)'
  BY <1>1, <1>2, <1>5, <1>6 DEF Claims, DogClaims, InLoop, Types, Copy, Thread, Dog
<1>11. QueueClaims'
  <2>1. ASSUME NEW q \in queue, q[2].status = "settlement_pending"
        PROVE  q[1] \notin overlapped => orders'[q[1]].status = "settlement_pending"
    <3>1. /\ q[1] \in Order
          /\ q[1] \notin overlapped => orders[q[1]].status = "settlement_pending"
      BY <2>1 DEF Types, Claims, QueueClaims
    <3> QED
      BY <1>1, <1>5, <3>1
  <2> QED
    BY <1>2, <2>1 DEF Claims, QueueClaims, Honest, Kept, Unpaid
<1>12. Apart'
  BY <1>3, <1>6 DEF Apart
<1> QED
  BY <1>7, <1>8, <1>9, <1>10, <1>11, <1>12 DEF Claims

\* The retry by hand: it is apart from the watchdog's, or counted.
LEMMA ManualClaims == ASSUME Types, Claims, RetrySettlement PROVE Claims'
<1>1. PICK o \in Order :
         /\ orders[o].status = "settlement_pending" /\ Begin(o, "manual", "settle", orders[o])
         /\ overlapped' = IF DogHolds(o) THEN overlapped \cup {o} ELSE overlapped
  BY DEF RetrySettlement
<1>2. PICK r : r = [Idle EXCEPT !.at = "settle", !.op = "manual", !.o = o, !.ord = orders[o]]
  OBVIOUS
<1>3. r.at = "settle" /\ r.op = "manual" /\ r.o = o /\ r.ord = orders[o]
  BY <1>2 DEF Idle
<1>4. /\ RpcIdle /\ UNCHANGED <<orders, queue, settled, promised, failures>>
      /\ thread'["rpc"] = r /\ thread'["watchdog"] = thread["watchdog"] /\ Dog' = Dog
  BY <1>1, <1>2 DEF RetrySettlement, Begin, Become, Types, Thread, Dog, tables
<1>5. /\ ~Paid(thread["rpc"]) /\ ~Paid(r) /\ Thread = {"rpc", "watchdog"}
      /\ OrderClaims(o) /\ overlapped \subseteq overlapped'
  BY <1>1, <1>3, <1>4 DEF RpcIdle, Paid, InLoop, Thread, Claims
<1>6. Unpaid(o)'
  <2>1. Unpaid(o) \/ \E t \in Thread : thread[t].o = o /\ Paid(thread[t])
    BY <1>1, <1>5 DEF OrderClaims, Payable
  <2>2. Paid(Dog) /\ Dog.o = o => DogHolds(o)
    BY DEF Claims, DogClaims, DogHolds, Paid, InLoop
  <2> QED
    BY <1>1, <1>4, <1>5, <2>1, <2>2 DEF Unpaid, Dog
<1>7. \A x \in Order : OrderClaims(x)'
  <2> SUFFICES ASSUME NEW x \in Order PROVE OrderClaims(x)'
    OBVIOUS
  <2>1. OrderClaims(x)
    BY DEF Claims
  <2>2. (\E t \in Thread : thread[t].o = x /\ Paid(thread[t]))
           => \E t \in Thread : thread'[t].o = x /\ Paid(thread'[t])
    BY <1>4, <1>5
  <2>3. x \in overlapped' => orders[x].status \in Late
    BY <1>1, <2>1 DEF OrderClaims, Late
  <2> QED
    BY <1>4, <1>5, <2>1, <2>2, <2>3 DEF OrderClaims, Honest, Kept, Unpaid, Paid, InLoop
<1>8. CopyClaims(thread["rpc"])' /\ CopyClaims(thread["watchdog"])'
  <2>1. CopyClaims(r)'
    BY <1>1, <1>3, <1>4, <1>5, <1>6 DEF CopyClaims, OrderClaims, Honest, Kept, Late, Paid, InLoop
  <2>2. CopyClaims(thread["watchdog"])
    BY <1>5 DEF Claims
  <2> QED
    BY <1>4, <1>5, <2>1, <2>2 DEF CopyClaims, WriteClaims, Honest, Kept, Unpaid, Paid, InLoop
<1>9. RpcClaims(thread["rpc"])'
  BY <1>3, <1>4 DEF RpcClaims
<1>10. DogClaims(Dog, queue)'
  BY <1>4, <1>5 DEF Claims, DogClaims, InLoop
<1>11. QueueClaims'
  BY <1>4, <1>5 DEF Claims, QueueClaims, Honest, Kept, Unpaid
<1>12. Apart'
  BY <1>1, <1>3, <1>4 DEF Apart, DogHolds
<1> QED
  BY <1>5, <1>7, <1>8, <1>9, <1>10, <1>11, <1>12 DEF Claims

LEMMA CallClaims ==
    ASSUME Types, Claims, RpcCall
    PROVE  Claims'
<1>0. /\ \A o \in Order : OrderClaims(o) /\ orders[o] \in OrderRow
      /\ Idle \in Copy
  BY IdleGood DEF Claims, Types, GoodCopy
<1>1. CASE RegisterMiner
  BY <1>1, StillClaims DEF RegisterMiner
<1>2. CASE TouchMiner \/ OnlineOrOffline
  <2>1. PICK m \in Miner, job \in {"heartbeat", "trap", "online", "offline"} :
            Become("rpc", Loop(Idle, job, {m}))
    BY <1>2 DEF TouchMiner, OnlineOrOffline
  <2> DEFINE r == Loop(Idle, job, {m})
  <2>2. r.at = "loop" /\ r.job = job /\ r.op = "none" /\ r.o = Idle.o /\ r.ord = Idle.ord
    BY <1>0, IdleGood DEF Loop, Copy
  <2>3. RpcIdle /\ UNCHANGED <<orders, queue, history, failures>>
    BY <1>2 DEF TouchMiner, OnlineOrOffline, tables, bounds
  <2> HIDE DEF r
  <2>4. CopyClaims(r) /\ RpcClaims(r) /\ r.op # "manual"
    BY <2>2, IdleClaims, IdleGood DEF CopyClaims, RpcClaims, Paid, Holds, InLoop
  <2> QED
    BY <2>1, <2>3, <2>4, BeginClaims DEF r
<1>3. CASE CreateOrder
  BY <1>3, CreateClaims
<1>4. CASE StartExecution
  <2>1. PICK o \in Order :
           /\ orders[o].status = "matched"
           /\ Begin(o, "start", "write", [orders[o] EXCEPT !.status = "executing"])
    BY <1>4 DEF StartExecution
  <2> DEFINE row == [orders[o] EXCEPT !.status = "executing"]
             r == [Idle EXCEPT !.at = "write", !.op = "start", !.o = o, !.ord = row]
  <2>2. RpcIdle /\ UNCHANGED <<orders, queue, history, failures>>
    BY <1>4 DEF StartExecution, tables, bounds
  <2>3. Unpaid(o) /\ promised[o] = NoHash /\ OrderClaims(o)
    BY <1>0, <2>1, <2>2, IdleUnpaid DEF Early, OrderClaims
  <2>4. row.status = "executing" /\ row.commit = orders[o].commit /\ row.result = orders[o].result
    BY <1>0 DEF OrderRow
  <2>5. r.at = "write" /\ r.op = "start" /\ r.o = o /\ r.ord = row
    BY DEF Idle
  <2>6. Become("rpc", r)
    BY <2>1 DEF Begin
  <2> HIDE DEF row, r
  <2>7. CopyClaims(r)
    BY <2>3, <2>4, <2>5 DEF CopyClaims, WriteClaims, OrderClaims, Honest, Kept, Paid, InLoop
  <2>8. RpcClaims(r) /\ r.op # "manual"
    BY <2>1, <2>3, <2>5 DEF RpcClaims, OrderClaims, Late
  <2> QED
    BY <2>2, <2>6, <2>7, <2>8, BeginClaims
<1>5. CASE CommitResult
  <2>1. PICK o \in Order, h \in Hash :
           /\ orders[o].status = "executing" /\ orders[o].commit \in {NoHash, h}
           /\ Begin(o, "commit", "write", [orders[o] EXCEPT !.commit = h])
    BY <1>5 DEF CommitResult
  <2> DEFINE row == [orders[o] EXCEPT !.commit = h]
             r == [Idle EXCEPT !.at = "write", !.op = "commit", !.o = o, !.ord = row]
  <2>2. RpcIdle /\ UNCHANGED <<orders, queue, history, failures>>
    BY <1>5 DEF CommitResult, tables, bounds
  <2>3. Unpaid(o) /\ promised[o] \in {NoHash, h} /\ OrderClaims(o)
    BY <1>0, <2>1, <2>2, IdleUnpaid DEF Early, OrderClaims
  <2>4. row.status = "executing" /\ row.commit = h /\ row.result = orders[o].result
    BY <1>0, <2>1 DEF OrderRow
  <2>5. r.at = "write" /\ r.op = "commit" /\ r.o = o /\ r.ord = row
    BY DEF Idle
  <2>6. Become("rpc", r)
    BY <2>1 DEF Begin
  <2> HIDE DEF row, r
  <2>7. CopyClaims(r)
    BY <2>3, <2>4, <2>5 DEF CopyClaims, WriteClaims, OrderClaims, Honest, Kept, Paid, InLoop
  <2>8. RpcClaims(r) /\ r.op # "manual"
    BY <2>1, <2>3, <2>5 DEF RpcClaims, OrderClaims, Late
  <2> QED
    BY <2>2, <2>6, <2>7, <2>8, BeginClaims
<1>6. CASE RevealResult \/ SubmitRejected
  <2>1. PICK o \in Order, h \in Hash \cup {NoHash} :
           /\ orders[o].status = "executing"
           /\ \/ h \in Hash /\ orders[o].commit = h
                /\ Begin(o, "reveal", "settle", [orders[o] EXCEPT !.result = h])
              \/ Begin(o, "tee", "write", [orders[o] EXCEPT !.status = "failed"])
    BY <1>6, ComputeMarketAssumption DEF RevealResult, SubmitRejected
  <2>2. RpcIdle /\ UNCHANGED <<orders, queue, history, failures>>
    BY <1>6 DEF RevealResult, SubmitRejected, tables, bounds
  <2>3. Unpaid(o) /\ OrderClaims(o)
    BY <1>0, <2>1, <2>2, IdleUnpaid
  <2>4. CASE h \in Hash /\ orders[o].commit = h
             /\ Begin(o, "reveal", "settle", [orders[o] EXCEPT !.result = h])
    <3> DEFINE row == [orders[o] EXCEPT !.result = h]
               r == [Idle EXCEPT !.at = "settle", !.op = "reveal", !.o = o, !.ord = row]
    <3>1. row.status = "executing" /\ row.commit = h /\ row.result = h
      BY <1>0, <2>1, <2>4 DEF OrderRow
    <3>2. r.at = "settle" /\ r.op = "reveal" /\ r.o = o /\ r.ord = row
      BY DEF Idle
    <3>3. Become("rpc", r)
      BY <2>4 DEF Begin
    <3> HIDE DEF row, r
    <3>4. CopyClaims(r)
      BY <2>1, <2>3, <2>4, <3>1, <3>2
         DEF CopyClaims, OrderClaims, Honest, Kept, Paid, InLoop
    <3>5. RpcClaims(r) /\ r.op # "manual"
      BY <2>1, <2>3, <3>2 DEF RpcClaims, OrderClaims, Late
    <3> QED
      BY <2>2, <3>3, <3>4, <3>5, BeginClaims
  <2>5. CASE Begin(o, "tee", "write", [orders[o] EXCEPT !.status = "failed"])
    <3> DEFINE row == [orders[o] EXCEPT !.status = "failed"]
               r == [Idle EXCEPT !.at = "write", !.op = "tee", !.o = o, !.ord = row]
    <3>1. row.status = "failed" /\ row.commit = orders[o].commit /\ row.result = orders[o].result
      BY <1>0 DEF OrderRow
    <3>2. r.at = "write" /\ r.op = "tee" /\ r.o = o /\ r.ord = row
      BY DEF Idle
    <3>3. Become("rpc", r)
      BY <2>5 DEF Begin
    <3> HIDE DEF row, r
    <3>4. CopyClaims(r)
      BY <2>3, <3>1, <3>2 DEF CopyClaims, WriteClaims, OrderClaims, Honest, Kept, Paid, InLoop
    <3>5. RpcClaims(r) /\ r.op # "manual"
      BY <2>1, <2>3, <3>2 DEF RpcClaims, OrderClaims, Late
    <3> QED
      BY <2>2, <3>3, <3>4, <3>5, BeginClaims
  <2> QED
    BY <2>1, <2>4, <2>5
<1>7. CASE CancelOrder
  <2>1. PICK o \in Order :
           LET r == [Idle EXCEPT !.op = "cancel", !.o = o,
                                 !.ord = [orders[o] EXCEPT !.status = "cancelled"]] IN
           \/ orders[o].status = "created" /\ Become("rpc", [r EXCEPT !.at = "write"])
           \/ orders[o].status = "matched" /\ Become("rpc", Loop(r, "release", Assigned(orders[o])))
    BY <1>7 DEF CancelOrder
  <2> DEFINE row == [orders[o] EXCEPT !.status = "cancelled"]
             r == [Idle EXCEPT !.op = "cancel", !.o = o, !.ord = row]
             one == [r EXCEPT !.at = "write"]
             two == Loop(r, "release", Assigned(orders[o]))
  <2>2. RpcIdle /\ UNCHANGED <<orders, queue, history, failures>>
    BY <1>7 DEF CancelOrder, tables, bounds
  <2>3. row.status = "cancelled" /\ row.commit = orders[o].commit /\ row.result = orders[o].result
    BY <1>0 DEF OrderRow
  <2>4. /\ one.at = "write" /\ one.op = "cancel" /\ one.o = o /\ one.ord = row
        /\ two.at = "loop" /\ two.op = "cancel" /\ two.o = o /\ two.ord = row /\ two.job = "release"
    BY DEF Idle, Loop
  <2>5. OrderClaims(o) /\ orders[o].status # "settlement_pending" /\ o \notin overlapped
    BY <1>0, <2>1 DEF OrderClaims, Late
  <2>6. Become("rpc", one) \/ Become("rpc", two)
    BY <2>1
  <2> HIDE DEF row, one, two
  <2>7. CopyClaims(one) /\ RpcClaims(one) /\ one.op # "manual"
    BY <2>3, <2>4, <2>5 DEF CopyClaims, WriteClaims, RpcClaims, OrderClaims, Honest, Kept, Paid, InLoop
  <2>8. CopyClaims(two) /\ RpcClaims(two) /\ two.op # "manual"
    BY <2>3, <2>4, <2>5 DEF CopyClaims, WriteClaims, RpcClaims, OrderClaims, Honest, Kept, Paid, InLoop
  <2> QED
    BY <2>2, <2>6, <2>7, <2>8, BeginClaims
<1> QED
  BY <1>1, <1>2, <1>3, <1>4, <1>5, <1>6, <1>7, ManualClaims DEF RpcCall

-----------------------------------------------------------------------------
(* Writing an order. *)

\* A thread writes the order o, and goes on with the copy r.
LEMMA Writes ==
    ASSUME Types, Claims, NEW t \in Thread, NEW o \in Order, NEW row, NEW r, NEW h,
           orders' = [orders EXCEPT ![o] = row], promised' = [promised EXCEPT ![o] = h],
           thread' = [thread EXCEPT ![t] = r],
           queue' \subseteq queue, UNCHANGED <<settled, overlapped, failures>>,
           promised[o] \in {NoHash, h}, h # promised[o] => t = "rpc",
           row.commit \in {NoHash, h}, row.result \in {NoHash, h},
           row.status = "finished" => settled[o] > 0,
           row.status \in Early => h = NoHash,
           row.status = "executing" => row.commit = h,
           row.status \in Payable => Unpaid(o),
           Paid(thread[t]) => thread[t].o = o,
           CopyClaims(r)', t = "rpc" => RpcClaims(r)', t = "watchdog" => DogClaims(r, queue)',
           r.op \notin {"manual", "retry"}, o \in overlapped => row.status \in Late,
           row.status # "settlement_pending" /\ o \notin overlapped =>
              \A q \in queue' : q[2].status = "settlement_pending" => q[1] # o,
           t = "rpc" /\ Dog.op = "retry" => Dog.o # o \/ o \in overlapped,
           t = "watchdog" /\ row.status = "settlement_pending" /\ Holds(thread["rpc"])
              /\ thread["rpc"].op # "manual" => thread["rpc"].o # o
    PROVE  Claims'
<1>1. /\ orders'[o] = row /\ promised'[o] = h /\ thread'[t] = r
      /\ \A x \in Order \ {o} : orders'[x] = orders[x] /\ promised'[x] = promised[x]
      /\ \A x \in Thread \ {t} : thread'[x] = thread[x]
  BY DEF Types
<1>2. \A x \in Order : OrderClaims(x)'
  <2>1. OrderClaims(o)'
    BY <1>1 DEF OrderClaims, Honest, Kept, Unpaid, Claims
  <2>2. ASSUME NEW x \in Order \ {o} PROVE OrderClaims(x)'
    <3>1. OrderClaims(x)
      BY DEF Claims
    <3>2. (\E y \in Thread : thread[y].o = x /\ Paid(thread[y]))
             => \E y \in Thread : thread'[y].o = x /\ Paid(thread'[y])
      BY <1>1
    <3> QED
      BY <1>1, <3>1, <3>2 DEF OrderClaims, Honest, Kept, Unpaid, Paid, InLoop
  <2> QED
    BY <2>1, <2>2
\* Whoever trusted the promise of o still may, but for a call that starts it.
<1>3. \A x \in Order, a \in Hash \cup {NoHash} : a \in {NoHash, promised[x]} => a \in {NoHash, promised'[x]}
  BY <1>1
<1>4. \A y \in Thread \ {t} : CopyClaims(thread[y])'
  <2> SUFFICES ASSUME NEW y \in Thread \ {t} PROVE CopyClaims(thread[y])'
    OBVIOUS
  <2> DEFINE s == thread[y]
  <2>1. s' = s /\ CopyClaims(s) /\ s.o \in Order /\ s.ord \in OrderRow
    BY <1>1 DEF Claims, Types, Copy
  <2>2. promised'[s.o] = promised[s.o] \/ s.op \notin {"start", "commit"}
    BY <1>1, <2>1 DEF Claims, DogClaims, Dog, Thread
  <2>3. Honest(s.o, s.ord) => Honest(s.o, s.ord)'
    BY <1>3, <2>1 DEF Honest, Kept, OrderRow
  <2>4. s.op = "commit" => Kept(s.o, s.ord) /\ promised'[s.o] = promised[s.o]
    BY <2>1, <2>2 DEF CopyClaims
  <2> HIDE DEF s
  <2> QED
    BY <2>1, <2>2, <2>3, <2>4 DEF CopyClaims, WriteClaims, Kept, Unpaid, Paid, InLoop, s
<1>a. Apart'
  <2>1. /\ thread'["rpc"].op = "manual" => thread'["rpc"] = thread["rpc"]
        /\ Dog'.op = "retry" => Dog' = Dog
    BY <1>1 DEF Dog, Thread
  <2> QED
    BY <1>1, <2>1 DEF Claims, Apart, DogHolds
<1>5. CASE t = "rpc"
  <2>1. Dog' = Dog
    BY <1>1, <1>5 DEF Dog, Thread
  <2>2. RpcClaims(thread["rpc"])'
    BY <1>1, <1>5 DEF RpcClaims, Holds, InLoop, Unpaid
  <2>3. DogClaims(Dog, queue)'
    <3>1. Dog.o \in Order /\ DogClaims(Dog, queue)
      BY DEF Types, Copy, Dog, Thread, Claims
    <3> QED
      BY <1>1, <1>5, <2>1, <3>1 DEF DogClaims, InLoop
  <2>4. CopyClaims(thread["rpc"])'
    BY <1>1, <1>5
  <2>5. QueueClaims'
    <3>1. ASSUME NEW q \in queue' PROVE Honest(q[1], q[2])'
      <4>1. q[1] \in Order /\ q[2] \in OrderRow /\ Honest(q[1], q[2])
        BY DEF Types, Claims, QueueClaims
      <4> QED
        BY <1>3, <4>1 DEF Honest, Kept, OrderRow
    <3>2. ASSUME NEW q \in queue', q[2].status = "settlement_pending"
          PROVE  /\ Unpaid(q[1])'
                 /\ q[1] \notin overlapped => orders'[q[1]].status = "settlement_pending"
      BY <1>1, <3>2 DEF Types, Claims, QueueClaims, Unpaid
    <3> QED
      BY <3>1, <3>2 DEF Claims, QueueClaims
  <2> QED
    BY <1>2, <1>4, <1>5, <1>a, <2>2, <2>3, <2>4, <2>5 DEF Claims
<1>6. CASE t = "watchdog"
  <2>1. promised' = promised /\ thread'["rpc"] = thread["rpc"] /\ Dog' = r
    BY <1>1, <1>6 DEF Types, Dog, Thread
  <2>2. RpcClaims(thread["rpc"])'
    BY <1>1, <1>6, <2>1 DEF Claims, RpcClaims, Holds, InLoop, Unpaid, Types, Copy, Thread
  <2>3. DogClaims(Dog, queue)'
    BY <1>6, <2>1 DEF DogClaims, InLoop
  <2>4. CopyClaims(thread["watchdog"])'
    BY <1>1, <1>6
  <2>5. QueueClaims'
    <3>1. ASSUME NEW q \in queue', q[2].status = "settlement_pending"
          PROVE  /\ Unpaid(q[1])'
                 /\ q[1] \notin overlapped => orders'[q[1]].status = "settlement_pending"
      BY <1>1, <3>1 DEF Types, Claims, QueueClaims, Unpaid
    <3> QED
      BY <2>1, <3>1 DEF Claims, QueueClaims, Honest, Kept
  <2> QED
    BY <1>2, <1>4, <1>6, <1>a, <2>2, <2>3, <2>4, <2>5 DEF Claims
<1> QED
  BY <1>5, <1>6 DEF Thread

LEMMA MatchClaims == ASSUME Types, Claims, MatchOrder \/ NoMatch PROVE Claims'
<1> DEFINE old == thread["rpc"]
<1>0. /\ old \in Copy /\ old.o \in Order /\ old.at = "match" /\ CopyClaims(old) /\ RpcClaims(old)
      /\ old.ord \in OrderRow /\ Holds(old) /\ "rpc" \in Thread /\ ~Paid(old)
  BY Has DEF MatchOrder, NoMatch, Copy, Holds, Paid, InLoop, Thread
<1>1. CASE MatchOrder
  <2>1. PICK g \in Assignments(old.o) :
           LET row == [old.ord EXCEPT !.status = "matched", !.gpus = g] IN
           /\ orders' = [orders EXCEPT ![old.o] = row]
           /\ Become("rpc", Loop([old EXCEPT !.ord = row], "occupy", Assigned(row)))
    BY <1>1 DEF MatchOrder
  <2>2. PICK row : row = [old.ord EXCEPT !.status = "matched", !.gpus = g]
    OBVIOUS
  <2>3. PICK r : r = Loop([old EXCEPT !.ord = row], "occupy", Assigned(row))
    OBVIOUS
  <2>4. row.status = "matched" /\ row.commit = NoHash /\ row.result = NoHash
    BY <1>0, <2>2 DEF RpcClaims, NewOrder
  <2>5. /\ r.at = "loop" /\ r.job = "occupy" /\ r.op = old.op /\ r.o = old.o /\ r.ord = row
        /\ old.op \notin {"cancel", "commit", "manual", "retry"}
    BY <1>0, <2>3 DEF Loop, Copy, CopyClaims, RpcClaims, NewOrder, Late
  <2>6. /\ promised[old.o] = NoHash /\ Unpaid(old.o) /\ orders[old.o].status # "settlement_pending"
        /\ old.o \notin overlapped
    BY <1>0, <2>5 DEF RpcClaims
  <2>7. /\ orders' = [orders EXCEPT ![old.o] = row] /\ thread' = [thread EXCEPT !["rpc"] = r]
        /\ UNCHANGED <<queue, settled, promised, overlapped, failures>>
    BY <1>1, <2>1, <2>2, <2>3 DEF MatchOrder, Become, history, bounds
  <2>8. promised' = [promised EXCEPT ![old.o] = NoHash]
    BY <1>0, <2>6, <2>7 DEF Types
  <2>9. /\ CopyClaims(r)' /\ RpcClaims(r)'
    BY <1>0, <2>4, <2>5, <2>7 DEF CopyClaims, RpcClaims, Honest, Kept, Paid, Holds, InLoop
  <2>10. \A q \in queue' : q[2].status = "settlement_pending" => q[1] # old.o
    BY <2>6, <2>7 DEF Claims, QueueClaims
  <2>11. Dog.op = "retry" => Dog.o # old.o
    BY <2>6 DEF Claims, DogClaims
  <2>12. PICK o \in Order : o = old.o
    BY <1>0
  <2>15. PICK h : h = NoHash
    OBVIOUS
  <2>13. row.status \notin {"settlement_pending", "finished", "executing"}
    BY <2>4
  <2>14. r.op \notin {"manual", "retry"} /\ ~Paid(thread["rpc"])
    BY <1>0, <2>5
  <2> HIDE DEF old
  <2> QED
    BY <1>0, <2>4, <2>6, <2>7, <2>8, <2>9, <2>10, <2>11, <2>12, <2>13, <2>14, <2>15, Writes
<1>2. CASE NoMatch
  <2>1. Become("rpc", Idle) /\ UNCHANGED <<orders, queue, history, failures>>
    BY <1>2 DEF NoMatch, tables, bounds
  <2> QED
    BY <1>0, <2>1, IdleClaims, IdleGood, Quiet
<1> QED
  BY <1>1, <1>2

LEMMA SettlesClaims == ASSUME Types, Claims, NEW t \in Thread, Settles(t) PROVE Claims'
<1> DEFINE old == thread[t]
<1>0. /\ old \in Copy /\ old.o \in Order /\ old.at = "settle" /\ CopyClaims(old)
      /\ t = "rpc" => RpcClaims(old)
      /\ t = "watchdog" => DogClaims(old, queue)
      /\ Unpaid(old.o) /\ old.op \in {"reveal", "retry", "manual"} /\ Holds(old)
  BY Has DEF Settles, Copy, CopyClaims, Holds
<1>1. PICK r : r = Loop(old, "earn", Assigned(old.ord))
  OBVIOUS
<1>2. /\ settled' = [settled EXCEPT ![old.o] = @ + 1] /\ thread' = [thread EXCEPT ![t] = r]
      /\ UNCHANGED <<orders, queue, promised, overlapped, failures>>
  BY <1>1 DEF Settles, Become, tables, bounds
<1>3. /\ r.at = "loop" /\ r.job = "earn" /\ r.op = old.op /\ r.o = old.o /\ r.ord = old.ord
  BY <1>0, <1>1 DEF Loop, Copy
<1>4. /\ settled[old.o] \in Nat /\ settled'[old.o] = settled[old.o] + 1 /\ failures \in Nat
      /\ \A x \in Order \ {old.o} : settled'[x] = settled[x]
      /\ \A x \in Thread \ {t} : thread'[x] = thread[x]
      /\ thread'[t] = r
  BY <1>0, <1>2 DEF Types
<1>a. \A x \in Order : settled[x] > 0 => settled'[x] > 0
  BY <1>0, <1>4
<1> HIDE DEF old
<1>b. PICK o \in Order : o = old.o
  BY <1>0
<1>5. \A x \in Order : OrderClaims(x)'
  <2>1. OrderClaims(o)'
    <3>1. OrderClaims(o)
      BY DEF Claims
    <3>2. Paid(r) /\ thread'[t].o = o /\ Paid(thread'[t])
      BY <1>3, <1>4, <1>b DEF Paid, InLoop
    <3>3. (o \in overlapped \/ settled'[o] <= 1 + failures) /\ settled'[o] > 0
      BY <1>0, <1>4, <1>b DEF Unpaid
    <3>4. \E y \in Thread : thread'[y].o = o /\ Paid(thread'[y])
      BY <3>2
    <3> QED
      BY <1>2, <3>1, <3>3, <3>4 DEF OrderClaims, Honest, Kept, Paid, InLoop
  <2>2. ASSUME NEW x \in Order \ {o} PROVE OrderClaims(x)'
    <3>1. OrderClaims(x) /\ settled'[x] = settled[x]
      BY <1>4, <1>b DEF Claims
    <3>2. (\E y \in Thread : thread[y].o = x /\ Paid(thread[y]))
             => \E y \in Thread : thread'[y].o = x /\ Paid(thread'[y])
      BY <1>4, <1>b DEF old
    <3> QED
      BY <1>2, <3>1, <3>2 DEF OrderClaims, Honest, Kept, Unpaid, Paid, InLoop
  <2> QED
    BY <2>1, <2>2
<1>6. CopyClaims(r)'
  BY <1>0, <1>2, <1>3, <1>4 DEF CopyClaims, Honest, Kept, Paid, InLoop, Unpaid
<1>7. ASSUME NEW y \in Thread \ {t} PROVE CopyClaims(thread[y])'
  <2> DEFINE s == thread[y]
  <2>1. s' = s /\ CopyClaims(s) /\ s.o \in Order
    BY <1>4 DEF Claims, Types, Copy
  <2>2. s.op # "timeout" \/ s.at \notin {"settle", "write"}
    BY Has DEF RpcClaims, DogClaims
  <2>3. s.at \in {"settle", "write"} => s.o # old.o \/ old.o \in overlapped
    BY <1>0, <2>2, OneSettles DEF Holds, old
  <2>4. s.at \in {"settle", "write"} => settled'[s.o] = settled[s.o] \/ s.o \in overlapped
    BY <1>4, <2>1, <2>3
  <2>5. settled[s.o] > 0 => settled'[s.o] > 0
    BY <1>a, <2>1
  <2> HIDE DEF s
  <2> QED
    BY <1>2, <2>1, <2>4, <2>5 DEF CopyClaims, WriteClaims, Honest, Kept, Unpaid, Paid, InLoop, s
<1>8. QueueClaims'
  <2>1. ASSUME NEW q \in queue, q[2].status = "settlement_pending" PROVE q[1] # old.o \/ q[1] \in overlapped
    <3>1. q[1] \in overlapped \/ orders[q[1]].status = "settlement_pending"
      BY <2>1 DEF Claims, QueueClaims
    <3>2. CASE t = "rpc"
      BY <1>0, <2>1, <3>1, <3>2 DEF RpcClaims, Claims, Apart, DogHolds, old
    <3>3. CASE t = "watchdog"
      BY <1>0, <3>3 DEF DogClaims
    <3> QED
      BY <3>2, <3>3 DEF Thread
  <2>2. ASSUME NEW q \in queue PROVE q[1] \in Order
    BY DEF Types
  <2> QED
    BY <1>2, <1>4, <1>a, <2>1, <2>2 DEF Claims, QueueClaims, Honest, Kept, Unpaid
<1>9. RpcClaims(thread["rpc"])'
  <2>1. CASE t = "rpc"
    BY <1>0, <1>2, <1>3, <1>4, <2>1 DEF RpcClaims, Holds, InLoop
  <2>2. CASE t = "watchdog"
    <3> DEFINE s == thread["rpc"]
    <3>1. s' = s /\ RpcClaims(s) /\ s.o \in Order
      BY <1>4, <2>2 DEF Claims, Types, Copy, Thread
    <3>2. s.at = "match" => s.o # old.o \/ s.o \in overlapped
      BY <1>0, <2>2, <3>1, OneSettles DEF Holds, old, Thread, RpcClaims
    <3> HIDE DEF s
    <3> QED
      BY <1>2, <1>4, <3>1, <3>2 DEF RpcClaims, Holds, InLoop, Unpaid, s
  <2> QED
    BY <2>1, <2>2 DEF Thread
<1>10. DogClaims(Dog, queue)'
  <2>1. CASE t = "watchdog"
    BY <1>0, <1>2, <1>3, <1>4, <2>1 DEF DogClaims, InLoop, Dog
  <2>2. CASE t = "rpc"
    <3>1. Dog' = Dog
      BY <1>4, <2>2 DEF Dog, Thread
    <3> QED
      BY <1>2, <3>1 DEF Claims, DogClaims, InLoop
  <2> QED
    BY <2>1, <2>2 DEF Thread
<1>11. Apart'
  <2>1. /\ thread'["rpc"].op = thread["rpc"].op /\ thread'["rpc"].o = thread["rpc"].o
        /\ Dog'.op = Dog.op /\ Dog'.o = Dog.o
    BY <1>3, <1>4 DEF Dog, Thread, old
  <2>2. Apart
    BY DEF Claims
  <2> QED
    BY <1>2, <2>1, <2>2 DEF Apart, DogHolds
<1> QED
  BY <1>4, <1>5, <1>6, <1>7, <1>8, <1>9, <1>10, <1>11 DEF Claims

\* How a settlement ends, for the copy that is written next.
LEMMA EndClaims ==
    ASSUME Types, Claims, NEW t \in Thread, SettleFails(t) \/ Finish(t)
    PROVE  Claims'
<1> DEFINE old == thread[t]
<1>0. /\ old \in Copy /\ old.ord \in OrderRow /\ CopyClaims(old)
      /\ t = "rpc" => RpcClaims(old)
      /\ t = "watchdog" => DogClaims(old, queue)
      /\ old.at \in {"settle", "finish"} /\ old.op \in {"reveal", "retry", "manual"} /\ Holds(old)
      /\ UNCHANGED <<orders, queue, history, failures>>
  BY Has DEF SettleFails, Finish, Copy, CopyClaims, Holds, tables, bounds
<1>1. CASE SettleFails(t)
  <2>1. PICK r : r = [old EXCEPT !.at = "write", !.ord.status = "settlement_pending"]
    OBVIOUS
  <2>2. Become(t, r) /\ old.at = "settle" /\ ~Paid(old)
    BY <1>1, <2>1 DEF SettleFails, Paid, InLoop
  <2>3. /\ r.at = "write" /\ r.op = old.op /\ r.o = old.o /\ r.ord.status = "settlement_pending"
        /\ r.ord.commit = old.ord.commit /\ r.ord.result = old.ord.result
    BY <1>0, <2>1 DEF Copy, OrderRow
  <2> HIDE DEF old
  <2>4. CopyClaims(r)
    BY <1>0, <2>2, <2>3 DEF CopyClaims, WriteClaims, Late, Honest, Kept, Paid, InLoop
  <2>5. (t = "rpc" => RpcClaims(r)) /\ (t = "watchdog" => DogClaims(r, queue))
    BY <1>0, <2>2, <2>3 DEF RpcClaims, DogClaims, Late, Holds, InLoop
  <2> QED
    BY <1>0, <2>2, <2>3, <2>4, <2>5, Quiet DEF old
<1>2. CASE Finish(t)
  <2>1. PICK r : r = [old EXCEPT !.at = "write", !.ord.status = "finished"]
    OBVIOUS
  <2>2. Become(t, r) /\ old.at = "finish" /\ Paid(old)
    BY <1>2, <2>1 DEF Finish, Paid
  <2>3. /\ r.at = "write" /\ r.op = old.op /\ r.o = old.o /\ r.ord.status = "finished"
        /\ r.ord.commit = old.ord.commit /\ r.ord.result = old.ord.result
    BY <1>0, <2>1 DEF Copy, OrderRow
  <2>4. Paid(r)
    BY <2>3 DEF Paid
  <2> HIDE DEF old
  <2>5. CopyClaims(r)
    BY <1>0, <2>2, <2>3 DEF CopyClaims, WriteClaims, Late, Honest, Kept, Paid, InLoop
  <2>6. (t = "rpc" => RpcClaims(r)) /\ (t = "watchdog" => DogClaims(r, queue))
    BY <1>0, <2>2, <2>3 DEF RpcClaims, DogClaims, Late, Holds, InLoop
  <2> QED
    BY <1>0, <2>2, <2>3, <2>4, <2>5, <2>6, Quiet DEF old
<1> QED
  BY <1>1, <1>2

\* A copy is written: what it says is what the promise and the payments allow.
LEMMA WriteOrderClaims == ASSUME Types, Claims, NEW t \in Thread, WriteOrder(t) PROVE Claims'
<1> DEFINE old == thread[t]
<1>0. /\ old \in Copy /\ old.o \in Order /\ old.ord \in OrderRow /\ CopyClaims(old)
      /\ (t = "rpc" => RpcClaims(old)) /\ (t = "watchdog" => DogClaims(old, queue))
      /\ old.at = "write" /\ Holds(old) /\ WriteClaims(old)
  BY Has DEF WriteOrder, Copy, CopyClaims, Holds
<1>1. PICK o \in Order : o = old.o
  BY <1>0
<1>2. PICK row \in OrderRow : row = old.ord
  BY <1>0
<1>3. PICK r : r = AfterWrite(old)
  OBVIOUS
<1>4. PICK h : h = IF old.op = "commit" /\ promised[o] = NoHash THEN row.commit ELSE promised[o]
  OBVIOUS
<1>5. /\ orders' = [orders EXCEPT ![o] = row] /\ thread' = [thread EXCEPT ![t] = r]
      /\ UNCHANGED <<queue, settled, overlapped, failures>>
  BY <1>1, <1>2, <1>3 DEF WriteOrder, Become, bounds
<1>6. promised' = [promised EXCEPT ![o] = h]
  BY <1>1, <1>2, <1>4 DEF WriteOrder, Types
<1> HIDE DEF old
<1>7. /\ promised[o] \in {NoHash, h} /\ (h # promised[o] => t = "rpc")
      /\ old.op = "commit" => h = row.commit
      /\ old.op # "commit" => h = promised[o] /\ Honest(o, row)
      /\ Kept(o, row)
  BY <1>0, <1>1, <1>2, <1>4 DEF CopyClaims, Honest, DogClaims, Thread
<1>8. /\ row.commit \in {NoHash, h} /\ row.result \in {NoHash, h}
      /\ row.status = "finished" => settled[o] > 0
  BY <1>7 DEF Honest, Kept
<1>9. /\ row.status \notin Early
      /\ row.status = "executing" => old.op \in {"start", "commit"} /\ t = "rpc"
      /\ row.status \in Payable => Unpaid(o)
  BY <1>0, <1>1, <1>2 DEF WriteClaims, Early, Payable, DogClaims, Thread
<1>10. row.status = "executing" => row.commit = h
  <2>1. old.op = "start" /\ row.status = "executing" => promised[o] = NoHash
    BY <1>0, <1>1, <1>2 DEF WriteClaims
  <2> QED
    BY <1>7, <1>8, <1>9, <2>1
<1>11. /\ (t = "watchdog" => old.op = "retry" /\ r = [Idle EXCEPT !.at = "retry"])
       /\ (t = "rpc" => \/ r = Idle
                        \/ r = Loop(old, "release", Assigned(old.ord)) /\ old.op \in {"reveal", "tee"})
  BY <1>0, <1>3 DEF AfterWrite, DogClaims, RpcClaims
<1>e. /\ o \in overlapped => row.status \in Late
      /\ r.op \notin {"manual", "retry"}
  <2>1. o \in overlapped => old.op \in {"manual", "retry"}
    BY <1>0, <1>1, <1>11 DEF RpcClaims, Thread
  <2>2. r.op \notin {"manual", "retry"}
    BY <1>0, <1>11, IdleGood DEF Thread, Loop, Copy, Idle
  <2> QED
    BY <1>0, <1>2, <2>1, <2>2 DEF CopyClaims
<1>12. CASE t = "rpc"
  <2>1. /\ \/ ~Paid(r) /\ ~Holds(r) /\ r.op = "none" /\ r = Idle
           \/ r.at = "loop" /\ r.job = "release" /\ r.op = old.op /\ r.o = o /\ r.ord = row
                 /\ old.op \in {"reveal", "tee"}
    BY <1>0, <1>1, <1>2, <1>11, <1>12, IdleClaims, IdleGood DEF Loop, Copy
  <2>2. CopyClaims(r)'
    <3>1. CASE r = Idle
      <4>1. /\ Idle.at = "idle" /\ Idle.op = "none" /\ Idle.ord.status = "none"
            /\ Idle.ord.commit = NoHash /\ Idle.ord.result = NoHash
        BY DEF Idle, NewOrder
      <4> QED
        BY <3>1, <4>1 DEF CopyClaims, Honest, Kept, Paid, InLoop
    <3>2. CASE r.at = "loop" /\ r.job = "release" /\ r.op = old.op /\ r.o = o /\ r.ord = row
                 /\ old.op \in {"reveal", "tee"}
      <4>1. promised'[o] = h /\ settled' = settled
        BY <1>5, <1>6 DEF Types
      <4> QED
        BY <1>7, <1>8, <3>2, <4>1 DEF CopyClaims, Honest, Kept, Paid, InLoop
    <3> QED
      BY <2>1, <3>1, <3>2
  <2>3. RpcClaims(r)'
    BY <2>1, IdleGood DEF RpcClaims, Holds, InLoop
  <2>4. o \in overlapped \/ (old.op = "manual" /\ ~DogHolds(o))
           \/ orders[o].status # "settlement_pending"
    BY <1>0, <1>1, <1>12 DEF RpcClaims, Claims, Apart, old
  <2>5. o \notin overlapped =>
           \A q \in queue' : q[2].status = "settlement_pending" => q[1] # o
    BY <1>5, <2>4 DEF Claims, QueueClaims, DogHolds
  <2>6. Dog.op = "retry" => Dog.o # o \/ o \in overlapped
    BY <2>4 DEF Claims, DogClaims, DogHolds
  <2> QED
    BY <1>1, <1>5, <1>6, <1>7, <1>8, <1>9, <1>10, <1>12, <1>e, <2>2, <2>3, <2>5, <2>6, Writes DEF old
<1>13. CASE t = "watchdog"
  <2>1. /\ r.at = "retry" /\ r.op = "none" /\ r.ord = Idle.ord /\ r.o = Idle.o
        /\ Idle.ord.status = "none" /\ Idle.ord.commit = NoHash /\ Idle.ord.result = NoHash
    BY <1>11, <1>13 DEF Idle, NewOrder
  <2>2. CopyClaims(r)'
    BY <2>1 DEF CopyClaims, Honest, Kept, Paid, InLoop
  <2>3. /\ o \in overlapped \/ orders[o].status = "settlement_pending"
        /\ \A q \in queue : q[1] # o
        /\ \A q \in queue : q[2].status = "settlement_pending"
    BY <1>0, <1>1, <1>11, <1>13 DEF DogClaims
  <2>4. DogClaims(r, queue)'
    BY <1>5, <2>1, <2>3 DEF DogClaims, InLoop
  <2>5. Holds(thread["rpc"]) /\ thread["rpc"].op # "manual" => thread["rpc"].o # o
    BY <2>3 DEF Claims, RpcClaims
  <2> QED
    BY <1>1, <1>5, <1>6, <1>7, <1>8, <1>9, <1>10, <1>13, <1>e, <2>2, <2>3, <2>4, <2>5, Writes DEF old
<1> QED
  BY <1>12, <1>13 DEF Thread

-----------------------------------------------------------------------------
(* The watchdog's own steps. *)

\* The watchdog takes up a copy, and the rows it has still to treat change.
LEMMA Takes ==
    ASSUME Types, Claims, NEW r, thread' = [thread EXCEPT !["watchdog"] = r],
           UNCHANGED <<orders, settled, promised, failures>>, overlapped \subseteq overlapped',
           \A o \in overlapped' \ overlapped :
              /\ thread["rpc"].op = "manual" /\ thread["rpc"].o = o
              /\ orders[o].status = "settlement_pending",
           ~Paid(Dog), CopyClaims(r), DogClaims(r, queue)', QueueClaims', Apart'
    PROVE  Claims'
<1>1. /\ thread' = [thread EXCEPT !["watchdog"] = r] /\ thread \in [Thread -> Copy]
      /\ Dog' = r /\ thread'["rpc"] = thread["rpc"] /\ Thread = {"rpc", "watchdog"}
  BY DEF Types, Dog, Thread
<1>2. UNCHANGED <<orders, settled, promised, failures>>
  OBVIOUS
<1>3. \A o \in Order : OrderClaims(o)'
  <2> SUFFICES ASSUME NEW o \in Order PROVE OrderClaims(o)'
    OBVIOUS
  <2>1. OrderClaims(o)
    BY DEF Claims
  <2>2. ASSUME NEW x \in Thread, thread[x].o = o, Paid(thread[x])
        PROVE  thread'[x].o = o /\ Paid(thread'[x])
    BY <1>1, <2>2 DEF Dog
  <2>3. (\E x \in Thread : thread[x].o = o /\ Paid(thread[x]))
           => \E x \in Thread : thread'[x].o = o /\ Paid(thread'[x])
    BY <2>2
  <2>4. o \in overlapped' => orders[o].status \in Late
    BY <2>1 DEF OrderClaims, Late
  <2> QED
    BY <1>2, <2>1, <2>3, <2>4 DEF OrderClaims, Honest, Kept, Unpaid, Paid, InLoop
<1>4. \A x \in Thread : CopyClaims(thread[x])'
  <2> SUFFICES ASSUME NEW x \in Thread PROVE CopyClaims(thread[x])'
    OBVIOUS
  <2>1. CopyClaims(thread'[x])
    BY <1>1 DEF Claims
  <2> QED
    BY <1>2, <2>1 DEF CopyClaims, WriteClaims, Honest, Kept, Unpaid, Paid, InLoop
<1>5. RpcClaims(thread["rpc"])'
  BY <1>1, <1>2 DEF Claims, RpcClaims, Holds, InLoop, Unpaid
<1>6. DogClaims(Dog, queue)'
  BY <1>1, <1>2 DEF DogClaims, InLoop
<1> QED
  BY <1>3, <1>4, <1>5, <1>6 DEF Claims

\* Reading rows of a table: each order's row is read once.
LEMMA RowsRead ==
    ASSUME Types, NEW S
    PROVE  /\ \A q \in Rows(S) : q[1] \in Order /\ q[2] = orders[q[1]] /\ q[2].status \in S
           /\ \A p, q \in Rows(S) : p[1] = q[1] => p = q
BY DEF Rows

LEMMA ScanClaims ==
    ASSUME Types, Claims, ScanPending \/ ScanRunning
    PROVE  Claims'
<1>0. /\ Dog \in Copy /\ DogClaims(Dog, queue) /\ CopyClaims(Dog) /\ "watchdog" \in Thread
      /\ Dog.at \in {"idle", "retry"} /\ Dog.op = "none" /\ ~Paid(Dog)
  BY Has DEF Dog, Thread, ScanPending, ScanRunning, DogClaims, Paid, InLoop
<1>1. \A q \in Order : OrderClaims(q)
  BY DEF Claims
<1>2. PICK S : S = IF Dog.at = "idle" THEN {"settlement_pending"} ELSE {"matched", "executing"}
  OBVIOUS
<1>3. PICK r : r = [Dog EXCEPT !.at = IF Dog.at = "idle" THEN "retry" ELSE "expire"]
  OBVIOUS
<1>4. /\ queue' = Rows(S) /\ UNCHANGED <<orders, settled, promised, failures>>
      /\ thread' = [thread EXCEPT !["watchdog"] = r]
  BY <1>2, <1>3 DEF ScanPending, ScanRunning, Goto, Dog, Types, tables, bounds, history
<1>5. /\ r.at = (IF Dog.at = "idle" THEN "retry" ELSE "expire")
      /\ r.op = "none" /\ r.o = Dog.o /\ r.ord = Dog.ord
  BY <1>0, <1>3 DEF Copy
<1>o. /\ overlapped' = overlapped \cup
              {o \in Order : /\ thread["rpc"].op = "manual" /\ thread["rpc"].o = o
                            /\ Dog.at = "idle" /\ orders[o].status = "settlement_pending"}
      /\ Dog' = r /\ thread'["rpc"] = thread["rpc"]
  <2>1. Dog' = r /\ thread'["rpc"] = thread["rpc"]
    BY <1>0, <1>4 DEF Dog, Thread, Types
  <2>2. CASE ScanPending
    <3>1. /\ Dog.at = "idle" /\ queue' = Rows({"settlement_pending"})
          /\ overlapped' = overlapped \cup {q[1] : q \in {p \in queue' :
                               thread["rpc"].op = "manual" /\ thread["rpc"].o = p[1]}}
      BY <2>2 DEF ScanPending
    <3>2. \A q \in queue' : q[1] \in Order /\ orders[q[1]].status = "settlement_pending"
      BY <3>1, RowsRead
    <3>3. \A o \in Order : orders[o].status = "settlement_pending"
                              => \E q \in queue' : q[1] = o
      <4> SUFFICES ASSUME NEW o \in Order, orders[o].status = "settlement_pending"
                   PROVE  \E q \in queue' : q[1] = o
        OBVIOUS
      <4>1. <<o, orders[o]>> \in Rows({"settlement_pending"})
        BY DEF Rows
      <4> QED
        BY <3>1, <4>1
    <3> DEFINE mine == {q[1] : q \in {p \in queue' : /\ thread["rpc"].op = "manual"
                                                 /\ thread["rpc"].o = p[1]}}
               them == {o \in Order : /\ thread["rpc"].op = "manual" /\ thread["rpc"].o = o
                                     /\ Dog.at = "idle"
                                     /\ orders[o].status = "settlement_pending"}
    <3>4. mine \subseteq them
      BY <3>1, <3>2
    <3>5. them \subseteq mine
      BY <3>1, <3>3
    <3>6. overlapped' = overlapped \cup mine
      BY <3>1
    <3> HIDE DEF mine, them
    <3>7. overlapped' = overlapped \cup them
      BY <3>4, <3>5, <3>6
    <3> QED
      BY <2>1, <3>7 DEF them
  <2>3. CASE ScanRunning
    BY <2>1, <2>3 DEF ScanRunning, history
  <2> QED
    BY <2>2, <2>3
<1>6. CopyClaims(r)
  BY <1>0, <1>5 DEF CopyClaims, Paid, InLoop
<1>7. DogClaims(r, queue)'
  BY <1>0, <1>2, <1>4, <1>5, RowsRead DEF DogClaims, InLoop
<1>8. ASSUME NEW o \in Order, orders[o].status = "settlement_pending"
      PROVE  Unpaid(o) \/ (thread["rpc"].op = "manual" /\ thread["rpc"].o = o)
  <2>1. Unpaid(o) \/ \E t \in Thread : thread[t].o = o /\ Paid(thread[t])
    BY <1>1, <1>8 DEF OrderClaims, Payable
  <2>2. Paid(thread["rpc"]) => Holds(thread["rpc"])
    BY DEF Paid, Holds
  <2>3. Paid(thread["rpc"]) /\ thread["rpc"].op # "manual" => thread["rpc"].o # o
    BY <1>8, <2>2 DEF Claims, RpcClaims
  <2> QED
    BY <1>0, <2>1, <2>3 DEF Thread, Dog
<1>9. QueueClaims'
  <2>1. \A q \in queue' : Honest(q[1], q[2])
    BY <1>1, <1>4, RowsRead DEF OrderClaims
  <2>2. \A q \in queue' : q[2].status = "settlement_pending" =>
           orders[q[1]].status = "settlement_pending" /\ Unpaid(q[1])'
    <3> SUFFICES ASSUME NEW q \in queue', q[2].status = "settlement_pending"
                 PROVE  orders[q[1]].status = "settlement_pending" /\ Unpaid(q[1])'
      OBVIOUS
    <3>1. q[1] \in Order /\ q[2] = orders[q[1]] /\ q[2].status \in S
      BY <1>4, RowsRead
    <3>2. Dog.at = "idle"
      BY <1>2, <3>1
    <3> QED
      BY <1>4, <1>8, <1>o, <3>1, <3>2 DEF Unpaid
  <2>3. \A p, q \in queue' : p[1] = q[1] => p = q
    BY <1>4, RowsRead
  <2> QED
    BY <1>4, <2>1, <2>2, <2>3 DEF QueueClaims, Honest, Kept, Unpaid, history
<1>10. Apart'
  <2>1. ASSUME thread["rpc"].op = "manual", thread["rpc"].o \notin overlapped',
               NEW q \in queue', q[2].status = "settlement_pending"
        PROVE  q[1] # thread["rpc"].o
    <3>1. q[1] \in Order /\ q[2] = orders[q[1]] /\ q[2].status \in S
      BY <1>4, RowsRead
    <3> QED
      BY <1>2, <1>o, <2>1, <3>1
  <2> QED
    BY <1>5, <1>o, <2>1 DEF Apart, DogHolds
<1> QED
  BY <1>0, <1>4, <1>6, <1>7, <1>9, <1>10, <1>o, Takes

LEMMA NextRowClaims ==
    ASSUME Types, Claims, RetryNext \/ ExpireNext
    PROVE  Claims'
<1>0. /\ Dog \in Copy /\ DogClaims(Dog, queue) /\ CopyClaims(Dog) /\ "watchdog" \in Thread
      /\ Dog.at \in {"retry", "expire"} /\ Dog.op = "none" /\ ~Paid(Dog)
      /\ UNCHANGED <<orders, settled, promised, overlapped, failures>>
      /\ queue' \subseteq queue
  BY Has DEF Dog, Thread, RetryNext, ExpireNext, DogClaims, Paid, InLoop, tables, bounds, history
<1>1. QueueClaims'
  BY <1>0 DEF Claims, QueueClaims, Honest, Kept, Unpaid, history
\* The watchdog holds what it held, and r may be what it took from the queue.
<1>a. ASSUME NEW r, thread' = [thread EXCEPT !["watchdog"] = r],
             r.op = "retry" => \E q \in queue : q[1] = r.o /\ q[2].status = "settlement_pending"
      PROVE  Apart'
  <2>1. Dog' = r /\ thread'["rpc"] = thread["rpc"]
    BY <1>0, <1>a DEF Dog, Thread, Types
  <2> QED
    BY <1>0, <1>a, <2>1 DEF Claims, Apart, DogHolds
<1>2. CASE RetryNext
  <2>1. PICK q \in queue : /\ queue' = queue \ {q}
                           /\ Become("watchdog", [Idle EXCEPT !.at = "settle", !.op = "retry",
                                                              !.o = q[1], !.ord = q[2]])
    BY <1>2 DEF RetryNext
  <2>2. PICK r : r = [Idle EXCEPT !.at = "settle", !.op = "retry", !.o = q[1], !.ord = q[2]]
    OBVIOUS
  <2>3. /\ r.at = "settle" /\ r.op = "retry" /\ r.o = q[1] /\ r.ord = q[2]
        /\ thread' = [thread EXCEPT !["watchdog"] = r]
    BY <2>1, <2>2 DEF Idle, Become
  <2>4. /\ q[2].status = "settlement_pending" /\ \A p \in queue : p[2].status = "settlement_pending"
    BY <1>0, <1>2 DEF RetryNext, DogClaims
  <2>5. /\ Unpaid(q[1]) /\ Honest(q[1], q[2])
        /\ q[1] \notin overlapped => orders[q[1]].status = "settlement_pending"
        /\ \A p \in queue \ {q} : p[1] # q[1]
    BY <2>4 DEF Claims, QueueClaims
  <2>6. CopyClaims(r)
    BY <2>3, <2>4, <2>5 DEF CopyClaims, Paid, InLoop, Late
  <2>7. DogClaims(r, queue)'
    BY <1>0, <2>1, <2>3, <2>4, <2>5 DEF DogClaims, InLoop
  <2> QED
    BY <1>0, <1>1, <1>a, <2>3, <2>4, <2>6, <2>7, Takes
<1>3. CASE ExpireNext
  <2>1. PICK q \in queue :
           /\ queue' = queue \ {q}
           /\ \/ \E again : Become("watchdog",
                    [Idle EXCEPT !.at = "timeout", !.op = "timeout", !.o = q[1],
                                 !.ord = [q[2] EXCEPT !.status = "failed"], !.again = again])
              \/ UNCHANGED thread
    BY <1>3 DEF ExpireNext
  <2>2. Dog.at = "expire" /\ \A p \in queue : p[2].status \in {"matched", "executing"}
    BY <1>0, <1>3 DEF ExpireNext, DogClaims
  <2>3. q[2] \in OrderRow /\ Honest(q[1], q[2])
    BY DEF Types, Claims, QueueClaims
  <2>4. CASE UNCHANGED thread
    <3>1. thread' = [thread EXCEPT !["watchdog"] = Dog]
      BY <2>4 DEF Types, Dog
    <3>2. DogClaims(Dog, queue)'
      BY <1>0, <2>1, <2>2, <2>4 DEF DogClaims, InLoop, Dog
    <3>3. PICK r : r = Dog
      OBVIOUS
    <3>4. Dog' = r
      BY <2>4, <3>3 DEF Dog
    <3> QED
      BY <1>0, <1>1, <1>a, <3>1, <3>2, <3>3, <3>4, Takes
  <2>5. ASSUME NEW again,
               Become("watchdog",
                    [Idle EXCEPT !.at = "timeout", !.op = "timeout", !.o = q[1],
                                 !.ord = [q[2] EXCEPT !.status = "failed"], !.again = again])
        PROVE  Claims'
    <3>1. PICK row : row = [q[2] EXCEPT !.status = "failed"]
      OBVIOUS
    <3>2. PICK r : r = [Idle EXCEPT !.at = "timeout", !.op = "timeout", !.o = q[1],
                                    !.ord = row, !.again = again]
      OBVIOUS
    <3>3. /\ r.at = "timeout" /\ r.op = "timeout" /\ r.o = q[1] /\ r.ord = row
          /\ thread' = [thread EXCEPT !["watchdog"] = r]
      BY <2>5, <3>1, <3>2 DEF Idle, Become
    <3>4. row.status = "failed" /\ row.commit = q[2].commit /\ row.result = q[2].result
      BY <2>3, <3>1 DEF OrderRow
    <3>5. CopyClaims(r)
      BY <2>3, <3>3, <3>4 DEF CopyClaims, Honest, Kept, Paid, InLoop
    <3>6. DogClaims(r, queue)'
      BY <1>0, <2>1, <2>2, <3>3, <3>4 DEF DogClaims, InLoop
    <3> QED
      BY <1>0, <1>1, <1>a, <3>3, <3>5, <3>6, Takes
  <2> QED
    BY <2>1, <2>4, <2>5
<1> QED
  BY <1>2, <1>3

LEMMA TimeoutClaims ==
    ASSUME Types, Claims, TimeoutOrder \/ ScanMiners \/ PassDone
    PROVE  Claims'
<1>0. /\ Dog = thread["watchdog"] /\ Dog \in Copy /\ DogClaims(Dog, queue) /\ CopyClaims(Dog)
      /\ "watchdog" \in Thread /\ Dog.at \in {"timeout", "expire", "offline"} /\ ~Paid(Dog)
      /\ UNCHANGED <<orders, queue, history, failures>>
  BY Has DEF Dog, Thread, TimeoutOrder, ScanMiners, PassDone, Paid, InLoop, tables, bounds
<1>1. CASE TimeoutOrder
  <2>1. PICK r : r = Loop(Dog, "release", Assigned(Dog.ord))
    OBVIOUS
  <2>2. Become("watchdog", r) /\ Dog.at = "timeout" /\ Dog.op = "timeout"
    BY <1>0, <1>1, <2>1 DEF TimeoutOrder, DogClaims
  <2>3. /\ r.at = "loop" /\ r.job = "release" /\ r.op = Dog.op /\ r.o = Dog.o /\ r.ord = Dog.ord
    BY <1>0, <2>1 DEF Loop, Copy
  <2>4. CopyClaims(r)
    BY <1>0, <2>2, <2>3 DEF CopyClaims, Paid, InLoop
  <2>5. DogClaims(r, queue)
    BY <1>0, <2>2, <2>3 DEF DogClaims, InLoop
  <2> QED
    BY <1>0, <2>2, <2>3, <2>4, <2>5, Quiet
<1>2. CASE ScanMiners
  <2>1. PICK r : r = [Dog EXCEPT !.at = "offline"]
    OBVIOUS
  <2>2. Become("watchdog", r) /\ queue = {} /\ Dog.at = "expire" /\ Dog.op = "none"
    BY <1>0, <1>2, <2>1 DEF ScanMiners, Goto, Become, Dog, Types, DogClaims
  <2>3. r.at = "offline" /\ r.op = "none" /\ r.o = Dog.o /\ r.ord = Dog.ord
    BY <1>0, <2>1, <2>2 DEF Copy
  <2>4. CopyClaims(r)
    BY <1>0, <2>2, <2>3 DEF CopyClaims, Paid, InLoop
  <2>5. DogClaims(r, queue)
    BY <2>2, <2>3 DEF DogClaims, InLoop
  <2> QED
    BY <1>0, <2>2, <2>3, <2>4, <2>5, Quiet
<1>3. CASE PassDone
  <2>1. Become("watchdog", Idle) /\ queue = {}
    BY <1>0, <1>3 DEF PassDone, DogClaims
  <2> QED
    BY <1>0, <2>1, IdleClaims, IdleGood, Quiet
<1> QED
  BY <1>1, <1>2, <1>3

LEMMA PenaltyClaims == ASSUME Types, Claims, Penalty PROVE Claims'
<1>0. /\ Dog = thread["watchdog"] /\ Dog \in Copy /\ DogClaims(Dog, queue) /\ CopyClaims(Dog)
      /\ "watchdog" \in Thread /\ Dog.at = "penalty" /\ ~Paid(Dog) /\ Dog.op = "timeout"
      /\ UNCHANGED <<settled, promised, overlapped, failures>>
  BY Has DEF Dog, Thread, Penalty, Paid, InLoop, DogClaims, history, bounds
<1>1. CASE Assigned(Dog.ord) \subseteq beating
  <2>1. PICK o \in Order : o = Dog.o
    BY <1>0 DEF Copy
  <2>2. PICK row \in OrderRow : row = Dog.ord
    BY <1>0 DEF Copy
  <2>3. PICK r : r = IF Dog.again THEN [Dog EXCEPT !.at = "timeout", !.again = FALSE]
                                  ELSE [Idle EXCEPT !.at = "expire"]
    OBVIOUS
  <2>4. /\ orders' = [orders EXCEPT ![o] = row] /\ thread' = [thread EXCEPT !["watchdog"] = r]
        /\ queue' = queue
    BY <1>1, <2>1, <2>2, <2>3 DEF Penalty, Become
  <2>5. row.status = "failed" /\ Honest(o, row)
    BY <1>0, <2>1, <2>2 DEF DogClaims, CopyClaims
  <2>6. PICK h : h = promised[o]
    OBVIOUS
  <2>7. promised' = [promised EXCEPT ![o] = h]
    BY <1>0, <2>6 DEF Types
  <2>8. \/ r.at = "timeout" /\ r.op = "timeout" /\ r.o = o /\ r.ord = row
        \/ /\ r.at = "expire" /\ r.op = "none" /\ r.ord.status = "none"
           /\ r.ord.commit = NoHash /\ r.ord.result = NoHash
    <3>1. CASE Dog.again
      BY <1>0, <2>1, <2>2, <2>3, <3>1 DEF Copy
    <3>2. CASE ~Dog.again
      BY <2>3, <3>2 DEF Idle, NewOrder
    <3> QED
      BY <3>1, <3>2
  <2>9. CopyClaims(r)'
    BY <1>0, <2>5, <2>8 DEF CopyClaims, Honest, Kept, Paid, InLoop
  <2>10. \A q \in queue : q[2].status \in {"matched", "executing"}
    BY <1>0 DEF DogClaims
  <2>11. DogClaims(r, queue)'
    BY <1>0, <2>4, <2>5, <2>8, <2>10 DEF DogClaims, InLoop
  <2>12. row.commit \in {NoHash, h} /\ row.result \in {NoHash, h}
    BY <2>5, <2>6 DEF Honest, Kept
  <2>13. row.status \notin Payable /\ row.status \notin Early /\ row.status \in Late
    BY <2>5 DEF Payable, Early, Late
  <2> QED
    BY <1>0, <2>1, <2>4, <2>5, <2>6, <2>7, <2>8, <2>9, <2>10, <2>11, <2>12, <2>13, Writes
<1>2. CASE ~(Assigned(Dog.ord) \subseteq beating)
  <2>1. /\ thread' = [thread EXCEPT !["watchdog"] = Idle] /\ queue' = {} /\ orders' = orders
    BY <1>2 DEF Penalty, Become
  <2>2. PICK r : r = Idle
    OBVIOUS
  <2>3. /\ r.at = "idle" /\ r.op = "none" /\ CopyClaims(r)
    BY <2>2, IdleClaims, IdleGood
  <2>4. DogClaims(r, queue)'
    BY <2>1, <2>3 DEF DogClaims, InLoop
  <2>5. QueueClaims'
    BY <2>1 DEF QueueClaims
  <2>6. Apart'
    <3>1. Dog' = r /\ thread'["rpc"] = thread["rpc"]
      BY <1>0, <2>1, <2>2 DEF Dog, Thread, Types
    <3> QED
      BY <1>0, <2>1, <2>3, <3>1 DEF Claims, Apart, DogHolds
  <2> QED
    BY <1>0, <2>1, <2>2, <2>3, <2>4, <2>5, <2>6, Takes
<1> QED
  BY <1>1, <1>2

\* A crash or an exception forgets copies; each order may be paid once more.
LEMMA FailureClaims ==
    ASSUME Types, Claims, Crash \/ \E t \in Thread : Raises(t)
    PROVE  Claims'
<1>1. /\ failures' = failures + 1 /\ failures \in Nat /\ settled \in [Order -> Nat]
      /\ UNCHANGED <<orders, settled, promised, overlapped>> /\ Thread = {"rpc", "watchdog"}
      /\ \/ queue' = {} /\ Dog' = Idle
         \/ queue' = queue /\ Dog' = Dog
      /\ thread'["rpc"] \in {Idle, thread["rpc"]}
      /\ thread'["watchdog"] \in {Idle, thread["watchdog"]}
  BY DEF Crash, Raises, Become, Types, tables, history, Thread, Dog
<1>2. ASSUME NEW o \in Order PROVE OrderClaims(o)' /\ Unpaid(o)'
  <2>1. OrderClaims(o)
    BY DEF Claims
  <2>2. (o \in overlapped \/ settled[o] <= 1 + failures) /\ settled[o] \in Nat
    BY <1>1, <2>1 DEF OrderClaims
  <2>3. Unpaid(o)' /\ (o \in overlapped \/ settled'[o] <= 1 + failures')
    BY <1>1, <2>2 DEF Unpaid
  <2> QED
    BY <1>1, <2>1, <2>3 DEF OrderClaims, Honest, Kept
<1>3. /\ Idle.at = "idle" /\ Idle.op = "none" /\ Idle.ord.status = "none"
      /\ Idle.ord.commit = NoHash /\ Idle.ord.result = NoHash
  BY DEF Idle, NewOrder
<1>4. PICK i : i = Idle
  OBVIOUS
<1>5. ASSUME NEW t \in Thread PROVE CopyClaims(thread[t])'
  <2>1. CopyClaims(i)'
    BY <1>1, <1>3, <1>4 DEF CopyClaims, Honest, Kept, Paid, InLoop
  <2>2. CASE thread'[t] = i
    BY <2>1, <2>2
  <2>3. CASE thread'[t] = thread[t]
    <3> DEFINE s == thread[t]
    <3>1. CopyClaims(s) /\ s' = s /\ s.o \in Order
      BY <2>3 DEF Claims, Types, Copy
    <3>2. Unpaid(s.o)'
      BY <1>2, <3>1
    <3> HIDE DEF s
    <3> QED
      BY <1>1, <3>1, <3>2 DEF CopyClaims, WriteClaims, Honest, Kept, Paid, InLoop, s
  <2> QED
    BY <1>1, <1>4, <2>2, <2>3
<1>6. RpcClaims(thread["rpc"])'
  <2>1. RpcClaims(i)'
    BY <1>3, <1>4 DEF RpcClaims, Holds, InLoop
  <2>2. CASE thread'["rpc"] = i
    BY <2>1, <2>2
  <2>3. CASE thread'["rpc"] = thread["rpc"]
    <3>1. RpcClaims(thread["rpc"]) /\ thread["rpc"].o \in Order
      BY <1>1 DEF Claims, Types, Copy
    <3> QED
      BY <1>1, <1>2, <2>3, <3>1 DEF RpcClaims, Holds, InLoop
  <2> QED
    BY <1>1, <1>4, <2>2, <2>3
<1>7. DogClaims(Dog, queue)'
  <2>1. queue' = {} => DogClaims(i, queue)'
    BY <1>3, <1>4 DEF DogClaims, InLoop
  <2>2. CASE queue' = {} /\ Dog' = i
    BY <2>1, <2>2
  <2>3. CASE queue' = queue /\ Dog' = Dog
    BY <1>1, <2>3 DEF Claims, DogClaims, InLoop
  <2> QED
    BY <1>1, <1>4, <2>2, <2>3
<1>8. QueueClaims'
  <2>1. \A q \in queue' : q[1] \in Order /\ q \in queue
    BY <1>1 DEF Types
  <2> QED
    BY <1>1, <1>2, <2>1 DEF Claims, QueueClaims, Honest, Kept
<1>9. Apart'
  BY <1>1, <1>3 DEF Claims, Apart, DogHolds
<1> QED
  BY <1>1, <1>2, <1>5, <1>6, <1>7, <1>8, <1>9 DEF Claims

-----------------------------------------------------------------------------
(* The theorems. *)

\* Who may still be paid and who has been is as claimed in every state.
THEOREM ClaimsHold == Spec => []Claims
<1>1. ASSUME Types, Claims, [Next]_vars PROVE Claims'
  <2>1. "rpc" \in Thread /\ "watchdog" \in Thread
    BY DEF Thread
  <2>2. \A t \in Thread : ThreadStep(t) => Claims'
    BY <1>1, LoopClaims, SettlesClaims, EndClaims, WriteOrderClaims DEF ThreadStep
  <2>3. DogStep => Claims'
    <3>1. OfflineNext => Claims'
      BY <1>1, StillClaims DEF OfflineNext, bounds
    <3> QED
      BY <1>1, <2>1, <2>2, <3>1, ScanClaims, NextRowClaims, TimeoutClaims, PenaltyClaims DEF DogStep
  <2>4. Lapse \/ (\E o \in Order : Tick(o)) \/ UNCHANGED vars => Claims'
    BY <1>1, StillClaims DEF Lapse, Tick, vars, tables, history, bounds
  <2> QED
    BY <1>1, <2>1, <2>2, <2>3, <2>4, CallClaims, MatchClaims, FailureClaims DEF Next, RpcStep
<1>2. Spec => []Types
  BY TypesHold
<1> QED
  BY InitClaims, <1>1, <1>2, PTL DEF Spec

\* Every row of the two tables keeps its shape, no miner ever offers more free
\* GPUs than the cap, and no order holds more than it asked for.
THEOREM TypeCorrect == Spec => []TypeOK
<1>1. Types => TypeOK
  <2> SUFFICES ASSUME Types PROVE TypeOK
    OBVIOUS
  <2>1. ASSUME NEW o \in Order
        PROVE  /\ orders[o].status \in Status
               /\ \A m \in Miner : orders[o].gpus[m] \in 0 .. GpuCount[o]
               /\ {orders[o].commit, orders[o].result} \subseteq Hash \cup {NoHash}
    <3>1. orders[o] \in OrderRow /\ \A m \in Miner : orders[o].gpus[m] <= GpuCount[o]
      BY DEF Types, OrderFor
    <3>2. GpuCount[o] \in Nat
      BY ComputeMarketAssumption
    <3> QED
      BY <3>1, <3>2 DEF OrderRow
  <2>2. ASSUME NEW m \in Miner
        PROVE  /\ miners[m].status \in {"offline", "available", "busy"}
               /\ miners[m].free \in Int /\ miners[m].free <= Cap
               /\ miners[m].current \subseteq Order
    <3>1. miners[m] \in SomeMiner
      BY DEF Types
    <3> QED
      BY <3>1 DEF SomeMiner, MinerRow
  <2> QED
    BY <2>1, <2>2 DEF Types, TypeOK
<1> QED
  BY <1>1, TypesHold, PTL

\* No order is ever shown as finished before its settlement has succeeded.
THEOREM PaymentBeforeFinish == Spec => []FinishedIsPaid
<1>1. Claims => FinishedIsPaid
  BY DEF Claims, OrderClaims, Honest, Kept, FinishedIsPaid
<1> QED
  BY <1>1, ClaimsHold, PTL

\* The call that reveals a result, the watchdog's retry and the retry by hand
\* pay an order once, but for two retries of it at the same time: only a crash
\* or an exception after the payment costs another.
THEOREM OnePayment == Spec => []PaidOnce
<1>1. Claims => PaidOnce
  BY DEF Claims, OrderClaims, PaidOnce
<1> QED
  BY <1>1, ClaimsHold, PTL

\* No row shows another result than the first one promised.
THEOREM PromiseStands == Spec => []PromiseKept
<1>1. Claims => PromiseKept
  BY DEF Claims, OrderClaims, Honest, Kept, PromiseKept
<1> QED
  BY <1>1, ClaimsHold, PTL
=============================================================================
