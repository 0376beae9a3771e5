----------------------- MODULE ComputeScheduler_proofs -----------------------
(***************************************************************************)
(* TLAPS proofs about ComputeScheduler, for every set of tasks and miners, *)
(* every redundancy and every bound.                                       *)
(*                                                                         *)
(* The invariant.  Both threads write whole rows that they read earlier,   *)
(* so what holds of the table holds only if it holds of every copy: the    *)
(* rows in the threads' hands (Sound) and those in the watchdog's queue.   *)
(* A row is good when it is completed only on a batch that passed, and has *)
(* no more payments for a miner than the task had settlements.             *)
(*                                                                         *)
(* The n-th settlement adds at most n shares to a miner's earnings, and    *)
(* only once, so after it the miner has at most 1 + ... + n; while it is   *)
(* still to be paid by the settlement at hand (Owes), at most              *)
(* 1 + ... + (n - 1): that is Debts.  A batch counts as a settlement only  *)
(* if it was never verified before: BatchInv.                              *)
(***************************************************************************)
EXTENDS ComputeScheduler, FiniteSetTheorems, TLAPS

\* Of the batches V, those of the task t.
Of(V, t) == {b \in V : b.task = t}

\* The settlements of t when the batches V passed, and A says how often the
\* reward was asked for.
Count(V, A, t) == Cardinality(Of(V, t)) + A[t]

Triangle(n) == n * (n + 1)

\* A row that the table may hold.
GoodRow(V, A, t, row) ==
    /\ row.status = "completed" => Of(V, t) # {}
    /\ \A m \in Miner : row.payments[m] <= Count(V, A, t)

\* A settlement has been called for, and the shares are still to be added.
Called(r) == r.op = "passed" /\ r.at \in {"credit", "free"}

\* The settlement at hand has not yet paid the miner m for the task t.
Owes(r, t, m) ==
    /\ r.t = t
    /\ \/ Called(r)
       \/ r.at \in {"settle", "earn"} /\ m \in r.todo
       \/ r.at = "earn" /\ r.m = m

\* What the earnings E may be when r is what the RPC thread does.
Debts(V, A, E, r) ==
    \A t \in Task, m \in Miner :
        /\ 2 * E[t][m] <= Triangle(Count(V, A, t))
        /\ Owes(r, t, m) => 2 * E[t][m] <= Triangle(Count(V, A, t) - 1)

\* What a thread may have in hand.
Sound(V, A, r) ==
    /\ r.t \in Task => GoodRow(V, A, r.t, r.row)
    /\ r.t \in Task \/ r.at \in {"idle", "timeouts", "silent", "decay", "touch", "credit", "free"}
    /\ r.op \in {"passed", "reward"} => r.t \in Task
    /\ r.at \in {"credit", "free"} => r.op \in {"passed", "trapped"} /\ r.m \in Miner
    /\ r.op = "trapped" => r.m \in Miner
    /\ r.op = "passed" => r.at \in {"credit", "free", "settle", "earn", "save"}
    /\ r.op = "trapped" => r.at \in {"credit", "free", "save"}
    /\ r.at \in {"settle", "earn"} => r.op \in {"passed", "reward"}
    /\ r.at = "earn" => r.m \in Miner /\ r.m \notin r.todo
    /\ Called(r) => \A m \in Miner : r.row.payments[m] <= Count(V, A, r.t) - 1

BatchInv ==
    /\ batches \cap verified = {} /\ IsFiniteSet(verified)
    /\ \A b \in batches \cup verified : b.id < made

IInv ==
    /\ TypeOK /\ BatchInv
    /\ \A t \in Task : GoodRow(verified, asked, t, tasks[t])
    /\ \A th \in Thread : Sound(verified, asked, thread[th])
    /\ \A q \in queue : GoodRow(verified, asked, q[1], q[2])
    /\ Debts(verified, asked, earned, Rpc)

-----------------------------------------------------------------------------
(* Lemmas. *)

LEMMA OfFinite ==
    ASSUME NEW V, IsFiniteSet(V), NEW t
    PROVE  IsFiniteSet(Of(V, t)) /\ Cardinality(Of(V, t)) \in Nat
<1>1. Of(V, t) \subseteq V
  BY DEF Of
<1> QED
  BY <1>1, FS_Subset, FS_CardinalityType

LEMMA CountNat ==
    ASSUME NEW V, IsFiniteSet(V), NEW A \in [Task -> Nat], NEW t \in Task
    PROVE  Count(V, A, t) \in Nat
BY OfFinite DEF Count

\* The sums 1 + 2 + ... + n, doubled.
LEMMA TriangleGrows == \A n \in Nat : Triangle(n) <= Triangle(n + 1) /\ 0 <= Triangle(n)
<1> SUFFICES ASSUME NEW n \in Nat PROVE Triangle(n) <= Triangle(n + 1) /\ 0 <= Triangle(n)
  OBVIOUS
<1>1. (n + 1) * (n + 2) = n * (n + 1) + 2 * (n + 1)
  OBVIOUS
<1>2. n * (n + 1) \in Nat
  OBVIOUS
<1> QED
  BY <1>1, <1>2 DEF Triangle

LEMMA TriangleNext ==
    ASSUME NEW n \in Nat, NEW e \in Nat, NEW p \in Nat, p <= n, 2 * e <= Triangle(n - 1)
    PROVE  2 * (e + p) <= Triangle(n)
<1>1. n * (n + 1) = (n - 1) * n + 2 * n
  OBVIOUS
<1>2. (n - 1) * n \in Int /\ Triangle(n - 1) = (n - 1) * n
  BY DEF Triangle
<1> QED
  BY <1>1, <1>2 DEF Triangle

\* One more batch of the task t, and as many of every other.
LEMMA OfMore ==
    ASSUME NEW V, IsFiniteSet(V), NEW b, b \notin V
    PROVE  /\ Of(V \cup {b}, b.task) # {}
           /\ Cardinality(Of(V \cup {b}, b.task)) = Cardinality(Of(V, b.task)) + 1
           /\ \A t : t # b.task => Of(V \cup {b}, t) = Of(V, t)
<1>1. Of(V \cup {b}, b.task) = Of(V, b.task) \cup {b} /\ b \notin Of(V, b.task)
  BY DEF Of
<1>2. IsFiniteSet(Of(V, b.task))
  BY OfFinite
<1>3. Cardinality(Of(V, b.task) \cup {b}) = Cardinality(Of(V, b.task)) + 1
  BY <1>1, <1>2, FS_AddElement
<1>4. ASSUME NEW t, t # b.task PROVE Of(V \cup {b}, t) = Of(V, t)
  BY <1>4 DEF Of
<1> QED
  BY <1>1, <1>3, <1>4

\* The rows a thread starts with.
LEMMA IdleSound ==
    /\ NewTask \in TaskRow /\ NewMiner \in MinerRow /\ Idle \in CopyRow
    /\ NoResults \in [Miner -> Answer \cup {None}] /\ Nothing \in [Miner -> Nat]
    /\ \A V, A, t : IsFiniteSet(V) /\ A \in [Task -> Nat] /\ t \in Task => GoodRow(V, A, t, NewTask)
    /\ \A V, A : Sound(V, A, Idle)
    /\ \A t, m : ~Owes(Idle, t, m)
<1> USE ComputeSchedulerAssumption
<1>1. NewMiner \in MinerRow /\ NoResults \in [Miner -> Answer \cup {None}] /\ Nothing \in [Miner -> Nat]
  BY DEF NewMiner, MinerRow, NoResults, Nothing
<1>2. NewTask \in TaskRow
  BY <1>1 DEF NewTask, TaskRow, Status
<1>3. Idle \in CopyRow
  BY <1>1, <1>2 DEF Idle, CopyRow, Label, Op
<1>4. ASSUME NEW V, NEW A \in [Task -> Nat], NEW t \in Task, IsFiniteSet(V)
      PROVE  GoodRow(V, A, t, NewTask)
  BY <1>4, CountNat DEF GoodRow, NewTask, Nothing
<1>5. \A V, A : Sound(V, A, Idle)
  BY DEF Sound, Idle, Called
<1>6. \A t, m : ~Owes(Idle, t, m)
  BY DEF Owes, Called, Idle
<1> QED
  BY <1>1, <1>2, <1>3, <1>4, <1>5, <1>6

LEMMA InitIInv == Init => IInv
<1> SUFFICES ASSUME Init PROVE IInv
  OBVIOUS
<1> USE ComputeSchedulerAssumption
<1>1. IsFiniteSet(verified) /\ asked \in [Task -> Nat]
  BY FS_EmptySet DEF Init
<1>2. [NewMiner EXCEPT !.status = "online"] \in MinerRow
  BY DEF NewMiner, MinerRow
<1>3. TypeOK
  BY <1>2, IdleSound DEF Init, TypeOK
<1>4. BatchInv
  BY <1>1 DEF Init, BatchInv
<1>5. Debts(verified, asked, earned, Rpc)
  <2>1. ASSUME NEW t \in Task, NEW m \in Miner
        PROVE  2 * earned[t][m] <= Triangle(Count(verified, asked, t)) /\ ~Owes(Rpc, t, m)
    <3>1. earned[t][m] = 0 /\ Rpc = Idle
      BY DEF Init, Nothing, Rpc, Thread
    <3>2. Count(verified, asked, t) \in Nat
      BY <1>1, CountNat
    <3>3. 0 <= Triangle(Count(verified, asked, t))
      BY <3>2, TriangleGrows
    <3> QED
      BY <3>1, <3>3, IdleSound
  <2> QED
    BY <2>1 DEF Debts
<1> QED
  BY <1>1, <1>3, <1>4, <1>5, IdleSound DEF IInv, Init

\* The counters and the engine's own tables.
RestType ==
    /\ fails \in [Miner -> Nat] /\ banned \subseteq Miner /\ made \in Nat
    /\ calls \in 0 .. Calls /\ silences \in 0 .. Silences
    /\ decays \in 0 .. Decays /\ failures \in 0 .. Failures

\* A step of the thread th that ends with r in hand owes nobody anything that
\* was not owed before.
Eased(th, r) ==
    \/ th = "watchdog"
    \/ r.at \notin {"settle", "earn"} /\ ~Called(r)
    \/ \A t \in Task, m \in Miner : Owes(r, t, m) => Owes(Rpc, t, m)

LEMMA NoIdleDebt == \A th : Eased(th, Idle)
BY DEF Eased, Idle, Called

\* A step that neither settles nor pays, and leaves good rows in the tables,
\* in the queue and in the hands of the one thread that takes it.
LEMMA StepKeeps ==
    ASSUME IInv, NEW th \in Thread, NEW r \in CopyRow, Sound(verified, asked, r), Eased(th, r),
           Become(th, r) \/ UNCHANGED thread,
           UNCHANGED books, BatchInv', batches' \subseteq Batch,
           tasks' \in [Task -> TaskRow], \A t \in Task : GoodRow(verified, asked, t, tasks'[t]),
           miners' \in [Miner -> MinerRow],
           queue' \subseteq Task \X TaskRow, \A q \in queue' : GoodRow(verified, asked, q[1], q[2]),
           seen' \subseteq Miner \X MinerRow, RestType'
    PROVE  IInv'
<1>0. UNCHANGED <<verified, asked, earned>>
  BY DEF books
<1>1. thread' \in [Thread -> CopyRow] /\ \A x \in Thread : Sound(verified, asked, thread'[x])
  BY DEF IInv, TypeOK, Become
<1>2. TypeOK'
  BY <1>0, <1>1 DEF IInv, TypeOK, RestType
<1>3. \A t \in Task, m \in Miner : Owes(Rpc', t, m) => Owes(Rpc, t, m)
  <2>1. Rpc' = Rpc \/ (th # "watchdog" /\ Rpc' = r)
    BY DEF IInv, TypeOK, Become, Rpc, Thread
  <2> QED
    BY <2>1 DEF Eased, Owes
<1>4. Debts(verified, asked, earned, Rpc')
  BY <1>3 DEF IInv, Debts
<1> QED
  BY <1>0, <1>1, <1>2, <1>4 DEF IInv

\* What the invariant says of the tables and of the copies.
Known ==
    /\ tasks \in [Task -> TaskRow] /\ miners \in [Miner -> MinerRow]
    /\ thread \in [Thread -> CopyRow] /\ RestType /\ BatchInv /\ batches \subseteq Batch
    /\ \A th \in Thread : Sound(verified, asked, thread[th]) /\ thread[th] \in CopyRow
    /\ \A t \in Task : GoodRow(verified, asked, t, tasks[t]) /\ tasks[t] \in TaskRow
    /\ \A m \in Miner : miners[m] \in MinerRow
    /\ queue \subseteq Task \X TaskRow /\ seen \subseteq Miner \X MinerRow
    /\ \A q \in queue : GoodRow(verified, asked, q[1], q[2])
    /\ Idle \in CopyRow /\ Sound(verified, asked, Idle)
    /\ asked \in [Task -> Nat] /\ earned \in [Task -> [Miner -> Nat]]
    /\ "rpc" \in Thread /\ "watchdog" \in Thread

LEMMA Facts == ASSUME IInv PROVE Known
BY IdleSound DEF IInv, TypeOK, RestType, Known, Thread

\* The engine's own tables as they were.
LEMMA SameEngine ==
    ASSUME IInv, UNCHANGED engine
    PROVE  BatchInv' /\ batches' \subseteq Batch /\ UNCHANGED books
BY DEF IInv, TypeOK, BatchInv, engine, books

\* A thread passes from one copy to another and writes nothing.
LEMMA OnlyThread ==
    ASSUME IInv, NEW th \in Thread, NEW r \in CopyRow, Sound(verified, asked, r), Eased(th, r), Become(th, r),
           UNCHANGED <<tables, engine, queue, seen>>, RestType'
    PROVE  IInv'
BY StepKeeps, Facts, SameEngine DEF Known, tables, engine

\* A thread writes one task, and what it goes on with is sound.
LEMMA WriteTask ==
    ASSUME IInv, NEW th \in Thread, NEW r \in CopyRow, Sound(verified, asked, r), Eased(th, r), Become(th, r),
           NEW t \in Task, NEW row \in TaskRow, GoodRow(verified, asked, t, row),
           tasks' = [tasks EXCEPT ![t] = row],
           UNCHANGED <<miners, engine, queue, seen>>, RestType'
    PROVE  IInv'
<1>1. tasks' \in [Task -> TaskRow] /\ \A u \in Task : GoodRow(verified, asked, u, tasks'[u])
  BY Facts DEF Known
<1> QED
  BY <1>1, StepKeeps, Facts, SameEngine DEF Known, engine

\* A thread, or the world, writes miners.
LEMMA WriteMiners ==
    ASSUME IInv, NEW th \in Thread, NEW r \in CopyRow, Sound(verified, asked, r), Eased(th, r),
           Become(th, r) \/ UNCHANGED thread,
           miners' \in [Miner -> MinerRow], seen' \subseteq seen,
           UNCHANGED <<tasks, engine, queue>>, RestType'
    PROVE  IInv'
BY StepKeeps, Facts, SameEngine DEF Known, engine

-----------------------------------------------------------------------------
(* Placing a task. *)

\* A copy whose task is placed with somebody else.
LEMMA PlacedRow ==
    ASSUME NEW V, NEW A, NEW t, NEW row \in TaskRow, GoodRow(V, A, t, row),
           NEW s \in Status \ {"completed"}, NEW ms \in SUBSET Miner
    PROVE  /\ [row EXCEPT !.status = s, !.miners = ms] \in TaskRow
           /\ GoodRow(V, A, t, [row EXCEPT !.status = s, !.miners = ms])
BY DEF TaskRow, GoodRow

\* Where a thread goes when it is done, it has nothing in hand.
LEMMA RestingSound ==
    ASSUME NEW at \in {"idle", "timeouts", "silent", "decay"}, NEW V, NEW A
    PROVE  /\ [Idle EXCEPT !.at = at] \in CopyRow /\ Sound(V, A, [Idle EXCEPT !.at = at])
           /\ \A th : Eased(th, [Idle EXCEPT !.at = at])
<1>1. [Idle EXCEPT !.at = at] \in CopyRow
  BY IdleSound DEF CopyRow, Label
<1>2. Sound(V, A, [Idle EXCEPT !.at = at])
  BY ComputeSchedulerAssumption DEF Sound, Idle, Called
<1>3. \A th : Eased(th, [Idle EXCEPT !.at = at])
  BY DEF Eased, Idle, Called
<1> QED
  BY <1>1, <1>2, <1>3

LEMMA PlaceKeeps ==
    ASSUME IInv, NEW th \in Thread, PlaceSteps(th)
    PROVE  IInv'
<1> DEFINE r == thread[th]
<1>0. Known /\ r \in CopyRow /\ Sound(verified, asked, r)
  BY Facts DEF Known
<1>r. UNCHANGED <<fails, banned, bounds>> /\ made' \in Nat => RestType'
  BY <1>0 DEF Known, RestType, bounds, others
<1>1. CASE PickBlind(th)
  <2>1. PICK m \in Available(r.t) :
           /\ Become(th, [r EXCEPT !.at = "place", !.m = m, !.copy = miners[m],
                                   !.row.status = "assigned", !.row.miners = {m}])
           /\ IF m \in banned
              THEN UNCHANGED <<batches, made>>
              ELSE /\ batches' = batches \cup {[task |-> r.t, miner |-> m, id |-> made]}
                   /\ made' = made + 1
    BY <1>1 DEF PickBlind
  <2>2. r.at = "pick" /\ r.t \in Task
    BY <1>0, <1>1 DEF PickBlind, Sound
  <2>3. m \in Miner
    BY <2>1, <2>2, ComputeSchedulerAssumption DEF Available
  <2> DEFINE row == [r.row EXCEPT !.status = "assigned", !.miners = {m}]
             new == [r EXCEPT !.at = "place", !.m = m, !.copy = miners[m], !.row = row]
  <2>4. row \in TaskRow /\ GoodRow(verified, asked, r.t, row)
    BY <1>0, <2>2, <2>3, PlacedRow DEF CopyRow, Sound, Status
  <2>5. new \in CopyRow /\ Sound(verified, asked, new)
    <3> HIDE DEF row
    <3> QED
      BY <1>0, <2>2, <2>3, <2>4 DEF Known, CopyRow, Sound, Label, Called
  <2>e. Eased(th, new)
    <3> HIDE DEF row
    <3> QED
      BY <1>0, <2>2, <2>3, <2>4 DEF Eased, CopyRow, Called, Idle, Drop
  <2>6. Become(th, new)
    <3>1. new = [r EXCEPT !.at = "place", !.m = m, !.copy = miners[m],
                          !.row.status = "assigned", !.row.miners = {m}]
      BY <1>0 DEF CopyRow
    <3> QED
      BY <2>1, <3>1
  <2>7. UNCHANGED <<tables, fails, banned, books, queue, seen, bounds>>
    BY <1>1 DEF PickBlind
  <2>8. BatchInv' /\ batches' \subseteq Batch /\ made' \in Nat
    <3> DEFINE b == [task |-> r.t, miner |-> m, id |-> made]
    <3>1. made \in Nat /\ b \in Batch /\ b.id = made
      BY <1>0, <2>2, <2>3 DEF Known, RestType, Batch
    <3>2. b \notin verified
      BY <1>0, <3>1 DEF Known, BatchInv
    <3>3. \A x \in batches \cup verified : x.id \in Nat
      BY <1>0 DEF Known, IInv, TypeOK, Batch
    <3>4. /\ batches' \subseteq batches \cup {b}
          /\ made' = made \/ made' = made + 1
          /\ b \in batches' => b \in batches \/ made' = made + 1
      BY <2>1
    <3> HIDE DEF b
    <3>5. batches' \subseteq Batch /\ made' \in Nat /\ batches' \cap verified = {}
      BY <1>0, <3>1, <3>2, <3>4 DEF Known, BatchInv
    <3>6. \A x \in batches' \cup verified : x.id < made'
      BY <1>0, <3>1, <3>3, <3>4 DEF Known, BatchInv
    <3> QED
      BY <1>0, <2>7, <3>5, <3>6 DEF Known, BatchInv, books
  <2> HIDE DEF new
  <2> QED
    BY <1>0, <1>r, <2>5, <2>e, <2>6, <2>7, <2>8, StepKeeps DEF Known, tables
<1>2. CASE PickMany(th)
  <2>1. PICK ms \in kSubset(Nodes[r.t], Available(r.t)) :
           Become(th, [r EXCEPT !.at = "place", !.todo = ms,
                                !.row.status = "assigned", !.row.miners = ms])
    BY <1>2 DEF PickMany
  <2>2. r.at = "pick" /\ r.t \in Task /\ UNCHANGED <<tables, engine, queue, seen, bounds>>
    BY <1>0, <1>2 DEF PickMany, Sound
  <2>3. ms \subseteq Miner
    BY <2>1, <2>2, ComputeSchedulerAssumption DEF Available, kSubset
  <2> DEFINE row == [r.row EXCEPT !.status = "assigned", !.miners = ms]
             new == [r EXCEPT !.at = "place", !.todo = ms, !.row = row]
  <2>4. row \in TaskRow /\ GoodRow(verified, asked, r.t, row)
    BY <1>0, <2>2, <2>3, PlacedRow DEF CopyRow, Sound, Status
  <2>5. new \in CopyRow /\ Sound(verified, asked, new)
    <3> HIDE DEF row
    <3> QED
      BY <1>0, <2>2, <2>3, <2>4 DEF Known, CopyRow, Sound, Label, Called
  <2>e. Eased(th, new)
    <3> HIDE DEF row
    <3> QED
      BY <1>0, <2>2, <2>3, <2>4 DEF Eased, CopyRow, Called, Idle, Drop
  <2>6. Become(th, new)
    BY <1>0, <2>1 DEF CopyRow, TaskRow, Become
  <2> HIDE DEF new
  <2> QED
    BY <1>0, <1>r, <2>2, <2>5, <2>e, <2>6, OnlyThread DEF Known, RestType, engine
<1>3. CASE PickNone(th) \/ (r.at = "busy" /\ Done(th) /\ UNCHANGED <<tables, engine, queue, seen, bounds>>)
  <2>1. PICK at \in {"idle", "timeouts"} : Become(th, [Idle EXCEPT !.at = at])
    BY <1>3 DEF PickNone, Done
  <2>2. UNCHANGED <<tables, engine, queue, seen, bounds>>
    BY <1>3 DEF PickNone
  <2> QED
    BY <1>0, <1>r, <2>1, <2>2, RestingSound, OnlyThread DEF Known, RestType, engine
<1>4. CASE Place(th)
  <2> DEFINE new == [r EXCEPT !.at = IF Nodes[r.t] = 1 THEN "mark" ELSE "busy"]
  <2>1. /\ r.at = "place" /\ r.t \in Task /\ Become(th, new)
        /\ tasks' = [tasks EXCEPT ![r.t] = r.row]
        /\ UNCHANGED <<miners, engine, queue, seen, bounds>>
    BY <1>0, <1>4 DEF Place, Sound
  <2>a. new = [r EXCEPT !.at = "mark"] \/ new = [r EXCEPT !.at = "busy"]
    OBVIOUS
  <2>2. new \in CopyRow /\ Sound(verified, asked, new) /\ Eased(th, new)
    <3> HIDE DEF new
    <3> QED
      BY <1>0, <2>1, <2>a DEF Eased, CopyRow, Sound, Label, Called
  <2>3. r.row \in TaskRow /\ GoodRow(verified, asked, r.t, r.row)
    BY <1>0, <2>1 DEF CopyRow, Sound
  <2> HIDE DEF new
  <2> QED
    BY <1>0, <1>r, <2>1, <2>2, <2>3, WriteTask DEF Known, RestType, engine
<1>5. CASE Mark(th)
  <2> DEFINE row == [r.copy EXCEPT !.current = r.t, !.status = IF @ = "online" THEN "mining" ELSE @]
  <2>1. row \in MinerRow /\ miners' = [miners EXCEPT ![r.m] = row]
    BY <1>0, <1>5 DEF Mark, CopyRow, MinerRow
  <2> HIDE DEF row
  <2>2. miners' \in [Miner -> MinerRow]
    BY <1>0, <2>1 DEF Known
  <2>3. PICK at \in {"idle", "timeouts"} : Become(th, [Idle EXCEPT !.at = at])
    BY <1>5 DEF Mark, Done
  <2>4. UNCHANGED <<tasks, engine, queue, seen, bounds>>
    BY <1>5 DEF Mark
  <2> QED
    BY <1>0, <1>r, <2>2, <2>3, <2>4, RestingSound, WriteMiners DEF Known, RestType, engine
<1>6. CASE BusyRead(th) /\ ~Done(th)
  <2>1. PICK m \in r.todo :
            Become(th, [r EXCEPT !.at = "assign", !.m = m, !.copy = miners[m], !.todo = @ \ {m}])
    BY <1>6 DEF BusyRead
  <2> DEFINE new == [r EXCEPT !.at = "assign", !.m = m, !.copy = miners[m], !.todo = @ \ {m}]
  <2>2. r.at = "busy" /\ r.t \in Task /\ UNCHANGED <<tables, engine, queue, seen, bounds>>
    BY <1>0, <1>6 DEF BusyRead, Sound
  <2>3. m \in Miner
    BY <1>0 DEF CopyRow
  <2>4. new \in CopyRow /\ Sound(verified, asked, new)
    BY <1>0, <2>2, <2>3 DEF Known, CopyRow, Sound, Label, Called
  <2>e. Eased(th, new)
    BY <1>0, <2>2, <2>3 DEF Eased, CopyRow, Called, Idle, Drop
  <2>5. Become(th, new)
    BY <2>1
  <2> HIDE DEF new
  <2> QED
    BY <1>0, <1>r, <2>2, <2>4, <2>e, <2>5, OnlyThread DEF Known, RestType, engine
<1>7. CASE BusyWrite(th)
  <2> DEFINE row == [r.copy EXCEPT !.status = "busy", !.current = r.t]
             new == Drop(r, "busy")
  <2>1. row \in MinerRow /\ miners' = [miners EXCEPT ![r.m] = row]
    BY <1>0, <1>7 DEF BusyWrite, CopyRow, MinerRow
  <2>2. r.at = "assign" /\ r.t \in Task /\ Become(th, new) /\ UNCHANGED <<tasks, engine, queue, seen, bounds>>
    BY <1>0, <1>7 DEF BusyWrite, Sound
  <2>3. miners' \in [Miner -> MinerRow]
    <3> HIDE DEF row
    <3> QED
      BY <1>0, <2>1 DEF Known
  <2>4. new \in CopyRow /\ Sound(verified, asked, new)
    BY <1>0, <2>2, IdleSound DEF CopyRow, Sound, Label, Drop, Called
  <2>e. Eased(th, new)
    BY <1>0, <2>2 DEF Eased, CopyRow, Called, Idle, Drop
  <2> QED
    BY <1>0, <1>r, <2>2, <2>3, <2>4, <2>e, WriteMiners DEF Known, RestType, engine
<1> QED
  BY <1>1, <1>2, <1>3, <1>4, <1>5, <1>6, <1>7 DEF PlaceSteps, BusyRead

-----------------------------------------------------------------------------
(* The calls of the RPC thread. *)

\* The counters after a call, and after any step that is not one.
LEMMA RestAfter ==
    ASSUME Known, UNCHANGED others, Call \/ UNCHANGED calls,
           fails' \in [Miner -> Nat], banned' \subseteq Miner, made' \in Nat
    PROVE  RestType'
BY ComputeSchedulerAssumption DEF Known, RestType, others, Call

\* A call that reads a miner and goes to write it.
LEMMA TouchSound ==
    ASSUME NEW m \in Miner, NEW row \in MinerRow, NEW V, NEW A
    PROVE  LET new == [Idle EXCEPT !.at = "touch", !.m = m, !.copy = row]
           IN  new \in CopyRow /\ Sound(V, A, new) /\ \A th : Eased(th, new)
<1> DEFINE new == [Idle EXCEPT !.at = "touch", !.m = m, !.copy = row]
<1>1. new \in CopyRow
  BY IdleSound DEF CopyRow, Label
<1>2. Sound(V, A, new)
  BY ComputeSchedulerAssumption DEF Sound, Idle, Called
<1>3. \A th : Eased(th, new)
  BY DEF Eased, Idle, Called
<1> QED
  BY <1>1, <1>2, <1>3

LEMMA CallsKeep ==
    ASSUME IInv, CreateTask \/ RegisterMiner \/ RateMiner \/ HeartbeatAtWork \/ Heartbeat
                 \/ SubmitResult
    PROVE  IInv'
<1>0. Known
  BY Facts
<1>r. UNCHANGED engine /\ UNCHANGED others /\ (Call \/ UNCHANGED calls) => RestType'
  BY <1>0, RestAfter DEF Known, RestType, engine
<1>1. CASE CreateTask
  <2>1. PICK t \in Task : Become("rpc", [Idle EXCEPT !.at = "pick", !.op = "create", !.t = t,
                                                     !.row.due = "ahead"])
    BY <1>1 DEF CreateTask
  <2> DEFINE row == [NewTask EXCEPT !.due = "ahead"]
             new == [Idle EXCEPT !.at = "pick", !.op = "create", !.t = t, !.row = row]
  <2>2. row \in TaskRow /\ GoodRow(verified, asked, t, row)
    BY <1>0, CountNat, IdleSound DEF Known, BatchInv, GoodRow, NewTask, TaskRow
  <2>3. Become("rpc", new)
    BY <2>1 DEF Idle, Become
  <2>4. new \in CopyRow /\ Sound(verified, asked, new)
    <3> HIDE DEF row
    <3> QED
      BY <1>0, <2>2 DEF Known, CopyRow, Sound, Label, Op, Idle, Called
  <2>e. Eased("rpc", new)
    <3> HIDE DEF row
    <3> QED
      BY <1>0, <2>2 DEF Eased, CopyRow, Called, Idle, Drop
  <2>5. RestType' /\ UNCHANGED <<tables, engine, queue, seen>>
    BY <1>1, <1>r DEF CreateTask, bounds
  <2> HIDE DEF new
  <2> QED
    BY <1>0, <2>3, <2>4, <2>e, <2>5, OnlyThread DEF Known
<1>2. CASE RegisterMiner
  <2>1. miners' \in [Miner -> MinerRow]
    BY <1>0, <1>2, IdleSound DEF Known, RegisterMiner
  <2>2. RestType' /\ UNCHANGED <<tasks, engine, thread, queue, seen>>
    BY <1>2, <1>r DEF RegisterMiner
  <2> QED
    BY <1>0, <2>1, <2>2, NoIdleDebt, WriteMiners DEF Known
<1>3. CASE RateMiner
  <2>1. PICK m \in Miner :
            Become("rpc", [Idle EXCEPT !.at = "touch", !.m = m, !.copy = miners[m]])
    BY <1>3 DEF RateMiner
  <2>2. RestType' /\ UNCHANGED <<tables, engine, queue, seen>>
    BY <1>3, <1>r DEF RateMiner
  <2>3. miners[m] \in MinerRow
    BY <1>0 DEF Known
  <2> QED
    BY <1>0, <2>1, <2>2, <2>3, TouchSound, OnlyThread DEF Known
<1>4. CASE HeartbeatAtWork
  <2>1. PICK m \in Miner :
           LET t == miners[m].current IN
           /\ t # None
           /\ Become("rpc", [Idle EXCEPT !.at = "extend", !.t = t, !.m = m,
                        !.row = [tasks[t] EXCEPT !.due = "ahead"],
                        !.copy = [miners[m] EXCEPT !.fresh = TRUE, !.status = "mining"]])
    BY <1>4 DEF HeartbeatAtWork
  <2> DEFINE t == miners[m].current
             row == [tasks[t] EXCEPT !.due = "ahead"]
             copy == [miners[m] EXCEPT !.fresh = TRUE, !.status = "mining"]
             new == [Idle EXCEPT !.at = "extend", !.t = t, !.m = m, !.row = row, !.copy = copy]
  <2>2. t \in Task /\ miners[m] \in MinerRow
    BY <1>0, <2>1 DEF Known, MinerRow
  <2>3. tasks[t] \in TaskRow /\ GoodRow(verified, asked, t, tasks[t])
    BY <1>0, <2>2 DEF Known
  <2>4. row \in TaskRow /\ GoodRow(verified, asked, t, row)
    BY <2>3 DEF TaskRow, GoodRow
  <2>5. copy \in MinerRow
    BY <2>2 DEF MinerRow
  <2>6. new \in CopyRow /\ Sound(verified, asked, new)
    <3> HIDE DEF row, copy, t
    <3> QED
      BY <2>2, <2>4, <2>5 DEF CopyRow, Sound, Label, Op, Idle, Called
  <2>e. Eased("rpc", new)
    <3> HIDE DEF row, copy, t
    <3> QED
      BY <2>2, <2>4, <2>5 DEF Eased, CopyRow, Called, Idle, Drop
  <2>7. RestType' /\ UNCHANGED <<tables, engine, queue, seen>>
    BY <1>4, <1>r DEF HeartbeatAtWork
  <2>8. Become("rpc", new)
    BY <2>1
  <2> HIDE DEF new
  <2> QED
    BY <1>0, <2>6, <2>e, <2>7, <2>8, OnlyThread DEF Known
<1>5. CASE Heartbeat
  <2>1. PICK m \in Miner, u \in Task \cup {None}, s \in {"mining", "online"} :
            Become("rpc", [Idle EXCEPT !.at = "touch", !.m = m,
                              !.copy = [[miners[m] EXCEPT !.fresh = TRUE]
                                          EXCEPT !.current = u, !.status = s]])
    <3>1. PICK m \in Miner :
           LET t == miners[m].current
               atWork == t # None /\ tasks[t].status \in Active
               found == {u \in Task : tasks[u].status = "assigned" /\ m \in tasks[u].miners}
               beat == [miners[m] EXCEPT !.fresh = TRUE]
               go(u, s) == Become("rpc", [Idle EXCEPT !.at = "touch", !.m = m,
                                    !.copy = [beat EXCEPT !.current = u, !.status = s]]) IN
           \/ atWork /\ tasks[t].due = "ahead" /\ go(t, "mining")
           \/ ~atWork /\ \E u \in found : go(u, "mining")
           \/ ~atWork /\ found = {} /\ go(None, "online")
      BY <1>5 DEF Heartbeat
    <3>2. miners[m].current \in Task \cup {None}
      BY <1>0 DEF Known, MinerRow
    <3> QED
      BY <3>1, <3>2
  <2> DEFINE copy == [[miners[m] EXCEPT !.fresh = TRUE] EXCEPT !.current = u, !.status = s]
  <2>2. copy \in MinerRow
    BY <1>0 DEF Known, MinerRow
  <2>3. RestType' /\ UNCHANGED <<tables, engine, queue, seen>>
    BY <1>5, <1>r DEF Heartbeat, bounds, others
  <2> HIDE DEF copy
  <2> QED
    BY <1>0, <2>1, <2>2, <2>3, TouchSound, OnlyThread DEF Known, copy
<1>6. CASE SubmitResult
  <2>1. PICK t \in Task, a \in Answer : \E m \in tasks[t].miners :
            Become("rpc", [Idle EXCEPT !.at = "verify", !.t = t,
                              !.row = [tasks[t] EXCEPT !.status = "verifying", !.results[m] = a]])
    BY <1>6 DEF SubmitResult
  <2>m. PICK m \in tasks[t].miners :
            Become("rpc", [Idle EXCEPT !.at = "verify", !.t = t,
                              !.row = [tasks[t] EXCEPT !.status = "verifying", !.results[m] = a]])
    BY <2>1
  <2> DEFINE row == [tasks[t] EXCEPT !.status = "verifying", !.results[m] = a]
             new == [Idle EXCEPT !.at = "verify", !.t = t, !.row = row]
  <2>2. tasks[t] \in TaskRow /\ GoodRow(verified, asked, t, tasks[t])
    BY <1>0 DEF Known
  <2>3. row \in TaskRow /\ GoodRow(verified, asked, t, row)
    BY <2>2 DEF TaskRow, GoodRow, Status
  <2>4. new \in CopyRow /\ Sound(verified, asked, new)
    <3> HIDE DEF row
    <3> QED
      BY <1>0, <2>3 DEF Known, CopyRow, Sound, Label, Op, Idle, Called
  <2>e. Eased("rpc", new)
    <3> HIDE DEF row
    <3> QED
      BY <1>0, <2>3 DEF Eased, CopyRow, Called, Idle, Drop
  <2>5. RestType' /\ UNCHANGED <<tables, engine, queue, seen>>
    BY <1>6, <1>r DEF SubmitResult
  <2>6. Become("rpc", new)
    BY <2>m
  <2> HIDE DEF new
  <2> QED
    BY <1>0, <2>4, <2>e, <2>5, <2>6, OnlyThread DEF Known
<1> QED
  BY <1>1, <1>2, <1>3, <1>4, <1>5, <1>6

-----------------------------------------------------------------------------
(* The batches that come back. *)

\* The batches and the requests for a reward only become more.
Grown(V, A, W, B) ==
    \A t \in Task : /\ Of(V, t) # {} => Of(W, t) # {}
                    /\ Count(V, A, t) \in Nat /\ Count(W, B, t) \in Nat
                    /\ Count(V, A, t) <= Count(W, B, t)

\* A row that was good is good when there are more.
LEMMA StillGood ==
    ASSUME NEW V, NEW A, NEW W, NEW B, Grown(V, A, W, B),
           NEW t \in Task, NEW row \in TaskRow, GoodRow(V, A, t, row)
    PROVE  GoodRow(W, B, t, row)
<1> DEFINE c == Count(V, A, t)
           d == Count(W, B, t)
<1>1. /\ c \in Nat /\ d \in Nat /\ c <= d
      /\ \A m \in Miner : row.payments[m] <= c /\ row.payments[m] \in Nat
  BY DEF Grown, GoodRow, TaskRow
<1>2. \A m \in Miner : row.payments[m] <= d
  <2> HIDE DEF c, d
  <2> QED
    BY <1>1
<1> QED
  BY <1>2 DEF Grown, GoodRow

\* What a thread holds is sound when there are more.
LEMMA StillSound ==
    ASSUME NEW V, NEW A, NEW W, NEW B, Grown(V, A, W, B), NEW r \in CopyRow, Sound(V, A, r)
    PROVE  Sound(W, B, r)
<1>1. r.row \in TaskRow
  BY DEF CopyRow
<1>2. r.t \in Task => GoodRow(W, B, r.t, r.row)
  BY <1>1, StillGood DEF Sound
<1>3. ASSUME Called(r) PROVE \A m \in Miner : r.row.payments[m] <= Count(W, B, r.t) - 1
  <2> DEFINE c == Count(V, A, r.t)
             d == Count(W, B, r.t)
  <2>1. /\ c \in Nat /\ d \in Nat /\ c <= d
        /\ \A m \in Miner : r.row.payments[m] <= c - 1 /\ r.row.payments[m] \in Nat
    BY <1>1, <1>3 DEF Grown, Sound, Called, TaskRow
  <2>2. \A m \in Miner : r.row.payments[m] <= d - 1
    <3> HIDE DEF c, d
    <3> QED
      BY <2>1
  <2> QED
    BY <2>2
<1> QED
  BY <1>2, <1>3 DEF Sound

\* A call that makes a settlement more of the task t, which it goes on to
\* pay, and leaves the tables as they are.
LEMMA MoreKeeps ==
    ASSUME IInv, Rpc.at = "idle", NEW r \in CopyRow, Sound(verified', asked', r),
           Become("rpc", r), Grown(verified, asked, verified', asked'),
           Count(verified', asked', r.t) = Count(verified, asked, r.t) + 1,
           verified' \subseteq Batch, asked' \in [Task -> Nat],
           BatchInv', batches' \subseteq Batch, RestType', UNCHANGED <<tables, earned, queue, seen>>
    PROVE  IInv'
<1>0. Known
  BY Facts
<1>1. thread' = [thread EXCEPT !["rpc"] = r] /\ thread' \in [Thread -> CopyRow] /\ Rpc' = r
  BY <1>0 DEF Known, Become, Rpc
<1>2. TypeOK'
  BY <1>0, <1>1 DEF TypeOK, Known, RestType, tables
<1>3. \A t \in Task : GoodRow(verified', asked', t, tasks'[t])
  BY <1>0, StillGood DEF Known, tables
<1>4. \A q \in queue' : GoodRow(verified', asked', q[1], q[2])
  <2> SUFFICES ASSUME NEW q \in queue PROVE GoodRow(verified', asked', q[1], q[2])
    OBVIOUS
  <2>1. q[1] \in Task /\ q[2] \in TaskRow /\ GoodRow(verified, asked, q[1], q[2])
    BY <1>0 DEF Known
  <2> QED
    BY <2>1, StillGood
<1>5. \A th \in Thread : Sound(verified', asked', thread'[th])
  <2> SUFFICES ASSUME NEW th \in Thread PROVE Sound(verified', asked', thread'[th])
    OBVIOUS
  <2>1. CASE th = "rpc"
    BY <1>0, <1>1, <2>1 DEF Known
  <2>2. CASE th # "rpc"
    <3>1. thread'[th] = thread[th] /\ thread[th] \in CopyRow /\ Sound(verified, asked, thread[th])
      BY <1>0, <1>1, <2>2 DEF Known
    <3> QED
      BY <3>1, StillSound
  <2> QED
    BY <2>1, <2>2
<1>6. Debts(verified', asked', earned, r)
  <2> SUFFICES ASSUME NEW t \in Task, NEW m \in Miner
               PROVE  /\ 2 * earned[t][m] <= Triangle(Count(verified', asked', t))
                      /\ Owes(r, t, m) => 2 * earned[t][m] <= Triangle(Count(verified', asked', t) - 1)
    BY DEF Debts
  <2> DEFINE c == Count(verified, asked, t)
             d == Count(verified', asked', t)
  <2>1. c \in Nat /\ d \in Nat /\ c <= d /\ 2 * earned[t][m] <= Triangle(c)
    BY DEF Grown, IInv, Debts
  <2>2. d = c \/ d = c + 1 \/ ~(t = r.t)
    OBVIOUS
  <2>3. Owes(r, t, m) => d = c + 1
    BY DEF Owes
  <2>4. earned[t][m] \in Nat
    BY <1>0 DEF Known
  <2>5. 2 * earned[t][m] <= Triangle(d)
    <3>1. \A n \in Nat : Triangle(n) \in Int
      BY DEF Triangle
    <3> HIDE DEF c, d
    <3>2. Triangle(c) <= Triangle(d)
      <4>1. c * (c + 1) <= d * (d + 1)
        BY <2>1
      <4> QED
        BY <4>1 DEF Triangle
    <3> QED
      BY <2>1, <2>4, <3>1, <3>2
  <2>6. Owes(r, t, m) => 2 * earned[t][m] <= Triangle(d - 1)
    <3> HIDE DEF c, d
    <3>1. d = c + 1 => d - 1 = c
      BY <2>1
    <3> QED
      BY <2>1, <2>3, <3>1
  <2> QED
    BY <2>5, <2>6
<1> QED
  BY <1>1, <1>2, <1>3, <1>4, <1>5, <1>6, Zenon DEF IInv

LEMMA FailsType ==
    ASSUME Known, NEW m \in Miner
    PROVE  /\ [fails EXCEPT ![m] = 0] \in [Miner -> Nat]
           /\ FailedAgain(m) => fails' \in [Miner -> Nat] /\ banned' \subseteq Miner
BY DEF Known, RestType, FailedAgain

\* Taking a batch out and leaving it in or out of those that passed.
LEMMA TakenInv ==
    ASSUME Known, NEW b \in batches, BatchTaken(b), made' = made,
           verified' = verified \/ verified' = verified \cup {b}
    PROVE  BatchInv' /\ batches' \subseteq Batch
<1>1. IsFiniteSet(verified \cup {b})
  BY FS_AddElement DEF Known, BatchInv
<1> QED
  BY <1>1 DEF Known, BatchInv, BatchTaken

LEMMA PassedKeeps == ASSUME IInv, SubmitPassed PROVE IInv'
<1>0. Known /\ IsFiniteSet(verified)
  BY Facts DEF Known, BatchInv
<1>1. PICK b \in batches, m \in Miner, a \in Answer :
           /\ BatchTaken(b) /\ verified' = verified \cup {b}
           /\ fails' = [fails EXCEPT ![b.miner] = 0]
           /\ Become("rpc", [Idle EXCEPT !.at = "credit", !.op = "passed", !.t = b.task, !.m = m,
                                !.row = [tasks[b.task] EXCEPT !.status = "completed", !.final = a,
                                                              !.results[m] = a]])
  BY DEF SubmitPassed
<1>2. UNCHANGED <<tables, banned, made, earned, asked, queue, seen, others>> /\ Call
  BY DEF SubmitPassed
<1>3. b.task \in Task /\ b.miner \in Miner /\ b \notin verified /\ b \in Batch
  BY <1>0 DEF Known, Batch, BatchInv
<1>4. BatchInv' /\ batches' \subseteq Batch
  BY <1>0, <1>1, <1>2, TakenInv
<1>5. RestType'
  BY <1>0, <1>1, <1>2, <1>3, FailsType, RestAfter DEF Known, RestType
<1>6. /\ Count(verified', asked', b.task) = Count(verified, asked, b.task) + 1
      /\ Grown(verified, asked, verified', asked')
      /\ Of(verified', b.task) # {}
  <2>1. /\ Of(verified', b.task) # {}
        /\ Cardinality(Of(verified', b.task)) = Cardinality(Of(verified, b.task)) + 1
        /\ \A t : t # b.task => Of(verified', t) = Of(verified, t)
    BY <1>0, <1>1, <1>3, OfMore
  <2>2. \A t \in Task : Cardinality(Of(verified, t)) \in Nat /\ asked[t] \in Nat
    BY <1>0, OfFinite DEF Known
  <2>3. Count(verified', asked', b.task) = Count(verified, asked, b.task) + 1
    BY <1>2, <1>3, <2>1, <2>2 DEF Count
  <2>4. ASSUME NEW t \in Task
        PROVE  /\ Of(verified, t) # {} => Of(verified', t) # {}
               /\ Count(verified, asked, t) \in Nat /\ Count(verified', asked', t) \in Nat
               /\ Count(verified, asked, t) <= Count(verified', asked', t)
    <3>1. CASE t = b.task
      BY <2>1, <2>2, <3>1, <1>2 DEF Count
    <3>2. CASE t # b.task
      BY <2>1, <2>2, <3>2, <1>2 DEF Count
    <3> QED
      BY <3>1, <3>2
  <2> QED
    BY <2>1, <2>3, <2>4 DEF Grown
<1> DEFINE row == [tasks[b.task] EXCEPT !.status = "completed", !.final = a, !.results[m] = a]
           new == [Idle EXCEPT !.at = "credit", !.op = "passed", !.t = b.task, !.m = m, !.row = row]
<1>7. tasks[b.task] \in TaskRow /\ GoodRow(verified, asked, b.task, tasks[b.task])
  BY <1>0, <1>3 DEF Known
<1>8. row \in TaskRow /\ row.payments = tasks[b.task].payments
  BY <1>7 DEF TaskRow, Status
<1>9. \A x \in Miner : row.payments[x] <= Count(verified', asked', b.task) - 1
  <2> DEFINE c == Count(verified, asked, b.task)
             d == Count(verified', asked', b.task)
  <2>1. c \in Nat /\ d = c + 1 /\ \A x \in Miner : row.payments[x] <= c
    BY <1>3, <1>6, <1>7, <1>8 DEF Grown, GoodRow
  <2>2. d - 1 = c
    <3> HIDE DEF c, d
    <3> QED
      BY <2>1
  <2> QED
    BY <2>1, <2>2
<1>10. GoodRow(verified', asked', b.task, row)
  <2>1. GoodRow(verified', asked', b.task, tasks[b.task])
    BY <1>3, <1>6, <1>7, StillGood
  <2> HIDE DEF row
  <2> QED
    BY <1>6, <1>8, <2>1 DEF GoodRow
<1>11. new \in CopyRow /\ Sound(verified', asked', new) /\ new.t = b.task
  <2> HIDE DEF row
  <2>1. new \in CopyRow /\ new.t = b.task /\ new.row = row
    BY <1>0, <1>3, <1>8 DEF Known, CopyRow, Label, Op, Idle
  <2> QED
    BY <1>3, <1>9, <1>10, <2>1 DEF Sound, Called, Idle
<1>12. Become("rpc", new) /\ Rpc.at = "idle"
  BY <1>1, <1>2 DEF Call
<1>13. verified' \subseteq Batch /\ asked' \in [Task -> Nat]
  BY <1>0, <1>1, <1>2, <1>3 DEF IInv, TypeOK
<1> HIDE DEF new
<1> QED
  BY <1>2, <1>4, <1>5, <1>6, <1>11, <1>12, <1>13, MoreKeeps

\* What the settlement puts into the row, and whom it goes on to pay.
LEMMA SettlingSound ==
    ASSUME NEW V, NEW A, NEW r \in CopyRow, r.t \in Task, r.op \in {"passed", "reward"},
           Count(V, A, r.t) \in Nat, r.row.status = "completed" => Of(V, r.t) # {},
           \A m \in Miner : r.row.payments[m] <= Count(V, A, r.t) - 1
    PROVE  Settling(r) \in CopyRow /\ Sound(V, A, Settling(r)) /\ Settling(r).t = r.t
<1> DEFINE c == Count(V, A, r.t)
           row == Shared(r.row)
           todo == {m \in Miner : row.payments[m] > 0}
           new == [r EXCEPT !.at = "settle", !.row = row, !.m = None, !.copy = NewMiner, !.todo = todo]
<1>1. r.row \in TaskRow /\ \A m \in Miner : r.row.payments[m] \in Nat
  BY DEF CopyRow, TaskRow
<1>2. /\ row \in TaskRow /\ row.status = r.row.status
      /\ \A m \in Miner : row.payments[m] = r.row.payments[m] \/ row.payments[m] = r.row.payments[m] + 1
  <2> DEFINE sum == [m \in Miner |-> r.row.payments[m] + IF r.row.results[m] \in Answer
                                                            /\ r.row.results[m] = r.row.final
                                                          THEN 1 ELSE 0]
  <2>1. /\ sum \in [Miner -> Nat]
        /\ \A m \in Miner : sum[m] = r.row.payments[m] \/ sum[m] = r.row.payments[m] + 1
    BY <1>1
  <2>2. row = [r.row EXCEPT !.payments = sum]
    BY <1>1 DEF Shared, TaskRow
  <2> HIDE DEF sum, row
  <2> QED
    BY <1>1, <2>1, <2>2 DEF TaskRow
<1> HIDE DEF row
<1>3. \A m \in Miner : row.payments[m] <= c
  <2> HIDE DEF c
  <2>1. c \in Nat /\ \A m \in Miner : r.row.payments[m] <= c - 1
    BY DEF c
  <2> QED
    BY <1>1, <1>2, <2>1
<1>4. todo \subseteq Miner
  OBVIOUS
<1> HIDE DEF todo
<1>5. /\ new \in CopyRow /\ new.t = r.t /\ new.op = r.op /\ new.at = "settle" /\ new.row = row
  BY <1>2, <1>4, IdleSound DEF CopyRow, Label
<1> HIDE DEF new
<1>6. Sound(V, A, new)
  BY <1>2, <1>3, <1>5 DEF Sound, Called, GoodRow
<1> QED
  BY <1>5, <1>6 DEF Settling, new, todo, row

LEMMA RewardKeeps == ASSUME IInv, DistributeReward PROVE IInv'
<1>0. Known /\ IsFiniteSet(verified)
  BY Facts DEF Known, BatchInv
<1>1. PICK t \in Task :
           /\ tasks[t].status = "completed"
           /\ asked' = [asked EXCEPT ![t] = @ + 1]
           /\ Become("rpc", Settling([Idle EXCEPT !.op = "reward", !.t = t, !.row = tasks[t]]))
  BY DEF DistributeReward
<1>2. /\ UNCHANGED <<tables, batches, fails, banned, made, verified, earned, queue, seen, others>>
      /\ Call
  BY DEF DistributeReward
<1>3. tasks[t] \in TaskRow /\ GoodRow(verified, asked, t, tasks[t])
  BY <1>0 DEF Known
<1>4. asked' \in [Task -> Nat] /\ verified' \subseteq Batch
  BY <1>0, <1>1, <1>2 DEF Known, IInv, TypeOK
<1>5. Count(verified', asked', t) = Count(verified, asked, t) + 1
      /\ Grown(verified, asked, verified', asked')
  <2>1. \A u \in Task : Cardinality(Of(verified, u)) \in Nat /\ asked[u] \in Nat
    BY <1>0, OfFinite DEF Known
  <2>2. asked'[t] = asked[t] + 1 /\ \A u \in Task : asked'[u] = asked[u] \/ asked'[u] = asked[u] + 1
    BY <1>0, <1>1 DEF Known
  <2> QED
    BY <1>2, <2>1, <2>2 DEF Count, Grown
<1>6. BatchInv' /\ batches' \subseteq Batch /\ RestType'
  BY <1>0, <1>2, RestAfter DEF Known, BatchInv, RestType
<1> DEFINE r == [Idle EXCEPT !.op = "reward", !.t = t, !.row = tasks[t]]
<1>7. r \in CopyRow /\ r.t = t /\ r.op = "reward" /\ r.row = tasks[t]
  BY <1>0, <1>3 DEF Known, CopyRow, Op, Idle
<1>8. \A m \in Miner : tasks[t].payments[m] <= Count(verified', asked', t) - 1
  <2> DEFINE c == Count(verified, asked, t)
             d == Count(verified', asked', t)
  <2>1. c \in Nat /\ d = c + 1 /\ \A m \in Miner : tasks[t].payments[m] <= c
    BY <1>3, <1>5 DEF Grown, GoodRow
  <2>2. d - 1 = c
    <3> HIDE DEF c, d
    <3> QED
      BY <2>1
  <2> QED
    BY <2>1, <2>2
<1>9. tasks[t].status = "completed" => Of(verified', t) # {}
  BY <1>2, <1>3 DEF GoodRow
<1>10. Count(verified', asked', t) \in Nat
  BY <1>5 DEF Grown
<1> HIDE DEF r
<1>11. /\ Settling(r) \in CopyRow /\ Sound(verified', asked', Settling(r)) /\ Settling(r).t = t
  BY <1>7, <1>8, <1>9, <1>10, SettlingSound
<1>12. Become("rpc", Settling(r)) /\ Rpc.at = "idle"
  BY <1>1, <1>2 DEF Call, r
<1> QED
  BY <1>2, <1>4, <1>5, <1>6, <1>11, <1>12, MoreKeeps

LEMMA BatchesKeep ==
    ASSUME IInv, SubmitEmpty \/ SubmitFailed \/ SubmitUnknown
    PROVE  IInv'
<1>0. Known
  BY Facts
<1>1. CASE SubmitEmpty
  <2>1. PICK b \in batches : BatchTaken(b) /\ fails' = [fails EXCEPT ![b.miner] = 0]
    BY <1>1 DEF SubmitEmpty
  <2>2. UNCHANGED <<tables, banned, made, books, thread, queue, seen, others>> /\ Call
    BY <1>1 DEF SubmitEmpty
  <2>3. b.miner \in Miner
    BY <1>0 DEF Known, Batch
  <2>4. BatchInv' /\ batches' \subseteq Batch
    BY <1>0, <2>1, <2>2, TakenInv DEF books
  <2>5. RestType'
    BY <1>0, <2>1, <2>2, <2>3, FailsType, RestAfter DEF Known, RestType
  <2> QED
    BY <1>0, <2>2, <2>4, <2>5, NoIdleDebt, StepKeeps DEF Known, tables
<1>2. CASE SubmitFailed
  <2>1. PICK b \in batches, m \in Miner :
           /\ BatchTaken(b)
           /\ FailedAgain(b.miner)
           /\ Become("rpc", [Idle EXCEPT !.at = "save", !.op = "trapped", !.t = b.task, !.m = m,
                                !.row = [tasks[b.task] EXCEPT !.status = "pending", !.miners = {},
                                                              !.results = NoResults]])
    BY <1>2 DEF SubmitFailed
  <2>2. UNCHANGED <<tables, made, books, queue, seen, others>> /\ Call
    BY <1>2 DEF SubmitFailed
  <2>3. b.task \in Task /\ b.miner \in Miner
    BY <1>0 DEF Known, Batch
  <2>4. BatchInv' /\ batches' \subseteq Batch
    BY <1>0, <2>1, <2>2, TakenInv DEF books
  <2>5. RestType'
    BY <1>0, <2>1, <2>2, <2>3, FailsType, RestAfter DEF Known, RestType
  <2> DEFINE row == [tasks[b.task] EXCEPT !.status = "pending", !.miners = {}, !.results = NoResults]
             new == [Idle EXCEPT !.at = "save", !.op = "trapped", !.t = b.task, !.m = m,
                                 !.row = row]
  <2>6. row \in TaskRow /\ GoodRow(verified, asked, b.task, row)
    <3>1. tasks[b.task] \in TaskRow /\ GoodRow(verified, asked, b.task, tasks[b.task])
      BY <1>0, <2>3 DEF Known
    <3> QED
      BY <3>1, IdleSound DEF TaskRow, GoodRow, Status
  <2>7. new \in CopyRow /\ Sound(verified, asked, new)
    <3> HIDE DEF row
    <3> QED
      BY <1>0, <2>3, <2>6 DEF Known, CopyRow, Sound, Label, Op, Idle, Called
  <2>8. Become("rpc", new) /\ Eased("rpc", new)
    BY <2>1 DEF Eased, Called, Idle
  <2> HIDE DEF new
  <2> QED
    BY <1>0, <2>2, <2>4, <2>5, <2>7, <2>8, StepKeeps DEF Known, tables
<1>3. CASE SubmitUnknown
  <2>1. PICK m \in Miner :
            Become("rpc", [Idle EXCEPT !.at = "credit", !.op = "trapped", !.m = m])
    BY <1>3 DEF SubmitUnknown
  <2>2. UNCHANGED <<tables, engine, queue, seen, others>> /\ Call
    BY <1>3 DEF SubmitUnknown
  <2> DEFINE new == [Idle EXCEPT !.at = "credit", !.op = "trapped", !.m = m]
  <2>3. new \in CopyRow /\ Sound(verified, asked, new)
    BY <1>0, ComputeSchedulerAssumption DEF Known, CopyRow, Sound, Label, Op, Idle, Called
  <2>e. Eased("rpc", new)
    BY <1>0 DEF Eased, CopyRow, Called, Idle, Drop
  <2>4. RestType'
    BY <1>0, <2>2, RestAfter DEF Known, RestType, engine
  <2> HIDE DEF new
  <2> QED
    BY <1>0, <2>1, <2>2, <2>3, <2>e, <2>4, OnlyThread DEF Known, new
<1> QED
  BY <1>1, <1>2, <1>3

-----------------------------------------------------------------------------
(* The steps of the RPC thread after a call. *)

\* A step that is not a call leaves the counters as they are.
LEMMA RestSame == ASSUME Known, UNCHANGED <<engine, bounds>> PROVE RestType'
BY DEF Known, RestType, engine, bounds, others

LEMMA StepsKeep ==
    ASSUME IInv, Extend \/ Touch \/ Verify \/ Credit \/ Free \/ EarnRead \/ Settled \/ Save
    PROVE  IInv'
<1>0. Known /\ Rpc \in CopyRow /\ Sound(verified, asked, Rpc)
  BY Facts DEF Known, Rpc
<1>a. /\ Rpc.row \in TaskRow /\ Rpc.copy \in MinerRow
      /\ Rpc.t \in Task => GoodRow(verified, asked, Rpc.t, Rpc.row)
  BY <1>0 DEF CopyRow, Sound
<1>1. CASE Extend
  <2> DEFINE new == [Rpc EXCEPT !.at = "touch"]
  <2>1. /\ Rpc.at = "extend" /\ tasks' = [tasks EXCEPT ![Rpc.t] = Rpc.row] /\ Become("rpc", new)
        /\ UNCHANGED <<miners, engine, queue, seen, bounds>>
    BY <1>1 DEF Extend
  <2>2. Rpc.t \in Task /\ new \in CopyRow /\ Sound(verified, asked, new) /\ Eased("rpc", new)
    BY <1>0, <2>1 DEF Eased, CopyRow, Sound, Label, Called
  <2> HIDE DEF new
  <2> QED
    BY <1>0, <1>a, <2>1, <2>2, RestSame, WriteTask DEF Known
<1>2. CASE Touch \/ (Free /\ Rpc.op # "passed")
  <2>1. /\ miners' = [miners EXCEPT ![Rpc.m] = Rpc.copy] /\ Become("rpc", Idle)
        /\ UNCHANGED <<tasks, engine, queue, seen, bounds>>
    BY <1>2 DEF Touch, Free
  <2>2. miners' \in [Miner -> MinerRow]
    BY <1>0, <1>a, <2>1 DEF Known
  <2> QED
    BY <1>0, <2>1, <2>2, NoIdleDebt, RestSame, WriteMiners DEF Known
<1>3. CASE Verify
  <2> DEFINE row == [Rpc.row EXCEPT !.status = "running"]
             new == [Rpc EXCEPT !.at = "save", !.row = row]
  <2>1. /\ Rpc.at = "verify" /\ tasks' = [tasks EXCEPT ![Rpc.t] = Rpc.row]
        /\ UNCHANGED <<miners, engine, queue, seen, bounds>>
    BY <1>3 DEF Verify
  <2>2. Become("rpc", new)
    BY <1>0, <1>3 DEF Verify, Become
  <2>3. Rpc.t \in Task
    BY <1>0, <2>1 DEF Sound
  <2>4. row \in TaskRow /\ GoodRow(verified, asked, Rpc.t, row)
    BY <1>a, <2>3 DEF TaskRow, GoodRow, Status
  <2>5. new \in CopyRow /\ Sound(verified, asked, new)
    <3> HIDE DEF row
    <3> QED
      BY <1>0, <2>1, <2>3, <2>4 DEF CopyRow, Sound, Label, Called
  <2>e. Eased("rpc", new)
    <3> HIDE DEF row
    <3> QED
      BY <1>0, <2>1, <2>3, <2>4 DEF Eased, CopyRow, Called, Idle, Drop
  <2> HIDE DEF new
  <2> QED
    BY <1>0, <1>a, <2>1, <2>2, <2>3, <2>5, <2>e, RestSame, WriteTask DEF Known
<1>4. CASE Credit
  <2> DEFINE copy == [miners[Rpc.m] EXCEPT !.current = None, !.status = "online"]
             new == [Rpc EXCEPT !.at = "free", !.copy = copy]
  <2>1. Rpc.at = "credit" /\ Become("rpc", new) /\ UNCHANGED <<tables, engine, queue, seen, bounds>>
    BY <1>4 DEF Credit
  <2>2. Rpc.m \in Miner
    BY <1>0, <2>1 DEF Sound
  <2>3. copy \in MinerRow
    BY <1>0, <2>2 DEF Known, MinerRow
  <2>4. new \in CopyRow /\ Sound(verified, asked, new)
    <3> HIDE DEF copy
    <3> QED
      BY <1>0, <2>1, <2>3 DEF CopyRow, Sound, Label, Called
  <2>5. Eased("rpc", new)
    <3> HIDE DEF copy
    <3> QED
      BY <1>0, <2>1 DEF Eased, Owes, Called, CopyRow
  <2> HIDE DEF new
  <2> QED
    BY <1>0, <2>1, <2>4, <2>5, RestSame, OnlyThread DEF Known
<1>5. CASE Free /\ Rpc.op = "passed"
  <2>1. /\ Rpc.at = "free" /\ miners' = [miners EXCEPT ![Rpc.m] = Rpc.copy]
        /\ Become("rpc", Settling(Rpc)) /\ UNCHANGED <<tasks, engine, queue, seen, bounds>>
    BY <1>5 DEF Free
  <2>2. miners' \in [Miner -> MinerRow]
    BY <1>0, <1>a, <2>1 DEF Known
  <2>3. Rpc.t \in Task /\ Called(Rpc) /\ \A m \in Miner : Rpc.row.payments[m] <= Count(verified, asked, Rpc.t) - 1
    BY <1>0, <1>5, <2>1 DEF Sound, Called
  <2>4. Count(verified, asked, Rpc.t) \in Nat
    BY <1>0, <2>3, CountNat DEF Known, BatchInv
  <2>5. Settling(Rpc) \in CopyRow /\ Sound(verified, asked, Settling(Rpc)) /\ Settling(Rpc).t = Rpc.t
    BY <1>0, <1>a, <1>5, <2>3, <2>4, SettlingSound DEF GoodRow
  <2>6. Eased("rpc", Settling(Rpc))
    BY <2>3, <2>5 DEF Eased, Owes
  <2> QED
    BY <1>0, <2>1, <2>2, <2>5, <2>6, RestSame, WriteMiners DEF Known
<1>6. CASE EarnRead
  <2>1. PICK m \in Rpc.todo : Become("rpc", [Rpc EXCEPT !.at = "earn", !.todo = @ \ {m},
                                                       !.m = m, !.copy = miners[m]])
    BY <1>6 DEF EarnRead
  <2> DEFINE new == [Rpc EXCEPT !.at = "earn", !.todo = @ \ {m}, !.m = m, !.copy = miners[m]]
  <2>2. Rpc.at = "settle" /\ UNCHANGED <<tables, engine, queue, seen, bounds>>
    BY <1>6 DEF EarnRead
  <2>3. m \in Miner /\ Rpc.todo \subseteq Miner
    BY <1>0 DEF CopyRow
  <2>4. miners[m] \in MinerRow
    BY <1>0, <2>3 DEF Known
  <2>5. /\ new \in CopyRow /\ new.at = "earn" /\ new.t = Rpc.t /\ new.op = Rpc.op /\ new.m = m
        /\ new.todo = Rpc.todo \ {m} /\ new.row = Rpc.row
    BY <1>0, <2>3, <2>4 DEF CopyRow, Label
  <2>6. Become("rpc", new)
    BY <2>1
  <2> HIDE DEF new
  <2>7. Sound(verified, asked, new)
    BY <1>0, <2>2, <2>3, <2>5 DEF Sound, Called
  <2>8. Eased("rpc", new)
    BY <2>2, <2>5 DEF Eased, Owes, Called
  <2> QED
    BY <1>0, <2>2, <2>5, <2>6, <2>7, <2>8, RestSame, OnlyThread DEF Known
<1>8. CASE Settled
  <2>1. /\ Rpc.at = "settle" /\ tasks' = [tasks EXCEPT ![Rpc.t] = Rpc.row]
        /\ Become("rpc", IF Rpc.op = "passed" THEN [Rpc EXCEPT !.at = "save"] ELSE Idle)
        /\ UNCHANGED <<miners, engine, queue, seen, bounds>>
    BY <1>8 DEF Settled
  <2>2. Rpc.t \in Task
    BY <1>0, <2>1 DEF Sound
  <2>3. CASE Rpc.op = "passed"
    <3> DEFINE new == [Rpc EXCEPT !.at = "save"]
    <3>1. Become("rpc", new)
      BY <2>1, <2>3
    <3>2. new \in CopyRow /\ Sound(verified, asked, new) /\ Eased("rpc", new)
      BY <1>0, <2>1, <2>3 DEF Eased, CopyRow, Sound, Label, Called
    <3> HIDE DEF new
    <3> QED
      BY <1>0, <1>a, <2>1, <2>2, <3>1, <3>2, RestSame, WriteTask DEF Known
  <2>4. CASE Rpc.op # "passed"
    <3>1. Become("rpc", Idle)
      BY <2>1, <2>4
    <3> QED
      BY <1>0, <1>a, <2>1, <2>2, <3>1, NoIdleDebt, RestSame, WriteTask DEF Known
  <2> QED
    BY <2>3, <2>4
<1>7. CASE Save
  <2>1. /\ Rpc.at = "save" /\ tasks' = [tasks EXCEPT ![Rpc.t] = Rpc.row]
        /\ Become("rpc", IF Rpc.op = "trapped" THEN [Rpc EXCEPT !.at = "credit"] ELSE Idle)
        /\ UNCHANGED <<miners, engine, queue, seen, bounds>>
    BY <1>7 DEF Save
  <2>2. Rpc.t \in Task
    BY <1>0, <2>1 DEF Sound
  <2>3. CASE Rpc.op = "trapped"
    <3> DEFINE new == [Rpc EXCEPT !.at = "credit"]
    <3>1. Become("rpc", new)
      BY <2>1, <2>3
    <3>2. new \in CopyRow /\ Sound(verified, asked, new) /\ Eased("rpc", new)
      BY <1>0, <2>1, <2>3 DEF Eased, CopyRow, Sound, Label, Called
    <3> HIDE DEF new
    <3> QED
      BY <1>0, <1>a, <2>1, <2>2, <3>1, <3>2, RestSame, WriteTask DEF Known
  <2>4. CASE Rpc.op # "trapped"
    <3>1. Become("rpc", Idle)
      BY <2>1, <2>4
    <3> QED
      BY <1>0, <1>a, <2>1, <2>2, <3>1, NoIdleDebt, RestSame, WriteTask DEF Known
  <2> QED
    BY <2>3, <2>4
<1> QED
  BY <1>1, <1>2, <1>3, <1>4, <1>5, <1>6, <1>7, <1>8

\* A miner's earnings grow by what the row has for it, and it is paid.
LEMMA EarnKeeps == ASSUME IInv, EarnWrite PROVE IInv'
<1>0. Known /\ Rpc \in CopyRow /\ Sound(verified, asked, Rpc)
  BY Facts DEF Known, Rpc
<1> DEFINE m == Rpc.m
           t == Rpc.t
           new == Drop(Rpc, "settle")
           p == Rpc.row.payments[m]
<1>1. /\ Rpc.at = "earn" /\ miners' = [miners EXCEPT ![m] = Rpc.copy]
      /\ earned' = [earned EXCEPT ![t][m] = @ + p] /\ Become("rpc", new)
      /\ UNCHANGED <<tasks, batches, fails, banned, made, verified, asked, queue, seen, bounds>>
  BY DEF EarnWrite
<1>2. m \in Miner /\ t \in Task /\ m \notin Rpc.todo
  BY <1>0, <1>1 DEF Sound
<1>3. /\ new \in CopyRow /\ new.at = "settle" /\ new.t = t /\ new.todo = Rpc.todo
      /\ new.op = Rpc.op /\ new.row = Rpc.row
  BY <1>0, IdleSound DEF CopyRow, Label, Drop
<1> HIDE DEF new
<1>4. Sound(verified, asked, new)
  BY <1>0, <1>1, <1>3 DEF Sound, Called
<1>5. p \in Nat /\ p <= Count(verified, asked, t) /\ Count(verified, asked, t) \in Nat
  BY <1>0, <1>2, CountNat DEF Sound, GoodRow, CopyRow, TaskRow, Known, BatchInv
<1>6. /\ earned' \in [Task -> [Miner -> Nat]] /\ earned'[t][m] = earned[t][m] + p
      /\ \A u \in Task, x \in Miner : <<u, x>> # <<t, m>> => earned'[u][x] = earned[u][x]
  <2> HIDE DEF p, m, t
  <2> QED
    BY <1>0, <1>1, <1>2, <1>5 DEF Known
<1>7. thread' \in [Thread -> CopyRow] /\ Rpc' = new
      /\ \A th \in Thread : Sound(verified, asked, thread'[th])
  BY <1>0, <1>1, <1>3, <1>4 DEF Known, Become, Rpc
<1>8. Debts(verified, asked, earned', new)
  <2> SUFFICES ASSUME NEW u \in Task, NEW x \in Miner
               PROVE  /\ 2 * earned'[u][x] <= Triangle(Count(verified, asked, u))
                      /\ Owes(new, u, x) => 2 * earned'[u][x] <= Triangle(Count(verified, asked, u) - 1)
    BY DEF Debts
  <2>1. CASE u = t /\ x = m
    <3>1. Owes(Rpc, t, m) /\ ~Owes(new, t, m)
      BY <1>1, <1>2, <1>3 DEF Owes, Called
    <3>2. 2 * earned[t][m] <= Triangle(Count(verified, asked, t) - 1) /\ earned[t][m] \in Nat
      BY <1>0, <1>2, <3>1 DEF IInv, Debts, Known
    <3>3. 2 * (earned[t][m] + p) <= Triangle(Count(verified, asked, t))
      BY <1>5, <3>2, TriangleNext
    <3> QED
      BY <1>6, <2>1, <3>1, <3>3
  <2>2. CASE ~(u = t /\ x = m)
    <3>1. earned'[u][x] = earned[u][x]
      BY <1>6, <2>2
    <3>2. Owes(new, u, x) => Owes(Rpc, u, x)
      BY <1>1, <1>3 DEF Owes, Called
    <3> QED
      BY <3>1, <3>2 DEF IInv, Debts
  <2> QED
    BY <2>1, <2>2
<1>9. miners' \in [Miner -> MinerRow] /\ BatchInv' /\ RestType'
  BY <1>0, <1>1, <1>2 DEF Known, BatchInv, RestType, CopyRow, bounds, others
<1>10. TypeOK'
  BY <1>0, <1>1, <1>6, <1>7, <1>9 DEF IInv, TypeOK, Known, RestType
<1> QED
  BY <1>1, <1>7, <1>8, <1>9, <1>10 DEF IInv

-----------------------------------------------------------------------------
(* The watchdog. *)

\* A step of the watchdog that only takes up or lays down what it reads.
LEMMA DogReads ==
    ASSUME IInv, NEW r \in CopyRow, Sound(verified, asked, r),
           Become("watchdog", r) \/ UNCHANGED thread,
           queue' \subseteq {<<t, tasks[t]>> : t \in Task} \/ queue' \subseteq queue,
           seen' \subseteq {<<m, miners[m]>> : m \in Miner} \/ seen' \subseteq seen,
           UNCHANGED <<tables, engine>>, RestType'
    PROVE  IInv'
<1>0. Known
  BY Facts
<1>1. queue' \subseteq Task \X TaskRow /\ \A q \in queue' : GoodRow(verified, asked, q[1], q[2])
  BY <1>0 DEF Known
<1>2. seen' \subseteq Miner \X MinerRow
  BY <1>0 DEF Known
<1> QED
  BY <1>0, <1>1, <1>2, StepKeeps, SameEngine DEF Known, Eased, tables, engine

\* A step of the watchdog that writes one of the miners it has seen.
LEMMA DogWrites ==
    ASSUME IInv, NEW s \in seen, NEW row \in MinerRow, seen' = seen \ {s},
           miners' = [miners EXCEPT ![s[1]] = row],
           UNCHANGED <<tasks, engine, thread, queue, bounds>>
    PROVE  IInv'
<1>0. Known
  BY Facts
<1>1. miners' \in [Miner -> MinerRow]
  BY <1>0 DEF Known
<1> QED
  BY <1>0, <1>1, NoIdleDebt, RestSame, WriteMiners DEF Known

LEMMA ScansKeep ==
    ASSUME IInv, ScanTasks \/ NextTask \/ ScanMiners \/ NextMiner \/ ScanDecay \/ NextDecay
                 \/ PassDone
    PROVE  IInv'
<1>0. Known
  BY Facts
<1>1. CASE ScanTasks
  <2> DEFINE new == [Idle EXCEPT !.at = "timeouts"]
  <2>1. /\ queue' \subseteq {<<t, tasks[t]>> : t \in Task} /\ Become("watchdog", new)
        /\ UNCHANGED <<tables, engine, seen, bounds>>
    BY <1>1 DEF ScanTasks
  <2> QED
    BY <1>0, <2>1, RestingSound, RestSame, DogReads
<1>2. CASE NextTask
  <2>1. PICK q \in queue :
           /\ queue' = queue \ {q}
           /\ Become("watchdog", [Idle EXCEPT !.at = "release", !.t = q[1], !.row = q[2],
                                              !.todo = q[2].miners])
    BY <1>2 DEF NextTask
  <2> DEFINE new == [Idle EXCEPT !.at = "release", !.t = q[1], !.row = q[2], !.todo = q[2].miners]
  <2>2. q[1] \in Task /\ q[2] \in TaskRow /\ GoodRow(verified, asked, q[1], q[2])
    BY <1>0 DEF Known
  <2>3. q[2].miners \subseteq Miner
    BY <2>2 DEF TaskRow
  <2>4. new \in CopyRow /\ Sound(verified, asked, new)
    BY <1>0, <2>2, <2>3 DEF Known, CopyRow, Sound, Label, Idle, Called
  <2>e. Eased("watchdog", new)
    BY <1>0, <2>2, <2>3 DEF Eased, CopyRow, Called, Idle, Drop
  <2>5. UNCHANGED <<tables, engine, seen, bounds>>
    BY <1>2 DEF NextTask
  <2> HIDE DEF new
  <2> QED
    BY <1>0, <2>1, <2>4, <2>e, <2>5, RestSame, DogReads DEF new
<1>3. CASE ScanMiners
  <2> DEFINE new == [Idle EXCEPT !.at = "silent"]
  <2>1. /\ seen' \subseteq {<<m, miners[m]>> : m \in Miner} /\ Become("watchdog", new)
        /\ UNCHANGED <<tables, engine, queue, bounds>>
    BY <1>3 DEF ScanMiners
  <2> QED
    BY <1>0, <2>1, RestingSound, RestSame, DogReads
<1>4. CASE NextMiner
  <2>1. PICK s \in seen :
           /\ seen' = seen \ {s}
           /\ miners' = [miners EXCEPT ![s[1]] = [s[2] EXCEPT !.status = "offline",
                                                             !.current = None]]
    BY <1>4 DEF NextMiner
  <2> DEFINE row == [s[2] EXCEPT !.status = "offline", !.current = None]
  <2>2. row \in MinerRow
    <3>1. s[2] \in MinerRow
      BY <1>0 DEF Known
    <3> QED
      BY <3>1 DEF MinerRow
  <2>3. UNCHANGED <<tasks, engine, thread, queue, bounds>>
    BY <1>4 DEF NextMiner
  <2> QED
    BY <2>1, <2>2, <2>3, DogWrites
<1>5. CASE ScanDecay
  <2> DEFINE new == [Idle EXCEPT !.at = "decay"]
  <2>1. /\ seen' \subseteq {<<m, miners[m]>> : m \in Miner} /\ Become("watchdog", new)
        /\ UNCHANGED <<tables, engine, queue, calls, silences, failures>>
        /\ decays < Decays /\ decays' = decays + 1
    BY <1>5 DEF ScanDecay
  <2>2. RestType'
    BY <1>0, <2>1, ComputeSchedulerAssumption DEF Known, RestType, engine
  <2> QED
    BY <1>0, <2>1, <2>2, RestingSound, DogReads
<1>6. CASE NextDecay
  <2>1. PICK s \in seen : seen' = seen \ {s} /\ miners' = [miners EXCEPT ![s[1]] = s[2]]
    BY <1>6 DEF NextDecay
  <2>2. s[2] \in MinerRow
    BY <1>0 DEF Known
  <2>3. UNCHANGED <<tasks, engine, thread, queue, bounds>>
    BY <1>6 DEF NextDecay
  <2> QED
    BY <2>1, <2>2, <2>3, DogWrites
<1>7. CASE PassDone
  <2>1. Become("watchdog", Idle) /\ UNCHANGED <<tables, engine, queue, seen, bounds>>
    BY <1>7 DEF PassDone
  <2> QED
    BY <1>0, <2>1, NoIdleDebt, RestSame, OnlyThread DEF Known
<1> QED
  BY <1>1, <1>2, <1>3, <1>4, <1>5, <1>6, <1>7

LEMMA TakenBackKeeps ==
    ASSUME IInv, ReleaseRead \/ ReleaseWrite \/ Requeue \/ GiveUp
    PROVE  IInv'
<1>0. Known /\ Dog \in CopyRow /\ Sound(verified, asked, Dog)
  BY Facts DEF Known, Dog
<1>a. Dog.at \in {"release", "let"} /\ Dog.t \in Task
  BY <1>0 DEF ReleaseRead, ReleaseWrite, Requeue, GiveUp, Sound
<1>b. Dog.row \in TaskRow /\ GoodRow(verified, asked, Dog.t, Dog.row) /\ Dog.copy \in MinerRow
  BY <1>0, <1>a DEF CopyRow, Sound
<1>1. CASE ReleaseRead
  <2>1. PICK m \in Dog.todo :
           Become("watchdog", IF miners[m].current # Dog.t
                              THEN [Dog EXCEPT !.todo = @ \ {m}]
                              ELSE [Dog EXCEPT !.at = "let", !.todo = @ \ {m},
                                               !.m = m, !.copy = miners[m]])
    BY <1>1 DEF ReleaseRead
  <2>2. UNCHANGED <<tables, engine, queue, seen, bounds>>
    BY <1>1 DEF ReleaseRead
  <2>3. m \in Miner /\ Dog.todo \ {m} \subseteq Miner
    BY <1>0 DEF CopyRow
  <2>4. miners[m] \in MinerRow
    BY <1>0, <2>3 DEF Known
  <2> DEFINE skip == [Dog EXCEPT !.todo = @ \ {m}]
             let == [Dog EXCEPT !.at = "let", !.todo = @ \ {m}, !.m = m, !.copy = miners[m]]
  <2>5. skip \in CopyRow /\ Sound(verified, asked, skip)
    BY <1>0, <1>a, <2>3 DEF CopyRow, Sound, Called
  <2>6. let \in CopyRow /\ Sound(verified, asked, let)
    BY <1>0, <1>a, <2>3, <2>4 DEF CopyRow, Sound, Label, Called
  <2>7. Become("watchdog", skip) \/ Become("watchdog", let)
    BY <2>1
  <2> HIDE DEF skip, let
  <2> QED
    BY <1>0, <2>2, <2>5, <2>6, <2>7, RestSame, OnlyThread DEF Known, Eased
<1>2. CASE ReleaseWrite
  <2> DEFINE s == IF Dog.copy.fresh THEN "online" ELSE "offline"
             row == [Dog.copy EXCEPT !.current = None, !.status = s]
             new == Drop(Dog, "release")
  <2>1. /\ miners' = [miners EXCEPT ![Dog.m] = row] /\ Become("watchdog", new)
        /\ UNCHANGED <<tasks, engine, queue, seen, bounds>>
    BY <1>2 DEF ReleaseWrite
  <2>2. s \in {"online", "offline"}
    OBVIOUS
  <2>3. row \in MinerRow
    <3> HIDE DEF s
    <3> QED
      BY <1>b, <2>2 DEF MinerRow
  <2>4. new \in CopyRow /\ Sound(verified, asked, new)
    BY <1>0, <1>a, IdleSound DEF CopyRow, Sound, Label, Drop, Called
  <2>e. Eased("watchdog", new)
    BY <1>0, <1>a DEF Eased, CopyRow, Called, Idle, Drop
  <2> HIDE DEF row, new
  <2>5. miners' \in [Miner -> MinerRow]
    BY <1>0, <2>1, <2>3 DEF Known
  <2> QED
    BY <1>0, <2>1, <2>4, <2>e, <2>5, RestSame, WriteMiners DEF Known
<1>3. CASE Requeue
  <2> DEFINE row == [Dog.row EXCEPT !.status = "pending", !.miners = {}, !.tries = @ + 1,
                                    !.due = "none", !.results = NoResults]
             new == [Dog EXCEPT !.at = "pick", !.row = row]
  <2>1. /\ Dog.at = "release" /\ tasks' = [tasks EXCEPT ![Dog.t] = row] /\ Become("watchdog", new)
        /\ UNCHANGED <<miners, engine, queue, seen, bounds>>
    BY <1>3 DEF Requeue
  <2>2. Dog.row.tries \in Nat /\ Dog.row.tries + 1 \in Nat
    BY <1>b DEF TaskRow
  <2>3. row \in TaskRow /\ GoodRow(verified, asked, Dog.t, row)
    BY <1>b, <2>2, IdleSound DEF TaskRow, GoodRow, Status
  <2>4. new \in CopyRow /\ Sound(verified, asked, new)
    <3> HIDE DEF row
    <3> QED
      BY <1>0, <1>a, <2>1, <2>3 DEF CopyRow, Sound, Label, Called
  <2>e. Eased("watchdog", new)
    <3> HIDE DEF row
    <3> QED
      BY <1>0, <1>a, <2>1, <2>3 DEF Eased, CopyRow, Called, Idle, Drop
  <2> HIDE DEF row, new
  <2> QED
    BY <1>0, <1>a, <2>1, <2>3, <2>4, <2>e, RestSame, WriteTask DEF Known
<1>4. CASE GiveUp
  <2> DEFINE row == [Dog.row EXCEPT !.status = "failed", !.tries = @ + 1]
             new == [Idle EXCEPT !.at = "timeouts"]
  <2>1. /\ tasks' = [tasks EXCEPT ![Dog.t] = row] /\ Become("watchdog", new)
        /\ UNCHANGED <<miners, engine, queue, seen, bounds>>
    BY <1>4 DEF GiveUp, Done
  <2>2. Dog.row.tries \in Nat /\ Dog.row.tries + 1 \in Nat
    BY <1>b DEF TaskRow
  <2>3. row \in TaskRow /\ GoodRow(verified, asked, Dog.t, row)
    BY <1>b, <2>2 DEF TaskRow, GoodRow, Status
  <2>4. new \in CopyRow /\ Sound(verified, asked, new) /\ Eased("watchdog", new)
    BY RestingSound
  <2> HIDE DEF row, new
  <2> QED
    BY <1>0, <1>a, <2>1, <2>3, <2>4, RestSame, WriteTask DEF Known
<1> QED
  BY <1>1, <1>2, <1>3, <1>4

-----------------------------------------------------------------------------
(* Time, crashes and exceptions. *)

LEMMA WorldKeeps ==
    ASSUME IInv, Overdue \/ FallSilent \/ Crash \/ RpcRaises \/ WatchdogRaises
    PROVE  IInv'
<1>0. Known
  BY Facts
<1>1. CASE Overdue
  <2>1. PICK t \in Task : tasks' = [tasks EXCEPT ![t].due = "past"]
    BY <1>1 DEF Overdue
  <2>2. UNCHANGED <<miners, engine, thread, queue, seen, bounds>>
    BY <1>1 DEF Overdue
  <2> DEFINE row == [tasks[t] EXCEPT !.due = "past"]
  <2>3. tasks[t] \in TaskRow /\ GoodRow(verified, asked, t, tasks[t])
    BY <1>0 DEF Known
  <2>4. row \in TaskRow /\ GoodRow(verified, asked, t, row)
    BY <2>3 DEF TaskRow, GoodRow
  <2>5. tasks' = [tasks EXCEPT ![t] = row]
    BY <2>1
  <2> HIDE DEF row
  <2>6. tasks' \in [Task -> TaskRow] /\ \A u \in Task : GoodRow(verified, asked, u, tasks'[u])
    BY <1>0, <2>4, <2>5 DEF Known
  <2>7. RestType' /\ BatchInv' /\ batches' \subseteq Batch
    BY <1>0, <2>2, RestSame, SameEngine
  <2> QED
    BY <1>0, <2>2, <2>6, <2>7, NoIdleDebt, StepKeeps DEF Known, engine
<1>2. CASE FallSilent
  <2>1. PICK m \in Miner : miners' = [miners EXCEPT ![m].fresh = FALSE]
    BY <1>2 DEF FallSilent
  <2>2. /\ UNCHANGED <<tasks, engine, thread, queue, seen, calls, decays, failures>>
        /\ silences < Silences /\ silences' = silences + 1
    BY <1>2 DEF FallSilent
  <2>3. RestType'
    BY <1>0, <2>2, ComputeSchedulerAssumption DEF Known, RestType, engine
  <2>4. miners' \in [Miner -> MinerRow]
    BY <1>0, <2>1 DEF Known, MinerRow
  <2> QED
    BY <1>0, <2>2, <2>3, <2>4, NoIdleDebt, WriteMiners DEF Known
<1>3. CASE Crash
  <2>1. /\ batches' = {} /\ banned' = {} /\ fails' = Nothing
        /\ thread' = [th \in Thread |-> Idle] /\ queue' = {} /\ seen' = {}
        /\ UNCHANGED <<tables, books, made, calls, silences, decays>>
        /\ failures < Failures /\ failures' = failures + 1
    BY <1>3 DEF Crash
  <2>2. TypeOK'
    BY <1>0, <2>1, IdleSound, ComputeSchedulerAssumption
       DEF IInv, TypeOK, Known, RestType, tables, books
  <2>3. BatchInv'
    BY <1>0, <2>1 DEF Known, BatchInv, books
  <2>4. \A th \in Thread : Sound(verified', asked', thread'[th])
    BY <1>0, <2>1, IdleSound DEF Known
  <2>5. Rpc' = Idle
    BY <2>1 DEF Rpc, Thread
  <2>6. Debts(verified, asked, earned, Idle)
    BY IdleSound DEF IInv, Debts
  <2> QED
    BY <1>0, <2>1, <2>2, <2>3, <2>4, <2>5, <2>6 DEF IInv, Known, tables, books
<1>4. CASE RpcRaises \/ WatchdogRaises
  <2>1. PICK th \in Thread : Become(th, Idle)
    BY <1>0, <1>4 DEF Known, RpcRaises, WatchdogRaises
  <2>2. /\ queue' \subseteq queue /\ seen' \subseteq seen
        /\ UNCHANGED <<tables, engine, calls, silences, decays>>
        /\ failures < Failures /\ failures' = failures + 1
    BY <1>4 DEF RpcRaises, WatchdogRaises
  <2>3. RestType'
    BY <1>0, <2>2, ComputeSchedulerAssumption DEF Known, RestType, engine
  <2>4. /\ queue' \subseteq Task \X TaskRow /\ seen' \subseteq Miner \X MinerRow
        /\ \A q \in queue' : GoodRow(verified, asked, q[1], q[2])
    BY <1>0, <2>2 DEF Known
  <2> QED
    BY <1>0, <2>1, <2>2, <2>3, <2>4, NoIdleDebt, SameEngine, StepKeeps DEF Known, tables
<1> QED
  BY <1>1, <1>2, <1>3, <1>4

-----------------------------------------------------------------------------
(* The theorems. *)

LEMMA StutterKeeps == IInv /\ UNCHANGED vars => IInv'
BY DEF IInv, TypeOK, BatchInv, vars, tables, engine, books, bounds, others, Rpc

\* Every step keeps the invariant.
THEOREM Invariance == Spec => []IInv
<1>1. ASSUME IInv, [Next]_vars PROVE IInv'
  <2>1. "rpc" \in Thread /\ "watchdog" \in Thread
    BY <1>1, Facts DEF Known
  <2>2. CASE RpcCalls
    BY <1>1, <2>2, CallsKeep, PassedKeeps, RewardKeeps, BatchesKeep DEF RpcCalls
  <2>3. CASE RpcSteps
    BY <1>1, <2>1, <2>3, PlaceKeeps, StepsKeep, EarnKeeps DEF RpcSteps
  <2>4. CASE WatchdogSteps
    BY <1>1, <2>1, <2>4, PlaceKeeps, ScansKeep, TakenBackKeeps DEF WatchdogSteps
  <2>5. CASE Overdue \/ FallSilent \/ Crash \/ RpcRaises \/ WatchdogRaises
    BY <1>1, <2>5, WorldKeeps
  <2> QED
    BY <1>1, <2>2, <2>3, <2>4, <2>5, StutterKeeps DEF Next
<1> QED
  BY InitIInv, <1>1, PTL DEF Spec

\* The tables, the batches and the copies that the threads hold keep their
\* shapes (the rows of core/compute_scheduler.py).
THEOREM TypeCorrect == Spec => []TypeOK
<1>1. IInv => TypeOK
  BY DEF IInv
<1> QED
  BY <1>1, Invariance, PTL

\* No task is completed without a batch of it whose traps were passed,
\* whatever the two threads overwrite (submit_blind_batch, _verify_blind).
THEOREM CompletedPassed == Spec => []CompletedPassedTraps
<1>1. IInv => CompletedPassedTraps
  BY DEF IInv, CompletedPassedTraps, GoodRow, Of, Passed
<1> QED
  BY <1>1, Invariance, PTL

\* However often the watchdog retries a task, and whatever rows are lost, the
\* n settlements of a task, one for each batch that passed and one for each
\* call of distribute_reward, add at most 1 + 2 + ... + n shares to what a
\* miner has earned (_settle_task).
THEOREM EarnedNoMore == Spec => []EarnedBySettlements
<1>1. IInv => EarnedBySettlements
  BY DEF IInv, Debts, EarnedBySettlements, Settlements, Triangle, Count, Of, Passed
<1> QED
  BY <1>1, Invariance, PTL
=============================================================================
