-------------------------- MODULE ComputeScheduler --------------------------
(***************************************************************************)
(* The compute scheduler (core/compute_scheduler.py) in the blind mode the *)
(* node starts it in, with its blind task engine                           *)
(* (core/blind_task_engine.py): the tables tasks and miners, the batches   *)
(* in memory, the RPC thread and the watchdog thread.                      *)
(*                                                                         *)
(* Every method reads whole rows, changes the copies and writes whole rows *)
(* back, each in a database transaction of its own.  The lock is held by   *)
(* the placing of a task and by nothing else.                              *)
(*                                                                         *)
(* Scores, trust, sectors, memory and the challenges are left out: they    *)
(* decide which eligible miner is taken, and any may be.  A deadline is    *)
(* "none" (timeout_at is 0), ahead or past, a heartbeat fresh or not; the  *)
(* thirty days that end every extension are never over.  A payment is      *)
(* counted in shares: one is the part of the price that one settlement     *)
(* gives to one miner, and never more than the price.                      *)
(***************************************************************************)
EXTENDS Integers, FiniteSets, FiniteSetsExt

CONSTANTS
    Task, Miner, None,  \* None is no task and no miner
    Nodes,        \* redundancy of each task: 1 is blind, more is the older way
    Backed,       \* the miners whose stake covers a task
    MaxTries,     \* MAX_TASK_RETRIES
    MaxFails,     \* MAX_CONSECUTIVE_FAILS
    Answer,       \* the results (hashes) that a miner may give
    Calls,        \* bound on the calls that may change a task
    Silences,     \* bound on miners that fall silent
    Decays,       \* bound on the decay of the scores, due every tenth pass
    Failures      \* bound on crashes and on exceptions of the database

ASSUME ComputeSchedulerAssumption ==
    /\ None \notin Task \cup Miner \cup Answer /\ Nodes \in [Task -> Nat \ {0}]
    /\ Backed \in [Task -> SUBSET Miner]
    /\ MaxTries \in Nat /\ MaxFails \in Nat \ {0} /\ Calls \in Nat
    /\ Silences \in Nat /\ Decays \in Nat /\ Failures \in Nat

Thread == {"rpc", "watchdog"}

VARIABLES
    tasks,      \* the tasks table
    miners,     \* the miners table
    batches,    \* pending_batches
    fails,      \* consecutive_fails of each miner
    banned,     \* the miners with is_banned
    thread,     \* what each thread is doing, with its copies
    queue,      \* the task rows that the watchdog has read, and not treated
    seen,       \* the miner rows that the watchdog has read, and not treated
    verified,   \* the batches whose traps were passed with a result
    earned,     \* history: the shares of each task added to each miner's earnings
    asked,      \* history: how often distribute_reward settled each task
    made, calls, silences, decays, failures

tables == <<tasks, miners>>
books == <<verified, earned, asked>>
engine == <<batches, fails, banned, made, books>>
others == <<silences, decays, failures>>
bounds == <<calls, others>>
vars == <<tables, engine, thread, queue, seen, bounds>>

Status == {"none", "pending", "assigned", "running", "verifying", "completed", "failed"}
Active == {"assigned", "running"}
TaskRow == [status : Status, miners : SUBSET Miner, tries : Nat,
            due : {"none", "ahead", "past"}, results : [Miner -> Answer \cup {None}],
            final : Answer \cup {None}, payments : [Miner -> Nat]]
MinerRow == [status : {"offline", "online", "busy", "mining"},
             current : Task \cup {None}, fresh : BOOLEAN]
Batch == [task : Task, miner : Miner, id : Nat]

NoResults == [m \in Miner |-> None]
Nothing == [m \in Miner |-> 0]

NewTask == [status |-> "none", miners |-> {}, tries |-> 0, due |-> "none",
            results |-> NoResults, final |-> None, payments |-> Nothing]
NewMiner == [status |-> "offline", current |-> None, fresh |-> TRUE]

\* at: the label; op: the method; t, row: a task and its copy; todo: miners
\* still to do; m, copy: a miner and its copy.
Idle == [at |-> "idle", op |-> "none", t |-> None, row |-> NewTask,
         todo |-> {}, m |-> None, copy |-> NewMiner]

\* A node with its miners registered and online.
Init ==
    /\ tasks = [t \in Task |-> NewTask]
    /\ miners = [m \in Miner |-> [NewMiner EXCEPT !.status = "online"]]
    /\ batches = {} /\ verified = {} /\ made = 0
    /\ earned = [t \in Task |-> Nothing] /\ asked = [t \in Task |-> 0]
    /\ fails = Nothing /\ banned = {}
    /\ thread = [th \in Thread |-> Idle]
    /\ queue = {} /\ seen = {}
    /\ calls = 0 /\ silences = 0 /\ decays = 0 /\ failures = 0

Become(th, r) == thread' = [thread EXCEPT ![th] = r]

\* The copy of a miner has been written.
Drop(r, at) == [r EXCEPT !.at = at, !.m = None, !.copy = NewMiner]

-----------------------------------------------------------------------------
(* Placing a task, by create_task or by the watchdog, under the lock. *)

Locked == \E th \in Thread : thread[th].at \in {"place", "assign", "busy", "mark"}

\* _get_available_miners: in mining too, which a blind task's miner is.
Available(t) == {m \in Backed[t] : miners[m].fresh /\ miners[m].status \in {"online", "mining"}}

\* _create_task_blind picks a miner and makes its batch; a banned miner gets
\* the task without a batch.
PickBlind(th) ==
    LET r == thread[th] IN
    /\ r.at = "pick" /\ ~Locked /\ Nodes[r.t] = 1
    /\ \E m \in Available(r.t) :
           /\ IF m \in banned
              THEN UNCHANGED <<batches, made>>
              ELSE /\ batches' = batches \cup {[task |-> r.t, miner |-> m, id |-> made]}
                   /\ made' = made + 1
           /\ Become(th, [r EXCEPT !.at = "place", !.m = m, !.copy = miners[m],
                                   !.row.status = "assigned", !.row.miners = {m}])
    /\ UNCHANGED <<tables, fails, banned, books, queue, seen, bounds>>

\* _schedule_miners and _create_task_legacy: as many miners as Nodes says.
PickMany(th) ==
    LET r == thread[th] IN
    /\ r.at = "pick" /\ ~Locked /\ Nodes[r.t] > 1
    /\ \E ms \in kSubset(Nodes[r.t], Available(r.t)) :
           Become(th, [r EXCEPT !.at = "place", !.todo = ms,
                                !.row.status = "assigned", !.row.miners = ms])
    /\ UNCHANGED <<tables, engine, queue, seen, bounds>>

\* Too few miners: the call ends.  A new task is not even saved, a task that
\* the watchdog has taken back stays pending.
PickNone(th) ==
    LET r == thread[th] IN
    /\ r.at = "pick" /\ ~Locked /\ Cardinality(Available(r.t)) < Nodes[r.t]
    /\ Become(th, [Idle EXCEPT !.at = IF th = "rpc" THEN "idle" ELSE "timeouts"])
    /\ UNCHANGED <<tables, engine, queue, seen, bounds>>

\* Saves the task; the deadline of a task that is placed again stays none.
Place(th) ==
    LET r == thread[th] IN
    /\ r.at = "place"
    /\ tasks' = [tasks EXCEPT ![r.t] = r.row]
    /\ Become(th, [r EXCEPT !.at = IF Nodes[r.t] = 1 THEN "mark" ELSE "busy"])
    /\ UNCHANGED <<miners, engine, queue, seen, bounds>>

\* A thread that is done: the watchdog goes on with its queue.
Done(th) == Become(th, [Idle EXCEPT !.at = IF th = "rpc" THEN "idle" ELSE "timeouts"])

\* The row of the blind miner, as it was when the miner was picked.
Mark(th) ==
    LET r == thread[th] IN
    /\ r.at = "mark"
    /\ miners' = [miners EXCEPT ![r.m] =
                     [r.copy EXCEPT !.current = r.t,
                                    !.status = IF @ = "online" THEN "mining" ELSE @]]
    /\ Done(th)
    /\ UNCHANGED <<tasks, engine, queue, seen, bounds>>

\* The older way reads and writes the rows of its miners one by one.
BusyRead(th) ==
    LET r == thread[th] IN
    /\ r.at = "busy"
    /\ IF r.todo = {}
       THEN Done(th)
       ELSE \E m \in r.todo :
                Become(th, [r EXCEPT !.at = "assign", !.m = m, !.copy = miners[m],
                                     !.todo = @ \ {m}])
    /\ UNCHANGED <<tables, engine, queue, seen, bounds>>

BusyWrite(th) ==
    LET r == thread[th] IN
    /\ r.at = "assign"
    /\ miners' = [miners EXCEPT ![r.m] = [r.copy EXCEPT !.status = "busy", !.current = r.t]]
    /\ Become(th, Drop(r, "busy"))
    /\ UNCHANGED <<tasks, engine, queue, seen, bounds>>

PlaceSteps(th) == \/ PickBlind(th) \/ PickMany(th) \/ PickNone(th) \/ Place(th)
                  \/ Mark(th) \/ BusyRead(th) \/ BusyWrite(th)

-----------------------------------------------------------------------------
(* The calls of the RPC thread. *)

Rpc == thread["rpc"]
Call == Rpc.at = "idle" /\ calls < Calls /\ calls' = calls + 1

\* create_task, with the deadline the buyer or TASK_TIMEOUT gives.
CreateTask ==
    /\ Call
    /\ \E t \in Task : /\ tasks[t].status = "none"
                       /\ Become("rpc", [Idle EXCEPT !.at = "pick", !.op = "create", !.t = t,
                                                     !.row.due = "ahead"])
    /\ UNCHANGED <<tables, engine, queue, seen, others>>

\* register_miner replaces the row.
RegisterMiner ==
    /\ Call
    /\ \E m \in Miner : miners' = [miners EXCEPT ![m] = NewMiner]
    /\ UNCHANGED <<tasks, engine, thread, queue, seen, others>>

\* rate_miner writes the row back as it read it, but for the rating.
RateMiner ==
    /\ Call
    /\ \E m \in Miner : Become("rpc", [Idle EXCEPT !.at = "touch", !.m = m, !.copy = miners[m]])
    /\ UNCHANGED <<tables, engine, queue, seen, others>>

\* miner_heartbeat of a miner whose task is active: the deadline is moved if
\* it is near, whoever the task is assigned to.
HeartbeatAtWork ==
    /\ Call
    /\ \E m \in Miner :
           LET t == miners[m].current IN
           /\ t # None /\ tasks[t].status \in Active
           /\ Become("rpc", [Idle EXCEPT !.at = "extend", !.t = t, !.m = m,
                        !.row = [tasks[t] EXCEPT !.due = "ahead"],
                        !.copy = [miners[m] EXCEPT !.fresh = TRUE, !.status = "mining"]])
    /\ UNCHANGED <<tables, engine, queue, seen, others>>

Extend ==
    /\ Rpc.at = "extend"
    /\ tasks' = [tasks EXCEPT ![Rpc.t] = Rpc.row]
    /\ Become("rpc", [Rpc EXCEPT !.at = "touch"])
    /\ UNCHANGED <<miners, engine, queue, seen, bounds>>

\* The other heartbeats: the deadline is far, or the miner takes up a task
\* assigned to it, or there is nothing to do.
Heartbeat ==
    /\ Rpc.at = "idle"
    /\ \E m \in Miner :
           LET t == miners[m].current
               atWork == t # None /\ tasks[t].status \in Active
               found == {u \in Task : tasks[u].status = "assigned" /\ m \in tasks[u].miners}
               beat == [miners[m] EXCEPT !.fresh = TRUE]
               go(u, s) == Become("rpc", [Idle EXCEPT !.at = "touch", !.m = m,
                                    !.copy = [beat EXCEPT !.current = u, !.status = s]]) IN
           \/ atWork /\ tasks[t].due = "ahead" /\ go(t, "mining")
           \/ ~atWork /\ \E u \in found : go(u, "mining")
           \/ ~atWork /\ found = {} /\ go(None, "online")
    /\ UNCHANGED <<tables, engine, queue, seen, bounds>>

\* update_miner writes the whole copy.
Touch ==
    /\ Rpc.at = "touch"
    /\ miners' = [miners EXCEPT ![Rpc.m] = Rpc.copy]
    /\ Become("rpc", Idle)
    /\ UNCHANGED <<tasks, engine, queue, seen, bounds>>

\* Faulty: a result that did not come in a batch is accepted.
SubmitAccepted ==
    /\ Call
    /\ \E t \in Task : \E m \in tasks[t].miners :
           Become("rpc", [Idle EXCEPT !.at = "save", !.t = t, !.row = [tasks[t] EXCEPT !.status = "completed"]])
    /\ UNCHANGED <<tables, engine, queue, seen, others>>

\* submit_result: in blind mode a result outside a batch is turned down, but
\* noted; and the task is running again, whatever it was.
SubmitResult ==
    /\ Call
    /\ \E t \in Task, a \in Answer : \E m \in tasks[t].miners :
           Become("rpc", [Idle EXCEPT !.at = "verify", !.t = t,
                             !.row = [tasks[t] EXCEPT !.status = "verifying", !.results[m] = a]])
    /\ UNCHANGED <<tables, engine, queue, seen, others>>

Verify ==
    /\ Rpc.at = "verify"
    /\ tasks' = [tasks EXCEPT ![Rpc.t] = Rpc.row]
    /\ Become("rpc", [Rpc EXCEPT !.at = "save", !.row.status = "running"])
    /\ UNCHANGED <<miners, engine, queue, seen, bounds>>

\* Faulty: a batch is kept after it has been verified.
BatchKept(b) == batches' = batches
\* verify_batch takes the batch out, so that it counts once.
BatchTaken(b) == batches' = batches \ {b}

\* submit_blind_batch, the traps passed: the answer is the result, in the name
\* of the miner the caller gives, who need not be the miner of the batch.
SubmitPassed ==
    /\ Call
    /\ \E b \in batches, m \in Miner, a \in Answer :
           /\ BatchTaken(b) /\ verified' = verified \cup {b}
           /\ fails' = [fails EXCEPT ![b.miner] = 0]
           /\ Become("rpc", [Idle EXCEPT !.at = "credit", !.op = "passed", !.t = b.task, !.m = m,
                                !.row = [tasks[b.task] EXCEPT !.status = "completed", !.final = a,
                                                              !.results[m] = a]])
    /\ UNCHANGED <<tables, banned, made, earned, asked, queue, seen, others>>

\* The traps passed without an answer for the task: it is left as it is.
SubmitEmpty ==
    /\ Call
    /\ \E b \in batches : /\ BatchTaken(b)
                          /\ fails' = [fails EXCEPT ![b.miner] = 0]
    /\ UNCHANGED <<tables, banned, made, books, thread, queue, seen, others>>

\* One more failure in a row, and a ban from MaxFails on.
FailedAgain(m) ==
    /\ fails' = [fails EXCEPT ![m] = @ + 1]
    /\ banned' = IF fails'[m] >= MaxFails THEN banned \cup {m} ELSE banned

\* The traps failed: the task is pending again, with nobody to place it, and
\* the miner that the caller gives is punished after that.
SubmitFailed ==
    /\ Call
    /\ \E b \in batches, m \in Miner :
           /\ BatchTaken(b)
           /\ FailedAgain(b.miner)
           /\ Become("rpc", [Idle EXCEPT !.at = "save", !.op = "trapped", !.t = b.task, !.m = m,
                                !.row = [tasks[b.task] EXCEPT !.status = "pending", !.miners = {},
                                                              !.results = NoResults]])
    /\ UNCHANGED <<tables, made, books, queue, seen, others>>

\* A batch that is not there any more, such as one sent twice, fails too: no
\* task is touched, the miner is.
SubmitUnknown ==
    /\ Call
    /\ \E m \in Miner : Become("rpc", [Idle EXCEPT !.at = "credit", !.op = "trapped", !.m = m])
    /\ UNCHANGED <<tables, engine, queue, seen, others>>

\* _settle_task adds a share for every miner that gave the final result, to
\* what the row has from earlier settlements.
Shared(row) ==
    [row EXCEPT !.payments = [m \in Miner |-> @[m] + IF row.results[m] \in Answer
                                                         /\ row.results[m] = row.final
                                                      THEN 1 ELSE 0]]

\* Everybody with a payment in the row will be paid the whole of it.
Settling(r) == LET row == Shared(r.row) IN
    [r EXCEPT !.at = "settle", !.row = row, !.m = None, !.copy = NewMiner,
              !.todo = {m \in Miner : row.payments[m] > 0}]

\* distribute_reward settles a completed task once more, however often.
DistributeReward ==
    /\ Call
    /\ \E t \in Task :
           /\ tasks[t].status = "completed"
           /\ asked' = [asked EXCEPT ![t] = @ + 1]
           /\ Become("rpc", Settling([Idle EXCEPT !.op = "reward", !.t = t, !.row = tasks[t]]))
    /\ UNCHANGED <<tables, batches, fails, banned, made, verified, earned, queue, seen, others>>

\* The miner that the caller named is free again.
Credit ==
    /\ Rpc.at = "credit"
    /\ Become("rpc", [Rpc EXCEPT !.at = "free", !.copy = [miners[Rpc.m] EXCEPT !.current = None,
                                                                              !.status = "online"]])
    /\ UNCHANGED <<tables, engine, queue, seen, bounds>>

Free ==
    /\ Rpc.at = "free"
    /\ miners' = [miners EXCEPT ![Rpc.m] = Rpc.copy]
    /\ Become("rpc", IF Rpc.op = "passed" THEN Settling(Rpc) ELSE Idle)
    /\ UNCHANGED <<tasks, engine, queue, seen, bounds>>

\* The settlement goes through the payments, and adds each to the earnings in
\* a miner's row read for it.
EarnRead ==
    /\ Rpc.at = "settle"
    /\ \E m \in Rpc.todo : Become("rpc", [Rpc EXCEPT !.at = "earn", !.todo = @ \ {m},
                                                     !.m = m, !.copy = miners[m]])
    /\ UNCHANGED <<tables, engine, queue, seen, bounds>>

EarnWrite ==
    /\ Rpc.at = "earn"
    /\ miners' = [miners EXCEPT ![Rpc.m] = Rpc.copy]
    /\ earned' = [earned EXCEPT ![Rpc.t][Rpc.m] = @ + Rpc.row.payments[Rpc.m]]
    /\ Become("rpc", Drop(Rpc, "settle"))
    /\ UNCHANGED <<tasks, batches, fails, banned, made, verified, asked, queue, seen, bounds>>

\* The settlement saves the task itself; after a batch it is saved once more.
Settled ==
    /\ Rpc.at = "settle" /\ Rpc.todo = {}
    /\ tasks' = [tasks EXCEPT ![Rpc.t] = Rpc.row]
    /\ Become("rpc", IF Rpc.op = "passed" THEN [Rpc EXCEPT !.at = "save"] ELSE Idle)
    /\ UNCHANGED <<miners, engine, queue, seen, bounds>>

\* _save_task writes the whole copy.
Save ==
    /\ Rpc.at = "save"
    /\ tasks' = [tasks EXCEPT ![Rpc.t] = Rpc.row]
    /\ Become("rpc", IF Rpc.op = "trapped" THEN [Rpc EXCEPT !.at = "credit"] ELSE Idle)
    /\ UNCHANGED <<miners, engine, queue, seen, bounds>>

RpcCalls == \/ CreateTask \/ RegisterMiner \/ RateMiner \/ HeartbeatAtWork \/ Heartbeat
            \/ SubmitResult \/ SubmitPassed \/ SubmitEmpty \/ SubmitFailed
            \/ SubmitUnknown \/ DistributeReward
RpcSteps == \/ PlaceSteps("rpc") \/ Extend \/ Touch \/ Verify \/ Credit \/ Free
            \/ EarnRead \/ EarnWrite \/ Settled \/ Save

-----------------------------------------------------------------------------
(* The watchdog: a pass reads the active tasks and treats those past their *)
(* deadline, then reads the miners and writes the silent ones back as      *)
(* offline, then now and then reads and writes them all for the decay.     *)

Dog == thread["watchdog"]

\* Without a deadline (timeout_at is 0) a task is never late.
Late(t) == tasks[t].due = "past" /\ tasks[t].status \in Active

\* Faulty: a task that has failed once before is left out.
ScanTasksOnce ==
    /\ Dog.at = "idle"
    /\ queue' = {<<t, tasks[t]>> : t \in {u \in Task : Late(u) /\ tasks[u].tries = 0}}
    /\ Become("watchdog", [Idle EXCEPT !.at = "timeouts"])
    /\ UNCHANGED <<tables, engine, seen, bounds>>

\* _handle_timed_out_tasks reads the active tasks, of which those past their
\* deadline by then count.
ScanTasks ==
    /\ Dog.at = "idle"
    /\ queue' = {<<t, tasks[t]>> : t \in {u \in Task : Late(u)}}
    /\ Become("watchdog", [Idle EXCEPT !.at = "timeouts"])
    /\ UNCHANGED <<tables, engine, seen, bounds>>

\* _handle_timed_out_tasks treats the rows it has read one by one.
NextTask ==
    /\ Dog.at = "timeouts"
    /\ \E q \in queue :
           /\ queue' = queue \ {q}
           /\ Become("watchdog", [Idle EXCEPT !.at = "release", !.t = q[1], !.row = q[2],
                                              !.todo = q[2].miners])
    /\ UNCHANGED <<tables, engine, seen, bounds>>

\* _release_task_miners: the miners that still have this task.
ReleaseRead ==
    /\ Dog.at = "release"
    /\ \E m \in Dog.todo :
           Become("watchdog", IF miners[m].current # Dog.t
                              THEN [Dog EXCEPT !.todo = @ \ {m}]
                              ELSE [Dog EXCEPT !.at = "let", !.todo = @ \ {m},
                                               !.m = m, !.copy = miners[m]])
    /\ UNCHANGED <<tables, engine, queue, seen, bounds>>

ReleaseWrite ==
    /\ Dog.at = "let"
    /\ miners' = [miners EXCEPT ![Dog.m] =
                     [Dog.copy EXCEPT !.current = None,
                                      !.status = IF Dog.copy.fresh THEN "online" ELSE "offline"]]
    /\ Become("watchdog", Drop(Dog, "release"))
    /\ UNCHANGED <<tasks, engine, queue, seen, bounds>>

\* Faulty: the tries are counted down, below none.
RequeueDown ==
    /\ Dog.at = "release" /\ Dog.todo = {} /\ Dog.row.tries + 1 <= MaxTries
    /\ LET row == [Dog.row EXCEPT !.status = "pending", !.miners = {}, !.tries = @ - 1,
                                  !.due = "none", !.results = NoResults] IN
       /\ tasks' = [tasks EXCEPT ![Dog.t] = row]
       /\ Become("watchdog", [Dog EXCEPT !.at = "pick", !.row = row])
    /\ UNCHANGED <<miners, engine, queue, seen, bounds>>

\* Tries left: pending, without a deadline, and placed again at once.
Requeue ==
    /\ Dog.at = "release" /\ Dog.todo = {} /\ Dog.row.tries + 1 <= MaxTries
    /\ LET row == [Dog.row EXCEPT !.status = "pending", !.miners = {}, !.tries = @ + 1,
                                  !.due = "none", !.results = NoResults] IN
       /\ tasks' = [tasks EXCEPT ![Dog.t] = row]
       /\ Become("watchdog", [Dog EXCEPT !.at = "pick", !.row = row])
    /\ UNCHANGED <<miners, engine, queue, seen, bounds>>

\* No tries left: failed, and the buyer may have the money back.
GiveUp ==
    /\ Dog.at = "release" /\ Dog.todo = {} /\ Dog.row.tries + 1 > MaxTries
    /\ tasks' = [tasks EXCEPT ![Dog.t] = [Dog.row EXCEPT !.status = "failed", !.tries = @ + 1]]
    /\ Done("watchdog")
    /\ UNCHANGED <<miners, engine, queue, seen, bounds>>

\* _handle_offline_miners reads the miners that have fallen silent ...
ScanMiners ==
    /\ Dog.at = "timeouts" /\ queue = {}
    /\ seen' = {<<m, miners[m]>> : m \in {n \in Miner : miners[n].status # "offline" /\ ~miners[n].fresh}}
    /\ Become("watchdog", [Idle EXCEPT !.at = "silent"])
    /\ UNCHANGED <<tables, engine, queue, bounds>>

\* ... and writes them back as they were, without their task.
NextMiner ==
    /\ Dog.at = "silent"
    /\ \E s \in seen :
           /\ seen' = seen \ {s}
           /\ miners' = [miners EXCEPT ![s[1]] = [s[2] EXCEPT !.status = "offline",
                                                             !.current = None]]
    /\ UNCHANGED <<tasks, engine, thread, queue, bounds>>

\* _maybe_decay_reputation reads all miners, and writes all of them back.
ScanDecay ==
    /\ Dog.at = "silent" /\ seen = {} /\ decays < Decays /\ decays' = decays + 1
    /\ seen' = {<<m, miners[m]>> : m \in Miner}
    /\ Become("watchdog", [Idle EXCEPT !.at = "decay"])
    /\ UNCHANGED <<tables, engine, queue, calls, silences, failures>>

NextDecay ==
    /\ Dog.at = "decay"
    /\ \E s \in seen : /\ seen' = seen \ {s}
                       /\ miners' = [miners EXCEPT ![s[1]] = s[2]]
    /\ UNCHANGED <<tasks, engine, thread, queue, bounds>>

\* The pass is over; the decay is not due at every pass.
PassDone ==
    /\ Dog.at \in {"silent", "decay"} /\ seen = {}
    /\ Become("watchdog", Idle)
    /\ UNCHANGED <<tables, engine, queue, seen, bounds>>

WatchdogSteps == \/ PlaceSteps("watchdog")
                 \/ ScanTasks \/ NextTask \/ ReleaseRead \/ ReleaseWrite \/ Requeue \/ GiveUp
                 \/ ScanMiners \/ NextMiner \/ ScanDecay \/ NextDecay \/ PassDone

-----------------------------------------------------------------------------
(* Time, crashes and exceptions. *)

Overdue ==
    /\ \E t \in Task : /\ tasks[t].due = "ahead"
                       /\ tasks' = [tasks EXCEPT ![t].due = "past"]
    /\ UNCHANGED <<miners, engine, thread, queue, seen, bounds>>

FallSilent ==
    /\ \E m \in Miner : /\ miners[m].fresh
                        /\ miners' = [miners EXCEPT ![m].fresh = FALSE]
    /\ silences < Silences /\ silences' = silences + 1
    /\ UNCHANGED <<tasks, engine, thread, queue, seen, calls, decays, failures>>

\* A crash leaves the tables; the batches and the bans were in memory.
Crash ==
    /\ failures < Failures /\ failures' = failures + 1
    /\ batches' = {} /\ banned' = {} /\ fails' = Nothing
    /\ thread' = [th \in Thread |-> Idle] /\ queue' = {} /\ seen' = {}
    /\ UNCHANGED <<tables, books, made, calls, silences, decays>>

\* The database raises: the call ends where it is, and a pass of the watchdog
\* ends with all that it had read.
RpcRaises ==
    /\ failures < Failures /\ failures' = failures + 1
    /\ Rpc.at # "idle" /\ Become("rpc", Idle)
    /\ UNCHANGED <<tables, engine, queue, seen, calls, silences, decays>>

WatchdogRaises ==
    /\ failures < Failures /\ failures' = failures + 1
    /\ Dog.at # "idle" /\ Become("watchdog", Idle) /\ queue' = {} /\ seen' = {}
    /\ UNCHANGED <<tables, engine, calls, silences, decays>>

Next == \/ RpcCalls \/ RpcSteps \/ WatchdogSteps \/ Overdue \/ FallSilent
        \/ Crash \/ RpcRaises \/ WatchdogRaises

Spec == Init /\ [][Next]_vars /\ WF_vars(WatchdogSteps) /\ WF_vars(RpcSteps)

-----------------------------------------------------------------------------
(* Properties. *)

Label == {"idle", "pick", "place", "mark", "busy", "assign", "extend", "touch", "verify",
          "save", "credit", "free", "settle", "earn",
          "timeouts", "release", "let", "silent", "decay"}
Op == {"none", "create", "passed", "trapped", "reward"}
CopyRow == [at : Label, op : Op, t : Task \cup {None}, row : TaskRow,
            todo : SUBSET Miner, m : Miner \cup {None}, copy : MinerRow]

\* The tables, the batches and what the threads hold have the shapes above.
TypeOK ==
    /\ tasks \in [Task -> TaskRow] /\ miners \in [Miner -> MinerRow]
    /\ batches \subseteq Batch /\ verified \subseteq Batch /\ made \in Nat
    /\ earned \in [Task -> [Miner -> Nat]] /\ asked \in [Task -> Nat]
    /\ fails \in [Miner -> Nat] /\ banned \subseteq Miner
    /\ thread \in [Thread -> CopyRow]
    /\ queue \subseteq Task \X TaskRow /\ seen \subseteq Miner \X MinerRow
    /\ calls \in 0 .. Calls /\ silences \in 0 .. Silences
    /\ decays \in 0 .. Decays /\ failures \in 0 .. Failures

Passed(t) == {b \in verified : b.task = t}

\* No task is completed unless a batch that holds it came back with its traps
\* passed, whatever copies the two threads write over each other
\* (submit_blind_batch and _verify_blind).
CompletedPassedTraps == \A t \in Task : tasks[t].status = "completed" => Passed(t) # {}

\* The settlements of a task: one for each batch that passed, and one for each
\* time that distribute_reward was asked for.
Settlements(t) == Cardinality(Passed(t)) + asked[t]

\* The k-th settlement of a task pays a miner at most k shares, its own and
\* again those of the earlier ones: what all of them have added to the
\* earnings of a miner is at most 1 + 2 + ... + n shares.  Neither a late
\* answer, nor a retry, a stale row or a failure pays a batch more often than
\* that (_settle_task, verify_batch).
EarnedBySettlements ==
    \A t \in Task, m \in Miner :
        2 * earned[t][m] <= Settlements(t) * (Settlements(t) + 1)

\* A task past its deadline does not stay with its miners: the watchdog takes
\* it back, or an answer or a heartbeat comes in (_handle_timed_out_tasks).
OverdueIsHandled == \A t \in Task : Late(t) ~> ~Late(t)
=============================================================================
