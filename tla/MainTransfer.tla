---------------------------- MODULE MainTransfer ----------------------------
(***************************************************************************)
(* The MAIN transfer engine (core/main_transfer.py) with the witness       *)
(* engine it submits each transfer to (core/double_witness.py).            *)
(*                                                                         *)
(* add_witness and check_timeout read whole rows of the transfers table    *)
(* and later write the whole rows back, without a lock; a witnessed        *)
(* transfer moves money in the UTXO store before its row is saved.  All    *)
(* transfers are of one sender, in units of one transfer, to whom funds    *)
(* of the store belong.                                                    *)
(*                                                                         *)
(* The node starts the engine and creates transfers; nothing in it calls   *)
(* add_witness, check_timeout, register_node or process_pending yet, so    *)
(* each may be called at any time, by the callers given.                   *)
(***************************************************************************)
EXTENDS Integers, FiniteSets

CONSTANTS
    TransferId, Sector, None,
    Need,         \* the witnesses of a transfer: 2, or 3 of a large one
    EngineNeed,   \* the same to the witness engine, of another idea of large
    Pool,         \* the witness nodes registered with the witness engine
    Caller,       \* the threads that call add_witness
    Funds,        \* what the sender has
    Failures      \* bound on crashes and failed writes

ASSUME MainTransferAssumption ==
    /\ None \notin TransferId \cup Sector /\ IsFiniteSet(Sector)
    /\ Need \in [TransferId -> Nat \ {0}] /\ EngineNeed \in [TransferId -> Nat \ {0}]
    /\ Pool \in Nat /\ Funds \in Nat /\ Failures \in Nat

VARIABLES
    transfers,    \* the transfers table
    funds,        \* the sender's unspent MAIN in the UTXO store
    call,         \* what each caller of add_witness is doing, with its copy
    expired,      \* the copies that check_timeout is going to save as FAILED
    engine,       \* what the witness engine thinks of each transfer
    paid,         \* history: how often each was executed
    said,         \* history: the sectors that have confirmed each
    failures

vars == <<transfers, funds, call, expired, engine, paid, said, failures>>

Row == [status : {"none", "WITNESSING", "CONFIRMED", "REJECTED", "FAILED"},
        yes : SUBSET Sector, no : SUBSET Sector]
NoRow == [status |-> "none", yes |-> {}, no |-> {}]
Idle == [at |-> "idle", t |-> None, row |-> NoRow]

TransferInit ==
    /\ transfers = [t \in TransferId |-> NoRow] /\ funds = Funds
    /\ call = [c \in Caller |-> Idle] /\ expired = {}
    /\ engine = [t \in TransferId |-> "none"]
    /\ paid = [t \in TransferId |-> 0] /\ said = [t \in TransferId |-> {}]
    /\ failures = 0

\* submit_transaction: each chosen node witnesses at once, for or against;
\* who is confirmed there is not executed, and without nodes it is refused.
Submitted(t) ==
    \E yes, no \in 0 .. Pool :
        /\ yes + no <= EngineNeed[t] /\ yes + no \in {Pool, EngineNeed[t]}
        /\ engine' = [engine EXCEPT ![t] = IF yes + no = 0 THEN "REFUSED"
                                           ELSE IF yes >= EngineNeed[t] THEN "CONFIRMED"
                                           ELSE IF no >= EngineNeed[t] THEN "REJECTED"
                                           ELSE "PARTIAL"]

\* Faulty: the store does not look at what the sender has.
CoveredAlways == TRUE
Covered == funds > 0

\* create_transfer: the balance is checked ahead, the row saved, and the
\* transfer submitted.
CreateTransfer ==
    /\ Covered
    /\ \E t \in TransferId : /\ transfers[t].status = "none"
                             /\ transfers' = [transfers EXCEPT ![t].status = "WITNESSING"]
                             /\ Submitted(t)
    /\ UNCHANGED <<funds, call, expired, paid, said, failures>>

\* process_pending expires what the engine holds for more than 30 seconds, the
\* transfers voted down included.
ProcessPending ==
    /\ \E t \in TransferId : /\ engine[t] \in {"PARTIAL", "REJECTED"}
                             /\ engine' = [engine EXCEPT ![t] = "EXPIRED"]
    /\ UNCHANGED <<transfers, funds, call, expired, paid, said, failures>>

\* Faulty: a transfer is decided by all its witnesses, for and against.
DecidedByAll(t, row) == Cardinality(row.yes \cup row.no) >= Need[t]
Decided(t, row) == Cardinality(row.yes) >= Need[t]

\* Faulty: a transfer that has been decided is witnessed again.
OpenAlways(t) == transfers[t].status # "none"
Open(t) == transfers[t].status = "WITNESSING"

\* The row with the word of one more sector, and with what that decides.
Word == {"yes", "no"}
Heard(row, s, word) == [row EXCEPT ![word] = @ \cup {s}]
Judged(t, row) ==
    IF Decided(t, row) THEN [row EXCEPT !.status = "CONFIRMED"]
    ELSE IF Cardinality(row.no) >= Need[t] THEN [row EXCEPT !.status = "REJECTED"]
    ELSE row

\* add_witness reads the row and adds the sector's word to its copy.
AddWitnessOf(c, t, s, word) ==
    /\ call[c] = Idle
    /\ Open(t) /\ s \notin transfers[t].yes \cup transfers[t].no
    /\ said' = IF word = "yes" THEN [said EXCEPT ![t] = @ \cup {s}] ELSE said
    /\ LET row == Heard(transfers[t], s, word) IN
       call' = [call EXCEPT ![c] = [at |-> IF Decided(t, row) THEN "execute" ELSE "save",
                                    t |-> t, row |-> Judged(t, row)]]
    /\ UNCHANGED <<transfers, funds, expired, engine, paid, failures>>
AddWitness(c) ==
    \E t \in TransferId, s \in Sector, word \in Word : AddWitnessOf(c, t, s, word)

\* _execute_transfer: the store's transfer, and FAILED when that is refused or
\* raises, for want of funds or for another reason.
Execute(c) ==
    /\ call[c].at = "execute"
    /\ \/ /\ Covered
          /\ funds' = funds - 1
          /\ paid' = [paid EXCEPT ![call[c].t] = @ + 1]
          /\ call' = [call EXCEPT ![c].at = "save"]
       \/ /\ call' = [call EXCEPT ![c] = [at |-> "save", t |-> @.t,
                                           row |-> [@.row EXCEPT !.status = "FAILED"]]]
          /\ UNCHANGED <<funds, paid>>
    /\ UNCHANGED <<transfers, expired, engine, said, failures>>

\* Faulty: the row of a refused transfer is saved as confirmed.
SaveConfirmed(r) == IF r.status = "FAILED" THEN [r EXCEPT !.status = "CONFIRMED"] ELSE r
Saved(r) == r

\* _save_transfer writes the whole copy.
Save(c) ==
    /\ call[c].at = "save"
    /\ transfers' = [transfers EXCEPT ![call[c].t] = Saved(call[c].row)]
    /\ call' = [call EXCEPT ![c] = Idle]
    /\ UNCHANGED <<funds, expired, engine, paid, said, failures>>

\* The write raises: the call ends, whatever it has moved.
SaveFails(c) ==
    /\ call[c].at = "save"
    /\ failures < Failures /\ failures' = failures + 1
    /\ call' = [call EXCEPT ![c] = Idle]
    /\ UNCHANGED <<transfers, funds, expired, engine, paid, said>>

\* check_timeout reads the open rows, of which the late ones will fail ...
CheckTimeout ==
    /\ expired = {}
    /\ \E late \in SUBSET {t \in TransferId : Open(t)} :
           /\ late # {}
           /\ expired' = {<<t, [transfers[t] EXCEPT !.status = "FAILED"]>> : t \in late}
    /\ UNCHANGED <<transfers, funds, call, engine, paid, said, failures>>

\* ... and saves its copies of them, whatever has become of the rows.
Expire ==
    /\ \E x \in expired : /\ transfers' = [transfers EXCEPT ![x[1]] = x[2]]
                          /\ expired' = expired \ {x}
    /\ UNCHANGED <<funds, call, engine, paid, said, failures>>

\* Its write raises, and the rest of the copies is dropped.
ExpireFails ==
    /\ expired # {} /\ expired' = {}
    /\ failures < Failures /\ failures' = failures + 1
    /\ UNCHANGED <<transfers, funds, call, engine, paid, said>>

\* A crash keeps the two databases; the witness engine is in memory only.
Crash ==
    /\ failures < Failures /\ failures' = failures + 1
    /\ call' = [c \in Caller |-> Idle] /\ expired' = {}
    /\ engine' = [t \in TransferId |-> "none"]
    /\ UNCHANGED <<transfers, funds, paid, said>>

TransferNext ==
    \/ CreateTransfer \/ ProcessPending \/ CheckTimeout \/ Expire \/ ExpireFails \/ Crash
    \/ \E c \in Caller : AddWitness(c) \/ Execute(c) \/ Save(c) \/ SaveFails(c)

TransferSpec == TransferInit /\ [][TransferNext]_vars

-----------------------------------------------------------------------------
(* Properties. *)

\* The table, the copies and the engine have the shapes above.
TransferTypeOK ==
    /\ transfers \in [TransferId -> Row] /\ funds \in 0 .. Funds
    /\ call \in [Caller -> [at : {"idle", "execute", "save"}, t : TransferId \cup {None}, row : Row]]
    /\ expired \subseteq TransferId \X Row
    /\ engine \in [TransferId -> {"none", "CONFIRMED", "REFUSED", "REJECTED", "PARTIAL", "EXPIRED"}]
    /\ paid \in [TransferId -> Nat] /\ said \in [TransferId -> SUBSET Sector]
    /\ failures \in 0 .. Failures

\* No transfer is executed before as many sectors as it needs have confirmed
\* it, whatever stale copies and failures do to the record of it (add_witness).
PaidIsWitnessed == \A t \in TransferId : paid[t] > 0 => Cardinality(said[t]) >= Need[t]

\* With one caller a transfer is executed once, and once more at most for
\* each crash or failed write: what ends the call after the store's transfer
\* and before its row is saved leaves the row open (add_witness,
\* _execute_transfer, _save_transfer).
OncePerFailure == \A t \in TransferId : paid[t] <= 1 + failures

\* A transfer shown as confirmed has moved the money (_execute_transfer).
ConfirmedIsPaid == \A t \in TransferId : transfers[t].status = "CONFIRMED" => paid[t] > 0
=============================================================================
