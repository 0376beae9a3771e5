--------------------------- MODULE SectorExchange ---------------------------
(***************************************************************************)
(* The exchange of sector coins for MAIN (core/dual_witness_exchange.py)   *)
(* on the ledger of one sector coin.  request_exchange, add_witness and    *)
(* the background verifier hold the exchange's lock for a whole call; the  *)
(* ledger's other users come in between the steps of a call, and so may a  *)
(* crash.                                                                  *)
(*                                                                         *)
(* The store has no mint_main and no transfer: every attempt to mint or to *)
(* compensate raises after the burn, and the exchange is written FAILED.   *)
(* The amount in MAIN, which sets the number of witnesses, is left open.   *)
(* Signatures are not modelled: a witness here is one that was verified.   *)
(***************************************************************************)
EXTENDS SectorLedger

CONSTANTS
    Exchange,     \* exchange ids
    MaxWitness,   \* bound on the witnesses of an exchange
    Crashes       \* bound on crashes

ASSUME SectorExchangeAssumption ==
    /\ Exchange # {} /\ IsFiniteSet(Exchange)
    /\ MaxWitness \in Nat /\ Crashes \in Nat

VARIABLES
    exchanges,    \* the exchanges table
    pending,      \* pending_exchanges, with the witnesses of each
    late,         \* the pending exchanges older than WITNESS_TIMEOUT
    job,          \* the call that holds the lock: the exchange, and its step
    taken,        \* history: what was locked for each exchange
    burns,        \* history: how often each was burned
    crashes

exchange == <<exchanges, pending, late, job, taken, burns, crashes>>
vars == <<ledger, exchange>>

Row == [status : {"none", "PENDING", "FAILED"}, who : Address, amount : Nat, need : 0 .. 2]
Free == [at |-> "idle", e |-> CHOOSE e \in Exchange : TRUE]
NoRow == [status |-> "none", who |-> CHOOSE a \in Address : TRUE, amount |-> 0, need |-> 0]

Init ==
    /\ LedgerInit
    /\ exchanges = [e \in Exchange |-> NoRow]
    /\ pending = [e \in {} |-> 0] /\ late = {} /\ job = Free
    /\ taken = [e \in Exchange |-> NoRow] /\ burns = [e \in Exchange |-> 0]
    /\ crashes = 0

At(step, e) == job' = [at |-> step, e |-> e]

\* request_exchange, with the lock on the coins first.  Below 100 MAIN no
\* witness is needed, below 1000 one, and else two.
RequestExchange ==
    /\ job = Free
    /\ \E e \in Exchange, a \in Address, n \in 1 .. MaxSupply, need \in 0 .. 2 :
           /\ taken[e] = NoRow
           /\ LockForExchange(a, n)
           /\ taken' = [taken EXCEPT ![e] = [status |-> "PENDING", who |-> a,
                                             amount |-> n, need |-> need]]
           /\ At("insert", e)
    /\ UNCHANGED <<exchanges, pending, late, burns, crashes>>

\* The row is inserted; an exchange that needs witnesses waits for them.
Insert ==
    LET e == job.e IN
    /\ job.at = "insert"
    /\ exchanges' = [exchanges EXCEPT ![e] = taken[e]]
    /\ IF taken[e].need = 0
       THEN At("burn", e) /\ UNCHANGED pending
       ELSE job' = Free /\ pending' = [x \in DOMAIN pending \cup {e} |->
                                          IF x = e THEN 0 ELSE pending[x]]
    /\ UNCHANGED <<ledger, late, taken, burns, crashes>>

\* Faulty: the witness that comes now is counted twice.
EnoughAtOnce(e) == pending[e] + 2 >= exchanges[e].need
Enough(e) == pending[e] + 1 >= exchanges[e].need

\* add_witness, of any sector, twice of the same one too, and of an exchange
\* that has failed already: it stays in pending_exchanges.
AddWitness ==
    /\ job = Free
    /\ \E e \in DOMAIN pending :
           /\ pending[e] < MaxWitness
           /\ pending' = [pending EXCEPT ![e] = @ + 1]
           /\ IF Enough(e) THEN At("burn", e) ELSE UNCHANGED job
    /\ UNCHANGED <<ledger, exchanges, late, taken, burns, crashes>>

\* _execute_exchange_immediately and _execute_exchange_optimistic: the burn,
\* whose answer nobody looks at, then the mint, which raises.
Burn ==
    LET x == exchanges[job.e] IN
    /\ job.at = "burn" /\ At("fail", job.e)
    /\ \/ BurnForExchange(x.who, x.amount) /\ burns' = [burns EXCEPT ![job.e] = @ + 1]
       \/ ~CanBurn(x.who, x.amount) /\ UNCHANGED <<ledger, burns>>
    /\ UNCHANGED <<exchanges, pending, late, taken, crashes>>

Fail ==
    /\ job.at = "fail" /\ job' = Free
    /\ exchanges' = [exchanges EXCEPT ![job.e].status = "FAILED"]
    /\ UNCHANGED <<ledger, pending, late, taken, burns, crashes>>

\* Faulty: a failed exchange is passed over.
VerifierSkips ==
    /\ job = Free
    /\ \E e \in late :
           /\ exchanges[e].status = "PENDING"
           /\ exchanges' = [exchanges EXCEPT ![e].status = "FAILED"]
           /\ pending' = Restrict(pending, DOMAIN pending \ {e})
           /\ late' = late \ {e}
    /\ UNCHANGED <<ledger, job, taken, burns, crashes>>

\* The verifier takes the late exchanges out; its compensation always fails,
\* and the coins stay locked.
Verifier ==
    /\ job = Free
    /\ \E e \in late :
           /\ exchanges' = [exchanges EXCEPT ![e].status = "FAILED"]
           /\ pending' = Restrict(pending, DOMAIN pending \ {e})
           /\ late' = late \ {e}
    /\ UNCHANGED <<ledger, job, taken, burns, crashes>>

\* Five minutes are over.
Late ==
    /\ \E e \in DOMAIN pending \ late : late' = late \cup {e}
    /\ UNCHANGED <<ledger, exchanges, pending, job, taken, burns, crashes>>

\* A crash leaves the two databases; pending_exchanges was in memory only.
Crash ==
    /\ crashes < Crashes /\ crashes' = crashes + 1
    /\ pending' = [e \in {} |-> 0] /\ late' = {} /\ job' = Free
    /\ UNCHANGED <<ledger, exchanges, taken, burns>>

Steps == Insert \/ Burn \/ Fail
Next == \/ RequestExchange \/ AddWitness \/ Steps \/ Verifier \/ Late \/ Crash
        \/ LedgerNext /\ UNCHANGED exchange

Spec == Init /\ [][Next]_vars /\ WF_vars(Steps) /\ WF_vars(Late) /\ WF_vars(Verifier)

-----------------------------------------------------------------------------
(* Properties. *)

\* Both databases, the exchanges in memory and the call have the shapes above.
TypeOK ==
    /\ LedgerTypeOK
    /\ exchanges \in [Exchange -> Row] /\ taken \in [Exchange -> Row]
    /\ DOMAIN pending \subseteq Exchange
    /\ \A e \in DOMAIN pending : pending[e] \in 0 .. MaxWitness
    /\ late \subseteq DOMAIN pending
    /\ job \in [at : {"idle", "insert", "burn", "fail"}, e : Exchange]
    /\ burns \in [Exchange -> Nat] /\ crashes \in 0 .. Crashes

\* What was locked for the exchanges of an address, each as often as times says.
AmountOf(a, times) ==
    SumFunctionOnSet([e \in Exchange |-> taken[e].amount * times[e]],
                     {e \in Exchange : taken[e].who = a})

\* What was locked for the exchanges of an address is still locked or has
\* been burned: through late witnesses, timeouts, rollbacks and crashes an
\* address loses no more than it asked to exchange, though one exchange may
\* be burned twice, out of the lock of another (lock_for_exchange,
\* burn_for_exchange and _execute_exchange_optimistic).
LocksAccounted ==
    \A a \in Address :
        locked[a] + AmountOf(a, burns) = AmountOf(a, [e \in Exchange |-> 1])

\* Coins are burned for an exchange only after it has been recorded and as
\* many witnesses as its amount needs have come (add_witness).
BurnedAreWitnessed ==
    [][\A e \in Exchange : burns'[e] > burns[e] =>
           /\ exchanges[e].status # "none"
           /\ exchanges[e].need = 0 \/ pending[e] >= exchanges[e].need]_vars

\* An exchange does not wait for ever: it is taken out in the end, with its
\* witnesses or without them (_start_background_verifier).
PendingEnds == \A e \in Exchange : e \in DOMAIN pending ~> e \notin DOMAIN pending
=============================================================================
