----------------------------- MODULE UTXOStore -----------------------------
(***************************************************************************)
(* The UTXO store of a node (core/utxo_store.py, class UTXOStore): the     *)
(* SQLite tables utxos and transactions, and one action per database       *)
(* transaction that changes them.                                          *)
(*                                                                         *)
(* One sector is modelled; amounts are small naturals.  The hash that      *)
(* names a coinbase is a function of its miner and height, so a coinbase   *)
(* txid IS that pair; a transfer's txid hashes a timestamp, so each        *)
(* transfer takes a fresh name.  Signature checks come before any state    *)
(* is touched and are left out.                                            *)
(***************************************************************************)
EXTENDS Integers, FiniteSets, Functions

CONSTANTS
    Address,      \* wallet addresses, the treasury's among them
    Transfer,     \* the txids that transfers can take
    MaxHeight,    \* bound on the chain height
    MaxInputs,    \* bound on the inputs of one transfer
    MaxAmount,    \* bound on the amount of one transfer
    Reward,       \* the amount a coinbase pays
    Fee,          \* the fee of a transfer
    NoTx,         \* the empty spent_txid
    Mint,         \* the from_address of a coinbase
    ReplayRaces,  \* may a replayed block conflict with a local transfer?
    HonestBlocks  \* is every transfer in a block one that some node's
                  \* create_transfer made?  (The replay does not look.)

Height == 0 .. MaxHeight
CoinbaseId == [miner : Address, height : Height]
Txid == Transfer \cup CoinbaseId
UtxoId == Txid \X {0, 1}

ASSUME ConstantsAssumption ==
    /\ MaxHeight \in Nat /\ MaxInputs \in Nat \ {0} /\ MaxAmount \in Nat
    /\ Reward \in Nat \ {0} /\ Fee \in Nat
    /\ ReplayRaces \in BOOLEAN /\ HonestBlocks \in BOOLEAN
    /\ NoTx \notin Txid /\ Mint \notin Address
    /\ Transfer \cap CoinbaseId = {}

VARIABLES
    utxos,         \* utxo_id -> row, for the rows that exist
    transactions   \* txid -> row, for the rows that exist

store == <<utxos, transactions>>

UtxoRow == [address : Address, amount : Nat, height : Height,
            status : {"unspent", "spent"}, spentBy : Txid \cup {NoTx}]
\* The inputs column is a list of outputs, with the amount that the
\* transaction says each holds: claimed is their sum.
TxRow == [inputs : SUBSET UtxoId, claimed : Nat, from : Address \cup {Mint},
          to : Address, amount : Nat, fee : Nat, height : Height]

-----------------------------------------------------------------------------
(* Rows and queries. *)

NewRow(a, amount, h) ==
    [address |-> a, amount |-> amount, height |-> h,
     status |-> "unspent", spentBy |-> NoTx]

IsUnspent(u) == u \in DOMAIN utxos /\ utxos[u].status = "unspent"

Unspent == {u \in DOMAIN utxos : utxos[u].status = "unspent"}

AmountOf(S) == SumFunctionOnSet([u \in S |-> utxos[u].amount], S)

\* get_total_balance: what the rows say an address owns.
Balance(a) == AmountOf({u \in Unspent : utxos[u].address = a})

CoinbaseAt(h) ==
    {u \in DOMAIN utxos : u[1] \in CoinbaseId /\ utxos[u].height = h}

\* Faulty: the rows are locked instead of spent.
SpendLocks(S, t) ==
    [u \in DOMAIN utxos |->
        IF u \in S THEN [utxos[u] EXCEPT !.status = "locked"] ELSE utxos[u]]

\* UPDATE utxos SET status = 'spent', spent_txid = t, for the rows of S.
Spend(S, t) ==
    [u \in DOMAIN utxos |->
        IF u \in S
        THEN [utxos[u] EXCEPT !.status = "spent", !.spentBy = t]
        ELSE utxos[u]]

\* Faulty: no change.
OutputsNoChange(t, from, to, amount, change, h) ==
    [u \in {<<t, 0>>} |-> NewRow(to, amount, h)]

\* The rows a transfer inserts: the recipient's, and the sender's change
\* when there is any.
Outputs(t, from, to, amount, change, h) ==
    [u \in {<<t, 0>>} \cup (IF change > 0 THEN {<<t, 1>>} ELSE {}) |->
        IF u = <<t, 0>> THEN NewRow(to, amount, h) ELSE NewRow(from, change, h)]

\* The rows of f and those of g, f's where both have one.
Insert(f, g) ==
    [x \in DOMAIN f \cup DOMAIN g |-> IF x \in DOMAIN f THEN f[x] ELSE g[x]]

-----------------------------------------------------------------------------
(* The operations. *)

Init ==
    /\ utxos = [u \in {} |-> {}]
    /\ transactions = [t \in {} |-> {}]

\* create_coinbase_utxo: INSERT OR IGNORE against the primary key and the
\* unique index on (block_height, sector).  An ignored insert changes
\* nothing: the second coinbase of a height is dropped.
CoinbaseUtxos(a, amount, h) ==
    IF CoinbaseAt(h) = {}
    THEN Insert(utxos, [u \in {<<[miner |-> a, height |-> h], 0>>} |->
                           NewRow(a, amount, h)])
    ELSE utxos

CoinbaseTransactions(a, amount, h) ==
    IF CoinbaseAt(h) = {}
    THEN Insert(transactions, [t \in {[miner |-> a, height |-> h]} |->
                    [inputs |-> {}, claimed |-> 0, from |-> Mint, to |-> a,
                     amount |-> amount, fee |-> 0, height |-> h]])
    ELSE transactions

CreateCoinbase(a, amount, h) ==
    /\ utxos' = CoinbaseUtxos(a, amount, h)
    /\ transactions' = CoinbaseTransactions(a, amount, h)

\* The writes of a transfer: mark the inputs, insert the outputs, record it.
\* The change is what the inputs are said to hold beyond amount and fee; when
\* that is nothing, or less, no row is written for it.
ApplyTransfer(t, from, to, amount, fee, claimed, S, h) ==
    /\ utxos' = Insert(Outputs(t, from, to, amount, claimed - (amount + fee), h),
                       Spend(S, t))
    /\ transactions' =
           Insert([x \in {t} |->
                      [inputs |-> S, claimed |-> claimed, from |-> from, to |-> to,
                       amount |-> amount, fee |-> fee, height |-> h]],
                  transactions)

\* S is a selection of from's rows that pays amount and the fee, and claimed
\* is what they hold.  (The greedy selection of the code is one of these.)
Covers(S, from, amount, fee, claimed) ==
    /\ \A u \in S : utxos[u].address = from
    /\ claimed = AmountOf(S) /\ claimed >= amount + fee

\* Faulty: the UPDATE does not ask for status = 'unspent'.
CommitUnchecked(t, from, to, amount, fee, claimed, S, h) ==
    /\ t \notin DOMAIN transactions
    /\ Covers(S, from, amount, fee, claimed)
    /\ ApplyTransfer(t, from, to, amount, fee, claimed, S, h)

\* create_transfer, its exclusive transaction: every UPDATE must hit an
\* unspent row, or the exception rolls everything back.
CommitTransfer(t, from, to, amount, fee, claimed, S, h) ==
    /\ t \notin DOMAIN transactions
    /\ \A u \in S : IsUnspent(u)
    /\ Covers(S, from, amount, fee, claimed)
    /\ ApplyTransfer(t, from, to, amount, fee, claimed, S, h)

\* Faulty: a replay that is not idempotent.
ReplayAgain(t, from, to, amount, fee, claimed, S, h) ==
    /\ \A u \in S : IsUnspent(u)
    /\ ApplyTransfer(t, from, to, amount, fee, claimed, S, h)

\* replay_transfer_from_block, its exclusive transaction, when the inputs
\* are free.  A recorded txid returns early.  Whose rows the inputs are, and
\* what they hold, is taken from the block and compared with nothing.
\* (Without inputs in the block the method selects from's rows itself: such
\* a step Covers.)
ReplayTransfer(t, from, to, amount, fee, claimed, S, h) ==
    /\ t \notin DOMAIN transactions
    /\ \A u \in S : IsUnspent(u)
    /\ ApplyTransfer(t, from, to, amount, fee, claimed, S, h)

\* The same when an input turns out to be taken, or not to exist: the method RETURNS from
\* inside the transaction, so the inputs it had already marked (any subset
\* of the free ones, as the conflict may sit anywhere) are committed.
ReplayConflict(t, S, marked) ==
    /\ t \notin DOMAIN transactions
    /\ \E u \in S : ~IsUnspent(u)
    /\ marked \subseteq {u \in S : IsUnspent(u)}
    /\ utxos' = Spend(marked, t)
    /\ UNCHANGED transactions

\* Faulty: the transactions of height h go too, their rows do not.
AtOrAbove(h) == {t \in DOMAIN transactions : transactions[t].height >= h}

\* rollback_to_height: free the inputs of every transaction above h, then
\* delete the rows above h from both tables.
Above(h) == {t \in DOMAIN transactions : transactions[t].height > h}

Freed(h) == UNION {transactions[t].inputs : t \in Above(h)}

RollbackTo(h) ==
    /\ utxos' =
           [u \in {v \in DOMAIN utxos : utxos[v].height <= h} |->
               IF u \in Freed(h) /\ utxos[u].status = "spent"
               THEN [utxos[u] EXCEPT !.status = "unspent", !.spentBy = NoTx]
               ELSE utxos[u]]
    /\ transactions' = [t \in DOMAIN transactions \ Above(h) |-> transactions[t]]

-----------------------------------------------------------------------------
(* The store under any caller that keeps its contract: a transfer is       *)
(* recorded at a height no lower than its inputs'.  (MiningNode has the    *)
(* threads that call the store, with its rows reduced to who spent them.)  *)

AtOrAfterInputs(S, h) == \A u \in S : utxos[u].height <= h

Selections(rows) == {S \in SUBSET rows : Cardinality(S) \in 1 .. MaxInputs}

Owned(a) == {u \in DOMAIN utxos : utxos[u].address = a}

\* What S holds, if that is enough for amount and the fee.
Enough(S, amount) == {AmountOf(S)} \cap {n \in Nat : n >= amount + Fee}

Coinbase == \E a \in Address, h \in Height : CreateCoinbase(a, Reward, h)

Pay ==
    \E t \in Transfer, from, to \in Address :
        \E S \in Selections(Owned(from)), amount \in 1 .. MaxAmount :
            \E claimed \in Enough(S, amount), h \in Height :
                /\ AtOrAfterInputs(S, h)
                /\ CommitTransfer(t, from, to, amount, Fee, claimed, S, h)

\* The replay of a transfer that some node's create_transfer made ...
Replay ==
    \E t \in Transfer, from, to \in Address :
        \E S \in Selections(Owned(from)), amount \in 1 .. MaxAmount :
            \E claimed \in Enough(S, amount), h \in Height :
                /\ AtOrAfterInputs(S, h)
                /\ ReplayTransfer(t, from, to, amount, Fee, claimed, S, h)

\* ... and of one that says what it likes: anybody's rows, any owner, any
\* amount, and any sum of the inputs.  (The fee stays the model's.)
ReplayAnything ==
    /\ ~HonestBlocks
    /\ \E t \in Transfer \ DOMAIN transactions, S \in Selections(Unspent) :
           \E h \in Height, from, to \in Address,
              amount \in 1 .. MaxAmount, claimed \in 0 .. MaxAmount + Fee :
                   /\ AtOrAfterInputs(S, h)
                   /\ ReplayTransfer(t, from, to, amount, Fee, claimed, S, h)

\* (<<t, 0>> stands for an input that the store does not have.)
ReplayHitsConflict ==
    /\ ReplayRaces
    /\ \E t \in Transfer :
           \E S \in Selections(DOMAIN utxos \cup {<<t, 0>>}) :
               \E marked \in SUBSET S : ReplayConflict(t, S, marked)

Rollback == \E h \in Height : RollbackTo(h)

Next ==
    \/ Coinbase \/ Pay \/ Replay \/ ReplayAnything \/ ReplayHitsConflict
    \/ Rollback

Spec == Init /\ [][Next]_store

-----------------------------------------------------------------------------
(* Properties. *)

\* Type correctness of the two tables.
TypeOK ==
    /\ DOMAIN utxos \subseteq UtxoId
    /\ \A u \in DOMAIN utxos : utxos[u] \in UtxoRow
    /\ DOMAIN transactions \subseteq Txid
    /\ \A t \in DOMAIN transactions : transactions[t] \in TxRow

\* No double spend: two recorded transactions never share an input, whatever
\* mix of transfers, replays and rollbacks produced them (the guard of the
\* UPDATE ... AND status = 'unspent' under BEGIN EXCLUSIVE).
NoDoubleSpend ==
    \A s, t \in DOMAIN transactions :
        s # t => transactions[s].inputs \cap transactions[t].inputs = {}

\* Every unit can be traced: each input of a recorded transaction still has
\* its row, marked as spent by that transaction, and each row was created by
\* a transaction that is on record at the same height.  A rollback must cut
\* both tables consistently for this.
Traceable ==
    /\ \A t \in DOMAIN transactions :
           \A u \in transactions[t].inputs :
               /\ u \in DOMAIN utxos
               /\ utxos[u].status = "spent" /\ utxos[u].spentBy = t
    /\ \A u \in DOMAIN utxos :
           /\ u[1] \in DOMAIN transactions
           /\ utxos[u].height = transactions[u[1]].height

\* The inputs of a recorded transaction are never younger than it.  (Not a
\* promise of the code by itself: the callers' contract, carried along as
\* the part of the inductive invariant that a rollback needs.)
InputsOlder ==
    \A t \in DOMAIN transactions :
        \A u \in transactions[t].inputs :
            u \in DOMAIN utxos => utxos[u].height <= transactions[t].height

\* Rows marked as spent that no recorded transaction took as an input: the
\* loss that a replay which stops half way leaves behind.
Stranded ==
    {u \in DOMAIN utxos :
        /\ utxos[u].status = "spent"
        /\ \A t \in DOMAIN transactions : u \notin transactions[t].inputs}

FeesPaid ==
    SumFunctionOnSet([t \in DOMAIN transactions |-> transactions[t].fee],
                     DOMAIN transactions)

\* What a transfer says that its inputs hold, or what it pays out if that is
\* more; and how much more that is than they do hold: nothing, if a
\* create_transfer made it.
Stated(t) ==
    LET r == transactions[t]
    IN  IF r.claimed >= r.amount + r.fee THEN r.claimed ELSE r.amount + r.fee

Overstated(t) == Stated(t) - AmountOf(transactions[t].inputs)

Spends == DOMAIN transactions \cap Transfer

Misstated == SumFunctionOnSet([t \in Spends |-> Overstated(t)], Spends)

\* Money is neither created nor destroyed, except by what blocks say: what
\* is unspent, what went to fees and what is stranded add up to what the
\* coinbases on record paid and what the transfers on record misstate, which
\* is nothing as long as each was made by a create_transfer.
Conservation ==
    /\ AmountOf(Unspent) + AmountOf(Stranded) + FeesPaid
           = AmountOf({u \in DOMAIN utxos : u[1] \in CoinbaseId}) + Misstated
    /\ HonestBlocks => Misstated = 0
=============================================================================
