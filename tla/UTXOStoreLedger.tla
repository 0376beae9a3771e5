-------------------------- MODULE UTXOStoreLedger --------------------------
(***************************************************************************)
(* UTXOStore implements AccountLedger: the entries are the transactions    *)
(* table without its inputs, and a balance is the sum of an address's      *)
(* unspent rows (get_total_balance).                                       *)
(***************************************************************************)
EXTENDS UTXOStore

Ledger == INSTANCE AccountLedger WITH
    Owner <- Address,
    EntryId <- Txid,
    entries <- [t \in DOMAIN transactions |->
                   [from |-> transactions[t].from, to |-> transactions[t].to,
                    amount |-> transactions[t].amount, fee |-> transactions[t].fee,
                    height |-> transactions[t].height]],
    balance <- [a \in Address |-> Balance(a)]

\* The rows of the two tables never disagree about what an address owns:
\* every database transaction is a minting, an affordable payment, an
\* undoing, or invisible, to someone who reads balances only.
ImplementsLedger == Ledger!Spec
=============================================================================
