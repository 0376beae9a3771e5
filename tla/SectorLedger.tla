---------------------------- MODULE SectorLedger ----------------------------
(***************************************************************************)
(* The ledger of one sector coin (core/sector_coin.py): the balances with  *)
(* their locked part, and the log of mints, transfers and burns.  Every    *)
(* operation is one transaction under the ledger's lock.                   *)
(*                                                                         *)
(* Of the log, each mint is kept with its height; transfers and burns,     *)
(* which have none and are never deleted, are kept as sums.  A transfer    *)
(* copied from the UTXO store changes balances and leaves no record.       *)
(***************************************************************************)
EXTENDS Integers, FiniteSets, FiniteSetsExt, Functions

CONSTANTS
    Address,
    MaxHeight,    \* bound on block heights
    MaxSupply,    \* the cap of the sector
    Reward,       \* what the block of a height mints
    Moves         \* bound on transfers, direct burns and rollbacks

ASSUME SectorLedgerAssumption ==
    /\ Address # {} /\ MaxHeight \in Nat /\ MaxSupply \in Nat
    /\ Reward \in [1 .. MaxHeight -> Nat] /\ Moves \in Nat

VARIABLES
    balance, locked,  \* the balances table
    mints,            \* MINT records: what each block minted, and to whom
    moved, burned,    \* TRANSFER and BURN records of each address, summed
    synced,           \* history: what transfers without a record have moved
    rolled,           \* history: a rollback has deleted a mint
    moves

ledger == <<balance, locked, mints, moved, burned, synced, rolled, moves>>

Mint == [to : Address, height : 1 .. MaxHeight, amount : Nat]
Amounts(ms) == SumFunctionOnSet([r \in ms |-> r.amount], ms)
MintsOf(a) == {r \in mints : r.to = a}

LedgerInit ==
    /\ balance = [a \in Address |-> 0] /\ locked = [a \in Address |-> 0]
    /\ mints = {} /\ moved = [a \in Address |-> 0] /\ burned = [a \in Address |-> 0]
    /\ synced = [a \in Address |-> 0] /\ rolled = FALSE /\ moves = 0

\* What can be spent or locked.
Available(a) == balance[a] - locked[a]

Pay(a, b, n) == [balance EXCEPT ![a] = @ - n, ![b] = @ + n]
Shift(f, a, b, n) == [f EXCEPT ![a] = @ - n, ![b] = @ + n]

Move == moves < Moves /\ moves' = moves + 1

\* mint_block_reward: once per height and miner, cut off at the cap.
MintBlockReward(a, h) ==
    LET n == Min({Reward[h], MaxSupply - Amounts(mints)}) IN
    /\ n > 0 /\ \A r \in MintsOf(a) : r.height # h
    /\ mints' = mints \cup {[to |-> a, height |-> h, amount |-> n]}
    /\ balance' = [balance EXCEPT ![a] = @ + n]
    /\ UNCHANGED <<locked, moved, burned, synced, rolled, moves>>

\* transfer, signed by the sender.
Transfer(a, b, n) ==
    /\ Move /\ Available(a) >= n
    /\ balance' = Pay(a, b, n)
    /\ moved' = Shift(moved, a, b, n)
    /\ UNCHANGED <<locked, mints, burned, synced, rolled>>

\* sync_transfer_from_utxo: the locked part is not looked at.
SyncTransferFromUtxo(a, b, n) ==
    /\ Move /\ balance[a] >= n
    /\ balance' = Pay(a, b, n)
    /\ synced' = Shift(synced, a, b, n)
    /\ UNCHANGED <<locked, mints, moved, burned, rolled>>

\* exchange_to_main burns what is not locked.
ExchangeToMain(a, n) ==
    /\ Move /\ Available(a) >= n
    /\ balance' = [balance EXCEPT ![a] = @ - n]
    /\ burned' = [burned EXCEPT ![a] = @ + n]
    /\ UNCHANGED <<locked, mints, moved, synced, rolled>>

\* lock_for_exchange.
LockForExchange(a, n) ==
    /\ Available(a) >= n
    /\ locked' = [locked EXCEPT ![a] = @ + n]
    /\ UNCHANGED <<balance, mints, moved, burned, synced, rolled, moves>>

\* Faulty: the balance is not looked at.
CanBurnLocked(a, n) == locked[a] >= n
\* burn_for_exchange: it looks at the locked part and at the balance.
CanBurn(a, n) == locked[a] >= n /\ balance[a] >= n
\* Faulty: the burn leaves no record.
BurnUnrecorded(a, n) ==
    /\ CanBurn(a, n)
    /\ balance' = [balance EXCEPT ![a] = @ - n] /\ locked' = [locked EXCEPT ![a] = @ - n]
    /\ UNCHANGED <<mints, moved, burned, synced, rolled, moves>>
BurnForExchange(a, n) ==
    /\ CanBurn(a, n)
    /\ balance' = [balance EXCEPT ![a] = @ - n]
    /\ locked' = [locked EXCEPT ![a] = @ - n]
    /\ burned' = [burned EXCEPT ![a] = @ + n]
    /\ UNCHANGED <<mints, moved, synced, rolled, moves>>

\* Faulty: a row is written back without its locked part.
LocksDropped(hit) == locked' = [a \in Address |-> IF a \in hit THEN 0 ELSE locked[a]]
LocksKept(hit) == UNCHANGED locked

\* rollback_to_height: the mints above h are deleted, and the balance of
\* their receivers is what the log then says, but never below zero.
RollbackToHeight(h) ==
    LET gone == {r \in mints : r.height > h}
        hit == {r.to : r \in gone}
        logged(a) == Amounts(MintsOf(a) \ gone) + moved[a] - burned[a] IN
    /\ Move /\ gone # {}
    /\ mints' = mints \ gone /\ rolled' = TRUE
    /\ balance' = [a \in Address |-> IF a \in hit THEN Max({0, logged(a)}) ELSE balance[a]]
    /\ LocksKept(hit)
    /\ UNCHANGED <<moved, burned, synced>>

\* What the miners, the wallets and a reorganisation do to the ledger.
LedgerNext ==
    \/ \E a \in Address, h \in 1 .. MaxHeight : MintBlockReward(a, h)
    \/ \E a, b \in Address, n \in 1 .. MaxSupply :
           a # b /\ (Transfer(a, b, n) \/ SyncTransferFromUtxo(a, b, n))
    \/ \E a \in Address, n \in 1 .. MaxSupply : ExchangeToMain(a, n)
    \/ \E h \in 0 .. MaxHeight : RollbackToHeight(h)

-----------------------------------------------------------------------------
(* Properties. *)

LedgerTypeOK ==
    /\ balance \in [Address -> Nat] /\ locked \in [Address -> Nat]
    /\ mints \subseteq Mint /\ burned \in [Address -> Nat]
    /\ moved \in [Address -> Int] /\ synced \in [Address -> Int]
    /\ rolled \in BOOLEAN /\ moves \in 0 .. Moves

\* Until a rollback, a balance is what the log says, but for the transfers
\* copied from the UTXO store, which the log does not have: no lock, burn or
\* failed exchange makes or loses coins (_update_balance and its callers).
LogExplains ==
    ~rolled => \A a \in Address : balance[a] = Amounts(MintsOf(a)) + moved[a] + synced[a] - burned[a]
=============================================================================
