--------------------------- MODULE MainCoin_proofs ---------------------------
(***************************************************************************)
(* TLAPS proofs about the MAIN coin: the UTXO store that holds it          *)
(* (UTXOStore), the book of accounts that the store implements             *)
(* (AccountLedger, under UTXOStoreLedger's mapping), and the engine that   *)
(* asks witnesses before it moves coin in the store (MainTransfer).  They  *)
(* hold for every set of addresses, transfers, sectors and callers, and    *)
(* for every bound on heights, inputs and failures.                        *)
(***************************************************************************)
EXTENDS UTXOStoreLedger, MainTransfer, SumTheorems

(***************************************************************************)
(*                             THE UTXO STORE                              *)
(*                                                                         *)
(* The invariant.  NoDoubleSpend is not inductive: that two transactions   *)
(* share no input follows from each input row naming its one spender, so   *)
(* Traceable carries the argument.  A rollback keeps Traceable only if the *)
(* rows it deletes are no inputs of what it keeps, which is InputsOlder.   *)
(* A coinbase keeps it because its txid determines its height.             *)
(***************************************************************************)
CoinbaseHeights ==
    \A t \in DOMAIN transactions \cap CoinbaseId :
        transactions[t].height = t.height

IInv == TypeOK /\ Traceable /\ InputsOlder /\ CoinbaseHeights

-----------------------------------------------------------------------------
(* What the writes of a transfer do to the two tables. *)

\* Old rows keep their place, the inputs S name the transfer t, and every
\* other row is an output of it at height h.
RowsAfter(t, S, h) ==
    /\ DOMAIN utxos \subseteq DOMAIN utxos'
    /\ \A u \in DOMAIN utxos \ S : utxos'[u] = utxos[u]
    /\ \A u \in S : utxos'[u] =
           [utxos[u] EXCEPT !.status = "spent", !.spentBy = t]
    /\ \A u \in DOMAIN utxos' \ DOMAIN utxos :
           /\ u \in UtxoId /\ u[1] = t
           /\ utxos'[u] \in UtxoRow /\ utxos'[u].height = h

\* The rows after a transfer.
LEMMA TransferRows ==
    ASSUME IInv,
           NEW t \in Transfer, t \notin DOMAIN transactions,
           NEW from \in Address, NEW to \in Address,
           NEW amount \in Nat, NEW fee \in Nat, NEW claimed \in Nat,
           NEW S \in SUBSET DOMAIN utxos, NEW h \in Height,
           ApplyTransfer(t, from, to, amount, fee, claimed, S, h)
    PROVE  RowsAfter(t, S, h)
<1> DEFINE change == claimed - (amount + fee)
           new == Outputs(t, from, to, amount, change, h)
           old == Spend(S, t)
<1>1. utxos' = Insert(new, old)
  BY DEF ApplyTransfer
<1>2. \A u \in DOMAIN new : u \in {<<t, 0>>, <<t, 1>>} /\ new[u].height = h
  BY DEF Outputs, NewRow
<1>3. \A u \in DOMAIN new : u \in UtxoId /\ u[1] = t
  BY <1>2 DEF UtxoId, Txid
<1>4. \A u \in DOMAIN new : new[u] \in UtxoRow
  BY DEF Outputs, NewRow, UtxoRow
<1>5. DOMAIN old = DOMAIN utxos
  BY DEF Spend
<1>6. DOMAIN new \cap DOMAIN utxos = {}
  BY <1>3 DEF IInv, Traceable
<1>7. DOMAIN utxos' = DOMAIN new \cup DOMAIN utxos
  BY <1>1, <1>5 DEF Insert
<1>8. \A u \in DOMAIN utxos : utxos'[u] = old[u]
  BY <1>1, <1>5, <1>6 DEF Insert
<1>9. \A u \in DOMAIN new : utxos'[u] = new[u]
  BY <1>1 DEF Insert
<1> HIDE DEF new
<1>10. \A u \in DOMAIN utxos \ S : old[u] = utxos[u]
  BY DEF Spend
<1>11. \A u \in S : old[u] = [utxos[u] EXCEPT !.status = "spent", !.spentBy = t]
  BY DEF Spend
<1> QED
  BY <1>2, <1>3, <1>4, <1>7, <1>8, <1>9, <1>10, <1>11 DEF RowsAfter

\* The transactions after a transfer: one more, and the others as before.
LEMMA TransferRecord ==
    ASSUME NEW t, t \notin DOMAIN transactions,
           NEW from, NEW to, NEW amount, NEW fee, NEW claimed, NEW S, NEW h,
           ApplyTransfer(t, from, to, amount, fee, claimed, S, h)
    PROVE  /\ DOMAIN transactions' = DOMAIN transactions \cup {t}
           /\ \A x \in DOMAIN transactions : transactions'[x] = transactions[x]
           /\ transactions'[t] = [inputs |-> S, claimed |-> claimed, from |-> from, to |-> to,
                                  amount |-> amount, fee |-> fee, height |-> h]
BY DEF ApplyTransfer, Insert

\* A transfer of free rows, recorded no lower than they are, keeps IInv.
LEMMA TransferKeepsIInv ==
    ASSUME IInv,
           NEW t \in Transfer, t \notin DOMAIN transactions,
           NEW from \in Address, NEW to \in Address,
           NEW amount \in Nat, NEW fee \in Nat, NEW claimed \in Nat,
           NEW S \in SUBSET DOMAIN utxos, NEW h \in Height,
           \A u \in S : IsUnspent(u),
           AtOrAfterInputs(S, h),
           ApplyTransfer(t, from, to, amount, fee, claimed, S, h)
    PROVE  IInv'
<1> DEFINE tx == [inputs |-> S, claimed |-> claimed, from |-> from, to |-> to,
                  amount |-> amount, fee |-> fee, height |-> h]
<1>0. RowsAfter(t, S, h)
  BY TransferRows
<1>1. /\ DOMAIN utxos \subseteq DOMAIN utxos'
      /\ \A u \in DOMAIN utxos \ S : utxos'[u] = utxos[u]
      /\ \A u \in S : utxos'[u] =
             [utxos[u] EXCEPT !.status = "spent", !.spentBy = t]
      /\ \A u \in DOMAIN utxos' \ DOMAIN utxos :
             /\ u \in UtxoId /\ u[1] = t
             /\ utxos'[u] \in UtxoRow /\ utxos'[u].height = h
  BY <1>0 DEF RowsAfter
<1>2. /\ DOMAIN transactions' = DOMAIN transactions \cup {t}
      /\ \A x \in DOMAIN transactions : transactions'[x] = transactions[x]
      /\ transactions'[t] = tx
  BY TransferRecord
<1>3. \A u \in DOMAIN utxos : utxos[u] \in UtxoRow
  BY DEF IInv, TypeOK
<1>4. ASSUME NEW u \in S
      PROVE  /\ utxos'[u] \in UtxoRow
             /\ utxos'[u].height = utxos[u].height
             /\ utxos'[u].status = "spent" /\ utxos'[u].spentBy = t
  <2>1. utxos[u] \in UtxoRow /\ t \in Txid
    BY <1>3 DEF Txid
  <2>2. utxos'[u] = [utxos[u] EXCEPT !.status = "spent", !.spentBy = t]
    BY <1>1
  <2> QED
    BY <2>1, <2>2 DEF UtxoRow
<1>5. tx \in TxRow
  BY ConstantsAssumption DEF IInv, TypeOK, TxRow
<1>6. TypeOK'
  BY <1>1, <1>2, <1>3, <1>4, <1>5 DEF IInv, TypeOK, Txid
<1>7. ASSUME NEW x \in DOMAIN transactions, NEW u \in transactions[x].inputs
      PROVE  /\ u \in DOMAIN utxos' /\ utxos'[u] = utxos[u]
             /\ utxos[u].status = "spent" /\ utxos[u].spentBy = x
             /\ utxos[u].height <= transactions[x].height
  <2>1. u \in DOMAIN utxos /\ utxos[u].status = "spent" /\ utxos[u].spentBy = x
    BY DEF IInv, Traceable
  <2>2. u \notin S
    BY <2>1 DEF IsUnspent
  <2>3. u \in DOMAIN utxos' /\ utxos'[u] = utxos[u]
    BY <1>1, <2>1, <2>2
  <2>4. utxos[u].height <= transactions[x].height
    BY <2>1 DEF IInv, InputsOlder
  <2> QED
    BY <2>1, <2>3, <2>4
<1>8. Traceable'
  <2>1. \A x \in DOMAIN transactions' : \A u \in transactions'[x].inputs :
            /\ u \in DOMAIN utxos'
            /\ utxos'[u].status = "spent" /\ utxos'[u].spentBy = x
    <3> TAKE x \in DOMAIN transactions'
    <3>1. CASE x = t
      <4>1. transactions'[x].inputs = S
        BY <1>2, <3>1
      <4> QED
        BY <1>1, <1>4, <3>1, <4>1
    <3>2. CASE x \in DOMAIN transactions
      <4>1. transactions'[x].inputs = transactions[x].inputs
        BY <1>2, <3>2
      <4> QED
        BY <1>7, <3>2, <4>1
    <3> QED
      BY <1>2, <3>1, <3>2
  <2>2. \A u \in DOMAIN utxos : utxos'[u].height = utxos[u].height
    BY <1>1, <1>4
  <2>3. \A u \in DOMAIN utxos' : /\ u[1] \in DOMAIN transactions'
                                 /\ utxos'[u].height = transactions'[u[1]].height
    <3> TAKE u \in DOMAIN utxos'
    <3>1. CASE u \in DOMAIN utxos
      BY <1>2, <2>2, <3>1 DEF IInv, Traceable
    <3>2. CASE u \notin DOMAIN utxos
      <4>1. u[1] = t /\ utxos'[u].height = h
        BY <1>1, <3>2
      <4>2. t \in DOMAIN transactions' /\ transactions'[t].height = h
        BY <1>2
      <4> QED
        BY <4>1, <4>2
    <3> QED
      BY <3>1, <3>2
  <2> QED
    BY <2>1, <2>3 DEF Traceable
<1>9. InputsOlder'
  <2>1. \A u \in S : utxos'[u].height <= h
    BY <1>4 DEF AtOrAfterInputs
  <2> QED
    BY <1>2, <1>7, <2>1 DEF InputsOlder
<1>10. CoinbaseHeights'
  BY <1>2, ConstantsAssumption DEF IInv, CoinbaseHeights
<1> QED
  BY <1>6, <1>8, <1>9, <1>10 DEF IInv

\* A coinbase that is inserted keeps IInv.
LEMMA CoinbaseKeepsIInv ==
    ASSUME IInv, NEW a \in Address, NEW h \in Height, NEW amount \in Nat,
           CreateCoinbase(a, amount, h)
    PROVE  IInv'
<1> DEFINE id == [miner |-> a, height |-> h]
           out == <<id, 0>>
           row == NewRow(a, amount, h)
           tx == [inputs |-> {}, claimed |-> 0, from |-> Mint, to |-> a, amount |-> amount,
                  fee |-> 0, height |-> h]
<1>1. CASE CoinbaseAt(h) # {}
  <2>1. UNCHANGED store
    BY <1>1 DEF CreateCoinbase, CoinbaseUtxos, CoinbaseTransactions, store
  <2> QED
    BY <2>1 DEF IInv, TypeOK, Traceable, InputsOlder, CoinbaseHeights, store
<1>2. CASE CoinbaseAt(h) = {}
  <2>1. id \in CoinbaseId /\ id \in Txid /\ id.height = h
    BY DEF CoinbaseId, Txid
  <2>2. out \in UtxoId /\ out[1] = id
    BY <2>1 DEF UtxoId
  <2>3. row \in UtxoRow /\ row.height = h
    BY DEF NewRow, UtxoRow
  <2>4. tx \in TxRow /\ tx.inputs = {} /\ tx.height = h
    BY DEF TxRow
  <2>5. /\ DOMAIN utxos' = DOMAIN utxos \cup {out}
        /\ \A u \in DOMAIN utxos : utxos'[u] = utxos[u]
        /\ out \notin DOMAIN utxos => utxos'[out] = row
    BY <1>2 DEF CreateCoinbase, CoinbaseUtxos, Insert
  <2>6. /\ DOMAIN transactions' = DOMAIN transactions \cup {id}
        /\ \A t \in DOMAIN transactions : transactions'[t] = transactions[t]
        /\ id \notin DOMAIN transactions => transactions'[id] = tx
    BY <1>2 DEF CreateCoinbase, CoinbaseTransactions, Insert
  <2> HIDE DEF id, out, row, tx
  <2>7. TypeOK'
    BY <2>1, <2>2, <2>3, <2>4, <2>5, <2>6 DEF IInv, TypeOK
  <2>8. transactions'[id].height = h
    BY <2>1, <2>4, <2>6 DEF IInv, CoinbaseHeights
  <2>9. Traceable'
    <3>1. \A t \in DOMAIN transactions' : \A u \in transactions'[t].inputs :
              t \in DOMAIN transactions /\ u \in transactions[t].inputs
      BY <2>4, <2>6
    <3>2. \A t \in DOMAIN transactions' : \A u \in transactions'[t].inputs :
              /\ u \in DOMAIN utxos'
              /\ utxos'[u].status = "spent" /\ utxos'[u].spentBy = t
      BY <2>5, <3>1 DEF IInv, Traceable
    <3>3. \A u \in DOMAIN utxos' : /\ u[1] \in DOMAIN transactions'
                                   /\ utxos'[u].height = transactions'[u[1]].height
      BY <2>2, <2>3, <2>5, <2>6, <2>8 DEF IInv, Traceable
    <3> QED
      BY <3>2, <3>3 DEF Traceable
  <2>10. InputsOlder'
    BY <2>4, <2>5, <2>6 DEF IInv, InputsOlder, Traceable
  <2>11. CoinbaseHeights'
    BY <2>1, <2>6, <2>8 DEF IInv, CoinbaseHeights
  <2> QED
    BY <2>7, <2>9, <2>10, <2>11 DEF IInv
<1> QED
  BY <1>1, <1>2

\* A replay that stops half way marks free rows only, so it keeps IInv: it
\* strands money, but breaks no record.
LEMMA ConflictKeepsIInv ==
    ASSUME IInv, NEW t \in Transfer, NEW S, NEW marked,
           ReplayConflict(t, S, marked)
    PROVE  IInv'
<1>1. /\ DOMAIN utxos' = DOMAIN utxos
      /\ \A u \in DOMAIN utxos \ marked : utxos'[u] = utxos[u]
      /\ \A u \in DOMAIN utxos \cap marked :
             utxos'[u] = [utxos[u] EXCEPT !.status = "spent", !.spentBy = t]
  BY DEF ReplayConflict, Spend
<1>2. \A u \in DOMAIN utxos : /\ utxos[u] \in UtxoRow
                             /\ utxos'[u] \in UtxoRow
                             /\ utxos'[u].height = utxos[u].height
  <2> TAKE u \in DOMAIN utxos
  <2>1. utxos[u] \in UtxoRow /\ t \in Txid
    BY DEF IInv, TypeOK, Txid
  <2>2. CASE u \in marked
    <3>1. utxos'[u] = [utxos[u] EXCEPT !.status = "spent", !.spentBy = t]
      BY <1>1, <2>2
    <3> QED
      BY <2>1, <3>1 DEF UtxoRow
  <2>3. CASE u \notin marked
    BY <1>1, <2>1, <2>3
  <2> QED
    BY <2>2, <2>3
<1>3. \A u \in marked : IsUnspent(u)
  BY DEF ReplayConflict
<1>4. \A x \in DOMAIN transactions : \A u \in transactions[x].inputs :
          u \in DOMAIN utxos' /\ utxos'[u] = utxos[u]
  BY <1>1, <1>3 DEF IInv, Traceable, IsUnspent
<1>5. transactions' = transactions
  BY DEF ReplayConflict
<1>6. TypeOK'
  BY <1>1, <1>2, <1>5 DEF IInv, TypeOK
<1>7. Traceable'
  <2>1. \A x \in DOMAIN transactions' : \A u \in transactions'[x].inputs :
            /\ u \in DOMAIN utxos'
            /\ utxos'[u].status = "spent" /\ utxos'[u].spentBy = x
    BY <1>4, <1>5 DEF IInv, Traceable
  <2>2. \A u \in DOMAIN utxos' : /\ u[1] \in DOMAIN transactions'
                                 /\ utxos'[u].height = transactions'[u[1]].height
    BY <1>1, <1>2, <1>5 DEF IInv, Traceable
  <2> QED
    BY <2>1, <2>2 DEF Traceable
<1>8. InputsOlder'
  BY <1>1, <1>2, <1>5 DEF IInv, InputsOlder
<1>9. CoinbaseHeights'
  BY <1>5 DEF IInv, CoinbaseHeights
<1> QED
  BY <1>6, <1>7, <1>8, <1>9 DEF IInv

\* A rollback keeps IInv: it deletes no input of a transaction it keeps, and
\* frees none either.
LEMMA RollbackKeepsIInv ==
    ASSUME IInv, NEW h \in Height, RollbackTo(h)
    PROVE  IInv'
<1>1. /\ DOMAIN transactions' = DOMAIN transactions \ Above(h)
      /\ \A t \in DOMAIN transactions' :
             /\ t \in DOMAIN transactions
             /\ transactions'[t] = transactions[t]
             /\ ~(transactions[t].height > h)
  BY DEF RollbackTo, Above
<1>2. /\ DOMAIN utxos' = {v \in DOMAIN utxos : utxos[v].height <= h}
      /\ \A u \in DOMAIN utxos' \ Freed(h) : utxos'[u] = utxos[u]
      /\ \A u \in DOMAIN utxos' :
             \/ utxos'[u] = utxos[u]
             \/ utxos'[u] = [utxos[u] EXCEPT !.status = "unspent", !.spentBy = NoTx]
  BY DEF RollbackTo
<1>3. \A u \in DOMAIN utxos' : /\ utxos'[u] \in UtxoRow
                              /\ utxos'[u].height = utxos[u].height
  <2> TAKE u \in DOMAIN utxos'
  <2>1. utxos[u] \in UtxoRow
    BY <1>2 DEF IInv, TypeOK
  <2> QED
    BY <1>2, <2>1 DEF UtxoRow
<1>4. \A t \in DOMAIN transactions : transactions[t].height \in Nat
  BY ConstantsAssumption DEF IInv, TypeOK, TxRow, Height
<1>5. \A u \in DOMAIN utxos : utxos[u].height \in Nat
  BY ConstantsAssumption DEF IInv, TypeOK, UtxoRow, Height
<1>6. h \in Nat
  BY ConstantsAssumption DEF Height
<1>7. ASSUME NEW t \in DOMAIN transactions', NEW u \in transactions'[t].inputs
      PROVE  u \in DOMAIN utxos' /\ utxos'[u] = utxos[u]
  <2>1. /\ t \in DOMAIN transactions /\ u \in transactions[t].inputs
        /\ transactions[t].height <= h /\ t \notin Above(h)
    BY <1>1, <1>4, <1>6
  <2>2. u \in DOMAIN utxos /\ utxos[u].spentBy = t
    BY <2>1 DEF IInv, Traceable
  <2>3. utxos[u].height <= h
    BY <1>4, <1>5, <1>6, <2>1, <2>2 DEF IInv, InputsOlder
  <2>4. u \notin Freed(h)
    <3> SUFFICES ASSUME NEW x \in Above(h), u \in transactions[x].inputs
                 PROVE  FALSE
      BY DEF Freed
    <3>1. utxos[u].spentBy = x
      BY DEF Above, IInv, Traceable
    <3> QED
      BY <2>1, <2>2, <3>1
  <2> QED
    BY <1>2, <2>2, <2>3, <2>4
<1>8. TypeOK'
  BY <1>1, <1>2, <1>3 DEF IInv, TypeOK
<1>9. Traceable'
  <2>1. \A t \in DOMAIN transactions' : \A u \in transactions'[t].inputs :
            /\ u \in DOMAIN utxos'
            /\ utxos'[u].status = "spent" /\ utxos'[u].spentBy = t
    BY <1>1, <1>7 DEF IInv, Traceable
  <2>2. \A u \in DOMAIN utxos' :
            /\ u[1] \in DOMAIN transactions'
            /\ utxos'[u].height = transactions'[u[1]].height
    <3> TAKE u \in DOMAIN utxos'
    <3>1. /\ u \in DOMAIN utxos /\ utxos[u].height <= h
          /\ utxos'[u].height = utxos[u].height
      BY <1>2, <1>3
    <3>2. /\ u[1] \in DOMAIN transactions
          /\ utxos[u].height = transactions[u[1]].height
      BY <3>1 DEF IInv, Traceable
    <3>3. u[1] \notin Above(h)
      BY <1>5, <1>6, <3>1, <3>2 DEF Above
    <3> QED
      BY <1>1, <3>1, <3>2, <3>3
  <2> QED
    BY <2>1, <2>2 DEF Traceable
<1>10. InputsOlder'
  BY <1>1, <1>7 DEF IInv, InputsOlder, Traceable
<1>11. CoinbaseHeights'
  BY <1>1 DEF IInv, CoinbaseHeights
<1> QED
  BY <1>8, <1>9, <1>10, <1>11 DEF IInv

-----------------------------------------------------------------------------
(* The invariant holds. *)

\* A transfer recorded by whichever of the operations.
Moved(t, from, to, amount, fee, claimed, S, h) ==
    /\ t \in Transfer /\ t \notin DOMAIN transactions
    /\ from \in Address /\ to \in Address
    /\ amount \in Nat /\ fee \in Nat /\ claimed \in Nat
    /\ S \in SUBSET DOMAIN utxos /\ h \in Height
    /\ \A u \in S : IsUnspent(u)
    /\ AtOrAfterInputs(S, h)
    /\ HonestBlocks => Covers(S, from, amount, fee, claimed)
    /\ ApplyTransfer(t, from, to, amount, fee, claimed, S, h)

LEMMA EveryTransfer ==
    ASSUME Pay \/ Replay \/ ReplayAnything
    PROVE  \E t, from, to, amount, fee, claimed, S, h :
               Moved(t, from, to, amount, fee, claimed, S, h)
<1>0. Fee \in Nat /\ MaxAmount \in Nat
  BY ConstantsAssumption
<1>1. CASE Pay
  <2>1. PICK t \in Transfer, from, to \in Address :
            \E S \in Selections(Owned(from)), amount \in 1 .. MaxAmount :
                \E claimed \in Enough(S, amount), h \in Height :
                    /\ AtOrAfterInputs(S, h)
                    /\ CommitTransfer(t, from, to, amount, Fee, claimed, S, h)
    BY <1>1 DEF Pay
  <2>2. PICK S \in Selections(Owned(from)), amount \in 1 .. MaxAmount :
            \E claimed \in Enough(S, amount), h \in Height :
                /\ AtOrAfterInputs(S, h)
                /\ CommitTransfer(t, from, to, amount, Fee, claimed, S, h)
    BY <2>1
  <2>3. PICK claimed \in Enough(S, amount), h \in Height :
            /\ AtOrAfterInputs(S, h)
            /\ CommitTransfer(t, from, to, amount, Fee, claimed, S, h)
    BY <2>2
  <2>4. S \in SUBSET DOMAIN utxos /\ amount \in Nat /\ claimed \in Nat
    BY DEF Selections, Owned, Enough
  <2>5. Moved(t, from, to, amount, Fee, claimed, S, h)
    BY <1>0, <2>3, <2>4 DEF CommitTransfer, Moved
  <2> QED
    BY <2>5
<1>2. CASE Replay
  <2>1. PICK t \in Transfer, from, to \in Address :
            \E S \in Selections(Owned(from)), amount \in 1 .. MaxAmount :
                \E claimed \in Enough(S, amount), h \in Height :
                    /\ AtOrAfterInputs(S, h)
                    /\ ReplayTransfer(t, from, to, amount, Fee, claimed, S, h)
    BY <1>2 DEF Replay
  <2>2. PICK S \in Selections(Owned(from)), amount \in 1 .. MaxAmount :
            \E claimed \in Enough(S, amount), h \in Height :
                /\ AtOrAfterInputs(S, h)
                /\ ReplayTransfer(t, from, to, amount, Fee, claimed, S, h)
    BY <2>1
  <2>3. PICK claimed \in Enough(S, amount), h \in Height :
            /\ AtOrAfterInputs(S, h)
            /\ ReplayTransfer(t, from, to, amount, Fee, claimed, S, h)
    BY <2>2
  <2>4. S \in SUBSET DOMAIN utxos /\ amount \in Nat /\ claimed \in Nat
    BY DEF Selections, Owned, Enough
  <2>5. \A u \in S : utxos[u].address = from
    BY DEF Selections, Owned
  <2>6. claimed = AmountOf(S) /\ claimed >= amount + Fee
    BY DEF Enough
  <2>7. Moved(t, from, to, amount, Fee, claimed, S, h)
    BY <1>0, <2>3, <2>4, <2>5, <2>6 DEF ReplayTransfer, Covers, Moved
  <2> QED
    BY <2>7
<1>3. CASE ReplayAnything
  <2>1. PICK t \in Transfer \ DOMAIN transactions, S \in Selections(Unspent) :
            \E h \in Height, from, to \in Address,
               amount \in 1 .. MaxAmount, claimed \in 0 .. MaxAmount + Fee :
                    /\ AtOrAfterInputs(S, h)
                    /\ ReplayTransfer(t, from, to, amount, Fee, claimed, S, h)
    BY <1>3 DEF ReplayAnything
  <2>2. PICK h \in Height, from \in Address, to \in Address,
             amount \in 1 .. MaxAmount, claimed \in 0 .. MaxAmount + Fee :
            /\ AtOrAfterInputs(S, h)
            /\ ReplayTransfer(t, from, to, amount, Fee, claimed, S, h)
    BY <2>1
  <2>3. S \in SUBSET DOMAIN utxos /\ amount \in Nat /\ claimed \in Nat
    BY <1>0 DEF Selections, Unspent
  <2>4. ~HonestBlocks
    BY <1>3 DEF ReplayAnything
  <2>5. Moved(t, from, to, amount, Fee, claimed, S, h)
    BY <1>0, <2>2, <2>3, <2>4 DEF ReplayTransfer, Moved
  <2> QED
    BY <2>5
<1> QED
  BY <1>1, <1>2, <1>3

LEMMA InitIInv == Init => IInv
BY DEF Init, IInv, TypeOK, Traceable, InputsOlder, CoinbaseHeights

LEMMA NextKeepsIInv == IInv /\ [Next]_store => IInv'
<1> SUFFICES ASSUME IInv, [Next]_store
             PROVE  IInv'
  OBVIOUS
<1>1. CASE Coinbase
  <2>1. PICK a \in Address, h \in Height : CreateCoinbase(a, Reward, h)
    BY <1>1 DEF Coinbase
  <2>2. Reward \in Nat
    BY ConstantsAssumption
  <2> QED
    BY <2>1, <2>2, CoinbaseKeepsIInv
<1>2. CASE Pay \/ Replay \/ ReplayAnything
  <2>1. PICK t, from, to, amount, fee, claimed, S, h :
            Moved(t, from, to, amount, fee, claimed, S, h)
    BY <1>2, EveryTransfer
  <2> QED
    BY <2>1, TransferKeepsIInv DEF Moved
<1>4. CASE ReplayHitsConflict
  BY <1>4, ConflictKeepsIInv DEF ReplayHitsConflict
<1>5. CASE Rollback
  BY <1>5, RollbackKeepsIInv DEF Rollback
<1>6. CASE UNCHANGED store
  BY <1>6 DEF IInv, TypeOK, Traceable, InputsOlder, CoinbaseHeights, store
<1> QED
  BY <1>1, <1>2, <1>4, <1>5, <1>6 DEF Next

LEMMA Invariance == Spec => []IInv
BY InitIInv, NextKeepsIInv, PTL DEF Spec

\* The tables are well typed in every reachable state.
THEOREM TypeCorrect == Spec => []TypeOK
<1>1. IInv => TypeOK
  BY DEF IInv
<1> QED
  BY <1>1, Invariance, PTL

\* Every input keeps its row and its one spender, every row its transaction:
\* whatever transfers, replays (conflicting ones too) and rollbacks happen.
THEOREM AlwaysTraceable == Spec => []Traceable
<1>1. IInv => Traceable
  BY DEF IInv
<1> QED
  BY <1>1, Invariance, PTL

\* No output is ever consumed by two recorded transactions.
THEOREM DoubleSpendsNever == Spec => []NoDoubleSpend
<1>1. IInv => NoDoubleSpend
  BY DEF IInv, Traceable, NoDoubleSpend
<1> QED
  BY <1>1, Invariance, PTL

-----------------------------------------------------------------------------
(***************************************************************************)
(* What the rows add up to.  Conservation, and the balances that the book  *)
(* of accounts has, follow from the two tables as they stand, once each    *)
(* transaction on record is known to have written what it took: Books.     *)
(* Every row was written by one transaction and is unspent, stranded or an *)
(* input of one transaction, so the rows can be counted by writer and by   *)
(* spender (SumParts), for the addresses of any set A.                     *)
(***************************************************************************)

\* What t gave back to its sender.
Change(t) == IF <<t, 1>> \in DOMAIN utxos THEN utxos[<<t, 1>>].amount ELSE 0

\* The rows of t say what its record says: a coinbase took nothing; a
\* transfer wrote what it states, and if it is an honest one, it took that
\* from its sender.
Books(t) ==
    /\ <<t, 0>> \in DOMAIN utxos
    /\ utxos[<<t, 0>>].address = transactions[t].to
    /\ utxos[<<t, 0>>].amount = transactions[t].amount
    /\ t \in CoinbaseId =>
           /\ transactions[t].from = Mint /\ transactions[t].fee = 0
           /\ transactions[t].inputs = {} /\ <<t, 1>> \notin DOMAIN utxos
    /\ t \notin CoinbaseId =>
           /\ transactions[t].from \in Address
           /\ <<t, 1>> \in DOMAIN utxos => utxos[<<t, 1>>].address = transactions[t].from
           /\ Stated(t) = transactions[t].amount + transactions[t].fee + Change(t)
           /\ HonestBlocks =>
                  /\ \A u \in transactions[t].inputs : utxos[u].address = transactions[t].from
                  /\ AmountOf(transactions[t].inputs) = Stated(t)

Finite == IsFiniteSet(DOMAIN utxos) /\ IsFiniteSet(DOMAIN transactions)

BooksInv == Finite /\ \A t \in DOMAIN transactions : Books(t)

\* A row keeps its owner and its amount, whatever becomes of its status.
SameRow(u) ==
    /\ u \in DOMAIN utxos' <=> u \in DOMAIN utxos
    /\ u \in DOMAIN utxos =>
           utxos'[u].address = utxos[u].address /\ utxos'[u].amount = utxos[u].amount

SameBooks(t) ==
    /\ transactions'[t] = transactions[t]
    /\ \A u \in {<<t, 0>>, <<t, 1>>} \cup transactions[t].inputs : SameRow(u)

\* Rows that keep their amounts keep their sum.
LEMMA SameAmount ==
    ASSUME NEW S, IsFiniteSet(S), \A u \in S : utxos'[u].amount = utxos[u].amount
    PROVE  AmountOf(S)' = AmountOf(S)
<1> DEFINE f == [u \in S |-> utxos[u].amount]
           g == [u \in S |-> utxos'[u].amount]
<1>1. \A u \in S : f[u] = g[u]
  OBVIOUS
<1>2. AmountOf(S) = SumFunctionOnSet(f, S) /\ AmountOf(S)' = SumFunctionOnSet(g, S)
  BY DEF AmountOf
<1> HIDE DEF f, g
<1>3. SumFunctionOnSet(f, S) = SumFunctionOnSet(g, S)
  BY <1>1, SumSame
<1> QED
  BY <1>2, <1>3

\* The inputs of a recorded transaction are rows, and finitely many.
LEMMA InputsAreRows ==
    ASSUME IInv, Finite, NEW t \in DOMAIN transactions
    PROVE  transactions[t].inputs \subseteq DOMAIN utxos /\ IsFiniteSet(transactions[t].inputs)
<1>1. transactions[t].inputs \subseteq DOMAIN utxos
  BY DEF IInv, Traceable
<1> QED
  BY <1>1, FS_Subset DEF Finite

\* A transaction whose rows stay keeps its books.
LEMMA BooksKept ==
    ASSUME IInv, Finite, NEW t \in DOMAIN transactions, Books(t), SameBooks(t)
    PROVE  Books(t)'
<1>1. transactions'[t] = transactions[t]
  BY DEF SameBooks
<1>2. SameRow(<<t, 0>>) /\ SameRow(<<t, 1>>)
  BY DEF SameBooks
<1>3. \A u \in transactions[t].inputs : u \in DOMAIN utxos /\ SameRow(u)
  BY InputsAreRows DEF SameBooks
<1>4. AmountOf(transactions[t].inputs)' = AmountOf(transactions[t].inputs)
  <2> DEFINE S == transactions[t].inputs
  <2>1. IsFiniteSet(S) /\ \A u \in S : utxos'[u].amount = utxos[u].amount
    BY <1>3, InputsAreRows DEF SameRow
  <2>2. AmountOf(transactions'[t].inputs) = AmountOf(S)
    BY <1>1
  <2>3. AmountOf(transactions[t].inputs)' = SumFunctionOnSet([u \in S |-> utxos'[u].amount], S)
    BY <1>1 DEF AmountOf
  <2>4. SumFunctionOnSet([u \in S |-> utxos'[u].amount], S)
           = SumFunctionOnSet([u \in S |-> utxos[u].amount], S)
    <3> DEFINE f == [u \in S |-> utxos[u].amount]
               g == [u \in S |-> utxos'[u].amount]
    <3>1. \A u \in S : f[u] = g[u]
      BY <2>1
    <3> HIDE DEF f, g, S
    <3>2. SumFunctionOnSet(f, S) = SumFunctionOnSet(g, S)
      BY <2>1, <3>1, SumSame
    <3> QED
      BY <3>2 DEF f, g
  <2> QED
    BY <2>3, <2>4 DEF AmountOf
<1>5. Change(t)' = Change(t)
  BY <1>2 DEF Change, SameRow
<1>6. /\ <<t, 0>> \in DOMAIN utxos'
      /\ utxos'[<<t, 0>>].address = transactions'[t].to
      /\ utxos'[<<t, 0>>].amount = transactions'[t].amount
  BY <1>1, <1>2 DEF Books, SameRow
<1>7. ASSUME t \in CoinbaseId
      PROVE  /\ transactions'[t].from = Mint /\ transactions'[t].fee = 0
             /\ transactions'[t].inputs = {} /\ <<t, 1>> \notin DOMAIN utxos'
  BY <1>1, <1>2, <1>7 DEF Books, SameRow
<1>8. ASSUME t \notin CoinbaseId
      PROVE  /\ transactions'[t].from \in Address
             /\ <<t, 1>> \in DOMAIN utxos' => utxos'[<<t, 1>>].address = transactions'[t].from
             /\ Stated(t)' = transactions'[t].amount + transactions'[t].fee + Change(t)'
             /\ HonestBlocks =>
                    /\ \A u \in transactions'[t].inputs : utxos'[u].address = transactions'[t].from
                    /\ AmountOf(transactions[t].inputs)' = Stated(t)'
  <2>0. Stated(t)' = Stated(t)
    BY <1>1 DEF Stated
  <2>1. transactions'[t].from \in Address
    BY <1>1, <1>8 DEF Books
  <2>2. <<t, 1>> \in DOMAIN utxos' => utxos'[<<t, 1>>].address = transactions'[t].from
    BY <1>1, <1>2, <1>8 DEF Books, SameRow
  <2>3. HonestBlocks =>
            \A u \in transactions'[t].inputs : utxos'[u].address = transactions'[t].from
    BY <1>1, <1>3, <1>8 DEF Books, SameRow
  <2>4. Stated(t)' = transactions'[t].amount + transactions'[t].fee + Change(t)'
    BY <1>1, <1>5, <1>8, <2>0 DEF Books
  <2>5. HonestBlocks => AmountOf(transactions[t].inputs)' = Stated(t)'
    BY <1>4, <1>8, <2>0 DEF Books
  <2> QED
    BY <2>1, <2>2, <2>3, <2>4, <2>5
<1> QED
  BY <1>6, <1>7, <1>8 DEF Books

\* No step, no change.
LEMMA BooksUnchanged ==
    ASSUME IInv, BooksInv, UNCHANGED store
    PROVE  BooksInv'
<1>1. utxos' = utxos /\ transactions' = transactions
  BY DEF store
<1>2. Finite'
  BY <1>1 DEF BooksInv, Finite
<1>3. ASSUME NEW t \in DOMAIN transactions PROVE Books(t)'
  BY <1>1, BooksKept DEF BooksInv, SameBooks, SameRow
<1> QED
  BY <1>1, <1>2, <1>3 DEF BooksInv

\* A coinbase on record has its row, so a height without one has no record.
LEMMA CoinbaseOnce ==
    ASSUME IInv, BooksInv, NEW h, CoinbaseAt(h) = {}
    PROVE  \A t \in DOMAIN transactions \cap CoinbaseId : t.height # h
<1> SUFFICES ASSUME NEW t \in DOMAIN transactions \cap CoinbaseId, t.height = h
             PROVE  FALSE
  OBVIOUS
<1>1. <<t, 0>> \in DOMAIN utxos
  BY DEF BooksInv, Books
<1>2. utxos[<<t, 0>>].height = transactions[t].height
  BY <1>1 DEF IInv, Traceable
<1>3. transactions[t].height = h
  BY DEF IInv, CoinbaseHeights
<1>4. <<t, 0>> \in CoinbaseAt(h)
  BY <1>1, <1>2, <1>3 DEF CoinbaseAt
<1> QED
  BY <1>4

\* The rows that a transfer adds are the recipient's and its change.
Outcome(t, from, to, amount, change) ==
    /\ DOMAIN utxos' = DOMAIN utxos \cup {<<t, 0>>} \cup (IF change > 0 THEN {<<t, 1>>} ELSE {})
    /\ utxos'[<<t, 0>>].address = to /\ utxos'[<<t, 0>>].amount = amount
    /\ change > 0 => utxos'[<<t, 1>>].address = from /\ utxos'[<<t, 1>>].amount = change
    /\ \A u \in DOMAIN utxos : SameRow(u)

LEMMA TransferOutcome ==
    ASSUME IInv,
           NEW t \in Transfer, t \notin DOMAIN transactions,
           NEW from \in Address, NEW to \in Address,
           NEW amount \in Nat, NEW fee \in Nat, NEW claimed \in Nat,
           NEW S \in SUBSET DOMAIN utxos, NEW h \in Height,
           ApplyTransfer(t, from, to, amount, fee, claimed, S, h)
    PROVE  Outcome(t, from, to, amount, claimed - (amount + fee))
<1> DEFINE change == claimed - (amount + fee)
           new == Outputs(t, from, to, amount, change, h)
           old == Spend(S, t)
<1>1. utxos' = Insert(new, old)
  BY DEF ApplyTransfer
<1>2. DOMAIN old = DOMAIN utxos
  BY DEF Spend
<1>3. DOMAIN new = {<<t, 0>>} \cup (IF change > 0 THEN {<<t, 1>>} ELSE {})
  BY DEF Outputs
<1>4. new[<<t, 0>>] = NewRow(to, amount, h)
  BY DEF Outputs
<1>5. change > 0 => new[<<t, 1>>] = NewRow(from, change, h)
  BY DEF Outputs
<1>6. DOMAIN new \cap DOMAIN utxos = {}
  BY <1>3 DEF IInv, Traceable
<1> HIDE DEF new
<1>7. /\ DOMAIN utxos' = DOMAIN utxos \cup DOMAIN new
      /\ \A u \in DOMAIN new : utxos'[u] = new[u]
      /\ \A u \in DOMAIN utxos : utxos'[u] = old[u]
  BY <1>1, <1>2, <1>6 DEF Insert
<1>8. ASSUME NEW u \in DOMAIN utxos PROVE SameRow(u)
  <2>1. utxos[u] \in UtxoRow
    BY DEF IInv, TypeOK
  <2>2. old[u].address = utxos[u].address /\ old[u].amount = utxos[u].amount
    <3>1. CASE u \in S
      <4>1. old[u] = [utxos[u] EXCEPT !.status = "spent", !.spentBy = t]
        BY <3>1 DEF Spend
      <4> QED
        BY <2>1, <4>1 DEF UtxoRow
    <3>2. CASE u \notin S
      BY <3>2 DEF Spend
    <3> QED
      BY <3>1, <3>2
  <2> QED
    BY <1>7, <2>2 DEF SameRow
<1>9. utxos'[<<t, 0>>].address = to /\ utxos'[<<t, 0>>].amount = amount
  BY <1>3, <1>4, <1>7 DEF NewRow
<1>10. change > 0 => utxos'[<<t, 1>>].address = from /\ utxos'[<<t, 1>>].amount = change
  <2> SUFFICES ASSUME change > 0
               PROVE  utxos'[<<t, 1>>].address = from /\ utxos'[<<t, 1>>].amount = change
    OBVIOUS
  <2>1. <<t, 1>> \in DOMAIN new
    BY <1>3
  <2>2. utxos'[<<t, 1>>] = NewRow(from, change, h)
    BY <1>5, <1>7, <2>1
  <2> QED
    BY <2>2 DEF NewRow
<1>11. DOMAIN utxos' = DOMAIN utxos \cup {<<t, 0>>} \cup (IF change > 0 THEN {<<t, 1>>} ELSE {})
  BY <1>3, <1>7
<1> QED
  BY <1>8, <1>9, <1>10, <1>11 DEF Outcome

\* A transfer keeps the books of all others, and its own are right.
LEMMA TransferKeepsBooks ==
    ASSUME IInv, BooksInv,
           NEW t \in Transfer, t \notin DOMAIN transactions,
           NEW from \in Address, NEW to \in Address,
           NEW amount \in Nat, NEW fee \in Nat, NEW claimed \in Nat,
           NEW S \in SUBSET DOMAIN utxos, NEW h \in Height,
           HonestBlocks => Covers(S, from, amount, fee, claimed),
           ApplyTransfer(t, from, to, amount, fee, claimed, S, h)
    PROVE  BooksInv'
<1> DEFINE tx == [inputs |-> S, claimed |-> claimed, from |-> from, to |-> to,
                  amount |-> amount, fee |-> fee, height |-> h]
<1>1. /\ DOMAIN transactions' = DOMAIN transactions \cup {t}
      /\ \A x \in DOMAIN transactions : transactions'[x] = transactions[x]
      /\ transactions'[t] = tx
  BY TransferRecord
<1>2. Outcome(t, from, to, amount, claimed - (amount + fee))
  BY TransferOutcome
<1>3. IsFiniteSet(DOMAIN utxos) /\ IsFiniteSet(DOMAIN transactions) /\ IsFiniteSet(S)
  BY FS_Subset DEF BooksInv, Finite
<1>4. Finite'
  <2>1. IsFiniteSet(DOMAIN transactions \cup {t})
    BY <1>3, FS_AddElement
  <2>2. IsFiniteSet(DOMAIN utxos \cup {<<t, 0>>})
    BY <1>3, FS_AddElement
  <2>3. IsFiniteSet(DOMAIN utxos \cup {<<t, 0>>} \cup {<<t, 1>>})
    BY <2>2, FS_AddElement
  <2>4. DOMAIN utxos' = DOMAIN utxos \cup {<<t, 0>>}
        \/ DOMAIN utxos' = DOMAIN utxos \cup {<<t, 0>>} \cup {<<t, 1>>}
    BY <1>2 DEF Outcome
  <2>5. IsFiniteSet(DOMAIN utxos')
    BY <2>2, <2>3, <2>4
  <2> QED
    BY <1>1, <2>1, <2>5 DEF Finite
<1>5. ASSUME NEW x \in DOMAIN transactions PROVE Books(x)'
  <2>1. x # t
    OBVIOUS
  <2>2. \A u \in transactions[x].inputs : SameRow(u)
    BY <1>2, InputsAreRows DEF BooksInv, Outcome
  <2>3. ASSUME NEW i \in {0, 1} PROVE SameRow(<<x, i>>)
    <3>1. CASE <<x, i>> \in DOMAIN utxos
      BY <1>2, <3>1 DEF Outcome
    <3>2. CASE <<x, i>> \notin DOMAIN utxos
      <4>1. <<x, i>> \notin DOMAIN utxos'
        BY <1>2, <2>1, <3>2 DEF Outcome
      <4> QED
        BY <3>2, <4>1 DEF SameRow
    <3> QED
      BY <3>1, <3>2
  <2>4. SameBooks(x)
    BY <1>1, <2>2, <2>3 DEF SameBooks
  <2> QED
    BY <2>4, BooksKept DEF BooksInv
<1>6. Books(t)'
  <2>1. t \notin CoinbaseId
    BY ConstantsAssumption
  <2>2. <<t, 1>> \notin DOMAIN utxos
    BY DEF IInv, Traceable
  <2>3. /\ transactions'[t].inputs = S /\ transactions'[t].from = from
        /\ transactions'[t].to = to /\ transactions'[t].amount = amount
        /\ transactions'[t].fee = fee /\ transactions'[t].claimed = claimed
    BY <1>1
  <2> HIDE DEF tx
  <2>4. Stated(t)' = IF claimed >= amount + fee THEN claimed ELSE amount + fee
    BY <2>3 DEF Stated
  <2>5. Stated(t)' = amount + fee + Change(t)'
    <3>1. CASE claimed - (amount + fee) > 0
      <4>1. Change(t)' = claimed - (amount + fee)
        BY <1>2, <3>1 DEF Outcome, Change
      <4> QED
        BY <2>4, <3>1, <4>1
    <3>2. CASE ~(claimed - (amount + fee) > 0)
      <4>1. <<t, 1>> \notin DOMAIN utxos'
        BY <1>2, <2>2, <3>2 DEF Outcome
      <4>2. Change(t)' = 0
        BY <4>1 DEF Change
      <4> QED
        BY <2>4, <3>2, <4>2
    <3> QED
      BY <3>1, <3>2
  <2>6. AmountOf(S)' = AmountOf(S)
    <3>1. \A u \in S : utxos'[u].amount = utxos[u].amount
      BY <1>2 DEF Outcome, SameRow
    <3> QED
      BY <1>3, <3>1, SameAmount
  <2>7. HonestBlocks => AmountOf(transactions[t].inputs)' = Stated(t)'
    <3>1. AmountOf(transactions[t].inputs)' = AmountOf(S)'
      BY <2>3 DEF AmountOf
    <3>2. HonestBlocks => claimed = AmountOf(S) /\ claimed >= amount + fee
      BY DEF Covers
    <3> QED
      BY <2>4, <2>6, <3>1, <3>2
  <2>8. HonestBlocks => \A u \in S : utxos'[u].address = from
    BY <1>2 DEF Outcome, SameRow, Covers
  <2>9. <<t, 1>> \in DOMAIN utxos' => utxos'[<<t, 1>>].address = from
    BY <1>2, <2>2 DEF Outcome
  <2>10. /\ <<t, 0>> \in DOMAIN utxos'
         /\ utxos'[<<t, 0>>].address = to /\ utxos'[<<t, 0>>].amount = amount
    BY <1>2 DEF Outcome
  <2> QED
    BY <2>1, <2>3, <2>5, <2>7, <2>8, <2>9, <2>10 DEF Books
<1> QED
  BY <1>1, <1>4, <1>5, <1>6 DEF BooksInv

\* So does a coinbase.
LEMMA CoinbaseKeepsBooks ==
    ASSUME IInv, BooksInv, NEW a \in Address, NEW h \in Height, NEW amount \in Nat,
           CreateCoinbase(a, amount, h)
    PROVE  BooksInv'
<1> DEFINE id == [miner |-> a, height |-> h]
           out == <<id, 0>>
           row == NewRow(a, amount, h)
           tx == [inputs |-> {}, claimed |-> 0, from |-> Mint, to |-> a, amount |-> amount,
                  fee |-> 0, height |-> h]
<1>1. CASE CoinbaseAt(h) # {}
  <2>1. UNCHANGED store
    BY <1>1 DEF CreateCoinbase, CoinbaseUtxos, CoinbaseTransactions, store
  <2> QED
    BY <2>1, BooksUnchanged
<1>2. CASE CoinbaseAt(h) = {}
  <2>1. id \in CoinbaseId /\ id.height = h
    BY DEF CoinbaseId
  <2>2. out[1] = id /\ row.address = a /\ row.amount = amount
    BY DEF NewRow
  <2>3. /\ tx.inputs = {} /\ tx.from = Mint /\ tx.to = a
        /\ tx.amount = amount /\ tx.fee = 0
    OBVIOUS
  <2>4. /\ DOMAIN utxos' = DOMAIN utxos \cup {out}
        /\ \A u \in DOMAIN utxos : utxos'[u] = utxos[u]
        /\ out \notin DOMAIN utxos => utxos'[out] = row
    BY <1>2 DEF CreateCoinbase, CoinbaseUtxos, Insert
  <2>5. /\ DOMAIN transactions' = DOMAIN transactions \cup {id}
        /\ \A t \in DOMAIN transactions : transactions'[t] = transactions[t]
        /\ id \notin DOMAIN transactions => transactions'[id] = tx
    BY <1>2 DEF CreateCoinbase, CoinbaseTransactions, Insert
  <2>6. id \notin DOMAIN transactions
    BY <1>2, <2>1, CoinbaseOnce
  <2> HIDE DEF id, row, tx
  <2>7. out \notin DOMAIN utxos /\ <<id, 1>> \notin DOMAIN utxos
    BY <2>6 DEF IInv, Traceable
  <2>8. Finite'
    <3>1. IsFiniteSet(DOMAIN utxos \cup {out}) /\ IsFiniteSet(DOMAIN transactions \cup {id})
      BY FS_AddElement DEF BooksInv, Finite
    <3> QED
      BY <2>4, <2>5, <3>1 DEF Finite
  <2>9. ASSUME NEW x \in DOMAIN transactions PROVE Books(x)'
    <3>1. x # id
      BY <2>6
    <3>2. \A u \in DOMAIN utxos : SameRow(u)
      BY <2>4 DEF SameRow
    <3>3. ASSUME NEW i \in {0, 1} PROVE SameRow(<<x, i>>)
      <4>1. <<x, i>> \in DOMAIN utxos' <=> <<x, i>> \in DOMAIN utxos
        BY <2>4, <3>1
      <4> QED
        BY <3>2, <4>1 DEF SameRow
    <3>4. \A u \in transactions[x].inputs : SameRow(u)
      BY <3>2, InputsAreRows DEF BooksInv
    <3>5. SameBooks(x)
      BY <2>5, <3>3, <3>4 DEF SameBooks
    <3> QED
      BY <3>5, BooksKept DEF BooksInv
  <2>10. Books(id)'
    <3>1. /\ transactions'[id].inputs = {} /\ transactions'[id].from = Mint
          /\ transactions'[id].to = a /\ transactions'[id].amount = amount
          /\ transactions'[id].fee = 0
      BY <2>3, <2>5, <2>6
    <3>2. out \in DOMAIN utxos' /\ utxos'[out].address = a /\ utxos'[out].amount = amount
      BY <2>2, <2>4, <2>7
    <3>3. <<id, 1>> \notin DOMAIN utxos'
      BY <2>4, <2>7
    <3> QED
      BY <2>1, <3>1, <3>2, <3>3 DEF Books
  <2> QED
    BY <2>5, <2>8, <2>9, <2>10 DEF BooksInv
<1> QED
  BY <1>1, <1>2

\* A replay that stops half way changes neither owners nor amounts.
LEMMA ConflictKeepsBooks ==
    ASSUME IInv, BooksInv, NEW t, NEW S, NEW marked, ReplayConflict(t, S, marked)
    PROVE  BooksInv'
<1>1. transactions' = transactions /\ DOMAIN utxos' = DOMAIN utxos
  BY DEF ReplayConflict, Spend
<1>2. Finite'
  BY <1>1 DEF BooksInv, Finite
<1>3. ASSUME NEW u PROVE SameRow(u)
  <2>1. CASE u \in DOMAIN utxos
    <3>1. utxos[u] \in UtxoRow
      BY <2>1 DEF IInv, TypeOK
    <3>2. \/ utxos'[u] = utxos[u]
          \/ utxos'[u] = [utxos[u] EXCEPT !.status = "spent", !.spentBy = t]
      BY <2>1 DEF ReplayConflict, Spend
    <3>3. utxos'[u].address = utxos[u].address /\ utxos'[u].amount = utxos[u].amount
      BY <3>1, <3>2 DEF UtxoRow
    <3> QED
      BY <1>1, <3>3 DEF SameRow
  <2> QED
    BY <1>1, <2>1 DEF SameRow
<1>4. ASSUME NEW x \in DOMAIN transactions PROVE Books(x)'
  BY <1>1, <1>3, BooksKept DEF BooksInv, SameBooks
<1> QED
  BY <1>1, <1>2, <1>4 DEF BooksInv

\* A rollback keeps the books of the transactions that it keeps: their rows
\* are of their height and their inputs of no greater one.
LEMMA RollbackKeepsBooks ==
    ASSUME IInv, BooksInv, NEW h \in Height, RollbackTo(h)
    PROVE  BooksInv'
<1>1. /\ DOMAIN transactions' = DOMAIN transactions \ Above(h)
      /\ \A t \in DOMAIN transactions' :
             transactions'[t] = transactions[t] /\ ~(transactions[t].height > h)
  BY DEF RollbackTo, Above
<1>2. /\ DOMAIN utxos' = {v \in DOMAIN utxos : utxos[v].height <= h}
      /\ \A u \in DOMAIN utxos' :
             \/ utxos'[u] = utxos[u]
             \/ utxos'[u] = [utxos[u] EXCEPT !.status = "unspent", !.spentBy = NoTx]
  BY DEF RollbackTo
<1>3. \A t \in DOMAIN transactions : transactions[t].height \in Nat
  BY ConstantsAssumption DEF IInv, TypeOK, TxRow, Height
<1>4. \A u \in DOMAIN utxos : utxos[u].height \in Nat
  BY ConstantsAssumption DEF IInv, TypeOK, UtxoRow, Height
<1>5. h \in Nat
  BY ConstantsAssumption DEF Height
<1>6. Finite'
  <2>1. DOMAIN utxos' \subseteq DOMAIN utxos /\ DOMAIN transactions' \subseteq DOMAIN transactions
    BY <1>1, <1>2
  <2>2. IsFiniteSet(DOMAIN utxos')
    BY <2>1, FS_Subset DEF BooksInv, Finite
  <2>3. IsFiniteSet(DOMAIN transactions')
    BY <2>1, FS_Subset DEF BooksInv, Finite
  <2> QED
    BY <2>2, <2>3 DEF Finite
<1>7. ASSUME NEW u, u \in DOMAIN utxos => utxos[u].height <= h PROVE SameRow(u)
  <2>1. u \in DOMAIN utxos' <=> u \in DOMAIN utxos
    BY <1>2, <1>7
  <2>2. ASSUME u \in DOMAIN utxos
        PROVE  utxos'[u].address = utxos[u].address /\ utxos'[u].amount = utxos[u].amount
    <3>1. utxos[u] \in UtxoRow
      BY <2>2 DEF IInv, TypeOK
    <3> QED
      BY <1>2, <2>1, <2>2, <3>1 DEF UtxoRow
  <2> QED
    BY <2>1, <2>2 DEF SameRow
<1>8. ASSUME NEW t \in DOMAIN transactions' PROVE Books(t)'
  <2>1. /\ t \in DOMAIN transactions /\ transactions'[t] = transactions[t]
        /\ transactions[t].height <= h
    BY <1>1, <1>3, <1>5
  <2>2. ASSUME NEW i \in {0, 1} PROVE SameRow(<<t, i>>)
    <3>1. <<t, i>> \in DOMAIN utxos => utxos[<<t, i>>].height = transactions[t].height
      BY DEF IInv, Traceable
    <3> QED
      BY <1>7, <2>1, <3>1
  <2>3. ASSUME NEW u \in transactions[t].inputs PROVE SameRow(u)
    <3>1. u \in DOMAIN utxos /\ utxos[u].height <= transactions[t].height
      BY <2>1 DEF IInv, Traceable, InputsOlder
    <3>2. utxos[u].height <= h
      BY <1>3, <1>4, <1>5, <2>1, <3>1
    <3> QED
      BY <1>7, <3>2
  <2>4. SameBooks(t)
    BY <2>1, <2>2, <2>3 DEF SameBooks
  <2> QED
    BY <2>1, <2>4, BooksKept DEF BooksInv
<1> QED
  BY <1>6, <1>8 DEF BooksInv

LEMMA InitBooks == Init => BooksInv
<1> SUFFICES ASSUME Init PROVE BooksInv
  OBVIOUS
<1>1. DOMAIN utxos = {} /\ DOMAIN transactions = {}
  BY DEF Init
<1> QED
  BY <1>1, FS_EmptySet DEF BooksInv, Finite

LEMMA NextKeepsBooks == IInv /\ BooksInv /\ [Next]_store => BooksInv'
<1> SUFFICES ASSUME IInv, BooksInv, [Next]_store PROVE BooksInv'
  OBVIOUS
<1>1. CASE Coinbase
  <2>1. PICK a \in Address, h \in Height : CreateCoinbase(a, Reward, h)
    BY <1>1 DEF Coinbase
  <2> QED
    BY <2>1, ConstantsAssumption, CoinbaseKeepsBooks
<1>2. CASE Pay \/ Replay \/ ReplayAnything
  <2>1. PICK t, from, to, amount, fee, claimed, S, h :
            Moved(t, from, to, amount, fee, claimed, S, h)
    BY <1>2, EveryTransfer
  <2> QED
    BY <2>1, TransferKeepsBooks DEF Moved
<1>4. CASE ReplayHitsConflict
  BY <1>4, ConflictKeepsBooks DEF ReplayHitsConflict
<1>5. CASE Rollback
  BY <1>5, RollbackKeepsBooks DEF Rollback
<1>6. CASE UNCHANGED store
  BY <1>6, BooksUnchanged
<1> QED
  BY <1>1, <1>2, <1>4, <1>5, <1>6 DEF Next

LEMMA BooksInvariance == Spec => [](IInv /\ BooksInv)
<1>1. Init => IInv /\ BooksInv
  BY InitIInv, InitBooks
<1>2. (IInv /\ BooksInv) /\ [Next]_store => (IInv /\ BooksInv)'
  BY NextKeepsIInv, NextKeepsBooks
<1> QED
  BY <1>1, <1>2, PTL DEF Spec

-----------------------------------------------------------------------------
(* What the rows hold for the addresses of a set A, and what the records   *)
(* say of it.                                                              *)

Weight(A) ==
    [u \in DOMAIN utxos |-> IF utxos[u].address \in A THEN utxos[u].amount ELSE 0]
Holding(A, S) == SumFunctionOnSet(Weight(A), S)

Made(t) == {u \in DOMAIN utxos : u[1] = t}
Consumed == UNION {transactions[t].inputs : t \in DOMAIN transactions}

Gain(A) == [t \in DOMAIN transactions |->
               IF transactions[t].to \in A THEN transactions[t].amount ELSE 0]
Cost(A) == [t \in DOMAIN transactions |->
               IF transactions[t].from \in A
               THEN transactions[t].amount + transactions[t].fee ELSE 0]
Written(A) == [t \in DOMAIN transactions |-> Holding(A, Made(t))]
Taken(A) == [t \in DOMAIN transactions |-> Holding(A, transactions[t].inputs)]

Gains(A) == SumFunctionOnSet(Gain(A), DOMAIN transactions)
Costs(A) == SumFunctionOnSet(Cost(A), DOMAIN transactions)

\* Rows and records hold naturals.
LEMMA Amounts ==
    ASSUME IInv, BooksInv, NEW A
    PROVE  /\ \A u \in DOMAIN utxos : utxos[u].amount \in Nat /\ Weight(A)[u] \in Nat
           /\ \A t \in DOMAIN transactions :
                  /\ transactions[t].amount \in Nat /\ transactions[t].fee \in Nat
                  /\ Gain(A)[t] \in Nat /\ Cost(A)[t] \in Nat
                  /\ Change(t) \in Nat
<1>1. \A u \in DOMAIN utxos : utxos[u].amount \in Nat
  BY DEF IInv, TypeOK, UtxoRow
<1>2. \A t \in DOMAIN transactions : transactions[t].amount \in Nat /\ transactions[t].fee \in Nat
  BY DEF IInv, TypeOK, TxRow
<1>3. \A u \in DOMAIN utxos : Weight(A)[u] \in Nat
  BY <1>1 DEF Weight
<1>4. \A t \in DOMAIN transactions : Gain(A)[t] \in Nat /\ Cost(A)[t] \in Nat
  BY <1>2 DEF Gain, Cost
<1>5. \A t \in DOMAIN transactions : Change(t) \in Nat
  BY <1>1 DEF Change
<1> QED
  BY <1>1, <1>2, <1>3, <1>4, <1>5

\* Rows that are all A's hold what they are worth, and rows of others nothing.
LEMMA HoldingOf ==
    ASSUME IInv, BooksInv, NEW A, NEW S \in SUBSET DOMAIN utxos
    PROVE  /\ (\A u \in S : utxos[u].address \in A) => Holding(A, S) = AmountOf(S)
           /\ (\A u \in S : utxos[u].address \notin A) => Holding(A, S) = 0
           /\ Holding(A, S) \in Nat
<1>1. IsFiniteSet(S)
  BY FS_Subset DEF BooksInv, Finite
<1>2. ASSUME \A u \in S : utxos[u].address \in A PROVE Holding(A, S) = AmountOf(S)
  <2> DEFINE f == [u \in S |-> utxos[u].amount]
  <2>1. \A u \in S : Weight(A)[u] = f[u]
    BY <1>2 DEF Weight
  <2> HIDE DEF f
  <2>2. SumFunctionOnSet(Weight(A), S) = SumFunctionOnSet(f, S)
    BY <1>1, <2>1, SumSame
  <2> QED
    BY <2>2 DEF f, Holding, AmountOf
<1>3. ASSUME \A u \in S : utxos[u].address \notin A PROVE Holding(A, S) = 0
  <2>1. \A u \in S : Weight(A)[u] = 0
    BY <1>3 DEF Weight
  <2> QED
    BY <1>1, <2>1, SumZero DEF Holding
<1>4. Holding(A, S) \in Nat
  <2>1. \A u \in S : Weight(A)[u] \in Nat
    BY Amounts
  <2> QED
    BY <1>1, <2>1, SumNat DEF Holding
<1> QED
  BY <1>2, <1>3, <1>4

\* What t wrote for A: what it paid to A, and A's change.
LEMMA WrittenOf ==
    ASSUME IInv, BooksInv, NEW A, NEW t \in DOMAIN transactions
    PROVE  Written(A)[t] = Gain(A)[t]
               + (IF transactions[t].from \in A THEN Change(t) ELSE 0)
<1> DEFINE one == <<t, 0>>
           two == <<t, 1>>
           w == Weight(A)
<1>1. Books(t)
  BY DEF BooksInv
<1>2. one \in DOMAIN utxos /\ w[one] = Gain(A)[t]
  BY <1>1 DEF Books, Weight, Gain
<1>3. Made(t) = {one} \/ Made(t) = {one} \cup {two}
  <2>1. \A u \in Made(t) : u = one \/ u = two
    <3> TAKE u \in Made(t)
    <3>1. u \in UtxoId /\ u[1] = t
      BY DEF Made, IInv, TypeOK
    <3> QED
      BY <3>1 DEF UtxoId
  <2>2. one \in Made(t)
    BY <1>2 DEF Made
  <2> HIDE DEF one, two
  <2> QED
    BY <2>1, <2>2
<1>4. IsFiniteSet({one}) /\ one # two /\ two[1] = t
  <2>1. one # two /\ two[1] = t
    OBVIOUS
  <2> HIDE DEF one, two
  <2> QED
    BY <2>1, FS_Singleton
<1>5. Holding(A, {one}) = Gain(A)[t]
  <2>1. {one} = {} \cup {one} /\ IsFiniteSet({}) /\ one \notin {}
    BY FS_EmptySet
  <2>2. w[one] \in Int
    BY <1>2, Amounts
  <2> HIDE DEF w, one
  <2>3. \A y \in {} \cup {one} : w[y] \in Int
    BY <2>2
  <2>4. SumFunctionOnSet(w, {} \cup {one}) = w[one] + SumFunctionOnSet(w, {})
    BY <2>1, <2>3, SumAdd
  <2>5. SumFunctionOnSet(w, {}) = 0
    BY SumEmpty
  <2>6. SumFunctionOnSet(w, {one}) = w[one]
    BY <2>1, <2>2, <2>4, <2>5
  <2> QED
    BY <1>2, <2>6 DEF Holding, w
<1>6. CASE two \in DOMAIN utxos
  <2>1. two \in Made(t)
    BY <1>4, <1>6 DEF Made
  <2>2. Made(t) = {one} \cup {two} /\ two \notin {one}
    BY <1>3, <1>4, <2>1
  <2>3. w[two] = IF transactions[t].from \in A THEN Change(t) ELSE 0
    <3>1. utxos[two].address = transactions[t].from /\ Change(t) = utxos[two].amount
      BY <1>1, <1>6 DEF Books, Change
    <3> QED
      BY <1>6, <3>1 DEF Weight
  <2>4. w[one] \in Int /\ w[two] \in Int
    BY <1>2, <1>6, Amounts
  <2> HIDE DEF w, one, two
  <2>5. \A y \in {one} \cup {two} : w[y] \in Int
    BY <2>4
  <2>6. SumFunctionOnSet(w, {one} \cup {two}) = w[two] + SumFunctionOnSet(w, {one})
    BY <1>4, <2>2, <2>5, SumAdd
  <2>7. Holding(A, Made(t)) = w[two] + Gain(A)[t]
    BY <1>5, <2>2, <2>6 DEF Holding, w
  <2>8. Written(A)[t] = Holding(A, Made(t))
    BY DEF Written
  <2>9. Gain(A)[t] \in Nat
    BY Amounts
  <2> QED
    BY <2>3, <2>4, <2>7, <2>8, <2>9
<1>7. CASE two \notin DOMAIN utxos
  <2>1. Made(t) = {one}
    BY <1>3, <1>7 DEF Made
  <2>2. Change(t) = 0
    BY <1>7 DEF Change
  <2>3. Written(A)[t] = Gain(A)[t]
    BY <1>5, <2>1 DEF Written
  <2>4. Gain(A)[t] \in Nat
    BY Amounts
  <2> QED
    BY <2>2, <2>3, <2>4
<1> QED
  BY <1>6, <1>7

\* What an honest t took from A: all it cost A, and the change.
LEMMA TakenOf ==
    ASSUME HonestBlocks, IInv, BooksInv,
           NEW A \in SUBSET Address, NEW t \in DOMAIN transactions
    PROVE  Taken(A)[t] = Cost(A)[t]
               + (IF transactions[t].from \in A THEN Change(t) ELSE 0)
<1> DEFINE S == transactions[t].inputs
<1>1. Books(t)
  BY DEF BooksInv
<1>2. S \subseteq DOMAIN utxos
  BY InputsAreRows DEF BooksInv
<1>3. Taken(A)[t] = Holding(A, S)
  BY DEF Taken
<1>4. /\ transactions[t].amount \in Nat /\ transactions[t].fee \in Nat
      /\ Cost(A)[t] \in Nat /\ Change(t) \in Nat
  BY Amounts
<1>5. CASE t \in CoinbaseId
  <2>1. transactions[t].from \notin A /\ S = {}
    BY <1>1, <1>5, ConstantsAssumption DEF Books
  <2>2. Holding(A, S) = 0
    BY <2>1, SumEmpty DEF Holding
  <2>3. Cost(A)[t] = 0
    BY <2>1 DEF Cost
  <2> QED
    BY <1>3, <2>1, <2>2, <2>3
<1>6. CASE t \notin CoinbaseId
  <2>1. /\ \A u \in S : utxos[u].address = transactions[t].from
        /\ AmountOf(S) = transactions[t].amount + transactions[t].fee + Change(t)
    BY <1>1, <1>6 DEF Books
  <2> HIDE DEF S
  <2>2. CASE transactions[t].from \in A
    <3>1. Holding(A, S) = AmountOf(S)
      BY <1>2, <2>1, <2>2, HoldingOf
    <3>2. Cost(A)[t] = transactions[t].amount + transactions[t].fee
      BY <2>2 DEF Cost
    <3> QED
      BY <1>3, <1>4, <2>1, <2>2, <3>1, <3>2
  <2>3. CASE transactions[t].from \notin A
    <3>1. Holding(A, S) = 0
      BY <1>2, <2>1, <2>3, HoldingOf
    <3>2. Cost(A)[t] = 0
      BY <2>3 DEF Cost
    <3> QED
      BY <1>3, <1>4, <2>3, <3>1, <3>2
  <2> QED
    BY <2>2, <2>3
<1> QED
  BY <1>5, <1>6

\* Every row was written by one transaction on record.
LEMMA AllWritten ==
    ASSUME IInv, BooksInv, NEW A
    PROVE  Holding(A, DOMAIN utxos) = SumFunctionOnSet(Written(A), DOMAIN transactions)
<1> DEFINE P == [t \in DOMAIN transactions |-> Made(t)]
<1>1. Parts(P, DOMAIN transactions, DOMAIN utxos, Weight(A), Written(A))
  <2>1. \A u \in DOMAIN utxos : Weight(A)[u] \in Int
    BY Amounts
  <2>2. \A t \in DOMAIN transactions : P[t] \subseteq DOMAIN utxos
    BY DEF Made
  <2>3. \A s, t \in DOMAIN transactions : s # t => P[s] \cap P[t] = {}
    BY DEF Made
  <2>4. \A t \in DOMAIN transactions : Written(A)[t] = SumFunctionOnSet(Weight(A), P[t])
    BY DEF Written, Holding
  <2> HIDE DEF P
  <2> QED
    BY <2>1, <2>2, <2>3, <2>4 DEF Parts, BooksInv, Finite
<1>2. UNION {P[t] : t \in DOMAIN transactions} = DOMAIN utxos
  <2>1. \A u \in DOMAIN utxos : u[1] \in DOMAIN transactions /\ u \in P[u[1]]
    BY DEF Made, IInv, Traceable
  <2>2. \A t \in DOMAIN transactions : P[t] \subseteq DOMAIN utxos
    BY DEF Made
  <2> HIDE DEF P
  <2> QED
    BY <2>1, <2>2
<1> HIDE DEF P
<1>3. SumFunctionOnSet(Weight(A), UNION {P[t] : t \in DOMAIN transactions})
          = SumFunctionOnSet(Written(A), DOMAIN transactions)
  BY <1>1, SumParts
<1> QED
  BY <1>2, <1>3 DEF Holding

\* Every input was taken by one transaction on record.
LEMMA AllTaken ==
    ASSUME IInv, BooksInv, NEW A
    PROVE  Holding(A, Consumed) = SumFunctionOnSet(Taken(A), DOMAIN transactions)
<1> DEFINE P == [t \in DOMAIN transactions |-> transactions[t].inputs]
<1>1. Parts(P, DOMAIN transactions, DOMAIN utxos, Weight(A), Taken(A))
  <2>1. \A u \in DOMAIN utxos : Weight(A)[u] \in Int
    BY Amounts
  <2>2. \A t \in DOMAIN transactions : P[t] \subseteq DOMAIN utxos
    BY InputsAreRows DEF BooksInv
  <2>3. \A s, t \in DOMAIN transactions : s # t => P[s] \cap P[t] = {}
    BY DEF IInv, Traceable
  <2>4. \A t \in DOMAIN transactions : Taken(A)[t] = SumFunctionOnSet(Weight(A), P[t])
    BY DEF Taken, Holding
  <2> HIDE DEF P
  <2> QED
    BY <2>1, <2>2, <2>3, <2>4 DEF Parts, BooksInv, Finite
<1>2. UNION {P[t] : t \in DOMAIN transactions} = Consumed
  BY DEF Consumed
<1> HIDE DEF P
<1>3. SumFunctionOnSet(Weight(A), UNION {P[t] : t \in DOMAIN transactions})
          = SumFunctionOnSet(Taken(A), DOMAIN transactions)
  BY <1>1, SumParts
<1> QED
  BY <1>2, <1>3 DEF Holding

\* A row is unspent, stranded or consumed.
LEMMA RowsSplit ==
    ASSUME IInv, BooksInv, NEW A
    PROVE  Holding(A, DOMAIN utxos)
               = Holding(A, Unspent) + Holding(A, Stranded) + Holding(A, Consumed)
<1> DEFINE D == DOMAIN utxos
           L == Unspent \cup Stranded
<1>1. Unspent \subseteq D /\ Stranded \subseteq D /\ Consumed \subseteq D
  BY InputsAreRows DEF Unspent, Stranded, Consumed, BooksInv
<1>2. IsFiniteSet(Unspent) /\ IsFiniteSet(Stranded) /\ IsFiniteSet(Consumed) /\ IsFiniteSet(L)
  <2>1. IsFiniteSet(D) /\ L \subseteq D
    BY <1>1 DEF BooksInv, Finite
  <2> QED
    BY <1>1, <2>1, FS_Subset
<1>3. Unspent \cap Stranded = {}
  BY DEF Unspent, Stranded
<1>4. L \cap Consumed = {}
  BY DEF Unspent, Stranded, Consumed, IInv, Traceable
<1>5. L \cup Consumed = D
  <2>1. ASSUME NEW u \in D, u \notin L PROVE u \in Consumed
    <3>1. utxos[u].status = "spent"
      BY <2>1 DEF Unspent, IInv, TypeOK, UtxoRow
    <3> QED
      BY <2>1, <3>1 DEF Stranded, Consumed
  <2> QED
    BY <1>1, <2>1
<1>6. \A u \in D : Weight(A)[u] \in Int
  BY Amounts
<1> HIDE DEF D, L
<1>7. Holding(A, L \cup Consumed) = Holding(A, L) + Holding(A, Consumed)
  BY <1>2, <1>4, <1>5, <1>6, SumUnion DEF Holding
<1>8. Holding(A, Unspent \cup Stranded) = Holding(A, Unspent) + Holding(A, Stranded)
  <2>1. \A u \in Unspent \cup Stranded : Weight(A)[u] \in Int
    BY <1>1, <1>6
  <2> QED
    BY <1>2, <1>3, <2>1, SumUnion DEF Holding
<1> QED
  BY <1>5, <1>7, <1>8 DEF D, L

\* When all are honest, what A holds and what was stranded of it is what A
\* was paid, less what it paid and the fees.
LEMMA Flow ==
    ASSUME HonestBlocks, IInv, BooksInv, NEW A \in SUBSET Address
    PROVE  /\ Holding(A, Unspent) + Holding(A, Stranded) + Costs(A) = Gains(A)
           /\ Gains(A) \in Nat /\ Costs(A) \in Nat
           /\ Holding(A, Unspent) \in Nat /\ Holding(A, Stranded) \in Nat
<1> DEFINE T == DOMAIN transactions
           c == [t \in T |-> IF transactions[t].from \in A THEN Change(t) ELSE 0]
           sum(f) == SumFunctionOnSet(f, T)
<1>1. IsFiniteSet(T)
  BY DEF BooksInv, Finite
<1>2. \A t \in T : /\ Written(A)[t] = Gain(A)[t] + c[t]
                   /\ Taken(A)[t] = Cost(A)[t] + c[t]
  BY WrittenOf, TakenOf
<1>3. \A t \in T : Gain(A)[t] \in Nat /\ Cost(A)[t] \in Nat /\ c[t] \in Nat
  BY Amounts
<1> HIDE DEF T, c
<1>4. sum(Written(A)) = sum(Gain(A)) + sum(c)
  <2>1. \A t \in T : Gain(A)[t] \in Int /\ c[t] \in Int /\ Written(A)[t] = Gain(A)[t] + c[t]
    BY <1>2, <1>3
  <2> QED
    BY <1>1, <2>1, SumPlus
<1>5. sum(Taken(A)) = sum(Cost(A)) + sum(c)
  <2>1. \A t \in T : Cost(A)[t] \in Int /\ c[t] \in Int /\ Taken(A)[t] = Cost(A)[t] + c[t]
    BY <1>2, <1>3
  <2> QED
    BY <1>1, <2>1, SumPlus
<1>6. sum(Gain(A)) \in Nat
  BY <1>1, <1>3, SumNat
<1>7. sum(Cost(A)) \in Nat
  BY <1>1, <1>3, SumNat
<1>8. sum(c) \in Nat
  BY <1>1, <1>3, SumNat
<1>9. Holding(A, Unspent) \in Nat /\ Holding(A, Stranded) \in Nat
  BY HoldingOf DEF Unspent, Stranded
<1>10. sum(Written(A)) = Holding(A, Unspent) + Holding(A, Stranded) + sum(Taken(A))
  BY AllWritten, AllTaken, RowsSplit DEF T
<1>11. sum(Gain(A)) = Gains(A) /\ sum(Cost(A)) = Costs(A)
  BY DEF Gains, Costs, T
<1> HIDE DEF sum
<1> QED
  BY <1>4, <1>5, <1>6, <1>7, <1>8, <1>9, <1>10, <1>11

\* The coinbases on record, and what they paid.
Coinbases == DOMAIN transactions \cap CoinbaseId
CoinbaseRows == {u \in DOMAIN utxos : u[1] \in CoinbaseId}
Coined == [t \in DOMAIN transactions |->
              IF t \in CoinbaseId THEN transactions[t].amount ELSE 0]
FeeOf == [t \in DOMAIN transactions |-> transactions[t].fee]

LEMMA CoinedRows ==
    ASSUME IInv, BooksInv
    PROVE  AmountOf(CoinbaseRows) = SumFunctionOnSet(Coined, DOMAIN transactions)
<1> DEFINE T == DOMAIN transactions
           P == [t \in Coinbases |-> Made(t)]
           A == Address
           C == Coinbases
<1>1. IsFiniteSet(T) /\ IsFiniteSet(DOMAIN utxos) /\ C \subseteq T /\ IsFiniteSet(C)
  <2>1. C \subseteq T
    BY DEF Coinbases
  <2> QED
    BY <2>1, FS_Subset DEF BooksInv, Finite
<1>2. \A t \in C : Written(A)[t] = Coined[t]
  <2> TAKE t \in C
  <2>1. t \in DOMAIN transactions /\ t \in CoinbaseId
    BY DEF Coinbases
  <2>2. transactions[t].from \notin A
    BY <2>1, ConstantsAssumption DEF BooksInv, Books
  <2>3. transactions[t].to \in A
    BY <2>1 DEF IInv, TypeOK, TxRow
  <2>4. Written(A)[t] = Gain(A)[t] + 0
    BY <2>1, <2>2, WrittenOf
  <2>5. Gain(A)[t] = transactions[t].amount /\ Coined[t] = transactions[t].amount
    BY <2>1, <2>3 DEF Gain, Coined
  <2>6. Gain(A)[t] \in Nat
    BY <2>1, Amounts
  <2> QED
    BY <2>4, <2>5, <2>6
<1>3. Parts(P, C, DOMAIN utxos, Weight(A), Coined)
  <2>1. \A u \in DOMAIN utxos : Weight(A)[u] \in Int
    BY Amounts
  <2>2. \A t \in C : P[t] \subseteq DOMAIN utxos
    BY DEF Made
  <2>3. \A s, t \in C : s # t => P[s] \cap P[t] = {}
    BY DEF Made
  <2>4. \A t \in C : Coined[t] = SumFunctionOnSet(Weight(A), P[t])
    <3> TAKE t \in C
    <3>1. t \in DOMAIN transactions /\ P[t] = Made(t)
      BY DEF Coinbases
    <3>2. Written(A)[t] = SumFunctionOnSet(Weight(A), Made(t))
      BY <3>1 DEF Written, Holding
    <3> QED
      BY <1>2, <3>1, <3>2
  <2> HIDE DEF P, C
  <2> QED
    BY <1>1, <2>1, <2>2, <2>3, <2>4 DEF Parts
<1>4. UNION {P[t] : t \in C} = CoinbaseRows
  <2>1. \A u \in CoinbaseRows : u[1] \in C /\ u \in P[u[1]]
    BY DEF Made, IInv, Traceable, CoinbaseRows, Coinbases
  <2>2. \A t \in C : P[t] \subseteq CoinbaseRows
    BY DEF Made, CoinbaseRows, Coinbases
  <2> HIDE DEF P, C
  <2> QED
    BY <2>1, <2>2
<1>5. Holding(A, CoinbaseRows) = SumFunctionOnSet(Coined, C)
  <2> HIDE DEF P, C, A
  <2>1. SumFunctionOnSet(Weight(A), UNION {P[t] : t \in C}) = SumFunctionOnSet(Coined, C)
    BY <1>3, SumParts
  <2> QED
    BY <1>4, <2>1 DEF Holding
<1>6. Holding(A, CoinbaseRows) = AmountOf(CoinbaseRows)
  <2>1. CoinbaseRows \subseteq DOMAIN utxos
    BY DEF CoinbaseRows
  <2>2. \A u \in CoinbaseRows : utxos[u].address \in A
    BY DEF CoinbaseRows, IInv, TypeOK, UtxoRow
  <2> HIDE DEF A
  <2> QED
    BY <2>1, <2>2, HoldingOf
<1>7. SumFunctionOnSet(Coined, T) = SumFunctionOnSet(Coined, C)
  <2>1. \A t \in C : Coined[t] \in Int
    BY Amounts DEF Coined, Coinbases
  <2>2. \A t \in T \ C : Coined[t] = 0
    BY DEF Coined, Coinbases
  <2> HIDE DEF T, C
  <2> QED
    BY <1>1, <2>1, <2>2, SumSupport
<1> QED
  BY <1>5, <1>6, <1>7

\* What the transfers on record took, and what they misstate.
Excess == [t \in DOMAIN transactions |-> IF t \in Transfer THEN Overstated(t) ELSE 0]

LEMMA TransferOrCoinbase ==
    ASSUME IInv, NEW t \in DOMAIN transactions
    PROVE  t \in Transfer <=> t \notin CoinbaseId
BY ConstantsAssumption DEF IInv, TypeOK, Txid

\* One transaction wrote, with its fee, what it took, coined and misstated.
LEMMA OneBalances ==
    ASSUME IInv, BooksInv, NEW t \in DOMAIN transactions
    PROVE  /\ Written(Address)[t] \in Nat /\ Taken(Address)[t] \in Nat
           /\ FeeOf[t] \in Nat /\ Coined[t] \in Nat /\ Excess[t] \in Int
           /\ Written(Address)[t] + FeeOf[t] = Taken(Address)[t] + Coined[t] + Excess[t]
<1> DEFINE S == transactions[t].inputs
<1>1. Books(t)
  BY DEF BooksInv
<1>2. transactions[t].to \in Address
  BY DEF IInv, TypeOK, TxRow
<1>3. /\ transactions[t].amount \in Nat /\ transactions[t].fee \in Nat
      /\ Change(t) \in Nat
  BY Amounts
<1>4. Gain(Address)[t] = transactions[t].amount /\ FeeOf[t] = transactions[t].fee
  BY <1>2 DEF Gain, FeeOf
<1>5. Written(Address)[t] = Gain(Address)[t]
          + (IF transactions[t].from \in Address THEN Change(t) ELSE 0)
  BY WrittenOf
<1>6. S \subseteq DOMAIN utxos
  BY InputsAreRows DEF BooksInv
<1>7. Taken(Address)[t] = Holding(Address, S)
  BY DEF Taken
<1>8. Holding(Address, S) = AmountOf(S) /\ Holding(Address, S) \in Nat
  <2>1. \A u \in S : utxos[u].address \in Address
    BY <1>6 DEF IInv, TypeOK, UtxoRow
  <2> HIDE DEF S
  <2> QED
    BY <1>6, <2>1, HoldingOf
<1>9. CASE t \in CoinbaseId
  <2>1. transactions[t].from \notin Address /\ transactions[t].fee = 0 /\ S = {}
    BY <1>1, <1>9, ConstantsAssumption DEF Books
  <2>2. Coined[t] = transactions[t].amount /\ Excess[t] = 0
    BY <1>9, TransferOrCoinbase DEF Coined, Excess
  <2>3. Holding(Address, S) = 0
    BY <2>1, SumEmpty DEF Holding
  <2> HIDE DEF S
  <2> QED
    BY <1>3, <1>4, <1>5, <1>7, <2>1, <2>2, <2>3
<1>10. CASE t \notin CoinbaseId
  <2>1. /\ transactions[t].from \in Address
        /\ Stated(t) = transactions[t].amount + transactions[t].fee + Change(t)
    BY <1>1, <1>10 DEF Books
  <2>2. Coined[t] = 0 /\ Excess[t] = Stated(t) - AmountOf(S)
    BY <1>10, TransferOrCoinbase DEF Coined, Excess, Overstated
  <2> HIDE DEF S
  <2> QED
    BY <1>3, <1>4, <1>5, <1>7, <1>8, <2>1, <2>2
<1> QED
  BY <1>9, <1>10

\* What honest transfers misstate.
LEMMA HonestOverstateNothing ==
    ASSUME HonestBlocks, IInv, BooksInv
    PROVE  Misstated = 0
<1> DEFINE f == [t \in Spends |-> Overstated(t)]
<1>1. IsFiniteSet(Spends)
  BY FS_Subset DEF Spends, BooksInv, Finite
<1>2. \A t \in Spends : f[t] = 0
  <2> TAKE t \in Spends
  <2>1. t \in DOMAIN transactions /\ t \notin CoinbaseId
    BY TransferOrCoinbase DEF Spends
  <2>2. Books(t)
    BY <2>1 DEF BooksInv
  <2>3. /\ AmountOf(transactions[t].inputs) = Stated(t)
        /\ Stated(t) = transactions[t].amount + transactions[t].fee + Change(t)
    BY <2>1, <2>2 DEF Books
  <2>4. Stated(t) \in Int
    BY <2>1, <2>3, Amounts
  <2>5. Overstated(t) = 0
    BY <2>3, <2>4 DEF Overstated
  <2> QED
    BY <2>5
<1> HIDE DEF f
<1>3. SumFunctionOnSet(f, Spends) = 0
  BY <1>1, <1>2, SumZero
<1> QED
  BY <1>3 DEF Misstated, f

\* The books of all transactions together: Conservation.
LEMMA BooksBalance == IInv /\ BooksInv => Conservation
<1> SUFFICES ASSUME IInv, BooksInv PROVE Conservation
  OBVIOUS
<1> DEFINE T == DOMAIN transactions
           A == Address
           sum(f) == SumFunctionOnSet(f, T)
           out == [t \in T |-> Written(A)[t] + FeeOf[t]]
           new == [t \in T |-> Coined[t] + Excess[t]]
<1>1. IsFiniteSet(T) /\ IsFiniteSet(Spends) /\ Spends \subseteq T
  <2>1. IsFiniteSet(T) /\ Spends \subseteq T
    BY DEF BooksInv, Finite, Spends
  <2> QED
    BY <2>1, FS_Subset
<1>2. ASSUME NEW t \in T
      PROVE  /\ Written(A)[t] \in Int /\ Taken(A)[t] \in Int
             /\ FeeOf[t] \in Int /\ Coined[t] \in Int /\ Excess[t] \in Int
             /\ out[t] = Written(A)[t] + FeeOf[t]
             /\ new[t] = Coined[t] + Excess[t] /\ new[t] \in Int
             /\ out[t] = Taken(A)[t] + new[t]
  <2>1. /\ Written(A)[t] \in Nat /\ Taken(A)[t] \in Nat
        /\ FeeOf[t] \in Nat /\ Coined[t] \in Nat /\ Excess[t] \in Int
        /\ Written(A)[t] + FeeOf[t] = Taken(A)[t] + Coined[t] + Excess[t]
    BY OneBalances
  <2> QED
    BY <2>1
<1> HIDE DEF T, A, out, new
<1>3. sum(out) = sum(Written(A)) + sum(FeeOf)
  BY <1>1, <1>2, SumPlus
<1>4. sum(new) = sum(Coined) + sum(Excess)
  BY <1>1, <1>2, SumPlus
<1>5. sum(out) = sum(Taken(A)) + sum(new)
  BY <1>1, <1>2, SumPlus
<1>6. /\ sum(Written(A)) \in Int /\ sum(Taken(A)) \in Int /\ sum(FeeOf) \in Int
      /\ sum(Coined) \in Int /\ sum(Excess) \in Int
  BY <1>1, <1>2, SumInt
<1>7. sum(Written(A)) = Holding(A, Unspent) + Holding(A, Stranded) + sum(Taken(A))
  BY AllWritten, AllTaken, RowsSplit DEF T
<1>8. Holding(A, Unspent) = AmountOf(Unspent) /\ Holding(A, Stranded) = AmountOf(Stranded)
  <2>1. \A u \in DOMAIN utxos : utxos[u].address \in A
    BY DEF IInv, TypeOK, UtxoRow, A
  <2>2. Unspent \subseteq DOMAIN utxos /\ Stranded \subseteq DOMAIN utxos
    BY DEF Unspent, Stranded
  <2> QED
    BY <2>1, <2>2, HoldingOf
<1>9. Holding(A, Unspent) \in Nat /\ Holding(A, Stranded) \in Nat
  BY HoldingOf DEF Unspent, Stranded
<1>10. sum(FeeOf) = FeesPaid
  BY DEF FeeOf, FeesPaid, T
<1>11. sum(Coined) = AmountOf(CoinbaseRows)
  BY CoinedRows DEF T
<1>12. sum(Excess) = Misstated
  <2> DEFINE f == [t \in Spends |-> Overstated(t)]
  <2>1. \A t \in Spends : f[t] \in Int /\ Excess[t] = f[t]
    BY <1>1, <1>2 DEF Excess, Spends, T
  <2>2. \A t \in T \ Spends : Excess[t] = 0
    BY DEF Excess, Spends, T
  <2> HIDE DEF f
  <2>3. SumFunctionOnSet(Excess, T) = SumFunctionOnSet(f, Spends)
    BY <1>1, <2>1, <2>2, SumSupport
  <2> QED
    BY <2>3 DEF Misstated, f
<1> HIDE DEF sum
<1>13. AmountOf(Unspent) + AmountOf(Stranded) + FeesPaid = AmountOf(CoinbaseRows) + Misstated
  BY <1>3, <1>4, <1>5, <1>6, <1>7, <1>8, <1>9, <1>10, <1>11, <1>12
<1>14. HonestBlocks => Misstated = 0
  BY HonestOverstateNothing
<1> QED
  BY <1>13, <1>14 DEF Conservation, CoinbaseRows

\* Money is neither created nor destroyed but by what blocks misstate: in any
\* mix of payments, replays (half replays, and of blocks that say what they
\* like) and rollbacks, what is unspent, stranded and paid in fees is what the
\* coinbases on record paid and the transfers on record overstate; which is
\* nothing if the blocks are honest.
THEOREM MoneyConserved == Spec => []Conservation
BY BooksInvariance, BooksBalance, PTL

-----------------------------------------------------------------------------
(***************************************************************************)
(* The store implements the book of accounts, step by step, as long as the *)
(* blocks are honest and no replay conflicts (ReplayRaces = FALSE):        *)
(* nothing is stranded then, and each transfer took what it states from    *)
(* its sender, so a balance is what the records say, and the balances      *)
(* after a step follow from the records that the step added or removed.    *)
(***************************************************************************)

NothingStranded == Stranded = {}

StoreInv == HonestBlocks /\ IInv /\ BooksInv /\ NothingStranded

\* A transfer names what it spends, and takes no spent row.
LEMMA TransferStrandsNothing ==
    ASSUME IInv, NothingStranded,
           NEW t \in Transfer, t \notin DOMAIN transactions,
           NEW from \in Address, NEW to \in Address,
           NEW amount \in Nat, NEW fee \in Nat, NEW claimed \in Nat,
           NEW S \in SUBSET DOMAIN utxos, NEW h \in Height,
           ApplyTransfer(t, from, to, amount, fee, claimed, S, h)
    PROVE  NothingStranded'
<1> DEFINE change == claimed - (amount + fee)
           new == Outputs(t, from, to, amount, change, h)
           old == Spend(S, t)
           tx == [inputs |-> S, claimed |-> claimed, from |-> from, to |-> to,
                  amount |-> amount, fee |-> fee, height |-> h]
<1>1. /\ DOMAIN transactions' = DOMAIN transactions \cup {t}
      /\ \A x \in DOMAIN transactions : transactions'[x] = transactions[x]
      /\ transactions'[t] = tx
  BY TransferRecord
<1>2. transactions'[t].inputs = S
  BY <1>1
<1> HIDE DEF tx
<1>3. utxos' = Insert(new, old)
  BY DEF ApplyTransfer
<1>4. DOMAIN old = DOMAIN utxos
  BY DEF Spend
<1>5. \A u \in DOMAIN new : new[u].status = "unspent"
  BY DEF Outputs, NewRow
<1>6. \A u \in DOMAIN utxos \ S : old[u] = utxos[u]
  BY DEF Spend
<1> HIDE DEF new, old
<1>7. \A u \in DOMAIN utxos' :
          \/ utxos'[u].status = "unspent"
          \/ u \in DOMAIN utxos /\ utxos'[u] = old[u]
  <2> TAKE u \in DOMAIN utxos'
  <2>1. utxos'[u] = IF u \in DOMAIN new THEN new[u] ELSE old[u]
    BY <1>3 DEF Insert
  <2>2. u \in DOMAIN new \/ u \in DOMAIN old
    BY <1>3 DEF Insert
  <2>3. CASE u \in DOMAIN new
    BY <1>5, <2>1, <2>3
  <2>4. CASE u \notin DOMAIN new
    BY <1>4, <2>1, <2>2, <2>4
  <2> QED
    BY <2>3, <2>4
<1>8. ASSUME NEW u \in DOMAIN utxos', utxos'[u].status = "spent"
      PROVE  \E x \in DOMAIN transactions' : u \in transactions'[x].inputs
  <2>1. u \in DOMAIN utxos /\ utxos'[u] = old[u]
    BY <1>7, <1>8
  <2>2. CASE u \in S
    BY <1>1, <1>2, <2>2
  <2>3. CASE u \notin S
    <3>1. utxos[u].status = "spent"
      BY <1>6, <1>8, <2>1, <2>3
    <3>2. PICK x \in DOMAIN transactions : u \in transactions[x].inputs
      BY <2>1, <3>1 DEF NothingStranded, Stranded
    <3> QED
      BY <1>1, <3>2
  <2> QED
    BY <2>2, <2>3
<1> QED
  BY <1>8 DEF NothingStranded, Stranded

LEMMA CoinbaseStrandsNothing ==
    ASSUME IInv, BooksInv, NothingStranded,
           NEW a \in Address, NEW h \in Height, NEW amount \in Nat,
           CreateCoinbase(a, amount, h)
    PROVE  NothingStranded'
<1>1. CASE CoinbaseAt(h) # {}
  <2>1. utxos' = utxos /\ transactions' = transactions
    BY <1>1 DEF CreateCoinbase, CoinbaseUtxos, CoinbaseTransactions
  <2> QED
    BY <2>1 DEF NothingStranded, Stranded
<1>2. CASE CoinbaseAt(h) = {}
  <2> DEFINE id == [miner |-> a, height |-> h]
             row == NewRow(a, amount, h)
  <2>1. \A u \in DOMAIN utxos' :
            \/ utxos'[u] = row
            \/ u \in DOMAIN utxos /\ utxos'[u] = utxos[u]
    <3> DEFINE g == [u \in {<<id, 0>>} |-> row]
    <3>1. utxos' = Insert(utxos, g)
      BY <1>2 DEF CreateCoinbase, CoinbaseUtxos
    <3>2. \A u \in DOMAIN g : g[u] = row
      OBVIOUS
    <3> HIDE DEF g, row, id
    <3> TAKE u \in DOMAIN utxos'
    <3>3. utxos'[u] = IF u \in DOMAIN utxos THEN utxos[u] ELSE g[u]
      BY <3>1 DEF Insert
    <3>4. u \in DOMAIN utxos \/ u \in DOMAIN g
      BY <3>1 DEF Insert
    <3> QED
      BY <3>2, <3>3, <3>4
  <2>2. /\ DOMAIN transactions \subseteq DOMAIN transactions'
        /\ \A t \in DOMAIN transactions : transactions'[t] = transactions[t]
    BY <1>2 DEF CreateCoinbase, CoinbaseTransactions, Insert
  <2>3. row.status = "unspent"
    BY DEF NewRow
  <2> HIDE DEF id, row
  <2> QED
    BY <2>1, <2>2, <2>3 DEF NothingStranded, Stranded
<1> QED
  BY <1>1, <1>2

\* A rollback frees the inputs of every transaction it removes.
LEMMA RollbackStrandsNothing ==
    ASSUME IInv, NothingStranded, NEW h \in Height, RollbackTo(h)
    PROVE  NothingStranded'
<1>1. /\ DOMAIN transactions' = DOMAIN transactions \ Above(h)
      /\ \A t \in DOMAIN transactions' : transactions'[t] = transactions[t]
  BY DEF RollbackTo
<1>2. ASSUME NEW u \in DOMAIN utxos', utxos'[u].status = "spent"
      PROVE  \E x \in DOMAIN transactions' : u \in transactions'[x].inputs
  <2>1. u \in DOMAIN utxos
    BY DEF RollbackTo
  <2>2. utxos[u] \in UtxoRow
    BY <2>1 DEF IInv, TypeOK
  <2>3. \/ /\ u \in Freed(h) /\ utxos[u].status = "spent"
           /\ utxos'[u] = [utxos[u] EXCEPT !.status = "unspent", !.spentBy = NoTx]
        \/ /\ ~(u \in Freed(h) /\ utxos[u].status = "spent")
           /\ utxos'[u] = utxos[u]
    BY DEF RollbackTo
  <2>4. utxos[u].status = "spent" /\ u \notin Freed(h)
    BY <1>2, <2>2, <2>3 DEF UtxoRow
  <2>5. PICK x \in DOMAIN transactions : u \in transactions[x].inputs
    BY <2>1, <2>4 DEF NothingStranded, Stranded
  <2>6. x \notin Above(h)
    BY <2>4, <2>5 DEF Freed
  <2> QED
    BY <1>1, <2>5, <2>6
<1> QED
  BY <1>2 DEF NothingStranded, Stranded

\* What an address owns is what the records paid it, less what it spent.
LEMMA BalanceIs ==
    ASSUME StoreInv, NEW a \in Address
    PROVE  /\ Balance(a) = Holding({a}, Unspent)
           /\ Balance(a) = Gains({a}) - Costs({a})
           /\ Balance(a) \in Nat /\ Gains({a}) \in Nat /\ Costs({a}) \in Nat
<1> DEFINE A == {a}
           mine == {u \in Unspent : utxos[u].address = a}
<1> USE DEF StoreInv
<1>1. /\ Holding(A, Unspent) + Holding(A, Stranded) + Costs(A) = Gains(A)
      /\ Gains(A) \in Nat /\ Costs(A) \in Nat
      /\ Holding(A, Unspent) \in Nat
  BY Flow
<1>2. Holding(A, Stranded) = 0
  BY SumEmpty DEF NothingStranded, Holding
<1>3. mine \subseteq Unspent /\ Unspent \subseteq DOMAIN utxos /\ IsFiniteSet(Unspent)
  <2>1. Unspent \subseteq DOMAIN utxos
    BY DEF Unspent
  <2> QED
    BY <2>1, FS_Subset DEF BooksInv, Finite
<1>4. AmountOf(mine) = Holding(A, mine)
  <2>1. mine \subseteq DOMAIN utxos /\ \A u \in mine : utxos[u].address \in A
    BY <1>3
  <2> HIDE DEF mine, A
  <2> QED
    BY <2>1, HoldingOf
<1>5. Holding(A, Unspent) = Holding(A, mine)
  <2>1. \A u \in mine : Weight(A)[u] \in Int
    BY <1>3, Amounts
  <2>2. \A u \in Unspent \ mine : Weight(A)[u] = 0
    BY <1>3 DEF Weight
  <2> HIDE DEF mine, A
  <2> QED
    BY <1>3, <2>1, <2>2, SumSupport DEF Holding
<1>6. Balance(a) = AmountOf(mine)
  BY DEF Balance
<1> HIDE DEF mine, A
<1>7. Balance(a) = Holding(A, Unspent)
  BY <1>4, <1>5, <1>6
<1>8. Balance(a) = Gains(A) - Costs(A)
  BY <1>1, <1>2, <1>7
<1> QED
  BY <1>1, <1>7, <1>8 DEF A

BalancesRight ==
    \A a \in Address :
        /\ Balance(a) = Gains({a}) - Costs({a})
        /\ Balance(a) \in Nat /\ Gains({a}) \in Nat /\ Costs({a}) \in Nat

LEMMA StoreHasBalances == StoreInv => BalancesRight
BY BalanceIs DEF BalancesRight

LEMMA StoreHasBalancesNext == StoreInv' => BalancesRight'
BY StoreHasBalances, PTL

\* One transaction comes on record, and nothing else of the table changes.
Recorded(i, from, to, amount, fee, h) ==
    /\ i \notin DOMAIN transactions
    /\ DOMAIN transactions' = DOMAIN transactions \cup {i}
    /\ \A t \in DOMAIN transactions : transactions'[t] = transactions[t]
    /\ transactions'[i].from = from /\ transactions'[i].to = to
    /\ transactions'[i].amount = amount /\ transactions'[i].fee = fee
    /\ transactions'[i].height = h

LEMMA RecordedSums ==
    ASSUME StoreInv, NEW i, NEW from, NEW to, NEW amount \in Nat, NEW fee \in Nat, NEW h,
           Recorded(i, from, to, amount, fee, h), NEW A
    PROVE  /\ Gains(A)' = Gains(A) + (IF to \in A THEN amount ELSE 0)
           /\ Costs(A)' = Costs(A) + (IF from \in A THEN amount + fee ELSE 0)
<1> DEFINE T == DOMAIN transactions
           g == Gain(A)
           c == Cost(A)
           g1 == [t \in T \cup {i} |-> IF t = i THEN IF to \in A THEN amount ELSE 0 ELSE g[t]]
           c1 == [t \in T \cup {i} |->
                     IF t = i THEN IF from \in A THEN amount + fee ELSE 0 ELSE c[t]]
<1>1. IsFiniteSet(T) /\ i \notin T
  BY DEF StoreInv, BooksInv, Finite, Recorded
<1>2. \A t \in T : g[t] \in Nat /\ c[t] \in Nat
  BY Amounts DEF StoreInv
<1>3. g1 = Gain(A)' /\ c1 = Cost(A)'
  <2>1. \A t \in T \cup {i} : g1[t] = IF transactions'[t].to \in A THEN transactions'[t].amount ELSE 0
    BY DEF Recorded, Gain
  <2>2. \A t \in T \cup {i} : c1[t] = IF transactions'[t].from \in A
                                      THEN transactions'[t].amount + transactions'[t].fee ELSE 0
    BY DEF Recorded, Cost
  <2>3. T \cup {i} = DOMAIN transactions'
    BY DEF Recorded
  <2>4. g1 = [t \in DOMAIN transactions' |->
                 IF transactions'[t].to \in A THEN transactions'[t].amount ELSE 0]
    BY <2>1, <2>3
  <2>5. c1 = [t \in DOMAIN transactions' |->
                 IF transactions'[t].from \in A
                 THEN transactions'[t].amount + transactions'[t].fee ELSE 0]
    BY <2>2, <2>3
  <2> QED
    BY <2>4, <2>5 DEF Gain, Cost
<1>4. /\ \A t \in T : g1[t] = g[t] /\ c1[t] = c[t]
      /\ g1[i] = IF to \in A THEN amount ELSE 0
      /\ c1[i] = IF from \in A THEN amount + fee ELSE 0
  BY <1>1
<1>5. \A t \in T \cup {i} : g1[t] \in Int /\ c1[t] \in Int
  BY <1>2, <1>4
<1>6. /\ Gains(A)' = SumFunctionOnSet(g1, T \cup {i})
      /\ Costs(A)' = SumFunctionOnSet(c1, T \cup {i})
  BY <1>3 DEF Gains, Costs, Recorded
<1>7. Gains(A) = SumFunctionOnSet(g, T) /\ Costs(A) = SumFunctionOnSet(c, T)
  BY DEF Gains, Costs
<1> HIDE DEF T, g, c, g1, c1
<1>8. SumFunctionOnSet(g1, T \cup {i}) = g1[i] + SumFunctionOnSet(g1, T)
  BY <1>1, <1>5, SumAdd
<1>9. SumFunctionOnSet(c1, T \cup {i}) = c1[i] + SumFunctionOnSet(c1, T)
  BY <1>1, <1>5, SumAdd
<1>10. SumFunctionOnSet(g1, T) = SumFunctionOnSet(g, T)
  BY <1>1, <1>4, SumSame
<1>11. SumFunctionOnSet(c1, T) = SumFunctionOnSet(c, T)
  BY <1>1, <1>4, SumSame
<1>12. SumFunctionOnSet(g, T) \in Nat
  BY <1>1, <1>2, SumNat
<1>13. SumFunctionOnSet(c, T) \in Nat
  BY <1>1, <1>2, SumNat
<1> QED
  BY <1>4, <1>6, <1>7, <1>8, <1>9, <1>10, <1>11, <1>12, <1>13

\* Balances move by what was recorded.
LEMMA RecordedBalances ==
    ASSUME StoreInv, StoreInv', NEW i, NEW from, NEW to,
           NEW amount \in Nat, NEW fee \in Nat, NEW h,
           Recorded(i, from, to, amount, fee, h), NEW a \in Address
    PROVE  Balance(a)' = Balance(a) + (IF to = a THEN amount ELSE 0)
                         - (IF from = a THEN amount + fee ELSE 0)
<1>1. BalancesRight /\ BalancesRight'
  BY StoreHasBalances, StoreHasBalancesNext
<1>2. /\ Balance(a) = Gains({a}) - Costs({a})
      /\ Gains({a}) \in Nat /\ Costs({a}) \in Nat
  BY <1>1 DEF BalancesRight
<1>3. Balance(a)' = Gains({a})' - Costs({a})'
  BY <1>1 DEF BalancesRight
<1>4. \A A : /\ Gains(A)' = Gains(A) + (IF to \in A THEN amount ELSE 0)
             /\ Costs(A)' = Costs(A) + (IF from \in A THEN amount + fee ELSE 0)
  BY RecordedSums
<1>5. to \in {a} <=> to = a
  OBVIOUS
<1>6. from \in {a} <=> from = a
  OBVIOUS
<1> QED
  BY <1>2, <1>3, <1>4, <1>5, <1>6

-----------------------------------------------------------------------------
(* The mapping, and what it makes of the steps. *)

Entries ==
    [t \in DOMAIN transactions |->
        [from |-> transactions[t].from, to |-> transactions[t].to,
         amount |-> transactions[t].amount, fee |-> transactions[t].fee,
         height |-> transactions[t].height]]

Balances == [a \in Address |-> Balance(a)]

\* What comes on record is one new entry.
LEMMA RecordedEntry ==
    ASSUME NEW i, NEW from, NEW to, NEW amount, NEW fee, NEW h,
           Recorded(i, from, to, amount, fee, h)
    PROVE  /\ Ledger!Record(i, [from |-> from, to |-> to, amount |-> amount,
                                fee |-> fee, height |-> h])
           /\ Entries'[i] = [from |-> from, to |-> to, amount |-> amount,
                             fee |-> fee, height |-> h]
           /\ Ledger!Added(i)
<1> DEFINE e == [from |-> from, to |-> to, amount |-> amount, fee |-> fee, height |-> h]
<1>1. i \notin DOMAIN Entries
  BY DEF Recorded, Entries
<1>2. Entries' = [j \in DOMAIN Entries \cup {i} |-> IF j = i THEN e ELSE Entries[j]]
  <2> DEFINE now(t) == [from |-> transactions'[t].from, to |-> transactions'[t].to,
                        amount |-> transactions'[t].amount, fee |-> transactions'[t].fee,
                        height |-> transactions'[t].height]
  <2>1. Entries' = [t \in DOMAIN transactions' |-> now(t)]
    BY DEF Entries
  <2>2. DOMAIN transactions' = DOMAIN Entries \cup {i}
    BY DEF Recorded, Entries
  <2>3. now(i) = e
    BY DEF Recorded
  <2>4. \A t \in DOMAIN Entries : t # i /\ now(t) = Entries[t]
    BY DEF Recorded, Entries
  <2> HIDE DEF now, e
  <2>5. \A t \in DOMAIN Entries \cup {i} : now(t) = IF t = i THEN e ELSE Entries[t]
    BY <2>3, <2>4
  <2> QED
    BY <2>1, <2>2, <2>5
<1>3. Ledger!Record(i, e)
  BY <1>1, <1>2 DEF Ledger!Record, Entries
<1>4. Ledger!Added(i)
  BY <1>1, <1>2 DEF Ledger!Added, Entries
<1>5. Entries'[i] = e
  BY <1>2
<1> QED
  BY <1>3, <1>4, <1>5

\* A coinbase is a minting, or invisible.
LEMMA CoinbaseMints ==
    ASSUME StoreInv, StoreInv', NEW a \in Address, NEW h \in Height,
           CreateCoinbase(a, Reward, h)
    PROVE  [Ledger!Next]_Ledger!book
<1> DEFINE id == [miner |-> a, height |-> h]
<1>1. CASE CoinbaseAt(h) # {}
  <2>1. utxos' = utxos /\ transactions' = transactions
    BY <1>1 DEF CreateCoinbase, CoinbaseUtxos, CoinbaseTransactions
  <2> QED
    BY <2>1 DEF Ledger!book, Balance, AmountOf, Unspent
<1>2. CASE CoinbaseAt(h) = {}
  <2>1. \A t \in DOMAIN transactions \cap CoinbaseId : t.height # h
    BY <1>2, CoinbaseOnce DEF StoreInv
  <2>2. id \in CoinbaseId /\ id \in Txid /\ id.height = h
    BY DEF CoinbaseId, Txid
  <2>3. id \notin DOMAIN transactions
    BY <2>1, <2>2
  <2>4. Recorded(id, Mint, a, Reward, 0, h)
    BY <1>2, <2>3 DEF CreateCoinbase, CoinbaseTransactions, Insert, Recorded
  <2> HIDE DEF id
  <2>5. \A j \in Ledger!By(DOMAIN Entries, Mint) : Entries[j].height # h
    <3> TAKE j \in Ledger!By(DOMAIN Entries, Mint)
    <3>1. j \in DOMAIN transactions /\ transactions[j].from = Mint
      BY DEF Ledger!By, Entries
    <3>2. j \in CoinbaseId
      BY <3>1, ConstantsAssumption DEF StoreInv, BooksInv, Books
    <3>3. transactions[j].height # h
      BY <2>1, <3>1, <3>2 DEF StoreInv, IInv, CoinbaseHeights
    <3> QED
      BY <3>1, <3>3 DEF Entries
  <2>6. Balances' = [Balances EXCEPT ![a] = @ + Reward]
    <3>1. Reward \in Nat /\ Mint \notin Address
      BY ConstantsAssumption
    <3>2. \A x \in Address : Balance(x)' = Balance(x) + (IF a = x THEN Reward ELSE 0)
                                 - (IF Mint = x THEN Reward + 0 ELSE 0)
      BY <2>4, <3>1, RecordedBalances
    <3>3. \A x \in Address : Balance(x) \in Nat
      BY StoreHasBalances DEF BalancesRight
    <3>4. \A x \in Address : Balance(x)' = IF x = a THEN Balance(x) + Reward ELSE Balance(x)
      BY <3>1, <3>2, <3>3
    <3> QED
      BY <3>4 DEF Balances
  <2>7. Ledger!MintTo(id, a, Reward, h)
    BY <2>4, <2>5, <2>6, RecordedEntry DEF Ledger!MintTo, Entries, Balances
  <2>8. /\ Ledger!Added(id)
        /\ Entries'[id] = [from |-> Mint, to |-> a, amount |-> Reward, fee |-> 0, height |-> h]
    BY <2>4, RecordedEntry
  <2>9. Ledger!Next
    <3>1. /\ Entries'[id].to = a /\ Entries'[id].amount = Reward
          /\ Entries'[id].height = h
      BY <2>8
    <3> QED
      BY <2>2, <2>7, <2>8, <3>1 DEF Ledger!Next, Entries
  <2> QED
    BY <2>9
<1> QED
  BY <1>1, <1>2

\* What the rows of S are worth, their owner can spend.
LEMMA Affordable ==
    ASSUME StoreInv, NEW from \in Address,
           NEW amount \in Nat, NEW fee \in Nat, NEW claimed \in Nat,
           NEW S \in SUBSET DOMAIN utxos, \A u \in S : IsUnspent(u),
           Covers(S, from, amount, fee, claimed)
    PROVE  Balance(from) >= amount + fee
<1> DEFINE A == {from}
<1>1. Holding(A, S) = AmountOf(S) /\ Holding(A, S) \in Nat
  BY HoldingOf DEF Covers, StoreInv
<1>2. AmountOf(S) >= amount + fee
  BY DEF Covers
<1>3. S \subseteq Unspent /\ Unspent \subseteq DOMAIN utxos
  BY DEF IsUnspent, Unspent
<1>4. IsFiniteSet(Unspent)
  BY <1>3, FS_Subset DEF StoreInv, BooksInv, Finite
<1>5. \A u \in Unspent : Weight(A)[u] \in Nat
  BY <1>3, Amounts DEF StoreInv
<1>6. Balance(from) = Holding(A, Unspent) /\ Balance(from) \in Nat
  BY BalanceIs
<1> HIDE DEF A
<1>7. SumFunctionOnSet(Weight(A), S) <= SumFunctionOnSet(Weight(A), Unspent)
  BY <1>3, <1>4, <1>5, SumPart
<1> QED
  BY <1>1, <1>2, <1>6, <1>7 DEF Holding

\* A transfer, of the node or replayed, is a payment that can be afforded.
LEMMA TransferMoves ==
    ASSUME StoreInv, StoreInv',
           NEW t \in Transfer, t \notin DOMAIN transactions,
           NEW from \in Address, NEW to \in Address,
           NEW amount \in Nat, NEW fee \in Nat, NEW claimed \in Nat,
           NEW S \in SUBSET DOMAIN utxos, NEW h \in Height,
           \A u \in S : IsUnspent(u),
           Covers(S, from, amount, fee, claimed),
           ApplyTransfer(t, from, to, amount, fee, claimed, S, h)
    PROVE  [Ledger!Next]_Ledger!book
<1> DEFINE tx == [inputs |-> S, claimed |-> claimed, from |-> from, to |-> to,
                  amount |-> amount, fee |-> fee, height |-> h]
<1>1. /\ DOMAIN transactions' = DOMAIN transactions \cup {t}
      /\ \A x \in DOMAIN transactions : transactions'[x] = transactions[x]
      /\ transactions'[t] = tx
  BY TransferRecord DEF StoreInv
<1>2. Recorded(t, from, to, amount, fee, h)
  BY <1>1 DEF Recorded
<1> HIDE DEF tx
<1>3. t \in Txid
  BY DEF Txid
<1>4. Balances[from] >= amount + fee
  BY Affordable DEF Balances
<1>5. Balances' = [[Balances EXCEPT ![from] = @ - (amount + fee)] EXCEPT ![to] = @ + amount]
  <2>1. \A x \in Address : Balance(x)' = Balance(x) + (IF to = x THEN amount ELSE 0)
                               - (IF from = x THEN amount + fee ELSE 0)
    BY <1>2, <1>3, RecordedBalances
  <2>2. \A x \in Address : Balance(x) \in Nat
    BY StoreHasBalances DEF BalancesRight
  <2> DEFINE due == [Balances EXCEPT ![from] = @ - (amount + fee)]
             done == [due EXCEPT ![to] = @ + amount]
  <2>3. \A x \in Address : due[x] = IF x = from THEN Balance(x) - (amount + fee) ELSE Balance(x)
    BY DEF Balances
  <2>4. DOMAIN due = Address /\ DOMAIN done = Address
    BY DEF Balances
  <2>5. \A x \in Address : done[x] = IF x = to THEN due[x] + amount ELSE due[x]
    BY <2>4
  <2>6. done = [x \in Address |-> done[x]]
    BY <2>4
  <2> HIDE DEF due, done
  <2>7. \A x \in Address : Balance(x)' = done[x]
    BY <1>3, <2>1, <2>2, <2>3, <2>5
  <2>8. Balances' = [x \in Address |-> done[x]]
    BY <2>7 DEF Balances
  <2> QED
    BY <2>6, <2>8 DEF done, due
<1>6. Ledger!Move(t, from, to, amount, fee, h)
  BY <1>2, <1>4, <1>5, RecordedEntry DEF Ledger!Move, Entries, Balances
<1>7. /\ Ledger!Added(t)
      /\ Entries'[t] = [from |-> from, to |-> to, amount |-> amount, fee |-> fee, height |-> h]
  BY <1>2, RecordedEntry
<1>8. /\ Entries'[t].from = from /\ Entries'[t].to = to /\ Entries'[t].amount = amount
      /\ Entries'[t].fee = fee /\ Entries'[t].height = h
  BY <1>7
<1> QED
  BY <1>3, <1>6, <1>7, <1>8 DEF Ledger!Next, Entries

\* A rollback undoes the entries above its height.
LEMMA UndoneSums ==
    ASSUME StoreInv, NEW h \in Height, RollbackTo(h), NEW A
    PROVE  /\ Gains(A) = Gains(A)' + SumFunctionOnSet(Gain(A), Above(h))
           /\ Costs(A) = Costs(A)' + SumFunctionOnSet(Cost(A), Above(h))
           /\ SumFunctionOnSet(Gain(A), Above(h)) \in Nat
           /\ SumFunctionOnSet(Cost(A), Above(h)) \in Nat
           /\ Gains(A)' \in Nat /\ Costs(A)' \in Nat
<1> DEFINE T == DOMAIN transactions
           U == Above(h)
           K == T \ U
           g == Gain(A)
           c == Cost(A)
           g1 == Gain(A)'
           c1 == Cost(A)'
<1>1. DOMAIN transactions' = K /\ \A t \in K : transactions'[t] = transactions[t]
  BY DEF RollbackTo
<1>2. \A t \in T : g[t] \in Nat /\ c[t] \in Nat
  BY Amounts DEF StoreInv
<1>3. \A t \in K : g1[t] = g[t] /\ c1[t] = c[t]
  BY <1>1 DEF Gain, Cost
<1>4. U \subseteq T /\ K \cup U = T /\ K \cap U = {}
  BY DEF Above
<1>5. IsFiniteSet(T) /\ IsFiniteSet(U) /\ IsFiniteSet(K)
  <2>1. IsFiniteSet(T) /\ K \subseteq T
    BY DEF StoreInv, BooksInv, Finite
  <2> QED
    BY <1>4, <2>1, FS_Subset
<1>6. /\ Gains(A) = SumFunctionOnSet(g, T) /\ Costs(A) = SumFunctionOnSet(c, T)
      /\ Gains(A)' = SumFunctionOnSet(g1, K) /\ Costs(A)' = SumFunctionOnSet(c1, K)
  BY <1>1 DEF Gains, Costs
<1> HIDE DEF T, U, K, g, c, g1, c1
<1>7. SumFunctionOnSet(g, K \cup U) = SumFunctionOnSet(g, K) + SumFunctionOnSet(g, U)
  <2>1. \A t \in K \cup U : g[t] \in Int
    BY <1>2, <1>4
  <2> QED
    BY <1>4, <1>5, <2>1, SumUnion
<1>8. SumFunctionOnSet(c, K \cup U) = SumFunctionOnSet(c, K) + SumFunctionOnSet(c, U)
  <2>1. \A t \in K \cup U : c[t] \in Int
    BY <1>2, <1>4
  <2> QED
    BY <1>4, <1>5, <2>1, SumUnion
<1>9. SumFunctionOnSet(g1, K) = SumFunctionOnSet(g, K)
  BY <1>3, <1>5, SumSame
<1>10. SumFunctionOnSet(c1, K) = SumFunctionOnSet(c, K)
  BY <1>3, <1>5, SumSame
<1>11. \A t \in K : g[t] \in Nat /\ c[t] \in Nat
  BY <1>2, <1>4
<1>12. \A t \in U : g[t] \in Nat /\ c[t] \in Nat
  BY <1>2, <1>4
<1>13. SumFunctionOnSet(g, K) \in Nat
  BY <1>5, <1>11, SumNat
<1>14. SumFunctionOnSet(c, K) \in Nat
  BY <1>5, <1>11, SumNat
<1>15. SumFunctionOnSet(g, U) \in Nat
  BY <1>5, <1>12, SumNat
<1>16. SumFunctionOnSet(c, U) \in Nat
  BY <1>5, <1>12, SumNat
<1>17. /\ Gains(A) = Gains(A)' + SumFunctionOnSet(g, U)
       /\ Costs(A) = Costs(A)' + SumFunctionOnSet(c, U)
       /\ SumFunctionOnSet(g, U) \in Nat /\ SumFunctionOnSet(c, U) \in Nat
       /\ Gains(A)' \in Nat /\ Costs(A)' \in Nat
  BY <1>4, <1>6, <1>7, <1>8, <1>9, <1>10, <1>13, <1>14, <1>15, <1>16
<1> QED
  BY <1>17 DEF g, c, U

\* The book sums as the store does.
LEMMA BookSum ==
    \A f, S : Ledger!SumFunctionOnSet(f, S) = SumFunctionOnSet(f, S)
BY DEF Ledger!SumFunctionOnSet, Ledger!FoldFunctionOnSet, Ledger!MapThenFoldSet,
       SumFunctionOnSet, FoldFunctionOnSet, MapThenFoldSet

\* The book's credits and debits of a set of entries are the store's sums.
LEMMA BookSums ==
    ASSUME StoreInv, NEW E \in SUBSET DOMAIN transactions, NEW a \in Address
    PROVE  /\ Ledger!Credit(E, a) = SumFunctionOnSet(Gain({a}), E)
           /\ Ledger!Debit(E, a) = SumFunctionOnSet(Cost({a}), E)
<1> DEFINE A == {a}
           g == Gain(A)
           c == Cost(A)
           to == {i \in E : transactions[i].to = a}
           from == {i \in E : transactions[i].from = a}
           f1 == [i \in E |-> transactions[i].amount]
           f2 == [i \in E |-> transactions[i].amount + transactions[i].fee]
<1>1. IsFiniteSet(E)
  BY FS_Subset DEF StoreInv, BooksInv, Finite
<1>2. \A i \in E : transactions[i].amount \in Nat /\ transactions[i].fee \in Nat
  BY Amounts DEF StoreInv
<1>3. Ledger!Of(E, a) = to /\ Ledger!By(E, a) = from
  BY DEF Ledger!Of, Ledger!By
<1>4. Ledger!Credit(E, a) = SumFunctionOnSet(f1, to)
  <2>1. f1 = [i \in E |-> Entries[i].amount]
    BY DEF Entries
  <2>2. Ledger!Credit(E, a) = SumFunctionOnSet([i \in E |-> Entries[i].amount], to)
    BY <1>3, BookSum DEF Ledger!Credit, Entries
  <2> QED
    BY <2>1, <2>2
<1>5. Ledger!Debit(E, a) = SumFunctionOnSet(f2, from)
  <2>1. f2 = [i \in E |-> Entries[i].amount + Entries[i].fee]
    BY DEF Entries
  <2>2. Ledger!Debit(E, a) = SumFunctionOnSet([i \in E |-> Entries[i].amount + Entries[i].fee], from)
    BY <1>3, BookSum DEF Ledger!Debit, Entries
  <2> QED
    BY <2>1, <2>2
<1>6. to \subseteq E /\ \A i \in to : f1[i] \in Int /\ g[i] = f1[i]
  BY <1>2 DEF Gain
<1>7. \A i \in E \ to : g[i] = 0
  BY DEF Gain
<1>8. from \subseteq E /\ \A i \in from : f2[i] \in Int /\ c[i] = f2[i]
  BY <1>2 DEF Cost
<1>9. \A i \in E \ from : c[i] = 0
  BY DEF Cost
<1> HIDE DEF to, from, f1, f2, g, c
<1>10. SumFunctionOnSet(g, E) = SumFunctionOnSet(f1, to)
  BY <1>1, <1>6, <1>7, SumSupport
<1>11. SumFunctionOnSet(c, E) = SumFunctionOnSet(f2, from)
  BY <1>1, <1>8, <1>9, SumSupport
<1> QED
  BY <1>4, <1>5, <1>10, <1>11 DEF g, c

LEMMA RollbackUndoes ==
    ASSUME StoreInv, StoreInv', NEW h \in Height, RollbackTo(h)
    PROVE  [Ledger!Next]_Ledger!book
<1> DEFINE undone == {i \in DOMAIN Entries : Entries[i].height > h}
<1>1. undone = Above(h) /\ Above(h) \subseteq DOMAIN transactions
  BY DEF Entries, Above
<1>2. Entries' = [i \in DOMAIN Entries \ undone |-> Entries[i]]
  <2>1. DOMAIN transactions' = DOMAIN Entries \ undone
    BY <1>1 DEF RollbackTo, Entries
  <2>2. \A t \in DOMAIN transactions' :
            t \in DOMAIN transactions /\ transactions'[t] = transactions[t]
    BY DEF RollbackTo
  <2> HIDE DEF undone
  <2> QED
    BY <2>1, <2>2 DEF Entries
<1>3. \A a \in Address :
          /\ Balance(a)' = Balance(a) - Ledger!Credit(undone, a) + Ledger!Debit(undone, a)
          /\ Balance(a)' >= 0
  <2> TAKE a \in Address
  <2> DEFINE A == {a}
             g == SumFunctionOnSet(Gain(A), Above(h))
             c == SumFunctionOnSet(Cost(A), Above(h))
  <2>1. BalancesRight /\ BalancesRight'
    BY StoreHasBalances, StoreHasBalancesNext
  <2>2. /\ Balance(a) = Gains(A) - Costs(A)
        /\ Gains(A) \in Nat /\ Costs(A) \in Nat
    BY <2>1 DEF BalancesRight
  <2>3. Balance(a)' = Gains(A)' - Costs(A)' /\ Balance(a)' \in Nat
    BY <2>1 DEF BalancesRight
  <2>4. /\ Gains(A) = Gains(A)' + g /\ Costs(A) = Costs(A)' + c
        /\ g \in Nat /\ c \in Nat /\ Gains(A)' \in Nat /\ Costs(A)' \in Nat
    BY UndoneSums
  <2>5. Ledger!Credit(undone, a) = g /\ Ledger!Debit(undone, a) = c
    BY <1>1, BookSums
  <2> HIDE DEF A, g, c, undone
  <2> QED
    BY <2>2, <2>3, <2>4, <2>5
<1>4. /\ Balances' = [a \in Address |->
             Balances[a] - Ledger!Credit(undone, a) + Ledger!Debit(undone, a)]
      /\ \A a \in Address : Balances'[a] >= 0
  <2> HIDE DEF undone
  <2> QED
    BY <1>3 DEF Balances
<1>5. Ledger!Undo(h)
  BY <1>2, <1>4 DEF Ledger!Undo, Entries, Balances
<1> QED
  BY <1>5 DEF Ledger!Next

\* The tables start as an empty book.
LEMMA InitLedger == HonestBlocks /\ Init => StoreInv /\ Ledger!Init
<1> SUFFICES ASSUME HonestBlocks, Init PROVE StoreInv /\ Ledger!Init
  OBVIOUS
<1>1. DOMAIN utxos = {} /\ transactions = [t \in {} |-> {}]
  BY DEF Init
<1>2. StoreInv
  BY <1>1, InitIInv, InitBooks DEF StoreInv, NothingStranded, Stranded
<1>3. \A a \in Address : Balance(a) = 0
  <2> TAKE a \in Address
  <2>1. {u \in Unspent : utxos[u].address = a} = {}
    BY <1>1 DEF Unspent
  <2> QED
    BY <2>1, SumEmpty DEF Balance, AmountOf
<1>4. Ledger!Init
  <2>1. Entries = [i \in {} |-> {}]
    BY <1>1 DEF Entries
  <2>2. Balances = [a \in Address |-> 0]
    BY <1>3 DEF Balances
  <2> QED
    BY <2>1, <2>2 DEF Ledger!Init, Entries, Balances
<1> QED
  BY <1>2, <1>4

\* Who keeps the invariants strands nothing by a payment, and moves coin in
\* the book.
LEMMA PaymentKeepsStore ==
    ASSUME StoreInv,
           NEW t \in Transfer, t \notin DOMAIN transactions,
           NEW from \in Address, NEW to \in Address,
           NEW amount \in Nat, NEW fee \in Nat, NEW claimed \in Nat,
           NEW S \in SUBSET DOMAIN utxos, NEW h \in Height,
           \A u \in S : IsUnspent(u), AtOrAfterInputs(S, h),
           Covers(S, from, amount, fee, claimed),
           ApplyTransfer(t, from, to, amount, fee, claimed, S, h)
    PROVE  StoreInv' /\ [Ledger!Next]_Ledger!book
<1>1. IInv'
  BY TransferKeepsIInv DEF StoreInv
<1>2. BooksInv'
  BY TransferKeepsBooks DEF StoreInv
<1>3. NothingStranded'
  BY TransferStrandsNothing DEF StoreInv
<1>4. StoreInv'
  BY <1>1, <1>2, <1>3 DEF StoreInv
<1>5. [Ledger!Next]_Ledger!book
  BY <1>4, TransferMoves
<1> QED
  BY <1>4, <1>5

LEMMA NextLedger ==
    ReplayRaces = FALSE /\ StoreInv /\ [Next]_store
        => StoreInv' /\ [Ledger!Next]_Ledger!book
<1> SUFFICES ASSUME ReplayRaces = FALSE, StoreInv, [Next]_store
             PROVE  StoreInv' /\ [Ledger!Next]_Ledger!book
  OBVIOUS
<1>1. CASE Coinbase
  <2>1. PICK a \in Address, h \in Height : CreateCoinbase(a, Reward, h)
    BY <1>1 DEF Coinbase
  <2>2. IInv' /\ BooksInv'
    BY <1>1, NextKeepsIInv, NextKeepsBooks DEF StoreInv, Next
  <2>3. NothingStranded'
    BY <2>1, ConstantsAssumption, CoinbaseStrandsNothing DEF StoreInv
  <2>4. StoreInv'
    BY <2>2, <2>3 DEF StoreInv
  <2> QED
    BY <2>1, <2>4, CoinbaseMints
<1>2. CASE Pay \/ Replay \/ ReplayAnything
  <2>1. PICK t, from, to, amount, fee, claimed, S, h :
            Moved(t, from, to, amount, fee, claimed, S, h)
    BY <1>2, EveryTransfer
  <2> QED
    BY <2>1, PaymentKeepsStore DEF Moved, StoreInv
<1>4. CASE ReplayHitsConflict
  BY <1>4 DEF ReplayHitsConflict
<1>5. CASE Rollback
  <2>1. PICK h \in Height : RollbackTo(h)
    BY <1>5 DEF Rollback
  <2>2. IInv' /\ BooksInv'
    BY <1>5, NextKeepsIInv, NextKeepsBooks DEF StoreInv, Next
  <2>3. NothingStranded'
    BY <2>1, RollbackStrandsNothing DEF StoreInv
  <2>4. StoreInv'
    BY <2>2, <2>3 DEF StoreInv
  <2> QED
    BY <2>1, <2>4, RollbackUndoes
<1>6. CASE UNCHANGED store
  <2>1. IInv' /\ BooksInv'
    BY <1>6, NextKeepsIInv, NextKeepsBooks DEF StoreInv
  <2>2. utxos' = utxos /\ transactions' = transactions
    BY <1>6 DEF store
  <2>3. StoreInv'
    BY <2>1, <2>2 DEF StoreInv, NothingStranded, Stranded
  <2>4. UNCHANGED Ledger!book
    BY <2>2 DEF Ledger!book, Balance, AmountOf, Unspent
  <2> QED
    BY <2>3, <2>4
<1> QED
  BY <1>1, <1>2, <1>4, <1>5, <1>6 DEF Next

\* With honest blocks, and without replays that conflict, the store implements
\* the book of accounts: every database transaction is a minting, an
\* affordable payment, an undoing that leaves nobody in debt, or invisible.
THEOREM StoreImplementsLedger ==
    ReplayRaces = FALSE /\ HonestBlocks => (Spec => ImplementsLedger)
<1> SUFFICES ASSUME ReplayRaces = FALSE, HonestBlocks PROVE Spec => ImplementsLedger
  OBVIOUS
<1>1. Init => StoreInv /\ Ledger!Init
  BY InitLedger
<1>2. StoreInv /\ [Next]_store => StoreInv' /\ [Ledger!Next]_Ledger!book
  BY NextLedger
<1> QED
  BY <1>1, <1>2, PTL DEF Spec, ImplementsLedger, Ledger!Spec


(***************************************************************************)
(*                            MAIN TRANSFERS                               *)
(*                                                                         *)
(* The invariant.  Rows are written from copies, so that a payment was     *)
(* witnessed follows only if no copy, in the table, in a caller's hands or *)
(* among those the timeout check holds, names a sector that has not        *)
(* spoken: SaidInv.  A caller about to execute holds a copy that enough    *)
(* sectors confirmed, and one about to save CONFIRMED has paid: CallInv.   *)
(* OncePerFailure needs more, and one caller: who is about to execute has  *)
(* not paid since the last failure, nor has anybody for an open transfer.  *)
(***************************************************************************)
\* Nobody's copy names a sector that has not spoken.
SaidInv ==
    /\ \A t \in TransferId : transfers[t].yes \subseteq said[t]
    /\ \A c \in Caller : call[c].at # "idle" => call[c].row.yes \subseteq said[call[c].t]
    /\ \A x \in expired : x[2].yes \subseteq said[x[1]]

\* What a caller is about to do, its copy calls for.
CallInv ==
    /\ \A c \in Caller :
           /\ call[c].at # "idle" => call[c].t \in TransferId
           /\ call[c].at = "execute" =>
                  call[c].row.status = "CONFIRMED" /\ Decided(call[c].t, call[c].row)
           /\ call[c].at = "save" /\ call[c].row.status = "CONFIRMED" => paid[call[c].t] > 0
    /\ \A x \in expired : x[2].status = "FAILED"

TransferInv == TransferTypeOK /\ SaidInv /\ CallInv /\ PaidIsWitnessed /\ ConfirmedIsPaid

-----------------------------------------------------------------------------
\* Who is confirmed by some of those who spoke is confirmed by all of them.
LEMMA MoreSaid ==
    ASSUME NEW S \in SUBSET Sector, NEW T \in SUBSET Sector, S \subseteq T
    PROVE  /\ Cardinality(S) \in Nat /\ Cardinality(T) \in Nat
           /\ Cardinality(S) <= Cardinality(T)
<1>1. IsFiniteSet(T)
  BY FS_Subset, MainTransferAssumption
<1>2. IsFiniteSet(S)
  BY <1>1, FS_Subset
<1> QED
  BY <1>1, <1>2, FS_Subset, FS_CardinalityType

LEMMA InitTransferInv == TransferInit => TransferInv
<1> SUFFICES ASSUME TransferInit PROVE TransferInv
  OBVIOUS
<1> USE MainTransferAssumption
<1>1. TransferTypeOK
  BY DEF TransferInit, TransferTypeOK, Row, NoRow, Idle
<1>2. SaidInv /\ CallInv
  BY DEF TransferInit, SaidInv, CallInv, NoRow, Idle
<1>3. PaidIsWitnessed /\ ConfirmedIsPaid
  BY DEF TransferInit, PaidIsWitnessed, ConfirmedIsPaid, NoRow
<1> QED
  BY <1>1, <1>2, <1>3 DEF TransferInv

\* What a caller makes of a row that it read is a row: of the same sectors,
\* but for the one that speaks.
LEMMA JudgedRow ==
    ASSUME NEW t \in TransferId, NEW old \in Row, NEW s \in Sector, NEW word \in Word
    PROVE  /\ Judged(t, Heard(old, s, word)) \in Row
           /\ word = "yes" => Judged(t, Heard(old, s, word)).yes = old.yes \cup {s}
           /\ word # "yes" => Judged(t, Heard(old, s, word)).yes = old.yes
           /\ Decided(t, Heard(old, s, word)) =>
                  /\ Judged(t, Heard(old, s, word)).status = "CONFIRMED"
                  /\ Decided(t, Judged(t, Heard(old, s, word)))
           /\ ~Decided(t, Heard(old, s, word)) =>
                  Judged(t, Heard(old, s, word)).status \in {"REJECTED", old.status}
<1> DEFINE row == Heard(old, s, word)
<1>1. /\ row \in Row /\ row.status = old.status
      /\ row.yes = IF word = "yes" THEN old.yes \cup {s} ELSE old.yes
  BY DEF Heard, Row, Word
<1> HIDE DEF row
<1>2. /\ Judged(t, row) \in Row /\ Judged(t, row).yes = row.yes
      /\ Decided(t, row) => Judged(t, row).status = "CONFIRMED"
      /\ ~Decided(t, row) => Judged(t, row).status \in {"REJECTED", row.status}
  BY <1>1 DEF Judged, Row
<1> QED
  BY <1>1, <1>2 DEF Decided, row

\* Every step keeps the types.
LEMMA TypeStep == TransferTypeOK /\ CallInv /\ [TransferNext]_vars => TransferTypeOK'
<1> SUFFICES ASSUME TransferTypeOK, CallInv, [TransferNext]_vars PROVE TransferTypeOK'
  OBVIOUS
<1> USE MainTransferAssumption
<1>1. CASE CreateTransfer
  <2>1. PICK t \in TransferId : /\ transfers' = [transfers EXCEPT ![t].status = "WITNESSING"]
                              /\ Submitted(t)
    BY <1>1 DEF CreateTransfer
  <2>2. engine' \in [TransferId -> {"none", "CONFIRMED", "REFUSED", "REJECTED", "PARTIAL", "EXPIRED"}]
    BY <2>1 DEF Submitted, TransferTypeOK
  <2>3. transfers' \in [TransferId -> Row]
    BY <2>1 DEF TransferTypeOK, Row
  <2> QED
    BY <1>1, <2>2, <2>3 DEF CreateTransfer, TransferTypeOK
<1>2. CASE ProcessPending
  BY <1>2 DEF ProcessPending, TransferTypeOK
<1>3. CASE CheckTimeout
  BY <1>3 DEF CheckTimeout, TransferTypeOK, Row
<1>4. CASE Expire
  <2>1. PICK x \in expired : /\ transfers' = [transfers EXCEPT ![x[1]] = x[2]]
                             /\ expired' = expired \ {x}
    BY <1>4 DEF Expire
  <2>2. x[1] \in TransferId /\ x[2] \in Row
    BY DEF TransferTypeOK
  <2> QED
    BY <1>4, <2>1, <2>2 DEF Expire, TransferTypeOK
<1>5. CASE Crash \/ ExpireFails
  BY <1>5 DEF Crash, ExpireFails, TransferTypeOK, Idle, NoRow, Row
<1>6. ASSUME NEW c \in Caller, AddWitness(c) PROVE TransferTypeOK'
  <2>1. PICK t \in TransferId, s \in Sector, word \in Word :
           AddWitnessOf(c, t, s, word)
    BY <1>6 DEF AddWitness
  <2>2. PICK at \in {"execute", "save"}, row \in Row :
           call' = [call EXCEPT ![c] = [at |-> at, t |-> t, row |-> row]]
    BY <2>1, JudgedRow DEF Word, AddWitnessOf, TransferTypeOK
  <2>3. call' \in [Caller -> [at : {"idle", "execute", "save"}, t : TransferId \cup {None}, row : Row]]
    BY <2>2 DEF TransferTypeOK
  <2>4. said' \in [TransferId -> SUBSET Sector]
    BY <2>1 DEF Word, AddWitnessOf, TransferTypeOK
  <2> QED
    BY <2>1, <2>3, <2>4 DEF Word, AddWitnessOf, TransferTypeOK
<1>7. ASSUME NEW c \in Caller, Execute(c) PROVE TransferTypeOK'
  <2>1. call[c].t \in TransferId
    BY <1>7 DEF Execute, CallInv
  <2> DEFINE row == [call[c].row EXCEPT !.status = "FAILED"]
  <2>2. row \in Row
    BY DEF TransferTypeOK, Row
  <2>3. UNCHANGED <<transfers, expired, engine, said, failures>>
    BY <1>7 DEF Execute
  <2>4. CASE /\ Covered /\ funds' = funds - 1
             /\ paid' = [paid EXCEPT ![call[c].t] = @ + 1]
             /\ call' = [call EXCEPT ![c].at = "save"]
    <3>1. call' \in [Caller -> [at : {"idle", "execute", "save"}, t : TransferId \cup {None}, row : Row]]
      BY <2>4 DEF TransferTypeOK
    <3>2. funds' \in 0 .. Funds /\ paid' \in [TransferId -> Nat]
      BY <2>1, <2>4 DEF Covered, TransferTypeOK
    <3> QED
      BY <2>3, <3>1, <3>2 DEF TransferTypeOK
  <2>5. CASE /\ call' = [call EXCEPT ![c] = [at |-> "save", t |-> call[c].t, row |-> row]]
             /\ UNCHANGED <<funds, paid>>
    <3> HIDE DEF row
    <3>1. call' \in [Caller -> [at : {"idle", "execute", "save"}, t : TransferId \cup {None}, row : Row]]
      BY <2>1, <2>2, <2>5 DEF TransferTypeOK
    <3> QED
      BY <2>3, <2>5, <3>1 DEF TransferTypeOK
  <2> QED
    <3>1. \/ /\ Covered /\ funds' = funds - 1
             /\ paid' = [paid EXCEPT ![call[c].t] = @ + 1]
             /\ call' = [call EXCEPT ![c].at = "save"]
          \/ /\ call' = [call EXCEPT ![c] = [at |-> "save", t |-> call[c].t, row |-> row]]
             /\ UNCHANGED <<funds, paid>>
      BY <1>7 DEF Execute, TransferTypeOK
    <3> HIDE DEF row
    <3> QED
      BY <2>4, <2>5, <3>1
<1>8. ASSUME NEW c \in Caller, Save(c) \/ SaveFails(c) PROVE TransferTypeOK'
  <2>1. call[c].t \in TransferId /\ call[c].row \in Row
    BY <1>8 DEF Save, SaveFails, CallInv, TransferTypeOK
  <2>2. Idle \in [at : {"idle", "execute", "save"}, t : TransferId \cup {None}, row : Row]
    BY DEF Idle, NoRow, Row
  <2>3. CASE Save(c)
    BY <2>1, <2>2, <2>3 DEF Save, Saved, TransferTypeOK
  <2>4. CASE SaveFails(c)
    BY <2>2, <2>4 DEF SaveFails, TransferTypeOK
  <2> QED
    BY <1>8, <2>3, <2>4
<1>9. CASE UNCHANGED vars
  BY <1>9 DEF vars, TransferTypeOK
<1> QED
  BY <1>1, <1>2, <1>3, <1>4, <1>5, <1>6, <1>7, <1>8, <1>9 DEF TransferNext

-----------------------------------------------------------------------------
\* Copies are made of rows whose sectors have spoken, and speech is not undone.
LEMMA SaidStep == TransferInv /\ [TransferNext]_vars => SaidInv'
<1> SUFFICES ASSUME TransferInv, [TransferNext]_vars PROVE SaidInv'
  OBVIOUS
<1> USE DEF TransferInv
<1>1. CASE CreateTransfer
  <2>1. PICK t \in TransferId : transfers' = [transfers EXCEPT ![t].status = "WITNESSING"]
    BY <1>1 DEF CreateTransfer
  <2>2. \A u \in TransferId : transfers'[u].yes = transfers[u].yes
    BY <2>1 DEF TransferTypeOK, Row
  <2> QED
    BY <1>1, <2>2 DEF CreateTransfer, SaidInv
<1>2. CASE ProcessPending
  BY <1>2 DEF ProcessPending, SaidInv
<1>3. CASE CheckTimeout
  <2>1. \A x \in expired' : x[1] \in TransferId /\ x[2].yes = transfers[x[1]].yes
    BY <1>3 DEF CheckTimeout, TransferTypeOK, Row
  <2> QED
    BY <1>3, <2>1 DEF CheckTimeout, SaidInv
<1>4. CASE Expire
  <2>1. PICK x \in expired : /\ transfers' = [transfers EXCEPT ![x[1]] = x[2]]
                             /\ expired' = expired \ {x}
    BY <1>4 DEF Expire
  <2> QED
    BY <1>4, <2>1 DEF Expire, SaidInv, TransferTypeOK
<1>5. CASE Crash \/ ExpireFails
  BY <1>5 DEF Crash, ExpireFails, SaidInv, Idle
<1>6. ASSUME NEW c \in Caller, NEW t \in TransferId, NEW s \in Sector, NEW word \in Word,
             AddWitnessOf(c, t, s, word)
      PROVE  SaidInv'
  <2>1. \A u \in TransferId : said[u] \subseteq said'[u]
    BY <1>6 DEF Word, AddWitnessOf, TransferTypeOK
  <2>2. call'[c].t = t /\ call'[c].row.yes \subseteq said'[t]
    <3>1. call'[c].t = t /\ call'[c].row = Judged(t, Heard(transfers[t], s, word))
      BY <1>6 DEF Word, AddWitnessOf, TransferTypeOK
    <3>2. transfers[t] \in Row
      BY DEF TransferTypeOK
    <3>3. /\ word = "yes" => call'[c].row.yes = transfers[t].yes \cup {s}
          /\ word # "yes" => call'[c].row.yes = transfers[t].yes
      BY <3>1, <3>2, JudgedRow
    <3> QED
      BY <1>6, <3>1, <3>3 DEF Word, AddWitnessOf, SaidInv, TransferTypeOK
  <2>3. \A d \in Caller \ {c} : call'[d] = call[d]
    BY <1>6 DEF Word, AddWitnessOf, TransferTypeOK
  <2>4. UNCHANGED <<transfers, expired>>
    BY <1>6 DEF Word, AddWitnessOf
  <2>5. \A d \in Caller : call'[d].at # "idle" => call'[d].row.yes \subseteq said'[call'[d].t]
    BY <2>1, <2>2, <2>3 DEF SaidInv, CallInv
  <2>6. \A x \in expired : x[1] \in TransferId
    BY DEF TransferTypeOK
  <2> QED
    BY <2>1, <2>4, <2>5, <2>6 DEF SaidInv
<1>7. ASSUME NEW c \in Caller, Execute(c) PROVE SaidInv'
  <2>1. \A d \in Caller : /\ call'[d].t = call[d].t /\ call'[d].row.yes = call[d].row.yes
                          /\ call'[d].at # "idle" => call[d].at # "idle"
    <3> DEFINE row == [call[c].row EXCEPT !.status = "FAILED"]
    <3>1. row.yes = call[c].row.yes
      BY DEF TransferTypeOK, Row
    <3>2. \/ call' = [call EXCEPT ![c].at = "save"]
          \/ call' = [call EXCEPT ![c] = [at |-> "save", t |-> call[c].t, row |-> row]]
      BY <1>7 DEF Execute
    <3> HIDE DEF row
    <3> QED
      BY <1>7, <3>1, <3>2 DEF Execute, TransferTypeOK
  <2> QED
    BY <1>7, <2>1 DEF Execute, SaidInv
<1>8. ASSUME NEW c \in Caller, Save(c) \/ SaveFails(c) PROVE SaidInv'
  <2>1. \A u \in TransferId : transfers'[u].yes \subseteq said[u]
    BY <1>8 DEF Save, SaveFails, Saved, SaidInv, TransferTypeOK
  <2>2. \A d \in Caller : call'[d] = call[d] \/ call'[d].at = "idle"
    BY <1>8 DEF Save, SaveFails, Idle, TransferTypeOK
  <2> QED
    BY <1>8, <2>1, <2>2 DEF Save, SaveFails, SaidInv
<1>9. CASE UNCHANGED vars
  BY <1>9 DEF vars, SaidInv
<1> QED
  BY <1>1, <1>2, <1>3, <1>4, <1>5, <1>6, <1>7, <1>8, <1>9 DEF TransferNext, AddWitness

\* A caller executes what it found decided, and saves what it has done.
LEMMA CallStep == TransferInv /\ [TransferNext]_vars => CallInv'
<1> SUFFICES ASSUME TransferInv, [TransferNext]_vars PROVE CallInv'
  OBVIOUS
<1> USE DEF TransferInv
<1>1. CASE CreateTransfer
  BY <1>1 DEF CreateTransfer, CallInv, Decided
<1>2. CASE ProcessPending
  BY <1>2 DEF ProcessPending, CallInv, Decided
<1>3. CASE CheckTimeout
  <2>1. \A x \in expired' : x[2].status = "FAILED"
    BY <1>3 DEF CheckTimeout, TransferTypeOK, Row
  <2> QED
    BY <1>3, <2>1 DEF CheckTimeout, CallInv, Decided
<1>4. CASE Expire
  BY <1>4 DEF Expire, CallInv, Decided
<1>5. CASE Crash \/ ExpireFails
  BY <1>5 DEF Crash, ExpireFails, CallInv, Idle, Decided
<1>6. ASSUME NEW c \in Caller, NEW t \in TransferId, NEW s \in Sector, NEW word \in Word,
             AddWitnessOf(c, t, s, word)
      PROVE  CallInv'
  <2> DEFINE row == Heard(transfers[t], s, word)
  <2>1. /\ call'[c].t = t /\ call'[c].row = Judged(t, row)
        /\ call'[c].at = IF Decided(t, row) THEN "execute" ELSE "save"
    BY <1>6 DEF Word, AddWitnessOf, TransferTypeOK
  <2>2. /\ Decided(t, row) => Judged(t, row).status = "CONFIRMED"
        /\ ~Decided(t, row) => Judged(t, row).status \in {"REJECTED", "WITNESSING"}
        /\ Decided(t, row) => Decided(t, Judged(t, row))
    <3>1. transfers[t] \in Row /\ transfers[t].status = "WITNESSING"
      BY <1>6 DEF Word, AddWitnessOf, Open, TransferTypeOK
    <3> QED
      BY <3>1, JudgedRow
  <2> HIDE DEF row
  <2>3. \A d \in Caller \ {c} : call'[d] = call[d]
    BY <1>6 DEF Word, AddWitnessOf, TransferTypeOK
  <2>4. UNCHANGED <<paid, expired>>
    BY <1>6 DEF Word, AddWitnessOf
  <2> QED
    BY <2>1, <2>2, <2>3, <2>4 DEF CallInv, Decided
<1>7. ASSUME NEW c \in Caller, Execute(c) PROVE CallInv'
  <2>1. \A u \in TransferId : paid'[u] >= paid[u] /\ paid[u] \in Nat
    BY <1>7 DEF Execute, TransferTypeOK, CallInv
  <2>2. \A d \in Caller \ {c} : call'[d] = call[d]
    BY <1>7 DEF Execute, TransferTypeOK
  <2>3. /\ call'[c].at = "save" /\ call'[c].t = call[c].t /\ call[c].t \in TransferId
        /\ call'[c].row.status = "CONFIRMED" => paid'[call[c].t] > 0
    BY <1>7, <2>1 DEF Execute, CallInv, TransferTypeOK, Row
  <2>4. expired' = expired
    BY <1>7 DEF Execute
  <2>5. \A d \in Caller : paid[call[d].t] > 0 /\ call[d].t \in TransferId => paid'[call[d].t] > 0
    <3>1. \A u \in TransferId : paid[u] > 0 => paid'[u] > 0
      <4> SUFFICES ASSUME NEW u \in TransferId, paid[u] > 0 PROVE paid'[u] > 0
        OBVIOUS
      <4>1. paid'[u] \in Nat
        BY <1>7, TypeStep DEF TransferTypeOK, TransferNext
      <4> QED
        BY <2>1, <4>1
    <3> QED
      BY <3>1
  <2> QED
    BY <2>2, <2>3, <2>4, <2>5 DEF CallInv, Decided
<1>8. ASSUME NEW c \in Caller, Save(c) \/ SaveFails(c) PROVE CallInv'
  <2>1. \A d \in Caller : call'[d] = call[d] \/ call'[d].at = "idle"
    BY <1>8 DEF Save, SaveFails, Idle, TransferTypeOK
  <2> QED
    BY <1>8, <2>1 DEF Save, SaveFails, CallInv, Decided
<1>9. CASE UNCHANGED vars
  BY <1>9 DEF vars, CallInv, Decided
<1> QED
  BY <1>1, <1>2, <1>3, <1>4, <1>5, <1>6, <1>7, <1>8, <1>9 DEF TransferNext, AddWitness

\* A payment is made on a copy that enough sectors confirmed, and more
\* confirmations later do not undo that.
LEMMA PaidStep == TransferInv /\ [TransferNext]_vars => PaidIsWitnessed'
<1> SUFFICES ASSUME TransferInv, [TransferNext]_vars PROVE PaidIsWitnessed'
  OBVIOUS
<1> USE DEF TransferInv
<1>1. ASSUME NEW c \in Caller, NEW t \in TransferId, NEW s \in Sector, NEW word \in Word,
             AddWitnessOf(c, t, s, word)
      PROVE  PaidIsWitnessed'
  <2>1. \A u \in TransferId : said[u] \subseteq said'[u] /\ said'[u] \subseteq Sector
    BY <1>1 DEF Word, AddWitnessOf, TransferTypeOK
  <2>2. \A u \in TransferId : /\ Cardinality(said[u]) \in Nat /\ Cardinality(said'[u]) \in Nat
                            /\ Cardinality(said[u]) <= Cardinality(said'[u])
    BY <2>1, MoreSaid
  <2>3. \A u \in TransferId : Need[u] \in Nat
    BY MainTransferAssumption
  <2>4. paid' = paid
    BY <1>1 DEF Word, AddWitnessOf
  <2> QED
    BY <2>2, <2>3, <2>4 DEF PaidIsWitnessed
<1>2. ASSUME NEW c \in Caller, Execute(c) PROVE PaidIsWitnessed'
  <2> DEFINE t == call[c].t
  <2>1. t \in TransferId /\ said' = said /\ Decided(t, call[c].row)
        /\ call[c].row.yes \subseteq said[t] /\ said[t] \subseteq Sector
    BY <1>2 DEF Execute, CallInv, SaidInv, TransferTypeOK
  <2>2. Cardinality(said[t]) >= Need[t]
    BY <2>1, MoreSaid, MainTransferAssumption DEF Decided
  <2>3. \A u \in TransferId \ {t} : paid'[u] = paid[u]
    BY <1>2 DEF Execute, TransferTypeOK
  <2> QED
    BY <2>1, <2>2, <2>3 DEF PaidIsWitnessed
<1>3. CASE UNCHANGED <<paid, said>>
  BY <1>3 DEF PaidIsWitnessed
<1> QED
  BY <1>1, <1>2, <1>3 DEF TransferNext, AddWitness, vars, CreateTransfer, ProcessPending, CheckTimeout,
                          Expire, ExpireFails, Crash, Save, SaveFails

\* CONFIRMED is written from the copy of a caller that has paid, and a copy
\* that the timeout check holds says FAILED.
LEMMA ConfirmedStep == TransferInv /\ [TransferNext]_vars => ConfirmedIsPaid'
<1> SUFFICES ASSUME TransferInv, [TransferNext]_vars PROVE ConfirmedIsPaid'
  OBVIOUS
<1> USE DEF TransferInv
<1>1. CASE CreateTransfer
  BY <1>1 DEF CreateTransfer, ConfirmedIsPaid, TransferTypeOK, Row
<1>2. CASE Expire
  BY <1>2 DEF Expire, ConfirmedIsPaid, CallInv, TransferTypeOK, Row
<1>3. ASSUME NEW c \in Caller, Execute(c) PROVE ConfirmedIsPaid'
  BY <1>3 DEF Execute, ConfirmedIsPaid, CallInv, TransferTypeOK
<1>4. ASSUME NEW c \in Caller, Save(c) PROVE ConfirmedIsPaid'
  BY <1>4 DEF Save, Saved, ConfirmedIsPaid, CallInv, TransferTypeOK, Row
<1>5. CASE UNCHANGED <<transfers, paid>>
  BY <1>5 DEF ConfirmedIsPaid
<1> QED
  BY <1>1, <1>2, <1>3, <1>4, <1>5 DEF TransferNext, AddWitness, AddWitnessOf, vars, ProcessPending,
                                      CheckTimeout, ExpireFails, Crash, SaveFails

\* The invariant holds in every reachable state.
LEMMA TransferInvariance == TransferSpec => []TransferInv
<1>1. TransferInv /\ [TransferNext]_vars => TransferInv'
  BY TypeStep, SaidStep, CallStep, PaidStep, ConfirmedStep DEF TransferInv
<1> QED
  BY <1>1, InitTransferInv, PTL DEF TransferSpec

\* Rows, copies and the witness engine keep their shapes (main_transfer.py).
THEOREM TransfersTypeCorrect == TransferSpec => []TransferTypeOK
BY TransferInvariance, PTL DEF TransferInv

\* A transfer is executed on the word of as many sectors as it needs, for any
\* number of callers that overwrite each other's rows, and any failures
\* (add_witness, main_transfer.py:309-376).
THEOREM PaymentsWitnessed == TransferSpec => []PaidIsWitnessed
BY TransferInvariance, PTL DEF TransferInv

\* CONFIRMED in the table means that the money moved, whatever stale copies
\* are saved over it (_execute_transfer, main_transfer.py:378-440).
THEOREM ConfirmedPaid == TransferSpec => []ConfirmedIsPaid
BY TransferInvariance, PTL DEF TransferInv

-----------------------------------------------------------------------------
(* One caller of add_witness. *)

\* A copy about to be executed, or to be saved as anything but CONFIRMED, and
\* a row that is open while no copy says CONFIRMED, are of transfers that were
\* paid for at most once per failure.
OnceInv ==
    /\ \A c \in Caller :
           call[c].at = "execute" \/ (call[c].at = "save" /\ call[c].row.status # "CONFIRMED")
               => paid[call[c].t] <= failures
    /\ \A t \in TransferId :
           /\ transfers[t].status \in {"none", "WITNESSING"}
           /\ \A c \in Caller : ~(call[c].at = "save" /\ call[c].t = t /\ call[c].row.status = "CONFIRMED")
           => paid[t] <= failures
    /\ OncePerFailure

\* With one caller, every step keeps it.
LEMMA OnceStep ==
    ASSUME NEW a, Caller = {a}, TransferInv, OnceInv, [TransferNext]_vars
    PROVE  OnceInv'
<1> USE DEF TransferInv
<1>0. /\ \A t \in TransferId : paid[t] \in Nat /\ transfers[t] \in Row
      /\ failures \in Nat /\ a \in Caller
  BY MainTransferAssumption DEF TransferTypeOK
<1>1. CASE CreateTransfer
  <2>1. PICK t \in TransferId : /\ transfers[t].status = "none"
                              /\ transfers' = [transfers EXCEPT ![t].status = "WITNESSING"]
    BY <1>1 DEF CreateTransfer
  <2>2. \A u \in TransferId : transfers'[u].status \in {"none", "WITNESSING"}
                            => transfers[u].status \in {"none", "WITNESSING"}
    BY <2>1 DEF TransferTypeOK, Row
  <2> QED
    BY <1>1, <2>2 DEF CreateTransfer, OnceInv, OncePerFailure
<1>2. CASE UNCHANGED <<transfers, call, paid, failures>>
  BY <1>2 DEF OnceInv, OncePerFailure
<1>3. CASE Expire
  <2>1. \A t \in TransferId : transfers'[t] = transfers[t] \/ transfers'[t].status = "FAILED"
    BY <1>3 DEF Expire, CallInv, TransferTypeOK
  <2> QED
    BY <1>3, <2>1 DEF Expire, OnceInv, OncePerFailure
<1>4. CASE Crash \/ ExpireFails \/ SaveFails(a)
  <2>1. failures' = failures + 1 /\ UNCHANGED <<transfers, paid>>
    BY <1>4 DEF Crash, ExpireFails, SaveFails
  <2>2. \A t \in TransferId : paid[t] <= failures'
    BY <1>0, <2>1 DEF OnceInv, OncePerFailure
  <2>3. \A c \in Caller : call'[c].at # "idle" => call'[c].t \in TransferId
    BY <1>4 DEF Crash, ExpireFails, SaveFails, Idle, CallInv, TransferTypeOK
  <2> QED
    BY <1>0, <2>1, <2>2, <2>3 DEF OnceInv, OncePerFailure
<1>5. ASSUME NEW t \in TransferId, NEW s \in Sector, NEW word \in Word, AddWitnessOf(a, t, s, word)
      PROVE  OnceInv'
  <2>1. /\ call[a] = Idle /\ transfers[t].status = "WITNESSING"
        /\ UNCHANGED <<transfers, paid, failures>>
    BY <1>5 DEF AddWitnessOf, Open
  <2>2. \A u \in TransferId : transfers[u].status \in {"none", "WITNESSING"} => paid[u] <= failures
    BY <2>1 DEF OnceInv, Idle
  <2>3. call'[a].t = t
    BY <1>0, <1>5 DEF AddWitnessOf, TransferTypeOK
  <2> QED
    BY <2>1, <2>2, <2>3 DEF OnceInv, OncePerFailure
<1>6. CASE Execute(a)
  <2> DEFINE t == call[a].t
  <2>1. /\ t \in TransferId /\ paid[t] <= failures /\ call[a].row.status = "CONFIRMED"
        /\ UNCHANGED <<transfers, failures>>
    BY <1>6, <1>0 DEF Execute, OnceInv, CallInv
  <2>2. call'[a].at = "save" /\ call'[a].t = t
    BY <1>6, <1>0 DEF Execute, TransferTypeOK
  <2>3. CASE /\ Covered /\ paid' = [paid EXCEPT ![t] = @ + 1]
             /\ call' = [call EXCEPT ![a].at = "save"]
    <3>1. /\ call'[a].row.status = "CONFIRMED"
          /\ paid'[t] = paid[t] + 1 /\ \A u \in TransferId \ {t} : paid'[u] = paid[u]
      BY <1>6, <1>0, <2>1, <2>3 DEF Execute, TransferTypeOK
    <3>2. \A u \in TransferId : paid'[u] <= 1 + failures
      BY <1>0, <2>1, <3>1 DEF OnceInv, OncePerFailure
    <3>3. \A u \in TransferId \ {t} :
              transfers[u].status \in {"none", "WITNESSING"} => paid'[u] <= failures
      BY <1>6, <3>1 DEF Execute, OnceInv
    <3> QED
      BY <2>1, <2>2, <3>1, <3>2, <3>3 DEF OnceInv, OncePerFailure
  <2>4. CASE paid' = paid
    <3>2. \A u \in TransferId :
              transfers[u].status \in {"none", "WITNESSING"} => paid[u] <= failures
      BY <1>6 DEF Execute, OnceInv
    <3> QED
      BY <2>1, <2>2, <2>4, <3>2 DEF OnceInv, OncePerFailure
  <2> QED
    BY <1>6, <2>3, <2>4 DEF Execute
<1>7. CASE Save(a)
  <2> DEFINE t == call[a].t
  <2>1. /\ t \in TransferId /\ call[a].at = "save" /\ UNCHANGED <<paid, failures>>
        /\ transfers'[t] = call[a].row /\ call'[a].at = "idle"
        /\ \A u \in TransferId \ {t} : transfers'[u] = transfers[u]
    BY <1>7, <1>0 DEF Save, Saved, CallInv, TransferTypeOK, Idle
  <2>2. transfers'[t].status \in {"none", "WITNESSING"} => paid[t] <= failures
    BY <1>0, <2>1 DEF OnceInv
  <2>3. \A u \in TransferId \ {t} :
            transfers'[u].status \in {"none", "WITNESSING"} => paid[u] <= failures
    BY <2>1 DEF OnceInv
  <2> QED
    BY <2>1, <2>2, <2>3 DEF OnceInv, OncePerFailure
<1> QED
  BY <1>1, <1>2, <1>3, <1>4, <1>5, <1>6, <1>7 DEF TransferNext, AddWitness, vars, ProcessPending, CheckTimeout

\* With one caller of add_witness a transfer is executed once, and once more at
\* most for each crash or failed write that ends the call between the store's
\* transfer and the save of the row (main_transfer.py:357-376, 431-456).
THEOREM ExecutedOncePerFailure ==
    ASSUME NEW a, Caller = {a}
    PROVE  TransferSpec => []OncePerFailure
<1>1. TransferInit => OnceInv
  BY MainTransferAssumption DEF TransferInit, OnceInv, OncePerFailure, Idle
<1>2. TransferInv /\ OnceInv /\ [TransferNext]_vars => OnceInv'
  BY OnceStep
<1>3. OnceInv => OncePerFailure
  BY DEF OnceInv
<1> QED
  BY <1>1, <1>2, <1>3, TransferInvariance, PTL DEF TransferSpec
==============================================================================
