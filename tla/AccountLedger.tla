--------------------------- MODULE AccountLedger ---------------------------
(***************************************************************************)
(* What a UTXO store promises to those who only see addresses: a book of   *)
(* entries with one balance per address.  Coin comes in with one minting   *)
(* per height, a payment moves it and costs a fee, and a reorganisation    *)
(* undoes every entry above a height.  There are no outputs, no inputs and *)
(* no tables here; UTXOStore implements this book (see UTXOStoreLedger).   *)
(***************************************************************************)
EXTENDS Integers, Functions

CONSTANTS Owner, EntryId, Height, Mint

VARIABLES
    entries,   \* id -> [from, to, amount, fee, height]
    balance    \* owner -> what it owns

book == <<entries, balance>>

Of(E, a) == {i \in E : entries[i].to = a}
By(E, a) == {i \in E : entries[i].from = a}

Credit(E, a) ==
    SumFunctionOnSet([i \in E |-> entries[i].amount], Of(E, a))
Debit(E, a) ==
    SumFunctionOnSet([i \in E |-> entries[i].amount + entries[i].fee], By(E, a))

Record(i, e) ==
    /\ i \notin DOMAIN entries
    /\ entries' = [j \in DOMAIN entries \cup {i} |->
                      IF j = i THEN e ELSE entries[j]]

Init ==
    /\ entries = [i \in {} |-> {}]
    /\ balance = [a \in Owner |-> 0]

\* New coin for a, at most once for each height.
MintTo(i, a, amount, h) ==
    /\ \A j \in By(DOMAIN entries, Mint) : entries[j].height # h
    /\ Record(i, [from |-> Mint, to |-> a, amount |-> amount, fee |-> 0, height |-> h])
    /\ balance' = [balance EXCEPT ![a] = @ + amount]

\* A payment that from can afford.
Move(i, from, to, amount, fee, h) ==
    /\ balance[from] >= amount + fee
    /\ Record(i, [from |-> from, to |-> to, amount |-> amount, fee |-> fee, height |-> h])
    /\ balance' = [[balance EXCEPT ![from] = @ - (amount + fee)]
                            EXCEPT ![to] = @ + amount]

\* A reorganisation: the entries above h never happened, and nobody is left
\* in debt.
Undo(h) ==
    LET undone == {i \in DOMAIN entries : entries[i].height > h}
    IN  /\ entries' = [i \in DOMAIN entries \ undone |-> entries[i]]
        /\ balance' = [a \in Owner |->
                          balance[a] - Credit(undone, a) + Debit(undone, a)]
        /\ \A a \in Owner : balance'[a] >= 0

\* An observed step, read off the entry it added.
Added(i) == i \notin DOMAIN entries /\ i \in DOMAIN entries'

Next ==
    \/ \E i \in EntryId :
           /\ Added(i)
           /\ LET e == entries'[i]
              IN  \/ MintTo(i, e.to, e.amount, e.height)
                  \/ /\ e.from \in Owner
                     /\ Move(i, e.from, e.to, e.amount, e.fee, e.height)
    \/ \E h \in Height : Undo(h)

Spec == Init /\ [][Next]_book
=============================================================================
