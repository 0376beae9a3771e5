------------------------- MODULE SectorExchange_proofs -------------------------
(***************************************************************************)
(* TLAPS proofs about SectorExchange, for every set of addresses and       *)
(* exchanges, every bound on witnesses, moves and crashes.                 *)
(*                                                                         *)
(* Two invariants.  Inv: the call that burns holds the exchange's lock     *)
(* since the witness that made them enough was counted, and neither the    *)
(* verifier nor the ledger's other users take a witness away in between    *)
(* (Due).  Books: an address's balance is what the ledger's log adds up    *)
(* to, and what is locked for it and what was burned add up to what it     *)
(* asked to exchange; the sums are over sets that grow by one element or   *)
(* change at one (SumTheorems).                                            *)
(***************************************************************************)
EXTENDS SectorExchange, SumTheorems

Labels == {"idle", "insert", "burn", "fail"}

\* The rows, the call and the counters, but not the ledger.
Shape ==
    /\ exchanges \in [Exchange -> Row] /\ taken \in [Exchange -> Row]
    /\ DOMAIN pending \subseteq Exchange /\ \A e \in DOMAIN pending : pending[e] \in Nat
    /\ job.at \in Labels /\ (job.at # "idle" => job = [at |-> job.at, e |-> job.e] /\ job.e \in Exchange)
    /\ burns \in [Exchange -> Nat]

\* The witnesses have come that an exchange needs before its coins are burned.
Ready(e) == exchanges[e].need = 0 \/ (e \in DOMAIN pending /\ pending[e] >= exchanges[e].need)

Due ==
    /\ \A e \in DOMAIN pending : exchanges[e].status # "none"
    /\ job.at \in {"burn", "fail"} => exchanges[job.e].status # "none"
    /\ job.at = "burn" => Ready(job.e)
    /\ job.at = "insert" => taken[job.e].status = "PENDING"

Inv == Shape /\ Due

-----------------------------------------------------------------------------

\* The CHOOSEs of the empty row and of the idle call.
LEMMA Chosen == NoRow \in Row /\ NoRow.status = "none" /\ Free.at = "idle"
BY SectorLedgerAssumption DEF NoRow, Row, Free

LEMMA InitInv == Init => Inv
BY Chosen DEF Init, Inv, Shape, Due, Labels

\* A step of the ledger's other users, and the passing of time.
LEMMA Elsewhere ==
    ASSUME Inv, UNCHANGED <<exchanges, pending, job, taken, burns>>
    PROVE  Inv'
BY DEF Inv, Shape, Due, Ready

LEMMA RequestInv == ASSUME Inv, RequestExchange PROVE Inv'
<1>1. PICK e \in Exchange, a \in Address, n \in 1 .. MaxSupply, need \in 0 .. 2 :
          /\ taken' = [taken EXCEPT ![e] = [status |-> "PENDING", who |-> a,
                                            amount |-> n, need |-> need]]
          /\ At("insert", e)
  BY DEF RequestExchange
<1>2. [status |-> "PENDING", who |-> a, amount |-> n, need |-> need] \in Row
  BY SectorLedgerAssumption DEF Row
<1>3. taken' \in [Exchange -> Row] /\ taken'[e].status = "PENDING"
  BY <1>1, <1>2 DEF Inv, Shape
<1>4. job' = [at |-> "insert", e |-> e] /\ UNCHANGED <<exchanges, pending, burns>>
  BY <1>1 DEF At, RequestExchange
<1> QED
  BY <1>3, <1>4 DEF Inv, Shape, Due, Ready, Labels

LEMMA InsertInv == ASSUME Inv, Insert PROVE Inv'
<1>1. PICK e \in Exchange : e = job.e
  BY DEF Insert, Inv, Shape
<1>2. PICK row \in Row : row = taken[e]
  BY DEF Inv, Shape
<1>3. row.status = "PENDING" /\ job.at = "insert"
  BY <1>1, <1>2 DEF Insert, Inv, Due
<1>4. /\ exchanges' = [exchanges EXCEPT ![e] = row] /\ UNCHANGED <<taken, burns>>
      /\ exchanges' \in [Exchange -> Row] /\ exchanges'[e] = row
      /\ \A x \in Exchange \ {e} : exchanges'[x] = exchanges[x]
  BY <1>1, <1>2 DEF Insert, Inv, Shape
<1>5. CASE row.need = 0
  <2>1. job' = [at |-> "burn", e |-> e] /\ pending' = pending
    BY <1>1, <1>2, <1>5 DEF Insert, At
  <2>2. job'.at = "burn" /\ job'.e = e /\ exchanges'[e].need = 0 /\ exchanges'[e].status = "PENDING"
    BY <1>3, <1>4, <1>5, <2>1
  <2>3. Due'
    BY <1>4, <2>1, <2>2 DEF Inv, Shape, Due, Ready
  <2> QED
    BY <1>4, <2>1, <2>2, <2>3 DEF Inv, Shape, Labels
<1>6. CASE row.need # 0
  <2>1. /\ job' = Free
        /\ pending' = [x \in DOMAIN pending \cup {e} |-> IF x = e THEN 0 ELSE pending[x]]
    BY <1>1, <1>2, <1>6 DEF Insert
  <2> QED
    BY <1>3, <1>4, <2>1, Chosen DEF Inv, Shape, Due, Labels
<1> QED
  BY <1>5, <1>6

LEMMA WitnessInv == ASSUME Inv, AddWitness PROVE Inv'
<1>1. PICK e \in DOMAIN pending :
          /\ pending' = [pending EXCEPT ![e] = @ + 1]
          /\ IF Enough(e) THEN At("burn", e) ELSE UNCHANGED job
  BY DEF AddWitness
<1>2. e \in Exchange /\ UNCHANGED <<exchanges, taken, burns>> /\ job.at = "idle"
  BY Chosen DEF AddWitness, Inv, Shape
<1>3. /\ DOMAIN pending' = DOMAIN pending /\ pending'[e] = pending[e] + 1 /\ pending[e] \in Nat
      /\ \A x \in DOMAIN pending \ {e} : pending'[x] = pending[x]
  BY <1>1 DEF Inv, Shape
<1>4. \A x \in DOMAIN pending' : pending'[x] \in Nat
  BY <1>3 DEF Inv, Shape
<1>5. CASE Enough(e)
  <2>1. job' = [at |-> "burn", e |-> e]
    BY <1>1, <1>5 DEF At
  <2>2. pending'[e] >= exchanges'[e].need
    BY <1>2, <1>3, <1>5 DEF Enough
  <2> QED
    BY <1>2, <1>3, <1>4, <2>1, <2>2 DEF Inv, Shape, Due, Ready, Labels
<1>6. CASE ~Enough(e)
  BY <1>1, <1>2, <1>3, <1>4, <1>6 DEF Inv, Shape, Due
<1> QED
  BY <1>5, <1>6

LEMMA ExecuteInv == ASSUME Inv, Burn \/ Fail PROVE Inv'
<1>1. CASE Burn
  <2>1. PICK e \in Exchange : e = job.e
    BY <1>1 DEF Burn, Inv, Shape
  <2>2. job' = [at |-> "fail", e |-> e] /\ job.at = "burn" /\ UNCHANGED <<exchanges, pending, taken>>
    BY <1>1, <2>1 DEF Burn, At
  <2>3. burns' \in [Exchange -> Nat]
    BY <1>1, <2>1 DEF Burn, Inv, Shape
  <2> QED
    BY <2>1, <2>2, <2>3 DEF Inv, Shape, Due, Labels
<1>2. CASE Fail
  <2>1. PICK e \in Exchange : e = job.e
    BY <1>2 DEF Fail, Inv, Shape
  <2>2. /\ job' = Free /\ UNCHANGED <<pending, taken, burns>>
        /\ exchanges' = [exchanges EXCEPT ![e].status = "FAILED"]
    BY <1>2, <2>1 DEF Fail
  <2>3. /\ exchanges' \in [Exchange -> Row] /\ exchanges'[e].status = "FAILED"
        /\ \A x \in Exchange \ {e} : exchanges'[x] = exchanges[x]
    BY <2>2 DEF Inv, Shape, Row
  <2>4. Due'
    BY <2>2, <2>3, Chosen DEF Inv, Shape, Due
  <2>5. Shape'
    BY <2>2, <2>3, Chosen DEF Inv, Shape, Labels
  <2> QED
    BY <2>4, <2>5 DEF Inv
<1> QED
  BY <1>1, <1>2

LEMMA VerifierInv == ASSUME Inv, Verifier PROVE Inv'
<1>1. PICK e \in late : /\ exchanges' = [exchanges EXCEPT ![e].status = "FAILED"]
                        /\ pending' = Restrict(pending, DOMAIN pending \ {e})
  BY DEF Verifier
<1>2. job = Free /\ UNCHANGED <<job, taken, burns>>
  BY DEF Verifier
<1>3. /\ DOMAIN pending' = DOMAIN pending \ {e}
      /\ \A x \in DOMAIN pending' : pending'[x] = pending[x]
  BY <1>1 DEF Restrict
<1>4. /\ exchanges' \in [Exchange -> Row]
      /\ \A x \in Exchange \ {e} : exchanges'[x] = exchanges[x]
  <2>1. exchanges \in [Exchange -> Row]
    BY DEF Inv, Shape
  <2>2. CASE e \in Exchange
    <3>1. [exchanges[e] EXCEPT !.status = "FAILED"] \in Row
      BY <2>1, <2>2 DEF Row
    <3> QED
      BY <1>1, <2>1, <2>2, <3>1
  <2>3. CASE e \notin Exchange
    BY <1>1, <2>1, <2>3
  <2> QED
    BY <2>2, <2>3
<1>5. Shape'
  <2>1. DOMAIN pending' \subseteq Exchange /\ \A x \in DOMAIN pending' : pending'[x] \in Nat
    BY <1>3 DEF Inv, Shape
  <2>2. taken' \in [Exchange -> Row] /\ burns' \in [Exchange -> Nat]
    BY <1>2 DEF Inv, Shape
  <2>3. job'.at = "idle" /\ job'.at \in Labels
    BY <1>2, Chosen DEF Labels
  <2> QED
    BY <1>4, <2>1, <2>2, <2>3 DEF Shape
<1>6. \A x \in DOMAIN pending' : x \in Exchange \ {e} /\ exchanges'[x].status # "none"
  BY <1>3, <1>4 DEF Inv, Shape, Due
<1>7. job'.at = "idle"
  BY <1>2, Chosen
<1> QED
  BY <1>5, <1>6, <1>7 DEF Inv, Due

LEMMA CrashInv == ASSUME Inv, Crash PROVE Inv'
BY Chosen DEF Inv, Shape, Due, Crash, Labels

LEMMA StepInv == ASSUME Inv, [Next]_vars PROVE Inv'
<1>1. LedgerNext /\ UNCHANGED exchange => Inv'
  BY Elsewhere DEF exchange
<1>2. Late \/ UNCHANGED vars => Inv'
  BY Elsewhere DEF Late, vars, exchange
<1> QED
  BY <1>1, <1>2, RequestInv, InsertInv, WitnessInv, ExecuteInv, VerifierInv, CrashInv
     DEF Next, Steps

-----------------------------------------------------------------------------
(* The ledger's sums. *)

LedgerInv == LedgerTypeOK /\ IsFiniteSet(mints) /\ LogExplains

LEMMA AmountsNat ==
    \A ms : ms \subseteq Mint /\ IsFiniteSet(ms) => Amounts(ms) \in Nat
<1> SUFFICES ASSUME NEW ms, ms \subseteq Mint, IsFiniteSet(ms) PROVE Amounts(ms) \in Nat
  OBVIOUS
<1> DEFINE f == [r \in ms |-> r.amount]
<1>1. \A r \in ms : f[r] \in Nat
  BY DEF Mint
<1>2. Amounts(ms) = SumFunctionOnSet(f, ms)
  BY DEF Amounts
<1> HIDE DEF f
<1> QED
  BY <1>1, <1>2, SumNat

LEMMA AmountsAdd ==
    \A ms, r : ms \subseteq Mint /\ IsFiniteSet(ms) /\ r \in Mint /\ r \notin ms
        => Amounts(ms \cup {r}) = Amounts(ms) + r.amount
<1> SUFFICES ASSUME NEW ms, NEW r, ms \subseteq Mint, IsFiniteSet(ms), r \in Mint, r \notin ms
             PROVE  Amounts(ms \cup {r}) = Amounts(ms) + r.amount
  OBVIOUS
<1> DEFINE f == [x \in ms |-> x.amount]
           g == [x \in ms \cup {r} |-> x.amount]
<1>1. /\ \A x \in ms : f[x] = g[x] /\ f[x] \in Int
      /\ \A x \in ms \cup {r} : g[x] \in Int
      /\ g[r] = r.amount /\ r.amount \in Int
  BY DEF Mint
<1>2. /\ Amounts(ms) = SumFunctionOnSet(f, ms)
      /\ Amounts(ms \cup {r}) = SumFunctionOnSet(g, ms \cup {r})
  BY DEF Amounts
<1> HIDE DEF f, g
<1>3. SumFunctionOnSet(g, ms \cup {r}) = g[r] + SumFunctionOnSet(g, ms)
  BY <1>1, SumAdd
<1>4. SumFunctionOnSet(f, ms) = SumFunctionOnSet(g, ms)
  BY <1>1, SumSame
<1>5. SumFunctionOnSet(f, ms) \in Int
  BY <1>1, SumInt
<1> QED
  BY <1>1, <1>2, <1>3, <1>4, <1>5

LEMMA MinMax ==
    \A x, y \in Int : Min({x, y}) \in {x, y} /\ Max({x, y}) \in {x, y}
                      /\ Max({x, y}) >= x
<1> SUFFICES ASSUME NEW x \in Int, NEW y \in Int
             PROVE  Min({x, y}) \in {x, y} /\ Max({x, y}) \in {x, y} /\ Max({x, y}) >= x
  OBVIOUS
<1>1. \E n \in {x, y} : \A m \in {x, y} : n <= m
  BY SMT
<1>2. \E n \in {x, y} : \A m \in {x, y} : n >= m
  BY SMT
<1> QED
  BY <1>1, <1>2 DEF Min, Max

LEMMA MintsFinite ==
    ASSUME LedgerInv, NEW a
    PROVE  MintsOf(a) \subseteq Mint /\ IsFiniteSet(MintsOf(a)) /\ Amounts(MintsOf(a)) \in Nat
<1>1. MintsOf(a) \subseteq mints
  BY DEF MintsOf
<1> QED
  BY <1>1, FS_Subset, AmountsNat DEF LedgerInv, LedgerTypeOK

LEMMA MintLedger ==
    ASSUME LedgerInv, NEW a \in Address, NEW h \in 1 .. MaxHeight, MintBlockReward(a, h)
    PROVE  LedgerInv'
<1> DEFINE n == Min({Reward[h], MaxSupply - Amounts(mints)})
           r == [to |-> a, height |-> h, amount |-> n]
<1>1. n \in Nat
  <2>1. Reward[h] \in Int /\ MaxSupply - Amounts(mints) \in Int
    <3>1. Reward[h] \in Nat /\ MaxSupply \in Nat
      BY SectorLedgerAssumption
    <3>2. Amounts(mints) \in Nat
      BY AmountsNat DEF LedgerInv, LedgerTypeOK
    <3> QED
      BY <3>1, <3>2
  <2>2. n \in {Reward[h], MaxSupply - Amounts(mints)}
    BY <2>1, MinMax
  <2>3. n > 0
    BY DEF MintBlockReward
  <2> QED
    BY <2>1, <2>2, <2>3
<1>2. /\ r \in Mint /\ r.to = a /\ r.amount = n /\ r.height = h
  BY <1>1 DEF Mint
<1>3. /\ mints' = mints \cup {r}
      /\ balance' = [balance EXCEPT ![a] = @ + n]
      /\ \A x \in MintsOf(a) : x.height # h
      /\ UNCHANGED <<locked, moved, burned, synced, rolled, moves>>
  BY DEF MintBlockReward
<1> HIDE DEF n, r
<1>4. r \notin MintsOf(a)
  BY <1>2, <1>3
<1>5. LedgerTypeOK' /\ IsFiniteSet(mints')
  BY <1>1, <1>2, <1>3, FS_AddElement DEF LedgerInv, LedgerTypeOK
<1>6. MintsOf(a)' = MintsOf(a) \cup {r} /\ \A b \in Address \ {a} : MintsOf(b)' = MintsOf(b)
  BY <1>2, <1>3 DEF MintsOf
<1>7. Amounts(MintsOf(a)') = Amounts(MintsOf(a)) + n
  <2>1. MintsOf(a) \subseteq Mint /\ IsFiniteSet(MintsOf(a))
    BY MintsFinite
  <2> QED
    BY <1>2, <1>4, <1>6, <2>1, AmountsAdd
<1>8. ASSUME ~rolled', NEW b \in Address
      PROVE  balance'[b] = Amounts(MintsOf(b)') + moved'[b] + synced'[b] - burned'[b]
  <2>1. balance[b] = Amounts(MintsOf(b)) + moved[b] + synced[b] - burned[b]
    BY <1>3, <1>8 DEF LedgerInv, LogExplains
  <2>2. /\ Amounts(MintsOf(b)) \in Nat /\ moved[b] \in Int /\ synced[b] \in Int /\ burned[b] \in Nat
        /\ balance[b] \in Nat
    BY MintsFinite DEF LedgerInv, LedgerTypeOK
  <2>3. balance'[b] = IF b = a THEN balance[b] + n ELSE balance[b]
    BY <1>3 DEF LedgerInv, LedgerTypeOK
  <2>4. Amounts(MintsOf(b)') = IF b = a THEN Amounts(MintsOf(b)) + n ELSE Amounts(MintsOf(b))
    BY <1>6, <1>7
  <2> QED
    BY <1>1, <1>3, <2>1, <2>2, <2>3, <2>4
<1>9. LogExplains'
  BY <1>8 DEF LogExplains, Amounts, MintsOf
<1> QED
  BY <1>5, <1>9 DEF LedgerInv

\* An operation that mints nothing keeps LogExplains when it changes a balance
\* by what it changes in the other columns.
LEMMA ColumnsBalance ==
    ASSUME LedgerInv, LedgerTypeOK', UNCHANGED <<mints, rolled>>,
           \A a \in Address : balance'[a] - balance[a]
                                = (moved'[a] - moved[a]) + (synced'[a] - synced[a])
                                    - (burned'[a] - burned[a])
    PROVE  LedgerInv'
<1>1. ASSUME ~rolled', NEW a \in Address
      PROVE  balance'[a] = Amounts(MintsOf(a)) + moved'[a] + synced'[a] - burned'[a]
  <2>1. balance[a] = Amounts(MintsOf(a)) + moved[a] + synced[a] - burned[a]
    BY <1>1 DEF LedgerInv, LogExplains
  <2>2. /\ Amounts(MintsOf(a)) \in Int /\ moved[a] \in Int /\ synced[a] \in Int /\ burned[a] \in Int
        /\ balance[a] \in Int
    BY MintsFinite DEF LedgerInv, LedgerTypeOK
  <2>3. moved'[a] \in Int /\ synced'[a] \in Int /\ burned'[a] \in Int /\ balance'[a] \in Int
    BY DEF LedgerTypeOK
  <2>4. balance'[a] - balance[a] = (moved'[a] - moved[a]) + (synced'[a] - synced[a])
                                    - (burned'[a] - burned[a])
    OBVIOUS
  <2> QED
    BY <2>1, <2>2, <2>3, <2>4
<1>2. LogExplains'
  BY <1>1 DEF LogExplains, MintsOf
<1> QED
  BY <1>2 DEF LedgerInv

LEMMA MoveLedger ==
    ASSUME LedgerInv, NEW a \in Address, NEW b \in Address, a # b, NEW n \in 1 .. MaxSupply,
           Transfer(a, b, n) \/ SyncTransferFromUtxo(a, b, n)
    PROVE  LedgerInv'
<1>1. n \in Nat /\ balance[a] >= n
  <2>1. n \in Nat /\ balance[a] \in Nat /\ locked[a] \in Nat
    BY SectorLedgerAssumption DEF LedgerInv, LedgerTypeOK
  <2>2. balance[a] >= n \/ balance[a] - locked[a] >= n
    BY DEF Transfer, SyncTransferFromUtxo, Available
  <2> QED
    BY <2>1, <2>2
<1>2. /\ balance' = [balance EXCEPT ![a] = @ - n, ![b] = @ + n] /\ moves' \in 0 .. Moves
      /\ UNCHANGED <<locked, mints, burned, rolled>>
  <2>1. /\ balance' = Pay(a, b, n) /\ Move
        /\ UNCHANGED <<locked, mints, burned, rolled>>
    BY DEF Transfer, SyncTransferFromUtxo
  <2>2. moves' \in 0 .. Moves
    BY <2>1, SectorLedgerAssumption DEF Move, LedgerInv, LedgerTypeOK
  <2> QED
    BY <2>1, <2>2 DEF Pay
<1>3. balance' \in [Address -> Nat]
  BY <1>1, <1>2 DEF LedgerInv, LedgerTypeOK
<1>4. CASE Transfer(a, b, n)
  <2>1. moved' = [moved EXCEPT ![a] = @ - n, ![b] = @ + n] /\ UNCHANGED synced
    BY <1>4 DEF Transfer, Shift
  <2>2. LedgerTypeOK'
    BY <1>1, <1>2, <1>3, <2>1 DEF LedgerInv, LedgerTypeOK
  <2>3. \A c \in Address : balance'[c] - balance[c]
                                = (moved'[c] - moved[c]) + (synced'[c] - synced[c])
                                    - (burned'[c] - burned[c])
    BY <1>1, <1>2, <2>1 DEF LedgerInv, LedgerTypeOK
  <2> QED
    BY <1>2, <2>2, <2>3, ColumnsBalance
<1>5. CASE SyncTransferFromUtxo(a, b, n)
  <2>1. synced' = [synced EXCEPT ![a] = @ - n, ![b] = @ + n] /\ UNCHANGED moved
    BY <1>5 DEF SyncTransferFromUtxo, Shift
  <2>2. LedgerTypeOK'
    BY <1>1, <1>2, <1>3, <2>1 DEF LedgerInv, LedgerTypeOK
  <2>3. \A c \in Address : balance'[c] - balance[c]
                                = (moved'[c] - moved[c]) + (synced'[c] - synced[c])
                                    - (burned'[c] - burned[c])
    BY <1>1, <1>2, <2>1 DEF LedgerInv, LedgerTypeOK
  <2> QED
    BY <1>2, <2>2, <2>3, ColumnsBalance
<1> QED
  BY <1>4, <1>5

LEMMA ExchangeLedger ==
    ASSUME LedgerInv, NEW a \in Address, NEW n \in Nat,
           ExchangeToMain(a, n) \/ LockForExchange(a, n) \/ BurnForExchange(a, n)
    PROVE  LedgerInv'
<1>1. UNCHANGED <<mints, moved, synced, rolled>>
  BY DEF ExchangeToMain, LockForExchange, BurnForExchange
<1>2. LedgerTypeOK'
  <2>0. balance[a] \in Nat /\ locked[a] \in Nat /\ burned[a] \in Nat
    BY DEF LedgerInv, LedgerTypeOK
  <2>1. CASE ExchangeToMain(a, n)
    <3>1. /\ balance[a] - locked[a] >= n /\ moves' \in 0 .. Moves
          /\ balance' = [balance EXCEPT ![a] = @ - n]
          /\ burned' = [burned EXCEPT ![a] = @ + n] /\ UNCHANGED locked
      BY <2>1, SectorLedgerAssumption DEF ExchangeToMain, Available, Move, LedgerInv, LedgerTypeOK
    <3>2. balance[a] - n \in Nat /\ burned[a] + n \in Nat
      BY <2>0, <3>1
    <3>3. balance' \in [Address -> Nat] /\ burned' \in [Address -> Nat]
      BY <3>1, <3>2 DEF LedgerInv, LedgerTypeOK
    <3> QED
      BY <1>1, <3>1, <3>3 DEF LedgerInv, LedgerTypeOK
  <2>2. CASE LockForExchange(a, n)
    <3>1. locked' \in [Address -> Nat] /\ UNCHANGED <<balance, burned, moves>>
      BY <2>2, <2>0 DEF LockForExchange, LedgerInv, LedgerTypeOK
    <3> QED
      BY <1>1, <3>1 DEF LedgerInv, LedgerTypeOK
  <2>3. CASE BurnForExchange(a, n)
    <3>1. /\ locked[a] >= n /\ balance[a] >= n /\ UNCHANGED moves
          /\ balance' = [balance EXCEPT ![a] = @ - n]
          /\ locked' = [locked EXCEPT ![a] = @ - n]
          /\ burned' = [burned EXCEPT ![a] = @ + n]
      BY <2>3 DEF BurnForExchange, CanBurn
    <3>2. balance[a] - n \in Nat /\ locked[a] - n \in Nat /\ burned[a] + n \in Nat
      BY <2>0, <3>1
    <3>3. balance' \in [Address -> Nat] /\ locked' \in [Address -> Nat] /\ burned' \in [Address -> Nat]
      BY <3>1, <3>2 DEF LedgerInv, LedgerTypeOK
    <3> QED
      BY <1>1, <3>1, <3>3 DEF LedgerInv, LedgerTypeOK
  <2> QED
    BY <2>1, <2>2, <2>3
<1>3. \A c \in Address : balance'[c] - balance[c]
                              = (moved'[c] - moved[c]) + (synced'[c] - synced[c])
                                  - (burned'[c] - burned[c])
  BY <1>1 DEF ExchangeToMain, LockForExchange, BurnForExchange, LedgerInv, LedgerTypeOK
<1> QED
  BY <1>1, <1>2, <1>3, ColumnsBalance

LEMMA RollbackLedger ==
    ASSUME LedgerInv, NEW h, RollbackToHeight(h)
    PROVE  LedgerInv'
<1> DEFINE gone == {r \in mints : r.height > h}
           hit == {r.to : r \in gone}
           logged(a) == Amounts(MintsOf(a) \ gone) + moved[a] - burned[a]
<1>1. /\ mints' = mints \ gone /\ rolled' = TRUE /\ moves' \in 0 .. Moves
      /\ balance' = [a \in Address |-> IF a \in hit THEN Max({0, logged(a)}) ELSE balance[a]]
      /\ UNCHANGED <<locked, moved, burned, synced>>
  BY SectorLedgerAssumption DEF RollbackToHeight, LocksKept, Move, LedgerInv, LedgerTypeOK
<1>2. \A a \in Address : logged(a) \in Int
  <2> SUFFICES ASSUME NEW a \in Address PROVE logged(a) \in Int
    OBVIOUS
  <2>1. MintsOf(a) \ gone \subseteq MintsOf(a)
    OBVIOUS
  <2>2. Amounts(MintsOf(a) \ gone) \in Nat
    BY <2>1, MintsFinite, FS_Subset, AmountsNat
  <2> QED
    BY <2>2 DEF LedgerInv, LedgerTypeOK
<1> HIDE DEF gone, hit, logged
<1>3. balance' \in [Address -> Nat]
  <2> SUFFICES ASSUME NEW a \in Address
               PROVE  (IF a \in hit THEN Max({0, logged(a)}) ELSE balance[a]) \in Nat
    BY <1>1
  <2>1. Max({0, logged(a)}) \in Nat
    BY <1>2, MinMax
  <2> QED
    BY <2>1 DEF LedgerInv, LedgerTypeOK
<1>4. LedgerTypeOK' /\ IsFiniteSet(mints')
  BY <1>1, <1>3, FS_Subset DEF LedgerInv, LedgerTypeOK
<1> QED
  BY <1>1, <1>4 DEF LedgerInv, LogExplains

LEMMA LedgerKeeps ==
    ASSUME LedgerInv, LedgerNext
    PROVE  LedgerInv' /\ UNCHANGED locked
<1>1. LedgerInv'
  BY MintLedger, MoveLedger, ExchangeLedger, RollbackLedger, SectorLedgerAssumption DEF LedgerNext
<1>2. UNCHANGED locked
  BY DEF LedgerNext, MintBlockReward, Transfer, SyncTransferFromUtxo, ExchangeToMain,
         RollbackToHeight, LocksKept
<1> QED
  BY <1>1, <1>2

-----------------------------------------------------------------------------
(* What was locked for the exchanges of an address. *)

Once == [e \in Exchange |-> 1]

Total(a, rows, times) ==
    SumFunctionOnSet([e \in Exchange |-> rows[e].amount * times[e]],
                     {e \in Exchange : rows[e].who = a})

Share(a, r, n) == IF r.who = a THEN r.amount * n ELSE 0
Shares(a, rows, times) == [e \in Exchange |-> Share(a, rows[e], times[e])]

LEMMA TotalShares ==
    \A a, rows, times : rows \in [Exchange -> Row] /\ times \in [Exchange -> Nat]
        => Total(a, rows, times) = SumFunctionOnSet(Shares(a, rows, times), Exchange)
<1> SUFFICES ASSUME NEW a, NEW rows \in [Exchange -> Row], NEW times \in [Exchange -> Nat]
             PROVE  Total(a, rows, times) = SumFunctionOnSet(Shares(a, rows, times), Exchange)
  OBVIOUS
<1> DEFINE f == [e \in Exchange |-> rows[e].amount * times[e]]
           T == {e \in Exchange : rows[e].who = a}
           g == Shares(a, rows, times)
<1>1. ASSUME NEW e \in Exchange PROVE f[e] \in Nat /\ g[e] = IF e \in T THEN f[e] ELSE 0
  <2>1. rows[e].amount \in Nat /\ times[e] \in Nat
    BY DEF Row
  <2>2. rows[e].amount * times[e] \in Nat
    BY <2>1
  <2> QED
    BY <2>2 DEF Shares, Share
<1>2. Total(a, rows, times) = SumFunctionOnSet(f, T) /\ T \in SUBSET Exchange
  BY DEF Total
<1> HIDE DEF f, T, g
<1>3. SumFunctionOnSet(g, Exchange) = SumFunctionOnSet(f, T)
  BY <1>1, <1>2, SumSupport, SectorExchangeAssumption
<1> QED
  BY <1>2, <1>3 DEF g

\* The row of one exchange is written, or it is burned once more.
OneRow(rows, new, times, again, e) ==
    /\ rows \in [Exchange -> Row] /\ new \in [Exchange -> Row]
    /\ times \in [Exchange -> Nat] /\ again \in [Exchange -> Nat]
    /\ e \in Exchange
    /\ \A x \in Exchange \ {e} : new[x] = rows[x] /\ again[x] = times[x]

LEMMA TotalChanged ==
    \A a, rows, new, times, again, e : OneRow(rows, new, times, again, e)
        => /\ Total(a, new, again) = Total(a, rows, times) - Share(a, rows[e], times[e])
                                        + Share(a, new[e], again[e])
           /\ Total(a, rows, times) \in Int
<1> SUFFICES ASSUME NEW a, NEW rows, NEW new, NEW times, NEW again, NEW e,
                    OneRow(rows, new, times, again, e)
             PROVE  /\ Total(a, new, again) = Total(a, rows, times) - Share(a, rows[e], times[e])
                                                 + Share(a, new[e], again[e])
                    /\ Total(a, rows, times) \in Int
  OBVIOUS
<1> DEFINE f == Shares(a, rows, times)
           g == Shares(a, new, again)
<1>1. ASSUME NEW x \in Exchange PROVE f[x] \in Int /\ g[x] \in Int
  <2>1. rows[x].amount \in Nat /\ times[x] \in Nat /\ new[x].amount \in Nat /\ again[x] \in Nat
    BY DEF Row, OneRow
  <2>2. rows[x].amount * times[x] \in Nat /\ new[x].amount * again[x] \in Nat
    BY <2>1
  <2> QED
    BY <2>2 DEF Shares, Share
<1>2. /\ \A x \in Exchange : x # e => f[x] = g[x]
      /\ f[e] = Share(a, rows[e], times[e]) /\ g[e] = Share(a, new[e], again[e])
  BY DEF OneRow, Shares
<1>3. /\ Total(a, rows, times) = SumFunctionOnSet(f, Exchange)
      /\ Total(a, new, again) = SumFunctionOnSet(g, Exchange)
  BY TotalShares DEF OneRow
<1> HIDE DEF f, g
<1>4. ChangedAt(f, g, Exchange, e)
  BY <1>1, <1>2, SectorExchangeAssumption DEF ChangedAt, OneRow
<1>5. SumFunctionOnSet(g, Exchange) = SumFunctionOnSet(f, Exchange) - f[e] + g[e]
  BY <1>4, SumUpdate
<1>6. SumFunctionOnSet(f, Exchange) \in Int
  BY <1>1, SumInt, SectorExchangeAssumption
<1> QED
  BY <1>2, <1>3, <1>5, <1>6

LEMMA LocksAre ==
    LocksAccounted <=> \A a \in Address :
        locked[a] + Total(a, taken, burns) = Total(a, taken, Once)
BY DEF LocksAccounted, AmountOf, Total, Once

\* The books: the rows that are written agree with what was locked for them.
Kept ==
    \A e \in Exchange :
        /\ exchanges[e].status # "none" => /\ exchanges[e].who = taken[e].who
                                           /\ exchanges[e].amount = taken[e].amount
        /\ taken[e] = NoRow => exchanges[e].status = "none" /\ burns[e] = 0

Books == TypeOK /\ LedgerInv /\ Kept /\ LocksAccounted

LEMMA InitBooks == Init => Books
<1> SUFFICES ASSUME Init PROVE Books
  OBVIOUS
<1>1. /\ \A a \in Address : balance[a] = 0 /\ locked[a] = 0 /\ moved[a] = 0 /\ burned[a] = 0 /\ synced[a] = 0
      /\ mints = {} /\ LedgerTypeOK
  <2>1. LedgerInit /\ 0 \in 0 .. Moves
    BY SectorLedgerAssumption DEF Init
  <2>2. \A a \in Address : balance[a] = 0 /\ locked[a] = 0 /\ moved[a] = 0 /\ burned[a] = 0 /\ synced[a] = 0
    BY <2>1 DEF LedgerInit
  <2>3. /\ balance \in [Address -> Nat] /\ locked \in [Address -> Nat] /\ burned \in [Address -> Nat]
        /\ moved \in [Address -> Int] /\ synced \in [Address -> Int]
    BY <2>1 DEF LedgerInit
  <2>4. mints = {} /\ rolled \in BOOLEAN /\ moves \in 0 .. Moves
    BY <2>1 DEF LedgerInit
  <2>5. LedgerTypeOK
    BY <2>3, <2>4 DEF LedgerTypeOK
  <2> QED
    BY <2>2, <2>4, <2>5
<1>2. IsFiniteSet(mints) /\ \A a \in Address : Amounts(MintsOf(a)) = 0
  <2>1. \A a : MintsOf(a) = {}
    BY <1>1 DEF MintsOf
  <2>2. Amounts({}) = 0
    BY SumEmpty DEF Amounts
  <2> QED
    BY <1>1, <2>1, <2>2, FS_EmptySet
<1>3. LedgerInv
  BY <1>1, <1>2 DEF LedgerInv, LogExplains
<1>4. Free \in [at : {"idle", "insert", "burn", "fail"}, e : Exchange]
  BY SectorExchangeAssumption DEF Free
<1>5. TypeOK
  BY <1>1, <1>4, Chosen, SectorExchangeAssumption DEF Init, TypeOK
<1>6. Kept
  BY Chosen DEF Init, Kept
<1>7. ASSUME NEW a \in Address PROVE locked[a] + Total(a, taken, burns) = Total(a, taken, Once)
  <2>1. /\ taken \in [Exchange -> Row] /\ burns \in [Exchange -> Nat] /\ Once \in [Exchange -> Nat]
    BY <1>5 DEF TypeOK, Once
  <2>2. \A e \in Exchange : Shares(a, taken, burns)[e] = 0 /\ Shares(a, taken, Once)[e] = 0
    BY DEF Init, Shares, Share, NoRow, Once
  <2>3. /\ SumFunctionOnSet(Shares(a, taken, burns), Exchange) = 0
        /\ SumFunctionOnSet(Shares(a, taken, Once), Exchange) = 0
    BY <2>2, SumZero, SectorExchangeAssumption
  <2> QED
    BY <1>1, <2>1, <2>3, TotalShares
<1> QED
  BY <1>3, <1>5, <1>6, <1>7, LocksAre DEF Books

LEMMA RequestBooks == ASSUME Inv, Books, RequestExchange PROVE Books'
<1>1. PICK e \in Exchange, a \in Address, n \in 1 .. MaxSupply, need \in 0 .. 2 :
          /\ taken[e] = NoRow /\ LockForExchange(a, n)
          /\ taken' = [taken EXCEPT ![e] = [status |-> "PENDING", who |-> a,
                                            amount |-> n, need |-> need]]
          /\ job' = [at |-> "insert", e |-> e]
  BY DEF RequestExchange, At
<1> DEFINE row == [status |-> "PENDING", who |-> a, amount |-> n, need |-> need]
<1>2. /\ n \in Nat /\ row \in Row /\ row.who = a /\ row.amount = n /\ row # NoRow
  BY SectorLedgerAssumption DEF Row, NoRow
<1> HIDE DEF row
<1>3. /\ taken' \in [Exchange -> Row] /\ taken'[e] = row
      /\ \A x \in Exchange \ {e} : taken'[x] = taken[x]
      /\ UNCHANGED <<exchanges, pending, late, burns, crashes>>
  BY <1>1, <1>2 DEF RequestExchange, Books, TypeOK, row
<1>4. LedgerInv'
  BY <1>1, <1>2, ExchangeLedger DEF Books
<1>5. TypeOK'
  BY <1>1, <1>3, <1>4 DEF Books, TypeOK, LedgerInv
<1>6. Kept'
  BY <1>1, <1>2, <1>3 DEF Books, Kept
<1>7. \A b \in Address : /\ locked'[b] = IF b = a THEN locked[b] + n ELSE locked[b]
                         /\ locked[b] \in Nat
  BY <1>1 DEF LockForExchange, Books, TypeOK, LedgerTypeOK
<1>8. ASSUME NEW b \in Address
      PROVE  locked'[b] + Total(b, taken', burns') = Total(b, taken', Once)
  <2>1. OneRow(taken, taken', burns, burns', e) /\ OneRow(taken, taken', Once, Once, e)
    BY <1>3 DEF OneRow, Books, TypeOK, Once
  <2>2. /\ Total(b, taken', burns') = Total(b, taken, burns) - Share(b, taken[e], burns[e])
                                        + Share(b, taken'[e], burns'[e])
        /\ Total(b, taken', Once) = Total(b, taken, Once) - Share(b, taken[e], Once[e])
                                        + Share(b, taken'[e], Once[e])
        /\ Total(b, taken, burns) \in Int /\ Total(b, taken, Once) \in Int
    BY <2>1, TotalChanged
  <2>3. Share(b, taken[e], burns[e]) = 0 /\ Share(b, taken[e], Once[e]) = 0
    <3>1. burns[e] = 0 /\ Once[e] = 1 /\ taken[e].amount = 0
      BY <1>1 DEF Books, Kept, NoRow, Once
    <3> QED
      BY <3>1 DEF Share
  <2>4. /\ Share(b, taken'[e], burns'[e]) = 0
        /\ Share(b, taken'[e], Once[e]) = IF b = a THEN n ELSE 0
    <3>1. burns'[e] = 0 /\ Once[e] = 1
      BY <1>1, <1>3 DEF Books, Kept, Once
    <3> QED
      BY <1>2, <1>3, <3>1 DEF Share
  <2>5. locked[b] + Total(b, taken, burns) = Total(b, taken, Once)
    BY LocksAre DEF Books
  <2> QED
    BY <1>2, <1>7, <2>2, <2>3, <2>4, <2>5
<1>9. LocksAccounted'
  BY <1>8 DEF LocksAccounted, AmountOf, Total, Once
<1> QED
  BY <1>4, <1>5, <1>6, <1>9 DEF Books

\* A step that locks and burns nothing.
LEMMA BooksRest ==
    ASSUME Books, TypeOK', LedgerInv', Kept', UNCHANGED <<locked, taken, burns>>
    PROVE  Books'
BY DEF Books, LocksAccounted, AmountOf

LEMMA InsertBooks == ASSUME Inv, Books, Insert PROVE Books'
<1>1. PICK e \in Exchange : e = job.e
  BY DEF Books, TypeOK
<1>2. /\ exchanges' = [exchanges EXCEPT ![e] = taken[e]]
      /\ UNCHANGED <<ledger, late, taken, burns, crashes>>
      /\ taken[e].status = "PENDING"
  BY <1>1 DEF Insert, Inv, Due
<1>3. /\ exchanges' \in [Exchange -> Row] /\ exchanges'[e] = taken[e]
      /\ \A x \in Exchange \ {e} : exchanges'[x] = exchanges[x]
  BY <1>2 DEF Books, TypeOK
<1>4. LedgerInv'
  BY <1>2 DEF ledger, Books, LedgerInv, LedgerTypeOK, LogExplains, MintsOf
<1>5. Kept'
  BY <1>2, <1>3, Chosen DEF Books, Kept
<1>6. TypeOK'
  <2>1. CASE job' = [at |-> "burn", e |-> e] /\ UNCHANGED pending
    BY <1>2, <1>3, <1>4, <2>1 DEF Books, TypeOK, LedgerInv
  <2>2. CASE job' = Free /\ pending' = [x \in DOMAIN pending \cup {e} |->
                                          IF x = e THEN 0 ELSE pending[x]]
    <3>1. Free \in [at : {"idle", "insert", "burn", "fail"}, e : Exchange]
      BY SectorExchangeAssumption DEF Free
    <3>2. /\ DOMAIN pending' \subseteq Exchange /\ late' \subseteq DOMAIN pending'
          /\ \A x \in DOMAIN pending' : pending'[x] \in 0 .. MaxWitness
      BY <1>2, <2>2, SectorExchangeAssumption DEF Books, TypeOK
    <3> QED
      BY <1>2, <1>3, <1>4, <2>2, <3>1, <3>2 DEF Books, TypeOK, LedgerInv
  <2> QED
    BY <1>1, <2>1, <2>2 DEF Insert, At
<1> QED
  BY <1>2, <1>4, <1>5, <1>6, BooksRest DEF ledger

LEMMA BurnBooks == ASSUME Inv, Books, Burn PROVE Books'
<1>1. PICK e \in Exchange : e = job.e
  BY DEF Books, TypeOK
<1> DEFINE a == exchanges[e].who
           n == exchanges[e].amount
<1>2. /\ a \in Address /\ n \in Nat /\ taken[e].who = a /\ taken[e].amount = n
      /\ exchanges[e].status # "none"
  BY <1>1 DEF Burn, Inv, Due, Books, TypeOK, Row, Kept
<1>3. /\ job' = [at |-> "fail", e |-> e]
      /\ UNCHANGED <<exchanges, pending, late, taken, crashes>>
      /\ \/ BurnForExchange(a, n) /\ burns' = [burns EXCEPT ![e] = @ + 1]
         \/ UNCHANGED <<ledger, burns>>
  BY <1>1 DEF Burn, At
<1> HIDE DEF a, n
<1>4. CASE UNCHANGED <<ledger, burns>>
  <2>1. LedgerInv'
    BY <1>4 DEF ledger, Books, LedgerInv, LedgerTypeOK, LogExplains, MintsOf
  <2>2. TypeOK' /\ Kept'
    BY <1>3, <1>4, <2>1 DEF Books, TypeOK, LedgerInv, Kept
  <2> QED
    BY <1>3, <1>4, <2>1, <2>2, BooksRest DEF ledger
<1>5. CASE BurnForExchange(a, n) /\ burns' = [burns EXCEPT ![e] = @ + 1]
  <2>1. LedgerInv'
    BY <1>2, <1>5, ExchangeLedger DEF Books
  <2>2. /\ burns' \in [Exchange -> Nat] /\ burns'[e] = burns[e] + 1 /\ burns[e] \in Nat
        /\ \A x \in Exchange \ {e} : burns'[x] = burns[x]
    BY <1>5 DEF Books, TypeOK
  <2>3. TypeOK'
    BY <1>3, <2>1, <2>2 DEF Books, TypeOK, LedgerInv
  <2>4. Kept'
    BY <1>2, <1>3, <2>2 DEF Books, Kept
  <2>5. \A b \in Address : /\ locked'[b] = IF b = a THEN locked[b] - n ELSE locked[b]
                           /\ locked[b] \in Nat
    BY <1>5 DEF BurnForExchange, Books, TypeOK, LedgerTypeOK
  <2>6. ASSUME NEW b \in Address
        PROVE  locked'[b] + Total(b, taken', burns') = Total(b, taken', Once)
    <3>1. OneRow(taken, taken', burns, burns', e)
      BY <1>3, <2>2 DEF OneRow, Books, TypeOK
    <3>2. /\ Total(b, taken', burns') = Total(b, taken, burns) - Share(b, taken[e], burns[e])
                                          + Share(b, taken'[e], burns'[e])
          /\ Total(b, taken, burns) \in Int
      BY <3>1, TotalChanged
    <3>3. Share(b, taken'[e], burns'[e]) = IF b = a THEN Share(b, taken[e], burns[e]) + n
                                                    ELSE Share(b, taken[e], burns[e])
      <4>1. n * (burns[e] + 1) = n * burns[e] + n
        BY <1>2, <2>2
      <4> QED
        BY <1>2, <1>3, <2>2, <4>1 DEF Share
    <3>4. Share(b, taken[e], burns[e]) \in Int
      <4>1. n * burns[e] \in Nat
        BY <1>2, <2>2
      <4> QED
        BY <1>2, <4>1 DEF Share
    <3>5. locked[b] + Total(b, taken, burns) = Total(b, taken, Once)
      BY LocksAre DEF Books
    <3>6. Total(b, taken', Once) = Total(b, taken, Once)
      BY <1>3
    <3> QED
      BY <1>2, <2>5, <3>2, <3>3, <3>4, <3>5, <3>6
  <2>7. LocksAccounted'
    BY <2>6 DEF LocksAccounted, AmountOf, Total, Once
  <2> QED
    BY <2>1, <2>3, <2>4, <2>7 DEF Books
<1> QED
  BY <1>3, <1>4, <1>5

\* The witnesses, the verifier, the end of a call, time and a crash.
LEMMA OtherBooks ==
    ASSUME Inv, Books, AddWitness \/ Fail \/ Verifier \/ Late \/ Crash \/ UNCHANGED vars
    PROVE  Books'
<1>1. UNCHANGED <<ledger, taken, burns>>
  BY DEF AddWitness, Fail, Verifier, Late, Crash, vars, exchange
<1>2. LedgerInv'
  BY <1>1 DEF ledger, Books, LedgerInv, LedgerTypeOK, LogExplains, MintsOf
<1>3. Free \in [at : {"idle", "insert", "burn", "fail"}, e : Exchange]
  BY SectorExchangeAssumption DEF Free
<1>4. ASSUME NEW e \in Exchange, exchanges[e].status # "none",
             exchanges' = [exchanges EXCEPT ![e].status = "FAILED"]
      PROVE  exchanges' \in [Exchange -> Row] /\ Kept'
  <2>1. [exchanges[e] EXCEPT !.status = "FAILED"] \in Row
    BY DEF Books, TypeOK, Row
  <2>2. exchanges' \in [Exchange -> Row]
    BY <1>4, <2>1 DEF Books, TypeOK
  <2>3. /\ exchanges'[e].who = exchanges[e].who /\ exchanges'[e].amount = exchanges[e].amount
        /\ \A x \in Exchange \ {e} : exchanges'[x] = exchanges[x]
    BY <1>4 DEF Books, TypeOK, Row
  <2>4. Kept'
    BY <1>1, <1>4, <2>3 DEF Books, Kept
  <2> QED
    BY <2>2, <2>4
<1>5. CASE AddWitness
  <2>1. PICK e \in DOMAIN pending : /\ pending[e] < MaxWitness
                                    /\ pending' = [pending EXCEPT ![e] = @ + 1]
                                    /\ job' = [at |-> "burn", e |-> e] \/ UNCHANGED job
    BY <1>5 DEF AddWitness, At
  <2>2. UNCHANGED <<exchanges, late, crashes>> /\ e \in Exchange
    BY <1>5 DEF AddWitness, Books, TypeOK
  <2>3. /\ DOMAIN pending' = DOMAIN pending
        /\ \A x \in DOMAIN pending : pending'[x] \in 0 .. MaxWitness
    BY <2>1, SectorExchangeAssumption DEF Books, TypeOK
  <2>4. TypeOK' /\ Kept'
    BY <1>1, <1>2, <2>1, <2>2, <2>3 DEF Books, TypeOK, LedgerInv, Kept
  <2> QED
    BY <1>1, <1>2, <2>4, BooksRest DEF ledger
<1>6. CASE Fail
  <2>1. PICK e \in Exchange : e = job.e
    BY DEF Books, TypeOK
  <2>2. /\ exchanges' = [exchanges EXCEPT ![e].status = "FAILED"] /\ job' = Free
        /\ UNCHANGED <<pending, late, crashes>> /\ exchanges[e].status # "none"
    BY <1>6, <2>1 DEF Fail, Inv, Due
  <2>3. TypeOK' /\ Kept'
    BY <1>1, <1>2, <1>3, <1>4, <2>2 DEF Books, TypeOK, LedgerInv
  <2> QED
    BY <1>1, <1>2, <2>3, BooksRest DEF ledger
<1>7. CASE Verifier
  <2>1. PICK e \in late : /\ exchanges' = [exchanges EXCEPT ![e].status = "FAILED"]
                          /\ pending' = Restrict(pending, DOMAIN pending \ {e})
                          /\ late' = late \ {e}
    BY <1>7 DEF Verifier
  <2>2. e \in Exchange /\ exchanges[e].status # "none" /\ UNCHANGED <<job, crashes>>
    BY <1>7 DEF Verifier, Inv, Due, Books, TypeOK
  <2>3. /\ DOMAIN pending' = DOMAIN pending \ {e}
        /\ \A x \in DOMAIN pending' : pending'[x] = pending[x]
    BY <2>1 DEF Restrict
  <2>4. exchanges' \in [Exchange -> Row] /\ Kept'
    BY <1>4, <2>1, <2>2
  <2>5. TypeOK'
    BY <1>1, <1>2, <2>1, <2>2, <2>3, <2>4 DEF Books, TypeOK, LedgerInv
  <2> QED
    BY <1>1, <1>2, <2>4, <2>5, BooksRest DEF ledger
<1>8. CASE Late
  <2>1. TypeOK' /\ Kept'
    BY <1>1, <1>2, <1>8 DEF Late, Books, TypeOK, LedgerInv, Kept
  <2> QED
    BY <1>1, <1>2, <2>1, BooksRest DEF ledger
<1>9. CASE Crash
  <2>1. TypeOK' /\ Kept'
    BY <1>1, <1>2, <1>3, <1>9, SectorExchangeAssumption
       DEF Crash, Books, TypeOK, LedgerInv, Kept
  <2> QED
    BY <1>1, <1>2, <2>1, BooksRest DEF ledger
<1>10. CASE UNCHANGED vars
  <2>1. TypeOK' /\ Kept'
    BY <1>1, <1>2, <1>10 DEF vars, exchange, Books, TypeOK, LedgerInv, Kept
  <2> QED
    BY <1>1, <1>2, <2>1, BooksRest DEF ledger
<1> QED
  BY <1>5, <1>6, <1>7, <1>8, <1>9, <1>10

LEMMA StepBooks == ASSUME Inv, Books, [Next]_vars PROVE Books'
<1>1. ASSUME LedgerNext, UNCHANGED exchange PROVE Books'
  <2>1. LedgerInv' /\ UNCHANGED locked
    BY <1>1, LedgerKeeps DEF Books
  <2>2. TypeOK' /\ Kept'
    BY <1>1, <2>1 DEF exchange, Books, TypeOK, LedgerInv, Kept
  <2> QED
    BY <1>1, <2>1, <2>2, BooksRest DEF exchange
<1> QED
  BY <1>1, RequestBooks, InsertBooks, BurnBooks, OtherBooks DEF Next, Steps

LEMMA BooksInvariance == Spec => [](Inv /\ Books)
<1>1. Init => Inv /\ Books
  BY InitInv, InitBooks
<1>2. Inv /\ Books /\ [Next]_vars => (Inv /\ Books)'
  BY StepInv, StepBooks
<1> QED
  BY <1>1, <1>2, PTL DEF Spec

\* The tables, the exchanges in memory and the call keep their shapes; no
\* balance and no lock falls below zero (_update_balance).
THEOREM TypeCorrect == Spec => []TypeOK
<1>1. Books => TypeOK
  BY DEF Books
<1> QED
  BY <1>1, BooksInvariance, PTL

\* Until a rollback, a balance is what the log and the transfers copied from the
\* UTXO store say: no lock, burn or failed exchange makes or loses coins.
THEOREM LogExplainsBalances == Spec => []LogExplains
<1>1. Books => LogExplains
  BY DEF Books, LedgerInv
<1> QED
  BY <1>1, BooksInvariance, PTL

\* What was locked for the exchanges of an address is still locked or has been
\* burned: nobody loses more than was asked for (lock_for_exchange,
\* burn_for_exchange).
THEOREM LocksAreAccounted == Spec => []LocksAccounted
<1>1. Books => LocksAccounted
  BY DEF Books
<1> QED
  BY <1>1, BooksInvariance, PTL

\* Coins are burned for an exchange only after it was recorded and the
\* witnesses that its amount needs had come, whatever the verifier, the
\* ledger's other users and crashes do between the steps of the call.
THEOREM BurnsWitnessed == Spec => BurnedAreWitnessed
<1> DEFINE Good == \A e \in Exchange : burns'[e] > burns[e] =>
                      /\ exchanges[e].status # "none"
                      /\ exchanges[e].need = 0 \/ pending[e] >= exchanges[e].need
<1>1. ASSUME Inv, Next PROVE Good
  <2>1. CASE Burn
    <3>1. PICK e \in Exchange : e = job.e
      BY <1>1, <2>1 DEF Burn, Inv, Shape
    <3>2. Ready(e) /\ exchanges[e].status # "none"
      BY <1>1, <2>1, <3>1 DEF Burn, Inv, Due
    <3>3. \A x \in Exchange \ {e} : burns'[x] = burns[x] /\ burns[x] \in Nat
      BY <1>1, <2>1, <3>1 DEF Burn, Inv, Shape
    <3> QED
      BY <3>2, <3>3 DEF Ready
  <2>2. CASE ~Burn
    <3>1. burns' = burns
      BY <1>1, <2>2 DEF Next, Steps, RequestExchange, AddWitness, Insert, Fail, Verifier, Late,
                        Crash, exchange
    <3>2. \A e \in Exchange : burns[e] \in Nat
      BY <1>1 DEF Inv, Shape
    <3> QED
      BY <3>1, <3>2
  <2> QED
    BY <2>1, <2>2
<1>2. ASSUME Inv, [Next]_vars PROVE [Good]_vars
  BY <1>1, <1>2
<1>3. Inv /\ [Next]_vars => Inv'
  BY StepInv
<1>4. [][Good]_vars <=> BurnedAreWitnessed
  BY DEF BurnedAreWitnessed
<1> QED
  BY InitInv, <1>2, <1>3, <1>4, PTL DEF Spec
=============================================================================
