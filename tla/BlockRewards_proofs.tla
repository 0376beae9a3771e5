-------------------------- MODULE BlockRewards_proofs --------------------------
(***************************************************************************)
(* TLAPS proofs about BlockRewards, for every height, every schedule of    *)
(* rewards and every number of crashes and failed writes.                  *)
(*                                                                         *)
(* Four inductive invariants: an entry is left pending only by a write     *)
(* that failed, and each such entry has cost one (Books); a height's       *)
(* coinbase is its miner's and the mintings stay below the cap (RInv);     *)
(* each block that was not paid has cost a third of a crash or a failed    *)
(* write (LossInv); each committed one a failed write (CommitInv).         *)
(***************************************************************************)
EXTENDS BlockRewards, SumTheorems

-----------------------------------------------------------------------------
(***************************************************************************)
(* The journal.                                                            *)
(***************************************************************************)
Crediting == {"begin", "coinbase", "treasury", "mint", "commit"}

Shape ==
    /\ pc \in [Thread -> Crediting \cup {"off", "idle", "recover", "dead"}]
    /\ work = [t \in Thread |-> work[t]]
    /\ IsFiniteSet(Pending) /\ faults \in Nat

\* At rest, each pending entry has cost a write; at work, each but the one in hand.
Books ==
    /\ pc["boot"] \in {"idle", "dead"} => Cardinality(Pending) <= faults
    /\ pc["boot"] \in Crediting => Cardinality(Pending \ {work["boot"]}) <= faults

-----------------------------------------------------------------------------

\* One entry is one entry: taking it out of a finite set costs at most one.
LEMMA Without ==
    ASSUME NEW S, IsFiniteSet(S), NEW x
    PROVE  /\ IsFiniteSet(S \ {x}) /\ Cardinality(S) \in Nat /\ Cardinality(S \ {x}) \in Nat
           /\ Cardinality(S \ {x}) <= Cardinality(S)
           /\ Cardinality(S) <= Cardinality(S \ {x}) + 1
<1>1. CASE x \in S
  <2>1. IsFiniteSet(S \ {x}) /\ Cardinality(S \ {x}) = Cardinality(S) - 1
    BY <1>1, FS_RemoveElement
  <2>2. Cardinality(S) \in Nat /\ Cardinality(S \ {x}) \in Nat
    BY <2>1, FS_CardinalityType
  <2> QED
    BY <2>1, <2>2
<1>2. CASE x \notin S
  <2>1. S \ {x} = S
    BY <1>2
  <2>2. Cardinality(S) \in Nat
    BY FS_CardinalityType
  <2> QED
    BY <2>1, <2>2
<1> QED
  BY <1>1, <1>2

LEMMA InitBooks == Init => Shape /\ Books
<1> SUFFICES ASSUME Init PROVE Shape /\ Books
  OBVIOUS
<1>1. Pending = {}
  BY DEF Init, Pending
<1>2. IsFiniteSet(Pending)
  BY <1>1, FS_EmptySet
<1> QED
  BY <1>2 DEF Init, Shape, Books, Crediting, Thread

\* A step that leaves the journal alone and does not touch the boot loop.
LEMMA Elsewhere ==
    ASSUME Shape, Books, UNCHANGED journal, pc'["boot"] = pc["boot"],
           work'["boot"] = work["boot"],
           pc' \in [Thread -> Crediting \cup {"off", "idle", "recover", "dead"}],
           work' = [t \in Thread |-> work'[t]],
           faults' \in Nat, faults' >= faults
    PROVE  Shape' /\ Books'
<1>1. Pending' = Pending
  BY DEF Pending
<1>2. Cardinality(Pending) \in Nat /\ Cardinality(Pending \ {work["boot"]}) \in Nat
  BY Without DEF Shape
<1> DEFINE c == Cardinality(Pending)
           d == Cardinality(Pending \ {work["boot"]})
<1>3. c' = c /\ d' = d
  BY <1>1
<1>4. c \in Nat /\ d \in Nat
  BY <1>2
<1>5. /\ pc["boot"] \in {"idle", "dead"} => c <= faults
      /\ pc["boot"] \in Crediting => d <= faults
  BY DEF Books
<1> HIDE DEF c, d
<1>6. /\ pc'["boot"] \in {"idle", "dead"} => c <= faults'
      /\ pc'["boot"] \in Crediting => d <= faults'
  BY <1>4, <1>5 DEF Shape
<1>7. Books'
  BY <1>3, <1>6 DEF Books, c, d
<1> QED
  BY <1>1, <1>7 DEF Shape

\* A step of the boot loop after which p is pending; what it needs is said of
\* the new set.
LEMMA BootMoves ==
    ASSUME Shape, NEW label \in Crediting \cup {"off", "idle", "recover", "dead"}, NEW w, NEW P,
           pc' = [pc EXCEPT !["boot"] = label], work' = [work EXCEPT !["boot"] = w],
           Pending' = P, IsFiniteSet(P), faults' \in Nat,
           label \in {"idle", "dead"} => Cardinality(P) <= faults',
           label \in Crediting => Cardinality(P \ {w}) <= faults'
    PROVE  Shape' /\ Books'
<1>1. /\ pc'["boot"] = label /\ work'["boot"] = w
      /\ pc' \in [Thread -> Crediting \cup {"off", "idle", "recover", "dead"}]
      /\ work' = [t \in Thread |-> work'[t]]
  BY DEF Shape, Thread
<1> QED
  BY <1>1 DEF Shape, Books

LEMMA JournalSteps ==
    ASSUME Shape, Books, Begin \/ BeginFails \/ Commit \/ CommitFails
    PROVE  Shape' /\ Books'
<1>0. PICK w : w = work["boot"]
  OBVIOUS
<1>1. work' = [work EXCEPT !["boot"] = w] /\ pc["boot"] \in {"begin", "commit"}
  BY <1>0 DEF Begin, BeginFails, Commit, CommitFails, Shape
<1>2. PICK P : P = Pending
  OBVIOUS
<1>3. /\ IsFiniteSet(P) /\ IsFiniteSet(P \ {w}) /\ Cardinality(P) \in Nat
      /\ Cardinality(P \ {w}) \in Nat /\ Cardinality(P) <= Cardinality(P \ {w}) + 1
      /\ Cardinality(P \ {w}) <= faults /\ faults \in Nat
  BY <1>0, <1>1, <1>2, Without DEF Shape, Books, Crediting
<1>4. CASE Begin
  <2>0. PICK Q : Q = P \cup {w}
    OBVIOUS
  <2>1. Pending' = Q /\ faults' = faults /\ pc' = [pc EXCEPT !["boot"] = "coinbase"]
    BY <1>0, <1>2, <1>4, <2>0 DEF Begin, Pending, Set, Goto, bounds
  <2>2. IsFiniteSet(Q) /\ Q \ {w} = P \ {w}
    BY <1>3, <2>0, FS_AddElement
  <2>3. Cardinality(Q \ {w}) <= faults'
    BY <1>3, <2>1, <2>2
  <2> QED
    BY <1>1, <1>3, <2>1, <2>2, <2>3, BootMoves DEF Crediting
<1>5. CASE BeginFails
  <2>1. Pending' = P /\ faults' = faults + 1 /\ pc' = [pc EXCEPT !["boot"] = "coinbase"]
    BY <1>2, <1>5 DEF BeginFails, Pending, Fault, Goto
  <2>2. faults' \in Nat /\ Cardinality(P \ {w}) <= faults'
    BY <1>3, <2>1
  <2> QED
    BY <1>1, <1>3, <2>1, <2>2, BootMoves DEF Crediting
<1>6. CASE Commit
  <2>0. PICK Q : Q = P \ {w}
    OBVIOUS
  <2>1. Pending' = Q /\ faults' = faults /\ pc' = [pc EXCEPT !["boot"] = "idle"]
    BY <1>0, <1>2, <1>6, <2>0 DEF Commit, Pending, Set, Goto, bounds
  <2>2. IsFiniteSet(Q) /\ Cardinality(Q) <= faults'
    BY <1>3, <2>0, <2>1
  <2> QED
    BY <1>1, <1>3, <2>1, <2>2, BootMoves DEF Crediting
<1>7. CASE CommitFails
  <2>1. Pending' = P /\ faults' = faults + 1 /\ pc' = [pc EXCEPT !["boot"] = "idle"]
    BY <1>2, <1>7 DEF CommitFails, Pending, Fault, Goto
  <2>2. faults' \in Nat /\ Cardinality(P) <= faults'
    BY <1>3, <2>1
  <2> QED
    BY <1>1, <1>3, <2>1, <2>2, BootMoves DEF Crediting
<1> QED
  BY <1>4, <1>5, <1>6, <1>7

LEMMA BootSteps ==
    ASSUME Shape, Books,
           \/ Mined("boot") \/ Coinbase("boot") \/ TreasuryCoinbase("boot")
           \/ CoinbaseFails("boot") \/ MintReward("boot") \/ MintFails("boot")
    PROVE  Shape' /\ Books'
<1>0. Pending' = Pending
  BY DEF Mined, Coinbase, TreasuryCoinbase, CoinbaseFails, MintReward, MintFails, Pending
<1>1. PICK P : P = Pending
  OBVIOUS
<1>2. CASE Mined("boot")
  <2>1. PICK w : w = Len(blocks) + 1
    OBVIOUS
  <2>2. /\ pc' = [pc EXCEPT !["boot"] = "begin"] /\ work' = [work EXCEPT !["boot"] = w]
        /\ faults' = faults /\ pc["boot"] = "idle"
    BY <1>2, <2>1 DEF Mined, Goto, bounds
  <2>3. /\ IsFiniteSet(P) /\ Cardinality(P \ {w}) \in Nat /\ Cardinality(P) \in Nat
        /\ Cardinality(P \ {w}) <= Cardinality(P) /\ Cardinality(P) <= faults /\ faults \in Nat
    BY <1>1, <2>2, Without DEF Shape, Books
  <2>4. Cardinality(P \ {w}) <= faults'
    BY <2>2, <2>3
  <2> QED
    BY <1>0, <1>1, <2>2, <2>3, <2>4, BootMoves DEF Crediting
<1>3. CASE ~Mined("boot")
  <2>1. PICK w : w = work["boot"]
    OBVIOUS
  <2>2. work' = [work EXCEPT !["boot"] = w] /\ pc["boot"] \in Crediting
    BY <1>3, <2>1 DEF Coinbase, TreasuryCoinbase, CoinbaseFails, MintReward, MintFails, Shape,
                      Crediting
  <2>3. PICK label \in {"treasury", "mint", "commit", "dead"} :
            /\ pc' = [pc EXCEPT !["boot"] = label]
            /\ faults' \in {faults, faults + 1} /\ (label = "dead" => faults' = faults + 1)
    <3>1. CASE Coinbase("boot") \/ TreasuryCoinbase("boot") \/ MintReward("boot")
      BY <3>1 DEF Coinbase, TreasuryCoinbase, MintReward, Goto, bounds
    <3>2. CASE CoinbaseFails("boot") \/ MintFails("boot")
      BY <3>2 DEF CoinbaseFails, MintFails, Goto, Fault
    <3> QED
      BY <1>3, <3>1, <3>2
  <2>4. /\ IsFiniteSet(P) /\ Cardinality(P) \in Nat /\ Cardinality(P \ {w}) \in Nat
        /\ Cardinality(P) <= Cardinality(P \ {w}) + 1
        /\ Cardinality(P \ {w}) <= faults /\ faults \in Nat
    BY <1>1, <2>1, <2>2, Without DEF Shape, Books
  <2>5. faults' \in Nat /\ Cardinality(P \ {w}) <= faults'
        /\ (label = "dead" => Cardinality(P) <= faults')
    BY <2>3, <2>4
  <2> QED
    BY <1>0, <1>1, <2>2, <2>3, <2>4, <2>5, BootMoves DEF Crediting
<1> QED
  BY <1>2, <1>3

LEMMA OtherSteps ==
    ASSUME Shape, Books,
           \/ Mined("rpc") \/ PeerBlock \/ SyncBlock \/ UNCHANGED vars
           \/ \E t \in {"rpc", "peer"} : \/ Coinbase(t) \/ TreasuryCoinbase(t) \/ CoinbaseFails(t)
                                         \/ MintReward(t) \/ MintFails(t)
    PROVE  Shape' /\ Books'
<1>1. UNCHANGED journal /\ (faults' = faults \/ faults' = faults + 1)
  BY DEF Mined, PeerBlock, SyncBlock, Coinbase, TreasuryCoinbase, CoinbaseFails, MintReward,
         MintFails, Fault, vars, bounds
<1>2. PICK t \in {"rpc", "peer"}, label \in {"coinbase", "treasury", "mint", "idle"} :
          /\ pc' = [pc EXCEPT ![t] = label] \/ pc' = pc
          /\ work' = work \/ \E w : work' = [work EXCEPT ![t] = w]
  <2>1. CASE Mined("rpc")
    BY <2>1 DEF Mined, Goto
  <2>2. CASE PeerBlock
    BY <2>2 DEF PeerBlock, Goto
  <2>3. CASE SyncBlock \/ UNCHANGED vars
    BY <2>3 DEF SyncBlock, vars
  <2>4. ASSUME NEW t \in {"rpc", "peer"},
               \/ Coinbase(t) \/ TreasuryCoinbase(t) \/ CoinbaseFails(t)
               \/ MintReward(t) \/ MintFails(t)
        PROVE  /\ \E label \in {"coinbase", "treasury", "mint", "idle"} : pc' = [pc EXCEPT ![t] = label]
               /\ work' = work
    BY <2>4 DEF Coinbase, TreasuryCoinbase, CoinbaseFails, MintReward, MintFails, Goto
  <2> QED
    BY <2>1, <2>2, <2>3, <2>4
<1>3. /\ pc'["boot"] = pc["boot"] /\ work'["boot"] = work["boot"]
      /\ pc' \in [Thread -> Crediting \cup {"off", "idle", "recover", "dead"}]
      /\ work' = [x \in Thread |-> work'[x]]
  BY <1>2 DEF Shape, Thread, Crediting
<1>4. faults' \in Nat /\ faults' >= faults
  BY <1>1 DEF Shape
<1> QED
  BY <1>1, <1>3, <1>4, Elsewhere

LEMMA LifeSteps ==
    ASSUME Shape, Books, Crash \/ Start \/ RecoverNext \/ RecoverDone
    PROVE  Shape' /\ Books'
<1>1. faults' = faults /\ work' = work
  BY DEF Crash, Start, RecoverNext, RecoverDone, bounds
<1>2. CASE Crash \/ Start
  <2>1. /\ pc' \in [Thread -> Crediting \cup {"off", "idle", "recover", "dead"}]
        /\ pc'["boot"] \in {"off", "recover"}
    BY <1>2 DEF Crash, Start, Thread
  <2>2. Pending' = Pending
    BY <1>2 DEF Crash, Start, Pending
  <2> QED
    BY <1>1, <2>1, <2>2 DEF Shape, Books, Crediting
<1>3. CASE RecoverNext
  <2>1. Pending' \subseteq Pending /\ pc' = pc /\ pc["boot"] = "recover"
    BY <1>3 DEF RecoverNext, Pending
  <2>2. IsFiniteSet(Pending')
    BY <2>1, FS_Subset DEF Shape
  <2> QED
    BY <1>1, <2>1, <2>2 DEF Shape, Books, Crediting
<1>4. CASE RecoverDone
  <2>1. Pending' = {} /\ pc' = [pc EXCEPT !["boot"] = "idle"]
    BY <1>4 DEF RecoverDone, Pending, Goto
  <2>2. PICK w : w = work["boot"]
    OBVIOUS
  <2>3. work' = [work EXCEPT !["boot"] = w]
    BY <1>1, <2>2 DEF Shape
  <2>4. PICK Q : Q = {}
    OBVIOUS
  <2>5. IsFiniteSet(Q) /\ Cardinality(Q) <= faults' /\ faults' \in Nat
    <3>1. faults \in Nat /\ faults' = faults
      BY <1>1 DEF Shape
    <3> QED
      BY <2>4, <3>1, FS_EmptySet
  <2> QED
    BY <2>1, <2>3, <2>4, <2>5, BootMoves DEF Crediting
<1> QED
  BY <1>2, <1>3, <1>4

LEMMA StepBooks == ASSUME Shape, Books, [Next]_vars PROVE Shape' /\ Books'
BY JournalSteps, BootSteps, OtherSteps, LifeSteps DEF Next, Thread

\* Once the boot loop runs, at most as many entries besides the one in hand
\* are pending as writes have failed: earlier lives have left nothing.
THEOREM JournalResolved == Spec => []JournalCurrent
<1>1. Shape /\ Books => JournalCurrent
  <2> SUFFICES ASSUME Shape, Books, pc["boot"] \notin {"off", "recover"}
               PROVE  Cardinality(Pending \ (IF pc["boot"] = "dead" THEN {} ELSE {work["boot"]}))
                         <= faults
    BY DEF JournalCurrent
  <2>0. pc["boot"] \in Crediting \cup {"idle", "dead"}
    BY DEF Shape, Thread
  <2>1. CASE pc["boot"] = "dead"
    <3>1. Pending \ {} = Pending
      OBVIOUS
    <3> QED
      BY <2>1, <3>1 DEF Books
  <2>2. CASE pc["boot"] = "idle"
    <3> DEFINE c == Cardinality(Pending)
               d == Cardinality(Pending \ {work["boot"]})
    <3>1. c \in Nat /\ d \in Nat /\ d <= c
      BY Without DEF Shape
    <3>2. c <= faults /\ faults \in Nat
      BY <2>2 DEF Books, Shape
    <3> HIDE DEF c, d
    <3>3. d <= faults
      BY <3>1, <3>2
    <3> QED
      BY <2>2, <3>3 DEF d
  <2>3. CASE pc["boot"] \in Crediting
    BY <2>3 DEF Books, Crediting
  <2> QED
    BY <2>0, <2>1, <2>2, <2>3
<1> QED
  BY InitBooks, StepBooks, <1>1, PTL DEF Spec

-----------------------------------------------------------------------------
(***************************************************************************)
(* The rewards.  Types, and what the credits rest on: a thread that is     *)
(* crediting has a block in hand (Threads); a height's coinbase is its     *)
(* miner's, so that the treasury's call never inserts one (Paid).          *)
(***************************************************************************)
Label == Crediting \cup {"off", "idle", "recover", "dead"}
BlockRow == [miner : {Wallet, Stranger}, by : Thread \cup {"sync"}]

Threads ==
    /\ pc \in [Thread -> Label] /\ work \in [Thread -> {0} \cup Height]
    /\ blocks \in Seq(BlockRow) /\ Len(blocks) <= MaxHeight
    /\ \A t \in Thread : pc[t] \in Crediting => work[t] \in DOMAIN blocks
    /\ \A t \in Thread : ~up => pc[t] = "off"
    /\ faults \in Nat /\ crashes \in Nat

Paid ==
    /\ Store!TypeOK
    /\ \A u \in DOMAIN utxos :
           /\ utxos[u].height \in DOMAIN blocks /\ u[1].height = utxos[u].height
           /\ utxos[u].address = blocks[utxos[u].height].miner
    /\ \A t \in Thread : pc[t] = "treasury" => Store!CoinbaseAt(work[t]) # {}

Coins ==
    /\ IsFiniteSet(DOMAIN mints)
    /\ \A x \in DOMAIN mints : x[1] \in Height /\ mints[x] \in 1 .. Base
    /\ Supply <= MaxSupply

Entries ==
    \A h \in DOMAIN journal :
        h \in DOMAIN blocks /\ journal[h] \in {"PENDING", "COMMITTED", "ROLLED_BACK"}

RInv == Threads /\ Paid /\ Coins /\ Entries

LEMMA Numbers ==
    /\ MinerShare \in Nat \ {0} /\ TreasuryShare \in Nat \ {0} /\ Base \in Nat \ {0}
    /\ MaxSupply \in Nat /\ MaxHeight \in Nat
BY BlockRewardsAssumption

LEMMA BlocksAre ==
    ASSUME Threads
    PROVE  /\ Len(blocks) \in Nat /\ DOMAIN blocks = 1 .. Len(blocks)
           /\ DOMAIN blocks \subseteq Height
           /\ \A h \in DOMAIN blocks : blocks[h] \in BlockRow
<1>1. /\ Len(blocks) \in Nat /\ DOMAIN blocks = 1 .. Len(blocks) /\ Len(blocks) <= MaxHeight
      /\ \A h \in DOMAIN blocks : blocks[h] \in BlockRow
  BY DEF Threads
<1> QED
  BY <1>1, Numbers DEF Height

LEMMA InitRInv == Init => RInv
<1> SUFFICES ASSUME Init PROVE RInv
  OBVIOUS
<1>1. Threads
  BY Numbers DEF Init, Threads, Label, Crediting
<1>2. Paid
  BY DEF Init, Paid, Store!Init, Store!TypeOK
<1>3. Coins
  <2>1. DOMAIN mints = {} /\ IsFiniteSet({})
    BY FS_EmptySet DEF Init
  <2>2. Supply = 0
    BY <2>1, SumEmpty DEF Supply
  <2> QED
    BY <2>1, <2>2, Numbers DEF Coins
<1>4. Entries
  BY DEF Init, Entries
<1> QED
  BY <1>1, <1>2, <1>3, <1>4 DEF RInv

\* Blocks are appended; what a block is does not change.
Grown ==
    /\ blocks' \in Seq(BlockRow) /\ Len(blocks') <= MaxHeight
    /\ DOMAIN blocks \subseteq DOMAIN blocks'
    /\ \A h \in DOMAIN blocks : blocks'[h] = blocks[h]

LEMMA Appended ==
    ASSUME Threads, NEW r \in BlockRow, Len(blocks) < MaxHeight, blocks' = Append(blocks, r)
    PROVE  Grown /\ Len(blocks) + 1 \in DOMAIN blocks' /\ Len(blocks) + 1 \in Height
           /\ DOMAIN blocks' = DOMAIN blocks \cup {Len(blocks) + 1}
           /\ blocks'[Len(blocks) + 1] = r
<1>1. /\ Len(blocks) \in Nat /\ DOMAIN blocks = 1 .. Len(blocks) /\ blocks \in Seq(BlockRow)
  BY BlocksAre DEF Threads
<1>2. /\ blocks' \in Seq(BlockRow) /\ Len(blocks') = Len(blocks) + 1
      /\ DOMAIN blocks' = 1 .. (Len(blocks) + 1)
      /\ \A h \in 1 .. Len(blocks) : blocks'[h] = blocks[h]
      /\ blocks'[Len(blocks) + 1] = r
  BY <1>1
<1> QED
  BY <1>1, <1>2, Numbers DEF Grown, Height

AddStep == (\E t \in {"boot", "rpc"} : Mined(t)) \/ PeerBlock \/ SyncBlock
JournalStep == Begin \/ BeginFails \/ Commit \/ CommitFails
CreditStep ==
    \E t \in Thread : \/ Coinbase(t) \/ TreasuryCoinbase(t) \/ CoinbaseFails(t)
                      \/ MintReward(t) \/ MintFails(t)
LifeStep == Crash \/ Start \/ RecoverNext \/ RecoverDone

LEMMA Steps == Next <=> AddStep \/ JournalStep \/ CreditStep \/ LifeStep
BY DEF Next, AddStep, JournalStep, CreditStep, LifeStep

\* What a thread that works on a block does: it moves its pc.
LEMMA Moves ==
    ASSUME Threads, JournalStep \/ CreditStep
    PROVE  \E t \in Thread, label \in Label :
               /\ pc[t] \in Crediting /\ pc' = [pc EXCEPT ![t] = label]
               /\ work' = work /\ up' = up /\ blocks' = blocks
               /\ crashes' = crashes /\ faults' \in {faults, faults + 1}
<1>1. CASE Begin \/ Commit
  <2>1. "boot" \in Thread /\ "coinbase" \in Label /\ "idle" \in Label
    BY DEF Thread, Label, Crediting
  <2> QED
    BY <1>1, <2>1 DEF Begin, Commit, Goto, bounds, Crediting
<1>2. CASE BeginFails \/ CommitFails
  <2>1. "boot" \in Thread /\ "coinbase" \in Label /\ "idle" \in Label
    BY DEF Thread, Label, Crediting
  <2> QED
    BY <1>2, <2>1 DEF BeginFails, CommitFails, Goto, Fault, Crediting
<1>3. CASE CreditStep
  <2>1. PICK t \in Thread : \/ Coinbase(t) \/ TreasuryCoinbase(t) \/ CoinbaseFails(t)
                            \/ MintReward(t) \/ MintFails(t)
    BY <1>3 DEF CreditStep
  <2>2. \A l \in {"treasury", "mint", "commit", "idle", "dead"} : l \in Label
    BY DEF Label, Crediting
  <2>3. CASE Coinbase(t) \/ TreasuryCoinbase(t)
    BY <2>2, <2>3 DEF Coinbase, TreasuryCoinbase, Goto, bounds, Crediting
  <2>4. CASE CoinbaseFails(t)
    BY <2>2, <2>4 DEF CoinbaseFails, Goto, Fault, Crediting
  <2>5. CASE MintReward(t)
    BY <2>2, <2>5 DEF MintReward, Goto, bounds, Crediting
  <2>6. CASE MintFails(t)
    BY <2>2, <2>6 DEF MintFails, Goto, Fault, Crediting
  <2> QED
    BY <2>1, <2>3, <2>4, <2>5, <2>6
<1> QED
  BY <1>1, <1>2, <1>3 DEF JournalStep

\* What adding a block does.
LEMMA Adds ==
    ASSUME Threads, AddStep
    PROVE  \E t \in Thread, label \in Crediting, r \in BlockRow :
               /\ pc[t] = "idle" /\ up /\ Len(blocks) < MaxHeight
               /\ blocks' = Append(blocks, r)
               /\ \/ r.by = "sync" /\ pc' = pc /\ work' = work
                  \/ /\ pc' = [pc EXCEPT ![t] = label] /\ label \in {"begin", "coinbase"}
                     /\ work' = [work EXCEPT ![t] = Len(blocks) + 1]
               /\ UNCHANGED <<store, mints, journal, up, bounds>>
<1>1. CASE \E t \in {"boot", "rpc"} : Mined(t)
  <2>1. PICK t \in {"boot", "rpc"} : Mined(t)
    BY <1>1
  <2>2. t \in Thread /\ "begin" \in Crediting /\ "coinbase" \in Crediting
    BY DEF Thread, Crediting
  <2>3. [miner |-> Wallet, by |-> t] \in BlockRow
    BY <2>2 DEF BlockRow
  <2> QED
    BY <2>1, <2>2, <2>3 DEF Mined, Added, Goto
<1>2. CASE PeerBlock
  <2>1. "peer" \in Thread /\ "coinbase" \in Crediting
    BY DEF Thread, Crediting
  <2>2. [miner |-> Stranger, by |-> "peer"] \in BlockRow
    BY <2>1 DEF BlockRow
  <2> QED
    BY <1>2, <2>1, <2>2 DEF PeerBlock, Added, Goto
<1>3. CASE SyncBlock
  <2>1. "peer" \in Thread /\ "coinbase" \in Crediting
    BY DEF Thread, Crediting
  <2>2. [miner |-> Stranger, by |-> "sync"] \in BlockRow
    BY DEF BlockRow
  <2> QED
    BY <1>3, <2>1, <2>2 DEF SyncBlock, Added
<1> QED
  BY <1>1, <1>2, <1>3 DEF AddStep

LEMMA ThreadsStep == Threads /\ [Next]_vars => Threads' /\ Grown
<1> SUFFICES ASSUME Threads, [Next]_vars PROVE Threads' /\ Grown
  OBVIOUS
<1>1. CASE AddStep
  <2>1. PICK t \in Thread, label \in Crediting, r \in BlockRow :
            /\ pc[t] = "idle" /\ up /\ Len(blocks) < MaxHeight
            /\ blocks' = Append(blocks, r)
            /\ \/ r.by = "sync" /\ pc' = pc /\ work' = work
               \/ /\ pc' = [pc EXCEPT ![t] = label] /\ label \in {"begin", "coinbase"}
                  /\ work' = [work EXCEPT ![t] = Len(blocks) + 1]
            /\ UNCHANGED <<store, mints, journal, up, bounds>>
    BY <1>1, Adds
  <2>2. /\ Grown /\ Len(blocks) + 1 \in DOMAIN blocks' /\ Len(blocks) + 1 \in Height
    BY <2>1, Appended
  <2>3. pc' \in [Thread -> Label] /\ work' \in [Thread -> {0} \cup Height]
    BY <2>1, <2>2 DEF Threads, Label
  <2>4. \A s \in Thread : pc'[s] \in Crediting => work'[s] \in DOMAIN blocks'
    BY <2>1, <2>2 DEF Threads, Grown, Crediting
  <2> QED
    BY <2>1, <2>2, <2>3, <2>4 DEF Threads, Grown, bounds
<1>2. CASE JournalStep \/ CreditStep
  <2>1. PICK t \in Thread, label \in Label :
            /\ pc[t] \in Crediting /\ pc' = [pc EXCEPT ![t] = label]
            /\ work' = work /\ up' = up /\ blocks' = blocks
            /\ crashes' = crashes /\ faults' \in {faults, faults + 1}
    BY <1>2, Moves
  <2>2. pc' \in [Thread -> Label] /\ faults' \in Nat
    BY <2>1 DEF Threads
  <2>3. \A s \in Thread : pc'[s] \in Crediting => work'[s] \in DOMAIN blocks'
    BY <2>1 DEF Threads
  <2>4. up'
    BY <2>1 DEF Threads, Crediting
  <2> QED
    BY <2>1, <2>2, <2>3, <2>4 DEF Threads, Grown
<1>3. CASE LifeStep
  <2>1. /\ pc' \in [Thread -> Label]
        /\ \A t \in Thread : pc'[t] \in Crediting => pc[t] = pc'[t]
        /\ \A t \in Thread : ~up' => pc'[t] = "off"
        /\ crashes' \in Nat
        /\ work' = work /\ blocks' = blocks /\ faults' = faults
    <3>1. CASE Crash
      BY <3>1 DEF Crash, Threads, Label, Crediting
    <3>2. CASE Start
      BY <3>2 DEF Start, Threads, Label, Crediting, bounds
    <3>3. CASE RecoverNext
      BY <3>3 DEF RecoverNext, Threads, Label, Crediting, bounds
    <3>4. CASE RecoverDone
      <4>1. pc' = [pc EXCEPT !["boot"] = "idle"] /\ up' = up /\ pc["boot"] = "recover"
        BY <3>4 DEF RecoverDone, Goto
      <4> QED
        BY <3>4, <4>1 DEF RecoverDone, Threads, Label, Crediting, bounds, Thread
    <3> QED
      BY <1>3, <3>1, <3>2, <3>3, <3>4 DEF LifeStep
  <2> QED
    BY <2>1 DEF Threads, Grown
<1>4. CASE UNCHANGED vars
  BY <1>4 DEF vars, bounds, Threads, Grown
<1> QED
  BY <1>1, <1>2, <1>3, <1>4, Steps

\* A block's rows: those that are there stay, and each height's coinbase is
\* its miner's.
RowsKept == \A u \in DOMAIN utxos : u \in DOMAIN utxos' /\ utxos'[u] = utxos[u]

RowsRight ==
    \A u \in DOMAIN utxos :
        /\ utxos[u].height \in DOMAIN blocks /\ u[1].height = utxos[u].height
        /\ utxos[u].address = blocks[utxos[u].height].miner

LEMMA MinersCoinbase ==
    ASSUME Threads, Paid, NEW h \in DOMAIN blocks, blocks' = blocks,
           Store!CreateCoinbase(blocks[h].miner, MinerShare, h)
    PROVE  RowsKept /\ RowsRight' /\ Store!TypeOK' /\ Store!CoinbaseAt(h)' # {}
<1> DEFINE a == blocks[h].miner
           id == [miner |-> a, height |-> h]
           u == <<id, 0>>
           row == Store!NewRow(a, MinerShare, h)
<1>0. RowsRight /\ Store!TypeOK
  BY DEF Paid, RowsRight
<1>1. h \in Store!Height /\ a \in {Wallet, Stranger, Treasury} /\ MinerShare \in Nat
  BY BlocksAre, Numbers DEF Store!Height, Height, BlockRow
<1>2. id \in Store!CoinbaseId /\ id \in Store!Txid /\ u \in Store!UtxoId
  BY <1>1 DEF Store!CoinbaseId, Store!Txid, Store!UtxoId
<1>3. row \in Store!UtxoRow /\ row.height = h /\ row.address = a
  BY <1>1 DEF Store!NewRow, Store!UtxoRow
<1>4. CASE Store!CoinbaseAt(h) # {}
  <2>1. utxos' = utxos /\ transactions' = transactions
    BY <1>4 DEF Store!CreateCoinbase, Store!CoinbaseUtxos, Store!CoinbaseTransactions
  <2>2. Store!CoinbaseAt(h)' = Store!CoinbaseAt(h)
    BY <2>1 DEF Store!CoinbaseAt
  <2>3. Store!TypeOK'
    BY <1>0, <2>1 DEF Store!TypeOK
  <2> QED
    BY <1>0, <1>4, <2>1, <2>2, <2>3 DEF RowsKept, RowsRight
<1>5. CASE Store!CoinbaseAt(h) = {}
  <2>1. \A v \in DOMAIN utxos : v[1] \in Store!CoinbaseId
    BY <1>0 DEF Store!TypeOK, Store!UtxoId, Store!Txid
  <2>2. u \notin DOMAIN utxos
    <3> SUFFICES ASSUME u \in DOMAIN utxos PROVE FALSE
      OBVIOUS
    <3>1. u[1] = id /\ id.height = h
      OBVIOUS
    <3>2. utxos[u].height = h
      BY <1>0, <3>1 DEF RowsRight
    <3> QED
      BY <1>5, <2>1, <3>2 DEF Store!CoinbaseAt
  <2>3. /\ DOMAIN utxos' = DOMAIN utxos \cup {u}
        /\ \A v \in DOMAIN utxos : utxos'[v] = utxos[v]
        /\ utxos'[u] = row
    BY <1>5, <2>2 DEF Store!CreateCoinbase, Store!CoinbaseUtxos, Store!Insert
  <2> HIDE DEF row
  <2>4. RowsKept /\ RowsRight'
    <3>1. u[1].height = h
      OBVIOUS
    <3> HIDE DEF u
    <3> QED
      BY <1>0, <1>3, <2>3, <3>1 DEF RowsKept, RowsRight
  <2>5. Store!CoinbaseAt(h)' # {}
    <3>1. u[1] = id
      OBVIOUS
    <3> HIDE DEF u, id
    <3> QED
      BY <1>2, <1>3, <2>3, <3>1 DEF Store!CoinbaseAt
  <2>6. Store!TypeOK'
    <3>1. DOMAIN utxos' \subseteq Store!UtxoId /\ \A v \in DOMAIN utxos' : utxos'[v] \in Store!UtxoRow
      <4> HIDE DEF u
      <4> QED
        BY <1>0, <1>2, <1>3, <2>3 DEF Store!TypeOK
    <3>2. PICK r : /\ r = [inputs |-> {}, claimed |-> 0, from |-> Mint, to |-> a, amount |-> MinerShare,
                           fee |-> 0, height |-> h]
      OBVIOUS
    <3>3. r \in Store!TxRow
      BY <1>1, <3>2 DEF Store!TxRow
    <3>4. /\ DOMAIN transactions' = DOMAIN transactions \cup {id}
          /\ \A t \in DOMAIN transactions' :
                 transactions'[t] = IF t \in DOMAIN transactions THEN transactions[t] ELSE r
      BY <1>5, <3>2 DEF Store!CreateCoinbase, Store!CoinbaseTransactions, Store!Insert
    <3> HIDE DEF id
    <3>5. /\ DOMAIN transactions' \subseteq Store!Txid
          /\ \A t \in DOMAIN transactions' : transactions'[t] \in Store!TxRow
      BY <1>0, <1>2, <3>3, <3>4 DEF Store!TypeOK
    <3> QED
      BY <3>1, <3>5 DEF Store!TypeOK
  <2> QED
    BY <2>4, <2>5, <2>6
<1> QED
  BY <1>4, <1>5

\* The treasury's call finds the miner's coinbase and changes nothing.
LEMMA TreasuryIgnored ==
    ASSUME Paid, NEW t \in Thread, TreasuryCoinbase(t)
    PROVE  UNCHANGED store
<1>1. Store!CoinbaseAt(work[t]) # {}
  BY DEF Paid, TreasuryCoinbase
<1> QED
  BY <1>1 DEF TreasuryCoinbase, Store!CreateCoinbase, Store!CoinbaseUtxos,
              Store!CoinbaseTransactions, store

LEMMA StoreKept ==
    Threads /\ Paid /\ [Next]_vars /\ (~ \E t \in Thread : Coinbase(t)) => UNCHANGED store
<1> SUFFICES ASSUME Threads, Paid, [Next]_vars, ~ \E t \in Thread : Coinbase(t)
             PROVE  UNCHANGED store
  OBVIOUS
<1>1. CASE AddStep
  BY <1>1 DEF AddStep, Mined, PeerBlock, SyncBlock
<1>2. CASE JournalStep
  BY <1>2 DEF JournalStep, Begin, BeginFails, Commit, CommitFails
<1>3. CASE CreditStep
  <2>1. PICK t \in Thread : \/ TreasuryCoinbase(t) \/ CoinbaseFails(t)
                            \/ MintReward(t) \/ MintFails(t)
    BY <1>3 DEF CreditStep
  <2>2. CASE TreasuryCoinbase(t)
    BY <2>2, TreasuryIgnored
  <2>3. CASE CoinbaseFails(t) \/ MintReward(t) \/ MintFails(t)
    BY <2>3 DEF CoinbaseFails, MintReward, MintFails
  <2> QED
    BY <2>1, <2>2, <2>3
<1>4. CASE LifeStep
  BY <1>4 DEF LifeStep, Crash, Start, RecoverNext, RecoverDone
<1>5. CASE UNCHANGED vars
  BY <1>5 DEF vars
<1> QED
  BY <1>1, <1>2, <1>3, <1>4, <1>5, Steps

\* Whoever is at the treasury's coinbase has just made the miner's, or was there.
LEMMA AtTreasury ==
    ASSUME Threads, [Next]_vars, ~ \E t \in Thread : Coinbase(t), NEW s \in Thread,
           pc'[s] = "treasury"
    PROVE  pc[s] = "treasury" /\ work'[s] = work[s]
<1>1. CASE AddStep
  BY <1>1, Adds DEF Threads, Crediting
<1>2. CASE JournalStep
  BY <1>2 DEF JournalStep, Begin, BeginFails, Commit, CommitFails, Goto, Threads, Thread
<1>3. CASE CreditStep
  BY <1>3 DEF CreditStep, TreasuryCoinbase, CoinbaseFails, MintReward, MintFails, Goto, Threads
<1>4. CASE LifeStep
  BY <1>4 DEF LifeStep, Crash, Start, RecoverNext, RecoverDone, Goto, Threads
<1>5. CASE UNCHANGED vars
  BY <1>5 DEF vars
<1> QED
  BY <1>1, <1>2, <1>3, <1>4, <1>5, Steps

LEMMA PaidStep == Threads /\ Paid /\ [Next]_vars => Paid' /\ RowsKept
<1> SUFFICES ASSUME Threads, Paid, [Next]_vars PROVE Paid' /\ RowsKept
  OBVIOUS
<1>0. Grown /\ Threads'
  BY ThreadsStep
<1>1. CASE \E t \in Thread : Coinbase(t)
  <2>1. PICK t \in Thread : Coinbase(t)
    BY <1>1
  <2>2. /\ work[t] \in DOMAIN blocks /\ blocks' = blocks /\ work' = work
        /\ pc' = [pc EXCEPT ![t] = "treasury"]
    BY <2>1 DEF Coinbase, Threads, Crediting, Goto
  <2>3. RowsKept /\ RowsRight' /\ Store!TypeOK' /\ Store!CoinbaseAt(work[t])' # {}
    <3>1. PICK h : h = work[t]
      OBVIOUS
    <3>2. h \in DOMAIN blocks /\ Store!CreateCoinbase(blocks[h].miner, MinerShare, h)
      BY <2>1, <2>2, <3>1 DEF Coinbase
    <3>3. RowsKept /\ RowsRight' /\ Store!TypeOK' /\ Store!CoinbaseAt(h)' # {}
      BY <2>2, <3>2, MinersCoinbase
    <3> QED
      BY <2>2, <3>1, <3>3 DEF Store!CoinbaseAt
  <2>4. \A s \in Thread : pc'[s] = "treasury" => Store!CoinbaseAt(work[s])' # {}
    <3> TAKE s \in Thread
    <3>1. CASE s = t
      BY <2>3, <3>1
    <3>2. CASE s # t /\ pc'[s] = "treasury"
      <4>1. Store!CoinbaseAt(work[s]) # {}
        BY <2>2, <3>2 DEF Paid, Threads
      <4>2. Store!CoinbaseAt(work[s]) \subseteq Store!CoinbaseAt(work[s])'
        BY <2>2, <2>3 DEF Store!CoinbaseAt, RowsKept
      <4> QED
        BY <4>1, <4>2
    <3> QED
      BY <3>1, <3>2
  <2> QED
    BY <2>3, <2>4 DEF Paid, RowsRight
<1>2. CASE ~ \E t \in Thread : Coinbase(t)
  <2>1. utxos' = utxos /\ transactions' = transactions
    BY <1>2, StoreKept DEF store
  <2>2. Store!TypeOK' /\ RowsKept
    BY <2>1 DEF Paid, Store!TypeOK, RowsKept
  <2>3. RowsRight'
    BY <1>0, <2>1 DEF RowsRight, Grown, Paid
  <2>4. \A s \in Thread : pc'[s] = "treasury" => Store!CoinbaseAt(work[s])' # {}
    BY <1>2, <2>1, AtTreasury DEF Paid, Store!CoinbaseAt
  <2> QED
    BY <2>2, <2>3, <2>4 DEF Paid, RowsRight
<1> QED
  BY <1>1, <1>2

-----------------------------------------------------------------------------
(* The mintings. *)

\* What is minted for a height is between nothing and the schedule's reward,
\* and fits below the cap; it is nothing only when the cap is reached.
LEMMA MintFits ==
    ASSUME Coins, NEW h \in Height
    PROVE  /\ Supply \in Nat /\ MintAmount(h) \in 0 .. Base
           /\ Supply + MintAmount(h) <= MaxSupply
           /\ MintAmount(h) = 0 => Supply = MaxSupply
<1>1. Supply \in Nat
  <2>1. \A x \in DOMAIN mints : mints[x] \in Nat
    BY Numbers DEF Coins
  <2> QED
    BY <2>1, SumNat DEF Coins, Supply
<1>2. BlockReward(h) \in 1 .. Base
  BY HalvingAssumption
<1>3. Supply <= MaxSupply
  BY DEF Coins
<1> HIDE DEF Supply
<1> QED
  BY <1>1, <1>2, <1>3, Numbers DEF MintAmount

LEMMA Minting ==
    ASSUME Coins, NEW h \in Height, NEW miner, MintAmount(h) # 0, <<h, miner>> \notin DOMAIN mints,
           mints' = Set(mints, <<h, miner>>, MintAmount(h))
    PROVE  Coins'
<1> DEFINE x == <<h, miner>>
           S == DOMAIN mints
<1>1. /\ Supply \in Nat /\ MintAmount(h) \in 1 .. Base /\ Supply + MintAmount(h) <= MaxSupply
  BY MintFits
<1>2. PICK amount : amount = MintAmount(h)
  OBVIOUS
<1>3. /\ DOMAIN mints' = S \cup {x} /\ x \notin S /\ mints'[x] = amount
      /\ \A y \in S : mints'[y] = mints[y]
  BY <1>2 DEF Set
<1>4. IsFiniteSet(S) /\ IsFiniteSet(S \cup {x}) /\ x[1] \in Height
  BY FS_AddElement DEF Coins
<1>5. \A y \in S \cup {x} : y[1] \in Height /\ mints'[y] \in 1 .. Base /\ mints'[y] \in Int
  <2>1. \A y \in S : y[1] \in Height /\ mints[y] \in 1 .. Base
    BY DEF Coins
  <2> HIDE DEF x, S
  <2> QED
    BY <1>1, <1>2, <1>3, <1>4, <2>1, Numbers
<1>6. PICK f : f = mints'
  OBVIOUS
<1>7. SumFunctionOnSet(f, S \cup {x}) = f[x] + SumFunctionOnSet(f, S)
  BY <1>3, <1>4, <1>5, <1>6, SumAdd
<1>8. SumFunctionOnSet(f, S) = Supply
  <2>1. \A y \in S : f[y] = mints[y]
    BY <1>3, <1>6
  <2> QED
    BY <1>4, <2>1, SumSame DEF Supply
<1>9. Supply' = amount + Supply
  BY <1>3, <1>6, <1>7, <1>8 DEF Supply
<1>10. Supply' <= MaxSupply
  BY <1>1, <1>2, <1>9, Numbers
<1> QED
  BY <1>3, <1>4, <1>5, <1>10 DEF Coins

LEMMA CoinsKept ==
    [Next]_vars /\ (~ \E t \in Thread : MintReward(t)) => UNCHANGED mints
<1> SUFFICES ASSUME [Next]_vars, ~ \E t \in Thread : MintReward(t) PROVE UNCHANGED mints
  OBVIOUS
<1>1. CASE AddStep
  BY <1>1 DEF AddStep, Mined, PeerBlock, SyncBlock
<1>2. CASE JournalStep
  BY <1>2 DEF JournalStep, Begin, BeginFails, Commit, CommitFails
<1>3. CASE CreditStep
  BY <1>3 DEF CreditStep, Coinbase, TreasuryCoinbase, CoinbaseFails, MintFails
<1>4. CASE LifeStep
  BY <1>4 DEF LifeStep, Crash, Start, RecoverNext, RecoverDone
<1>5. CASE UNCHANGED vars
  BY <1>5 DEF vars
<1> QED
  BY <1>1, <1>2, <1>3, <1>4, <1>5, Steps

\* Nothing that was minted is taken back, and a supply that is used up stays so.
CoinsGrow ==
    /\ DOMAIN mints \subseteq DOMAIN mints'
    /\ Supply = MaxSupply => Supply' = MaxSupply

LEMMA CoinsStep == Threads /\ Coins /\ [Next]_vars => Coins' /\ CoinsGrow
<1> SUFFICES ASSUME Threads, Coins, [Next]_vars PROVE Coins' /\ CoinsGrow
  OBVIOUS
<1>1. ASSUME UNCHANGED mints PROVE Coins' /\ CoinsGrow
  <2>1. Supply' = Supply
    BY <1>1 DEF Supply
  <2> QED
    BY <1>1, <2>1 DEF Coins, CoinsGrow
<1>2. CASE \E t \in Thread : MintReward(t)
  <2>1. PICK t \in Thread : MintReward(t)
    BY <1>2
  <2>2. PICK h, miner : h = work[t] /\ miner = blocks[work[t]].miner
    OBVIOUS
  <2>3. h \in Height
    BY <2>1, <2>2, BlocksAre DEF Threads, Crediting, MintReward
  <2>4. CASE <<h, miner>> \in DOMAIN mints \/ MintAmount(h) = 0
    BY <1>1, <2>1, <2>2, <2>4 DEF MintReward
  <2>5. CASE ~(<<h, miner>> \in DOMAIN mints \/ MintAmount(h) = 0)
    <3>1. mints' = Set(mints, <<h, miner>>, MintAmount(h))
      BY <2>1, <2>2, <2>5 DEF MintReward
    <3>2. Coins'
      BY <2>3, <2>5, <3>1, Minting
    <3>3. Supply # MaxSupply
      <4>1. Supply \in Nat /\ MintAmount(h) \in 0 .. Base /\ Supply + MintAmount(h) <= MaxSupply
        BY <2>3, MintFits
      <4>2. MintAmount(h) # 0
        BY <2>5
      <4> QED
        BY <4>1, <4>2, Numbers
    <3> QED
      BY <3>1, <3>2, <3>3 DEF CoinsGrow, Set
  <2> QED
    BY <2>4, <2>5
<1> QED
  BY <1>1, <1>2, CoinsKept

LEMMA EntriesStep == Threads /\ Entries /\ [Next]_vars => Entries'
<1> SUFFICES ASSUME Threads, Entries, [Next]_vars PROVE Entries'
  OBVIOUS
<1>0. Grown
  BY ThreadsStep
<1>1. CASE journal' = journal
  BY <1>0, <1>1 DEF Entries, Grown
<1>2. CASE Begin
  BY <1>0, <1>2 DEF Begin, Set, Entries, Threads, Grown, Crediting, Thread
<1>3. CASE Commit
  BY <1>0, <1>3 DEF Commit, Set, Entries, Threads, Grown, Crediting, Thread
<1>4. CASE RecoverNext
  BY <1>0, <1>4 DEF RecoverNext, Entries, Grown
<1>5. \/ journal' = journal \/ Begin \/ Commit \/ RecoverNext
  <2>1. CASE AddStep
    BY <2>1 DEF AddStep, Mined, PeerBlock, SyncBlock
  <2>2. CASE JournalStep
    BY <2>2 DEF JournalStep, BeginFails, CommitFails
  <2>3. CASE CreditStep
    BY <2>3 DEF CreditStep, Coinbase, TreasuryCoinbase, CoinbaseFails, MintReward, MintFails
  <2>4. CASE LifeStep
    BY <2>4 DEF LifeStep, Crash, Start, RecoverDone
  <2>5. CASE UNCHANGED vars
    BY <2>5 DEF vars
  <2> QED
    BY <2>1, <2>2, <2>3, <2>4, <2>5, Steps
<1> QED
  BY <1>1, <1>2, <1>3, <1>4, <1>5

LEMMA RewardsInvariance == Spec => []RInv
<1>1. RInv /\ [Next]_vars => RInv'
  BY ThreadsStep, PaidStep, CoinsStep, EntriesStep DEF RInv
<1> QED
  BY InitRInv, <1>1, PTL DEF Spec

\* The three databases and the threads keep their types.
THEOREM TypeCorrect == Spec => []TypeOK
<1>1. RInv => TypeOK
  <2> SUFFICES ASSUME RInv PROVE TypeOK
    OBVIOUS
  <2>1. DOMAIN blocks \subseteq Height
    BY BlocksAre DEF RInv
  <2> QED
    BY <2>1 DEF RInv, Threads, Paid, Coins, Entries, TypeOK
<1> QED
  BY RewardsInvariance, <1>1, PTL

\* Whatever the threads, the crashes and the schedule, no more is minted than
\* MAX_SUPPLY.
THEOREM CapHolds == Spec => []SupplyCapped
<1>1. RInv => SupplyCapped
  BY DEF RInv, Coins, SupplyCapped
<1> QED
  BY RewardsInvariance, <1>1, PTL

-----------------------------------------------------------------------------
(***************************************************************************)
(* What is lost.  A block that is not whole is either excused, because a   *)
(* thread that has it in hand has lost nothing of it so far, or it is one  *)
(* of Lost.  Each failed write adds at most the block of its thread to     *)
(* Lost, each crash at most the blocks of the three threads, and nothing   *)
(* else adds any.                                                          *)
(***************************************************************************)
Excused(t, h) ==
    /\ work[t] = h
    /\ \/ pc[t] \in {"begin", "coinbase"}
       \/ pc[t] \in {"treasury", "mint"} /\ CoinbasePaid(h)

Lost ==
    {h \in DOMAIN blocks :
        blocks[h].by # "sync" /\ ~Whole(h) /\ ~ \E t \in Thread : Excused(t, h)}

LossInv == Cardinality(Lost) <= 3 * crashes + faults

LEMMA Cost ==
    ASSUME NEW S, IsFiniteSet(S), NEW T, NEW x, T \subseteq S \cup {x}
    PROVE  /\ IsFiniteSet(T) /\ Cardinality(T) \in Nat /\ Cardinality(S) \in Nat
           /\ Cardinality(T) <= Cardinality(S) + 1
<1>1. /\ IsFiniteSet(S \cup {x}) /\ Cardinality(S) \in Nat
      /\ Cardinality(S \cup {x}) \in {Cardinality(S), Cardinality(S) + 1}
  BY FS_AddElement, FS_CardinalityType
<1>2. IsFiniteSet(T) /\ Cardinality(T) <= Cardinality(S \cup {x}) /\ Cardinality(T) \in Nat
  BY <1>1, FS_Subset, FS_CardinalityType
<1> QED
  BY <1>1, <1>2

\* What a block has been paid it keeps.
LEMMA WholeStays ==
    RInv /\ [Next]_vars => \A h \in DOMAIN blocks : /\ CoinbasePaid(h) => CoinbasePaid(h)'
                                                    /\ Whole(h) => Whole(h)'
<1> SUFFICES ASSUME RInv, [Next]_vars, NEW h \in DOMAIN blocks
             PROVE  (CoinbasePaid(h) => CoinbasePaid(h)') /\ (Whole(h) => Whole(h)')
  OBVIOUS
<1>1. Grown /\ RowsKept /\ CoinsGrow
  BY ThreadsStep, PaidStep, CoinsStep DEF RInv
<1>2. blocks'[h] = blocks[h]
  BY <1>1 DEF Grown
<1>3. CoinbasePaid(h) => CoinbasePaid(h)'
  BY <1>1, <1>2 DEF CoinbasePaid, Store!CoinbaseAt, RowsKept
<1>4. (Minted(h) \/ Supply = MaxSupply) => (Minted(h)' \/ Supply' = MaxSupply)
  BY <1>1, <1>2 DEF Minted, CoinsGrow
<1> QED
  BY <1>3, <1>4 DEF Whole

\* After its coinbase a block is paid, whoever inserted the row.
PaidFirst == \A t \in Thread : pc[t] = "treasury" => CoinbasePaid(work[t])

LEMMA TreasuryPaid == Threads /\ Paid => PaidFirst
BY DEF Paid, PaidFirst, CoinbasePaid, Store!CoinbaseAt

LEMMA TreasuryPaidNext == Threads' /\ Paid' => PaidFirst'
BY TreasuryPaid, PTL

\* A minting makes a paid block whole.
LEMMA MintedWhole ==
    ASSUME RInv, NEW t \in Thread, MintReward(t), CoinbasePaid(work[t])
    PROVE  Whole(work[t])'
<1>1. PICK h, miner : h = work[t] /\ miner = blocks[work[t]].miner
  OBVIOUS
<1>2. h \in DOMAIN blocks /\ h \in Height
  BY <1>1, BlocksAre DEF RInv, Threads, Crediting, MintReward
<1>3. work' = work /\ blocks' = blocks /\ utxos' = utxos
  BY DEF MintReward, store
<1>4. CoinbasePaid(h)'
  BY <1>1, <1>3 DEF CoinbasePaid, Store!CoinbaseAt
<1>5. Minted(h)' \/ Supply' = MaxSupply
  <2>1. CASE <<h, miner>> \in DOMAIN mints
    BY <1>1, <1>3, <2>1 DEF MintReward, Minted, Set
  <2>2. CASE <<h, miner>> \notin DOMAIN mints /\ MintAmount(h) = 0
    <3>1. Supply = MaxSupply /\ mints' = mints
      BY <1>1, <1>2, <2>2, MintFits DEF RInv, MintReward
    <3> QED
      BY <3>1 DEF Supply
  <2>3. CASE <<h, miner>> \notin DOMAIN mints /\ MintAmount(h) # 0
    BY <1>1, <1>3, <2>3 DEF MintReward, Minted, Set
  <2> QED
    BY <2>1, <2>2, <2>3
<1> QED
  BY <1>1, <1>3, <1>4, <1>5 DEF Whole

\* A block becomes one of the lost only as it loses its excuse.
LEMMA NewlyLost ==
    ASSUME RInv, [Next]_vars, NEW h \in Lost' \ Lost
    PROVE  h \notin DOMAIN blocks \/ \E t \in Thread : Excused(t, h) /\ ~Excused(t, h)'
<1> SUFFICES ASSUME h \in DOMAIN blocks PROVE \E t \in Thread : Excused(t, h) /\ ~Excused(t, h)'
  OBVIOUS
<1>1. /\ blocks'[h].by # "sync" /\ ~Whole(h)' /\ \A t \in Thread : ~Excused(t, h)'
  BY DEF Lost
<1>2. ~Whole(h) /\ blocks'[h] = blocks[h]
  BY <1>1, WholeStays, ThreadsStep DEF RInv, Grown
<1> QED
  BY <1>1, <1>2 DEF Lost

LEMMA AddLosesNothing == ASSUME RInv, AddStep PROVE Lost' \subseteq Lost
<1> SUFFICES ASSUME NEW h \in Lost' \ Lost PROVE FALSE
  OBVIOUS
<1>0. Threads /\ [Next]_vars
  BY Steps DEF RInv
<1>1. PICK t \in Thread, label \in Crediting, r \in BlockRow :
          /\ pc[t] = "idle" /\ up /\ Len(blocks) < MaxHeight
          /\ blocks' = Append(blocks, r)
          /\ \/ r.by = "sync" /\ pc' = pc /\ work' = work
             \/ /\ pc' = [pc EXCEPT ![t] = label] /\ label \in {"begin", "coinbase"}
                /\ work' = [work EXCEPT ![t] = Len(blocks) + 1]
          /\ UNCHANGED <<store, mints, journal, up, bounds>>
  BY <1>0, Adds
<1>2. /\ Grown /\ DOMAIN blocks' = DOMAIN blocks \cup {Len(blocks) + 1}
      /\ blocks'[Len(blocks) + 1] = r
  BY <1>0, <1>1, Appended
<1>3. CASE h \in DOMAIN blocks
  <2>1. PICK s \in Thread : Excused(s, h) /\ ~Excused(s, h)'
    BY <1>0, <1>3, NewlyLost
  <2>2. s # t
    BY <1>1, <2>1 DEF Excused
  <2>3. pc'[s] = pc[s] /\ work'[s] = work[s]
    BY <1>0, <1>1, <2>2 DEF Threads
  <2>4. CoinbasePaid(h) => CoinbasePaid(h)'
    BY <1>0, <1>3, WholeStays
  <2> QED
    BY <2>1, <2>3, <2>4 DEF Excused
<1>4. CASE h \notin DOMAIN blocks
  <2>1. h = Len(blocks) + 1 /\ r.by # "sync" /\ ~Excused(t, h)'
    BY <1>2, <1>4 DEF Lost
  <2> QED
    BY <1>0, <1>1, <2>1 DEF Excused, Threads
<1> QED
  BY <1>3, <1>4

LEMMA WorkLosesOne ==
    ASSUME RInv, JournalStep \/ CreditStep
    PROVE  \/ Lost' \subseteq Lost
           \/ faults' = faults + 1 /\ \E h : Lost' \subseteq Lost \cup {h}
<1>0. Threads /\ Paid /\ [Next]_vars /\ Threads' /\ Paid' /\ blocks' = blocks /\ work' = work
  BY Steps, ThreadsStep, PaidStep, Moves DEF RInv
<1>1. PICK t \in Thread, label \in Label :
          pc[t] \in Crediting /\ pc' = [pc EXCEPT ![t] = label]
  BY <1>0, Moves
<1>2. ASSUME NEW h \in Lost' \ Lost
      PROVE  h = work[t] /\ Excused(t, h) /\ ~Excused(t, h)' /\ ~Whole(h)'
  <2>1. PICK s \in Thread : Excused(s, h) /\ ~Excused(s, h)'
    BY <1>0, <1>2, NewlyLost DEF Lost
  <2>2. CoinbasePaid(h) => CoinbasePaid(h)'
    BY <1>0, <1>2, WholeStays DEF Lost
  <2>3. s = t
    <3> SUFFICES ASSUME s # t PROVE FALSE
      OBVIOUS
    <3>1. pc'[s] = pc[s] /\ work'[s] = work[s]
      BY <1>0, <1>1 DEF Threads
    <3> QED
      BY <2>1, <2>2, <3>1 DEF Excused
  <2> QED
    BY <1>2, <2>1, <2>3 DEF Excused, Lost
<1>3. Lost' \subseteq Lost \cup {work[t]}
  BY <1>2
<1>4. CASE faults' = faults + 1
  BY <1>3, <1>4
<1>5. CASE faults' # faults + 1
  <2> SUFFICES ASSUME NEW h \in Lost' \ Lost PROVE FALSE
    OBVIOUS
  <2>1. h = work[t] /\ Excused(t, h) /\ ~Excused(t, h)' /\ ~Whole(h)' /\ h \in DOMAIN blocks
    BY <1>0, <1>2 DEF Lost
  <2>2. pc'[t] = label /\ \A s \in Thread \ {t} : pc'[s] = pc[s]
    BY <1>0, <1>1 DEF Threads
  <2>3. CoinbasePaid(h) => CoinbasePaid(h)'
    BY <1>0, <2>1, WholeStays
  <2>4. CASE JournalStep
    <3>1. pc["boot"] \in {"begin", "commit"} /\ pc' = [pc EXCEPT !["boot"] = pc'["boot"]]
          /\ (pc["boot"] = "begin" => pc'["boot"] = "coinbase")
      BY <2>4, <1>0 DEF JournalStep, Begin, BeginFails, Commit, CommitFails, Goto, Threads, Thread
    <3>2. pc'[t] = "coinbase" \/ pc'[t] = pc[t]
      BY <1>0, <2>1, <3>1 DEF Excused, Threads, Thread
    <3> QED
      BY <1>0, <2>1, <2>3, <3>2 DEF Excused
  <2>5. CASE CreditStep
    <3>1. PICK s \in Thread : \/ Coinbase(s) \/ TreasuryCoinbase(s) \/ CoinbaseFails(s)
                              \/ MintReward(s) \/ MintFails(s)
      BY <2>5 DEF CreditStep
    <3>2. ~CoinbaseFails(s) /\ ~MintFails(s)
      BY <1>5 DEF CoinbaseFails, MintFails, Fault
    <3>3. CASE s # t
      <4>1. pc'[s] # pc[s]
        BY <1>0, <3>1, <3>2 DEF Coinbase, TreasuryCoinbase, MintReward, Goto, Threads
      <4> QED
        BY <2>2, <3>3, <4>1
    <3>4. CASE Coinbase(t)
      <4>1. pc'[t] = "treasury"
        BY <1>0, <3>4 DEF Coinbase, Goto, Threads
      <4>2. CoinbasePaid(h)'
        BY <1>0, <2>1, <4>1, TreasuryPaidNext DEF PaidFirst
      <4> QED
        BY <1>0, <2>1, <4>1, <4>2 DEF Excused
    <3>5. CASE TreasuryCoinbase(t)
      <4>1. pc[t] = "treasury" /\ pc'[t] = "mint"
        BY <1>0, <3>5 DEF TreasuryCoinbase, Goto, Threads
      <4> QED
        BY <1>0, <2>1, <2>3, <4>1 DEF Excused
    <3>6. CASE MintReward(t)
      <4>1. CoinbasePaid(work[t])
        BY <2>1, <3>6 DEF MintReward, Excused
      <4>2. Whole(work[t])'
        BY <3>6, <4>1, MintedWhole
      <4> QED
        BY <1>0, <2>1, <4>2
    <3> QED
      BY <3>1, <3>2, <3>3, <3>4, <3>5, <3>6
  <2> QED
    BY <2>4, <2>5
<1> QED
  BY <1>4, <1>5

LEMMA CrashLosesThree ==
    ASSUME RInv, Crash
    PROVE  Lost' \subseteq ((Lost \cup {work["boot"]}) \cup {work["rpc"]}) \cup {work["peer"]}
<1> SUFFICES ASSUME NEW h \in Lost' \ Lost PROVE h \in {work["boot"], work["rpc"], work["peer"]}
  OBVIOUS
<1>1. [Next]_vars /\ h \in DOMAIN blocks
  BY Steps DEF LifeStep, Lost, Crash
<1>2. PICK t \in Thread : Excused(t, h)
  BY <1>1, NewlyLost
<1> QED
  BY <1>2 DEF Excused, Thread

LEMMA RestLosesNothing ==
    ASSUME RInv, Start \/ RecoverNext \/ RecoverDone \/ UNCHANGED vars
    PROVE  Lost' \subseteq Lost
<1> SUFFICES ASSUME NEW h \in Lost' \ Lost PROVE FALSE
  OBVIOUS
<1>1. [Next]_vars /\ Threads /\ h \in DOMAIN blocks /\ work' = work
  BY Steps DEF LifeStep, Lost, Start, RecoverNext, RecoverDone, vars, RInv
<1>2. PICK t \in Thread : Excused(t, h) /\ ~Excused(t, h)'
  BY <1>1, NewlyLost
<1>3. CoinbasePaid(h) => CoinbasePaid(h)'
  BY <1>1, WholeStays
<1>4. pc'[t] = pc[t]
  <2>1. CASE Start
    BY <1>1, <1>2, <2>1 DEF Start, Excused, Threads
  <2>2. CASE RecoverNext \/ UNCHANGED vars
    BY <2>2 DEF RecoverNext, vars
  <2>3. CASE RecoverDone
    BY <1>1, <1>2, <2>3 DEF RecoverDone, Goto, Excused, Threads
  <2> QED
    BY <2>1, <2>2, <2>3
<1> QED
  BY <1>1, <1>2, <1>3, <1>4 DEF Excused

LEMMA LostFinite == Threads => IsFiniteSet(Lost)
<1> SUFFICES ASSUME Threads PROVE IsFiniteSet(Lost)
  OBVIOUS
<1>1. DOMAIN blocks = 1 .. Len(blocks) /\ Len(blocks) \in Nat
  BY BlocksAre
<1>2. IsFiniteSet(DOMAIN blocks)
  BY <1>1, FS_Interval
<1> QED
  BY <1>2, FS_Subset DEF Lost

LEMMA LossStep == RInv /\ LossInv /\ [Next]_vars => LossInv'
<1> SUFFICES ASSUME RInv, LossInv, [Next]_vars PROVE LossInv'
  OBVIOUS
<1> DEFINE n == Cardinality(Lost)
<1>0. /\ Threads /\ IsFiniteSet(Lost) /\ n \in Nat /\ n <= 3 * crashes + faults
      /\ crashes \in Nat /\ faults \in Nat
  BY LostFinite, FS_CardinalityType DEF RInv, LossInv, Threads
<1>1. CASE Lost' \subseteq Lost /\ crashes' = crashes /\ faults' \in {faults, faults + 1}
  <2>1. n' \in Nat /\ n' <= n
    BY <1>0, <1>1, FS_Subset, FS_CardinalityType
  <2> QED
    BY <1>0, <1>1, <2>1 DEF LossInv
<1>2. CASE /\ \E h : Lost' \subseteq Lost \cup {h}
           /\ crashes' = crashes /\ faults' = faults + 1
  <2>1. n' \in Nat /\ n' <= n + 1
    BY <1>0, <1>2, Cost
  <2> QED
    BY <1>0, <1>2, <2>1 DEF LossInv
<1>3. CASE Crash
  <2>1. PICK a, b, c : Lost' \subseteq ((Lost \cup {a}) \cup {b}) \cup {c}
    BY <1>3, CrashLosesThree
  <2> DEFINE A == Lost \cup {a}
             B == A \cup {b}
  <2>2. IsFiniteSet(A) /\ Cardinality(A) \in Nat /\ Cardinality(A) <= n + 1
    BY <1>0, Cost
  <2>3. IsFiniteSet(B) /\ Cardinality(B) \in Nat /\ Cardinality(B) <= Cardinality(A) + 1
    BY <2>2, Cost
  <2>4. n' \in Nat /\ n' <= Cardinality(B) + 1
    BY <2>1, <2>3, Cost
  <2>5. crashes' = crashes + 1 /\ faults' = faults
    BY <1>3 DEF Crash
  <2> HIDE DEF A, B
  <2> QED
    BY <1>0, <2>2, <2>3, <2>4, <2>5 DEF LossInv
<1>4. CASE AddStep
  <2>1. Lost' \subseteq Lost
    BY <1>4, AddLosesNothing
  <2>2. UNCHANGED bounds
    BY <1>0, <1>4, Adds
  <2> QED
    BY <1>1, <2>1, <2>2 DEF bounds
<1>5. CASE JournalStep \/ CreditStep
  <2>1. crashes' = crashes /\ faults' \in {faults, faults + 1}
    BY <1>0, <1>5, Moves
  <2> QED
    BY <1>1, <1>2, <1>5, <2>1, WorkLosesOne
<1>6. CASE Start \/ RecoverNext \/ RecoverDone \/ UNCHANGED vars
  <2>1. Lost' \subseteq Lost
    BY <1>6, RestLosesNothing
  <2>2. UNCHANGED bounds
    BY <1>6 DEF Start, RecoverNext, RecoverDone, vars
  <2> QED
    BY <1>1, <2>1, <2>2 DEF bounds
<1> QED
  BY <1>3, <1>4, <1>5, <1>6, Steps DEF LifeStep

\* Rewards are lost only to crashes, three blocks each at most, and to failed
\* writes, one each.
THEOREM LossBounded == Spec => []LossIsBounded
<1>1. Init => LossInv
  <2> SUFFICES ASSUME Init PROVE LossInv
    OBVIOUS
  <2>1. PICK S : S = Lost
    OBVIOUS
  <2>2. S = {}
    BY <2>1 DEF Init, Lost
  <2>3. Cardinality(S) = 0
    BY <2>2, FS_EmptySet
  <2> QED
    BY <2>1, <2>3 DEF Init, LossInv
<1>2. RInv /\ LossInv => LossIsBounded
  <2> SUFFICES ASSUME RInv, LossInv PROVE LossIsBounded
    OBVIOUS
  <2> DEFINE S == {h \in DOMAIN blocks \ InFlight : blocks[h].by # "sync" /\ ~Whole(h)}
  <2>1. S \subseteq Lost
    BY DEF Lost, Excused, InFlight
  <2>2. IsFiniteSet(Lost) /\ crashes \in Nat /\ faults \in Nat
    BY LostFinite DEF RInv, Threads
  <2>3. /\ Cardinality(S) \in Nat /\ Cardinality(Lost) \in Nat
        /\ Cardinality(S) <= Cardinality(Lost)
    BY <2>1, <2>2, FS_Subset, FS_CardinalityType
  <2> HIDE DEF S
  <2>4. Cardinality(S) <= 3 * crashes + faults
    BY <2>2, <2>3 DEF LossInv
  <2> QED
    BY <2>4 DEF LossIsBounded, S
<1> QED
  BY RewardsInvariance, LossStep, <1>1, <1>2, PTL DEF Spec

-----------------------------------------------------------------------------
(***************************************************************************)
(* Committed entries.  The boot loop reaches its commit only with a block  *)
(* whose coinbase is paid; a minting that failed has cost a write, and the *)
(* block is counted from then on.                                          *)
(***************************************************************************)
Unsure ==
    {h \in DOMAIN blocks :
        /\ ~Whole(h)
        /\ \/ h \in DOMAIN journal /\ journal[h] = "COMMITTED"
           \/ h = work["boot"] /\ pc["boot"] = "commit"}

BootPaid == pc["boot"] \in {"treasury", "mint"} => CoinbasePaid(work["boot"])

CommitInv == Cardinality(Unsure) <= faults /\ BootPaid

LEMMA BootAtMint ==
    ASSUME Threads, [Next]_vars, pc'["boot"] = "mint"
    PROVE  pc["boot"] \in {"treasury", "mint"} /\ work'["boot"] = work["boot"]
<1>0. "boot" \in Thread
  BY DEF Thread
<1>1. CASE AddStep
  BY <1>0, <1>1, Adds DEF Threads, Crediting
<1>2. CASE JournalStep
  BY <1>2 DEF JournalStep, Begin, BeginFails, Commit, CommitFails, Goto, Threads, Thread
<1>3. CASE CreditStep
  <2>1. PICK t \in Thread : \/ Coinbase(t) \/ TreasuryCoinbase(t) \/ CoinbaseFails(t)
                            \/ MintReward(t) \/ MintFails(t)
    BY <1>3 DEF CreditStep
  <2>2. CASE t = "boot"
    BY <1>0, <2>1, <2>2 DEF Coinbase, TreasuryCoinbase, CoinbaseFails, MintReward, MintFails,
                            Goto, Threads
  <2>3. CASE t # "boot"
    BY <1>0, <2>1, <2>3 DEF Coinbase, TreasuryCoinbase, CoinbaseFails, MintReward, MintFails,
                            Goto, Threads
  <2> QED
    BY <2>2, <2>3
<1>4. CASE LifeStep
  BY <1>0, <1>4 DEF LifeStep, Crash, Start, RecoverNext, RecoverDone, Goto, Threads
<1>5. CASE UNCHANGED vars
  BY <1>5 DEF vars
<1> QED
  BY <1>1, <1>2, <1>3, <1>4, <1>5, Steps

LEMMA BootPaidStep == RInv /\ BootPaid /\ [Next]_vars => BootPaid'
<1> SUFFICES ASSUME RInv, BootPaid, [Next]_vars, pc'["boot"] \in {"treasury", "mint"}
             PROVE  CoinbasePaid(work["boot"])'
  BY DEF BootPaid
<1>1. CASE pc'["boot"] = "treasury"
  BY <1>1, ThreadsStep, PaidStep, TreasuryPaidNext DEF RInv, PaidFirst, Thread
<1>2. CASE pc'["boot"] = "mint"
  <2>1. PICK h : h = work["boot"]
    OBVIOUS
  <2>2. pc["boot"] \in {"treasury", "mint"} /\ work'["boot"] = h
    BY <1>2, <2>1, BootAtMint DEF RInv
  <2>3. h \in DOMAIN blocks /\ CoinbasePaid(h)
    BY <2>1, <2>2 DEF BootPaid, RInv, Threads, Crediting, Thread
  <2>4. CoinbasePaid(h)'
    BY <2>3, WholeStays
  <2> QED
    BY <2>2, <2>4 DEF CoinbasePaid, Store!CoinbaseAt
<1> QED
  BY <1>1, <1>2

\* An entry becomes committed only as the boot loop closes it.
LEMMA NewlyCommitted ==
    ASSUME RInv, [Next]_vars, NEW h \in DOMAIN journal', journal'[h] = "COMMITTED"
    PROVE  \/ h \in DOMAIN journal /\ journal[h] = "COMMITTED"
           \/ h = work["boot"] /\ pc["boot"] = "commit"
<1>1. CASE AddStep
  BY <1>1 DEF AddStep, Mined, PeerBlock, SyncBlock
<1>2. CASE JournalStep
  BY <1>2 DEF JournalStep, Begin, BeginFails, Commit, CommitFails, Set
<1>3. CASE CreditStep
  BY <1>3 DEF CreditStep, Coinbase, TreasuryCoinbase, CoinbaseFails, MintReward, MintFails
<1>4. CASE LifeStep
  BY <1>4 DEF LifeStep, Crash, Start, RecoverNext, RecoverDone
<1>5. CASE UNCHANGED vars
  BY <1>5 DEF vars
<1> QED
  BY <1>1, <1>2, <1>3, <1>4, <1>5, Steps

\* The boot loop comes to its commit from the minting.
LEMMA BootAtCommit ==
    ASSUME Threads, [Next]_vars, pc'["boot"] = "commit"
    PROVE  /\ work'["boot"] = work["boot"]
           /\ pc["boot"] = "commit" \/ MintReward("boot") \/ MintFails("boot")
<1>0. "boot" \in Thread
  BY DEF Thread
<1>1. CASE AddStep
  BY <1>0, <1>1, Adds DEF Threads
<1>2. CASE JournalStep
  BY <1>2 DEF JournalStep, Begin, BeginFails, Commit, CommitFails, Goto, Threads, Thread
<1>3. CASE CreditStep
  <2>1. PICK t \in Thread : \/ Coinbase(t) \/ TreasuryCoinbase(t) \/ CoinbaseFails(t)
                            \/ MintReward(t) \/ MintFails(t)
    BY <1>3 DEF CreditStep
  <2>2. CASE t = "boot"
    BY <1>0, <2>1, <2>2 DEF Coinbase, TreasuryCoinbase, CoinbaseFails, MintReward, MintFails,
                            Goto, Threads
  <2>3. CASE t # "boot"
    BY <1>0, <2>1, <2>3 DEF Coinbase, TreasuryCoinbase, CoinbaseFails, MintReward, MintFails,
                            Goto, Threads
  <2> QED
    BY <2>2, <2>3
<1>4. CASE LifeStep
  BY <1>0, <1>4 DEF LifeStep, Crash, Start, RecoverNext, RecoverDone, Goto, Threads
<1>5. CASE UNCHANGED vars
  BY <1>5 DEF vars
<1> QED
  BY <1>1, <1>2, <1>3, <1>4, <1>5, Steps

LEMMA NewlyUnsure ==
    ASSUME RInv, BootPaid, [Next]_vars, NEW h \in Unsure' \ Unsure
    PROVE  h = work["boot"] /\ faults' = faults + 1
<1>1. ~Whole(h)'
  BY DEF Unsure
<1>2. CASE h \in DOMAIN journal' /\ journal'[h] = "COMMITTED"
  <2>1. \/ h \in DOMAIN journal /\ journal[h] = "COMMITTED"
        \/ h = work["boot"] /\ pc["boot"] = "commit"
    BY <1>2, NewlyCommitted
  <2>2. h \in DOMAIN blocks
    BY <2>1 DEF RInv, Entries, Threads, Crediting, Thread
  <2>3. ~Whole(h)
    BY <1>1, <2>2, WholeStays
  <2> QED
    BY <2>1, <2>2, <2>3 DEF Unsure
<1>3. CASE h = work'["boot"] /\ pc'["boot"] = "commit"
  <2>1. /\ h = work["boot"]
        /\ pc["boot"] = "commit" \/ MintReward("boot") \/ MintFails("boot")
    BY <1>3, BootAtCommit DEF RInv
  <2>2. pc["boot"] \in Crediting /\ "boot" \in Thread
    BY <2>1 DEF Crediting, MintReward, MintFails, Thread
  <2>3. h \in DOMAIN blocks
    BY <2>1, <2>2 DEF RInv, Threads
  <2>4. ~Whole(h)
    BY <1>1, <2>3, WholeStays
  <2>5. CASE pc["boot"] = "commit"
    BY <2>1, <2>3, <2>4, <2>5 DEF Unsure
  <2>6. CASE MintReward("boot")
    <3>1. Whole(work["boot"])'
      BY <2>2, <2>6, MintedWhole DEF BootPaid, MintReward
    <3> QED
      BY <1>1, <1>3, <2>1, <3>1, <2>6 DEF MintReward
  <2>7. CASE MintFails("boot")
    BY <2>1, <2>7 DEF MintFails, Fault
  <2> QED
    BY <2>1, <2>5, <2>6, <2>7
<1> QED
  BY <1>2, <1>3 DEF Unsure

LEMMA UnsureFinite == Threads => IsFiniteSet(Unsure)
<1> SUFFICES ASSUME Threads PROVE IsFiniteSet(Unsure)
  OBVIOUS
<1>1. DOMAIN blocks = 1 .. Len(blocks) /\ Len(blocks) \in Nat
  BY BlocksAre
<1>2. IsFiniteSet(DOMAIN blocks)
  BY <1>1, FS_Interval
<1> QED
  BY <1>2, FS_Subset DEF Unsure

LEMMA FaultsGrow == Threads /\ [Next]_vars => faults' \in {faults, faults + 1}
<1> SUFFICES ASSUME Threads, [Next]_vars PROVE faults' \in {faults, faults + 1}
  OBVIOUS
<1>1. CASE AddStep
  BY <1>1, Adds DEF bounds
<1>2. CASE JournalStep \/ CreditStep
  BY <1>2, Moves
<1>3. CASE LifeStep
  BY <1>3 DEF LifeStep, Crash, Start, RecoverNext, RecoverDone, bounds
<1>4. CASE UNCHANGED vars
  BY <1>4 DEF vars, bounds
<1> QED
  BY <1>1, <1>2, <1>3, <1>4, Steps

LEMMA CommitStep == RInv /\ CommitInv /\ [Next]_vars => CommitInv'
<1> SUFFICES ASSUME RInv, CommitInv, [Next]_vars PROVE CommitInv'
  OBVIOUS
<1> DEFINE n == Cardinality(Unsure)
<1>1. IsFiniteSet(Unsure) /\ n \in Nat /\ n <= faults /\ faults \in Nat
      /\ faults' \in {faults, faults + 1}
  BY UnsureFinite, FS_CardinalityType, FaultsGrow DEF RInv, CommitInv, Threads
<1>2. CASE Unsure' \subseteq Unsure
  <2>1. n' \in Nat /\ n' <= n
    BY <1>1, <1>2, FS_Subset, FS_CardinalityType
  <2>2. n' <= faults'
    BY <1>1, <2>1
  <2> QED
    BY <2>2, BootPaidStep DEF CommitInv
<1>3. CASE ~(Unsure' \subseteq Unsure)
  <2>1. PICK h : h = work["boot"]
    OBVIOUS
  <2>2. Unsure' \subseteq Unsure \cup {h} /\ faults' = faults + 1
    BY <1>3, <2>1, NewlyUnsure DEF CommitInv
  <2>3. n' \in Nat /\ n' <= n + 1
    BY <1>1, <2>2, Cost
  <2>4. n' <= faults'
    BY <1>1, <2>2, <2>3
  <2> QED
    BY <2>4, BootPaidStep DEF CommitInv
<1> QED
  BY <1>2, <1>3

\* A committed entry stands for a block that has paid its miner in both
\* currencies, but for one block per failed write: a crash leaves none behind.
THEOREM CommittedWhole == Spec => []CommittedIsWhole
<1>1. Init => CommitInv
  <2> SUFFICES ASSUME Init PROVE CommitInv
    OBVIOUS
  <2>1. PICK S : S = Unsure
    OBVIOUS
  <2>2. S = {}
    BY <2>1 DEF Init, Unsure
  <2>3. Cardinality(S) = 0
    BY <2>2, FS_EmptySet
  <2> QED
    BY <2>1, <2>3 DEF Init, CommitInv, BootPaid, Thread
<1>2. RInv /\ CommitInv => CommittedIsWhole
  <2> SUFFICES ASSUME RInv, CommitInv PROVE CommittedIsWhole
    OBVIOUS
  <2> DEFINE S == {h \in DOMAIN journal : journal[h] = "COMMITTED" /\ ~Whole(h)}
  <2>1. S \subseteq Unsure
    BY DEF Unsure, RInv, Entries
  <2>2. IsFiniteSet(Unsure) /\ faults \in Nat
    BY UnsureFinite DEF RInv, Threads
  <2>3. /\ Cardinality(S) \in Nat /\ Cardinality(Unsure) \in Nat
        /\ Cardinality(S) <= Cardinality(Unsure)
    BY <2>1, <2>2, FS_Subset, FS_CardinalityType
  <2> HIDE DEF S
  <2>4. Cardinality(S) <= faults
    BY <2>2, <2>3 DEF CommitInv
  <2> QED
    BY <2>4 DEF CommittedIsWhole, S
<1> QED
  BY RewardsInvariance, CommitStep, <1>1, <1>2, PTL DEF Spec
=============================================================================
