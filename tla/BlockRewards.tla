---------------------------- MODULE BlockRewards ----------------------------
(***************************************************************************)
(* What a block pays, and where it is written: the UTXO store (module      *)
(* UTXOStore, core/utxo_store.py), the sector coin ledger's mintings       *)
(* (core/sector_coin.py), and the mining journal (core/crash_journal.py),  *)
(* which is there to make the first two agree after a crash.               *)
(*                                                                         *)
(* Three threads write rewards: the mining loop started at boot, the one   *)
(* started by mining_start, and the P2P handler of new blocks.  Only the   *)
(* first keeps the journal.  Each write is a transaction of its own        *)
(* database; between two of them the process may crash, and each may fail. *)
(*                                                                         *)
(* One sector, one wallet, one other miner.  Blocks are appended one by    *)
(* one (MiningNode has the races of appending).  Rewards are small         *)
(* naturals, and the bounds keep halving exact.                            *)
(***************************************************************************)
EXTENDS Naturals, Sequences, FiniteSets, FiniteSetsExt, Functions

CONSTANTS
    Wallet, Stranger,   \* the node's own miner address, a peer's
    Treasury,           \* 'MAIN_TREASURY'
    MinerShare, TreasuryShare,   \* what a block pays into the UTXO store
    Base, HalvingInterval, MaxSupply,   \* the sector coin's schedule
    NoTx, Mint,         \* as in UTXOStore
    MaxHeight,          \* bound on the blocks
    MaxCrashes,         \* bound on crashes
    MaxFaults           \* bound on the writes that fail

ASSUME BlockRewardsAssumption ==
    /\ {MinerShare, TreasuryShare, Base, HalvingInterval} \subseteq Nat \ {0}
    /\ {MaxSupply, MaxHeight, MaxCrashes, MaxFaults} \subseteq Nat
    /\ Cardinality({Wallet, Stranger, Treasury}) = 3

Thread == {"boot", "rpc", "peer"}
Height == 1 .. MaxHeight

\* The sector coin's reward at a height, before the cap.
BlockReward(h) == Base \div 2^(h \div HalvingInterval)

\* Within the bounds, halving does not round a reward to nothing.  (In the
\* code a reward is a fraction, which stays positive.)
ASSUME HalvingAssumption == \A h \in Height : BlockReward(h) \in 1 .. Base

VARIABLES
    blocks,         \* the blocks on disk: [miner, by], by height
    utxos, transactions,   \* the UTXO store
    mints,          \* the MINT rows: <<height, miner>> -> amount
    journal,        \* the mining_journal table: height -> state
    up,             \* is the process running?
    pc,             \* what each thread is about to do
    work,           \* the height of the block each thread is crediting
    crashes, faults

store == <<utxos, transactions>>
bounds == <<crashes, faults>>
vars == <<blocks, store, mints, journal, up, pc, work, bounds>>

Store == INSTANCE UTXOStore WITH
    Address <- {Wallet, Stranger, Treasury}, Transfer <- {}, MaxInputs <- 1,
    MaxAmount <- 0, Reward <- MinerShare, Fee <- 0, ReplayRaces <- FALSE,
    HonestBlocks <- TRUE

Init ==
    /\ blocks = <<>> /\ Store!Init
    /\ mints = [x \in {} |-> 0] /\ journal = [h \in {} |-> "PENDING"]
    /\ up = FALSE /\ pc = [t \in Thread |-> "off"] /\ work = [t \in Thread |-> 0]
    /\ crashes = 0 /\ faults = 0

Goto(t, label) == pc' = [pc EXCEPT ![t] = label]
Set(f, x, v) == [y \in DOMAIN f \cup {x} |-> IF y = x THEN v ELSE f[y]]

Fault == faults < MaxFaults /\ faults' = faults + 1 /\ UNCHANGED crashes

-----------------------------------------------------------------------------
(* Blocks. *)

Added(miner, t) ==
    /\ up /\ Len(blocks) < MaxHeight
    /\ blocks' = Append(blocks, [miner |-> miner, by |-> t])

\* add_block has saved a block of a mining loop, whose callback comes next.
Mined(t) ==
    /\ pc[t] = "idle" /\ Added(Wallet, t)
    /\ work' = [work EXCEPT ![t] = Len(blocks) + 1]
    /\ Goto(t, IF t = "boot" THEN "begin" ELSE "coinbase")
    /\ UNCHANGED <<store, mints, journal, up, bounds>>

\* Faulty: a peer's block is added and nothing else.
PeerBlockOnly ==
    /\ pc["peer"] = "idle" /\ Added(Stranger, "peer")
    /\ UNCHANGED <<store, mints, journal, up, pc, work, bounds>>

\* handle_new_block has accepted a block.
PeerBlock ==
    /\ pc["peer"] = "idle" /\ Added(Stranger, "peer")
    /\ work' = [work EXCEPT !["peer"] = Len(blocks) + 1]
    /\ Goto("peer", "coinbase")
    /\ UNCHANGED <<store, mints, journal, up, bounds>>

\* handle_blocks: a block fetched by sync pays nobody.
SyncBlock ==
    /\ pc["peer"] = "idle" /\ Added(Stranger, "sync")
    /\ UNCHANGED <<store, mints, journal, up, pc, work, bounds>>

-----------------------------------------------------------------------------
(* The journal's two writes around the others, in main.on_block_mined.  An  *)
(* exception in either is swallowed.                                        *)

\* Faulty: the entry is committed as it is made.
BeginCommitted ==
    /\ pc["boot"] = "begin"
    /\ journal' = Set(journal, work["boot"], "COMMITTED")
    /\ Goto("boot", "coinbase")
    /\ UNCHANGED <<blocks, store, mints, up, work, bounds>>

Begin ==
    /\ pc["boot"] = "begin"
    /\ journal' = Set(journal, work["boot"], "PENDING")
    /\ Goto("boot", "coinbase")
    /\ UNCHANGED <<blocks, store, mints, up, work, bounds>>

BeginFails ==
    /\ pc["boot"] = "begin" /\ Fault
    /\ Goto("boot", "coinbase")
    /\ UNCHANGED <<blocks, store, mints, journal, up, work>>

\* Faulty: the entry is left as it is.
CommitForgets ==
    /\ pc["boot"] = "commit"
    /\ Goto("boot", "idle")
    /\ UNCHANGED <<blocks, store, mints, journal, up, work, bounds>>

\* commit, unless there is no journal_id.
Commit ==
    /\ pc["boot"] = "commit"
    /\ journal' = IF work["boot"] \in DOMAIN journal
                  THEN Set(journal, work["boot"], "COMMITTED") ELSE journal
    /\ Goto("boot", "idle")
    /\ UNCHANGED <<blocks, store, mints, up, work, bounds>>

CommitFails ==
    /\ pc["boot"] = "commit" /\ Fault
    /\ Goto("boot", "idle")
    /\ UNCHANGED <<blocks, store, mints, journal, up, work>>

-----------------------------------------------------------------------------
(* The rewards, in the same order in all three threads. *)

\* The miner's coinbase ...
Coinbase(t) ==
    /\ pc[t] = "coinbase"
    /\ Store!CreateCoinbase(blocks[work[t]].miner, MinerShare, work[t])
    /\ Goto(t, "treasury")
    /\ UNCHANGED <<blocks, mints, journal, up, work, bounds>>

\* ... the treasury's, by the same call for the same height ...
TreasuryCoinbase(t) ==
    /\ pc[t] = "treasury"
    /\ Store!CreateCoinbase(Treasury, TreasuryShare, work[t])
    /\ Goto(t, "mint")
    /\ UNCHANGED <<blocks, mints, journal, up, work, bounds>>

\* ... either of which may raise: the boot loop has no handler for that and
\* ends, the others go on with the minting ...
CoinbaseFails(t) ==
    /\ pc[t] \in {"coinbase", "treasury"} /\ Fault
    /\ Goto(t, IF t = "boot" THEN "dead" ELSE "mint")
    /\ UNCHANGED <<blocks, store, mints, journal, up, work>>

\* ... and mint_block_reward, within the supply cap and once per height and
\* miner; its refusals and exceptions are swallowed.
Supply == SumFunctionOnSet(mints, DOMAIN mints)

\* Faulty: the last reward is not cut.
MintWhole(h) == IF Supply >= MaxSupply THEN 0 ELSE BlockReward(h)

MintAmount(h) ==
    IF Supply >= MaxSupply THEN 0
    ELSE IF Supply + BlockReward(h) > MaxSupply THEN MaxSupply - Supply
    ELSE BlockReward(h)

MintReward(t) ==
    LET mint == <<work[t], blocks[work[t]].miner>>
        amount == MintAmount(work[t])
    IN  /\ pc[t] = "mint"
        /\ mints' = IF mint \in DOMAIN mints \/ amount = 0 THEN mints
                    ELSE Set(mints, mint, amount)
        /\ Goto(t, IF t = "boot" THEN "commit" ELSE "idle")
        /\ UNCHANGED <<blocks, store, journal, up, work, bounds>>

MintFails(t) ==
    /\ pc[t] = "mint" /\ Fault
    /\ Goto(t, IF t = "boot" THEN "commit" ELSE "idle")
    /\ UNCHANGED <<blocks, store, mints, journal, up, work>>

-----------------------------------------------------------------------------
(* Crashes, starts, and recover_pending. *)

Crash ==
    /\ up /\ crashes < MaxCrashes
    /\ up' = FALSE /\ crashes' = crashes + 1
    /\ pc' = [t \in Thread |-> "off"]
    /\ UNCHANGED <<blocks, store, mints, journal, work, faults>>

\* Recovery and the boot loop come only if the configuration enables mining.
Start ==
    /\ ~up /\ up' = TRUE
    /\ \E mining \in BOOLEAN :
           pc' = [t \in Thread |-> IF t # "boot" THEN "idle"
                                   ELSE IF mining THEN "recover" ELSE "off"]
    /\ UNCHANGED <<blocks, store, mints, journal, work, bounds>>

Pending == {h \in DOMAIN journal : journal[h] = "PENDING"}

\* Faulty: an entry is closed under a state that the table does not have.
RecoverAborts ==
    /\ pc["boot"] = "recover" /\ pc["peer"] = "idle" /\ Pending # {}
    /\ journal' = [journal EXCEPT ![Min(Pending)] = "ABORTED"]
    /\ UNCHANGED <<blocks, store, mints, up, pc, work, bounds>>

\* A pending entry is taken for one whose first step was not done, and is
\* closed.  (Nobody calls mark_step1_done, so no entry is in the state that
\* would be completed.)  It runs on the event loop, between two messages.
RecoverNext ==
    /\ pc["boot"] = "recover" /\ pc["peer"] = "idle" /\ Pending # {}
    /\ journal' = [journal EXCEPT ![Min(Pending)] = "ROLLED_BACK"]
    /\ UNCHANGED <<blocks, store, mints, up, pc, work, bounds>>

RecoverDone ==
    /\ pc["boot"] = "recover" /\ Pending = {}
    /\ Goto("boot", "idle")
    /\ UNCHANGED <<blocks, store, mints, journal, up, work, bounds>>

-----------------------------------------------------------------------------

Next ==
    \/ \E t \in {"boot", "rpc"} : Mined(t)
    \/ PeerBlock \/ SyncBlock
    \/ Begin \/ BeginFails \/ Commit \/ CommitFails
    \/ \E t \in Thread :
           \/ Coinbase(t) \/ TreasuryCoinbase(t) \/ CoinbaseFails(t)
           \/ MintReward(t) \/ MintFails(t)
    \/ Crash \/ Start \/ RecoverNext \/ RecoverDone

Spec == Init /\ [][Next]_vars
-----------------------------------------------------------------------------
(* Properties. *)

\* Type correctness of the three databases and the threads.
TypeOK ==
    /\ Len(blocks) <= MaxHeight /\ Store!TypeOK
    /\ \A x \in DOMAIN mints : x[1] \in Height /\ mints[x] \in 1 .. Base
    /\ \A h \in DOMAIN journal :
           h \in Height /\ journal[h] \in {"PENDING", "COMMITTED", "ROLLED_BACK"}
    /\ work \in [Thread -> {0} \cup Height]

CoinbasePaid(h) == \E u \in Store!CoinbaseAt(h) : utxos[u].address = blocks[h].miner
Minted(h) == <<h, blocks[h].miner>> \in DOMAIN mints

\* Has a block paid its miner in both currencies?  (When the supply is used
\* up there is nothing to mint.)
Whole(h) == CoinbasePaid(h) /\ (Minted(h) \/ Supply = MaxSupply)

InFlight == {work[t] : t \in {s \in Thread : pc[s] \notin {"off", "idle", "recover", "dead"}}}

\* The sector coin's cap: whatever the threads and restarts do, no more is
\* minted than MAX_SUPPLY.
SupplyCapped == Supply <= MaxSupply

\* A miner loses rewards only by a crash or a failed write: each crash costs
\* no more than the blocks that the three threads had in hand, and each
\* failed write no more than one.  (Synced blocks pay nobody at all.)
LossIsBounded ==
    Cardinality({h \in DOMAIN blocks \ InFlight : blocks[h].by # "sync" /\ ~Whole(h)})
        <= 3 * crashes + faults

\* A committed entry stands for a block that has paid its miner, but for the
\* write errors that the callback swallows: a crash never leaves one behind.
CommittedIsWhole ==
    Cardinality({h \in DOMAIN journal : journal[h] = "COMMITTED" /\ ~Whole(h)}) <= faults

\* Once the boot loop runs, what is pending is the block it has in hand: the
\* entries of earlier lives have been resolved, and those of this one were
\* closed, but for failed writes.
JournalCurrent ==
    pc["boot"] \notin {"off", "recover"} =>
        Cardinality(Pending \ (IF pc["boot"] = "dead" THEN {} ELSE {work["boot"]})) <= faults
=============================================================================
