----------------------------- MODULE MiningNode -----------------------------
(***************************************************************************)
(* The threads of one node around its chain: the mining loops and the      *)
(* mempool of core/consensus.py, the P2P handlers of main.py, and the      *)
(* transfer and mining calls of core/rpc_service.py.                       *)
(*                                                                         *)
(* A mining loop and a P2P handler both end in add_block, whose steps      *)
(* (validate, append, save) are separate actions because the lock is held  *)
(* only inside each of them.  The two P2P handlers run on one event loop   *)
(* and do not await in between, so they exclude each other; the RPC server *)
(* is one thread.                                                          *)
(*                                                                         *)
(* A transaction spends one coin.  Coins are old enough for the            *)
(* confirmation and maturity rules.  There are two senders, the node's own *)
(* wallet and another one.  Hashes are numbers, a fresh one per block, and *)
(* the height that an honest block states is one above the block it names. *)
(***************************************************************************)
EXTENDS Integers, Sequences, SequencesExt, FiniteSets, FiniteSetsExt

CONSTANTS
    Loop,        \* the mining threads that may ever be started
    Own,         \* transfers that the node's own wallet may send
    Foreign,     \* transactions that come from the network
    NonceOf,     \* the nonce of each foreign transaction, as int() reads it
    FormOf,      \* how it carries it: see Form
    Coin,        \* coins of the UTXO store
    InputOf,     \* Tx -> Coin
    NoTx,        \* "spent by nobody"
    MaxBlocks,   \* bound on the blocks ever made, here or by peers
    MaxNonce,    \* bound on nonces
    MaxTxs,      \* max_txs, the transactions of one block
    Peers,       \* does the node have peers that send blocks?
    Sync,        \* does it also fetch blocks it has missed?
    Commands,    \* bound on the start and stop commands of the operator
    MaxFaults    \* bound on the heights whose save failed

Tx == Own \cup Foreign
Sender == {"own", "other"}
SenderOf(t) == IF t \in Own THEN "own" ELSE "other"

\* A nonce is an int, something that int() turns into one ("text": a string
\* or a float of the JSON), or missing; a transaction that says its type is
\* coinbase has no nonce check, whatever it carries ("coinbase": an int).
Form == {"number", "text", "none", "coinbase"}

ASSUME MiningNodeAssumption ==
    /\ Own \cap Foreign = {} /\ NoTx \notin Tx /\ Loop \cap {"peer", "sync", "p2p"} = {}
    /\ InputOf \in [Tx -> Coin]
    /\ NonceOf \in [Foreign -> 0 .. MaxNonce] /\ FormOf \in [Foreign -> Form]
    /\ MaxBlocks \in Nat /\ MaxNonce \in Nat /\ MaxTxs \in Nat
    /\ Commands \in Nat /\ MaxFaults \in Nat
    /\ Peers \in BOOLEAN /\ Sync \in BOOLEAN

\* Whose nonce is compared on entry and moves the confirmed ones, and whose
\* is seen while it waits (isinstance(p_nonce, int), of any type).
Checked == Own \cup {t \in Foreign : FormOf[t] \in {"number", "text"}}
Counted == Own \cup {t \in Foreign : FormOf[t] \in {"number", "coinbase"}}
Coinbase == {t \in Foreign : FormOf[t] = "coinbase"}

Adder == Loop \cup {"peer", "sync"}   \* who calls add_block

\* The thread it runs on: both P2P handlers are the event loop's.
Thread(a) == IF a \in Loop THEN a ELSE "p2p"

VARIABLES
    chain,        \* self.chain, genesis first
    chainHeight,  \* self._chain_height
    disk,         \* the blocks table: height -> block
    addedBy,      \* history: the thread that appended each block of the chain
    unsaved,      \* history: the heights of blocks whose save failed
    mempool,      \* self.pending_transactions: entries [tx, nonce]
    lastNonce,    \* self._address_nonces; -1 for none
    stopMining,   \* self.stop_mining
    isMining,     \* self.is_mining
    pc,           \* where each adder is
    blk,          \* the block each adder works on
    rest,         \* the mempool's tail that a loop has copied
    replay,       \* the entries the P2P handler has yet to replay
    spentBy,      \* the UTXO store: who spent each coin
    recorded,     \* the UTXO store: transactions on record
    credited,     \* the UTXO store: heights with a coinbase
    rpc,          \* the RPC thread: [at, tx, nonce]
    commands,     \* how many commands were given
    made          \* the number of hashes used

chainVars == <<chain, chainHeight, disk, lastNonce, addedBy, unsaved>>
storeVars == <<spentBy, recorded, credited>>
miningVars == <<stopMining, isMining, commands>>
vars == <<chainVars, storeVars, miningVars, mempool, pc, blk, rest, replay, rpc, made>>

Genesis == [height |-> 0, hash |-> 1, prev |-> 0, txs |-> <<>>]

Tip == Last(chain)
TxsOf(b) == {b.txs[i].tx : i \in DOMAIN b.txs}
OnChain == UNION {TxsOf(chain[i]) : i \in DOMAIN chain}

Init ==
    /\ chain = <<Genesis>> /\ chainHeight = 0 /\ disk = [h \in {0} |-> Genesis]
    /\ addedBy = <<"p2p">> /\ unsaved = {}
    /\ mempool = <<>> /\ lastNonce = [s \in Sender |-> -1]
    /\ stopMining = FALSE /\ isMining = FALSE /\ commands = 0
    /\ pc = [a \in Adder |-> IF a \in Loop THEN "off" ELSE "idle"]
    /\ blk = [a \in Adder |-> Genesis]
    /\ rest = [l \in Loop |-> <<>>] /\ replay = <<>>
    /\ spentBy = [c \in Coin |-> NoTx] /\ recorded = {} /\ credited = {}
    /\ rpc = [at |-> "idle", tx |-> NoTx, nonce |-> 0]
    /\ made = 1

Goto(a, label) == pc' = [pc EXCEPT ![a] = label]

-----------------------------------------------------------------------------
(* The mining loop: start_mining's mining_loop and mine_block. *)

\* while not self.stop_mining: a loop that sees the flag ends for good.
LoopCheck(l) ==
    /\ pc[l] = "check"
    /\ IF stopMining THEN Goto(l, "off") /\ isMining' = FALSE
                     ELSE Goto(l, "create") /\ UNCHANGED isMining
    /\ UNCHANGED <<chainVars, storeVars, stopMining, commands, mempool,
                   blk, rest, replay, rpc, made>>

\* create_block: the latest block and the first max_txs pending entries.
CreateBlock(l) ==
    /\ pc[l] = "create"
    /\ Goto(l, "mine")
    /\ blk' = [blk EXCEPT ![l] =
                  [height |-> Tip.height + 1, hash |-> 0, prev |-> Tip.hash,
                   txs |-> SubSeq(mempool, 1, IF Len(mempool) < MaxTxs
                                              THEN Len(mempool) ELSE MaxTxs)]]
    /\ UNCHANGED <<chainVars, storeVars, miningVars, mempool, rest, replay, rpc, made>>

\* The work succeeds: the block gets its hash.
MineSucceeds(l) ==
    /\ pc[l] = "mine" /\ made < MaxBlocks
    /\ made' = made + 1
    /\ blk' = [blk EXCEPT ![l].hash = made + 1]
    /\ Goto(l, "slice")
    /\ UNCHANGED <<chainVars, storeVars, miningVars, mempool, rest, replay, rpc>>

\* It fails: interrupted by stop_mining, or no proof was good enough.
MineFails(l) ==
    /\ pc[l] = "mine"
    /\ Goto(l, "check")
    /\ UNCHANGED <<chainVars, storeVars, miningVars, mempool, blk, rest, replay, rpc, made>>

\* self.pending_transactions = self.pending_transactions[packed_count:],
\* without the lock: the tail is copied, then stored.
CopyRest(l) ==
    /\ pc[l] = "slice"
    /\ rest' = [rest EXCEPT ![l] =
                   SubSeq(mempool, Len(blk[l].txs) + 1, Len(mempool))]
    /\ Goto(l, "store")
    /\ UNCHANGED <<chainVars, storeVars, miningVars, mempool, blk, replay, rpc, made>>

StoreRest(l) ==
    /\ pc[l] = "store"
    /\ mempool' = rest[l]
    /\ rest' = [rest EXCEPT ![l] = <<>>]
    /\ Goto(l, "validate")
    /\ UNCHANGED <<chainVars, storeVars, miningVars, blk, replay, rpc, made>>

-----------------------------------------------------------------------------
(* add_block, by any adder. *)

\* Faulty: the loop calls on_block without asking whether the block was added.
RejectedCredits(a) == IF a \in Loop THEN "credit" ELSE IF a = "peer" THEN "resume" ELSE "idle"

Rejected(a) == IF a \in Loop THEN "check" ELSE IF a = "peer" THEN "resume" ELSE "idle"

\* validate_block, against the chain as it is now.  The height and the last
\* block are read one after the other; that is the same for an honest block.
Validate(a) ==
    /\ pc[a] = "validate"
    /\ Goto(a, IF blk[a].height = chainHeight + 1 /\ blk[a].prev = Tip.hash
               THEN "validateTxs" ELSE Rejected(a))
    /\ UNCHANGED <<chainVars, storeVars, miningVars, mempool, blk, rest, replay, rpc, made>>

\* _validate_block_transactions: inputs unspent, and used once in the block;
\* what says it is a coinbase is passed over.
ValidTxs(b) ==
    LET spends == {i \in DOMAIN b.txs : b.txs[i].tx \notin Coinbase} IN
    /\ \A i \in spends : spentBy[InputOf[b.txs[i].tx]] = NoTx
    /\ \A i, j \in spends : i # j => InputOf[b.txs[i].tx] # InputOf[b.txs[j].tx]

ValidateTxs(a) ==
    /\ pc[a] = "validateTxs"
    /\ Goto(a, IF ValidTxs(blk[a]) THEN "append" ELSE Rejected(a))
    /\ UNCHANGED <<chainVars, storeVars, miningVars, mempool, blk, rest, replay, rpc, made>>

\* The nonces of sender x in s that are looked at, and the highest of them and n.
NoncesIn(x, s, seen) ==
    {s[i].nonce : i \in {j \in DOMAIN s : SenderOf(s[j].tx) = x /\ s[j].tx \in seen}}

HighestNonce(x, n, s, seen) == Max({n} \cup NoncesIn(x, s, seen))

\* Faulty: synced blocks do not move the nonces.
AppendForgetsNonces(a) ==
    /\ pc[a] = "append"
    /\ chain' = Append(chain, blk[a])
    /\ chainHeight' = blk[a].height
    /\ addedBy' = Append(addedBy, Thread(a))
    /\ lastNonce' = [x \in Sender |->
                        IF a = "sync" THEN lastNonce[x]
                        ELSE HighestNonce(x, lastNonce[x], blk[a].txs, Checked)]
    /\ Goto(a, "save")
    /\ UNCHANGED <<disk, unsaved, storeVars, miningVars, mempool, blk, rest, replay, rpc, made>>

\* The locked part of add_block.
AppendBlock(a) ==
    /\ pc[a] = "append"
    /\ chain' = Append(chain, blk[a])
    /\ chainHeight' = blk[a].height
    /\ addedBy' = Append(addedBy, Thread(a))
    /\ lastNonce' = [x \in Sender |-> HighestNonce(x, lastNonce[x], blk[a].txs, Checked)]
    /\ Goto(a, "save")
    /\ UNCHANGED <<disk, unsaved, storeVars, miningVars, mempool, blk, rest, replay, rpc, made>>

Saved(a) == IF a \in Loop THEN "credit" ELSE IF a = "peer" THEN "accepted" ELSE "idle"

\* Faulty: the blocks of peers are not saved.
SaveSkipsPeer(a) ==
    /\ pc[a] = "save"
    /\ disk' = IF a = "peer" THEN disk
               ELSE [h \in DOMAIN disk \cup {blk[a].height} |->
                        IF h = blk[a].height THEN blk[a] ELSE disk[h]]
    /\ Goto(a, Saved(a))
    /\ UNCHANGED <<chain, chainHeight, lastNonce, addedBy, unsaved, storeVars, miningVars,
                   mempool, blk, rest, replay, rpc, made>>

\* _save_block: INSERT OR REPLACE keyed by height.
SaveBlock(a) ==
    /\ pc[a] = "save"
    /\ disk' = [h \in DOMAIN disk \cup {blk[a].height} |->
                   IF h = blk[a].height THEN blk[a] ELSE disk[h]]
    /\ Goto(a, Saved(a))
    /\ UNCHANGED <<chain, chainHeight, lastNonce, addedBy, unsaved, storeVars, miningVars,
                   mempool, blk, rest, replay, rpc, made>>

\* Its exception is swallowed and its result not looked at: all goes on.
SaveFails(a) ==
    /\ pc[a] = "save" /\ Cardinality(unsaved) < MaxFaults
    /\ unsaved' = unsaved \cup {blk[a].height}
    /\ Goto(a, Saved(a))
    /\ UNCHANGED <<chain, chainHeight, disk, lastNonce, addedBy, storeVars, miningVars,
                   mempool, blk, rest, replay, rpc, made>>

\* Faulty: the handler stops after the coinbase.
CreditOnly(a) ==
    /\ pc[a] = "credit"
    /\ credited' = credited \cup {blk[a].height}
    /\ Goto(a, IF a \in Loop THEN "check" ELSE "idle")
    /\ UNCHANGED <<chainVars, spentBy, recorded, miningVars, mempool, blk, rest,
                   replay, rpc, made>>

\* on_block_mined and handle_new_block: the coinbase.  A handler goes on to
\* replay the block's transactions; a mining loop does not.
Credit(a) ==
    /\ pc[a] = "credit"
    /\ credited' = credited \cup {blk[a].height}
    /\ Goto(a, IF a \in Loop THEN "check" ELSE "replay")
    /\ replay' = IF a \in Loop THEN replay ELSE blk[a].txs
    /\ UNCHANGED <<chainVars, spentBy, recorded, miningVars, mempool, blk, rest, rpc, made>>

-----------------------------------------------------------------------------
(* The P2P handlers. *)

\* What an honest peer may send: a block on our tip, or on a fork of the
\* same height, with transactions that are not on the chain it extends.
PeerBlocks ==
    {[height |-> Tip.height + 1, hash |-> made + 1, prev |-> p, txs |-> s] :
        p \in {Tip.hash, 0},
        s \in {<<>>} \cup {<<[tx |-> t, nonce |-> NonceOf[t]]>> :
                           t \in Foreign \ OnChain}}

HandlersIdle == pc["peer"] = "idle" /\ pc["sync"] = "idle"

\* Faulty: each handler waits for its own add_block only.
ArrivesAnyway(a) ==
    /\ Peers /\ pc[a] = "idle" /\ made < MaxBlocks
    /\ \E b \in PeerBlocks : blk' = [blk EXCEPT ![a] = b]
    /\ made' = made + 1
    /\ Goto(a, "validate")

Arrives(a) ==
    /\ Peers /\ HandlersIdle /\ made < MaxBlocks
    /\ \E b \in PeerBlocks : blk' = [blk EXCEPT ![a] = b]
    /\ made' = made + 1
    /\ Goto(a, "validate")

\* receive_block_from_peer: a block of the expected height interrupts mining.
NewBlockArrives ==
    /\ Arrives("peer")
    /\ stopMining' = TRUE
    /\ UNCHANGED <<chainVars, storeVars, isMining, commands, mempool, rest,
                   replay, rpc>>

\* ... and mining is to go on when the block has been added or refused.
ResumeMining ==
    /\ pc["peer"] \in {"accepted", "resume"}
    /\ stopMining' = FALSE
    /\ Goto("peer", IF pc["peer"] = "accepted" THEN "credit" ELSE "idle")
    /\ UNCHANGED <<chainVars, storeVars, isMining, commands, mempool, blk,
                   rest, replay, rpc, made>>

\* handle_new_block's loop over replay_transfer_from_block: skip what is on
\* record or says it is a coinbase, drop what conflicts.
ReplayOne ==
    /\ pc["peer"] = "replay" /\ replay # <<>>
    /\ LET t == Head(replay).tx IN
       IF t \in recorded \cup Coinbase \/ spentBy[InputOf[t]] # NoTx
       THEN UNCHANGED <<spentBy, recorded>>
       ELSE /\ spentBy' = [spentBy EXCEPT ![InputOf[t]] = t]
            /\ recorded' = recorded \cup {t}
    /\ replay' = Tail(replay)
    /\ UNCHANGED <<chainVars, credited, miningVars, mempool, pc, blk, rest, rpc, made>>

ReplayDone ==
    /\ pc["peer"] = "replay" /\ replay = <<>>
    /\ Goto("peer", "idle")
    /\ UNCHANGED <<chainVars, storeVars, miningVars, mempool, blk, rest, replay, rpc, made>>

\* handle_blocks: a synced block goes through add_block and nothing else.
SyncBlockArrives ==
    /\ Sync /\ Arrives("sync")
    /\ UNCHANGED <<chainVars, storeVars, miningVars, mempool, rest, replay, rpc>>

-----------------------------------------------------------------------------
(* The mempool and the RPC thread. *)

\* add_transaction, its locked part: no duplicate; a nonce, where there is
\* one to check, above the confirmed and the pending ones.
PendingNonce(x) == HighestNonce(x, lastNonce[x], mempool, Counted)

\* Faulty: nonces are not compared.
AcceptsAnyNonce(t, n) == \A i \in DOMAIN mempool : mempool[i].tx # t

Accepts(t, n) ==
    /\ \A i \in DOMAIN mempool : mempool[i].tx # t
    /\ t \in Checked => n > PendingNonce(SenderOf(t))

\* handle_new_tx: the network may deliver a transaction more than once.
GossipTx ==
    /\ \E t \in Foreign :
           /\ Accepts(t, NonceOf[t])
           /\ mempool' = Append(mempool, [tx |-> t, nonce |-> NonceOf[t]])
    /\ UNCHANGED <<chainVars, storeVars, miningVars, pc, blk, rest, replay, rpc, made>>

\* Faulty: the coin is recorded instead of the transaction.
RpcTransferRecordsCoin ==
    /\ rpc.at = "idle"
    /\ \E t \in Own :
           /\ t \notin recorded /\ spentBy[InputOf[t]] = NoTx
           /\ spentBy' = [spentBy EXCEPT ![InputOf[t]] = t]
           /\ recorded' = recorded \cup {InputOf[t]}
           /\ rpc' = [at |-> "nonce", tx |-> t, nonce |-> 0]
    /\ UNCHANGED <<chainVars, credited, miningVars, mempool, pc, blk, rest, replay, made>>

\* sendTransaction: the transfer is committed to the UTXO store first ...
RpcTransfer ==
    /\ rpc.at = "idle"
    /\ \E t \in Own :
           /\ t \notin recorded /\ spentBy[InputOf[t]] = NoTx
           /\ spentBy' = [spentBy EXCEPT ![InputOf[t]] = t]
           /\ recorded' = recorded \cup {t}
           /\ rpc' = [at |-> "nonce", tx |-> t, nonce |-> 0]
    /\ UNCHANGED <<chainVars, credited, miningVars, mempool, pc, blk, rest, replay, made>>

\* ... then it takes a nonce ...
RpcGetNonce ==
    /\ rpc.at = "nonce" /\ PendingNonce("own") < MaxNonce
    /\ rpc' = [rpc EXCEPT !.at = "submit", !.nonce = PendingNonce("own") + 1]
    /\ UNCHANGED <<chainVars, storeVars, miningVars, mempool, pc, blk, rest, replay, made>>

\* Faulty: the node's own transfers jump the queue.
RpcSubmitFirst ==
    /\ rpc.at = "submit"
    /\ mempool' = IF Accepts(rpc.tx, rpc.nonce)
                  THEN <<[tx |-> rpc.tx, nonce |-> rpc.nonce]>> \o mempool
                  ELSE mempool
    /\ rpc' = [at |-> "idle", tx |-> NoTx, nonce |-> 0]
    /\ UNCHANGED <<chainVars, storeVars, miningVars, pc, blk, rest, replay, made>>

\* ... and submits the transaction; a refusal is only logged.
RpcSubmit ==
    /\ rpc.at = "submit"
    /\ mempool' = IF Accepts(rpc.tx, rpc.nonce)
                  THEN Append(mempool, [tx |-> rpc.tx, nonce |-> rpc.nonce])
                  ELSE mempool
    /\ rpc' = [at |-> "idle", tx |-> NoTx, nonce |-> 0]
    /\ UNCHANGED <<chainVars, storeVars, miningVars, pc, blk, rest, replay, made>>

\* start_mining: a new thread, whether or not another one runs.
StartMining ==
    /\ rpc.at = "idle" /\ commands < Commands
    /\ \E l \in Loop : pc[l] = "off" /\ Goto(l, "check")
    /\ isMining' = TRUE /\ stopMining' = FALSE
    /\ commands' = commands + 1
    /\ UNCHANGED <<chainVars, storeVars, mempool, blk, rest, replay, rpc, made>>

\* _mining_stop.
StopMining ==
    /\ rpc.at = "idle" /\ commands < Commands
    /\ stopMining' = TRUE /\ isMining' = FALSE
    /\ commands' = commands + 1
    /\ UNCHANGED <<chainVars, storeVars, mempool, pc, blk, rest, replay, rpc, made>>

-----------------------------------------------------------------------------

MinerStep(l) ==
    LoopCheck(l) \/ CreateBlock(l) \/ MineSucceeds(l) \/ MineFails(l)
        \/ CopyRest(l) \/ StoreRest(l)

AddStep(a) ==
    \/ Validate(a) \/ ValidateTxs(a) \/ AppendBlock(a)
    \/ SaveBlock(a) \/ SaveFails(a) \/ Credit(a)

PeerStep == NewBlockArrives \/ SyncBlockArrives \/ ResumeMining \/ ReplayOne \/ ReplayDone

RpcStep == RpcTransfer \/ RpcGetNonce \/ RpcSubmit \/ StartMining \/ StopMining

Next ==
    \/ \E l \in Loop : MinerStep(l)
    \/ \E a \in Adder : AddStep(a)
    \/ PeerStep \/ RpcStep \/ GossipTx

\* Each thread goes on once it has begun; messages and commands may stop.
Fairness ==
    /\ \A l \in Loop : WF_vars(MinerStep(l) \/ AddStep(l))
    /\ WF_vars(AddStep("peer") \/ ResumeMining \/ ReplayOne \/ ReplayDone)
    /\ WF_vars(AddStep("sync"))
    /\ WF_vars(RpcGetNonce \/ RpcSubmit)

Spec == Init /\ [][Next]_vars /\ Fairness
-----------------------------------------------------------------------------
(* Properties. *)

TypeOK ==
    /\ \A i \in DOMAIN chain : chain[i].height \in Nat /\ TxsOf(chain[i]) \subseteq Tx
    /\ chainHeight \in Nat /\ lastNonce \in [Sender -> -1 .. MaxNonce]
    /\ DOMAIN spentBy = Coin /\ \A c \in Coin : spentBy[c] \in Tx \cup {NoTx}
    /\ recorded \subseteq Tx /\ \A i \in DOMAIN mempool : mempool[i].tx \in Tx
    /\ stopMining \in BOOLEAN /\ isMining \in BOOLEAN

\* add_block validates before it locks, so the chain may fork under it; but
\* each block extends one that was the last when it was validated, and all
\* that came in between was appended by other threads: no thread ever forks
\* off its own blocks, and a thread that is alone builds a chain.
ForksAreRaces ==
    \A j \in 2 .. Len(chain) :
        \E p \in 1 .. j - 1 :
            /\ chain[j].height = chain[p].height + 1 /\ chain[j].prev = chain[p].hash
            /\ \A k \in p + 1 .. j - 1 : addedBy[k] # addedBy[j]

\* What a restart would load: the rows are blocks of the chain, each under
\* its height, whatever the order in which threads saved them; and a height
\* of the chain without a row is being saved, or its save failed.
Saving == {blk[a].height : a \in {b \in Adder : pc[b] = "save"}}
DiskFollowsChain ==
    /\ \A h \in DOMAIN disk : \E i \in DOMAIN chain : chain[i] = disk[h] /\ chain[i].height = h
    /\ \A i \in DOMAIN chain : chain[i].height \in DOMAIN disk \cup Saving \cup unsaved

\* No transaction is twice in the mempool, and one whose nonce is checked is
\* above all that were seen before it of its sender, whatever the loops cut
\* off, the network redelivers and other transactions carry for a nonce.
MempoolOrdered ==
    \A i, j \in DOMAIN mempool : i < j =>
        /\ mempool[i].tx # mempool[j].tx
        /\ (/\ SenderOf(mempool[i].tx) = SenderOf(mempool[j].tx)
            /\ mempool[i].tx \in Counted /\ mempool[j].tx \in Checked)
               => mempool[i].nonce < mempool[j].nonce

\* What a loop has yet to cut off the mempool is its block's transactions,
\* still at the front: appends and refusals elsewhere never move them.
InFlightAtFront ==
    \A l \in Loop : pc[l] \in {"mine", "slice"} => IsPrefix(blk[l].txs, mempool)

\* The confirmed nonces are those of the chain, whoever appended to it and
\* in whatever form its transactions carry them.
NoncesFollowChain ==
    \A x \in Sender :
        lastNonce[x] = Max({-1} \cup UNION {NoncesIn(x, chain[i].txs, Checked) : i \in DOMAIN chain})

\* A coinbase is credited only for a height that the chain has reached.
CreditedOnChain == credited \subseteq {chain[i].height : i \in DOMAIN chain}

\* What peers confirm reaches the UTXO store: a foreign transaction on the
\* chain is replayed in the end, or its coin went to another transaction.
EventuallyAccounted ==
    \A t \in Foreign \ Coinbase :
        t \in OnChain ~> (t \in recorded \/ spentBy[InputOf[t]] \notin {NoTx, t})
=============================================================================
