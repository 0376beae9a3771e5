-------------------------- MODULE MiningNode_proofs --------------------------
(***************************************************************************)
(* TLAPS proofs about MiningNode, for every set of mining loops, of        *)
(* transactions and every bound.                                           *)
(*                                                                         *)
(* No theorem but the last assumes any exclusion between the threads that  *)
(* add blocks.  A block is credited by the thread that appended it, and    *)
(* the chain only grows.  The locked part of add_block moves the nonces    *)
(* with the chain, and a loop cuts the mempool to a tail of what it was.   *)
(* What validate_block saw may be stale when the block is appended, but    *)
(* only by what other threads appended in between (Fits), and what they    *)
(* append or fail to save they had in hand (InHand).  InFlightAtFront      *)
(* needs that one loop at most cuts the mempool (OneLoop); peers may send  *)
(* what they like.                                                         *)
(***************************************************************************)
EXTENDS MiningNode, SumTheorems, SequenceTheorems

\* A sequence, of whatever.
IsSeq(s) == s \in Seq({s[i] : i \in 1 .. Len(s)})

Heights == {chain[i].height : i \in DOMAIN chain}

\* What is appended is the last, and the rest is as it was.
LEMMA Appended ==
    ASSUME NEW s, IsSeq(s), NEW e
    PROVE  LET t == Append(s, e) IN
           /\ IsSeq(t) /\ Len(t) = Len(s) + 1 /\ DOMAIN t = 1 .. (Len(s) + 1)
           /\ DOMAIN s = 1 .. Len(s) /\ Len(s) \in Nat
           /\ \A i \in 1 .. Len(s) : t[i] = s[i]
           /\ t[Len(s) + 1] = e /\ Last(t) = e
<1> DEFINE S == {s[i] : i \in 1 .. Len(s)}
           T == S \cup {e}
           t == Append(s, e)
<1>1. s \in Seq(S)
  BY DEF IsSeq
<1>2. s \in Seq(T) /\ e \in T
  <2>1. S \subseteq T /\ e \in T
    OBVIOUS
  <2> HIDE DEF S, T
  <2> QED
    BY <1>1, <2>1
<1> HIDE DEF T, S
<1>3. /\ t \in Seq(T) /\ Len(t) = Len(s) + 1 /\ DOMAIN t = 1 .. (Len(s) + 1)
      /\ DOMAIN s = 1 .. Len(s) /\ Len(s) \in Nat
      /\ \A i \in 1 .. Len(s) : t[i] = s[i]
      /\ t[Len(s) + 1] = e
  BY <1>2
<1>4. t \in Seq({t[i] : i \in 1 .. Len(t)})
  BY <1>3
<1>5. Last(t) = e
  BY <1>3 DEF Last
<1> QED
  BY <1>3, <1>4, <1>5 DEF IsSeq

Shape ==
    /\ IsSeq(chain) /\ Len(chain) >= 1
    /\ pc = [a \in Adder |-> pc[a]] /\ blk = [a \in Adder |-> blk[a]]

-----------------------------------------------------------------------------
(* Coinbases. *)

\* Where the block of an adder is on the chain.
Added == {"save", "accepted", "credit"}

Credits ==
    /\ credited \subseteq Heights
    /\ \A a \in Adder : pc[a] \in Added => blk[a].height \in Heights

\* An adder goes on with a block, and the chain and the coinbases are as before.
LEMMA Elsewhere ==
    ASSUME Shape, Credits, NEW a \in Adder, NEW label, NEW b,
           pc' = [pc EXCEPT ![a] = label], blk' = [blk EXCEPT ![a] = b],
           UNCHANGED <<chain, credited>>,
           label \in Added => pc[a] \in Added /\ b = blk[a]
    PROVE  Shape' /\ Credits'
<1>1. /\ pc' = [x \in Adder |-> pc'[x]] /\ blk' = [x \in Adder |-> blk'[x]]
      /\ pc'[a] = label /\ blk'[a] = b
      /\ \A x \in Adder \ {a} : pc'[x] = pc[x] /\ blk'[x] = blk[x]
  BY DEF Shape
<1>2. Heights' = Heights
  BY DEF Heights
<1>3. Shape'
  BY <1>1 DEF Shape, IsSeq
<1> QED
  BY <1>1, <1>2, <1>3 DEF Credits

\* ... with the same block.
LEMMA Onward ==
    ASSUME Shape, Credits, NEW a \in Adder, NEW label,
           pc' = [pc EXCEPT ![a] = label], UNCHANGED <<chain, blk, credited>>,
           label \in Added => pc[a] \in Added
    PROVE  Shape' /\ Credits'
<1>1. PICK b : b = blk[a]
  OBVIOUS
<1>2. blk' = [blk EXCEPT ![a] = b]
  BY <1>1 DEF Shape
<1> QED
  BY <1>1, <1>2, Elsewhere

\* A step of no adder.
LEMMA Aside ==
    ASSUME Shape, Credits, UNCHANGED <<chain, pc, blk, credited>>
    PROVE  Shape' /\ Credits'
BY DEF Shape, Credits, Heights, IsSeq

LEMMA MinerCredits ==
    ASSUME Shape, Credits, NEW l \in Loop, MinerStep(l)
    PROVE  Shape' /\ Credits'
<1>0. l \in Adder
  BY DEF Adder
<1>1. CASE LoopCheck(l) \/ MineFails(l) \/ CopyRest(l) \/ StoreRest(l)
  <2>1. PICK label \in {"off", "create", "check", "store", "validate"} :
            pc' = [pc EXCEPT ![l] = label]
    BY <1>1 DEF LoopCheck, MineFails, CopyRest, StoreRest, Goto
  <2>2. UNCHANGED <<chain, blk, credited>>
    BY <1>1 DEF LoopCheck, MineFails, CopyRest, StoreRest, chainVars, storeVars
  <2> QED
    BY <1>0, <2>1, <2>2, Onward DEF Added
<1>2. CASE CreateBlock(l) \/ MineSucceeds(l)
  <2>1. PICK label \in {"mine", "slice"} : pc' = [pc EXCEPT ![l] = label]
    BY <1>2 DEF CreateBlock, MineSucceeds, Goto
  <2>2. \E b : blk' = [blk EXCEPT ![l] = b]
    BY <1>2 DEF CreateBlock, MineSucceeds
  <2>3. UNCHANGED <<chain, credited>>
    BY <1>2 DEF CreateBlock, MineSucceeds, chainVars, storeVars
  <2> QED
    BY <1>0, <2>1, <2>2, <2>3, Elsewhere DEF Added
<1> QED
  BY <1>1, <1>2 DEF MinerStep

LEMMA AppendCredits ==
    ASSUME Shape, Credits, NEW a \in Adder, AppendBlock(a)
    PROVE  Shape' /\ Credits'
<1>1. /\ chain' = Append(chain, blk[a]) /\ pc' = [pc EXCEPT ![a] = "save"]
      /\ UNCHANGED <<blk, credited>>
  BY DEF AppendBlock, Goto, storeVars
<1>2. /\ IsSeq(chain') /\ Len(chain') = Len(chain) + 1 /\ Len(chain) \in Nat
      /\ DOMAIN chain' = 1 .. (Len(chain) + 1) /\ DOMAIN chain = 1 .. Len(chain)
      /\ \A i \in 1 .. Len(chain) : chain'[i] = chain[i]
      /\ chain'[Len(chain) + 1] = blk[a]
  BY <1>1, Appended DEF Shape
<1>3. Heights \subseteq Heights' /\ blk[a].height \in Heights'
  BY <1>2 DEF Heights
<1>4. pc' = [x \in Adder |-> pc'[x]] /\ \A x \in Adder \ {a} : pc'[x] = pc[x]
  BY <1>1 DEF Shape
<1>5. Shape'
  BY <1>1, <1>2, <1>4 DEF Shape
<1> QED
  BY <1>1, <1>3, <1>4, <1>5 DEF Credits

LEMMA AddCredits ==
    ASSUME Shape, Credits, NEW a \in Adder, AddStep(a)
    PROVE  Shape' /\ Credits'
<1>1. CASE Validate(a) \/ ValidateTxs(a)
  <2>1. PICK label \in {"validateTxs", "append", "check", "resume", "idle"} :
            pc' = [pc EXCEPT ![a] = label]
    BY <1>1 DEF Validate, ValidateTxs, Goto, Rejected
  <2>2. UNCHANGED <<chain, blk, credited>>
    BY <1>1 DEF Validate, ValidateTxs, chainVars, storeVars
  <2> QED
    BY <2>1, <2>2, Onward DEF Added
<1>2. CASE AppendBlock(a)
  BY <1>2, AppendCredits
<1>3. CASE SaveBlock(a) \/ SaveFails(a)
  <2>1. PICK label : pc' = [pc EXCEPT ![a] = label]
    BY <1>3 DEF SaveBlock, SaveFails, Goto
  <2>2. pc[a] \in Added /\ UNCHANGED <<chain, blk, credited>>
    BY <1>3 DEF SaveBlock, SaveFails, storeVars, Added
  <2> QED
    BY <2>1, <2>2, Onward
<1>4. CASE Credit(a)
  <2>1. PICK label \in {"check", "replay"} : pc' = [pc EXCEPT ![a] = label]
    BY <1>4 DEF Credit, Goto
  <2>2. /\ pc[a] = "credit" /\ credited' = credited \cup {blk[a].height}
        /\ UNCHANGED <<chain, blk>>
    BY <1>4 DEF Credit, chainVars
  <2>3. Heights' = Heights /\ blk[a].height \in Heights
    BY <2>2 DEF Heights, Credits, Added
  <2>4. pc' = [x \in Adder |-> pc'[x]] /\ pc'[a] = label /\ \A x \in Adder \ {a} : pc'[x] = pc[x]
    BY <2>1 DEF Shape
  <2>5. Shape'
    BY <2>2, <2>4 DEF Shape, IsSeq
  <2> QED
    BY <2>2, <2>3, <2>4, <2>5 DEF Credits, Added
<1> QED
  BY <1>1, <1>2, <1>3, <1>4 DEF AddStep

LEMMA OtherCredits ==
    ASSUME Shape, Credits, PeerStep \/ RpcStep \/ GossipTx \/ UNCHANGED vars
    PROVE  Shape' /\ Credits'
<1>0. "peer" \in Adder /\ "sync" \in Adder
  BY DEF Adder
<1>1. CASE NewBlockArrives \/ SyncBlockArrives
  <2>1. PICK a \in {"peer", "sync"} : Arrives(a)
    BY <1>1 DEF NewBlockArrives, SyncBlockArrives
  <2>2. PICK b : blk' = [blk EXCEPT ![a] = b]
    BY <2>1 DEF Arrives
  <2>3. pc' = [pc EXCEPT ![a] = "validate"]
    BY <2>1 DEF Arrives, Goto
  <2>4. UNCHANGED <<chain, credited>>
    BY <1>1 DEF NewBlockArrives, SyncBlockArrives, chainVars, storeVars
  <2> QED
    BY <1>0, <2>2, <2>3, <2>4, Elsewhere DEF Added
<1>2. CASE ResumeMining
  <2>1. PICK label : label = IF pc["peer"] = "accepted" THEN "credit" ELSE "idle"
    OBVIOUS
  <2>3. pc' = [pc EXCEPT !["peer"] = label] /\ (label \in Added => pc["peer"] \in Added)
    BY <1>2, <2>1 DEF ResumeMining, Goto, Added
  <2>2. UNCHANGED <<chain, blk, credited>>
    BY <1>2 DEF ResumeMining, chainVars, storeVars
  <2> QED
    BY <1>0, <2>2, <2>3, Onward
<1>3. CASE ReplayDone
  <2>1. pc' = [pc EXCEPT !["peer"] = "idle"] /\ UNCHANGED <<chain, blk, credited>>
    BY <1>3 DEF ReplayDone, Goto, chainVars, storeVars
  <2> QED
    BY <1>0, <2>1, Onward DEF Added
<1>4. CASE StartMining
  <2>1. PICK l \in Loop : pc' = [pc EXCEPT ![l] = "check"]
    BY <1>4 DEF StartMining, Goto
  <2>2. UNCHANGED <<chain, blk, credited>> /\ l \in Adder
    BY <1>4 DEF StartMining, chainVars, storeVars, Adder
  <2> QED
    BY <2>1, <2>2, Onward DEF Added
<1>5. CASE ReplayOne \/ RpcTransfer \/ RpcGetNonce \/ RpcSubmit \/ StopMining \/ GossipTx
             \/ UNCHANGED vars
  <2>1. UNCHANGED <<chain, pc, blk, credited>>
    BY <1>5 DEF ReplayOne, RpcTransfer, RpcGetNonce, RpcSubmit, StopMining, GossipTx, vars,
                chainVars, storeVars
  <2> QED
    BY <2>1, Aside
<1> QED
  BY <1>1, <1>2, <1>3, <1>4, <1>5 DEF PeerStep, RpcStep

LEMMA InitCredits == Init => Shape /\ Credits
<1> SUFFICES ASSUME Init PROVE Shape /\ Credits
  OBVIOUS
<1>1. chain = <<Genesis>> /\ IsSeq(chain) /\ Len(chain) = 1
  BY DEF Init, IsSeq
<1> QED
  BY <1>1 DEF Init, Shape, Credits, Added

\* The chain is a sequence, and whoever is about to credit a block has it there.
THEOREM ShapeHolds == Spec => [](Shape /\ Credits)
<1>1. Shape /\ Credits /\ [Next]_vars => Shape' /\ Credits'
  BY MinerCredits, AddCredits, OtherCredits DEF Next
<1> QED
  BY InitCredits, <1>1, PTL DEF Spec

\* A coinbase is credited only for a height that the chain has reached, with
\* any number of mining loops racing each other and the P2P handlers.
THEOREM CreditsOnChain == Spec => []CreditedOnChain
<1>1. Shape /\ Credits => CreditedOnChain
  BY DEF Credits, CreditedOnChain, Heights
<1> QED
  BY <1>1, ShapeHolds, PTL

-----------------------------------------------------------------------------
(* The chain and the disk, with any number of threads adding blocks. *)

\* A block in hand extends one on the chain, and since that one was the last
\* the thread has appended nothing.
Extends(b, c) == b.height = c.height + 1 /\ b.prev = c.hash
Fits(a, b) ==
    \E p \in 1 .. Len(chain) :
        Extends(b, chain[p]) /\ \A k \in p + 1 .. Len(chain) : addedBy[k] # Thread(a)

OneHandler == pc["peer"] = "idle" \/ pc["sync"] = "idle"
Fitting == \A a \in Adder : pc[a] \in {"validateTxs", "append"} => Fits(a, blk[a])
InHand == \A a \in Adder : pc[a] = "save" => \E i \in DOMAIN chain : chain[i] = blk[a]
Appenders ==
    /\ IsSeq(addedBy) /\ Len(addedBy) = Len(chain)
    /\ chainHeight = chain[Len(chain)].height

Braided ==
    /\ OneHandler /\ Fitting /\ InHand /\ Appenders
    /\ ForksAreRaces /\ DiskFollowsChain

chainAsWas == UNCHANGED <<chain, chainHeight, disk, addedBy, unsaved>>

LEMMA InitBraided == Init => Braided
<1> SUFFICES ASSUME Init PROVE Braided
  OBVIOUS
<1>1. /\ chain = <<Genesis>> /\ Len(chain) = 1 /\ chain[1] = Genesis /\ DOMAIN chain = {1}
      /\ addedBy = <<"p2p">> /\ Len(addedBy) = 1 /\ DOMAIN disk = {0} /\ disk[0] = Genesis
  BY DEF Init
<1>2. \A a \in Adder : pc[a] \in {"idle", "off"}
  BY DEF Init
<1>3. OneHandler
  BY MiningNodeAssumption DEF Init, OneHandler, Adder
<1>4. Appenders
  <2>1. IsSeq(addedBy)
    BY <1>1 DEF IsSeq
  <2> QED
    BY <1>1, <2>1 DEF Init, Appenders, Genesis
<1>5. Fitting /\ InHand
  BY <1>2 DEF Fitting, InHand
<1>6. ForksAreRaces
  BY <1>1 DEF ForksAreRaces
<1>7. DiskFollowsChain
  BY <1>1 DEF DiskFollowsChain, Genesis
<1> QED
  BY <1>3, <1>4, <1>5, <1>6, <1>7 DEF Braided

\* An adder moves, and neither appends nor saves; a handler that wakes finds
\* both at rest.
LEMMA Moves ==
    ASSUME Shape, Braided, NEW a \in Adder, NEW label, NEW b,
           pc' = [pc EXCEPT ![a] = label], blk' = [blk EXCEPT ![a] = b], chainAsWas,
           label # "save", pc[a] # "save",
           label \in {"validateTxs", "append"} => Fits(a, b),
           \/ a \in Loop \/ label = "idle" \/ pc[a] # "idle"
           \/ pc["peer"] = "idle" /\ pc["sync"] = "idle"
    PROVE  Braided'
<1>1. /\ pc'[a] = label /\ blk'[a] = b
      /\ \A x \in Adder \ {a} : pc'[x] = pc[x] /\ blk'[x] = blk[x]
  BY DEF Shape
<1>2. {"peer", "sync"} \subseteq Adder /\ Loop \cap {"peer", "sync"} = {}
  BY MiningNodeAssumption DEF Adder
<1>3. OneHandler'
  BY <1>1, <1>2 DEF Braided, OneHandler
<1>4. Appenders'
  BY DEF Braided, Appenders, chainAsWas, IsSeq
<1>5. Fitting'
  <2>1. ASSUME NEW x \in Adder, pc'[x] \in {"validateTxs", "append"} PROVE Fits(x, blk'[x])
    BY <1>1, <2>1 DEF Braided, Fitting
  <2> QED
    BY <2>1 DEF Fitting, Fits, chainAsWas
<1>6. InHand'
  BY <1>1 DEF Braided, InHand, chainAsWas
<1>7. ForksAreRaces'
  BY DEF Braided, ForksAreRaces, chainAsWas
<1>8. DiskFollowsChain'
  <2>1. Saving' = Saving
    BY <1>1 DEF Saving
  <2> QED
    BY <2>1 DEF Braided, DiskFollowsChain, chainAsWas
<1> QED
  BY <1>3, <1>4, <1>5, <1>6, <1>7, <1>8 DEF Braided

\* ... with the same block.
LEMMA Keeps ==
    ASSUME Shape, Braided, NEW a \in Adder, NEW label,
           pc' = [pc EXCEPT ![a] = label], blk' = blk, chainAsWas,
           label # "save", pc[a] # "save",
           label \in {"validateTxs", "append"} => Fits(a, blk[a]),
           a \in Loop \/ label = "idle" \/ pc[a] # "idle"
    PROVE  Braided'
<1>1. PICK b : b = blk[a]
  OBVIOUS
<1>2. blk' = [blk EXCEPT ![a] = b]
  BY <1>1 DEF Shape
<1> QED
  BY <1>1, <1>2, Moves

LEMMA MinerBraided ==
    ASSUME Shape, Braided, NEW l \in Loop, MinerStep(l)
    PROVE  Braided'
<1>0. l \in Adder
  BY DEF Adder
<1>1. CASE LoopCheck(l) \/ MineFails(l) \/ CopyRest(l) \/ StoreRest(l)
  <2>1. PICK label \in {"off", "create", "check", "store", "validate"} :
            pc' = [pc EXCEPT ![l] = label]
    BY <1>1 DEF LoopCheck, MineFails, CopyRest, StoreRest, Goto
  <2>2. chainAsWas /\ blk' = blk /\ pc[l] \in {"check", "mine", "slice", "store"}
    BY <1>1 DEF LoopCheck, MineFails, CopyRest, StoreRest, chainVars, chainAsWas
  <2> QED
    BY <1>0, <2>1, <2>2, Keeps
<1>2. CASE CreateBlock(l) \/ MineSucceeds(l)
  <2>1. PICK label \in {"mine", "slice"} : pc' = [pc EXCEPT ![l] = label]
    BY <1>2 DEF CreateBlock, MineSucceeds, Goto
  <2>2. PICK b : blk' = [blk EXCEPT ![l] = b]
    BY <1>2 DEF CreateBlock, MineSucceeds
  <2>3. chainAsWas /\ pc[l] \in {"create", "mine"}
    BY <1>2 DEF CreateBlock, MineSucceeds, chainVars, chainAsWas
  <2> QED
    BY <1>0, <2>1, <2>2, <2>3, Moves
<1> QED
  BY <1>1, <1>2 DEF MinerStep

\* While an adder is inside add_block, no other adder is of the same thread.
LEMMA Threads ==
    ASSUME Braided, NEW a \in Adder, NEW b \in Adder, a # b,
           pc[a] \notin {"idle"}, pc[b] \notin {"idle"}
    PROVE  Thread(a) # Thread(b)
<1>1. Adder = Loop \cup {"peer", "sync"} /\ Loop \cap {"peer", "sync", "p2p"} = {}
  BY MiningNodeAssumption DEF Adder
<1>2. a \in Loop \/ b \in Loop
  BY <1>1 DEF Braided, OneHandler
<1> QED
  BY <1>1, <1>2 DEF Thread

\* The appended block extends what it was validated against, and the blocks
\* in the hands of other threads still do.
LEMMA AppendBraided ==
    ASSUME Shape, Braided, NEW a \in Adder, AppendBlock(a)
    PROVE  Braided'
<1> DEFINE n == Len(chain)
<1>1. /\ chain' = Append(chain, blk[a]) /\ pc' = [pc EXCEPT ![a] = "save"]
      /\ chainHeight' = blk[a].height /\ UNCHANGED <<blk, disk, unsaved>> /\ pc[a] = "append"
      /\ addedBy' = Append(addedBy, Thread(a))
  BY DEF AppendBlock, Goto
<1>2. /\ Len(chain') = n + 1 /\ n \in Nat /\ n >= 1
      /\ DOMAIN chain = 1 .. n /\ DOMAIN chain' = 1 .. (n + 1)
      /\ \A i \in 1 .. n : chain'[i] = chain[i]
      /\ chain'[n + 1] = blk[a]
  BY <1>1, Appended DEF Shape
<1>3. /\ IsSeq(addedBy') /\ Len(addedBy') = n + 1
      /\ \A i \in 1 .. n : addedBy'[i] = addedBy[i]
      /\ addedBy'[n + 1] = Thread(a)
  BY <1>1, Appended DEF Braided, Appenders
<1>4. pc'[a] = "save" /\ \A x \in Adder \ {a} : pc'[x] = pc[x]
  BY <1>1 DEF Shape
<1>5. OneHandler'
  BY <1>1, <1>4 DEF Braided, OneHandler, Adder
<1>6. Appenders'
  BY <1>1, <1>2, <1>3 DEF Appenders
<1>7. Fitting'
  <2>1. SUFFICES ASSUME NEW x \in Adder, pc'[x] \in {"validateTxs", "append"}
                 PROVE  Fits(x, blk[x])'
    BY <1>1 DEF Fitting
  <2>2. x # a /\ pc[x] \in {"validateTxs", "append"}
    BY <1>4, <2>1
  <2>3. Thread(a) # Thread(x)
    BY <1>1, <2>2, Threads
  <2>4. PICK p \in 1 .. n : /\ Extends(blk[x], chain[p])
                            /\ \A k \in p + 1 .. n : addedBy[k] # Thread(x)
    BY <2>2 DEF Braided, Fitting, Fits
  <2>5. p \in 1 .. (n + 1) /\ Extends(blk'[x], chain'[p])
    BY <1>1, <1>2, <2>4 DEF Extends
  <2>6. ASSUME NEW k \in p + 1 .. (n + 1) PROVE addedBy'[k] # Thread(x)
    <3>1. k = n + 1 \/ (k \in p + 1 .. n /\ k \in 1 .. n)
      BY <1>2
    <3> QED
      BY <1>3, <2>3, <2>4, <3>1
  <2> QED
    BY <1>2, <2>5, <2>6 DEF Fits, Extends, Thread
<1>8. InHand'
  <2>1. ASSUME NEW x \in Adder, pc'[x] = "save"
        PROVE  \E i \in DOMAIN chain' : chain'[i] = blk'[x]
    BY <1>1, <1>2, <1>4, <2>1 DEF Braided, InHand
  <2> QED
    BY <2>1 DEF InHand
<1>9. ForksAreRaces'
  <2>1. SUFFICES ASSUME NEW j \in 2 .. (n + 1)
                 PROVE  \E p \in 1 .. j - 1 :
                            /\ chain'[j].height = chain'[p].height + 1
                            /\ chain'[j].prev = chain'[p].hash
                            /\ \A k \in p + 1 .. j - 1 : addedBy'[k] # addedBy'[j]
    BY <1>2 DEF ForksAreRaces
  <2>2. CASE j \in 2 .. n
    <3>1. PICK p \in 1 .. j - 1 : /\ chain[j].height = chain[p].height + 1
                                  /\ chain[j].prev = chain[p].hash
                                  /\ \A k \in p + 1 .. j - 1 : addedBy[k] # addedBy[j]
      BY <2>2 DEF Braided, ForksAreRaces
    <3>2. p \in 1 .. n /\ j \in 1 .. n /\ \A k \in p + 1 .. j - 1 : k \in 1 .. n
      BY <1>2, <2>2
    <3> QED
      BY <1>2, <1>3, <3>1, <3>2
  <2>3. CASE j = n + 1
    <3>1. PICK p \in 1 .. n : /\ Extends(blk[a], chain[p])
                              /\ \A k \in p + 1 .. n : addedBy[k] # Thread(a)
      BY <1>1 DEF Braided, Fitting, Fits
    <3>2. j - 1 = n /\ p \in 1 .. j - 1 /\ \A k \in p + 1 .. j - 1 : k \in p + 1 .. n /\ k \in 1 .. n
      BY <1>2, <2>3
    <3> QED
      BY <1>2, <1>3, <2>3, <3>1, <3>2 DEF Extends
  <2> QED
    BY <1>2, <2>2, <2>3
<1>10. DiskFollowsChain'
  <2>1. ASSUME NEW h \in DOMAIN disk'
        PROVE  \E i \in DOMAIN chain' : chain'[i] = disk'[h] /\ chain'[i].height = h
    BY <1>1, <1>2 DEF Braided, DiskFollowsChain
  <2>2. Saving \subseteq Saving' /\ blk[a].height \in Saving'
    <3>1. ASSUME NEW x \in Adder, pc[x] = "save" PROVE pc'[x] = "save"
      BY <1>1, <1>4, <3>1
    <3> QED
      BY <1>1, <1>4, <3>1 DEF Saving
  <2>3. ASSUME NEW i \in DOMAIN chain'
        PROVE  chain'[i].height \in DOMAIN disk' \cup Saving' \cup unsaved'
    BY <1>1, <1>2, <2>2 DEF Braided, DiskFollowsChain
  <2> QED
    BY <2>1, <2>3 DEF DiskFollowsChain
<1> QED
  BY <1>5, <1>6, <1>7, <1>8, <1>9, <1>10 DEF Braided

\* A save, whether it succeeds or fails, in whatever order threads save.
LEMMA SaveBraided ==
    ASSUME Shape, Braided, NEW a \in Adder, SaveBlock(a) \/ SaveFails(a)
    PROVE  Braided'
<1>1. PICK label \in {"credit", "accepted", "idle"} : pc' = [pc EXCEPT ![a] = label]
  BY DEF SaveBlock, SaveFails, Goto, Saved
<1>2. UNCHANGED <<chain, chainHeight, addedBy, blk>> /\ pc[a] = "save"
  BY DEF SaveBlock, SaveFails
<1>3. pc'[a] = label /\ \A x \in Adder \ {a} : pc'[x] = pc[x]
  BY <1>1 DEF Shape
<1>4. PICK i \in DOMAIN chain : chain[i] = blk[a]
  BY <1>2 DEF Braided, InHand
<1>5. OneHandler'
  BY <1>2, <1>3 DEF Braided, OneHandler, Adder
<1>6. Appenders' /\ ForksAreRaces'
  BY <1>2 DEF Braided, Appenders, ForksAreRaces, IsSeq
<1>7. Fitting'
  BY <1>2, <1>3 DEF Braided, Fitting, Fits
<1>8. InHand'
  BY <1>2, <1>3 DEF Braided, InHand
<1>9. ASSUME NEW h \in Saving PROVE h \in Saving' \/ h = blk[a].height
  BY <1>2, <1>3 DEF Saving
<1>10. DiskFollowsChain'
  <2>1. CASE SaveBlock(a)
    <3>1. /\ disk' = [h \in DOMAIN disk \cup {blk[a].height} |->
                         IF h = blk[a].height THEN blk[a] ELSE disk[h]]
          /\ unsaved' = unsaved
      BY <2>1 DEF SaveBlock
    <3>2. ASSUME NEW h \in DOMAIN disk'
          PROVE  \E k \in DOMAIN chain : chain[k] = disk'[h] /\ chain[k].height = h
      BY <1>4, <3>1 DEF Braided, DiskFollowsChain
    <3>3. DOMAIN disk \cup {blk[a].height} \subseteq DOMAIN disk'
      BY <3>1
    <3>4. ASSUME NEW k \in DOMAIN chain
          PROVE  chain[k].height \in DOMAIN disk' \cup Saving' \cup unsaved'
      BY <1>9, <3>1, <3>3 DEF Braided, DiskFollowsChain
    <3> QED
      BY <1>2, <3>2, <3>4 DEF DiskFollowsChain
  <2>2. CASE SaveFails(a)
    <3>1. disk' = disk /\ unsaved' = unsaved \cup {blk[a].height}
      BY <2>2 DEF SaveFails
    <3>2. ASSUME NEW k \in DOMAIN chain
          PROVE  chain[k].height \in DOMAIN disk' \cup Saving' \cup unsaved'
      BY <1>9, <3>1 DEF Braided, DiskFollowsChain
    <3> QED
      BY <1>2, <3>1, <3>2 DEF Braided, DiskFollowsChain
  <2> QED
    BY <2>1, <2>2
<1> QED
  BY <1>5, <1>6, <1>7, <1>8, <1>10 DEF Braided

LEMMA AddBraided ==
    ASSUME Shape, Braided, NEW a \in Adder, AddStep(a)
    PROVE  Braided'
<1>1. CASE Validate(a)
  <2>1. PICK label : label = IF blk[a].height = chainHeight + 1 /\ blk[a].prev = Tip.hash
                             THEN "validateTxs" ELSE Rejected(a)
    OBVIOUS
  <2>2. pc' = [pc EXCEPT ![a] = label] /\ pc[a] = "validate" /\ chainAsWas /\ blk' = blk
    BY <1>1, <2>1 DEF Validate, Goto, chainVars, chainAsWas
  <2>3. label \in {"validateTxs", "check", "resume", "idle"}
    BY <2>1 DEF Rejected
  <2>4. label = "validateTxs" => Fits(a, blk[a])
    <3>1. Len(chain) \in Nat /\ Len(chain) >= 1 /\ chainHeight = chain[Len(chain)].height
      BY Appended DEF Shape, Braided, Appenders
    <3>2. label = "validateTxs" => blk[a].height = chainHeight + 1 /\ blk[a].prev = Tip.hash
      BY <2>1 DEF Rejected
    <3>3. label = "validateTxs" => Extends(blk[a], chain[Len(chain)])
      BY <3>1, <3>2 DEF Extends, Tip, Last
    <3> QED
      BY <3>1, <3>3 DEF Fits
  <2> QED
    BY <2>2, <2>3, <2>4, Keeps
<1>2. CASE ValidateTxs(a)
  <2>1. PICK label \in {"append", "check", "resume", "idle"} : pc' = [pc EXCEPT ![a] = label]
    BY <1>2 DEF ValidateTxs, Goto, Rejected
  <2>2. chainAsWas /\ blk' = blk /\ pc[a] = "validateTxs"
    BY <1>2 DEF ValidateTxs, chainVars, chainAsWas
  <2>3. Fits(a, blk[a])
    BY <2>2 DEF Braided, Fitting
  <2> QED
    BY <2>1, <2>2, <2>3, Keeps
<1>3. CASE AppendBlock(a)
  BY <1>3, AppendBraided
<1>4. CASE SaveBlock(a) \/ SaveFails(a)
  BY <1>4, SaveBraided
<1>5. CASE Credit(a)
  <2>1. PICK label \in {"check", "replay"} : pc' = [pc EXCEPT ![a] = label]
    BY <1>5 DEF Credit, Goto
  <2>2. chainAsWas /\ blk' = blk /\ pc[a] = "credit"
    BY <1>5 DEF Credit, chainVars, chainAsWas
  <2> QED
    BY <2>1, <2>2, Keeps
<1> QED
  BY <1>1, <1>2, <1>3, <1>4, <1>5 DEF AddStep

\* The handlers take one block at a time between them.
LEMMA OtherBraided ==
    ASSUME Shape, Braided, PeerStep \/ RpcStep \/ GossipTx \/ UNCHANGED vars
    PROVE  Braided'
<1>0. Adder = Loop \cup {"peer", "sync"}
  BY DEF Adder
<1>1. CASE NewBlockArrives \/ SyncBlockArrives
  <2>1. PICK a \in {"peer", "sync"} : Arrives(a)
    BY <1>1 DEF NewBlockArrives, SyncBlockArrives
  <2>2. PICK b : blk' = [blk EXCEPT ![a] = b]
    BY <2>1 DEF Arrives
  <2>3. pc' = [pc EXCEPT ![a] = "validate"] /\ pc["peer"] = "idle" /\ pc["sync"] = "idle"
    BY <2>1 DEF Arrives, Goto, HandlersIdle
  <2>4. chainAsWas
    BY <1>1 DEF NewBlockArrives, SyncBlockArrives, chainVars, chainAsWas
  <2> QED
    BY <1>0, <2>2, <2>3, <2>4, Moves
<1>2. CASE ResumeMining
  <2>1. PICK label \in {"credit", "idle"} : pc' = [pc EXCEPT !["peer"] = label]
    BY <1>2 DEF ResumeMining, Goto
  <2>2. chainAsWas /\ blk' = blk /\ pc["peer"] \in {"accepted", "resume"}
    BY <1>2 DEF ResumeMining, chainVars, chainAsWas
  <2> QED
    BY <1>0, <2>1, <2>2, Keeps
<1>3. CASE ReplayDone
  <2>1. /\ pc' = [pc EXCEPT !["peer"] = "idle"] /\ chainAsWas /\ blk' = blk
        /\ pc["peer"] = "replay"
    BY <1>3 DEF ReplayDone, Goto, chainVars, chainAsWas
  <2> QED
    BY <1>0, <2>1, Keeps
<1>4. CASE StartMining
  <2>1. PICK l \in Loop : pc' = [pc EXCEPT ![l] = "check"] /\ pc[l] = "off"
    BY <1>4 DEF StartMining, Goto
  <2>2. chainAsWas /\ blk' = blk /\ l \in Adder
    BY <1>0, <1>4 DEF StartMining, chainVars, chainAsWas
  <2> QED
    BY <2>1, <2>2, Keeps
<1>5. CASE ReplayOne \/ RpcTransfer \/ RpcGetNonce \/ RpcSubmit \/ StopMining \/ GossipTx
             \/ UNCHANGED vars
  <2>1. chainAsWas /\ UNCHANGED <<pc, blk>>
    BY <1>5 DEF ReplayOne, RpcTransfer, RpcGetNonce, RpcSubmit, StopMining, GossipTx, vars,
                chainVars, chainAsWas
  <2>2. Saving' = Saving
    BY <2>1 DEF Saving
  <2> QED
    BY <2>1, <2>2 DEF Braided, OneHandler, Fitting, Fits, InHand, Appenders, IsSeq,
                      ForksAreRaces, DiskFollowsChain, chainAsWas
<1> QED
  BY <1>1, <1>2, <1>3, <1>4, <1>5 DEF PeerStep, RpcStep

LEMMA BraidedHolds == Spec => []Braided
<1>1. Shape /\ Braided /\ [Next]_vars => Braided'
  BY MinerBraided, AddBraided, OtherBraided DEF Next
<1> QED
  BY InitBraided, <1>1, ShapeHolds, PTL DEF Spec

\* Any number of loops race each other and the P2P handlers, and yet every
\* block of the chain extends one that its thread saw as the last, with only
\* the blocks of other threads in between.
THEOREM OnlyRacesFork == Spec => []ForksAreRaces
<1>1. Braided => ForksAreRaces
  BY DEF Braided
<1> QED
  BY <1>1, BraidedHolds, PTL

\* ... and in whatever order they save, and whichever saves fail, the table
\* holds blocks of the chain and lacks only the heights of failed saves.
THEOREM DiskFollows == Spec => []DiskFollowsChain
<1>1. Braided => DiskFollowsChain
  BY DEF Braided
<1> QED
  BY <1>1, BraidedHolds, PTL

-----------------------------------------------------------------------------
(***************************************************************************)
(* Types, and the nonces.                                                  *)
(***************************************************************************)
Nonce == 0 .. MaxNonce
Entry == [tx : Tx, nonce : Nonce]
Block == [height : Nat, hash : Nat, prev : Nat, txs : Seq(Entry)]
Call == [at : {"idle", "nonce", "submit"}, tx : Tx \cup {NoTx}, nonce : Nonce]

Types ==
    /\ chain \in Seq(Block) /\ chain # <<>> /\ chainHeight \in Nat
    /\ blk \in [Adder -> Block] /\ rest \in [Loop -> Seq(Entry)]
    /\ mempool \in Seq(Entry) /\ replay \in Seq(Entry)
    /\ lastNonce \in [Sender -> -1 .. MaxNonce]
    /\ spentBy \in [Coin -> Tx \cup {NoTx}] /\ recorded \subseteq Tx
    /\ rpc \in Call /\ (rpc.at # "idle" => rpc.tx \in Own)
    /\ stopMining \in BOOLEAN /\ isMining \in BOOLEAN /\ made \in Nat

\* A set of integers that is bounded has a maximum.
LEMMA MaxIs ==
    ASSUME NEW S, NEW n \in Int, NEW b \in Int, S \subseteq n .. b, S # {}
    PROVE  Max(S) \in S /\ \A x \in S : x <= Max(S)
<1> DEFINE T == {b - x : x \in S}
<1>1. T \subseteq Nat /\ T # {}
  <2>1. \A x \in S : x \in Int /\ x <= b
    OBVIOUS
  <2>2. PICK x \in S : TRUE
    OBVIOUS
  <2>3. \A y \in S : b - y \in Nat
    BY <2>1
  <2> QED
    BY <2>2, <2>3
<1>2. PICK k \in T : \A m \in T : k <= m
  <2> HIDE DEF T
  <2> QED
    BY <1>1, Least
<1>3. PICK y \in S : k = b - y
  OBVIOUS
<1>4. \A x \in S : y >= x
  <2> TAKE x \in S
  <2>1. b - x \in T
    OBVIOUS
  <2>2. k <= b - x
    BY <1>2, <2>1
  <2> QED
    BY <1>3, <2>2
<1>5. \E m \in S : \A x \in S : m >= x
  BY <1>4
<1>6. Max(S) \in S /\ \A x \in S : Max(S) >= x
  BY <1>5 DEF Max
<1> QED
  BY <1>6

LEMMA NoncesAre ==
    ASSUME NEW s \in Seq(Entry), NEW x, NEW seen
    PROVE  NoncesIn(x, s, seen) \subseteq Nonce
<1> SUFFICES ASSUME NEW m \in NoncesIn(x, s, seen) PROVE m \in Nonce
  OBVIOUS
<1>1. PICK i \in DOMAIN s : m = s[i].nonce
  BY DEF NoncesIn
<1>2. s[i] \in Entry
  OBVIOUS
<1> QED
  BY <1>1, <1>2 DEF Entry

\* The highest nonce is the lower bound or an entry's, and no entry's is higher.
LEMMA HighestIs ==
    ASSUME NEW s \in Seq(Entry), NEW x, NEW seen, NEW n \in -1 .. MaxNonce
    PROVE  /\ HighestNonce(x, n, s, seen) \in -1 .. MaxNonce
           /\ HighestNonce(x, n, s, seen) \in {n} \cup NoncesIn(x, s, seen)
           /\ \A m \in {n} \cup NoncesIn(x, s, seen) : m <= HighestNonce(x, n, s, seen)
<1> DEFINE S == {n} \cup NoncesIn(x, s, seen)
<1>1. S \subseteq -1 .. MaxNonce /\ S # {} /\ MaxNonce \in Int
  BY NoncesAre, MiningNodeAssumption DEF Nonce
<1> HIDE DEF S
<1>2. Max(S) \in S /\ \A m \in S : m <= Max(S)
  <2>1. -1 \in Int
    OBVIOUS
  <2> QED
    BY <1>1, <2>1, MaxIs
<1> QED
  BY <1>1, <1>2 DEF HighestNonce, S

LEMMA TipIsBlock == Types => Tip \in Block
<1> SUFFICES ASSUME Types PROVE Tip \in Block
  OBVIOUS
<1>1. chain \in Seq(Block) /\ Len(chain) \in 1 .. Len(chain)
  BY DEF Types
<1> QED
  BY <1>1 DEF Tip, Last

LEMMA Cut ==
    ASSUME NEW s \in Seq(Entry), NEW m \in Nat \ {0}, NEW n \in Nat, n <= Len(s)
    PROVE  /\ SubSeq(s, m, n) \in Seq(Entry)
           /\ Len(SubSeq(s, m, n)) = IF m <= n THEN n - m + 1 ELSE 0
           /\ \A i \in 1 .. n - m + 1 : SubSeq(s, m, n)[i] = s[m + i - 1]
<1>1. \A i \in m .. n : s[i] \in Entry
  OBVIOUS
<1> QED
  BY <1>1, SubSeqProperties

LEMMA InitTypes == Init => Types
<1> SUFFICES ASSUME Init PROVE Types
  OBVIOUS
<1>1. Genesis \in Block
  BY DEF Genesis, Block
<1>2. <<Genesis>> \in Seq(Block) /\ <<Genesis>> # <<>>
  BY <1>1
<1>3. rpc \in Call /\ rpc.at = "idle"
  BY MiningNodeAssumption DEF Init, Call, Nonce
<1>4. lastNonce \in [Sender -> -1 .. MaxNonce]
  BY MiningNodeAssumption DEF Init
<1>5. \A S : <<>> \in Seq(S)
  OBVIOUS
<1>6. chain \in Seq(Block) /\ chain # <<>> /\ chainHeight \in Nat
  BY <1>2 DEF Init
<1>7. /\ blk \in [Adder -> Block] /\ rest \in [Loop -> Seq(Entry)]
      /\ mempool \in Seq(Entry) /\ replay \in Seq(Entry)
  BY <1>1, <1>5 DEF Init
<1> QED
  BY <1>3, <1>4, <1>6, <1>7 DEF Init, Types

LEMMA MinerTypes == ASSUME Types, NEW l \in Loop, MinerStep(l) PROVE Types'
<1>0. l \in Adder
  BY DEF Adder
<1>1. CASE LoopCheck(l)
  BY <1>1 DEF LoopCheck, Types, chainVars, storeVars
<1>2. CASE CreateBlock(l)
  <2>1. PICK n \in Nat : n <= Len(mempool) /\ blk' = [blk EXCEPT ![l] =
            [height |-> Tip.height + 1, hash |-> 0, prev |-> Tip.hash, txs |-> SubSeq(mempool, 1, n)]]
    <3>1. Len(mempool) \in Nat /\ MaxTxs \in Nat
      BY MiningNodeAssumption DEF Types
    <3>2. PICK n : n = IF Len(mempool) < MaxTxs THEN Len(mempool) ELSE MaxTxs
      OBVIOUS
    <3>3. n \in Nat /\ n <= Len(mempool)
      BY <3>1, <3>2
    <3> QED
      BY <1>2, <3>2, <3>3 DEF CreateBlock
  <2>2. SubSeq(mempool, 1, n) \in Seq(Entry)
    BY <2>1, Cut DEF Types
  <2>3. Tip \in Block
    BY TipIsBlock
  <2>4. [height |-> Tip.height + 1, hash |-> 0, prev |-> Tip.hash, txs |-> SubSeq(mempool, 1, n)] \in Block
    BY <2>2, <2>3 DEF Block
  <2>5. blk' \in [Adder -> Block]
    BY <1>0, <2>1, <2>4 DEF Types
  <2> QED
    BY <1>2, <2>5 DEF CreateBlock, Types, chainVars, storeVars, miningVars
<1>3. CASE MineSucceeds(l)
  <2>1. made' = made + 1 /\ blk' = [blk EXCEPT ![l].hash = made + 1]
    BY <1>3 DEF MineSucceeds
  <2>2. [blk[l] EXCEPT !.hash = made + 1] \in Block
    <3>1. blk[l] \in Block /\ made + 1 \in Nat
      BY <1>0 DEF Types
    <3> QED
      BY <3>1 DEF Block
  <2>3. blk' \in [Adder -> Block] /\ made' \in Nat
    BY <1>0, <2>1, <2>2 DEF Types
  <2> QED
    BY <1>3, <2>3 DEF MineSucceeds, Types, chainVars, storeVars, miningVars
<1>4. CASE MineFails(l)
  BY <1>4 DEF MineFails, Types, chainVars, storeVars, miningVars
<1>5. CASE CopyRest(l)
  <2>1. rest' = [rest EXCEPT ![l] = SubSeq(mempool, Len(blk[l].txs) + 1, Len(mempool))]
    BY <1>5 DEF CopyRest
  <2>2. Len(blk[l].txs) \in Nat /\ Len(mempool) \in Nat
    BY <1>0 DEF Types, Block
  <2>3. SubSeq(mempool, Len(blk[l].txs) + 1, Len(mempool)) \in Seq(Entry)
    BY <2>2, Cut DEF Types
  <2>4. rest' \in [Loop -> Seq(Entry)]
    BY <2>1, <2>3 DEF Types
  <2> QED
    BY <1>5, <2>4 DEF CopyRest, Types, chainVars, storeVars, miningVars
<1>6. CASE StoreRest(l)
  <2>1. mempool' \in Seq(Entry) /\ rest' \in [Loop -> Seq(Entry)]
    BY <1>6 DEF StoreRest, Types
  <2> QED
    BY <1>6, <2>1 DEF StoreRest, Types, chainVars, storeVars, miningVars
<1> QED
  BY <1>1, <1>2, <1>3, <1>4, <1>5, <1>6 DEF MinerStep

LEMMA AddTypes == ASSUME Types, NEW a \in Adder, AddStep(a) PROVE Types'
<1>1. CASE Validate(a)
  BY <1>1 DEF Validate, Types, chainVars, storeVars, miningVars
<1>2. CASE ValidateTxs(a)
  BY <1>2 DEF ValidateTxs, Types, chainVars, storeVars, miningVars
<1>3. CASE AppendBlock(a)
  <2>1. blk[a] \in Block
    BY DEF Types
  <2>2. chain' \in Seq(Block) /\ chain' # <<>> /\ chainHeight' \in Nat
    <3>1. chain' = Append(chain, blk[a]) /\ chain \in Seq(Block)
      BY <1>3 DEF AppendBlock, Types
    <3>2. chain' \in Seq(Block) /\ chain' # <<>>
      BY <2>1, <3>1
    <3>3. chainHeight' \in Nat
      BY <1>3, <2>1 DEF AppendBlock, Block
    <3> QED
      BY <3>2, <3>3
  <2>3. lastNonce' \in [Sender -> -1 .. MaxNonce]
    <3>1. blk[a].txs \in Seq(Entry)
      BY <2>1 DEF Block
    <3>2. \A x \in Sender : HighestNonce(x, lastNonce[x], blk[a].txs, Checked) \in -1 .. MaxNonce
      BY <3>1, HighestIs DEF Types
    <3> QED
      BY <1>3, <3>2 DEF AppendBlock
  <2> QED
    BY <1>3, <2>2, <2>3 DEF AppendBlock, Types, storeVars, miningVars
<1>4. CASE SaveBlock(a) \/ SaveFails(a)
  BY <1>4 DEF SaveBlock, SaveFails, Types, storeVars, miningVars
<1>5. CASE Credit(a)
  <2>1. replay' \in Seq(Entry)
    BY <1>5 DEF Credit, Types, Block
  <2> QED
    BY <1>5, <2>1 DEF Credit, Types, chainVars, miningVars
<1> QED
  BY <1>1, <1>2, <1>3, <1>4, <1>5 DEF AddStep

LEMMA PeerTypes == ASSUME Types, PeerStep PROVE Types'
<1>1. ASSUME NEW a \in {"peer", "sync"}, Arrives(a)
      PROVE  blk' \in [Adder -> Block] /\ made' \in Nat
  <2>1. PICK b \in PeerBlocks : blk' = [blk EXCEPT ![a] = b]
    BY <1>1 DEF Arrives
  <2>2. b \in Block
    <3>1. \A t \in Foreign : [tx |-> t, nonce |-> NonceOf[t]] \in Entry
      BY MiningNodeAssumption DEF Entry, Tx, Nonce
    <3>2. \A t \in Foreign : <<[tx |-> t, nonce |-> NonceOf[t]]>> \in Seq(Entry)
      BY <3>1
    <3>3. Tip \in Block /\ made \in Nat
      BY TipIsBlock DEF Types
    <3>4. PICK p \in {Tip.hash, 0}, s \in Seq(Entry) :
              b = [height |-> Tip.height + 1, hash |-> made + 1, prev |-> p, txs |-> s]
      <4>1. <<>> \in Seq(Entry)
        OBVIOUS
      <4>2. PICK p \in {Tip.hash, 0},
                 s \in {<<>>} \cup {<<[tx |-> t, nonce |-> NonceOf[t]]>> : t \in Foreign \ OnChain} :
                b = [height |-> Tip.height + 1, hash |-> made + 1, prev |-> p, txs |-> s]
        BY DEF PeerBlocks
      <4>3. s \in Seq(Entry)
        BY <3>2, <4>1, <4>2
      <4> QED
        BY <4>2, <4>3
    <3> QED
      BY <3>3, <3>4 DEF Block
  <2>3. blk' \in [Adder -> Block]
    BY <2>1, <2>2 DEF Types
  <2> QED
    BY <1>1, <2>3 DEF Arrives, Types
<1>2. CASE NewBlockArrives
  <2>1. blk' \in [Adder -> Block] /\ made' \in Nat
    BY <1>1, <1>2 DEF NewBlockArrives
  <2> QED
    BY <1>2, <2>1 DEF NewBlockArrives, Types, chainVars, storeVars
<1>3. CASE SyncBlockArrives
  <2>1. blk' \in [Adder -> Block] /\ made' \in Nat
    BY <1>1, <1>3 DEF SyncBlockArrives
  <2> QED
    BY <1>3, <2>1 DEF SyncBlockArrives, Types, chainVars, storeVars, miningVars
<1>4. CASE ResumeMining
  BY <1>4 DEF ResumeMining, Types, chainVars, storeVars
<1>5. CASE ReplayOne
  <2>1. Head(replay) \in Entry /\ Tail(replay) \in Seq(Entry)
    BY <1>5 DEF ReplayOne, Types
  <2>2. PICK t : t = Head(replay).tx
    OBVIOUS
  <2>3. t \in Tx
    BY <2>1, <2>2 DEF Entry
  <2>4. spentBy' \in [Coin -> Tx \cup {NoTx}] /\ recorded' \subseteq Tx
    BY <1>5, <2>2, <2>3 DEF ReplayOne, Types
  <2>5. replay' \in Seq(Entry)
    BY <1>5, <2>1 DEF ReplayOne
  <2> QED
    BY <1>5, <2>4, <2>5 DEF ReplayOne, Types, chainVars, miningVars
<1>6. CASE ReplayDone
  BY <1>6 DEF ReplayDone, Types, chainVars, storeVars, miningVars
<1> QED
  BY <1>2, <1>3, <1>4, <1>5, <1>6 DEF PeerStep

LEMMA RpcTypes == ASSUME Types, RpcStep \/ GossipTx \/ UNCHANGED vars PROVE Types'
<1>1. CASE RpcTransfer
  <2>1. PICK t \in Own : /\ spentBy' = [spentBy EXCEPT ![InputOf[t]] = t]
                         /\ recorded' = recorded \cup {t}
                         /\ rpc' = [at |-> "nonce", tx |-> t, nonce |-> 0]
    BY <1>1 DEF RpcTransfer
  <2>2. spentBy' \in [Coin -> Tx \cup {NoTx}] /\ recorded' \subseteq Tx
    BY <2>1 DEF Types, Tx
  <2>3. rpc' \in Call /\ rpc'.tx \in Own
    BY <2>1, MiningNodeAssumption DEF Call, Nonce, Tx
  <2> QED
    BY <1>1, <2>2, <2>3 DEF RpcTransfer, Types, chainVars, miningVars
<1>2. CASE RpcGetNonce
  <2>1. PICK n : n = PendingNonce("own")
    OBVIOUS
  <2>2. n \in -1 .. MaxNonce
    BY <2>1, HighestIs DEF Types, PendingNonce, Sender
  <2>3. n < MaxNonce /\ rpc' = [rpc EXCEPT !.at = "submit", !.nonce = n + 1] /\ rpc.at # "idle"
    BY <1>2, <2>1 DEF RpcGetNonce
  <2>4. n + 1 \in Nonce
    BY <2>2, <2>3, MiningNodeAssumption DEF Nonce
  <2>5. rpc' \in Call /\ rpc'.tx \in Own
    BY <2>3, <2>4 DEF Types, Call
  <2> QED
    BY <1>2, <2>5 DEF RpcGetNonce, Types, chainVars, storeVars, miningVars
<1>3. CASE RpcSubmit
  <2>1. [tx |-> rpc.tx, nonce |-> rpc.nonce] \in Entry
    BY <1>3 DEF RpcSubmit, Types, Call, Entry, Tx
  <2>2. mempool' \in Seq(Entry)
    BY <1>3, <2>1 DEF RpcSubmit, Types
  <2>3. rpc' \in Call /\ rpc'.at = "idle"
    BY <1>3, MiningNodeAssumption DEF RpcSubmit, Call, Nonce
  <2> QED
    BY <1>3, <2>2, <2>3 DEF RpcSubmit, Types, chainVars, storeVars, miningVars
<1>4. CASE StartMining
  BY <1>4 DEF StartMining, Types, chainVars, storeVars
<1>5. CASE StopMining
  BY <1>5 DEF StopMining, Types, chainVars, storeVars
<1>6. CASE GossipTx
  <2>1. PICK t \in Foreign : mempool' = Append(mempool, [tx |-> t, nonce |-> NonceOf[t]])
    BY <1>6 DEF GossipTx
  <2>2. [tx |-> t, nonce |-> NonceOf[t]] \in Entry
    BY MiningNodeAssumption DEF Entry, Tx, Nonce
  <2>3. mempool' \in Seq(Entry)
    BY <2>1, <2>2 DEF Types
  <2> QED
    BY <1>6, <2>3 DEF GossipTx, Types, chainVars, storeVars, miningVars
<1>7. CASE UNCHANGED vars
  BY <1>7 DEF vars, Types, chainVars, storeVars, miningVars
<1> QED
  BY <1>1, <1>2, <1>3, <1>4, <1>5, <1>6, <1>7 DEF RpcStep

LEMMA TypesHold == Spec => []Types
<1>1. Types /\ [Next]_vars => Types'
  BY MinerTypes, AddTypes, PeerTypes, RpcTypes DEF Next
<1> QED
  BY InitTypes, <1>1, PTL DEF Spec

\* The chain, the mempool, the nonces and the store keep their types.
THEOREM TypeCorrect == Spec => []TypeOK
<1>1. Types => TypeOK
  <2> SUFFICES ASSUME Types PROVE TypeOK
    OBVIOUS
  <2>1. ASSUME NEW i \in DOMAIN chain PROVE chain[i].height \in Nat /\ TxsOf(chain[i]) \subseteq Tx
    <3>1. chain[i] \in Block
      BY DEF Types
    <3>2. chain[i].height \in Nat /\ chain[i].txs \in Seq(Entry)
      BY <3>1 DEF Block
    <3>3. \A j \in DOMAIN chain[i].txs : chain[i].txs[j] \in Entry
      BY <3>2
    <3> QED
      BY <3>2, <3>3 DEF TxsOf, Entry
  <2>2. \A i \in DOMAIN mempool : mempool[i].tx \in Tx
    <3>1. \A i \in DOMAIN mempool : mempool[i] \in Entry
      BY DEF Types
    <3> QED
      BY <3>1 DEF Entry
  <2> QED
    BY <2>1, <2>2 DEF Types, TypeOK
<1> QED
  BY TypesHold, <1>1, PTL

-----------------------------------------------------------------------------
(***************************************************************************)
(* The order of the mempool.  A loop cuts it in two steps, so the tails    *)
(* that the loops have copied are ordered too.                             *)
(***************************************************************************)
InOrder(e, f) ==
    /\ e.tx # f.tx
    /\ (/\ SenderOf(e.tx) = SenderOf(f.tx)
        /\ e.tx \in Counted /\ f.tx \in Checked) => e.nonce < f.nonce

Ordered(s) == \A i, j \in DOMAIN s : i < j => InOrder(s[i], s[j])

Queues == Ordered(mempool) /\ \A l \in Loop : Ordered(rest[l])

\* What is accepted comes after everything that is pending.
LEMMA AcceptedOrdered ==
    ASSUME Types, Ordered(mempool), NEW t, NEW n \in Nonce, Accepts(t, n)
    PROVE  Ordered(Append(mempool, [tx |-> t, nonce |-> n]))
<1> DEFINE e == [tx |-> t, nonce |-> n]
           s == Append(mempool, e)
           k == Len(mempool)
<1>1. k \in Nat /\ mempool \in Seq(Entry)
  BY DEF Types
<1>2. /\ DOMAIN mempool = 1 .. k /\ DOMAIN s = 1 .. (k + 1) /\ s[k + 1] = e
      /\ \A i \in 1 .. k : s[i] = mempool[i]
  BY <1>1
<1>3. \A i \in 1 .. k : InOrder(mempool[i], e)
  <2> TAKE i \in 1 .. k
  <2>1. mempool[i].tx # t /\ (t \in Checked => n > PendingNonce(SenderOf(t)))
    BY <1>2 DEF Accepts
  <2>2. CASE /\ SenderOf(mempool[i].tx) = SenderOf(t)
             /\ mempool[i].tx \in Counted /\ t \in Checked
    <3>1. PICK x, p : x = SenderOf(t) /\ p = PendingNonce(x)
      OBVIOUS
    <3>2. x \in Sender
      BY <3>1 DEF Sender, SenderOf
    <3>3. mempool[i].nonce \in NoncesIn(x, mempool, Counted)
      BY <1>2, <2>2, <3>1 DEF NoncesIn
    <3>4. p \in -1 .. MaxNonce /\ \A m \in NoncesIn(x, mempool, Counted) : m <= p
      BY <1>1, <3>1, <3>2, HighestIs DEF PendingNonce, Types
    <3>5. mempool[i].nonce \in Nat
      BY <1>1, <1>2, <3>3, NoncesAre DEF Nonce
    <3>6. mempool[i].nonce <= p /\ n > p
      BY <2>1, <2>2, <3>1, <3>3, <3>4
    <3>7. mempool[i].nonce < n
      BY <3>4, <3>5, <3>6, MiningNodeAssumption DEF Nonce
    <3> QED
      BY <2>1, <3>7 DEF InOrder
  <2> QED
    BY <2>1, <2>2 DEF InOrder
<1> HIDE DEF s, k, e
<1> SUFFICES ASSUME NEW i \in DOMAIN s, NEW j \in DOMAIN s, i < j
             PROVE  InOrder(s[i], s[j])
  BY DEF Ordered, s, e
<1>4. i \in 1 .. k /\ s[i] = mempool[i]
  BY <1>1, <1>2
<1>5. CASE j = k + 1
  <2>1. s[j] = e
    BY <1>2, <1>5
  <2> QED
    BY <1>3, <1>4, <2>1
<1>6. CASE j \in 1 .. k
  BY <1>2, <1>4, <1>6 DEF Ordered
<1> QED
  BY <1>1, <1>2, <1>5, <1>6

LEMMA CutOrdered ==
    ASSUME NEW s \in Seq(Entry), Ordered(s), NEW k \in Nat
    PROVE  Ordered(SubSeq(s, k + 1, Len(s)))
<1> DEFINE t == SubSeq(s, k + 1, Len(s))
<1>1. /\ t \in Seq(Entry) /\ Len(s) \in Nat
      /\ Len(t) = IF k + 1 <= Len(s) THEN Len(s) - (k + 1) + 1 ELSE 0
      /\ \A i \in 1 .. Len(s) - (k + 1) + 1 : t[i] = s[k + 1 + i - 1]
  BY Cut
<1> HIDE DEF t
<1> SUFFICES ASSUME NEW i \in DOMAIN t, NEW j \in DOMAIN t, i < j
             PROVE  InOrder(t[i], t[j])
  BY DEF Ordered, t
<1>2. DOMAIN t = 1 .. Len(t)
  BY <1>1
<1>3. i \in 1 .. Len(s) - k /\ j \in 1 .. Len(s) - k
  BY <1>1, <1>2
<1>4. t[i] = s[k + i] /\ t[j] = s[k + j]
  <2>1. \A q \in 1 .. Len(s) - k : q \in 1 .. Len(s) - (k + 1) + 1 /\ k + 1 + q - 1 = k + q
    BY <1>1
  <2>2. \A q \in 1 .. Len(s) - k : t[q] = s[k + 1 + q - 1]
    BY <1>1, <2>1
  <2>3. \A q \in 1 .. Len(s) - k : t[q] = s[k + q]
    BY <2>1, <2>2
  <2> QED
    BY <1>3, <2>3
<1>5. k + i \in DOMAIN s /\ k + j \in DOMAIN s /\ k + i < k + j
  <2>1. DOMAIN s = 1 .. Len(s) /\ Len(s) \in Nat
    BY <1>1
  <2>2. \A n \in Nat : \A p, q \in 1 .. n - k :
            p < q => k + p \in 1 .. n /\ k + q \in 1 .. n /\ k + p < k + q
    OBVIOUS
  <2>3. k + i \in 1 .. Len(s) /\ k + j \in 1 .. Len(s) /\ k + i < k + j
    BY <1>3, <2>1, <2>2
  <2> QED
    BY <2>1, <2>3
<1> QED
  BY <1>4, <1>5 DEF Ordered

LEMMA QueuesStep == Types /\ Queues /\ [Next]_vars => Queues'
<1> SUFFICES ASSUME Types, Queues, [Next]_vars PROVE Queues'
  OBVIOUS
<1>0. ASSUME UNCHANGED <<mempool, rest>> PROVE Queues'
  BY <1>0 DEF Queues, Ordered
<1>1. ASSUME NEW t, NEW n \in Nonce, Accepts(t, n), rest' = rest,
             mempool' = Append(mempool, [tx |-> t, nonce |-> n])
      PROVE  Queues'
  <2>1. Ordered(Append(mempool, [tx |-> t, nonce |-> n]))
    BY <1>1, AcceptedOrdered DEF Queues
  <2> QED
    BY <1>1, <2>1 DEF Queues, Ordered
<1>2. ASSUME NEW l \in Loop, MinerStep(l) PROVE Queues'
  <2>1. CASE CopyRest(l)
    <3>1. PICK k : k = Len(blk[l].txs)
      OBVIOUS
    <3>2. k \in Nat
      BY <3>1 DEF Types, Block, Adder
    <3>3. PICK s : s = SubSeq(mempool, k + 1, Len(mempool))
      OBVIOUS
    <3>4. Ordered(s)
      BY <3>2, <3>3, CutOrdered DEF Queues, Types
    <3>5. mempool' = mempool /\ rest' = [rest EXCEPT ![l] = s]
      BY <2>1, <3>1, <3>3 DEF CopyRest
    <3>6. \A x \in Loop : rest'[x] = IF x = l THEN s ELSE rest[x]
      BY <3>5 DEF Types
    <3> QED
      BY <3>4, <3>5, <3>6 DEF Queues, Ordered
  <2>2. CASE StoreRest(l)
    <3>1. mempool' = rest[l] /\ \A x \in Loop : rest'[x] = IF x = l THEN <<>> ELSE rest[x]
      BY <2>2 DEF StoreRest, Types
    <3>2. Ordered(<<>>)
      BY DEF Ordered
    <3> QED
      BY <3>1, <3>2 DEF Queues, Ordered
  <2>3. CASE LoopCheck(l) \/ CreateBlock(l) \/ MineSucceeds(l) \/ MineFails(l)
    BY <1>0, <2>3 DEF LoopCheck, CreateBlock, MineSucceeds, MineFails
  <2> QED
    BY <1>2, <2>1, <2>2, <2>3 DEF MinerStep
<1>3. ASSUME NEW a \in Adder, AddStep(a) PROVE Queues'
  BY <1>0, <1>3 DEF AddStep, Validate, ValidateTxs, AppendBlock, SaveBlock, SaveFails, Credit
<1>4. CASE PeerStep
  BY <1>0, <1>4 DEF PeerStep, NewBlockArrives, SyncBlockArrives, ResumeMining, ReplayOne, ReplayDone
<1>5. CASE RpcStep
  <2>1. CASE RpcSubmit
    BY <1>0, <1>1, <2>1 DEF RpcSubmit, Types, Call
  <2>2. CASE ~RpcSubmit
    BY <1>0, <1>5, <2>2 DEF RpcStep, RpcTransfer, RpcGetNonce, StartMining, StopMining
  <2> QED
    BY <2>1, <2>2
<1>6. CASE GossipTx
  BY <1>1, <1>6, MiningNodeAssumption DEF GossipTx, Nonce
<1>7. CASE UNCHANGED vars
  BY <1>0, <1>7 DEF vars
<1> QED
  BY <1>2, <1>3, <1>4, <1>5, <1>6, <1>7 DEF Next

\* However many loops cut it, the mempool holds no transaction twice, and a
\* nonce that is checked is above all that were seen of its sender before.
THEOREM AlwaysOrdered == Spec => []MempoolOrdered
<1>1. Init => Queues
  BY DEF Init, Queues, Ordered
<1>2. Queues => MempoolOrdered
  BY DEF Queues, Ordered, InOrder, MempoolOrdered
<1> QED
  BY TypesHold, QueuesStep, <1>1, <1>2, PTL DEF Spec

-----------------------------------------------------------------------------
(***************************************************************************)
(* The confirmed nonces.                                                   *)
(***************************************************************************)
Confirmed(x) == UNION {NoncesIn(x, chain[i].txs, Checked) : i \in DOMAIN chain}

LEMMA ConfirmedAre == ASSUME Types, NEW x PROVE Confirmed(x) \subseteq Nonce
<1>1. \A i \in DOMAIN chain : chain[i].txs \in Seq(Entry)
  <2>1. \A i \in DOMAIN chain : chain[i] \in Block
    BY DEF Types
  <2> QED
    BY <2>1 DEF Block
<1> QED
  BY <1>1, NoncesAre DEF Confirmed

LEMMA NoncesStep == Types /\ NoncesFollowChain /\ [Next]_vars => NoncesFollowChain'
<1> SUFFICES ASSUME Types, NoncesFollowChain, [Next]_vars PROVE NoncesFollowChain'
  OBVIOUS
<1>0. CASE UNCHANGED <<chain, lastNonce>>
  BY <1>0 DEF NoncesFollowChain
<1>1. ASSUME NEW a \in Adder, AppendBlock(a) PROVE NoncesFollowChain'
  <2> SUFFICES ASSUME NEW x \in Sender PROVE lastNonce'[x] = Max({-1} \cup Confirmed(x)')
    BY DEF NoncesFollowChain, Confirmed
  <2> DEFINE N == NoncesIn(x, blk[a].txs, Checked)
             C == Confirmed(x)
  <2>1. C' = C \cup N
    <3>1. PICK b : b = blk[a]
      OBVIOUS
    <3>2. chain \in Seq(Block) /\ chain' = Append(chain, b) /\ b \in Block
      BY <1>1, <3>1 DEF AppendBlock, Types
    <3>3. /\ DOMAIN chain' = DOMAIN chain \cup {Len(chain) + 1} /\ chain'[Len(chain) + 1] = b
          /\ \A i \in DOMAIN chain : chain'[i] = chain[i]
      BY <3>2
    <3>4. C' = UNION {NoncesIn(x, chain'[i].txs, Checked) : i \in DOMAIN chain'}
      BY DEF Confirmed
    <3> QED
      BY <3>1, <3>3, <3>4 DEF Confirmed
  <2>2. C \subseteq Nonce /\ N \subseteq Nonce
    BY ConfirmedAre, NoncesAre DEF Types, Block
  <2>3. lastNonce[x] = Max({-1} \cup C)
    BY DEF NoncesFollowChain, Confirmed
  <2>4. lastNonce'[x] = Max({lastNonce[x]} \cup N)
    BY <1>1 DEF AppendBlock, HighestNonce
  <2> HIDE DEF C, N
  <2>5. PICK m, n, S, T, U : /\ S = {-1} \cup C /\ m = Max(S)
                             /\ T = {m} \cup N /\ n = Max(T)
                             /\ U = {-1} \cup C \cup N
    OBVIOUS
  <2>6. MaxNonce \in Int /\ -1 \in Int /\ Nonce \subseteq -1 .. MaxNonce /\ -1 \in -1 .. MaxNonce
    BY MiningNodeAssumption DEF Nonce
  <2>7. m \in S /\ \A y \in S : y <= m
    BY <2>2, <2>5, <2>6, MaxIs
  <2>8. m \in -1 .. MaxNonce
    BY <2>2, <2>5, <2>6, <2>7
  <2>9. n \in T /\ \A y \in T : y <= n
    BY <2>2, <2>5, <2>6, <2>8, MaxIs
  <2>10. Max(U) \in U /\ \A y \in U : y <= Max(U)
    BY <2>2, <2>5, <2>6, MaxIs
  <2>11. n \in U /\ \A y \in U : y <= n
    <3>1. n \in -1 .. MaxNonce /\ m <= n
      BY <2>2, <2>5, <2>6, <2>8, <2>9
    <3>2. \A y \in S : y <= n
      <4> TAKE y \in S
      <4>1. y \in -1 .. MaxNonce /\ y <= m
        BY <2>2, <2>5, <2>6, <2>7
      <4> QED
        BY <2>6, <2>8, <3>1, <4>1
    <3>3. n \in U
      BY <2>5, <2>7, <2>9
    <3>4. U = S \cup N /\ N \subseteq T
      BY <2>5
    <3>5. \A y \in N : y <= n
      BY <2>9, <3>4
    <3>6. \A y \in U : y \in S \/ y \in N
      BY <3>4
    <3> QED
      BY <3>2, <3>3, <3>5, <3>6
  <2>12. Max(U) = n
    <3>0. PICK o : o = Max(U)
      OBVIOUS
    <3>1. o <= n /\ n <= o
      BY <2>10, <2>11, <3>0
    <3>2. o \in Int /\ n \in Int
      <4>1. o \in -1 .. MaxNonce /\ n \in -1 .. MaxNonce
        BY <2>2, <2>5, <2>6, <2>10, <2>11, <3>0
      <4> QED
        BY <2>6, <4>1
    <3>3. o = n
      BY <3>1, <3>2
    <3> QED
      BY <3>0, <3>3
  <2> QED
    BY <2>1, <2>3, <2>4, <2>5, <2>12 DEF C
<1>2. \/ UNCHANGED <<chain, lastNonce>>
      \/ \E a \in Adder : AppendBlock(a)
  <2>1. CASE \E l \in Loop : MinerStep(l)
    BY <2>1 DEF MinerStep, LoopCheck, CreateBlock, MineSucceeds, MineFails, CopyRest, StoreRest,
                chainVars
  <2>2. CASE \E a \in Adder : AddStep(a)
    BY <2>2 DEF AddStep, Validate, ValidateTxs, SaveBlock, SaveFails, Credit, chainVars
  <2>3. CASE PeerStep
    BY <2>3 DEF PeerStep, NewBlockArrives, SyncBlockArrives, ResumeMining, ReplayOne, ReplayDone,
                chainVars
  <2>4. CASE RpcStep
    BY <2>4 DEF RpcStep, RpcTransfer, RpcGetNonce, RpcSubmit, StartMining, StopMining, chainVars
  <2>5. CASE GossipTx \/ UNCHANGED vars
    BY <2>5 DEF GossipTx, vars, chainVars
  <2> QED
    BY <2>1, <2>2, <2>3, <2>4, <2>5 DEF Next
<1> QED
  BY <1>0, <1>1, <1>2

\* The nonces are those of the chain, whoever appended to it, in any order,
\* and in whatever form its transactions carry them.
THEOREM NoncesConfirmed == Spec => []NoncesFollowChain
<1>1. Init => NoncesFollowChain
  <2> SUFFICES ASSUME Init, NEW x \in Sender
               PROVE  lastNonce[x] = Max({-1} \cup Confirmed(x))
    BY DEF NoncesFollowChain, Confirmed
  <2>1. NoncesIn(x, <<>>, Checked) = {}
    BY DEF NoncesIn
  <2>2. DOMAIN chain = {1} /\ chain[1].txs = <<>>
    BY DEF Init, Genesis
  <2>3. Confirmed(x) = {}
    BY <2>1, <2>2 DEF Confirmed
  <2>4. PICK S : S = {-1} \cup Confirmed(x)
    OBVIOUS
  <2>5. S = {-1}
    BY <2>3, <2>4
  <2>6. -1 \in Int /\ S \subseteq -1 .. -1 /\ S # {}
    BY <2>5
  <2>7. Max(S) \in S
    BY <2>6, MaxIs
  <2> QED
    BY <2>4, <2>5, <2>7 DEF Init
<1> QED
  BY TypesHold, NoncesStep, <1>1, PTL DEF Spec

-----------------------------------------------------------------------------
(***************************************************************************)
(* What a loop is mining is at the front of the mempool, if no other loop  *)
(* cuts it: the RPC thread and the network only append.                    *)
(***************************************************************************)
OneLoop == \A k, l \in Loop : k = l

LEMMA Prefix ==
    ASSUME NEW s \in Seq(Entry), NEW t \in Seq(Entry)
    PROVE  IsPrefix(s, t) <=> Len(s) <= Len(t) /\ \A i \in 1 .. Len(s) : s[i] = t[i]
<1> DEFINE n == Len(s)
<1>1. n \in Nat /\ Len(t) \in Nat /\ 1 \in Nat \ {0}
  OBVIOUS
<1>2. n + 0 = n /\ n - 1 + 1 = n /\ \A i \in 1 .. n : 1 + i - 1 = i
  BY <1>1
<1>3. CASE n <= Len(t)
  <2> DEFINE p == SubSeq(s, 1, n)
             q == SubSeq(t, 1, n)
  <2>1. /\ p \in Seq(Entry) /\ q \in Seq(Entry)
        /\ Len(p) = n /\ Len(q) = n
        /\ \A i \in 1 .. n : p[i] = s[i]
        /\ \A i \in 1 .. n : q[i] = t[i]
    <3>1. /\ p \in Seq(Entry) /\ Len(p) = (IF 1 <= n THEN n - 1 + 1 ELSE 0)
          /\ \A i \in 1 .. n - 1 + 1 : p[i] = s[1 + i - 1]
      BY <1>1, Cut
    <3>2. /\ q \in Seq(Entry) /\ Len(q) = (IF 1 <= n THEN n - 1 + 1 ELSE 0)
          /\ \A i \in 1 .. n - 1 + 1 : q[i] = t[1 + i - 1]
      BY <1>1, <1>3, Cut
    <3>3. (IF 1 <= n THEN n - 1 + 1 ELSE 0) = n
      BY <1>1
    <3> QED
      BY <1>2, <3>1, <3>2, <3>3
  <2>2. p = q <=> \A i \in 1 .. n : s[i] = t[i]
    <3> HIDE DEF p, q, n
    <3>1. p = q => \A i \in 1 .. n : s[i] = t[i]
      BY <2>1
    <3>2. (\A i \in 1 .. n : s[i] = t[i]) => p = q
      BY <1>1, <2>1, SeqEqual
    <3> QED
      BY <3>1, <3>2
  <2> QED
    BY <1>3, <2>2 DEF IsPrefix
<1> QED
  BY <1>3 DEF IsPrefix

LEMMA StillFront ==
    ASSUME NEW s \in Seq(Entry), NEW t \in Seq(Entry), IsPrefix(s, t), NEW e \in Entry
    PROVE  IsPrefix(s, Append(t, e))
<1> DEFINE u == Append(t, e)
<1>1. /\ u \in Seq(Entry) /\ Len(u) = Len(t) + 1 /\ Len(t) \in Nat /\ Len(s) \in Nat
      /\ \A i \in 1 .. Len(t) : u[i] = t[i]
  OBVIOUS
<1>2. Len(s) <= Len(t) /\ \A i \in 1 .. Len(s) : s[i] = t[i]
  BY Prefix
<1> HIDE DEF u
<1>3. Len(s) <= Len(u) /\ \A i \in 1 .. Len(s) : s[i] = u[i]
  BY <1>1, <1>2
<1>4. IsPrefix(s, u)
  BY <1>1, <1>3, Prefix
<1> QED
  BY <1>4 DEF u

LEMMA FrontStep ==
    ASSUME OneLoop, Shape, Types, InFlightAtFront, [Next]_vars PROVE InFlightAtFront'
<1> SUFFICES ASSUME NEW l \in Loop, pc'[l] \in {"mine", "slice"}
             PROVE  IsPrefix(blk'[l].txs, mempool')
  BY DEF InFlightAtFront
<1>0. l \in Adder /\ blk[l].txs \in Seq(Entry) /\ mempool \in Seq(Entry)
  BY DEF Adder, Types, Block
<1>1. ASSUME pc'[l] = pc[l], blk'[l] = blk[l],
             \/ mempool' = mempool
             \/ \E e \in Entry : mempool' = Append(mempool, e)
      PROVE  IsPrefix(blk'[l].txs, mempool')
  <2>1. IsPrefix(blk[l].txs, mempool)
    BY <1>1 DEF InFlightAtFront
  <2> QED
    BY <1>0, <1>1, <2>1, StillFront
<1>2. ASSUME NEW k \in Loop, MinerStep(k) PROVE IsPrefix(blk'[l].txs, mempool')
  <2>0. k = l
    BY DEF OneLoop
  <2>1. CASE CreateBlock(l)
    <3>1. PICK n : n = IF Len(mempool) < MaxTxs THEN Len(mempool) ELSE MaxTxs
      OBVIOUS
    <3>2. n \in Nat /\ n <= Len(mempool)
      <4>1. Len(mempool) \in Nat /\ MaxTxs \in Nat
        BY <1>0, MiningNodeAssumption
      <4> QED
        BY <3>1, <4>1
    <3>3. blk'[l].txs = SubSeq(mempool, 1, n) /\ mempool' = mempool
      BY <1>0, <2>1, <3>1 DEF CreateBlock, Types
    <3>4. PICK s : s = SubSeq(mempool, 1, n)
      OBVIOUS
    <3>5. /\ s \in Seq(Entry) /\ Len(s) = (IF 1 <= n THEN n - 1 + 1 ELSE 0)
          /\ \A i \in 1 .. n - 1 + 1 : s[i] = mempool[1 + i - 1]
      BY <1>0, <3>2, <3>4, Cut
    <3>6. Len(s) = n /\ \A i \in 1 .. n : s[i] = mempool[i]
      <4>1. n - 1 + 1 = n /\ \A i \in 1 .. n : 1 + i - 1 = i
        BY <3>2
      <4>2. (IF 1 <= n THEN n - 1 + 1 ELSE 0) = n
        BY <3>2
      <4> QED
        BY <3>5, <4>1, <4>2
    <3>7. IsPrefix(s, mempool)
      BY <1>0, <3>2, <3>5, <3>6, Prefix
    <3> QED
      BY <3>3, <3>4, <3>7
  <2>2. CASE MineSucceeds(l)
    <3>1. blk'[l].txs = blk[l].txs /\ mempool' = mempool /\ pc[l] = "mine"
      BY <1>0, <2>2 DEF MineSucceeds, Types, Block
    <3> QED
      BY <3>1 DEF InFlightAtFront
  <2>3. CASE LoopCheck(l) \/ MineFails(l) \/ CopyRest(l) \/ StoreRest(l)
    BY <1>0, <2>3 DEF LoopCheck, MineFails, CopyRest, StoreRest, Goto, Shape
  <2> QED
    BY <1>2, <2>0, <2>1, <2>2, <2>3 DEF MinerStep
<1>3. ASSUME NEW a \in Adder, AddStep(a) PROVE IsPrefix(blk'[l].txs, mempool')
  <2>1. blk' = blk /\ mempool' = mempool
    BY <1>3 DEF AddStep, Validate, ValidateTxs, AppendBlock, SaveBlock, SaveFails, Credit
  <2>2. pc' = [pc EXCEPT ![a] = pc'[a]] /\ pc'[a] \notin {"mine", "slice"}
    <3>0. Rejected(a) \notin {"mine", "slice"}
      BY DEF Rejected
    <3>1. CASE Validate(a) \/ ValidateTxs(a)
      BY <3>0, <3>1 DEF Validate, ValidateTxs, Goto, Shape
    <3>2. CASE AppendBlock(a)
      BY <3>2 DEF AppendBlock, Goto, Shape
    <3>3. CASE SaveBlock(a) \/ SaveFails(a)
      BY <3>3 DEF SaveBlock, SaveFails, Saved, Goto, Shape
    <3>4. CASE Credit(a)
      BY <3>4 DEF Credit, Goto, Shape
    <3> QED
      BY <1>3, <3>1, <3>2, <3>3, <3>4 DEF AddStep
  <2>3. pc'[l] = pc[l]
    BY <1>0, <2>2 DEF Shape
  <2> QED
    BY <1>1, <2>1, <2>3
<1>4. CASE PeerStep
  <2>0. l \notin {"peer", "sync"}
    BY MiningNodeAssumption
  <2>1. mempool' = mempool
    BY <1>4 DEF PeerStep, NewBlockArrives, SyncBlockArrives, ResumeMining, ReplayOne, ReplayDone
  <2>2. pc'[l] = pc[l] /\ blk'[l] = blk[l]
    <3>1. CASE NewBlockArrives \/ SyncBlockArrives
      <4>1. PICK a \in {"peer", "sync"} : Arrives(a)
        BY <3>1 DEF NewBlockArrives, SyncBlockArrives
      <4>2. PICK b : blk' = [blk EXCEPT ![a] = b] /\ pc' = [pc EXCEPT ![a] = "validate"]
        BY <4>1 DEF Arrives, Goto
      <4> QED
        BY <1>0, <2>0, <4>2 DEF Shape
    <3>2. CASE ResumeMining \/ ReplayDone
      <4>1. PICK label : pc' = [pc EXCEPT !["peer"] = label] /\ blk' = blk
        BY <3>2 DEF ResumeMining, ReplayDone, Goto
      <4> QED
        BY <1>0, <2>0, <4>1 DEF Shape
    <3>3. CASE ReplayOne
      BY <3>3 DEF ReplayOne
    <3> QED
      BY <1>4, <3>1, <3>2, <3>3 DEF PeerStep
  <2> QED
    BY <1>1, <2>1, <2>2
<1>5. CASE RpcStep
  <2>1. CASE RpcSubmit
    <3>1. [tx |-> rpc.tx, nonce |-> rpc.nonce] \in Entry
      BY <2>1 DEF RpcSubmit, Types, Call, Entry, Tx
    <3> QED
      BY <1>1, <2>1, <3>1 DEF RpcSubmit
  <2>2. CASE RpcTransfer \/ RpcGetNonce \/ StopMining
    BY <1>1, <2>2 DEF RpcTransfer, RpcGetNonce, StopMining
  <2>3. CASE StartMining
    <3>1. PICK k \in Loop : pc' = [pc EXCEPT ![k] = "check"]
      BY <2>3 DEF StartMining, Goto
    <3>2. k = l
      BY DEF OneLoop
    <3> QED
      BY <1>0, <3>1, <3>2 DEF Shape
  <2> QED
    BY <1>5, <2>1, <2>2, <2>3 DEF RpcStep
<1>6. CASE GossipTx
  <2>1. \A t \in Foreign : [tx |-> t, nonce |-> NonceOf[t]] \in Entry
    BY MiningNodeAssumption DEF Entry, Tx, Nonce
  <2> QED
    BY <1>1, <1>6, <2>1 DEF GossipTx
<1>7. CASE UNCHANGED vars
  BY <1>1, <1>7 DEF vars
<1> QED
  BY <1>2, <1>3, <1>4, <1>5, <1>6, <1>7 DEF Next

\* When one loop mines, the tail it cuts off the mempool is what it has not
\* mined: no transaction is dropped without having been in its block.
THEOREM FrontKept == ASSUME OneLoop PROVE Spec => []InFlightAtFront
<1>1. Init => InFlightAtFront
  BY DEF Init, InFlightAtFront, Adder
<1>2. Shape /\ Types /\ InFlightAtFront /\ [Next]_vars => InFlightAtFront'
  BY FrontStep
<1> QED
  BY ShapeHolds, TypesHold, <1>1, <1>2, PTL DEF Spec
=============================================================================
