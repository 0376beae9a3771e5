---------------------- MODULE ContributionGovernance_proofs ----------------------
(***************************************************************************)
(* TLAPS proofs about ContributionGovernance, for every set of voters and  *)
(* proposals, every period, threshold and bound.                           *)
(*                                                                         *)
(* Two invariants.  That what is in force was approved needs, of a         *)
(* proposal that waits for its execution, that it was already approved     *)
(* when it was queued and that its timelock ends late enough (RowInv):     *)
(* from there on no action touches its totals.  That the totals are the    *)
(* sums of the votes (Books) is apart from it: it needs that a proposal    *)
(* begins without a vote and that a row of votes once written stays one,   *)
(* and the facts about sums of SumTheorems.                                *)
(***************************************************************************)
EXTENDS ContributionGovernance, SumTheorems

Fields == {"status", "kind", "block", "created", "timelock", "executed", "total", "tally", "count"}

\* A row of proposals.
Shape(r) ==
    /\ DOMAIN r = Fields
    /\ r.status \in Statuses /\ r.kind \in Kinds
    /\ r.created \in Nat /\ r.timelock \in Nat /\ r.executed \in Nat

RowInv(r) ==
    /\ Shape(r)
    /\ r.status = "queued" => IsPassed(r) /\ r.timelock >= VotingEnds(r) + Timelock
    /\ r.status = "passed" => IsPassed(r) /\ r.kind = "emergency"
    /\ r.status = "executed" => ApprovedBy(r, r.executed)

IInv ==
    /\ now \in Nat
    /\ Existing \subseteq Proposals /\ DOMAIN bonds = Proposals
    /\ \A p \in Existing : RowInv(props[p])
    /\ \A p \in Existing \ torn : bonds[p] = BondOf(props[p].status)
    /\ \A row \in inForce : row.by \in Existing /\ ApprovedBy(props[row.by], row.at)

Times == Cooldown \in Nat /\ VotingPeriod \in Nat /\ EmergencyPeriod \in Nat /\ Timelock \in Nat

LEMMA TimesAreNat == Times
BY TimesAssumption DEF Times

-----------------------------------------------------------------------------
(* Lemmas about rows. *)

\* When the vote ends depends on the kind and the day of creation only.
LEMMA VotingEndsNat ==
    ASSUME NEW r, Shape(r)
    PROVE  VotingEnds(r) \in Nat
BY TimesAreNat DEF Times, Shape, Kinds, VotingEnds, CooldownEnds

\* Two rows on which the same votes were cast.
SameVote(r, new) ==
    /\ Shape(r) /\ Shape(new)
    /\ new.kind = r.kind /\ new.created = r.created
    /\ new.tally = r.tally /\ new.total = r.total

LEMMA VoteDecides ==
    ASSUME NEW r, NEW new, SameVote(r, new)
    PROVE  VotingEnds(new) = VotingEnds(r) /\ (IsPassed(new) <=> IsPassed(r))
<1>1. VotingEnds(new) = VotingEnds(r)
  BY DEF SameVote, VotingEnds, CooldownEnds
<1>2. IsPassed(new) <=> IsPassed(r)
  BY DEF SameVote, IsPassed
<1> QED
  BY <1>1, <1>2

\* What was approved by a time stays so when it is executed or withdrawn.
LEMMA ApprovedStays ==
    ASSUME NEW r, NEW new, SameVote(r, new), NEW t, ApprovedBy(r, t),
           new.status \in {"queued", "passed", "executed", "cancelled"}
    PROVE  ApprovedBy(new, t)
BY VoteDecides DEF ApprovedBy, SameVote

\* A row with another status only.
LEMMA Restated ==
    ASSUME NEW r, Shape(r), NEW s \in Statuses
    PROVE  LET new == [r EXCEPT !.status = s]
           IN  SameVote(r, new) /\ new.status = s /\ new.timelock = r.timelock
               /\ new.executed = r.executed
<1> DEFINE new == [r EXCEPT !.status = s]
<1>1. /\ DOMAIN new = Fields /\ new.status = s /\ new.timelock = r.timelock
      /\ new.executed = r.executed /\ new.kind = r.kind /\ new.created = r.created
      /\ new.tally = r.tally /\ new.total = r.total
  BY DEF Shape, Fields
<1> HIDE DEF new
<1> QED
  BY <1>1 DEF SameVote, Shape, new

\* A status that promises nothing of the vote.
LEMMA FreeRow ==
    ASSUME NEW r, Shape(r), r.status \notin {"queued", "passed", "executed"}
    PROVE  RowInv(r)
BY DEF RowInv

-----------------------------------------------------------------------------
(* What a step has to show. *)

\* A step that rewrites one proposal.
LEMMA RowKeeps ==
    ASSUME IInv, NEW p \in Existing, NEW r, RowInv(r), props' = [props EXCEPT ![p] = r],
           \A t : ApprovedBy(props[p], t) => ApprovedBy(r, t),
           now' \in Nat, inForce' = inForce, DOMAIN bonds' = Proposals,
           p \notin torn' => bonds'[p] = BondOf(r.status),
           \A q \in Existing \ {p} : q \notin torn' => q \notin torn /\ bonds'[q] = bonds[q]
    PROVE  IInv'
<1>1. /\ Existing' = Existing /\ props'[p] = r
      /\ \A q \in Existing \ {p} : props'[q] = props[q]
  BY DEF Existing
<1>2. \A q \in Existing' : RowInv(props'[q])
  BY <1>1 DEF IInv
<1>3. \A q \in Existing' \ torn' : bonds'[q] = BondOf(props'[q].status)
  BY <1>1 DEF IInv
<1>4. \A row \in inForce' : row.by \in Existing' /\ ApprovedBy(props'[row.by], row.at)
  BY <1>1 DEF IInv
<1> QED
  BY <1>1, <1>2, <1>3, <1>4 DEF IInv

\* A step that rewrites no proposal.
LEMMA RowsSame ==
    ASSUME IInv, UNCHANGED <<props, inForce>>, now' \in Nat, DOMAIN bonds' = Proposals,
           \A q \in Existing : q \notin torn' => q \notin torn /\ bonds'[q] = bonds[q]
    PROVE  IInv'
BY DEF IInv, Existing

-----------------------------------------------------------------------------
(* The actions. *)

LEMMA InitIInv == Init => IInv
BY DEF Init, IInv, Existing

LEMMA CreateKeeps ==
    ASSUME IInv, NEW v \in Voters, NEW p \in Proposals, NEW b \in Blocks, CreateProposal(v, p, b)
    PROVE  IInv'
<1>0. UNCHANGED <<now, stakes, votes, inForce, torn>>
  BY DEF CreateProposal
<1>1. CASE UNCHANGED <<props, bonds>>
  BY <1>0, <1>1, RowsSame DEF IInv
<1>2. CASE /\ p \notin Existing
           /\ props' = [q \in Existing \cup {p} |->
                         IF q = p THEN NewRow(Kind[p], b, snaps'[b]) ELSE props[q]]
           /\ bonds' = [bonds EXCEPT ![p] = "locked"]
  <2> DEFINE r == NewRow(Kind[p], b, snaps'[b])
  <2>1. Shape(r) /\ r.status = "pending"
    BY KindAssumption DEF NewRow, Shape, Fields, Statuses, IInv
  <2> HIDE DEF r
  <2>2. /\ Existing' = Existing \cup {p} /\ props'[p] = r
        /\ \A q \in Existing : props'[q] = props[q]
    BY <1>2 DEF Existing, r
  <2>3. \A q \in Existing' : RowInv(props'[q])
    BY <2>1, <2>2, FreeRow DEF IInv
  <2>4. \A q \in Existing' \ torn' : bonds'[q] = BondOf(props'[q].status)
    BY <1>0, <1>2, <2>1, <2>2 DEF IInv, BondOf
  <2>5. \A row \in inForce' : row.by \in Existing' /\ ApprovedBy(props'[row.by], row.at)
    BY <1>0, <2>2 DEF IInv
  <2> QED
    BY <1>0, <1>2, <2>2, <2>3, <2>4, <2>5 DEF IInv
<1> QED
  BY <1>1, <1>2 DEF CreateProposal

\* The rows that are still open were never approved.
LEMMA OpenKeeps ==
    ASSUME IInv, NEW p \in Existing, Open(props[p]), NEW r, Shape(r), Open(r),
           props' = [props EXCEPT ![p] = r], UNCHANGED <<now, bonds, inForce, torn>>
    PROVE  IInv'
<1>1. RowInv(r)
  BY FreeRow DEF Open
<1>2. \A t : ApprovedBy(props[p], t) => ApprovedBy(r, t)
  BY DEF Open, ApprovedBy
<1>3. p \notin torn' => bonds'[p] = BondOf(r.status)
  BY DEF IInv, Open, BondOf
<1> QED
  BY <1>1, <1>2, <1>3, RowKeeps DEF IInv

LEMMA ActivateKeeps == ASSUME IInv, NEW p \in Existing, ActivateProposal(p) PROVE IInv'
<1> DEFINE r == [props[p] EXCEPT !.status = "active"]
<1>1. Shape(props[p]) /\ Open(props[p])
  BY DEF IInv, RowInv, ActivateProposal, Open
<1>2. Shape(r) /\ r.status = "active"
  BY <1>1, Restated DEF SameVote, Statuses
<1>3. props' = [props EXCEPT ![p] = r] /\ UNCHANGED <<now, bonds, inForce, torn>>
  BY DEF ActivateProposal, WithStatus
<1> HIDE DEF r
<1> QED
  BY <1>1, <1>2, <1>3, OpenKeeps DEF Open

LEMMA VoteKeeps ==
    ASSUME IInv, NEW p \in Existing, NEW v \in Voters, NEW c \in VoteChoices, Vote(p, v, c)
    PROVE  IInv'
<1> DEFINE old == Retracted(props[p], votes[p][v])
           weight == VotingWeight(props[p].block, v)
           r == [old EXCEPT !.status = "active", !.tally[c] = @ + weight, !.count = @ + 1]
<1>1. Shape(props[p]) /\ Open(props[p])
  BY DEF IInv, RowInv, Vote, Open
<1>2. Shape(old)
  BY <1>1 DEF Shape, Fields, Retracted
<1>3. Shape(r) /\ r.status = "active"
  <2> HIDE DEF old, weight
  <2> QED
    BY <1>2 DEF Shape, Fields, Statuses
<1>4. props' = [props EXCEPT ![p] = r] /\ UNCHANGED <<now, bonds, inForce, torn>>
  BY DEF Vote
<1> HIDE DEF r
<1> QED
  BY <1>1, <1>3, <1>4, OpenKeeps DEF Open

\* A settlement, whole or cut by a crash.
LEMMA SettleKeeps ==
    ASSUME IInv, NEW p \in Existing, NEW r, RowInv(r), NEW bond, bond = BondOf(r.status),
           \A t : ApprovedBy(props[p], t) => ApprovedBy(r, t), Settle(p, bond, r)
    PROVE  IInv'
<1>1. /\ bonds' = [bonds EXCEPT ![p] = bond] /\ UNCHANGED <<now, inForce>>
      /\ p \in Proposals
  BY DEF Settle, IInv
<1>2. CASE props' = [props EXCEPT ![p] = r] /\ torn' = torn \ {p}
  BY <1>1, <1>2, RowKeeps DEF IInv
<1>3. CASE torn' = torn \cup {p} /\ UNCHANGED props
  BY <1>1, <1>3, RowsSame DEF IInv
<1> QED
  BY <1>2, <1>3 DEF Settle

LEMMA FinalizeKeeps == ASSUME IInv, NEW p \in Existing, FinalizeProposal(p) PROVE IInv'
<1> DEFINE r == props[p]
           queued == [r EXCEPT !.status = "queued", !.timelock = now + Timelock]
<1>1. Shape(r) /\ r.status = "active" /\ now \in Nat /\ now >= VotingEnds(r)
  BY DEF FinalizeProposal, IInv, RowInv
<1>2. \A t, x : ApprovedBy(r, t) => x
  BY <1>1 DEF ApprovedBy
<1>3. CASE ~IsPassed(r)
  <2> DEFINE new == [r EXCEPT !.status = "rejected"]
  <2>1. Shape(new) /\ new.status = "rejected"
    BY <1>1, Restated DEF SameVote, Statuses
  <2>2. Settle(p, "burned_50%", new)
    BY <1>3 DEF FinalizeProposal, FinalizedBond
  <2> HIDE DEF new, r
  <2>3. RowInv(new) /\ "burned_50%" = BondOf(new.status)
    BY <2>1, FreeRow DEF BondOf
  <2> QED
    BY <1>2, <2>2, <2>3, SettleKeeps DEF r
<1>4. CASE IsPassed(r) /\ r.kind = "emergency"
  <2> DEFINE new == [r EXCEPT !.status = "passed"]
  <2>1. SameVote(r, new) /\ new.status = "passed"
    BY <1>1, Restated DEF Statuses
  <2>2. Settle(p, "returned", new)
    BY <1>4 DEF FinalizeProposal, FinalizedBond
  <2> HIDE DEF new, r
  <2>3. RowInv(new) /\ "returned" = BondOf(new.status)
    BY <1>4, <2>1, VoteDecides DEF RowInv, SameVote, BondOf
  <2> QED
    BY <1>2, <2>2, <2>3, SettleKeeps DEF r
<1>5. CASE IsPassed(r) /\ r.kind # "emergency"
  <2>1. Settle(p, "returned", queued)
    BY <1>5 DEF FinalizeProposal, FinalizedBond
  <2>2. now + Timelock \in Nat /\ now + Timelock >= VotingEnds(r) + Timelock
    BY <1>1, TimesAreNat, VotingEndsNat DEF Times
  <2>3. /\ DOMAIN queued = Fields /\ queued.status = "queued"
        /\ queued.timelock = now + Timelock /\ queued.executed = r.executed
        /\ queued.kind = r.kind /\ queued.created = r.created
        /\ queued.tally = r.tally /\ queued.total = r.total
    BY <1>1 DEF Shape, Fields
  <2> HIDE DEF queued, r
  <2>4. SameVote(r, queued)
    BY <1>1, <2>2, <2>3 DEF SameVote, Shape, Statuses
  <2>5. RowInv(queued) /\ "returned" = BondOf(queued.status)
    BY <1>5, <2>2, <2>3, <2>4, VoteDecides DEF RowInv, SameVote, BondOf
  <2> QED
    BY <1>2, <2>1, <2>5, SettleKeeps DEF r
<1> QED
  BY <1>3, <1>4, <1>5

LEMMA CancelKeeps == ASSUME IInv, NEW p \in Existing, CancelProposal(p) PROVE IInv'
<1> DEFINE r == props[p]
           new == [r EXCEPT !.status = "cancelled"]
<1>1. Shape(r) /\ Settle(p, "burned_100%", new)
  BY DEF CancelProposal, CancelledBond, IInv, RowInv
<1>2. SameVote(r, new) /\ new.status = "cancelled"
  BY <1>1, Restated DEF Statuses
<1> HIDE DEF new, r
<1>3. RowInv(new) /\ "burned_100%" = BondOf(new.status)
  BY <1>2, FreeRow DEF SameVote, BondOf
<1>4. \A t : ApprovedBy(r, t) => ApprovedBy(new, t)
  BY <1>2, ApprovedStays
<1> QED
  BY <1>1, <1>3, <1>4, SettleKeeps DEF r

LEMMA ExecuteKeeps == ASSUME IInv, NEW p \in Existing, ExecuteProposal(p) PROVE IInv'
<1> DEFINE r == props[p]
           new == [r EXCEPT !.status = "executed", !.executed = now]
<1>0. /\ Shape(r) /\ now \in Nat /\ RowInv(r) /\ Ready(r)
      /\ inForce' \in {{[by |-> p, at |-> now]}, inForce}
      /\ UNCHANGED <<now, bonds, torn>>
  BY DEF ExecuteProposal, IInv, RowInv
<1>1. ApprovedBy(r, now) /\ r.status \in {"queued", "passed"}
  BY <1>0, TimesAreNat, VotingEndsNat DEF Ready, RowInv, ApprovedBy, Shape, Times
<1>2. /\ DOMAIN new = Fields /\ new.status = "executed" /\ new.executed = now
      /\ new.timelock = r.timelock /\ new.kind = r.kind /\ new.created = r.created
      /\ new.tally = r.tally /\ new.total = r.total
  BY <1>0 DEF Shape, Fields
<1>3. props' = [props EXCEPT ![p] = new] \/ UNCHANGED props
  BY DEF ExecuteProposal
<1>4. SameVote(r, new)
  <2> HIDE DEF new, r
  <2> QED
    BY <1>0, <1>2 DEF SameVote, Shape, Statuses
<1>a. \A t : ApprovedBy(r, t) => ApprovedBy(new, t)
  <2> HIDE DEF new, r
  <2> QED
    BY <1>2, <1>4, ApprovedStays
<1>5. ApprovedBy(new, now) /\ RowInv(new) /\ BondOf(new.status) = BondOf(r.status)
  <2> HIDE DEF new, r
  <2>1. ApprovedBy(new, now)
    BY <1>1, <1>2, <1>4, ApprovedStays
  <2> QED
    BY <1>1, <1>2, <1>4, <2>1 DEF RowInv, SameVote, BondOf
<1> HIDE DEF new
<1>6. /\ Existing' = Existing /\ props'[p] \in {new, props[p]}
      /\ \A q \in Existing \ {p} : props'[q] = props[q]
  BY <1>3 DEF Existing
<1>7. \A q \in Existing' : RowInv(props'[q])
  BY <1>5, <1>6 DEF IInv
<1>8. \A q \in Existing' \ torn' : bonds'[q] = BondOf(props'[q].status)
  BY <1>0, <1>5, <1>6 DEF IInv
<1>9. \A row \in inForce' : row.by \in Existing' /\ ApprovedBy(props'[row.by], row.at)
  BY <1>0, <1>1, <1>a, <1>5, <1>6 DEF IInv
<1> QED
  BY <1>0, <1>6, <1>7, <1>8, <1>9 DEF IInv

LEMMA ExpireKeeps == ASSUME IInv, ExpireProposals PROVE IInv'
<1>1. PICK done \in SUBSET Existing, cut \in SUBSET Existing :
        /\ cut \subseteq done /\ \A p \in done : Open(props[p])
        /\ props' = [p \in Existing |->
                        IF p \in done THEN [props[p] EXCEPT !.status = "expired"] ELSE props[p]]
        /\ bonds' = [p \in Proposals |->
                        IF p \in done \ cut THEN "returned_25%" ELSE bonds[p]]
        /\ torn' = (torn \ done) \cup cut
  BY DEF ExpireProposals
<1>2. UNCHANGED <<now, inForce>> /\ Existing' = Existing
  BY <1>1 DEF ExpireProposals, Existing
<1>3. \A p \in done : RowInv(props'[p]) /\ props'[p].status = "expired"
  <2> SUFFICES ASSUME NEW p \in done
               PROVE  RowInv(props'[p]) /\ props'[p].status = "expired"
    OBVIOUS
  <2> DEFINE new == [props[p] EXCEPT !.status = "expired"]
  <2>1. Shape(props[p]) /\ props'[p] = new
    BY <1>1 DEF IInv, RowInv
  <2>2. Shape(new) /\ new.status = "expired"
    BY <2>1, Restated DEF SameVote, Statuses
  <2> HIDE DEF new
  <2> QED
    BY <2>1, <2>2, FreeRow
<1>4. \A p \in Existing \ done : props'[p] = props[p]
  BY <1>1
<1>5. \A p \in Existing' : RowInv(props'[p])
  BY <1>2, <1>3, <1>4 DEF IInv
<1>6. \A p \in Existing' \ torn' : bonds'[p] = BondOf(props'[p].status)
  <2> SUFFICES ASSUME NEW p \in Existing, p \notin torn'
               PROVE  bonds'[p] = BondOf(props'[p].status)
    BY <1>2
  <2>1. p \in Proposals
    BY DEF IInv
  <2>2. CASE p \in done
    BY <1>1, <1>3, <2>1, <2>2 DEF BondOf
  <2>3. CASE p \notin done
    BY <1>1, <1>4, <2>1, <2>3 DEF IInv
  <2> QED
    BY <2>2, <2>3
<1>7. \A row \in inForce' : row.by \in Existing' /\ ApprovedBy(props'[row.by], row.at)
  <2> SUFFICES ASSUME NEW row \in inForce
               PROVE  row.by \in Existing /\ ApprovedBy(props'[row.by], row.at)
    BY <1>2
  <2>1. row.by \in Existing /\ ApprovedBy(props[row.by], row.at)
    BY DEF IInv
  <2>2. row.by \notin done
    BY <1>1, <2>1 DEF ApprovedBy, Open
  <2> QED
    BY <1>4, <2>1, <2>2
<1>8. now' \in Nat /\ Existing' \subseteq Proposals /\ DOMAIN bonds' = Proposals
  BY <1>1, <1>2 DEF IInv
<1> QED
  BY <1>5, <1>6, <1>7, <1>8 DEF IInv

-----------------------------------------------------------------------------
(* The books: weights and totals are naturals, and the totals of a proposal *)
(* are the sums of its rows of votes.                                       *)

Ballot == [choice : VoteChoices \cup {"none"}, weight : Nat]

Books ==
    /\ TypeOK
    /\ IsFiniteSet(stakes)
    /\ TallyIsVotes
    /\ \A p \in Proposals, v \in Voters : votes[p][v].choice = "none" => votes[p][v] = NoVote
    /\ \A p \in Proposals \ Existing, v \in Voters : votes[p][v] = NoVote

\* What the proof asks of a state before weights are looked at.
Weighable ==
    /\ stakes \subseteq [owner : Voters, weight : Nat, until : Nat]
    /\ IsFiniteSet(stakes)
    /\ snaps \in [Blocks -> Seq([Voters -> Nat])]

LEMMA WeightNat == ASSUME Weighable, NEW v PROVE Weight(v) \in Nat
<1> DEFINE S == {s \in stakes : s.owner = v /\ s.until > now}
           f == [s \in stakes |-> s.weight]
<1>1. IsFiniteSet(S)
  BY FS_Subset DEF Weighable
<1>2. \A s \in S : f[s] \in Nat
  BY DEF Weighable
<1>3. Weight(v) = SumFunctionOnSet(f, S)
  BY DEF Weight
<1> HIDE DEF f, S
<1> QED
  BY <1>1, <1>2, <1>3, SumNat

LEMMA CappedNat == ASSUME Weighable, NEW v PROVE Capped(v) \in Nat
<1> DEFINE f == [u \in Voters |-> Weight(u)]
<1>1. \A u \in Voters : f[u] \in Nat
  BY WeightNat
<1>2. NetworkWeight = SumFunctionOnSet(f, Voters) /\ IsFiniteSet(Voters)
  BY VotersAssumption DEF NetworkWeight
<1> HIDE DEF f
<1>3. NetworkWeight \in Nat
  BY <1>1, <1>2, SumNat
<1>4. NetworkWeight * CapPercent \in Nat
  BY <1>3, ThresholdsAssumption
<1>5. (NetworkWeight * CapPercent) \div 100 \in Nat
  BY <1>4
<1> QED
  BY <1>5, WeightNat DEF Capped

LEMMA SnapshotTotalNat ==
    ASSUME NEW rows \in Seq([Voters -> Nat])
    PROVE  SnapshotTotal(rows) \in Nat
<1> DEFINE f == [i \in DOMAIN rows |-> SumFunctionOnSet(rows[i], Voters)]
<1>1. ASSUME NEW i \in DOMAIN rows PROVE f[i] \in Nat
  <2>1. rows[i] \in [Voters -> Nat]
    OBVIOUS
  <2> QED
    BY <2>1, VotersAssumption, SumNat
<1>2. IsFiniteSet(DOMAIN rows)
  <2>1. DOMAIN rows = 1 .. Len(rows) /\ Len(rows) \in Nat
    OBVIOUS
  <2> QED
    BY <2>1, FS_Interval
<1>3. SnapshotTotal(rows) = SumFunctionOnSet(f, DOMAIN rows)
  BY DEF SnapshotTotal
<1> HIDE DEF f
<1> QED
  BY <1>1, <1>2, <1>3, SumNat

LEMMA VotingWeightNat ==
    ASSUME Weighable, NEW b \in Blocks, NEW v \in Voters
    PROVE  VotingWeight(b, v) \in Nat
<1> DEFINE listed == {i \in DOMAIN snaps[b] : snaps[b][i][v] > 0}
           first == CHOOSE i \in listed : \A j \in listed : i <= j
<1>1. CASE listed = {}
  BY <1>1, CappedNat DEF VotingWeight
<1>2. CASE listed # {}
  <2>1. listed \subseteq Nat
    BY DEF Weighable
  <2>2. first \in listed
    <3> HIDE DEF listed
    <3> QED
      BY <1>2, <2>1, Least
  <2>3. snaps[b][first][v] \in Nat
    BY <2>2 DEF Weighable
  <2> QED
    BY <1>2, <2>3 DEF VotingWeight
<1> QED
  BY <1>1, <1>2

\* The rows of votes of one proposal that say c, and their weight.
Weighed(w, c) ==
    SumFunctionOnSet([v \in Voters |-> w[v].weight], {v \in Voters : w[v].choice = c})
Voted(w) == {v \in Voters : w[v] # NoVote}

Given(w, c) == [v \in Voters |-> IF w[v].choice = c THEN w[v].weight ELSE 0]
Part(x, c) == IF x.choice = c THEN x.weight ELSE 0

LEMMA WeighedGiven ==
    ASSUME NEW w \in [Voters -> Ballot], NEW c
    PROVE  /\ Weighed(w, c) = SumFunctionOnSet(Given(w, c), Voters)
           /\ Weighed(w, c) \in Nat
<1> DEFINE T == {v \in Voters : w[v].choice = c}
           f == [v \in Voters |-> w[v].weight]
           g == Given(w, c)
<1>1. /\ T \in SUBSET Voters
      /\ \A v \in T : f[v] \in Int /\ g[v] = f[v]
      /\ \A v \in Voters \ T : g[v] = 0
      /\ \A v \in Voters : g[v] \in Nat
  BY DEF Ballot, Given
<1>2. Weighed(w, c) = SumFunctionOnSet(f, T)
  BY DEF Weighed
<1> HIDE DEF f, g, T
<1>3. SumFunctionOnSet(g, Voters) = SumFunctionOnSet(f, T)
  BY <1>1, SumSupport, VotersAssumption
<1>4. SumFunctionOnSet(g, Voters) \in Nat
  BY <1>1, SumNat, VotersAssumption
<1> QED
  BY <1>2, <1>3, <1>4 DEF g

\* One voter's row is written over.
VoteChanged(w, new, v) ==
    /\ w \in [Voters -> Ballot] /\ new \in [Voters -> Ballot] /\ v \in Voters
    /\ new[v] # NoVote /\ \A u \in Voters \ {v} : new[u] = w[u]

LEMMA Rewritten ==
    \A w, new, v, c : VoteChanged(w, new, v)
        => Weighed(new, c) = Weighed(w, c) - Part(w[v], c) + Part(new[v], c)
<1> SUFFICES ASSUME NEW w, NEW new, NEW v, NEW c, VoteChanged(w, new, v)
             PROVE  Weighed(new, c) = Weighed(w, c) - Part(w[v], c) + Part(new[v], c)
  OBVIOUS
<1> DEFINE f == Given(w, c)
           g == Given(new, c)
<1>1. /\ \A u \in Voters : f[u] \in Int /\ g[u] \in Int
      /\ \A u \in Voters : u # v => f[u] = g[u]
      /\ f[v] = Part(w[v], c) /\ g[v] = Part(new[v], c)
  BY DEF Ballot, Given, Part, VoteChanged
<1>2. /\ Weighed(w, c) = SumFunctionOnSet(f, Voters)
      /\ Weighed(new, c) = SumFunctionOnSet(g, Voters)
  BY WeighedGiven DEF VoteChanged
<1> HIDE DEF f, g
<1>3. ChangedAt(f, g, Voters, v)
  BY <1>1, VotersAssumption DEF ChangedAt, VoteChanged
<1>4. SumFunctionOnSet(g, Voters) = SumFunctionOnSet(f, Voters) - f[v] + g[v]
  BY <1>3, SumUpdate
<1> QED
  BY <1>1, <1>2, <1>4

LEMMA Counted ==
    \A w, new, v : VoteChanged(w, new, v)
        => /\ Cardinality(Voted(w)) \in Nat
           /\ Cardinality(Voted(new))
                = IF w[v] = NoVote THEN Cardinality(Voted(w)) + 1 ELSE Cardinality(Voted(w))
<1> SUFFICES ASSUME NEW w, NEW new, NEW v, VoteChanged(w, new, v)
             PROVE  /\ Cardinality(Voted(w)) \in Nat
                    /\ Cardinality(Voted(new))
                         = IF w[v] = NoVote THEN Cardinality(Voted(w)) + 1
                                            ELSE Cardinality(Voted(w))
  OBVIOUS
<1>1. Voted(new) = Voted(w) \cup {v}
  BY DEF Voted, VoteChanged
<1>2. IsFiniteSet(Voted(w)) /\ (v \in Voted(w) <=> w[v] # NoVote)
  BY FS_Subset, VotersAssumption DEF Voted, VoteChanged
<1>3. CASE v \in Voted(w)
  <2>1. Voted(new) = Voted(w)
    BY <1>1, <1>3
  <2> QED
    BY <1>2, <1>3, <2>1, FS_CardinalityType
<1>4. CASE v \notin Voted(w)
  BY <1>1, <1>2, <1>4, FS_CardinalityType, FS_AddElement
<1> QED
  BY <1>3, <1>4

LEMMA TalliesAre ==
    TallyIsVotes <=> \A p \in Existing :
        /\ props[p].count = Cardinality(Voted(votes[p]))
        /\ \A c \in VoteChoices : props[p].tally[c] = Weighed(votes[p], c)
BY DEF TallyIsVotes, Voted, Weighed

\* A step that leaves votes and totals alone.
LEMMA BooksRest ==
    ASSUME Books, TypeOK', IsFiniteSet(stakes'), UNCHANGED votes, Existing' = Existing,
           \A p \in Existing : props'[p].tally = props[p].tally /\ props'[p].count = props[p].count
    PROVE  Books'
<1>1. TallyIsVotes'
  BY DEF Books, TallyIsVotes
<1> QED
  BY <1>1 DEF Books

LEMMA InitBooks == Init => Books
<1> SUFFICES ASSUME Init PROVE Books
  OBVIOUS
<1>1. TypeOK
  BY InitialStakesAssumption DEF Init, TypeOK, Existing, NoVote, BondStatuses
<1>2. IsFiniteSet(stakes) /\ Existing = {}
  BY InitialStakesAssumption DEF Init, Existing
<1> QED
  BY <1>1, <1>2 DEF Init, Books, TallyIsVotes, NoVote

LEMMA BooksWeighable == Books => Weighable
BY DEF Books, TypeOK, Weighable

LEMMA StakeBooks == ASSUME Books, NEW v \in Voters, NEW l \in Locks, Stake(v, l) PROVE Books'
<1> DEFINE s == [owner |-> v, weight |-> l.weight, until |-> now + l.days]
<1>1. s \in [owner : Voters, weight : Nat, until : Nat] /\ stakes' = stakes \cup {s}
  BY LocksAssumption DEF Stake, Books, TypeOK
<1> HIDE DEF s
<1>2. TypeOK' /\ Existing' = Existing
  BY <1>1 DEF Stake, Books, TypeOK, Existing
<1>3. IsFiniteSet(stakes')
  BY <1>1, FS_AddElement DEF Books
<1> QED
  BY <1>2, <1>3, BooksRest DEF Stake

LEMMA UnstakeBooks == ASSUME Books, NEW s \in stakes, Unstake(s) PROVE Books'
<1>1. TypeOK' /\ Existing' = Existing
  BY DEF Unstake, Books, TypeOK, Existing
<1>2. IsFiniteSet(stakes')
  BY FS_Subset DEF Unstake, Books
<1> QED
  BY <1>1, <1>2, BooksRest DEF Unstake

LEMMA CreateBooks ==
    ASSUME Books, NEW v \in Voters, NEW p \in Proposals, NEW b \in Blocks, CreateProposal(v, p, b)
    PROVE  Books'
<1>1. snaps' \in [Blocks -> Seq([Voters -> Nat])]
  <2>1. PICK written \in SUBSET Voters :
            snaps' = [snaps EXCEPT ![b] =
                        Append(@, [u \in Voters |-> IF u \in written THEN Capped(u) ELSE 0])]
    BY DEF CreateProposal
  <2>2. [u \in Voters |-> IF u \in written THEN Capped(u) ELSE 0] \in [Voters -> Nat]
    BY CappedNat, BooksWeighable
  <2> QED
    BY <2>1, <2>2 DEF Books, TypeOK
<1>2. UNCHANGED <<now, stakes, votes, inForce, torn>>
  BY DEF CreateProposal
<1>3. CASE UNCHANGED <<props, bonds>>
  <2>1. TypeOK' /\ Existing' = Existing
    BY <1>1, <1>2, <1>3 DEF Books, TypeOK, Existing
  <2> QED
    BY <1>2, <1>3, <2>1, BooksRest DEF Books
<1>4. CASE /\ p \notin Existing
           /\ props' = [q \in Existing \cup {p} |->
                         IF q = p THEN NewRow(Kind[p], b, snaps'[b]) ELSE props[q]]
           /\ bonds' = [bonds EXCEPT ![p] = "locked"]
  <2> DEFINE r == NewRow(Kind[p], b, snaps'[b])
  <2>1. SnapshotTotal(snaps'[b]) \in Nat
    BY <1>1, SnapshotTotalNat
  <2>2. /\ r \in ProposalRow /\ r.count = 0 /\ \A c \in VoteChoices : r.tally[c] = 0
    BY <2>1, KindAssumption DEF NewRow, ProposalRow, Statuses, Books, TypeOK
  <2> HIDE DEF r
  <2>3. /\ Existing' = Existing \cup {p} /\ props'[p] = r
        /\ \A q \in Existing : props'[q] = props[q]
        /\ props' = [q \in Existing' |-> props'[q]]
    BY <1>4 DEF Existing, r
  <2>4. props' \in [Existing' -> ProposalRow]
    BY <2>2, <2>3 DEF Books, TypeOK
  <2>5. TypeOK'
    BY <1>1, <1>2, <1>4, <2>3, <2>4 DEF Books, TypeOK, BondStatuses
  <2>6. \A c \in VoteChoices : Weighed(votes[p], c) = 0
    <3> SUFFICES ASSUME NEW c \in VoteChoices PROVE Weighed(votes[p], c) = 0
      OBVIOUS
    <3>1. votes[p] \in [Voters -> Ballot] /\ \A u \in Voters : votes[p][u] = NoVote
      BY <1>4 DEF Books, TypeOK, Ballot
    <3>2. \A u \in Voters : Given(votes[p], c)[u] = 0
      BY <3>1 DEF Given, NoVote, VoteChoices
    <3>3. SumFunctionOnSet(Given(votes[p], c), Voters) = 0
      BY <3>2, SumZero, VotersAssumption
    <3> QED
      BY <3>1, <3>3, WeighedGiven
  <2>7. Cardinality(Voted(votes[p])) = 0
    <3>1. Voted(votes[p]) = {}
      BY <1>4 DEF Books, Voted
    <3> QED
      BY <3>1, FS_EmptySet
  <2>8. TallyIsVotes'
    <3>1. \A q \in Existing' :
              /\ props'[q].count = Cardinality(Voted(votes'[q]))
              /\ \A c \in VoteChoices : props'[q].tally[c] = Weighed(votes'[q], c)
      BY <1>2, <2>2, <2>3, <2>6, <2>7, TalliesAre DEF Books
    <3> QED
      BY <3>1 DEF TallyIsVotes, Voted, Weighed
  <2> QED
    BY <1>2, <2>3, <2>5, <2>8 DEF Books
<1> QED
  BY <1>3, <1>4 DEF CreateProposal

\* A step that rewrites one row, but not its totals.
LEMMA RowBooks ==
    ASSUME Books, NEW p \in Existing, NEW r \in ProposalRow,
           r.tally = props[p].tally, r.count = props[p].count,
           props' \in {props, [props EXCEPT ![p] = r]},
           bonds' \in [Proposals -> BondStatuses], torn' \subseteq Proposals,
           inForce' \subseteq [by : Proposals, at : Nat],
           UNCHANGED <<now, stakes, snaps, votes>>
    PROVE  Books'
<1>1. /\ Existing' = Existing /\ props' \in [Existing' -> ProposalRow]
      /\ \A q \in Existing : props'[q].tally = props[q].tally /\ props'[q].count = props[q].count
  BY DEF Existing, Books, TypeOK
<1>2. TypeOK'
  BY <1>1 DEF Books, TypeOK
<1> QED
  BY <1>1, <1>2, BooksRest DEF Books

LEMMA SettleBooks ==
    ASSUME Books, NEW p \in Existing, NEW r \in ProposalRow, NEW bond \in BondStatuses,
           r.tally = props[p].tally, r.count = props[p].count, Settle(p, bond, r)
    PROVE  Books'
<1>1. /\ props' \in {props, [props EXCEPT ![p] = r]}
      /\ bonds' \in [Proposals -> BondStatuses] /\ torn' \subseteq Proposals
      /\ UNCHANGED <<now, stakes, snaps, votes, inForce>>
  BY DEF Settle, Books, TypeOK
<1> QED
  BY <1>1, RowBooks DEF Books, TypeOK

\* A row before its totals are known to be naturals.
IntRow ==
    [status : Statuses, kind : Kinds, block : Blocks,
     created : Nat, timelock : Nat, executed : Nat, total : Nat,
     tally : [VoteChoices -> Int], count : Int]

\* Other totals change nothing else.
Retally(r, t, n) == [r EXCEPT !.tally = t, !.count = n]

LEMMA Retallied ==
    ASSUME NEW r \in IntRow, NEW t \in [VoteChoices -> Int], NEW n \in Int
    PROVE  LET new == Retally(r, t, n)
           IN  /\ new \in IntRow /\ new.tally = t /\ new.count = n
               /\ new.kind = r.kind /\ new.block = r.block /\ new.created = r.created
               /\ new.timelock = r.timelock /\ new.executed = r.executed
               /\ new.total = r.total /\ new.status = r.status
BY DEF IntRow, Retally

LEMMA VoteBooks ==
    ASSUME Books, NEW p \in Existing, NEW v \in Voters, NEW c \in VoteChoices, Vote(p, v, c)
    PROVE  Books'
<1> DEFINE r == props[p]
           old == votes[p][v]
           w == votes[p]
           weight == VotingWeight(r.block, v)
           x == [choice |-> c, weight |-> weight]
           kept == Retracted(r, old)
           new == [kept EXCEPT !.status = "active", !.tally[c] = @ + weight, !.count = @ + 1]
<1>1. /\ p \in Proposals /\ r \in ProposalRow /\ w \in [Voters -> Ballot] /\ old \in Ballot
      /\ old.choice = "none" => old = NoVote
  BY DEF Books, TypeOK, Ballot
<1>2. weight \in Nat
  BY <1>1, VotingWeightNat, BooksWeighable DEF ProposalRow
<1>3. /\ props' = [props EXCEPT ![p] = new]
      /\ votes' = [votes EXCEPT ![p][v] = x]
      /\ UNCHANGED <<now, stakes, snaps, bonds, inForce, torn>>
  BY DEF Vote
<1> HIDE DEF weight
<1>4. x \in Ballot /\ x # NoVote
  BY <1>2 DEF Ballot, NoVote, VoteChoices
<1>5. /\ votes'[p] = [w EXCEPT ![v] = x]
      /\ \A q \in Proposals \ {p} : votes'[q] = votes[q]
      /\ votes' \in [Proposals -> [Voters -> Ballot]]
  BY <1>1, <1>3, <1>4 DEF Books, TypeOK, Ballot
<1>6. VoteChanged(w, votes'[p], v)
  BY <1>1, <1>4, <1>5 DEF VoteChanged
<1>7. /\ r.count = Cardinality(Voted(w))
      /\ \A d \in VoteChoices : r.tally[d] = Weighed(w, d) /\ Weighed(w, d) \in Nat
  BY <1>1, TalliesAre, WeighedGiven DEF Books
<1>8. \A d \in VoteChoices :
        kept.tally[d] = Weighed(w, d) - Part(old, d)
  BY <1>1, <1>7 DEF Retracted, Part, ProposalRow, NoVote, Ballot, VoteChoices
<1>9. kept.count = IF old = NoVote THEN r.count ELSE r.count - 1
  BY <1>1 DEF Retracted, ProposalRow
<1>10. /\ kept \in IntRow /\ c \in DOMAIN kept.tally
      /\ kept.kind = r.kind /\ kept.block = r.block /\ kept.created = r.created
      /\ kept.timelock = r.timelock /\ kept.executed = r.executed /\ kept.total = r.total
  <2>1. CASE old = NoVote
    BY <1>1, <2>1 DEF Retracted, ProposalRow, IntRow
  <2>2. CASE old # NoVote
    <3>1. old.choice \in VoteChoices /\ old.weight \in Nat
      BY <1>1, <2>2 DEF Ballot
    <3> HIDE DEF old
    <3>2. kept = [r EXCEPT !.tally[old.choice] = @ - old.weight, !.count = @ - 1]
      BY <2>2 DEF Retracted
    <3> DEFINE t == [r.tally EXCEPT ![old.choice] = @ - old.weight]
               n == r.count - 1
    <3>3. r \in IntRow /\ t \in [VoteChoices -> Int] /\ n \in Int
      BY <1>1, <3>1 DEF ProposalRow, IntRow
    <3>4. kept = Retally(r, t, n)
      BY <3>2 DEF Retally
    <3> HIDE DEF r, kept, t, n
    <3> QED
      BY <3>3, <3>4, Retallied
  <2> QED
    BY <2>1, <2>2
<1> HIDE DEF kept
<1>11. /\ new \in IntRow
       /\ new.status = "active"
       /\ new.kind = r.kind /\ new.block = r.block /\ new.created = r.created
       /\ new.timelock = r.timelock /\ new.executed = r.executed /\ new.total = r.total
       /\ new.count = kept.count + 1
       /\ \A d \in VoteChoices : new.tally[d] = IF d = c THEN kept.tally[d] + weight
                                                         ELSE kept.tally[d]
  <2> DEFINE k == [kept EXCEPT !.status = "active"]
             t == [kept.tally EXCEPT ![c] = @ + weight]
             n == kept.count + 1
  <2>1. /\ k \in IntRow /\ k.status = "active"
        /\ k.kind = kept.kind /\ k.block = kept.block /\ k.created = kept.created
        /\ k.timelock = kept.timelock /\ k.executed = kept.executed /\ k.total = kept.total
        /\ k.tally = kept.tally /\ k.count = kept.count
    BY <1>10 DEF IntRow, Statuses
  <2>2. /\ t \in [VoteChoices -> Int] /\ n \in Int
        /\ \A d \in VoteChoices : t[d] = IF d = c THEN kept.tally[d] + weight ELSE kept.tally[d]
    BY <1>2, <1>10 DEF IntRow
  <2>3. new = Retally(k, t, n)
    BY <2>1 DEF Retally
  <2>4. n = kept.count + 1
    OBVIOUS
  <2> HIDE DEF new, k, t, n
  <2>5. /\ new \in IntRow /\ new.tally = t /\ new.count = n
        /\ new.kind = k.kind /\ new.block = k.block /\ new.created = k.created
        /\ new.timelock = k.timelock /\ new.executed = k.executed
        /\ new.total = k.total /\ new.status = k.status
    BY <2>1, <2>2, <2>3, Retallied
  <2> QED
    BY <1>10, <2>1, <2>2, <2>4, <2>5
<1> HIDE DEF new, r
<1>12. \A d \in VoteChoices : new.tally[d] = Weighed(votes'[p], d) /\ new.tally[d] \in Nat
  <2> SUFFICES ASSUME NEW d \in VoteChoices
               PROVE  new.tally[d] = Weighed(votes'[p], d) /\ new.tally[d] \in Nat
    OBVIOUS
  <2>1. Weighed(votes'[p], d) = Weighed(w, d) - Part(old, d) + Part(x, d)
    <3>1. Weighed(votes'[p], d) = Weighed(w, d) - Part(w[v], d) + Part(votes'[p][v], d)
      BY <1>6, Rewritten
    <3> QED
      BY <1>1, <1>5, <3>1
  <2>2. Weighed(votes'[p], d) \in Nat
    BY <1>1, <1>5, WeighedGiven
  <2>3. Part(x, d) = IF d = c THEN weight ELSE 0
    BY DEF Part
  <2>4. Part(old, d) \in Nat /\ Weighed(w, d) \in Nat
    BY <1>1, <1>7 DEF Part, Ballot
  <2>5. new.tally[d] = Weighed(w, d) - Part(old, d) + Part(x, d)
    BY <1>2, <1>8, <1>11, <2>3, <2>4
  <2> QED
    BY <2>1, <2>2, <2>5
<1>13. new.count = Cardinality(Voted(votes'[p])) /\ new.count \in Nat
  <2>1. /\ Cardinality(Voted(w)) \in Nat
        /\ Cardinality(Voted(votes'[p]))
             = IF old = NoVote THEN Cardinality(Voted(w)) + 1 ELSE Cardinality(Voted(w))
    BY <1>6, Counted
  <2> QED
    BY <2>1, <1>7, <1>9, <1>11
<1>14. new \in ProposalRow
  <2>1. new.tally \in [VoteChoices -> Nat]
    BY <1>11, <1>12 DEF IntRow
  <2> QED
    BY <1>11, <1>13, <2>1 DEF ProposalRow, IntRow
<1>15. /\ Existing' = Existing /\ props'[p] = new
       /\ \A q \in Existing \ {p} : props'[q] = props[q]
       /\ props' \in [Existing' -> ProposalRow]
  BY <1>3, <1>14 DEF Existing, Books, TypeOK
<1>16. TypeOK'
  BY <1>3, <1>5, <1>15 DEF Books, TypeOK, Ballot
<1>17. \A q \in Existing' :
           /\ props'[q].count = Cardinality(Voted(votes'[q]))
           /\ \A d \in VoteChoices : props'[q].tally[d] = Weighed(votes'[q], d)
  <2> SUFFICES ASSUME NEW q \in Existing
               PROVE  /\ props'[q].count = Cardinality(Voted(votes'[q]))
                      /\ \A d \in VoteChoices : props'[q].tally[d] = Weighed(votes'[q], d)
    BY <1>15
  <2>1. q \in Proposals
    BY DEF Books, TypeOK
  <2>2. CASE q = p
    BY <1>12, <1>13, <1>15, <2>2
  <2>3. CASE q # p
    BY <1>5, <1>15, <2>1, <2>3, TalliesAre DEF Books
  <2> QED
    BY <2>2, <2>3
<1>18. TallyIsVotes'
  BY <1>17 DEF TallyIsVotes, Voted, Weighed
<1>19. \A q \in Proposals, u \in Voters :
           votes'[q][u].choice = "none" => votes'[q][u] = NoVote
  BY <1>1, <1>4, <1>5 DEF Books, VoteChoices
<1>20. \A q \in Proposals \ Existing', u \in Voters : votes'[q][u] = NoVote
  BY <1>5, <1>15 DEF Books
<1> QED
  BY <1>3, <1>16, <1>18, <1>19, <1>20 DEF Books

\* A status and the times beside it are written; the totals stay.
LEMMA RowWritten ==
    ASSUME Books, NEW p \in Existing, NEW s \in Statuses, NEW n \in Nat
    PROVE  LET r == props[p]
               Kept(x) == x \in ProposalRow /\ x.tally = r.tally /\ x.count = r.count
           IN  /\ Kept([r EXCEPT !.status = s])
               /\ Kept([r EXCEPT !.status = s, !.timelock = n])
               /\ Kept([r EXCEPT !.status = s, !.executed = n])
<1>1. props[p] \in ProposalRow
  BY DEF Books, TypeOK
<1>2. ASSUME NEW r \in ProposalRow
      PROVE  LET Kept(x) == x \in ProposalRow /\ x.tally = r.tally /\ x.count = r.count
             IN  /\ Kept([r EXCEPT !.status = s])
                 /\ Kept([r EXCEPT !.status = s, !.timelock = n])
                 /\ Kept([r EXCEPT !.status = s, !.executed = n])
  BY DEF ProposalRow
<1> QED
  BY <1>1, <1>2

LEMMA ActivateBooks == ASSUME Books, NEW p \in Existing, ActivateProposal(p) PROVE Books'
<1> DEFINE r == [props[p] EXCEPT !.status = "active"]
<1>1. r \in ProposalRow /\ r.tally = props[p].tally /\ r.count = props[p].count
  BY 0 \in Nat, RowWritten DEF Statuses
<1>2. props' = [props EXCEPT ![p] = r]
  BY DEF ActivateProposal, WithStatus
<1> HIDE DEF r
<1> QED
  BY <1>1, <1>2, RowBooks DEF ActivateProposal, Books, TypeOK

LEMMA FinalizeBooks == ASSUME Books, NEW p \in Existing, FinalizeProposal(p) PROVE Books'
<1> DEFINE r == IF ~IsPassed(props[p]) THEN [props[p] EXCEPT !.status = "rejected"]
                ELSE IF props[p].kind = "emergency" THEN [props[p] EXCEPT !.status = "passed"]
                ELSE [props[p] EXCEPT !.status = "queued", !.timelock = now + Timelock]
           bond == FinalizedBond(IsPassed(props[p]))
<1>1. now + Timelock \in Nat
  BY TimesAreNat DEF Times, Books, TypeOK
<1>2. r \in ProposalRow /\ r.tally = props[p].tally /\ r.count = props[p].count
  BY <1>1, 0 \in Nat, RowWritten DEF Statuses
<1>3. Settle(p, bond, r) /\ bond \in BondStatuses
  BY DEF FinalizeProposal, FinalizedBond, BondStatuses
<1> HIDE DEF r, bond
<1> QED
  BY <1>2, <1>3, SettleBooks

LEMMA CancelBooks == ASSUME Books, NEW p \in Existing, CancelProposal(p) PROVE Books'
<1> DEFINE r == [props[p] EXCEPT !.status = "cancelled"]
<1>1. r \in ProposalRow /\ r.tally = props[p].tally /\ r.count = props[p].count
  BY 0 \in Nat, RowWritten DEF Statuses
<1>2. Settle(p, CancelledBond, r) /\ CancelledBond \in BondStatuses
  BY DEF CancelProposal, CancelledBond, BondStatuses
<1> HIDE DEF r
<1> QED
  BY <1>1, <1>2, SettleBooks

LEMMA ExecuteBooks == ASSUME Books, NEW p \in Existing, ExecuteProposal(p) PROVE Books'
<1> DEFINE r == [props[p] EXCEPT !.status = "executed", !.executed = now]
<1>1. r \in ProposalRow /\ r.tally = props[p].tally /\ r.count = props[p].count
  <2>1. now \in Nat
    BY DEF Books, TypeOK
  <2> QED
    BY <2>1, RowWritten DEF Statuses
<1>2. props' = [props EXCEPT ![p] = r] \/ UNCHANGED props
  BY DEF ExecuteProposal
<1>3. inForce' \subseteq [by : Proposals, at : Nat]
  BY DEF ExecuteProposal, Books, TypeOK
<1> HIDE DEF r
<1> QED
  BY <1>1, <1>2, <1>3, RowBooks DEF ExecuteProposal, Books, TypeOK

LEMMA ExpireBooks == ASSUME Books, ExpireProposals PROVE Books'
<1>1. PICK done \in SUBSET Existing, cut \in SUBSET Existing :
        /\ props' = [p \in Existing |->
                        IF p \in done THEN [props[p] EXCEPT !.status = "expired"] ELSE props[p]]
        /\ bonds' = [p \in Proposals |->
                        IF p \in done \ cut THEN "returned_25%" ELSE bonds[p]]
        /\ torn' = (torn \ done) \cup cut
  BY DEF ExpireProposals
<1>2. UNCHANGED <<now, stakes, snaps, votes, inForce>> /\ Existing' = Existing
  BY <1>1 DEF ExpireProposals, Existing
<1>3. \A p \in Existing : /\ props'[p] \in ProposalRow
                          /\ props'[p].tally = props[p].tally /\ props'[p].count = props[p].count
  <2> SUFFICES ASSUME NEW p \in Existing
               PROVE  /\ props'[p] \in ProposalRow
                      /\ props'[p].tally = props[p].tally /\ props'[p].count = props[p].count
    OBVIOUS
  <2>1. props[p] \in ProposalRow
    BY DEF Books, TypeOK
  <2>2. props'[p] = IF p \in done THEN [props[p] EXCEPT !.status = "expired"] ELSE props[p]
    BY <1>1
  <2> QED
    BY <2>1, <2>2 DEF ProposalRow, Statuses
<1>4. props' \in [Existing' -> ProposalRow]
  BY <1>1, <1>2, <1>3
<1>5. TypeOK'
  BY <1>1, <1>2, <1>4 DEF Books, TypeOK, BondStatuses
<1> QED
  BY <1>2, <1>3, <1>5, BooksRest DEF Books

LEMMA TickBooks == ASSUME Books, Tick \/ UNCHANGED vars PROVE Books'
<1>1. now' \in Nat /\ UNCHANGED <<stakes, snaps, props, bonds, votes, inForce, torn>>
  BY DEF Tick, vars, Books, TypeOK
<1>2. TypeOK' /\ Existing' = Existing
  BY <1>1 DEF Books, TypeOK, Existing
<1> QED
  BY <1>1, <1>2, BooksRest DEF Books

LEMMA BooksInvariance == Spec => []Books
<1>1. ASSUME Books, [Next]_vars PROVE Books'
  <2>1. CASE Tick \/ UNCHANGED vars
    BY <1>1, <2>1, TickBooks
  <2>2. CASE \E v \in Voters, l \in Locks : Stake(v, l)
    BY <1>1, <2>2, StakeBooks
  <2>3. CASE \E s \in stakes : Unstake(s)
    BY <1>1, <2>3, UnstakeBooks
  <2>4. CASE \E v \in Voters, p \in Proposals, b \in Blocks : CreateProposal(v, p, b)
    BY <1>1, <2>4, CreateBooks
  <2>5. ASSUME NEW p \in Existing,
               \/ ActivateProposal(p)
               \/ \E v \in Voters, c \in VoteChoices : Vote(p, v, c)
               \/ FinalizeProposal(p)
               \/ CancelProposal(p)
               \/ ExecuteProposal(p)
        PROVE  Books'
    BY <1>1, <2>5, ActivateBooks, VoteBooks, FinalizeBooks, CancelBooks, ExecuteBooks
  <2>6. CASE ExpireProposals
    BY <1>1, <2>6, ExpireBooks
  <2> QED
    BY <1>1, <2>1, <2>2, <2>3, <2>4, <2>5, <2>6 DEF Next
<1> QED
  BY InitBooks, <1>1, PTL DEF Spec

-----------------------------------------------------------------------------
(* The theorems. *)

\* Every step keeps the invariant.
THEOREM Invariance == Spec => []IInv
<1>1. ASSUME IInv, [Next]_vars PROVE IInv'
  <2>1. CASE Tick
    BY <1>1, <2>1, RowsSame DEF Tick, IInv
  <2>2. CASE \E v \in Voters, l \in Locks : Stake(v, l)
    BY <1>1, <2>2, RowsSame DEF Stake, IInv
  <2>3. CASE \E s \in stakes : Unstake(s)
    BY <1>1, <2>3, RowsSame DEF Unstake, IInv
  <2>4. CASE \E v \in Voters, p \in Proposals, b \in Blocks : CreateProposal(v, p, b)
    BY <1>1, <2>4, CreateKeeps
  <2>5. ASSUME NEW p \in Existing,
               \/ ActivateProposal(p)
               \/ \E v \in Voters, c \in VoteChoices : Vote(p, v, c)
               \/ FinalizeProposal(p)
               \/ CancelProposal(p)
               \/ ExecuteProposal(p)
        PROVE  IInv'
    BY <1>1, <2>5, ActivateKeeps, VoteKeeps, FinalizeKeeps, CancelKeeps, ExecuteKeeps
  <2>6. CASE ExpireProposals
    BY <1>1, <2>6, ExpireKeeps
  <2>7. CASE UNCHANGED vars
    BY <1>1, <2>7, RowsSame DEF vars, IInv
  <2> QED
    BY <1>1, <2>1, <2>2, <2>3, <2>4, <2>5, <2>6, <2>7 DEF Next
<1> QED
  BY InitIInv, <1>1, PTL DEF Spec

\* The parameter in force, and every proposal on the books as executed, was
\* approved by the votes still on the books, after its vote and its timelock
\* (finalize_proposal, execute_proposal).
THEOREM InForceApproved == Spec => []InForceIsApproved
<1>1. IInv => InForceIsApproved
  BY DEF IInv, InForceIsApproved, RowInv
<1> QED
  BY <1>1, Invariance, PTL

\* The bonds table says of every proposal what its status calls for, but where
\* a crash fell between the two transactions (_return_bond, _burn_bond).
THEOREM BondsFollow == Spec => []BondFollowsStatus
<1>1. IInv => BondFollowsStatus
  BY DEF IInv, BondFollowsStatus
<1> QED
  BY <1>1, Invariance, PTL

\* The tables keep their shapes, and no total of votes ever falls below zero,
\* whatever the voters' weights do between a vote and its change (vote).
THEOREM TypeCorrect == Spec => []TypeOK
<1>1. Books => TypeOK
  BY DEF Books
<1> QED
  BY <1>1, BooksInvariance, PTL

\* The totals and the count a proposal is judged by are the sums of its rows of
\* votes, every voter counted once, however often votes are changed (vote).
THEOREM TalliesAreVotes == Spec => []TallyIsVotes
<1>1. Books => TallyIsVotes
  BY DEF Books
<1> QED
  BY <1>1, BooksInvariance, PTL
=============================================================================
