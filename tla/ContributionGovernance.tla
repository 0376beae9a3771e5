------------------------ MODULE ContributionGovernance ------------------------
(* Contribution-weighted governance (core/contribution_governance.py), as the  *)
(* RPC service drives it (contrib_* methods): stakes give weight, a proposal   *)
(* takes a snapshot of the weights, locks a bond, is voted on, finalized and   *)
(* executed after its timelock.                                                *)
(*                                                                             *)
(* Every method opens its own SQLite transactions and the RPC server runs one  *)
(* request at a time, so nothing interleaves with a handler but a crash of the *)
(* process: where a handler commits twice, its action has one disjunct for the *)
(* whole and one for the part before a crash. `torn` is a ghost: the proposals *)
(* whose settlement a crash cut in two.                                        *)
(*                                                                             *)
(* Weights come from stakes only: record_gpu_hours and record_main_paid have   *)
(* no caller in the repository. Weights are whole numbers of a unit in which   *)
(* every capped weight is whole. The proposal's bond_status label repeats the  *)
(* bond row and is left out; all proposals set the one parameter modelled.     *)
EXTENDS Integers, Sequences, FiniteSets, Functions

CONSTANTS
    Voters,          \* addresses
    Foundation,      \* the addresses param "foundation_addresses" lists
    Proposals,       \* proposal ids
    Kind,            \* [Proposals -> Kinds]: what each of them is about
    Blocks,          \* heights a caller names as current_block
    Locks,           \* stakes on offer: [weight, days], the lock factor counted in
    InitialStakes,   \* the stakes of the database a run begins with
    MaxStakes,       \* bound: stakes of one address at a time
    MaxSnapshots,    \* bound: snapshots taken at one height
    MaxVotes,        \* bound: rows of votes
    MaxTime,         \* bound: the clock, in days
    Cooldown, VotingPeriod, EmergencyPeriod, Timelock, ExpireAfter,
    PageSize,        \* rows get_proposals returns (50)
    CapPercent, QuorumPercent, MinProposerWeight,
    Threshold,       \* [Kinds -> percent of support]
    MinSupport       \* [Kinds -> weight]

\* LOW, HIGH and EMERGENCY (MEDIUM) proposals; features differ from them in numbers only.
Kinds == {"param", "security", "emergency"}
VoteChoices == {"support", "oppose", "abstain"}

ASSUME VotersAssumption == IsFiniteSet(Voters) /\ Foundation \subseteq Voters
ASSUME KindAssumption == Kind \in [Proposals -> Kinds]
ASSUME LocksAssumption == Locks \subseteq [weight : Nat \ {0}, days : Nat \ {0}]
ASSUME InitialStakesAssumption ==
    /\ InitialStakes \subseteq [owner : Voters, weight : Nat \ {0}, until : Nat]
    /\ IsFiniteSet(InitialStakes)
ASSUME TimesAssumption ==
    {Cooldown, VotingPeriod, EmergencyPeriod, Timelock, ExpireAfter} \subseteq Nat
ASSUME BoundsAssumption ==
    {MaxStakes, MaxSnapshots, MaxVotes, MaxTime, PageSize} \subseteq Nat
ASSUME ThresholdsAssumption ==
    /\ {CapPercent, QuorumPercent, MinProposerWeight} \subseteq Nat \ {0}
    /\ Threshold \in [Kinds -> Nat \ {0}]
    /\ MinSupport \in [Kinds -> Nat]

VARIABLES
    now,       \* the clock
    stakes,    \* rows of stakes: [owner, weight, until]
    snaps,     \* [Blocks -> sequence of snapshots, each [Voters -> capped weight]]
    props,     \* rows of proposals, by id
    bonds,     \* status column of bonds, by proposal
    votes,     \* rows of votes, by proposal and voter
    inForce,   \* the row of params, if any: [by, at]
    torn       \* ghost: proposals whose settlement a crash cut

vars == <<now, stakes, snaps, props, bonds, votes, inForce, torn>>

Statuses == {"pending", "active", "queued", "passed", "rejected",
             "executed", "cancelled", "expired"}
BondStatuses == {"none", "locked", "returned", "returned_25%", "burned_50%", "burned_100%"}

NoVote == [choice |-> "none", weight |-> 0]

ProposalRow ==
    [status : Statuses, kind : Kinds, block : Blocks,
     created : Nat, timelock : Nat, executed : Nat, total : Nat,
     tally : [VoteChoices -> Nat], count : Nat]

-------------------------------------------------------------------------------
(* Weights *)

\* get_stake_weight: the stakes still locked.
Weight(v) ==
    SumFunctionOnSet([s \in stakes |-> s.weight], {s \in stakes : s.owner = v /\ s.until > now})

\* get_network_total_weight
NetworkWeight == SumFunctionOnSet([v \in Voters |-> Weight(v)], Voters)

\* apply_cap
Capped(v) ==
    LET cap == (NetworkWeight * CapPercent) \div 100
    IN  IF Weight(v) > cap THEN cap ELSE Weight(v)

\* check_proposer_eligibility, get_min_proposer_weight (0.1% of the network)
Eligible(v) ==
    /\ v \notin Foundation
    /\ Capped(v) >= MinProposerWeight
    /\ 1000 * Capped(v) >= NetworkWeight

\* get_snapshot_total: the rows of every snapshot ever taken at the height.
SnapshotTotal(rows) ==
    SumFunctionOnSet([i \in DOMAIN rows |-> SumFunctionOnSet(rows[i], Voters)], DOMAIN rows)

\* get_snapshot_weight, and the fallback of vote: the oldest row at the height
\* that lists the voter, else the weight of the moment.
VotingWeight(b, v) ==
    LET listed == {i \in DOMAIN snaps[b] : snaps[b][i][v] > 0}
    IN  IF listed = {} THEN Capped(v)
        ELSE snaps[b][CHOOSE i \in listed : \A j \in listed : i <= j][v]

-------------------------------------------------------------------------------
(* Proposals *)

CooldownEnds(r) == IF r.kind = "emergency" THEN r.created ELSE r.created + Cooldown

VotingEnds(r) ==
    CooldownEnds(r) + (IF r.kind = "emergency" THEN EmergencyPeriod ELSE VotingPeriod)

\* Proposal.is_passed: quorum, approval, majority and minimum support.
IsPassed(r) ==
    LET support == r.tally["support"]
        oppose == r.tally["oppose"]
        voted == support + oppose + r.tally["abstain"]
    IN  /\ r.total > 0
        /\ 100 * voted >= QuorumPercent * r.total
        /\ 100 * support >= Threshold[r.kind] * (support + oppose)
        /\ support > oppose
        /\ support >= MinSupport[r.kind]

\* The status column: a row that can be voted on, or become so.
Open(r) == r.status \in {"pending", "active"}

Existing == DOMAIN props

\* The row create_proposal inserts.
NewRow(k, b, rows) ==
    [status |-> "pending", kind |-> k, block |-> b,
     created |-> now, timelock |-> 0, executed |-> 0,
     total |-> SnapshotTotal(rows), tally |-> [c \in VoteChoices |-> 0], count |-> 0]

WithStatus(p, s) == [props EXCEPT ![p].status = s]

-------------------------------------------------------------------------------
Init ==
    /\ now = 0
    /\ stakes = InitialStakes
    /\ snaps = [b \in Blocks |-> <<>>]
    /\ props = [p \in {} |-> <<>>]
    /\ bonds = [p \in Proposals |-> "none"]
    /\ votes = [p \in Proposals |-> [v \in Voters |-> NoVote]]
    /\ inForce = {}
    /\ torn = {}

Tick ==
    /\ now < MaxTime
    /\ now' = now + 1
    /\ UNCHANGED <<stakes, snaps, props, bonds, votes, inForce, torn>>

Stake(v, l) ==
    /\ Cardinality({s \in stakes : s.owner = v}) < MaxStakes
    /\ stakes' = stakes \cup {[owner |-> v, weight |-> l.weight, until |-> now + l.days]}
    /\ UNCHANGED <<now, snaps, props, bonds, votes, inForce, torn>>

Unstake(s) ==
    /\ s.until <= now
    /\ stakes' = stakes \ {s}
    /\ UNCHANGED <<now, snaps, props, bonds, votes, inForce, torn>>

\* create_proposal: the snapshot is written first, row by row in transactions of
\* its own, so that a process that dies may leave a part of it. The proposal and
\* its bond follow in one, unless the process dies there or the id (second of
\* creation, six digits of the title's hash) is taken.
CreateProposal(v, p, b) ==
    /\ Eligible(v)
    /\ Len(snaps[b]) < MaxSnapshots
    /\ \E written \in SUBSET Voters :
        /\ snaps' = [snaps EXCEPT ![b] =
                        Append(@, [u \in Voters |-> IF u \in written THEN Capped(u) ELSE 0])]
        /\ \/ UNCHANGED <<props, bonds>>
           \/ /\ written = Voters /\ p \notin Existing
              /\ props' = [q \in Existing \cup {p} |->
                             IF q = p THEN NewRow(Kind[p], b, snaps'[b]) ELSE props[q]]
              /\ bonds' = [bonds EXCEPT ![p] = "locked"]
    /\ UNCHANGED <<now, stakes, votes, inForce, torn>>

\* activate_proposal, and the activation a vote commits before its other checks.
ActivateProposal(p) ==
    /\ props[p].status = "pending"
    /\ now >= CooldownEnds(props[p])
    /\ props' = WithStatus(p, "active")
    /\ UNCHANGED <<now, stakes, snaps, bonds, votes, inForce, torn>>

\* Faulty: the old vote stays in the totals, or is always taken from support.
RetractedNot(r, old) == r
RetractedFromSupport(r, old) ==
    IF old = NoVote THEN r
    ELSE [r EXCEPT !.tally["support"] = @ - old.weight, !.count = @ - 1]

\* The totals without the vote that a new one replaces.
Retracted(r, old) ==
    IF old = NoVote THEN r
    ELSE [r EXCEPT !.tally[old.choice] = @ - old.weight, !.count = @ - 1]

Cast == {pv \in Proposals \X Voters : votes[pv[1]][pv[2]] # NoVote}

\* vote: the row of votes and the totals change in one transaction.
Vote(p, v, c) ==
    LET r == props[p]
        weight == VotingWeight(r.block, v)
    IN  /\ v \notin Foundation
        /\ r.status = "active" \/ (r.status = "pending" /\ now >= CooldownEnds(r))
        /\ now <= VotingEnds(r)
        /\ weight > 0
        /\ votes[p][v] # NoVote \/ Cardinality(Cast) < MaxVotes
        /\ votes' = [votes EXCEPT ![p][v] = [choice |-> c, weight |-> weight]]
        /\ props' = [props EXCEPT ![p] =
                [Retracted(r, votes[p][v]) EXCEPT !.status = "active",
                                                 !.tally[c] = @ + weight, !.count = @ + 1]]
        /\ UNCHANGED <<now, stakes, snaps, bonds, inForce, torn>>

-------------------------------------------------------------------------------
(* Settlement: the bond's transaction, then the proposal's *)

\* The bond row each status leaves behind.
BondOf(status) ==
    CASE status \in {"pending", "active"} -> "locked"
      [] status \in {"queued", "passed", "executed"} -> "returned"
      [] status = "rejected" -> "burned_50%"
      [] status = "cancelled" -> "burned_100%"
      [] status = "expired" -> "returned_25%"

\* Faulty: the bond goes back whatever the vote says.
FinalizedBondBack(passed) == "returned"

\* _return_bond, _burn_bond
FinalizedBond(passed) == IF passed THEN "returned" ELSE "burned_50%"
CancelledBond == "burned_100%"

\* Both transactions, the second writing row r; or the first one only.
Settle(p, bond, r) ==
    /\ bonds' = [bonds EXCEPT ![p] = bond]
    /\ \/ /\ props' = [props EXCEPT ![p] = r]
          /\ torn' = torn \ {p}
       \/ /\ torn' = torn \cup {p}
          /\ UNCHANGED props
    /\ UNCHANGED <<now, stakes, snaps, votes, inForce>>

FinalizeProposal(p) ==
    LET r == props[p] IN
    /\ r.status = "active"
    /\ now >= VotingEnds(r)
    /\ Settle(p, FinalizedBond(IsPassed(r)),
              IF ~IsPassed(r) THEN [r EXCEPT !.status = "rejected"]
              ELSE IF r.kind = "emergency" THEN [r EXCEPT !.status = "passed"]
              ELSE [r EXCEPT !.status = "queued", !.timelock = now + Timelock])

\* The proposer, whose name the caller gives, may withdraw it.
CancelProposal(p) ==
    /\ props[p].status \in {"pending", "queued"}
    /\ Settle(p, CancelledBond, [props[p] EXCEPT !.status = "cancelled"])

\* check_and_expire_proposals looks at one page, the newest proposals, and there
\* expires the overdue ones, newest first: the row is marked, then a quarter of
\* the bond returned. A crash stops it after any of them, or between the two.
ExpireProposals ==
    \E page \in SUBSET Existing, done \in SUBSET Existing :
    LET overdue == {p \in page : Open(props[p]) /\ props[p].created < now - ExpireAfter}
        newerIn(S, T) == \A p \in S, q \in T \ S : props[p].created >= props[q].created
    IN  /\ newerIn(page, Existing)
        /\ Cardinality(page) = IF Cardinality(Existing) < PageSize
                               THEN Cardinality(Existing) ELSE PageSize
        /\ done # {} /\ done \subseteq overdue /\ newerIn(done, overdue)
        /\ props' = [p \in Existing |->
                        IF p \in done THEN [props[p] EXCEPT !.status = "expired"] ELSE props[p]]
        /\ \E cut \in SUBSET done :
             /\ Cardinality(cut) <= 1 /\ newerIn(done \ cut, done)
             /\ bonds' = [p \in Proposals |->
                             IF p \in done \ cut THEN "returned_25%" ELSE bonds[p]]
             /\ torn' = (torn \ done) \cup cut
        /\ UNCHANGED <<now, stakes, snaps, votes, inForce>>

-------------------------------------------------------------------------------
(* Execution *)

\* Faulty: the timelock is not looked at.
ReadyEarly(r) == r.status \in {"passed", "queued"}

\* What execute_proposal accepts: a passed emergency, or a queued one after its timelock.
Ready(r) ==
    \/ r.status = "passed"
    \/ r.status = "queued" /\ now >= r.timelock

\* The parameter is written first, unless an executor registered for it raises,
\* which is only noted; a crash before the status is written lets the proposal be
\* executed again, or cancelled.
ExecuteProposal(p) ==
    /\ Ready(props[p])
    /\ inForce' \in {{[by |-> p, at |-> now]}, inForce}
    /\ \/ props' = [props EXCEPT ![p].status = "executed", ![p].executed = now]
       \/ UNCHANGED props
    /\ UNCHANGED <<now, stakes, snaps, bonds, votes, torn>>

Next ==
    \/ Tick
    \/ \E v \in Voters, l \in Locks : Stake(v, l)
    \/ \E s \in stakes : Unstake(s)
    \/ \E v \in Voters, p \in Proposals, b \in Blocks : CreateProposal(v, p, b)
    \/ \E p \in Existing :
         \/ ActivateProposal(p)
         \/ \E v \in Voters, c \in VoteChoices : Vote(p, v, c)
         \/ FinalizeProposal(p)
         \/ CancelProposal(p)
         \/ ExecuteProposal(p)
    \/ ExpireProposals

Spec == Init /\ [][Next]_vars

-------------------------------------------------------------------------------
(* Properties *)

\* Type correctness: every row has its shape, and no total of votes, from which
\* vote() subtracts what a voter gave before, ever falls below zero.
TypeOK ==
    /\ now \in Nat
    /\ stakes \subseteq [owner : Voters, weight : Nat, until : Nat]
    /\ snaps \in [Blocks -> Seq([Voters -> Nat])]
    /\ Existing \subseteq Proposals
    /\ props \in [Existing -> ProposalRow]
    /\ bonds \in [Proposals -> BondStatuses]
    /\ votes \in [Proposals -> [Voters -> [choice : VoteChoices \cup {"none"}, weight : Nat]]]
    /\ inForce \subseteq [by : Proposals, at : Nat]
    /\ torn \subseteq Proposals

\* The totals a proposal is judged by are the sums of its rows of votes, with
\* every voter counted once, however often votes are changed and whatever the
\* voter's weight has become meanwhile (contribution_governance.py:1156-1202).
TallyIsVotes ==
    \A p \in Existing :
        /\ props[p].count = Cardinality({v \in Voters : votes[p][v] # NoVote})
        /\ \A c \in VoteChoices :
             props[p].tally[c] =
                SumFunctionOnSet([v \in Voters |-> votes[p][v].weight],
                                 {v \in Voters : votes[p][v].choice = c})

\* Approved by time t: the votes now on the books pass the proposal, and unless
\* it is an emergency its vote and then its timelock had ended by t.
ApprovedBy(r, t) ==
    /\ r.status \in {"queued", "passed", "executed", "cancelled"}
    /\ IsPassed(r)
    /\ r.kind # "emergency" => t >= VotingEnds(r) + Timelock

\* Whoever calls execute_proposal, and however crashes cut it, the parameter in
\* force and every proposal on the books as executed were approved when they took
\* effect (contribution_governance.py:1306-1361).
InForceIsApproved ==
    /\ \A row \in inForce : row.by \in Existing /\ ApprovedBy(props[row.by], row.at)
    /\ \A p \in Existing : props[p].status = "executed" => ApprovedBy(props[p], props[p].executed)

\* The bonds table says of every proposal what its status calls for, through
\* every sequence of votes, finalizations, cancellations and expiries, but for
\* the proposals a crash caught between the two transactions
\* (contribution_governance.py:1255-1426).
BondFollowsStatus ==
    \A p \in Existing \ torn : bonds[p] = BondOf(props[p].status)

===============================================================================
