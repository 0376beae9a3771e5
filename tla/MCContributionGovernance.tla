---------------------- MODULE MCContributionGovernance ----------------------
(***************************************************************************)
(* Two proposals, one of them an emergency; two voters and a foundation    *)
(* address, each with a stake, the first of which lapses during the vote.  *)
(***************************************************************************)
EXTENDS ContributionGovernance

CONSTANTS v1, v2, f, p1, p2

MCKind == [p \in Proposals |-> IF p = p1 THEN "param" ELSE "emergency"]
MCLocks == {[weight |-> 2, days |-> 3]}
MCInitialStakes == {[owner |-> v1, weight |-> 4, until |-> 2],
                    [owner |-> v2, weight |-> 2, until |-> 4],
                    [owner |-> f,  weight |-> 2, until |-> 4]}
MCThreshold == [k \in Kinds |-> IF k = "security" THEN 75 ELSE 66]
MCMinSupport == [k \in Kinds |-> IF k = "security" THEN 3 ELSE 1]
=============================================================================
