------------------------------ MODULE TargetSet ------------------------------
(***************************************************************************)
(* The validated target list shared by every search path                   *)
(* (crates/pq-vanity/src/targets.rs).  A target is its index in the list;  *)
(* an address is represented by the set of targets that its display string *)
(* matches, which is all that the searches look at.  `active` holds one    *)
(* flag per target, each an atomic of its own in the code.                 *)
(***************************************************************************)
EXTENDS Naturals

CONSTANTS NTargets,   \* number of targets left after parse's deduplication
          KeepFound   \* --keep-found

ASSUME TargetSetAssumption == /\ NTargets \in Nat \ {0}
                              /\ KeepFound \in BOOLEAN

Targets == 1 .. NTargets

\* No target: Option::None of first_match.
NoTarget == 0

\* A target is retired after its first hit in a multi-target search.
Retire == NTargets > 1 /\ ~KeepFound

AllActive == [t \in Targets |-> TRUE]

AnyActive(active) == \E t \in Targets : active[t]

DefaultCount == IF Retire THEN NTargets ELSE 1

\* The active targets that an address matching `matched` can still be a hit for.
Candidates(active, matched) == {t \in matched : active[t]}

FirstMatch(active, matched) ==
    IF Candidates(active, matched) = {}
    THEN NoTarget
    ELSE CHOOSE t \in Candidates(active, matched) :
            \A u \in Candidates(active, matched) : t <= u

\* Mutant of ClaimGranted: a claim that does not look at the flag.
ClaimAlwaysGranted(active, t) == TRUE

\* claim(t): in retiring mode a compare-exchange of the flag from TRUE to
\* FALSE, otherwise always granted and without effect.
ClaimGranted(active, t) == Retire => active[t]

AfterClaim(active, t) == IF Retire THEN [active EXCEPT ![t] = FALSE] ELSE active

\* The target that each hit number was shown for, in a set of hits shown: what
\* the searches' users are given, as HitLedger sees it.
LedgerOf(E) == [n \in {e.number : e \in E} |-> (CHOOSE e \in E : e.number = n).target]
=============================================================================
