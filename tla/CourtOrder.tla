----------------------------- MODULE CourtOrder -----------------------------
(***************************************************************************)
(* The order of the results of a response: by the authority of the court,  *)
(* which its name tells, then by filing date, then by court and docket.    *)
(*                                                                         *)
(* Source: src/src/legal-results/sort/sort.ts and                          *)
(* src/src/legal-results/query-planner/court-classifier.ts. Courts and     *)
(* dockets are numbered in the order of localeCompare.                     *)
(***************************************************************************)
EXTENDS Integers

CONSTANTS
    Court,  \* court names
    Says    \* the pattern lists a court name has a pattern of

PatternList == {"override", "county", "state", "federal"}

ASSUME CourtConstants == Court \subseteq Nat /\ Says \in [Court -> SUBSET PatternList]

(* An override, a county and a state win over federal: a state circuit     *)
(* court says both.                                                        *)
ClassifyCourt(court) ==
    IF "override" \in Says[court] THEN "UNCATEGORIZED"
    ELSE IF "county" \in Says[court] THEN "COUNTY"
    ELSE IF "state" \in Says[court] THEN "STATE"
    ELSE IF "federal" \in Says[court] THEN "FEDERAL"
    ELSE "UNCATEGORIZED"

TierOrder(tier) ==
    CASE tier = "FEDERAL" -> 0
      [] tier = "STATE"   -> 1
      [] tier = "COUNTY"  -> 2
      [] OTHER            -> 3

(* A date that is missing or does not parse is before every date.          *)
Undated == 0

LegalResult == [court : Court, docket : Nat, filed : Nat]

Tier(r) == TierOrder(ClassifyCourt(r.court))

TieBreak(a, b) ==
    \/ a.court < b.court
    \/ a.court = b.court /\ a.docket < b.docket

(* Mutant: dates are compared only if both are there. *)
UndatedTies(a, b) ==
    \/ Tier(a) < Tier(b)
    \/ /\ Tier(a) = Tier(b)
       /\ IF Undated \in {a.filed, b.filed} \/ a.filed = b.filed
          THEN TieBreak(a, b)
          ELSE a.filed > b.filed

(* Does sortLegalResults put a before b?                                   *)
Before(a, b) ==
    \/ Tier(a) < Tier(b)
    \/ Tier(a) = Tier(b) /\ a.filed > b.filed
    \/ Tier(a) = Tier(b) /\ a.filed = b.filed /\ TieBreak(a, b)
=============================================================================
