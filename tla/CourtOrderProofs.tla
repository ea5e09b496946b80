-------------------------- MODULE CourtOrderProofs --------------------------
(***************************************************************************)
(* The comparator of sortLegalResults is a strict total order on results   *)
(* that differ in court or docket, so that a sort has one outcome whatever *)
(* order the results come in.                                              *)
(***************************************************************************)
EXTENDS CourtOrder, TLAPS

LEMMA TierIsNat == ASSUME NEW r \in LegalResult PROVE Tier(r) \in 0..3
BY DEF Tier, TierOrder, ClassifyCourt

LEMMA RecordsAreNumbers ==
    ASSUME NEW r \in LegalResult
    PROVE  r.court \in Nat /\ r.docket \in Nat /\ r.filed \in Nat
BY CourtConstants DEF CourtConstants, LegalResult

(* No result is put before itself (sort.ts:37-41).                         *)
THEOREM Irreflexive == \A a \in LegalResult : ~Before(a, a)
BY TierIsNat, RecordsAreNumbers DEF Before, TieBreak

(* What comes before a result comes before all that comes after it, also   *)
(* across courts, dates and results without a date (sort.ts:26-34).        *)
THEOREM Transitive ==
    \A a, b, c \in LegalResult : Before(a, b) /\ Before(b, c) => Before(a, c)
<1> SUFFICES ASSUME NEW a \in LegalResult, NEW b \in LegalResult, NEW c \in LegalResult,
                    Before(a, b), Before(b, c)
             PROVE  Before(a, c)
  OBVIOUS
<1>1. /\ Tier(a) \in Int /\ Tier(b) \in Int /\ Tier(c) \in Int
      /\ a.filed \in Int /\ b.filed \in Int /\ c.filed \in Int
      /\ a.court \in Int /\ b.court \in Int /\ c.court \in Int
      /\ a.docket \in Int /\ b.docket \in Int /\ c.docket \in Int
  BY TierIsNat, RecordsAreNumbers
<1>2. TieBreak(a, b) /\ TieBreak(b, c) => TieBreak(a, c)
  BY <1>1 DEF TieBreak
<1> QED
  BY <1>1, <1>2 DEF Before

(* Of two results that differ in court or docket, one comes before the     *)
(* other: the order does not depend on which arrived first (sort.ts:36).   *)
THEOREM Total ==
    \A a, b \in LegalResult :
      a.court # b.court \/ a.docket # b.docket => Before(a, b) \/ Before(b, a)
<1> SUFFICES ASSUME NEW a \in LegalResult, NEW b \in LegalResult,
                    a.court # b.court \/ a.docket # b.docket
             PROVE  Before(a, b) \/ Before(b, a)
  OBVIOUS
<1>1. /\ Tier(a) \in Int /\ Tier(b) \in Int
      /\ a.filed \in Int /\ b.filed \in Int
      /\ a.court \in Int /\ b.court \in Int
      /\ a.docket \in Int /\ b.docket \in Int
  BY TierIsNat, RecordsAreNumbers
<1>2. TieBreak(a, b) \/ TieBreak(b, a)
  BY <1>1 DEF TieBreak
<1> QED
  BY <1>1, <1>2 DEF Before
=============================================================================
