--------------------------- MODULE MCResultCache ---------------------------
(* Instances of ResultCache for TLC: three requests, two of them in one    *)
(* pod. All entities have one name; confidences 1, 2 and 3 stand for some  *)
(* below, at and above the threshold.                                      *)
EXTENDS ResultCache, TLC
CONSTANTS r1, r2, r3, d1, d2, Mary

MCPodOf == (r1 :> d1) @@ (r2 :> d1) @@ (r3 :> d2)

Person(words, addresses) ==
    [kind |-> "Person",
     names |-> {[full |-> Mary, words |-> words, type |-> None, confidence |-> 2]},
     addresses |-> addresses]

(* Texts of addresses: ", CA", one that says West Virginia, and blanks.    *)
InCA  == [blank |-> FALSE, names |-> {}, code |-> 5]
InWV  == [blank |-> FALSE, names |-> {46, 48}, code |-> 48]
Blank == [blank |-> TRUE, names |-> {}, code |-> None]

At(text, confidence) == [text |-> text, confidence |-> confidence]

(* Two keys: the first and the second entity share one. The third is asked *)
(* where another of its addresses is, and the last is refused.             *)
MCConfident ==
    { Person(2, {At(InCA, 2)}),
      Person(2, {At(InCA, 2), At(InWV, 1), At(Blank, 2)}),
      Person(2, {At(InWV, 3), At(InCA, 2)}),
      Person(1, {}) }

(* Addresses below the threshold only.                                     *)
MCDoubtful == { Person(2, {At(InCA, 1)}), Person(2, {At(InWV, 1)}) }
=============================================================================
