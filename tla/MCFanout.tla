------------------------------ MODULE MCFanout ------------------------------
(* Instances of Fanout for TLC: two or three candidates on two workers. A  *)
(* cap of three documents and pages of two stand for 250 and 50, so that   *)
(* the last page is not full; the ladders reach every outcome: nothing, a  *)
(* page, two, a narrowing that helps at the second or third query, and one *)
(* that never does.                                                        *)
EXTENDS Fanout

MCLadders ==
    { <<{}>>, <<{1}, {1}>>, <<{2, 3, 4}, {3}>>,
      <<1..4, {2, 3, 4}>>, <<1..4, 1..4>>, <<1..4, 1..4, {2}>> }

(* A state circuit court is a state court. The third document has no date, *)
(* and the last one, which has none either, is of the highest court.       *)
MCSays == << {"state"}, {"state", "federal"}, {"state"}, {"federal"} >>
MCRecord == << [court |-> 3, docket |-> 1, filed |-> 2],
               [court |-> 1, docket |-> 2, filed |-> 1],
               [court |-> 2, docket |-> 1, filed |-> Undated],
               [court |-> 4, docket |-> 1, filed |-> Undated] >>
=============================================================================
