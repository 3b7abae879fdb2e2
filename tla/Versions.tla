------------------------------- MODULE Versions -------------------------------
(***************************************************************************)
(* Comparison of release versions (src/src/versions.rs), over the shapes   *)
(* the comparison tells apart: dotted numbers with a rest ("1.2-rc1"), a   *)
(* label that does not begin with a number ("continuous"), and nothing; a  *)
(* number may carry the "v" of a tag.  Texts are ranks: they compare like  *)
(* their numbers, case left out.                                           *)
(***************************************************************************)
EXTENDS Naturals, Sequences

CONSTANT Largest   \* the largest number a part may have: u64::MAX in the code

ASSUME VersionsAssumption == Largest \in Nat

Version == [kind : {"none", "number", "label"}, v : BOOLEAN, nums : Seq(Nat), tail : Nat]
NoVersion == [kind |-> "none", v |-> FALSE, nums |-> <<>>, tail |-> 0]
Number(nums, tail) == [kind |-> "number", v |-> FALSE, nums |-> nums, tail |-> tail]
Tagged(version) == [version EXCEPT !.v = TRUE]
Label(rank) == [kind |-> "label", v |-> FALSE, nums |-> <<>>, tail |-> rank]

(* `normalize`: a "v" is decoration when a digit follows it.               *)
Normalize(version) == [version EXCEPT !.v = FALSE]

(* `same`: equal texts once normalized, so "2.4" and "2.4.0" are not.      *)
Same(a, b) == Normalize(a) = Normalize(b)

(* `split_numeric`: a part that does not fit makes the whole no number.    *)
SplitNumeric(version) ==
  version.kind = "number" /\ \A i \in DOMAIN version.nums : version.nums[i] <= Largest

Part(version, i) == IF i \in DOMAIN version.nums THEN version.nums[i] ELSE 0

(* `order` compares part by part up to the longer version, a missing part  *)
(* being 0, and then what follows the numbers: a rest ("-rc1") comes       *)
(* before the plain release.                                               *)
Order(installed, offered) ==
  LET width == IF Len(installed.nums) > Len(offered.nums)
               THEN Len(installed.nums) ELSE Len(offered.nums)
      unequal == {i \in 1..width : Part(installed, i) # Part(offered, i)}
      first == CHOOSE i \in unequal : \A j \in unequal : i <= j
      compare(a, b) == IF a < b THEN "greater" ELSE IF a > b THEN "less" ELSE "equal"
  IN  IF ~SplitNumeric(installed) \/ ~SplitNumeric(offered) THEN "none"
      ELSE IF unequal # {} THEN compare(Part(installed, first), Part(offered, first))
      ELSE IF installed.tail = 0 \/ offered.tail = 0
           THEN compare(offered.tail, installed.tail)
      ELSE compare(installed.tail, offered.tail)

(* Mutant: any other version is one to move to.                            *)
IsUpdateIfOther(installed, offered) ==
  /\ Normalize(offered) # NoVersion
  /\ ~Same(installed, offered)

(* `is_update`.                                                            *)
IsUpdate(installed, offered) ==
  /\ Normalize(offered) # NoVersion
  /\ \/ Normalize(installed) = NoVersion
     \/ /\ ~Same(installed, offered)
        /\ Order(installed, offered) \in {"greater", "none"}
=============================================================================
