------------------------------- MODULE MCPeople -------------------------------
(***************************************************************************)
(* PeopleParts with three accounts, two of them with one phone, two        *)
(* spellings of one name, and two of most other things.                    *)
(***************************************************************************)
EXTENDS PeopleParts, TLC

CONSTANTS a1, a2, a3, Cafe, cafe, bee

ThreeAccounts == {a1, a2, a3}
NewAccount == {a3}
Twins == {<<a1, a3>>, <<a3, a1>>}

\* Two spellings of one name, and another name.
Spellings == {Cafe, cafe, bee}
Lowered == [n \in Spellings |-> IF n = Cafe THEN cafe ELSE n]

\* The parts that do nothing start in one state.
SmallInit ==
  /\ PeopleInit
  /\ part # "ledger" => party = [kind |-> "customer", opening |-> 0, side |-> None]
  /\ part # "access" => /\ kind = "simple" /\ default = FALSE /\ role = "MANAGER"
                        /\ held = {"VIEW"} /\ level = None

SmallSpec == SmallInit /\ [][PeopleNext]_peopleVars

Symmetry == Permutations(Workers)
=============================================================================
