------------------------------- MODULE MCOffice -------------------------------
(***************************************************************************)
(* OfficeParts with two of most things, three entries of a book and users  *)
(* of two workshops.                                                       *)
(***************************************************************************)
EXTENDS OfficeParts, TLC

CONSTANTS i1, i2, k, o, elsewhere, u1, u2, u3

-----------------------------------------------------------------------------
(* Values of the constants.                                                *)

\* A priced line or none; the same closed; and another advance.
Version(line, advance, closed) ==
  [lines |-> [key \in {k} |-> line], advance |-> advance, closed |-> closed]
Fixed == [price |-> 1, custom |-> FALSE]
Versions ==
  {Version(line, 1, FALSE) :
     line \in [price: {1, 2}, custom: BOOLEAN] \cup {[Fixed EXCEPT !.price = None]}}
    \cup {Version(Fixed, 1, TRUE), Version(Fixed, 2, FALSE)}

\* Tiers of one role each, in turn, one of them as they were saved before; two
\* tiers of a role, one of which gives nothing, and none for quarters; tiers for
\* quarters alone, one of them for any revenue.
Tier(target, rewards) == [targetAmount |-> target, single |-> FALSE, roleRewards |-> rewards]
SingleTier(target, reward) == [targetAmount |-> target, single |-> TRUE, roleRewards |-> <<reward>>]
Reward(r, percent) == [role |-> r, rewardPercent |-> percent]
SavedSettings ==
  {[tiers |-> <<Tier(1000, <<Reward("MECHANIC", 5), Reward("MANAGER", 0)>>),
                SingleTier(1000, Reward("MANAGER", 5))>>, quarterly |-> None],
   [tiers |-> <<SingleTier(1000, Reward("MANAGER", 0)),
                Tier(1000, <<Reward("MECHANIC", 5), Reward("MANAGER", 10)>>),
                Tier(2000, <<Reward("MECHANIC", 10)>>)>>, quarterly |-> <<>>],
   [tiers |-> <<>>, quarterly |-> <<Tier(2000, <<Reward("MANAGER", 10)>>),
                                    Tier(0, <<Reward("MECHANIC", 5)>>)>>]}
Joins == {<<0, 5>>, <<5, 1>>, <<1, 6>>}

\* Two browsers of one workshop and one of another.
WorkshopOf == [u \in {u1, u2, u3} |-> IF u = u3 THEN elsewhere ELSE o]

-----------------------------------------------------------------------------

\* The parts that do nothing start in one state.
SmallInit ==
  /\ OfficeInit
  /\ part # "books" => legacy = None
  /\ part # "targets" => settings.tiers = <<>>
  /\ part # "plans" => payload.overrides = P!NoOverrides

SmallSpec == SmallInit /\ [][OfficeNext]_officeVars

OfficeSymmetry == Permutations(Workers) \cup Permutations({i1, i2})
=============================================================================
