-------------------------------- MODULE Targets --------------------------------
(***************************************************************************)
(* The company target: what the members of the staff get of the revenue of *)
(* a period, computed whenever it is asked for from the settings, invoices *)
(* and members there are then.  Amounts are whole cents, rounded where the *)
(* code rounds; a role is its label up to case and spacing.                *)
(***************************************************************************)
EXTENDS Integers, Sequences, FiniteSetsExt, Functions

CONSTANTS
  Staff, Invoices,
  Roles,       \* roles of staff, SUPER_ADMIN apart
  Months,      \* months of the year invoices are from
  Totals,      \* grand totals of invoices
  JoinDates,   \* <<month, day>>; month 0: before the year
  Settings,    \* what the settings may be: tiers, and those for quarters or None
  None

Reward == [role: STRING, rewardPercent: Nat]
\* A tier has a list of rewards, or one of its own as they were saved before.
Tier == {t \in [targetAmount: Nat, single: BOOLEAN, roleRewards: Seq(Reward)] :
           t.single => Len(t.roleRewards) = 1}

TargetsAssumption ==
  /\ IsFiniteSet(Staff) /\ IsFiniteSet(Invoices)
  /\ Months \subseteq 1..12 /\ Totals \subseteq Nat
  /\ JoinDates \subseteq (0..12) \X (1..31)
  /\ \A saved \in Settings :
       saved.tiers \in Seq(Tier) /\ saved.quarterly \in Seq(Tier) \cup {None}

VARIABLES
  settings,  \* staffRewardSettings
  staff,     \* the User rows
  invoices   \* the invoices of the year

vars == <<settings, staff, invoices>>

PeriodTypes == {"MONTHLY", "QUARTERLY", "HALF_YEARLY", "YEARLY"}
User == [role: Roles \cup {"SUPER_ADMIN"}, isActive: BOOLEAN, joined: JoinDates \cup {None}]
Invoice == [month: Months, total: Totals, status: {"DRAFT", "ISSUED"}]

TypeOK ==
  /\ settings \in Settings
  /\ staff \in [Staff -> User \cup {None}]
  /\ invoices \in [Invoices -> Invoice \cup {None}]

Init ==
  /\ settings \in Settings
  /\ staff = [s \in Staff |-> None]
  /\ invoices = [i \in Invoices |-> None]

-----------------------------------------------------------------------------
(* Periods and tiers.                                                      *)

\* getPeriodsForYear, as sets of months.
MonthsIn(type) ==
  CASE type = "MONTHLY" -> 1 [] type = "QUARTERLY" -> 3 [] type = "HALF_YEARLY" -> 6 [] OTHER -> 12
getPeriodsForYear(type) ==
  LET n == MonthsIn(type) IN {(k * n + 1)..(k * n + n) : k \in 0..(12 \div n - 1)}

\* The rewards of a tier: of a list those that give something, one of its own as
\* it is.
expandRawTier(raw) ==
  {j \in DOMAIN raw.roleRewards : raw.single \/ raw.roleRewards[j].rewardPercent > 0}

\* An entry for each, known by its place in the list: its tier, and its reward
\* in there.  A list for the kind of period goes first, an empty one as well.
extractTiers(type) ==
  LET raw == IF type = "QUARTERLY" /\ settings.quarterly # None
               THEN settings.quarterly ELSE settings.tiers
  IN  [p \in UNION {{i} \X expandRawTier(raw[i]) : i \in DOMAIN raw} |->
         LET reward == raw[p[1]].roleRewards[p[2]]
         IN  [targetAmount |-> raw[p[1]].targetAmount, role |-> reward.role,
              rewardPercent |-> reward.rewardPercent]]
NotAfter(p, q) == p[1] < q[1] \/ (p[1] = q[1] /\ p[2] <= q[2])
FirstOf(places) == CHOOSE p \in places : \A q \in places : NotAfter(p, q)

-----------------------------------------------------------------------------
(* company-target-engine.                                                  *)

isValidRevenueInvoice(i) == invoices[i] # None /\ invoices[i].status # "DRAFT"
filterRevenueInvoices(period) ==
  {i \in Invoices : isValidRevenueInvoice(i) /\ invoices[i].month \in period}
calcRevenue(period) == SumFunction([i \in filterRevenueInvoices(period) |-> invoices[i].total])

\* round2 of a quotient, in cents.
Rounded(a, b) == (2 * a + b) \div (2 * b)
calcRewardPool(revenue, rewardPercent) == Rounded(revenue * rewardPercent, 100)
calcSharePerStaff(pool, count) == IF count = 0 THEN 0 ELSE Rounded(pool, count)

isStaffEligible(s, period) ==
  LET u == staff[s]
  IN  /\ u # None
      /\ u.isActive /\ u.role # "SUPER_ADMIN"
      /\ u.joined # None /\ u.joined[1] <= Max(period) /\ u.joined[2] <= 5

\* With a bug: everybody of the role counts.
AllOfRole(period, role) == {s \in Staff : staff[s] # None /\ staff[s].role = role}
filterEligibleStaffForRole(period, role) ==
  {s \in Staff : isStaffEligible(s, period) /\ staff[s].role = role}

computeRoleBreakdown(revenue, tiers, period) ==
  [p \in DOMAIN tiers |->
     LET achieved == revenue >= tiers[p].targetAmount
         pool == IF achieved THEN calcRewardPool(revenue, tiers[p].rewardPercent) ELSE 0
         count == Cardinality(filterEligibleStaffForRole(period, tiers[p].role))
     IN  [role |-> tiers[p].role, pool |-> pool, eligibleStaffCount |-> count,
          sharePerStaff |-> IF achieved THEN calcSharePerStaff(pool, count) ELSE 0]]

\* For one member: its share of the first tier of its role.
ShareOf(breakdown, s, period) ==
  LET own == {p \in DOMAIN breakdown : breakdown[p].role = staff[s].role}
  IN  IF isStaffEligible(s, period) /\ own # {} THEN breakdown[FirstOf(own)].sharePerStaff ELSE 0

computePeriodResult(type, period) ==
  LET breakdown == computeRoleBreakdown(calcRevenue(period), extractTiers(type), period)
  IN  [revenue |-> calcRevenue(period),
       roleBreakdown |-> breakdown,
       totalRewardPool |-> SumFunction([p \in DOMAIN breakdown |-> breakdown[p].pool]),
       shares |-> [s \in {t \in Staff : staff[t] # None} |-> ShareOf(breakdown, s, period)]]

-----------------------------------------------------------------------------
(* What it is computed from changes.                                       *)

SaveSettings ==
  /\ settings' \in Settings \ {settings}
  /\ UNCHANGED <<staff, invoices>>

SaveStaff(s) ==
  /\ staff[s] = None
  /\ \E u \in User : staff' = [staff EXCEPT ![s] = u]
  /\ UNCHANGED <<settings, invoices>>

SaveInvoice(i) ==
  /\ invoices[i] = None
  /\ \E new \in Invoice : invoices' = [invoices EXCEPT ![i] = new]
  /\ UNCHANGED <<settings, staff>>

Next ==
  \/ SaveSettings
  \/ \E s \in Staff : SaveStaff(s)
  \/ \E i \in Invoices : SaveInvoice(i)

Spec == Init /\ [][Next]_vars

-----------------------------------------------------------------------------
(* Properties.                                                             *)

Members == {s \in Staff : staff[s] # None}
OneTierPerRole(tiers) == \A p, q \in DOMAIN tiers : tiers[p].role = tiers[q].role => p = q
Paid(result) == SumFunction(result.shares)
Funded(result) ==
  LET b == result.roleBreakdown
  IN  SumFunction([p \in {q \in DOMAIN b : b[q].eligibleStaffCount > 0} |-> b[p].pool])
\* At most half a cent for each member above.
AtMost(a, b) == 2 * (a - b) <= Cardinality(Members)

\* What the members are told, each by itself, adds up: the shares of a period
\* never exceed the pools of its tiers, and are all of the pools somebody is
\* eligible for when no role has two tiers, but for half a cent each; and
\* however the year is cut into periods, they have its revenue, each invoice
\* once (company-target-engine.ts).
SharesAddUp ==
  \A type \in PeriodTypes :
    LET results == [period \in getPeriodsForYear(type) |-> computePeriodResult(type, period)]
    IN  /\ \A period \in getPeriodsForYear(type) :
             LET result == results[period]
             IN  /\ AtMost(Paid(result), result.totalRewardPool)
                 /\ OneTierPerRole(extractTiers(type)) =>
                      AtMost(Paid(result), Funded(result)) /\ AtMost(Funded(result), Paid(result))
        /\ SumFunction([period \in getPeriodsForYear(type) |-> results[period].revenue])
             = calcRevenue(1..12)
===============================================================================
