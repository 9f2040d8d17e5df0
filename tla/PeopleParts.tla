------------------------------ MODULE PeopleParts ------------------------------
(***************************************************************************)
(* The modules about people in one module: a behaviour is one of           *)
(* Attendance (with Staff), Sessions, Access, Parties or PartyStatements,  *)
(* the part chosen in its first state.  The parts share no state, and each *)
(* property is of one of them.                                             *)
(***************************************************************************)
EXTENDS Sessions

CONSTANTS
  People, Owner, Branches, HeadOffice, Rows, Terminals, MaxUsers, MaxBranches,  \* Attendance
  Module, Home, Elsewhere,                                                      \* Access
  Customers, Profiles, Names, Norm, MirrorKey, MaxOpening, MaxWrites,           \* Parties
  Records, Days, Items, MaxAmount                                               \* PartyStatements

VARIABLES
  part,
  user, branch, work, attendance, staffToken, staffTask, stale, late, staffRequests,
  punch, disturbed,
  kind, default, role, held, level, homes,
  customers, directory, spent, partyRows, hidden, partyTask, writes,
  party, booked, paid

S == INSTANCE Attendance WITH
       token <- staffToken, task <- staffTask, requests <- staffRequests
K == INSTANCE Access
Q == INSTANCE Parties WITH
       rows <- partyRows, task <- partyTask
L == INSTANCE PartyStatements WITH Documents <- Records

ASSUME PeopleAssumption ==
  /\ SessionsAssumption /\ S!StaffAssumption
  /\ K!AccessAssumption /\ Q!PartiesAssumption /\ L!StatementsAssumption

dutyVars == <<user, branch, work, attendance, staffToken, staffTask, stale, late,
              staffRequests, punch, disturbed>>
accessVars == <<kind, default, role, held, level, homes>>
partyVars == <<customers, directory, spent, partyRows, hidden, partyTask, writes>>
ledgerVars == <<party, booked, paid>>
peopleVars == <<part, vars, dutyVars, accessVars, partyVars, ledgerVars>>

-----------------------------------------------------------------------------

PeopleInit ==
  /\ part \in {"attendance", "sessions", "access", "parties", "ledger"}
  /\ Init /\ S!AttendanceInit /\ K!Init /\ Q!Init /\ L!Init

PeopleNext ==
  \/ /\ part = "attendance" /\ S!AttendanceNext
     /\ UNCHANGED <<part, vars, accessVars, partyVars, ledgerVars>>
  \/ /\ part = "sessions" /\ Next
     /\ UNCHANGED <<part, dutyVars, accessVars, partyVars, ledgerVars>>
  \/ /\ part = "access" /\ K!Next
     /\ UNCHANGED <<part, vars, dutyVars, partyVars, ledgerVars>>
  \/ /\ part = "parties" /\ Q!Next
     /\ UNCHANGED <<part, vars, dutyVars, accessVars, ledgerVars>>
  \/ /\ part = "ledger" /\ L!Next
     /\ UNCHANGED <<part, vars, dutyVars, accessVars, partyVars>>

PeopleSpec == PeopleInit /\ [][PeopleNext]_peopleVars

-----------------------------------------------------------------------------

\* The properties of the parts, of the behaviours that are theirs; stated and
\* explained in their modules.
SeatsAreSold == part = "attendance" => S!SeatsAreSold
WorkHasBranch == part = "attendance" => S!WorkHasBranch
InAtMostOnce == part = "attendance" => S!InAtMostOnce
AccessIsBounded == part = "access" => K!LevelDecidesEdits /\ K!QueryNarrows
EachCountedOnce == part = "parties" => Q!EachCountedOnce
LedgersAgree == part = "ledger" => L!LedgersAgree
=============================================================================
