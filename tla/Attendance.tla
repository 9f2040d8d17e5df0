------------------------------ MODULE Attendance ------------------------------
(***************************************************************************)
(* The clock of a branch: a member of staff punches at a terminal, and an  *)
(* administrator enters or corrects a row by hand.  A punch looks for the  *)
(* rows of the day and then updates or creates one: no key of the table    *)
(* keeps two of them apart.  The rows are those of one day.                *)
(***************************************************************************)
EXTENDS Staff

CONSTANT Terminals  \* punches and entries that can be in progress at once

VARIABLES
  punch,     \* the request of each terminal
  disturbed  \* staff with two requests at once, or with a row opened by hand

vars == <<staffVars, punch, disturbed>>

Punch == [at: {"idle", "look", "write", "enter"}, staff: People \cup {None},
          branch: Branches \cup {None}, row: Rows \cup {None}, next: Row \cup {NoRow}]
NoPunch == [at |-> "idle", staff |-> None, branch |-> None, row |-> None, next |-> NoRow]

AttendanceTypeOK ==
  /\ TypeOK
  /\ punch \in [Terminals -> Punch]
  /\ disturbed \subseteq People

AttendanceInit ==
  /\ Init
  /\ punch = [t \in Terminals |-> NoPunch]
  /\ disturbed = {}

PunchAt(t, step) == punch[t].at = step
PunchReturn(t) == punch' = [punch EXCEPT ![t] = NoPunch]
Disturbing(t, p) == \E other \in Terminals \ {t} : punch[other].staff = p

\* A request of the terminal that changes something.
TerminalRequest(t, p, fields) ==
  /\ PunchAt(t, "idle")
  /\ requests < MaxRequests /\ requests' = requests + 1
  /\ punch' = [punch EXCEPT ![t] = fields]
  /\ disturbed' = IF Disturbing(t, p) THEN disturbed \cup {p} ELSE disturbed
  /\ UNCHANGED <<user, branch, work, attendance, token, task, stale, late>>

-----------------------------------------------------------------------------
(* punchAttendance.                                                        *)

\* The member is active and of this branch; whether the branch is active is
\* looked at only when the terminal opens its page.
PostPunch(t, p, b) ==
  /\ user[p].isActive /\ user[p].branch = b
  /\ TerminalRequest(t, p, [NoPunch EXCEPT !.at = "look", !.staff = p, !.branch = b])

Of(p, b) == {r \in Rows : attendance[r].staff = p /\ attendance[r].branch = b}
IsOpen(r) == attendance[r].in /\ ~attendance[r].out
IsBlank(r) == ~attendance[r].in /\ ~attendance[r].out

\* With a bug: the test of the check-in is the wrong way round.
RowsNotIn(p, b) == {r \in Of(p, b) : IsBlank(r)}
OpenRows(p, b) == {r \in Of(p, b) : IsOpen(r)}

Newest(rows) == {r \in rows : \A other \in rows : other <= r}

\* The rows of the day, the newest first: an open one is checked out, a blank
\* one checked in, or a new one is.
LookForRow(t) ==
  LET p == punch[t].staff
      b == punch[t].branch
      open == OpenRows(p, b)
      blank == {r \in Of(p, b) : IsBlank(r)}
  IN  /\ PunchAt(t, "look")
      /\ \E row \in CASE open # {} -> Newest(open)
                     [] open = {} /\ blank # {} -> Newest(blank)
                     [] open = {} /\ blank = {} -> {None} :
           punch' = [punch EXCEPT ![t].at = "write", ![t].row = row,
                       ![t].next = [staff |-> p, branch |-> b, in |-> TRUE, out |-> open # {}]]
      /\ UNCHANGED <<staffVars, disturbed>>

\* attendance.create, with an id of its own; it fails when the member or the
\* branch is gone.
Creates(next) ==
  \E r \in Rows :
    /\ \A other \in Rows : attendance[other] = NoRow <=> other >= r
    /\ attendance' = IF Exists(next.staff) /\ branch[next.branch] # "none"
                       THEN [attendance EXCEPT ![r] = next] ELSE attendance

\* attendance.update fails when the row is gone.
Updates(r, in, out) ==
  attendance' = IF attendance[r] = GoneRow THEN attendance
                  ELSE [attendance EXCEPT ![r].in = in, ![r].out = out]

WriteRow(t) ==
  LET row == punch[t].row
      next == punch[t].next
  IN  /\ PunchAt(t, "write")
      /\ \/ row # None /\ Updates(row, attendance[row].in \/ ~next.out, next.out)
         \/ row = None /\ Creates(next)
      /\ PunchReturn(t)
      /\ UNCHANGED <<user, branch, work, token, task, stale, late, requests, disturbed>>

-----------------------------------------------------------------------------
(* upsertAttendanceRecord, by hand.                                        *)

\* The first row of the member on that day, of whatever branch, in no order.
PostEntry(t, p, in, out) ==
  LET mine == {r \in Rows : attendance[r].staff = p} IN
  /\ Exists(p)
  /\ \E row \in IF mine = {} THEN {None} ELSE mine :
       TerminalRequest(t, p, [at |-> "enter", staff |-> p, branch |-> user[p].branch, row |-> row,
         next |-> [staff |-> p, branch |-> user[p].branch, in |-> in, out |-> out]])

EnterRow(t) ==
  LET row == punch[t].row
      next == punch[t].next
  IN  /\ PunchAt(t, "enter")
      /\ \/ row # None /\ Updates(row, next.in, next.out)
         \/ row = None /\ Creates(next)
      /\ disturbed' = IF next.in /\ ~next.out THEN disturbed \cup {next.staff} ELSE disturbed
      /\ PunchReturn(t)
      /\ UNCHANGED <<user, branch, work, token, task, stale, late, requests>>

\* resetAttendance: every row there is.
Reset ==
  /\ \E r \in Rows : attendance[r] \in Row
  /\ requests < MaxRequests /\ requests' = requests + 1
  /\ attendance' = [r \in Rows |-> IF attendance[r] = NoRow THEN NoRow ELSE GoneRow]
  /\ UNCHANGED <<user, branch, work, token, task, stale, late, punch, disturbed>>

-----------------------------------------------------------------------------
AttendanceNext ==
  \/ StaffNext /\ UNCHANGED <<punch, disturbed>>
  \/ \E t \in Terminals :
       \/ \E p \in People, b \in Branches : PostPunch(t, p, b)
       \/ \E p \in People, in, out \in BOOLEAN : PostEntry(t, p, in, out)
       \/ LookForRow(t) \/ WriteRow(t) \/ EnterRow(t)
  \/ Reset

Spec == AttendanceInit /\ [][AttendanceNext]_vars

-----------------------------------------------------------------------------
(* Properties.                                                             *)

\* At a branch a member is in at most once, though the table has no key that
\* says so: punches one after the other alternate between in and out.
InAtMostOnce ==
  \A p \in People \ disturbed, b \in Branches : Cardinality({r \in Of(p, b) : IsOpen(r)}) <= 1
=============================================================================
