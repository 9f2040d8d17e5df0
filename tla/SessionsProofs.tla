----------------------------- MODULE SessionsProofs -----------------------------
(***************************************************************************)
(* For any accounts and any number of overlapping requests: a one-time     *)
(* code logs in once, the reset link that works is the one mailed last,    *)
(* and links between workshops are mutual (module Sessions).               *)
(*                                                                         *)
(* Each of the three has an inductive part of its own, over a common one   *)
(* (Typed) of the types and of what a request in progress holds.           *)
(***************************************************************************)
EXTENDS Sessions, FiniteSetTheorems, TLAPS

-----------------------------------------------------------------------------
(* The inductive invariants.                                               *)

Mailing == {"mail", "hash"}
Pairing == {"read", "both", "here", "there"}

\* What a request holds at its step.
WellFormed(t) ==
  /\ t \in Task
  /\ t.at # "idle" => t.me \in Accounts
  /\ t.at \in Mailing \cup {"verify"} => t.number \in Numbers
  /\ t.at \in Pairing => t.other \in Accounts \ {t.me}

Typed == TypeOK /\ \A w \in Workers : WellFormed(task[w])

\* A code that is stored has not been used, and is the code of one phone.
Codes ==
  /\ \A p \in Phones : otp[p] # None => otp[p] <= requests /\ codeUses[otp[p]] = 0
  /\ \A p, q \in Phones : otp[p] # None /\ otp[p] = otp[q] => p = q
  /\ \A n \in Numbers : /\ codeUses[n] <= 1
                        /\ n > requests => codeUses[n] = 0

\* The requests for a link, or with one, of an account.
Resetter(w, a) == Me(w) = a /\ task[w].at \in Mailing

Resets ==
  /\ \A a \in Accounts \ raced : \A v, w \in Workers : Resetter(v, a) /\ Resetter(w, a) => v = w
  /\ \A w \in Workers : At(w, "mail") /\ Me(w) \notin raced =>
       reset[Me(w)] = task[w].number /\ valid[Me(w)] = None
  /\ \A a \in Accounts \ raced :
       (\A w \in Workers : ~(At(w, "mail") /\ Me(w) = a)) => reset[a] = valid[a]

\* The requests that link an account with another, or take the link away.
Linker(w, a) == task[w].at \in Pairing /\ a \in {Me(w), task[w].other}

\* What the request of w knows of the lists it has read and not yet written,
\* what it wrote, and that there is room for a link it adds.
Informed(w) ==
  /\ task[w].at \in {"both", "here"} /\ Me(w) \notin torn =>
       task[w].mine = links[Me(w)] \ {Me(w)}
  /\ task[w].at \in {"both", "there"} /\ task[w].other \notin torn =>
       task[w].theirs = links[task[w].other] \ {task[w].other}
  /\ At(w, "there") /\ Me(w) \notin torn => (task[w].other \in links[Me(w)] <=> task[w].adds)
  /\ At(w, "here") /\ task[w].other \notin torn => (Me(w) \in links[task[w].other] <=> task[w].adds)
  /\ task[w].at \in Pairing /\ task[w].adds =>
       /\ Me(w) \notin torn => HasRoom(Me(w), task[w].other)
       /\ task[w].other \notin torn => HasRoom(task[w].other, Me(w))

Agree(a, b) == b \in links[a] <=> a \in links[b]

\* Whether a request has written one of the two lists.
Halfway(w) == task[w].at \in {"here", "there"}

\* A list that is not torn can be read, and two of them agree, but between the
\* two writes of a request about both.
Linked ==
  /\ \A a \in Accounts \ torn : \A v, w \in Workers : Linker(v, a) /\ Linker(w, a) => v = w
  /\ \A w \in Workers : Informed(w)
  /\ \A a \in Accounts \ torn : Cardinality(links[a]) <= MaxLinks
  /\ \A a, b \in Accounts \ torn :
       (\A w \in Workers : Halfway(w) => {a, b} # {Me(w), task[w].other}) => Agree(a, b)

Inv == Typed /\ Codes /\ Resets /\ Linked

-----------------------------------------------------------------------------
(* Types.                                                                  *)

\* The types of everything but the requests.
Others ==
  /\ active \subseteq Accounts
  /\ otp \in [Phones -> Numbers \cup {None}]
  /\ codeUses \in [Numbers -> Nat]
  /\ reset \in [Accounts -> Numbers \cup {None}]
  /\ links \in [Accounts -> SUBSET Accounts]
  /\ valid \in [Accounts -> Numbers \cup {None}]
  /\ requests \in 0..MaxRequests
  /\ suspended \subseteq Accounts /\ token \subseteq Accounts
  /\ expired \subseteq Numbers
  /\ raced \subseteq Accounts /\ torn \subseteq Accounts

\* A step of one request.
LEMMA TypedFrame ==
  ASSUME Typed, Others', NEW w \in Workers,
         task' = [task EXCEPT ![w] = task'[w]], WellFormed(task'[w])
  PROVE  Typed'
<1>1. task' \in [Workers -> Task]
  BY DEF Typed, TypeOK, WellFormed
<1>2. \A v \in Workers : WellFormed(task'[v])
  BY DEF Typed, TypeOK
<1> QED
  BY <1>1, <1>2 DEF Typed, TypeOK, Others, WellFormed

LEMMA NoTaskFormed == WellFormed(NoTask)
BY DEF WellFormed, Task, NoTask, Mailing, Pairing

\* A request goes on to its other write, or ends.
LEMMA WroteTyped ==
  ASSUME Typed, Others', NEW w \in Workers, task[w].at \in Pairing,
         NEW left \in {"here", "there"}, Wrote(w, left)
  PROVE  Typed'
<1>1. CASE At(w, "both")
  <2>1. task' = [task EXCEPT ![w] = task'[w]] /\ task'[w] = [task[w] EXCEPT !.at = left]
    BY <1>1 DEF Wrote, Typed, TypeOK
  <2>2. WellFormed(task'[w])
    BY <2>1 DEF Typed, WellFormed, Task, Mailing, Pairing
  <2> QED
    BY <2>1, <2>2, TypedFrame
<1>2. CASE ~At(w, "both")
  <2>1. task' = [task EXCEPT ![w] = task'[w]] /\ task'[w] = NoTask
    BY <1>2 DEF Wrote, Return, Typed, TypeOK
  <2> QED
    BY <2>1, TypedFrame, NoTaskFormed
<1> QED
  BY <1>1, <1>2

LEMMA WroteOne ==
  ASSUME Typed, NEW w \in Workers, NEW left \in {"here", "there"}, Wrote(w, left)
  PROVE  /\ task'[w].at \in {"idle", left}
         /\ \A v \in Workers \ {w} : task'[v] = task[v]
BY DEF Wrote, Return, NoTask, Typed, TypeOK, Task

LEMMA TypedStep ==
  ASSUME SessionsAssumption, Typed, [Next]_vars
  PROVE  Typed'
<1>1. ASSUME NEW a \in Accounts, NEW b \in Accounts, SwitchMyWorkspace(a, b) PROVE  Typed'
  BY <1>1 DEF SwitchMyWorkspace, Typed, TypeOK, WellFormed
<1>2. ASSUME Restart PROVE  Typed'
  BY <1>2, NoTaskFormed DEF Restart, Typed, TypeOK, WellFormed
<1>3. ASSUME NEW n \in Numbers, Expire(n) PROVE  Typed'
  BY <1>3 DEF Expire, Typed, TypeOK, WellFormed
<1>4. ASSUME NEW w \in Workers, NEW a \in Accounts, Login(w, a) PROVE  Typed'
  BY <1>4 DEF Login, Request, Typed, TypeOK, WellFormed, SessionsAssumption
<1>5. ASSUME NEW w \in Workers, NEW a \in Accounts, SendLoginOtp(w, a) PROVE  Typed'
  BY <1>5 DEF SendLoginOtp, Request, Fresh, Phones, Typed, TypeOK, Numbers, SessionsAssumption
<1>6. ASSUME NEW w \in Workers, NEW a \in Accounts, ChangePassword(w, a) PROVE  Typed'
  <2>1. Others'
    BY <1>6 DEF ChangePassword, Request, At, Others, Typed, TypeOK, WellFormed, Task, Mailing,
       Pairing, SessionsAssumption
  <2>2. task' = [task EXCEPT ![w] = task'[w]]
    BY <1>6 DEF ChangePassword, Typed, TypeOK
  <2>3. WellFormed(task'[w])
    BY <1>6 DEF ChangePassword, Request, At, Typed, TypeOK, WellFormed, Task, NoTask, Mailing,
       Pairing, SessionsAssumption
  <2> QED
    BY <2>1, <2>2, <2>3, TypedFrame
<1>7. ASSUME NEW w \in Workers, NEW a \in Accounts, ForgotPassword(w, a) PROVE  Typed'
  <2>1. Others'
    BY <1>7 DEF ForgotPassword, Fresh, Races, Request, At, Others, Typed, TypeOK, WellFormed, Task,
       Numbers, Mailing, Pairing, SessionsAssumption
  <2>2. task' = [task EXCEPT ![w] = task'[w]]
    BY <1>7 DEF ForgotPassword, Typed, TypeOK
  <2>3. WellFormed(task'[w])
    <3>1. task'[w] = [NoTask EXCEPT !.at = "mail", !.me = a, !.number = requests + 1]
      BY <1>7 DEF ForgotPassword, Fresh, Typed, TypeOK
    <3>2. requests + 1 \in Numbers
      BY <1>7 DEF ForgotPassword, Request, Numbers, Typed, TypeOK, SessionsAssumption
    <3> QED
      BY <3>1, <3>2 DEF WellFormed, Task, NoTask, Mailing, Pairing
  <2> QED
    BY <2>1, <2>2, <2>3, TypedFrame
<1>8. ASSUME NEW w \in Workers, NEW a \in Accounts, SetActive(w, a) PROVE  Typed'
  BY <1>8 DEF SetActive, Request, Typed, TypeOK, WellFormed, SessionsAssumption
<1>9. ASSUME NEW w \in Workers, NEW a \in Accounts, Suspend(w, a) PROVE  Typed'
  BY <1>9 DEF Suspend, Request, Typed, TypeOK, WellFormed, SessionsAssumption
<1>10. ASSUME NEW w \in Workers, NEW a \in Accounts, NEW code \in Numbers,
             VerifyLoginOtp(w, a, code)
      PROVE  Typed'
  <2>1. Others'
    BY <1>10 DEF VerifyLoginOtp, Request, At, Others, Typed, TypeOK, WellFormed, Task, Mailing,
       Pairing, SessionsAssumption
  <2>2. task' = [task EXCEPT ![w] = task'[w]]
    BY <1>10 DEF VerifyLoginOtp, Typed, TypeOK
  <2>3. WellFormed(task'[w])
    BY <1>10 DEF VerifyLoginOtp, Request, At, Typed, TypeOK, WellFormed, Task, NoTask, Mailing,
       Pairing, SessionsAssumption
  <2> QED
    BY <2>1, <2>2, <2>3, TypedFrame
<1>11. ASSUME NEW w \in Workers, NEW a \in Accounts, PutUserResetPassword(w, a)
      PROVE  Typed'
  BY <1>11 DEF PutUserResetPassword, Request, Typed, TypeOK, WellFormed,
     SessionsAssumption
<1>12. ASSUME NEW w \in Workers, NEW a \in Accounts,
             NEW b \in Accounts, LinkMyWorkspace(w, a, b)
      PROVE  Typed'
  <2>1. Others'
    BY <1>12 DEF LinkMyWorkspace, Overlap, Overflow, Admitted, Request, At, Others, Typed, TypeOK, WellFormed,
       Task, Mailing, Pairing, SessionsAssumption
  <2>2. task' = [task EXCEPT ![w] = task'[w]]
    BY <1>12 DEF LinkMyWorkspace, Typed, TypeOK
  <2>3. WellFormed(task'[w])
    BY <1>12 DEF LinkMyWorkspace, Request, At, Typed, TypeOK, WellFormed, Task, NoTask, Mailing,
       Pairing, SessionsAssumption
  <2> QED
    BY <2>1, <2>2, <2>3, TypedFrame
<1>13. ASSUME NEW w \in Workers, NEW a \in Accounts,
             NEW b \in Accounts, UnlinkMyWorkspace(w, a, b)
      PROVE  Typed'
  <2>1. Others'
    BY <1>13 DEF UnlinkMyWorkspace, Overlap, Admitted, Request, At, Others, Typed, TypeOK, WellFormed,
       Task, Mailing, Pairing, SessionsAssumption
  <2>2. task' = [task EXCEPT ![w] = task'[w]]
    BY <1>13 DEF UnlinkMyWorkspace, Typed, TypeOK
  <2>3. WellFormed(task'[w])
    BY <1>13 DEF UnlinkMyWorkspace, Request, At, Typed, TypeOK, WellFormed, Task, NoTask, Mailing,
       Pairing, SessionsAssumption
  <2> QED
    BY <2>1, <2>2, <2>3, TypedFrame
<1>14. ASSUME NEW w \in Workers, NEW a \in Accounts,
             NEW b \in Accounts, CreateMyWorkspaceBranch(w, a, b)
      PROVE  Typed'
  <2>1. Others'
    BY <1>14 DEF CreateMyWorkspaceBranch, Overlap, Overflow, Admitted, Request, At, Others, Typed, TypeOK,
       WellFormed, Task, Mailing, Pairing, SessionsAssumption
  <2>2. task' = [task EXCEPT ![w] = task'[w]]
    BY <1>14 DEF CreateMyWorkspaceBranch, Typed, TypeOK
  <2>3. WellFormed(task'[w])
    BY <1>14 DEF CreateMyWorkspaceBranch, Admitted, Typed, TypeOK, WellFormed, Task, NoTask,
       Mailing, Pairing, SessionsAssumption
  <2> QED
    BY <2>1, <2>2, <2>3, TypedFrame
<1>15. ASSUME NEW w \in Workers, NEW link \in Numbers, CompletePasswordReset(w, link)
      PROVE  Typed'
  <2>1. Others'
    BY <1>15 DEF CompletePasswordReset, Races, Request, At, Others, Typed, TypeOK, WellFormed, Task,
       Mailing, Pairing, SessionsAssumption
  <2>2. task' = [task EXCEPT ![w] = task'[w]]
    BY <1>15 DEF CompletePasswordReset, Typed, TypeOK
  <2>3. WellFormed(task'[w])
    <3>1. PICK a \in active : task' =
          [task EXCEPT ![w] = [NoTask EXCEPT !.at = "hash", !.me = a, !.number = link]]
      BY <1>15 DEF CompletePasswordReset
    <3>2. task'[w] = [NoTask EXCEPT !.at = "hash", !.me = a, !.number = link] /\ a \in Accounts
      BY <3>1 DEF Typed, TypeOK
    <3> QED
      BY <3>2 DEF WellFormed, Task, NoTask, Mailing, Pairing
  <2> QED
    BY <2>1, <2>2, <2>3, TypedFrame
<1>16. ASSUME NEW w \in Workers, ConsumeOtp(w) PROVE  Typed'
  <2>1. Others'
    <3>1. Me(w) \in Accounts /\ task[w].number \in Numbers
      BY <1>16 DEF ConsumeOtp, At, Me, Typed, WellFormed
    <3>2. codeUses' \in [Numbers -> Nat]
      BY <1>16, <3>1 DEF ConsumeOtp, Typed, TypeOK
    <3>3. otp' \in [Phones -> Numbers \cup {None}]
      BY <1>16 DEF ConsumeOtp, Consumed, Typed, TypeOK
    <3>4. token' \subseteq Accounts
      BY <1>16, <3>1 DEF ConsumeOtp, Typed, TypeOK
    <3> QED
      BY <1>16, <3>2, <3>3, <3>4 DEF ConsumeOtp, Others, Typed, TypeOK
  <2>2. task' = [task EXCEPT ![w] = NoTask]
    BY <1>16 DEF ConsumeOtp, Return
  <2>3. task'[w] = NoTask
    BY <2>2 DEF Typed, TypeOK
  <2> QED
    BY <2>1, <2>2, <2>3, TypedFrame, NoTaskFormed
<1>17. ASSUME NEW w \in Workers, DemoLogin(w) PROVE  Typed'
  BY <1>17, NoTaskFormed DEF DemoLogin, Return, At, Me, Typed, TypeOK, WellFormed
<1>18. ASSUME NEW w \in Workers, WritePassword(w) PROVE  Typed'
  BY <1>18, NoTaskFormed DEF WritePassword, Return, At, Me, Typed, TypeOK, WellFormed
<1>19. ASSUME NEW w \in Workers, MailSent(w) PROVE  Typed'
  <2>1. Others'
    BY <1>19 DEF MailSent, At, Me, Others, Typed, TypeOK, WellFormed, Task, Mailing, Pairing,
       SessionsAssumption
  <2>2. task' = [task EXCEPT ![w] = NoTask]
    BY <1>19 DEF MailSent, Return
  <2>3. task'[w] = NoTask
    BY <2>2 DEF Typed, TypeOK
  <2> QED
    BY <2>1, <2>2, <2>3, TypedFrame, NoTaskFormed
<1>20. ASSUME NEW w \in Workers, MailFails(w) PROVE  Typed'
  <2>1. Others'
    BY <1>20 DEF MailFails, At, Me, Others, Typed, TypeOK, WellFormed, Task, Mailing, Pairing,
       SessionsAssumption
  <2>2. task' = [task EXCEPT ![w] = NoTask]
    BY <1>20 DEF MailFails, Return
  <2>3. task'[w] = NoTask
    BY <2>2 DEF Typed, TypeOK
  <2> QED
    BY <2>1, <2>2, <2>3, TypedFrame, NoTaskFormed
<1>21. ASSUME NEW w \in Workers, WriteReset(w) PROVE  Typed'
  <2>1. Others'
    BY <1>21 DEF WriteReset, LinkCleared, At, Me, Others, Typed, TypeOK, WellFormed, Task, Mailing,
       Pairing, SessionsAssumption
  <2>2. task' = [task EXCEPT ![w] = NoTask]
    BY <1>21 DEF WriteReset, Return
  <2>3. task'[w] = NoTask
    BY <2>2 DEF Typed, TypeOK
  <2> QED
    BY <2>1, <2>2, <2>3, TypedFrame, NoTaskFormed
<1>22. ASSUME NEW w \in Workers, ReadLinks(w) PROVE  Typed'
  <2>1. Others'
    BY <1>22 DEF ReadLinks, Read, At, Me, Others, Typed, TypeOK, WellFormed, Task, Mailing, Pairing,
       SessionsAssumption
  <2>2. task' = [task EXCEPT ![w] = task'[w]]
    BY <1>22 DEF ReadLinks, Typed, TypeOK
  <2>3. WellFormed(task'[w])
    <3>1. task'[w] = [task[w] EXCEPT !.at = "both", !.mine = Read(Me(w)),
                                       !.theirs = Read(task[w].other)]
      BY <1>22 DEF ReadLinks, Typed, TypeOK
    <3>2. WellFormed(task[w]) /\ task[w].at = "read"
      BY <1>22 DEF ReadLinks, At, Typed
    <3>3. Read(Me(w)) \subseteq Accounts /\ Read(task[w].other) \subseteq Accounts
      BY <3>2 DEF Read, Me, WellFormed, Pairing, Typed, TypeOK
    <3> QED
      BY <3>1, <3>2, <3>3 DEF WellFormed, Task, Mailing, Pairing
  <2> QED
    BY <2>1, <2>2, <2>3, TypedFrame
<1>23. ASSUME NEW w \in Workers, WriteHere(w) PROVE  Typed'
  <2>1. Others'
    BY <1>23 DEF WriteHere, Mine, At, Me, Others, Typed, TypeOK, WellFormed, Task, Mailing, Pairing,
       SessionsAssumption
  <2> QED
    BY <1>23, <2>1, WroteTyped DEF WriteHere, Pairing
<1>24. ASSUME NEW w \in Workers, WriteThere(w) PROVE  Typed'
  <2>1. Others'
    BY <1>24 DEF WriteThere, Theirs, At, Me, Others, Typed, TypeOK, WellFormed, Task, Mailing,
       Pairing, SessionsAssumption
  <2> QED
    BY <1>24, <2>1, WroteTyped DEF WriteThere, Pairing
<1>25. CASE UNCHANGED vars
  BY <1>25 DEF vars, Typed, TypeOK, WellFormed
<1> QED
  BY <1>1, <1>2, <1>3, <1>4, <1>5, <1>6, <1>7, <1>8, <1>9, <1>10, <1>11, <1>12, <1>13,
     <1>14, <1>15, <1>16, <1>17, <1>18, <1>19, <1>20, <1>21, <1>22, <1>23, <1>24, <1>25 DEF Next

-----------------------------------------------------------------------------
(* One-time codes.                                                         *)

LEMMA CodesFrame ==
  ASSUME SessionsAssumption, Typed, Codes, UNCHANGED <<otp, codeUses>>,
         requests' \in Nat, requests' >= requests
  PROVE  Codes'
BY DEF Codes, Typed, TypeOK, Numbers

\* The code that is sent has a number that was never used.
LEMMA CodesSendLoginOtp ==
  ASSUME SessionsAssumption, Typed, Codes, NEW w \in Workers, NEW a \in Accounts,
         SendLoginOtp(w, a)
  PROVE  Codes'
<1>1. /\ Phone(a) \in Phones
      /\ otp' = [otp EXCEPT ![Phone(a)] = requests + 1]
      /\ requests' = requests + 1 /\ requests + 1 \in Numbers
      /\ UNCHANGED codeUses
  BY DEF SendLoginOtp, Request, Fresh, Phones, Typed, TypeOK, Numbers, SessionsAssumption
<1>2. \A p \in Phones : otp[p] # None => otp[p] \in Numbers /\ otp[p] <= requests
  BY DEF Codes, Typed, TypeOK
<1>3. requests \in Nat /\ None # requests + 1
  BY DEF Typed, TypeOK, SessionsAssumption
<1>4. \A p \in Phones : otp'[p] = IF p = Phone(a) THEN requests + 1 ELSE otp[p]
  BY <1>1 DEF Typed, TypeOK
<1> QED
  BY <1>1, <1>2, <1>3, <1>4 DEF Codes, Typed, TypeOK, Numbers

\* The code is used and removed in one step, and no other phone has it.
LEMMA CodesConsumeOtp ==
  ASSUME SessionsAssumption, Typed, Codes, NEW w \in Workers, ConsumeOtp(w)
  PROVE  Codes'
<1> DEFINE p == Phone(Me(w))
           code == task[w].number
<1>1. p \in Phones /\ code \in Numbers
  BY DEF ConsumeOtp, At, Me, Typed, WellFormed, Phones
<1>2. CASE otp[p] = code /\ code \notin expired
  <2>1. /\ otp' = [otp EXCEPT ![p] = None]
        /\ codeUses' = [codeUses EXCEPT ![code] = @ + 1]
        /\ requests' = requests
    BY <1>2 DEF ConsumeOtp, Consumed
  <2>2. code # None
    BY <1>1 DEF SessionsAssumption, Numbers
  <2> QED
    BY <1>1, <1>2, <2>1, <2>2 DEF Codes, Typed, TypeOK, Numbers
<1>3. CASE ~(otp[p] = code /\ code \notin expired)
  <2>1. /\ otp' \in {otp, [otp EXCEPT ![p] = None]}
        /\ codeUses' = codeUses
        /\ requests' = requests
    BY <1>3 DEF ConsumeOtp, Consumed
  <2> QED
    BY <1>1, <2>1 DEF Codes, Typed, TypeOK, Numbers
<1> QED
  BY <1>2, <1>3

LEMMA CodesRestart ==
  ASSUME SessionsAssumption, Typed, Codes, Restart
  PROVE  Codes'
BY DEF Restart, Codes, Typed, TypeOK, Numbers

LEMMA CodesStep ==
  ASSUME SessionsAssumption, Typed, Codes, [Next]_vars
  PROVE  Codes'
<1>1. ASSUME NEW a \in Accounts, NEW b \in Accounts, SwitchMyWorkspace(a, b) PROVE  Codes'
  BY <1>1, CodesFrame DEF SwitchMyWorkspace, Typed, TypeOK
<1>2. ASSUME Restart PROVE  Codes'
  BY <1>2, CodesRestart
<1>3. ASSUME NEW n \in Numbers, Expire(n) PROVE  Codes'
  BY <1>3, CodesFrame DEF Expire, Typed, TypeOK
<1>4. ASSUME NEW w \in Workers, NEW a \in Accounts, Login(w, a) PROVE  Codes'
  BY <1>4, CodesFrame DEF Login, Request, Typed, TypeOK
<1>5. ASSUME NEW w \in Workers, NEW a \in Accounts, SendLoginOtp(w, a) PROVE  Codes'
  BY <1>5, CodesSendLoginOtp
<1>6. ASSUME NEW w \in Workers, NEW a \in Accounts, ChangePassword(w, a) PROVE  Codes'
  BY <1>6, CodesFrame DEF ChangePassword, Request, Typed, TypeOK
<1>7. ASSUME NEW w \in Workers, NEW a \in Accounts, ForgotPassword(w, a) PROVE  Codes'
  BY <1>7, CodesFrame DEF ForgotPassword, Request, Typed, TypeOK
<1>8. ASSUME NEW w \in Workers, NEW a \in Accounts, SetActive(w, a) PROVE  Codes'
  BY <1>8, CodesFrame DEF SetActive, Request, Typed, TypeOK
<1>9. ASSUME NEW w \in Workers, NEW a \in Accounts, Suspend(w, a) PROVE  Codes'
  BY <1>9, CodesFrame DEF Suspend, Request, Typed, TypeOK
<1>10. ASSUME NEW w \in Workers, NEW a \in Accounts, NEW code \in Numbers,
             VerifyLoginOtp(w, a, code)
      PROVE  Codes'
  BY <1>10, CodesFrame DEF VerifyLoginOtp, Request, Typed, TypeOK
<1>11. ASSUME NEW w \in Workers, NEW a \in Accounts, PutUserResetPassword(w, a)
      PROVE  Codes'
  BY <1>11, CodesFrame DEF PutUserResetPassword, Request, Typed, TypeOK
<1>12. ASSUME NEW w \in Workers, NEW a \in Accounts,
             NEW b \in Accounts, LinkMyWorkspace(w, a, b)
      PROVE  Codes'
  BY <1>12, CodesFrame DEF LinkMyWorkspace, Request, Typed, TypeOK
<1>13. ASSUME NEW w \in Workers, NEW a \in Accounts,
             NEW b \in Accounts, UnlinkMyWorkspace(w, a, b)
      PROVE  Codes'
  BY <1>13, CodesFrame DEF UnlinkMyWorkspace, Request, Typed, TypeOK
<1>14. ASSUME NEW w \in Workers, NEW a \in Accounts,
             NEW b \in Accounts, CreateMyWorkspaceBranch(w, a, b)
      PROVE  Codes'
  BY <1>14, CodesFrame DEF CreateMyWorkspaceBranch, Request, Typed, TypeOK
<1>15. ASSUME NEW w \in Workers, NEW link \in Numbers, CompletePasswordReset(w, link)
      PROVE  Codes'
  BY <1>15, CodesFrame DEF CompletePasswordReset, Request, Typed, TypeOK
<1>16. ASSUME NEW w \in Workers, ConsumeOtp(w) PROVE  Codes'
  BY <1>16, CodesConsumeOtp
<1>17. ASSUME NEW w \in Workers, DemoLogin(w) PROVE  Codes'
  BY <1>17, CodesFrame DEF DemoLogin, Typed, TypeOK
<1>18. ASSUME NEW w \in Workers, WritePassword(w) PROVE  Codes'
  BY <1>18, CodesFrame DEF WritePassword, Typed, TypeOK
<1>19. ASSUME NEW w \in Workers, MailSent(w) PROVE  Codes'
  BY <1>19, CodesFrame DEF MailSent, Typed, TypeOK
<1>20. ASSUME NEW w \in Workers, MailFails(w) PROVE  Codes'
  BY <1>20, CodesFrame DEF MailFails, Typed, TypeOK
<1>21. ASSUME NEW w \in Workers, WriteReset(w) PROVE  Codes'
  BY <1>21, CodesFrame DEF WriteReset, Typed, TypeOK
<1>22. ASSUME NEW w \in Workers, ReadLinks(w) PROVE  Codes'
  BY <1>22, CodesFrame DEF ReadLinks, Typed, TypeOK
<1>23. ASSUME NEW w \in Workers, WriteHere(w) PROVE  Codes'
  BY <1>23, CodesFrame DEF WriteHere, Typed, TypeOK
<1>24. ASSUME NEW w \in Workers, WriteThere(w) PROVE  Codes'
  BY <1>24, CodesFrame DEF WriteThere, Typed, TypeOK
<1>25. CASE UNCHANGED vars
  BY <1>25, CodesFrame DEF vars, Request, Typed, TypeOK
<1> QED
  BY <1>1, <1>2, <1>3, <1>4, <1>5, <1>6, <1>7, <1>8, <1>9, <1>10, <1>11, <1>12, <1>13,
     <1>14, <1>15, <1>16, <1>17, <1>18, <1>19, <1>20, <1>21, <1>22, <1>23, <1>24, <1>25 DEF Next

-----------------------------------------------------------------------------
(* Reset links.                                                            *)

LEMMA ResetsFrame ==
  ASSUME Typed, Resets, UNCHANGED <<reset, valid, raced>>,
         \A v \in Workers : task[v].at \in Mailing \/ task'[v].at \in Mailing => task'[v] = task[v]
  PROVE  Resets'
BY DEF Resets, Resetter, Me, At, Mailing

LEMMA ResetsForgotPassword ==
  ASSUME SessionsAssumption, Typed, Resets, NEW w \in Workers, NEW a \in Accounts,
         ForgotPassword(w, a)
  PROVE  Resets'
<1>0. task[w].at = "idle"
  BY DEF ForgotPassword, Request, At
<1>1. /\ task' = [task EXCEPT ![w] = task'[w]]
      /\ task'[w].at = "mail" /\ task'[w].me = a /\ task'[w].number = reset'[a]
      /\ reset' = [reset EXCEPT ![a] = reset'[a]]
      /\ valid' = [valid EXCEPT ![a] = None]
      /\ raced \subseteq raced'
      /\ a \notin raced' => ~Resetting(w, a)
  BY DEF ForgotPassword, Races, NoTask, Typed, TypeOK
<1>2. /\ \A v \in Workers \ {w} : task'[v] = task[v]
      /\ \A x \in Accounts \ {a} : reset'[x] = reset[x] /\ valid'[x] = valid[x]
      /\ valid'[a] = None
  BY <1>1 DEF Typed, TypeOK
<1>3. \A v \in Workers : task'[v].at = "mail" => task'[v].me \in Accounts
  BY <1>1, <1>2 DEF Typed, WellFormed, Mailing
<1>4. a \notin raced' => \A v \in Workers \ {w} : ~Resetter(v, a)
  BY <1>1 DEF Resetting, Resetter, Mailing
<1>5. ASSUME NEW x \in Accounts \ raced', NEW v \in Workers, NEW u \in Workers,
             Resetter(v, x)', Resetter(u, x)'
      PROVE  v = u
  BY <1>1, <1>2, <1>4, <1>5 DEF Resets, Resetter, Me
<1>6. ASSUME NEW v \in Workers, At(v, "mail")', Me(v)' \notin raced'
      PROVE  reset'[Me(v)'] = task'[v].number /\ valid'[Me(v)'] = None
  BY <1>1, <1>2, <1>3, <1>4, <1>6 DEF Resets, Resetter, At, Me, Mailing
<1>7. ASSUME NEW x \in Accounts \ raced', \A v \in Workers : ~(At(v, "mail")' /\ Me(v)' = x)
      PROVE  reset'[x] = valid'[x]
  <2>1. x # a
    BY <1>1, <1>7 DEF At, Me
  <2>2. \A v \in Workers : ~(At(v, "mail") /\ Me(v) = x)
    BY <1>0, <1>2, <1>7 DEF At, Me
  <2> QED
    BY <1>1, <1>2, <2>1, <2>2 DEF Resets
<1> QED
  BY <1>5, <1>6, <1>7 DEF Resets

LEMMA ResetsCompletePasswordReset ==
  ASSUME SessionsAssumption, Typed, Resets, NEW w \in Workers, NEW link \in Numbers,
         CompletePasswordReset(w, link)
  PROVE  Resets'
<1>1. PICK a \in active : /\ raced' = Races(w, a)
                          /\ task' = [task EXCEPT ![w] =
                               [NoTask EXCEPT !.at = "hash", !.me = a, !.number = link]]
  BY DEF CompletePasswordReset
<1>2. /\ task' = [task EXCEPT ![w] = task'[w]]
      /\ task'[w].at = "hash" /\ task'[w].me = a
      /\ UNCHANGED <<reset, valid>>
      /\ raced \subseteq raced'
      /\ a \notin raced' => ~Resetting(w, a)
      /\ At(w, "idle") /\ a \in Accounts
  BY <1>1 DEF CompletePasswordReset, Request, Races, NoTask, Typed, TypeOK
<1>3. \A v \in Workers \ {w} : task'[v] = task[v]
  BY <1>2 DEF Typed, TypeOK
<1> QED
  BY <1>2, <1>3 DEF Resetting, Resets, Resetter, Me, At, Mailing, Typed, TypeOK

\* The mail of an account that has no other request is that of the stored link.
LEMMA ResetsMailSent ==
  ASSUME SessionsAssumption, Typed, Resets, NEW w \in Workers, MailSent(w)
  PROVE  Resets'
<1>1. /\ task' = [task EXCEPT ![w] = NoTask] /\ NoTask.at = "idle"
      /\ UNCHANGED <<reset, raced>>
      /\ valid' = [valid EXCEPT ![Me(w)] = task[w].number]
      /\ At(w, "mail") /\ Me(w) \in Accounts
  BY DEF MailSent, Return, NoTask, At, Me, Typed, WellFormed
<1> QED
  BY <1>1 DEF Resets, Resetter, Me, At, Mailing, Typed, TypeOK

LEMMA ResetsMailFails ==
  ASSUME SessionsAssumption, Typed, Resets, NEW w \in Workers, MailFails(w)
  PROVE  Resets'
<1>1. /\ task' = [task EXCEPT ![w] = NoTask] /\ NoTask.at = "idle"
      /\ UNCHANGED <<valid, raced>>
      /\ reset' = [reset EXCEPT ![Me(w)] = None]
      /\ At(w, "mail") /\ Me(w) \in Accounts
  BY DEF MailFails, Return, NoTask, At, Me, Typed, WellFormed
<1> QED
  BY <1>1 DEF Resets, Resetter, Me, At, Mailing, Typed, TypeOK

LEMMA ResetsWriteReset ==
  ASSUME SessionsAssumption, Typed, Resets, NEW w \in Workers, WriteReset(w)
  PROVE  Resets'
<1>1. /\ task' = [task EXCEPT ![w] = NoTask] /\ NoTask.at = "idle"
      /\ UNCHANGED raced
      /\ reset' = [reset EXCEPT ![Me(w)] = None]
      /\ valid' = [valid EXCEPT ![Me(w)] = None]
      /\ At(w, "hash") /\ Me(w) \in Accounts
  BY DEF WriteReset, LinkCleared, Return, NoTask, At, Me, Typed, WellFormed
<1> QED
  BY <1>1 DEF Resets, Resetter, Me, At, Mailing, Typed, TypeOK

\* The accounts whose mail is under way are taken out.
LEMMA ResetsRestart ==
  ASSUME SessionsAssumption, Typed, Resets, Restart
  PROVE  Resets'
<1>1. \A w \in Workers : task'[w].at = "idle"
  BY DEF Restart, NoTask
<1>2. /\ UNCHANGED <<reset, valid>>
      /\ raced' = raced \cup {a \in Accounts : \E w \in Workers : At(w, "mail") /\ Me(w) = a}
  BY DEF Restart
<1> QED
  BY <1>1, <1>2 DEF Resets, Resetter, Me, At, Mailing

LEMMA ResetsStep ==
  ASSUME SessionsAssumption, Typed, Resets, [Next]_vars
  PROVE  Resets'
<1>1. ASSUME NEW a \in Accounts, NEW b \in Accounts, SwitchMyWorkspace(a, b)
      PROVE  Resets'
  BY <1>1, ResetsFrame DEF SwitchMyWorkspace, Typed, TypeOK, Mailing
<1>2. ASSUME Restart PROVE  Resets'
  BY <1>2, ResetsRestart
<1>3. ASSUME NEW n \in Numbers, Expire(n) PROVE  Resets'
  BY <1>3, ResetsFrame DEF Expire, Typed, TypeOK, Mailing
<1>4. ASSUME NEW w \in Workers, NEW a \in Accounts, Login(w, a) PROVE  Resets'
  BY <1>4, ResetsFrame DEF Login, Request, At, Typed, TypeOK, Mailing
<1>5. ASSUME NEW w \in Workers, NEW a \in Accounts, SendLoginOtp(w, a) PROVE  Resets'
  BY <1>5, ResetsFrame DEF SendLoginOtp, Request, At, Typed, TypeOK, Mailing
<1>6. ASSUME NEW w \in Workers, NEW a \in Accounts, ChangePassword(w, a) PROVE  Resets'
  BY <1>6, ResetsFrame DEF ChangePassword, Request, At, Typed, TypeOK, NoTask, Mailing
<1>7. ASSUME NEW w \in Workers, NEW a \in Accounts, ForgotPassword(w, a) PROVE  Resets'
  BY <1>7, ResetsForgotPassword
<1>8. ASSUME NEW w \in Workers, NEW a \in Accounts, SetActive(w, a) PROVE  Resets'
  BY <1>8, ResetsFrame DEF SetActive, Request, At, Typed, TypeOK, Mailing
<1>9. ASSUME NEW w \in Workers, NEW a \in Accounts, Suspend(w, a) PROVE  Resets'
  BY <1>9, ResetsFrame DEF Suspend, Request, At, Typed, TypeOK, Mailing
<1>10. ASSUME NEW w \in Workers, NEW a \in Accounts, NEW code \in Numbers,
             VerifyLoginOtp(w, a, code)
      PROVE  Resets'
  BY <1>10, ResetsFrame DEF VerifyLoginOtp, Request, At, Typed, TypeOK, NoTask, Mailing
<1>11. ASSUME NEW w \in Workers, NEW a \in Accounts, PutUserResetPassword(w, a)
      PROVE  Resets'
  BY <1>11, ResetsFrame DEF PutUserResetPassword, Request, At, Typed, TypeOK, Mailing
<1>12. ASSUME NEW w \in Workers, NEW a \in Accounts,
             NEW b \in Accounts, LinkMyWorkspace(w, a, b)
      PROVE  Resets'
  BY <1>12, ResetsFrame DEF LinkMyWorkspace, Request, At, Typed, TypeOK, NoTask, Mailing
<1>13. ASSUME NEW w \in Workers, NEW a \in Accounts,
             NEW b \in Accounts, UnlinkMyWorkspace(w, a, b)
      PROVE  Resets'
  BY <1>13, ResetsFrame DEF UnlinkMyWorkspace, Request, At, Typed, TypeOK, NoTask, Mailing
<1>14. ASSUME NEW w \in Workers, NEW a \in Accounts,
             NEW b \in Accounts, CreateMyWorkspaceBranch(w, a, b)
      PROVE  Resets'
  BY <1>14, ResetsFrame DEF CreateMyWorkspaceBranch, Request, At, Typed, TypeOK, NoTask, Mailing
<1>15. ASSUME NEW w \in Workers, NEW link \in Numbers, CompletePasswordReset(w, link)
      PROVE  Resets'
  BY <1>15, ResetsCompletePasswordReset
<1>16. ASSUME NEW w \in Workers, ConsumeOtp(w) PROVE  Resets'
  BY <1>16, ResetsFrame DEF ConsumeOtp, Return, At, Me, Typed, TypeOK, NoTask, Mailing
<1>17. ASSUME NEW w \in Workers, DemoLogin(w) PROVE  Resets'
  BY <1>17, ResetsFrame DEF DemoLogin, Return, At, Me, Typed, TypeOK, NoTask, Mailing
<1>18. ASSUME NEW w \in Workers, WritePassword(w) PROVE  Resets'
  BY <1>18, ResetsFrame DEF WritePassword, Return, At, Me, Typed, TypeOK, NoTask, Mailing
<1>19. ASSUME NEW w \in Workers, MailSent(w) PROVE  Resets'
  BY <1>19, ResetsMailSent
<1>20. ASSUME NEW w \in Workers, MailFails(w) PROVE  Resets'
  BY <1>20, ResetsMailFails
<1>21. ASSUME NEW w \in Workers, WriteReset(w) PROVE  Resets'
  BY <1>21, ResetsWriteReset
<1>22. ASSUME NEW w \in Workers, ReadLinks(w) PROVE  Resets'
  BY <1>22, ResetsFrame DEF ReadLinks, At, Me, Typed, TypeOK, Mailing
<1>23. ASSUME NEW w \in Workers, WriteHere(w) PROVE  Resets'
  BY <1>23, WroteOne, ResetsFrame DEF WriteHere, At, Me, Typed, TypeOK, Mailing
<1>24. ASSUME NEW w \in Workers, WriteThere(w) PROVE  Resets'
  BY <1>24, WroteOne, ResetsFrame DEF WriteThere, At, Me, Typed, TypeOK, Mailing
<1>25. CASE UNCHANGED vars
  BY <1>25, ResetsFrame DEF vars, Request, Return, At, Me, Typed, TypeOK, NoTask, Mailing
<1> QED
  BY <1>1, <1>2, <1>3, <1>4, <1>5, <1>6, <1>7, <1>8, <1>9, <1>10, <1>11, <1>12, <1>13,
     <1>14, <1>15, <1>16, <1>17, <1>18, <1>19, <1>20, <1>21, <1>22, <1>23, <1>24, <1>25 DEF Next

-----------------------------------------------------------------------------
(* Links between workshops.                                                *)

LEMMA LinkedFrame ==
  ASSUME Typed, Linked, UNCHANGED <<links, torn>>,
         \A v \in Workers : task[v].at \in Pairing \/ task'[v].at \in Pairing => task'[v] = task[v]
  PROVE  Linked'
<1>1. ASSUME NEW a \in Accounts \ torn, NEW v \in Workers, NEW w \in Workers,
             Linker(v, a)', Linker(w, a)'
      PROVE  v = w
  BY <1>1 DEF Linked, Linker, Me
<1>2. ASSUME NEW w \in Workers
      PROVE  Informed(w)'
  BY DEF Linked, Informed, HasRoom, At, Me, Pairing
<1>3. ASSUME NEW a \in Accounts \ torn, NEW b \in Accounts \ torn,
             \A w \in Workers : Halfway(w)' => {a, b} # {Me(w), task[w].other}'
      PROVE  Agree(a, b)'
  <2>1. \A w \in Workers : Halfway(w) => {a, b} # {Me(w), task[w].other}
    BY <1>3 DEF Halfway, Me, Pairing
  <2> QED
    BY <2>1 DEF Linked, Agree
<1> QED
  BY <1>1, <1>2, <1>3 DEF Linked

\* A request about two accounts that no other one is about.
LEMMA LinkedBegins ==
  ASSUME Typed, Linked,
         NEW w \in Workers, NEW a \in Accounts, NEW b \in Accounts \ {a},
         At(w, "idle"), UNCHANGED links, torn \cup Overlap(w, a, b) \subseteq torn',
         task' = [task EXCEPT ![w] = task'[w]],
         task'[w].at = "read", task'[w].me = a, task'[w].other = b,
         task'[w].adds => Overflow(a, b) \subseteq torn'
  PROVE  Linked'
<1>1. \A x \in {a, b} \ torn', v \in Workers \ {w} : x \notin {Me(v), task[v].other}
  BY DEF Overlap, Linking
<1>2. \A v \in Workers \ {w} : task'[v] = task[v]
  BY DEF Typed, TypeOK
<1>3. ASSUME NEW x \in Accounts \ torn', NEW v \in Workers, NEW u \in Workers,
             Linker(v, x)', Linker(u, x)'
      PROVE  v = u
  BY <1>1, <1>2, <1>3 DEF Linked, Linker, Me
<1>4. ASSUME NEW v \in Workers
      PROVE  Informed(v)'
  <2>1. CASE v = w
    BY <2>1 DEF Informed, Overflow, HasRoom, At, Me
  <2>2. CASE v # w
    BY <1>2, <2>2 DEF Linked, Informed, HasRoom, At, Me
  <2> QED
    BY <2>1, <2>2
<1>5. ASSUME NEW x \in Accounts \ torn', NEW y \in Accounts \ torn',
             \A v \in Workers : Halfway(v)' => {x, y} # {Me(v), task[v].other}'
      PROVE  Agree(x, y)'
  <2>1. \A v \in Workers : Halfway(v) => {x, y} # {Me(v), task[v].other}
    BY <1>2, <1>5 DEF Halfway, At, Me
  <2> QED
    BY <2>1 DEF Linked, Agree
<1> QED
  BY <1>3, <1>4, <1>5 DEF Linked

LEMMA LinkedLinkMyWorkspace ==
  ASSUME SessionsAssumption, Typed, Linked, NEW w \in Workers, NEW a \in Accounts,
         NEW b \in Accounts, LinkMyWorkspace(w, a, b)
  PROVE  Linked'
BY LinkedBegins DEF LinkMyWorkspace, Request, NoTask, Typed, TypeOK

LEMMA LinkedUnlinkMyWorkspace ==
  ASSUME SessionsAssumption, Typed, Linked, NEW w \in Workers, NEW a \in Accounts,
         NEW b \in Accounts, UnlinkMyWorkspace(w, a, b)
  PROVE  Linked'
BY LinkedBegins DEF UnlinkMyWorkspace, Request, NoTask, Typed, TypeOK

LEMMA LinkedCreateMyWorkspaceBranch ==
  ASSUME SessionsAssumption, Typed, Linked, NEW w \in Workers, NEW a \in Accounts,
         NEW b \in Accounts, CreateMyWorkspaceBranch(w, a, b)
  PROVE  Linked'
<1>1. /\ a # b /\ At(w, "idle") /\ UNCHANGED links
      /\ torn' = torn \cup Overlap(w, a, b) \cup Overflow(a, b)
  BY DEF CreateMyWorkspaceBranch, Admitted, Request
<1>2. /\ task' = [task EXCEPT ![w] = task'[w]]
      /\ task'[w].at = "read" /\ task'[w].me = a /\ task'[w].other = b
  BY DEF CreateMyWorkspaceBranch, NoTask, Typed, TypeOK
<1> QED
  BY <1>1, <1>2, LinkedBegins

\* Both lists are read as they are stored: none that is not torn is too long.
LEMMA LinkedReadLinks ==
  ASSUME SessionsAssumption, Typed, Linked, NEW w \in Workers, ReadLinks(w)
  PROVE  Linked'
<1>1. /\ task[w].at = "read" /\ task'[w].at = "both"
      /\ task'[w].me = task[w].me /\ task'[w].other = task[w].other
      /\ task'[w].adds = task[w].adds
      /\ task'[w].mine = Read(Me(w)) /\ task'[w].theirs = Read(task[w].other)
      /\ UNCHANGED <<links, torn>>
  BY DEF ReadLinks, At, Typed, TypeOK, Task
<1>2. \A v \in Workers \ {w} : task'[v] = task[v]
  BY DEF ReadLinks, Typed, TypeOK
<1>3. \A v \in Workers, x \in Accounts : Linker(v, x)' => Linker(v, x)
  BY <1>1, <1>2 DEF Linker, Me, Pairing
<1>4. ASSUME NEW v \in Workers
      PROVE  Informed(v)'
  <2>1. CASE v = w
    <3>1. Me(w) \in Accounts /\ task[w].other \in Accounts
      BY <1>1 DEF Typed, WellFormed, Pairing, Me
    <3>2. ASSUME NEW x \in Accounts \ torn
          PROVE  Read(x) = links[x] \ {x}
      <4>1. Cardinality(links[x]) \in Nat
        BY FS_Subset, FS_CardinalityType DEF SessionsAssumption, Typed, TypeOK
      <4> QED
        BY <4>1 DEF Linked, Read, SessionsAssumption
    <3> QED
      <4>1. Informed(w)
        BY DEF Linked
      <4> QED
        BY <1>1, <2>1, <3>1, <3>2, <4>1 DEF Informed, HasRoom, At, Me, Pairing
  <2>2. CASE v # w
    BY <1>1, <1>2, <2>2 DEF Linked, Informed, HasRoom, At, Me
  <2> QED
    BY <2>1, <2>2
<1>5. ASSUME NEW x \in Accounts \ torn, NEW y \in Accounts \ torn,
             \A v \in Workers : Halfway(v)' => {x, y} # {Me(v), task[v].other}'
      PROVE  Agree(x, y)'
  <2>1. \A v \in Workers : Halfway(v) => {x, y} # {Me(v), task[v].other}
    BY <1>1, <1>2, <1>5 DEF Halfway, Me
  <2> QED
    BY <1>1, <2>1 DEF Linked, Agree
<1> QED
  BY <1>1, <1>3, <1>4, <1>5 DEF Linked

\* One of the two lists, x's, is written: it is the stored one with the change,
\* and agrees with the other list when that one was written before.
LEMMA LinkedWrites ==
  ASSUME SessionsAssumption, Typed, Linked, Typed', NEW w \in Workers,
         NEW x \in Accounts, NEW y \in Accounts \ {x}, NEW left \in {"here", "there"},
         task[w].at \in {"both", "here", "there"}, {x, y} = {Me(w), task[w].other},
         links' = [links EXCEPT ![x] = links'[x]], UNCHANGED torn, Wrote(w, left),
         task[w].adds = TRUE \/ task[w].adds = FALSE,
         x \notin torn => links'[x] = IF task[w].adds THEN (links[x] \ {x}) \cup {y}
                                                   ELSE (links[x] \ {x}) \ {y},
         ~At(w, "both") /\ y \notin torn => (x \in links[y] <=> task[w].adds),
         At(w, "both") => x = IF left = "there" THEN Me(w) ELSE task[w].other
  PROVE  Linked'
<1>1. \A v \in Workers \ {w} : task'[v] = task[v]
  BY DEF Wrote, Return, Typed, TypeOK
<1>2. \/ /\ At(w, "both") /\ task'[w].at = left
         /\ task'[w].me = task[w].me /\ task'[w].other = task[w].other
         /\ task'[w].adds = task[w].adds
         /\ task'[w].mine = task[w].mine /\ task'[w].theirs = task[w].theirs
      \/ ~At(w, "both") /\ task'[w].at = "idle"
  BY DEF Wrote, Return, NoTask, Typed, TypeOK, Task
<1>3. \A z \in Accounts \ {x} : links'[z] = links[z]
  BY DEF Typed, TypeOK
<1>4. \A v \in Workers \ {w} : x \notin torn /\ task[v].at \in Pairing =>
                                 x \notin {task[v].me, task[v].other}
  BY DEF Linked, Linker, Me, Pairing
<1>5. \A v \in Workers, z \in Accounts : Linker(v, z)' => Linker(v, z)
  BY <1>1, <1>2 DEF Linker, Me, Pairing, At
<1>6. ASSUME x \notin torn
      PROVE  /\ Cardinality(links'[x]) <= MaxLinks
             /\ task[w].adds => HasRoom(x, y)'
  <2>1. links[x] \subseteq Accounts /\ IsFiniteSet(Accounts) /\ MaxLinks \in Nat
    BY DEF SessionsAssumption, Typed, TypeOK
  <2>2. CASE task[w].adds
    <3>1. Cardinality(links[x] \cup {y}) <= MaxLinks
      <4>1. Informed(w)
        BY DEF Linked
      <4>2. \/ x = Me(w) /\ y = task[w].other
            \/ y = Me(w) /\ x = task[w].other
        OBVIOUS
      <4> QED
        BY <1>6, <2>2, <4>1, <4>2 DEF Informed, HasRoom, Pairing
    <3>2. IsFiniteSet(links[x] \cup {y})
      BY <2>1, FS_Subset
    <3>3. links'[x] \cup {y} = links'[x] /\ links'[x] \in SUBSET (links[x] \cup {y})
      BY <1>6, <2>2
    <3>4. IsFiniteSet(links'[x]) /\ Cardinality(links'[x]) <= Cardinality(links[x] \cup {y})
      BY <3>2, <3>3, FS_Subset
    <3>5. Cardinality(links'[x]) \in Nat /\ Cardinality(links[x] \cup {y}) \in Nat
      BY <3>2, <3>4, FS_CardinalityType
    <3>6. Cardinality(links'[x]) <= MaxLinks
      BY <2>1, <3>1, <3>4, <3>5
    <3>7. HasRoom(x, y)'
      BY <3>3, <3>6 DEF HasRoom
    <3> QED
      BY <3>6, <3>7
  <2>3. CASE ~task[w].adds
    <3>1. Cardinality(links[x]) <= MaxLinks /\ links'[x] \in SUBSET links[x]
      BY <1>6, <2>3 DEF Linked
    <3>2. IsFiniteSet(links[x])
      BY <2>1, FS_Subset
    <3>3. IsFiniteSet(links'[x]) /\ Cardinality(links'[x]) <= Cardinality(links[x])
      BY <3>1, <3>2, FS_Subset
    <3>4. Cardinality(links'[x]) \in Nat /\ Cardinality(links[x]) \in Nat
      BY <3>2, <3>3, FS_CardinalityType
    <3> QED
      BY <2>1, <2>3, <3>1, <3>3, <3>4
  <2> QED
    BY <2>2, <2>3
<1>7. ASSUME NEW v \in Workers
      PROVE  Informed(v)'
  <2>1. CASE v = w /\ At(w, "both")
    <3>1. Informed(w)
      BY DEF Linked
    <3>2. /\ x \notin torn => (y \in links'[x] <=> task[w].adds)
          /\ links'[y] = links[y]
      BY <1>3
    <3>3. HasRoom(y, x) => HasRoom(y, x)'
      BY <3>2 DEF HasRoom
    <3>4. CASE left = "there"
      <4>1. x = Me(w) /\ y = task[w].other
        BY <2>1, <3>4
      <4> QED
        BY <1>2, <1>6, <2>1, <3>1, <3>2, <3>3, <3>4, <4>1 DEF Informed, At, Me, Pairing
    <3>5. CASE left = "here"
      <4>1. y = Me(w) /\ x = task[w].other
        BY <2>1, <3>5
      <4> QED
        BY <1>2, <1>6, <2>1, <3>1, <3>2, <3>3, <3>5, <4>1 DEF Informed, At, Me, Pairing
    <3> QED
      BY <3>4, <3>5
  <2>2. CASE v = w /\ ~At(w, "both")
    BY <1>2, <2>2 DEF Informed, At, Pairing
  <2>3. CASE v # w /\ task[v].at \in Pairing
    <3>1. task[v].me \in Accounts /\ task[v].other \in Accounts
      BY <2>3 DEF Typed, WellFormed, Pairing
    <3>2. Informed(v)
      BY DEF Linked
    <3>3. \A z \in {task[v].me, task[v].other} \ torn : links'[z] = links[z]
      BY <1>3, <1>4, <2>3, <3>1
    <3> QED
      <4>1. task'[v] = task[v] /\ UNCHANGED torn
        BY <1>1, <2>3
      <4>2. \A p, q \in {task[v].me, task[v].other} : p \notin torn => HasRoom(p, q)' = HasRoom(p, q)
        BY <3>3 DEF HasRoom
      <4> QED
        BY <3>1, <3>2, <3>3, <4>1, <4>2 DEF Informed, At, Me
  <2>4. CASE v # w /\ task[v].at \notin Pairing
    BY <1>1, <2>4 DEF Informed, At, Pairing
  <2> QED
    BY <2>1, <2>2, <2>3, <2>4
<1>8. ASSUME NEW a \in Accounts \ torn, NEW b \in Accounts \ torn,
             \A v \in Workers : Halfway(v)' => {a, b} # {Me(v), task[v].other}'
      PROVE  Agree(a, b)'
  <2>1. CASE {a, b} = {x, y}
    <3>1. ~At(w, "both")
      BY <1>2, <1>8, <2>1 DEF Halfway, Me
    <3> QED
      BY <1>3, <2>1, <3>1 DEF Agree
  <2>2. CASE {a, b} # {x, y}
    <3>1. Agree(a, b)
      <4>1. \A v \in Workers : Halfway(v) => {a, b} # {Me(v), task[v].other}
        BY <1>1, <1>8, <2>2 DEF Halfway, Me
      <4> QED
        BY <4>1 DEF Linked
    <3>2. ASSUME x \notin torn, NEW z \in Accounts \ {x, y}
          PROVE  z \in links'[x] <=> z \in links[x]
      BY <3>2
    <3> QED
      BY <1>3, <2>2, <3>1, <3>2 DEF Agree
  <2> QED
    BY <2>1, <2>2
<1>9. ASSUME NEW a \in Accounts \ torn
      PROVE  Cardinality(links'[a]) <= MaxLinks
  BY <1>3, <1>6 DEF Linked
<1> QED
  BY <1>5, <1>7, <1>8, <1>9 DEF Linked

LEMMA LinkedWriteHere ==
  ASSUME SessionsAssumption, Typed, Linked, Typed', NEW w \in Workers, WriteHere(w)
  PROVE  Linked'
<1>1. /\ task[w].at \in {"both", "here"}
      /\ links' = [links EXCEPT ![Me(w)] = Mine(w)]
      /\ UNCHANGED torn /\ Wrote(w, "there")
  BY DEF WriteHere
<1>2. /\ Me(w) \in Accounts /\ task[w].other \in Accounts \ {Me(w)}
      /\ task[w].adds \in BOOLEAN
  BY <1>1 DEF Typed, WellFormed, Pairing, Me, Task
<1>3. links'[Me(w)] = Mine(w)
  BY <1>1, <1>2 DEF Typed, TypeOK
<1>4. Informed(w)
  BY DEF Linked
<1>5. Me(w) \notin torn => task[w].mine = links[Me(w)] \ {Me(w)}
  BY <1>1, <1>4 DEF Informed
<1>6. ~At(w, "both") /\ task[w].other \notin torn =>
        (Me(w) \in links[task[w].other] <=> task[w].adds)
  BY <1>1, <1>4 DEF Informed, At
<1> QED
  <2> DEFINE x == Me(w)
             y == task[w].other
  <2>1. x \notin torn => links'[x] = IF task[w].adds THEN (links[x] \ {x}) \cup {y}
                                                     ELSE (links[x] \ {x}) \ {y}
    BY <1>3, <1>5 DEF Mine
  <2>2. links' = [links EXCEPT ![x] = links'[x]]
    BY <1>1, <1>3
  <2>3. /\ x \in Accounts /\ y \in Accounts \ {x} /\ {x, y} = {Me(w), task[w].other}
        /\ task[w].at \in {"both", "here", "there"}
        /\ task[w].adds = TRUE \/ task[w].adds = FALSE
        /\ x = IF "there" = "there" THEN Me(w) ELSE task[w].other
    BY <1>1, <1>2
  <2>4. ~At(w, "both") /\ y \notin torn => (x \in links[y] <=> task[w].adds)
    BY <1>6
  <2>5. UNCHANGED torn /\ Wrote(w, "there")
    BY <1>1
  <2> HIDE DEF x, y
  <2> QED
    BY <2>1, <2>2, <2>3, <2>4, <2>5, LinkedWrites

LEMMA LinkedWriteThere ==
  ASSUME SessionsAssumption, Typed, Linked, Typed', NEW w \in Workers, WriteThere(w)
  PROVE  Linked'
<1>1. /\ task[w].at \in {"both", "there"}
      /\ links' = [links EXCEPT ![task[w].other] = Theirs(w)]
      /\ UNCHANGED torn /\ Wrote(w, "here")
  BY DEF WriteThere
<1>2. /\ Me(w) \in Accounts /\ task[w].other \in Accounts \ {Me(w)}
      /\ task[w].adds \in BOOLEAN
  BY <1>1 DEF Typed, WellFormed, Pairing, Me, Task
<1>3. links'[task[w].other] = Theirs(w)
  BY <1>1, <1>2 DEF Typed, TypeOK
<1>4. Informed(w)
  BY DEF Linked
<1>5. task[w].other \notin torn => task[w].theirs = links[task[w].other] \ {task[w].other}
  BY <1>1, <1>4 DEF Informed
<1>6. ~At(w, "both") /\ Me(w) \notin torn =>
        (task[w].other \in links[Me(w)] <=> task[w].adds)
  BY <1>1, <1>4 DEF Informed, At
<1> QED
  <2> DEFINE x == task[w].other
             y == Me(w)
  <2>1. x \notin torn => links'[x] = IF task[w].adds THEN (links[x] \ {x}) \cup {y}
                                                     ELSE (links[x] \ {x}) \ {y}
    BY <1>3, <1>5 DEF Theirs
  <2>2. links' = [links EXCEPT ![x] = links'[x]]
    BY <1>1, <1>3
  <2>3. /\ x \in Accounts /\ y \in Accounts \ {x} /\ {x, y} = {Me(w), task[w].other}
        /\ task[w].at \in {"both", "here", "there"}
        /\ task[w].adds = TRUE \/ task[w].adds = FALSE
        /\ x = IF "here" = "there" THEN Me(w) ELSE task[w].other
    BY <1>1, <1>2
  <2>4. ~At(w, "both") /\ y \notin torn => (x \in links[y] <=> task[w].adds)
    BY <1>6
  <2>5. UNCHANGED torn /\ Wrote(w, "here")
    BY <1>1
  <2> HIDE DEF x, y
  <2> QED
    BY <2>1, <2>2, <2>3, <2>4, <2>5, LinkedWrites

\* The accounts whose lists are about to be written are taken out.
LEMMA LinkedRestart ==
  ASSUME SessionsAssumption, Typed, Linked, Restart
  PROVE  Linked'
<1>1. \A w \in Workers : task'[w].at = "idle"
  BY DEF Restart, NoTask
<1>2. /\ UNCHANGED links
      /\ torn \subseteq torn'
      /\ \A w \in Workers : Halfway(w) =>
           Accounts \cap {Me(w), task[w].other} \subseteq torn'
  BY DEF Restart, Halfway
<1>3. ASSUME NEW x \in Accounts \ torn', NEW y \in Accounts \ torn'
      PROVE  Agree(x, y)'
  <2>1. \A v \in Workers : Halfway(v) => {x, y} # {Me(v), task[v].other}
    BY <1>2
  <2> QED
    BY <1>2, <2>1 DEF Linked, Agree
<1>4. \A w \in Workers : Informed(w)'
  BY <1>1 DEF Informed, At, Pairing
<1> QED
  BY <1>1, <1>2, <1>3, <1>4 DEF Linked, Linker, Pairing

LEMMA LinkedStep ==
  ASSUME SessionsAssumption, Typed, Linked, [Next]_vars
  PROVE  Linked'
<1>1. ASSUME NEW a \in Accounts, NEW b \in Accounts, SwitchMyWorkspace(a, b)
      PROVE  Linked'
  BY <1>1, LinkedFrame DEF SwitchMyWorkspace, Typed, TypeOK, Pairing
<1>2. ASSUME Restart PROVE  Linked'
  BY <1>2, LinkedRestart
<1>3. ASSUME NEW n \in Numbers, Expire(n) PROVE  Linked'
  BY <1>3, LinkedFrame DEF Expire, Typed, TypeOK, Pairing
<1>4. ASSUME NEW w \in Workers, NEW a \in Accounts, Login(w, a) PROVE  Linked'
  BY <1>4, LinkedFrame DEF Login, Request, At, Typed, TypeOK, Pairing
<1>5. ASSUME NEW w \in Workers, NEW a \in Accounts, SendLoginOtp(w, a) PROVE  Linked'
  BY <1>5, LinkedFrame DEF SendLoginOtp, Request, At, Typed, TypeOK, Pairing
<1>6. ASSUME NEW w \in Workers, NEW a \in Accounts, ChangePassword(w, a) PROVE  Linked'
  BY <1>6, LinkedFrame DEF ChangePassword, Request, At, Typed, TypeOK, NoTask, Pairing
<1>7. ASSUME NEW w \in Workers, NEW a \in Accounts, ForgotPassword(w, a) PROVE  Linked'
  BY <1>7, LinkedFrame DEF ForgotPassword, Request, At, Typed, TypeOK, NoTask, Pairing
<1>8. ASSUME NEW w \in Workers, NEW a \in Accounts, SetActive(w, a) PROVE  Linked'
  BY <1>8, LinkedFrame DEF SetActive, Request, At, Typed, TypeOK, Pairing
<1>9. ASSUME NEW w \in Workers, NEW a \in Accounts, Suspend(w, a) PROVE  Linked'
  BY <1>9, LinkedFrame DEF Suspend, Request, At, Typed, TypeOK, Pairing
<1>10. ASSUME NEW w \in Workers, NEW a \in Accounts, NEW code \in Numbers,
             VerifyLoginOtp(w, a, code)
      PROVE  Linked'
  BY <1>10, LinkedFrame DEF VerifyLoginOtp, Request, At, Typed, TypeOK, NoTask, Pairing
<1>11. ASSUME NEW w \in Workers, NEW a \in Accounts, PutUserResetPassword(w, a)
      PROVE  Linked'
  BY <1>11, LinkedFrame DEF PutUserResetPassword, Request, At, Typed, TypeOK, Pairing
<1>12. ASSUME NEW w \in Workers, NEW a \in Accounts,
             NEW b \in Accounts, LinkMyWorkspace(w, a, b)
      PROVE  Linked'
  BY <1>12, LinkedLinkMyWorkspace
<1>13. ASSUME NEW w \in Workers, NEW a \in Accounts,
             NEW b \in Accounts, UnlinkMyWorkspace(w, a, b)
      PROVE  Linked'
  BY <1>13, LinkedUnlinkMyWorkspace
<1>14. ASSUME NEW w \in Workers, NEW a \in Accounts,
             NEW b \in Accounts, CreateMyWorkspaceBranch(w, a, b)
      PROVE  Linked'
  BY <1>14, LinkedCreateMyWorkspaceBranch
<1>15. ASSUME NEW w \in Workers, NEW link \in Numbers, CompletePasswordReset(w, link)
      PROVE  Linked'
  BY <1>15, LinkedFrame DEF CompletePasswordReset, Request, At, Typed, TypeOK, NoTask, Pairing
<1>16. ASSUME NEW w \in Workers, ConsumeOtp(w) PROVE  Linked'
  BY <1>16, LinkedFrame DEF ConsumeOtp, Return, At, Typed, TypeOK, NoTask, Pairing
<1>17. ASSUME NEW w \in Workers, DemoLogin(w) PROVE  Linked'
  BY <1>17, LinkedFrame DEF DemoLogin, Return, At, Typed, TypeOK, NoTask, Pairing
<1>18. ASSUME NEW w \in Workers, WritePassword(w) PROVE  Linked'
  BY <1>18, LinkedFrame DEF WritePassword, Return, At, Typed, TypeOK, NoTask, Pairing
<1>19. ASSUME NEW w \in Workers, MailSent(w) PROVE  Linked'
  BY <1>19, LinkedFrame DEF MailSent, Return, At, Typed, TypeOK, NoTask, Pairing
<1>20. ASSUME NEW w \in Workers, MailFails(w) PROVE  Linked'
  BY <1>20, LinkedFrame DEF MailFails, Return, At, Typed, TypeOK, NoTask, Pairing
<1>21. ASSUME NEW w \in Workers, WriteReset(w) PROVE  Linked'
  BY <1>21, LinkedFrame DEF WriteReset, Return, At, Typed, TypeOK, NoTask, Pairing
<1>22. ASSUME NEW w \in Workers, ReadLinks(w) PROVE  Linked'
  BY <1>22, LinkedReadLinks
<1>23. ASSUME NEW w \in Workers, WriteHere(w) PROVE  Linked'
  BY <1>23, LinkedWriteHere, TypedStep DEF Next
<1>24. ASSUME NEW w \in Workers, WriteThere(w) PROVE  Linked'
  BY <1>24, LinkedWriteThere, TypedStep DEF Next
<1>25. CASE UNCHANGED vars
  BY <1>25, LinkedFrame DEF vars, Request, Return, At, Typed, TypeOK, NoTask, Pairing
<1> QED
  BY <1>1, <1>2, <1>3, <1>4, <1>5, <1>6, <1>7, <1>8, <1>9, <1>10, <1>11, <1>12, <1>13,
     <1>14, <1>15, <1>16, <1>17, <1>18, <1>19, <1>20, <1>21, <1>22, <1>23, <1>24, <1>25 DEF Next

-----------------------------------------------------------------------------
(* The theorems.                                                           *)

LEMMA InitInv ==
  ASSUME SessionsAssumption, Init
  PROVE  Inv
<1>1. Typed
  BY DEF Init, Typed, TypeOK, WellFormed, Task, NoTask, Numbers, SessionsAssumption,
     Mailing, Pairing
<1>2. Codes
  BY DEF Init, Codes, Numbers
<1>3. Resets
  BY DEF Init, Resets, Resetter, Mailing, At, NoTask
<1>4. Linked
  <2>1. \A a \in Accounts : Cardinality(links[a]) <= MaxLinks
    BY FS_EmptySet DEF Init, SessionsAssumption
  <2> QED
    BY <2>1 DEF Init, Linked, Linker, Informed, Halfway, Agree, Pairing, At, NoTask
<1> QED
  BY <1>1, <1>2, <1>3, <1>4 DEF Inv

\* The four parts are inductive together, whatever requests overlap and
\* whenever the process restarts.
THEOREM Invariance ==
  ASSUME SessionsAssumption
  PROVE  Spec => []Inv
<1>1. Inv /\ [Next]_vars => Inv'
  BY TypedStep, CodesStep, ResetsStep, LinkedStep DEF Inv
<1> QED
  BY <1>1, InitInv, PTL DEF Spec

\* The types of codes, links, tokens and requests in progress.
THEOREM TypeCorrect ==
  ASSUME SessionsAssumption
  PROVE  Spec => []TypeOK
<1>1. Inv => TypeOK
  BY DEF Inv, Typed
<1> QED
  BY <1>1, Invariance, PTL

\* A code that was sent to a phone logs in at most once (verifyLoginOtp,
\* consumeLoginOtpIfValid).
THEOREM OneLoginPerCode ==
  ASSUME SessionsAssumption
  PROVE  Spec => []CodeLogsInOnce
<1>1. Inv => CodeLogsInOnce
  BY DEF Inv, Codes, CodeLogsInOnce
<1> QED
  BY <1>1, Invariance, PTL

\* The stored reset link is the one mailed last and not used (forgotPassword,
\* consumePasswordResetToken), unless two requests overlapped.
THEOREM LastLinkWorks ==
  ASSUME SessionsAssumption
  PROVE  Spec => []MailedLinkWorks
<1>1. Inv => MailedLinkWorks
  BY DEF Inv, Resets, MailedLinkWorks, At, Me
<1> QED
  BY <1>1, Invariance, PTL

\* Of two linked workshops each lists the other (linkMyWorkspace,
\* unlinkMyWorkspace, createMyWorkspaceBranch), unless two requests overlapped,
\* one was cut short or a list became too long.
THEOREM MutualLinks ==
  ASSUME SessionsAssumption
  PROVE  Spec => []LinksAreMutual
<1>1. Inv => LinksAreMutual
  <2>1. SUFFICES ASSUME Inv, NEW a \in Accounts \ torn, NEW b \in Accounts \ torn,
                        \A w \in Workers : {a, b} \cap {Me(w), task[w].other} = {}
                 PROVE  Agree(a, b)
    BY DEF LinksAreMutual, Agree
  <2> QED
    BY <2>1 DEF Inv, Linked
<1> QED
  BY <1>1, Invariance, PTL
=============================================================================
