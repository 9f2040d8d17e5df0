-------------------------------- MODULE Sessions --------------------------------
(***************************************************************************)
(* How an account gets a token: passwords, one-time codes, reset links,    *)
(* and the switch to an account of another workshop that is linked with    *)
(* it or has the same phone.                                               *)
(*                                                                         *)
(* The codes are kept in the memory of the process; everything else in the *)
(* database, and every handler awaits between its reads and its writes.    *)
(* A token is never compared with the row of its account, and logout only  *)
(* answers; what is looked at on every request is whether the workshop is  *)
(* suspended.  Passwords themselves, and mustChangePassword, which is only *)
(* shown, are left out.                                                    *)
(***************************************************************************)
EXTENDS Naturals, FiniteSets

CONSTANTS
  Accounts,     \* User rows, each in a workshop of its own
  Newcomers,    \* those of workshops that do not exist yet
  SamePhone,    \* the pairs of accounts with one phone
  Workers,      \* requests that can be in progress at once
  None,
  MaxLinks,     \* the most links a stored list may have to be read again: 50
  DemoCode,     \* whether the bypass code of LOGIN_OTP_DEMO_CODE is on
  MaxRequests   \* bound: requests that change something; numbers codes and links

SessionsAssumption ==
  /\ Newcomers \subseteq Accounts /\ IsFiniteSet(Accounts)
  /\ SamePhone \subseteq Accounts \X Accounts
  /\ \A a, b, c \in Accounts :
       /\ <<a, b>> \in SamePhone => <<b, a>> \in SamePhone
       /\ {<<a, b>>, <<b, c>>} \subseteq SamePhone /\ a # c => <<a, c>> \in SamePhone
  /\ None \notin Accounts \cup Nat
  /\ DemoCode \in BOOLEAN /\ MaxLinks \in Nat /\ MaxRequests \in Nat

VARIABLES
  active,     \* accounts with a row and isActive
  suspended,  \* accounts of a suspended workshop
  token,      \* accounts someone holds a token of
  otp,        \* by phone, in memory: its code
  codeUses,   \* by code: logins with it
  reset,      \* by account: the reset link whose hash is stored
  expired,    \* codes and links whose time is over
  links,      \* by account: the stored list of linked accounts
  task,       \* the request of each worker
  valid,      \* by account: the link that was mailed last and has not been used
  raced,      \* accounts with two requests for or with a reset link at once
  torn,       \* accounts with two link requests at once, one cut short, or one
              \* that makes their list too long
  requests    \* how many there were

vars == <<active, suspended, token, otp, codeUses, reset, expired, links, task,
          valid, raced, torn, requests>>

-----------------------------------------------------------------------------
Numbers == 1..MaxRequests

\* A phone is named by the accounts that have it; a login with it is that of
\* an active one of them, findActiveUserByTenDigitPhone in no order.
Phone(a) == {b \in Accounts : b = a \/ <<a, b>> \in SamePhone}
Phones == {Phone(a) : a \in Accounts}

Task == [at: {"idle", "verify", "mail", "hash", "change", "read", "both", "here", "there"},
         me: Accounts \cup {None}, other: Accounts \cup {None},
         number: Numbers \cup {None}, adds: BOOLEAN,
         mine: SUBSET Accounts, theirs: SUBSET Accounts]
NoTask == [at |-> "idle", me |-> None, other |-> None, number |-> None, adds |-> FALSE,
           mine |-> {}, theirs |-> {}]

TypeOK ==
  /\ active \subseteq Accounts /\ suspended \subseteq Accounts /\ token \subseteq Accounts
  /\ otp \in [Phones -> Numbers \cup {None}]
  /\ codeUses \in [Numbers -> Nat]
  /\ reset \in [Accounts -> Numbers \cup {None}]
  /\ expired \subseteq Numbers
  /\ links \in [Accounts -> SUBSET Accounts]
  /\ task \in [Workers -> Task]
  /\ valid \in [Accounts -> Numbers \cup {None}]
  /\ raced \subseteq Accounts /\ torn \subseteq Accounts
  /\ requests \in 0..MaxRequests

Init ==
  /\ active = Accounts \ Newcomers
  /\ suspended = {} /\ token = {}
  /\ otp = [p \in Phones |-> None]
  /\ codeUses = [n \in Numbers |-> 0]
  /\ reset = [a \in Accounts |-> None]
  /\ expired = {}
  /\ links = [a \in Accounts |-> {}]
  /\ task = [w \in Workers |-> NoTask]
  /\ valid = [a \in Accounts |-> None]
  /\ raced = {} /\ torn = {}
  /\ requests = 0

At(w, step) == task[w].at = step
Me(w) == task[w].me
Return(w) == task' = [task EXCEPT ![w] = NoTask]
Request(w) == At(w, "idle") /\ requests < MaxRequests /\ requests' = requests + 1
Fresh == requests + 1

\* requireAuth, assertOrganizationAccess; the handler then finds isActive.
Admitted(a) == a \in (token \cap active) \ suspended

-----------------------------------------------------------------------------
(* Passwords and codes.                                                    *)

\* authenticateUser with the right password, authSuccessResponse.
Login(w, a) ==
  /\ Request(w)
  /\ a \in active \ token
  /\ token' = token \cup {a}
  /\ UNCHANGED <<active, suspended, otp, codeUses, reset, expired, links, task, valid, raced, torn>>

\* sendLoginOtp, issueLoginOtp: a code replaces the one before, sent or not.
SendLoginOtp(w, a) ==
  /\ Request(w)
  /\ a \in active
  /\ otp' = [otp EXCEPT ![Phone(a)] = Fresh]
  /\ UNCHANGED <<active, suspended, token, codeUses, reset, expired, links, task, valid, raced, torn>>

\* verifyLoginOtp finds the account first; the code is one that was sent.
VerifyLoginOtp(w, a, code) ==
  /\ Request(w)
  /\ a \in active
  /\ code <= requests
  /\ task' = [task EXCEPT ![w] = [NoTask EXCEPT !.at = "verify", !.me = a, !.number = code]]
  /\ UNCHANGED <<active, suspended, token, otp, codeUses, reset, expired, links, valid, raced, torn>>

\* With a bug: a code stays where it is when it has been used.
KeptCode(p, code) == otp
\* consumeLoginOtpIfValid: read and deleted in one turn of the event loop.
Consumed(p, code) == IF otp[p] \in expired \cup {code} THEN [otp EXCEPT ![p] = None] ELSE otp

ConsumeOtp(w) ==
  LET a == Me(w)
      code == task[w].number
      right == otp[Phone(a)] = code /\ code \notin expired
  IN  /\ At(w, "verify")
      /\ otp' = Consumed(Phone(a), code)
      /\ codeUses' = IF right THEN [codeUses EXCEPT ![code] = @ + 1] ELSE codeUses
      /\ token' = IF right THEN token \cup {a} ELSE token
      /\ Return(w)
      /\ UNCHANGED <<active, suspended, reset, expired, links, valid, raced, torn, requests>>

\* isDemoLoginOtp: the bypass code does for any account.
DemoLogin(w) ==
  /\ DemoCode
  /\ At(w, "verify")
  /\ token' = token \cup {Me(w)}
  /\ Return(w)
  /\ UNCHANGED <<active, suspended, otp, codeUses, reset, expired, links, valid, raced, torn, requests>>

\* A restart of the process loses the codes and the requests in progress.
Restart ==
  /\ otp' = [p \in Phones |-> None]
  /\ task' = [w \in Workers |-> NoTask]
  /\ torn' = torn \cup {a \in Accounts : \E w \in Workers :
                          task[w].at \in {"both", "here", "there"} /\ a \in {Me(w), task[w].other}}
  /\ raced' = raced \cup {a \in Accounts : \E w \in Workers : At(w, "mail") /\ Me(w) = a}
  /\ <<otp, task>>' # <<otp, task>>
  /\ UNCHANGED <<active, suspended, token, codeUses, reset, expired, links, valid, requests>>

\* OTP_TTL_MS, RESET_TTL_MS.
Expire(n) ==
  /\ n \in {otp[p] : p \in Phones} \cup {reset[a] : a \in Accounts}
  /\ n # None /\ n \notin expired
  /\ expired' = expired \cup {n}
  /\ UNCHANGED <<active, suspended, token, otp, codeUses, reset, links, task, valid, raced, torn, requests>>

\* changePassword: the old one is compared, the new one hashed and written,
\* and the answer holds a new token.
ChangePassword(w, a) ==
  /\ Request(w)
  /\ Admitted(a)
  /\ task' = [task EXCEPT ![w] = [NoTask EXCEPT !.at = "change", !.me = a]]
  /\ UNCHANGED <<active, suspended, token, otp, codeUses, reset, expired, links, valid, raced, torn>>

WritePassword(w) ==
  /\ At(w, "change")
  /\ token' = token \cup {Me(w)}
  /\ Return(w)
  /\ UNCHANGED <<active, suspended, otp, codeUses, reset, expired, links, valid, raced, torn, requests>>

\* putUserResetPassword, by an administrator: another password, and whatever
\* reset link there is stays valid.
PutUserResetPassword(w, a) ==
  /\ Request(w)
  /\ a \notin Newcomers
  /\ UNCHANGED <<active, suspended, token, otp, codeUses, reset, expired, links, task, valid, raced, torn>>

-----------------------------------------------------------------------------
(* Reset links.                                                            *)

Resetting(w, a) == \E other \in Workers \ {w} : Me(other) = a /\ task[other].at \in {"mail", "hash"}
Races(w, a) == IF Resetting(w, a) THEN raced \cup {a} ELSE raced

\* forgotPassword: the new link replaces the stored one before it is mailed.
ForgotPassword(w, a) ==
  /\ Request(w)
  /\ a \in active
  /\ reset' = [reset EXCEPT ![a] = Fresh]
  /\ valid' = [valid EXCEPT ![a] = None]
  /\ raced' = Races(w, a)
  /\ task' = [task EXCEPT ![w] = [NoTask EXCEPT !.at = "mail", !.me = a, !.number = Fresh]]
  /\ UNCHANGED <<active, suspended, token, otp, codeUses, expired, links, torn>>

MailSent(w) ==
  /\ At(w, "mail")
  /\ valid' = [valid EXCEPT ![Me(w)] = task[w].number]
  /\ Return(w)
  /\ UNCHANGED <<active, suspended, token, otp, codeUses, reset, expired, links, raced, torn, requests>>

\* In production a link that could not be mailed is cleared, with whatever
\* the account has stored by then.
MailFails(w) ==
  /\ At(w, "mail")
  /\ reset' = [reset EXCEPT ![Me(w)] = None]
  /\ Return(w)
  /\ UNCHANGED <<active, suspended, token, otp, codeUses, expired, links, valid, raced, torn, requests>>

\* consumePasswordResetToken up to the hash of the new password.
CompletePasswordReset(w, link) ==
  /\ Request(w)
  /\ \E a \in active :
       /\ reset[a] = link /\ link \notin expired
       /\ raced' = Races(w, a)
       /\ task' = [task EXCEPT ![w] = [NoTask EXCEPT !.at = "hash", !.me = a, !.number = link]]
  /\ UNCHANGED <<active, suspended, token, otp, codeUses, reset, expired, links, valid, torn>>

\* With a bug: the link is not cleared with the new password.
LinkKept(a) == reset
LinkCleared(a) == [reset EXCEPT ![a] = None]

WriteReset(w) ==
  LET a == Me(w) IN
  /\ At(w, "hash")
  /\ reset' = LinkCleared(a)
  /\ valid' = [valid EXCEPT ![a] = None]
  /\ Return(w)
  /\ UNCHANGED <<active, suspended, token, otp, codeUses, expired, links, raced, torn, requests>>

-----------------------------------------------------------------------------
(* Links between workshops.                                                *)

\* getLinkedWorkspaceUserIds: a list that is too long is read as none.
Read(a) == IF Cardinality(links[a]) > MaxLinks THEN {} ELSE links[a] \ {a}

Linking(w, a) == \E other \in Workers \ {w} : a \in {Me(other), task[other].other}
Overlap(w, a, b) == {x \in {a, b} : Linking(w, x)}
\* Lists that a link of two accounts makes too long to be read again.
HasRoom(x, y) == Cardinality(links[x] \cup {y}) <= MaxLinks
Overflow(a, b) == {x \in {a, b} : \E y \in {a, b} \ {x} : ~HasRoom(x, y)}

\* linkMyWorkspace: the password of the other account was right.
LinkMyWorkspace(w, a, b) ==
  /\ Request(w)
  /\ Admitted(a) /\ b \in active \ {a}
  /\ torn' = torn \cup Overlap(w, a, b) \cup Overflow(a, b)
  /\ task' = [task EXCEPT ![w] = [NoTask EXCEPT !.at = "read", !.me = a, !.other = b, !.adds = TRUE]]
  /\ UNCHANGED <<active, suspended, token, otp, codeUses, reset, expired, links, valid, raced>>

\* unlinkMyWorkspace: of any account that has a row.
UnlinkMyWorkspace(w, a, b) ==
  /\ Request(w)
  /\ Admitted(a) /\ b # a
  /\ torn' = torn \cup Overlap(w, a, b)
  /\ task' = [task EXCEPT ![w] = [NoTask EXCEPT !.at = "read", !.me = a, !.other = b]]
  /\ UNCHANGED <<active, suspended, token, otp, codeUses, reset, expired, links, valid, raced>>

\* createMyWorkspaceBranch: a workshop with its owner, then the link.
CreateMyWorkspaceBranch(w, a, b) ==
  /\ Request(w)
  /\ Admitted(a) /\ b \in Newcomers \ active
  /\ active' = active \cup {b}
  /\ torn' = torn \cup Overlap(w, a, b) \cup Overflow(a, b)
  /\ task' = [task EXCEPT ![w] = [NoTask EXCEPT !.at = "read", !.me = a, !.other = b, !.adds = TRUE]]
  /\ UNCHANGED <<suspended, token, otp, codeUses, reset, expired, links, valid, raced>>

ReadLinks(w) ==
  /\ At(w, "read")
  /\ task' = [task EXCEPT ![w].at = "both", ![w].mine = Read(Me(w)), ![w].theirs = Read(task[w].other)]
  /\ UNCHANGED <<active, suspended, token, otp, codeUses, reset, expired, links, valid, raced, torn, requests>>

\* With a bug: a link is stored for the account that asks only.
OneWay(w) == task[w].theirs
Theirs(w) == IF task[w].adds THEN task[w].theirs \cup {Me(w)} ELSE task[w].theirs \ {Me(w)}
Mine(w) == IF task[w].adds THEN task[w].mine \cup {task[w].other} ELSE task[w].mine \ {task[w].other}

\* The two writes run in parallel: either may come first, and the last one
\* ends the request.
Wrote(w, left) == IF At(w, "both") THEN task' = [task EXCEPT ![w].at = left] ELSE Return(w)

WriteHere(w) ==
  /\ task[w].at \in {"both", "here"}
  /\ links' = [links EXCEPT ![Me(w)] = Mine(w)]
  /\ Wrote(w, "there")
  /\ UNCHANGED <<active, suspended, token, otp, codeUses, reset, expired, valid, raced, torn, requests>>

WriteThere(w) ==
  /\ task[w].at \in {"both", "there"}
  /\ links' = [links EXCEPT ![task[w].other] = Theirs(w)]
  /\ Wrote(w, "here")
  /\ UNCHANGED <<active, suspended, token, otp, codeUses, reset, expired, valid, raced, torn, requests>>

\* resolveSwitchableUser, and a token of the other account.
Switchable(a, b) ==
  /\ a # b /\ a \in active /\ b \in active
  /\ <<a, b>> \in SamePhone \/ b \in Read(a)
  /\ b \notin suspended

SwitchMyWorkspace(a, b) ==
  /\ Admitted(a) /\ b \notin token
  /\ Switchable(a, b)
  /\ token' = token \cup {b}
  /\ UNCHANGED <<active, suspended, otp, codeUses, reset, expired, links, task, valid, raced, torn, requests>>

-----------------------------------------------------------------------------
(* The administrators: deactivation and suspension.                        *)

SetActive(w, a) ==
  /\ Request(w)
  /\ a \notin Newcomers
  /\ active' = IF a \in active THEN active \ {a} ELSE active \cup {a}
  /\ UNCHANGED <<suspended, token, otp, codeUses, reset, expired, links, task, valid, raced, torn>>

Suspend(w, a) ==
  /\ Request(w)
  /\ suspended' = IF a \in suspended THEN suspended \ {a} ELSE suspended \cup {a}
  /\ UNCHANGED <<active, token, otp, codeUses, reset, expired, links, task, valid, raced, torn>>

Next ==
  \/ \E a, b \in Accounts : SwitchMyWorkspace(a, b)
  \/ Restart
  \/ \E n \in Numbers : Expire(n)
  \/ \E w \in Workers :
       \/ \E a \in Accounts :
            \/ Login(w, a) \/ SendLoginOtp(w, a) \/ ChangePassword(w, a)
            \/ ForgotPassword(w, a) \/ SetActive(w, a) \/ Suspend(w, a)
            \/ \E code \in Numbers : VerifyLoginOtp(w, a, code)
            \/ PutUserResetPassword(w, a)
            \/ \E b \in Accounts : LinkMyWorkspace(w, a, b) \/ UnlinkMyWorkspace(w, a, b)
                                     \/ CreateMyWorkspaceBranch(w, a, b)
       \/ \E link \in Numbers : CompletePasswordReset(w, link)
       \/ ConsumeOtp(w) \/ DemoLogin(w) \/ WritePassword(w) \/ MailSent(w) \/ MailFails(w)
       \/ WriteReset(w) \/ ReadLinks(w) \/ WriteHere(w) \/ WriteThere(w)

Spec == Init /\ [][Next]_vars

-----------------------------------------------------------------------------
(* Properties.                                                             *)

\* A one-time code logs in at most once, though its account is looked up
\* with an await between the request and the code's removal.
CodeLogsInOnce == \A n \in Numbers : codeUses[n] <= 1

\* The link that works is the one that was mailed last and has not been used,
\* but where two requests for or with a link of the account overlapped.
MailedLinkWorks ==
  \A a \in Accounts \ raced :
    (\A w \in Workers : Me(w) = a => task[w].at \notin {"mail", "hash"}) => reset[a] = valid[a]

\* "Bidirectional link so either account can switch to the other": after any
\* number of links and unlinks of an account with others, in any order, each
\* of two lists has the other account or neither has, but where two requests
\* overlapped, one was cut short or a list became too long.
LinksAreMutual ==
  \A a, b \in Accounts \ torn :
    (\A w \in Workers : {a, b} \cap {Me(w), task[w].other} = {}) =>
      (b \in links[a] <=> a \in links[b])
=============================================================================
