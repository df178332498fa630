------------------------------ MODULE Account ------------------------------
(***************************************************************************)
(* One account of the explorer, that is one e-mail address: registration,  *)
(* verification, the mails that carry a code or a reset token, resetting   *)
(* and changing the password, and the sessions (UserService, JwtAuthService,*)
(* PasswordAuthService, GoogleOAuthService).                               *)
(*                                                                         *)
(* A handler reads the row of the user, waits for other answers, and saves *)
(* the row: TypeORM compares it with the row of that moment and updates    *)
(* every column that differs, so what was written in between is taken      *)
(* back.  Requests run concurrently; each statement is one step.           *)
(*                                                                         *)
(* A tick stands for the seconds in which times are compared; the five     *)
(* minutes between two mails are Gap ticks, and a day is Day ticks.        *)
(***************************************************************************)
EXTENDS Integers, FiniteSets, Sequences

CONSTANTS
  Requests,      \* slots for concurrent requests
  MaxPerDay,     \* FIVE_TIMES
  Gap, Day,      \* ticks
  MaxClock,      \* bound: ticks
  MaxRequests,   \* bound: requests that are started
  MaxFail,       \* bound: requests that fail or die half way
  NoUser,        \* the address has no row
  None           \* a column that is null

ASSUME ConstantsOK ==
  /\ {MaxPerDay, Gap, Day} \subseteq Nat \ {0}
  /\ {MaxClock, MaxRequests, MaxFail} \subseteq Nat
  /\ None \notin Nat

VARIABLES
  account,    \* the row of user
  acts,       \* the rows of user_activity about mails; the id is the position
  mails,      \* the jobs ever added to the mail queue
  sessions,   \* the tokens ever signed
  request,    \* request[r]: what the request in slot r holds
  clock,
  started, fails,
  undone,     \* history: columns a save has taken back
  disturbed   \* history: two requests for mails overlapped, or one died

vars == <<account, acts, mails, sessions, request, clock, started, fails, undone, disturbed>>

\* Passwords, codes and tokens are fresh: the number of the request that made
\* them.
Secret   == 1..MaxRequests
Time     == -(Gap + 1)..MaxClock
User     == [provider : {"password", "google"}, password : Secret \cup {None},
             code : Secret \cup {None}, verified : BOOLEAN,
             token : Secret \cup {None}, required : Time]
ASSUME NoUserIsNoRow == NoUser \notin User

Never    == -1
MailOps  == {"register", "resend", "sendReset"}
RowOps   == {"activate", "reset", "change", "rename", "google"}
Activity == [kind : {"verify", "reset"}, owned : BOOLEAN,
             attempts : 0..MaxPerDay, last : Time]
Mail     == [kind : {"verify", "reset"}, secret : Secret, time : Time]
Session  == [iat : 0..MaxClock, password : Secret \cup {None}, raced : BOOLEAN]

\* listed: the activities read with the user; id, attempts, last: the activity
\* to save; mine: it was created by this request; raced: the session that is
\* refreshed was.
Blank ==
  [op |-> "none", at |-> "idle", row |-> NoUser, listed |-> <<>>, id |-> 0,
   attempts |-> 0, last |-> Never, mine |-> FALSE, secret |-> None, raced |-> FALSE]
Request ==
  [op : MailOps \cup RowOps \cup {"login", "refresh", "none"},
   at : {"idle", "insert", "queue", "commit", "find", "create", "saveUser",
         "count", "expiry", "guarded", "signUp", "sign"},
   row : User \cup {NoUser}, listed : Seq(Activity), id : Nat,
   attempts : 0..MaxPerDay, last : Time, mine : BOOLEAN,
   secret : Secret \cup {None}, raced : BOOLEAN]

TypeOK ==
  /\ account \in User \cup {NoUser}
  /\ acts \in Seq(Activity)
  /\ mails \in Seq(Mail)
  /\ sessions \subseteq Session
  /\ request \in [Requests -> Request]
  /\ \A r \in Requests :
       LET q == request[r] IN
       /\ q.at = "idle" <=> q = Blank
       /\ q.at \in {"queue", "commit", "saveUser", "sign"} => q.row # NoUser
       /\ q.at = "count" => q.id \in DOMAIN acts
  /\ clock \in 0..MaxClock /\ started \in 0..MaxRequests /\ fails \in 0..MaxFail
  /\ undone \subseteq {"password", "verified"} /\ disturbed \in BOOLEAN

Init ==
  /\ account = NoUser /\ acts = <<>> /\ mails = <<>> /\ sessions = {}
  /\ request = [r \in Requests |-> Blank]
  /\ clock = 0 /\ started = 0 /\ fails = 0
  /\ undone = {} /\ disturbed = FALSE

-----------------------------------------------------------------------------
(* Requests                                                                *)

Start(r, op, at, q) ==
  /\ request[r] = Blank /\ started < MaxRequests
  /\ started' = started + 1
  /\ request' = [request EXCEPT ![r] = [q EXCEPT !.op = op, !.at = at]]
  /\ disturbed' = (disturbed \/ /\ op \in MailOps
                                /\ \E s \in Requests : request[s].op \in MailOps)
  /\ UNCHANGED <<account, acts, mails, sessions, clock, fails, undone>>

Goto(r, at) == request' = [request EXCEPT ![r].at = at]
Finish(r)   == request' = [request EXCEPT ![r] = Blank]
Read        == [Blank EXCEPT !.row = account]
fresh       == started + 1

\* An INSERT in an open transaction makes other inserts of the address wait.
Locked == \E r \in Requests : request[r].op = "register" /\ request[r].at \in {"queue", "commit"}

Tick ==
  /\ clock < MaxClock
  /\ clock' = clock + 1
  /\ UNCHANGED <<account, acts, mails, sessions, request, started, fails, undone, disturbed>>

\* An error of the database or of Redis, or a crash; a transaction rolls back,
\* and a mail that is in the queue stays there.
Abort(r) ==
  /\ request[r] # Blank /\ fails < MaxFail
  /\ fails' = fails + 1
  /\ disturbed' = (disturbed \/ request[r].op \in MailOps)
  /\ Finish(r)
  /\ UNCHANGED <<account, acts, mails, sessions, clock, started, undone>>

-----------------------------------------------------------------------------
(* Registration                                                            *)

Registered(secret) ==
  [provider |-> "password", password |-> secret, code |-> secret,
   verified |-> FALSE, token |-> None, required |-> Never]

\* IsUnique, then createUserWithPassword up to its transaction.
Register(r) ==
  /\ account = NoUser
  /\ Start(r, "register", "insert",
           [Blank EXCEPT !.row = Registered(fresh), !.attempts = 1, !.last = clock])

InsertUser(r) ==
  /\ request[r].op = "register" /\ request[r].at = "insert" /\ ~Locked
  /\ IF account = NoUser THEN Goto(r, "queue") ELSE Finish(r)
  /\ UNCHANGED <<account, acts, mails, sessions, clock, started, fails, undone, disturbed>>

Commit(r) ==
  /\ request[r].at = "commit"
  /\ account' = request[r].row
  /\ acts' = Append(acts, [kind |-> "verify", owned |-> TRUE,
                           attempts |-> request[r].attempts, last |-> request[r].last])
  /\ Finish(r)
  /\ UNCHANGED <<mails, sessions, clock, started, fails, undone, disturbed>>

\* The link of a verification mail.
Activate(r) ==
  /\ account # NoUser /\ ~account.verified
  /\ \E i \in DOMAIN mails : mails[i].kind = "verify" /\ mails[i].secret = account.code
  /\ Start(r, "activate", "saveUser", [Read EXCEPT !.row.verified = TRUE])

-----------------------------------------------------------------------------
(* Mails                                                                   *)

Resend(r) ==
  /\ account # NoUser /\ ~account.verified /\ account.provider = "password"
  /\ Start(r, "resend", "find", Read)

Known == account # NoUser
Resettable == account # NoUser /\ account.verified
SendReset(r) ==
  /\ Resettable
  /\ Start(r, "sendReset", "find", [Read EXCEPT !.row.token = fresh, !.listed = acts])

Kind(op)   == IF op = "sendReset" THEN "reset" ELSE "verify"
Owned(op)  == {i \in DOMAIN acts : acts[i].owned /\ acts[i].kind = Kind(op)}
Midnight   == clock - (clock % Day)

\* limitSendMail and increaseSendMailAttempt; what it refuses is not saved.
Attempts(a) == IF a.last < Midnight THEN 1 ELSE a.attempts + 1
AllowedBefore(a) == a.last <= clock - Gap /\ a.attempts <= MaxPerDay
Allowed(a)  == a.last <= clock - Gap /\ Attempts(a) <= MaxPerDay

FindActivity(r) ==
  /\ request[r].at = "find"
  /\ \/ \E i \in Owned(request[r].op) :
          IF Allowed(acts[i])
          THEN request' = [request EXCEPT ![r].at = "queue", ![r].id = i,
                             ![r].attempts = Attempts(acts[i]), ![r].last = clock]
          ELSE Finish(r)
     \/ /\ Owned(request[r].op) = {}
        /\ IF request[r].op = "sendReset" THEN Goto(r, "create") ELSE Finish(r)
  /\ UNCHANGED <<account, acts, mails, sessions, clock, started, fails, undone, disturbed>>

\* findOrCreateUserActivity backdates the row, so that its first mail may go.
CreateActivity(r) ==
  /\ request[r].at = "create"
  /\ acts' = Append(acts, [kind |-> "reset", owned |-> TRUE, attempts |-> 0,
                           last |-> clock - Gap - 1])
  /\ request' = [request EXCEPT ![r].at = "queue", ![r].id = Len(acts) + 1,
                   ![r].attempts = 1, ![r].last = clock, ![r].mine = TRUE]
  /\ UNCHANGED <<account, mails, sessions, clock, started, fails, undone, disturbed>>

MailOfStored(q) ==
  [kind |-> Kind(q.op), time |-> q.last,
   secret |-> IF q.op = "sendReset" THEN account.token ELSE q.row.code]
MailOf(q) ==
  [kind |-> Kind(q.op), time |-> q.last,
   secret |-> IF q.op = "sendReset" THEN q.row.token ELSE q.row.code]
AfterMail == [register |-> "commit", resend |-> "count", sendReset |-> "saveUser"]

QueueMail(r) ==
  /\ request[r].at = "queue"
  /\ mails' = Append(mails, MailOf(request[r]))
  /\ Goto(r, AfterMail[request[r].op])
  /\ UNCHANGED <<account, acts, sessions, clock, started, fails, undone, disturbed>>

\* mine: the activity holds its user, and saving it sets the foreign key.
SaveActivity(r) ==
  /\ request[r].at = "count"
  /\ LET q == request[r] IN
     acts' = [acts EXCEPT ![q.id].attempts = q.attempts, ![q.id].last = q.last,
                          ![q.id].owned = @ \/ q.mine]
  /\ Finish(r)
  /\ UNCHANGED <<account, mails, sessions, clock, started, fails, undone, disturbed>>

-----------------------------------------------------------------------------
(* The row of the user                                                     *)

\* sendResetPasswordEmail saves a user with the activities that were read with
\* it.  The save cascades: they are written back as they were read, and an
\* activity that is not among them loses its user.
CascadeDeletes(listed) == listed
Cascade(listed) ==
  [i \in DOMAIN acts |->
     IF i \in DOMAIN listed /\ listed[i].owned THEN listed[i]
     ELSE [acts[i] EXCEPT !.owned = FALSE]]

RequiredOnChange(op, row) == IF op = "change" THEN clock ELSE row.required
Required(op, row) == IF op \in {"reset", "change"} THEN clock ELSE row.required

AfterSave(op) == CASE op = "sendReset" -> "count" [] op = "google" -> "sign" [] OTHER -> "idle"

SaveUser(r) ==
  /\ request[r].at = "saveUser"
  /\ LET q == request[r] IN
     /\ account' = [q.row EXCEPT !.required = Required(q.op, q.row)]
     /\ acts' = IF q.op = "sendReset" THEN Cascade(q.listed) ELSE acts
     /\ undone' = undone
          \cup {c \in {"password"} : q.op \notin {"reset", "change"}
                                     /\ q.row.password # account.password}
          \cup {c \in {"verified"} : account.verified /\ ~q.row.verified}
     /\ IF AfterSave(q.op) = "idle" THEN Finish(r) ELSE Goto(r, AfterSave(q.op))
  /\ UNCHANGED <<mails, sessions, clock, started, fails, disturbed>>

\* The link of a reset mail; without a stored token any is taken.
Reset(r) ==
  /\ account # NoUser
  /\ account.token # None =>
       \E i \in DOMAIN mails : mails[i].kind = "reset" /\ mails[i].secret = account.token
  /\ Start(r, "reset", "expiry",
           [Read EXCEPT !.row.password = fresh, !.row.token = None, !.row.provider = "password"])

CheckExpiry(r) ==
  /\ request[r].at = "expiry"
  /\ \/ /\ Owned("sendReset") = {}
        /\ Goto(r, "saveUser")
     \/ \E i \in Owned("sendReset") :
          IF clock > acts[i].last + Day THEN Finish(r) ELSE Goto(r, "saveUser")
  /\ UNCHANGED <<account, acts, mails, sessions, clock, started, fails, undone, disturbed>>

\* checkLastRequiredLogin
Accepted(s) == account # NoUser /\ account.required <= s.iat

\* The guards let the request pass, and the handler reads the row again.  The
\* right old password is given; it is not asked for when there is none.
ChangePassword(r) ==
  /\ \E s \in sessions : Accepted(s)
  /\ Start(r, "change", "guarded", [Blank EXCEPT !.secret = fresh])

ReadForChange(r) ==
  /\ request[r].at = "guarded"
  /\ IF account.provider = "password" \/ account.password = None
     THEN request' = [request EXCEPT ![r].at = "saveUser", ![r].secret = None,
            ![r].row = [account EXCEPT !.password = request[r].secret,
                                       !.provider = "password"]]
     ELSE Finish(r)
  /\ UNCHANGED <<account, acts, mails, sessions, clock, started, fails, undone, disturbed>>

\* PATCH /users/:id; only the name is taken from the request.
Rename(r) ==
  /\ account # NoUser
  /\ Start(r, "rename", "saveUser", Read)

-----------------------------------------------------------------------------
(* Sessions                                                                *)

Login(r) ==
  /\ account # NoUser /\ account.password # None /\ account.verified
  /\ Start(r, "login", "sign", Read)

Refresh(r) ==
  \E s \in sessions :
    /\ Accepted(s)
    /\ Start(r, "refresh", "sign", [Read EXCEPT !.raced = s.raced])

GoogleLogin(r) ==
  \/ account = NoUser /\ Start(r, "google", "signUp", Blank)
  \/ /\ account # NoUser /\ ~account.verified
     /\ Start(r, "google", "saveUser", [Read EXCEPT !.row.verified = TRUE])
  \/ account # NoUser /\ account.verified /\ Start(r, "google", "sign", Read)

GoogleUser ==
  [provider |-> "google", password |-> None, code |-> None, verified |-> TRUE,
   token |-> None, required |-> Never]

GoogleSignUp(r) ==
  /\ request[r].at = "signUp" /\ ~Locked
  /\ IF account = NoUser
     THEN account' = GoogleUser /\ request' = [request EXCEPT ![r].at = "sign", ![r].row = GoogleUser]
     ELSE Finish(r) /\ UNCHANGED account
  /\ UNCHANGED <<acts, mails, sessions, clock, started, fails, undone, disturbed>>

Sign(r) ==
  /\ request[r].at = "sign"
  /\ sessions' = sessions \cup
       {[iat |-> clock, password |-> request[r].row.password,
         raced |-> request[r].raced \/ request[r].row.password # account.password]}
  /\ Finish(r)
  /\ UNCHANGED <<account, acts, mails, clock, started, fails, undone, disturbed>>

-----------------------------------------------------------------------------
Step(r) ==
  \/ Register(r) \/ InsertUser(r) \/ Commit(r) \/ Activate(r)
  \/ Resend(r) \/ SendReset(r) \/ FindActivity(r) \/ CreateActivity(r)
  \/ QueueMail(r) \/ SaveActivity(r)
  \/ Reset(r) \/ CheckExpiry(r) \/ ChangePassword(r) \/ ReadForChange(r) \/ Rename(r)
  \/ SaveUser(r)
  \/ Login(r) \/ Refresh(r) \/ GoogleLogin(r) \/ GoogleSignUp(r) \/ Sign(r)
  \/ Abort(r)

\* No request is open: the only state in which nothing has to happen.
Quiet == (\A r \in Requests : request[r] = Blank) /\ UNCHANGED vars

Next == Tick \/ Quiet \/ \E r \in Requests : Step(r)

Spec == Init /\ [][Next]_vars

-----------------------------------------------------------------------------
(* Properties                                                              *)

\* What the database stores to be compared with a link was put into a mail
\* before: nobody waits for a code or a token that was never sent.  The mail
\* is queued before the transaction commits or the row is saved, and a save
\* of a stale row only brings back what had been sent as well.
EveryStoredSecretWasMailed ==
  account # NoUser =>
    /\ account.code # None =>
         \E i \in DOMAIN mails : mails[i].kind = "verify" /\ mails[i].secret = account.code
    /\ account.token # None =>
         \E i \in DOMAIN mails : mails[i].kind = "reset" /\ mails[i].secret = account.token

\* Once the password was reset or changed, a session that was opened with an
\* earlier one is refused (checkLastRequiredLogin), except in the second of
\* the change itself.  The exceptions are a session signed from a row that was
\* read before the change, and a save that took the change back.
OldSessionsAreRefused ==
  "password" \notin undone =>
    \A s \in sessions :
      Accepted(s) /\ ~s.raced /\ s.password # account.password => s.iat = account.required

\* A verified address stays verified.  Only a reset and a rename may have read
\* the row before the verification and save it afterwards: the other handlers
\* that save a row have seen it verified, unless it was taken back before.
VerificationStays ==
  [][ account # NoUser /\ account.verified /\ ~account'.verified =>
        \/ "verified" \in undone
        \/ \E r \in Requests : /\ request[r].at = "saveUser" /\ request'[r] = Blank
                              /\ request[r].op \in {"reset", "rename"} ]_vars

\* "5 times per day, 5 minutes between each time" (limitSendMail), for each
\* kind of mail.
MailLimitHolds ==
  \A i, j \in DOMAIN mails :
    mails[i].kind = mails[j].kind =>
      /\ i < j => mails[j].time - mails[i].time >= Gap
      /\ Cardinality({k \in DOMAIN mails : /\ mails[k].kind = mails[i].kind
                                          /\ mails[k].time \div Day = mails[i].time \div Day})
           <= MaxPerDay

\* The limit holds as long as no two requests for mails of the account overlap
\* and none of them dies: over midnight, with a row that the first request
\* creates, orphans and adopts again, and with refused requests between.
MailLimitHoldsAlone == ~disturbed => MailLimitHolds

=============================================================================
